SPECIFICATION MCSpec
CONSTANTS
  graph = graph
  answer1 = answer1
  answer2 = answer2
  Callers = {graph, answer1, answer2}
  Background = {graph}
  Cost <- MCCost
  Limit <- MCLimit
  Reserve <- MCReserve
  LastWindow = 2
INVARIANTS
  WindowsRespected
  ReadyMeansComplete
PROPERTIES
  InteractiveHoldback
  RetrySucceeds
  ExtractedIsKept
  EveryBatchSettles
CHECK_DEADLOCK FALSE
