SPECIFICATION MCSpec
CONSTANTS
  x = x
  y = y
  NoTask = NoTask
  NoDigest = NoDigest
  None = None
  Digests <- Two
  MaxAttempts = 3
SYMMETRY Symmetry
INVARIANTS
  ReadyShowsItsAttempt
  PublicationIsNotUndone
  CitesOneReadyExecution
  ShowsWhatWasAsked
  WalkPassesNothingBy
CHECK_DEADLOCK FALSE
