SPECIFICATION MCSpec
CONSTANTS
  a = a
  Instances <- OneProcess
  Workers <- OneProcess
  Home <- AtHome
  NoOwner = NoOwner
  NoTask = NoTask
  NoDigest = NoDigest
  MaxProcessingAttempts = 2
  MaxGraphProcessingAttempts = 2
  QueueCapacity = 1
  Batches = 1
  LateKinds <- OnlyUpsert
  MaxLate = 1
  MaxFaults = 1
PROPERTIES
  EveryRemovalEnds
  RemovalLeavesNothing
  PromiseKept
CHECK_DEADLOCK FALSE
