SPECIFICATION Spec
CONSTANTS
  a = a
  b = b
  a1 = a1
  a2 = a2
  Instances <- TwoInstances
  Workers <- TwoWorkersOnA
  Home <- HomeOf
  NoOwner = NoOwner
  NoTask = NoTask
  NoDigest = NoDigest
  MaxProcessingAttempts = 2
  MaxGraphProcessingAttempts = 2
  QueueCapacity = 2
  Batches = 1
  LateKinds <- AllButDeleteAll
  MaxLate = 0
  MaxFaults = 1
SYMMETRY WorkerSymmetry
INVARIANTS
  WorkIsExclusive
CHECK_DEADLOCK FALSE
