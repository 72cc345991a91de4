SPECIFICATION Spec
CONSTANTS
  a = a
  b = b
  a1 = a1
  a2 = a2
  Instances <- TwoInstances
  Workers <- OneWorkerEach
  Home <- HomeOf
  NoOwner = NoOwner
  NoTask = NoTask
  NoDigest = NoDigest
  MaxProcessingAttempts = 2
  MaxGraphProcessingAttempts = 2
  QueueCapacity = 1
  Batches = 1
  LateKinds <- AllButDeleteAll
  MaxLate = 1
  MaxFaults = 1
SYMMETRY ProcessSymmetry
INVARIANTS
  ReadyIsCurrent
  RemovedStaysGone
  HistorySettled
CHECK_DEADLOCK FALSE
