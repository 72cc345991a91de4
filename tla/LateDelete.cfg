SPECIFICATION Spec
CONSTANTS
  a = a
  b = b
  a1 = a1
  a2 = a2
  Instances <- TwoInstances
  Workers <- OneWorkerEach
  Home <- HomeOf
  NoOwner = NoOwner
  NoTask = NoTask
  NoDigest = NoDigest
  MaxProcessingAttempts = 2
  MaxGraphProcessingAttempts = 2
  QueueCapacity = 1
  Batches = 0
  LateKinds <- OnlyDeleteAll
  MaxLate = 1
  MaxFaults = 0
SYMMETRY ProcessSymmetry
INVARIANTS
  ReadyVectorsCurrent
CHECK_DEADLOCK FALSE
