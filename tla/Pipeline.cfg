SPECIFICATION MCSpec
CONSTANTS
  a = a
  b = b
  c = c
  Workers <- ThreeWorkers
  NoOwner = NoOwner
  MaxProcessingAttempts = 2
  MaxGraphProcessingAttempts = 2
  MaxFaults = 1
SYMMETRY Symmetry
INVARIANTS
  StoresMatchRow
  ChunksHoldThePage
  AcceptedText
  BatchesAreChosen
  MergeIsFaithful
  GraphShown
  CitesWhatIsAsked
  RankedAsScored
CHECK_DEADLOCK FALSE
