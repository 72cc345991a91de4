SPECIFICATION MCSpec
CONSTANTS
  w1 = w1
  w2 = w2
  b1 = b1
  d1 = d1
  d2 = d2
  Workers <- TwoWorkers
  Baselines <- OneBaseline
  Drafts <- TwoDrafts
  NoTask = NoTask
  NoDigest = NoDigest
  MaxAttempts = 3
  DocumentAttempts = 2
SYMMETRY Symmetry
INVARIANTS
  ReceiptIsTrue
  ResultDescribesGraph
  EvidenceKept
  CapacityKept
PROPERTIES
  ProjectionSpec
CHECK_DEADLOCK FALSE
