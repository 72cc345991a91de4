SPECIFICATION MCSpec
CONSTANTS
  w1 = w1
  b1 = b1
  d1 = d1
  NoTask = NoTask
  NoDigest = NoDigest
  Calls = {1, 2}
  Keys = {"groq", "gemini"}
  RepairEnabled = TRUE
  Cooldown = 2
  RetryAfters = {4}
  LastTime = 3
INVARIANTS
  OpenMeansFailing
PROPERTIES
  CooldownIsKept
  JobEnds
  IntentsAreClosed
CHECK_DEADLOCK FALSE
