\* Two callbacks and control requests, a backing whose writes may be short or fail.
SPECIFICATION DataSpec
CONSTANTS
  MaxInt = 3
  Paths = {"a"}
  OtherOps = {"readdir", "getattr"}
  Errnos = {5}
  MaxHealedBlocks = 2
  RuleInputs <- SectorOnly
  SpareInputs <- OneBudget
  Offsets = {0, 1}
  Lengths = {1}
  Profiles = {"none"}
  NoProfile = "none"
  SpeedInputs = {10}
  MaxRules = 1
  MaxID = 1
  Callbacks = {c1, c2}
  TimedOps = {"getattr"}
  BackingMayFail = TRUE
  FailedCount = 2
SYMMETRY Interchangeable
INVARIANTS
  DataTypeOK
  
  SequentialWritesContiguous
