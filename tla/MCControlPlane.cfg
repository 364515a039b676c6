\* Two control clients among single commands and file system traffic.
SPECIFICATION ControlSpec
CONSTANTS
  MaxInt = 3
  Paths = {"a"}
  OtherOps = {}
  Errnos = {5}
  MaxHealedBlocks = 2
  RuleInputs <- SectorOnly
  SpareInputs <- OneBudget
  Offsets = {0}
  Lengths = {1}
  Profiles = {"none", "fast", "clamped"}
  NoProfile = "none"
  SpeedInputs = {20}
  MaxRules = 1
  MaxID = 1
  Clients = {c1, c2}
  Unset = Unset
  Limited = {"fast"}
  Clamped <- ClampTo
  LatencyInputs <- Latencies
  BadsectorInputs <- BadSectors
INVARIANTS
  ControlTypeOK
  RepairsShownArePaid
  ClampedUnlessFailed
  LatencyTakesEffect
PROPERTIES
  OneMeasurement
  SectorComesWithItsBudget
  EveryRequestAnswered
