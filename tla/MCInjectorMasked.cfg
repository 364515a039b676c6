\* Overlapping per-block rules: a repaired one hides the one behind it.
SPECIFICATION Spec
CONSTANTS
  MaxInt = 8
  MaxHealedBlocks = 2
  Paths = {"a"}
  OtherOps = {"getattr"}
  Errnos = {5}
  RuleInputs <- HealRules
  SpareInputs <- HealSpares
  Offsets = {0, 3}
  Lengths = {1, 3}
  Profiles = {"none"}
  NoProfile = "none"
  SpeedInputs = {10}
  MaxRules = 2
  MaxID = 2
INVARIANTS
  RewriteLeavesNothingBad
