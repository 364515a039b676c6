\* Healing rules only: overlapping regions, every block size, tight budgets.
SPECIFICATION Spec
CONSTANTS
  MaxInt = 8
  MaxHealedBlocks = 2
  Paths = {"a"}
  OtherOps = {"getattr"}
  Errnos = {5}
  RuleInputs <- HealRules
  SpareInputs <- HealSpares
  Offsets = {0, 3}
  Lengths = {1, 3}
  Profiles = {"none"}
  NoProfile = "none"
  SpeedInputs = {10}
  MaxRules = 2
  MaxID = 2
INVARIANTS
  SpareWithinBudget
  NoFreeRemap
  ReadPassesOnlyRepaired
PROPERTIES
  ImplementsDevice
  OnlyWrittenBlocksRepaired
