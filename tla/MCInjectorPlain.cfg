\* Plain rules with quotas beside a bad sector; IDs, refresh reports, latency.
SPECIFICATION Spec
CONSTANTS
  MaxInt = 15
  MaxHealedBlocks = 2
  Paths = {"a", "b"}
  OtherOps = {"getattr"}
  Errnos = {5, 13, 28, 30}
  RuleInputs <- PlainRules
  SpareInputs <- PlainSpares
  Offsets = {0, 1}
  Lengths = {1}
  Profiles = {"none", "hdd"}
  NoProfile = "none"
  SpeedInputs <- PlainSpeeds
  MaxRules = 2
  MaxID = 3
INVARIANTS
  TypeOK
  QuotaWithinN
PROPERTIES
  OneHitPerAnswer
  IDNamesOneRule
  RefreshReportsChanges
