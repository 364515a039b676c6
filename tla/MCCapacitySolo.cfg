\* One callback at a time: the estimate is safe and recovers.
SPECIFICATION FairSpec
CONSTANTS
  Writers = {w1}
  Capacity = 4
  InitialUsed = 1
  Sizes = {0, 1, 2}
  TTL = 2
  Rounding = 0
  StatfsOutcomes = {"ok"}
INVARIANTS
  TypeOK
  NoOvershoot
PROPERTIES
  RetriesGetThrough
