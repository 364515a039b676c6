\* Three callbacks on an estimate that is not aligned again; statfs fails.
SPECIFICATION AlignedSpec
CONSTANTS
  Writers = {w1, w2, w3}
  Capacity = 3
  InitialUsed = 1
  Sizes = {1, 2}
  TTL = 1
  Rounding = 0
  StatfsOutcomes = {"fails"}
SYMMETRY Interchangeable
INVARIANTS
  OvershootBounded
