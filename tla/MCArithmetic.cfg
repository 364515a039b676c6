\* A 4-bit int64; a second of 3 time units keeps 1s / bw on both sides of it.
SPECIFICATION Spec
CONSTANTS
  MaxInt = 7
  MaxBlockSize = 4
  Second = 3
  FloatGrain = 2
  NoNumber = NoNumber
  Refused = Refused
  WholeWithin = 3
INVARIANTS
  CoverRangeExact
  OverlapAgreesWithCover
  ChargeIsCeil
  ByteDelayClamps
  AdjustedReachesTarget
  LowerBandwidthIsSlower
  ParsedSizeFits
  AcceptedSpeedIsBounded
  DfAgreesWithGate
  CapacityFullFirst
