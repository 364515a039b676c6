SPECIFICATION Spec
CONSTANTS
  MaxInt = 7
  MaxBlockSize = 4
  Second = 3
  FloatGrain = 2
  NoNumber = NoNumber
  Refused = Refused
  WholeWithin = 3
INVARIANTS
  MoreBytesNeverFaster
