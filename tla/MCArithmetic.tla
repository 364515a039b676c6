---------------------------- MODULE MCArithmetic ----------------------------
(***************************************************************************)
(* BlockMath against reference definitions written with sets of file       *)
(* bytes and unbounded integers, DelayMath against unbounded arithmetic,   *)
(* and SizeMath against what a mount and its gate do with the numbers, for *)
(* every input of a small int64.  Each initial state is one input: a bad   *)
(* region with a request, a delay, a number a user gives, or a backing     *)
(* with a capacity; nothing moves.                                         *)
(***************************************************************************)
EXTENDS SizeMath

CONSTANT MaxBlockSize  \* bound of the block sizes, and of the blocks of a backing

ASSUME BlockSizeAssumption == MaxBlockSize \in Nat

VARIABLE in

Regions == [rOff : 0..MaxInt, rLen : 1..MaxInt, off : 0..MaxInt, len : 0..MaxInt, bs : 2..MaxBlockSize]
Delays == [d : 0..MaxInt, perByte : 0..MaxInt, n : 0..MaxInt]
Numbers ==
  {<<p, q>> : p \in -3..MaxInt, q \in 2..3}
    \cup {<<Float64(p), 1>> : p \in -1..(2 * MaxInt + 2)} \cup {NoNumber}
Given == [number : Numbers]
Backings == [capacity : 1..MaxInt, blocks : 0..MaxBlockSize, free : 0..MaxBlockSize, frsize : 1..3]

Init == in \in Regions \/ in \in Delays \/ in \in Given \/ in \in Backings
Next == UNCHANGED in
Spec == Init /\ [][Next]_in

IsRegion == "bs" \in DOMAIN in
IsDelay == "perByte" \in DOMAIN in
IsGiven == "number" \in DOMAIN in
IsBacking == "frsize" \in DOMAIN in

-----------------------------------------------------------------------------
(* Block arithmetic *)

FileBytes == 0..(MaxInt - 1)
RegionBytes == {x \in FileBytes : in.rOff <= x /\ x < in.rOff + in.rLen}
RequestBytes == {x \in FileBytes : in.off <= x /\ x < in.off + in.len}
GridBlocks == BlocksNeeded(in.rLen, in.bs)
BlockBytes(j) == {x \in RegionBytes : in.rOff + j * in.bs <= x /\ x < in.rOff + (j + 1) * in.bs}
Covered == CoverRange(in.rOff, in.rLen, in.off, in.len, in.bs, GridBlocks)

(* coverRange returns exactly the blocks that share a byte with the        *)
(* request, up to the clamped top of the file.                             *)
CoverRangeExact ==
  IsRegion => Covered = {j \in 0..(GridBlocks - 1) : BlockBytes(j) \cap RequestBytes # {}}

(* Check's region test and coverRange agree on which requests meet the     *)
(* region, so no write is matched without having a block to repair and no  *)
(* read of a bad block is skipped.                                         *)
OverlapAgreesWithCover ==
  IsRegion => (in.len > 0 => (Overlaps(in.rOff, in.rLen, in.off, in.len) <=> Covered # {}))

(* As long as the byte count fits in int64, the charge pays for the healed *)
(* bytes in live blocks and is the smallest that does.                     *)
ChargeIsCeil ==
  IsRegion =>
    \A count \in 1..GridBlocks, live \in 1..MaxBlockSize :
      count * in.bs <= MaxInt =>
        LET c == GridBlocksToSpare(count, in.bs, live)
        IN  count * in.bs <= c * live /\ (c - 1) * live < count * in.bs

-----------------------------------------------------------------------------
(* Delay arithmetic *)

(* The division test of addByteDelay finds every overflow of the product,  *)
(* those that wrap to a positive number or to zero included, and no other. *)
ByteDelayClamps ==
  IsDelay => AddByteDelay(0, in.perByte, in.n) = SmallerOf(in.perByte * in.n, MaxInt)

(* A bandwidth turned into a delay for each byte and taken back from the   *)
(* backing's own: the two together are the slower of target and backing.   *)
AdjustedReachesTarget ==
  IsDelay =>
    LET bw == <<in.d, in.n + 1>>
        own == BwToByteDur(bw)
    IN  in.perByte > 0 /\ in.d > 0 =>
          AdjustByteDur(in.perByte, bw) + own = LargerOf(in.perByte, own)

(* A lower bandwidth never gives a shorter delay, however low it is.       *)
LowerBandwidthIsSlower ==
  IsDelay =>
    \A q \in 1..(in.n + 1) :
      in.d > 0 => BwToByteDur(<<in.d, q>>) <= BwToByteDur(<<in.d, in.n + 1>>)

(* At normal speed a request with more bytes never sleeps less: the        *)
(* overflow guards keep the slowest settings the slowest.                  *)
MoreBytesNeverFaster ==
  IsDelay =>
    \A k \in 0..in.n :
      \A x \in SleepFor(AddByteDelay(in.d, in.perByte, in.n), <<1, 1>>) :
        \E y \in SleepFor(AddByteDelay(in.d, in.perByte, k), <<1, 1>>) : y <= x

-----------------------------------------------------------------------------
(* Sizes, speeds and capacities *)

(* A size that is accepted is the nearest integer and fits in int64, and a *)
(* block size is what was written up to the tolerance; nothing wraps.      *)
ParsedSizeFits ==
  IsGiven =>
    LET x == in.number
        n == FiniteNonNegInt64(x)
        bs == SpareBlockSizeOf(x)
    IN  /\ n # Refused =>
             n \in 0..MaxInt /\ 2 * (n * x[2] - x[1]) <= x[2] /\ 2 * (x[1] - n * x[2]) <= x[2]
        /\ bs # Refused => bs \in 1..MaxInt /\ WholeWithin * Distance(x[1], bs * x[2]) <= x[2]

(* An accepted speed costs at most a second for each byte, and it is       *)
(* unlimited when it is 0 or more than a byte in each nanosecond, but for  *)
(* no other speed.                                                         *)
AcceptedSpeedIsBounded ==
  IsGiven =>
    LET x == SpeedOf(in.number)
    IN  x # Refused =>
          /\ BwToByteDur(x) \in 0..Second
          /\ BwToByteDur(x) = 0 <=> x[1] = 0 \/ x[1] > Second * x[2]

(* The free space that statfs shows of a capacity is, to less than a       *)
(* block, what the capacity gate still admits.                             *)
DfAgreesWithGate ==
  IsBacking =>
    LET shown == Reflected(in.capacity, in).free * in.frsize
        room == LargerOf(in.capacity - UsedBytes(in), 0)
    IN  shown <= room /\ room < shown + in.frsize

(* A capacity that a mount accepts leaves room at once, and runs out while *)
(* the backing still has space: no write fails of the backing before it    *)
(* fails of the capacity.                                                  *)
CapacityFullFirst ==
  IsBacking /\ MountAccepts(in.capacity, in) =>
    LET room == in.capacity - UsedBytes(in)
    IN  0 < room /\ room < in.free * in.frsize
=============================================================================
