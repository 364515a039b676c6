----------------------------- MODULE BlockMath -----------------------------
(***************************************************************************)
(* The int64 arithmetic under Injector.Check (check.go): saturating end    *)
(* points, the number of blocks in a bad region, the conversion of healed  *)
(* grid blocks into spare blocks, and the set of blocks a request covers.  *)
(*                                                                         *)
(* MaxInt stands for math.MaxInt64.  Sums and products the code guards are *)
(* saturated as the code does; the ones it does not guard wrap (Wrap).     *)
(***************************************************************************)
EXTENDS Integers

CONSTANT MaxInt

ASSUME MaxIntAssumption == MaxInt \in Nat \ {0}

Int64 == (-MaxInt - 1)..MaxInt

(* Two's complement result of an int64 operation whose exact result is x.  *)
Wrap(x) ==
  IF x \in Int64
  THEN x
  ELSE ((x + MaxInt + 1) % (2 * (MaxInt + 1))) - (MaxInt + 1)

(* Mutant: the plain sum, which wraps.                                     *)
AddOK_Wraps(a, b) == Wrap(a + b)

(* a + b for end points, clamped to MaxInt instead of wrapping.            *)
AddOK(a, b) ==
  IF b < 0 THEN a
  ELSE IF a < 0 \/ a > MaxInt - b THEN MaxInt
  ELSE a + b

(* Go's q := x / y; if x % y != 0 { q++ } for y > 0.  Division truncates   *)
(* toward zero, so a negative x is rounded toward zero and then bumped.    *)
DivUp(x, y) ==
  LET q == IF x >= 0 THEN x \div y ELSE -((-x) \div y)
  IN  IF x % y = 0 THEN q ELSE q + 1

(* Spare blocks of blockSize bytes that replace a region of offLen bytes;  *)
(* one when there is no block size or no region.                           *)
BlocksNeeded(offLen, blockSize) ==
  IF blockSize <= 1 \/ offLen <= 0 THEN 1 ELSE DivUp(offLen, blockSize)

(* Mutant: grid blocks are counted as spare blocks.                        *)
GridBlocksToSpare_SameUnit(count, gridBs, liveBs) == IF count <= 0 THEN 0 ELSE count

(* Spare blocks of liveBs bytes charged for count healed grid blocks of    *)
(* gridBs bytes.  The product is a plain int64 multiplication.             *)
GridBlocksToSpare(count, gridBs, liveBs) ==
  IF count <= 0 THEN 0
  ELSE DivUp(Wrap(count * gridBs), IF liveBs < 1 THEN 1 ELSE liveBs)

SmallerOf(a, b) == IF a < b THEN a ELSE b
LargerOf(a, b) == IF a > b THEN a ELSE b

(* Mutant: a request that ends where the region starts counts as inside.   *)
Overlaps_ClosedEnd(rOff, rLen, off, len) ==
  off < AddOK(rOff, rLen) /\ AddOK(off, len) >= rOff

(* Check's test that the request [off, off + len) meets the region.        *)
Overlaps(rOff, rLen, off, len) ==
  off < AddOK(rOff, rLen) /\ AddOK(off, len) > rOff

(* coverRange: the blocks 0..n-1 of the region [rOff, rOff + rLen), each   *)
(* bs bytes, that the request [off, off + len) touches.  The code returns  *)
(* the first and the last index and ok; ok = false is the empty set.       *)
CoverRange(rOff, rLen, off, len, bs, n) ==
  LET lo == LargerOf(off, rOff)
      hi == SmallerOf(AddOK(off, len), AddOK(rOff, rLen))
  IN  IF bs <= 1 \/ len <= 0 \/ hi <= lo
      THEN {}
      ELSE LargerOf(0, (lo - rOff) \div bs)
             .. SmallerOf((hi - 1 - rOff) \div bs, n - 1)

(* allHealed: every covered block is in the set of healed blocks.          *)
AllHealed(healed, n, rOff, rLen, off, len, bs) ==
  CoverRange(rOff, rLen, off, len, bs, n) \subseteq healed

=============================================================================
