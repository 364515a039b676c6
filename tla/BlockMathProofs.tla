-------------------------- MODULE BlockMathProofs --------------------------
(***************************************************************************)
(* What the operators of BlockMath return, for every width and every       *)
(* input: the facts the proofs about Injector rest on.                     *)
(***************************************************************************)
EXTENDS BlockMath, FiniteSets, FiniteSetTheorems, TLAPS

(* An exact result that fits is not changed by wrapping.                   *)
LEMMA WrapFits == ASSUME NEW x \in Int64 PROVE Wrap(x) = x
  BY DEF Wrap

(* Wrapping yields an int64.                                               *)
LEMMA WrapInt64 == ASSUME NEW x \in Int PROVE Wrap(x) \in Int64
<1>1. CASE x \in Int64
  BY <1>1, WrapFits
<1>2. CASE x \notin Int64
  <2> DEFINE m == 2 * (MaxInt + 1)
             y == x + MaxInt + 1
  <2>1. m \in Int /\ m > 0 /\ y \in Int
    BY MaxIntAssumption
  <2>2. y % m \in 0..(m - 1)
    BY <2>1
  <2>3. Wrap(x) = (y % m) - (MaxInt + 1)
    BY <1>2 DEF Wrap
  <2> QED
    BY <2>2, <2>3, MaxIntAssumption DEF Int64
<1> QED
  BY <1>1, <1>2

(* The rounded-up quotient is an integer, not negative for x >= 0.         *)
LEMMA DivUpInt ==
  ASSUME NEW x \in Int, NEW y \in Nat \ {0}
  PROVE  /\ DivUp(x, y) \in Int
         /\ x >= 0 => DivUp(x, y) >= 0
<1>1. x >= 0 => x \div y \in Nat
  OBVIOUS
<1>2. x < 0 => (-x) \div y \in Nat
  OBVIOUS
<1> QED
  BY <1>1, <1>2 DEF DivUp

(* Rounding up: y times the quotient is at least x.                        *)
LEMMA DivUpCovers ==
  ASSUME NEW x \in Nat, NEW y \in Nat \ {0}
  PROVE  x <= DivUp(x, y) * y
<1> DEFINE q == x \div y
           m == x % y
<1>1. q \in Nat /\ m \in 0..(y - 1) /\ x = y * q + m
  OBVIOUS
<1>2. DivUp(x, y) = IF m = 0 THEN q ELSE q + 1
  BY DEF DivUp
<1>3. (q + 1) * y = y * q + y /\ q * y = y * q
  BY <1>1
<1> QED
  BY <1>1, <1>2, <1>3

(* A region takes at least one block.                                      *)
LEMMA BlocksNeededPositive ==
  ASSUME NEW offLen \in Int, NEW bs \in Int
  PROVE  BlocksNeeded(offLen, bs) \in Nat \ {0}
<1>1. CASE bs <= 1 \/ offLen <= 0
  BY <1>1 DEF BlocksNeeded
<1>2. CASE ~(bs <= 1 \/ offLen <= 0)
  <2> DEFINE q == offLen \div bs
  <2>1. q \in Nat /\ offLen % bs \in 0..(bs - 1) /\ offLen = bs * q + (offLen % bs)
    BY <1>2
  <2>2. q = 0 => offLen % bs # 0
    BY <2>1, <1>2
  <2>3. BlocksNeeded(offLen, bs) = IF offLen % bs = 0 THEN q ELSE q + 1
    BY <1>2 DEF BlocksNeeded, DivUp
  <2> QED
    BY <2>1, <2>2, <2>3
<1> QED
  BY <1>1, <1>2

(* With a real block size the blocks hold the whole region.                *)
LEMMA BlocksNeededCovers ==
  ASSUME NEW offLen \in Nat \ {0}, NEW bs \in Nat, bs > 1
  PROVE  offLen <= BlocksNeeded(offLen, bs) * bs
  BY DivUpCovers DEF BlocksNeeded

(* The charge is an integer; it is not negative when the byte count fits.  *)
LEMMA GridBlocksToSpareInt ==
  ASSUME NEW count \in Int, NEW gridBs \in Int, NEW liveBs \in Int
  PROVE  /\ GridBlocksToSpare(count, gridBs, liveBs) \in Int
         /\ gridBs >= 0 /\ count * gridBs <= MaxInt
              => GridBlocksToSpare(count, gridBs, liveBs) >= 0
<1> DEFINE bytes == count * gridBs
           live == IF liveBs < 1 THEN 1 ELSE liveBs
<1>1. bytes \in Int /\ live \in Nat \ {0}
  OBVIOUS
<1>2. Wrap(bytes) \in Int
  BY <1>1, WrapInt64, MaxIntAssumption DEF Int64
<1>3. CASE count <= 0
  BY <1>3 DEF GridBlocksToSpare
<1>4. CASE count > 0
  <2>1. GridBlocksToSpare(count, gridBs, liveBs) = DivUp(Wrap(bytes), live)
    BY <1>4 DEF GridBlocksToSpare
  <2>2. gridBs >= 0 => bytes >= 0
    BY <1>4
  <2>3. gridBs >= 0 /\ bytes <= MaxInt => Wrap(bytes) >= 0
    BY <1>1, <2>2, WrapFits, MaxIntAssumption DEF Int64
  <2> QED
    BY <1>1, <1>2, <2>1, <2>3, DivUpInt
<1> QED
  BY <1>3, <1>4

(* The blocks charged hold the healed bytes when their count fits.         *)
LEMMA GridBlocksToSpareCovers ==
  ASSUME NEW count \in Nat, NEW gridBs \in Nat, NEW liveBs \in Nat \ {0},
         count * gridBs <= MaxInt
  PROVE  count * gridBs <= GridBlocksToSpare(count, gridBs, liveBs) * liveBs
<1>1. count * gridBs \in Nat
  OBVIOUS
<1>2. CASE count = 0
  BY <1>2 DEF GridBlocksToSpare
<1>3. CASE count > 0
  <2>1. Wrap(count * gridBs) = count * gridBs
    BY <1>1, WrapFits, MaxIntAssumption DEF Int64
  <2>2. GridBlocksToSpare(count, gridBs, liveBs) = DivUp(count * gridBs, liveBs)
    BY <1>3, <2>1 DEF GridBlocksToSpare
  <2> QED
    BY <1>1, <2>2, DivUpCovers
<1> QED
  BY <1>2, <1>3

(* The clamped sum of two integers is an integer.                          *)
LEMMA AddOKInt == ASSUME NEW a \in Int, NEW b \in Int PROVE AddOK(a, b) \in Int
  BY MaxIntAssumption DEF AddOK

(* A request covers blocks of the region only.                             *)
LEMMA CoverRangeBlocks ==
  ASSUME NEW rOff \in Int, NEW rLen \in Int, NEW off \in Int, NEW len \in Int,
         NEW bs \in Int, NEW n \in Nat
  PROVE  CoverRange(rOff, rLen, off, len, bs, n) \subseteq 0..(n - 1)
<1> DEFINE lo == LargerOf(off, rOff)
           hi == SmallerOf(AddOK(off, len), AddOK(rOff, rLen))
           first == LargerOf(0, (lo - rOff) \div bs)
           final == SmallerOf((hi - 1 - rOff) \div bs, n - 1)
<1>1. lo \in Int /\ hi \in Int
  BY AddOKInt DEF LargerOf, SmallerOf
<1>2. CASE bs <= 1 \/ len <= 0 \/ hi <= lo
  BY <1>2 DEF CoverRange
<1>3. CASE ~(bs <= 1 \/ len <= 0 \/ hi <= lo)
  <2>1. (lo - rOff) \div bs \in Int /\ (hi - 1 - rOff) \div bs \in Int
    BY <1>1, <1>3
  <2>2. first \in Int /\ first >= 0 /\ final \in Int /\ final <= n - 1
    BY <2>1 DEF LargerOf, SmallerOf
  <2>3. CoverRange(rOff, rLen, off, len, bs, n) = first..final
    BY <1>3 DEF CoverRange
  <2> QED
    BY <2>2, <2>3
<1> QED
  BY <1>2, <1>3

(* Among blocks 0..n-1 at most n are counted.                              *)
LEMMA BlockCount ==
  ASSUME NEW n \in Nat, NEW S, S \subseteq 0..(n - 1)
  PROVE  IsFiniteSet(S) /\ Cardinality(S) \in Nat /\ Cardinality(S) <= n
<1>1. IsFiniteSet(0..(n - 1)) /\ Cardinality(0..(n - 1)) = n
  BY FS_Interval
<1> QED
  BY <1>1, FS_Subset, FS_CardinalityType

(* The quotient by a block size is the block a byte lies in.               *)
LEMMA DivBlock ==
  ASSUME NEW x \in Int, NEW b \in Nat \ {0}, NEW k \in Int
  PROVE  /\ x \div b \in Int
         /\ x \div b = k <=> k * b <= x /\ x < (k + 1) * b
<1> DEFINE q == x \div b
<1>1. q \in Int /\ b * q <= x /\ x < b * q + b
  OBVIOUS
<1>2. b * q = q * b /\ (k + 1) * b = k * b + b /\ (q + 1) * b = q * b + b
  BY <1>1
<1>3. CASE q = k
  BY <1>1, <1>2, <1>3
<1>4. CASE q < k
  <2>1. (q + 1) * b <= k * b
    BY <1>1, <1>4
  <2> QED
    BY <1>1, <1>2, <1>4, <2>1
<1>5. CASE q > k
  <2>1. (k + 1) * b <= q * b
    BY <1>1, <1>5
  <2> QED
    BY <1>1, <1>2, <1>5, <2>1
<1> QED
  BY <1>1, <1>3, <1>4, <1>5

(* Later bytes lie in later blocks.                                        *)
LEMMA DivMonotone ==
  ASSUME NEW x \in Int, NEW y \in Int, NEW b \in Nat \ {0}, x <= y
  PROVE  x \div b <= y \div b
<1> DEFINE p == x \div b
           q == y \div b
<1>1. p \in Int /\ q \in Int /\ b * p <= x /\ x < b * p + b /\ b * q <= y /\ y < b * q + b
  OBVIOUS
<1>2. CASE q < p
  <2>1. b * (q + 1) <= b * p
    BY <1>1, <1>2
  <2>2. b * (q + 1) = b * q + b
    BY <1>1
  <2> QED
    BY <1>1, <2>1, <2>2
<1> QED
  BY <1>1, <1>2

(* The end of a range, clamped at the top of int64.                        *)
LEMMA AddOKClamps ==
  ASSUME NEW a \in 0..MaxInt, NEW b \in Nat
  PROVE  /\ AddOK(a, b) \in 0..MaxInt
         /\ \A x \in Int : x < AddOK(a, b) <=> x < a + b /\ x < MaxInt
  BY MaxIntAssumption DEF AddOK

(* The bytes a request and a region share.                                 *)
SharedBytes(rOff, rLen, off, len) ==
  {x \in 0..(MaxInt - 1) : rOff <= x /\ x < rOff + rLen /\ off <= x /\ x < off + len}

(* They are an interval between the larger start and the smaller end.      *)
LEMMA SharedInterval ==
  ASSUME NEW rOff \in 0..MaxInt, NEW rLen \in Nat, NEW off \in 0..MaxInt, NEW len \in Nat
  PROVE  LET lo == LargerOf(off, rOff)
             hi == SmallerOf(AddOK(off, len), AddOK(rOff, rLen))
         IN  /\ lo \in Nat /\ hi \in Nat
             /\ SharedBytes(rOff, rLen, off, len) = lo..(hi - 1)
             /\ hi - 1 < rOff + rLen /\ rOff <= lo
<1> DEFINE lo == LargerOf(off, rOff)
           hi == SmallerOf(AddOK(off, len), AddOK(rOff, rLen))
           a == AddOK(off, len)
           b == AddOK(rOff, rLen)
<1>1. /\ a \in 0..MaxInt /\ b \in 0..MaxInt
      /\ \A x \in Int : x < a <=> x < off + len /\ x < MaxInt
      /\ \A x \in Int : x < b <=> x < rOff + rLen /\ x < MaxInt
  BY AddOKClamps
<1>2. lo \in Nat /\ hi \in Nat /\ rOff <= lo
  BY <1>1 DEF LargerOf, SmallerOf
<1>3. \A x \in Int : lo <= x <=> rOff <= x /\ off <= x
  BY DEF LargerOf
<1>4. \A x \in Int : x < hi <=> x < off + len /\ x < rOff + rLen /\ x < MaxInt
  <2>1. \A x \in Int : x < hi <=> x < a /\ x < b
    BY <1>1 DEF SmallerOf
  <2> QED
    BY <1>1, <2>1
<1>5. \A x : x \in SharedBytes(rOff, rLen, off, len) <=> x \in lo..(hi - 1)
  <2> SUFFICES ASSUME NEW x
               PROVE  x \in SharedBytes(rOff, rLen, off, len) <=> x \in lo..(hi - 1)
    OBVIOUS
  <2>1. x \in lo..(hi - 1) <=> x \in Int /\ lo <= x /\ x < hi
    BY <1>2
  <2>2. x \in SharedBytes(rOff, rLen, off, len)
          <=> /\ x \in Int /\ 0 <= x /\ x < MaxInt
              /\ rOff <= x /\ x < rOff + rLen /\ off <= x /\ x < off + len
    BY MaxIntAssumption DEF SharedBytes
  <2> QED
    BY <1>3, <1>4, <2>1, <2>2
<1>6. hi - 1 < rOff + rLen
  BY <1>2, <1>4
<1> QED
  BY <1>2, <1>5, <1>6

(* The region test of Check finds exactly the shared bytes of a request    *)
(* and a region that both have a length.                                   *)
LEMMA OverlapsShared ==
  ASSUME NEW rOff \in 0..MaxInt, NEW rLen \in Nat \ {0}, NEW off \in 0..MaxInt,
         NEW len \in Nat \ {0}
  PROVE  Overlaps(rOff, rLen, off, len) <=> SharedBytes(rOff, rLen, off, len) # {}
<1> DEFINE lo == LargerOf(off, rOff)
           hi == SmallerOf(AddOK(off, len), AddOK(rOff, rLen))
           a == AddOK(off, len)
           b == AddOK(rOff, rLen)
<1>1. lo \in Nat /\ hi \in Nat /\ SharedBytes(rOff, rLen, off, len) = lo..(hi - 1)
  BY SharedInterval
<1>2. lo..(hi - 1) # {} <=> lo < hi
  BY <1>1
<1>3. /\ a \in 0..MaxInt /\ b \in 0..MaxInt
      /\ \A x \in Int : x < a <=> x < off + len /\ x < MaxInt
      /\ \A x \in Int : x < b <=> x < rOff + rLen /\ x < MaxInt
  BY AddOKClamps
<1>4. lo < hi <=> off < a /\ rOff < a /\ off < b /\ rOff < b
  BY <1>3 DEF LargerOf, SmallerOf
<1>5. off < b => off < MaxInt /\ off < a
  BY <1>3
<1>6. rOff < a => rOff < MaxInt /\ rOff < b
  BY <1>3
<1>7. Overlaps(rOff, rLen, off, len) <=> off < b /\ rOff < a
  BY <1>3 DEF Overlaps
<1> QED
  BY <1>1, <1>2, <1>4, <1>5, <1>6, <1>7

(* The blocks of an interval of bytes are an interval of blocks.           *)
LEMMA IntervalBlocks ==
  ASSUME NEW p \in Int, NEW e \in Int, p <= e, NEW bs \in Nat \ {0}
  PROVE  /\ \A j \in (p \div bs)..(e \div bs) : \E y \in p..e : j = y \div bs
         /\ \A y \in p..e : y \div bs \in (p \div bs)..(e \div bs)
<1> DEFINE f == p \div bs
           g == e \div bs
<1>1. f \in Int /\ g \in Int
  OBVIOUS
<1>2. p < (f + 1) * bs /\ g * bs <= e
  BY <1>1, DivBlock
<1>3. ASSUME NEW j \in f..g PROVE \E y \in p..e : j = y \div bs
  <2>1. j \in Int /\ f <= j /\ j <= g
    BY <1>1
  <2>2. (f + 1) * bs <= (j + 1) * bs /\ j * bs <= g * bs
    BY <1>1, <2>1
  <2>3. j * bs \in Int /\ g * bs \in Int /\ (j + 1) * bs = j * bs + bs /\ (f + 1) * bs \in Int
    BY <1>1, <2>1
  <2> HIDE DEF f, g
  <2>4. CASE j * bs <= p
    <3>1. p < (j + 1) * bs
      BY <1>2, <2>2, <2>3
    <3>2. p \div bs = j
      BY <2>1, <2>4, <3>1, DivBlock
    <3> QED
      BY <3>2
  <2>5. CASE j * bs > p
    <3>1. j * bs \in p..e
      BY <1>2, <2>2, <2>3, <2>5
    <3>2. j * bs < (j + 1) * bs
      BY <2>3
    <3>3. (j * bs) \div bs = j
      BY <2>1, <2>3, <3>2, DivBlock
    <3> QED
      BY <3>1, <3>3
  <2> QED
    BY <2>3, <2>4, <2>5
<1>4. ASSUME NEW y \in p..e PROVE y \div bs \in f..g
  <2>1. y \in Int /\ p <= y /\ y <= e
    OBVIOUS
  <2>2. f <= y \div bs /\ y \div bs <= g
    BY <2>1, DivMonotone
  <2>3. y \div bs \in Int
    BY <2>1
  <2> QED
    BY <1>1, <2>2, <2>3
<1> QED
  BY <1>3, <1>4

(* coverRange finds exactly the blocks of the shared bytes, when the grid  *)
(* is long enough for the region.                                          *)
LEMMA CoverRangeShared ==
  ASSUME NEW rOff \in 0..MaxInt, NEW rLen \in Nat \ {0}, NEW off \in 0..MaxInt, NEW len \in Nat,
         NEW bs \in Nat, bs > 1, NEW n \in Nat, rLen <= n * bs
  PROVE  \A j : j \in CoverRange(rOff, rLen, off, len, bs, n)
               <=> \E x \in SharedBytes(rOff, rLen, off, len) : j = (x - rOff) \div bs
<1> DEFINE lo == LargerOf(off, rOff)
           hi == SmallerOf(AddOK(off, len), AddOK(rOff, rLen))
           S == SharedBytes(rOff, rLen, off, len)
           C == CoverRange(rOff, rLen, off, len, bs, n)
           p == lo - rOff
           e == hi - 1 - rOff
<1>1. /\ lo \in Nat /\ hi \in Nat /\ S = lo..(hi - 1)
      /\ hi - 1 < rOff + rLen /\ rOff <= lo
  BY SharedInterval
<1>2. C = IF len <= 0 \/ hi <= lo THEN {} ELSE LargerOf(0, p \div bs)..SmallerOf(e \div bs, n - 1)
  BY DEF CoverRange
<1>3. len = 0 => S = {}
  BY DEF SharedBytes
<1> HIDE DEF lo, hi, S, C
<1>4. CASE len = 0 \/ hi <= lo
  <2>1. S = {}
    BY <1>1, <1>3, <1>4
  <2> QED
    BY <1>2, <1>4, <2>1 DEF C, S
<1>5. CASE len # 0 /\ lo < hi
  <2>1. p \in Int /\ e \in Int /\ 0 <= p /\ p <= e /\ e < rLen
    BY <1>1, <1>5
  <2> HIDE DEF p, e
  <2>2. p \div bs \in Int /\ e \div bs \in Int
    BY <2>1
  <2>3. p \div bs >= 0
    BY <2>1
  <2>4. e \div bs <= n - 1
    <3>1. (e \div bs) * bs <= e
      BY <2>1, <2>2, DivBlock
    <3>2. CASE e \div bs >= n
      <4>1. n * bs <= (e \div bs) * bs
        BY <2>2, <3>2
      <4>2. n * bs \in Int /\ (e \div bs) * bs \in Int
        BY <2>2
      <4> QED
        BY <2>1, <3>1, <4>1, <4>2
    <3> QED
      BY <2>2, <3>2
  <2>5. C = (p \div bs)..(e \div bs)
    <3>1. C = LargerOf(0, p \div bs)..SmallerOf(e \div bs, n - 1)
      <4>1. ~(len <= 0 \/ hi <= lo)
        BY <1>1, <1>5
      <4> QED
        BY <1>2, <4>1
    <3>2. LargerOf(0, p \div bs) = p \div bs
      BY <2>2, <2>3 DEF LargerOf
    <3>3. SmallerOf(e \div bs, n - 1) = e \div bs
      BY <2>2, <2>4 DEF SmallerOf
    <3> QED
      BY <3>1, <3>2, <3>3
  <2>6. /\ \A j \in C : \E y \in p..e : j = y \div bs
        /\ \A y \in p..e : y \div bs \in C
    <3>1. bs \in Nat \ {0}
      OBVIOUS
    <3> QED
      BY <2>1, <2>5, <3>1, IntervalBlocks
  <2>7. \A x \in S : x - rOff \in p..e
    BY <1>1 DEF p, e
  <2>8. \A y \in p..e : y + rOff \in S /\ (y + rOff) - rOff = y
    BY <1>1 DEF p, e
  <2>9. \A j : j \in C <=> \E x \in S : j = (x - rOff) \div bs
    <3>1. \A j \in C : \E x \in S : j = (x - rOff) \div bs
      BY <2>6, <2>8
    <3>2. \A x \in S : (x - rOff) \div bs \in C
      BY <2>6, <2>7
    <3> QED
      BY <3>1, <3>2
  <2> QED
    BY <2>9 DEF C, S
<1> QED
  BY <1>1, <1>4, <1>5

(* Bytes that lie in given blocks number at most a block size each.        *)
LEMMA BytesOfBlocks ==
  ASSUME NEW o \in Int, NEW b \in Nat \ {0}, NEW U, IsFiniteSet(U), NEW S, S \subseteq Int,
         \A x \in S : (x - o) \div b \in U
  PROVE  IsFiniteSet(S) /\ Cardinality(S) \in Nat /\ Cardinality(S) <= Cardinality(U) * b
<1> DEFINE R == 0..(b - 1)
           T == U \X R
           f == [x \in S |-> <<(x - o) \div b, (x - o) % b>>]
<1>1. IsFiniteSet(R) /\ Cardinality(R) = b
  BY FS_Interval
<1>2. IsFiniteSet(T) /\ Cardinality(T) = Cardinality(U) * b
  BY <1>1, FS_Product
<1>3. \A x \in S : (x - o) % b \in R
  OBVIOUS
<1>4. f \in [S -> T]
  BY <1>3
<1>5. ASSUME NEW x \in S, NEW y \in S, f[x] = f[y] PROVE x = y
  <2> DEFINE p == x - o
             q == y - o
  <2>1. p \in Int /\ q \in Int /\ p \div b = q \div b /\ p % b = q % b
    BY <1>5
  <2>2. p = b * (p \div b) + (p % b) /\ q = b * (q \div b) + (q % b)
    BY <2>1
  <2>3. p = q
    BY <2>1, <2>2
  <2> QED
    BY <2>3
<1>6. f \in Injection(S, T)
  BY <1>4, <1>5 DEF Injection, IsInjective
<1> QED
  BY <1>2, <1>6, FS_Injection, FS_CardinalityType
=============================================================================
