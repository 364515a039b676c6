-------------------------- MODULE ArithmeticProofs --------------------------
(***************************************************************************)
(* Proofs about BlockMath, DelayMath and SizeMath: what MCArithmetic       *)
(* checks for every input of a 4-bit int64 holds for every input of an     *)
(* int64 of any width, any length of a second and any block size.          *)
(*                                                                         *)
(* Nothing moves in MCArithmetic, so Init is its inductive invariant and   *)
(* each theorem rests on a lemma about the input Init allows.              *)
(***************************************************************************)
EXTENDS MCArithmetic, BlockMathProofs

(* The fields of the input tell its kind.                                  *)
LEMMA Kinds ==
  ASSUME Init
  PROVE  /\ IsRegion => in \in Regions
         /\ IsDelay => in \in Delays
         /\ IsGiven => in \in Given
         /\ IsBacking => in \in Backings
<1>1. in \in Regions => DOMAIN in = {"rOff", "rLen", "off", "len", "bs"}
  BY DEF Regions
<1>2. in \in Delays => DOMAIN in = {"d", "perByte", "n"}
  BY DEF Delays
<1>3. in \in Given => DOMAIN in = {"number"}
  BY DEF Given
<1>4. in \in Backings => DOMAIN in = {"capacity", "blocks", "free", "frsize"}
  BY DEF Backings
<1> QED
  BY <1>1, <1>2, <1>3, <1>4 DEF Init, IsRegion, IsDelay, IsGiven, IsBacking

(* The input stays what it was.                                            *)
LEMMA InputStays == Init /\ [Next]_in => Init'
  BY DEF Init, Next, Regions, Delays, Given, Backings, Numbers

LEMMA AlwaysInput == Spec => []Init
  BY InputStays, PTL DEF Spec

-----------------------------------------------------------------------------
(* Block arithmetic *)

(* Rounding up: one block less does not hold x.                            *)
LEMMA DivUpTight ==
  ASSUME NEW x \in Nat \ {0}, NEW y \in Nat \ {0}
  PROVE  (DivUp(x, y) - 1) * y < x
<1> DEFINE q == x \div y
           m == x % y
<1>1. q \in Nat /\ m \in 0..(y - 1) /\ x = y * q + m
  OBVIOUS
<1>2. DivUp(x, y) = IF m = 0 THEN q ELSE q + 1
  BY DEF DivUp
<1>3. (q - 1) * y = y * q - y /\ q * y = y * q
  BY <1>1
<1> HIDE DEF q, m
<1>4. CASE m = 0
  BY <1>1, <1>2, <1>3, <1>4
<1>5. CASE m # 0
  <2>1. DivUp(x, y) - 1 = q
    BY <1>1, <1>2, <1>5
  <2> QED
    BY <1>1, <1>3, <1>5, <2>1
<1> QED
  BY <1>4, <1>5

(* What a region is, in numbers.                                           *)
LEMMA RegionInput ==
  ASSUME in \in Regions
  PROVE  /\ in.rOff \in 0..MaxInt /\ in.rLen \in Nat \ {0}
         /\ in.off \in 0..MaxInt /\ in.len \in Nat
         /\ in.bs \in Nat /\ in.bs > 1
         /\ GridBlocks \in Nat \ {0} /\ in.rLen <= GridBlocks * in.bs
<1>1. /\ in.rOff \in 0..MaxInt /\ in.rLen \in Nat \ {0}
      /\ in.off \in 0..MaxInt /\ in.len \in Nat
      /\ in.bs \in Nat /\ in.bs > 1
  BY MaxIntAssumption, BlockSizeAssumption DEF Regions
<1> DEFINE l == in.rLen
           b == in.bs
<1>2. l \in Nat \ {0} /\ l \in Int /\ b \in Nat /\ b \in Int /\ b > 1
  BY <1>1
<1> HIDE DEF l, b
<1>3. BlocksNeeded(l, b) \in Nat \ {0} /\ l <= BlocksNeeded(l, b) * b
  BY <1>2, BlocksNeededPositive, BlocksNeededCovers
<1> QED
  BY <1>1, <1>3 DEF GridBlocks, l, b

(* What coverRange returns for it.                                         *)
LEMMA CoveredShared ==
  ASSUME in \in Regions
  PROVE  /\ Covered \subseteq 0..(GridBlocks - 1)
         /\ \A j : j \in Covered
                  <=> \E x \in SharedBytes(in.rOff, in.rLen, in.off, in.len) :
                        j = (x - in.rOff) \div in.bs
<1> DEFINE a == in.rOff
           l == in.rLen
           o == in.off
           n == in.len
           b == in.bs
           g == GridBlocks
<1>1. /\ a \in 0..MaxInt /\ l \in Nat \ {0} /\ o \in 0..MaxInt /\ n \in Nat
      /\ b \in Nat /\ b > 1 /\ g \in Nat /\ l <= g * b
  BY RegionInput
<1>2. Covered = CoverRange(a, l, o, n, b, g)
  BY DEF Covered
<1> HIDE DEF a, l, o, n, b, g
<1>3. \A j : j \in CoverRange(a, l, o, n, b, g)
            <=> \E x \in SharedBytes(a, l, o, n) : j = (x - a) \div b
  BY <1>1, CoverRangeShared
<1>4. CoverRange(a, l, o, n, b, g) \subseteq 0..(g - 1)
  <2>1. a \in Int /\ l \in Int /\ o \in Int /\ n \in Int /\ b \in Int
    BY <1>1
  <2> QED
    BY <1>1, <2>1, CoverRangeBlocks
<1> QED
  BY <1>2, <1>3, <1>4 DEF a, l, o, n, b, g

(* The bytes that a block shares with the request.                         *)
LEMMA BlockShares ==
  ASSUME in \in Regions, NEW j \in Int
  PROVE  BlockBytes(j) \cap RequestBytes # {}
           <=> \E x \in SharedBytes(in.rOff, in.rLen, in.off, in.len) : j = (x - in.rOff) \div in.bs
<1> DEFINE a == in.rOff
           l == in.rLen
           o == in.off
           n == in.len
           b == in.bs
           S == SharedBytes(a, l, o, n)
<1>1. a \in Nat /\ l \in Nat /\ o \in Nat /\ n \in Nat /\ b \in Nat \ {0}
  BY RegionInput
<1>2. ASSUME NEW x \in Int
      PROVE  a + j * b <= x /\ x < a + (j + 1) * b <=> j = (x - a) \div b
  <2> HIDE DEF a, b
  <2>1. x - a \in Int
    BY <1>1
  <2>2. (x - a) \div b = j <=> j * b <= x - a /\ x - a < (j + 1) * b
    BY <1>1, <2>1, DivBlock
  <2> DEFINE u == j * b
             v == (j + 1) * b
  <2>3. u \in Int /\ v \in Int
    BY <1>1
  <2> HIDE DEF u, v
  <2>4. a + u <= x /\ x < a + v <=> u <= x - a /\ x - a < v
    BY <1>1, <2>3
  <2> QED
    BY <2>2, <2>4 DEF u, v
<1>3. \A x : x \in BlockBytes(j) \cap RequestBytes
               <=> x \in S /\ a + j * b <= x /\ x < a + (j + 1) * b
  BY DEF BlockBytes, RegionBytes, RequestBytes, FileBytes, SharedBytes
<1>4. \A x \in S : x \in Int
  BY DEF SharedBytes
<1> HIDE DEF S, a, b
<1>5. \A x : x \in BlockBytes(j) \cap RequestBytes <=> x \in S /\ j = (x - a) \div b
  BY <1>2, <1>3, <1>4
<1> QED
  BY <1>5 DEF S, a, b

LEMMA CoverExact == ASSUME in \in Regions PROVE CoverRangeExact
<1> DEFINE S == SharedBytes(in.rOff, in.rLen, in.off, in.len)
<1>1. \A j : j \in Covered <=> \E x \in S : j = (x - in.rOff) \div in.bs
  BY CoveredShared
<1>2. Covered \subseteq 0..(GridBlocks - 1)
  BY CoveredShared
<1>3. \A j \in 0..(GridBlocks - 1) :
        BlockBytes(j) \cap RequestBytes # {} <=> \E x \in S : j = (x - in.rOff) \div in.bs
  BY RegionInput, BlockShares
<1> HIDE DEF S
<1> QED
  BY <1>1, <1>2, <1>3 DEF CoverRangeExact

LEMMA OverlapExact == ASSUME in \in Regions PROVE OverlapAgreesWithCover
<1> DEFINE S == SharedBytes(in.rOff, in.rLen, in.off, in.len)
<1>1. \A j : j \in Covered <=> \E x \in S : j = (x - in.rOff) \div in.bs
  BY CoveredShared
<1>2. in.len > 0 => (Overlaps(in.rOff, in.rLen, in.off, in.len) <=> S # {})
  BY RegionInput, OverlapsShared
<1> HIDE DEF S
<1>3. Covered # {} <=> S # {}
  BY <1>1
<1> QED
  BY <1>2, <1>3 DEF OverlapAgreesWithCover

LEMMA ChargeExact == ASSUME in \in Regions PROVE ChargeIsCeil
<1> SUFFICES ASSUME NEW count \in 1..GridBlocks, NEW live \in 1..MaxBlockSize,
                    count * in.bs <= MaxInt
             PROVE  LET c == GridBlocksToSpare(count, in.bs, live)
                    IN  count * in.bs <= c * live /\ (c - 1) * live < count * in.bs
  BY DEF ChargeIsCeil
<1>1. count \in Nat \ {0} /\ live \in Nat \ {0} /\ in.bs \in Nat /\ in.bs > 1
  BY RegionInput, BlockSizeAssumption
<1> DEFINE b == count * in.bs
<1>2. b \in Nat \ {0} /\ b \in Int64
  <2>1. b \in Nat /\ b > 0
    BY <1>1
  <2> QED
    BY <2>1, MaxIntAssumption DEF Int64
<1>3. GridBlocksToSpare(count, in.bs, live) = DivUp(b, live)
  BY <1>1, <1>2, WrapFits DEF GridBlocksToSpare
<1> HIDE DEF b
<1>4. b <= DivUp(b, live) * live /\ (DivUp(b, live) - 1) * live < b
  BY <1>1, <1>2, DivUpCovers, DivUpTight
<1> QED
  BY <1>3, <1>4 DEF b

(* coverRange of check.go returns exactly the blocks of a bad region that  *)
(* share a byte with the request, up to the top of the file.               *)
THEOREM CoverRangeIsExact == Spec => []CoverRangeExact
<1>1. Init => CoverRangeExact
  BY Kinds, CoverExact DEF CoverRangeExact
<1> QED
  BY <1>1, AlwaysInput, PTL

(* The region test of Check and coverRange agree on which requests meet a  *)
(* region.                                                                 *)
THEOREM OverlapIsCover == Spec => []OverlapAgreesWithCover
<1>1. Init => OverlapAgreesWithCover
  BY Kinds, OverlapExact DEF OverlapAgreesWithCover
<1> QED
  BY <1>1, AlwaysInput, PTL

(* A byte count that fits in int64 is charged its rounded-up number of     *)
(* live blocks, neither more nor less.                                     *)
THEOREM ChargeIsExact == Spec => []ChargeIsCeil
<1>1. Init => ChargeIsCeil
  BY Kinds, ChargeExact DEF ChargeIsCeil
<1> QED
  BY <1>1, AlwaysInput, PTL
-----------------------------------------------------------------------------
(* Delay arithmetic *)

(* Go's test of a product by dividing it back: the quotient of the wrapped *)
(* product is the factor exactly if nothing was lost.                      *)
LEMMA ByteDelayExact ==
  ASSUME NEW p \in Nat \ {0}, NEW n \in Nat \ {0}
  PROVE  ByteDelay(p, n) = SmallerOf(p * n, MaxInt)
<1> DEFINE x == p * n
           w == Wrap(x)
<1>1. x \in Nat /\ MaxInt \in Nat \ {0}
  BY MaxIntAssumption
<1>2. ByteDelay(p, n) = IF Quot(w, p) # n THEN MaxInt ELSE w
  BY DEF ByteDelay
<1>3. CASE x <= MaxInt
  <2>1. w = x
    BY <1>1, <1>3, WrapFits DEF Int64
  <2>2. x \div p = n
    <3>1. n * p = x /\ (n + 1) * p = x + p
      OBVIOUS
    <3> HIDE DEF x
    <3>2. n * p <= x /\ x < (n + 1) * p
      BY <1>1, <3>1
    <3> QED
      BY <1>1, <3>2, DivBlock
  <2> HIDE DEF x, w
  <2> QED
    BY <1>1, <1>2, <1>3, <2>1, <2>2 DEF Quot, SmallerOf, x
<1>4. CASE x > MaxInt
  <2>1. w \in Int64
    BY <1>1, WrapInt64
  <2>2. w \in Int /\ w < x
    BY <1>1, <1>4, <2>1 DEF Int64
  <2>3. Quot(w, p) # n
    <3> HIDE DEF w
    <3>1. CASE w >= 0
      <4>1. w \div p = n => n * p <= w
        BY <2>2, DivBlock
      <4>2. n * p = x
        OBVIOUS
      <4> HIDE DEF x
      <4> QED
        BY <1>1, <2>2, <3>1, <4>1, <4>2 DEF Quot
    <3>2. CASE w < 0
      <4>1. (-w) \div p \in Nat
        BY <2>2, <3>2
      <4> QED
        BY <2>2, <3>2, <4>1 DEF Quot
    <3> QED
      BY <2>2, <3>1, <3>2
  <2> HIDE DEF x, w
  <2> QED
    BY <1>1, <1>2, <1>4, <2>3 DEF SmallerOf, x
<1> QED
  BY <1>1, <1>3, <1>4

LEMMA ClampExact == ASSUME in \in Delays PROVE ByteDelayClamps
<1> DEFINE p == in.perByte
           n == in.n
<1>1. p \in Nat /\ n \in Nat /\ MaxInt \in Nat \ {0}
  BY MaxIntAssumption DEF Delays
<1> HIDE DEF p, n
<1>2. CASE p = 0 \/ n = 0
  <2>1. p * n = 0
    BY <1>1, <1>2
  <2>2. AddByteDelay(0, p, n) = 0
    BY <1>1, <1>2 DEF AddByteDelay
  <2>3. SmallerOf(0, MaxInt) = 0
    BY <1>1 DEF SmallerOf
  <2> QED
    BY <2>1, <2>2, <2>3 DEF ByteDelayClamps, p, n
<1>3. CASE p # 0 /\ n # 0
  <2> DEFINE b == ByteDelay(p, n)
  <2>1. b = SmallerOf(p * n, MaxInt)
    BY <1>1, <1>3, ByteDelayExact
  <2>2. p * n \in Nat
    BY <1>1
  <2>3. b \in Int64
    BY <1>1, <2>1, <2>2 DEF SmallerOf, Int64
  <2>4. AddByteDelay(0, p, n) = Wrap(0 + b)
    BY <1>1, <1>3 DEF AddByteDelay
  <2> HIDE DEF b
  <2>5. 0 + b = b
    BY <2>3 DEF Int64
  <2> QED
    BY <2>1, <2>3, <2>4, <2>5, WrapFits DEF ByteDelayClamps, p, n
<1> QED
  BY <1>2, <1>3

(* 1s / bw for a bandwidth of p / q.                                       *)
LEMMA BwToByteDurBounds ==
  ASSUME NEW p \in Nat \ {0}, NEW q \in Nat
  PROVE  /\ (Second * q) \div p \in Nat
         /\ BwToByteDur(<<p, q>>) = SmallerOf((Second * q) \div p, MaxInt)
         /\ BwToByteDur(<<p, q>>) \in 0..MaxInt
<1> DEFINE x == Second * q
           d == x \div p
<1>1. Second \in Nat /\ MaxInt \in Nat
  BY DelayAssumption, MaxIntAssumption
<1>2. x \in Nat
  BY <1>1
<1>3. d \in Nat
  <2> HIDE DEF x
  <2> QED
    BY <1>2
<1>4. BwToByteDur(<<p, q>>) = IF d >= MaxInt THEN MaxInt ELSE d
  BY DEF BwToByteDur
<1> HIDE DEF d
<1> QED
  BY <1>1, <1>3, <1>4 DEF SmallerOf, d

LEMMA AdjustedExact == ASSUME in \in Delays PROVE AdjustedReachesTarget
<1> DEFINE t == in.perByte
           d == in.d
           n == in.n
           bw == <<d, n + 1>>
           own == BwToByteDur(bw)
<1>1. t \in Nat /\ d \in Nat /\ n + 1 \in Nat
  BY MaxIntAssumption DEF Delays
<1> HIDE DEF t, d, n
<1>2. ASSUME t > 0, d > 0 PROVE AdjustByteDur(t, bw) + own = LargerOf(t, own)
  <2>1. own \in 0..MaxInt
    BY <1>1, <1>2, BwToByteDurBounds
  <2>2. AdjustByteDur(t, bw) = SubClampDur(t, own)
    BY <1>1, <1>2 DEF AdjustByteDur
  <2> HIDE DEF own
  <2> QED
    BY <1>1, <1>2, <2>1, <2>2 DEF SubClampDur, LargerOf
<1> QED
  BY <1>2 DEF AdjustedReachesTarget, t, d, n

LEMMA SlowerExact == ASSUME in \in Delays PROVE LowerBandwidthIsSlower
<1> DEFINE d == in.d
           m == in.n + 1
<1>1. d \in Nat /\ m \in Nat
  BY MaxIntAssumption DEF Delays
<1> HIDE DEF d, m
<1>2. ASSUME NEW q \in 1..m, d > 0 PROVE BwToByteDur(<<d, q>>) <= BwToByteDur(<<d, m>>)
  <2> DEFINE x == Second * q
             y == Second * m
             e == x \div d
             f == y \div d
  <2>1. /\ e \in Nat /\ BwToByteDur(<<d, q>>) = SmallerOf(e, MaxInt)
        /\ f \in Nat /\ BwToByteDur(<<d, m>>) = SmallerOf(f, MaxInt)
    BY <1>1, <1>2, BwToByteDurBounds
  <2>2. x \in Int /\ y \in Int /\ x <= y
    BY <1>1, DelayAssumption
  <2>3. e <= f
    <3> HIDE DEF x, y
    <3> QED
      BY <1>1, <1>2, <2>2, DivMonotone
  <2> HIDE DEF e, f
  <2> QED
    BY <2>1, <2>3, MaxIntAssumption DEF SmallerOf
<1> QED
  BY <1>2 DEF LowerBandwidthIsSlower, d, m

(* addByteDelay of delay.go turns every product that overflows int64 into  *)
(* the longest duration, and no other.                                     *)
THEOREM ByteDelayIsClamped == Spec => []ByteDelayClamps
<1>1. Init => ByteDelayClamps
  BY Kinds, ClampExact DEF ByteDelayClamps
<1> QED
  BY <1>1, AlwaysInput, PTL

(* A calibrated delay (calibrate.go) and the time of the backing together  *)
(* make the slower of the target and the backing.                          *)
THEOREM CalibrationReachesTarget == Spec => []AdjustedReachesTarget
<1>1. Init => AdjustedReachesTarget
  BY Kinds, AdjustedExact DEF AdjustedReachesTarget
<1> QED
  BY <1>1, AlwaysInput, PTL

(* A lower bandwidth (profile.go) never gives a shorter delay.             *)
THEOREM BandwidthIsMonotone == Spec => []LowerBandwidthIsSlower
<1>1. Init => LowerBandwidthIsSlower
  BY Kinds, SlowerExact DEF LowerBandwidthIsSlower
<1> QED
  BY <1>1, AlwaysInput, PTL
-----------------------------------------------------------------------------
(* Sizes, speeds and capacities *)

(* math.Round in whole numbers.                                            *)
LEMMA RoundNearest ==
  ASSUME NEW p \in Nat, NEW q \in Nat \ {0}
  PROVE  LET r == RoundHalfUp(p, q)
         IN  r \in Nat /\ 2 * (r * q - p) <= q /\ 2 * (p - r * q) <= q
<1> DEFINE x == 2 * p + q
           y == 2 * q
           r == x \div y
<1>1. x \in Nat /\ y \in Nat \ {0}
  OBVIOUS
<1>2. r \in Nat
  <2> HIDE DEF x, y
  <2> QED
    BY <1>1
<1>3. r * y <= x /\ x < (r + 1) * y
  <2> HIDE DEF x, y
  <2> QED
    BY <1>1, <1>2, DivBlock
<1> HIDE DEF r
<1> DEFINE z == r * q
<1>4. z \in Nat /\ r * y = 2 * z /\ (r + 1) * y = 2 * z + 2 * q
  BY <1>2
<1>5. 2 * z <= 2 * p + q /\ 2 * p + q < 2 * z + 2 * q
  BY <1>3, <1>4
<1>6. 2 * (z - p) <= q /\ 2 * (p - z) <= q
  <2> HIDE DEF z
  <2> QED
    BY <1>4, <1>5
<1> QED
  BY <1>2, <1>6 DEF RoundHalfUp, r

(* Every number is a fraction, or none.                                    *)
LEMMA NumberInput ==
  ASSUME in \in Given, in.number # NoNumber
  PROVE  \E p \in Int, q \in Nat \ {0} : in.number = <<p, q>>
<1>1. in.number \in Numbers
  BY DEF Given
<1>2. \A p \in -1..(2 * MaxInt + 2) : Float64(p) \in Int
  <2> SUFFICES ASSUME NEW p \in -1..(2 * MaxInt + 2) PROVE Float64(p) \in Int
    OBVIOUS
  <2>1. p \in Int /\ FloatGrain \in Nat \ {0}
    BY MaxIntAssumption, DelayAssumption
  <2>2. FloatGrain \div 2 \in Int
    BY <2>1
  <2> DEFINE x == p + FloatGrain \div 2
  <2>3. x \in Int
    BY <2>1, <2>2
  <2>4. x \div FloatGrain \in Int
    <3> HIDE DEF x
    <3> QED
      BY <2>1, <2>3
  <2>5. (x \div FloatGrain) * FloatGrain \in Int
    <3> DEFINE y == x \div FloatGrain
    <3> HIDE DEF y
    <3>1. y \in Int
      BY <2>4 DEF y
    <3>2. y * FloatGrain \in Int
      BY <2>1, <3>1
    <3> QED
      BY <3>2 DEF y
  <2> QED
    BY <2>1, <2>5 DEF Float64
<1> QED
  BY <1>1, <1>2, MaxIntAssumption DEF Numbers

LEMMA ParsedExact == ASSUME in \in Given PROVE ParsedSizeFits
<1>1. CASE in.number = NoNumber
  BY <1>1 DEF ParsedSizeFits, FiniteNonNegInt64, SpareBlockSizeOf
<1>2. CASE in.number # NoNumber
  <2>1. PICK p \in Int, q \in Nat \ {0} : in.number = <<p, q>>
    BY <1>2, NumberInput
  <2> DEFINE x == in.number
             n == FiniteNonNegInt64(x)
             b == SpareBlockSizeOf(x)
  <2>2. x # NoNumber /\ x[1] = p /\ x[2] = q
    BY <1>2, <2>1
  <2>3. ASSUME n # Refused
        PROVE  n \in 0..MaxInt /\ n = RoundHalfUp(p, q) /\ p \in Nat
    <3>1. p >= 0
      BY <2>2, <2>3 DEF FiniteNonNegInt64
    <3>2. n = IF RoundHalfUp(p, q) >= MaxInt + 1 THEN Refused ELSE RoundHalfUp(p, q)
      BY <2>2, <3>1 DEF FiniteNonNegInt64
    <3>3. RoundHalfUp(p, q) \in Nat
      BY <3>1, RoundNearest
    <3> HIDE DEF n
    <3> QED
      BY <2>3, <3>1, <3>2, <3>3, MaxIntAssumption
  <2>4. n # Refused =>
          n \in 0..MaxInt /\ 2 * (n * x[2] - x[1]) <= x[2] /\ 2 * (x[1] - n * x[2]) <= x[2]
    <3> SUFFICES ASSUME n # Refused
                 PROVE  n \in 0..MaxInt /\ 2 * (n * q - p) <= q /\ 2 * (p - n * q) <= q
      BY <2>2
    <3> HIDE DEF n
    <3> QED
      BY <2>3, RoundNearest
  <2>5. ASSUME b # Refused
        PROVE  b \in 1..MaxInt /\ WholeWithin * Distance(x[1], b * x[2]) <= x[2]
    <3>1. /\ b = n /\ p >= q
          /\ ~(WholeWithin * Distance(p, RoundHalfUp(p, q) * q) > q)
      BY <2>2, <2>5 DEF SpareBlockSizeOf
    <3>2. n \in 0..MaxInt /\ n = RoundHalfUp(p, q) /\ p \in Nat
      BY <2>3, <2>5, <3>1
    <3>3. 2 * (p - n * q) <= q
      BY <3>2, RoundNearest
    <3> HIDE DEF n, b
    <3>4. n # 0
      BY <2>1, <3>1, <3>2, <3>3
    <3>5. n * q \in Int
      BY <2>1, <3>2, MaxIntAssumption
    <3>6. Distance(p, n * q) \in Int
      BY <2>1, <3>5 DEF Distance
    <3>7. WholeWithin * Distance(p, n * q) \in Int
      BY <3>6, SizeAssumption
    <3>8. WholeWithin * Distance(p, n * q) <= q
      BY <2>1, <3>1, <3>2, <3>7
    <3> QED
      BY <2>2, <3>1, <3>2, <3>4, <3>8
  <2> QED
    BY <2>4, <2>5 DEF ParsedSizeFits
<1> QED
  BY <1>1, <1>2

LEMMA SpeedExact == ASSUME in \in Given PROVE AcceptedSpeedIsBounded
<1> DEFINE x == SpeedOf(in.number)
<1> SUFFICES ASSUME x # Refused
             PROVE  /\ BwToByteDur(x) \in 0..Second
                    /\ BwToByteDur(x) = 0 <=> x[1] = 0 \/ x[1] > Second * x[2]
  BY DEF AcceptedSpeedIsBounded
<1>1. in.number # NoNumber /\ x = in.number
  BY DEF SpeedOf
<1>2. PICK p \in Int, q \in Nat \ {0} : in.number = <<p, q>>
  BY <1>1, NumberInput
<1>3. x = <<p, q>> /\ x[1] = p /\ x[2] = q /\ p >= 0 /\ (p > 0 => p >= q)
  BY <1>1, <1>2 DEF SpeedOf
<1>4. Second \in 1..MaxInt /\ Second \in Nat
  BY DelayAssumption, MaxIntAssumption
<1>5. CASE p = 0
  <2>1. BwToByteDur(<<p, q>>) = 0
    BY <1>5 DEF BwToByteDur
  <2> QED
    BY <1>3, <1>4, <1>5, <2>1
<1>6. CASE p > 0
  <2> DEFINE y == Second * q
             d == y \div p
  <2>1. p \in Nat \ {0} /\ y \in Nat
    BY <1>4, <1>6
  <2>2. d \in Nat /\ BwToByteDur(<<p, q>>) = SmallerOf(d, MaxInt)
    BY <2>1, BwToByteDurBounds
  <2>3. d * p <= y /\ y < (d + 1) * p
    <3> HIDE DEF y
    <3> QED
      BY <2>1, <2>2, DivBlock
  <2>4. d <= Second
    <3>1. CASE d > Second
      <4>1. (Second + 1) * p <= d * p
        <5> HIDE DEF d
        <5> QED
          BY <1>4, <2>1, <2>2, <3>1
      <4>2. Second * q <= Second * p
        BY <1>3, <1>4, <1>6
      <4>3. (Second + 1) * p = Second * p + p
        BY <1>4
      <4> DEFINE u == Second * p
                 v == d * p
      <4>4. u \in Int /\ v \in Int
        <5> HIDE DEF d
        <5> QED
          BY <1>4, <2>2
      <4>5. u + p <= v /\ y <= u /\ v <= y
        BY <2>3, <4>1, <4>2, <4>3
      <4> HIDE DEF u, v, y
      <4> QED
        BY <1>6, <2>1, <4>4, <4>5
    <3> QED
      BY <1>4, <2>2, <3>1
  <2>5. BwToByteDur(<<p, q>>) = d
    <3> HIDE DEF d
    <3> QED
      BY <1>4, <2>2, <2>4, MaxIntAssumption DEF SmallerOf
  <2>6. d = 0 <=> p > y
    <3>1. d = 0 => y < p
      BY <2>1, <2>3
    <3>2. y < p => d = 0
      <4> SUFFICES ASSUME y < p PROVE d = 0
        OBVIOUS
      <4>1. 0 * p <= y /\ y < (0 + 1) * p
        <5> HIDE DEF y
        <5> QED
          BY <2>1
      <4> HIDE DEF y
      <4> QED
        BY <2>1, <4>1, DivBlock
    <3> HIDE DEF d, y
    <3> QED
      BY <2>1, <3>1, <3>2
  <2> QED
    BY <1>3, <1>4, <1>6, <2>2, <2>4, <2>5, <2>6
<1> QED
  BY <1>2, <1>3, <1>5, <1>6

(* What a backing is, in numbers.                                          *)
LEMMA BackingInput ==
  ASSUME in \in Backings
  PROVE  /\ in.capacity \in Nat \ {0} /\ in.blocks \in Nat /\ in.free \in Nat
         /\ in.frsize \in Nat \ {0}
  BY MaxIntAssumption, BlockSizeAssumption DEF Backings

LEMMA DfExact == ASSUME in \in Backings PROVE DfAgreesWithGate
<1> DEFINE c == in.capacity
           f == in.frsize
           k == IF in.blocks > in.free THEN in.blocks - in.free ELSE 0
           t == c \div f
           s == (IF t > k THEN t - k ELSE 0) * f
           u == UsedBytes(in)
<1>1. c \in Nat /\ f \in Nat \ {0} /\ k \in Nat
  BY BackingInput
<1>2. u = k * f
  BY BackingInput DEF UsedBytes
<1>3. Reflected(in.capacity, in).free * in.frsize = s
  BY DEF Reflected
<1> HIDE DEF c, f, k, u
<1>4. t \in Nat /\ t * f <= c /\ c < (t + 1) * f
  BY <1>1, DivBlock
<1> HIDE DEF t
<1> DEFINE v == t * f
           w == k * f
<1>5. v \in Nat /\ w \in Nat /\ v <= c /\ c < v + f
  <2>1. (t + 1) * f = t * f + f
    BY <1>1, <1>4
  <2> QED
    BY <1>1, <1>4, <2>1
<1>6. s = IF t > k THEN v - w ELSE 0
  <2>1. t > k => (t - k) * f = t * f - k * f
    BY <1>1, <1>4
  <2> QED
    BY <1>1, <2>1
<1>7. IF t > k THEN w + f <= v ELSE v <= w
  <2>1. CASE t > k
    <3>1. (k + 1) * f <= t * f
      BY <1>1, <1>4, <2>1
    <3>2. (k + 1) * f = k * f + f
      BY <1>1
    <3> QED
      BY <2>1, <3>1, <3>2
  <2>2. CASE t <= k
    <3>1. t * f <= k * f
      BY <1>1, <1>4, <2>2
    <3> QED
      BY <1>1, <1>4, <2>2, <3>1
  <2> QED
    BY <1>1, <1>4, <2>1, <2>2
<1> HIDE DEF v, w, s
<1>8. s <= LargerOf(c - w, 0) /\ LargerOf(c - w, 0) < s + f
  BY <1>1, <1>4, <1>5, <1>6, <1>7 DEF LargerOf
<1> QED
  BY <1>2, <1>3, <1>8 DEF DfAgreesWithGate, c, f, u, w

LEMMA FullFirst == ASSUME in \in Backings PROVE CapacityFullFirst
<1> DEFINE c == in.capacity
           f == in.frsize
           b == in.blocks
           e == in.free
           u == UsedBytes(in)
<1> SUFFICES ASSUME MountAccepts(c, in) PROVE 0 < c - u /\ c - u < e * f
  BY DEF CapacityFullFirst
<1>1. c \in Nat \ {0} /\ f \in Nat \ {0} /\ b \in Nat /\ e \in Nat
  BY BackingInput
<1>2. u = IF b > e THEN (b - e) * f ELSE 0
  BY DEF UsedBytes
<1>3. u < c /\ c < b * f
  BY <1>1 DEF MountAccepts, TotalBytes
<1> HIDE DEF c, f, b, e, u
<1>4. b * f \in Nat /\ e * f \in Nat /\ (b - e) * f = b * f - e * f
  BY <1>1
<1>5. CASE b > e
  BY <1>1, <1>2, <1>3, <1>4, <1>5
<1>6. CASE b <= e
  <2>1. b * f <= e * f
    BY <1>1, <1>6
  <2> QED
    BY <1>1, <1>2, <1>3, <1>4, <1>6, <2>1
<1> QED
  BY <1>1, <1>5, <1>6

(* A size knob.go accepts is the nearest int64 to what was written, and an *)
(* accepted block size is exactly that.                                    *)
THEOREM AcceptedSizesFit == Spec => []ParsedSizeFits
<1>1. Init => ParsedSizeFits
  BY Kinds, ParsedExact DEF ParsedSizeFits
<1> QED
  BY <1>1, AlwaysInput, PTL

(* An accepted speed costs at most a second for each byte, and is free     *)
(* only when it is 0 or above a byte in each nanosecond.                   *)
THEOREM AcceptedSpeedsAreBounded == Spec => []AcceptedSpeedIsBounded
<1>1. Init => AcceptedSpeedIsBounded
  BY Kinds, SpeedExact DEF AcceptedSpeedIsBounded
<1> QED
  BY <1>1, AlwaysInput, PTL

(* The free space reflectCapacity shows is what the gate of capacity.go    *)
(* still admits, to less than a block.                                     *)
THEOREM DfShowsTheGate == Spec => []DfAgreesWithGate
<1>1. Init => DfAgreesWithGate
  BY Kinds, DfExact DEF DfAgreesWithGate
<1> QED
  BY <1>1, AlwaysInput, PTL

(* A capacity checkCapacityAtMount accepts has room, and runs out before   *)
(* the backing does.                                                       *)
THEOREM CapacityRunsOutFirst == Spec => []CapacityFullFirst
<1>1. Init => CapacityFullFirst
  BY Kinds, FullFirst DEF CapacityFullFirst
<1> QED
  BY <1>1, AlwaysInput, PTL
=============================================================================
