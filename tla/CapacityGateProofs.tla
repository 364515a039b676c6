-------------------------- MODULE CapacityGateProofs --------------------------
(***************************************************************************)
(* Proofs about CapacityGate: types, the capacity bound for a single       *)
(* writer, and how far any number of writers can overshoot it, whatever    *)
(* the capacity, the sizes and the lifetime of the estimate.               *)
(*                                                                         *)
(* The bounds are not inductive by themselves: they rest on the estimate   *)
(* being an upper bound of what is on disk plus what is admitted and still *)
(* to land, which holds once the estimate was aligned (Covered, BurstInv). *)
(***************************************************************************)
EXTENDS CapacityGate, TLAPS, FiniteSetTheorems

(* Bytes admitted by the gate and not yet written.                         *)
Pending(w) == IF pc[w] \in {"check", "land"} THEN size[w] ELSE 0

(* Where each local stands, with respect to the shared estimate.           *)
LocalOK(w) ==
  /\ pc[w] = "load" => usedCached >= used
  /\ pc[w] = "storeUsed" => got[w] >= used
  /\ pc[w] = "storeAt" => got[w] >= used /\ usedCached >= used
  /\ pc[w] = "admit" => got[w] >= used /\ usedCached >= used
  /\ pc[w] \in {"check", "land"} => used + size[w] <= Capacity \/ size[w] = 0

(* A valid estimate covers what is on disk and what is still to land.      *)
Covered(w) == age < TTL => usedCached >= used + Pending(w)

LoneInv(w) == TypeOK /\ used <= Capacity /\ LocalOK(w) /\ Covered(w)

-----------------------------------------------------------------------------
LEMMA TypeInit == Init \/ AlignedInit => TypeOK
  BY GateAssumption DEF Init, AlignedInit, TypeOK, Steps

(* Every step of every callback keeps the types.                           *)
LEMMA TypeStep == TypeOK /\ [Next]_vars => TypeOK'
<1> SUFFICES ASSUME TypeOK, [Next]_vars PROVE TypeOK'
  OBVIOUS
<1> USE GateAssumption DEF TypeOK, Steps, locals, Goto, Gets, Forget, Return
<1>1. ASSUME NEW w \in Writers, Request(w) PROVE TypeOK'
  <2>1. PICK o \in {"write", "allocate"}, n \in Sizes : Enter(w, o, n)
    BY <1>1 DEF Request
  <2>2. n \in Nat /\ AfterGate(o) \in Steps
    BY DEF AfterGate
  <2>3. QED
    BY <2>1, <2>2 DEF Enter
<1>2. ASSUME NEW w \in Writers, ReadClock(w) \/ LoadUsed(w) PROVE TypeOK'
  BY <1>2 DEF ReadClock, LoadUsed
<1>3. ASSUME NEW w \in Writers, StatfsOK(w) \/ StatfsFails(w) PROVE TypeOK'
  BY <1>3 DEF StatfsOK, StatfsFails
<1>4. ASSUME NEW w \in Writers, StoreUsed(w) \/ StoreAt(w) PROVE TypeOK'
  BY <1>4 DEF StoreUsed, StoreAt
<1>5. ASSUME NEW w \in Writers, Refuse(w) \/ CheckRejects(w) PROVE TypeOK'
  BY <1>5 DEF Refuse, CheckRejects
<1>6. ASSUME NEW w \in Writers, Admit(w) PROVE TypeOK'
  <2>1. AfterGate(op[w]) \in Steps
    BY DEF AfterGate
  <2>2. QED
    BY <1>6, <2>1 DEF Admit
<1>7. ASSUME NEW w \in Writers, CheckPasses(w) PROVE TypeOK'
  BY <1>7 DEF CheckPasses
<1>8. ASSUME NEW w \in Writers, Land(w) PROVE TypeOK'
  BY <1>8 DEF Land
<1>9. CASE Free
  BY <1>9 DEF Free
<1>10. CASE Tick
  BY <1>10 DEF Tick, Later
<1>11. CASE UNCHANGED vars
  BY <1>11 DEF vars
<1>12. QED
  BY <1>1, <1>2, <1>3, <1>4, <1>5, <1>6, <1>7, <1>8, <1>9, <1>10, <1>11 DEF Next, Handler

(* The variables keep the types of the Go atomics and locals they model.   *)
THEOREM TypeCorrect == Spec => []TypeOK
  BY TypeInit, TypeStep, PTL DEF Spec

-----------------------------------------------------------------------------
(* What one step of the only writer does to the invariant.  The hypothesis *)
(* that statfs works is used for its own step only, where the alternative  *)
(* is that the old estimate covers what is on disk.                        *)
LEMMA LoneStep ==
  ASSUME NEW w, Writers = {w}, Rounding = 0, Capacity > 0,
         LoneInv(w), [Next]_vars, StatfsFails(w) => usedCached >= used
  PROVE  LoneInv(w)'
<1>1. TypeOK'
  BY TypeStep DEF LoneInv
<1> w \in Writers
  OBVIOUS
<1>t. /\ used \in Nat /\ usedCached \in Nat /\ size[w] \in Nat /\ got[w] \in Nat
      /\ age \in 0..TTL /\ nowAge[w] \in 0..TTL
      /\ Capacity \in Nat /\ TTL \in Nat
      /\ pc \in [Writers -> Steps] /\ size \in [Writers -> Nat] /\ got \in [Writers -> Nat]
  BY GateAssumption DEF LoneInv, TypeOK
<1>2. used' <= Capacity /\ LocalOK(w)' /\ Covered(w)'
  <2> USE <1>t DEF LoneInv, LocalOK, Covered, Pending, locals, Goto, Gets, Forget, Return
  <2>1. CASE Request(w)
    <3>1. PICK o \in {"write", "allocate"}, n \in Sizes : Enter(w, o, n)
      BY <2>1 DEF Request
    <3>2. n \in Nat
      BY GateAssumption
    <3>3. QED
      BY <3>1, <3>2 DEF Enter, AfterGate
  <2>2. CASE ReadClock(w) \/ LoadUsed(w)
    BY <2>2 DEF ReadClock, LoadUsed
  <2>3. CASE StatfsOK(w) \/ StatfsFails(w)
    BY <2>3 DEF StatfsOK, StatfsFails
  <2>4. CASE StoreUsed(w) \/ StoreAt(w)
    BY <2>4 DEF StoreUsed, StoreAt
  <2>5. CASE Refuse(w) \/ CheckRejects(w)
    BY <2>5 DEF Refuse, CheckRejects
  <2>6. CASE Admit(w)
    BY <2>6 DEF Admit, AfterGate
  <2>7. CASE CheckPasses(w)
    BY <2>7 DEF CheckPasses
  <2>8. CASE Land(w)
    <3>1. PICK k \in 0..size[w] : used' = used + k
      BY <2>8 DEF Land
    <3>2. used' <= Capacity
      BY <2>8, <3>1 DEF Land
    <3>3. QED
      BY <2>8, <3>1, <3>2 DEF Land
  <2>9. CASE Free
    BY <2>9 DEF Free
  <2>10. CASE Tick
    BY <2>10, GateAssumption DEF Tick, Later
  <2>11. CASE UNCHANGED vars
    BY <2>11 DEF vars
  <2>12. QED
    BY <2>1, <2>2, <2>3, <2>4, <2>5, <2>6, <2>7, <2>8, <2>9, <2>10, <2>11 DEF Next, Handler
<1>3. QED
  BY <1>1, <1>2 DEF LoneInv

(* With one write or fallocate at a time, a statfs that works and files    *)
(* that take no more than was written, the backing directory never grows   *)
(* past the simulated capacity, however long an estimate is kept and       *)
(* whatever earlier requests left in it.                                   *)
THEOREM LoneWriterStaysWithinCapacity ==
  ASSUME NEW w, Writers = {w}, Rounding = 0, Capacity > 0, "fails" \notin StatfsOutcomes
  PROVE  Spec => []NoOvershoot
<1>1. Init => LoneInv(w)
  BY TypeInit, GateAssumption DEF Init, LoneInv, LocalOK, Covered
<1>2. LoneInv(w) /\ [Next]_vars => LoneInv(w)'
  <2>1. ~StatfsFails(w)
    BY DEF StatfsFails
  <2>2. QED
    BY <2>1, LoneStep
<1>3. LoneInv(w) => NoOvershoot
  BY DEF LoneInv, NoOvershoot
<1>4. QED
  BY <1>1, <1>2, <1>3, PTL DEF Spec

-----------------------------------------------------------------------------
(* Once aligned, the estimate covers the disk even after it has expired.   *)
AlignedInv(w) == LoneInv(w) /\ usedCached >= used + Pending(w)

(* Fail-open is safe for one writer: when statfs fails at any time after   *)
(* the estimate was aligned, the old estimate still keeps the directory    *)
(* within the simulated capacity.                                          *)
THEOREM FailOpenStaysWithinCapacity ==
  ASSUME NEW w, Writers = {w}, Rounding = 0, Capacity > 0
  PROVE  AlignedSpec => []NoOvershoot
<1> w \in Writers
  OBVIOUS
<1>1. AlignedInit => AlignedInv(w)
  BY TypeInit, GateAssumption DEF AlignedInit, AlignedInv, LoneInv, LocalOK, Covered, Pending
<1>2. ASSUME AlignedInv(w), [Next]_vars PROVE AlignedInv(w)'
  <2>t. /\ used \in Nat /\ usedCached \in Nat /\ size[w] \in Nat /\ got[w] \in Nat
        /\ pc \in [Writers -> Steps] /\ size \in [Writers -> Nat] /\ Capacity \in Nat
    BY <1>2, GateAssumption DEF AlignedInv, LoneInv, TypeOK
  <2>1. usedCached >= used
    BY <1>2, <2>t DEF AlignedInv, Pending
  <2>2. LoneInv(w)'
    BY <1>2, <2>1, LoneStep DEF AlignedInv
  <2>3. (usedCached >= used + Pending(w))'
    <3> USE <1>2, <2>t DEF AlignedInv, LoneInv, LocalOK, Pending, locals, Goto, Gets, Forget, Return
    <3>1. CASE Request(w)
      <4>1. PICK o \in {"write", "allocate"}, n \in Sizes : Enter(w, o, n)
        BY <3>1 DEF Request
      <4>2. n \in Nat
        BY GateAssumption
      <4>3. QED
        BY <4>1, <4>2 DEF Enter, AfterGate
    <3>2. CASE ReadClock(w) \/ LoadUsed(w) \/ StatfsOK(w) \/ StatfsFails(w)
      BY <3>2 DEF ReadClock, LoadUsed, StatfsOK, StatfsFails
    <3>3. CASE StoreUsed(w) \/ StoreAt(w)
      BY <3>3 DEF StoreUsed, StoreAt
    <3>4. CASE Refuse(w) \/ CheckPasses(w) \/ CheckRejects(w)
      BY <3>4 DEF Refuse, CheckPasses, CheckRejects
    <3>5. CASE Admit(w)
      BY <3>5 DEF Admit, AfterGate
    <3>6. CASE Land(w)
      <4>1. PICK k \in 0..size[w] : used' = used + k
        BY <3>6 DEF Land
      <4>2. QED
        BY <3>6, <4>1 DEF Land
    <3>7. CASE Free
      BY <3>7 DEF Free
    <3>8. CASE Tick
      BY <3>8 DEF Tick
    <3>9. CASE UNCHANGED vars
      BY <3>9 DEF vars
    <3>10. QED
      BY <3>1, <3>2, <3>3, <3>4, <3>5, <3>6, <3>7, <3>8, <3>9 DEF Next, Handler
  <2>4. QED
    BY <2>2, <2>3 DEF AlignedInv
<1>3. AlignedInv(w) => NoOvershoot
  BY DEF AlignedInv, LoneInv, NoOvershoot
<1>4. QED
  BY <1>1, <1>2, <1>3, PTL DEF AlignedSpec

-----------------------------------------------------------------------------
(***************************************************************************)
(* Many writers.  The bytes that a set of callbacks asks for are counted   *)
(* as a set of pairs of a callback and one of its bytes; n bounds what one *)
(* of them may ask for.                                                    *)
(***************************************************************************)
Units(S, f, n) == {p \in S \X (1..n) : p[2] <= f[p[1]]}
Asked(S, f, n) == Cardinality(Units(S, f, n))

LEMMA UpTo ==
  ASSUME NEW n \in Nat
  PROVE  IsFiniteSet(1..n) /\ Cardinality(1..n) = n
  BY FS_Interval

LEMMA AskedBound ==
  ASSUME NEW S, IsFiniteSet(S), NEW f, NEW n \in Nat
  PROVE  /\ IsFiniteSet(Units(S, f, n))
         /\ Asked(S, f, n) \in Nat /\ Asked(S, f, n) <= Cardinality(S) * n
<1>1. IsFiniteSet(1..n) /\ Cardinality(1..n) = n
  BY UpTo
<1>2. IsFiniteSet(S \X (1..n)) /\ Cardinality(S \X (1..n)) = Cardinality(S) * n
  BY <1>1, FS_Product
<1>3. Units(S, f, n) \in SUBSET (S \X (1..n))
  BY DEF Units
<1>4. IsFiniteSet(Units(S, f, n)) /\ Asked(S, f, n) <= Cardinality(S \X (1..n))
  BY <1>2, <1>3, FS_Subset DEF Asked
<1> QED
  BY <1>2, <1>4, FS_CardinalityType DEF Asked

(* One more callback asks for its own bytes.                               *)
LEMMA AskedAdd ==
  ASSUME NEW S, IsFiniteSet(S), NEW f, NEW n \in Nat, NEW w, w \notin S, f[w] \in 0..n
  PROVE  Asked(S \cup {w}, f, n) = Asked(S, f, n) + f[w]
<1> DEFINE k == f[w]
           U == Units(S, f, n)
           V == {w} \X (1..k)
<1>1. Units(S \cup {w}, f, n) = U \cup V
  <2>1. ASSUME NEW p \in Units(S \cup {w}, f, n) PROVE p \in U \cup V
    BY <2>1 DEF Units
  <2>2. ASSUME NEW p \in U \cup V PROVE p \in Units(S \cup {w}, f, n)
    BY <2>2 DEF Units
  <2> QED
    BY <2>1, <2>2
<1>2. U \cap V = {}
  BY DEF Units
<1>3. IsFiniteSet(U) /\ Cardinality(U) \in Nat
  BY AskedBound DEF Asked
<1>4. IsFiniteSet(V) /\ Cardinality(V) = k
  <2>1. IsFiniteSet({w}) /\ Cardinality({w}) = 1
    BY FS_Singleton
  <2>2. IsFiniteSet(1..k) /\ Cardinality(1..k) = k
    <3>1. k \in Nat
      OBVIOUS
    <3> HIDE DEF k
    <3> QED
      BY <3>1, UpTo
  <2>3. IsFiniteSet(V) /\ Cardinality(V) = Cardinality({w}) * Cardinality(1..k)
    BY <2>1, <2>2, FS_Product
  <2> QED
    BY <2>1, <2>2, <2>3
<1>5. k \in Nat
  OBVIOUS
<1>6. Asked(S \cup {w}, f, n) = Cardinality(U \cup V)
  BY <1>1 DEF Asked
<1>7. Asked(S, f, n) = Cardinality(U)
  BY DEF Asked
<1>8. Cardinality(U \cup V) = Cardinality(U) + k
  <2> HIDE DEF U, V, k
  <2>1. Cardinality(U \cup V) = Cardinality(U) + Cardinality(V) - Cardinality({})
    BY <1>2, <1>3, <1>4, FS_Union
  <2>2. Cardinality({}) = 0
    BY FS_EmptySet
  <2> QED
    BY <1>3, <1>4, <1>5, <2>1, <2>2
<1> QED
  BY <1>6, <1>7, <1>8

(* The same callbacks ask for the same, whatever others ask for.           *)
LEMMA AskedSame ==
  ASSUME NEW S, NEW f, NEW g, NEW n, \A w \in S : f[w] = g[w]
  PROVE  Asked(S, f, n) = Asked(S, g, n)
<1>1. Units(S, f, n) = Units(S, g, n)
  BY DEF Units
<1> QED
  BY <1>1 DEF Asked

LEMMA AskedRemove ==
  ASSUME NEW S, IsFiniteSet(S), NEW f, NEW n \in Nat, NEW w \in S, f[w] \in 0..n
  PROVE  Asked(S, f, n) = Asked(S \ {w}, f, n) + f[w]
<1>1. IsFiniteSet(S \ {w}) /\ w \notin S \ {w} /\ (S \ {w}) \cup {w} = S
  BY FS_RemoveElement
<1> DEFINE R == S \ {w}
<1> HIDE DEF R
<1>2. Asked(R \cup {w}, f, n) = Asked(R, f, n) + f[w]
  BY <1>1, AskedAdd DEF R
<1> QED
  BY <1>1, <1>2 DEF R

-----------------------------------------------------------------------------
(* Admitted and on the way to the disk; about to be admitted on an         *)
(* estimate loaded earlier.                                                *)
Passed == {w \in Writers : pc[w] \in {"check", "land"}}
Fitting == {w \in Writers : pc[w] = "admit" /\ size[w] <= Capacity - got[w]}

(* Without an alignment the estimate counts everything that has passed, so *)
(* it covers what is on disk and what is to land.  It grows past the       *)
(* capacity only by those that compared it before others added: all but    *)
(* the one that compared last.                                             *)
BurstInv(n) ==
  /\ TypeOK
  /\ size \in [Writers -> 0..n]
  /\ \A w \in Writers : pc[w] \notin {"storeUsed", "storeAt"}
  /\ used + Asked(Passed, size, n) <= usedCached
  /\ usedCached + Asked(Fitting, size, n) <= Capacity + (Cardinality(Writers) - 1) * n

(* A step that leaves both sets of callbacks and their sizes alone.        *)
LEMMA BurstUnmoved ==
  ASSUME NEW n \in Nat, BurstInv(n), TypeOK', used' <= used, usedCached' = usedCached,
         size' \in [Writers -> 0..n],
         \A w \in Writers : pc'[w] \notin {"storeUsed", "storeAt"},
         Passed' = Passed, Fitting' = Fitting,
         \A w \in Passed \cup Fitting : size'[w] = size[w],
         IsFiniteSet(Writers)
  PROVE  BurstInv(n)'
<1>1. Asked(Passed, size', n) = Asked(Passed, size, n) /\ Asked(Fitting, size', n) = Asked(Fitting, size, n)
  BY AskedSame
<1>2. Asked(Passed, size, n)' = Asked(Passed, size, n) /\ Asked(Fitting, size, n)' = Asked(Fitting, size, n)
  BY <1>1
<1>3. Passed \in SUBSET Writers
  BY DEF Passed
<1>4. Asked(Passed, size, n) \in Nat
  BY <1>3, FS_Subset, AskedBound
<1>5. used \in Int /\ used' \in Int /\ usedCached \in Int
  BY DEF BurstInv, TypeOK
<1>6. used' + Asked(Passed, size, n)' <= usedCached'
  BY <1>2, <1>4, <1>5 DEF BurstInv
<1> QED
  BY <1>2, <1>6 DEF BurstInv

(* Both sets are finite, so what they ask for is a number.                 *)
LEMMA BurstSets ==
  ASSUME IsFiniteSet(Writers), NEW n \in Nat
  PROVE  /\ IsFiniteSet(Passed) /\ IsFiniteSet(Fitting)
         /\ Asked(Passed, size, n) \in Nat /\ Asked(Fitting, size, n) \in Nat
<1>1. Passed \in SUBSET Writers /\ Fitting \in SUBSET Writers
  BY DEF Passed, Fitting
<1>2. IsFiniteSet(Passed) /\ IsFiniteSet(Fitting)
  BY <1>1, FS_Subset
<1> QED
  BY <1>2, AskedBound

(* A callback enters the gate, or passes it at once with an empty request. *)
LEMMA BurstEnter ==
  ASSUME IsFiniteSet(Writers), Capacity > 0, NEW n \in Nat, \A x \in Sizes : x <= n,
         BurstInv(n), TypeOK', NEW w \in Writers, Request(w)
  PROVE  BurstInv(n)'
<1>1. PICK o \in {"write", "allocate"}, m \in Sizes : Enter(w, o, m)
  BY DEF Request
<1>2. m \in 0..n
  BY GateAssumption
<1>3. /\ used \in Nat /\ usedCached \in Nat /\ pc \in [Writers -> Steps]
      /\ size \in [Writers -> 0..n] /\ pc[w] = "idle" /\ got' = got
      /\ size' = [size EXCEPT ![w] = m] /\ used' = used /\ usedCached' = usedCached
      /\ pc' = [pc EXCEPT ![w] = IF Capacity <= 0 \/ m <= 0 THEN AfterGate(o) ELSE "clock"]
  BY <1>1 DEF Enter, Goto, BurstInv, TypeOK
<1>4. size' \in [Writers -> 0..n] /\ \A v \in Writers : pc'[v] \notin {"storeUsed", "storeAt"}
  BY <1>2, <1>3 DEF BurstInv, AfterGate
<1>5. w \notin Passed /\ w \notin Fitting /\ Fitting' = Fitting
  BY <1>3 DEF Passed, Fitting, AfterGate
<1>6. \A v \in Passed \cup Fitting : size'[v] = size[v]
  BY <1>3, <1>5 DEF Passed, Fitting
<1>7. CASE m > 0
  <2>1. Passed' = Passed
    BY <1>3, <1>7, <1>2, GateAssumption DEF Passed
  <2> QED
    BY <1>3, <1>4, <1>5, <1>6, <2>1, BurstUnmoved
<1>8. CASE m = 0
  <2>1. Passed' = Passed \cup {w}
    BY <1>3, <1>8 DEF Passed, AfterGate
  <2>2. size'[w] = 0
    BY <1>3, <1>8
  <2>3. Asked(Passed \cup {w}, size', n) = Asked(Passed, size', n) + size'[w]
    BY <1>4, <1>5, AskedAdd, BurstSets
  <2>4. Asked(Passed, size', n) = Asked(Passed, size, n) /\ Asked(Fitting, size', n) = Asked(Fitting, size, n)
    BY <1>6, AskedSame
  <2>5. Asked(Passed, size, n)' = Asked(Passed, size, n) /\ Asked(Fitting, size, n)' = Asked(Fitting, size, n)
    BY <1>5, <2>1, <2>2, <2>3, <2>4, BurstSets
  <2> QED
    BY <1>3, <1>4, <2>5 DEF BurstInv
<1> QED
  BY <1>2, <1>7, <1>8

(* It takes the estimate: only then is what it asks for sure to fit, and   *)
(* the others together ask for one request each at the most.               *)
LEMMA BurstLoad ==
  ASSUME IsFiniteSet(Writers), NEW n \in Nat, BurstInv(n), TypeOK',
         NEW w \in Writers, LoadUsed(w) \/ StatfsFails(w)
  PROVE  BurstInv(n)'
<1>1. /\ used \in Nat /\ usedCached \in Nat /\ pc \in [Writers -> Steps]
      /\ size \in [Writers -> 0..n] /\ pc[w] \in {"load", "statfs"}
      /\ got \in [Writers -> Nat] /\ got' = [got EXCEPT ![w] = usedCached]
      /\ size' = size /\ used' = used /\ usedCached' = usedCached
      /\ pc' = [pc EXCEPT ![w] = "admit"]
      /\ Capacity \in Nat
  BY GateAssumption DEF LoadUsed, StatfsFails, Gets, Goto, locals, BurstInv, TypeOK
<1>2. size' \in [Writers -> 0..n] /\ \A v \in Writers : pc'[v] \notin {"storeUsed", "storeAt"}
  BY <1>1 DEF BurstInv
<1>3. Passed' = Passed
  BY <1>1 DEF Passed
<1>4. CASE size[w] > Capacity - usedCached
  <2>1. Fitting' = Fitting
    BY <1>1, <1>4 DEF Fitting
  <2> QED
    BY <1>1, <1>2, <1>3, <2>1, BurstUnmoved
<1>5. CASE size[w] <= Capacity - usedCached
  <2>1. Fitting' = Fitting \cup {w} /\ w \notin Fitting
    BY <1>1, <1>5 DEF Fitting
  <2>2. Asked(Fitting \cup {w}, size, n) = Asked(Fitting, size, n) + size[w]
    BY <1>1, <2>1, AskedAdd, BurstSets
  <2>3. Asked(Fitting, size, n) <= (Cardinality(Writers) - 1) * n
    <3>1. Fitting \in SUBSET (Writers \ {w})
      BY <2>1 DEF Fitting
    <3>2. /\ IsFiniteSet(Writers \ {w}) /\ Cardinality(Writers \ {w}) = Cardinality(Writers) - 1
          /\ Cardinality(Writers \ {w}) \in Nat
      BY FS_RemoveElement, FS_CardinalityType
    <3>3. Cardinality(Fitting) \in Nat /\ Cardinality(Fitting) <= Cardinality(Writers) - 1
      BY <3>1, <3>2, FS_Subset, FS_CardinalityType
    <3>4. Asked(Fitting, size, n) \in Nat /\ Asked(Fitting, size, n) <= Cardinality(Fitting) * n
      BY BurstSets, AskedBound
    <3> DEFINE a == Cardinality(Fitting)
               b == Cardinality(Writers) - 1
               c == Asked(Fitting, size, n)
    <3>5. a \in Nat /\ b \in Nat /\ a <= b /\ c \in Nat /\ c <= a * n
      BY <3>2, <3>3, <3>4
    <3> HIDE DEF a, b, c
    <3>6. a * n <= b * n
      BY <3>5
    <3>7. c <= b * n
      BY <3>5, <3>6
    <3> QED
      BY <3>7 DEF b, c
  <2>4. Asked(Passed, size, n)' = Asked(Passed, size, n)
    BY <1>1, <1>3
  <2>5. Asked(Fitting, size, n)' = Asked(Fitting, size, n) + size[w]
    BY <1>1, <2>1, <2>2
  <2> DEFINE a == Asked(Fitting, size, n)
             b == (Cardinality(Writers) - 1) * n
  <2>6. a \in Nat /\ size[w] \in Nat /\ b \in Int
    <3>1. Cardinality(Writers) \in Nat
      BY FS_CardinalityType
    <3> QED
      BY <1>1, <3>1, BurstSets
  <2>7. usedCached + (a + size[w]) <= Capacity + b
    <3> HIDE DEF a, b
    <3>1. a <= b
      BY <2>3 DEF a, b
    <3> QED
      BY <1>1, <1>5, <2>6, <3>1
  <2> QED
    BY <1>1, <1>2, <2>4, <2>5, <2>7 DEF BurstInv
<1> QED
  BY <1>1, <1>4, <1>5

(* Admitted: what it asks for moves from the one set to the other, and     *)
(* into the estimate.                                                      *)
LEMMA BurstAdmit ==
  ASSUME IsFiniteSet(Writers), NEW n \in Nat, BurstInv(n), TypeOK', NEW w \in Writers, Admit(w)
  PROVE  BurstInv(n)'
<1>1. /\ used \in Nat /\ usedCached \in Nat /\ pc \in [Writers -> Steps]
      /\ size \in [Writers -> 0..n] /\ pc[w] = "admit" /\ size[w] <= Capacity - got[w]
      /\ got \in [Writers -> Nat] /\ got' = [got EXCEPT ![w] = 0]
      /\ size' = size /\ used' = used /\ usedCached' = usedCached + size[w]
      /\ pc' = [pc EXCEPT ![w] = AfterGate(op[w])]
  BY DEF Admit, Forget, Gets, Goto, BurstInv, TypeOK
<1>2. size' \in [Writers -> 0..n] /\ \A v \in Writers : pc'[v] \notin {"storeUsed", "storeAt"}
  BY <1>1 DEF BurstInv, AfterGate
<1>3. w \in Fitting /\ Fitting' = Fitting \ {w}
  BY <1>1 DEF Fitting, AfterGate
<1>4. w \notin Passed /\ Passed' = Passed \cup {w}
  BY <1>1 DEF Passed, AfterGate
<1>5. Asked(Passed, size, n)' = Asked(Passed, size, n) + size[w]
  BY <1>1, <1>4, AskedAdd, BurstSets
<1>6. Asked(Fitting, size, n) = Asked(Fitting, size, n)' + size[w]
  BY <1>1, <1>3, AskedRemove, BurstSets
<1> DEFINE a == Asked(Passed, size, n)
           b == Asked(Fitting, size, n)
           c == Asked(Fitting, size, n)'
<1>7. a \in Nat /\ b \in Nat /\ size[w] \in Nat
  BY <1>1, BurstSets
<1>8. c = b - size[w]
  <2>1. IsFiniteSet(Fitting \ {w})
    BY BurstSets, FS_RemoveElement
  <2>2. c \in Nat
    BY <1>1, <1>3, <2>1, AskedBound
  <2>3. b = c + size[w]
    BY <1>6
  <2> HIDE DEF b, c
  <2> QED
    BY <1>7, <2>2, <2>3
<1>9. used + a <= usedCached /\ usedCached + b <= Capacity + (Cardinality(Writers) - 1) * n
  BY DEF BurstInv
<1>10. /\ used + (a + size[w]) <= usedCached + size[w]
       /\ (usedCached + size[w]) + c <= Capacity + (Cardinality(Writers) - 1) * n
  <2> DEFINE d == Capacity + (Cardinality(Writers) - 1) * n
             m == size[w]
  <2>1. usedCached + b <= d /\ m \in Nat /\ c = b - m
    BY <1>7, <1>8, <1>9
  <2> HIDE DEF a, b, c, d, m
  <2>2. used + (a + m) <= usedCached + m /\ usedCached + m + c <= d
    BY <1>1, <1>7, <1>9, <2>1 
  <2> QED
    BY <2>2 DEF d, m
<1> QED
  BY <1>1, <1>2, <1>5, <1>10 DEF BurstInv

(* Rejected by a rule, or written: what it asked for is no longer to come. *)
LEMMA BurstReturn ==
  ASSUME IsFiniteSet(Writers), Rounding = 0, NEW n \in Nat, BurstInv(n), TypeOK',
         NEW w \in Writers, CheckRejects(w) \/ Land(w)
  PROVE  BurstInv(n)'
<1>1. /\ used \in Nat /\ usedCached \in Nat /\ pc \in [Writers -> Steps]
      /\ size \in [Writers -> 0..n] /\ pc[w] \in {"check", "land"}
      /\ got \in [Writers -> Nat] /\ got' = [got EXCEPT ![w] = 0]
      /\ size' = [size EXCEPT ![w] = 0] /\ usedCached' = usedCached
      /\ pc' = [pc EXCEPT ![w] = "idle"]
  BY DEF CheckRejects, Land, Return, Forget, Gets, Goto, BurstInv, TypeOK
<1>2. size' \in [Writers -> 0..n] /\ \A v \in Writers : pc'[v] \notin {"storeUsed", "storeAt"}
  BY <1>1 DEF BurstInv
<1>3. used' \in Nat /\ used' <= used + size[w]
  <2>1. CASE CheckRejects(w)
    BY <1>1, <2>1 DEF CheckRejects
  <2>2. CASE Land(w)
    <3>1. PICK k \in 0..size[w] : used' = used + k
      BY <1>1, <2>2 DEF Land
    <3> QED
      BY <1>1, <3>1
  <2> QED
    BY <2>1, <2>2
<1>4. Fitting' = Fitting /\ w \notin Fitting
  BY <1>1 DEF Fitting
<1>5. w \in Passed /\ Passed' = Passed \ {w}
  BY <1>1 DEF Passed
<1>6. Asked(Fitting, size', n) = Asked(Fitting, size, n)
  <2>1. \A v \in Fitting : size'[v] = size[v]
    BY <1>1, <1>4 DEF Fitting
  <2> QED
    BY <2>1, AskedSame
<1>7. Asked(Passed \ {w}, size', n) = Asked(Passed \ {w}, size, n)
  <2>1. \A v \in Passed \ {w} : size'[v] = size[v]
    BY <1>1 DEF Passed
  <2> QED
    BY <2>1, AskedSame
<1>8. Asked(Passed, size, n) = Asked(Passed \ {w}, size, n) + size[w]
  BY <1>1, <1>5, AskedRemove, BurstSets
<1> DEFINE a == Asked(Passed, size, n)
           c == Asked(Passed \ {w}, size, n)
           m == size[w]
<1>9. c \in Nat
  <2>1. IsFiniteSet(Passed \ {w})
    BY BurstSets, FS_RemoveElement
  <2> QED
    BY <2>1, AskedBound
<1>10. used' + c <= usedCached
  <2>1. used + a <= usedCached /\ a = c + m /\ used' <= used + m
    BY <1>3, <1>8 DEF BurstInv
  <2>2. used \in Nat /\ usedCached \in Nat /\ used' \in Nat /\ m \in Nat /\ c \in Nat
    BY <1>1, <1>3, <1>9
  <2>3. used + (c + m) <= usedCached
    BY <2>1
  <2>4. \A x, y, u, v, e \in Nat : v <= u + x /\ u + (y + x) <= e => v + y <= e
    OBVIOUS
  <2> QED
    BY <2>1, <2>2, <2>3, <2>4
<1>11. Asked(Passed, size, n)' = c /\ Asked(Fitting, size, n)' = Asked(Fitting, size, n)
  BY <1>4, <1>5, <1>6, <1>7
<1> QED
  BY <1>1, <1>2, <1>10, <1>11 DEF BurstInv

(* The other steps move nothing between the two sets.                      *)
LEMMA BurstRest ==
  ASSUME IsFiniteSet(Writers), NEW n \in Nat, BurstInv(n), TypeOK',
         \/ \E w \in Writers : ReadClock(w) \/ Refuse(w) \/ CheckPasses(w)
         \/ Free \/ Tick \/ UNCHANGED vars
  PROVE  BurstInv(n)'
<1>1. /\ used \in Nat /\ usedCached \in Nat /\ pc \in [Writers -> Steps]
      /\ size \in [Writers -> 0..n] /\ got \in [Writers -> Nat] /\ Capacity \in Nat
  BY GateAssumption DEF BurstInv, TypeOK
<1>2. ASSUME NEW w \in Writers, ReadClock(w) \/ CheckPasses(w) PROVE BurstInv(n)'
  <2>1. /\ used' = used /\ usedCached' = usedCached /\ size' = size /\ got' = got
        /\ \A v \in Writers : pc'[v] \notin {"storeUsed", "storeAt"}
        /\ Passed' = Passed /\ Fitting' = Fitting
    BY <1>1, <1>2 DEF ReadClock, CheckPasses, Goto, locals, Passed, Fitting, BurstInv
  <2> QED
    BY <1>1, <2>1, BurstUnmoved
<1>3. ASSUME NEW w \in Writers, Refuse(w) PROVE BurstInv(n)'
  <2>1. /\ used' = used /\ usedCached' = usedCached /\ size' = [size EXCEPT ![w] = 0]
        /\ got' = [got EXCEPT ![w] = 0] /\ pc' = [pc EXCEPT ![w] = "idle"] /\ pc[w] = "admit"
        /\ size[w] > Capacity - got[w]
    BY <1>3 DEF Refuse, Return, Goto, Forget, Gets
  <2>2. /\ size' \in [Writers -> 0..n]
        /\ \A v \in Writers : pc'[v] \notin {"storeUsed", "storeAt"}
    BY <1>1, <2>1 DEF BurstInv
  <2>3. Passed' = Passed /\ Fitting' = Fitting /\ w \notin Passed /\ w \notin Fitting
    BY <1>1, <2>1 DEF Passed, Fitting
  <2>4. \A v \in Passed \cup Fitting : size'[v] = size[v]
    BY <1>1, <2>1, <2>3 DEF Passed, Fitting
  <2> QED
    BY <1>1, <2>1, <2>2, <2>3, <2>4, BurstUnmoved
<1>4. CASE Free \/ Tick \/ UNCHANGED vars
  <2>1. used' <= used
    BY <1>1, <1>4 DEF Free, Tick, vars
  <2>2. usedCached' = usedCached /\ size' = size /\ got' = got /\ pc' = pc
    BY <1>4 DEF Free, Tick, vars, locals
  <2>3. Passed' = Passed /\ Fitting' = Fitting
    BY <2>2 DEF Passed, Fitting
  <2>4. \A v \in Writers : pc'[v] \notin {"storeUsed", "storeAt"}
    BY <2>2 DEF BurstInv
  <2> QED
    BY <1>1, <2>1, <2>2, <2>3, <2>4, BurstUnmoved
<1> QED
  BY <1>2, <1>3, <1>4

LEMMA BurstStep ==
  ASSUME IsFiniteSet(Writers), Rounding = 0, Capacity > 0, "ok" \notin StatfsOutcomes,
         NEW n \in Nat, \A x \in Sizes : x <= n, BurstInv(n), [Next]_vars
  PROVE  BurstInv(n)'
<1>1. TypeOK'
  BY TypeStep DEF BurstInv
<1>2. \A w \in Writers : ~StatfsOK(w) /\ ~StoreUsed(w) /\ ~StoreAt(w)
  BY DEF StatfsOK, StoreUsed, StoreAt, Goto, BurstInv
<1>3. ASSUME NEW w \in Writers, Request(w) PROVE BurstInv(n)'
  BY <1>1, <1>3, BurstEnter
<1>4. ASSUME NEW w \in Writers, LoadUsed(w) \/ StatfsFails(w) PROVE BurstInv(n)'
  BY <1>1, <1>4, BurstLoad
<1>5. ASSUME NEW w \in Writers, Admit(w) PROVE BurstInv(n)'
  BY <1>1, <1>5, BurstAdmit
<1>6. ASSUME NEW w \in Writers, CheckRejects(w) \/ Land(w) PROVE BurstInv(n)'
  BY <1>1, <1>6, BurstReturn
<1>7. ASSUME \/ \E w \in Writers : ReadClock(w) \/ Refuse(w) \/ CheckPasses(w)
             \/ Free \/ Tick \/ UNCHANGED vars
      PROVE BurstInv(n)'
  BY <1>1, <1>7, BurstRest
<1> QED
  BY <1>2, <1>3, <1>4, <1>5, <1>6, <1>7 DEF Next, Handler

(* Any number of writers at once, on an estimate that was aligned and is   *)
(* not aligned again: the directory outgrows the simulated capacity by one *)
(* largest request of each writer but the last at the most, however many   *)
(* requests they make (capacity.go compares and adds in separate steps).   *)
THEOREM BurstStaysBounded ==
  ASSUME IsFiniteSet(Writers), Writers # {}, Rounding = 0, "ok" \notin StatfsOutcomes
  PROVE  AlignedSpec => []OvershootBounded
<1>1. CASE Capacity > 0 /\ \E n \in Sizes : \A x \in Sizes : x <= n
  <2>1. PICK n \in Sizes : \A x \in Sizes : x <= n
    BY <1>1
  <2>2. n \in Nat /\ \A m \in Sizes : (\A x \in Sizes : x <= m) => m = n
    BY <2>1, GateAssumption
  <2>3. AlignedInit => BurstInv(n)
    <3> SUFFICES ASSUME AlignedInit PROVE BurstInv(n)
      OBVIOUS
    <3>1. TypeOK
      BY TypeInit
    <3>2. Passed = {} /\ Fitting = {}
      BY DEF AlignedInit, Passed, Fitting
    <3>3. Cardinality({}) = 0 /\ IsFiniteSet({})
      BY FS_EmptySet
    <3>4. Units({}, size, n) = {}
      BY DEF Units
    <3>5. Asked(Passed, size, n) = 0 /\ Asked(Fitting, size, n) = 0
      BY <3>2, <3>3, <3>4 DEF Asked
    <3>6. Cardinality(Writers) - 1 \in Nat
      <4>1. PICK w : w \in Writers
        OBVIOUS
      <4>2. Cardinality(Writers \ {w}) = Cardinality(Writers) - 1 /\ IsFiniteSet(Writers \ {w})
        BY <4>1, FS_RemoveElement
      <4> QED
        BY <4>2, FS_CardinalityType
    <3> DEFINE b == Cardinality(Writers) - 1
    <3>7. b * n \in Nat
      <4> HIDE DEF b
      <4>1. b \in Nat
        BY <3>6 DEF b
      <4> QED
        BY <2>2, <4>1
    <3>8. used = InitialUsed /\ usedCached = InitialUsed /\ InitialUsed < Capacity
      BY <1>1, GateAssumption DEF AlignedInit
    <3>9. used + 0 <= usedCached /\ usedCached + 0 <= Capacity + b * n
      <4> HIDE DEF b
      <4> QED
        BY <3>7, <3>8, GateAssumption
    <3>10. /\ size \in [Writers -> 0..n]
           /\ \A w \in Writers : pc[w] \notin {"storeUsed", "storeAt"}
      BY <2>2 DEF AlignedInit
    <3> QED
      BY <3>1, <3>5, <3>9, <3>10 DEF BurstInv
  <2>4. BurstInv(n) /\ [Next]_vars => BurstInv(n)'
    BY <1>1, <2>1, <2>2, BurstStep
  <2>5. BurstInv(n) => OvershootBounded
    <3> SUFFICES ASSUME BurstInv(n) PROVE OvershootBounded
      OBVIOUS
    <3> DEFINE a == Asked(Passed, size, n)
               b == Asked(Fitting, size, n)
               d == (Cardinality(Writers) - 1) * n
    <3>1. a \in Nat /\ b \in Nat
      BY <2>2, BurstSets
    <3>2. used + a <= usedCached /\ usedCached + b <= Capacity + d
      BY DEF BurstInv
    <3>3. used \in Nat /\ usedCached \in Nat /\ d \in Int /\ Capacity \in Nat
      <4>1. Cardinality(Writers) \in Nat
        BY FS_CardinalityType
      <4> QED
        BY <2>2, <4>1, GateAssumption DEF BurstInv, TypeOK
    <3>4. used <= Capacity + d
      <4> HIDE DEF a, b, d
      <4> QED
        BY <3>1, <3>2, <3>3
    <3> QED
      BY <2>2, <3>4 DEF OvershootBounded
  <2> QED
    BY <2>3, <2>4, <2>5, PTL DEF AlignedSpec
<1>2. CASE ~(Capacity > 0 /\ \E n \in Sizes : \A x \in Sizes : x <= n)
  <2>1. OvershootBounded
    BY <1>2 DEF OvershootBounded
  <2> QED
    BY <2>1, PTL
<1> QED
  BY <1>1, <1>2
=============================================================================
