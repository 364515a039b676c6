---------------------------- MODULE CapacityGate ----------------------------
(***************************************************************************)
(* The simulated capacity (capacity.go) as the concurrent write and        *)
(* fallocate callbacks of file.go use it.  Nothing here takes a lock: the  *)
(* estimate of the bytes used in the backing directory and the time of its *)
(* last alignment are two atomics, and every load, store and add of them   *)
(* is a step of its own.                                                   *)
(*                                                                         *)
(* Time is relative: age is the time since the instant in usedCachedAt,    *)
(* nowAge[w] since writer w read the clock, both up to TTL.  Reading the   *)
(* clock and loading usedCachedAt are one step: the comparison holds for   *)
(* the instant the clock was read.                                         *)
(***************************************************************************)
EXTENDS Integers, FiniteSets

CONSTANTS
  Writers,        \* callbacks that may run at once
  Capacity,       \* fixed when mounting; 0 is disabled
  InitialUsed,    \* bytes in the backing directory when serving starts
  Sizes,          \* request sizes
  TTL,            \* usedCacheTTL in ticks
  Rounding,       \* bytes a write can take on disk beyond its size (whole blocks)
  StatfsOutcomes  \* what statfs on the backing directory may do

ASSUME GateAssumption ==
  /\ Capacity \in Nat
  /\ InitialUsed \in Nat
  /\ Capacity > 0 => InitialUsed < Capacity      \* checkCapacityAtMount
  /\ Sizes \subseteq Nat
  /\ TTL \in Nat \ {0}
  /\ Rounding \in Nat
  /\ StatfsOutcomes \subseteq {"ok", "fails"}
  /\ StatfsOutcomes # {}

VARIABLES
  used,         \* what statfs would report: the bytes used in the backing directory
  usedCached,   \* Injector.usedCached
  age,          \* time since Injector.usedCachedAt; TTL is "expired or never aligned"
  pc, op, size, \* of each callback: next step, operation, request size
  got,          \* the estimate it compares with
  nowAge        \* time since it read the clock

locals == <<op, size, got, nowAge>>
vars == <<used, usedCached, age, pc, locals>>

Steps == {"idle", "clock", "load", "statfs", "storeUsed", "storeAt", "admit", "check", "land"}

Init ==
  /\ used = InitialUsed
  /\ usedCached = 0 /\ age = TTL
  /\ pc = [w \in Writers |-> "idle"]
  /\ op = [w \in Writers |-> "write"]
  /\ size = [w \in Writers |-> 0]
  /\ got = [w \in Writers |-> 0]
  /\ nowAge = [w \in Writers |-> 0]

(* The same gate once it was aligned: usedCached is exact and not expired.  *)
AlignedInit ==
  /\ used = InitialUsed
  /\ usedCached = InitialUsed /\ age = 0
  /\ pc = [w \in Writers |-> "idle"]
  /\ op = [w \in Writers |-> "write"]
  /\ size = [w \in Writers |-> 0]
  /\ got = [w \in Writers |-> 0]
  /\ nowAge = [w \in Writers |-> 0]

Goto(w, from, to) == pc[w] = from /\ pc' = [pc EXCEPT ![w] = to]
Gets(w, x) == got' = [got EXCEPT ![w] = x]
Forget(w) == Gets(w, 0)

(* The callback returns and its locals are gone.                           *)
Return(w, from) ==
  /\ Goto(w, from, "idle")
  /\ op' = [op EXCEPT ![w] = "write"]
  /\ size' = [size EXCEPT ![w] = 0]
  /\ Forget(w)

(* A write passes the rules after the gate, fallocate goes to the backing. *)
AfterGate(o) == IF o = "write" THEN "check" ELSE "land"

-----------------------------------------------------------------------------
(* The callback enters checkWriteCapacity; a disabled capacity or an empty *)
(* request passes at once.                                                 *)
Enter(w, o, n) ==
  /\ Goto(w, "idle", IF Capacity <= 0 \/ n <= 0 THEN AfterGate(o) ELSE "clock")
  /\ op' = [op EXCEPT ![w] = o]
  /\ size' = [size EXCEPT ![w] = n]
  /\ UNCHANGED <<used, usedCached, age, got, nowAge>>

(* Mutant: an estimate, once made, never expires.                          *)
ReadClock_NeverExpires(w) ==
  /\ Goto(w, "clock", "load")
  /\ nowAge' = [nowAge EXCEPT ![w] = 0]
  /\ UNCHANGED <<used, usedCached, age, op, size, got>>

(* now := time.Now(), and usedCachedAt is compared with it.                *)
ReadClock(w) ==
  /\ Goto(w, "clock", IF age < TTL THEN "load" ELSE "statfs")
  /\ nowAge' = [nowAge EXCEPT ![w] = 0]
  /\ UNCHANGED <<used, usedCached, age, op, size, got>>

(* The cached estimate is still valid.                                     *)
LoadUsed(w) ==
  /\ Goto(w, "load", "admit")
  /\ Gets(w, usedCached)
  /\ UNCHANGED <<used, usedCached, age, op, size, nowAge>>

(* statfs on the backing directory; on failure the old estimate serves.    *)
StatfsOK(w) ==
  /\ "ok" \in StatfsOutcomes
  /\ Goto(w, "statfs", "storeUsed")
  /\ Gets(w, used)
  /\ UNCHANGED <<used, usedCached, age, op, size, nowAge>>

StatfsFails(w) ==
  /\ "fails" \in StatfsOutcomes
  /\ Goto(w, "statfs", "admit")
  /\ Gets(w, usedCached)
  /\ UNCHANGED <<used, usedCached, age, op, size, nowAge>>

StoreUsed(w) ==
  /\ Goto(w, "storeUsed", "storeAt")
  /\ usedCached' = got[w]
  /\ UNCHANGED <<used, age, locals>>

(* The alignment is dated with the clock read before statfs.               *)
StoreAt(w) ==
  /\ Goto(w, "storeAt", "admit")
  /\ age' = nowAge[w]
  /\ UNCHANGED <<used, usedCached, locals>>

(* n > cap - used: ENOSPC before any rule is looked at.                    *)
Refuse(w) ==
  /\ size[w] > Capacity - got[w]
  /\ Return(w, "admit")
  /\ UNCHANGED <<used, usedCached, age, nowAge>>

(* Mutant: the request is not counted until statfs sees it.                *)
Admit_NoAdd(w) ==
  /\ size[w] <= Capacity - got[w]
  /\ Goto(w, "admit", AfterGate(op[w]))
  /\ Forget(w)
  /\ UNCHANGED <<used, usedCached, age, op, size, nowAge>>

(* Mutant: the request is stored over the estimate instead of added to it. *)
Admit_LoadedPlus(w) ==
  /\ size[w] <= Capacity - got[w]
  /\ Goto(w, "admit", AfterGate(op[w]))
  /\ usedCached' = got[w] + size[w]
  /\ Forget(w)
  /\ UNCHANGED <<used, age, op, size, nowAge>>

(* Mutant: the wrong sign.                                                 *)
Admit_Subtracts(w) ==
  /\ size[w] <= Capacity - got[w]
  /\ Goto(w, "admit", AfterGate(op[w]))
  /\ usedCached' = usedCached - size[w]
  /\ Forget(w)
  /\ UNCHANGED <<used, age, op, size, nowAge>>

(* Admitted: the request is added to the shared estimate.                  *)
Admit(w) ==
  /\ size[w] <= Capacity - got[w]
  /\ Goto(w, "admit", AfterGate(op[w]))
  /\ usedCached' = usedCached + size[w]
  /\ Forget(w)
  /\ UNCHANGED <<used, age, op, size, nowAge>>

(* Injector.Check lets the write through, or a rule rejects it: the count  *)
(* in usedCached is not taken back.                                        *)
CheckPasses(w) ==
  /\ Goto(w, "check", "land")
  /\ UNCHANGED <<used, usedCached, age, locals>>

CheckRejects(w) ==
  /\ Return(w, "check")
  /\ UNCHANGED <<used, usedCached, age, nowAge>>

(* The backing call: the directory grows by at most the request, rounded   *)
(* to blocks; by less for an overwrite, a short write or an error.         *)
Land(w) ==
  /\ Return(w, "land")
  /\ \E k \in 0..(IF size[w] = 0 THEN 0 ELSE size[w] + Rounding) : used' = used + k
  /\ UNCHANGED <<usedCached, age, nowAge>>

-----------------------------------------------------------------------------
(* Files are removed or truncated.                                         *)
Free ==
  /\ \E u \in 0..(used - 1) : used' = u
  /\ UNCHANGED <<usedCached, age, pc, locals>>

Later(a) == IF a < TTL THEN a + 1 ELSE TTL

Tick ==
  /\ age' = Later(age)
  /\ nowAge' = [w \in Writers |->
                  IF pc[w] \in {"statfs", "storeUsed", "storeAt"} THEN Later(nowAge[w]) ELSE 0]
  /\ UNCHANGED <<used, usedCached, pc, op, size, got>>

Handler(w) ==
  \/ ReadClock(w) \/ LoadUsed(w)
  \/ StatfsOK(w) \/ StatfsFails(w) \/ StoreUsed(w) \/ StoreAt(w)
  \/ Refuse(w) \/ Admit(w)
  \/ CheckPasses(w) \/ CheckRejects(w)
  \/ Land(w)

Request(w) == \E o \in {"write", "allocate"}, n \in Sizes : Enter(w, o, n)

Next ==
  \/ \E w \in Writers : Request(w) \/ Handler(w)
  \/ Free
  \/ Tick

Spec == Init /\ [][Next]_vars

(* A callback that has started runs on, and time passes.  Nothing is said  *)
(* about new requests: they come from applications.                        *)
FairSpec == Spec /\ (\A w \in Writers : WF_vars(Handler(w))) /\ WF_vars(Tick)

(* The same system once the estimate has been aligned.                     *)
AlignedSpec == AlignedInit /\ [][Next]_vars

-----------------------------------------------------------------------------
TypeOK ==
  /\ used \in Nat /\ usedCached \in Nat
  /\ age \in 0..TTL
  /\ pc \in [Writers -> Steps]
  /\ op \in [Writers -> {"write", "allocate"}]
  /\ size \in [Writers -> Nat]
  /\ got \in [Writers -> Nat]
  /\ nowAge \in [Writers -> 0..TTL]

(* The backing directory never holds more than the simulated capacity: the *)
(* simulated disk is full before the real one.                             *)
NoOvershoot == Capacity > 0 => used <= Capacity

(* With an estimate that was aligned once and not since (a burst within    *)
(* one TTL, or any length of time with a failing statfs), callbacks that   *)
(* compare before the others add can overshoot by their own requests only: *)
(* one request for each writer but the last.                               *)
OvershootBounded ==
  Capacity > 0 =>
    \A n \in Sizes : (\A x \in Sizes : x <= n)
      => used <= Capacity + (Cardinality(Writers) - 1) * n

(* A request that fits in the backing directory, by now and from now on,   *)
(* is let through sooner or later if it is retried: what earlier requests  *)
(* left in the estimate without landing is forgotten when the TTL expires. *)
RetriesGetThrough ==
  \A w \in Writers :
    /\ []<>(pc[w] = "clock")
    /\ <>[](used + size[w] <= Capacity)
    => []<>(pc[w] \in {"check", "land"})
=============================================================================
