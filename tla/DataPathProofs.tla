---------------------------- MODULE DataPathProofs ----------------------------
(***************************************************************************)
(* Proofs about DataPath, for any number of callbacks, any rules and any   *)
(* control requests in between: a repaired byte that still holds its old   *)
(* data belongs to a write on its way to the backing file, and the         *)
(* sequential delay to writes that go on where the last one ended.         *)
(***************************************************************************)
EXTENDS DataPath, InjectorProofs

Stages == {"idle", "delay", "gate", "check", "backing", "store", "pread"}

(* Which requests can be at which stage.                                   *)
OnRoute(step, q) ==
  /\ IF step = "idle" THEN q = Idle ELSE q \in Calls
  /\ step = "delay" => q \in Requests /\ q.op # "readdir"
  /\ step = "gate" => q.op \in {"write", "allocate"}
  /\ step = "check" => q \in Requests
  /\ step = "backing" => q.op # "read"
  /\ step = "store" => q.op \in Directions
  /\ step = "pread" => q.op = "read"

CallbacksOK ==
  /\ pc \in [Callbacks -> Stages]
  /\ call \in [Callbacks -> Calls \cup {Idle}]
  /\ \A c \in Callbacks : OnRoute(pc[c], call[c])

(* The callbacks whose write is at the backing file of p, and their bytes. *)
Landing(p) == {c \in Callbacks : pc[c] = "backing" /\ call[c].op = "write" /\ call[c].path = p}
InFlight(p) == UNION {RequestBytes(call[c]) : c \in Landing(p)}

HollowOK == hollow \in [Paths -> SUBSET FileBytes] /\ \A p \in Paths : hollow[p] \subseteq InFlight(p)

DataInv == TypeOK /\ CallbacksOK /\ HollowOK

-----------------------------------------------------------------------------
(* The order of the calls in a handler.                                    *)
LEMMA RouteOfWrite ==
  ASSUME NEW q, q.op = "write"
  PROVE  /\ Route(q)[1] = "delay"
         /\ Successor(q, "delay") = "gate"
         /\ Successor(q, "gate") = "check"
         /\ Successor(q, "check") = "backing"
         /\ Successor(q, "backing") = "store"
<1> DEFINE R == <<"delay", "gate", "check", "backing", "store">>
<1>1. Route(q) = R /\ DOMAIN R = 1..5 /\ Len(R) = 5
  BY DEF Route, ReadRoute, WriteRoute, AllocateRoute, NodeRoute, ReaddirRoute
<1>2. \A j \in 1..5 : /\ R[j] = "delay" <=> j = 1
                      /\ R[j] = "gate" <=> j = 2
                      /\ R[j] = "check" <=> j = 3
                      /\ R[j] = "backing" <=> j = 4
  OBVIOUS
<1>3. QED
  BY <1>1, <1>2 DEF Successor

LEMMA RouteOfRead ==
  ASSUME NEW q, q.op = "read"
  PROVE  /\ Route(q)[1] = "delay"
         /\ Successor(q, "delay") = "check"
         /\ Successor(q, "check") = "store"
         /\ Successor(q, "store") = "pread"
<1> DEFINE R == <<"delay", "check", "store", "pread">>
<1>1. Route(q) = R /\ DOMAIN R = 1..4 /\ Len(R) = 4
  BY DEF Route, ReadRoute, WriteRoute, AllocateRoute, NodeRoute, ReaddirRoute
<1>2. \A j \in 1..4 : /\ R[j] = "delay" <=> j = 1
                      /\ R[j] = "check" <=> j = 2
                      /\ R[j] = "store" <=> j = 3
  OBVIOUS
<1>3. QED
  BY <1>1, <1>2 DEF Successor

LEMMA RouteOfAllocate ==
  ASSUME NEW q, q.op = "allocate"
  PROVE  Route(q)[1] = "gate" /\ Successor(q, "gate") = "backing"
<1> DEFINE R == <<"gate", "backing">>
<1>1. Route(q) = R /\ DOMAIN R = 1..2 /\ Len(R) = 2
  BY DEF Route, ReadRoute, WriteRoute, AllocateRoute, NodeRoute, ReaddirRoute
<1>2. \A j \in 1..2 : R[j] = "gate" <=> j = 1
  OBVIOUS
<1>3. QED
  BY <1>1, <1>2 DEF Successor

LEMMA RouteOfReaddir ==
  ASSUME NEW q, q.op = "readdir"
  PROVE  Route(q)[1] = "check" /\ Successor(q, "check") = "backing"
<1> DEFINE R == <<"check", "backing">>
<1>1. Route(q) = R /\ DOMAIN R = 1..2 /\ Len(R) = 2
  BY DEF Route, ReadRoute, WriteRoute, AllocateRoute, NodeRoute, ReaddirRoute
<1>2. \A j \in 1..2 : R[j] = "check" <=> j = 1
  OBVIOUS
<1>3. QED
  BY <1>1, <1>2 DEF Successor

LEMMA RouteOfOther ==
  ASSUME NEW q, q.op \notin {"write", "read", "allocate", "readdir"}
  PROVE  /\ Route(q)[1] = "delay"
         /\ Successor(q, "delay") = "check"
         /\ Successor(q, "check") = "backing"
<1> DEFINE R == <<"delay", "check", "backing">>
<1>1. Route(q) = R /\ DOMAIN R = 1..3 /\ Len(R) = 3
  BY DEF Route, ReadRoute, WriteRoute, AllocateRoute, NodeRoute, ReaddirRoute
<1>2. \A j \in 1..3 : (R[j] = "delay" <=> j = 1) /\ (R[j] = "check" <=> j = 2)
  OBVIOUS
<1>3. QED
  BY <1>1, <1>2 DEF Successor

(* Requests go to Check, fallocate does not.                               *)
LEMMA CallKinds ==
  ASSUME NEW q \in Calls
  PROVE  /\ q \in Requests <=> q.op # "allocate"
         /\ q.path \in Paths
         /\ q.op \in Directions => q.off \in Int /\ q.len \in Int
<1>1. "allocate" \notin {"read", "write"} \cup OtherOps
  BY DataPathAssumption DEF AllOps
<1>2. Offsets \subseteq Int /\ Lengths \subseteq Int
  BY InjectorAssumption
<1>3. {"read", "write"} \cap OtherOps = {}
  BY InjectorAssumption
<1>4. QED
  BY <1>1, <1>2, <1>3 DEF Calls, Requests, Directions

(* A callback moves from a stage of its route to the next one.             *)
LEMMA StageStep ==
  ASSUME CallbacksOK, NEW c \in Callbacks, Proceed(c),
         pc[c] \in {"delay", "gate", "check", "backing", "store"},
         pc[c] = "backing" => call[c].op = "write",
         pc[c] = "store" => call[c].op = "read"
  PROVE  /\ CallbacksOK'
         /\ pc[c] = "check" => pc'[c] = IF call[c].op = "read" THEN "store" ELSE "backing"
         /\ pc[c] \in {"delay", "gate"} => pc'[c] \in {"gate", "check"} \/ call[c].op = "allocate"
         /\ pc[c] = "backing" => pc'[c] = "store"
         /\ pc[c] = "store" => pc'[c] = "pread"
<1> DEFINE q == call[c]
<1>1. q \in Calls /\ OnRoute(pc[c], q)
  BY DEF CallbacksOK, OnRoute
<1>2. q \in Requests <=> q.op # "allocate"
  BY <1>1, CallKinds
<1>3. /\ Successor(q, pc[c]) \in Stages
      /\ OnRoute(Successor(q, pc[c]), q)
      /\ pc[c] = "check" => Successor(q, pc[c]) = IF q.op = "read" THEN "store" ELSE "backing"
      /\ pc[c] \in {"delay", "gate"} => Successor(q, pc[c]) \in {"gate", "check"} \/ q.op = "allocate"
      /\ pc[c] = "backing" => Successor(q, pc[c]) = "store"
      /\ pc[c] = "store" => Successor(q, pc[c]) = "pread"
  <2> USE <1>1, <1>2 DEF OnRoute, Stages, Directions
  <2>1. CASE q.op = "write"
    BY <2>1, RouteOfWrite
  <2>2. CASE q.op = "read"
    BY <2>2, RouteOfRead
  <2>3. CASE q.op = "allocate"
    BY <2>3, RouteOfAllocate
  <2>4. CASE q.op = "readdir"
    BY <2>4, RouteOfReaddir
  <2>5. CASE q.op \notin {"write", "read", "allocate", "readdir"}
    BY <2>5, RouteOfOther
  <2>6. QED
    BY <2>1, <2>2, <2>3, <2>4, <2>5
<1>4. pc' = [pc EXCEPT ![c] = Successor(q, pc[c])] /\ call' = call
  BY DEF Proceed
<1>5. QED
  BY <1>1, <1>3, <1>4 DEF CallbacksOK

(* A callback that returns is idle, and the others are where they were.    *)
LEMMA ReturnStep ==
  ASSUME CallbacksOK, NEW c \in Callbacks, Return(c)
  PROVE  CallbacksOK' /\ pc'[c] = "idle"
BY DEF CallbacksOK, Return, OnRoute, Stages

(* Bytes stay hollow only while their write is in flight; a step that      *)
(* keeps every write in flight and makes no byte hollow is harmless.       *)
LEMMA StillInFlight ==
  ASSUME HollowOK, NEW c \in Callbacks,
         pc \in [Callbacks -> Stages], call \in [Callbacks -> Calls \cup {Idle}],
         pc[c] = "backing" => call[c].op # "write",
         \A d \in Callbacks \ {c} : pc'[d] = pc[d] /\ call'[d] = call[d],
         hollow' = hollow
  PROVE  HollowOK'
<1>1. \A p \in Paths : Landing(p) \subseteq Landing(p)'
  BY DEF Landing
<1>2. \A p \in Paths : \A d \in Landing(p) : call'[d] = call[d]
  BY DEF Landing
<1>3. \A p \in Paths : InFlight(p) \subseteq InFlight(p)'
  BY <1>1, <1>2 DEF InFlight, RequestBytes
<1>4. QED
  BY <1>3 DEF HollowOK

-----------------------------------------------------------------------------
(* A request Check rejects repairs no sector.                              *)
LEMMA RejectionRepairsNothing ==
  ASSUME TypeOK, NEW q \in Requests, Check(q), reply'.errno # 0, NEW p \in Paths
  PROVE  Bad(rules', p) = Bad(rules, p)
<1>1. CASE rules' = rules
  BY <1>1 DEF Bad, Sectors
<1>2. CASE \E i \in DOMAIN rules : CheckPlain(q, i) /\ rules' # rules
  <2>1. PICK i \in DOMAIN rules : CheckPlain(q, i) /\ rules' # rules
    BY <1>2
  <2>2. rules[i] \in RuleState /\ rules \in Seq(RuleState)
    BY RuleFields DEF TypeOK
  <2>3. ~rules[i].r.heal /\ rules' = [rules EXCEPT ![i].remaining = @ - 1]
    BY <2>1 DEF CheckPlain
  <2>4. DOMAIN rules' = DOMAIN rules /\ \A j \in DOMAIN rules : j # i => rules'[j] = rules[j]
    BY <2>2, <2>3
  <2>5. rules'[i].r = rules[i].r
    BY <2>2, <2>3 DEF RuleState
  <2>6. Sectors(rules', p) = Sectors(rules, p)
    BY <2>3, <2>4, <2>5 DEF Sectors
  <2>7. QED
    BY <2>6 DEF Bad
<1>3. rules' = rules \/ \E i \in DOMAIN rules : CheckPlain(q, i)
  <2>1. CASE CheckPass(q)
    BY <2>1 DEF CheckPass
  <2>2. ASSUME NEW i \in DOMAIN rules, CheckBadRead(q, i) \/ CheckRewrite(q, i) \/ CheckNoSpare(q, i)
        PROVE  rules' = rules
    BY <2>2 DEF CheckBadRead, CheckRewrite, CheckNoSpare
  <2>3. ASSUME NEW i \in DOMAIN rules, CheckHeal(q, i) PROVE FALSE
    BY <2>3 DEF CheckHeal, Answer
  <2>4. QED
    BY <2>1, <2>2, <2>3 DEF Check
<1>4. QED
  BY <1>1, <1>2, <1>3

(* Check keeps the types of the injector, and so does every other step.    *)
LEMMA InjectorTypes == ASSUME TypeOK, [DataNext]_allVars, CallbacksOK PROVE TypeOK'
<1>1. ASSUME NEW c \in Callbacks, Decide(c) PROVE TypeOK'
  <2>1. call[c] \in Requests /\ Check(call[c])
    BY <1>1 DEF Decide, CallbacksOK, OnRoute
  <2>2. [Next]_vars
    BY <2>1 DEF Next
  <2>3. QED
    BY <2>2, TypeStep
<1>2. CASE Control
  <2>1. Next
    BY <1>2 DEF Control, Next
  <2>2. QED
    BY <2>1, TypeStep
<1>3. CASE NoInjector
  BY <1>3 DEF NoInjector, TypeOK, injectorVars, spareVars, latencyVars, Reply, Void
<1>4. CASE UNCHANGED allVars
  <2>1. UNCHANGED vars
    BY <1>4 DEF allVars
  <2>2. QED
    BY <2>1, TypeStep
<1>5. QED
  BY <1>1, <1>2, <1>3, <1>4
     DEF DataNext, Begin, Delay, GateRefuses, GateAdmits, Transfer, TransferFails, Forward,
         StoreWrite, StoreRead, Pread

(* The step of a callback at Check.                                        *)
LEMMA DecideStep ==
  ASSUME DataInv, NEW c \in Callbacks, Decide(c)
  PROVE  CallbacksOK' /\ HollowOK'
<1> DEFINE q == call[c]
           H == [p \in Paths |-> hollow[p] \cup Repaired(q, rules, rules')[p]]
<1>1. q \in Requests /\ Check(q) /\ pc[c] = "check" /\ hollow' = Settled(H, rules')
  BY DEF DataInv, CallbacksOK, OnRoute, Decide
<1>2. hollow \in [Paths -> SUBSET FileBytes] /\ \A p \in Paths : hollow[p] \subseteq InFlight(p)
  BY DEF DataInv, HollowOK
<1>3. \A p \in Paths : hollow'[p] \subseteq H[p]
  BY <1>1 DEF Settled
<1>4. /\ pc \in [Callbacks -> Stages] /\ call \in [Callbacks -> Calls \cup {Idle}] /\ CallbacksOK
  BY DEF DataInv, CallbacksOK
<1>5. \A p \in Paths : Repaired(q, rules, rules')[p] \subseteq FileBytes
  BY DEF Repaired, RequestBytes
<1>6. hollow' \in [Paths -> SUBSET FileBytes]
  BY <1>1, <1>2, <1>3, <1>5 DEF Settled
<1>7. CASE reply'.errno # 0
  <2>1. Return(c)
    BY <1>7 DEF Decide
  <2>2. CallbacksOK'
    BY <1>4, <2>1, ReturnStep
  <2>3. \A p \in Paths : Repaired(q, rules, rules')[p] = {}
    <3>1. \A p \in Paths : Bad(rules', p) = Bad(rules, p)
      BY <1>1, <1>7, RejectionRepairsNothing DEF DataInv
    <3>2. QED
      BY <3>1 DEF Repaired
  <2>4. \A p \in Paths : hollow'[p] \subseteq hollow[p]
    BY <1>3, <2>3
  <2>5. \A p \in Paths : InFlight(p) \subseteq InFlight(p)'
    <3>1. \A d \in Callbacks \ {c} : pc'[d] = pc[d] /\ call'[d] = call[d]
      BY <1>4, <2>1 DEF Return
    <3>2. \A p \in Paths : Landing(p) \subseteq Landing(p)'
      BY <3>1, <1>1 DEF Landing
    <3>3. \A p \in Paths : \A d \in Landing(p) : call'[d] = call[d]
      BY <3>1, <1>1 DEF Landing
    <3>4. QED
      BY <3>2, <3>3 DEF InFlight, RequestBytes
  <2>6. QED
    BY <1>2, <1>6, <2>2, <2>4, <2>5 DEF HollowOK
<1>8. CASE ~(reply'.errno # 0)
  <2>1. Proceed(c)
    BY <1>8 DEF Decide
  <2>2. /\ CallbacksOK' /\ call' = call
        /\ pc'[c] = IF q.op = "read" THEN "store" ELSE "backing"
    BY <1>1, <1>4, <2>1, StageStep DEF Proceed
  <2>3. \A d \in Callbacks \ {c} : pc'[d] = pc[d]
    BY <1>4, <2>1 DEF Proceed
  <2>4. \A p \in Paths : Landing(p) \subseteq Landing(p)'
    BY <2>2, <2>3, <1>1 DEF Landing
  <2>5. \A p \in Paths : InFlight(p) \subseteq InFlight(p)'
    BY <2>2, <2>4 DEF InFlight, RequestBytes
  <2>6. \A p \in Paths : Repaired(q, rules, rules')[p] \subseteq InFlight(p)'
    <3>1. ASSUME NEW p \in Paths, NEW x \in Repaired(q, rules, rules')[p]
          PROVE  q.op = "write" /\ q.path = p /\ x \in RequestBytes(q)
      BY <3>1 DEF Repaired
    <3>2. ASSUME NEW p \in Paths, q.op = "write", q.path = p PROVE c \in Landing(p)'
      BY <3>2, <2>2 DEF Landing
    <3>3. \A p \in Paths : c \in Landing(p)' => RequestBytes(q) \subseteq InFlight(p)'
      BY <2>2 DEF InFlight, RequestBytes
    <3>4. QED
      BY <3>1, <3>2, <3>3
  <2>7. \A p \in Paths : hollow'[p] \subseteq InFlight(p)'
    BY <1>2, <1>3, <2>5, <2>6
  <2>8. QED
    BY <1>6, <2>2, <2>7 DEF HollowOK
<1>9. QED
  BY <1>7, <1>8

(* A write that has been to the backing file leaves no byte hollow.        *)
LEMMA TransferStep ==
  ASSUME DataInv, NEW c \in Callbacks, TransferFails(c) \/ \E n : Transfer(c, n)
  PROVE  CallbacksOK' /\ HollowOK'
<1> DEFINE q == call[c]
<1>1. /\ pc[c] = "backing" /\ q.op = "write" /\ Proceed(c)
      /\ hollow' = [hollow EXCEPT ![q.path] = @ \ RequestBytes(q)]
  BY DEF Transfer, TransferFails, Told
<1>2. /\ hollow \in [Paths -> SUBSET FileBytes] /\ \A p \in Paths : hollow[p] \subseteq InFlight(p)
      /\ pc \in [Callbacks -> Stages] /\ CallbacksOK
      /\ q \in Calls
  BY <1>1 DEF DataInv, HollowOK, CallbacksOK, OnRoute
<1>3. q.path \in Paths /\ q.off \in Int /\ q.len \in Int
  BY <1>1, <1>2, CallKinds DEF Directions
<1>4. CallbacksOK' /\ pc'[c] = "store" /\ call' = call
  BY <1>1, <1>2, StageStep DEF Proceed
<1>5. \A d \in Callbacks \ {c} : pc'[d] = pc[d]
  BY <1>1, <1>2 DEF Proceed
<1>6. ASSUME NEW p \in Paths PROVE hollow'[p] \subseteq InFlight(p)'
  <2>1. Landing(p) \ {c} \subseteq Landing(p)'
    BY <1>4, <1>5 DEF Landing
  <2>2. \A d \in Landing(p) \ {c} : RequestBytes(call[d]) \subseteq InFlight(p)'
    BY <1>4, <2>1 DEF InFlight, RequestBytes
  <2>3. c \in Landing(p) => q.op = "write" /\ p = q.path
    BY DEF Landing
  <2>4. ASSUME NEW x \in hollow'[p] PROVE x \in InFlight(p)'
    <3>1. x \in hollow[p] /\ (p = q.path => x \notin RequestBytes(q))
      BY <2>4, <1>1, <1>2, <1>3
    <3>2. PICK d \in Landing(p) : x \in RequestBytes(call[d])
      BY <3>1, <1>2 DEF InFlight
    <3>3. d # c
      BY <3>1, <3>2, <2>3
    <3>4. QED
      BY <3>2, <3>3, <2>2
  <2>5. QED
    BY <2>4
<1>7. hollow' \in [Paths -> SUBSET FileBytes]
  BY <1>1, <1>2, <1>3
<1>8. QED
  BY <1>4, <1>6, <1>7 DEF HollowOK

LEMMA DataStep ==
  ASSUME DataInv, [DataNext]_allVars PROVE DataInv'
<1>1. TypeOK'
  BY InjectorTypes DEF DataInv
<1>2. CallbacksOK' /\ HollowOK'
  <2>0. /\ CallbacksOK /\ HollowOK
        /\ pc \in [Callbacks -> Stages] /\ call \in [Callbacks -> Calls \cup {Idle}]
    BY DEF DataInv, CallbacksOK
  <2>1. ASSUME NEW c \in Callbacks, NEW q \in Calls, Begin(c, q) PROVE CallbacksOK' /\ HollowOK'
    <3>1. /\ pc[c] = "idle" /\ hollow' = hollow
          /\ pc' = [pc EXCEPT ![c] = Route(q)[1]] /\ call' = [call EXCEPT ![c] = q]
      BY <2>1 DEF Begin
    <3>2. q \in Requests <=> q.op # "allocate"
      BY CallKinds
    <3>3. Route(q)[1] \in Stages /\ OnRoute(Route(q)[1], q)
      BY <3>2, RouteOfWrite, RouteOfRead, RouteOfAllocate, RouteOfReaddir, RouteOfOther
         DEF OnRoute, Stages
    <3>4. CallbacksOK'
      BY <2>0, <3>1, <3>3 DEF CallbacksOK
    <3>5. \A d \in Callbacks \ {c} : pc'[d] = pc[d] /\ call'[d] = call[d]
      BY <2>0, <3>1
    <3>6. QED
      BY <2>0, <3>1, <3>4, <3>5, StillInFlight
  <2>2. ASSUME NEW c \in Callbacks, Delay(c) \/ GateAdmits(c) PROVE CallbacksOK' /\ HollowOK'
    <3>1. pc[c] \in {"delay", "gate"} /\ Proceed(c) /\ hollow' = hollow
      BY <2>2 DEF Delay, GateAdmits
    <3>2. CallbacksOK'
      BY <2>0, <3>1, StageStep
    <3>3. \A d \in Callbacks \ {c} : pc'[d] = pc[d] /\ call'[d] = call[d]
      BY <2>0, <3>1 DEF Proceed
    <3>4. QED
      BY <2>0, <3>1, <3>2, <3>3, StillInFlight
  <2>3. ASSUME NEW c \in Callbacks,
               GateRefuses(c) \/ Forward(c) \/ StoreWrite(c) \/ Pread(c)
        PROVE  CallbacksOK' /\ HollowOK'
    <3>1. Return(c) /\ hollow' = hollow /\ (pc[c] = "backing" => call[c].op # "write")
      BY <2>3 DEF GateRefuses, Forward, StoreWrite, Pread
    <3>2. CallbacksOK'
      BY <2>0, <3>1, ReturnStep
    <3>3. \A d \in Callbacks \ {c} : pc'[d] = pc[d] /\ call'[d] = call[d]
      BY <2>0, <3>1 DEF Return
    <3>4. QED
      BY <2>0, <3>1, <3>2, <3>3, StillInFlight
  <2>4. ASSUME NEW c \in Callbacks, Decide(c) PROVE CallbacksOK' /\ HollowOK'
    BY <2>4, DecideStep
  <2>5. ASSUME NEW c \in Callbacks, TransferFails(c) \/ \E n : Transfer(c, n)
        PROVE  CallbacksOK' /\ HollowOK'
    BY <2>5, TransferStep
  <2>6. CASE Control
    <3>1. UNCHANGED <<pc, call>> /\ hollow' = Settled(hollow, rules')
      BY <2>6 DEF Control, callVars
    <3>2. CallbacksOK'
      BY <2>0, <3>1 DEF CallbacksOK
    <3>3. \A p \in Paths : InFlight(p)' = InFlight(p)
      BY <3>1 DEF InFlight, Landing, RequestBytes
    <3>4. QED
      BY <2>0, <3>1, <3>2, <3>3 DEF HollowOK, Settled
  <2>7. CASE UNCHANGED allVars
    <3>1. UNCHANGED <<pc, call, hollow>>
      BY <2>7 DEF allVars, dataVars, callVars
    <3>2. CallbacksOK'
      BY <2>0, <3>1 DEF CallbacksOK
    <3>3. \A p \in Paths : InFlight(p)' = InFlight(p)
      BY <3>1 DEF InFlight, Landing, RequestBytes
    <3>4. QED
      BY <2>0, <3>1, <3>2, <3>3 DEF HollowOK
  <2>8. ASSUME NEW c \in Callbacks, StoreRead(c) PROVE CallbacksOK' /\ HollowOK'
    <3>1. pc[c] = "store" /\ call[c].op = "read" /\ Proceed(c) /\ hollow' = hollow
      BY <2>8 DEF StoreRead
    <3>2. CallbacksOK'
      BY <2>0, <3>1, StageStep
    <3>3. \A d \in Callbacks \ {c} : pc'[d] = pc[d] /\ call'[d] = call[d]
      BY <2>0, <3>1 DEF Proceed
    <3>4. QED
      BY <2>0, <3>1, <3>2, <3>3, StillInFlight
  <2>9. QED
    BY <2>1, <2>2, <2>3, <2>4, <2>5, <2>6, <2>7, <2>8 DEF DataNext
<1>3. QED
  BY <1>1, <1>2 DEF DataInv

LEMMA DataInitOK == DataInit => DataInv
<1> SUFFICES ASSUME DataInit PROVE DataInv
  OBVIOUS
<1>1. TypeOK
  BY TypeInit DEF DataInit
<1>2. CallbacksOK
  BY DEF DataInit, CallbacksOK, OnRoute, Stages
<1>3. HollowOK
  BY DEF DataInit, HollowOK
<1> QED
  BY <1>1, <1>2, <1>3 DEF DataInv

(* The write that repairs a sector byte is on its way to the backing file  *)
(* for as long as the byte keeps its old data: neither a refusal by the    *)
(* capacity gate nor a rejection by a rule leaves one behind.              *)
THEOREM HollowBytesAreInFlight == DataSpec => []HollowOnlyInFlight
<1>1. DataInit => DataInv
  BY DataInitOK
<1>2. DataInv /\ [DataNext]_allVars => DataInv'
  BY DataStep
<1>3. DataInv => HollowOnlyInFlight
  BY DEF DataInv, HollowOK, HollowOnlyInFlight, InFlight, Landing
<1>4. QED
  BY <1>1, <1>2, <1>3, PTL DEF DataSpec

-----------------------------------------------------------------------------
(* Every request is at a stage of its own route, whatever the backing does. *)
LEMMA CallbacksStep ==
  ASSUME CallbacksOK, [DataNext]_allVars PROVE CallbacksOK'
<1>1. ASSUME NEW c \in Callbacks, NEW q \in Calls, Begin(c, q) PROVE CallbacksOK'
  <2>1. q \in Requests <=> q.op # "allocate"
    BY CallKinds
  <2>2. Route(q)[1] \in Stages /\ OnRoute(Route(q)[1], q)
    BY <2>1, RouteOfWrite, RouteOfRead, RouteOfAllocate, RouteOfReaddir, RouteOfOther
       DEF OnRoute, Stages
  <2>3. pc' = [pc EXCEPT ![c] = Route(q)[1]] /\ call' = [call EXCEPT ![c] = q]
    BY <1>1 DEF Begin
  <2> QED
    BY <2>2, <2>3 DEF CallbacksOK
<1>2. ASSUME NEW c \in Callbacks, Delay(c) \/ GateAdmits(c) PROVE CallbacksOK'
  <2>1. pc[c] \in {"delay", "gate"} /\ Proceed(c)
    BY <1>2 DEF Delay, GateAdmits
  <2> QED
    BY <2>1, StageStep
<1>3. ASSUME NEW c \in Callbacks,
             GateRefuses(c) \/ Forward(c) \/ StoreWrite(c) \/ Pread(c)
      PROVE  CallbacksOK'
  <2>1. Return(c)
    BY <1>3 DEF GateRefuses, Forward, StoreWrite, Pread
  <2> QED
    BY <2>1, ReturnStep
<1>4. ASSUME NEW c \in Callbacks, Decide(c) PROVE CallbacksOK'
  <2>1. pc[c] = "check" /\ (Return(c) \/ Proceed(c))
    BY <1>4 DEF Decide
  <2> QED
    BY <2>1, ReturnStep, StageStep
<1>5. ASSUME NEW c \in Callbacks, TransferFails(c) \/ StoreRead(c) \/ \E n : Transfer(c, n)
      PROVE  CallbacksOK'
  <2>1. /\ Proceed(c)
        /\ \/ pc[c] = "backing" /\ call[c].op = "write"
           \/ pc[c] = "store" /\ call[c].op = "read"
    BY <1>5 DEF Transfer, TransferFails, StoreRead
  <2> QED
    BY <2>1, StageStep
<1>6. CASE UNCHANGED <<pc, call>>
  BY <1>6 DEF CallbacksOK
<1> QED
  BY <1>1, <1>2, <1>3, <1>4, <1>5, <1>6 DEF DataNext, Control, allVars, dataVars, callVars

(* What a callback keeps for itself, the handles and the history.          *)
LocalTypes ==
  /\ sequential \in [Callbacks -> BOOLEAN]
  /\ moved \in [Callbacks -> Nat]
  /\ lastOff \in [Directions \X Paths -> Nat] /\ head \in [Paths -> Nat]
  /\ hollow \in [Paths -> SUBSET FileBytes]
  /\ overlapped \subseteq Paths

(* A read or write at an offset of its handle.                             *)
LEMMA HandleOf ==
  ASSUME CallbacksOK, NEW c \in Callbacks, pc[c] # "idle", call[c].op \in Directions
  PROVE  /\ call[c] \in Requests
         /\ <<call[c].op, call[c].path>> \in Directions \X Paths
         /\ call[c].off \in Nat /\ call[c].len \in Nat
<1>1. call[c] \in Calls
  BY DEF CallbacksOK, OnRoute
<1>2. call[c].op # "allocate"
  BY DEF Directions
<1>3. call[c] \in Requests /\ call[c].path \in Paths
  BY <1>1, <1>2, CallKinds
<1>4. Offsets \subseteq Nat /\ Lengths \subseteq Nat
  BY InjectorAssumption, MaxIntAssumption
<1>5. call[c].op \notin OtherOps
  BY InjectorAssumption DEF Directions
<1> QED
  BY <1>3, <1>4, <1>5 DEF Requests

LEMMA ReturnTypes ==
  ASSUME LocalTypes, NEW c \in Callbacks, Return(c)
  PROVE  sequential' \in [Callbacks -> BOOLEAN] /\ moved' \in [Callbacks -> Nat]
<1>1. sequential' = [sequential EXCEPT ![c] = FALSE] /\ moved' = [moved EXCEPT ![c] = 0]
  BY DEF Return
<1>2. sequential' \in [Callbacks -> BOOLEAN]
  BY <1>1 DEF LocalTypes
<1>3. moved' \in [Callbacks -> Nat]
  BY <1>1 DEF LocalTypes
<1> QED
  BY <1>2, <1>3

LEMMA LocalTypesStep ==
  ASSUME CallbacksOK, LocalTypes, [DataNext]_allVars PROVE LocalTypes'
<1>1. ASSUME NEW c \in Callbacks, NEW q \in Calls, Begin(c, q) PROVE LocalTypes'
  <2>1. q.path \in Paths
    BY CallKinds
  <2>2. overlapped' \subseteq Paths /\ head' \in [Paths -> Nat]
    <3>1. CASE UNCHANGED <<overlapped, head>>
      BY <3>1 DEF LocalTypes
    <3>2. CASE overlapped' = overlapped \cup {q.path} /\ head' = [head EXCEPT ![q.path] = 0]
      BY <2>1, <3>2 DEF LocalTypes
    <3> QED
      BY <1>1, <3>1, <3>2 DEF Begin
  <2>3. sequential' \in [Callbacks -> BOOLEAN]
    BY <1>1 DEF Begin, LocalTypes
  <2> QED
    BY <1>1, <2>2, <2>3 DEF Begin, LocalTypes
<1>2. ASSUME NEW c \in Callbacks, Delay(c) \/ GateAdmits(c) PROVE LocalTypes'
  BY <1>2 DEF Delay, GateAdmits, Proceed, LocalTypes
<1>3. ASSUME NEW c \in Callbacks, GateRefuses(c) \/ Forward(c) \/ Pread(c) PROVE LocalTypes'
  <2>1. Return(c) /\ UNCHANGED <<lastOff, head, hollow, overlapped>>
    BY <1>3 DEF GateRefuses, Forward, Pread
  <2> QED
    BY <2>1, ReturnTypes DEF LocalTypes
<1>4. ASSUME NEW c \in Callbacks, StoreWrite(c) PROVE LocalTypes'
  <2>1. /\ pc[c] = "store" /\ Return(c) /\ UNCHANGED <<head, hollow, overlapped>>
        /\ lastOff' = [lastOff EXCEPT ![<<call[c].op, call[c].path>>] = call[c].off + moved[c]]
    BY <1>4 DEF StoreWrite
  <2>2. call[c].off + moved[c] \in Nat
    BY <2>1, HandleOf DEF CallbacksOK, OnRoute, LocalTypes
  <2>3. sequential' \in [Callbacks -> BOOLEAN] /\ moved' \in [Callbacks -> Nat]
    BY <2>1, ReturnTypes
  <2> DEFINE h0 == <<call[c].op, call[c].path>>
             v == call[c].off + moved[c]
  <2>4. v \in Nat /\ lastOff' = [lastOff EXCEPT ![h0] = v]
    BY <2>1, <2>2
  <2> HIDE DEF h0, v
  <2>5. lastOff' \in [Directions \X Paths -> Nat]
    BY <2>4 DEF LocalTypes
  <2> QED
    BY <2>1, <2>3, <2>5 DEF LocalTypes
<1>5. ASSUME NEW c \in Callbacks, Decide(c) PROVE LocalTypes'
  <2>1. UNCHANGED <<lastOff, head, overlapped>> /\ (Return(c) \/ (Proceed(c) /\ UNCHANGED moved))
    <3>1. CASE reply'.errno # 0
      BY <1>5, <3>1 DEF Decide
    <3>2. CASE ~(reply'.errno # 0)
      BY <1>5, <3>2 DEF Decide
    <3> QED
      BY <3>1, <3>2
  <2>2. sequential' \in [Callbacks -> BOOLEAN] /\ moved' \in [Callbacks -> Nat]
    BY <2>1, ReturnTypes DEF Proceed, LocalTypes
  <2>3. hollow' \in [Paths -> SUBSET FileBytes]
    <3> DEFINE H == [p \in Paths |-> hollow[p] \cup Repaired(call[c], rules, rules')[p]]
    <3>1. hollow' = Settled(H, rules')
      BY <1>5 DEF Decide
    <3>2. \A p \in Paths : H[p] \subseteq FileBytes
      BY DEF Repaired, RequestBytes, LocalTypes
    <3> HIDE DEF H
    <3> QED
      BY <3>1, <3>2 DEF Settled
  <2> QED
    BY <2>1, <2>2, <2>3 DEF LocalTypes
<1>6. ASSUME NEW c \in Callbacks, NEW n \in Written(call[c]), Transfer(c, n) PROVE LocalTypes'
  <2> DEFINE q == call[c]
             v == q.off + n
  <2>1. /\ pc[c] = "backing" /\ q.op = "write" /\ Proceed(c)
        /\ moved' = [moved EXCEPT ![c] = n]
        /\ head' = [head EXCEPT ![q.path] = IF q.path \in overlapped THEN @ ELSE v]
        /\ hollow' = [hollow EXCEPT ![q.path] = @ \ RequestBytes(q)]
        /\ UNCHANGED <<lastOff, overlapped>>
    BY <1>6 DEF Transfer, Told
  <2>2. q.off \in Nat /\ q.len \in Nat
    BY <2>1, HandleOf DEF Directions
  <2>3. n \in Nat
    BY <2>2 DEF Written
  <2>4. v \in Nat
    BY <2>2, <2>3
  <2> HIDE DEF q, v
  <2>5. sequential' \in [Callbacks -> BOOLEAN] /\ moved' \in [Callbacks -> Nat]
    BY <2>1, <2>3 DEF Proceed, LocalTypes
  <2>6. head' \in [Paths -> Nat]
    BY <2>1, <2>4 DEF LocalTypes
  <2>7. hollow' \in [Paths -> SUBSET FileBytes]
    BY <2>1 DEF LocalTypes
  <2> QED
    BY <2>1, <2>5, <2>6, <2>7 DEF LocalTypes
<1>9. ASSUME NEW c \in Callbacks, TransferFails(c) PROVE LocalTypes'
  <2>1. hollow' \in [Paths -> SUBSET FileBytes]
    BY <1>9 DEF TransferFails, Told, LocalTypes
  <2> QED
    BY <1>9, <2>1, DataPathAssumption DEF TransferFails, Proceed, LocalTypes
<1>10. ASSUME NEW c \in Callbacks, StoreRead(c) PROVE LocalTypes'
  <2> DEFINE h0 == <<call[c].op, call[c].path>>
             v == call[c].off + call[c].len
  <2>1. /\ pc[c] = "store" /\ call[c].op = "read" /\ Proceed(c)
        /\ lastOff' = [lastOff EXCEPT ![h0] = v] /\ UNCHANGED <<moved, head, hollow, overlapped>>
    BY <1>10 DEF StoreRead
  <2>2. v \in Nat
    BY <2>1, HandleOf DEF Directions
  <2> HIDE DEF h0, v
  <2>3. lastOff' \in [Directions \X Paths -> Nat]
    BY <2>1, <2>2 DEF LocalTypes
  <2> QED
    BY <2>1, <2>3 DEF Proceed, LocalTypes
<1>7. CASE Control
  <2>1. UNCHANGED <<callVars, lastOff, head, overlapped>> /\ hollow' = Settled(hollow, rules')
    BY <1>7 DEF Control
  <2> QED
    BY <2>1 DEF Settled, callVars, LocalTypes
<1>8. CASE UNCHANGED allVars
  BY <1>8 DEF allVars, dataVars, callVars, LocalTypes
<1> QED
  BY <1>1, <1>2, <1>3, <1>4, <1>5, <1>6, <1>7, <1>8, <1>9, <1>10 DEF DataNext

(* A stage that suits the request is one of its route.                     *)
LEMMA StageOfRoute ==
  ASSUME CallbacksOK, NEW c \in Callbacks PROVE OnItsRoute(c)
<1> DEFINE q == call[c]
<1>1. pc[c] \in Stages /\ OnRoute(pc[c], q)
  BY DEF CallbacksOK
<1>2. CASE pc[c] = "idle"
  BY <1>1, <1>2 DEF OnItsRoute, OnRoute
<1>3. CASE pc[c] # "idle"
  <2>1. q \in Calls
    BY <1>1, <1>3 DEF OnRoute
  <2>2. q \in Requests <=> q.op # "allocate"
    BY <2>1, CallKinds
  <2> DEFINE Found(r) == \E i \in DOMAIN r : pc[c] = r[i]
  <2>3. pc[c] \in {"delay", "gate", "check", "backing", "store"} => Found(WriteRoute)
    <3>1. DOMAIN WriteRoute = 1..5
      BY DEF WriteRoute
    <3>2. /\ WriteRoute[1] = "delay" /\ WriteRoute[2] = "gate" /\ WriteRoute[3] = "check"
          /\ WriteRoute[4] = "backing" /\ WriteRoute[5] = "store"
      BY DEF WriteRoute
    <3> QED BY <3>1, <3>2
  <2>4. pc[c] \in {"delay", "check", "store", "pread"} => Found(ReadRoute)
    <3>1. DOMAIN ReadRoute = 1..4
      BY DEF ReadRoute
    <3>2. /\ ReadRoute[1] = "delay" /\ ReadRoute[2] = "check" /\ ReadRoute[3] = "store"
          /\ ReadRoute[4] = "pread"
      BY DEF ReadRoute
    <3> QED BY <3>1, <3>2
  <2>5. pc[c] \in {"gate", "backing"} => Found(AllocateRoute)
    <3>1. DOMAIN AllocateRoute = 1..2 /\ AllocateRoute[1] = "gate" /\ AllocateRoute[2] = "backing"
      BY DEF AllocateRoute
    <3> QED BY <3>1
  <2>6. pc[c] \in {"delay", "check", "backing"} => Found(NodeRoute)
    <3>1. /\ DOMAIN NodeRoute = 1..3 /\ NodeRoute[1] = "delay" /\ NodeRoute[2] = "check"
          /\ NodeRoute[3] = "backing"
      BY DEF NodeRoute
    <3> QED BY <3>1
  <2>7. pc[c] \in {"check", "backing"} => Found(ReaddirRoute)
    <3>1. DOMAIN ReaddirRoute = 1..2 /\ ReaddirRoute[1] = "check" /\ ReaddirRoute[2] = "backing"
      BY DEF ReaddirRoute
    <3> QED BY <3>1
  <2>8. Found(Route(q))
    <3> USE <1>1, <1>3, <2>2 DEF OnRoute, Stages, Directions
    <3> HIDE DEF Found
    <3>1. CASE q.op = "write"
      BY <2>3, <3>1 DEF Route
    <3>2. CASE q.op = "read"
      BY <2>4, <3>2 DEF Route
    <3>3. CASE q.op = "allocate"
      BY <2>5, <3>3 DEF Route
    <3>4. CASE q.op = "readdir"
      BY <2>7, <3>4 DEF Route
    <3>5. CASE q.op \notin {"write", "read", "allocate", "readdir"}
      BY <2>6, <3>5 DEF Route
    <3> QED
      BY <3>1, <3>2, <3>3, <3>4, <3>5
  <2> QED
    BY <1>3, <2>1, <2>8 DEF OnItsRoute
<1> QED
  BY <1>2, <1>3

(* Every variable of the data path keeps its type: offsets of a handle are *)
(* natural numbers whatever was transferred, and a callback is always at a *)
(* step of the handler of its request.                                     *)
THEOREM DataTypeCorrect == DataSpec => []DataTypeOK
<1> DEFINE Inv == TypeOK /\ CallbacksOK /\ LocalTypes
<1>1. DataInit => Inv
  <2> SUFFICES ASSUME DataInit PROVE Inv
    OBVIOUS
  <2>1. TypeOK
    BY TypeInit DEF DataInit
  <2>2. CallbacksOK
    BY DEF DataInit, CallbacksOK, OnRoute, Stages
  <2>3. LocalTypes
    BY DEF DataInit, LocalTypes
  <2> QED
    BY <2>1, <2>2, <2>3
<1>2. Inv /\ [DataNext]_allVars => Inv'
  BY InjectorTypes, CallbacksStep, LocalTypesStep
<1>3. Inv => DataTypeOK
  BY StageOfRoute DEF CallbacksOK, LocalTypes, DataTypeOK, Stages
<1> QED
  BY <1>1, <1>2, <1>3, PTL DEF DataSpec

-----------------------------------------------------------------------------
(* A read is not served the old data of a byte that a write has repaired   *)
(* when no write of its file is in progress: the only write such a byte    *)
(* can wait for is one in flight.                                          *)
THEOREM NoReadOfHollowBytes == DataSpec => NoHollowRead
<1> DEFINE Clean == \A c \in Callbacks :
             /\ pc[c] = "pread" /\ pc'[c] # "pread"
             /\ \A d \in Callbacks : call[d].op = "write" => call[d].path # call[c].path
             => RequestBytes(call[c]) \cap hollow[call[c].path] = {}
<1>1. DataInit => DataInv
  BY DataInitOK
<1>2. DataInv /\ [DataNext]_allVars => DataInv'
  BY DataStep
<1>3. DataInv => Clean
  <2> SUFFICES ASSUME DataInv, NEW c \in Callbacks, pc[c] = "pread",
                      \A d \in Callbacks : call[d].op = "write" => call[d].path # call[c].path
               PROVE  hollow[call[c].path] = {}
    OBVIOUS
  <2>1. call[c].path \in Paths
    BY CallKinds DEF DataInv, CallbacksOK, OnRoute
  <2>2. Landing(call[c].path) = {}
    BY DEF Landing
  <2> QED
    BY <2>1, <2>2 DEF DataInv, HollowOK, InFlight
<1>4. DataInv => [Clean]_allVars
  BY <1>3
<1> HIDE DEF Clean
<1>5. DataSpec => [][Clean]_allVars
  BY <1>1, <1>2, <1>4, PTL DEF DataSpec
<1> QED
  BY <1>5 DEF NoHollowRead, Clean

-----------------------------------------------------------------------------
(* Two writes in progress on one file are on record.                       *)
WritesApart ==
  \A c, d \in Callbacks :
    c # d /\ call[c].op = "write" /\ call[d].op = "write" /\ call[c].path = call[d].path
      => call[c].path \in overlapped

LEMMA ApartStep ==
  ASSUME CallbacksOK, WritesApart, [DataNext]_allVars
  PROVE  WritesApart' /\ overlapped \subseteq overlapped'
<1>0. /\ pc \in [Callbacks -> Stages] /\ call \in [Callbacks -> Calls \cup {Idle}]
      /\ \A c \in Callbacks : pc[c] = "idle" => call[c] = Idle
  BY DEF CallbacksOK, OnRoute
<1>1. ASSUME NEW c \in Callbacks, NEW q \in Calls, Begin(c, q)
      PROVE  WritesApart' /\ overlapped \subseteq overlapped'
  <2>1. call'[c] = q /\ \A d \in Callbacks \ {c} : call'[d] = call[d]
    BY <1>0, <1>1 DEF Begin
  <2>2. /\ overlapped \subseteq overlapped'
        /\ OthersWriting(c, q) => q.path \in overlapped'
    BY <1>1 DEF Begin
  <2>3. ASSUME NEW d \in Callbacks \ {c}, q.op = "write", call[d].op = "write", call[d].path = q.path
        PROVE  q.path \in overlapped'
    <3>1. pc[d] # "idle"
      BY <1>0, <2>3 DEF Idle
    <3> QED
      BY <2>2, <2>3, <3>1 DEF OthersWriting
  <2>4. ASSUME NEW a \in Callbacks, NEW b \in Callbacks, a # b,
               call'[a].op = "write", call'[b].op = "write", call'[a].path = call'[b].path
        PROVE  call'[a].path \in overlapped'
    <3>1. CASE a = c
      BY <2>1, <2>3, <2>4, <3>1
    <3>2. CASE b = c
      BY <2>1, <2>3, <2>4, <3>2
    <3>3. CASE a # c /\ b # c
      BY <2>1, <2>2, <2>4, <3>3 DEF WritesApart
    <3> QED
      BY <3>1, <3>2, <3>3
  <2> QED
    BY <2>2, <2>4 DEF WritesApart
<1>2. ASSUME overlapped' = overlapped, \A c \in Callbacks : call'[c] \in {call[c], Idle}
      PROVE  WritesApart' /\ overlapped \subseteq overlapped'
  <2>1. \A c \in Callbacks : call'[c].op = "write" => call'[c] = call[c]
    BY <1>2 DEF Idle
  <2> QED
    BY <1>2, <2>1 DEF WritesApart
<1>3. ASSUME NEW c \in Callbacks, Return(c) \/ call' = call
      PROVE  \A d \in Callbacks : call'[d] \in {call[d], Idle}
  BY <1>0, <1>3 DEF Return
<1>4. ASSUME NEW c \in Callbacks,
             \/ Delay(c) \/ GateRefuses(c) \/ GateAdmits(c) \/ Decide(c)
             \/ \E n : Transfer(c, n)
             \/ TransferFails(c)
             \/ Forward(c) \/ StoreWrite(c) \/ StoreRead(c) \/ Pread(c)
      PROVE  overlapped' = overlapped /\ (Return(c) \/ call' = call)
  BY <1>4 DEF Delay, GateRefuses, GateAdmits, Decide, Transfer, TransferFails, Forward, StoreWrite,
              StoreRead, Pread, Proceed
<1>5. CASE UNCHANGED <<call, overlapped>>
  BY <1>5 DEF WritesApart
<1> QED
  BY <1>1, <1>2, <1>3, <1>4, <1>5 DEF DataNext, Control, allVars, dataVars, callVars

(* The offset a handle keeps for its writes is where the bytes last        *)
(* written end, or one that only a failed write leaves, but for a callback *)
(* that has written and has not stored it yet.                             *)
Follows(off, end) == off = end \/ off >= FailedCount
Storing(c) == pc[c] = "store" /\ call[c].op = "write"

OffsetsOK ==
  /\ \A p \in Paths \ overlapped :
       (\A c \in Callbacks : Storing(c) => call[c].path # p)
         => Follows(lastOff[<<"write", p>>], head[p])
  /\ \A c \in Callbacks :
       /\ Storing(c) /\ call[c].path \notin overlapped
            => Follows(call[c].off + moved[c], head[call[c].path])
       /\ pc[c] = "delay" /\ call[c].op = "write" /\ sequential[c] /\ call[c].path \notin overlapped
            => call[c].off = lastOff[<<"write", call[c].path>>]

(* The locals of every other callback are as they were.                    *)
Others(d) ==
  \A c \in Callbacks \ {d} : /\ pc'[c] = pc[c] /\ call'[c] = call[c]
                             /\ moved'[c] = moved[c] /\ sequential'[c] = sequential[c]

SameOffsets(p) ==
  lastOff'[<<"write", p>>] = lastOff[<<"write", p>>] /\ head'[p] = head[p]

(* A callback with a request is on a file.                                 *)
LEMMA PathOf ==
  ASSUME CallbacksOK, NEW c \in Callbacks, pc[c] # "idle"
  PROVE  call[c].path \in Paths
BY CallKinds DEF CallbacksOK, OnRoute

(* A step of one callback that moves no offset of a write, and neither     *)
(* comes to the store of a write nor leaves one.                           *)
LEMMA OffsetsStay ==
  ASSUME CallbacksOK, CallbacksOK', OffsetsOK, NEW d \in Callbacks, ~Storing(d), ~Storing(d)', Others(d),
         overlapped \subseteq overlapped', \A p \in Paths \ overlapped' : SameOffsets(p),
         pc'[d] = "delay" /\ call'[d].op = "write" /\ sequential'[d] =>
           call'[d].off = lastOff[<<"write", call'[d].path>>]
  PROVE  OffsetsOK'
<1>1. \A c \in Callbacks : pc'[c] # "idle" => call'[c].path \in Paths
  BY CallKinds DEF CallbacksOK, OnRoute
<1>2. ASSUME NEW p \in Paths \ overlapped', \A c \in Callbacks : Storing(c)' => call'[c].path # p
      PROVE  Follows(lastOff'[<<"write", p>>], head'[p])
  <2>1. \A c \in Callbacks : Storing(c) => call[c].path # p
    BY <1>2 DEF Storing, Others
  <2> QED
    BY <2>1 DEF OffsetsOK, SameOffsets
<1>3. ASSUME NEW c \in Callbacks, Storing(c)', call'[c].path \notin overlapped'
      PROVE  Follows(call'[c].off + moved'[c], head'[call'[c].path])
  <2>1. c # d /\ pc'[c] # "idle"
    BY <1>3 DEF Storing
  <2>2. Storing(c) /\ call'[c] = call[c] /\ moved'[c] = moved[c] /\ call[c].path \in Paths
    BY <1>1, <1>3, <2>1 DEF Storing, Others
  <2> QED
    BY <1>3, <2>2 DEF OffsetsOK, SameOffsets
<1>4. ASSUME NEW c \in Callbacks, pc'[c] = "delay", call'[c].op = "write", sequential'[c],
             call'[c].path \notin overlapped'
      PROVE  call'[c].off = lastOff'[<<"write", call'[c].path>>]
  <2>1. call'[c].path \in Paths
    BY <1>1, <1>4
  <2>2. CASE c = d
    BY <1>4, <2>1, <2>2 DEF SameOffsets
  <2>3. CASE c # d
    BY <1>4, <2>1, <2>3 DEF OffsetsOK, Others, SameOffsets
  <2> QED
    BY <2>2, <2>3
<1> QED
  BY <1>2, <1>3, <1>4 DEF OffsetsOK

LEMMA OffsetStep ==
  ASSUME CallbacksOK, CallbacksOK', LocalTypes, OffsetsOK, WritesApart,
         overlapped \subseteq overlapped', NEW d \in Callbacks,
         \/ \E q \in Calls : Begin(d, q)
         \/ Delay(d) \/ GateRefuses(d) \/ GateAdmits(d) \/ Decide(d)
         \/ \E n \in Written(call[d]) : Transfer(d, n)
         \/ TransferFails(d)
         \/ Forward(d) \/ StoreWrite(d) \/ StoreRead(d)
         \/ Pread(d)
  PROVE  OffsetsOK'
<1>0. /\ pc \in [Callbacks -> Stages] /\ call \in [Callbacks -> Calls \cup {Idle}]
      /\ sequential \in [Callbacks -> BOOLEAN] /\ moved \in [Callbacks -> Nat]
      /\ lastOff \in [Directions \X Paths -> Nat] /\ head \in [Paths -> Nat]
  BY DEF CallbacksOK, LocalTypes
<1>a. \A p \in Paths : <<"write", p>> \in Directions \X Paths
  BY DEF Directions
<1>b. UNCHANGED <<lastOff, head>> => \A p \in Paths : SameOffsets(p)
  BY DEF SameOffsets
<1>1. ASSUME NEW q \in Calls, Begin(d, q) PROVE OffsetsOK'
  <2>1. Route(q)[1] \in {"delay", "gate", "check"}
    BY RouteOfWrite, RouteOfRead, RouteOfAllocate, RouteOfReaddir, RouteOfOther
  <2>2. /\ pc[d] = "idle" /\ pc'[d] = Route(q)[1] /\ call'[d] = q
        /\ sequential'[d] = (q.op \in Directions /\ q.off = lastOff[<<q.op, q.path>>])
        /\ UNCHANGED lastOff
    BY <1>0, <1>1 DEF Begin
  <2>6. \A p \in Paths \ overlapped' : SameOffsets(p)
    <3>1. CASE UNCHANGED <<overlapped, head>>
      BY <2>2, <3>1 DEF SameOffsets
    <3>2. CASE overlapped' = overlapped \cup {q.path} /\ head' = [head EXCEPT ![q.path] = 0]
      <4>1. \A p \in Paths \ overlapped' : p # q.path
        BY <3>2
      <4> QED
        BY <1>0, <2>2, <3>2, <4>1 DEF SameOffsets
    <3> QED
      BY <1>1, <3>1, <3>2 DEF Begin
  <2>3. Others(d)
    BY <1>0, <1>1 DEF Begin, Others
  <2>4. ~Storing(d) /\ ~Storing(d)'
    BY <2>1, <2>2 DEF Storing
  <2>5. pc'[d] = "delay" /\ call'[d].op = "write" /\ sequential'[d] =>
          call'[d].off = lastOff[<<"write", call'[d].path>>]
    BY <2>2
  <2> QED
    BY <2>2, <2>3, <2>4, <2>5, <2>6, OffsetsStay
<1>2. ASSUME Delay(d) \/ GateAdmits(d) PROVE OffsetsOK'
  <2>1. /\ pc[d] \in {"delay", "gate"} /\ Proceed(d) /\ UNCHANGED <<lastOff, head, moved>>
    BY <1>2 DEF Delay, GateAdmits
  <2>2. pc'[d] \notin {"store", "delay"}
    <3>1. /\ OnRoute(pc[d], call[d]) /\ call[d] \in Calls
          /\ pc[d] = "delay" => call[d].op \notin {"allocate", "readdir"}
      BY <2>1, CallKinds DEF CallbacksOK, OnRoute
    <3>2. Successor(call[d], pc[d]) \notin {"store", "delay"}
      BY <2>1, <3>1, RouteOfWrite, RouteOfRead, RouteOfAllocate, RouteOfOther DEF OnRoute
    <3> QED
      BY <1>0, <2>1, <3>2 DEF Proceed
  <2>3. Others(d)
    BY <1>0, <2>1 DEF Proceed, Others
  <2>4. ~Storing(d) /\ ~Storing(d)'
    BY <2>1, <2>2 DEF Storing
  <2> QED
    BY <1>b, <2>1, <2>2, <2>3, <2>4, OffsetsStay
<1>3. ASSUME GateRefuses(d) \/ Forward(d) \/ Pread(d) PROVE OffsetsOK'
  <2>1. pc[d] # "store" /\ Return(d) /\ pc'[d] = "idle"
    BY <1>0, <1>3 DEF GateRefuses, Forward, Pread, Return
  <2>2. Others(d)
    BY <1>0, <2>1 DEF Return, Others
  <2>3. \A p \in Paths : SameOffsets(p)
    BY <1>b, <1>3 DEF GateRefuses, Forward, Pread
  <2>4. ~Storing(d) /\ ~Storing(d)'
    BY <2>1 DEF Storing
  <2> QED
    BY <2>1, <2>2, <2>3, <2>4, OffsetsStay
<1>4. ASSUME Decide(d) PROVE OffsetsOK'
  <2>1. pc[d] = "check" /\ (Return(d) \/ (Proceed(d) /\ UNCHANGED moved)) /\ UNCHANGED <<lastOff, head>>
    BY <1>4 DEF Decide
  <2>2. pc'[d] # "delay" /\ ~Storing(d) /\ ~Storing(d)'
    <3>1. CASE Return(d)
      BY <1>0, <2>1, <3>1, ReturnStep DEF Storing
    <3>2. CASE Proceed(d)
      <4>1. pc'[d] = IF call[d].op = "read" THEN "store" ELSE "backing"
        BY <2>1, <3>2, StageStep
      <4>2. call' = call
        BY <3>2 DEF Proceed
      <4> QED
        BY <2>1, <4>1, <4>2 DEF Storing
    <3> QED
      BY <2>1, <3>1, <3>2
  <2>3. Others(d)
    BY <1>0, <2>1 DEF Return, Proceed, Others
  <2> QED
    BY <1>b, <2>1, <2>2, <2>3, OffsetsStay
<1>5. ASSUME StoreRead(d) PROVE OffsetsOK'
  <2> DEFINE h0 == <<call[d].op, call[d].path>>
             v == call[d].off + call[d].len
  <2>1. /\ pc[d] = "store" /\ call[d].op = "read" /\ Proceed(d)
        /\ lastOff' = [lastOff EXCEPT ![h0] = v] /\ UNCHANGED <<moved, head>>
    BY <1>5 DEF StoreRead
  <2>2. pc'[d] = "pread" /\ ~Storing(d) /\ ~Storing(d)'
    BY <2>1, StageStep DEF Storing
  <2>3. \A p \in Paths : <<"write", p>> # h0
    BY <2>1
  <2>4. Others(d)
    BY <1>0, <2>1 DEF Proceed, Others
  <2> HIDE DEF h0, v
  <2>5. \A p \in Paths : SameOffsets(p)
    BY <1>0, <1>a, <2>1, <2>3 DEF SameOffsets
  <2> QED
    BY <2>2, <2>4, <2>5, OffsetsStay
<1>6. ASSUME NEW n \in Nat, pc[d] = "backing", call[d].op = "write", Proceed(d),
             UNCHANGED <<lastOff, overlapped>>, moved' = [moved EXCEPT ![d] = n],
             call[d].path \notin overlapped => Follows(call[d].off + n, head'[call[d].path]),
             \A p \in Paths \ {call[d].path} : head'[p] = head[p]
      PROVE  OffsetsOK'
  <2>1. pc'[d] = "store" /\ call' = call /\ sequential' = sequential /\ Storing(d)'
    BY <1>6, StageStep DEF Proceed, Storing
  <2>2. \A c \in Callbacks \ {d} : pc'[c] = pc[c] /\ moved'[c] = moved[c]
    BY <1>0, <1>6 DEF Proceed
  <2>3. moved'[d] = n
    BY <1>0, <1>6
  <2>4. ASSUME NEW p \in Paths \ overlapped', \A c \in Callbacks : Storing(c)' => call'[c].path # p
        PROVE  Follows(lastOff'[<<"write", p>>], head'[p])
    <3>1. p # call[d].path
      BY <2>1, <2>4
    <3>2. \A c \in Callbacks : Storing(c) => call[c].path # p
      BY <1>6, <2>1, <2>2, <2>4 DEF Storing
    <3>3. Follows(lastOff[<<"write", p>>], head[p])
      BY <1>6, <2>4, <3>2 DEF OffsetsOK
    <3> QED
      BY <1>6, <2>4, <3>1, <3>3
  <2>5. ASSUME NEW c \in Callbacks, Storing(c)', call'[c].path \notin overlapped'
        PROVE  Follows(call'[c].off + moved'[c], head'[call'[c].path])
    <3>1. CASE c = d
      BY <1>6, <2>1, <2>3, <2>5, <3>1
    <3>2. CASE c # d
      <4>1. Storing(c) /\ moved'[c] = moved[c] /\ call'[c] = call[c]
        BY <2>1, <2>2, <2>5, <3>2 DEF Storing
      <4>2. call[c].path \in Paths /\ call[c].path # call[d].path
        BY <1>6, <2>5, <3>2, <4>1, PathOf DEF Storing, WritesApart
      <4>3. Follows(call[c].off + moved[c], head[call[c].path])
        BY <1>6, <2>5, <4>1 DEF OffsetsOK
      <4> QED
        BY <1>6, <4>1, <4>2, <4>3
    <3> QED
      BY <3>1, <3>2
  <2>6. ASSUME NEW c \in Callbacks, pc'[c] = "delay", call'[c].op = "write", sequential'[c],
               call'[c].path \notin overlapped'
        PROVE  call'[c].off = lastOff'[<<"write", call'[c].path>>]
    BY <1>6, <2>1, <2>2, <2>6 DEF OffsetsOK
  <2> QED
    BY <2>4, <2>5, <2>6 DEF OffsetsOK
<1>7. ASSUME NEW n \in Written(call[d]), Transfer(d, n) PROVE OffsetsOK'
  <2> DEFINE q == call[d]
             v == q.off + n
  <2>1. /\ pc[d] = "backing" /\ q.op = "write" /\ Proceed(d) /\ UNCHANGED <<lastOff, overlapped>>
        /\ moved' = [moved EXCEPT ![d] = n]
        /\ head' = [head EXCEPT ![q.path] = IF q.path \in overlapped THEN @ ELSE v]
    BY <1>7 DEF Transfer
  <2>2. n \in Nat /\ q.path \in Paths
    <3>1. q.len \in Nat
      BY <2>1, HandleOf DEF Directions
    <3>2. n \in Nat
      BY <3>1 DEF Written
    <3>3. q.path \in Paths
      BY <2>1, PathOf
    <3> QED
      BY <3>2, <3>3
  <2> HIDE DEF v
  <2>3. q.path \notin overlapped => Follows(v, head'[q.path])
    BY <1>0, <2>1, <2>2 DEF Follows
  <2>4. \A p \in Paths \ {q.path} : head'[p] = head[p]
    BY <1>0, <2>1
  <2> QED
    BY <1>6, <2>1, <2>2, <2>3, <2>4 DEF v
<1>8. ASSUME TransferFails(d) PROVE OffsetsOK'
  <2>1. /\ pc[d] = "backing" /\ call[d].op = "write" /\ Proceed(d) /\ UNCHANGED <<lastOff, head, overlapped>>
        /\ moved' = [moved EXCEPT ![d] = FailedCount]
    BY <1>8 DEF TransferFails
  <2>2. FailedCount \in Nat /\ call[d].off \in Nat
    BY <2>1, HandleOf, DataPathAssumption DEF Directions
  <2>3. Follows(call[d].off + FailedCount, head'[call[d].path])
    BY <2>2 DEF Follows
  <2> QED
    BY <1>6, <2>1, <2>2, <2>3
<1>9. ASSUME StoreWrite(d) PROVE OffsetsOK'
  <2> DEFINE h0 == <<call[d].op, call[d].path>>
             v == call[d].off + moved[d]
  <2>1. /\ pc[d] = "store" /\ call[d].op = "write" /\ Return(d) /\ UNCHANGED <<head, overlapped>>
        /\ lastOff' = [lastOff EXCEPT ![h0] = v]
    BY <1>9 DEF StoreWrite
  <2>2. pc'[d] = "idle" /\ ~Storing(d)'
    BY <2>1, ReturnStep DEF Storing
  <2>3. h0 \in Directions \X Paths /\ h0 = <<"write", call[d].path>>
    BY <2>1, HandleOf DEF Directions
  <2>4. \A p \in Paths \ {call[d].path} : <<"write", p>> # h0
    BY <2>3
  <2>5. Others(d)
    BY <1>0, <2>1 DEF Return, Others
  <2>6. call[d].path \notin overlapped => Follows(v, head[call[d].path])
    BY <2>1, <2>3 DEF OffsetsOK, Storing
  <2> HIDE DEF h0, v
  <2>7. /\ lastOff'[h0] = v
        /\ \A p \in Paths \ {call[d].path} : lastOff'[<<"write", p>>] = lastOff[<<"write", p>>]
    BY <1>0, <1>a, <2>1, <2>3, <2>4
  <2>8. \A c \in Callbacks \ {d} :
          call[c].op = "write" /\ call[c].path \notin overlapped => call[c].path # call[d].path
    BY <2>1 DEF WritesApart
  <2>9. ASSUME NEW p \in Paths \ overlapped', \A c \in Callbacks : Storing(c)' => call'[c].path # p
        PROVE  Follows(lastOff'[<<"write", p>>], head'[p])
    <3>1. CASE p = call[d].path
      BY <2>1, <2>3, <2>6, <2>7, <2>9, <3>1
    <3>2. CASE p # call[d].path
      <4>1. \A c \in Callbacks : Storing(c) => call[c].path # p
        BY <2>5, <2>9, <3>2 DEF Storing, Others
      <4>2. Follows(lastOff[<<"write", p>>], head[p])
        BY <2>1, <2>9, <4>1 DEF OffsetsOK
      <4> QED
        BY <2>1, <2>7, <2>9, <3>2, <4>2
    <3> QED
      BY <3>1, <3>2
  <2>10. ASSUME NEW c \in Callbacks, Storing(c)', call'[c].path \notin overlapped'
         PROVE  Follows(call'[c].off + moved'[c], head'[call'[c].path])
    <3>1. c # d
      BY <2>2, <2>10
    <3>2. Storing(c) /\ call'[c] = call[c] /\ moved'[c] = moved[c]
      BY <2>5, <2>10, <3>1 DEF Storing, Others
    <3> QED
      BY <2>1, <2>10, <3>2 DEF OffsetsOK
  <2>11. ASSUME NEW c \in Callbacks, pc'[c] = "delay", call'[c].op = "write", sequential'[c],
                call'[c].path \notin overlapped'
         PROVE  call'[c].off = lastOff'[<<"write", call'[c].path>>]
    <3>1. c # d
      BY <2>2, <2>11
    <3>2. pc[c] = "delay" /\ call'[c] = call[c] /\ sequential[c]
      BY <2>5, <2>11, <3>1 DEF Others
    <3>3. call[c].path \in Paths \ {call[d].path}
      BY <2>1, <2>8, <2>11, <3>1, <3>2, PathOf
    <3>4. call[c].off = lastOff[<<"write", call[c].path>>]
      BY <2>1, <2>11, <3>2 DEF OffsetsOK
    <3> QED
      BY <2>7, <3>2, <3>3, <3>4
  <2> QED
    BY <2>9, <2>10, <2>11 DEF OffsetsOK
<1> QED
  BY <1>1, <1>2, <1>3, <1>4, <1>5, <1>7, <1>8, <1>9

(* A write takes the sequential delay only where the bytes last written on *)
(* its handle end, short, failed and refused writes included, until two    *)
(* writes of the file overlap; or at an offset that the count of a failed  *)
(* write reaches.                                                          *)
THEOREM SequentialWritesAreContiguous == DataSpec => []SequentialWritesContiguous
<1> DEFINE Inv == TypeOK /\ CallbacksOK /\ LocalTypes /\ WritesApart /\ OffsetsOK
<1>1. DataInit => Inv
  <2> SUFFICES ASSUME DataInit PROVE Inv
    OBVIOUS
  <2>1. TypeOK
    BY TypeInit DEF DataInit
  <2>2. CallbacksOK
    BY DEF DataInit, CallbacksOK, OnRoute, Stages
  <2>3. LocalTypes
    BY DEF DataInit, LocalTypes
  <2>4. OffsetsOK
    <3>1. \A p \in Paths : <<"write", p>> \in Directions \X Paths
      BY DEF Directions
    <3>2. \A p \in Paths : lastOff[<<"write", p>>] = 0 /\ head[p] = 0
      BY <3>1 DEF DataInit
    <3> QED
      BY <3>2 DEF DataInit, OffsetsOK, Storing, Follows
  <2>5. WritesApart
    BY DEF DataInit, WritesApart, Idle
  <2> QED
    BY <2>1, <2>2, <2>3, <2>4, <2>5
<1>2. Inv /\ [DataNext]_allVars => Inv'
  <2> SUFFICES ASSUME Inv, [DataNext]_allVars PROVE OffsetsOK'
    BY InjectorTypes, CallbacksStep, LocalTypesStep, ApartStep
  <2>0. CallbacksOK' /\ overlapped \subseteq overlapped'
    BY CallbacksStep, ApartStep
  <2>1. CASE UNCHANGED <<pc, call, sequential, moved, lastOff, head, overlapped>>
    BY <2>1 DEF OffsetsOK, Storing, Follows
  <2>2. CASE \E d \in Callbacks :
               \/ \E q \in Calls : Begin(d, q)
               \/ Delay(d) \/ GateRefuses(d) \/ GateAdmits(d) \/ Decide(d)
               \/ \E n \in Written(call[d]) : Transfer(d, n)
               \/ TransferFails(d)
               \/ Forward(d) \/ StoreWrite(d) \/ StoreRead(d)
               \/ Pread(d)
    BY <2>0, <2>2, OffsetStep
  <2> QED
    BY <2>1, <2>2 DEF DataNext, Control, allVars, dataVars, callVars
<1>3. Inv => SequentialWritesContiguous
  <2> SUFFICES ASSUME Inv, NEW c \in Callbacks, pc[c] = "delay", call[c].op = "write", sequential[c],
                      call[c].path \notin overlapped
               PROVE  Follows(call[c].off, head[call[c].path])
    BY DEF SequentialWritesContiguous, Follows
  <2>1. call[c].path \in Paths /\ call[c].off = lastOff[<<"write", call[c].path>>]
    BY PathOf DEF OffsetsOK
  <2>2. \A d \in Callbacks : Storing(d) => call[d].path # call[c].path
    BY DEF WritesApart, Storing
  <2> QED
    BY <2>1, <2>2 DEF OffsetsOK
<1> HIDE DEF Inv
<1> QED
  BY <1>1, <1>2, <1>3, PTL DEF DataSpec
=============================================================================
