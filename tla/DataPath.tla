------------------------------- MODULE DataPath -------------------------------
(***************************************************************************)
(* The FUSE callbacks of file.go, faultnode.go and dir.go, each in a       *)
(* goroutine of its own, over one shared Injector: sleep for the simulated *)
(* latency, pass the capacity gate (writes and fallocate), Check, call the *)
(* backing file system, note where the next sequential access would start. *)
(* A read is answered with the open file, an offset and a length: go-fuse  *)
(* reads the bytes after the callback has noted the offset.                *)
(* Control requests change the injector between any two of these steps.    *)
(*                                                                         *)
(* A file handle is modelled by the path it was opened with, which is the  *)
(* path it checks with until it is closed.  The capacity gate may refuse   *)
(* any write here: CapacityGate says when it does.                         *)
(***************************************************************************)
EXTENDS Injector

CONSTANTS
  Callbacks,      \* FUSE requests in progress at once
  TimedOps,       \* other ops with a field of their own in LatencyProfile
  BackingMayFail, \* whether backing writes fail or write less than asked
  FailedCount     \* bytes a failed write reports, uint32(-1): 2^32 - 1

ASSUME DataPathAssumption ==
  /\ TimedOps \subseteq OtherOps
  /\ "allocate" \notin AllOps
  /\ BackingMayFail \in BOOLEAN
  /\ FailedCount \in Nat /\ \A len \in Lengths : len < FailedCount

Calls == Requests \cup [op : {"allocate"}, path : Paths, off : Offsets, len : Lengths]

VARIABLES
  pc,         \* of each callback: its next step
  call,       \* the request it serves
  sequential, \* off == lastReadOff or lastWriteOff when it was compared
  slept,      \* field of the profile it slept by, with profile and speed
  moved,      \* bytes the backing write reports
  lastOff,    \* lastReadOff and lastWriteOff of each handle
  head,       \* history: where the bytes last written on each handle end, until two writes overlap
  hollow,     \* history: bytes repaired for a write that has yet to try to put its data there
  overlapped  \* history: files of which two writes were in progress at once

callVars == <<call, sequential, slept, moved>>
dataVars == <<pc, callVars, lastOff, head, hollow, overlapped>>
injectorVars == <<rules, nextID, spareVars, latencyVars, remapped>>
allVars == <<vars, dataVars>>

Directions == {"read", "write"}
Idle == [op |-> "none", len |-> 0]
Awake == <<>>

DataInit ==
  /\ Init
  /\ pc = [c \in Callbacks |-> "idle"]
  /\ call = [c \in Callbacks |-> Idle]
  /\ sequential = [c \in Callbacks |-> FALSE]
  /\ slept = [c \in Callbacks |-> Awake]
  /\ moved = [c \in Callbacks |-> 0]
  /\ lastOff = [h \in Directions \X Paths |-> 0]
  /\ head = [p \in Paths |-> 0]
  /\ hollow = [p \in Paths |-> {}]
  /\ overlapped = {}

-----------------------------------------------------------------------------
(* The route of a request *)

(* The calls each kind of handler makes, in its order.                     *)
ReadRoute == <<"delay", "check", "store", "pread">>

(* Mutant: the rules are looked at before the capacity.                    *)
WriteRoute_RulesFirst == <<"delay", "check", "gate", "backing", "store">>

WriteRoute == <<"delay", "gate", "check", "backing", "store">>
AllocateRoute == <<"gate", "backing">>
NodeRoute == <<"delay", "check", "backing">>
ReaddirRoute == <<"check", "backing">>

Route(q) ==
  CASE q.op = "read"     -> ReadRoute
    [] q.op = "write"    -> WriteRoute
    [] q.op = "allocate" -> AllocateRoute
    [] q.op = "readdir"  -> ReaddirRoute
    [] OTHER             -> NodeRoute

Successor(q, step) ==
  LET i == CHOOSE j \in DOMAIN Route(q) : Route(q)[j] = step
  IN  IF i = Len(Route(q)) THEN "idle" ELSE Route(q)[i + 1]

(* The callback answers the kernel; its locals are gone.                   *)
Return(c) ==
  /\ pc' = [pc EXCEPT ![c] = "idle"]
  /\ call' = [call EXCEPT ![c] = Idle]
  /\ sequential' = [sequential EXCEPT ![c] = FALSE]
  /\ slept' = [slept EXCEPT ![c] = Awake]
  /\ moved' = [moved EXCEPT ![c] = 0]

(* On to the next call of the route.                                       *)
Proceed(c) ==
  /\ pc' = [pc EXCEPT ![c] = Successor(call[c], @)]
  /\ UNCHANGED <<call, sequential>>

(* A step outside the injector.                                            *)
NoInjector == reply' = Void /\ UNCHANGED injectorVars

-----------------------------------------------------------------------------
(* History: repaired, but not written yet *)

Sectors(rs, p) == {rs[i] : i \in {j \in DOMAIN rs : rs[j].r.heal /\ p \in rs[j].r.paths}}
Bad(rs, p) == UNION {BadBytes(s) : s \in Sectors(rs, p)}
Region(rs, p) == UNION {RegionBytes(s) : s \in Sectors(rs, p)}

(* A byte is hollow no more when it is bad again or no rule covers it.     *)
Settled(h, rs) == [p \in Paths |-> (h[p] \cap Region(rs, p)) \ Bad(rs, p)]

(* The bytes of the write q that q repairs.                                *)
Repaired(q, rs, rsNew) ==
  IF q.op = "write"
  THEN [p \in Paths |->
          IF p = q.path THEN (Bad(rs, p) \ Bad(rsNew, p)) \cap RequestBytes(q) ELSE {}]
  ELSE [p \in Paths |-> {}]

-----------------------------------------------------------------------------
(* The steps of a callback *)

(* History: q is a write and another one of its file is in progress.       *)
OthersWriting(c, q) ==
  q.op = "write"
    /\ \E d \in Callbacks \ {c} : pc[d] # "idle" /\ call[d].op = "write" /\ call[d].path = q.path

(* It starts; a read or write compares off with the end of the last one.   *)
Begin(c, q) ==
  /\ pc[c] = "idle"
  /\ pc' = [pc EXCEPT ![c] = Route(q)[1]]
  /\ call' = [call EXCEPT ![c] = q]
  /\ sequential' =
       [sequential EXCEPT ![c] = q.op \in Directions /\ q.off = lastOff[<<q.op, q.path>>]]
  /\ IF OthersWriting(c, q)
     THEN overlapped' = overlapped \cup {q.path} /\ head' = [head EXCEPT ![q.path] = 0]
     ELSE UNCHANGED <<overlapped, head>>
  /\ NoInjector
  /\ UNCHANGED <<slept, moved, lastOff, hollow>>

DelayField(q, seq) ==
  CASE q.op = "read" -> IF seq THEN "ReadSeq" ELSE "ReadRand"
    [] q.op = "write" -> IF seq THEN "WriteSeq" ELSE "WriteRand"
    [] q.op \in TimedOps -> q.op
    [] OTHER -> "none"

(* DelayRead, DelayWrite, DelayOp: profile and speed are read in one       *)
(* critical section and the sleep is outside of it.                        *)
Delay(c) ==
  /\ pc[c] = "delay"
  /\ Proceed(c)
  /\ slept' = [slept EXCEPT ![c] = <<DelayField(call[c], sequential[c]), profile, speed>>]
  /\ NoInjector
  /\ UNCHANGED <<moved, lastOff, head, hollow, overlapped>>

(* checkWriteCapacity; an empty request always passes.                     *)
GateRefuses(c) ==
  /\ pc[c] = "gate"
  /\ call[c].len > 0
  /\ Return(c)
  /\ NoInjector
  /\ UNCHANGED <<lastOff, head, hollow, overlapped>>

GateAdmits(c) ==
  /\ pc[c] = "gate"
  /\ Proceed(c)
  /\ NoInjector
  /\ UNCHANGED <<slept, moved, lastOff, head, hollow, overlapped>>

(* Injector.Check decides; an errno goes straight back to the kernel.      *)
Decide(c) ==
  /\ pc[c] = "check"
  /\ Check(call[c])
  /\ IF reply'.errno # 0 THEN Return(c) ELSE Proceed(c) /\ UNCHANGED <<slept, moved>>
  /\ hollow' = Settled([p \in Paths |-> hollow[p] \cup Repaired(call[c], rules, rules')[p]], rules')
  /\ UNCHANGED <<lastOff, head, overlapped>>

(* The write has been to the backing file: what it did not put in place is *)
(* not hollow either, the caller is told.                                  *)
Told(q) == [hollow EXCEPT ![q.path] = @ \ RequestBytes(q)]

(* The backing write puts n bytes of q in place.                           *)
Transfer(c, n) ==
  LET q == call[c]
  IN  /\ pc[c] = "backing" /\ q.op = "write"
      /\ Proceed(c)
      /\ moved' = [moved EXCEPT ![c] = n]
      /\ head' = [head EXCEPT ![q.path] = IF q.path \in overlapped THEN @ ELSE q.off + n]
      /\ hollow' = Told(q)
      /\ NoInjector
      /\ UNCHANGED <<slept, lastOff, overlapped>>

(* The backing write fails; its count is taken all the same.               *)
TransferFails(c) ==
  /\ BackingMayFail
  /\ pc[c] = "backing" /\ call[c].op = "write"
  /\ Proceed(c)
  /\ moved' = [moved EXCEPT ![c] = FailedCount]
  /\ hollow' = Told(call[c])
  /\ NoInjector
  /\ UNCHANGED <<slept, lastOff, head, overlapped>>

(* Any other backing call, and fallocate; whatever it answers is returned. *)
Forward(c) ==
  /\ pc[c] = "backing" /\ call[c].op # "write"
  /\ Return(c)
  /\ NoInjector
  /\ UNCHANGED <<lastOff, head, hollow, overlapped>>

(* Mutant: the length asked for is taken as written.                       *)
StoreWrite_Requested(c) ==
  LET q == call[c]
  IN  /\ pc[c] = "store" /\ q.op = "write"
      /\ Return(c)
      /\ lastOff' = [lastOff EXCEPT ![<<q.op, q.path>>] = q.off + q.len]
      /\ NoInjector
      /\ UNCHANGED <<head, hollow, overlapped>>

(* Mutant: the offset of the last byte is kept instead of the next one.    *)
StoreWrite_LastByte(c) ==
  LET q == call[c]
  IN  /\ pc[c] = "store" /\ q.op = "write"
      /\ Return(c)
      /\ lastOff' = [lastOff EXCEPT ![<<q.op, q.path>>] = q.off + moved[c] - 1]
      /\ NoInjector
      /\ UNCHANGED <<head, hollow, overlapped>>

(* lastWriteOff, from what the backing write reports.                      *)
StoreWrite(c) ==
  LET q == call[c]
  IN  /\ pc[c] = "store" /\ q.op = "write"
      /\ Return(c)
      /\ lastOff' = [lastOff EXCEPT ![<<q.op, q.path>>] = q.off + moved[c]]
      /\ NoInjector
      /\ UNCHANGED <<head, hollow, overlapped>>

(* lastReadOff, from res.Size(): nothing has been read yet, and the size   *)
(* of a result that stands for a range of the file is the length asked for.*)
StoreRead(c) ==
  LET q == call[c]
  IN  /\ pc[c] = "store" /\ q.op = "read"
      /\ Proceed(c)
      /\ lastOff' = [lastOff EXCEPT ![<<q.op, q.path>>] = q.off + q.len]
      /\ NoInjector
      /\ UNCHANGED <<slept, moved, head, hollow, overlapped>>

(* go-fuse reads the bytes to answer the kernel, fewer than were asked for *)
(* at the end of the file; the callback has returned.                      *)
Pread(c) ==
  /\ pc[c] = "pread"
  /\ Return(c)
  /\ NoInjector
  /\ UNCHANGED <<lastOff, head, hollow, overlapped>>

(* A control request, or the program that embeds the library.              *)
Control ==
  /\ \/ \E r \in RuleInputs : Add(r)
     \/ \E id \in 1..MaxID : Delete(id)
     \/ Clear
     \/ \E x \in SpareInputs : SetSpareBlocks(x[1], x[2])
     \/ \E p \in Profiles : SetProfile(p)
     \/ \E x \in SpeedInputs : SetSpeed(x)
     \/ \E skipLatency \in BOOLEAN : Refresh(skipLatency)
  /\ hollow' = Settled(hollow, rules')
  /\ UNCHANGED <<pc, callVars, lastOff, head, overlapped>>

Written(q) == IF BackingMayFail THEN 0..q.len ELSE {q.len}

DataNext ==
  \/ \E c \in Callbacks :
       \/ \E q \in Calls : Begin(c, q)
       \/ Delay(c)
       \/ GateRefuses(c)
       \/ GateAdmits(c)
       \/ Decide(c)
       \/ \E n \in Written(call[c]) : Transfer(c, n)
       \/ TransferFails(c)
       \/ Forward(c)
       \/ StoreWrite(c)
       \/ StoreRead(c)
       \/ Pread(c)
  \/ Control

DataSpec == DataInit /\ [][DataNext]_allVars

-----------------------------------------------------------------------------
(* A callback is at a step of the handler of its request.                  *)
OnItsRoute(c) ==
  IF pc[c] = "idle" THEN call[c] = Idle
  ELSE call[c] \in Calls /\ \E i \in DOMAIN Route(call[c]) : pc[c] = Route(call[c])[i]

DataTypeOK ==
  /\ TypeOK
  /\ \A c \in Callbacks : OnItsRoute(c)
  /\ pc \in [Callbacks -> {"idle", "delay", "gate", "check", "backing", "store", "pread"}]
  /\ call \in [Callbacks -> Calls \cup {Idle}]
  /\ sequential \in [Callbacks -> BOOLEAN]
  /\ moved \in [Callbacks -> Nat]
  /\ lastOff \in [Directions \X Paths -> Nat] /\ head \in [Paths -> Nat]
  /\ hollow \in [Paths -> SUBSET FileBytes]
  /\ overlapped \subseteq Paths

(* A sector byte that is repaired but still holds its old data belongs to  *)
(* a write that is on its way to the backing file: no write that was       *)
(* refused or rejected leaves such a byte behind, whatever rules, budgets  *)
(* and refreshes come in between.                                          *)
HollowOnlyInFlight ==
  \A p \in Paths :
    hollow[p] \subseteq
      UNION {RequestBytes(call[c]) :
               c \in {d \in Callbacks : /\ pc[d] = "backing"
                                        /\ call[d].op = "write" /\ call[d].path = p}}

(* No read is served old data from a sector that a write has repaired,     *)
(* unless a write of the file is in progress: one that has been answered,  *)
(* with a count or an errno, leaves no such byte to a later read.          *)
NoHollowRead ==
  [][\A c \in Callbacks :
       /\ pc[c] = "pread" /\ pc'[c] # "pread"
       /\ \A d \in Callbacks : call[d].op = "write" => call[d].path # call[c].path
       => RequestBytes(call[c]) \cap hollow[call[c].path] = {}]_allVars

(* While the writes of a file come one at a time, a write takes the        *)
(* sequential delay only if it starts where the last bytes written on its  *)
(* handle end: writes that were refused, rejected, short or failed in      *)
(* between make no difference, up to the offsets of 4 GB and more that the *)
(* count of a failed write is mistaken for.                                *)
SequentialWritesContiguous ==
  \A c \in Callbacks :
    pc[c] = "delay" /\ call[c].op = "write" /\ sequential[c] /\ call[c].path \notin overlapped =>
      \/ call[c].off = head[call[c].path]
      \/ call[c].off >= FailedCount
=============================================================================
