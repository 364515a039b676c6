---------------------------- MODULE ControlPlane ----------------------------
(***************************************************************************)
(* Control requests over one Injector (control.go, calibrate.go, and the   *)
(* badsector command of rules.go), each served by a goroutine of its own.  *)
(* A request is the sequence of its critical sections, among which others' *)
(* requests and file system traffic run.                                   *)
(*                                                                         *)
(* status and dump read field by field; set-latency writes the profile,    *)
(* clamped by a measurement of the backing that only the first request     *)
(* makes, and then the speed; badsector sends one request for the budget   *)
(* and one for the rule.  The other commands are one critical section.     *)
(***************************************************************************)
EXTENDS Injector, Functions

CONSTANTS
  Clients,        \* control clients with a request in progress
  Unset,          \* a parameter left out of a request
  Limited,        \* profiles that set-latency may ask for and that limit bandwidth
  Clamped,        \* what AdjustProfile makes of each of them
  LatencyInputs,  \* <<profile, speed>> of set-latency
  BadsectorInputs \* <<rule, spare>> of badsector

None == [cmd |-> "none"]  \* no request; not a client either

ASSUME ControlAssumption ==
  /\ None \notin Clients
  /\ Unset \notin Profiles
  /\ Limited \subseteq Profiles /\ NoProfile \notin Limited
  /\ Clamped \in [Limited -> Profiles \ Limited]
  /\ LatencyInputs \subseteq (Profiles \cup {Unset}) \X (SpeedInputs \cup {Unset})
  /\ BadsectorInputs \subseteq RuleInputs \X (SpareInputs \cup {Unset})

VARIABLES
  request,   \* of each client: what it asked for
  todo,      \* the critical sections it has left
  calib,     \* calibOnce and calibErr: "never", "running", "ok" or "failed"
  shown,     \* the spare count its reply shows
  budget,    \* history: the spare count when its reply listed the rules
  disturbed  \* history: its steps that others have since written over

controlVars == <<request, todo, calib, shown, budget, disturbed>>
allVars == <<vars, controlVars>>

Steps ==
  {"list", "spare", "calibrate", "measure", "profile", "speed", "setSpare", "add", "answer"}

NotRead == -2

ControlInit ==
  /\ Init
  /\ request = [c \in Clients |-> None]
  /\ todo = [c \in Clients |-> <<>>]
  /\ calib = "never"
  /\ shown = [c \in Clients |-> NotRead]
  /\ budget = [c \in Clients |-> NotRead]
  /\ disturbed = [c \in Clients |-> {}]

-----------------------------------------------------------------------------
(* The route of a request *)

(* Mutant: the budget is read before the rules.                            *)
StatusRoute_SpareFirst == <<"spare", "list", "answer">>

(* status and dump: both list the rules before they read the budget.  The  *)
(* sections that read profile, speed and block size change nothing and are *)
(* left out.                                                               *)
StatusRoute == <<"list", "spare", "answer">>

(* Without any parameter the request is refused at once.                   *)
LatencyRoute(p, x) ==
  (IF p \in Limited THEN <<"calibrate">> ELSE <<>>)
    \o (IF p # Unset THEN <<"profile">> ELSE <<>>)
    \o (IF x # Unset THEN <<"speed">> ELSE <<>>)
    \o <<"answer">>

(* Mutant: the rule is added before its budget is set.                     *)
BadsectorRoute_RuleFirst(x) ==
  <<"add">> \o (IF x # Unset THEN <<"setSpare">> ELSE <<>>) \o <<"answer">>

BadsectorRoute(x) ==
  (IF x # Unset THEN <<"setSpare">> ELSE <<>>) \o <<"add", "answer">>

ControlRequests ==
  {[cmd |-> "status"]}
    \cup {[cmd |-> "set-latency", profile |-> x[1], speed |-> x[2]] : x \in LatencyInputs}
    \cup {[cmd |-> "badsector", rule |-> x[1], spare |-> x[2]] : x \in BadsectorInputs}

Route(r) ==
  CASE r.cmd = "status"      -> StatusRoute
    [] r.cmd = "set-latency" -> LatencyRoute(r.profile, r.speed)
    [] r.cmd = "badsector"   -> BadsectorRoute(r.spare)

NoInjector ==
  reply' = Void /\ UNCHANGED <<rules, nextID, spareVars, latencyVars, remapped>>

Begin(c, r) ==
  /\ todo[c] = <<>>
  /\ request' = [request EXCEPT ![c] = r]
  /\ todo' = [todo EXCEPT ![c] = Route(r)]
  /\ NoInjector
  /\ UNCHANGED <<calib, shown, budget, disturbed>>

At(c, step) == todo[c] # <<>> /\ Head(todo[c]) = step

(* c enters the next critical section of its route.                        *)
Take(c, step) ==
  /\ At(c, step)
  /\ todo' = [todo EXCEPT ![c] = Tail(@)]
  /\ UNCHANGED request

(* History: the requests that have taken one of these steps are overtaken. *)
Overtake(writer, steps) ==
  disturbed' = [c \in Clients |->
    IF c = writer \/ todo[c] = <<>> THEN disturbed[c]
    ELSE disturbed[c] \cup ((steps \cap Range(Route(request[c]))) \ Range(todo[c]))]

-----------------------------------------------------------------------------
(* status and dump *)

ListRules(c) ==
  /\ Take(c, "list")
  /\ budget' = [budget EXCEPT ![c] = spareCount]
  /\ NoInjector
  /\ UNCHANGED <<calib, shown, disturbed>>

ReadSpare(c) ==
  /\ Take(c, "spare")
  /\ shown' = [shown EXCEPT ![c] = spareCount]
  /\ NoInjector
  /\ UNCHANGED <<calib, budget, disturbed>>

-----------------------------------------------------------------------------
(* set-latency *)

(* Mutant: every request measures for itself.                              *)
Measure_NoOnce(c) ==
  /\ At(c, "calibrate")
  /\ calib' = "running"
  /\ todo' = [todo EXCEPT ![c] = <<"measure">> \o Tail(@)]
  /\ NoInjector
  /\ UNCHANGED <<request, shown, budget, disturbed>>

(* calibOnce.Do: the first to come measures.                               *)
Measure(c) ==
  /\ At(c, "calibrate")
  /\ calib = "never"
  /\ calib' = "running"
  /\ todo' = [todo EXCEPT ![c] = <<"measure">> \o Tail(@)]
  /\ NoInjector
  /\ UNCHANGED <<request, shown, budget, disturbed>>

(* Mutant: a failed measurement leaves the others waiting.                 *)
Measured_OnlySuccess(c, outcome) ==
  /\ Take(c, "measure")
  /\ calib' = IF outcome = "ok" THEN "ok" ELSE calib
  /\ NoInjector
  /\ UNCHANGED <<shown, budget, disturbed>>

(* Calibrate returns; its result is kept, an error too.                    *)
Measured(c, outcome) ==
  /\ Take(c, "measure")
  /\ calib' = outcome
  /\ NoInjector
  /\ UNCHANGED <<shown, budget, disturbed>>

(* Mutant: a request does not wait for a measurement in progress.          *)
Cached_NoWait(c) ==
  /\ Take(c, "calibrate")
  /\ calib # "never"
  /\ NoInjector
  /\ UNCHANGED <<calib, shown, budget, disturbed>>

(* The others wait for it and use what it found.                           *)
Cached(c) ==
  /\ Take(c, "calibrate")
  /\ calib \in {"ok", "failed"}
  /\ NoInjector
  /\ UNCHANGED <<calib, shown, budget, disturbed>>

(* Mutant: after a failed measurement there is no profile to set.          *)
Adjusted_Unset(p) == IF p \in Limited THEN IF calib = "ok" THEN Clamped[p] ELSE Unset ELSE p

(* After a failed measurement the profile passes as it is.                 *)
Adjusted(p) == IF p \in Limited /\ calib = "ok" THEN Clamped[p] ELSE p

ApplyProfile(c) ==
  /\ Take(c, "profile")
  /\ SetProfile(Adjusted(request[c].profile))
  /\ Overtake(c, {"profile"})
  /\ UNCHANGED <<calib, shown, budget>>

ApplySpeed(c) ==
  /\ Take(c, "speed")
  /\ SetSpeed(request[c].speed)
  /\ Overtake(c, {"speed"})
  /\ UNCHANGED <<calib, shown, budget>>

-----------------------------------------------------------------------------
(* badsector: a command that sends two requests *)

ApplySpare(c) ==
  /\ Take(c, "setSpare")
  /\ SetSpareBlocks(request[c].spare[1], request[c].spare[2])
  /\ Overtake(c, {"setSpare", "list"})
  /\ UNCHANGED <<calib, shown, budget>>

AddSector(c) ==
  /\ Take(c, "add")
  /\ Add(request[c].rule)
  /\ UNCHANGED <<calib, shown, budget, disturbed>>

(* The daemon does not answer, or the command is killed: what it has       *)
(* written stays.                                                          *)
Abandon(c) ==
  /\ request[c].cmd = "badsector"
  /\ todo[c] # <<"answer">>
  /\ todo' = [todo EXCEPT ![c] = <<>>]
  /\ request' = [request EXCEPT ![c] = None]
  /\ disturbed' = [disturbed EXCEPT ![c] = {}]
  /\ NoInjector
  /\ UNCHANGED <<calib, shown, budget>>

-----------------------------------------------------------------------------
(* The reply is written and the connection closed.                         *)
Respond(c) ==
  /\ todo[c] = <<"answer">>
  /\ todo' = [todo EXCEPT ![c] = <<>>]
  /\ request' = [request EXCEPT ![c] = None]
  /\ shown' = [shown EXCEPT ![c] = NotRead]
  /\ budget' = [budget EXCEPT ![c] = NotRead]
  /\ disturbed' = [disturbed EXCEPT ![c] = {}]
  /\ NoInjector
  /\ UNCHANGED calib

(* What a request does next, or its end when it cannot go on.              *)
Step(c) ==
  \/ ListRules(c) \/ ReadSpare(c)
  \/ Measure(c) \/ Cached(c)
  \/ \E outcome \in {"ok", "failed"} : Measured(c, outcome)
  \/ ApplyProfile(c) \/ ApplySpeed(c)
  \/ ApplySpare(c) \/ AddSector(c) \/ Abandon(c)
  \/ Respond(c)

(* Commands of one critical section, start and end included; nobody is     *)
(* the writer.                                                             *)
Short ==
  /\ \/ /\ \/ \E r \in RuleInputs : Add(r)
           \/ \E id \in 1..MaxID : Delete(id)
           \/ Clear
        /\ UNCHANGED disturbed
     \/ \E x \in SpareInputs : SetSpareBlocks(x[1], x[2]) /\ Overtake(None, {"setSpare", "list"})
     \/ \E skipLatency \in BOOLEAN : Refresh(skipLatency) /\ Overtake(None, {"list"})
  /\ UNCHANGED <<request, todo, calib, shown, budget>>

Traffic == (\E q \in Requests : Check(q)) /\ UNCHANGED controlVars

ControlNext ==
  \/ \E c \in Clients :
       \/ \E r \in ControlRequests : Begin(c, r)
       \/ Step(c)
  \/ Short
  \/ Traffic

(* A goroutine that can run does run, and Calibrate returns.               *)
ControlSpec ==
  /\ ControlInit /\ [][ControlNext]_allVars
  /\ \A c \in Clients : WF_allVars(Step(c))

-----------------------------------------------------------------------------
ControlTypeOK ==
  /\ TypeOK
  /\ request \in [Clients -> ControlRequests \cup {None}]
  /\ todo \in [Clients -> Seq(Steps)]
  /\ calib \in {"never", "running", "ok", "failed"}
  /\ shown \in [Clients -> Int64] /\ budget \in [Clients -> Int64]
  /\ disturbed \in [Clients -> SUBSET Steps]

(* status and dump are torn, but not so that a repair looks unpaid: as     *)
(* long as nobody filled the budget in between, the spare count in a reply *)
(* is at most what it was when the rules in it were listed.                *)
RepairsShownArePaid ==
  \A c \in Clients :
    shown[c] # NotRead /\ budget[c] # NotRead /\ "list" \notin disturbed[c] =>
      shown[c] <= budget[c]

(* One measurement of the backing at a time, and one in all: whatever      *)
(* order concurrent requests come in, all are clamped by the same result.  *)
OneMeasurement ==
  [][/\ Cardinality({c \in Clients : At(c, "measure")'}) <= 1
     /\ calib \in {"ok", "failed"} => calib' = calib]_allVars

(* A profile faster than the backing is never in force, nor what a refresh *)
(* would bring back, unless the measurement failed.                        *)
ClampedUnlessFailed ==
  profile \in Limited \/ initialProfile \in Limited => calib = "failed"

(* When set-latency answers, the profile and the speed it gave are in      *)
(* force unless another set-latency wrote the same field after it: a       *)
(* refresh between its two writes, or after them, undoes neither.          *)
LatencyTakesEffect ==
  \A c \in Clients :
    todo[c] = <<"answer">> /\ request[c].cmd = "set-latency" =>
      LET r == request[c]
      IN  /\ r.profile = Unset \/ "profile" \in disturbed[c] \/ profile = Adjusted(r.profile)
          /\ r.speed = Unset \/ "speed" \in disturbed[c] \/ speed = IF r.speed <= 0 THEN 10 ELSE r.speed

(* A bad sector marked together with a budget is cut in blocks of that     *)
(* budget and paid from it: at no moment is the rule there without it,     *)
(* unless another request set a budget in between.                         *)
SectorComesWithItsBudget ==
  [][\A c \in Clients :
       At(c, "add") /\ todo'[c] = Tail(todo[c]) /\ request[c].spare # Unset
         /\ "setSpare" \notin disturbed[c]
       => /\ <<initialSpareCount, initialSpareBlockSize>> = request[c].spare
          /\ rules'[Len(rules')].blockSize = request[c].spare[2]]_allVars

(* Every request is answered or given up by its client: nobody waits       *)
(* forever for a measurement, a failed one included.                       *)
EveryRequestAnswered ==
  \A c \in Clients : todo[c] # <<>> ~> todo[c] = <<>>
=============================================================================
