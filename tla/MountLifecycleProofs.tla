------------------------ MODULE MountLifecycleProofs ------------------------
(***************************************************************************)
(* Theorems about MountLifecycle, for any number of daemons.               *)
(*                                                                         *)
(* MountInv is the strengthening that makes the safety invariants          *)
(* inductive.  It says of every daemon where it can be while its listener  *)
(* is open or its mount is there, and of a daemon that nobody meddles with *)
(* that it is the only one alive and that its mount, if any, is on top.    *)
(***************************************************************************)
EXTENDS MountLifecycle, TLAPS

Distinct(s) == \A i, j \in DOMAIN s : s[i] = s[j] => i = j

(* A live daemon that has the name listens unless it could not unlink it,  *)
(* and it listens only between Listen and Close.                           *)
SocketOK ==
  \A d \in Daemons :
    /\ sock = d /\ at[d] # "gone" => d \in listening \/ "remove" \in refused[d]
    /\ d \in listening => at[d] \in {"notify", "serving", "close"}

(* A daemon mounts once, and it has not mounted before it does.            *)
MountsOK ==
  /\ Distinct(mounts)
  /\ \A d \in Daemons : at[d] \in {"off", "setup"} => d \notin Mounted

(* A parent knows what its child has reported.                             *)
ParentOK == \A d \in Daemons : parent[d] = "ready" => wait[d] = "ready"

(* What holds of a daemon that nobody meddles with.                        *)
Lone(d) ==
  /\ at[d] # "off"
  /\ \A e \in Daemons : e # d => ~Alive(e)
  /\ d \in Mounted => mounts # <<>> /\ mounts[1] = d
  /\ command = "remove" => at[d] # "setup" /\ d \notin Mounted
  /\ at[d] = "rebind" => sock = NoDaemon \/ "remove" \in refused[d]
  /\ at[d] \in {"notify", "serving"} /\ d \in Mounted =>
       \/ sock = d /\ d \in listening
       \/ d \notin listening /\ refused[d] \cap {"listen", "remove"} # {}
  /\ wait[d] = "ready" => at[d] \notin Starting
  /\ wait[d] = "ready" /\ at[d] \in Up /\ d \in Mounted => sock = d /\ d \in listening
  /\ at[d] = "done" => d \notin Mounted \/ "unmount" \in refused[d]

LoneOK == \A d \in Daemons : alone[d] => Lone(d)

MountInv == TypeOK /\ SocketOK /\ MountsOK /\ ParentOK /\ LoneOK

-----------------------------------------------------------------------------
(* A mount on top of the stack, and the top one taken away                 *)

(* Pushing adds one owner, and keeps a stack without repetition so.        *)
LEMMA Push ==
  ASSUME NEW S, NEW s \in Seq(S), NEW x \in S, x \notin Range(s), Distinct(s)
  PROVE  /\ <<x>> \o s \in Seq(S)
         /\ Range(<<x>> \o s) = Range(s) \cup {x}
         /\ <<x>> \o s # <<>> /\ (<<x>> \o s)[1] = x
         /\ Distinct(<<x>> \o s)
<1> DEFINE t == <<x>> \o s
<1>1. t \in Seq(S) /\ Len(t) = Len(s) + 1 /\ t[1] = x /\ t # <<>>
  OBVIOUS
<1>2. DOMAIN t = 1..(Len(s) + 1) /\ DOMAIN s = 1..Len(s) /\ Len(s) \in Nat
  BY <1>1
<1>3. \A i \in 1..Len(s) : t[i + 1] = s[i]
  OBVIOUS
<1>4. \A i \in DOMAIN t : i = 1 \/ (i - 1 \in DOMAIN s /\ t[i] = s[i - 1])
  BY <1>2, <1>3
<1> HIDE DEF t
<1>5. Range(t) = Range(s) \cup {x}
  <2>1. ASSUME NEW y \in Range(t) PROVE y \in Range(s) \cup {x}
    BY <1>1, <1>4 DEF Range
  <2>2. ASSUME NEW y \in Range(s) PROVE y \in Range(t)
    <3>1. PICK i \in DOMAIN s : y = s[i]
      BY DEF Range
    <3>2. i + 1 \in DOMAIN t /\ t[i + 1] = y
      BY <1>2, <1>3, <3>1
    <3> QED BY <3>2 DEF Range
  <2>3. x \in Range(t)
    BY <1>1, <1>2 DEF Range
  <2> QED BY <2>1, <2>2, <2>3
<1>6. Distinct(t)
  <2> SUFFICES ASSUME NEW i \in DOMAIN t, NEW j \in DOMAIN t, t[i] = t[j] PROVE i = j
    BY DEF Distinct
  <2>1. CASE i = 1 \/ j = 1
    BY <2>1, <1>1, <1>4 DEF Range
  <2>2. CASE i # 1 /\ j # 1
    <3>1. s[i - 1] = s[j - 1] /\ i - 1 \in DOMAIN s /\ j - 1 \in DOMAIN s
      BY <2>2, <1>4
    <3>2. i - 1 = j - 1
      BY <3>1 DEF Distinct
    <3> QED BY <3>2, <1>2
  <2> QED BY <2>1, <2>2
<1> QED BY <1>1, <1>5, <1>6 DEF t

(* Popping takes the first owner away altogether, when nothing is twice.   *)
LEMMA Pop ==
  ASSUME NEW S, NEW s \in Seq(S), s # <<>>, Distinct(s)
  PROVE  /\ Tail(s) \in Seq(S)
         /\ Range(Tail(s)) = Range(s) \ {s[1]}
         /\ Distinct(Tail(s))
         /\ s[1] \in S /\ Head(s) = s[1] /\ s[1] \in Range(s)
<1> DEFINE t == Tail(s)
<1>1. t \in Seq(S) /\ Len(t) = Len(s) - 1 /\ Len(s) \in Nat /\ Len(s) >= 1
  OBVIOUS
<1>2. DOMAIN t = 1..(Len(s) - 1) /\ DOMAIN s = 1..Len(s)
  BY <1>1
<1>3. \A i \in 1..(Len(s) - 1) : t[i] = s[i + 1]
  OBVIOUS
<1>4. s[1] \in S /\ Head(s) = s[1] /\ 1 \in DOMAIN s
  BY <1>1, <1>2
<1>5. s[1] \in Range(s)
  BY <1>4 DEF Range
<1> HIDE DEF t
<1>6. ASSUME NEW y \in Range(t) PROVE y \in Range(s) /\ y # s[1]
  <2>1. PICK i \in DOMAIN t : y = t[i]
    BY <1>6 DEF Range
  <2>2. i + 1 \in DOMAIN s /\ y = s[i + 1] /\ i + 1 # 1
    BY <2>1, <1>1, <1>2, <1>3
  <2>3. y # s[1]
    BY <2>2, <1>4 DEF Distinct
  <2> QED BY <2>2, <2>3 DEF Range
<1>7. ASSUME NEW y \in Range(s), y # s[1] PROVE y \in Range(t)
  <2>1. PICK i \in DOMAIN s : y = s[i]
    BY DEF Range
  <2>2. i # 1
    BY <2>1, <1>7
  <2>3. i - 1 \in DOMAIN t /\ t[i - 1] = y
    BY <2>1, <2>2, <1>1, <1>2, <1>3
  <2> QED BY <2>3 DEF Range
<1>8. Distinct(t)
  <2> SUFFICES ASSUME NEW i \in DOMAIN t, NEW j \in DOMAIN t, t[i] = t[j] PROVE i = j
    BY DEF Distinct
  <2>1. i + 1 \in DOMAIN s /\ j + 1 \in DOMAIN s /\ s[i + 1] = s[j + 1]
    BY <1>1, <1>2, <1>3
  <2>2. i + 1 = j + 1
    BY <2>1 DEF Distinct
  <2> QED BY <2>2, <1>2
<1>9. Range(t) = Range(s) \ {s[1]}
  BY <1>6, <1>7
<1> QED BY <1>1, <1>4, <1>5, <1>8, <1>9 DEF t

-----------------------------------------------------------------------------
(* The invariant is inductive                                              *)

(* Every step keeps every conjunct.  Most move one daemon on; FuseMount,   *)
(* Unmount and Fusermount change the stack.                                *)
LEMMA Inductive == MountInv /\ [Next]_vars => MountInv'
<1> SUFFICES ASSUME MountInv, [Next]_vars PROVE MountInv'
  OBVIOUS
<1> USE MountAssumption
<1> USE DEF mainVars, socketVars, history, Refuse, Unlink
<1> USE DEF MountInv, TypeOK, Go, Up, Starting, Stopping, Returned, Ended, Alive
<1>1. ASSUME NEW d \in Daemons, NEW detach \in BOOLEAN, Start(d, detach) PROVE MountInv'
  BY <1>1 DEF SocketOK, MountsOK, ParentOK, LoneOK, Lone, Mounted, Start
<1>2. ASSUME NEW d \in Daemons, SetupFails(d) PROVE MountInv'
  BY <1>2 DEF SocketOK, MountsOK, ParentOK, LoneOK, Lone, Mounted, SetupFails
<1>3. ASSUME NEW d \in Daemons, FuseMount(d) PROVE MountInv'
  <2>1. mounts \in Seq(Daemons) /\ mounts' = <<d>> \o mounts /\ d \notin Range(mounts) /\ Distinct(mounts)
    BY <1>3 DEF FuseMount, MountsOK, Mounted
  <2>2. /\ mounts' \in Seq(Daemons) /\ mounts' # <<>> /\ mounts'[1] = d
        /\ Mounted' = Mounted \cup {d} /\ Distinct(mounts')
    BY <2>1, Push DEF Mounted
  <2>3. TypeOK' /\ SocketOK' /\ ParentOK'
    BY <1>3, <2>1 DEF SocketOK, ParentOK, FuseMount
  <2>4. MountsOK'
    BY <1>3, <2>1, <2>2 DEF MountsOK, FuseMount
  <2>5. LoneOK'
    BY <1>3, <2>1, <2>2, <2>4 DEF SocketOK, MountsOK, LoneOK, Lone, FuseMount
  <2> QED BY <2>3, <2>4, <2>5
<1>4. ASSUME NEW d \in Daemons, Bind(d) PROVE MountInv'
  BY <1>4 DEF SocketOK, MountsOK, ParentOK, LoneOK, Lone, Mounted, Bind, Listening
<1>5. ASSUME NEW d \in Daemons, BindInUse(d) PROVE MountInv'
  BY <1>5 DEF SocketOK, MountsOK, ParentOK, LoneOK, Lone, Mounted, BindInUse
<1>6. ASSUME NEW d \in Daemons, ClearName(d) PROVE MountInv'
  BY <1>6 DEF SocketOK, MountsOK, ParentOK, LoneOK, Lone, Mounted, ClearName
<1>7. ASSUME NEW d \in Daemons, Rebind(d) PROVE MountInv'
  BY <1>7 DEF SocketOK, MountsOK, ParentOK, LoneOK, Lone, Mounted, Rebind, Listening
<1>8. ASSUME NEW d \in Daemons, ListenFails(d) PROVE MountInv'
  <2>1. /\ refused' = [refused EXCEPT ![d] = @ \cup {"listen"}]
        /\ at[d] = "bind"
        /\ UNCHANGED <<mainVars, mounts, socketVars, command, alone>>
    BY <1>8 DEF ListenFails
  <2>2. \A e \in Daemons : refused[e] \subseteq refused'[e]
    BY <2>1
  <2>3. CASE at' = [at EXCEPT ![d] = "notify"]
    <3>1. TypeOK' /\ SocketOK' /\ MountsOK' /\ ParentOK'
      BY <2>1, <2>2, <2>3 DEF SocketOK, MountsOK, ParentOK, Mounted
    <3>2. d \notin listening /\ "listen" \in refused'[d]
      BY <2>1 DEF SocketOK
    <3>3. LoneOK'
      BY <2>1, <2>2, <2>3, <3>2 DEF LoneOK, Lone, Mounted
    <3> QED BY <3>1, <3>3
  <2>4. CASE at' = [at EXCEPT ![d] = "clear"]
    BY <2>1, <2>2, <2>4 DEF SocketOK, MountsOK, ParentOK, LoneOK, Lone, Mounted
  <2> QED BY <1>8, <2>3, <2>4 DEF ListenFails
<1>9. ASSUME NEW d \in Daemons, Notify(d) PROVE MountInv'
  BY <1>9 DEF SocketOK, MountsOK, ParentOK, LoneOK, Lone, Mounted, Notify
<1>10. ASSUME NEW d \in Daemons, Signalled(d) PROVE MountInv'
  BY <1>10 DEF SocketOK, MountsOK, ParentOK, LoneOK, Lone, Mounted, Signalled
<1>11. ASSUME NEW d \in Daemons, Unmounted(d) PROVE MountInv'
  BY <1>11 DEF SocketOK, MountsOK, ParentOK, LoneOK, Lone, Mounted, Unmounted
<1>12. ASSUME NEW d \in Daemons, CloseListener(d) PROVE MountInv'
  BY <1>12 DEF SocketOK, MountsOK, ParentOK, LoneOK, Lone, Mounted, CloseListener
<1>13. ASSUME NEW d \in Daemons, RemoveSocket(d) PROVE MountInv'
  BY <1>13 DEF SocketOK, MountsOK, ParentOK, LoneOK, Lone, Mounted, RemoveSocket
<1>14. ASSUME NEW d \in Daemons, CloseNothing(d) PROVE MountInv'
  BY <1>14 DEF SocketOK, MountsOK, ParentOK, LoneOK, Lone, Mounted, CloseNothing
<1>15. ASSUME NEW d \in Daemons, Unmount(d) PROVE MountInv'
  <2>1. mounts \in Seq(Daemons) /\ mounts # <<>> /\ mounts' = Tail(mounts) /\ Distinct(mounts)
    BY <1>15 DEF Unmount, MountsOK
  <2>2. /\ mounts' \in Seq(Daemons) /\ Distinct(mounts') /\ Mounted' = Mounted \ {mounts[1]}
        /\ mounts[1] \in Mounted /\ Head(mounts) = mounts[1] /\ mounts[1] \in Daemons
    BY <2>1, Pop DEF Mounted
  <2>3. TypeOK' /\ SocketOK' /\ ParentOK'
    BY <1>15, <2>2 DEF SocketOK, ParentOK, Unmount
  <2>4. MountsOK'
    BY <1>15, <2>1, <2>2 DEF MountsOK, Unmount
  <2>5. LoneOK'
    BY <1>15, <2>1, <2>2, <2>4 DEF SocketOK, MountsOK, LoneOK, Lone, Unmount
  <2> QED BY <2>3, <2>4, <2>5
<1>16. ASSUME NEW d \in Daemons, UnmountNothing(d) PROVE MountInv'
  BY <1>16 DEF SocketOK, MountsOK, ParentOK, LoneOK, Lone, Mounted, UnmountNothing
<1>17. ASSUME NEW d \in Daemons, Drained(d) PROVE MountInv'
  BY <1>17 DEF SocketOK, MountsOK, ParentOK, LoneOK, Lone, Mounted, Drained
<1>18. ASSUME NEW d \in Daemons, RunReturned(d) PROVE MountInv'
  BY <1>18 DEF SocketOK, MountsOK, ParentOK, LoneOK, Lone, Mounted, RunReturned, Report
<1>19. ASSUME NEW d \in Daemons, PollReady(d) PROVE MountInv'
  BY <1>19 DEF SocketOK, MountsOK, ParentOK, LoneOK, Lone, Mounted, PollReady, Report, Reachable
<1>20. ASSUME NEW d \in Daemons, Timeout(d) PROVE MountInv'
  BY <1>20 DEF SocketOK, MountsOK, ParentOK, LoneOK, Lone, Mounted, Timeout, Report
<1>21. ASSUME NEW d \in Daemons, Alive(d), End(d) PROVE MountInv'
  BY <1>21 DEF SocketOK, MountsOK, ParentOK, LoneOK, Lone, Mounted, End
<1>22. ASSUME NEW d \in Daemons, ParentFails(d) PROVE MountInv'
  BY <1>22 DEF SocketOK, MountsOK, ParentOK, LoneOK, Lone, Mounted, ParentFails
<1>23. ASSUME NEW d \in Daemons, ParentReady(d) PROVE MountInv'
  BY <1>23 DEF SocketOK, MountsOK, ParentOK, LoneOK, Lone, Mounted, ParentReady
<1>24. ASSUME Fusermount PROVE MountInv'
  <2>1. mounts \in Seq(Daemons) /\ mounts # <<>> /\ mounts' = Tail(mounts) /\ Distinct(mounts)
    BY <1>24 DEF Fusermount, MountsOK
  <2>2. /\ mounts' \in Seq(Daemons) /\ Distinct(mounts') /\ Mounted' = Mounted \ {mounts[1]}
        /\ mounts[1] \in Mounted /\ Head(mounts) = mounts[1] /\ mounts[1] \in Daemons
    BY <2>1, Pop DEF Mounted
  <2>3. TypeOK' /\ SocketOK' /\ ParentOK'
    BY <1>24, <2>1 DEF SocketOK, ParentOK, Fusermount
  <2>4. MountsOK'
    BY <1>24, <2>1, <2>2 DEF MountsOK, Fusermount
  <2>5. LoneOK'
    BY <1>24, <2>1, <2>2, <2>4 DEF SocketOK, MountsOK, LoneOK, Lone, Fusermount
  <2> QED BY <2>3, <2>4, <2>5
<1>25. ASSUME RemoveByName PROVE MountInv'
  BY <1>25 DEF SocketOK, MountsOK, ParentOK, LoneOK, Lone, Mounted, RemoveByName
<1>26. ASSUME NEW d \in Daemons, RebindFails(d) PROVE MountInv'
  <2>1. /\ at[d] = "rebind" /\ at' = [at EXCEPT ![d] = "notify"]
        /\ UNCHANGED <<mainVars, mounts, socketVars, command, alone>>
    BY <1>26 DEF RebindFails
  <2>2. \/ sock # NoDaemon /\ refused' = refused
        \/ refused' = [refused EXCEPT ![d] = @ \cup {"listen"}]
    BY <1>26 DEF RebindFails
  <2>3. /\ \A e \in Daemons : refused[e] \subseteq refused'[e]
        /\ refused' \in [Daemons -> SUBSET {"listen", "remove", "unmount"}]
    BY <2>2
  <2>4. TypeOK' /\ SocketOK' /\ MountsOK' /\ ParentOK'
    BY <2>1, <2>3 DEF SocketOK, MountsOK, ParentOK, Mounted
  <2>5. d \notin listening
    BY <2>1 DEF SocketOK
  <2>6. alone[d] => refused'[d] \cap {"listen", "remove"} # {}
    BY <2>1, <2>2, <2>3 DEF LoneOK, Lone
  <2>7. LoneOK'
    BY <2>1, <2>3, <2>5, <2>6 DEF LoneOK, Lone, Mounted
  <2> QED BY <2>4, <2>7
<1>27. ASSUME NEW d \in Daemons, ServeReturns(d) PROVE MountInv'
  BY <1>27 DEF SocketOK, MountsOK, ParentOK, LoneOK, Lone, Mounted, ServeReturns
<1>28. ASSUME NEW d \in Daemons, UnmountFails(d) PROVE MountInv'
  BY <1>28 DEF SocketOK, MountsOK, ParentOK, LoneOK, Lone, Mounted, UnmountFails
<1>29. ASSUME NEW d \in Daemons, PollStuck(d) PROVE MountInv'
  BY <1>29 DEF SocketOK, MountsOK, ParentOK, LoneOK, Lone, Mounted, PollStuck, Reachable
<1>30. ASSUME NEW d \in Daemons, Hangup(d) PROVE MountInv'
  BY <1>30 DEF SocketOK, MountsOK, ParentOK, LoneOK, Lone, Mounted, Hangup
<1>31. CASE UNCHANGED vars
  BY <1>31 DEF SocketOK, MountsOK, ParentOK, LoneOK, Lone, Mounted, vars
<1> QED
  BY <1>1, <1>2, <1>3, <1>4, <1>5, <1>6, <1>7, <1>8, <1>9, <1>10, <1>11, <1>12,
     <1>13, <1>14, <1>15, <1>16, <1>17, <1>18, <1>19, <1>20, <1>21, <1>22, <1>23, <1>24, <1>25,
     <1>26, <1>27, <1>28, <1>29, <1>30, <1>31
  DEF Next, RunStep, MainStep, ParentStep, Exit, Crash

(* A new system is well typed and nothing is mounted.                      *)
LEMMA Initial == Init => MountInv
BY MountAssumption
DEF Init, MountInv, TypeOK, SocketOK, MountsOK, ParentOK, LoneOK, Lone, Mounted, Distinct,
    Up, Starting, Stopping, Returned, Ended, Alive, Range

(* The invariant holds of every behaviour, fair or not.                    *)
LEMMA Invariant == Spec => []MountInv
BY Initial, Inductive, PTL DEF Spec

(* Every reachable state is well typed: no daemon is ever at a step that   *)
(* Run does not have, whatever is signalled, killed or unmounted.          *)
THEOREM TypeCorrect == Spec => []TypeOK
<1>1. MountInv => TypeOK
  BY DEF MountInv
<1> QED BY Invariant, <1>1, PTL

(* What a daemon that nobody meddles with has reported through the pipe    *)
(* stays true until it is stopped: it is mounted and the socket is its     *)
(* own, whatever dead daemons have left behind.                            *)
THEOREM ReadyDaemonIsReachable == Spec => []ReadyIsReachable
<1>1. MountInv => ReadyIsReachable
  BY DEF MountInv, TypeOK, ParentOK, LoneOK, Lone, ReadyIsReachable, DetachedIsReachable, Up, Starting
<1> QED BY Invariant, <1>1, PTL

(* A daemon that nobody meddles with serves with the name its own, over    *)
(* the socket of a dead one, unless os.Remove or net.Listen has failed.    *)
THEOREM StaleSocketIsReplaced == Spec => []StaleSocketReplaced
<1>1. MountInv => StaleSocketReplaced
  BY DEF MountInv, LoneOK, Lone, StaleSocketReplaced
<1> QED BY Invariant, <1>1, PTL

(* The cleanup of Run leaves neither socket nor mount behind, unless       *)
(* unlinking or unmounting, whose errors it ignores, has failed.           *)
THEOREM CleanupIsComplete == Spec => []CleanupLeavesNothing
<1>1. MountInv => CleanupLeavesNothing
  BY DEF MountInv, SocketOK, LoneOK, Lone, CleanupLeavesNothing
<1> QED BY Invariant, <1>1, PTL
=============================================================================
