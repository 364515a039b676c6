--------------------------- MODULE MountLifecycle ---------------------------
(***************************************************************************)
(* Mount daemons on one mount point: setup, control socket, serving,       *)
(* cleanup (faultfs.go, control/server.go), the --detach handshake with    *)
(* the parent process, and the unmount command (mount.go).                 *)
(*                                                                         *)
(* What the daemons share are the names of the mount point and of the      *)
(* socket: whoever unlinks or unmounts by name may hit another's.  A       *)
(* daemon is a process; at[d] is where its Run is, wait[d] where the main  *)
(* goroutine of a detached one is.  Signals and crashes may come at any    *)
(* time, and the calls whose errors the code ignores may fail.             *)
(***************************************************************************)
EXTENDS Naturals, Sequences, Functions

CONSTANTS
  Daemons,        \* processes that mount here, each once
  NoDaemon,       \* owner of a socket that is not there
  Failures        \* calls the system may refuse

ASSUME MountAssumption ==
  /\ NoDaemon \notin Daemons
  /\ Failures \subseteq {"listen", "remove", "unmount", "accept"}

VARIABLES
  at,         \* the step of Run of each daemon
  wait,       \* "none" in the foreground, "polling" or "stuck", then what it reported
  peer,       \* the daemon from whose socket a stuck one awaits an answer
  parent,     \* of a detached daemon: "none", "waiting", "ready" or "failed"
  mounts,     \* owners of the mounts on the mount point, the top one first
  sock,       \* the daemon whose socket has the name
  listening,  \* daemons with an open listener, reachable by the name or not
  deaf,       \* those whose Serve has returned with the listener left open
  command,    \* the unmount command: "idle", or "remove" before os.Remove
  alone,      \* history: no other daemon and no unmount of another meddled
  refused     \* history: the calls that have failed in each daemon

mainVars == <<wait, peer, parent>>
socketVars == <<sock, listening, deaf>>
history == <<alone, refused>>
vars == <<at, mainVars, mounts, socketVars, command, history>>

Starting == {"setup", "bind", "clear", "rebind"}
Up == Starting \cup {"notify", "serving"}
Stopping == {"close", "remove", "unmount", "drain"}
Returned == {"done", "failed"}
Ended == {"off", "gone"}

Mounted == Range(mounts)
Alive(d) == at[d] \notin Ended
Reachable == sock \in listening
Go(d, step) == at' = [at EXCEPT ![d] = step]

(* The system refuses d a call.                                            *)
Refuse(d, what) ==
  /\ what \in Failures
  /\ refused' = [refused EXCEPT ![d] = @ \cup {what}]

Init ==
  /\ at = [d \in Daemons |-> "off"]
  /\ wait = [d \in Daemons |-> "none"]
  /\ peer = [d \in Daemons |-> NoDaemon]
  /\ parent = [d \in Daemons |-> "none"]
  /\ mounts = <<>>
  /\ sock = NoDaemon
  /\ listening = {} /\ deaf = {}
  /\ command = "idle"
  /\ alone = [d \in Daemons |-> FALSE]
  /\ refused = [d \in Daemons |-> {}]

-----------------------------------------------------------------------------
(* mountInternal *)

(* detachSelf starts the child in a session of its own and waits for it.   *)
Start(d, detach) ==
  /\ at[d] = "off"
  /\ Go(d, "setup")
  /\ wait' = [wait EXCEPT ![d] = IF detach THEN "polling" ELSE "none"]
  /\ parent' = [parent EXCEPT ![d] = IF detach THEN "waiting" ELSE "none"]
  /\ alone' = [e \in Daemons |-> e = d /\ command = "idle" /\ \A f \in Daemons : ~Alive(f)]
  /\ UNCHANGED <<peer, mounts, socketVars, command, refused>>

(* The knobs, the capacity, the backing or fs.Mount are refused.           *)
SetupFails(d) ==
  /\ at[d] = "setup"
  /\ Go(d, "failed")
  /\ UNCHANGED <<mainVars, mounts, socketVars, command, history>>

(* A mount goes on top of what is there, but not on a dead mount.          *)
FuseMount(d) ==
  /\ at[d] = "setup"
  /\ mounts # <<>> => Alive(Head(mounts))
  /\ mounts' = <<d>> \o mounts
  /\ Go(d, "bind")
  /\ UNCHANGED <<mainVars, socketVars, command, history>>

Listening(d) == sock' = d /\ listening' = listening \cup {d} /\ UNCHANGED deaf

(* Unlinking the name: whatever has it goes, the socket of a live daemon   *)
(* as well.  The errors of all these calls are ignored.                    *)
Unlink(d) ==
  \/ sock' = NoDaemon /\ UNCHANGED refused
  \/ sock # NoDaemon /\ Refuse(d, "remove") /\ UNCHANGED sock

(* Server.Listen, first try.                                               *)
Bind(d) ==
  /\ at[d] = "bind" /\ sock = NoDaemon
  /\ Listening(d)
  /\ Go(d, "notify")
  /\ UNCHANGED <<mainVars, mounts, command, history>>

(* Mutant: a name in use is final, a stale one too.                        *)
BindInUse_NoRetry(d) ==
  /\ at[d] = "bind" /\ sock # NoDaemon
  /\ Go(d, "notify")
  /\ UNCHANGED <<mainVars, mounts, socketVars, command, history>>

BindInUse(d) ==
  /\ at[d] = "bind" /\ sock # NoDaemon
  /\ Go(d, "clear")
  /\ UNCHANGED <<mainVars, mounts, socketVars, command, history>>

(* The directory cannot be made, which is final, or the first try fails    *)
(* for another reason than a name in use.                                  *)
ListenFails(d) ==
  /\ at[d] = "bind"
  /\ Refuse(d, "listen")
  /\ Go(d, "notify") \/ Go(d, "clear")
  /\ UNCHANGED <<mainVars, mounts, socketVars, command, alone>>

ClearName(d) ==
  /\ at[d] = "clear"
  /\ Unlink(d)
  /\ Go(d, "rebind")
  /\ UNCHANGED <<mainVars, mounts, listening, deaf, command, alone>>

(* Second try.                                                             *)
Rebind(d) ==
  /\ at[d] = "rebind" /\ sock = NoDaemon
  /\ Listening(d)
  /\ Go(d, "notify")
  /\ UNCHANGED <<mainVars, mounts, command, history>>

(* It fails too; without a socket the mount is served all the same, and    *)
(* the name stays with whoever has it.                                     *)
RebindFails(d) ==
  /\ at[d] = "rebind"
  /\ \/ sock # NoDaemon /\ UNCHANGED refused
     \/ Refuse(d, "listen")
  /\ Go(d, "notify")
  /\ UNCHANGED <<mainVars, mounts, socketVars, command, alone>>

(* Server.Serve returns on any error of Accept, too many open files for    *)
(* one, and nobody closes the listener.                                    *)
ServeReturns(d) ==
  /\ "accept" \in Failures
  /\ d \in listening
  /\ deaf' = deaf \cup {d}
  /\ UNCHANGED <<at, mainVars, mounts, sock, listening, command, history>>

-----------------------------------------------------------------------------
(* Run and cleanup *)

(* signal.Notify: until here a signal kills the process.                   *)
Notify(d) ==
  /\ at[d] = "notify"
  /\ Go(d, "serving")
  /\ UNCHANGED <<mainVars, mounts, socketVars, command, history>>

Signalled(d) ==
  /\ at[d] = "serving"
  /\ Go(d, "close")
  /\ UNCHANGED <<mainVars, mounts, socketVars, command, history>>

(* Mutant: an unmount is noticed only while the socket is still there.     *)
Unmounted_OnlyIfReachable(d) ==
  /\ at[d] = "serving" /\ d \notin Mounted /\ sock = d
  /\ Go(d, "close")
  /\ UNCHANGED <<mainVars, mounts, socketVars, command, history>>

(* server.Wait returns: the mount is gone.                                 *)
Unmounted(d) ==
  /\ at[d] = "serving" /\ d \notin Mounted
  /\ Go(d, "close")
  /\ UNCHANGED <<mainVars, mounts, socketVars, command, history>>

(* Server.Close: closing a listener unlinks its name, whoever has it now.  *)
CloseListener(d) ==
  /\ at[d] = "close" /\ d \in listening
  /\ listening' = listening \ {d} /\ deaf' = deaf \ {d}
  /\ Unlink(d)
  /\ Go(d, "remove")
  /\ UNCHANGED <<mainVars, mounts, command, alone>>

RemoveSocket(d) ==
  /\ at[d] = "remove"
  /\ Unlink(d)
  /\ Go(d, "unmount")
  /\ UNCHANGED <<mainVars, mounts, listening, deaf, command, alone>>

CloseNothing(d) ==
  /\ at[d] = "close" /\ d \notin listening
  /\ Go(d, "unmount")
  /\ UNCHANGED <<mainVars, mounts, socketVars, command, history>>

(* Mutant: cleanup leaves the mount to the end of the process.             *)
Unmount_Skips(d) ==
  /\ at[d] = "unmount" /\ mounts # <<>>
  /\ Go(d, "done")
  /\ UNCHANGED <<mainVars, mounts, socketVars, command, history>>

(* fuse.Server.Unmount unmounts by name what is on top, the mount of a     *)
(* successor even, and then waits for its own; or, when it fails five      *)
(* times, fusermount3 -z does the same without waiting.                    *)
Unmount(d) ==
  /\ at[d] = "unmount" /\ mounts # <<>>
  /\ mounts' = Tail(mounts)
  /\ Go(d, "drain") \/ Go(d, "done")
  /\ UNCHANGED <<mainVars, socketVars, command, history>>

(* Both fail, and the error of the second is ignored: the mount stays.     *)
UnmountFails(d) ==
  /\ at[d] = "unmount" /\ mounts # <<>>
  /\ Refuse(d, "unmount")
  /\ Go(d, "done")
  /\ UNCHANGED <<mainVars, mounts, socketVars, command, alone>>

UnmountNothing(d) ==
  /\ at[d] = "unmount" /\ mounts = <<>>
  /\ Go(d, "done")
  /\ UNCHANGED <<mainVars, mounts, socketVars, command, history>>

Drained(d) ==
  /\ at[d] = "drain" /\ d \notin Mounted
  /\ Go(d, "done")
  /\ UNCHANGED <<mainVars, mounts, socketVars, command, history>>

-----------------------------------------------------------------------------
(* The main goroutine of a detached daemon, and its parent *)

Report(d, outcome) ==
  /\ wait[d] = "polling"
  /\ wait' = [wait EXCEPT ![d] = outcome]
  /\ UNCHANGED <<at, peer, parent, mounts, socketVars, command, history>>

RunReturned(d) == at[d] \in Returned /\ Report(d, "failed")

(* Mutant: a socket file is taken for a daemon that answers.               *)
PollReady_FileExists(d) == sock # NoDaemon /\ Report(d, "ready")

(* A status request by the socket's name is answered, by whoever serves.   *)
PollReady(d) == Reachable /\ sock \notin deaf /\ Report(d, "ready")

(* control.Send has no deadline: a request that is connected and never     *)
(* accepted keeps the main goroutine from looking at Run or at the clock.  *)
PollStuck(d) ==
  /\ wait[d] = "polling" /\ Reachable /\ sock \in deaf
  /\ wait' = [wait EXCEPT ![d] = "stuck"]
  /\ peer' = [peer EXCEPT ![d] = sock]
  /\ UNCHANGED <<at, parent, mounts, socketVars, command, history>>

(* Until that listener is closed, which resets the connection.             *)
Hangup(d) ==
  /\ wait[d] = "stuck" /\ peer[d] \notin listening
  /\ wait' = [wait EXCEPT ![d] = "polling"]
  /\ peer' = [peer EXCEPT ![d] = NoDaemon]
  /\ UNCHANGED <<at, parent, mounts, socketVars, command, history>>

(* Mutant: a status the parent does not know.                              *)
Timeout_NewStatus(d) == Report(d, "timeout")

(* Five seconds have passed when a poll has failed; a listener may have    *)
(* opened since.                                                           *)
Timeout(d) == Report(d, "failed")

(* The process ends: its listener is closed without unlinking the name and *)
(* a mount it still has is dead.                                           *)
End(d) ==
  /\ Go(d, "gone")
  /\ listening' = listening \ {d} /\ deaf' = deaf \ {d}
  /\ UNCHANGED <<mainVars, mounts, sock, command, history>>

(* main returns: after Run, or once failure is reported, wherever Run is.  *)
Exit(d) ==
  /\ Alive(d)
  /\ wait[d] = "failed" \/ (at[d] \in Returned /\ wait[d] \in {"none", "ready"})
  /\ End(d)

(* SIGKILL, a panic, or a signal before signal.Notify.                     *)
Crash(d) == Alive(d) /\ End(d)

(* Mutant: the parent keeps the writing end of the pipe open.              *)
ParentFails_NoEOF(d) ==
  /\ parent[d] = "waiting" /\ wait[d] = "failed" /\ at[d] = "gone"
  /\ parent' = [parent EXCEPT ![d] = "failed"]
  /\ UNCHANGED <<at, wait, peer, mounts, socketVars, command, history>>

(* The pipe ends without a "1" and the child is waited for.                *)
ParentFails(d) ==
  /\ parent[d] = "waiting" /\ wait[d] # "ready" /\ at[d] = "gone"
  /\ parent' = [parent EXCEPT ![d] = "failed"]
  /\ UNCHANGED <<at, wait, peer, mounts, socketVars, command, history>>

ParentReady(d) ==
  /\ parent[d] = "waiting" /\ wait[d] = "ready"
  /\ parent' = [parent EXCEPT ![d] = "ready"]
  /\ UNCHANGED <<at, wait, peer, mounts, socketVars, command, history>>

-----------------------------------------------------------------------------
(* The unmount command *)

Fusermount ==
  /\ command = "idle" /\ mounts # <<>>
  /\ mounts' = Tail(mounts)
  /\ command' = "remove"
  /\ alone' = [d \in Daemons |-> alone[d] /\ d = Head(mounts)]
  /\ UNCHANGED <<at, mainVars, socketVars, refused>>

(* The error of os.Remove is ignored here as well.                         *)
RemoveByName ==
  /\ command = "remove"
  /\ sock' = NoDaemon \/ ("remove" \in Failures /\ UNCHANGED sock)
  /\ command' = "idle"
  /\ UNCHANGED <<at, mainVars, mounts, listening, deaf, history>>

-----------------------------------------------------------------------------
RunStep(d) ==
  \/ SetupFails(d) \/ FuseMount(d)
  \/ Bind(d) \/ BindInUse(d) \/ ListenFails(d) \/ ClearName(d) \/ Rebind(d) \/ RebindFails(d)
  \/ Notify(d) \/ Unmounted(d)
  \/ CloseListener(d) \/ RemoveSocket(d) \/ CloseNothing(d)
  \/ Unmount(d) \/ UnmountFails(d) \/ UnmountNothing(d) \/ Drained(d)

MainStep(d) ==
  /\ Alive(d)
  /\ RunReturned(d) \/ PollReady(d) \/ PollStuck(d) \/ Hangup(d) \/ Timeout(d) \/ Exit(d)

ParentStep(d) == ParentFails(d) \/ ParentReady(d)

Next ==
  \/ \E d \in Daemons :
       \/ \E detach \in BOOLEAN : Start(d, detach)
       \/ RunStep(d) \/ MainStep(d) \/ ParentStep(d)
       \/ Signalled(d) \/ ServeReturns(d)
       \/ Crash(d)
  \/ Fusermount
  \/ RemoveByName

Spec == Init /\ [][Next]_vars

(* Goroutines and processes that can run do run; nobody has to start,      *)
(* signal, kill or unmount anything, and no call has to fail.              *)
FairSpec ==
  /\ Spec
  /\ \A d \in Daemons : WF_vars(RunStep(d)) /\ WF_vars(MainStep(d)) /\ WF_vars(ParentStep(d))

-----------------------------------------------------------------------------
TypeOK ==
  /\ at \in [Daemons -> Up \cup Stopping \cup Returned \cup Ended]
  /\ wait \in [Daemons -> {"none", "polling", "stuck", "ready", "failed"}]
  /\ peer \in [Daemons -> Daemons \cup {NoDaemon}]
  /\ parent \in [Daemons -> {"none", "waiting", "ready", "failed"}]
  /\ mounts \in Seq(Daemons)
  /\ sock \in Daemons \cup {NoDaemon}
  /\ listening \subseteq Daemons /\ deaf \subseteq Daemons
  /\ command \in {"idle", "remove"}
  /\ alone \in [Daemons -> BOOLEAN]
  /\ refused \in [Daemons -> SUBSET {"listen", "remove", "unmount"}]

(* What mount --detach promises when it returns: unless the daemon has     *)
(* been unmounted or has ended, it is mounted and the socket is its own,   *)
(* so add and set reach it.                                                *)
DetachedIsReachable(d) ==
  parent[d] = "ready" /\ (at[d] \in Starting \/ (at[d] \in Up /\ d \in Mounted))
    => d \in Mounted /\ sock = d /\ d \in listening

(* The promise holds, and stays true until it is stopped, for a daemon     *)
(* that nobody meddles with: also over the socket and the mounts that      *)
(* crashed daemons have left behind.                                       *)
ReadyIsReachable == \A d \in Daemons : alone[d] => DetachedIsReachable(d)

(* Without that restriction: whenever mount --detach returns, the daemon   *)
(* it has started can be reached.  Another daemon may have answered for it.*)
ReadyMeansReachable ==
  [][\A d \in Daemons : ParentReady(d) => DetachedIsReachable(d)']_vars

(* A daemon that nobody meddles with serves with the socket's name its own *)
(* and its listener open, over whatever a crashed one has left behind; it  *)
(* does without only when the system has refused it the socket or to       *)
(* unlink the stale name.  It never listens where a stale name hides it.   *)
StaleSocketReplaced ==
  \A d \in Daemons :
    alone[d] /\ at[d] = "serving" /\ d \in Mounted =>
      \/ sock = d /\ d \in listening
      \/ d \notin listening /\ refused[d] \cap {"listen", "remove"} # {}

(* Cleanup leaves no listener, no socket of its own unless unlinking it    *)
(* was refused, and no mount of its own unless unmounting was refused or   *)
(* another daemon's mount was on top.                                      *)
CleanupLeavesNothing ==
  \A d \in Daemons :
    at[d] = "done" =>
      /\ d \notin listening
      /\ "remove" \notin refused[d] => sock # d
      /\ alone[d] /\ "unmount" \notin refused[d] => d \notin Mounted

(* The main goroutine is in a request that nobody will ever answer.        *)
Hanging(d) == wait[d] = "stuck" /\ peer[d] \in deaf

(* mount --detach returns, whatever the child does or dies of, except that *)
(* the child may hang for ever in a request to a socket whose Serve has    *)
(* returned.                                                               *)
DetachIsAnswered ==
  \A d \in Daemons : (parent[d] = "waiting" ~> parent[d] # "waiting") \/ <>[]Hanging(d)

(* Without that exception: when Run returns an error before the socket is  *)
(* ready, the main goroutine reports it.                                   *)
SetupErrorIsReported ==
  \A d \in Daemons :
    at[d] = "failed" /\ wait[d] \in {"polling", "stuck"} ~> wait[d] = "failed" \/ at[d] = "gone"

(* A daemon whose mount has been taken away, by the unmount command or by  *)
(* another daemon's cleanup, does not stay: its process ends, with the     *)
(* same exception.                                                         *)
UnmountedDaemonEnds ==
  \A d \in Daemons :
    (at[d] = "serving" /\ d \notin Mounted ~> at[d] = "gone") \/ <>[]Hanging(d)
=============================================================================
