\* Two daemons, crashes, signals and unmount commands at any time, and every
\* call that may fail.
SPECIFICATION Spec
CONSTANTS
  Daemons = {d1, d2}
  NoDaemon = NoDaemon
  Failures = {"listen", "remove", "unmount", "accept"}
INVARIANTS
  TypeOK
  ReadyIsReachable
  StaleSocketReplaced
  CleanupLeavesNothing
CHECK_DEADLOCK FALSE
