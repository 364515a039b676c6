\* Two daemons that run on, with crashes, signals and unmount commands at any
\* time; unmounting may fail and Serve may return.
SPECIFICATION FairSpec
CONSTANTS
  Daemons = {d1, d2}
  NoDaemon = NoDaemon
  Failures = {"unmount", "accept"}
PROPERTIES
  DetachIsAnswered
  UnmountedDaemonEnds
CHECK_DEADLOCK FALSE
