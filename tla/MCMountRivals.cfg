\* The promise of mount --detach with two daemons on one mount point.
SPECIFICATION Spec
CONSTANTS
  Daemons = {d1, d2}
  NoDaemon = NoDaemon
  Failures = {}
PROPERTIES
  ReadyMeansReachable
CHECK_DEADLOCK FALSE
