\* Two threads start a daemon each; signals, failing forks.
CONSTANTS
  Caller = {p1, p2}
SPECIFICATION FairSpec
INVARIANTS TypeOK HandleMeansSpawned
PROPERTIES BlockedCallerIsTold ExecReturns
CHECK_DEADLOCK FALSE
