\* A SIGTERM that arrives in waitpid.
CONSTANTS
  Caller = {p1}
SPECIFICATION Spec
INVARIANTS ParentGetsStatus
CHECK_DEADLOCK FALSE
