\* Two threads against the scheduler thread: a wait queue and an SMB overlapped,
\* whose queue and event are two facts, and a pipe of one entry. Safety and
\* liveness.
CONSTANTS
  Thread = {t1, t2}
  EventH = {}
  WaitQ = {wq}
  FsDarwin = {}
  FsSmb = {smb}
  Timer = {}
  Fd = {}
  AutoEvent = {wq, smb}
  PipeCap = 1
  MaxQueued = 1
  MaxSchedWait = 1
  TimerPeriod = 1
  None = None
SPECIFICATION FairSpec
INVARIANTS TypeOK WakeInv
PROPERTIES SleepEnds
