\* One thread against the scheduler thread and the other kinds of handle: an
\* automatic event, a Darwin overlapped, whose event the wait set never resets,
\* a timer, a socket and a pipe of one entry.
CONSTANTS
  Thread = {t1}
  EventH = {ev}
  WaitQ = {}
  FsDarwin = {fsd}
  FsSmb = {}
  Timer = {tm}
  Fd = {so}
  AutoEvent = {ev}
  PipeCap = 1
  MaxQueued = 0
  MaxSchedWait = 2
  TimerPeriod = 1
  None = None
SPECIFICATION TimedSpec
INVARIANTS NoLostWakeup
PROPERTIES TimerServed
