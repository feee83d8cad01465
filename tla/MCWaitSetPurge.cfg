\* A wake that arrives before the purge at the top of a wait.
CONSTANTS
  Thread = {t1}
  EventH = {ev}
  WaitQ = {}
  FsDarwin = {}
  FsSmb = {}
  Timer = {}
  Fd = {}
  AutoEvent = {ev}
  PipeCap = 1
  MaxQueued = 0
  MaxSchedWait = 1
  TimerPeriod = 1
  None = None
SPECIFICATION HSpec
INVARIANTS PurgedWakeSeen
