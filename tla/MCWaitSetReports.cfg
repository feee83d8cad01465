\* Two threads set and reset an automatic event and arm two timers: what a wait
\* may report, how often and how early.
CONSTANTS
  Thread = {t1, t2}
  EventH = {ev}
  WaitQ = {}
  FsDarwin = {}
  FsSmb = {}
  Timer = {tm1, tm2}
  Fd = {}
  AutoEvent = {ev}
  PipeCap = 2
  MaxQueued = 0
  MaxSchedWait = 3
  TimerPeriod = 2
  None = None
SYMMETRY TimerSymmetry
SPECIFICATION HSpec
INVARIANTS ReportedWasReady TimerNotEarly
PROPERTIES OneSetOneReport
