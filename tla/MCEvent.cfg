\* Three threads use one event, automatic or manual: two may sleep while the
\* third sets or resets it.
CONSTANTS
  Thread = {t1, t2, t3}
  None = None
SPECIFICATION FairSpec
INVARIANTS TypeOK MutualExclusion NoSleepWhileSet
PROPERTIES ImplementsEventSpec SleeperReturns MutexReleased
