\* From 1 January 1970 to 31 December 2107, the last day a directory entry can
\* hold, at the first and the last second of each day, before and at 06:28:16,
\* when an OFC_UINT32 wraps in 2106, and at both ends of a second.
CONSTANTS
  LastDay = 50403
  DayTimes = {0, 23295, 23296, 86399}
  Fractions = {0, 9999999}
SPECIFICATION Spec
INVARIANTS TypeOK LocalTimeIsCalendar MakeTimeInverts DosRoundTrip
CHECK_DEADLOCK FALSE
