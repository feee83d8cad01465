-------------------------------- MODULE Time --------------------------------
(***************************************************************************)
(* The calendar of src/src/time_darwin.c: file times to the date and time  *)
(* of a FAT directory entry and back.  A clock that knows the Gregorian    *)
(* calendar runs day by day; the conversions, which count with tables and  *)
(* loops of their own, are compared with it.                               *)
(*                                                                         *)
(* A number of seconds since 1970 is a pair <<days, seconds of the day>>,  *)
(* and an OFC_FILETIME a triple <<days since 1601, seconds of the day,     *)
(* hundreds of nanoseconds of the second>>.                                *)
(***************************************************************************)
EXTENDS Integers

CONSTANTS
  LastDay,     \* bound: the last day the clock reaches
  DayTimes,    \* the seconds of the day at which a day is examined
  Fractions    \* ... and the parts of a second

SecondsPerDay == 86400
DaySeconds == 0..(SecondsPerDay - 1)
TicksPerSecond == 10000000
SecondTicks == 0..(TicksPerSecond - 1)

ASSUME TimeAssumption ==
  LastDay \in Nat /\ DayTimes \subseteq DaySeconds /\ Fractions \subseteq SecondTicks

VARIABLES
  days,        \* days since 1 January 1970
  date         \* the same day as [year, mon, mday], all as people count them

vars == <<days, date>>

(* OFC_UINT32 holds 2^32 seconds, which is 49710 days and 23296 seconds: an  *)
(* operation of the type takes 2^32 away as often as it takes.               *)
InUint32(t) == t[1] >= 0 /\ (t[1] < 49710 \/ (t[1] = 49710 /\ t[2] < 23296))

Less(t, k) ==
  LET s == t[2] - 23296 * k
  IN  <<t[1] - 49710 * k + (s \div SecondsPerDay), s % SecondsPerDay>>

Wrap(t) ==
  Less(t, CHOOSE k \in 0..((t[1] + (t[2] \div SecondsPerDay)) \div 49710) : InUint32(Less(t, k)))
-----------------------------------------------------------------------------
(***************************************************************************)
(* The code.  Months count from 0 and years from 1900, as in a struct tm.  *)
(***************************************************************************)
(* Mutant: the years that are divisible by 100 are leap years.               *)
ISLEAPJulian(y) == y % 4 = 0

ISLEAP(y) == y % 4 = 0 /\ (y % 100 # 0 \/ (y + 1900) % 400 = 0)

DAYS_IN_YEAR(y) == IF ISLEAP(y) THEN 366 ELSE 365

DAYS_BEFORE_MONTH ==
  [m \in 0..11 |-> <<0, 31, 59, 90, 120, 151, 181, 212, 243, 273, 304, 334>>[m + 1]]

(* The days that the loops over the years since 1970 add or take away.       *)
YearDays[y \in Nat] == IF y <= 70 THEN 0 ELSE YearDays[y - 1] + DAYS_IN_YEAR(y - 1)

(* Mutant: February is over when the month is March or later, in every year. *)
make_time_no_leap(tm) ==
  Wrap(<<YearDays[tm.year] + (tm.mday - 1) + DAYS_BEFORE_MONTH[tm.mon],
         tm.sec + tm.min * 60 + tm.hour * 3600>>)

make_time(tm) ==
  LET leapday == IF tm.mon > 1 /\ DAYS_IN_YEAR(tm.year) = 366 THEN 1 ELSE 0
  IN  Wrap(<<YearDays[tm.year] + (tm.mday - 1) + DAYS_BEFORE_MONTH[tm.mon] + leapday,
             tm.sec + tm.min * 60 + tm.hour * 3600>>)

(* Mutant: the leap day is counted after it is over.                         *)
month_and_day_late(year, yday) ==
  LET mon == CHOOSE m \in 0..11 : /\ yday >= DAYS_BEFORE_MONTH[m]
                                  /\ m = 11 \/ yday < DAYS_BEFORE_MONTH[m + 1]
  IN  <<mon, yday - DAYS_BEFORE_MONTH[mon] + 1>>

(* The last month that begins on or before a day of a year of 365 days.      *)
MonthOf(day) ==
  CHOOSE m \in 0..11 : /\ day >= DAYS_BEFORE_MONTH[m]
                       /\ m = 11 \/ day < DAYS_BEFORE_MONTH[m + 1]

(* The leap day is not in the table: 29 February is a case of its own, and   *)
(* the days after it are counted without it.                                 *)
month_and_day(year, yday) ==
  LET leap == DAYS_IN_YEAR(year) = 366
      day  == IF leap /\ yday > DAYS_BEFORE_MONTH[2] THEN yday - 1 ELSE yday
      mon  == IF leap /\ yday = DAYS_BEFORE_MONTH[2] THEN 1 ELSE MonthOf(day)
  IN  <<mon, day - DAYS_BEFORE_MONTH[mon] + 1>>

(* The year in which the loop that takes away whole years stops.             *)
YearOf(day) ==
  CHOOSE y \in (70 + day \div 366)..(70 + day \div 365) :
    YearDays[y] <= day /\ day < YearDays[y] + DAYS_IN_YEAR(y)

local_time(t) ==
  LET year == YearOf(t[1])
      md   == month_and_day(year, t[1] - YearDays[year])
  IN  [year |-> year, mon |-> md[1], mday |-> md[2],
       hour |-> t[2] \div 3600, min |-> (t[2] % 3600) \div 60, sec |-> (t[2] % 3600) % 60]

(* ofc_time_elements_to_dos_date_time and its inverse: seven bits for the    *)
(* years since 1980, five for pairs of seconds.                              *)
elements_to_dos_date_time(mon, mday, year, hour, min, sec) ==
  [year |-> (year - 1980) % 128, mon |-> mon, mday |-> mday,
   hour |-> hour, min |-> min, sec2 |-> sec \div 2]

dos_date_time_to_elements(dos) ==
  [year |-> dos.year + 1980, mon |-> dos.mon, mday |-> dos.mday,
   hour |-> dos.hour, min |-> dos.min, sec |-> dos.sec2 * 2]

(* A file time counts from 1 January 1601, 134774 days before 1970.          *)
file_time_to_epoch_time(ft) ==
  [tv_sec |-> <<ft[1] - 134774, ft[2]>>, tv_nsec |-> ft[3] * 100]

epoch_time_to_file_time(tp) ==
  <<tp.tv_sec[1] + 134774, tp.tv_sec[2], tp.tv_nsec \div 100>>

(* Mutant: the month of a struct tm is passed on as it is.                   *)
file_time_to_dos_date_time_mon(ft) ==
  LET tm == local_time(file_time_to_epoch_time(ft).tv_sec)
  IN  elements_to_dos_date_time(tm.mon, tm.mday, tm.year + 1900, tm.hour, tm.min, tm.sec)

(* A directory entry has no room for tv_nsec, ...                            *)
file_time_to_dos_date_time(ft) ==
  LET tm == local_time(file_time_to_epoch_time(ft).tv_sec)
  IN  elements_to_dos_date_time(tm.mon + 1, tm.mday, tm.year + 1900, tm.hour, tm.min, tm.sec)

(* ... which is 0 in the file time made of one.                              *)
dos_date_time_to_file_time(dos) ==
  LET el == dos_date_time_to_elements(dos)
      tm == [el EXCEPT !.mon = @ - 1, !.year = @ - 1900]
  IN  epoch_time_to_file_time([tv_sec |-> make_time(tm), tv_nsec |-> 0])
-----------------------------------------------------------------------------
(***************************************************************************)
(* The clock.                                                              *)
(***************************************************************************)
MonthLength(year, mon) ==
  CASE mon \in {4, 6, 9, 11} -> 30
    [] mon = 2 -> IF year % 400 = 0 \/ (year % 4 = 0 /\ year % 100 # 0) THEN 29 ELSE 28
    [] OTHER -> 31

Init == days = 0 /\ date = [year |-> 1970, mon |-> 1, mday |-> 1]

NextDay ==
  /\ days < LastDay
  /\ days' = days + 1
  /\ \/ /\ date.mday < MonthLength(date.year, date.mon)
        /\ date' = [date EXCEPT !.mday = @ + 1]
     \/ /\ date.mday = MonthLength(date.year, date.mon) /\ date.mon < 12
        /\ date' = [date EXCEPT !.mon = @ + 1, !.mday = 1]
     \/ /\ date.mday = MonthLength(date.year, date.mon) /\ date.mon = 12
        /\ date' = [year |-> date.year + 1, mon |-> 1, mday |-> 1]

Spec == Init /\ [][NextDay]_vars
-----------------------------------------------------------------------------
TypeOK ==
  /\ days \in 0..LastDay
  /\ date \in [year : Nat, mon : 1..12, mday : 1..31]
  /\ \A s \in DayTimes :
       local_time(<<days, s>>) \in [year : Nat, mon : 0..11, mday : 1..31,
                                    hour : 0..23, min : 0..59, sec : 0..59]

(* ofc_time_local_time agrees with the calendar, 29 February, the days after *)
(* it and the years 2000 (a leap year) and 2100 (none) included.             *)
LocalTimeIsCalendar ==
  \A s \in DayTimes :
    LET tm == local_time(<<days, s>>)
    IN  /\ tm.year + 1900 = date.year /\ tm.mon + 1 = date.mon /\ tm.mday = date.mday
        /\ tm.hour * 3600 + tm.min * 60 + tm.sec = s

(* ofc_time_make_time undoes ofc_time_local_time modulo the 2^32 seconds of  *)
(* its OFC_UINT32: from 06:28:16 on 7 February 2106 it is early.             *)
MakeTimeInverts ==
  \A s \in DayTimes : make_time(local_time(<<days, s>>)) = Wrap(<<days, s>>)

(* A file time that goes to a directory entry and back loses its odd second  *)
(* and its part of a second, and nothing else, in all the years a directory  *)
(* entry can hold that the OFC_UINT32 can, too; the date in the entry is the *)
(* one people would write.                                                   *)
DosRoundTrip ==
  \A s \in DayTimes, f \in Fractions :
    date.year >= 1980 /\ InUint32(<<days, s>>) =>
      LET dos == file_time_to_dos_date_time(<<days + 134774, s, f>>)
      IN  /\ dos.year + 1980 = date.year /\ dos.mon = date.mon /\ dos.mday = date.mday
          /\ dos_date_time_to_file_time(dos) = <<days + 134774, s - (s % 2), 0>>
=============================================================================
