----------------------------- MODULE Time_proof -----------------------------
(***************************************************************************)
(* Theorems about Time: the conversions agree with the calendar on every   *)
(* day, however long the clock runs, and at every second of it.            *)
(***************************************************************************)
EXTENDS Time, WellFoundedInduction, TLAPS
-----------------------------------------------------------------------------
(* Induction over the natural numbers, for a set.                            *)
LEMMA SetInduction ==
  ASSUME NEW S \in SUBSET Nat, 0 \in S, \A n \in S : n + 1 \in S
  PROVE  S = Nat
<1> SUFFICES ASSUME Nat \ S # {} PROVE FALSE
  OBVIOUS
<1> DEFINE T == Nat \ S
           R == {ss \in Nat \X Nat : ss[1] < ss[2]}
<1>1. IsWellFoundedOn(R, Nat)
  BY NatLessThanWellFounded, Zenon DEF OpToRel
<1>2. \A m, n \in Nat : m < n => <<m, n>> \in R
  OBVIOUS
<1> HIDE DEF R
<1>3. PICK x \in T : \A y \in T : ~(<<y, x>> \in R)
  BY <1>1, WFMin
<1>4. x \in Nat \ {0} /\ x - 1 \in Nat
  OBVIOUS
<1>5. <<x - 1, x>> \in R
  BY <1>2, <1>4
<1>6. x - 1 \notin T
  BY <1>3, <1>5
<1>7. (x - 1) + 1 \in S
  BY <1>4, <1>6
<1> QED
  BY <1>4, <1>7

(* How many leap years there are before year y, counted from 1900.           *)
Leaps(y) == (y + 3) \div 4 - (y + 99) \div 100 + (y + 299) \div 400

LEMMA LeapsStep ==
  ASSUME NEW y \in Nat
  PROVE  Leaps(y + 1) = Leaps(y) + (IF ISLEAP(y) THEN 1 ELSE 0) /\ Leaps(y) \in Int
<1>1. (y + 4) \div 4 = (y + 3) \div 4 + (IF y % 4 = 0 THEN 1 ELSE 0)
  OBVIOUS
<1>2. (y + 100) \div 100 = (y + 99) \div 100 + (IF y % 100 = 0 THEN 1 ELSE 0)
  OBVIOUS
<1>3. (y + 300) \div 400 = (y + 299) \div 400 + (IF (y + 1900) % 400 = 0 THEN 1 ELSE 0)
  OBVIOUS
<1>4. y % 100 = 0 => y % 4 = 0
  OBVIOUS
<1>5. (y + 1900) % 400 = 0 => y % 100 = 0
  OBVIOUS
<1>6. (y + 1) + 3 = y + 4 /\ (y + 1) + 99 = y + 100 /\ (y + 1) + 299 = y + 300
  OBVIOUS
<1>7. (y + 3) \div 4 \in Int /\ (y + 99) \div 100 \in Int /\ (y + 299) \div 400 \in Int
  OBVIOUS
<1> QED
  BY <1>1, <1>2, <1>3, <1>4, <1>5, <1>6, <1>7 DEF Leaps, ISLEAP

(* The recursive definition of YearDays defines a function: one that counts  *)
(* the leap years satisfies its equation.                                    *)
LEMMA YearDaysEquation ==
  \A y \in Nat : YearDays[y] = IF y <= 70 THEN 0 ELSE YearDays[y - 1] + DAYS_IN_YEAR(y - 1)
<1> DEFINE Body(f) == [y \in Nat |-> IF y <= 70 THEN 0 ELSE f[y - 1] + DAYS_IN_YEAR(y - 1)]
           g == [y \in Nat |-> IF y <= 70 THEN 0 ELSE 365 * (y - 70) + (Leaps(y) - Leaps(70))]
<1>1. ASSUME NEW y \in Nat, y > 70
      PROVE  g[y] = g[y - 1] + DAYS_IN_YEAR(y - 1)
  <2>1. y - 1 \in Nat /\ (y - 1) + 1 = y
    BY <1>1
  <2>2. Leaps(y) = Leaps(y - 1) + (IF ISLEAP(y - 1) THEN 1 ELSE 0) /\ Leaps(y - 1) \in Int
    BY <2>1, LeapsStep
  <2>3. Leaps(70) \in Int
    BY LeapsStep
  <2>4. g[y] = 365 * (y - 70) + (Leaps(y) - Leaps(70))
    BY <1>1
  <2>5. g[y - 1] = 365 * ((y - 1) - 70) + (Leaps(y - 1) - Leaps(70))
    <3>1. CASE y = 71
      BY <2>1, <2>3, <3>1
    <3>2. CASE y # 71
      BY <1>1, <2>1, <3>2
    <3> QED
      BY <3>1, <3>2
  <2> HIDE DEF g
  <2> QED
    BY <1>1, <2>2, <2>3, <2>4, <2>5 DEF DAYS_IN_YEAR
<1>2. g = Body(g)
  <2>1. \A y \in Nat : g[y] = IF y <= 70 THEN 0 ELSE g[y - 1] + DAYS_IN_YEAR(y - 1)
    BY <1>1
  <2>2. g = [y \in Nat |-> g[y]]
    OBVIOUS
  <2> HIDE DEF g
  <2>3. [y \in Nat |-> g[y]] = Body(g)
    BY <2>1, Zenon
  <2> QED
    BY <2>2, <2>3
<1>3. YearDays = CHOOSE f : f = Body(f)
  BY DEF YearDays
<1> HIDE DEF g
<1>4. YearDays = Body(YearDays)
  <2> HIDE DEF Body
  <2> QED
    BY <1>2, <1>3
<1> QED
  BY <1>4

LEMMA YearDaysStep ==
  ASSUME NEW y \in Nat, y >= 70
  PROVE  YearDays[y + 1] = YearDays[y] + DAYS_IN_YEAR(y)
<1>1. y + 1 \in Nat /\ ~(y + 1 <= 70) /\ (y + 1) - 1 = y
  OBVIOUS
<1> QED
  BY <1>1, YearDaysEquation

LEMMA YearLength ==
  ASSUME NEW y
  PROVE  DAYS_IN_YEAR(y) \in {365, 366}
BY DEF DAYS_IN_YEAR

(* The loop over the years ends between these, ...                           *)
LEMMA YearDaysBounds ==
  \A n \in Nat : YearDays[70 + n] \in Nat /\ 365 * n <= YearDays[70 + n] /\ YearDays[70 + n] <= 366 * n
<1> DEFINE S == {n \in Nat : /\ YearDays[70 + n] \in Nat
                             /\ 365 * n <= YearDays[70 + n] /\ YearDays[70 + n] <= 366 * n}
<1>1. 0 \in S
  <2>1. YearDays[70] = 0
    BY YearDaysEquation
  <2> QED
    BY <2>1
<1>2. ASSUME NEW n \in S PROVE n + 1 \in S
  <2>1. 70 + n \in Nat /\ 70 + n >= 70 /\ (70 + n) + 1 = 70 + (n + 1)
    OBVIOUS
  <2>2. YearDays[70 + (n + 1)] = YearDays[70 + n] + DAYS_IN_YEAR(70 + n)
    BY <2>1, YearDaysStep
  <2>3. DAYS_IN_YEAR(70 + n) \in {365, 366}
    BY YearLength
  <2> QED
    BY <2>2, <2>3
<1>3. S = Nat
  <2> HIDE DEF S
  <2>1. S \in SUBSET Nat
    BY DEF S
  <2> QED
    BY <1>1, <1>2, <2>1, SetInduction
<1> QED
  BY <1>3

(* ... and no year begins before an earlier one has ended.                   *)
LEMMA YearDaysMonotone ==
  ASSUME NEW x \in Nat, x >= 70, NEW y \in Nat, x <= y
  PROVE  YearDays[x] <= YearDays[y]
<1>0. \A z \in Nat : z >= 70 => YearDays[z] \in Nat
  <2> TAKE z \in Nat
  <2> HAVE z >= 70
  <2>1. z - 70 \in Nat /\ 70 + (z - 70) = z
    OBVIOUS
  <2> QED
    BY <2>1, YearDaysBounds
<1> DEFINE S == {n \in Nat : YearDays[x] <= YearDays[x + n]}
<1>1. 0 \in S
  <2>1. x + 0 = x /\ YearDays[x] \in Nat
    BY <1>0
  <2> QED
    BY <2>1
<1>2. ASSUME NEW n \in S PROVE n + 1 \in S
  <2>1. x + n \in Nat /\ x + n >= 70 /\ (x + n) + 1 = x + (n + 1)
    OBVIOUS
  <2>2. YearDays[x + (n + 1)] = YearDays[x + n] + DAYS_IN_YEAR(x + n)
    BY <2>1, YearDaysStep
  <2>3. DAYS_IN_YEAR(x + n) \in {365, 366}
    BY YearLength
  <2>4. YearDays[x] \in Nat /\ YearDays[x + n] \in Nat
    BY <1>0, <2>1
  <2> QED
    BY <2>2, <2>3, <2>4
<1>3. S = Nat
  <2> HIDE DEF S
  <2>1. S \in SUBSET Nat
    BY DEF S
  <2> QED
    BY <1>1, <1>2, <2>1, SetInduction
<1>4. y - x \in S
  <2>1. y - x \in Nat
    OBVIOUS
  <2> HIDE DEF S
  <2> QED
    BY <1>3, <2>1
<1>5. x + (y - x) = y
  OBVIOUS
<1> QED
  BY <1>4, <1>5

(* The year that ofc_time_local_time finds for a day is the one it is in.    *)
LEMMA YearOfDay ==
  ASSUME NEW y \in Nat, y >= 70, NEW d \in Nat,
         YearDays[y] <= d, d < YearDays[y] + DAYS_IN_YEAR(y)
  PROVE  YearOf(d) = y
<1> DEFINE n == y - 70
<1>1. n \in Nat /\ y = 70 + n
  OBVIOUS
<1>2. 365 * n <= d
  BY <1>1, YearDaysBounds
<1>3. d < 366 * (n + 1)
  <2>1. YearDays[y + 1] = YearDays[y] + DAYS_IN_YEAR(y)
    BY YearDaysStep
  <2>2. YearDays[70 + (n + 1)] <= 366 * (n + 1) /\ YearDays[70 + (n + 1)] \in Nat
    BY <1>1, YearDaysBounds
  <2>3. y + 1 = 70 + (n + 1)
    BY <1>1
  <2> QED
    BY <1>1, <2>1, <2>2, <2>3
<1>4. d \div 366 <= n /\ n <= d \div 365 /\ d \div 366 \in Nat /\ d \div 365 \in Nat
  <2> HIDE DEF n
  <2> QED
    BY <1>1, <1>2, <1>3
<1>5. y \in (70 + d \div 366)..(70 + d \div 365)
  BY <1>1, <1>4
<1>6. ASSUME NEW u \in Nat, NEW v \in Nat, u >= 70, u < v,
             YearDays[v] <= d, d < YearDays[u] + DAYS_IN_YEAR(u)
      PROVE  FALSE
  <2>1. YearDays[u + 1] = YearDays[u] + DAYS_IN_YEAR(u)
    BY <1>6, YearDaysStep
  <2>2. u + 1 \in Nat /\ u + 1 >= 70 /\ u + 1 <= v
    BY <1>6
  <2>3. YearDays[u + 1] <= YearDays[v]
    BY <2>2, YearDaysMonotone
  <2>4. /\ u - 70 \in Nat /\ 70 + (u - 70) = u /\ v - 70 \in Nat /\ 70 + (v - 70) = v
    BY <1>6
  <2>5. YearDays[u] \in Nat /\ YearDays[v] \in Nat /\ DAYS_IN_YEAR(u) \in {365, 366}
    BY <2>4, YearDaysBounds, YearLength
  <2> QED
    BY <1>6, <2>1, <2>3, <2>5
<1>7. ASSUME NEW z \in (70 + d \div 366)..(70 + d \div 365),
             YearDays[z] <= d, d < YearDays[z] + DAYS_IN_YEAR(z)
      PROVE  z = y
  <2>1. z \in Nat /\ z >= 70
    BY <1>4
  <2> QED
    BY <1>6, <1>7, <2>1
<1> QED
  BY <1>5, <1>7 DEF YearOf
-----------------------------------------------------------------------------
(***************************************************************************)
(* The months of one year.                                                 *)
(***************************************************************************)
LEMMA Table ==
  /\ DAYS_BEFORE_MONTH[0] = 0 /\ DAYS_BEFORE_MONTH[1] = 31 /\ DAYS_BEFORE_MONTH[2] = 59
  /\ DAYS_BEFORE_MONTH[3] = 90 /\ DAYS_BEFORE_MONTH[4] = 120 /\ DAYS_BEFORE_MONTH[5] = 151
  /\ DAYS_BEFORE_MONTH[6] = 181 /\ DAYS_BEFORE_MONTH[7] = 212 /\ DAYS_BEFORE_MONTH[8] = 243
  /\ DAYS_BEFORE_MONTH[9] = 273 /\ DAYS_BEFORE_MONTH[10] = 304 /\ DAYS_BEFORE_MONTH[11] = 334
BY DEF DAYS_BEFORE_MONTH

LEMMA Months == \A m \in 0..11 : m \in {0, 1, 2, 3, 4, 5, 6, 7, 8, 9, 10, 11}
OBVIOUS

(* The table agrees with the lengths of the months in a common year.         *)
MonthDays(m) == IF m \in {3, 5, 8, 10} THEN 30 ELSE IF m = 1 THEN 28 ELSE 31

LEMMA TableSteps ==
  /\ \A m \in 0..11 : DAYS_BEFORE_MONTH[m] \in Nat
  /\ \A m \in 0..10 : DAYS_BEFORE_MONTH[m + 1] = DAYS_BEFORE_MONTH[m] + MonthDays(m)
<1>1. \A m \in 0..11 : DAYS_BEFORE_MONTH[m] \in Nat
  BY Table, Months
<1>2. \A m \in 0..10 : m \in {0, 1, 2, 3, 4, 5, 6, 7, 8, 9, 10}
  OBVIOUS
<1>3. \A m \in 0..10 : DAYS_BEFORE_MONTH[m + 1] = DAYS_BEFORE_MONTH[m] + MonthDays(m)
  BY <1>2, Table DEF MonthDays
<1> QED
  BY <1>1, <1>3

LEMMA TableMonotone ==
  ASSUME NEW m \in 0..11, NEW n \in 0..11, m < n
  PROVE  DAYS_BEFORE_MONTH[m + 1] <= DAYS_BEFORE_MONTH[n]
BY Table, Months

(* The loop over the months ends at the month the day is in.                 *)
LEMMA MonthOfDay ==
  ASSUME NEW m \in 0..11, NEW day \in Nat, DAYS_BEFORE_MONTH[m] <= day,
         m = 11 \/ day < DAYS_BEFORE_MONTH[m + 1]
  PROVE  MonthOf(day) = m
<1>1. ASSUME NEW n \in 0..11, day >= DAYS_BEFORE_MONTH[n],
             n = 11 \/ day < DAYS_BEFORE_MONTH[n + 1]
      PROVE  n = m
  <2>1. CASE n < m
    <3>1. n + 1 \in 0..11
      BY <2>1
    <3> QED
      BY <1>1, <2>1, <3>1, TableMonotone, TableSteps
  <2>2. CASE m < n
    <3>1. m + 1 \in 0..11
      BY <2>2
    <3> QED
      BY <1>1, <2>2, <3>1, TableMonotone, TableSteps
  <2> QED
    BY <2>1, <2>2
<1>2. day >= DAYS_BEFORE_MONTH[m]
  BY TableSteps
<1> QED
  BY <1>1, <1>2 DEF MonthOf

(* _ISLEAP, for years from 1900, is the rule of the Gregorian calendar.      *)
LEMMA LeapRule ==
  ASSUME NEW y \in Nat
  PROVE  ISLEAP(y) <=> (y + 1900) % 400 = 0 \/ ((y + 1900) % 4 = 0 /\ (y + 1900) % 100 # 0)
<1>1. (y + 1900) % 4 = y % 4
  OBVIOUS
<1>2. (y + 1900) % 100 = y % 100
  OBVIOUS
<1>3. (y + 1900) % 400 = 0 => y % 4 = 0
  OBVIOUS
<1> QED
  BY <1>1, <1>2, <1>3 DEF ISLEAP

(* 1 if the month m, from 0, is after a leap day of year y, from 1900.       *)
LeapDay(y, m) == IF m > 1 /\ DAYS_IN_YEAR(y) = 366 THEN 1 ELSE 0

(* The day that February, month 1, is longer in a leap year.                 *)
Longer(y, m) == IF m = 1 /\ DAYS_IN_YEAR(y) = 366 THEN 1 ELSE 0

LEMMA LengthOfMonth ==
  ASSUME NEW y \in Nat, NEW m \in 0..11
  PROVE  MonthLength(y + 1900, m + 1)
           = MonthDays(m) + Longer(y, m)
<1>1. DAYS_IN_YEAR(y) = 366 <=> ISLEAP(y)
  BY DEF DAYS_IN_YEAR
<1>2. CASE m = 1
  <2>1. MonthLength(y + 1900, 2) = IF ISLEAP(y) THEN 29 ELSE 28
    BY LeapRule DEF MonthLength
  <2> QED
    BY <1>1, <1>2, <2>1 DEF MonthDays, Longer
<1>3. CASE m # 1
  BY <1>3, Months DEF MonthLength, MonthDays, Longer
<1> QED
  BY <1>2, <1>3

(* The day of the year, from 0, of day k of a month m.                       *)
YDay(y, m, k) == DAYS_BEFORE_MONTH[m] + LeapDay(y, m) + (k - 1)

(* A day that is in month m of a common year is found there.                 *)
LEMMA CommonDay ==
  ASSUME NEW m \in 0..11, NEW k \in 1..MonthDays(m)
  PROVE  /\ MonthOf(DAYS_BEFORE_MONTH[m] + (k - 1)) = m
         /\ DAYS_BEFORE_MONTH[m] + (k - 1) \in Nat
<1>1. MonthDays(m) \in Nat /\ DAYS_BEFORE_MONTH[m] \in Nat
  BY TableSteps DEF MonthDays
<1>2. k \in Nat /\ 1 <= k /\ k <= MonthDays(m)
  BY <1>1
<1> DEFINE day == DAYS_BEFORE_MONTH[m] + (k - 1)
<1>3. day \in Nat /\ DAYS_BEFORE_MONTH[m] <= day
  BY <1>1, <1>2
<1>4. m = 11 \/ day < DAYS_BEFORE_MONTH[m + 1]
  <2>1. CASE m # 11
    <3>1. DAYS_BEFORE_MONTH[m + 1] = DAYS_BEFORE_MONTH[m] + MonthDays(m)
      BY <2>1, TableSteps
    <3> QED
      BY <1>1, <1>2, <3>1
  <2> QED
    BY <2>1
<1> HIDE DEF day
<1> QED
  BY <1>3, <1>4, MonthOfDay DEF day

(* ofc_time_local_time finds month and day of every day of a year, the leap  *)
(* day and the days after it included.                                       *)
LEMMA MonthAndDay ==
  ASSUME NEW y \in Nat, NEW m \in 0..11, NEW k \in Nat,
         1 <= k, k <= MonthLength(y + 1900, m + 1)
  PROVE  month_and_day(y, YDay(y, m, k)) = <<m, k>>
<1> DEFINE yday == YDay(y, m, k)
           leap == DAYS_IN_YEAR(y) = 366
           day  == IF leap /\ yday > DAYS_BEFORE_MONTH[2] THEN yday - 1 ELSE yday
           mon  == IF leap /\ yday = DAYS_BEFORE_MONTH[2] THEN 1 ELSE MonthOf(day)
<1>1. month_and_day(y, yday) = <<mon, day - DAYS_BEFORE_MONTH[mon] + 1>>
  BY DEF month_and_day
<1>2. DAYS_BEFORE_MONTH[m] \in Nat /\ DAYS_BEFORE_MONTH[2] = 59 /\ MonthDays(m) \in Nat
  BY Table, TableSteps DEF MonthDays
<1>3. k \in Nat /\ 1 <= k /\ k <= MonthDays(m) + Longer(y, m)
  <2>1. MonthLength(y + 1900, m + 1) = MonthDays(m) + Longer(y, m)
    BY LengthOfMonth
  <2> QED
    BY <2>1
<1>4. CASE m = 1 /\ leap /\ k = 29
  <2>1. yday = 59
    BY <1>4, Table DEF YDay, LeapDay
  <2>2. mon = 1 /\ day = 59
    BY <1>2, <1>4, <2>1
  <2>3. DAYS_BEFORE_MONTH[1] = 31
    BY Table
  <2> HIDE DEF mon, day, yday
  <2> QED
    BY <1>1, <1>4, <2>2, <2>3 DEF yday
<1>5. CASE ~(m = 1 /\ leap /\ k = 29)
  <2>1. k \in 1..MonthDays(m)
    BY <1>2, <1>3, <1>5 DEF MonthDays, Longer
  <2>2. day = DAYS_BEFORE_MONTH[m] + (k - 1) /\ ~(leap /\ yday = DAYS_BEFORE_MONTH[2])
    <3>1. CASE m <= 1
      <4>1. yday = DAYS_BEFORE_MONTH[m] + (k - 1)
        BY <1>2, <1>3, <3>1 DEF YDay, LeapDay
      <4>2. yday < 59
        BY <2>1, <3>1, <4>1, Table DEF MonthDays
      <4> HIDE DEF yday
      <4> QED
        BY <1>2, <1>3, <4>1, <4>2
    <3>2. CASE m > 1 /\ leap
      <4>1. yday = DAYS_BEFORE_MONTH[m] + 1 + (k - 1)
        BY <3>2 DEF YDay, LeapDay
      <4>2. DAYS_BEFORE_MONTH[m] >= 59
        BY <3>2, Table, Months
      <4> HIDE DEF yday
      <4> QED
        BY <1>2, <1>3, <3>2, <4>1, <4>2
    <3>3. CASE m > 1 /\ ~leap
      BY <1>2, <1>3, <3>3 DEF YDay, LeapDay
    <3> QED
      BY <3>1, <3>2, <3>3
  <2>3. mon = m
    BY <2>1, <2>2, CommonDay
  <2> HIDE DEF mon, day, yday
  <2>4. day - DAYS_BEFORE_MONTH[mon] + 1 = k
    BY <1>2, <1>3, <2>2, <2>3
  <2> QED
    BY <1>1, <2>3, <2>4 DEF yday
<1> QED
  BY <1>4, <1>5
-----------------------------------------------------------------------------
(***************************************************************************)
(* The clock.                                                              *)
(***************************************************************************)
(* The clock counts the days as ofc_time_make_time does.                     *)
ClockInv ==
  /\ days \in 0..LastDay
  /\ date \in [year : Nat, mon : 1..12, mday : 1..31]
  /\ date.year >= 1970
  /\ date.mday <= MonthLength(date.year, date.mon)
  /\ days = YearDays[date.year - 1900] + YDay(date.year - 1900, date.mon - 1, date.mday)

LEMMA ClockStep ==
  ASSUME ClockInv, [NextDay]_vars
  PROVE  ClockInv'
<1> DEFINE y == date.year - 1900
           m == date.mon - 1
           k == date.mday
           len == MonthLength(date.year, date.mon)
<1>0. LastDay \in Nat
  BY TimeAssumption
<1>1. /\ y \in Nat /\ y >= 70 /\ date.year = y + 1900 /\ m \in 0..11 /\ date.mon = m + 1
      /\ k \in 1..31 /\ k <= len
      /\ days = YearDays[y] + YDay(y, m, k) /\ days \in Nat
  <2>1. date.year \in Nat /\ date.mon \in 1..12 /\ k \in 1..31 /\ date.year >= 1970
    BY DEF ClockInv
  <2>2. k <= len /\ days = YearDays[y] + YDay(y, m, k)
    BY DEF ClockInv
  <2>3. days \in Nat
    BY <1>0 DEF ClockInv
  <2>4. y \in Nat /\ y >= 70 /\ date.year = y + 1900 /\ m \in 0..11 /\ date.mon = m + 1
    BY <2>1
  <2> QED
    BY <2>1, <2>2, <2>3, <2>4
<1>2. len = MonthDays(m) + Longer(y, m)
  BY <1>1, LengthOfMonth
<1>3. /\ DAYS_BEFORE_MONTH[m] \in Nat /\ LeapDay(y, m) \in {0, 1} /\ YearDays[y] \in Nat
      /\ MonthDays(m) \in {28, 30, 31} /\ len \in 28..31
  <2>1. y - 70 \in Nat /\ 70 + (y - 70) = y
    BY <1>1
  <2> QED
    BY <1>1, <1>2, <2>1, TableSteps, YearDaysBounds DEF LeapDay, MonthDays, Longer
<1>8. ASSUME NextDay
      PROVE  days' = days + 1 /\ days' \in 0..LastDay
  BY <1>0, <1>1, <1>8 DEF NextDay
<1>9. date = [year |-> date.year, mon |-> date.mon, mday |-> k]
  BY DEF ClockInv
<1>4. CASE UNCHANGED vars
  BY <1>4 DEF ClockInv, vars
<1>5. ASSUME NextDay, k < len, date' = [date EXCEPT !.mday = @ + 1]
      PROVE  ClockInv'
  <2>0. date' = [year |-> date.year, mon |-> date.mon, mday |-> k + 1]
    BY <1>5, <1>9
  <2>1. /\ days' = days + 1 /\ days' \in 0..LastDay
        /\ date'.year = date.year /\ date'.mon = date.mon /\ date'.mday = k + 1
    BY <1>5, <1>8, <2>0
  <2>2. date' \in [year : Nat, mon : 1..12, mday : 1..31] /\ date'.mday <= len
    <3>1. date.year \in Nat /\ date.mon \in 1..12
      BY <1>1
    <3>2. k + 1 \in 1..31 /\ k + 1 <= len
      <4> HIDE DEF k, len
      <4> QED
        BY <1>1, <1>3, <1>5
    <3> QED
      BY <2>0, <3>1, <3>2
  <2>3. YDay(y, m, k + 1) = YDay(y, m, k) + 1 /\ YDay(y, m, k) \in Int
    BY <1>1, <1>3 DEF YDay
  <2> HIDE DEF y, m, k
  <2>4. days' = YearDays[y] + YDay(y, m, k + 1)
    BY <1>1, <1>3, <2>1, <2>3
  <2> QED
    BY <1>1, <2>1, <2>2, <2>4 DEF ClockInv, y, m
<1>6. ASSUME NextDay, k = len, date.mon < 12, date' = [date EXCEPT !.mon = @ + 1, !.mday = 1]
      PROVE  ClockInv'
  <2>0. date' = [year |-> date.year, mon |-> date.mon + 1, mday |-> 1]
    BY <1>6, <1>9
  <2>1. /\ days' = days + 1 /\ days' \in 0..LastDay
        /\ date'.year = date.year /\ date'.mon = date.mon + 1 /\ date'.mday = 1
    BY <1>6, <1>8, <2>0
  <2>2. m + 1 \in 0..11 /\ m \in 0..10 /\ date'.mon = (m + 1) + 1
    BY <1>1, <1>6, <2>1
  <2>3. 1 <= MonthLength(date.year, date.mon + 1)
    <3>1. MonthDays(m + 1) \in {28, 30, 31}
      BY DEF MonthDays
    <3>2. MonthLength(y + 1900, (m + 1) + 1)
            = MonthDays(m + 1) + Longer(y, m + 1)
      <4> HIDE DEF y, m
      <4> QED
        BY <1>1, <2>2, LengthOfMonth
    <3>3. 1 <= MonthLength(y + 1900, (m + 1) + 1)
      BY <3>1, <3>2 DEF Longer
    <3>4. date.year = y + 1900 /\ date.mon + 1 = (m + 1) + 1
      BY <1>1
    <3> QED
      BY <3>3, <3>4
  <2>4. date' \in [year : Nat, mon : 1..12, mday : 1..31]
    <3>1. date.year \in Nat /\ date.mon + 1 \in 1..12
      BY <1>1, <1>6
    <3> QED
      BY <2>0, <3>1
  <2>5. YDay(y, m + 1, 1) = YDay(y, m, len) + 1 /\ YDay(y, m, k) \in Int
    <3>1. DAYS_BEFORE_MONTH[m + 1] = DAYS_BEFORE_MONTH[m] + MonthDays(m)
      BY <2>2, TableSteps
    <3>2. LeapDay(y, m + 1) = LeapDay(y, m) + Longer(y, m)
      BY <2>2 DEF LeapDay, Longer
    <3>3. Longer(y, m) \in {0, 1}
      BY DEF Longer
    <3> HIDE DEF y, m, len, k
    <3> QED
      BY <1>1, <1>2, <1>3, <3>1, <3>2, <3>3 DEF YDay
  <2> HIDE DEF y, m, k, len
  <2>6. days' = YearDays[y] + YDay(y, m + 1, 1)
    BY <1>1, <1>3, <1>6, <2>1, <2>5
  <2>7. date'.year - 1900 = y /\ date'.mon - 1 = m + 1
    BY <2>1, <2>2 DEF y, m
  <2> QED
    BY <1>1, <2>1, <2>3, <2>4, <2>6, <2>7 DEF ClockInv
<1>7. ASSUME NextDay, k = len, date.mon = 12,
             date' = [year |-> date.year + 1, mon |-> 1, mday |-> 1]
      PROVE  ClockInv'
  <2>1. /\ days' = days + 1 /\ days' \in 0..LastDay
        /\ date'.year = date.year + 1 /\ date'.mon = 1 /\ date'.mday = 1
    BY <1>7, <1>8
  <2>2. 1 <= MonthLength(date'.year, 1)
    BY DEF MonthLength
  <2>3. YDay(y, m, k) = DAYS_IN_YEAR(y) - 1
    <3>1. m = 11 /\ k = 31
      BY <1>2, <1>7 DEF MonthDays, Longer
    <3> HIDE DEF y, m, k
    <3> QED
      BY <3>1, Table DEF YDay, LeapDay, DAYS_IN_YEAR
  <2>4. YDay(y + 1, 0, 1) = 0
    BY Table DEF YDay, LeapDay
  <2>5. YearDays[y + 1] = YearDays[y] + DAYS_IN_YEAR(y)
    BY <1>1, YearDaysStep
  <2>6. DAYS_IN_YEAR(y) \in {365, 366}
    BY YearLength
  <2> HIDE DEF y, m, k, len
  <2>7. days' = YearDays[y + 1] + YDay(y + 1, 0, 1)
    BY <1>1, <1>3, <2>1, <2>3, <2>4, <2>5, <2>6
  <2>8. date'.year - 1900 = y + 1 /\ date'.mon - 1 = 0 /\ date'.year >= 1970
    BY <1>1, <2>1 DEF y
  <2>9. date' \in [year : Nat, mon : 1..12, mday : 1..31]
    BY <1>1, <1>7
  <2> QED
    BY <2>1, <2>2, <2>7, <2>8, <2>9 DEF ClockInv
<1> QED
  BY <1>4, <1>5, <1>6, <1>7 DEF NextDay

(* The date of the clock is always the day it has counted to, and the number *)
(* of that day is what ofc_time_make_time adds up for the date.              *)
THEOREM ClockInvariant == Spec => []ClockInv
<1>1. Init => ClockInv
  <2> SUFFICES ASSUME Init PROVE ClockInv
    OBVIOUS
  <2>1. days = 0 /\ date = [year |-> 1970, mon |-> 1, mday |-> 1]
    BY DEF Init
  <2>2. days \in 0..LastDay
    BY <2>1, TimeAssumption
  <2>3. /\ date \in [year : Nat, mon : 1..12, mday : 1..31] /\ date.year >= 1970
        /\ date.year - 1900 = 70 /\ date.mon - 1 = 0 /\ date.mday = 1
    BY <2>1
  <2>4. date.mday <= MonthLength(date.year, date.mon)
    BY <2>1 DEF MonthLength
  <2>5. YearDays[70] = 0
    BY YearDaysEquation
  <2>6. YDay(70, 0, 1) = 0
    BY Table DEF YDay, LeapDay
  <2> QED
    BY <2>1, <2>2, <2>3, <2>4, <2>5, <2>6 DEF ClockInv
<1>2. ClockInv /\ [NextDay]_vars => ClockInv'
  BY ClockStep
<1> QED
  BY <1>1, <1>2, PTL DEF Spec
-----------------------------------------------------------------------------
(***************************************************************************)
(* The conversions on a day of the clock.                                  *)
(***************************************************************************)
(* What the invariant says of the date as a struct tm.                       *)
LEMMA ClockDate ==
  ASSUME ClockInv
  PROVE  /\ date.year - 1900 \in Nat /\ date.year - 1900 >= 70
         /\ date.year \in Nat /\ date.mon \in 1..12 /\ date.mday \in 1..31
         /\ date.mon - 1 \in 0..11 /\ days \in Nat
         /\ date.mday <= MonthLength((date.year - 1900) + 1900, (date.mon - 1) + 1)
         /\ YearDays[date.year - 1900] \in Nat
         /\ days = YearDays[date.year - 1900] + YDay(date.year - 1900, date.mon - 1, date.mday)
<1>1. date.year \in Nat /\ date.mon \in 1..12 /\ date.mday \in 1..31 /\ date.year >= 1970
  BY DEF ClockInv
<1>2. /\ date.year - 1900 \in Nat /\ date.year - 1900 >= 70 /\ date.mon - 1 \in 0..11
      /\ (date.year - 1900) + 1900 = date.year /\ (date.mon - 1) + 1 = date.mon
      /\ (date.year - 1900) - 70 \in Nat /\ 70 + ((date.year - 1900) - 70) = date.year - 1900
  BY <1>1
<1>3. YearDays[date.year - 1900] \in Nat
  BY <1>2, YearDaysBounds
<1>4. LastDay \in Nat
  BY TimeAssumption
<1>5. days \in Nat
  BY <1>4 DEF ClockInv
<1>6. date.mday <= MonthLength((date.year - 1900) + 1900, (date.mon - 1) + 1)
  BY <1>2 DEF ClockInv
<1> QED
  BY <1>1, <1>2, <1>3, <1>5, <1>6 DEF ClockInv

(* A day of a month is a day of the year it is in.                           *)
LEMMA YDayInYear ==
  ASSUME NEW y \in Nat, NEW m \in 0..11, NEW k \in Nat,
         1 <= k, k <= MonthLength(y + 1900, m + 1)
  PROVE  YDay(y, m, k) \in Nat /\ YDay(y, m, k) < DAYS_IN_YEAR(y)
<1>1. MonthLength(y + 1900, m + 1) = MonthDays(m) + Longer(y, m)
  BY LengthOfMonth
<1>2. DAYS_BEFORE_MONTH[m] \in Nat /\ MonthDays(m) \in {28, 30, 31} /\ LeapDay(y, m) \in {0, 1}
  BY TableSteps DEF MonthDays, LeapDay
<1>3. YDay(y, m, k) \in Nat
  BY <1>2 DEF YDay
<1>4. DAYS_BEFORE_MONTH[m] + MonthDays(m) <= 365
  BY Table, Months DEF MonthDays
<1>5. LeapDay(y, m) + Longer(y, m) <= DAYS_IN_YEAR(y) - 365
  BY YearLength DEF LeapDay, Longer
<1>6. DAYS_IN_YEAR(y) \in {365, 366}
  BY YearLength
<1>7. Longer(y, m) \in {0, 1}
  BY DEF Longer
<1> QED
  BY <1>1, <1>2, <1>3, <1>4, <1>5, <1>6, <1>7 DEF YDay

(* The bound of the range is kept out of sight: the provers would list it.   *)
LEMMA InDay == \A s : s \in DaySeconds <=> s \in Nat /\ s < 86400
<1>1. SecondsPerDay = 86400
  BY DEF SecondsPerDay
<1>2. \A s : s \in DaySeconds <=> s \in Nat /\ s < SecondsPerDay
  <2>1. SecondsPerDay \in Nat
    BY <1>1
  <2> QED
    BY <2>1 DEF DaySeconds
<1> QED
  BY <1>1, <1>2

LEMMA ExaminedSeconds == \A s \in DayTimes : s \in DaySeconds
BY TimeAssumption

(* Hours, minutes and seconds make up the second of the day.                 *)
LEMMA SecondOfDay ==
  ASSUME NEW s \in DaySeconds
  PROVE  /\ s \div 3600 \in 0..23 /\ (s % 3600) \div 60 \in 0..59 /\ (s % 3600) % 60 \in 0..59
         /\ (s \div 3600) * 3600 + ((s % 3600) \div 60) * 60 + ((s % 3600) % 60) = s
<1> DEFINE r == s % 3600
<1>1. s \in Nat /\ s < 86400
  BY InDay
<1>2. r \in 0..3599 /\ s \div 3600 \in 0..23 /\ (s \div 3600) * 3600 + r = s
  BY <1>1
<1> HIDE DEF r
<1>3. r \in Nat /\ r < 3600
  BY <1>2
<1>4. r \div 60 \in 0..59 /\ r % 60 \in 0..59 /\ (r \div 60) * 60 + (r % 60) = r
  BY <1>3
<1> QED
  BY <1>1, <1>2, <1>3, <1>4 DEF r

(* ofc_time_local_time, on every day and at every second of it.              *)
LEMMA LocalTime ==
  ASSUME ClockInv, NEW s \in DaySeconds
  PROVE  local_time(<<days, s>>) =
           [year |-> date.year - 1900, mon |-> date.mon - 1, mday |-> date.mday,
            hour |-> s \div 3600, min |-> (s % 3600) \div 60, sec |-> (s % 3600) % 60]
<1> DEFINE y == date.year - 1900
           m == date.mon - 1
           k == date.mday
           year == YearOf(days)
           md == month_and_day(year, days - YearDays[year])
<1>1. local_time(<<days, s>>) =
        [year |-> year, mon |-> md[1], mday |-> md[2],
         hour |-> s \div 3600, min |-> (s % 3600) \div 60, sec |-> (s % 3600) % 60]
  BY DEF local_time
<1>2. /\ y \in Nat /\ y >= 70 /\ m \in 0..11 /\ k \in Nat /\ 1 <= k
      /\ k <= MonthLength(y + 1900, m + 1)
      /\ days \in Nat /\ YearDays[y] \in Nat /\ days = YearDays[y] + YDay(y, m, k)
  BY ClockDate
<1> HIDE DEF y, m, k
<1>3. YDay(y, m, k) \in Nat /\ YDay(y, m, k) < DAYS_IN_YEAR(y)
  BY <1>2, YDayInYear
<1>4. /\ YearDays[y] <= days /\ days < YearDays[y] + DAYS_IN_YEAR(y)
      /\ days - YearDays[y] = YDay(y, m, k)
  <2>1. DAYS_IN_YEAR(y) \in {365, 366}
    BY YearLength
  <2> QED
    BY <1>2, <1>3, <2>1
<1>5. year = y
  BY <1>2, <1>4, YearOfDay
<1> HIDE DEF year
<1>6. md = <<m, k>>
  BY <1>2, <1>4, <1>5, MonthAndDay
<1> HIDE DEF md
<1>7. md[1] = m /\ md[2] = k
  BY <1>6
<1> QED
  BY <1>1, <1>5, <1>7 DEF y, m, k

(* ofc_time_make_time, on the date of the clock.                             *)
LEMMA MakeTime ==
  ASSUME ClockInv, NEW h \in Nat, NEW mi \in Nat, NEW se \in Nat
  PROVE  make_time([year |-> date.year - 1900, mon |-> date.mon - 1, mday |-> date.mday,
                    hour |-> h, min |-> mi, sec |-> se])
           = Wrap(<<days, h * 3600 + mi * 60 + se>>)
<1> DEFINE y == date.year - 1900
           m == date.mon - 1
           k == date.mday
           tm == [year |-> y, mon |-> m, mday |-> k, hour |-> h, min |-> mi, sec |-> se]
<1>1. make_time(tm) = Wrap(<<YearDays[y] + (k - 1) + DAYS_BEFORE_MONTH[m] + LeapDay(y, m),
                             se + mi * 60 + h * 3600>>)
  BY DEF make_time, LeapDay
<1>2. /\ m \in 0..11 /\ k \in Nat /\ YearDays[y] \in Nat
      /\ days = YearDays[y] + YDay(y, m, k)
  BY ClockDate
<1> HIDE DEF y, m, k
<1>3. DAYS_BEFORE_MONTH[m] \in Nat /\ LeapDay(y, m) \in {0, 1}
  BY <1>2, TableSteps DEF LeapDay
<1>4. YearDays[y] + (k - 1) + DAYS_BEFORE_MONTH[m] + LeapDay(y, m) = days
  BY <1>2, <1>3 DEF YDay
<1>5. se + mi * 60 + h * 3600 = h * 3600 + mi * 60 + se
  OBVIOUS
<1> QED
  BY <1>1, <1>4, <1>5 DEF y, m, k
-----------------------------------------------------------------------------
(* ofc_time_local_time returns a struct tm whose fields are in their ranges, *)
(* and the calendar does, too.                                               *)
THEOREM TypeCorrect == Spec => []TypeOK
<1>1. ClockInv => TypeOK
  <2> SUFFICES ASSUME ClockInv PROVE TypeOK
    OBVIOUS
  <2>1. ASSUME NEW s \in DaySeconds
        PROVE  local_time(<<days, s>>) \in [year : Nat, mon : 0..11, mday : 1..31,
                                            hour : 0..23, min : 0..59, sec : 0..59]
    <3>2. date.year - 1900 \in Nat /\ date.mon - 1 \in 0..11 /\ date.mday \in 1..31
      BY ClockDate
    <3>3. s \div 3600 \in 0..23 /\ (s % 3600) \div 60 \in 0..59 /\ (s % 3600) % 60 \in 0..59
      BY SecondOfDay
    <3>4. local_time(<<days, s>>) =
            [year |-> date.year - 1900, mon |-> date.mon - 1, mday |-> date.mday,
             hour |-> s \div 3600, min |-> (s % 3600) \div 60, sec |-> (s % 3600) % 60]
      BY LocalTime
    <3> QED
      BY <3>2, <3>3, <3>4
  <2>2. days \in 0..LastDay /\ date \in [year : Nat, mon : 1..12, mday : 1..31]
    BY DEF ClockInv
  <2> QED
    BY <2>1, <2>2, ExaminedSeconds, Zenon DEF TypeOK
<1> QED
  BY <1>1, ClockInvariant, PTL

(* On every day since 1970 ofc_time_local_time agrees with the calendar, for *)
(* any number of days and any seconds of the day.                            *)
THEOREM LocalTimeAgrees == Spec => []LocalTimeIsCalendar
<1>1. ClockInv => LocalTimeIsCalendar
  <2> SUFFICES ASSUME ClockInv, NEW s \in DaySeconds
               PROVE  LET tm == local_time(<<days, s>>)
                      IN  /\ tm.year + 1900 = date.year /\ tm.mon + 1 = date.mon
                          /\ tm.mday = date.mday
                          /\ tm.hour * 3600 + tm.min * 60 + tm.sec = s
    BY ExaminedSeconds DEF LocalTimeIsCalendar
  <2> DEFINE tm == local_time(<<days, s>>)
  <2>2. tm = [year |-> date.year - 1900, mon |-> date.mon - 1, mday |-> date.mday,
              hour |-> s \div 3600, min |-> (s % 3600) \div 60, sec |-> (s % 3600) % 60]
    BY LocalTime
  <2> HIDE DEF tm
  <2>3. /\ tm.year = date.year - 1900 /\ tm.mon = date.mon - 1 /\ tm.mday = date.mday
        /\ tm.hour = s \div 3600 /\ tm.min = (s % 3600) \div 60 /\ tm.sec = (s % 3600) % 60
    BY <2>2
  <2>4. tm.year + 1900 = date.year /\ tm.mon + 1 = date.mon
    <3>1. date.year \in Nat /\ date.mon \in 1..12
      BY ClockDate
    <3> QED
      BY <2>3, <3>1
  <2>5. tm.hour * 3600 + tm.min * 60 + tm.sec = s
    BY <2>3, SecondOfDay
  <2> QED
    BY <2>3, <2>4, <2>5 DEF tm
<1> QED
  BY <1>1, ClockInvariant, PTL

(* ofc_time_make_time undoes ofc_time_local_time, but for the 2^32 seconds   *)
(* that its OFC_UINT32 does not hold.                                        *)
THEOREM MakeTimeUndoesLocalTime == Spec => []MakeTimeInverts
<1>1. ClockInv => MakeTimeInverts
  <2> SUFFICES ASSUME ClockInv, NEW s \in DaySeconds
               PROVE  make_time(local_time(<<days, s>>)) = Wrap(<<days, s>>)
    BY ExaminedSeconds DEF MakeTimeInverts
  <2> DEFINE h  == s \div 3600
             mi == (s % 3600) \div 60
             se == (s % 3600) % 60
  <2>2. local_time(<<days, s>>) =
          [year |-> date.year - 1900, mon |-> date.mon - 1, mday |-> date.mday,
           hour |-> h, min |-> mi, sec |-> se]
    BY LocalTime
  <2>3. h \in 0..23 /\ mi \in 0..59 /\ se \in 0..59 /\ h * 3600 + mi * 60 + se = s
    BY SecondOfDay
  <2> HIDE DEF h, mi, se
  <2>4. h \in Nat /\ mi \in Nat /\ se \in Nat
    BY <2>3
  <2>5. make_time([year |-> date.year - 1900, mon |-> date.mon - 1, mday |-> date.mday,
                   hour |-> h, min |-> mi, sec |-> se])
          = Wrap(<<days, h * 3600 + mi * 60 + se>>)
    BY <2>4, MakeTime
  <2> QED
    BY <2>2, <2>3, <2>5
<1> QED
  BY <1>1, ClockInvariant, PTL

(* Taking away 2^32 seconds k times leaves a time of day.                    *)
LEMMA LessIsMinus ==
  ASSUME NEW d \in Nat, NEW s \in Nat, NEW k \in Nat
  PROVE  LET w == Less(<<d, s>>, k)
         IN  /\ w[1] \in Int /\ w[2] \in DaySeconds
             /\ w[1] * 86400 + w[2] + k * 4294967296 = d * 86400 + s
<1> DEFINE rest == s - 23296 * k
<1>1. Less(<<d, s>>, k) = <<d - 49710 * k + (rest \div 86400), rest % 86400>>
  BY DEF Less, SecondsPerDay
<1>2. rest \in Int /\ rest + 23296 * k = s
  OBVIOUS
<1> HIDE DEF rest
<1>3. /\ rest \div 86400 \in Int /\ rest % 86400 \in Nat /\ rest % 86400 < 86400
      /\ (rest \div 86400) * 86400 + (rest % 86400) = rest
  BY <1>2
<1> DEFINE q == rest \div 86400
           m == rest % 86400
<1>4. q \in Int /\ m \in Nat /\ m < 86400 /\ q * 86400 + m = rest
  BY <1>3
<1> HIDE DEF q, m
<1>5. (d - 49710 * k + q) * 86400 + m + k * 4294967296 = d * 86400 + s
  BY <1>2, <1>4
<1>6. d - 49710 * k + q \in Int /\ m \in DaySeconds
  BY <1>4, InDay
<1> QED
  BY <1>1, <1>5, <1>6 DEF q, m

(* Wrap is the remainder modulo 2^32: what it returns fits an OFC_UINT32 and *)
(* differs from the time by a number of times 2^32 seconds.                  *)
THEOREM WrapIsModulo ==
  ASSUME NEW d \in Nat, NEW s \in DaySeconds
  PROVE  LET w == Wrap(<<d, s>>)
         IN  /\ InUint32(w) /\ w[1] \in Nat /\ w[2] \in DaySeconds
             /\ \E k \in Nat : w[1] * 86400 + w[2] + k * 4294967296 = d * 86400 + s
<1>1. s \in Nat /\ s < 86400 /\ s \div 86400 = 0 /\ d + 0 = d
  <2>1. s \in Nat /\ s < 86400
    BY InDay
  <2> QED
    BY <2>1
<1> DEFINE t == <<d, s>>
           last == (t[1] + (t[2] \div SecondsPerDay)) \div 49710
           Fits(k) == InUint32(Less(t, k))
<1>2. /\ t[1] = d /\ t[2] = s /\ t[1] + (t[2] \div SecondsPerDay) = d
      /\ t = <<d, s>>
  BY <1>1 DEF SecondsPerDay
<1> HIDE DEF t
<1>3. Wrap(t) = Less(t, CHOOSE k \in 0..last : Fits(k))
  BY DEF Wrap
<1>4. \E k \in 0..last : Fits(k)
  <2> DEFINE n == d * 86400 + s
             k == n \div 4294967296
             w == Less(<<d, s>>, k)
  <2>1. n \in Nat /\ n < d * 86400 + 86400 /\ n = d * 86400 + s
    BY <1>1
  <2> HIDE DEF n
  <2>2. k \in Nat /\ k * 4294967296 <= n /\ n < k * 4294967296 + 4294967296
    BY <2>1
  <2> HIDE DEF k
  <2>3. 49710 * k <= d
    BY <2>1, <2>2
  <2>4. k \in 0..last
    <3>1. last \in Nat /\ d < 49710 * last + 49710
      <4>1. last = d \div 49710
        BY <1>2
      <4> HIDE DEF last
      <4> QED
        BY <4>1
    <3> HIDE DEF last
    <3> QED
      BY <2>2, <2>3, <3>1
  <2>5. /\ w[1] \in Int /\ w[2] \in Nat /\ w[2] < 86400
        /\ w[1] * 86400 + w[2] + k * 4294967296 = n
    BY <1>1, <2>1, <2>2, LessIsMinus, InDay
  <2> HIDE DEF w
  <2>6. w[1] >= 0 /\ (w[1] < 49710 \/ (w[1] = 49710 /\ w[2] < 23296))
    BY <2>1, <2>2, <2>5
  <2>7. Fits(k)
    BY <1>2, <2>6 DEF InUint32, w
  <2> QED
    BY <2>4, <2>7
<1>5. PICK k \in 0..last : Wrap(t) = Less(t, k) /\ Fits(k)
  <2> HIDE DEF last, Fits
  <2> QED
    BY <1>4, <1>3
<1>6. k \in Nat
  OBVIOUS
<1> DEFINE w == Less(<<d, s>>, k)
<1>7. /\ w[1] \in Int /\ w[2] \in DaySeconds
      /\ w[1] * 86400 + w[2] + k * 4294967296 = d * 86400 + s
  <2>1. s \in Nat
    BY <1>1
  <2> HIDE DEF last, Fits, w
  <2>2. w = Less(<<d, s>>, k)
    BY DEF w
  <2> QED
    BY <1>6, <2>1, <2>2, LessIsMinus
<1>8. InUint32(w)
  BY <1>2, <1>5
<1> HIDE DEF w
<1>9. w[1] \in Nat
  BY <1>7, <1>8 DEF InUint32
<1> QED
  BY <1>2, <1>5, <1>6, <1>7, <1>8, <1>9 DEF w

(* A time that fits an OFC_UINT32 is unchanged.                              *)
LEMMA WrapFits ==
  ASSUME NEW d \in Nat, NEW s \in DaySeconds, InUint32(<<d, s>>)
  PROVE  Wrap(<<d, s>>) = <<d, s>>
<1> DEFINE w == Wrap(<<d, s>>)
<1>1. PICK k \in Nat : /\ InUint32(w) /\ w[1] \in Nat /\ w[2] \in DaySeconds
                       /\ w[1] * 86400 + w[2] + k * 4294967296 = d * 86400 + s
  BY WrapIsModulo
<1>2. w = <<w[1], w[2]>>
  BY DEF Wrap, Less
<1> HIDE DEF w
<1>3. w[2] \in Nat /\ w[2] < 86400 /\ s \in Nat /\ s < 86400
  BY <1>1, InDay
<1>4. /\ w[1] < 49710 \/ (w[1] = 49710 /\ w[2] < 23296)
      /\ d < 49710 \/ (d = 49710 /\ s < 23296)
  BY <1>1 DEF InUint32
<1>5. d * 86400 + s < 4294967296
  BY <1>3, <1>4
<1>6. k = 0
  BY <1>1, <1>3, <1>5
<1>7. w[1] * 86400 + w[2] = d * 86400 + s
  BY <1>1, <1>3, <1>6
<1> DEFINE wd == w[1]
           ws == w[2]
<1>8. /\ wd \in Nat /\ ws \in Nat /\ ws < 86400 /\ d \in Nat /\ s \in Nat /\ s < 86400
      /\ wd * 86400 + ws = d * 86400 + s
  BY <1>1, <1>3, <1>7
<1>9. w = <<wd, ws>>
  BY <1>2
<1> HIDE DEF wd, ws
<1>10. ~(wd < d) /\ ~(d < wd)
  BY <1>8
<1>11. wd = d
  BY <1>8, <1>10
<1>12. ws = s
  BY <1>8, <1>11
<1> QED
  BY <1>9, <1>11, <1>12 DEF w

(* A file time survives the way into a directory entry and back, but for its *)
(* odd second and its part of a second, from 1980 to the end of the          *)
(* OFC_UINT32, and the entry holds the date of the calendar.                 *)
THEOREM DosTimeSurvives == Spec => []DosRoundTrip
<1>1. ClockInv => DosRoundTrip
  <2> SUFFICES ASSUME ClockInv, NEW s \in DaySeconds, NEW f \in Fractions,
                      date.year >= 1980, InUint32(<<days, s>>)
               PROVE  LET dos == file_time_to_dos_date_time(<<days + 134774, s, f>>)
                      IN  /\ dos.year + 1980 = date.year /\ dos.mon = date.mon
                          /\ dos.mday = date.mday
                          /\ dos_date_time_to_file_time(dos)
                               = <<days + 134774, s - (s % 2), 0>>
    BY ExaminedSeconds DEF DosRoundTrip
  <2> DEFINE h   == s \div 3600
             mi  == (s % 3600) \div 60
             se  == (s % 3600) % 60
             y   == date.year - 1900
             m   == date.mon - 1
             tm  == local_time(<<days, s>>)
             ft  == <<days + 134774, s, f>>
             dos == file_time_to_dos_date_time(ft)
  <2>2. tm = [year |-> y, mon |-> m, mday |-> date.mday, hour |-> h, min |-> mi, sec |-> se]
    BY LocalTime
  <2>3. h \in 0..23 /\ mi \in 0..59 /\ se \in 0..59 /\ h * 3600 + mi * 60 + se = s
    BY SecondOfDay
  <2>4. h \in Nat /\ mi \in Nat /\ se \in Nat /\ (se \div 2) * 2 \in Nat
    BY <2>3
  <2>5. /\ date.year \in Nat /\ date.mon \in 1..12 /\ y + 1900 = date.year /\ m + 1 = date.mon
        /\ days \in Nat
    BY ClockDate
  <2>6. date.year - 1980 \in 0..127
    <3>1. y \in Nat /\ y >= 70 /\ m \in 0..11 /\ date.mday \in Nat /\ 1 <= date.mday
          /\ date.mday <= MonthLength(y + 1900, m + 1)
          /\ YearDays[y] \in Nat /\ days = YearDays[y] + YDay(y, m, date.mday)
      BY ClockDate
    <3> HIDE DEF y, m
    <3>2. YDay(y, m, date.mday) \in Nat
      BY <3>1, YDayInYear
    <3>7. days <= 49710
      BY <2>5 DEF InUint32
    <3>3. YearDays[y] <= 49710
      BY <2>5, <3>1, <3>2, <3>7
    <3>4. y - 70 \in Nat /\ 70 + (y - 70) = y
      BY <3>1
    <3>5. 365 * (y - 70) <= YearDays[y]
      BY <3>4, YearDaysBounds
    <3>6. y <= 206
      BY <3>1, <3>3, <3>5
    <3> QED
      BY <2>5, <3>1, <3>6
  <2>7. (date.year - 1980) % 128 = date.year - 1980
    BY <2>6
  <2>8. dos = [year |-> date.year - 1980, mon |-> date.mon, mday |-> date.mday,
               hour |-> h, min |-> mi, sec2 |-> se \div 2]
    <3>4. file_time_to_epoch_time(ft).tv_sec = <<days, s>>
      <4>1. (days + 134774) - 134774 = days
        BY <2>5
      <4> QED
        BY <4>1 DEF file_time_to_epoch_time
    <3>1. dos = elements_to_dos_date_time(tm.mon + 1, tm.mday, tm.year + 1900,
                                          tm.hour, tm.min, tm.sec)
      <4> HIDE DEF ft
      <4> QED
        BY <3>4 DEF file_time_to_dos_date_time
    <3> HIDE DEF tm, dos, h, mi, se, y, m
    <3>2. /\ tm.mon + 1 = date.mon /\ tm.mday = date.mday /\ tm.year + 1900 = date.year
          /\ tm.hour = h /\ tm.min = mi /\ tm.sec = se
      BY <2>2, <2>5
    <3> QED
      BY <2>7, <3>1, <3>2 DEF elements_to_dos_date_time
  <2> HIDE DEF dos, tm, ft
  <2> DEFINE tm2 == [year |-> y, mon |-> m, mday |-> date.mday,
                     hour |-> h, min |-> mi, sec |-> (se \div 2) * 2]
  <2>9. dos_date_time_to_file_time(dos)
          = epoch_time_to_file_time([tv_sec |-> make_time(tm2), tv_nsec |-> 0])
    <3> DEFINE el == dos_date_time_to_elements(dos)
    <3>1. el = [year |-> (date.year - 1980) + 1980, mon |-> date.mon, mday |-> date.mday,
                hour |-> h, min |-> mi, sec |-> (se \div 2) * 2]
      <4> HIDE DEF h, mi, se, y, m
      <4> QED
        BY <2>8 DEF dos_date_time_to_elements
    <3>2. ((date.year - 1980) + 1980) - 1900 = y
      BY <2>5
    <3>3. dos_date_time_to_file_time(dos)
            = epoch_time_to_file_time([tv_sec |-> make_time([el EXCEPT !.mon = @ - 1, !.year = @ - 1900]),
                                       tv_nsec |-> 0])
      BY DEF dos_date_time_to_file_time
    <3> HIDE DEF el
    <3>4. [el EXCEPT !.mon = @ - 1, !.year = @ - 1900] =
            [year |-> y, mon |-> m, mday |-> date.mday,
             hour |-> h, min |-> mi, sec |-> (se \div 2) * 2]
      <4> HIDE DEF h, mi, se, y, m
      <4> DEFINE yy == (date.year - 1980) + 1980
                 half == (se \div 2) * 2
      <4> HIDE DEF yy, half
      <4>1. date.mon - 1 = m /\ yy - 1900 = y
        BY <3>2 DEF m, yy
      <4>2. el = [year |-> yy, mon |-> date.mon, mday |-> date.mday,
                  hour |-> h, min |-> mi, sec |-> half]
        BY <3>1 DEF yy, half
      <4>3. [el EXCEPT !.mon = @ - 1, !.year = @ - 1900] =
              [year |-> yy - 1900, mon |-> date.mon - 1, mday |-> date.mday,
               hour |-> h, min |-> mi, sec |-> half]
        <5> DEFINE p == [el EXCEPT !.mon = @ - 1]
                   q == [el EXCEPT !.mon = @ - 1, !.year = @ - 1900]
        <5>1. q = [p EXCEPT !.year = @ - 1900]
          OBVIOUS
        <5>2. p = [el EXCEPT !.mon = @ - 1]
          OBVIOUS
        <5> HIDE DEF p, q
        <5>3. p = [year |-> yy, mon |-> date.mon - 1, mday |-> date.mday,
                   hour |-> h, min |-> mi, sec |-> half]
          BY <4>2, <5>2
        <5>4. q = [year |-> yy - 1900, mon |-> date.mon - 1, mday |-> date.mday,
                   hour |-> h, min |-> mi, sec |-> half]
          BY <5>1, <5>3
        <5> QED
          BY <5>4 DEF q
      <4> QED
        BY <4>1, <4>3 DEF half
    <3> QED
      BY <3>3, <3>4
  <2>10. make_time(tm2) = Wrap(<<days, h * 3600 + mi * 60 + (se \div 2) * 2>>)
    BY <2>4, MakeTime
  <2>11. h * 3600 + mi * 60 + (se \div 2) * 2 = s - (s % 2)
    <3> HIDE DEF h, mi, se
    <3>1. s \in Nat
      BY InDay
    <3> QED
      BY <2>3, <2>4, <3>1
  <2>12. s - (s % 2) \in DaySeconds
    <3>1. s \in Nat /\ s < 86400
      BY InDay
    <3>2. s - (s % 2) \in Nat /\ s - (s % 2) < 86400
      BY <3>1
    <3> QED
      BY <3>2, InDay
  <2>13. Wrap(<<days, s - (s % 2)>>) = <<days, s - (s % 2)>>
    <3>1. InUint32(<<days, s - (s % 2)>>)
      <4>1. s - (s % 2) <= s
        <5>1. s \in Nat
          BY InDay
        <5> QED
          BY <5>1
      <4>2. s - (s % 2) \in Nat /\ s \in Nat
        BY <2>12, InDay
      <4> DEFINE even == s - (s % 2)
      <4> HIDE DEF even
      <4>3. even \in Nat /\ even <= s
        BY <4>1, <4>2 DEF even
      <4>4. InUint32(<<days, even>>)
        BY <2>5, <4>2, <4>3 DEF InUint32
      <4> QED
        BY <4>4 DEF even
    <3> QED
      BY <2>5, <2>12, <3>1, WrapFits
  <2>14. dos.year + 1980 = date.year /\ dos.mon = date.mon /\ dos.mday = date.mday
    <3> HIDE DEF h, mi, se
    <3> QED
      BY <2>5, <2>8
  <2>15. dos_date_time_to_file_time(dos) = <<days + 134774, s - (s % 2), 0>>
    <3> DEFINE even == s - (s % 2)
    <3>1. make_time(tm2) = <<days, even>>
      <4> HIDE DEF h, mi, se, y, m, tm2
      <4> QED
        BY <2>10, <2>11, <2>13
    <3> HIDE DEF tm2, even
    <3>2. epoch_time_to_file_time([tv_sec |-> <<days, even>>, tv_nsec |-> 0])
            = <<days + 134774, even, 0>>
      <4>1. 0 \div 100 = 0
        OBVIOUS
      <4> QED
        BY <4>1 DEF epoch_time_to_file_time
    <3> QED
      BY <2>9, <3>1, <3>2 DEF even
  <2> QED
    BY <2>14, <2>15 DEF dos, ft
<1> QED
  BY <1>1, ClockInvariant, PTL
=============================================================================
