---------------------------- MODULE DeviceProofs -----------------------------
(***************************************************************************)
(* The two devices of the storage stack: RtcClock proved for every stretch *)
(* of dates, every kind of clock and any number of calls, and NvmeQueue    *)
(* for every size of the rings, every number of command identifiers and    *)
(* any number of commands.                                                 *)
(***************************************************************************)
EXTENDS NvmeQueue, RtcClock, SequenceTheorems, TLAPS

-----------------------------------------------------------------------------
(* The clock.                                                              *)

\* Division with remainder, of negative numbers too.
LEMMA DivModInt ==
  ASSUME NEW a \in Int, NEW n \in Nat \ {0}
  PROVE  /\ a \div n \in Int /\ a % n \in 0 .. n - 1
         /\ a = n * (a \div n) + (a % n)
  BY Z3T(30)

\* Multiples keep their order.
LEMMA TimesOrder ==
  ASSUME NEW n \in Nat \ {0}, NEW a \in Int, NEW b \in Int, a < b
  PROVE  n * a + n <= n * b /\ n * a \in Int /\ n * b \in Int
<1>1. n * (a + 1) <= n * b
  BY Z3T(30)
<1>2. n * (a + 1) = n * a + n
  BY Z3T(30)
<1> QED BY <1>1, <1>2

\* The quotient grows by one when a multiple is reached.
LEMMA DivStep ==
  ASSUME NEW x \in Nat, NEW n \in {4, 100, 400}
  PROVE  (x + 1) \div n = x \div n + (IF (x + 1) % n = 0 THEN 1 ELSE 0) /\ x \div n \in Int
<1>1. CASE n = 4
  BY <1>1
<1>2. CASE n = 100
  BY <1>2
<1>3. CASE n = 400
  BY <1>3
<1> QED BY <1>1, <1>2, <1>3

\* 4800 years change nothing about leap years.
LEMMA LeapShift ==
  ASSUME NEW y \in Nat, NEW n \in {4, 100, 400}
  PROVE  (y + 4800) % n = y % n
<1>1. CASE n = 4
  BY <1>1
<1>2. CASE n = 100
  BY <1>2
<1>3. CASE n = 400
  BY <1>3
<1> QED BY <1>1, <1>2, <1>3

\* Days before a month, from March on, and of the years before.
MonthDays(am) == (153 * am + 2) \div 5
YearDays(ay) == 365 * ay + ay \div 4 - ay \div 100 + ay \div 400
\* The years before January and before March of a year.
EarlyDays(y) == YearDays(y + 4799)
LateDays(y) == YearDays(y + 4800)

\* The formula of the code as a sum of the days before the year, those before
\* the month, and those of the month.
LEMMA JulianDayIs ==
  ASSUME NEW y \in Nat, NEW m \in 1 .. 12, NEW d \in Nat
  PROVE  /\ m <= 2 => JulianDay(y, m, d) = d + MonthDays(m + 9) + EarlyDays(y) - 32045
         /\ m > 2 => JulianDay(y, m, d) = d + MonthDays(m - 3) + LateDays(y) - 32045
<1>1. m <= 2 => (14 - m) \div 12 = 1
  OBVIOUS
<1>2. m > 2 => (14 - m) \div 12 = 0
  OBVIOUS
<1>3. y + 4800 - 1 = y + 4799 /\ m + 12 * 1 - 3 = m + 9 /\ y + 4800 - 0 = y + 4800 /\ m + 12 * 0 - 3 = m - 3
  OBVIOUS
<1>4. CASE m <= 2
  BY <1>1, <1>3, <1>4 DEF JulianDay, MonthDays, YearDays, EarlyDays, LateDays
<1>5. CASE m > 2
  BY <1>2, <1>3, <1>5 DEF JulianDay, MonthDays, YearDays, EarlyDays, LateDays
<1> QED BY <1>4, <1>5

\* Days from the first of March to the first of each month.
LEMMA Months ==
  /\ MonthDays(0) = 0 /\ MonthDays(1) = 31 /\ MonthDays(2) = 61 /\ MonthDays(3) = 92
  /\ MonthDays(4) = 122 /\ MonthDays(5) = 153 /\ MonthDays(6) = 184 /\ MonthDays(7) = 214
  /\ MonthDays(8) = 245 /\ MonthDays(9) = 275 /\ MonthDays(10) = 306 /\ MonthDays(11) = 337
  BY DEF MonthDays

\* The days counted for a year before March and since: they differ by its length.
LEMMA YearStep ==
  ASSUME NEW y \in Nat
  PROVE  /\ LateDays(y) = EarlyDays(y) + (IF Leap(y) THEN 366 ELSE 365)
         /\ EarlyDays(y) \in Int /\ LateDays(y) \in Int
<1> DEFINE x == y + 4799
<1>1. x \in Nat /\ x + 1 = y + 4800
  OBVIOUS
<1>2. \A n \in {4, 100, 400} : (x + 1) \div n = x \div n + (IF y % n = 0 THEN 1 ELSE 0) /\ x \div n \in Int
  <2> SUFFICES ASSUME NEW n \in {4, 100, 400}
               PROVE  (x + 1) \div n = x \div n + (IF y % n = 0 THEN 1 ELSE 0) /\ x \div n \in Int
    OBVIOUS
  <2>1. (x + 1) % n = y % n
    BY LeapShift, <1>1
  <2> HIDE DEF x
  <2>2. (x + 1) \div n = x \div n + (IF (x + 1) % n = 0 THEN 1 ELSE 0) /\ x \div n \in Int
    BY <1>1, DivStep
  <2> QED BY <2>1, <2>2
<1>3. y % 400 = 0 => y % 100 = 0
  OBVIOUS
<1>4. y % 100 = 0 => y % 4 = 0
  OBVIOUS
<1> HIDE DEF x
<1>5. YearDays(x + 1) = YearDays(x) + (IF Leap(y) THEN 366 ELSE 365) /\ YearDays(x) \in Int /\ YearDays(x + 1) \in Int
  <2>1. /\ (x + 1) \div 4 = x \div 4 + (IF y % 4 = 0 THEN 1 ELSE 0) /\ x \div 4 \in Int
        /\ (x + 1) \div 100 = x \div 100 + (IF y % 100 = 0 THEN 1 ELSE 0) /\ x \div 100 \in Int
        /\ (x + 1) \div 400 = x \div 400 + (IF y % 400 = 0 THEN 1 ELSE 0) /\ x \div 400 \in Int
    BY <1>2
  <2> QED BY <1>1, <1>3, <1>4, <2>1 DEF YearDays, Leap
<1> QED BY <1>1, <1>5 DEF x, EarlyDays, LateDays

\* How long a month may be.
LEMMA DaysInFacts ==
  ASSUME NEW y \in Nat, NEW m \in 1 .. 12
  PROVE  DaysIn(y, m) \in 28 .. 31
  BY DEF DaysIn

\* The formula, with what is known of its parts.
LEMMA JulianDayForm ==
  ASSUME NEW y \in Nat, NEW m \in 1 .. 12
  PROVE  \E b \in Int : \A d \in Nat : JulianDay(y, m, d) = d + b
<1>1. MonthDays(m + 9) \in Int /\ MonthDays(m - 3) \in Int
  BY DEF MonthDays
<1>2. EarlyDays(y) \in Int /\ LateDays(y) \in Int
  BY YearStep
<1>3. CASE m <= 2
  <2> DEFINE b == MonthDays(m + 9) + EarlyDays(y) - 32045
  <2>1. b \in Int
    BY <1>1, <1>2
  <2>2. ASSUME NEW d \in Nat PROVE JulianDay(y, m, d) = d + b
    <3>1. JulianDay(y, m, d) = d + MonthDays(m + 9) + EarlyDays(y) - 32045
      BY <1>3, JulianDayIs
    <3> QED BY <1>1, <1>2, <3>1
  <2> HIDE DEF b
  <2> QED BY <2>1, <2>2
<1>4. CASE m > 2
  <2> DEFINE b == MonthDays(m - 3) + LateDays(y) - 32045
  <2>1. b \in Int
    BY <1>1, <1>2
  <2>2. ASSUME NEW d \in Nat PROVE JulianDay(y, m, d) = d + b
    <3>1. JulianDay(y, m, d) = d + MonthDays(m - 3) + LateDays(y) - 32045
      BY <1>4, JulianDayIs
    <3> QED BY <1>1, <1>2, <3>1
  <2> HIDE DEF b
  <2> QED BY <2>1, <2>2
<1> QED BY <1>3, <1>4

\* The last day of a month comes before the first of the next.
LEMMA MonthStep ==
  ASSUME NEW y \in Nat, NEW m \in 1 .. 11
  PROVE  JulianDay(y, m + 1, 1) = JulianDay(y, m, DaysIn(y, m)) + 1
<1> DEFINE d == DaysIn(y, m)
<1>1. d \in 28 .. 31 /\ d \in Nat /\ m + 1 \in 1 .. 12 /\ m \in 1 .. 12
  BY DaysInFacts
<1>2. /\ LateDays(y) = EarlyDays(y) + (IF Leap(y) THEN 366 ELSE 365)
      /\ EarlyDays(y) \in Int /\ LateDays(y) \in Int
  BY YearStep
<1>3. CASE m = 1
  <2>1. d = 31 /\ m + 9 = 10 /\ (m + 1) + 9 = 11
    BY <1>3 DEF DaysIn
  <2> HIDE DEF d
  <2>2. JulianDay(y, m, d) = d + MonthDays(m + 9) + EarlyDays(y) - 32045
    BY <1>1, <1>3, JulianDayIs
  <2>3. JulianDay(y, m + 1, 1) = 1 + MonthDays((m + 1) + 9) + EarlyDays(y) - 32045
    BY <1>1, <1>3, JulianDayIs
  <2> QED BY <1>2, <2>1, <2>2, <2>3, Months DEF d
<1>4. CASE m = 2
  <2>1. d = (IF Leap(y) THEN 29 ELSE 28) /\ m + 9 = 11 /\ (m + 1) - 3 = 0
    BY <1>4 DEF DaysIn
  <2> HIDE DEF d
  <2>2. JulianDay(y, m, d) = d + MonthDays(m + 9) + EarlyDays(y) - 32045
    BY <1>1, <1>4, JulianDayIs
  <2>3. JulianDay(y, m + 1, 1) = 1 + MonthDays((m + 1) - 3) + LateDays(y) - 32045
    BY <1>1, <1>4, JulianDayIs
  <2> QED BY <1>2, <2>1, <2>2, <2>3, Months DEF d
<1>5. CASE m > 2
  <2>1. MonthDays((m + 1) - 3) = MonthDays(m - 3) + d /\ MonthDays(m - 3) \in Int
    <3>1. m \in {3, 4, 5, 6, 7, 8, 9, 10, 11}
      BY <1>5
    <3> QED BY <3>1 DEF DaysIn, MonthDays
  <2> HIDE DEF d
  <2>2. JulianDay(y, m, d) = d + MonthDays(m - 3) + LateDays(y) - 32045
    BY <1>1, <1>5, JulianDayIs
  <2>3. JulianDay(y, m + 1, 1) = 1 + MonthDays((m + 1) - 3) + LateDays(y) - 32045
    BY <1>1, <1>5, JulianDayIs
  <2> QED BY <1>1, <1>2, <2>1, <2>2, <2>3 DEF d
<1> QED BY <1>3, <1>4, <1>5

\* New Year's Eve comes before New Year.
LEMMA NewYear ==
  ASSUME NEW y \in Nat
  PROVE  JulianDay(y + 1, 1, 1) = JulianDay(y, 12, 31) + 1
<1>1. LateDays(y) \in Int
  BY YearStep
<1>2. JulianDay(y, 12, 31) = 31 + MonthDays(12 - 3) + LateDays(y) - 32045
  BY JulianDayIs
<1>3. JulianDay(y + 1, 1, 1) = 1 + MonthDays(1 + 9) + EarlyDays(y + 1) - 32045
  <2>1. y + 1 \in Nat
    OBVIOUS
  <2> QED BY <2>1, JulianDayIs
<1>4. EarlyDays(y + 1) = LateDays(y) /\ 12 - 3 = 9 /\ 1 + 9 = 10
  <2>1. (y + 1) + 4799 = y + 4800
    OBVIOUS
  <2> QED BY <2>1 DEF EarlyDays, LateDays
<1> QED BY <1>1, <1>2, <1>3, <1>4, Months

\* The formula counts days: the Julian day of the next date is the next one.
LEMMA JulianDayCounts ==
  ASSUME NEW y \in Nat, NEW m \in 1 .. 12, NEW d \in 1 .. DaysIn(y, m), NEW n,
         n = NextDay([y |-> y, m |-> m, d |-> d])
  PROVE  /\ n \in Date /\ n.d <= DaysIn(n.y, n.m) /\ n.y \in y .. y + 1
         /\ JulianDay(n.y, n.m, n.d) = JulianDay(y, m, d) + 1 /\ JulianDay(y, m, d) \in Int
<1>1. DaysIn(y, m) \in 28 .. 31 /\ d \in Nat /\ d \in 1 .. 31
  BY DaysInFacts
<1>2. JulianDay(y, m, d) \in Int /\ JulianDay(y, m, d + 1) = JulianDay(y, m, d) + 1
  <2>1. PICK b \in Int : \A e \in Nat : JulianDay(y, m, e) = e + b
    BY JulianDayForm
  <2>2. JulianDay(y, m, d) = d + b /\ JulianDay(y, m, d + 1) = (d + 1) + b
    BY <1>1, <2>1
  <2> QED BY <1>1, <2>2
<1>3. CASE d < DaysIn(y, m)
  <2>1. n = [y |-> y, m |-> m, d |-> d + 1]
    BY <1>3 DEF NextDay
  <2> QED BY <1>1, <1>2, <1>3, <2>1 DEF Date
<1>4. CASE d = DaysIn(y, m) /\ m < 12
  <2>1. n = [y |-> y, m |-> m + 1, d |-> 1]
    BY <1>1, <1>4 DEF NextDay
  <2>2. JulianDay(y, m + 1, 1) = JulianDay(y, m, d) + 1
    BY <1>4, MonthStep
  <2>3. 1 <= DaysIn(y, m + 1)
    BY <1>4, DaysInFacts
  <2> QED BY <1>2, <1>4, <2>1, <2>2, <2>3 DEF Date
<1>5. CASE d = DaysIn(y, m) /\ m = 12
  <2>1. n = [y |-> y + 1, m |-> 1, d |-> 1]
    BY <1>5 DEF NextDay
  <2>2. JulianDay(y + 1, 1, 1) = JulianDay(y, 12, 31) + 1
    BY NewYear
  <2>3. 1 <= DaysIn(y + 1, 1) /\ d = 31
    BY <1>5 DEF DaysIn
  <2> QED BY <1>2, <1>5, <2>1, <2>2, <2>3 DEF Date
<1> QED BY <1>1, <1>3, <1>4, <1>5

\* The length of a day, where its value is of no interest.
LEMMA DayFacts == Day \in Nat /\ Day > 100
  BY SMT DEF Day

USE DayFacts

\* Whole days in seconds.
LEMMA DaysInt ==
  ASSUME NEW q \in Int
  PROVE  q * Day \in Int /\ Day * q \in Int /\ q * Day = Day * q
  BY SMT DEF Day

\* Seconds later, the index is as many more, across midnight too.
LEMMA IndexStep ==
  ASSUME NEW j \in Int, NEW b \in Int, NEW s \in Int, NEW f \in Int, NEW n \in Int
  PROVE  /\ (j - b) * Day + s - f \in Int
         /\ (j - b) * Day + (s + n) - f = ((j - b) * Day + s - f) + n
         /\ ((j + 1) - b) * Day + (s + n - Day) - f = ((j - b) * Day + s - f) + n
  BY SMT DEF Day

\* The clock some seconds later is at a moment that many seconds later.
LEMMA LaterFacts ==
  ASSUME NEW c, IsMoment(c), NEW n \in 0 .. Day - 1, RtcTypeOK
  PROVE  /\ IsMoment(Later(c, n)) /\ Index(Later(c, n)) = Index(c) + n
         /\ Later(c, n).date.y \in c.date.y .. c.date.y + 1 /\ Index(c) \in Int
<1> DEFINE d == c.date
           s == c.secs
           e == NextDay(d)
           base == first.start.jdn
<1>1. /\ d \in Date /\ d.y \in Nat /\ d.m \in 1 .. 12 /\ d.d \in 1 .. DaysIn(d.y, d.m) /\ d.d \in Nat
      /\ s \in 0 .. Day - 1 /\ c = [date |-> d, secs |-> s] /\ d = [y |-> d.y, m |-> d.m, d |-> d.d]
  <2>1. d \in Date /\ s \in 0 .. Day - 1 /\ c = [date |-> d, secs |-> s] /\ d.d <= DaysIn(d.y, d.m)
    BY DEF IsMoment
  <2>2. d.y \in Nat /\ d.m \in 1 .. 12 /\ d.d \in 1 .. 31 /\ d = [y |-> d.y, m |-> d.m, d |-> d.d]
    BY <2>1 DEF Date
  <2>3. DaysIn(d.y, d.m) \in 28 .. 31
    BY <2>2, DaysInFacts
  <2> QED BY <2>1, <2>2, <2>3
<1>2. /\ e \in Date /\ e.d <= DaysIn(e.y, e.m) /\ e.y \in d.y .. d.y + 1
      /\ JulianDay(e.y, e.m, e.d) = JulianDay(d.y, d.m, d.d) + 1 /\ JulianDay(d.y, d.m, d.d) \in Int
  <2> HIDE DEF d
  <2>1. e = NextDay([y |-> d.y, m |-> d.m, d |-> d.d])
    BY <1>1
  <2> HIDE DEF e
  <2> QED BY <1>1, <2>1, JulianDayCounts
<1>3. base \in Int /\ first.secs \in Int
  <2>1. first.start \in Starts /\ first.secs \in Times
    BY DEF RtcTypeOK
  <2>2. /\ first.start.y \in Nat /\ first.start.m \in 1 .. 12 /\ first.start.d \in 1 .. DaysIn(first.start.y, first.start.m)
        /\ base = JulianDay(first.start.y, first.start.m, first.start.d)
    BY <2>1, StartsAssumption
  <2>3. JulianDay(first.start.y, first.start.m, first.start.d) \in Int
    BY <2>2, JulianDayCounts
  <2> QED BY <2>1, <2>2, <2>3, RtcAssumption, 0 .. Day - 1 \subseteq Int
<1>4. c.date = d /\ c.secs = s
  OBVIOUS
<1> DEFINE J == JulianDay(d.y, d.m, d.d)
           f == first.secs
<1> HIDE DEF d, s, e, base, J, f
<1>0. J \in Int /\ base \in Int /\ f \in Int /\ s \in Int /\ n \in Int
  BY <1>1, <1>2, <1>3 DEF J, f
<1>5. Index(c) = (J - base) * Day + s - f /\ Index(c) \in Int
  <2>1. Index(c) = (J - base) * Day + s - f
    BY <1>4 DEF Index, base, J, f, d, s
  <2> QED BY <1>0, <2>1, IndexStep
<1>6. CASE s + n < Day
  <2>1. Later(c, n) = [date |-> d, secs |-> s + n]
    BY <1>4, <1>6 DEF Later
  <2>2. IsMoment(Later(c, n))
    BY <1>1, <1>6, <2>1 DEF IsMoment
  <2>3. Index(Later(c, n)) = (J - base) * Day + (s + n) - f
    BY <2>1 DEF Index, base, J, f
  <2>4. Index(Later(c, n)) = Index(c) + n
    BY <1>0, <1>5, <2>3, IndexStep
  <2>5. Later(c, n).date.y \in c.date.y .. c.date.y + 1
    BY <1>1, <1>2, <1>4, <2>1
  <2> QED BY <1>5, <2>2, <2>4, <2>5
<1>7. CASE ~(s + n < Day)
  <2>1. Later(c, n) = [date |-> e, secs |-> s + n - Day]
    BY <1>4, <1>7 DEF Later, e
  <2>2. IsMoment(Later(c, n))
    BY <1>1, <1>2, <1>7, <2>1 DEF IsMoment
  <2>3. Index(Later(c, n)) = ((J + 1) - base) * Day + (s + n - Day) - f
    BY <1>2, <2>1 DEF Index, base, J, f
  <2>4. Index(Later(c, n)) = Index(c) + n
    BY <1>0, <1>5, <2>3, IndexStep
  <2>5. Later(c, n).date.y \in c.date.y .. c.date.y + 1
    BY <1>1, <1>2, <1>4, <2>1
  <2> QED BY <1>5, <2>2, <2>4, <2>5
<1> QED BY <1>6, <1>7

\* A second after n seconds it is n + 1 seconds later.
LEMMA LaterAgain ==
  ASSUME NEW c, IsMoment(c), NEW n \in 0 .. 59
  PROVE  Later(Later(c, n), 1) = Later(c, n + 1)
<1>1. c.secs \in 0 .. Day - 1
  BY DEF IsMoment
<1>2. CASE c.secs + n < Day
  <2>1. Later(c, n) = [date |-> c.date, secs |-> c.secs + n]
    BY <1>2 DEF Later
  <2>2. (c.secs + n) + 1 = c.secs + (n + 1)
    BY <1>1
  <2> DEFINE l == Later(c, n)
  <2>3. l.date = c.date /\ l.secs \in Int /\ l.secs + 1 = c.secs + (n + 1)
    BY <1>1, <2>1, <2>2
  <2> HIDE DEF l
  <2>4. Later(l, 1) = Later(c, n + 1)
    <3>1. CASE c.secs + (n + 1) < Day
      BY <2>3, <3>1 DEF Later
    <3>2. CASE ~(c.secs + (n + 1) < Day)
      <4>1. Later(l, 1) = [date |-> NextDay(c.date), secs |-> (c.secs + (n + 1)) - Day]
        BY <1>1, <2>3, <3>2 DEF Later
      <4>2. Later(c, n + 1) = [date |-> NextDay(c.date), secs |-> (c.secs + (n + 1)) - Day]
        BY <1>1, <3>2 DEF Later
      <4> QED BY <4>1, <4>2
    <3> QED BY <3>1, <3>2
  <2> QED BY <2>4 DEF l
<1>3. CASE ~(c.secs + n < Day)
  <2>1. Later(c, n) = [date |-> NextDay(c.date), secs |-> c.secs + n - Day]
    BY <1>3 DEF Later
  <2>2. /\ (c.secs + n - Day) + 1 < Day /\ ~(c.secs + (n + 1) < Day)
        /\ (c.secs + n - Day) + 1 = c.secs + (n + 1) - Day
    BY <1>1, <1>3
  <2> QED BY <2>1, <2>2 DEF Later
<1> QED BY <1>2, <1>3

\* And no seconds later it is the same.
LEMMA LaterZero ==
  ASSUME NEW c, IsMoment(c)
  PROVE  Later(c, 0) = c
  BY DEF Later, IsMoment

\* Years do not go back.
LEMMA LaterYears ==
  ASSUME NEW c, IsMoment(c), NEW n \in 0 .. 60, NEW j \in 0 .. n, RtcTypeOK
  PROVE  Later(c, j).date.y <= Later(c, n).date.y
<1>1. c.secs \in 0 .. Day - 1 /\ c.date.y \in Nat
  BY DEF IsMoment, Date
<1>2. Later(c, n).date.y \in c.date.y .. c.date.y + 1
  <2>1. n \in 0 .. Day - 1
    OBVIOUS
  <2> QED BY <2>1, LaterFacts
<1>3. CASE c.secs + j < Day
  BY <1>1, <1>2, <1>3 DEF Later
<1>4. CASE ~(c.secs + j < Day)
  <2>1. ~(c.secs + n < Day)
    BY <1>1, <1>4
  <2> HIDE DEF IsMoment
  <2>2. Later(c, j).date = NextDay(c.date) /\ Later(c, n).date = NextDay(c.date)
    BY <1>4, <2>1 DEF Later
  <2> QED BY <1>1, <1>2, <2>2
<1> QED BY <1>3, <1>4

-----------------------------------------------------------------------------
(* The registers.                                                          *)

\* What a register can show, and that it is decoded as what was shown.
Digits == 0 .. 99

LEMMA PlainShown ==
  ASSUME RtcTypeOK, NEW v \in Digits
  PROVE  Plain(Shown(v)) = v /\ Shown(v) \in 0 .. 159
<1> USE DEF Digits
<1>1. clock.bcd \in BOOLEAN
  BY RtcAssumption DEF RtcTypeOK
<1>2. CASE clock.bcd = FALSE
  BY <1>2 DEF Plain, Shown
<1>3. CASE clock.bcd = TRUE
  <2>1. v \div 10 \in 0 .. 9 /\ v % 10 \in 0 .. 9 /\ v = 10 * (v \div 10) + (v % 10)
    OBVIOUS
  <2>2. \A q \in 0 .. 9, r \in 0 .. 9 : (16 * q + r) % 16 = r /\ (16 * q + r) \div 16 = q
    OBVIOUS
  <2> QED BY <1>3, <2>1, <2>2 DEF Plain, Shown
<1> QED BY <1>1, <1>2, <1>3

\* The registers are those of the code.
LEMMA ShowsIs ==
  ASSUME NEW d, NEW s
  PROVE  /\ Shows(d, s)[1] = Shown(s % 60) /\ Shows(d, s)[2] = Shown((s \div 60) % 60)
         /\ Shows(d, s)[3] = ShownHour(s \div 3600)
         /\ Shows(d, s)[4] = Shown(d.d) /\ Shows(d, s)[5] = Shown(d.m)
         /\ Shows(d, s)[6] = Shown(d.y % 100)
         /\ Shows(d, s)[7] = IF clock.century THEN Shown(d.y \div 100) ELSE 0
  BY DEF Shows

\* All registers but that of the seconds depend on the minute only.
LEMMA SameMinute ==
  ASSUME NEW d, NEW s \in 0 .. Day - 1, NEW t \in 0 .. Day - 1, s \div 60 = t \div 60, NEW k \in 2 .. 7
  PROVE  Shows(d, s)[k] = Shows(d, t)[k]
<1>1. s \div 3600 = t \div 3600
  OBVIOUS
<1>2. k \in {2, 3, 4, 5, 6, 7}
  OBVIOUS
<1> QED BY <1>1, <1>2, ShowsIs

\* A day is a number of minutes.
LEMMA DayMinutes ==
  ASSUME NEW x \in Nat
  PROVE  /\ x < Day <=> x \div 60 < 1440
         /\ (x - Day) \div 60 = x \div 60 - 1440 /\ (x - Day) % 60 = x % 60
         /\ x % 60 \in 0 .. 59 /\ x \div 60 \in Nat
<1>1. x < Day <=> x \div 60 < 1440
  BY SMT DEF Day
<1>2. (x - Day) \div 60 = x \div 60 - 1440
  BY SMT DEF Day
<1>3. (x - Day) % 60 = x % 60
  BY SMT DEF Day
<1>4. x % 60 \in 0 .. 59 /\ x \div 60 \in Nat
  BY SMT
<1> QED BY <1>1, <1>2, <1>3, <1>4

\* Of three moments within a minute, two neighbours share their minute.
LEMMA MinuteChange ==
  ASSUME NEW x \in Nat, NEW y \in Nat, NEW z \in Nat, x <= y, y <= z, z <= x + 59
  PROVE  x \div 60 = y \div 60 \/ y \div 60 = z \div 60
  BY SMT

\* Within a minute no second is shown twice.
LEMMA SecondsApart ==
  ASSUME NEW x \in Nat, NEW y \in Nat, x <= y, y <= x + 59, x % 60 = y % 60
  PROVE  x = y
  BY SMT

\* Register k, a time after the moment c.
Seen(c, t, k) == Shows(Later(c, t).date, Later(c, t).secs)[k]

\* Less than a minute contains one change of minutes at most.
LEMMA MinuteOnce ==
  ASSUME NEW c, IsMoment(c), NEW i \in 0 .. 59, NEW n \in 0 .. i, NEW j \in 0 .. n, RtcTypeOK,
         NEW k \in 2 .. 7
  PROVE  Seen(c, j, k) = Seen(c, n, k) \/ Seen(c, n, k) = Seen(c, i, k)
<1> DEFINE s == c.secs
<1>1. s \in 0 .. Day - 1 /\ s \in Nat
  BY DEF IsMoment
<1>2. ASSUME NEW a \in 0 .. 59, NEW b \in 0 .. 59, (s + a) \div 60 = (s + b) \div 60
      PROVE  Seen(c, a, k) = Seen(c, b, k)
  <2>1. s + a < Day <=> s + b < Day
    <3>1. s + a \in Nat /\ s + b \in Nat
      BY <1>1
    <3> HIDE DEF s
    <3> QED BY <1>2, <3>1, DayMinutes
  <2>2. CASE s + a < Day
    <3>1. Later(c, a) = [date |-> c.date, secs |-> s + a] /\ Later(c, b) = [date |-> c.date, secs |-> s + b]
      BY <2>1, <2>2 DEF Later
    <3>2. s + a \in 0 .. Day - 1 /\ s + b \in 0 .. Day - 1
      BY <1>1, <2>1, <2>2
    <3> HIDE DEF s
    <3>3. Shows(c.date, s + a)[k] = Shows(c.date, s + b)[k]
      BY <1>2, <3>2, SameMinute
    <3> QED BY <3>1, <3>3 DEF Seen
  <2>3. CASE ~(s + a < Day)
    <3>1. /\ Later(c, a) = [date |-> NextDay(c.date), secs |-> s + a - Day]
          /\ Later(c, b) = [date |-> NextDay(c.date), secs |-> s + b - Day]
      BY <2>1, <2>3 DEF Later
    <3>2. s + a - Day \in 0 .. Day - 1 /\ s + b - Day \in 0 .. Day - 1
      BY <1>1, <2>1, <2>3
    <3>3. (s + a - Day) \div 60 = (s + b - Day) \div 60
      <4>1. s + a \in Nat /\ s + b \in Nat /\ s + a - Day = (s + a) - Day /\ s + b - Day = (s + b) - Day
        BY <1>1
      <4> HIDE DEF s
      <4> QED BY <1>2, <4>1, DayMinutes
    <3> HIDE DEF s
    <3>4. Shows(NextDay(c.date), s + a - Day)[k] = Shows(NextDay(c.date), s + b - Day)[k]
      BY <3>2, <3>3, SameMinute
    <3> QED BY <3>1, <3>4 DEF Seen
  <2> QED BY <2>2, <2>3
<1>3. (s + j) \div 60 = (s + n) \div 60 \/ (s + n) \div 60 = (s + i) \div 60
  <2>1. s + j \in Nat /\ s + n \in Nat /\ s + i \in Nat /\ s + j <= s + n /\ s + n <= s + i /\ s + i <= (s + j) + 59
    BY <1>1
  <2> HIDE DEF s
  <2> QED BY <2>1, MinuteChange
<1>4. j \in 0 .. 59 /\ n \in 0 .. 59
  OBVIOUS
<1> QED BY <1>2, <1>3, <1>4

\* The seconds tell the moments of less than a minute apart.
LEMMA SecondsTell ==
  ASSUME NEW c, IsMoment(c), NEW i \in 0 .. 59, NEW j \in 0 .. i, RtcTypeOK,
         Seen(c, i, 1) = Seen(c, j, 1)
  PROVE  i = j
<1> DEFINE s == c.secs
<1>1. s \in 0 .. Day - 1 /\ s \in Nat
  BY DEF IsMoment
<1>2. ASSUME NEW n \in 0 .. 59
      PROVE  Later(c, n).secs % 60 = (s + n) % 60 /\ (s + n) % 60 \in 0 .. 99
  <2>1. (s + n) % 60 \in 0 .. 99 /\ (s + n - Day) % 60 = (s + n) % 60
    <3>1. s + n \in Nat /\ s + n - Day = (s + n) - Day
      BY <1>1
    <3> HIDE DEF s
    <3> QED BY <3>1, DayMinutes
  <2>2. Later(c, n).secs = s + n \/ Later(c, n).secs = s + n - Day
    BY DEF Later
  <2> QED BY <2>1, <2>2
<1>3. ASSUME NEW n \in 0 .. 59
      PROVE  Plain(Seen(c, n, 1)) = (s + n) % 60
  <2>1. Seen(c, n, 1) = Shown((s + n) % 60)
    <3>1. Seen(c, n, 1) = Shown(Later(c, n).secs % 60)
      BY ShowsIs DEF Seen
    <3>2. Later(c, n).secs % 60 = (s + n) % 60
      BY <1>2
    <3> QED BY <3>1, <3>2
  <2> DEFINE x == (s + n) % 60
  <2>2. x \in Digits /\ Seen(c, n, 1) = Shown(x)
    BY <1>2, <2>1 DEF Digits
  <2> HIDE DEF x
  <2>3. Plain(Seen(c, n, 1)) = x
    BY <2>2, PlainShown
  <2> QED BY <2>3 DEF x
<1>4. j \in 0 .. 59
  OBVIOUS
<1>5. (s + i) % 60 = (s + j) % 60
  BY <1>3, <1>4
<1>6. s + i \in Nat /\ s + j \in Nat /\ s + j <= s + i /\ s + i <= (s + j) + 59
  BY <1>1
<1>7. s + i = s + j
  <2> HIDE DEF s
  <2> QED BY <1>5, <1>6, SecondsApart
<1> QED BY <1>1, <1>7

\* Two readings that agree are what the clock showed at the poll in between.
LEMMA SettledReading ==
  ASSUME RtcIInv, Len(snap) = Registers, snap = prev
  PROVE  /\ began # Idle
         /\ \E m \in 0 .. Elapsed : \A k \in 1 .. Registers : snap[k] = Register(m, k)
<1>1. RtcTypeOK /\ CallInv /\ ReadingInv /\ (~ready => snap = <<>>)
  BY DEF RtcIInv, TimeIsReal
<1>2. ready /\ began # Idle
  <2>1. ready
    BY <1>1 DEF Registers
  <2> QED BY <1>1, <2>1 DEF CallInv
<1>3. IsMoment(opened) /\ Elapsed \in 0 .. MaxSeconds /\ Reach <= MaxSeconds /\ MaxSeconds \in 0 .. 59 /\ Reach \in Nat
  BY <1>1, <1>2, RtcAssumption DEF CallInv, RtcTypeOK, Reach
<1>4. PICK m \in 0 .. Elapsed :
        /\ \A k \in 1 .. Len(prev) : \E j \in 0 .. m : prev[k] = Register(j, k)
        /\ \A k \in 1 .. Len(snap) : \E j \in m .. Reach : snap[k] = Register(j, k)
  BY <1>1, <1>2 DEF ReadingInv
<1>5. m \in Nat /\ m <= Reach /\ Reach \in 0 .. 59
  BY <1>3 DEF Reach
<1>6. ASSUME NEW k \in 1 .. Registers PROVE snap[k] = Register(m, k)
  <2>1. PICK j \in 0 .. m : snap[k] = Register(j, k)
    BY <1>4
  <2>2. PICK i \in m .. Reach : snap[k] = Register(i, k)
    BY <1>4
  <2>3. i \in 0 .. 59 /\ m \in 0 .. i /\ j \in 0 .. i
    BY <1>5
  <2>4. CASE k = 1
    <3>1. Seen(opened, i, 1) = Seen(opened, j, 1)
      BY <2>1, <2>2, <2>4 DEF Register, Seen
    <3>2. i = j
      BY <1>1, <1>3, <2>3, <3>1, SecondsTell
    <3>3. j = m
      BY <1>5, <3>2
    <3> QED BY <2>1, <3>3
  <2>5. CASE k # 1
    <3>1. k \in 2 .. 7
      BY <2>5 DEF Registers
    <3>2. \A t : Register(t, k) = Seen(opened, t, k)
      BY DEF Register, Seen
    <3>3. Seen(opened, j, k) = Seen(opened, m, k) \/ Seen(opened, m, k) = Seen(opened, i, k)
      BY <1>1, <1>3, <2>3, <3>1, MinuteOnce
    <3> QED BY <2>1, <2>2, <3>2, <3>3
  <2> QED BY <2>4, <2>5
<1> QED BY <1>2, <1>6

\* Every register holds a number.
LEMMA ShowsNat ==
  ASSUME RtcTypeOK, NEW c, IsMoment(c), NEW k \in 1 .. 7
  PROVE  Shows(c.date, c.secs)[k] \in Nat
<1>1. ASSUME NEW v \in Nat PROVE Shown(v) \in Nat
  BY DEF Shown
<1>2. ASSUME NEW v \in Nat PROVE ShownHour(v) \in Nat
  <2>1. v % 12 \in Nat
    OBVIOUS
  <2> QED BY <1>1, <2>1 DEF ShownHour
<1>3. /\ c.secs \in Nat /\ c.date.y \in Nat /\ c.date.m \in Nat /\ c.date.d \in Nat
  BY DEF IsMoment, Date
<1>4. /\ c.secs % 60 \in Nat /\ (c.secs \div 60) % 60 \in Nat /\ c.secs \div 3600 \in Nat
      /\ c.date.y % 100 \in Nat /\ c.date.y \div 100 \in Nat
  BY <1>3, SMT
<1>5. k \in {1, 2, 3, 4, 5, 6, 7}
  OBVIOUS
<1> QED BY <1>1, <1>2, <1>3, <1>4, <1>5, ShowsIs

\* The hours of a day.
LEMMA DayHours ==
  ASSUME NEW s \in Nat, s < Day
  PROVE  s \div 3600 \in 0 .. 23
<1>1. s < 86400
  BY SMT DEF Day
<1> DEFINE h == s \div 3600
           r == s % 3600
<1>2. h \in Int /\ r \in 0 .. 3599 /\ s = 3600 * h + r
  BY DivModInt, SMT
<1> HIDE DEF h, r
<1>3. h \in 0 .. 23
  BY <1>1, <1>2, SMT
<1> QED BY <1>3, SMT DEF h

\* Years that the code puts together again from their century and the rest.
LEMMA Centuries ==
  ASSUME NEW y \in Nat
  PROVE  y % 100 \in 0 .. 99 /\ y = 100 * (y \div 100) + (y % 100) /\ y \div 100 \in Nat
  BY SMT

\* Registers that were read at a moment, one at which the code can read the
\* clock, and what it decodes.
ReadAt(r, c) == \A k \in 1 .. 7 : r[k] = Shows(c.date, c.secs)[k]
Decodable(c) ==
  /\ clock.hours24 \/ c.secs \div 3600 \in 1 .. 11
  /\ IF clock.century THEN c.date.y \div 100 \in 1 .. 99 ELSE c.date.y \div 100 = 20
DecodedAs(r, c) ==
  /\ Year(r) = c.date.y /\ Plain(r[5]) = c.date.m /\ Plain(r[4]) = c.date.d
  /\ Hour(r[3]) = c.secs \div 3600 /\ Plain(r[2]) = (c.secs \div 60) % 60
  /\ Plain(r[1]) = c.secs % 60

\* The date and time decoded from the registers is what they show, where the
\* code can read the clock.
LEMMA Decoded ==
  ASSUME RtcTypeOK, NEW c, IsMoment(c), NEW r, ReadAt(r, c), Decodable(c)
  PROVE  DecodedAs(r, c)
<1> DEFINE s == c.secs
           y == c.date.y
<1>1. /\ s \in 0 .. Day - 1 /\ s \in Nat /\ y \in Nat
      /\ c.date.m \in Digits /\ c.date.d \in Digits
  BY DEF IsMoment, Date, Digits
<1>2. /\ s % 60 \in Digits /\ (s \div 60) % 60 \in Digits
  <2> HIDE DEF s
  <2> QED BY <1>1, SMT DEF Digits
<1>3. s \div 3600 \in 0 .. 23
  <2> HIDE DEF s
  <2>1. s \in Nat /\ s < Day
    BY <1>1
  <2> QED BY <2>1, DayHours
<1>4. y % 100 \in Digits /\ y = 100 * (y \div 100) + (y % 100) /\ y \div 100 \in Nat
  <2> HIDE DEF y
  <2> QED BY <1>1, Centuries DEF Digits
<1>5. /\ r[1] = Shown(s % 60) /\ r[2] = Shown((s \div 60) % 60) /\ r[3] = ShownHour(s \div 3600)
      /\ r[4] = Shown(c.date.d) /\ r[5] = Shown(c.date.m) /\ r[6] = Shown(y % 100)
      /\ r[7] = IF clock.century THEN Shown(y \div 100) ELSE 0
  BY ShowsIs DEF ReadAt
<1>6. clock.hours24 \/ s \div 3600 \in 1 .. 11
  BY DEF Decodable
<1>7. IF clock.century THEN y \div 100 \in 1 .. 99 ELSE y \div 100 = 20
  BY DEF Decodable
<1> HIDE DEF s, y
<1>8. Plain(r[1]) = s % 60 /\ Plain(r[2]) = (s \div 60) % 60 /\ Plain(r[4]) = c.date.d /\ Plain(r[5]) = c.date.m
  <2> DEFINE x == s % 60
             z == (s \div 60) % 60
  <2>1. /\ x \in Digits /\ z \in Digits /\ c.date.m \in Digits /\ c.date.d \in Digits
        /\ r[1] = Shown(x) /\ r[2] = Shown(z) /\ r[4] = Shown(c.date.d) /\ r[5] = Shown(c.date.m)
    BY <1>1, <1>2, <1>5
  <2> HIDE DEF x, z
  <2>2. \A v \in Digits : Plain(Shown(v)) = v
    BY PlainShown
  <2>3. Plain(r[1]) = x /\ Plain(r[2]) = z /\ Plain(r[4]) = c.date.d /\ Plain(r[5]) = c.date.m
    BY <2>1, <2>2
  <2> QED BY <2>3 DEF x, z
<1>9. Hour(r[3]) = s \div 3600
  <2> DEFINE h == s \div 3600
  <2>1. h \in Digits /\ h \in 0 .. 23
    BY <1>3 DEF Digits
  <2>2. r[3] = ShownHour(h) /\ (clock.hours24 \/ h \in 1 .. 11)
    BY <1>5, <1>6
  <2> HIDE DEF h
  <2>3. Plain(Shown(h)) = h /\ Shown(h) \in 0 .. 159
    BY <2>1, PlainShown
  <2>4. ShownHour(h) = Shown(h)
    <3>1. CASE clock.hours24
      BY <3>1 DEF ShownHour
    <3>2. CASE ~clock.hours24
      <4>1. h % 12 = h /\ h # 0 /\ ~(h >= 12) /\ Shown(h) + 0 = Shown(h)
        BY <2>2, <2>3, <3>2
      <4> QED BY <3>2, <4>1 DEF ShownHour
    <3> QED BY <3>1, <3>2
  <2>5. Shown(h) % 128 = Shown(h)
    <3>1. h \div 10 \in 0 .. 2 /\ h % 10 \in 0 .. 9
      BY <2>1
    <3>2. Shown(h) \in 0 .. 127
      BY <2>1, <3>1 DEF Shown
    <3> QED BY <3>2
  <2>6. ~(h >= 128)
    BY <2>1
  <2>7. Hour(r[3]) = h
    BY <2>2, <2>3, <2>4, <2>5, <2>6 DEF Hour
  <2> QED BY <2>7 DEF h
<1>10. Year(r) = y
  <2> DEFINE q == y \div 100
             w == y % 100
  <2>1. w \in Digits /\ q \in Nat /\ y = 100 * q + w
    BY <1>4
  <2>2. r[6] = Shown(w) /\ r[7] = (IF clock.century THEN Shown(q) ELSE 0)
    BY <1>5
  <2>3. IF clock.century THEN q \in 1 .. 99 ELSE q = 20
    BY <1>7
  <2> HIDE DEF q, w
  <2>4. Plain(r[6]) = w
    <3>1. w \in Digits /\ r[6] = Shown(w)
      BY <2>1, <2>2
    <3> QED BY <3>1, PlainShown
  <2>5. CASE clock.century
    <3>1. q \in Digits /\ q \in 1 .. 99
      BY <2>3, <2>5 DEF Digits
    <3>2. Plain(r[7]) = q
      <4>1. r[7] = Shown(q)
        BY <2>2, <2>5
      <4> QED BY <3>1, <4>1, PlainShown
    <3>3. Year(r) = q * 100 + w
      BY <2>4, <3>1, <3>2 DEF Year
    <3> QED BY <2>1, <3>1, <3>3
  <2>6. CASE ~clock.century
    <3>1. r[7] = 0 /\ q = 20
      BY <2>2, <2>3, <2>6
    <3>2. Plain(r[7]) = 0
      BY <3>1 DEF Plain
    <3>3. Year(r) = 2000 + w
      BY <2>4, <3>2, SMT DEF Year
    <3> QED BY <2>1, <3>1, <3>3, SMT
  <2> QED BY <2>5, <2>6
<1> QED BY <1>8, <1>9, <1>10 DEF s, y, DecodedAs

-----------------------------------------------------------------------------
(* The steps of the clock and of its reader.                               *)

\* The moment the clock shows.
Present == [date |-> date, secs |-> secs]

\* The present moment is a number.
LEMMA NowNat ==
  ASSUME RtcTypeOK
  PROVE  Now \in Nat /\ days \in Nat /\ ticks \in Nat /\ (began # Idle => began \in Nat)
<1>1. days \in Nat /\ ticks \in Nat
  BY RtcAssumption DEF RtcTypeOK
<1>2. Now \in Nat
  BY <1>1, SMT DEF Now, Day
<1>3. began # Idle => began \in Nat
  BY <1>2 DEF RtcTypeOK, Idle
<1> QED BY <1>1, <1>2, <1>3

\* What is known while a call is under way.
LEMMA CallFacts ==
  ASSUME RtcIInv, began # Idle
  PROVE  /\ IsMoment(opened) /\ Index(opened) = began /\ opened.date.y >= first.start.y
         /\ Elapsed \in 0 .. 59 /\ Elapsed <= MaxSeconds /\ Elapsed = Now - began
         /\ Reach \in Nat /\ Reach <= 59 /\ Reach <= MaxSeconds /\ MaxSeconds \in Nat
         /\ Reach = IF changing THEN Elapsed + 1 ELSE Elapsed
         /\ Present = Later(opened, Elapsed) /\ began \in Nat /\ Now \in Nat /\ RtcTypeOK
<1>1. RtcTypeOK /\ CallInv
  BY DEF RtcIInv, TimeIsReal
<1>2. MaxSeconds \in 0 .. 59
  BY RtcAssumption
<1>3. Elapsed \in 0 .. MaxSeconds /\ Reach <= MaxSeconds /\ Index(opened) = began
      /\ opened.date.y >= first.start.y /\ Present = Later(opened, Elapsed)
  BY <1>1 DEF CallInv, Present
<1>4. Reach = (IF changing THEN Elapsed + 1 ELSE Elapsed) /\ Elapsed = Now - began
  BY DEF Reach, Elapsed
<1>5. IsMoment(opened)
  BY <1>1 DEF RtcTypeOK
<1>6. began \in Nat /\ Now \in Nat
  BY <1>1, NowNat
<1> HIDE DEF RtcIInv
<1> QED BY <1>1, <1>2, <1>3, <1>4, <1>5, <1>6

\* A reading stays what it was while the call goes on.
LEMMA RegisterKept ==
  ASSUME UNCHANGED <<clock, opened>>
  PROVE  \A j, k : Register(j, k)' = Register(j, k)
  BY DEF Register, Shows, Shown, ShownHour, Later

\* A time that was right stays so.
LEMMA TimeKept ==
  ASSUME TimeIsReal, RtcTypeOK', UNCHANGED <<clock, time, first>>, date'.y >= date.y
  PROVE  TimeIsReal'
<1>1. date.y \in Nat /\ date'.y \in Nat
  BY DEF TimeIsReal, RtcTypeOK, IsMoment, Date
<1>2. Readable' => Readable
  <2>1. HoursReadable' = HoursReadable
    BY DEF HoursReadable
  <2>2. date.y \div 100 <= date'.y \div 100 /\ date.y \div 100 \in Int /\ date'.y \div 100 \in Int
    BY <1>1, SMT
  <2>3. first.start.y \div 100 = first'.start.y \div 100
    OBVIOUS
  <2>4. YearsReadable' => YearsReadable
    BY <2>2, <2>3 DEF YearsReadable
  <2> QED BY <2>1, <2>4 DEF Readable
<1>3. Real(time)' = Real(time)
  BY DEF Real
<1> QED BY <1>2, <1>3 DEF TimeIsReal

\* The registers of the present are those of the seconds since the call began.
LEMMA PresentRegisters ==
  ASSUME RtcIInv, began # Idle, NEW k \in 1 .. 7
  PROVE  /\ Shows(date, secs)[k] = Register(Elapsed, k)
         /\ Shows(Following.date, Following.secs)[k] = Register(Elapsed + 1, k)
         /\ Shows(date, secs)[k] \in Nat /\ Shows(Following.date, Following.secs)[k] \in Nat
<1>1. /\ IsMoment(opened) /\ Elapsed \in 0 .. 59 /\ Present = Later(opened, Elapsed) /\ RtcTypeOK
  BY CallFacts
<1>2. Present.date = date /\ Present.secs = secs
  BY DEF Present
<1>3. Following = Later(opened, Elapsed + 1)
  <2>1. Following = Later(Present, 1)
    BY DEF Following, Present
  <2> QED BY <1>1, <2>1, LaterAgain
<1>4. IsMoment(Present) /\ IsMoment(Following)
  <2>1. Elapsed \in 0 .. Day - 1 /\ Elapsed + 1 \in 0 .. Day - 1
    BY <1>1
  <2> QED BY <1>1, <1>3, <2>1, LaterFacts
<1>5. Shows(date, secs)[k] \in Nat /\ Shows(Following.date, Following.secs)[k] \in Nat
  BY <1>1, <1>2, <1>4, ShowsNat
<1>6. Shows(date, secs)[k] = Register(Elapsed, k)
  BY <1>1, <1>2 DEF Register
<1>7. Shows(Following.date, Following.secs)[k] = Register(Elapsed + 1, k)
  BY <1>3 DEF Register
<1> QED BY <1>5, <1>6, <1>7

\* The clock raises its bit: readings may have the next values from now on.
LEMMA UpdateBeginsKeeps ==
  ASSUME RtcIInv, UpdateBegins
  PROVE  RtcIInv'
<1>1. /\ TimeIsReal /\ RtcTypeOK /\ ClockRight /\ CallInv /\ ReadingInv /\ (~ready => snap = <<>>)
  BY DEF RtcIInv, TimeIsReal
<1>2. /\ began # Idle /\ ~changing /\ Now - began < MaxSeconds /\ changing' = TRUE
      /\ UNCHANGED <<clock, date, secs, ready, snap, prev, time, first, days, ticks, began, opened>>
  BY DEF UpdateBegins, readout
<1>3. RtcTypeOK'
  BY <1>1, <1>2 DEF RtcTypeOK, Now
<1>4. TimeIsReal'
  <2>1. date'.y >= date.y
    BY <1>1, <1>2 DEF RtcTypeOK, IsMoment, Date
  <2> QED BY <1>1, <1>2, <1>3, <2>1, TimeKept
<1>5. ClockRight'
  BY <1>1, <1>2 DEF ClockRight, Index, Now
<1>6. Elapsed' = Elapsed /\ Reach = Elapsed /\ Reach' = Elapsed + 1
  BY <1>2 DEF Elapsed, Reach, Now
<1>7. Elapsed \in 0 .. 59 /\ Elapsed < MaxSeconds /\ MaxSeconds \in Nat
  BY <1>2, CallFacts DEF Elapsed
<1>8. CallInv'
  <2>1. /\ Index(opened) = began /\ opened.date.y >= first.start.y /\ Elapsed \in 0 .. MaxSeconds
        /\ [date |-> date, secs |-> secs] = Later(opened, Elapsed)
    BY <1>1, <1>2 DEF CallInv
  <2>2. Index(opened)' = Index(opened)
    BY <1>2 DEF Index
  <2> QED BY <1>2, <1>6, <1>7, <2>1, <2>2 DEF CallInv
<1>9. ReadingInv'
  <2>1. \A j, k : Register(j, k)' = Register(j, k)
    BY <1>2, RegisterKept
  <2>2. PICK m \in IF ready THEN 0 .. Elapsed ELSE {Reach} :
          /\ \A k \in 1 .. Len(prev) : \E j \in 0 .. m : prev[k] = Register(j, k)
          /\ \A k \in 1 .. Len(snap) : \E j \in m .. Reach : snap[k] = Register(j, k)
    BY <1>1, <1>2 DEF ReadingInv
  <2>3. CASE ready
    <3>1. \A k \in 1 .. Len(snap) : \E j \in m .. Elapsed + 1 : snap[k] = Register(j, k)
      BY <1>6, <1>7, <2>2, <2>3
    <3>2. m \in 0 .. Elapsed
      BY <2>2, <2>3
    <3> QED BY <1>2, <1>6, <2>1, <2>2, <2>3, <3>1, <3>2 DEF ReadingInv
  <2>4. CASE ~ready
    <3>1. snap = <<>> /\ m = Elapsed
      BY <1>1, <1>6, <2>2, <2>4
    <3>2. \A k \in 1 .. Len(prev) : \E j \in 0 .. Elapsed + 1 : prev[k] = Register(j, k)
      BY <1>7, <2>2, <3>1
    <3> QED BY <1>2, <1>6, <2>1, <2>4, <3>1, <3>2 DEF ReadingInv
  <2> QED BY <2>3, <2>4
<1> QED BY <1>1, <1>2, <1>4, <1>5, <1>8, <1>9 DEF RtcIInv

\* A second has passed.
LEMMA UpdateEndsKeeps ==
  ASSUME RtcIInv, UpdateEnds
  PROVE  RtcIInv'
<1>1. /\ TimeIsReal /\ RtcTypeOK /\ ClockRight /\ CallInv /\ ReadingInv /\ (~ready => snap = <<>>)
  BY DEF RtcIInv, TimeIsReal
<1>2. /\ changing /\ changing' = FALSE /\ date' = Following.date /\ secs' = Following.secs
      /\ ticks' = ticks + 1
      /\ UNCHANGED <<clock, ready, snap, prev, time, first, days, began, opened>>
  BY DEF UpdateEnds, readout
<1>3. Now' = Now + 1 /\ Now \in Nat /\ ticks \in Nat /\ days \in Nat
  <2>1. Now \in Nat /\ ticks \in Nat /\ days \in Nat
    BY <1>1, NowNat
  <2> QED BY <1>2, <2>1, SMT DEF Now, Day
<1>4. Following = Later(Present, 1) /\ IsMoment(Present)
  BY <1>1 DEF Following, Present, RtcTypeOK
<1>5. /\ IsMoment(Following) /\ Index(Following) = Index(Present) + 1
      /\ Following.date.y \in Present.date.y .. Present.date.y + 1
  BY <1>1, <1>4, LaterFacts
<1>6. Present' = Following
  <2>1. Following = [date |-> Following.date, secs |-> Following.secs]
    BY <1>5 DEF IsMoment
  <2> QED BY <1>2, <2>1 DEF Present
<1>7. RtcTypeOK'
  <2>1. ticks' \in Nat /\ began' \in Idle .. Now'
    BY <1>1, <1>2, <1>3 DEF RtcTypeOK, Idle
  <2>2. IsMoment(Present')
    BY <1>5, <1>6
  <2> QED BY <1>1, <1>2, <2>1, <2>2 DEF RtcTypeOK, Present
<1>8. date'.y >= date.y /\ date.y \in Nat /\ date'.y \in Nat /\ first.start.y \in Nat
  <2>1. date.y \in Nat /\ date'.y \in Nat
    BY <1>1, <1>7 DEF RtcTypeOK, IsMoment, Date
  <2>2. date' = Following.date /\ Present.date = date
    BY <1>2 DEF Present
  <2>3. first.start.y \in Nat
    BY <1>1, StartsAssumption DEF RtcTypeOK
  <2> QED BY <1>5, <2>1, <2>2, <2>3
<1>9. TimeIsReal'
  BY <1>1, <1>2, <1>7, <1>8, TimeKept
<1>10. \A c : Index(c)' = Index(c)
  BY <1>2 DEF Index
<1>11. ClockRight'
  <2>1. Index(Present') = Now'
    BY <1>1, <1>3, <1>5, <1>6 DEF ClockRight, Present
  <2>2. Index(Present)' = Index(Present')
    BY <1>2 DEF Index
  <2>3. date'.y >= first'.start.y
    BY <1>1, <1>2, <1>8 DEF ClockRight
  <2> QED BY <2>1, <2>2, <2>3 DEF ClockRight, Present
<1>12. CASE began = Idle
  <2>1. CallInv' /\ ReadingInv'
    BY <1>1, <1>2, <1>12 DEF CallInv, ReadingInv
  <2> QED BY <1>1, <1>2, <1>9, <1>11, <2>1 DEF RtcIInv
<1>13. CASE began # Idle
  <2>1. /\ Elapsed \in 0 .. 59 /\ IsMoment(opened) /\ Present = Later(opened, Elapsed)
        /\ Reach = Elapsed + 1 /\ Reach <= MaxSeconds /\ MaxSeconds \in Nat /\ began \in Nat
        /\ Index(opened) = began /\ opened.date.y >= first.start.y /\ Elapsed = Now - began
    BY <1>2, <1>13, CallFacts
  <2>2. Elapsed' = Elapsed + 1 /\ Reach' = Elapsed + 1
    BY <1>2, <1>3, <2>1 DEF Elapsed, Reach
  <2>3. Present' = Later(opened, Elapsed + 1)
    BY <1>4, <1>6, <2>1, LaterAgain
  <2>4. CallInv'
    <3>1. Index(opened)' = began' /\ opened'.date.y >= first'.start.y
      BY <1>2, <2>1 DEF Index
    <3>2. Elapsed' \in 0 .. MaxSeconds /\ Reach' <= MaxSeconds
      BY <2>1, <2>2
    <3>3. [date |-> date, secs |-> secs]' = Later(opened, Elapsed)'
      BY <1>2, <2>2, <2>3 DEF Present, Later
    <3> QED BY <1>2, <1>13, <3>1, <3>2, <3>3 DEF CallInv
  <2>5. ReadingInv'
    <3>1. \A j, k : Register(j, k)' = Register(j, k)
      BY <1>2, RegisterKept
    <3>2. PICK m \in IF ready THEN 0 .. Elapsed ELSE {Reach} :
            /\ \A k \in 1 .. Len(prev) : \E j \in 0 .. m : prev[k] = Register(j, k)
            /\ \A k \in 1 .. Len(snap) : \E j \in m .. Reach : snap[k] = Register(j, k)
      BY <1>1, <1>13 DEF ReadingInv
    <3>3. m \in IF ready THEN 0 .. Elapsed + 1 ELSE {Elapsed + 1}
      BY <2>1, <3>2
    <3> QED BY <1>2, <2>1, <2>2, <3>1, <3>2, <3>3 DEF ReadingInv
  <2> QED BY <1>1, <1>2, <1>9, <1>11, <2>4, <2>5 DEF RtcIInv
<1> QED BY <1>12, <1>13

\* A day passes between two calls.
LEMMA DayPassesKeeps ==
  ASSUME RtcIInv, DayPasses
  PROVE  RtcIInv'
<1>1. /\ TimeIsReal /\ RtcTypeOK /\ ClockRight /\ CallInv /\ (~ready => snap = <<>>)
  BY DEF RtcIInv, TimeIsReal
<1>2. /\ began = Idle /\ days < MaxDays /\ date' = NextDay(date) /\ days' = days + 1 /\ time' = NoTime
      /\ UNCHANGED <<clock, secs, changing, ready, snap, prev, first, ticks, began, opened>>
  BY DEF DayPasses, readout
<1>3. Now' = Now + Day /\ Now \in Nat /\ Now' \in Nat
  <2>1. Now \in Nat /\ ticks \in Nat /\ days \in Nat
    BY <1>1, NowNat
  <2> QED BY <1>2, <2>1, SMT DEF Now, Day
<1>4. /\ date \in Date /\ date.y \in Nat /\ date.m \in 1 .. 12 /\ date.d \in 1 .. DaysIn(date.y, date.m)
      /\ date = [y |-> date.y, m |-> date.m, d |-> date.d] /\ secs \in 0 .. Day - 1
  <2>1. date \in Date /\ secs \in 0 .. Day - 1 /\ date.d <= DaysIn(date.y, date.m)
    BY <1>1 DEF RtcTypeOK, IsMoment
  <2>2. /\ date.y \in Nat /\ date.m \in 1 .. 12 /\ date.d \in 1 .. 31
        /\ date = [y |-> date.y, m |-> date.m, d |-> date.d]
    BY <2>1 DEF Date
  <2>3. DaysIn(date.y, date.m) \in 28 .. 31
    BY <2>2, DaysInFacts
  <2> QED BY <2>1, <2>2, <2>3
<1>5. /\ date' \in Date /\ date'.d <= DaysIn(date'.y, date'.m) /\ date'.y \in date.y .. date.y + 1
      /\ JulianDay(date'.y, date'.m, date'.d) = JulianDay(date.y, date.m, date.d) + 1
      /\ JulianDay(date.y, date.m, date.d) \in Int
  <2>1. date' = NextDay([y |-> date.y, m |-> date.m, d |-> date.d])
    BY <1>2, <1>4
  <2> QED BY <1>4, <2>1, JulianDayCounts
<1>6. RtcTypeOK'
  <2>1. IsMoment(Present') /\ IsMoment(opened')
    BY <1>1, <1>2, <1>4, <1>5 DEF RtcTypeOK, IsMoment, Present
  <2>2. days' \in 0 .. MaxDays /\ began' \in Idle .. Now'
    <3>1. days \in 0 .. MaxDays /\ MaxDays \in Nat
      BY <1>1, RtcAssumption DEF RtcTypeOK
    <3>2. days' \in 0 .. MaxDays
      BY <1>2, <3>1
    <3>3. Idle \in Idle .. Now'
      BY <1>3 DEF Idle
    <3> QED BY <1>2, <3>2, <3>3
  <2> QED BY <1>1, <1>2, <2>1, <2>2 DEF RtcTypeOK, Present
<1>7. TimeIsReal'
  BY <1>2, <1>6 DEF TimeIsReal, NoTime
<1>8. ClockRight'
  <2> DEFINE J == JulianDay(date.y, date.m, date.d)
             b == first.start.jdn
             f == first.secs
  <2>1. first.start \in Starts /\ f \in Int /\ first.start.y \in Nat /\ b \in Int
    <3>1. first.start \in Starts /\ first.secs \in Times
      BY <1>1 DEF RtcTypeOK
    <3>2. /\ first.start.y \in Nat /\ first.start.m \in 1 .. 12
          /\ first.start.d \in 1 .. DaysIn(first.start.y, first.start.m)
          /\ b = JulianDay(first.start.y, first.start.m, first.start.d)
      BY <3>1, StartsAssumption
    <3>3. JulianDay(first.start.y, first.start.m, first.start.d) \in Int
      BY <3>2, JulianDayCounts
    <3> QED BY <3>1, <3>2, <3>3, RtcAssumption, 0 .. Day - 1 \subseteq Int
  <2>2. (J - b) * Day + secs - f = Now
    BY <1>1 DEF ClockRight, Index
  <2>3. Index([date |-> date, secs |-> secs])' = ((J + 1) - b) * Day + secs - f
    BY <1>2, <1>5 DEF Index
  <2>4. J \in Int /\ secs \in Int
    BY <1>4, <1>5
  <2>5. date'.y >= first'.start.y
    <3>1. date.y >= first.start.y /\ first' = first
      BY <1>1, <1>2 DEF ClockRight
    <3>2. date.y \in Nat /\ date'.y \in Nat /\ date'.y >= date.y
      BY <1>4, <1>5
    <3> QED BY <2>1, <3>1, <3>2
  <2> HIDE DEF J, b, f
  <2>6. ((J + 1) - b) * Day + secs - f = ((J - b) * Day + secs - f) + Day
    BY <2>1, <2>4, SMT DEF Day
  <2> QED BY <1>3, <2>2, <2>3, <2>5, <2>6 DEF ClockRight
<1>9. CallInv' /\ ReadingInv'
  BY <1>1, <1>2 DEF CallInv, ReadingInv
<1> QED BY <1>1, <1>2, <1>7, <1>8, <1>9 DEF RtcIInv

\* A call begins.
LEMMA CallKeeps ==
  ASSUME RtcIInv, Call
  PROVE  RtcIInv'
<1>1. /\ TimeIsReal /\ RtcTypeOK /\ ClockRight /\ CallInv /\ (~ready => snap = <<>>)
  BY DEF RtcIInv, TimeIsReal
<1>2. /\ began = Idle /\ ~changing /\ began' = Now /\ opened' = Present
      /\ UNCHANGED <<clock, date, secs, changing, ready, snap, prev, time, first, days, ticks>>
  BY DEF Call, readout, Present
<1>3. Now' = Now /\ Now \in Nat
  BY <1>1, <1>2, NowNat DEF Now
<1>4. IsMoment(Present) /\ date.y \in Nat /\ first.start.y \in Nat /\ Present.date = date
  <2>1. first.start.y \in Nat
    BY <1>1, StartsAssumption DEF RtcTypeOK
  <2> QED BY <1>1, <2>1 DEF RtcTypeOK, IsMoment, Date, Present
<1>5. RtcTypeOK'
  <2>1. began' \in Idle .. Now'
    BY <1>2, <1>3 DEF Idle
  <2>2. IsMoment(opened') /\ IsMoment([date |-> date', secs |-> secs'])
    BY <1>2, <1>4 DEF Present
  <2> QED BY <1>1, <1>2, <2>1, <2>2 DEF RtcTypeOK
<1>6. TimeIsReal'
  <2>1. date'.y >= date.y
    BY <1>2, <1>4
  <2> QED BY <1>1, <1>2, <1>5, <2>1, TimeKept
<1>7. ClockRight'
  BY <1>1, <1>2, <1>3 DEF ClockRight, Index
<1>8. Elapsed' = 0 /\ Reach' = 0 /\ began' # Idle
  BY <1>2, <1>3 DEF Elapsed, Reach, Idle
<1>9. CallInv'
  <2>1. Index(opened)' = began' /\ opened'.date.y >= first'.start.y
    BY <1>1, <1>2, <1>4 DEF ClockRight, Index, Present
  <2>2. [date |-> date, secs |-> secs]' = Later(opened', 0)
    BY <1>2, <1>4, LaterZero DEF Present
  <2>3. 0 \in 0 .. MaxSeconds /\ 0 <= MaxSeconds
    BY RtcAssumption
  <2> QED BY <1>8, <2>1, <2>2, <2>3 DEF CallInv
<1>10. ReadingInv'
  <2>1. snap' = <<>> /\ prev' = <<>> /\ ~ready'
    BY <1>1, <1>2 DEF CallInv
  <2>2. 0 \in {Reach'}
    BY <1>8
  <2> QED BY <2>1, <2>2 DEF ReadingInv
<1> QED BY <1>1, <1>2, <1>6, <1>7, <1>9, <1>10 DEF RtcIInv

\* The reader's own steps during a call leave the clock alone.
LEMMA ReaderSteps ==
  ASSUME RtcIInv, began # Idle,
         UNCHANGED <<clock, date, secs, changing, time, first, days, ticks, began, opened>>,
         ready' \in BOOLEAN, snap' \in Seq(Nat), Len(snap') <= Registers,
         prev' \in Seq(Nat), Len(prev') \in {0, Registers}
  PROVE  /\ TimeIsReal' /\ ClockRight' /\ CallInv'
         /\ Elapsed' = Elapsed /\ Reach' = Reach /\ \A j, k : Register(j, k)' = Register(j, k)
<1>1. TimeIsReal /\ RtcTypeOK /\ ClockRight /\ CallInv
  BY DEF RtcIInv, TimeIsReal
<1>2. RtcTypeOK'
  BY <1>1 DEF RtcTypeOK, Now
<1>3. TimeIsReal'
  <2>1. date'.y >= date.y
    BY <1>1 DEF RtcTypeOK, IsMoment, Date
  <2> QED BY <1>1, <1>2, <2>1, TimeKept
<1>4. ClockRight'
  BY <1>1 DEF ClockRight, Index, Now
<1>5. Elapsed' = Elapsed /\ Reach' = Reach
  BY DEF Elapsed, Reach, Now
<1>6. CallInv'
  <2>1. Index(opened)' = Index(opened)
    BY DEF Index
  <2> QED BY <1>1, <1>5, <2>1 DEF CallInv
<1> QED BY <1>3, <1>4, <1>5, <1>6, RegisterKept

\* A poll that finds the clock at rest: the past reading is over.
LEMMA PollKeeps ==
  ASSUME RtcIInv, Poll
  PROVE  RtcIInv'
<1>1. RtcTypeOK /\ ReadingInv /\ snap = <<>>
  BY DEF RtcIInv, TimeIsReal, Poll
<1>2. /\ began # Idle /\ ~ready /\ ~changing /\ ready' = TRUE
      /\ UNCHANGED <<clock, date, secs, changing, snap, prev, time, first, days, ticks, began, opened>>
  BY DEF Poll
<1>3. /\ TimeIsReal' /\ ClockRight' /\ CallInv'
      /\ Elapsed' = Elapsed /\ Reach' = Reach /\ \A j, k : Register(j, k)' = Register(j, k)
  <2>1. ready' \in BOOLEAN /\ snap' \in Seq(Nat) /\ Len(snap') <= Registers /\ prev' \in Seq(Nat)
        /\ Len(prev') \in {0, Registers}
    BY <1>1, <1>2 DEF RtcTypeOK
  <2> QED BY <1>2, <2>1, ReaderSteps
<1>4. Elapsed \in Nat /\ Reach = Elapsed
  BY <1>2, CallFacts
<1>5. ReadingInv'
  <2>1. \A k \in 1 .. Len(prev) : \E j \in 0 .. Elapsed : prev[k] = Register(j, k)
    BY <1>1, <1>2, <1>4 DEF ReadingInv
  <2>2. Elapsed \in 0 .. Elapsed
    BY <1>4
  <2>3. Len(snap') = 0
    BY <1>1, <1>2
  <2>4. ~ \E k : k \in 1 .. 0
    OBVIOUS
  <2>5. \A k \in 1 .. Len(snap') : \E j \in Elapsed .. Reach : snap'[k] = Register(j, k)
    BY <2>3, <2>4
  <2>6. \E m \in 0 .. Elapsed :
          /\ \A k \in 1 .. Len(prev') : \E j \in 0 .. m : prev'[k] = Register(j, k)'
          /\ \A k \in 1 .. Len(snap') : \E j \in m .. Reach' : snap'[k] = Register(j, k)'
    BY <1>2, <1>3, <2>1, <2>2, <2>5
  <2> QED BY <1>2, <1>3, <2>6 DEF ReadingInv
<1> QED BY <1>2, <1>3, <1>5 DEF RtcIInv

\* One more register, with a value of the present or the coming second.
LEMMA ReadRegisterKeeps ==
  ASSUME RtcIInv, ReadRegister
  PROVE  RtcIInv'
<1>1. RtcTypeOK /\ CallInv /\ ReadingInv
  BY DEF RtcIInv, TimeIsReal
<1>2. /\ ready /\ Len(snap) < Registers
      /\ UNCHANGED <<clock, date, secs, changing, ready, prev, time, first, days, ticks, began, opened>>
  BY DEF ReadRegister
<1>3. began # Idle
  BY <1>1, <1>2 DEF CallInv
<1>4. snap \in Seq(Nat) /\ Len(snap) \in Nat /\ Len(snap) + 1 \in 1 .. 7
  <2>1. snap \in Seq(Nat) /\ Registers = 7
    BY <1>1 DEF RtcTypeOK, Registers
  <2> QED BY <1>2, <2>1
<1> DEFINE n == Len(snap) + 1
<1>5. PICK v \in Values(n) : snap' = Append(snap, v)
  BY DEF ReadRegister
<1>6. /\ Elapsed \in 0 .. 59 /\ Reach = IF changing THEN Elapsed + 1 ELSE Elapsed
  BY <1>3, CallFacts
<1>7. PICK i \in Elapsed .. Reach : v = Register(i, n) /\ v \in Nat
  <2> HIDE DEF n
  <2>1. n \in 1 .. 7
    BY <1>4 DEF n
  <2>2. /\ Shows(date, secs)[n] = Register(Elapsed, n)
        /\ Shows(Following.date, Following.secs)[n] = Register(Elapsed + 1, n)
        /\ Shows(date, secs)[n] \in Nat /\ Shows(Following.date, Following.secs)[n] \in Nat
    BY <1>3, <2>1, PresentRegisters
  <2>3. CASE v = Shows(date, secs)[n]
    <3>1. Elapsed \in Elapsed .. Reach
      BY <1>6
    <3> QED BY <2>2, <2>3, <3>1
  <2>4. CASE changing /\ v = Shows(Following.date, Following.secs)[n]
    <3>1. Elapsed + 1 \in Elapsed .. Reach
      BY <1>6, <2>4
    <3> QED BY <2>2, <2>4, <3>1
  <2> QED BY <1>5, <2>3, <2>4 DEF Values
<1>8. /\ snap' \in Seq(Nat) /\ Len(snap') = n /\ snap'[n] = v /\ n \in Nat
      /\ \A k \in 1 .. Len(snap) : snap'[k] = snap[k]
  BY <1>4, <1>5, <1>7
<1>9. /\ TimeIsReal' /\ ClockRight' /\ CallInv'
      /\ Elapsed' = Elapsed /\ Reach' = Reach /\ \A j, k : Register(j, k)' = Register(j, k)
  <2>1. ready' \in BOOLEAN /\ prev' \in Seq(Nat) /\ Len(prev') \in {0, Registers}
    BY <1>1, <1>2 DEF RtcTypeOK
  <2>2. Len(snap') <= Registers
    <3>1. n \in 1 .. 7 /\ Registers = 7
      BY <1>4 DEF Registers
    <3> HIDE DEF n
    <3>2. n <= Registers
      BY <3>1
    <3> QED BY <1>8, <3>2
  <2> QED BY <1>2, <1>3, <1>8, <2>1, <2>2, ReaderSteps
<1>10. ReadingInv'
  <2>1. PICK m \in 0 .. Elapsed :
          /\ \A k \in 1 .. Len(prev) : \E j \in 0 .. m : prev[k] = Register(j, k)
          /\ \A k \in 1 .. Len(snap) : \E j \in m .. Reach : snap[k] = Register(j, k)
    BY <1>1, <1>2, <1>3 DEF ReadingInv
  <2>2. i \in m .. Reach
    BY <1>6, <1>7
  <2>3. ASSUME NEW k \in 1 .. n PROVE \E j \in m .. Reach : snap'[k] = Register(j, k)
    <3>1. CASE k = n
      BY <1>7, <1>8, <2>2, <3>1
    <3>2. CASE k # n
      <4>1. k \in 1 .. Len(snap)
        BY <1>4, <3>2
      <4> QED BY <1>8, <2>1, <4>1
    <3> QED BY <3>1, <3>2
  <2> HIDE DEF n
  <2> QED BY <1>2, <1>8, <1>9, <2>1, <2>3 DEF ReadingInv
<1> QED BY <1>2, <1>9, <1>10 DEF RtcIInv

\* Two readings that differ: the second one becomes the first.
LEMMA ReadAgainKeeps ==
  ASSUME RtcIInv, ReadAgain
  PROVE  RtcIInv'
<1>1. RtcTypeOK /\ CallInv /\ ReadingInv /\ (~ready => snap = <<>>)
  BY DEF RtcIInv, TimeIsReal
<1>2. /\ Len(snap) = Registers /\ prev' = snap /\ snap' = <<>> /\ ready' = FALSE
      /\ UNCHANGED <<clock, date, secs, changing, time, first, days, ticks, began, opened>>
  BY DEF ReadAgain
<1>3. ready /\ began # Idle
  <2>1. ready
    BY <1>1, <1>2 DEF Registers
  <2> QED BY <1>1, <2>1 DEF CallInv
<1>4. /\ TimeIsReal' /\ ClockRight' /\ CallInv'
      /\ Elapsed' = Elapsed /\ Reach' = Reach /\ \A j, k : Register(j, k)' = Register(j, k)
  <2>1. ready' \in BOOLEAN /\ prev' \in Seq(Nat) /\ Len(prev') \in {0, Registers}
        /\ snap' \in Seq(Nat) /\ Len(snap') <= Registers
    <3>1. snap \in Seq(Nat) /\ Registers = 7
      BY <1>1 DEF RtcTypeOK, Registers
    <3>2. <<>> \in Seq(Nat) /\ Len(<<>>) <= 7
      OBVIOUS
    <3> QED BY <1>2, <3>1, <3>2
  <2> QED BY <1>2, <1>3, <2>1, ReaderSteps
<1>5. ReadingInv'
  <2>1. PICK m \in 0 .. Elapsed :
          \A k \in 1 .. Len(snap) : \E j \in m .. Reach : snap[k] = Register(j, k)
    BY <1>1, <1>3 DEF ReadingInv
  <2>2. Reach \in Nat /\ Elapsed \in Nat
    BY <1>3, CallFacts
  <2>3. \A k \in 1 .. Len(snap) : \E j \in 0 .. Reach : snap[k] = Register(j, k)
    BY <2>1, <2>2
  <2> QED BY <1>2, <1>4, <2>2, <2>3 DEF ReadingInv
<1> QED BY <1>2, <1>4, <1>5 DEF RtcIInv

\* Quotient and remainder are the only ones.
LEMMA OneRemainder ==
  ASSUME NEW q \in Int, NEW k \in Int, NEW s \in 0 .. Day - 1, NEW r \in 0 .. Day - 1,
         Day * q + s = Day * k + r
  PROVE  r = s
<1> DEFINE a == Day * q
           b == Day * k
<1>1. a \in Int /\ b \in Int
  BY DaysInt, Zenon
<1>2. CASE q = k
  <2>1. a = b
    BY <1>2
  <2> HIDE DEF a, b
  <2> QED BY <1>1, <2>1, a + s = b + r
<1>3. CASE q < k
  <2>1. a + Day <= b
    BY <1>3, TimesOrder, Day \in Nat \ {0}
  <2> QED BY <1>1, <2>1
<1>4. CASE q > k
  <2>1. b + Day <= a
    BY <1>4, TimesOrder, Day \in Nat \ {0}
  <2> QED BY <1>1, <2>1
<1> QED BY <1>2, <1>3, <1>4

\* The time of day is the remainder of whole days and that time.
LEMMA ModDay ==
  ASSUME NEW q \in Int, NEW s \in 0 .. Day - 1
  PROVE  (q * Day + s) % Day = s
<1> DEFINE x == q * Day + s
           k == x \div Day
           r == x % Day
<1>1. x \in Int /\ x = Day * q + s
  <2> DEFINE w == q * Day
  <2>1. w \in Int /\ w = Day * q
    BY DaysInt, Zenon
  <2> HIDE DEF w
  <2>2. w + s \in Int
    BY <2>1
  <2> QED BY <2>1, <2>2, Zenon DEF w
<1>2. k \in Int /\ r \in 0 .. Day - 1 /\ x = Day * k + r
  <2>1. Day \in Nat \ {0}
    OBVIOUS
  <2> HIDE DEF x
  <2> QED BY <1>1, <2>1, DivModInt, Zenon
<1> HIDE DEF x, k, r
<1>3. r = s
  <2>1. Day * q + s = Day * k + r
    BY <1>1, <1>2
  <2> QED BY <1>2, <2>1, OneRemainder
<1> QED BY <1>3 DEF r, x

\* Whole seconds in milliseconds.
LEMMA MilliSeconds ==
  ASSUME NEW s \in 0 .. Day - 1
  PROVE  /\ (s \div 3600) * 3600000 + ((s \div 60) % 60) * 60000 + (s % 60) * 1000 = 1000 * s
         /\ (1000 * s) % 1000 = 0 /\ (1000 * s) \div 1000 = s
<1>1. (s \div 3600) * 3600000 + ((s \div 60) % 60) * 60000 + (s % 60) * 1000 = 1000 * s
  BY SMT
<1>2. (1000 * s) % 1000 = 0 /\ (1000 * s) \div 1000 = s
  BY SMT
<1> QED BY <1>1, <1>2

\* Julian days begin at noon: from midnight to midnight in half days.
LEMMA HalfDays ==
  ASSUME NEW j \in Int, NEW b \in Int, NEW x, x = (2 * (j - 1) + 1) - (2 * b - 1)
  PROVE  x % 2 = 0 /\ x \div 2 = j - b
  BY SMT

\* What is returned is real where the code can read the clock.
LEMMA ReturnedIsReal ==
  ASSUME RtcIInv, Return, Readable'
  PROVE  Real(time')
<1>1. RtcTypeOK
  BY DEF RtcIInv, TimeIsReal
<1>2. /\ Len(snap) = Registers /\ snap = prev
      /\ time' = [halves |-> 2 * (JulianDay(Year(snap), Plain(snap[5]), Plain(snap[4])) - 1) + 1,
                  ms |-> Hour(snap[3]) * 3600000 + Plain(snap[2]) * 60000 + Plain(snap[1]) * 1000,
                  from |-> began, to |-> Now]
      /\ UNCHANGED <<clock, date, secs, changing, first, days, ticks, opened>>
  BY SMT DEF Return, Settled
<1>3. began # Idle
  BY <1>2, SettledReading
<1>4. PICK m \in 0 .. Elapsed : \A k \in 1 .. Registers : snap[k] = Register(m, k)
  BY <1>2, SettledReading
<1>5. /\ IsMoment(opened) /\ Index(opened) = began /\ opened.date.y >= first.start.y
      /\ Elapsed \in 0 .. 59 /\ Elapsed = Now - began
      /\ Present = Later(opened, Elapsed) /\ began \in Nat /\ Now \in Nat
  BY <1>3, CallFacts
<1> DEFINE c == Later(opened, m)
           J == JulianDay(c.date.y, c.date.m, c.date.d)
           b == first.start.jdn
           f == first.secs
           s == c.secs
<1>6. m \in Nat /\ m \in 0 .. Day - 1 /\ began + m \in began .. Now /\ began + m \in Nat
  BY <1>5
<1>7. IsMoment(c) /\ Index(c) = began + m /\ c.date.y \in opened.date.y .. opened.date.y + 1
  BY <1>1, <1>5, <1>6, LaterFacts
<1>8. first.start.y \in Nat /\ b \in Int /\ f \in Int
  <2>1. first.start \in Starts /\ first.secs \in Times
    BY <1>1 DEF RtcTypeOK
  <2>2. /\ first.start.y \in Nat /\ first.start.m \in 1 .. 12
        /\ first.start.d \in 1 .. DaysIn(first.start.y, first.start.m)
        /\ b = JulianDay(first.start.y, first.start.m, first.start.d)
    BY <2>1, StartsAssumption
  <2>3. JulianDay(first.start.y, first.start.m, first.start.d) \in Int
    BY <2>2, JulianDayCounts
  <2> QED BY <2>1, <2>2, <2>3, RtcAssumption, 0 .. Day - 1 \subseteq Int
<1>9. s \in 0 .. Day - 1 /\ J \in Int /\ c.date.y \in Nat /\ opened.date.y \in Nat
  <2> HIDE DEF c
  <2>1. s \in 0 .. Day - 1 /\ c.date \in Date /\ c.date.d <= DaysIn(c.date.y, c.date.m)
    BY <1>7 DEF IsMoment
  <2>2. c.date.y \in Nat /\ c.date.m \in 1 .. 12 /\ c.date.d \in 1 .. 31
    BY <2>1 DEF Date
  <2>3. DaysIn(c.date.y, c.date.m) \in 28 .. 31
    BY <2>2, DaysInFacts
  <2>4. c.date.d \in 1 .. DaysIn(c.date.y, c.date.m)
    BY <2>1, <2>2, <2>3
  <2>5. J \in Int
    BY <2>2, <2>4, JulianDayCounts
  <2>6. opened.date.y \in Nat
    BY <1>5 DEF IsMoment, Date
  <2> QED BY <2>1, <2>2, <2>5, <2>6
<1>10. (J - b) * Day + s - f = began + m
  BY <1>7 DEF Index
<1>11. c.date.y >= first.start.y /\ c.date.y <= date.y /\ date.y \in Nat
  <2>1. c.date.y <= Later(opened, Elapsed).date.y
    <3>1. Elapsed \in 0 .. 60 /\ m \in 0 .. Elapsed
      BY <1>5
    <3> QED BY <1>1, <1>5, <3>1, LaterYears
  <2>2. Later(opened, Elapsed).date = date
    BY <1>5 DEF Present
  <2>3. date.y \in Nat
    BY <1>1 DEF RtcTypeOK, IsMoment, Date
  <2> HIDE DEF c
  <2> QED BY <1>5, <1>7, <1>8, <1>9, <2>1, <2>2, <2>3
<1> HIDE DEF c, J, b, f, s
<1>12. clock.hours24 \/ s \div 3600 \in 1 .. 11
  <2>1. time'.from = began /\ time'.to = Now
    BY <1>2, SMT
  <2>2. clock'.hours24 \/ ((first'.secs + (began + m)) % Day) \div 3600 \in 1 .. 11
    BY <1>6, <2>1 DEF Readable, HoursReadable
  <2>3. f + (began + m) = (J - b) * Day + s
    <3>1. (J - b) * Day \in Int
      <4>1. J - b \in Int
        BY <1>8, <1>9
      <4> QED BY <4>1, DaysInt, Zenon
    <3> QED BY <1>6, <1>8, <1>9, <1>10, <3>1
  <2>4. ((J - b) * Day + s) % Day = s
    <3>1. J - b \in Int
      BY <1>8, <1>9
    <3> QED BY <1>9, <3>1, ModDay
  <2> QED BY <1>2, <2>2, <2>3, <2>4 DEF f
<1>13. IF clock.century THEN c.date.y \div 100 \in 1 .. 99 ELSE c.date.y \div 100 = 20
  <2>1. /\ first.start.y \div 100 <= c.date.y \div 100 /\ c.date.y \div 100 <= date.y \div 100
        /\ first.start.y \div 100 \in Int /\ c.date.y \div 100 \in Int /\ date.y \div 100 \in Int
    BY <1>8, <1>9, <1>11, SMT
  <2>2. IF clock.century THEN first.start.y \div 100 >= 1 /\ date.y \div 100 <= 99
        ELSE first.start.y \div 100 >= 20 /\ date.y \div 100 <= 20
    BY <1>2 DEF Readable, YearsReadable
  <2> QED BY <2>1, <2>2
<1>14. \A k \in 1 .. 7 : snap[k] = Shows(c.date, c.secs)[k]
  BY <1>4 DEF Register, Registers, c
<1>15. /\ Year(snap) = c.date.y /\ Plain(snap[5]) = c.date.m /\ Plain(snap[4]) = c.date.d
       /\ Hour(snap[3]) = s \div 3600 /\ Plain(snap[2]) = (s \div 60) % 60 /\ Plain(snap[1]) = s % 60
  <2>1. Decodable(c)
    BY <1>12, <1>13 DEF s, Decodable
  <2>2. ReadAt(snap, c)
    BY <1>14 DEF ReadAt
  <2>3. DecodedAs(snap, c)
    BY <1>1, <1>7, <2>1, <2>2, Decoded
  <2> QED BY <2>3 DEF s, DecodedAs
<1>16. time' = [halves |-> 2 * (J - 1) + 1, ms |-> 1000 * s, from |-> began, to |-> Now]
  <2>1. Hour(snap[3]) * 3600000 + Plain(snap[2]) * 60000 + Plain(snap[1]) * 1000 = 1000 * s
    BY <1>9, <1>15, MilliSeconds, SMT
  <2>2. JulianDay(Year(snap), Plain(snap[5]), Plain(snap[4])) = J
    BY <1>15 DEF J
  <2> QED BY <1>2, <2>1, <2>2, SMT
<1> DEFINE x == time'.halves - (2 * b - 1)
<1>17. x = (2 * (J - 1) + 1) - (2 * b - 1) /\ time'.ms = 1000 * s /\ time'.from = began /\ time'.to = Now
  BY <1>16
<1>18. x % 2 = 0 /\ x \div 2 = J - b
  <2> HIDE DEF x
  <2> QED BY <1>8, <1>9, <1>17, HalfDays
<1>19. time'.ms % 1000 = 0 /\ time'.ms \div 1000 = s
  BY <1>9, <1>17, MilliSeconds, SMT
<1>20. (x \div 2) * Day + time'.ms \div 1000 - first.secs \in time'.from .. time'.to
  BY <1>6, <1>10, <1>17, <1>18, <1>19 DEF f
<1> QED BY <1>18, <1>19, <1>20, SMT DEF Real, b

\* Two readings that agree: the call returns.
LEMMA ReturnKeeps ==
  ASSUME RtcIInv, Return
  PROVE  RtcIInv'
<1>1. /\ RtcTypeOK /\ ClockRight
  BY DEF RtcIInv, TimeIsReal
<1>2. /\ began' = Idle /\ ready' = FALSE /\ snap' = <<>> /\ prev' = <<>>
      /\ UNCHANGED <<clock, date, secs, changing, first, days, ticks, opened>>
  BY SMT DEF Return
<1>3. RtcTypeOK'
  <2>1. <<>> \in Seq(Nat) /\ Len(<<>>) = 0 /\ 0 <= Registers
    BY DEF Registers
  <2>2. Idle \in Idle .. Now /\ Now' = Now
    BY <1>1, <1>2, NowNat DEF Now, Idle
  <2> QED BY <1>1, <1>2, <2>1, <2>2 DEF RtcTypeOK
<1>4. TimeIsReal'
  <2>1. ASSUME Readable' PROVE Real(time)'
    <3>1. Real(time')
      BY <2>1, ReturnedIsReal
    <3> QED BY <1>2, <3>1, SMT DEF Real
  <2> QED BY <1>3, <2>1 DEF TimeIsReal
<1>5. ClockRight'
  BY <1>1, <1>2 DEF ClockRight, Index, Now
<1>6. CallInv' /\ ReadingInv'
  BY <1>2 DEF CallInv, ReadingInv
<1> QED BY <1>2, <1>4, <1>5, <1>6 DEF RtcIInv

\* The invariant holds at first.
LEMMA RtcInitKeeps == RtcInit => RtcIInv
<1> SUFFICES ASSUME RtcInit PROVE RtcIInv
  OBVIOUS
<1>1. PICK s \in Starts, t \in Times : first = [start |-> s, secs |-> t]
  BY DEF RtcInit
<1>2. /\ first.start = s /\ first.secs = t
      /\ s.y \in Nat /\ s.m \in 1 .. 12 /\ s.d \in 1 .. DaysIn(s.y, s.m) /\ s.jdn = JulianDay(s.y, s.m, s.d)
      /\ t \in 0 .. Day - 1
  BY <1>1, StartsAssumption, RtcAssumption
<1>3. /\ clock \in Clocks /\ date = [y |-> s.y, m |-> s.m, d |-> s.d] /\ secs = t /\ changing = FALSE
      /\ ready = FALSE /\ snap = <<>> /\ prev = <<>> /\ time = NoTime
      /\ days = 0 /\ ticks = 0 /\ began = Idle /\ opened = [date |-> date, secs |-> secs]
  BY <1>1 DEF RtcInit
<1>4. Now = 0
  BY <1>3, SMT DEF Now, Day
<1>5. IsMoment([date |-> date, secs |-> secs])
  <2>1. DaysIn(s.y, s.m) \in 28 .. 31
    BY <1>2, DaysInFacts
  <2>2. s.d \in 1 .. 31 /\ s.d <= DaysIn(s.y, s.m)
    BY <1>2, <2>1
  <2> QED BY <1>2, <1>3, <2>2 DEF IsMoment, Date
<1>6. RtcTypeOK
  <2>1. <<>> \in Seq(Nat) /\ Len(<<>>) = 0 /\ 0 <= Registers /\ 0 \in 0 .. MaxDays /\ 0 \in Nat
    BY RtcAssumption DEF Registers
  <2>2. Idle \in Idle .. 0
    BY DEF Idle
  <2> QED BY <1>1, <1>2, <1>3, <1>4, <1>5, <2>1, <2>2 DEF RtcTypeOK
<1>7. ClockRight
  <2>1. JulianDay(s.y, s.m, s.d) \in Int
    BY <1>2, JulianDayCounts
  <2>2. Index([date |-> date, secs |-> secs]) = (s.jdn - s.jdn) * Day + t - t
    BY <1>2, <1>3 DEF Index
  <2>3. (s.jdn - s.jdn) * Day + t - t = 0
    <3> DEFINE j == s.jdn
    <3>1. j \in Int /\ t \in Int
      BY <1>2, <2>1
    <3> HIDE DEF j
    <3>2. j - j = 0 /\ 0 * Day = 0 /\ t - t = 0 /\ 0 + 0 = 0
      BY <3>1, SMT
    <3> QED BY <3>2 DEF j
  <2> QED BY <1>2, <1>3, <1>4, <2>2, <2>3 DEF ClockRight
<1> QED BY <1>3, <1>6, <1>7 DEF RtcIInv, TimeIsReal, CallInv, ReadingInv

\* Every step keeps the invariant.
LEMMA RtcNextKeeps == RtcIInv /\ [RtcNext]_rtc => RtcIInv'
<1> SUFFICES ASSUME RtcIInv, [RtcNext]_rtc PROVE RtcIInv'
  OBVIOUS
<1>1. CASE UNCHANGED rtc
  <2>1. UNCHANGED <<clock, date, secs, changing, ready, snap, prev, time, first, days, ticks, began, opened>>
    BY <1>1 DEF rtc, readout
  <2>2. \A j, k : Register(j, k)' = Register(j, k)
    BY <2>1, RegisterKept
  <2>3. TimeIsReal' /\ ClockRight' /\ CallInv' /\ ReadingInv'
    <3>1. RtcTypeOK' /\ date'.y >= date.y
      BY <2>1 DEF RtcIInv, TimeIsReal, RtcTypeOK, Now, IsMoment, Date
    <3>2. Elapsed' = Elapsed /\ Reach' = Reach /\ Index(opened)' = Index(opened)
      BY <2>1 DEF Elapsed, Reach, Now, Index
    <3>3. TimeIsReal'
      BY <2>1, <3>1, TimeKept DEF RtcIInv
    <3>4. ClockRight'
      BY <2>1 DEF RtcIInv, ClockRight, Index, Now
    <3>5. CallInv'
      BY <2>1, <3>2 DEF RtcIInv, CallInv
    <3>6. ReadingInv'
      <4>1. CASE began = Idle
        BY <2>1, <4>1 DEF ReadingInv
      <4>2. CASE began # Idle
        <5>1. PICK m \in IF ready THEN 0 .. Elapsed ELSE {Reach} :
                /\ \A k \in 1 .. Len(prev) : \E j \in 0 .. m : prev[k] = Register(j, k)
                /\ \A k \in 1 .. Len(snap) : \E j \in m .. Reach : snap[k] = Register(j, k)
          BY <4>2 DEF RtcIInv, ReadingInv
        <5>2. m \in IF ready' THEN 0 .. Elapsed' ELSE {Reach'}
          BY <2>1, <3>2
        <5> QED BY <2>1, <2>2, <3>2, <5>1, <5>2 DEF ReadingInv
      <4> QED BY <4>1, <4>2
    <3> QED BY <3>3, <3>4, <3>5, <3>6
  <2> QED BY <2>1, <2>3 DEF RtcIInv
<1>2. CASE RtcNext
  BY <1>2, UpdateBeginsKeeps, UpdateEndsKeeps, DayPassesKeeps, CallKeeps, PollKeeps,
     ReadRegisterKeeps, ReadAgainKeeps, ReturnKeeps DEF RtcNext
<1> QED BY <1>1, <1>2

\* The inductive invariant of the clock and its reader.
THEOREM ClockInvariance == RtcSpec => []RtcIInv
  BY RtcInitKeeps, RtcNextKeeps, PTL DEF RtcSpec

\* current_time_ms() returns a time that the clock showed during the call,
\* whatever changes while the registers are read, on every date after the one
\* that the behaviour began with.
THEOREM TimeCorrect == RtcSpec => []TimeIsReal
<1>1. RtcIInv => TimeIsReal
  BY DEF RtcIInv
<1> QED BY <1>1, ClockInvariance, PTL

HIDE DayFacts

-----------------------------------------------------------------------------
(* The NVMe queue.                                                         *)

USE NvmeQueueAssumption

-----------------------------------------------------------------------------
(* Arithmetic of the rings.                                                *)

\* Division with remainder.
LEMMA DivMod ==
  ASSUME NEW a \in Nat, NEW n \in Nat \ {0}
  PROVE  /\ a \div n \in Nat /\ a % n \in 0 .. n - 1
         /\ a = n * (a \div n) + (a % n)
  BY Z3T(30)

\* Quotient and remainder are the only ones.
LEMMA DivModUnique ==
  ASSUME NEW a \in Nat, NEW n \in Nat \ {0}, NEW q \in Nat, NEW r \in 0 .. n - 1,
         a = n * q + r
  PROVE  a \div n = q /\ a % n = r
<1> DEFINE p == a \div n
           s == a % n
<1>1. p \in Nat /\ s \in 0 .. n - 1 /\ a = n * p + s
  BY DivMod
<1> HIDE DEF p, s
<1>2. ~(p < q)
  <2> SUFFICES ASSUME p < q PROVE FALSE
    OBVIOUS
  <2>1. n * (p + 1) <= n * q
    BY <1>1, Z3T(30)
  <2>2. n * (p + 1) = n * p + n
    BY <1>1, Z3T(30)
  <2>3. n * p \in Nat /\ n * q \in Nat
    BY <1>1
  <2> QED BY <1>1, <2>1, <2>2, <2>3
<1>3. ~(q < p)
  <2> SUFFICES ASSUME q < p PROVE FALSE
    OBVIOUS
  <2>1. n * (q + 1) <= n * p
    BY <1>1, Z3T(30)
  <2>2. n * (q + 1) = n * q + n
    BY <1>1, Z3T(30)
  <2>3. n * p \in Nat /\ n * q \in Nat
    BY <1>1
  <2> QED BY <1>1, <2>1, <2>2, <2>3
<1>4. p = q
  BY <1>1, <1>2, <1>3
<1>5. s = r
  <2>1. n * p \in Nat /\ n * q = n * p
    BY <1>1, <1>4
  <2> QED BY <1>1, <2>1
<1> QED BY <1>4, <1>5 DEF p, s

\* Successive numbers take successive places; the phase changes at place 0.
LEMMA NextPlace ==
  ASSUME NEW k \in Nat
  PROVE  /\ k % Size \in Ring /\ PhaseAt(k) \in {0, 1}
         /\ ((k % Size) + 1) % Size = (k + 1) % Size
         /\ PhaseAt(k + 1) = IF (k + 1) % Size = 0 THEN 1 - PhaseAt(k) ELSE PhaseAt(k)
<1> DEFINE q == k \div Size
           r == k % Size
<1>1. q \in Nat /\ r \in 0 .. Size - 1 /\ k = Size * q + r
  BY DivMod
<1>2. PhaseAt(k) = 1 - (q % 2)
  BY DEF PhaseAt
<1> HIDE DEF q, r
<1>3. q % 2 \in {0, 1} /\ (q + 1) % 2 = 1 - (q % 2)
  BY <1>1
<1>4. CASE r + 1 < Size
  <2>1. k + 1 = Size * q + (r + 1) /\ r + 1 \in 0 .. Size - 1
    BY <1>1, <1>4
  <2>2. (k + 1) \div Size = q /\ (k + 1) % Size = r + 1
    BY <1>1, <2>1, DivModUnique
  <2>3. (r + 1) % Size = r + 1
    BY <1>1, <1>4
  <2> QED BY <1>1, <1>2, <1>3, <2>2, <2>3 DEF PhaseAt, Ring, r
<1>5. CASE r + 1 = Size
  <2>1. Size * (q + 1) = Size * q + Size
    BY <1>1, Z3T(30)
  <2>2. k + 1 = Size * (q + 1) + 0 /\ 0 \in 0 .. Size - 1 /\ q + 1 \in Nat
    BY <1>1, <1>5, <2>1
  <2>3. (k + 1) \div Size = q + 1 /\ (k + 1) % Size = 0
    BY <2>2, DivModUnique
  <2>4. (r + 1) % Size = 0
    BY <1>5
  <2> QED BY <1>1, <1>2, <1>3, <2>3, <2>4 DEF PhaseAt, Ring, r
<1> QED BY <1>1, <1>4, <1>5

\* A lap later the place is the same and the phase the other.
LEMMA NextLap ==
  ASSUME NEW k \in Nat
  PROVE  (k + Size) % Size = k % Size /\ PhaseAt(k + Size) = 1 - PhaseAt(k)
<1> DEFINE q == k \div Size
           r == k % Size
<1>1. q \in Nat /\ r \in 0 .. Size - 1 /\ k = Size * q + r
  BY DivMod
<1>2. PhaseAt(k) = 1 - (q % 2)
  BY DEF PhaseAt
<1> HIDE DEF q, r
<1>3. Size * (q + 1) = Size * q + Size
  BY <1>1, Z3T(30)
<1>4. k + Size = Size * (q + 1) + r /\ q + 1 \in Nat /\ k + Size \in Nat
  BY <1>1, <1>3
<1>5. (k + Size) \div Size = q + 1 /\ (k + Size) % Size = r
  BY <1>1, <1>4, DivModUnique
<1>6. (q + 1) % 2 = 1 - (q % 2)
  BY <1>1
<1> QED BY <1>1, <1>2, <1>5, <1>6 DEF PhaseAt, r

\* Numbers less than a lap apart take different places.
LEMMA Apart ==
  ASSUME NEW j \in Nat, NEW k \in Nat, j < k, k < j + Size
  PROVE  j % Size # k % Size
<1> SUFFICES ASSUME j % Size = k % Size PROVE FALSE
  OBVIOUS
<1> DEFINE p == j \div Size
           q == k \div Size
           r == j % Size
<1>1. /\ p \in Nat /\ q \in Nat /\ r \in 0 .. Size - 1
      /\ j = Size * p + r /\ k = Size * q + r
  BY DivMod
<1> HIDE DEF p, q, r
<1>2. Size * p \in Nat /\ Size * q \in Nat
  BY <1>1
<1>3. Size * p < Size * q /\ Size * q < Size * p + Size
  BY <1>1, <1>2
<1>4. CASE q <= p
  <2>1. Size * q <= Size * p
    BY <1>1, <1>4, Z3T(30)
  <2> QED BY <1>2, <1>3, <2>1
<1>5. CASE p < q
  <2>1. Size * (p + 1) <= Size * q /\ Size * (p + 1) = Size * p + Size
    BY <1>1, <1>5, Z3T(30)
  <2> QED BY <1>2, <1>3, <2>1
<1> QED BY <1>1, <1>4, <1>5

\* The accessors of a completion entry undo what the controller wrote.
LEMMA WordFacts ==
  ASSUME NEW cid \in Nat, NEW phase \in {0, 1}, NEW status \in {0, 1}
  PROVE  /\ Word(cid, phase, status) \in Nat
         /\ ~CidLow => /\ Phase(Word(cid, phase, status)) = phase
                       /\ Status(Word(cid, phase, status)) = status
         /\ CidLow /\ cid = 0 => Phase(Word(cid, phase, status)) = 0
<1>1. CASE CidLow
  BY <1>1, Z3T(30) DEF Word, Phase
<1>2. CASE ~CidLow
  BY <1>2, Z3T(30) DEF Word, Phase, Status
<1> QED BY <1>1, <1>2

-----------------------------------------------------------------------------
(* The completion ring.                                                    *)

\* One sequence is the beginning of another.
LEMMA PrefixFacts ==
  ASSUME NEW S, NEW p \in Seq(S), NEW c \in Seq(S)
  PROVE  (Len(c) <= Len(p) /\ c = SubSeq(p, 1, Len(c)))
           <=> (Len(c) <= Len(p) /\ \A k \in 1 .. Len(c) : c[k] = p[k])
<1>1. Len(c) \in Nat /\ Len(p) \in Nat /\ DOMAIN c = 1 .. Len(c)
  OBVIOUS
<1>2. ASSUME Len(c) <= Len(p), \A k \in 1 .. Len(c) : c[k] = p[k]
      PROVE  c = SubSeq(p, 1, Len(c))
  <2>1. /\ SubSeq(p, 1, Len(c)) \in Seq(S)
        /\ Len(SubSeq(p, 1, Len(c))) = Len(c)
        /\ \A k \in 1 .. Len(c) : SubSeq(p, 1, Len(c))[k] = p[k]
    BY <1>1, <1>2
  <2> QED BY <1>1, <1>2, <2>1, SeqEqual
<1>3. ASSUME Len(c) <= Len(p), c = SubSeq(p, 1, Len(c)), NEW k \in 1 .. Len(c)
      PROVE  c[k] = p[k]
  <2>1. SubSeq(p, 1, Len(c))[k] = p[k]
    BY <1>1, <1>3
  <2> QED BY <1>3, <2>1
<1> QED BY <1>2, <1>3

\* Posting an entry into a ring that has room.
LEMMA PostRing ==
  ASSUME NvmeTypeOK, ConsumedInOrder, CompletionRing, NEW d \in done, Post(d)
  PROVE  ConsumedInOrder' /\ CompletionRing'
<1> DEFINE C == Len(consumed)
           P == Len(posted)
           e == [word |-> Word(d.cid, dev_phase, d.status), tag |-> d.tag]
<1>0. /\ posted \in Seq(Tag) /\ consumed \in Seq(Tag) /\ d.tag \in Tag
      /\ d.cid \in Nat /\ d.status \in {0, 1} /\ dev_phase \in {0, 1}
      /\ cq \in [Ring -> [word : Nat, tag : 0 .. MaxCommands]]
  <2>1. d \in [cid : 0 .. CidCount - 1, tag : Tag, status : {0, 1}]
    BY DEF NvmeTypeOK
  <2>2. d.cid \in Nat /\ d.tag \in Tag /\ d.status \in {0, 1}
    BY <2>1
  <2> QED BY <2>2 DEF NvmeTypeOK
<1>1. C \in Nat /\ P \in Nat /\ C <= P /\ P < C + Size
  BY <1>0 DEF CompletionRing, ConsumedInOrder
<1>2. /\ cq_head = C % Size /\ cq_db = cq_head /\ cq_phase = PhaseAt(C)
      /\ cq_tail = P % Size /\ dev_phase = PhaseAt(P)
      /\ \A k \in C .. P - 1 : cq[k % Size].tag = posted[k + 1]
      /\ \A k \in P .. C + Size - 1 : Phase(cq[k % Size].word) # PhaseAt(k)
  BY DEF CompletionRing
<1>3. /\ (cq_tail + 1) % Size # cq_db
      /\ cq' = [cq EXCEPT ![cq_tail] = e]
      /\ cq_tail' = (cq_tail + 1) % Size
      /\ dev_phase' = IF cq_tail' = 0 THEN 1 - dev_phase ELSE dev_phase
      /\ posted' = Append(posted, d.tag)
      /\ UNCHANGED <<cq_head, cq_phase, cq_db, consumed>>
  BY DEF Post, driver
<1>4. e.tag = d.tag
  OBVIOUS
<1>5. /\ Len(posted') = P + 1 /\ posted'[P + 1] = d.tag
      /\ \A k \in 1 .. P : posted'[k] = posted[k]
  BY <1>0, <1>3
<1> HIDE DEF C, P, e
<1>6. P + 1 < C + Size
  <2>1. (P + 1) % Size # C % Size
    BY <1>1, <1>2, <1>3, NextPlace
  <2>2. CASE P + 1 = C + Size
    <3>1. (C + Size) % Size = C % Size
      BY <1>1, NextLap
    <3> QED BY <2>1, <2>2, <3>1
  <2> QED BY <1>1, <2>2
<1>7. P % Size \in Ring /\ cq'[P % Size] = e
  BY <1>0, <1>1, <1>2, <1>3, NextPlace
<1>8. ASSUME NEW k \in C .. C + Size - 1, k # P
      PROVE  cq'[k % Size] = cq[k % Size]
  <2>0. k \in Nat
    BY <1>1
  <2>1. k \in Nat /\ k % Size \in Ring
    BY <2>0, NextPlace
  <2>2. k % Size # P % Size
    <3>1. CASE k < P
      <4>1. P < k + Size
        BY <1>1
      <4> QED BY <1>1, <2>0, <3>1, <4>1, Apart
    <3>2. CASE P < k
      <4>1. k < P + Size
        BY <1>1
      <4> QED BY <1>1, <2>0, <3>2, <4>1, Apart
    <3> QED BY <1>1, <1>8, <2>0, <3>1, <3>2
  <2> QED BY <1>0, <1>2, <1>3, <2>1, <2>2
<1>9. CompletionRing'
  <2>1. Len(consumed') = C /\ Len(posted') = P + 1
    BY <1>3, <1>5 DEF C
  <2>2. cq_tail' = (P + 1) % Size /\ dev_phase' = PhaseAt(P + 1)
    BY <1>1, <1>2, <1>3, NextPlace
  <2>3. ASSUME NEW k \in C .. P PROVE cq'[k % Size].tag = posted'[k + 1]
    <3>1. CASE k = P
      BY <1>4, <1>5, <1>7, <3>1
    <3>2. CASE k # P
      <4>1. k \in C .. P - 1 /\ k \in C .. C + Size - 1 /\ k + 1 \in 1 .. P
        BY <1>1, <3>2
      <4> QED BY <1>2, <1>5, <1>8, <3>2, <4>1
    <3> QED BY <3>1, <3>2
  <2>4. ASSUME NEW k \in P + 1 .. C + Size - 1 PROVE Phase(cq'[k % Size].word) # PhaseAt(k)
    <3>1. k \in P .. C + Size - 1 /\ k \in C .. C + Size - 1 /\ k # P
      BY <1>1
    <3> QED BY <1>2, <1>8, <3>1
  <2>5. ASSUME NEW k \in Len(consumed') .. Len(posted') - 1
        PROVE  cq'[k % Size].tag = posted'[k + 1]
    <3>1. k \in C .. P
      BY <1>1, <2>1
    <3> QED BY <2>3, <3>1
  <2> QED BY <1>2, <1>3, <1>6, <2>1, <2>2, <2>4, <2>5 DEF CompletionRing
<1>10. ConsumedInOrder'
  <2>1. /\ posted' \in Seq(Tag) /\ consumed' \in Seq(Tag)
        /\ Len(consumed') = C /\ consumed' = consumed
    BY <1>0, <1>3 DEF C
  <2>2. C <= P + 1 /\ \A k \in 1 .. C : consumed[k] = posted[k] /\ k \in 1 .. P
    BY <1>0, <1>1, PrefixFacts DEF ConsumedInOrder, C, P
  <2>3. \A k \in 1 .. C : consumed'[k] = posted'[k]
    BY <1>5, <2>1, <2>2
  <2>4. Len(consumed') <= Len(posted')
    BY <1>5, <2>1, <2>2
  <2> QED BY <2>1, <2>3, <2>4, PrefixFacts DEF ConsumedInOrder
<1> QED BY <1>9, <1>10

\* An entry with the expected phase is one that was posted and not consumed.
LEMMA AvailableMeansPosted ==
  ASSUME NvmeTypeOK, ConsumedInOrder, CompletionRing, Available
  PROVE  /\ Len(consumed) \in Nat /\ Len(posted) \in Nat /\ Len(consumed) < Len(posted)
         /\ cq[cq_head].tag = posted[Len(consumed) + 1]
<1>1. Len(consumed) \in Nat /\ Len(posted) \in Nat /\ Len(consumed) <= Len(posted)
  <2>1. posted \in Seq(Tag) /\ consumed \in Seq(Tag)
    BY DEF NvmeTypeOK
  <2> QED BY <2>1 DEF ConsumedInOrder
<1>2. Phase(cq[Len(consumed) % Size].word) = PhaseAt(Len(consumed))
  BY DEF Available, CompletionRing
<1>3. Len(consumed) # Len(posted)
  BY <1>1, <1>2 DEF CompletionRing
<1>4. Len(consumed) \in Len(consumed) .. Len(posted) - 1
  BY <1>1, <1>3
<1> QED BY <1>1, <1>3, <1>4 DEF CompletionRing

\* Consuming it.
LEMMA CompleteRing ==
  ASSUME NvmeTypeOK, ConsumedInOrder, CompletionRing, Complete
  PROVE  ConsumedInOrder' /\ CompletionRing' /\ consumed' \in Seq(Tag)
<1> DEFINE C == Len(consumed)
           P == Len(posted)
<1>0. /\ posted \in Seq(Tag) /\ consumed \in Seq(Tag)
      /\ cq \in [Ring -> [word : Nat, tag : 0 .. MaxCommands]]
  BY DEF NvmeTypeOK
<1>1. Available
  BY DEF Complete
<1>2. C \in Nat /\ P \in Nat /\ C < P /\ P < C + Size /\ cq[cq_head].tag = posted[C + 1]
  BY <1>1, AvailableMeansPosted DEF CompletionRing
<1>3. /\ cq_head = C % Size /\ cq_phase = PhaseAt(C)
      /\ cq_tail = P % Size /\ dev_phase = PhaseAt(P)
      /\ \A k \in C .. P - 1 : cq[k % Size].tag = posted[k + 1]
      /\ \A k \in P .. C + Size - 1 : Phase(cq[k % Size].word) # PhaseAt(k)
  BY DEF CompletionRing
<1>4. /\ cq_head' = (cq_head + 1) % Size /\ cq_db' = cq_head'
      /\ cq_phase' = IF cq_head' = 0 THEN 1 - cq_phase ELSE cq_phase
      /\ consumed' = Append(consumed, cq[cq_head].tag)
      /\ UNCHANGED <<cq, cq_tail, dev_phase, posted>>
  BY DEF Complete, Advance, NextPhase, Doorbell, controller
<1>5. posted[C + 1] \in Tag
  BY <1>0, <1>2
<1>6. /\ consumed' \in Seq(Tag) /\ Len(consumed') = C + 1 /\ consumed'[C + 1] = posted[C + 1]
      /\ \A k \in 1 .. C : consumed'[k] = consumed[k]
  BY <1>0, <1>2, <1>4, <1>5
<1> HIDE DEF C, P
<1>7. CompletionRing'
  <2>1. Len(consumed') = C + 1 /\ Len(posted') = P
    BY <1>4, <1>6 DEF P
  <2>2. cq_head' = (C + 1) % Size /\ cq_phase' = PhaseAt(C + 1)
    BY <1>2, <1>3, <1>4, NextPlace
  <2>3. \A k \in C + 1 .. P - 1 : cq'[k % Size].tag = posted'[k + 1]
    <3>1. \A k \in C + 1 .. P - 1 : k \in C .. P - 1
      BY <1>2
    <3> QED BY <1>3, <1>4, <3>1
  <2>4. ASSUME NEW k \in P .. C + 1 + Size - 1 PROVE Phase(cq'[k % Size].word) # PhaseAt(k)
    <3>1. CASE k = C + Size
      <4>1. k % Size = C % Size /\ PhaseAt(k) = 1 - PhaseAt(C) /\ PhaseAt(C) \in {0, 1}
        BY <1>2, <3>1, NextLap, NextPlace
      <4>2. Phase(cq[C % Size].word) = PhaseAt(C)
        BY <1>1, <1>3 DEF Available
      <4> QED BY <1>4, <4>1, <4>2
    <3>2. CASE k # C + Size
      <4>1. k \in P .. C + Size - 1
        BY <1>2, <3>2
      <4> QED BY <1>3, <1>4, <4>1
    <3> QED BY <3>1, <3>2
  <2>5. P < C + 1 + Size
    BY <1>2
  <2> QED BY <1>3, <1>4, <2>1, <2>2, <2>3, <2>4, <2>5 DEF CompletionRing
<1>8. ConsumedInOrder'
  <2>1. \A k \in 1 .. C : consumed[k] = posted[k]
    BY <1>0, PrefixFacts DEF ConsumedInOrder, C
  <2>2. ASSUME NEW k \in 1 .. C + 1 PROVE consumed'[k] = posted'[k]
    <3>1. k = C + 1 \/ k \in 1 .. C
      BY <1>2
    <3> QED BY <1>4, <1>6, <2>1, <3>1
  <2>3. posted' \in Seq(Tag) /\ Len(consumed') <= Len(posted')
    BY <1>0, <1>2, <1>4, <1>6 DEF P
  <2> QED BY <1>6, <2>2, <2>3, PrefixFacts DEF ConsumedInOrder
<1> QED BY <1>6, <1>7, <1>8

-----------------------------------------------------------------------------
(* What a step does not touch.                                             *)

\* Neither end of the completion ring moves.
LEMMA CompletionKept ==
  ASSUME ConsumedInOrder, CompletionRing,
         UNCHANGED <<cq, cq_head, cq_phase, cq_db, cq_tail, dev_phase, posted, consumed>>
  PROVE  ConsumedInOrder' /\ CompletionRing'
<1>1. ConsumedInOrder'
  BY DEF ConsumedInOrder
<1>2. CompletionRing'
  BY DEF CompletionRing
<1> QED BY <1>1, <1>2

\* No command is submitted or fetched.
LEMMA SubmissionKept ==
  ASSUME SubmissionRing, UNCHANGED <<sq, sq_tail, sq_db, sq_head, tag>>
  PROVE  SubmissionRing'
BY DEF SubmissionRing

\* The places of a ring, forwards and backwards.
LEMMA PlaceFacts ==
  ASSUME NEW p \in Ring
  PROVE  /\ Advance(p) \in Ring /\ (p + Size - 1) % Size \in Ring
         /\ (Advance(p) + Size - 1) % Size = p
<1>1. p \in Nat /\ p < Size
  BY DEF Ring
<1>2. p % Size = p
  BY <1>1
<1>3. (p + Size) % Size = p
  BY <1>1, <1>2, NextLap
<1>4. (p + Size - 1) % Size \in Ring
  <2>1. p + Size - 1 \in Nat
    BY <1>1
  <2> QED BY <2>1, NextPlace
<1>5. CASE p + 1 < Size
  <2>1. Advance(p) = p + 1
    BY <1>1, <1>5 DEF Advance
  <2>2. p + 1 + Size - 1 = p + Size /\ p + 1 \in Ring
    BY <1>1, <1>5 DEF Ring
  <2> QED BY <1>3, <1>4, <2>1, <2>2
<1>6. CASE p + 1 = Size
  <2>1. Advance(p) = 0
    BY <1>1, <1>6 DEF Advance
  <2>2. 0 + Size - 1 = p /\ 0 \in Ring
    BY <1>1, <1>6 DEF Ring
  <2> QED BY <1>2, <1>4, <2>1, <2>2
<1> QED BY <1>1, <1>5, <1>6

-----------------------------------------------------------------------------
(* The steps, one lemma for each.                                          *)

\* The first state.
LEMMA InitRing == NvmeInit => RingInv
<1> SUFFICES ASSUME NvmeInit PROVE RingInv
  OBVIOUS
<1>1. 0 \in Ring /\ 0 \in 0 .. CidCount - 1 /\ 0 \in 0 .. MaxCommands
  BY DEF Ring
<1>2. NvmeTypeOK
  <2>1. NoCommand \in [kind : Kind, cid : 0 .. CidCount - 1, tag : 0 .. MaxCommands]
    BY <1>1 DEF NoCommand, Kind
  <2>2. outcome \in [tag : 0 .. MaxCommands, ok : BOOLEAN] /\ late \in BOOLEAN
    BY <1>1, Zenon DEF NvmeInit
  <2>3. [word |-> 0, tag |-> 0] \in [word : Nat, tag : 0 .. MaxCommands]
    BY <1>1
  <2>4. posted \in Seq(Tag) /\ consumed \in Seq(Tag)
    BY DEF NvmeInit
  <2> QED BY <1>1, <2>1, <2>2, <2>3, <2>4 DEF NvmeInit, NvmeTypeOK
<1>3. Len(posted) = 0 /\ Len(consumed) = 0
  BY DEF NvmeInit
<1>4. ConsumedInOrder
  <2>1. posted \in Seq(Tag) /\ consumed \in Seq(Tag)
    BY <1>2 DEF NvmeTypeOK
  <2> QED BY <1>3, <2>1, PrefixFacts DEF ConsumedInOrder
<1>5. ASSUME NEW k \in 0 .. Size - 1
      PROVE  k % Size = k /\ k \in Ring /\ PhaseAt(k) = 1 /\ Phase(cq[k].word) = 0
  <2>1. k = Size * 0 + k /\ k \in Nat /\ 0 \in Nat
    OBVIOUS
  <2>2. k \div Size = 0 /\ k % Size = k
    BY <2>1, DivModUnique
  <2> QED BY <2>2 DEF PhaseAt, Phase, Ring, NvmeInit
<1>6. CompletionRing
  <2>1. 0 % Size = 0 /\ PhaseAt(0) = 1
    BY <1>5
  <2>2. \A k \in 0 .. 0 + Size - 1 : Phase(cq[k % Size].word) # PhaseAt(k)
    BY <1>5
  <2>3. /\ cq_head = 0 /\ cq_db = 0 /\ cq_phase = 1 /\ cq_tail = 0 /\ dev_phase = 1
    BY DEF NvmeInit
  <2> QED BY <1>3, <2>1, <2>2, <2>3 DEF CompletionRing
<1>7. SubmissionRing
  <2>1. 0 % Size = 0
    BY <1>5
  <2> QED BY <2>1 DEF SubmissionRing, NvmeInit, Ring
<1>8. OneOutstanding /\ SafeUntilTimeout
  BY DEF NvmeInit, OneOutstanding, SafeUntilTimeout, OwnCompletion, FlushIsDurable, BufferStillOwned
<1> QED BY <1>2, <1>4, <1>6, <1>7, <1>8 DEF RingInv

\* submit() puts a command where the ring has its tail.
LEMMA SubmitKeepsRing ==
  ASSUME RingInv, NEW kind \in Kind, Submit(kind)
  PROVE  RingInv'
<1> DEFINE c == [kind |-> kind, cid |-> next_cid, tag |-> tag + 1]
<1>0. NvmeTypeOK /\ ConsumedInOrder /\ CompletionRing /\ SubmissionRing /\ OneOutstanding /\ SafeUntilTimeout
  BY DEF RingInv
<1>1. /\ wait = 0 /\ tag \in 0 .. MaxCommands /\ tag + 1 \in Tag /\ tag + 1 \in 0 .. MaxCommands
      /\ c \in [kind : Kind, cid : 0 .. CidCount - 1, tag : 0 .. MaxCommands]
      /\ sq' = [sq EXCEPT ![sq_tail] = c]
      /\ sq_tail' = Advance(sq_tail) /\ sq_db' = sq_tail' /\ tag' = tag + 1 /\ wait' = tag + 1
      /\ UNCHANGED <<cq_head, cq_phase, outcome, cq_db, controller, ghost>>
  BY <1>0 DEF Submit, NvmeTypeOK, Tag
<1>2. sq_tail \in Ring /\ Advance(sq_tail) \in Ring /\ (Advance(sq_tail) + Size - 1) % Size = sq_tail
  BY <1>0, PlaceFacts DEF NvmeTypeOK
<1>3. NvmeTypeOK'
  <2>1. sq' \in [Ring -> [kind : Kind, cid : 0 .. CidCount - 1, tag : 0 .. MaxCommands]]
    BY <1>0, <1>1 DEF NvmeTypeOK
  <2>2. next_cid' \in 0 .. CidCount - 1
    <3>1. next_cid + 1 \in Nat /\ next_cid' = (next_cid + 1) % CidCount
      BY <1>0 DEF Submit, NvmeTypeOK
    <3> QED BY <3>1, DivMod
  <2> QED BY <1>0, <1>1, <1>2, <2>1, <2>2 DEF NvmeTypeOK, controller, ghost
<1>4. ConsumedInOrder' /\ CompletionRing'
  BY <1>0, <1>1, CompletionKept DEF controller, ghost
<1>5. SubmissionRing'
  <2>1. sq_tail' = (tag + 1) % Size
    <3>1. tag \in Nat /\ sq_tail = tag % Size
      BY <1>0, <1>1 DEF SubmissionRing
    <3> QED BY <1>1, <3>1, NextPlace DEF Advance
  <2>2. tag + 1 < Size => sq_head <= tag + 1
    BY <1>0, <1>1 DEF SubmissionRing, NvmeTypeOK, Ring
  <2>3. ASSUME NEW p \in Ring, p < tag + 1 PROVE sq'[p].tag # 0
    <3>1. CASE p = sq_tail
      BY <1>0, <1>1, <3>1 DEF NvmeTypeOK, Tag
    <3>2. CASE p # sq_tail
      <4>1. p < tag
        <5>1. p = tag => tag % Size = p
          BY <1>1 DEF Ring
        <5> QED BY <1>0, <1>1, <2>3, <3>2, <5>1 DEF SubmissionRing, Ring
      <4> QED BY <1>0, <1>1, <3>2, <4>1 DEF SubmissionRing, NvmeTypeOK
    <3> QED BY <3>1, <3>2
  <2> QED BY <1>1, <2>1, <2>2, <2>3 DEF SubmissionRing, controller
<1>6. OneOutstanding'
  <2> SUFFICES ASSUME ~late' PROVE OneOutstanding'
    BY DEF OneOutstanding
  <2>1. sq_head = sq_tail /\ inflight = {} /\ done = {} /\ posted = consumed /\ acked \subseteq cached
    BY <1>0, <1>1 DEF OneOutstanding, ghost
  <2>2. UNCHANGED <<sq_head, inflight, done, posted, consumed, acked, cached>>
    BY <1>1 DEF controller, ghost
  <2>3. Unfetched'
    BY <1>1, <2>1, <2>2 DEF Unfetched, Advance
  <2>4. Last' = c
    BY <1>0, <1>1, <1>2 DEF Last, NvmeTypeOK
  <2>5. Last'.tag = wait' /\ wait' = tag'
    BY <1>1, <2>4
  <2>6. wait' # 0
    BY <1>1 DEF Tag
  <2> QED BY <2>1, <2>2, <2>3, <2>5, <2>6 DEF OneOutstanding
<1>7. SafeUntilTimeout'
  <2>1. ~late => inflight = {}
    BY <1>0, <1>1 DEF OneOutstanding
  <2> QED BY <1>0, <1>1, <2>1
          DEF SafeUntilTimeout, OwnCompletion, FlushIsDurable, BufferStillOwned, controller, ghost
<1> QED BY <1>3, <1>4, <1>5, <1>6, <1>7 DEF RingInv

\* While the completion of command 0 is overlooked, nothing is available.
LEMMA FirstCallBlind ==
  ASSUME NvmeTypeOK, CompletionRing, FirstUnseen, Available, ~late
  PROVE  ~CidLow
<1> SUFFICES ASSUME CidLow PROVE FALSE
  OBVIOUS
<1>1. Len(consumed) = 0 /\ cq_head \in Ring
  BY DEF FirstUnseen, NvmeTypeOK
<1>2. 0 = Size * 0 + 0 /\ 0 \in Nat /\ 0 \in Ring
  BY DEF Ring
<1>3. 0 \div Size = 0
  BY <1>2, DivModUnique
<1>4. cq_phase = 1
  <2>1. PhaseAt(0) = 1
    BY <1>3 DEF PhaseAt
  <2> QED BY <1>1, <2>1 DEF CompletionRing
<1>5. Phase(cq[cq_head].word) = 0
  BY <1>1 DEF FirstUnseen
<1> QED BY <1>4, <1>5 DEF Available

\* poll_completion() that finds an entry.  Until a call has timed out it is the
\* entry of the command that is waited for.
LEMMA CompleteKeepsRing ==
  ASSUME RingInv, FirstUnseen, Complete
  PROVE  RingInv'
<1>0. NvmeTypeOK /\ ConsumedInOrder /\ CompletionRing /\ SubmissionRing /\ OneOutstanding /\ SafeUntilTimeout
  BY DEF RingInv
<1> DEFINE ok == Status(cq[cq_head].word) = 0
<1>1. /\ wait # 0 /\ Available /\ wait' = 0
      /\ cq_head' = Advance(cq_head) /\ cq_db' = cq_head' /\ cq_phase' = NextPhase(cq_head')
      /\ outcome' = [tag |-> wait, ok |-> ok]
      /\ acked' = IF ok /\ Last.kind = "write" THEN acked \cup {wait} ELSE acked
      /\ promised' = IF ok /\ Last.kind = "flush" THEN acked ELSE promised
      /\ UNCHANGED <<sq, sq_tail, next_cid, tag, sq_db, succeeded, late, posted>>
      /\ UNCHANGED <<cq, sq_head, cq_tail, dev_phase, inflight, done, cached, durable>>
  BY DEF Complete, Acceptable, Last, Doorbell, controller
<1>2. ConsumedInOrder' /\ CompletionRing' /\ consumed' \in Seq(Tag)
  BY <1>0, CompleteRing
<1>3. SubmissionRing'
  BY <1>0, <1>1, SubmissionKept
<1>4. wait \in Tag /\ wait \in 0 .. MaxCommands
  BY <1>0, <1>1 DEF NvmeTypeOK, Tag
<1>5. NvmeTypeOK'
  <2>1. cq_head' \in Ring /\ cq_db' \in Ring
    BY <1>0, <1>1, PlaceFacts DEF NvmeTypeOK
  <2>2. cq_phase' \in {0, 1}
    BY <1>0, <1>1 DEF NvmeTypeOK, NextPhase
  <2>3. outcome' \in [tag : 0 .. MaxCommands, ok : BOOLEAN]
    BY <1>1, <1>4
  <2>4. acked' \subseteq Tag /\ promised' \subseteq Tag
    BY <1>0, <1>1, <1>4 DEF NvmeTypeOK
  <2>5. wait' \in 0 .. MaxCommands
    BY <1>1
  <2> QED BY <1>0, <1>1, <1>2, <2>1, <2>2, <2>3, <2>4, <2>5 DEF NvmeTypeOK
<1>6. ASSUME ~late
      PROVE  ~CidLow /\ Answered /\ acked \subseteq cached /\ promised \subseteq durable
  <2>1. Len(consumed) < Len(posted) /\ Len(consumed) \in Nat /\ Len(posted) \in Nat
    BY <1>0, <1>1, AvailableMeansPosted
  <2>2. posted # consumed
    BY <2>1
  <2>3. ~CidLow
    BY <1>0, <1>1, <1>6, FirstCallBlind
  <2> QED BY <1>0, <1>1, <1>6, <2>2, <2>3
          DEF OneOutstanding, Unfetched, Executing, Ended, SafeUntilTimeout, FlushIsDurable
<1>7. OneOutstanding'
  <2> SUFFICES ASSUME ~late' PROVE OneOutstanding'
    BY DEF OneOutstanding
  <2>1. Answered /\ acked \subseteq cached
    BY <1>1, <1>6
  <2>2. sq_head' = sq_tail' /\ inflight' = {} /\ done' = {}
    BY <1>1, <2>1 DEF Answered
  <2>3. posted' = consumed'
    <3>1. posted \in Seq(Tag) /\ consumed \in Seq(Tag) /\ posted' = posted /\ consumed' \in Seq(Tag)
      BY <1>0, <1>1, <1>2 DEF NvmeTypeOK
    <3>2. consumed' = Append(consumed, cq[cq_head].tag)
      BY DEF Complete
    <3>3. Len(consumed') = Len(posted')
      BY <2>1, <3>1, <3>2 DEF Answered
    <3>4. \A k \in 1 .. Len(consumed') : consumed'[k] = posted'[k]
      BY <1>2, <3>1, PrefixFacts DEF ConsumedInOrder
    <3> QED BY <3>1, <3>3, <3>4, SeqEqual
  <2>4. acked' \subseteq cached'
    BY <1>1, <1>6, <2>1 DEF Answered, Effect
  <2> QED BY <1>1, <2>2, <2>3, <2>4 DEF OneOutstanding
<1>8. SafeUntilTimeout'
  <2>1. OwnCompletion'
    BY <1>1, <1>6 DEF OwnCompletion, Answered, Effect
  <2>2. FlushIsDurable'
    BY <1>1, <1>6 DEF FlushIsDurable, Answered, Effect
  <2>3. BufferStillOwned'
    BY <1>1, <1>6 DEF BufferStillOwned, Answered
  <2> QED BY <2>1, <2>2, <2>3 DEF SafeUntilTimeout
<1> QED BY <1>2, <1>3, <1>5, <1>7, <1>8 DEF RingInv

\* poll_with_timeout() that gives up.
LEMMA TimeoutKeepsRing ==
  ASSUME RingInv, Timeout
  PROVE  RingInv'
<1>0. NvmeTypeOK /\ ConsumedInOrder /\ CompletionRing /\ SubmissionRing
  BY DEF RingInv
<1>1. /\ outcome' = [tag |-> wait, ok |-> FALSE] /\ wait' = 0 /\ late' = TRUE
      /\ UNCHANGED <<sq, sq_tail, next_cid, cq_head, cq_phase, tag, sq_db, cq_db>>
      /\ UNCHANGED <<succeeded, acked, promised, posted, consumed>>
      /\ UNCHANGED <<cq, sq_head, cq_tail, dev_phase, inflight, done, cached, durable>>
  BY DEF Timeout, controller
<1>2. NvmeTypeOK'
  <2>1. wait \in 0 .. MaxCommands /\ 0 \in 0 .. MaxCommands
    BY <1>0 DEF NvmeTypeOK
  <2>2. outcome' \in [tag : 0 .. MaxCommands, ok : BOOLEAN] /\ late' \in BOOLEAN
    BY <1>1, <2>1, Zenon
  <2> QED BY <1>0, <1>1, <2>1, <2>2 DEF NvmeTypeOK
<1>3. ConsumedInOrder' /\ CompletionRing' /\ SubmissionRing'
  BY <1>0, <1>1, CompletionKept, SubmissionKept
<1>4. OneOutstanding' /\ SafeUntilTimeout'
  BY <1>1 DEF OneOutstanding, SafeUntilTimeout, OwnCompletion, FlushIsDurable, BufferStillOwned
<1> QED BY <1>2, <1>3, <1>4 DEF RingInv

\* The controller fetches a command.
LEMMA FetchKeepsRing ==
  ASSUME RingInv, Fetch
  PROVE  RingInv'
<1>0. NvmeTypeOK /\ ConsumedInOrder /\ CompletionRing /\ SubmissionRing /\ OneOutstanding /\ SafeUntilTimeout
  BY DEF RingInv
<1>1. /\ sq_head # sq_tail /\ inflight' = inflight \cup {sq[sq_head]} /\ sq_head' = Advance(sq_head)
      /\ UNCHANGED <<sq, sq_tail, next_cid, cq_head, cq_phase, wait, tag, outcome, sq_db, cq_db>>
      /\ UNCHANGED <<cq, cq_tail, dev_phase, done, cached, durable>>
      /\ UNCHANGED <<succeeded, acked, promised, late, posted, consumed>>
  BY <1>0 DEF Fetch, driver, ghost, SubmissionRing
<1>2. /\ sq_head \in Ring /\ Advance(sq_head) \in Ring
      /\ (Advance(sq_head) + Size - 1) % Size = sq_head
  BY <1>0, PlaceFacts DEF NvmeTypeOK
<1>3. sq_head < tag /\ (tag < Size => Advance(sq_head) <= tag)
  <2>1. tag \in Nat /\ sq_tail = tag % Size /\ (tag < Size => sq_head <= tag)
    BY <1>0 DEF SubmissionRing, NvmeTypeOK
  <2>2. CASE tag < Size
    <3>1. tag % Size = tag
      BY <2>1, <2>2
    <3>2. sq_head < tag /\ sq_head + 1 < Size /\ sq_head \in Nat
      BY <1>1, <1>2, <2>1, <2>2, <3>1 DEF Ring
    <3>3. Advance(sq_head) = sq_head + 1
      BY <3>2 DEF Advance
    <3> QED BY <2>1, <3>2, <3>3
  <2>3. CASE tag >= Size
    BY <1>2, <2>1, <2>3 DEF Ring
  <2> QED BY <2>1, <2>2, <2>3
<1>4. sq[sq_head] \in [kind : Kind, cid : 0 .. CidCount - 1, tag : Tag]
  <2>1. /\ sq[sq_head] \in [kind : Kind, cid : 0 .. CidCount - 1, tag : 0 .. MaxCommands]
        /\ sq[sq_head].tag # 0
    BY <1>0, <1>2, <1>3 DEF NvmeTypeOK, SubmissionRing
  <2> QED BY <2>1 DEF Tag
<1>5. NvmeTypeOK'
  BY <1>0, <1>1, <1>2, <1>4 DEF NvmeTypeOK
<1>6. ConsumedInOrder' /\ CompletionRing'
  BY <1>0, <1>1, CompletionKept
<1>7. SubmissionRing'
  BY <1>0, <1>1, <1>3 DEF SubmissionRing
<1>8. ASSUME ~late
      PROVE  /\ wait # 0 /\ wait = tag /\ Last.tag = wait /\ Unfetched /\ acked \subseteq cached
             /\ sq[sq_head] = Last
  <2>1. wait # 0 /\ wait = tag /\ Last.tag = wait /\ Unfetched /\ acked \subseteq cached
    BY <1>0, <1>1, <1>8 DEF OneOutstanding, Executing, Ended, Answered
  <2> QED BY <1>2, <2>1 DEF Unfetched, Last
<1>9. OneOutstanding'
  <2> SUFFICES ASSUME ~late PROVE OneOutstanding'
    BY <1>1 DEF OneOutstanding
  <2>1. Last' = Last
    BY <1>1 DEF Last
  <2>2. Executing'
    BY <1>1, <1>8, <2>1 DEF Executing, Unfetched
  <2> QED BY <1>1, <1>8, <2>1, <2>2 DEF OneOutstanding
<1>10. SafeUntilTimeout'
  <2>1. BufferStillOwned'
    BY <1>1, <1>8 DEF BufferStillOwned, Unfetched
  <2> QED BY <1>0, <1>1, <2>1 DEF SafeUntilTimeout, OwnCompletion, FlushIsDurable
<1> QED BY <1>5, <1>6, <1>7, <1>9, <1>10 DEF RingInv

\* The controller executes a command, or ends it with an error.
LEMMA EndKeepsRing ==
  ASSUME RingInv, NEW c \in inflight, Execute(c) \/ Fail(c)
  PROVE  RingInv'
<1>0. NvmeTypeOK /\ ConsumedInOrder /\ CompletionRing /\ SubmissionRing /\ OneOutstanding /\ SafeUntilTimeout
  BY DEF RingInv
<1>1. PICK status \in {0, 1} :
        /\ inflight' = inflight \ {c}
        /\ done' = done \cup {[cid |-> c.cid, tag |-> c.tag, status |-> status]}
        /\ status = 0 =>
             /\ succeeded' = succeeded \cup {c.tag}
             /\ cached' = IF c.kind = "write" THEN cached \cup {c.tag} ELSE cached
             /\ durable' = IF c.kind = "flush" THEN durable \cup cached ELSE durable
        /\ status = 1 => UNCHANGED <<succeeded, cached, durable>>
  BY DEF Execute, Fail, ghost
<1>2. /\ UNCHANGED <<sq, sq_tail, next_cid, cq_head, cq_phase, wait, tag, outcome, sq_db, cq_db>>
      /\ UNCHANGED <<cq, sq_head, cq_tail, dev_phase>>
      /\ UNCHANGED <<acked, promised, late, posted, consumed>>
  BY DEF Execute, Fail, driver, ghost
<1> DEFINE d == [cid |-> c.cid, tag |-> c.tag, status |-> status]
<1>3. /\ c \in [kind : Kind, cid : 0 .. CidCount - 1, tag : Tag]
      /\ d \in [cid : 0 .. CidCount - 1, tag : Tag, status : {0, 1}]
  BY <1>0 DEF NvmeTypeOK
<1>4. /\ succeeded \subseteq succeeded' /\ cached \subseteq cached' /\ durable \subseteq durable'
      /\ succeeded' \subseteq Tag /\ cached' \subseteq Tag /\ durable' \subseteq Tag
  <2>1. c.tag \in Tag /\ succeeded \subseteq Tag /\ cached \subseteq Tag /\ durable \subseteq Tag
    BY <1>0, <1>3 DEF NvmeTypeOK
  <2> QED BY <1>1, <2>1
<1>5. NvmeTypeOK'
  <2>1. inflight' \subseteq inflight /\ done' = done \cup {d}
    BY <1>1
  <2> HIDE DEF d
  <2> QED BY <1>0, <1>2, <1>3, <1>4, <2>1 DEF NvmeTypeOK
<1>6. ConsumedInOrder' /\ CompletionRing' /\ SubmissionRing'
  BY <1>0, <1>2, CompletionKept, SubmissionKept
<1>7. ASSUME ~late
      PROVE  /\ wait # 0 /\ wait = tag /\ Last.tag = wait /\ Executing /\ acked \subseteq cached
             /\ c = Last
  BY <1>0, <1>7 DEF OneOutstanding, Unfetched, Executing, Ended, Answered
<1>8. OneOutstanding'
  <2> SUFFICES ASSUME ~late PROVE OneOutstanding'
    BY <1>2 DEF OneOutstanding
  <2>1. Last' = Last
    BY <1>2 DEF Last
  <2>2. done' = {d} /\ inflight' = {} /\ d.status = status
    BY <1>1, <1>7 DEF Executing
  <2>3. status = 0 => Effect'
    BY <1>1, <1>2, <1>7, <2>1 DEF Effect
  <2>4. Ended'
    BY <1>2, <1>7, <2>2, <2>3 DEF Ended, Executing
  <2> QED BY <1>2, <1>4, <1>7, <2>1, <2>4 DEF OneOutstanding
<1>9. SafeUntilTimeout'
  BY <1>0, <1>1, <1>2, <1>4
     DEF SafeUntilTimeout, OwnCompletion, FlushIsDurable, BufferStillOwned
<1> QED BY <1>5, <1>6, <1>8, <1>9 DEF RingInv

\* The controller posts a completion.
LEMMA PostKeepsRing ==
  ASSUME RingInv, NEW d \in done, Post(d)
  PROVE  RingInv'
<1>0. NvmeTypeOK /\ ConsumedInOrder /\ CompletionRing /\ SubmissionRing /\ OneOutstanding /\ SafeUntilTimeout
  BY DEF RingInv
<1> DEFINE e == [word |-> Word(d.cid, dev_phase, d.status), tag |-> d.tag]
<1>1. /\ done' = done \ {d} /\ cq' = [cq EXCEPT ![cq_tail] = e]
      /\ cq_tail' = Advance(cq_tail) /\ posted' = Append(posted, d.tag)
      /\ dev_phase' = IF cq_tail' = 0 THEN 1 - dev_phase ELSE dev_phase
      /\ UNCHANGED <<sq, sq_tail, next_cid, cq_head, cq_phase, wait, tag, outcome, sq_db, cq_db>>
      /\ UNCHANGED <<sq_head, inflight, cached, durable>>
      /\ UNCHANGED <<succeeded, acked, promised, late, consumed>>
  BY DEF Post, driver, Advance
<1>2. /\ d \in [cid : 0 .. CidCount - 1, tag : Tag, status : {0, 1}]
      /\ d.cid \in Nat /\ d.tag \in Tag /\ d.status \in {0, 1} /\ dev_phase \in {0, 1}
  <2>1. d \in [cid : 0 .. CidCount - 1, tag : Tag, status : {0, 1}] /\ dev_phase \in {0, 1}
    BY <1>0 DEF NvmeTypeOK
  <2> QED BY <2>1
<1>3. /\ Word(d.cid, dev_phase, d.status) \in Nat
      /\ ~CidLow => Status(Word(d.cid, dev_phase, d.status)) = d.status
  BY <1>2, WordFacts
<1>4. e \in [word : Nat, tag : 0 .. MaxCommands] /\ (~CidLow => Status(e.word) = d.status)
  BY <1>2, <1>3 DEF Tag
<1> HIDE DEF e
<1>5. NvmeTypeOK'
  <2>1. cq_tail \in Ring /\ cq_tail' \in Ring
    BY <1>0, <1>1, PlaceFacts DEF NvmeTypeOK
  <2>2. cq' \in [Ring -> [word : Nat, tag : 0 .. MaxCommands]]
    BY <1>0, <1>1, <1>4 DEF NvmeTypeOK
  <2>3. posted' \in Seq(Tag) /\ dev_phase' \in {0, 1}
    BY <1>0, <1>1, <1>2 DEF NvmeTypeOK
  <2> QED BY <1>0, <1>1, <2>1, <2>2, <2>3 DEF NvmeTypeOK
<1>6. ConsumedInOrder' /\ CompletionRing'
  BY <1>0, PostRing
<1>7. SubmissionRing'
  BY <1>0, <1>1, SubmissionKept
<1>8. OneOutstanding'
  <2> SUFFICES ASSUME ~late PROVE OneOutstanding'
    BY <1>1 DEF OneOutstanding
  <2>1. /\ wait # 0 /\ wait = tag /\ Last.tag = wait /\ Ended /\ acked \subseteq cached
    BY <1>0 DEF OneOutstanding, Unfetched, Executing, Answered
  <2>2. done = {d} /\ (d.status = 0 => Effect) /\ posted = consumed
    BY <2>1 DEF Ended
  <2>3. Last' = Last
    BY <1>1 DEF Last
  <2>4. Effect' <=> Effect
    BY <1>1, <2>3 DEF Effect
  <2>5. cq_head' = cq_tail /\ cq_tail \in Ring
    BY <1>0, <1>1, <2>2 DEF CompletionRing, NvmeTypeOK
  <2>6. cq'[cq_head'] = e
    BY <1>0, <1>1, <2>5 DEF NvmeTypeOK
  <2>7. Len(posted') = Len(consumed') + 1
    BY <1>0, <1>1, <1>2, <2>2 DEF NvmeTypeOK
  <2>8. ~CidLow /\ Status(cq'[cq_head'].word) = 0 => Effect'
    BY <1>4, <2>2, <2>4, <2>6
  <2>9. sq_head' = sq_tail' /\ inflight' = {} /\ done' = {}
    BY <1>1, <2>1, <2>2 DEF Ended
  <2>10. Answered'
    BY <2>7, <2>8, <2>9 DEF Answered
  <2> QED BY <1>1, <2>1, <2>3, <2>10 DEF OneOutstanding
<1>9. SafeUntilTimeout'
  BY <1>0, <1>1 DEF SafeUntilTimeout, OwnCompletion, FlushIsDurable, BufferStillOwned
<1> QED BY <1>5, <1>6, <1>7, <1>8, <1>9 DEF RingInv

-----------------------------------------------------------------------------

\* A step that changes nothing.
LEMMA StutterKeepsRing ==
  ASSUME RingInv, UNCHANGED nvme
  PROVE  RingInv'
<1>1. /\ UNCHANGED <<sq, sq_tail, next_cid, cq_head, cq_phase, wait, tag, outcome, sq_db, cq_db>>
      /\ UNCHANGED <<cq, sq_head, cq_tail, dev_phase, inflight, done, cached, durable>>
      /\ UNCHANGED <<succeeded, acked, promised, late, posted, consumed>>
  BY DEF nvme, driver, controller, ghost
<1>2. NvmeTypeOK'
  BY <1>1 DEF RingInv, NvmeTypeOK
<1>3. ConsumedInOrder' /\ CompletionRing' /\ SubmissionRing'
  BY <1>1, CompletionKept, SubmissionKept DEF RingInv
<1>4. OneOutstanding'
  BY <1>1 DEF RingInv, OneOutstanding, Unfetched, Executing, Ended, Answered, Effect, Last
<1>5. SafeUntilTimeout'
  BY <1>1 DEF RingInv, SafeUntilTimeout, OwnCompletion, FlushIsDurable, BufferStillOwned
<1> QED BY <1>2, <1>3, <1>4, <1>5 DEF RingInv

-----------------------------------------------------------------------------
(* What the accessors read.                                                *)

\* The first state.
LEMMA InitWords ==
  ASSUME NvmeInit
  PROVE  WordInv
<1>1. ASSUME NEW p \in Ring PROVE sq[p].cid = 0 /\ Phase(cq[p].word) = 0
  BY DEF NvmeInit, NoCommand, Phase
<1>2. Len(consumed) = 0 /\ Len(posted) = 0
  BY DEF NvmeInit
<1>3. EntriesRight
  BY <1>2 DEF EntriesRight
<1> QED BY <1>1, <1>3 DEF NvmeInit, WordInv, DoneRight, FirstUnseen, OkIsSuccess

\* The steps that neither post nor consume a completion.
LEMMA EntriesKept ==
  ASSUME EntriesRight, UNCHANGED <<cq, posted, consumed>>, succeeded \subseteq succeeded'
  PROVE  EntriesRight'
BY DEF EntriesRight

\* submit(): the first command has identifier 0.
LEMMA SubmitKeepsWords ==
  ASSUME RingInv, WordInv, NEW kind \in Kind, Submit(kind)
  PROVE  WordInv'
<1>1. /\ wait = 0 /\ tag' = tag + 1 /\ wait' = tag + 1 /\ tag \in Nat
      /\ sq' = [sq EXCEPT ![sq_tail] = [kind |-> kind, cid |-> next_cid, tag |-> tag + 1]]
      /\ UNCHANGED <<cq, inflight, done, outcome, succeeded, late, posted, consumed>>
  BY DEF Submit, controller, ghost, RingInv, NvmeTypeOK
<1>2. EntriesRight'
  BY <1>1, EntriesKept DEF WordInv
<1>3. FirstUnseen'
  <2> SUFFICES ASSUME CidLow, ~late PROVE FirstUnseen'
    BY <1>1 DEF FirstUnseen
  <2>1. tag = 0 /\ next_cid = 0
    BY <1>1 DEF WordInv, FirstUnseen
  <2>2. sq \in [Ring -> [kind : Kind, cid : 0 .. CidCount - 1, tag : 0 .. MaxCommands]]
    BY DEF RingInv, NvmeTypeOK
  <2>3. ASSUME NEW p \in Ring PROVE sq'[p].cid = 0
    <3>1. sq[p].cid = 0
      BY DEF WordInv, FirstUnseen
    <3>2. sq'[p] = IF p = sq_tail THEN [kind |-> kind, cid |-> next_cid, tag |-> tag + 1] ELSE sq[p]
      BY <1>1, <2>2
    <3> QED BY <2>1, <3>1, <3>2
  <2> QED BY <1>1, <2>1, <2>3 DEF WordInv, FirstUnseen
<1> QED BY <1>1, <1>2, <1>3 DEF WordInv, DoneRight, OkIsSuccess

\* poll_completion() returns the status of the entry it takes.
LEMMA CompleteKeepsWords ==
  ASSUME RingInv, WordInv, Complete
  PROVE  WordInv'
<1>1. /\ Available /\ outcome' = [tag |-> wait, ok |-> Status(cq[cq_head].word) = 0]
      /\ consumed' = Append(consumed, cq[cq_head].tag)
      /\ UNCHANGED <<cq, done, succeeded, late, posted>>
  BY DEF Complete, Acceptable, controller
<1>2. /\ NvmeTypeOK /\ ConsumedInOrder /\ CompletionRing
      /\ posted \in Seq(Tag) /\ consumed \in Seq(Tag)
      /\ EntriesRight /\ DoneRight /\ FirstUnseen
  BY DEF RingInv, NvmeTypeOK, WordInv
<1>3. /\ Len(consumed) \in Nat /\ Len(posted) \in Nat /\ Len(consumed) < Len(posted)
      /\ cq[cq_head].tag = posted[Len(consumed) + 1]
  BY <1>1, <1>2, AvailableMeansPosted
<1>4. /\ Len(consumed') = Len(consumed) + 1 /\ consumed' # <<>>
      /\ consumed'[Len(consumed) + 1] = posted[Len(consumed) + 1]
  BY <1>1, <1>2, <1>3
<1>5. EntriesRight'
  BY <1>1, <1>2, <1>3, <1>4 DEF EntriesRight
<1>6. FirstUnseen'
  BY <1>1, <1>2, FirstCallBlind DEF FirstUnseen
<1>7. ~CidLow => OkIsSuccess'
  <2>1. Len(consumed) \in Len(consumed) .. Len(posted) - 1 /\ cq_head = Len(consumed) % Size
    BY <1>2, <1>3 DEF CompletionRing
  <2>2. ~CidLow /\ Status(cq[cq_head].word) = 0 => posted[Len(consumed) + 1] \in succeeded
    BY <1>2, <2>1 DEF EntriesRight
  <2> QED BY <1>1, <1>4, <2>2 DEF OkIsSuccess
<1>8. DoneRight'
  BY <1>1, <1>2 DEF DoneRight
<1> QED BY <1>5, <1>6, <1>7, <1>8 DEF WordInv

\* poll_with_timeout() that gives up: no call that times out returns Ok.
LEMMA TimeoutKeepsWords ==
  ASSUME WordInv, Timeout
  PROVE  WordInv'
<1>1. /\ outcome' = [tag |-> wait, ok |-> FALSE] /\ late' = TRUE
      /\ UNCHANGED <<cq, done, succeeded, posted, consumed>>
  BY DEF Timeout, controller
<1>2. EntriesRight'
  BY <1>1, EntriesKept DEF WordInv
<1> QED BY <1>1, <1>2 DEF WordInv, DoneRight, FirstUnseen, OkIsSuccess

\* The controller fetches a command.
LEMMA FetchKeepsWords ==
  ASSUME RingInv, WordInv, Fetch
  PROVE  WordInv'
<1>1. /\ inflight' = inflight \cup {sq[sq_head]} /\ sq_head \in Ring
      /\ UNCHANGED <<sq, cq, next_cid, wait, tag, outcome, done, succeeded, late, posted, consumed>>
  BY DEF Fetch, driver, ghost, RingInv, NvmeTypeOK
<1>2. EntriesRight'
  BY <1>1, EntriesKept DEF WordInv
<1>3. FirstUnseen'
  BY <1>1 DEF WordInv, FirstUnseen
<1> QED BY <1>1, <1>2, <1>3 DEF WordInv, DoneRight, OkIsSuccess

\* The controller executes a command, or ends it with an error.
LEMMA EndKeepsWords ==
  ASSUME WordInv, NEW c \in inflight, Execute(c) \/ Fail(c)
  PROVE  WordInv'
<1>1. PICK status \in {0, 1} :
        /\ inflight' = inflight \ {c}
        /\ done' = done \cup {[cid |-> c.cid, tag |-> c.tag, status |-> status]}
        /\ succeeded' = IF status = 0 THEN succeeded \cup {c.tag} ELSE succeeded
  BY DEF Execute, Fail, ghost
<1>2. UNCHANGED <<sq, cq, next_cid, wait, tag, outcome, late, posted, consumed>>
  BY DEF Execute, Fail, driver, ghost
<1>3. succeeded \subseteq succeeded'
  BY <1>1
<1>4. EntriesRight'
  BY <1>2, <1>3, EntriesKept DEF WordInv
<1>5. DoneRight'
  BY <1>1, <1>3 DEF WordInv, DoneRight
<1>6. FirstUnseen'
  BY <1>1, <1>2 DEF WordInv, FirstUnseen
<1>7. ~CidLow => OkIsSuccess'
  BY <1>2, <1>3 DEF WordInv, OkIsSuccess
<1> QED BY <1>4, <1>5, <1>6, <1>7 DEF WordInv

\* The controller posts a completion.
LEMMA PostKeepsWords ==
  ASSUME RingInv, WordInv, NEW d \in done, Post(d)
  PROVE  WordInv'
<1> DEFINE C == Len(consumed)
           P == Len(posted)
           e == [word |-> Word(d.cid, dev_phase, d.status), tag |-> d.tag]
<1>1. /\ done' = done \ {d} /\ cq' = [cq EXCEPT ![cq_tail] = e] /\ posted' = Append(posted, d.tag)
      /\ UNCHANGED <<sq, next_cid, wait, tag, outcome, inflight, succeeded, late, consumed>>
  BY DEF Post, driver
<1>2. /\ posted \in Seq(Tag) /\ consumed \in Seq(Tag) /\ d.tag \in Tag
      /\ d.cid \in Nat /\ d.status \in {0, 1} /\ dev_phase \in {0, 1}
      /\ cq \in [Ring -> [word : Nat, tag : 0 .. MaxCommands]]
  <2>1. d \in [cid : 0 .. CidCount - 1, tag : Tag, status : {0, 1}]
    BY DEF RingInv, NvmeTypeOK
  <2>2. d.cid \in Nat /\ d.tag \in Tag /\ d.status \in {0, 1}
    BY <2>1
  <2> QED BY <2>2 DEF RingInv, NvmeTypeOK
<1>3. C \in Nat /\ P \in Nat /\ C <= P /\ P < C + Size /\ cq_tail = P % Size /\ dev_phase = PhaseAt(P)
  BY <1>2 DEF RingInv, CompletionRing, ConsumedInOrder
<1>4. /\ Len(posted') = P + 1 /\ posted'[P + 1] = d.tag
      /\ \A k \in 1 .. P : posted'[k] = posted[k]
  BY <1>1, <1>2
<1>5. /\ ~CidLow => Phase(e.word) = dev_phase /\ Status(e.word) = d.status
      /\ CidLow /\ d.cid = 0 => Phase(e.word) = 0
  <2>1. e.word = Word(d.cid, dev_phase, d.status)
    OBVIOUS
  <2>2. d.cid \in Nat /\ dev_phase \in {0, 1} /\ d.status \in {0, 1}
    BY <1>2
  <2> HIDE DEF e
  <2> QED BY <2>1, <2>2, WordFacts, SMTT(30)
<1>6. d.status = 0 => d.tag \in succeeded
  BY DEF WordInv, DoneRight
<1> HIDE DEF C, P, e
<1>7. cq_tail \in Ring /\ \A p \in Ring : cq'[p] = IF p = cq_tail THEN e ELSE cq[p]
  BY <1>1, <1>2, <1>3, NextPlace
<1>8. EntriesRight'
  <2> SUFFICES ASSUME ~CidLow, NEW k \in C .. P
               PROVE  /\ Phase(cq'[k % Size].word) = PhaseAt(k)
                      /\ Status(cq'[k % Size].word) = 0 => posted'[k + 1] \in succeeded'
    <3>1. Len(consumed') = C
      BY <1>1 DEF C
    <3>2. Len(posted') - 1 = P
      BY <1>3, <1>4
    <3> QED BY <3>1, <3>2, Zenon DEF EntriesRight
  <2>1. k \in Nat /\ k % Size \in Ring
    <3>1. k \in Nat
      BY <1>3
    <3> QED BY <3>1, NextPlace
  <2>2. CASE k = P
    BY <1>1, <1>3, <1>4, <1>5, <1>6, <1>7, <2>1, <2>2
  <2>3. CASE k # P
    <3>1. k < P /\ P < k + Size /\ k \in C .. P - 1 /\ k + 1 \in 1 .. P
      BY <1>3, <2>1, <2>3
    <3>2. k % Size # P % Size
      BY <1>3, <2>1, <3>1, Apart
    <3>3. cq'[k % Size] = cq[k % Size] /\ posted'[k + 1] = posted[k + 1]
      BY <1>3, <1>4, <1>7, <2>1, <3>1, <3>2
    <3>4. /\ Phase(cq[k % Size].word) = PhaseAt(k)
          /\ Status(cq[k % Size].word) = 0 => posted[k + 1] \in succeeded
      BY <3>1 DEF WordInv, EntriesRight, C, P
    <3> QED BY <1>1, <3>3, <3>4
  <2> QED BY <2>2, <2>3
<1>9. FirstUnseen'
  <2> SUFFICES ASSUME CidLow, ~late PROVE FirstUnseen'
    BY <1>1 DEF FirstUnseen
  <2>1. d.cid = 0
    BY DEF WordInv, FirstUnseen
  <2>2. ASSUME NEW p \in Ring PROVE Phase(cq'[p].word) = 0
    BY <1>5, <1>7, <2>1 DEF WordInv, FirstUnseen
  <2> QED BY <1>1, <2>2 DEF WordInv, FirstUnseen
<1>10. DoneRight' /\ (~CidLow => OkIsSuccess')
  BY <1>1 DEF WordInv, DoneRight, OkIsSuccess
<1> QED BY <1>8, <1>9, <1>10 DEF WordInv

\* A step that changes nothing.
LEMMA StutterKeepsWords ==
  ASSUME WordInv, UNCHANGED nvme
  PROVE  WordInv'
<1>1. UNCHANGED <<sq, cq, next_cid, wait, tag, outcome, inflight, done, succeeded, late, posted, consumed>>
  BY DEF nvme, driver, controller, ghost
<1>2. EntriesRight'
  BY <1>1, EntriesKept DEF WordInv
<1> QED BY <1>1, <1>2 DEF WordInv, DoneRight, FirstUnseen, OkIsSuccess

-----------------------------------------------------------------------------

\* The inductive invariant: both rings, the only command that is outstanding
\* until a call times out, and what the accessors read of the entries.
THEOREM Invariance == NvmeSpec => []NvmeIInv
<1>1. NvmeIInv /\ [NvmeNext]_nvme => NvmeIInv'
  <2> SUFFICES ASSUME RingInv, WordInv, FirstUnseen, [NvmeNext]_nvme PROVE RingInv' /\ WordInv'
    BY DEF NvmeIInv, WordInv
  <2>1. CASE UNCHANGED nvme
    BY <2>1, StutterKeepsRing, StutterKeepsWords
  <2>2. CASE Complete
    BY <2>2, CompleteKeepsRing, CompleteKeepsWords
  <2>3. CASE Timeout
    BY <2>3, TimeoutKeepsRing, TimeoutKeepsWords
  <2>4. ASSUME NEW kind \in Kind, Submit(kind) PROVE RingInv' /\ WordInv'
    BY <2>4, SubmitKeepsRing, SubmitKeepsWords
  <2>5. CASE Fetch
    BY <2>5, FetchKeepsRing, FetchKeepsWords
  <2>6. ASSUME NEW c \in inflight, Execute(c) \/ Fail(c) PROVE RingInv' /\ WordInv'
    BY <2>6, EndKeepsRing, EndKeepsWords
  <2>7. ASSUME NEW d \in done, Post(d) PROVE RingInv' /\ WordInv'
    BY <2>7, PostKeepsRing, PostKeepsWords
  <2> QED BY <2>1, <2>2, <2>3, <2>4, <2>5, <2>6, <2>7 DEF NvmeNext, Controller
<1>2. NvmeInit => NvmeIInv
  BY InitRing, InitWords DEF NvmeIInv
<1> QED BY <1>1, <1>2, PTL DEF NvmeSpec

\* An entry that is posted and not consumed is at the head, with its phase.
LEMMA EntriesSeen ==
  ASSUME NvmeIInv
  PROVE  RingsConsistent
<1>1. NvmeTypeOK /\ ConsumedInOrder /\ CompletionRing /\ EntriesRight /\ (~CidLow => OkIsSuccess)
  BY DEF NvmeIInv, RingInv, WordInv
<1>2. ~CidLow => NewEntrySeen
  <2> SUFFICES ASSUME ~CidLow, Len(posted) > Len(consumed) PROVE Available
    BY DEF NewEntrySeen
  <2>1. Len(consumed) \in Nat /\ Len(posted) \in Nat
    <3>1. consumed \in Seq(Tag) /\ posted \in Seq(Tag)
      BY <1>1 DEF NvmeTypeOK
    <3> QED BY <3>1
  <2>2. Len(consumed) \in Len(consumed) .. Len(posted) - 1
    BY <2>1
  <2> QED BY <1>1, <2>2 DEF EntriesRight, CompletionRing, Available
<1> QED BY <1>1, <1>2 DEF RingsConsistent

\* poll_completion() takes each completion at most once and in the order in
\* which the controller posted it, for rings of any size, however often they
\* wrap, however many calls have timed out, and wherever the controller puts
\* the phase.  Where it writes the word as the accessors read it, every
\* completion is seen and no error is returned as Ok.
THEOREM RingsCorrect == NvmeSpec => []RingsConsistent
BY Invariance, EntriesSeen, PTL

\* read_blocks(), write_blocks() and flush() do what their callers rely on as
\* long as none has timed out, wherever the controller puts the phase: with the
\* identifier in the low half no call succeeds before one has timed out.
THEOREM SafeBeforeTimeout == NvmeSpec => []SafeUntilTimeout
<1>1. NvmeIInv => SafeUntilTimeout
  BY DEF NvmeIInv, RingInv
<1> QED BY <1>1, Invariance, PTL
=============================================================================
