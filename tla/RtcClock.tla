------------------------------ MODULE RtcClock -------------------------------
(***************************************************************************)
(* current_time_ms() of vfs/sqlite_vfs.rs: it reads the seven registers of *)
(* the battery clock one by one while the clock runs, twice and until both *)
(* readings agree, decodes them, and makes a Julian day of the date.       *)
(*                                                                         *)
(* The clock itself is external.  Once a second it raises the              *)
(* update-in-progress bit and then changes its registers; a register read  *)
(* meanwhile has its old or its new value.  Days also pass between calls,  *)
(* one at a time, so that every date of a stretch is met.                  *)
(***************************************************************************)
EXTENDS Integers, Sequences, FiniteSets

CONSTANTS
  Starts,       \* first dates of a behaviour: [y, m, d, jdn], jdn its Julian day
  Clocks,       \* kinds of clock: [bcd, hours24, century]
  Times,        \* first times of day, in seconds
  MaxDays,      \* bound: days that pass
  MaxSeconds    \* bound: seconds that pass during a call; less than a minute

Day == 86400  \* in seconds

ASSUME RtcAssumption ==
  /\ Clocks \subseteq [bcd : BOOLEAN, hours24 : BOOLEAN, century : BOOLEAN]
  /\ Times \subseteq 0 .. Day - 1
  /\ MaxDays \in Nat /\ MaxSeconds \in 0 .. 59

VARIABLES
  clock,     \* what kind of clock it is
  date,      \* the date it has, and the seconds since midnight
  secs,
  changing,  \* whether it is changing its registers
  ready,     \* read_rtc_snapshot(): the clock was seen not to be changing
  snap,      \* the registers read so far
  prev,      \* the reading before, <<>> if there is none
  time       \* what the last call returned

\* Not in the code.
VARIABLES
  first,     \* the date and time at which the behaviour began
  days,      \* days and seconds that have passed since
  ticks,
  began,     \* the moment at which the call began, Idle if there is none
  opened     \* the clock at that moment

readout == <<ready, snap, prev>>
rtc == <<clock, date, secs, changing, readout, time, first, days, ticks, began, opened>>

Idle == -1
Registers == 7
NoTime == [halves |-> 0, ms |-> 0, from |-> 0, to |-> -1]
Now == days * Day + ticks

RtcInit ==
  /\ clock \in Clocks
  /\ first \in {[start |-> s, secs |-> t] : s \in Starts, t \in Times}
  /\ date = [y |-> first.start.y, m |-> first.start.m, d |-> first.start.d]
  /\ secs = first.secs
  /\ changing = FALSE
  /\ ready = FALSE /\ snap = <<>> /\ prev = <<>>
  /\ time = NoTime
  /\ days = 0 /\ ticks = 0 /\ began = Idle
  /\ opened = [date |-> date, secs |-> secs]

-----------------------------------------------------------------------------
(* The clock.                                                              *)

Leap(y) == y % 4 = 0 /\ (y % 100 # 0 \/ y % 400 = 0)
DaysIn(y, m) ==
  IF m = 2 THEN (IF Leap(y) THEN 29 ELSE 28) ELSE IF m \in {4, 6, 9, 11} THEN 30 ELSE 31
NextDay(d) ==
  CASE d.d < DaysIn(d.y, d.m) -> [d EXCEPT !.d = @ + 1]
    [] d.d = DaysIn(d.y, d.m) /\ d.m < 12 -> [y |-> d.y, m |-> d.m + 1, d |-> 1]
    [] OTHER -> [y |-> d.y + 1, m |-> 1, d |-> 1]

\* A value as a clock in BCD shows it, and an hour as one with 12 does: PM is
\* the high bit.
Shown(v) == IF clock.bcd THEN 16 * (v \div 10) + (v % 10) ELSE v
ShownHour(h) ==
  IF clock.hours24 THEN Shown(h)
  ELSE Shown(IF h % 12 = 0 THEN 12 ELSE h % 12) + (IF h >= 12 THEN 128 ELSE 0)

\* The registers in the order in which they are read.
Shows(d, s) ==
  << Shown(s % 60), Shown((s \div 60) % 60), ShownHour(s \div 3600),
     Shown(d.d), Shown(d.m), Shown(d.y % 100),
     IF clock.century THEN Shown(d.y \div 100) ELSE 0 >>

\* The clock c some seconds later, at most a day.
Later(c, n) ==
  IF c.secs + n < Day THEN [date |-> c.date, secs |-> c.secs + n]
  ELSE [date |-> NextDay(c.date), secs |-> c.secs + n - Day]
Following == Later([date |-> date, secs |-> secs], 1)

UpdateBegins ==
  /\ began # Idle /\ ~changing /\ Now - began < MaxSeconds
  /\ changing' = TRUE
  /\ UNCHANGED <<clock, date, secs, readout, time, first, days, ticks, began, opened>>

UpdateEnds ==
  /\ changing
  /\ changing' = FALSE
  /\ date' = Following.date /\ secs' = Following.secs
  /\ ticks' = ticks + 1
  /\ UNCHANGED <<clock, readout, time, first, days, began, opened>>

DayPasses ==
  /\ began = Idle /\ ~changing /\ days < MaxDays
  /\ date' = NextDay(date) /\ days' = days + 1
  /\ time' = NoTime
  /\ UNCHANGED <<clock, secs, changing, readout, first, ticks, began, opened>>

-----------------------------------------------------------------------------
(* Plausible mistakes in the code, each the body of one definition.        *)

Settled_Once(reading) == TRUE
-----------------------------------------------------------------------------
(* The reader.                                                             *)

Call ==
  /\ began = Idle /\ ~changing /\ time = NoTime
  /\ began' = Now /\ opened' = [date |-> date, secs |-> secs]
  /\ UNCHANGED <<clock, date, secs, changing, readout, time, first, days, ticks>>

\* The loop on the update bit, before a reading.
Poll ==
  /\ began # Idle /\ ~ready /\ ~changing
  /\ ready' = TRUE
  /\ UNCHANGED <<clock, date, secs, changing, snap, prev, time, first, days, ticks, began, opened>>

\* What register k may read.
Values(k) ==
  {Shows(date, secs)[k]} \cup
  (IF changing THEN {Shows(Following.date, Following.secs)[k]} ELSE {})

ReadRegister ==
  /\ ready /\ Len(snap) < Registers
  /\ \E v \in Values(Len(snap) + 1) : snap' = Append(snap, v)
  /\ UNCHANGED <<clock, date, secs, changing, ready, prev, time, first, days, ticks, began, opened>>

\* Two readings in a row that agree.
Settled(reading) == reading = prev

ReadAgain ==
  /\ Len(snap) = Registers /\ ~Settled(snap)
  /\ prev' = snap /\ snap' = <<>> /\ ready' = FALSE
  /\ UNCHANGED <<clock, date, secs, changing, time, first, days, ticks, began, opened>>

\* bcd_to_bin(); the PM bit of the hour is cleared first, so that the test for
\* it finds nothing.
Plain(v) == IF clock.bcd THEN (v % 16) + (v \div 16) * 10 ELSE v
Hour(v) ==
  LET hour == Plain(v % 128)
  IN  IF ~clock.hours24 /\ hour >= 128 THEN ((hour % 128) % 12) + 12 ELSE hour
Year(r) == IF Plain(r[7]) > 0 THEN Plain(r[7]) * 100 + Plain(r[6]) ELSE 2000 + Plain(r[6])

\* The Julian day that begins at noon of a date.
JulianDay(y, m, d) ==
  LET a == (14 - m) \div 12
      adj_y == y + 4800 - a
      adj_m == m + 12 * a - 3
  IN  d + (153 * adj_m + 2) \div 5 + 365 * adj_y
        + adj_y \div 4 - adj_y \div 100 + adj_y \div 400 - 32045

\* The dates that a behaviour may begin with, and their Julian days.
ASSUME StartsAssumption ==
  \A s \in Starts :
    /\ s.y \in Nat /\ s.m \in 1 .. 12 /\ s.d \in 1 .. DaysIn(s.y, s.m)
    /\ s.jdn = JulianDay(s.y, s.m, s.d)

\* The answer in half days, to midnight, and milliseconds since.
Return ==
  /\ Len(snap) = Registers /\ Settled(snap)
  /\ time' = [halves |-> 2 * (JulianDay(Year(snap), Plain(snap[5]), Plain(snap[4])) - 1) + 1,
              ms |-> Hour(snap[3]) * 3600000 + Plain(snap[2]) * 60000 + Plain(snap[1]) * 1000,
              from |-> began, to |-> Now]
  /\ began' = Idle
  /\ ready' = FALSE /\ snap' = <<>> /\ prev' = <<>>
  /\ UNCHANGED <<clock, date, secs, changing, first, days, ticks, opened>>

RtcNext ==
  UpdateBegins \/ UpdateEnds \/ DayPasses \/ Call \/ Poll \/ ReadRegister \/ ReadAgain \/ Return

RtcSpec == RtcInit /\ [][RtcNext]_rtc

-----------------------------------------------------------------------------

Date == [y : Nat, m : 1 .. 12, d : 1 .. 31]
IsMoment(c) ==
  /\ c \in [date : Date, secs : 0 .. Day - 1]
  /\ c.date.d <= DaysIn(c.date.y, c.date.m)

\* Every variable has a value of its type.
RtcTypeOK ==
  /\ clock \in Clocks /\ first.start \in Starts /\ first.secs \in Times
  /\ IsMoment([date |-> date, secs |-> secs]) /\ IsMoment(opened)
  /\ changing \in BOOLEAN /\ ready \in BOOLEAN
  /\ snap \in Seq(Nat) /\ Len(snap) <= Registers
  /\ prev \in Seq(Nat) /\ Len(prev) \in {0, Registers}
  /\ days \in 0 .. MaxDays /\ ticks \in Nat
  /\ began \in Idle .. Now

\* The code reads this clock right: one that counts 24 hours (or showed hours
\* at which that makes no difference during the call) and either has a century
\* register or is in this century all along.
HoursReadable ==
  \/ clock.hours24
  \/ \A t \in time.from .. time.to : ((first.secs + t) % Day) \div 3600 \in 1 .. 11
YearsReadable ==
  IF clock.century THEN first.start.y \div 100 >= 1 /\ date.y \div 100 <= 99
  ELSE first.start.y \div 100 >= 20 /\ date.y \div 100 <= 20
Readable == HoursReadable /\ YearsReadable

\* The time t, in days and seconds since the behaviour began, is one of those
\* at which the call was under way.
Real(t) ==
  LET midnight == t.halves - (2 * first.start.jdn - 1)
  IN  /\ midnight % 2 = 0 /\ t.ms % 1000 = 0
      /\ (midnight \div 2) * Day + t.ms \div 1000 - first.secs \in t.from .. t.to

\* The time returned is one that the clock has shown during the call, counted
\* in days and seconds from a date whose Julian day is known: no reading mixes
\* the registers of two seconds, and leap years and centuries count right.
TimeIsReal == RtcTypeOK /\ (time # NoTime /\ Readable => Real(time))

-----------------------------------------------------------------------------
(* Why these hold.                                                         *)

\* Seconds from the beginning of the behaviour to a moment.
Index(c) ==
  (JulianDay(c.date.y, c.date.m, c.date.d) - first.start.jdn) * Day + c.secs - first.secs

\* The clock goes right: it shows the moment that has come.
ClockRight ==
  /\ Index([date |-> date, secs |-> secs]) = Now
  /\ date.y >= first.start.y

\* Seconds since the call began, and those of which registers can be read.
Elapsed == Now - began
Reach == IF changing THEN Elapsed + 1 ELSE Elapsed
Register(j, k) == LET c == Later(opened, j) IN Shows(c.date, c.secs)[k]

\* The clock since the call began.
CallInv ==
  IF began = Idle THEN ~ready /\ prev = <<>>
  ELSE /\ Index(opened) = began /\ opened.date.y >= first.start.y
       /\ Elapsed \in 0 .. MaxSeconds /\ Reach <= MaxSeconds
       /\ [date |-> date, secs |-> secs] = Later(opened, Elapsed)

\* A poll separates two readings: what was read before it is no later, and
\* what was read since is no earlier.
ReadingInv ==
  began # Idle =>
    \E m \in IF ready THEN 0 .. Elapsed ELSE {Reach} :
      /\ \A k \in 1 .. Len(prev) : \E j \in 0 .. m : prev[k] = Register(j, k)
      /\ \A k \in 1 .. Len(snap) : \E j \in m .. Reach : snap[k] = Register(j, k)

\* The inductive invariant of the clock and its reader.
RtcIInv ==
  /\ TimeIsReal /\ ClockRight /\ CallInv /\ ReadingInv
  /\ ~ready => snap = <<>>
=============================================================================
