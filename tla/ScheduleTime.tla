------------------------------ MODULE ScheduleTime ------------------------------
(***************************************************************************)
(* When a schedule runs: deviceSchedule.datetime.ts.  An instant is the    *)
(* number of seconds of WIB (UTC+7) since the first day of Years; a date   *)
(* is a record of numbers.  A result is the set of what is returned: empty *)
(* when the function throws.                                               *)
(*                                                                         *)
(* The functions read the clock again and again: now[1] is what the date   *)
(* of today is taken from, now[2] and now[3] are read later.               *)
(***************************************************************************)
EXTENDS Integers, Sequences, FiniteSets

CONSTANTS
  FirstYear, LastYear,  \* the years of the calendar
  Moments               \* what is asked when: see Moment

VARIABLE when  \* the call that is made

Calendar == [year : FirstYear .. LastYear, month : 1 .. 12, day : 1 .. 31]

-----------------------------------------------------------------------------
(* The calendar of Date and Intl *)

Leap(y) == y % 4 = 0 /\ (y % 100 # 0 \/ y % 400 = 0)
MonthLength(y, m) ==
  IF m = 2 THEN IF Leap(y) THEN 29 ELSE 28 ELSE IF m \in {4, 6, 9, 11} THEN 30 ELSE 31

Real(d) == d.day \leq MonthLength(d.year, d.month)

LeapsTo(y) == y \div 4 - y \div 100 + y \div 400
FirstDay(y) == 365 * (y - FirstYear) + LeapsTo(y - 1) - LeapsTo(FirstYear - 1)

DaysBefore == <<0, 31, 59, 90, 120, 151, 181, 212, 243, 273, 304, 334>>
DayNumber(d) ==
  FirstDay(d.year) + DaysBefore[d.month] + (IF d.month > 2 /\ Leap(d.year) THEN 1 ELSE 0) + d.day - 1

RealDates == {d \in Calendar : Real(d)}
DateOfDay == [n \in {DayNumber(d) : d \in RealDates} |-> CHOOSE d \in RealDates : DayNumber(d) = n]

Day == 86400
Instant(d, h, m) == Day * DayNumber(d) + 3600 * h + 60 * m
GetWibDateParts(t) == DateOfDay[t \div Day]

-----------------------------------------------------------------------------
(* deviceSchedule.datetime.ts *)

\* YYYY-MM-DD, or DD-MM-YYYY: the year is the number of four digits.  A year that
\* begins with 0 is no date here; in the code it is one long past, which
\* ResolveScheduleDateTime refuses just the same.
ParseDateString(s) ==
  IF Len(s) # 3 THEN {}
  ELSE IF s[1] \in 1000 .. 9999 /\ s[2] < 100 /\ s[3] < 100
       THEN {[year |-> s[1], month |-> s[2], day |-> s[3]]}
  ELSE IF s[1] < 100 /\ s[2] < 100 /\ s[3] \in 1000 .. 9999
       THEN {[year |-> s[3], month |-> s[2], day |-> s[1]]}
  ELSE {}

\* A call: a daily schedule gives no date; now is what the clock shows when it is
\* read.  The calendar has the years of the dates, today and tomorrow.
Moment(m) ==
  /\ m.daily \in BOOLEAN
  /\ m.hour \in Int /\ m.minute \in Int
  /\ m.text \in Seq(Nat)                           \* date: the numbers of the string
  /\ DOMAIN m.parts \subseteq {"year", "month", "day"}
  /\ LET dates == [year : FirstYear .. LastYear, month : Int, day : Int]
     IN /\ DOMAIN m.parts = {"year", "month", "day"} => m.parts \in dates
        /\ ParseDateString(m.text) \subseteq dates
  /\ m.now \in Seq(Nat) /\ Len(m.now) = 3
  /\ m.now[1] \leq m.now[2] /\ m.now[2] \leq m.now[3]
  /\ {m.now[1] \div Day, m.now[1] \div Day + 1} \subseteq DOMAIN DateOfDay

ASSUME MomentsAssumption == FirstYear \in Nat /\ LastYear \in Nat /\ \A m \in Moments : Moment(m)

ValidateTimeParts(h, m) == h \in 0 .. 23 /\ m \in 0 .. 59
ValidateDateParts(d) == d.month \in 1 .. 12 /\ d.day \in 1 .. 31

\* A day the month does not have runs over into the next month.
BuildRunAt(d, h, m) == IF ValidateDateParts(d) THEN {Instant(d, h, m)} ELSE {}

AddDaysWib(d, n) == GetWibDateParts(Instant(d, 12, 0) + n * Day)

ResolveDateParts(c) ==
  IF c.text # <<>>
  THEN {[date |-> d, timeOnly |-> FALSE] : d \in ParseDateString(c.text)}
  ELSE IF DOMAIN c.parts # {}
  THEN IF DOMAIN c.parts = {"year", "month", "day"}
       THEN {[date |-> c.parts, timeOnly |-> FALSE]} ELSE {}
  ELSE {[date |-> GetWibDateParts(c.now[1]), timeOnly |-> TRUE]}

RunOn(d, c, timeOnly) ==
  {[runAt |-> t, date |-> d, timeOnly |-> timeOnly] : t \in BuildRunAt(d, c.hour, c.minute)}

ResolveScheduleDateTime(c) ==
  LET today(p) == RunOn(p.date, c, p.timeOnly)
      picked(p) == UNION {IF p.timeOnly /\ r.runAt \leq c.now[2]
                          THEN RunOn(AddDaysWib(p.date, 1), c, TRUE) ELSE {r} : r \in today(p)}
  IN IF ValidateTimeParts(c.hour, c.minute)
     THEN {r \in UNION {picked(p) : p \in ResolveDateParts(c)} : r.runAt > c.now[3]}
     ELSE {}

\* Mutant: a run of this very second is left for today.
ResolveDailyRunNow(c) ==
  LET today == GetWibDateParts(c.now[1]) IN
  IF ValidateTimeParts(c.hour, c.minute)
  THEN UNION {IF r.runAt < c.now[2] THEN RunOn(AddDaysWib(today, 1), c, FALSE) ELSE {r} :
                r \in RunOn(today, c, FALSE)}
  ELSE {}

ResolveNextDailyRun(c) ==
  LET today == GetWibDateParts(c.now[1]) IN
  IF ValidateTimeParts(c.hour, c.minute)
  THEN UNION {IF r.runAt \leq c.now[2] THEN RunOn(AddDaysWib(today, 1), c, FALSE) ELSE {r} :
                r \in RunOn(today, c, FALSE)}
  ELSE {}

\* The pattern "minute hour * * *", run in WIB.
BuildDailyCronPattern(h, m) ==
  IF ValidateTimeParts(h, m) THEN {[minute |-> m, hour |-> h]} ELSE {}

\* Math.round, and at least 1.
MinutesUntilRun(scheduledAt, runAt) ==
  LET n == (runAt - scheduledAt + 30) \div 60 IN IF n < 1 THEN 1 ELSE n

WhenInit == when \in Moments

-----------------------------------------------------------------------------
\* The first instant after t a pattern matches.
FirstAfter(t, cron) ==
  LET hits == {s \in {Day * n + 3600 * cron.hour + 60 * cron.minute :
                        n \in t \div Day .. t \div Day + 1} : s > t}
  IN CHOOSE s \in hits : \A r \in hits : s \leq r

OneDay(t, u) == t \div Day = u \div Day

(***************************************************************************)
(* A daily schedule's next run, which its answer and its log show, is the  *)
(* one its cron pattern gives; a time alone is the next time of day there  *)
(* is; both unless midnight passes while the function runs.  What is       *)
(* accepted is in the future, and has the date it is shown with when that  *)
(* date exists: 31-02 is accepted, and runs in March.                      *)
(***************************************************************************)
RunsAreNextOccurrences ==
  LET c == when
      cron == BuildDailyCronPattern(c.hour, c.minute)
      runs == IF c.daily THEN ResolveNextDailyRun(c) ELSE ResolveScheduleDateTime(c)
      dateless == c.text = <<>> /\ c.parts = <<>>
  IN /\ OneDay(c.now[1], c.now[2]) /\ dateless =>
          {r.runAt : r \in runs}
            = {t \in {FirstAfter(c.now[2], p) : p \in cron} : c.daily \/ t > c.now[3]}
     /\ \A r \in runs :
          /\ ~c.daily => r.runAt > c.now[3]
          /\ GetWibDateParts(r.runAt) = r.date <=> Real(r.date)
          /\ r.runAt > c.now[1] =>
               LET n == MinutesUntilRun(c.now[1], r.runAt) IN
               n \geq 1 /\ 60 * n \in r.runAt - c.now[1] - 30 .. r.runAt - c.now[1] + 59
=============================================================================
