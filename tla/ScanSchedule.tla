---------------------------- MODULE ScanSchedule ----------------------------
(***************************************************************************)
(* When the Cloudflare optimizer's next scan is due (internal/             *)
(* cloudflareopt/schedule.go).  A small calendar stands for the real one:  *)
(* days of DayLength instants, weeks of three days (0 is Sunday), months   *)
(* of four.                                                                *)
(***************************************************************************)
EXTENDS Integers

CONSTANTS
  Schedules,  \* [mode, every, at, clock, dom, dow], fields as sets of [lo, hi, step]
  DayLength, LastDay

VARIABLES schedule, instant, lastRun, due

schvars == <<schedule, instant, lastRun, due>>

ScheduleInit == schedule \in Schedules /\ instant = 0 /\ lastRun = -1 /\ due = -1

----------------------------------------------------------------------------
(* NextRun                                                                 *)

\* parseCronField; value 7 of the day of the week is Sunday, here value 3.
Values(field) == UNION {{v \in c.lo .. c.hi : (v - c.lo) % c.step = 0} : c \in field}

\* (mutant) Only 0 is Sunday.
NoAlias(field) == Values(field)

Weekdays(field) == {v % 3 : v \in Values(field)}
Wild(field, lo, hi) == field = {[lo |-> lo, hi |-> hi, step |-> 1]}

Day(t) == t \div DayLength

\* cronSpec.matches
Fires(s, t) ==
  LET dom == 1 + (Day(t) % 4) \in Values(s.dom)
      dow == (Day(t) % 3) \in Weekdays(s.dow)
  IN /\ t % DayLength \in Values(s.clock)
     /\ CASE Wild(s.dom, 1, 4) /\ Wild(s.dow, 0, 3) -> TRUE
          [] Wild(s.dom, 1, 4) /\ ~Wild(s.dow, 0, 3) -> dow
          [] ~Wild(s.dom, 1, 4) /\ Wild(s.dow, 0, 3) -> dom
          [] OTHER -> dom \/ dow

End == (LastDay + 15) * DayLength
Least(S) == IF S = {} THEN End ELSE CHOOSE t \in S : \A u \in S : t <= u

\* (mutant) A run that is due now is the next one.
NotOver(t) == t >= instant

After(t) == t > instant

\* The day of the last run, and as many periods as it takes.
NextInterval ==
  LET base == IF lastRun = -1 THEN instant ELSE lastRun
  IN Least({t \in 0 .. End - 1 : After(t) /\ t % DayLength = schedule.at /\ Day(t) > Day(base) /\ (Day(t) - Day(base)) % schedule.every = 0})

NextCron == Least({t \in 0 .. End - 1 : After(t) /\ Fires(schedule, t)})

Compute ==
  /\ due' = (IF schedule.mode = "interval" THEN NextInterval ELSE NextCron)
  /\ UNCHANGED <<schedule, instant, lastRun>>

\* A run, by the schedule or by hand.
Run ==
  /\ lastRun' = instant /\ due' = -1
  /\ UNCHANGED <<schedule, instant>>

Passes ==
  /\ instant < LastDay * DayLength /\ instant' = instant + 1 /\ due' = -1
  /\ UNCHANGED <<schedule, lastRun>>

ScheduleNext == Compute \/ Run \/ Passes

----------------------------------------------------------------------------
(* Properties.                                                             *)

\* The next run is in the future, on its schedule, and no earlier time is skipped;
\* an interval counts from the day of the last run.
NextRunIsDue ==
  due # -1 /\ due # End =>
    /\ due > instant
    /\ schedule.mode = "cron" => \A t \in instant + 1 .. due - 1 : ~Fires(schedule, t)
    /\ schedule.mode = "interval" => due % DayLength = schedule.at /\ Day(due) - Day(instant) <= schedule.every

\* Sunday may be written in two ways.
SundayIsSunday ==
  schedule.mode = "cron" /\ schedule.dow = {[lo |-> 3, hi |-> 3, step |-> 1]} =>
    \A t \in 0 .. LastDay * DayLength : Fires(schedule, t) <=> Fires([schedule EXCEPT !.dow = {[lo |-> 0, hi |-> 0, step |-> 1]}], t)
=============================================================================
