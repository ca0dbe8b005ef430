------------------------------ MODULE Schedule ------------------------------
(***************************************************************************)
(* Scheduled backups (server/src/modules/backups/backup-scheduler.ts,      *)
(* backup-schedule.service.ts, backup-schedule.repository.ts).             *)
(*                                                                         *)
(* A timer looks at the persisted schedule every minute, and starts a      *)
(* backup when one interval has passed since the last one, or since the    *)
(* policy was changed.  Time is counted in days from the first day of a    *)
(* month; the timer has looked at least once between two days the panel is *)
(* up.  A tick is synchronous: only the death of the process cuts it, after*)
(* the job is stored and before the anchor moves; the next start marks     *)
(* that job interrupted (JobRunner.tla).                                   *)
(***************************************************************************)
EXTENDS Integers, Sequences

CONSTANTS Firsts,     \* the first days of the months, in order
          FirstDay,   \* the day it begins
          LastDay,    \* bound: the day it ends
          MaxChanges, \* bound: changes of policy
          MaxDeaths   \* bound: deaths of the process

VARIABLES
  day,     \* today
  row,     \* backup_schedule
  alive,   \* the process runs
  looked,  \* the timer has fired today
  fired,   \* history: the day of the policy's last backup, or of its change; and
  gap,     \*   the days between the last two; interrupted backups left out
  changes, deaths

vars == <<day, row, alive, looked, fired, gap, changes, deaths>>

Frequencies == {"off", "daily", "every3days", "weekly", "monthly"}
None == -1

\* The month a day is in, and the day's date in it counted from 0.
MonthOf(d) == CHOOSE m \in 1 .. Len(Firsts) - 1 : Firsts[m] <= d /\ d < Firsts[m + 1]
DateOf(d) == d - Firsts[MonthOf(d)]

\* anchorOf
Anchor(r) == IF r.last # None THEN r.last ELSE r.updated

\* setUTCMonth(getUTCMonth() + 1): the same date, counted on from the first of
\* the next month, past its end if it is short.
SameDateNextMonth(d) == Firsts[MonthOf(d) + 1] + DateOf(d)

\* computeNextRun
NextRun(r) ==
  CASE r.frequency = "daily" -> Anchor(r) + 1
    [] r.frequency = "every3days" -> Anchor(r) + 3
    [] r.frequency = "weekly" -> Anchor(r) + 7
    [] r.frequency = "monthly" -> SameDateNextMonth(Anchor(r))

\* isBackupDue
DueOn(r, d) == r.frequency # "off" /\ d >= NextRun(r)
Due == DueOn(row, day)

\* get creates the row, off.
Init ==
  /\ day = FirstDay
  /\ row = [frequency |-> "off", updated |-> FirstDay, last |-> None]
  /\ alive = TRUE /\ looked = FALSE
  /\ fired = FirstDay /\ gap = {}
  /\ changes = 0 /\ deaths = 0

\* Slip: from the day it was due.
MarkRanDue(r) == [r EXCEPT !.last = NextRun(r)]

\* markRan: from now, however long the backup was due.
MarkRan(r) == [r EXCEPT !.last = day]

\* runScheduledBackupTickOnce
Tick ==
  /\ alive /\ looked' = TRUE
  /\ IF Due
     THEN row' = MarkRan(row) /\ fired' = day /\ gap' = {day - fired}
     ELSE UNCHANGED <<row, fired, gap>>
  /\ UNCHANGED <<day, alive, changes, deaths>>

\* The process dies, between two statements of a due tick or elsewhere: the
\* anchor has not moved, and the job of a tick cut in two never finishes.
Die ==
  /\ alive /\ deaths < MaxDeaths /\ deaths' = deaths + 1
  /\ alive' = FALSE
  /\ UNCHANGED <<day, row, looked, fired, gap, changes>>

Restart ==
  /\ ~alive /\ alive' = TRUE /\ looked' = FALSE
  /\ UNCHANGED <<day, row, fired, gap, changes, deaths>>

\* updatePolicy: the next run is one interval from the change.
UpdatePolicy(f) ==
  /\ alive /\ changes < MaxChanges /\ changes' = changes + 1
  /\ row' = [frequency |-> f, updated |-> day, last |-> None]
  /\ fired' = day /\ gap' = {}
  /\ UNCHANGED <<day, alive, looked, deaths>>

NextDay ==
  /\ day < LastDay /\ (alive => looked)
  /\ day' = day + 1 /\ looked' = FALSE
  /\ UNCHANGED <<row, alive, fired, gap, changes, deaths>>

Next ==
  \/ Tick \/ Die \/ Restart \/ NextDay
  \/ \E f \in Frequencies : UpdatePolicy(f)

\* The timer goes on, and the container is restarted (restart: unless-stopped).
Fairness == WF_vars(Tick) /\ WF_vars(Restart)
Spec == Init /\ [][Next]_vars /\ Fairness

-----------------------------------------------------------------------------
TypeOK ==
  /\ day \in 0 .. LastDay
  /\ row \in [frequency : Frequencies, updated : 0 .. LastDay, last : {None} \cup 0 .. LastDay]
  /\ alive \in BOOLEAN /\ looked \in BOOLEAN
  /\ fired \in 0 .. LastDay /\ gap \subseteq 0 .. LastDay
  /\ changes \in 0 .. MaxChanges /\ deaths \in 0 .. MaxDeaths

\* The shortest and the longest time between two runs.
Shortest(f) == CASE f = "daily" -> 1 [] f = "every3days" -> 3 [] f = "weekly" -> 7 [] f = "monthly" -> 28
Longest(f) == IF f = "monthly" THEN 31 ELSE Shortest(f)

\* Never early and never a burst: the first backup of a policy comes an
\* interval after the policy was set, every other an interval after the one
\* before, whatever was missed while the panel was down, and whenever it died
\* (runScheduledBackupTickOnce, updatePolicy).
Spaced == \A g \in gap : g >= Shortest(row.frequency)

\* Never late: once the timer has looked, the last backup is less than an
\* interval ago, the ends of short months included, also after a
\* time the panel was down (computeNextRun).
OnTime == looked /\ row.frequency # "off" => day - fired < Longest(row.frequency)

\* A scheduled backup is made when it is due: not early, not late, not twice.
ScheduleHolds == TypeOK /\ Spaced /\ OnTime

\* What came due, while the panel was down too, is started, and once
\* (isBackupDue, markRan).
DueStarts == Due ~> ~Due
=============================================================================
