--------------------------- MODULE ScheduledJobs ----------------------------
(***************************************************************************)
(* The job runner (JobRunner), and the schedule that gives it backups to   *)
(* make (Schedule).  The two share no state: a scheduled backup is a job   *)
(* like any other.                                                         *)
(***************************************************************************)
EXTENDS JobRunner

CONSTANTS Firsts, FirstDay, LastDay, MaxChanges, MaxDeaths \* of Schedule

VARIABLES day, policy, alive, looked, fired, gap, changes, deaths

days == <<day, policy, alive, looked, fired, gap, changes, deaths>>

Sched == INSTANCE Schedule WITH row <- policy

\* A month has 28 to 31 days.
ASSUME CalendarAssumption ==
  /\ Firsts \in Seq(Nat) /\ Firsts # <<>> /\ Firsts[1] = 0
  /\ \A m \in 1 .. Len(Firsts) - 1 : Firsts[m + 1] - Firsts[m] \in 28 .. 31
  /\ LastDay \in Nat /\ FirstDay \in 0 .. LastDay /\ LastDay < Firsts[Len(Firsts)]

ASSUME HorizonAssumption == {MaxChanges, MaxDeaths} \subseteq Nat

-----------------------------------------------------------------------------
\* A scheduled backup is made when it is due: not early, not late, not twice
\* (Schedule.tla; runScheduledBackupTickOnce, computeNextRun, updatePolicy).
ScheduleHolds == Sched!ScheduleHolds

\* Every accepted job ends, whatever is enqueued, cancelled or crashes
\* (JobRunner.tla; pump, cancel, startup), and every backup that is due starts
\* (Schedule.tla; runScheduledBackupTickOnce).
WorkGoesOn == EveryJobEnds /\ Sched!DueStarts
=============================================================================
