---------------------------- MODULE MCJobRunner ----------------------------
(***************************************************************************)
(* ScheduledJobs for TLC.  A behaviour is one of the runner or one of the  *)
(* schedule that gives it backups to make, and the other rests.  The       *)
(* runner has four job ids: enough for one job that runs, two that wait    *)
(* behind it in an order, and one more before or after a restart.          *)
(***************************************************************************)
EXTENDS ScheduledJobs

VARIABLE part

all == <<part, vars, days>>

\* From the last days of January to the first of March: a policy set on a day
\* that February does not have is monthly across a short month.
MCFirsts == <<0, 31, 59, 90>>

MCInit == Init /\ Sched!Init /\ part \in {"runner", "schedule"}

MCNext ==
  \/ part = "runner" /\ Next /\ UNCHANGED <<part, days>>
  \/ part = "schedule" /\ Sched!Next /\ UNCHANGED <<part, vars>>

\* The runner's fairness is void while it rests: none of its fair steps can be
\* taken in Init.
MCSpec ==
  /\ MCInit /\ [][MCNext]_all
  /\ Fairness
  /\ WF_all(part = "schedule" /\ Sched!Tick /\ UNCHANGED <<part, vars>>)
  /\ WF_all(part = "schedule" /\ Sched!Restart /\ UNCHANGED <<part, vars>>)
=============================================================================
