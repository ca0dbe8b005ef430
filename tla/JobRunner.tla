------------------------------ MODULE JobRunner ------------------------------
(***************************************************************************)
(* The in-process job runner of the web tier                               *)
(* (apps/server/src/platform/jobs/job-runner.ts) over its table of job     *)
(* rows (jobs.repository.ts).                                              *)
(*                                                                         *)
(* The rows (status, created) are in SQLite and survive the process; the   *)
(* run queue, the map of pending closures, `current` and the closures      *)
(* under way do not.  Node runs each method to its next `await` without    *)
(* interruption, so enqueue, cancel and the continuation of pump after     *)
(* `await params.execute(ctx)` are one step each.                          *)
(***************************************************************************)
EXTENDS Integers, Sequences

CONSTANTS Jobs,   \* the job ids generateId('job') may still produce
          NoJob   \* the null of `current`

ASSUME NoJobAssumption == NoJob \notin Jobs

VARIABLES
  status,     \* [Jobs -> Statuses]: the status column; "absent" when there is no row
  created,    \* the rows in created_at order
  queue,      \* JobRunner.queue: ids waiting to start
  pending,    \* the keys of JobRunner.pending: ids whose closure is held
  current,    \* JobRunner.current
  executing,  \* the jobs whose closure has been called and has not settled
  up          \* the process is running

rows == <<status, created>>
memory == <<queue, pending, current, executing>>
vars == <<rows, memory, up>>

Active == {"queued", "running"}
Settled == {"succeeded", "failed", "cancelled"}
Statuses == {"absent"} \cup Active \cup Settled

Init ==
  /\ status = [j \in Jobs |-> "absent"]
  /\ created = <<>>
  /\ queue = <<>>
  /\ pending = {}
  /\ current = NoJob
  /\ executing = {}
  /\ up = TRUE

\* queue.splice(k, 1)
Splice(q, k) == [i \in 1 .. Len(q) - 1 |-> IF i < k THEN q[i] ELSE q[i + 1]]

\* Slip: the queue keeps the entry of a cancelled job.
KeepEntry(q, j) == q

\* The queue without the first occurrence of j (indexOf, then splice)
Without(q, j) ==
  IF \E k \in 1 .. Len(q) : q[k] = j
    THEN Splice(q, CHOOSE k \in 1 .. Len(q) : q[k] = j /\ \A i \in 1 .. k - 1 : q[i] # j)
    ELSE q

\* Slip: the head of the queue is started whether or not a job is current.
PumpAlways(st, q, p, c, e) ==
  IF q = <<>>
    THEN /\ status' = st /\ queue' = q /\ pending' = p
         /\ current' = c /\ executing' = e
    ELSE /\ queue' = Tail(q) /\ pending' = p \ {Head(q)}
         /\ status' = [st EXCEPT ![Head(q)] = "running"]
         /\ current' = Head(q) /\ executing' = e \cup {Head(q)}

\* Slip: the queue is popped from its end.
PumpNewest(st, q, p, c, e) ==
  IF c # NoJob \/ q = <<>>
    THEN /\ status' = st /\ queue' = q /\ pending' = p
         /\ current' = c /\ executing' = e
    ELSE LET last == q[Len(q)] IN
         /\ queue' = SubSeq(q, 1, Len(q) - 1) /\ pending' = p \ {last}
         /\ status' = [st EXCEPT ![last] = "running"]
         /\ current' = last /\ executing' = e \cup {last}

(***************************************************************************)
(* pump() on a runner whose rows, queue, pending map, current job and      *)
(* running closures are st, q, p, c and e: nothing while a job is current  *)
(* or the queue is empty; a queue entry without a closure is dropped;      *)
(* otherwise the head of the queue becomes current, its row is marked      *)
(* running and its closure is called.                                      *)
(***************************************************************************)
Pump(st, q, p, c, e) ==
  IF c # NoJob \/ q = <<>>
    THEN /\ status' = st
         /\ queue' = q
         /\ pending' = p
         /\ current' = c
         /\ executing' = e
    ELSE LET next == Head(q) IN
         /\ queue' = Tail(q)
         /\ pending' = p \ {next}
         /\ IF next \notin p
              THEN /\ status' = st
                   /\ current' = c
                   /\ executing' = e
              ELSE /\ status' = [st EXCEPT ![next] = "running"]
                   /\ current' = next
                   /\ executing' = e \cup {next}

(***************************************************************************)
(* enqueue(params): insert the row, hold the closure, append to the queue, *)
(* pump.                                                                   *)
(***************************************************************************)
Enqueue(j) ==
  /\ up
  /\ status[j] = "absent"
  /\ created' = Append(created, j)
  /\ Pump([status EXCEPT ![j] = "queued"],
          Append(queue, j), pending \cup {j}, current, executing)
  /\ UNCHANGED up

\* Slip: cancel does not look at the status.
CancelAny(j) ==
  /\ up
  /\ status[j] # "absent"
  /\ queue' = Without(queue, j)
  /\ pending' = pending \ {j}
  /\ status' = [status EXCEPT ![j] = "cancelled"]
  /\ UNCHANGED <<created, current, executing, up>>

(***************************************************************************)
(* cancel(jobId): only a queued job; it leaves the queue and the map.      *)
(***************************************************************************)
Cancel(j) ==
  /\ up
  /\ status[j] = "queued"
  /\ queue' = Without(queue, j)
  /\ pending' = pending \ {j}
  /\ status' = [status EXCEPT ![j] = "cancelled"]
  /\ UNCHANGED <<created, current, executing, up>>

(***************************************************************************)
(* The promise of a running closure settles: markSucceeded or markFailed,  *)
(* then the finally block clears current and pumps.                        *)
(***************************************************************************)
Settle(j, outcome) ==
  /\ up
  /\ j \in executing
  /\ Pump([status EXCEPT ![j] = outcome],
          queue, pending, NoJob, executing \ {j})
  /\ UNCHANGED <<created, up>>

\* The process dies: everything in memory is gone, the rows stay.
Crash ==
  /\ up
  /\ up' = FALSE
  /\ queue' = <<>>
  /\ pending' = {}
  /\ current' = NoJob
  /\ executing' = {}
  /\ UNCHANGED rows

\* Slip: recovery looks for running rows only.
StartupRunningOnly ==
  /\ ~up
  /\ up' = TRUE
  /\ status' = [j \in Jobs |-> IF status[j] = "running" THEN "failed" ELSE status[j]]
  /\ UNCHANGED <<created, memory>>

\* createJobRunner: recoverInterruptedJobs fails every row still active.
Startup ==
  /\ ~up
  /\ up' = TRUE
  /\ status' = [j \in Jobs |-> IF status[j] \in Active THEN "failed" ELSE status[j]]
  /\ UNCHANGED <<created, memory>>

Next ==
  \/ \E j \in Jobs : \/ Enqueue(j)
                     \/ Cancel(j)
                     \/ \E outcome \in {"succeeded", "failed"} : Settle(j, outcome)
  \/ Crash
  \/ Startup

Spec == Init /\ [][Next]_vars

(***************************************************************************)
(* Every closure settles (the runner has no time limit of its own, so this *)
(* is what it asks of the closures it is given), and a dead process is     *)
(* restarted (the containers' restart policy).  Nobody owes an enqueue, a  *)
(* cancel or a crash.                                                      *)
(***************************************************************************)
Fairness ==
  /\ \A j \in Jobs : WF_vars(\E outcome \in {"succeeded", "failed"} : Settle(j, outcome))
  /\ WF_vars(Startup)

FairSpec == Spec /\ Fairness

-----------------------------------------------------------------------------
TypeOK ==
  /\ status \in [Jobs -> Statuses]
  /\ created \in Seq(Jobs)
  /\ queue \in Seq(Jobs)
  /\ pending \in SUBSET Jobs
  /\ current \in Jobs \cup {NoJob}
  /\ executing \in SUBSET Jobs
  /\ up \in BOOLEAN

(***************************************************************************)
(* Two closures never run at once, whatever enqueue, cancel, settle and    *)
(* restart do in between ("two concurrent restores, or a backup during a   *)
(* restore, is a data-corruption scenario").                               *)
(***************************************************************************)
SerialExecution == \A i, j \in executing : i = j

(***************************************************************************)
(* The rows tell the truth about a live runner: a row is `queued` exactly  *)
(* when its id waits in the queue once with its closure, `running` exactly *)
(* when its closure runs.  A row that is active with nothing behind it     *)
(* would look in progress for ever, and would block the self-update guard. *)
(***************************************************************************)
QueueHoldsQueued ==
  /\ \A j \in Jobs : status[j] = "queued" <=> \E k \in 1 .. Len(queue) : queue[k] = j
  /\ \A k, l \in 1 .. Len(queue) : queue[k] = queue[l] => k = l
  /\ pending = {j \in Jobs : status[j] = "queued"}

CurrentIsRunning ==
  /\ \A j \in Jobs : status[j] = "running" <=> j = current
  /\ executing = {j \in Jobs : j = current}

RowsMatchRunner == up => QueueHoldsQueued /\ CurrentIsRunning

(***************************************************************************)
(* No lost wake-up: a live runner with work in its queue has a job under   *)
(* way whose completion will pump.                                         *)
(***************************************************************************)
NoLostWakeup == up /\ queue # <<>> => current # NoJob

\* A down process holds nothing in memory.
DownIsEmpty == ~up => queue = <<>> /\ pending = {} /\ current = NoJob /\ executing = {}

(***************************************************************************)
(* A job's result is final: no later step changes the row of a job that    *)
(* succeeded, failed or was cancelled (in particular recovery at startup   *)
(* and a cancel arriving late do not).                                     *)
(***************************************************************************)
ResultIsFinal ==
  [][\A j \in Jobs : status[j] \in Settled => status'[j] = status[j]]_vars

(***************************************************************************)
(* Every job that was accepted comes to an end, whether or not the process *)
(* dies and restarts while the job waits or runs.                          *)
(***************************************************************************)
EveryJobEnds == \A j \in Jobs : status[j] \in Active ~> status[j] \in Settled

-----------------------------------------------------------------------------
(***************************************************************************)
(* What the users of the job list are promised, stated on the rows alone:  *)
(* see SerialJobs.                                                         *)
(***************************************************************************)
Promise == INSTANCE SerialJobs WITH rows <- status, order <- created, open <- up
PromiseSpec == Promise!Spec
=============================================================================
