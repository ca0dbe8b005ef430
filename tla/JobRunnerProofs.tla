-------------------------- MODULE JobRunnerProofs ---------------------------
(***************************************************************************)
(* Proofs about JobRunner, for any set of jobs, and about Schedule, for    *)
(* any months of 28 to 31 days.                                            *)
(*                                                                         *)
(* pump() is called with the runner half updated: by enqueue with a queue  *)
(* whose head may start at once, by the finally block with no job current. *)
(* What it is given there, and what it leaves, is the same relation of     *)
(* rows, queue, closures and current job (Fits); that relation, with the   *)
(* emptiness of a dead process and the absence of lost wake-ups, is the    *)
(* inductive invariant.                                                    *)
(*                                                                         *)
(* In the schedule, what holds in every state is that the policy's anchor  *)
(* is the day its last backup was made, or the policy was set (SchedInv).  *)
(***************************************************************************)
EXTENDS ScheduledJobs, SequenceTheorems, NaturalsInduction, WellFoundedInduction, TLAPS

\* The ids in the queue
Entries(q) == {q[k] : k \in 1 .. Len(q)}

\* No id is twice in the queue.
Unique(q) == \A k, l \in 1 .. Len(q) : q[k] = q[l] => k = l

\* Rows, queue, pending map, current job and running closures agree.
Fits(st, q, p, c, e) ==
  /\ st \in [Jobs -> Statuses]
  /\ q \in Seq(Jobs)
  /\ c \in Jobs \cup {NoJob}
  /\ \A j \in Jobs : st[j] = "queued" <=> j \in Entries(q)
  /\ Unique(q)
  /\ p = {j \in Jobs : st[j] = "queued"}
  /\ \A j \in Jobs : st[j] = "running" <=> j = c
  /\ e = {j \in Jobs : j = c}

IInv == TypeOK /\ RowsMatchRunner /\ NoLostWakeup /\ DownIsEmpty

-----------------------------------------------------------------------------
(***************************************************************************)
(* The queue                                                               *)
(***************************************************************************)

\* queue.push of an id that is not in it
LEMMA PushEntry ==
  ASSUME NEW q \in Seq(Jobs), NEW j \in Jobs, Unique(q), j \notin Entries(q)
  PROVE  /\ Append(q, j) \in Seq(Jobs)
         /\ Append(q, j) # <<>>
         /\ Entries(Append(q, j)) = Entries(q) \cup {j}
         /\ Unique(Append(q, j))
<1> DEFINE r == Append(q, j)
<1>1. /\ r \in Seq(Jobs) /\ Len(r) = Len(q) + 1 /\ Len(q) \in Nat
      /\ \A k \in 1 .. Len(q) : r[k] = q[k]
      /\ r[Len(q) + 1] = j
  OBVIOUS
<1>2. r # <<>>
  BY <1>1
<1> HIDE DEF r
<1>3. \A k \in 1 .. Len(r) : k \in 1 .. Len(q) \/ k = Len(q) + 1
  BY <1>1
<1>4. Entries(r) = Entries(q) \cup {j}
  BY <1>1, <1>3 DEF Entries
<1>5. Unique(r)
  BY <1>1, <1>3 DEF Entries, Unique
<1> QED BY <1>1, <1>2, <1>4, <1>5 DEF r

\* queue.shift
LEMMA ShiftEntry ==
  ASSUME NEW q \in Seq(Jobs), q # <<>>, Unique(q)
  PROVE  /\ Head(q) \in Entries(q) /\ Head(q) \in Jobs
         /\ Tail(q) \in Seq(Jobs)
         /\ Entries(Tail(q)) = Entries(q) \ {Head(q)}
         /\ Unique(Tail(q))
<1> DEFINE r == Tail(q)
<1>1. /\ Len(q) \in Nat \ {0} /\ r \in Seq(Jobs) /\ Len(r) = Len(q) - 1
      /\ \A k \in 1 .. Len(r) : r[k] = q[k + 1]
      /\ Head(q) = q[1] /\ q[1] \in Jobs
  OBVIOUS
<1> HIDE DEF r
<1>2. Head(q) \in Entries(q)
  BY <1>1 DEF Entries
<1>3. \A k \in 1 .. Len(r) : k + 1 \in 1 .. Len(q) /\ k + 1 # 1
  BY <1>1
<1>4. \A k \in 1 .. Len(q) : k # 1 => k - 1 \in 1 .. Len(r) /\ r[k - 1] = q[k]
  BY <1>1
<1>5. Entries(r) = Entries(q) \ {Head(q)}
  <2>1. ASSUME NEW x \in Entries(r) PROVE x \in Entries(q) /\ x # Head(q)
    <3>1. PICK k \in 1 .. Len(r) : x = r[k]
      BY DEF Entries
    <3>2. x = q[k + 1] /\ k + 1 \in 1 .. Len(q) /\ k + 1 # 1 /\ 1 \in 1 .. Len(q)
      BY <1>1, <1>3, <3>1
    <3> QED BY <1>1, <3>2 DEF Entries, Unique
  <2>2. ASSUME NEW x \in Entries(q), x # Head(q) PROVE x \in Entries(r)
    <3>1. PICK k \in 1 .. Len(q) : x = q[k]
      BY DEF Entries
    <3>2. k # 1
      BY <1>1, <2>2, <3>1
    <3> QED BY <1>4, <3>1, <3>2 DEF Entries
  <2> QED BY <2>1, <2>2
<1>6. Unique(r)
  <2> SUFFICES ASSUME NEW k \in 1 .. Len(r), NEW l \in 1 .. Len(r), r[k] = r[l]
               PROVE  k = l
    BY DEF Unique
  <2>1. q[k + 1] = q[l + 1] /\ k + 1 \in 1 .. Len(q) /\ l + 1 \in 1 .. Len(q)
    BY <1>1, <1>3
  <2>2. k + 1 = l + 1
    BY <2>1 DEF Unique
  <2> QED BY <2>2
<1> QED BY <1>1, <1>2, <1>5, <1>6 DEF r

\* queue.splice of the entry of j
LEMMA SpliceEntry ==
  ASSUME NEW q \in Seq(Jobs), NEW j \in Jobs, Unique(q)
  PROVE  /\ Without(q, j) \in Seq(Jobs)
         /\ Entries(Without(q, j)) = Entries(q) \ {j}
         /\ Unique(Without(q, j))
         /\ Without(q, j) # <<>> => q # <<>>
<1>1. CASE ~\E k \in 1 .. Len(q) : q[k] = j
  <2>1. Without(q, j) = q
    BY <1>1 DEF Without
  <2>2. j \notin Entries(q)
    BY <1>1 DEF Entries
  <2> QED BY <2>1, <2>2
<1>2. CASE \E k \in 1 .. Len(q) : q[k] = j
  <2> DEFINE m == CHOOSE k \in 1 .. Len(q) : q[k] = j /\ \A i \in 1 .. k - 1 : q[i] # j
             r == Splice(q, m)
  <2>1. m \in 1 .. Len(q) /\ q[m] = j
    <3>1. PICK k \in 1 .. Len(q) : q[k] = j
      BY <1>2
    <3>2. \A i \in 1 .. k - 1 : q[i] # j
      <4> SUFFICES ASSUME NEW i \in 1 .. k - 1, q[i] = j PROVE FALSE
        OBVIOUS
      <4>1. i \in 1 .. Len(q) /\ i # k
        OBVIOUS
      <4> QED BY <3>1, <4>1 DEF Unique
    <3> QED BY <3>1, <3>2
  <2>2. Without(q, j) = r
    BY <1>2 DEF Without
  <2> HIDE DEF m
  <2>3. /\ Len(q) \in Nat \ {0} /\ q # <<>>
        /\ r \in Seq(Jobs) /\ Len(r) = Len(q) - 1
        /\ \A i \in 1 .. Len(r) : r[i] = IF i < m THEN q[i] ELSE q[i + 1]
    BY <2>1 DEF Splice
  <2> HIDE DEF r
  <2> DEFINE at(i) == IF i < m THEN i ELSE i + 1
  <2>4. \A i \in 1 .. Len(r) : at(i) \in 1 .. Len(q) /\ at(i) # m /\ r[i] = q[at(i)]
    BY <2>1, <2>3
  <2>5. \A i, l \in 1 .. Len(r) : at(i) = at(l) => i = l
    BY <2>1, <2>3
  <2>6. \A k \in 1 .. Len(q) : k # m => \E i \in 1 .. Len(r) : at(i) = k
    <3> SUFFICES ASSUME NEW k \in 1 .. Len(q), k # m PROVE \E i \in 1 .. Len(r) : at(i) = k
      OBVIOUS
    <3>1. CASE k < m
      <4>1. k \in 1 .. Len(r) /\ at(k) = k
        BY <2>1, <2>3, <3>1
      <4> QED BY <4>1
    <3>2. CASE k > m
      <4>1. k - 1 \in 1 .. Len(r) /\ at(k - 1) = k
        BY <2>1, <2>3, <3>2
      <4> QED BY <4>1
    <3> QED BY <2>1, <3>1, <3>2
  <2> HIDE DEF at
  <2>7. Entries(r) = Entries(q) \ {j}
    <3>1. ASSUME NEW x \in Entries(r) PROVE x \in Entries(q) /\ x # j
      <4>1. PICK i \in 1 .. Len(r) : x = r[i]
        BY DEF Entries
      <4>2. x = q[at(i)] /\ at(i) \in 1 .. Len(q) /\ at(i) # m
        BY <2>4, <4>1
      <4> QED BY <2>1, <4>2 DEF Entries, Unique
    <3>2. ASSUME NEW x \in Entries(q), x # j PROVE x \in Entries(r)
      <4>1. PICK k \in 1 .. Len(q) : x = q[k]
        BY DEF Entries
      <4>2. PICK i \in 1 .. Len(r) : at(i) = k
        BY <2>1, <2>6, <3>2, <4>1
      <4> QED BY <2>4, <4>1, <4>2 DEF Entries
    <3> QED BY <3>1, <3>2
  <2>8. Unique(r)
    <3> SUFFICES ASSUME NEW i \in 1 .. Len(r), NEW l \in 1 .. Len(r), r[i] = r[l]
                 PROVE  i = l
      BY DEF Unique
    <3>1. at(i) = at(l)
      BY <2>4 DEF Unique
    <3> QED BY <2>5, <3>1
  <2> QED BY <2>2, <2>3, <2>7, <2>8
<1> QED BY <1>1, <1>2

-----------------------------------------------------------------------------
(***************************************************************************)
(* pump                                                                    *)
(***************************************************************************)

(***************************************************************************)
(* What pump leaves agrees as what it was given did; no queue is left      *)
(* without a current job; and only rows that were queued change.           *)
(***************************************************************************)
LEMMA PumpKeepsFit ==
  ASSUME NEW st, NEW q, NEW p, NEW c, NEW e, Fits(st, q, p, c, e), Pump(st, q, p, c, e)
  PROVE  /\ Fits(status', queue', pending', current', executing')
         /\ queue' # <<>> => current' # NoJob
         /\ \A j \in Jobs : st[j] # "queued" => status'[j] = st[j]
<1>1. CASE c # NoJob \/ q = <<>>
  <2>1. status' = st /\ queue' = q /\ pending' = p /\ current' = c /\ executing' = e
    BY <1>1 DEF Pump
  <2> QED BY <1>1, <2>1
<1>2. CASE c = NoJob /\ q # <<>>
  <2> DEFINE h == Head(q)
  <2>1. /\ q \in Seq(Jobs) /\ Unique(q) /\ st \in [Jobs -> Statuses]
        /\ \A j \in Jobs : st[j] = "queued" <=> j \in Entries(q)
        /\ p = {j \in Jobs : st[j] = "queued"}
        /\ \A j \in Jobs : st[j] # "running"
        /\ e = {}
    BY <1>2, NoJobAssumption DEF Fits
  <2>2. /\ h \in Entries(q) /\ h \in Jobs
        /\ Tail(q) \in Seq(Jobs)
        /\ Entries(Tail(q)) = Entries(q) \ {h}
        /\ Unique(Tail(q))
    BY <1>2, <2>1, ShiftEntry
  <2>3. h \in p
    BY <2>1, <2>2
  <2>4. /\ queue' = Tail(q) /\ pending' = p \ {h}
        /\ status' = [st EXCEPT ![h] = "running"]
        /\ current' = h /\ executing' = e \cup {h}
    BY <1>2, <2>3 DEF Pump
  <2> HIDE DEF h
  <2>5. /\ status' \in [Jobs -> Statuses]
        /\ \A j \in Jobs : status'[j] = IF j = h THEN "running" ELSE st[j]
    BY <2>1, <2>2, <2>4 DEF Statuses, Active
  <2>6. \A j \in Jobs : status'[j] = "queued" <=> j \in Entries(queue')
    BY <2>1, <2>2, <2>4, <2>5
  <2>7. pending' = {j \in Jobs : status'[j] = "queued"}
    BY <2>1, <2>2, <2>4, <2>5
  <2>8. \A j \in Jobs : status'[j] = "running" <=> j = current'
    BY <2>1, <2>4, <2>5
  <2>9. executing' = {j \in Jobs : j = current'}
    BY <2>1, <2>2, <2>4
  <2>10. Fits(status', queue', pending', current', executing')
    BY <2>2, <2>4, <2>5, <2>6, <2>7, <2>8, <2>9 DEF Fits
  <2>11. current' # NoJob
    BY <2>2, <2>4, NoJobAssumption
  <2>12. \A j \in Jobs : st[j] # "queued" => status'[j] = st[j]
    BY <2>1, <2>2, <2>5
  <2> QED BY <2>10, <2>11, <2>12
<1> QED BY <1>1, <1>2

-----------------------------------------------------------------------------
(***************************************************************************)
(* The invariant                                                           *)
(***************************************************************************)

\* The invariant of a live runner is that its state fits.
LEMMA LiveFits ==
  ASSUME up \in BOOLEAN, created \in Seq(Jobs)
  PROVE  up => (Fits(status, queue, pending, current, executing)
                  <=> TypeOK /\ QueueHoldsQueued /\ CurrentIsRunning)
<1>1. Unique(queue) <=> \A k, l \in 1 .. Len(queue) : queue[k] = queue[l] => k = l
  BY DEF Unique
<1>2. \A j : j \in Entries(queue) <=> \E k \in 1 .. Len(queue) : queue[k] = j
  BY DEF Entries
<1>3. ASSUME Fits(status, queue, pending, current, executing)
      PROVE  TypeOK /\ QueueHoldsQueued /\ CurrentIsRunning
  <2>1. QueueHoldsQueued /\ CurrentIsRunning
    BY <1>1, <1>2, <1>3 DEF Fits, QueueHoldsQueued, CurrentIsRunning
  <2>2. TypeOK
    BY <1>3 DEF Fits, TypeOK
  <2> QED BY <2>1, <2>2
<1>4. ASSUME TypeOK, QueueHoldsQueued, CurrentIsRunning
      PROVE  Fits(status, queue, pending, current, executing)
  BY <1>1, <1>2, <1>4 DEF Fits, TypeOK, QueueHoldsQueued, CurrentIsRunning
<1> QED BY <1>3, <1>4

\* A step that leaves a live runner whose state fits
LEMMA LiveStep ==
  ASSUME up', created' \in Seq(Jobs), up' \in BOOLEAN,
         Fits(status', queue', pending', current', executing'),
         queue' # <<>> => current' # NoJob
  PROVE  IInv'
<1>1. TypeOK' /\ QueueHoldsQueued' /\ CurrentIsRunning'
  <2>1. Unique(queue') <=> \A k, l \in 1 .. Len(queue') : queue'[k] = queue'[l] => k = l
    BY DEF Unique
  <2>2. \A j : j \in Entries(queue') <=> \E k \in 1 .. Len(queue') : queue'[k] = j
    BY DEF Entries
  <2>3. QueueHoldsQueued' /\ CurrentIsRunning'
    BY <2>1, <2>2 DEF Fits, QueueHoldsQueued, CurrentIsRunning
  <2>4. TypeOK'
    BY DEF Fits, TypeOK
  <2> QED BY <2>3, <2>4
<1> QED BY <1>1 DEF IInv, RowsMatchRunner, NoLostWakeup, DownIsEmpty

\* The invariant holds at the first start.
LEMMA InvInit == Init => IInv
<1> SUFFICES ASSUME Init PROVE IInv
  OBVIOUS
<1> USE DEF Init
<1>1. TypeOK
  BY DEF TypeOK, Statuses
<1>2. QueueHoldsQueued
  BY DEF QueueHoldsQueued
<1>3. CurrentIsRunning
  BY NoJobAssumption DEF CurrentIsRunning
<1> QED BY <1>1, <1>2, <1>3 DEF IInv, RowsMatchRunner, NoLostWakeup, DownIsEmpty

\* Every step keeps it, and the rows of the jobs that have settled.
LEMMA InvStep ==
  ASSUME IInv, Next
  PROVE  IInv' /\ \A j \in Jobs : status[j] \in Settled => status'[j] = status[j]
<1> DEFINE Goal == IInv' /\ \A j \in Jobs : status[j] \in Settled => status'[j] = status[j]
<1>t. TypeOK
  BY DEF IInv
<1>f. up => Fits(status, queue, pending, current, executing)
  BY <1>t, LiveFits DEF IInv, RowsMatchRunner, TypeOK
<1>1. ASSUME NEW j \in Jobs, Enqueue(j) PROVE Goal
  <2> DEFINE st == [status EXCEPT ![j] = "queued"]
             q == Append(queue, j)
             p == pending \cup {j}
  <2>1. /\ up /\ status[j] = "absent" /\ UNCHANGED up
        /\ created' = Append(created, j) /\ Pump(st, q, p, current, executing)
    BY <1>1 DEF Enqueue
  <2>2. Fits(status, queue, pending, current, executing)
    BY <1>f, <2>1
  <2>3. /\ q \in Seq(Jobs) /\ Unique(q) /\ Entries(q) = Entries(queue) \cup {j}
    <3>1. queue \in Seq(Jobs) /\ Unique(queue) /\ j \notin Entries(queue)
      BY <2>1, <2>2 DEF Fits
    <3> QED BY <3>1, PushEntry
  <2>4. /\ st \in [Jobs -> Statuses]
        /\ \A i \in Jobs : st[i] = IF i = j THEN "queued" ELSE status[i]
    BY <1>t DEF TypeOK, Statuses, Active
  <2> HIDE DEF st, q
  <2>5. Fits(st, q, p, current, executing)
    BY <2>1, <2>2, <2>3, <2>4 DEF Fits
  <2>6. /\ Fits(status', queue', pending', current', executing')
        /\ queue' # <<>> => current' # NoJob
        /\ \A i \in Jobs : st[i] # "queued" => status'[i] = st[i]
    BY <2>1, <2>5, PumpKeepsFit
  <2>7. created' \in Seq(Jobs) /\ up' /\ up' \in BOOLEAN
    BY <1>t, <2>1 DEF TypeOK
  <2>8. IInv'
    BY <2>6, <2>7, LiveStep
  <2>9. \A i \in Jobs : status[i] \in Settled => status'[i] = status[i]
    BY <2>1, <2>4, <2>6 DEF Settled
  <2> QED BY <2>8, <2>9
<1>2. ASSUME NEW j \in Jobs, Cancel(j) PROVE Goal
  <2>1. /\ up /\ status[j] = "queued"
        /\ queue' = Without(queue, j) /\ pending' = pending \ {j}
        /\ status' = [status EXCEPT ![j] = "cancelled"]
        /\ UNCHANGED <<created, current, executing, up>>
    BY <1>2 DEF Cancel
  <2>2. Fits(status, queue, pending, current, executing)
    BY <1>f, <2>1
  <2>3. /\ queue' \in Seq(Jobs) /\ Unique(queue') /\ Entries(queue') = Entries(queue) \ {j}
        /\ queue' # <<>> => queue # <<>>
    <3>1. queue \in Seq(Jobs) /\ Unique(queue)
      BY <2>2 DEF Fits
    <3> QED BY <2>1, <3>1, SpliceEntry
  <2>4. /\ status' \in [Jobs -> Statuses]
        /\ \A i \in Jobs : status'[i] = IF i = j THEN "cancelled" ELSE status[i]
    BY <1>t, <2>1 DEF TypeOK, Statuses, Settled
  <2>5. Fits(status', queue', pending', current', executing')
    BY <2>1, <2>2, <2>3, <2>4 DEF Fits
  <2>6. queue' # <<>> => current' # NoJob
    BY <2>1, <2>3 DEF IInv, NoLostWakeup
  <2>7. created' \in Seq(Jobs) /\ up' /\ up' \in BOOLEAN
    BY <1>t, <2>1 DEF TypeOK
  <2>8. IInv'
    BY <2>5, <2>6, <2>7, LiveStep
  <2>9. \A i \in Jobs : status[i] \in Settled => status'[i] = status[i]
    BY <2>1, <2>4 DEF Settled
  <2> QED BY <2>8, <2>9
<1>3. ASSUME NEW j \in Jobs, NEW outcome \in {"succeeded", "failed"}, Settle(j, outcome)
      PROVE  Goal
  <2> DEFINE st == [status EXCEPT ![j] = outcome]
             e == executing \ {j}
  <2>1. /\ up /\ j \in executing /\ UNCHANGED <<created, up>>
        /\ Pump(st, queue, pending, NoJob, e)
    BY <1>3 DEF Settle
  <2>2. Fits(status, queue, pending, current, executing)
    BY <1>f, <2>1
  <2>3. j = current /\ status[j] = "running" /\ e = {}
    BY <2>1, <2>2 DEF Fits
  <2>4. /\ st \in [Jobs -> Statuses]
        /\ \A i \in Jobs : st[i] = IF i = j THEN outcome ELSE status[i]
    BY <1>t DEF TypeOK, Statuses, Settled
  <2> HIDE DEF st, e
  <2>5. Fits(st, queue, pending, NoJob, e)
    <3>1. \A i \in Jobs : st[i] = "queued" <=> status[i] = "queued"
      BY <2>3, <2>4
    <3>2. \A i \in Jobs : st[i] # "running" /\ i # NoJob
      BY <2>2, <2>3, <2>4, NoJobAssumption DEF Fits
    <3> QED BY <2>2, <2>3, <2>4, <3>1, <3>2 DEF Fits
  <2>6. /\ Fits(status', queue', pending', current', executing')
        /\ queue' # <<>> => current' # NoJob
        /\ \A i \in Jobs : st[i] # "queued" => status'[i] = st[i]
    BY <2>1, <2>5, PumpKeepsFit
  <2>7. created' \in Seq(Jobs) /\ up' /\ up' \in BOOLEAN
    BY <1>t, <2>1 DEF TypeOK
  <2>8. IInv'
    BY <2>6, <2>7, LiveStep
  <2>9. \A i \in Jobs : status[i] \in Settled => status'[i] = status[i]
    <3>1. ASSUME NEW i \in Jobs, status[i] \in Settled PROVE status'[i] = status[i]
      <4>1. i # j /\ status[i] # "queued"
        BY <2>3, <3>1 DEF Settled
      <4>2. st[i] = status[i]
        BY <2>4, <4>1
      <4> QED BY <2>6, <4>1, <4>2
    <3> QED BY <3>1
  <2> QED BY <2>8, <2>9
<1>4. ASSUME Crash PROVE Goal
  <2>1. TypeOK'
    <3>1. up' \in BOOLEAN
      BY <1>4 DEF Crash
    <3>2. /\ status' = status /\ created' = created
          /\ queue' = <<>> /\ pending' = {} /\ current' = NoJob /\ executing' = {}
      BY <1>4 DEF Crash, rows
    <3> QED BY <1>t, <3>1, <3>2 DEF TypeOK
  <2> QED BY <1>4, <2>1 DEF Crash, rows, IInv, RowsMatchRunner, NoLostWakeup, DownIsEmpty
<1>5. ASSUME Startup PROVE Goal
  <2>1. /\ ~up /\ up' = TRUE
        /\ status' = [j \in Jobs |-> IF status[j] \in Active THEN "failed" ELSE status[j]]
        /\ created' = created /\ queue' = queue /\ pending' = pending
        /\ current' = current /\ executing' = executing
    BY <1>5 DEF Startup, memory
  <2>2. queue = <<>> /\ pending = {} /\ current = NoJob /\ executing = {}
    BY <2>1 DEF IInv, DownIsEmpty
  <2>3. /\ status' \in [Jobs -> Statuses]
        /\ \A j \in Jobs : status'[j] \notin Active
        /\ \A j \in Jobs : status[j] \in Settled => status'[j] = status[j]
    BY <1>t, <2>1 DEF TypeOK, Statuses, Active, Settled
  <2>4. Fits(status', queue', pending', current', executing')
    <3>1. Entries(queue') = {} /\ Unique(queue') /\ queue' \in Seq(Jobs)
      BY <2>1, <2>2 DEF Entries, Unique
    <3>2. \A j \in Jobs : status'[j] # "queued" /\ status'[j] # "running" /\ j # NoJob
      BY <2>3, NoJobAssumption DEF Active
    <3> QED BY <2>1, <2>2, <2>3, <3>1, <3>2 DEF Fits
  <2>5. IInv'
    <3>1. created' \in Seq(Jobs)
      BY <1>t, <2>1 DEF TypeOK
    <3> QED BY <2>1, <2>2, <2>4, <3>1, LiveStep
  <2> QED BY <2>3, <2>5
<1> QED BY <1>1, <1>2, <1>3, <1>4, <1>5 DEF Next

\* Stuttering keeps the invariant.
LEMMA InvStutter == IInv /\ UNCHANGED vars => IInv'
BY DEF vars, rows, memory, IInv, TypeOK, RowsMatchRunner, NoLostWakeup, DownIsEmpty,
       QueueHoldsQueued, CurrentIsRunning

\* The invariant holds always.
THEOREM Invariance == Spec => []IInv
<1>1. IInv /\ [Next]_vars => IInv'
  BY InvStep, InvStutter
<1> QED BY <1>1, InvInit, PTL DEF Spec

(***************************************************************************)
(* Rows, queue, pending map and current job keep their types, and a live   *)
(* runner's rows say what it holds, whatever enqueues, cancels, ends and   *)
(* restarts went before.                                                   *)
(***************************************************************************)
THEOREM RowsTellTheTruth == Spec => [](TypeOK /\ RowsMatchRunner)
<1>1. IInv => TypeOK /\ RowsMatchRunner
  BY DEF IInv
<1> QED BY <1>1, Invariance, PTL

(***************************************************************************)
(* Two closures never run at once: pump starts one only where none is      *)
(* current.                                                                *)
(***************************************************************************)
THEOREM JobsAreSerial == Spec => []SerialExecution
<1>1. IInv => SerialExecution
  BY DEF IInv, RowsMatchRunner, CurrentIsRunning, DownIsEmpty, TypeOK, SerialExecution
<1> QED BY <1>1, Invariance, PTL

(***************************************************************************)
(* A queue with work in it has a current job, whose end will pump.         *)
(***************************************************************************)
THEOREM WakeupIsNotLost == Spec => []NoLostWakeup
<1>1. IInv => NoLostWakeup
  BY DEF IInv
<1> QED BY <1>1, Invariance, PTL

(***************************************************************************)
(* No step changes the row of a job that has succeeded, failed or been     *)
(* cancelled: not a late cancel, not the recovery at startup.              *)
(***************************************************************************)
THEOREM ResultsAreFinal == Spec => ResultIsFinal
<1>1. IInv /\ [Next]_vars =>
        [\A j \in Jobs : status[j] \in Settled => status'[j] = status[j]]_vars
  BY InvStep
<1> QED BY <1>1, Invariance, PTL DEF Spec, ResultIsFinal

-----------------------------------------------------------------------------
(***************************************************************************)
(* The runner implements SerialJobs.  The queue holds its ids in the order *)
(* of the rows, so its head is the oldest job that waits.                  *)
(***************************************************************************)

\* x comes before y.
Before(q, x, y) == \E a, b \in 1 .. Len(q) : a < b /\ q[a] = x /\ q[b] = y

\* Each row once, and the queue in their order
Ordered(st, q, ord) ==
  /\ ord \in Seq(Jobs)
  /\ Unique(ord)
  /\ \A j \in Jobs : st[j] # "absent" <=> j \in Entries(ord)
  /\ \A x, y \in Jobs : Before(q, x, y) => Before(ord, x, y)

OInv == IInv /\ Ordered(status, queue, created)

\* queue.push puts its id behind the others.
LEMMA PushOrder ==
  ASSUME NEW q \in Seq(Jobs), NEW j \in Jobs, NEW x \in Jobs, NEW y \in Jobs
  PROVE  /\ Before(Append(q, j), x, y) => Before(q, x, y) \/ (x \in Entries(q) /\ y = j)
         /\ Before(q, x, y) => Before(Append(q, j), x, y)
         /\ x \in Entries(q) => Before(Append(q, j), x, j)
<1> DEFINE r == Append(q, j)
<1>1. /\ Len(r) = Len(q) + 1 /\ Len(q) \in Nat
      /\ \A k \in 1 .. Len(q) : r[k] = q[k]
      /\ r[Len(q) + 1] = j
  OBVIOUS
<1> HIDE DEF r
<1>2. ASSUME Before(r, x, y) PROVE Before(q, x, y) \/ (x \in Entries(q) /\ y = j)
  <2>1. PICK a \in 1 .. Len(r), b \in 1 .. Len(r) : a < b /\ r[a] = x /\ r[b] = y
    BY <1>2 DEF Before
  <2>2. a \in 1 .. Len(q) /\ q[a] = x
    BY <1>1, <2>1
  <2>3. CASE b \in 1 .. Len(q)
    BY <1>1, <2>1, <2>2, <2>3 DEF Before
  <2>4. CASE b = Len(q) + 1
    BY <1>1, <2>1, <2>2, <2>4 DEF Entries
  <2> QED BY <1>1, <2>3, <2>4
<1>3. ASSUME Before(q, x, y) PROVE Before(r, x, y)
  <2>1. PICK a \in 1 .. Len(q), b \in 1 .. Len(q) : a < b /\ q[a] = x /\ q[b] = y
    BY <1>3 DEF Before
  <2>2. a \in 1 .. Len(r) /\ b \in 1 .. Len(r) /\ r[a] = x /\ r[b] = y
    BY <1>1, <2>1
  <2> QED BY <2>1, <2>2 DEF Before
<1>4. ASSUME x \in Entries(q) PROVE Before(r, x, j)
  <2>1. PICK a \in 1 .. Len(q) : q[a] = x
    BY <1>4 DEF Entries
  <2>2. /\ a \in 1 .. Len(r) /\ Len(q) + 1 \in 1 .. Len(r) /\ a < Len(q) + 1
        /\ r[a] = x /\ r[Len(q) + 1] = j
    BY <1>1, <2>1
  <2> QED BY <2>2 DEF Before
<1> QED BY <1>2, <1>3, <1>4 DEF r

\* queue.shift keeps the order of the rest.
LEMMA ShiftOrder ==
  ASSUME NEW q \in Seq(Jobs), q # <<>>, NEW x, NEW y, Before(Tail(q), x, y)
  PROVE  Before(q, x, y)
<1>1. PICK a \in 1 .. Len(Tail(q)), b \in 1 .. Len(Tail(q)) :
        a < b /\ Tail(q)[a] = x /\ Tail(q)[b] = y
  BY DEF Before
<1>2. /\ a + 1 \in 1 .. Len(q) /\ b + 1 \in 1 .. Len(q) /\ a + 1 < b + 1
      /\ q[a + 1] = x /\ q[b + 1] = y
  BY <1>1
<1> QED BY <1>2 DEF Before

\* queue.splice keeps the order of the rest.
LEMMA SpliceOrder ==
  ASSUME NEW q \in Seq(Jobs), NEW j \in Jobs, NEW x, NEW y, Before(Without(q, j), x, y), Unique(q)
  PROVE  Before(q, x, y)
<1>1. CASE ~\E k \in 1 .. Len(q) : q[k] = j
  <2>1. Without(q, j) = q
    BY <1>1 DEF Without
  <2> QED BY <2>1
<1>2. CASE \E k \in 1 .. Len(q) : q[k] = j
  <2> DEFINE m == CHOOSE k \in 1 .. Len(q) : q[k] = j /\ \A i \in 1 .. k - 1 : q[i] # j
             r == Splice(q, m)
  <2>1. m \in 1 .. Len(q)
    <3>1. PICK k \in 1 .. Len(q) : q[k] = j
      BY <1>2
    <3>2. \A i \in 1 .. k - 1 : q[i] # j
      <4> SUFFICES ASSUME NEW i \in 1 .. k - 1, q[i] = j PROVE FALSE
        OBVIOUS
      <4>1. i \in 1 .. Len(q) /\ i # k
        OBVIOUS
      <4> QED BY <3>1, <4>1 DEF Unique
    <3> QED BY <3>1, <3>2
  <2>2. Without(q, j) = r
    BY <1>2 DEF Without
  <2> HIDE DEF m
  <2>3. /\ Len(q) \in Nat /\ Len(r) = Len(q) - 1
        /\ \A i \in 1 .. Len(r) : r[i] = IF i < m THEN q[i] ELSE q[i + 1]
    BY <2>1 DEF Splice
  <2> HIDE DEF r
  <2>4. PICK a \in 1 .. Len(r), b \in 1 .. Len(r) : a < b /\ r[a] = x /\ r[b] = y
    BY <2>2 DEF Before
  <2> DEFINE at(i) == IF i < m THEN i ELSE i + 1
  <2>5. /\ at(a) \in 1 .. Len(q) /\ at(b) \in 1 .. Len(q) /\ at(a) < at(b)
        /\ q[at(a)] = x /\ q[at(b)] = y
    BY <2>1, <2>3, <2>4
  <2> HIDE DEF at
  <2> QED BY <2>5 DEF Before
<1> QED BY <1>1, <1>2

\* Where the executor is idle, the head of the queue is the oldest job that waits.
LEMMA HeadIsOldest ==
  ASSUME NEW st, NEW q, NEW p, NEW c, NEW e, NEW ord,
         Fits(st, q, p, c, e), Ordered(st, q, ord), q # <<>>
  PROVE  Promise!Oldest(st, ord, Head(q))
<1> DEFINE h == Head(q)
<1>1. /\ q \in Seq(Jobs) /\ Unique(q) /\ ord \in Seq(Jobs) /\ Unique(ord)
      /\ \A j \in Jobs : st[j] = "queued" <=> j \in Entries(q)
      /\ \A j \in Jobs : st[j] # "absent" <=> j \in Entries(ord)
      /\ \A x, y \in Jobs : Before(q, x, y) => Before(ord, x, y)
  BY DEF Fits, Ordered
<1>2. h \in Jobs /\ h = q[1] /\ 1 \in 1 .. Len(q) /\ st[h] = "queued"
  <2>1. h \in Jobs /\ h = q[1] /\ 1 \in 1 .. Len(q)
    BY <1>1
  <2> QED BY <1>1, <2>1 DEF Entries
<1> HIDE DEF h
<1>3. PICK k \in 1 .. Len(ord) : ord[k] = h
  <2>1. h \in Entries(ord)
    BY <1>1, <1>2
  <2> QED BY <2>1 DEF Entries
<1>4. ASSUME NEW i \in 1 .. k - 1, st[ord[i]] = "queued" PROVE FALSE
  <2>1. i \in 1 .. Len(ord) /\ i < k /\ ord[i] \in Jobs
    BY <1>1, <1>3
  <2>2. ord[i] # h
    BY <1>1, <1>3, <2>1 DEF Unique
  <2>3. PICK m \in 1 .. Len(q) : q[m] = ord[i]
    <3>1. ord[i] \in Entries(q)
      BY <1>1, <1>4, <2>1
    <3> QED BY <3>1 DEF Entries
  <2>4. 1 < m
    <3>1. m # 1
      BY <1>2, <2>2, <2>3
    <3> QED BY <1>1, <3>1
  <2>5. Before(q, h, ord[i])
    BY <1>2, <2>3, <2>4 DEF Before
  <2>6. PICK a \in 1 .. Len(ord), b \in 1 .. Len(ord) : a < b /\ ord[a] = h /\ ord[b] = ord[i]
    <3>1. Before(ord, h, ord[i])
      BY <1>1, <1>2, <2>1, <2>5
    <3> QED BY <3>1 DEF Before
  <2>7. a = k /\ b = i
    BY <1>1, <1>3, <2>1, <2>6 DEF Unique
  <2> QED BY <2>1, <2>6, <2>7
<1> QED BY <1>2, <1>3, <1>4 DEF Promise!Oldest, h

\* pump dispatches the oldest job that waits if nothing runs, and nothing otherwise.
LEMMA PumpDispatches ==
  ASSUME NEW st, NEW q, NEW p, NEW c, NEW e, NEW ord,
         Fits(st, q, p, c, e), Ordered(st, q, ord), Pump(st, q, p, c, e)
  PROVE  status' \in Promise!Dispatched(st, ord) /\ Ordered(status', queue', ord)
<1>0. st \in [Jobs -> Statuses]
  BY DEF Fits
<1>1. CASE c # NoJob \/ q = <<>>
  <2>1. status' = st /\ queue' = q
    BY <1>1 DEF Pump
  <2>2. CASE c # NoJob
    <3>1. c \in Jobs /\ st[c] = "running"
      BY <2>2 DEF Fits
    <3>2. ~Promise!Idle(st)
      BY <3>1 DEF Promise!Idle
    <3>3. Promise!Dispatch(st, ord) = {}
      BY <3>2 DEF Promise!Dispatch
    <3> QED BY <2>1, <3>3 DEF Promise!Dispatched
  <2>3. CASE q = <<>>
    <3>0. Entries(<<>>) = {}
      BY DEF Entries
    <3>1. \A j \in Jobs : st[j] # "queued"
      BY <2>3, <3>0 DEF Fits
    <3>2. \A j \in Jobs : ~Promise!Oldest(st, ord, j)
      BY <3>1 DEF Promise!Oldest
    <3>3. Promise!Dispatch(st, ord) = {}
      BY <3>2 DEF Promise!Dispatch
    <3> QED BY <2>1, <3>3 DEF Promise!Dispatched
  <2> QED BY <1>1, <2>2, <2>3
<1>2. CASE c = NoJob /\ q # <<>>
  <2> DEFINE h == Head(q)
  <2>1. h \in Jobs /\ h \in p /\ h \in Entries(q) /\ st[h] = "queued"
    <3>1. q \in Seq(Jobs) /\ Unique(q)
      BY DEF Fits
    <3>2. h \in Jobs /\ h \in Entries(q)
      BY <1>2, <3>1, ShiftEntry
    <3> QED BY <3>2 DEF Fits
  <2>2. status' = [st EXCEPT ![h] = "running"] /\ queue' = Tail(q)
    BY <1>2, <2>1 DEF Pump
  <2>3. Promise!Oldest(st, ord, h)
    BY <1>2, HeadIsOldest
  <2>4. Promise!Idle(st)
    BY <1>2, NoJobAssumption DEF Promise!Idle, Fits
  <2>5. \A x, y \in Jobs : Before(Tail(q), x, y) => Before(q, x, y)
    BY <1>2, ShiftOrder DEF Fits
  <2> HIDE DEF h
  <2>6. status' \in Promise!Dispatch(st, ord)
    BY <2>1, <2>2, <2>3, <2>4 DEF Promise!Dispatch
  <2>7. status' \in Promise!Dispatched(st, ord)
    BY <2>6 DEF Promise!Dispatched
  <2>8. \A j \in Jobs : status'[j] # "absent" <=> st[j] # "absent"
    BY <1>0, <2>1, <2>2
  <2>9. Ordered(status', queue', ord)
    BY <2>2, <2>5, <2>8 DEF Ordered
  <2> QED BY <2>7, <2>9
<1> QED BY <1>1, <1>2

\* Before the first job, both are in their initial states.
LEMMA PromiseInit == Init => Promise!Init /\ OInv
<1> SUFFICES ASSUME Init PROVE Promise!Init /\ OInv
  OBVIOUS
<1>1. Promise!Init
  BY DEF Init, Promise!Init
<1>2. Ordered(status, queue, created)
  BY DEF Init, Ordered, Unique, Entries, Before
<1> QED BY <1>1, <1>2, InvInit DEF OInv

\* Every step of the runner is a step of SerialJobs, and keeps the queue in order.
LEMMA PromiseStep ==
  ASSUME OInv, Next
  PROVE  Promise!Next /\ OInv'
<1> DEFINE Goal == Promise!Next /\ Ordered(status', queue', created')
<1>i. IInv /\ Ordered(status, queue, created)
  BY DEF OInv
<1>t. TypeOK
  BY <1>i DEF IInv
<1>f. up => Fits(status, queue, pending, current, executing)
  BY <1>i, <1>t, LiveFits DEF IInv, RowsMatchRunner, TypeOK
<1>1. ASSUME NEW j \in Jobs, Enqueue(j) PROVE Goal
  <2> DEFINE st == [status EXCEPT ![j] = "queued"]
             q == Append(queue, j)
             p == pending \cup {j}
  <2>1. /\ up /\ status[j] = "absent" /\ up' = up
        /\ created' = Append(created, j) /\ Pump(st, q, p, current, executing)
    BY <1>1 DEF Enqueue
  <2>2. Fits(status, queue, pending, current, executing)
    BY <1>f, <2>1
  <2>3. /\ queue \in Seq(Jobs) /\ Unique(queue) /\ j \notin Entries(queue)
        /\ created \in Seq(Jobs) /\ Unique(created) /\ j \notin Entries(created)
        /\ \A x \in Jobs : x \in Entries(queue) => x \in Entries(created)
    BY <1>i, <2>1, <2>2 DEF Fits, Ordered
  <2>4. /\ q \in Seq(Jobs) /\ Unique(q) /\ Entries(q) = Entries(queue) \cup {j}
    BY <2>3, PushEntry
  <2>5. /\ created' \in Seq(Jobs) /\ Unique(created') /\ Entries(created') = Entries(created) \cup {j}
    BY <2>1, <2>3, PushEntry
  <2>6. /\ st \in [Jobs -> Statuses]
        /\ \A i \in Jobs : st[i] = IF i = j THEN "queued" ELSE status[i]
    BY <1>t DEF TypeOK, Statuses, Active
  <2>7. ASSUME NEW x \in Jobs, NEW y \in Jobs, Before(q, x, y)
        PROVE  Before(created', x, y)
    <3>1. CASE Before(queue, x, y)
      <4>1. Before(created, x, y)
        BY <1>i, <3>1 DEF Ordered
      <4> QED BY <2>1, <2>3, <4>1, PushOrder
    <3>2. CASE x \in Entries(queue) /\ y = j
      BY <2>1, <2>3, <3>2, PushOrder
    <3> QED BY <2>3, <2>7, <3>1, <3>2, PushOrder
  <2>s. st = [status EXCEPT ![j] = "queued"]
    OBVIOUS
  <2> HIDE DEF st, q
  <2>8. Fits(st, q, p, current, executing)
    BY <2>1, <2>2, <2>4, <2>6 DEF Fits
  <2>9. Ordered(st, q, created')
    BY <1>i, <2>5, <2>6, <2>7 DEF Ordered
  <2>10. status' \in Promise!Dispatched(st, created') /\ Ordered(status', queue', created')
    BY <2>1, <2>8, <2>9, PumpDispatches
  <2>11. Promise!Accept(j)
    BY <2>1, <2>10, <2>s DEF Promise!Accept
  <2> QED BY <2>10, <2>11 DEF Promise!Next
<1>2. ASSUME NEW j \in Jobs, Cancel(j) PROVE Goal
  <2>1. /\ up /\ status[j] = "queued" /\ queue' = Without(queue, j)
        /\ status' = [status EXCEPT ![j] = "cancelled"]
        /\ created' = created /\ up' = up
    BY <1>2 DEF Cancel
  <2>2. Promise!Withdraw(j)
    BY <2>1 DEF Promise!Withdraw
  <2>3. queue \in Seq(Jobs) /\ Unique(queue)
    BY <1>f, <2>1 DEF Fits
  <2>4. \A x, y \in Jobs : Before(queue', x, y) => Before(queue, x, y)
    BY <2>1, <2>3, SpliceOrder
  <2>5. \A i \in Jobs : status'[i] # "absent" <=> status[i] # "absent"
    BY <1>t, <2>1 DEF TypeOK
  <2>6. Ordered(status', queue', created')
    BY <1>i, <2>1, <2>4, <2>5 DEF Ordered
  <2> QED BY <2>2, <2>6 DEF Promise!Next
<1>3. ASSUME NEW j \in Jobs, NEW outcome \in {"succeeded", "failed"}, Settle(j, outcome)
      PROVE  Goal
  <2> DEFINE st == [status EXCEPT ![j] = outcome]
             e == executing \ {j}
  <2>1. /\ up /\ j \in executing /\ created' = created /\ up' = up
        /\ Pump(st, queue, pending, NoJob, e)
    BY <1>3 DEF Settle
  <2>2. Fits(status, queue, pending, current, executing)
    BY <1>f, <2>1
  <2>3. j = current /\ status[j] = "running" /\ e = {}
    BY <2>1, <2>2 DEF Fits
  <2>4. /\ st \in [Jobs -> Statuses]
        /\ \A i \in Jobs : st[i] = IF i = j THEN outcome ELSE status[i]
    BY <1>t DEF TypeOK, Statuses, Settled
  <2>s. st = [status EXCEPT ![j] = outcome]
    OBVIOUS
  <2> HIDE DEF st, e
  <2>5. /\ \A i \in Jobs : st[i] = "queued" <=> status[i] = "queued"
        /\ \A i \in Jobs : st[i] # "absent" <=> status[i] # "absent"
    BY <2>3, <2>4
  <2>6. Fits(st, queue, pending, NoJob, e)
    <3>1. \A i \in Jobs : st[i] # "running" /\ i # NoJob
      BY <2>2, <2>3, <2>4, NoJobAssumption DEF Fits
    <3> QED BY <2>2, <2>3, <2>4, <2>5, <3>1 DEF Fits
  <2>7. Ordered(st, queue, created)
    BY <1>i, <2>5 DEF Ordered
  <2>8. status' \in Promise!Dispatched(st, created) /\ Ordered(status', queue', created)
    BY <2>1, <2>6, <2>7, PumpDispatches
  <2>9. Promise!Finish(j)
    BY <2>1, <2>3, <2>8, <2>s DEF Promise!Finish
  <2> QED BY <2>1, <2>8, <2>9 DEF Promise!Next
<1>4. ASSUME Crash PROVE Goal
  <2>1. up /\ up' = FALSE /\ queue' = <<>> /\ status' = status /\ created' = created
    BY <1>4 DEF Crash, rows
  <2>2. Promise!Close
    BY <2>1 DEF Promise!Close
  <2>3. \A x, y \in Jobs : ~Before(queue', x, y)
    BY <2>1 DEF Before
  <2>4. Ordered(status', queue', created')
    BY <1>i, <2>1, <2>3 DEF Ordered
  <2> QED BY <2>2, <2>4 DEF Promise!Next
<1>5. ASSUME Startup PROVE Goal
  <2>1. /\ ~up /\ up' = TRUE /\ created' = created /\ queue' = queue
        /\ status' = [j \in Jobs |-> IF status[j] \in Active THEN "failed" ELSE status[j]]
    BY <1>5 DEF Startup, memory
  <2>2. Promise!Reopen
    BY <2>1 DEF Promise!Reopen, Active
  <2>3. \A i \in Jobs : status'[i] # "absent" <=> status[i] # "absent"
    BY <2>1 DEF Active
  <2>4. Ordered(status', queue', created')
    BY <1>i, <2>1, <2>3 DEF Ordered
  <2> QED BY <2>2, <2>4 DEF Promise!Next
<1>6. Goal
  BY <1>1, <1>2, <1>3, <1>4, <1>5 DEF Next
<1>7. IInv'
  BY <1>i, InvStep
<1> QED BY <1>6, <1>7 DEF OInv

(***************************************************************************)
(* The runner implements SerialJobs, for any set of jobs: on the rows      *)
(* alone, jobs run one at a time in the order they were accepted, none     *)
(* waits while the executor is idle, and a restart fails what had not      *)
(* finished.                                                               *)
(***************************************************************************)
THEOREM RunnerKeepsPromise == Spec => PromiseSpec
<1>1. OInv /\ [Next]_vars => OInv' /\ [Promise!Next]_(Promise!vars)
  <2>1. ASSUME OInv, Next PROVE OInv' /\ [Promise!Next]_(Promise!vars)
    BY <2>1, PromiseStep
  <2>2. ASSUME OInv, UNCHANGED vars PROVE OInv' /\ [Promise!Next]_(Promise!vars)
    <3>1. UNCHANGED Promise!vars
      BY <2>2 DEF vars, rows, Promise!vars
    <3>2. IInv'
      BY <2>2, InvStutter DEF OInv
    <3>3. Ordered(status, queue, created)'
      BY <2>2 DEF OInv, vars, rows, memory, Ordered, Unique, Entries, Before
    <3> QED BY <3>1, <3>2, <3>3 DEF OInv
  <2> QED BY <2>1, <2>2
<1> QED BY <1>1, PromiseInit, PTL DEF Spec, PromiseSpec, Promise!Spec

-----------------------------------------------------------------------------
(***************************************************************************)
(* The schedule                                                            *)
(***************************************************************************)

\* What is there in some of the naturals is there first.
LEMMA Earliest ==
  ASSUME NEW T, T \subseteq Nat, T # {}
  PROVE  \E x \in T : \A y \in T : x <= y
<1>1. IsWellFoundedOn(OpToRel(<, Nat), Nat)
  BY NatLessThanWellFounded
<1>2. PICK x \in T : \A y \in T : ~(<<y, x>> \in OpToRel(<, Nat))
  BY <1>1, WFMin
<1>3. \A y \in T : ~(y < x)
  BY <1>2 DEF OpToRel
<1> QED BY <1>3

\* Every day is in a month: the one before the first that begins later.
LEMMA MonthIs ==
  ASSUME NEW d \in 0 .. LastDay
  PROVE  /\ Sched!MonthOf(d) \in 1 .. Len(Firsts) - 1
         /\ Firsts[Sched!MonthOf(d)] <= d /\ d < Firsts[Sched!MonthOf(d) + 1]
<1> DEFINE T == {m \in 1 .. Len(Firsts) : d < Firsts[m]}
<1>1. Len(Firsts) \in Nat \ {0} /\ \A m \in 1 .. Len(Firsts) : Firsts[m] \in Nat
  BY CalendarAssumption
<1>2. Len(Firsts) \in T /\ T \subseteq Nat
  BY <1>1, CalendarAssumption
<1>3. PICK m \in T : \A k \in T : m <= k
  <2> HIDE DEF T
  <2> QED BY <1>2, Earliest
<1>4. m # 1
  BY <1>3, CalendarAssumption
<1>5. m - 1 \in 1 .. Len(Firsts) - 1 /\ Firsts[m - 1] <= d /\ d < Firsts[(m - 1) + 1]
  BY <1>1, <1>3, <1>4
<1>6. \E k \in 1 .. Len(Firsts) - 1 : Firsts[k] <= d /\ d < Firsts[k + 1]
  BY <1>5
<1> QED BY <1>6 DEF Sched!MonthOf

\* The next run is one interval from the anchor, which differs by the month.
LEMMA NextRunIs ==
  ASSUME NEW r, r.frequency \in Sched!Frequencies \ {"off"}, Sched!Anchor(r) \in 0 .. LastDay
  PROVE  LET n == Sched!NextRun(r) - Sched!Anchor(r) IN
           /\ Sched!NextRun(r) \in Int /\ Sched!Longest(r.frequency) \in Nat \ {0}
           /\ Sched!Shortest(r.frequency) <= n /\ n <= Sched!Longest(r.frequency)
<1> DEFINE a == Sched!Anchor(r)
           m == Sched!MonthOf(a)
<1>1. CASE r.frequency = "monthly"
  <2>1. m \in 1 .. Len(Firsts) - 1
    BY MonthIs
  <2>2. Firsts[m] \in Int /\ Firsts[m + 1] - Firsts[m] \in 28 .. 31 /\ Firsts[m + 1] \in Int
    <3> HIDE DEF m
    <3> QED BY <2>1, CalendarAssumption
  <2>3. Sched!NextRun(r) = Firsts[m + 1] + (a - Firsts[m])
    BY <1>1 DEF Sched!NextRun, Sched!SameDateNextMonth, Sched!DateOf
  <2>4. Sched!Shortest(r.frequency) = 28 /\ Sched!Longest(r.frequency) = 31
    BY <1>1 DEF Sched!Shortest, Sched!Longest
  <2>5. a \in Int
    OBVIOUS
  <2> HIDE DEF a, m
  <2>6. Sched!NextRun(r) - a = Firsts[m + 1] - Firsts[m] /\ Sched!NextRun(r) \in Int
    BY <2>2, <2>3, <2>5
  <2> QED BY <2>2, <2>4, <2>6 DEF a
<1>2. CASE r.frequency # "monthly"
  BY <1>2 DEF Sched!NextRun, Sched!Shortest, Sched!Longest, Sched!Frequencies
<1> QED BY <1>1, <1>2

\* What TypeOK says of the days and counters, and the rest.
Counted ==
  /\ day \in 0 .. LastDay
  /\ policy \in [frequency : Sched!Frequencies, updated : 0 .. LastDay,
                 last : {Sched!None} \cup 0 .. LastDay]
  /\ fired \in 0 .. LastDay /\ gap \subseteq 0 .. LastDay
  /\ changes \in 0 .. MaxChanges /\ deaths \in 0 .. MaxDeaths
Told == alive \in BOOLEAN /\ looked \in BOOLEAN

LEMMA TypeIs ==
  /\ Sched!TypeOK <=> Counted /\ Told
  /\ Sched!TypeOK' <=> Counted' /\ Told'
<1> USE DEF Sched!TypeOK, Counted, Told
<1>1. Sched!TypeOK <=> Counted /\ Told
  BY Zenon
<1>2. Sched!TypeOK' <=> Counted' /\ Told'
  BY Zenon
<1> QED BY <1>1, <1>2

LEMMA ToldStays ==
  ASSUME Told, [Sched!Next]_(Sched!vars)
  PROVE  Told'
<1> USE DEF Told
<1>1. CASE Sched!Tick
  BY <1>1, Zenon DEF Sched!Tick
<1>2. CASE \E f \in Sched!Frequencies : Sched!UpdatePolicy(f)
  BY <1>2, Zenon DEF Sched!UpdatePolicy
<1>3. CASE Sched!Die
  BY <1>3, Zenon DEF Sched!Die
<1>4. CASE Sched!Restart
  BY <1>4, Zenon DEF Sched!Restart
<1>5. CASE Sched!NextDay
  BY <1>5, Zenon DEF Sched!NextDay
<1>6. CASE UNCHANGED Sched!vars
  BY <1>6, Zenon DEF Sched!vars
<1> QED BY <1>1, <1>2, <1>3, <1>4, <1>5, <1>6 DEF Sched!Next

\* The anchor is the day of the policy's last backup, or of its change.
SchedInv == ScheduleHolds /\ fired = Sched!Anchor(policy) /\ fired <= day

LEMMA TickKeeps ==
  ASSUME SchedInv, Sched!Tick
  PROVE  SchedInv'
<1>1. /\ day \in 0 .. LastDay /\ fired \in 0 .. LastDay /\ fired <= day /\ fired = Sched!Anchor(policy)
      /\ policy \in [frequency : Sched!Frequencies, updated : 0 .. LastDay,
                     last : {Sched!None} \cup 0 .. LastDay]
  BY DEF SchedInv, ScheduleHolds, Sched!ScheduleHolds, Sched!TypeOK
<1>2. policy.frequency \in Sched!Frequencies
  BY <1>1
<1>2a. Told'
  BY TypeIs, ToldStays DEF SchedInv, ScheduleHolds, Sched!ScheduleHolds, Sched!Next
<1>3. CASE Sched!Due
  <2>1. policy.frequency # "off" /\ day >= Sched!NextRun(policy)
    BY <1>3 DEF Sched!Due, Sched!DueOn
  <2>2. /\ policy' = [policy EXCEPT !.last = day] /\ fired' = day /\ gap' = {day - fired} /\ looked' = TRUE
        /\ UNCHANGED <<day, alive, changes, deaths>>
    BY <1>3 DEF Sched!Tick, Sched!MarkRan
  <2>3. /\ Sched!NextRun(policy) \in Int /\ Sched!Longest(policy.frequency) \in Nat \ {0}
        /\ Sched!Shortest(policy.frequency) <= Sched!NextRun(policy) - fired
    BY <1>1, <1>2, <2>1, NextRunIs
  <2>4. policy'.frequency = policy.frequency /\ policy'.last = day
    BY <1>1, <2>2
  <2>5. Counted'
    <3>1. day' = day /\ fired' = day /\ gap' = {day - fired} /\ changes' = changes /\ deaths' = deaths
      BY <2>2
    <3>2. changes \in 0 .. MaxChanges /\ deaths \in 0 .. MaxDeaths
      BY DEF SchedInv, ScheduleHolds, Sched!ScheduleHolds, Sched!TypeOK
    <3>3. policy' \in [frequency : Sched!Frequencies, updated : 0 .. LastDay,
                      last : {Sched!None} \cup 0 .. LastDay]
      BY <1>1, <2>2
    <3>4. day - fired \in 0 .. LastDay
      BY <1>1, CalendarAssumption
    <3> QED BY <1>1, <3>1, <3>2, <3>3, <3>4 DEF Counted
  <2>6. Sched!Anchor(policy)' = day /\ fired' <= day'
    BY <1>1, <2>2, <2>4 DEF Sched!Anchor, Sched!None
  <2>7. Sched!Spaced'
    <3>1. Sched!Shortest(policy.frequency) \in Int
      BY <1>2, <2>1 DEF Sched!Shortest, Sched!Frequencies
    <3>2. day - fired >= Sched!Shortest(policy.frequency)
      BY <1>1, <2>1, <2>3, <3>1
    <3> QED BY <2>2, <2>4, <3>2 DEF Sched!Spaced, Sched!Shortest
  <2>8. Sched!OnTime'
    <3>1. Sched!Longest(policy.frequency)' = Sched!Longest(policy.frequency)
      BY <2>4 DEF Sched!Longest, Sched!Shortest
    <3> QED BY <1>1, <2>2, <2>3, <3>1 DEF Sched!OnTime
  <2> QED BY <1>2a, <2>2, <2>5, <2>6, <2>7, <2>8, TypeIs DEF SchedInv, ScheduleHolds, Sched!ScheduleHolds
<1>4. CASE ~Sched!Due
  <2>1. looked' = TRUE /\ UNCHANGED <<day, policy, fired, gap, alive, changes, deaths>>
    BY <1>4 DEF Sched!Tick
  <2>2. Sched!OnTime'
    <3> SUFFICES ASSUME policy.frequency # "off" PROVE day - fired < Sched!Longest(policy.frequency)
      BY <2>1 DEF Sched!OnTime, Sched!Longest, Sched!Shortest
    <3>1. /\ Sched!NextRun(policy) \in Int /\ Sched!Longest(policy.frequency) \in Nat \ {0}
          /\ Sched!NextRun(policy) - fired <= Sched!Longest(policy.frequency)
      BY <1>1, <1>2, NextRunIs
    <3>2. day < Sched!NextRun(policy)
      BY <1>1, <1>4, <3>1 DEF Sched!Due, Sched!DueOn
    <3> QED BY <1>1, <3>1, <3>2
  <2> QED BY <2>1, <2>2 DEF SchedInv, ScheduleHolds, Sched!ScheduleHolds, Sched!TypeOK, Sched!Spaced,
                            Sched!Anchor, Sched!Shortest
<1> QED BY <1>3, <1>4

LEMMA PolicyKeeps ==
  ASSUME SchedInv, NEW f \in Sched!Frequencies, Sched!UpdatePolicy(f)
  PROVE  SchedInv'
<1>1. day \in 0 .. LastDay /\ changes \in 0 .. MaxChanges
  BY DEF SchedInv, ScheduleHolds, Sched!ScheduleHolds, Sched!TypeOK
<1>2. /\ policy' = [frequency |-> f, updated |-> day, last |-> Sched!None]
      /\ fired' = day /\ gap' = {} /\ changes < MaxChanges /\ changes' = changes + 1
      /\ UNCHANGED <<day, alive, looked, deaths>>
  BY DEF Sched!UpdatePolicy
<1>3. Sched!TypeOK'
  BY <1>1, <1>2, HorizonAssumption DEF SchedInv, ScheduleHolds, Sched!ScheduleHolds, Sched!TypeOK
<1>4. Sched!OnTime'
  BY <1>1, <1>2 DEF Sched!OnTime, Sched!Longest, Sched!Shortest, Sched!Frequencies
<1> QED BY <1>1, <1>2, <1>3, <1>4 DEF SchedInv, ScheduleHolds, Sched!ScheduleHolds, Sched!Spaced, Sched!Anchor

LEMMA SchedStep ==
  ASSUME SchedInv, [Sched!Next]_(Sched!vars)
  PROVE  SchedInv'
<1>1. CASE Sched!Tick
  BY <1>1, TickKeeps
<1>2. CASE \E f \in Sched!Frequencies : Sched!UpdatePolicy(f)
  BY <1>2, PolicyKeeps
<1>3. ASSUME policy' = policy, fired' = fired, gap' = gap, changes' = changes,
             day' \in 0 .. LastDay, day <= day', deaths' \in 0 .. MaxDeaths, Sched!OnTime'
      PROVE  SchedInv'
  <2>1. Told' /\ Counted
    BY TypeIs, ToldStays DEF SchedInv, ScheduleHolds, Sched!ScheduleHolds
  <2>2. Counted'
    BY <1>3, <2>1 DEF Counted
  <2>3. fired \in Int /\ day \in Int /\ LastDay \in Int /\ fired <= day
    BY <2>1, CalendarAssumption DEF Counted, SchedInv
  <2>4. fired' <= day'
    BY <1>3, <2>3
  <2>5. Sched!Spaced' /\ fired' = Sched!Anchor(policy)'
    BY <1>3 DEF SchedInv, ScheduleHolds, Sched!ScheduleHolds, Sched!Spaced, Sched!Anchor, Sched!Shortest
  <2> QED BY <1>3, <2>1, <2>2, <2>4, <2>5, TypeIs DEF SchedInv, ScheduleHolds, Sched!ScheduleHolds
<1>4. Counted /\ Sched!OnTime
  BY TypeIs DEF SchedInv, ScheduleHolds, Sched!ScheduleHolds
<1>5. CASE Sched!Die \/ Sched!Restart \/ UNCHANGED Sched!vars
  <2>1. /\ day' = day /\ policy' = policy /\ fired' = fired /\ gap' = gap /\ changes' = changes
        /\ looked' = looked \/ looked' = FALSE
    BY <1>5, Zenon DEF Sched!Die, Sched!Restart, Sched!vars
  <2>2. deaths' = deaths \/ (deaths < MaxDeaths /\ deaths' = deaths + 1)
    BY <1>5, Zenon DEF Sched!Die, Sched!Restart, Sched!vars
  <2>3. Sched!OnTime'
    BY <1>4, <2>1, Zenon DEF Sched!OnTime, Sched!Longest, Sched!Shortest
  <2>4. deaths' \in 0 .. MaxDeaths
    BY <1>4, <2>2, HorizonAssumption DEF Counted
  <2>5. day' \in 0 .. LastDay /\ day <= day'
    BY <1>4, <2>1, CalendarAssumption DEF Counted
  <2> QED BY <1>3, <2>1, <2>3, <2>4, <2>5
<1>6. CASE Sched!NextDay
  <2>1. /\ policy' = policy /\ fired' = fired /\ gap' = gap /\ changes' = changes /\ deaths' = deaths
        /\ day < LastDay /\ day' = day + 1
    BY <1>6, Zenon DEF Sched!NextDay
  <2>2. looked' = FALSE
    BY <1>6, Zenon DEF Sched!NextDay
  <2>3. Sched!OnTime'
    BY <2>2, Zenon DEF Sched!OnTime
  <2>4. day' \in 0 .. LastDay /\ day <= day' /\ deaths' \in 0 .. MaxDeaths
    BY <1>4, <2>1, CalendarAssumption DEF Counted
  <2> QED BY <1>3, <2>1, <2>3, <2>4
<1> QED BY <1>1, <1>2, <1>5, <1>6 DEF Sched!Next

(***************************************************************************)
(* However often the policy is edited and the process dies, and however    *)
(* long the panel is down: a backup comes an interval after the one before *)
(* or after the policy was set, and never two for one; and once the timer  *)
(* has looked, no backup is overdue.  (computeNextRun, isBackupDue,        *)
(* runScheduledBackupTickOnce, markRan, updatePolicy)                      *)
(***************************************************************************)
THEOREM ScheduleAlwaysHolds == Sched!Spec => []ScheduleHolds
<1>1. ASSUME Sched!Init PROVE SchedInv
  <2>1. /\ day = FirstDay /\ fired = FirstDay /\ gap = {} /\ changes = 0 /\ deaths = 0
        /\ policy = [frequency |-> "off", updated |-> FirstDay, last |-> Sched!None]
    BY <1>1, Zenon DEF Sched!Init
  <2>2. Told
    BY <1>1, Zenon DEF Sched!Init, Told
  <2>3. Counted
    BY <2>1, CalendarAssumption, HorizonAssumption DEF Counted, Sched!Frequencies
  <2>4. Sched!OnTime /\ Sched!Spaced
    BY <2>1 DEF Sched!OnTime, Sched!Spaced
  <2>5. fired = Sched!Anchor(policy) /\ fired <= day
    BY <2>1, CalendarAssumption DEF Sched!Anchor
  <2> QED BY <2>2, <2>3, <2>4, <2>5, TypeIs DEF SchedInv, ScheduleHolds, Sched!ScheduleHolds
<1>2. SchedInv /\ [Sched!Next]_(Sched!vars) => SchedInv'
  BY SchedStep
<1>3. SchedInv => ScheduleHolds
  BY DEF SchedInv
<1> QED BY <1>1, <1>2, <1>3, PTL DEF Sched!Spec
=============================================================================
