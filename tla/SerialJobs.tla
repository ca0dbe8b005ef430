----------------------------- MODULE SerialJobs -----------------------------
(***************************************************************************)
(* What the job system promises to those who read its rows (ARCHITECTURE   *)
(* section 7.5): jobs run one at a time, in the order they were accepted,  *)
(* and the system never idles while one waits; a job is withdrawn only     *)
(* before it starts; a restart fails whatever had not finished.            *)
(***************************************************************************)
EXTENDS Integers, Sequences

CONSTANT Jobs

VARIABLES rows,    \* [Jobs -> status]
          order,   \* the accepted jobs, oldest first
          open     \* jobs are being served

vars == <<rows, order, open>>

Idle(r) == \A j \in Jobs : r[j] # "running"

\* j is the oldest job that waits.
Oldest(r, ord, j) ==
  \E k \in 1 .. Len(ord) :
    /\ ord[k] = j
    /\ r[j] = "queued"
    /\ \A i \in 1 .. k - 1 : r[ord[i]] # "queued"

\* The rows after the oldest waiting job has been given the idle executor.
Dispatch(r, ord) ==
  {s \in {[r EXCEPT ![j] = "running"] : j \in Jobs} :
      \E j \in Jobs : Idle(r) /\ Oldest(r, ord, j) /\ s = [r EXCEPT ![j] = "running"]}

Dispatched(r, ord) == IF Dispatch(r, ord) = {} THEN {r} ELSE Dispatch(r, ord)

Init == rows = [j \in Jobs |-> "absent"] /\ order = <<>> /\ open = TRUE

Accept(j) ==
  /\ open /\ rows[j] = "absent"
  /\ order' = Append(order, j)
  /\ rows' \in Dispatched([rows EXCEPT ![j] = "queued"], order')
  /\ UNCHANGED open

Withdraw(j) ==
  /\ open /\ rows[j] = "queued"
  /\ rows' = [rows EXCEPT ![j] = "cancelled"]
  /\ UNCHANGED <<order, open>>

Finish(j) ==
  /\ open /\ rows[j] = "running"
  /\ \E outcome \in {"succeeded", "failed"} :
       rows' \in Dispatched([rows EXCEPT ![j] = outcome], order)
  /\ UNCHANGED <<order, open>>

Close == open /\ open' = FALSE /\ UNCHANGED <<rows, order>>

Reopen ==
  /\ ~open /\ open' = TRUE
  /\ rows' = [j \in Jobs |-> IF rows[j] \in {"queued", "running"} THEN "failed" ELSE rows[j]]
  /\ UNCHANGED order

Next == (\E j \in Jobs : Accept(j) \/ Withdraw(j) \/ Finish(j)) \/ Close \/ Reopen

Spec == Init /\ [][Next]_vars
=============================================================================
