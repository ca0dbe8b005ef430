------------------------------ MODULE McpTools ------------------------------
(***************************************************************************)
(* The mail tools of one MCP connection (apps/mcp/src/mcp/tools.ts), the   *)
(* ledger of what they did (store/operations.repository.ts) and the        *)
(* mailbox and submission server they work on (mail/imap-smtp-backend.ts). *)
(*                                                                         *)
(* A call that waits is a task: for a free IMAP session, for IMAP, for     *)
(* SMTP.  Between two waits a handler runs alone (one event loop), so each *)
(* action is one such stretch.  Every ledger query is scoped by the        *)
(* connection; one connection is modelled.  Other mail clients move and    *)
(* expunge the same messages.                                              *)
(*                                                                         *)
(* A clock is not needed: a row's created_at is in the last hour or older, *)
(* and only ever gets older.  sendsPerDay is the test of sendsPerHour over *)
(* a longer window; one window is modelled.                                *)
(***************************************************************************)
EXTENDS Integers, Sequences, FiniteSets

CONSTANTS Tasks,      \* tool calls that may wait at once
          MaxOps,     \* bound: ledger rows
          Keys,       \* idempotency keys the client makes up
          Msgs,       \* messages of the mailbox
          Folders,    \* folders besides Trash
          NoKey, Trash,
          Limit,      \* MAX_SESSIONS_PER_MAILBOX
          PerMinute, PerHour,  \* toolCallsPerMinute, sendsPerHour
          MaxUid,     \* bound: UIDs handed out in a folder
          MaxOutside  \* bound: what other clients and the server do to the mailbox

ASSUME NamesAssumption == NoKey \notin Keys /\ Trash \notin Folders
ASSUME LimitAssumption ==
  /\ Limit \in Nat \ {0} /\ PerMinute \in Nat \ {0}
  /\ PerHour \in Nat \ {0}
  /\ MaxOps \in Nat /\ MaxUid \in Nat /\ MaxOutside \in Nat
ASSUME FiniteAssumption ==
  IsFiniteSet(Tasks) /\ IsFiniteSet(Msgs) /\ Cardinality(Msgs) <= MaxUid

VARIABLES
  box,    \* where each message is
  dir,    \* each folder's UIDVALIDITY and next UID
  op,     \* mcp_operations
  task,
  sess,   \* Semaphore: the tasks inside, and the waiters in order
  calls,  \* ToolRateLimiter: calls of the last minute
  cred,   \* the binding's credential is stored and the binding active
  posted, \* history: submissions handed to the SMTP server, per key
  outside \* count for MaxOutside

vars == <<box, dir, op, task, sess, calls, cred, posted, outside>>

Ops == 1 .. MaxOps
Places == Folders \cup {Trash}
Ages == {"hour", "old"}
Uids == 1 .. MaxUid

\* Of a message: not accepted; accepted, and the answer arrived; accepted, and
\* the answer was lost.
Fates == {"no", "answered", "lost"}

\* A MessageRef, with the message it named when it was made (history).
Refs == [f : Places, v : 0 .. MaxOutside, u : Uids, m : Msgs]

OpRow ==
  [kind : {"none", "send", "delete"},
   st : {"none", "pending", "completed", "failed", "unknown"},
   key : Keys \cup {NoKey},
   age : Ages,
   from : SUBSET Places,  \* originalFolder of a deletion
   ref : SUBSET Refs,     \* its place in Trash; empty: not restorable
   back : BOOLEAN,        \* restoredAt is set
   got : Fates]           \* history: whether the SMTP server accepted the message

TaskState ==
  [at : {"idle", "read", "reply", "smtp", "copy", "check", "move",
         "next", "find", "putback", "mark"},
   key : Keys \cup {NoKey},
   age : Ages,              \* of the moment the call looked at the clock
   rows : SUBSET Ops,       \* the ledger rows of the call: its own, or still to restore
   f : SUBSET Places,       \* the folder being worked on
   refs : SUBSET Refs,      \* messages still to move
   moved : SUBSET [from : Refs, ref : SUBSET Refs],
   hit : SUBSET Msgs]       \* history: messages this call has moved

NoRow == [kind |-> "none", st |-> "none", key |-> NoKey, age |-> "hour",
          from |-> {}, ref |-> {}, back |-> FALSE, got |-> "no"]
Idle == [at |-> "idle", key |-> NoKey, age |-> "hour", rows |-> {}, f |-> {},
         refs |-> {}, moved |-> {}, hit |-> {}]

Gone == [f |-> Trash, u |-> 0]

Init ==
  /\ \E at \in [Msgs -> Folders] :
       LET u == CHOOSE x \in [Msgs -> 1 .. Cardinality(Msgs)] :
                  \A m, n \in Msgs : m # n => x[m] # x[n]
       IN box = [m \in Msgs |-> [f |-> at[m], u |-> u[m]]]
  /\ dir = [f \in Places |-> [v |-> 0, next |-> IF f = Trash THEN 1 ELSE Cardinality(Msgs) + 1]]
  /\ op = [o \in Ops |-> NoRow]
  /\ task = [t \in Tasks |-> Idle]
  /\ sess = [in |-> {}, q |-> <<>>]
  /\ calls = 0
  /\ cred = TRUE
  /\ posted = [k \in Keys |-> 0]
  /\ outside = 0

-----------------------------------------------------------------------------
(***************************************************************************)
(* The limiter, the ledger and the sessions                                *)
(***************************************************************************)

\* ToolRateLimiter.allow
Allowed == calls < PerMinute /\ calls' = calls + 1

\* countSendsSince
Counted ==
  {o \in Ops : /\ op[o].kind = "send"
               /\ op[o].st \in {"pending", "completed", "unknown"}
               /\ op[o].age = "hour"}

UnderSendLimit == Cardinality(Counted) < PerHour

\* findByIdempotencyKey finds a row.
KeyUsed(k) == k # NoKey /\ \E o \in Ops : op[o].kind = "send" /\ op[o].key = k

\* Slip: the look-up before the wait is the only guard.
UniqueLookedUp(k) == TRUE

\* idx_mcp_operations_idempotency accepts the row.
Unique(k) == ~KeyUsed(k)

\* The ids of the n rows a call will write.  An id is made up when its row is
\* written; the model sets it aside when the call begins.
Fresh == {o \in Ops : op[o].kind = "none" /\ \A t \in Tasks : o \notin task[t].rows}
NewRows(n) ==
  {rows \in SUBSET Fresh : /\ Cardinality(rows) = n
                           /\ \A o \in rows, p \in Fresh \ rows : o < p}

\* finish, of the call's send
Finished(t, st, got) ==
  op' = [o \in Ops |-> IF o \in task[t].rows
                       THEN [op[o] EXCEPT !.st = st, !.got = got] ELSE op[o]]

Inside(t) == t \in sess.in

\* Semaphore.run, before fn: join if there is room, else wait.
Seek(t) ==
  IF Cardinality(sess.in) < Limit THEN [sess EXCEPT !.in = @ \cup {t}]
                                  ELSE [sess EXCEPT !.q = Append(@, t)]

\* Slip: nobody is woken.
LeftAlone(t) == [sess EXCEPT !.in = @ \ {t}]

\* Its finally: one waiter takes the place, before any other handler runs.
Left(t) ==
  IF sess.q = <<>> THEN [sess EXCEPT !.in = @ \ {t}]
                   ELSE [in |-> (sess.in \ {t}) \cup {Head(sess.q)}, q |-> Tail(sess.q)]

Begin(t, state) == task[t] = Idle /\ task' = [task EXCEPT ![t] = state]
Done(t) == task' = [task EXCEPT ![t] = Idle]

-----------------------------------------------------------------------------
(***************************************************************************)
(* Any tool                                                                *)
(***************************************************************************)

\* The wrapper and the handlers refuse: scope, input, sender, size, limits,
\* a key that was used.  Only the limiter remembers the call.
Refused == Allowed /\ UNCHANGED <<box, dir, op, task, sess, cred, posted, outside>>

\* mail_list_folders, mail_list_messages, mail_search, mail_read, mail_get_attachment
Read(t) ==
  /\ cred /\ Allowed
  /\ Begin(t, [Idle EXCEPT !.at = "read"])
  /\ sess' = Seek(t)
  /\ UNCHANGED <<box, dir, op, cred, posted, outside>>

ReadEnds(t) ==
  /\ task[t].at = "read" /\ Inside(t)
  /\ Done(t) /\ sess' = Left(t)
  /\ UNCHANGED <<box, dir, op, calls, cred, posted, outside>>

\* The session does not open, or fails on the way: a timeout, a refusal.
\* After the last move, and for the copy of a sent message, failure is ignored.
Fallible(t) ==
  /\ Inside(t)
  /\ \/ task[t].at \in {"read", "reply", "move", "find", "putback"}
     \/ task[t].at = "check" /\ task[t].refs # {}

\* A failed restoration is noted and the next id is taken up.
Aborted(t) ==
  task' = [task EXCEPT ![t] = IF @.at \in {"find", "putback"}
                              THEN [Idle EXCEPT !.at = "next", !.rows = task[t].rows]
                              ELSE Idle]

ImapFails(t) ==
  /\ Fallible(t)
  /\ Aborted(t) /\ sess' = Left(t)
  /\ UNCHANGED <<box, dir, op, calls, cred, posted, outside>>

\* The log-in is refused: markCredentialRejected, and the call ends.
ImapRejects(t) ==
  /\ Fallible(t)
  /\ task[t].at \in {"read", "reply", "check", "find"} /\ task[t].moved = {}
  /\ Done(t) /\ sess' = Left(t) /\ cred' = FALSE
  /\ UNCHANGED <<box, dir, op, calls, posted, outside>>

-----------------------------------------------------------------------------
(***************************************************************************)
(* mail_send                                                               *)
(***************************************************************************)
MaySend(k) == cred /\ ~KeyUsed(k) /\ UnderSendLimit

\* operations.create, and the call of mail.send
Post(t, rows, k, age) ==
  /\ op' = [o \in Ops |-> IF o \in rows
                          THEN [NoRow EXCEPT !.kind = "send", !.st = "pending",
                                             !.key = k, !.age = age]
                          ELSE op[o]]
  /\ task' = [task EXCEPT ![t] = [Idle EXCEPT !.at = "smtp", !.rows = rows]]
  /\ posted' = IF k = NoKey THEN posted ELSE [posted EXCEPT ![k] = @ + 1]

Send(t, k) ==
  /\ task[t] = Idle
  /\ Allowed /\ MaySend(k)
  /\ \E rows \in NewRows(1) : Unique(k) /\ Post(t, rows, k, "hour")
  /\ UNCHANGED <<box, dir, sess, cred, outside>>

\* A reply first fetches the message it answers.
SendReply(t, k) ==
  /\ Allowed /\ MaySend(k)
  /\ Begin(t, [Idle EXCEPT !.at = "reply", !.key = k])
  /\ sess' = Seek(t)
  /\ UNCHANGED <<box, dir, op, cred, posted, outside>>

ReplyFetched(t) ==
  /\ task[t].at = "reply" /\ Inside(t)
  /\ sess' = Left(t)
  /\ IF Unique(task[t].key)
     THEN \E rows \in NewRows(1) : Post(t, rows, task[t].key, task[t].age)
     ELSE Done(t) /\ UNCHANGED <<op, posted>>
  /\ UNCHANGED <<box, dir, calls, cred, outside>>

\* sendMail resolves and no copy is wanted.
Sent(t) ==
  /\ task[t].at = "smtp"
  /\ Finished(t, "completed", "answered") /\ Done(t)
  /\ UNCHANGED <<box, dir, sess, calls, cred, posted, outside>>

\* It resolves, and a copy is filed in Sent (saveSentCopies).
SentFiling(t) ==
  /\ task[t].at = "smtp"
  /\ Finished(t, "pending", "answered")
  /\ task' = [task EXCEPT ![t].at = "copy"]
  /\ sess' = Seek(t)
  /\ UNCHANGED <<box, dir, calls, cred, posted, outside>>

\* The copy is filed, or is not: either way the send is completed.
Copied(t) ==
  /\ task[t].at = "copy" /\ Inside(t)
  /\ Finished(t, "completed", "answered")
  /\ Done(t) /\ sess' = Left(t)
  /\ UNCHANGED <<box, dir, calls, cred, posted, outside>>

\* A 4xx or 5xx answer, or a failure before DATA: it was not sent.
NotSent(t) ==
  /\ task[t].at = "smtp"
  /\ Finished(t, "failed", "no") /\ Done(t)
  /\ UNCHANGED <<box, dir, sess, calls, cred, posted, outside>>

\* EAUTH or 535
SmtpRejects(t) ==
  /\ task[t].at = "smtp"
  /\ Finished(t, "failed", "no") /\ Done(t) /\ cred' = FALSE
  /\ UNCHANGED <<box, dir, sess, calls, posted, outside>>

\* The connection fails during or after DATA.  A socket error, a timeout and an
\* unexpected close are nodemailer's command CONN whenever they come, and part
\* of an answer is a code: the send is taken for not sent, whatever the server
\* has.
CutOff(t, got) ==
  /\ task[t].at = "smtp" /\ got # "answered"
  /\ Finished(t, "failed", got) /\ Done(t)
  /\ UNCHANGED <<box, dir, sess, calls, cred, posted, outside>>

\* An error that has no command, or DATA: the server may have the message.
Uncertain(t, got) ==
  /\ task[t].at = "smtp" /\ got # "answered"
  /\ Finished(t, "unknown", got) /\ Done(t)
  /\ UNCHANGED <<box, dir, sess, calls, cred, posted, outside>>

-----------------------------------------------------------------------------
(***************************************************************************)
(* mail_delete                                                             *)
(***************************************************************************)
RefOf(m) == [f |-> box[m].f, v |-> dir[box[m].f].v, u |-> box[m].u, m |-> m]

\* Slip: the folder's UIDVALIDITY is not compared.
CurrentAny(r) == TRUE

\* The reference was made under the folder's present UIDVALIDITY.
Current(r) == r.v = dir[r.f].v

\* The messages that the UIDs of rs name in folder f now.
Named(f, rs) == {m \in Msgs : box[m].u # 0 /\ box[m].f = f /\ \E r \in rs : r.u = box[m].u}

\* The ids come from an earlier listing.
Delete(t, ms) ==
  /\ cred /\ Allowed
  /\ ms # {} /\ \A m \in ms : box[m] # Gone
  /\ \E rows \in NewRows(Cardinality(ms)) :
       Begin(t, [Idle EXCEPT !.at = "check", !.rows = rows, !.refs = {RefOf(m) : m \in ms}])
  /\ sess' = Seek(t)
  /\ UNCHANGED <<box, dir, op, cred, posted, outside>>

InFolder(t, f) == {r \in task[t].refs : r.f = f}

\* moveToTrash, one folder: selected, UIDVALIDITY compared, messages fetched.
CheckFolder(t, f) ==
  /\ task[t].at = "check" /\ Inside(t)
  /\ InFolder(t, f) # {}
  /\ f # Trash
  /\ \A r \in InFolder(t, f) : Current(r)
  /\ \A r \in InFolder(t, f) : Named(f, {r}) # {}
  /\ task' = [task EXCEPT ![t] = [@ EXCEPT !.at = "move", !.f = {f}]]
  /\ UNCHANGED <<box, dir, op, sess, calls, cred, posted, outside>>

\* It throws: already in Trash, out of date, or a message is no longer there.
\* What earlier folders lost stays in Trash, and no row says so.
CheckFails(t, f) ==
  /\ task[t].at = "check" /\ Inside(t)
  /\ InFolder(t, f) # {}
  /\ f = Trash \/ \E r \in InFolder(t, f) : ~Current(r) \/ Named(f, {r}) = {}
  /\ Done(t) /\ sess' = Left(t)
  /\ UNCHANGED <<box, dir, op, calls, cred, posted, outside>>

\* The UIDs the next messages moved into folder f get, in some order.
Arrivals(ms, f) ==
  {u \in [ms -> Uids] : /\ \A m \in ms : u[m] \in dir[f].next .. dir[f].next + Cardinality(ms) - 1
                        /\ \A m, n \in ms : m # n => u[m] # u[n]}

\* messageMove: the messages still there get new UIDs in folder f.
MoveTo(ms, f, u) ==
  /\ box' = [m \in Msgs |-> IF m \in ms THEN [f |-> f, u |-> u[m]] ELSE box[m]]
  /\ dir' = [dir EXCEPT ![f].next = @ + Cardinality(ms)]

\* The move, and the TrashMove entries; without UIDPLUS the new UIDs are unknown.
MoveFolder(t, f, uidplus) ==
  /\ task[t].at = "move" /\ task[t].f = {f}
  /\ LET rs == InFolder(t, f)
         ms == Named(f, rs)
         rest == task[t].refs \ rs
     IN \E u \in Arrivals(ms, Trash) :
          LET entry(r) ==
                [from |-> r,
                 ref |-> {[f |-> Trash, v |-> dir[Trash].v, u |-> u[m], m |-> r.m] :
                            m \in IF uidplus THEN Named(f, {r}) ELSE {}}]
          IN /\ MoveTo(ms, Trash, u)
             /\ task' = [task EXCEPT ![t] =
                           [@ EXCEPT !.at = "check", !.f = {}, !.refs = rest,
                                     !.moved = task[t].moved \cup {entry(r) : r \in rs},
                                     !.hit = task[t].hit \cup ms]]
  /\ UNCHANGED <<op, sess, calls, cred, posted, outside>>

\* All folders are done: the rows are written, the restore ids answered.
Recorded(t) ==
  /\ task[t].at = "check" /\ Inside(t) /\ task[t].refs = {}
  /\ LET moved == task[t].moved
         row == CHOOSE r \in [moved -> task[t].rows] : \A e, g \in moved : e # g => r[e] # r[g]
     IN op' = [o \in Ops |->
                 IF o \in task[t].rows
                 THEN LET e == CHOOSE x \in moved : row[x] = o
                      IN [NoRow EXCEPT !.kind = "delete", !.st = "completed",
                                       !.from = {e.from.f}, !.ref = e.ref]
                 ELSE op[o]]
  /\ Done(t) /\ sess' = Left(t)
  /\ UNCHANGED <<box, dir, calls, cred, posted, outside>>

-----------------------------------------------------------------------------
(***************************************************************************)
(* mail_restore                                                            *)
(***************************************************************************)
Restorable(o) == op[o].kind = "delete" /\ op[o].ref # {} /\ ~op[o].back

Restore(t, os) ==
  /\ cred /\ Allowed
  /\ os # {} /\ \A o \in os : op[o].kind = "delete"
  /\ Begin(t, [Idle EXCEPT !.at = "next", !.rows = os])
  /\ UNCHANGED <<box, dir, op, sess, cred, posted, outside>>

\* The next id: refused at once, or looked for in Trash.
RestoreNext(t, o) ==
  /\ task[t].at = "next" /\ o \in task[t].rows
  /\ LET rest == task[t].rows \ {o}
     IN IF Restorable(o)
        THEN /\ task' = [task EXCEPT ![t] = [@ EXCEPT !.at = "find", !.rows = rest,
                                                      !.f = op[o].from, !.refs = op[o].ref]]
             /\ sess' = Seek(t)
        ELSE /\ task' = [task EXCEPT ![t].rows = rest]
             /\ UNCHANGED sess
  /\ UNCHANGED <<box, dir, op, calls, cred, posted, outside>>

RestoreEnds(t) ==
  /\ task[t].at = "next" /\ task[t].rows = {}
  /\ Done(t)
  /\ UNCHANGED <<box, dir, op, sess, calls, cred, posted, outside>>

\* restoreFromTrash: Trash selected, UIDVALIDITY compared, the message fetched.
\* Messages of the model have no Message-ID to compare.
FindInTrash(t) ==
  /\ task[t].at = "find" /\ Inside(t)
  /\ \A r \in task[t].refs : Current(r) /\ Named(Trash, {r}) # {}
  /\ task' = [task EXCEPT ![t].at = "putback"]
  /\ UNCHANGED <<box, dir, op, sess, calls, cred, posted, outside>>

NotInTrash(t) ==
  /\ task[t].at = "find" /\ Inside(t)
  /\ \E r \in task[t].refs : ~Current(r) \/ Named(Trash, {r}) = {}
  /\ Aborted(t) /\ sess' = Left(t)
  /\ UNCHANGED <<box, dir, op, calls, cred, posted, outside>>

\* The move back, of whatever the UID still names.
PutBack(t, f) ==
  /\ task[t].at = "putback" /\ task[t].f = {f}
  /\ LET ms == Named(Trash, task[t].refs)
     IN \E u \in Arrivals(ms, f) :
          /\ MoveTo(ms, f, u)
          /\ task' = [task EXCEPT ![t] = [@ EXCEPT !.at = "mark", !.hit = ms]]
  /\ UNCHANGED <<op, sess, calls, cred, posted, outside>>

\* The session is over: markRestored.  The row of the restoration is never read.
Marked(t) ==
  /\ task[t].at = "mark"
  /\ op' = [o \in Ops |-> IF op[o].kind = "delete" /\ op[o].ref = task[t].refs
                          THEN [op[o] EXCEPT !.back = TRUE] ELSE op[o]]
  /\ task' = [task EXCEPT ![t] = [Idle EXCEPT !.at = "next", !.rows = task[t].rows]]
  /\ sess' = Left(t)
  /\ UNCHANGED <<box, dir, calls, cred, posted, outside>>

-----------------------------------------------------------------------------
(***************************************************************************)
(* Around the tools: other mail clients, time, the postmaster, the process *)
(***************************************************************************)
Outside == outside < MaxOutside /\ outside' = outside + 1

UserMoves(m, f) ==
  /\ Outside
  /\ box[m] # Gone /\ box[m].f # f
  /\ \E u \in Arrivals({m}, f) : MoveTo({m}, f, u)
  /\ UNCHANGED <<op, task, sess, calls, cred, posted>>

UserExpunges(m) ==
  /\ Outside
  /\ box[m] # Gone
  /\ box' = [box EXCEPT ![m] = Gone]
  /\ UNCHANGED <<dir, op, task, sess, calls, cred, posted>>

Selected(t) == CASE task[t].at = "move" -> task[t].f
                 [] task[t].at = "putback" -> {Trash}
                 [] OTHER -> {}

\* A folder is remade under a new UIDVALIDITY; its messages are numbered anew.
\* IMAP does not do that to a folder that a session has selected.
Rebuild(f) ==
  /\ Outside
  /\ \A t \in Tasks : f \notin Selected(t)
  /\ LET ms == {m \in Msgs : box[m] # Gone /\ box[m].f = f}
     IN \E u \in [ms -> 1 .. Cardinality(ms)] :
          /\ \A m, n \in ms : m # n => u[m] # u[n]
          /\ box' = [m \in Msgs |-> IF m \in ms THEN [box[m] EXCEPT !.u = u[m]] ELSE box[m]]
          /\ dir' = [dir EXCEPT ![f] = [v |-> @.v + 1, next |-> Cardinality(ms) + 1]]
  /\ UNCHANGED <<op, task, sess, calls, cred, posted>>

\* The age of a failed send is never looked at.
Age(o) ==
  /\ op[o].kind = "send" /\ op[o].st # "failed" /\ op[o].age # "old"
  /\ op' = [op EXCEPT ![o].age = "old"]
  /\ UNCHANGED <<box, dir, task, sess, calls, cred, posted, outside>>

AgeReply(t) ==
  /\ task[t].at = "reply" /\ task[t].age # "old"
  /\ task' = [task EXCEPT ![t].age = "old"]
  /\ UNCHANGED <<box, dir, op, sess, calls, cred, posted, outside>>

CallLapses ==
  /\ calls > 0
  /\ calls' = calls - 1
  /\ UNCHANGED <<box, dir, op, task, sess, cred, posted, outside>>

\* The postmaster stores a working password (McpBinding).
Reprovision ==
  /\ ~cred
  /\ cred' = TRUE
  /\ UNCHANGED <<box, dir, op, task, sess, calls, posted, outside>>

\* The process dies.  A message under submission may get through.
Crash ==
  /\ \E through \in SUBSET {t \in Tasks : task[t].at = "smtp"} :
       op' = [o \in Ops |-> IF \E t \in through : o \in task[t].rows
                            THEN [op[o] EXCEPT !.got = "lost"] ELSE op[o]]
  /\ task' = [t \in Tasks |-> Idle]
  /\ sess' = [in |-> {}, q |-> <<>>]
  /\ calls' = 0
  /\ UNCHANGED <<box, dir, cred, posted, outside>>

-----------------------------------------------------------------------------
Call(t) ==
  \/ Read(t)
  \/ \E k \in Keys \cup {NoKey} : Send(t, k) \/ SendReply(t, k)
  \/ \E ms \in SUBSET Msgs : Delete(t, ms)
  \/ \E os \in SUBSET Ops : Restore(t, os)

Continue(t) ==
  \/ ReadEnds(t) \/ ImapFails(t) \/ ImapRejects(t)
  \/ ReplyFetched(t) \/ Sent(t) \/ SentFiling(t) \/ Copied(t)
  \/ NotSent(t) \/ SmtpRejects(t) \/ \E got \in Fates : CutOff(t, got) \/ Uncertain(t, got)
  \/ \E f \in Places : \/ CheckFolder(t, f) \/ CheckFails(t, f)
                        \/ PutBack(t, f)
                        \/ \E uidplus \in BOOLEAN : MoveFolder(t, f, uidplus)
  \/ Recorded(t)
  \/ \E o \in Ops : RestoreNext(t, o)
  \/ RestoreEnds(t) \/ FindInTrash(t) \/ NotInTrash(t) \/ Marked(t)

Around ==
  \/ \E m \in Msgs : UserExpunges(m) \/ \E f \in Places : UserMoves(m, f)
  \/ \E f \in Places : Rebuild(f)
  \/ \E o \in Ops : Age(o)
  \/ \E t \in Tasks : AgeReply(t)
  \/ CallLapses \/ Reprovision

Next == (\E t \in Tasks : Call(t) \/ Continue(t)) \/ Refused \/ Around \/ Crash

Spec == Init /\ [][Next]_vars

(***************************************************************************)
(* Sockets have timeouts, so the mail server answers or fails.             *)
(***************************************************************************)
FairSpec == Spec /\ \A t \in Tasks : WF_vars(Continue(t))

-----------------------------------------------------------------------------
(***************************************************************************)
(* Properties                                                              *)
(***************************************************************************)

\* Every row, task and place is one the schema and the code know.
TypeOK ==
  /\ box \in [Msgs -> [f : Places, u : 0 .. MaxUid]]
  /\ dir \in [Places -> [v : 0 .. MaxOutside, next : 1 .. MaxUid + 1]]
  /\ op \in [Ops -> OpRow]
  /\ task \in [Tasks -> TaskState]
  /\ sess \in [in : SUBSET Tasks, q : Seq(Tasks)]
  /\ calls \in 0 .. PerMinute
  /\ cred \in BOOLEAN
  /\ posted \in [Keys -> Nat]
  /\ outside \in 0 .. MaxOutside

(***************************************************************************)
(* mail_send promises that "a key that was already used is never sent      *)
(* twice": whatever fails, dies or overlaps, the mail server is handed at  *)
(* most one message per key.                                               *)
(***************************************************************************)
KeyNeverSentTwice == \A k \in Keys : posted[k] <= 1

(***************************************************************************)
(* What the ledger answers to a retry is true as far as the mail server's  *)
(* answer goes: a completed send was accepted, and one whose acceptance    *)
(* was answered is never failed or unknown, whatever becomes of its copy.  *)
(* Where the answer was lost, a failed send may have gone out all the same *)
(* (CutOff).                                                               *)
(***************************************************************************)
LedgerTellsTruth ==
  \A o \in Ops : op[o].kind = "send" =>
    /\ op[o].st = "completed" => op[o].got = "answered"
    /\ op[o].st \in {"failed", "unknown"} => op[o].got # "answered"

(***************************************************************************)
(* Replies wait between the count and the row, so sendsPerHour can be      *)
(* overrun, but by no more than the other calls under way at once, also    *)
(* counting the replies that still wait.  Failed sends are not counted,    *)
(* those that went out all the same included.                              *)
(***************************************************************************)
Replying == {t \in Tasks : task[t].at = "reply" /\ task[t].age = "hour"}

SendLimit ==
  Cardinality({o \in Ops : op[o].kind = "send" /\ op[o].age = "hour" /\ op[o].st # "failed"})
    + Cardinality(Replying) <= PerHour + Cardinality(Tasks) - 1

(***************************************************************************)
(* mail_delete and mail_restore move the message the id named when it was  *)
(* handed out and no other, whatever other clients did to the folder.      *)
(***************************************************************************)
MovesWhatWasNamed ==
  \A t \in Tasks : task[t].hit \subseteq
    {r.m : r \in task[t].refs} \cup {e.from.m : e \in task[t].moved}

(***************************************************************************)
(* The service never holds more than MAX_SESSIONS_PER_MAILBOX sessions.    *)
(***************************************************************************)
SessionsBounded == Cardinality(sess.in) <= Limit

(***************************************************************************)
(* The ledger of sends can be relied on, whatever overlaps, fails or dies  *)
(* (mail_send, findByIdempotencyKey, countSendsSince).                     *)
(***************************************************************************)
LedgerHolds == TypeOK /\ KeyNeverSentTwice /\ LedgerTellsTruth /\ SendLimit

(***************************************************************************)
(* The mailbox is touched as asked, by no more sessions at once than       *)
(* allowed (moveToTrash, restoreFromTrash, Semaphore).                     *)
(***************************************************************************)
MailboxHolds == MovesWhatWasNamed /\ SessionsBounded

(***************************************************************************)
(* No call waits for ever: a session that fails also wakes a waiter.       *)
(***************************************************************************)
EveryCallEnds == \A t \in Tasks : task[t] # Idle ~> task[t] = Idle
=============================================================================
