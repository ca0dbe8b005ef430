----------------------------- MODULE McpBinding -----------------------------
(***************************************************************************)
(* A mailbox binding of the MCP service and its stored mailbox password    *)
(* (apps/mcp/src/store/bindings.repository.ts and                          *)
(* domain/connections.service.ts), over a mailbox that changes in          *)
(* docker-mailserver, and the web tier that tells the service about it     *)
(* (apps/server/src/modules/mcp/mcp.service.ts).                           *)
(*                                                                         *)
(* One mailbox address: bindings of two addresses share nothing.  Each     *)
(* password set on it is an identity 1, 2, ...; 0 is no mailbox.  The      *)
(* fingerprint is a hash of the salted hash line, so a new identity has a  *)
(* new fingerprint.  The mail server applies a change a few seconds later. *)
(*                                                                         *)
(* A handler that waits (for the mailbox list, for the mail server's       *)
(* answer, for its turn) is a task.  All of it is one process.             *)
(*                                                                         *)
(* The grants of a connection are abstracted to the identity they were     *)
(* authorized under; McpOAuth has them in full.  The vault key is there.   *)
(***************************************************************************)
EXTENDS Integers, FiniteSets

CONSTANTS Bindings, Conns, Tasks,  \* row ids, handlers that may wait at once
          NoBinding, NoConn,       \* no row
          MaxId,                   \* bound: passwords set on the mailbox
          MaxConns                 \* maxConnectionsPerMailbox

ASSUME NoRowAssumption == NoBinding \notin Bindings /\ NoConn \notin Conns
ASSUME BoundAssumption == MaxId \in Nat /\ MaxConns \in Nat \ {0}
ASSUME FiniteAssumption == IsFiniteSet(Conns) /\ IsFiniteSet(Tasks)

VARIABLES
  box,      \* the identity in docker-mailserver's account file
  last,     \* the newest identity so far
  served,   \* the identity the mail server authenticates
  binding,  \* mcp_mailbox_bindings with mcp_credentials
  conn,     \* mcp_connections with its live grants
  task

vars == <<box, last, served, binding, conn, task>>

Ids == 0 .. MaxId

BindingRow ==
  [st : {"none", "active", "stale", "invalid", "mailbox_missing", "revoked"},
   fp : Ids,
   gone : BOOLEAN,  \* revoked_at is set
   cred : Ids]      \* the password in mcp_credentials; 0: no row

ConnRow ==
  [st : {"none", "enabled", "revoked"},
   b : Bindings \cup {NoBinding},
   grant : Ids]     \* the fingerprint its live grants were given under; 0: none

TaskState ==
  [op : {"idle", "create", "update", "probe", "reconcile", "changed", "deleted"},
   at : {"idle", "sent", "verify", "ok", "failed", "rejected"},
   b : Bindings \cup {NoBinding},
   c : Conns \cup {NoConn},
   fp : Ids,        \* the fingerprint the web tier read
   pw : Ids,        \* the password to verify; 0: none was given
   active : BOOLEAN]  \* the binding's state was active when it was read

NoRow == [st |-> "none", fp |-> 0, gone |-> FALSE, cred |-> 0]
NoConnRow == [st |-> "none", b |-> NoBinding, grant |-> 0]
Idle == [op |-> "idle", at |-> "idle", b |-> NoBinding, c |-> NoConn,
         fp |-> 0, pw |-> 0, active |-> FALSE]

Init ==
  /\ box = 0 /\ last = 0 /\ served = 0
  /\ binding = [b \in Bindings |-> NoRow]
  /\ conn = [c \in Conns |-> NoConnRow]
  /\ task = [t \in Tasks |-> Idle]

-----------------------------------------------------------------------------
\* findLiveByMailbox, listLive
Live == {b \in Bindings : binding[b].st # "none" /\ ~binding[b].gone}

\* credentialHealth of a row is `healthy`.
Healthy(row) == row.st = "active" /\ row.cred # 0

\* statusOf is `pending` or `active`.
Usable(c) ==
  /\ conn[c].st = "enabled"
  /\ conn[c].b \in Bindings
  /\ Healthy(binding[conn[c].b])

\* countNonRevokedForBinding
ConnsOf(b) == {c \in Conns : conn[c].st = "enabled" /\ conn[c].b = b}

Finish(t) == task' = [task EXCEPT ![t] = Idle]

\* Slip: the grants of the mailbox's connections are left alone.
GrantsKept(b) == conn

\* revokeAllGrantsForConnection, for every connection of b
GrantsRevoked(b) ==
  [c \in Conns |-> IF conn[c].b = b THEN [conn[c] EXCEPT !.grant = 0] ELSE conn[c]]

\* invalidateBinding
Invalidate(b, state) ==
  /\ binding' = [binding EXCEPT ![b] = [@ EXCEPT !.st = state, !.cred = 0]]
  /\ conn' = GrantsRevoked(b)

-----------------------------------------------------------------------------
(***************************************************************************)
(* The mailbox, in the panel (which then notifies the service) or outside  *)
(***************************************************************************)
PanelChange(t) ==
  /\ task[t] = Idle
  /\ box # 0 /\ last < MaxId
  /\ box' = last + 1 /\ last' = last + 1
  /\ task' = [task EXCEPT ![t] = [Idle EXCEPT !.op = "changed", !.at = "sent"]]
  /\ UNCHANGED <<served, binding, conn>>

PanelDelete(t) ==
  /\ task[t] = Idle
  /\ box # 0
  /\ box' = 0
  /\ task' = [task EXCEPT ![t] = [Idle EXCEPT !.op = "deleted", !.at = "sent"]]
  /\ UNCHANGED <<last, served, binding, conn>>

\* The mailbox is made, its password changed or the mailbox remade outside.
SetPassword ==
  /\ last < MaxId
  /\ box' = last + 1 /\ last' = last + 1
  /\ UNCHANGED <<served, binding, conn, task>>

OutsideDelete ==
  /\ box # 0
  /\ box' = 0
  /\ UNCHANGED <<last, served, binding, conn, task>>

\* docker-mailserver applies the account file.
Apply ==
  /\ served # box
  /\ served' = box
  /\ UNCHANGED <<box, last, binding, conn, task>>

\* The mail server answers a log-in, or cannot be reached.
MailAnswers(t) ==
  /\ task[t].at = "verify"
  /\ \E answer \in {"failed", IF task[t].pw = served THEN "ok" ELSE "rejected"} :
       task' = [task EXCEPT ![t] = [@ EXCEPT !.at = answer]]
  /\ UNCHANGED <<box, last, served, binding, conn>>

-----------------------------------------------------------------------------
(***************************************************************************)
(* The web tier reads the mailbox list and calls the service.              *)
(***************************************************************************)

\* Bound: every create under way finds a free row of Conns.
Room ==
  Cardinality({t \in Tasks : task[t].op = "create"}) < Cardinality({c \in Conns : conn[c].st = "none"})

AskCreate(t, pw) ==
  /\ task[t] = Idle
  /\ Room
  /\ box # 0
  /\ task' = [task EXCEPT ![t] = [Idle EXCEPT !.op = "create", !.at = "sent",
                                              !.fp = box, !.pw = pw]]
  /\ UNCHANGED <<box, last, served, binding, conn>>

AskUpdate(t, c, pw) ==
  /\ task[t] = Idle
  /\ box # 0
  /\ pw # 0
  /\ conn[c].st # "none"
  /\ task' = [task EXCEPT ![t] = [Idle EXCEPT !.op = "update", !.at = "sent", !.c = c,
                                              !.fp = box, !.pw = pw]]
  /\ UNCHANGED <<box, last, served, binding, conn>>

AskReconcile(t) ==
  /\ task[t] = Idle
  /\ task' = [task EXCEPT ![t] = [Idle EXCEPT !.op = "reconcile", !.at = "sent", !.fp = box]]
  /\ UNCHANGED <<box, last, served, binding, conn>>

-----------------------------------------------------------------------------
(***************************************************************************)
(* The service: resolveBinding                                             *)
(***************************************************************************)

\* Slip: only an active binding is found.
ResolvesActive(b) ==
  IF \A x \in Live : binding[x].st # "active"
    THEN binding[b].st = "none"
    ELSE b \in Live /\ binding[b].st = "active"

\* The binding that resolveBinding returns: the live one, or a new row.
Resolves(b) ==
  IF Live = {} THEN binding[b].st = "none" ELSE b \in Live

\* The row of b after resolveBinding with fingerprint fp
Resolved(b, fp) ==
  CASE binding[b].st = "none" -> [NoRow EXCEPT !.st = "active", !.fp = fp]
    [] binding[b].st # "none" /\ binding[b].fp # fp ->
         [binding[b] EXCEPT !.st = "active", !.fp = fp, !.cred = 0]
    [] binding[b].st = "mailbox_missing" /\ binding[b].fp = fp ->
         [binding[b] EXCEPT !.st = "active"]
    [] OTHER -> binding[b]

\* The connections after it: a changed fingerprint takes the grants.
ResolvedConns(b, fp) ==
  IF binding[b].st # "none" /\ binding[b].fp # fp THEN GrantsRevoked(b) ELSE conn

\* Slip: the limit is not looked at.
FullNever(b) == FALSE

\* The mailbox has its maximum of connections.
Full(b) == Cardinality(ConnsOf(b)) >= MaxConns

NewConn(conns, c, b) == [conns EXCEPT ![c] = [NoConnRow EXCEPT !.st = "enabled", !.b = b]]

(***************************************************************************)
(* create up to its first await: the limit is checked, then the password   *)
(* given is verified.  Whatever is refused, the binding stays resolved.    *)
(***************************************************************************)
CreateVerify(t, b) ==
  /\ task[t].op = "create" /\ task[t].at = "sent"
  /\ Resolves(b)
  /\ task[t].pw # 0 /\ ~Full(b)
  /\ binding' = [binding EXCEPT ![b] = Resolved(b, task[t].fp)]
  /\ conn' = ResolvedConns(b, task[t].fp)
  /\ task' = [task EXCEPT ![t] = [@ EXCEPT !.at = "verify", !.b = b]]
  /\ UNCHANGED <<box, last, served>>

\* create without a password, on the credential already stored
CreateStored(t, b, c) ==
  LET row == Resolved(b, task[t].fp) IN
  /\ task[t].op = "create" /\ task[t].at = "sent"
  /\ Resolves(b)
  /\ task[t].pw = 0 /\ ~Full(b) /\ Healthy(row)
  /\ conn[c].st = "none"
  /\ binding' = [binding EXCEPT ![b] = row]
  /\ conn' = NewConn(ResolvedConns(b, task[t].fp), c, b)
  /\ Finish(t)
  /\ UNCHANGED <<box, last, served>>

\* create refused: the limit, or no password given and none that can be used
CreateRefused(t, b) ==
  LET row == Resolved(b, task[t].fp) IN
  /\ task[t].op = "create" /\ task[t].at = "sent"
  /\ Resolves(b)
  /\ Full(b) \/ (task[t].pw = 0 /\ ~Healthy(row))
  /\ binding' = [binding EXCEPT ![b] = row]
  /\ conn' = ResolvedConns(b, task[t].fp)
  /\ Finish(t)
  /\ UNCHANGED <<box, last, served>>

\* provisionCredential after the mail server accepted the password
Provisioned(b, pw) == [binding[b] EXCEPT !.cred = pw]

\* create after provisionCredential
CreateDone(t, c) ==
  LET b == task[t].b
      row == Provisioned(b, task[t].pw)
  IN
  /\ task[t].op = "create" /\ task[t].at = "ok"
  /\ conn[c].st = "none"
  /\ binding' = [binding EXCEPT ![b] = row]
  /\ conn' = IF Healthy(row) THEN NewConn(conn, c, b) ELSE conn
  /\ Finish(t)
  /\ UNCHANGED <<box, last, served>>

\* updateCredentials up to its await; refused when the mailbox is another one.
UpdateVerify(t, b) ==
  LET c == task[t].c
      row == Resolved(b, task[t].fp)
  IN
  /\ task[t].op = "update" /\ task[t].at = "sent"
  /\ conn[c].st = "enabled"
  /\ Resolves(b)
  /\ binding' = [binding EXCEPT ![b] = row]
  /\ conn' = ResolvedConns(b, task[t].fp)
  /\ IF b = conn[c].b
       THEN task' = [task EXCEPT ![t] = [@ EXCEPT !.at = "verify", !.b = b,
                                                  !.active = (row.st = "active")]]
       ELSE Finish(t)
  /\ UNCHANGED <<box, last, served>>

(***************************************************************************)
(* updateCredentials after the mail server accepted the password: stored,  *)
(* and the binding is made active unless it was when it was read.          *)
(***************************************************************************)
UpdateDone(t) ==
  LET b == task[t].b IN
  /\ task[t].op = "update" /\ task[t].at = "ok"
  /\ binding' = [binding EXCEPT ![b] = [Provisioned(b, task[t].pw) EXCEPT
                                          !.st = IF task[t].active THEN @ ELSE "active"]]
  /\ Finish(t)
  /\ UNCHANGED <<box, last, served, conn>>

\* create, updateCredentials or a probe refused, or a mail server out of reach
GiveUp(t) ==
  /\ \/ task[t].op \in {"create", "update"} /\ task[t].at \in {"failed", "rejected"}
     \/ task[t].op = "update" /\ task[t].at = "sent" /\ conn[task[t].c].st # "enabled"
     \/ task[t].op = "probe" /\ task[t].at \in {"ok", "failed"}
  /\ Finish(t)
  /\ UNCHANGED <<box, last, served, binding, conn>>

\* test up to its await
Test(t, c) ==
  /\ task[t] = Idle
  /\ conn[c].st # "none"
  /\ Healthy(binding[conn[c].b])
  /\ task' = [task EXCEPT ![t] = [Idle EXCEPT !.op = "probe", !.at = "verify",
                           !.b = conn[c].b, !.pw = binding[conn[c].b].cred]]
  /\ UNCHANGED <<box, last, served, binding, conn>>

\* A tool call with a live grant, up to the log-in at the mail server
ToolCall(t, c) ==
  /\ task[t] = Idle
  /\ Usable(c) /\ conn[c].grant # 0
  /\ task' = [task EXCEPT ![t] = [Idle EXCEPT !.op = "probe", !.at = "verify",
                           !.b = conn[c].b, !.pw = binding[conn[c].b].cred]]
  /\ UNCHANGED <<box, last, served, binding, conn>>

\* markCredentialRejected: test, or the tool's wrapper, after a rejected log-in
Rejected(t) ==
  /\ task[t].op = "probe" /\ task[t].at = "rejected"
  /\ Invalidate(task[t].b, "invalid")
  /\ Finish(t)
  /\ UNCHANGED <<box, last, served>>

\* mailboxEvent('password_changed')
PasswordChanged(t) ==
  /\ task[t].op = "changed"
  /\ IF Live = {} THEN UNCHANGED <<binding, conn>>
                  ELSE \E b \in Live : Invalidate(b, "stale")
  /\ Finish(t)
  /\ UNCHANGED <<box, last, served>>

\* mailboxEvent('deleted')
Deleted(t) ==
  /\ task[t].op = "deleted"
  /\ IF Live = {}
       THEN UNCHANGED <<binding, conn>>
       ELSE \E b \in Live :
              /\ binding' = [binding EXCEPT ![b] = [@ EXCEPT !.st = "revoked",
                                                             !.gone = TRUE, !.cred = 0]]
              /\ conn' = [c \in Conns |-> IF conn[c].b = b
                                            THEN [conn[c] EXCEPT !.st = "revoked", !.grant = 0]
                                            ELSE conn[c]]
  /\ Finish(t)
  /\ UNCHANGED <<box, last, served>>

\* Slip: a mailbox that is back is not compared with the binding.
ReconcileRestores(t) ==
  /\ task[t].op = "reconcile"
  /\ Finish(t)
  /\ IF Live = {}
       THEN UNCHANGED <<binding, conn>>
       ELSE \E b \in Live :
              /\ binding' = [binding EXCEPT ![b].st =
                   IF task[t].fp = 0 THEN "mailbox_missing"
                   ELSE IF @ = "mailbox_missing" THEN "active" ELSE @]
              /\ UNCHANGED conn
  /\ UNCHANGED <<box, last, served>>

\* reconcile, on the list the web tier read
Reconcile(t) ==
  /\ task[t].op = "reconcile"
  /\ Finish(t)
  /\ \/ Live = {} /\ UNCHANGED <<binding, conn>>
     \/ \E b \in Live :
          LET fp == task[t].fp IN
          \/ /\ fp = 0
             /\ binding' = [binding EXCEPT ![b].st = "mailbox_missing"]
             /\ UNCHANGED conn
          \/ /\ fp \notin {0, binding[b].fp}
             /\ IF binding[b].st = "stale" THEN UNCHANGED <<binding, conn>>
                                            ELSE Invalidate(b, "stale")
          \/ /\ fp # 0 /\ fp = binding[b].fp
             /\ binding' = [binding EXCEPT ![b].st = IF @ = "mailbox_missing" THEN "active" ELSE @]
             /\ UNCHANGED conn
  /\ UNCHANGED <<box, last, served>>

\* The owner's client is authorized (McpOAuth): possible while the status allows it.
Authorize(c) ==
  /\ Usable(c)
  /\ conn' = [conn EXCEPT ![c].grant = binding[conn[c].b].fp]
  /\ UNCHANGED <<box, last, served, binding, task>>

\* revoke by the postmaster
RevokeConnection(c) ==
  /\ conn[c].st = "enabled"
  /\ conn' = [conn EXCEPT ![c] = [@ EXCEPT !.st = "revoked", !.grant = 0]]
  /\ UNCHANGED <<box, last, served, binding, task>>

\* The process dies: waiting handlers and unsent notifications are lost.
Crash ==
  /\ \E t \in Tasks : task[t] # Idle
  /\ task' = [t \in Tasks |-> Idle]
  /\ UNCHANGED <<box, last, served, binding, conn>>

-----------------------------------------------------------------------------
Mailbox ==
  \/ SetPassword \/ OutsideDelete \/ Apply
  \/ \E t \in Tasks : PanelChange(t) \/ PanelDelete(t) \/ MailAnswers(t)

Provision ==
  \E t \in Tasks :
    \/ \E pw \in 0 .. last : AskCreate(t, pw) \/ \E c \in Conns : AskUpdate(t, c, pw)
    \/ \E b \in Bindings : CreateVerify(t, b) \/ CreateRefused(t, b) \/ UpdateVerify(t, b)
    \/ \E b \in Bindings, c \in Conns : CreateStored(t, b, c)
    \/ \E c \in Conns : CreateDone(t, c)
    \/ UpdateDone(t) \/ GiveUp(t)

Use ==
  \/ \E c \in Conns : Authorize(c) \/ RevokeConnection(c)
  \/ \E t \in Tasks : Rejected(t) \/ \E c \in Conns : Test(t, c) \/ ToolCall(t, c)

Signals ==
  \E t \in Tasks : AskReconcile(t) \/ Reconcile(t) \/ PasswordChanged(t) \/ Deleted(t)

Next == Mailbox \/ Provision \/ Use \/ Signals \/ Crash

Spec == Init /\ [][Next]_vars

(***************************************************************************)
(* The reconciliation timer fires whatever else goes on, and not every     *)
(* sweep is cut short by a crash; the mail server answers or times out,    *)
(* and a handler whose wait is over goes on.                               *)
(***************************************************************************)
Continue(t) ==
  \/ MailAnswers(t)
  \/ \E b \in Bindings : CreateVerify(t, b) \/ CreateRefused(t, b) \/ UpdateVerify(t, b)
  \/ \E b \in Bindings, c \in Conns : CreateStored(t, b, c)
  \/ \E c \in Conns : CreateDone(t, c)
  \/ UpdateDone(t) \/ GiveUp(t) \/ Rejected(t)
  \/ PasswordChanged(t) \/ Deleted(t)

Fairness ==
  /\ SF_vars(\E t \in Tasks : AskReconcile(t))
  /\ \A t \in Tasks : SF_vars(Reconcile(t)) /\ WF_vars(Continue(t))

FairSpec == Spec /\ Fairness

-----------------------------------------------------------------------------
(***************************************************************************)
(* Properties                                                              *)
(***************************************************************************)

TypeOK ==
  /\ box \in Ids /\ last \in Ids /\ served \in Ids
  /\ binding \in [Bindings -> BindingRow]
  /\ conn \in [Conns -> ConnRow]
  /\ task \in [Tasks -> TaskState]

(***************************************************************************)
(* "Recreating an address never restores old grants": a live grant belongs *)
(* to the mailbox identity its binding is anchored to, whichever events,   *)
(* sweeps and re-provisionings overlapped; and a binding that is stale or  *)
(* invalid has none.                                                       *)
(***************************************************************************)
GrantsFollowIdentity ==
  \A c \in Conns : conn[c].grant # 0 =>
    /\ conn[c].grant = binding[conn[c].b].fp
    /\ binding[conn[c].b].st \notin {"stale", "invalid"}

(***************************************************************************)
(* A mailbox address has one live binding: an event or a sweep that reads  *)
(* one row has seen them all.                                              *)
(***************************************************************************)
OneLiveBinding == \A a, b \in Live : a = b

(***************************************************************************)
(* The limit of connections per mailbox can be overrun only by the creates *)
(* that were waiting for the mail server when it was reached.              *)
(***************************************************************************)
LimitOverrun ==
  \A b \in Bindings : Cardinality(ConnsOf(b)) < MaxConns + Cardinality(Tasks)

(***************************************************************************)
(* A mailbox that changed or vanished is noticed, also when every          *)
(* notification was lost: the binding of the old identity does not stay    *)
(* usable.                                                                 *)
(***************************************************************************)
Outdated(b) == b \in Live /\ Healthy(binding[b]) /\ binding[b].fp # box

ChangeIsNoticed == \A b \in Bindings : Outdated(b) ~> ~Outdated(b)

-----------------------------------------------------------------------------
(***************************************************************************)
(* Statements of the documentation and of comments that the code does not  *)
(* keep                                                                    *)
(***************************************************************************)

\* "every connection for it is revoked"; "Terminal; never reused"
DeletedIsDead == \A c \in Conns : Usable(c) => ~binding[conn[c].b].gone
=============================================================================
