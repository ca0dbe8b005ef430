------------------------------ MODULE McpOAuth ------------------------------
(***************************************************************************)
(* How a mailbox owner's client gets, keeps and loses access to a          *)
(* mailbox: the setup credential (enrollment) of a connection, the sign-in *)
(* and consent pages, the authorization code, the grant and its rotating   *)
(* tokens (apps/mcp/src/oauth, store and domain/connections.service.ts).   *)
(*                                                                         *)
(* Every table is in one SQLite database that the process reads and writes *)
(* synchronously: a handler is interrupted only at its `await`s.  A        *)
(* handler waiting at one is a task, holding what it read before.          *)
(*                                                                         *)
(* Times are abstracted to whether they have passed.  What is compared     *)
(* with the clock carries a flag that a Clock action raises; the one       *)
(* relation between deadlines the code relies on, that a reservation ends  *)
(* 30 s after the code it is for, is the guard of LapseReservation.        *)
(*                                                                         *)
(* A check that only refuses a request (client, redirect URI, PKCE,        *)
(* resource, CSRF, IP throttle) changes no table: it is a request that is  *)
(* not made.  Scopes are abstracted to "some are left" or "none is left".  *)
(* Secrets are not values here: a sign-in presents the password a row's    *)
(* hash stands for, or another one.                                        *)
(***************************************************************************)
EXTENDS Integers, FiniteSets

CONSTANTS
  Conns, Enrs, Reqs, Codes, Grants, Pairs,   \* row ids, never reused
  Tasks,                                     \* handlers that may wait at once
  NoConn, NoEnr, NoReq, NoCode, NoGrant,     \* SQL NULL
  MaxFailed,                                 \* ENROLLMENT_MAX_FAILED_ATTEMPTS
  MaxIssues                                  \* bound: passwords issued per row

ASSUME NullAssumption ==
  /\ NoConn \notin Conns
  /\ NoEnr \notin Enrs
  /\ NoReq \notin Reqs
  /\ NoCode \notin Codes
  /\ NoGrant \notin Grants

\* The process serves finitely many requests at a time.
ASSUME FiniteAssumption == IsFiniteSet(Tasks)

ASSUME BoundAssumption == MaxFailed \in Nat \ {0} /\ MaxIssues \in Nat \ {0}

VARIABLES
  conn,     \* mcp_connections: the connection and its binding
  latest,   \* the enrollment of a connection with the greatest issued_at
  enr,      \* mcp_enrollment_credentials
  req,      \* mcp_oauth_authorization_requests
  code,     \* mcp_oauth_authorization_codes
  grant,    \* mcp_oauth_grants
  pair,     \* mcp_oauth_access_tokens and _refresh_tokens, as minted together
  task      \* the handlers that wait at an await

vars == <<conn, latest, enr, req, code, grant, pair, task>>

ConnRow ==
  [st : {"none", "enabled", "revoked", "deleted"},
   blocked : BOOLEAN]       \* disabled, expired, credential unhealthy or MCP off

EnrRow ==
  [st : {"none", "issued"},
   conn : Conns \cup {NoConn},
   gen : 0 .. MaxIssues,    \* auxiliary: the how-manieth password of this row
   consumed : BOOLEAN,
   expired : BOOLEAN,
   res : Codes \cup {NoCode},  \* reserved_code_id
   held : BOOLEAN,             \* reserved_until is in the future
   failed : Nat,
   locked : BOOLEAN,
   revoked : BOOLEAN]

ReqRow ==
  [st : {"none", "open", "approved", "denied"},  \* the last two: completed_at is set
   target : Conns \cup {NoConn},  \* auxiliary: the connection asked for
   conn : Conns \cup {NoConn},
   enr : Enrs \cup {NoEnr},
   gen : 0 .. MaxIssues,          \* auxiliary: the password that signed in
   expired : BOOLEAN]

CodeRow ==
  [st : {"none", "issued", "redeemed"},
   req : Reqs \cup {NoReq},
   conn : Conns \cup {NoConn},
   enr : Enrs \cup {NoEnr},
   gen : 0 .. MaxIssues,      \* auxiliary: the password current when issued
   authGen : 0 .. MaxIssues,  \* auxiliary: the password that signed in
   sent : BOOLEAN,            \* the client was given the code (not a column)
   expired : BOOLEAN,
   grant : Grants \cup {NoGrant}]

GrantRow ==
  [st : {"none", "live", "revoked"},
   conn : Conns \cup {NoConn},
   code : Codes \cup {NoCode},  \* auxiliary: the code it came from
   gen : 0 .. MaxIssues]        \* auxiliary: the password it consumed

PairRow ==
  [st : {"none", "issued"},
   grant : Grants \cup {NoGrant},
   access : {"live", "revoked"},
   refresh : {"missing", "unused", "used"},  \* used_at; missing: no such row
   revoked : BOOLEAN,                        \* revoked_at of the refresh token
   age : 0 .. 2]     \* 1: the access token has expired; 2: the refresh token too

TaskState ==
  [op : {"idle", "login", "verify", "decide", "issue", "reissue"},
   req : Reqs \cup {NoReq},
   conn : Conns \cup {NoConn},
   enr : Enrs \cup {NoEnr},
   gen : 0 .. MaxIssues,
   snap : EnrRow]

NoEnrRow == [st |-> "none", conn |-> NoConn, gen |-> 0, consumed |-> FALSE,
             expired |-> FALSE, res |-> NoCode, held |-> FALSE, failed |-> 0,
             locked |-> FALSE, revoked |-> FALSE]
NoReqRow == [st |-> "none", target |-> NoConn, conn |-> NoConn, enr |-> NoEnr,
             gen |-> 0, expired |-> FALSE]
NoCodeRow == [st |-> "none", req |-> NoReq, conn |-> NoConn, enr |-> NoEnr,
              gen |-> 0, authGen |-> 0, sent |-> FALSE, expired |-> FALSE,
              grant |-> NoGrant]
NoGrantRow == [st |-> "none", conn |-> NoConn, code |-> NoCode, gen |-> 0]
NoPairRow == [st |-> "none", grant |-> NoGrant, access |-> "live",
              refresh |-> "missing", revoked |-> FALSE, age |-> 0]
Idle == [op |-> "idle", req |-> NoReq, conn |-> NoConn, enr |-> NoEnr,
         gen |-> 0, snap |-> NoEnrRow]

Init ==
  /\ conn = [c \in Conns |-> [st |-> "none", blocked |-> FALSE]]
  /\ latest = [c \in Conns |-> NoEnr]
  /\ enr = [e \in Enrs |-> NoEnrRow]
  /\ req = [r \in Reqs |-> NoReqRow]
  /\ code = [k \in Codes |-> NoCodeRow]
  /\ grant = [g \in Grants |-> NoGrantRow]
  /\ pair = [p \in Pairs |-> NoPairRow]
  /\ task = [t \in Tasks |-> Idle]

-----------------------------------------------------------------------------
(***************************************************************************)
(* Queries                                                                 *)
(***************************************************************************)

\* The rows of a connection go with it (ON DELETE CASCADE).
RowOf(c) == c \in Conns /\ conn[c].st \in {"enabled", "revoked"}

\* Slip: the status is derived without looking at the connection's own state.
UsableIfHealthy(c) == c \in Conns /\ conn[c].st # "none" /\ ~conn[c].blocked

\* statusOf(connection) is `pending` or `active`, and MCP is switched on.
Usable(c) == c \in Conns /\ conn[c].st = "enabled" /\ ~conn[c].blocked

\* Slip: the connection the request was opened for is not compared.
NoProblemAnyTarget(e, c) ==
  ~e.revoked /\ ~e.locked /\ ~e.consumed /\ ~e.expired /\ ~e.held /\ Usable(e.conn)

\* enrollmentProblem is null for the row e as it was read, on a request for c.
NoProblem(e, c) ==
  /\ ~e.revoked
  /\ ~e.locked
  /\ ~e.consumed
  /\ ~e.expired
  /\ ~e.held
  /\ c \in {NoConn, e.conn}
  /\ Usable(e.conn)

\* BearerVerifier.verify accepts the access token of p.
Accepts(p) ==
  LET g == pair[p].grant IN
  /\ pair[p].st = "issued"
  /\ pair[p].access = "live"
  /\ pair[p].age = 0
  /\ g \in Grants
  /\ grant[g].st = "live"
  /\ Usable(grant[g].conn)

GrantsOf(c) == {g \in Grants : grant[g].st = "live" /\ grant[g].conn = c}

Finish(t) == task' = [task EXCEPT ![t] = Idle]

-----------------------------------------------------------------------------
(***************************************************************************)
(* Revocation                                                              *)
(***************************************************************************)

\* Slip: only the access tokens go with the grant.
RevokeGrantsNotRefresh(gs) ==
  /\ grant' = [g \in Grants |-> IF g \in gs THEN [grant[g] EXCEPT !.st = "revoked"] ELSE grant[g]]
  /\ pair' = [p \in Pairs |-> IF pair[p].grant \in gs
                                THEN [pair[p] EXCEPT !.access = "revoked"] ELSE pair[p]]

\* revokeGrant for every grant in gs: the grant and every token under it.
RevokeGrants(gs) ==
  /\ grant' = [g \in Grants |-> IF g \in gs /\ grant[g].st = "live"
                                  THEN [grant[g] EXCEPT !.st = "revoked"]
                                  ELSE grant[g]]
  /\ pair' = [p \in Pairs |-> IF pair[p].grant \in gs
                                THEN [pair[p] EXCEPT !.access = "revoked", !.revoked = TRUE]
                                ELSE pair[p]]

\* revokeEnrollments
EnrollmentsRevoked(c) ==
  [e \in Enrs |-> IF enr[e].conn = c THEN [enr[e] EXCEPT !.revoked = TRUE] ELSE enr[e]]

-----------------------------------------------------------------------------
(***************************************************************************)
(* The postmaster: connections and setup credentials                       *)
(***************************************************************************)

\* create: the row, then the hash of the first setup password is awaited.
Create(t, c) ==
  /\ task[t] = Idle
  /\ conn[c].st = "none"
  /\ conn' = [conn EXCEPT ![c].st = "enabled"]
  /\ task' = [task EXCEPT ![t] = [Idle EXCEPT !.op = "issue", !.conn = c]]
  /\ UNCHANGED <<latest, enr, req, code, grant, pair>>

\* reissue: remembers the current enrollment and awaits the hash.
Reissue(t, c) ==
  /\ task[t] = Idle
  /\ conn[c].st = "enabled"
  /\ task' = [task EXCEPT ![t] = [Idle EXCEPT !.op = "reissue", !.conn = c, !.enr = latest[c]]]
  /\ UNCHANGED <<conn, latest, enr, req, code, grant, pair>>

\* rotate: revokes every grant, then awaits the hash.
Rotate(t, c) ==
  /\ task[t] = Idle
  /\ conn[c].st = "enabled"
  /\ RevokeGrants(GrantsOf(c))
  /\ task' = [task EXCEPT ![t] = [Idle EXCEPT !.op = "issue", !.conn = c]]
  /\ UNCHANGED <<conn, latest, enr, req, code>>

(***************************************************************************)
(* issueEnrollment after its await, with a new username: earlier           *)
(* enrollments are revoked and a row is inserted (the foreign key refuses  *)
(* it when the connection is gone).                                        *)
(***************************************************************************)
IssueEnrollment(t, e) ==
  LET c == task[t].conn IN
  /\ task[t].op = "issue" \/ (task[t].op = "reissue" /\ task[t].enr = NoEnr)
  /\ enr[e].st = "none"
  /\ Finish(t)
  /\ IF RowOf(c)
       THEN /\ enr' = [EnrollmentsRevoked(c) EXCEPT
                         ![e] = [NoEnrRow EXCEPT !.st = "issued", !.conn = c, !.gen = 1]]
            /\ latest' = [latest EXCEPT ![c] = e]
       ELSE UNCHANGED <<enr, latest>>
  /\ UNCHANGED <<conn, req, code, grant, pair>>

\* issueEnrollment after its await, keeping the username: resetEnrollment.
ResetEnrollment(t) ==
  LET c == task[t].conn
      e == task[t].enr
  IN
  /\ task[t].op = "reissue"
  /\ e # NoEnr
  /\ enr[e].gen < MaxIssues
  /\ Finish(t)
  /\ IF RowOf(c)
       THEN /\ enr' = [enr EXCEPT ![e] = [NoEnrRow EXCEPT !.st = "issued", !.conn = c,
                                                          !.gen = enr[e].gen + 1]]
            /\ latest' = [latest EXCEPT ![c] = e]
       ELSE UNCHANGED <<enr, latest>>
  /\ UNCHANGED <<conn, req, code, grant, pair>>

\* disable; also what suspends a connection and leaves its grants alone.
Disable(c) ==
  /\ conn[c].st = "enabled"
  /\ conn' = [conn EXCEPT ![c].blocked = TRUE]
  /\ UNCHANGED <<latest, enr, req, code, grant, pair, task>>

\* enable; also the end of such a suspension.
Enable(c) ==
  /\ conn[c].st = "enabled"
  /\ conn' = [conn EXCEPT ![c].blocked = FALSE]
  /\ UNCHANGED <<latest, enr, req, code, grant, pair, task>>

\* invalidateBinding: the credential is wiped and every grant revoked.
Invalidate(c) ==
  /\ conn[c].st = "enabled"
  /\ conn' = [conn EXCEPT ![c].blocked = TRUE]
  /\ RevokeGrants(GrantsOf(c))
  /\ UNCHANGED <<latest, enr, req, code, task>>

\* revokeConnectionInternal, one transaction, and the delete of the row after it.
Withdraw(c, final) ==
  /\ RevokeGrants(GrantsOf(c))
  /\ enr' = EnrollmentsRevoked(c)
  /\ conn' = [conn EXCEPT ![c].st = final]
  /\ UNCHANGED <<latest, req, code, task>>

RevokeConnection(c) == conn[c].st = "enabled" /\ Withdraw(c, "revoked")

DeleteConnection(c) == RowOf(c) /\ Withdraw(c, "deleted")

\* revokeGrant by the postmaster
RevokeGrant(g) ==
  /\ grant[g].st # "none"
  /\ RowOf(grant[g].conn)
  /\ RevokeGrants({g})
  /\ UNCHANGED <<conn, latest, enr, req, code, task>>

-----------------------------------------------------------------------------
(***************************************************************************)
(* The browser: authorize, sign in, consent                                *)
(***************************************************************************)

\* start, for the connection c the resource parameter names, or none.
StartRequest(r, c) ==
  /\ req[r].st = "none"
  /\ c # NoConn => conn[c].st = "enabled"
  /\ req' = [req EXCEPT ![r] = [NoReqRow EXCEPT !.st = "open", !.target = c, !.conn = c]]
  /\ UNCHANGED <<conn, latest, enr, code, grant, pair, task>>

OpenRequest(r) == req[r].st = "open" /\ ~req[r].expired

\* login up to the await of the client document
Login(t, r) ==
  /\ task[t] = Idle
  /\ OpenRequest(r)
  /\ task' = [task EXCEPT ![t] = [Idle EXCEPT !.op = "login", !.req = r, !.conn = req[r].conn]]
  /\ UNCHANGED <<conn, latest, enr, req, code, grant, pair>>

\* login from there to the await of the password hash: reads the enrollment.
LoginLookup(t, e) ==
  /\ task[t].op = "login"
  /\ enr[e].st = "issued"
  /\ RowOf(enr[e].conn)
  /\ task' = [task EXCEPT ![t] = [@ EXCEPT !.op = "verify", !.enr = e, !.snap = enr[e]]]
  /\ UNCHANGED <<conn, latest, enr, req, code, grant, pair>>

\* Slip: every attempt sets the lock anew, so an overrun clears it.
LoginFailedRelocks(t) ==
  /\ task[t].op = "verify"
  /\ Finish(t)
  /\ enr' = [enr EXCEPT ![task[t].enr].failed = @ + 1,
                         ![task[t].enr].locked = (enr[task[t].enr].failed + 1 = MaxFailed)]
  /\ UNCHANGED <<conn, latest, req, code, grant, pair>>

\* recordFailedAttempt: the counter and the lock, in one statement
FailedAttemptRecorded(x) ==
  [x EXCEPT !.failed = x.failed + 1, !.locked = x.locked \/ x.failed + 1 >= MaxFailed]

(***************************************************************************)
(* login after a wrong password.  Whether the attempt counts is decided on *)
(* the enrollment as it was read before the hash was computed.             *)
(***************************************************************************)
LoginFailed(t) ==
  LET e == task[t].enr
      s == task[t].snap
  IN
  /\ task[t].op = "verify"
  /\ Finish(t)
  /\ IF s.locked \/ s.consumed \/ s.revoked
       THEN UNCHANGED enr
       ELSE enr' = [enr EXCEPT ![e] = FailedAttemptRecorded(@)]
  /\ UNCHANGED <<conn, latest, req, code, grant, pair>>

(***************************************************************************)
(* login after the right password: the checks run on the enrollment read   *)
(* before the await (its deadlines against the present), the mark is set   *)
(* unless the request was completed meanwhile.                             *)
(***************************************************************************)
LoginSucceeded(t) ==
  LET e == task[t].enr
      s == task[t].snap
      r == task[t].req
      same == enr[e].gen = s.gen
  IN
  /\ task[t].op = "verify"
  /\ NoProblem([s EXCEPT !.expired = @ \/ (same /\ enr[e].expired),
                         !.held = @ /\ same /\ enr[e].held],
               task[t].conn)
  /\ Finish(t)
  /\ req' = IF req[r].st = "open"
              THEN [req EXCEPT ![r] = [@ EXCEPT !.conn = s.conn, !.enr = e, !.gen = s.gen]]
              ELSE req
  /\ UNCHANGED <<conn, latest, enr, code, grant, pair>>

\* decide up to the await of the client document, on a signed-in request
Decide(t, r) ==
  /\ task[t] = Idle
  /\ OpenRequest(r)
  /\ req[r].enr # NoEnr
  /\ task' = [task EXCEPT ![t] = [Idle EXCEPT !.op = "decide", !.req = r,
                !.conn = req[r].conn, !.enr = req[r].enr, !.gen = req[r].gen]]
  /\ UNCHANGED <<conn, latest, enr, req, code, grant, pair>>

\* decide after its await: the user denied.
Deny(t) ==
  /\ task[t].op = "decide"
  /\ RowOf(enr[task[t].enr].conn)
  /\ Finish(t)
  /\ req' = [req EXCEPT ![task[t].req].st = IF @ = "open" THEN "denied" ELSE @]
  /\ UNCHANGED <<conn, latest, enr, code, grant, pair>>

\* enrollmentProblem and the checks around it let task t issue code k.
Issuable(t, k) ==
  /\ task[t].op = "decide"
  /\ NoProblem(enr[task[t].enr], task[t].conn)
  /\ enr[task[t].enr].conn = task[t].conn
  /\ code[k].st = "none"

\* issueCode: the row of the code that task t issues
IssuedCode(t, sent) ==
  [NoCodeRow EXCEPT !.st = "issued", !.req = task[t].req, !.conn = task[t].conn,
                    !.enr = task[t].enr, !.gen = enr[task[t].enr].gen,
                    !.authGen = task[t].gen, !.sent = sent]

\* reserveEnrollment
Reserved(e, k) == [enr EXCEPT ![e] = [@ EXCEPT !.res = k, !.held = TRUE]]

\* completeRequest, on an approval
Completed(r) == [req EXCEPT ![r].st = IF @ = "open" THEN "approved" ELSE @]

\* Slip: the decision trusts the checks made at sign-in.
ApproveUnchecked(t, k) ==
  /\ task[t].op = "decide"
  /\ code[k].st = "none"
  /\ Finish(t)
  /\ code' = [code EXCEPT ![k] = IssuedCode(t, TRUE)]
  /\ enr' = Reserved(task[t].enr, k)
  /\ req' = Completed(task[t].req)
  /\ UNCHANGED <<conn, latest, grant, pair>>

\* Slip: the result of completeRequest is ignored.
ApproveRegardless(t, k) ==
  /\ Issuable(t, k)
  /\ Finish(t)
  /\ code' = [code EXCEPT ![k] = IssuedCode(t, TRUE)]
  /\ enr' = Reserved(task[t].enr, k)
  /\ req' = Completed(task[t].req)
  /\ UNCHANGED <<conn, latest, grant, pair>>

(***************************************************************************)
(* decide after its await: the user approved.  The enrollment is read      *)
(* again; the code is inserted and the enrollment reserved for it before   *)
(* completeRequest decides whether the client gets the code.               *)
(***************************************************************************)
Approve(t, k) ==
  /\ Issuable(t, k)
  /\ Finish(t)
  /\ code' = [code EXCEPT ![k] = IssuedCode(t, req[task[t].req].st = "open")]
  /\ enr' = Reserved(task[t].enr, k)
  /\ req' = Completed(task[t].req)
  /\ UNCHANGED <<conn, latest, grant, pair>>

(***************************************************************************)
(* decide cut short by the death of the process: the code is inserted, the *)
(* enrollment perhaps reserved, and nobody is sent the code.               *)
(***************************************************************************)
ApproveCut(t, k) ==
  /\ Issuable(t, k)
  /\ code' = [code EXCEPT ![k] = IssuedCode(t, FALSE)]
  /\ enr' \in {enr, Reserved(task[t].enr, k)}
  /\ task' = [u \in Tasks |-> Idle]
  /\ UNCHANGED <<conn, latest, req, grant, pair>>

\* Any refusal of login and decide after an await; an unknown username.
Refused(t) ==
  /\ task[t].op \in {"login", "verify", "decide"}
  /\ Finish(t)
  /\ UNCHANGED <<conn, latest, enr, req, code, grant, pair>>

-----------------------------------------------------------------------------
(***************************************************************************)
(* The client: token endpoint and revocation endpoint                      *)
(***************************************************************************)

\* exchangeCode of a code redeemed before: what it produced is revoked.
ReplayCode(k) ==
  /\ code[k].st = "redeemed"
  /\ RowOf(code[k].conn)
  /\ RevokeGrants({code[k].grant} \cap Grants)
  /\ UNCHANGED <<conn, latest, enr, req, code, task>>

\* A client presents code k and the checks of exchangeCode before redeemCode pass.
Redeemable(k) ==
  /\ code[k].st = "issued"
  /\ code[k].sent
  /\ RowOf(code[k].conn)
  /\ ~code[k].expired

\* Slip: the reservation is not compared with the code.
ConsumableByAny(k) == ~enr[code[k].enr].consumed /\ ~enr[code[k].enr].revoked

\* The WHERE of consumeEnrollment holds.
Consumable(k) ==
  LET e == code[k].enr IN
  enr[e].res = k /\ ~enr[e].consumed /\ ~enr[e].revoked

\* Slip: the reservation ends, the password is not marked used.
ConsumedForgotten(e) == [enr EXCEPT ![e].held = FALSE]

Consumed(e) == [enr EXCEPT ![e] = [@ EXCEPT !.consumed = TRUE, !.held = FALSE]]

\* exchangeCode: redeemCode succeeds, consumeEnrollment does not.
ExchangeRefused(k) ==
  /\ Redeemable(k)
  /\ ~Consumable(k)
  /\ code' = [code EXCEPT ![k].st = "redeemed"]
  /\ UNCHANGED <<conn, latest, enr, req, grant, pair, task>>

(***************************************************************************)
(* exchangeCode: the enrollment is consumed, but the connection cannot be  *)
(* used or none of the scopes is left.  Neither statement is undone.       *)
(***************************************************************************)
ExchangeUnusable(k) ==
  /\ Redeemable(k)
  /\ Consumable(k)
  /\ code' = [code EXCEPT ![k].st = "redeemed"]
  /\ enr' = Consumed(code[k].enr)
  /\ UNCHANGED <<conn, latest, req, grant, pair, task>>

\* The row of a pair minted under g
MintPair(g) == [NoPairRow EXCEPT !.st = "issued", !.grant = g, !.refresh = "unused"]

\* The row of the grant that code k gives
GrantFrom(k) ==
  [NoGrantRow EXCEPT !.st = "live", !.conn = code[k].conn, !.code = k,
                     !.gen = enr[code[k].enr].gen]

\* exchangeCode: the grant and its first pair of tokens
ExchangeCode(k, g, p) ==
  /\ Redeemable(k)
  /\ Consumable(k)
  /\ Usable(code[k].conn)
  /\ grant[g].st = "none"
  /\ pair[p].st = "none"
  /\ code' = [code EXCEPT ![k] = [@ EXCEPT !.st = "redeemed", !.grant = g]]
  /\ enr' = Consumed(code[k].enr)
  /\ grant' = [grant EXCEPT ![g] = GrantFrom(k)]
  /\ pair' = [pair EXCEPT ![p] = MintPair(g)]
  /\ UNCHANGED <<conn, latest, req, task>>

(***************************************************************************)
(* exchangeCode cut short by the death of the process.  Its statements are *)
(* committed one by one: the code is redeemed, the enrollment consumed,    *)
(* the grant inserted and attached to the code, the access token inserted; *)
(* all but the refresh token, at most, is done.                            *)
(***************************************************************************)
ExchangeCut(k, g, p) ==
  /\ Redeemable(k)
  /\ Consumable(k)
  /\ grant[g].st = "none"
  /\ pair[p].st = "none"
  /\ \E done \in 1 .. 5 :
       /\ done >= 3 => Usable(code[k].conn)
       /\ code' = [code EXCEPT ![k] = [@ EXCEPT !.st = "redeemed",
                                             !.grant = IF done >= 4 THEN g ELSE NoGrant]]
       /\ enr' = IF done >= 2 THEN Consumed(code[k].enr) ELSE enr
       /\ grant' = IF done >= 3 THEN [grant EXCEPT ![g] = GrantFrom(k)] ELSE grant
       /\ pair' = IF done >= 5
                    THEN [pair EXCEPT ![p] = [MintPair(g) EXCEPT !.refresh = "missing"]]
                    ELSE pair
  /\ task' = [t \in Tasks |-> Idle]
  /\ UNCHANGED <<conn, latest, req>>

\* refresh with a token used before: the whole grant is revoked.
ReplayRefresh(p) ==
  /\ pair[p].refresh = "used"
  /\ RowOf(grant[pair[p].grant].conn)
  /\ RevokeGrants({pair[p].grant})
  /\ UNCHANGED <<conn, latest, enr, req, code, task>>

\* The checks of refresh before markRefreshTokenUsed pass.
Refreshable(p) ==
  LET g == pair[p].grant IN
  /\ pair[p].refresh = "unused"
  /\ ~pair[p].revoked
  /\ pair[p].age < 2
  /\ grant[g].st = "live"
  /\ Usable(grant[g].conn)

\* Slip: the presented token stays usable.
RefreshReusable(p, q) ==
  /\ Refreshable(p)
  /\ pair[q].st = "none"
  /\ pair' = [pair EXCEPT ![q] = MintPair(pair[p].grant)]
  /\ UNCHANGED <<conn, latest, enr, req, code, grant, task>>

\* refresh: the presented token is used up and a new pair q is minted.
Refresh(p, q) ==
  /\ Refreshable(p)
  /\ pair[q].st = "none"
  /\ pair' = [pair EXCEPT ![p].refresh = "used", ![q] = MintPair(pair[p].grant)]
  /\ UNCHANGED <<conn, latest, enr, req, code, grant, task>>

\* refresh cut short by the death of the process before or inside mintPair
RefreshCut(p, q) ==
  /\ Refreshable(p)
  /\ pair[q].st = "none"
  /\ \/ pair' = [pair EXCEPT ![p].refresh = "used"]
     \/ pair' = [pair EXCEPT ![p].refresh = "used",
                             ![q] = [MintPair(pair[p].grant) EXCEPT !.refresh = "missing"]]
  /\ task' = [t \in Tasks |-> Idle]
  /\ UNCHANGED <<conn, latest, enr, req, code, grant>>

\* revoke of a refresh token: the grant goes.
RevokeRefreshToken(p) ==
  /\ pair[p].refresh # "missing"
  /\ RowOf(grant[pair[p].grant].conn)
  /\ RevokeGrants({pair[p].grant})
  /\ UNCHANGED <<conn, latest, enr, req, code, task>>

\* revoke of an access token: that token goes.
RevokeAccessToken(p) ==
  /\ pair[p].st = "issued"
  /\ RowOf(grant[pair[p].grant].conn)
  /\ pair' = [pair EXCEPT ![p].access = "revoked"]
  /\ UNCHANGED <<conn, latest, enr, req, code, grant, task>>

-----------------------------------------------------------------------------
(***************************************************************************)
(* The clock, and the death of the process                                 *)
(***************************************************************************)

ExpireRequest(r) ==
  /\ req[r].st = "open" /\ ~req[r].expired
  /\ req' = [req EXCEPT ![r].expired = TRUE]
  /\ UNCHANGED <<conn, latest, enr, code, grant, pair, task>>

ExpireCode(k) ==
  /\ code[k].st # "none" /\ ~code[k].expired
  /\ code' = [code EXCEPT ![k].expired = TRUE]
  /\ UNCHANGED <<conn, latest, enr, req, grant, pair, task>>

\* Slip: the reservation is shorter than the life of the code.
LapseEarly(e) ==
  /\ enr[e].held
  /\ enr' = [enr EXCEPT ![e].held = FALSE]
  /\ UNCHANGED <<conn, latest, req, code, grant, pair, task>>

\* Slip: only a redeemed code gives its reservation back.
LapseRedeemed(e) ==
  /\ enr[e].held
  /\ code[enr[e].res].expired /\ code[enr[e].res].st = "redeemed"
  /\ enr' = [enr EXCEPT ![e].held = FALSE]
  /\ UNCHANGED <<conn, latest, req, code, grant, pair, task>>

\* reserved_until is the code's deadline and 30 s: the code expires first.
LapseReservation(e) ==
  /\ enr[e].held
  /\ code[enr[e].res].expired
  /\ enr' = [enr EXCEPT ![e].held = FALSE]
  /\ UNCHANGED <<conn, latest, req, code, grant, pair, task>>

ExpireEnrollment(e) ==
  /\ enr[e].st = "issued" /\ ~enr[e].expired
  /\ enr' = [enr EXCEPT ![e].expired = TRUE]
  /\ UNCHANGED <<conn, latest, req, code, grant, pair, task>>

ExpireToken(p) ==
  /\ pair[p].st = "issued" /\ pair[p].age < 2
  /\ pair' = [pair EXCEPT ![p].age = @ + 1]
  /\ UNCHANGED <<conn, latest, enr, req, code, grant, task>>

Crash ==
  /\ \E t \in Tasks : task[t] # Idle
  /\ task' = [t \in Tasks |-> Idle]
  /\ UNCHANGED <<conn, latest, enr, req, code, grant, pair>>

-----------------------------------------------------------------------------
Postmaster ==
  \/ \E c \in Conns :
       \/ Disable(c) \/ Enable(c) \/ Invalidate(c)
       \/ RevokeConnection(c) \/ DeleteConnection(c)
       \/ \E t \in Tasks : Create(t, c) \/ Reissue(t, c) \/ Rotate(t, c)
  \/ \E t \in Tasks : ResetEnrollment(t) \/ \E e \in Enrs : IssueEnrollment(t, e)
  \/ \E g \in Grants : RevokeGrant(g)

Browser ==
  \/ \E r \in Reqs :
       \/ \E c \in Conns \cup {NoConn} : StartRequest(r, c)
       \/ \E t \in Tasks : Login(t, r) \/ Decide(t, r)
  \/ \E t \in Tasks :
       \/ \E e \in Enrs : LoginLookup(t, e)
       \/ LoginFailed(t) \/ LoginSucceeded(t) \/ Deny(t) \/ Refused(t)
       \/ \E k \in Codes : Approve(t, k)

Client ==
  \/ \E k \in Codes :
       \/ ReplayCode(k) \/ ExchangeRefused(k) \/ ExchangeUnusable(k)
       \/ \E g \in Grants, p \in Pairs : ExchangeCode(k, g, p)
  \/ \E p \in Pairs :
       \/ ReplayRefresh(p) \/ RevokeRefreshToken(p) \/ RevokeAccessToken(p)
       \/ \E q \in Pairs : Refresh(p, q)

Clock ==
  \/ \E r \in Reqs : ExpireRequest(r)
  \/ \E k \in Codes : ExpireCode(k)
  \/ \E e \in Enrs : LapseReservation(e) \/ ExpireEnrollment(e)
  \/ \E p \in Pairs : ExpireToken(p)

\* The process dies, between two handlers or inside one.
Death ==
  \/ Crash
  \/ \E t \in Tasks, k \in Codes : ApproveCut(t, k)
  \/ \E k \in Codes, g \in Grants, p \in Pairs : ExchangeCut(k, g, p)
  \/ \E p, q \in Pairs : RefreshCut(p, q)

Next == Postmaster \/ Browser \/ Client \/ Clock \/ Death

Spec == Init /\ [][Next]_vars

(***************************************************************************)
(* Time passes; nobody owes a request, a click or a reissue.               *)
(***************************************************************************)
Fairness ==
  /\ \A k \in Codes : WF_vars(ExpireCode(k))
  /\ \A e \in Enrs : WF_vars(LapseReservation(e))

FairSpec == Spec /\ Fairness

-----------------------------------------------------------------------------
(***************************************************************************)
(* Properties                                                              *)
(***************************************************************************)

TypeOK ==
  /\ conn \in [Conns -> ConnRow]
  /\ latest \in [Conns -> Enrs \cup {NoEnr}]
  /\ enr \in [Enrs -> EnrRow]
  /\ req \in [Reqs -> ReqRow]
  /\ code \in [Codes -> CodeRow]
  /\ grant \in [Grants -> GrantRow]
  /\ pair \in [Pairs -> PairRow]
  /\ task \in [Tasks -> TaskState]

Granted == {g \in Grants : grant[g].st # "none"}
Issued == {k \in Codes : code[k].st # "none"}

(***************************************************************************)
(* A setup password is good for one authorization: no two grants come from *)
(* one issue of an enrollment, whatever sign-ins, approvals, lapsed        *)
(* reservations, exchanges and reissues overlap (tokens.service.ts: "The   *)
(* setup password is consumed now, exactly once").                         *)
(***************************************************************************)
IssueOf(g) == <<code[grant[g].code].enr, grant[g].gen>>

OneGrantPerIssue ==
  \A g, h \in Granted : IssueOf(g) = IssueOf(h) => g = h

(***************************************************************************)
(* A grant is backed by the issue its code was approved under: a code      *)
(* minted before a reissue gives no grant after it (the reset "clears any  *)
(* reservation, so an authorization code minted against the previous       *)
(* password can no longer be redeemed", connections.service.ts).           *)
(***************************************************************************)
CodeDiesWithItsIssue ==
  \A g \in Granted : code[grant[g].code].gen = grant[g].gen

(***************************************************************************)
(* A code the client was sent stays exchangeable for its 60 seconds: while *)
(* it is unspent and unexpired, and its enrollment was not reissued, the   *)
(* enrollment is reserved for it and for no other.                         *)
(***************************************************************************)
SentCodeKeepsReservation ==
  \A k \in Codes :
    LET e == code[k].enr IN
    code[k].st = "issued" /\ code[k].sent /\ ~code[k].expired /\ code[k].gen = enr[e].gen
      => enr[e].res = k /\ enr[e].held /\ ~enr[e].consumed

(***************************************************************************)
(* One consent page has one outcome: of two decisions racing on a request  *)
(* at most one sends a code, and none does after a denial.                 *)
(***************************************************************************)
OneOutcomePerRequest ==
  /\ \A k \in Issued : code[k].sent => req[code[k].req].st = "approved"
  /\ \A j, k \in Issued : code[j].sent /\ code[k].sent /\ code[j].req = code[k].req => j = k

(***************************************************************************)
(* A request opened for one connection's URL authorizes that connection    *)
(* only, whichever setup credentials were tried on it meanwhile.           *)
(***************************************************************************)
TargetIsRespected ==
  \A k \in Issued : req[code[k].req].target \in {NoConn, code[k].conn}

(***************************************************************************)
(* Revoking a grant ends everything under it: no token of a revoked grant  *)
(* is live, also when exchange or refresh was cut short.                   *)
(***************************************************************************)
RevokedGrantIsDead ==
  \A p \in Pairs : pair[p].st = "issued" =>
    /\ pair[p].grant \in Granted
    /\ grant[pair[p].grant].st = "revoked" => pair[p].access = "revoked" /\ pair[p].revoked

(***************************************************************************)
(* Rotation keeps one live refresh token per grant, so that presenting any *)
(* older one is recognised as a replay.                                    *)
(***************************************************************************)
LiveRefresh(p) == pair[p].refresh = "unused" /\ ~pair[p].revoked

OneLiveRefreshToken ==
  \A p, q \in Pairs : LiveRefresh(p) /\ LiveRefresh(q) /\ pair[p].grant = pair[q].grant => p = q

(***************************************************************************)
(* Revoking a connection is permanent: none of its grants is live and none *)
(* of its tokens is accepted, also when a reissue or an approval that      *)
(* began before completes after.                                           *)
(***************************************************************************)
RevokedConnectionIsDead ==
  \A c \in Conns : conn[c].st \in {"revoked", "deleted"} =>
    /\ GrantsOf(c) = {}
    /\ \A p \in Pairs : Accepts(p) => grant[pair[p].grant].conn # c

(***************************************************************************)
(* The lock at MaxFailed wrong passwords can be overrun only by sign-ins   *)
(* whose hash was being computed when it fell.                             *)
(***************************************************************************)
LockBoundsGuesses ==
  \A e \in Enrs : enr[e].failed < MaxFailed + Cardinality(Tasks)

\* A locked enrollment is given no code, though a late sign-in may succeed.
NoCodeWhileLocked ==
  [][\A e \in Enrs : enr[e].locked /\ enr'[e].locked => enr'[e].res = enr[e].res]_vars

(***************************************************************************)
(* A setup password is never blocked for good: a reservation comes to an   *)
(* end, also one made for a code that nobody was sent (a decision that     *)
(* lost the race for its request) or whose exchange was cut short.         *)
(***************************************************************************)
ReservationEnds == \A e \in Enrs : enr[e].held ~> ~enr[e].held

-----------------------------------------------------------------------------
(***************************************************************************)
(* A statement of the documentation that the code does not keep            *)
(***************************************************************************)

(***************************************************************************)
(* "Reissue setup credentials: the old one stops working immediately"      *)
(* (docs/mcp-integration.md): no code is issued to a request that was      *)
(* signed in with a password replaced since.                               *)
(***************************************************************************)
OldPasswordStopsWorking ==
  \A k \in Issued : code[k].authGen = code[k].gen
=============================================================================
