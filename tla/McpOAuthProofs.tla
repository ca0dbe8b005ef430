--------------------------- MODULE McpOAuthProofs ---------------------------
(***************************************************************************)
(* Proofs about McpOAuth, for any number of connections, setup             *)
(* credentials, requests, codes, grants, tokens and waiting handlers.      *)
(***************************************************************************)
EXTENDS McpOAuth, TLAPS, FiniteSetTheorems

-----------------------------------------------------------------------------
(***************************************************************************)
(* The inductive invariant                                                 *)
(***************************************************************************)

\* What a waiting handler holds refers to rows.
TaskRefs ==
  \A t \in Tasks :
    /\ task[t].op \in {"login", "verify", "decide"} =>
         task[t].req \in Reqs /\ req[task[t].req].st # "none"
    /\ task[t].op \in {"verify", "decide"} =>
         task[t].enr \in Enrs /\ enr[task[t].enr].st = "issued"
    /\ task[t].op = "reissue" /\ task[t].enr # NoEnr => enr[task[t].enr].st = "issued"

\* What a row refers to exists.
RowRefs ==
  /\ \A c \in Conns : latest[c] # NoEnr => enr[latest[c]].st = "issued"
  /\ \A r \in Reqs : req[r].enr # NoEnr => enr[req[r].enr].st = "issued"
  /\ \A k \in Issued :
       /\ code[k].req \in Reqs
       /\ code[k].enr \in Enrs
       /\ enr[code[k].enr].st = "issued"
       /\ code[k].gen <= enr[code[k].enr].gen
       /\ req[code[k].req].st # "none"

\* A request for a connection's URL stays a request for that connection.
TargetKept ==
  /\ \A r \in Reqs : req[r].target # NoConn => req[r].conn = req[r].target
  /\ \A t \in Tasks :
       task[t].op \in {"login", "verify", "decide"} =>
         req[task[t].req].target \in {NoConn, task[t].conn}

\* A reservation is for a code of the current issue.
ReservedForCurrent ==
  \A e \in Enrs : enr[e].res # NoCode =>
    /\ enr[e].res \in Issued
    /\ code[enr[e].res].enr = e
    /\ code[enr[e].res].gen = enr[e].gen

\* A grant of the current issue has consumed it.
GrantConsumes ==
  \A g \in Granted :
    LET e == code[grant[g].code].enr IN
    /\ grant[g].code \in Issued
    /\ grant[g].gen <= enr[e].gen
    /\ grant[g].gen = enr[e].gen => enr[e].consumed

\* A live grant belongs to a connection that was not withdrawn.
LiveGrantHasConnection ==
  \A g \in Grants : grant[g].st = "live" =>
    grant[g].conn \in Conns /\ conn[grant[g].conn].st = "enabled"

\* There is no refresh token without a pair.
NoTokenUnminted == \A p \in Pairs : pair[p].st = "none" => pair[p].refresh = "missing"

Refs == TypeOK /\ TaskRefs /\ RowRefs

IInv ==
  /\ Refs
  /\ TargetKept /\ TargetIsRespected
  /\ ReservedForCurrent /\ GrantConsumes /\ OneGrantPerIssue /\ CodeDiesWithItsIssue
  /\ SentCodeKeepsReservation /\ OneOutcomePerRequest
  /\ LiveGrantHasConnection
  /\ NoTokenUnminted /\ RevokedGrantIsDead /\ OneLiveRefreshToken
-----------------------------------------------------------------------------
(***************************************************************************)
(* Type correctness                                                        *)
(***************************************************************************)

\* The rows that stand for "no row", and an idle handler, have their types.
LEMMA NullRows ==
  /\ NoEnrRow \in EnrRow
  /\ NoReqRow \in ReqRow
  /\ NoCodeRow \in CodeRow
  /\ NoGrantRow \in GrantRow
  /\ NoPairRow \in PairRow
  /\ Idle \in TaskState
BY BoundAssumption DEF NoEnrRow, NoReqRow, NoCodeRow, NoGrantRow, NoPairRow, Idle,
     EnrRow, ReqRow, CodeRow, GrantRow, PairRow, TaskState

\* The updates of a connection keep it in its type.
LEMMA ConnUpdates ==
  ASSUME NEW x \in ConnRow
  PROVE  /\ \A s \in {"enabled", "revoked", "deleted"} : [x EXCEPT !.st = s] \in ConnRow
         /\ \A b \in BOOLEAN : [x EXCEPT !.blocked = b] \in ConnRow
BY DEF ConnRow

\* The updates of an enrollment keep it in its type.
LEMMA EnrUpdates ==
  /\ \A x \in EnrRow :
       /\ [x EXCEPT !.held = FALSE] \in EnrRow
       /\ [x EXCEPT !.revoked = TRUE] \in EnrRow
       /\ [x EXCEPT !.expired = TRUE] \in EnrRow
       /\ [x EXCEPT !.consumed = TRUE, !.held = FALSE] \in EnrRow
       /\ \A k \in Codes : [x EXCEPT !.res = k, !.held = TRUE] \in EnrRow
       /\ \A n \in Nat, b \in BOOLEAN : [x EXCEPT !.failed = n, !.locked = b] \in EnrRow
  /\ \A c \in Conns, n \in 0 .. MaxIssues :
       [NoEnrRow EXCEPT !.st = "issued", !.conn = c, !.gen = n] \in EnrRow
<1>1. \A x \in EnrRow, c \in Conns, n \in 0 .. MaxIssues :
        [x EXCEPT !.st = "issued", !.conn = c, !.gen = n] \in EnrRow
  BY DEF EnrRow
<1> QED BY <1>1, NullRows DEF EnrRow

\* The fields of an enrollment have their types.
LEMMA EnrFields ==
  ASSUME NEW x \in EnrRow
  PROVE  /\ x.conn \in Conns \cup {NoConn}
         /\ x.gen \in 0 .. MaxIssues
         /\ x.res \in Codes \cup {NoCode}
         /\ x.failed \in Nat
         /\ x.locked \in BOOLEAN
BY DEF EnrRow

\* The updates of an authorization request keep it in its type.
LEMMA ReqUpdates ==
  ASSUME NEW x \in ReqRow
  PROVE  /\ \A s \in {"open", "approved", "denied"} : [x EXCEPT !.st = s] \in ReqRow
         /\ [x EXCEPT !.expired = TRUE] \in ReqRow
         /\ \A c \in Conns \cup {NoConn} :
              [x EXCEPT !.st = "open", !.target = c, !.conn = c] \in ReqRow
         /\ \A c \in Conns \cup {NoConn}, e \in Enrs, n \in 0 .. MaxIssues :
              [x EXCEPT !.conn = c, !.enr = e, !.gen = n] \in ReqRow
BY DEF ReqRow

\* The fields of an authorization request have their types.
LEMMA ReqFields ==
  ASSUME NEW x \in ReqRow
  PROVE  /\ x.st \in {"none", "open", "approved", "denied"}
         /\ x.conn \in Conns \cup {NoConn}
         /\ x.enr \in Enrs \cup {NoEnr}
         /\ x.gen \in 0 .. MaxIssues
BY DEF ReqRow

\* The updates of an authorization code keep it in its type.
LEMMA CodeUpdates ==
  ASSUME NEW x \in CodeRow
  PROVE  /\ [x EXCEPT !.st = "redeemed"] \in CodeRow
         /\ [x EXCEPT !.expired = TRUE] \in CodeRow
         /\ \A g \in Grants \cup {NoGrant} : [x EXCEPT !.st = "redeemed", !.grant = g] \in CodeRow
         /\ \A r \in Reqs, c \in Conns \cup {NoConn}, e \in Enrs,
               m \in 0 .. MaxIssues, n \in 0 .. MaxIssues, b \in BOOLEAN :
              [x EXCEPT !.st = "issued", !.req = r, !.conn = c, !.enr = e,
                        !.gen = m, !.authGen = n, !.sent = b] \in CodeRow
<1>1. [x EXCEPT !.st = "redeemed"] \in CodeRow
  BY DEF CodeRow
<1>2. [x EXCEPT !.expired = TRUE] \in CodeRow
  BY DEF CodeRow
<1>3. ASSUME NEW g \in Grants \cup {NoGrant}
      PROVE  [x EXCEPT !.st = "redeemed", !.grant = g] \in CodeRow
  BY DEF CodeRow
<1>4. ASSUME NEW r \in Reqs, NEW c \in Conns \cup {NoConn}, NEW e \in Enrs,
             NEW m \in 0 .. MaxIssues, NEW n \in 0 .. MaxIssues, NEW b \in BOOLEAN
      PROVE  [x EXCEPT !.st = "issued", !.req = r, !.conn = c, !.enr = e,
                       !.gen = m, !.authGen = n, !.sent = b] \in CodeRow
  BY DEF CodeRow
<1> QED BY <1>1, <1>2, <1>3, <1>4

\* The updates of a grant keep it in its type.
LEMMA GrantUpdates ==
  ASSUME NEW x \in GrantRow
  PROVE  /\ [x EXCEPT !.st = "revoked"] \in GrantRow
         /\ \A c \in Conns \cup {NoConn}, k \in Codes, n \in 0 .. MaxIssues :
              [x EXCEPT !.st = "live", !.conn = c, !.code = k, !.gen = n] \in GrantRow
BY DEF GrantRow

\* The updates of a token pair keep it in its type.
LEMMA PairUpdates ==
  ASSUME NEW x \in PairRow
  PROVE  /\ [x EXCEPT !.access = "revoked", !.revoked = TRUE] \in PairRow
         /\ [x EXCEPT !.access = "revoked"] \in PairRow
         /\ [x EXCEPT !.refresh = "used"] \in PairRow
         /\ [x EXCEPT !.refresh = "missing"] \in PairRow
         /\ x.age < 2 => [x EXCEPT !.age = x.age + 1] \in PairRow
         /\ \A g \in Grants \cup {NoGrant} :
              [x EXCEPT !.st = "issued", !.grant = g, !.refresh = "unused"] \in PairRow
         /\ x.grant \in Grants \cup {NoGrant}
<1>1. /\ [x EXCEPT !.access = "revoked", !.revoked = TRUE] \in PairRow
      /\ [x EXCEPT !.access = "revoked"] \in PairRow
      /\ [x EXCEPT !.refresh = "used"] \in PairRow
      /\ [x EXCEPT !.refresh = "missing"] \in PairRow
  BY DEF PairRow
<1>2. x.age < 2 => [x EXCEPT !.age = x.age + 1] \in PairRow
  BY DEF PairRow
<1>3. ASSUME NEW g \in Grants \cup {NoGrant}
      PROVE  [x EXCEPT !.st = "issued", !.grant = g, !.refresh = "unused"] \in PairRow
  BY DEF PairRow
<1> QED BY <1>1, <1>2, <1>3 DEF PairRow

\* The states of a waiting handler are in their type.
LEMMA TaskUpdates ==
  ASSUME NEW x \in TaskState
  PROVE  /\ \A c \in Conns : [x EXCEPT !.op = "issue", !.conn = c] \in TaskState
         /\ \A c \in Conns, e \in Enrs \cup {NoEnr} :
              [x EXCEPT !.op = "reissue", !.conn = c, !.enr = e] \in TaskState
         /\ \A r \in Reqs, c \in Conns \cup {NoConn} :
              [x EXCEPT !.op = "login", !.req = r, !.conn = c] \in TaskState
         /\ \A e \in Enrs, s \in EnrRow : [x EXCEPT !.op = "verify", !.enr = e, !.snap = s] \in TaskState
         /\ \A r \in Reqs, c \in Conns \cup {NoConn}, e \in Enrs \cup {NoEnr}, n \in 0 .. MaxIssues :
              [x EXCEPT !.op = "decide", !.req = r, !.conn = c, !.enr = e, !.gen = n] \in TaskState
BY DEF TaskState

\* The fields of a waiting handler have their types.
LEMMA TaskFields ==
  ASSUME NEW x \in TaskState
  PROVE  /\ x.req \in Reqs \cup {NoReq}
         /\ x.conn \in Conns \cup {NoConn}
         /\ x.enr \in Enrs \cup {NoEnr}
         /\ x.gen \in 0 .. MaxIssues
         /\ x.snap \in EnrRow
BY DEF TaskState

\* revokeGrant keeps the types of the grants and of the tokens.
LEMMA RevokeGrantsType ==
  ASSUME TypeOK, NEW gs, RevokeGrants(gs)
  PROVE  grant' \in [Grants -> GrantRow] /\ pair' \in [Pairs -> PairRow]
BY GrantUpdates, PairUpdates DEF TypeOK, RevokeGrants

\* Revoking the enrollments of a connection keeps the table in its type.
LEMMA EnrollmentsRevokedType ==
  ASSUME TypeOK, NEW c
  PROVE  EnrollmentsRevoked(c) \in [Enrs -> EnrRow]
BY EnrUpdates DEF TypeOK, EnrollmentsRevoked

\* Consuming an enrollment keeps the table in its type.
LEMMA ConsumedType ==
  ASSUME TypeOK, NEW e
  PROVE  Consumed(e) \in [Enrs -> EnrRow]
BY EnrUpdates DEF TypeOK, Consumed

\* The initial tables are empty.
LEMMA TypeInit == Init => TypeOK
BY NullRows DEF Init, TypeOK, ConnRow

\* The code that a decision issues is a row.
LEMMA IssuedCodeType ==
  ASSUME TypeOK, TaskRefs, NEW t \in Tasks, NEW k, Issuable(t, k), NEW b \in BOOLEAN
  PROVE  IssuedCode(t, b) \in CodeRow
<1>1. task[t].enr \in Enrs /\ task[t].req \in Reqs
  BY DEF TaskRefs, Issuable
<1>2. task[t].conn \in Conns \cup {NoConn} /\ task[t].gen \in 0 .. MaxIssues
  BY TaskFields DEF TypeOK
<1>3. enr[task[t].enr].gen \in 0 .. MaxIssues
  BY <1>1, EnrFields DEF TypeOK
<1> QED BY <1>1, <1>2, <1>3, NullRows, CodeUpdates DEF IssuedCode

\* reserveEnrollment keeps the types of the enrollments.
LEMMA ReservedType ==
  ASSUME TypeOK, NEW e, NEW k \in Codes
  PROVE  Reserved(e, k) \in [Enrs -> EnrRow]
BY EnrUpdates DEF TypeOK, Reserved

\* The grant that an issued code gives is a row.
LEMMA GrantFromType ==
  ASSUME TypeOK, RowRefs, NEW k \in Codes, Redeemable(k)
  PROVE  GrantFrom(k) \in GrantRow
<1>1. code[k].enr \in Enrs /\ code[k].conn \in Conns
  BY DEF Redeemable, RowRefs, Issued, RowOf
<1> QED BY <1>1, NullRows, GrantUpdates, EnrFields DEF TypeOK, GrantFrom

\* Every action keeps every row in its type.
LEMMA TypeStep ==
  ASSUME TypeOK, TaskRefs, RowRefs, [Next]_vars
  PROVE  TypeOK'
<1>1. ASSUME NEW t \in Tasks, NEW c \in Conns, Create(t, c) PROVE TypeOK'
  BY <1>1, NullRows, ConnUpdates, TaskUpdates DEF TypeOK, Create
<1>2. ASSUME NEW t \in Tasks, NEW c \in Conns, Reissue(t, c) PROVE TypeOK'
  BY <1>2, NullRows, TaskUpdates DEF TypeOK, Reissue
<1>3. ASSUME NEW t \in Tasks, NEW c \in Conns, Rotate(t, c) PROVE TypeOK'
  BY <1>3, NullRows, RevokeGrantsType, TaskUpdates DEF TypeOK, Rotate
<1>4. ASSUME NEW t \in Tasks, NEW e \in Enrs, IssueEnrollment(t, e) PROVE TypeOK'
  <2> DEFINE c == task[t].conn
  <2>1. task' \in [Tasks -> TaskState]
    BY <1>4, NullRows DEF TypeOK, IssueEnrollment, Finish
  <2>2. CASE RowOf(c)
    <3>0. c \in Conns /\ 1 \in 0 .. MaxIssues
      BY <2>2, BoundAssumption DEF RowOf
    <3>1. [NoEnrRow EXCEPT !.st = "issued", !.conn = c, !.gen = 1] \in EnrRow
      BY <3>0, EnrUpdates
    <3>2. enr' \in [Enrs -> EnrRow] /\ latest' \in [Conns -> Enrs \cup {NoEnr}]
      BY <1>4, <2>2, <3>1, EnrollmentsRevokedType DEF TypeOK, IssueEnrollment
    <3> QED BY <1>4, <2>1, <3>2 DEF TypeOK, IssueEnrollment
  <2>3. CASE ~RowOf(c)
    BY <1>4, <2>1, <2>3 DEF TypeOK, IssueEnrollment
  <2> QED BY <2>2, <2>3
<1>5. ASSUME NEW t \in Tasks, ResetEnrollment(t) PROVE TypeOK'
  <2> DEFINE c == task[t].conn
             e == task[t].enr
  <2>1. task' \in [Tasks -> TaskState]
    BY <1>5, NullRows DEF TypeOK, ResetEnrollment, Finish
  <2>2. CASE RowOf(c)
    <3>1. e \in Enrs /\ enr[e].gen + 1 \in 0 .. MaxIssues
      BY <1>5, TaskFields, EnrFields, BoundAssumption DEF TypeOK, ResetEnrollment
    <3>2. [NoEnrRow EXCEPT !.st = "issued", !.conn = c, !.gen = enr[e].gen + 1] \in EnrRow
      BY <2>2, <3>1, EnrUpdates DEF RowOf
    <3>3. enr' \in [Enrs -> EnrRow] /\ latest' \in [Conns -> Enrs \cup {NoEnr}]
      BY <1>5, <2>2, <3>1, <3>2 DEF TypeOK, ResetEnrollment
    <3> QED BY <1>5, <2>1, <3>3 DEF TypeOK, ResetEnrollment
  <2>3. CASE ~RowOf(c)
    BY <1>5, <2>1, <2>3 DEF TypeOK, ResetEnrollment
  <2> QED BY <2>2, <2>3
<1>6. ASSUME NEW c \in Conns, Disable(c) PROVE TypeOK'
  BY <1>6, ConnUpdates DEF TypeOK, Disable
<1>7. ASSUME NEW c \in Conns, Enable(c) PROVE TypeOK'
  BY <1>7, ConnUpdates DEF TypeOK, Enable
<1>8. ASSUME NEW c \in Conns, Invalidate(c) PROVE TypeOK'
  BY <1>8, ConnUpdates, RevokeGrantsType DEF TypeOK, Invalidate
<1>9. ASSUME NEW c \in Conns, RevokeConnection(c) PROVE TypeOK'
  BY <1>9, ConnUpdates, RevokeGrantsType, EnrollmentsRevokedType DEF TypeOK, RevokeConnection, Withdraw
<1>10. ASSUME NEW c \in Conns, DeleteConnection(c) PROVE TypeOK'
  BY <1>10, ConnUpdates, RevokeGrantsType, EnrollmentsRevokedType DEF TypeOK, DeleteConnection, Withdraw
<1>11. ASSUME NEW g \in Grants, RevokeGrant(g) PROVE TypeOK'
  BY <1>11, RevokeGrantsType DEF TypeOK, RevokeGrant
<1>12. ASSUME NEW r \in Reqs, NEW c \in Conns \cup {NoConn}, StartRequest(r, c) PROVE TypeOK'
  BY <1>12, NullRows, ReqUpdates DEF TypeOK, StartRequest
<1>13. ASSUME NEW t \in Tasks, NEW r \in Reqs, Login(t, r) PROVE TypeOK'
  BY <1>13, NullRows, TaskUpdates, ReqFields DEF TypeOK, Login
<1>14. ASSUME NEW t \in Tasks, NEW e \in Enrs, LoginLookup(t, e) PROVE TypeOK'
  BY <1>14, TaskUpdates DEF TypeOK, LoginLookup
<1>15. ASSUME NEW t \in Tasks, LoginFailed(t) PROVE TypeOK'
  <2> DEFINE e == task[t].enr
  <2>1. task' \in [Tasks -> TaskState]
    BY <1>15, NullRows DEF TypeOK, LoginFailed, Finish
  <2>2. \A x \in EnrRow : FailedAttemptRecorded(x) \in EnrRow
    <3> SUFFICES ASSUME NEW x \in EnrRow PROVE FailedAttemptRecorded(x) \in EnrRow
      OBVIOUS
    <3>1. x.failed + 1 \in Nat /\ (x.locked \/ x.failed + 1 >= MaxFailed) \in BOOLEAN
      BY EnrFields
    <3> QED BY <3>1, EnrUpdates DEF FailedAttemptRecorded
  <2>3. enr' = enr \/ enr' = [enr EXCEPT ![e] = FailedAttemptRecorded(enr[e])]
    BY <1>15 DEF LoginFailed
  <2>4. enr' \in [Enrs -> EnrRow]
    BY <2>2, <2>3 DEF TypeOK
  <2> QED BY <1>15, <2>1, <2>4 DEF TypeOK, LoginFailed
<1>16. ASSUME NEW t \in Tasks, LoginSucceeded(t) PROVE TypeOK'
  BY <1>16, NullRows, ReqUpdates, TaskFields, EnrFields DEF TypeOK, LoginSucceeded, Finish, TaskRefs
<1>17. ASSUME NEW t \in Tasks, NEW r \in Reqs, Decide(t, r) PROVE TypeOK'
  BY <1>17, NullRows, TaskUpdates, ReqFields DEF TypeOK, Decide
<1>18. ASSUME NEW t \in Tasks, Deny(t) PROVE TypeOK'
  <2>1. task' \in [Tasks -> TaskState]
    BY <1>18, NullRows DEF TypeOK, Deny, Finish
  <2> DEFINE r == task[t].req
             s == IF req[r].st = "open" THEN "denied" ELSE req[r].st
  <2>2. r \in Reqs /\ req[r].st # "none"
    BY <1>18 DEF TaskRefs, Deny
  <2>3. s \in {"open", "approved", "denied"}
    BY <2>2, ReqFields DEF TypeOK
  <2>4. [req[r] EXCEPT !.st = s] \in ReqRow
    BY <2>2, <2>3, ReqUpdates DEF TypeOK
  <2>5. req' = [req EXCEPT ![r] = [req[r] EXCEPT !.st = s]]
    BY <1>18 DEF Deny
  <2>6. req' \in [Reqs -> ReqRow]
    BY <2>2, <2>4, <2>5 DEF TypeOK
  <2> QED BY <1>18, <2>1, <2>6 DEF TypeOK, Deny
<1>19. ASSUME NEW t \in Tasks, NEW k \in Codes, Approve(t, k) PROVE TypeOK'
  <2> DEFINE r == task[t].req
             s == IF req[r].st = "open" THEN "approved" ELSE req[r].st
  <2>1. task' \in [Tasks -> TaskState]
    BY <1>19, NullRows DEF TypeOK, Approve, Finish
  <2>2. r \in Reqs /\ req[r].st # "none"
    BY <1>19 DEF TaskRefs, Approve, Issuable
  <2>3. (req[r].st = "open") \in BOOLEAN
    OBVIOUS
  <2>4. IssuedCode(t, req[r].st = "open") \in CodeRow
    BY <1>19, <2>3, IssuedCodeType DEF Approve
  <2>5. code' \in [Codes -> CodeRow]
    BY <1>19, <2>4 DEF TypeOK, Approve
  <2>6. enr' \in [Enrs -> EnrRow]
    BY <1>19, ReservedType DEF Approve
  <2>7. req' \in [Reqs -> ReqRow]
    <3>1. s \in {"open", "approved", "denied"}
      BY <2>2, ReqFields DEF TypeOK
    <3>2. [req[r] EXCEPT !.st = s] \in ReqRow
      BY <2>2, <3>1, ReqUpdates DEF TypeOK
    <3>3. req' = [req EXCEPT ![r] = [req[r] EXCEPT !.st = s]]
      BY <1>19 DEF Approve, Completed
    <3> QED BY <2>2, <3>2, <3>3 DEF TypeOK
  <2> QED BY <1>19, <2>1, <2>5, <2>6, <2>7 DEF TypeOK, Approve
<1>20. ASSUME NEW t \in Tasks, NEW k \in Codes, ApproveCut(t, k) PROVE TypeOK'
  <2>1. IssuedCode(t, FALSE) \in CodeRow
    BY <1>20, IssuedCodeType DEF ApproveCut
  <2>2. code' \in [Codes -> CodeRow]
    BY <1>20, <2>1 DEF TypeOK, ApproveCut
  <2>3. enr' \in [Enrs -> EnrRow]
    BY <1>20, ReservedType DEF TypeOK, ApproveCut
  <2> QED BY <1>20, <2>2, <2>3, NullRows DEF TypeOK, ApproveCut
<1>21. ASSUME NEW t \in Tasks, Refused(t) PROVE TypeOK'
  BY <1>21, NullRows DEF TypeOK, Refused, Finish
<1>22. ASSUME NEW k \in Codes, ReplayCode(k) PROVE TypeOK'
  BY <1>22, RevokeGrantsType DEF TypeOK, ReplayCode
<1>23. ASSUME NEW k \in Codes, ExchangeRefused(k) PROVE TypeOK'
  BY <1>23, CodeUpdates DEF TypeOK, ExchangeRefused
<1>24. ASSUME NEW k \in Codes, ExchangeUnusable(k) PROVE TypeOK'
  BY <1>24, CodeUpdates, ConsumedType DEF TypeOK, ExchangeUnusable
<1>25. ASSUME NEW k \in Codes, NEW g \in Grants, NEW p \in Pairs, ExchangeCode(k, g, p) PROVE TypeOK'
  BY <1>25, NullRows, CodeUpdates, ConsumedType, GrantFromType, PairUpdates DEF TypeOK, ExchangeCode, MintPair
<1>26. ASSUME NEW k \in Codes, NEW g \in Grants, NEW p \in Pairs, ExchangeCut(k, g, p) PROVE TypeOK'
  <2>1. GrantFrom(k) \in GrantRow
    BY <1>26, GrantFromType DEF ExchangeCut
  <2>2. PICK done \in 1 .. 5 :
          /\ code' = [code EXCEPT ![k] = [@ EXCEPT !.st = "redeemed",
                                              !.grant = IF done >= 4 THEN g ELSE NoGrant]]
          /\ enr' = IF done >= 2 THEN Consumed(code[k].enr) ELSE enr
          /\ grant' = IF done >= 3 THEN [grant EXCEPT ![g] = GrantFrom(k)] ELSE grant
          /\ pair' = IF done >= 5
                       THEN [pair EXCEPT ![p] = [MintPair(g) EXCEPT !.refresh = "missing"]]
                       ELSE pair
    BY <1>26 DEF ExchangeCut
  <2>3. code' \in [Codes -> CodeRow]
    BY <2>2, CodeUpdates DEF TypeOK
  <2>4. enr' \in [Enrs -> EnrRow]
    BY <2>2, ConsumedType DEF TypeOK
  <2>5. grant' \in [Grants -> GrantRow]
    BY <2>1, <2>2 DEF TypeOK
  <2>6. MintPair(g) \in PairRow
    BY NullRows, PairUpdates DEF MintPair
  <2>7. pair' \in [Pairs -> PairRow]
    BY <2>2, <2>6, PairUpdates DEF TypeOK
  <2> QED BY <1>26, <2>3, <2>4, <2>5, <2>7, NullRows DEF TypeOK, ExchangeCut
<1>27. ASSUME NEW p \in Pairs, ReplayRefresh(p) PROVE TypeOK'
  BY <1>27, RevokeGrantsType DEF TypeOK, ReplayRefresh
<1>28. ASSUME NEW p \in Pairs, NEW q \in Pairs, Refresh(p, q) PROVE TypeOK'
  BY <1>28, NullRows, PairUpdates DEF TypeOK, Refresh, MintPair
<1>29. ASSUME NEW p \in Pairs, NEW q \in Pairs, RefreshCut(p, q) PROVE TypeOK'
  <2>1. MintPair(pair[p].grant) \in PairRow
    BY NullRows, PairUpdates DEF MintPair, TypeOK
  <2>2. [MintPair(pair[p].grant) EXCEPT !.refresh = "missing"] \in PairRow
    BY <2>1, PairUpdates
  <2>3. [pair[p] EXCEPT !.refresh = "used"] \in PairRow
    BY PairUpdates DEF TypeOK
  <2>4. pair' \in [Pairs -> PairRow]
    BY <1>29, <2>2, <2>3 DEF TypeOK, RefreshCut
  <2> QED BY <1>29, <2>4, NullRows DEF TypeOK, RefreshCut
<1>30. ASSUME NEW p \in Pairs, RevokeRefreshToken(p) PROVE TypeOK'
  BY <1>30, RevokeGrantsType DEF TypeOK, RevokeRefreshToken
<1>31. ASSUME NEW p \in Pairs, RevokeAccessToken(p) PROVE TypeOK'
  BY <1>31, PairUpdates DEF TypeOK, RevokeAccessToken
<1>32. ASSUME NEW r \in Reqs, ExpireRequest(r) PROVE TypeOK'
  BY <1>32, ReqUpdates DEF TypeOK, ExpireRequest
<1>33. ASSUME NEW k \in Codes, ExpireCode(k) PROVE TypeOK'
  BY <1>33, CodeUpdates DEF TypeOK, ExpireCode
<1>34. ASSUME NEW e \in Enrs, LapseReservation(e) PROVE TypeOK'
  BY <1>34, EnrUpdates DEF TypeOK, LapseReservation
<1>35. ASSUME NEW e \in Enrs, ExpireEnrollment(e) PROVE TypeOK'
  BY <1>35, EnrUpdates DEF TypeOK, ExpireEnrollment
<1>36. ASSUME NEW p \in Pairs, ExpireToken(p) PROVE TypeOK'
  BY <1>36, PairUpdates DEF TypeOK, ExpireToken
<1>37. ASSUME Crash PROVE TypeOK'
  BY <1>37, NullRows DEF TypeOK, Crash
<1>38. CASE UNCHANGED vars
  BY <1>38 DEF TypeOK, vars
<1> QED
  BY <1>1, <1>2, <1>3, <1>4, <1>5, <1>6, <1>7, <1>8, <1>9, <1>10, <1>11, <1>12, <1>13,
     <1>14, <1>15, <1>16, <1>17, <1>18, <1>19, <1>20, <1>21, <1>22, <1>23, <1>24, <1>25, <1>26,
     <1>27, <1>28, <1>29, <1>30, <1>31, <1>32, <1>33, <1>34, <1>35, <1>36, <1>37, <1>38
  DEF Next, Postmaster, Browser, Client, Clock, Death
-----------------------------------------------------------------------------
(***************************************************************************)
(* What a step may do to a row, table by table                             *)
(***************************************************************************)

\* The code k is new: a decision of task t issued it, and may have been cut short.
NewCode(t, k) ==
  /\ Issuable(t, k)
  /\ \E sent \in BOOLEAN :
       /\ code' = [code EXCEPT ![k] = IssuedCode(t, sent)]
       /\ sent => Approve(t, k) /\ req[task[t].req].st = "open"
  /\ enr' = enr \/ enr' = Reserved(task[t].enr, k)

\* Approve and ApproveCut issue a code.
LEMMA Approving ==
  ASSUME NEW t \in Tasks, NEW k \in Codes, Approve(t, k) \/ ApproveCut(t, k)
  PROVE  NewCode(t, k)
<1>1. CASE Approve(t, k)
  <2>1. (req[task[t].req].st = "open") \in BOOLEAN
    OBVIOUS
  <2> QED BY <1>1, <2>1 DEF Approve, NewCode
<1>2. CASE ApproveCut(t, k)
  BY <1>2 DEF ApproveCut, NewCode
<1> QED BY <1>1, <1>2

\* The row of an enrollment: the writes of the actions one by one
EnrChange(e) ==
  \/ enr'[e] = enr[e]
  \/ enr'[e] = [enr[e] EXCEPT !.revoked = TRUE]
  \/ enr'[e] = [enr[e] EXCEPT !.expired = TRUE]
  \/ enr'[e] = FailedAttemptRecorded(enr[e])
  \/ /\ enr[e].st = "none"
     /\ \E c \in Conns : enr'[e] = [NoEnrRow EXCEPT !.st = "issued", !.conn = c, !.gen = 1]
  \/ \E c \in Conns :
       enr'[e] = [NoEnrRow EXCEPT !.st = "issued", !.conn = c, !.gen = enr[e].gen + 1]
  \/ /\ ~enr[e].held /\ ~enr[e].consumed /\ ~enr[e].locked
     /\ \E k \in Codes :
          /\ enr'[e] = [enr[e] EXCEPT !.res = k, !.held = TRUE]
          /\ code[k].st = "none"
          /\ code'[k].st = "issued" /\ code'[k].enr = e /\ code'[k].gen = enr[e].gen
  \/ /\ enr'[e] = [enr[e] EXCEPT !.consumed = TRUE, !.held = FALSE]
     /\ code'[enr[e].res].st = "redeemed"
  \/ /\ enr'[e] = [enr[e] EXCEPT !.held = FALSE]
     /\ code[enr[e].res].expired

\* ... and what they come to: y is the row of e after the step.
EnrRowStep(e, y) ==
  /\ enr[e].st = "issued" =>
       /\ y.st = "issued"
       /\ enr[e].gen <= y.gen
       /\ enr[e].gen = y.gen /\ enr[e].consumed => y.consumed
       /\ y.gen = enr[e].gen /\ enr[e].held =>
            \/ y.res = enr[e].res /\ y.held /\ y.consumed = enr[e].consumed
            \/ code[enr[e].res].expired
            \/ code'[enr[e].res].st = "redeemed"
  /\ enr[e].locked /\ y.locked => y.res = enr[e].res
  /\ y.res # NoCode =>
       \/ y.res = enr[e].res /\ y.gen = enr[e].gen
       \/ /\ code[y.res].st = "none"
          /\ code'[y.res].st = "issued"
          /\ code'[y.res].enr = e
          /\ code'[y.res].gen = y.gen

\* Every action changes the row of an enrollment in one of these ways.
LEMMA EnrChanges ==
  ASSUME Refs, [Next]_vars, NEW x \in Enrs
  PROVE  EnrChange(x)
<1> USE DEF Refs
<1>1. CASE UNCHANGED enr
  BY <1>1 DEF EnrChange
<1>2. ASSUME NEW t \in Tasks, NEW e \in Enrs, IssueEnrollment(t, e) PROVE EnrChange(x)
  BY <1>2 DEF TypeOK, EnrChange, IssueEnrollment, EnrollmentsRevoked, RowOf
<1>3. ASSUME NEW t \in Tasks, ResetEnrollment(t) PROVE EnrChange(x)
  <2>1. CASE enr'[x] = enr[x]
    BY <2>1 DEF EnrChange
  <2>2. CASE x = task[t].enr /\ RowOf(task[t].conn)
    <3>1. enr'[x] = [NoEnrRow EXCEPT !.st = "issued", !.conn = task[t].conn, !.gen = enr[x].gen + 1]
      BY <1>3, <2>2 DEF TypeOK, ResetEnrollment
    <3> QED BY <2>2, <3>1 DEF EnrChange, RowOf
  <2> QED BY <1>3, <2>1, <2>2 DEF TypeOK, ResetEnrollment
<1>4. ASSUME NEW t \in Tasks, LoginFailed(t) PROVE EnrChange(x)
  BY <1>4 DEF TypeOK, EnrChange, LoginFailed
<1>5. ASSUME NEW c \in Conns, enr' = EnrollmentsRevoked(c) PROVE EnrChange(x)
  BY <1>5 DEF TypeOK, EnrChange, EnrollmentsRevoked
<1>6. ASSUME NEW t \in Tasks, NEW k \in Codes, NewCode(t, k) PROVE EnrChange(x)
  <2>1. CASE enr'[x] = enr[x]
    BY <2>1 DEF EnrChange
  <2>2. CASE x = task[t].enr /\ enr' = Reserved(task[t].enr, k)
    <3>1. /\ enr'[x] = [enr[x] EXCEPT !.res = k, !.held = TRUE]
          /\ ~enr[x].held /\ ~enr[x].consumed /\ ~enr[x].locked /\ code[k].st = "none"
      BY <1>6, <2>2 DEF TypeOK, NewCode, Reserved, Issuable, NoProblem
    <3>2. code'[k].st = "issued" /\ code'[k].enr = x /\ code'[k].gen = enr[x].gen
      BY <1>6, <2>2 DEF TypeOK, NewCode, IssuedCode, NoCodeRow
    <3> QED BY <3>1, <3>2 DEF EnrChange
  <2> QED BY <1>6, <2>1, <2>2 DEF TypeOK, NewCode, Reserved
<1>7. ASSUME NEW k \in Codes, Redeemable(k), Consumable(k), code'[k].st = "redeemed",
             enr' = Consumed(code[k].enr)
      PROVE  EnrChange(x)
  BY <1>7 DEF TypeOK, EnrChange, Consumed, Consumable
<1>8. ASSUME NEW k \in Codes, ExchangeUnusable(k) PROVE EnrChange(x)
  <2>1. code'[k].st = "redeemed"
    BY <1>8 DEF TypeOK, ExchangeUnusable, CodeRow
  <2> QED BY <1>8, <2>1, <1>7 DEF ExchangeUnusable
<1>9. ASSUME NEW k \in Codes, NEW g \in Grants, NEW p \in Pairs, ExchangeCode(k, g, p)
      PROVE  EnrChange(x)
  <2>1. code'[k].st = "redeemed"
    BY <1>9 DEF TypeOK, ExchangeCode, CodeRow
  <2> QED BY <1>9, <2>1, <1>7 DEF ExchangeCode
<1>10. ASSUME NEW k \in Codes, NEW g \in Grants, NEW p \in Pairs, ExchangeCut(k, g, p)
       PROVE  EnrChange(x)
  <2>1. code'[k].st = "redeemed" /\ (enr' = enr \/ enr' = Consumed(code[k].enr))
    BY <1>10 DEF TypeOK, ExchangeCut, CodeRow
  <2> QED BY <1>10, <2>1, <1>7, <1>1 DEF ExchangeCut
<1>11. ASSUME NEW e \in Enrs, LapseReservation(e) PROVE EnrChange(x)
  BY <1>11 DEF TypeOK, EnrChange, LapseReservation
<1>12. ASSUME NEW e \in Enrs, ExpireEnrollment(e) PROVE EnrChange(x)
  BY <1>12 DEF TypeOK, EnrChange, ExpireEnrollment
<1>13. ASSUME NEW t \in Tasks, NEW k \in Codes, Approve(t, k) \/ ApproveCut(t, k)
       PROVE  EnrChange(x)
  BY <1>6, <1>13, Approving
<1> QED
  BY <1>1, <1>2, <1>3, <1>4, <1>5, <1>13, <1>8, <1>9, <1>10, <1>11, <1>12
  DEF Next, vars, Postmaster, Browser, Client, Clock, Death, Create, Reissue, Rotate, Disable, Enable,
      Invalidate, RevokeConnection, DeleteConnection, Withdraw, RevokeGrant, StartRequest, Login,
      LoginLookup, LoginSucceeded, Decide, Deny, Refused, ReplayCode, ExchangeRefused,
      ReplayRefresh, Refresh, RefreshCut, RevokeRefreshToken, RevokeAccessToken,
      ExpireRequest, ExpireCode, ExpireToken, Crash

\* What any step can do to the enrollments.
LEMMA EnrStep ==
  ASSUME Refs, [Next]_vars, NEW x \in Enrs
  PROVE  EnrRowStep(x, enr'[x])
<1>0. enr[x] \in EnrRow /\ enr[x].gen \in Nat
  BY EnrFields, BoundAssumption DEF Refs, TypeOK
<1> USE DEF EnrRowStep
<1>1. CASE \/ enr'[x] = enr[x]
           \/ enr'[x] = [enr[x] EXCEPT !.revoked = TRUE]
           \/ enr'[x] = [enr[x] EXCEPT !.expired = TRUE]
  BY <1>0, <1>1 DEF EnrRow
<1>2. CASE enr'[x] = FailedAttemptRecorded(enr[x])
  BY <1>0, <1>2 DEF EnrRow, FailedAttemptRecorded
<1>3. CASE /\ enr[x].st = "none"
           /\ \E c \in Conns : enr'[x] = [NoEnrRow EXCEPT !.st = "issued", !.conn = c, !.gen = 1]
  BY <1>3 DEF NoEnrRow
<1>4. CASE \E c \in Conns :
             enr'[x] = [NoEnrRow EXCEPT !.st = "issued", !.conn = c, !.gen = enr[x].gen + 1]
  BY <1>0, <1>4 DEF NoEnrRow
<1>5. CASE /\ ~enr[x].held /\ ~enr[x].consumed /\ ~enr[x].locked
           /\ \E k \in Codes :
                /\ enr'[x] = [enr[x] EXCEPT !.res = k, !.held = TRUE]
                /\ code[k].st = "none"
                /\ code'[k].st = "issued" /\ code'[k].enr = x /\ code'[k].gen = enr[x].gen
  BY <1>0, <1>5 DEF EnrRow
<1>6. CASE /\ enr'[x] = [enr[x] EXCEPT !.consumed = TRUE, !.held = FALSE]
           /\ code'[enr[x].res].st = "redeemed"
  BY <1>0, <1>6 DEF EnrRow
<1>7. CASE /\ enr'[x] = [enr[x] EXCEPT !.held = FALSE]
           /\ code[enr[x].res].expired
  BY <1>0, <1>7 DEF EnrRow
<1> QED BY EnrChanges, <1>1, <1>2, <1>3, <1>4, <1>5, <1>6, <1>7 DEF EnrChange

\* A code: only a decision makes one; afterwards its references stay as they are.
LEMMA CodeStep ==
  ASSUME Refs, [Next]_vars, NEW x \in Codes
  PROVE  /\ code[x].st # "none" =>
              /\ code'[x].st # "none"
              /\ code[x].st = "redeemed" => code'[x].st = "redeemed"
              /\ code'[x].req = code[x].req
              /\ code'[x].conn = code[x].conn
              /\ code'[x].enr = code[x].enr
              /\ code'[x].gen = code[x].gen
              /\ code'[x].sent = code[x].sent
              /\ code[x].expired => code'[x].expired
         /\ code[x].st = "none" /\ code'[x].st # "none" => \E t \in Tasks : NewCode(t, x)
<1> DEFINE P == /\ code[x].st # "none" =>
                     /\ code'[x].st # "none"
                     /\ code[x].st = "redeemed" => code'[x].st = "redeemed"
                     /\ code'[x].req = code[x].req
                     /\ code'[x].conn = code[x].conn
                     /\ code'[x].enr = code[x].enr
                     /\ code'[x].gen = code[x].gen
                     /\ code'[x].sent = code[x].sent
                     /\ code[x].expired => code'[x].expired
                /\ code[x].st = "none" /\ code'[x].st # "none" => \E t \in Tasks : NewCode(t, x)
<1> USE DEF Refs, TypeOK
<1>1. ASSUME UNCHANGED code PROVE P
  BY <1>1
<1>2. ASSUME NEW t \in Tasks, NEW k \in Codes, Approve(t, k) \/ ApproveCut(t, k) PROVE P
  <2>1. code[k].st = "none" /\ (x # k => code'[x] = code[x])
    BY <1>2 DEF Approve, ApproveCut, Issuable
  <2> QED BY <1>2, <2>1, Approving
<1>3. ASSUME NEW k \in Codes, ExchangeRefused(k) PROVE P
  BY <1>3 DEF ExchangeRefused, Redeemable, CodeRow
<1>4. ASSUME NEW k \in Codes, ExchangeUnusable(k) PROVE P
  BY <1>4 DEF ExchangeUnusable, Redeemable, CodeRow
<1>5. ASSUME NEW k \in Codes, NEW g \in Grants, NEW p \in Pairs, ExchangeCode(k, g, p) PROVE P
  BY <1>5 DEF ExchangeCode, Redeemable, CodeRow
<1>6. ASSUME NEW k \in Codes, NEW g \in Grants, NEW p \in Pairs, ExchangeCut(k, g, p) PROVE P
  <2>1. PICK h \in Grants \cup {NoGrant} :
          code' = [code EXCEPT ![k] = [@ EXCEPT !.st = "redeemed", !.grant = h]]
    BY <1>6 DEF ExchangeCut
  <2> QED BY <1>6, <2>1 DEF ExchangeCut, Redeemable, CodeRow
<1>7. ASSUME NEW k \in Codes, ExpireCode(k) PROVE P
  BY <1>7 DEF ExpireCode, CodeRow
<1> HIDE DEF Refs, TypeOK, P
<1>8. P
  BY <1>1, <1>2, <1>3, <1>4, <1>5, <1>6, <1>7
  DEF Next, vars, Postmaster, Browser, Client, Clock, Death, Create, Reissue, Rotate, IssueEnrollment,
      ResetEnrollment, Disable, Enable, Invalidate, RevokeConnection, DeleteConnection, Withdraw,
      RevokeGrant, StartRequest, Login, LoginLookup, LoginFailed, LoginSucceeded, Decide, Deny,
      Refused, ReplayCode, ReplayRefresh, Refresh, RefreshCut, RevokeRefreshToken,
      RevokeAccessToken, ExpireRequest, LapseReservation, ExpireEnrollment, ExpireToken, Crash
<1> QED BY <1>8 DEF P

\* A request: it keeps its target and a decision; only a sign-in gives it a connection.
LEMMA ReqStep ==
  ASSUME Refs, [Next]_vars, NEW x \in Reqs
  PROVE  /\ req[x].st # "none" =>
              /\ req'[x].st # "none"
              /\ req'[x].target = req[x].target
              /\ req[x].st = "approved" => req'[x].st = "approved"
         /\ \/ /\ req'[x].conn = req[x].conn
               /\ req'[x].enr = req[x].enr
               /\ req'[x].target = req[x].target
            \/ req'[x].conn = req'[x].target /\ req'[x].enr = NoEnr
            \/ \E t \in Tasks :
                 /\ LoginSucceeded(t)
                 /\ task[t].req = x
                 /\ req'[x].target = req[x].target
                 /\ req'[x].conn = task[t].snap.conn
                 /\ req'[x].enr = task[t].enr
<1> DEFINE P == /\ req[x].st # "none" =>
                     /\ req'[x].st # "none"
                     /\ req'[x].target = req[x].target
                     /\ req[x].st = "approved" => req'[x].st = "approved"
                /\ \/ /\ req'[x].conn = req[x].conn
                      /\ req'[x].enr = req[x].enr
                      /\ req'[x].target = req[x].target
                   \/ req'[x].conn = req'[x].target /\ req'[x].enr = NoEnr
                   \/ \E t \in Tasks :
                        /\ LoginSucceeded(t)
                        /\ task[t].req = x
                        /\ req'[x].target = req[x].target
                        /\ req'[x].conn = task[t].snap.conn
                        /\ req'[x].enr = task[t].enr
<1> USE DEF Refs, TypeOK
<1>1. ASSUME UNCHANGED req PROVE P
  BY <1>1
<1>2. ASSUME NEW r \in Reqs, NEW c \in Conns \cup {NoConn}, StartRequest(r, c) PROVE P
  BY <1>2 DEF StartRequest, NoReqRow
<1>3. ASSUME NEW t \in Tasks, LoginSucceeded(t) PROVE P
  <2> DEFINE r == task[t].req
  <2>1. req' = req \/ req' = [req EXCEPT ![r] =
                  [@ EXCEPT !.conn = task[t].snap.conn, !.enr = task[t].enr, !.gen = task[t].snap.gen]]
    BY <1>3 DEF LoginSucceeded
  <2>2. CASE req'[x] = req[x]
    BY <2>2
  <2>3. CASE x = r /\ req'[x] = [req[x] EXCEPT !.conn = task[t].snap.conn, !.enr = task[t].enr,
                                              !.gen = task[t].snap.gen]
    <3>1. /\ req'[x].conn = task[t].snap.conn /\ req'[x].enr = task[t].enr
          /\ req'[x].st = req[x].st /\ req'[x].target = req[x].target
      BY <2>3 DEF ReqRow
    <3> QED BY <1>3, <2>3, <3>1
  <2> QED BY <2>1, <2>2, <2>3
<1>4. ASSUME NEW t \in Tasks, Deny(t) PROVE P
  BY <1>4 DEF Deny, ReqRow
<1>5. ASSUME NEW t \in Tasks, NEW k \in Codes, Approve(t, k) PROVE P
  BY <1>5 DEF Approve, Completed, ReqRow
<1>6. ASSUME NEW r \in Reqs, ExpireRequest(r) PROVE P
  BY <1>6 DEF ExpireRequest, ReqRow
<1> HIDE DEF Refs, TypeOK, P
<1>7. P
  BY <1>1, <1>2, <1>3, <1>4, <1>5, <1>6
  DEF Next, vars, Postmaster, Browser, Client, Clock, Death, Create, Reissue, Rotate, IssueEnrollment,
      ResetEnrollment, Disable, Enable, Invalidate, RevokeConnection, DeleteConnection, Withdraw,
      RevokeGrant, Login, LoginLookup, LoginFailed, Decide, ApproveCut, Refused, ReplayCode, ExchangeRefused,
      ExchangeUnusable, ExchangeCode, ExchangeCut, ReplayRefresh, Refresh, RefreshCut,
      RevokeRefreshToken, RevokeAccessToken, ExpireCode, LapseReservation, ExpireEnrollment,
      ExpireToken, Crash
<1> QED BY <1>7 DEF P

\* The grant g is new: an exchange of code k made it.
NewGrant(k, g) ==
  /\ Redeemable(k) /\ Consumable(k) /\ Usable(code[k].conn)
  /\ grant[g].st = "none"
  /\ grant' = [grant EXCEPT ![g] = GrantFrom(k)]
  /\ enr' = Consumed(code[k].enr)

\* A grant: only an exchange makes one; afterwards it can only be revoked.
LEMMA GrantStep ==
  ASSUME Refs, [Next]_vars, NEW x \in Grants
  PROVE  /\ grant[x].st # "none" =>
              /\ grant'[x].st \in {grant[x].st, "revoked"}
              /\ grant'[x].conn = grant[x].conn
              /\ grant'[x].code = grant[x].code
              /\ grant'[x].gen = grant[x].gen
         /\ grant[x].st = "none" /\ grant'[x].st # "none" => \E k \in Codes : NewGrant(k, x)
<1> DEFINE P == /\ grant[x].st # "none" =>
                     /\ grant'[x].st \in {grant[x].st, "revoked"}
                     /\ grant'[x].conn = grant[x].conn
                     /\ grant'[x].code = grant[x].code
                     /\ grant'[x].gen = grant[x].gen
                /\ grant[x].st = "none" /\ grant'[x].st # "none" => \E k \in Codes : NewGrant(k, x)
<1> USE DEF Refs, TypeOK
<1>1. ASSUME UNCHANGED grant PROVE P
  BY <1>1
<1>2. ASSUME NEW gs, RevokeGrants(gs) PROVE P
  BY <1>2 DEF RevokeGrants, GrantRow
<1>3. ASSUME NEW k \in Codes, NEW g \in Grants, NewGrant(k, g) PROVE P
  <2>1. x # g => grant'[x] = grant[x]
    BY <1>3 DEF NewGrant
  <2> QED BY <1>3, <2>1 DEF NewGrant
<1>4. ASSUME NEW k \in Codes, NEW g \in Grants, NEW p \in Pairs, ExchangeCode(k, g, p) PROVE P
  BY <1>3, <1>4 DEF ExchangeCode, NewGrant
<1>5. ASSUME NEW k \in Codes, NEW g \in Grants, NEW p \in Pairs, ExchangeCut(k, g, p) PROVE P
  <2>1. grant' = grant \/ NewGrant(k, g)
    BY <1>5 DEF ExchangeCut, NewGrant
  <2> QED BY <2>1, <1>1, <1>3
<1> HIDE DEF Refs, TypeOK, P
<1>6. P
  BY <1>1, <1>2, <1>4, <1>5
  DEF Next, vars, Postmaster, Browser, Client, Clock, Death, Create, Reissue, Rotate, IssueEnrollment,
      ResetEnrollment, Disable, Enable, Invalidate, RevokeConnection, DeleteConnection, Withdraw,
      RevokeGrant, StartRequest, Login, LoginLookup, LoginFailed, LoginSucceeded, Decide, Deny,
      Approve, ApproveCut, Refused, ReplayCode, ExchangeRefused, ExchangeUnusable, ReplayRefresh, Refresh,
      RefreshCut, RevokeRefreshToken, RevokeAccessToken, ExpireRequest, ExpireCode,
      LapseReservation, ExpireEnrollment, ExpireToken, Crash
<1> QED BY <1>6 DEF P

\* What a handler may come to wait for
TaskChange(t) ==
  \/ task'[t] \in {Idle, task[t]}
  \/ \E c \in Conns :
       \/ task'[t] = [Idle EXCEPT !.op = "issue", !.conn = c]
       \/ task'[t] = [Idle EXCEPT !.op = "reissue", !.conn = c, !.enr = latest[c]]
  \/ \E r \in Reqs :
       /\ req[r].st = "open"
       /\ \/ task'[t] = [Idle EXCEPT !.op = "login", !.req = r, !.conn = req[r].conn]
          \/ /\ req[r].enr # NoEnr
             /\ task'[t] = [Idle EXCEPT !.op = "decide", !.req = r, !.conn = req[r].conn,
                                        !.enr = req[r].enr, !.gen = req[r].gen]
  \/ \E e \in Enrs :
       /\ task[t].op = "login"
       /\ enr[e].st = "issued"
       /\ task'[t] = [task[t] EXCEPT !.op = "verify", !.enr = e, !.snap = enr[e]]

\* What any step can do to a waiting handler.
LEMMA TaskStep ==
  ASSUME Refs, [Next]_vars, NEW x \in Tasks
  PROVE  TaskChange(x)
<1> USE DEF Refs, TypeOK
<1>1. ASSUME UNCHANGED task PROVE TaskChange(x)
  BY <1>1 DEF TaskChange
<1>2. ASSUME NEW t \in Tasks, Finish(t) PROVE TaskChange(x)
  BY <1>2 DEF TaskChange, Finish
<1>3. ASSUME task' = [t \in Tasks |-> Idle] PROVE TaskChange(x)
  BY <1>3 DEF TaskChange
<1>4. ASSUME NEW t \in Tasks, NEW c \in Conns, Create(t, c) PROVE TaskChange(x)
  BY <1>4 DEF TaskChange, Create
<1>5. ASSUME NEW t \in Tasks, NEW c \in Conns, Reissue(t, c) PROVE TaskChange(x)
  BY <1>5 DEF TaskChange, Reissue
<1>6. ASSUME NEW t \in Tasks, NEW c \in Conns, Rotate(t, c) PROVE TaskChange(x)
  BY <1>6 DEF TaskChange, Rotate
<1>7. ASSUME NEW t \in Tasks, NEW r \in Reqs, Login(t, r) PROVE TaskChange(x)
  BY <1>7 DEF TaskChange, Login, OpenRequest
<1>8. ASSUME NEW t \in Tasks, NEW e \in Enrs, LoginLookup(t, e) PROVE TaskChange(x)
  BY <1>8 DEF TaskChange, LoginLookup
<1>9. ASSUME NEW t \in Tasks, NEW r \in Reqs, Decide(t, r) PROVE TaskChange(x)
  BY <1>9 DEF TaskChange, Decide, OpenRequest
<1> HIDE DEF Refs, TypeOK
<1> QED
  BY <1>1, <1>2, <1>3, <1>4, <1>5, <1>6, <1>7, <1>8, <1>9
  DEF Next, vars, Postmaster, Browser, Client, Clock, Death, IssueEnrollment, ResetEnrollment, Disable,
      Enable, Invalidate, RevokeConnection, DeleteConnection, Withdraw, RevokeGrant, StartRequest,
      LoginFailed, LoginSucceeded, Deny, Approve, ApproveCut, Refused, ReplayCode, ExchangeRefused,
      ExchangeUnusable, ExchangeCode, ExchangeCut, ReplayRefresh, Refresh, RefreshCut,
      RevokeRefreshToken, RevokeAccessToken, ExpireRequest, ExpireCode, LapseReservation,
      ExpireEnrollment, ExpireToken, Crash

-----------------------------------------------------------------------------
(***************************************************************************)
(* The conjuncts of the invariant                                          *)
(***************************************************************************)

\* Handlers refer to rows after every step.
LEMMA TaskRefsStep ==
  ASSUME Refs, [Next]_vars
  PROVE  TaskRefs'
<1> USE DEF Refs
<1>1. SUFFICES ASSUME NEW t \in Tasks
               PROVE  /\ task'[t].op \in {"login", "verify", "decide"} =>
                           task'[t].req \in Reqs /\ req'[task'[t].req].st # "none"
                      /\ task'[t].op \in {"verify", "decide"} =>
                           task'[t].enr \in Enrs /\ enr'[task'[t].enr].st = "issued"
                      /\ task'[t].op = "reissue" /\ task'[t].enr # NoEnr =>
                           enr'[task'[t].enr].st = "issued"
  BY DEF TaskRefs
<1>2. \A r \in Reqs : req[r].st # "none" => req'[r].st # "none"
  BY ReqStep
<1>3. \A e \in Enrs : enr[e].st = "issued" => enr'[e].st = "issued"
  BY EnrStep DEF EnrRowStep
<1>4. CASE task'[t] = Idle
  BY <1>4 DEF Idle
<1>5. CASE task'[t] = task[t]
  BY <1>2, <1>3, <1>5, TaskFields DEF TaskRefs, TypeOK
<1>6. ASSUME NEW c \in Conns, task'[t] = [Idle EXCEPT !.op = "issue", !.conn = c]
             \/ task'[t] = [Idle EXCEPT !.op = "reissue", !.conn = c, !.enr = latest[c]]
      PROVE  /\ task'[t].op \in {"issue", "reissue"}
             /\ task'[t].enr # NoEnr => enr'[task'[t].enr].st = "issued"
  <2>1. task'[t].op \in {"issue", "reissue"} /\ task'[t].enr \in {NoEnr, latest[c]}
    BY <1>6 DEF Idle
  <2> QED BY <2>1, <1>3 DEF RowRefs, TypeOK
<1>7. ASSUME NEW r \in Reqs, req[r].st = "open",
             \/ task'[t] = [Idle EXCEPT !.op = "login", !.req = r, !.conn = req[r].conn]
             \/ /\ req[r].enr # NoEnr
                /\ task'[t] = [Idle EXCEPT !.op = "decide", !.req = r, !.conn = req[r].conn,
                                           !.enr = req[r].enr, !.gen = req[r].gen]
      PROVE  /\ task'[t].op \in {"login", "decide"}
             /\ task'[t].req = r
             /\ task'[t].op = "decide" => task'[t].enr \in Enrs /\ enr'[task'[t].enr].st = "issued"
  <2>1. /\ task'[t].op \in {"login", "decide"}
        /\ task'[t].req = r
        /\ task'[t].op = "decide" => req[r].enr # NoEnr /\ task'[t].enr = req[r].enr
    BY <1>7 DEF Idle
  <2>2. req[r].enr # NoEnr => req[r].enr \in Enrs /\ enr[req[r].enr].st = "issued"
    BY ReqFields DEF RowRefs, TypeOK
  <2> QED BY <2>1, <2>2, <1>3
<1>8. ASSUME NEW e \in Enrs, task[t].op = "login", enr[e].st = "issued",
             task'[t] = [task[t] EXCEPT !.op = "verify", !.enr = e, !.snap = enr[e]]
      PROVE  /\ task'[t].op = "verify" /\ task'[t].enr = e /\ task'[t].req = task[t].req
             /\ task[t].req \in Reqs /\ req[task[t].req].st # "none"
  BY <1>8 DEF TaskRefs, TypeOK, TaskState
<1>9. CASE \E c \in Conns :
             \/ task'[t] = [Idle EXCEPT !.op = "issue", !.conn = c]
             \/ task'[t] = [Idle EXCEPT !.op = "reissue", !.conn = c, !.enr = latest[c]]
  <2>1. /\ task'[t].op \in {"issue", "reissue"}
        /\ task'[t].enr # NoEnr => enr'[task'[t].enr].st = "issued"
    BY <1>6, <1>9
  <2> QED BY <2>1
<1>10. CASE \E r \in Reqs :
              /\ req[r].st = "open"
              /\ \/ task'[t] = [Idle EXCEPT !.op = "login", !.req = r, !.conn = req[r].conn]
                 \/ /\ req[r].enr # NoEnr
                    /\ task'[t] = [Idle EXCEPT !.op = "decide", !.req = r, !.conn = req[r].conn,
                                               !.enr = req[r].enr, !.gen = req[r].gen]
  <2>1. PICK r \in Reqs :
          /\ req[r].st = "open"
          /\ task'[t].op \in {"login", "decide"}
          /\ task'[t].req = r
          /\ task'[t].op = "decide" => task'[t].enr \in Enrs /\ enr'[task'[t].enr].st = "issued"
    BY <1>7, <1>10
  <2> QED BY <2>1, <1>2
<1>11. CASE \E e \in Enrs :
              /\ task[t].op = "login"
              /\ enr[e].st = "issued"
              /\ task'[t] = [task[t] EXCEPT !.op = "verify", !.enr = e, !.snap = enr[e]]
  BY <1>2, <1>3, <1>8, <1>11
<1> QED BY TaskStep, <1>4, <1>5, <1>9, <1>10, <1>11 DEF TaskChange

\* Rows refer to rows after every step.
LEMMA RowRefsStep ==
  ASSUME Refs, [Next]_vars
  PROVE  RowRefs'
<1> USE DEF Refs
<1>1. \A e \in Enrs : enr[e].st = "issued" => enr'[e].st = "issued" /\ enr[e].gen <= enr'[e].gen
  BY EnrStep DEF EnrRowStep
<1>2. ASSUME NEW c \in Conns, latest'[c] # NoEnr PROVE enr'[latest'[c]].st = "issued"
  <2>1. \/ latest'[c] = latest[c]
        \/ \E t \in Tasks, e \in Enrs : IssueEnrollment(t, e) /\ RowOf(task[t].conn) /\ latest'[c] = e
        \/ \E t \in Tasks : ResetEnrollment(t) /\ RowOf(task[t].conn) /\ latest'[c] = task[t].enr
    <3>1. ASSUME NEW t \in Tasks, NEW e \in Enrs, IssueEnrollment(t, e)
          PROVE  latest'[c] = latest[c] \/ (RowOf(task[t].conn) /\ latest'[c] = e)
      BY <3>1 DEF IssueEnrollment, TypeOK
    <3>2. ASSUME NEW t \in Tasks, ResetEnrollment(t)
          PROVE  latest'[c] = latest[c] \/ (RowOf(task[t].conn) /\ latest'[c] = task[t].enr)
      BY <3>2 DEF ResetEnrollment, TypeOK
    <3> QED
      BY <3>1, <3>2
      DEF Next, vars, Postmaster, Browser, Client, Clock, Death, Create, Reissue, Rotate, Disable, Enable,
          Invalidate, RevokeConnection, DeleteConnection, Withdraw, RevokeGrant, StartRequest, Login,
          LoginLookup, LoginFailed, LoginSucceeded, Decide, Deny, Approve, ApproveCut, Refused, ReplayCode,
          ExchangeRefused, ExchangeUnusable, ExchangeCode, ExchangeCut, ReplayRefresh, Refresh,
          RefreshCut, RevokeRefreshToken, RevokeAccessToken, ExpireRequest, ExpireCode,
          LapseReservation, ExpireEnrollment, ExpireToken, Crash
  <2>2. CASE latest'[c] = latest[c]
    BY <2>2, <1>1, <1>2 DEF RowRefs, TypeOK
  <2>3. ASSUME NEW t \in Tasks, NEW e \in Enrs, IssueEnrollment(t, e), RowOf(task[t].conn)
        PROVE  enr'[e].st = "issued"
    <3>1. enr'[e] = [NoEnrRow EXCEPT !.st = "issued", !.conn = task[t].conn, !.gen = 1]
      BY <2>3, EnrollmentsRevokedType DEF IssueEnrollment
    <3> QED BY <3>1 DEF NoEnrRow
  <2>4. ASSUME NEW t \in Tasks, ResetEnrollment(t), RowOf(task[t].conn)
        PROVE  enr'[task[t].enr].st = "issued"
    <3>1. task[t].enr \in Enrs
      BY <2>4, TaskFields DEF ResetEnrollment, TypeOK
    <3>2. enr[task[t].enr].st = "issued"
      BY <2>4 DEF ResetEnrollment, TaskRefs
    <3> QED BY <3>1, <3>2, <1>1
  <2> QED BY <2>1, <2>2, <2>3, <2>4
<1>3. ASSUME NEW r \in Reqs, req'[r].enr # NoEnr PROVE enr'[req'[r].enr].st = "issued"
  <2>1. CASE req'[r].enr = req[r].enr
    BY <2>1, <1>1, <1>3, ReqFields DEF RowRefs, TypeOK
  <2>2. ASSUME NEW t \in Tasks, LoginSucceeded(t), req'[r].enr = task[t].enr
        PROVE  enr'[req'[r].enr].st = "issued"
    BY <2>2, <1>1 DEF LoginSucceeded, TaskRefs
  <2> QED BY <2>1, <2>2, <1>3, ReqStep
<1>4. ASSUME NEW k \in Issued'
      PROVE  /\ code'[k].req \in Reqs
             /\ code'[k].enr \in Enrs
             /\ enr'[code'[k].enr].st = "issued"
             /\ code'[k].gen <= enr'[code'[k].enr].gen
             /\ req'[code'[k].req].st # "none"
  <2>1. k \in Codes /\ code'[k].st # "none"
    BY <1>4 DEF Issued
  <2>2. CASE code[k].st # "none"
    <3>1. k \in Issued
      BY <2>1, <2>2 DEF Issued
    <3>2. code'[k].req = code[k].req /\ code'[k].enr = code[k].enr /\ code'[k].gen = code[k].gen
      BY <2>1, <2>2, CodeStep
    <3>3. code[k].gen \in Nat /\ enr[code[k].enr].gen \in Nat /\ enr'[code[k].enr].gen \in Nat
      BY <3>1, <2>1, EnrFields, TypeStep, BoundAssumption DEF RowRefs, TypeOK, CodeRow
    <3> QED BY <3>1, <3>2, <3>3, <1>1, ReqStep DEF RowRefs
  <2>3. CASE code[k].st = "none"
    <3>1. PICK t \in Tasks : NewCode(t, k)
      BY <2>1, <2>3, CodeStep
    <3>2. /\ code'[k].req = task[t].req /\ code'[k].enr = task[t].enr
          /\ code'[k].gen = enr[task[t].enr].gen
      BY <3>1, <2>1 DEF NewCode, IssuedCode, TypeOK, NoCodeRow
    <3>3. /\ task[t].req \in Reqs /\ req[task[t].req].st # "none"
          /\ task[t].enr \in Enrs /\ enr[task[t].enr].st = "issued"
      BY <3>1 DEF NewCode, Issuable, TaskRefs
    <3> QED BY <3>2, <3>3, <1>1, ReqStep
  <2> QED BY <2>2, <2>3
<1> QED BY <1>2, <1>3, <1>4 DEF RowRefs

\* Sign-in and decision keep to the connection a request was opened for.
LEMMA TargetKeptStep ==
  ASSUME Refs, TargetKept, [Next]_vars
  PROVE  TargetKept'
<1> USE DEF Refs
<1>1. ASSUME NEW r \in Reqs, req'[r].target # NoConn PROVE req'[r].conn = req'[r].target
  <2>1. CASE req'[r].conn = req[r].conn /\ req'[r].target = req[r].target
    BY <1>1, <2>1 DEF TargetKept
  <2>2. CASE req'[r].conn = req'[r].target
    BY <2>2
  <2>3. ASSUME NEW t \in Tasks, LoginSucceeded(t), task[t].req = r,
               req'[r].target = req[r].target, req'[r].conn = task[t].snap.conn
        PROVE  req'[r].conn = req'[r].target
    <3>1. task[t].conn \in {NoConn, task[t].snap.conn}
      <4>1. task[t].snap \in EnrRow
        BY TaskFields DEF TypeOK
      <4> QED BY <4>1, <2>3 DEF LoginSucceeded, NoProblem, EnrRow
    <3>2. req[r].target \in {NoConn, task[t].conn}
      BY <2>3 DEF TargetKept, LoginSucceeded
    <3> QED BY <1>1, <2>3, <3>1, <3>2
  <2> QED BY ReqStep, <2>1, <2>2, <2>3
<1>2. ASSUME NEW t \in Tasks, task'[t].op \in {"login", "verify", "decide"}
      PROVE  req'[task'[t].req].target \in {NoConn, task'[t].conn}
  <2>1. \A r \in Reqs : req[r].st # "none" => req'[r].target = req[r].target
    BY ReqStep
  <2>2. CASE task'[t] = Idle
    BY <1>2, <2>2 DEF Idle
  <2>3. CASE task'[t] = task[t]
    BY <1>2, <2>1, <2>3 DEF TaskRefs, TargetKept
  <2>4. ASSUME NEW c \in Conns, task'[t] = [Idle EXCEPT !.op = "issue", !.conn = c]
               \/ task'[t] = [Idle EXCEPT !.op = "reissue", !.conn = c, !.enr = latest[c]]
        PROVE  FALSE
    BY <1>2, <2>4 DEF Idle
  <2>5. ASSUME NEW r \in Reqs, req[r].st = "open",
               \/ task'[t] = [Idle EXCEPT !.op = "login", !.req = r, !.conn = req[r].conn]
               \/ task'[t] = [Idle EXCEPT !.op = "decide", !.req = r, !.conn = req[r].conn,
                                          !.enr = req[r].enr, !.gen = req[r].gen]
        PROVE  req'[task'[t].req].target \in {NoConn, task'[t].conn}
    <3>1. task'[t].req = r /\ task'[t].conn = req[r].conn
      BY <2>5 DEF Idle
    <3> QED BY <2>1, <2>5, <3>1 DEF TargetKept
  <2>6. ASSUME NEW e \in Enrs, task[t].op = "login",
               task'[t] = [task[t] EXCEPT !.op = "verify", !.enr = e, !.snap = enr[e]]
        PROVE  req'[task'[t].req].target \in {NoConn, task'[t].conn}
    <3>1. task'[t].req = task[t].req /\ task'[t].conn = task[t].conn
      BY <2>6 DEF TypeOK, TaskState
    <3> QED BY <2>1, <2>6, <3>1 DEF TaskRefs, TargetKept
  <2> QED BY TaskStep, <2>2, <2>3, <2>4, <2>5, <2>6 DEF TaskChange
<1> QED BY <1>1, <1>2 DEF TargetKept

\* What a decision does to the code it issues, field by field
LEMMA NewCodeFields ==
  ASSUME Refs, NEW t \in Tasks, NEW k \in Codes, NewCode(t, k)
  PROVE  /\ task[t].op = "decide"
         /\ task[t].req \in Reqs /\ task[t].enr \in Enrs
         /\ code'[k].st = "issued" /\ code'[k].req = task[t].req
         /\ code'[k].conn = task[t].conn /\ code'[k].enr = task[t].enr
         /\ code'[k].gen = enr[task[t].enr].gen
         /\ \A j \in Codes : j # k => code'[j] = code[j]
         /\ code'[k].sent =>
              /\ enr'[task[t].enr].res = k /\ enr'[task[t].enr].held
              /\ ~enr'[task[t].enr].consumed
              /\ req[task[t].req].st = "open"
              /\ req'[task[t].req].st = "approved"
<1> DEFINE e == task[t].enr
<1>1. task[t].op = "decide" /\ task[t].req \in Reqs /\ e \in Enrs
  BY DEF Refs, TaskRefs, NewCode, Issuable
<1>2. PICK sent \in BOOLEAN :
        /\ code' = [code EXCEPT ![k] = IssuedCode(t, sent)]
        /\ sent => Approve(t, k) /\ req[task[t].req].st = "open"
  BY DEF NewCode
<1>3. /\ code'[k].st = "issued" /\ code'[k].req = task[t].req
      /\ code'[k].conn = task[t].conn /\ code'[k].enr = e
      /\ code'[k].gen = enr[e].gen /\ code'[k].sent = sent
      /\ \A j \in Codes : j # k => code'[j] = code[j]
  BY <1>2 DEF IssuedCode, NoCodeRow, Refs, TypeOK
<1>4. ASSUME Approve(t, k), req[task[t].req].st = "open"
      PROVE  /\ enr'[e].res = k /\ enr'[e].held /\ ~enr'[e].consumed
             /\ req'[task[t].req].st = "approved"
  <2>1. enr'[e] = [enr[e] EXCEPT !.res = k, !.held = TRUE] /\ ~enr[e].consumed
    BY <1>1, <1>4 DEF Approve, Reserved, Issuable, NoProblem, Refs, TypeOK
  <2>2. enr'[e].res = k /\ enr'[e].held /\ ~enr'[e].consumed
    BY <1>1, <2>1 DEF Refs, TypeOK, EnrRow
  <2>3. req'[task[t].req].st = "approved"
    BY <1>1, <1>4 DEF Approve, Completed, Refs, TypeOK, ReqRow
  <2> QED BY <2>2, <2>3
<1> QED BY <1>1, <1>2, <1>3, <1>4

\* A code is for the connection its request was opened for.
LEMMA TargetIsRespectedStep ==
  ASSUME Refs, TargetKept, TargetIsRespected, [Next]_vars
  PROVE  TargetIsRespected'
<1> SUFFICES ASSUME NEW k \in Codes, code'[k].st # "none"
             PROVE  req'[code'[k].req].target \in {NoConn, code'[k].conn}
  BY DEF TargetIsRespected, Issued
<1>1. \A r \in Reqs : req[r].st # "none" => req'[r].target = req[r].target
  BY ReqStep
<1>2. CASE code[k].st # "none"
  BY <1>1, <1>2, CodeStep DEF TargetIsRespected, Issued, Refs, RowRefs
<1>3. ASSUME NEW t \in Tasks, NewCode(t, k)
      PROVE  req'[code'[k].req].target \in {NoConn, code'[k].conn}
  <2>1. task[t].op = "decide"
    BY <1>3, NewCodeFields
  <2>2. task[t].req \in Reqs /\ req[task[t].req].st # "none"
    BY <2>1 DEF Refs, TaskRefs
  <2>3. req[task[t].req].target \in {NoConn, task[t].conn}
    BY <2>1 DEF TargetKept
  <2> QED BY <1>1, <1>3, <2>2, <2>3, NewCodeFields
<1> QED BY <1>2, <1>3, CodeStep

\* A reservation is for a code of the current issue.
LEMMA ReservedForCurrentStep ==
  ASSUME Refs, ReservedForCurrent, [Next]_vars
  PROVE  ReservedForCurrent'
<1> SUFFICES ASSUME NEW e \in Enrs, enr'[e].res # NoCode
             PROVE  /\ enr'[e].res \in Issued'
                    /\ code'[enr'[e].res].enr = e
                    /\ code'[enr'[e].res].gen = enr'[e].gen
  BY DEF ReservedForCurrent
<1>1. enr'[e].res \in Codes
  BY EnrFields, TypeStep DEF Refs, TypeOK
<1>2. CASE enr'[e].res = enr[e].res /\ enr'[e].gen = enr[e].gen
  BY <1>1, <1>2, CodeStep DEF ReservedForCurrent, Issued
<1>3. CASE /\ code'[enr'[e].res].st = "issued"
           /\ code'[enr'[e].res].enr = e
           /\ code'[enr'[e].res].gen = enr'[e].gen
  BY <1>1, <1>3 DEF Issued
<1> QED BY <1>2, <1>3, EnrStep DEF EnrRowStep

\* What an exchange that makes a grant does, field by field
LEMMA NewGrantFields ==
  ASSUME Refs, ReservedForCurrent, [Next]_vars,
         NEW k \in Codes, NEW g \in Grants, NewGrant(k, g)
  PROVE  /\ k \in Issued
         /\ code[k].enr \in Enrs
         /\ code[k].conn \in Conns /\ conn[code[k].conn].st = "enabled"
         /\ code[k].gen = enr[code[k].enr].gen
         /\ ~enr[code[k].enr].consumed
         /\ enr'[code[k].enr].consumed
         /\ enr'[code[k].enr].gen = enr[code[k].enr].gen
         /\ grant'[g].st = "live" /\ grant'[g].code = k /\ grant'[g].conn = code[k].conn
         /\ grant'[g].gen = enr[code[k].enr].gen
         /\ \A h \in Grants : h # g => grant'[h] = grant[h]
<1>1. k \in Issued /\ code[k].enr \in Enrs
  BY DEF NewGrant, Redeemable, Issued, Refs, RowRefs
<1>2. code[k].gen = enr[code[k].enr].gen /\ ~enr[code[k].enr].consumed
  BY <1>1, NullAssumption DEF NewGrant, Consumable, ReservedForCurrent
<1>3. enr'[code[k].enr].consumed /\ enr'[code[k].enr].gen = enr[code[k].enr].gen
  BY <1>1 DEF NewGrant, Consumed, Refs, TypeOK, EnrRow
<1>4. grant'[g].st = "live" /\ grant'[g].code = k /\ grant'[g].conn = code[k].conn
      /\ grant'[g].gen = enr[code[k].enr].gen
  BY DEF NewGrant, GrantFrom, NoGrantRow, Refs, TypeOK
<1>5. \A h \in Grants : h # g => grant'[h] = grant[h]
  BY DEF NewGrant, Refs, TypeOK
<1> QED BY <1>1, <1>2, <1>3, <1>4, <1>5 DEF NewGrant, Usable

\* A grant of the current issue has consumed it.
LEMMA GrantConsumesStep ==
  ASSUME Refs, ReservedForCurrent, GrantConsumes, [Next]_vars
  PROVE  GrantConsumes'
<1> SUFFICES ASSUME NEW g \in Grants, grant'[g].st # "none"
             PROVE  /\ grant'[g].code \in Issued'
                    /\ grant'[g].gen <= enr'[code'[grant'[g].code].enr].gen
                    /\ grant'[g].gen = enr'[code'[grant'[g].code].enr].gen =>
                         enr'[code'[grant'[g].code].enr].consumed
  BY DEF GrantConsumes, Granted
<1>1. \A k \in Issued : k \in Issued' /\ code'[k].enr = code[k].enr
  BY CodeStep DEF Issued
<1>2. CASE grant[g].st # "none"
  <2> DEFINE e == code[grant[g].code].enr
  <2>1. grant'[g].code = grant[g].code /\ grant'[g].gen = grant[g].gen
    BY <1>2, GrantStep
  <2>2. /\ grant[g].code \in Issued /\ grant[g].gen <= enr[e].gen
        /\ grant[g].gen = enr[e].gen => enr[e].consumed
    BY <1>2 DEF GrantConsumes, Granted
  <2>3. e \in Enrs /\ enr[e].st = "issued"
    BY <2>2 DEF Refs, RowRefs
  <2>4. enr[e].gen <= enr'[e].gen /\ (enr[e].gen = enr'[e].gen /\ enr[e].consumed => enr'[e].consumed)
    BY <2>3, EnrStep DEF EnrRowStep
  <2>5. grant[g].gen \in Nat /\ enr[e].gen \in Nat /\ enr'[e].gen \in Nat
    BY <2>3, EnrFields, TypeStep, BoundAssumption DEF Refs, TypeOK, GrantRow
  <2> QED BY <1>1, <2>1, <2>2, <2>4, <2>5
<1>3. ASSUME NEW k \in Codes, NewGrant(k, g)
      PROVE  /\ grant'[g].code \in Issued'
             /\ grant'[g].gen = enr'[code'[grant'[g].code].enr].gen
             /\ enr'[code'[grant'[g].code].enr].consumed
             /\ grant'[g].gen \in Nat
  BY <1>1, <1>3, NewGrantFields, EnrFields, BoundAssumption DEF Refs, TypeOK
<1> QED BY <1>2, <1>3, GrantStep

\* One issue of a setup password gives one grant.
LEMMA OneGrantPerIssueStep ==
  ASSUME Refs, ReservedForCurrent, GrantConsumes, OneGrantPerIssue, [Next]_vars
  PROVE  OneGrantPerIssue'
<1> SUFFICES ASSUME NEW g \in Grants, NEW h \in Grants,
                    grant'[g].st # "none", grant'[h].st # "none",
                    code'[grant'[g].code].enr = code'[grant'[h].code].enr,
                    grant'[g].gen = grant'[h].gen
             PROVE  g = h
  BY DEF OneGrantPerIssue, IssueOf, Granted
<1>1. \A k \in Issued : code'[k].enr = code[k].enr
  BY CodeStep DEF Issued
<1>2. ASSUME NEW x \in Grants, grant[x].st # "none"
      PROVE  /\ x \in Granted
             /\ grant[x].code \in Issued
             /\ code'[grant'[x].code].enr = code[grant[x].code].enr
             /\ grant'[x].gen = grant[x].gen
  BY <1>1, <1>2, GrantStep DEF GrantConsumes, Granted
<1>3. ASSUME NEW x \in Grants, NEW y \in Grants, NEW k \in Codes, NewGrant(k, x),
             grant[y].st # "none",
             code'[grant'[x].code].enr = code'[grant'[y].code].enr,
             grant'[x].gen = grant'[y].gen
      PROVE  FALSE
  <2>1. /\ code'[grant'[x].code].enr = code[k].enr
        /\ grant'[x].gen = enr[code[k].enr].gen
        /\ ~enr[code[k].enr].consumed
    BY <1>1, <1>3, NewGrantFields
  <2>2. /\ y \in Granted
        /\ code[grant[y].code].enr = code[k].enr
        /\ grant[y].gen = enr[code[k].enr].gen
    BY <1>2, <1>3, <2>1
  <2> QED BY <2>1, <2>2 DEF GrantConsumes
<1>4. CASE grant[g].st # "none" /\ grant[h].st # "none"
  BY <1>2, <1>4 DEF OneGrantPerIssue, IssueOf
<1>5. CASE grant[g].st = "none" /\ grant[h].st # "none"
  BY <1>3, <1>5, GrantStep
<1>6. CASE grant[g].st # "none" /\ grant[h].st = "none"
  BY <1>3, <1>6, GrantStep
<1>7. CASE grant[g].st = "none" /\ grant[h].st = "none"
  BY <1>7, GrantStep, NewGrantFields
<1> QED BY <1>4, <1>5, <1>6, <1>7

\* A grant is backed by the issue its code was approved under.
LEMMA CodeDiesStep ==
  ASSUME Refs, ReservedForCurrent, GrantConsumes, CodeDiesWithItsIssue, [Next]_vars
  PROVE  CodeDiesWithItsIssue'
<1> SUFFICES ASSUME NEW g \in Grants, grant'[g].st # "none"
             PROVE  code'[grant'[g].code].gen = grant'[g].gen
  BY DEF CodeDiesWithItsIssue, Granted
<1>1. \A k \in Issued : code'[k].gen = code[k].gen
  BY CodeStep DEF Issued
<1>2. CASE grant[g].st # "none"
  BY <1>1, <1>2, GrantStep DEF GrantConsumes, CodeDiesWithItsIssue, Granted
<1>3. ASSUME NEW k \in Codes, NewGrant(k, g) PROVE code'[grant'[g].code].gen = grant'[g].gen
  BY <1>1, <1>3, NewGrantFields
<1> QED BY <1>2, <1>3, GrantStep

\* The reservation of a code that was sent outlives the code.
LEMMA SentCodeStep ==
  ASSUME Refs, ReservedForCurrent, SentCodeKeepsReservation, [Next]_vars
  PROVE  SentCodeKeepsReservation'
<1> SUFFICES ASSUME NEW k \in Codes,
                    code'[k].st = "issued", code'[k].sent, ~code'[k].expired,
                    code'[k].gen = enr'[code'[k].enr].gen
             PROVE  /\ enr'[code'[k].enr].res = k
                    /\ enr'[code'[k].enr].held
                    /\ ~enr'[code'[k].enr].consumed
  BY DEF SentCodeKeepsReservation
<1> DEFINE e == code[k].enr
<1>1. CASE code[k].st # "none"
  <2>1. /\ code'[k].enr = e /\ code'[k].gen = code[k].gen
        /\ code[k].st = "issued" /\ code[k].sent /\ ~code[k].expired
    <3>1. code[k].st \in {"none", "issued", "redeemed"}
      BY DEF Refs, TypeOK, CodeRow
    <3> QED BY <1>1, <3>1, CodeStep
  <2>2. e \in Enrs /\ enr[e].st = "issued" /\ code[k].gen <= enr[e].gen
    BY <1>1 DEF Refs, RowRefs, Issued
  <2>3. enr[e].gen <= enr'[e].gen
    BY <2>2, EnrStep DEF EnrRowStep
  <2>4. code[k].gen \in Nat /\ enr[e].gen \in Nat /\ enr'[e].gen \in Nat
    BY <2>2, EnrFields, TypeStep, BoundAssumption DEF Refs, TypeOK, CodeRow
  <2>5. code[k].gen = enr[e].gen /\ enr'[e].gen = enr[e].gen
    BY <2>1, <2>2, <2>3, <2>4
  <2>6. enr[e].res = k /\ enr[e].held /\ ~enr[e].consumed
    BY <2>1, <2>5 DEF SentCodeKeepsReservation
  <2> QED BY <2>1, <2>2, <2>5, <2>6, EnrStep DEF EnrRowStep
<1>2. ASSUME NEW t \in Tasks, NewCode(t, k)
      PROVE  /\ enr'[code'[k].enr].res = k
             /\ enr'[code'[k].enr].held
             /\ ~enr'[code'[k].enr].consumed
  BY <1>2, NewCodeFields
<1> QED BY <1>1, <1>2, CodeStep

\* A request has one outcome.
LEMMA OneOutcomeStep ==
  ASSUME Refs, OneOutcomePerRequest, [Next]_vars
  PROVE  OneOutcomePerRequest'
<1>1. ASSUME NEW k \in Codes, code'[k].st # "none", code'[k].sent
      PROVE  req'[code'[k].req].st = "approved"
  <2>1. CASE code[k].st # "none"
    <3>1. code[k].sent /\ code'[k].req = code[k].req /\ k \in Issued
      BY <1>1, <2>1, CodeStep DEF Issued
    <3>2. code[k].req \in Reqs /\ req[code[k].req].st = "approved"
      BY <3>1 DEF OneOutcomePerRequest, Refs, RowRefs
    <3> QED BY <3>1, <3>2, ReqStep
  <2>2. ASSUME NEW t \in Tasks, NewCode(t, k) PROVE req'[code'[k].req].st = "approved"
    BY <1>1, <2>2, NewCodeFields
  <2> QED BY <1>1, <2>1, <2>2, CodeStep
<1>2. ASSUME NEW j \in Codes, NEW k \in Codes, code[j].st # "none", code'[j].sent,
             NEW t \in Tasks, NewCode(t, k), code'[k].sent, code'[j].req = code'[k].req
      PROVE  j = k
  <2>1. code[j].sent /\ code'[j].req = code[j].req /\ j \in Issued
    BY <1>2, CodeStep DEF Issued
  <2>2. req[code[j].req].st = "approved"
    BY <2>1 DEF OneOutcomePerRequest
  <2>3. req[code'[k].req].st = "open"
    BY <1>2, NewCodeFields
  <2> QED BY <1>2, <2>1, <2>2, <2>3
<1>3. ASSUME NEW j \in Codes, NEW k \in Codes, code'[j].st # "none", code'[k].st # "none",
             code'[j].sent, code'[k].sent, code'[j].req = code'[k].req
      PROVE  j = k
  <2>1. CASE code[j].st # "none" /\ code[k].st # "none"
    <3>1. /\ j \in Issued /\ code[j].sent /\ code'[j].req = code[j].req
          /\ k \in Issued /\ code[k].sent /\ code'[k].req = code[k].req
      BY <1>3, <2>1, CodeStep DEF Issued
    <3> QED BY <1>3, <3>1 DEF OneOutcomePerRequest
  <2>2. CASE code[j].st # "none" /\ code[k].st = "none"
    <3>1. PICK t \in Tasks : NewCode(t, k)
      BY <1>3, <2>2, CodeStep
    <3> QED BY <1>2, <1>3, <2>2, <3>1
  <2>3. CASE code[j].st = "none" /\ code[k].st # "none"
    <3>1. PICK t \in Tasks : NewCode(t, j)
      BY <1>3, <2>3, CodeStep
    <3> QED BY <1>2, <1>3, <2>3, <3>1
  <2>4. CASE code[j].st = "none" /\ code[k].st = "none"
    <3>1. PICK t \in Tasks : NewCode(t, k)
      BY <1>3, <2>4, CodeStep
    <3> QED BY <1>3, <2>4, <3>1, NewCodeFields
  <2> QED BY <2>1, <2>2, <2>3, <2>4
<1> QED BY <1>1, <1>3 DEF OneOutcomePerRequest, Issued

-----------------------------------------------------------------------------
(***************************************************************************)
(* Tokens                                                                  *)
(***************************************************************************)

\* What a step may do to the grants and tokens
TokenChange ==
  \/ UNCHANGED <<grant, pair>>
  \/ \E gs \in SUBSET (Grants \cup {NoGrant}) : RevokeGrants(gs)
  \/ \E k \in Codes, g \in Grants, p \in Pairs :
       /\ NewGrant(k, g)
       /\ pair[p].st = "none"
       /\ \/ pair' = pair
          \/ pair' = [pair EXCEPT ![p] = MintPair(g)]
          \/ pair' = [pair EXCEPT ![p] = [MintPair(g) EXCEPT !.refresh = "missing"]]
  \/ /\ UNCHANGED grant
     /\ \E p, q \in Pairs :
          /\ Refreshable(p)
          /\ pair[q].st = "none"
          /\ \/ pair' = [pair EXCEPT ![p].refresh = "used"]
             \/ pair' = [pair EXCEPT ![p].refresh = "used", ![q] = MintPair(pair[p].grant)]
             \/ pair' = [pair EXCEPT ![p].refresh = "used",
                           ![q] = [MintPair(pair[p].grant) EXCEPT !.refresh = "missing"]]
  \/ /\ UNCHANGED grant
     /\ \E p \in Pairs : \/ pair' = [pair EXCEPT ![p].access = "revoked"]
                         \/ pair' = [pair EXCEPT ![p].age = @ + 1]

\* What any step can do to the tokens and the grants they belong to.
LEMMA TokenStep ==
  ASSUME Refs, [Next]_vars
  PROVE  TokenChange
<1>1. ASSUME UNCHANGED <<grant, pair>> PROVE TokenChange
  BY <1>1 DEF TokenChange
<1>2. ASSUME NEW gs \in SUBSET (Grants \cup {NoGrant}), RevokeGrants(gs) PROVE TokenChange
  BY <1>2 DEF TokenChange
<1>3. ASSUME NEW k \in Codes, NEW g \in Grants, NEW p \in Pairs, ExchangeCode(k, g, p)
      PROVE  TokenChange
  BY <1>3 DEF TokenChange, ExchangeCode, NewGrant
<1>4. ASSUME NEW k \in Codes, NEW g \in Grants, NEW p \in Pairs, ExchangeCut(k, g, p)
      PROVE  TokenChange
  <2>1. \/ UNCHANGED <<grant, pair>>
        \/ /\ NewGrant(k, g)
           /\ pair' = pair \/ pair' = [pair EXCEPT ![p] = [MintPair(g) EXCEPT !.refresh = "missing"]]
    BY <1>4 DEF ExchangeCut, NewGrant
  <2> QED BY <1>4, <2>1 DEF TokenChange, ExchangeCut
<1>5. ASSUME NEW p \in Pairs, NEW q \in Pairs, Refresh(p, q) PROVE TokenChange
  BY <1>5 DEF TokenChange, Refresh
<1>6. ASSUME NEW p \in Pairs, NEW q \in Pairs, RefreshCut(p, q) PROVE TokenChange
  BY <1>6 DEF TokenChange, RefreshCut
<1>7. ASSUME NEW p \in Pairs, RevokeAccessToken(p) PROVE TokenChange
  BY <1>7 DEF TokenChange, RevokeAccessToken
<1>8. ASSUME NEW p \in Pairs, ExpireToken(p) PROVE TokenChange
  BY <1>8 DEF TokenChange, ExpireToken
<1>9. /\ \A c : GrantsOf(c) \in SUBSET (Grants \cup {NoGrant})
      /\ \A p \in Pairs : {pair[p].grant} \in SUBSET (Grants \cup {NoGrant})
      /\ \A g : {g} \cap Grants \in SUBSET (Grants \cup {NoGrant})
      /\ \A g \in Grants : {g} \in SUBSET (Grants \cup {NoGrant})
  BY PairUpdates DEF GrantsOf, Refs, TypeOK
<1> QED
  BY <1>1, <1>2, <1>3, <1>4, <1>5, <1>6, <1>7, <1>8, <1>9
  DEF Next, vars, Postmaster, Browser, Client, Clock, Death, Create, Reissue, Rotate, IssueEnrollment,
      ResetEnrollment, Disable, Enable, Invalidate, RevokeConnection, DeleteConnection, Withdraw,
      RevokeGrant, StartRequest, Login, LoginLookup, LoginFailed, LoginSucceeded, Decide, Deny,
      Approve, ApproveCut, Refused, ReplayCode, ExchangeRefused, ExchangeUnusable, ReplayRefresh,
      RevokeRefreshToken, ExpireRequest, ExpireCode, LapseReservation, ExpireEnrollment, Crash

Tokens == NoTokenUnminted /\ RevokedGrantIsDead /\ OneLiveRefreshToken

\* Revocation and rotation of tokens
LEMMA TokensStep ==
  ASSUME Refs, ReservedForCurrent, Tokens, [Next]_vars
  PROVE  Tokens'
<1>0. ASSUME NEW k \in Codes, NEW g \in Grants, NewGrant(k, g)
      PROVE  /\ grant'[g].st = "live" /\ grant[g].st = "none"
             /\ \A h \in Grants : h # g => grant'[h] = grant[h]
  <2>1. grant[g].st = "none"
    BY <1>0 DEF NewGrant
  <2> QED BY <1>0, <2>1, NewGrantFields
<1> USE DEF Refs, TypeOK, Tokens
<1>1. CASE UNCHANGED <<grant, pair>>
  BY <1>1 DEF NoTokenUnminted, RevokedGrantIsDead, OneLiveRefreshToken, LiveRefresh, Granted
<1>2. ASSUME NEW gs \in SUBSET (Grants \cup {NoGrant}), RevokeGrants(gs) PROVE Tokens'
  <2>1. \A p \in Pairs : /\ pair'[p].st = pair[p].st /\ pair'[p].refresh = pair[p].refresh
                         /\ pair'[p].grant = pair[p].grant
                         /\ pair[p].revoked => pair'[p].revoked
                         /\ pair[p].access = "revoked" => pair'[p].access = "revoked"
                         /\ pair[p].grant \in gs => pair'[p].revoked /\ pair'[p].access = "revoked"
    BY <1>2 DEF RevokeGrants, PairRow
  <2>2. \A g \in Grants : /\ g \in Granted => g \in Granted'
                          /\ g \notin gs => grant'[g].st = grant[g].st
                          /\ grant'[g].st = "revoked" => grant[g].st = "revoked" \/ g \in gs
    BY <1>2 DEF RevokeGrants, GrantRow, Granted
  <2>3. NoTokenUnminted'
    BY <2>1 DEF NoTokenUnminted
  <2>4. RevokedGrantIsDead'
    BY <2>1, <2>2 DEF RevokedGrantIsDead, Granted
  <2>5. OneLiveRefreshToken'
    BY <2>1 DEF OneLiveRefreshToken, LiveRefresh
  <2> QED BY <2>3, <2>4, <2>5
<1>3. ASSUME NEW k \in Codes, NEW g \in Grants, NEW p \in Pairs, NewGrant(k, g), pair[p].st = "none",
             \/ pair' = pair
             \/ pair' = [pair EXCEPT ![p] = MintPair(g)]
             \/ pair' = [pair EXCEPT ![p] = [MintPair(g) EXCEPT !.refresh = "missing"]]
      PROVE  Tokens'
  <2>1. /\ grant'[g].st = "live" /\ g \notin Granted
        /\ \A h \in Grants : h # g => grant'[h] = grant[h]
    BY <1>0, <1>3 DEF Granted
  <2>2. \A q \in Pairs : q # p => pair'[q] = pair[q]
    BY <1>3
  <2>3. \/ pair'[p] = pair[p]
        \/ pair'[p].st = "issued" /\ pair'[p].grant = g
    BY <1>3 DEF MintPair, NoPairRow
  <2>4. NoTokenUnminted'
    BY <2>2, <2>3 DEF NoTokenUnminted
  <2>5. RevokedGrantIsDead'
    BY <2>1, <2>2, <2>3, <1>3 DEF RevokedGrantIsDead, Granted
  <2>6. \A q \in Pairs : LiveRefresh(q) => pair[q].grant # g
    BY <2>1 DEF LiveRefresh, RevokedGrantIsDead, NoTokenUnminted, PairRow
  <2>7. OneLiveRefreshToken'
    BY <2>2, <2>3, <2>6 DEF OneLiveRefreshToken, LiveRefresh
  <2> QED BY <2>4, <2>5, <2>7
<1>4. ASSUME UNCHANGED grant, NEW p \in Pairs, NEW q \in Pairs, Refreshable(p), pair[q].st = "none",
             \/ pair' = [pair EXCEPT ![p].refresh = "used"]
             \/ pair' = [pair EXCEPT ![p].refresh = "used", ![q] = MintPair(pair[p].grant)]
             \/ pair' = [pair EXCEPT ![p].refresh = "used",
                           ![q] = [MintPair(pair[p].grant) EXCEPT !.refresh = "missing"]]
      PROVE  Tokens'
  <2>1. /\ pair[p].st = "issued" /\ pair[p].refresh = "unused" /\ p # q
        /\ ~pair[p].revoked /\ grant[pair[p].grant].st = "live" /\ pair[p].grant \in Granted
    BY <1>4 DEF Refreshable, NoTokenUnminted, RevokedGrantIsDead, PairRow
  <2>2. /\ pair'[p].st = "issued" /\ pair'[p].refresh = "used" /\ pair'[p].grant = pair[p].grant
    BY <1>4, <2>1 DEF PairRow
  <2>3. \A x \in Pairs : x # p /\ x # q => pair'[x] = pair[x]
    BY <1>4
  <2>4. \/ pair'[q] = pair[q]
        \/ pair'[q].st = "issued" /\ pair'[q].grant = pair[p].grant
    BY <1>4, <2>1 DEF MintPair, NoPairRow
  <2>5. NoTokenUnminted'
    BY <2>2, <2>3, <2>4 DEF NoTokenUnminted
  <2>6. RevokedGrantIsDead'
    BY <1>4, <2>1, <2>2, <2>3, <2>4 DEF RevokedGrantIsDead, Granted
  <2>7. OneLiveRefreshToken'
    BY <1>4, <2>1, <2>2, <2>3, <2>4 DEF OneLiveRefreshToken, LiveRefresh, NoTokenUnminted
  <2> QED BY <2>5, <2>6, <2>7
<1>5. ASSUME UNCHANGED grant, NEW p \in Pairs,
             pair' = [pair EXCEPT ![p].access = "revoked"] \/ pair' = [pair EXCEPT ![p].age = @ + 1]
      PROVE  Tokens'
  <2>1. \A x \in Pairs : /\ pair'[x].st = pair[x].st /\ pair'[x].refresh = pair[x].refresh
                         /\ pair'[x].grant = pair[x].grant /\ pair'[x].revoked = pair[x].revoked
                         /\ pair[x].access = "revoked" => pair'[x].access = "revoked"
    BY <1>5 DEF PairRow
  <2> QED BY <1>5, <2>1
          DEF NoTokenUnminted, RevokedGrantIsDead, OneLiveRefreshToken, LiveRefresh, Granted
<1> HIDE DEF Refs, TypeOK, Tokens
<1> QED BY TokenStep, <1>1, <1>2, <1>3, <1>4, <1>5 DEF TokenChange

\* Withdrawing a connection takes its live grants along.
LEMMA LiveGrantStep ==
  ASSUME Refs, ReservedForCurrent, LiveGrantHasConnection, [Next]_vars
  PROVE  LiveGrantHasConnection'
<1> SUFFICES ASSUME NEW g \in Grants, grant'[g].st = "live"
             PROVE  grant'[g].conn \in Conns /\ conn'[grant'[g].conn].st = "enabled"
  BY DEF LiveGrantHasConnection
<1>1. ASSUME NEW c \in Conns, conn[c].st = "enabled"
      PROVE  conn'[c].st = "enabled" \/ RevokeGrants(GrantsOf(c))
  <2> USE DEF Refs, TypeOK
  <2>1. ASSUME NEW d \in Conns, NEW final, Withdraw(d, final)
        PROVE  conn'[c].st = "enabled" \/ RevokeGrants(GrantsOf(c))
    BY <1>1, <2>1 DEF Withdraw
  <2>2. ASSUME NEW d \in Conns, NEW b \in BOOLEAN, conn' = [conn EXCEPT ![d].blocked = b]
        PROVE  conn'[c].st = "enabled"
    BY <1>1, <2>2 DEF ConnRow
  <2>3. ASSUME NEW d \in Conns, conn' = [conn EXCEPT ![d].st = "enabled"]
        PROVE  conn'[c].st = "enabled"
    BY <1>1, <2>3 DEF ConnRow
  <2> HIDE DEF Refs, TypeOK
  <2> QED
    BY <1>1, <2>1, <2>2, <2>3
    DEF Next, vars, Postmaster, Browser, Client, Clock, Death, Create, Reissue, Rotate, IssueEnrollment,
        ResetEnrollment, Disable, Enable, Invalidate, RevokeConnection, DeleteConnection,
        RevokeGrant, StartRequest, Login, LoginLookup, LoginFailed, LoginSucceeded, Decide, Deny,
        Approve, ApproveCut, Refused, ReplayCode, ExchangeRefused, ExchangeUnusable, ExchangeCode, ExchangeCut,
        ReplayRefresh, Refresh, RefreshCut, RevokeRefreshToken, RevokeAccessToken, ExpireRequest,
        ExpireCode, LapseReservation, ExpireEnrollment, ExpireToken, Crash
<1>2. CASE grant[g].st = "none"
  <2>1. PICK k \in Codes : NewGrant(k, g)
    BY <1>2, GrantStep
  <2>2. code[k].conn \in Conns /\ conn[code[k].conn].st = "enabled" /\ grant'[g].conn = code[k].conn
    BY <2>1, NewGrantFields
  <2>3. ~RevokeGrants(GrantsOf(code[k].conn))
    BY <1>2 DEF RevokeGrants, Refs, TypeOK
  <2> QED BY <1>1, <2>2, <2>3
<1>3. CASE grant[g].st # "none"
  <2>1. grant[g].st = "live" /\ grant'[g].conn = grant[g].conn
    BY <1>3, GrantStep
  <2>2. grant[g].conn \in Conns /\ conn[grant[g].conn].st = "enabled"
    BY <2>1 DEF LiveGrantHasConnection
  <2>3. ~RevokeGrants(GrantsOf(grant[g].conn))
    <3>1. g \in GrantsOf(grant[g].conn)
      BY <2>1 DEF GrantsOf
    <3>2. [grant[g] EXCEPT !.st = "revoked"].st = "revoked"
      BY DEF Refs, TypeOK, GrantRow
    <3> QED BY <2>1, <3>1, <3>2 DEF RevokeGrants
  <2> QED BY <1>1, <2>1, <2>2, <2>3
<1> QED BY <1>2, <1>3

-----------------------------------------------------------------------------
(***************************************************************************)
(* The theorems                                                            *)
(***************************************************************************)

\* The empty tables satisfy the invariant.
LEMMA InvInit == Init => IInv
<1> SUFFICES ASSUME Init PROVE IInv
  OBVIOUS
<1>1. TypeOK
  BY TypeInit
<1>2. TaskRefs /\ TargetKept
  BY DEF Init, TaskRefs, TargetKept, Idle, NoReqRow
<1>3. Issued = {} /\ Granted = {}
  BY DEF Init, Issued, Granted, NoCodeRow, NoGrantRow
<1>4. RowRefs
  BY <1>3 DEF Init, RowRefs, NoReqRow
<1>5. ReservedForCurrent
  BY DEF Init, ReservedForCurrent, NoEnrRow
<1>6. SentCodeKeepsReservation
  BY DEF Init, SentCodeKeepsReservation, NoCodeRow
<1>7. NoTokenUnminted /\ RevokedGrantIsDead /\ OneLiveRefreshToken
  BY DEF Init, NoTokenUnminted, RevokedGrantIsDead, OneLiveRefreshToken, LiveRefresh, NoPairRow
<1>8. LiveGrantHasConnection
  BY DEF Init, LiveGrantHasConnection, NoGrantRow
<1> QED
  BY <1>1, <1>2, <1>3, <1>4, <1>5, <1>6, <1>7, <1>8
  DEF IInv, Refs, TargetIsRespected, GrantConsumes, OneGrantPerIssue, CodeDiesWithItsIssue,
      OneOutcomePerRequest

\* Every step keeps the invariant.
LEMMA InvStep == IInv /\ [Next]_vars => IInv'
<1> SUFFICES ASSUME IInv, [Next]_vars PROVE IInv'
  OBVIOUS
<1>1. Refs /\ Tokens
  BY DEF IInv, Tokens
<1>2. Refs'
  BY <1>1, TypeStep, TaskRefsStep, RowRefsStep DEF Refs
<1>3. TargetKept' /\ TargetIsRespected'
  BY <1>1, TargetKeptStep, TargetIsRespectedStep DEF IInv
<1>4. ReservedForCurrent' /\ GrantConsumes'
  BY <1>1, ReservedForCurrentStep, GrantConsumesStep DEF IInv
<1>5. OneGrantPerIssue' /\ CodeDiesWithItsIssue'
  BY <1>1, OneGrantPerIssueStep, CodeDiesStep DEF IInv
<1>6. SentCodeKeepsReservation' /\ OneOutcomePerRequest'
  BY <1>1, SentCodeStep, OneOutcomeStep DEF IInv
<1>7. LiveGrantHasConnection' /\ Tokens'
  BY <1>1, LiveGrantStep, TokensStep DEF IInv
<1> QED BY <1>2, <1>3, <1>4, <1>5, <1>6, <1>7 DEF IInv, Tokens

(***************************************************************************)
(* The inductive invariant holds in every reachable state.                 *)
(***************************************************************************)
THEOREM Invariance == Spec => []IInv
BY InvInit, InvStep, PTL DEF Spec

(***************************************************************************)
(* Every table keeps its type, whatever handlers overlap and wherever the  *)
(* process dies.                                                           *)
(***************************************************************************)
THEOREM TypeCorrect == Spec => []TypeOK
<1>1. IInv => TypeOK
  BY DEF IInv, Refs
<1> QED BY <1>1, Invariance, PTL

(***************************************************************************)
(* One issue of a setup password gives at most one grant                   *)
(* (consumeEnrollment's conditional UPDATE, for any number of overlapping  *)
(* sign-ins, decisions, exchanges and reissues), and none from a code that *)
(* was approved under an earlier issue.                                    *)
(***************************************************************************)
THEOREM SetupPasswordIsSingleUse == Spec => [](OneGrantPerIssue /\ CodeDiesWithItsIssue)
<1>1. IInv => OneGrantPerIssue /\ CodeDiesWithItsIssue
  BY DEF IInv
<1> QED BY <1>1, Invariance, PTL

(***************************************************************************)
(* A code that was sent to a client keeps the setup password reserved for  *)
(* it until it is spent, expires or the password is reissued               *)
(* (reserveEnrollment and the 30 s slack of reserved_until).               *)
(***************************************************************************)
THEOREM ReservationIsKept == Spec => []SentCodeKeepsReservation
<1>1. IInv => SentCodeKeepsReservation
  BY DEF IInv
<1> QED BY <1>1, Invariance, PTL

(***************************************************************************)
(* A consent page has one outcome (completeRequest's conditional UPDATE)   *)
(* and its code is for the connection the page was opened for.             *)
(***************************************************************************)
THEOREM ConsentIsUnambiguous == Spec => [](OneOutcomePerRequest /\ TargetIsRespected)
<1>1. IInv => OneOutcomePerRequest /\ TargetIsRespected
  BY DEF IInv
<1> QED BY <1>1, Invariance, PTL

(***************************************************************************)
(* A request opened for one connection's URL authorizes no other           *)
(* (enrollmentProblem compares the two).                                   *)
(***************************************************************************)
THEOREM TargetIsKept == Spec => []TargetIsRespected
<1> QED BY ConsentIsUnambiguous, PTL

(***************************************************************************)
(* A grant is backed by the issue of the setup password its code was       *)
(* approved under (consumeEnrollment's conditional UPDATE).                *)
(***************************************************************************)
THEOREM CodeFollowsItsIssue == Spec => []CodeDiesWithItsIssue
<1>1. IInv => CodeDiesWithItsIssue
  BY DEF IInv
<1> QED BY <1>1, Invariance, PTL

(***************************************************************************)
(* Revoking a grant kills its tokens and rotation leaves one refresh token *)
(* live, also when exchangeCode or refresh was cut short.                  *)
(***************************************************************************)
THEOREM TokensFollowTheirGrant == Spec => [](RevokedGrantIsDead /\ OneLiveRefreshToken)
<1>1. IInv => RevokedGrantIsDead /\ OneLiveRefreshToken
  BY DEF IInv
<1> QED BY <1>1, Invariance, PTL

(***************************************************************************)
(* Of the pairs of one grant at most one refresh token is live (refresh    *)
(* marks the old one used before it mints).                                *)
(***************************************************************************)
THEOREM RefreshTokenIsUnique == Spec => []OneLiveRefreshToken
<1> QED BY TokensFollowTheirGrant, PTL

(***************************************************************************)
(* A revoked or deleted connection has no live grant and no accepted token *)
(* (revokeConnectionInternal against every handler that waits meanwhile).  *)
(***************************************************************************)
THEOREM RevocationIsFinal == Spec => []RevokedConnectionIsDead
<1>1. IInv => RevokedConnectionIsDead
  <2> SUFFICES ASSUME IInv, NEW c \in Conns, conn[c].st \in {"revoked", "deleted"}
               PROVE  /\ GrantsOf(c) = {}
                      /\ \A p \in Pairs : Accepts(p) => grant[pair[p].grant].conn # c
    BY DEF RevokedConnectionIsDead
  <2>1. GrantsOf(c) = {}
    BY DEF IInv, LiveGrantHasConnection, GrantsOf
  <2>2. ASSUME NEW p \in Pairs, Accepts(p) PROVE grant[pair[p].grant].conn # c
    BY <2>2 DEF Accepts, Usable
  <2> QED BY <2>1, <2>2
<1> QED BY <1>1, Invariance, PTL

(***************************************************************************)
(* A locked setup credential is given no code (decide reads the enrollment *)
(* again after its await).                                                 *)
(***************************************************************************)
THEOREM LockIsRespected == Spec => NoCodeWhileLocked
<1> DEFINE A == \A e \in Enrs : enr[e].locked /\ enr'[e].locked => enr'[e].res = enr[e].res
<1>1. IInv /\ [Next]_vars => [A]_vars
  <2> SUFFICES ASSUME IInv, [Next]_vars, NEW e \in Enrs, enr[e].locked, enr'[e].locked
               PROVE  enr'[e].res = enr[e].res
    OBVIOUS
  <2> QED BY EnrStep DEF IInv, EnrRowStep
<1> QED BY <1>1, Invariance, PTL DEF Spec, NoCodeWhileLocked

-----------------------------------------------------------------------------
(***************************************************************************)
(* How far the lock can be overrun                                         *)
(***************************************************************************)

\* The sign-ins with e that wait for their hash and whose failure will count.
Guessers(e) ==
  {t \in Tasks : /\ task[t].op = "verify" /\ task[t].enr = e
                 /\ ~(task[t].snap.locked \/ task[t].snap.consumed \/ task[t].snap.revoked)}

\* Past the limit the credential is locked, and what is counted and may still
\* be counted stays below the bound.
LockInv ==
  \A e \in Enrs : enr[e].failed >= MaxFailed =>
    enr[e].locked /\ enr[e].failed + Cardinality(Guessers(e)) < MaxFailed + Cardinality(Tasks)

\* The counter of e and its lock stay as they are, or both begin anew.
CountKept(e) ==
  \/ enr'[e].failed = enr[e].failed /\ enr'[e].locked = enr[e].locked
  \/ enr'[e].failed = 0

\* Only a wrong password moves the counter or the lock of an issue.
LEMMA CountStep ==
  ASSUME Refs, [Next]_vars, NEW x \in Enrs, \A t \in Tasks : ~LoginFailed(t)
  PROVE  CountKept(x)
<1>0. enr \in [Enrs -> EnrRow] /\ enr[x] \in EnrRow
  BY DEF Refs, TypeOK
<1>1. CASE UNCHANGED enr
  BY <1>1 DEF CountKept
<1>2. ASSUME NEW t \in Tasks, NEW e \in Enrs, IssueEnrollment(t, e) PROVE CountKept(x)
  <2>1. CASE enr' = enr
    BY <2>1 DEF CountKept
  <2>2. CASE enr' = [EnrollmentsRevoked(task[t].conn) EXCEPT
                       ![e] = [NoEnrRow EXCEPT !.st = "issued", !.conn = task[t].conn, !.gen = 1]]
    <3>1. CASE x = e
      BY <1>0, <2>2, <3>1 DEF CountKept, EnrollmentsRevoked, NoEnrRow
    <3>2. CASE x # e
      <4>1. enr'[x] = enr[x] \/ enr'[x] = [enr[x] EXCEPT !.revoked = TRUE]
        BY <2>2, <3>2 DEF EnrollmentsRevoked
      <4> QED BY <1>0, <4>1 DEF CountKept, EnrRow
    <3> QED BY <3>1, <3>2
  <2> QED BY <1>2, <2>1, <2>2 DEF IssueEnrollment
<1>3. ASSUME NEW t \in Tasks, ResetEnrollment(t) PROVE CountKept(x)
  <2>1. CASE enr'[x] = enr[x]
    BY <2>1 DEF CountKept
  <2>2. CASE enr'[x] = [NoEnrRow EXCEPT !.st = "issued", !.conn = task[t].conn, !.gen = enr[x].gen + 1]
    BY <2>2 DEF CountKept, NoEnrRow
  <2> QED BY <1>0, <1>3, <2>1, <2>2 DEF ResetEnrollment
<1>5. ASSUME NEW c \in Conns, enr' = EnrollmentsRevoked(c) PROVE CountKept(x)
  <2>1. enr'[x] = enr[x] \/ enr'[x] = [enr[x] EXCEPT !.revoked = TRUE]
    BY <1>5 DEF EnrollmentsRevoked
  <2> QED BY <1>0, <2>1 DEF CountKept, EnrRow
<1>6. ASSUME NEW e, NEW k, enr' = Reserved(e, k) PROVE CountKept(x)
  <2>1. enr'[x] = enr[x] \/ enr'[x] = [enr[x] EXCEPT !.res = k, !.held = TRUE]
    BY <1>0, <1>6 DEF Reserved
  <2> QED BY <1>0, <2>1 DEF CountKept, EnrRow
<1>7. ASSUME NEW e, enr' = Consumed(e) PROVE CountKept(x)
  <2>1. enr'[x] = enr[x] \/ enr'[x] = [enr[x] EXCEPT !.consumed = TRUE, !.held = FALSE]
    BY <1>0, <1>7 DEF Consumed
  <2> QED BY <1>0, <2>1 DEF CountKept, EnrRow
<1>8. ASSUME NEW e \in Enrs, LapseReservation(e) \/ ExpireEnrollment(e) PROVE CountKept(x)
  <2>1. \/ enr'[x] = enr[x] \/ enr'[x] = [enr[x] EXCEPT !.held = FALSE]
        \/ enr'[x] = [enr[x] EXCEPT !.expired = TRUE]
    BY <1>0, <1>8 DEF LapseReservation, ExpireEnrollment
  <2> QED BY <1>0, <2>1 DEF CountKept, EnrRow
<1> QED
  BY <1>1, <1>2, <1>3, <1>5, <1>6, <1>7, <1>8
  DEF Next, vars, Postmaster, Browser, Client, Clock, Death, Create, Reissue, Rotate, Disable, Enable,
      Invalidate, RevokeConnection, DeleteConnection, Withdraw, RevokeGrant, StartRequest, Login,
      LoginLookup, LoginSucceeded, Decide, Deny, Refused, Approve, ApproveCut, ReplayCode,
      ExchangeRefused, ExchangeUnusable, ExchangeCode, ExchangeCut,
      ReplayRefresh, Refresh, RefreshCut, RevokeRefreshToken, RevokeAccessToken,
      ExpireRequest, ExpireCode, ExpireToken, Crash

\* Nobody who begins to wait while e is locked will count.
LEMMA NoNewGuesser ==
  ASSUME Refs, [Next]_vars, NEW e \in Enrs, enr[e].locked
  PROVE  Guessers(e)' \subseteq Guessers(e)
<1> SUFFICES ASSUME NEW t \in Tasks, task'[t].op = "verify", task'[t].enr = e,
                    ~(task'[t].snap.locked \/ task'[t].snap.consumed \/ task'[t].snap.revoked)
             PROVE  t \in Guessers(e)
  BY DEF Guessers
<1>1. task[t] \in TaskState
  BY DEF Refs, TypeOK
<1>2. CASE task'[t] = task[t]
  BY <1>2 DEF Guessers
<1>3. CASE task'[t] = Idle
  BY <1>3 DEF Idle
<1>4. ASSUME NEW c \in Conns,
             \/ task'[t] = [Idle EXCEPT !.op = "issue", !.conn = c]
             \/ task'[t] = [Idle EXCEPT !.op = "reissue", !.conn = c, !.enr = latest[c]]
      PROVE  task'[t].op \in {"issue", "reissue"}
  BY <1>4 DEF Idle
<1>5. ASSUME NEW r \in Reqs,
             \/ task'[t] = [Idle EXCEPT !.op = "login", !.req = r, !.conn = req[r].conn]
             \/ task'[t] = [Idle EXCEPT !.op = "decide", !.req = r, !.conn = req[r].conn,
                                        !.enr = req[r].enr, !.gen = req[r].gen]
      PROVE  task'[t].op \in {"login", "decide"}
  BY <1>5 DEF Idle
<1>6. ASSUME NEW x \in Enrs, task'[t] = [task[t] EXCEPT !.op = "verify", !.enr = x, !.snap = enr[x]]
      PROVE  FALSE
  BY <1>1, <1>6 DEF TaskState
<1> QED BY TaskStep, <1>2, <1>3, <1>4, <1>5, <1>6 DEF TaskChange

LEMMA LockStep ==
  ASSUME Refs, LockInv, [Next]_vars
  PROVE  LockInv'
<1> SUFFICES ASSUME NEW e \in Enrs, enr'[e].failed >= MaxFailed
             PROVE  /\ enr'[e].locked
                    /\ enr'[e].failed + Cardinality(Guessers(e)') < MaxFailed + Cardinality(Tasks)
  BY DEF LockInv, Guessers
<1>0. /\ enr[e].failed \in Nat /\ MaxFailed \in Nat /\ MaxFailed # 0 /\ enr[e] \in EnrRow
      /\ task \in [Tasks -> TaskState]
  BY BoundAssumption DEF Refs, TypeOK, EnrRow
<1>1. /\ IsFiniteSet(Tasks) /\ Cardinality(Tasks) \in Nat
      /\ IsFiniteSet(Guessers(e)) /\ Cardinality(Guessers(e)) \in Nat
  BY FiniteAssumption, FS_Subset, FS_CardinalityType DEF Guessers
<1>2. ASSUME enr[e].locked
      PROVE  Cardinality(Guessers(e)') \in Nat /\ Cardinality(Guessers(e)') <= Cardinality(Guessers(e))
  BY <1>1, <1>2, NoNewGuesser, FS_Subset, FS_CardinalityType
<1>3. CASE CountKept(e)
  <2>1. enr'[e].failed = enr[e].failed /\ enr'[e].locked = enr[e].locked
    BY <1>0, <1>3 DEF CountKept
  <2>2. enr[e].locked /\ enr[e].failed + Cardinality(Guessers(e)) < MaxFailed + Cardinality(Tasks)
    BY <2>1 DEF LockInv
  <2>3. Cardinality(Guessers(e)') \in Nat /\ Cardinality(Guessers(e)') <= Cardinality(Guessers(e))
    BY <1>2, <2>2
  <2> QED BY <1>0, <1>1, <2>1, <2>2, <2>3
<1>4. ASSUME NEW t \in Tasks, LoginFailed(t), ~CountKept(e)
      PROVE  /\ enr'[e].locked
             /\ enr'[e].failed + Cardinality(Guessers(e)') < MaxFailed + Cardinality(Tasks)
  <2>1. task[t].op = "verify" /\ task[t].enr = e /\ enr'[e] = FailedAttemptRecorded(enr[e])
        /\ ~(task[t].snap.locked \/ task[t].snap.consumed \/ task[t].snap.revoked)
    BY <1>4 DEF LoginFailed, CountKept, Refs, TypeOK
  <2>2. /\ enr'[e].failed = enr[e].failed + 1
        /\ enr'[e].locked = (enr[e].locked \/ enr[e].failed + 1 >= MaxFailed)
    BY <1>0, <2>1 DEF FailedAttemptRecorded, EnrRow
  <2>3. t \in Guessers(e)
    BY <2>1 DEF Guessers
  <2>4. Guessers(e)' \subseteq Guessers(e) \ {t}
    <3>1. task' = [task EXCEPT ![t] = Idle] /\ Idle.op # "verify"
      BY <1>4 DEF LoginFailed, Finish, Idle
    <3> QED BY <1>0, <3>1 DEF Guessers
  <2>5. /\ IsFiniteSet(Guessers(e) \ {t})
        /\ Cardinality(Guessers(e) \ {t}) = Cardinality(Guessers(e)) - 1
    BY <1>1, <2>3, FS_RemoveElement
  <2>6. Cardinality(Guessers(e)') \in Nat /\ Cardinality(Guessers(e)') <= Cardinality(Guessers(e)) - 1
    BY <2>4, <2>5, FS_Subset, FS_CardinalityType
  <2>7. Cardinality(Guessers(e)) <= Cardinality(Tasks)
    <3>1. Guessers(e) \subseteq Tasks
      BY DEF Guessers
    <3> QED BY <1>1, <3>1, FS_Subset
  <2>8. enr'[e].locked
    BY <1>0, <2>2
  <2>9. CASE enr[e].failed >= MaxFailed
    <3>1. enr[e].failed + Cardinality(Guessers(e)) < MaxFailed + Cardinality(Tasks)
      BY <2>9 DEF LockInv
    <3> QED BY <1>0, <1>1, <2>2, <2>6, <2>8, <3>1
  <2>10. CASE ~(enr[e].failed >= MaxFailed)
    <3>1. enr'[e].failed = MaxFailed
      BY <1>0, <2>2, <2>10
    <3> QED BY <1>0, <1>1, <2>6, <2>7, <2>8, <3>1
  <2> QED BY <2>9, <2>10
<1> QED BY <1>3, <1>4, CountStep

(***************************************************************************)
(* The lock at MaxFailed wrong passwords (recordFailedAttempt) is overrun  *)
(* by less than the number of requests served at a time: only sign-ins     *)
(* that were waiting for their hash when it fell still count.              *)
(***************************************************************************)
THEOREM GuessesAreBounded == Spec => []LockBoundsGuesses
<1> DEFINE I == IInv /\ LockInv
<1>1. Init => LockInv
  <2> SUFFICES ASSUME Init, NEW e \in Enrs PROVE ~(enr[e].failed >= MaxFailed)
    BY DEF LockInv
  <2>1. enr[e].failed = 0
    BY DEF Init, NoEnrRow
  <2> QED BY <2>1, BoundAssumption
<1>2. Init => I
  BY <1>1, InvInit
<1>3. I /\ [Next]_vars => I'
  BY InvStep, LockStep DEF IInv
<1>4. I => LockBoundsGuesses
  <2> SUFFICES ASSUME I, NEW e \in Enrs PROVE enr[e].failed < MaxFailed + Cardinality(Tasks)
    BY DEF LockBoundsGuesses
  <2>1. enr[e].failed \in Nat /\ MaxFailed \in Nat /\ Cardinality(Tasks) \in Nat
        /\ Cardinality(Guessers(e)) \in Nat
    BY BoundAssumption, FiniteAssumption, FS_Subset, FS_CardinalityType
       DEF IInv, Refs, TypeOK, EnrRow, Guessers
  <2>2. enr[e].failed >= MaxFailed =>
          enr[e].failed + Cardinality(Guessers(e)) < MaxFailed + Cardinality(Tasks)
    BY DEF LockInv
  <2> QED BY <2>1, <2>2
<1> QED BY <1>2, <1>3, <1>4, PTL DEF Spec
=============================================================================
