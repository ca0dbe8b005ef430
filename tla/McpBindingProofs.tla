-------------------------- MODULE McpBindingProofs --------------------------
(***************************************************************************)
(* Proofs about McpBinding, for every number of bindings, connections,     *)
(* handlers and passwords.                                                 *)
(*                                                                         *)
(* The invariant adds to the two properties what rows and handlers refer   *)
(* to: a connection's binding exists, a connection with grants is enabled, *)
(* a handler past its first await holds a binding that exists.  The bound  *)
(* on the connections counts the creates that are past the limit's check.  *)
(***************************************************************************)
EXTENDS McpBinding, FiniteSetTheorems, TLAPS

\* Where a handler is past its first await
Waiting == {"verify", "ok", "failed", "rejected"}

\* A connection's binding exists.
ConnRefs ==
  \A c \in Conns :
    /\ conn[c].st # "none" => conn[c].b \in Bindings /\ binding[conn[c].b].st # "none"
    /\ conn[c].grant # 0 => conn[c].st = "enabled"

\* What a handler holds exists.
TaskRefs ==
  \A t \in Tasks :
    /\ task[t].at \in Waiting => task[t].b \in Bindings /\ binding[task[t].b].st # "none"
    /\ task[t].op = "update" => task[t].c \in Conns

IInv == TypeOK /\ ConnRefs /\ TaskRefs /\ GrantsFollowIdentity /\ OneLiveBinding

\* A step keeps the rows in their types and the invariant's parts about them.
RowsKept ==
  /\ binding' \in [Bindings -> BindingRow]
  /\ conn' \in [Conns -> ConnRow]
  /\ ConnRefs' /\ GrantsFollowIdentity' /\ OneLiveBinding'
  /\ \A x \in Bindings : binding[x].st # "none" => binding'[x].st # "none"

-----------------------------------------------------------------------------
(***************************************************************************)
(* What the updates of a row come to                                       *)
(***************************************************************************)

\* Zero is an identity.
LEMMA ZeroId == 0 \in Ids
BY BoundAssumption DEF Ids

\* The rows that stand for "no row", and an idle handler, have their types.
LEMMA NullRows == NoRow \in BindingRow /\ NoConnRow \in ConnRow /\ Idle \in TaskState
<1>1. NoRow \in BindingRow
  BY ZeroId DEF NoRow, BindingRow
<1>2. NoConnRow \in ConnRow
  BY ZeroId DEF NoConnRow, ConnRow
<1>3. Idle \in TaskState
  BY ZeroId DEF Idle, TaskState
<1> QED BY <1>1, <1>2, <1>3

\* The fields of a binding have their types.
LEMMA RowFields ==
  ASSUME NEW x \in BindingRow
  PROVE  /\ x.st \in {"none", "active", "stale", "invalid", "mailbox_missing", "revoked"}
         /\ x.fp \in Ids /\ x.gone \in BOOLEAN /\ x.cred \in Ids
BY DEF BindingRow

\* A binding with another state
LEMMA RowState ==
  ASSUME NEW x \in BindingRow,
         NEW s \in {"none", "active", "stale", "invalid", "mailbox_missing", "revoked"}
  PROVE  LET r == [x EXCEPT !.st = s] IN
         r \in BindingRow /\ r.st = s /\ r.fp = x.fp /\ r.gone = x.gone /\ r.cred = x.cred
<1> DEFINE r == [x EXCEPT !.st = s]
<1>1. r \in BindingRow
  BY DEF BindingRow
<1>2. r.st = s /\ r.fp = x.fp /\ r.gone = x.gone /\ r.cred = x.cred
  BY DEF BindingRow
<1> QED BY <1>1, <1>2

\* A binding with another stored password
LEMMA RowCred ==
  ASSUME NEW x \in BindingRow, NEW i \in Ids
  PROVE  LET r == [x EXCEPT !.cred = i] IN
         r \in BindingRow /\ r.st = x.st /\ r.fp = x.fp /\ r.gone = x.gone /\ r.cred = i
<1> DEFINE r == [x EXCEPT !.cred = i]
<1>1. r \in BindingRow
  BY DEF BindingRow
<1>2. r.st = x.st /\ r.fp = x.fp /\ r.gone = x.gone /\ r.cred = i
  BY DEF BindingRow
<1> QED BY <1>1, <1>2

\* A binding that was invalidated
LEMMA RowInvalid ==
  ASSUME NEW x \in BindingRow,
         NEW s \in {"none", "active", "stale", "invalid", "mailbox_missing", "revoked"}
  PROVE  LET r == [x EXCEPT !.st = s, !.cred = 0] IN
         r \in BindingRow /\ r.st = s /\ r.fp = x.fp /\ r.gone = x.gone
<1> DEFINE r == [x EXCEPT !.st = s, !.cred = 0]
<1>1. r \in BindingRow
  BY ZeroId DEF BindingRow
<1>2. r.st = s /\ r.fp = x.fp /\ r.gone = x.gone
  BY DEF BindingRow
<1> QED BY <1>1, <1>2

\* A binding anchored to another identity
LEMMA RowAnchored ==
  ASSUME NEW x \in BindingRow, NEW i \in Ids
  PROVE  LET r == [x EXCEPT !.st = "active", !.fp = i, !.cred = 0] IN
         r \in BindingRow /\ r.st = "active" /\ r.fp = i /\ r.gone = x.gone
<1> DEFINE r == [x EXCEPT !.st = "active", !.fp = i, !.cred = 0]
<1>1. r \in BindingRow
  BY ZeroId DEF BindingRow
<1>2. r.st = "active" /\ r.fp = i /\ r.gone = x.gone
  BY DEF BindingRow
<1> QED BY <1>1, <1>2

\* A new binding
LEMMA RowNew ==
  ASSUME NEW i \in Ids
  PROVE  LET r == [NoRow EXCEPT !.st = "active", !.fp = i] IN
         r \in BindingRow /\ r.st = "active" /\ r.fp = i /\ r.gone = FALSE
<1>1. ASSUME NEW x \in BindingRow
      PROVE  [x EXCEPT !.st = "active", !.fp = i] \in BindingRow
  BY DEF BindingRow
<1>2. ASSUME NEW x \in BindingRow
      PROVE  LET r == [x EXCEPT !.st = "active", !.fp = i] IN
             r.st = "active" /\ r.fp = i /\ r.gone = x.gone
  BY DEF BindingRow
<1>3. NoRow.gone = FALSE
  BY DEF NoRow
<1> QED BY <1>1, <1>2, <1>3, NullRows

\* The binding of a deleted mailbox
LEMMA RowDeleted ==
  ASSUME NEW x \in BindingRow
  PROVE  LET r == [x EXCEPT !.st = "revoked", !.gone = TRUE, !.cred = 0] IN
         r \in BindingRow /\ r.st = "revoked" /\ r.gone = TRUE
<1> DEFINE r == [x EXCEPT !.st = "revoked", !.gone = TRUE, !.cred = 0]
<1>1. r \in BindingRow
  BY ZeroId DEF BindingRow
<1>2. r.st = "revoked" /\ r.gone = TRUE
  BY DEF BindingRow
<1> QED BY <1>1, <1>2

\* The fields of a connection have their types.
LEMMA ConnFields ==
  ASSUME NEW x \in ConnRow
  PROVE  x.b \in Bindings \cup {NoBinding} /\ x.grant \in Ids
BY DEF ConnRow

\* A connection with other grants, or none
LEMMA ConnGrant ==
  ASSUME NEW x \in ConnRow, NEW i \in Ids
  PROVE  LET r == [x EXCEPT !.grant = i] IN
         r \in ConnRow /\ r.st = x.st /\ r.b = x.b /\ r.grant = i
<1> DEFINE r == [x EXCEPT !.grant = i]
<1>1. r \in ConnRow
  BY DEF ConnRow
<1>2. r.st = x.st /\ r.b = x.b /\ r.grant = i
  BY DEF ConnRow
<1> QED BY <1>1, <1>2

\* A connection that was revoked
LEMMA ConnRevoked ==
  ASSUME NEW x \in ConnRow
  PROVE  LET r == [x EXCEPT !.st = "revoked", !.grant = 0] IN
         r \in ConnRow /\ r.st = "revoked" /\ r.b = x.b /\ r.grant = 0
<1> DEFINE r == [x EXCEPT !.st = "revoked", !.grant = 0]
<1>1. r \in ConnRow
  BY ZeroId DEF ConnRow
<1>2. r.st = "revoked" /\ r.b = x.b /\ r.grant = 0
  BY DEF ConnRow
<1> QED BY <1>1, <1>2

\* A new connection
LEMMA ConnNew ==
  ASSUME NEW b \in Bindings
  PROVE  LET r == [NoConnRow EXCEPT !.st = "enabled", !.b = b] IN
         r \in ConnRow /\ r.st = "enabled" /\ r.b = b /\ r.grant = 0
<1>1. ASSUME NEW x \in ConnRow
      PROVE  [x EXCEPT !.st = "enabled", !.b = b] \in ConnRow
  BY DEF ConnRow
<1>2. ASSUME NEW x \in ConnRow
      PROVE  LET r == [x EXCEPT !.st = "enabled", !.b = b] IN
             r.st = "enabled" /\ r.b = b /\ r.grant = x.grant
  BY DEF ConnRow
<1>3. NoConnRow.grant = 0
  BY DEF NoConnRow
<1> QED BY <1>1, <1>2, <1>3, NullRows

\* revokeAllGrantsForConnection takes the grants of b's connections, and nothing else.
LEMMA GrantsRevokedFields ==
  ASSUME TypeOK, NEW b \in Bindings
  PROVE  /\ GrantsRevoked(b) \in [Conns -> ConnRow]
         /\ \A c \in Conns :
              /\ GrantsRevoked(b)[c].st = conn[c].st
              /\ GrantsRevoked(b)[c].b = conn[c].b
              /\ GrantsRevoked(b)[c].grant = IF conn[c].b = b THEN 0 ELSE conn[c].grant
<1>1. \A c \in Conns : conn[c] \in ConnRow
  BY DEF TypeOK
<1>2. \A c \in Conns :
        GrantsRevoked(b)[c] = IF conn[c].b = b THEN [conn[c] EXCEPT !.grant = 0] ELSE conn[c]
  BY DEF GrantsRevoked
<1>3. ASSUME NEW c \in Conns
      PROVE  /\ GrantsRevoked(b)[c] \in ConnRow
             /\ GrantsRevoked(b)[c].st = conn[c].st
             /\ GrantsRevoked(b)[c].b = conn[c].b
             /\ GrantsRevoked(b)[c].grant = IF conn[c].b = b THEN 0 ELSE conn[c].grant
  <2> DEFINE x == conn[c]
  <2>1. x \in ConnRow /\ GrantsRevoked(b)[c] = IF x.b = b THEN [x EXCEPT !.grant = 0] ELSE x
    BY <1>1, <1>2
  <2> HIDE DEF x
  <2>2. CASE x.b = b
    BY <2>1, <2>2, ConnGrant, ZeroId DEF x
  <2>3. CASE x.b # b
    BY <2>1, <2>3 DEF x
  <2> QED BY <2>2, <2>3
<1> QED BY <1>3 DEF GrantsRevoked

\* resolveBinding: the row exists, is anchored to fp, and was not deleted unless it was before.
LEMMA ResolvedFields ==
  ASSUME TypeOK, NEW b \in Bindings, NEW fp \in Ids
  PROVE  LET r == Resolved(b, fp) IN
         /\ r \in BindingRow
         /\ r.st # "none" /\ r.fp = fp
         /\ binding[b].st # "none" => r.gone = binding[b].gone
         /\ binding[b].st # "none" /\ binding[b].fp = fp => r.st \in {"active", binding[b].st}
<1> DEFINE r == Resolved(b, fp)
<1> DEFINE x == binding[b]
<1>0. x \in BindingRow
  BY DEF TypeOK
<1>1. CASE binding[b].st = "none"
  <2>1. r = [NoRow EXCEPT !.st = "active", !.fp = fp]
    BY <1>1 DEF Resolved
  <2> QED BY <2>1, <1>1, RowNew
<1>2. CASE binding[b].st # "none" /\ binding[b].fp # fp
  <2>1. r = [x EXCEPT !.st = "active", !.fp = fp, !.cred = 0]
    BY <1>2 DEF Resolved
  <2> HIDE DEF x, r
  <2>2. r \in BindingRow /\ r.st = "active" /\ r.fp = fp /\ r.gone = x.gone
    BY <2>1, <1>0, RowAnchored
  <2> QED BY <2>2 DEF x, r
<1>3. CASE binding[b].st = "mailbox_missing" /\ binding[b].fp = fp
  <2>1. r = [x EXCEPT !.st = "active"]
    BY <1>3 DEF Resolved
  <2>2. x.fp = fp
    BY <1>3
  <2> HIDE DEF x, r
  <2>3. r \in BindingRow /\ r.st = "active" /\ r.fp = x.fp /\ r.gone = x.gone
    BY <2>1, <1>0, RowState
  <2> QED BY <2>2, <2>3 DEF x, r
<1>4. CASE binding[b].st \notin {"none", "mailbox_missing"} /\ binding[b].fp = fp
  <2>1. r = binding[b]
    BY <1>4 DEF Resolved
  <2> QED BY <2>1, <1>0, <1>4
<1> QED BY <1>1, <1>2, <1>3, <1>4

-----------------------------------------------------------------------------
(***************************************************************************)
(* The rows: every step that changes a binding changes one                 *)
(***************************************************************************)

(***************************************************************************)
(* Row b becomes r, and the connections keep their bindings.  The parts    *)
(* about rows are kept when a new row is made only where none is live,     *)
(* a deleted row stays deleted, and a connection of b keeps its grants     *)
(* only if b keeps its identity and is neither stale nor invalid.          *)
(***************************************************************************)
RowMoves(b, r) ==
  /\ binding' = [binding EXCEPT ![b] = r]
  /\ r.st # "none"
  /\ binding[b].st = "none" => Live = {}
  /\ binding[b].st # "none" => (binding[b].gone => r.gone)
  /\ conn' \in [Conns -> ConnRow]
  /\ \A c \in Conns : conn'[c].st # "none" =>
       conn'[c].b = b \/ (conn[c].st # "none" /\ conn'[c].b = conn[c].b)
  /\ \A c \in Conns : conn'[c].grant # 0 =>
       /\ conn'[c].st = "enabled" /\ conn'[c].b = conn[c].b
       /\ conn'[c].grant = conn[c].grant
       /\ conn[c].b = b /\ binding[b].st # "none" =>
            r.fp = binding[b].fp /\ r.st \notin {"stale", "invalid"}

\* Such a step keeps the parts of the invariant about rows.
LEMMA RowStep ==
  ASSUME IInv, NEW b \in Bindings, NEW r \in BindingRow, RowMoves(b, r)
  PROVE  RowsKept
<1> USE DEF IInv, RowMoves
<1>1. binding' \in [Bindings -> BindingRow]
  BY DEF TypeOK
<1>2. \A x \in Bindings : binding'[x] = IF x = b THEN r ELSE binding[x]
  BY DEF TypeOK
<1>3. \A x \in Bindings : binding[x].st # "none" => binding'[x].st # "none"
  BY <1>2
<1>4. ConnRefs'
  <2>1. ASSUME NEW c \in Conns, conn'[c].st # "none"
        PROVE  conn'[c].b \in Bindings /\ binding'[conn'[c].b].st # "none"
    BY <2>1, <1>2 DEF ConnRefs
  <2> QED BY <2>1 DEF ConnRefs
<1>5. GrantsFollowIdentity'
  <2>1. ASSUME NEW c \in Conns, conn'[c].grant # 0
        PROVE  /\ conn'[c].grant = binding'[conn'[c].b].fp
               /\ binding'[conn'[c].b].st \notin {"stale", "invalid"}
    <3>1. /\ conn[c].grant # 0 /\ conn[c].st = "enabled"
          /\ conn[c].b \in Bindings /\ binding[conn[c].b].st # "none"
      BY <2>1 DEF ConnRefs
    <3>2. /\ conn[c].grant = binding[conn[c].b].fp
          /\ binding[conn[c].b].st \notin {"stale", "invalid"}
      BY <3>1 DEF GrantsFollowIdentity
    <3> QED BY <2>1, <3>1, <3>2, <1>2
  <2> QED BY <2>1 DEF GrantsFollowIdentity
<1>6. OneLiveBinding'
  <2>1. Live' \subseteq Live \/ Live' \subseteq {b}
    BY <1>2 DEF Live
  <2> QED BY <2>1 DEF OneLiveBinding
<1> QED BY <1>1, <1>3, <1>4, <1>5, <1>6 DEF RowsKept

\* No row changes.
LEMMA NoRowStep ==
  ASSUME IInv, UNCHANGED <<binding, conn>>
  PROVE  RowsKept
BY DEF IInv, RowsKept, TypeOK, ConnRefs, GrantsFollowIdentity, OneLiveBinding, Live

\* Only the connections change: their grants are given on what Usable reads, or taken.
LEMMA ConnStep ==
  ASSUME IInv, UNCHANGED binding, NEW c \in Conns, Authorize(c) \/ RevokeConnection(c)
  PROVE  RowsKept
<1> USE DEF IInv
<1>0. conn[c] \in ConnRow
  BY DEF TypeOK
<1>1. CASE Authorize(c)
  <2>1. /\ conn[c].st = "enabled" /\ conn[c].b \in Bindings
        /\ binding[conn[c].b].st = "active"
    BY <1>1 DEF Authorize, Usable, Healthy
  <2>2. binding[conn[c].b].fp \in Ids
    BY <2>1, RowFields DEF TypeOK
  <2> DEFINE i == binding[conn[c].b].fp
  <2>3. conn' = [conn EXCEPT ![c] = [conn[c] EXCEPT !.grant = i]]
    BY <1>1 DEF Authorize
  <2> HIDE DEF i
  <2>4. /\ conn' \in [Conns -> ConnRow]
        /\ \A d \in Conns \ {c} : conn'[d] = conn[d]
        /\ conn'[c].st = "enabled" /\ conn'[c].b = conn[c].b /\ conn'[c].grant = i
    BY <2>1, <2>2, <2>3, <1>0, ConnGrant DEF TypeOK, i
  <2>5. ConnRefs'
    BY <2>1, <2>4 DEF ConnRefs
  <2>6. GrantsFollowIdentity'
    BY <2>1, <2>4 DEF GrantsFollowIdentity, i
  <2> QED BY <2>4, <2>5, <2>6 DEF RowsKept, TypeOK, OneLiveBinding, Live
<1>2. CASE RevokeConnection(c)
  <2>1. conn[c].st = "enabled" /\ conn' = [conn EXCEPT ![c] = [conn[c] EXCEPT !.st = "revoked", !.grant = 0]]
    BY <1>2 DEF RevokeConnection
  <2>2. /\ conn' \in [Conns -> ConnRow]
        /\ \A d \in Conns \ {c} : conn'[d] = conn[d]
        /\ conn'[c].st = "revoked" /\ conn'[c].b = conn[c].b /\ conn'[c].grant = 0
    BY <2>1, <1>0, ConnRevoked DEF TypeOK
  <2>3. ConnRefs'
    BY <2>1, <2>2 DEF ConnRefs
  <2>4. GrantsFollowIdentity'
    BY <2>2 DEF GrantsFollowIdentity
  <2> QED BY <2>2, <2>3, <2>4 DEF RowsKept, TypeOK, OneLiveBinding, Live
<1> QED BY <1>1, <1>2

\* resolveBinding, with or without a new connection on the binding
LEMMA ResolveStep ==
  ASSUME IInv, NEW b \in Bindings, NEW fp \in Ids, Resolves(b),
         binding' = [binding EXCEPT ![b] = Resolved(b, fp)],
         \/ conn' = ResolvedConns(b, fp)
         \/ \E c \in Conns : conn' = NewConn(ResolvedConns(b, fp), c, b)
  PROVE  RowsKept
<1> DEFINE r == Resolved(b, fp)
           cs == ResolvedConns(b, fp)
<1>0. TypeOK
  BY DEF IInv
<1>1. /\ r \in BindingRow
      /\ r.st # "none" /\ r.fp = fp
      /\ binding[b].st # "none" => r.gone = binding[b].gone
      /\ binding[b].st # "none" /\ binding[b].fp = fp => r.st \in {"active", binding[b].st}
  BY <1>0, ResolvedFields
<1>2. /\ cs \in [Conns -> ConnRow]
      /\ \A c \in Conns :
           /\ cs[c].st = conn[c].st /\ cs[c].b = conn[c].b
           /\ cs[c].grant # 0 =>
                /\ cs[c].grant = conn[c].grant
                /\ conn[c].b = b /\ binding[b].st # "none" => binding[b].fp = fp
  <2>1. CASE binding[b].st # "none" /\ binding[b].fp # fp
    <3>1. cs = GrantsRevoked(b)
      BY <2>1 DEF ResolvedConns
    <3> QED BY <3>1, <1>0, GrantsRevokedFields
  <2>2. CASE ~(binding[b].st # "none" /\ binding[b].fp # fp)
    <3>1. cs = conn
      BY <2>2 DEF ResolvedConns
    <3> QED BY <3>1, <2>2, <1>0 DEF TypeOK
  <2> QED BY <2>1, <2>2
<1>3. binding[b].st = "none" => Live = {}
  BY DEF Resolves, Live
<1>4. binding' = [binding EXCEPT ![b] = r]
  OBVIOUS
<1>5. \/ conn' = cs
      \/ \E c \in Conns : conn' = NewConn(cs, c, b)
  OBVIOUS
<1> HIDE DEF r, cs
<1> DEFINE P == /\ conn' \in [Conns -> ConnRow]
                /\ \A c \in Conns :
                     \/ conn'[c] = cs[c]
                     \/ conn'[c].st = "enabled" /\ conn'[c].b = b /\ conn'[c].grant = 0
<1>6. P
  <2>1. CASE conn' = cs
    BY <2>1, <1>2
  <2>2. ASSUME NEW c \in Conns, conn' = NewConn(cs, c, b)
        PROVE  P
    <3> DEFINE n == [NoConnRow EXCEPT !.st = "enabled", !.b = b]
    <3>1. conn' = [cs EXCEPT ![c] = n]
      BY <2>2 DEF NewConn
    <3>2. n \in ConnRow /\ n.st = "enabled" /\ n.b = b /\ n.grant = 0
      BY ConnNew
    <3> HIDE DEF n
    <3> QED BY <3>1, <3>2, <1>2
  <2> QED BY <1>5, <2>1, <2>2
<1>7. \A c \in Conns : conn'[c].st # "none" =>
        conn'[c].b = b \/ (conn[c].st # "none" /\ conn'[c].b = conn[c].b)
  BY <1>2, <1>6
<1>8. ASSUME NEW c \in Conns, conn'[c].grant # 0
      PROVE  /\ conn'[c].st = "enabled" /\ conn'[c].b = conn[c].b
             /\ conn'[c].grant = conn[c].grant
             /\ conn[c].b = b /\ binding[b].st # "none" =>
                  r.fp = binding[b].fp /\ r.st \notin {"stale", "invalid"}
  <2>1. conn'[c] = cs[c]
    BY <1>6, <1>8
  <2>2. conn[c].grant # 0 /\ conn[c].st = "enabled"
    BY <2>1, <1>2, <1>8 DEF IInv, ConnRefs
  <2>3. binding[conn[c].b].st \notin {"stale", "invalid"}
    BY <2>2 DEF IInv, GrantsFollowIdentity
  <2> QED BY <2>1, <2>2, <2>3, <1>1, <1>2, <1>8
<1>9. RowMoves(b, r)
  BY <1>1, <1>3, <1>4, <1>6, <1>7, <1>8 DEF RowMoves
<1> QED BY <1>1, <1>9, RowStep

\* A row that changes neither its identity nor, unless to active, its state
LEMMA RefreshStep ==
  ASSUME IInv, NEW b \in Bindings, NEW r \in BindingRow,
         binding' = [binding EXCEPT ![b] = r],
         binding[b].st # "none",
         r.st \in {binding[b].st, "active", "mailbox_missing"},
         r.fp = binding[b].fp, r.gone = binding[b].gone,
         \/ conn' = conn
         \/ \E c \in Conns : conn' = NewConn(conn, c, b)
  PROVE  RowsKept
<1> DEFINE P == /\ conn' \in [Conns -> ConnRow]
                /\ \A c \in Conns :
                     \/ conn'[c] = conn[c]
                     \/ conn'[c].st = "enabled" /\ conn'[c].b = b /\ conn'[c].grant = 0
<1>1. P
  <2>1. CASE conn' = conn
    BY <2>1 DEF IInv, TypeOK
  <2>2. ASSUME NEW c \in Conns, conn' = NewConn(conn, c, b)
        PROVE  P
    <3> DEFINE n == [NoConnRow EXCEPT !.st = "enabled", !.b = b]
    <3>1. conn' = [conn EXCEPT ![c] = n]
      BY <2>2 DEF NewConn
    <3>2. n \in ConnRow /\ n.st = "enabled" /\ n.b = b /\ n.grant = 0
      BY ConnNew
    <3> HIDE DEF n
    <3> QED BY <3>1, <3>2 DEF IInv, TypeOK
  <2> QED BY <2>1, <2>2
<1>2. \A c \in Conns : conn'[c].st # "none" =>
        conn'[c].b = b \/ (conn[c].st # "none" /\ conn'[c].b = conn[c].b)
  BY <1>1
<1>3. ASSUME NEW c \in Conns, conn'[c].grant # 0
      PROVE  /\ conn'[c].st = "enabled" /\ conn'[c].b = conn[c].b
             /\ conn'[c].grant = conn[c].grant
             /\ conn[c].b = b /\ binding[b].st # "none" =>
                  r.fp = binding[b].fp /\ r.st \notin {"stale", "invalid"}
  <2>1. conn'[c] = conn[c]
    BY <1>1, <1>3
  <2>2. conn[c].st = "enabled" /\ binding[conn[c].b].st \notin {"stale", "invalid"}
    BY <2>1, <1>3 DEF IInv, ConnRefs, GrantsFollowIdentity
  <2> QED BY <2>1, <2>2
<1>4. RowMoves(b, r)
  BY <1>1, <1>2, <1>3 DEF RowMoves
<1> QED BY <1>4, RowStep

\* invalidateBinding
LEMMA InvalidateStep ==
  ASSUME IInv, NEW b \in Bindings, binding[b].st # "none",
         NEW s \in {"stale", "invalid"}, Invalidate(b, s)
  PROVE  RowsKept
<1> DEFINE x == binding[b]
           r == [x EXCEPT !.st = s, !.cred = 0]
<1>1. TypeOK /\ x \in BindingRow
  BY DEF IInv, TypeOK
<1>2. binding' = [binding EXCEPT ![b] = r] /\ conn' = GrantsRevoked(b)
  BY DEF Invalidate
<1> HIDE DEF x
<1>a. s \in {"none", "active", "stale", "invalid", "mailbox_missing", "revoked"}
  OBVIOUS
<1>3. r \in BindingRow /\ r.st = s /\ r.fp = x.fp /\ r.gone = x.gone
  BY <1>1, <1>a, RowInvalid
<1> HIDE DEF r
<1>4. /\ conn' \in [Conns -> ConnRow]
      /\ \A c \in Conns :
           /\ conn'[c].st = conn[c].st /\ conn'[c].b = conn[c].b
           /\ conn'[c].grant = IF conn[c].b = b THEN 0 ELSE conn[c].grant
  BY <1>1, <1>2, GrantsRevokedFields
<1>5. \A c \in Conns : conn'[c].grant # 0 =>
        conn'[c].st = "enabled" /\ conn'[c].grant = conn[c].grant /\ conn[c].b # b
  BY <1>4 DEF IInv, ConnRefs
<1>6. r.st # "none" /\ r.gone = binding[b].gone
  BY <1>3 DEF x
<1>7. RowMoves(b, r)
  BY <1>2, <1>4, <1>5, <1>6 DEF RowMoves
<1> QED BY <1>3, <1>7, RowStep

\* mailboxEvent('deleted')
LEMMA DeleteStep ==
  ASSUME IInv, NEW b \in Bindings, binding[b].st # "none",
         binding' = [binding EXCEPT ![b] = [@ EXCEPT !.st = "revoked", !.gone = TRUE, !.cred = 0]],
         conn' = [c \in Conns |-> IF conn[c].b = b
                                    THEN [conn[c] EXCEPT !.st = "revoked", !.grant = 0]
                                    ELSE conn[c]]
  PROVE  RowsKept
<1> DEFINE x == binding[b]
           r == [x EXCEPT !.st = "revoked", !.gone = TRUE, !.cred = 0]
<1>1. TypeOK /\ x \in BindingRow
  BY DEF IInv, TypeOK
<1>2. binding' = [binding EXCEPT ![b] = r]
  BY <1>1 DEF TypeOK
<1> HIDE DEF x
<1>3. r \in BindingRow /\ r.st = "revoked" /\ r.gone = TRUE
  BY <1>1, RowDeleted
<1> HIDE DEF r
<1>4. ASSUME NEW c \in Conns
      PROVE  /\ conn'[c] \in ConnRow
             /\ conn'[c].b = conn[c].b
             /\ IF conn[c].b = b THEN conn'[c].grant = 0 ELSE conn'[c] = conn[c]
  <2> DEFINE y == conn[c]
  <2>1. y \in ConnRow /\ conn'[c] = IF y.b = b THEN [y EXCEPT !.st = "revoked", !.grant = 0] ELSE y
    BY <1>1 DEF TypeOK
  <2> HIDE DEF y
  <2>2. CASE y.b = b
    BY <2>1, <2>2, ConnRevoked DEF y
  <2>3. CASE y.b # b
    BY <2>1, <2>3 DEF y
  <2> QED BY <2>2, <2>3
<1>5. conn' \in [Conns -> ConnRow]
  BY <1>4
<1>6. \A c \in Conns : conn'[c].st # "none" =>
        conn'[c].b = b \/ (conn[c].st # "none" /\ conn'[c].b = conn[c].b)
  BY <1>4
<1>7. \A c \in Conns : conn'[c].grant # 0 =>
        conn'[c].st = "enabled" /\ conn'[c].grant = conn[c].grant /\ conn[c].b # b
  BY <1>4 DEF IInv, ConnRefs
<1>8. \A c \in Conns : conn'[c].b = conn[c].b
  BY <1>4
<1>9. RowMoves(b, r)
  BY <1>2, <1>3, <1>5, <1>6, <1>7, <1>8 DEF RowMoves
<1> QED BY <1>3, <1>9, RowStep

\* The fields of a handler have their types.
LEMMA TaskFields ==
  ASSUME NEW x \in TaskState
  PROVE  x.fp \in Ids /\ x.pw \in Ids /\ x.c \in Conns \cup {NoConn}
BY DEF TaskState

\* Every action keeps the parts of the invariant about rows.
LEMMA RowsStep == IInv /\ Next => RowsKept
<1> SUFFICES ASSUME IInv, Next PROVE RowsKept
  OBVIOUS
<1>t. TypeOK
  BY DEF IInv
<1>fp. \A t \in Tasks : task[t].fp \in Ids /\ task[t].pw \in Ids
  BY <1>t, TaskFields DEF TypeOK
<1>b. ASSUME NEW t \in Tasks, task[t].at \in Waiting
      PROVE  task[t].b \in Bindings /\ binding[task[t].b].st # "none"
  BY <1>b DEF IInv, TaskRefs
<1>l. \A b \in Live : b \in Bindings /\ binding[b].st # "none"
  BY DEF Live
<1>1. ASSUME Mailbox PROVE RowsKept
  <2>1. UNCHANGED <<binding, conn>>
    BY <1>1 DEF Mailbox, SetPassword, OutsideDelete, Apply, PanelChange, PanelDelete, MailAnswers
  <2> QED BY <2>1, NoRowStep
<1>2. ASSUME NEW t \in Tasks,
             \/ \E pw \in 0 .. last : AskCreate(t, pw) \/ \E c \in Conns : AskUpdate(t, c, pw)
             \/ GiveUp(t) \/ AskReconcile(t)
             \/ \E c \in Conns : Test(t, c) \/ ToolCall(t, c)
      PROVE  RowsKept
  <2>1. UNCHANGED <<binding, conn>>
    BY <1>2 DEF AskCreate, AskUpdate, GiveUp, AskReconcile, Test, ToolCall
  <2> QED BY <2>1, NoRowStep
<1>3. ASSUME NEW t \in Tasks, NEW b \in Bindings,
             CreateVerify(t, b) \/ CreateRefused(t, b) \/ UpdateVerify(t, b)
      PROVE  RowsKept
  <2>1. /\ Resolves(b)
        /\ binding' = [binding EXCEPT ![b] = Resolved(b, task[t].fp)]
        /\ conn' = ResolvedConns(b, task[t].fp)
    BY <1>3 DEF CreateVerify, CreateRefused, UpdateVerify
  <2> QED BY <2>1, <1>fp, ResolveStep
<1>4. ASSUME NEW t \in Tasks, NEW b \in Bindings, NEW c \in Conns, CreateStored(t, b, c)
      PROVE  RowsKept
  <2>1. /\ Resolves(b)
        /\ binding' = [binding EXCEPT ![b] = Resolved(b, task[t].fp)]
        /\ conn' = NewConn(ResolvedConns(b, task[t].fp), c, b)
    BY <1>4 DEF CreateStored
  <2>2. \E d \in Conns : conn' = NewConn(ResolvedConns(b, task[t].fp), d, b)
    BY <2>1
  <2> QED BY <2>1, <2>2, <1>fp, ResolveStep
<1>5. ASSUME NEW t \in Tasks, NEW c \in Conns, CreateDone(t, c) PROVE RowsKept
  <2> DEFINE b == task[t].b
             x == binding[b]
             r == [x EXCEPT !.cred = task[t].pw]
  <2>1. b \in Bindings /\ x.st # "none"
    BY <1>5, <1>b DEF CreateDone, Waiting
  <2>2. x \in BindingRow
    BY <2>1, <1>t DEF TypeOK
  <2>3. /\ binding' = [binding EXCEPT ![b] = r]
        /\ conn' = conn \/ conn' = NewConn(conn, c, b)
    BY <1>5 DEF CreateDone, Provisioned
  <2>x. x = binding[b]
    OBVIOUS
  <2> HIDE DEF x, b
  <2>4. r \in BindingRow /\ r.st = x.st /\ r.fp = x.fp /\ r.gone = x.gone
    BY <2>2, <1>fp, RowCred
  <2> HIDE DEF r
  <2>5. r.st \in {binding[b].st, "active", "mailbox_missing"}
    BY <2>4, <2>x
  <2>6. conn' = conn \/ \E d \in Conns : conn' = NewConn(conn, d, b)
    BY <2>3
  <2> QED BY <2>1, <2>3, <2>4, <2>5, <2>6, <2>x, RefreshStep
<1>6. ASSUME NEW t \in Tasks, UpdateDone(t) PROVE RowsKept
  <2> DEFINE b == task[t].b
             x == binding[b]
             y == [x EXCEPT !.cred = task[t].pw]
             s == IF task[t].active THEN x.st ELSE "active"
             r == [y EXCEPT !.st = s]
  <2>1. b \in Bindings /\ x.st # "none"
    BY <1>6, <1>b DEF UpdateDone, Waiting
  <2>2. x \in BindingRow
    BY <2>1, <1>t DEF TypeOK
  <2>x. x = binding[b]
    OBVIOUS
  <2>3. conn' = conn
    BY <1>6 DEF UpdateDone
  <2>4. binding' = [binding EXCEPT ![b] = [y EXCEPT !.st = IF task[t].active THEN @ ELSE "active"]]
    BY <1>6 DEF UpdateDone, Provisioned
  <2> HIDE DEF x, b
  <2>5. y \in BindingRow /\ y.st = x.st /\ y.fp = x.fp /\ y.gone = x.gone
    BY <2>2, <1>fp, RowCred
  <2> HIDE DEF y
  <2>6. s \in {"none", "active", "stale", "invalid", "mailbox_missing", "revoked"}
    BY <2>2, RowFields
  <2>7. [y EXCEPT !.st = IF task[t].active THEN @ ELSE "active"] = r
    BY <2>5 DEF BindingRow
  <2>8. s \in {x.st, "active"}
    OBVIOUS
  <2> HIDE DEF s
  <2>9. r \in BindingRow /\ r.st = s /\ r.fp = y.fp /\ r.gone = y.gone
    BY <2>5, <2>6, RowState
  <2>10. binding' = [binding EXCEPT ![b] = r]
    BY <2>4, <2>7
  <2> HIDE DEF r
  <2>11. r.st \in {binding[b].st, "active", "mailbox_missing"}
    BY <2>8, <2>9, <2>x
  <2> QED BY <2>1, <2>3, <2>5, <2>9, <2>10, <2>11, <2>x, RefreshStep
<1>7. ASSUME NEW t \in Tasks, Rejected(t) PROVE RowsKept
  <2>1. task[t].b \in Bindings /\ binding[task[t].b].st # "none" /\ Invalidate(task[t].b, "invalid")
    BY <1>7, <1>b DEF Rejected, Waiting
  <2> QED BY <2>1, InvalidateStep
<1>8. ASSUME NEW t \in Tasks, PasswordChanged(t) PROVE RowsKept
  <2>1. UNCHANGED <<binding, conn>> \/ \E b \in Live : Invalidate(b, "stale")
    BY <1>8 DEF PasswordChanged
  <2> QED BY <2>1, <1>l, NoRowStep, InvalidateStep
<1>9. ASSUME NEW t \in Tasks, Deleted(t) PROVE RowsKept
  <2>1. CASE UNCHANGED <<binding, conn>>
    BY <2>1, NoRowStep
  <2>2. CASE ~UNCHANGED <<binding, conn>>
    <3>1. PICK b \in Live :
            /\ binding' = [binding EXCEPT ![b] = [@ EXCEPT !.st = "revoked", !.gone = TRUE, !.cred = 0]]
            /\ conn' = [c \in Conns |-> IF conn[c].b = b
                                          THEN [conn[c] EXCEPT !.st = "revoked", !.grant = 0]
                                          ELSE conn[c]]
      BY <1>9, <2>2 DEF Deleted
    <3> QED BY <3>1, <1>l, DeleteStep
  <2> QED BY <2>1, <2>2
<1>10. ASSUME NEW t \in Tasks, Reconcile(t) PROVE RowsKept
  <2>1. CASE UNCHANGED <<binding, conn>>
    BY <2>1, NoRowStep
  <2>2. ASSUME NEW b \in Live, Invalidate(b, "stale") PROVE RowsKept
    BY <2>2, <1>l, InvalidateStep
  <2>3. ASSUME NEW b \in Live, UNCHANGED conn,
               NEW s \in {binding[b].st, "active", "mailbox_missing"},
               binding' = [binding EXCEPT ![b].st = s]
        PROVE  RowsKept
    <3> DEFINE x == binding[b]
               r == [x EXCEPT !.st = s]
    <3>1. b \in Bindings /\ x \in BindingRow /\ x.st # "none"
      BY <1>l, <1>t DEF TypeOK
    <3>2. binding' = [binding EXCEPT ![b] = r]
      BY <2>3
    <3>3. x = binding[b]
      OBVIOUS
    <3>4. s \in {"none", "active", "stale", "invalid", "mailbox_missing", "revoked"}
      BY <3>1, RowFields
    <3> HIDE DEF x
    <3>5. r \in BindingRow /\ r.st = s /\ r.fp = x.fp /\ r.gone = x.gone
      BY <3>1, <3>4, RowState
    <3> HIDE DEF r
    <3>6. r.st \in {binding[b].st, "active", "mailbox_missing"}
      BY <3>5
    <3> QED BY <2>3, <3>1, <3>2, <3>3, <3>5, <3>6, RefreshStep
  <2>4. \/ UNCHANGED <<binding, conn>>
        \/ \E b \in Live :
             \/ Invalidate(b, "stale")
             \/ /\ UNCHANGED conn
                /\ binding' = [binding EXCEPT ![b].st = "mailbox_missing"]
             \/ /\ UNCHANGED conn
                /\ binding' = [binding EXCEPT ![b].st = IF @ = "mailbox_missing" THEN "active" ELSE @]
    BY <1>10 DEF Reconcile
  <2>5. ASSUME NEW b \in Live, UNCHANGED conn,
               binding' = [binding EXCEPT ![b].st = IF @ = "mailbox_missing" THEN "active" ELSE @]
        PROVE  RowsKept
    <3> DEFINE s == IF binding[b].st = "mailbox_missing" THEN "active" ELSE binding[b].st
    <3>1. s \in {binding[b].st, "active", "mailbox_missing"}
      OBVIOUS
    <3>2. binding' = [binding EXCEPT ![b].st = s]
      BY <2>5, <1>l
    <3> HIDE DEF s
    <3> QED BY <2>3, <2>5, <3>1, <3>2
  <2> QED BY <2>1, <2>2, <2>3, <2>4, <2>5
<1>11. ASSUME NEW c \in Conns, Authorize(c) \/ RevokeConnection(c) PROVE RowsKept
  <2>1. UNCHANGED binding
    BY <1>11 DEF Authorize, RevokeConnection
  <2> QED BY <1>11, <2>1, ConnStep
<1>12. ASSUME Crash PROVE RowsKept
  BY <1>12, NoRowStep DEF Crash
<1> QED
  BY <1>1, <1>2, <1>3, <1>4, <1>5, <1>6, <1>7, <1>8, <1>9, <1>10, <1>11, <1>12
     DEF Next, Provision, Use, Signals

-----------------------------------------------------------------------------
(***************************************************************************)
(* The handlers                                                            *)
(***************************************************************************)

\* One handler moves on, to a state that refers to what exists.
HandlerMoves(t, r) ==
  /\ task' = [task EXCEPT ![t] = r]
  /\ r.at \in Waiting => r.b \in Bindings /\ binding'[r.b].st # "none"
  /\ r.op = "update" => r.c \in Conns

\* Such a step keeps the parts of the invariant about handlers.
LEMMA HandlerStep ==
  ASSUME IInv, RowsKept, NEW t \in Tasks, NEW r \in TaskState, HandlerMoves(t, r)
  PROVE  task' \in [Tasks -> TaskState] /\ TaskRefs'
<1>1. /\ task' \in [Tasks -> TaskState]
      /\ \A u \in Tasks : task'[u] = IF u = t THEN r ELSE task[u]
  BY DEF IInv, TypeOK, HandlerMoves
<1>2. ASSUME NEW u \in Tasks
      PROVE  /\ task'[u].at \in Waiting => task'[u].b \in Bindings /\ binding'[task'[u].b].st # "none"
             /\ task'[u].op = "update" => task'[u].c \in Conns
  BY <1>1 DEF IInv, TaskRefs, RowsKept, HandlerMoves
<1> QED BY <1>1, <1>2 DEF TaskRefs

\* A handler that ends
LEMMA FinishStep ==
  ASSUME IInv, RowsKept, NEW t \in Tasks, Finish(t)
  PROVE  task' \in [Tasks -> TaskState] /\ TaskRefs'
<1>1. Idle.at \notin Waiting /\ Idle.op # "update"
  BY DEF Idle, Waiting
<1>2. HandlerMoves(t, Idle)
  BY <1>1 DEF HandlerMoves, Finish
<1> QED BY <1>2, NullRows, HandlerStep

\* A handler that begins: it does not wait yet, or waits for the log-in with b's password.
LEMMA BeginStep ==
  ASSUME IInv, RowsKept, NEW t \in Tasks,
         \/ \E o \in {"changed", "deleted"} :
              task' = [task EXCEPT ![t] = [Idle EXCEPT !.op = o, !.at = "sent"]]
         \/ \E f \in Ids :
              task' = [task EXCEPT ![t] = [Idle EXCEPT !.op = "reconcile", !.at = "sent", !.fp = f]]
         \/ \E f, p \in Ids :
              task' = [task EXCEPT ![t] = [Idle EXCEPT !.op = "create", !.at = "sent", !.fp = f, !.pw = p]]
         \/ \E f, p \in Ids, c \in Conns :
              task' = [task EXCEPT ![t] = [Idle EXCEPT !.op = "update", !.at = "sent", !.c = c,
                                                       !.fp = f, !.pw = p]]
         \/ \E p \in Ids, b \in Bindings :
              /\ binding'[b].st # "none"
              /\ task' = [task EXCEPT ![t] = [Idle EXCEPT !.op = "probe", !.at = "verify", !.b = b, !.pw = p]]
  PROVE  task' \in [Tasks -> TaskState] /\ TaskRefs'
<1> DEFINE Goal == task' \in [Tasks -> TaskState] /\ TaskRefs'
<1>0. Idle \in TaskState
  BY NullRows
<1>1. ASSUME NEW o \in {"changed", "deleted"},
             task' = [task EXCEPT ![t] = [Idle EXCEPT !.op = o, !.at = "sent"]]
      PROVE  Goal
  <2>1. ASSUME NEW x \in TaskState
        PROVE  LET r == [x EXCEPT !.op = o, !.at = "sent"] IN
               r \in TaskState /\ r.at = "sent" /\ r.op = o
    BY DEF TaskState
  <2>2. HandlerMoves(t, [Idle EXCEPT !.op = o, !.at = "sent"])
    BY <1>0, <1>1, <2>1 DEF HandlerMoves, Waiting
  <2> QED BY <1>0, <2>1, <2>2, HandlerStep
<1>2. ASSUME NEW f \in Ids,
             task' = [task EXCEPT ![t] = [Idle EXCEPT !.op = "reconcile", !.at = "sent", !.fp = f]]
      PROVE  Goal
  <2>1. ASSUME NEW x \in TaskState
        PROVE  LET r == [x EXCEPT !.op = "reconcile", !.at = "sent", !.fp = f] IN
               r \in TaskState /\ r.at = "sent" /\ r.op = "reconcile"
    BY DEF TaskState
  <2>2. HandlerMoves(t, [Idle EXCEPT !.op = "reconcile", !.at = "sent", !.fp = f])
    BY <1>0, <1>2, <2>1 DEF HandlerMoves, Waiting
  <2> QED BY <1>0, <2>1, <2>2, HandlerStep
<1>3. ASSUME NEW f \in Ids, NEW p \in Ids,
             task' = [task EXCEPT ![t] = [Idle EXCEPT !.op = "create", !.at = "sent", !.fp = f, !.pw = p]]
      PROVE  Goal
  <2>1. ASSUME NEW x \in TaskState
        PROVE  LET r == [x EXCEPT !.op = "create", !.at = "sent", !.fp = f, !.pw = p] IN
               r \in TaskState /\ r.at = "sent" /\ r.op = "create"
    BY DEF TaskState
  <2>2. HandlerMoves(t, [Idle EXCEPT !.op = "create", !.at = "sent", !.fp = f, !.pw = p])
    BY <1>0, <1>3, <2>1 DEF HandlerMoves, Waiting
  <2> QED BY <1>0, <2>1, <2>2, HandlerStep
<1>4. ASSUME NEW f \in Ids, NEW p \in Ids, NEW c \in Conns,
             task' = [task EXCEPT ![t] = [Idle EXCEPT !.op = "update", !.at = "sent", !.c = c,
                                                      !.fp = f, !.pw = p]]
      PROVE  Goal
  <2>1. ASSUME NEW x \in TaskState
        PROVE  LET r == [x EXCEPT !.op = "update", !.at = "sent", !.c = c, !.fp = f, !.pw = p] IN
               r \in TaskState /\ r.at = "sent" /\ r.c = c
    BY DEF TaskState
  <2>2. HandlerMoves(t, [Idle EXCEPT !.op = "update", !.at = "sent", !.c = c, !.fp = f, !.pw = p])
    BY <1>0, <1>4, <2>1 DEF HandlerMoves, Waiting
  <2> QED BY <1>0, <2>1, <2>2, HandlerStep
<1>5. ASSUME NEW p \in Ids, NEW b \in Bindings, binding'[b].st # "none",
             task' = [task EXCEPT ![t] = [Idle EXCEPT !.op = "probe", !.at = "verify", !.b = b, !.pw = p]]
      PROVE  Goal
  <2>1. ASSUME NEW x \in TaskState
        PROVE  LET r == [x EXCEPT !.op = "probe", !.at = "verify", !.b = b, !.pw = p] IN
               r \in TaskState /\ r.op = "probe" /\ r.b = b
    BY DEF TaskState
  <2>2. HandlerMoves(t, [Idle EXCEPT !.op = "probe", !.at = "verify", !.b = b, !.pw = p])
    BY <1>0, <1>5, <2>1 DEF HandlerMoves, Waiting
  <2> QED BY <1>0, <2>1, <2>2, HandlerStep
<1> QED BY <1>1, <1>2, <1>3, <1>4, <1>5

\* Every action keeps the parts of the invariant about handlers.
LEMMA HandlersStep ==
  ASSUME IInv, RowsKept, Next
  PROVE  task' \in [Tasks -> TaskState] /\ TaskRefs'
<1> DEFINE Goal == task' \in [Tasks -> TaskState] /\ TaskRefs'
<1>t. TypeOK
  BY DEF IInv
<1>s. ASSUME UNCHANGED task PROVE Goal
  BY <1>s DEF IInv, TypeOK, TaskRefs, RowsKept
<1>i. \A pw \in 0 .. last : pw \in Ids
  BY <1>t, BoundAssumption DEF TypeOK, Ids
<1>k. ASSUME NEW c \in Conns, conn[c].st # "none"
      PROVE  /\ conn[c].b \in Bindings /\ binding[conn[c].b].st # "none"
             /\ binding[conn[c].b].cred \in Ids
  <2>1. conn[c].b \in Bindings /\ binding[conn[c].b].st # "none"
    BY <1>k DEF IInv, ConnRefs
  <2> QED BY <2>1, <1>t, RowFields DEF TypeOK
<1>1. ASSUME SetPassword \/ OutsideDelete \/ Apply PROVE Goal
  BY <1>1, <1>s DEF SetPassword, OutsideDelete, Apply
<1>2. ASSUME NEW t \in Tasks, PanelChange(t) \/ PanelDelete(t) PROVE Goal
  <2>1. \E o \in {"changed", "deleted"} :
          task' = [task EXCEPT ![t] = [Idle EXCEPT !.op = o, !.at = "sent"]]
    BY <1>2 DEF PanelChange, PanelDelete
  <2> QED BY <2>1, BeginStep
<1>3. ASSUME NEW t \in Tasks, MailAnswers(t) PROVE Goal
  <2> DEFINE x == task[t]
  <2>1. x \in TaskState /\ x.at = "verify"
    BY <1>3, <1>t DEF MailAnswers, TypeOK
  <2>2. PICK a \in {"failed", "ok", "rejected"} : task' = [task EXCEPT ![t] = [x EXCEPT !.at = a]]
    BY <1>3 DEF MailAnswers
  <2>3. x.b \in Bindings /\ binding[x.b].st # "none" /\ (x.op = "update" => x.c \in Conns)
    BY <2>1 DEF IInv, TaskRefs, Waiting
  <2>4. binding'[x.b].st # "none"
    BY <2>3 DEF RowsKept
  <2> DEFINE r == [x EXCEPT !.at = a]
  <2> HIDE DEF x
  <2>5. r \in TaskState /\ r.b = x.b /\ r.op = x.op /\ r.c = x.c
    BY <2>1, <2>2 DEF TaskState
  <2>6. HandlerMoves(t, r)
    <3> HIDE DEF r
    <3> QED BY <2>2, <2>3, <2>4, <2>5 DEF HandlerMoves, r
  <2> HIDE DEF r
  <2> QED BY <2>5, <2>6, HandlerStep
<1>4. ASSUME NEW t \in Tasks, NEW pw \in 0 .. last, AskCreate(t, pw) PROVE Goal
  <2>1. box \in Ids /\ pw \in Ids
    BY <1>t, <1>i DEF TypeOK
  <2>2. task' = [task EXCEPT ![t] = [Idle EXCEPT !.op = "create", !.at = "sent", !.fp = box, !.pw = pw]]
    BY <1>4 DEF AskCreate
  <2> QED BY <2>1, <2>2, BeginStep
<1>5. ASSUME NEW t \in Tasks, NEW pw \in 0 .. last, NEW c \in Conns, AskUpdate(t, c, pw) PROVE Goal
  <2>1. box \in Ids /\ pw \in Ids
    BY <1>t, <1>i DEF TypeOK
  <2>2. task' = [task EXCEPT ![t] = [Idle EXCEPT !.op = "update", !.at = "sent", !.c = c,
                                                 !.fp = box, !.pw = pw]]
    BY <1>5 DEF AskUpdate
  <2> QED BY <2>1, <2>2, BeginStep
<1>6. ASSUME NEW t \in Tasks, AskReconcile(t) PROVE Goal
  <2>1. box \in Ids
    BY <1>t DEF TypeOK
  <2>2. task' = [task EXCEPT ![t] = [Idle EXCEPT !.op = "reconcile", !.at = "sent", !.fp = box]]
    BY <1>6 DEF AskReconcile
  <2> QED BY <2>1, <2>2, BeginStep
<1>7. ASSUME NEW t \in Tasks, NEW c \in Conns, Test(t, c) \/ ToolCall(t, c) PROVE Goal
  <2>1. conn[c].st # "none"
    BY <1>7 DEF Test, ToolCall, Usable
  <2>2. /\ conn[c].b \in Bindings /\ binding'[conn[c].b].st # "none"
        /\ binding[conn[c].b].cred \in Ids
    BY <2>1, <1>k DEF RowsKept
  <2>3. task' = [task EXCEPT ![t] = [Idle EXCEPT !.op = "probe", !.at = "verify",
                              !.b = conn[c].b, !.pw = binding[conn[c].b].cred]]
    BY <1>7 DEF Test, ToolCall
  <2> QED BY <2>2, <2>3, BeginStep
<1>8. ASSUME NEW t \in Tasks, NEW b \in Bindings, CreateVerify(t, b) PROVE Goal
  <2> DEFINE x == task[t]
             r == [x EXCEPT !.at = "verify", !.b = b]
  <2>1. x \in TaskState /\ x.op = "create" /\ task' = [task EXCEPT ![t] = r]
    BY <1>8, <1>t DEF CreateVerify, TypeOK
  <2>2. binding'[b].st # "none"
    <3>1. task[t].fp \in Ids
      BY <1>t, TaskFields DEF TypeOK
    <3>2. binding'[b] = Resolved(b, task[t].fp)
      BY <1>8, <1>t DEF CreateVerify, TypeOK
    <3> QED BY <1>t, <3>1, <3>2, ResolvedFields
  <2> HIDE DEF x
  <2>3. r \in TaskState /\ r.b = b /\ r.op = x.op
    BY <2>1 DEF TaskState
  <2> HIDE DEF r
  <2>4. HandlerMoves(t, r)
    BY <2>1, <2>2, <2>3 DEF HandlerMoves
  <2> QED BY <2>3, <2>4, HandlerStep
<1>9. ASSUME NEW t \in Tasks, NEW b \in Bindings, UpdateVerify(t, b) PROVE Goal
  <2>1. CASE Finish(t)
    BY <2>1, FinishStep
  <2>2. CASE ~Finish(t)
    <3> DEFINE x == task[t]
               a == Resolved(b, x.fp).st = "active"
               r == [x EXCEPT !.at = "verify", !.b = b, !.active = a]
    <3>1. x \in TaskState /\ task' = [task EXCEPT ![t] = r]
      BY <1>9, <2>2, <1>t DEF UpdateVerify, TypeOK
    <3>2. x.op = "update" /\ x.c \in Conns
      BY <1>9 DEF UpdateVerify, IInv, TaskRefs
    <3>3. binding'[b].st # "none"
      <4>1. x.fp \in Ids
        BY <3>1, TaskFields
      <4>2. binding'[b] = Resolved(b, x.fp)
        BY <1>9, <1>t DEF UpdateVerify, TypeOK
      <4> QED BY <1>t, <4>1, <4>2, ResolvedFields
    <3>4. a \in BOOLEAN
      OBVIOUS
    <3> HIDE DEF x, a
    <3>5. r \in TaskState /\ r.b = b /\ r.c = x.c
      BY <3>1, <3>4 DEF TaskState
    <3> HIDE DEF r
    <3>6. HandlerMoves(t, r)
      BY <3>1, <3>2, <3>3, <3>5 DEF HandlerMoves
    <3> QED BY <3>5, <3>6, HandlerStep
  <2> QED BY <2>1, <2>2
<1>10. ASSUME NEW t \in Tasks,
              \/ \E b \in Bindings : CreateRefused(t, b) \/ \E c \in Conns : CreateStored(t, b, c)
              \/ \E c \in Conns : CreateDone(t, c)
              \/ UpdateDone(t) \/ GiveUp(t) \/ Rejected(t)
              \/ Reconcile(t) \/ PasswordChanged(t) \/ Deleted(t)
       PROVE  Goal
  <2>1. Finish(t)
    BY <1>10 DEF CreateRefused, CreateStored, CreateDone, UpdateDone, GiveUp, Rejected,
                 Reconcile, PasswordChanged, Deleted
  <2> QED BY <2>1, FinishStep
<1>11. ASSUME NEW c \in Conns, Authorize(c) \/ RevokeConnection(c) PROVE Goal
  BY <1>11, <1>s DEF Authorize, RevokeConnection
<1>12. ASSUME Crash PROVE Goal
  <2>1. task' = [t \in Tasks |-> Idle]
    BY <1>12 DEF Crash
  <2>2. Idle.at \notin Waiting /\ Idle.op # "update"
    BY DEF Idle, Waiting
  <2> QED BY <2>1, <2>2, NullRows DEF TaskRefs
<1> QED
  BY <1>1, <1>2, <1>3, <1>4, <1>5, <1>6, <1>7, <1>8, <1>9, <1>10, <1>11, <1>12
     DEF Next, Mailbox, Provision, Use, Signals

\* The mailbox's identities stay in their type.
LEMMA IdentityStep ==
  ASSUME TypeOK, Next
  PROVE  box' \in Ids /\ last' \in Ids /\ served' \in Ids
<1>1. ASSUME last < MaxId PROVE last + 1 \in Ids
  BY <1>1, BoundAssumption DEF TypeOK, Ids
<1>2. CASE Mailbox
  BY <1>1, <1>2, ZeroId
     DEF Mailbox, SetPassword, OutsideDelete, Apply, PanelChange, PanelDelete, MailAnswers, TypeOK
<1>3. CASE Provision
  <2>1. UNCHANGED <<box, last, served>>
    BY <1>3 DEF Provision, AskCreate, AskUpdate, CreateVerify, CreateRefused, UpdateVerify,
                CreateStored, CreateDone, UpdateDone, GiveUp
  <2> QED BY <2>1 DEF TypeOK
<1>4. CASE Use
  <2>1. UNCHANGED <<box, last, served>>
    BY <1>4 DEF Use, Authorize, RevokeConnection, Rejected, Test, ToolCall
  <2> QED BY <2>1 DEF TypeOK
<1>5. CASE Signals \/ Crash
  <2>1. UNCHANGED <<box, last, served>>
    BY <1>5 DEF Signals, AskReconcile, Reconcile, PasswordChanged, Deleted, Crash
  <2> QED BY <2>1 DEF TypeOK
<1> QED BY <1>2, <1>3, <1>4, <1>5 DEF Next

-----------------------------------------------------------------------------
(***************************************************************************)
(* The invariant and what it gives                                         *)
(***************************************************************************)

\* The invariant holds before the first mailbox.
LEMMA InvInit == Init => IInv
<1> SUFFICES ASSUME Init PROVE IInv
  OBVIOUS
<1> USE DEF Init
<1>1. TypeOK
  BY ZeroId, NullRows DEF TypeOK
<1>2. NoRow.st = "none" /\ NoConnRow.st = "none" /\ NoConnRow.grant = 0
  BY DEF NoRow, NoConnRow
<1>3. Idle.at \notin Waiting /\ Idle.op # "update"
  BY DEF Idle, Waiting
<1>4. ConnRefs /\ GrantsFollowIdentity
  BY <1>2 DEF ConnRefs, GrantsFollowIdentity
<1>5. TaskRefs
  BY <1>3 DEF TaskRefs
<1>6. OneLiveBinding
  BY <1>2 DEF OneLiveBinding, Live
<1> QED BY <1>1, <1>4, <1>5, <1>6 DEF IInv

\* Every step keeps it.
LEMMA InvStep == IInv /\ [Next]_vars => IInv'
<1>1. ASSUME IInv, Next PROVE IInv'
  <2>1. RowsKept
    BY <1>1, RowsStep
  <2>2. task' \in [Tasks -> TaskState] /\ TaskRefs'
    BY <1>1, <2>1, HandlersStep
  <2>3. box' \in Ids /\ last' \in Ids /\ served' \in Ids
    BY <1>1, IdentityStep DEF IInv
  <2>4. TypeOK'
    BY <2>1, <2>2, <2>3 DEF TypeOK, RowsKept
  <2> QED BY <2>1, <2>2, <2>4 DEF IInv, RowsKept
<1>2. ASSUME IInv, UNCHANGED vars PROVE IInv'
  BY <1>2 DEF vars, IInv, TypeOK, ConnRefs, TaskRefs, GrantsFollowIdentity, OneLiveBinding, Live
<1> QED BY <1>1, <1>2

\* The invariant holds always.
THEOREM Invariance == Spec => []IInv
BY InvInit, InvStep, PTL DEF Spec

(***************************************************************************)
(* Every row and every handler keeps its type.                             *)
(***************************************************************************)
THEOREM TypeCorrect == Spec => []TypeOK
<1>1. IInv => TypeOK
  BY DEF IInv
<1> QED BY <1>1, Invariance, PTL

(***************************************************************************)
(* "Recreating an address never restores old grants", for any number of    *)
(* passwords, connections, rows and overlapping handlers: what             *)
(* resolveBinding, invalidateBinding and the mailbox events do to the      *)
(* grants is enough.                                                       *)
(***************************************************************************)
THEOREM OldGrantsStayDead == Spec => []GrantsFollowIdentity
<1>1. IInv => GrantsFollowIdentity
  BY DEF IInv
<1> QED BY <1>1, Invariance, PTL

(***************************************************************************)
(* findLiveByMailbox has at most one row to find: resolveBinding inserts   *)
(* only where it found none, and nothing un-revokes a row.                 *)
(***************************************************************************)
THEOREM LiveBindingIsUnique == Spec => []OneLiveBinding
<1>1. IInv => OneLiveBinding
  BY DEF IInv
<1> QED BY <1>1, Invariance, PTL

-----------------------------------------------------------------------------
(***************************************************************************)
(* The limit of connections: counting the creates that passed it           *)
(***************************************************************************)

\* The creates for b that looked at the limit and have yet to insert
Creators(b) ==
  {t \in Tasks : task[t].op = "create" /\ task[t].at \in {"verify", "ok"} /\ task[t].b = b}

\* Connections C at or over the limit leave too few handlers in K to overrun it by all of Tasks.
Fits(C, K) ==
  Cardinality(C) >= MaxConns => Cardinality(C) + Cardinality(K) < MaxConns + Cardinality(Tasks)

OverrunInv == \A b \in Bindings : Fits(ConnsOf(b), Creators(b))

\* Fewer connections and fewer handlers fit.
LEMMA FitsFewer ==
  ASSUME NEW C \in SUBSET Conns, NEW K \in SUBSET Tasks, Fits(C, K),
         NEW D \in SUBSET C, NEW L \in SUBSET K
  PROVE  Fits(D, L)
<1>1. IsFiniteSet(C) /\ IsFiniteSet(K)
  BY FiniteAssumption, FS_Subset
<1>2. /\ IsFiniteSet(D) /\ IsFiniteSet(L)
      /\ Cardinality(D) <= Cardinality(C) /\ Cardinality(L) <= Cardinality(K)
  BY <1>1, FS_Subset
<1>3. /\ Cardinality(C) \in Nat /\ Cardinality(K) \in Nat /\ Cardinality(Tasks) \in Nat
      /\ Cardinality(D) \in Nat /\ Cardinality(L) \in Nat
  BY <1>1, <1>2, FiniteAssumption, FS_CardinalityType
<1> QED BY <1>2, <1>3, BoundAssumption DEF Fits

(***************************************************************************)
(* A handler leaves and one connection comes: it fits if the handler was   *)
(* counted, or the limit was not reached.                                  *)
(***************************************************************************)
LEMMA FitsOneMore ==
  ASSUME NEW C \in SUBSET Conns, NEW K \in SUBSET Tasks, Fits(C, K),
         NEW c \in Conns, NEW D \in SUBSET (C \cup {c}),
         NEW t \in Tasks, NEW L \in SUBSET (K \ {t}),
         t \in K \/ ~(Cardinality(C) >= MaxConns)
  PROVE  Fits(D, L)
<1>1. IsFiniteSet(C) /\ IsFiniteSet(K)
  BY FiniteAssumption, FS_Subset
<1>2. /\ IsFiniteSet(C \cup {c})
      /\ Cardinality(C \cup {c}) = Cardinality(C) \/ Cardinality(C \cup {c}) = Cardinality(C) + 1
  BY <1>1, FS_AddElement
<1>3. IsFiniteSet(D) /\ Cardinality(D) <= Cardinality(C \cup {c})
  BY <1>2, FS_Subset
<1>4. IsFiniteSet(Tasks \ {t}) /\ Cardinality(Tasks \ {t}) = Cardinality(Tasks) - 1
  BY FiniteAssumption, FS_RemoveElement
<1>5. IsFiniteSet(K \ {t}) /\ (t \in K => Cardinality(K \ {t}) = Cardinality(K) - 1)
  BY <1>1, FS_RemoveElement
<1>6. L \subseteq Tasks \ {t}
  OBVIOUS
<1>7. /\ IsFiniteSet(L)
      /\ Cardinality(L) <= Cardinality(K \ {t}) /\ Cardinality(L) <= Cardinality(Tasks \ {t})
  BY <1>4, <1>5, <1>6, FS_Subset
<1>8. /\ Cardinality(C) \in Nat /\ Cardinality(K) \in Nat /\ Cardinality(Tasks) \in Nat
      /\ Cardinality(D) \in Nat /\ Cardinality(L) \in Nat
      /\ Cardinality(K \ {t}) \in Nat
  BY <1>1, <1>3, <1>5, <1>7, FiniteAssumption, FS_CardinalityType
<1>9. CASE ~(Cardinality(C) >= MaxConns)
  <2>1. Cardinality(D) <= MaxConns /\ Cardinality(L) < Cardinality(Tasks)
    BY <1>2, <1>3, <1>4, <1>7, <1>8, <1>9, BoundAssumption
  <2> QED BY <2>1, <1>8, BoundAssumption DEF Fits
<1>10. CASE Cardinality(C) >= MaxConns /\ t \in K
  <2>1. Cardinality(D) <= Cardinality(C) + 1 /\ Cardinality(L) <= Cardinality(K) - 1
    BY <1>2, <1>3, <1>5, <1>7, <1>8, <1>10
  <2> QED BY <2>1, <1>8, <1>10, BoundAssumption DEF Fits
<1> QED BY <1>9, <1>10

\* A step that makes no connection, and lets no create past the limit
ConnsShrink == \A b \in Bindings : ConnsOf(b)' \subseteq ConnsOf(b)
CreatorsShrink == \A b \in Bindings : Creators(b)' \subseteq Creators(b)

\* Such a step keeps the count.
LEMMA ShrinkStep ==
  ASSUME OverrunInv, ConnsShrink, CreatorsShrink
  PROVE  OverrunInv'
<1> SUFFICES ASSUME NEW b \in Bindings PROVE Fits(ConnsOf(b), Creators(b))'
  BY DEF OverrunInv
<1>1. ConnsOf(b) \in SUBSET Conns /\ Creators(b) \in SUBSET Tasks
  BY DEF ConnsOf, Creators
<1>2. ConnsOf(b)' \subseteq ConnsOf(b) /\ Creators(b)' \subseteq Creators(b)
  BY DEF ConnsShrink, CreatorsShrink
<1>3. Fits(ConnsOf(b), Creators(b))
  BY DEF OverrunInv
<1>4. Fits(ConnsOf(b)', Creators(b)')
  BY <1>1, <1>2, <1>3, FitsFewer
<1> QED BY <1>4 DEF Fits

\* Connections that stay, are revoked or lose grants
LEMMA ConnsKept ==
  ASSUME \A c \in Conns : conn'[c].st = "enabled" =>
           conn[c].st = "enabled" /\ conn'[c].b = conn[c].b
  PROVE  ConnsShrink
BY DEF ConnsShrink, ConnsOf

\* A handler that gets the value r, which is not past the limit or was before
LEMMA HandlerCounted ==
  ASSUME TypeOK, NEW t \in Tasks, NEW r, task' = [task EXCEPT ![t] = r],
         r.op = "create" /\ r.at \in {"verify", "ok"} => r.b = task[t].b /\ t \in Creators(r.b)
  PROVE  CreatorsShrink
<1>1. \A u \in Tasks : task'[u] = IF u = t THEN r ELSE task[u]
  BY DEF TypeOK
<1> QED BY <1>1 DEF CreatorsShrink, Creators

\* The handler that ends is counted no more.
LEMMA FinishCounted ==
  ASSUME TypeOK, NEW t \in Tasks, Finish(t)
  PROVE  CreatorsShrink /\ \A b \in Bindings : Creators(b)' \subseteq Creators(b) \ {t}
<1>1. Idle.op # "create"
  BY DEF Idle
<1>2. \A u \in Tasks : task'[u] = IF u = t THEN Idle ELSE task[u]
  BY DEF TypeOK, Finish
<1> QED BY <1>1, <1>2 DEF CreatorsShrink, Creators

\* resolveBinding and invalidateBinding make no connection.
LEMMA GrantsShrink ==
  ASSUME TypeOK, NEW b \in Bindings, NEW fp, conn' \in {conn, GrantsRevoked(b), ResolvedConns(b, fp)}
  PROVE  ConnsShrink
<1>1. conn' = conn \/ conn' = GrantsRevoked(b)
  BY DEF ResolvedConns
<1> QED BY <1>1, GrantsRevokedFields, ConnsKept

\* Inserting connection c on b after the grants were, or were not, revoked
LEMMA NewConnCounted ==
  ASSUME TypeOK, NEW b \in Bindings, NEW c \in Conns, NEW cs \in [Conns -> ConnRow],
         \A d \in Conns : cs[d].st = conn[d].st /\ cs[d].b = conn[d].b,
         conn[c].st = "none", conn' = NewConn(cs, c, b)
  PROVE  /\ ConnsOf(b)' \subseteq ConnsOf(b) \cup {c}
         /\ \A a \in Bindings \ {b} : ConnsOf(a)' \subseteq ConnsOf(a)
<1> DEFINE r == [NoConnRow EXCEPT !.st = "enabled", !.b = b]
<1>1. r.b = b
  BY ConnNew
<1>2. conn' = [cs EXCEPT ![c] = r]
  BY DEF NewConn
<1> HIDE DEF r
<1>3. \A d \in Conns : conn'[d] = IF d = c THEN r ELSE cs[d]
  BY <1>2
<1> QED BY <1>1, <1>3 DEF ConnsOf

\* A connection on b is inserted by the handler t, which ends.
LEMMA InsertStep ==
  ASSUME OverrunInv, TypeOK, NEW t \in Tasks, NEW b \in Bindings, NEW c \in Conns, Finish(t),
         t \in Creators(b) \/ ~Full(b),
         ConnsOf(b)' \subseteq ConnsOf(b) \cup {c},
         \A a \in Bindings \ {b} : ConnsOf(a)' \subseteq ConnsOf(a)
  PROVE  OverrunInv'
<1> SUFFICES ASSUME NEW a \in Bindings PROVE Fits(ConnsOf(a), Creators(a))'
  BY DEF OverrunInv
<1>1. ConnsOf(a) \in SUBSET Conns /\ Creators(a) \in SUBSET Tasks
  BY DEF ConnsOf, Creators
<1>2. Creators(a)' \subseteq Creators(a) /\ Creators(a)' \subseteq Creators(a) \ {t}
  BY FinishCounted DEF CreatorsShrink
<1>3. Fits(ConnsOf(a), Creators(a))
  BY DEF OverrunInv
<1>4. Fits(ConnsOf(a)', Creators(a)')
  <2>1. CASE a = b
    <3>1. t \in Creators(a) \/ ~(Cardinality(ConnsOf(a)) >= MaxConns)
      BY <2>1 DEF Full
    <3>2. ConnsOf(a)' \subseteq ConnsOf(a) \cup {c}
      BY <2>1
    <3> QED BY <1>1, <1>2, <1>3, <3>1, <3>2, FitsOneMore
  <2>2. CASE a # b
    BY <1>1, <1>2, <1>3, <2>2, FitsFewer
  <2> QED BY <2>1, <2>2
<1> QED BY <1>4 DEF Fits

\* create passes the limit only where it is not reached.
LEMMA PassStep ==
  ASSUME OverrunInv, TypeOK, NEW t \in Tasks, NEW b \in Bindings, CreateVerify(t, b)
  PROVE  OverrunInv'
<1> SUFFICES ASSUME NEW a \in Bindings PROVE Fits(ConnsOf(a), Creators(a))'
  BY DEF OverrunInv
<1>1. ConnsOf(a) \in SUBSET Conns /\ Creators(a) \in SUBSET Tasks
  BY DEF ConnsOf, Creators
<1>2. ConnsOf(a)' \subseteq ConnsOf(a)
  BY GrantsShrink DEF CreateVerify, ConnsShrink
<1>3. CASE a = b
  <2>1. IsFiniteSet(ConnsOf(a)) /\ ~(Cardinality(ConnsOf(a)) >= MaxConns)
    BY <1>1, <1>3, FiniteAssumption, FS_Subset DEF CreateVerify, Full
  <2>2. IsFiniteSet(ConnsOf(a)') /\ Cardinality(ConnsOf(a)') <= Cardinality(ConnsOf(a))
    BY <1>2, <2>1, FS_Subset
  <2>3. Cardinality(ConnsOf(a)) \in Nat /\ Cardinality(ConnsOf(a)') \in Nat
    BY <2>1, <2>2, FS_CardinalityType
  <2>4. ~(Cardinality(ConnsOf(a)') >= MaxConns)
    BY <2>1, <2>2, <2>3, BoundAssumption
  <2> QED BY <2>4 DEF Fits
<1>4. CASE a # b
  <2> DEFINE x == task[t]
             r == [x EXCEPT !.at = "verify", !.b = b]
  <2>1. x \in TaskState /\ task' = [task EXCEPT ![t] = r]
    BY DEF CreateVerify, TypeOK
  <2> HIDE DEF x
  <2>2. r.b = b
    BY <2>1 DEF TaskState
  <2> HIDE DEF r
  <2>3. \A u \in Tasks : task'[u] = IF u = t THEN r ELSE task[u]
    BY <2>1 DEF TypeOK
  <2>4. Creators(a)' \subseteq Creators(a)
    BY <1>4, <2>2, <2>3 DEF Creators
  <2>5. Fits(ConnsOf(a), Creators(a))
    BY DEF OverrunInv
  <2>6. Fits(ConnsOf(a)', Creators(a)')
    BY <1>1, <1>2, <2>4, <2>5, FitsFewer
  <2> QED BY <2>6 DEF Fits
<1> QED BY <1>3, <1>4

\* Every action keeps the count.
LEMMA OverrunStep ==
  ASSUME IInv, OverrunInv, Next
  PROVE  OverrunInv'
<1>t. TypeOK
  BY DEF IInv
<1>c. ASSUME UNCHANGED conn PROVE ConnsShrink
  BY <1>c, ConnsKept
<1>u. ASSUME UNCHANGED task PROVE CreatorsShrink
  BY <1>u DEF CreatorsShrink, Creators
<1>r. \A t \in Tasks : task[t] \in TaskState
  BY <1>t DEF TypeOK
<1>1. ASSUME SetPassword \/ OutsideDelete \/ Apply PROVE OverrunInv'
  BY <1>1, <1>c, <1>u, ShrinkStep DEF SetPassword, OutsideDelete, Apply
<1>2. ASSUME NEW t \in Tasks,
             \/ PanelChange(t) \/ PanelDelete(t) \/ AskReconcile(t)
             \/ \E pw \in 0 .. last : AskCreate(t, pw) \/ \E c \in Conns : AskUpdate(t, c, pw)
             \/ \E c \in Conns : Test(t, c) \/ ToolCall(t, c)
      PROVE  OverrunInv'
  <2>1. UNCHANGED conn
    BY <1>2 DEF PanelChange, PanelDelete, AskReconcile, AskCreate, AskUpdate, Test, ToolCall
  <2>2. ASSUME NEW r, task' = [task EXCEPT ![t] = r], r.at = "sent" \/ r.op = "probe"
        PROVE  CreatorsShrink
    BY <1>t, <2>2, HandlerCounted
  <2>3. CreatorsShrink
    <3>1. CASE PanelChange(t)
      <4> DEFINE r == [Idle EXCEPT !.op = "changed", !.at = "sent"]
      <4>1. r.at = "sent" /\ task' = [task EXCEPT ![t] = r]
        BY <3>1 DEF PanelChange, Idle
      <4> HIDE DEF r
      <4> QED BY <2>2, <4>1
    <3>2. CASE PanelDelete(t)
      <4> DEFINE r == [Idle EXCEPT !.op = "deleted", !.at = "sent"]
      <4>1. r.at = "sent" /\ task' = [task EXCEPT ![t] = r]
        BY <3>2 DEF PanelDelete, Idle
      <4> HIDE DEF r
      <4> QED BY <2>2, <4>1
    <3>3. CASE AskReconcile(t)
      <4> DEFINE r == [Idle EXCEPT !.op = "reconcile", !.at = "sent", !.fp = box]
      <4>1. r.at = "sent" /\ task' = [task EXCEPT ![t] = r]
        BY <3>3 DEF AskReconcile, Idle
      <4> HIDE DEF r
      <4> QED BY <2>2, <4>1
    <3>4. ASSUME NEW pw \in 0 .. last, AskCreate(t, pw) PROVE CreatorsShrink
      <4> DEFINE r == [Idle EXCEPT !.op = "create", !.at = "sent", !.fp = box, !.pw = pw]
      <4>1. r.at = "sent" /\ task' = [task EXCEPT ![t] = r]
        BY <3>4 DEF AskCreate, Idle
      <4> HIDE DEF r
      <4> QED BY <2>2, <4>1
    <3>5. ASSUME NEW pw \in 0 .. last, NEW c \in Conns, AskUpdate(t, c, pw) PROVE CreatorsShrink
      <4> DEFINE r == [Idle EXCEPT !.op = "update", !.at = "sent", !.c = c, !.fp = box, !.pw = pw]
      <4>1. r.at = "sent" /\ task' = [task EXCEPT ![t] = r]
        BY <3>5 DEF AskUpdate, Idle
      <4> HIDE DEF r
      <4> QED BY <2>2, <4>1
    <3>6. ASSUME NEW c \in Conns, Test(t, c) \/ ToolCall(t, c) PROVE CreatorsShrink
      <4> DEFINE r == [Idle EXCEPT !.op = "probe", !.at = "verify",
                             !.b = conn[c].b, !.pw = binding[conn[c].b].cred]
      <4>1. r.op = "probe" /\ task' = [task EXCEPT ![t] = r]
        BY <3>6 DEF Test, ToolCall, Idle
      <4> HIDE DEF r
      <4> QED BY <2>2, <4>1
    <3> QED BY <1>2, <3>1, <3>2, <3>3, <3>4, <3>5, <3>6
  <2> QED BY <2>1, <2>3, <1>c, ShrinkStep
<1>3. ASSUME NEW t \in Tasks, MailAnswers(t) PROVE OverrunInv'
  <2> DEFINE x == task[t]
  <2>1. x \in TaskState /\ x.at = "verify" /\ UNCHANGED conn
    BY <1>3, <1>r DEF MailAnswers
  <2>2. PICK a \in {"failed", "ok", "rejected"} : task' = [task EXCEPT ![t] = [x EXCEPT !.at = a]]
    BY <1>3 DEF MailAnswers
  <2>3. x.op = "create" => t \in Creators(x.b)
    BY <2>1 DEF Creators
  <2> DEFINE r == [x EXCEPT !.at = a]
  <2> HIDE DEF x
  <2>4. r.b = x.b /\ r.op = x.op
    BY <2>1, <2>2 DEF TaskState
  <2> HIDE DEF r
  <2>5. task' = [task EXCEPT ![t] = r] /\ x = task[t]
    BY <2>2 DEF r, x
  <2>6. CreatorsShrink
    BY <1>t, <2>3, <2>4, <2>5, HandlerCounted
  <2> QED BY <2>1, <2>6, <1>c, ShrinkStep
<1>4. ASSUME NEW t \in Tasks, NEW b \in Bindings, CreateVerify(t, b) PROVE OverrunInv'
  BY <1>4, <1>t, PassStep
<1>5. ASSUME NEW t \in Tasks, NEW b \in Bindings, CreateRefused(t, b) PROVE OverrunInv'
  <2>1. ConnsShrink
    BY <1>5, <1>t, GrantsShrink DEF CreateRefused
  <2>2. CreatorsShrink
    BY <1>5, <1>t, FinishCounted DEF CreateRefused
  <2> QED BY <2>1, <2>2, ShrinkStep
<1>6. ASSUME NEW t \in Tasks, NEW b \in Bindings, UpdateVerify(t, b) PROVE OverrunInv'
  <2>1. ConnsShrink
    BY <1>6, <1>t, GrantsShrink DEF UpdateVerify
  <2>2. CreatorsShrink
    <3>1. CASE Finish(t)
      BY <3>1, <1>t, FinishCounted
    <3>2. CASE ~Finish(t)
      <4> DEFINE x == task[t]
                 a == Resolved(b, x.fp).st = "active"
                 r == [x EXCEPT !.at = "verify", !.b = b, !.active = a]
      <4>1. x \in TaskState /\ x.op = "update" /\ task' = [task EXCEPT ![t] = r]
        BY <1>6, <1>r, <3>2 DEF UpdateVerify
      <4> HIDE DEF x, a
      <4>2. r.op = x.op
        BY <4>1 DEF TaskState
      <4> HIDE DEF r
      <4> QED BY <1>t, <4>1, <4>2, HandlerCounted
    <3> QED BY <3>1, <3>2
  <2> QED BY <2>1, <2>2, ShrinkStep
<1>7. ASSUME NEW t \in Tasks, NEW b \in Bindings, NEW c \in Conns, CreateStored(t, b, c)
      PROVE  OverrunInv'
  <2> DEFINE cs == ResolvedConns(b, task[t].fp)
  <2>1. Finish(t) /\ ~Full(b) /\ conn[c].st = "none" /\ conn' = NewConn(cs, c, b)
    BY <1>7 DEF CreateStored
  <2>2. /\ cs \in [Conns -> ConnRow]
        /\ \A d \in Conns : cs[d].st = conn[d].st /\ cs[d].b = conn[d].b
    <3>1. cs = conn \/ cs = GrantsRevoked(b)
      BY DEF ResolvedConns
    <3> QED BY <3>1, <1>t, GrantsRevokedFields DEF TypeOK
  <2> HIDE DEF cs
  <2>3. /\ ConnsOf(b)' \subseteq ConnsOf(b) \cup {c}
        /\ \A a \in Bindings \ {b} : ConnsOf(a)' \subseteq ConnsOf(a)
    BY <1>t, <2>1, <2>2, NewConnCounted
  <2> QED BY <1>t, <2>1, <2>3, InsertStep
<1>8. ASSUME NEW t \in Tasks, NEW c \in Conns, CreateDone(t, c) PROVE OverrunInv'
  <2> DEFINE b == task[t].b
  <2>1. b \in Bindings
    BY <1>8 DEF CreateDone, IInv, TaskRefs, Waiting
  <2>2. /\ Finish(t) /\ conn[c].st = "none"
        /\ conn' = NewConn(conn, c, b) \/ UNCHANGED conn
    BY <1>8 DEF CreateDone
  <2>3. t \in Creators(b)
    BY <1>8 DEF CreateDone, Creators
  <2>4. PICK k : k = b
    OBVIOUS
  <2>5. CASE UNCHANGED conn
    <3>1. CreatorsShrink
      BY <1>t, <2>2, FinishCounted
    <3> QED BY <2>5, <3>1, <1>c, ShrinkStep
  <2>6. CASE conn' = NewConn(conn, c, b)
    <3>1. k \in Bindings /\ conn' = NewConn(conn, c, k) /\ t \in Creators(k) /\ conn \in [Conns -> ConnRow]
      BY <2>1, <2>3, <2>4, <2>6, <1>t DEF TypeOK
    <3>2. /\ ConnsOf(k)' \subseteq ConnsOf(k) \cup {c}
          /\ \A a \in Bindings \ {k} : ConnsOf(a)' \subseteq ConnsOf(a)
      BY <1>t, <2>2, <3>1, NewConnCounted
    <3> QED BY <1>t, <2>2, <3>1, <3>2, InsertStep
  <2> QED BY <2>2, <2>5, <2>6
<1>9. ASSUME NEW t \in Tasks, UpdateDone(t) \/ GiveUp(t) PROVE OverrunInv'
  <2>1. CreatorsShrink
    BY <1>9, <1>t, FinishCounted DEF UpdateDone, GiveUp
  <2> QED BY <1>9, <2>1, <1>c, ShrinkStep DEF UpdateDone, GiveUp
<1>10. ASSUME NEW t \in Tasks, Rejected(t) \/ Reconcile(t) \/ PasswordChanged(t) PROVE OverrunInv'
  <2>1. CreatorsShrink
    BY <1>10, <1>t, FinishCounted DEF Rejected, Reconcile, PasswordChanged
  <2>2. UNCHANGED conn \/ \E b \in Bindings : conn' = GrantsRevoked(b)
    <3>1. CASE Rejected(t)
      BY <3>1 DEF Rejected, Invalidate, IInv, TaskRefs, Waiting
    <3>2. CASE Reconcile(t) \/ PasswordChanged(t)
      BY <3>2 DEF Reconcile, PasswordChanged, Invalidate, Live
    <3> QED BY <1>10, <3>1, <3>2
  <2>3. ConnsShrink
    BY <2>2, <1>c, <1>t, GrantsShrink
  <2> QED BY <2>1, <2>3, ShrinkStep
<1>11. ASSUME NEW t \in Tasks, Deleted(t) PROVE OverrunInv'
  <2>1. CreatorsShrink
    BY <1>11, <1>t, FinishCounted DEF Deleted
  <2>2. ASSUME NEW b \in Bindings,
               conn' = [c \in Conns |-> IF conn[c].b = b
                                          THEN [conn[c] EXCEPT !.st = "revoked", !.grant = 0]
                                          ELSE conn[c]]
        PROVE  ConnsShrink
    <3>1. ASSUME NEW c \in Conns, conn'[c].st = "enabled"
          PROVE  conn[c].st = "enabled" /\ conn'[c].b = conn[c].b
      <4>1. conn[c] \in ConnRow
        BY <1>t DEF TypeOK
      <4> DEFINE x == conn[c]
      <4>2. conn'[c] = IF x.b = b THEN [x EXCEPT !.st = "revoked", !.grant = 0] ELSE x
        BY <2>2
      <4> HIDE DEF x
      <4>3. x.b # b
        BY <3>1, <4>1, <4>2, ConnRevoked DEF x
      <4> QED BY <3>1, <4>2, <4>3 DEF x
    <3> QED BY <3>1, ConnsKept
  <2>3. ConnsShrink
    BY <1>11, <2>2, <1>c DEF Deleted, Live
  <2> QED BY <2>1, <2>3, ShrinkStep
<1>12. ASSUME NEW c \in Conns, Authorize(c) \/ RevokeConnection(c) PROVE OverrunInv'
  <2> DEFINE x == conn[c]
  <2>1. x \in ConnRow /\ UNCHANGED task
    BY <1>12, <1>t DEF TypeOK, Authorize, RevokeConnection
  <2>2. PICK i, g :
          /\ i \in {"enabled", x.st, "revoked"} /\ x.st = "enabled" /\ i # "none"
          /\ conn' = [conn EXCEPT ![c] = [x EXCEPT !.st = i, !.grant = g]]
    <3>1. CASE Authorize(c)
      <4> DEFINE g == binding[conn[c].b].fp
      <4>1. x.st = "enabled" /\ conn' = [conn EXCEPT ![c] = [x EXCEPT !.grant = g]]
        BY <3>1 DEF Authorize, Usable
      <4> HIDE DEF x, g
      <4>2. [x EXCEPT !.grant = g] = [x EXCEPT !.st = "enabled", !.grant = g]
        BY <2>1, <4>1 DEF ConnRow
      <4> QED BY <4>1, <4>2
    <3>2. CASE RevokeConnection(c)
      BY <3>2 DEF RevokeConnection
    <3> QED BY <1>12, <3>1, <3>2
  <2> DEFINE r == [x EXCEPT !.st = i, !.grant = g]
  <2> HIDE DEF x
  <2>3. r.b = x.b
    BY <2>1 DEF ConnRow
  <2> HIDE DEF r
  <2>4. \A d \in Conns : conn'[d] = IF d = c THEN r ELSE conn[d]
    BY <2>2, <1>t DEF r, TypeOK
  <2>5. ConnsShrink
    BY <2>2, <2>3, <2>4, ConnsKept DEF x
  <2> QED BY <2>1, <2>5, <1>u, ShrinkStep
<1>13. ASSUME Crash PROVE OverrunInv'
  <2>1. CreatorsShrink
    <3>1. \A t \in Tasks : task'[t] = Idle
      BY <1>13 DEF Crash
    <3> QED BY <3>1 DEF CreatorsShrink, Creators, Idle
  <2> QED BY <1>13, <2>1, <1>c, ShrinkStep DEF Crash
<1> QED
  BY <1>1, <1>2, <1>3, <1>4, <1>5, <1>6, <1>7, <1>8, <1>9, <1>10, <1>11, <1>12, <1>13
     DEF Next, Mailbox, Provision, Use, Signals

(***************************************************************************)
(* The limit on a mailbox's connections is checked before the log-in and   *)
(* not after it, so concurrent creates can overrun it; whatever overlaps,  *)
(* by fewer connections than there are handlers at once.                   *)
(***************************************************************************)
THEOREM OverrunIsBounded == Spec => []LimitOverrun
<1>1. Init => OverrunInv
  <2> SUFFICES ASSUME Init, NEW b \in Bindings PROVE Fits(ConnsOf(b), Creators(b))
    BY DEF OverrunInv
  <2>1. ConnsOf(b) = {}
    BY DEF Init, ConnsOf, NoConnRow
  <2>2. Cardinality(ConnsOf(b)) = 0
    BY <2>1, FS_EmptySet
  <2> QED BY <2>2, BoundAssumption DEF Fits
<1>2. ASSUME IInv, OverrunInv, [Next]_vars PROVE OverrunInv'
  <2>1. CASE Next
    BY <1>2, <2>1, OverrunStep
  <2>2. CASE UNCHANGED vars
    BY <1>2, <2>2 DEF vars, OverrunInv, Fits, ConnsOf, Creators
  <2> QED BY <1>2, <2>1, <2>2
<1>3. ASSUME OverrunInv PROVE LimitOverrun
  <2> SUFFICES ASSUME NEW b \in Bindings
               PROVE  Cardinality(ConnsOf(b)) < MaxConns + Cardinality(Tasks)
    BY DEF LimitOverrun
  <2>1. ConnsOf(b) \subseteq Conns /\ Creators(b) \subseteq Tasks
    BY DEF ConnsOf, Creators
  <2>2. IsFiniteSet(ConnsOf(b)) /\ IsFiniteSet(Creators(b))
    BY <2>1, FiniteAssumption, FS_Subset
  <2>3. /\ Cardinality(ConnsOf(b)) \in Nat /\ Cardinality(Creators(b)) \in Nat
        /\ Cardinality(Tasks) \in Nat
    BY <2>2, FiniteAssumption, FS_CardinalityType
  <2>4. Fits(ConnsOf(b), Creators(b))
    BY <1>3 DEF OverrunInv
  <2> QED BY <2>3, <2>4, BoundAssumption DEF Fits
<1> QED BY <1>1, <1>2, <1>3, Invariance, PTL DEF Spec
=============================================================================
