--------------------------- MODULE McpToolsProofs ---------------------------
(***************************************************************************)
(* Proofs about McpTools, for every number of calls, messages, folders,    *)
(* keys and sessions.                                                      *)
(*                                                                         *)
(* The invariant has four parts besides the types.  Ledger: what the rows  *)
(* a call holds look like while it waits, that no two calls hold one row,  *)
(* and that a key is posted at most once and then has a row.  Names: a     *)
(* folder's UIDs are handed out once per UIDVALIDITY, so a reference that  *)
(* is still current names the message it was made for or nothing.  Shape:  *)
(* what a deletion still has to move and has moved is what it was asked,   *)
(* one row for each.  Sessions: whoever moves messages holds a session.    *)
(***************************************************************************)
EXTENDS McpTools, TLAPS, FiniteSetTheorems

(***************************************************************************)
(* Ledger                                                                  *)
(***************************************************************************)
\* Calls that will write the rows they hold, and calls that only read theirs
Writers == {"smtp", "copy", "check", "move"}
Restorers == {"next", "find", "putback", "mark"}

\* The rows of a call that waits
RowsHold(k) ==
  /\ k.at \in {"idle", "read", "reply"} => k.rows = {}
  /\ k.at \in {"smtp", "copy"} =>
       \A o \in k.rows : op[o].kind = "send" /\ op[o].st = "pending"
  /\ k.at \in {"check", "move"} => \A o \in k.rows : op[o].kind = "none"
  /\ k.at \in Restorers => \A o \in k.rows : op[o].kind = "delete"

\* No two calls write one row.
RowsApart ==
  \A t, u \in Tasks :
    t # u /\ task[t].at \in Writers /\ task[u].at \in Writers =>
      task[t].rows \cap task[u].rows = {}

\* A key that was posted has its row.
KeysOnce == \A k \in Keys : posted[k] = 0 \/ (posted[k] = 1 /\ KeyUsed(k))

\* A send has a state.
SendsHaveState == \A o \in Ops : op[o].kind = "send" => op[o].st # "none"

LedgerInv ==
  /\ \A t \in Tasks : RowsHold(task[t])
  /\ RowsApart /\ KeysOnce /\ SendsHaveState /\ LedgerTellsTruth

(***************************************************************************)
(* Names                                                                   *)
(***************************************************************************)
\* A folder's next UID is above those in use; only a message that is gone has none.
Placed ==
  \A m \in Msgs : IF box[m].u = 0 THEN box[m] = Gone ELSE box[m].u < dir[box[m].f].next

\* A UID names one message of a folder.
OneEach ==
  \A m, n \in Msgs : box[m].u # 0 /\ box[m].u = box[n].u /\ box[m].f = box[n].f => m = n

\* UIDVALIDITY only changes by what others do.
Epochs == \A f \in Places : dir[f].v <= outside

\* If it is current, it names its message or none.
Good(r) ==
  /\ r.v <= dir[r.f].v
  /\ Current(r) => /\ r.u < dir[r.f].next
                   /\ \A m \in Msgs : box[m].f = r.f /\ box[m].u = r.u => m = r.m

\* Good, and in Trash
InTrash(R) == \A r \in R : Good(r) /\ r.f = Trash

\* The references a call holds.  A folder that is selected keeps its UIDVALIDITY.
RefsHold(k) ==
  /\ \A r \in k.refs : Good(r)
  /\ \A e \in k.moved : InTrash(e.ref)
  /\ k.at \in {"find", "putback", "mark"} => InTrash(k.refs)
  /\ k.at = "move" => \A r \in k.refs : r.f \in k.f => Current(r)
  /\ k.at = "putback" => \A r \in k.refs : Current(r)

BoxInv == Placed /\ OneEach /\ Epochs
NamesInv ==
  /\ BoxInv
  /\ \A o \in Ops : InTrash(op[o].ref)
  /\ \A t \in Tasks : RefsHold(task[t])

(***************************************************************************)
(* Shape and sessions                                                      *)
(***************************************************************************)
Froms(k) == {e.from : e \in k.moved}

\* A deletion's rows are as many as its references, moved or not.
Shape(k) ==
  /\ k.at \in {"check", "move"} =>
       /\ Cardinality(k.rows) = Cardinality(k.refs \cup Froms(k))
       /\ k.refs \cap Froms(k) = {}
       /\ IsFiniteSet(k.refs \cup Froms(k))
       /\ \A e, g \in k.moved : e.from = g.from => e = g
  /\ k.at \in {"next", "find", "putback"} => k.hit = {}
  /\ k.hit \subseteq {r.m : r \in k.refs} \cup {e.from.m : e \in k.moved}

SessionsInv ==
  /\ SessionsBounded
  /\ \A t \in Tasks : task[t].at \in {"move", "putback", "mark"} => t \in sess.in

IInv ==
  /\ TypeOK /\ LedgerInv /\ NamesInv /\ SessionsInv /\ SendLimit
  /\ \A t \in Tasks : Shape(task[t])

-----------------------------------------------------------------------------
(***************************************************************************)
(* Rows and handlers                                                       *)
(***************************************************************************)

\* The row that stands for "no row", and an idle handler.
LEMMA NullRows ==
  /\ NoRow \in OpRow /\ NoRow.kind = "none" /\ NoRow.ref = {}
  /\ Idle \in TaskState /\ Idle.at = "idle"
  /\ RowsHold(Idle) /\ RefsHold(Idle) /\ Shape(Idle)
<1>1. NoRow \in OpRow /\ NoRow.kind = "none" /\ NoRow.ref = {}
  BY DEF NoRow, OpRow, Ages, Fates
<1>2. Idle \in TaskState /\ Idle.at = "idle" /\ RowsHold(Idle) /\ Shape(Idle)
  BY DEF Idle, TaskState, Ages, RowsHold, Restorers, Shape
<1>3. RefsHold(Idle)
  BY DEF Idle, RefsHold, InTrash
<1> QED BY <1>1, <1>2, <1>3

\* The fields of a handler
LEMMA TaskFields ==
  ASSUME NEW k \in TaskState
  PROVE  /\ k.rows \subseteq Ops /\ k.f \subseteq Places /\ k.refs \subseteq Refs
         /\ k.moved \subseteq [from : Refs, ref : SUBSET Refs] /\ k.hit \subseteq Msgs
         /\ k.key \in Keys \cup {NoKey} /\ k.age \in Ages
BY DEF TaskState

\* The fields of a ledger row
LEMMA RowFields ==
  ASSUME NEW r \in OpRow
  PROVE  /\ r.kind \in {"none", "send", "delete"}
         /\ r.st \in {"none", "pending", "completed", "failed", "unknown"}
         /\ r.key \in Keys \cup {NoKey} /\ r.age \in Ages
         /\ r.from \subseteq Places /\ r.ref \subseteq Refs
         /\ r.back \in BOOLEAN /\ r.got \in Fates
BY DEF OpRow

\* One handler's state changes.
LEMMA TaskPut ==
  ASSUME TypeOK, NEW t \in Tasks, NEW k \in TaskState, task' = [task EXCEPT ![t] = k]
  PROVE  /\ task' \in [Tasks -> TaskState] /\ task'[t] = k
         /\ \A u \in Tasks \ {t} : task'[u] = task[u]
BY DEF TypeOK

\* The ledger's set is finite.
LEMMA OpsFinite == IsFiniteSet(Ops) /\ Cardinality(Ops) \in Nat
BY FS_Interval, FS_CardinalityType, LimitAssumption DEF Ops

\* n new rows: n of them, unwritten, and no call has set them aside.
LEMMA NewRowsAre ==
  ASSUME TypeOK, NEW n, NEW rows \in NewRows(n)
  PROVE  /\ rows \subseteq Ops /\ IsFiniteSet(rows) /\ Cardinality(rows) = n
         /\ \A o \in rows : op[o].kind = "none" /\ \A t \in Tasks : o \notin task[t].rows
<1>1. rows \subseteq Fresh /\ Cardinality(rows) = n
  BY DEF NewRows
<1>2. rows \subseteq Ops
  BY <1>1 DEF Fresh
<1>3. IsFiniteSet(rows)
  BY <1>2, OpsFinite, FS_Subset
<1> QED BY <1>1, <1>2, <1>3 DEF Fresh

-----------------------------------------------------------------------------
(***************************************************************************)
(* Steps that leave the ledger alone                                       *)
(***************************************************************************)

\* A row holds what it held for whoever reads it.
LEMMA RowsHoldSame ==
  ASSUME NEW k, RowsHold(k), UNCHANGED op
  PROVE  RowsHold(k)'
BY DEF RowsHold

\* A handler goes on with rows that are its own, or with none to write.
LEMMA LedgerTask ==
  ASSUME TypeOK, LedgerInv, UNCHANGED <<op, posted>>,
         NEW t \in Tasks, NEW k \in TaskState, RowsHold(k),
         task' = [task EXCEPT ![t] = k],
         k.at \in Writers =>
           \/ task[t].at \in Writers /\ k.rows = task[t].rows
           \/ \A u \in Tasks : k.rows \cap task[u].rows = {}
  PROVE  LedgerInv'
<1>1. /\ task' \in [Tasks -> TaskState] /\ task'[t] = k
      /\ \A u \in Tasks \ {t} : task'[u] = task[u]
  BY TaskPut
<1>2. ASSUME NEW u \in Tasks PROVE RowsHold(task[u])'
  <2>1. RowsHold(task'[u])
    BY <1>1 DEF LedgerInv
  <2> QED BY <2>1 DEF RowsHold
<1>3. RowsApart'
  <2> SUFFICES ASSUME NEW u \in Tasks, NEW v \in Tasks, u # v,
                      task'[u].at \in Writers, task'[v].at \in Writers
               PROVE  task'[u].rows \cap task'[v].rows = {}
    BY DEF RowsApart
  <2>1. CASE u # t /\ v # t
    BY <1>1, <2>1 DEF LedgerInv, RowsApart
  <2>2. CASE u = t
    BY <1>1, <2>2 DEF LedgerInv, RowsApart
  <2>3. CASE v = t
    BY <1>1, <2>3 DEF LedgerInv, RowsApart
  <2> QED BY <2>1, <2>2, <2>3
<1>4. KeysOnce' /\ SendsHaveState' /\ LedgerTellsTruth'
  BY DEF LedgerInv, KeysOnce, KeyUsed, SendsHaveState, LedgerTellsTruth
<1> QED BY <1>2, <1>3, <1>4 DEF LedgerInv

\* Neither the ledger nor a handler changes.
LEMMA LedgerSame ==
  ASSUME LedgerInv, UNCHANGED <<op, posted, task>>
  PROVE  LedgerInv'
BY DEF LedgerInv, RowsHold, RowsApart, KeysOnce, KeyUsed, SendsHaveState, LedgerTellsTruth

\* The sends of the last hour that count
Recent == {o \in Ops : op[o].kind = "send" /\ op[o].age = "hour" /\ op[o].st # "failed"}

\* Both are finite.
LEMMA RecentFinite ==
  /\ IsFiniteSet(Recent) /\ Cardinality(Recent) \in Nat
  /\ IsFiniteSet(Replying) /\ Cardinality(Replying) \in Nat
  /\ Cardinality(Replying) <= Cardinality(Tasks)
  /\ Cardinality(Tasks) \in Nat
<1>1. Recent \subseteq Ops /\ Replying \subseteq Tasks
  BY DEF Recent, Replying
<1>2. IsFiniteSet(Recent) /\ IsFiniteSet(Replying) /\ Cardinality(Replying) <= Cardinality(Tasks)
  BY <1>1, OpsFinite, FS_Subset, FiniteAssumption
<1> QED BY <1>2, FS_CardinalityType, FiniteAssumption

\* No send is added and no reply begins.
LEMMA LimitKept ==
  ASSUME SendLimit, Recent' \subseteq Recent, Replying' \subseteq Replying
  PROVE  SendLimit'
<1>1. Cardinality(Recent') <= Cardinality(Recent) /\ Cardinality(Recent') \in Nat
  BY RecentFinite, FS_Subset, FS_CardinalityType
<1>2. Cardinality(Replying') <= Cardinality(Replying) /\ Cardinality(Replying') \in Nat
  BY RecentFinite, FS_Subset, FS_CardinalityType
<1>3. Cardinality(Recent) + Cardinality(Replying) <= PerHour + Cardinality(Tasks) - 1
  BY DEF SendLimit, Recent
<1>4. Cardinality(Recent') + Cardinality(Replying') <= PerHour + Cardinality(Tasks) - 1
  BY <1>1, <1>2, <1>3, RecentFinite, LimitAssumption
<1> QED BY <1>4 DEF SendLimit, Recent

\* The same, where the ledger is not written
LEMMA LimitTask ==
  ASSUME TypeOK, SendLimit, UNCHANGED op, NEW t \in Tasks, NEW k \in TaskState, k.at # "reply",
         task' = [task EXCEPT ![t] = k]
  PROVE  SendLimit'
<1>1. Recent' = Recent
  BY DEF Recent
<1>2. Replying' \subseteq Replying
  BY TaskPut DEF Replying
<1> QED BY <1>1, <1>2, LimitKept

-----------------------------------------------------------------------------
(***************************************************************************)
(* Sessions                                                                *)
(***************************************************************************)

\* An element more.
LEMMA AddOne ==
  ASSUME NEW X, IsFiniteSet(X), NEW x
  PROVE  /\ IsFiniteSet(X \cup {x}) /\ Cardinality(X) \in Nat /\ Cardinality(X \cup {x}) \in Nat
         /\ Cardinality(X \cup {x}) <= Cardinality(X) + 1
<1>1. IsFiniteSet(X \cup {x})
      /\ Cardinality(X \cup {x}) = IF x \in X THEN Cardinality(X) ELSE Cardinality(X) + 1
  BY FS_AddElement
<1>2. Cardinality(X) \in Nat
  BY FS_CardinalityType
<1> QED BY <1>1, <1>2

\* Whoever seeks a session gets a free one or waits.
LEMMA SeekKeeps ==
  ASSUME TypeOK, SessionsBounded, NEW t \in Tasks, sess' = Seek(t)
  PROVE  /\ sess' \in [in : SUBSET Tasks, q : Seq(Tasks)]
         /\ sess.in \subseteq sess'.in /\ SessionsBounded'
<1>1. sess \in [in : SUBSET Tasks, q : Seq(Tasks)]
  BY DEF TypeOK
<1>2. CASE Cardinality(sess.in) < Limit
  <2>1. sess' = [in |-> sess.in \cup {t}, q |-> sess.q]
    BY <1>1, <1>2 DEF Seek
  <2>2. IsFiniteSet(sess.in)
    BY <1>1, FS_Subset, FiniteAssumption
  <2>3. /\ Cardinality(sess.in \cup {t}) <= Cardinality(sess.in) + 1
        /\ Cardinality(sess.in) \in Nat /\ Cardinality(sess.in \cup {t}) \in Nat
    BY <2>2, AddOne
  <2>4. Cardinality(sess'.in) <= Limit
    BY <1>2, <2>1, <2>3, LimitAssumption
  <2> QED BY <1>1, <2>1, <2>4 DEF SessionsBounded
<1>3. CASE ~(Cardinality(sess.in) < Limit)
  <2>1. sess' = [in |-> sess.in, q |-> Append(sess.q, t)]
    BY <1>1, <1>3 DEF Seek
  <2> QED BY <1>1, <2>1 DEF SessionsBounded
<1> QED BY <1>2, <1>3

\* Whoever leaves makes room for one.
LEMMA LeftKeeps ==
  ASSUME TypeOK, SessionsBounded, NEW t \in sess.in, sess' = Left(t)
  PROVE  /\ sess' \in [in : SUBSET Tasks, q : Seq(Tasks)]
         /\ sess.in \ {t} \subseteq sess'.in /\ SessionsBounded'
<1>1. sess \in [in : SUBSET Tasks, q : Seq(Tasks)]
  BY DEF TypeOK
<1>2. IsFiniteSet(sess.in) /\ Cardinality(sess.in) \in Nat
  BY <1>1, FS_Subset, FS_CardinalityType, FiniteAssumption
<1>3. IsFiniteSet(sess.in \ {t}) /\ Cardinality(sess.in \ {t}) = Cardinality(sess.in) - 1
  BY <1>2, FS_RemoveElement
<1>4. CASE sess.q = <<>>
  <2>1. sess' = [in |-> sess.in \ {t}, q |-> sess.q]
    BY <1>1, <1>4 DEF Left
  <2>2. Cardinality(sess'.in) <= Limit
    BY <1>2, <1>3, <2>1, LimitAssumption DEF SessionsBounded
  <2> QED BY <1>1, <2>1, <2>2 DEF SessionsBounded
<1>5. CASE sess.q # <<>>
  <2> DEFINE h == Head(sess.q)
  <2>1. sess' = [in |-> (sess.in \ {t}) \cup {h}, q |-> Tail(sess.q)]
    BY <1>5 DEF Left
  <2>2. h \in Tasks /\ Tail(sess.q) \in Seq(Tasks)
    BY <1>1, <1>5
  <2>3. /\ Cardinality((sess.in \ {t}) \cup {h}) <= Cardinality(sess.in \ {t}) + 1
        /\ Cardinality((sess.in \ {t}) \cup {h}) \in Nat
    BY <1>3, AddOne
  <2>4. Cardinality((sess.in \ {t}) \cup {h}) <= Cardinality(sess.in)
    BY <1>2, <1>3, <2>3
  <2>5. Cardinality(sess'.in) <= Limit
    BY <1>2, <2>1, <2>3, <2>4, LimitAssumption DEF SessionsBounded
  <2> QED BY <1>1, <2>1, <2>2, <2>5 DEF SessionsBounded
<1> QED BY <1>4, <1>5

\* One handler goes on, and the others keep their sessions.
LEMMA SessionsTask ==
  ASSUME TypeOK, SessionsInv, SessionsBounded', NEW t \in Tasks, NEW k \in TaskState,
         task' = [task EXCEPT ![t] = k], sess.in \ {t} \subseteq sess'.in,
         k.at \in {"move", "putback", "mark"} => t \in sess'.in
  PROVE  SessionsInv'
BY TaskPut DEF SessionsInv

\* The same, and nobody's session changes.
LEMMA SessionsStay ==
  ASSUME TypeOK, SessionsInv, UNCHANGED sess, NEW t \in Tasks, NEW k \in TaskState,
         task' = [task EXCEPT ![t] = k],
         k.at \in {"move", "putback", "mark"} => t \in sess.in
  PROVE  SessionsInv'
<1>1. SessionsBounded'
  BY DEF SessionsInv, SessionsBounded
<1> QED BY <1>1, SessionsTask

-----------------------------------------------------------------------------
(***************************************************************************)
(* Messages and their names                                                *)
(***************************************************************************)

\* The fields of a reference
LEMMA RefFields ==
  ASSUME NEW r \in Refs
  PROVE  r.f \in Places /\ r.v \in 0 .. MaxOutside /\ r.u \in Uids /\ r.m \in Msgs
BY DEF Refs

\* A set of messages is finite.
LEMMA MsgsFinite ==
  ASSUME NEW ms \in SUBSET Msgs
  PROVE  IsFiniteSet(ms) /\ Cardinality(ms) \in Nat /\ Cardinality(ms) <= Cardinality(Msgs)
         /\ Cardinality(Msgs) \in Nat
BY FS_Subset, FS_CardinalityType, FiniteAssumption

\* The UIDs handed out use up the folder's next ones, within the bound.
LEMMA ArrivalsFit ==
  ASSUME TypeOK, NEW ms \in SUBSET Msgs, NEW f \in Places, NEW u \in Arrivals(ms, f)
  PROVE  dir[f].next + Cardinality(ms) \in 1 .. MaxUid + 1
<1> DEFINE n == Cardinality(ms)
           a == dir[f].next
           I == a .. a + n - 1
<1>1. a \in 1 .. MaxUid + 1 /\ n \in Nat /\ IsFiniteSet(ms)
  BY MsgsFinite DEF TypeOK
<1>2. CASE n = 0
  BY <1>1, <1>2, LimitAssumption
<1>3. CASE n # 0
  <2> HIDE DEF n, a
  <2>1. IsFiniteSet(I) /\ Cardinality(I) = n
    BY <1>1, <1>3, FS_Interval
  <2>2. u \in [ms -> I] /\ u \in [ms -> Uids] /\ \A m, k \in ms : m # k => u[m] # u[k]
    BY DEF Arrivals, n, a
  <2>3. u \in Injection(ms, I)
    BY <2>2 DEF Injection, IsInjective
  <2>4. u \in Surjection(ms, I)
    BY <2>1, <2>3, FS_Injection DEF n
  <2>5. a + n - 1 \in I
    BY <1>1, <1>3
  <2>6. PICK m \in ms : u[m] = a + n - 1
    BY <2>4, <2>5 DEF Surjection
  <2>7. a + n - 1 \in 1 .. MaxUid
    BY <2>2, <2>6 DEF Uids
  <2> QED BY <1>1, <2>7, LimitAssumption DEF n, a
<1> QED BY <1>2, <1>3

\* What a move makes of the mailbox.  References stay good: the UIDs a folder
\* hands out are above those that references have.
LEMMA MoveKeeps ==
  ASSUME TypeOK, BoxInv, NEW ms \in SUBSET Msgs, NEW f \in Places, NEW u \in Arrivals(ms, f),
         MoveTo(ms, f, u), outside' \in Nat, outside <= outside'
  PROVE  /\ box' \in [Msgs -> [f : Places, u : 0 .. MaxUid]]
         /\ dir' \in [Places -> [v : 0 .. MaxOutside, next : 1 .. MaxUid + 1]]
         /\ BoxInv'
         /\ \A g \in Places : dir'[g].v = dir[g].v
         /\ \A r \in Refs : Good(r) => Good(r)'
         /\ \A m \in ms : box'[m].f = f /\ box'[m].u = u[m] /\ u[m] < dir'[f].next
                          /\ u[m] \in Uids
         /\ \A m \in Msgs \ ms : box'[m] = box[m]
<1> DEFINE n == Cardinality(ms)
<1>1. n \in Nat /\ dir[f].next + n \in 1 .. MaxUid + 1
  BY ArrivalsFit, MsgsFinite
<1>2. \A m \in ms : u[m] \in Uids /\ u[m] >= dir[f].next /\ u[m] < dir[f].next + n
  <2>1. dir[f].next \in Int
    BY DEF TypeOK
  <2>2. \A m \in ms : u[m] \in Uids /\ u[m] \in dir[f].next .. dir[f].next + n - 1
    BY DEF Arrivals
  <2> QED BY <1>1, <2>1, <2>2 DEF Uids
<1>3. \A m, k \in ms : m # k => u[m] # u[k]
  BY DEF Arrivals
<1>4. /\ \A m \in ms : box'[m] = [f |-> f, u |-> u[m]]
      /\ \A m \in Msgs \ ms : box'[m] = box[m]
  BY DEF MoveTo
<1>5. box' \in [Msgs -> [f : Places, u : 0 .. MaxUid]]
  <2>1. \A m \in ms : u[m] \in 0 .. MaxUid
    BY <1>2 DEF Uids
  <2> QED BY <2>1 DEF MoveTo, TypeOK
<1>6. /\ dir'[f].next = dir[f].next + n /\ dir'[f].v = dir[f].v
      /\ \A g \in Places \ {f} : dir'[g] = dir[g]
      /\ dir' \in [Places -> [v : 0 .. MaxOutside, next : 1 .. MaxUid + 1]]
  <2> HIDE DEF n
  <2>1. dir \in [Places -> [v : 0 .. MaxOutside, next : 1 .. MaxUid + 1]]
    BY DEF TypeOK
  <2>2. dir' = [dir EXCEPT ![f] = [dir[f] EXCEPT !.next = dir[f].next + n]]
    BY <2>1 DEF MoveTo, n
  <2>3. [dir[f] EXCEPT !.next = dir[f].next + n] = [v |-> dir[f].v, next |-> dir[f].next + n]
    BY <2>1
  <2> QED BY <1>1, <2>1, <2>2, <2>3
<1>7. \A g \in Places : dir'[g].next >= dir[g].next /\ dir'[g].v = dir[g].v
      /\ dir[g].next \in Int /\ dir'[g].next \in Int /\ dir[g].v \in Int
  <2>1. ASSUME NEW g \in Places
        PROVE  dir[g].next \in Int /\ dir'[g].next \in Int /\ dir[g].v \in Int
    BY <1>6 DEF TypeOK
  <2>2. ASSUME NEW g \in Places
        PROVE  dir'[g].next >= dir[g].next /\ dir'[g].v = dir[g].v
    <3>1. CASE g = f
      BY <1>1, <1>6, <2>1, <3>1
    <3>2. CASE g # f
      BY <1>6, <2>1, <3>2
    <3> QED BY <3>1, <3>2
  <2> QED BY <2>1, <2>2
<1>8. \A m \in Msgs : box[m].f \in Places /\ box[m].u \in 0 .. MaxUid
  BY DEF TypeOK
<1> HIDE DEF n
<1>9. \A m \in ms : box'[m].f = f /\ box'[m].u = u[m] /\ u[m] < dir'[f].next /\ u[m] \in Uids
                     /\ u[m] >= dir[f].next /\ u[m] # 0
  <2> SUFFICES ASSUME NEW m \in ms
               PROVE  box'[m].f = f /\ box'[m].u = u[m] /\ u[m] < dir'[f].next /\ u[m] \in Uids
                      /\ u[m] >= dir[f].next /\ u[m] # 0
    OBVIOUS
  <2>1. box'[m].f = f /\ box'[m].u = u[m]
    <3>1. box'[m] = [f |-> f, u |-> u[m]]
      BY <1>4
    <3> QED BY <3>1
  <2>2. u[m] \in Uids /\ u[m] >= dir[f].next /\ u[m] < dir[f].next + n
    BY <1>2
  <2>3. u[m] # 0
    BY <2>2 DEF Uids
  <2> QED BY <1>6, <2>1, <2>2, <2>3
<1>10. Placed'
  <2> SUFFICES ASSUME NEW m \in Msgs
               PROVE  IF box'[m].u = 0 THEN box'[m] = Gone ELSE box'[m].u < dir'[box'[m].f].next
    BY DEF Placed, Gone
  <2>1. CASE m \in ms
    BY <1>9, <2>1
  <2>2. CASE m \notin ms
    BY <1>4, <1>7, <1>8, <2>2 DEF BoxInv, Placed
  <2> QED BY <2>1, <2>2
<1>11. OneEach'
  <2> SUFFICES ASSUME NEW m \in Msgs, NEW k \in Msgs, box'[m].u # 0, box'[m].u = box'[k].u,
                      box'[m].f = box'[k].f
               PROVE  m = k
    BY DEF OneEach
  <2>1. CASE m \in ms /\ k \in ms
    BY <1>3, <1>9, <2>1
  <2>2. CASE m \in ms /\ k \notin ms
    BY <1>4, <1>7, <1>8, <1>9, <2>2 DEF BoxInv, Placed, Uids
  <2>3. CASE m \notin ms /\ k \in ms
    BY <1>4, <1>7, <1>8, <1>9, <2>3 DEF BoxInv, Placed, Uids
  <2>4. CASE m \notin ms /\ k \notin ms
    BY <1>4, <2>4 DEF BoxInv, OneEach
  <2> QED BY <2>1, <2>2, <2>3, <2>4
<1>12. Epochs'
  BY <1>7, LimitAssumption DEF BoxInv, Epochs, TypeOK
<1>13. ASSUME NEW r \in Refs, Good(r) PROVE Good(r)'
  <2>1. r.f \in Places /\ r.v \in 0 .. MaxOutside /\ r.u \in Uids /\ r.m \in Msgs
    BY RefFields
  <2>2. r.v <= dir'[r.f].v
    BY <1>7, <1>13, <2>1 DEF Good
  <2>3. ASSUME Current(r)'
        PROVE  r.u < dir'[r.f].next
               /\ \A m \in Msgs : box'[m].f = r.f /\ box'[m].u = r.u => m = r.m
    <3>1. Current(r)
      BY <1>7, <2>1, <2>3 DEF Current
    <3>2. r.u < dir[r.f].next /\ \A m \in Msgs : box[m].f = r.f /\ box[m].u = r.u => m = r.m
      BY <1>13, <3>1 DEF Good
    <3>3. r.u < dir'[r.f].next
      BY <1>7, <2>1, <3>2 DEF Uids
    <3>4. ASSUME NEW m \in Msgs, box'[m].f = r.f, box'[m].u = r.u PROVE m = r.m
      <4>1. m \notin ms
        BY <1>7, <1>9, <2>1, <3>2, <3>4 DEF Uids
      <4> QED BY <1>4, <3>2, <3>4, <4>1
    <3> QED BY <3>3, <3>4
  <2> QED BY <2>2, <2>3 DEF Good
<1> QED BY <1>4, <1>5, <1>6, <1>7, <1>9, <1>10, <1>11, <1>12, <1>13 DEF BoxInv

\* Where mailbox and folders stay, so do the references.
LEMMA NamesTask ==
  ASSUME TypeOK, NamesInv, UNCHANGED <<box, dir, outside>>,
         NEW t \in Tasks, NEW k \in TaskState, RefsHold(k), task' = [task EXCEPT ![t] = k],
         \A o \in Ops : InTrash(op'[o].ref)
  PROVE  NamesInv'
<1>1. BoxInv'
  BY DEF NamesInv, BoxInv, Placed, OneEach, Epochs, Gone
<1>2. \A r : Good(r)' <=> Good(r)
  BY DEF Good, Current
<1>3. \A o \in Ops : InTrash(op[o].ref)'
  BY <1>2 DEF InTrash
<1>4. ASSUME NEW u \in Tasks PROVE RefsHold(task[u])'
  <2>1. RefsHold(task'[u])
    BY TaskPut DEF NamesInv
  <2> QED BY <1>2, <2>1 DEF RefsHold, InTrash, Current
<1> QED BY <1>1, <1>3, <1>4 DEF NamesInv

\* A call goes from one wait to the next, and ledger and mailbox stay.
LEMMA QuietStep ==
  ASSUME IInv, UNCHANGED <<box, dir, op, posted, outside>>,
         NEW t \in Tasks, NEW k \in TaskState, task' = [task EXCEPT ![t] = k],
         RowsHold(k), RefsHold(k), Shape(k), SendLimit',
         k.at \in Writers =>
           \/ task[t].at \in Writers /\ k.rows = task[t].rows
           \/ \A u \in Tasks : k.rows \cap task[u].rows = {},
         calls' \in 0 .. PerMinute, cred' \in BOOLEAN,
         sess' \in [in : SUBSET Tasks, q : Seq(Tasks)], SessionsBounded',
         sess.in \ {t} \subseteq sess'.in,
         k.at \in {"move", "putback", "mark"} => t \in sess'.in
  PROVE  IInv'
<1>1. task' \in [Tasks -> TaskState] /\ task'[t] = k /\ \A u \in Tasks \ {t} : task'[u] = task[u]
  BY TaskPut DEF IInv
<1>2. TypeOK'
  BY <1>1 DEF IInv, TypeOK
<1>3. LedgerInv'
  BY LedgerTask DEF IInv
<1>4. NamesInv'
  <2>1. \A o \in Ops : InTrash(op'[o].ref)
    BY DEF IInv, NamesInv
  <2> QED BY <2>1, NamesTask DEF IInv
<1>5. SessionsInv'
  BY SessionsTask DEF IInv
<1>6. \A u \in Tasks : Shape(task[u])'
  <2>1. \A u \in Tasks : Shape(task'[u])
    BY <1>1 DEF IInv
  <2> QED BY <2>1 DEF Shape, Froms
<1> QED BY <1>2, <1>3, <1>4, <1>5, <1>6 DEF IInv

\* A call ends, or gives up its place to look at the next row: what it held it
\* never wrote.
LEMMA EndStep ==
  ASSUME IInv, UNCHANGED <<box, dir, op, posted, outside, calls>>, cred' \in BOOLEAN,
         NEW t \in sess.in, sess' = Left(t),
         \/ task' = [task EXCEPT ![t] = Idle]
         \/ task[t].at \in Restorers
            /\ task' = [task EXCEPT ![t] = [Idle EXCEPT !.at = "next", !.rows = task[t].rows]]
  PROVE  IInv'
<1>1. t \in Tasks /\ task[t] \in TaskState /\ task[t].rows \subseteq Ops /\ RowsHold(task[t])
  BY TaskFields DEF IInv, TypeOK, LedgerInv
<1>2. /\ sess' \in [in : SUBSET Tasks, q : Seq(Tasks)] /\ SessionsBounded'
      /\ sess.in \ {t} \subseteq sess'.in
  BY LeftKeeps DEF IInv, SessionsInv
<1>3. calls' \in 0 .. PerMinute
  BY DEF IInv, TypeOK
<1>4. CASE task' = [task EXCEPT ![t] = Idle]
  <2>1. SendLimit'
    BY <1>1, <1>4, NullRows, LimitTask DEF IInv
  <2> QED BY <1>1, <1>2, <1>3, <1>4, <2>1, NullRows, QuietStep DEF Writers
<1>5. CASE task[t].at \in Restorers
           /\ task' = [task EXCEPT ![t] = [Idle EXCEPT !.at = "next", !.rows = task[t].rows]]
  <2> DEFINE k == [Idle EXCEPT !.at = "next", !.rows = task[t].rows]
  <2>1. k \in TaskState /\ k.at = "next" /\ k.rows = task[t].rows /\ k.refs = {} /\ k.moved = {}
        /\ k.hit = {}
    BY <1>1 DEF Idle, TaskState, Ages
  <2> HIDE DEF k
  <2>2. RowsHold(k)
    BY <1>1, <1>5, <2>1 DEF RowsHold, Restorers
  <2>3. RefsHold(k) /\ Shape(k)
    BY <2>1 DEF RefsHold, Shape
  <2>4. task' = [task EXCEPT ![t] = k]
    BY <1>5 DEF k
  <2>5. SendLimit'
    BY <1>1, <2>1, <2>4, LimitTask DEF IInv
  <2> QED BY <1>1, <1>2, <1>3, <2>1, <2>2, <2>3, <2>4, <2>5, QuietStep DEF Writers
<1> QED BY <1>4, <1>5

\* The limiter's count keeps its bound.
LEMMA AllowedFits ==
  ASSUME TypeOK, Allowed
  PROVE  calls' \in 0 .. PerMinute
BY LimitAssumption DEF TypeOK, Allowed

\* A session is sought: the others keep theirs.
LEMMA SeekFits ==
  ASSUME IInv, NEW t \in Tasks, sess' = Seek(t)
  PROVE  /\ sess' \in [in : SUBSET Tasks, q : Seq(Tasks)] /\ SessionsBounded'
         /\ sess.in \ {t} \subseteq sess'.in
BY SeekKeeps DEF IInv, SessionsInv

-----------------------------------------------------------------------------
(***************************************************************************)
(* Any tool                                                                *)
(***************************************************************************)
LEMMA ReadKeeps ==
  ASSUME IInv, NEW t \in Tasks, Read(t)
  PROVE  IInv'
<1> DEFINE k == [Idle EXCEPT !.at = "read"]
<1>1. k \in TaskState /\ k.at = "read" /\ RowsHold(k) /\ RefsHold(k) /\ Shape(k)
  <2>1. k = [at |-> "read", key |-> NoKey, age |-> "hour", rows |-> {}, f |-> {},
             refs |-> {}, moved |-> {}, hit |-> {}]
    BY DEF Idle
  <2> HIDE DEF k
  <2> QED BY <2>1 DEF TaskState, Ages, RowsHold, RefsHold, Shape, Restorers
<1> HIDE DEF k
<1>2. task' = [task EXCEPT ![t] = k]
  BY DEF Read, Begin, k
<1>3. SendLimit'
  BY <1>1, <1>2, LimitTask DEF IInv, Read
<1>4. calls' \in 0 .. PerMinute /\ cred' \in BOOLEAN
  BY AllowedFits DEF Read, IInv, TypeOK
<1>5. /\ sess' \in [in : SUBSET Tasks, q : Seq(Tasks)] /\ SessionsBounded'
      /\ sess.in \ {t} \subseteq sess'.in
  BY SeekFits DEF Read
<1> QED BY <1>1, <1>2, <1>3, <1>4, <1>5, QuietStep DEF Read, Writers

LEMMA ReadEndsKeeps ==
  ASSUME IInv, NEW t \in Tasks, ReadEnds(t)
  PROVE  IInv'
<1>1. cred' \in BOOLEAN
  BY DEF ReadEnds, IInv, TypeOK
<1> QED BY <1>1, EndStep DEF ReadEnds, Done, Inside

LEMMA AbortedKeeps ==
  ASSUME IInv, NEW t \in Tasks, Inside(t), Aborted(t), sess' = Left(t),
         UNCHANGED <<box, dir, op, calls, cred, posted, outside>>
  PROVE  IInv'
<1>1. task \in [Tasks -> TaskState] /\ cred' \in BOOLEAN
  BY DEF IInv, TypeOK
<1>2. \/ task' = [task EXCEPT ![t] = Idle]
      \/ task[t].at \in Restorers
         /\ task' = [task EXCEPT ![t] = [Idle EXCEPT !.at = "next", !.rows = task[t].rows]]
  <2>1. CASE task[t].at \in {"find", "putback"}
    BY <1>1, <2>1 DEF Aborted, Restorers
  <2>2. CASE task[t].at \notin {"find", "putback"}
    BY <1>1, <2>2 DEF Aborted
  <2> QED BY <2>1, <2>2
<1> QED BY <1>1, <1>2, EndStep DEF Inside

LEMMA ImapFailsKeeps ==
  ASSUME IInv, NEW t \in Tasks, ImapFails(t)
  PROVE  IInv'
BY AbortedKeeps DEF ImapFails, Fallible

LEMMA ImapRejectsKeeps ==
  ASSUME IInv, NEW t \in Tasks, ImapRejects(t)
  PROVE  IInv'
BY EndStep DEF ImapRejects, Fallible, Inside, Done

LEMMA RefusedKeeps ==
  ASSUME IInv, Refused \/ CallLapses \/ Reprovision
  PROVE  IInv'
<1>1. UNCHANGED <<box, dir, op, task, sess, posted, outside>>
  BY DEF Refused, CallLapses, Reprovision
<1>2. calls' \in 0 .. PerMinute /\ cred' \in BOOLEAN
  <2>1. CASE Refused
    BY <2>1, AllowedFits DEF Refused, IInv, TypeOK
  <2>2. CASE CallLapses
    BY <2>2, LimitAssumption DEF CallLapses, IInv, TypeOK
  <2>3. CASE Reprovision
    BY <2>3 DEF Reprovision, IInv, TypeOK
  <2> QED BY <2>1, <2>2, <2>3
<1>3. LedgerInv'
  BY <1>1, LedgerSame DEF IInv
<1>4. NamesInv' /\ SendLimit' /\ SessionsInv' /\ \A t \in Tasks : Shape(task[t])'
  <2>1. SendLimit'
    BY <1>1 DEF IInv, SendLimit, Replying
  <2>2. SessionsInv'
    BY <1>1 DEF IInv, SessionsInv, SessionsBounded
  <2>3. NamesInv'
    BY <1>1 DEF IInv, NamesInv, BoxInv, Placed, OneEach, Epochs, Gone, InTrash, RefsHold, Good,
                Current
  <2>4. \A t \in Tasks : Shape(task[t])'
    BY <1>1 DEF IInv, Shape, Froms
  <2> QED BY <2>1, <2>2, <2>3, <2>4
<1> QED BY <1>1, <1>2, <1>3, <1>4 DEF IInv, TypeOK

-----------------------------------------------------------------------------
(***************************************************************************)
(* mail_send                                                               *)
(***************************************************************************)

\* What the limit counts is what the property counts.
LEMMA CountedIsRecent ==
  ASSUME TypeOK, LedgerInv
  PROVE  Counted = Recent
<1>1. \A o \in Ops : op[o] \in OpRow
  BY DEF TypeOK
<1>2. \A o \in Ops : op[o].st \in {"none", "pending", "completed", "failed", "unknown"}
  BY <1>1, RowFields
<1> QED BY <1>2 DEF Counted, Recent, LedgerInv, SendsHaveState

\* A row is written and the message handed to the mail server.
LEMMA PostKeeps ==
  ASSUME IInv, NEW t \in Tasks, NEW k \in Keys \cup {NoKey}, NEW age \in Ages,
         NEW rows \in NewRows(1), Unique(k), Post(t, rows, k, age),
         UNCHANGED <<box, dir, cred, outside>>, SendLimit',
         calls' \in 0 .. PerMinute,
         sess' \in [in : SUBSET Tasks, q : Seq(Tasks)], SessionsBounded',
         sess.in \ {t} \subseteq sess'.in
  PROVE  IInv'
<1> DEFINE r == [NoRow EXCEPT !.kind = "send", !.st = "pending", !.key = k, !.age = age]
           n == [Idle EXCEPT !.at = "smtp", !.rows = rows]
<1>1. /\ rows \subseteq Ops /\ IsFiniteSet(rows) /\ Cardinality(rows) = 1
      /\ \A o \in rows : op[o].kind = "none" /\ \A u \in Tasks : o \notin task[u].rows
  BY NewRowsAre DEF IInv
<1>2. PICK x : rows = {x}
  BY <1>1, FS_Singleton
<1>3. r \in OpRow /\ r.kind = "send" /\ r.st = "pending" /\ r.key = k /\ r.got = "no" /\ r.ref = {}
  BY DEF NoRow, OpRow, Ages, Fates
<1>4. n \in TaskState /\ n.at = "smtp" /\ n.rows = rows /\ n.refs = {} /\ n.moved = {}
      /\ n.hit = {}
  BY <1>1 DEF Idle, TaskState, Ages
<1>5. op' = [o \in Ops |-> IF o \in rows THEN r ELSE op[o]]
      /\ task' = [task EXCEPT ![t] = n]
      /\ posted' = IF k = NoKey THEN posted ELSE [posted EXCEPT ![k] = @ + 1]
  BY DEF Post
<1> HIDE DEF r, n
<1>6. op' \in [Ops -> OpRow] /\ (\A o \in rows : op'[o] = r)
      /\ \A o \in Ops \ rows : op'[o] = op[o]
  BY <1>1, <1>3, <1>5 DEF IInv, TypeOK
<1>7. task' \in [Tasks -> TaskState] /\ task'[t] = n /\ \A u \in Tasks \ {t} : task'[u] = task[u]
  BY <1>4, <1>5, TaskPut DEF IInv
<1>8. posted' \in [Keys -> Nat]
  BY <1>5 DEF IInv, TypeOK
<1>9. ASSUME NEW u \in Tasks PROVE RowsHold(task[u])'
  <2>1. CASE u = t
    BY <1>3, <1>4, <1>6, <1>7, <2>1 DEF RowsHold, Restorers
  <2>2. CASE u # t
    <3>1. task[u].rows \subseteq Ops /\ task[u].rows \cap rows = {} /\ task'[u] = task[u]
      BY <1>1, <1>7, <2>2, TaskFields DEF IInv, TypeOK
    <3>2. \A o \in task[u].rows : op'[o] = op[o]
      BY <1>6, <3>1
    <3> QED BY <3>1, <3>2 DEF IInv, LedgerInv, RowsHold
  <2> QED BY <2>1, <2>2
<1>10. RowsApart'
  BY <1>1, <1>4, <1>7 DEF IInv, LedgerInv, RowsApart
<1>11. KeysOnce'
  <2> SUFFICES ASSUME NEW j \in Keys
               PROVE  posted'[j] = 0 \/ (posted'[j] = 1 /\ KeyUsed(j)')
    BY DEF KeysOnce
  <2>1. j # NoKey /\ posted[j] \in Nat
    BY NamesAssumption DEF IInv, TypeOK
  <2>2. KeyUsed(j) => KeyUsed(j)'
    BY <1>1, <1>6 DEF KeyUsed
  <2>3. CASE j = k
    <3>1. posted[j] = 0
      BY <2>3 DEF Unique, IInv, LedgerInv, KeysOnce
    <3>2. posted'[j] = 1
      BY <1>5, <2>1, <2>3, <3>1 DEF IInv, TypeOK
    <3>3. KeyUsed(j)'
      BY <1>1, <1>2, <1>3, <1>6, <2>1, <2>3 DEF KeyUsed
    <3> QED BY <3>2, <3>3
  <2>4. CASE j # k
    BY <1>5, <2>1, <2>2, <2>4 DEF IInv, TypeOK, LedgerInv, KeysOnce
  <2> QED BY <2>3, <2>4
<1>12. SendsHaveState' /\ LedgerTellsTruth'
  BY <1>3, <1>6 DEF IInv, LedgerInv, SendsHaveState, LedgerTellsTruth
<1>13. RefsHold(n) /\ Shape(n)
  BY <1>4 DEF RefsHold, Shape, InTrash
<1>14. NamesInv'
  <2>1. \A o \in Ops : InTrash(op'[o].ref)
    BY <1>3, <1>6 DEF IInv, NamesInv, InTrash
  <2> QED BY <1>4, <1>5, <1>13, <2>1, NamesTask DEF IInv
<1>15. SessionsInv'
  BY <1>4, <1>5, SessionsTask DEF IInv
<1>16. \A u \in Tasks : Shape(task[u])'
  <2>1. \A u \in Tasks : Shape(task'[u])
    BY <1>7, <1>13 DEF IInv
  <2> QED BY <2>1 DEF Shape, Froms
<1>17. TypeOK'
  BY <1>6, <1>7, <1>8 DEF IInv, TypeOK
<1> QED BY <1>9, <1>10, <1>11, <1>12, <1>14, <1>15, <1>16, <1>17 DEF IInv, LedgerInv

\* The sends that count after a row is written
LEMMA PostCounts ==
  ASSUME IInv, NEW t \in Tasks, NEW k, NEW age, NEW rows \in NewRows(1), Post(t, rows, k, age)
  PROVE  /\ Replying' = Replying \ {t}
         /\ Cardinality(Recent') \in Nat
         /\ Cardinality(Recent') <= Cardinality(Recent) + 1
         /\ age # "hour" => Cardinality(Recent') <= Cardinality(Recent)
<1>1. PICK x : rows = {x}
  <2>1. IsFiniteSet(rows) /\ Cardinality(rows) = 1
    BY NewRowsAre DEF IInv
  <2> QED BY <2>1, FS_Singleton
<1>2. \A o \in Ops \ {x} : op'[o] = op[o]
  BY <1>1 DEF Post
<1>3. x \in Ops => op'[x].age = age
  BY <1>1 DEF Post, NoRow
<1>4. Recent' \subseteq Recent \cup {x} /\ (age # "hour" => Recent' \subseteq Recent)
  BY <1>2, <1>3 DEF Recent
<1>5. Replying' = Replying \ {t}
  <2>1. [Idle EXCEPT !.at = "smtp", !.rows = rows].at = "smtp"
    BY DEF Idle
  <2> QED BY <2>1 DEF Post, Replying, IInv, TypeOK
<1>6. IsFiniteSet(Recent) /\ Cardinality(Recent) \in Nat
  BY RecentFinite
<1>7. /\ IsFiniteSet(Recent \cup {x}) /\ Cardinality(Recent \cup {x}) \in Nat
      /\ Cardinality(Recent \cup {x}) <= Cardinality(Recent) + 1
  BY <1>6, AddOne
<1>8. IsFiniteSet(Recent') /\ Cardinality(Recent') <= Cardinality(Recent \cup {x})
  BY <1>4, <1>7, FS_Subset
<1>9. Cardinality(Recent') \in Nat
  BY <1>8, FS_CardinalityType
<1>10. age # "hour" => Cardinality(Recent') <= Cardinality(Recent)
  BY <1>4, <1>6, FS_Subset
<1> QED BY <1>5, <1>6, <1>7, <1>8, <1>9, <1>10

LEMMA SendKeeps ==
  ASSUME IInv, NEW t \in Tasks, NEW k \in Keys \cup {NoKey}, Send(t, k)
  PROVE  IInv'
<1>1. PICK rows \in NewRows(1) : Unique(k) /\ Post(t, rows, k, "hour")
  BY DEF Send
<1>2. Cardinality(Recent) < PerHour
  BY CountedIsRecent DEF IInv, Send, MaySend, UnderSendLimit
<1>3. Cardinality(Replying') <= Cardinality(Tasks) - 1
  <2>1. Replying' \subseteq Tasks \ {t}
    BY <1>1, PostCounts DEF Replying
  <2>2. IsFiniteSet(Tasks \ {t}) /\ Cardinality(Tasks \ {t}) = Cardinality(Tasks) - 1
    BY FiniteAssumption, FS_RemoveElement
  <2> QED BY <2>1, <2>2, FS_Subset
<1>4. Cardinality(Recent') \in Nat /\ Cardinality(Recent') <= Cardinality(Recent) + 1
  BY <1>1, PostCounts
<1>5. Cardinality(Recent') + Cardinality(Replying') <= PerHour + Cardinality(Tasks) - 1
  <2>1. Replying' \subseteq Tasks
    BY DEF Replying
  <2>2. Cardinality(Replying') \in Nat
    BY <2>1, FiniteAssumption, FS_Subset, FS_CardinalityType
  <2> QED BY <1>2, <1>3, <1>4, <2>2, RecentFinite, LimitAssumption
<1>6. SendLimit'
  BY <1>5 DEF SendLimit, Recent
<1>7. calls' \in 0 .. PerMinute /\ SessionsBounded'
      /\ sess' \in [in : SUBSET Tasks, q : Seq(Tasks)]
  BY AllowedFits DEF IInv, TypeOK, SessionsInv, SessionsBounded, Send
<1>8. "hour" \in Ages
  BY DEF Ages
<1> QED BY <1>1, <1>6, <1>7, <1>8, PostKeeps DEF Send

LEMMA SendReplyKeeps ==
  ASSUME IInv, NEW t \in Tasks, NEW k \in Keys \cup {NoKey}, SendReply(t, k)
  PROVE  IInv'
<1> DEFINE n == [Idle EXCEPT !.at = "reply", !.key = k]
<1>1. n \in TaskState /\ n.at = "reply" /\ RowsHold(n) /\ RefsHold(n) /\ Shape(n)
  <2>1. n \in TaskState /\ n.at = "reply" /\ n.rows = {} /\ n.refs = {} /\ n.moved = {}
        /\ n.hit = {}
    BY DEF Idle, TaskState, Ages
  <2> HIDE DEF n
  <2> QED BY <2>1 DEF RowsHold, RefsHold, Shape, Restorers
<1> HIDE DEF n
<1>2. task' = [task EXCEPT ![t] = n]
  BY DEF SendReply, Begin, n
<1>3. SendLimit'
  <2>1. Cardinality(Recent) < PerHour
    BY CountedIsRecent DEF IInv, SendReply, MaySend, UnderSendLimit
  <2>2. Recent' = Recent
    BY DEF Recent, SendReply
  <2>3. Replying' \subseteq Tasks
    BY DEF Replying
  <2>4. Cardinality(Replying') \in Nat /\ Cardinality(Replying') <= Cardinality(Tasks)
    BY <2>3, FiniteAssumption, FS_Subset, FS_CardinalityType
  <2>5. Cardinality(Recent') + Cardinality(Replying') <= PerHour + Cardinality(Tasks) - 1
    BY <2>1, <2>2, <2>4, RecentFinite, LimitAssumption
  <2> QED BY <2>5 DEF SendLimit, Recent
<1>4. calls' \in 0 .. PerMinute /\ cred' \in BOOLEAN
  BY AllowedFits DEF SendReply, IInv, TypeOK
<1>5. /\ sess' \in [in : SUBSET Tasks, q : Seq(Tasks)] /\ SessionsBounded'
      /\ sess.in \ {t} \subseteq sess'.in
  BY SeekFits DEF SendReply
<1> QED BY <1>1, <1>2, <1>3, <1>4, <1>5, QuietStep DEF SendReply, Writers

LEMMA ReplyFetchedKeeps ==
  ASSUME IInv, NEW t \in Tasks, ReplyFetched(t)
  PROVE  IInv'
<1>1. t \in sess.in /\ task[t].at = "reply" /\ sess' = Left(t) /\ task[t] \in TaskState
  BY DEF ReplyFetched, Inside, IInv, TypeOK
<1>2. CASE ~Unique(task[t].key)
  <2>1. cred' \in BOOLEAN
    BY DEF ReplyFetched, IInv, TypeOK
  <2> QED BY <1>1, <1>2, <2>1, EndStep DEF ReplyFetched, Done
<1>3. CASE Unique(task[t].key)
  <2>1. PICK rows \in NewRows(1) : Post(t, rows, task[t].key, task[t].age)
    BY <1>3 DEF ReplyFetched
  <2>2. task[t].key \in Keys \cup {NoKey} /\ task[t].age \in Ages
    BY <1>1, TaskFields
  <2>3. /\ Replying' = Replying \ {t}
        /\ Cardinality(Recent') \in Nat
        /\ Cardinality(Recent') <= Cardinality(Recent) + 1
        /\ task[t].age # "hour" => Cardinality(Recent') <= Cardinality(Recent)
    BY <2>1, PostCounts
  <2>4. IsFiniteSet(Replying')
        /\ Cardinality(Replying') = IF t \in Replying THEN Cardinality(Replying) - 1
                                                      ELSE Cardinality(Replying)
    BY <2>3, RecentFinite, FS_RemoveElement
  <2>5. Cardinality(Recent) + Cardinality(Replying) <= PerHour + Cardinality(Tasks) - 1
    BY DEF IInv, SendLimit, Recent
  <2>6. Cardinality(Recent') + Cardinality(Replying') <= PerHour + Cardinality(Tasks) - 1
    <3>1. CASE task[t].age = "hour"
      <4>1. t \in Replying
        BY <1>1, <3>1 DEF Replying
      <4> QED BY <2>3, <2>4, <2>5, <4>1, RecentFinite, LimitAssumption
    <3>2. CASE task[t].age # "hour"
      <4>1. t \notin Replying
        BY <3>2 DEF Replying
      <4> QED BY <2>3, <2>4, <2>5, <3>2, <4>1, RecentFinite, LimitAssumption
    <3> QED BY <3>1, <3>2
  <2>7. SendLimit'
    BY <2>6 DEF SendLimit, Recent
  <2>8. /\ sess' \in [in : SUBSET Tasks, q : Seq(Tasks)] /\ SessionsBounded'
        /\ sess.in \ {t} \subseteq sess'.in
    BY <1>1, LeftKeeps DEF IInv, SessionsInv
  <2>9. calls' \in 0 .. PerMinute
    BY DEF ReplyFetched, IInv, TypeOK
  <2> QED BY <1>3, <2>1, <2>2, <2>7, <2>8, <2>9, PostKeeps DEF ReplyFetched
<1> QED BY <1>2, <1>3

\* The answer of the mail server is written to the call's row, and to no other.
LEMMA FinishedKeeps ==
  ASSUME IInv, NEW t \in Tasks, task[t].at \in {"smtp", "copy"}, NEW got \in Fates,
         NEW st \in {"pending", "completed", "failed", "unknown"}, Finished(t, st, got),
         st = "completed" => got = "answered", st \in {"failed", "unknown"} => got # "answered",
         NEW k \in TaskState, task' = [task EXCEPT ![t] = k],
         k = Idle \/ (st = "pending" /\ k = [task[t] EXCEPT !.at = "copy"]),
         UNCHANGED <<box, dir, calls, posted, outside>>, cred' \in BOOLEAN,
         sess' \in [in : SUBSET Tasks, q : Seq(Tasks)], SessionsBounded',
         sess.in \ {t} \subseteq sess'.in
  PROVE  IInv'
<1> DEFINE rows == task[t].rows
<1>1. rows \subseteq Ops /\ task[t] \in TaskState /\ \A o \in Ops : op[o] \in OpRow
  BY TaskFields DEF IInv, TypeOK
<1>2. \A o \in rows : op[o].kind = "send" /\ op[o].st = "pending"
  BY DEF IInv, LedgerInv, RowsHold
<1> HIDE DEF rows
<1>3. \A o \in rows :
         /\ op'[o] \in OpRow /\ op'[o].st = st /\ op'[o].got = got
         /\ op'[o].kind = "send" /\ op'[o].age = op[o].age /\ op'[o].key = op[o].key
         /\ op'[o].ref = op[o].ref
  <2> SUFFICES ASSUME NEW o \in rows
               PROVE  /\ op'[o] \in OpRow /\ op'[o].st = st /\ op'[o].got = got
                      /\ op'[o].kind = "send" /\ op'[o].age = op[o].age
                      /\ op'[o].key = op[o].key /\ op'[o].ref = op[o].ref
    OBVIOUS
  <2> DEFINE r == [op[o] EXCEPT !.st = st, !.got = got]
  <2>1. op'[o] = r
    BY <1>1 DEF Finished, rows
  <2>2. op[o] \in OpRow /\ op[o].kind = "send"
    BY <1>1, <1>2
  <2>3. /\ r \in OpRow /\ r.st = st /\ r.got = got /\ r.kind = op[o].kind
        /\ r.age = op[o].age /\ r.key = op[o].key /\ r.ref = op[o].ref
    BY <2>2 DEF OpRow
  <2> HIDE DEF r
  <2> QED BY <2>1, <2>2, <2>3
<1>4. \A o \in Ops \ rows : op'[o] = op[o]
  BY DEF Finished, rows
<1>5. op' \in [Ops -> OpRow]
  <2>1. op' = [o \in Ops |-> op'[o]]
    BY DEF Finished
  <2>2. \A o \in Ops : op'[o] \in OpRow
    BY <1>1, <1>3, <1>4
  <2> QED BY <2>1, <2>2
<1>6. task' \in [Tasks -> TaskState] /\ task'[t] = k /\ \A u \in Tasks \ {t} : task'[u] = task[u]
  BY TaskPut DEF IInv
<1>7. \/ k.at = "idle" /\ k = Idle
      \/ /\ k.at = "copy" /\ k.rows = rows /\ k.refs = task[t].refs
         /\ k.moved = task[t].moved /\ k.hit = task[t].hit /\ st = "pending"
  BY <1>1, NullRows DEF TaskState, rows
<1>8. ASSUME NEW u \in Tasks PROVE RowsHold(task[u])'
  <2>1. CASE u = t
    <3>1. RowsHold(k)'
      BY <1>3, <1>7 DEF RowsHold, Restorers, Idle
    <3> QED BY <1>6, <2>1, <3>1 DEF RowsHold
  <2>2. CASE u # t
    <3>1. RowsHold(task[u]) /\ task'[u] = task[u] /\ task[u].rows \subseteq Ops
      BY <1>6, <2>2, TaskFields DEF IInv, LedgerInv, TypeOK
    <3>2. task[u].at \in Writers => \A o \in task[u].rows : op'[o] = op[o]
      BY <1>4, <2>2, <3>1 DEF IInv, LedgerInv, RowsApart, Writers, rows
    <3>3. \A o \in task[u].rows : op'[o].kind = op[o].kind
      BY <1>2, <1>3, <1>4, <3>1
    <3> QED BY <3>1, <3>2, <3>3 DEF RowsHold, Writers
  <2> QED BY <2>1, <2>2
<1>9. RowsApart'
  BY <1>6, <1>7 DEF IInv, LedgerInv, RowsApart, Writers, rows
<1>10. \A o \in Ops : op'[o].kind = op[o].kind /\ op'[o].key = op[o].key
                      /\ op'[o].age = op[o].age /\ op'[o].ref = op[o].ref
  BY <1>2, <1>3, <1>4
<1>11. KeysOnce'
  BY <1>10 DEF IInv, LedgerInv, KeysOnce, KeyUsed
<1>12. SendsHaveState'
  BY <1>3, <1>4 DEF IInv, LedgerInv, SendsHaveState
<1>13. LedgerTellsTruth'
  <2> SUFFICES ASSUME NEW o \in Ops, op'[o].kind = "send"
               PROVE  /\ op'[o].st = "completed" => op'[o].got = "answered"
                      /\ op'[o].st \in {"failed", "unknown"} => op'[o].got # "answered"
    BY DEF LedgerTellsTruth
  <2>1. CASE o \in rows
    BY <1>2, <1>3, <2>1
  <2>2. CASE o \notin rows
    BY <1>4, <2>2 DEF IInv, LedgerInv, LedgerTellsTruth
  <2> QED BY <2>1, <2>2
<1>14. SendLimit'
  <2>1. Recent' \subseteq Recent
    BY <1>2, <1>3, <1>4 DEF Recent
  <2>2. Replying' \subseteq Replying
    BY <1>6, <1>7 DEF Replying
  <2> QED BY <2>1, <2>2, LimitKept DEF IInv
<1>15. RefsHold(k) /\ Shape(k)
  <2>1. RefsHold(task[t]) /\ Shape(task[t])
    BY DEF IInv, NamesInv
  <2> QED BY <1>7, <2>1, NullRows DEF RefsHold, Shape
<1>16. NamesInv'
  <2>1. \A o \in Ops : InTrash(op'[o].ref)
    BY <1>10 DEF IInv, NamesInv
  <2> QED BY <1>15, <2>1, NamesTask DEF IInv
<1>17. SessionsInv'
  BY <1>7, SessionsTask DEF IInv
<1>18. \A u \in Tasks : Shape(task[u])'
  <2>1. \A u \in Tasks : Shape(task'[u])
    BY <1>6, <1>15 DEF IInv
  <2> QED BY <2>1 DEF Shape, Froms
<1>19. TypeOK'
  BY <1>5, <1>6 DEF IInv, TypeOK
<1> QED BY <1>8, <1>9, <1>11, <1>12, <1>13, <1>14, <1>16, <1>17, <1>18, <1>19 DEF IInv, LedgerInv

\* Sent, NotSent, SmtpRejects, CutOff, Uncertain: the call ends with SMTP's
\* answer, or without one.
LEMMA AnsweredKeeps ==
  ASSUME IInv, NEW t \in Tasks,
         Sent(t) \/ NotSent(t) \/ SmtpRejects(t) \/ \E got \in Fates : CutOff(t, got) \/ Uncertain(t, got)
  PROVE  IInv'
<1>1. /\ sess' \in [in : SUBSET Tasks, q : Seq(Tasks)] /\ SessionsBounded'
      /\ sess.in \ {t} \subseteq sess'.in /\ cred' \in BOOLEAN
  BY DEF IInv, TypeOK, SessionsInv, SessionsBounded, Sent, NotSent, SmtpRejects, CutOff,
     Uncertain
<1>2. CASE Sent(t)
  BY <1>1, <1>2, NullRows, FinishedKeeps DEF Sent, Done, Fates
<1>3. CASE NotSent(t)
  BY <1>1, <1>3, NullRows, FinishedKeeps DEF NotSent, Done, Fates
<1>4. CASE SmtpRejects(t)
  BY <1>1, <1>4, NullRows, FinishedKeeps DEF SmtpRejects, Done, Fates
<1>5. ASSUME NEW got \in Fates, CutOff(t, got) PROVE IInv'
  BY <1>1, <1>5, NullRows, FinishedKeeps DEF CutOff, Done
<1>6. ASSUME NEW got \in Fates, Uncertain(t, got) PROVE IInv'
  BY <1>1, <1>6, NullRows, FinishedKeeps DEF Uncertain, Done
<1> QED BY <1>2, <1>3, <1>4, <1>5, <1>6

LEMMA SentFilingKeeps ==
  ASSUME IInv, NEW t \in Tasks, SentFiling(t)
  PROVE  IInv'
<1> DEFINE k == [task[t] EXCEPT !.at = "copy"]
<1>1. task[t] \in TaskState /\ task' = [task EXCEPT ![t] = k]
  BY DEF SentFiling, IInv, TypeOK
<1>2. k \in TaskState
  BY <1>1 DEF TaskState
<1>3. /\ sess' \in [in : SUBSET Tasks, q : Seq(Tasks)] /\ SessionsBounded'
      /\ sess.in \ {t} \subseteq sess'.in
  BY SeekFits DEF SentFiling
<1>4. cred' \in BOOLEAN
  BY DEF SentFiling, IInv, TypeOK
<1> QED BY <1>1, <1>2, <1>3, <1>4, FinishedKeeps DEF SentFiling, Fates

LEMMA CopiedKeeps ==
  ASSUME IInv, NEW t \in Tasks, Copied(t)
  PROVE  IInv'
<1>1. /\ sess' \in [in : SUBSET Tasks, q : Seq(Tasks)] /\ SessionsBounded'
      /\ sess.in \ {t} \subseteq sess'.in
  BY LeftKeeps DEF Copied, Inside, IInv, SessionsInv
<1>2. cred' \in BOOLEAN
  BY DEF Copied, IInv, TypeOK
<1> QED BY <1>1, <1>2, NullRows, FinishedKeeps DEF Copied, Done, Fates

-----------------------------------------------------------------------------
(***************************************************************************)
(* mail_delete                                                             *)
(***************************************************************************)

\* A reference that is made is one to the message.
LEMMA RefOfGood ==
  ASSUME TypeOK, BoxInv, NEW m \in Msgs, box[m] # Gone
  PROVE  RefOf(m) \in Refs /\ RefOf(m).m = m /\ Good(RefOf(m))
<1>1. box[m].f \in Places /\ box[m].u \in 0 .. MaxUid
  BY DEF TypeOK
<1>2. box[m].u # 0 /\ box[m].u < dir[box[m].f].next
  BY DEF BoxInv, Placed
<1>3. dir[box[m].f].v \in 0 .. MaxOutside
  BY <1>1 DEF TypeOK
<1>4. box[m].u \in Uids
  BY <1>1, <1>2, LimitAssumption DEF Uids
<1> DEFINE r == RefOf(m)
<1>5. r = [f |-> box[m].f, v |-> dir[box[m].f].v, u |-> box[m].u, m |-> m]
  BY DEF RefOf
<1> HIDE DEF r
<1>6. r \in Refs /\ r.m = m /\ r.f = box[m].f /\ r.u = box[m].u /\ r.v = dir[r.f].v
  BY <1>1, <1>3, <1>4, <1>5 DEF Refs
<1>7. \A n \in Msgs : box[n].f = r.f /\ box[n].u = r.u => n = r.m
  BY <1>2, <1>6 DEF BoxInv, OneEach
<1>8. r.v <= dir[r.f].v
  BY <1>3, <1>6
<1> QED BY <1>2, <1>6, <1>7, <1>8 DEF Good, r

LEMMA DeleteKeeps ==
  ASSUME IInv, NEW t \in Tasks, NEW ms \in SUBSET Msgs, Delete(t, ms)
  PROVE  IInv'
<1> DEFINE refs == {RefOf(m) : m \in ms}
<1>1. PICK rows \in NewRows(Cardinality(ms)) :
        Begin(t, [Idle EXCEPT !.at = "check", !.rows = rows, !.refs = refs])
  BY DEF Delete
<1> DEFINE k == [Idle EXCEPT !.at = "check", !.rows = rows, !.refs = refs]
<1>2. \A m \in ms : RefOf(m) \in Refs /\ RefOf(m).m = m /\ Good(RefOf(m))
  BY RefOfGood DEF Delete, IInv, NamesInv
<1>3. /\ rows \subseteq Ops /\ Cardinality(rows) = Cardinality(ms)
      /\ \A o \in rows : op[o].kind = "none" /\ \A u \in Tasks : o \notin task[u].rows
  BY NewRowsAre DEF IInv
<1>4. IsFiniteSet(refs) /\ Cardinality(refs) = Cardinality(ms)
  <2> DEFINE g == [m \in ms |-> RefOf(m)]
  <2>1. g \in [ms -> refs] /\ \A m \in ms : g[m] = RefOf(m)
    OBVIOUS
  <2>2. \A m, n \in ms : g[m] = g[n] => m = n
    BY <1>2, <2>1
  <2>3. \A r \in refs : \E m \in ms : g[m] = r
    BY <2>1
  <2> HIDE DEF g
  <2>4. g \in Bijection(ms, refs)
    BY <2>1, <2>2, <2>3 DEF Bijection, Injection, IsInjective, Surjection
  <2>5. ExistsBijection(ms, refs)
    BY <2>4 DEF ExistsBijection
  <2>6. IsFiniteSet(ms)
    BY MsgsFinite
  <2> QED BY <2>5, <2>6, FS_Bijection
<1>5. refs \subseteq Refs /\ \A r \in refs : Good(r)
  BY <1>2
<1> HIDE DEF refs
<1>6. k \in TaskState /\ k.at = "check" /\ k.rows = rows /\ k.refs = refs /\ k.moved = {}
      /\ k.hit = {}
  BY <1>3, <1>5 DEF Idle, TaskState, Ages
<1> HIDE DEF k
<1>7. RowsHold(k) /\ RefsHold(k)
  BY <1>3, <1>5, <1>6 DEF RowsHold, RefsHold, Restorers
<1>8. Shape(k)
  <2>1. Froms(k) = {} /\ k.refs \cup Froms(k) = refs
    BY <1>6 DEF Froms
  <2> QED BY <1>3, <1>4, <1>6, <2>1 DEF Shape
<1>9. task' = [task EXCEPT ![t] = k]
  BY <1>1 DEF Begin, k
<1>10. SendLimit'
  BY <1>6, <1>9, LimitTask DEF IInv, Delete
<1>11. calls' \in 0 .. PerMinute /\ cred' \in BOOLEAN
  BY AllowedFits DEF Delete, IInv, TypeOK
<1>12. /\ sess' \in [in : SUBSET Tasks, q : Seq(Tasks)] /\ SessionsBounded'
       /\ sess.in \ {t} \subseteq sess'.in
  BY SeekFits DEF Delete
<1>13. \A u \in Tasks : k.rows \cap task[u].rows = {}
  BY <1>3, <1>6
<1> QED BY <1>6, <1>7, <1>8, <1>9, <1>10, <1>11, <1>12, <1>13, QuietStep DEF Delete

\* A call that holds its session goes on holding it, and nothing is written.
LEMMA HoldStep ==
  ASSUME IInv, NEW t \in Tasks, NEW k \in TaskState, task' = [task EXCEPT ![t] = k],
         RowsHold(k), RefsHold(k), Shape(k), k.at # "reply",
         k.at \in Writers => task[t].at \in Writers /\ k.rows = task[t].rows,
         k.at \in {"move", "putback", "mark"} => t \in sess.in,
         UNCHANGED <<box, dir, op, sess, cred, posted, outside>>, calls' \in 0 .. PerMinute
  PROVE  IInv'
<1>1. SendLimit'
  BY LimitTask DEF IInv
<1>2. SessionsBounded' /\ sess' \in [in : SUBSET Tasks, q : Seq(Tasks)] /\ cred' \in BOOLEAN
  BY DEF IInv, TypeOK, SessionsInv, SessionsBounded
<1> QED BY <1>1, <1>2, QuietStep

LEMMA CheckFolderKeeps ==
  ASSUME IInv, NEW t \in Tasks, NEW f \in Places, CheckFolder(t, f)
  PROVE  IInv'
<1> DEFINE k == [task[t] EXCEPT !.at = "move", !.f = {f}]
<1>1. task[t] \in TaskState /\ task' = [task EXCEPT ![t] = k] /\ task[t].at = "check"
      /\ t \in sess.in
  BY DEF CheckFolder, Inside, IInv, TypeOK
<1>2. k \in TaskState /\ k.at = "move" /\ k.f = {f} /\ k.rows = task[t].rows
      /\ k.refs = task[t].refs /\ k.moved = task[t].moved /\ k.hit = task[t].hit
  BY <1>1 DEF TaskState
<1> HIDE DEF k
<1>3. RowsHold(k)
  BY <1>1, <1>2 DEF IInv, LedgerInv, RowsHold, Restorers
<1>4. RefsHold(k)
  <2>1. \A r \in k.refs : r.f \in k.f => Current(r)
    BY <1>2 DEF CheckFolder, InFolder
  <2> QED BY <1>2, <2>1 DEF IInv, NamesInv, RefsHold
<1>5. Shape(k)
  BY <1>1, <1>2 DEF IInv, Shape, Froms
<1>6. calls' \in 0 .. PerMinute
  BY DEF CheckFolder, IInv, TypeOK
<1> QED BY <1>1, <1>2, <1>3, <1>4, <1>5, <1>6, HoldStep DEF CheckFolder, Writers

LEMMA CheckFailsKeeps ==
  ASSUME IInv, NEW t \in Tasks, NEW f \in Places, CheckFails(t, f)
  PROVE  IInv'
<1>1. cred' \in BOOLEAN
  BY DEF CheckFails, IInv, TypeOK
<1> QED BY <1>1, EndStep DEF CheckFails, Done, Inside

\* Good references of the folder name their own messages.
LEMMA NamedAreMeant ==
  ASSUME NEW f, NEW R, \A r \in R : Good(r) /\ Current(r) /\ r.f = f
  PROVE  /\ Named(f, R) \subseteq {r.m : r \in R} /\ Named(f, R) \subseteq Msgs
         /\ \A r \in R : Named(f, {r}) \subseteq {r.m} /\ Named(f, {r}) \subseteq Named(f, R)
BY DEF Named, Good

\* A call moves messages: the ledger stays, the references stay good.
LEMMA MoveStep ==
  ASSUME IInv, NEW ms \in SUBSET Msgs, NEW g \in Places, NEW u \in Arrivals(ms, g),
         MoveTo(ms, g, u), UNCHANGED <<op, sess, calls, cred, posted, outside>>,
         NEW t \in Tasks, NEW k \in TaskState, task' = [task EXCEPT ![t] = k],
         RowsHold(k), RefsHold(k)', Shape(k), k.at # "reply", t \in sess.in,
         k.at \in Writers => task[t].at \in Writers /\ k.rows = task[t].rows
  PROVE  IInv'
<1>1. /\ box' \in [Msgs -> [f : Places, u : 0 .. MaxUid]]
      /\ dir' \in [Places -> [v : 0 .. MaxOutside, next : 1 .. MaxUid + 1]]
      /\ BoxInv'
      /\ \A x \in Places : dir'[x].v = dir[x].v
      /\ \A r \in Refs : Good(r) => Good(r)'
  <2>1. outside' \in Nat /\ outside <= outside'
    BY DEF IInv, TypeOK
  <2> QED BY <2>1, MoveKeeps DEF IInv, NamesInv
<1>2. task' \in [Tasks -> TaskState] /\ task'[t] = k /\ \A v \in Tasks \ {t} : task'[v] = task[v]
  BY TaskPut DEF IInv
<1>3. LedgerInv' /\ SendLimit' /\ SessionsInv'
  BY LedgerTask, LimitTask, SessionsStay DEF IInv
<1>4. ASSUME NEW v \in Tasks PROVE RefsHold(task[v])'
  <2>1. CASE v = t
    BY <1>2, <2>1 DEF RefsHold, InTrash
  <2>2. CASE v # t
    <3>1. task'[v] = task[v] /\ RefsHold(task[v]) /\ task[v].refs \subseteq Refs
          /\ \A e \in task[v].moved : e.ref \subseteq Refs
      BY <1>2, <2>2, TaskFields DEF IInv, NamesInv, TypeOK
    <3>2. \A r \in task[v].refs : Good(r)' /\ (Current(r)' <=> Current(r))
      BY <1>1, <3>1, RefFields DEF RefsHold, Current
    <3>3. \A e \in task[v].moved : \A r \in e.ref : Good(r)' /\ r.f = Trash
      BY <1>1, <3>1 DEF RefsHold, InTrash
    <3> QED BY <3>1, <3>2, <3>3 DEF RefsHold, InTrash
  <2> QED BY <2>1, <2>2
<1>5. \A o \in Ops : InTrash(op[o].ref)'
  <2>1. \A o \in Ops : op[o].ref \subseteq Refs
    BY RowFields DEF IInv, TypeOK
  <2> QED BY <1>1, <2>1 DEF IInv, NamesInv, InTrash
<1>6. \A v \in Tasks : Shape(task[v])'
  <2>1. \A v \in Tasks : Shape(task'[v])
    BY <1>2 DEF IInv
  <2> QED BY <2>1 DEF Shape, Froms
<1>7. TypeOK'
  BY <1>1, <1>2 DEF IInv, TypeOK
<1> QED BY <1>1, <1>3, <1>4, <1>5, <1>6, <1>7 DEF IInv, NamesInv

\* moveToTrash, one folder
LEMMA MoveFolderKeeps ==
  ASSUME IInv, NEW t \in Tasks, NEW f \in Places, NEW uidplus \in BOOLEAN,
         MoveFolder(t, f, uidplus)
  PROVE  IInv'
<1> DEFINE rs == InFolder(t, f)
           ms == Named(f, rs)
           rest == task[t].refs \ rs
<1> DEFINE ref(u, r) == {[f |-> Trash, v |-> dir[Trash].v, u |-> u[m], m |-> r.m] :
                           m \in IF uidplus THEN Named(f, {r}) ELSE {}}
           entry(u, r) == [from |-> r, ref |-> ref(u, r)]
           add(u) == {entry(u, r) : r \in rs}
           K(u) == [task[t] EXCEPT !.at = "check", !.f = {}, !.refs = rest,
                                   !.moved = task[t].moved \cup add(u),
                                   !.hit = task[t].hit \cup ms]
<1>0. task[t] \in TaskState /\ task[t].at = "move" /\ task[t].f = {f}
  BY DEF MoveFolder, IInv, TypeOK
<1>1. PICK u \in Arrivals(ms, Trash) :
        MoveTo(ms, Trash, u) /\ task' = [task EXCEPT ![t] = K(u)]
  BY Zenon DEF MoveFolder
<1>a. PICK new : new = add(u)
  OBVIOUS
<1>b. PICK k : k = K(u)
  OBVIOUS
<1>2. /\ task[t] \in TaskState /\ task[t].at = "move" /\ task[t].f = {f}
      /\ task' = [task EXCEPT ![t] = k]
  BY <1>0, <1>1, <1>b
<1>3. /\ task[t].refs \subseteq Refs /\ task[t].moved \subseteq [from : Refs, ref : SUBSET Refs]
      /\ task[t].hit \subseteq Msgs
      /\ RefsHold(task[t]) /\ Shape(task[t]) /\ RowsHold(task[t]) /\ t \in sess.in
  BY <1>2, TaskFields DEF IInv, NamesInv, LedgerInv, SessionsInv
<1>4. rs \subseteq task[t].refs /\ \A r \in rs : Good(r) /\ Current(r) /\ r.f = f /\ r \in Refs
  BY <1>2, <1>3 DEF InFolder, RefsHold
<1>5. /\ ms \subseteq {r.m : r \in rs} /\ ms \subseteq Msgs
      /\ \A r \in rs : Named(f, {r}) \subseteq {r.m} /\ Named(f, {r}) \subseteq ms
  BY <1>4, NamedAreMeant
<1>6. Trash \in Places
  BY DEF Places
<1>7. /\ BoxInv' /\ dir'[Trash].v = dir[Trash].v
      /\ \A r \in Refs : Good(r) => Good(r)'
      /\ \A m \in ms : box'[m].f = Trash /\ box'[m].u = u[m] /\ u[m] < dir'[Trash].next
                       /\ u[m] \in Uids
  <2>1. outside' \in Nat /\ outside <= outside'
    BY DEF IInv, TypeOK, MoveFolder
  <2>2. MoveTo(ms, Trash, u)
    BY <1>1
  <2> HIDE DEF ms
  <2> QED BY <1>5, <1>6, <2>1, <2>2, MoveKeeps DEF IInv, NamesInv
<1>8. ASSUME NEW r \in rs, NEW q \in ref(u, r)
      PROVE  q \in Refs /\ Good(q)' /\ q.f = Trash
  <2>1. PICK m \in Named(f, {r}) : q = [f |-> Trash, v |-> dir[Trash].v, u |-> u[m], m |-> r.m]
    BY <1>8
  <2>2. m = r.m /\ m \in ms /\ m \in Msgs
    BY <1>5
  <2>3. dir[Trash].v \in 0 .. MaxOutside
    BY <1>6 DEF IInv, TypeOK
  <2>4. u[m] \in Uids /\ box'[m].f = Trash /\ box'[m].u = u[m] /\ u[m] < dir'[Trash].next
    BY <1>7, <2>2
  <2>5. q \in Refs /\ q.f = Trash /\ q.v = dir[Trash].v /\ q.u = u[m] /\ q.m = m
    <3> HIDE DEF ms, rs
    <3> QED BY <1>6, <2>1, <2>2, <2>3, <2>4 DEF Refs
  <2>6. u[m] # 0
    BY <2>4 DEF Uids
  <2>7. \A n \in Msgs : box'[n].f = q.f /\ box'[n].u = q.u => n = q.m
    BY <1>7, <2>2, <2>4, <2>5, <2>6 DEF BoxInv, OneEach
  <2>8. q.v <= dir'[q.f].v
    BY <1>7, <2>3, <2>5
  <2> QED BY <2>4, <2>5, <2>7, <2>8 DEF Good
<1>9. new = {entry(u, r) : r \in rs}
      /\ \A r \in rs : entry(u, r).from = r /\ entry(u, r).ref = ref(u, r)
  BY <1>a
<1>10. new \subseteq [from : Refs, ref : SUBSET Refs]
  <2>1. \A r \in rs : r \in Refs /\ ref(u, r) \subseteq Refs
    BY <1>4, <1>8
  <2> HIDE DEF ref, rs
  <2> QED BY <1>9, <2>1
<1>11. \A e \in new : e.from \in rs /\ \A q \in e.ref : Good(q)' /\ q.f = Trash
  <2> HIDE DEF ref, rs
  <2> QED BY <1>8, <1>9
<1>12. {e.from : e \in new} = rs /\ \A e, g \in new : e.from = g.from => e = g
  <2> DEFINE en(r) == entry(u, r)
  <2>1. new = {en(r) : r \in rs} /\ \A r \in rs : en(r).from = r
    BY <1>9
  <2> HIDE DEF en, rs
  <2>2. \A e \in new : e.from \in rs /\ e = en(e.from)
    BY <2>1
  <2>3. \A r \in rs : en(r) \in new
    BY <2>1
  <2> QED BY <2>1, <2>2, <2>3
<1> HIDE DEF ms, rs, add
<1>13. k \in TaskState /\ k.at = "check" /\ k.rows = task[t].rows /\ k.f = {}
       /\ k.refs = rest /\ k.moved = task[t].moved \cup new /\ k.hit = task[t].hit \cup ms
  <2>1. rest \subseteq Refs /\ task[t].hit \cup ms \subseteq Msgs
        /\ task[t].moved \cup new \subseteq [from : Refs, ref : SUBSET Refs]
    BY <1>3, <1>5, <1>10
  <2> HIDE DEF rest
  <2> QED BY <1>2, <1>a, <1>b, <2>1 DEF TaskState
<1> HIDE DEF K
<1>14. RowsHold(k)
  BY <1>2, <1>3, <1>13 DEF RowsHold, Restorers
<1>15. RefsHold(k)'
  <2>1. \A r \in k.refs : Good(r)'
    BY <1>3, <1>7, <1>13 DEF RefsHold
  <2>2. ASSUME NEW e \in k.moved, NEW r \in e.ref PROVE Good(r)' /\ r.f = Trash
    <3>1. CASE e \in new
      BY <1>11, <2>2, <3>1
    <3>2. CASE e \in task[t].moved
      BY <1>3, <1>7, <2>2, <3>2 DEF RefsHold, InTrash
    <3> QED BY <1>13, <3>1, <3>2
  <2>3. k.at = "check"
    BY <1>13
  <2> QED BY <2>1, <2>2, <2>3 DEF RefsHold, InTrash
<1>16. Froms(k) = Froms(task[t]) \cup rs
  BY <1>12, <1>13 DEF Froms
<1>17. Shape(k)
  <2>1. /\ Cardinality(task[t].rows) = Cardinality(task[t].refs \cup Froms(task[t]))
        /\ task[t].refs \cap Froms(task[t]) = {}
        /\ IsFiniteSet(task[t].refs \cup Froms(task[t]))
        /\ \A e, g \in task[t].moved : e.from = g.from => e = g
    BY <1>2, <1>3 DEF Shape
  <2>2. k.refs \cup Froms(k) = task[t].refs \cup Froms(task[t])
    BY <1>4, <1>13, <1>16
  <2>3. k.refs \cap Froms(k) = {}
    BY <1>4, <1>13, <1>16, <2>1
  <2>4. \A e, g \in k.moved : e.from = g.from => e = g
    <3> SUFFICES ASSUME NEW e \in k.moved, NEW g \in k.moved, e.from = g.from PROVE e = g
      OBVIOUS
    <3>1. \A x \in new : x.from \in task[t].refs
      BY <1>4, <1>11
    <3>2. \A x \in task[t].moved : x.from \in Froms(task[t])
      BY DEF Froms
    <3> QED BY <1>12, <1>13, <2>1, <3>1, <3>2
  <2>5. k.hit \subseteq {r.m : r \in k.refs} \cup {e.from.m : e \in k.moved}
    <3> SUFFICES ASSUME NEW m \in k.hit
                 PROVE  m \in {r.m : r \in k.refs} \cup {e.from.m : e \in k.moved}
      OBVIOUS
    <3>1. ASSUME NEW r \in rs, m = r.m PROVE \E e \in k.moved : m = e.from.m
      BY <1>12, <1>13, <3>1
    <3>2. CASE m \in ms
      BY <1>5, <3>1, <3>2
    <3>3. CASE m \in task[t].hit
      <4>1. (\E r \in task[t].refs : m = r.m) \/ \E e \in task[t].moved : m = e.from.m
        BY <1>3, <3>3 DEF Shape
      <4> QED BY <1>13, <3>1, <4>1
    <3> QED BY <1>13, <3>2, <3>3
  <2> QED BY <1>13, <2>1, <2>2, <2>3, <2>4, <2>5 DEF Shape
<1> QED BY <1>1, <1>2, <1>3, <1>5, <1>6, <1>13, <1>14, <1>15, <1>17, MoveStep
        DEF MoveFolder, Writers

\* Rows of deletions are written, by the call that has set them aside or that
\* restored them, and the call moves on to its next row or ends.
LEMMA DeletionStep ==
  ASSUME IInv, NEW t \in sess.in, op' \in [Ops -> OpRow],
         \A o \in Ops : \/ op'[o] = op[o]
                        \/ /\ op[o].kind = "delete" \/ (op[o].kind = "none" /\ o \in task[t].rows
                                                         /\ task[t].at \in Writers)
                           /\ op'[o].kind = "delete" /\ InTrash(op'[o].ref),
         NEW k \in TaskState, task' = [task EXCEPT ![t] = k], k.at \in {"idle", "next"},
         k.at = "idle" => k = Idle,
         k.at = "next" => task[t].at \in Restorers /\ k.rows = task[t].rows /\ k.refs = {}
                          /\ k.moved = {} /\ k.hit = {},
         sess' = Left(t), UNCHANGED <<box, dir, calls, cred, posted, outside>>
  PROVE  IInv'
<1>0. t \in Tasks /\ task[t] \in TaskState /\ RowsHold(task[t])
  BY DEF IInv, TypeOK, LedgerInv
<1>1. task' \in [Tasks -> TaskState] /\ task'[t] = k /\ \A u \in Tasks \ {t} : task'[u] = task[u]
  BY <1>0, TaskPut DEF IInv
<1>2. \A o \in Ops : op[o].kind = "send" \/ op'[o].kind = "send" => op'[o] = op[o]
  OBVIOUS
<1>3. ASSUME NEW u \in Tasks PROVE RowsHold(task[u])'
  <2>1. CASE u = t
    <3>1. CASE k.at = "idle"
      BY <1>1, <2>1, <3>1 DEF RowsHold, Idle, Restorers
    <3>2. CASE k.at = "next"
      <4>1. \A o \in k.rows : o \in Ops /\ op[o].kind = "delete"
        BY <1>0, <3>2, TaskFields DEF RowsHold
      <4>2. \A o \in k.rows : op'[o].kind = "delete"
        BY <4>1
      <4> QED BY <1>1, <2>1, <3>2, <4>2 DEF RowsHold
    <3> QED BY <3>1, <3>2
  <2>2. CASE u # t
    <3>1. RowsHold(task[u]) /\ task'[u] = task[u] /\ task[u].rows \subseteq Ops
      BY <1>1, <2>2, TaskFields DEF IInv, LedgerInv, TypeOK
    <3>2. ASSUME task[u].at \in Writers, NEW o \in task[u].rows PROVE op'[o] = op[o]
      <4>1. op[o].kind # "delete"
        BY <3>1, <3>2 DEF RowsHold, Writers
      <4>2. ~(o \in task[t].rows /\ task[t].at \in Writers)
        BY <1>0, <2>2, <3>2 DEF IInv, LedgerInv, RowsApart
      <4> QED BY <3>1, <3>2, <4>1, <4>2
    <3>3. \A o \in task[u].rows : op[o].kind = "delete" => op'[o].kind = "delete"
      BY <3>1
    <3> QED BY <3>1, <3>2, <3>3 DEF RowsHold, Writers
  <2> QED BY <2>1, <2>2
<1>4. RowsApart'
  BY <1>1 DEF IInv, LedgerInv, RowsApart, Writers
<1>5. KeysOnce'
  BY <1>2 DEF IInv, LedgerInv, KeysOnce, KeyUsed
<1>6. SendsHaveState' /\ LedgerTellsTruth'
  BY <1>2 DEF IInv, LedgerInv, SendsHaveState, LedgerTellsTruth
<1>7. SendLimit'
  <2>1. Recent' \subseteq Recent
    BY <1>2 DEF Recent
  <2>2. Replying' \subseteq Replying
    BY <1>1 DEF Replying
  <2> QED BY <2>1, <2>2, LimitKept DEF IInv
<1>8. RefsHold(k) /\ Shape(k)
  <2>1. CASE k.at = "idle"
    BY <2>1, NullRows
  <2>2. CASE k.at = "next"
    BY <2>2 DEF RefsHold, Shape
  <2> QED BY <2>1, <2>2
<1>9. NamesInv'
  <2>1. \A o \in Ops : InTrash(op'[o].ref)
    BY DEF IInv, NamesInv
  <2> QED BY <1>0, <1>8, <2>1, NamesTask DEF IInv
<1>10. /\ sess' \in [in : SUBSET Tasks, q : Seq(Tasks)] /\ SessionsBounded'
       /\ sess.in \ {t} \subseteq sess'.in
  BY LeftKeeps DEF IInv, SessionsInv
<1>11. SessionsInv'
  BY <1>0, <1>10, SessionsTask DEF IInv
<1>12. \A u \in Tasks : Shape(task[u])'
  <2>1. \A u \in Tasks : Shape(task'[u])
    BY <1>1, <1>8 DEF IInv
  <2> QED BY <2>1 DEF Shape, Froms
<1>13. TypeOK'
  BY <1>1, <1>10 DEF IInv, TypeOK
<1> QED BY <1>3, <1>4, <1>5, <1>6, <1>7, <1>9, <1>11, <1>12, <1>13 DEF IInv, LedgerInv

\* A deletion that is over has one row for each message it moved.
LEMMA OneRowEach ==
  ASSUME NEW rows, NEW moved, IsFiniteSet(rows), IsFiniteSet({e.from : e \in moved}),
         Cardinality(rows) = Cardinality({e.from : e \in moved}),
         \A e, g \in moved : e.from = g.from => e = g,
         NEW o \in rows
  PROVE  LET row == CHOOSE r \in [moved -> rows] : \A e, g \in moved : e # g => r[e] # r[g]
         IN  (CHOOSE x \in moved : row[x] = o) \in moved
<1> DEFINE F == {e.from : e \in moved}
           g == [e \in moved |-> e.from]
           P(r) == r \in [moved -> rows] /\ \A e, h \in moved : e # h => r[e] # r[h]
           row == CHOOSE r \in [moved -> rows] : \A e, h \in moved : e # h => r[e] # r[h]
<1>1. g \in [moved -> F] /\ \A e \in moved : g[e] = e.from
  OBVIOUS
<1>2. g \in Bijection(moved, F)
  <2>1. \A x \in F : \E e \in moved : g[e] = x
    BY <1>1
  <2> HIDE DEF g
  <2> QED BY <1>1, <2>1 DEF Bijection, Injection, IsInjective, Surjection
<1> HIDE DEF F, g
<1>4. IsFiniteSet(moved) /\ Cardinality(moved) = Cardinality(rows)
  BY <1>2, FS_Injection DEF Bijection, F
<1>5. PICK b \in Bijection(moved, rows) : TRUE
  BY <1>4, FS_SameCardinalityBij DEF ExistsBijection
<1>6. P(b)
  BY <1>5 DEF Bijection, Injection, IsInjective
<1>7. P(row)
  BY <1>6
<1> HIDE DEF row
<1>8. row \in Injection(moved, rows)
  BY <1>7 DEF Injection, IsInjective
<1>9. row \in Surjection(moved, rows)
  BY <1>4, <1>8, FS_Injection
<1>10. \E x \in moved : row[x] = o
  BY <1>9 DEF Surjection
<1>11. (CHOOSE x \in moved : row[x] = o) \in moved
  BY <1>10
<1> QED BY <1>11 DEF row

LEMMA RecordedKeeps ==
  ASSUME IInv, NEW t \in Tasks, Recorded(t)
  PROVE  IInv'
<1> DEFINE rows == task[t].rows
           moved == task[t].moved
           row == CHOOSE r \in [moved -> rows] : \A e, g \in moved : e # g => r[e] # r[g]
           E(o) == CHOOSE x \in moved : row[x] = o
           R(o) == [NoRow EXCEPT !.kind = "delete", !.st = "completed",
                                 !.from = {E(o).from.f}, !.ref = E(o).ref]
<1>1. /\ task[t] \in TaskState /\ task[t].at = "check" /\ t \in sess.in /\ task[t].refs = {}
      /\ RowsHold(task[t]) /\ RefsHold(task[t]) /\ Shape(task[t]) /\ rows \subseteq Ops
      /\ moved \subseteq [from : Refs, ref : SUBSET Refs]
  BY TaskFields DEF Recorded, Inside, IInv, TypeOK, LedgerInv, NamesInv
<1>2. op' = [o \in Ops |-> IF o \in rows THEN R(o) ELSE op[o]]
  BY Zenon DEF Recorded
<1>3. \A o \in rows : E(o) \in moved
  <2> DEFINE F == {e.from : e \in moved}
  <2>1. Froms(task[t]) = F /\ task[t].refs \cup Froms(task[t]) = F
    BY <1>1 DEF Froms
  <2>2. IsFiniteSet(F) /\ Cardinality(rows) = Cardinality(F)
        /\ \A e, g \in moved : e.from = g.from => e = g
    BY <1>1, <2>1 DEF Shape
  <2>3. IsFiniteSet(rows)
    BY <1>1, OpsFinite, FS_Subset
  <2> HIDE DEF rows, moved
  <2> QED BY <2>2, <2>3, OneRowEach
<1> HIDE DEF E
<1>4. ASSUME NEW o \in rows PROVE R(o) \in OpRow /\ R(o).kind = "delete" /\ InTrash(R(o).ref)
  <2>1. E(o) \in [from : Refs, ref : SUBSET Refs] /\ E(o).from.f \in Places
    BY <1>1, <1>3, RefFields
  <2>2. R(o) \in OpRow /\ R(o).kind = "delete" /\ R(o).ref = E(o).ref
    BY <2>1, NullRows DEF NoRow, OpRow, Ages
  <2>3. InTrash(E(o).ref)
    BY <1>1, <1>3 DEF RefsHold
  <2> HIDE DEF R
  <2> QED BY <2>2, <2>3
<1> HIDE DEF R
<1>5. op' \in [Ops -> OpRow]
  BY <1>2, <1>4 DEF IInv, TypeOK
<1>6. \A o \in Ops : \/ op'[o] = op[o]
                     \/ /\ op[o].kind = "none" /\ o \in task[t].rows /\ task[t].at \in Writers
                        /\ op'[o].kind = "delete" /\ InTrash(op'[o].ref)
  BY <1>1, <1>2, <1>4 DEF RowsHold, Writers
<1> QED BY <1>1, <1>5, <1>6, NullRows, DeletionStep DEF Recorded, Done

-----------------------------------------------------------------------------
(***************************************************************************)
(* mail_restore                                                            *)
(***************************************************************************)
LEMMA RestoreKeeps ==
  ASSUME IInv, NEW t \in Tasks, NEW os \in SUBSET Ops, Restore(t, os)
  PROVE  IInv'
<1> DEFINE k == [Idle EXCEPT !.at = "next", !.rows = os]
<1>1. k \in TaskState /\ k.at = "next" /\ k.rows = os /\ k.refs = {} /\ k.moved = {} /\ k.hit = {}
  BY DEF Idle, TaskState, Ages
<1>2. task' = [task EXCEPT ![t] = k]
  BY DEF Restore, Begin
<1> HIDE DEF k
<1>3. RowsHold(k) /\ RefsHold(k) /\ Shape(k)
  BY <1>1 DEF Restore, RowsHold, RefsHold, Shape, Restorers
<1>4. calls' \in 0 .. PerMinute
  BY AllowedFits DEF Restore, IInv
<1> QED BY <1>1, <1>2, <1>3, <1>4, HoldStep DEF Restore, Writers

LEMMA RestoreNextKeeps ==
  ASSUME IInv, NEW t \in Tasks, NEW o \in Ops, RestoreNext(t, o)
  PROVE  IInv'
<1> DEFINE rest == task[t].rows \ {o}
<1>1. /\ task[t] \in TaskState /\ task[t].at = "next" /\ task[t].rows \subseteq Ops
      /\ RowsHold(task[t]) /\ RefsHold(task[t]) /\ Shape(task[t])
      /\ calls' \in 0 .. PerMinute /\ cred' \in BOOLEAN
  BY TaskFields DEF RestoreNext, IInv, TypeOK, LedgerInv, NamesInv
<1>2. op[o].from \subseteq Places /\ op[o].ref \subseteq Refs /\ InTrash(op[o].ref)
  BY RowFields DEF IInv, TypeOK, NamesInv
<1>3. CASE Restorable(o)
  <2> DEFINE k == [task[t] EXCEPT !.at = "find", !.rows = rest, !.f = op[o].from,
                                  !.refs = op[o].ref]
  <2>1. k \in TaskState /\ k.at = "find" /\ k.rows = rest /\ k.refs = op[o].ref
        /\ k.moved = task[t].moved /\ k.hit = task[t].hit
    BY <1>1, <1>2 DEF TaskState
  <2>2. task' = [task EXCEPT ![t] = k] /\ sess' = Seek(t)
    BY <1>3 DEF RestoreNext
  <2> HIDE DEF k
  <2>3. RowsHold(k)
    BY <1>1, <2>1 DEF RowsHold, Restorers
  <2>4. RefsHold(k)
    BY <1>1, <1>2, <2>1 DEF RefsHold, InTrash
  <2>5. Shape(k)
    BY <1>1, <2>1 DEF Shape
  <2>6. SendLimit'
    BY <2>1, <2>2, LimitTask DEF IInv, RestoreNext
  <2>7. /\ sess' \in [in : SUBSET Tasks, q : Seq(Tasks)] /\ SessionsBounded'
        /\ sess.in \ {t} \subseteq sess'.in
    BY <2>2, SeekFits
  <2> QED BY <1>1, <2>1, <2>2, <2>3, <2>4, <2>5, <2>6, <2>7, QuietStep DEF RestoreNext, Writers
<1>4. CASE ~Restorable(o)
  <2> DEFINE k == [task[t] EXCEPT !.rows = rest]
  <2>1. k \in TaskState /\ k.at = "next" /\ k.rows = rest /\ k.refs = task[t].refs
        /\ k.moved = task[t].moved /\ k.hit = task[t].hit
    BY <1>1 DEF TaskState
  <2>2. task' = [task EXCEPT ![t] = k] /\ UNCHANGED sess
    BY <1>4 DEF RestoreNext
  <2> HIDE DEF k
  <2>3. RowsHold(k) /\ RefsHold(k) /\ Shape(k)
    BY <1>1, <2>1 DEF RowsHold, RefsHold, Shape, Restorers
  <2> QED BY <1>1, <2>1, <2>2, <2>3, HoldStep DEF RestoreNext, Writers
<1> QED BY <1>3, <1>4

LEMMA RestoreEndsKeeps ==
  ASSUME IInv, NEW t \in Tasks, RestoreEnds(t)
  PROVE  IInv'
<1>1. calls' \in 0 .. PerMinute
  BY DEF RestoreEnds, IInv, TypeOK
<1> QED BY <1>1, NullRows, HoldStep DEF RestoreEnds, Done, Writers

\* Trash is selected and the reference current, so both stay until the move.
LEMMA FindInTrashKeeps ==
  ASSUME IInv, NEW t \in Tasks, FindInTrash(t)
  PROVE  IInv'
<1> DEFINE k == [task[t] EXCEPT !.at = "putback"]
<1>1. task[t] \in TaskState /\ task[t].at = "find" /\ t \in sess.in
      /\ RowsHold(task[t]) /\ RefsHold(task[t]) /\ Shape(task[t]) /\ calls' \in 0 .. PerMinute
  BY DEF FindInTrash, Inside, IInv, TypeOK, LedgerInv, NamesInv
<1>2. k \in TaskState /\ k.at = "putback" /\ k.rows = task[t].rows /\ k.refs = task[t].refs
      /\ k.moved = task[t].moved /\ k.hit = task[t].hit
  BY <1>1 DEF TaskState
<1>3. task' = [task EXCEPT ![t] = k]
  BY DEF FindInTrash
<1> HIDE DEF k
<1>4. RowsHold(k) /\ Shape(k)
  BY <1>1, <1>2 DEF RowsHold, Shape, Restorers
<1>5. RefsHold(k)
  BY <1>1, <1>2 DEF RefsHold, FindInTrash
<1> QED BY <1>1, <1>2, <1>3, <1>4, <1>5, HoldStep DEF FindInTrash, Writers

LEMMA NotInTrashKeeps ==
  ASSUME IInv, NEW t \in Tasks, NotInTrash(t)
  PROVE  IInv'
BY AbortedKeeps DEF NotInTrash

LEMMA PutBackKeeps ==
  ASSUME IInv, NEW t \in Tasks, NEW f \in Places, PutBack(t, f)
  PROVE  IInv'
<1> DEFINE ms == Named(Trash, task[t].refs)
           K == [task[t] EXCEPT !.at = "mark", !.hit = ms]
<1>1. PICK u \in Arrivals(ms, f) : MoveTo(ms, f, u) /\ task' = [task EXCEPT ![t] = K]
  BY DEF PutBack
<1>2. PICK k : k = K
  OBVIOUS
<1>3. /\ task[t] \in TaskState /\ task[t].at = "putback" /\ task[t].refs \subseteq Refs
      /\ \A e \in task[t].moved : e.ref \subseteq Refs
      /\ RowsHold(task[t]) /\ RefsHold(task[t]) /\ Shape(task[t]) /\ t \in sess.in
  BY TaskFields DEF PutBack, IInv, TypeOK, LedgerInv, NamesInv, SessionsInv
<1>4. ms \subseteq {r.m : r \in task[t].refs} /\ ms \subseteq Msgs
  BY <1>3, NamedAreMeant DEF RefsHold, InTrash
<1>5. \A r \in Refs : Good(r) => Good(r)'
  <2>1. outside' \in Nat /\ outside <= outside'
    BY DEF IInv, TypeOK, PutBack
  <2> HIDE DEF ms
  <2> QED BY <1>1, <1>4, <2>1, MoveKeeps DEF IInv, NamesInv
<1> HIDE DEF ms
<1>6. k \in TaskState /\ k.at = "mark" /\ k.rows = task[t].rows /\ k.refs = task[t].refs
      /\ k.moved = task[t].moved /\ k.hit = ms
  BY <1>2, <1>3, <1>4 DEF TaskState
<1>7. RowsHold(k)
  BY <1>3, <1>6 DEF RowsHold, Restorers
<1>8. Shape(k)
  BY <1>4, <1>6 DEF Shape
<1>9. RefsHold(k)'
  <2>1. \A r \in k.refs : Good(r)' /\ r.f = Trash
    BY <1>3, <1>5, <1>6 DEF RefsHold, InTrash
  <2>2. \A e \in k.moved : \A r \in e.ref : Good(r)' /\ r.f = Trash
    BY <1>3, <1>5, <1>6 DEF RefsHold, InTrash
  <2> QED BY <1>6, <2>1, <2>2 DEF RefsHold, InTrash
<1>10. task' = [task EXCEPT ![t] = k]
  BY <1>1, <1>2
<1> HIDE DEF K
<1> QED BY <1>1, <1>3, <1>4, <1>6, <1>7, <1>8, <1>9, <1>10, MoveStep DEF PutBack, Writers

LEMMA MarkedKeeps ==
  ASSUME IInv, NEW t \in Tasks, Marked(t)
  PROVE  IInv'
<1> DEFINE k == [Idle EXCEPT !.at = "next", !.rows = task[t].rows]
<1>1. task[t].at = "mark" /\ t \in sess.in /\ task[t].rows \subseteq Ops
  BY TaskFields DEF Marked, IInv, TypeOK, SessionsInv
<1>2. k \in TaskState /\ k.at = "next" /\ k.rows = task[t].rows /\ k.refs = {} /\ k.moved = {}
      /\ k.hit = {}
  BY <1>1 DEF Idle, TaskState, Ages
<1>3. task' = [task EXCEPT ![t] = k]
  BY DEF Marked
<1> HIDE DEF k
<1>4. ASSUME NEW o \in Ops
      PROVE  /\ op'[o] \in OpRow
             /\ op'[o] = op[o] \/ (op[o].kind = "delete" /\ op'[o].kind = "delete"
                                  /\ InTrash(op'[o].ref))
  <2>1. op[o] \in OpRow /\ InTrash(op[o].ref)
    BY DEF IInv, TypeOK, NamesInv
  <2> DEFINE r == [op[o] EXCEPT !.back = TRUE]
  <2>2. r \in OpRow /\ r.kind = op[o].kind /\ r.ref = op[o].ref
    BY <2>1 DEF OpRow
  <2>3. op'[o] = IF op[o].kind = "delete" /\ op[o].ref = task[t].refs THEN r ELSE op[o]
    BY DEF Marked
  <2> HIDE DEF r
  <2> QED BY <2>1, <2>2, <2>3
<1>5. op' \in [Ops -> OpRow]
  <2>1. op' = [o \in Ops |-> op'[o]]
    BY DEF Marked
  <2> QED BY <1>4, <2>1
<1> QED BY <1>1, <1>2, <1>3, <1>4, <1>5, DeletionStep DEF Marked, Restorers

-----------------------------------------------------------------------------
(***************************************************************************)
(* Around the tools                                                        *)
(***************************************************************************)

\* Others change the mailbox.  References stay good, and what a call has
\* selected stays current.
LEMMA MailboxStep ==
  ASSUME IInv, box' \in [Msgs -> [f : Places, u : 0 .. MaxUid]],
         dir' \in [Places -> [v : 0 .. MaxOutside, next : 1 .. MaxUid + 1]],
         outside' \in 0 .. MaxOutside, BoxInv', \A r \in Refs : Good(r) => Good(r)',
         \A t \in Tasks : \A r \in task[t].refs :
           /\ \/ task[t].at = "move" /\ r.f \in task[t].f
              \/ task[t].at = "putback" /\ r.f = Trash
           /\ Current(r)
           => Current(r)',
         UNCHANGED <<op, task, sess, calls, cred, posted>>
  PROVE  IInv'
<1>1. TypeOK'
  BY DEF IInv, TypeOK
<1>2. LedgerInv'
  BY LedgerSame DEF IInv
<1>3. SendLimit'
  BY DEF IInv, SendLimit, Replying
<1>4. SessionsInv'
  BY DEF IInv, SessionsInv, SessionsBounded
<1>5. \A t \in Tasks : Shape(task[t])'
  BY DEF IInv, Shape, Froms
<1>6. \A o \in Ops : InTrash(op[o].ref)'
  <2>1. \A o \in Ops : op[o].ref \subseteq Refs
    BY RowFields DEF IInv, TypeOK
  <2> QED BY <2>1 DEF IInv, NamesInv, InTrash
<1>7. ASSUME NEW t \in Tasks PROVE RefsHold(task[t])'
  <2>1. RefsHold(task[t]) /\ task[t].refs \subseteq Refs
        /\ \A e \in task[t].moved : e.ref \subseteq Refs
    BY TaskFields DEF IInv, NamesInv, TypeOK
  <2>2. \A r \in task[t].refs : Good(r)'
    BY <2>1 DEF RefsHold
  <2>3. \A e \in task[t].moved : \A r \in e.ref : Good(r)' /\ r.f = Trash
    BY <2>1 DEF RefsHold, InTrash
  <2>4. task[t].at \in {"find", "putback", "mark"} => \A r \in task[t].refs : r.f = Trash
    BY <2>1 DEF RefsHold, InTrash
  <2>5. /\ task[t].at = "move" => \A r \in task[t].refs : r.f \in task[t].f => Current(r)'
        /\ task[t].at = "putback" => \A r \in task[t].refs : Current(r)'
    BY <2>1, <2>4 DEF RefsHold
  <2> QED BY <2>2, <2>3, <2>4, <2>5 DEF RefsHold, InTrash
<1> QED BY <1>1, <1>2, <1>3, <1>4, <1>5, <1>6, <1>7 DEF IInv, NamesInv

\* Another client acts within the bound.
LEMMA OutsideFits ==
  ASSUME TypeOK, Outside
  PROVE  outside' \in 0 .. MaxOutside /\ outside \in Nat /\ outside < outside'
         /\ outside < MaxOutside /\ outside' = outside + 1
BY LimitAssumption DEF TypeOK, Outside

LEMMA UserMovesKeeps ==
  ASSUME IInv, NEW m \in Msgs, NEW f \in Places, UserMoves(m, f)
  PROVE  IInv'
<1>1. PICK u \in Arrivals({m}, f) : MoveTo({m}, f, u)
  BY DEF UserMoves
<1>2. outside' \in 0 .. MaxOutside /\ outside' \in Nat /\ outside <= outside'
  BY OutsideFits DEF IInv, UserMoves
<1>3. /\ box' \in [Msgs -> [f : Places, u : 0 .. MaxUid]]
      /\ dir' \in [Places -> [v : 0 .. MaxOutside, next : 1 .. MaxUid + 1]]
      /\ BoxInv'
      /\ \A g \in Places : dir'[g].v = dir[g].v
      /\ \A r \in Refs : Good(r) => Good(r)'
  BY <1>1, <1>2, MoveKeeps DEF IInv, NamesInv
<1>4. \A t \in Tasks : \A r \in task[t].refs : Current(r) => Current(r)'
  <2>1. \A t \in Tasks : task[t].refs \subseteq Refs
    BY TaskFields DEF IInv, TypeOK
  <2> QED BY <1>3, <2>1, RefFields DEF Current
<1> QED BY <1>2, <1>3, <1>4, MailboxStep DEF UserMoves

LEMMA UserExpungesKeeps ==
  ASSUME IInv, NEW m \in Msgs, UserExpunges(m)
  PROVE  IInv'
<1>1. outside' \in 0 .. MaxOutside /\ outside' \in Nat /\ outside \in Nat /\ outside <= outside'
  BY OutsideFits DEF IInv, UserExpunges
<1>2. Gone \in [f : Places, u : 0 .. MaxUid] /\ Gone.u = 0
  BY LimitAssumption DEF Gone, Places
<1>3. box' = [box EXCEPT ![m] = Gone] /\ dir' = dir
  BY DEF UserExpunges
<1>4. box' \in [Msgs -> [f : Places, u : 0 .. MaxUid]]
      /\ dir' \in [Places -> [v : 0 .. MaxOutside, next : 1 .. MaxUid + 1]]
  BY <1>2, <1>3 DEF IInv, TypeOK
<1>5. box'[m] = Gone /\ \A n \in Msgs \ {m} : box'[n] = box[n]
  BY <1>3 DEF IInv, TypeOK
<1>6. Placed' /\ OneEach'
  <2>1. Placed'
    <3> SUFFICES ASSUME NEW n \in Msgs
                 PROVE  IF box'[n].u = 0 THEN box'[n] = Gone ELSE box'[n].u < dir'[box'[n].f].next
      BY DEF Placed, Gone
    <3> QED BY <1>2, <1>3, <1>5 DEF IInv, NamesInv, BoxInv, Placed
  <2>2. OneEach'
    BY <1>2, <1>5 DEF IInv, NamesInv, BoxInv, OneEach
  <2> QED BY <2>1, <2>2
<1>7. Epochs'
  <2>1. \A f \in Places : dir[f].v \in Nat /\ dir[f].v <= outside
    BY DEF IInv, TypeOK, NamesInv, BoxInv, Epochs
  <2> QED BY <1>1, <1>3, <2>1 DEF Epochs
<1>8. \A r \in Refs : Good(r) => Good(r)'
  <2> SUFFICES ASSUME NEW r \in Refs, Good(r) PROVE Good(r)'
    OBVIOUS
  <2>1. r.u # 0
    BY RefFields DEF Uids
  <2> QED BY <1>2, <1>3, <1>5, <2>1 DEF Good, Current
<1>9. \A t \in Tasks : \A r \in task[t].refs : Current(r) => Current(r)'
  BY <1>3 DEF Current
<1> QED BY <1>1, <1>4, <1>6, <1>7, <1>8, <1>9, MailboxStep DEF UserExpunges, BoxInv

LEMMA RebuildKeeps ==
  ASSUME IInv, NEW f \in Places, Rebuild(f)
  PROVE  IInv'
<1> DEFINE ms == {m \in Msgs : box[m] # Gone /\ box[m].f = f}
           n == Cardinality(ms)
<1>1. PICK u \in [ms -> 1 .. n] :
        /\ \A m, l \in ms : m # l => u[m] # u[l]
        /\ box' = [m \in Msgs |-> IF m \in ms THEN [box[m] EXCEPT !.u = u[m]] ELSE box[m]]
        /\ dir' = [dir EXCEPT ![f] = [v |-> dir[f].v + 1, next |-> n + 1]]
  BY DEF Rebuild
<1>2. outside' \in 0 .. MaxOutside /\ outside' \in Nat /\ outside \in Nat /\ outside < MaxOutside
      /\ outside' = outside + 1
  BY OutsideFits DEF IInv, Rebuild
<1>3. n \in Nat /\ n <= MaxUid /\ ms \subseteq Msgs
  <2>1. ms \subseteq Msgs
    OBVIOUS
  <2> HIDE DEF ms
  <2>2. n \in Nat /\ n <= Cardinality(Msgs) /\ Cardinality(Msgs) \in Nat
    BY <2>1, MsgsFinite
  <2> QED BY <2>1, <2>2, FiniteAssumption, LimitAssumption
<1>4. \A m \in Msgs : box[m] \in [f : Places, u : 0 .. MaxUid]
  BY DEF IInv, TypeOK
<1>5. \A g \in Places : dir[g] \in [v : 0 .. MaxOutside, next : 1 .. MaxUid + 1]
                        /\ dir[g].v <= outside /\ dir[g].v \in Nat /\ dir[g].next \in Nat
  <2>1. \A g \in Places : dir[g] \in [v : 0 .. MaxOutside, next : 1 .. MaxUid + 1]
    BY DEF IInv, TypeOK
  <2>2. \A g \in Places : dir[g].v <= outside
    BY DEF IInv, NamesInv, BoxInv, Epochs
  <2> QED BY <2>1, <2>2, LimitAssumption
<1>6. \A m \in ms : box'[m] \in [f : Places, u : 0 .. MaxUid] /\ box'[m].f = f
                     /\ box'[m].u = u[m] /\ u[m] \in 1 .. n
  <2> SUFFICES ASSUME NEW m \in ms
               PROVE  box'[m] \in [f : Places, u : 0 .. MaxUid] /\ box'[m].f = f
                      /\ box'[m].u = u[m] /\ u[m] \in 1 .. n
    OBVIOUS
  <2>1. m \in Msgs /\ box[m].f = f /\ u[m] \in 1 .. n
    OBVIOUS
  <2>2. u[m] \in 0 .. MaxUid
    <3> HIDE DEF n
    <3> QED BY <1>3, <2>1, LimitAssumption
  <2>3. box'[m] = [box[m] EXCEPT !.u = u[m]]
    BY <1>1, <2>1
  <2> HIDE DEF n, ms
  <2> QED BY <1>4, <2>1, <2>2, <2>3
<1>7. \A m \in Msgs \ ms : box'[m] = box[m]
  BY <1>1
<1>8. \A m \in Msgs \ ms : box[m] = Gone \/ box[m].f # f
  OBVIOUS
<1>9. box' \in [Msgs -> [f : Places, u : 0 .. MaxUid]]
  <2>1. box' = [m \in Msgs |-> box'[m]]
    BY <1>1
  <2> HIDE DEF ms, n
  <2> QED BY <1>4, <1>6, <1>7, <2>1
<1> HIDE DEF ms, n
<1>10. /\ dir'[f].v = dir[f].v + 1 /\ dir'[f].next = n + 1
       /\ \A g \in Places \ {f} : dir'[g] = dir[g]
       /\ dir' \in [Places -> [v : 0 .. MaxOutside, next : 1 .. MaxUid + 1]]
  <2>1. dir \in [Places -> [v : 0 .. MaxOutside, next : 1 .. MaxUid + 1]]
    BY DEF IInv, TypeOK
  <2>2. dir[f].v + 1 \in 0 .. MaxOutside /\ n + 1 \in 1 .. MaxUid + 1
    BY <1>2, <1>3, <1>5, LimitAssumption
  <2> QED BY <1>1, <2>1, <2>2
<1>11. Gone.u = 0
  BY DEF Gone
<1>12. Placed'
  <2> SUFFICES ASSUME NEW m \in Msgs
               PROVE  IF box'[m].u = 0 THEN box'[m] = Gone ELSE box'[m].u < dir'[box'[m].f].next
    BY DEF Placed, Gone
  <2>1. CASE m \in ms
    BY <1>3, <1>6, <1>10, <2>1
  <2>2. CASE m \notin ms
    <3>1. box[m].f \in Places /\ (IF box[m].u = 0 THEN box[m] = Gone
                                                 ELSE box[m].u < dir[box[m].f].next)
      BY <1>4 DEF IInv, NamesInv, BoxInv, Placed
    <3> QED BY <1>7, <1>8, <1>10, <1>11, <2>2, <3>1
  <2> QED BY <2>1, <2>2
<1>13. OneEach'
  <2> SUFFICES ASSUME NEW m \in Msgs, NEW l \in Msgs, box'[m].u # 0, box'[m].u = box'[l].u,
                      box'[m].f = box'[l].f
               PROVE  m = l
    BY DEF OneEach
  <2>1. CASE m \in ms /\ l \in ms
    BY <1>1, <1>6, <2>1
  <2>2. CASE m \in ms /\ l \notin ms
    BY <1>6, <1>7, <1>8, <1>11, <2>2
  <2>3. CASE m \notin ms /\ l \in ms
    BY <1>6, <1>7, <1>8, <1>11, <2>3
  <2>4. CASE m \notin ms /\ l \notin ms
    BY <1>7, <2>4 DEF IInv, NamesInv, BoxInv, OneEach
  <2> QED BY <2>1, <2>2, <2>3, <2>4
<1>14. Epochs'
  <2> SUFFICES ASSUME NEW g \in Places PROVE dir'[g].v <= outside'
    BY DEF Epochs
  <2>1. CASE g = f
    BY <1>2, <1>5, <1>10, <2>1
  <2>2. CASE g # f
    BY <1>2, <1>5, <1>10, <2>2
  <2> QED BY <2>1, <2>2
<1>15. ASSUME NEW r \in Refs, Good(r) PROVE Good(r)'
  <2>1. r.f \in Places /\ r.v \in Nat /\ r.u \in Uids /\ r.u # 0 /\ r.v <= dir[r.f].v
    BY <1>15, RefFields DEF Good, Uids
  <2>2. CASE r.f = f
    <3>1. r.v < dir'[r.f].v /\ r.v <= dir'[r.f].v
      BY <1>5, <1>10, <2>1, <2>2
    <3>2. ~Current(r)'
      BY <1>5, <1>10, <2>1, <2>2 DEF Current
    <3> QED BY <3>1, <3>2 DEF Good
  <2>3. CASE r.f # f
    <3>1. dir'[r.f] = dir[r.f]
      BY <1>10, <2>1, <2>3
    <3>2. \A m \in Msgs : box'[m].f = r.f => box'[m] = box[m]
      BY <1>6, <1>7, <2>3
    <3> QED BY <1>15, <3>1, <3>2 DEF Good, Current
  <2> QED BY <2>2, <2>3
<1>16. ASSUME NEW t \in Tasks, NEW r \in task[t].refs, Current(r),
              \/ task[t].at = "move" /\ r.f \in task[t].f
              \/ task[t].at = "putback" /\ r.f = Trash
       PROVE  Current(r)'
  <2>1. r.f \in Places
    BY TaskFields, RefFields DEF IInv, TypeOK
  <2>2. r.f \in Selected(t)
    BY <1>16 DEF Selected
  <2>3. r.f # f
    BY <2>2 DEF Rebuild
  <2> QED BY <1>10, <1>16, <2>1, <2>3 DEF Current
<1>17. UNCHANGED <<op, task, sess, calls, cred, posted>>
  BY DEF Rebuild
<1> QED BY <1>2, <1>9, <1>10, <1>12, <1>13, <1>14, <1>15, <1>16, <1>17, MailboxStep DEF BoxInv

\* Rows change in their age or in what the mail server got, and the calls stay or
\* are forgotten.
LEMMA RowsStep ==
  ASSUME IInv, op' \in [Ops -> OpRow],
         \A o \in Ops : /\ op'[o].kind = op[o].kind /\ op'[o].st = op[o].st
                        /\ op'[o].key = op[o].key /\ op'[o].ref = op[o].ref
                        /\ op'[o].age = "hour" => op[o].age = "hour"
                        /\ \/ op'[o].got = op[o].got
                           \/ task' = [t \in Tasks |-> Idle] /\ op[o].st = "pending",
         UNCHANGED <<task, sess>> \/ task' = [t \in Tasks |-> Idle],
         sess' \in [in : SUBSET Tasks, q : Seq(Tasks)], SessionsBounded', calls' \in 0 .. PerMinute,
         UNCHANGED <<box, dir, cred, posted, outside>>
  PROVE  IInv'
<1>1. task' \in [Tasks -> TaskState] /\ \A t \in Tasks : task'[t] = Idle \/ task' = task
  BY NullRows DEF IInv, TypeOK
<1>2. TypeOK'
  BY <1>1 DEF IInv, TypeOK
<1>3. ASSUME NEW t \in Tasks PROVE RowsHold(task[t])'
  <2>1. CASE task'[t] = Idle
    BY <2>1 DEF RowsHold, Idle, Restorers
  <2>2. CASE task'[t] # Idle
    <3>1. task' = task /\ RowsHold(task[t]) /\ task[t].rows \subseteq Ops
      BY <1>1, <2>2, TaskFields DEF IInv, LedgerInv, TypeOK
    <3>2. \A o \in task[t].rows : op'[o].kind = op[o].kind /\ op'[o].st = op[o].st
                                 /\ op'[o].got = op[o].got
      BY <2>2, <3>1
    <3> QED BY <3>1, <3>2 DEF RowsHold
  <2> QED BY <2>1, <2>2
<1>4. RowsApart'
  BY <1>1, NullRows DEF IInv, LedgerInv, RowsApart, Writers
<1>5. KeysOnce' /\ SendsHaveState'
  BY DEF IInv, LedgerInv, KeysOnce, KeyUsed, SendsHaveState
<1>6. LedgerTellsTruth'
  BY DEF IInv, LedgerInv, LedgerTellsTruth
<1>7. SendLimit'
  <2>1. Recent' \subseteq Recent
    BY DEF Recent
  <2>2. Replying' \subseteq Replying
    BY <1>1, NullRows DEF Replying
  <2> QED BY <2>1, <2>2, LimitKept DEF IInv
<1>8. SessionsInv'
  BY <1>1, NullRows DEF IInv, SessionsInv
<1>9. \A t \in Tasks : Shape(task[t])'
  <2>1. \A t \in Tasks : Shape(task'[t])
    BY <1>1, NullRows DEF IInv
  <2> QED BY <2>1 DEF Shape, Froms
<1>10. NamesInv'
  <2>1. BoxInv'
    BY DEF IInv, NamesInv, BoxInv, Placed, OneEach, Epochs, Gone
  <2>2. \A r : (Good(r)' <=> Good(r)) /\ (Current(r)' <=> Current(r))
    BY DEF Good, Current
  <2>3. \A o \in Ops : InTrash(op[o].ref)'
    BY <2>2 DEF IInv, NamesInv, InTrash
  <2>4. ASSUME NEW t \in Tasks PROVE RefsHold(task[t])'
    <3>1. RefsHold(task'[t])
      BY <1>1, NullRows DEF IInv, NamesInv
    <3> QED BY <2>2, <3>1 DEF RefsHold, InTrash
  <2> QED BY <2>1, <2>3, <2>4 DEF NamesInv
<1> QED BY <1>2, <1>3, <1>4, <1>5, <1>6, <1>7, <1>8, <1>9, <1>10 DEF IInv, LedgerInv

LEMMA AgeKeeps ==
  ASSUME IInv, NEW o \in Ops, Age(o)
  PROVE  IInv'
<1> DEFINE r == [op[o] EXCEPT !.age = "old"]
<1>1. op \in [Ops -> OpRow] /\ op' = [op EXCEPT ![o] = r]
  BY DEF Age, IInv, TypeOK
<1>2. r \in OpRow /\ r.kind = op[o].kind /\ r.st = op[o].st /\ r.key = op[o].key
      /\ r.ref = op[o].ref /\ r.age = "old" /\ r.got = op[o].got
  BY <1>1 DEF OpRow, Ages
<1> HIDE DEF r
<1>3. op' \in [Ops -> OpRow] /\ op'[o] = r /\ \A p \in Ops \ {o} : op'[p] = op[p]
  BY <1>1, <1>2
<1>4. UNCHANGED <<box, dir, task, sess, calls, cred, posted, outside>>
  BY DEF Age
<1>5. SessionsBounded' /\ sess' \in [in : SUBSET Tasks, q : Seq(Tasks)] /\ calls' \in 0 .. PerMinute
  BY <1>4 DEF IInv, TypeOK, SessionsInv, SessionsBounded
<1>6. \A p \in Ops : /\ op'[p].kind = op[p].kind /\ op'[p].st = op[p].st
                     /\ op'[p].key = op[p].key /\ op'[p].ref = op[p].ref
                     /\ op'[p].age = "hour" => op[p].age = "hour"
                     /\ \/ op'[p].got = op[p].got
                        \/ task' = [t \in Tasks |-> Idle] /\ op[p].st = "pending"
  BY <1>2, <1>3
<1> QED BY <1>3, <1>4, <1>5, <1>6, RowsStep

LEMMA AgeReplyKeeps ==
  ASSUME IInv, NEW t \in Tasks, AgeReply(t)
  PROVE  IInv'
<1> DEFINE k == [task[t] EXCEPT !.age = "old"]
<1>1. task[t] \in TaskState /\ task[t].at = "reply" /\ task' = [task EXCEPT ![t] = k]
      /\ RowsHold(task[t]) /\ RefsHold(task[t]) /\ Shape(task[t])
  BY DEF AgeReply, IInv, TypeOK, LedgerInv, NamesInv
<1>2. k \in TaskState /\ k.at = "reply" /\ k.rows = task[t].rows /\ k.refs = task[t].refs
      /\ k.moved = task[t].moved /\ k.hit = task[t].hit /\ k.age = "old"
  BY <1>1 DEF TaskState, Ages
<1> HIDE DEF k
<1>3. RowsHold(k) /\ RefsHold(k) /\ Shape(k)
  BY <1>1, <1>2 DEF RowsHold, RefsHold, Shape, Restorers
<1>4. SendLimit'
  <2>1. Recent' \subseteq Recent
    BY DEF Recent, AgeReply
  <2>2. Replying' \subseteq Replying
    BY <1>1, <1>2, TaskPut DEF Replying, IInv
  <2> QED BY <2>1, <2>2, LimitKept DEF IInv
<1>5. SessionsBounded' /\ sess' \in [in : SUBSET Tasks, q : Seq(Tasks)] /\ cred' \in BOOLEAN
      /\ calls' \in 0 .. PerMinute
  BY DEF AgeReply, IInv, TypeOK, SessionsInv, SessionsBounded
<1> QED BY <1>1, <1>2, <1>3, <1>4, <1>5, QuietStep DEF AgeReply, Writers

LEMMA CrashKeeps ==
  ASSUME IInv, Crash
  PROVE  IInv'
<1>1. PICK through \in SUBSET {t \in Tasks : task[t].at = "smtp"} :
        op' = [o \in Ops |-> IF \E t \in through : o \in task[t].rows
                             THEN [op[o] EXCEPT !.got = "lost"] ELSE op[o]]
  BY DEF Crash
<1>2. ASSUME NEW o \in Ops
      PROVE  /\ op'[o] \in OpRow /\ op'[o].kind = op[o].kind /\ op'[o].st = op[o].st
             /\ op'[o].key = op[o].key /\ op'[o].ref = op[o].ref /\ op'[o].age = op[o].age
             /\ op'[o].got = op[o].got \/ op[o].st = "pending"
  <2> DEFINE r == [op[o] EXCEPT !.got = "lost"]
  <2>1. op[o] \in OpRow
    BY DEF IInv, TypeOK
  <2>2. r \in OpRow /\ r.kind = op[o].kind /\ r.st = op[o].st /\ r.key = op[o].key
        /\ r.ref = op[o].ref /\ r.age = op[o].age
    BY <2>1 DEF OpRow, Fates
  <2>3. op'[o] = IF \E t \in through : o \in task[t].rows THEN r ELSE op[o]
    BY <1>1
  <2>4. (\E t \in through : o \in task[t].rows) => op[o].st = "pending"
    BY DEF IInv, LedgerInv, RowsHold
  <2> HIDE DEF r
  <2> QED BY <2>1, <2>2, <2>3, <2>4
<1>3. op' \in [Ops -> OpRow]
  <2>1. op' = [o \in Ops |-> op'[o]]
    BY <1>1
  <2> QED BY <1>2, <2>1
<1>4. sess' \in [in : SUBSET Tasks, q : Seq(Tasks)] /\ sess'.in = {}
  BY DEF Crash
<1>5. SessionsBounded'
  BY <1>4, FS_EmptySet, LimitAssumption DEF SessionsBounded
<1>6. calls' \in 0 .. PerMinute /\ task' = [t \in Tasks |-> Idle]
      /\ UNCHANGED <<box, dir, cred, posted, outside>>
  BY LimitAssumption DEF Crash
<1>7. \A p \in Ops : /\ op'[p].kind = op[p].kind /\ op'[p].st = op[p].st
                     /\ op'[p].key = op[p].key /\ op'[p].ref = op[p].ref
                     /\ op'[p].age = "hour" => op[p].age = "hour"
                     /\ \/ op'[p].got = op[p].got
                        \/ task' = [t \in Tasks |-> Idle] /\ op[p].st = "pending"
  BY <1>2, <1>6
<1> QED BY <1>3, <1>4, <1>5, <1>6, <1>7, RowsStep

-----------------------------------------------------------------------------
(***************************************************************************)
(* The beginning, and every step                                           *)
(***************************************************************************)
LEMMA InitIInv ==
  ASSUME Init
  PROVE  IInv
<1> DEFINE n == Cardinality(Msgs)
           U == CHOOSE x \in [Msgs -> 1 .. n] : \A m, l \in Msgs : m # l => x[m] # x[l]
<1>1. n \in Nat /\ n <= MaxUid
  BY MsgsFinite, FiniteAssumption
<1>2. PICK u : u = U
  OBVIOUS
<1>3. u \in [Msgs -> 1 .. n] /\ \A m, l \in Msgs : m # l => u[m] # u[l]
  <2>1. IsFiniteSet(1 .. n) /\ Cardinality(1 .. n) = n
    <3> HIDE DEF n
    <3> QED BY <1>1, FS_Interval
  <2>2. PICK b \in Bijection(Msgs, 1 .. n) : TRUE
    BY <2>1, FiniteAssumption, FS_SameCardinalityBij DEF ExistsBijection
  <2>3. b \in [Msgs -> 1 .. n] /\ \A m, l \in Msgs : m # l => b[m] # b[l]
    BY <2>2 DEF Bijection, Injection, IsInjective
  <2> QED BY <1>2, <2>3
<1>4. PICK at \in [Msgs -> Folders] : box = [m \in Msgs |-> [f |-> at[m], u |-> u[m]]]
  BY <1>2 DEF Init
<1> HIDE DEF n, U
<1>5. \A m \in Msgs : box[m] = [f |-> at[m], u |-> u[m]]
  BY <1>4
<1>6. \A m \in Msgs : box[m].f \in Folders /\ box[m].u = u[m] /\ u[m] \in 1 .. n
  <2> SUFFICES ASSUME NEW m \in Msgs
               PROVE  box[m].f \in Folders /\ box[m].u = u[m] /\ u[m] \in 1 .. n
    OBVIOUS
  <2>1. box[m].f = at[m] /\ box[m].u = u[m] /\ at[m] \in Folders
    BY <1>4, <1>5
  <2> QED BY <1>3, <2>1
<1>7. box \in [Msgs -> [f : Places, u : 0 .. MaxUid]]
  <2>1. \A m \in Msgs : at[m] \in Places /\ u[m] \in 0 .. MaxUid
    BY <1>1, <1>3, LimitAssumption DEF Places
  <2> QED BY <1>4, <2>1
<1>8. dir = [f \in Places |-> [v |-> 0, next |-> IF f = Trash THEN 1 ELSE n + 1]]
  BY DEF Init, n
<1>9. \A f \in Places : dir[f].v = 0 /\ (f \in Folders => dir[f].next = n + 1)
  BY <1>8, NamesAssumption
<1>10. dir \in [Places -> [v : 0 .. MaxOutside, next : 1 .. MaxUid + 1]]
  BY <1>1, <1>8, LimitAssumption
<1>11. \A o \in Ops : op[o] = NoRow
  BY DEF Init
<1>12. \A t \in Tasks : task[t] = Idle
  BY DEF Init
<1>13. TypeOK
  <2>1. op \in [Ops -> OpRow] /\ task \in [Tasks -> TaskState]
    BY NullRows DEF Init
  <2>2. sess \in [in : SUBSET Tasks, q : Seq(Tasks)] /\ posted \in [Keys -> Nat]
    BY DEF Init
  <2>3. calls \in 0 .. PerMinute /\ cred \in BOOLEAN /\ outside \in 0 .. MaxOutside
    BY LimitAssumption DEF Init
  <2> QED BY <1>7, <1>10, <2>1, <2>2, <2>3 DEF TypeOK
<1>14. LedgerInv
  BY <1>11, <1>12, NullRows
     DEF Init, LedgerInv, RowsApart, KeysOnce, SendsHaveState, LedgerTellsTruth, Writers
<1>15. NamesInv
  <2>1. Placed
    <3> SUFFICES ASSUME NEW m \in Msgs PROVE box[m].u # 0 /\ box[m].u < dir[box[m].f].next
      BY DEF Placed
    <3> QED BY <1>1, <1>6, <1>9 DEF Places
  <2>2. OneEach
    BY <1>3, <1>6 DEF OneEach
  <2>3. Epochs
    BY <1>9 DEF Epochs, Init
  <2>4. \A o \in Ops : InTrash(op[o].ref)
    BY <1>11, NullRows DEF InTrash
  <2>5. \A t \in Tasks : RefsHold(task[t])
    BY <1>12, NullRows
  <2> QED BY <2>1, <2>2, <2>3, <2>4, <2>5 DEF NamesInv, BoxInv
<1>16. SessionsInv
  <2>1. sess.in = {}
    BY DEF Init
  <2> QED BY <1>12, <2>1, NullRows, FS_EmptySet, LimitAssumption DEF SessionsInv, SessionsBounded
<1>17. SendLimit
  <2>1. Recent = {} /\ Replying = {}
    BY <1>11, <1>12, NullRows DEF Recent, Replying
  <2>2. Cardinality(Recent) = 0 /\ Cardinality(Replying) = 0
    BY <2>1, FS_EmptySet
  <2>3. Cardinality(Recent) + Cardinality(Replying) <= PerHour + Cardinality(Tasks) - 1
    BY <2>2, RecentFinite, LimitAssumption
  <2> QED BY <2>3 DEF SendLimit, Recent
<1>18. \A t \in Tasks : Shape(task[t])
  BY <1>12, NullRows
<1> QED BY <1>13, <1>14, <1>15, <1>16, <1>17, <1>18 DEF IInv

LEMMA StutterKeeps ==
  ASSUME IInv, UNCHANGED vars
  PROVE  IInv'
<1>1. \A o \in Ops : op[o] \in OpRow
  BY DEF IInv, TypeOK
<1>2. SessionsBounded' /\ sess' \in [in : SUBSET Tasks, q : Seq(Tasks)] /\ calls' \in 0 .. PerMinute
      /\ op' \in [Ops -> OpRow]
  BY DEF IInv, TypeOK, SessionsInv, SessionsBounded, vars
<1>3. \A p \in Ops : /\ op'[p].kind = op[p].kind /\ op'[p].st = op[p].st
                     /\ op'[p].key = op[p].key /\ op'[p].ref = op[p].ref
                     /\ op'[p].age = "hour" => op[p].age = "hour"
                     /\ \/ op'[p].got = op[p].got
                        \/ task' = [t \in Tasks |-> Idle] /\ op[p].st = "pending"
  BY DEF vars
<1> QED BY <1>2, <1>3, RowsStep DEF vars

LEMMA CallKeeps ==
  ASSUME IInv, NEW t \in Tasks, Call(t)
  PROVE  IInv'
BY ReadKeeps, SendKeeps, SendReplyKeeps, DeleteKeeps, RestoreKeeps DEF Call

LEMMA ContinueKeeps ==
  ASSUME IInv, NEW t \in Tasks, Continue(t)
  PROVE  IInv'
<1>1. CASE ReadEnds(t) \/ ImapFails(t) \/ ImapRejects(t) \/ ReplyFetched(t)
  BY <1>1, ReadEndsKeeps, ImapFailsKeeps, ImapRejectsKeeps, ReplyFetchedKeeps
<1>2. CASE Sent(t) \/ NotSent(t) \/ SmtpRejects(t) \/ \E got \in Fates : CutOff(t, got) \/ Uncertain(t, got)
  BY <1>2, AnsweredKeeps
<1>3. CASE SentFiling(t) \/ Copied(t) \/ Recorded(t)
  BY <1>3, SentFilingKeeps, CopiedKeeps, RecordedKeeps
<1>4. ASSUME NEW f \in Places,
             CheckFolder(t, f) \/ CheckFails(t, f) \/ PutBack(t, f)
               \/ \E uidplus \in BOOLEAN : MoveFolder(t, f, uidplus)
      PROVE  IInv'
  BY <1>4, CheckFolderKeeps, CheckFailsKeeps, PutBackKeeps, MoveFolderKeeps
<1>5. ASSUME NEW o \in Ops, RestoreNext(t, o) PROVE IInv'
  BY <1>5, RestoreNextKeeps
<1>6. CASE RestoreEnds(t) \/ FindInTrash(t) \/ NotInTrash(t) \/ Marked(t)
  BY <1>6, RestoreEndsKeeps, FindInTrashKeeps, NotInTrashKeeps, MarkedKeeps
<1> QED BY <1>1, <1>2, <1>3, <1>4, <1>5, <1>6 DEF Continue

\* Every step of a tool, of another client, of time and of the process keeps
\* the invariant.
LEMMA NextIInv ==
  ASSUME IInv, [Next]_vars
  PROVE  IInv'
<1>1. ASSUME NEW t \in Tasks, Call(t) \/ Continue(t) PROVE IInv'
  BY <1>1, CallKeeps, ContinueKeeps
<1>2. CASE Refused \/ CallLapses \/ Reprovision
  BY <1>2, RefusedKeeps
<1>3. ASSUME NEW m \in Msgs, UserExpunges(m) \/ \E f \in Places : UserMoves(m, f) PROVE IInv'
  BY <1>3, UserExpungesKeeps, UserMovesKeeps
<1>4. ASSUME NEW f \in Places, Rebuild(f) PROVE IInv'
  BY <1>4, RebuildKeeps
<1>5. ASSUME NEW o \in Ops, Age(o) PROVE IInv'
  BY <1>5, AgeKeeps
<1>6. ASSUME NEW t \in Tasks, AgeReply(t) PROVE IInv'
  BY <1>6, AgeReplyKeeps
<1>7. CASE Crash
  BY <1>7, CrashKeeps
<1>8. CASE UNCHANGED vars
  BY <1>8, StutterKeeps
<1> QED BY <1>1, <1>2, <1>3, <1>4, <1>5, <1>6, <1>7, <1>8 DEF Next, Around

(***************************************************************************)
(* The invariant of the tools: what a call that waits holds, and what its  *)
(* references name, whatever other calls, other mail clients and failures  *)
(* do in between.                                                          *)
(***************************************************************************)
THEOREM ToolsInvariant == Spec => []IInv
<1>1. Init => IInv
  BY InitIInv
<1>2. IInv /\ [Next]_vars => IInv'
  BY NextIInv
<1> QED BY <1>1, <1>2, PTL DEF Spec

(***************************************************************************)
(* What the ledger of sends is good for: no key is posted twice; a send    *)
(* recorded `completed` was accepted, while one recorded `failed` or       *)
(* `unknown` may have been, but was not answered so; and the hourly limit, *)
(* which counts the completed and the unknown, is overrun by no more than  *)
(* the other calls under way (mail_send, for any number of calls and       *)
(* keys).                                                                  *)
(***************************************************************************)
THEOREM LedgerAlwaysHolds == Spec => []LedgerHolds
<1>1. IInv => LedgerHolds
  <2> SUFFICES ASSUME IInv PROVE LedgerHolds
    OBVIOUS
  <2>1. KeyNeverSentTwice
    BY DEF IInv, LedgerInv, KeysOnce, KeyNeverSentTwice
  <2> QED BY <2>1 DEF IInv, LedgerInv, LedgerHolds
<1> QED BY <1>1, ToolsInvariant, PTL

(***************************************************************************)
(* Deleting and restoring move the message that was named and no other,    *)
(* also when other clients renumber, move or expunge messages, and no more *)
(* sessions are open than MAX_SESSIONS_PER_MAILBOX (moveToTrash,           *)
(* restoreFromTrash, Semaphore).                                           *)
(***************************************************************************)
THEOREM MailboxAlwaysHolds == Spec => []MailboxHolds
<1>1. IInv => MailboxHolds
  BY DEF IInv, Shape, SessionsInv, MailboxHolds, MovesWhatWasNamed
<1> QED BY <1>1, ToolsInvariant, PTL
=============================================================================
