----------------------------- MODULE AdminProofs -----------------------------
(***************************************************************************)
(* Proofs about the administrator's side: Auth, Mail, Sieve and Broker,    *)
(* for every number of administrators, sessions, addresses, handlers,      *)
(* requests, scripts, containers and volumes.                              *)
(*                                                                         *)
(* Each part has its invariant.  IInv: whoever need not change their       *)
(* password has chosen it, a handler that creates an administrator was     *)
(* called by one who had, a session has at most one owner, and once there  *)
(* is an administrator there always is.  GateInv: the wrong passwords of   *)
(* the window and those being tested are below the policy's number and the *)
(* handlers, together.  MailInv: what a request has done and what it has   *)
(* still to do is what it was asked, and the aliases have no loop even     *)
(* with all that the one running request will add.  SieveInv: how far an   *)
(* update has come, seen from its next command.  BrokerInv: what was       *)
(* listed when a request was resolved, for the containers it is to call.   *)
(*                                                                         *)
(* What is defined by recursion (detectsAliasLoop's walk, the sum of the   *)
(* failed attempts) is reasoned about with a least counterexample: Least.  *)
(***************************************************************************)
EXTENDS Admin, TLAPS, FiniteSetTheorems, SequenceTheorems, WellFoundedInduction

\* A set of naturals that is not empty has a least element.
LEMMA Least ==
  ASSUME NEW T, T \subseteq Nat, T # {}
  PROVE  \E x \in T : \A y \in T : x <= y
<1>1. IsWellFoundedOn(OpToRel(<, Nat), Nat)
  BY NatLessThanWellFounded
<1>2. PICK x \in T : \A y \in T : ~(<<y, x>> \in OpToRel(<, Nat))
  BY <1>1, WFMin
<1>3. \A y \in T : ~(y < x)
  BY <1>2 DEF OpToRel
<1> QED BY <1>3

-----------------------------------------------------------------------------
(***************************************************************************)
(* Auth: administrators and sessions                                       *)
(***************************************************************************)

\* The columns of an administrator that are NOT NULL
FilledRows ==
  \A a \in Rows : /\ \E e \in Emails : admin[a].email = {e}
                  /\ \E p \in Passwords : admin[a].pw = {p}

\* The typing part of TypeOK
Typed ==
  /\ admin \in [Admins -> AdminRow]
  /\ ses \in [Sessions -> SessionRow]
  /\ fails \in [Attempts -> 0 .. MaxFails]
  /\ task \in [Tasks -> TaskState]
  /\ changes \in [Admins -> 0 .. MaxChanges]
  /\ chosen \subseteq Admins /\ acted \subseteq Admins /\ booted \subseteq Admins

\* force_password_change is only cleared by the administrator's own change.
ForcedUntilChosen == \A a \in Rows : ~admin[a].force => a \in chosen

\* A session has one owner, or there is no row.
OneOwner == \A s \in Sessions : ses[s].of = {} \/ \E a \in Admins : ses[s].of = {a}

\* Once bootstrap has created an administrator, there is one.
BootedStays == booted = {} \/ (Rows # {} /\ \E b \in Admins : booted = {b})

\* What a handler that waits has read.
TaskHolds(k) ==
  /\ k.at = "login" => \E e \in Emails : k.email = {e}
  /\ k.at = "create" => k.who \subseteq chosen
  /\ k.at = "change" => \E p \in Passwords : k.new = {p}
TasksHold == \A t \in Tasks : TaskHolds(task[t])

\* What is proved of administrators, and of sessions
AdminsInv ==
  FilledRows /\ EnabledRemains /\ EmailsDistinct /\ ForcedUntilChosen /\ BootedStays
SessionsInv == OneOwner /\ ChangeEvicts /\ SessionsHaveOwners

IInv == Typed /\ AdminsInv /\ SessionsInv /\ TasksHold /\ ChosenFirst

-----------------------------------------------------------------------------
(***************************************************************************)
(* Handlers that wait                                                      *)
(***************************************************************************)

\* The rows that stand for "no row", and an idle handler, have their types.
LEMMA NullRows ==
  /\ NoAdmin \in AdminRow /\ NoSession \in SessionRow
  /\ Idle \in TaskState /\ TaskHolds(Idle)
<1>1. NoAdmin \in AdminRow
  BY DEF NoAdmin, AdminRow
<1>2. NoSession \in SessionRow
  BY BoundAssumption DEF NoSession, SessionRow
<1>3. Idle \in TaskState /\ TaskHolds(Idle)
  BY DEF Idle, TaskState, TaskHolds
<1> QED BY <1>1, <1>2, <1>3

\* One handler begins or ends a wait, and the others' reads stay good.
LEMMA TaskStep ==
  ASSUME Typed, TasksHold, chosen \subseteq chosen',
         NEW t \in Tasks, NEW k \in TaskState, TaskHolds(k),
         task' = [task EXCEPT ![t] = k]
  PROVE  task' \in [Tasks -> TaskState] /\ TasksHold'
<1>1. task' \in [Tasks -> TaskState]
  BY DEF Typed
<1>2. ASSUME NEW u \in Tasks PROVE TaskHolds(task[u])'
  <2>1. task'[u] = IF u = t THEN k ELSE task[u]
    BY DEF Typed
  <2>2. TaskHolds(task'[u])
    BY <2>1 DEF TasksHold
  <2> QED BY <2>2 DEF TaskHolds
<1> QED BY <1>1, <1>2 DEF TasksHold

\* A wait ends.
LEMMA ResumeStep ==
  ASSUME Typed, TasksHold, chosen \subseteq chosen',
         NEW t \in Tasks, NEW at, Resume(t, at)
  PROVE  task' \in [Tasks -> TaskState] /\ TasksHold'
BY NullRows, TaskStep DEF Resume

\* The rows are the same: so is what is known of them.
LEMMA AdminsSame ==
  ASSUME AdminsInv, UNCHANGED <<admin, chosen, booted>>
  PROVE  AdminsInv'
BY DEF AdminsInv, FilledRows, EnabledRemains, EmailsDistinct, ForcedUntilChosen, BootedStays,
       Rows, Enabled

\* The sessions are the same, and no row is gone.
LEMMA SessionsSame ==
  ASSUME SessionsInv, UNCHANGED <<ses, changes>>, Rows \subseteq Rows'
  PROVE  SessionsInv'
BY DEF SessionsInv, OneOwner, ChangeEvicts, SessionsHaveOwners

\* A handler is the only thing that changes.
LEMMA WaitStep ==
  ASSUME IInv, NEW t \in Tasks, NEW k \in TaskState, TaskHolds(k), Wait(t, k),
         UNCHANGED <<admin, ses, fails, changes, chosen, acted, booted>>
  PROVE  IInv'
<1>1. task' \in [Tasks -> TaskState] /\ TasksHold'
  BY TaskStep DEF IInv, Wait
<1>2. AdminsInv' /\ SessionsInv'
  BY AdminsSame, SessionsSame DEF IInv, Rows
<1> QED BY <1>1, <1>2 DEF IInv, Typed, ChosenFirst

-----------------------------------------------------------------------------
(***************************************************************************)
(* The steps that only read rows, or write sessions and attempts           *)
(***************************************************************************)

\* A log-in begins.
LEMMA LoginKeeps ==
  ASSUME IInv, NEW t \in Tasks, NEW e \in Emails, NEW i \in Ips, NEW p \in Passwords,
         Login(t, e, i, p)
  PROVE  IInv'
<1> DEFINE rows == IF LockedOut(e, i) THEN {} ELSE RowsOf(e)
           k == [Idle EXCEPT !.at = "login", !.email = {e}, !.ip = {i},
                             !.tested = ~LockedOut(e, i),
                             !.match = \E a \in rows : admin[a].pw = {p},
                             !.who = rows,
                             !.disabled = \E a \in rows : admin[a].disabled]
<1>1. rows \subseteq Admins
  BY DEF RowsOf, Rows
<1>2. k \in TaskState /\ TaskHolds(k)
  <2> HIDE DEF rows
  <2> QED BY <1>1 DEF TaskState, TaskHolds, Idle
<1>3. Wait(t, k) /\ UNCHANGED <<admin, ses, fails, changes, chosen, acted, booted>>
  BY DEF Login
<1> QED BY <1>2, <1>3, WaitStep

\* A change of a password begins.
LEMMA ChangePasswordKeeps ==
  ASSUME IInv, NEW t \in Tasks, NEW s \in Sessions, NEW a \in Admins, NEW p \in Passwords,
         ChangePassword(t, s, a, p)
  PROVE  IInv'
<1> DEFINE k == [Idle EXCEPT !.at = "change", !.who = {a}, !.s = {s}, !.new = {p}]
<1>1. k \in TaskState /\ TaskHolds(k)
  BY DEF TaskState, TaskHolds, Idle
<1>2. Wait(t, k) /\ UNCHANGED <<admin, ses, fails, changes, chosen, acted, booted>>
  BY DEF ChangePassword
<1> QED BY <1>1, <1>2, WaitStep

\* Whoever is let in to administer has chosen their password.
LEMMA AuthorizedChose ==
  ASSUME IInv, NEW s, NEW a, Authorized(s, a)
  PROVE  a \in chosen /\ a \in Enabled
BY DEF IInv, AdminsInv, ForcedUntilChosen, Authorized, Valid, Enabled

\* POST /admins, up to its hash
LEMMA CreateAdminKeeps ==
  ASSUME IInv, NEW t \in Tasks, NEW s \in Sessions, NEW a \in Admins, NEW e \in Emails,
         NEW p \in Passwords, CreateAdmin(t, s, a, e, p)
  PROVE  IInv'
<1> DEFINE k == [Idle EXCEPT !.at = "create", !.who = {a}, !.email = {e}, !.new = {p}]
<1>1. a \in chosen
  BY AuthorizedChose DEF CreateAdmin
<1>2. k \in TaskState /\ TaskHolds(k)
  BY <1>1 DEF TaskState, TaskHolds, Idle
<1>3. Wait(t, k) /\ UNCHANGED <<admin, ses, fails, changes, chosen, acted, booted>>
  BY DEF CreateAdmin
<1> QED BY <1>2, <1>3, WaitStep

\* bootstrapFirstAdmin, up to its hash
LEMMA BootstrapKeeps ==
  ASSUME IInv, NEW t \in Tasks, NEW e \in Emails, NEW p \in Passwords, Bootstrap(t, e, p)
  PROVE  IInv'
<1> DEFINE k == [Idle EXCEPT !.at = "boot", !.email = {e}, !.new = {p}]
<1>1. k \in TaskState /\ TaskHolds(k)
  BY DEF TaskState, TaskHolds, Idle
<1>2. Wait(t, k) /\ UNCHANGED <<admin, ses, fails, changes, chosen, acted, booted>>
  BY DEF Bootstrap
<1> QED BY <1>1, <1>2, WaitStep

\* A log-in fails.
LEMMA LoginFailsKeeps ==
  ASSUME IInv, NEW t \in Tasks, LoginFails(t)
  PROVE  IInv'
<1>1. PICK x \in task[t].email \X task[t].ip \X {task[t].tested} :
        fails[x] < MaxFails /\ fails' = [fails EXCEPT ![x] = @ + 1]
  BY DEF LoginFails
<1>2. fails' \in [Attempts -> 0 .. MaxFails]
  <2>1. task[t] \in TaskState
    BY DEF IInv, Typed
  <2>2. x \in Attempts
    BY <1>1, <2>1 DEF TaskState, Attempts
  <2>3. fails \in [Attempts -> 0 .. MaxFails] /\ fails[x] + 1 \in 0 .. MaxFails
    BY <1>1, <2>2, BoundAssumption DEF IInv, Typed
  <2> QED BY <1>1, <2>2, <2>3
<1>3. task' \in [Tasks -> TaskState] /\ TasksHold'
  BY ResumeStep DEF IInv, LoginFails
<1>4. AdminsInv' /\ SessionsInv'
  BY AdminsSame, SessionsSame DEF IInv, Rows, LoginFails
<1> QED BY <1>2, <1>3, <1>4 DEF IInv, Typed, ChosenFirst, LoginFails

\* An attempt leaves the window.
LEMMA AttemptAgesKeeps ==
  ASSUME IInv, NEW x \in Attempts, AttemptAges(x)
  PROVE  IInv'
<1>1. fails' \in [Attempts -> 0 .. MaxFails]
  BY BoundAssumption DEF IInv, Typed, AttemptAges
<1>2. TasksHold'
  BY DEF IInv, TasksHold, TaskHolds, AttemptAges
<1>3. AdminsInv' /\ SessionsInv'
  BY AdminsSame, SessionsSame DEF IInv, Rows, AttemptAges
<1> QED BY <1>1, <1>2, <1>3 DEF IInv, Typed, ChosenFirst, AttemptAges

\* The process dies.
LEMMA CrashKeeps ==
  ASSUME IInv, Crash
  PROVE  IInv'
<1>1. task' \in [Tasks -> TaskState] /\ TasksHold'
  BY NullRows DEF Crash, TasksHold, TaskHolds
<1>2. AdminsInv' /\ SessionsInv'
  BY AdminsSame, SessionsSame DEF IInv, Rows, Crash
<1> QED BY <1>1, <1>2 DEF IInv, Typed, ChosenFirst, Crash

\* A session ends, or is spared: nothing else about it changes.
LEMMA SessionStep ==
  ASSUME IInv, NEW s \in Sessions, NEW st \in {"expired", "revoked"},
         ses' = [ses EXCEPT ![s].st = st],
         UNCHANGED <<admin, fails, task, changes, chosen, acted, booted>>
  PROVE  IInv'
<1>1. ses[s] \in SessionRow /\ ses'[s] = [ses[s] EXCEPT !.st = st]
      /\ \A r \in Sessions \ {s} : ses'[r] = ses[r]
  BY DEF IInv, Typed
<1>2. ses'[s].st = st /\ ses'[s].of = ses[s].of /\ ses'[s] \in SessionRow
  BY <1>1 DEF SessionRow
<1>3. ses' \in [Sessions -> SessionRow]
  BY <1>1, <1>2 DEF IInv, Typed
<1>4. SessionsInv'
  <2>1. OneOwner' /\ SessionsHaveOwners'
    BY <1>1, <1>2 DEF IInv, SessionsInv, OneOwner, SessionsHaveOwners, Rows
  <2>2. ChangeEvicts'
    BY <1>1, <1>2 DEF IInv, SessionsInv, ChangeEvicts
  <2> QED BY <2>1, <2>2 DEF SessionsInv
<1>5. AdminsInv' /\ TasksHold'
  BY AdminsSame DEF IInv, TasksHold, TaskHolds
<1> QED BY <1>3, <1>4, <1>5 DEF IInv, Typed, ChosenFirst

\* A new session has an owner who is there and the newest password.
LEMMA LoginSucceedsKeeps ==
  ASSUME IInv, NEW t \in Tasks, NEW s \in Sessions, LoginSucceeds(t, s)
  PROVE  IInv'
<1>1. PICK a \in task[t].who :
        ses' = IF Referenced(a)
               THEN [ses EXCEPT ![s] = [st |-> "live", of |-> {a}, born |-> changes[a],
                                        spared |-> FALSE]]
               ELSE ses
  BY DEF LoginSucceeds
<1>2. a \in Admins
  BY DEF IInv, Typed, TaskState
<1>3. fails' \in [Attempts -> 0 .. MaxFails]
  <2>1. \E e \in Emails : ClearFailures(e)
    BY DEF IInv, TasksHold, TaskHolds, LoginSucceeds, Resume
  <2> QED BY <2>1, BoundAssumption DEF IInv, Typed, ClearFailures
<1>4. task' \in [Tasks -> TaskState] /\ TasksHold'
  BY ResumeStep DEF IInv, LoginSucceeds
<1>5. AdminsInv' /\ Rows' = Rows
  BY AdminsSame DEF IInv, Rows, LoginSucceeds
<1>6. CASE ~Referenced(a)
  <2>1. SessionsInv'
    BY <1>1, <1>5, <1>6, SessionsSame DEF IInv, LoginSucceeds
  <2> QED BY <1>1, <1>3, <1>4, <1>5, <1>6, <2>1 DEF IInv, Typed, ChosenFirst, LoginSucceeds
<1>7. CASE Referenced(a)
  <2> DEFINE r == [st |-> "live", of |-> {a}, born |-> changes[a], spared |-> FALSE]
  <2>1. r \in SessionRow /\ r.of = {a} /\ r.born = changes[a]
    BY <1>2 DEF IInv, Typed, SessionRow
  <2> HIDE DEF r
  <2>2. ses' = [ses EXCEPT ![s] = r]
    BY <1>1, <1>7 DEF r
  <2>3. ses' \in [Sessions -> SessionRow] /\ ses'[s] = r
        /\ \A x \in Sessions \ {s} : ses'[x] = ses[x]
    BY <2>1, <2>2 DEF IInv, Typed
  <2>4. OneOwner' /\ SessionsHaveOwners'
    BY <1>2, <1>5, <1>7, <2>1, <2>3
    DEF IInv, SessionsInv, OneOwner, SessionsHaveOwners, Referenced
  <2>5. ChangeEvicts'
    <3> SUFFICES ASSUME NEW x \in Sessions, NEW b \in Admins,
                        ses'[x].st = "live", ses'[x].of = {b}
                 PROVE  ses'[x].born = changes'[b] \/ ses'[x].spared
      BY DEF ChangeEvicts
    <3>1. CASE x = s
      BY <2>1, <2>3, <3>1 DEF LoginSucceeds
    <3>2. CASE x # s
      BY <2>3, <3>2 DEF IInv, SessionsInv, ChangeEvicts, LoginSucceeds
    <3> QED BY <3>1, <3>2
  <2> QED BY <1>3, <1>4, <1>5, <2>3, <2>4, <2>5
          DEF IInv, Typed, SessionsInv, ChosenFirst, LoginSucceeds
<1> QED BY <1>6, <1>7

-----------------------------------------------------------------------------
(***************************************************************************)
(* The steps that write administrators                                     *)
(***************************************************************************)

\* A row is added whose address nobody has and whose password is not chosen.
LEMMA NewAdminStep ==
  ASSUME IInv, NEW b \in Admins, admin[b] = NoAdmin, NEW e \in Emails, NEW p \in Passwords,
         RowsOf(e) = {}, admin' = [admin EXCEPT ![b] = NewAdmin(e, p)],
         UNCHANGED <<ses, changes>>, chosen \subseteq chosen'
  PROVE  /\ admin' \in [Admins -> AdminRow] /\ Rows' = Rows \cup {b}
         /\ FilledRows' /\ EnabledRemains' /\ EmailsDistinct' /\ ForcedUntilChosen'
         /\ SessionsInv'
<1>1. NewAdmin(e, p) \in AdminRow
  BY DEF NewAdmin, AdminRow
<1>2. NewAdmin(e, p).st = "row" /\ NewAdmin(e, p).email = {e} /\ NewAdmin(e, p).pw = {p}
      /\ ~NewAdmin(e, p).disabled /\ NewAdmin(e, p).force
  BY DEF NewAdmin
<1>3. admin' \in [Admins -> AdminRow] /\ admin'[b] = NewAdmin(e, p)
      /\ \A x \in Admins \ {b} : admin'[x] = admin[x]
  BY <1>1 DEF IInv, Typed
<1>4. Rows' = Rows \cup {b} /\ b \notin Rows
  BY <1>2, <1>3 DEF Rows, NoAdmin
<1>5. Enabled' = Enabled \cup {b}
  BY <1>2, <1>3, <1>4 DEF Enabled, Rows
<1>6. FilledRows'
  BY <1>2, <1>3, <1>4 DEF IInv, AdminsInv, FilledRows, Rows
<1>7. EmailsDistinct'
  BY <1>2, <1>3, <1>4 DEF IInv, AdminsInv, EmailsDistinct, RowsOf, Rows
<1>8. ForcedUntilChosen'
  BY <1>2, <1>3, <1>4 DEF IInv, AdminsInv, ForcedUntilChosen, Rows
<1>9. SessionsInv'
  BY <1>4, SessionsSame DEF IInv
<1> QED BY <1>3, <1>4, <1>5, <1>6, <1>7, <1>8, <1>9 DEF EnabledRemains

\* The new administrator is inserted, or the INSERT fails: none has their address.
LEMMA AdminCreatedKeeps ==
  ASSUME IInv, NEW t \in Tasks, NEW b \in Admins, AdminCreated(t, b)
  PROVE  IInv'
<1>1. PICK e \in task[t].email, p \in task[t].new :
        IF UniqueEmail(e)
        THEN admin' = [admin EXCEPT ![b] = NewAdmin(e, p)] /\ acted' = acted \cup task[t].who
        ELSE UNCHANGED <<admin, acted>>
  BY DEF AdminCreated
<1>2. e \in Emails /\ p \in Passwords /\ task[t].who \subseteq Admins
  BY DEF IInv, Typed, TaskState
<1>3. task' \in [Tasks -> TaskState] /\ TasksHold'
  BY ResumeStep DEF IInv, AdminCreated
<1>4. task[t].who \subseteq chosen
  BY DEF IInv, TasksHold, TaskHolds, AdminCreated, Resume
<1>5. CASE UniqueEmail(e)
  <2>1. /\ admin' \in [Admins -> AdminRow] /\ Rows' = Rows \cup {b}
        /\ FilledRows' /\ EnabledRemains' /\ EmailsDistinct' /\ ForcedUntilChosen'
        /\ SessionsInv'
    BY <1>1, <1>2, <1>5, NewAdminStep DEF UniqueEmail, AdminCreated
  <2>2. BootedStays'
    BY <2>1 DEF IInv, AdminsInv, BootedStays, AdminCreated
  <2> QED BY <1>1, <1>2, <1>3, <1>4, <1>5, <2>1, <2>2
          DEF IInv, Typed, AdminsInv, ChosenFirst, AdminCreated
<1>6. CASE ~UniqueEmail(e)
  <2>1. AdminsInv' /\ SessionsInv'
    BY <1>1, <1>6, AdminsSame, SessionsSame DEF IInv, Rows, AdminCreated
  <2> QED BY <1>1, <1>3, <1>6, <2>1 DEF IInv, Typed, ChosenFirst, AdminCreated
<1> QED BY <1>5, <1>6

\* Bootstrap creates a row only where there is none, so where it never did.
LEMMA BootstrapEndsKeeps ==
  ASSUME IInv, NEW t \in Tasks, NEW b \in Admins, BootstrapEnds(t, b)
  PROVE  IInv'
<1>1. task' \in [Tasks -> TaskState] /\ TasksHold'
  BY ResumeStep DEF IInv, BootstrapEnds
<1>2. CASE StillNone
  <2>1. PICK e \in task[t].email, p \in task[t].new :
          admin' = [admin EXCEPT ![b] = NewAdmin(e, p)] /\ booted' = booted \cup {b}
    BY <1>2 DEF BootstrapEnds
  <2>2. e \in Emails /\ p \in Passwords /\ RowsOf(e) = {}
    BY <1>2 DEF IInv, Typed, TaskState, StillNone, RowsOf
  <2>3. /\ admin' \in [Admins -> AdminRow] /\ Rows' = Rows \cup {b}
        /\ FilledRows' /\ EnabledRemains' /\ EmailsDistinct' /\ ForcedUntilChosen'
        /\ SessionsInv'
    BY <2>1, <2>2, NewAdminStep DEF BootstrapEnds
  <2>4. booted' = {b}
    BY <1>2, <2>1 DEF IInv, AdminsInv, BootedStays, StillNone
  <2>5. BootedStays'
    BY <2>3, <2>4 DEF BootedStays
  <2> QED BY <1>1, <2>1, <2>3, <2>4, <2>5
          DEF IInv, Typed, AdminsInv, ChosenFirst, BootstrapEnds
<1>3. CASE ~StillNone
  <2>1. AdminsInv' /\ SessionsInv'
    BY <1>3, AdminsSame, SessionsSame DEF IInv, Rows, BootstrapEnds
  <2> QED BY <1>1, <1>3, <2>1 DEF IInv, Typed, ChosenFirst, BootstrapEnds
<1> QED BY <1>2, <1>3

\* PATCH /admins/:id: the caller is enabled and stays so.
LEMMA SetDisabledKeeps ==
  ASSUME IInv, NEW s \in Sessions, NEW a \in Admins, NEW b \in Admins, NEW off \in BOOLEAN,
         SetDisabled(s, a, b, off)
  PROVE  IInv'
<1>1. a \in chosen /\ a \in Enabled
  BY AuthorizedChose DEF SetDisabled
<1>2. admin[b] \in AdminRow
      /\ admin' = [admin EXCEPT ![b] = [admin[b] EXCEPT !.disabled = off]]
  BY DEF IInv, Typed, SetDisabled
<1> DEFINE r == [admin[b] EXCEPT !.disabled = off]
<1>3. r \in AdminRow /\ r.disabled = off /\ r.st = admin[b].st /\ r.email = admin[b].email
      /\ r.pw = admin[b].pw /\ r.force = admin[b].force
  BY <1>2 DEF AdminRow
<1> HIDE DEF r
<1>4. admin' \in [Admins -> AdminRow] /\ admin'[b] = r
      /\ \A x \in Admins \ {b} : admin'[x] = admin[x]
  BY <1>2, <1>3 DEF IInv, Typed, r
<1>5. Rows' = Rows
  BY <1>3, <1>4 DEF Rows
<1>6. FilledRows' /\ EmailsDistinct' /\ BootedStays'
  BY <1>3, <1>4, <1>5
  DEF IInv, AdminsInv, FilledRows, EmailsDistinct, BootedStays, Rows, SetDisabled
<1>7. ForcedUntilChosen'
  BY <1>3, <1>4, <1>5 DEF IInv, AdminsInv, ForcedUntilChosen, Rows, SetDisabled
<1>8. Enabled' # {}
  <2>1. CASE off
    BY <1>1, <1>4, <1>5, <2>1 DEF SetDisabled, MayRemove, Enabled, Rows
  <2>2. CASE ~off
    BY <1>3, <1>4, <1>5, <2>2 DEF SetDisabled, Enabled, Rows
  <2> QED BY <2>1, <2>2
<1>9. SessionsInv' /\ TasksHold'
  BY <1>5, SessionsSame DEF IInv, SetDisabled, TasksHold, TaskHolds
<1> QED BY <1>1, <1>4, <1>6, <1>7, <1>8, <1>9
        DEF IInv, Typed, AdminsInv, EnabledRemains, ChosenFirst, SetDisabled

\* DELETE /admins/:id: the caller stays, the sessions of the deleted do not.
LEMMA DeleteAdminKeeps ==
  ASSUME IInv, NEW s \in Sessions, NEW a \in Admins, NEW b \in Admins, DeleteAdmin(s, a, b)
  PROVE  IInv'
<1>1. a \in chosen /\ a \in Enabled /\ a # b
  BY AuthorizedChose DEF DeleteAdmin, MayRemove
<1> DEFINE r == [NoAdmin EXCEPT !.st = "deleted"]
<1>2. r \in AdminRow /\ r.st = "deleted"
  BY DEF NoAdmin, AdminRow
<1>3. admin' = [admin EXCEPT ![b] = r]
  BY DEF DeleteAdmin
<1> HIDE DEF r
<1>4. admin' \in [Admins -> AdminRow] /\ admin'[b].st = "deleted"
      /\ \A x \in Admins \ {b} : admin'[x] = admin[x]
  BY <1>2, <1>3 DEF IInv, Typed
<1>5. Rows' = Rows \ {b}
  BY <1>4 DEF Rows
<1>6. FilledRows' /\ EmailsDistinct'
  BY <1>4, <1>5 DEF IInv, AdminsInv, FilledRows, EmailsDistinct, Rows
<1>7. ForcedUntilChosen'
  BY <1>4, <1>5 DEF IInv, AdminsInv, ForcedUntilChosen, Rows, DeleteAdmin
<1>8. a \in Rows' /\ a \in Enabled'
  BY <1>1, <1>4, <1>5 DEF Enabled
<1>9. BootedStays' /\ EnabledRemains'
  BY <1>8 DEF IInv, AdminsInv, BootedStays, EnabledRemains, DeleteAdmin
<1>10. \A x \in Sessions : ses'[x] = IF ses[x].of = {b} THEN NoSession ELSE ses[x]
  BY DEF DeleteAdmin
<1>11. ses' \in [Sessions -> SessionRow]
  BY NullRows DEF IInv, Typed, DeleteAdmin
<1>12. NoSession.of = {} /\ NoSession.st = "none"
  BY DEF NoSession
<1>13. OneOwner'
  BY <1>10, <1>12 DEF IInv, SessionsInv, OneOwner
<1>14. SessionsHaveOwners'
  BY <1>5, <1>10, <1>12 DEF IInv, SessionsInv, OneOwner, SessionsHaveOwners
<1>15. ChangeEvicts'
  BY <1>10, <1>12 DEF IInv, SessionsInv, ChangeEvicts, DeleteAdmin
<1>16. TasksHold'
  BY DEF IInv, TasksHold, TaskHolds, DeleteAdmin
<1> QED BY <1>1, <1>4, <1>6, <1>7, <1>9, <1>11, <1>13, <1>14, <1>15, <1>16
        DEF IInv, Typed, AdminsInv, SessionsInv, ChosenFirst, DeleteAdmin

\* What revokeAllForAdmin makes of a session
LEMMA RevokedRow ==
  ASSUME IInv, NEW a \in Admins, NEW s \in Sessions, NEW x \in Sessions
  PROVE  LET r == RevokeOthers(a, s)[x] IN
         /\ r \in SessionRow /\ r.of = ses[x].of /\ r.born = ses[x].born
         /\ r.st = "live" => ses[x].st = "live"
         /\ ses[x].spared => r.spared
         /\ ses[x].of = {a} /\ r.st = "live" => r.spared
<1>1. ses[x] \in SessionRow
  BY DEF IInv, Typed
<1>2. CASE ses[x].of # {a}
  BY <1>1, <1>2 DEF RevokeOthers
<1>3. CASE ses[x].of = {a} /\ x = s
  <2>1. RevokeOthers(a, s)[x] = [ses[x] EXCEPT !.spared = TRUE]
    BY <1>3 DEF RevokeOthers
  <2> QED BY <1>1, <1>3, <2>1 DEF SessionRow
<1>4. CASE ses[x].of = {a} /\ x # s /\ ses[x].st \in {"live", "expired"}
  <2>1. RevokeOthers(a, s)[x] = [ses[x] EXCEPT !.st = "revoked"]
    BY <1>4 DEF RevokeOthers
  <2> QED BY <1>1, <1>4, <2>1 DEF SessionRow
<1>5. CASE ses[x].of = {a} /\ x # s /\ ses[x].st \notin {"live", "expired"}
  <2>1. RevokeOthers(a, s)[x] = ses[x]
    BY <1>5 DEF RevokeOthers
  <2> QED BY <1>1, <1>5, <2>1
<1> QED BY <1>2, <1>3, <1>4, <1>5

\* The transaction of changePassword
LEMMA PasswordChangedKeeps ==
  ASSUME IInv, NEW t \in Tasks, PasswordChanged(t)
  PROVE  IInv'
<1>1. PICK a \in task[t].who, s \in task[t].s :
       /\ changes[a] < MaxChanges
       /\ ses' = RevokeOthers(a, s)
       /\ IF a \in Rows
          THEN /\ admin' = [admin EXCEPT ![a].pw = task[t].new, ![a].force = FALSE]
               /\ changes' = [changes EXCEPT ![a] = @ + 1]
               /\ chosen' = chosen \cup {a}
          ELSE UNCHANGED <<admin, changes, chosen>>
  BY DEF PasswordChanged
<1>2. a \in Admins /\ s \in Sessions
  BY DEF IInv, Typed, TaskState
<1>3. PICK p \in Passwords : task[t].new = {p}
  BY DEF IInv, TasksHold, TaskHolds, PasswordChanged, Resume
<1>4. chosen \subseteq chosen' /\ chosen' \subseteq Admins
  BY <1>1, <1>2 DEF IInv, Typed
<1>5. task' \in [Tasks -> TaskState] /\ TasksHold'
  BY <1>4, ResumeStep DEF IInv, PasswordChanged
<1>6. \A x \in Sessions :
         /\ ses'[x] \in SessionRow /\ ses'[x].of = ses[x].of /\ ses'[x].born = ses[x].born
         /\ ses'[x].st = "live" => ses[x].st = "live"
         /\ ses[x].spared => ses'[x].spared
         /\ ses[x].of = {a} /\ ses'[x].st = "live" => ses'[x].spared
  BY <1>1, <1>2, RevokedRow
<1>7. ses' \in [Sessions -> SessionRow]
  <2>1. ses' = [x \in Sessions |-> ses'[x]]
    BY <1>1 DEF RevokeOthers
  <2> QED BY <1>6, <2>1
<1>8. changes' \in [Admins -> 0 .. MaxChanges] /\ \A b \in Admins \ {a} : changes'[b] = changes[b]
  BY <1>1, <1>2, BoundAssumption DEF IInv, Typed
<1>9. ChangeEvicts'
  BY <1>6, <1>8 DEF IInv, SessionsInv, ChangeEvicts
<1>10. OneOwner'
  BY <1>6 DEF IInv, SessionsInv, OneOwner
<1>11. admin' \in [Admins -> AdminRow] /\ Rows' = Rows /\ AdminsInv'
  <2>1. CASE a \notin Rows
    BY <1>1, <2>1, AdminsSame DEF IInv, Typed, Rows, PasswordChanged
  <2>2. CASE a \in Rows
    <3> DEFINE r == [[admin[a] EXCEPT !.pw = {p}] EXCEPT !.force = FALSE]
    <3>1. admin[a] \in AdminRow /\ admin' = [admin EXCEPT ![a] = r]
      BY <1>1, <1>2, <1>3, <2>2 DEF IInv, Typed
    <3>2. r \in AdminRow /\ r.pw = {p} /\ r.force = FALSE /\ r.st = admin[a].st
          /\ r.email = admin[a].email /\ r.disabled = admin[a].disabled
      BY <3>1 DEF AdminRow
    <3> HIDE DEF r
    <3>3. admin' \in [Admins -> AdminRow] /\ admin'[a] = r
          /\ \A x \in Admins \ {a} : admin'[x] = admin[x]
      BY <1>2, <3>1, <3>2 DEF IInv, Typed
    <3>4. Rows' = Rows
      BY <3>2, <3>3 DEF Rows
    <3>5. Enabled' = Enabled
      BY <3>2, <3>3, <3>4 DEF Enabled, Rows
    <3>6. FilledRows' /\ EmailsDistinct'
      BY <3>2, <3>3, <3>4 DEF IInv, AdminsInv, FilledRows, EmailsDistinct, Rows
    <3>7. ForcedUntilChosen'
      BY <1>1, <2>2, <3>2, <3>3, <3>4 DEF IInv, AdminsInv, ForcedUntilChosen, Rows
    <3> QED BY <3>3, <3>4, <3>5, <3>6, <3>7
            DEF IInv, AdminsInv, EnabledRemains, BootedStays, PasswordChanged
  <2> QED BY <2>1, <2>2
<1>12. SessionsHaveOwners'
  BY <1>6, <1>11 DEF IInv, SessionsInv, SessionsHaveOwners
<1> QED BY <1>4, <1>5, <1>7, <1>8, <1>9, <1>10, <1>11, <1>12
        DEF IInv, Typed, SessionsInv, ChosenFirst, PasswordChanged

-----------------------------------------------------------------------------
(***************************************************************************)
(* The theorems                                                            *)
(***************************************************************************)

\* The invariant holds at first.
LEMMA InitIInv == Init => IInv
<1> SUFFICES ASSUME Init PROVE IInv
  OBVIOUS
<1>1. Rows = {}
  BY DEF Init, Rows, NoAdmin
<1>2. Typed
  BY NullRows, BoundAssumption DEF Init, Typed
<1>3. AdminsInv
  BY <1>1 DEF Init, AdminsInv, FilledRows, EnabledRemains, EmailsDistinct, ForcedUntilChosen,
              BootedStays
<1>4. \A s \in Sessions : ses[s].of = {} /\ ses[s].st = "none"
  BY DEF Init, NoSession
<1>5. SessionsInv
  BY <1>4 DEF SessionsInv, OneOwner, ChangeEvicts, SessionsHaveOwners
<1>6. TasksHold
  BY NullRows DEF Init, TasksHold
<1> QED BY <1>2, <1>3, <1>5, <1>6 DEF IInv, ChosenFirst, Init

\* Every step keeps the invariant.
LEMMA NextIInv == IInv /\ [Next]_vars => IInv'
<1> SUFFICES ASSUME IInv, [Next]_vars PROVE IInv'
  OBVIOUS
<1>1. ASSUME NEW t \in Tasks, NEW e \in Emails, NEW p \in Passwords, Bootstrap(t, e, p)
      PROVE  IInv'
  BY <1>1, BootstrapKeeps
<1>2. ASSUME NEW t \in Tasks, NEW e \in Emails, NEW p \in Passwords, NEW i \in Ips,
             Login(t, e, i, p)
      PROVE  IInv'
  BY <1>2, LoginKeeps
<1>3. ASSUME NEW t \in Tasks, LoginFails(t) \/ PasswordChanged(t)
      PROVE  IInv'
  BY <1>3, LoginFailsKeeps, PasswordChangedKeeps
<1>4. ASSUME NEW t \in Tasks, NEW s \in Sessions, LoginSucceeds(t, s)
      PROVE  IInv'
  BY <1>4, LoginSucceedsKeeps
<1>5. ASSUME NEW t \in Tasks, NEW b \in Admins, AdminCreated(t, b) \/ BootstrapEnds(t, b)
      PROVE  IInv'
  BY <1>5, AdminCreatedKeeps, BootstrapEndsKeeps
<1>6. ASSUME NEW s \in Sessions, NEW a \in Admins, Logout(s, a)
      PROVE  IInv'
  BY <1>6, SessionStep DEF Logout
<1>7. ASSUME NEW s \in Sessions, NEW a \in Admins, NEW t \in Tasks, NEW p \in Passwords,
             ChangePassword(t, s, a, p)
      PROVE  IInv'
  BY <1>7, ChangePasswordKeeps
<1>8. ASSUME NEW s \in Sessions, NEW a \in Admins, NEW t \in Tasks, NEW p \in Passwords,
             NEW e \in Emails, CreateAdmin(t, s, a, e, p)
      PROVE  IInv'
  BY <1>8, CreateAdminKeeps
<1>9. ASSUME NEW s \in Sessions, NEW a \in Admins, NEW b \in Admins, DeleteAdmin(s, a, b)
      PROVE  IInv'
  BY <1>9, DeleteAdminKeeps
<1>10. ASSUME NEW s \in Sessions, NEW a \in Admins, NEW b \in Admins, NEW off \in BOOLEAN,
              SetDisabled(s, a, b, off)
       PROVE  IInv'
  BY <1>10, SetDisabledKeeps
<1>11. ASSUME NEW s \in Sessions, Expire(s)
       PROVE  IInv'
  BY <1>11, SessionStep DEF Expire
<1>12. ASSUME NEW x \in Attempts, AttemptAges(x)
       PROVE  IInv'
  BY <1>12, AttemptAgesKeeps
<1>13. CASE Crash
  BY <1>13, CrashKeeps
<1>14. CASE UNCHANGED vars
  <2>1. AdminsInv' /\ SessionsInv' /\ TasksHold'
    BY <1>14, AdminsSame, SessionsSame DEF IInv, vars, Rows, TasksHold, TaskHolds
  <2> QED BY <1>14, <2>1 DEF IInv, Typed, ChosenFirst, vars
<1> QED BY <1>1, <1>2, <1>3, <1>4, <1>5, <1>6, <1>7, <1>8, <1>9, <1>10, <1>11, <1>12, <1>13,
           <1>14 DEF Next

\* What the invariant says of administrators and of sessions
LEMMA IInvHolds == IInv => AccountsHold /\ SessionsHold
<1> SUFFICES ASSUME IInv PROVE AccountsHold /\ SessionsHold
  OBVIOUS
<1>1. \A a \in Rows : Cardinality(admin[a].email) = 1 /\ Cardinality(admin[a].pw) = 1
  BY FS_Singleton DEF IInv, AdminsInv, FilledRows
<1>2. Cardinality(booted) = 0 \/ Cardinality(booted) = 1
  BY FS_Singleton, FS_EmptySet DEF IInv, AdminsInv, BootedStays
<1>3. OneBootstrap
  BY <1>2 DEF OneBootstrap
<1> QED BY <1>1, <1>3 DEF IInv, Typed, AdminsInv, SessionsInv, AccountsHold, SessionsHold, TypeOK

\* Every behaviour of the administrators' routes and of log-ins satisfies the
\* invariant.
THEOREM AuthInvariant == Spec => []IInv
BY InitIInv, NextIInv, PTL DEF Spec

\* Whatever administrators do to each other while handlers wait for a hash,
\* one who can log in remains, no two have one address, and overlapping
\* bootstrap calls create one administrator (admins.routes.ts, bootstrap.ts).
THEOREM AccountsAlwaysHold == Spec => []AccountsHold
BY AuthInvariant, IInvHolds, PTL

\* No session survives its administrator or, but for the one that made it, a
\* change of the password, and nobody administers others under a password
\* that was given to them (changePassword, requireSession).
THEOREM SessionsAlwaysHold == Spec => []SessionsHold
BY AuthInvariant, IInvHolds, PTL

-----------------------------------------------------------------------------
(***************************************************************************)
(* Auth: guesses, and requests of other pages                              *)
(***************************************************************************)

\* The sum of h over J, as MapThenSumSet takes it: one element after the other
Total(h, J) == MapThenSumSet(LAMBDA x : h[x], J)
First(s) == CHOOSE x \in s : TRUE
Running(g, h, D) == g = [s \in D |-> IF s = {} THEN 0 ELSE h[First(s)] + g[s \ {First(s)}]]

\* The failed attempts, before a step and after it, are such a sum.
LEMMA FailuresAre == ASSUME NEW J PROVE Failures(J) = Total(fails, J) /\ Failures(J)' = Total(fails', J)
<1> DEFINE G == CHOOSE g : g = [s \in SUBSET J |->
             IF s = {} THEN 0 ELSE fails'[CHOOSE x \in s : TRUE] + g[s \ {CHOOSE x \in s : TRUE}]]
<1>1. Total(fails', J) = G[J]
  BY Zenon DEF Total, MapThenSumSet, MapThenFoldSet
<1>2. Failures(J)' = G[J]
  BY Zenon DEF Failures, MapThenSumSet, MapThenFoldSet
<1>3. Failures(J) = Total(fails, J)
  BY DEF Failures, Total
<1> QED BY <1>1, <1>2, <1>3

\* A set that is not empty has a first element.
LEMMA FirstIsIn == ASSUME NEW s, s # {} PROVE First(s) \in s
BY DEF First

\* A finite set without one of its elements
LEMMA OneLess ==
  ASSUME NEW J, IsFiniteSet(J), NEW x \in J
  PROVE  IsFiniteSet(J \ {x}) /\ Cardinality(J) \in Nat /\ Cardinality(J) # 0 /\ Cardinality(J \ {x}) = Cardinality(J) - 1
BY FS_RemoveElement, FS_CardinalityType, FS_EmptySet

\* The sets of the subsets of J with at most n elements
Small(J, n) == {s \in SUBSET J : Cardinality(s) <= n}

\* There is a running sum: by induction on the number of elements.
LEMMA RunningExists ==
  ASSUME NEW h, NEW J, IsFiniteSet(J)
  PROVE  \E g : Running(g, h, SUBSET J)
<1> DEFINE P(n) == \E g : Running(g, h, Small(J, n))
           T == {n \in Nat : ~P(n)}
<1>0. \A s \in SUBSET J : IsFiniteSet(s) /\ Cardinality(s) \in Nat
  BY FS_Subset, FS_CardinalityType
<1>1. P(0)
  <2>1. \A s \in Small(J, 0) : s = {}
    BY <1>0, FS_EmptySet DEF Small
  <2>2. Running([s \in Small(J, 0) |-> 0], h, Small(J, 0))
    BY <2>1 DEF Running
  <2> QED BY <2>2
<1>2. ASSUME NEW n \in Nat, P(n) PROVE P(n + 1)
  <2>1. PICK g : Running(g, h, Small(J, n))
    BY <1>2
  <2> DEFINE k == [s \in Small(J, n + 1) |-> IF s = {} THEN 0 ELSE h[First(s)] + g[s \ {First(s)}]]
  <2>2. ASSUME NEW s \in Small(J, n + 1), s # {} PROVE s \ {First(s)} \in Small(J, n) /\ s \ {First(s)} \in Small(J, n + 1)
    <3>1. s \in SUBSET J /\ Cardinality(s) <= n + 1 /\ Cardinality(s) \in Nat /\ First(s) \in s /\ IsFiniteSet(s)
      BY <1>0, <2>2, FirstIsIn DEF Small
    <3>2. Cardinality(s \ {First(s)}) = Cardinality(s) - 1
      BY <3>1, OneLess
    <3>3. s \ {First(s)} \in SUBSET J /\ Cardinality(s \ {First(s)}) <= n /\ Cardinality(s \ {First(s)}) <= n + 1
      BY <3>1, <3>2
    <3> QED BY <3>3 DEF Small
  <2>3. ASSUME NEW s \in Small(J, n), s \in Small(J, n + 1) PROVE k[s] = g[s]
    <3>1. g[s] = IF s = {} THEN 0 ELSE h[First(s)] + g[s \ {First(s)}]
      BY <2>1 DEF Running
    <3> QED BY <2>3, <3>1
  <2>4. \A s \in Small(J, n + 1) : k[s] = IF s = {} THEN 0 ELSE h[First(s)] + k[s \ {First(s)}]
    <3> TAKE s \in Small(J, n + 1)
    <3>1. s # {} => k[s \ {First(s)}] = g[s \ {First(s)}]
      <4> HIDE DEF k
      <4> QED BY <2>2, <2>3
    <3>2. k[s] = IF s = {} THEN 0 ELSE h[First(s)] + g[s \ {First(s)}]
      OBVIOUS
    <3> QED BY <3>1, <3>2
  <2>5. k = [s \in Small(J, n + 1) |-> k[s]]
    OBVIOUS
  <2> HIDE DEF k
  <2>6. Running(k, h, Small(J, n + 1))
    BY <2>4, <2>5, Zenon DEF Running
  <2> QED BY <2>6
<1>3. T = {}
  <2> SUFFICES ASSUME T # {} PROVE FALSE
    OBVIOUS
  <2> HIDE DEF P
  <2>1. PICK m \in T : \A k \in T : m <= k
    BY Least
  <2>2. m # 0
    BY <1>1
  <2>3. m - 1 \in Nat /\ P(m - 1)
    BY <2>1, <2>2
  <2> QED BY <2>3, <1>2
<1>4. Cardinality(J) \in Nat /\ P(Cardinality(J))
  BY <1>0, <1>3
<1>5. Small(J, Cardinality(J)) = SUBSET J
  <2>1. \A s \in SUBSET J : Cardinality(s) <= Cardinality(J)
    BY FS_Subset
  <2> QED BY <2>1 DEF Small
<1> QED BY <1>4, <1>5

\* The sum is the last of a running sum.
LEMMA TotalRuns ==
  ASSUME NEW h, NEW J, IsFiniteSet(J)
  PROVE  \E g : Running(g, h, SUBSET J) /\ Total(h, J) = g[J]
<1> DEFINE P(g) == g = [s \in SUBSET J |->
             IF s = {} THEN 0 ELSE h[CHOOSE x \in s : TRUE] + g[s \ {CHOOSE x \in s : TRUE}]]
           G == CHOOSE g : P(g)
<1>1. Total(h, J) = G[J]
  BY Zenon DEF Total, MapThenSumSet, MapThenFoldSet
<1>2. \E g : P(g)
  <2>1. PICK g : Running(g, h, SUBSET J)
    BY RunningExists
  <2>2. P(g)
    BY <2>1, Zenon DEF Running, First
  <2> QED BY <2>2
<1>3. P(G)
  <2> HIDE DEF P
  <2> QED BY <1>2, Zenon
<1> QED BY <1>1, <1>3 DEF Running, First

\* Two running sums agree where both are defined.
Alike(h, J, R, g, f) ==
  IsFiniteSet(J) /\ R \in SUBSET J /\ Running(g, h, SUBSET J) /\ Running(f, h, SUBSET R)

\* Two running sums agree where both are defined.
LEMMA RunningAgrees ==
  ASSUME NEW h, NEW J, NEW R, NEW g, NEW f, Alike(h, J, R, g, f)
  PROVE  \A s \in SUBSET R : f[s] = g[s]
<1> DEFINE T == {Cardinality(s) : s \in {r \in SUBSET R : f[r] # g[r]}}
<1> USE DEF Alike
<1>0. \A s \in SUBSET R : IsFiniteSet(s) /\ Cardinality(s) \in Nat
  BY FS_Subset, FS_CardinalityType
<1> SUFFICES ASSUME NEW r \in SUBSET R, f[r] # g[r] PROVE FALSE
  OBVIOUS
<1>1. T \subseteq Nat /\ T # {}
  BY <1>0
<1> HIDE DEF T
<1>2. PICK n \in T : \A m \in T : n <= m
  BY <1>1, Least
<1>3. PICK s \in SUBSET R : f[s] # g[s] /\ n = Cardinality(s)
  BY DEF T
<1>4. f[s] = IF s = {} THEN 0 ELSE h[First(s)] + f[s \ {First(s)}]
  BY DEF Running
<1>5. s \in SUBSET J /\ g[s] = IF s = {} THEN 0 ELSE h[First(s)] + g[s \ {First(s)}]
  BY DEF Running
<1>6. s # {} /\ f[s \ {First(s)}] # g[s \ {First(s)}]
  BY <1>3, <1>4, <1>5
<1>7. Cardinality(s \ {First(s)}) = n - 1 /\ n \in Nat /\ s \ {First(s)} \in SUBSET R
  BY <1>0, <1>3, <1>6, OneLess, FirstIsIn
<1>8. n - 1 \in T
  BY <1>6, <1>7 DEF T
<1> QED BY <1>2, <1>7, <1>8

\* The sum of nothing
LEMMA TotalOfNone == ASSUME NEW h PROVE Total(h, {}) = 0
<1>1. IsFiniteSet({})
  BY FS_EmptySet
<1>2. PICK g : Running(g, h, SUBSET {}) /\ Total(h, {}) = g[{}]
  BY <1>1, TotalRuns
<1> QED BY <1>2 DEF Running

\* The first element and the sum of the others
LEMMA TotalOfFirst ==
  ASSUME NEW h, NEW J, IsFiniteSet(J), J # {}
  PROVE  Total(h, J) = h[First(J)] + Total(h, J \ {First(J)})
<1> DEFINE R == J \ {First(J)}
<1>1. PICK g : Running(g, h, SUBSET J) /\ Total(h, J) = g[J]
  BY TotalRuns
<1>2. IsFiniteSet(R) /\ R \in SUBSET J
  BY OneLess, FirstIsIn
<1> HIDE DEF R
<1>3. PICK f : Running(f, h, SUBSET R) /\ Total(h, R) = f[R]
  BY <1>2, TotalRuns
<1>4. f[R] = g[R]
  <2>1. \A s \in SUBSET R : f[s] = g[s]
    <3>1. Alike(h, J, R, g, f)
      BY <1>1, <1>2, <1>3 DEF Alike
    <3> QED BY <3>1, RunningAgrees
  <2> QED BY <2>1
<1>5. g[J] = h[First(J)] + g[R]
  <2>1. J \in SUBSET J
    OBVIOUS
  <2> QED BY <1>1, <2>1 DEF Running, R
<1> QED BY <1>1, <1>3, <1>4, <1>5 DEF R

\* A sum of naturals is one, and any element can be taken out first.
Counts(h, J) == \A x \in J : h[x] \in Nat
Splits(h, J) == Total(h, J) \in Nat /\ \A x \in J : Total(h, J) = h[x] + Total(h, J \ {x})

\* Which element is taken out first makes no difference.
LEMMA TotalSplits ==
  ASSUME NEW h, NEW J, IsFiniteSet(J), Counts(h, J)
  PROVE  Splits(h, J)
<1> DEFINE T == {Cardinality(s) : s \in {r \in SUBSET J : ~Splits(h, r)}}
<1>0. \A s \in SUBSET J : IsFiniteSet(s) /\ Cardinality(s) \in Nat
  BY FS_Subset, FS_CardinalityType
<1>1. T = {}
  <2> SUFFICES ASSUME T # {} PROVE FALSE
    OBVIOUS
  <2>1. T \subseteq Nat
    BY <1>0
  <2> HIDE DEF T
  <2>2. PICK n \in T : \A m \in T : n <= m
    BY <2>1, Least
  <2>3. PICK s \in SUBSET J : ~Splits(h, s) /\ n = Cardinality(s)
    BY DEF T
  <2>4. s # {}
    BY <2>3, TotalOfNone DEF Splits
  <2> DEFINE c == First(s)
  <2>5. c \in s /\ IsFiniteSet(s) /\ h[c] \in Nat
    BY <1>0, <2>4, FirstIsIn DEF Counts
  <2>6. Total(h, s) = h[c] + Total(h, s \ {c})
    BY <2>4, <2>5, TotalOfFirst
  <2>7. ASSUME NEW x \in s PROVE Splits(h, s \ {x})
    <3>1. Cardinality(s \ {x}) = n - 1 /\ n \in Nat
      BY <2>3, <2>5, OneLess
    <3>2. n - 1 \notin T
      BY <2>2, <3>1
    <3> QED BY <3>1, <3>2 DEF T
  <2> HIDE DEF c
  <2>8. Total(h, s \ {c}) \in Nat /\ Total(h, s) \in Nat
    BY <2>5, <2>6, <2>7 DEF Splits
  <2>9. ASSUME NEW x \in s PROVE Total(h, s) = h[x] + Total(h, s \ {x})
    <3>1. CASE x = c
      BY <2>6, <3>1
    <3>2. CASE x # c
      <4> DEFINE r == (s \ {c}) \ {x}
      <4>1. Total(h, s \ {c}) = h[x] + Total(h, r)
        BY <2>5, <2>7, <3>2 DEF Splits
      <4>2. Total(h, s \ {x}) = h[c] + Total(h, r)
        <5>1. r = (s \ {x}) \ {c}
          OBVIOUS
        <5>2. Total(h, s \ {x}) = h[c] + Total(h, (s \ {x}) \ {c})
          BY <2>5, <2>7, <3>2 DEF Splits
        <5> HIDE DEF r
        <5> QED BY <5>1, <5>2
      <4>4. Total(h, r) \in Nat
        <5>1. Cardinality(s \ {c}) = n - 1 /\ n \in Nat /\ IsFiniteSet(s \ {c}) /\ x \in s \ {c}
          BY <2>3, <2>5, <3>2, OneLess
        <5>2. Cardinality(r) = n - 2
          BY <5>1, OneLess
        <5>3. n - 2 \notin T
          BY <2>2, <5>1
        <5>4. Splits(h, r)
          BY <5>2, <5>3 DEF T
        <5> QED BY <5>4 DEF Splits
      <4>5. h[x] \in Nat
        BY DEF Counts
      <4> HIDE DEF r
      <4> QED BY <2>5, <2>6, <4>1, <4>2, <4>4, <4>5
    <3> QED BY <3>1, <3>2
  <2> QED BY <2>3, <2>8, <2>9 DEF Splits
<1> QED BY <1>0, <1>1

\* More is more: of each, or of them.
LEMMA TotalOfLess ==
  ASSUME NEW h, NEW k, NEW J, IsFiniteSet(J), Counts(h, J), Counts(k, J), \A x \in J : h[x] <= k[x]
  PROVE  Total(h, J) <= Total(k, J)
<1> DEFINE T == {Cardinality(s) : s \in {r \in SUBSET J : ~(Total(h, r) <= Total(k, r))}}
<1>0. \A s \in SUBSET J : IsFiniteSet(s) /\ Cardinality(s) \in Nat
  BY FS_Subset, FS_CardinalityType
<1>1. T = {}
  <2> SUFFICES ASSUME T # {} PROVE FALSE
    OBVIOUS
  <2>1. T \subseteq Nat
    BY <1>0
  <2> HIDE DEF T
  <2>2. PICK n \in T : \A m \in T : n <= m
    BY <2>1, Least
  <2>3. PICK s \in SUBSET J : ~(Total(h, s) <= Total(k, s)) /\ n = Cardinality(s)
    BY DEF T
  <2>4. s # {}
    BY <2>3, TotalOfNone
  <2>5. PICK x \in s : TRUE
    BY <2>4
  <2>6. Splits(h, s) /\ Splits(k, s) /\ Splits(h, s \ {x}) /\ Splits(k, s \ {x})
    <3>1. Counts(h, s) /\ Counts(k, s) /\ Counts(h, s \ {x}) /\ Counts(k, s \ {x}) /\ IsFiniteSet(s) /\ IsFiniteSet(s \ {x})
      BY <1>0, OneLess DEF Counts
    <3> QED BY <3>1, TotalSplits
  <2>7. Cardinality(s \ {x}) = n - 1 /\ n \in Nat
    BY <1>0, <2>3, OneLess
  <2>8. n - 1 \notin T
    BY <2>2, <2>7
  <2>9. Total(h, s \ {x}) <= Total(k, s \ {x})
    BY <2>7, <2>8 DEF T
  <2>10. h[x] \in Nat /\ k[x] \in Nat /\ h[x] <= k[x]
    BY DEF Counts
  <2>11. /\ Total(h, s) = h[x] + Total(h, s \ {x}) /\ Total(k, s) = k[x] + Total(k, s \ {x})
         /\ Total(h, s \ {x}) \in Nat /\ Total(k, s \ {x}) \in Nat
    BY <2>6 DEF Splits
  <2> QED BY <2>3, <2>9, <2>10, <2>11
<1> QED BY <1>0, <1>1

\* A sum over fewer is less.
LEMMA TotalOfFewer ==
  ASSUME NEW h, NEW J, IsFiniteSet(J), Counts(h, J), NEW R \in SUBSET J
  PROVE  Total(h, R) <= Total(h, J)
<1> DEFINE T == {Cardinality(s) : s \in {r \in SUBSET J : R \subseteq r /\ ~(Total(h, R) <= Total(h, r))}}
<1>0. \A s \in SUBSET J : IsFiniteSet(s) /\ Cardinality(s) \in Nat
  BY FS_Subset, FS_CardinalityType
<1>1. T = {}
  <2> SUFFICES ASSUME T # {} PROVE FALSE
    OBVIOUS
  <2>1. T \subseteq Nat
    BY <1>0
  <2> HIDE DEF T
  <2>2. PICK n \in T : \A m \in T : n <= m
    BY <2>1, Least
  <2>3. PICK s \in SUBSET J : R \subseteq s /\ ~(Total(h, R) <= Total(h, s)) /\ n = Cardinality(s)
    BY DEF T
  <2>a. Splits(h, R) /\ Splits(h, s)
    <3>1. Counts(h, R) /\ Counts(h, s) /\ IsFiniteSet(R) /\ IsFiniteSet(s)
      BY <1>0 DEF Counts
    <3> QED BY <3>1, TotalSplits
  <2>4. R # s
    BY <2>3, <2>a DEF Splits
  <2>5. PICK x \in s : x \notin R
    BY <2>3, <2>4
  <2>6. Splits(h, s \ {x})
    <3>1. Counts(h, s \ {x}) /\ IsFiniteSet(s \ {x})
      BY <1>0, OneLess DEF Counts
    <3> QED BY <3>1, TotalSplits
  <2>7. Cardinality(s \ {x}) = n - 1 /\ n \in Nat
    BY <1>0, <2>3, OneLess
  <2>8. n - 1 \notin T
    BY <2>2, <2>7
  <2>9. Total(h, R) <= Total(h, s \ {x})
    BY <2>3, <2>5, <2>7, <2>8 DEF T
  <2>10. h[x] \in Nat
    BY DEF Counts
  <2>11. /\ Total(h, s) = h[x] + Total(h, s \ {x}) /\ Total(h, s \ {x}) \in Nat /\ Total(h, R) \in Nat
    BY <2>6, <2>a DEF Splits
  <2> QED BY <2>3, <2>9, <2>10, <2>11
<1> QED BY <1>0, <1>1

\* One more of one of them is one more in all.
LEMMA TotalOfOneMore ==
  ASSUME NEW h, NEW k, NEW J, IsFiniteSet(J), Counts(h, J), NEW x \in J, k[x] = h[x] + 1,
         \A y \in J \ {x} : k[y] = h[y]
  PROVE  Total(k, J) = Total(h, J) + 1
<1>1. Counts(k, J) /\ Counts(h, J \ {x}) /\ Counts(k, J \ {x}) /\ IsFiniteSet(J \ {x})
  BY OneLess DEF Counts
<1>2. Splits(h, J) /\ Splits(k, J) /\ Splits(h, J \ {x}) /\ Splits(k, J \ {x})
  BY <1>1, TotalSplits
<1>3. Total(h, J \ {x}) <= Total(k, J \ {x}) /\ Total(k, J \ {x}) <= Total(h, J \ {x})
  <2>1. \A y \in J \ {x} : h[y] <= k[y] /\ k[y] <= h[y]
    BY <1>1 DEF Counts
  <2> QED BY <1>1, <2>1, TotalOfLess
<1> QED BY <1>2, <1>3 DEF Splits, Counts

\* The passwords tested on an address, or from an IP, and those being tested
OnEmail(e) == {e} \X Ips \X {TRUE}
FromIp(i) == Emails \X {i} \X {TRUE}
TestingOn(tk, e) == {t \in Tasks : tk[t].at = "login" /\ tk[t].tested /\ e \in tk[t].email}
TestingFrom(tk, i) == {t \in Tasks : tk[t].at = "login" /\ tk[t].tested /\ i \in tk[t].ip}
Within(n, J, K) == Total(n, J) + Cardinality(K)

GateInv(n, tk) ==
  /\ \A e \in Emails : Within(n, OnEmail(e), TestingOn(tk, e)) <= MaxPerEmail + Cardinality(Tasks) - 1
  /\ \A i \in Ips : Within(n, FromIp(i), TestingFrom(tk, i)) <= MaxPerIp + Cardinality(Tasks) - 1

\* There are finitely many kinds of attempts.
LEMMA AttemptsFinite == IsFiniteSet(Attempts)
<1> DEFINE P == Emails \X Ips
           Q == P \X BOOLEAN
           f == [q \in Q |-> <<q[1][1], q[1][2], q[2]>>]
<1>1. IsFiniteSet(BOOLEAN)
  <2>1. IsFiniteSet({TRUE})
    BY FS_Singleton
  <2>2. IsFiniteSet({TRUE} \cup {FALSE})
    BY <2>1, FS_AddElement
  <2>3. BOOLEAN = {TRUE} \cup {FALSE}
    OBVIOUS
  <2> QED BY <2>2, <2>3
<1>2. IsFiniteSet(Q)
  BY <1>1, FiniteAssumption, FS_Product
<1>3. f \in [Q -> Attempts]
  BY DEF Attempts
<1>4. ASSUME NEW x \in Attempts PROVE \E q \in Q : f[q] = x
  <2>1. <<<<x[1], x[2]>>, x[3]>> \in Q /\ x = <<x[1], x[2], x[3]>>
    BY DEF Attempts
  <2> QED BY <2>1
<1>5. f \in Surjection(Q, Attempts)
  BY <1>3, <1>4 DEF Surjection
<1> QED BY <1>2, <1>5, FS_Surjection

\* The attempts on an address and from an IP, and the tested ones of them
LEMMA AttemptSets ==
  /\ \A e \in Emails : OnEmail(e) \subseteq {e} \X Ips \X BOOLEAN /\ {e} \X Ips \X BOOLEAN \subseteq Attempts
  /\ \A i \in Ips : FromIp(i) \subseteq Emails \X {i} \X BOOLEAN /\ Emails \X {i} \X BOOLEAN \subseteq Attempts
BY DEF OnEmail, FromIp, Attempts

\* Sums over attempts are naturals.
LEMMA SumsCount ==
  ASSUME NEW n \in [Attempts -> 0 .. MaxFails], NEW J \in SUBSET Attempts
  PROVE  IsFiniteSet(J) /\ Counts(n, J) /\ Total(n, J) \in Nat
<1>1. IsFiniteSet(J) /\ Counts(n, J)
  BY AttemptsFinite, FS_Subset, BoundAssumption DEF Counts
<1> QED BY <1>1, TotalSplits DEF Splits

\* There are no more tests than handlers.
LEMMA TestersFinite ==
  /\ Cardinality(Tasks) \in Nat
  /\ \A K \in SUBSET Tasks : IsFiniteSet(K) /\ Cardinality(K) \in Nat /\ Cardinality(K) <= Cardinality(Tasks)
BY FiniteAssumption, FS_Subset, FS_CardinalityType

\* Fewer attempts and fewer tests are within the bound too.
LEMMA WithinLess ==
  ASSUME NEW n \in [Attempts -> 0 .. MaxFails], NEW m \in [Attempts -> 0 .. MaxFails], NEW J \in SUBSET Attempts,
         NEW K \in SUBSET Tasks, NEW L \in SUBSET K, \A x \in J : m[x] <= n[x]
  PROVE  Within(m, J, L) <= Within(n, J, K)
<1>1. Total(m, J) <= Total(n, J) /\ Total(m, J) \in Nat /\ Total(n, J) \in Nat
  BY SumsCount, TotalOfLess
<1>2. IsFiniteSet(K) /\ Cardinality(K) \in Nat /\ Cardinality(L) \in Nat /\ Cardinality(L) <= Cardinality(K)
  BY TestersFinite, FS_Subset
<1> QED BY <1>1, <1>2 DEF Within

\* A test that fails is one more attempt and one test less.
LEMMA WithinTested ==
  ASSUME NEW n \in [Attempts -> 0 .. MaxFails], NEW m \in [Attempts -> 0 .. MaxFails], NEW J \in SUBSET Attempts,
         NEW K \in SUBSET Tasks, NEW t \in K, NEW L \in SUBSET (K \ {t}), NEW x \in J, m[x] = n[x] + 1,
         \A y \in J \ {x} : m[y] = n[y]
  PROVE  Within(m, J, L) <= Within(n, J, K)
<1>1. Total(m, J) = Total(n, J) + 1 /\ Total(n, J) \in Nat
  <2>1. IsFiniteSet(J) /\ Counts(n, J) /\ Total(n, J) \in Nat
    BY SumsCount
  <2> QED BY <2>1, TotalOfOneMore
<1>2. IsFiniteSet(K) /\ IsFiniteSet(K \ {t}) /\ Cardinality(K) \in Nat /\ Cardinality(K \ {t}) = Cardinality(K) - 1
  BY TestersFinite, OneLess
<1>3. Cardinality(L) <= Cardinality(K \ {t}) /\ Cardinality(L) \in Nat
  BY <1>2, FS_Subset, FS_CardinalityType
<1> QED BY <1>1, <1>2, <1>3 DEF Within

\* A test begins below the policy's number, and there are no more than handlers.
LEMMA WithinBegun ==
  ASSUME NEW n \in [Attempts -> 0 .. MaxFails], NEW J \in SUBSET Attempts, NEW R \in SUBSET J,
         NEW K \in SUBSET Tasks, NEW most \in Nat, ~(Total(n, J) >= most)
  PROVE  Within(n, R, K) <= most + Cardinality(Tasks) - 1
<1>1. Total(n, R) <= Total(n, J) /\ Total(n, R) \in Nat /\ Total(n, J) \in Nat
  <2>1. IsFiniteSet(J) /\ Counts(n, J) /\ Total(n, J) \in Nat
    BY SumsCount
  <2>2. R \in SUBSET Attempts
    OBVIOUS
  <2> QED BY <2>1, <2>2, SumsCount, TotalOfFewer
<1>2. Cardinality(K) \in Nat /\ Cardinality(Tasks) \in Nat /\ Cardinality(K) <= Cardinality(Tasks)
  BY TestersFinite
<1> QED BY <1>1, <1>2 DEF Within

\* Attempts and tests are counted in naturals.
LEMMA WithinIsInt ==
  ASSUME NEW n \in [Attempts -> 0 .. MaxFails], NEW J \in SUBSET Attempts, NEW K \in SUBSET Tasks
  PROVE  Within(n, J, K) \in Nat /\ Total(n, J) <= Within(n, J, K)
<1>1. Total(n, J) \in Nat /\ Cardinality(K) \in Nat
  BY SumsCount, TestersFinite
<1> QED BY <1>1 DEF Within

NoMoreTests(tk, um) ==
  /\ \A e \in Emails : TestingOn(um, e) \subseteq TestingOn(tk, e)
  /\ \A i \in Ips : TestingFrom(um, i) \subseteq TestingFrom(tk, i)

\* With fewer attempts and fewer tests, the policy still holds.
LEMMA GateFalls ==
  ASSUME NEW n \in [Attempts -> 0 .. MaxFails], NEW m \in [Attempts -> 0 .. MaxFails], NEW tk, NEW um,
         GateInv(n, tk), \A x \in Attempts : m[x] <= n[x], NoMoreTests(tk, um)
  PROVE  GateInv(m, um)
<1>0. MaxPerEmail \in Nat /\ MaxPerIp \in Nat /\ Cardinality(Tasks) \in Nat
  BY LockoutAssumption, TestersFinite
<1>1. ASSUME NEW e \in Emails
      PROVE  Within(m, OnEmail(e), TestingOn(um, e)) <= MaxPerEmail + Cardinality(Tasks) - 1
  <2>1. OnEmail(e) \in SUBSET Attempts /\ TestingOn(tk, e) \in SUBSET Tasks /\ TestingOn(um, e) \in SUBSET TestingOn(tk, e)
        /\ TestingOn(um, e) \in SUBSET Tasks
    BY AttemptSets DEF TestingOn, NoMoreTests
  <2>2. Within(m, OnEmail(e), TestingOn(um, e)) <= Within(n, OnEmail(e), TestingOn(tk, e))
    BY <2>1, WithinLess
  <2>3. Within(m, OnEmail(e), TestingOn(um, e)) \in Nat /\ Within(n, OnEmail(e), TestingOn(tk, e)) \in Nat
    BY <2>1, WithinIsInt
  <2> QED BY <1>0, <2>2, <2>3 DEF GateInv
<1>2. ASSUME NEW i \in Ips
      PROVE  Within(m, FromIp(i), TestingFrom(um, i)) <= MaxPerIp + Cardinality(Tasks) - 1
  <2>1. FromIp(i) \in SUBSET Attempts /\ TestingFrom(tk, i) \in SUBSET Tasks /\ TestingFrom(um, i) \in SUBSET TestingFrom(tk, i)
        /\ TestingFrom(um, i) \in SUBSET Tasks
    BY AttemptSets DEF TestingFrom, NoMoreTests
  <2>2. Within(m, FromIp(i), TestingFrom(um, i)) <= Within(n, FromIp(i), TestingFrom(tk, i))
    BY <2>1, WithinLess
  <2>3. Within(m, FromIp(i), TestingFrom(um, i)) \in Nat /\ Within(n, FromIp(i), TestingFrom(tk, i)) \in Nat
    BY <2>1, WithinIsInt
  <2> QED BY <1>0, <2>2, <2>3 DEF GateInv
<1> QED BY <1>1, <1>2 DEF GateInv

-----------------------------------------------------------------------------
\* A handler that does not test a password begins or ends.
LEMMA FewerTests ==
  ASSUME IInv, NEW t \in Tasks, NEW k \in TaskState, k.at # "login" \/ ~k.tested, task' = [task EXCEPT ![t] = k]
  PROVE  NoMoreTests(task, task')
<1>1. \A u \in Tasks : task'[u] = IF u = t THEN k ELSE task[u]
  BY DEF IInv, Typed
<1> QED BY <1>1 DEF NoMoreTests, TestingOn, TestingFrom

\* A handler ends its wait, and with it its test.
LEMMA ResumedFewer ==
  ASSUME IInv, NEW t \in Tasks, NEW at, Resume(t, at)
  PROVE  NoMoreTests(task, task')
<1>1. Idle \in TaskState /\ Idle.at # "login"
  BY NullRows DEF Idle
<1> QED BY <1>1, FewerTests DEF Resume

\* Neither the attempts grow nor the tests.
LEMMA GateKept ==
  ASSUME IInv, IInv', GateInv(fails, task), \A x \in Attempts : fails'[x] <= fails[x], NoMoreTests(task, task')
  PROVE  GateInv(fails', task')
BY GateFalls DEF IInv, Typed

\* The attempts are the same, and no test begins.
LEMMA GateUnread ==
  ASSUME IInv, IInv', GateInv(fails, task), fails' = fails, NoMoreTests(task, task')
  PROVE  GateInv(fails', task')
<1>1. \A x \in Attempts : fails'[x] <= fails[x]
  BY BoundAssumption DEF IInv, Typed
<1> QED BY <1>1, GateKept

\* The handlers are the same.
LEMMA SameTests == NoMoreTests(task, task)
BY DEF NoMoreTests

\* Handlers other than log-ins
LEMMA GateOfOthers ==
  ASSUME IInv, IInv', GateInv(fails, task), fails' = fails,
         \/ task' = task
         \/ \E t \in Tasks, at \in {"create", "change", "boot", "login"} : Resume(t, at)
         \/ \E t \in Tasks, k \in TaskState : k.at # "login" /\ Wait(t, k)
  PROVE  GateInv(fails', task')
<1>1. NoMoreTests(task, task')
  BY SameTests, ResumedFewer, FewerTests DEF Wait
<1> QED BY <1>1, GateUnread

\* A log-in begins: it tests a password only where the policy's number is not
\* reached (isLockedOut).
LEMMA GateOfLogin ==
  ASSUME IInv, IInv', GateInv(fails, task), NEW t \in Tasks, NEW e \in Emails, NEW i \in Ips, NEW p \in Passwords,
         Login(t, e, i, p)
  PROVE  GateInv(fails', task')
<1>0. fails \in [Attempts -> 0 .. MaxFails] /\ fails' = fails
  BY DEF IInv, Typed, Login
<1>1. PICK k \in TaskState : task' = [task EXCEPT ![t] = k] /\ k.email = {e} /\ k.ip = {i} /\ k.tested = ~LockedOut(e, i)
  <2> DEFINE rows == IF LockedOut(e, i) THEN {} ELSE RowsOf(e)
             k == [Idle EXCEPT !.at = "login", !.email = {e}, !.ip = {i},
                             !.tested = ~LockedOut(e, i),
                             !.match = \E a \in rows : admin[a].pw = {p},
                             !.who = rows,
                             !.disabled = \E a \in rows : admin[a].disabled]
  <2>1. task' = [task EXCEPT ![t] = k]
    BY DEF Login, Wait
  <2>2. LockedOut(e, i) \in BOOLEAN
    BY DEF LockedOut
  <2>3. k.email = {e} /\ k.ip = {i} /\ k.tested = ~LockedOut(e, i)
    BY DEF Idle
  <2>4. k = task'[t] /\ task' \in [Tasks -> TaskState]
    BY <2>1 DEF IInv, Typed
  <2> HIDE DEF k
  <2> QED BY <2>1, <2>3, <2>4
<1>2. \A u \in Tasks : task'[u] = IF u = t THEN k ELSE task[u]
  BY <1>1 DEF IInv, Typed
<1>3. CASE LockedOut(e, i)
  <2>1. ~k.tested
    BY <1>1, <1>3
  <2> QED BY <1>0, <1>1, <2>1, FewerTests, GateUnread
<1>4. CASE ~LockedOut(e, i)
  <2>1. ~(Failures({e} \X Ips \X BOOLEAN) >= MaxPerEmail) /\ ~(Failures(Emails \X {i} \X BOOLEAN) >= MaxPerIp)
    BY <1>4 DEF LockedOut, FailuresOfEmail, FailuresOfIp
  <2>2. ~(Total(fails, {e} \X Ips \X BOOLEAN) >= MaxPerEmail) /\ ~(Total(fails, Emails \X {i} \X BOOLEAN) >= MaxPerIp)
    BY <2>1, FailuresAre
  <2>a. MaxPerEmail \in Nat /\ MaxPerIp \in Nat
    BY LockoutAssumption
  <2>3. ASSUME NEW d \in Emails
        PROVE  Within(fails', OnEmail(d), TestingOn(task', d)) <= MaxPerEmail + Cardinality(Tasks) - 1
    <3>1. CASE d = e
      <4>1. TestingOn(task', d) \in SUBSET Tasks /\ {e} \X Ips \X BOOLEAN \in SUBSET Attempts
            /\ OnEmail(e) \in SUBSET ({e} \X Ips \X BOOLEAN)
        BY AttemptSets DEF TestingOn
      <4> QED BY <1>0, <2>2, <2>a, <3>1, <4>1, WithinBegun
    <3>2. CASE d # e
      <4>1. TestingOn(task', d) \subseteq TestingOn(task, d)
        BY <1>1, <1>2, <3>2 DEF TestingOn
      <4>2. /\ TestingOn(task', d) \in SUBSET TestingOn(task, d) /\ TestingOn(task, d) \in SUBSET Tasks
            /\ TestingOn(task', d) \in SUBSET Tasks
            /\ OnEmail(d) \in SUBSET Attempts /\ \A x \in OnEmail(d) : fails'[x] <= fails[x]
        BY <1>0, <4>1, AttemptSets, BoundAssumption DEF TestingOn
      <4>3. Within(fails', OnEmail(d), TestingOn(task', d)) <= Within(fails, OnEmail(d), TestingOn(task, d))
        BY <1>0, <4>2, WithinLess
      <4>4. Within(fails', OnEmail(d), TestingOn(task', d)) \in Nat /\ Within(fails, OnEmail(d), TestingOn(task, d)) \in Nat
        BY <1>0, <4>2, WithinIsInt
      <4> QED BY <2>a, <4>3, <4>4, TestersFinite DEF GateInv
    <3> QED BY <3>1, <3>2
  <2>4. ASSUME NEW j \in Ips
        PROVE  Within(fails', FromIp(j), TestingFrom(task', j)) <= MaxPerIp + Cardinality(Tasks) - 1
    <3>1. CASE j = i
      <4>1. TestingFrom(task', j) \in SUBSET Tasks /\ Emails \X {i} \X BOOLEAN \in SUBSET Attempts
            /\ FromIp(i) \in SUBSET (Emails \X {i} \X BOOLEAN)
        BY AttemptSets DEF TestingFrom
      <4> QED BY <1>0, <2>2, <2>a, <3>1, <4>1, WithinBegun
    <3>2. CASE j # i
      <4>1. TestingFrom(task', j) \subseteq TestingFrom(task, j)
        BY <1>1, <1>2, <3>2 DEF TestingFrom
      <4>2. /\ TestingFrom(task', j) \in SUBSET TestingFrom(task, j) /\ TestingFrom(task, j) \in SUBSET Tasks
            /\ TestingFrom(task', j) \in SUBSET Tasks
            /\ FromIp(j) \in SUBSET Attempts /\ \A x \in FromIp(j) : fails'[x] <= fails[x]
        BY <1>0, <4>1, AttemptSets, BoundAssumption DEF TestingFrom
      <4>3. Within(fails', FromIp(j), TestingFrom(task', j)) <= Within(fails, FromIp(j), TestingFrom(task, j))
        BY <1>0, <4>2, WithinLess
      <4>4. Within(fails', FromIp(j), TestingFrom(task', j)) \in Nat /\ Within(fails, FromIp(j), TestingFrom(task, j)) \in Nat
        BY <1>0, <4>2, WithinIsInt
      <4> QED BY <2>a, <4>3, <4>4, TestersFinite DEF GateInv
    <3> QED BY <3>1, <3>2
  <2> QED BY <2>3, <2>4 DEF GateInv
<1> QED BY <1>3, <1>4

\* A log-in fails: what was being tested has been tested (recordFailure).
LEMMA GateOfFailure ==
  ASSUME IInv, IInv', GateInv(fails, task), NEW t \in Tasks, LoginFails(t)
  PROVE  GateInv(fails', task')
<1>0. fails \in [Attempts -> 0 .. MaxFails] /\ fails' \in [Attempts -> 0 .. MaxFails] /\ Resume(t, "login")
      /\ task[t].at = "login" /\ task[t] \in TaskState /\ \A u \in Tasks : task'[u] = IF u = t THEN Idle ELSE task[u]
  BY DEF IInv, Typed, LoginFails, Resume
<1>1. PICK x \in task[t].email \X task[t].ip \X {task[t].tested} : fails' = [fails EXCEPT ![x] = @ + 1]
  BY DEF LoginFails
<1>2. x \in Attempts /\ x[1] \in task[t].email /\ x[2] \in task[t].ip /\ x[3] = task[t].tested
      /\ task[t].email \subseteq Emails /\ task[t].ip \subseteq Ips
  <2>1. task[t].email \subseteq Emails /\ task[t].ip \subseteq Ips /\ task[t].tested \in BOOLEAN
    BY <1>0 DEF TaskState
  <2> QED BY <1>1, <2>1 DEF Attempts
<1>3. fails'[x] = fails[x] + 1 /\ \A y \in Attempts : y # x => fails'[y] = fails[y]
  BY <1>0, <1>1, <1>2
<1>4. NoMoreTests(task, task')
  BY <1>0, ResumedFewer
<1>a. MaxPerEmail \in Nat /\ MaxPerIp \in Nat /\ Cardinality(Tasks) \in Nat
  BY LockoutAssumption, TestersFinite
<1>b. Idle.at # "login"
  BY DEF Idle
<1>5. ASSUME NEW J \in SUBSET Attempts, NEW K \in SUBSET Tasks, NEW L \in SUBSET K, NEW most \in Nat,
             Within(fails, J, K) <= most, x \in J => t \in K /\ t \notin L
      PROVE  Within(fails', J, L) <= most
  <2>1. Within(fails', J, L) <= Within(fails, J, K)
    <3>1. CASE x \in J
      <4>1. t \in K /\ L \in SUBSET (K \ {t}) /\ \A y \in J \ {x} : fails'[y] = fails[y]
        BY <1>3, <1>5, <3>1
      <4> QED BY <1>0, <1>3, <3>1, <4>1, WithinTested
    <3>2. CASE x \notin J
      <4>1. \A y \in J : fails'[y] <= fails[y]
        BY <1>0, <1>3, <3>2, BoundAssumption
      <4> QED BY <1>0, <4>1, WithinLess
    <3> QED BY <3>1, <3>2
  <2>2. L \in SUBSET Tasks
    OBVIOUS
  <2>3. Within(fails', J, L) \in Nat /\ Within(fails, J, K) \in Nat
    BY <1>0, <2>2, WithinIsInt
  <2> QED BY <1>5, <2>1, <2>3
<1>6. ASSUME NEW e \in Emails
      PROVE  Within(fails', OnEmail(e), TestingOn(task', e)) <= MaxPerEmail + Cardinality(Tasks) - 1
  <2>1. OnEmail(e) \in SUBSET Attempts /\ TestingOn(task, e) \in SUBSET Tasks /\ TestingOn(task', e) \in SUBSET TestingOn(task, e)
    BY <1>4, AttemptSets DEF TestingOn, NoMoreTests
  <2>2. x \in OnEmail(e) => t \in TestingOn(task, e) /\ t \notin TestingOn(task', e)
    BY <1>0, <1>2, <1>b DEF OnEmail, TestingOn
  <2>3. Within(fails, OnEmail(e), TestingOn(task, e)) <= MaxPerEmail + Cardinality(Tasks) - 1
        /\ MaxPerEmail + Cardinality(Tasks) - 1 \in Nat
    BY <1>a, LockoutAssumption DEF GateInv
  <2> QED BY <1>5, <2>1, <2>2, <2>3
<1>7. ASSUME NEW i \in Ips
      PROVE  Within(fails', FromIp(i), TestingFrom(task', i)) <= MaxPerIp + Cardinality(Tasks) - 1
  <2>1. FromIp(i) \in SUBSET Attempts /\ TestingFrom(task, i) \in SUBSET Tasks /\ TestingFrom(task', i) \in SUBSET TestingFrom(task, i)
    BY <1>4, AttemptSets DEF TestingFrom, NoMoreTests
  <2>2. x \in FromIp(i) => t \in TestingFrom(task, i) /\ t \notin TestingFrom(task', i)
    BY <1>0, <1>2, <1>b DEF FromIp, TestingFrom
  <2>3. Within(fails, FromIp(i), TestingFrom(task, i)) <= MaxPerIp + Cardinality(Tasks) - 1
        /\ MaxPerIp + Cardinality(Tasks) - 1 \in Nat
    BY <1>a, LockoutAssumption DEF GateInv
  <2> QED BY <1>5, <2>1, <2>2, <2>3
<1> QED BY <1>6, <1>7 DEF GateInv

\* A log-in succeeds, and the attempts on its address are forgotten.
LEMMA GateOfSuccess ==
  ASSUME IInv, IInv', GateInv(fails, task), NEW t \in Tasks, NEW s \in Sessions, LoginSucceeds(t, s)
  PROVE  GateInv(fails', task')
<1>1. NoMoreTests(task, task')
  BY ResumedFewer DEF LoginSucceeds
<1>2. PICK e \in Emails : task[t].email = {e}
  BY DEF IInv, TasksHold, TaskHolds, LoginSucceeds, Resume
<1>3. fails' = [x \in Attempts |-> IF x[1] = e THEN 0 ELSE fails[x]]
  BY <1>2 DEF LoginSucceeds, ClearFailures
<1>4. \A x \in Attempts : fails'[x] <= fails[x]
  BY <1>3, BoundAssumption DEF IInv, Typed
<1> QED BY <1>1, <1>4, GateKept

\* Every step keeps GateInv.
LEMMA GateStep ==
  ASSUME IInv, IInv', GateInv(fails, task), [Next]_vars
  PROVE  GateInv(fails', task')
<1>1. ASSUME NEW t \in Tasks, NEW e \in Emails, NEW p \in Passwords, Bootstrap(t, e, p)
      PROVE  GateInv(fails', task')
  <2>1. fails' = fails /\ \E k \in TaskState : k.at # "login" /\ Wait(t, k)
    <3> DEFINE k == [Idle EXCEPT !.at = "boot", !.email = {e}, !.new = {p}]
    <3>1. fails' = fails /\ Wait(t, k)
      BY <1>1 DEF Bootstrap
    <3>2. k \in TaskState /\ k.at # "login"
      BY DEF Idle, TaskState
    <3> HIDE DEF k
    <3> QED BY <3>1, <3>2
  <2> QED BY <2>1, GateOfOthers
<1>2. ASSUME NEW t \in Tasks, NEW e \in Emails, NEW p \in Passwords, NEW i \in Ips,
             Login(t, e, i, p)
      PROVE  GateInv(fails', task')
  BY <1>2, GateOfLogin
<1>3. ASSUME NEW t \in Tasks, LoginFails(t) \/ PasswordChanged(t)
      PROVE  GateInv(fails', task')
  <2>1. CASE LoginFails(t)
    BY <2>1, GateOfFailure
  <2>2. CASE PasswordChanged(t)
    <3>1. fails' = fails /\ \E at \in {"create", "change", "boot", "login"} : Resume(t, at)
      BY <2>2 DEF PasswordChanged
    <3> QED BY <3>1, GateOfOthers
  <2> QED BY <1>3, <2>1, <2>2
<1>4. ASSUME NEW t \in Tasks, NEW s \in Sessions, LoginSucceeds(t, s)
      PROVE  GateInv(fails', task')
  BY <1>4, GateOfSuccess
<1>5. ASSUME NEW t \in Tasks, NEW b \in Admins, AdminCreated(t, b) \/ BootstrapEnds(t, b)
      PROVE  GateInv(fails', task')
  <2>1. fails' = fails /\ \E at \in {"create", "change", "boot", "login"} : Resume(t, at)
    BY <1>5 DEF AdminCreated, BootstrapEnds
  <2> QED BY <2>1, GateOfOthers
<1>6. ASSUME NEW s \in Sessions, NEW a \in Admins, Logout(s, a)
      PROVE  GateInv(fails', task')
  BY <1>6, GateOfOthers DEF Logout
<1>7. ASSUME NEW s \in Sessions, NEW a \in Admins, NEW t \in Tasks, NEW p \in Passwords,
             ChangePassword(t, s, a, p)
      PROVE  GateInv(fails', task')
  <2>1. fails' = fails /\ \E k \in TaskState : k.at # "login" /\ Wait(t, k)
    <3> DEFINE k == [Idle EXCEPT !.at = "change", !.who = {a}, !.s = {s}, !.new = {p}]
    <3>1. fails' = fails /\ Wait(t, k)
      BY <1>7 DEF ChangePassword
    <3>2. k \in TaskState /\ k.at # "login"
      BY DEF Idle, TaskState
    <3> HIDE DEF k
    <3> QED BY <3>1, <3>2
  <2> QED BY <2>1, GateOfOthers
<1>8. ASSUME NEW s \in Sessions, NEW a \in Admins, NEW t \in Tasks, NEW p \in Passwords,
             NEW e \in Emails, CreateAdmin(t, s, a, e, p)
      PROVE  GateInv(fails', task')
  <2>1. fails' = fails /\ \E k \in TaskState : k.at # "login" /\ Wait(t, k)
    <3> DEFINE k == [Idle EXCEPT !.at = "create", !.who = {a}, !.email = {e}, !.new = {p}]
    <3>1. fails' = fails /\ Wait(t, k)
      BY <1>8 DEF CreateAdmin
    <3>2. k \in TaskState /\ k.at # "login"
      BY DEF Idle, TaskState
    <3> HIDE DEF k
    <3> QED BY <3>1, <3>2
  <2> QED BY <2>1, GateOfOthers
<1>9. ASSUME NEW s \in Sessions, NEW a \in Admins, NEW b \in Admins, DeleteAdmin(s, a, b)
      PROVE  GateInv(fails', task')
  BY <1>9, GateOfOthers DEF DeleteAdmin
<1>10. ASSUME NEW s \in Sessions, NEW a \in Admins, NEW b \in Admins, NEW off \in BOOLEAN,
              SetDisabled(s, a, b, off)
       PROVE  GateInv(fails', task')
  BY <1>10, GateOfOthers DEF SetDisabled
<1>11. ASSUME NEW s \in Sessions, Expire(s)
       PROVE  GateInv(fails', task')
  BY <1>11, GateOfOthers DEF Expire
<1>12. ASSUME NEW x \in Attempts, AttemptAges(x)
       PROVE  GateInv(fails', task')
  <2>1. \A y \in Attempts : fails'[y] <= fails[y]
    BY <1>12, BoundAssumption DEF IInv, Typed, AttemptAges
  <2>2. NoMoreTests(task, task')
    BY <1>12, SameTests DEF AttemptAges
  <2> QED BY <2>1, <2>2, GateKept
<1>13. CASE Crash
  <2>1. fails' = fails /\ NoMoreTests(task, task')
    BY <1>13 DEF Crash, NoMoreTests, TestingOn, TestingFrom, Idle
  <2> QED BY <2>1, GateUnread
<1>14. CASE UNCHANGED vars
  BY <1>14, GateOfOthers DEF vars
<1> QED BY <1>1, <1>2, <1>3, <1>4, <1>5, <1>6, <1>7, <1>8, <1>9, <1>10, <1>11, <1>12, <1>13,
           <1>14 DEF Next

\* A sum of zeros
LEMMA TotalOfZeros ==
  ASSUME NEW h, NEW J, IsFiniteSet(J), \A x \in J : h[x] = 0
  PROVE  Total(h, J) = 0
<1> DEFINE T == {Cardinality(s) : s \in {r \in SUBSET J : Total(h, r) # 0}}
<1>0. \A s \in SUBSET J : IsFiniteSet(s) /\ Cardinality(s) \in Nat
  BY FS_Subset, FS_CardinalityType
<1>1. T = {}
  <2> SUFFICES ASSUME T # {} PROVE FALSE
    OBVIOUS
  <2>1. T \subseteq Nat
    BY <1>0
  <2> HIDE DEF T
  <2>2. PICK n \in T : \A m \in T : n <= m
    BY <2>1, Least
  <2>3. PICK s \in SUBSET J : Total(h, s) # 0 /\ n = Cardinality(s)
    BY DEF T
  <2>4. PICK x \in s : x = First(s)
    BY <2>3, TotalOfNone, FirstIsIn
  <2>5. IsFiniteSet(s) /\ h[x] = 0 /\ n \in Nat /\ Cardinality(s \ {x}) = n - 1
    BY <1>0, <2>3, OneLess
  <2>6. n - 1 \notin T
    BY <2>2, <2>5
  <2>7. Total(h, s \ {x}) = 0
    BY <2>5, <2>6 DEF T
  <2>8. Total(h, s) = h[x] + Total(h, s \ {x})
    BY <2>4, <2>5, TotalOfFirst
  <2> QED BY <2>3, <2>5, <2>7, <2>8
<1> QED BY <1>0, <1>1

\* GateInv holds at first.
LEMMA GateBegins == Init => GateInv(fails, task)
<1> SUFFICES ASSUME Init PROVE GateInv(fails, task)
  OBVIOUS
<1>0. fails \in [Attempts -> 0 .. MaxFails] /\ (\A x \in Attempts : fails[x] = 0) /\ \A t \in Tasks : task[t].at # "login"
  BY BoundAssumption DEF Init, Idle
<1>1. ASSUME NEW J \in SUBSET Attempts, NEW most \in Nat \ {0}
      PROVE  Within(fails, J, {}) <= most + Cardinality(Tasks) - 1
  <2>1. Total(fails, J) = 0
    BY <1>0, SumsCount, TotalOfZeros
  <2>2. Cardinality({}) = 0 /\ Cardinality(Tasks) \in Nat
    BY TestersFinite, FS_EmptySet
  <2> QED BY <2>1, <2>2 DEF Within
<1> QED BY <1>0, <1>1, LockoutAssumption, AttemptSets DEF GateInv, TestingOn, TestingFrom

\* What GateInv says of the wrong passwords that were tested
LEMMA GateGives == IInv /\ GateInv(fails, task) => GuessesBounded
<1> SUFFICES ASSUME IInv, GateInv(fails, task) PROVE GuessesBounded
  OBVIOUS
<1>0. fails \in [Attempts -> 0 .. MaxFails] /\ MaxPerEmail \in Nat /\ MaxPerIp \in Nat /\ Cardinality(Tasks) \in Nat
  BY LockoutAssumption, TestersFinite DEF IInv, Typed
<1>1. ASSUME NEW e \in Emails PROVE Failures({e} \X Ips \X {TRUE}) <= MaxPerEmail + Cardinality(Tasks) - 1
  <2>1. OnEmail(e) \in SUBSET Attempts /\ TestingOn(task, e) \in SUBSET Tasks
    BY AttemptSets DEF TestingOn
  <2>2. Within(fails, OnEmail(e), TestingOn(task, e)) \in Nat
        /\ Total(fails, OnEmail(e)) <= Within(fails, OnEmail(e), TestingOn(task, e))
        /\ Total(fails, OnEmail(e)) \in Nat
    BY <1>0, <2>1, WithinIsInt, SumsCount
  <2>3. Failures({e} \X Ips \X {TRUE}) = Total(fails, OnEmail(e))
    BY FailuresAre DEF OnEmail
  <2> QED BY <1>0, <2>2, <2>3 DEF GateInv
<1>2. ASSUME NEW i \in Ips PROVE Failures(Emails \X {i} \X {TRUE}) <= MaxPerIp + Cardinality(Tasks) - 1
  <2>1. FromIp(i) \in SUBSET Attempts /\ TestingFrom(task, i) \in SUBSET Tasks
    BY AttemptSets DEF TestingFrom
  <2>2. Within(fails, FromIp(i), TestingFrom(task, i)) \in Nat
        /\ Total(fails, FromIp(i)) <= Within(fails, FromIp(i), TestingFrom(task, i))
        /\ Total(fails, FromIp(i)) \in Nat
    BY <1>0, <2>1, WithinIsInt, SumsCount
  <2>3. Failures(Emails \X {i} \X {TRUE}) = Total(fails, FromIp(i))
    BY FailuresAre DEF FromIp
  <2> QED BY <1>0, <2>2, <2>3 DEF GateInv
<1> QED BY <1>1, <1>2 DEF GuessesBounded

-----------------------------------------------------------------------------
\* A header that is there or not
LEMMA AtMostOneIs ==
  ASSUME NEW J, IsFiniteSet(J), NEW x \in AtMostOne(J)
  PROVE  x \subseteq J /\ (x = {} \/ \E y \in J : x = {y})
<1>1. x \subseteq J /\ Cardinality(x) <= 1 /\ IsFiniteSet(x) /\ Cardinality(x) \in Nat
  BY FS_Subset, FS_CardinalityType DEF AtMostOne
<1>2. Cardinality(x) = 0 \/ Cardinality(x) = 1
  BY <1>1
<1> QED BY <1>1, <1>2, FS_EmptySet, FS_Singleton

PortOf(x, o) == IF x.port = {} THEN {DefaultPort[o.scheme]} ELSE x.port
Same(o, h) == o.name = h.name /\ PortOf(o, o) = PortOf(h, o)
Close(o, h) == Same(o, h) \/ (o.name = h.name /\ PortOf(o, o) \cup PortOf(h, o) \subseteq {"80", "443"})

\* An origin and a host, each with its port or without
LEMMA HostsCompared ==
  ASSUME NEW o \in Origins, NEW h \in Hosts
  PROVE  (Same(o, h) => SameHost(o, h)) /\ (SameHost(o, h) => Close(o, h))
<1>0. IsFiniteSet(Ports)
  <2>1. IsFiniteSet({"80"}) /\ IsFiniteSet({"80", "443"}) /\ IsFiniteSet({"80", "443", "8443"})
    <3>1. IsFiniteSet({"80"})
      BY FS_Singleton
    <3>2. IsFiniteSet({"80"} \cup {"443"})
      BY <3>1, FS_AddElement
    <3>3. IsFiniteSet(({"80"} \cup {"443"}) \cup {"8443"})
      BY <3>2, FS_AddElement
    <3>4. {"80", "443"} = {"80"} \cup {"443"} /\ {"80", "443", "8443"} = ({"80"} \cup {"443"}) \cup {"8443"}
      OBVIOUS
    <3> QED BY <3>1, <3>2, <3>3, <3>4
  <2> QED BY <2>1 DEF Ports
<1>1. /\ o.port = {} \/ \E p \in Ports : o.port = {p}
      /\ h.port = {} \/ \E p \in Ports : h.port = {p}
  <2>1. o.port \in AtMostOne(Ports) /\ h.port \in AtMostOne(Ports)
    BY DEF Origins, Hosts
  <2> QED BY <1>0, <2>1, AtMostOneIs
<1> DEFINE d == DefaultPort[o.scheme]
<1>2. d \in {"80", "443"}
  BY DEF Origins, Schemes, DefaultPort
<1>3. h = [name |-> h.name, port |-> h.port]
  BY DEF Hosts
<1>4. SameHost(o, h) <=> o.name = h.name /\ (o.port \ {d} = h.port \/ o.port \ {d} = h.port \ {"80", "443"})
  <2>1. [h EXCEPT !.port = @ \ {"80", "443"}] = [name |-> h.name, port |-> h.port \ {"80", "443"}]
    BY DEF Hosts
  <2> HIDE DEF d
  <2>2. UrlHost(o) = [name |-> o.name, port |-> o.port \ {d}]
    BY DEF UrlHost, d
  <2>3. \A n, m, p, q : [name |-> n, port |-> p] = [name |-> m, port |-> q] <=> n = m /\ p = q
    <3> TAKE n, m, p, q
    <3> DEFINE A == [name |-> n, port |-> p]
               C == [name |-> m, port |-> q]
    <3>1. A.name = n /\ A.port = p /\ C.name = m /\ C.port = q
      OBVIOUS
    <3>2. A = C => n = m /\ p = q
      BY <3>1, Zenon
    <3> QED BY <3>2
  <2>4. UrlHost(o) = h <=> o.name = h.name /\ o.port \ {d} = h.port
    BY <1>3, <2>2, <2>3
  <2>5. UrlHost(o) = [h EXCEPT !.port = @ \ {"80", "443"}] <=> o.name = h.name /\ o.port \ {d} = h.port \ {"80", "443"}
    BY <2>1, <2>2, <2>3
  <2> QED BY <2>4, <2>5 DEF SameHost
<1>5. PortOf(o, o) = (IF o.port = {} THEN {d} ELSE o.port) /\ PortOf(h, o) = (IF h.port = {} THEN {d} ELSE h.port)
  BY DEF PortOf
<1> HIDE DEF d
<1>6. Same(o, h) => SameHost(o, h)
  <2> SUFFICES ASSUME Same(o, h) PROVE SameHost(o, h)
    OBVIOUS
  <2>1. o.name = h.name /\ (IF o.port = {} THEN {d} ELSE o.port) = (IF h.port = {} THEN {d} ELSE h.port)
    BY <1>5 DEF Same
  <2>2. o.port \ {d} = h.port \/ o.port \ {d} = h.port \ {"80", "443"}
    BY <1>1, <1>2, <2>1
  <2> QED BY <1>4, <2>1, <2>2
<1>7. SameHost(o, h) => Close(o, h)
  <2> SUFFICES ASSUME SameHost(o, h) PROVE Close(o, h)
    OBVIOUS
  <2>1. o.name = h.name /\ (o.port \ {d} = h.port \/ o.port \ {d} = h.port \ {"80", "443"})
    BY <1>4
  <2>2. PortOf(o, o) = PortOf(h, o) \/ PortOf(o, o) \cup PortOf(h, o) \subseteq {"80", "443"}
    BY <1>1, <1>2, <1>5, <2>1
  <2> QED BY <2>1, <2>2 DEF Close, Same
<1> QED BY <1>6, <1>7

\* A request is accepted exactly if its origin is the panel's own host.
LEMMA OwnPages == req \subseteq Requests => OwnPagesOnly
<1> SUFFICES ASSUME NEW r \in req, r \in Requests
             PROVE  /\ (r.site = {} /\ \E o \in r.origin, h \in r.host : Same(o, h)) => IsSameOriginRequest(r)
                    /\ IsSameOriginRequest(r) => r.site = {"same-origin"} \/ \E o \in r.origin, h \in r.host : Close(o, h)
  BY DEF OwnPagesOnly, Same, Close, PortOf
<1>1. r.origin \subseteq Origins /\ r.host \subseteq Hosts
  BY DEF Requests, AtMostOne
<1>2. \A o \in r.origin, h \in r.host : (Same(o, h) => SameHost(o, h)) /\ (SameHost(o, h) => Close(o, h))
  BY <1>1, HostsCompared
<1> QED BY <1>2 DEF IsSameOriginRequest

\* However many log-ins wait for their password's verification at once, no
\* more wrong passwords are tested on an address or from an IP in a window than
\* the policy's number and those under way when it was reached (isLockedOut);
\* and of the requests a client may send, those of the panel's own pages are
\* accepted and those of another host are not (isSameOriginRequest).
THEOREM GateAlwaysHolds == Spec /\ [](req \subseteq Requests) => []GateHolds
<1>1. IInv /\ IInv' /\ GateInv(fails, task) /\ [Next]_vars => GateInv(fails, task)'
  BY GateStep
<1>2. Spec => []GateInv(fails, task)
  BY AuthInvariant, GateBegins, <1>1, PTL DEF Spec
<1>3. IInv /\ GateInv(fails, task) /\ req \subseteq Requests => GateHolds
  BY GateGives, OwnPages DEF GateHolds
<1> QED BY AuthInvariant, <1>2, <1>3, PTL

-----------------------------------------------------------------------------
(***************************************************************************)
(* Mail                                                                    *)
(***************************************************************************)

\* Cardinality as Mail has it
LEMMA MailCardinality == \A K : M!Cardinality(K) = Cardinality(K)
BY Zenon DEF M!Cardinality, Cardinality

\* A set as a sequence
LEMMA SetAsSeq ==
  ASSUME NEW D, IsFiniteSet(D)
  PROVE  /\ M!SetToSeq(D) \in Seq(D)
         /\ D = {M!SetToSeq(D)[i] : i \in 1 .. Len(M!SetToSeq(D))}
<1> DEFINE n == Cardinality(D)
<1>1. n \in Nat /\ ExistsBijection(1 .. n, D)
  BY FS_CardinalityType
<1>2. PICK f \in [1 .. n -> D] : (\A a, b \in 1 .. n : f[a] = f[b] => a = b) /\ \A d \in D : \E a \in 1 .. n : f[a] = d
  BY <1>1 DEF ExistsBijection, Bijection, Injection, Surjection, IsInjective
<1> HIDE DEF n
<1>3. M!IsInjective(f)
  BY <1>2 DEF M!IsInjective
<1>4. M!SetToSeq(D) = CHOOSE g \in [1 .. n -> D] : M!IsInjective(g)
  BY MailCardinality, Zenon DEF M!SetToSeq, n
<1>5. M!SetToSeq(D) \in [1 .. n -> D] /\ M!IsInjective(M!SetToSeq(D))
  BY <1>3, <1>4
<1> DEFINE s == M!SetToSeq(D)
<1> HIDE DEF s
<1>6. s \in [1 .. n -> D] /\ \A a, b \in 1 .. n : s[a] = s[b] => a = b
  BY <1>5 DEF M!IsInjective, s
<1>7. s \in Seq(D) /\ Len(s) = n
  BY <1>1, <1>6
<1>8. s \in Injection(1 .. n, D)
  BY <1>6 DEF Injection, IsInjective
<1>9. s \in Surjection(1 .. n, D)
  BY <1>1, <1>8, FS_Injection, FS_Interval DEF n
<1>10. \A d \in D : \E i \in 1 .. n : s[i] = d
  BY <1>9 DEF Surjection
<1> QED BY <1>6, <1>7, <1>10 DEF s

-----------------------------------------------------------------------------
\* One step along the aliases
Along(W) == W \cup UNION {alias[b] : b \in W}
Closed(W) == \A b \in W : alias[b] \subseteq W

\* The walk, step by step: by induction on the number of steps
LEMMA WalkExists ==
  ASSUME NEW R, NEW n0 \in Nat
  PROVE  \E g : g = [n \in 0 .. n0 |-> IF n = 0 THEN R ELSE Along(g[n - 1])]
<1> DEFINE Def(g, m) == [n \in 0 .. m |-> IF n = 0 THEN R ELSE Along(g[n - 1])]
           P(m) == \E g : g = Def(g, m)
           T == {m \in Nat : ~P(m)}
<1>1. P(0)
  <2>1. [n \in 0 .. 0 |-> R] = Def([n \in 0 .. 0 |-> R], 0)
    OBVIOUS
  <2> QED BY <2>1
<1>2. ASSUME NEW m \in Nat, P(m) PROVE P(m + 1)
  <2>1. PICK g : g = Def(g, m)
    BY <1>2
  <2> DEFINE h == [n \in 0 .. m + 1 |-> IF n = m + 1 THEN Along(g[m]) ELSE g[n]]
  <2>2. \A n \in 0 .. m + 1 : h[n] = IF n = 0 THEN R ELSE Along(h[n - 1])
    <3> TAKE n \in 0 .. m + 1
    <3>1. CASE n = 0
      BY <3>1, <2>1
    <3>2. CASE n = m + 1
      <4>1. h[n] = Along(g[m]) /\ h[n - 1] = g[m]
        BY <3>2
      <4> QED BY <4>1, <3>2
    <3>3. CASE n # 0 /\ n # m + 1
      <4>1. n \in 0 .. m /\ n - 1 \in 0 .. m
        BY <3>3
      <4>2. g[n] = Along(g[n - 1])
        BY <2>1, <4>1, <3>3
      <4>3. h[n] = g[n] /\ h[n - 1] = g[n - 1]
        BY <4>1, <3>3
      <4> QED BY <4>2, <4>3, <3>3
    <3> QED BY <3>1, <3>2, <3>3
  <2>3. h = [n \in 0 .. m + 1 |-> h[n]]
    OBVIOUS
  <2> HIDE DEF h
  <2>4. h = Def(h, m + 1)
    BY <2>2, <2>3, Zenon
  <2> QED BY <2>4
<1>3. T = {}
  <2> SUFFICES ASSUME T # {} PROVE FALSE
    OBVIOUS
  <2> HIDE DEF P
  <2>1. PICK m \in T : \A k \in T : m <= k
    BY Least
  <2>2. m # 0
    BY <1>1
  <2>3. m - 1 \in Nat /\ P(m - 1)
    BY <2>1, <2>2
  <2> QED BY <2>3, <1>2
<1>4. P(n0)
  BY <1>3
<1> QED BY <1>4

\* detectsAliasLoop is a walk of as many steps as there are addresses.
LEMMA LoopsIs ==
  ASSUME NEW a, NEW R, Cardinality(Addresses) \in Nat
  PROVE  \E g : /\ M!Loops(a, R) <=> a \in g[Cardinality(Addresses)]
                /\ g = [n \in 0 .. Cardinality(Addresses) |-> IF n = 0 THEN R ELSE Along(g[n - 1])]
<1> DEFINE n0 == M!Cardinality(Addresses)
           P(w) == w = [n \in 0 .. n0 |->
                          IF n = 0 THEN R
                          ELSE w[n - 1] \cup UNION {alias[b] : b \in w[n - 1]}]
           W == CHOOSE w : P(w)
<1>0. n0 = Cardinality(Addresses)
  BY MailCardinality
<1>1. PICK g : g = [n \in 0 .. n0 |-> IF n = 0 THEN R ELSE Along(g[n - 1])]
  <2>1. n0 \in Nat
    BY <1>0
  <2> HIDE DEF n0
  <2> QED BY <2>1, WalkExists
<1>2. \E w : P(w)
  <2>1. P(g)
    BY <1>1, Zenon DEF Along
  <2> QED BY <2>1
<1>3. P(W)
  <2> HIDE DEF P
  <2> QED BY <1>2, Zenon
<1>4. M!Loops(a, R) <=> a \in W[n0]
  BY Zenon DEF M!Loops
<1>5. W = [n \in 0 .. n0 |-> IF n = 0 THEN R ELSE Along(W[n - 1])]
  <2> HIDE DEF W
  <2> QED BY <1>3, Zenon DEF Along
<1> HIDE DEF W, n0
<1>6. W = [n \in 0 .. Cardinality(Addresses) |-> IF n = 0 THEN R ELSE Along(W[n - 1])]
  BY <1>0, <1>5, Zenon
<1>7. M!Loops(a, R) <=> a \in W[Cardinality(Addresses)]
  BY <1>0, <1>4, Zenon
<1> QED BY <1>6, <1>7

\* The walk ends where it began to be closed: every step before adds an address.
LEMMA WalkCloses ==
  ASSUME alias \in [Addresses -> SUBSET Addresses], NEW R \in SUBSET Addresses, NEW a
  PROVE  \E W \in SUBSET Addresses : R \subseteq W /\ Closed(W) /\ (M!Loops(a, R) <=> a \in W)
<1> DEFINE N == Cardinality(Addresses)
<1>0. N \in Nat /\ IsFiniteSet(Addresses)
  BY FiniteAssumption, FS_CardinalityType
<1>1. PICK g : /\ M!Loops(a, R) <=> a \in g[N]
               /\ g = [n \in 0 .. N |-> IF n = 0 THEN R ELSE Along(g[n - 1])]
  BY <1>0, LoopsIs
<1> DEFINE Q(A, n) == A \subseteq Addresses /\ R \subseteq A /\ (Closed(A) \/ Cardinality(A) >= n)
           T == {n \in 0 .. N : ~Q(g[n], n)}
<1>2. Q(g[0], 0)
  <2>1. g[0] = R
    BY <1>0, <1>1
  <2>2. Cardinality(R) \in Nat
    BY <1>0, FS_Subset, FS_CardinalityType
  <2> QED BY <2>1, <2>2
<1>3. ASSUME NEW n \in 0 .. N, n # 0, Q(g[n - 1], n - 1) PROVE Q(g[n], n)
  <2> DEFINE A == g[n - 1]
  <2>1. g[n] = Along(A)
    BY <1>0, <1>1, <1>3
  <2>2. Q(A, n - 1)
    BY <1>3
  <2> HIDE DEF A
  <2>3. Along(A) \subseteq Addresses /\ A \subseteq Along(A) /\ R \subseteq Along(A)
    BY <2>2 DEF Along
  <2>4. CASE Closed(A)
    <3>1. Along(A) = A
      BY <2>4 DEF Along, Closed
    <3> QED BY <2>1, <2>3, <2>4, <3>1
  <2>5. CASE ~Closed(A)
    <3>1. IsFiniteSet(Along(A)) /\ IsFiniteSet(A) /\ A # Along(A)
      <4>1. A # Along(A)
        BY <2>5 DEF Along, Closed
      <4> QED BY <1>0, <2>2, <2>3, <4>1, FS_Subset
    <3>2. Cardinality(A) <= Cardinality(Along(A)) /\ Cardinality(A) # Cardinality(Along(A))
      BY <2>3, <3>1, FS_Subset
    <3>3. Cardinality(A) \in Nat /\ Cardinality(Along(A)) \in Nat
      BY <3>1, FS_CardinalityType
    <3> QED BY <1>0, <2>1, <2>2, <2>3, <2>5, <3>2, <3>3
  <2> QED BY <2>4, <2>5
<1>4. Q(g[N], N)
  <2> HIDE DEF Q
  <2>1. T = {}
    <3> SUFFICES ASSUME T # {} PROVE FALSE
      OBVIOUS
    <3>1. PICK n \in T : \A m \in T : n <= m
      <4>1. T \subseteq Nat
        BY <1>0
      <4> HIDE DEF T
      <4> QED BY <4>1, Least
    <3>2. n # 0
      BY <1>2
    <3>3. n - 1 \in 0 .. N /\ n - 1 \notin T
      BY <1>0, <3>1, <3>2
    <3> QED BY <1>3, <3>2, <3>3
  <2> QED BY <1>0, <2>1
<1> DEFINE W == g[N]
<1>5. Q(W, N) /\ (M!Loops(a, R) <=> a \in W)
  BY <1>1, <1>4
<1> HIDE DEF W
<1>6. Closed(W)
  <2>1. CASE Cardinality(W) >= N
    <3>1. Cardinality(W) <= N /\ Cardinality(W) \in Nat
      BY <1>0, <1>5, FS_Subset, FS_CardinalityType
    <3>2. Cardinality(Addresses) = Cardinality(W)
      BY <1>0, <2>1, <3>1
    <3>3. W = Addresses
      <4> HIDE DEF N
      <4> QED BY <1>0, <1>5, <3>2, FS_Subset
    <3> QED BY <3>3 DEF Closed
  <2> QED BY <1>5, <2>1
<1> QED BY <1>5, <1>6

-----------------------------------------------------------------------------
With(a, R) == [alias EXCEPT ![a] = @ \cup R]

\* What is not refused closes no loop.
LEMMA NoLoopIsSafe ==
  ASSUME alias \in [Addresses -> SUBSET Addresses], M!Acyclic(alias),
         NEW a \in Addresses, NEW R \in SUBSET Addresses, ~M!Loops(a, R)
  PROVE  M!Acyclic(With(a, R))
<1>1. PICK W \in SUBSET Addresses : R \subseteq W /\ Closed(W) /\ a \notin W
  BY WalkCloses
<1>2. \A b \in Addresses : With(a, R)[b] = IF b = a THEN alias[b] \cup R ELSE alias[b]
  BY DEF With
<1> SUFFICES ASSUME NEW V \in (SUBSET Addresses) \ {{}}
             PROVE  \E b \in V : With(a, R)[b] \cap V = {}
  BY DEF M!Acyclic
<1>3. CASE V \cap W # {}
  <2>1. PICK b \in V \cap W : alias[b] \cap (V \cap W) = {}
    BY <1>3 DEF M!Acyclic
  <2>2. alias[b] \subseteq W /\ b # a
    BY <1>1, <2>1 DEF Closed
  <2> QED BY <1>2, <2>1, <2>2
<1>4. CASE V \cap W = {}
  <2>1. PICK b \in V : alias[b] \cap V = {}
    BY DEF M!Acyclic
  <2> QED BY <1>1, <1>2, <1>4, <2>1
<1> QED BY <1>3, <1>4

\* What is refused would have closed one: everything a can be reached from.
LEMMA LoopIsDue ==
  ASSUME alias \in [Addresses -> SUBSET Addresses],
         NEW a \in Addresses, NEW R \in SUBSET Addresses, M!Loops(a, R)
  PROVE  ~M!Acyclic(With(a, R))
<1> DEFINE Before(X) == a \in X /\ \A c \in Addresses : alias[c] \cap X # {} => c \in X
           Anc == {b \in Addresses : \A X \in SUBSET Addresses : Before(X) => b \in X}
<1>1. Before(Anc)
  <2>1. a \in Anc
    OBVIOUS
  <2>2. ASSUME NEW c \in Addresses, alias[c] \cap Anc # {} PROVE c \in Anc
    <3> SUFFICES ASSUME NEW X \in SUBSET Addresses, Before(X) PROVE c \in X
      OBVIOUS
    <3>1. PICK b \in alias[c] : b \in Anc
      BY <2>2
    <3> QED BY <3>1
  <2> QED BY <2>1, <2>2
<1>2. ASSUME NEW b \in Anc, b # a PROVE alias[b] \cap Anc # {}
  <2> SUFFICES ASSUME alias[b] \cap Anc = {} PROVE FALSE
    OBVIOUS
  <2>1. Before(Anc \ {b})
    <3> HIDE DEF Anc
    <3> QED BY <1>1, <1>2
  <2>2. b \in Anc \ {b}
    BY <2>1
  <2> QED BY <2>2
<1>3. R \cap Anc # {}
  <2> SUFFICES ASSUME R \cap Anc = {} PROVE FALSE
    OBVIOUS
  <2> DEFINE N == Cardinality(Addresses)
  <2>0. N \in Nat
    BY FiniteAssumption, FS_CardinalityType
  <2>1. PICK g : /\ a \in g[N]
                 /\ g = [n \in 0 .. N |-> IF n = 0 THEN R ELSE Along(g[n - 1])]
    BY <2>0, LoopsIs
  <2> HIDE DEF Anc
  <2> DEFINE T == {n \in 0 .. N : ~(g[n] \subseteq Addresses /\ g[n] \cap Anc = {})}
  <2>2. N \in T
    <3>1. a \in Anc
      BY <1>1
    <3>2. g[N] \cap Anc # {} /\ N \in 0 .. N
      BY <2>0, <2>1, <3>1
    <3> HIDE DEF N
    <3> QED BY <3>2
  <2>3. PICK n \in T : \A m \in T : n <= m
    <3>1. T \subseteq Nat
      BY <2>0
    <3> HIDE DEF T
    <3> QED BY <2>2, <3>1, Least
  <2>4. n # 0
    BY <2>0, <2>1
  <2>5. n - 1 \in 0 .. N /\ g[n - 1] \subseteq Addresses /\ g[n - 1] \cap Anc = {}
    BY <2>0, <2>3, <2>4
  <2>6. g[n] = Along(g[n - 1])
    BY <2>0, <2>1, <2>3, <2>4
  <2>7. g[n] \subseteq Addresses /\ g[n] \cap Anc = {}
    BY <1>1, <2>5, <2>6 DEF Along
  <2> QED BY <2>3, <2>7
<1>4. \A b \in Addresses : With(a, R)[b] = IF b = a THEN alias[b] \cup R ELSE alias[b]
  BY DEF With
<1>5. Anc \in (SUBSET Addresses) \ {{}}
  BY <1>1
<1> HIDE DEF Anc
<1>6. \A b \in Anc : With(a, R)[b] \cap Anc # {}
  BY <1>2, <1>3, <1>4, <1>5
<1> QED BY <1>5, <1>6 DEF M!Acyclic

Good == {c \in M!Commands : /\ c.do \in {"aliasAdd", "aliasDel"} => c.to \in Addresses
                            /\ c.do \in {"set", "clear"} => c.to \in Kinds}
Asked ==
  [at : {"running", "refused", "failed", "done"}, op : M!Ops,
   a : Addresses \cup (SUBSET Addresses), want : (SUBSET Addresses) \cup (SUBSET M!Commands),
   todo : Seq(Good), bad : SUBSET Addresses]

\* The commands that are left, and the recipients they add and take
Left(x) == {x.todo[i] : i \in 1 .. Len(x.todo)}
Adds(x) == {b \in Addresses : \E c \in Left(x) : c.do = "aliasAdd" /\ c.to = b}
Dels(x) == {b \in Addresses : \E c \in Left(x) : c.do = "aliasDel" /\ c.to = b}

\* What kind of commands a request has, and in which order
Shaped(x) ==
  CASE x.op = "create" ->
         x.a \in Addresses /\ x.want \in SUBSET Addresses /\ \A c \in Left(x) : c.do = "aliasAdd" /\ c.a = x.a
    [] x.op = "update" ->
         /\ x.a \in Addresses /\ x.want \in SUBSET Addresses /\ x.want # {}
         /\ \A c \in Left(x) : c.do \in {"aliasAdd", "aliasDel"} /\ c.a = x.a
         /\ \A i, j \in 1 .. Len(x.todo) : i < j /\ x.todo[j].do = "aliasAdd" => x.todo[i].do = "aliasAdd"
         /\ Dels(x) \cap x.want = {}
    [] x.op = "remove" -> x.a \in Addresses /\ \A c \in Left(x) : c.do = "aliasDel" /\ c.a = x.a
    [] x.op = "boxCreate" -> x.a \in Addresses /\ \A c \in Left(x) : c.do = "boxAdd" /\ c.a = x.a
    [] x.op = "boxDelete" -> x.a \in Addresses /\ \A c \in Left(x) : c.do = "boxDel" /\ c.a = x.a
    [] OTHER ->
         /\ Left(x) \subseteq x.want
         /\ \E k \in Kinds, do \in {"set", "clear"} : \A c \in x.want : c \in Good /\ c.to = k /\ c.do = do

\* How far a request has come that no other has overlapped
Come(x, bx, al, mk) ==
  CASE x.op = "create" -> x.want \subseteq al[x.a] \cup Adds(x)
    [] x.op = "update" -> al[x.a] # {} /\ x.want = (al[x.a] \cup Adds(x)) \ Dels(x)
    [] x.op = "remove" -> al[x.a] \subseteq Dels(x)
    [] x.op = "boxCreate" -> Left(x) = {} => x.a \in bx
    [] x.op = "boxDelete" -> Left(x) = {} => x.a \notin bx /\ \A b \in Addresses : x.a \notin al[b]
    [] OTHER -> \A c \in x.want : c \in Left(x) \/ c.a \in x.bad \/ ((c.a \in mk[c.to]) <=> (c.do = "set"))

\* What the aliases come to when all that is left to add is added
Potential(x, al) ==
  [b \in Addresses |-> IF x.op \in {"create", "update"} /\ b = x.a THEN al[b] \cup Adds(x) ELSE al[b]]

Files(bx, al, mk) ==
  bx \subseteq Addresses /\ al \in [Addresses -> SUBSET Addresses] /\ mk \in [Kinds -> SUBSET Addresses]

\* Taking recipients away closes no loop.
LEMMA Fewer ==
  ASSUME NEW f, NEW g, M!Acyclic(f), \A b \in Addresses : g[b] \subseteq f[b]
  PROVE  M!Acyclic(g)
<1> SUFFICES ASSUME NEW V \in (SUBSET Addresses) \ {{}}
             PROVE  \E b \in V : g[b] \cap V = {}
  BY DEF M!Acyclic
<1>1. PICK b \in V : f[b] \cap V = {}
  BY DEF M!Acyclic
<1> QED BY <1>1

\* The next command, and those after it
LEMMA NextCommand ==
  ASSUME NEW x \in Asked, x.todo # <<>>
  PROVE  LET c == Head(x.todo)
             y == [x EXCEPT !.todo = Tail(@)]
         IN /\ c \in Good /\ y \in Asked
            /\ y.at = x.at /\ y.op = x.op /\ y.a = x.a /\ y.want = x.want /\ y.bad = x.bad
            /\ Left(x) = Left(y) \cup {c}
            /\ Shaped(x) => Shaped(y)
            /\ Shaped(x) /\ x.op = "update" /\ c.do = "aliasDel" => Adds(x) = {}
<1> DEFINE c == Head(x.todo)
           y == [x EXCEPT !.todo = Tail(@)]
<1>1. /\ x.todo \in Seq(Good) /\ Len(x.todo) \in Nat /\ Len(x.todo) # 0 /\ c = x.todo[1] /\ c \in Good
      /\ Tail(x.todo) \in Seq(Good) /\ Len(Tail(x.todo)) = Len(x.todo) - 1
      /\ \A i \in 1 .. Len(Tail(x.todo)) : Tail(x.todo)[i] = x.todo[i + 1]
  <2>1. x.todo \in Seq(Good)
    BY DEF Asked
  <2> QED BY <2>1, HeadTailProperties, EmptySeq
<1>2. /\ y \in Asked /\ y.todo = Tail(x.todo)
      /\ y.at = x.at /\ y.op = x.op /\ y.a = x.a /\ y.want = x.want /\ y.bad = x.bad
  BY <1>1 DEF Asked
<1> HIDE DEF c, y
<1>3. Left(x) = Left(y) \cup {c}
  <2>1. ASSUME NEW i \in 1 .. Len(x.todo) PROVE x.todo[i] \in Left(y) \cup {c}
    <3>1. CASE i = 1
      BY <1>1, <3>1
    <3>2. CASE i # 1
      <4>1. i - 1 \in 1 .. Len(y.todo) /\ y.todo[i - 1] = x.todo[i]
        BY <1>1, <1>2, <3>2
      <4> QED BY <4>1 DEF Left
    <3> QED BY <3>1, <3>2
  <2>2. ASSUME NEW i \in 1 .. Len(y.todo) PROVE y.todo[i] \in Left(x)
    <3>1. i + 1 \in 1 .. Len(x.todo) /\ y.todo[i] = x.todo[i + 1]
      BY <1>1, <1>2
    <3> QED BY <3>1 DEF Left
  <2>3. c \in Left(x)
    BY <1>1 DEF Left
  <2> QED BY <2>1, <2>2, <2>3 DEF Left
<1>4. Adds(y) \subseteq Adds(x) /\ Dels(y) \subseteq Dels(x)
  BY <1>3 DEF Adds, Dels
<1>5. ASSUME Shaped(x), x.op = "update"
      PROVE  \A i, j \in 1 .. Len(y.todo) : i < j /\ y.todo[j].do = "aliasAdd" => y.todo[i].do = "aliasAdd"
  <2> SUFFICES ASSUME NEW i \in 1 .. Len(y.todo), NEW j \in 1 .. Len(y.todo), i < j, y.todo[j].do = "aliasAdd"
               PROVE  y.todo[i].do = "aliasAdd"
    OBVIOUS
  <2>1. /\ i + 1 \in 1 .. Len(x.todo) /\ j + 1 \in 1 .. Len(x.todo) /\ i + 1 < j + 1
        /\ y.todo[i] = x.todo[i + 1] /\ y.todo[j] = x.todo[j + 1]
    BY <1>1, <1>2
  <2>2. \A k, l \in 1 .. Len(x.todo) : k < l /\ x.todo[l].do = "aliasAdd" => x.todo[k].do = "aliasAdd"
    BY <1>5 DEF Shaped
  <2> QED BY <2>1, <2>2
<1>6. Shaped(x) => Shaped(y)
  <2> SUFFICES ASSUME Shaped(x) PROVE Shaped(y)
    OBVIOUS
  <2>1. CASE x.op = "update"
    BY <1>2, <1>3, <1>4, <1>5, <2>1 DEF Shaped
  <2>2. CASE x.op # "update"
    BY <1>2, <1>3, <2>2 DEF Shaped
  <2> QED BY <2>1, <2>2
<1>7. ASSUME Shaped(x), x.op = "update", c.do = "aliasDel" PROVE Adds(x) = {}
  <2> SUFFICES ASSUME NEW i \in 1 .. Len(x.todo), x.todo[i].do = "aliasAdd" PROVE FALSE
    BY DEF Adds, Left
  <2>1. i # 1 /\ 1 < i /\ 1 \in 1 .. Len(x.todo)
    BY <1>1, <1>7
  <2>2. \A k, l \in 1 .. Len(x.todo) : k < l /\ x.todo[l].do = "aliasAdd" => x.todo[k].do = "aliasAdd"
    BY <1>7 DEF Shaped
  <2> QED BY <1>1, <1>7, <2>1, <2>2
<1> QED BY <1>1, <1>2, <1>3, <1>6, <1>7 DEF c, y

\* What one command does, command by command
LEMMA EffectIs ==
  ASSUME Files(boxes, alias, marks), NEW c \in Good, M!Effect(c)
  PROVE  /\ Files(boxes', alias', marks')
         /\ c.do # "boxAdd" /\ c.do # "boxDel" => boxes' = boxes
         /\ c.do = "boxAdd" => boxes' = boxes \cup {c.a}
         /\ c.do = "boxDel" => boxes' = boxes \ {c.a} /\ \A b \in Addresses : alias'[b] = alias[b] \ {c.a}
         /\ c.do = "aliasAdd" => \A b \in Addresses : alias'[b] = IF b = c.a THEN alias[b] \cup {c.to} ELSE alias[b]
         /\ c.do = "aliasDel" => \A b \in Addresses : alias'[b] = IF b = c.a THEN alias[b] \ {c.to} ELSE alias[b]
         /\ c.do \in {"boxAdd", "set", "clear"} => alias' = alias
         /\ c.do = "set" => \A k \in Kinds : marks'[k] = IF k = c.to THEN marks[k] \cup {c.a} ELSE marks[k]
         /\ c.do = "clear" => \A k \in Kinds : marks'[k] = IF k = c.to THEN marks[k] \ {c.a} ELSE marks[k]
<1>0. c.a \in Addresses /\ c.do \in {"aliasAdd", "aliasDel", "boxAdd", "boxDel", "set", "clear"}
      /\ (c.do \in {"aliasAdd", "aliasDel"} => c.to \in Addresses) /\ (c.do \in {"set", "clear"} => c.to \in Kinds)
  BY DEF Good, M!Commands
<1>1. CASE c.do = "aliasAdd"
  BY <1>0, <1>1 DEF M!Effect, Files
<1>2. CASE c.do = "aliasDel"
  BY <1>0, <1>2 DEF M!Effect, Files
<1>3. CASE c.do = "boxAdd"
  BY <1>0, <1>3 DEF M!Effect, Files
<1>4. CASE c.do = "boxDel"
  BY <1>0, <1>4 DEF M!Effect, Files
<1>5. CASE c.do = "set"
  BY <1>0, <1>5 DEF M!Effect, Files
<1>6. CASE c.do = "clear"
  BY <1>0, <1>6 DEF M!Effect, Files
<1> QED BY <1>0, <1>1, <1>2, <1>3, <1>4, <1>5, <1>6

-----------------------------------------------------------------------------
\* The first command of x, which y has left behind, takes effect.
Done(x, y) ==
  /\ x \in Asked /\ x.todo # <<>> /\ y \in Asked /\ Shaped(x) /\ Shaped(y)
  /\ y.op = x.op /\ y.a = x.a /\ y.want = x.want /\ x.bad \subseteq y.bad
  /\ Head(x.todo) \in Good /\ Left(x) = Left(y) \cup {Head(x.todo)}
  /\ x.op = "update" /\ Head(x.todo).do = "aliasDel" => Adds(x) = {}
  /\ Files(boxes, alias, marks) /\ M!Effect(Head(x.todo))

\* An alias request comes closer to what was asked ...
LEMMA AliasComes ==
  ASSUME NEW x, NEW y, Done(x, y), Come(x, boxes, alias, marks), x.op \in {"create", "update", "remove"}
  PROVE  Come(y, boxes', alias', marks')
<1> DEFINE c == Head(x.todo)
<1>1. /\ c \in Good /\ c \in Left(x) /\ Left(x) = Left(y) \cup {c} /\ x.a \in Addresses
      /\ x \in Asked /\ y.op = x.op /\ y.a = x.a /\ y.want = x.want /\ Files(boxes', alias', marks')
      /\ c.do = "aliasAdd" => \A b \in Addresses : alias'[b] = IF b = c.a THEN alias[b] \cup {c.to} ELSE alias[b]
      /\ c.do = "aliasDel" => \A b \in Addresses : alias'[b] = IF b = c.a THEN alias[b] \ {c.to} ELSE alias[b]
  BY EffectIs DEF Done, Shaped
<1>2. c.do \in {"aliasAdd", "aliasDel"} => c.to \in Addresses
  BY <1>1 DEF Good
<1>3. c.do = "aliasAdd" => Adds(x) = Adds(y) \cup {c.to} /\ Dels(x) = Dels(y)
  <2> HIDE DEF c
  <2>1. SUFFICES ASSUME c.do = "aliasAdd" PROVE Adds(x) = Adds(y) \cup {c.to} /\ Dels(x) = Dels(y)
    OBVIOUS
  <2> QED BY <1>1, <1>2, <2>1 DEF Adds, Dels
<1>4. c.do = "aliasDel" => Dels(x) = Dels(y) \cup {c.to} /\ Adds(x) = Adds(y)
  <2> HIDE DEF c
  <2>1. SUFFICES ASSUME c.do = "aliasDel" PROVE Dels(x) = Dels(y) \cup {c.to} /\ Adds(x) = Adds(y)
    OBVIOUS
  <2> QED BY <1>1, <1>2, <2>1 DEF Adds, Dels
<1>5. CASE x.op = "create"
  <2>1. c.do = "aliasAdd" /\ c.a = x.a
    BY <1>1, <1>5 DEF Done, Shaped
  <2> HIDE DEF c
  <2> QED BY <1>1, <1>3, <1>5, <2>1 DEF Come
<1>6. CASE x.op = "update"
  <2>1. c.do \in {"aliasAdd", "aliasDel"} /\ c.a = x.a /\ x.want # {} /\ (c.do = "aliasDel" => Adds(x) = {})
    BY <1>1, <1>6 DEF Done, Shaped
  <2>2. alias[x.a] # {} /\ x.want = (alias[x.a] \cup Adds(x)) \ Dels(x)
    BY <1>6 DEF Come
  <2> HIDE DEF c
  <2>3. CASE c.do = "aliasAdd"
    <3>1. alias'[x.a] = alias[x.a] \cup {c.to} /\ Adds(x) = Adds(y) \cup {c.to} /\ Dels(x) = Dels(y)
      BY <1>1, <1>3, <2>1, <2>3
    <3>2. alias'[x.a] # {} /\ x.want = (alias'[x.a] \cup Adds(y)) \ Dels(y)
      BY <2>2, <3>1
    <3> QED BY <1>1, <1>6, <3>2 DEF Come
  <2>4. CASE c.do = "aliasDel"
    <3>1. alias'[x.a] = alias[x.a] \ {c.to} /\ Adds(x) = {} /\ Adds(y) = {} /\ Dels(x) = Dels(y) \cup {c.to}
      BY <1>1, <1>4, <2>1, <2>4
    <3>2. x.want = (alias'[x.a] \cup Adds(y)) \ Dels(y)
      BY <2>2, <3>1
    <3>3. alias'[x.a] # {}
      BY <2>1, <3>1, <3>2
    <3> QED BY <1>1, <1>6, <3>2, <3>3 DEF Come
  <2> QED BY <2>1, <2>3, <2>4
<1>7. CASE x.op = "remove"
  <2>1. c.do = "aliasDel" /\ c.a = x.a
    BY <1>1, <1>7 DEF Done, Shaped
  <2> HIDE DEF c
  <2> QED BY <1>1, <1>4, <1>7, <2>1 DEF Come
<1> QED BY <1>5, <1>6, <1>7

\* ... a mailbox request too ...
LEMMA BoxComes ==
  ASSUME NEW x, NEW y, Done(x, y), Come(x, boxes, alias, marks), x.op \in {"boxCreate", "boxDelete"}
  PROVE  Come(y, boxes', alias', marks')
<1> DEFINE c == Head(x.todo)
<1>1. /\ c \in Good /\ c \in Left(x) /\ y.op = x.op /\ y.a = x.a /\ x.a \in Addresses
      /\ c.do = "boxAdd" => boxes' = boxes \cup {c.a}
      /\ c.do = "boxDel" => boxes' = boxes \ {c.a} /\ \A b \in Addresses : alias'[b] = alias[b] \ {c.a}
  BY EffectIs DEF Done, Shaped
<1>2. CASE x.op = "boxCreate"
  <2>1. c.do = "boxAdd" /\ c.a = x.a
    BY <1>1, <1>2 DEF Done, Shaped
  <2> HIDE DEF c
  <2> QED BY <1>1, <1>2, <2>1 DEF Come
<1>3. CASE x.op = "boxDelete"
  <2>1. c.do = "boxDel" /\ c.a = x.a
    BY <1>1, <1>3 DEF Done, Shaped
  <2> HIDE DEF c
  <2> QED BY <1>1, <1>3, <2>1 DEF Come
<1> QED BY <1>2, <1>3

\* ... and one that sets or clears marks, whether the command is noted as bad or not.
LEMMA MarkComes ==
  ASSUME NEW x, NEW y, Done(x, y), Come(x, boxes, alias, marks), x.op \in {"mark", "bulk"}
  PROVE  Come(y, boxes', alias', marks')
<1> DEFINE c == Head(x.todo)
<1>1. /\ c \in Good /\ c \in Left(x) /\ Left(x) = Left(y) \cup {c} /\ y.op = x.op /\ y.want = x.want
      /\ x.bad \subseteq y.bad /\ Left(x) \subseteq x.want
      /\ c.do = "set" => \A k \in Kinds : marks'[k] = IF k = c.to THEN marks[k] \cup {c.a} ELSE marks[k]
      /\ c.do = "clear" => \A k \in Kinds : marks'[k] = IF k = c.to THEN marks[k] \ {c.a} ELSE marks[k]
  BY EffectIs DEF Done, Shaped
<1>2. PICK k \in Kinds, do \in {"set", "clear"} : \A d \in x.want : d \in Good /\ d.to = k /\ d.do = do
  BY DEF Done, Shaped
<1>3. c.to = k /\ c.do = do
  BY <1>1, <1>2
<1>4. \A d \in x.want : d \in Left(x) \/ d.a \in x.bad \/ ((d.a \in marks[k]) <=> (do = "set"))
  BY <1>2 DEF Come
<1> HIDE DEF c
<1>5. ASSUME NEW d \in x.want
      PROVE  d \in Left(y) \/ d.a \in y.bad \/ ((d.a \in marks'[d.to]) <=> (d.do = "set"))
  <2>1. d.to = k /\ d.do = do
    BY <1>2
  <2>2. CASE d = c
    <3>1. d.a \in marks'[k] <=> (do = "set")
      BY <1>1, <1>2, <1>3, <2>2
    <3> QED BY <2>1, <3>1
  <2>3. CASE d # c
    <3>1. d \in Left(y) \/ d.a \in y.bad \/ ((d.a \in marks[k]) <=> (do = "set"))
      BY <1>1, <1>4, <2>3
    <3>2. (d.a \in marks[k]) <=> (do = "set") => ((d.a \in marks'[k]) <=> (do = "set"))
      <4>1. CASE do = "set"
        BY <1>1, <1>3, <4>1
      <4>2. CASE do = "clear"
        BY <1>1, <1>3, <4>2
      <4> QED BY <1>2, <4>1, <4>2
    <3> QED BY <2>1, <3>1, <3>2
  <2> QED BY <2>2, <2>3
<1> QED BY <1>1, <1>5 DEF Come

\* A command done brings every request closer to what was asked.
LEMMA Comes ==
  ASSUME NEW x, NEW y, Done(x, y), Come(x, boxes, alias, marks)
  PROVE  Come(y, boxes', alias', marks')
<1>1. x.op \in M!Ops
  BY DEF Done, Asked
<1> QED BY <1>1, AliasComes, BoxComes, MarkComes DEF M!Ops

\* A command adds no recipient that its request was not to add.
LEMMA WithinPotential ==
  ASSUME NEW x, NEW y, Done(x, y)
  PROVE  \A b \in Addresses : /\ alias'[b] \subseteq Potential(x, alias)[b]
                              /\ Potential(y, alias')[b] \subseteq Potential(x, alias)[b]
<1> DEFINE c == Head(x.todo)
<1>1. /\ c \in Good /\ c \in Left(x) /\ Left(x) = Left(y) \cup {c}
      /\ y.op = x.op /\ y.a = x.a /\ x.op \in M!Ops
      /\ c.do = "boxDel" => \A b \in Addresses : alias'[b] = alias[b] \ {c.a}
      /\ c.do = "aliasAdd" => \A b \in Addresses : alias'[b] = IF b = c.a THEN alias[b] \cup {c.to} ELSE alias[b]
      /\ c.do = "aliasDel" => \A b \in Addresses : alias'[b] = IF b = c.a THEN alias[b] \ {c.to} ELSE alias[b]
      /\ c.do \in {"boxAdd", "set", "clear"} => alias' = alias
      /\ c.do \in {"aliasAdd", "aliasDel", "boxAdd", "boxDel", "set", "clear"}
  <2>1. /\ c \in Good /\ c \in Left(x) /\ Left(x) = Left(y) \cup {c}
        /\ y.op = x.op /\ y.a = x.a /\ x.op \in M!Ops /\ Files(boxes, alias, marks) /\ M!Effect(c)
    BY DEF Done, Asked
  <2>2. c.do \in {"aliasAdd", "aliasDel", "boxAdd", "boxDel", "set", "clear"}
    BY <2>1 DEF Good, M!Commands
  <2> QED BY <2>1, <2>2, EffectIs
<1>2. c.do = "aliasAdd" => x.op \in {"create", "update"} /\ c.a = x.a /\ c.to \in Adds(x)
  <2>1. SUFFICES ASSUME c.do = "aliasAdd" PROVE x.op \in {"create", "update"} /\ c.a = x.a /\ c.to \in Adds(x)
    OBVIOUS
  <2>2. c.to \in Addresses
    BY <1>1, <2>1 DEF Good
  <2>3. x.op \in {"create", "update"} /\ c.a = x.a
    <3>1. x.op \notin {"remove", "boxCreate", "boxDelete"}
      BY <1>1, <2>1 DEF Done, Shaped
    <3>2. x.op \notin {"mark", "bulk"}
      <4> SUFFICES ASSUME x.op \in {"mark", "bulk"} PROVE FALSE
        OBVIOUS
      <4>1. PICK k \in Kinds, do \in {"set", "clear"} : \A d \in x.want : d \in Good /\ d.to = k /\ d.do = do
        BY DEF Done, Shaped
      <4>2. c \in x.want
        BY <1>1 DEF Done, Shaped
      <4> QED BY <2>1, <4>1, <4>2
    <3>3. x.op \in {"create", "update"}
      BY <1>1, <3>1, <3>2 DEF M!Ops
    <3> QED BY <1>1, <3>3 DEF Done, Shaped
  <2> HIDE DEF c
  <2> QED BY <1>1, <2>1, <2>2, <2>3 DEF Adds
<1> HIDE DEF c
<1>3. Adds(y) \subseteq Adds(x)
  BY <1>1 DEF Adds
<1>4. ASSUME NEW b \in Addresses PROVE alias'[b] \subseteq Potential(x, alias)[b]
  BY <1>1, <1>2, <1>4 DEF Potential
<1>5. ASSUME NEW b \in Addresses PROVE Potential(y, alias')[b] \subseteq Potential(x, alias)[b]
  <2>1. Potential(y, alias')[b] =
          IF x.op \in {"create", "update"} /\ b = x.a THEN alias'[b] \cup Adds(y) ELSE alias'[b]
    BY <1>1 DEF Potential
  <2> QED BY <1>3, <1>4, <2>1 DEF Potential
<1> QED BY <1>4, <1>5

\* A request that no other has overlapped, at each point of its way
OnItsWay(x, bx, al, mk) ==
  /\ x.at \in {"running", "done"} => Come(x, bx, al, mk)
  /\ x.at = "done" => x.todo = <<>>
  /\ x.op = "update" => al[x.a] # {}
  /\ x.at = "refused" => x.op \in {"create", "update"} /\ ~M!Acyclic([al EXCEPT ![x.a] = @ \cup x.want])

Resting(x) == x \in {M!Unused, M!Answered}

\* A request, and the one of them that no other has overlapped
Ready(x) == Resting(x) \/ (x \in Asked /\ Shaped(x))
Lone(chg, r, bx, al, mk) ==
  /\ ~Resting(chg[r]) /\ OnItsWay(chg[r], bx, al, mk)
  /\ \A s \in Changers : chg[s].at = "running" => s = r

\* Requests that have never overlapped: at most one runs, and all it will add
\* to the aliases closes no loop.
Apart(chg, al) ==
  /\ M!Acyclic(al)
  /\ \A r, s \in Changers : chg[r].at = "running" /\ chg[s].at = "running" => r = s
  /\ \A r \in Changers : chg[r].at = "running" => M!Acyclic(Potential(chg[r], al))

MailInv ==
  /\ Files(boxes, alias, marks)
  /\ mixed \in BOOLEAN /\ alone \subseteq Changers
  /\ DOMAIN changing = Changers
  /\ \A r \in Changers : Ready(changing[r])
  /\ \A r \in alone : Lone(changing, r, boxes, alias, marks)
  /\ ~mixed => Apart(changing, alias)

\* A request that is not under way does not run.
LEMMA RestingIsNotRunning == M!Unused.at # "running" /\ M!Answered.at # "running"
BY DEF M!Unused, M!Answered

\* A request that was asked is none that is not under way.
LEMMA AskedIsNotResting == \A x \in Asked : ~Resting(x)
BY DEF Asked, Resting, M!Unused, M!Answered

\* A request begins, and those that are over are forgotten.
LEMMA MailBegins ==
  ASSUME MailInv, NEW r \in Changers, NEW x, M!Begin(r, x), x \in Asked, Shaped(x),
         x.at \in {"running", "refused"}, OnItsWay(x, boxes, alias, marks),
         x.at = "running" /\ M!Acyclic(alias) => M!Acyclic(Potential(x, alias))
  PROVE  MailInv'
<1> DEFINE Run(s) == changing[s].at = "running"
<1>1. /\ DOMAIN changing = Changers /\ \A s \in Changers : Ready(changing[s])
      /\ mixed \in BOOLEAN /\ Files(boxes, alias, marks)
  BY DEF MailInv
<1>2. /\ boxes' = boxes /\ alias' = alias /\ marks' = marks
      /\ changing' = [s \in Changers |-> IF s = r THEN x ELSE IF Run(s) \/ s > r THEN changing[s] ELSE M!Answered]
      /\ mixed' = (mixed \/ \E s \in Changers : Run(s))
      /\ alone' = IF \E s \in Changers : Run(s) THEN {} ELSE {r}
  BY DEF M!Begin, M!Open, M!files
<1>3. /\ changing'[r] = x
      /\ \A s \in Changers : s # r => changing'[s] \in {changing[s], M!Answered}
      /\ \A s \in Changers : s # r /\ changing'[s].at = "running" => Run(s) /\ changing'[s] = changing[s]
  <2>1. \A s \in Changers : changing'[s] = IF s = r THEN x ELSE IF Run(s) \/ s > r THEN changing[s] ELSE M!Answered
    BY <1>2
  <2> QED BY <2>1, RestingIsNotRunning
<1> HIDE DEF Run
<1>4. \A s \in Changers : Ready(changing'[s])
  BY <1>1, <1>3 DEF Ready, Resting
<1>5. ASSUME NEW s \in alone' PROVE Lone(changing', s, boxes', alias', marks')
  <2>1. s = r /\ \A t \in Changers : ~Run(t)
    BY <1>2
  <2>2. ~Resting(x)
    BY AskedIsNotResting
  <2> QED BY <1>2, <1>3, <2>1, <2>2 DEF Lone
<1>6. ASSUME ~mixed' PROVE Apart(changing', alias')
  <2>1. ~mixed /\ \A t \in Changers : ~Run(t)
    BY <1>1, <1>2, <1>6
  <2>2. M!Acyclic(alias)
    BY <2>1 DEF MailInv, Apart
  <2> QED BY <1>2, <1>3, <2>1, <2>2 DEF Apart
<1>7. mixed' \in BOOLEAN /\ alone' \subseteq Changers /\ DOMAIN changing' = Changers
  BY <1>1, <1>2
<1> QED BY <1>1, <1>2, <1>4, <1>5, <1>6, <1>7 DEF MailInv

\* A request goes on: the files may change as its next command changes them.
LEMMA MailGoesOn ==
  ASSUME MailInv, NEW r \in Changers, changing[r] \in Asked, changing[r].at = "running", NEW y,
         y \in Asked, Shaped(y), changing' = [changing EXCEPT ![r] = y],
         Files(boxes', alias', marks'), mixed' = mixed, alone' = alone,
         Come(changing[r], boxes, alias, marks) /\ OnItsWay(changing[r], boxes, alias, marks)
           => OnItsWay(y, boxes', alias', marks'),
         \A b \in Addresses : alias'[b] \subseteq Potential(changing[r], alias)[b],
         y.at = "running" => \A b \in Addresses : Potential(y, alias')[b] \subseteq Potential(changing[r], alias)[b]
  PROVE  MailInv'
<1>1. /\ DOMAIN changing = Changers /\ \A s \in Changers : Ready(changing[s])
      /\ mixed \in BOOLEAN /\ alone \subseteq Changers
  BY DEF MailInv
<1>2. changing'[r] = y /\ DOMAIN changing' = Changers /\ \A s \in Changers : s # r => changing'[s] = changing[s]
  BY <1>1
<1>3. \A s \in Changers : Ready(changing'[s])
  BY <1>1, <1>2 DEF Ready
<1>4. ASSUME NEW s \in alone PROVE Lone(changing', s, boxes', alias', marks')
  <2>1. Lone(changing, s, boxes, alias, marks)
    BY DEF MailInv
  <2>2. s = r
    BY <2>1 DEF Lone
  <2>3. Come(changing[r], boxes, alias, marks) /\ OnItsWay(changing[r], boxes, alias, marks)
    BY <2>1, <2>2 DEF Lone, OnItsWay
  <2>4. OnItsWay(y, boxes', alias', marks') /\ ~Resting(y)
    BY <2>3, AskedIsNotResting
  <2> QED BY <1>2, <2>1, <2>2, <2>4 DEF Lone
<1>5. ASSUME ~mixed PROVE Apart(changing', alias')
  <2>1. Apart(changing, alias)
    BY <1>5 DEF MailInv
  <2>2. M!Acyclic(Potential(changing[r], alias)) /\ \A s \in Changers : changing[s].at = "running" => s = r
    BY <2>1 DEF Apart
  <2>3. M!Acyclic(alias')
    BY <2>2, Fewer
  <2>4. y.at = "running" => M!Acyclic(Potential(y, alias'))
    BY <2>2, Fewer
  <2> QED BY <1>2, <2>2, <2>3, <2>4 DEF Apart
<1> QED BY <1>1, <1>2, <1>3, <1>4, <1>5 DEF MailInv

\* A running request has been asked.
LEMMA RunningIsAsked ==
  ASSUME MailInv, NEW r \in Changers, M!Open(r)
  PROVE  changing[r] \in Asked /\ Shaped(changing[r]) /\ changing[r].at = "running"
<1>1. changing[r].at = "running" /\ Ready(changing[r])
  BY DEF MailInv, M!Open
<1> QED BY <1>1, RestingIsNotRunning DEF Ready, Resting

\* What the aliases come to is at least what they are.
LEMMA PotentialIsMore ==
  ASSUME NEW x, NEW al PROVE \A b \in Addresses : al[b] \subseteq Potential(x, al)[b]
BY DEF Potential

\* The first command of a running request, for the request without it
LEMMA DoneOf ==
  ASSUME MailInv, NEW r \in Changers, M!Open(r), changing[r].todo # <<>>,
         M!Effect(Head(changing[r].todo)), NEW y \in Asked, y.todo = Tail(changing[r].todo),
         y.op = changing[r].op, y.a = changing[r].a, y.want = changing[r].want, changing[r].bad \subseteq y.bad
  PROVE  Done(changing[r], y)
<1> DEFINE x == changing[r]
           z == [x EXCEPT !.todo = Tail(@)]
<1>1. x \in Asked /\ Shaped(x) /\ Files(boxes, alias, marks)
  BY RunningIsAsked DEF MailInv
<1>2. /\ Head(x.todo) \in Good /\ Left(x) = Left(z) \cup {Head(x.todo)} /\ Shaped(z)
      /\ x.op = "update" /\ Head(x.todo).do = "aliasDel" => Adds(x) = {}
      /\ z.op = x.op /\ z.a = x.a /\ z.want = x.want
  BY <1>1, NextCommand
<1>3. z.todo = Tail(x.todo)
  BY <1>1 DEF Asked
<1> HIDE DEF z
<1>4. Left(y) = Left(z) /\ Adds(y) = Adds(z) /\ Dels(y) = Dels(z)
  BY <1>3 DEF Left, Adds, Dels
<1>5. Shaped(y)
  <2>1. CASE x.op = "update"
    BY <1>2, <1>3, <1>4, <2>1 DEF Shaped
  <2>2. CASE x.op # "update"
    BY <1>2, <1>3, <1>4, <2>2 DEF Shaped
  <2> QED BY <2>1, <2>2
<1> QED BY <1>1, <1>2, <1>4, <1>5 DEF Done

\* A command succeeds.
LEMMA MailSucceeds ==
  ASSUME MailInv, NEW r \in Changers, M!Succeed(r)
  PROVE  MailInv'
<1> DEFINE x == changing[r]
           y == [x EXCEPT !.todo = Tail(@)]
<1>1. /\ M!Open(r) /\ x.todo # <<>> /\ M!Effect(Head(x.todo)) /\ mixed' = mixed /\ alone' = alone
      /\ changing' = [changing EXCEPT ![r] = y]
  BY DEF M!Succeed
<1>2. x \in Asked /\ Shaped(x) /\ x.at = "running" /\ Files(boxes, alias, marks)
  BY <1>1, RunningIsAsked DEF MailInv
<1>3. y \in Asked /\ y.at = x.at /\ y.op = x.op /\ y.a = x.a /\ y.want = x.want /\ y.bad = x.bad
  BY <1>1, <1>2, NextCommand
<1>4. y.todo = Tail(x.todo)
  BY <1>2 DEF Asked
<1> HIDE DEF y
<1>5. Done(x, y)
  BY <1>1, <1>3, <1>4, DoneOf
<1>6. Files(boxes', alias', marks') /\ Shaped(y)
  BY <1>5, EffectIs DEF Done
<1>7. ASSUME Come(x, boxes, alias, marks) PROVE OnItsWay(y, boxes', alias', marks')
  <2>1. Come(y, boxes', alias', marks')
    BY <1>5, <1>7, Comes
  <2>2. y.op = "update" => alias'[y.a] # {}
    BY <2>1 DEF Come
  <2> QED BY <1>2, <1>3, <2>1, <2>2 DEF OnItsWay
<1>8. \A b \in Addresses : alias'[b] \subseteq Potential(x, alias)[b] /\ Potential(y, alias')[b] \subseteq Potential(x, alias)[b]
  BY <1>5, WithinPotential
<1> HIDE DEF x
<1>9. QED BY <1>1, <1>2, <1>3, <1>6, <1>7, <1>8, MailGoesOn DEF x

\* A command fails, before its effect or after: the request ends, or notes it
\* and goes on (bulkRestrict, bulkQuota).
LEMMA MailFails ==
  ASSUME MailInv, NEW r \in Changers, M!Fail(r)
  PROVE  MailInv'
<1> DEFINE x == changing[r]
           c == Head(x.todo)
           z == [x EXCEPT !.todo = Tail(@)]
           y == M!Failed(x)
           same == boxes' = boxes /\ alias' = alias /\ marks' = marks
<1>1. /\ M!Open(r) /\ x.todo # <<>> /\ mixed' = mixed /\ alone' = alone
      /\ changing' = [changing EXCEPT ![r] = y] /\ (same \/ M!Effect(c))
  BY DEF M!Fail, M!files
<1>2. x \in Asked /\ Shaped(x) /\ x.at = "running" /\ Files(boxes, alias, marks)
  BY <1>1, RunningIsAsked DEF MailInv
<1>3. c \in Good /\ z \in Asked /\ Left(x) = Left(z) \cup {c} /\ Shaped(z)
      /\ z.op = x.op /\ z.a = x.a /\ z.want = x.want /\ z.bad = x.bad /\ z.todo = Tail(x.todo)
  <2>1. z.todo = Tail(x.todo)
    BY <1>2 DEF Asked
  <2> HIDE DEF z
  <2> QED BY <1>1, <1>2, <2>1, NextCommand DEF z
<1>4. c.a \in Addresses
  BY <1>3 DEF Good, M!Commands
<1>5. CASE x.op = "bulk"
  <2>1. /\ y \in Asked /\ y.todo = Tail(x.todo) /\ y.bad = x.bad \cup {c.a}
        /\ y.op = x.op /\ y.a = x.a /\ y.want = x.want /\ y.at = x.at
    <3>1. y = [x EXCEPT !.todo = Tail(@), !.bad = @ \cup {c.a}]
      BY <1>5 DEF M!Failed
    <3>2. Tail(x.todo) \in Seq(Good)
      BY <1>3 DEF Asked
    <3> HIDE DEF z, c, y
    <3> QED BY <1>2, <1>4, <3>1, <3>2 DEF Asked
  <2> HIDE DEF y
  <2>2. Left(y) = Left(z)
    BY <1>3, <2>1 DEF Left
  <2> HIDE DEF z
  <2>3. Shaped(y)
    BY <1>3, <1>5, <2>1, <2>2 DEF Shaped
  <2>4. Potential(y, alias') = [b \in Addresses |-> alias'[b]] /\ Potential(x, alias) = [b \in Addresses |-> alias[b]]
    BY <1>5, <2>1 DEF Potential
  <2>5. CASE same
    <3>1. Come(x, boxes, alias, marks) => Come(y, boxes', alias', marks')
      <4> SUFFICES ASSUME Come(x, boxes, alias, marks) PROVE Come(y, boxes, alias, marks)
        BY <2>5
      <4>1. \A d \in x.want : d \in Left(x) \/ d.a \in x.bad \/ ((d.a \in marks[d.to]) <=> (d.do = "set"))
        BY <1>5 DEF Come
      <4> HIDE DEF c, x
      <4>2. \A d \in y.want : d \in Left(y) \/ d.a \in y.bad \/ ((d.a \in marks[d.to]) <=> (d.do = "set"))
        BY <1>3, <2>1, <2>2, <4>1
      <4> QED BY <1>5, <2>1, <4>2 DEF Come
    <3>2. Come(x, boxes, alias, marks) => OnItsWay(y, boxes', alias', marks')
      BY <1>2, <1>5, <2>1, <3>1 DEF OnItsWay
    <3>3. Files(boxes', alias', marks')
      BY <1>2, <2>5
    <3>4. \A b \in Addresses : alias'[b] \subseteq Potential(x, alias)[b] /\ Potential(y, alias')[b] \subseteq Potential(x, alias)[b]
      BY <2>4, <2>5
    <3> HIDE DEF x, c
    <3> QED BY <1>1, <1>2, <2>1, <2>3, <3>2, <3>3, <3>4, MailGoesOn DEF x
  <2>6. CASE M!Effect(c)
    <3>1. Done(x, y)
      BY <1>1, <2>1, <2>6, DoneOf
    <3>2. Come(x, boxes, alias, marks) => OnItsWay(y, boxes', alias', marks')
      BY <1>2, <1>5, <2>1, <3>1, Comes DEF OnItsWay
    <3>3. Files(boxes', alias', marks')
      BY <3>1, EffectIs DEF Done
    <3>4. \A b \in Addresses : alias'[b] \subseteq Potential(x, alias)[b] /\ Potential(y, alias')[b] \subseteq Potential(x, alias)[b]
      BY <3>1, WithinPotential
    <3> HIDE DEF x, c
    <3> QED BY <1>1, <1>2, <2>1, <2>3, <3>2, <3>3, <3>4, MailGoesOn DEF x
  <2> QED BY <1>1, <2>5, <2>6
<1>6. CASE x.op # "bulk"
  <2>1. /\ y \in Asked /\ y.todo = x.todo /\ y.bad = x.bad
        /\ y.op = x.op /\ y.a = x.a /\ y.want = x.want /\ y.at = "failed"
    <3>1. y = [x EXCEPT !.at = "failed"]
      BY <1>6 DEF M!Failed
    <3> HIDE DEF z, c, y
    <3> QED BY <1>2, <3>1 DEF Asked
  <2> HIDE DEF y
  <2>2. Left(y) = Left(x) /\ Adds(y) = Adds(x) /\ Dels(y) = Dels(x)
    BY <2>1 DEF Left, Adds, Dels
  <2>3. Shaped(y)
    <3>1. CASE x.op = "update"
      BY <1>2, <2>1, <2>2, <3>1 DEF Shaped
    <3>2. CASE x.op # "update"
      BY <1>2, <2>1, <2>2, <3>2 DEF Shaped
    <3> QED BY <3>1, <3>2
  <2>4. CASE same
    <3>1. OnItsWay(x, boxes, alias, marks) => OnItsWay(y, boxes', alias', marks')
      BY <2>1, <2>4 DEF OnItsWay
    <3>2. \A b \in Addresses : alias'[b] \subseteq Potential(x, alias)[b]
      BY <2>4, PotentialIsMore
    <3>3. Files(boxes', alias', marks')
      BY <1>2, <2>4
    <3> HIDE DEF x, c, z
    <3> QED BY <1>1, <1>2, <2>1, <2>3, <3>1, <3>2, <3>3, MailGoesOn DEF x
  <2>5. CASE M!Effect(c)
    <3>1. Done(x, z)
      <4> HIDE DEF z
      <4> QED BY <1>1, <1>3, <2>5, DoneOf
    <3> HIDE DEF z
    <3>2. Come(x, boxes, alias, marks) => OnItsWay(y, boxes', alias', marks')
      <4> SUFFICES ASSUME Come(x, boxes, alias, marks) PROVE OnItsWay(y, boxes', alias', marks')
        OBVIOUS
      <4>1. Come(z, boxes', alias', marks')
        BY <3>1, Comes
      <4>2. z.op = "update" => alias'[z.a] # {}
        BY <4>1 DEF Come
      <4> QED BY <1>3, <2>1, <4>2 DEF OnItsWay
    <3>3. Files(boxes', alias', marks')
      BY <3>1, EffectIs DEF Done
    <3>4. \A b \in Addresses : alias'[b] \subseteq Potential(x, alias)[b]
      BY <3>1, WithinPotential
    <3> HIDE DEF x, c
    <3> QED BY <1>1, <1>2, <2>1, <2>3, <3>2, <3>3, <3>4, MailGoesOn DEF x
  <2> QED BY <1>1, <2>4, <2>5
<1> QED BY <1>5, <1>6

\* The entry is read back, and the request is answered.
LEMMA MailFinishes ==
  ASSUME MailInv, NEW r \in Changers, M!Finish(r)
  PROVE  MailInv'
<1> DEFINE x == changing[r]
           end == IF \/ x.op \in {"create", "update"} /\ alias[x.a] = {}
                     \/ x.op = "boxCreate" /\ x.a \notin boxes
                  THEN "failed" ELSE "done"
           y == [x EXCEPT !.at = end]
<1>1. /\ M!Open(r) /\ x.todo = <<>> /\ mixed' = mixed /\ alone' = alone
      /\ boxes' = boxes /\ alias' = alias /\ marks' = marks
  BY DEF M!Finish, M!files
<1>2. x \in Asked /\ Shaped(x) /\ x.at = "running" /\ Files(boxes, alias, marks)
  BY <1>1, RunningIsAsked DEF MailInv
<1>3. changing' = [changing EXCEPT ![r] = y]
  BY DEF M!Finish
<1> HIDE DEF end
<1>4. end \in {"failed", "done"}
  BY DEF end
<1>5. /\ y \in Asked /\ y.todo = x.todo /\ y.bad = x.bad
      /\ y.op = x.op /\ y.a = x.a /\ y.want = x.want /\ y.at = end
  BY <1>2, <1>4 DEF Asked
<1> HIDE DEF y
<1>6. Left(y) = Left(x) /\ Adds(y) = Adds(x) /\ Dels(y) = Dels(x)
  BY <1>5 DEF Left, Adds, Dels
<1>7. Shaped(y)
  <2>1. CASE x.op = "update"
    BY <1>2, <1>5, <1>6, <2>1 DEF Shaped
  <2>2. CASE x.op # "update"
    BY <1>2, <1>5, <1>6, <2>2 DEF Shaped
  <2> QED BY <2>1, <2>2
<1>8. Come(x, boxes, alias, marks) => Come(y, boxes, alias, marks)
  BY <1>5, <1>6 DEF Come
<1>9. Come(x, boxes, alias, marks) /\ OnItsWay(x, boxes, alias, marks) => OnItsWay(y, boxes', alias', marks')
  BY <1>1, <1>4, <1>5, <1>8 DEF OnItsWay
<1>10. Files(boxes', alias', marks') /\ (\A b \in Addresses : alias'[b] \subseteq Potential(x, alias)[b]) /\ y.at # "running"
  BY <1>1, <1>2, <1>4, <1>5, PotentialIsMore
<1> HIDE DEF x
<1> QED BY <1>1, <1>2, <1>3, <1>5, <1>7, <1>9, <1>10, MailGoesOn DEF x

-----------------------------------------------------------------------------
\* A request for commands
AsAsked(x, op, a, want, todo) ==
  /\ x \in Asked /\ x.at = "running" /\ x.op = op /\ x.a = a /\ x.want = want
  /\ x.todo = todo /\ x.bad = {} /\ Left(x) = {todo[i] : i \in 1 .. Len(todo)}

\* What a request for commands is, field by field
LEMMA RunIsAsked ==
  ASSUME NEW op \in M!Ops, NEW a \in Addresses \cup (SUBSET Addresses),
         NEW want \in (SUBSET Addresses) \cup (SUBSET M!Commands), NEW todo \in Seq(Good)
  PROVE  AsAsked(M!Run(op, a, want, todo), op, a, want, todo)
<1> DEFINE x == M!Run(op, a, want, todo)
<1>1. /\ x \in Asked /\ x.at = "running" /\ x.op = op /\ x.a = a /\ x.want = want
      /\ x.todo = todo /\ x.bad = {}
  BY DEF M!Run, Asked
<1> HIDE DEF x
<1>2. AsAsked(x, op, a, want, todo)
  BY <1>1 DEF Left, AsAsked
<1> QED BY <1>2 DEF x

\* The recipients that commands are about
About(C, a, do, R) == (\A c \in C : c.do = do /\ c.a = a) /\ {b \in Addresses : \E c \in C : c.to = b} = R

\* Of which recipients a set of commands is
LEMMA AboutRecipients ==
  ASSUME NEW a, NEW do, NEW R \in SUBSET Addresses
  PROVE  About({[do |-> do, a |-> a, to |-> b] : b \in R}, a, do, R)
<1> DEFINE C == {[do |-> do, a |-> a, to |-> b] : b \in R}
<1>1. \A c \in C : c.do = do /\ c.a = a /\ c.to \in R
  OBVIOUS
<1>2. ASSUME NEW b \in R PROVE \E c \in C : c.to = b
  <2>1. [do |-> do, a |-> a, to |-> b] \in C
    OBVIOUS
  <2> QED BY <2>1
<1> HIDE DEF C
<1>3. {b \in Addresses : \E c \in C : c.to = b} = R
  BY <1>1, <1>2
<1>4. About(C, a, do, R)
  BY <1>1, <1>3 DEF About
<1> QED BY <1>4 DEF C

\* The values of a function on a finite set
LEMMA FiniteImage ==
  ASSUME NEW K, IsFiniteSet(K), NEW f, DOMAIN f = K
  PROVE  IsFiniteSet({f[k] : k \in K})
<1>1. [k \in K |-> f[k]] \in Surjection(K, {f[k] : k \in K})
  BY DEF Surjection
<1> QED BY <1>1, FS_Surjection

\* The commands for recipients
LEMMA AddIs ==
  ASSUME NEW a \in Addresses, NEW R \in SUBSET Addresses
  PROVE  /\ M!Add(a, R) \in Seq(Good)
         /\ {M!Add(a, R)[i] : i \in 1 .. Len(M!Add(a, R))} = {[do |-> "aliasAdd", a |-> a, to |-> b] : b \in R}
         /\ M!Delete(a, R) \in Seq(Good)
         /\ {M!Delete(a, R)[i] : i \in 1 .. Len(M!Delete(a, R))} = {[do |-> "aliasDel", a |-> a, to |-> b] : b \in R}
<1> DEFINE A == {[do |-> "aliasAdd", a |-> a, to |-> b] : b \in R}
           D == {[do |-> "aliasDel", a |-> a, to |-> b] : b \in R}
<1>1. IsFiniteSet(R)
  BY FiniteAssumption, FS_Subset
<1>2. IsFiniteSet(A) /\ IsFiniteSet(D)
  <2> DEFINE f == [b \in R |-> [do |-> "aliasAdd", a |-> a, to |-> b]]
             g == [b \in R |-> [do |-> "aliasDel", a |-> a, to |-> b]]
  <2>1. A = {f[b] : b \in R} /\ D = {g[b] : b \in R} /\ DOMAIN f = R /\ DOMAIN g = R
    OBVIOUS
  <2> HIDE DEF A, D, f, g
  <2> QED BY <1>1, <2>1, FiniteImage
<1>3. A \subseteq Good /\ D \subseteq Good
  BY DEF Good, M!Commands
<1>4. M!Add(a, R) = M!SetToSeq(A) /\ M!Delete(a, R) = M!SetToSeq(D)
  BY Zenon DEF M!Add, M!Delete
<1> HIDE DEF A, D
<1>5. /\ M!SetToSeq(A) \in Seq(A) /\ A = {M!SetToSeq(A)[i] : i \in 1 .. Len(M!SetToSeq(A))}
      /\ M!SetToSeq(D) \in Seq(D) /\ D = {M!SetToSeq(D)[i] : i \in 1 .. Len(M!SetToSeq(D))}
  BY <1>2, SetAsSeq
<1>6. M!SetToSeq(A) \in Seq(Good) /\ M!SetToSeq(D) \in Seq(Good)
  BY <1>3, <1>5
<1> QED BY <1>4, <1>5, <1>6 DEF A, D

\* One sequence of commands after the other
LEMMA OneAfterTheOther ==
  ASSUME NEW p \in Seq(Good), NEW q \in Seq(Good)
  PROVE  /\ p \o q \in Seq(Good) /\ Len(p) \in Nat /\ Len(p \o q) = Len(p) + Len(q)
         /\ \A i \in 1 .. Len(p \o q) :
              \/ i \in 1 .. Len(p) /\ (p \o q)[i] = p[i]
              \/ i > Len(p) /\ i - Len(p) \in 1 .. Len(q) /\ (p \o q)[i] = q[i - Len(p)]
         /\ {(p \o q)[i] : i \in 1 .. Len(p \o q)} = {p[i] : i \in 1 .. Len(p)} \cup {q[i] : i \in 1 .. Len(q)}
<1> DEFINE s == p \o q
<1>1. /\ s \in Seq(Good) /\ Len(p) \in Nat /\ Len(q) \in Nat /\ Len(s) = Len(p) + Len(q)
      /\ \A i \in 1 .. Len(s) : s[i] = IF i <= Len(p) THEN p[i] ELSE q[i - Len(p)]
  BY ConcatProperties, LenProperties
<1> HIDE DEF s
<1>2. \A i \in 1 .. Len(s) :
              \/ i \in 1 .. Len(p) /\ s[i] = p[i]
              \/ i > Len(p) /\ i - Len(p) \in 1 .. Len(q) /\ s[i] = q[i - Len(p)]
  BY <1>1
<1>3. ASSUME NEW i \in 1 .. Len(p) PROVE \E j \in 1 .. Len(s) : s[j] = p[i]
  <2>1. i \in 1 .. Len(s) /\ i <= Len(p)
    BY <1>1
  <2>2. s[i] = p[i]
    BY <1>1, <2>1
  <2> QED BY <2>1, <2>2
<1>4. ASSUME NEW i \in 1 .. Len(q) PROVE \E j \in 1 .. Len(s) : s[j] = q[i]
  <2>1. i + Len(p) \in 1 .. Len(s) /\ ~(i + Len(p) <= Len(p)) /\ (i + Len(p)) - Len(p) = i
    BY <1>1
  <2>2. s[i + Len(p)] = q[(i + Len(p)) - Len(p)]
    BY <1>1, <2>1
  <2> QED BY <2>1, <2>2
<1>5. {s[i] : i \in 1 .. Len(s)} = {p[i] : i \in 1 .. Len(p)} \cup {q[i] : i \in 1 .. Len(q)}
  <2>1. ASSUME NEW i \in 1 .. Len(s) PROVE s[i] \in {p[j] : j \in 1 .. Len(p)} \cup {q[j] : j \in 1 .. Len(q)}
    BY <1>2
  <2>2. ASSUME NEW i \in 1 .. Len(p) PROVE p[i] \in {s[j] : j \in 1 .. Len(s)}
    BY <1>3
  <2>3. ASSUME NEW i \in 1 .. Len(q) PROVE q[i] \in {s[j] : j \in 1 .. Len(s)}
    BY <1>4
  <2> QED BY <2>1, <2>2, <2>3
<1> QED BY <1>1, <1>2, <1>5 DEF s

\* A request for an alias that is refused
LEMMA RefusedBegins ==
  ASSUME MailInv, NEW r \in Changers, NEW op \in {"create", "update"}, NEW a \in Addresses, NEW R \in SUBSET Addresses,
         R # {}, op = "update" => alias[a] # {}, M!Loops(a, R), M!Begin(r, M!Refused(op, a, R))
  PROVE  MailInv'
<1> DEFINE x == M!Refused(op, a, R)
<1>1. alias \in [Addresses -> SUBSET Addresses]
  BY DEF MailInv, Files
<1>2. /\ x \in Asked /\ x.at = "refused" /\ x.op = op /\ x.a = a /\ x.want = R /\ x.todo = <<>> /\ x.bad = {}
  <2> DEFINE z == M!Run(op, a, R, <<>>)
  <2>1. x = [z EXCEPT !.at = "refused"] /\ op \in M!Ops /\ <<>> \in Seq(Good)
    BY DEF M!Refused, M!Ops
  <2>2. z = M!Run(op, a, R, <<>>)
    OBVIOUS
  <2>3. AsAsked(M!Run(op, a, R, <<>>), op, a, R, <<>>)
    BY <2>1, RunIsAsked
  <2> HIDE DEF z
  <2>4. z \in Asked /\ z.op = op /\ z.a = a /\ z.want = R /\ z.todo = <<>> /\ z.bad = {}
    BY <2>2, <2>3 DEF AsAsked
  <2> QED BY <2>1, <2>4 DEF Asked
<1> HIDE DEF x
<1>3. Left(x) = {} /\ Adds(x) = {} /\ Dels(x) = {} /\ Len(x.todo) = 0
  BY <1>2 DEF Left, Adds, Dels
<1>4. Shaped(x)
  <2>1. CASE op = "create"
    BY <1>2, <1>3, <2>1 DEF Shaped
  <2>2. CASE op = "update"
    BY <1>2, <1>3, <2>2 DEF Shaped
  <2> QED BY <2>1, <2>2
<1>5. ~M!Acyclic([alias EXCEPT ![x.a] = @ \cup x.want])
  BY <1>1, <1>2, LoopIsDue DEF With
<1>6. OnItsWay(x, boxes, alias, marks)
  BY <1>2, <1>5 DEF OnItsWay
<1> QED BY <1>2, <1>4, <1>6, MailBegins DEF x

\* AliasesService.create
LEMMA CreateBegins ==
  ASSUME MailInv, NEW r \in Changers, NEW a \in Addresses, NEW R \in M!Recipients, M!CreateAlias(r, a, R)
  PROVE  MailInv'
<1>0. R \in SUBSET Addresses /\ R # {} /\ alias \in [Addresses -> SUBSET Addresses]
  BY DEF M!Recipients, MailInv, Files
<1>1. CASE M!Loops(a, R)
  <2>1. M!Begin(r, M!Refused("create", a, R))
    BY <1>1 DEF M!CreateAlias
  <2> QED BY <1>0, <1>1, <2>1, RefusedBegins
<1>2. CASE ~M!Loops(a, R)
  <2> DEFINE x == M!Run("create", a, R, M!Add(a, R))
             A == {[do |-> "aliasAdd", a |-> a, to |-> b] : b \in R}
  <2>1. M!Begin(r, x)
    BY <1>2 DEF M!CreateAlias
  <2>2. /\ x \in Asked /\ x.at = "running" /\ x.op = "create" /\ x.a = a /\ x.want = R /\ x.bad = {}
        /\ Left(x) = A
    <3>1. "create" \in M!Ops
      BY DEF M!Ops
    <3>2. M!Add(a, R) \in Seq(Good) /\ {M!Add(a, R)[i] : i \in 1 .. Len(M!Add(a, R))} = A
      BY <1>0, AddIs
    <3>3. AsAsked(x, "create", a, R, M!Add(a, R))
      BY <1>0, <3>1, <3>2, RunIsAsked
    <3> HIDE DEF x, A
    <3> QED BY <3>2, <3>3 DEF AsAsked
  <2>a. (\A c \in A : c.do = "aliasAdd" /\ c.a = a) /\ {b \in Addresses : \E c \in A : c.to = b} = R
    <3>1. About(A, a, "aliasAdd", R)
      BY <1>0, AboutRecipients
    <3> HIDE DEF A
    <3> QED BY <3>1 DEF About
  <2> HIDE DEF x, A
  <2>3. Adds(x) = R
    BY <2>2, <2>a DEF Adds
  <2>4. Shaped(x)
    BY <1>0, <2>2, <2>a DEF Shaped
  <2>5. Come(x, boxes, alias, marks) /\ OnItsWay(x, boxes, alias, marks)
    BY <2>2, <2>3 DEF Come, OnItsWay
  <2>6. ASSUME M!Acyclic(alias) PROVE M!Acyclic(Potential(x, alias))
    <3>1. M!Acyclic(With(a, R))
      BY <1>0, <1>2, <2>6, NoLoopIsSafe
    <3>2. \A b \in Addresses : Potential(x, alias)[b] \subseteq With(a, R)[b]
      BY <1>0, <2>2, <2>3 DEF Potential, With
    <3> QED BY <3>1, <3>2, Fewer
  <2> QED BY <2>1, <2>2, <2>4, <2>5, <2>6, MailBegins
<1> QED BY <1>1, <1>2

\* AliasesService.update
LEMMA UpdateBegins ==
  ASSUME MailInv, NEW r \in Changers, NEW a \in Addresses, NEW R \in M!Recipients, M!UpdateAlias(r, a, R)
  PROVE  MailInv'
<1>0. R \in SUBSET Addresses /\ R # {} /\ alias \in [Addresses -> SUBSET Addresses] /\ alias[a] # {}
  BY DEF M!Recipients, MailInv, Files, M!UpdateAlias
<1>1. CASE M!Loops(a, R)
  <2>1. M!Begin(r, M!Refused("update", a, R))
    BY <1>1 DEF M!UpdateAlias
  <2> QED BY <1>0, <1>1, <2>1, RefusedBegins
<1>2. CASE ~M!Loops(a, R)
  <2> DEFINE p == M!Add(a, R \ alias[a])
             q == M!Delete(a, alias[a] \ R)
             x == M!Run("update", a, R, p \o q)
             A == {[do |-> "aliasAdd", a |-> a, to |-> b] : b \in R \ alias[a]}
             D == {[do |-> "aliasDel", a |-> a, to |-> b] : b \in alias[a] \ R}
  <2>1. M!Begin(r, x)
    BY <1>2 DEF M!UpdateAlias, M!Edits
  <2>2. p \in Seq(Good) /\ q \in Seq(Good) /\ {p[i] : i \in 1 .. Len(p)} = A /\ {q[i] : i \in 1 .. Len(q)} = D
    BY <1>0, AddIs
  <2>a. /\ \A c \in A : c.do = "aliasAdd" /\ c.a = a
        /\ \A c \in D : c.do = "aliasDel" /\ c.a = a
        /\ {b \in Addresses : \E c \in A : c.to = b} = R \ alias[a]
        /\ {b \in Addresses : \E c \in D : c.to = b} = alias[a] \ R
    <3>1. R \ alias[a] \in SUBSET Addresses /\ alias[a] \ R \in SUBSET Addresses
      BY <1>0
    <3>2. About(A, a, "aliasAdd", R \ alias[a]) /\ About(D, a, "aliasDel", alias[a] \ R)
      BY <3>1, AboutRecipients
    <3> HIDE DEF A, D
    <3> QED BY <3>2 DEF About
  <2>b. x = M!Run("update", a, R, p \o q) /\ "update" \in M!Ops
    BY DEF M!Ops
  <2> HIDE DEF p, q, A, D, x
  <2>3. /\ p \o q \in Seq(Good) /\ Len(p) \in Nat
        /\ \A i \in 1 .. Len(p \o q) :
              \/ i \in 1 .. Len(p) /\ (p \o q)[i] = p[i]
              \/ i > Len(p) /\ i - Len(p) \in 1 .. Len(q) /\ (p \o q)[i] = q[i - Len(p)]
        /\ {(p \o q)[i] : i \in 1 .. Len(p \o q)} = A \cup D
    BY <2>2, OneAfterTheOther
  <2>4. /\ x \in Asked /\ x.at = "running" /\ x.op = "update" /\ x.a = a /\ x.want = R /\ x.bad = {}
        /\ x.todo = p \o q /\ Left(x) = A \cup D
    <3>1. AsAsked(M!Run("update", a, R, p \o q), "update", a, R, p \o q)
      BY <1>0, <2>3, <2>b, RunIsAsked
    <3> QED BY <2>3, <2>b, <3>1 DEF AsAsked
  <2>5. Adds(x) = R \ alias[a] /\ Dels(x) = alias[a] \ R
    <3>1. Adds(x) = {b \in Addresses : \E c \in A : c.to = b}
      BY <2>4, <2>a DEF Adds
    <3>2. Dels(x) = {b \in Addresses : \E c \in D : c.to = b}
      BY <2>4, <2>a DEF Dels
    <3> QED BY <2>a, <3>1, <3>2
  <2>6. Shaped(x)
    <3>1. \A c \in Left(x) : c.do \in {"aliasAdd", "aliasDel"} /\ c.a = a
      BY <2>4, <2>a
    <3>2. ASSUME NEW i \in 1 .. Len(x.todo), NEW j \in 1 .. Len(x.todo), i < j, x.todo[j].do = "aliasAdd"
          PROVE  x.todo[i].do = "aliasAdd"
      <4>1. j \in 1 .. Len(p)
        <5> SUFFICES ASSUME j \notin 1 .. Len(p) PROVE FALSE
          OBVIOUS
        <5>0. j - Len(p) \in 1 .. Len(q) /\ x.todo[j] = q[j - Len(p)]
          BY <2>3, <2>4
        <5>1. x.todo[j] \in D
          BY <2>2, <5>0
        <5> QED BY <2>a, <3>2, <5>1
      <4>2. i \in 1 .. Len(p) /\ x.todo[i] = p[i]
        BY <2>3, <2>4, <3>2, <4>1
      <4>3. x.todo[i] \in A
        BY <2>2, <4>2
      <4> QED BY <2>a, <4>3
    <3>3. Dels(x) \cap x.want = {}
      BY <2>4, <2>5
    <3> QED BY <1>0, <2>4, <3>1, <3>2, <3>3 DEF Shaped
  <2>7. Come(x, boxes, alias, marks) /\ OnItsWay(x, boxes, alias, marks)
    BY <1>0, <2>4, <2>5 DEF Come, OnItsWay
  <2>8. ASSUME M!Acyclic(alias) PROVE M!Acyclic(Potential(x, alias))
    <3>1. M!Acyclic(With(a, R))
      BY <1>0, <1>2, <2>8, NoLoopIsSafe
    <3>2. \A b \in Addresses : Potential(x, alias)[b] \subseteq With(a, R)[b]
      BY <1>0, <2>4, <2>5 DEF Potential, With
    <3> QED BY <3>1, <3>2, Fewer
  <2> QED BY <2>1, <2>4, <2>6, <2>7, <2>8, MailBegins
<1> QED BY <1>1, <1>2

\* A request that adds no recipients
LEMMA OtherBegins ==
  ASSUME MailInv, NEW r \in Changers, NEW x, M!Begin(r, x), x \in Asked, Shaped(x), x.at = "running",
         x.op \notin {"create", "update"}, Come(x, boxes, alias, marks)
  PROVE  MailInv'
<1>1. OnItsWay(x, boxes, alias, marks)
  BY DEF OnItsWay
<1>2. \A b \in Addresses : Potential(x, alias)[b] \subseteq alias[b]
  BY DEF Potential
<1> QED BY <1>1, <1>2, MailBegins, Fewer

\* AliasesService.remove
LEMMA RemoveBegins ==
  ASSUME MailInv, NEW r \in Changers, NEW a \in Addresses, M!RemoveAlias(r, a)
  PROVE  MailInv'
<1> DEFINE x == M!Run("remove", a, {}, M!Delete(a, alias[a]))
           D == {[do |-> "aliasDel", a |-> a, to |-> b] : b \in alias[a]}
<1>1. alias[a] \in SUBSET Addresses
  BY DEF MailInv, Files
<1>2. M!Begin(r, x)
  BY DEF M!RemoveAlias
<1>3. x \in Asked /\ x.at = "running" /\ x.op = "remove" /\ x.a = a /\ Left(x) = D
  <2>1. "remove" \in M!Ops
    BY DEF M!Ops
  <2>2. M!Delete(a, alias[a]) \in Seq(Good)
        /\ {M!Delete(a, alias[a])[i] : i \in 1 .. Len(M!Delete(a, alias[a]))} = D
    BY <1>1, AddIs
  <2>3. AsAsked(x, "remove", a, {}, M!Delete(a, alias[a]))
    BY <2>1, <2>2, RunIsAsked
  <2> HIDE DEF x, D
  <2> QED BY <2>2, <2>3 DEF AsAsked
<1>a. (\A c \in D : c.do = "aliasDel" /\ c.a = a) /\ {b \in Addresses : \E c \in D : c.to = b} = alias[a]
  <2>1. About(D, a, "aliasDel", alias[a])
    BY <1>1, AboutRecipients
  <2> HIDE DEF D
  <2> QED BY <2>1 DEF About
<1> HIDE DEF x, D
<1>4. Dels(x) = alias[a]
  BY <1>3, <1>a DEF Dels
<1>5. Shaped(x)
  BY <1>3, <1>a DEF Shaped
<1>6. Come(x, boxes, alias, marks)
  BY <1>3, <1>4 DEF Come
<1> QED BY <1>2, <1>3, <1>5, <1>6, OtherBegins

\* MailboxesService.create and remove
LEMMA BoxBegins ==
  ASSUME MailInv, NEW r \in Changers, NEW a \in Addresses, M!CreateMailbox(r, a) \/ M!DeleteMailbox(r, a)
  PROVE  MailInv'
<1>1. CASE M!CreateMailbox(r, a)
  <2> DEFINE c == [do |-> "boxAdd", a |-> a, to |-> a]
             x == M!Run("boxCreate", a, {}, <<c>>)
  <2>1. M!Begin(r, x)
    BY <1>1 DEF M!CreateMailbox
  <2>2. c \in Good /\ <<c>> \in Seq(Good) /\ {<<c>>[i] : i \in 1 .. Len(<<c>>)} = {c}
    BY DEF Good, M!Commands
  <2>3. c.do = "boxAdd" /\ c.a = a
    OBVIOUS
  <2> HIDE DEF c
  <2>a. "boxCreate" \in M!Ops /\ {} \in (SUBSET Addresses) \cup (SUBSET M!Commands)
    BY DEF M!Ops
  <2>b. AsAsked(x, "boxCreate", a, {}, <<c>>)
    BY <2>2, <2>a, RunIsAsked
  <2> HIDE DEF x
  <2>4. x \in Asked /\ x.at = "running" /\ x.op = "boxCreate" /\ x.a = a /\ Left(x) = {c}
    BY <2>2, <2>b DEF AsAsked
  <2>5. Shaped(x) /\ Come(x, boxes, alias, marks)
    BY <2>3, <2>4 DEF Shaped, Come
  <2> QED BY <2>1, <2>4, <2>5, OtherBegins
<1>2. CASE M!DeleteMailbox(r, a)
  <2> DEFINE c == [do |-> "boxDel", a |-> a, to |-> a]
             x == M!Run("boxDelete", a, {}, <<c>>)
  <2>1. M!Begin(r, x)
    BY <1>2 DEF M!DeleteMailbox
  <2>2. c \in Good /\ <<c>> \in Seq(Good) /\ {<<c>>[i] : i \in 1 .. Len(<<c>>)} = {c}
    BY DEF Good, M!Commands
  <2>3. c.do = "boxDel" /\ c.a = a
    OBVIOUS
  <2> HIDE DEF c
  <2>a. "boxDelete" \in M!Ops /\ {} \in (SUBSET Addresses) \cup (SUBSET M!Commands)
    BY DEF M!Ops
  <2>b. AsAsked(x, "boxDelete", a, {}, <<c>>)
    BY <2>2, <2>a, RunIsAsked
  <2> HIDE DEF x
  <2>4. x \in Asked /\ x.at = "running" /\ x.op = "boxDelete" /\ x.a = a /\ Left(x) = {c}
    BY <2>2, <2>b DEF AsAsked
  <2>5. Shaped(x) /\ Come(x, boxes, alias, marks)
    BY <2>3, <2>4 DEF Shaped, Come
  <2> QED BY <2>1, <2>4, <2>5, OtherBegins
<1> QED BY <1>1, <1>2

\* restrict, setQuota and clearQuota, and the bulk ones
LEMMA MarkBegins ==
  ASSUME MailInv, NEW r \in Changers, NEW op \in {"mark", "bulk"}, NEW A \in SUBSET Addresses,
         NEW k \in Kinds, NEW on \in BOOLEAN,
         M!Begin(r, M!Run(op, A, M!Marks(A, k, on), M!SetToSeq(M!Marks(A, k, on))))
  PROVE  MailInv'
<1> DEFINE do == IF on THEN "set" ELSE "clear"
           D == M!Marks(A, k, on)
           x == M!Run(op, A, D, M!SetToSeq(D))
<1>1. D = {[do |-> do, a |-> b, to |-> k] : b \in A} /\ do \in {"set", "clear"}
  BY DEF M!Marks
<1> HIDE DEF D, do
<1>2. D \subseteq Good /\ D \in SUBSET M!Commands /\ \A c \in D : c.to = k /\ c.do = do
  BY <1>1 DEF Good, M!Commands
<1>3. IsFiniteSet(D)
  <2> DEFINE f == [b \in A |-> [do |-> do, a |-> b, to |-> k]]
  <2>1. D = {f[b] : b \in A} /\ DOMAIN f = A /\ IsFiniteSet(A)
    BY <1>1, FiniteAssumption, FS_Subset
  <2> HIDE DEF f
  <2> QED BY <2>1, FiniteImage
<1>4. M!SetToSeq(D) \in Seq(Good) /\ {M!SetToSeq(D)[i] : i \in 1 .. Len(M!SetToSeq(D))} = D
  <2>1. M!SetToSeq(D) \in Seq(D) /\ D = {M!SetToSeq(D)[i] : i \in 1 .. Len(M!SetToSeq(D))}
    BY <1>3, SetAsSeq
  <2> QED BY <1>2, <2>1
<1>5. x \in Asked /\ x.at = "running" /\ x.op = op /\ x.want = D /\ Left(x) = D
  <2>1. op \in M!Ops /\ A \in Addresses \cup (SUBSET Addresses)
        /\ D \in (SUBSET Addresses) \cup (SUBSET M!Commands)
    BY <1>2 DEF M!Ops
  <2>2. AsAsked(x, op, A, D, M!SetToSeq(D))
    BY <1>4, <2>1, RunIsAsked
  <2> HIDE DEF x
  <2> QED BY <1>4, <2>2 DEF AsAsked
<1>6. M!Begin(r, x)
  BY DEF D
<1> HIDE DEF x
<1>7. Shaped(x)
  <2>1. \E l \in Kinds, d \in {"set", "clear"} : \A c \in x.want : c \in Good /\ c.to = l /\ c.do = d
    BY <1>1, <1>2, <1>5
  <2> QED BY <1>5, <2>1 DEF Shaped
<1>8. Come(x, boxes, alias, marks)
  BY <1>5 DEF Come
<1> QED BY <1>5, <1>6, <1>7, <1>8, OtherBegins

\* Every step of a request about mailboxes and aliases keeps MailInv.
LEMMA MailStep ==
  ASSUME MailInv, [M!Next]_(M!vars)
  PROVE  MailInv'
<1>1. CASE UNCHANGED M!vars
  BY <1>1 DEF M!vars, MailInv
<1>2. CASE M!Next
  <2> SUFFICES ASSUME NEW r \in Changers,
        \/ \E a \in Addresses :
             \/ \E R \in M!Recipients : M!CreateAlias(r, a, R) \/ M!UpdateAlias(r, a, R)
             \/ M!RemoveAlias(r, a) \/ M!CreateMailbox(r, a) \/ M!DeleteMailbox(r, a)
        \/ \E k \in Kinds, on \in BOOLEAN :
             \/ \E a \in Addresses : M!MarkMailbox(r, a, k, on)
             \/ \E A \in M!Recipients : M!MarkAll(r, A, k, on)
        \/ M!Succeed(r) \/ M!Fail(r) \/ M!Finish(r)
                PROVE MailInv'
    BY <1>2 DEF M!Next
  <2>1. ASSUME NEW a \in Addresses, NEW R \in M!Recipients, M!CreateAlias(r, a, R) \/ M!UpdateAlias(r, a, R)
        PROVE  MailInv'
    BY <2>1, CreateBegins, UpdateBegins
  <2>2. ASSUME NEW a \in Addresses, M!RemoveAlias(r, a) \/ M!CreateMailbox(r, a) \/ M!DeleteMailbox(r, a)
        PROVE  MailInv'
    BY <2>2, RemoveBegins, BoxBegins
  <2>3. ASSUME NEW k \in Kinds, NEW on \in BOOLEAN, NEW a \in Addresses, M!MarkMailbox(r, a, k, on)
        PROVE  MailInv'
    BY <2>3, MarkBegins DEF M!MarkMailbox
  <2>4. ASSUME NEW k \in Kinds, NEW on \in BOOLEAN, NEW A \in M!Recipients, M!MarkAll(r, A, k, on)
        PROVE  MailInv'
    BY <2>4, MarkBegins DEF M!MarkAll, M!Recipients
  <2> QED BY <2>1, <2>2, <2>3, <2>4, MailSucceeds, MailFails, MailFinishes
<1> QED BY <1>1, <1>2

\* MailInv holds at first.
LEMMA MailBeginsWith == M!Init => MailInv
<1> SUFFICES ASSUME M!Init PROVE MailInv
  OBVIOUS
<1>1. /\ Files(boxes, alias, marks) /\ M!Acyclic(alias) /\ mixed = FALSE /\ alone = {}
      /\ changing = [r \in Changers |-> M!Unused]
  BY MailAssumption DEF M!Init, Files
<1>2. \A r \in Changers : Ready(changing[r]) /\ changing[r].at # "running"
  BY <1>1, RestingIsNotRunning DEF Ready, Resting
<1> QED BY <1>1, <1>2 DEF MailInv, Apart

\* What MailInv says of the files and of the answers
LEMMA MailGives == MailInv => M!MailHolds
<1> SUFFICES ASSUME MailInv PROVE M!MailHolds
  OBVIOUS
<1>1. M!TypeOK
  <2>1. \A r \in Changers : changing[r] \in {M!Unused, M!Answered} \/
          changing[r] \in [at : {"running", "refused", "failed", "done"}, op : M!Ops,
                   a : Addresses \cup (SUBSET Addresses), want : (SUBSET Addresses) \cup (SUBSET M!Commands),
                   todo : Seq(M!Commands), bad : SUBSET Addresses]
    <3> TAKE r \in Changers
    <3>1. Resting(changing[r]) \/ changing[r] \in Asked
      BY DEF MailInv, Ready
    <3>2. Seq(Good) \subseteq Seq(M!Commands)
      BY DEF Good
    <3> QED BY <3>1, <3>2 DEF Resting, Asked
  <2> QED BY <2>1 DEF MailInv, Files, M!TypeOK
<1>2. M!NoLoopOfTheirOwn
  BY DEF MailInv, Apart, M!NoLoopOfTheirOwn
<1>3. \A r \in alone : r \in Changers /\ OnItsWay(changing[r], boxes, alias, marks)
                       /\ changing[r] \in Asked /\ Shaped(changing[r])
  BY DEF MailInv, Lone, Ready
<1>4. M!RefusalIsDue /\ M!NeverRecipientless
  BY <1>3 DEF M!RefusalIsDue, M!NeverRecipientless, OnItsWay
<1>5. M!DoneAsAsked
  <2> SUFFICES ASSUME NEW r \in alone, changing[r].at = "done"
               PROVE  LET a == changing[r].a IN
    CASE changing[r].op = "create" -> changing[r].want \subseteq alias[a]
      [] changing[r].op = "update" -> alias[a] = changing[r].want
      [] changing[r].op = "remove" -> alias[a] = {}
      [] changing[r].op = "boxCreate" -> a \in boxes
      [] changing[r].op = "boxDelete" -> a \notin boxes /\ \A b \in Addresses : a \notin alias[b]
      [] OTHER -> \A c \in changing[r].want : c.a \notin changing[r].bad => (c.a \in marks[c.to]) = (c.do = "set")
    BY DEF M!DoneAsAsked
  <2> DEFINE x == changing[r]
  <2>1. x \in Asked /\ Shaped(x) /\ Come(x, boxes, alias, marks) /\ x.todo = <<>>
    BY <1>3 DEF OnItsWay
  <2>2. Left(x) = {} /\ Adds(x) = {} /\ Dels(x) = {}
    BY <2>1 DEF Left, Adds, Dels
  <2> HIDE DEF x
  <2>3. CASE x.op \in {"create", "update", "remove", "boxCreate", "boxDelete"}
    BY <2>1, <2>2, <2>3 DEF Come, x
  <2>4. CASE x.op \notin {"create", "update", "remove", "boxCreate", "boxDelete"}
    <3>1. \A c \in x.want : c.a \in x.bad \/ ((c.a \in marks[c.to]) <=> (c.do = "set"))
      BY <2>1, <2>2, <2>4 DEF Come
    <3>2. \A c \in x.want : c.a \notin x.bad => (c.a \in marks[c.to]) = (c.do = "set")
      <4> TAKE c \in x.want
      <4>1. c.a \notin x.bad => ((c.a \in marks[c.to]) <=> (c.do = "set"))
        BY <3>1
      <4> DEFINE A == c.a \in marks[c.to]
                 D == c.do = "set"
      <4>2. A \in BOOLEAN /\ D \in BOOLEAN
        OBVIOUS
      <4>3. (A <=> D) => (A = D)
        BY <4>2
      <4> QED BY <4>1, <4>3
    <3> QED BY <2>4, <3>2 DEF x
  <2> QED BY <2>3, <2>4
<1> QED BY <1>1, <1>2, <1>4, <1>5 DEF M!MailHolds

\* Undisturbed by another, a request about mailboxes and aliases does all it
\* is asked or leaves mail on its way.
LEMMA MailAlwaysKept == M!Spec => []M!MailHolds
<1>1. M!Init => MailInv
  BY MailBeginsWith
<1>2. MailInv /\ [M!Next]_(M!vars) => MailInv'
  BY MailStep
<1> QED BY <1>1, <1>2, MailGives, PTL DEF M!Spec

-----------------------------------------------------------------------------
(***************************************************************************)
(* Sieve                                                                   *)
(***************************************************************************)

\* The scripts and the active one
Stored(sc, ac) ==
  /\ DOMAIN sc = S!ScriptNames
  /\ \A n \in S!ScriptNames : sc[n] \in {None, S!Hand} \/ (sc[n].header /\ sc[n].answers \subseteq S!Days)
  /\ ac \in S!ScriptNames \cup {None} /\ (ac # None => sc[ac] # None)

\* What an update that is about to deactivate has seen still holds, unless it
\* noted an activation since.
DownOnlyAuto(x, ac) == x.op = "update" /\ x.at = "deactivate" /\ ~x.late => ac \in {S!Auto, None}

\* A request, and what it may do next
Fits(x, sc, ac) ==
  /\ DOMAIN x = {"op", "of", "on", "at", "text", "start", "end", "listed", "late", "said"}
  /\ x.op \in {"put", "activate", "deactivate", "update"}
  /\ x.at \in {"put", "list", "activate", "deactivate", "status", "get", "failed", "done"}
  /\ x.on \in BOOLEAN /\ x.listed \in BOOLEAN /\ x.late \in BOOLEAN
  /\ x.text \in Texts \cup {None} /\ x.start \in Nat \cup {None} /\ x.end \in Nat \cup {None}
  /\ x.of \in S!ScriptNames \cup {None}
  /\ x.op # "deactivate" => x.of \in S!ScriptNames
  /\ x.op = "deactivate" => x.at \in {"deactivate", "failed", "done"}
  /\ x.op = "update" => x.of = S!Auto
  /\ x.at = "activate" => x.op # "deactivate" /\ sc[x.of] # None
  /\ DownOnlyAuto(x, ac)

\* How far an update has come that no other request has overlapped
Undisturbed(x, was, sc, ac) ==
  /\ x.at \in {"put", "list", "activate", "deactivate"} => ac = was
  /\ x.at = "activate" => x.on
  /\ x.at = "list" => ~x.on
  /\ x.at = "deactivate" => ~x.on /\ was = S!Auto
  /\ x.at \in {"status", "get", "done"} => ((ac = S!Auto) <=> x.on)
  /\ x.at \in {"get", "done"} => (x.listed <=> x.on)
  /\ x.at \notin {"put", "failed"} => sc[S!Auto] = S!Generate(x.text, x.start, x.end)
  /\ x.at = "done" => \A s \in x.said : s = S!Status(sc[S!Auto], x.listed)
  /\ ac \in {was} \cup (IF x.on THEN {S!Auto} ELSE IF was = S!Auto THEN {None} ELSE {})

Alone(c) ==
  /\ c.r \in Editors /\ editing[c.r] # S!Unused
  /\ \A s \in Editors : S!Open(s) => s = c.r
  /\ editing[c.r].op = "update" => Undisturbed(editing[c.r], c.active, script, active)

SieveInv ==
  /\ Stored(script, active)
  /\ DOMAIN editing = Editors
  /\ \A r \in Editors : editing[r] = S!Unused \/ Fits(editing[r], script, active)
  /\ \A c \in calm : Alone(c)

\* A request that is open has begun.
LEMMA OpenFits ==
  ASSUME SieveInv, NEW r \in Editors, editing[r].at # "unused"
  PROVE  Fits(editing[r], script, active)
BY DEF SieveInv, S!Unused

\* The script an update generates is a script, and has the panel's header.
LEMMA GeneratedIsStored ==
  ASSUME NEW t \in Texts \cup {None}, NEW s \in Nat \cup {None}, NEW e \in Nat \cup {None}
  PROVE  /\ S!Generate(t, s, e) # None /\ S!Hand # None
         /\ S!Generate(t, s, e).header /\ S!Generate(t, s, e).answers \subseteq S!Days
<1> DEFINE A == {d \in S!Days : (s # None => d >= s) /\ (e # None => d <= e)}
<1>1. S!Generate(t, s, e) = [header |-> TRUE, text |-> t, start |-> s, end |-> e, answers |-> A]
  BY DEF S!Generate
<1>2. A \subseteq S!Days
  OBVIOUS
<1> HIDE DEF A
<1> DEFINE R == [header : BOOLEAN, answers : SUBSET S!Days, text : Texts \cup {None},
                 start : Nat \cup {None}, end : Nat \cup {None}]
<1>3. S!Generate(t, s, e) \in R
  BY <1>1, <1>2
<1>4. S!Hand \in R
  BY DEF S!Hand
<1>5. None \notin R
  BY SieveAssumption
<1> HIDE DEF R
<1>6. S!Generate(t, s, e) # None /\ S!Hand # None
  BY <1>3, <1>4, <1>5
<1> QED BY <1>1, <1>2, <1>6

\* What a command makes of the scripts
LEMMA EffectStores ==
  ASSUME Stored(script, active), NEW x, Fits(x, script, active), S!Effect(x)
  PROVE  /\ Stored(script', active')
         /\ \A n \in S!ScriptNames : script[n] # None => script'[n] # None
         /\ active' = active \/ active' = None \/ (x.at = "activate" /\ active' = x.of)
<1>1. CASE x.at = "put"
  <2> DEFINE v == IF x.op = "put" THEN S!Hand ELSE S!Generate(x.text, x.start, x.end)
  <2>1. script' = [script EXCEPT ![x.of] = v] /\ active' = active
    BY <1>1 DEF S!Effect
  <2>2. v # None /\ (v = S!Hand \/ (v.header /\ v.answers \subseteq S!Days))
    BY GeneratedIsStored DEF Fits, DownOnlyAuto
  <2>3. x.of \in S!ScriptNames
    BY <1>1 DEF Fits, DownOnlyAuto
  <2> HIDE DEF v
  <2>4. \A n \in S!ScriptNames : script'[n] = IF n = x.of THEN v ELSE script[n]
    BY <2>1 DEF Stored
  <2> QED BY <2>1, <2>2, <2>3, <2>4 DEF Stored
<1>2. CASE x.at # "put"
  <2>1. script' = script /\ active' \in {active, None} \cup (IF x.at = "activate" THEN {x.of} ELSE {})
    BY <1>2 DEF S!Effect
  <2>2. x.at = "activate" => x.of \in S!ScriptNames /\ script[x.of] # None
    BY DEF Fits, DownOnlyAuto
  <2> QED BY <2>1, <2>2 DEF Stored
<1> QED BY <1>1, <1>2

\* The same request but for what it noted
SameButNoted(y, z) ==
  /\ DOMAIN z = DOMAIN y /\ z.op = y.op /\ z.of = y.of /\ z.on = y.on /\ z.at = y.at /\ z.text = y.text
  /\ z.start = y.start /\ z.end = y.end /\ z.listed = y.listed /\ z.late \in BOOLEAN

\* No script is lost.
ScriptsStay(sc, sc2) == \A n \in S!ScriptNames : sc[n] # None => sc2[n] # None

\* A request that waits while another goes on
LEMMA StillFits ==
  ASSUME NEW y, NEW z, NEW sc, NEW ac, NEW sc2, NEW ac2, Fits(y, sc, ac),
         SameButNoted(y, z), ScriptsStay(sc, sc2), DownOnlyAuto(z, ac2)
  PROVE  Fits(z, sc2, ac2)
BY DEF Fits, SameButNoted, ScriptsStay

\* The request that goes on, and what the others note of it
LEMMA GoesOn ==
  ASSUME SieveInv, NEW r \in Editors, NEW at, S!Goes(r, at),
         Stored(script', active'), \A n \in S!ScriptNames : script[n] # None => script'[n] # None,
         LET x == [editing[r] EXCEPT !.at = at] IN Fits(x, script', active'),
         \A c \in calm : c.r = r /\ editing[r].op = "update" =>
            Undisturbed([editing[r] EXCEPT !.at = at], c.active, script', active'),
         editing[r].at # "unused", S!Open(r)
  PROVE  SieveInv'
<1> DEFINE x == [editing[r] EXCEPT !.at = at]
<1>1. /\ DOMAIN editing' = Editors /\ editing'[r] = x /\ calm' = calm
      /\ \A s \in Editors : s # r =>
           \/ editing'[s] = editing[s] /\ ~(active' # active /\ active' # None /\ S!Open(s))
           \/ editing'[s] = [editing[s] EXCEPT !.late = TRUE] /\ S!Open(s)
  BY DEF S!Goes
<1>0. Fits(x, script', active') /\ x.op = editing[r].op
  OBVIOUS
<1>9. \A c \in calm : c.r = r /\ editing[r].op = "update" => Undisturbed(x, c.active, script', active')
  OBVIOUS
<1>8. ScriptsStay(script, script')
  BY DEF ScriptsStay
<1> HIDE DEF x
<1>2. ASSUME NEW s \in Editors PROVE editing'[s] = S!Unused \/ Fits(editing'[s], script', active')
  <2>1. CASE s = r
    BY <1>0, <1>1, <2>1
  <2>2. CASE s # r /\ editing[s] = S!Unused
    <3>1. ~S!Open(s)
      BY <2>2 DEF S!Unused, S!Open
    <3> QED BY <1>1, <2>2, <3>1
  <2>3. CASE s # r /\ editing[s] # S!Unused
    <3> DEFINE y == editing[s]
               z == [y EXCEPT !.late = TRUE]
    <3>1. Fits(y, script, active)
      BY <2>3 DEF SieveInv
    <3>2. /\ DOMAIN z = DOMAIN y /\ z.op = y.op /\ z.of = y.of /\ z.on = y.on /\ z.at = y.at
          /\ z.text = y.text /\ z.start = y.start /\ z.end = y.end /\ z.listed = y.listed
      OBVIOUS
    <3>5. z.late = TRUE
      BY <3>1 DEF Fits, DownOnlyAuto
    <3>7. SameButNoted(y, z)
      BY <3>2, <3>5 DEF SameButNoted
    <3>8. DownOnlyAuto(z, active')
      BY <3>5 DEF DownOnlyAuto
    <3> HIDE DEF z
    <3>3. CASE editing'[s] = z
      <4> HIDE DEF y
      <4> QED BY <1>8, <3>1, <3>3, <3>7, <3>8, StillFits
    <3>4. CASE editing'[s] = y /\ ~(active' # active /\ active' # None /\ S!Open(s))
      <4>1. y.at = "deactivate" => S!Open(s)
        BY DEF S!Open
      <4>2. DownOnlyAuto(y, active')
        BY <3>1, <3>4, <4>1 DEF Fits, DownOnlyAuto
      <4>3. SameButNoted(y, y)
        BY <3>1 DEF Fits, SameButNoted
      <4> HIDE DEF y
      <4>4. Fits(y, script', active')
        BY <1>8, <3>1, <4>2, <4>3, StillFits
      <4> QED BY <3>4, <4>4
    <3>6. editing'[s] = z \/ (editing'[s] = y /\ ~(active' # active /\ active' # None /\ S!Open(s)))
      BY <1>1, <2>3 DEF z
    <3> HIDE DEF y
    <3> QED BY <3>3, <3>4, <3>6
  <2> QED BY <2>1, <2>2, <2>3
<1>3. ASSUME NEW c \in calm PROVE Alone(c)'
  <2>1. Alone(c) /\ c.r = r
    BY <1>3 DEF SieveInv, Alone
  <2>2. \A s \in Editors : s # r => ~S!Open(s)
    BY <2>1 DEF Alone
  <2>3. \A s \in Editors : s # r => editing'[s] = editing[s]
    BY <1>1, <2>2
  <2>4. editing'[r].op = editing[r].op /\ editing'[r] # S!Unused
    <3>1. x.at # "unused"
      BY <1>0 DEF Fits, DownOnlyAuto
    <3> QED BY <1>0, <1>1, <3>1 DEF S!Unused
  <2>5. \A s \in Editors : S!Open(s)' => s = r
    BY <2>2, <2>3 DEF S!Open
  <2> QED BY <1>1, <1>9, <2>1, <2>4, <2>5 DEF Alone
<1> QED BY <1>1, <1>2, <1>3 DEF SieveInv

\* A step of a request that changes no script
LEMMA LooksOn ==
  ASSUME SieveInv, NEW r \in Editors, S!Open(r), NEW x, editing' = [editing EXCEPT ![r] = x],
         UNCHANGED <<script, active, calm>>, Fits(x, script, active), x.op = editing[r].op,
         \A c \in calm : c.r = r /\ x.op = "update" => Undisturbed(x, c.active, script, active)
  PROVE  SieveInv'
<1>1. /\ DOMAIN editing' = Editors /\ editing'[r] = x
      /\ \A s \in Editors : s # r => editing'[s] = editing[s]
  BY DEF SieveInv
<1>2. \A s \in Editors : editing'[s] = S!Unused \/ Fits(editing'[s], script', active')
  BY <1>1 DEF SieveInv
<1>3. ASSUME NEW c \in calm PROVE Alone(c)'
  <2>1. Alone(c) /\ c.r = r
    BY <1>3 DEF SieveInv, Alone
  <2>2. \A s \in Editors : S!Open(s)' => s = r
    BY <1>1, <2>1 DEF S!Open, Alone
  <2>3. x # S!Unused
    BY DEF Fits, S!Unused
  <2> QED BY <1>1, <2>1, <2>2, <2>3 DEF Alone
<1> QED BY <1>1, <1>2, <1>3 DEF SieveInv, Stored

\* The first command of an update stores the script.
FirstPuts(op, at) == op = "update" => at = "put"

\* A request begins: alone, if no other is open.
LEMMA BeginStep ==
  ASSUME SieveInv, NEW r \in Editors, NEW op, NEW n, NEW on, NEW at, NEW t, NEW b, NEW e,
         S!Begin(r, op, n, on, at, t, b, e),
         LET x == [op |-> op, of |-> n, on |-> on, at |-> at, text |-> t, start |-> b, end |-> e,
                   listed |-> FALSE, late |-> FALSE, said |-> {}]
         IN Fits(x, script, active),
         FirstPuts(op, at)
  PROVE  SieveInv'
<1> DEFINE x == [op |-> op, of |-> n, on |-> on, at |-> at, text |-> t, start |-> b, end |-> e,
                 listed |-> FALSE, late |-> FALSE, said |-> {}]
<1>1. /\ editing' = [editing EXCEPT ![r] = x] /\ editing[r] = S!Unused
      /\ calm' = IF \E s \in Editors : S!Open(s) THEN {} ELSE {[r |-> r, active |-> active]}
      /\ UNCHANGED <<script, active>>
  BY DEF S!Begin
<1>2. Fits(x, script, active) /\ (x.op = "update" => x.at = "put")
  BY DEF FirstPuts
<1> HIDE DEF x
<1>3. /\ DOMAIN editing' = Editors /\ editing'[r] = x
      /\ \A s \in Editors : s # r => editing'[s] = editing[s]
  BY <1>1 DEF SieveInv
<1>4. \A s \in Editors : editing'[s] = S!Unused \/ Fits(editing'[s], script', active')
  BY <1>1, <1>2, <1>3 DEF SieveInv
<1>5. ASSUME NEW c \in calm' PROVE Alone(c)'
  <2>1. c = [r |-> r, active |-> active] /\ \A s \in Editors : ~S!Open(s)
    BY <1>1, <1>5
  <2>2. \A s \in Editors : S!Open(s)' => s = r
    BY <1>3, <2>1 DEF S!Open
  <2>3. x # S!Unused
    BY <1>2 DEF Fits, S!Unused
  <2>4. x.op = "update" => Undisturbed(x, active, script, active)
    BY <1>2 DEF Undisturbed
  <2> QED BY <1>1, <1>3, <2>1, <2>2, <2>3, <2>4 DEF Alone
<1> QED BY <1>1, <1>3, <1>4, <1>5 DEF SieveInv, Stored

\* A command that succeeds, or fails without its effect or with it
LEMMA CommandStep ==
  ASSUME SieveInv, NEW r \in Editors, S!Command(r) \/ S!Fail(r)
  PROVE  SieveInv'
<1> DEFINE x == editing[r]
<1>1. PICK at \in {S!After(x), "failed"} :
         /\ S!Goes(r, at) /\ S!Open(r)
         /\ S!Effect(x) \/ (at = "failed" /\ UNCHANGED <<script, active>>)
         /\ at # "failed" => at = S!After(x) /\ x.at \in {"put", "activate", "deactivate"}
  BY DEF S!Command, S!Fail, S!Open
<1>2. x.at # "unused" /\ Fits(x, script, active)
  BY <1>1, OpenFits DEF S!Open
<1> DEFINE y == [x EXCEPT !.at = at]
<1>3. /\ y.op = x.op /\ y.of = x.of /\ y.on = x.on /\ y.at = at /\ y.text = x.text /\ y.start = x.start
      /\ y.end = x.end /\ y.listed = x.listed /\ y.late = x.late /\ y.said = x.said
      /\ DOMAIN y = DOMAIN x
  BY <1>2 DEF Fits, DownOnlyAuto
<1>4. /\ Stored(script', active')
      /\ \A n \in S!ScriptNames : script[n] # None => script'[n] # None
  BY <1>1, <1>2, EffectStores DEF SieveInv, Stored
<1>5. /\ at \in {"done", "activate", "list", "status", "failed"}
      /\ at = "activate" => x.op = "update" /\ x.at = "put" /\ x.on
      /\ at = "list" => x.op = "update" /\ x.at = "put" /\ ~x.on
      /\ at = "status" => x.op = "update" /\ x.at # "put"
      /\ at = "done" => x.op # "update"
  <2>1. x.on \in BOOLEAN
    BY <1>2 DEF Fits, DownOnlyAuto
  <2>2. at = S!After(x) \/ at = "failed"
    BY <1>1
  <2> HIDE DEF x
  <2> QED BY <2>1, <2>2 DEF S!After
<1>6. x.at = "put" /\ x.op = "update" /\ S!Effect(x) =>
         /\ script'[S!Auto] = S!Generate(x.text, x.start, x.end) /\ active' = active
  BY <1>2 DEF S!Effect, Fits, SieveInv, Stored
<1>7. at = "activate" => script'[x.of] # None
  <2> SUFFICES ASSUME at = "activate" PROVE script'[x.of] # None
    OBVIOUS
  <2>1. S!Effect(x) /\ x.of = S!Auto
    BY <1>1, <1>2, <1>5 DEF Fits, DownOnlyAuto
  <2> QED BY <1>2, <1>5, <1>6, <2>1, GeneratedIsStored DEF Fits, DownOnlyAuto
<1>8. Fits(y, script', active')
  <2> HIDE DEF x, y
  <2>1. /\ y.op = x.op /\ y.of = x.of /\ y.on = x.on /\ y.at = at /\ y.text = x.text /\ y.start = x.start
        /\ y.end = x.end /\ y.listed = x.listed /\ y.late = x.late /\ y.said = x.said
        /\ DOMAIN y = DOMAIN x
    BY <1>3
  <2>2. y.op # "deactivate" \/ at \in {"failed", "done"}
    BY <1>5, <2>1
  <2> QED BY <1>2, <1>3, <1>5, <1>7, <2>1, <2>2 DEF Fits, DownOnlyAuto
<1>9. ASSUME NEW c \in calm, c.r = r, x.op = "update"
      PROVE  Undisturbed(y, c.active, script', active')
  <2>1. Undisturbed(x, c.active, script, active)
    BY <1>9 DEF SieveInv, Alone
  <2>2. /\ y.op = x.op /\ y.of = x.of /\ y.on = x.on /\ y.at = at /\ y.text = x.text /\ y.start = x.start
        /\ y.end = x.end /\ y.listed = x.listed /\ y.late = x.late /\ y.said = x.said
    BY <1>3
  <2>3. x.on \in BOOLEAN /\ x.of = S!Auto /\ S!Auto # None /\ x.at \in {"put", "list", "activate", "deactivate", "status", "get", "failed", "done"}
    BY <1>2, <1>9, SieveAssumption DEF Fits, S!ScriptNames
  <2>4. x.at = "put" \/ (S!Effect(x) => script' = script)
    BY DEF S!Effect
  <2>5. S!Effect(x) => active' = CASE x.at = "activate" -> S!Auto [] x.at = "deactivate" -> None [] OTHER -> active
    BY <2>3 DEF S!Effect
  <2> HIDE DEF x, y
  <2>6. CASE at = "failed"
    <3>1. active' \in {c.active} \cup (IF x.on THEN {S!Auto} ELSE IF c.active = S!Auto THEN {None} ELSE {})
      BY <1>1, <2>1, <2>3, <2>5, <2>6 DEF Undisturbed
    <3> QED BY <2>2, <2>6, <3>1 DEF Undisturbed
  <2>7. CASE at \in {"activate", "list"}
    <3>1. /\ x.at = "put" /\ active' = active /\ script'[S!Auto] = S!Generate(x.text, x.start, x.end)
          /\ (at = "activate" => x.on) /\ (at = "list" => ~x.on)
      BY <1>1, <1>5, <1>6, <2>7
    <3> QED BY <2>1, <2>2, <2>7, <3>1 DEF Undisturbed
  <2>8. CASE at = "status"
    <3>1. S!Effect(x) /\ x.at \in {"activate", "deactivate"}
      BY <1>1, <1>5, <2>8
    <3>2. script' = script
      BY <2>4, <3>1
    <3> QED BY <2>1, <2>2, <2>3, <2>5, <2>8, <3>1, <3>2 DEF Undisturbed
  <2> QED BY <1>5, <1>9, <2>6, <2>7, <2>8
<1> HIDE DEF y
<1> QED BY <1>1, <1>2, <1>4, <1>8, <1>9, GoesOn DEF y

\* Listing before a script is activated, and before the autoresponder is disabled
LEMMA ListStep ==
  ASSUME SieveInv, NEW r \in Editors, S!ListForActivate(r) \/ S!ListForDisable(r)
  PROVE  SieveInv'
<1> DEFINE x == editing[r]
<1>1. S!Open(r) /\ x.at = "list"
  BY DEF S!Open, S!ListForActivate, S!ListForDisable
<1>2. Fits(x, script, active)
  BY <1>1, OpenFits DEF S!Open
<1>3. CASE S!ListForActivate(r)
  <2> DEFINE at == IF script[x.of] # None THEN "activate" ELSE "failed"
             y == [x EXCEPT !.at = at]
  <2>1. S!Goes(r, at) /\ x.op = "activate" /\ UNCHANGED <<script, active>>
    BY <1>3 DEF S!ListForActivate
  <2>2. /\ y.op = x.op /\ y.of = x.of /\ y.on = x.on /\ y.at = at /\ y.text = x.text /\ y.start = x.start
        /\ y.end = x.end /\ y.listed = x.listed /\ y.late = x.late /\ y.said = x.said
        /\ DOMAIN y = DOMAIN x
    BY <1>2 DEF Fits, DownOnlyAuto
  <2>3. Fits(y, script', active')
    <3>1. at = "activate" => script'[x.of] # None
      BY <2>1
    <3>2. at \in {"activate", "failed"}
      OBVIOUS
    <3> HIDE DEF y, at, x
    <3> QED BY <1>2, <2>1, <2>2, <3>1, <3>2 DEF Fits, DownOnlyAuto
  <2>4. Stored(script', active')
    BY <2>1 DEF SieveInv
  <2>5. /\ \A n \in S!ScriptNames : script[n] # None => script'[n] # None
        /\ x.at # "unused"
    BY <1>1, <2>1
  <2> HIDE DEF at
  <2> QED BY <1>1, <2>1, <2>3, <2>4, <2>5, GoesOn
<1>4. CASE S!ListForDisable(r)
  <2> DEFINE y == [x EXCEPT !.at = IF active = S!Auto THEN "deactivate" ELSE "status", !.late = FALSE]
  <2>1. /\ editing' = [editing EXCEPT ![r] = y] /\ x.op = "update" /\ UNCHANGED <<script, active, calm>>
    BY <1>4 DEF S!ListForDisable
  <2>2. /\ y.op = x.op /\ y.of = x.of /\ y.on = x.on /\ y.text = x.text /\ y.start = x.start
        /\ y.end = x.end /\ y.listed = x.listed /\ y.late = FALSE /\ y.said = x.said
        /\ DOMAIN y = DOMAIN x
        /\ y.at = IF active = S!Auto THEN "deactivate" ELSE "status"
    BY <1>2 DEF Fits, DownOnlyAuto
  <2> HIDE DEF y
  <2>3. Fits(y, script, active)
    <3> HIDE DEF x
    <3> QED BY <1>2, <2>1, <2>2 DEF Fits, DownOnlyAuto
  <2>4. ASSUME NEW c \in calm, c.r = r PROVE Undisturbed(y, c.active, script, active)
    <3>1. Undisturbed(x, c.active, script, active)
      BY <2>1, <2>4 DEF SieveInv, Alone
    <3> HIDE DEF x
    <3> QED BY <1>1, <1>2, <2>2, <3>1 DEF Undisturbed, Fits
  <2> QED BY <1>1, <2>1, <2>2, <2>3, <2>4, LooksOn
<1> QED BY <1>3, <1>4

\* The status is read back: the list, and then the script.
LEMMA ReadStep ==
  ASSUME SieveInv, NEW r \in Editors, S!ReadList(r) \/ S!ReadScript(r)
  PROVE  SieveInv'
<1> DEFINE x == editing[r]
<1>1. S!Open(r) /\ x.at \in {"status", "get"} /\ UNCHANGED <<script, active, calm>>
  BY DEF S!Open, S!ReadList, S!ReadScript
<1>2. Fits(x, script, active)
  BY <1>1, OpenFits DEF S!Open
<1>3. CASE S!ReadList(r)
  <2> DEFINE y == [x EXCEPT !.at = "get", !.listed = (active = S!Auto)]
  <2>1. editing' = [editing EXCEPT ![r] = y] /\ x.at = "status"
    BY <1>3 DEF S!ReadList
  <2>2. /\ y.op = x.op /\ y.of = x.of /\ y.on = x.on /\ y.text = x.text /\ y.start = x.start
        /\ y.end = x.end /\ y.late = x.late /\ y.said = x.said
        /\ DOMAIN y = DOMAIN x /\ y.at = "get"
    BY <1>2 DEF Fits, DownOnlyAuto
  <2>3. y.listed = (active = S!Auto)
    BY <1>2 DEF Fits, DownOnlyAuto
  <2> HIDE DEF y
  <2>4. Fits(y, script, active)
    <3>1. y.listed \in BOOLEAN
      BY <2>3
    <3> HIDE DEF x
    <3> QED BY <1>2, <2>1, <2>2, <3>1 DEF Fits, DownOnlyAuto
  <2>5. \A c \in calm : c.r = r /\ y.op = "update" => Undisturbed(y, c.active, script, active)
    <3> SUFFICES ASSUME NEW c \in calm, c.r = r, y.op = "update"
                 PROVE  Undisturbed(y, c.active, script, active)
      OBVIOUS
    <3>1. Undisturbed(x, c.active, script, active)
      BY <2>2 DEF SieveInv, Alone
    <3>2. y.listed <=> (active = S!Auto)
      BY <2>3
    <3> HIDE DEF x
    <3> QED BY <2>1, <2>2, <3>1, <3>2 DEF Undisturbed
  <2>6. y.op = editing[r].op
    BY <2>2
  <2> QED BY <1>1, <2>1, <2>4, <2>5, <2>6, LooksOn
<1>4. CASE S!ReadScript(r)
  <2> DEFINE y == [x EXCEPT !.at = "done", !.said = {S!Status(script[S!Auto], x.listed)}]
  <2>1. editing' = [editing EXCEPT ![r] = y] /\ x.at = "get"
    BY <1>4 DEF S!ReadScript
  <2>2. /\ y.op = x.op /\ y.of = x.of /\ y.on = x.on /\ y.text = x.text /\ y.start = x.start
        /\ y.end = x.end /\ y.late = x.late /\ y.listed = x.listed
        /\ DOMAIN y = DOMAIN x /\ y.at = "done"
    BY <1>2 DEF Fits, DownOnlyAuto
  <2>3. y.said = {S!Status(script[S!Auto], x.listed)}
    BY <1>2 DEF Fits, DownOnlyAuto
  <2> HIDE DEF y
  <2>4. Fits(y, script, active)
    <3> HIDE DEF x
    <3> QED BY <1>2, <2>1, <2>2 DEF Fits, DownOnlyAuto
  <2>5. \A c \in calm : c.r = r /\ y.op = "update" => Undisturbed(y, c.active, script, active)
    <3> SUFFICES ASSUME NEW c \in calm, c.r = r, y.op = "update"
                 PROVE  Undisturbed(y, c.active, script, active)
      OBVIOUS
    <3>1. Undisturbed(x, c.active, script, active)
      BY <2>2 DEF SieveInv, Alone
    <3> HIDE DEF x
    <3>2. \A s \in y.said : s = S!Status(script[S!Auto], y.listed)
      BY <2>2, <2>3
    <3> QED BY <2>1, <2>2, <3>1, <3>2 DEF Undisturbed
  <2>6. y.op = editing[r].op
    BY <2>2
  <2> QED BY <1>1, <2>1, <2>4, <2>5, <2>6, LooksOn
<1> QED BY <1>3, <1>4

\* Every step of a request about scripts keeps SieveInv.
LEMMA SieveStep ==
  ASSUME SieveInv, [S!Next]_S!vars
  PROVE  SieveInv'
<1>1. ASSUME NEW r \in Editors, NEW n \in S!ScriptNames, S!PutScript(r, n) PROVE SieveInv'
  <2>7. S!Begin(r, "put", n, FALSE, "put", None, None, None)
    BY <1>1 DEF S!PutScript
  <2>8. Fits([op |-> "put", of |-> n, on |-> FALSE, at |-> "put", text |-> None, start |-> None, end |-> None,
              listed |-> FALSE, late |-> FALSE, said |-> {}],
             script, active)
    BY SMT DEF Fits, DownOnlyAuto
  <2>9. FirstPuts("put", "put")
    BY DEF FirstPuts
  <2> QED BY <2>7, <2>8, <2>9, BeginStep
<1>2. ASSUME NEW r \in Editors, NEW n \in S!ScriptNames, S!ActivateScript(r, n) PROVE SieveInv'
  <2>7. S!Begin(r, "activate", n, TRUE, "list", None, None, None)
    BY <1>2 DEF S!ActivateScript
  <2>8. Fits([op |-> "activate", of |-> n, on |-> TRUE, at |-> "list", text |-> None, start |-> None, end |-> None,
              listed |-> FALSE, late |-> FALSE, said |-> {}],
             script, active)
    BY SMT DEF Fits, DownOnlyAuto
  <2>9. FirstPuts("activate", "list")
    BY DEF FirstPuts
  <2> QED BY <2>7, <2>8, <2>9, BeginStep
<1>3. ASSUME NEW r \in Editors, S!DeactivateScript(r) PROVE SieveInv'
  <2>7. S!Begin(r, "deactivate", None, FALSE, "deactivate", None, None, None)
    BY <1>3 DEF S!DeactivateScript
  <2>8. Fits([op |-> "deactivate", of |-> None, on |-> FALSE, at |-> "deactivate", text |-> None, start |-> None, end |-> None,
              listed |-> FALSE, late |-> FALSE, said |-> {}],
             script, active)
    BY SMT DEF Fits, DownOnlyAuto
  <2>9. FirstPuts("deactivate", "deactivate")
    BY DEF FirstPuts
  <2> QED BY <2>7, <2>8, <2>9, BeginStep
<1>4. ASSUME NEW r \in Editors, NEW t \in Texts, NEW span \in Spans, NEW on \in BOOLEAN,
             S!Update(r, on, t, span[1], span[2])
      PROVE  SieveInv'
  <2>1. span[1] \in Nat \cup {None} /\ span[2] \in Nat \cup {None}
    BY SieveAssumption
  <2>7. S!Begin(r, "update", S!Auto, on, "put", t, span[1], span[2])
    BY <1>4 DEF S!Update
  <2>8. Fits([op |-> "update", of |-> S!Auto, on |-> on, at |-> "put", text |-> t, start |-> span[1], end |-> span[2],
              listed |-> FALSE, late |-> FALSE, said |-> {}],
             script, active)
    BY <2>1, SMT DEF Fits, S!ScriptNames, DownOnlyAuto
  <2>9. FirstPuts("update", "put")
    BY DEF FirstPuts
  <2> QED BY <2>7, <2>8, <2>9, BeginStep
<1>5. CASE UNCHANGED S!vars
  BY <1>5 DEF S!vars, SieveInv, Stored, Alone, S!Open
<1> QED BY <1>1, <1>2, <1>3, <1>4, <1>5, CommandStep, ListStep, ReadStep DEF S!Next

\* What SieveInv says of the scripts and of the answers
LEMMA SieveGives ==
  ASSUME SieveInv
  PROVE  S!SieveHolds
<1>1. S!TypeOK
  BY DEF SieveInv, Stored, Fits, S!TypeOK
<1>2. S!FilterIsKept
  BY DEF SieveInv, Alone, Undisturbed, S!FilterIsKept
<1>3. S!DisablesOnlyLate
  BY DEF SieveInv, Fits, DownOnlyAuto, S!DisablesOnlyLate
<1>4. S!SaidIsDone
  <2> SUFFICES ASSUME NEW c \in calm, editing[c.r].op = "update", editing[c.r].at = "done"
               PROVE  LET x == editing[c.r] IN
                      /\ (active = S!Auto) = x.on
                      /\ \A s \in x.said :
                           /\ s.enabled = x.on /\ s.recognised /\ s.text = x.text
                           /\ \A d \in S!Days : d \in script[S!Auto].answers <=>
                                (s.start = None \/ s.start <= d) /\ (s.end = None \/ d <= s.end)
    BY DEF S!SaidIsDone
  <2> DEFINE x == editing[c.r]
  <2>1. Fits(x, script, active) /\ Undisturbed(x, c.active, script, active)
    BY DEF SieveInv, Alone
  <2> HIDE DEF x
  <2>2. /\ script[S!Auto] = S!Generate(x.text, x.start, x.end) /\ ((active = S!Auto) <=> x.on)
        /\ (x.listed <=> x.on) /\ \A s \in x.said : s = S!Status(script[S!Auto], x.listed)
        /\ x.on \in BOOLEAN /\ x.listed \in BOOLEAN
        /\ x.start \in Nat \cup {None} /\ x.end \in Nat \cup {None}
    BY <2>1 DEF Undisturbed, Fits, x
  <2>3. ASSUME NEW s \in x.said
        PROVE  /\ s.enabled = x.on /\ s.recognised /\ s.text = x.text
               /\ s.start = x.start /\ s.end = x.end
    BY <2>2 DEF S!Status, S!Generate
  <2>4. \A d \in S!Days : d \in script[S!Auto].answers <=>
           (x.start = None \/ x.start <= d) /\ (x.end = None \/ d <= x.end)
    <3> TAKE d \in S!Days
    <3>1. d \in script[S!Auto].answers <=> (x.start # None => d >= x.start) /\ (x.end # None => d <= x.end)
      BY <2>2 DEF S!Generate
    <3>2. d \in Int
      BY SieveAssumption DEF S!Days
    <3> QED BY <2>2, <3>1, <3>2
  <2>5. (active = S!Auto) = x.on
    BY <2>2
  <2> QED BY <2>3, <2>4, <2>5 DEF x
<1> QED BY <1>1, <1>2, <1>3, <1>4 DEF S!SieveHolds

\* An update of the autoresponder that nothing overlaps leaves it on the days
\* it shows, reports it as it is, and never costs the mailbox its own filter.
LEMMA SieveAlwaysHolds == S!Spec => []S!SieveHolds
<1>1. S!Init => SieveInv
  <2> SUFFICES ASSUME S!Init PROVE SieveInv
    OBVIOUS
  <2>1. S!Generate(CHOOSE t \in Texts : TRUE, 1, None).header
        /\ S!Generate(CHOOSE t \in Texts : TRUE, 1, None).answers \subseteq S!Days
    <3>1. (CHOOSE t \in Texts : TRUE) \in Texts
      BY SieveAssumption
    <3> QED BY <3>1, GeneratedIsStored
  <2>2. Stored(script, active)
    BY <2>1 DEF S!Init, Stored
  <2> QED BY <2>2 DEF S!Init, SieveInv
<1> QED BY <1>1, SieveStep, SieveGives, PTL DEF S!Spec

-----------------------------------------------------------------------------
(***************************************************************************)
(* Broker                                                                  *)
(***************************************************************************)

\* Cardinality as Broker has it
LEMMA BrokerCardinality == \A K : B!Cardinality(K) = Cardinality(K)
BY Zenon DEF B!Cardinality, Cardinality

Stands(h, i) == h[i] # None /\ ~h[i].gone

HostInv ==
  /\ DOMAIN host = Ids /\ \A i \in Ids : host[i] \in Containers \cup {None}
  /\ volumes \subseteq Volumes /\ config \in Configs
  /\ \A i \in B!There : host[i].data \cup host[i].other \subseteq volumes
  /\ \A i, j \in B!There : host[i].name = host[j].name => i = j

\* A name a self-update goes by still leads to the container that was meant by
\* it and to no other, of those the operator has not touched.
Tracks(x, h) ==
  \A k \in {"server", "broker"} :
    /\ \E n : x.names[k] = {n}
    /\ \E m \in Ids : x.meant[k] = {m}
    /\ \A i \in Ids \ x.touched : i \in x.meant[k] <=> Stands(h, i) /\ h[i].name \in x.names[k]

\* How far a self-update has come, and what its look-ups have found
Updates(x, h) ==
  LET panel == x.meant.server \cup x.meant.broker
  IN /\ x.at \in {"launch", "server", "broker", "replace", "done", "failed", "refused"}
     /\ x.at # "refused" => panel \cap x.meant.dms = {} /\ Cardinality(panel) = 2
     /\ x.at \in {"launch", "server", "broker"} => Tracks(x, h)
     /\ x.ids \ panel \subseteq x.touched
     /\ x.at = "server" => x.ids = {}
     /\ x.at = "broker" /\ x.meant.server \cap x.touched = {} => x.ids = x.meant.server
     /\ (x.at = "replace" \/ x.acted) /\ panel \cap x.touched = {} => x.ids = panel

\* What was decided when the containers were listed, and what was seen of the
\* one picked
Serves(x, h) ==
  /\ x.at \in {"inspect", "call", "done", "failed", "refused"}
  /\ x.ids # {} =>
       IF x.op = "panelRestart" THEN x.ids = x.meant.server /\ x.meant.server \cap x.meant.broker = {}
       ELSE x.ids = x.meant.dms /\ Cardinality(x.meant.dms) = 1
  /\ x.at \in {"inspect", "call"} \/ x.acted => x.ids # {}
  /\ x.op = "removeVolume" /\ x.ids # {} =>
       /\ \A i \in x.ids : h[i] # None
       /\ x.held = UNION {h[i].data : i \in x.ids}
       /\ x.at = "call" \/ x.acted => x.v \notin x.held
  /\ x.op = "removeVolume" \/ x.at # "inspect"

Decided(x, h) ==
  /\ {"at", "ids", "acted", "touched"} \subseteq DOMAIN x
  /\ x.ids \subseteq Ids /\ x.touched \subseteq Ids
  /\ x.acted => x.at \in {"done", "failed"}
  /\ IF x.op = "selfUpdate" THEN Updates(x, h) ELSE Serves(x, h)

BrokerInv == HostInv /\ \A r \in Askers : asked[r] = B!Unused \/ Decided(asked[r], host)

\* The picked containers are those that are meant.
LEMMA PickedIsMeant ==
  ASSUME HostInv, NEW op \in B!OnMail \cup B!OnPanel, B!Picked(op) # {}
  PROVE  /\ B!Picked(op) \subseteq Ids
         /\ CASE op = "panelRestart" ->
                   /\ B!Picked(op) = B!Matching(config.server)
                   /\ B!Matching(config.server) \cap B!Matching(config.broker) = {}
              [] op = "selfUpdate" ->
                   /\ B!Picked(op) = B!Matching(config.server) \cup B!Matching(config.broker)
                   /\ Cardinality(B!Picked(op)) = 2
                   /\ B!Picked(op) \cap B!Matching(config.dms) = {}
                   /\ \E x : B!Matching(config.server) = {x}
                   /\ \E x : B!Matching(config.broker) = {x}
              [] OTHER -> B!Picked(op) = B!Matching(config.dms) /\ Cardinality(B!Matching(config.dms)) = 1
<1>1. \A d : /\ B!Select(d) \subseteq B!Matching(d)
             /\ B!Select(d) # {} => B!Select(d) = B!Matching(d) /\ Cardinality(B!Matching(d)) = 1
  BY BrokerCardinality DEF B!Select
<1>2. \A d : B!Matching(d) \subseteq Ids /\ B!Matching(d) = {i \in B!There : B!Matches(i, d)}
  BY DEF B!Matching, B!There
<1>0. \A d : Cardinality(B!Matching(d)) = 1 => \E x : B!Matching(d) = {x}
  <2> TAKE d
  <2>1. IsFiniteSet(B!Matching(d))
    BY <1>2, BrokerAssumption, FS_Subset
  <2> QED BY <2>1, FS_Singleton
<1>3. CASE op \in B!OnMail
  <2>1. B!Picked(op) = B!Select(config.dms) /\ op # "panelRestart" /\ op # "selfUpdate"
    BY <1>3 DEF B!Picked, B!OnMail
  <2> QED BY <1>1, <1>2, <2>1
<1>4. CASE op = "panelRestart"
  <2>1. B!Picked(op) = {i \in B!Select(config.server) : ~B!Matches(i, config.broker)}
    BY <1>4 DEF B!Picked, B!OnMail
  <2>2. PICK x : B!Matching(config.server) = {x}
    BY <1>0, <1>1, <2>1
  <2> QED BY <1>1, <1>2, <1>4, <2>1, <2>2
<1>5. CASE op = "selfUpdate"
  <2>1. B!Picked(op) = LET s == B!Select(config.server)
                           b == B!Select(config.broker)
                       IN IF s = {} \/ b = {} \/ s = b \/ (\E i \in s \cup b : B!Matches(i, config.dms))
                          THEN {} ELSE s \cup b
    BY <1>5 DEF B!Picked, B!OnMail
  <2> DEFINE s == B!Matching(config.server)
             b == B!Matching(config.broker)
  <2>2. /\ B!Picked(op) = s \cup b /\ s # b /\ Cardinality(s) = 1 /\ Cardinality(b) = 1
        /\ \A i \in s \cup b : ~B!Matches(i, config.dms)
    BY <1>1, <2>1
  <2>3. PICK x, y : s = {x} /\ b = {y} /\ x # y
    <3>1. \E x : s = {x}
      BY <1>0, <2>2
    <3>2. \E y : b = {y}
      BY <1>0, <2>2
    <3> QED BY <2>2, <3>1, <3>2
  <2>4. Cardinality(s \cup b) = 2
    <3>1. IsFiniteSet({x}) /\ Cardinality({x}) = 1
      BY FS_Singleton
    <3>2. Cardinality({x} \cup {y}) = Cardinality({x}) + 1
      BY <2>3, <3>1, FS_AddElement
    <3> QED BY <2>3, <3>1, <3>2
  <2> QED BY <1>2, <1>5, <2>2, <2>3, <2>4
<1> QED BY <1>3, <1>4, <1>5 DEF B!OnPanel

\* The containers there were keep their mounts, and but for those in z also
\* their names and their being there.
SameButFor(h, k, z) ==
  \A i \in Ids :
    /\ h[i] # None => k[i] # None /\ k[i].data = h[i].data
    /\ i \notin z => (Stands(k, i) <=> Stands(h, i)) /\ (Stands(h, i) => k[i].name = h[i].name)

\* A deed or a call leaves to every request what it has decided; the deed is
\* noted by the self-updates it may mislead.
LEMMA DecidedStays ==
  ASSUME NEW x, NEW h, NEW k, NEW z, NEW y, Decided(x, h), SameButFor(h, k, z), z \subseteq Ids,
         DOMAIN y = DOMAIN x, y.ids = x.ids, y.op = x.op, y.v = x.v, y.at = x.at, y.meant = x.meant,
         y.held = x.held, y.acted = x.acted, y.names = x.names,
         y.touched = x.touched \/ y.touched = x.touched \cup z,
         x.op = "selfUpdate" /\ x.at \in {"launch", "server", "broker"} => y.touched = x.touched \cup z
  PROVE  Decided(y, k)
<1>1. ASSUME x.op = "selfUpdate" PROVE Updates(y, k)
  <2>1. Updates(x, h)
    BY <1>1 DEF Decided
  <2>2. ASSUME x.at \in {"launch", "server", "broker"}, NEW c \in {"server", "broker"}
        PROVE  /\ \E n : y.names[c] = {n}
               /\ \E m \in Ids : y.meant[c] = {m}
               /\ \A i \in Ids \ y.touched : i \in y.meant[c] <=> Stands(k, i) /\ k[i].name \in y.names[c]
    <3>1. /\ \E n : x.names[c] = {n}
          /\ \E m \in Ids : x.meant[c] = {m}
          /\ \A i \in Ids \ x.touched : i \in x.meant[c] <=> Stands(h, i) /\ h[i].name \in x.names[c]
      BY <2>1, <2>2 DEF Updates, Tracks
    <3>2. ASSUME NEW i \in Ids \ y.touched
          PROVE  i \in y.meant[c] <=> Stands(k, i) /\ k[i].name \in y.names[c]
      <4>1. i \notin z /\ i \in Ids \ x.touched
        BY <1>1, <2>2
      <4>2. (Stands(k, i) <=> Stands(h, i)) /\ (Stands(h, i) => k[i].name = h[i].name)
        BY <4>1 DEF SameButFor
      <4> QED BY <3>1, <4>1, <4>2
    <3> QED BY <3>1, <3>2
  <2>3. x.at \in {"launch", "server", "broker"} => Tracks(y, k)
    BY <2>2 DEF Tracks
  <2> QED BY <2>1, <2>3 DEF Updates
<1>2. ASSUME x.op # "selfUpdate" PROVE Serves(y, k)
  <2>1. Serves(x, h) /\ x.ids \subseteq Ids
    BY <1>2 DEF Decided
  <2>2. x.op = "removeVolume" /\ x.ids # {} =>
          /\ \A i \in x.ids : k[i] # None
          /\ UNION {k[i].data : i \in x.ids} = UNION {h[i].data : i \in x.ids}
    BY <2>1 DEF Serves, SameButFor
  <2> QED BY <2>1, <2>2 DEF Serves
<1> QED BY <1>1, <1>2 DEF Decided

\* A request takes a step that is right for it, and nothing is taken from the
\* containers there were.
LEMMA RequestGoesOn ==
  ASSUME BrokerInv, HostInv', NEW r \in Askers, NEW x, asked' = [asked EXCEPT ![r] = x], Decided(x, host),
         SameButFor(host, host', {})
  PROVE  BrokerInv'
<1>1. ASSUME NEW s \in Askers PROVE asked'[s] = B!Unused \/ Decided(asked'[s], host')
  <2>1. asked'[s] = x \/ asked'[s] = asked[s]
    OBVIOUS
  <2>2. asked[s] = B!Unused \/ Decided(asked[s], host)
    BY DEF BrokerInv
  <2>3. asked'[s] = B!Unused \/ Decided(asked'[s], host)
    BY <2>1, <2>2
  <2>4. \A y : Decided(y, host) => Decided(y, host')
    BY DecidedStays
  <2> QED BY <2>3, <2>4
<1> QED BY <1>1 DEF BrokerInv

\* A request takes such a step and the host stays as it is.
LEMMA RequestGoesOnAlone ==
  ASSUME BrokerInv, NEW r \in Askers, NEW x, asked' = [asked EXCEPT ![r] = x], Decided(x, host),
         UNCHANGED <<host, volumes, config>>
  PROVE  BrokerInv'
<1>1. HostInv'
  BY DEF BrokerInv, HostInv, B!There
<1>2. SameButFor(host, host', {})
  BY DEF SameButFor, Stands
<1> QED BY <1>1, <1>2, RequestGoesOn

\* The containers are listed and picked, or the request is refused
\* (resolveOrForbid, handlePanelRestart, resolvePanelIdentities).
LEMMA ResolveStep ==
  ASSUME BrokerInv, NEW r \in Askers, NEW op \in B!OnMail \cup B!OnPanel, NEW v, B!Resolve(r, op, v)
  PROVE  BrokerInv'
<1> DEFINE x == [op |-> op, v |-> v, ids |-> B!Picked(op), acted |-> FALSE,
                 at |-> IF B!Picked(op) = {} THEN "refused" ELSE B!First(op),
                 names |-> [k \in {"server", "broker"} |-> {host[i].name : i \in B!Matching(config[k])}],
                 meant |-> [k \in {"dms", "server", "broker"} |-> B!Matching(config[k])],
                 held |-> UNION {B!Protected(i) : i \in B!Matching(config.dms)}, touched |-> {}]
<1>1. asked' = [asked EXCEPT ![r] = x] /\ UNCHANGED <<host, volumes, config>>
  BY DEF B!Resolve
<1>2. Decided(x, host)
  <2>1. /\ x.op = op /\ x.v = v /\ x.ids = B!Picked(op) /\ x.acted = FALSE /\ x.touched = {}
        /\ x.meant.dms = B!Matching(config.dms)
        /\ \A k \in {"server", "broker"} :
             /\ x.meant[k] = B!Matching(config[k])
             /\ x.names[k] = {host[i].name : i \in B!Matching(config[k])}
        /\ x.held = UNION {host[i].data : i \in B!Matching(config.dms)}
        /\ x.at = IF x.ids = {} THEN "refused" ELSE B!First(op)
        /\ {"at", "ids", "acted", "touched"} \subseteq DOMAIN x
    BY DEF B!Protected
  <2> HIDE DEF x
  <2>2. x.ids \subseteq Ids
    BY <2>1, PickedIsMeant DEF BrokerInv
  <2>3. \A k : B!Matching(k) \subseteq Ids /\ \A i \in B!Matching(k) : Stands(host, i)
    BY DEF B!Matching, B!There, Stands
  <2>4. ASSUME op = "selfUpdate" PROVE Updates(x, host)
    <3>1. x.at = IF x.ids = {} THEN "refused" ELSE "launch"
      BY <2>1, <2>4 DEF B!First
    <3>2. x.ids # {} =>
            /\ x.ids = x.meant.server \cup x.meant.broker /\ Cardinality(x.ids) = 2
            /\ x.ids \cap x.meant.dms = {}
      BY <2>1, <2>4, PickedIsMeant DEF BrokerInv
    <3>3. ASSUME x.ids # {}, NEW k \in {"server", "broker"}
          PROVE  /\ \E n : x.names[k] = {n}
                 /\ \E m \in Ids : x.meant[k] = {m}
                 /\ \A i \in Ids \ x.touched : i \in x.meant[k] <=> Stands(host, i) /\ host[i].name \in x.names[k]
      <4>1. PICK m : B!Matching(config[k]) = {m}
        BY <2>1, <2>4, <3>3, PickedIsMeant DEF BrokerInv
      <4>2. m \in Ids /\ Stands(host, m) /\ x.meant[k] = {m} /\ x.names[k] = {host[m].name}
        BY <2>1, <2>3, <4>1
      <4>3. \A i \in Ids : Stands(host, i) /\ host[i].name = host[m].name => i = m
        BY <4>2 DEF BrokerInv, HostInv, B!There, Stands
      <4> QED BY <4>2, <4>3
    <3>4. x.ids # {} => Tracks(x, host)
      BY <3>3 DEF Tracks
    <3> QED BY <2>1, <3>1, <3>2, <3>4 DEF Updates
  <2>5. ASSUME op # "selfUpdate" PROVE Serves(x, host)
    <3>1. x.at = IF x.ids = {} THEN "refused" ELSE IF op = "removeVolume" THEN "inspect" ELSE "call"
      BY <2>1, <2>5 DEF B!First
    <3>2. x.ids # {} =>
            IF op = "panelRestart" THEN x.ids = x.meant.server /\ x.meant.server \cap x.meant.broker = {}
            ELSE x.ids = x.meant.dms /\ Cardinality(x.meant.dms) = 1
      BY <2>1, <2>5, PickedIsMeant DEF BrokerInv
    <3>3. op = "removeVolume" /\ x.ids # {} =>
            x.ids = B!Matching(config.dms) /\ \A i \in x.ids : host[i] # None
      BY <2>1, <2>3, <3>2 DEF Stands
    <3> QED BY <2>1, <3>1, <3>2, <3>3 DEF Serves
  <2> QED BY <2>1, <2>2, <2>4, <2>5 DEF Decided
<1> HIDE DEF x
<1> QED BY <1>1, <1>2, RequestGoesOnAlone

\* The container is inspected before a volume is removed (handleVolumeRemove).
LEMMA InspectStep ==
  ASSUME BrokerInv, NEW r \in Askers, B!Inspect(r)
  PROVE  BrokerInv'
<1> DEFINE end == IF ~(asked[r].ids \subseteq B!There) THEN "failed"
                  ELSE IF \E i \in asked[r].ids : asked[r].v \in B!Protected(i) THEN "refused" ELSE "call"
           x == [asked[r] EXCEPT !.at = end]
<1>1. /\ asked[r].at = "inspect" /\ asked' = [asked EXCEPT ![r] = x]
      /\ UNCHANGED <<host, volumes, config>>
  BY DEF B!Inspect
<1>2. Decided(asked[r], host)
  BY <1>1 DEF BrokerInv, B!Unused
<1>3. Decided(x, host)
  <2>1. end = "call" => asked[r].v \notin UNION {host[i].data : i \in asked[r].ids}
    BY DEF B!Protected
  <2>2. end \in {"call", "failed", "refused"}
    OBVIOUS
  <2> HIDE DEF end
  <2>3. /\ x.ids = asked[r].ids /\ x.op = asked[r].op /\ x.v = asked[r].v /\ x.meant = asked[r].meant
        /\ x.held = asked[r].held /\ x.acted = asked[r].acted /\ x.at = end /\ x.touched = asked[r].touched
        /\ DOMAIN x = DOMAIN asked[r]
    BY <1>2 DEF Decided
  <2> HIDE DEF x
  <2>4. asked[r].op # "selfUpdate" /\ Serves(asked[r], host) /\ ~asked[r].acted
    BY <1>1, <1>2 DEF Decided, Updates
  <2>5. asked[r].ids # {} /\ asked[r].op = "removeVolume"
    BY <1>1, <2>4 DEF Serves
  <2>6. asked[r].held = UNION {host[i].data : i \in asked[r].ids} /\ \A i \in asked[r].ids : host[i] # None
    BY <2>4, <2>5 DEF Serves
  <2>7. x.at = "call" => x.v \notin x.held
    BY <2>1, <2>3, <2>6
  <2>8. Serves(x, host)
    BY <2>2, <2>3, <2>4, <2>5, <2>6, <2>7 DEF Serves
  <2> QED BY <1>2, <2>3, <2>4, <2>8 DEF Decided
<1> HIDE DEF x
<1> QED BY <1>1, <1>3, RequestGoesOnAlone

\* A request that is under way ends with a call of Docker's, which only one
\* whose volume is not the mail server's gets to make to remove it.
LEMMA ActsRightly ==
  ASSUME NEW x, NEW y, NEW end \in {"done", "failed"}, x.at = "call" \/ x.at = "replace",
         y = [x EXCEPT !.at = end, !.acted = TRUE], Decided(x, host)
  PROVE  Decided(y, host)
<1>1. /\ y.ids = x.ids /\ y.op = x.op /\ y.v = x.v /\ y.meant = x.meant /\ y.held = x.held /\ y.at = end
      /\ y.touched = x.touched /\ DOMAIN y = DOMAIN x
  BY DEF Decided
<1>2. CASE x.op = "selfUpdate"
  <2>1. Updates(x, host) /\ x.at = "replace"
    BY <1>2 DEF Decided, Updates
  <2> QED BY <1>1, <1>2, <2>1 DEF Decided, Updates
<1>3. CASE x.op # "selfUpdate"
  <2>1. Serves(x, host) /\ x.at = "call"
    BY <1>3 DEF Decided, Serves
  <2>2. Serves(y, host)
    BY <1>1, <1>3, <2>1 DEF Serves
  <2> QED BY <1>1, <1>3, <2>2 DEF Decided
<1> QED BY <1>2, <1>3

\* Docker starts, stops or restarts the container (handleContainerStart and its
\* siblings), removes the volume (handleVolumeRemove), or replaces the
\* containers the updater has found (runSelfUpdate).
LEMMA CallStep ==
  ASSUME BrokerInv, NEW r \in Askers, B!Call(r) \/ B!RemoveVolume(r) \/ B!Replace(r)
  PROVE  BrokerInv'
<1>1. PICK end \in {"done", "failed"} : asked' = [asked EXCEPT ![r].at = end, ![r].acted = TRUE]
  BY DEF B!Call, B!RemoveVolume, B!Replace, B!Acts
<1> DEFINE x == [asked[r] EXCEPT !.at = end, !.acted = TRUE]
<1>2. asked' = [asked EXCEPT ![r] = x] /\ (asked[r].at = "call" \/ asked[r].at = "replace")
  BY <1>1 DEF B!Call, B!RemoveVolume, B!Replace
<1>3. Decided(x, host)
  <2>1. Decided(asked[r], host)
    BY <1>2 DEF BrokerInv, B!Unused
  <2> QED BY <1>2, <2>1, ActsRightly
<1> HIDE DEF x
<1>4. CASE B!Call(r)
  <2>1. /\ host' = [i \in Ids |->
             IF i \in asked[r].ids /\ asked[r].op # "read"
             THEN [host[i] EXCEPT !.up = asked[r].op # "stop"] ELSE host[i]]
        /\ asked[r].ids \subseteq B!There /\ UNCHANGED <<volumes, config>>
    BY <1>4 DEF B!Call, B!Acts
  <2>2. \A i \in Ids : host[i] # None => host[i] \in Containers
    BY DEF BrokerInv, HostInv
  <2>3. \A i \in Ids : host[i] = None => i \notin asked[r].ids /\ host'[i] = None
    BY <2>1 DEF B!There
  <2>4. \A i \in Ids : host[i] # None =>
          /\ host'[i] \in Containers /\ host'[i].data = host[i].data /\ host'[i].other = host[i].other
          /\ host'[i].gone = host[i].gone /\ host'[i].name = host[i].name
    BY <2>1, <2>2 DEF Containers
  <2>5. \A i \in Ids : host[i] # None => host'[i] # None
    BY <2>4, BrokerAssumption
  <2>6. HostInv'
    <3>1. DOMAIN host' = Ids /\ \A i \in Ids : host'[i] \in Containers \cup {None}
      BY <2>1, <2>3, <2>4
    <3>2. \A i \in B!There' : i \in B!There /\ host'[i].data \cup host'[i].other \subseteq volumes'
                              /\ host'[i].name = host[i].name
      BY <2>1, <2>3, <2>4 DEF B!There, BrokerInv, HostInv
    <3>3. \A i, j \in B!There' : host'[i].name = host'[j].name => i = j
      BY <3>2 DEF BrokerInv, HostInv
    <3> QED BY <2>1, <3>1, <3>2, <3>3 DEF BrokerInv, HostInv
  <2>7. SameButFor(host, host', {})
    BY <2>3, <2>4, <2>5 DEF SameButFor, Stands
  <2> QED BY <1>2, <1>3, <2>6, <2>7, RequestGoesOn
<1>5. CASE B!RemoveVolume(r)
  <2>1. HostInv'
    BY <1>5 DEF BrokerInv, HostInv, B!There, B!RemoveVolume
  <2>2. SameButFor(host, host', {})
    BY <1>5 DEF B!RemoveVolume, SameButFor, Stands
  <2> QED BY <1>2, <1>3, <2>1, <2>2, RequestGoesOn
<1>6. CASE B!Replace(r)
  <2>1. UNCHANGED <<host, volumes, config>>
    BY <1>6 DEF B!Replace
  <2> QED BY <1>2, <1>3, <2>1, RequestGoesOnAlone
<1> QED BY <1>4, <1>5, <1>6

\* The updater is made (handlePanelSelfUpdateApply).
LEMMA LaunchStep ==
  ASSUME BrokerInv, NEW r \in Askers, B!Launch(r)
  PROVE  BrokerInv'
<1> DEFINE x == [asked[r] EXCEPT !.at = "server", !.ids = {}]
<1>1. asked' = [asked EXCEPT ![r] = x] /\ asked[r].at = "launch" /\ UNCHANGED <<host, volumes, config>>
  BY DEF B!Launch
<1>2. Decided(asked[r], host)
  BY <1>1 DEF BrokerInv, B!Unused
<1>3. Decided(x, host)
  <2>1. /\ x.ids = {} /\ x.op = asked[r].op /\ x.meant = asked[r].meant /\ x.acted = asked[r].acted
        /\ x.at = "server" /\ x.touched = asked[r].touched /\ x.names = asked[r].names
        /\ DOMAIN x = DOMAIN asked[r]
    BY <1>2 DEF Decided
  <2> HIDE DEF x
  <2>2. asked[r].op = "selfUpdate" /\ Updates(asked[r], host) /\ ~asked[r].acted
    BY <1>1, <1>2 DEF Decided, Serves
  <2>3. Tracks(x, host)
    BY <1>1, <2>1, <2>2 DEF Updates, Tracks
  <2>4. Updates(x, host)
    BY <1>1, <2>1, <2>2, <2>3 DEF Updates
  <2> QED BY <1>2, <2>1, <2>2, <2>4 DEF Decided
<1> HIDE DEF x
<1> QED BY <1>1, <1>3, RequestGoesOnAlone

\* A look-up by name finds the container that was meant, or one the operator
\* has touched (resolveIdByName).
LEMMA FindStep ==
  ASSUME BrokerInv, NEW r \in Askers, B!Find(r)
  PROVE  BrokerInv'
<1> DEFINE k == asked[r].at
           found == {i \in B!There : host[i].name \in asked[r].names[k]}
           end == IF found = {} THEN "failed" ELSE IF k = "server" THEN "broker" ELSE "replace"
           x == [asked[r] EXCEPT !.ids = @ \cup found, !.at = end]
<1>1. asked' = [asked EXCEPT ![r] = x] /\ k \in {"server", "broker"} /\ UNCHANGED <<host, volumes, config>>
  BY DEF B!Find
<1>2. Decided(asked[r], host)
  BY <1>1 DEF BrokerInv, B!Unused
<1>3. /\ x.ids = asked[r].ids \cup found /\ x.op = asked[r].op /\ x.meant = asked[r].meant
      /\ x.acted = asked[r].acted /\ x.at = end /\ x.touched = asked[r].touched
      /\ x.names = asked[r].names /\ DOMAIN x = DOMAIN asked[r]
  BY <1>2 DEF Decided
<1> HIDE DEF x
<1>4. asked[r].op = "selfUpdate" /\ Updates(asked[r], host) /\ ~asked[r].acted /\ Tracks(asked[r], host)
  BY <1>1, <1>2 DEF Decided, Serves, Updates
<1>5. \A i \in found : i \in Ids /\ Stands(host, i) /\ host[i].name \in asked[r].names[k]
  BY DEF B!There, Stands
<1>6. found \ asked[r].meant[k] \subseteq asked[r].touched
  BY <1>1, <1>4, <1>5 DEF Tracks
<1>7. ASSUME asked[r].meant[k] \cap asked[r].touched = {} PROVE found = asked[r].meant[k]
  <2>1. PICK m \in Ids : asked[r].meant[k] = {m}
    BY <1>1, <1>4 DEF Tracks
  <2>2. PICK n : asked[r].names[k] = {n}
    BY <1>1, <1>4 DEF Tracks
  <2>3. Stands(host, m) /\ host[m].name = n
    BY <1>1, <1>4, <1>7, <2>1, <2>2 DEF Tracks
  <2>4. m \in found
    BY <2>2, <2>3 DEF B!There, Stands
  <2>5. \A i \in found : i = m
    BY <1>5, <2>2, <2>3 DEF BrokerInv, HostInv, B!There, Stands
  <2> QED BY <2>1, <2>4, <2>5
<1>8. Decided(x, host)
  <2> HIDE DEF found
  <2> DEFINE m == asked[r].meant
  <2>1. end \in {"failed", "broker", "replace"}
    OBVIOUS
  <2>2. end = "broker" => k = "server"
    OBVIOUS
  <2>3. end = "replace" => k = "broker"
    BY <1>1
  <2>4. m[k] = m.server \/ m[k] = m.broker
    BY <1>1
  <2>5. k = "server" => m[k] = m.server
    OBVIOUS
  <2>6. k = "broker" => m[k] = m.broker
    OBVIOUS
  <2> HIDE DEF end, k
  <2>7. x.ids \ (m.server \cup m.broker) \subseteq x.touched
    BY <1>3, <1>4, <1>6, <2>4 DEF Updates
  <2>8. k = "server" => asked[r].ids = {}
    BY <1>4 DEF Updates, k
  <2>9. end = "broker" /\ m.server \cap x.touched = {} => x.ids = m.server
    BY <1>3, <1>7, <2>2, <2>5, <2>8
  <2>10. k = "broker" /\ m.server \cap x.touched = {} => asked[r].ids = m.server
    BY <1>3, <1>4 DEF Updates, k
  <2>11. end = "replace" /\ (m.server \cup m.broker) \cap x.touched = {} => x.ids = m.server \cup m.broker
    BY <1>3, <1>7, <2>3, <2>6, <2>10
  <2>12. Tracks(x, host)
    BY <1>3, <1>4 DEF Tracks
  <2>13. (m.server \cup m.broker) \cap m.dms = {} /\ Cardinality(m.server \cup m.broker) = 2
    BY <1>1, <1>4 DEF Updates, k
  <2>14. Updates(x, host)
    BY <1>3, <1>4, <2>1, <2>7, <2>9, <2>11, <2>12, <2>13 DEF Updates
  <2>15. x.ids \subseteq Ids /\ x.touched \subseteq Ids
    BY <1>2, <1>3, <1>5 DEF Decided
  <2> QED BY <1>2, <1>3, <1>4, <2>14, <2>15 DEF Decided
<1> HIDE DEF end, k, found
<1> QED BY <1>1, <1>8, RequestGoesOnAlone

\* A call of Docker fails, and nothing has happened.
LEMMA BrokerFailStep ==
  ASSUME BrokerInv, NEW r \in Askers, B!Fail(r)
  PROVE  BrokerInv'
<1> DEFINE x == [asked[r] EXCEPT !.at = "failed"]
<1>1. B!UnderWay(r) /\ asked' = [asked EXCEPT ![r] = x] /\ UNCHANGED <<host, volumes, config>>
  BY DEF B!Fail
<1>2. Decided(asked[r], host)
  BY <1>1 DEF BrokerInv, B!Unused, B!UnderWay
<1>3. Decided(x, host)
  <2>1. /\ x.ids = asked[r].ids /\ x.op = asked[r].op /\ x.v = asked[r].v /\ x.meant = asked[r].meant
        /\ x.held = asked[r].held /\ x.at = "failed" /\ x.acted = asked[r].acted
        /\ x.touched = asked[r].touched /\ DOMAIN x = DOMAIN asked[r]
    BY <1>2 DEF Decided
  <2> HIDE DEF x
  <2>2. ~asked[r].acted /\ asked[r].at # "refused"
    BY <1>1, <1>2 DEF Decided, B!UnderWay
  <2>3. asked[r].op = "selfUpdate" => Updates(x, host)
    BY <1>2, <2>1, <2>2 DEF Decided, Updates
  <2>4. asked[r].op # "selfUpdate" => Serves(x, host)
    BY <1>2, <2>1, <2>2 DEF Decided, Serves
  <2> QED BY <1>2, <2>1, <2>2, <2>3, <2>4 DEF Decided
<1> HIDE DEF x
<1> QED BY <1>1, <1>3, RequestGoesOnAlone

\* The operator gives out an id once, a container keeps its mounts, and a name
\* is one container's.
LEMMA OutsideStep ==
  ASSUME BrokerInv, B!Outside
  PROVE  BrokerInv'
<1>0. HostInv /\ config' = config
  BY DEF BrokerInv, B!Outside, B!Create, B!Remove, B!Rename, B!Deed
<1>1. \E i \in Ids : B!Deed(i) /\ HostInv' /\ SameButFor(host, host', {i})
  <2>1. ASSUME NEW i \in Ids, NEW n \in ContainerNames, NEW L \in SUBSET Labels, NEW m \in Mounts,
               B!Create(i, n, L, m)
        PROVE  B!Deed(i) /\ HostInv' /\ SameButFor(host, host', {i})
    <3> DEFINE c == [name |-> n, labels |-> L, data |-> m.data, other |-> m.other, up |-> TRUE, gone |-> FALSE]
    <3>1. /\ c \in Containers /\ c.data \subseteq Volumes /\ c.other \subseteq Volumes
          /\ c.data = m.data /\ c.other = m.other /\ c.name = n
      BY BrokerAssumption DEF Containers
    <3>2. /\ host[i] = None /\ host' = [host EXCEPT ![i] = c] /\ volumes' = volumes \cup m.data \cup m.other
          /\ B!Deed(i) /\ \A j \in B!There : host[j].name # n
      BY <2>1 DEF B!Create, B!FreeName
    <3> HIDE DEF c
    <3>3. \A j \in Ids : host'[j] = IF j = i THEN c ELSE host[j]
      BY <1>0, <3>2 DEF HostInv
    <3>4. HostInv'
      <4>1. \A j, l \in B!There' : host'[j].name = host'[l].name => j = l
        BY <1>0, <3>1, <3>2, <3>3 DEF HostInv, B!There
      <4>2. /\ DOMAIN host' = Ids /\ \A j \in Ids : host'[j] \in Containers \cup {None}
            /\ volumes' \subseteq Volumes
        BY <1>0, <3>1, <3>2, <3>3 DEF HostInv
      <4>3. \A j \in B!There' : host'[j].data \cup host'[j].other \subseteq volumes'
        BY <1>0, <3>1, <3>2, <3>3 DEF HostInv, B!There
      <4> QED BY <1>0, <4>1, <4>2, <4>3 DEF HostInv
    <3>5. SameButFor(host, host', {i})
      BY <3>2, <3>3 DEF SameButFor, Stands
    <3> QED BY <3>2, <3>4, <3>5
  <2>2. ASSUME NEW i \in B!There, B!Remove(i)
        PROVE  B!Deed(i) /\ HostInv' /\ SameButFor(host, host', {i})
    <3>1. B!Deed(i) /\ host' = [host EXCEPT ![i].gone = TRUE, ![i].up = FALSE] /\ volumes' = volumes
      BY <2>2 DEF B!Remove
    <3>2. i \in Ids /\ host[i] \in Containers
      BY <1>0 DEF HostInv, B!There
    <3>3. \A j \in Ids : host'[j] = IF j = i THEN [host[i] EXCEPT !.gone = TRUE, !.up = FALSE] ELSE host[j]
      BY <1>0, <3>1, <3>2 DEF HostInv
    <3>4. host'[i] \in Containers /\ host'[i].data = host[i].data /\ host'[i].gone
      BY <3>2, <3>3 DEF Containers
    <3>5. HostInv'
      BY <1>0, <3>1, <3>3, <3>4 DEF HostInv, B!There
    <3>6. SameButFor(host, host', {i})
      BY <3>3, <3>4, BrokerAssumption DEF SameButFor, Stands
    <3> QED BY <3>1, <3>5, <3>6
  <2>3. ASSUME NEW i \in B!There, NEW n \in ContainerNames, B!Rename(i, n)
        PROVE  B!Deed(i) /\ HostInv' /\ SameButFor(host, host', {i})
    <3>1. /\ B!Deed(i) /\ host' = [host EXCEPT ![i].name = n] /\ volumes' = volumes
          /\ \A j \in B!There : host[j].name # n
      BY <2>3 DEF B!Rename, B!FreeName
    <3>2. i \in Ids /\ host[i] \in Containers
      BY <1>0 DEF HostInv, B!There
    <3>3. \A j \in Ids : host'[j] = IF j = i THEN [host[i] EXCEPT !.name = n] ELSE host[j]
      BY <1>0, <3>1, <3>2 DEF HostInv
    <3>4. /\ host'[i] \in Containers /\ host'[i].data = host[i].data /\ host'[i].other = host[i].other
          /\ host'[i].gone = host[i].gone /\ host'[i].name = n
      BY <3>2, <3>3 DEF Containers
    <3>5. \A j \in B!There' : j \in B!There
      BY <3>3, <3>4 DEF B!There
    <3>6. HostInv'
      <4>1. \A j, l \in B!There' : host'[j].name = host'[l].name => j = l
        BY <1>0, <3>1, <3>3, <3>4, <3>5 DEF HostInv
      <4>2. \A j \in B!There' : host'[j].data \cup host'[j].other \subseteq volumes'
        BY <1>0, <3>1, <3>3, <3>4, <3>5 DEF HostInv
      <4> QED BY <1>0, <3>1, <3>3, <3>4, <4>1, <4>2 DEF HostInv
    <3>7. SameButFor(host, host', {i})
      BY <3>3, <3>4, BrokerAssumption DEF SameButFor, Stands
    <3> QED BY <3>1, <3>6, <3>7
  <2>4. B!There \subseteq Ids
    BY DEF B!There
  <2> QED BY <2>1, <2>2, <2>3, <2>4 DEF B!Outside
<1>2. PICK i \in Ids : B!Deed(i) /\ HostInv' /\ SameButFor(host, host', {i})
  BY <1>1
<1>3. ASSUME NEW r \in Askers PROVE asked'[r] = B!Unused \/ Decided(asked'[r], host')
  <2> DEFINE x == asked[r]
             y == asked'[r]
  <2>1. y = IF B!UnderWay(r) /\ x.op = "selfUpdate" THEN [x EXCEPT !.touched = @ \cup {i}] ELSE x
    BY <1>2 DEF B!Deed
  <2>2. CASE x = B!Unused
    BY <2>1, <2>2 DEF B!UnderWay, B!Unused
  <2>3. CASE Decided(x, host)
    <3>1. /\ DOMAIN y = DOMAIN x /\ y.ids = x.ids /\ y.op = x.op /\ y.v = x.v /\ y.at = x.at
          /\ y.meant = x.meant /\ y.held = x.held /\ y.acted = x.acted /\ y.names = x.names
          /\ y.touched = x.touched \/ y.touched = x.touched \cup {i}
      BY <2>1, <2>3 DEF Decided
    <3>2. x.op = "selfUpdate" /\ x.at \in {"launch", "server", "broker"} => y.touched = x.touched \cup {i}
      BY <2>1, <2>3 DEF Decided, B!UnderWay
    <3> HIDE DEF x, y
    <3>3. Decided(y, host')
      BY <1>2, <2>3, <3>1, <3>2, DecidedStays
    <3> QED BY <3>3 DEF y
  <2> QED BY <2>2, <2>3 DEF BrokerInv
<1> QED BY <1>2, <1>3 DEF BrokerInv

\* Every step of the broker, of the updater's look-ups and of the host's
\* operator keeps BrokerInv.
LEMMA BrokerStep ==
  ASSUME BrokerInv, [B!Next]_B!vars
  PROVE  BrokerInv'
<1>1. ASSUME NEW r \in Askers, NEW op \in (B!OnMail \cup B!OnPanel) \ {"removeVolume"}, B!Resolve(r, op, None)
      PROVE  BrokerInv'
  BY <1>1, ResolveStep
<1>2. ASSUME NEW r \in Askers, NEW v \in Volumes, B!Resolve(r, "removeVolume", v)
      PROVE  BrokerInv'
  BY <1>2, ResolveStep DEF B!OnMail
<1>3. ASSUME NEW r \in Askers, B!Inspect(r) \/ B!Call(r) \/ B!RemoveVolume(r) \/ B!Fail(r)
      PROVE  BrokerInv'
  BY <1>3, InspectStep, CallStep, BrokerFailStep
<1>4. ASSUME NEW r \in Askers, B!Launch(r) \/ B!Find(r) \/ B!Replace(r)
      PROVE  BrokerInv'
  BY <1>4, LaunchStep, FindStep, CallStep
<1>5. CASE UNCHANGED B!vars
  BY <1>5 DEF B!vars, BrokerInv, HostInv, B!There
<1> QED BY <1>1, <1>2, <1>3, <1>4, <1>5, OutsideStep DEF B!Next

\* Whatever the host's operator does between the broker's listing and its
\* call, Docker is called only for the container that was meant when they were
\* listed, and never to remove a volume with the mail server's data; and a
\* self-update replaces the panel's two containers, or else one of them has
\* been touched meanwhile and what is replaced in its place too
\* (selectSingleMatch, handleVolumeRemove, resolveIdByName).
THEOREM BrokerAlwaysHolds == B!Spec => []BrokerHolds
<1>1. B!Init => BrokerInv
  <2> SUFFICES ASSUME B!Init PROVE BrokerInv
    OBVIOUS
  <2>1. HostInv
    BY BrokerAssumption DEF B!Init, HostInv, B!There, Containers
  <2>2. \A r \in Askers : asked[r] = B!Unused
    BY DEF B!Init
  <2> QED BY <2>1, <2>2 DEF BrokerInv
<1>2. BrokerInv => BrokerHolds
  <2> SUFFICES ASSUME BrokerInv PROVE BrokerHolds
    OBVIOUS
  <2>1. B!TypeOK
    <3>1. /\ DOMAIN host = Ids /\ volumes \subseteq Volumes /\ config \in Configs
          /\ \A i \in B!There :
               /\ host[i].name \in ContainerNames /\ host[i].labels \subseteq Labels
               /\ host[i].data \cup host[i].other \subseteq volumes
      BY BrokerAssumption DEF BrokerInv, HostInv, B!There, Containers
    <3>2. ASSUME NEW r \in Askers, Decided(asked[r], host)
          PROVE  /\ asked[r].ids \cup asked[r].touched \subseteq Ids
                 /\ asked[r].at \in {"inspect", "call", "launch", "server", "broker", "replace",
                                     "done", "failed", "refused"}
      BY <3>2 DEF Decided, Updates, Serves
    <3> QED BY <3>1, <3>2 DEF BrokerInv, B!TypeOK, B!UnderWay
  <2>2. B!ActsOnWhatIsMeant
    <3>1. ASSUME NEW r \in Askers, Decided(asked[r], host), asked[r].acted
          PROVE  LET m == asked[r].meant
                     panel == m.server \cup m.broker
                 IN CASE asked[r].op = "panelRestart" -> asked[r].ids = m.server /\ m.server \cap m.broker = {}
                      [] asked[r].op = "selfUpdate" ->
                           /\ panel \cap m.dms = {} /\ Cardinality(panel) = 2
                           /\ panel \cap asked[r].touched = {} => asked[r].ids = panel
                           /\ asked[r].ids \ panel \subseteq asked[r].touched
                      [] OTHER -> asked[r].ids = m.dms /\ Cardinality(m.dms) = 1
      <4>1. asked[r].op = "selfUpdate" => Updates(asked[r], host) /\ asked[r].at # "refused"
        BY <3>1 DEF Decided
      <4>2. asked[r].op # "selfUpdate" => Serves(asked[r], host)
        BY <3>1 DEF Decided
      <4> QED BY <3>1, <4>1, <4>2 DEF Updates, Serves
    <3> QED BY <3>1, BrokerCardinality DEF BrokerInv, B!ActsOnWhatIsMeant
  <2>3. B!DataIsKept
    BY DEF BrokerInv, Decided, Serves, B!DataIsKept
  <2> QED BY <2>1, <2>2, <2>3 DEF BrokerHolds, B!BrokerHolds
<1> QED BY <1>1, <1>2, BrokerStep, PTL DEF B!Spec

-----------------------------------------------------------------------------
\* Undisturbed by another, a request about mailboxes, aliases and marks does
\* all it is asked or leaves mail on its way, fails half way without closing a
\* loop or emptying an alias, and is refused only for a loop it would have
\* closed (detectsAliasLoop, update, bulkRestrict); and an autoresponder answers
\* on the days it shows and never costs a mailbox its filter
\* (AutoresponderService.update).
THEOREM MailAlwaysHolds == M!Spec /\ S!Spec => []MailHolds
BY MailAlwaysKept, SieveAlwaysHolds, PTL DEF MailHolds

=============================================================================
