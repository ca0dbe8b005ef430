-------------------------------- MODULE Auth --------------------------------
(***************************************************************************)
(* Administrators, their sessions and their log-ins                        *)
(* (apps/server/src/modules/auth).                                         *)
(*                                                                         *)
(* Hashing and verifying a password is the only thing a handler here waits *)
(* for.  A task is a handler in such a wait: it has read the rows it needs *)
(* and will act on what it read.  Everything else, the session check of    *)
(* the preHandler hooks included, runs within one turn of the event loop.  *)
(*                                                                         *)
(* An e-mail address stands for its normalized form and a password for     *)
(* itself; a stored hash is the password it was made from.  An attempt is  *)
(* in the lockout window or forgotten, a session expires or goes idle at   *)
(* any moment.  pruneExpired is not modelled: no code calls it.            *)
(***************************************************************************)
EXTENDS Integers, FiniteSets, FiniteSetsExt

CONSTANTS Admins,     \* ids of administrator rows
          Sessions,   \* ids of session rows
          Emails, Ips, Passwords,
          Tasks,      \* handlers that may wait at once
          MaxPerEmail, MaxPerIp, \* LOCKOUT_POLICY
          MaxFails,   \* bound: failed attempts in the window, per address pair
          MaxChanges  \* bound: password changes

ASSUME LockoutAssumption == MaxPerEmail \in Nat \ {0} /\ MaxPerIp \in Nat \ {0}
ASSUME BoundAssumption == MaxFails \in Nat /\ MaxChanges \in Nat

VARIABLES
  admin,   \* admins
  ses,     \* sessions
  fails,   \* login_attempts with success = 0, in the window; TRUE: it was not locked out
  task,
  changes, \* history: password changes of each administrator
  chosen,  \* history: administrators who chose their own password
  acted,   \* history: administrators who administered others
  booted   \* history: administrators bootstrap created

vars == <<admin, ses, fails, task, changes, chosen, acted, booted>>

AdminRow ==
  [st : {"none", "row", "deleted"}, email : SUBSET Emails, pw : SUBSET Passwords,
   disabled : BOOLEAN, force : BOOLEAN]
NoAdmin == [st |-> "none", email |-> {}, pw |-> {}, disabled |-> FALSE, force |-> FALSE]

SessionRow ==
  [st : {"none", "live", "expired", "revoked"}, of : SUBSET Admins,
   born : 0 .. MaxChanges,  \* history: changes[of] when the row was written
   spared : BOOLEAN]        \* history: it made the last change
NoSession == [st |-> "none", of |-> {}, born |-> 0, spared |-> FALSE]

TaskState ==
  [at : {"idle", "login", "create", "change", "boot"},
   email : SUBSET Emails, ip : SUBSET Ips,
   tested : BOOLEAN,        \* login: it was not locked out
   match : BOOLEAN,         \* the password is the one of the row that was read
   who : SUBSET Admins,     \* the row that was read
   disabled : BOOLEAN,      \* its column
   s : SUBSET Sessions,     \* change: the calling session
   new : SUBSET Passwords]  \* the password being hashed
Idle == [at |-> "idle", email |-> {}, ip |-> {}, tested |-> FALSE, match |-> FALSE,
         who |-> {}, disabled |-> FALSE, s |-> {}, new |-> {}]

Attempts == Emails \X Ips \X BOOLEAN

Init ==
  /\ admin = [a \in Admins |-> NoAdmin]
  /\ ses = [s \in Sessions |-> NoSession]
  /\ fails = [x \in Attempts |-> 0]
  /\ task = [t \in Tasks |-> Idle]
  /\ changes = [a \in Admins |-> 0]
  /\ chosen = {} /\ acted = {} /\ booted = {}

Rows == {a \in Admins : admin[a].st = "row"}
\* countEnabled
Enabled == {a \in Rows : ~admin[a].disabled}
\* findByEmail
RowsOf(e) == {a \in Rows : admin[a].email = {e}}

Wait(t, state) == task[t] = Idle /\ task' = [task EXCEPT ![t] = state]
Resume(t, at) == task[t].at = at /\ task' = [task EXCEPT ![t] = Idle]

-----------------------------------------------------------------------------
(***************************************************************************)
(* Logging in                                                              *)
(***************************************************************************)

Failures(S) == MapThenSumSet(LAMBDA x : fails[x], S)
FailuresOfEmail(e) == Failures({e} \X Ips \X BOOLEAN)
FailuresOfIp(i) == Failures(Emails \X {i} \X BOOLEAN)

\* Slip: one failure too many is allowed for.
LockedOutLate(e, i) == FailuresOfEmail(e) > MaxPerEmail \/ FailuresOfIp(i) > MaxPerIp

\* isLockedOut
LockedOut(e, i) == FailuresOfEmail(e) >= MaxPerEmail \/ FailuresOfIp(i) >= MaxPerIp

\* login, up to its verifyPassword
Login(t, e, i, p) ==
  LET rows == IF LockedOut(e, i) THEN {} ELSE RowsOf(e)
  IN /\ Wait(t, [Idle EXCEPT !.at = "login", !.email = {e}, !.ip = {i},
                             !.tested = ~LockedOut(e, i),
                             !.match = \E a \in rows : admin[a].pw = {p},
                             !.who = rows,
                             !.disabled = \E a \in rows : admin[a].disabled])
     /\ UNCHANGED <<admin, ses, fails, changes, chosen, acted, booted>>

\* recordFailure: locked out, unknown, wrong password, or disabled
LoginFails(t) ==
  /\ Resume(t, "login") /\ (~task[t].match \/ task[t].disabled)
  /\ \E x \in task[t].email \X task[t].ip \X {task[t].tested} :
       /\ fails[x] < MaxFails
       /\ fails' = [fails EXCEPT ![x] = @ + 1]
  /\ UNCHANGED <<admin, ses, changes, chosen, acted, booted>>

\* clearFailuresForIdentifier
ClearFailures(e) == fails' = [x \in Attempts |-> IF x[1] = e THEN 0 ELSE fails[x]]

\* sessions.admin_id REFERENCES admins(id): the INSERT is accepted.
Referenced(a) == a \in Rows

\* The password was right: a session, unless the administrator was deleted
\* during the wait and the INSERT throws, after the attempts were written.
LoginSucceeds(t, s) ==
  /\ Resume(t, "login") /\ task[t].match /\ ~task[t].disabled
  /\ \A e \in task[t].email : ClearFailures(e)
  /\ ses[s] = NoSession
  /\ \E a \in task[t].who :
       ses' = IF Referenced(a)
              THEN [ses EXCEPT ![s] = [st |-> "live", of |-> {a}, born |-> changes[a], spared |-> FALSE]]
              ELSE ses
  /\ UNCHANGED <<admin, changes, chosen, acted, booted>>

\* An attempt leaves the lockout window.
AttemptAges(x) ==
  /\ fails[x] > 0 /\ fails' = [fails EXCEPT ![x] = @ - 1]
  /\ UNCHANGED <<admin, ses, task, changes, chosen, acted, booted>>

-----------------------------------------------------------------------------
(***************************************************************************)
(* Requests with a session                                                 *)
(***************************************************************************)

\* expiresAt or the idle deadline passes.
Expire(s) ==
  /\ ses[s].st = "live" /\ ses' = [ses EXCEPT ![s].st = "expired"]
  /\ UNCHANGED <<admin, fails, task, changes, chosen, acted, booted>>

\* validateSession accepts s as a session of a.
Valid(s, a) == ses[s].st = "live" /\ ses[s].of = {a} /\ a \in Enabled

\* requireSession without allowPasswordChangeRequired, and requirePermission:
\* the one role there is has every permission.
Authorized(s, a) == Valid(s, a) /\ ~admin[a].force

\* logout
Logout(s, a) ==
  /\ Valid(s, a) /\ ses' = [ses EXCEPT ![s].st = "revoked"]
  /\ UNCHANGED <<admin, fails, task, changes, chosen, acted, booted>>

\* changePassword, up to the new hash: the old one is tested against the row
\* the middleware read; a mismatch ends the call with nothing done.
ChangePassword(t, s, a, p) ==
  /\ Valid(s, a)
  /\ Wait(t, [Idle EXCEPT !.at = "change", !.who = {a}, !.s = {s}, !.new = {p}])
  /\ UNCHANGED <<admin, ses, fails, changes, chosen, acted, booted>>

\* Slip: revokeAllForAdmin is not called.
RevokeOthersNone(a, s) ==
  [r \in Sessions |-> IF r = s /\ ses[r].of = {a} THEN [ses[r] EXCEPT !.spared = TRUE] ELSE ses[r]]

\* revokeAllForAdmin, sparing s
RevokeOthers(a, s) ==
  [r \in Sessions |->
     IF ses[r].of # {a} THEN ses[r]
     ELSE IF r = s THEN [ses[r] EXCEPT !.spared = TRUE]
     ELSE IF ses[r].st \in {"live", "expired"} THEN [ses[r] EXCEPT !.st = "revoked"]
     ELSE ses[r]]

\* Its transaction.  Of a row that is gone, nothing is updated.
PasswordChanged(t) ==
  /\ Resume(t, "change")
  /\ \E a \in task[t].who, s \in task[t].s :
       /\ changes[a] < MaxChanges
       /\ ses' = RevokeOthers(a, s)
       /\ IF a \in Rows
          THEN /\ admin' = [admin EXCEPT ![a].pw = task[t].new, ![a].force = FALSE]
               /\ changes' = [changes EXCEPT ![a] = @ + 1]
               /\ chosen' = chosen \cup {a}
          ELSE UNCHANGED <<admin, changes, chosen>>
  /\ UNCHANGED <<fails, acted, booted>>

-----------------------------------------------------------------------------
(***************************************************************************)
(* Administering administrators                                            *)
(***************************************************************************)

\* AdminsRepository.create, as POST /admins and bootstrap call it
NewAdmin(e, p) == [st |-> "row", email |-> {e}, pw |-> {p}, disabled |-> FALSE, force |-> TRUE]

\* POST /admins, up to its hash
CreateAdmin(t, s, a, e, p) ==
  /\ Authorized(s, a) /\ RowsOf(e) = {}
  /\ Wait(t, [Idle EXCEPT !.at = "create", !.who = {a}, !.email = {e}, !.new = {p}])
  /\ UNCHANGED <<admin, ses, fails, changes, chosen, acted, booted>>

\* email TEXT NOT NULL UNIQUE: the INSERT is accepted.
UniqueEmail(e) == RowsOf(e) = {}

\* create, or the error of its INSERT
AdminCreated(t, b) ==
  /\ Resume(t, "create") /\ admin[b] = NoAdmin
  /\ \E e \in task[t].email, p \in task[t].new :
       IF UniqueEmail(e)
       THEN admin' = [admin EXCEPT ![b] = NewAdmin(e, p)] /\ acted' = acted \cup task[t].who
       ELSE UNCHANGED <<admin, acted>>
  /\ UNCHANGED <<ses, fails, changes, chosen, booted>>

\* assertNotSelf and assertNotLastEnabledAdmin
MayRemove(a, b) == a # b /\ (admin[b].disabled \/ Cardinality(Enabled) > 1)

\* PATCH /admins/:id.  Nothing happens to the sessions of b.
SetDisabled(s, a, b, off) ==
  /\ Authorized(s, a) /\ b \in Rows
  /\ off => MayRemove(a, b)
  /\ admin' = [admin EXCEPT ![b].disabled = off]
  /\ acted' = acted \cup {a}
  /\ UNCHANGED <<ses, fails, task, changes, chosen, booted>>

\* DELETE /admins/:id.  The foreign key takes the sessions along.
DeleteAdmin(s, a, b) ==
  /\ Authorized(s, a) /\ b \in Rows /\ MayRemove(a, b)
  /\ admin' = [admin EXCEPT ![b] = [NoAdmin EXCEPT !.st = "deleted"]]
  /\ ses' = [r \in Sessions |-> IF ses[r].of = {b} THEN NoSession ELSE ses[r]]
  /\ acted' = acted \cup {a}
  /\ UNCHANGED <<fails, task, changes, chosen, booted>>

\* bootstrapFirstAdmin, up to its hash
Bootstrap(t, e, p) ==
  /\ Rows = {}
  /\ Wait(t, [Idle EXCEPT !.at = "boot", !.email = {e}, !.new = {p}])
  /\ UNCHANGED <<admin, ses, fails, changes, chosen, acted, booted>>

\* Slip: the count before the hash is trusted.
StillNoneTrusted == TRUE

\* Its transaction counts again.
StillNone == Rows = {}

BootstrapEnds(t, b) ==
  /\ Resume(t, "boot") /\ admin[b] = NoAdmin
  /\ IF StillNone
     THEN \E e \in task[t].email, p \in task[t].new :
            /\ admin' = [admin EXCEPT ![b] = NewAdmin(e, p)]
            /\ booted' = booted \cup {b}
     ELSE UNCHANGED <<admin, booted>>
  /\ UNCHANGED <<ses, fails, changes, chosen, acted>>

\* The process dies: what waited is lost.
Crash ==
  /\ task' = [t \in Tasks |-> Idle] /\ task' # task
  /\ UNCHANGED <<admin, ses, fails, changes, chosen, acted, booted>>

Next ==
  \/ \E t \in Tasks :
       \/ \E e \in Emails, p \in Passwords : Bootstrap(t, e, p) \/ \E i \in Ips : Login(t, e, i, p)
       \/ LoginFails(t) \/ PasswordChanged(t)
       \/ \E s \in Sessions : LoginSucceeds(t, s)
       \/ \E b \in Admins : AdminCreated(t, b) \/ BootstrapEnds(t, b)
  \/ \E s \in Sessions, a \in Admins :
       \/ Logout(s, a)
       \/ \E t \in Tasks, p \in Passwords :
            ChangePassword(t, s, a, p) \/ \E e \in Emails : CreateAdmin(t, s, a, e, p)
       \/ \E b \in Admins : DeleteAdmin(s, a, b) \/ \E off \in BOOLEAN : SetDisabled(s, a, b, off)
  \/ \E s \in Sessions : Expire(s)
  \/ \E x \in Attempts : AttemptAges(x)
  \/ Crash

Spec == Init /\ [][Next]_vars

-----------------------------------------------------------------------------
(***************************************************************************)
(* Which requests come from the panel's own pages (auth.middleware.ts)     *)
(***************************************************************************)

Schemes == {"http", "https"}
DefaultPort == [http |-> "80", https |-> "443"]
Ports == {"80", "443", "8443"}
Names == {"panel", "other"}

\* What the client sent: each header or none, an origin or a host with a port
\* or without.  An Origin that is no URL is as good as none.
AtMostOne(S) == {x \in SUBSET S : Cardinality(x) <= 1}
Hosts == [name : Names, port : AtMostOne(Ports)]
Origins == [scheme : Schemes, name : Names, port : AtMostOne(Ports)]
Requests ==
  [site : AtMostOne({"same-origin", "same-site", "cross-site", "none"}),
   origin : AtMostOne(Origins), host : AtMostOne(Hosts)]

\* new URL(origin).host: the scheme's own port is dropped.
UrlHost(o) == [name |-> o.name, port |-> o.port \ {DefaultPort[o.scheme]}]

\* originHost is hostHeader, or hostHeader without :80 or :443.
SameHost(o, h) == UrlHost(o) \in {h, [h EXCEPT !.port = @ \ {"80", "443"}]}

\* isSameOriginRequest
IsSameOriginRequest(r) ==
  IF r.site # {} THEN r.site = {"same-origin"}
  ELSE \E o \in r.origin, h \in r.host : SameHost(o, h)

-----------------------------------------------------------------------------
(***************************************************************************)
(* Properties                                                              *)
(***************************************************************************)

\* Every variable keeps its shape, and a row the columns that are NOT NULL.
TypeOK ==
  /\ admin \in [Admins -> AdminRow]
  /\ \A a \in Rows : Cardinality(admin[a].email) = 1 /\ Cardinality(admin[a].pw) = 1
  /\ ses \in [Sessions -> SessionRow]
  /\ fails \in [Attempts -> 0 .. MaxFails]
  /\ task \in [Tasks -> TaskState]
  /\ changes \in [Admins -> 0 .. MaxChanges]
  /\ chosen \subseteq Admins /\ acted \subseteq Admins /\ booted \subseteq Admins

\* Whatever administrators do to each other, once there is one there is one
\* who can log in ("The last enabled administrator can never be disabled or
\* deleted, full stop", admins.routes.ts).
EnabledRemains == Rows # {} => Enabled # {}

\* No two administrators have one address, although the address is looked up
\* before a wait and used after it (POST /admins).
EmailsDistinct == \A a, b \in Rows : admin[a].email = admin[b].email => a = b

\* However many bootstrap calls overlap, they create one administrator.
OneBootstrap == Cardinality(booted) <= 1

\* A session that was there when its administrator's password was changed is
\* dead after it, unless it is the one that made the last change, even where
\* changes overlap (changePassword, revokeAllForAdmin).
ChangeEvicts ==
  \A s \in Sessions, a \in Admins :
    ses[s].st = "live" /\ ses[s].of = {a} => ses[s].born = changes[a] \/ ses[s].spared

\* No session outlives its administrator, not even one whose log-in was under
\* way when the administrator was deleted.
SessionsHaveOwners == \A s \in Sessions : ses[s].of \subseteq Rows

\* In a window, no more wrong passwords are tested on one address, or from one
\* IP, than the policy's number and those that were already under way when the
\* count reached it; attempts that were locked out count but test nothing.
GuessesBounded ==
  /\ \A e \in Emails : Failures({e} \X Ips \X {TRUE}) <= MaxPerEmail + Cardinality(Tasks) - 1
  /\ \A i \in Ips : Failures(Emails \X {i} \X {TRUE}) <= MaxPerIp + Cardinality(Tasks) - 1

\* Whoever administers others has chosen a password of their own: nobody acts
\* under the password an administrator or bootstrap gave them (force_password_change).
ChosenFirst == acted \subseteq chosen

\* There is someone who can administer the panel, each of them once.
AccountsHold == TypeOK /\ EnabledRemains /\ EmailsDistinct /\ OneBootstrap

\* A session is that of an administrator as they are now: one who exists, with
\* the password they have, and who chose it before they administer others.
SessionsHold == ChangeEvicts /\ SessionsHaveOwners /\ ChosenFirst
=============================================================================
