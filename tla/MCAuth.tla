------------------------------- MODULE MCAuth -------------------------------
(***************************************************************************)
(* Auth for TLC; MCAdmin adds the other parts of its run.  Failed log-ins  *)
(* change nothing but the attempts, and only log-ins read the attempts;    *)
(* together with the rest they are out of reach.  So a behaviour is either *)
(* one of log-ins, right and wrong, to an administrator who may be         *)
(* disabled, or one from an empty database in which log-ins have the right *)
(* password (a log-in reads the password when it begins; what it was       *)
(* matters no more). A third kind only asks of one request where it comes  *)
(* from. Only safety is checked, so symmetry is sound.                     *)
(***************************************************************************)
EXTENDS Admin, TLC

CONSTANT MaxTogether \* bound: failed attempts in the window, in all
VARIABLE client

Guessing ==
  \/ \E t \in Tasks :
       \/ /\ Failures(Attempts) < MaxTogether
          /\ \E e \in Emails, i \in Ips, p \in Passwords : Login(t, e, i, p)
       \/ LoginFails(t)
       \/ \E s \in Sessions : LoginSucceeds(t, s)
  \/ \E x \in Attempts : AttemptAges(x)
  \/ Crash

AnIp == CHOOSE i \in Ips : TRUE
APassword == CHOOSE p \in Passwords : TRUE

Administering ==
  \/ \E t \in Tasks :
       \/ \E e \in Emails :
            \/ Bootstrap(t, e, APassword)
            \/ RowsOf(e) \cap Enabled # {} /\ Login(t, e, AnIp, APassword)
       \/ PasswordChanged(t)
       \/ \E s \in Sessions : LoginSucceeds(t, s)
       \/ \E b \in Admins : AdminCreated(t, b) \/ BootstrapEnds(t, b)
  \/ \E s \in Sessions, a \in Admins :
       \/ Logout(s, a)
       \/ \E t \in Tasks : \/ ChangePassword(t, s, a, APassword)
                          \/ \E e \in Emails : CreateAdmin(t, s, a, e, APassword)
       \/ \E b \in Admins : DeleteAdmin(s, a, b) \/ \E off \in BOOLEAN : SetDisabled(s, a, b, off)
  \/ \E s \in Sessions : Expire(s)
  \/ Crash

\* The administrators whose passwords are guessed at: one who may log in, and
\* perhaps one who is disabled, each past the change of their first password.
Guessed ==
  \E a \in Admins, b \in Admins, e \in Emails, f \in Emails, p \in Passwords :
    /\ a # b /\ e # f
    /\ LET row(x, off) == [NewAdmin(x, p) EXCEPT !.force = FALSE, !.disabled = off]
       IN \E two \in BOOLEAN :
            admin = [x \in Admins |-> IF x = a THEN row(e, FALSE)
                                     ELSE IF x = b /\ two THEN row(f, TRUE) ELSE NoAdmin]
    /\ changes = [x \in Admins |-> 0] /\ acted = {} /\ chosen = {a, b} /\ booted = {a}

MCInit ==
  \/ client = "administers" /\ Init /\ req = {}
  \/ client = "asks" /\ Init /\ req \in {{r} : r \in Requests}
  \/ /\ client = "guesses" /\ Guessed /\ req = {}
     /\ ses = [s \in Sessions |-> NoSession]
     /\ fails = [x \in Attempts |-> 0]
     /\ task = [t \in Tasks |-> Idle]

MCNext ==
  /\ UNCHANGED <<client, req>>
  /\ (client = "guesses" /\ Guessing) \/ (client = "administers" /\ Administering)

MCSpec == MCInit /\ [][MCNext]_<<vars, client, req>>

Symmetry ==
  Permutations(Admins) \cup Permutations(Sessions) \cup Permutations(Tasks)
=============================================================================
