--------------------------- MODULE Notifications ---------------------------
(***************************************************************************)
(* The notification bell (server/src/modules/notifications).               *)
(*                                                                         *)
(* A timer takes a snapshot of the dashboard every five minutes, for as    *)
(* long as that takes, and then writes every known condition: active if    *)
(* the snapshot has it, resolved if not.  The probes behind a snapshot run *)
(* side by side, and a slow snapshot may be overtaken by the next tick's.  *)
(* The writes are synchronous; the death of the process may cut them.      *)
(***************************************************************************)
EXTENDS Naturals

CONSTANTS Conditions, \* NOTIFICATION_DEDUPE_KEYS
          Ticks,      \* bound: evaluations at one time
          MaxDeaths,  \* bound: deaths of the process
          Absent      \* the row of a condition never observed

VARIABLES
  real,   \* the conditions the dashboard would show now
  note,   \* the notifications table
  pass,   \* the evaluations
  gone,   \* history: why a row that was read may come back unread, see ReadStays
  known,  \* history: active rows that were active when they were marked read
  deaths

vars == <<real, note, pass, gone, known, deaths>>

Rows == [read : BOOLEAN, resolved : BOOLEAN]
Unseen == "unseen"
Idle == [at |-> "idle", saw |-> [c \in Conditions |-> Unseen]]
Active(c) == note[c] # Absent /\ ~note[c].resolved

Init ==
  /\ real \in SUBSET Conditions
  /\ note = [c \in Conditions |-> Absent]
  /\ pass = [t \in Ticks |-> Idle]
  /\ gone = {} /\ known = {} /\ deaths = 0

-----------------------------------------------------------------------------
\* A condition arises or ends.
Turn(c) ==
  /\ real' = IF c \in real THEN real \ {c} ELSE real \cup {c}
  /\ gone' = IF c \in real THEN gone \cup {c} ELSE gone
  /\ UNCHANGED <<note, pass, known, deaths>>

\* The timer fires.
Begin(t) ==
  /\ pass[t] = Idle
  /\ pass' = [pass EXCEPT ![t].at = "probing"]
  /\ UNCHANGED <<real, note, gone, known, deaths>>

\* One of the probes of getSnapshot answers.
Probe(t, c) ==
  /\ pass[t].at = "probing" /\ pass[t].saw[c] = Unseen
  /\ pass' = [pass EXCEPT ![t].saw[c] = IF c \in real THEN "there" ELSE "not"]
  /\ UNCHANGED <<real, note, gone, known, deaths>>

\* Slip: always unread.
UpsertActiveUnread(r) == [read |-> FALSE, resolved |-> FALSE]

\* upsertActive: a condition that comes back is new, and unread.
UpsertActive(r) ==
  IF r = Absent \/ r.resolved THEN [read |-> FALSE, resolved |-> FALSE] ELSE r

\* resolveIfActive
ResolveIfActive(r) == IF r = Absent THEN r ELSE [r EXCEPT !.resolved = TRUE]

\* What the pass makes of the rows of C.
Written(t, C) ==
  [c \in Conditions |->
     IF c \notin C THEN note[c]
     ELSE IF pass[t].saw[c] = "there" THEN UpsertActive(note[c])
     ELSE ResolveIfActive(note[c])]

Ready(t) == pass[t].at = "probing" /\ \A c \in Conditions : pass[t].saw[c] # Unseen

\* evaluateNotificationsOnce after its await.
Write(t) ==
  /\ Ready(t)
  /\ note' = Written(t, Conditions)
  /\ pass' = [pass EXCEPT ![t] = Idle]
  /\ known' = {c \in known : note'[c] # Absent /\ ~note'[c].resolved}
  /\ UNCHANGED <<real, gone, deaths>>

\* The process dies; the pass t, if it was writing, got as far as C.
Die(t, C) ==
  /\ deaths < MaxDeaths /\ deaths' = deaths + 1
  /\ C # {} => Ready(t)
  /\ note' = Written(t, C)
  /\ pass' = [u \in Ticks |-> Idle]
  /\ known' = {c \in known : note'[c] # Absent /\ ~note'[c].resolved}
  /\ UNCHANGED <<real, gone>>

\* markRead for one row, markAllRead for all; resolved rows are read as well.
MarkRead(C) ==
  /\ \E c \in C : note[c] # Absent /\ ~note[c].read
  /\ note' = [c \in Conditions |->
       IF c \in C /\ note[c] # Absent THEN [note[c] EXCEPT !.read = TRUE] ELSE note[c]]
  /\ known' = known \cup {c \in C : Active(c)}
  /\ gone' = {c \in Conditions :
       IF c \in C /\ note[c] # Absent /\ ~note[c].read
       THEN \/ c \notin real \/ note[c].resolved
            \/ \E t \in Ticks : pass[t].saw[c] = "not"
       ELSE c \in gone}
  /\ UNCHANGED <<real, pass, deaths>>

Evaluator == \E t \in Ticks : Begin(t) \/ Write(t) \/ \E c \in Conditions : Probe(t, c)

Next ==
  \/ Evaluator
  \/ \E c \in Conditions : Turn(c) \/ MarkRead({c})
  \/ MarkRead(Conditions)
  \/ \E t \in Ticks, C \in SUBSET Conditions : Die(t, C)

\* The timer goes on, and every probe answers or is given up.
Fairness ==
  \A t \in Ticks :
    /\ WF_vars(Begin(t)) /\ WF_vars(Write(t))
    /\ \A c \in Conditions : WF_vars(Probe(t, c))
Spec == Init /\ [][Next]_vars /\ Fairness

-----------------------------------------------------------------------------
TypeOK ==
  /\ {real, gone, known} \subseteq SUBSET Conditions /\ deaths \in 0 .. MaxDeaths
  /\ note \in [Conditions -> Rows \cup {Absent}]
  /\ pass \in [Ticks -> [at : {"idle", "probing"}, saw : [Conditions -> {Unseen, "there", "not"}]]]

\* What was read stays read while its condition lasts: a row goes back to
\* unread only if the condition has ended since, or a pass that was already
\* under way had seen it gone (upsertActive's CASE on resolved_at).
ReadStays ==
  [][\A c \in Conditions :
       note[c] # Absent /\ note[c].read /\ ~note'[c].read => c \in gone]_vars

\* And a condition that came back is not taken for one already read: every
\* active row that is marked read was active, and in the list, when it was
\* marked (markAllRead marks resolved rows too).
ReadWasSeen == \A c \in Conditions : Active(c) /\ note[c].read => c \in known

\* A condition that lasts is on the bell, and one that has ended for good is
\* off it, whatever passes were under way when it turned
\* (evaluateNotificationsOnce, for every key at every tick).
BellAgrees ==
  \A c \in Conditions :
    /\ <>[](c \in real) => <>[]Active(c)
    /\ <>[](c \notin real) => <>[]~Active(c)
=============================================================================
