-------------------------------- MODULE Sieve --------------------------------
(***************************************************************************)
(* The Sieve scripts of one mailbox and its autoresponder                  *)
(* (server/src/modules/security: sieve.service.ts, autoresponder.service   *)
(* .ts; drivers/dms/autoresponder-sieve.ts).                               *)
(*                                                                         *)
(* Dovecot keeps the scripts and runs the active one.  The autoresponder   *)
(* is a script of a reserved name with a header to read it back from; it   *)
(* is enabled if it is the active one.  A request is one doveadm command   *)
(* after the other; each may fail, or take effect and have its answer      *)
(* lost, and requests interleave between them.  Subject and text of a      *)
(* response are the `text` of it; days are numbers.                        *)
(***************************************************************************)
EXTENDS Naturals, FiniteSets

CONSTANTS Filters,   \* names of other scripts
          Texts,
          Requests,  \* requests are 1 .. n, begun in that order
          MaxDay,    \* bound: days
          Spans,     \* bounds: the first and last days an update may give
          None

VARIABLES
  script,  \* the stored scripts
  active,  \* the name of the active one
  req,
  calm     \* history: what was active before the last request, unless it overlapped

vars == <<script, active, req, calm>>

Auto == "dwg-autoresponder"
ScriptNames == Filters \cup {Auto}
Days == 1 .. MaxDay

-----------------------------------------------------------------------------
(***************************************************************************)
(* The script                                                              *)
(***************************************************************************)

\* A script has the header or not, and answers a message or not on a day.
Hand == [header |-> FALSE, answers |-> {}, text |-> None, start |-> None, end |-> None]

\* generateAutoresponderSieve: the header, and a currentdate test per bound.
Generate(text, start, end) ==
  [header |-> TRUE, text |-> text, start |-> start, end |-> end,
   answers |-> {d \in Days : (start # None => d >= start) /\ (end # None => d <= end)}]

\* parseAutoresponderSieve reads the header and nothing else; getStatus.
Status(c, on) ==
  [enabled |-> on, recognised |-> c.header, text |-> c.text, start |-> c.start, end |-> c.end]

-----------------------------------------------------------------------------
Unused == [at |-> "unused"]
Open(r) == req[r].at \notin {"unused", "failed", "done"}

\* The mailbox may have a filter, and an autoresponder without an end.
Init ==
  /\ script \in [ScriptNames -> {None, Hand, Generate(CHOOSE t \in Texts : TRUE, 1, None)}]
  /\ \A n \in Filters : script[n] \in {None, Hand}
  /\ active \in {n \in ScriptNames : script[n] # None} \cup {None}
  /\ req = [r \in Requests |-> Unused] /\ calm = {}

\* A request to change script n, whose first command is `at`.
Begin(r, op, n, on, at, text, start, end) ==
  /\ req[r] = Unused /\ \A s \in Requests : s < r => req[s] # Unused
  /\ req' = [req EXCEPT ![r] =
       [op |-> op, of |-> n, on |-> on, at |-> at, text |-> text, start |-> start, end |-> end,
        listed |-> FALSE, late |-> FALSE, said |-> {}]]
  /\ calm' = IF \E s \in Requests : Open(s) THEN {} ELSE {[r |-> r, active |-> active]}
  /\ UNCHANGED <<script, active>>

\* SieveService.put after its validation, activate, deactivate;
\* AutoresponderService.update, whose script always passes the validation.
PutScript(r, n) == Begin(r, "put", n, FALSE, "put", None, None, None)
ActivateScript(r, n) == Begin(r, "activate", n, TRUE, "list", None, None, None)
DeactivateScript(r) == Begin(r, "deactivate", None, FALSE, "deactivate", None, None, None)
Update(r, on, text, start, end) == Begin(r, "update", Auto, on, "put", text, start, end)

-----------------------------------------------------------------------------
(***************************************************************************)
(* The commands                                                            *)
(***************************************************************************)

\* doveadm sieve put, activate, deactivate.  What is stored under the active
\* name runs at once; deactivate takes no name.
Effect(x) ==
  /\ script' = IF x.at # "put" THEN script
               ELSE [script EXCEPT ![x.of] =
                      IF x.op = "put" THEN Hand ELSE Generate(x.text, x.start, x.end)]
  /\ active' = CASE x.at = "activate" -> x.of [] x.at = "deactivate" -> None [] OTHER -> active

\* What follows a command that succeeded.
After(x) ==
  CASE x.op # "update" -> "done"
    [] x.op = "update" /\ x.at = "put" -> IF x.on THEN "activate" ELSE "list"
    [] OTHER -> "status"

\* Request r goes on at `at`; one that has decided to deactivate notes an
\* activation, which it does not see.
Goes(r, at) ==
  /\ req' = [s \in Requests |->
       IF s = r THEN [req[s] EXCEPT !.at = at]
       ELSE IF active' # active /\ active' # None /\ Open(s) THEN [req[s] EXCEPT !.late = TRUE]
       ELSE req[s]]
  /\ UNCHANGED calm

Command(r) ==
  /\ req[r].at \in {"put", "activate", "deactivate"}
  /\ Effect(req[r]) /\ Goes(r, After(req[r]))

\* A command fails, or takes effect and its answer is lost.
Fail(r) ==
  /\ Open(r)
  /\ Effect(req[r]) \/ UNCHANGED <<script, active>>
  /\ Goes(r, "failed")

\* sieveList before activate: a script that is not stored is not found.
ListForActivate(r) ==
  /\ req[r].at = "list" /\ req[r].op = "activate"
  /\ UNCHANGED <<script, active>>
  /\ Goes(r, IF script[req[r].of] # None THEN "activate" ELSE "failed")

\* sieveList before the autoresponder is disabled: only if it is the active one.
ListForDisable(r) ==
  /\ req[r].at = "list" /\ req[r].op = "update"
  /\ req' = [req EXCEPT ![r].at = IF active = Auto THEN "deactivate" ELSE "status", ![r].late = FALSE]
  /\ UNCHANGED <<script, active, calm>>

\* getStatus: the list, and then the script.
ReadList(r) ==
  /\ req[r].at = "status"
  /\ req' = [req EXCEPT ![r].at = "get", ![r].listed = active = Auto]
  /\ UNCHANGED <<script, active, calm>>
ReadScript(r) ==
  /\ req[r].at = "get"
  /\ req' = [req EXCEPT ![r].at = "done", ![r].said = {Status(script[Auto], req[r].listed)}]
  /\ UNCHANGED <<script, active, calm>>

Next ==
  \E r \in Requests :
    \/ \E n \in ScriptNames : PutScript(r, n) \/ ActivateScript(r, n)
    \/ DeactivateScript(r)
    \/ \E text \in Texts, span \in Spans, on \in BOOLEAN : Update(r, on, text, span[1], span[2])
    \/ Command(r) \/ Fail(r)
    \/ ListForActivate(r) \/ ListForDisable(r) \/ ReadList(r) \/ ReadScript(r)

Spec == Init /\ [][Next]_vars

-----------------------------------------------------------------------------
TypeOK ==
  /\ DOMAIN script = ScriptNames
  /\ \A n \in ScriptNames :
       script[n] \in {None, Hand} \/ (script[n].header /\ script[n].answers \subseteq Days)
  /\ active \in ScriptNames \cup {None} /\ (active # None => script[active] # None)
  /\ \A r \in Requests : req[r] = Unused \/
       /\ req[r].op \in {"put", "activate", "deactivate", "update"}
       /\ req[r].at \in {"put", "list", "activate", "deactivate", "status", "get", "failed", "done"}
       /\ req[r].of \in ScriptNames \cup {None} /\ {req[r].on, req[r].listed, req[r].late} \subseteq BOOLEAN

\* An update of the autoresponder nobody interferes with ends as it was asked
\* to, says so, and answers mail on exactly the days it shows: the header that
\* is read back and the tests that run agree (generateAutoresponderSieve,
\* parseAutoresponderSieve, getStatus).
SaidIsDone ==
  \A c \in calm :
    LET x == req[c.r] IN
    x.op = "update" /\ x.at = "done" =>
      /\ (active = Auto) = x.on
      /\ \A s \in x.said :
           /\ s.enabled = x.on /\ s.recognised /\ s.text = x.text
           /\ \A d \in Days : d \in script[Auto].answers <=>
                (s.start = None \/ s.start <= d) /\ (s.end = None \/ d <= s.end)

\* It never costs a mailbox its filter on the way, not even when a command of
\* it fails: what was active stays so until the autoresponder takes its place,
\* and is left alone when the autoresponder is disabled ("never blind-deactivate").
FilterIsKept ==
  \A c \in calm :
    req[c.r].op = "update" =>
      active \in {c.active} \cup (IF req[c.r].on THEN {Auto} ELSE IF c.active = Auto THEN {None} ELSE {})

\* Among requests that overlap, one that is about to deactivate takes no other
\* filter down than one activated since it looked.
DisablesOnlyLate ==
  \A r \in Requests :
    req[r] # Unused /\ req[r].op = "update" /\ req[r].at = "deactivate" /\ ~req[r].late
      => active \in {Auto, None}

SieveHolds == TypeOK /\ SaidIsDone /\ FilterIsKept /\ DisablesOnlyLate
==============================================================================
