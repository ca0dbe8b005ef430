-------------------------------- MODULE Mail --------------------------------
(***************************************************************************)
(* Mailboxes, aliases, restrictions and quotas (server/src/modules/mail),  *)
(* kept by docker-mailserver in its own files.                             *)
(*                                                                         *)
(* A request reads the files, decides, and then runs one command after the *)
(* other in the container (drivers/dms, broker/src/dms/handlers.ts).  No   *)
(* transaction spans them: requests interleave between any two commands,   *)
(* and any command may fail, or take effect and have its answer lost.      *)
(* A file is read as it is, or its request fails before it has done        *)
(* anything: that the broker takes a `cat` that ends with an error for a   *)
(* file that is not there is left out.                                     *)
(* Addresses are compared in lower case, and have one entry each.          *)
(***************************************************************************)
EXTENDS Integers, SequencesExt

CONSTANTS Addresses, Requests,  \* requests are 1 .. n, begun in that order
          FirstAliases, \* the alias files it may begin with, without loops
          Kinds,        \* of marks on an address: "send" and "receive" restrictions, a "quota"
          MaxRecipients \* bound: recipients of an alias in a request

VARIABLES
  boxes,  \* postfix-accounts.cf
  alias,  \* postfix-virtual.cf: recipients of each address
  marks,  \* the access files and dovecot-quotas.cf
  req,    \* the requests
  mixed,  \* history: two requests have overlapped
  alone   \* history: the last request, if it has overlapped with none

vars == <<boxes, alias, marks, req, mixed, alone>>
files == <<boxes, alias, marks>>

Recipients == {R \in SUBSET Addresses : R # {} /\ Cardinality(R) <= MaxRecipients}
Ops == {"create", "update", "remove", "boxCreate", "boxDelete", "mark", "bulk"}
Unused == [at |-> "unused"]
Answered == [at |-> "answered"]
Open(r) == req[r].at = "running"

\* Every set of addresses has one that forwards to none of them.
Acyclic(f) == \A S \in (SUBSET Addresses) \ {{}} : \E a \in S : f[a] \cap S = {}

Init ==
  /\ boxes \in {{}, Addresses}
  /\ alias \in FirstAliases
  /\ marks = [k \in Kinds |-> {}]
  /\ req = [r \in Requests |-> Unused]
  /\ mixed = FALSE /\ alone = {}

-----------------------------------------------------------------------------
(***************************************************************************)
(* Reading and deciding                                                    *)
(***************************************************************************)

\* detectsAliasLoop: whether the walk from R along the aliases meets a.
Loops(a, R) ==
  LET walked[n \in 0 .. Cardinality(Addresses)] ==
        IF n = 0 THEN R ELSE walked[n - 1] \cup UNION {alias[b] : b \in walked[n - 1]}
  IN a \in walked[Cardinality(Addresses)]

Add(a, R) == SetToSeq({[do |-> "aliasAdd", a |-> a, to |-> b] : b \in R})
Delete(a, R) == SetToSeq({[do |-> "aliasDel", a |-> a, to |-> b] : b \in R})

\* Slip of update: the other way round.
EditsDeleteFirst(a, R) == Delete(a, alias[a] \ R) \o Add(a, R \ alias[a])

\* update: what is missing is added before what is left over goes.
Edits(a, R) == Add(a, R \ alias[a]) \o Delete(a, alias[a] \ R)

Marks(A, k, on) == {[do |-> IF on THEN "set" ELSE "clear", a |-> a, to |-> k] : a \in A}

Run(op, a, want, todo) ==
  [at |-> "running", op |-> op, a |-> a, want |-> want, todo |-> todo, bad |-> {}]

Begin(r, x) ==
  /\ req[r] = Unused /\ \A s \in Requests : s < r => req[s] # Unused
  /\ req' = [s \in Requests |-> IF s = r THEN x ELSE IF Open(s) \/ s > r THEN req[s] ELSE Answered]
  /\ mixed' = (mixed \/ \E s \in Requests : Open(s))
  /\ alone' = IF \E s \in Requests : Open(s) THEN {} ELSE {r}
  /\ UNCHANGED files

Refused(op, a, want) == [Run(op, a, want, <<>>) EXCEPT !.at = "refused"]

\* AliasesService.create
CreateAlias(r, a, R) ==
  Begin(r, IF Loops(a, R) THEN Refused("create", a, R) ELSE Run("create", a, R, Add(a, R)))

\* AliasesService.update
UpdateAlias(r, a, R) ==
  /\ alias[a] # {}
  /\ Begin(r, IF Loops(a, R) THEN Refused("update", a, R) ELSE Run("update", a, R, Edits(a, R)))

\* AliasesService.remove
RemoveAlias(r, a) == alias[a] # {} /\ Begin(r, Run("remove", a, {}, Delete(a, alias[a])))

\* MailboxesService.create, and remove after requireExisting.
CreateMailbox(r, a) == Begin(r, Run("boxCreate", a, {}, <<[do |-> "boxAdd", a |-> a, to |-> a]>>))
DeleteMailbox(r, a) ==
  a \in boxes /\ Begin(r, Run("boxDelete", a, {}, <<[do |-> "boxDel", a |-> a, to |-> a]>>))

\* restrict, setQuota and clearQuota after requireExisting; bulkRestrict and
\* bulkQuota, which look at nothing first.
MarkMailbox(r, a, k, on) ==
  a \in boxes /\ Begin(r, Run("mark", {a}, Marks({a}, k, on), SetToSeq(Marks({a}, k, on))))
MarkAll(r, A, k, on) == Begin(r, Run("bulk", A, Marks(A, k, on), SetToSeq(Marks(A, k, on))))

-----------------------------------------------------------------------------
(***************************************************************************)
(* Running the commands                                                    *)
(***************************************************************************)

\* What a command does in the container, and when it exits with an error.
Fits(c) ==
  CASE c.do = "aliasDel" -> c.to \in alias[c.a]
    [] c.do = "boxAdd" -> c.a \notin boxes
    [] c.do = "boxDel" -> c.a \in boxes
    [] OTHER -> TRUE

\* Deleting a mailbox takes its quota and what forwards to it along.
Effect(c) ==
  /\ boxes' = CASE c.do = "boxAdd" -> boxes \cup {c.a} [] c.do = "boxDel" -> boxes \ {c.a} [] OTHER -> boxes
  /\ alias' = CASE c.do = "aliasAdd" -> [alias EXCEPT ![c.a] = @ \cup {c.to}]
                [] c.do = "aliasDel" -> [alias EXCEPT ![c.a] = @ \ {c.to}]
                [] c.do = "boxDel" -> [b \in Addresses |-> alias[b] \ {c.a}]
                [] OTHER -> alias
  /\ marks' = CASE c.do = "set" -> [marks EXCEPT ![c.to] = @ \cup {c.a}]
                [] c.do = "clear" -> [marks EXCEPT ![c.to] = @ \ {c.a}]
                [] c.do = "boxDel" -> [k \in Kinds |-> IF k = "quota" THEN marks[k] \ {c.a} ELSE marks[k]]
                [] OTHER -> marks

Succeed(r) ==
  LET c == Head(req[r].todo)
  IN /\ Open(r) /\ req[r].todo # <<>> /\ Fits(c) /\ Effect(c)
     /\ req' = [req EXCEPT ![r].todo = Tail(@)]
     /\ UNCHANGED <<mixed, alone>>

\* A failed command ends the request; a bulk request notes it and goes on.
Failed(x) ==
  IF x.op = "bulk" THEN [x EXCEPT !.todo = Tail(@), !.bad = @ \cup {Head(x.todo).a}]
  ELSE [x EXCEPT !.at = "failed"]

\* It exits with an error, or the broker or Docker fails: before it, or after.
Fail(r) ==
  /\ Open(r) /\ req[r].todo # <<>>
  /\ \/ UNCHANGED files
     \/ Fits(Head(req[r].todo)) /\ Effect(Head(req[r].todo))
  /\ req' = [req EXCEPT ![r] = Failed(req[r])]
  /\ UNCHANGED <<mixed, alone>>

\* The entry is read back for the answer.
Finish(r) ==
  /\ Open(r) /\ req[r].todo = <<>>
  /\ req' = [req EXCEPT ![r].at =
       IF \/ req[r].op \in {"create", "update"} /\ alias[req[r].a] = {}
          \/ req[r].op = "boxCreate" /\ req[r].a \notin boxes
       THEN "failed" ELSE "done"]
  /\ UNCHANGED <<files, mixed, alone>>

Next ==
  \E r \in Requests :
    \/ \E a \in Addresses :
         \/ \E R \in Recipients : CreateAlias(r, a, R) \/ UpdateAlias(r, a, R)
         \/ RemoveAlias(r, a) \/ CreateMailbox(r, a) \/ DeleteMailbox(r, a)
    \/ \E k \in Kinds, on \in BOOLEAN :
         \/ \E a \in Addresses : MarkMailbox(r, a, k, on)
         \/ \E A \in Recipients : MarkAll(r, A, k, on)
    \/ Succeed(r) \/ Fail(r) \/ Finish(r)

Spec == Init /\ [][Next]_vars

-----------------------------------------------------------------------------
Commands == [do : {"aliasAdd", "aliasDel", "boxAdd", "boxDel", "set", "clear"},
             a : Addresses, to : Addresses \cup Kinds]
TypeOK ==
  /\ boxes \subseteq Addresses /\ alias \in [Addresses -> SUBSET Addresses]
  /\ marks \in [Kinds -> SUBSET Addresses]
  /\ \A r \in Requests : req[r] \in {Unused, Answered} \/
       req[r] \in [at : {"running", "refused", "failed", "done"}, op : Ops,
                   a : Addresses \cup (SUBSET Addresses), want : (SUBSET Addresses) \cup (SUBSET Commands),
                   todo : Seq(Commands), bad : SUBSET Addresses]
  /\ mixed \in BOOLEAN /\ alone \subseteq Requests

\* Requests that do not overlap never make mail go round: not one after the
\* other, and not one that fails half way (detectsAliasLoop before addAlias,
\* over aliases that have been read as they are).
NoLoopOfTheirOwn == ~mixed => Acyclic(alias)

\* And an alias is only refused if it would have closed a loop.
RefusalIsDue ==
  \A r \in alone : req[r].at = "refused" =>
    ~Acyclic([alias EXCEPT ![req[r].a] = @ \cup req[r].want])

\* Editing an alias never leaves it without recipients, not for a moment and
\* not for good when a command fails: mail to it is never bounced by an edit
\* (update: "Add before remove").
NeverRecipientless == \A r \in alone : req[r].op = "update" => alias[req[r].a] # {}

\* A request that succeeded, undisturbed, did what it was asked, and a bulk
\* request all that it does not report as failed.
DoneAsAsked ==
  \A r \in alone : req[r].at = "done" =>
    LET a == req[r].a IN
    CASE req[r].op = "create" -> req[r].want \subseteq alias[a]
      [] req[r].op = "update" -> alias[a] = req[r].want
      [] req[r].op = "remove" -> alias[a] = {}
      [] req[r].op = "boxCreate" -> a \in boxes
      [] req[r].op = "boxDelete" -> a \notin boxes /\ \A b \in Addresses : a \notin alias[b]
      [] OTHER -> \A c \in req[r].want : c.a \notin req[r].bad => (c.a \in marks[c.to]) = (c.do = "set")

\* Undisturbed by another, a request does all it is asked or leaves mail on its
\* way, and refuses what it must and nothing else.
MailHolds == TypeOK /\ NoLoopOfTheirOwn /\ RefusalIsDue /\ NeverRecipientless /\ DoneAsAsked
=============================================================================
