-------------------------------- MODULE Admin --------------------------------
(***************************************************************************)
(* The administrator's side: who is let in (Auth), and what they change:   *)
(* mailboxes and aliases (Mail), Sieve scripts (Sieve), containers and     *)
(* volumes of the host (Broker).  The four share no state.                 *)
(***************************************************************************)
EXTENDS Auth

CONSTANTS None,
          Addresses, Changers, FirstAliases, Kinds, MaxRecipients, \* of Mail
          Filters, Texts, Editors, MaxDay, Spans,                  \* of Sieve
          Ids, ContainerNames, Labels, Volumes, FirstHosts, Mounts, Configs, Askers, MaxOutside
                                                                   \* of Broker

VARIABLES req,  \* the headers of a state-changing request
          boxes, alias, marks, changing, mixed, alone,
          script, active, editing, calm,
          host, volumes, config, asked, outside

mail == <<boxes, alias, marks, changing, mixed, alone>>
sieve == <<script, active, editing, calm>>
broker == <<host, volumes, config, asked, outside>>

M == INSTANCE Mail WITH Requests <- Changers, req <- changing
S == INSTANCE Sieve WITH Requests <- Editors, req <- editing
B == INSTANCE Broker WITH Requests <- Askers, Hosts <- FirstHosts, req <- asked

\* E-mail addresses, IPs and handlers are finitely many.
ASSUME FiniteAssumption ==
  IsFiniteSet(Emails) /\ IsFiniteSet(Ips) /\ IsFiniteSet(Tasks) /\ IsFiniteSet(Addresses)

\* No mail goes round at first.
ASSUME MailAssumption ==
  \A f \in FirstAliases : f \in [Addresses -> SUBSET Addresses] /\ M!Acyclic(f)

\* None is no script, and no name of one.
ASSUME SieveAssumption ==
  /\ None \notin [header : BOOLEAN, answers : SUBSET S!Days, text : Texts \cup {None},
                  start : Nat \cup {None}, end : Nat \cup {None}]
  /\ None \notin S!ScriptNames /\ None \notin Nat
  /\ Spans \subseteq (Nat \cup {None}) \X (Nat \cup {None})
  /\ MaxDay \in Nat /\ Texts # {}

\* What a container is; None is no container.
Containers ==
  [name : ContainerNames, labels : SUBSET Labels, data : SUBSET Volumes, other : SUBSET Volumes,
   up : BOOLEAN, gone : BOOLEAN]
ASSUME BrokerAssumption ==
  /\ IsFiniteSet(Ids) /\ None \notin Containers
  /\ \A h \in FirstHosts : DOMAIN h = Ids /\ \A i \in Ids : h[i] \in Containers \cup {None}
  /\ \A h \in FirstHosts : \A i, j \in Ids :  \* Docker: a name is one container's
       h[i] # None /\ ~h[i].gone /\ h[j] # None /\ ~h[j].gone /\ h[i].name = h[j].name => i = j
  /\ Mounts \subseteq [data : SUBSET Volumes, other : SUBSET Volumes]

-----------------------------------------------------------------------------
\* A request of the panel's own page is accepted however the client spells the
\* port, and one of another host, of a port of its own, or without evidence,
\* is refused (isSameOriginRequest).
OwnPagesOnly ==
  \A r \in req :
    LET portOf(x, o) == IF x.port = {} THEN {DefaultPort[o.scheme]} ELSE x.port
        same(o, h) == o.name = h.name /\ portOf(o, o) = portOf(h, o)
        both == {"80", "443"}  \* the scheme the request came by is not known
    IN /\ (r.site = {} /\ \E o \in r.origin, h \in r.host : same(o, h)) => IsSameOriginRequest(r)
       /\ IsSameOriginRequest(r) =>
            \/ r.site = {"same-origin"}
            \/ \E o \in r.origin, h \in r.host :
                 same(o, h) \/ (o.name = h.name /\ portOf(o, o) \cup portOf(h, o) \subseteq both)

\* Who is let in: not one who guesses on, nor a request of another site.
GateHolds == GuessesBounded /\ OwnPagesOnly

\* Undisturbed by another, a request about mailboxes and aliases does all it
\* is asked or leaves mail on its way, and refuses what it must and nothing
\* else (Mail.tla; detectsAliasLoop, update, bulkRestrict).  An autoresponder
\* answers on the days it shows and never costs a mailbox its filter
\* (Sieve.tla; AutoresponderService.update).
MailHolds == M!MailHolds /\ S!SieveHolds

\* Docker is only called for the container that was meant, and never for a
\* volume with the mail server's data (Broker.tla; selectSingleMatch,
\* handleVolumeRemove).
BrokerHolds == B!BrokerHolds
==============================================================================
