------------------------------- MODULE Broker -------------------------------
(***************************************************************************)
(* What the broker does to containers and volumes of a host it shares with *)
(* others (broker/src/operations.ts, container-resolver.ts; the look-ups   *)
(* of self-update/updater.ts).                                             *)
(*                                                                         *)
(* No request names a container.  The broker lists the host's containers,  *)
(* picks the one that matches an identity it is configured with, and calls *)
(* Docker with its id, or refuses.  A self-update picks two and hands      *)
(* their names to an updater, which looks up the names again, later.  In   *)
(* between, the host's operator may remove, rename and create containers;  *)
(* a container's mounts are fixed when it is created, and an id is never   *)
(* given out again.  A call of Docker may fail, with or without its        *)
(* effect.                                                                 *)
(***************************************************************************)
EXTENDS Naturals, FiniteSets

CONSTANTS Ids,          \* of containers: 1 .. n, given out in that order
          ContainerNames, Labels, Volumes,
          Hosts,        \* the containers there may be at first
          Mounts,       \* the volumes a new one may have: [data, other]
          Configs,      \* the identities the broker may be configured with
          Requests,
          MaxOutside,   \* bound: deeds of the operator
          None

VARIABLES
  host,     \* the containers; None: not made yet
  volumes,  \* the volumes
  config,   \* DMS_*, PANEL_SERVER_*, PANEL_BROKER_*
  req,
  outside   \* deeds of the operator

vars == <<host, volumes, config, req, outside>>

There == {i \in Ids : host[i] # None /\ ~host[i].gone}

-----------------------------------------------------------------------------
(***************************************************************************)
(* Which container is meant                                                *)
(***************************************************************************)

\* matchesServiceIdentity: a label, if one is configured, and else the name.
Matches(i, identity) ==
  IF identity.label # None THEN identity.label \in host[i].labels
  ELSE identity.name = host[i].name
Matching(identity) == {i \in There : Matches(i, identity)}

\* Slip: of several, the one made first will do.
SelectFirst(identity) == {i \in Matching(identity) : \A j \in Matching(identity) : i <= j}

\* selectSingleMatch: exactly one, or none at all.
Select(identity) == IF Cardinality(Matching(identity)) = 1 THEN Matching(identity) ELSE {}

\* computeProtectedVolumeNames: `data` are the volumes on the data paths of
\* docker-mailserver.
Protected(i) == host[i].data

-----------------------------------------------------------------------------
(***************************************************************************)
(* Requests                                                                *)
(***************************************************************************)

\* "read" stands for inspect, stats and logs.
OnMail == {"start", "stop", "restart", "read", "removeVolume"}
OnPanel == {"panelRestart", "selfUpdate"}
Unused == [at |-> "unused"]

Init ==
  /\ host \in Hosts /\ config \in Configs
  /\ volumes = Volumes
  /\ req = [r \in Requests |-> Unused]
  /\ outside = 0

\* resolveOrForbid; handlePanelRestart; resolvePanelIdentities.  None picked:
\* the request is refused.
Picked(op) ==
  CASE op \in OnMail -> Select(config.dms)
    [] op = "panelRestart" -> {i \in Select(config.server) : ~Matches(i, config.broker)}
    [] op = "selfUpdate" ->
         LET s == Select(config.server)
             b == Select(config.broker)
         IN IF s = {} \/ b = {} \/ s = b \/ (\E i \in s \cup b : Matches(i, config.dms))
            THEN {} ELSE s \cup b

\* What a request does first with the containers it has picked.
First(op) == CASE op = "removeVolume" -> "inspect" [] op = "selfUpdate" -> "launch" [] OTHER -> "call"

\* The list of all containers is answered.  `ids` are the containers to call
\* Docker with; `meant` and `held` record the host as it was listed, and
\* `touched` the containers the operator has made, renamed or removed since.
Resolve(r, op, v) ==
  /\ req[r] = Unused
  /\ req' = [req EXCEPT ![r] =
       [op |-> op, v |-> v, ids |-> Picked(op), acted |-> FALSE,
        at |-> IF Picked(op) = {} THEN "refused" ELSE First(op),
        names |-> [k \in {"server", "broker"} |-> {host[i].name : i \in Matching(config[k])}],
        meant |-> [k \in {"dms", "server", "broker"} |-> Matching(config[k])],
        held |-> UNION {Protected(i) : i \in Matching(config.dms)}, touched |-> {}]]
  /\ UNCHANGED <<host, volumes, config, outside>>

UnderWay(r) == req[r].at \in {"inspect", "call", "launch", "server", "broker", "replace"}

\* Slip: what the container holds is not looked at.
InspectBlind(r) ==
  /\ req[r].at = "inspect"
  /\ req' = [req EXCEPT ![r].at = "call"]
  /\ UNCHANGED <<host, volumes, config, outside>>

\* handleVolumeRemove after inspectContainer, which fails if it is gone.
Inspect(r) ==
  /\ req[r].at = "inspect"
  /\ req' = [req EXCEPT ![r].at =
       IF ~(req[r].ids \subseteq There) THEN "failed"
       ELSE IF \E i \in req[r].ids : req[r].v \in Protected(i) THEN "refused" ELSE "call"]
  /\ UNCHANGED <<host, volumes, config, outside>>

\* Docker does to the containers that were picked what it is asked.
Acts(r) ==
  /\ req[r].ids \subseteq There
  /\ \E end \in {"done", "failed"} : req' = [req EXCEPT ![r].at = end, ![r].acted = TRUE]

\* Docker: start, stop and restart of a container that is there.
Call(r) ==
  /\ req[r].at = "call" /\ req[r].op # "removeVolume"
  /\ Acts(r)
  /\ host' = [i \in Ids |->
       IF i \in req[r].ids /\ req[r].op # "read" THEN [host[i] EXCEPT !.up = req[r].op # "stop"]
       ELSE host[i]]
  /\ UNCHANGED <<volumes, config, outside>>

\* handlePanelSelfUpdateApply: the broker is inspected, by its id, and the
\* updater is made, with the names the two containers were listed under.
Launch(r) ==
  /\ req[r].at = "launch" /\ req[r].meant.broker \subseteq There
  /\ req' = [req EXCEPT ![r].at = "server", ![r].ids = {}]
  /\ UNCHANGED <<host, volumes, config, outside>>

\* resolveIdByName, after the pulls: a list for the one name and another for
\* the other.  What a container is besides its name is not looked at.
Find(r) ==
  /\ req[r].at \in {"server", "broker"}
  /\ LET k == req[r].at
         found == {i \in There : host[i].name \in req[r].names[k]}
     IN req' = [req EXCEPT ![r].ids = @ \cup found,
                           ![r].at = IF found = {} THEN "failed"
                                     ELSE IF k = "server" THEN "broker" ELSE "replace"]
  /\ UNCHANGED <<host, volumes, config, outside>>

\* runSelfUpdate: both are there to be inspected, and are replaced (which is
\* SelfUpdate.tla's).
Replace(r) ==
  /\ req[r].at = "replace"
  /\ Acts(r)
  /\ UNCHANGED <<host, volumes, config, outside>>

\* Docker: a volume no container has, be it running or not, is removed.
RemoveVolume(r) ==
  /\ req[r].at = "call" /\ req[r].op = "removeVolume"
  /\ req[r].v \in volumes /\ \A i \in There : req[r].v \notin host[i].data \cup host[i].other
  /\ volumes' = volumes \ {req[r].v}
  /\ \E end \in {"done", "failed"} : req' = [req EXCEPT ![r].at = end, ![r].acted = TRUE]
  /\ UNCHANGED <<host, config, outside>>

\* callDocker, and the updater's own calls and pulls: one fails and nothing
\* has happened.
Fail(r) ==
  /\ UnderWay(r)
  /\ req' = [req EXCEPT ![r].at = "failed"]
  /\ UNCHANGED <<host, volumes, config, outside>>

-----------------------------------------------------------------------------
(***************************************************************************)
(* The operator of the host                                                *)
(***************************************************************************)

FreeName(n) == \A i \in There : host[i].name # n
Deed(i) ==
  /\ outside' = outside + 1 /\ UNCHANGED config
  /\ req' = [r \in Requests |->
       IF UnderWay(r) /\ req[r].op = "selfUpdate" THEN [req[r] EXCEPT !.touched = @ \cup {i}] ELSE req[r]]

\* A container is made, by hand or by compose, with its volumes if need be.
Create(i, n, L, m) ==
  /\ host[i] = None /\ \A j \in Ids : j < i => host[j] # None
  /\ FreeName(n) /\ Deed(i)
  /\ host' = [host EXCEPT ![i] =
       [name |-> n, labels |-> L, data |-> m.data, other |-> m.other, up |-> TRUE, gone |-> FALSE]]
  /\ volumes' = volumes \cup m.data \cup m.other
Remove(i) == Deed(i) /\ host' = [host EXCEPT ![i].gone = TRUE, ![i].up = FALSE] /\ UNCHANGED volumes
Rename(i, n) == FreeName(n) /\ Deed(i) /\ host' = [host EXCEPT ![i].name = n] /\ UNCHANGED volumes

\* The operator matters as long as a request is to come or under way.
Outside ==
  /\ outside < MaxOutside /\ \E r \in Requests : req[r] = Unused \/ UnderWay(r)
  /\ \/ \E i \in Ids, n \in ContainerNames, L \in SUBSET Labels, m \in Mounts : Create(i, n, L, m)
     \/ \E i \in There : Remove(i) \/ \E n \in ContainerNames : Rename(i, n)

Next ==
  \/ \E r \in Requests :
       \/ \E op \in (OnMail \cup OnPanel) \ {"removeVolume"} : Resolve(r, op, None)
       \/ \E v \in Volumes : Resolve(r, "removeVolume", v)
       \/ Inspect(r) \/ Call(r) \/ RemoveVolume(r) \/ Fail(r)
       \/ Launch(r) \/ Find(r) \/ Replace(r)
  \/ Outside

Spec == Init /\ [][Next]_vars

-----------------------------------------------------------------------------
TypeOK ==
  /\ DOMAIN host = Ids /\ volumes \subseteq Volumes /\ config \in Configs
  /\ \A i \in There :
       /\ host[i].name \in ContainerNames /\ host[i].labels \subseteq Labels
       /\ host[i].data \cup host[i].other \subseteq volumes
  /\ \A r \in Requests :
       \/ req[r] = Unused
       \/ UnderWay(r) /\ req[r].ids \cup req[r].touched \subseteq Ids
       \/ req[r].at \in {"done", "failed", "refused"} /\ req[r].ids \cup req[r].touched \subseteq Ids

\* Whatever is removed, renamed and made meanwhile, Docker is only called for
\* the one container the configuration meant when the containers were listed:
\* of two that match neither is touched, and the broker is never restarted by
\* its own hand.  A self-update, which goes by the names, replaces the two
\* containers that were meant, and neither is the mail server, unless the
\* operator has renamed or removed one of the two since; and what it replaces
\* instead, be it the mail server, is a container the operator has made or
\* renamed since (selectSingleMatch, handlePanelRestart,
\* resolvePanelIdentities, resolveIdByName).
ActsOnWhatIsMeant ==
  \A r \in Requests : req[r] # Unused /\ req[r].acted =>
    LET m == req[r].meant
        panel == m.server \cup m.broker
    IN CASE req[r].op = "panelRestart" -> req[r].ids = m.server /\ m.server \cap m.broker = {}
         [] req[r].op = "selfUpdate" ->
              /\ panel \cap m.dms = {} /\ Cardinality(panel) = 2
              /\ panel \cap req[r].touched = {} => req[r].ids = panel
              /\ req[r].ids \ panel \subseteq req[r].touched
         [] OTHER -> req[r].ids = m.dms /\ Cardinality(m.dms) = 1

\* A request never removes a volume that held the mail server's data when it
\* was made, not even when the container that kept it is taken away at the
\* worst moment and Docker no longer objects (handleVolumeRemove,
\* computeProtectedVolumeNames, removeVolume).
DataIsKept ==
  \A r \in Requests :
    req[r] # Unused /\ req[r].op = "removeVolume" /\ req[r].acted => req[r].v \notin req[r].held

BrokerHolds == TypeOK /\ ActsOnWhatIsMeant /\ DataIsKept
==============================================================================
