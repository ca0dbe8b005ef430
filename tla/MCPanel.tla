------------------------------- MODULE MCPanel -------------------------------
(***************************************************************************)
(* SelfUpdate, Notifications and Settings for TLC.  A behaviour is one of  *)
(* the three, and the others rest; or it is no behaviour at all, and       *)
(* `swap` holds the environments a container may be replaced with.         *)
(***************************************************************************)
EXTENDS Upkeep

VARIABLE part
all == <<part, swap, vars, bell, settings>>

MCFirstEnv == [MCP_ENABLED |-> "a", COOKIE_SECRET |-> "a",
               RSPAMD_PASSWORD |-> "unset", BROKER_SHARED_SECRET |-> "a"]

MCInit ==
  /\ part \in {"swap", "update", "bell", "settings"}
  /\ swap \in (IF part = "swap" THEN {{x} : x \in Swaps} ELSE {{}})
  /\ Init
  /\ N!Init /\ (part # "bell" => real = {})
  /\ C!Init /\ saved["OLD"] = "b" /\ (part # "settings" => build = 1 /\ mcpFit)

Updates == part = "update" /\ UNCHANGED <<part, swap, bell, settings>>
Rings == part = "bell" /\ UNCHANGED <<part, swap, vars, settings>>
MCNext ==
  \/ Updates /\ Next
  \/ Rings /\ N!Next
  \/ part = "settings" /\ C!Next /\ UNCHANGED <<part, swap, vars, bell>>

\* The fairness of each part, while it is the one that moves.
MCSpec ==
  /\ MCInit /\ [][MCNext]_all
  /\ WF_all(Updates /\ Updater) /\ WF_all(Updates /\ Panel)
  /\ \A t \in Ticks :
       /\ WF_all(Rings /\ N!Begin(t)) /\ WF_all(Rings /\ N!Write(t))
       /\ \A c \in Conditions : WF_all(Rings /\ N!Probe(t, c))

-----------------------------------------------------------------------------
\* An update gets to be over, for the updater and for the page that waits for
\* its verdict (SelfUpdate.tla; waitForHealthy, waitForPanelVerdict); and the
\* bell comes to show what is (Notifications.tla; evaluateNotificationsOnce).
PanelSettles == UpdateSettles /\ N!BellAgrees
==============================================================================
