------------------------------- MODULE Upkeep -------------------------------
(***************************************************************************)
(* What the panel does about itself: it replaces its own containers        *)
(* (SelfUpdate), rings the bell (Notifications) and runs with the settings *)
(* that were saved (Settings).  The three share no state.                  *)
(***************************************************************************)
EXTENDS SelfUpdate

CONSTANTS EnvKeys, Provenance, EnvValues,           \* environments of containers
          Conditions, Ticks, MaxDeaths, Absent,     \* of Notifications
          Fields, Refined, Optional, ReadOnly, Removed, McpKey, Good, Bad, SwitchedOn, FirstEnv,
          MaxBuild, MaxApplies, MaxEdits, MaxStarts \* of Settings

VARIABLES swap, \* a swap of a container's environment, if one is looked at
          real, note, pass, gone, known, deaths,
          server, build, applied, schema, env, mcpFit, saved, snapshots, running, loaded, rolled,
          applies, edits, starts

bell == <<real, note, pass, gone, known, deaths>>
settings == <<server, build, applied, schema, env, mcpFit, saved, snapshots, running, loaded,
              rolled, applies, edits, starts>>

N == INSTANCE Notifications
C == INSTANCE Settings WITH On <- SwitchedOn

\* Values are valid or not, and neither is a mark for "none".
ASSUME SettingsAssumption ==
  /\ IsFiniteSet(Fields \cup Refined \cup Optional)
  /\ Good \cap Bad = {} /\ {C!Unset, C!Nothing} \cap (Good \cup Bad) = {} /\ SwitchedOn \in Good
  /\ FirstEnv \in [C!Shown -> Good \cup {C!Unset}]
  /\ MaxBuild \in Nat \ {0} /\ {MaxApplies, MaxEdits, MaxStarts} \subseteq Nat

-----------------------------------------------------------------------------
Envs == UNION {[K -> EnvValues] : K \in SUBSET EnvKeys}
\* The old image's environment, the new one's, what the operator set, and
\* whether the old image could be inspected
Swaps == [old : Envs, new : Envs, set : Envs, seen : BOOLEAN]

\* The new container: what describes an image comes from the new one; what the
\* operator set otherwise than the old image is kept; and, where the old image
\* was inspected, the rest is the new image's (buildImageSwapSpec).
SwapKeepsOnlyTheOperators ==
  \A x \in swap :
    LET made == Merge(x.new, WithoutInherited(Merge(x.old, x.set), IF x.seen THEN {x.old} ELSE {}, Provenance))
        own == {k \in DOMAIN x.set \ Provenance : ~(k \in DOMAIN x.old /\ x.old[k] = x.set[k])}
    IN /\ Only(made, Provenance) = Only(x.new, Provenance)
       /\ \A k \in own : made[k] = x.set[k]
       /\ x.seen => Only(made, EnvKeys \ own) = Only(x.new, EnvKeys \ own)

\* A start ends with the schema whole and what was saved in effect, or for a
\* reason that is none of the editor's (Settings.tla; runMigrations,
\* filterStartupOverrides, resolveEffectiveEnv).
\* A rollback brings back every value its snapshot held and the editor may
\* set, whatever was saved and dropped in between (Settings.tla; rollback).
\* And a container that is replaced keeps what its operator set, and nothing
\* else of the old image (buildImageSwapSpec).
SettingsHold == C!StartHolds /\ C!RollbackReturns /\ SwapKeepsOnlyTheOperators

\* What was read stays read while its condition lasts, and nothing is taken
\* for read that was never shown (Notifications.tla; upsertActive, markRead).
BellHolds == []N!ReadWasSeen /\ N!ReadStays
=============================================================================
