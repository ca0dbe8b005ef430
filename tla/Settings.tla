------------------------------ MODULE Settings ------------------------------
(***************************************************************************)
(* The settings editor and what the server makes of it when it starts      *)
(* (server/src/modules/config, platform/config.ts, platform/migrations/    *)
(* runner.ts, index.ts).                                                   *)
(*                                                                         *)
(* The editor saves overrides of environment variables; a start brings the *)
(* schema up to the build's, folds the overrides into the environment,     *)
(* leaving out those that do not validate, and runs with the result.  A    *)
(* request is synchronous: only the death of the process cuts it.  An      *)
(* operator may change the environment, or the build, between two runs.    *)
(***************************************************************************)
EXTENDS Integers, FiniteSets, Functions

CONSTANTS Fields,    \* editable keys that are checked one by one
          Refined,   \* editable keys that are checked when all of Fields are right
          Optional,  \* editable keys that take any value, and may have none
          ReadOnly,  \* keys shown and not editable
          Removed,   \* keys of earlier builds that may have a row
          McpKey,    \* the one of Fields that turns the MCP integration on
          Good, Bad, \* values: valid and invalid
          On,        \* the one of Good that turns McpKey on
          FirstEnv,  \* the environment at first, one the server starts with
          MaxBuild,  \* bound: migrations of the newest build
          MaxApplies,\* bound: change sets applied
          MaxEdits,  \* bound: changes of environment or build
          MaxStarts  \* bound: starts

Editable == Fields \cup Refined \cup Optional
Shown == Editable \cup ReadOnly          \* SETTINGS_ALLOWLIST
Values == Good \cup Bad
Unset == "unset"
Nothing == "nothing"
Keys == Shown \cup Removed
Changes ==
  {c \in UNION {[K -> Values] : K \in {{k, l} : k, l \in Keys}} :
     \A k \in DOMAIN c \cap Optional : c[k] \in Good}

VARIABLES
  server,   \* what the process is at
  build,    \* migrations it knows: 1 .. build
  applied,  \* schema_migrations
  schema,   \* migrations whose changes are in the database
  env,      \* the environment
  mcpFit,   \* the environment's MCP settings are right
  saved,    \* settings
  snapshots,\* config_snapshots
  running,  \* AppConfig
  loaded,   \* history: saved and env when running was made
  rolled,   \* history: the snapshot the last change set came from, if one
  applies, edits, starts

vars == <<server, build, applied, schema, env, mcpFit, saved, snapshots, running, loaded, rolled,
          applies, edits, starts>>
database == <<applied, schema, saved, snapshots>>
host == <<build, env, mcpFit>>
hist == <<loaded, rolled>>
bounds == <<applies, edits, starts>>

Stopped == {"down", "too old", "migration failed", "bad config", "bad mcp config"}
Pending == (1 .. build) \ applied

\* Rows of keys that are not editable any more may have been left behind.
Init ==
  /\ server = "down" /\ build \in 1 .. MaxBuild /\ applied = {} /\ schema = {}
  /\ env = FirstEnv /\ mcpFit \in BOOLEAN
  /\ \E K \in {{}, ReadOnly \cup Removed} :
       saved = [k \in Keys |-> IF k \in K THEN On ELSE Nothing]
  /\ snapshots = {} /\ running = env /\ loaded = [saved |-> saved, env |-> env] /\ rolled = {}
  /\ applies = 0 /\ edits = 0 /\ starts = 0

-----------------------------------------------------------------------------
(***************************************************************************)
(* Start                                                                   *)
(***************************************************************************)

\* runMigrations: a database of a newer build is refused.
TooNew == \E v \in applied : v > build

Start ==
  /\ server \in Stopped /\ starts < MaxStarts /\ starts' = starts + 1
  /\ server' = IF TooNew THEN "too old" ELSE "migrating"
  /\ UNCHANGED <<database, host, running, hist, applies, edits>>

\* One migration, the lowest first, with its row, in one transaction.
Lowest == {v \in Pending : \A w \in Pending : v <= w}
Migrate ==
  /\ server = "migrating"
  /\ \E v \in Lowest : applied' = applied \cup {v} /\ schema' = schema \cup {v}
  /\ UNCHANGED <<server, saved, snapshots, host, running, hist, bounds>>

\* It throws: the transaction is rolled back, and the process exits.
MigrateFails ==
  /\ server = "migrating" /\ Pending # {} /\ server' = "migration failed"
  /\ UNCHANGED <<database, host, running, hist, bounds>>

\* filterStartupOverrides
Startup == Restrict(saved, {k \in Editable : saved[k] # Nothing})

Merged(K) == [k \in Shown |-> IF k \in K THEN saved[k] ELSE env[k]]

\* The issues rawEnvSchema.safeParse reports: the refinement runs on fields
\* that are all right.
Issues(e) ==
  LET wrong == {k \in Fields : e[k] \in Bad}
  IN IF wrong # {} THEN wrong ELSE {k \in Refined : e[k] \in Bad}

\* resolveEffectiveEnv: as many attempts as there were overrides, each of
\* which drops one that is to blame.
Effective(K) ==
  LET active[n \in 0 .. Cardinality(K)] ==
        IF n = 0 THEN K
        ELSE LET blamed == Issues(Merged(active[n - 1])) \cap active[n - 1]
             IN IF blamed = {} THEN active[n - 1]
                ELSE active[n - 1] \ {CHOOSE k \in blamed : TRUE}
  IN active[Cardinality(K)]

\* loadConfig on the overrides, then the MCP integration, if it is on, on the
\* environment.
Load ==
  LET e == Merged(Effective(DOMAIN Startup))
  IN /\ server = "migrating" /\ Pending = {}
     /\ server' = IF Issues(e) # {} THEN "bad config"
                  ELSE IF e[McpKey] = On /\ ~mcpFit THEN "bad mcp config"
                  ELSE "up"
     /\ running' = e
     /\ loaded' = [saved |-> saved, env |-> env]
     /\ UNCHANGED <<database, host, rolled, bounds>>

\* The process dies, or is stopped.
Die ==
  /\ server \in {"migrating", "up"} /\ server' = "down"
  /\ UNCHANGED <<database, host, running, hist, bounds>>

\* The operator puts another build in place, or edits .env.
Edit ==
  /\ server \in Stopped /\ edits < MaxEdits /\ edits' = edits + 1
  /\ \/ build' \in (1 .. MaxBuild) \ {build} /\ UNCHANGED <<env, mcpFit>>
     \/ \E k \in Shown, v \in Good : v # env[k] /\ env' = [env EXCEPT ![k] = v] /\ UNCHANGED <<build, mcpFit>>
  /\ UNCHANGED <<server, database, running, hist, applies, starts>>

-----------------------------------------------------------------------------
(***************************************************************************)
(* The editor                                                              *)
(***************************************************************************)

\* validate
Allowed(c) == DOMAIN c \subseteq Editable

\* Slip: the values that are saved.
CurrentSaved == Restrict(saved, {k \in Editable : saved[k] # Nothing})

\* The values of the snapshot: those that run, without the ones that are null.
Current == Restrict(running, {k \in Shown : running[k] # Unset})

Snapshot == [of |-> Current, ran |-> running]  \* ran: history

Overridden(c) == [k \in DOMAIN saved |-> IF k \in DOMAIN c THEN c[k] ELSE saved[k]]

\* apply: the snapshot first, then every key in one transaction.
ApplySet(c) ==
  /\ server = "up" /\ applies < MaxApplies /\ applies' = applies + 1
  /\ Allowed(c)
  /\ snapshots' = snapshots \cup {Snapshot}
  /\ saved' = Overridden(c)

Apply(c) ==
  /\ ApplySet(c) /\ rolled' = {}
  /\ UNCHANGED <<server, applied, schema, host, running, loaded, edits, starts>>

\* The process dies in between: a snapshot, and nothing saved.
ApplyCut(c) ==
  /\ server = "up" /\ applies < MaxApplies /\ applies' = applies + 1
  /\ Allowed(c)
  /\ snapshots' = snapshots \cup {Snapshot} /\ server' = "down"
  /\ UNCHANGED <<applied, schema, saved, host, running, hist, edits, starts>>

\* rollback: the snapshot's editable values, through apply.
Rollback(s) ==
  /\ ApplySet(Restrict(s.of, DOMAIN s.of \cap Editable)) /\ rolled' = {s}
  /\ UNCHANGED <<server, applied, schema, host, running, loaded, edits, starts>>

Next ==
  \/ Start \/ Migrate \/ MigrateFails \/ Load \/ Die \/ Edit
  \/ \E c \in Changes : Apply(c) \/ ApplyCut(c)
  \/ \E s \in snapshots : Rollback(s)

Spec == Init /\ [][Next]_vars

-----------------------------------------------------------------------------
TypeOK ==
  /\ server \in Stopped \cup {"migrating", "up"}
  /\ build \in 1 .. MaxBuild /\ applied \subseteq 1 .. MaxBuild /\ schema \subseteq 1 .. MaxBuild
  /\ env \in [Shown -> Good \cup {Unset}] /\ mcpFit \in BOOLEAN
  /\ saved \in [Keys -> Values \cup {Nothing}]
  /\ \A s \in snapshots : s.of \in [DOMAIN s.of -> Good] /\ DOMAIN s.of \subseteq Shown
  /\ running \in [Shown -> Values \cup {Unset}]
  /\ rolled \subseteq snapshots
  /\ applies \in 0 .. MaxApplies /\ edits \in 0 .. MaxEdits /\ starts \in 0 .. MaxStarts

\* The schema is whole whenever the process died or a migration failed: the
\* recorded migrations are those in the database, without a gap, and a server
\* that serves has exactly its own build's (runMigrations).
SchemaWhole ==
  /\ applied = schema /\ applied = 1 .. Cardinality(applied)
  /\ server = "up" => applied = 1 .. build

\* No saved value keeps the server from starting, however many are wrong, but
\* for the MCP switch (resolveEffectiveEnv).
NeverBricked == server # "bad config"

\* A server runs with exactly the saved values that are valid by themselves,
\* and the environment for all other keys: a bad one takes no other with it,
\* and no row can change a key that is not editable (filterStartupOverrides,
\* resolveEffectiveEnv).
SavedTakesEffect ==
  server = "up" =>
    running = [k \in Shown |->
      IF k \in Editable /\ loaded.saved[k] \in Good THEN loaded.saved[k] ELSE loaded.env[k]]

\* A start ends with the schema whole and what was saved in effect, or for a
\* reason that is none of the editor's.
StartHolds == TypeOK /\ SchemaWhole /\ NeverBricked /\ SavedTakesEffect

\* Rolling back works: once the server runs what was saved last, and that was
\* a rollback, it runs with every value that ran when the snapshot was taken
\* and the editor may set, whatever was saved, refused at a start and dropped
\* in between (apply, rollback).
RollbackReturns ==
  server = "up" /\ loaded.saved = saved =>
    \A s \in rolled, k \in Editable : s.ran[k] # Unset => running[k] = s.ran[k]
=============================================================================
