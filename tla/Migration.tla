----------------------------- MODULE Migration ------------------------------
(***************************************************************************)
(* Opening a database file that was written before the tokens table had    *)
(* the column last_seen_at: Open and migrate, internal/keys/keys.go, and   *)
(* the sweep that reads the column.  ALTER TABLE and the UPDATE that       *)
(* follows it are two statements, each committed on its own; the process   *)
(* can stop between them, or the UPDATE can fail, which makes Open fail    *)
(* and main stop.                                                          *)
(***************************************************************************)
EXTENDS Integers

CONSTANTS
  Tokens,         \* device tokens
  Retention,      \* the retention time of the sweep
  PruneInterval,  \* pruneInterval
  StopMidway,     \* TRUE when the process may stop between the two statements
  TimeBound       \* bound: the clock stops here

ASSUME MigrationAssumption ==
  /\ Retention \in Nat \ {0}
  /\ PruneInterval \in Nat
  /\ StopMidway \in BOOLEAN
  /\ TimeBound \in Nat /\ Retention < TimeBound

VARIABLES
  rows,       \* the tokens that have a row
  hasColumn,  \* the tokens table has last_seen_at
  seen,       \* seen[t]: last_seen_at of t's row; 0 is the column's default
  state,      \* where the process is
  lastPrune,  \* Store.lastPrune
  clock,      \* time.Now().Unix()
  legacy,     \* history: the rows that predate the column
  upgraded    \* history: when the column was added, 0 before

vars == <<rows, hasColumn, seen, state, lastPrune, clock, legacy, upgraded>>

TypeOK ==
  /\ rows \subseteq Tokens
  /\ hasColumn \in BOOLEAN
  /\ seen \in [Tokens -> 0..TimeBound]
  /\ state \in {"down", "alter", "backfill", "running"}
  /\ lastPrune \in 0..TimeBound
  /\ clock \in 0..TimeBound
  /\ legacy \subseteq Tokens
  /\ upgraded \in 0..TimeBound

\* An old file with some bindings in it, or a new one.  The time of day is
\* far from the epoch: 0 is older than any cutoff.
Init ==
  /\ hasColumn \in BOOLEAN
  /\ rows \in IF hasColumn THEN {{}} ELSE SUBSET Tokens
  /\ seen = [t \in Tokens |-> 0]
  /\ state = "down"
  /\ clock = Retention + 1
  /\ lastPrune = clock
  /\ legacy = rows
  /\ upgraded = 0

\* Open up to CREATE TABLE IF NOT EXISTS, which leaves an old table alone.
Open ==
  /\ state = "down"
  /\ state' = "alter"
  /\ lastPrune' = clock
  /\ UNCHANGED <<rows, hasColumn, seen, clock, legacy, upgraded>>

\* Mutant: no backfill.
AlterOnly ==
  /\ state = "alter"
  /\ state' = "running"
  /\ hasColumn' = TRUE
  /\ upgraded' = IF hasColumn THEN upgraded ELSE clock
  /\ UNCHANGED <<rows, seen, lastPrune, clock, legacy>>

\* ALTER TABLE ADD COLUMN.  "duplicate column name" means that there is
\* nothing left to do.
Alter ==
  /\ state = "alter"
  /\ IF hasColumn
       THEN /\ state' = "running"
            /\ UNCHANGED <<hasColumn, upgraded>>
       ELSE /\ state' = "backfill"
            /\ hasColumn' = TRUE
            /\ upgraded' = clock
  /\ UNCHANGED <<rows, seen, lastPrune, clock, legacy>>

\* Mutant: the column is filled with the time at which the binding expires.
BackfillExpiry ==
  /\ state = "backfill"
  /\ seen' = [t \in Tokens |-> IF t \in rows /\ seen[t] = 0
                                 THEN clock + Retention ELSE seen[t]]
  /\ state' = "running"
  /\ UNCHANGED <<rows, hasColumn, lastPrune, clock, legacy, upgraded>>

\* UPDATE tokens SET last_seen_at = now WHERE last_seen_at = 0.
Backfill ==
  /\ state = "backfill"
  /\ seen' = [t \in Tokens |-> IF t \in rows /\ seen[t] = 0 THEN clock
                               ELSE seen[t]]
  /\ state' = "running"
  /\ UNCHANGED <<rows, hasColumn, lastPrune, clock, legacy, upgraded>>

\* The process stops, or a statement of migrate fails.
Stop ==
  /\ state # "down"
  /\ state = "backfill" => StopMidway
  /\ state' = "down"
  /\ UNCHANGED <<rows, hasColumn, seen, lastPrune, clock, legacy, upgraded>>

\* A send by the owner of t, or by the first key to use t: BindToken
\* without its sweep.
Bind(t) ==
  /\ state = "running"
  /\ rows' = rows \cup {t}
  /\ seen' = [seen EXCEPT ![t] = clock]
  /\ UNCHANGED <<hasColumn, state, lastPrune, clock, legacy, upgraded>>

\* maybePruneStaleTokens, which every BindToken ends with.
Sweep ==
  /\ state = "running"
  /\ clock - lastPrune >= PruneInterval
  /\ lastPrune' = clock
  /\ LET stale == {t \in rows : seen[t] < clock - Retention} IN
       /\ rows' = rows \ stale
       /\ legacy' = legacy \ stale
       /\ seen' = [t \in Tokens |-> IF t \in stale THEN 0 ELSE seen[t]]
  /\ UNCHANGED <<hasColumn, state, clock, upgraded>>

Tick ==
  /\ clock < TimeBound
  /\ clock' = clock + 1
  /\ UNCHANGED <<rows, hasColumn, seen, state, lastPrune, legacy, upgraded>>

Next ==
  \/ Open \/ Alter \/ Backfill \/ Stop
  \/ \E t \in Tokens : Bind(t)
  \/ Sweep
  \/ Tick

Spec == Init /\ [][Next]_vars

-----------------------------------------------------------------------------
(* Properties.                                                             *)

\* LegacyWindow: a binding that predates the column is not swept before it
\* had a full retention window from the upgrade on ("Treat rows that predate
\* the column as seen now, which gives them a full retention window to be
\* re-bound by real traffic", keys.go:120).
LegacyWindow ==
  [][\A t \in legacy : t \notin rows' => upgraded + Retention < clock]_vars
=============================================================================
