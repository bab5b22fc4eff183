-------------------------- MODULE MigrationProofs ---------------------------
(***************************************************************************)
(* Theorems about Migration, for any set of bindings in the old file and   *)
(* every retention time and prune interval.                                *)
(*                                                                         *)
(* Once the column has been filled, no binding that predates it looks      *)
(* older than the upgrade.  Between ALTER TABLE and the UPDATE it does, so *)
(* the process must not stop there: the run migration_midway shows what    *)
(* happens otherwise.                                                      *)
(***************************************************************************)
EXTENDS Migration, TLAPS

\* Filled: before the column and until it is filled nothing is known about an
\* old binding; after that, nothing from before the upgrade.
Filled ==
  /\ legacy \subseteq rows
  /\ upgraded <= clock
  /\ ~hasColumn => state \in {"down", "alter"}
  /\ ~hasColumn \/ state = "backfill" => \A t \in legacy : seen[t] = 0
  /\ hasColumn /\ state # "backfill" => \A t \in legacy : upgraded <= seen[t]

\* TypeStep: types are kept.
LEMMA TypeStep ==
  ASSUME TypeOK, [Next]_vars
  PROVE  TypeOK'
<1>1. CASE Open
  BY <1>1 DEF TypeOK, Open
<1>2. CASE Alter
  BY <1>2 DEF TypeOK, Alter
<1>3. CASE Backfill
  BY <1>3 DEF TypeOK, Backfill
<1>4. CASE Stop
  BY <1>4 DEF TypeOK, Stop
<1>5. ASSUME NEW t \in Tokens, Bind(t) PROVE TypeOK'
  BY <1>5 DEF TypeOK, Bind
<1>6. CASE Sweep
  <2>1. seen' \in [Tokens -> 0..TimeBound]
    BY <1>6, MigrationAssumption DEF TypeOK, Sweep
  <2> QED BY <1>6, <2>1 DEF TypeOK, Sweep
<1>7. CASE Tick
  BY <1>7, MigrationAssumption DEF TypeOK, Tick
<1>8. CASE UNCHANGED vars
  BY <1>8 DEF TypeOK, vars
<1> QED BY <1>1, <1>2, <1>3, <1>4, <1>5, <1>6, <1>7, <1>8 DEF Next

\* FilledStep: a process that does not stop between the two statements fills
\* the column before anything reads it.
LEMMA FilledStep ==
  ASSUME ~StopMidway, TypeOK, Filled, [Next]_vars
  PROVE  Filled'
<1>0. /\ clock \in Nat /\ upgraded \in Nat
      /\ \A t \in Tokens : seen[t] \in Nat
      /\ legacy \subseteq Tokens /\ rows \subseteq Tokens
      /\ seen \in [Tokens -> 0..TimeBound]
  BY MigrationAssumption DEF TypeOK
<1>1. CASE Open
  BY <1>1 DEF Filled, Open
<1>2. CASE Alter
  BY <1>0, <1>2 DEF Filled, Alter
<1>3. CASE Backfill
  <2>1. \A t \in legacy : seen'[t] = clock
    BY <1>0, <1>3 DEF Filled, Backfill
  <2> QED BY <1>0, <1>3, <2>1 DEF Filled, Backfill
<1>4. CASE Stop
  BY <1>4 DEF Filled, Stop
<1>5. ASSUME NEW t \in Tokens, Bind(t) PROVE Filled'
  <2>1. hasColumn /\ state = "running"
    BY <1>5 DEF Filled, Bind
  <2>2. \A u \in legacy : upgraded <= seen'[u]
    BY <1>0, <1>5, <2>1 DEF Filled, Bind
  <2> QED BY <1>5, <2>1, <2>2 DEF Filled, Bind
<1>6. CASE Sweep
  <2>1. hasColumn /\ state = "running"
    BY <1>6 DEF Filled, Sweep
  <2>2. PICK stale \in SUBSET rows :
          /\ rows' = rows \ stale
          /\ legacy' = legacy \ stale
          /\ seen' = [t \in Tokens |-> IF t \in stale THEN 0 ELSE seen[t]]
    BY <1>6 DEF Sweep
  <2>3. \A u \in legacy' : u \in legacy /\ seen'[u] = seen[u]
    BY <1>0, <2>2
  <2> QED BY <1>6, <2>1, <2>2, <2>3 DEF Filled, Sweep
<1>7. CASE Tick
  BY <1>0, <1>7 DEF Filled, Tick
<1>8. CASE UNCHANGED vars
  BY <1>8 DEF Filled, vars
<1> QED BY <1>1, <1>2, <1>3, <1>4, <1>5, <1>6, <1>7, <1>8 DEF Next

\* WindowStep: what a sweep removes of the old bindings has had its window.
LEMMA WindowStep ==
  ASSUME TypeOK, Filled, [Next]_vars
  PROVE  [\A t \in legacy : t \notin rows' => upgraded + Retention < clock]_vars
<1> SUFFICES ASSUME NEW t \in legacy, t \notin rows', Next
             PROVE  upgraded + Retention < clock
  BY DEF vars
<1>1. t \in rows
  BY DEF Filled
<1>2. /\ clock \in Nat /\ upgraded \in Nat /\ seen[t] \in Nat
      /\ Retention \in Nat
  BY MigrationAssumption DEF TypeOK
<1>3. CASE Sweep
  <2>1. seen[t] < clock - Retention
    BY <1>1, <1>3 DEF Sweep
  <2>2. upgraded <= seen[t]
    BY <1>3 DEF Filled, Sweep
  <2> QED BY <1>2, <2>1, <2>2
<1>4. CASE ~Sweep
  BY <1>1, <1>4 DEF Next, Open, Alter, Backfill, Stop, Bind, Tick
<1> QED BY <1>3, <1>4

\* TypeCorrect: the file and the process keep their types, also when the
\* process stops midway.
THEOREM TypeCorrect == Spec => []TypeOK
<1>1. Init => TypeOK
  <2>1. 0 \in 0..TimeBound /\ Retention + 1 \in 0..TimeBound
    BY MigrationAssumption
  <2> QED BY <2>1 DEF Init, TypeOK
<1> QED BY <1>1, TypeStep, PTL DEF Spec

\* LegacyWindowHolds: unless the process stops between ALTER TABLE and the
\* UPDATE, every binding that predates the column has a full retention window
\* from the upgrade on, through any number of restarts.
THEOREM LegacyWindowHolds == ASSUME ~StopMidway PROVE Spec => LegacyWindow
<1>1. Init => Filled
  BY MigrationAssumption DEF Init, Filled
<1>2. TypeOK /\ Filled /\ [Next]_vars => Filled'
  BY FilledStep
<1>3. TypeOK /\ Filled /\ [Next]_vars =>
        [\A t \in legacy : t \notin rows' => upgraded + Retention < clock]_vars
  BY WindowStep
<1> QED BY <1>1, <1>2, <1>3, TypeCorrect, PTL DEF Spec, LegacyWindow
=============================================================================
