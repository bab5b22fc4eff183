--------------------------- MODULE KeyStoreProofs ---------------------------
(***************************************************************************)
(* Proofs about KeyStore for any number of callers and tokens, any         *)
(* retention time, prune interval and ceiling, and without its bounds on   *)
(* keys and time mattering.                                                *)
(*                                                                         *)
(* The argument: the connection is held exactly by the caller that is      *)
(* inside a transaction (Exclusion), so whatever a transaction has read is *)
(* still true when it writes (TxIsolation); all recorded times lie in the  *)
(* past, and a cutoff lies a full retention time in the past (Times);      *)
(* so a claim is backed by its row until it lapses (ClaimBacked).          *)
(***************************************************************************)
EXTENDS KeyStore, TLAPS

\* The one connection is held by the caller inside a transaction.
Exclusion == \A c \in Callers : pc[c] \in InTx <=> conn = c

\* Where a caller has a key and a token.
Working == BindPC \cup PrunePC \cup {"returned"}

Locals ==
  \A c \in Callers :
    /\ pc[c] \in Working => key[c] # NoKey /\ tok[c] \in Tokens
    /\ pc[c] \in {"verify_stamp", "verified"} => key[c] # NoKey

\* No recorded time lies in the future; a sweep under way is enabled, and
\* its cutoff is at least Retention old.
Times ==
  /\ \A t \in Tokens : lastSeen[t] <= clock
  /\ \A c \in Callers :
       /\ stamp[c] <= clock
       /\ pc[c] \in {"prune_cutoff", "prune_delete"} => Retention > 0
       /\ pc[c] = "prune_delete" => cutoff[c] + Retention <= clock

IInv ==
  /\ TypeOK
  /\ Exclusion
  /\ Locals
  /\ Times
  /\ TxIsolation
  /\ ClaimBacked
  /\ RegistrationCeiling

-----------------------------------------------------------------------------
(* Type correctness, which needs Locals: BindToken reads the row of a      *)
(* token that exists.                                                      *)

\* TypeInit: in an empty store.
LEMMA TypeInit == Init => TypeOK /\ Locals
BY StoreAssumption DEF Init, TypeOK, Locals, Working, BindPC, PrunePC, NoKey, PCs

\* TypeStep: every step keeps the types.
LEMMA TypeStep == TypeOK /\ Locals /\ [Next]_vars => TypeOK'
<1> SUFFICES ASSUME TypeOK, Locals, [Next]_vars PROVE TypeOK'
  OBVIOUS
<1> USE StoreAssumption DEF TypeOK, NoKey, PCs, BindPC, IssuePC, PrunePC, Goto,
        durable, locals
<1>1. ASSUME NEW c \in Callers, BeginTx(c) PROVE TypeOK'
  BY <1>1 DEF BeginTx
<1>2. ASSUME NEW c \in Callers, AbortTx(c) PROVE TypeOK'
  BY <1>2 DEF AbortTx, DropLocals
<1>3. ASSUME NEW c \in Callers, IssueCall(c) PROVE TypeOK'
  BY <1>3 DEF IssueCall
<1>4. ASSUME NEW c \in Callers, CountKeys(c) PROVE TypeOK'
  BY <1>4 DEF CountKeys
<1>5. ASSUME NEW c \in Callers, CommitIssue(c) PROVE TypeOK'
  BY <1>5 DEF CommitIssue
<1>6. ASSUME NEW c \in Callers, NEW k \in 1..nkeys, Verify(c, k) PROVE TypeOK'
  BY <1>6 DEF Verify
<1>7. ASSUME NEW c \in Callers, StampUsed(c) PROVE TypeOK'
  BY <1>7 DEF StampUsed
<1>8. ASSUME NEW c \in Callers, ListOpen(c) \/ ListClose(c) PROVE TypeOK'
  BY <1>8 DEF ListOpen, ListClose
<1>9. ASSUME NEW c \in Callers, NEW t \in Tokens, BindCall(c, t) PROVE TypeOK'
  BY <1>9 DEF BindCall
<1>10. ASSUME NEW c \in Callers, ReadOwner(c) PROVE TypeOK'
  <2>1. owner[tok[c]] \in 0..nkeys
    BY <1>10 DEF ReadOwner, Locals, Working
  <2> QED BY <1>10, <2>1 DEF ReadOwner
<1>11. ASSUME NEW c \in Callers, CommitBind(c) PROVE TypeOK'
  BY <1>11 DEF CommitBind
<1>12. ASSUME NEW c \in Callers, PruneGate(c) PROVE TypeOK'
  BY <1>12 DEF PruneGate
<1>13. ASSUME NEW c \in Callers, PruneCutoff(c) PROVE TypeOK'
  BY <1>13 DEF PruneCutoff
<1>14. ASSUME NEW c \in Callers, PruneDelete(c) PROVE TypeOK'
  BY <1>14 DEF PruneDelete
<1>15. ASSUME NEW c \in Callers, PruneFails(c) PROVE TypeOK'
  BY <1>15 DEF PruneFails
<1>16. ASSUME NEW c \in Callers, NextMessage(c) PROVE TypeOK'
  BY <1>16 DEF NextMessage, DropLocals
<1>17. ASSUME NEW c \in Callers, EndRequest(c) PROVE TypeOK'
  BY <1>17 DEF EndRequest, DropLocals
<1>18. ASSUME NEW k \in 1..nkeys, Revoke(k) PROVE TypeOK'
  BY <1>18 DEF Revoke
<1>19. CASE Tick
  BY <1>19 DEF Tick
<1>20. CASE Restart
  BY <1>20 DEF Restart
<1>21. CASE UNCHANGED vars
  BY <1>21 DEF vars
<1> QED
  BY <1>1, <1>2, <1>3, <1>4, <1>5, <1>6, <1>7, <1>8, <1>9, <1>10, <1>11, <1>12,
     <1>13, <1>14, <1>15, <1>16, <1>17, <1>18, <1>19, <1>20, <1>21
     DEF Next, CallerStep

\* LocalsStep: what a caller holds fits the line it is at.
LEMMA LocalsStep == TypeOK /\ Locals /\ [Next]_vars => Locals'
<1> SUFFICES ASSUME TypeOK, Locals, [Next]_vars PROVE Locals'
  OBVIOUS
<1> USE StoreAssumption DEF TypeOK, Locals, Working, NoKey, PCs, BindPC, IssuePC,
        PrunePC, Goto, durable, locals
<1>1. ASSUME NEW c \in Callers, BeginTx(c) PROVE Locals'
  BY <1>1 DEF BeginTx
<1>2. ASSUME NEW c \in Callers, AbortTx(c) PROVE Locals'
  BY <1>2 DEF AbortTx, DropLocals
<1>3. ASSUME NEW c \in Callers, IssueCall(c) PROVE Locals'
  BY <1>3 DEF IssueCall
<1>4. ASSUME NEW c \in Callers, CountKeys(c) PROVE Locals'
  BY <1>4 DEF CountKeys
<1>5. ASSUME NEW c \in Callers, CommitIssue(c) PROVE Locals'
  BY <1>5 DEF CommitIssue
<1>6. ASSUME NEW c \in Callers, NEW k \in 1..nkeys, Verify(c, k)
     PROVE  Locals'
  BY <1>6 DEF Verify
<1>7. ASSUME NEW c \in Callers, StampUsed(c) PROVE Locals'
  BY <1>7 DEF StampUsed
<1>8. ASSUME NEW c \in Callers, ListOpen(c) \/ ListClose(c) PROVE Locals'
  BY <1>8 DEF ListOpen, ListClose
<1>9. ASSUME NEW c \in Callers, NEW t \in Tokens, BindCall(c, t)
     PROVE  Locals'
  BY <1>9 DEF BindCall
<1>10. ASSUME NEW c \in Callers, ReadOwner(c) PROVE Locals'
  BY <1>10 DEF ReadOwner
<1>11. ASSUME NEW c \in Callers, CommitBind(c) PROVE Locals'
  BY <1>11 DEF CommitBind
<1>12. ASSUME NEW c \in Callers, PruneGate(c) \/ PruneCutoff(c) PROVE Locals'
  BY <1>12 DEF PruneGate, PruneCutoff
<1>13. ASSUME NEW c \in Callers, PruneDelete(c) \/ PruneFails(c) PROVE Locals'
  BY <1>13 DEF PruneDelete, PruneFails, Stale
<1>14. ASSUME NEW c \in Callers, NextMessage(c) \/ EndRequest(c) PROVE Locals'
  BY <1>14 DEF NextMessage, EndRequest, DropLocals
<1>15. ASSUME NEW k \in 1..nkeys, Revoke(k) PROVE Locals'
  BY <1>15 DEF Revoke
<1>16. CASE Tick
  BY <1>16 DEF Tick
<1>17. CASE Restart
  BY <1>17 DEF Restart
<1>18. CASE UNCHANGED vars
  BY <1>18 DEF vars
<1> QED
  BY <1>1, <1>2, <1>3, <1>4, <1>5, <1>6, <1>7, <1>8, <1>9, <1>10,
     <1>11, <1>12, <1>13, <1>14, <1>15, <1>16, <1>17, <1>18 DEF Next, CallerStep

\* Every variable of the store has its type in every reachable state: no row
\* of tokens ever names a key that was not issued, and no key that was not
\* issued is ever revoked.
THEOREM TypeCorrect == Spec => []TypeOK
BY TypeInit, TypeStep, LocalsStep, PTL DEF Spec

-----------------------------------------------------------------------------
(* The rest of the invariant, one conjunct at a time.                      *)

\* ExclusionStep: there is one connection to the database, so one transaction.
LEMMA ExclusionStep == TypeOK /\ Exclusion /\ [Next]_vars => Exclusion'
<1> SUFFICES ASSUME TypeOK, Exclusion, [Next]_vars PROVE Exclusion'
  OBVIOUS
<1> USE StoreAssumption DEF TypeOK, Exclusion, InTx, BindPC, IssuePC, Goto, ConnFree,
        durable, locals
<1>1. ASSUME NEW c \in Callers, BeginTx(c) PROVE Exclusion'
  BY <1>1 DEF BeginTx
<1>2. ASSUME NEW c \in Callers, AbortTx(c) PROVE Exclusion'
  BY <1>2 DEF AbortTx, DropLocals
<1>3. ASSUME NEW c \in Callers, IssueCall(c) PROVE Exclusion'
  BY <1>3 DEF IssueCall
<1>4. ASSUME NEW c \in Callers, CountKeys(c) PROVE Exclusion'
  BY <1>4 DEF CountKeys
<1>5. ASSUME NEW c \in Callers, CommitIssue(c) PROVE Exclusion'
  BY <1>5 DEF CommitIssue
<1>6. ASSUME NEW c \in Callers, NEW k \in 1..nkeys, Verify(c, k)
     PROVE  Exclusion'
  BY <1>6 DEF Verify
<1>7. ASSUME NEW c \in Callers, StampUsed(c) PROVE Exclusion'
  BY <1>7 DEF StampUsed
<1>8. ASSUME NEW c \in Callers, ListOpen(c) \/ ListClose(c) PROVE Exclusion'
  BY <1>8 DEF ListOpen, ListClose
<1>9. ASSUME NEW c \in Callers, NEW t \in Tokens, BindCall(c, t)
     PROVE  Exclusion'
  BY <1>9 DEF BindCall
<1>10. ASSUME NEW c \in Callers, ReadOwner(c) PROVE Exclusion'
  BY <1>10 DEF ReadOwner
<1>11. ASSUME NEW c \in Callers, CommitBind(c) PROVE Exclusion'
  BY <1>11 DEF CommitBind
<1>12. ASSUME NEW c \in Callers, PruneGate(c) \/ PruneCutoff(c) PROVE Exclusion'
  BY <1>12 DEF PruneGate, PruneCutoff
<1>13. ASSUME NEW c \in Callers, PruneDelete(c) \/ PruneFails(c) PROVE Exclusion'
  BY <1>13 DEF PruneDelete, PruneFails, Stale
<1>14. ASSUME NEW c \in Callers, NextMessage(c) \/ EndRequest(c) PROVE Exclusion'
  BY <1>14 DEF NextMessage, EndRequest, DropLocals
<1>15. ASSUME NEW k \in 1..nkeys, Revoke(k) PROVE Exclusion'
  BY <1>15 DEF Revoke
<1>16. CASE Tick
  BY <1>16 DEF Tick
<1>17. CASE Restart
  BY <1>17 DEF Restart
<1>18. CASE UNCHANGED vars
  BY <1>18 DEF vars
<1> QED
  BY <1>1, <1>2, <1>3, <1>4, <1>5, <1>6, <1>7, <1>8, <1>9, <1>10,
     <1>11, <1>12, <1>13, <1>14, <1>15, <1>16, <1>17, <1>18 DEF Next, CallerStep

\* TimesStep: no time in the store is in the future.
LEMMA TimesStep ==
  TypeOK /\ Locals /\ Times /\ [Next]_vars => Times'
<1> SUFFICES ASSUME TypeOK, Locals, Times, [Next]_vars PROVE Times'
  OBVIOUS
<1> USE StoreAssumption DEF TypeOK, Times, BindPC, IssuePC, Goto, durable, locals
<1>1. ASSUME NEW c \in Callers, BeginTx(c) PROVE Times'
  BY <1>1 DEF BeginTx
<1>2. ASSUME NEW c \in Callers, AbortTx(c) PROVE Times'
  BY <1>2 DEF AbortTx, DropLocals
<1>3. ASSUME NEW c \in Callers, IssueCall(c) PROVE Times'
  BY <1>3 DEF IssueCall
<1>4. ASSUME NEW c \in Callers, CountKeys(c) PROVE Times'
  BY <1>4 DEF CountKeys
<1>5. ASSUME NEW c \in Callers, CommitIssue(c) PROVE Times'
  BY <1>5 DEF CommitIssue
<1>6. ASSUME NEW c \in Callers, NEW k \in 1..nkeys, Verify(c, k)
     PROVE  Times'
  BY <1>6 DEF Verify
<1>7. ASSUME NEW c \in Callers, StampUsed(c) PROVE Times'
  BY <1>7 DEF StampUsed
<1>8. ASSUME NEW c \in Callers, ListOpen(c) \/ ListClose(c) PROVE Times'
  BY <1>8 DEF ListOpen, ListClose
<1>9. ASSUME NEW c \in Callers, NEW t \in Tokens, BindCall(c, t)
     PROVE  Times'
  BY <1>9 DEF BindCall
<1>10. ASSUME NEW c \in Callers, ReadOwner(c) PROVE Times'
  BY <1>10 DEF ReadOwner
<1>11. ASSUME NEW c \in Callers, CommitBind(c) PROVE Times'
  BY <1>11 DEF CommitBind
<1>12. ASSUME NEW c \in Callers, PruneGate(c) \/ PruneCutoff(c) PROVE Times'
  BY <1>12 DEF PruneGate, PruneCutoff
<1>13. ASSUME NEW c \in Callers, PruneDelete(c) \/ PruneFails(c) PROVE Times'
  BY <1>13 DEF PruneDelete, PruneFails, Stale
<1>14. ASSUME NEW c \in Callers, NextMessage(c) \/ EndRequest(c) PROVE Times'
  BY <1>14 DEF NextMessage, EndRequest, DropLocals
<1>15. ASSUME NEW k \in 1..nkeys, Revoke(k) PROVE Times'
  BY <1>15 DEF Revoke
<1>16. CASE Tick
  BY <1>16 DEF Tick
<1>17. CASE Restart
  BY <1>17 DEF Restart
<1>18. CASE UNCHANGED vars
  BY <1>18 DEF vars
<1> QED
  BY <1>1, <1>2, <1>3, <1>4, <1>5, <1>6, <1>7, <1>8, <1>9, <1>10,
     <1>11, <1>12, <1>13, <1>14, <1>15, <1>16, <1>17, <1>18 DEF Next, CallerStep

\* TxIsolationStep: nobody writes between a transaction's read and its write.
LEMMA TxIsolationStep ==
  TypeOK /\ Exclusion /\ Locals /\ Times /\ TxIsolation /\ [Next]_vars
    => TxIsolation'
<1> SUFFICES ASSUME TypeOK, Exclusion, Locals, Times, TxIsolation, [Next]_vars
             PROVE  TxIsolation'
  OBVIOUS
<1> USE StoreAssumption DEF TypeOK, TxIsolation, Exclusion, InTx, BindPC, IssuePC, Goto,
        ConnFree, durable, locals
<1>1. ASSUME NEW c \in Callers, BeginTx(c) PROVE TxIsolation'
  BY <1>1 DEF BeginTx
<1>2. ASSUME NEW c \in Callers, AbortTx(c) PROVE TxIsolation'
  BY <1>2 DEF AbortTx, DropLocals
<1>3. ASSUME NEW c \in Callers, IssueCall(c) PROVE TxIsolation'
  BY <1>3 DEF IssueCall
<1>4. ASSUME NEW c \in Callers, CountKeys(c) PROVE TxIsolation'
  BY <1>4 DEF CountKeys
<1>5. ASSUME NEW c \in Callers, CommitIssue(c) PROVE TxIsolation'
  BY <1>5 DEF CommitIssue
<1>6. ASSUME NEW c \in Callers, NEW k \in 1..nkeys, Verify(c, k)
     PROVE  TxIsolation'
  BY <1>6 DEF Verify
<1>7. ASSUME NEW c \in Callers, StampUsed(c) PROVE TxIsolation'
  BY <1>7 DEF StampUsed
<1>8. ASSUME NEW c \in Callers, ListOpen(c) \/ ListClose(c) PROVE TxIsolation'
  BY <1>8 DEF ListOpen, ListClose
<1>9. ASSUME NEW c \in Callers, NEW t \in Tokens, BindCall(c, t)
     PROVE  TxIsolation'
  BY <1>9 DEF BindCall
<1>10. ASSUME NEW c \in Callers, ReadOwner(c) PROVE TxIsolation'
  BY <1>10 DEF ReadOwner, Times, Locals, Working
<1>11. ASSUME NEW c \in Callers, CommitBind(c) PROVE TxIsolation'
  BY <1>11 DEF CommitBind
<1>12. ASSUME NEW c \in Callers, PruneGate(c) \/ PruneCutoff(c) PROVE TxIsolation'
  BY <1>12 DEF PruneGate, PruneCutoff
<1>13. ASSUME NEW c \in Callers, PruneDelete(c) \/ PruneFails(c) PROVE TxIsolation'
  BY <1>13 DEF PruneDelete, PruneFails, Stale
<1>14. ASSUME NEW c \in Callers, NextMessage(c) \/ EndRequest(c) PROVE TxIsolation'
  BY <1>14 DEF NextMessage, EndRequest, DropLocals
<1>15. ASSUME NEW k \in 1..nkeys, Revoke(k) PROVE TxIsolation'
  BY <1>15 DEF Revoke
<1>16. CASE Tick
  BY <1>16 DEF Tick
<1>17. CASE Restart
  BY <1>17 DEF Restart
<1>18. CASE UNCHANGED vars
  BY <1>18 DEF vars
<1> QED
  BY <1>1, <1>2, <1>3, <1>4, <1>5, <1>6, <1>7, <1>8, <1>9, <1>10,
     <1>11, <1>12, <1>13, <1>14, <1>15, <1>16, <1>17, <1>18 DEF Next, CallerStep

\* ClaimBackedStep: no sweep and no other caller takes a row that backs an answer.
LEMMA ClaimBackedStep ==
  TypeOK /\ Exclusion /\ Locals /\ Times /\ TxIsolation /\ ClaimBacked
    /\ [Next]_vars => ClaimBacked'
<1> SUFFICES ASSUME TypeOK, Exclusion, Locals, Times, TxIsolation, ClaimBacked,
                    [Next]_vars
             PROVE  ClaimBacked'
  OBVIOUS
<1> USE StoreAssumption DEF TypeOK, ClaimBacked, Claims, Lapsed, BindPC, IssuePC,
        PrunePC, Goto, NoKey, durable, locals
<1>1. ASSUME NEW c \in Callers, BeginTx(c) PROVE ClaimBacked'
  BY <1>1 DEF BeginTx
<1>2. ASSUME NEW c \in Callers, AbortTx(c) PROVE ClaimBacked'
  BY <1>2 DEF AbortTx, DropLocals
<1>3. ASSUME NEW c \in Callers, IssueCall(c) PROVE ClaimBacked'
  BY <1>3 DEF IssueCall
<1>4. ASSUME NEW c \in Callers, CountKeys(c) PROVE ClaimBacked'
  BY <1>4 DEF CountKeys
<1>5. ASSUME NEW c \in Callers, CommitIssue(c) PROVE ClaimBacked'
  BY <1>5 DEF CommitIssue
<1>6. ASSUME NEW c \in Callers, NEW k \in 1..nkeys, Verify(c, k)
     PROVE  ClaimBacked'
  BY <1>6 DEF Verify
<1>7. ASSUME NEW c \in Callers, StampUsed(c) PROVE ClaimBacked'
  BY <1>7 DEF StampUsed
<1>8. ASSUME NEW c \in Callers, ListOpen(c) \/ ListClose(c) PROVE ClaimBacked'
  BY <1>8 DEF ListOpen, ListClose
<1>9. ASSUME NEW c \in Callers, NEW t \in Tokens, BindCall(c, t)
     PROVE  ClaimBacked'
  BY <1>9 DEF BindCall
<1>10. ASSUME NEW c \in Callers, ReadOwner(c) PROVE ClaimBacked'
  BY <1>10 DEF ReadOwner
<1>11. ASSUME NEW c \in Callers, CommitBind(c) PROVE ClaimBacked'
  <2> SUFFICES ASSUME NEW d \in Callers, Claims(d)'
               PROVE  \/ /\ owner'[tok'[d]] = key'[d]
                         /\ lastSeen'[tok'[d]] >= stamp'[d]
                      \/ Lapsed(stamp[d])'
    BY DEF ClaimBacked
  <2>1. tok[c] \in Tokens /\ got[c] = owner[tok[c]] /\ lastSeen[tok[c]] <= stamp[c]
    BY <1>11 DEF CommitBind, Locals, Working, TxIsolation
  <2>2. CASE d = c
    <3>1. key[c] # NoKey /\ tok' = tok /\ key' = key /\ stamp' = stamp
      BY <1>11 DEF CommitBind, Locals, Working
    <3>2. owner'[tok[c]] = key[c] /\ lastSeen'[tok[c]] = stamp[c]
      <4>1. got'[c] = key[c]
        BY <2>2, <3>1
      <4>2. CASE got[c] = NoKey
        BY <1>11, <2>1, <3>1, <4>2 DEF CommitBind
      <4>3. CASE got[c] = key[c]
        BY <1>11, <2>1, <3>1, <4>3 DEF CommitBind
      <4>4. CASE got[c] \notin {NoKey, key[c]}
        BY <1>11, <4>1, <4>4 DEF CommitBind
      <4> QED BY <4>2, <4>3, <4>4
    <3> QED BY <2>1, <2>2, <3>1, <3>2
  <2>3. CASE d # c
    <3>1. Claims(d) /\ tok[d] \in Tokens /\ key[d] # NoKey
      BY <1>11, <2>3 DEF CommitBind, Locals, Working
    <3> QED
      BY <1>11, <2>1, <2>3, <3>1 DEF CommitBind
  <2> QED BY <2>2, <2>3
<1>12. ASSUME NEW c \in Callers, PruneGate(c) \/ PruneCutoff(c) PROVE ClaimBacked'
  BY <1>12 DEF PruneGate, PruneCutoff
<1>13. ASSUME NEW c \in Callers, PruneDelete(c) \/ PruneFails(c) PROVE ClaimBacked'
  <2>1. CASE PruneFails(c)
    BY <2>1 DEF PruneFails
  <2>2. CASE PruneDelete(c)
    <3> SUFFICES ASSUME NEW d \in Callers, Claims(d)'
                 PROVE  \/ /\ owner'[tok'[d]] = key'[d]
                           /\ lastSeen'[tok'[d]] >= stamp'[d]
                        \/ Lapsed(stamp[d])'
      BY DEF ClaimBacked
    <3>1. Claims(d) /\ tok[d] \in Tokens
      BY <2>2 DEF PruneDelete, Locals, Working
    <3>2. Retention > 0 /\ cutoff[c] + Retention <= clock
      BY <2>2 DEF PruneDelete, Times
    <3> QED
      BY <2>2, <3>1, <3>2 DEF PruneDelete, Stale
  <2> QED BY <1>13, <2>1, <2>2
<1>14. ASSUME NEW c \in Callers, NextMessage(c) \/ EndRequest(c) PROVE ClaimBacked'
  BY <1>14 DEF NextMessage, EndRequest, DropLocals
<1>15. ASSUME NEW k \in 1..nkeys, Revoke(k) PROVE ClaimBacked'
  BY <1>15 DEF Revoke
<1>16. CASE Tick
  BY <1>16 DEF Tick
<1>17. CASE Restart
  BY <1>17 DEF Restart
<1>18. CASE UNCHANGED vars
  BY <1>18 DEF vars
<1> QED
  BY <1>1, <1>2, <1>3, <1>4, <1>5, <1>6, <1>7, <1>8, <1>9, <1>10,
     <1>11, <1>12, <1>13, <1>14, <1>15, <1>16, <1>17, <1>18 DEF Next, CallerStep

\* CeilingStep: Issue counts and inserts in one transaction.
LEMMA CeilingStep ==
  TypeOK /\ TxIsolation /\ RegistrationCeiling /\ [Next]_vars
    => RegistrationCeiling'
<1> SUFFICES ASSUME TypeOK, TxIsolation, RegistrationCeiling, [Next]_vars
             PROVE  RegistrationCeiling'
  OBVIOUS
<1> USE StoreAssumption DEF TypeOK, RegistrationCeiling, durable, locals
<1>1. ASSUME NEW c \in Callers, CommitIssue(c) PROVE RegistrationCeiling'
  BY <1>1 DEF CommitIssue, TxIsolation
<1>2. ASSUME nkeys' = nkeys PROVE RegistrationCeiling'
  BY <1>2
<1>3. (\E c \in Callers : CommitIssue(c)) \/ nkeys' = nkeys
  BY DEF Next, CallerStep, vars, BeginTx, AbortTx, IssueCall, CountKeys, Verify,
         StampUsed, ListOpen, ListClose, BindCall, ReadOwner, CommitBind, PruneGate,
         PruneCutoff, PruneDelete, PruneFails, NextMessage, EndRequest, Revoke, Tick,
         Restart
<1> QED BY <1>1, <1>2, <1>3

-----------------------------------------------------------------------------
(* The theorems.                                                           *)

\* IInvInit: the invariant of an empty store.
LEMMA IInvInit == Init => IInv
BY TypeInit, StoreAssumption
   DEF Init, IInv, Exclusion, Times, TxIsolation, ClaimBacked, Claims,
       RegistrationCeiling, InTx, BindPC, PrunePC, NoKey

\* IInvStep: every step keeps the invariant.
LEMMA IInvStep == IInv /\ [Next]_vars => IInv'
BY TypeStep, LocalsStep, ExclusionStep, TimesStep, TxIsolationStep, ClaimBackedStep,
   CeilingStep DEF IInv

\* The inductive invariant holds in every reachable state.
THEOREM Invariance == Spec => []IInv
BY IInvInit, IInvStep, PTL DEF Spec

\* What BindToken and Issue read inside a transaction is still true when they
\* write, for any number of concurrent callers.
THEOREM Isolation == Spec => []TxIsolation
<1>1. IInv => TxIsolation
  BY DEF IInv
<1> QED BY Invariance, <1>1, PTL

\* The row behind an answer of BindToken stays until the answer lapses.
THEOREM Backing == Spec => []ClaimBacked
<1>1. IInv => ClaimBacked
  BY DEF IInv
<1> QED BY Invariance, <1>1, PTL

\* Two keys are never both told that they own a token within the retention
\* time, for any number of callers, tokens and keys.
THEOREM Exclusivity == Spec => []ExclusiveClaims
<1>1. IInv => ExclusiveClaims
  BY DEF IInv, ClaimBacked, ExclusiveClaims
<1> QED BY Invariance, <1>1, PTL

\* Concurrent registrations never exceed the ceiling.
THEOREM Ceiling == Spec => []RegistrationCeiling
<1>1. IInv => RegistrationCeiling
  BY DEF IInv
<1> QED BY Invariance, <1>1, PTL

-----------------------------------------------------------------------------
(* The store implements the lease.                                         *)

\* LeaseInit: an empty store grants no lease.
LEMMA LeaseInit == Init => Lease!Init
BY DEF Init, Lease!Init, Lease!NoKey, NoKey

\* LeaseStep: every step of the store is one of the lease, or none.
LEMMA LeaseStep == IInv /\ [Next]_vars => [Lease!Next]_(Lease!vars)
<1> SUFFICES ASSUME IInv, [Next]_vars PROVE [Lease!Next]_(Lease!vars)
  OBVIOUS
<1> USE StoreAssumption DEF IInv, TypeOK
<1>1. ASSUME NEW c \in Callers, CommitBind(c) PROVE [Lease!Next]_(Lease!vars)
  <2>1. /\ tok[c] \in Tokens /\ key[c] # NoKey
        /\ got[c] = owner[tok[c]]
        /\ lastSeen[tok[c]] <= stamp[c] /\ stamp[c] <= clock
    BY <1>1 DEF CommitBind, Locals, Working, BindPC, TxIsolation, Times
  <2>2. CASE got[c] \in {NoKey, key[c]}
    <3>1. Lease!Grant(tok[c])
      BY <1>1, <2>1, <2>2 DEF CommitBind, Lease!Grant, Lease!NoKey, NoKey
    <3> QED BY <2>1, <3>1 DEF Lease!Next
  <2>3. CASE got[c] \notin {NoKey, key[c]}
    BY <1>1, <2>3 DEF CommitBind, Lease!vars
  <2> QED BY <2>2, <2>3
<1>2. ASSUME NEW c \in Callers, PruneDelete(c) PROVE [Lease!Next]_(Lease!vars)
  <2>1. Retention > 0 /\ cutoff[c] + Retention <= clock
    BY <1>2 DEF PruneDelete, Times
  <2>2. \A t \in Tokens : \/ owner'[t] = owner[t] /\ lastSeen'[t] = lastSeen[t]
                          \/ /\ lastSeen[t] + Retention < clock
                             /\ owner'[t] = NoKey
                             /\ lastSeen'[t] = 0
    BY <1>2, <2>1 DEF PruneDelete, Stale
  <2>3. Lease!Lapse
    BY <1>2, <2>1, <2>2 DEF PruneDelete, Lease!Lapse, Lease!NoKey, NoKey
  <2> QED BY <2>3 DEF Lease!Next
<1>3. CASE Tick
  BY <1>3 DEF Tick, Lease!Tick, Lease!Next, durable
<1>4. ASSUME UNCHANGED <<owner, lastSeen, clock>> PROVE [Lease!Next]_(Lease!vars)
  BY <1>4 DEF Lease!vars
<1>5. \/ \E c \in Callers : CommitBind(c) \/ PruneDelete(c)
      \/ Tick
      \/ UNCHANGED <<owner, lastSeen, clock>>
  BY DEF Next, CallerStep, vars, durable, BeginTx, AbortTx, IssueCall, CountKeys,
         CommitIssue, Verify, StampUsed, ListOpen, ListClose, BindCall, ReadOwner,
         PruneGate, PruneCutoff, PruneFails, NextMessage, EndRequest, Revoke, Restart
<1> QED BY <1>1, <1>2, <1>3, <1>4, <1>5

\* The store, with its transactions, its sweeps, its failures and its
\* restarts, implements the token lease.
THEOREM LeaseRefinement == Spec => LeaseSpec
BY LeaseInit, LeaseStep, Invariance, PTL DEF Spec, LeaseSpec, Lease!Spec
=============================================================================
