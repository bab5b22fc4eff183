------------------------------ MODULE KeyStore ------------------------------
(***************************************************************************)
(* The SQLite key store, internal/keys/keys.go: the keys table, the tokens *)
(* table that binds a device token to the first key that sends to it, and  *)
(* the lazy sweep that deletes stale bindings.                             *)
(*                                                                         *)
(* Callers are the goroutines of concurrent HTTP handlers.  They share one *)
(* database connection (Open calls SetMaxOpenConns(1)), which a            *)
(* transaction or an open result set holds and a single statement borrows. *)
(* Every statement that waits for the connection is a step of its own.     *)
(*                                                                         *)
(* Abstractions.  A key's plaintext stands for its row: rows are numbered  *)
(* by AUTOINCREMENT and the hash is UNIQUE, so a key is its id, 1..nkeys.  *)
(* A device token is a (platform, token) pair.  The label and the columns  *)
(* created_at and last_used_at are written but never read by any decision, *)
(* and are left out; the statement that writes last_used_at is not.        *)
(***************************************************************************)
EXTENDS Integers

CONSTANTS
  Callers,           \* concurrent callers of the store
  NoCaller,          \* the connection is in the pool
  Tokens,            \* device tokens
  NoToken,           \* a caller that is not binding any token
  Retention,         \* BindToken's retention argument, <= 0 disables pruning
  PruneInterval,     \* pruneInterval, the least time between two sweeps
  MaxRegistrations,  \* Issue's max argument, <= 0 disables the ceiling
  KeyBound,          \* bound: no Issue starts once this many keys exist
  TimeBound          \* bound: the clock stops here

ASSUME StoreAssumption ==
  /\ NoCaller \notin Callers
  /\ NoToken \notin Tokens
  /\ Retention \in Int
  /\ PruneInterval \in Nat
  /\ MaxRegistrations \in Int
  /\ KeyBound \in Nat
  /\ TimeBound \in Nat

VARIABLES
  \* In the database file: survives a restart.
  nkeys,      \* rows of the keys table, ids 1..nkeys
  revoked,    \* ids whose revoked_at is set
  owner,      \* owner[t]: key_id of t's row in tokens, NoKey when no row
  lastSeen,   \* lastSeen[t]: last_seen_at of that row
  \* In memory.
  lastPrune,  \* Store.lastPrune
  conn,       \* the caller that holds the connection, or NoCaller
  clock,      \* time.Now()
  pc,         \* pc[c]: where caller c is
  key,        \* key[c]: the key id caller c was verified as
  tok,        \* tok[c]: the token it is binding
  got,        \* got[c]: local variable owner of BindToken
  stamp,      \* stamp[c]: local variable now of BindToken
  cutoff      \* cutoff[c]: local variable cutoff of maybePruneStaleTokens

durable == <<nkeys, revoked, owner, lastSeen>>
locals == <<key, tok, got, stamp, cutoff>>
vars == <<nkeys, revoked, owner, lastSeen, lastPrune, conn, clock, pc,
          key, tok, got, stamp, cutoff>>

NoKey == 0

\* Where a caller can be.  "verified" is a handler between two store calls
\* of an authenticated request, "returned" one that has BindToken's answer
\* in hand and has not finished with it.
BindPC == {"bind_begin", "bind_read", "bind_write"}
IssuePC == {"issue_begin", "issue_count", "issue_insert"}
PrunePC == {"prune", "prune_cutoff", "prune_delete"}
PCs == {"idle", "list_rows", "verify_stamp", "verified", "returned"}
         \cup BindPC \cup IssuePC \cup PrunePC

\* The places at which a caller holds the connection.
InTx == {"bind_read", "bind_write", "issue_count", "issue_insert",
         "list_rows"}

TypeOK ==
  /\ nkeys \in Nat
  /\ revoked \subseteq 1..nkeys
  /\ owner \in [Tokens -> 0..nkeys]
  /\ lastSeen \in [Tokens -> Nat]
  /\ lastPrune \in Nat
  /\ conn \in Callers \cup {NoCaller}
  /\ clock \in Nat
  /\ pc \in [Callers -> PCs]
  /\ key \in [Callers -> 0..nkeys]
  /\ tok \in [Callers -> Tokens \cup {NoToken}]
  /\ got \in [Callers -> 0..nkeys]
  /\ stamp \in [Callers -> Nat]
  /\ cutoff \in [Callers -> Int]

-----------------------------------------------------------------------------
(* Open on an empty or an up-to-date file.                                 *)

Init ==
  /\ nkeys = 0
  /\ revoked = {}
  /\ owner = [t \in Tokens |-> NoKey]
  /\ lastSeen = [t \in Tokens |-> 0]
  /\ clock = 0
  /\ lastPrune = clock
  /\ conn = NoCaller
  /\ pc = [c \in Callers |-> "idle"]
  /\ key = [c \in Callers |-> NoKey]
  /\ tok = [c \in Callers |-> NoToken]
  /\ got = [c \in Callers |-> NoKey]
  /\ stamp = [c \in Callers |-> 0]
  /\ cutoff = [c \in Callers |-> 0]

\* The pool has one connection: whoever needs it waits for this.
ConnFree == conn = NoCaller

Goto(c, l) == pc' = [pc EXCEPT ![c] = l]

\* The locals of BindToken go out of scope.
DropLocals(c) ==
  /\ tok' = [tok EXCEPT ![c] = NoToken]
  /\ got' = [got EXCEPT ![c] = NoKey]
  /\ stamp' = [stamp EXCEPT ![c] = 0]
  /\ cutoff' = [cutoff EXCEPT ![c] = 0]

-----------------------------------------------------------------------------
(* Transactions.  BeginTx takes the connection out of the pool; commit and *)
(* rollback put it back.  A statement that fails (the request's context is *)
(* done, the disk is full, a constraint is violated) returns the error and *)
(* the deferred Rollback discards what the transaction wrote.              *)

\* Mutant: a pool of several connections.
BeginTxAnyConn(c) ==
  /\ conn' = c
  /\ \/ pc[c] = "bind_begin" /\ Goto(c, "bind_read")
     \/ pc[c] = "issue_begin" /\ Goto(c, "issue_count")
  /\ UNCHANGED <<durable, lastPrune, clock, locals>>

BeginTx(c) ==
  /\ ConnFree
  /\ conn' = c
  /\ \/ /\ pc[c] = "bind_begin"
        /\ Goto(c, "bind_read")
     \/ /\ pc[c] = "issue_begin"
        /\ Goto(c, "issue_count")
  /\ UNCHANGED <<durable, lastPrune, clock, locals>>

\* BindToken returns 0 and the error, Issue returns "" and the error.  The
\* handler of a failed BindToken goes on with its next message.
AbortTx(c) ==
  /\ pc[c] \in BindPC \cup IssuePC
  /\ conn' = IF conn = c THEN NoCaller ELSE conn
  /\ Goto(c, IF pc[c] \in BindPC THEN "verified" ELSE "idle")
  /\ DropLocals(c)
  /\ UNCHANGED <<durable, lastPrune, clock, key>>

-----------------------------------------------------------------------------
(* Issue: count and insert in one transaction.                             *)

IssueCall(c) ==
  /\ pc[c] = "idle"
  /\ nkeys < KeyBound
  /\ Goto(c, "issue_begin")
  /\ UNCHANGED <<durable, lastPrune, conn, clock, locals>>

\* Mutant: the count runs before the transaction, and the connection is back
\* in the pool when the INSERT runs.
CountKeysOutsideTx(c) ==
  /\ pc[c] = "issue_count"
  /\ conn' = NoCaller
  /\ Goto(c, IF MaxRegistrations > 0 /\ nkeys >= MaxRegistrations
               THEN "idle" ELSE "issue_insert")
  /\ UNCHANGED <<durable, lastPrune, clock, locals>>

\* ErrRegistrationCeiling rolls back.
CountKeys(c) ==
  /\ pc[c] = "issue_count"
  /\ IF MaxRegistrations > 0 /\ nkeys >= MaxRegistrations
       THEN /\ conn' = NoCaller
            /\ Goto(c, "idle")
       ELSE /\ Goto(c, "issue_insert")
            /\ UNCHANGED conn
  /\ UNCHANGED <<durable, lastPrune, clock, locals>>

CommitIssue(c) ==
  /\ pc[c] = "issue_insert"
  /\ nkeys' = nkeys + 1
  /\ conn' = NoCaller
  /\ Goto(c, "idle")
  /\ UNCHANGED <<revoked, owner, lastSeen, lastPrune, clock, locals>>

-----------------------------------------------------------------------------
(* Verify, List and Revoke are not transactions: each statement borrows    *)
(* the connection by itself.                                               *)

\* The SELECT of Verify.  An unknown or a revoked key is ErrNotFound, which
\* changes nothing.
Verify(c, k) ==
  /\ pc[c] = "idle"
  /\ ConnFree
  /\ k \in 1..nkeys
  /\ k \notin revoked
  /\ key' = [key EXCEPT ![c] = k]
  /\ Goto(c, "verify_stamp")
  /\ UNCHANGED <<durable, lastPrune, conn, clock, tok, got, stamp, cutoff>>

\* The UPDATE of last_used_at.  Its error is ignored, so it ends the call
\* whether or not the connection could be had.
StampUsed(c) ==
  /\ pc[c] = "verify_stamp"
  /\ Goto(c, "verified")
  /\ UNCHANGED <<durable, lastPrune, conn, clock, locals>>

\* List holds the connection from its query until rows.Close.
ListOpen(c) ==
  /\ pc[c] = "idle"
  /\ ConnFree
  /\ conn' = c
  /\ Goto(c, "list_rows")
  /\ UNCHANGED <<durable, lastPrune, clock, locals>>

ListClose(c) ==
  /\ pc[c] = "list_rows"
  /\ conn' = NoCaller
  /\ Goto(c, "idle")
  /\ UNCHANGED <<durable, lastPrune, clock, locals>>

\* Mutant: DELETE FROM keys, which leaves rows of tokens that point nowhere.
RevokeDeletes(k) ==
  /\ ConnFree
  /\ k = nkeys
  /\ nkeys' = nkeys - 1
  /\ UNCHANGED <<revoked, owner, lastSeen, lastPrune, conn, clock, pc, locals>>

\* One UPDATE.  No matching row is ErrNotFound, which changes nothing.
Revoke(k) ==
  /\ ConnFree
  /\ k \in (1..nkeys) \ revoked
  /\ revoked' = revoked \cup {k}
  /\ UNCHANGED <<nkeys, owner, lastSeen, lastPrune, conn, clock, pc, locals>>

-----------------------------------------------------------------------------
(* BindToken: read the owner, then insert or refresh the row, in one       *)
(* transaction; then the sweep, outside it.                                *)

BindCall(c, t) ==
  /\ pc[c] = "verified"
  /\ tok' = [tok EXCEPT ![c] = t]
  /\ Goto(c, "bind_begin")
  /\ UNCHANGED <<durable, lastPrune, conn, clock, key, got, stamp, cutoff>>

\* now := time.Now() is taken inside the transaction, then the SELECT.
ReadOwner(c) ==
  /\ pc[c] = "bind_read"
  /\ stamp' = [stamp EXCEPT ![c] = clock]
  /\ got' = [got EXCEPT ![c] = owner[tok[c]]]
  /\ Goto(c, "bind_write")
  /\ UNCHANGED <<durable, lastPrune, conn, clock, key, tok, cutoff>>

\* Mutant: the sweep is called before Commit, with the connection still held.
CommitBindKeepsConn(c) ==
  LET t == tok[c] IN
  /\ pc[c] = "bind_write"
  /\ IF got[c] \in {NoKey, key[c]}
       THEN /\ owner' = [owner EXCEPT ![t] = key[c]]
            /\ lastSeen' = [lastSeen EXCEPT ![t] = stamp[c]]
            /\ got' = [got EXCEPT ![c] = key[c]]
       ELSE UNCHANGED <<owner, lastSeen, got>>
  /\ Goto(c, "prune")
  /\ UNCHANGED <<nkeys, revoked, lastPrune, conn, clock, key, tok, stamp,
                 cutoff>>

\* Mutant: the owner's own send does not refresh last_seen_at.
CommitBindNoRefresh(c) ==
  LET t == tok[c] IN
  /\ pc[c] = "bind_write"
  /\ IF got[c] = NoKey
       THEN /\ owner' = [owner EXCEPT ![t] = key[c]]
            /\ lastSeen' = [lastSeen EXCEPT ![t] = stamp[c]]
            /\ got' = [got EXCEPT ![c] = key[c]]
       ELSE UNCHANGED <<owner, lastSeen, got>>
  /\ conn' = NoCaller
  /\ Goto(c, "prune")
  /\ UNCHANGED <<nkeys, revoked, lastPrune, clock, key, tok, stamp, cutoff>>

\* The three arms of the switch, then Commit.  INSERT fails on an existing
\* row (UNIQUE), which is AbortTx.  UPDATE names the row by its token only,
\* and touches nothing when there is none.  A foreign token is left alone.
CommitBind(c) ==
  LET t == tok[c] IN
  /\ pc[c] = "bind_write"
  /\ \/ /\ got[c] = NoKey
        /\ owner[t] = NoKey
        /\ owner' = [owner EXCEPT ![t] = key[c]]
        /\ lastSeen' = [lastSeen EXCEPT ![t] = stamp[c]]
        /\ got' = [got EXCEPT ![c] = key[c]]
     \/ /\ got[c] = key[c]
        /\ lastSeen' = IF owner[t] = NoKey THEN lastSeen
                       ELSE [lastSeen EXCEPT ![t] = stamp[c]]
        /\ UNCHANGED <<owner, got>>
     \/ /\ got[c] \notin {NoKey, key[c]}
        /\ UNCHANGED <<owner, lastSeen, got>>
  /\ conn' = NoCaller
  /\ Goto(c, "prune")
  /\ UNCHANGED <<nkeys, revoked, lastPrune, clock, key, tok, stamp, cutoff>>

\* maybePruneStaleTokens up to the unlock of pruneMu: whoever finds the
\* sweep due moves lastPrune before it has deleted anything.
PruneGate(c) ==
  LET due == Retention > 0 /\ clock - lastPrune >= PruneInterval IN
  /\ pc[c] = "prune"
  /\ lastPrune' = IF due THEN clock ELSE lastPrune
  /\ Goto(c, IF due THEN "prune_cutoff" ELSE "returned")
  /\ UNCHANGED <<durable, conn, clock, locals>>

PruneCutoff(c) ==
  /\ pc[c] = "prune_cutoff"
  /\ cutoff' = [cutoff EXCEPT ![c] = clock - Retention]
  /\ Goto(c, "prune_delete")
  /\ UNCHANGED <<durable, lastPrune, conn, clock, key, tok, got, stamp>>

\* Mutant: <= instead of <.
StaleInclusive(c) ==
  {t \in Tokens : owner[t] # NoKey /\ lastSeen[t] <= cutoff[c]}

\* One DELETE, which waits for the connection.
Stale(c) == {t \in Tokens : owner[t] # NoKey /\ lastSeen[t] < cutoff[c]}

PruneDelete(c) ==
  /\ pc[c] = "prune_delete"
  /\ ConnFree
  /\ owner' = [t \in Tokens |-> IF t \in Stale(c) THEN NoKey ELSE owner[t]]
  /\ lastSeen' = [t \in Tokens |-> IF t \in Stale(c) THEN 0 ELSE lastSeen[t]]
  /\ Goto(c, "returned")
  /\ UNCHANGED <<nkeys, revoked, lastPrune, conn, clock, locals>>

\* The DELETE fails (the request's context is done): logged, and lastPrune
\* stays moved.
PruneFails(c) ==
  /\ pc[c] = "prune_delete"
  /\ Goto(c, "returned")
  /\ UNCHANGED <<durable, lastPrune, conn, clock, locals>>

\* The handler has finished with the answer and turns to its next message.
NextMessage(c) ==
  /\ pc[c] = "returned"
  /\ Goto(c, "verified")
  /\ DropLocals(c)
  /\ UNCHANGED <<durable, lastPrune, conn, clock, key>>

\* The request is over.
EndRequest(c) ==
  /\ pc[c] \in {"verified", "returned"}
  /\ Goto(c, "idle")
  /\ DropLocals(c)
  /\ key' = [key EXCEPT ![c] = NoKey]
  /\ UNCHANGED <<durable, lastPrune, conn, clock>>

-----------------------------------------------------------------------------
(* The environment: time, and the process being killed and started again.  *)

Tick ==
  /\ clock < TimeBound
  /\ clock' = clock + 1
  /\ UNCHANGED <<durable, lastPrune, conn, pc, locals>>

\* Everything in memory is lost, an open transaction is rolled back by
\* SQLite's recovery, and Open starts with lastPrune = time.Now().
Restart ==
  /\ lastPrune' = clock
  /\ conn' = NoCaller
  /\ pc' = [c \in Callers |-> "idle"]
  /\ key' = [c \in Callers |-> NoKey]
  /\ tok' = [c \in Callers |-> NoToken]
  /\ got' = [c \in Callers |-> NoKey]
  /\ stamp' = [c \in Callers |-> 0]
  /\ cutoff' = [c \in Callers |-> 0]
  /\ UNCHANGED <<durable, clock>>

CallerStep(c) ==
  \/ BeginTx(c) \/ AbortTx(c)
  \/ IssueCall(c) \/ CountKeys(c) \/ CommitIssue(c)
  \/ \E k \in 1..nkeys : Verify(c, k)
  \/ StampUsed(c) \/ ListOpen(c) \/ ListClose(c)
  \/ \E t \in Tokens : BindCall(c, t)
  \/ ReadOwner(c) \/ CommitBind(c)
  \/ PruneGate(c) \/ PruneCutoff(c) \/ PruneDelete(c) \/ PruneFails(c)
  \/ NextMessage(c) \/ EndRequest(c)

Next ==
  \/ \E c \in Callers : CallerStep(c)
  \/ \E k \in 1..nkeys : Revoke(k)
  \/ Tick
  \/ Restart

Spec == Init /\ [][Next]_vars

\* A goroutine that can run does run.  Two of them may want the connection
\* at once: database/sql hands it to one of the waiting requests, so none
\* waits forever for a connection that keeps coming back.
Fairness ==
  \A c \in Callers :
    /\ WF_vars(CountKeys(c)) /\ WF_vars(CommitIssue(c))
    /\ WF_vars(ListClose(c))
    /\ WF_vars(ReadOwner(c)) /\ WF_vars(CommitBind(c))
    /\ WF_vars(PruneGate(c)) /\ WF_vars(PruneCutoff(c))
    /\ SF_vars(BeginTx(c)) /\ SF_vars(PruneDelete(c))

FairSpec == Spec /\ Fairness

-----------------------------------------------------------------------------
(* Properties.                                                             *)

\* A caller that BindToken told that its own key owns tok[c]: the send
\* handler goes on to push to the device on the strength of this answer.
Claims(c) == pc[c] \in PrunePC \cup {"returned"} /\ got[c] = key[c]

\* A claim made at time s can have been swept away since.
Lapsed(s) == Retention > 0 /\ s + Retention < clock

\* TxIsolation: what a transaction has read is still true when it writes
\* ("The read-then-write here is race-free because Open sets
\* SetMaxOpenConns(1)", keys.go:242): the owner that BindToken read is the
\* owner of the row, nobody recorded a later time in it, and the count that
\* Issue read leaves room for one more key.
TxIsolation ==
  \A c \in Callers :
    /\ pc[c] = "bind_write" => /\ got[c] = owner[tok[c]]
                              /\ lastSeen[tok[c]] <= stamp[c]
    /\ pc[c] = "issue_insert" =>
         MaxRegistrations <= 0 \/ nkeys < MaxRegistrations

\* ClaimBacked: as long as a caller works on the strength of BindToken's
\* answer, the row that backs it is there, names its key and is as fresh as
\* its own send, unless the caller has been at it for longer than the
\* retention time.  Neither another key nor a sweep (its own included) that
\* computed its cutoff earlier takes it away.
ClaimBacked ==
  \A c \in Callers :
    Claims(c) => \/ owner[tok[c]] = key[c] /\ lastSeen[tok[c]] >= stamp[c]
                 \/ Lapsed(stamp[c])

\* ExclusiveClaims: two keys are never both told that they own the same
\* token, whatever the interleaving of their transactions and sweeps, unless
\* the earlier answer is older than the retention time.
ExclusiveClaims ==
  \A c, d \in Callers :
    Claims(c) /\ Claims(d) /\ tok[c] = tok[d] /\ key[c] # key[d] =>
      Lapsed(stamp[c]) \/ Lapsed(stamp[d])

\* RegistrationCeiling: concurrent registrations never push the number of
\* keys over the ceiling (the count-then-insert of Issue).
RegistrationCeiling == MaxRegistrations > 0 => nkeys <= MaxRegistrations

\* LeaseSpec: the store implements the lease: a token changes hands only
\* through a sweep, a sweep frees only tokens whose owner has been silent
\* for longer than Retention by the time the DELETE runs, the time of the
\* last send never goes back, and a restart loses none of it.
Lease == INSTANCE TokenLease WITH holder <- owner, touched <- lastSeen,
                                  now <- clock

LeaseSpec == Lease!Spec

\* BindTerminates: a call of BindToken comes back (or the process is
\* restarted): no caller waits forever for the one connection, not even for
\* its own, since the sweep runs after the transaction has given it back.
BindTerminates ==
  \A c \in Callers : pc[c] = "bind_begin" ~>
                       pc[c] \in {"returned", "verified", "idle"}
=============================================================================
