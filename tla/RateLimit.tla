------------------------------ MODULE RateLimit -----------------------------
(***************************************************************************)
(* The in-memory limiter, internal/ratelimit/ratelimit.go.  Allow and      *)
(* Return hold mu from their first line to their last, so each is a step.  *)
(*                                                                         *)
(* Tokens are counted in fractions, Unit of them to the token, so that the *)
(* refill of one unit of time is a whole number of them: 5 registrations   *)
(* an hour in minutes are Unit = 12 and Rate = 1.  Floating-point rounding *)
(* is left out.                                                            *)
(***************************************************************************)
EXTENDS Integers

CONSTANTS
  Clients,        \* the keys of the map: client addresses or key ids
  Unit,           \* fractions of a token in one token
  Rate,           \* fractions gained in one unit of time
  Burst,          \* burst, in fractions
  IdleCutoff,     \* the 10 minutes of evictIdle
  EvictInterval,  \* evictInterval
  TimeBound       \* bound: the clock stops here

ASSUME LimiterAssumption ==
  /\ Unit \in Nat \ {0}
  /\ Rate \in Nat
  /\ Burst \in Nat
  /\ IdleCutoff \in Nat
  /\ EvictInterval \in Nat
  /\ TimeBound \in Nat

VARIABLES
  live,       \* the keys that have a bucket
  tokens,     \* tokens[k]: the field tokens of k's bucket, 0 without one
  last,       \* last[k]: the field last of k's bucket, 0 without one
  lastEvict,  \* lastEvict
  now,        \* time.Now()
  verdict,    \* the last answer of Allow: <<key, allowed>>
  net         \* history: net[k], actions allowed to k and not returned

vars == <<live, tokens, last, lastEvict, now, verdict, net>>

TypeOK ==
  /\ live \subseteq Clients
  /\ tokens \in [Clients -> -Unit..Burst]
  /\ last \in [Clients -> Nat]
  /\ lastEvict \in Nat
  /\ now \in Nat
  /\ net \in [Clients -> Nat]

Init ==
  /\ live = {}
  /\ tokens = [k \in Clients |-> 0]
  /\ last = [k \in Clients |-> 0]
  /\ now = 0
  /\ lastEvict = now
  /\ verdict = <<>>
  /\ net = [k \in Clients |-> 0]

\* if b.tokens > l.burst { b.tokens = l.burst }
Cap(x) == IF x > Burst THEN Burst ELSE x

\* Mutant: the cutoff of evictIdle is the sweep interval.
KeptTooFew ==
  IF now - lastEvict > EvictInterval
    THEN {k \in live : last[k] >= now - EvictInterval}
    ELSE live

\* The buckets that are left after evictIdle, when it is due.  The caller's
\* own bucket is not spared.
Kept ==
  IF now - lastEvict > EvictInterval
    THEN {k \in live : last[k] >= now - IdleCutoff}
    ELSE live

\* Mutant: no ceiling on the refill.
RefilledUncapped(k) == tokens[k] + (now - last[k]) * Rate

\* The lazy refill of an existing bucket.
Refilled(k) == Cap(tokens[k] + (now - last[k]) * Rate)

\* Mutant: b.last is written only when the action is allowed.
AllowKeepsLast(k) ==
  LET fresh == k \notin Kept
      have == IF fresh THEN Burst ELSE Refilled(k)
      ok == fresh \/ have >= Unit
  IN
  /\ live' = Kept \cup {k}
  /\ tokens' = [c \in Clients |-> IF c = k THEN (IF ok THEN have - Unit ELSE have)
                                  ELSE IF c \in Kept THEN tokens[c] ELSE 0]
  /\ last' = [c \in Clients |-> IF c = k /\ ok THEN now
                                ELSE IF c \in Kept THEN last[c] ELSE 0]
  /\ lastEvict' = IF now - lastEvict > EvictInterval THEN now ELSE lastEvict
  /\ verdict' = <<k, ok>>
  /\ net' = [net EXCEPT ![k] = IF ok THEN @ + 1 ELSE @]
  /\ UNCHANGED now

\* Evict if due; then a key without a bucket gets a full one less a token
\* and is allowed, whatever the burst is; a key with one pays if it can.
Allow(k) ==
  LET fresh == k \notin Kept
      have == IF fresh THEN Burst ELSE Refilled(k)
      ok == fresh \/ have >= Unit
      left == IF ok THEN have - Unit ELSE have
  IN
  /\ live' = Kept \cup {k}
  /\ tokens' = [c \in Clients |-> IF c = k THEN left
                                  ELSE IF c \in Kept THEN tokens[c] ELSE 0]
  /\ last' = [c \in Clients |-> IF c = k THEN now
                                ELSE IF c \in Kept THEN last[c] ELSE 0]
  /\ lastEvict' = IF now - lastEvict > EvictInterval THEN now ELSE lastEvict
  /\ verdict' = <<k, ok>>
  /\ net' = [net EXCEPT ![k] = IF ok THEN @ + 1 ELSE @]
  /\ UNCHANGED now

\* Undo one Allow that said yes.  Nothing happens when the bucket has been
\* evicted since, and b.last is left alone.
Return(k) ==
  /\ net[k] > 0
  /\ tokens' = [tokens EXCEPT ![k] = IF k \in live THEN Cap(@ + Unit) ELSE @]
  /\ net' = [net EXCEPT ![k] = @ - 1]
  /\ UNCHANGED <<live, last, lastEvict, now, verdict>>

Tick ==
  /\ now < TimeBound
  /\ now' = now + 1
  /\ UNCHANGED <<live, tokens, last, lastEvict, verdict, net>>

Next ==
  \/ \E k \in Clients : Allow(k)
  \/ \E k \in Clients : Return(k)
  \/ Tick

Spec == Init /\ [][Next]_vars

-----------------------------------------------------------------------------
(* Properties.                                                             *)

\* Evicting an idle bucket is invisible when an empty bucket refills within
\* IdleCutoff, and a full bucket can pay for one action.  This is a
\* condition on the configuration that New does not check.
EvictionSound == Unit <= Burst /\ Burst <= IdleCutoff * Rate

\* What the bucket of k is worth at this moment: a bucket that is not in the
\* map is worth a full one, since Allow will create it full.
Level == [k \in Clients |-> IF k \in live THEN Refilled(k) ELSE Burst]

Bucket == INSTANCE TokenBucket WITH level <- Level

\* BucketSpec: with its lazy refills, its map and its eviction of idle
\* buckets the limiter answers every Allow as an ideal token bucket would,
\* and Return gives back exactly one token up to the ceiling.
BucketSpec == Bucket!Spec

\* GrantBound: since the process started no client was allowed more than one
\* burst plus what the rate yields in the time elapsed ("RegisterPerHour and
\* RegisterBurst bound how often one IP may mint new keys", config.go:48).
GrantBound == \A k \in Clients : net[k] * Unit <= Burst + Rate * now
=============================================================================
