----------------------------- MODULE TokenBucket ----------------------------
(***************************************************************************)
(* What a rate limiter promises ("Limiter refills each bucket at a fixed   *)
(* rate up to a burst ceiling", internal/ratelimit/ratelimit.go:13): one   *)
(* bucket per client that is always there, refills with time and is never  *)
(* fuller than Burst.  No map, no lazy refill and no eviction: RateLimit   *)
(* is shown to implement this when its constants allow it.                 *)
(***************************************************************************)
EXTENDS Integers

CONSTANTS
  Clients,  \* the keys of the limiter's map
  Unit,     \* what one action costs
  Rate,     \* what a bucket gains in one unit of time
  Burst     \* what a full bucket holds

VARIABLES
  level,    \* level[k]: what the bucket of k holds
  verdict   \* the last answer

vars == <<level, verdict>>

Fill(x) == IF x > Burst THEN Burst ELSE x

Init ==
  /\ level = [k \in Clients |-> Burst]
  /\ verdict = <<>>

\* An action is allowed exactly when the bucket can pay for it.
Take(k) ==
  /\ verdict' = <<k, level[k] >= Unit>>
  /\ level' = [level EXCEPT ![k] = IF @ >= Unit THEN @ - Unit ELSE @]

Return(k) ==
  /\ level' = [level EXCEPT ![k] = Fill(@ + Unit)]
  /\ UNCHANGED verdict

Refill ==
  /\ level' = [k \in Clients |-> Fill(level[k] + Rate)]
  /\ UNCHANGED verdict

Next ==
  \/ \E k \in Clients : Take(k) \/ Return(k)
  \/ Refill

Spec == Init /\ [][Next]_vars
=============================================================================
