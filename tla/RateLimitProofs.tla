--------------------------- MODULE RateLimitProofs --------------------------
(***************************************************************************)
(* RateLimit implements TokenBucket for every configuration that satisfies *)
(* EvictionSound, any number of clients, and any eviction schedule.        *)
(*                                                                         *)
(* The argument: buckets hold between nothing and a burst and carry times  *)
(* of the past (Buckets).  What a bucket is worth (Level) then moves with  *)
(* time and with Allow and Return as the ideal bucket does, and evicting   *)
(* an idle bucket does not change it: such a bucket has been refilled.     *)
(***************************************************************************)
EXTENDS RateLimit, TLAPS

Buckets ==
  \A k \in live : tokens[k] \in 0..Burst /\ last[k] <= now

IInv == TypeOK /\ Buckets

-----------------------------------------------------------------------------
(* Arithmetic.                                                             *)

\* MulNat: a product of natural numbers.
LEMMA MulNat == ASSUME NEW a \in Nat, NEW r \in Nat PROVE a * r \in Nat
OBVIOUS

\* MulSucc: a product with one more.
LEMMA MulSucc ==
  ASSUME NEW a \in Nat, NEW r \in Nat PROVE (a + 1) * r = a * r + r
OBVIOUS

\* MulMono: multiplication is monotonic.
LEMMA MulMono ==
  ASSUME NEW a \in Nat, NEW b \in Nat, NEW r \in Nat, a <= b
  PROVE  a * r <= b * r
OBVIOUS

-----------------------------------------------------------------------------
(* Types, for any configuration, also one whose burst cannot pay for one   *)
(* action: a new bucket is then overdrawn by less than a token.            *)

\* Past: a bucket's time is in the past.
Past == \A k \in live : last[k] <= now

\* TypeStep: the fields of a bucket stay in their ranges.
LEMMA TypeStep == TypeOK /\ Past /\ [Next]_vars => TypeOK' /\ Past'
<1> SUFFICES ASSUME TypeOK, Past, [Next]_vars PROVE TypeOK' /\ Past'
  OBVIOUS
<1>1. ASSUME NEW k \in Clients, Allow(k) PROVE TypeOK' /\ Past'
  <2> DEFINE have == IF k \notin Kept THEN Burst ELSE Refilled(k)
             ok == k \notin Kept \/ have >= Unit
             left == IF ok THEN have - Unit ELSE have
  <2>1. Kept \subseteq live /\ live \subseteq Clients
    BY DEF Kept, TypeOK
  <2>2. have \in -Unit..Burst /\ (k \notin Kept => have = Burst)
    <3>1. CASE k \in Kept
      <4>1. now - last[k] \in Nat /\ tokens[k] \in -Unit..Burst
        BY <2>1, <3>1 DEF TypeOK, Past
      <4>2. (now - last[k]) * Rate \in Nat
        BY <4>1, MulNat, LimiterAssumption
      <4> QED BY <3>1, <4>1, <4>2, LimiterAssumption DEF Refilled, Cap
    <3>2. CASE k \notin Kept
      BY <3>2, LimiterAssumption
    <3> QED BY <3>1, <3>2
  <2>3. left \in -Unit..Burst
    BY <2>2, LimiterAssumption
  <2> HIDE DEF have, left
  <2>4. /\ live' = Kept \cup {k}
        /\ tokens' = [c \in Clients |-> IF c = k THEN left
                                        ELSE IF c \in Kept THEN tokens[c] ELSE 0]
        /\ last' = [c \in Clients |-> IF c = k THEN now
                                      ELSE IF c \in Kept THEN last[c] ELSE 0]
        /\ now' = now
    BY <1>1 DEF Allow, have, left, ok
  <2>5. lastEvict' \in Nat /\ net' \in [Clients -> Nat]
    BY <1>1 DEF Allow, TypeOK
  <2>6. 0 \in -Unit..Burst
    BY LimiterAssumption
  <2>7. TypeOK'
    BY <2>1, <2>3, <2>4, <2>5, <2>6 DEF TypeOK
  <2>8. Past'
    BY <2>1, <2>4 DEF TypeOK, Past
  <2> QED BY <2>7, <2>8
<1>2. ASSUME NEW k \in Clients, Return(k) PROVE TypeOK' /\ Past'
  BY <1>2, LimiterAssumption DEF Return, Cap, TypeOK, Past
<1>3. CASE Tick
  BY <1>3 DEF Tick, TypeOK, Past
<1>4. CASE UNCHANGED vars
  BY <1>4 DEF vars, TypeOK, Past
<1> QED BY <1>1, <1>2, <1>3, <1>4 DEF Next

\* TypeCorrect: whatever the configuration, a bucket holds no more than a
\* burst and is never overdrawn by more than one action.
THEOREM TypeCorrect == Spec => []TypeOK
<1>1. Init => TypeOK /\ Past
  BY LimiterAssumption DEF Init, TypeOK, Past
<1> QED BY <1>1, TypeStep, PTL DEF Spec

-----------------------------------------------------------------------------
(* The invariant.                                                          *)

\* RefilledRange: a refill stays within the burst.
LEMMA RefilledRange ==
  ASSUME IInv, NEW k \in live PROVE Refilled(k) \in 0..Burst
<1>1. now - last[k] \in Nat /\ tokens[k] \in 0..Burst
  BY DEF IInv, TypeOK, Buckets
<1>2. (now - last[k]) * Rate \in Nat
  BY <1>1, MulNat, LimiterAssumption
<1> QED BY <1>1, <1>2, LimiterAssumption DEF Refilled, Cap

\* IInvInit: without buckets the invariant holds.
LEMMA IInvInit == Init => IInv
BY LimiterAssumption DEF Init, IInv, TypeOK, Buckets

\* IInvStep: every step keeps it.
LEMMA IInvStep == Unit <= Burst /\ IInv /\ [Next]_vars => IInv'
<1> SUFFICES ASSUME Unit <= Burst, IInv, [Next]_vars PROVE IInv'
  OBVIOUS
<1> USE LimiterAssumption
<1>1. ASSUME NEW k \in Clients, Allow(k) PROVE IInv'
  <2> DEFINE have == IF k \notin Kept THEN Burst ELSE Refilled(k)
             ok == k \notin Kept \/ have >= Unit
             left == IF ok THEN have - Unit ELSE have
  <2>1. Kept \subseteq live /\ live \subseteq Clients
    BY DEF Kept, IInv, TypeOK
  <2>2. have \in 0..Burst
    BY <2>1, RefilledRange
  <2>3. left \in 0..Burst
    BY <2>2
  <2> HIDE DEF have, left
  <2>4. /\ live' = Kept \cup {k}
        /\ tokens' = [c \in Clients |-> IF c = k THEN left
                                        ELSE IF c \in Kept THEN tokens[c] ELSE 0]
        /\ last' = [c \in Clients |-> IF c = k THEN now
                                      ELSE IF c \in Kept THEN last[c] ELSE 0]
        /\ now' = now
    BY <1>1 DEF Allow, have, left, ok
  <2>5. lastEvict' \in Nat /\ net' \in [Clients -> Nat]
    BY <1>1 DEF Allow, IInv, TypeOK
  <2>6. TypeOK'
    BY <2>1, <2>3, <2>4, <2>5 DEF IInv, TypeOK
  <2>7. Buckets'
    BY <2>1, <2>3, <2>4 DEF IInv, TypeOK, Buckets
  <2> QED BY <2>6, <2>7 DEF IInv
<1>2. ASSUME NEW k \in Clients, Return(k) PROVE IInv'
  BY <1>2 DEF Return, Cap, IInv, TypeOK, Buckets
<1>3. CASE Tick
  BY <1>3 DEF Tick, IInv, TypeOK, Buckets
<1>4. CASE UNCHANGED vars
  BY <1>4 DEF vars, IInv, TypeOK, Buckets
<1> QED BY <1>1, <1>2, <1>3, <1>4 DEF Next

\* With a burst of at least one action every bucket that exists is between
\* empty and full, and its time is in the past.
THEOREM Invariance == ASSUME Unit <= Burst PROVE Spec => []IInv
<1>1. IInv /\ [Next]_vars => IInv'
  BY IInvStep
<1> QED BY IInvInit, <1>1, PTL DEF Spec

-----------------------------------------------------------------------------
(* How the worth of the buckets moves.                                     *)

\* LevelRange: a bucket is worth between nothing and a burst.
LEMMA LevelRange == IInv => Level \in [Clients -> 0..Burst]
BY RefilledRange, LimiterAssumption DEF Level

\* A bucket that evictIdle removes has been refilled.
LEMMA EvictedFull ==
  ASSUME EvictionSound, IInv, NEW k \in live, k \notin Kept
  PROVE  Refilled(k) = Burst
<1>1. now - last[k] \in Nat /\ tokens[k] \in 0..Burst
  BY DEF IInv, TypeOK, Buckets
<1>2. IdleCutoff <= now - last[k]
  BY LimiterAssumption DEF Kept, IInv, TypeOK
<1>3. IdleCutoff * Rate <= (now - last[k]) * Rate
  BY <1>1, <1>2, MulMono, LimiterAssumption
<1>4. IdleCutoff * Rate \in Nat /\ (now - last[k]) * Rate \in Nat
  BY <1>1, MulNat, LimiterAssumption
<1> QED BY <1>1, <1>3, <1>4, LimiterAssumption DEF EvictionSound, Refilled, Cap

\* AllowLevel: Allow takes a token from the worth of a bucket, or nothing, and changes
\* no other bucket's, evicted or not.
LEMMA AllowLevel ==
  ASSUME EvictionSound, IInv, NEW k \in Clients, Allow(k)
  PROVE  /\ Level' = [Level EXCEPT ![k] = IF @ >= Unit THEN @ - Unit ELSE @]
         /\ verdict' = <<k, Level[k] >= Unit>>
         /\ net' = [net EXCEPT ![k] = IF Level[k] >= Unit THEN @ + 1 ELSE @]
<1> USE LimiterAssumption
<1> DEFINE have == IF k \notin Kept THEN Burst ELSE Refilled(k)
           ok == k \notin Kept \/ have >= Unit
           left == IF ok THEN have - Unit ELSE have
<1>1. Kept \subseteq live /\ live \subseteq Clients
  BY DEF Kept, IInv, TypeOK
<1>2. \A c \in Clients : Level[c] = IF c \in Kept THEN Refilled(c) ELSE Burst
  BY <1>1, EvictedFull DEF Level
<1>3. have = Level[k] /\ have \in 0..Burst /\ (ok <=> Level[k] >= Unit)
  BY <1>2, LevelRange DEF EvictionSound
<1>4. left = IF Level[k] >= Unit THEN Level[k] - Unit ELSE Level[k]
  BY <1>3
<1>5. left \in 0..Burst
  BY <1>3, <1>4
<1> HIDE DEF have, left
<1>6. /\ live' = Kept \cup {k}
      /\ tokens' = [c \in Clients |-> IF c = k THEN left
                                      ELSE IF c \in Kept THEN tokens[c] ELSE 0]
      /\ last' = [c \in Clients |-> IF c = k THEN now
                                    ELSE IF c \in Kept THEN last[c] ELSE 0]
      /\ now' = now
  BY DEF Allow, have, left, ok
<1>7. Level'[k] = left
  <2>1. Refilled(k)' = Cap(left + (now - now) * Rate)
    BY <1>6 DEF Refilled, Cap
  <2>2. (now - now) * Rate = 0
    BY DEF IInv, TypeOK
  <2>3. Refilled(k)' = left
    BY <1>5, <2>1, <2>2 DEF Cap
  <2> QED BY <1>6, <2>3 DEF Level
<1>8. \A c \in Clients \ {k} : Level'[c] = Level[c]
  <2> TAKE c \in Clients \ {k}
  <2>1. CASE c \in Kept
    <3>1. tokens'[c] = tokens[c] /\ last'[c] = last[c]
      BY <1>6, <2>1
    <3>2. Refilled(c)' = Refilled(c)
      BY <1>6, <3>1 DEF Refilled, Cap
    <3> QED BY <1>2, <1>6, <2>1, <3>2 DEF Level
  <2>2. CASE c \notin Kept
    BY <1>2, <1>6, <2>2 DEF Level
  <2> QED BY <2>1, <2>2
<1>9. Level' = [Level EXCEPT ![k] = left]
  BY <1>7, <1>8 DEF Level
<1>10. verdict' = <<k, Level[k] >= Unit>>
  BY <1>3 DEF Allow, have, ok
<1>11. net' = [net EXCEPT ![k] = IF Level[k] >= Unit THEN @ + 1 ELSE @]
  BY <1>3 DEF Allow, have, ok
<1> QED BY <1>4, <1>9, <1>10, <1>11

\* ReturnLevel: Return adds a token to it, up to the burst.
LEMMA ReturnLevel ==
  ASSUME Unit <= Burst, IInv, NEW k \in Clients, Return(k)
  PROVE  Level' = [Level EXCEPT ![k] = Cap(@ + Unit)]
<1> USE LimiterAssumption
<1>1. \A c \in Clients \ {k} : Level'[c] = Level[c]
  <2> TAKE c \in Clients \ {k}
  <2>1. Refilled(c)' = Refilled(c)
    BY DEF Return, Refilled, Cap, IInv, TypeOK
  <2> QED BY <2>1 DEF Return, Level
<1>2. CASE k \notin live
  BY <1>1, <1>2 DEF Return, Level, Cap
<1>3. CASE k \in live
  <2>1. now - last[k] \in Nat /\ tokens[k] \in 0..Burst
    BY <1>3 DEF IInv, TypeOK, Buckets
  <2>2. (now - last[k]) * Rate \in Nat
    BY <2>1, MulNat
  <2>3. tokens'[k] = Cap(tokens[k] + Unit) /\ last' = last /\ now' = now
    BY <1>3 DEF Return, IInv, TypeOK
  <2>4. Refilled(k)' = Cap(Cap(tokens[k] + Unit) + (now - last[k]) * Rate)
    BY <2>3 DEF Refilled, Cap
  <2>5. Refilled(k)' = Cap(Refilled(k) + Unit)
    BY <2>1, <2>2, <2>4 DEF Refilled, Cap
  <2> QED BY <1>1, <1>3, <2>5 DEF Return, Level
<1> QED BY <1>2, <1>3

\* TickLevel: time adds the rate to it, up to the burst.
LEMMA TickLevel ==
  ASSUME IInv, Tick
  PROVE  Level' = [k \in Clients |-> Cap(Level[k] + Rate)]
<1> USE LimiterAssumption
<1>1. ASSUME NEW k \in live PROVE Refilled(k)' = Cap(Refilled(k) + Rate)
  <2>1. now - last[k] \in Nat /\ tokens[k] \in 0..Burst
    BY DEF IInv, TypeOK, Buckets
  <2>2. (now - last[k]) * Rate \in Nat
    BY <2>1, MulNat
  <2>3. (now' - last[k]) * Rate = (now - last[k]) * Rate + Rate
    <3>1. now' - last[k] = (now - last[k]) + 1
      BY DEF Tick, IInv, TypeOK
    <3> QED BY <2>1, <3>1, MulSucc
  <2>4. Refilled(k)' = Cap(tokens[k] + ((now - last[k]) * Rate + Rate))
    BY <2>3 DEF Tick, Refilled, Cap
  <2> QED BY <2>1, <2>2, <2>4 DEF Refilled, Cap
<1>2. live' = live
  BY DEF Tick
<1> QED BY <1>1, <1>2 DEF Level, Cap

-----------------------------------------------------------------------------
(* The theorems.                                                           *)

\* BucketStep: so every step is one of the ideal bucket.
LEMMA BucketStep ==
  EvictionSound /\ IInv /\ [Next]_vars => [Bucket!Next]_(Bucket!vars)
<1> SUFFICES ASSUME EvictionSound, IInv, [Next]_vars
             PROVE  [Bucket!Next]_(Bucket!vars)
  OBVIOUS
<1>1. ASSUME NEW k \in Clients, Allow(k) PROVE Bucket!Next
  BY <1>1, AllowLevel DEF Bucket!Next, Bucket!Take
<1>2. ASSUME NEW k \in Clients, Return(k) PROVE Bucket!Next
  BY <1>2, ReturnLevel DEF EvictionSound, Return, Cap, Bucket!Next, Bucket!Return,
     Bucket!Fill
<1>3. CASE Tick
  BY <1>3, TickLevel DEF Tick, Cap, Bucket!Next, Bucket!Refill, Bucket!Fill
<1>4. CASE UNCHANGED vars
  BY <1>4 DEF vars, Level, Refilled, Cap, Bucket!vars
<1> QED BY <1>1, <1>2, <1>3, <1>4 DEF Next

\* A limiter whose idle buckets have refilled by the time they are evicted
\* answers every Allow as an ideal token bucket does.
THEOREM BucketRefinement == ASSUME EvictionSound PROVE Spec => BucketSpec
<1>1. Init => Bucket!Init
  BY DEF Init, Level, Bucket!Init
<1>2. IInv /\ [Next]_vars => [Bucket!Next]_(Bucket!vars)
  BY BucketStep
<1>3. Spec => []IInv
  BY Invariance DEF EvictionSound
<1> QED BY <1>1, <1>2, <1>3, PTL DEF Spec, BucketSpec, Bucket!Spec

\* What was allowed and what is left never exceed the initial burst and the
\* refills.
Account ==
  \A k \in Clients : net[k] * Unit + Level[k] <= Burst + Rate * now

\* AccountStep: no step grants more than the account has.
LEMMA AccountStep ==
  EvictionSound /\ IInv /\ Account /\ [Next]_vars => Account'
<1> SUFFICES ASSUME EvictionSound, IInv, Account, [Next]_vars,
                    NEW c \in Clients
             PROVE  (net[c] * Unit + Level[c] <= Burst + Rate * now)'
  BY DEF Account
<1> USE LimiterAssumption
<1>0. /\ net[c] \in Nat /\ Level[c] \in 0..Burst /\ now \in Nat
      /\ net[c] * Unit \in Nat /\ Rate * now \in Nat
      /\ net[c] * Unit + Level[c] <= Burst + Rate * now
  <2>1. net[c] \in Nat /\ now \in Nat /\ Level[c] \in 0..Burst
    BY LevelRange DEF IInv, TypeOK
  <2> QED BY <2>1, MulNat DEF Account
<1>1. ASSUME NEW k \in Clients, Allow(k)
      PROVE  (net[c] * Unit + Level[c] <= Burst + Rate * now)'
  <2>1. (net[c] + 1) * Unit = net[c] * Unit + Unit
    BY <1>0, MulSucc
  <2>2. now' = now
    BY <1>1 DEF Allow
  <2>3. \/ net'[c] = net[c] /\ Level'[c] = Level[c]
        \/ net'[c] = net[c] + 1 /\ Level'[c] = Level[c] - Unit
    BY <1>1, AllowLevel, LevelRange DEF IInv, TypeOK
  <2> QED BY <1>0, <2>1, <2>2, <2>3
<1>2. ASSUME NEW k \in Clients, Return(k)
      PROVE  (net[c] * Unit + Level[c] <= Burst + Rate * now)'
  <2>1. now' = now
    BY <1>2 DEF Return
  <2>2. CASE c # k
    <3>1. net'[c] = net[c]
      BY <1>2, <2>2 DEF Return, IInv, TypeOK
    <3>2. Level'[c] = Level[c]
      BY <1>2, <2>2, ReturnLevel, LevelRange DEF EvictionSound
    <3> QED BY <1>0, <2>1, <3>1, <3>2
  <2>3. CASE c = k
    <3>1. net[c] - 1 \in Nat /\ net'[c] = net[c] - 1
      BY <1>0, <1>2, <2>3 DEF Return, IInv, TypeOK
    <3>2. ((net[c] - 1) + 1) * Unit = (net[c] - 1) * Unit + Unit
      BY <3>1, MulSucc
    <3>3. net[c] * Unit = net'[c] * Unit + Unit
      BY <1>0, <3>1, <3>2
    <3>4. Level'[c] = Cap(Level[c] + Unit)
      BY <1>2, <2>3, ReturnLevel, LevelRange DEF EvictionSound
    <3>5. Level'[c] <= Level[c] + Unit /\ Level'[c] \in Int
      BY <1>0, <3>4 DEF Cap
    <3>6. net'[c] * Unit \in Nat
      BY <3>1, MulNat
    <3> QED BY <1>0, <2>1, <3>3, <3>5, <3>6
  <2> QED BY <2>2, <2>3
<1>3. CASE Tick
  <2>1. net' = net /\ now' = now + 1
    BY <1>3 DEF Tick
  <2>2. Rate * now' = Rate * now + Rate
    BY <1>0, <2>1, MulSucc
  <2>3. Level'[c] <= Level[c] + Rate /\ Level'[c] \in Int
    BY <1>0, <1>3, TickLevel DEF Cap
  <2> QED BY <1>0, <2>1, <2>2, <2>3
<1>4. CASE UNCHANGED vars
  BY <1>0, <1>4 DEF vars, Level, Refilled, Cap
<1> QED BY <1>1, <1>2, <1>3, <1>4 DEF Next

\* Under the same condition no client is ever allowed more than a burst plus
\* what the rate yields, evictions and refunds included.
THEOREM GrantsBounded == ASSUME EvictionSound PROVE Spec => []GrantBound
<1>1. Init => Account
  <2> SUFFICES ASSUME Init, NEW k \in Clients
               PROVE  net[k] * Unit + Level[k] <= Burst + Rate * now
    BY DEF Account
  <2>1. net[k] = 0 /\ Level[k] = Burst /\ now = 0
    BY DEF Init, Level
  <2>2. 0 * Unit = 0 /\ Rate * 0 = 0
    BY LimiterAssumption
  <2> QED BY <2>1, <2>2, LimiterAssumption
<1>2. IInv /\ Account /\ [Next]_vars => Account'
  BY AccountStep
<1>3. Spec => []IInv
  BY Invariance DEF EvictionSound
<1>4. IInv /\ Account => GrantBound
  <2> SUFFICES ASSUME IInv, Account, NEW k \in Clients
               PROVE  net[k] * Unit <= Burst + Rate * now
    BY DEF GrantBound
  <2>1. net[k] * Unit \in Int /\ Rate * now \in Int /\ Level[k] \in 0..Burst
    BY LevelRange, LimiterAssumption DEF IInv, TypeOK
  <2> QED BY <2>1, LimiterAssumption DEF Account
<1> QED BY <1>1, <1>2, <1>3, <1>4, PTL DEF Spec
=============================================================================
