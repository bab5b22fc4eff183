----------------------------- MODULE TokenLease -----------------------------
(***************************************************************************)
(* What the token-to-key binding promises (README, "Token-to-key binding"; *)
(* the contract in the doc comment of BindToken, internal/keys/keys.go):   *)
(* a device token belongs to the first key that sends to it, that key      *)
(* keeps it for as long as it keeps sending, and nobody else can have it   *)
(* before the owner has been silent for longer than the retention time.    *)
(* There are no transactions, no connection and no sweep here: KeyStore    *)
(* is shown to implement this.                                             *)
(***************************************************************************)
EXTENDS Integers

CONSTANTS
  Tokens,     \* device tokens, one per (platform, token) pair
  Retention   \* how long a silent owner keeps a token; <= 0 means forever

VARIABLES
  holder,     \* holder[t]: the id of the key that owns t, or NoKey
  touched,    \* touched[t]: when the owner of t last sent to it
  now         \* the time of day

vars == <<holder, touched, now>>

NoKey == 0

Init ==
  /\ holder = [t \in Tokens |-> NoKey]
  /\ touched = [t \in Tokens |-> 0]
  /\ now \in Nat

\* A key takes a free token, or renews one that it holds already. The time
\* recorded is not in the future and never older than the one it replaces.
Grant(t) ==
  /\ holder'[t] # NoKey
  /\ holder[t] \in {NoKey, holder'[t]}
  /\ touched'[t] \in touched[t]..now
  /\ holder' = [holder EXCEPT ![t] = holder'[t]]
  /\ touched' = [touched EXCEPT ![t] = touched'[t]]
  /\ UNCHANGED now

\* Tokens whose owners have all been silent for longer than Retention are
\* freed.
Lapse ==
  /\ Retention > 0
  /\ \A t \in Tokens :
       \/ UNCHANGED <<holder[t], touched[t]>>
       \/ /\ touched[t] + Retention < now
          /\ holder'[t] = NoKey
          /\ touched'[t] = 0
  /\ holder' = [t \in Tokens |-> holder'[t]]
  /\ touched' = [t \in Tokens |-> touched'[t]]
  /\ UNCHANGED now

Tick ==
  /\ now' = now + 1
  /\ UNCHANGED <<holder, touched>>

Next ==
  \/ \E t \in Tokens : Grant(t)
  \/ Lapse
  \/ Tick

Spec == Init /\ [][Next]_vars
=============================================================================
