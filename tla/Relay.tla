------------------------------- MODULE Relay --------------------------------
(***************************************************************************)
(* Concurrent requests to the HTTP API: handleRegister (register.go),      *)
(* handleSend, dispatch's outcome and refundNotAttemptedCalls (send.go)    *)
(* and handleAdminRevokeKey (admin.go), over the one key store and the     *)
(* limiters they share.                                                    *)
(*                                                                         *)
(* The components appear by what they promise.  A store call is one step   *)
(* (KeyStore shows that BindToken and the sweep are steps of TokenLease,   *)
(* and that the ceiling of Issue holds).  A limiter is a bucket (RateLimit) watched for *)
(* less time than a refill takes.  dispatch settles every message once and *)
(* marks the rest (Dispatch implements BatchOutcome).                      *)
(*                                                                         *)
(* A message is a token and a kind; the kind Malformed stands for a        *)
(* payload over maxPayloadBytes and for a platform or kind that does not   *)
(* parse.  The messages of a batch are chosen as the loop reaches them.    *)
(***************************************************************************)
EXTENDS Integers, Sequences, FiniteSets

CONSTANTS
  Requests,          \* handler goroutines
  Tokens,            \* device tokens
  NoToken,           \* the empty token
  Kinds,             \* kinds in use, a subset of push.Kind
  SendStatuses,      \* statuses in use of those that a Sender can answer
  SendBurst,         \* what sendLim allows one key
  CallBurst,         \* what callLim allows one key
  RegisterBurst,     \* what registerLim allows the one client address
  MaxRegistrations,  \* the ceiling of Issue, which is on
  MaxMessages,       \* cfg.MaxMessages
  Retention,         \* how long a silent owner keeps a token; <= 0: forever
  TimeBound          \* bound: the clock stops there

ASSUME RelayAssumption ==
  /\ NoToken \notin Tokens
  /\ Kinds \subseteq {"message", "mention", "call", "wake"}
  /\ {"error"} \subseteq SendStatuses
  /\ SendStatuses \subseteq {"delivered", "unregistered", "error"}
  /\ SendBurst \in Nat \ {0}
  /\ CallBurst \in Nat \ {0}
  /\ RegisterBurst \in Nat \ {0}
  /\ MaxRegistrations \in Nat \ {0}
  /\ MaxMessages \in Nat
  /\ Retention \in Int
  /\ TimeBound \in Nat

VARIABLES
  \* Shared.
  nkeys,     \* issued keys, 1..nkeys
  revoked,   \* the revoked ones
  owner,     \* owner[t]: the key that t is bound to, NoKey without one
  seen,      \* seen[t]: last_seen_at of that binding
  clock,     \* the time of day
  regLeft,   \* what registerLim has left
  sendLeft,  \* sendLeft[k]: what sendLim has left for key k
  callLeft,  \* callLeft[k]: what callLim has left for key k
  \* Local to a handler.
  pc,        \* pc[r]: where request r is
  key,       \* key[r]: the key it was verified as
  input,     \* input[r]: the messages of its batch so far
  slots,     \* slots[r]: results, each with what is known of its message
  owed,      \* owed[r]: slots that refundNotAttemptedCalls still has to return
  \* History.
  rung,      \* rung[k]: calls of key k that reached a provider
  kept       \* kept[k]: calls of k that were charged and got a final answer

lease == <<owner, seen, clock>>
shared == <<nkeys, revoked, owner, seen, clock, regLeft, sendLeft, callLeft>>
history == <<rung, kept>>
vars == <<nkeys, revoked, owner, seen, clock, regLeft, sendLeft, callLeft,
          pc, key, input, slots, owed, rung, kept>>

NoKey == 0
AllKeys == 1..MaxRegistrations
Malformed == "malformed"
Messages == [tok : Tokens, kind : Kinds \cup {Malformed}]
              \cup {[tok |-> NoToken, kind |-> Malformed]}
Statuses == SendStatuses \cup {"unset", "forbidden", "not_attempted"}
\* A result and its message.  item is the resultIdx of the message's
\* dispatchItem, 0 without one.  pos, charged and bound are history: the
\* message's place in the batch, whether callLim was charged for it, and the
\* time that BindToken recorded for it.
Slots == [tok : Tokens, call : BOOLEAN, charged : BOOLEAN, status : Statuses,
          pos : 1..MaxMessages, item : 0..MaxMessages, bound : 0..TimeBound]

TypeOK ==
  /\ nkeys \in 0..MaxRegistrations
  /\ revoked \subseteq 1..nkeys
  /\ owner \in [Tokens -> 0..nkeys]
  /\ seen \in [Tokens -> 0..TimeBound]
  /\ clock \in 0..TimeBound
  /\ regLeft \in 0..RegisterBurst
  /\ sendLeft \in [AllKeys -> 0..SendBurst]
  /\ callLeft \in [AllKeys -> 0..CallBurst]
  /\ pc \in [Requests -> {"idle", "issue", "admit", "decode", "parse", "bind",
                          "dispatch", "refund"}]
  /\ key \in [Requests -> 0..nkeys]
  /\ input \in [Requests -> Seq(Messages)]
  /\ slots \in [Requests -> Seq(Slots)]
  /\ DOMAIN owed = Requests
  /\ \A r \in Requests : /\ Len(slots[r]) <= Len(input[r])
                         /\ Len(input[r]) <= MaxMessages
                         /\ owed[r] \subseteq DOMAIN slots[r]
  /\ rung \in [AllKeys -> Nat]
  /\ kept \in [AllKeys -> Nat]

Init ==
  /\ nkeys = 0
  /\ revoked = {}
  /\ owner = [t \in Tokens |-> NoKey]
  /\ seen = [t \in Tokens |-> 0]
  /\ clock = 0
  /\ regLeft = RegisterBurst
  /\ sendLeft = [k \in AllKeys |-> SendBurst]
  /\ callLeft = [k \in AllKeys |-> CallBurst]
  /\ pc = [r \in Requests |-> "idle"]
  /\ key = [r \in Requests |-> NoKey]
  /\ input = [r \in Requests |-> <<>>]
  /\ slots = [r \in Requests |-> <<>>]
  /\ owed = [r \in Requests |-> {}]
  /\ rung = [k \in AllKeys |-> 0]
  /\ kept = [k \in AllKeys |-> 0]

Goto(r, l) == pc' = [pc EXCEPT ![r] = l]

\* The handler writes its response and returns.
Close(r) ==
  /\ Goto(r, "idle")
  /\ key' = [key EXCEPT ![r] = NoKey]
  /\ input' = [input EXCEPT ![r] = <<>>]
  /\ slots' = [slots EXCEPT ![r] = <<>>]
  /\ owed' = [owed EXCEPT ![r] = {}]

-----------------------------------------------------------------------------
(* POST /v1/register.                                                      *)

\* registerLim is charged before the body is read: what fails later is not
\* given back.
Register(r) ==
  /\ pc[r] = "idle"
  /\ regLeft > 0
  /\ regLeft' = regLeft - 1
  /\ Goto(r, "issue")
  /\ UNCHANGED <<nkeys, revoked, lease, sendLeft, callLeft,
                 key, input, slots, owed, history>>

\* Issue mints a key below the ceiling.  Otherwise, and for a bad body or a
\* failing store, the answer is an error.
Issue(r) ==
  /\ pc[r] = "issue"
  /\ nkeys' \in {nkeys} \cup ({nkeys + 1} \cap AllKeys)
  /\ Goto(r, "idle")
  /\ UNCHANGED <<revoked, lease, regLeft, sendLeft, callLeft,
                 key, input, slots, owed, history>>

-----------------------------------------------------------------------------
(* POST /v1/send, up to the loop over the messages.                        *)

\* Verify.
Verify(r, k) ==
  /\ pc[r] = "idle"
  /\ k \in 1..nkeys
  /\ k \notin revoked
  /\ key' = [key EXCEPT ![r] = k]
  /\ Goto(r, "admit")
  /\ UNCHANGED <<shared, input, slots, owed, history>>

\* A request that ends with 401 or with the 429 of registerLim changes
\* nothing.
Refuse(r) ==
  /\ pc[r] = "idle"
  /\ UNCHANGED vars

\* sendLim.Allow, or 429.
Admit(r) ==
  /\ pc[r] = "admit"
  /\ \/ /\ sendLeft[key[r]] > 0
        /\ sendLeft' = [sendLeft EXCEPT ![key[r]] = @ - 1]
        /\ Goto(r, "decode")
        /\ UNCHANGED <<key, input, slots, owed>>
     \/ /\ sendLeft[key[r]] = 0
        /\ Close(r)
        /\ UNCHANGED sendLeft
  /\ UNCHANGED <<nkeys, revoked, lease, regLeft, callLeft, history>>

\* The body is decoded; a bad one, or one with more than MaxMessages
\* messages, is answered with 400.
Decode(r) ==
  /\ pc[r] = "decode"
  /\ \/ /\ Goto(r, "parse")
        /\ UNCHANGED <<key, input, slots, owed>>
     \/ Close(r)
  /\ UNCHANGED <<shared, history>>

-----------------------------------------------------------------------------
(* The loop over the messages.                                             *)

Last(r) == input[r][Len(input[r])]

\* The result of message m, the p-th of its batch.
Slot(m, p, charged, s) ==
  [tok |-> m.tok, call |-> m.kind = "call", charged |-> charged, status |-> s,
   pos |-> p, item |-> 0, bound |-> 0]

\* Mutant: the number of items so far, which is less than that of results
\* when a message has been refused.
resultIdxOfItems(r) ==
  Cardinality({i \in DOMAIN slots[r] : slots[r][i].item # 0}) + 1

\* len(results), counted from one: where dispatch will put the next result.
resultIdx(r) == Len(slots[r]) + 1

\* The empty result of message m, with the dispatchItem that will fill it.
Item(r, m) ==
  [Slot(m, Len(input[r]), m.kind = "call", "unset")
     EXCEPT !.item = resultIdx(r), !.bound = clock]

\* Mutant: callLim.Allow is called and its answer ignored.
ParseUnlimited(r, m) ==
  /\ pc[r] = "parse"
  /\ Len(input[r]) < MaxMessages
  /\ m.tok # NoToken /\ m.kind # Malformed
  /\ input' = [input EXCEPT ![r] = Append(@, m)]
  /\ callLeft' = IF m.kind = "call"
                   THEN [callLeft EXCEPT ![key[r]] = @ - 1] ELSE callLeft
  /\ Goto(r, "bind")
  /\ UNCHANGED <<nkeys, revoked, lease, regLeft, sendLeft, key, slots, owed,
                 history>>

\* One turn of the loop up to BindToken.  An empty token has no result at
\* all; a malformed message and a call beyond the call budget have an error.
Parse(r, m) ==
  LET k == key[r]
      refused == m.kind = "call" /\ callLeft[k] = 0
  IN
  /\ pc[r] = "parse"
  /\ Len(input[r]) < MaxMessages
  /\ input' = [input EXCEPT ![r] = Append(@, m)]
  /\ \/ /\ m.tok = NoToken
        /\ UNCHANGED <<pc, slots, callLeft>>
     \/ /\ m.tok # NoToken
        /\ m.kind = Malformed \/ refused
        /\ slots' = [slots EXCEPT ![r] = Append(@, Slot(m, Len(input[r]) + 1, FALSE,
                                                 "error"))]
        /\ UNCHANGED <<pc, callLeft>>
     \/ /\ m.tok # NoToken
        /\ m.kind # Malformed /\ ~refused
        /\ callLeft' = IF m.kind = "call"
                         THEN [callLeft EXCEPT ![k] = @ - 1] ELSE callLeft
        /\ Goto(r, "bind")
        /\ UNCHANGED slots
  /\ UNCHANGED <<nkeys, revoked, lease, regLeft, sendLeft, key, owed, history>>

\* Mutant: the answer of BindToken is not compared with the caller's key.
BindNoCheck(r) ==
  LET m == Last(r) IN
  /\ pc[r] = "bind"
  /\ Goto(r, "parse")
  /\ owner' = IF owner[m.tok] = NoKey THEN [owner EXCEPT ![m.tok] = key[r]]
              ELSE owner
  /\ seen' = [seen EXCEPT ![m.tok] = clock]
  /\ slots' = [slots EXCEPT ![r] = Append(@, Item(r, m))]
  /\ UNCHANGED <<nkeys, revoked, clock, regLeft, sendLeft, callLeft, key, input,
                 owed, history>>

\* BindToken and the rest of the turn: a store error, someone else's token,
\* or a slot that dispatch will fill.  The charge of a call stays.
Bind(r) ==
  LET m == Last(r)
      Put(s) == slots' = [slots EXCEPT ![r] =
                            Append(@, Slot(m, Len(input[r]), m.kind = "call", s))]
  IN
  /\ pc[r] = "bind"
  /\ Goto(r, "parse")
  /\ \/ Put("error") /\ UNCHANGED <<owner, seen>>
     \/ /\ owner[m.tok] \notin {NoKey, key[r]}
        /\ Put("forbidden")
        /\ UNCHANGED <<owner, seen>>
     \/ /\ owner[m.tok] \in {NoKey, key[r]}
        /\ owner' = [owner EXCEPT ![m.tok] = key[r]]
        /\ seen' = [seen EXCEPT ![m.tok] = clock]
        /\ slots' = [slots EXCEPT ![r] = Append(@, Item(r, m))]
  /\ UNCHANGED <<nkeys, revoked, clock, regLeft, sendLeft, callLeft, key, input,
                 owed, history>>

-----------------------------------------------------------------------------
(* dispatch, the refunds, the response.                                    *)

Dispatch(r) ==
  /\ pc[r] = "parse"
  /\ Goto(r, "dispatch")
  /\ UNCHANGED <<shared, key, input, slots, owed, history>>

\* A worker sends the message of item i and puts the answer where the item
\* says.  Without a round trip to the provider the status is an error.
Settle(r, i, s, contact) ==
  LET j == slots[r][i].item IN
  /\ pc[r] = "dispatch"
  /\ j # 0
  /\ slots[r][j].status = "unset"
  /\ contact \/ s = "error"
  /\ slots' = [slots EXCEPT ![r][j].tok = slots[r][i].tok, ![r][j].status = s]
  /\ rung' = IF contact /\ slots[r][i].call
               THEN [rung EXCEPT ![key[r]] = @ + 1] ELSE rung
  /\ UNCHANGED <<shared, pc, key, input, owed, kept>>

\* What dispatch returns of slots s: the results of items that nobody got to
\* are marked.
Marked(s) ==
  [j \in DOMAIN s |->
     IF s[j].status = "unset" /\ \E i \in DOMAIN s : s[i].item = j
       THEN [s[j] EXCEPT !.status = "not_attempted"] ELSE s[j]]

\* Mutant: the refund also pays for calls that failed.
FinishRefundsErrors(r) ==
  LET done == Marked(slots[r]) IN
  /\ pc[r] = "dispatch"
  /\ slots' = [slots EXCEPT ![r] = done]
  /\ owed' = [owed EXCEPT ![r] = {i \in DOMAIN done :
                 done[i].call /\ done[i].status # "delivered"}]
  /\ Goto(r, "refund")
  /\ UNCHANGED <<shared, key, input, history>>

\* The items of slots s that are calls and were never attempted.
Unattempted(s) ==
  {i \in DOMAIN s : /\ s[i].item # 0
                    /\ s[i].call
                    /\ s[s[i].item].status = "not_attempted"}

\* dispatch returns, and refundNotAttemptedCalls starts.
Finish(r) ==
  LET done == Marked(slots[r]) IN
  /\ pc[r] = "dispatch"
  /\ slots' = [slots EXCEPT ![r] = done]
  /\ owed' = [owed EXCEPT ![r] = Unattempted(done)]
  /\ Goto(r, "refund")
  /\ UNCHANGED <<shared, key, input, history>>

\* Mutant: one refund for a request, however many calls were cut off.
RefundLoses(r) ==
  /\ pc[r] = "refund"
  /\ owed[r] # {}
  /\ owed' = [owed EXCEPT ![r] = {}]
  /\ callLeft' = [callLeft EXCEPT ![key[r]] =
                    IF @ + 1 > CallBurst THEN CallBurst ELSE @ + 1]
  /\ UNCHANGED <<nkeys, revoked, lease, regLeft, sendLeft, pc, key, input,
                 slots, history>>

\* callLim.Return, one message at a time and in their order.
Refund(r) ==
  /\ pc[r] = "refund"
  /\ \E i \in owed[r] : /\ \A j \in owed[r] : i <= j
                        /\ owed' = [owed EXCEPT ![r] = @ \ {i}]
  /\ callLeft' = [callLeft EXCEPT ![key[r]] =
                    IF @ + 1 > CallBurst THEN CallBurst ELSE @ + 1]
  /\ UNCHANGED <<nkeys, revoked, lease, regLeft, sendLeft, pc, key, input,
                 slots, history>>

\* The charges among slots s that stay.
Charged(s) ==
  {i \in DOMAIN s : s[i].charged /\ s[i].status # "not_attempted"}

\* 200 with the results.
Respond(r) ==
  /\ pc[r] = "refund"
  /\ owed[r] = {}
  /\ kept' = [kept EXCEPT ![key[r]] = @ + Cardinality(Charged(slots[r]))]
  /\ Close(r)
  /\ UNCHANGED <<shared, rung>>

-----------------------------------------------------------------------------
(* The administrator, and the sweep of the token store.                    *)

\* handleAdminRevokeKey.  404 changes nothing.
Revoke(k) ==
  /\ k \in (1..nkeys) \ revoked
  /\ revoked' = revoked \cup {k}
  /\ UNCHANGED <<nkeys, lease, regLeft, sendLeft, callLeft,
                 pc, key, input, slots, owed, history>>

\* The sweep deletes the binding of t.  Requests are not asked: what keeps
\* it from a token that one of them is delivering to is last_seen_at.
Lapse(t) ==
  /\ Retention > 0
  /\ owner[t] # NoKey
  /\ seen[t] + Retention < clock
  /\ owner' = [owner EXCEPT ![t] = NoKey]
  /\ UNCHANGED <<nkeys, revoked, seen, clock, regLeft, sendLeft, callLeft,
                 pc, key, input, slots, owed, history>>

Tick ==
  /\ clock < TimeBound
  /\ clock' = clock + 1
  /\ UNCHANGED <<nkeys, revoked, owner, seen, regLeft, sendLeft, callLeft,
                 pc, key, input, slots, owed, history>>

Next ==
  \/ \E r \in Requests :
       \/ Register(r) \/ Issue(r)
       \/ \E k \in 1..nkeys : Verify(r, k)
       \/ Refuse(r) \/ Admit(r) \/ Decode(r)
       \/ \E m \in Messages : Parse(r, m)
       \/ Bind(r) \/ Dispatch(r)
       \/ \E i \in DOMAIN slots[r], s \in SendStatuses, c \in BOOLEAN :
            Settle(r, i, s, c)
       \/ Finish(r) \/ Refund(r) \/ Respond(r)
  \/ \E k \in 1..nkeys : Revoke(k)
  \/ \E t \in Tokens : Lapse(t)
  \/ Tick

Spec == Init /\ [][Next]_vars

-----------------------------------------------------------------------------
(* Properties.                                                             *)

\* The binding behind this slot is no older than the retention time.
Fresh(slot) == Retention > 0 => clock <= slot.bound + Retention

\* DeliverOwnOnly: a message waits for delivery only while its token is
\* bound to the key of its request, so that no two servers ever push to the
\* same device ("a send for someone else's token is rejected rather than
\* forwarded", send.go:53), whatever other requests, revocations and sweeps
\* do between the check and the delivery.  Only a request that goes on for
\* longer than the retention time may lose the token under way.
DeliverOwnOnly ==
  \A r \in Requests : \A i \in DOMAIN slots[r] :
    LET slot == slots[r][i] IN
    slot.status = "unset" /\ Fresh(slot) => owner[slot.tok] = key[r]

\* RingBound: requests of one key that run at the same time ring devices no
\* more often than the call budget allows, refunds included.
RingBound == \A k \in AllKeys : rung[k] <= CallBurst

\* BudgetConserved: when no request is under way, the call budget is short
\* of exactly the calls that were charged and answered with something else
\* than not_attempted: no refund is lost and none is paid twice ("must not
\* have permanently spent its slice of the tighter per-key call budget",
\* send.go:146).
BudgetConserved ==
  (\A r \in Requests : pc[r] = "idle") =>
    \A k \in AllKeys : callLeft[k] + kept[k] = CallBurst

\* ResultsMatch: the response holds one result for every message with a
\* token, in the order of the messages, each with that token and a status.
ResultsMatch ==
  \A r \in Requests : pc[r] = "refund" =>
    /\ \A i \in DOMAIN slots[r] :
         /\ slots[r][i].pos \in DOMAIN input[r]
         /\ slots[r][i].tok = input[r][slots[r][i].pos].tok
         /\ slots[r][i].status # "unset"
    /\ \A i, j \in DOMAIN slots[r] : i < j => slots[r][i].pos < slots[r][j].pos
    /\ \A p \in DOMAIN input[r] : input[r][p].tok # NoToken =>
         \E i \in DOMAIN slots[r] : slots[r][i].pos = p
=============================================================================
