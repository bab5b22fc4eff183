---------------------------- MODULE RelayProofs -----------------------------
(***************************************************************************)
(* Theorems about Relay, for any number of requests, tokens, keys and      *)
(* messages and for every budget.                                          *)
(*                                                                         *)
(* Most of the inductive invariant is about one request at a time          *)
(* (Sound(r)): a step of a request leaves the others as they are.  The     *)
(* budget is a matter of counting: Open(k) is the set of the charges that  *)
(* the requests of key k hold, each as a request and the place of its      *)
(* result, and callLeft, kept and the size of Open add up to CallBurst at  *)
(* all times.  A request rings a device only for a charge of Open that is  *)
(* not settled yet.                                                        *)
(*                                                                         *)
(* Deliveries are a matter of time: Leased says that a message bound at    *)
(* time b, while the retention time is not over, finds its token bound to  *)
(* its key and seen at b or later, which is what the sweep goes by.        *)
(***************************************************************************)
EXTENDS Relay, FiniteSetTheorems, SequenceTheorems, TLAPS

Times == 0..TimeBound

Busy == {"parse", "bind", "dispatch", "refund"}

\* Keyed: a request that is past Verify has a key.
Keyed(r) == pc[r] \notin {"idle", "issue"} => key[r] \in 1..nkeys

\* Early: there are no results before the loop.
Early(r) ==
  pc[r] \notin Busy => input[r] = << >> /\ slots[r] = << >> /\ owed[r] = {}

\* Reported: messages are marked as not attempted by Finish, which leaves out
\* none, and refunds are owed for those.
Reported(r) ==
  /\ pc[r] # "refund" =>
       /\ owed[r] = {}
       /\ \A i \in DOMAIN slots[r] : slots[r][i].status # "not_attempted"
  /\ pc[r] = "refund" =>
       /\ owed[r] \subseteq Unattempted(slots[r])
       /\ \A i \in DOMAIN slots[r] : slots[r][i].status # "unset"

\* Binding: the message that BindToken is called for is well formed, and has
\* no result yet.
Binding(r) ==
  pc[r] = "bind" =>
    /\ Len(slots[r]) < Len(input[r])
    /\ Last(r).tok # NoToken
    /\ Last(r).kind # Malformed
    /\ \A i \in DOMAIN slots[r] : slots[r][i].pos < Len(input[r])

\* Paid: callLim is charged for calls only, and for every call that dispatch
\* may send.
Paid(r) ==
  \A i \in DOMAIN slots[r] :
    /\ slots[r][i].charged => slots[r][i].call
    /\ slots[r][i].call /\ slots[r][i].status \in {"unset", "not_attempted"} =>
         slots[r][i].charged

\* Placed: the results are those of the messages with a token, in order; the
\* message that is being bound has none yet.
Placed(r) ==
  /\ \A i \in DOMAIN slots[r] :
       /\ slots[r][i].pos \in DOMAIN input[r]
       /\ slots[r][i].tok = input[r][slots[r][i].pos].tok
  /\ \A i, j \in DOMAIN slots[r] : i < j => slots[r][i].pos < slots[r][j].pos
  /\ \A p \in DOMAIN input[r] : input[r][p].tok # NoToken =>
       \/ \E i \in DOMAIN slots[r] : slots[r][i].pos = p
       \/ pc[r] = "bind" /\ p = Len(input[r])

\* Indexed: an item points at the result next to it, and what dispatch may
\* fill has an item.
Indexed(s) ==
  \A i \in DOMAIN s : /\ s[i].item \in {0, i}
                      /\ s[i].status \in {"unset", "not_attempted"} => s[i].item = i

Sound(r) ==
  /\ Keyed(r) /\ Early(r) /\ Reported(r) /\ Binding(r) /\ Paid(r) /\ Placed(r)
  /\ Indexed(slots[r])

\* The charges that request r holds: of results that keep theirs, of results
\* whose refund is owed, and of the call that is being bound.
Due(r) ==
  Charged(slots[r]) \cup owed[r]
    \cup {i \in {Len(slots[r]) + 1} : pc[r] = "bind" /\ Last(r).kind = "call"}

\* The charges of r that are settled.
Over(r) == {i \in Charged(slots[r]) : slots[r][i].status # "unset"}

Open(k) == {x \in Requests \X Nat : key[x[1]] = k /\ x[2] \in Due(x[1])}
Done(k) == {x \in Requests \X Nat : key[x[1]] = k /\ x[2] \in Over(x[1])}

\* Ledger: nothing is lost and nothing is paid twice.
Ledger ==
  \A k \in AllKeys : /\ IsFiniteSet(Open(k))
                     /\ callLeft[k] + kept[k] + Cardinality(Open(k)) = CallBurst

\* Rings: every round trip for a call has settled a charge.
Rings == \A k \in AllKeys : rung[k] <= kept[k] + Cardinality(Done(k))

\* Pending: request r has a message to deliver to t, bound at time b.
Pending(r, t, b) ==
  \E i \in DOMAIN slots[r] : /\ slots[r][i].status = "unset"
                             /\ slots[r][i].tok = t
                             /\ slots[r][i].bound = b

\* Recent: the sweep does not take yet what was last seen at time b.
Recent(b) == Retention > 0 => clock <= b + Retention

\* Leased: a token of a recent message is its key's, and was last seen no
\* earlier than the message bound it: that is what the sweep looks at.
Leased ==
  \A r \in Requests, t \in Tokens, b \in Times : Pending(r, t, b) =>
    /\ b <= clock
    /\ Recent(b) => owner[t] = key[r] /\ b <= seen[t]

IInv == /\ TypeOK /\ (\A r \in Requests : Sound(r))
        /\ Leased /\ Ledger /\ Rings

-----------------------------------------------------------------------------
(* Sequences.                                                              *)

\* SeqFacts: the places of a sequence.
LEMMA SeqFacts ==
  ASSUME NEW S, NEW s \in Seq(S)
  PROVE  /\ Len(s) \in Nat /\ DOMAIN s = 1..Len(s)
         /\ \A i \in DOMAIN s : s[i] \in S
OBVIOUS

\* AppendFacts: the places of a sequence with one more element.
LEMMA AppendFacts ==
  ASSUME NEW S, NEW s \in Seq(S), NEW x \in S
  PROVE  /\ Append(s, x) \in Seq(S)
         /\ Len(Append(s, x)) = Len(s) + 1
         /\ DOMAIN Append(s, x) = DOMAIN s \cup {Len(s) + 1}
         /\ Len(s) + 1 \notin DOMAIN s
         /\ \A i \in DOMAIN s : Append(s, x)[i] = s[i]
         /\ Append(s, x)[Len(s) + 1] = x
OBVIOUS

\* SameShape: a sequence whose elements are changed in place.
LEMMA SameShape ==
  ASSUME NEW S, NEW s \in Seq(S), NEW f, f = [i \in DOMAIN s |-> f[i]],
         \A i \in DOMAIN s : f[i] \in S
  PROVE  f \in Seq(S) /\ Len(f) = Len(s) /\ DOMAIN f = DOMAIN s
<1>1. Len(s) \in Nat /\ DOMAIN s = 1..Len(s)
  OBVIOUS
<1>2. f \in [1..Len(s) -> S]
  BY <1>1
<1>3. f \in Seq(S)
  BY <1>1, <1>2, SeqDef
<1> QED BY <1>1, <1>2, <1>3

-----------------------------------------------------------------------------
(* Frames.                                                                 *)

\* Only(r): no request but r moves.
Only(r) ==
  \A q \in Requests : q # r =>
    /\ pc'[q] = pc[q] /\ key'[q] = key[q] /\ input'[q] = input[q]
    /\ slots'[q] = slots[q] /\ owed'[q] = owed[q]

\* SoundFrame: what holds of the other requests goes on to hold.
LEMMA SoundFrame ==
  ASSUME NEW r \in Requests, Only(r), nkeys \in Nat, nkeys' \in Nat,
         nkeys <= nkeys', \A q \in Requests : Sound(q), Sound(r)'
  PROVE  \A q \in Requests : Sound(q)'
<1> SUFFICES ASSUME NEW q \in Requests, q # r PROVE Sound(q)'
  OBVIOUS
<1>1. /\ pc'[q] = pc[q] /\ key'[q] = key[q] /\ input'[q] = input[q]
      /\ slots'[q] = slots[q] /\ owed'[q] = owed[q]
  BY DEF Only
<1>2. Sound(q)
  OBVIOUS
<1>3. Keyed(q)'
  BY <1>1, <1>2 DEF Sound, Keyed
<1>4. Early(q)' /\ Reported(q)' /\ Paid(q)' /\ Placed(q)' /\ Indexed(slots[q])'
  BY <1>1, <1>2 DEF Sound, Early, Reported, Paid, Placed, Indexed
<1>5. Binding(q)'
  BY <1>1, <1>2 DEF Sound, Binding, Last
<1> QED BY <1>3, <1>4, <1>5 DEF Sound

\* OpenFrame: a step that changes no charge of r changes Open and Done for no
\* key.
LEMMA OpenFrame ==
  ASSUME NEW r \in Requests, Only(r), Due(r)' = Due(r), Over(r)' = Over(r),
         Due(r) # {} => key'[r] = key[r]
  PROVE  \A k : Open(k)' = Open(k) /\ Done(k)' = Done(k)
<1>1. \A q \in Requests : /\ Due(q)' = Due(q) /\ Over(q)' = Over(q)
                          /\ Due(q) # {} => key'[q] = key[q]
  BY DEF Only, Due, Over, Last
<1>2. \A q \in Requests : Over(q) # {} => Due(q) # {}
  BY DEF Over, Due
<1> QED BY <1>1, <1>2 DEF Open, Done

\* LedgerFrame: such a step, if it does not touch the budget either.
LEMMA LedgerFrame ==
  ASSUME NEW r \in Requests, Only(r), Due(r)' = Due(r), Over(r)' = Over(r),
         Due(r) # {} => key'[r] = key[r], Ledger, Rings,
         UNCHANGED <<callLeft, kept, rung>>
  PROVE  Ledger' /\ Rings'
<1>1. \A k : Open(k)' = Open(k) /\ Done(k)' = Done(k)
  BY OpenFrame
<1> QED BY <1>1 DEF Ledger, Rings

\* OwnFrame: a step that adds no message to deliver and moves no binding.
LEMMA OwnFrame ==
  ASSUME NEW r \in Requests, Only(r), UNCHANGED <<owner, seen, clock>>, Leased,
         \A t \in Tokens, b \in Times : Pending(r, t, b)' => Pending(r, t, b) /\ key'[r] = key[r]
  PROVE  Leased'
<1>1. \A q \in Requests, t \in Tokens, b \in Times :
        Pending(q, t, b)' => Pending(q, t, b) /\ key'[q] = key[q]
  BY DEF Only, Pending
<1> QED BY <1>1 DEF Leased, Recent

-----------------------------------------------------------------------------
(* Before the loop.                                                        *)

\* NothingDue: a request without results holds no charge and delivers
\* nothing.
LEMMA NothingDue ==
  ASSUME NEW r \in Requests, slots[r] = << >>, owed[r] = {}, pc[r] # "bind"
  PROVE  Due(r) = {} /\ Over(r) = {} /\ \A t \in Tokens, b \in Times : ~Pending(r, t, b)
<1>1. DOMAIN slots[r] = {}
  OBVIOUS
<1>2. Charged(slots[r]) = {}
  BY <1>1 DEF Charged
<1> QED BY <1>1, <1>2 DEF Due, Over, Pending

\* EarlyStep: a step that starts and ends outside the loop.
LEMMA EarlyStep ==
  ASSUME IInv, NEW r \in Requests, Only(r),
         pc[r] \in {"idle", "issue", "admit", "decode"},
         pc'[r] \in {"idle", "issue", "admit", "decode", "parse"},
         input'[r] = << >>, slots'[r] = << >>, owed'[r] = {},
         UNCHANGED <<owner, seen, clock, callLeft, kept, rung>>,
         nkeys' \in Nat, nkeys <= nkeys', Keyed(r)'
  PROVE  (\A q \in Requests : Sound(q)') /\ Leased' /\ Ledger' /\ Rings'
<1>1. Sound(r) /\ nkeys \in Nat
  BY RelayAssumption DEF IInv, TypeOK
<1>2. slots[r] = << >> /\ owed[r] = {} /\ pc[r] # "bind"
  BY <1>1 DEF Sound, Early, Busy
<1>3. Due(r) = {} /\ Over(r) = {} /\ \A t \in Tokens, b \in Times : ~Pending(r, t, b)
  BY <1>2, NothingDue
<1>4. DOMAIN slots'[r] = {} /\ DOMAIN input'[r] = {}
  OBVIOUS
<1>5. Charged(slots[r])' = {}
  BY <1>4 DEF Charged
<1>6. (Due(r) = {})' /\ (Over(r) = {})' /\ \A t \in Tokens, b \in Times : ~Pending(r, t, b)'
  BY <1>4, <1>5 DEF Due, Over, Pending
<1>7. Sound(r)'
  BY <1>4 DEF Sound, Early, Reported, Binding, Paid, Placed, Busy, Indexed
<1>8. \A q \in Requests : Sound(q)'
  BY <1>1, <1>7, SoundFrame DEF IInv
<1>9. Leased'
  BY <1>6, OwnFrame DEF IInv
<1>10. Ledger' /\ Rings'
  BY <1>3, <1>6, LedgerFrame DEF IInv
<1> QED BY <1>8, <1>9, <1>10

\* Closed: what Close does to the handler's variables.
LEMMA Closed ==
  ASSUME TypeOK, NEW r \in Requests, Close(r)
  PROVE  /\ Only(r) /\ pc'[r] = "idle" /\ key'[r] = NoKey
         /\ input'[r] = << >> /\ slots'[r] = << >> /\ owed'[r] = {}
         /\ pc' \in [Requests -> {"idle", "issue", "admit", "decode", "parse",
                                  "bind", "dispatch", "refund"}]
         /\ key' \in [Requests -> 0..nkeys]
         /\ input' \in [Requests -> Seq(Messages)]
         /\ slots' \in [Requests -> Seq(Slots)]
         /\ DOMAIN owed' = Requests
         /\ \A q \in Requests : /\ Len(slots'[q]) <= Len(input'[q])
                                /\ Len(input'[q]) <= MaxMessages
                                /\ owed'[q] \subseteq DOMAIN slots'[q]
<1>1. /\ Only(r) /\ pc'[r] = "idle" /\ key'[r] = NoKey
      /\ input'[r] = << >> /\ slots'[r] = << >> /\ owed'[r] = {}
      /\ DOMAIN owed' = Requests
  BY DEF Close, Goto, Only, TypeOK
<1>2. pc' \in [Requests -> {"idle", "issue", "admit", "decode", "parse",
                            "bind", "dispatch", "refund"}]
  BY DEF Close, Goto, TypeOK
<1>3. key' \in [Requests -> 0..nkeys]
  BY RelayAssumption DEF Close, TypeOK, NoKey
<1>4. << >> \in Seq(Messages) /\ << >> \in Seq(Slots) /\ Len(<< >>) = 0
  OBVIOUS
<1>5. input' \in [Requests -> Seq(Messages)] /\ slots' \in [Requests -> Seq(Slots)]
  BY <1>4 DEF Close, TypeOK
<1>6. ASSUME NEW q \in Requests
      PROVE  /\ Len(slots'[q]) <= Len(input'[q])
             /\ Len(input'[q]) <= MaxMessages
             /\ owed'[q] \subseteq DOMAIN slots'[q]
  <2>1. CASE q = r
    BY <1>1, <1>4, <2>1, RelayAssumption
  <2>2. CASE q # r
    BY <1>1, <2>2 DEF Only, TypeOK
  <2> QED BY <2>1, <2>2
<1> QED BY <1>1, <1>2, <1>3, <1>5, <1>6

\* RegisterStep: registerLim is charged.
LEMMA RegisterStep ==
  ASSUME IInv, NEW r \in Requests, Register(r)
  PROVE  IInv'
<1>1. /\ TypeOK /\ Sound(r)
  BY DEF IInv
<1>2. TypeOK'
  BY <1>1, RelayAssumption DEF Register, Goto, TypeOK, history, lease
<1>3. /\ Only(r) /\ pc[r] = "idle" /\ pc'[r] = "issue"
      /\ UNCHANGED <<owner, seen, clock, callLeft, kept, rung, nkeys, input, slots, owed>>
  BY <1>1 DEF Register, Goto, TypeOK, Only, history, lease
<1>4. input'[r] = << >> /\ slots'[r] = << >> /\ owed'[r] = {}
  BY <1>1, <1>3 DEF Sound, Early, Busy
<1>5. Keyed(r)'
  BY <1>3 DEF Keyed
<1>6. nkeys' \in Nat /\ nkeys <= nkeys'
  BY <1>1, <1>3, RelayAssumption DEF TypeOK
<1> QED BY <1>2, <1>3, <1>4, <1>5, <1>6, EarlyStep DEF IInv

\* IssueStep: the store mints a key, or does not.
LEMMA IssueStep ==
  ASSUME IInv, NEW r \in Requests, Issue(r)
  PROVE  IInv'
<1>1. /\ TypeOK /\ Sound(r)
  BY DEF IInv
<1>2. /\ nkeys' \in 0..MaxRegistrations /\ nkeys <= nkeys' /\ nkeys' \in Nat
      /\ nkeys \in Nat
  BY <1>1, RelayAssumption DEF Issue, TypeOK, AllKeys
<1>3. 1..nkeys \subseteq 1..nkeys' /\ 0..nkeys \subseteq 0..nkeys'
  BY <1>2
<1>4. /\ Only(r) /\ pc[r] = "issue" /\ pc'[r] = "idle"
      /\ UNCHANGED <<revoked, owner, seen, clock, regLeft, sendLeft, callLeft, kept, rung,
                     key, input, slots, owed>>
  BY <1>1 DEF Issue, Goto, TypeOK, Only, history, lease
<1>5. TypeOK'
  <2>1. owner' \in [Tokens -> 0..nkeys'] /\ key' \in [Requests -> 0..nkeys']
    BY <1>1, <1>3, <1>4 DEF TypeOK
  <2>2. pc' \in [Requests -> {"idle", "issue", "admit", "decode", "parse",
                              "bind", "dispatch", "refund"}]
    BY <1>1 DEF Issue, Goto, TypeOK
  <2> QED BY <1>1, <1>2, <1>3, <1>4, <2>1, <2>2 DEF TypeOK
<1>6. input'[r] = << >> /\ slots'[r] = << >> /\ owed'[r] = {}
  BY <1>1, <1>4 DEF Sound, Early, Busy
<1>7. Keyed(r)'
  BY <1>4 DEF Keyed
<1> QED BY <1>2, <1>4, <1>5, <1>6, <1>7, EarlyStep DEF IInv

\* VerifyStep: the request gets its key.
LEMMA VerifyStep ==
  ASSUME IInv, NEW r \in Requests, NEW k \in 1..nkeys, Verify(r, k)
  PROVE  IInv'
<1>1. /\ TypeOK /\ Sound(r)
  BY DEF IInv
<1>2. nkeys \in Nat /\ k \in 0..nkeys
  BY <1>1, RelayAssumption DEF TypeOK
<1>3. TypeOK'
  BY <1>1, <1>2 DEF Verify, Goto, TypeOK, history, lease, shared
<1>4. /\ Only(r) /\ pc[r] = "idle" /\ pc'[r] = "admit" /\ key'[r] = k
      /\ UNCHANGED <<owner, seen, clock, callLeft, kept, rung, nkeys, input, slots, owed>>
  BY <1>1 DEF Verify, Goto, TypeOK, Only, history, lease, shared
<1>5. input'[r] = << >> /\ slots'[r] = << >> /\ owed'[r] = {}
  BY <1>1, <1>4 DEF Sound, Early, Busy
<1>6. Keyed(r)'
  BY <1>4 DEF Keyed
<1>7. nkeys' \in Nat /\ nkeys <= nkeys'
  BY <1>2, <1>4
<1> QED BY <1>3, <1>4, <1>5, <1>6, <1>7, EarlyStep DEF IInv

\* AdmitStep: sendLim is charged, or the request ends.
LEMMA AdmitStep ==
  ASSUME IInv, NEW r \in Requests, Admit(r)
  PROVE  IInv'
<1>1. /\ TypeOK /\ Sound(r)
  BY DEF IInv
<1>2. /\ nkeys \in Nat /\ nkeys' = nkeys /\ pc[r] = "admit"
      /\ UNCHANGED <<revoked, owner, seen, clock, regLeft, callLeft, kept, rung>>
  BY <1>1, RelayAssumption DEF Admit, TypeOK, history, lease
<1>3. key[r] \in AllKeys /\ key[r] \in 1..nkeys
  BY <1>1, <1>2, RelayAssumption DEF Sound, Keyed, TypeOK, AllKeys
<1>4. input[r] = << >> /\ slots[r] = << >> /\ owed[r] = {}
  BY <1>1, <1>2 DEF Sound, Early, Busy
<1>5. CASE /\ sendLeft[key[r]] > 0
           /\ sendLeft' = [sendLeft EXCEPT ![key[r]] = @ - 1]
           /\ Goto(r, "decode")
           /\ UNCHANGED <<key, input, slots, owed>>
  <2>1. sendLeft' \in [AllKeys -> 0..SendBurst]
    BY <1>1, <1>3, <1>5, RelayAssumption DEF TypeOK
  <2>2. TypeOK'
    BY <1>1, <1>2, <1>5, <2>1 DEF TypeOK, Goto
  <2>3. Only(r) /\ pc'[r] = "decode" /\ Keyed(r)'
    BY <1>1, <1>2, <1>3, <1>5 DEF TypeOK, Goto, Only, Keyed
  <2> QED BY <1>2, <1>4, <1>5, <2>2, <2>3, EarlyStep DEF IInv
<1>6. CASE sendLeft[key[r]] = 0 /\ Close(r) /\ UNCHANGED sendLeft
  <2>1. TypeOK'
    BY <1>1, <1>2, <1>6, Closed DEF TypeOK
  <2>2. /\ Only(r) /\ pc'[r] = "idle"
        /\ input'[r] = << >> /\ slots'[r] = << >> /\ owed'[r] = {}
    BY <1>1, <1>6, Closed
  <2>3. Keyed(r)'
    BY <2>2 DEF Keyed
  <2> QED BY <1>2, <2>1, <2>2, <2>3, EarlyStep DEF IInv
<1> QED BY <1>5, <1>6 DEF Admit

\* DecodeStep: the batch is accepted, or the request ends.
LEMMA DecodeStep ==
  ASSUME IInv, NEW r \in Requests, Decode(r)
  PROVE  IInv'
<1>1. /\ TypeOK /\ Sound(r)
  BY DEF IInv
<1>2. /\ nkeys \in Nat /\ nkeys' = nkeys /\ pc[r] = "decode"
      /\ UNCHANGED <<revoked, owner, seen, clock, regLeft, sendLeft, callLeft, kept, rung>>
  BY <1>1, RelayAssumption DEF Decode, TypeOK, history, lease, shared
<1>3. key[r] \in 1..nkeys
  BY <1>1, <1>2 DEF Sound, Keyed
<1>4. input[r] = << >> /\ slots[r] = << >> /\ owed[r] = {}
  BY <1>1, <1>2 DEF Sound, Early, Busy
<1>5. CASE Goto(r, "parse") /\ UNCHANGED <<key, input, slots, owed>>
  <2>1. TypeOK'
    BY <1>1, <1>2, <1>5 DEF TypeOK, Goto
  <2>2. Only(r) /\ pc'[r] = "parse" /\ Keyed(r)'
    BY <1>1, <1>2, <1>3, <1>5 DEF TypeOK, Goto, Only, Keyed
  <2> QED BY <1>2, <1>4, <1>5, <2>1, <2>2, EarlyStep DEF IInv
<1>6. CASE Close(r)
  <2>1. TypeOK'
    BY <1>1, <1>2, <1>6, Closed DEF TypeOK
  <2>2. /\ Only(r) /\ pc'[r] = "idle"
        /\ input'[r] = << >> /\ slots'[r] = << >> /\ owed'[r] = {}
    BY <1>1, <1>6, Closed
  <2>3. Keyed(r)'
    BY <2>2 DEF Keyed
  <2> QED BY <1>2, <2>1, <2>2, <2>3, EarlyStep DEF IInv
<1> QED BY <1>5, <1>6 DEF Decode

-----------------------------------------------------------------------------
(* One turn of the loop.                                                   *)

\* Charge: one more charge of request r.
LEMMA Charge ==
  ASSUME IInv, NEW r \in Requests, Only(r), NEW n \in Nat, n \notin Due(r),
         Due(r)' = Due(r) \cup {n}, Over(r)' = Over(r),
         UNCHANGED <<key, kept, rung>>,
         key[r] \in AllKeys, callLeft[key[r]] > 0,
         callLeft' = [callLeft EXCEPT ![key[r]] = @ - 1]
  PROVE  Ledger' /\ Rings'
<1>0. PICK c \in AllKeys : c = key[r]
  OBVIOUS
<1>1. \A q \in Requests : /\ q # r => Due(q)' = Due(q)
                          /\ Over(q)' = Over(q)
  BY DEF Only, Due, Over, Last
<1>2. \A k : Done(k)' = Done(k)
  BY <1>1 DEF Done
<1>3. Rings'
  BY <1>2 DEF IInv, Rings
<1>4. \A k : k # c => Open(k)' = Open(k)
  BY <1>0, <1>1 DEF Open
<1>5. Open(c)' = Open(c) \cup {<<r, n>>}
  BY <1>0, <1>1 DEF Open
<1>6. <<r, n>> \notin Open(c)
  BY DEF Open
<1>7. IsFiniteSet(Open(c)) /\ callLeft[c] + kept[c] + Cardinality(Open(c)) = CallBurst
  BY DEF IInv, Ledger
<1>8. /\ IsFiniteSet(Open(c)')
      /\ Cardinality(Open(c)') = Cardinality(Open(c)) + 1
  BY <1>5, <1>6, <1>7, FS_AddElement
<1>9. Cardinality(Open(c)) \in Nat
  BY <1>7, FS_CardinalityType
<1>10. callLeft[c] \in Nat /\ kept[c] \in Nat /\ c \in AllKeys
  BY RelayAssumption DEF IInv, TypeOK
<1>11. callLeft'[c] = callLeft[c] - 1
  BY <1>0, <1>10 DEF IInv, TypeOK
<1>12. ASSUME NEW k \in AllKeys
       PROVE  /\ IsFiniteSet(Open(k)')
              /\ callLeft'[k] + kept'[k] + Cardinality(Open(k)') = CallBurst
  <2>1. CASE k = c
    BY <1>7, <1>8, <1>9, <1>10, <1>11, <2>1
  <2>2. CASE k # c
    <3>1. callLeft'[k] = callLeft[k] /\ kept'[k] = kept[k]
      BY <1>0, <2>2 DEF IInv, TypeOK
    <3> QED BY <1>4, <2>2, <3>1 DEF IInv, Ledger
  <2> QED BY <2>1, <2>2
<1> QED BY <1>3, <1>12 DEF Ledger

\* ParseEffect: what the three ways through Parse have in common.
LEMMA ParseEffect ==
  ASSUME IInv, NEW r \in Requests, NEW m \in Messages, Parse(r, m)
  PROVE  /\ TypeOK /\ Sound(r) /\ Only(r) /\ pc[r] = "parse"
         /\ input[r] \in Seq(Messages) /\ slots[r] \in Seq(Slots)
         /\ Len(input[r]) \in Nat /\ Len(input[r]) < MaxMessages
         /\ Len(slots[r]) \in Nat /\ Len(slots[r]) <= Len(input[r])
         /\ input'[r] = Append(input[r], m)
         /\ input' \in [Requests -> Seq(Messages)]
         /\ Len(input'[r]) = Len(input[r]) + 1
         /\ DOMAIN input'[r] = DOMAIN input[r] \cup {Len(input[r]) + 1}
         /\ DOMAIN input[r] = 1..Len(input[r])
         /\ DOMAIN slots[r] = 1..Len(slots[r])
         /\ \A p \in DOMAIN input[r] : input'[r][p] = input[r][p]
         /\ input'[r][Len(input[r]) + 1] = m
         /\ nkeys \in Nat /\ key[r] \in 1..nkeys /\ key[r] \in AllKeys
         /\ UNCHANGED <<nkeys, revoked, owner, seen, clock, regLeft, sendLeft, key, owed,
                        rung, kept>>
<1>1. TypeOK /\ Sound(r) /\ pc[r] = "parse"
  BY DEF IInv, Parse
<1>2. /\ input[r] \in Seq(Messages) /\ slots[r] \in Seq(Slots)
      /\ Len(slots[r]) <= Len(input[r]) /\ Len(input[r]) < MaxMessages
      /\ nkeys \in Nat
  BY <1>1, RelayAssumption DEF TypeOK, Parse
<1>3. /\ Len(input[r]) \in Nat /\ Len(slots[r]) \in Nat
      /\ DOMAIN input[r] = 1..Len(input[r]) /\ DOMAIN slots[r] = 1..Len(slots[r])
  BY <1>2, SeqFacts
<1>4. /\ input' = [input EXCEPT ![r] = Append(input[r], m)]
      /\ UNCHANGED <<nkeys, revoked, owner, seen, clock, regLeft, sendLeft, key, owed,
                     rung, kept>>
  BY DEF Parse, history, lease
<1>5. Append(input[r], m) \in Seq(Messages)
  BY <1>2, AppendFacts
<1>6. input'[r] = Append(input[r], m) /\ input' \in [Requests -> Seq(Messages)]
  BY <1>1, <1>4, <1>5 DEF TypeOK
<1>7. /\ Len(input'[r]) = Len(input[r]) + 1
      /\ DOMAIN input'[r] = DOMAIN input[r] \cup {Len(input[r]) + 1}
      /\ \A p \in DOMAIN input[r] : input'[r][p] = input[r][p]
      /\ input'[r][Len(input[r]) + 1] = m
  BY <1>2, <1>6, AppendFacts
<1>8. key[r] \in 1..nkeys /\ key[r] \in AllKeys
  BY <1>1, <1>2, RelayAssumption DEF Sound, Keyed, TypeOK, AllKeys
<1>9. Only(r)
  <2>1. \A q \in Requests : q # r => input'[q] = input[q]
    BY <1>1, <1>4 DEF TypeOK
  <2>2. \A q \in Requests : q # r => slots'[q] = slots[q] /\ pc'[q] = pc[q]
    BY <1>1 DEF Parse, Goto, TypeOK
  <2> QED BY <1>4, <2>1, <2>2 DEF Only
<1> QED BY <1>1, <1>2, <1>3, <1>4, <1>6, <1>7, <1>8, <1>9

\* ParseSkips: an empty token.
LEMMA ParseSkips ==
  ASSUME IInv, NEW r \in Requests, NEW m \in Messages, Parse(r, m),
         m.tok = NoToken, UNCHANGED <<pc, slots, callLeft>>
  PROVE  IInv'
<1>1. /\ TypeOK /\ Sound(r) /\ Only(r) /\ pc[r] = "parse" /\ nkeys \in Nat
      /\ Len(input'[r]) = Len(input[r]) + 1 /\ Len(input[r]) < MaxMessages
      /\ Len(input[r]) \in Nat /\ Len(slots[r]) <= Len(input[r])
      /\ Len(slots[r]) \in Nat
      /\ input' \in [Requests -> Seq(Messages)]
      /\ UNCHANGED <<nkeys, revoked, owner, seen, clock, regLeft, sendLeft, key, owed,
                     rung, kept>>
  BY ParseEffect
<1>2. TypeOK'
  <2>1. ASSUME NEW q \in Requests
        PROVE  /\ Len(slots[q]) <= Len(input'[q])
               /\ Len(input'[q]) <= MaxMessages
    <3>1. CASE q = r
      BY <1>1, <3>1, RelayAssumption
    <3>2. CASE q # r
      BY <1>1, <3>2 DEF Only, TypeOK
    <3> QED BY <3>1, <3>2
  <2> QED BY <1>1, <2>1 DEF TypeOK
<1>3. /\ DOMAIN input'[r] = DOMAIN input[r] \cup {Len(input[r]) + 1}
      /\ \A p \in DOMAIN input[r] : input'[r][p] = input[r][p]
      /\ input'[r][Len(input[r]) + 1] = m
  BY ParseEffect
<1>4. Placed(r)'
  BY <1>1, <1>3 DEF Sound, Placed
<1>5. Keyed(r)' /\ Early(r)' /\ Reported(r)' /\ Binding(r)' /\ Paid(r)'
      /\ Indexed(slots[r])'
  BY <1>1 DEF Sound, Keyed, Early, Reported, Binding, Paid, Busy, Indexed
<1>6. Sound(r)'
  BY <1>4, <1>5 DEF Sound
<1>7. \A q \in Requests : Sound(q)'
  BY <1>1, <1>6, SoundFrame DEF IInv
<1>8. Due(r)' = Due(r) /\ Over(r)' = Over(r)
  BY <1>1 DEF Due, Over
<1>9. Ledger' /\ Rings'
  BY <1>1, <1>8, LedgerFrame DEF IInv
<1>10. Leased'
  BY <1>1, OwnFrame DEF IInv, Pending
<1> QED BY <1>2, <1>7, <1>9, <1>10 DEF IInv

\* Adds(r, x): request r gets one more result, x.
Adds(r, x) == slots' = [slots EXCEPT ![r] = Append(@, x)]

\* Of(x, m, p, c, s): x is a result of message m at place p, charged or not,
\* with status s.
Of(x, m, p, c, s) ==
  /\ x \in Slots /\ x.tok = m.tok /\ x.call = (m.kind = "call")
  /\ x.charged = c /\ x.status = s /\ x.pos = p

\* Grows(r, m, p): message m is the last of r's batch, at place p, and what
\* comes before it has been there and is not being bound.
Grows(r, m, p) ==
  /\ DOMAIN input'[r] = 1..p /\ input'[r][p] = m
  /\ \A j \in 1..p : j # p => /\ j \in DOMAIN input[r]
                              /\ input'[r][j] = input[r][j]
                              /\ pc[r] = "bind" => j # Len(input[r])
  /\ \A j \in DOMAIN input[r] : j \in 1..p /\ input'[r][j] = input[r][j]

\* Points(r, x): if x has an item, that points at the next place of r's
\* results.
Points(r, x) == /\ x.item \in {0, Len(slots[r]) + 1}
                /\ x.status = "unset" => x.item = Len(slots[r]) + 1

\* Longer(r, x): what the results of r are then.
Longer(r, x) ==
  /\ slots' \in [Requests -> Seq(Slots)]
  /\ Len(slots'[r]) = Len(slots[r]) + 1
  /\ Len(slots[r]) \in Nat
  /\ DOMAIN slots[r] = 1..Len(slots[r])
  /\ DOMAIN slots'[r] = DOMAIN slots[r] \cup {Len(slots[r]) + 1}
  /\ Len(slots[r]) + 1 \notin DOMAIN slots[r]
  /\ \A i \in DOMAIN slots[r] : slots'[r][i] = slots[r][i]
  /\ slots'[r][Len(slots[r]) + 1] = x
  /\ \A q \in Requests : q # r => slots'[q] = slots[q]

\* Appended: the results of r after Adds.
LEMMA Appended ==
  ASSUME TypeOK, NEW r \in Requests, NEW x \in Slots, Adds(r, x)
  PROVE  Longer(r, x)
<1>1. slots[r] \in Seq(Slots)
  BY DEF TypeOK
<1>2. /\ Append(slots[r], x) \in Seq(Slots)
      /\ Len(Append(slots[r], x)) = Len(slots[r]) + 1
      /\ DOMAIN Append(slots[r], x) = DOMAIN slots[r] \cup {Len(slots[r]) + 1}
      /\ Len(slots[r]) + 1 \notin DOMAIN slots[r]
      /\ \A i \in DOMAIN slots[r] : Append(slots[r], x)[i] = slots[r][i]
      /\ Append(slots[r], x)[Len(slots[r]) + 1] = x
  BY <1>1, AppendFacts
<1>3. slots' = [slots EXCEPT ![r] = Append(slots[r], x)]
  BY DEF Adds
<1>4. /\ slots' \in [Requests -> Seq(Slots)]
      /\ slots'[r] = Append(slots[r], x)
      /\ \A q \in Requests : q # r => slots'[q] = slots[q]
  BY <1>2, <1>3 DEF TypeOK
<1>5. Len(slots[r]) \in Nat /\ DOMAIN slots[r] = 1..Len(slots[r])
  BY <1>1, SeqFacts
<1> QED BY <1>2, <1>4, <1>5 DEF Longer

\* SlotFacts: a result without an item.
LEMMA SlotFacts ==
  ASSUME NEW m \in Messages, m.tok # NoToken, NEW p \in 1..MaxMessages,
         NEW c \in BOOLEAN, NEW s \in Statuses
  PROVE  /\ Of(Slot(m, p, c, s), m, p, c, s)
         /\ Slot(m, p, c, s).item = 0 /\ Slot(m, p, c, s).bound = 0
<1>1. m.tok \in Tokens
  BY DEF Messages
<1>2. 0 \in 0..MaxMessages /\ 0 \in 0..TimeBound
  BY RelayAssumption
<1> QED BY <1>1, <1>2 DEF Of, Slot, Slots

\* ItemFacts: a result that dispatch will fill.
LEMMA ItemFacts ==
  ASSUME TypeOK, NEW r \in Requests, NEW m \in Messages, m.tok # NoToken,
         Len(input[r]) \in 1..MaxMessages, Len(slots[r]) + 1 \in 1..MaxMessages
  PROVE  /\ Of(Item(r, m), m, Len(input[r]), m.kind = "call", "unset")
         /\ Item(r, m).item = Len(slots[r]) + 1 /\ Item(r, m).bound = clock
<1> DEFINE x == Slot(m, Len(input[r]), m.kind = "call", "unset")
<1>1. "unset" \in Statuses /\ (m.kind = "call") \in BOOLEAN
  BY DEF Statuses
<1>2. Of(x, m, Len(input[r]), m.kind = "call", "unset")
  BY <1>1, SlotFacts
<1>3. Len(slots[r]) + 1 \in 0..MaxMessages /\ clock \in 0..TimeBound
  BY RelayAssumption DEF TypeOK
<1>4. Item(r, m) = [x EXCEPT !.item = Len(slots[r]) + 1, !.bound = clock]
  BY DEF Item, resultIdx
<1> HIDE DEF x
<1> QED BY <1>2, <1>3, <1>4 DEF Of, Slots

\* UnattemptedIs: the calls that were never attempted, where an item points
\* at its own result.
LEMMA UnattemptedIs ==
  ASSUME NEW s \in Seq(Slots), Indexed(s)
  PROVE  Unattempted(s) =
           {i \in DOMAIN s : s[i].call /\ s[i].status = "not_attempted"}
<1>1. \A i \in DOMAIN s : i # 0
  OBVIOUS
<1> QED BY <1>1 DEF Unattempted, Indexed

\* NewResult: the result that Appended adds, in a request that has not been
\* marked yet.
LEMMA NewResult ==
  ASSUME TypeOK, NEW r \in Requests, Sound(r), pc[r] \in {"parse", "bind"},
         NEW m \in Messages, m.tok # NoToken,
         NEW p \in 1..MaxMessages, NEW c \in BOOLEAN,
         NEW s \in Statuses, s # "not_attempted",
         NEW x \in Slots, Of(x, m, p, c, s), Adds(r, x),
         Points(r, x),
         c => m.kind = "call", m.kind = "call" /\ s = "unset" => c,
         pc'[r] = "parse", UNCHANGED <<key, nkeys, owed>>,
         \A i \in DOMAIN slots[r] : slots[r][i].pos < p,
         Grows(r, m, p)
  PROVE  /\ Sound(r)'
         /\ Charged(slots[r])' =
              IF c THEN Charged(slots[r]) \cup {Len(slots[r]) + 1}
              ELSE Charged(slots[r])
         /\ Over(r)' = IF c /\ s # "unset" THEN Over(r) \cup {Len(slots[r]) + 1}
                       ELSE Over(r)
         /\ Len(slots[r]) + 1 \notin Charged(slots[r])
<1> DEFINE n == Len(slots[r]) + 1
<1>1. /\ Len(slots[r]) \in Nat
      /\ DOMAIN slots[r] = 1..Len(slots[r])
      /\ DOMAIN slots'[r] = DOMAIN slots[r] \cup {n}
      /\ n \notin DOMAIN slots[r]
      /\ \A i \in DOMAIN slots[r] : slots'[r][i] = slots[r][i]
      /\ slots'[r][n].tok = m.tok
      /\ slots'[r][n].call = (m.kind = "call")
      /\ slots'[r][n].charged = c
      /\ slots'[r][n].status = s
      /\ slots'[r][n].pos = p
      /\ slots'[r][n].item \in {0, n}
      /\ s = "unset" => slots'[r][n].item = n
  <2>1. Longer(r, x)
    BY Appended DEF Of
  <2> QED BY <2>1 DEF Longer, Of, Points
<1> HIDE DEF n
<1>2. Keyed(r)' /\ Early(r)' /\ Binding(r)'
  BY DEF Sound, Keyed, Early, Binding, Busy
<1>3. Reported(r)'
  BY <1>1 DEF Sound, Reported
<1>4. Paid(r)'
  BY <1>1 DEF Sound, Paid
<1>5. Placed(r)'
  <2>1. ASSUME NEW i \in DOMAIN slots'[r]
        PROVE  /\ slots'[r][i].pos \in DOMAIN input'[r]
               /\ slots'[r][i].tok = input'[r][slots'[r][i].pos].tok
    <3>1. CASE i = n
      BY <1>1, <3>1 DEF Grows
    <3>2. CASE i # n
      <4>1. /\ i \in DOMAIN slots[r] /\ slots'[r][i] = slots[r][i]
            /\ slots[r][i].pos \in DOMAIN input[r]
            /\ slots[r][i].tok = input[r][slots[r][i].pos].tok
        BY <1>1, <3>2 DEF Sound, Placed
      <4> QED BY <4>1 DEF Grows
    <3> QED BY <3>1, <3>2
  <2>2. ASSUME NEW i \in DOMAIN slots'[r], NEW j \in DOMAIN slots'[r], i < j
        PROVE  slots'[r][i].pos < slots'[r][j].pos
    <3>1. i \in DOMAIN slots[r]
      BY <1>1, <2>2 DEF n
    <3>2. CASE j = n
      BY <1>1, <3>1, <3>2
    <3>3. CASE j # n
      BY <1>1, <2>2, <3>1, <3>3 DEF Sound, Placed
    <3> QED BY <3>2, <3>3
  <2>3. ASSUME NEW j \in DOMAIN input'[r], input'[r][j].tok # NoToken
        PROVE  \E i \in DOMAIN slots'[r] : slots'[r][i].pos = j
    <3>1. CASE j = p
      BY <1>1, <3>1
    <3>2. CASE j # p
      <4>1. /\ j \in DOMAIN input[r] /\ input[r][j].tok # NoToken
            /\ ~(pc[r] = "bind" /\ j = Len(input[r]))
        BY <2>3, <3>2 DEF Grows
      <4>2. PICK i \in DOMAIN slots[r] : slots[r][i].pos = j
        BY <4>1 DEF Sound, Placed
      <4> QED BY <1>1, <4>2
    <3> QED BY <3>1, <3>2
  <2> QED BY <2>1, <2>2, <2>3 DEF Placed
<1>6. Charged(slots[r])' = IF c THEN Charged(slots[r]) \cup {n} ELSE Charged(slots[r])
  BY <1>1 DEF Charged
<1>7. n \notin Charged(slots[r])
  BY <1>1 DEF Charged
<1>8. Over(r)' = IF c /\ s # "unset" THEN Over(r) \cup {n} ELSE Over(r)
  BY <1>1, <1>6, <1>7 DEF Over, Charged
<1>9. Indexed(slots[r])'
  BY <1>1 DEF Sound, Indexed
<1> QED BY <1>2, <1>3, <1>4, <1>5, <1>6, <1>7, <1>8, <1>9 DEF Sound, n

\* ParseRefuses: a malformed message, or a call beyond the budget.
LEMMA ParseRefuses ==
  ASSUME IInv, NEW r \in Requests, NEW m \in Messages, Parse(r, m),
         m.tok # NoToken, UNCHANGED <<pc, callLeft>>,
         slots' = [slots EXCEPT ![r] =
                     Append(@, Slot(m, Len(input[r]) + 1, FALSE, "error"))]
  PROVE  IInv'
<1>1. /\ TypeOK /\ Sound(r) /\ Only(r) /\ pc[r] = "parse" /\ nkeys \in Nat
      /\ Len(input'[r]) = Len(input[r]) + 1 /\ Len(input[r]) < MaxMessages
      /\ Len(input[r]) \in Nat /\ Len(slots[r]) <= Len(input[r])
      /\ Len(slots[r]) \in Nat
      /\ input' \in [Requests -> Seq(Messages)]
      /\ UNCHANGED <<nkeys, revoked, owner, seen, clock, regLeft, sendLeft, key, owed,
                     rung, kept>>
  BY ParseEffect
<1>2. /\ DOMAIN input'[r] = DOMAIN input[r] \cup {Len(input[r]) + 1}
      /\ DOMAIN input[r] = 1..Len(input[r])
      /\ \A j \in DOMAIN input[r] : input'[r][j] = input[r][j]
      /\ input'[r][Len(input[r]) + 1] = m
  BY ParseEffect
<1>3. PICK p \in 1..MaxMessages : p = Len(input[r]) + 1
  BY <1>1, RelayAssumption
<1>4. /\ "error" \in Statuses /\ "error" # "not_attempted" /\ FALSE \in BOOLEAN
      /\ "error" # "unset"
  BY RelayAssumption DEF Statuses
<1>5. PICK x : x = Slot(m, p, FALSE, "error")
  OBVIOUS
<1>16. /\ Of(x, m, p, FALSE, "error") /\ Points(r, x) /\ x \in Slots
       /\ x.status = "error" /\ Adds(r, x)
  <2>1. Of(x, m, p, FALSE, "error") /\ x.item = 0
    BY <1>4, <1>5, SlotFacts
  <2>2. Adds(r, x)
    BY <1>3, <1>5 DEF Adds
  <2>3. x \in Slots /\ x.status = "error"
    BY <2>1 DEF Of
  <2> QED BY <2>1, <2>2, <2>3 DEF Points
<1>6. /\ slots' \in [Requests -> Seq(Slots)]
      /\ Len(slots'[r]) = Len(slots[r]) + 1
      /\ DOMAIN slots'[r] = DOMAIN slots[r] \cup {Len(slots[r]) + 1}
      /\ \A i \in DOMAIN slots[r] : slots'[r][i] = slots[r][i]
      /\ slots'[r][Len(slots[r]) + 1].status = "error"
      /\ \A q \in Requests : q # r => slots'[q] = slots[q]
  BY <1>1, <1>16, Appended DEF Longer
<1>7. TypeOK'
  <2>1. ASSUME NEW q \in Requests
        PROVE  /\ Len(slots'[q]) <= Len(input'[q])
               /\ Len(input'[q]) <= MaxMessages
               /\ owed'[q] \subseteq DOMAIN slots'[q]
    <3>1. CASE q = r
      BY <1>1, <1>6, <3>1, RelayAssumption DEF TypeOK
    <3>2. CASE q # r
      BY <1>1, <3>2 DEF Only, TypeOK
    <3> QED BY <3>1, <3>2
  <2> QED BY <1>1, <1>6, <2>1 DEF TypeOK
<1>8. \A i \in DOMAIN slots[r] : slots[r][i].pos < p
  BY <1>1, <1>2, <1>3 DEF Sound, Placed
<1>9. Grows(r, m, p)
  BY <1>1, <1>2, <1>3 DEF Grows
<1>10. /\ Sound(r)' /\ Charged(slots[r])' = Charged(slots[r])
       /\ Over(r)' = Over(r)
  BY <1>1, <1>4, <1>8, <1>9, <1>16, NewResult
<1>11. \A q \in Requests : Sound(q)'
  BY <1>1, <1>10, SoundFrame DEF IInv
<1>12. Due(r)' = Due(r)
  BY <1>1, <1>10 DEF Due
<1>13. Ledger' /\ Rings'
  BY <1>1, <1>10, <1>12, LedgerFrame DEF IInv
<1>14. \A t \in Tokens, b \in Times : Pending(r, t, b)' => Pending(r, t, b)
  BY <1>4, <1>6 DEF Pending
<1>15. Leased'
  BY <1>1, <1>14, OwnFrame DEF IInv
<1> QED BY <1>7, <1>11, <1>13, <1>15 DEF IInv

\* ParsePasses: the message goes on to BindToken; a call is charged.
LEMMA ParsePasses ==
  ASSUME IInv, NEW r \in Requests, NEW m \in Messages, Parse(r, m),
         m.tok # NoToken, m.kind # Malformed,
         m.kind = "call" => callLeft[key[r]] # 0,
         callLeft' = IF m.kind = "call"
                       THEN [callLeft EXCEPT ![key[r]] = @ - 1] ELSE callLeft,
         Goto(r, "bind"), UNCHANGED slots
  PROVE  IInv'
<1>1. /\ TypeOK /\ Sound(r) /\ Only(r) /\ pc[r] = "parse" /\ nkeys \in Nat
      /\ Len(input'[r]) = Len(input[r]) + 1 /\ Len(input[r]) < MaxMessages
      /\ Len(input[r]) \in Nat /\ Len(slots[r]) <= Len(input[r])
      /\ Len(slots[r]) \in Nat
      /\ input' \in [Requests -> Seq(Messages)]
      /\ key[r] \in AllKeys
      /\ UNCHANGED <<nkeys, revoked, owner, seen, clock, regLeft, sendLeft, key, owed,
                     rung, kept>>
  BY ParseEffect
<1>2. /\ DOMAIN input'[r] = DOMAIN input[r] \cup {Len(input[r]) + 1}
      /\ DOMAIN input[r] = 1..Len(input[r])
      /\ DOMAIN slots[r] = 1..Len(slots[r])
      /\ \A j \in DOMAIN input[r] : input'[r][j] = input[r][j]
      /\ input'[r][Len(input[r]) + 1] = m
  BY ParseEffect
<1>3. pc'[r] = "bind" /\ Last(r)' = m
  BY <1>1, <1>2 DEF Goto, Last, TypeOK
<1>4. callLeft' \in [AllKeys -> 0..CallBurst]
  BY <1>1, RelayAssumption DEF TypeOK
<1>5. TypeOK'
  <2>1. ASSUME NEW q \in Requests
        PROVE  /\ Len(slots[q]) <= Len(input'[q])
               /\ Len(input'[q]) <= MaxMessages
    <3>1. CASE q = r
      BY <1>1, <3>1, RelayAssumption
    <3>2. CASE q # r
      BY <1>1, <3>2 DEF Only, TypeOK
    <3> QED BY <3>1, <3>2
  <2>2. pc' \in [Requests -> {"idle", "issue", "admit", "decode", "parse",
                              "bind", "dispatch", "refund"}]
    BY <1>1 DEF Goto, TypeOK
  <2> QED BY <1>1, <1>4, <2>1, <2>2 DEF TypeOK
<1>6. \A i \in DOMAIN slots[r] : slots[r][i].pos \in 1..Len(input[r])
  BY <1>1, <1>2 DEF Sound, Placed
<1>7. Binding(r)'
  BY <1>1, <1>3, <1>6 DEF Binding
<1>8. Placed(r)'
  <2>1. ASSUME NEW i \in DOMAIN slots[r]
        PROVE  /\ slots[r][i].pos \in DOMAIN input'[r]
               /\ slots[r][i].tok = input'[r][slots[r][i].pos].tok
    BY <1>1, <1>2 DEF Sound, Placed
  <2>2. ASSUME NEW p \in DOMAIN input'[r], input'[r][p].tok # NoToken,
               p # Len(input'[r])
        PROVE  \E i \in DOMAIN slots[r] : slots[r][i].pos = p
    <3>1. p \in DOMAIN input[r] /\ input[r][p].tok # NoToken
      BY <1>1, <1>2, <2>2
    <3> QED BY <1>1, <3>1 DEF Sound, Placed
  <2> QED BY <1>1, <1>3, <2>1, <2>2 DEF Sound, Placed
<1>9. Keyed(r)' /\ Early(r)' /\ Reported(r)' /\ Paid(r)' /\ Indexed(slots[r])'
  BY <1>1, <1>3 DEF Sound, Keyed, Early, Reported, Paid, Busy, Indexed
<1>10. Sound(r)'
  BY <1>7, <1>8, <1>9 DEF Sound
<1>11. \A q \in Requests : Sound(q)'
  BY <1>1, <1>10, SoundFrame DEF IInv
<1>12. Over(r)' = Over(r)
  BY <1>1 DEF Over
<1>13. Due(r) = Charged(slots[r]) \cup owed[r]
  BY <1>1 DEF Due
<1>14. Leased'
  BY <1>1, OwnFrame DEF IInv, Pending
<1>15. Ledger' /\ Rings'
  <2>1. CASE m.kind = "call"
    <3>1. PICK n \in Nat : n = Len(slots[r]) + 1
      BY <1>1
    <3>2. Due(r)' = Due(r) \cup {n}
      BY <1>1, <1>3, <1>13, <2>1, <3>1 DEF Due
    <3>3. n \notin Due(r)
      BY <1>1, <1>2, <1>13, <3>1 DEF Charged, TypeOK
    <3>4. callLeft[key[r]] > 0
      BY <1>1, <2>1, RelayAssumption DEF TypeOK
    <3> QED BY <1>1, <1>12, <2>1, <3>2, <3>3, <3>4, Charge
  <2>2. CASE m.kind # "call"
    <3>1. Due(r)' = Due(r)
      BY <1>1, <1>3, <1>13, <2>2 DEF Due
    <3> QED BY <1>1, <1>12, <2>2, <3>1, LedgerFrame DEF IInv
  <2> QED BY <2>1, <2>2
<1> QED BY <1>5, <1>11, <1>14, <1>15 DEF IInv

\* ParseStep: a turn of the loop up to BindToken.
LEMMA ParseStep ==
  ASSUME IInv, NEW r \in Requests, NEW m \in Messages, Parse(r, m)
  PROVE  IInv'
<1>1. CASE m.tok = NoToken /\ UNCHANGED <<pc, slots, callLeft>>
  BY <1>1, ParseSkips
<1>2. CASE /\ m.tok # NoToken
           /\ slots' = [slots EXCEPT ![r] =
                          Append(@, Slot(m, Len(input[r]) + 1, FALSE, "error"))]
           /\ UNCHANGED <<pc, callLeft>>
  BY <1>2, ParseRefuses
<1>3. CASE /\ m.tok # NoToken
           /\ m.kind # Malformed /\ ~(m.kind = "call" /\ callLeft[key[r]] = 0)
           /\ callLeft' = IF m.kind = "call"
                            THEN [callLeft EXCEPT ![key[r]] = @ - 1] ELSE callLeft
           /\ Goto(r, "bind")
           /\ UNCHANGED slots
  BY <1>3, ParsePasses
<1> QED BY <1>1, <1>2, <1>3 DEF Parse

-----------------------------------------------------------------------------
(* Charges are settled.                                                    *)

\* DoneInOpen: what is settled is still held, so that Done is finite.
LEMMA DoneInOpen ==
  ASSUME NEW k
  PROVE  Done(k) \subseteq Open(k)
BY DEF Done, Open, Over, Due

\* Progress: a step that settles charges of r, and rings at most once and
\* then settles one that was not settled.
LEMMA Progress ==
  ASSUME IInv, NEW r \in Requests, Only(r), Due(r)' = Due(r), Over(r) \subseteq Over(r)',
         UNCHANGED <<key, callLeft, kept>>, key[r] \in AllKeys,
         \/ UNCHANGED rung
         \/ /\ rung' = [rung EXCEPT ![key[r]] = @ + 1]
            /\ \E n \in Nat : n \in Over(r)' /\ n \notin Over(r)
  PROVE  Ledger' /\ Rings'
<1>1. \A q \in Requests : /\ Due(q)' = Due(q) /\ Over(q) \subseteq Over(q)'
                          /\ q # r => Over(q)' = Over(q)
  BY DEF Only, Due, Over, Last
<1>2. \A k : Open(k)' = Open(k) /\ Done(k) \subseteq Done(k)'
  BY <1>1 DEF Open, Done
<1>3. Ledger'
  BY <1>2 DEF IInv, Ledger
<1>4. ASSUME NEW k \in AllKeys
      PROVE  rung'[k] <= kept'[k] + Cardinality(Done(k)')
  <2>1. Done(k)' \subseteq Open(k)
    <3>1. \A q \in Requests : Over(q)' \subseteq Due(q)'
      BY DEF Over, Due
    <3> QED BY <1>1, <3>1 DEF Done, Open
  <2>2. IsFiniteSet(Open(k)) /\ rung[k] <= kept[k] + Cardinality(Done(k))
    BY DEF IInv, Ledger, Rings
  <2>3. IsFiniteSet(Done(k)')
    BY <2>1, <2>2, FS_Subset
  <2>4. /\ IsFiniteSet(Done(k)) /\ Cardinality(Done(k)) <= Cardinality(Done(k)')
    BY <1>2, <2>3, FS_Subset
  <2>5. Cardinality(Done(k)) \in Nat /\ Cardinality(Done(k)') \in Nat
    BY <2>3, <2>4, FS_CardinalityType
  <2>6. rung[k] \in Nat /\ kept[k] \in Nat /\ kept'[k] = kept[k]
    BY DEF IInv, TypeOK
  <2>7. CASE rung'[k] = rung[k]
    BY <2>2, <2>4, <2>5, <2>6, <2>7
  <2>8. CASE rung'[k] # rung[k]
    <3>1. /\ k = key[r] /\ rung'[k] = rung[k] + 1
          /\ \E n \in Nat : n \in Over(r)' /\ n \notin Over(r)
      BY <2>8 DEF IInv, TypeOK
    <3>2. PICK n \in Nat : n \in Over(r)' /\ n \notin Over(r)
      BY <3>1
    <3>3. <<r, n>> \in Done(k)' /\ <<r, n>> \notin Done(k)
      BY <3>1, <3>2 DEF Done
    <3>4. Done(k) \cup {<<r, n>>} \subseteq Done(k)'
      BY <1>2, <3>3
    <3>5. Cardinality(Done(k) \cup {<<r, n>>}) = Cardinality(Done(k)) + 1
      BY <2>4, <3>3, FS_AddElement
    <3>6. Cardinality(Done(k) \cup {<<r, n>>}) <= Cardinality(Done(k)')
      BY <2>3, <3>4, FS_Subset
    <3> QED BY <2>2, <2>5, <2>6, <3>1, <3>5, <3>6
  <2> QED BY <2>7, <2>8
<1> QED BY <1>3, <1>4 DEF Rings

\* Binds(r, m, p, c, s, x): Bind adds result x, with status s, for message m
\* at place p, a call or not.
Binds(r, m, p, c, s, x) ==
  /\ pc[r] = "bind" /\ Goto(r, "parse")
  /\ m = Last(r) /\ p = Len(input[r]) /\ c = (m.kind = "call")
  /\ Of(x, m, p, c, s) /\ Adds(r, x) /\ Points(r, x)
  /\ UNCHANGED <<nkeys, revoked, clock, regLeft, sendLeft, callLeft, key, input,
                 owed, history>>
  /\ owner' \in [Tokens -> 0..nkeys] /\ seen' \in [Tokens -> Times]

\* BindResult: the result that Bind adds, whatever the store answered.
LEMMA BindResult ==
  ASSUME IInv, NEW r \in Requests, NEW m \in Messages, NEW p \in 1..MaxMessages,
         NEW c \in BOOLEAN, NEW s \in {"error", "forbidden", "unset"},
         NEW x \in Slots, Binds(r, m, p, c, s, x)
  PROVE  /\ TypeOK' /\ (\A q \in Requests : Sound(q)') /\ Ledger' /\ Rings'
         /\ Only(r)
         /\ \A t \in Tokens, b \in Times : Pending(r, t, b)' =>
              \/ Pending(r, t, b)
              \/ s = "unset" /\ t = m.tok /\ b = x.bound
<1>0. /\ pc[r] = "bind" /\ Goto(r, "parse")
      /\ m = Last(r) /\ p = Len(input[r]) /\ c = (m.kind = "call")
      /\ Of(x, m, p, c, s) /\ Adds(r, x) /\ Points(r, x)
      /\ UNCHANGED <<nkeys, revoked, clock, regLeft, sendLeft, callLeft, key, input,
                     owed, history>>
      /\ owner' \in [Tokens -> 0..nkeys] /\ seen' \in [Tokens -> Times]
  BY DEF Binds
<1> USE <1>0
<1>1. TypeOK /\ Sound(r) /\ m.tok # NoToken
  BY DEF IInv, Sound, Binding
<1>2. /\ input[r] \in Seq(Messages) /\ slots[r] \in Seq(Slots)
      /\ Len(slots[r]) < Len(input[r]) /\ Len(input[r]) <= MaxMessages
      /\ \A i \in DOMAIN slots[r] : slots[r][i].pos < Len(input[r])
      /\ nkeys \in Nat
  BY <1>1, RelayAssumption DEF TypeOK, Sound, Binding
<1>3. /\ Len(input[r]) \in Nat /\ Len(slots[r]) \in Nat
      /\ DOMAIN input[r] = 1..Len(input[r]) /\ DOMAIN slots[r] = 1..Len(slots[r])
  BY <1>2, SeqFacts
<1>4. p \in 1..MaxMessages
  OBVIOUS
<1>5. s \in Statuses /\ s # "not_attempted"
  BY RelayAssumption DEF Statuses
<1>6. /\ slots' \in [Requests -> Seq(Slots)]
      /\ Len(slots'[r]) = Len(slots[r]) + 1
      /\ DOMAIN slots'[r] = DOMAIN slots[r] \cup {Len(slots[r]) + 1}
      /\ \A i \in DOMAIN slots[r] : slots'[r][i] = slots[r][i]
      /\ slots'[r][Len(slots[r]) + 1].status = s
      /\ slots'[r][Len(slots[r]) + 1].tok = m.tok
      /\ slots'[r][Len(slots[r]) + 1].bound = x.bound
      /\ \A q \in Requests : q # r => slots'[q] = slots[q]
  <2>1. x \in Slots
    BY DEF Of
  <2>2. Longer(r, x)
    BY <1>1, <2>1, Appended
  <2> QED BY <2>2 DEF Longer, Of
<1>7. /\ pc'[r] = "parse" /\ \A q \in Requests : q # r => pc'[q] = pc[q]
      /\ pc' \in [Requests -> {"idle", "issue", "admit", "decode", "parse",
                               "bind", "dispatch", "refund"}]
  BY <1>1 DEF TypeOK, Goto
<1>8. Only(r)
  BY <1>6, <1>7 DEF Only
<1>9. TypeOK'
  <2>1. ASSUME NEW q \in Requests
        PROVE  /\ Len(slots'[q]) <= Len(input[q])
               /\ owed[q] \subseteq DOMAIN slots'[q]
    <3>1. CASE q = r
      BY <1>1, <1>2, <1>3, <1>6, <3>1 DEF TypeOK
    <3>2. CASE q # r
      BY <1>1, <1>6, <3>2 DEF TypeOK
    <3> QED BY <3>1, <3>2
  <2> QED BY <1>1, <1>6, <1>7, <2>1 DEF TypeOK, Times, history
<1>10. Grows(r, m, p)
  BY <1>3, <1>4 DEF Grows, Last
<1>11. /\ Sound(r)'
       /\ Charged(slots[r])' = IF c THEN Charged(slots[r]) \cup {Len(slots[r]) + 1}
                               ELSE Charged(slots[r])
       /\ Over(r)' = IF c /\ s # "unset" THEN Over(r) \cup {Len(slots[r]) + 1}
                     ELSE Over(r)
  BY <1>1, <1>2, <1>4, <1>5, <1>7, <1>10, NewResult
<1>12. \A q \in Requests : Sound(q)'
  <2>1. /\ nkeys \in Nat /\ nkeys' \in Nat /\ nkeys <= nkeys'
        /\ \A q \in Requests : Sound(q)
    BY <1>2 DEF IInv
  <2> QED BY <1>8, <1>11, <2>1, SoundFrame
<1>13. Due(r)' = Due(r) /\ Over(r) \subseteq Over(r)'
  BY <1>7, <1>11 DEF Due
<1>14. key[r] \in AllKeys
  BY <1>1, <1>2, RelayAssumption DEF Sound, Keyed, TypeOK, AllKeys
<1>15. Ledger' /\ Rings'
  BY <1>8, <1>13, <1>14, Progress DEF history, lease
<1>16. ASSUME NEW t \in Tokens, NEW b \in Times, Pending(r, t, b)'
       PROVE  Pending(r, t, b) \/ (s = "unset" /\ t = m.tok /\ b = x.bound)
  BY <1>6, <1>16 DEF Pending
<1> QED BY <1>8, <1>9, <1>12, <1>15, <1>16

\* BindStep: BindToken and the rest of the turn.
LEMMA BindStep ==
  ASSUME IInv, NEW r \in Requests, Bind(r)
  PROVE  IInv'
<1>1. TypeOK /\ Sound(r) /\ pc[r] = "bind" /\ Goto(r, "parse")
  BY DEF IInv, Bind
<1>2. UNCHANGED <<nkeys, revoked, clock, regLeft, sendLeft, callLeft, key, input,
                  owed, history>>
  BY DEF Bind
<1>3. /\ Last(r) \in Messages /\ Last(r).tok # NoToken
      /\ nkeys \in Nat /\ key[r] \in 1..nkeys
      /\ Len(input[r]) \in 1..MaxMessages /\ Len(slots[r]) + 1 \in 1..MaxMessages
  <2>1. /\ input[r] \in Seq(Messages) /\ slots[r] \in Seq(Slots)
        /\ Len(slots[r]) < Len(input[r]) /\ nkeys \in Nat
        /\ Len(input[r]) <= MaxMessages
    BY <1>1, RelayAssumption DEF TypeOK, Sound, Binding
  <2>2. Len(input[r]) \in DOMAIN input[r]
    BY <2>1
  <2>3. Len(input[r]) \in 1..MaxMessages /\ Len(slots[r]) + 1 \in 1..MaxMessages
    BY <2>1, SeqFacts, RelayAssumption
  <2> QED BY <1>1, <2>1, <2>2, <2>3, SeqFacts DEF Last, Sound, Keyed, Binding
<1>4. PICK m \in Messages : m = Last(r)
  BY <1>3
<1>5. PICK p \in 1..MaxMessages : p = Len(input[r])
  BY <1>3
<1>6. PICK c \in BOOLEAN : c = (m.kind = "call")
  OBVIOUS
<1>7. m.tok \in Tokens
  BY <1>3, <1>4 DEF Messages
<1>8. \A q \in Requests, t \in Tokens, b \in Times :
        Pending(q, t, b) => key[q] \in 1..nkeys
  <2> SUFFICES ASSUME NEW q \in Requests, NEW t \in Tokens, NEW b \in Times,
                      Pending(q, t, b)
               PROVE  key[q] \in 1..nkeys
    OBVIOUS
  <2>1. Sound(q)
    BY DEF IInv
  <2>2. slots[q] # << >>
    BY DEF Pending
  <2>3. pc[q] \in Busy
    BY <2>1, <2>2 DEF Sound, Early
  <2> QED BY <2>1, <2>3 DEF Sound, Keyed, Busy
<1>9. ASSUME NEW s \in {"error", "forbidden"}, Adds(r, Slot(m, p, c, s)),
             UNCHANGED <<owner, seen>>
      PROVE  IInv'
  <2>1. owner' \in [Tokens -> 0..nkeys] /\ seen' \in [Tokens -> Times]
    BY <1>1, <1>9 DEF TypeOK, Times
  <2>2. s \in {"error", "forbidden", "unset"} /\ s # "unset" /\ s \in Statuses
    BY RelayAssumption DEF Statuses
  <2>3. PICK x \in Slots : x = Slot(m, p, c, s)
    BY <1>3, <1>4, <2>2, SlotFacts DEF Of
  <2>4. Of(x, m, p, c, s) /\ x.item = 0 /\ Adds(r, x)
    BY <1>3, <1>4, <1>9, <2>2, <2>3, SlotFacts
  <2>5. Points(r, x)
    BY <2>2, <2>4 DEF Points, Of
  <2>6. /\ TypeOK' /\ (\A q \in Requests : Sound(q)') /\ Ledger' /\ Rings'
        /\ Only(r)
        /\ \A t \in Tokens, b \in Times : Pending(r, t, b)' => Pending(r, t, b)
    <3>1. /\ TypeOK' /\ (\A q \in Requests : Sound(q)') /\ Ledger' /\ Rings'
          /\ Only(r)
          /\ \A t \in Tokens, b \in Times : Pending(r, t, b)' =>
               \/ Pending(r, t, b)
               \/ s = "unset" /\ t = m.tok /\ b = x.bound
      <4>1. Binds(r, m, p, c, s, x)
        BY <1>1, <1>2, <1>4, <1>5, <1>6, <2>1, <2>4, <2>5 DEF Binds
      <4> QED BY <2>2, <4>1, BindResult
    <3> QED BY <2>2, <3>1
  <2>7. Leased'
    BY <1>2, <1>9, <2>6, OwnFrame DEF IInv
  <2> QED BY <2>6, <2>7 DEF IInv
<1>10. ASSUME owner[m.tok] \in {NoKey, key[r]},
              owner' = [owner EXCEPT ![m.tok] = key[r]],
              seen' = [seen EXCEPT ![m.tok] = clock],
              Adds(r, Item(r, m))
       PROVE  IInv'
  <2>1. owner' \in [Tokens -> 0..nkeys] /\ seen' \in [Tokens -> Times]
    BY <1>1, <1>3, <1>10 DEF TypeOK, Times
  <2>2. PICK x \in Slots : x = Item(r, m)
    BY <1>1, <1>3, <1>4, ItemFacts DEF Of
  <2>3. /\ Of(x, m, p, c, "unset") /\ x.item = Len(slots[r]) + 1 /\ x.bound = clock
        /\ Adds(r, x)
    BY <1>1, <1>3, <1>4, <1>5, <1>6, <1>10, <2>2, ItemFacts
  <2>4. /\ TypeOK' /\ (\A q \in Requests : Sound(q)') /\ Ledger' /\ Rings'
        /\ Only(r)
        /\ \A t \in Tokens, b \in Times : Pending(r, t, b)' =>
             Pending(r, t, b) \/ (t = m.tok /\ b = clock)
    <3>1. PICK s \in {"error", "forbidden", "unset"} : s = "unset"
      OBVIOUS
    <3>2. Of(x, m, p, c, s) /\ Adds(r, x) /\ Points(r, x)
      BY <2>3, <3>1 DEF Points
    <3>3. /\ TypeOK' /\ (\A q \in Requests : Sound(q)') /\ Ledger' /\ Rings'
          /\ Only(r)
          /\ \A t \in Tokens, b \in Times : Pending(r, t, b)' =>
               \/ Pending(r, t, b)
               \/ s = "unset" /\ t = m.tok /\ b = x.bound
      <4>1. Binds(r, m, p, c, s, x)
        BY <1>1, <1>2, <1>4, <1>5, <1>6, <2>1, <3>2 DEF Binds
      <4> QED BY <4>1, BindResult
    <3> QED BY <2>3, <3>3
  <2>5. /\ owner'[m.tok] = key[r] /\ seen'[m.tok] = clock
        /\ \A t \in Tokens : t # m.tok => owner'[t] = owner[t] /\ seen'[t] = seen[t]
    BY <1>1, <1>7, <1>10 DEF TypeOK
  <2>6. clock \in Nat /\ \A b \in Times : b \in Nat
    BY <1>1, RelayAssumption DEF TypeOK, Times
  <2>7. ASSUME NEW q \in Requests, NEW t \in Tokens, NEW b \in Times, Pending(q, t, b)'
        PROVE  b <= clock /\ (Recent(b)' => owner'[t] = key'[q] /\ b <= seen'[t])
    <3>1. CASE Pending(q, t, b)
      <4>1. /\ b <= clock /\ key[q] # NoKey
            /\ Recent(b) => owner[t] = key[q] /\ b <= seen[t]
        BY <1>3, <1>8, <3>1 DEF IInv, Leased, NoKey
      <4>2. Recent(b)' <=> Recent(b)
        BY <1>2 DEF Recent
      <4>3. CASE t = m.tok
        BY <1>2, <1>10, <2>5, <4>1, <4>2, <4>3
      <4>4. CASE t # m.tok
        BY <1>2, <2>5, <4>1, <4>2, <4>4
      <4> QED BY <4>3, <4>4
    <3>2. CASE ~Pending(q, t, b)
      <4>1. q = r
        BY <2>4, <2>7, <3>2 DEF Only, Pending
      <4>2. t = m.tok /\ b = clock
        BY <2>4, <2>7, <3>2, <4>1
      <4> QED BY <1>2, <2>5, <2>6, <4>1, <4>2
    <3> QED BY <3>1, <3>2
  <2>8. Leased'
    BY <1>2, <2>7 DEF Leased
  <2> QED BY <2>4, <2>8 DEF IInv
<1>11. \/ \E s \in {"error", "forbidden"} : /\ Adds(r, Slot(m, p, c, s))
                                          /\ UNCHANGED <<owner, seen>>
       \/ /\ owner[m.tok] \in {NoKey, key[r]}
          /\ owner' = [owner EXCEPT ![m.tok] = key[r]]
          /\ seen' = [seen EXCEPT ![m.tok] = clock]
          /\ Adds(r, Item(r, m))
  BY <1>4, <1>5, <1>6 DEF Bind, Adds
<1> QED BY <1>9, <1>10, <1>11

-----------------------------------------------------------------------------
(* dispatch.                                                               *)

\* DispatchStep: the loop is over.
LEMMA DispatchStep ==
  ASSUME IInv, NEW r \in Requests, Dispatch(r)
  PROVE  IInv'
<1>0. TypeOK /\ Sound(r)
  BY DEF IInv
<1>1. TypeOK /\ Sound(r) /\ nkeys \in Nat
  <2>1. nkeys \in Nat
    BY <1>0, RelayAssumption DEF TypeOK
  <2> QED BY <1>0, <2>1
<1>2. /\ Only(r) /\ pc[r] = "parse" /\ pc'[r] = "dispatch"
      /\ UNCHANGED <<nkeys, revoked, owner, seen, clock, regLeft, sendLeft, callLeft,
                     key, input, slots, owed, rung, kept>>
  BY <1>1 DEF Dispatch, Goto, TypeOK, Only, shared, history, lease
<1>3. TypeOK'
  BY <1>1, <1>2 DEF Dispatch, Goto, TypeOK
<1>4. Sound(r)'
  BY <1>1, <1>2
     DEF Sound, Keyed, Early, Reported, Binding, Paid, Placed, Busy, Indexed
<1>5. \A q \in Requests : Sound(q)'
  BY <1>1, <1>2, <1>4, SoundFrame DEF IInv
<1>6. Due(r)' = Due(r) /\ Over(r)' = Over(r)
  BY <1>2 DEF Due, Over
<1>7. Ledger' /\ Rings'
  BY <1>2, <1>6, LedgerFrame DEF IInv
<1>8. Leased'
  BY <1>2, OwnFrame DEF IInv, Pending
<1> QED BY <1>3, <1>5, <1>7, <1>8 DEF IInv

\* Changed(r): the results of r change in nothing but their status.
Changed(r) ==
  /\ slots'[r] \in Seq(Slots)
  /\ Len(slots'[r]) = Len(slots[r])
  /\ DOMAIN slots'[r] = DOMAIN slots[r]
  /\ \A i \in DOMAIN slots[r] : /\ slots'[r][i].tok = slots[r][i].tok
                                /\ slots'[r][i].call = slots[r][i].call
                                /\ slots'[r][i].charged = slots[r][i].charged
                                /\ slots'[r][i].pos = slots[r][i].pos
                                /\ slots'[r][i].item = slots[r][i].item
                                /\ slots'[r][i].bound = slots[r][i].bound

\* SettleEffect: one slot has its status now.
LEMMA SettleEffect ==
  ASSUME TypeOK, NEW r \in Requests, NEW i \in DOMAIN slots[r],
         NEW s \in SendStatuses,
         slots' = [slots EXCEPT ![r][i].tok = slots[r][i].tok, ![r][i].status = s]
  PROVE  /\ Changed(r) /\ slots'[r][i].status = s
         /\ \A j \in DOMAIN slots[r] : j # i => slots'[r][j] = slots[r][j]
         /\ slots' \in [Requests -> Seq(Slots)]
         /\ \A q \in Requests : q # r => slots'[q] = slots[q]
<1>1. slots[r] \in Seq(Slots) /\ slots \in [Requests -> Seq(Slots)]
  BY DEF TypeOK
<1>2. s \in Statuses
  BY DEF Statuses
<1> DEFINE x == [slots[r][i] EXCEPT !.tok = slots[r][i].tok, !.status = s]
           f == [slots[r] EXCEPT ![i] = x]
<1>3. slots[r][i] \in Slots
  BY <1>1, SeqFacts
<1>4. /\ x \in Slots /\ x.status = s /\ x.tok = slots[r][i].tok
      /\ x.call = slots[r][i].call /\ x.charged = slots[r][i].charged
      /\ x.pos = slots[r][i].pos /\ x.item = slots[r][i].item
      /\ x.bound = slots[r][i].bound
  BY <1>2, <1>3 DEF Slots
<1>5. slots' = [slots EXCEPT ![r] = f]
  OBVIOUS
<1> HIDE DEF x
<1>6. /\ f = [j \in DOMAIN slots[r] |-> f[j]] /\ f[i] = x
      /\ \A j \in DOMAIN slots[r] : j # i => f[j] = slots[r][j]
  BY <1>1
<1>7. \A j \in DOMAIN slots[r] : f[j] \in Slots
  BY <1>1, <1>4, <1>6, SeqFacts
<1> HIDE DEF f
<1>8. f \in Seq(Slots) /\ Len(f) = Len(slots[r]) /\ DOMAIN f = DOMAIN slots[r]
  BY <1>1, <1>6, <1>7, SameShape
<1>9. /\ slots'[r] = f /\ slots' \in [Requests -> Seq(Slots)]
      /\ \A q \in Requests : q # r => slots'[q] = slots[q]
  BY <1>1, <1>5, <1>8
<1> QED BY <1>4, <1>6, <1>8, <1>9 DEF Changed

\* StatusFrame: what does not depend on a status.
LEMMA StatusFrame ==
  ASSUME NEW r \in Requests, Sound(r), Changed(r), UNCHANGED <<nkeys, key, input>>,
         pc[r] \in {"dispatch", "refund"}, pc'[r] \in {"dispatch", "refund"}
  PROVE  Keyed(r)' /\ Early(r)' /\ Binding(r)' /\ Placed(r)'
<1>1. Keyed(r)' /\ Early(r)' /\ Binding(r)'
  BY DEF Sound, Keyed, Early, Binding, Busy
<1>2. Placed(r) /\ UNCHANGED input
  BY DEF Sound
<1>3. /\ DOMAIN slots'[r] = DOMAIN slots[r]
      /\ \A i \in DOMAIN slots[r] : /\ slots'[r][i].tok = slots[r][i].tok
                                    /\ slots'[r][i].pos = slots[r][i].pos
  BY DEF Changed
<1>4. \A i \in DOMAIN slots'[r] :
        /\ slots'[r][i].pos \in DOMAIN input'[r]
        /\ slots'[r][i].tok = input'[r][slots'[r][i].pos].tok
  BY <1>2, <1>3 DEF Placed
<1>5. \A i, j \in DOMAIN slots'[r] : i < j => slots'[r][i].pos < slots'[r][j].pos
  BY <1>2, <1>3 DEF Placed
<1>6. \A p \in DOMAIN input'[r] : input'[r][p].tok # NoToken =>
        \E i \in DOMAIN slots'[r] : slots'[r][i].pos = p
  BY <1>2, <1>3 DEF Placed
<1>7. Placed(r)'
  BY <1>4, <1>5, <1>6 DEF Placed
<1> QED BY <1>1, <1>7

\* SettleStep: one message is sent.
LEMMA SettleStep ==
  ASSUME IInv, NEW r \in Requests, NEW i \in DOMAIN slots[r],
         NEW s \in SendStatuses, NEW contact \in BOOLEAN,
         Settle(r, i, s, contact)
  PROVE  IInv'
<1>1. /\ TypeOK /\ Sound(r) /\ pc[r] = "dispatch" /\ nkeys \in Nat
      /\ slots[r][i].item = i /\ slots[r][i].status = "unset"
      /\ UNCHANGED <<nkeys, revoked, owner, seen, clock, regLeft, sendLeft, callLeft,
                     pc, key, input, owed, kept>>
  <2>1. TypeOK /\ Sound(r)
    BY DEF IInv
  <2>2. nkeys \in Nat
    BY <2>1, RelayAssumption DEF TypeOK
  <2>3. slots[r][i].item = i
    BY <2>1 DEF Settle, Sound, Indexed
  <2> QED BY <2>1, <2>2, <2>3 DEF Settle, shared
<1>2. /\ Changed(r) /\ slots'[r][i].status = s
      /\ \A j \in DOMAIN slots[r] : j # i => slots'[r][j] = slots[r][j]
      /\ slots' \in [Requests -> Seq(Slots)]
      /\ \A q \in Requests : q # r => slots'[q] = slots[q]
  BY <1>1, SettleEffect DEF Settle
<1>3. s \notin {"unset", "not_attempted"}
  BY RelayAssumption
<1>4. key[r] \in AllKeys
  BY <1>1, RelayAssumption DEF Sound, Keyed, TypeOK, AllKeys
<1>5. rung' = IF contact /\ slots[r][i].call
                THEN [rung EXCEPT ![key[r]] = @ + 1] ELSE rung
  BY DEF Settle
<1>6. rung' \in [AllKeys -> Nat]
  BY <1>1, <1>4, <1>5 DEF TypeOK
<1>7. TypeOK'
  <2>1. \A q \in Requests : /\ Len(slots'[q]) = Len(slots[q])
                            /\ DOMAIN slots'[q] = DOMAIN slots[q]
    BY <1>2 DEF Changed
  <2> QED BY <1>1, <1>2, <1>6, <2>1 DEF TypeOK
<1>8. Only(r)
  BY <1>1, <1>2 DEF Only
<1>9. Reported(r)' /\ Paid(r)' /\ Indexed(slots[r])'
  <2>1. Reported(r)' /\ Paid(r)'
    BY <1>1, <1>2, <1>3 DEF Sound, Reported, Paid, Changed
  <2>2. Indexed(slots[r])'
    BY <1>1, <1>2, <1>3 DEF Sound, Indexed, Changed
  <2> QED BY <2>1, <2>2
<1>10. Sound(r)'
  BY <1>1, <1>2, <1>9, StatusFrame DEF Sound
<1>11. \A q \in Requests : Sound(q)'
  BY <1>1, <1>8, <1>10, SoundFrame DEF IInv
<1>12. Charged(slots[r])' = Charged(slots[r])
  <2>1. \A j \in DOMAIN slots[r] :
          /\ slots[r][j].status # "not_attempted"
          /\ slots'[r][j].status # "not_attempted"
    BY <1>1, <1>2, <1>3 DEF Sound, Reported
  <2> QED BY <1>2, <2>1 DEF Charged, Changed
<1>13. Due(r)' = Due(r)
  BY <1>1, <1>12 DEF Due
<1>14. Over(r)' = IF slots[r][i].charged THEN Over(r) \cup {i} ELSE Over(r)
  <2>1. i \in Charged(slots[r]) <=> slots[r][i].charged
    BY <1>1 DEF Charged
  <2>2. \A j \in Charged(slots[r]) : j \in DOMAIN slots[r]
    BY DEF Charged
  <2> QED BY <1>2, <1>3, <1>12, <2>1, <2>2 DEF Over
<1>15. i \notin Over(r) /\ i \in Nat
  BY <1>1, SeqFacts DEF Over, TypeOK
<1>16. Ledger' /\ Rings'
  <2>1. CASE contact /\ slots[r][i].call
    <3>1. slots[r][i].charged
      BY <1>1, <2>1 DEF Sound, Paid
    <3>2. \E n \in Nat : n \in Over(r)' /\ n \notin Over(r)
      BY <1>14, <1>15, <3>1
    <3>3. Over(r) \subseteq Over(r)'
      BY <1>14
    <3> QED BY <1>1, <1>4, <1>5, <1>8, <1>13, <2>1, <3>2, <3>3, Progress
  <2>2. CASE ~(contact /\ slots[r][i].call)
    <3>1. Over(r) \subseteq Over(r)'
      BY <1>14
    <3> QED BY <1>1, <1>4, <1>5, <1>8, <1>13, <2>2, <3>1, Progress
  <2> QED BY <2>1, <2>2
<1>17. \A t \in Tokens, b \in Times : Pending(r, t, b)' => Pending(r, t, b)
  BY <1>2, <1>3 DEF Pending, Changed
<1>18. Leased'
  BY <1>1, <1>8, <1>17, OwnFrame DEF IInv
<1> QED BY <1>7, <1>11, <1>16, <1>18 DEF IInv

\* FinishEffect: what was left open is marked, and nothing else changes.
LEMMA FinishEffect ==
  ASSUME TypeOK, NEW r \in Requests, Indexed(slots[r]), Finish(r)
  PROVE  /\ Changed(r)
         /\ \A i \in DOMAIN slots[r] :
              /\ slots[r][i].status = "unset" =>
                   slots'[r][i].status = "not_attempted"
              /\ slots[r][i].status # "unset" =>
                   slots'[r][i].status = slots[r][i].status
         /\ slots' \in [Requests -> Seq(Slots)]
         /\ \A q \in Requests : q # r => slots'[q] = slots[q]
         /\ owed'[r] = Unattempted(slots'[r]) /\ DOMAIN owed' = Requests
         /\ \A q \in Requests : q # r => owed'[q] = owed[q]
<1>1. slots[r] \in Seq(Slots) /\ slots \in [Requests -> Seq(Slots)]
  BY DEF TypeOK
<1> DEFINE f == Marked(slots[r])
<1>2. /\ slots' = [slots EXCEPT ![r] = f]
      /\ owed' = [owed EXCEPT ![r] = Unattempted(f)]
  BY DEF Finish
<1>3. ASSUME NEW i \in DOMAIN slots[r]
      PROVE  /\ f[i] \in Slots
             /\ f[i].tok = slots[r][i].tok /\ f[i].call = slots[r][i].call
             /\ f[i].charged = slots[r][i].charged /\ f[i].pos = slots[r][i].pos
             /\ f[i].item = slots[r][i].item /\ f[i].bound = slots[r][i].bound
             /\ slots[r][i].status = "unset" => f[i].status = "not_attempted"
             /\ slots[r][i].status # "unset" => f[i].status = slots[r][i].status
  <2>1. slots[r][i] \in Slots
    BY <1>1, SeqFacts
  <2>2. "not_attempted" \in Statuses
    BY DEF Statuses
  <2>3. slots[r][i].status = "unset" => \E k \in DOMAIN slots[r] : slots[r][k].item = i
    BY DEF Indexed
  <2>4. f[i] = IF slots[r][i].status = "unset"
                 THEN [slots[r][i] EXCEPT !.status = "not_attempted"]
                 ELSE slots[r][i]
    BY <2>3 DEF Marked
  <2> HIDE DEF f
  <2> QED BY <2>1, <2>2, <2>4 DEF Slots
<1>4. f = [i \in DOMAIN slots[r] |-> f[i]]
  BY DEF Marked
<1> HIDE DEF f
<1>5. f \in Seq(Slots) /\ Len(f) = Len(slots[r]) /\ DOMAIN f = DOMAIN slots[r]
  BY <1>1, <1>3, <1>4, SameShape
<1>6. /\ slots'[r] = f /\ slots' \in [Requests -> Seq(Slots)]
      /\ \A q \in Requests : q # r => slots'[q] = slots[q]
  BY <1>1, <1>2, <1>5
<1>7. /\ owed'[r] = Unattempted(f) /\ DOMAIN owed' = Requests
      /\ \A q \in Requests : q # r => owed'[q] = owed[q]
  BY <1>2 DEF TypeOK
<1>8. Changed(r)
  BY <1>3, <1>5, <1>6 DEF Changed
<1> QED BY <1>3, <1>6, <1>7, <1>8

\* FinishStep: dispatch has returned.  A charge of a call that was not
\* attempted is now a refund that is owed.
LEMMA FinishStep ==
  ASSUME IInv, NEW r \in Requests, Finish(r)
  PROVE  IInv'
<1>1. TypeOK /\ Sound(r)
  BY DEF IInv
<1>2. nkeys \in Nat
  BY <1>1, RelayAssumption DEF TypeOK
<1>3. /\ pc[r] = "dispatch" /\ pc'[r] = "refund"
      /\ \A q \in Requests : q # r => pc'[q] = pc[q]
      /\ pc' \in [Requests -> {"idle", "issue", "admit", "decode", "parse",
                               "bind", "dispatch", "refund"}]
  BY <1>1 DEF Finish, Goto, TypeOK
<1>4. UNCHANGED <<nkeys, revoked, owner, seen, clock, regLeft, sendLeft, callLeft,
                  key, input, rung, kept>>
  BY DEF Finish, shared, history, lease
<1>5. /\ Changed(r)
      /\ slots' \in [Requests -> Seq(Slots)]
      /\ \A q \in Requests : q # r => slots'[q] = slots[q]
      /\ owed'[r] = Unattempted(slots'[r]) /\ DOMAIN owed' = Requests
      /\ \A q \in Requests : q # r => owed'[q] = owed[q]
  BY <1>1, FinishEffect DEF Sound
<1>6. \A i \in DOMAIN slots[r] :
        /\ slots[r][i].status = "unset" => slots'[r][i].status = "not_attempted"
        /\ slots[r][i].status # "unset" => slots'[r][i].status = slots[r][i].status
        /\ slots[r][i].status # "not_attempted"
  <2>1. \A i \in DOMAIN slots[r] : slots[r][i].status # "not_attempted"
    BY <1>1, <1>3 DEF Sound, Reported
  <2> QED BY <1>1, <2>1, FinishEffect DEF Sound
<1>7. Only(r)
  BY <1>3, <1>4, <1>5 DEF Only
<1>8. owed[r] = {}
  BY <1>1, <1>3 DEF Sound, Reported
<1>9. TypeOK'
  <2>1. ASSUME NEW q \in Requests
        PROVE  /\ Len(slots'[q]) <= Len(input'[q])
               /\ Len(input'[q]) <= MaxMessages
               /\ owed'[q] \subseteq DOMAIN slots'[q]
    <3>1. CASE q = r
      BY <1>1, <1>4, <1>5, <3>1 DEF Changed, Unattempted, TypeOK
    <3>2. CASE q # r
      BY <1>1, <1>7, <3>2 DEF Only, TypeOK
    <3> QED BY <3>1, <3>2
  <2> QED BY <1>1, <1>3, <1>4, <1>5, <2>1 DEF TypeOK
<1>10. Reported(r)'
  BY <1>3, <1>5, <1>6 DEF Reported, Changed
<1>11. Paid(r)' /\ Indexed(slots[r])'
  BY <1>1, <1>5, <1>6 DEF Sound, Paid, Indexed, Changed
<1>12. Sound(r)'
  BY <1>1, <1>3, <1>4, <1>5, <1>10, <1>11, StatusFrame DEF Sound
<1>13. \A q \in Requests : Sound(q)'
  BY <1>2, <1>4, <1>7, <1>12, SoundFrame DEF IInv
<1>14. /\ Charged(slots[r]) = {i \in DOMAIN slots[r] : slots[r][i].charged}
       /\ Charged(slots[r])' = {i \in DOMAIN slots[r] :
                                  slots[r][i].charged /\ slots[r][i].status # "unset"}
  BY <1>5, <1>6 DEF Charged, Changed
<1>15. owed'[r] = {i \in DOMAIN slots[r] :
                     slots[r][i].charged /\ slots[r][i].status = "unset"}
  <2>1. slots'[r] \in Seq(Slots) /\ Indexed(slots'[r])
    BY <1>5, <1>11 DEF Changed
  <2>2. owed'[r] = {i \in DOMAIN slots'[r] :
                      slots'[r][i].call /\ slots'[r][i].status = "not_attempted"}
    BY <1>5, <2>1, UnattemptedIs
  <2> QED BY <1>1, <1>5, <1>6, <2>2 DEF Changed, Sound, Paid
<1>16. Due(r)' = Due(r)
  BY <1>3, <1>8, <1>14, <1>15 DEF Due
<1>17. Over(r)' = Over(r)
  BY <1>5, <1>6, <1>14 DEF Over, Changed
<1>18. Ledger' /\ Rings'
  BY <1>4, <1>7, <1>16, <1>17, LedgerFrame DEF IInv
<1>19. \A t \in Tokens, b \in Times : ~Pending(r, t, b)'
  BY <1>3, <1>12 DEF Pending, Sound, Reported
<1>20. Leased'
  BY <1>4, <1>7, <1>19, OwnFrame DEF IInv
<1> QED BY <1>9, <1>13, <1>18, <1>20 DEF IInv

\* Discharge: the budget when a charge is given back.  There is room for it,
\* since the charge is still open: the cap of Return is never met.
LEMMA Discharge ==
  ASSUME IInv, NEW r \in Requests, Only(r), NEW n \in Nat, n \in Due(r),
         Due(r)' = Due(r) \ {n}, Over(r)' = Over(r),
         UNCHANGED <<key, kept, rung>>, key[r] \in AllKeys,
         callLeft' = [callLeft EXCEPT ![key[r]] =
                        IF @ + 1 > CallBurst THEN CallBurst ELSE @ + 1]
  PROVE  Ledger' /\ Rings' /\ callLeft' \in [AllKeys -> 0..CallBurst]
<1>0. PICK c \in AllKeys : c = key[r]
  OBVIOUS
<1>1. \A q \in Requests : /\ q # r => Due(q)' = Due(q)
                          /\ Over(q)' = Over(q)
  BY DEF Only, Due, Over, Last
<1>2. \A k : Done(k)' = Done(k)
  BY <1>1 DEF Done
<1>3. Rings'
  BY <1>2 DEF IInv, Rings
<1>4. \A k : k # c => Open(k)' = Open(k)
  BY <1>0, <1>1 DEF Open
<1>5. Open(c)' = Open(c) \ {<<r, n>>}
  BY <1>0, <1>1 DEF Open
<1>6. <<r, n>> \in Open(c)
  BY <1>0 DEF Open
<1>7. IsFiniteSet(Open(c)) /\ callLeft[c] + kept[c] + Cardinality(Open(c)) = CallBurst
  BY DEF IInv, Ledger
<1>8. /\ IsFiniteSet(Open(c)')
      /\ Cardinality(Open(c)') = Cardinality(Open(c)) - 1
  BY <1>5, <1>6, <1>7, FS_RemoveElement
<1>9. Cardinality(Open(c)) \in Nat /\ Cardinality(Open(c)') \in Nat
  BY <1>7, <1>8, FS_CardinalityType
<1>10. callLeft[c] \in Nat /\ kept[c] \in Nat /\ CallBurst \in Nat
  BY RelayAssumption DEF IInv, TypeOK
<1>11. ~(callLeft[c] + 1 > CallBurst)
  BY <1>7, <1>8, <1>9, <1>10
<1>12. callLeft'[c] = callLeft[c] + 1
  BY <1>0, <1>10, <1>11 DEF IInv, TypeOK
<1>13. ASSUME NEW k \in AllKeys
       PROVE  /\ IsFiniteSet(Open(k)')
              /\ callLeft'[k] + kept'[k] + Cardinality(Open(k)') = CallBurst
  <2>1. CASE k = c
    BY <1>7, <1>8, <1>9, <1>10, <1>12, <2>1
  <2>2. CASE k # c
    <3>1. callLeft'[k] = callLeft[k] /\ kept'[k] = kept[k]
      BY <1>0, <2>2 DEF IInv, TypeOK
    <3> QED BY <1>4, <2>2, <3>1 DEF IInv, Ledger
  <2> QED BY <2>1, <2>2
<1>14. callLeft' \in [AllKeys -> 0..CallBurst]
  BY <1>0, <1>10 DEF IInv, TypeOK
<1> QED BY <1>3, <1>13, <1>14 DEF Ledger

\* RefundStep: one call of callLim.Return.
LEMMA RefundStep ==
  ASSUME IInv, NEW r \in Requests, Refund(r)
  PROVE  IInv'
<1>1. TypeOK /\ Sound(r)
  BY DEF IInv
<1>2. nkeys \in Nat
  BY <1>1, RelayAssumption DEF TypeOK
<1>3. /\ pc[r] = "refund"
      /\ UNCHANGED <<nkeys, revoked, owner, seen, clock, regLeft, sendLeft, pc, key, input,
                     slots, rung, kept>>
      /\ callLeft' = [callLeft EXCEPT ![key[r]] =
                        IF @ + 1 > CallBurst THEN CallBurst ELSE @ + 1]
  BY DEF Refund, history, lease
<1>4. PICK n \in owed[r] : owed' = [owed EXCEPT ![r] = owed[r] \ {n}]
  BY DEF Refund
<1>5. /\ owed'[r] = owed[r] \ {n} /\ DOMAIN owed' = Requests
      /\ \A q \in Requests : q # r => owed'[q] = owed[q]
  BY <1>1, <1>4 DEF TypeOK
<1>6. Only(r)
  BY <1>3, <1>5 DEF Only
<1>7. n \in Unattempted(slots[r]) /\ owed[r] \subseteq Unattempted(slots[r])
  BY <1>1, <1>3 DEF Sound, Reported
<1>8. n \in Nat
  <2>1. slots[r] \in Seq(Slots) /\ n \in DOMAIN slots[r]
    BY <1>1, <1>7 DEF TypeOK, Unattempted
  <2> QED BY <2>1, SeqFacts
<1>9. n \notin Charged(slots[r])
  <2>1. slots[r] \in Seq(Slots) /\ Indexed(slots[r])
    BY <1>1 DEF TypeOK, Sound
  <2> QED BY <1>7, <2>1, UnattemptedIs DEF Charged
<1>10. Due(r)' = Due(r) \ {n} /\ n \in Due(r) /\ Over(r)' = Over(r)
  BY <1>3, <1>5, <1>9 DEF Due, Over
<1>11. key[r] \in AllKeys
  BY <1>1, <1>3, RelayAssumption DEF Sound, Keyed, TypeOK, AllKeys
<1>12. Ledger' /\ Rings' /\ callLeft' \in [AllKeys -> 0..CallBurst]
  BY <1>3, <1>6, <1>8, <1>10, <1>11, Discharge
<1>13. TypeOK'
  <2>1. \A q \in Requests : owed'[q] \subseteq owed[q]
    BY <1>5
  <2>2. \A q \in Requests : owed'[q] \subseteq DOMAIN slots'[q]
    BY <1>1, <1>3, <2>1 DEF TypeOK
  <2> QED BY <1>1, <1>3, <1>5, <1>12, <2>2 DEF TypeOK
<1>14. Sound(r)'
  <2>1. Reported(r)'
    BY <1>1, <1>3, <1>5 DEF Sound, Reported
  <2>2. Keyed(r)' /\ Early(r)' /\ Binding(r)' /\ Paid(r)' /\ Placed(r)'
        /\ Indexed(slots[r])'
    BY <1>1, <1>3 DEF Sound, Keyed, Early, Binding, Paid, Placed, Busy, Indexed
  <2> QED BY <2>1, <2>2 DEF Sound
<1>15. \A q \in Requests : Sound(q)'
  BY <1>2, <1>3, <1>6, <1>14, SoundFrame DEF IInv
<1>16. Leased'
  BY <1>3, <1>6, OwnFrame DEF IInv, Pending
<1> QED BY <1>12, <1>13, <1>15, <1>16 DEF IInv

\* Release: the budget when a request returns and its charges, all settled,
\* become history.
LEMMA Release ==
  ASSUME IInv, NEW r \in Requests, Only(r), NEW C \in SUBSET Nat, IsFiniteSet(C),
         Due(r) = C, Over(r) = C, Due(r)' = {}, Over(r)' = {},
         UNCHANGED <<callLeft, rung>>, key[r] \in AllKeys,
         kept' = [kept EXCEPT ![key[r]] = @ + Cardinality(C)]
  PROVE  Ledger' /\ Rings' /\ kept' \in [AllKeys -> Nat]
<1>0. PICK c \in AllKeys : c = key[r]
  OBVIOUS
<1> DEFINE D == {r} \X C
<1>1. \A q \in Requests : q # r => /\ Due(q)' = Due(q) /\ Over(q)' = Over(q)
                                   /\ key'[q] = key[q]
  BY DEF Only, Due, Over, Last
<1>2. \A k : k # c => Open(k)' = Open(k) /\ Done(k)' = Done(k)
  BY <1>0, <1>1 DEF Open, Done
<1>3. Open(c)' = Open(c) \ D /\ Done(c)' = Done(c) \ D
  BY <1>0, <1>1 DEF Open, Done
<1>4. D \subseteq Open(c) /\ D \subseteq Done(c)
  BY <1>0 DEF Open, Done
<1>5. IsFiniteSet({r}) /\ Cardinality({r}) = 1
  BY FS_Singleton
<1>6. Cardinality(C) \in Nat
  BY FS_CardinalityType
<1>7. IsFiniteSet(D) /\ Cardinality(D) = 1 * Cardinality(C)
  BY <1>5, FS_Product
<1>8. Cardinality(D) = Cardinality(C)
  BY <1>6, <1>7
<1> HIDE DEF D
<1>9. /\ IsFiniteSet(Open(c))
      /\ callLeft[c] + kept[c] + Cardinality(Open(c)) = CallBurst
      /\ rung[c] <= kept[c] + Cardinality(Done(c))
  BY DEF IInv, Ledger, Rings
<1>10. IsFiniteSet(Done(c))
  BY <1>9, DoneInOpen, FS_Subset
<1>11. /\ IsFiniteSet(Open(c)') 
       /\ Cardinality(Open(c)') = Cardinality(Open(c)) - Cardinality(D)
  <2>1. Open(c) \cap D = D
    BY <1>4
  <2> QED BY <1>3, <1>9, <2>1, FS_Difference
<1>12. Cardinality(Done(c)') = Cardinality(Done(c)) - Cardinality(D)
  <2>1. Done(c) \cap D = D
    BY <1>4
  <2> QED BY <1>3, <1>10, <2>1, FS_Difference
<1>13. Cardinality(Open(c)) \in Nat /\ Cardinality(Done(c)) \in Nat
  BY <1>9, <1>10, FS_CardinalityType
<1>14. /\ callLeft[c] \in Nat /\ kept[c] \in Nat /\ rung[c] \in Nat
       /\ CallBurst \in Nat /\ kept \in [AllKeys -> Nat]
  BY RelayAssumption DEF IInv, TypeOK
<1>15. kept'[c] = kept[c] + Cardinality(C)
  BY <1>0, <1>14
<1>16. kept' \in [AllKeys -> Nat]
  BY <1>0, <1>6, <1>14
<1>17. ASSUME NEW k \in AllKeys
       PROVE  /\ IsFiniteSet(Open(k)')
              /\ callLeft'[k] + kept'[k] + Cardinality(Open(k)') = CallBurst
              /\ rung'[k] <= kept'[k] + Cardinality(Done(k)')
  <2>1. CASE k = c
    BY <1>6, <1>8, <1>9, <1>11, <1>12, <1>13, <1>14, <1>15, <2>1
  <2>2. CASE k # c
    <3>1. callLeft'[k] = callLeft[k] /\ kept'[k] = kept[k] /\ rung'[k] = rung[k]
      BY <1>0, <1>14, <2>2
    <3> QED BY <1>2, <2>2, <3>1 DEF IInv, Ledger, Rings
  <2> QED BY <2>1, <2>2
<1> QED BY <1>16, <1>17 DEF Ledger, Rings

\* RespondStep: the answer is written and the handler returns.
LEMMA RespondStep ==
  ASSUME IInv, NEW r \in Requests, Respond(r)
  PROVE  IInv'
<1>1. TypeOK /\ Sound(r)
  BY DEF IInv
<1>2. nkeys \in Nat
  BY <1>1, RelayAssumption DEF TypeOK
<1>3. /\ pc[r] = "refund" /\ owed[r] = {} /\ Close(r)
      /\ kept' = [kept EXCEPT ![key[r]] = @ + Cardinality(Charged(slots[r]))]
      /\ UNCHANGED <<nkeys, revoked, owner, seen, clock, regLeft, sendLeft, callLeft, rung>>
  BY DEF Respond, shared
<1>4. /\ Only(r) /\ pc'[r] = "idle" /\ key'[r] = NoKey
      /\ input'[r] = << >> /\ slots'[r] = << >> /\ owed'[r] = {}
  BY <1>1, <1>3, Closed
<1>5. PICK C : C = Charged(slots[r])
  OBVIOUS
<1>6. slots[r] \in Seq(Slots)
  BY <1>1 DEF TypeOK
<1>7. Len(slots[r]) \in Nat /\ DOMAIN slots[r] = 1..Len(slots[r])
  BY <1>6, SeqFacts
<1>8. C \subseteq 1..Len(slots[r])
  BY <1>5, <1>7 DEF Charged
<1>9. IsFiniteSet(C) /\ C \in SUBSET Nat
  <2>1. IsFiniteSet(1..Len(slots[r]))
    BY <1>7, FS_Interval
  <2>2. IsFiniteSet(C)
    BY <1>8, <2>1, FS_Subset
  <2> QED BY <1>7, <1>8, <2>2
<1>10. Due(r) = C
  BY <1>3, <1>5 DEF Due
<1>11. Over(r) = C
  <2>1. \A i \in DOMAIN slots[r] : slots[r][i].status # "unset"
    BY <1>1, <1>3 DEF Sound, Reported
  <2> QED BY <1>5, <2>1 DEF Over, Charged
<1>12. DOMAIN slots'[r] = {} /\ DOMAIN input'[r] = {}
  BY <1>4
<1>13. Charged(slots[r])' = {}
  BY <1>12 DEF Charged
<1>14. Due(r)' = {} /\ Over(r)' = {} /\ \A t \in Tokens, b \in Times : ~Pending(r, t, b)'
  BY <1>4, <1>12, <1>13 DEF Due, Over, Pending
<1>15. key[r] \in AllKeys
  BY <1>1, <1>3, RelayAssumption DEF Sound, Keyed, TypeOK, AllKeys
<1>16. Ledger' /\ Rings' /\ kept' \in [AllKeys -> Nat]
  BY <1>3, <1>4, <1>5, <1>9, <1>10, <1>11, <1>14, <1>15, Release
<1>17. TypeOK'
  <2>1. /\ pc' \in [Requests -> {"idle", "issue", "admit", "decode", "parse",
                                 "bind", "dispatch", "refund"}]
        /\ key' \in [Requests -> 0..nkeys]
        /\ input' \in [Requests -> Seq(Messages)]
        /\ slots' \in [Requests -> Seq(Slots)]
        /\ DOMAIN owed' = Requests
        /\ \A q \in Requests : /\ Len(slots'[q]) <= Len(input'[q])
                               /\ Len(input'[q]) <= MaxMessages
                               /\ owed'[q] \subseteq DOMAIN slots'[q]
    BY <1>1, <1>3, Closed
  <2> QED BY <1>1, <1>3, <1>16, <2>1 DEF TypeOK
<1>18. Sound(r)'
  BY <1>4, <1>12
     DEF Sound, Keyed, Early, Reported, Binding, Paid, Placed, Busy, Indexed
<1>19. \A q \in Requests : Sound(q)'
  BY <1>2, <1>3, <1>4, <1>18, SoundFrame DEF IInv
<1>20. Leased'
  BY <1>3, <1>4, <1>14, OwnFrame DEF IInv
<1> QED BY <1>16, <1>17, <1>19, <1>20 DEF IInv

\* RevokeStep: requests under way go on.
LEMMA RevokeStep ==
  ASSUME IInv, NEW k \in 1..nkeys, Revoke(k)
  PROVE  IInv'
<1>1. /\ UNCHANGED <<nkeys, owner, seen, clock, regLeft, sendLeft, callLeft,
                     pc, key, input, slots, owed, rung, kept>>
      /\ revoked' = revoked \cup {k}
  BY DEF Revoke, history, lease
<1>2. TypeOK'
  BY <1>1 DEF IInv, TypeOK
<1>3. \A r \in Requests : Sound(r)' /\ Due(r)' = Due(r) /\ Over(r)' = Over(r)
  BY <1>1 DEF IInv, Sound, Keyed, Early, Reported, Binding, Paid, Placed, Last,
     Due, Over, Indexed
<1>4. \A c : Open(c)' = Open(c) /\ Done(c)' = Done(c)
  BY <1>1, <1>3 DEF Open, Done
<1>5. Ledger' /\ Rings'
  BY <1>1, <1>4 DEF IInv, Ledger, Rings
<1>6. Leased'
  BY <1>1 DEF IInv, Leased, Recent, Pending
<1> QED BY <1>2, <1>3, <1>5, <1>6 DEF IInv

\* LapseStep: the sweep takes no binding that a request relies on.
LEMMA LapseStep ==
  ASSUME IInv, NEW t \in Tokens, Lapse(t)
  PROVE  IInv'
<1>1. /\ UNCHANGED <<nkeys, revoked, seen, clock, regLeft, sendLeft, callLeft,
                     pc, key, input, slots, owed, rung, kept>>
      /\ owner' = [owner EXCEPT ![t] = NoKey]
      /\ Retention > 0 /\ seen[t] + Retention < clock
  BY DEF Lapse, history
<1>2. TypeOK'
  <2>1. TypeOK /\ nkeys \in Nat
    BY RelayAssumption DEF IInv, TypeOK
  <2>2. owner' \in [Tokens -> 0..nkeys]
    BY <1>1, <2>1 DEF TypeOK, NoKey
  <2> QED BY <1>1, <2>1, <2>2 DEF TypeOK
<1>3. \A r \in Requests : Sound(r)' /\ Due(r)' = Due(r) /\ Over(r)' = Over(r)
  BY <1>1 DEF IInv, Sound, Keyed, Early, Reported, Binding, Paid, Placed, Last,
     Due, Over, Indexed
<1>4. \A c : Open(c)' = Open(c) /\ Done(c)' = Done(c)
  BY <1>1, <1>3 DEF Open, Done
<1>5. Ledger' /\ Rings'
  BY <1>1, <1>4 DEF IInv, Ledger, Rings
<1>6. Leased'
  <2>1. ASSUME NEW r \in Requests, NEW d \in Tokens, NEW b \in Times,
               Pending(r, d, b)'
        PROVE  b <= clock /\ (Recent(b)' => owner'[d] = key[r] /\ b <= seen[d])
    <3>1. Pending(r, d, b) /\ (Recent(b)' <=> Recent(b))
      BY <1>1, <2>1 DEF Pending, Recent
    <3>2. b <= clock /\ (Recent(b) => owner[d] = key[r] /\ b <= seen[d])
      BY <3>1 DEF IInv, Leased
    <3>3. CASE d # t
      <4>1. owner'[d] = owner[d]
        BY <1>1, <3>3 DEF IInv, TypeOK
      <4> QED BY <3>1, <3>2, <4>1
    <3>4. CASE d = t
      <4>1. /\ b \in Nat /\ seen[t] \in Nat /\ clock \in Nat /\ Retention \in Int
        BY RelayAssumption DEF IInv, TypeOK, Times
      <4>2. ~Recent(b)
        BY <1>1, <3>2, <3>4, <4>1 DEF Recent
      <4> QED BY <3>1, <3>2, <4>2
    <3> QED BY <3>3, <3>4
  <2> QED BY <1>1, <2>1 DEF Leased
<1> QED BY <1>2, <1>3, <1>5, <1>6 DEF IInv

\* TickStep: as time goes on, fewer messages are recent.
LEMMA TickStep ==
  ASSUME IInv, Tick
  PROVE  IInv'
<1>1. /\ UNCHANGED <<nkeys, revoked, owner, seen, regLeft, sendLeft, callLeft,
                     pc, key, input, slots, owed, rung, kept>>
      /\ clock' = clock + 1 /\ clock < TimeBound
  BY DEF Tick, history
<1>2. clock \in Nat /\ clock' \in 0..TimeBound /\ Retention \in Int
  BY <1>1, RelayAssumption DEF IInv, TypeOK
<1>3. TypeOK'
  BY <1>1, <1>2 DEF IInv, TypeOK
<1>4. \A r \in Requests : Sound(r)' /\ Due(r)' = Due(r) /\ Over(r)' = Over(r)
  BY <1>1 DEF IInv, Sound, Keyed, Early, Reported, Binding, Paid, Placed, Last,
     Due, Over, Indexed
<1>5. \A c : Open(c)' = Open(c) /\ Done(c)' = Done(c)
  BY <1>1, <1>4 DEF Open, Done
<1>6. Ledger' /\ Rings'
  BY <1>1, <1>5 DEF IInv, Ledger, Rings
<1>7. ASSUME NEW r \in Requests, NEW t \in Tokens, NEW b \in Times, Pending(r, t, b)'
      PROVE  b <= clock' /\ (Recent(b)' => owner[t] = key[r] /\ b <= seen[t])
  <2>1. b \in Nat
    BY DEF Times
  <2>2. Recent(b)' => Recent(b)
    BY <1>1, <1>2, <2>1 DEF Recent
  <2>3. Pending(r, t, b)
    BY <1>1, <1>7 DEF Pending
  <2>4. b <= clock /\ (Recent(b) => owner[t] = key[r] /\ b <= seen[t])
    BY <2>3 DEF IInv, Leased
  <2>5. b <= clock'
    BY <1>1, <1>2, <2>1, <2>4
  <2> QED BY <2>2, <2>4, <2>5
<1>8. Leased'
  BY <1>1, <1>7 DEF Leased
<1> QED BY <1>3, <1>4, <1>6, <1>8 DEF IInv

\* SameStep: Refuse, and a stuttering step.
LEMMA SameStep ==
  ASSUME IInv, UNCHANGED vars
  PROVE  IInv'
<1>1. UNCHANGED <<nkeys, revoked, owner, seen, clock, regLeft, sendLeft, callLeft,
                  pc, key, input, slots, owed, rung, kept>>
  BY DEF vars
<1>2. TypeOK'
  BY <1>1 DEF IInv, TypeOK
<1>3. \A r \in Requests : Sound(r)' /\ Due(r)' = Due(r) /\ Over(r)' = Over(r)
  BY <1>1 DEF IInv, Sound, Keyed, Early, Reported, Binding, Paid, Placed, Last,
     Due, Over, Indexed
<1>4. \A c : Open(c)' = Open(c) /\ Done(c)' = Done(c)
  BY <1>1, <1>3 DEF Open, Done
<1>5. Ledger' /\ Rings'
  BY <1>1, <1>4 DEF IInv, Ledger, Rings
<1>6. Leased'
  BY <1>1 DEF IInv, Leased, Recent, Pending
<1> QED BY <1>2, <1>3, <1>5, <1>6 DEF IInv

-----------------------------------------------------------------------------
(* The theorems.                                                           *)

\* InvInit: the empty process satisfies the invariant.
LEMMA InvInit == Init => IInv
<1> SUFFICES ASSUME Init PROVE IInv
  OBVIOUS
<1>1. \A r \in Requests : /\ pc[r] = "idle" /\ key[r] = NoKey /\ input[r] = << >>
                          /\ slots[r] = << >> /\ owed[r] = {}
                          /\ DOMAIN slots[r] = {} /\ DOMAIN input[r] = {}
  BY DEF Init
<1>2. TypeOK
  <2>1. << >> \in Seq(Messages) /\ << >> \in Seq(Slots) /\ Len(<< >>) = 0
    OBVIOUS
  <2>2. /\ nkeys \in 0..MaxRegistrations /\ owner \in [Tokens -> 0..nkeys]
        /\ revoked \subseteq 1..nkeys
        /\ regLeft \in 0..RegisterBurst
        /\ sendLeft \in [AllKeys -> 0..SendBurst]
        /\ callLeft \in [AllKeys -> 0..CallBurst]
        /\ rung \in [AllKeys -> Nat] /\ kept \in [AllKeys -> Nat]
        /\ key \in [Requests -> 0..nkeys]
        /\ seen \in [Tokens -> 0..TimeBound] /\ clock \in 0..TimeBound
    BY RelayAssumption DEF Init, NoKey
  <2>3. /\ pc \in [Requests -> {"idle", "issue", "admit", "decode", "parse",
                                "bind", "dispatch", "refund"}]
        /\ input \in [Requests -> Seq(Messages)]
        /\ slots \in [Requests -> Seq(Slots)]
        /\ DOMAIN owed = Requests
    BY <2>1 DEF Init
  <2>4. \A r \in Requests : /\ Len(slots[r]) <= Len(input[r])
                            /\ Len(input[r]) <= MaxMessages
                            /\ owed[r] \subseteq DOMAIN slots[r]
    BY <1>1, <2>1, RelayAssumption
  <2> QED BY <2>2, <2>3, <2>4 DEF TypeOK
<1>3. \A r \in Requests : Sound(r)
  BY <1>1 DEF Sound, Keyed, Early, Reported, Binding, Paid, Placed, Busy, Indexed
<1>4. \A r \in Requests : /\ Due(r) = {} /\ Over(r) = {}
                          /\ \A t \in Tokens, b \in Times : ~Pending(r, t, b)
  BY <1>1, NothingDue
<1>5. \A k : Open(k) = {} /\ Done(k) = {}
  BY <1>4 DEF Open, Done
<1>6. IsFiniteSet({}) /\ Cardinality({}) = 0
  BY FS_EmptySet
<1>7. \A k \in AllKeys : callLeft[k] = CallBurst /\ kept[k] = 0 /\ rung[k] = 0
  BY DEF Init
<1>8. \A k \in AllKeys : /\ IsFiniteSet(Open(k)) /\ Cardinality(Open(k)) = 0
                         /\ Cardinality(Done(k)) = 0
  BY <1>5, <1>6
<1>9. Ledger /\ Rings
  BY <1>7, <1>8, RelayAssumption DEF Ledger, Rings
<1> QED BY <1>2, <1>3, <1>4, <1>9 DEF IInv, Leased

\* InvNext: every step keeps the invariant.
LEMMA InvNext == IInv /\ [Next]_vars => IInv'
<1> SUFFICES ASSUME IInv, [Next]_vars PROVE IInv'
  OBVIOUS
<1>1. ASSUME NEW r \in Requests, Register(r) PROVE IInv'
  BY <1>1, RegisterStep
<1>2. ASSUME NEW r \in Requests, Issue(r) PROVE IInv'
  BY <1>2, IssueStep
<1>3. ASSUME NEW r \in Requests, NEW k \in 1..nkeys, Verify(r, k) PROVE IInv'
  BY <1>3, VerifyStep
<1>4. ASSUME NEW r \in Requests, Refuse(r) PROVE IInv'
  BY <1>4, SameStep DEF Refuse
<1>5. ASSUME NEW r \in Requests, Admit(r) PROVE IInv'
  BY <1>5, AdmitStep
<1>6. ASSUME NEW r \in Requests, Decode(r) PROVE IInv'
  BY <1>6, DecodeStep
<1>7. ASSUME NEW r \in Requests, NEW m \in Messages, Parse(r, m) PROVE IInv'
  BY <1>7, ParseStep
<1>8. ASSUME NEW r \in Requests, Bind(r) PROVE IInv'
  BY <1>8, BindStep
<1>9. ASSUME NEW r \in Requests, Dispatch(r) PROVE IInv'
  BY <1>9, DispatchStep
<1>10. ASSUME NEW r \in Requests, NEW i \in DOMAIN slots[r],
              NEW s \in SendStatuses, NEW c \in BOOLEAN, Settle(r, i, s, c)
       PROVE  IInv'
  BY <1>10, SettleStep
<1>11. ASSUME NEW r \in Requests, Finish(r) PROVE IInv'
  BY <1>11, FinishStep
<1>12. ASSUME NEW r \in Requests, Refund(r) PROVE IInv'
  BY <1>12, RefundStep
<1>13. ASSUME NEW r \in Requests, Respond(r) PROVE IInv'
  BY <1>13, RespondStep
<1>14. ASSUME NEW k \in 1..nkeys, Revoke(k) PROVE IInv'
  BY <1>14, RevokeStep
<1>15. ASSUME NEW t \in Tokens, Lapse(t) PROVE IInv'
  BY <1>15, LapseStep
<1>16. ASSUME Tick PROVE IInv'
  BY <1>16, TickStep
<1>17. CASE UNCHANGED vars
  BY <1>17, SameStep
<1> QED BY <1>1, <1>2, <1>3, <1>4, <1>5, <1>6, <1>7, <1>8, <1>9, <1>10, <1>11,
           <1>12, <1>13, <1>14, <1>15, <1>16, <1>17 DEF Next

\* RelayInvariant: the inductive invariant, of all concurrent requests.
THEOREM RelayInvariant == Spec => []IInv
BY InvInit, InvNext, PTL DEF Spec

\* TypeCorrect: the handlers and what they share keep their types; a budget
\* is never overdrawn and never above its burst.
THEOREM TypeCorrect == Spec => []TypeOK
<1>1. IInv => TypeOK
  BY DEF IInv
<1> QED BY <1>1, RelayInvariant, PTL

\* DeliverOwnOnlyHolds: at the time of a delivery the token is bound to the
\* key of the request, whatever the other handlers, the administrator and
\* the sweep did since it was checked, for as long as the retention time.
THEOREM DeliverOwnOnlyHolds == Spec => []DeliverOwnOnly
<1>1. IInv => DeliverOwnOnly
  <2> SUFFICES ASSUME IInv, NEW r \in Requests, NEW i \in DOMAIN slots[r],
                      slots[r][i].status = "unset", Fresh(slots[r][i])
               PROVE  owner[slots[r][i].tok] = key[r]
    BY DEF DeliverOwnOnly
  <2>1. slots[r] \in Seq(Slots)
    BY DEF IInv, TypeOK
  <2>2. slots[r][i] \in Slots
    BY <2>1, SeqFacts
  <2>3. PICK t \in Tokens, b \in Times : t = slots[r][i].tok /\ b = slots[r][i].bound
    BY <2>2 DEF Slots, Times
  <2>4. Pending(r, t, b) /\ Recent(b)
    BY <2>3 DEF Pending, Recent, Fresh
  <2> QED BY <2>3, <2>4 DEF IInv, Leased
<1> QED BY <1>1, RelayInvariant, PTL

\* RingBoundHolds: no number of concurrent requests rings more often than
\* the call budget allows: what has rung is settled, and what is settled has
\* been charged.
THEOREM RingBoundHolds == Spec => []RingBound
<1>1. IInv => RingBound
  <2> SUFFICES ASSUME IInv, NEW k \in AllKeys PROVE rung[k] <= CallBurst
    BY DEF RingBound
  <2>1. /\ IsFiniteSet(Open(k))
        /\ callLeft[k] + kept[k] + Cardinality(Open(k)) = CallBurst
        /\ rung[k] <= kept[k] + Cardinality(Done(k))
    BY DEF IInv, Ledger, Rings
  <2>2. IsFiniteSet(Done(k)) /\ Cardinality(Done(k)) <= Cardinality(Open(k))
    BY <2>1, DoneInOpen, FS_Subset
  <2>3. Cardinality(Open(k)) \in Nat /\ Cardinality(Done(k)) \in Nat
    BY <2>1, <2>2, FS_CardinalityType
  <2>4. callLeft[k] \in Nat /\ kept[k] \in Nat /\ rung[k] \in Nat
    BY RelayAssumption DEF IInv, TypeOK
  <2> QED BY <2>1, <2>2, <2>3, <2>4, RelayAssumption
<1> QED BY <1>1, RelayInvariant, PTL

\* BudgetConservedHolds: refundNotAttemptedCalls gives back exactly the
\* charges of calls that were never attempted.
THEOREM BudgetConservedHolds == Spec => []BudgetConserved
<1>1. IInv => BudgetConserved
  <2> SUFFICES ASSUME IInv, \A r \in Requests : pc[r] = "idle", NEW k \in AllKeys
               PROVE  callLeft[k] + kept[k] = CallBurst
    BY DEF BudgetConserved
  <2>1. \A r \in Requests : slots[r] = << >> /\ owed[r] = {} /\ pc[r] # "bind"
    BY DEF IInv, Sound, Early, Busy
  <2>2. Open(k) = {}
    BY <2>1, NothingDue DEF Open
  <2>3. Cardinality(Open(k)) = 0
    BY <2>2, FS_EmptySet
  <2>4. callLeft[k] \in Nat /\ kept[k] \in Nat
    BY RelayAssumption DEF IInv, TypeOK
  <2>5. callLeft[k] + kept[k] + Cardinality(Open(k)) = CallBurst
    BY DEF IInv, Ledger
  <2> QED BY <2>3, <2>4, <2>5
<1> QED BY <1>1, RelayInvariant, PTL

\* ResultsMatchHolds: the answer lists the messages with a token, in order,
\* each with a status.
THEOREM ResultsMatchHolds == Spec => []ResultsMatch
<1>1. IInv => ResultsMatch
  <2> SUFFICES ASSUME IInv, NEW r \in Requests, pc[r] = "refund"
               PROVE  /\ Placed(r)
                      /\ \A i \in DOMAIN slots[r] : slots[r][i].status # "unset"
    BY DEF ResultsMatch, Placed
  <2> QED BY DEF IInv, Sound, Reported
<1> QED BY <1>1, RelayInvariant, PTL
=============================================================================
