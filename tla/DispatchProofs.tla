--------------------------- MODULE DispatchProofs ---------------------------
(***************************************************************************)
(* Theorems about Dispatch, for every batch, every number of workers and   *)
(* every set of platforms without credentials.                             *)
(*                                                                         *)
(* The inductive invariant IInv divides the items at next, which the feed  *)
(* loop advances: behind it an item is in the hands of exactly one worker  *)
(* or its slot is written, ahead of it nothing has happened.  What was     *)
(* heard of an item is then told apart by who holds it.                    *)
(***************************************************************************)
EXTENDS Dispatch, ProviderProofs

Messages == [platform : Platforms, kind : Kinds]

\* Request: what the caller sent, which nothing changes.
Request == batch \in [Items -> Messages] /\ stubs \in SUBSET Platforms

\* Known: the history is about items.
Known == taken \subseteq Items /\ dead \subseteq Items /\ heard \subseteq Items

\* InHand: a worker holds an item that was handed out, that no other worker
\* holds, whose slot nobody has written and of which nothing is known but
\* what the worker's own reply says.
InHand ==
  \A w \in Workers : job[w] \in Items =>
    /\ job[w] < next
    /\ \A v \in Workers : job[v] = job[w] => v = w
    /\ result[job[w]] = "unset"
    /\ job[w] \notin heard
    /\ reply[w] = NoReply => /\ contacts[job[w]] = 0
                             /\ job[w] \notin taken
                             /\ job[w] \notin dead
    /\ reply[w] # NoReply => /\ contacts[job[w]] = 1
                             /\ job[w] \in taken <=> Accepts(reply[w])
                             /\ reply[w] \in Replies(batch[job[w]],
                                                     job[w] \in dead)

\* EmptyHanded: a worker that holds nothing has no reply.
EmptyHanded == \A w \in Workers : job[w] \notin Items => reply[w] = NoReply

\* Ahead: nothing has happened to an item that was not handed out.
Ahead ==
  \A i \in Items : i >= next =>
    /\ result[i] \in {"unset", "not_attempted"}
    /\ contacts[i] = 0
    /\ i \notin taken /\ i \notin dead /\ i \notin heard

\* Behind: an item that was handed out has a status or a worker.
Behind ==
  \A i \in Items : i < next =>
    \/ result[i] \in SendStatuses
    \/ result[i] = "unset" /\ \E w \in Workers : job[w] = i

\* Settled: a status says what is known of its item.
Settled ==
  \A i \in Items : result[i] \in SendStatuses =>
    /\ contacts[i] <= 1
    /\ result[i] = "delivered" => i \in taken
    /\ i \in taken => \/ result[i] = "delivered"
                      \/ result[i] = "error" /\ i \notin heard
    /\ result[i] = "unregistered" => i \in dead
    /\ i \in heard /\ i \in dead => result[i] = "unregistered"

\* Marked: slots are marked when every worker is gone, and then no slot is
\* left out.
Marked ==
  /\ phase = "done" => /\ \A w \in Workers : job[w] = Gone
                       /\ \A i \in Items : result[i] # "unset"
  /\ \A i \in Items : result[i] = "not_attempted" => phase = "done"

\* Logging: a platform is in the request's map when one of its messages was
\* rejected, and its line is written then.
Logging ==
  /\ \A p \in Platforms : lines[p] = IF p \in logged THEN 1 ELSE 0
  /\ \A p \in Platforms :
       p \in logged <=> \E i \in Items : /\ batch[i].platform = p /\ p \in stubs
                                         /\ result[i] = "error"

IInv == /\ TypeOK /\ Request /\ Known /\ InHand /\ EmptyHanded
        /\ Ahead /\ Behind /\ Settled /\ Marked /\ Logging

-----------------------------------------------------------------------------
(* The initial states.                                                     *)

\* IInvInit: the invariant holds when dispatch starts.
LEMMA IInvInit == Init => IInv
<1> SUFFICES ASSUME Init PROVE IInv
  OBVIOUS
<1> USE DispatchAssumption DEF Init
<1>1. Request
  BY DEF Request, Messages
<1>2. Idle \notin Items /\ Gone \notin Items /\ 1 \in 1..N + 1
  BY DEF Idle, Gone, Items
<1>3. TypeOK
  BY <1>2 DEF TypeOK
<1>4. Known /\ EmptyHanded /\ InHand
  BY <1>2 DEF Known, EmptyHanded, InHand
<1>5. Ahead /\ Behind
  BY DEF Ahead, Behind, Items
<1>6. Settled /\ Marked
  BY DEF Settled, Marked, SendStatuses
<1>7. Logging
  BY DEF Logging
<1> QED BY <1>1, <1>3, <1>4, <1>5, <1>6, <1>7 DEF IInv

-----------------------------------------------------------------------------
(* Steps that touch no item.                                               *)

\* ExpireStep: the context ends.
LEMMA ExpireStep == IInv /\ Expire => IInv'
<1> SUFFICES ASSUME IInv, Expire PROVE IInv'
  OBVIOUS
<1> USE DEF IInv, Expire, request, history
<1>1. TypeOK'
  BY DEF TypeOK
<1>2. Request' /\ Known' /\ EmptyHanded'
  BY DEF Request, Known, EmptyHanded
<1>3. InHand'
  BY DEF InHand
<1>4. Ahead' /\ Behind' /\ Settled' /\ Marked' /\ Logging'
  BY DEF Ahead, Behind, Settled, Marked, Logging
<1> QED BY <1>1, <1>2, <1>3, <1>4

\* StopFeedStep: the channel is closed.
LEMMA StopFeedStep == IInv /\ StopFeed => IInv'
<1> SUFFICES ASSUME IInv, StopFeed PROVE IInv'
  OBVIOUS
<1> USE DEF IInv, StopFeed, request, history
<1>1. TypeOK'
  BY DEF TypeOK
<1>2. Request' /\ Known' /\ EmptyHanded'
  BY DEF Request, Known, EmptyHanded
<1>3. InHand'
  BY DEF InHand
<1>4. Ahead' /\ Behind' /\ Settled' /\ Marked' /\ Logging'
  BY DEF Ahead, Behind, Settled, Marked, Logging
<1> QED BY <1>1, <1>2, <1>3, <1>4

\* FinishStep: every worker is gone, so the slots that are not written are
\* those ahead of next.
LEMMA FinishStep == IInv /\ Finish => IInv'
<1> SUFFICES ASSUME IInv, Finish PROVE IInv'
  OBVIOUS
<1> USE DispatchAssumption DEF IInv, Finish, request, history
<1>1. /\ Gone \notin Items
      /\ \A w \in Workers : job[w] \notin Items
  BY DEF Gone, Items
<1>2. \A i \in Items : /\ result'[i] \in SendStatuses <=> result[i] \in SendStatuses
                       /\ result[i] \in SendStatuses => result'[i] = result[i]
                       /\ result'[i] # "unset"
                       /\ result[i] # "unset" => result'[i] = result[i]
                       /\ result'[i] = "error" <=> result[i] = "error"
  BY DEF SendStatuses
<1>3. TypeOK'
  BY DEF TypeOK, SendStatuses
<1>4. Request' /\ Known' /\ EmptyHanded'
  BY DEF Request, Known, EmptyHanded
<1>5. InHand'
  BY <1>1 DEF InHand
<1>6. Ahead'
  BY DEF Ahead
<1>7. Behind'
  BY <1>1, <1>2 DEF Behind
<1>8. Settled'
  BY <1>2 DEF Settled
<1>9. Marked'
  BY <1>2 DEF Marked
<1>10. Logging'
  BY <1>2 DEF Logging
<1> QED BY <1>3, <1>4, <1>5, <1>6, <1>7, <1>8, <1>9, <1>10

\* ExitStep: a worker that holds nothing goes.
LEMMA ExitStep == IInv /\ (\E w \in Workers : Exit(w)) => IInv'
<1> SUFFICES ASSUME IInv, NEW w \in Workers, Exit(w) PROVE IInv'
  OBVIOUS
<1> USE DispatchAssumption DEF IInv, Exit, request, history
<1>1. Idle \notin Items /\ Gone \notin Items
  BY DEF Idle, Gone, Items
<1>2. /\ job' \in [Workers -> Items \cup {Idle, Gone}]
      /\ job'[w] = Gone
      /\ \A v \in Workers : v # w => job'[v] = job[v]
  BY DEF TypeOK
<1>3. \A v \in Workers : \A i \in Items : job'[v] = i <=> job[v] = i
  BY <1>1, <1>2
<1>4. TypeOK'
  BY <1>1, <1>2 DEF TypeOK
<1>5. Request' /\ Known'
  BY DEF Request, Known
<1>6. EmptyHanded'
  BY <1>3 DEF EmptyHanded
<1>7. InHand'
  BY <1>3 DEF InHand
<1>8. Ahead' /\ Settled' /\ Logging'
  BY DEF Ahead, Settled, Logging
<1>9. Behind'
  BY <1>3 DEF Behind
<1>10. Marked'
  BY <1>2 DEF Marked
<1> QED BY <1>4, <1>5, <1>6, <1>7, <1>8, <1>9, <1>10

-----------------------------------------------------------------------------
(* An item is handed out.                                                  *)

\* HandOffStep: the item at next, which nobody holds, moves behind it.
LEMMA HandOffStep == IInv /\ (\E w \in Workers : HandOff(w)) => IInv'
<1> SUFFICES ASSUME IInv, NEW w \in Workers, HandOff(w) PROVE IInv'
  OBVIOUS
<1> USE DispatchAssumption DEF IInv, HandOff, request, history
<1>1. Idle \notin Items /\ Gone \notin Items /\ Gone # Idle
  BY DEF Idle, Gone, Items
<1>2. /\ next \in Items /\ next \in Nat /\ next' = next + 1
      /\ next' \in 1..N + 1
  BY DEF TypeOK, Items
<1>3. /\ job' \in [Workers -> Items \cup {Idle, Gone}]
      /\ job'[w] = next
      /\ \A v \in Workers : v # w => job'[v] = job[v]
  BY <1>2 DEF TypeOK
<1>4. \A v \in Workers : job[v] # next
  BY <1>2 DEF InHand
<1>5. reply[w] = NoReply
  BY <1>1 DEF EmptyHanded
<1>6. /\ result[next] = "unset" /\ contacts[next] = 0
      /\ next \notin taken /\ next \notin dead /\ next \notin heard
  BY <1>2 DEF Ahead, Marked
<1>7. TypeOK'
  BY <1>2, <1>3, <1>5 DEF TypeOK
<1>8. Request' /\ Known'
  BY DEF Request, Known
<1>9. EmptyHanded'
  BY <1>2, <1>3 DEF EmptyHanded
<1>10. InHand'
  <2>1. ASSUME NEW u \in Workers, u # w, job[u] \in Items
        PROVE  job[u] < next + 1
    BY <1>2, <2>1 DEF InHand, Items
  <2> QED BY <1>2, <1>3, <1>4, <1>5, <1>6, <2>1 DEF InHand
<1>11. \A i \in Items : /\ i >= next' => i >= next
                        /\ i < next' => i < next \/ i = next
  BY <1>2 DEF Items
<1>12. Ahead'
  BY <1>11 DEF Ahead
<1>13. Behind'
  BY <1>1, <1>3, <1>6, <1>11 DEF Behind
<1>14. Settled' /\ Logging'
  BY DEF Settled, Logging
<1>15. Marked'
  BY DEF Marked
<1> QED BY <1>7, <1>8, <1>9, <1>10, <1>12, <1>13, <1>14, <1>15

-----------------------------------------------------------------------------
(* A provider is reached.                                                  *)

\* ReplyIsOne: a reply is not mistaken for none.
LEMMA ReplyIsOne ==
  ASSUME NEW m \in Messages, NEW d \in BOOLEAN, NEW r \in Replies(m, d)
  PROVE  r # NoReply
<1>1. r.from \in {"apns", "fcm"}
  BY ReplyMeaning DEF Messages
<1> QED BY <1>1 DEF NoReply

\* ContactStep: the holder of an item makes its first round trip.
LEMMA ContactStep == IInv /\ (\E w \in Workers : Contact(w)) => IInv'
<1> SUFFICES ASSUME IInv, NEW w \in Workers, Contact(w) PROVE IInv'
  OBVIOUS
<1> USE DispatchAssumption DEF IInv, request
<1> DEFINE i == job[w]
<1>1. /\ i \in Items /\ reply[w] = NoReply
      /\ UNCHANGED <<request, phase, next, job, logged, result, expired, heard,
                     lines>>
      /\ contacts' = [contacts EXCEPT ![i] = @ + 1]
  BY DEF Contact, Configured
<1>2. PICK d \in BOOLEAN : \E r \in Replies(batch[i], d) :
        /\ reply' = [reply EXCEPT ![w] = r]
        /\ taken' = IF Accepts(r) THEN taken \cup {i} ELSE taken
        /\ dead' = IF d THEN dead \cup {i} ELSE dead
  BY DEF Contact
<1>3. PICK r \in Replies(batch[i], d) :
        /\ reply' = [reply EXCEPT ![w] = r]
        /\ taken' = IF Accepts(r) THEN taken \cup {i} ELSE taken
        /\ dead' = IF d THEN dead \cup {i} ELSE dead
  BY <1>2
<1>4. batch[i] \in Messages
  BY <1>1 DEF Request
<1>5. r # NoReply
  BY <1>4, ReplyIsOne
<1>6. /\ contacts[i] = 0 /\ i \notin taken /\ i \notin dead /\ i \notin heard
      /\ i < next /\ result[i] = "unset"
      /\ \A v \in Workers : v # w => job[v] # i
  BY <1>1 DEF InHand
<1>7. /\ DOMAIN reply' = Workers /\ reply'[w] = r
      /\ \A v \in Workers : v # w => reply'[v] = reply[v]
  BY <1>3 DEF TypeOK
<1>8. /\ contacts' \in [Items -> Nat] /\ contacts'[i] = 1
      /\ \A j \in Items : j # i => contacts'[j] = contacts[j]
  BY <1>1, <1>6 DEF TypeOK
<1>9. /\ i \in taken' <=> Accepts(r)
      /\ (i \in dead') = d
      /\ \A j \in Items : j # i => /\ j \in taken' <=> j \in taken
                                   /\ j \in dead' <=> j \in dead
  BY <1>3, <1>6
<1> HIDE DEF i
<1>10. TypeOK'
  <2>1. ASSUME NEW v \in Workers, reply'[v] # NoReply
        PROVE  /\ job'[v] \in Items
               /\ \E e \in BOOLEAN : reply'[v] \in Replies(batch'[job'[v]], e)
    <3>1. CASE v = w
      BY <1>1, <1>3, <1>7, <3>1 DEF i
    <3>2. CASE v # w
      BY <1>1, <1>7, <2>1, <3>2 DEF TypeOK
    <3> QED BY <3>1, <3>2
  <2> QED BY <1>1, <1>7, <1>8, <2>1 DEF TypeOK
<1>11. Request'
  BY <1>1 DEF Request
<1>12. Known'
  BY <1>1, <1>3 DEF Known
<1>13. EmptyHanded'
  BY <1>1, <1>7 DEF EmptyHanded, i
<1>14. InHand'
  <2> SUFFICES ASSUME NEW v \in Workers, job[v] \in Items
               PROVE  /\ job[v] < next
                      /\ \A u \in Workers : job[u] = job[v] => u = v
                      /\ result[job[v]] = "unset"
                      /\ job[v] \notin heard
                      /\ reply'[v] = NoReply => /\ contacts'[job[v]] = 0
                                                /\ job[v] \notin taken'
                                                /\ job[v] \notin dead'
                      /\ reply'[v] # NoReply =>
                           /\ contacts'[job[v]] = 1
                           /\ job[v] \in taken' <=> Accepts(reply'[v])
                           /\ reply'[v] \in Replies(batch[job[v]],
                                                    job[v] \in dead')
    BY <1>1 DEF InHand
  <2>1. CASE v = w
    <3>1. job[v] = i /\ reply'[v] = r
      BY <1>7, <2>1 DEF i
    <3>2. \A u \in Workers : job[u] = job[v] => u = v
      BY <1>6, <2>1, <3>1
    <3>3. r \in Replies(batch[i], i \in dead')
      BY <1>9, <1>3
    <3> QED BY <1>5, <1>6, <1>8, <1>9, <3>1, <3>2, <3>3
  <2>2. CASE v # w
    <3>1. job[v] # i /\ reply'[v] = reply[v]
      BY <1>6, <1>7, <2>2
    <3>2. /\ contacts'[job[v]] = contacts[job[v]]
          /\ job[v] \in taken' <=> job[v] \in taken
          /\ (job[v] \in dead') = (job[v] \in dead)
      BY <1>8, <1>9, <3>1
    <3> QED BY <3>1, <3>2 DEF InHand
  <2> QED BY <2>1, <2>2
<1>15. Ahead'
  <2> SUFFICES ASSUME NEW j \in Items, j >= next
               PROVE  /\ result[j] \in {"unset", "not_attempted"}
                      /\ contacts'[j] = 0
                      /\ j \notin taken' /\ j \notin dead' /\ j \notin heard
    BY <1>1 DEF Ahead
  <2>1. j # i
    BY <1>6 DEF TypeOK, Items
  <2> QED BY <1>8, <1>9, <2>1 DEF Ahead
<1>16. Behind' /\ Marked'
  BY <1>1 DEF Behind, Marked
<1>17. Settled'
  <2> SUFFICES ASSUME NEW j \in Items, result[j] \in SendStatuses
               PROVE  /\ contacts'[j] <= 1
                      /\ result[j] = "delivered" => j \in taken'
                      /\ j \in taken' => \/ result[j] = "delivered"
                                         \/ result[j] = "error" /\ j \notin heard
                      /\ result[j] = "unregistered" => j \in dead'
                      /\ j \in heard /\ j \in dead' => result[j] = "unregistered"
    BY <1>1 DEF Settled
  <2>1. j # i
    BY <1>6 DEF SendStatuses
  <2> QED BY <1>8, <1>9, <2>1 DEF Settled
<1>18. Logging'
  BY <1>1 DEF Logging
<1> QED BY <1>10, <1>11, <1>12, <1>13, <1>14, <1>15, <1>16, <1>17, <1>18

-----------------------------------------------------------------------------
(* A slot is written.                                                      *)

\* Written(i, s): the slot of item i says s now, no other slot has changed,
\* and the invariant holds but for what is logged.
Written(i, s) ==
  /\ job' \in [Workers -> Items \cup {Idle, Gone}]
  /\ DOMAIN reply' = Workers
  /\ \A v \in Workers : reply'[v] # NoReply =>
       /\ job'[v] \in Items
       /\ \E d \in BOOLEAN : reply'[v] \in Replies(batch'[job'[v]], d)
  /\ result' \in [Items -> SendStatuses \cup {"unset", "not_attempted"}]
  /\ result'[i] = s
  /\ \A j \in Items : j # i => result'[j] = result[j]
  /\ Request' /\ Known' /\ InHand' /\ EmptyHanded'
  /\ Ahead' /\ Behind' /\ Settled' /\ Marked'

\* WriteFrame: what the three ways to write a slot have in common.  The
\* status is one of a Sender's, nothing else is learnt about any item but
\* that the holder may have heard from the provider, and the status says
\* what is known.
LEMMA WriteFrame ==
  ASSUME IInv, NEW w \in Workers, NEW s \in SendStatuses, job[w] \in Items,
         Write(w, s), UNCHANGED <<contacts, taken, dead>>,
         heard' = heard \/ heard' = heard \cup {job[w]},
         s = "delivered" => job[w] \in taken,
         job[w] \in taken => s = "delivered" \/ (s = "error" /\ job[w] \notin heard'),
         s = "unregistered" => job[w] \in dead,
         job[w] \in heard' /\ job[w] \in dead => s = "unregistered"
  PROVE  Written(job[w], s)
<1> USE DispatchAssumption DEF IInv, Write, request
<1> DEFINE i == job[w]
<1>1. Idle \notin Items /\ Gone \notin Items /\ Gone # Idle
  BY DEF Idle, Gone, Items
<1>2. /\ job' \in [Workers -> Items \cup {Idle, Gone}]
      /\ job'[w] = Idle
      /\ \A v \in Workers : v # w => job'[v] = job[v] /\ job[v] # i
  BY DEF TypeOK, InHand
<1>3. /\ DOMAIN reply' = Workers /\ reply'[w] = NoReply
      /\ \A v \in Workers : v # w => reply'[v] = reply[v]
  BY DEF TypeOK
<1>4. /\ result' \in [Items -> SendStatuses \cup {"unset", "not_attempted"}]
      /\ result'[i] = s
      /\ \A j \in Items : j # i => result'[j] = result[j]
  BY DEF TypeOK
<1>5. i < next /\ i \in Nat /\ next \in Nat /\ result[i] = "unset"
  BY DEF InHand, TypeOK, Items
<1>6. contacts[i] <= 1
  BY DEF InHand
<1>7. \A j \in Items : j # i => (j \in heard' <=> j \in heard)
  OBVIOUS
<1>8. \A v \in Workers : reply'[v] # NoReply =>
        /\ job'[v] \in Items
        /\ \E d \in BOOLEAN : reply'[v] \in Replies(batch'[job'[v]], d)
  BY <1>2, <1>3 DEF TypeOK
<1>9. Request' /\ Known'
  BY DEF Request, Known
<1>10. EmptyHanded'
  BY <1>2, <1>3 DEF EmptyHanded
<1> HIDE DEF i
<1>11. InHand'
  <2> SUFFICES ASSUME NEW v \in Workers, job'[v] \in Items
               PROVE  /\ job'[v] < next
                      /\ \A u \in Workers : job'[u] = job'[v] => u = v
                      /\ result'[job'[v]] = "unset"
                      /\ job'[v] \notin heard'
                      /\ reply'[v] = NoReply => /\ contacts[job'[v]] = 0
                                                /\ job'[v] \notin taken
                                                /\ job'[v] \notin dead
                      /\ reply'[v] # NoReply =>
                           /\ contacts[job'[v]] = 1
                           /\ job'[v] \in taken <=> Accepts(reply'[v])
                           /\ reply'[v] \in Replies(batch[job'[v]],
                                                    job'[v] \in dead)
    BY DEF InHand
  <2>1. v # w /\ job'[v] = job[v] /\ job[v] # i /\ reply'[v] = reply[v]
    BY <1>1, <1>2, <1>3
  <2>2. \A u \in Workers : job'[u] = job'[v] => u = v
    BY <1>1, <1>2, <2>1 DEF InHand
  <2>3. result'[job'[v]] = "unset" /\ job'[v] \notin heard'
    BY <1>4, <1>7, <2>1 DEF InHand
  <2> QED BY <2>1, <2>2, <2>3 DEF InHand
<1>12. Ahead'
  <2>1. \A j \in Items : j >= next => j # i
    BY <1>5 DEF Items
  <2> QED BY <1>4, <1>7, <2>1 DEF Ahead
<1>13. Behind'
  <2> SUFFICES ASSUME NEW j \in Items, j < next
               PROVE  \/ result'[j] \in SendStatuses
                      \/ result'[j] = "unset" /\ \E v \in Workers : job'[v] = j
    BY DEF Behind
  <2>1. CASE j = i
    BY <1>4, <2>1
  <2>2. CASE j # i
    BY <1>2, <1>4, <2>2 DEF Behind, i
  <2> QED BY <2>1, <2>2
<1>14. Settled'
  <2> SUFFICES ASSUME NEW j \in Items, result'[j] \in SendStatuses
               PROVE  /\ contacts[j] <= 1
                      /\ result'[j] = "delivered" => j \in taken
                      /\ j \in taken => \/ result'[j] = "delivered"
                                        \/ result'[j] = "error" /\ j \notin heard'
                      /\ result'[j] = "unregistered" => j \in dead
                      /\ j \in heard' /\ j \in dead => result'[j] = "unregistered"
    BY DEF Settled
  <2>1. CASE j = i
    BY <1>4, <1>6, <2>1 DEF i
  <2>2. CASE j # i
    BY <1>4, <1>7, <2>2 DEF Settled
  <2> QED BY <2>1, <2>2
<1>15. Marked'
  BY <1>1, <1>4 DEF Marked, SendStatuses, i
<1> QED BY <1>2, <1>3, <1>4, <1>8, <1>9, <1>10, <1>11, <1>12, <1>13, <1>14, <1>15
       DEF i, Written

\* QuietWrite: a slot written for a platform with credentials changes
\* nothing in the log.
LEMMA QuietWrite ==
  ASSUME IInv, NEW w \in Workers, Configured(w), NEW s,
         Write(w, s), UNCHANGED <<logged, lines>>, result'[job[w]] = s,
         \A j \in Items : j # job[w] => result'[j] = result[j]
  PROVE  Logging'
<1> USE DEF IInv, request, Write
<1>1. \A p \in Platforms :
        (\E j \in Items : /\ batch[j].platform = p /\ p \in stubs
                          /\ result'[j] = "error")
        <=> (\E j \in Items : /\ batch[j].platform = p /\ p \in stubs
                              /\ result[j] = "error")
  BY DEF Configured
<1> QED BY <1>1 DEF Logging

\* SettleStep: the status of a reply is what the provider meant by it
\* (ReplyMeaning).
LEMMA SettleStep == IInv /\ (\E w \in Workers : Settle(w)) => IInv'
<1> SUFFICES ASSUME IInv, NEW w \in Workers, Settle(w) PROVE IInv'
  OBVIOUS
<1> DEFINE i == job[w]
<1>1. /\ i \in Items /\ reply[w] # NoReply /\ Configured(w)
      /\ Write(w, SendStatus(reply[w]))
      /\ heard' = heard \cup {i}
      /\ UNCHANGED <<logged, contacts, taken, dead, lines>>
  BY DEF Settle, Configured
<1>2. /\ i \in taken <=> Accepts(reply[w])
      /\ reply[w] \in Replies(batch[i], i \in dead)
  BY <1>1 DEF IInv, InHand
<1>3. batch[i] \in [platform : Platforms, kind : Kinds]
  BY <1>1 DEF IInv, Request, Messages
<1>4. (i \in dead) \in BOOLEAN
  OBVIOUS
<1>5. /\ SendStatus(reply[w]) \in SendStatuses
      /\ SendStatus(reply[w]) = "unregistered" <=> i \in dead
      /\ SendStatus(reply[w]) = "delivered" <=> Accepts(reply[w])
  BY <1>2, <1>3, <1>4, ReplyMeaning
<1>6. PICK s \in SendStatuses : s = SendStatus(reply[w])
  BY <1>5
<1>7. Written(i, s)
  <2>1. /\ Write(w, s)
        /\ s = "delivered" => i \in taken
        /\ i \in taken => s = "delivered"
        /\ s = "unregistered" <=> i \in dead
    BY <1>1, <1>2, <1>5, <1>6
  <2>2. heard' = heard \/ heard' = heard \cup {i}
    BY <1>1
  <2>3. job[w] \in taken => s = "delivered" \/ (s = "error" /\ job[w] \notin heard')
    BY <2>1
  <2>4. job[w] \in heard' /\ job[w] \in dead => s = "unregistered"
    BY <2>1
  <2> QED BY <1>1, <2>1, <2>2, <2>3, <2>4, WriteFrame, Zenon
<1>8. Logging'
  BY <1>1, <1>6, <1>7, QuietWrite DEF Written
<1>9. TypeOK'
  BY <1>1, <1>7 DEF IInv, TypeOK, Write, Written, request
<1> QED BY <1>7, <1>8, <1>9 DEF IInv, Written

\* FailStep: an error claims nothing.
LEMMA FailStep == IInv /\ (\E w \in Workers : Fail(w)) => IInv'
<1> SUFFICES ASSUME IInv, NEW w \in Workers, Fail(w) PROVE IInv'
  OBVIOUS
<1> DEFINE i == job[w]
<1>1. /\ i \in Items /\ Configured(w) /\ Write(w, "error")
      /\ UNCHANGED <<heard, logged, contacts, taken, dead, lines>>
  BY DEF Fail, Configured, history
<1>2. i \notin heard
  BY <1>1 DEF IInv, InHand
<1>3. "error" \in SendStatuses
  BY DEF SendStatuses
<1>4. Written(i, "error")
  BY <1>1, <1>2, <1>3, WriteFrame
<1>5. Logging'
  BY <1>1, <1>4, QuietWrite DEF Written
<1>6. TypeOK'
  BY <1>1, <1>4 DEF IInv, TypeOK, Write, Written, request
<1> QED BY <1>4, <1>5, <1>6 DEF IInv, Written

\* RejectStep: LoadOrStore lets the first rejection of a platform log.
LEMMA RejectStep == IInv /\ (\E w \in Workers : Reject(w)) => IInv'
<1> SUFFICES ASSUME IInv, NEW w \in Workers, Reject(w) PROVE IInv'
  OBVIOUS
<1> DEFINE i == job[w]
           p == batch[i].platform
<1>1. /\ i \in Items /\ p \in stubs /\ Write(w, "error")
      /\ logged' = logged \cup {p}
      /\ lines' = IF p \in logged THEN lines ELSE [lines EXCEPT ![p] = @ + 1]
      /\ UNCHANGED <<heard, contacts, taken, dead>>
  BY DEF Reject, Stubbed
<1>2. i \notin heard
  BY <1>1 DEF IInv, InHand
<1>3. "error" \in SendStatuses
  BY DEF SendStatuses
<1>4. Written(i, "error")
  BY <1>1, <1>2, <1>3, WriteFrame
<1>5. result[i] = "unset" /\ p \in Platforms
  BY <1>1 DEF IInv, InHand, Request
<1>6. batch' = batch /\ stubs' = stubs
  BY <1>1 DEF Write, request
<1> HIDE DEF p
<1>7. lines' \in [Platforms -> Nat]
  BY <1>1, <1>5 DEF IInv, TypeOK
<1>8. \A q \in Platforms : lines'[q] = IF q \in logged' THEN 1 ELSE 0
  BY <1>1, <1>5 DEF IInv, TypeOK, Logging
<1>9. ASSUME NEW q \in Platforms
      PROVE  q \in logged' <=> \E j \in Items : /\ batch[j].platform = q
                                                /\ q \in stubs
                                                /\ result'[j] = "error"
  <2>1. CASE q = p
    BY <1>1, <1>4, <2>1 DEF p, Written
  <2>2. CASE q # p
    <3>1. q \in logged' <=> q \in logged
      BY <1>1, <2>2
    <3>2. \A j \in Items : batch[j].platform = q => j # i
      BY <2>2 DEF p
    <3> QED BY <1>4, <3>1, <3>2 DEF IInv, Logging, Written
  <2> QED BY <2>1, <2>2
<1>10. Logging'
  BY <1>6, <1>8, <1>9 DEF Logging
<1>11. TypeOK'
  BY <1>1, <1>4, <1>6, <1>7 DEF IInv, TypeOK, Write, Written, request
<1> QED BY <1>4, <1>10, <1>11 DEF IInv, Written

-----------------------------------------------------------------------------
(* The theorems.                                                           *)

\* IInvNext: every step of the pool keeps the invariant.
LEMMA IInvNext == IInv /\ [Next]_vars => IInv'
<1>1. IInv /\ UNCHANGED vars => IInv'
  <2> SUFFICES ASSUME IInv, UNCHANGED vars PROVE IInv'
    OBVIOUS
  <2> USE DEF IInv, vars
  <2>1. TypeOK'
    BY DEF TypeOK
  <2>2. Request' /\ Known' /\ InHand' /\ EmptyHanded'
    BY DEF Request, Known, InHand, EmptyHanded
  <2>3. Ahead' /\ Behind' /\ Settled' /\ Marked' /\ Logging'
    BY DEF Ahead, Behind, Settled, Marked, Logging
  <2> QED BY <2>1, <2>2, <2>3
<1> QED BY <1>1, ExpireStep, StopFeedStep, FinishStep, HandOffStep, ContactStep,
           SettleStep, FailStep, RejectStep, ExitStep DEF Next, Returned

\* DispatchInvariant: IInv holds in every state of the pool.
THEOREM DispatchInvariant == Spec => []IInv
BY IInvInit, IInvNext, PTL DEF Spec

\* TypeCorrect: the variables of the pool keep their types; in particular a
\* worker has a reply only while it holds an item, and a reply to that item.
THEOREM TypeCorrect == Spec => []TypeOK
<1>1. IInv => TypeOK
  BY DEF IInv
<1> QED BY <1>1, DispatchInvariant, PTL

\* NotAttemptedAhead: only what was never handed out is marked.
LEMMA NotAttemptedAhead ==
  ASSUME IInv, NEW i \in Items, result[i] = "not_attempted"
  PROVE  i >= next
<1>1. ~(i < next)
  BY DEF IInv, Behind, SendStatuses
<1>2. i \in Int /\ next \in Int
  BY DispatchAssumption DEF IInv, TypeOK, Items
<1> QED BY <1>1, <1>2

\* NotAttemptedHolds: a message that is reported as not attempted never
\* reached a provider and no worker can still send it.
THEOREM NotAttemptedHolds == Spec => []NotAttemptedIsTrue
<1>1. IInv => NotAttemptedIsTrue
  <2> SUFFICES ASSUME IInv, NEW i \in Items, result[i] = "not_attempted"
               PROVE  contacts[i] = 0 /\ \A w \in Workers : job[w] # i
    BY DEF NotAttemptedIsTrue
  <2>1. i >= next
    BY NotAttemptedAhead
  <2> QED BY <2>1 DEF IInv, Ahead, InHand
<1> QED BY <1>1, DispatchInvariant, PTL

\* NoDoubleSendHolds: no message reaches its provider twice.
THEOREM NoDoubleSendHolds == Spec => []NoDoubleSend
<1>1. IInv => NoDoubleSend
  <2> SUFFICES ASSUME IInv, NEW i \in Items PROVE contacts[i] <= 1
    BY DEF NoDoubleSend
  <2>1. CASE i >= next
    BY <2>1 DEF IInv, Ahead
  <2>2. CASE i < next
    BY <2>2 DEF IInv, Behind, Settled, InHand
  <2> QED BY <2>1, <2>2, DispatchAssumption DEF IInv, TypeOK, Items
<1> QED BY <1>1, DispatchInvariant, PTL

\* CutIsSuffixHolds: the messages that were not attempted are the end of
\* the batch.
THEOREM CutIsSuffixHolds == Spec => []CutIsSuffix
<1>1. IInv => CutIsSuffix
  <2> SUFFICES ASSUME IInv, NEW i \in Items, NEW j \in Items, i < j,
                      result[i] = "not_attempted"
               PROVE  result[j] = "not_attempted"
    BY DEF CutIsSuffix
  <2>1. i >= next
    BY NotAttemptedAhead
  <2>2. j >= next
    BY <2>1, DispatchAssumption DEF IInv, TypeOK, Items
  <2> QED BY <2>2 DEF IInv, Ahead, Marked
<1> QED BY <1>1, DispatchInvariant, PTL

\* TakenReportedHolds: what a provider took is reported as delivered, or as
\* an error when the reply was lost; what is reported as delivered was
\* taken.
THEOREM TakenReportedHolds == Spec => []TakenReported
<1>1. IInv => TakenReported
  <2> SUFFICES ASSUME IInv PROVE TakenReported
    OBVIOUS
  <2>1. ASSUME NEW i \in Items, result[i] = "delivered" PROVE i \in taken
    BY <2>1 DEF IInv, Settled, SendStatuses
  <2>2. ASSUME phase = "done", NEW i \in taken
        PROVE  \/ result[i] = "delivered"
               \/ result[i] = "error" /\ i \notin heard
    <3>1. i \in Items
      BY DEF IInv, Known
    <3>2. i < next
      BY <3>1, DispatchAssumption DEF IInv, TypeOK, Ahead, Items
    <3>3. result[i] \in SendStatuses
      BY <2>2, <3>1, <3>2 DEF IInv, Behind, Marked
    <3> QED BY <3>1, <3>3 DEF IInv, Settled
  <2> QED BY <2>1, <2>2 DEF TakenReported
<1> QED BY <1>1, DispatchInvariant, PTL

\* PruneIsSafeHolds: only a token that a provider called dead is reported
\* as unregistered.
THEOREM PruneIsSafeHolds == Spec => []PruneIsSafe
<1>1. IInv => PruneIsSafe
  BY DEF IInv, Settled, PruneIsSafe, SendStatuses
<1> QED BY <1>1, DispatchInvariant, PTL

\* DeadReportedHolds: a token that a provider called dead is reported as
\* unregistered if the reply came back.
THEOREM DeadReportedHolds == Spec => []DeadReported
<1>1. IInv => DeadReported
  <2> SUFFICES ASSUME IInv, NEW i \in heard, i \in dead
               PROVE  result[i] = "unregistered"
    BY DEF DeadReported
  <2>1. i \in Items
    BY DEF IInv, Known
  <2>2. i < next
    BY <2>1, DispatchAssumption DEF IInv, TypeOK, Ahead, Items
  <2>3. result[i] \in SendStatuses
    BY <2>1, <2>2 DEF IInv, Behind, InHand
  <2> QED BY <2>1, <2>3 DEF IInv, Settled
<1> QED BY <1>1, DispatchInvariant, PTL

\* FitsGatewayHolds: APNs never refuses a notification for its headers.
THEOREM FitsGatewayHolds == Spec => []FitsGateway
<1>1. IInv => FitsGateway
  <2> SUFFICES ASSUME IInv, NEW w \in Workers, reply[w].from = "apns"
               PROVE  reply[w].reason # "BadTopic"
    BY DEF FitsGateway
  <2>1. reply[w] # NoReply
    BY DEF NoReply
  <2>2. PICK d \in BOOLEAN : reply[w] \in Replies(batch[job[w]], d)
    BY <2>1 DEF IInv, TypeOK
  <2>3. batch[job[w]] \in [platform : Platforms, kind : Kinds]
    BY <2>1 DEF IInv, TypeOK, Request, Messages
  <2> QED BY <2>2, <2>3, ReplyMeaning
<1> QED BY <1>1, DispatchInvariant, PTL

\* LoggedOnceHolds: one line for each platform without credentials that the
\* request sends to.
THEOREM LoggedOnceHolds == Spec => []LoggedOnce
<1>1. IInv => LoggedOnce
  BY DEF IInv, Logging, LoggedOnce
<1> QED BY <1>1, DispatchInvariant, PTL

-----------------------------------------------------------------------------
(* The refinement.                                                         *)

\* StepRefines: a step of the pool writes one slot that had no status, or
\* marks the rest, or changes nothing that the caller sees.
LEMMA StepRefines == IInv /\ [Next]_vars => [Outcome!Next]_(Outcome!vars)
<1> SUFFICES ASSUME IInv, [Next]_vars PROVE [Outcome!Next]_(Outcome!vars)
  OBVIOUS
<1>1. ASSUME UNCHANGED result, (phase' = "done") = (phase = "done")
      PROVE  [Outcome!Next]_(Outcome!vars)
  BY <1>1 DEF Outcome!vars
<1>2. CASE Finish
  BY <1>2 DEF Finish, Outcome!Next, Outcome!Finish
<1>3. ASSUME NEW w \in Workers, NEW s, s \in SendStatuses, job[w] \in Items,
             Write(w, s)
      PROVE  [Outcome!Next]_(Outcome!vars)
  <2>1. result[job[w]] = "unset"
    BY <1>3 DEF IInv, InHand
  <2>2. phase # "done"
    BY <1>3, <2>1 DEF IInv, Marked
  <2>3. phase' = phase /\ result' = [result EXCEPT ![job[w]] = s]
    BY <1>3 DEF Write
  <2>4. Outcome!Settle(job[w])
    BY <1>3, <2>1, <2>3 DEF Outcome!Settle
  <2> QED BY <1>3, <2>2, <2>4 DEF Outcome!Next
<1>4. ASSUME NEW w \in Workers, Settle(w) PROVE [Outcome!Next]_(Outcome!vars)
  <2>1. /\ job[w] \in Items /\ reply[w] # NoReply
        /\ Write(w, SendStatus(reply[w]))
    BY <1>4 DEF Settle, Configured
  <2>2. PICK d \in BOOLEAN : reply[w] \in Replies(batch[job[w]], d)
    BY <2>1 DEF IInv, TypeOK
  <2>3. batch[job[w]] \in [platform : Platforms, kind : Kinds]
    BY <2>1 DEF IInv, Request, Messages
  <2>4. PICK s : s \in SendStatuses /\ s = SendStatus(reply[w])
    BY <2>2, <2>3, ReplyMeaning
  <2> QED BY <1>3, <2>1, <2>4
<1>5. ASSUME NEW w \in Workers, Fail(w) \/ Reject(w)
      PROVE  [Outcome!Next]_(Outcome!vars)
  <2>1. "error" \in SendStatuses
    BY DEF SendStatuses
  <2>2. job[w] \in Items /\ Write(w, "error")
    BY <1>5 DEF Fail, Reject, Configured, Stubbed
  <2> QED BY <1>3, <2>1, <2>2
<1>6. CASE \/ Expire
           \/ StopFeed
           \/ \E w \in Workers : HandOff(w) \/ Contact(w) \/ Exit(w)
           \/ Returned
           \/ UNCHANGED vars
  BY <1>1, <1>6
     DEF Expire, StopFeed, HandOff, Contact, Exit, Returned, vars
<1> QED BY <1>2, <1>4, <1>5, <1>6 DEF Next

\* PoolRefines: the pool implements the batch outcome: every slot is written
\* once, and none after the results are complete.
THEOREM PoolRefines == Spec => OutcomeSpec
<1>1. Init => Outcome!Init
  BY DEF Init, Outcome!Init
<1> QED BY <1>1, StepRefines, DispatchInvariant, PTL
        DEF Spec, OutcomeSpec, Outcome!Spec
=============================================================================
