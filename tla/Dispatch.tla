------------------------------ MODULE Dispatch ------------------------------
(***************************************************************************)
(* The bounded worker pool of one /v1/send request: Server.dispatch,       *)
(* internal/api/send.go.  The handler's goroutine feeds the indices of     *)
(* items into an unbuffered channel until they run out or the context is   *)
(* done; the workers send one message at a time and write its slot; then   *)
(* the handler waits for them and marks the slots nobody wrote.  An empty  *)
(* batch returns at once, with the outcome of N = 0.                       *)
(*                                                                         *)
(* A worker calls the Sender of its message's platform: APNs or FCM        *)
(* (Providers), or the stub of a platform without credentials              *)
(* (push.Unconfigured, internal/push/push.go).  The providers and the      *)
(* network are external: a request reaches its provider at most once,      *)
(* perhaps as or after the context ends, and the reply may not come back.  *)
(***************************************************************************)
EXTENDS Providers

CONSTANTS
  N,        \* len(items)
  Batches,  \* the batches that may be sent: a message for every item
  Stubs,    \* the sets of platforms that may be without credentials
  Workers,  \* the goroutines of the pool
  Deadline  \* TRUE when the context can end: a deadline, or the client leaves

Items == 1..N

ASSUME DispatchAssumption ==
  /\ N \in Nat
  /\ Batches \subseteq [Items -> [platform : Platforms, kind : Kinds]]
  /\ Stubs \subseteq SUBSET Platforms
  /\ Workers # {}
  /\ Deadline \in BOOLEAN

VARIABLES
  batch,      \* batch[i]: platform and kind of item i
  stubs,      \* the platforms whose Sender is push.Unconfigured
  phase,      \* where the handler's goroutine is
  next,       \* idx, the item that is handed out next
  job,        \* job[w]: Idle, Gone, or the item worker w is sending
  reply,      \* reply[w]: what the provider answered to w's current Send
  logged,     \* the sync.Map of WithRequestScope: platforms already logged
  result,     \* result[i]: Status of item i's slot, "unset" for the zero value
  expired,    \* ctx.Done() is closed
  \* History.
  contacts,   \* contacts[i]: provider round trips begun for item i
  taken,      \* the items whose message a provider has accepted
  dead,       \* the items whose token the provider said is dead
  heard,      \* the items whose reply came back to the worker
  lines       \* lines[p]: rejections logged for platform p

request == <<batch, stubs>>
history == <<contacts, taken, dead, heard, lines>>
vars == <<batch, stubs, phase, next, job, reply, logged, result, expired,
          contacts, taken, dead, heard, lines>>

Idle == 0       \* waiting in "range work"
Gone == -1      \* the goroutine has called wg.Done
NoReply == [from |-> "none"]

TypeOK ==
  /\ phase \in {"feed", "wait", "done"}
  /\ next \in 1..N + 1
  /\ job \in [Workers -> Items \cup {Idle, Gone}]
  /\ DOMAIN reply = Workers
  /\ \A w \in Workers :
       reply[w] # NoReply => /\ job[w] \in Items
                             /\ \E d \in BOOLEAN :
                                  reply[w] \in Replies(batch[job[w]], d)
  /\ logged \subseteq stubs
  /\ result \in [Items -> SendStatuses \cup {"unset", "not_attempted"}]
  /\ expired \in BOOLEAN
  /\ contacts \in [Items -> Nat]
  /\ lines \in [Platforms -> Nat]

Init ==
  /\ batch \in Batches
  /\ stubs \in Stubs
  /\ phase = "feed"
  /\ next = 1
  /\ job = [w \in Workers |-> Idle]
  /\ reply = [w \in Workers |-> NoReply]
  /\ logged = {}
  /\ result = [i \in Items |-> "unset"]
  /\ expired = FALSE
  /\ contacts = [i \in Items |-> 0]
  /\ taken = {}
  /\ dead = {}
  /\ heard = {}
  /\ lines = [p \in Platforms |-> 0]

-----------------------------------------------------------------------------
(* The context.                                                            *)

Expire ==
  /\ Deadline
  /\ ~expired
  /\ expired' = TRUE
  /\ UNCHANGED <<request, phase, next, job, reply, logged, result, history>>

-----------------------------------------------------------------------------
(* The handler's goroutine.                                                *)

\* Mutant: the hand-off may be repeated, as if the workers shared no channel.
HandOffTwice(w) ==
  /\ phase = "feed"
  /\ next <= N
  /\ job[w] = Idle
  /\ job' = [job EXCEPT ![w] = next]
  /\ next' \in {next, next + 1}
  /\ UNCHANGED <<request, phase, reply, logged, result, expired, history>>

\* Mutant: one item too many.
HandOffPastEnd(w) ==
  /\ phase = "feed"
  /\ next <= N + 1
  /\ job[w] = Idle
  /\ job' = [job EXCEPT ![w] = next]
  /\ next' = next + 1
  /\ UNCHANGED <<request, phase, reply, logged, result, expired, history>>

\* case work <- idx: the channel is unbuffered, so a waiting worker has the
\* item at once.  When the context is done too, select picks either case.
HandOff(w) ==
  /\ phase = "feed"
  /\ next <= N
  /\ job[w] = Idle
  /\ job' = [job EXCEPT ![w] = next]
  /\ next' = next + 1
  /\ UNCHANGED <<request, phase, reply, logged, result, expired, history>>

\* Mutant: the feed loop goes on with the next item after the deadline.
StopFeedSkips ==
  /\ phase = "feed"
  /\ \/ next > N /\ phase' = "wait" /\ UNCHANGED next
     \/ next <= N /\ expired /\ next' = next + 1 /\ UNCHANGED phase
  /\ UNCHANGED <<request, job, reply, logged, result, expired, history>>

\* The items have run out, or case <-ctx.Done(): break feed; close(work).
StopFeed ==
  /\ phase = "feed"
  /\ next > N \/ expired
  /\ phase' = "wait"
  /\ UNCHANGED <<request, next, job, reply, logged, result, expired, history>>

\* Mutant: the slots are marked without waiting for the workers.
FinishNoWait ==
  /\ phase = "wait"
  /\ phase' = "done"
  /\ result' = [i \in Items |-> IF result[i] = "unset" THEN "not_attempted"
                                ELSE result[i]]
  /\ UNCHANGED <<request, next, job, reply, logged, expired, history>>

\* wg.Wait() returns, and what is still the zero value is marked.
Finish ==
  /\ phase = "wait"
  /\ \A w \in Workers : job[w] = Gone
  /\ phase' = "done"
  /\ result' = [i \in Items |-> IF result[i] = "unset" THEN "not_attempted"
                                ELSE result[i]]
  /\ UNCHANGED <<request, next, job, reply, logged, expired, history>>

-----------------------------------------------------------------------------
(* The workers.                                                            *)

\* The Sender of worker w's message has credentials, or is a stub.
Configured(w) == job[w] \in Items /\ batch[job[w]].platform \notin stubs
Stubbed(w) == job[w] \in Items /\ batch[job[w]].platform \in stubs

\* The request of sendOne reaches the provider, which knows whether the
\* token is dead and replies.  One that is under way when the context ends
\* may still arrive; that net/http refuses to begin one after that is not
\* relied on.
Contact(w) ==
  LET i == job[w] IN
  /\ Configured(w)
  /\ reply[w] = NoReply
  /\ \E d \in BOOLEAN : \E r \in Replies(batch[i], d) :
       /\ reply' = [reply EXCEPT ![w] = r]
       /\ taken' = IF Accepts(r) THEN taken \cup {i} ELSE taken
       /\ dead' = IF d THEN dead \cup {i} ELSE dead
  /\ contacts' = [contacts EXCEPT ![i] = @ + 1]
  /\ UNCHANGED <<request, phase, next, job, logged, result, expired, heard,
                 lines>>

\* The worker writes its item's slot and goes back to the channel.
Write(w, status) ==
  /\ result' = [result EXCEPT ![job[w]] = status]
  /\ job' = [job EXCEPT ![w] = Idle]
  /\ reply' = [reply EXCEPT ![w] = NoReply]
  /\ UNCHANGED <<request, phase, next, expired>>

\* The reply comes back.
Settle(w) ==
  /\ Configured(w)
  /\ reply[w] # NoReply
  /\ Write(w, SendStatus(reply[w]))
  /\ heard' = heard \cup {job[w]}
  /\ UNCHANGED <<logged, contacts, taken, dead, lines>>

\* sendOne has an error and no reply: no access token, a connection that
\* breaks, the client's timeout, or the context is done, whether or not the
\* provider was reached.
Fail(w) ==
  /\ Configured(w)
  /\ Write(w, "error")
  /\ UNCHANGED <<logged, history>>

\* Mutant: every Send has a scope of its own.
RejectAlone(w) ==
  /\ Stubbed(w)
  /\ lines' = [lines EXCEPT ![batch[job[w]].platform] = @ + 1]
  /\ Write(w, "error")
  /\ UNCHANGED <<logged, contacts, taken, dead, heard>>

\* unconfigured.Send: LoadOrStore in the request's map decides who logs.  It
\* is the only access to what the workers share; whoever stored the platform
\* logs, and the slot is the worker's own, so the three are one step.
Reject(w) ==
  LET p == batch[job[w]].platform IN
  /\ Stubbed(w)
  /\ logged' = logged \cup {p}
  /\ lines' = IF p \in logged THEN lines ELSE [lines EXCEPT ![p] = @ + 1]
  /\ Write(w, "error")
  /\ UNCHANGED <<contacts, taken, dead, heard>>

\* Mutant: a worker leaves as soon as the context is done.
ExitOnExpire(w) ==
  /\ job[w] # Gone
  /\ expired \/ (phase # "feed" /\ job[w] = Idle)
  /\ job' = [job EXCEPT ![w] = Gone]
  /\ UNCHANGED <<request, phase, next, reply, logged, result, expired, history>>

\* Mutant: close(work) comes after wg.Wait().
ExitAfterWait(w) ==
  /\ phase = "done"
  /\ job[w] = Idle
  /\ job' = [job EXCEPT ![w] = Gone]
  /\ UNCHANGED <<request, phase, next, reply, logged, result, expired, history>>

\* The channel is closed: range ends.
Exit(w) ==
  /\ phase # "feed"
  /\ job[w] = Idle
  /\ job' = [job EXCEPT ![w] = Gone]
  /\ UNCHANGED <<request, phase, next, reply, logged, result, expired, history>>

\* dispatch has returned.
Returned ==
  /\ phase = "done"
  /\ UNCHANGED vars

Next ==
  \/ Expire
  \/ StopFeed
  \/ Finish
  \/ \E w \in Workers : HandOff(w)
  \/ \E w \in Workers : Contact(w)
  \/ \E w \in Workers : Settle(w)
  \/ \E w \in Workers : Fail(w)
  \/ \E w \in Workers : Reject(w)
  \/ \E w \in Workers : Exit(w)
  \/ Returned

Spec == Init /\ [][Next]_vars

\* Goroutines that can run do run, and Send always returns: both senders
\* honour ctx and their clients have timeouts of their own.  Nothing makes
\* the context end.
Fairness ==
  /\ WF_vars(StopFeed)
  /\ WF_vars(Finish)
  /\ WF_vars(\E w \in Workers : HandOff(w))
  /\ \A w \in Workers : /\ WF_vars(Settle(w) \/ Fail(w) \/ Reject(w))
                        /\ WF_vars(Exit(w))

FairSpec == Spec /\ Fairness

-----------------------------------------------------------------------------
(* Properties.                                                             *)

\* NotAttemptedIsTrue: a message reported as not_attempted never reached a
\* provider, not even later, so that the retry the caller is told to make
\* cannot ring a device twice ("so the caller can tell "never tried" apart
\* from every real outcome and retry only those", send.go:163).
NotAttemptedIsTrue ==
  \A i \in Items : result[i] = "not_attempted" =>
    contacts[i] = 0 /\ \A w \in Workers : job[w] # i

\* NoDoubleSend: no message of the batch reaches its provider twice.
NoDoubleSend == \A i \in Items : contacts[i] <= 1

\* CutIsSuffix: the deadline cuts the batch at one place: behind a message
\* that was not attempted there is none that was, however the workers
\* finish.
CutIsSuffix ==
  \A i, j \in Items : i < j /\ result[i] = "not_attempted" =>
                        result[j] = "not_attempted"

\* TakenReported: when dispatch returns, every message that a provider has
\* taken is reported as delivered, or as an error if the reply was lost on
\* its way back: never as not_attempted, which the caller may repeat
\* without a second thought, and never as unregistered.  And delivered is
\* never said of a message that no provider took.
TakenReported ==
  /\ \A i \in Items : result[i] = "delivered" => i \in taken
  /\ phase = "done" =>
       \A i \in taken : \/ result[i] = "delivered"
                        \/ result[i] = "error" /\ i \notin heard

\* PruneIsSafe: unregistered, on which "the caller should delete it from its
\* own store" (push.go:53), is only ever said of a token that the provider
\* called dead: no other refusal of a message reads like one ("A 400 from
\* some other field [...] must stay StatusError", fcm.go:158).
PruneIsSafe == \A i \in Items : result[i] = "unregistered" => i \in dead

\* DeadReported: when the provider says that a token is dead and the reply
\* comes back, the caller is told so, whichever way the provider puts it;
\* otherwise the token is "retried forever" (fcm.go:38).
DeadReported == \A i \in heard \cap dead : result[i] = "unregistered"

\* FitsGateway: APNs refuses no notification for headers that do not fit
\* its payload, whatever the kind.
FitsGateway ==
  \A w \in Workers : reply[w].from = "apns" => reply[w].reason # "BadTopic"

\* LoggedOnce: a request that sends to a platform without credentials is
\* logged once for that platform, however many workers reject its messages
\* at the same time ("at most once per request", push.go:92), and not
\* silently dropped.
LoggedOnce ==
  \A p \in Platforms :
    lines[p] = IF \E i \in Items : /\ batch[i].platform = p /\ p \in stubs
                                  /\ result[i] = "error"
               THEN 1 ELSE 0

Outcome == INSTANCE BatchOutcome WITH Slots <- Items,
                                      Statuses <- SendStatuses,
                                      finished <- (phase = "done")

\* OutcomeSpec: the pool implements the batch: a slot is written once, no
\* slot changes after the results are complete.
OutcomeSpec == Outcome!Spec

\* DispatchReturns: dispatch returns, with or without a deadline: no worker
\* waits for an item that never comes, and the handler does not wait for a
\* worker that is gone.
DispatchReturns == <>(phase = "done")

\* DeadlineStopsFeed: "Once the deadline fires, the feed loop below stops
\* handing out new work" (send.go:166).
DeadlineStopsFeed == [][expired => next' = next]_vars
=============================================================================
