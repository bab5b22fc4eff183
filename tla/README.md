# A TLA+ model of slim-m-relay

slim-m-relay forwards content-free push notifications from self-hosted servers to APNs and
FCM. A server registers once and gets a key; it sends batches of messages with that key; every
device token belongs to the first key that sends to it. This directory models the parts of the
relay that keep state or run concurrently, checks them with TLC on small instances, and proves
their safety with TLAPS for every value of the constants.

## The system

| Part | State | Operations | Talks to |
| --- | --- | --- | --- |
| key store (`internal/keys`) | SQLite tables `keys` and `tokens`; `lastPrune` in memory; one pooled connection | `Open`/`migrate`, `Issue`, `Verify`, `List`, `Revoke`, `BindToken` with its sweep | called by every handler |
| rate limiter (`internal/ratelimit`) | one bucket per key in a map, `lastEvict`, a mutex | `Allow` (evicts, refills, pays), `Return` | three instances: registration per address, sends per key, calls per key |
| send handler (`api/send.go`) | per request: results, items | `handleSend`: verify, limit, parse and bind each message, dispatch, refund, respond | store, limiters, dispatch |
| dispatch (`api/send.go`) | per request: channel, workers, slots, context | feed, send, wait, mark | senders |
| register and admin handlers | none of their own | mint, list, revoke | limiter, store |
| FCM sender (`internal/fcm`) | cached access token behind a mutex (oauth2) | `token`, `sendOne`, classification | Google |
| APNs sender (`internal/apns`) | none | `sendOne` | Apple |
| unconfigured sender, vocabulary (`internal/push`) | per-request log dedupe | `Send` | – |
| configuration, `main` | environment; process lifetime; the listening goroutine and `http.Server`'s connections | `Load`, start, graceful shutdown, `-healthcheck` | all |

What is hard here: transactions that are race-free only because the pool has one connection; a
lazy sweep that computes its cutoff before it waits for that connection; a process that may stop
anywhere while the database survives; a worker pool racing a deadline; budgets charged before
and refunded after a request that other requests overlap; goroutines that are abandoned, not
stopped; providers that say the same thing in several ways, and a reply that is lost after the
message was taken; five time limits set in three files that have to fit together. `PROJECT.json` lists each such place under `hazards`, with the properties that cover it.

What makes each part correct:

- **store**: a token has one owner at a time and keeps it until the owner has been silent for the
  retention time, whatever is interleaved, fails or restarts; the registration ceiling holds;
  `BindToken` always comes back;
- **migration**: bindings older than the column `last_seen_at` get a full retention window;
- **limiter**: the map of lazily refilled, evicted buckets is indistinguishable from ideal buckets;
- **dispatch and senders**: one final, truthful status per message; a token is called dead when,
  and only when, its provider said so; nothing is sent twice; the rejections of a platform without
  credentials are logged once; it returns;
- **handlers**: only the owner's messages are delivered; the call budget is conserved; the
  response matches the request;
- **FCM token**: no goroutine leaks, nobody gets someone else's answer;
- **process**: credentials that are not configured stop their platform only, unusable ones stop the
  start; only the wait for the store can cost a request its answer; a shutdown ends, and cuts
  nothing off early.

## Modules

| Module | Models | Notes |
| --- | --- | --- |
| `TokenLease` | what token binding promises | abstract; no connection, transactions or sweep |
| `KeyStore` | `internal/keys/keys.go` | implements `TokenLease` (`LeaseSpec`) |
| `KeyStoreProofs` | proofs about `KeyStore` | |
| `Migration` | `Open`/`migrate` on an old file | |
| `MigrationProofs` | proofs about `Migration` | |
| `TokenBucket` | what a limiter promises | abstract |
| `RateLimit` | `internal/ratelimit/ratelimit.go` | implements `TokenBucket` (`BucketSpec`) when `EvictionSound` |
| `RateLimitProofs` | proofs about `RateLimit` | |
| `BatchOutcome` | what dispatch promises | abstract |
| `Providers` | `sendOne` of APNs and FCM, the classification of replies | constant operators; the providers are external |
| `ProviderProofs` | what a reply and its classification say of a token | used by `DispatchProofs` |
| `Dispatch` | `Server.dispatch`, `push.Unconfigured`; the senders of `Providers` | implements `BatchOutcome` (`OutcomeSpec`) |
| `DispatchProofs` | proofs about `Dispatch` | |
| `Relay` | the handlers, composed | uses the store, limiters and dispatch by what their modules promise |
| `RelayProofs` | proofs about `Relay` | |
| `FcmToken` | `fcm.Sender.token` | the oauth2 token source is external |
| `FcmTokenProofs` | proofs about `FcmToken` | |
| `Lifecycle` | `cmd/relay/main.go`, `internal/config/config.go` | `net/http` and `os/signal` are external |
| `LifecycleProofs` | proofs about `Lifecycle` | |
| `MCDispatch`, `MCLifecycle`, `MCRelay` | batches, environments and symmetry for TLC | |

Operators whose comment begins with "Mutant" are plausible bugs of the definition below them.
No specification uses them: replacing the definition by its mutant makes TLC report the property
that `PROJECT.json` pairs it with, which shows that the property can fail. Where Go has an
empty string the models say what it stands for: a status that is `"unset"`, a code that is
`"none"`.

### KeyStore

The callers are handler goroutines. `conn` is the pooled connection: `BeginTx` and `ListOpen`
take it, commit, rollback and `rows.Close` give it back, and a single statement (`Verify`,
`Revoke`, the sweep's `PruneDelete`) needs it free. Every point at which Go code can be
overtaken is a step: `BindToken` is `BindCall`, `BeginTx`, `ReadOwner`, `CommitBind`, then
`PruneGate`, `PruneCutoff` and `PruneDelete`. `AbortTx` is any failing statement (a cancelled
request, a full disk): the deferred `Rollback`. `PruneFails` is the sweep's ignored error.
`Restart` is the process ending at any point and `Open` on the same file: rows survive, the rest
does not. Times are whole seconds, as `Unix()` makes them, from one clock that does not go back;
a wall clock that is set back is outside the model. A key is its row id and a token stands for a
(platform, token) pair, since the code only compares them.

### Migration

`Alter` and `Backfill` are separate steps, since each `Exec` commits by itself. `Stop` is the
process ending or a statement failing (which makes `Open` fail and `main` exit). The constant
`StopMidway` says whether it may happen between the two.

### RateLimit

All of `Allow` and of `Return` is under the mutex, so each is one step. Tokens are integers in
units of a fraction, so that one tick's refill is exact; float rounding is left out. `net` is a
history variable: actions allowed and not returned. `Return` is only taken for an action that
was allowed, as `refundNotAttemptedCalls` does.

### Dispatch

`HandOff` is the rendezvous on the unbuffered channel. It stays enabled after `Expire`, since a
Go `select` with both cases ready picks either. A worker with a message of a configured platform
reaches the provider at most once (`Contact`), perhaps as or after the context ends; the provider
picks one of the replies of `Providers`, and the reply comes back (`Settle`) or not (`Fail`: no
access token, a broken connection, a timeout, the context), so a message can be taken and end as
`error`. A worker with a message of a platform without credentials is in `unconfigured.Send`
(`Reject`), whose `LoadOrStore` on the request's map decides who logs; that is the only access to
what workers share, so it, the log line and the slot are one step. `contacts`, `taken`, `dead`,
`heard` and `lines` are history variables: what the provider was asked, what it took, which tokens
it called dead, which replies came back, and what was logged.

### Providers

An APNs notification is its topic, push type, priority and whether the user sees it; `WellFormed`
is what the gateway accepts of these, as the comments of `apns.go` state it. An FCM reply is its
code, the size of its body and the fields that `errorCode` and `tokenFieldViolation` read; a body
above `maxErrorBodyBytes` is cut and no longer parses. `FcmReplies` and `ApnsReplies` give, for a
dead and for a living token, the replies that the code and its tests know of: a 404, a 400 naming
`message.token` with its details in either order, a 400 about another field, an overloaded service,
a proxy's page that is larger than the cap.

### Lifecycle

`main` is the main goroutine, one step per line that can fail or be overtaken; `srv` the goroutine
of `ListenAndServe`; `conn[c]` a connection, whose handler reads, binds, sends and writes. `Load`
turns an environment variable that is empty, a number (with a plus sign or not) or neither into a
setting. `End` is the process ending in any way: `log.Fatalf` from either goroutine, a signal
before `signal.Notify`, a panic in a worker (which `recoverer` does not cover), or `main` returning
under its handlers. The listening goroutine gives up (`ListenFatal`) when the port cannot be bound,
and also when an open listener breaks later (`AcceptFails`: an error of Accept that `net/http` does
not take for temporary), under live requests and without grace; `broken` records the second.

Times are in units of ten seconds. `Tick` waits for whatever takes no time, and a phase lasts at
most its `Limit`: the read timeout, and the deadline of `dispatch` if there is one. Binding has no
limit: the loop over `BindToken` waits for the one connection of the store as long as it takes.
`store` is history, the time a request has spent there, and `AnsweredInTime` says what the other
limits are worth: an answer is late only if that time alone exceeds what they leave of the write
timeout. An `http.Server` that shuts down takes no connections, closes the idle ones and those that
have answered, and cancels no request. `healthcheck` is another process with the same environment.

### Relay

Two or more requests run `handleRegister` or `handleSend` step by step while an administrator
revokes keys, time passes and bindings lapse. Store calls are single steps, which `KeyStore`
justifies: `Bind` records the owner and the time (`seen`, the column `last_seen_at`), and `Lapse` is
the DELETE of the sweep, which looks at that time and at nothing else – not at requests that are
about to deliver. That it takes no binding from under them, unless they go on for longer than the
retention time, is part of `DeliverOwnOnly`. (`KeyStore` has the sweep's own steps, its stale cutoff
and the wait for the connection.) Limiters do not refill: the run covers a span shorter than a
refill, where every lost or doubled refund shows.

Messages are chosen as the loop reaches them; one with an oversized payload or an unknown platform
or kind is `Malformed`. A result that dispatch is to fill has a `dispatchItem`, whose `resultIdx` is
the field `item`: the workers (`Settle`), the marking (`Marked`) and the refunds (`Unattempted`) go
through that index as the code does, so an index that points at another message's result shows in
`ResultsMatch`. `owed` is the set of items whose call is still to be refunded. `pos` (the message a
result answers), `charged` (its call was paid for), `bound` (when its token was bound), `kept` and
`rung` are history: no step is guarded by them.

### FcmToken

`token` and its goroutine are modelled step by step, the token source by the mutex it holds
while it fetches and the client timeout that ends a fetch. `Tick` only happens when every
goroutine that can run has run, so ages measure real waiting.

## Runs

| Run | Bounds | Shows |
| --- | --- | --- |
| `keystore` | 2 callers, 1 token, 2 keys (ceiling 2), retention 1, 3 instants | isolation, backed and exclusive claims, ceiling, lease; `BindToken` terminates |
| `migration_clean` | 2 tokens, retention 2, clock to 8 | legacy rows get their window |
| `migration_midway` | as above, stop between ALTER and UPDATE | **violated**: the window is lost |
| `rate_calls` | 2 clients, burst of 2 actions, 8 ticks | ideal bucket, bounded grants |
| `rate_register` | the register defaults in minutes | **violated**: eviction refills early |
| `dispatch_pool` | 4 messages, 2 workers, 2 batches, none, one or both platforms without credentials | truthful statuses, safe pruning, one log line, no double send, termination |
| `dispatch_late` | 4 messages, 1 worker | **violated**: work handed out after the deadline |
| `relay_budget` | 2 requests of 1 key, 3 sends, 2 calls, 2 messages each | budget conserved, rings bounded |
| `relay_owners` | 2 requests, 2 keys, 1 token, 2 messages each, retention 1, 4 instants | owner-only delivery, matching responses |
| `fcm_queue` | 3 calls, timeout 1 | queue bound, own answers, no leak, calls return |
| `fcm_timeout` | 2 calls, timeout 2 | **violated**: an abandoned fetch outlives the timeout |
| `lifecycle` | 2 connections, 13 environments, read timeout 1, write timeout 4, grace 1 | start, time limits, probe and shutdown |

Two callers are enough for the store's races: a conflict is between a transaction and one other
transaction or sweep, and the proofs remove the bound altogether. Two keys and one token suffice
for ownership: no statement touches a row for what another row holds. The clock is long enough for a binding to be made, to lapse, to be swept and to be taken by another
key. In `rate_calls` the clock covers two evictions. Two workers and four messages let the
deadline fall with messages settled, in flight, and not handed out. In `relay_budget` a third
request follows two overlapping ones, so that a wrong refund is spent. The two batches of
`dispatch_pool` send every kind to APNs and use both platforms more than once. In `lifecycle` there
are environments with all settings and with few, and one for each setting that goes wrong; two
connections let one be cut off while another is answered. The read and write timeouts of the run are
20 seconds shorter than the code's 30 and 60, which keeps the ten seconds they leave to binding
beside the default deadline and saves states; the proof is for all limits. In `relay_owners` the
clock lets a token be bound, lapse, be taken by the other key and lapse again while the first
request is still under way. Symmetry is used in the `relay` runs, where requests and
tokens are interchangeable, and never with liveness.

### Fairness

- `KeyStore`: a goroutine that can run runs (weak fairness on the steps of `BindToken`, `Issue`
  and `List`); `database/sql` gives the connection to some waiting request whenever it comes
  back, so nobody is passed over forever (strong fairness on `BeginTx` and `PruneDelete`). No
  fairness on failures, ticks or restarts: `BindToken` comes back without their help.
- `Dispatch`: weak fairness on the feeder, the workers and the return of `Send` (both senders have
  client timeouts and honour the context), with or without the provider's reply; none on the
  deadline or on reaching a provider.
- `Lifecycle`: weak fairness on the main goroutine after `<-stop`, on time, on `Shutdown` closing
  idle connections, and on a handler whose phase has reached its limit. A dispatch without a
  deadline has no limit, and the shutdown ends without its help.
- `FcmToken`: weak fairness on goroutines and time, strong fairness on the mutex, which in Go
  does not starve.

### Findings

Four runs expect a violation; each shows a statement of the repository that the code does not
keep.

1. `migration_midway`: the comment in `migrate` promises legacy rows a full retention window; a
   stop between ALTER and UPDATE makes the next start skip the backfill, and the first sweep
   deletes them all. One transaction around both statements would close it.
2. `rate_register`: the limiter is documented to refill at a fixed rate; with the register
   defaults an idle bucket is evicted after 10 minutes, 26 before it would be full. The condition
   the configuration must satisfy is `EvictionSound`; the send and call defaults satisfy it.
3. `dispatch_late`: the feed loop is documented to stop at the deadline; the `select` may still
   hand out a message, which then ends as `error` instead of `not_attempted`. No property about
   truthfulness or double sends is affected.
4. `fcm_timeout`: an abandoned goroutine is documented never to outlive the client's timeout; it
   does when it queues behind another fetch. `QueueBound` is what holds.

Smaller disagreements that the models contain without a run of their own: `apns.go:14` says that
every kind but `call` is a low-priority background wake, while `sendOne` sends `message` and
`mention` as high-priority alerts (`Notification`); for a `RELAY_PORT` that is no number the relay
listens on 8090 and the probe fails, and likewise for one with a plus sign, which `Atoi` takes and a
URL does not (the exceptions in `ProbeAgrees`); `main.go:85` says of FCM that "A missing credentials
file is not fatal", while `buildFCM` calls `log.Fatalf` when the path is set and the file is missing,
as it does for a file that is there and cannot be used (`Unusable` counts both). And one place outside the models: the retention in days
is multiplied into a `time.Duration` (`send.go:119`), which overflows beyond 106751 days; the
product is negative then, which keeps bindings forever, and from 213504 days on it is positive
again and as short as 25 minutes.

## Proofs

Every safety invariant that a passing run checks, the action property `LegacyWindow`
and the three refinements are theorems, for every value of the constants. The assumptions on the constants say
of which type they are, that a budget or a time limit is not zero where the code has no use for
zero, and that the markers for "nobody" and "nothing" are nobody and nothing. Two groups of
theorems need more, which they state as a hypothesis: `EvictionSound` for the limiter and
`~StopMidway` for the migration; for each, a run shows the violation without it. `Migration` also
assumes that its clock, which has an end, goes on for longer than the retention time.

Hardly any of the properties is inductive. Each module below has a type theorem, an inductive
invariant (`IInv`, checked by TLC on the instances of the runs before it was proved), a lemma for
each action, and then the theorems.

**`KeyStoreProofs`**, for any callers, tokens, retention, interval and ceiling: `TypeOK`,
`TxIsolation`, `ClaimBacked`, `ExclusiveClaims`, `RegistrationCeiling`, and that the store
implements `TokenLease`. The invariant adds

- `Exclusion`: the connection is held by exactly the caller whose program counter is inside a
  transaction – so at most one is, and a sweep's DELETE meets none;
- `Locals`: a working caller has a key and a token;
- `Times`: no row or stamp lies in the future, and a pending cutoff is at least the retention
  time old.

From `Exclusion`, a transaction's reads stay true (`TxIsolation`); from that and `Times`, a
refresh never moves `last_seen_at` back and a sweep never takes a row as fresh as a living claim
(`ClaimBacked`); exclusivity follows because a row has one owner. For the refinement, `CommitBind`
is a `Grant` or a stutter, `PruneDelete` a `Lapse`, and every other step, `Restart` included,
leaves the lease alone.

**`MigrationProofs`**, for any old file: `TypeOK`, and `LegacyWindow` if the process does not stop
between ALTER and UPDATE. `Filled` says that a row older than the column carries 0 until the
UPDATE and from then on no time before the upgrade; the sweep runs in no state where it carries 0.
The hypothesis is used in one place, the step `Stop`.

**`RateLimitProofs`**, for any clients and any eviction schedule: `TypeOK` whatever the
configuration, and under `EvictionSound` (a burst of at least one action, refilled within the idle
cutoff) that the limiter implements `TokenBucket`, and `GrantBound`. The invariant says that an
existing bucket holds between nothing and a burst and carries a time of the past; the refinement
maps a bucket to what it is worth now, and an absent one to a full one. `EvictedFull` is the step
that needs the condition.

**`ProviderProofs`**: `ReplyMeaning`, for every kind, platform and reply of the model: `sendOne`
reports `delivered` exactly when the provider took the message and `unregistered` exactly when it
called the token dead, and APNs finds nothing wrong with the headers. For FCM this rests on what
`errorCode` and `tokenFieldViolation` find in the details, in either order, and on what is left of
a body above the cap.

**`DispatchProofs`**, for any batch, any number of workers and any set of platforms without
credentials: all eight invariants, `TypeOK`, and that the pool implements `BatchOutcome`. The
invariant divides the messages at `next`, the position of the feed loop. Ahead of it nothing has
happened (`Ahead`); behind it a message has a status or is in the hands of a worker (`Behind`), of
exactly one, who alone knows what the provider said (`InHand`). `Settled` is what a status says of
the history, by `ReplyMeaning`. `Marked` says that slots are marked when all workers are gone: what
is unwritten then lies ahead of `next`, so `not_attempted` is true and a suffix of the batch.
`Logging` ties the log line to the entry in the request's map.

**`RelayProofs`**, for any number of requests, keys, tokens and messages and every budget:
`TypeOK`, `DeliverOwnOnly`, `RingBound`, `BudgetConserved`, `ResultsMatch`. `Sound(r)` is about
one request: it has a verified key, no results before the loop, one for each message of the loop
so far, and a charge for each call it may still send, and its items point at their own results
(`Indexed`); steps of other requests do not touch it. `Leased` is what `DeliverOwnOnly` rests on: the
token of a message bound at time b, within the retention time of b, is bound to the message's key
*and was last seen at b or later*. The second half is what stops the sweep, and `DeliverOwnOnly` does
not say it; another request that refreshes the token moves it forward only. The budget is an account: `Open(k)` is the set of charges that the requests of a key hold, the call
that is being bound included, and `Ledger` says that `callLeft`, `kept` and the size of `Open` add
up to the burst. `Allow` moves one from the first to the last, `Return` one back, and the end of a
request moves what was answered to `kept`. `Return` stops at the burst, which would lose a refund;
by `Ledger` it is never met there, since the charge it returns is still open. `Rings` says that a
call rings for a charge that is then settled, so the rings are within the account.

**`FcmTokenProofs`**, for any number of calls and any client timeout: `TypeOK`, `OwnAnswer`,
`QueueBound`. A goroutine ages only while a fetch holds the mutex (`Holder`), and a fetch ends
within the timeout: `Waited` bounds an age by the timeout times the number of goroutines that have
been answered, plus what the present fetch has taken. The one that waits is not among the
answered, which gives the bound.

**`LifecycleProofs`**, for every set of environments, any number of connections and all limits:
`TypeOK`, `CutOnlyAfterGrace`, `AnsweredInTime`, `WiredAsConfigured`, `ProbeAgrees`. `Staged` says
what `main` has established when it gets to a line, `Blamed` that it gave up for a reason, `Serving`
ties the listener and the connections to `main`, and `InTime` adds up what the phases of a request
have taken: its age is at most the read timeout, the time in the store and the deadline, as far as
it has got.

Only model-checked: the liveness properties `BindTerminates`, `DispatchReturns`, `NoLeak`,
`CallReturns` and `ShutdownEnds`, since fairness and ENABLED are out of the prover's reach, and the
four violations, which are counterexamples.

## Not modelled

The product of retention days and hours, and with it its overflow (see above); header parsing, JSON
text, labels and log lines other than the rejection's (no state, or nothing
decided by them); `clientIP` (a client is an element of a set in `RateLimit`); the settings that
are constants of the other modules, which are there for every value; float rounding in the
limiter; a clock that goes back; TLS, the text of an alert, the size of a payload (only that it is
within `maxPayloadBytes`), and the providers beyond one reply per request.

## Plan

Done: `KeyStore` with its lease, `RateLimit` with its bucket, `Migration`, `Providers`, `Dispatch`
with its outcome, `Relay`, `FcmToken`, `Lifecycle`, and the proofs of their safety.

Next: `KeyStore`'s sweep in place of `Lapse` in `Relay`, which would make one module of the two;
action properties of `Relay` (a result that is written is not rewritten, a binding changes hands
only by lapsing).
