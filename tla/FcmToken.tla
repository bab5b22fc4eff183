------------------------------ MODULE FcmToken ------------------------------
(***************************************************************************)
(* Fetching the FCM access token: Sender.token, internal/fcm/fcm.go.  Each *)
(* call starts a goroutine that asks the token source and races it against *)
(* the request's context; a goroutine whose caller has left is abandoned.  *)
(*                                                                         *)
(* The token source is external: oauth2's ReuseTokenSource, which holds a  *)
(* mutex while it returns the cached token or fetches a new one, and the   *)
(* http.Client of New, which ends every fetch after FetchTimeout.          *)
(***************************************************************************)
EXTENDS Integers, FiniteSets

CONSTANTS
  Calls,         \* calls of token, one goroutine each
  NoCall,        \* the token source's mutex is free
  FetchTimeout   \* Timeout of the http.Client

ASSUME TokenAssumption ==
  /\ NoCall \notin Calls
  /\ IsFiniteSet(Calls)
  /\ FetchTimeout \in Nat \ {0}

VARIABLES
  caller,   \* caller[c]: where the calling worker is
  expired,  \* the calls whose ctx is done
  fetcher,  \* fetcher[c]: where the goroutine is
  ch,       \* ch[c]: the content of the channel
  mutex,    \* the goroutine inside the token source
  cached,   \* the token source holds a valid token
  spent,    \* how long the fetch that holds the mutex has taken
  age       \* age[c]: how long the goroutine has been running, 0 once gone

vars == <<caller, expired, fetcher, ch, mutex, cached, spent, age>>

Answers == {"token", "error"}

\* No goroutine can get older than this: the longest queue, and a unit more
\* to see it exceeded.
AgeBound == FetchTimeout * Cardinality(Calls) + 1

TypeOK ==
  /\ caller \in [Calls -> {"new", "select", "cut"} \cup Answers]
  /\ expired \subseteq Calls
  /\ fetcher \in [Calls -> {"new", "lock", "fetch", "gone"}
                              \cup {"put_token", "put_error"}]
  /\ ch \in [Calls -> Answers \cup {"empty"}]
  /\ mutex \in Calls \cup {NoCall}
  /\ cached \in BOOLEAN
  /\ spent \in Nat
  /\ age \in [Calls -> 0..AgeBound]

Init ==
  /\ caller = [c \in Calls |-> "new"]
  /\ expired = {}
  /\ fetcher = [c \in Calls |-> "new"]
  /\ ch = [c \in Calls |-> "empty"]
  /\ mutex = NoCall
  /\ cached = FALSE
  /\ spent = 0
  /\ age = [c \in Calls |-> 0]

\* The caller makes the channel, starts the goroutine and waits.
Start(c) ==
  /\ caller[c] = "new"
  /\ caller' = [caller EXCEPT ![c] = "select"]
  /\ fetcher' = [fetcher EXCEPT ![c] = "lock"]
  /\ UNCHANGED <<expired, ch, mutex, cached, spent, age>>

-----------------------------------------------------------------------------
(* The goroutine.                                                          *)

\* tokens.Token() with a valid cached token.
UseCached(c) ==
  /\ fetcher[c] = "lock"
  /\ mutex = NoCall
  /\ cached
  /\ fetcher' = [fetcher EXCEPT ![c] = "put_token"]
  /\ UNCHANGED <<caller, expired, ch, mutex, cached, spent, age>>

\* tokens.Token() asks the token endpoint.
Fetch(c) ==
  /\ fetcher[c] = "lock"
  /\ mutex = NoCall
  /\ ~cached
  /\ mutex' = c
  /\ spent' = 0
  /\ fetcher' = [fetcher EXCEPT ![c] = "fetch"]
  /\ UNCHANGED <<caller, expired, ch, cached, age>>

\* The endpoint answers, or the client's timeout ends the fetch.
Fetched(c) ==
  /\ fetcher[c] = "fetch"
  /\ mutex' = NoCall
  /\ spent' = 0
  /\ \E ok \in BOOLEAN :
       /\ spent = FetchTimeout => ~ok
       /\ cached' = ok
       /\ fetcher' = [fetcher EXCEPT ![c] = IF ok THEN "put_token"
                                                   ELSE "put_error"]
  /\ UNCHANGED <<caller, expired, ch, age>>

Result(c) == IF fetcher[c] = "put_token" THEN "token" ELSE "error"

\* Mutant: make(chan result) without a buffer.
PutUnbuffered(c) ==
  /\ fetcher[c] \in {"put_token", "put_error"}
  /\ caller[c] = "select"
  /\ ch' = [ch EXCEPT ![c] = Result(c)]
  /\ fetcher' = [fetcher EXCEPT ![c] = "gone"]
  /\ age' = [age EXCEPT ![c] = 0]
  /\ UNCHANGED <<caller, expired, mutex, cached, spent>>

\* Mutant: the channel is a field of the Sender.
PutShared(c) ==
  /\ fetcher[c] \in {"put_token", "put_error"}
  /\ \E d \in Calls : ch' = [ch EXCEPT ![d] = Result(c)]
  /\ fetcher' = [fetcher EXCEPT ![c] = "gone"]
  /\ age' = [age EXCEPT ![c] = 0]
  /\ UNCHANGED <<caller, expired, mutex, cached, spent>>

\* Mutant: the goroutine returns on an error before it sends.
PutTokenOnly(c) ==
  /\ fetcher[c] \in {"put_token", "put_error"}
  /\ ch' = IF fetcher[c] = "put_token" THEN [ch EXCEPT ![c] = "token"] ELSE ch
  /\ fetcher' = [fetcher EXCEPT ![c] = "gone"]
  /\ age' = [age EXCEPT ![c] = 0]
  /\ UNCHANGED <<caller, expired, mutex, cached, spent>>

\* ch <- result{tok, err}: there is room for one, so it never waits.
Put(c) ==
  /\ fetcher[c] \in {"put_token", "put_error"}
  /\ ch' = [ch EXCEPT ![c] = Result(c)]
  /\ fetcher' = [fetcher EXCEPT ![c] = "gone"]
  /\ age' = [age EXCEPT ![c] = 0]
  /\ UNCHANGED <<caller, expired, mutex, cached, spent>>

-----------------------------------------------------------------------------
(* The caller's select.                                                    *)

\* Mutant: a default case: the caller does not wait for the goroutine.
ReceiveNoWait(c) ==
  /\ caller[c] = "select"
  /\ caller' = [caller EXCEPT ![c] = ch[c]]
  /\ UNCHANGED <<expired, fetcher, ch, mutex, cached, spent, age>>

Receive(c) ==
  /\ caller[c] = "select"
  /\ ch[c] # "empty"
  /\ caller' = [caller EXCEPT ![c] = ch[c]]
  /\ UNCHANGED <<expired, fetcher, ch, mutex, cached, spent, age>>

CutOff(c) ==
  /\ caller[c] = "select"
  /\ c \in expired
  /\ caller' = [caller EXCEPT ![c] = "cut"]
  /\ UNCHANGED <<expired, fetcher, ch, mutex, cached, spent, age>>

-----------------------------------------------------------------------------
(* The environment.                                                        *)

\* The request's deadline passes or its client leaves.
Expire(c) ==
  /\ caller[c] \in {"new", "select"}
  /\ c \notin expired
  /\ expired' = expired \cup {c}
  /\ UNCHANGED <<caller, fetcher, ch, mutex, cached, spent, age>>

TokenExpires ==
  /\ cached
  /\ cached' = FALSE
  /\ UNCHANGED <<caller, expired, fetcher, ch, mutex, spent, age>>

\* Mutant: http.DefaultClient, which has no timeout.
QuietNoTimeout(c) ==
  /\ fetcher[c] \notin {"put_token", "put_error"}
  /\ fetcher[c] = "lock" => mutex # NoCall
  /\ caller[c] = "select" => ch[c] = "empty" /\ c \notin expired

\* A unit of time is long: goroutines that can run have run, and no fetch
\* outlasts the client's timeout.
Quiet(c) ==
  /\ fetcher[c] \notin {"put_token", "put_error"}
  /\ fetcher[c] = "lock" => mutex # NoCall
  /\ fetcher[c] = "fetch" => spent < FetchTimeout
  /\ caller[c] = "select" => ch[c] = "empty" /\ c \notin expired

Tick ==
  /\ \A c \in Calls : Quiet(c)
  /\ spent' = IF mutex = NoCall THEN 0 ELSE spent + 1
  /\ age' = [c \in Calls |-> IF fetcher[c] \in {"lock", "fetch"}
                                /\ age[c] < AgeBound
                               THEN age[c] + 1 ELSE age[c]]
  /\ UNCHANGED <<caller, expired, fetcher, ch, mutex, cached>>

CallStep(c) ==
  \/ UseCached(c) \/ Fetch(c) \/ Fetched(c) \/ Put(c)
  \/ Receive(c) \/ CutOff(c)

Next ==
  \/ \E c \in Calls : Start(c) \/ Expire(c) \/ CallStep(c)
  \/ TokenExpires
  \/ Tick

Spec == Init /\ [][Next]_vars

\* Go's scheduler and its mutex starve no goroutine, and time passes.
FairSpec ==
  /\ Spec
  /\ WF_vars(Tick)
  /\ \A c \in Calls :
       /\ WF_vars(Receive(c) \/ CutOff(c))
       /\ WF_vars(Fetched(c)) /\ WF_vars(Put(c))
       /\ SF_vars(UseCached(c) \/ Fetch(c))

-----------------------------------------------------------------------------
(* Properties.                                                             *)

\* QueueBound: an abandoned goroutine outlives its caller, but for no longer
\* than it takes everyone in front of it to run into the client's timeout.
QueueBound == \A c \in Calls : age[c] <= FetchTimeout * Cardinality(Calls)

\* OwnAnswer: what a worker goes on with is the answer of the goroutine it
\* started, never one that an abandoned call left behind.
OwnAnswer ==
  \A c \in Calls : caller[c] \in Answers => /\ ch[c] = caller[c]
                                            /\ fetcher[c] = "gone"

\* NoLeak: every goroutine that token starts ends, whether or not anyone
\* still waits for its result ("its result silently discarded into the
\* buffered channel", fcm.go:104).
NoLeak == \A c \in Calls : fetcher[c] = "lock" ~> fetcher[c] = "gone"

\* CallReturns: token returns, with an answer or with ctx.Err().
CallReturns == \A c \in Calls : caller[c] = "select" ~> caller[c] # "select"

\* AbandonedWithinTimeout: an abandoned goroutine "can never run past New's
\* http.Client timeout" (fcm.go:103).
AbandonedWithinTimeout ==
  \A c \in Calls : caller[c] = "cut" => age[c] <= FetchTimeout
=============================================================================
