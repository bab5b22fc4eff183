-------------------------- MODULE LifecycleProofs ---------------------------
(***************************************************************************)
(* Theorems about Lifecycle, for every set of environments, any number of  *)
(* connections and all time limits.                                        *)
(*                                                                         *)
(* The invariant has three parts.  Staged says what main has established   *)
(* when it gets to a line; Serving ties the listening goroutine and the    *)
(* connections to main; Timely adds up the time that a request has taken,  *)
(* phase by phase.                                                         *)
(***************************************************************************)
EXTENDS Lifecycle, TLAPS

Running == {"notify", "wait", "drain", "close"}

FcmWired == /\ env.fcm \in {"unset", "good"}
            /\ "android" \in stubs <=> env.fcm = "unset"

ApnsWired == /\ env.apns = APNsVars => ApnsNew(env)
             /\ "ios" \in stubs <=> env.apns # APNsVars

\* Staged: what is known about the environment when main gets to a line.
Staged ==
  /\ main \notin {"load", "down"} => cfg = Load(env)
  /\ main \in {"load", "fcm"} => stubs = {}
  /\ main = "apns" => FcmWired /\ "ios" \notin stubs
  /\ main \in {"store", "serve"} \cup Running => FcmWired /\ ApnsWired
  /\ main \in {"serve"} \cup Running => env.dbGood
  /\ main # "down" => exit = "none"

\* Blamed: the process does not give up without a reason, and the listening
\* goroutine does not fail without one.
Blamed == /\ exit = "fatal" => Unusable(env) \/ broken
          /\ srv = "failed" => Unusable(env) \/ broken

\* Serving: connections are accepted between Serve and Drain, if the port
\* could be bound, and main does not go on to close before they are gone or
\* the grace period is over.
Serving ==
  /\ srv = "open" => /\ main \in {"notify", "wait"}
                     /\ cfg.port \in Ports
                     /\ env.portFree
  /\ srv = "start" => main \in Running
  /\ srv \in {"off", "start"} \/ (srv = "failed" /\ ~broken) =>
       \A c \in Conns : conn[c].at = "none"
  /\ main \notin Running => srv = "off"
  /\ main = "close" => waited = Grace \/ \A c \in Conns : conn[c].at = "none"
  /\ \A c \in Conns : conn[c].fate = "cut" => main = "down"

asked == IF env.timeout.form \in {"number", "plus"} THEN env.timeout.n ELSE 2

\* Timely(c): the request on connection c has taken no more time than its
\* phases were given so far, not counting what it waited for the store.
Timely(c) ==
  LET k == conn[c] IN
  /\ k.fate = "late" => k.store > WriteTimeout - ReadTimeout - asked
  /\ k.at = "read" => k.since <= ReadTimeout /\ k.age <= k.since
  /\ k.at = "bind" => k.age <= ReadTimeout + k.store
  /\ k.at = "send" => k.since <= asked /\ k.age <= ReadTimeout + k.store + k.since
  /\ k.at = "write" => k.age <= ReadTimeout + k.store + asked

InTime == asked > 0 => \A c \in Conns : Timely(c)

IInv == /\ TypeOK /\ Staged /\ Blamed /\ Serving /\ CutOnlyAfterGrace /\ InTime

-----------------------------------------------------------------------------
(* Types.                                                                  *)

Connections == [at : Handling \cup {"none", "idle"},
                age : 0..AgeBound, since : 0..AgeBound, store : 0..AgeBound,
                fate : {"none", "late", "cut"}]

\* Limits: the numbers.
LEMMA Limits ==
  /\ Grace \in Nat /\ Grace > 0 /\ ReadTimeout \in Nat /\ WriteTimeout \in Nat
  /\ AgeBound \in Nat /\ AgeBound = WriteTimeout + 1
<1>1. {Grace, ReadTimeout, WriteTimeout} \subseteq Nat \ {0}
  BY LifecycleAssumption
<1>2. /\ Grace \in Nat \ {0} /\ ReadTimeout \in Nat \ {0}
      /\ WriteTimeout \in Nat \ {0}
  BY <1>1
<1> QED BY <1>2 DEF AgeBound

\* Settings: the numbers of an environment.
LEMMA Settings ==
  ASSUME NEW e \in Envs
  PROVE  /\ getint(e.port, 8090) \in Int /\ getint(e.timeout, 2) \in Int
         /\ e.fcm \in {"unset", "no_file", "malformed", "no_project", "good"}
         /\ e.apns \subseteq APNsVars
<1>1. {e.port, e.timeout} \subseteq Value
  BY LifecycleAssumption
<1>2. e.port.n \in Int /\ e.timeout.n \in Int
  BY <1>1 DEF Value
<1>3. /\ e.fcm \in {"unset", "no_file", "malformed", "no_project", "good"}
      /\ e.apns \subseteq APNsVars
  BY LifecycleAssumption
<1> QED BY <1>2, <1>3 DEF getint

\* AtType: a connection that begins something.
LEMMA AtType ==
  ASSUME NEW w \in Handling \cup {"none", "idle"}, NEW a \in 0..AgeBound,
         NEW b \in 0..AgeBound, NEW f \in {"none", "late", "cut"}
  PROVE  /\ At(w, a, b, f) \in Connections
         /\ At(w, a, b, f).at = w /\ At(w, a, b, f).age = a
         /\ At(w, a, b, f).since = 0 /\ At(w, a, b, f).store = b
         /\ At(w, a, b, f).fate = f
BY Limits DEF At, Connections

\* Ended: what End does.
LEMMA Ended ==
  ASSUME TypeOK, NEW how, End(how)
  PROVE  /\ conn' \in [Conns -> Connections]
         /\ \A c \in Conns :
              /\ conn'[c].at = "none"
              /\ conn'[c].fate = IF conn[c].at \in Handling THEN "cut" ELSE "none"
<1> DEFINE f(c) == IF conn[c].at \in Handling THEN "cut" ELSE "none"
<1>1. conn' = [c \in Conns |-> At("none", 0, 0, f(c))]
  BY DEF End
<1>2. \A c \in Conns : f(c) \in {"none", "late", "cut"}
  OBVIOUS
<1>3. 0 \in 0..AgeBound
  BY Limits
<1>4. ASSUME NEW c \in Conns
      PROVE  /\ At("none", 0, 0, f(c)) \in Connections
             /\ At("none", 0, 0, f(c)).at = "none"
             /\ At("none", 0, 0, f(c)).fate = f(c)
  BY <1>2, <1>3, AtType
<1> HIDE DEF f
<1>5. conn' \in [Conns -> Connections]
  BY <1>1, <1>4
<1>6. \A c \in Conns : conn'[c].at = "none" /\ conn'[c].fate = f(c)
  BY <1>1, <1>4
<1> QED BY <1>5, <1>6 DEF f

\* Begun: what Becomes does with a connection that begins something.
LEMMA Begun ==
  ASSUME TypeOK, NEW c \in Conns, NEW w \in Handling \cup {"none", "idle"},
         NEW a \in 0..AgeBound, NEW b \in 0..AgeBound,
         NEW f \in {"none", "late", "cut"},
         Becomes(c, At(w, a, b, f))
  PROVE  /\ conn' \in [Conns -> Connections]
         /\ conn'[c].at = w /\ conn'[c].age = a /\ conn'[c].since = 0
         /\ conn'[c].store = b /\ conn'[c].fate = f
         /\ \A d \in Conns : d # c => conn'[d] = conn[d]
         /\ UNCHANGED <<env, cfg, stubs, exit, main, srv, broken, stop, waited>>
<1>1. PICK new : new = At(w, a, b, f)
  OBVIOUS
<1>2. /\ new \in Connections /\ new.at = w /\ new.age = a
      /\ new.since = 0 /\ new.store = b /\ new.fate = f
  BY <1>1, AtType
<1>3. conn' = [conn EXCEPT ![c] = new] /\ conn \in [Conns -> Connections]
  BY <1>1 DEF Becomes, TypeOK, Connections
<1>4. UNCHANGED <<env, cfg, stubs, exit, main, srv, broken, stop, waited>>
  BY DEF Becomes, proc
<1> QED BY <1>2, <1>3, <1>4

\* EndType: types after the process has ended.
LEMMA EndType ==
  ASSUME TypeOK, NEW how \in {"clean", "fatal", "killed"}, End(how)
  PROVE  TypeOK'
<1>1. conn' \in [Conns -> Connections]
  BY Ended
<1> QED BY <1>1 DEF TypeOK, End, Connections

\* LineType: types after one line of main.
LEMMA LineType ==
  ASSUME TypeOK, NEW from, NEW ok,
         NEW to \in Startup, NEW wired \in SUBSET {"ios", "android"},
         Line(from, ok, to, wired)
  PROVE  TypeOK'
<1>1. CASE End("fatal")
  BY <1>1, EndType
<1>2. CASE ~End("fatal")
  BY <1>2 DEF TypeOK, Line
<1> QED BY <1>1, <1>2

\* Passed: a connection is in the phase that follows, with its age.
LEMMA Passed ==
  ASSUME TypeOK, NEW c \in Conns, Step(c)
  PROVE  \E to \in {"bind", "send", "write"} :
           /\ to = "bind" => conn[c].at = "read"
           /\ to = "send" => conn[c].at = "bind"
           /\ conn[c].at \in {"read", "bind", "send"}
           /\ conn[c].age \in 0..AgeBound /\ conn[c].store \in 0..AgeBound
           /\ Becomes(c, At(to, conn[c].age, conn[c].store, "none"))
<1>1. conn[c].age \in 0..AgeBound /\ conn[c].store \in 0..AgeBound
  BY DEF TypeOK
<1>2. conn[c].at \in {"read", "bind", "send"}
  BY DEF Step, Handling
<1>3. CASE conn[c].at = "read"
  BY <1>1, <1>3 DEF Step
<1>4. CASE conn[c].at = "bind"
  BY <1>1, <1>4 DEF Step
<1>5. CASE conn[c].at = "send"
  BY <1>1, <1>5 DEF Step
<1> QED BY <1>2, <1>3, <1>4, <1>5

\* Moved(c): only connection c has changed.
Moved(c) ==
  /\ conn' \in [Conns -> Connections]
  /\ \A d \in Conns : d # c => conn'[d] = conn[d]
  /\ UNCHANGED <<env, cfg, stubs, exit, main, srv, broken, stop, waited>>

\* ConnectMoves: what Connect does.
LEMMA ConnectMoves ==
  ASSUME TypeOK, NEW c \in Conns, Connect(c)
  PROVE  Moved(c) /\ conn'[c].at = "idle" /\ conn'[c].fate = "none"
<1>1. Becomes(c, At("idle", 0, 0, "none")) /\ 0 \in 0..AgeBound
  BY Limits DEF Connect
<1> QED BY <1>1, Begun DEF Moved

\* RequestMoves: what Request does.
LEMMA RequestMoves ==
  ASSUME TypeOK, NEW c \in Conns, Request(c)
  PROVE  /\ Moved(c) /\ conn'[c].at = "read" /\ conn'[c].age = 0
         /\ conn'[c].since = 0 /\ conn'[c].fate = "none"
<1>1. Becomes(c, At("read", 0, 0, "none")) /\ 0 \in 0..AgeBound
  BY Limits DEF Request
<1> QED BY <1>1, Begun DEF Moved, Handling

\* HangupMoves: what Hangup does.
LEMMA HangupMoves ==
  ASSUME TypeOK, NEW c \in Conns, Hangup(c)
  PROVE  Moved(c) /\ conn'[c].at = "none" /\ conn'[c].fate = "none"
<1>1. Becomes(c, At("none", 0, 0, "none")) /\ 0 \in 0..AgeBound
  BY Limits DEF Hangup, NoConn
<1> QED BY <1>1, Begun DEF Moved

\* StepMoves: what Step does.
LEMMA StepMoves ==
  ASSUME TypeOK, NEW c \in Conns, Step(c)
  PROVE  /\ Moved(c) /\ conn'[c].age = conn[c].age /\ conn'[c].since = 0
         /\ conn'[c].store = conn[c].store /\ conn'[c].fate = "none"
         /\ conn'[c].at \in {"bind", "send", "write"}
         /\ conn'[c].at = "bind" => conn[c].at = "read"
         /\ conn'[c].at = "send" => conn[c].at = "bind"
         /\ conn[c].at \in {"read", "bind", "send"}
<1>1. PICK to \in {"bind", "send", "write"} :
        /\ to = "bind" => conn[c].at = "read"
        /\ to = "send" => conn[c].at = "bind"
        /\ conn[c].at \in {"read", "bind", "send"}
        /\ conn[c].age \in 0..AgeBound /\ conn[c].store \in 0..AgeBound
        /\ Becomes(c, At(to, conn[c].age, conn[c].store, "none"))
  BY Passed
<1>2. PICK a \in 0..AgeBound, b \in 0..AgeBound :
        a = conn[c].age /\ b = conn[c].store
  BY <1>1
<1>3. Becomes(c, At(to, a, b, "none")) /\ to \in Handling \cup {"none", "idle"}
  BY <1>1, <1>2 DEF Handling
<1>4. /\ Moved(c) /\ conn'[c].at = to /\ conn'[c].age = a
      /\ conn'[c].since = 0 /\ conn'[c].store = b /\ conn'[c].fate = "none"
  BY <1>3, Begun DEF Moved
<1> QED BY <1>1, <1>2, <1>4

\* RespondMoves: what Respond does.
LEMMA RespondMoves ==
  ASSUME TypeOK, NEW c \in Conns, Respond(c)
  PROVE  /\ Moved(c) /\ conn[c].at = "write" /\ conn'[c].at \in {"none", "idle"}
         /\ IF conn[c].age <= WriteTimeout THEN conn'[c].fate = "none"
            ELSE conn'[c].fate = "late" /\ conn'[c].store = conn[c].store
<1>1. PICK w \in Handling \cup {"none", "idle"} :
        w = IF main \in {"drain", "close"} THEN "none" ELSE "idle"
  OBVIOUS
<1>2. PICK b \in 0..AgeBound : b = conn[c].store
  BY DEF TypeOK
<1>3. 0 \in 0..AgeBound
  BY Limits
<1>4. CASE conn[c].age <= WriteTimeout
  <2>1. Becomes(c, At(w, 0, 0, "none"))
    BY <1>1, <1>4 DEF Respond
  <2>2. Moved(c) /\ conn'[c].at = w /\ conn'[c].fate = "none"
    BY <1>3, <2>1, Begun DEF Moved
  <2> QED BY <1>1, <1>4, <2>2 DEF Respond
<1>5. CASE ~(conn[c].age <= WriteTimeout)
  <2>1. Becomes(c, At(w, 0, b, "late"))
    BY <1>1, <1>2, <1>5 DEF Respond
  <2>2. Moved(c) /\ conn'[c].at = w /\ conn'[c].fate = "late" /\ conn'[c].store = b
    BY <1>3, <2>1, Begun DEF Moved
  <2> QED BY <1>1, <1>2, <1>5, <2>2 DEF Respond
<1> QED BY <1>4, <1>5

\* TickMoves: what Tick does.
LEMMA TickMoves ==
  ASSUME TypeOK, Tick
  PROVE  /\ conn' \in [Conns -> Connections]
         /\ \A c \in Conns :
              /\ conn'[c].at = conn[c].at
              /\ conn'[c].fate = conn[c].fate
              /\ conn[c].at \in Handling =>
                   /\ conn'[c].age = Older(conn[c].age)
                   /\ conn'[c].since = Older(conn[c].since)
              /\ conn'[c].store = IF conn[c].at = "bind" THEN Older(conn[c].store)
                                  ELSE conn[c].store
<1>1. \A a \in 0..AgeBound : Older(a) \in 0..AgeBound
  BY Limits DEF Older
<1> SUFFICES ASSUME NEW c \in Conns
             PROVE  /\ conn'[c] \in Connections
                    /\ conn'[c].at = conn[c].at
                    /\ conn'[c].fate = conn[c].fate
                    /\ conn[c].at \in Handling =>
                         /\ conn'[c].age = Older(conn[c].age)
                         /\ conn'[c].since = Older(conn[c].since)
                    /\ conn'[c].store = IF conn[c].at = "bind"
                                        THEN Older(conn[c].store)
                                        ELSE conn[c].store
  <2>1. conn' = [c \in Conns |-> conn'[c]]
    BY DEF Tick
  <2> QED BY <2>1
<1>2. conn[c] \in Connections
  BY DEF TypeOK, Connections
<1>3. PICK b \in 0..AgeBound :
        b = IF conn[c].at = "bind" THEN Older(conn[c].store) ELSE conn[c].store
  BY <1>1, <1>2 DEF Connections
<1>4. conn'[c] = IF conn[c].at \in Handling
                   THEN [conn[c] EXCEPT !.age = Older(@), !.since = Older(@),
                                        !.store = b]
                   ELSE conn[c]
  BY <1>3 DEF Tick
<1>5. conn[c].at = "bind" => conn[c].at \in Handling
  BY DEF Handling
<1> QED BY <1>1, <1>2, <1>3, <1>4, <1>5 DEF Connections

\* MovedType: types after a connection has moved.
LEMMA MovedType ==
  ASSUME TypeOK, NEW c, Moved(c)
  PROVE  TypeOK'
BY DEF TypeOK, Moved, Connections

\* TypeStep: types are kept.
LEMMA TypeStep ==
  ASSUME TypeOK, [Next]_vars
  PROVE  TypeOK'
<1>1. CASE LoadConfig
  BY <1>1, Settings DEF TypeOK, LoadConfig, Load, Startup
<1>2. CASE buildFCM
  <2>1. PICK w \in SUBSET {"ios", "android"} :
          w = IF env.fcm = "unset" THEN {"android"} ELSE {}
    OBVIOUS
  <2> QED BY <1>2, <2>1, LineType DEF buildFCM, Startup
<1>3. CASE buildAPNs
  <2>1. PICK w \in SUBSET {"ios", "android"} :
          w = IF env.apns = APNsVars THEN {} ELSE {"ios"}
    OBVIOUS
  <2> QED BY <1>3, <2>1, LineType DEF buildAPNs, Startup
<1>4. CASE OpenStore
  BY <1>4, LineType DEF OpenStore, Startup
<1>5. CASE Serve
  BY <1>5 DEF TypeOK, Serve, Startup, proc
<1>6. CASE Notify
  BY <1>6 DEF TypeOK, Notify, proc
<1>7. CASE Listen \/ AcceptFails \/ ListenFatal
  <2>1. CASE Listen
    BY <2>1 DEF TypeOK, Listen, proc
  <2>2. CASE AcceptFails
    BY <2>2 DEF TypeOK, AcceptFails, proc
  <2>3. CASE ListenFatal
    BY <2>3, EndType DEF ListenFatal
  <2> QED BY <1>7, <2>1, <2>2, <2>3
<1>8. ASSUME NEW c \in Conns,
             Connect(c) \/ Request(c) \/ Hangup(c) \/ Step(c) \/ Respond(c)
      PROVE  TypeOK'
  BY <1>8, ConnectMoves, RequestMoves, HangupMoves, StepMoves, RespondMoves,
     MovedType
<1>9. CASE Signal
  <2>1. CASE End("killed")
    BY <2>1, EndType
  <2>2. CASE ~End("killed")
    BY <1>9, <2>2 DEF TypeOK, Signal, proc
  <2> QED BY <2>1, <2>2
<1>10. CASE Drain
  <2>1. 0 \in 0..Grace
    BY Limits
  <2> QED BY <1>10, <2>1 DEF TypeOK, Drain, proc
<1>11. CASE Drained
  BY <1>11 DEF TypeOK, Drained, proc
<1>12. CASE Return
  BY <1>12, EndType DEF Return
<1>13. CASE Crash
  BY <1>13, EndType DEF Crash
<1>14. CASE Restart
  <2>1. 0 \in 0..AgeBound /\ 0 \in 0..Grace
    BY Limits
  <2>2. NoConn \in Connections
    BY <2>1, AtType DEF NoConn
  <2>3. conn' \in [Conns -> Connections]
    BY <1>14, <2>2 DEF Restart
  <2>4. {broken, stop}' \subseteq BOOLEAN
    BY <1>14 DEF Restart, TypeOK
  <2>5. {cfg.port, cfg.sendTimeout}' \subseteq Int
    BY <1>14 DEF Restart, NoConfig
  <2> QED BY <1>14, <2>1, <2>3, <2>4, <2>5 DEF TypeOK, Restart, Startup, Connections
<1>15. CASE Tick
  <2>1. conn' \in [Conns -> Connections]
    BY <1>15, TickMoves
  <2>2. waited' \in 0..Grace
    <3>1. waited \in 0..Grace /\ Grace \in Nat
      BY Limits DEF TypeOK
    <3>2. waited' = waited \/ (waited' = waited + 1 /\ waited < Grace)
      BY <1>15 DEF Tick
    <3> QED BY <3>1, <3>2
  <2> QED BY <1>15, <2>1, <2>2 DEF TypeOK, Tick, Connections, proc
<1>16. CASE UNCHANGED vars
  BY <1>16 DEF TypeOK, vars
<1> QED BY <1>1, <1>2, <1>3, <1>4, <1>5, <1>6, <1>7, <1>8, <1>9, <1>10, <1>11,
           <1>12, <1>13, <1>14, <1>15, <1>16 DEF Next

-----------------------------------------------------------------------------
(* What main has established.                                              *)

\* EndStaged: nothing is known of a process that has ended but how.
LEMMA EndStaged ==
  ASSUME Blamed, NEW how \in {"clean", "fatal", "killed"}, End(how),
         how = "fatal" => Unusable(env) \/ broken
  PROVE  Staged' /\ Blamed'
<1>1. main' = "down" /\ exit' = how /\ srv' = "off" /\ UNCHANGED <<env, broken>>
  BY DEF End
<1>2. Staged'
  BY <1>1 DEF Staged, Running
<1>3. Unusable(env)' <=> Unusable(env)
  BY <1>1
<1> QED BY <1>1, <1>2, <1>3 DEF Blamed

\* SameStaged: a step after startup, or of a connection.
LEMMA SameStaged ==
  ASSUME Staged, Blamed, UNCHANGED <<env, cfg, stubs, exit>>,
         srv' \in {srv, "start", "open", "closed"}, broken' = broken,
         \/ main' = main
         \/ main \in {"serve"} \cup Running /\ main' \in Running
  PROVE  Staged' /\ Blamed'
<1>1. /\ FcmWired' <=> FcmWired
      /\ ApnsWired' <=> ApnsWired
      /\ Unusable(env)' <=> Unusable(env)
      /\ Load(env)' = Load(env)
  BY DEF FcmWired, ApnsWired
<1>2. Blamed'
  BY <1>1 DEF Blamed
<1>3. Staged'
  BY <1>1 DEF Staged, Running
<1> QED BY <1>2, <1>3

\* StagedStep: main's lines, one by one.
LEMMA StagedStep ==
  ASSUME TypeOK, Staged, Blamed, Serving, [Next]_vars
  PROVE  Staged' /\ Blamed'
<1>1. CASE LoadConfig
  <2>1. /\ main = "load" /\ main' = "fcm" /\ cfg' = Load(env)
        /\ UNCHANGED <<env, stubs, exit, srv>>
    BY <1>1 DEF LoadConfig
  <2>2. Load(env)' = Load(env)
    BY <2>1
  <2>3. stubs = {} /\ exit = "none" /\ srv = "off"
    BY <2>1 DEF Staged, Serving, Running
  <2> QED BY <2>1, <2>2, <2>3 DEF Staged, Blamed, Running
<1>2. CASE buildFCM
  <2>1. /\ main = "fcm" /\ stubs = {} /\ exit = "none" /\ cfg = Load(env)
        /\ srv = "off"
    BY <1>2 DEF buildFCM, Line, Staged, Serving, Running
  <2>2. env.fcm \in {"unset", "no_file", "malformed", "no_project", "good"}
    BY Settings DEF TypeOK
  <2>3. CASE env.fcm # "no_file" /\ FcmNew(env)
    <3>1. /\ main' = "apns" /\ UNCHANGED <<env, cfg, exit, srv>>
          /\ stubs' = stubs \cup IF env.fcm = "unset" THEN {"android"} ELSE {}
      BY <1>2, <2>3 DEF buildFCM, Line
    <3>2. FcmWired'
      BY <2>1, <2>2, <2>3, <3>1 DEF FcmWired, FcmNew
    <3>3. Load(env)' = Load(env)
      BY <3>1
    <3>4. "ios" \notin stubs'
      BY <2>1, <3>1
    <3> QED BY <2>1, <3>1, <3>2, <3>3, <3>4 DEF Staged, Blamed, Running
  <2>4. CASE ~(env.fcm # "no_file" /\ FcmNew(env))
    <3>1. End("fatal")
      BY <1>2, <2>4 DEF buildFCM, Line
    <3>2. Unusable(env)
      BY <2>4 DEF Unusable, FcmNew
    <3> QED BY <3>1, <3>2, EndStaged
  <2> QED BY <2>3, <2>4
<1>3. CASE buildAPNs
  <2>1. /\ main = "apns" /\ FcmWired /\ "ios" \notin stubs /\ exit = "none"
        /\ cfg = Load(env) /\ srv = "off"
    BY <1>3 DEF buildAPNs, Line, Staged, Serving, Running
  <2>2. CASE env.apns = APNsVars => ApnsNew(env)
    <3>1. /\ main' = "store" /\ UNCHANGED <<env, cfg, exit, srv>>
          /\ stubs' = stubs \cup IF env.apns = APNsVars THEN {} ELSE {"ios"}
      BY <1>3, <2>2 DEF buildAPNs, Line
    <3>2. FcmWired'
      BY <2>1, <3>1 DEF FcmWired
    <3>3. ApnsWired'
      BY <2>1, <2>2, <3>1 DEF ApnsWired
    <3>4. Load(env)' = Load(env)
      BY <3>1
    <3> QED BY <2>1, <3>1, <3>2, <3>3, <3>4 DEF Staged, Blamed, Running
  <2>3. CASE ~(env.apns = APNsVars => ApnsNew(env))
    <3>1. End("fatal")
      BY <1>3, <2>3 DEF buildAPNs, Line
    <3>2. Unusable(env)
      BY <2>3 DEF Unusable, ApnsNew
    <3> QED BY <3>1, <3>2, EndStaged
  <2> QED BY <2>2, <2>3
<1>4. CASE OpenStore
  <2>1. /\ main = "store" /\ FcmWired /\ ApnsWired /\ exit = "none"
        /\ cfg = Load(env) /\ srv = "off"
    BY <1>4 DEF OpenStore, Line, Staged, Serving, Running
  <2>2. CASE env.dbGood
    <3>1. main' = "serve" /\ UNCHANGED <<env, cfg, stubs, exit, srv>>
      BY <1>4, <2>2 DEF OpenStore, Line
    <3>2. FcmWired' /\ ApnsWired' /\ Load(env)' = Load(env)
      BY <2>1, <3>1 DEF FcmWired, ApnsWired
    <3> QED BY <2>1, <2>2, <3>1, <3>2 DEF Staged, Blamed, Running
  <2>3. CASE ~env.dbGood
    <3>1. End("fatal")
      BY <1>4, <2>3 DEF OpenStore, Line
    <3>2. Unusable(env)
      BY <2>3 DEF Unusable
    <3> QED BY <3>1, <3>2, EndStaged
  <2> QED BY <2>2, <2>3
<1>5. CASE Serve
  BY <1>5, SameStaged DEF Serve, Running, proc
<1>6. CASE Notify
  BY <1>6, SameStaged DEF Notify, Running, proc
<1>7. CASE Listen \/ AcceptFails \/ ListenFatal
  <2>1. CASE ListenFatal
    <3>1. End("fatal") /\ (Unusable(env) \/ broken)
      BY <2>1 DEF ListenFatal, Blamed
    <3> QED BY <3>1, EndStaged
  <2>2. CASE Listen
    <3>1. UNCHANGED <<env, cfg, stubs, exit, main, broken>>
      BY <2>2 DEF Listen, proc
    <3>2. CASE srv' # "failed"
      BY <2>2, <3>1, <3>2, SameStaged DEF Listen
    <3>3. CASE srv' = "failed"
      <4>1. srv = "start" /\ ~(cfg.port \in Ports /\ env.portFree)
        BY <2>2, <3>3 DEF Listen
      <4>2. cfg.port = getint(env.port, 8090)
        BY <4>1 DEF Serving, Staged, Running, Load
      <4>3. Unusable(env)
        BY <4>1, <4>2 DEF Unusable
      <4>4. Unusable(env)' <=> Unusable(env)
        BY <3>1
      <4>5. Staged'
        BY <3>1 DEF Staged, FcmWired, ApnsWired
      <4> QED BY <4>3, <4>4, <4>5 DEF Blamed
    <3> QED BY <3>2, <3>3
  <2>3. CASE AcceptFails
    <3>1. UNCHANGED <<env, cfg, stubs, exit, main>> /\ broken'
      BY <2>3 DEF AcceptFails, proc
    <3>2. Staged'
      BY <3>1 DEF Staged, FcmWired, ApnsWired
    <3> QED BY <3>1, <3>2 DEF Blamed
  <2> QED BY <1>7, <2>1, <2>2, <2>3
<1>8. ASSUME NEW c \in Conns,
             Connect(c) \/ Request(c) \/ Hangup(c) \/ Step(c) \/ Respond(c)
      PROVE  Staged' /\ Blamed'
  <2>1. Moved(c)
    BY <1>8, ConnectMoves, RequestMoves, HangupMoves, StepMoves, RespondMoves
  <2> QED BY <2>1, SameStaged DEF Moved
<1>9. CASE Signal
  <2>1. CASE End("killed")
    BY <2>1, EndStaged
  <2>2. CASE ~End("killed")
    BY <1>9, <2>2, SameStaged DEF Signal, proc
  <2> QED BY <2>1, <2>2
<1>10. CASE Drain
  BY <1>10, SameStaged DEF Drain, Running, proc
<1>11. CASE Drained
  BY <1>11, SameStaged DEF Drained, Running, proc
<1>12. CASE Return
  BY <1>12, EndStaged DEF Return
<1>13. CASE Crash
  BY <1>13, EndStaged DEF Crash
<1>14. CASE Restart
  <2>1. srv = "off"
    BY <1>14 DEF Restart, Serving, Running
  <2> QED BY <1>14, <2>1 DEF Restart, Staged, Blamed, Running
<1>15. CASE Tick
  BY <1>15, SameStaged DEF Tick, proc
<1>16. CASE UNCHANGED vars
  BY <1>16, SameStaged DEF vars
<1> QED BY <1>1, <1>2, <1>3, <1>4, <1>5, <1>6, <1>7, <1>8, <1>9, <1>10, <1>11,
           <1>12, <1>13, <1>14, <1>15, <1>16 DEF Next

-----------------------------------------------------------------------------
(* The listening goroutine, the connections, the end of the process.       *)

\* EndServing: the end of the process cuts off only what main has waited for,
\* unless it is killed or the open listener broke.
LEMMA EndServing ==
  ASSUME TypeOK, Serving, main # "down", NEW how \in {"clean", "fatal", "killed"},
         End(how),
         \/ how = "killed"
         \/ how = "clean" /\ waited = Grace
         \/ how = "fatal" /\ broken
         \/ \A c \in Conns : conn[c].at = "none"
  PROVE  Serving' /\ CutOnlyAfterGrace'
<1>1. /\ main' = "down" /\ exit' = how /\ srv' = "off"
      /\ waited' = waited /\ broken' = broken
  BY DEF End
<1>2. \A c \in Conns : /\ conn'[c].at = "none"
                       /\ conn'[c].fate = IF conn[c].at \in Handling THEN "cut"
                                          ELSE "none"
  BY Ended
<1>3. Serving'
  BY <1>1, <1>2 DEF Serving, Running
<1>4. \A c \in Conns : conn'[c].fate = "cut" => conn[c].at # "none"
  BY <1>2 DEF Serving, Handling
<1>5. CutOnlyAfterGrace'
  BY <1>1, <1>4 DEF CutOnlyAfterGrace
<1> QED BY <1>3, <1>5

\* Alive: there is nobody to complain while the process runs.
LEMMA Alive ==
  ASSUME Serving', main' # "down"
  PROVE  CutOnlyAfterGrace'
BY DEF Serving, CutOnlyAfterGrace

\* MovedServing: a connection moves only while the process serves it.
LEMMA MovedServing ==
  ASSUME TypeOK, Serving, NEW c \in Conns, Moved(c),
         srv = "open" \/ conn[c].at # "none",
         conn'[c].fate \in {"none", "late"}
  PROVE  Serving' /\ CutOnlyAfterGrace'
<1>1. /\ UNCHANGED <<env, cfg, exit, main, srv, broken, waited>>
      /\ \A d \in Conns : d # c => conn'[d] = conn[d]
  BY DEF Moved
<1>2. srv \in {"open", "closed"} \/ (srv = "failed" /\ broken)
  BY DEF Serving, TypeOK
<1>3. main \in Running /\ main # "down"
  BY <1>2 DEF Serving, Running
<1>4. main = "close" => waited = Grace
  BY <1>2 DEF Serving
<1>5. \A d \in Conns : conn'[d].fate # "cut"
  BY <1>1, <1>3 DEF Serving
<1>6. Serving'
  BY <1>1, <1>2, <1>3, <1>4, <1>5 DEF Serving
<1> QED BY <1>1, <1>3, <1>6, Alive

\* ServingStep: the order in which main, the listening goroutine and the
\* connections come and go.
LEMMA ServingStep ==
  ASSUME TypeOK, Serving, CutOnlyAfterGrace, [Next]_vars
  PROVE  Serving' /\ CutOnlyAfterGrace'
<1>1. ASSUME NEW from \in Startup \ {"notify"}, NEW ok,
             NEW to \in Startup \ {"notify"}, NEW wired, Line(from, ok, to, wired)
      PROVE  Serving' /\ CutOnlyAfterGrace'
  <2>1. main = from /\ main # "down" /\ main \notin Running
    BY <1>1 DEF Line, Startup, Running
  <2>2. srv = "off" /\ \A c \in Conns : conn[c].at = "none"
    BY <2>1 DEF Serving
  <2>3. CASE End("fatal")
    BY <2>1, <2>2, <2>3, EndServing
  <2>4. CASE ~End("fatal")
    <3>1. main' = to /\ UNCHANGED <<env, cfg, srv, broken, waited, conn, exit>>
      BY <1>1, <2>4 DEF Line
    <3>2. to \notin Running /\ to # "down"
      BY DEF Startup, Running
    <3>3. Serving'
      BY <2>1, <2>2, <3>1, <3>2 DEF Serving, Running
    <3> QED BY <3>1, <3>2, <3>3, Alive
  <2> QED BY <2>3, <2>4
<1>2. CASE LoadConfig
  <2>1. /\ main = "load" /\ main' = "fcm"
        /\ UNCHANGED <<env, srv, broken, waited, conn, exit>>
    BY <1>2 DEF LoadConfig
  <2>2. srv = "off"
    BY <2>1 DEF Serving, Running
  <2>3. Serving'
    BY <2>1, <2>2 DEF Serving, Running
  <2> QED BY <2>1, <2>3, Alive
<1>3. CASE buildFCM
  BY <1>1, <1>3 DEF buildFCM, Startup
<1>4. CASE buildAPNs
  BY <1>1, <1>4 DEF buildAPNs, Startup
<1>5. CASE OpenStore
  BY <1>1, <1>5 DEF OpenStore, Startup
<1>6. CASE Serve
  <2>1. /\ main = "serve" /\ main' = "notify" /\ srv' = "start"
        /\ UNCHANGED <<env, cfg, broken, waited, conn, exit>>
    BY <1>6 DEF Serve, proc
  <2>2. srv = "off"
    BY <2>1 DEF Serving, Running
  <2>3. Serving'
    BY <2>1, <2>2 DEF Serving, Running
  <2> QED BY <2>1, <2>3, Alive
<1>7. CASE Notify
  <2>1. /\ main = "notify" /\ main' = "wait"
        /\ UNCHANGED <<env, cfg, srv, broken, waited, conn, exit>>
    BY <1>7 DEF Notify, proc
  <2>2. Serving'
    BY <2>1 DEF Serving, Running
  <2> QED BY <2>1, <2>2, Alive
<1>8. CASE Listen \/ AcceptFails \/ ListenFatal
  <2>1. srv \in {"start", "open", "failed"} /\ main \in Running /\ main # "down"
    BY <1>8 DEF Listen, AcceptFails, ListenFatal, Serving, Running
  <2>2. CASE Listen
    <3>1. /\ srv = "start"
          /\ UNCHANGED <<env, cfg, exit, main, broken, waited, conn>>
          /\ \/ srv' \in {"closed", "failed"}
             \/ /\ srv' = "open" /\ main \notin {"drain", "close"}
                /\ cfg.port \in Ports /\ env.portFree
      BY <2>2 DEF Listen, proc
    <3>2. \A c \in Conns : conn[c].at = "none"
      BY <3>1 DEF Serving
    <3>3. Serving'
      BY <2>1, <3>1, <3>2 DEF Serving, Running
    <3> QED BY <2>1, <3>1, <3>3, Alive
  <2>3. CASE AcceptFails
    <3>1. /\ srv' = "failed" /\ broken'
          /\ UNCHANGED <<env, cfg, exit, main, waited, conn>>
      BY <2>3 DEF AcceptFails, proc
    <3>2. Serving'
      BY <2>1, <3>1 DEF Serving, Running
    <3> QED BY <2>1, <3>1, <3>2, Alive
  <2>4. CASE ListenFatal
    <3>1. srv = "failed" /\ End("fatal")
      BY <2>4 DEF ListenFatal
    <3>2. CASE broken
      BY <2>1, <3>1, <3>2, EndServing
    <3>3. CASE ~broken
      <4>1. \A c \in Conns : conn[c].at = "none"
        BY <3>1, <3>3 DEF Serving
      <4> QED BY <2>1, <3>1, <4>1, EndServing
    <3> QED BY <3>2, <3>3
  <2> QED BY <1>8, <2>2, <2>3, <2>4
<1>9. ASSUME NEW c \in Conns, Connect(c) PROVE Serving' /\ CutOnlyAfterGrace'
  BY <1>9, ConnectMoves, MovedServing DEF Connect
<1>10. ASSUME NEW c \in Conns, Request(c) PROVE Serving' /\ CutOnlyAfterGrace'
  BY <1>10, RequestMoves, MovedServing DEF Request
<1>11. ASSUME NEW c \in Conns, Hangup(c) PROVE Serving' /\ CutOnlyAfterGrace'
  BY <1>11, HangupMoves, MovedServing DEF Hangup
<1>12. ASSUME NEW c \in Conns, Step(c) PROVE Serving' /\ CutOnlyAfterGrace'
  BY <1>12, StepMoves, MovedServing
<1>13. ASSUME NEW c \in Conns, Respond(c) PROVE Serving' /\ CutOnlyAfterGrace'
  <2>1. /\ Moved(c) /\ conn[c].at # "none"
        /\ conn'[c].fate \in {"none", "late"}
    BY <1>13, RespondMoves
  <2> QED BY <2>1, MovedServing
<1>14. CASE Signal
  <2>1. CASE main \in Startup
    <3>1. End("killed") /\ main # "down"
      BY <1>14, <2>1 DEF Signal, Startup
    <3> QED BY <3>1, EndServing
  <2>2. CASE main \notin Startup
    <3>1. /\ UNCHANGED <<env, cfg, exit, main, srv, broken, waited, conn>>
          /\ main # "down"
      BY <1>14, <2>2 DEF Signal, proc
    <3>2. Serving'
      BY <3>1 DEF Serving
    <3> QED BY <3>1, <3>2, Alive
  <2> QED BY <2>1, <2>2
<1>15. CASE Drain
  <2>1. /\ main = "wait" /\ main' = "drain"
        /\ UNCHANGED <<env, cfg, exit, broken, conn>>
        /\ srv' = IF srv = "open" THEN "closed" ELSE srv
    BY <1>15 DEF Drain, proc
  <2>2. Serving'
    BY <2>1 DEF Serving, Running
  <2> QED BY <2>1, <2>2, Alive
<1>16. CASE Drained
  <2>1. /\ main = "drain" /\ main' = "close"
        /\ waited = Grace \/ \A c \in Conns : conn[c].at = "none"
        /\ UNCHANGED <<env, cfg, exit, srv, broken, waited, conn>>
    BY <1>16 DEF Drained, proc
  <2>2. Serving'
    BY <2>1 DEF Serving, Running
  <2> QED BY <2>1, <2>2, Alive
<1>17. CASE Return
  <2>1. main = "close" /\ End("clean")
    BY <1>17 DEF Return
  <2> QED BY <2>1, EndServing DEF Serving
<1>18. CASE Crash
  BY <1>18, EndServing DEF Crash
<1>19. CASE Restart
  <2>1. /\ main = "down" /\ main' = "load" /\ srv' = srv
        /\ conn' = [c \in Conns |-> NoConn]
    BY <1>19 DEF Restart
  <2>2. srv = "off"
    BY <2>1 DEF Serving, Running
  <2>3. \A c \in Conns : conn'[c].at = "none" /\ conn'[c].fate = "none"
    BY <2>1 DEF At, NoConn
  <2>4. Serving'
    BY <2>1, <2>2, <2>3 DEF Serving, Running
  <2> QED BY <2>1, <2>4, Alive
<1>20. CASE Tick
  <2>1. UNCHANGED <<env, cfg, exit, main, srv, broken>> /\ main # "close"
    BY <1>20 DEF Tick, proc
  <2>2. \A c \in Conns : conn'[c].at = conn[c].at /\ conn'[c].fate = conn[c].fate
    BY <1>20, TickMoves
  <2>3. main = "down" => waited' = waited
    BY <1>20 DEF Tick
  <2>4. Serving'
    BY <2>1, <2>2 DEF Serving
  <2>5. CutOnlyAfterGrace'
    BY <2>1, <2>2, <2>3, <2>4 DEF CutOnlyAfterGrace, Serving
  <2> QED BY <2>4, <2>5
<1>21. CASE UNCHANGED vars
  BY <1>21 DEF Serving, CutOnlyAfterGrace, vars
<1> QED BY <1>2, <1>3, <1>4, <1>5, <1>6, <1>7, <1>8, <1>9, <1>10, <1>11, <1>12,
           <1>13, <1>14, <1>15, <1>16, <1>17, <1>18, <1>19, <1>20, <1>21 DEF Next

-----------------------------------------------------------------------------
(* The time limits.                                                        *)

\* SameTimes: in most steps a connection that changes ends up without a
\* request, and it is not late.
LEMMA SameTimes ==
  ASSUME InTime, UNCHANGED env,
         \A c \in Conns : \/ conn'[c] = conn[c]
                          \/ /\ conn'[c].at \in {"none", "idle"}
                             /\ conn'[c].fate # "late"
  PROVE  InTime'
<1> SUFFICES ASSUME asked > 0, NEW c \in Conns PROVE Timely(c)'
  BY DEF InTime, asked
<1>1. Timely(c)
  BY DEF InTime
<1> QED BY <1>1 DEF Timely, asked

\* EndTimes: the end of the process makes nobody late.
LEMMA EndTimes ==
  ASSUME TypeOK, InTime, NEW how, End(how)
  PROVE  InTime'
<1>1. \A c \in Conns : /\ conn'[c].at = "none"
                       /\ conn'[c].fate = IF conn[c].at \in Handling THEN "cut"
                                          ELSE "none"
  BY Ended
<1> QED BY <1>1, SameTimes DEF End

\* MovedTimes: only one connection has to be looked at.
LEMMA MovedTimes ==
  ASSUME InTime, NEW c \in Conns, Moved(c),
         asked > 0 /\ Timely(c) => Timely(c)'
  PROVE  InTime'
<1>1. UNCHANGED env /\ \A d \in Conns : d # c => conn'[d] = conn[d]
  BY DEF Moved
<1> SUFFICES ASSUME asked > 0, NEW d \in Conns PROVE Timely(d)'
  BY <1>1 DEF InTime, asked
<1>2. Timely(d)
  BY DEF InTime
<1>3. CASE d = c
  BY <1>2, <1>3
<1>4. CASE d # c
  BY <1>1, <1>2, <1>4 DEF Timely, asked
<1> QED BY <1>3, <1>4

\* AskedInt: what was asked for is a number.
LEMMA AskedInt ==
  ASSUME TypeOK
  PROVE  asked \in Int
<1>1. env.timeout \in Value
  BY LifecycleAssumption DEF TypeOK
<1> QED BY <1>1 DEF asked, Value

\* InTimeStep: the phases add up.
LEMMA InTimeStep ==
  ASSUME TypeOK, Staged, Serving, InTime, [Next]_vars
  PROVE  InTime'
<1>1. ASSUME NEW from, NEW ok, NEW to, NEW wired, Line(from, ok, to, wired)
      PROVE  InTime'
  <2>1. CASE End("fatal")
    BY <2>1, EndTimes
  <2>2. CASE ~End("fatal")
    BY <1>1, <2>2, SameTimes DEF Line
  <2> QED BY <2>1, <2>2
<1>2. CASE buildFCM \/ buildAPNs \/ OpenStore
  BY <1>1, <1>2 DEF buildFCM, buildAPNs, OpenStore
<1>3. CASE LoadConfig \/ Serve \/ Notify \/ Drain \/ Drained
  BY <1>3, SameTimes DEF LoadConfig, Serve, Notify, Drain, Drained, proc
<1>4. CASE \/ Listen \/ AcceptFails \/ ListenFatal
           \/ Signal \/ Return \/ Crash
  <2>1. ASSUME NEW how, End(how) PROVE InTime'
    BY <2>1, EndTimes
  <2>2. CASE UNCHANGED <<env, conn>>
    BY <2>2, SameTimes
  <2> QED BY <1>4, <2>1, <2>2
          DEF Listen, AcceptFails, ListenFatal, Signal, Return, Crash, proc
<1>5. ASSUME NEW c \in Conns, Connect(c) \/ Hangup(c) PROVE InTime'
  <2>1. /\ Moved(c) /\ conn'[c].at \in {"none", "idle"}
        /\ conn'[c].fate = "none"
    BY <1>5, ConnectMoves, HangupMoves
  <2> QED BY <2>1, MovedTimes DEF Timely
<1>6. ASSUME NEW c \in Conns, Request(c) PROVE InTime'
  <2>1. /\ Moved(c) /\ conn'[c].at = "read" /\ conn'[c].age = 0
        /\ conn'[c].since = 0 /\ conn'[c].fate = "none"
    BY <1>6, RequestMoves
  <2>2. Timely(c)'
    BY <2>1, Limits DEF Timely
  <2> QED BY <2>1, <2>2, MovedTimes
<1>7. ASSUME NEW c \in Conns, Step(c) PROVE InTime'
  <2>1. /\ Moved(c) /\ conn'[c].age = conn[c].age /\ conn'[c].since = 0
        /\ conn'[c].store = conn[c].store /\ conn'[c].fate = "none"
        /\ conn'[c].at \in {"bind", "send", "write"}
        /\ conn'[c].at = "bind" => conn[c].at = "read"
        /\ conn'[c].at = "send" => conn[c].at = "bind"
        /\ conn[c].at \in {"read", "bind", "send"}
    BY <1>7, StepMoves
  <2> SUFFICES ASSUME asked > 0, Timely(c) PROVE Timely(c)'
    BY <2>1, MovedTimes
  <2>2. UNCHANGED env
    BY <2>1 DEF Moved
  <2>3. PICK w \in Int : w = asked /\ w > 0 /\ asked' = w
    BY <2>2, AskedInt DEF asked
  <2>4. PICK a \in Int, b \in Nat, t \in Nat :
          a = conn[c].age /\ b = conn[c].store /\ t = conn[c].since
    BY Limits DEF TypeOK
  <2>5. ReadTimeout \in Nat
    BY Limits
  <2>6. /\ conn[c].at = "read" => t <= ReadTimeout /\ a <= t
        /\ conn[c].at = "bind" => a <= ReadTimeout + b
        /\ conn[c].at = "send" => t <= w /\ a <= ReadTimeout + b + t
    BY <2>3, <2>4 DEF Timely
  <2>7. /\ a <= ReadTimeout + b + w
        /\ conn[c].at \in {"read", "bind"} => a <= ReadTimeout + b
    BY <2>1, <2>3, <2>4, <2>5, <2>6
  <2> QED BY <2>1, <2>3, <2>4, <2>5, <2>7 DEF Timely
<1>8. ASSUME NEW c \in Conns, Respond(c) PROVE InTime'
  <2>1. /\ Moved(c) /\ conn[c].at = "write" /\ conn'[c].at \in {"none", "idle"}
        /\ IF conn[c].age <= WriteTimeout THEN conn'[c].fate = "none"
           ELSE conn'[c].fate = "late" /\ conn'[c].store = conn[c].store
    BY <1>8, RespondMoves
  <2> SUFFICES ASSUME asked > 0, Timely(c) PROVE Timely(c)'
    BY <2>1, MovedTimes
  <2>2. PICK w \in Int : w = asked /\ asked' = w
    BY <2>1, AskedInt DEF asked, Moved
  <2>3. PICK a \in Int, b \in Nat : a = conn[c].age /\ b = conn[c].store
    BY Limits DEF TypeOK
  <2>4. a <= ReadTimeout + b + w
    BY <2>1, <2>2, <2>3 DEF Timely
  <2>5. ~(a <= WriteTimeout) => b > WriteTimeout - ReadTimeout - w
    BY <2>2, <2>3, <2>4, Limits
  <2> QED BY <2>1, <2>2, <2>3, <2>5 DEF Timely
<1>9. CASE Restart
  <2>1. \A c \in Conns : conn'[c].at = "none" /\ conn'[c].fate = "none"
    BY <1>9 DEF Restart, NoConn, At
  <2> QED BY <2>1 DEF InTime, Timely
<1>10. CASE Tick
  <2>1. UNCHANGED env
    BY <1>10 DEF Tick, proc
  <2>2. PICK w \in Int : w = asked /\ asked' = w
    BY <2>1, AskedInt DEF asked
  <2> SUFFICES ASSUME w > 0, NEW c \in Conns PROVE Timely(c)'
    BY <2>2 DEF InTime
  <2>3. /\ conn'[c].at = conn[c].at
        /\ conn'[c].fate = conn[c].fate
        /\ conn[c].at \in Handling => /\ conn'[c].age = Older(conn[c].age)
                                      /\ conn'[c].since = Older(conn[c].since)
        /\ conn'[c].store = IF conn[c].at = "bind" THEN Older(conn[c].store)
                            ELSE conn[c].store
    BY <1>10, TickMoves
  <2>4. Timely(c)
    BY <2>2 DEF InTime
  <2>5. PICK a \in 0..AgeBound, t \in 0..AgeBound, b \in 0..AgeBound :
          a = conn[c].age /\ t = conn[c].since /\ b = conn[c].store
    BY DEF TypeOK
  <2>6. /\ ReadTimeout \in Nat /\ WriteTimeout \in Nat /\ AgeBound \in Nat
        /\ \A n \in 0..AgeBound : /\ Older(n) \in Int /\ n <= Older(n)
                                  /\ n < AgeBound => Older(n) = n + 1
                                  /\ n = AgeBound => Older(n) = n
    BY Limits DEF Older
  <2>7. CASE conn[c].at \notin Handling
    <3>1. conn'[c].store = b
      BY <2>3, <2>5, <2>7 DEF Handling
    <3> QED BY <2>2, <2>3, <2>4, <2>5, <2>7, <3>1 DEF Timely, Handling
  <2>8. CASE conn[c].at \in Handling
    <3>1. main \notin {"load", "down"}
      BY <2>8 DEF Serving, Handling, Running
    <3>2. cfg.sendTimeout = w
      BY <2>2, <3>1 DEF Staged, Load, getint, asked
    <3>3. t < Limit(conn[c].at)
      BY <1>10, <2>5 DEF Tick
    <3>4. conn[c].at # "write"
      <4>1. ~(t < 0)
        BY <2>5, <2>6
      <4> QED BY <3>3, <4>1 DEF Limit
    <3>5. /\ conn[c].at = "read" => t < ReadTimeout
          /\ conn[c].at = "send" => t < w
      BY <3>2, <3>3 DEF Limit
    <3>6. /\ conn[c].fate = "late" => b > WriteTimeout - ReadTimeout - w
          /\ conn[c].at = "read" => a <= t
          /\ conn[c].at = "bind" => a <= ReadTimeout + b
          /\ conn[c].at = "send" => a <= ReadTimeout + b + t
      BY <2>2, <2>4, <2>5 DEF Timely
    <3>7. PICK a1 \in Int, t1 \in Int, b1 \in Int :
            /\ a1 = Older(a) /\ t1 = Older(t) /\ b1 = conn'[c].store
            /\ b1 = IF conn[c].at = "bind" THEN Older(b) ELSE b
      BY <2>3, <2>5, <2>6
    <3>8. /\ conn'[c].age = a1 /\ conn'[c].since = t1 /\ conn'[c].store = b1
          /\ a1 <= a + 1 /\ a1 <= AgeBound
          /\ t1 <= t + 1 /\ (t1 = t + 1 \/ t1 = AgeBound)
          /\ b <= b1
          /\ conn[c].at = "bind" => b1 = b + 1 \/ b1 = AgeBound
      BY <2>3, <2>5, <2>6, <2>8, <3>7
    <3>9. b1 > WriteTimeout - ReadTimeout - w \/ conn'[c].fate # "late"
      BY <2>3, <2>5, <2>6, <3>6, <3>7, <3>8
    <3>10. CASE conn[c].at = "read"
      <4>1. t1 <= ReadTimeout /\ a1 <= t1
        BY <2>5, <2>6, <3>5, <3>6, <3>7, <3>8, <3>10
      <4> QED BY <2>2, <2>3, <3>8, <3>9, <3>10, <4>1 DEF Timely
    <3>11. CASE conn[c].at = "bind"
      <4>1. a1 <= ReadTimeout + b1
        BY <2>5, <2>6, <3>6, <3>7, <3>8, <3>11
      <4> QED BY <2>2, <2>3, <3>8, <3>9, <3>11, <4>1 DEF Timely
    <3>12. CASE conn[c].at = "send"
      <4>1. b1 = b
        BY <3>7, <3>12
      <4>2. t1 <= w /\ a1 <= ReadTimeout + b1 + t1
        BY <2>5, <2>6, <3>5, <3>6, <3>7, <3>8, <3>12, <4>1
      <4> QED BY <2>2, <2>3, <3>8, <3>9, <3>12, <4>2 DEF Timely
    <3> QED BY <2>8, <3>4, <3>10, <3>11, <3>12 DEF Handling
  <2> QED BY <2>7, <2>8
<1>11. CASE UNCHANGED vars
  BY <1>11, SameTimes DEF vars
<1> QED BY <1>2, <1>3, <1>4, <1>5, <1>6, <1>7, <1>8, <1>9, <1>10, <1>11 DEF Next

-----------------------------------------------------------------------------
(* The theorems.                                                           *)

\* InvInit: a process that has just been started.
LEMMA InvInit == Init => IInv
<1> SUFFICES ASSUME Init PROVE IInv
  OBVIOUS
<1>1. 0 \in 0..AgeBound /\ 0 \in 0..Grace
  BY Limits
<1>2. conn = [c \in Conns |-> NoConn]
  BY DEF Init
<1>3. NoConn \in Connections
  BY <1>1, AtType DEF NoConn
<1>4. conn \in [Conns -> Connections]
  BY <1>2, <1>3
<1>5. \A c \in Conns : conn[c].at = "none" /\ conn[c].fate = "none"
  BY <1>2 DEF At, NoConn
<1>6. TypeOK
  <2>1. {cfg.port, cfg.sendTimeout} \subseteq Int
    BY DEF Init, NoConfig
  <2>2. {broken, stop} \subseteq BOOLEAN /\ waited \in 0..Grace
    BY <1>1 DEF Init
  <2> QED BY <1>4, <2>1, <2>2 DEF Init, TypeOK, Startup, Connections
<1>7. Staged /\ Blamed
  BY DEF Init, Staged, Blamed, Running
<1>8. Serving /\ CutOnlyAfterGrace /\ InTime
  BY <1>5 DEF Init, Serving, CutOnlyAfterGrace, InTime, Timely, Running
<1> QED BY <1>6, <1>7, <1>8 DEF IInv

\* LifecycleInvariant: the inductive invariant.
THEOREM LifecycleInvariant == Spec => []IInv
<1>1. IInv /\ [Next]_vars => IInv'
  BY TypeStep, StagedStep, ServingStep, InTimeStep DEF IInv
<1> QED BY <1>1, InvInit, PTL DEF Spec

\* TypeCorrect: the process keeps its types through any number of restarts.
THEOREM TypeCorrect == Spec => []TypeOK
<1>1. IInv => TypeOK
  BY DEF IInv
<1> QED BY <1>1, LifecycleInvariant, PTL

\* CutOnlyAfterGraceHolds: a process that is not killed and whose listener
\* did not break never ends under a request before the full grace period.
THEOREM CutOnlyAfterGraceHolds == Spec => []CutOnlyAfterGrace
<1>1. IInv => CutOnlyAfterGrace
  BY DEF IInv
<1> QED BY <1>1, LifecycleInvariant, PTL

\* AnsweredInTimeHolds: whatever the time limits are, an answer is late only
\* through a wait for the store longer than the other limits leave.
THEOREM AnsweredInTimeHolds == Spec => []AnsweredInTime
<1>1. IInv => AnsweredInTime
  BY DEF IInv, InTime, Timely, AnsweredInTime, asked
<1> QED BY <1>1, LifecycleInvariant, PTL

\* WiredAsConfiguredHolds: in every environment, what is served is what is
\* configured, and only an unusable one or a broken listener stops the
\* process.
THEOREM WiredAsConfiguredHolds == Spec => []WiredAsConfigured
<1>1. IInv => WiredAsConfigured
  <2> SUFFICES ASSUME IInv PROVE WiredAsConfigured
    OBVIOUS
  <2>1. exit = "fatal" => Unusable(env) \/ broken
    BY DEF IInv, Blamed
  <2>2. ASSUME srv = "open"
        PROVE  /\ FcmWired /\ ApnsWired /\ env.dbGood /\ env.portFree
               /\ getint(env.port, 8090) \in Ports
    <3>1. main \in {"notify", "wait"} /\ cfg.port \in Ports /\ env.portFree
      BY <2>2 DEF IInv, Serving
    <3>2. FcmWired /\ ApnsWired /\ env.dbGood /\ cfg = Load(env)
      BY <3>1 DEF IInv, Staged, Running
    <3> QED BY <3>1, <3>2 DEF Load
  <2>3. ASSUME srv = "open"
        PROVE  /\ ~Unusable(env)
               /\ "android" \in stubs <=> env.fcm = "unset"
               /\ "ios" \in stubs <=> env.apns # APNsVars
    <3>1. /\ env.fcm \in {"unset", "good"}
          /\ env.apns = APNsVars => env.apnsKeyGood
          /\ env.dbGood /\ env.portFree
          /\ getint(env.port, 8090) \in Ports
          /\ "android" \in stubs <=> env.fcm = "unset"
          /\ "ios" \in stubs <=> env.apns # APNsVars
      BY <2>2, <2>3 DEF FcmWired, ApnsWired, ApnsNew
    <3>2. ~Unusable(env)
      BY <3>1 DEF Unusable
    <3> QED BY <3>1, <3>2
  <2> QED BY <2>1, <2>3 DEF WiredAsConfigured
<1> QED BY <1>1, LifecycleInvariant, PTL

\* ProbeAgreesHolds: the container's probe and the listener go by the same
\* port, for every number and for none.
THEOREM ProbeAgreesHolds == Spec => []ProbeAgrees
<1>1. IInv => ProbeAgrees
  <2> SUFFICES ASSUME IInv, env.port.form \notin {"garbage", "plus"},
                      getint(env.port, 8090) # 0, srv = "open"
               PROVE  ProbePort(env.port) = cfg.port /\ cfg.port # 0
    BY DEF ProbeAgrees, healthcheck
  <2>1. main \in {"notify", "wait"}
    BY DEF IInv, Serving
  <2>2. cfg.port = getint(env.port, 8090)
    BY <2>1 DEF IInv, Staged, Load
  <2>3. env.port.form \in {"empty", "number", "plus", "garbage"}
    <3>1. env.port \in Value
      BY LifecycleAssumption DEF IInv, TypeOK
    <3> QED BY <3>1 DEF Value
  <2> QED BY <2>2, <2>3 DEF ProbePort, getint
<1> QED BY <1>1, LifecycleInvariant, PTL
=============================================================================
