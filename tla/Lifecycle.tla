----------------------------- MODULE Lifecycle ------------------------------
(***************************************************************************)
(* The life of the relay process: main (cmd/relay/main.go) from            *)
(* config.Load (internal/config/config.go) to the end of the graceful      *)
(* shutdown, the goroutine that listens, and the connections that          *)
(* http.Server serves, with the time limits that main gives it.  What a    *)
(* handler does is in Relay and Dispatch; here it reads its body, binds,   *)
(* sends and writes its answer, and each of these takes time.              *)
(*                                                                         *)
(* net/http and os/signal are external.  Serve accepts connections until   *)
(* Shutdown, or until Accept fails with an error that it does not take for *)
(* a temporary one.  Shutdown closes the listener and the connections      *)
(* without a request, waits for the others, and does not cancel their      *)
(* contexts.  Times are in units of ten seconds.                           *)
(***************************************************************************)
EXTENDS Integers

CONSTANTS
  Envs,          \* the environments the process may be started in
  Conns,         \* connections that can be open at once
  Grace,         \* the timeout of shutdownCtx
  ReadTimeout,   \* of http.Server, from the start of the request
  WriteTimeout   \* of http.Server, from the end of the header

\* An environment variable: unset or empty, a number, a number with a plus
\* sign, or something else.
Value == [form : {"empty", "number", "plus", "garbage"}, n : Int]
APNsVars == {"KeyPath", "KeyID", "TeamID", "BundleID"}

ASSUME LifecycleAssumption ==
  /\ \A e \in Envs :
       /\ {e.port, e.timeout} \subseteq Value
       /\ e.fcm \in {"unset", "no_file", "malformed", "no_project", "good"}
       /\ e.apns \subseteq APNsVars
       /\ {e.apnsKeyGood, e.dbGood, e.portFree} \subseteq BOOLEAN
  /\ {Grace, ReadTimeout, WriteTimeout} \subseteq Nat \ {0}

VARIABLES
  env,      \* the environment
  cfg,      \* Config, as far as a decision here depends on it
  main,     \* where the main goroutine is
  stubs,    \* platforms wired to push.Unconfigured
  srv,      \* where the goroutine of ListenAndServe is
  broken,   \* history: an error of Accept has ended Serve
  stop,     \* a signal is in the channel stop
  waited,   \* how long Shutdown has been waiting
  conn,     \* conn[c].at: what connection c is doing; age: time since the
            \* header of its request; since: time since its handler entered
            \* this phase; store: history, the part of age that went into
            \* binding; fate: what went wrong with its last request
  exit      \* how the last process ended

proc == <<env, cfg, stubs, exit>>
vars == <<env, cfg, main, stubs, srv, broken, stop, waited, conn, exit>>

Handling == {"read", "bind", "send", "write"}
Startup == {"load", "fcm", "apns", "store", "serve", "notify"}
Ports == 0..65535               \* what Listen accepts; 0 is any free port
AgeBound == WriteTimeout + 1    \* bound: older requests are not told apart

TypeOK ==
  /\ env \in Envs
  /\ {cfg.port, cfg.sendTimeout} \subseteq Int
  /\ main \in Startup \cup {"wait", "drain", "close", "down"}
  /\ stubs \subseteq {"ios", "android"}
  /\ srv \in {"off", "start", "open", "closed", "failed"}
  /\ {broken, stop} \subseteq BOOLEAN
  /\ waited \in 0..Grace
  /\ conn \in [Conns -> [at : Handling \cup {"none", "idle"},
                         age : 0..AgeBound, since : 0..AgeBound,
                         store : 0..AgeBound,
                         fate : {"none", "late", "cut"}]]
  /\ exit \in {"none", "clean", "fatal", "killed"}

-----------------------------------------------------------------------------
(* Configuration.                                                          *)

\* Mutant: the error of Atoi is ignored, and with it the default.
getintZero(v, def) == CASE v.form \in {"number", "plus"} -> v.n
                        [] v.form = "garbage" -> 0
                        [] OTHER -> def

\* Atoi takes a plus sign.
getint(v, def) == IF v.form \in {"number", "plus"} THEN v.n ELSE def

\* Of the settings, those that a step here or a property depends on.  The
\* deadline of a send request is 20 seconds unless it is set.
Load(e) == [port |-> getint(e.port, 8090),
            sendTimeout |-> getint(e.timeout, 2)]

NoConfig == [port |-> 0, sendTimeout |-> 0]

\* A connection that has just begun to do this.
At(what, age, store, fate) ==
  [at |-> what, age |-> age, since |-> 0, store |-> store, fate |-> fate]

NoConn == At("none", 0, 0, "none")

Init ==
  /\ env \in Envs
  /\ cfg = NoConfig
  /\ main = "load"
  /\ stubs = {}
  /\ srv = "off"
  /\ broken = FALSE
  /\ stop = FALSE
  /\ waited = 0
  /\ conn = [c \in Conns |-> NoConn]
  /\ exit = "none"

\* The process is gone, and with it every connection.
End(how) ==
  /\ main' = "down"
  /\ exit' = how
  /\ srv' = "off"
  /\ stop' = FALSE
  /\ conn' = [c \in Conns |-> At("none", 0, 0, IF conn[c].at \in Handling
                                                THEN "cut" ELSE "none")]
  /\ UNCHANGED <<env, cfg, stubs, broken, waited>>

-----------------------------------------------------------------------------
(* The main goroutine up to <-stop.                                        *)

\* One step of main's straight line, or log.Fatalf.
Line(from, ok, to, wired) ==
  /\ main = from
  /\ \/ /\ ok
        /\ main' = to
        /\ stubs' = stubs \cup wired
        /\ UNCHANGED <<env, cfg, srv, broken, stop, waited, conn, exit>>
     \/ ~ok /\ End("fatal")

LoadConfig ==
  /\ main = "load"
  /\ main' = "fcm"
  /\ cfg' = Load(env)
  /\ UNCHANGED <<env, stubs, srv, broken, stop, waited, conn, exit>>

\* fcm.New: the file parses and names a project.  apns.New: the .p8 file can
\* be read and parsed.
FcmNew(e) == e.fcm \notin {"malformed", "no_project"}
ApnsNew(e) == e.apnsKeyGood

\* Mutant: the stub is wired under the provider's name.
buildFCMByName ==
  Line("fcm", env.fcm # "no_file" /\ FcmNew(env), "apns",
       IF env.fcm = "unset" THEN {"fcm"} ELSE {})

\* ReadFile and fcm.New, or the stub.  The stub stands in for a path that is
\* not set.  A path without a readable file behind it is log.Fatalf, although
\* the comment above the function (main.go:85) says that "A missing
\* credentials file is not fatal".
buildFCM ==
  Line("fcm", env.fcm # "no_file" /\ FcmNew(env), "apns",
       IF env.fcm = "unset" THEN {"android"} ELSE {})

\* Mutant: a key path is taken for all four.
buildAPNsPathOnly ==
  LET some == "KeyPath" \in env.apns IN
  Line("apns", some => ApnsNew(env), "store", IF some THEN {} ELSE {"ios"})

buildAPNs ==
  LET complete == env.apns = APNsVars IN
  Line("apns", complete => ApnsNew(env), "store",
       IF complete THEN {} ELSE {"ios"})

\* MkdirAll and keys.Open.
OpenStore == Line("store", env.dbGood, "serve", {})

\* The http.Server is built and the goroutine of ListenAndServe started.
Serve ==
  /\ main = "serve"
  /\ main' = "notify"
  /\ srv' = "start"
  /\ UNCHANGED <<proc, broken, stop, waited, conn>>

\* From here on a signal does not end the process any more.
Notify ==
  /\ main = "notify"
  /\ main' = "wait"
  /\ UNCHANGED <<proc, srv, broken, stop, waited, conn>>

\* ListenAndServe: the port is bound, or the call fails; after Shutdown it
\* returns ErrServerClosed.
Listen ==
  /\ srv = "start"
  /\ \/ main \in {"drain", "close"} /\ srv' = "closed"
     \/ /\ main \notin {"drain", "close"}
        /\ srv' = IF cfg.port \in Ports /\ env.portFree THEN "open" ELSE "failed"
  /\ UNCHANGED <<proc, main, broken, stop, waited, conn>>

\* Accept fails (no memory for a socket, say), Serve closes the listener and
\* returns the error.  Its connections go on.
AcceptFails ==
  /\ srv = "open"
  /\ srv' = "failed"
  /\ broken' = TRUE
  /\ UNCHANGED <<proc, main, stop, waited, conn>>

\* Mutant: ErrServerClosed is not excepted.
ListenFatalAlways ==
  /\ srv \in {"failed", "closed"}
  /\ End("fatal")

\* log.Fatalf in the listening goroutine, whatever main is doing by then.
ListenFatal ==
  /\ srv = "failed"
  /\ End("fatal")

-----------------------------------------------------------------------------
(* Connections and their handlers.                                         *)

\* Only connection c does something.
Becomes(c, new) ==
  /\ conn' = [conn EXCEPT ![c] = new]
  /\ UNCHANGED <<proc, main, srv, broken, stop, waited>>

Connect(c) ==
  /\ srv = "open"
  /\ conn[c].at = "none"
  /\ Becomes(c, At("idle", 0, 0, "none"))

\* A request begins, on a connection that Shutdown has not closed yet.
Request(c) ==
  /\ conn[c].at = "idle"
  /\ Becomes(c, At("read", 0, 0, "none"))

\* An idle connection is closed by the client, the idle timeout or Shutdown.
Hangup(c) ==
  /\ conn[c].at = "idle"
  /\ Becomes(c, NoConn)

\* The handler goes on: the body is read, the messages are bound, dispatch
\* returns.  It answers early when it refuses the request, when no message
\* is left to send, and when it panics, which recoverer turns into a 500.
Step(c) ==
  /\ conn[c].at \in Handling \ {"write"}
  /\ \E to \in {"write"} \cup (CASE conn[c].at = "read" -> {"bind"}
                                 [] conn[c].at = "bind" -> {"send"}
                                 [] OTHER -> {}) :
       Becomes(c, At(to, conn[c].age, conn[c].store, "none"))

\* writeJSON.  After the write timeout nobody gets the answer.  There are no
\* keep-alives once Shutdown has been called.
Respond(c) ==
  LET to == IF main \in {"drain", "close"} THEN "none" ELSE "idle" IN
  /\ conn[c].at = "write"
  /\ Becomes(c, IF conn[c].age <= WriteTimeout THEN At(to, 0, 0, "none")
                ELSE At(to, 0, conn[c].store, "late"))

-----------------------------------------------------------------------------
(* Signals, the shutdown, crashes.                                         *)

\* SIGINT or SIGTERM.  The channel holds one, the others are dropped, and
\* during the shutdown nobody reads it.
Signal ==
  \/ /\ main \in Startup
     /\ End("killed")
  \/ /\ main \in {"wait", "drain", "close"}
     /\ stop' = TRUE
     /\ UNCHANGED <<proc, main, srv, broken, waited, conn>>

\* <-stop, and Shutdown closes the listener.
Drain ==
  /\ main = "wait"
  /\ stop
  /\ main' = "drain"
  /\ stop' = FALSE
  /\ waited' = 0
  /\ srv' = IF srv = "open" THEN "closed" ELSE srv
  /\ UNCHANGED <<proc, broken, conn>>

\* Mutant: Shutdown(context.Background()).
DrainedOnlyEmpty ==
  /\ main = "drain"
  /\ \A c \in Conns : conn[c].at = "none"
  /\ main' = "close"
  /\ UNCHANGED <<proc, srv, broken, stop, waited, conn>>

\* Shutdown returns, because no connection is left or its time is up.
Drained ==
  /\ main = "drain"
  /\ waited = Grace \/ \A c \in Conns : conn[c].at = "none"
  /\ main' = "close"
  /\ UNCHANGED <<proc, srv, broken, stop, waited, conn>>

\* main returns: store.Close, and the process ends under its handlers.
Return ==
  /\ main = "close"
  /\ End("clean")

\* A panic in a worker goroutine, which recoverer does not cover, or a kill.
Crash ==
  /\ main # "down"
  /\ End("killed")

\* The container is started again, in whatever environment.
Restart ==
  /\ main = "down"
  /\ env' \in Envs
  /\ main' = "load"
  /\ cfg' = NoConfig
  /\ stubs' = {}
  /\ waited' = 0
  /\ conn' = [c \in Conns |-> NoConn]
  /\ exit' = "none"
  /\ broken' = FALSE
  /\ UNCHANGED <<srv, stop>>

\* How long a handler can be in a phase.  The loop that binds a batch waits
\* for the store's one connection as long as it takes, and 0 or less disables
\* the deadline of dispatch.
Limit(phase) ==
  CASE phase = "read" -> ReadTimeout
    [] phase = "send" /\ cfg.sendTimeout > 0 -> cfg.sendTimeout
    [] phase = "write" -> 0
    [] OTHER -> AgeBound + 1

Older(a) == IF a < AgeBound THEN a + 1 ELSE a

\* Ten seconds pass.  What takes no time has been done before: Shutdown
\* closes idle connections and takes no longer than it may.
Tick ==
  /\ \A c \in Conns : conn[c].since < Limit(conn[c].at)
  /\ main = "wait" => ~stop
  /\ main = "drain" => waited < Grace /\ \A c \in Conns : conn[c].at # "idle"
  /\ main # "close"
  /\ waited' = IF main = "drain" THEN waited + 1 ELSE waited
  /\ conn' = [c \in Conns |-> IF conn[c].at \in Handling
                 THEN [conn[c] EXCEPT
                         !.age = Older(@), !.since = Older(@),
                         !.store = IF conn[c].at = "bind" THEN Older(@) ELSE @]
                 ELSE conn[c]]
  /\ UNCHANGED <<proc, main, srv, broken, stop>>

Next ==
  \/ LoadConfig \/ buildFCM \/ buildAPNs \/ OpenStore \/ Serve \/ Notify
  \/ Listen \/ AcceptFails \/ ListenFatal
  \/ \E c \in Conns : \/ Connect(c) \/ Request(c) \/ Hangup(c)
                      \/ Step(c) \/ Respond(c)
  \/ Signal \/ Drain \/ Drained \/ Return \/ Crash \/ Restart
  \/ Tick

Spec == Init /\ [][Next]_vars

\* main's goroutine runs, time passes, and a handler goes on when the time
\* of its phase is up.  Binding, and a dispatch without a deadline, may go on
\* forever.
FairSpec ==
  /\ Spec
  /\ WF_vars(Drain) /\ WF_vars(Drained) /\ WF_vars(Return)
  /\ WF_vars(Tick)
  /\ \A c \in Conns :
       /\ WF_vars(conn[c].since >= Limit(conn[c].at) /\ (Step(c) \/ Respond(c)))
       /\ WF_vars(main = "drain" /\ Hangup(c))

-----------------------------------------------------------------------------
(* The container's probe: relay -healthcheck, a process of its own.        *)

\* Mutant: another default than Load's.
ProbePortOther(v) == CASE v.form = "number" -> v.n
                       [] v.form = "empty" -> 8080
                       [] OTHER -> 0

\* The port in the URL, the text of RELAY_PORT; 0, where nobody listens,
\* stands for a text that is no port.
ProbePort(v) == CASE v.form = "number" -> v.n
                  [] v.form = "empty" -> 8090
                  [] OTHER -> 0

\* The exit code is 0.
healthcheck == /\ srv = "open"
               /\ ProbePort(env.port) = cfg.port
               /\ cfg.port # 0

-----------------------------------------------------------------------------
(* Properties.                                                             *)

\* CutOnlyAfterGrace: the process ends under a request for three reasons
\* only: it is killed, the request had the full grace period, or the listener
\* broke while it was open (main.go:72 does not wait for anyone).  That a
\* shutdown is under way, what other connections do, and a port that cannot
\* be bound are no reason.
CutOnlyAfterGrace ==
  \A c \in Conns : conn[c].fate = "cut" =>
    \/ exit = "killed"
    \/ exit = "clean" /\ waited = Grace
    \/ exit = "fatal" /\ broken

\* AnsweredInTime: an answer misses the write timeout only through the time
\* that its request waited for the store, for which nothing sets a limit: that
\* alone must have taken more than what the read timeout and the deadline
\* asked for leave of it (ten seconds of the sixty by default).  A setting
\* that does not parse is the default of 20 seconds, never no deadline.
AnsweredInTime ==
  LET asked == IF env.timeout.form \in {"number", "plus"}
               THEN env.timeout.n ELSE 2 IN
  asked > 0 =>
    \A c \in Conns : conn[c].fate = "late" =>
      conn[c].store > WriteTimeout - ReadTimeout - asked

\* ShutdownEnds: a process that was told to stop ends, even if a handler
\* never returns.
ShutdownEnds == stop ~> main = "down"

Unusable(e) ==
  \/ e.fcm \notin {"unset", "good"}
  \/ e.apns = APNsVars /\ ~e.apnsKeyGood
  \/ ~e.dbGood
  \/ ~e.portFree \/ getint(e.port, 8090) \notin Ports

\* WiredAsConfigured: credentials that are not configured, some or all, stop
\* nothing but their platform ("Incomplete credentials are not fatal",
\* main.go:105), what is configured but unusable never goes unnoticed into
\* service ("are treated as a startup misconfiguration and fail fast"), and
\* nothing but these, the database, the port and a listener that breaks later
\* makes the process give up.  Unusable includes a configured FCM file that
\* is missing: see buildFCM.
WiredAsConfigured ==
  /\ exit = "fatal" => Unusable(env) \/ broken
  /\ srv = "open" => /\ ~Unusable(env)
                     /\ "android" \in stubs <=> env.fcm = "unset"
                     /\ "ios" \in stubs <=> env.apns # APNsVars

\* ProbeAgrees: the probe, which reads RELAY_PORT by itself, succeeds exactly
\* while the relay takes connections.  The exceptions are a text that is no
\* number, where the relay falls back to 8090 and the probe does not; a plus
\* sign, which a URL does not take; and 0, where the relay takes a port that
\* the probe cannot know.
ProbeAgrees ==
  env.port.form \in {"garbage", "plus"} \/ getint(env.port, 8090) = 0
    \/ (healthcheck <=> srv = "open")
=============================================================================
