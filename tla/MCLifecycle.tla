---------------------------- MODULE MCLifecycle -----------------------------
(* Lifecycle with a choice of environments: one with all settings, some    *)
(* with few, and one for each way in which a setting can go wrong.         *)
EXTENDS Lifecycle

Empty == [form |-> "empty", n |-> 0]
Garbage == [form |-> "garbage", n |-> 0]
Number(k) == [form |-> "number", n |-> k]
Plus(k) == [form |-> "plus", n |-> k]

Bare == [port |-> Empty, timeout |-> Empty, fcm |-> "unset",
         apns |-> {}, apnsKeyGood |-> TRUE, dbGood |-> TRUE, portFree |-> TRUE]
Full == [Bare EXCEPT !.port = Number(9000), !.timeout = Number(1),
                     !.fcm = "good", !.apns = APNsVars]

MCEnvs ==
  {Full,
   [Full EXCEPT !.port = Plus(9000)],
   [Full EXCEPT !.port = Number(0), !.timeout = Number(3)],
   [Bare EXCEPT !.port = Garbage, !.timeout = Garbage, !.apns = {"KeyPath"}],
   [Bare EXCEPT !.timeout = Number(0), !.apns = APNsVars \ {"KeyID"}]}
    \cup {[Bare EXCEPT !.port = v] : v \in {Number(-1), Number(70000)}}
    \cup {[Full EXCEPT !.fcm = f] : f \in {"no_file", "malformed", "no_project"}}
    \cup {[Full EXCEPT !.apnsKeyGood = FALSE], [Full EXCEPT !.dbGood = FALSE],
          [Full EXCEPT !.portFree = FALSE]}
=============================================================================
