---------------------------- MODULE BatchOutcome ----------------------------
(***************************************************************************)
(* What dispatch promises the caller of /v1/send: every message gets one   *)
(* status, which is final, and the request ends by marking the messages    *)
(* that were never tried.  No feeder, no workers and no deadline.          *)
(***************************************************************************)
CONSTANTS
  Slots,     \* the messages of the batch
  Statuses   \* what a provider send can end in

VARIABLES
  result,    \* result[i]: the status of i, "unset" until it has one
  finished   \* the results are complete and can be sent

vars == <<result, finished>>

Init ==
  /\ result = [i \in Slots |-> "unset"]
  /\ finished = FALSE

Settle(i) ==
  /\ result[i] = "unset"
  /\ \E s \in Statuses : result' = [result EXCEPT ![i] = s]
  /\ UNCHANGED finished

Finish ==
  /\ ~finished
  /\ finished' = TRUE
  /\ result' = [i \in Slots |-> IF result[i] = "unset" THEN "not_attempted"
                                ELSE result[i]]

Next ==
  \/ ~finished /\ \E i \in Slots : Settle(i)
  \/ Finish

Spec == Init /\ [][Next]_vars
=============================================================================
