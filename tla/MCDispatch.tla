----------------------------- MODULE MCDispatch -----------------------------
(* Dispatch for TLC: batches in which every kind goes to APNs and both     *)
(* platforms are used more than once.                                      *)
EXTENDS Dispatch

Message(p, k) == [platform |-> p, kind |-> k]

MCBatches ==
  {<<Message("ios", "call"), Message("android", "call"),
     Message("ios", "wake"), Message("ios", "message")>>,
   <<Message("android", "wake"), Message("ios", "message"),
     Message("ios", "mention"), Message("android", "mention")>>}

MCStubs == {{}, {"ios"}, Platforms}
=============================================================================
