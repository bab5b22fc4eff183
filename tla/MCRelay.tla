------------------------------ MODULE MCRelay -------------------------------
(* Relay for TLC.                                                          *)
EXTENDS Relay, TLC

Symmetry == Permutations(Requests) \cup Permutations(Tokens)
=============================================================================
