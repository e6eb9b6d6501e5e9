---------------------------- MODULE MCGatewayRelay ----------------------------
(* Messages and requests are interchangeable in the safety runs. *)
EXTENDS GatewayRelay, TLC

Symmetry == Permutations(Messages) \cup Permutations(Requests)
=============================================================================
