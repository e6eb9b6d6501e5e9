------------------------- MODULE MCToolConfirmation -------------------------
(* Instances of ToolConfirmation for TLC. *)
EXTENDS ToolConfirmation, TLC

CONSTANTS r1, v1, c1, c2

Symmetry == Permutations(Clients) \cup Permutations(Tools)
=============================================================================
