----------------------------- MODULE MCActiveRuns -----------------------------
(* Connections, runs and steers are interchangeable in the safety runs. *)
EXTENDS ActiveRuns, TLC

Symmetry == Permutations(Conns) \cup Permutations(Runs) \cup Permutations(Steers)
=============================================================================
