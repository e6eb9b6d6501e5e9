--------------------------- MODULE MCModelDownloads ---------------------------
(* Two variants of one repository, which share a projector file. *)
EXTENDS ModelDownloads

CONSTANTS m1, m2, r1, own1, own2, shared

RepoDef == [m \in Models |-> r1]
FilesDef == [m \in Models |-> IF m = m1 THEN {own1, shared} ELSE {own2, shared}]
=============================================================================
