---------------------------- MODULE MCElicitation ----------------------------
(* A tool in this process, a call to an MCP server nested in it and a second *)
(* dispatch of the same request, all under one call id, and two elicitations *)
(* of the server that the nested call asks.                                  *)
EXTENDS Elicitation, TLC

CONSTANTS tool, nested, again, call1, ask1, ask2

OneCallOf  == [d \in {tool, nested, again} |-> call1]
ThreeOuter == tool :> None @@ nested :> tool @@ again :> None
TwoHome    == ask1 :> nested @@ ask2 :> nested
=============================================================================
