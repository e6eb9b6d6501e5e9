----------------------------- MODULE MCScheduler -----------------------------
(* Values for the model-checking runs of Scheduler.                        *)
EXTENDS Scheduler, TLC

CONSTANTS j1, c1, c2, t1, e1, e2, e3, a, b, bad

Symmetry == Permutations(Clients) \cup Permutations(Timers) \cup Permutations(Crons \ BadCrons)
=============================================================================
