---------------------------- MODULE AgentRegistry ----------------------------
(***************************************************************************)
(* What the agent manager promises its callers: a bounded register of one  *)
(* agent per session. Whoever asks for a session gets the agent that is    *)
(* registered at that moment; a new agent is made only for a session that  *)
(* has none, and is handed out only once it is registered.                 *)
(***************************************************************************)
EXTENDS Naturals, FiniteSets

CONSTANTS Sessions, Callers, Capacity

VARIABLES
    reg,    \* the agent registered for each session, 0 if there is none
    made,   \* agents registered so far, numbered in that order
    got     \* the agent each caller was given last

Registered == {s \in Sessions : reg[s] # 0}

Init ==
    /\ reg = [s \in Sessions |-> 0] /\ made = 0
    /\ got = [c \in Callers |-> 0]

Lookup(c, s) ==
    /\ reg[s] # 0
    /\ got' = [got EXCEPT ![c] = reg[s]]
    /\ UNCHANGED <<reg, made>>

\* A new agent; when the register is full another session loses its own.
Create(c, s) ==
    /\ reg[s] = 0
    /\ made' = made + 1
    /\ got' = [got EXCEPT ![c] = made + 1]
    /\ \/ /\ Cardinality(Registered) < Capacity
          /\ reg' = [reg EXCEPT ![s] = made + 1]
       \/ /\ Cardinality(Registered) = Capacity
          /\ \E t \in Registered : reg' = [reg EXCEPT ![s] = made + 1, ![t] = 0]

Drop(s) ==
    /\ reg[s] # 0
    /\ reg' = [reg EXCEPT ![s] = 0]
    /\ UNCHANGED <<made, got>>

Next ==
    \/ \E c \in Callers, s \in Sessions : Lookup(c, s) \/ Create(c, s)
    \/ \E s \in Sessions : Drop(s)

Spec == Init /\ [][Next]_<<reg, made, got>>
=============================================================================
