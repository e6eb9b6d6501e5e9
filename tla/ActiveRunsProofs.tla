-------------------------- MODULE ActiveRunsProofs --------------------------
(***************************************************************************)
(* Proofs about ActiveRuns, for any connections, prompts and steers, both  *)
(* agent loops and any number of loads and closes. OneLoop is kept by a    *)
(* claim that covers the whole of a prompt between StartClaim and          *)
(* clear_active_run (Holder), and by the guard acting only after its       *)
(* prompt is over (GuardAfterwards).                                       *)
(***************************************************************************)
EXTENDS ActiveRuns, TLAPS, FiniteSetTheorems

\* Where a prompt relies on the session being its own.
Holding == {"claimed", "stream", "clear"}

Holder == \A p \in Runs : pc[p] \in Holding => registry = p

\* A prompt has a guard while it has the session; the guard's task runs after it.
GuardAfterwards ==
    \A p \in Runs : /\ guard[p] = "armed" <=> pc[p] \in Guarded
                    /\ guard[p] \in {"spawned", "discard", "done"} => pc[p] = "done"

Placed == \A p \in Runs : pc[p] # "idle" => on[p] \in Conns

RunInv == RunTypes /\ Holder /\ GuardAfterwards /\ Placed

\* Prompts that have an agent, and a load that has yet to find or make one.
Used == {p \in Runs : agent[p] # 0}
Due(c) == IF loading[c] = "register" THEN 1 ELSE 0

Counted == \A c \in Conns : made[c] + Due(c) <= Cardinality(Used) + loads

Unresolved == \A p \in Runs : pc[p] \in {"idle", "resolve"} => agent[p] = 0

\* A prompt that has had the session; its connection and agent stay what they are.
Claimed(p) == guard[p] # "none"

Equipped ==
    \A p \in Runs : pc[p] \in {"check", "claim"} \/ Claimed(p) => agent[p] \in Versions

AgentInv == AgentTypes /\ Counted /\ Unresolved /\ Equipped

Registered == \A p \in Runs : registry = p => Claimed(p)

\* A steer names a run that has an agent, and no steer is queued before that.
Named ==
    \A s \in Steers :
        /\ steer[s] = "idle" => expected[s] = None
        /\ steer[s] = "push" => expected[s] \in Runs
        /\ expected[s] \in Runs => Claimed(expected[s])

\* Wherever a steer is found, that is the agent of the run it names.
Routed ==
    /\ \A c \in Conns, v \in Versions : \A s \in queue[c][v] :
          expected[s] \in Runs /\ on[expected[s]] = c /\ agent[expected[s]] = v
    /\ \A p \in Runs : \A s \in orphan[p] :
          /\ expected[s] \in Runs /\ Claimed(p)
          /\ on[expected[s]] = on[p] /\ agent[expected[s]] = agent[p]
    /\ \A s \in Steers : pickedUp[s] \in Runs =>
          /\ expected[s] \in Runs /\ Claimed(pickedUp[s])
          /\ on[expected[s]] = on[pickedUp[s]] /\ agent[expected[s]] = agent[pickedUp[s]]

SteerInv == SteerTypes /\ Registered /\ Named /\ Routed

IInv == RunInv /\ RequestTypes /\ AgentInv /\ SteerInv

-----------------------------------------------------------------------------

\* A step that makes no agent.
LEMMA AgentFrame ==
  ASSUME AgentInv, loads \in Nat, UNCHANGED <<agent, made, loads>>,
         \A c \in Conns : loading'[c] = "register" => loading[c] = "register",
         sessions' \in [Conns -> Versions \cup {0}], managed' \in [Conns -> Versions \cup {0}],
         \A q \in Runs : pc'[q] \in {"idle", "resolve"} => pc[q] \in {"idle", "resolve"},
         \A q \in Runs : pc'[q] \in {"check", "claim"} => pc[q] \in {"check", "claim"},
         \A q \in Runs : Claimed(q)' => Claimed(q) \/ pc[q] \in {"check", "claim"}
  PROVE  AgentInv'
<1>1. AgentTypes' /\ Unresolved' /\ Equipped'
  BY DEF AgentInv, AgentTypes, Unresolved, Equipped
<1>2. Used' = Used
  BY DEF Used
<1>3. Used \in SUBSET Runs /\ IsFiniteSet(Used) /\ Cardinality(Used) \in Nat
  BY FiniteRuns, FS_Subset, FS_CardinalityType DEF Used
<1>4. Counted'
  <2> SUFFICES ASSUME NEW c \in Conns PROVE (made[c] + Due(c) <= Cardinality(Used) + loads)'
    BY DEF Counted
  <2>1. made[c] \in Int /\ Due(c)' <= Due(c) /\ Due(c) \in Nat /\ Due(c)' \in Nat
    BY DEF AgentInv, AgentTypes, Due, Versions
  <2>2. made[c] + Due(c) <= Cardinality(Used) + loads
    BY DEF AgentInv, Counted
  <2>3. made'[c] = made[c] /\ loads' = loads /\ Cardinality(Used)' = Cardinality(Used)
    BY <1>2
  <2>4. CASE Due(c)' = Due(c)  BY <2>2, <2>3, <2>4
  <2>5. CASE Due(c)' # Due(c)
    <3>1. Due(c)' = 0 /\ Due(c) = 1  BY <2>1, <2>5 DEF Due
    <3>2. made[c] + 1 <= Cardinality(Used) + loads  BY <2>2, <3>1
    <3>3. made[c] + 0 <= Cardinality(Used) + loads
      BY <3>2, <2>1, <1>3
    <3> QED  BY <3>1, <3>3, <2>3
  <2> QED  BY <2>4, <2>5
<1> QED  BY <1>1, <1>4 DEF AgentInv

\* The size of Used, and what one more prompt adds to it.
LEMMA UsedFinite ==
  IsFiniteSet(Used) /\ Cardinality(Used) \in Nat /\ Cardinality(Used) <= Cardinality(Runs)
  /\ Cardinality(Runs) \in Nat
BY FiniteRuns, FS_Subset, FS_CardinalityType DEF Used

LEMMA UsedFinitePrimed ==
  IsFiniteSet(Used') /\ Cardinality(Used') \in Nat /\ Cardinality(Used') <= Cardinality(Runs)
BY FiniteRuns, FS_Subset, FS_CardinalityType DEF Used

\* An agent is found or made.
LEMMA Activated ==
  ASSUME AgentInv, NEW c \in Conns, ActivateAcpSession(c)
  PROVE  /\ made' \in [Conns -> Nat] /\ sessions'[c] # 0
         /\ \A k \in Conns : made'[k] <= made[k] + 1
         /\ \A k \in Conns \ {c} : made'[k] = made[k]
         /\ made'[c] \in Versions \cup {0} => sessions' \in [Conns -> Versions \cup {0}]
         /\ made'[c] \in Versions \cup {0} => managed' \in [Conns -> Versions \cup {0}]
<1>1. made \in [Conns -> Nat] /\ managed \in [Conns -> Nat] /\ sessions \in [Conns -> Nat]
  BY DEF AgentInv, AgentTypes, Versions
<1>2. CASE managed[c] = 0
  <2>1. made' = [made EXCEPT ![c] = made[c] + 1]
        /\ managed' = [managed EXCEPT ![c] = made[c] + 1]
        /\ sessions' = [sessions EXCEPT ![c] = made[c] + 1]
    BY <1>2 DEF ActivateAcpSession
  <2>2. made'[c] \in Versions \cup {0} => made[c] + 1 \in Versions
    BY <1>1, <2>1 DEF Versions
  <2>3. made' \in [Conns -> Nat] /\ sessions'[c] # 0
        /\ (\A k \in Conns : made'[k] <= made[k] + 1)
        /\ (\A k \in Conns \ {c} : made'[k] = made[k])
    BY <1>1, <2>1
  <2>4. made'[c] \in Versions \cup {0} => sessions' \in [Conns -> Versions \cup {0}]
    BY <2>1, <2>2 DEF AgentInv, AgentTypes
  <2>5. made'[c] \in Versions \cup {0} => managed' \in [Conns -> Versions \cup {0}]
    BY <2>1, <2>2 DEF AgentInv, AgentTypes
  <2> QED  BY <2>3, <2>4, <2>5
<1>3. CASE managed[c] # 0
  <2>1. made' = made /\ managed' = managed /\ sessions' = [sessions EXCEPT ![c] = managed[c]]
    BY <1>1, <1>3 DEF ActivateAcpSession
  <2> QED  BY <1>1, <1>3, <2>1 DEF AgentInv, AgentTypes
<1> QED  BY <1>2, <1>3

\* A step that leaves queues alone, and claimed prompts where they are.
LEMMA SteerFrame ==
  ASSUME SteerInv, UNCHANGED steering, Registered',
         \A q \in Runs : Claimed(q) => Claimed(q)' /\ on'[q] = on[q] /\ agent'[q] = agent[q]
  PROVE  SteerInv'
<1>1. SteerTypes'  BY DEF SteerInv, SteerTypes, steering
<1>2. Named'  BY DEF SteerInv, Named, steering
<1>3. Routed'
  <2>0. \A s \in Steers : expected[s] \in Runs => Claimed(expected[s])
    BY DEF SteerInv, Named
  <2>1. \A p \in Runs : \A s \in orphan'[p] :
          /\ expected'[s] \in Runs /\ Claimed(p)'
          /\ on'[expected'[s]] = on'[p] /\ agent'[expected'[s]] = agent'[p]
    BY <2>0 DEF SteerInv, SteerTypes, Routed, steering
  <2>2. \A s \in Steers : pickedUp'[s] \in Runs =>
          /\ expected'[s] \in Runs /\ Claimed(pickedUp[s])'
          /\ on'[expected'[s]] = on'[pickedUp'[s]] /\ agent'[expected'[s]] = agent'[pickedUp'[s]]
    BY <2>0 DEF SteerInv, Routed, steering
  <2>3. \A c \in Conns, v \in Versions : \A s \in queue'[c][v] :
          expected'[s] \in Runs /\ on'[expected'[s]] = c /\ agent'[expected'[s]] = v
    BY <2>0 DEF SteerInv, SteerTypes, Routed, steering
  <2> QED  BY <2>1, <2>2, <2>3 DEF Routed
<1> QED  BY <1>1, <1>2, <1>3 DEF SteerInv

\* What is discarded is dropped, or stays with the stream that captured it.
LEMMA SteerDiscard ==
  ASSUME SteerInv, RunInv, NEW c \in Conns, NEW v \in Versions, DiscardPendingSteers(c, v),
         UNCHANGED <<on, agent, registry>>, Registered',
         \A q \in Runs : Claimed(q) => Claimed(q)'
  PROVE  SteerInv'
<1> DEFINE Held(q) == pc[q] = "stream" /\ on[q] = c /\ agent[q] = v
<1>0. queue[c][v] \in SUBSET Steers /\ UNCHANGED <<steer, by, expected, pickedUp>>
  BY DEF SteerInv, SteerTypes, DiscardPendingSteers
<1>1. \A q \in Runs : orphan'[q] = orphan[q] \/ (Held(q) /\ orphan'[q] = queue[c][v])
  BY DEF DiscardPendingSteers
<1>2. \A k \in Conns, u \in Versions : queue'[k][u] = queue[k][u] \/ queue'[k][u] = {}
  BY DEF DiscardPendingSteers, SteerInv, SteerTypes
<1>3. SteerTypes'
  <2>1. queue' \in [Conns -> [Versions -> SUBSET Steers]]
    BY DEF DiscardPendingSteers, SteerInv, SteerTypes
  <2>2. orphan' \in [Runs -> SUBSET Steers]
    BY <1>0 DEF DiscardPendingSteers, SteerInv, SteerTypes
  <2>3. detached' \subseteq Runs
    BY DEF DiscardPendingSteers, SteerInv, SteerTypes
  <2> QED  BY <1>0, <2>1, <2>2, <2>3 DEF SteerInv, SteerTypes
<1>4. Named'  BY <1>0 DEF SteerInv, Named
<1>5. Routed'
  <2>1. \A q \in Runs : Held(q) => Claimed(q)
    BY DEF RunInv, GuardAfterwards, Guarded, Claimed
  <2>2. ASSUME NEW q \in Runs, NEW s \in orphan'[q]
        PROVE  /\ expected[s] \in Runs /\ Claimed(q)'
               /\ on[expected[s]] = on[q] /\ agent[expected[s]] = agent[q]
    <3>1. CASE orphan'[q] = orphan[q]
      BY <3>1, <2>2 DEF SteerInv, Routed
    <3>2. CASE Held(q) /\ orphan'[q] = queue[c][v]
      BY <3>2, <2>2, <2>1 DEF SteerInv, Routed
    <3> QED  BY <1>1, <3>1, <3>2
  <2>3. \A k \in Conns, u \in Versions : \A s \in queue'[k][u] :
          expected[s] \in Runs /\ on[expected[s]] = k /\ agent[expected[s]] = u
    BY <1>2 DEF SteerInv, Routed
  <2>4. \A s \in Steers : pickedUp[s] \in Runs =>
          /\ expected[s] \in Runs /\ Claimed(pickedUp[s])'
          /\ on[expected[s]] = on[pickedUp[s]] /\ agent[expected[s]] = agent[pickedUp[s]]
    BY <1>0 DEF SteerInv, Routed, Claimed
  <2> QED  BY <1>0, <2>2, <2>3, <2>4 DEF Routed
<1> QED  BY <1>3, <1>4, <1>5 DEF SteerInv

\* The run of a prompt that may be streaming is the registered one, and stays so.
LEMMA RunStep ==
  ASSUME RunInv, [Next]_vars
  PROVE  RunInv'
<1>1. ASSUME NEW p \in Runs, NEW c \in Conns, Prompt(p, c) PROVE RunInv'
  BY <1>1, NoneAssumption DEF Prompt, Goto, claims, caches, prompts, steering, requests, RunInv, RunTypes, Holder, GuardAfterwards, Placed, Guarded, Holding
<1>2. ASSUME NEW p \in Runs, Resolve(p) PROVE RunInv'
  BY <1>2, NoneAssumption DEF Resolve, Goto, ActivateAcpSession, claims, caches, prompts, steering, requests, RunInv, RunTypes, Holder, GuardAfterwards, Placed, Guarded, Holding
<1>3. ASSUME NEW p \in Runs, StartCheck(p) PROVE RunInv'
  BY <1>3, NoneAssumption DEF StartCheck, Goto, claims, caches, prompts, steering, requests, RunInv, RunTypes, Holder, GuardAfterwards, Placed, Guarded, Holding
<1>4. ASSUME NEW p \in Runs, StartRefused(p) PROVE RunInv'
  BY <1>4, NoneAssumption DEF StartRefused, Goto, claims, caches, prompts, steering, requests, RunInv, RunTypes, Holder, GuardAfterwards, Placed, Guarded, Holding
<1>5. ASSUME NEW p \in Runs, StartClaim(p) PROVE RunInv'
  BY <1>5, NoneAssumption DEF StartClaim, Goto, claims, caches, prompts, steering, requests, RunInv, RunTypes, Holder, GuardAfterwards, Placed, Guarded, Holding
<1>6. ASSUME NEW p \in Runs, PromptFails(p) PROVE RunInv'
  BY <1>6, NoneAssumption DEF PromptFails, Goto, claims, caches, prompts, steering, requests, RunInv, RunTypes, Holder, GuardAfterwards, Placed, Guarded, Holding
<1>7. ASSUME NEW p \in Runs, PromptStreams(p) PROVE RunInv'
  BY <1>7, NoneAssumption DEF PromptStreams, Goto, claims, caches, prompts, steering, requests, RunInv, RunTypes, Holder, GuardAfterwards, Placed, Guarded, Holding
<1>8. ASSUME NEW p \in Runs, StreamStopped(p) PROVE RunInv'
  BY <1>8, NoneAssumption DEF StreamStopped, Goto, claims, caches, prompts, steering, requests, RunInv, RunTypes, Holder, GuardAfterwards, Placed, Guarded, Holding
<1>9. ASSUME NEW p \in Runs, ClearActiveRun(p) PROVE RunInv'
  BY <1>9, NoneAssumption DEF ClearActiveRun, Goto, claims, caches, prompts, steering, requests, RunInv, RunTypes, Holder, GuardAfterwards, Placed, Guarded, Holding
<1>10. ASSUME NEW p \in Runs, ClearDiscards(p) PROVE RunInv'
  BY <1>10, NoneAssumption DEF ClearDiscards, Goto, DiscardPendingSteers, claims, caches, prompts, steering, requests, RunInv, RunTypes, Holder, GuardAfterwards, Placed, Guarded, Holding
<1>11. ASSUME NEW p \in Runs, ClearReaps(p) PROVE RunInv'
  BY <1>11, NoneAssumption DEF ClearReaps, Goto, claims, caches, prompts, steering, requests, RunInv, RunTypes, Holder, GuardAfterwards, Placed, Guarded, Holding
<1>12. ASSUME NEW p \in Runs, ClearUnlists(p) PROVE RunInv'
  BY <1>12, NoneAssumption DEF ClearUnlists, Goto, claims, caches, prompts, steering, requests, RunInv, RunTypes, Holder, GuardAfterwards, Placed, Guarded, Holding
<1>13. ASSUME NEW p \in Runs, ClearUnloads(p) PROVE RunInv'
  BY <1>13, NoneAssumption DEF ClearUnloads, Goto, claims, caches, prompts, steering, requests, RunInv, RunTypes, Holder, GuardAfterwards, Placed, Guarded, Holding
<1>14. ASSUME NEW p \in Runs, Finish(p) PROVE RunInv'
  BY <1>14, NoneAssumption DEF Finish, Goto, claims, caches, prompts, steering, requests, RunInv, RunTypes, Holder, GuardAfterwards, Placed, Guarded, Holding
<1>15. ASSUME NEW p \in Runs, Drain(p) PROVE RunInv'
  <2>1. UNCHANGED <<registry, cancelled, pc, on, guard, pending>>  BY <1>15 DEF Drain, Goto, Drained, Forwards, Reads, claims, caches, prompts, steering, requests
  <2> QED  BY <2>1 DEF RunInv, RunTypes, Holder, GuardAfterwards, Placed, Guarded, Holding
<1>16. ASSUME NEW p \in Runs, AskApproval(p) PROVE RunInv'
  BY <1>16, NoneAssumption DEF AskApproval, Goto, Forwards, claims, caches, prompts, steering, requests, RunInv, RunTypes, Holder, GuardAfterwards, Placed, Guarded, Holding
<1>17. ASSUME NEW p \in Runs, AnswerApproval(p) PROVE RunInv'
  BY <1>17, NoneAssumption DEF AnswerApproval, Goto, Forwards, claims, caches, prompts, steering, requests, RunInv, RunTypes, Holder, GuardAfterwards, Placed, Guarded, Holding
<1>18. ASSUME NEW p \in Runs, StreamEnds(p) PROVE RunInv'
  BY <1>18, NoneAssumption DEF StreamEnds, Goto, Forwards, Reads, claims, caches, prompts, steering, requests, RunInv, RunTypes, Holder, GuardAfterwards, Placed, Guarded, Holding
<1>19. ASSUME NEW p \in Runs, StreamFails(p) PROVE RunInv'
  BY <1>19, NoneAssumption DEF StreamFails, Goto, claims, caches, prompts, steering, requests, RunInv, RunTypes, Holder, GuardAfterwards, Placed, Guarded, Holding
<1>20. ASSUME NEW p \in Runs, GuardRemoves(p) PROVE RunInv'
  BY <1>20, NoneAssumption DEF GuardRemoves, Goto, claims, caches, prompts, steering, requests, RunInv, RunTypes, Holder, GuardAfterwards, Placed, Guarded, Holding
<1>21. ASSUME NEW p \in Runs, GuardDiscards(p) PROVE RunInv'
  BY <1>21, NoneAssumption DEF GuardDiscards, Goto, DiscardPendingSteers, claims, caches, prompts, steering, requests, RunInv, RunTypes, Holder, GuardAfterwards, Placed, Guarded, Holding
<1>22. ASSUME NEW s \in Steers, NEW c \in Conns, NEW p \in Runs, RequireActiveRun(s, c, p) PROVE RunInv'
  <2>1. UNCHANGED <<registry, cancelled, pc, on, guard, pending>>  BY <1>22 DEF RequireActiveRun, Goto, claims, caches, prompts, steering, requests
  <2> QED  BY <2>1 DEF RunInv, RunTypes, Holder, GuardAfterwards, Placed, Guarded, Holding
<1>23. ASSUME NEW s \in Steers, Steer(s) PROVE RunInv'
  <2>1. UNCHANGED <<registry, cancelled, pc, on, guard, pending>>  BY <1>23 DEF Steer, Goto, claims, caches, prompts, steering, requests
  <2> QED  BY <2>1 DEF RunInv, RunTypes, Holder, GuardAfterwards, Placed, Guarded, Holding
<1>24. ASSUME Cancel PROVE RunInv'
  BY <1>24, NoneAssumption DEF Cancel, Goto, claims, caches, prompts, steering, requests, RunInv, RunTypes, Holder, GuardAfterwards, Placed, Guarded, Holding
<1>25. ASSUME NEW c \in Conns, CloseMarks(c) PROVE RunInv'
  <2>1. UNCHANGED <<registry, cancelled, pc, on, guard, pending>>  BY <1>25 DEF CloseMarks, Goto, claims, caches, prompts, steering, requests
  <2> QED  BY <2>1 DEF RunInv, RunTypes, Holder, GuardAfterwards, Placed, Guarded, Holding
<1>26. ASSUME NEW c \in Conns, CloseCancels(c) PROVE RunInv'
  BY <1>26, NoneAssumption DEF CloseCancels, Goto, claims, caches, prompts, steering, requests, RunInv, RunTypes, Holder, GuardAfterwards, Placed, Guarded, Holding
<1>27. ASSUME NEW c \in Conns, CloseUnlists(c) PROVE RunInv'
  <2>1. UNCHANGED <<registry, cancelled, pc, on, guard, pending>>  BY <1>27 DEF CloseUnlists, Goto, claims, caches, prompts, steering, requests
  <2> QED  BY <2>1 DEF RunInv, RunTypes, Holder, GuardAfterwards, Placed, Guarded, Holding
<1>28. ASSUME NEW c \in Conns, CloseUnloads(c) PROVE RunInv'
  <2>1. UNCHANGED <<registry, cancelled, pc, on, guard, pending>>  BY <1>28 DEF CloseUnloads, Goto, claims, caches, prompts, steering, requests
  <2> QED  BY <2>1 DEF RunInv, RunTypes, Holder, GuardAfterwards, Placed, Guarded, Holding
<1>29. ASSUME NEW c \in Conns, LoadPrepares(c) PROVE RunInv'
  <2>1. UNCHANGED <<registry, cancelled, pc, on, guard, pending>>  BY <1>29 DEF LoadPrepares, Goto, claims, caches, prompts, steering, requests
  <2> QED  BY <2>1 DEF RunInv, RunTypes, Holder, GuardAfterwards, Placed, Guarded, Holding
<1>30. ASSUME NEW c \in Conns, LoadRegisters(c) PROVE RunInv'
  <2>1. UNCHANGED <<registry, cancelled, pc, on, guard, pending>>  BY <1>30 DEF LoadRegisters, Goto, ActivateAcpSession, claims, caches, prompts, steering, requests
  <2> QED  BY <2>1 DEF RunInv, RunTypes, Holder, GuardAfterwards, Placed, Guarded, Holding
<1>31. ASSUME NEW c \in Conns, LoadReloads(c) PROVE RunInv'
  <2>1. UNCHANGED <<registry, cancelled, pc, on, guard, pending>>  BY <1>31 DEF LoadReloads, Goto, claims, caches, prompts, steering, requests
  <2> QED  BY <2>1 DEF RunInv, RunTypes, Holder, GuardAfterwards, Placed, Guarded, Holding
<1>32. ASSUME NEW c \in Conns, LoadOpens(c) PROVE RunInv'
  <2>1. UNCHANGED <<registry, cancelled, pc, on, guard, pending>>  BY <1>32 DEF LoadOpens, Goto, claims, caches, prompts, steering, requests
  <2> QED  BY <2>1 DEF RunInv, RunTypes, Holder, GuardAfterwards, Placed, Guarded, Holding
<1>33. ASSUME NEW c \in Conns, ConnectionLost(c) PROVE RunInv'
  BY <1>33, NoneAssumption DEF ConnectionLost, Goto, claims, caches, prompts, steering, requests, RunInv, RunTypes, Holder, GuardAfterwards, Placed, Guarded, Holding
<1>34. CASE UNCHANGED vars
  BY <1>34 DEF vars, claims, caches, prompts, steering, requests, RunInv, RunTypes, Holder, GuardAfterwards, Placed, Guarded, Holding
<1> QED
  BY <1>1, <1>2, <1>3, <1>4, <1>5, <1>6, <1>7, <1>8, <1>9, <1>10, <1>11, <1>12, <1>13, <1>14, <1>15, <1>16, <1>17, <1>18, <1>19, <1>20, <1>21, <1>22, <1>23, <1>24, <1>25, <1>26, <1>27, <1>28, <1>29, <1>30, <1>31, <1>32, <1>33, <1>34
  DEF Next, HandlerStep, StreamStep, GuardStep, CloseStep, LoadStep

\* Requests keep their types.
LEMMA RequestStep ==
  ASSUME RequestTypes, BoundsAssumption, [Next]_vars
  PROVE  RequestTypes'
<1>1. ASSUME NEW p \in Runs, NEW c \in Conns, Prompt(p, c) PROVE RequestTypes'
  <2>1. UNCHANGED <<closed, gone, closing, loading, loads, closes>>  BY <1>1 DEF Prompt, Goto, claims, caches, prompts, steering, requests
  <2> QED  BY <2>1 DEF RequestTypes
<1>2. ASSUME NEW p \in Runs, Resolve(p) PROVE RequestTypes'
  <2>1. UNCHANGED <<closed, gone, closing, loading, loads, closes>>  BY <1>2 DEF Resolve, Goto, ActivateAcpSession, claims, caches, prompts, steering, requests
  <2> QED  BY <2>1 DEF RequestTypes
<1>3. ASSUME NEW p \in Runs, StartCheck(p) PROVE RequestTypes'
  <2>1. UNCHANGED <<closed, gone, closing, loading, loads, closes>>  BY <1>3 DEF StartCheck, Goto, claims, caches, prompts, steering, requests
  <2> QED  BY <2>1 DEF RequestTypes
<1>4. ASSUME NEW p \in Runs, StartRefused(p) PROVE RequestTypes'
  <2>1. UNCHANGED <<closed, gone, closing, loading, loads, closes>>  BY <1>4 DEF StartRefused, Goto, claims, caches, prompts, steering, requests
  <2> QED  BY <2>1 DEF RequestTypes
<1>5. ASSUME NEW p \in Runs, StartClaim(p) PROVE RequestTypes'
  <2>1. UNCHANGED <<closed, gone, closing, loading, loads, closes>>  BY <1>5 DEF StartClaim, Goto, claims, caches, prompts, steering, requests
  <2> QED  BY <2>1 DEF RequestTypes
<1>6. ASSUME NEW p \in Runs, PromptFails(p) PROVE RequestTypes'
  <2>1. UNCHANGED <<closed, gone, closing, loading, loads, closes>>  BY <1>6 DEF PromptFails, Goto, claims, caches, prompts, steering, requests
  <2> QED  BY <2>1 DEF RequestTypes
<1>7. ASSUME NEW p \in Runs, PromptStreams(p) PROVE RequestTypes'
  <2>1. UNCHANGED <<closed, gone, closing, loading, loads, closes>>  BY <1>7 DEF PromptStreams, Goto, claims, caches, prompts, steering, requests
  <2> QED  BY <2>1 DEF RequestTypes
<1>8. ASSUME NEW p \in Runs, StreamStopped(p) PROVE RequestTypes'
  <2>1. UNCHANGED <<closed, gone, closing, loading, loads, closes>>  BY <1>8 DEF StreamStopped, Goto, claims, caches, prompts, steering, requests
  <2> QED  BY <2>1 DEF RequestTypes
<1>9. ASSUME NEW p \in Runs, ClearActiveRun(p) PROVE RequestTypes'
  <2>1. UNCHANGED <<closed, gone, closing, loading, loads, closes>>  BY <1>9 DEF ClearActiveRun, Goto, claims, caches, prompts, steering, requests
  <2> QED  BY <2>1 DEF RequestTypes
<1>10. ASSUME NEW p \in Runs, ClearDiscards(p) PROVE RequestTypes'
  <2>1. UNCHANGED <<closed, gone, closing, loading, loads, closes>>  BY <1>10 DEF ClearDiscards, Goto, DiscardPendingSteers, claims, caches, prompts, steering, requests
  <2> QED  BY <2>1 DEF RequestTypes
<1>11. ASSUME NEW p \in Runs, ClearReaps(p) PROVE RequestTypes'
  <2>1. UNCHANGED <<closed, gone, closing, loading, loads, closes>>  BY <1>11 DEF ClearReaps, Goto, claims, caches, prompts, steering, requests
  <2> QED  BY <2>1 DEF RequestTypes
<1>12. ASSUME NEW p \in Runs, ClearUnlists(p) PROVE RequestTypes'
  <2>1. UNCHANGED <<closed, gone, closing, loading, loads, closes>>  BY <1>12 DEF ClearUnlists, Goto, claims, caches, prompts, steering, requests
  <2> QED  BY <2>1 DEF RequestTypes
<1>13. ASSUME NEW p \in Runs, ClearUnloads(p) PROVE RequestTypes'
  <2>1. UNCHANGED <<closed, gone, closing, loading, loads, closes>>  BY <1>13 DEF ClearUnloads, Goto, claims, caches, prompts, steering, requests
  <2> QED  BY <2>1 DEF RequestTypes
<1>14. ASSUME NEW p \in Runs, Finish(p) PROVE RequestTypes'
  <2>1. UNCHANGED <<closed, gone, closing, loading, loads, closes>>  BY <1>14 DEF Finish, Goto, claims, caches, prompts, steering, requests
  <2> QED  BY <2>1 DEF RequestTypes
<1>15. ASSUME NEW p \in Runs, Drain(p) PROVE RequestTypes'
  <2>1. UNCHANGED <<closed, gone, closing, loading, loads, closes>>  BY <1>15 DEF Drain, Goto, Drained, Forwards, Reads, claims, caches, prompts, steering, requests
  <2> QED  BY <2>1 DEF RequestTypes
<1>16. ASSUME NEW p \in Runs, AskApproval(p) PROVE RequestTypes'
  <2>1. UNCHANGED <<closed, gone, closing, loading, loads, closes>>  BY <1>16 DEF AskApproval, Goto, Forwards, claims, caches, prompts, steering, requests
  <2> QED  BY <2>1 DEF RequestTypes
<1>17. ASSUME NEW p \in Runs, AnswerApproval(p) PROVE RequestTypes'
  <2>1. UNCHANGED <<closed, gone, closing, loading, loads, closes>>  BY <1>17 DEF AnswerApproval, Goto, Forwards, claims, caches, prompts, steering, requests
  <2> QED  BY <2>1 DEF RequestTypes
<1>18. ASSUME NEW p \in Runs, StreamEnds(p) PROVE RequestTypes'
  <2>1. UNCHANGED <<closed, gone, closing, loading, loads, closes>>  BY <1>18 DEF StreamEnds, Goto, Forwards, Reads, claims, caches, prompts, steering, requests
  <2> QED  BY <2>1 DEF RequestTypes
<1>19. ASSUME NEW p \in Runs, StreamFails(p) PROVE RequestTypes'
  <2>1. UNCHANGED <<closed, gone, closing, loading, loads, closes>>  BY <1>19 DEF StreamFails, Goto, claims, caches, prompts, steering, requests
  <2> QED  BY <2>1 DEF RequestTypes
<1>20. ASSUME NEW p \in Runs, GuardRemoves(p) PROVE RequestTypes'
  <2>1. UNCHANGED <<closed, gone, closing, loading, loads, closes>>  BY <1>20 DEF GuardRemoves, Goto, claims, caches, prompts, steering, requests
  <2> QED  BY <2>1 DEF RequestTypes
<1>21. ASSUME NEW p \in Runs, GuardDiscards(p) PROVE RequestTypes'
  <2>1. UNCHANGED <<closed, gone, closing, loading, loads, closes>>  BY <1>21 DEF GuardDiscards, Goto, DiscardPendingSteers, claims, caches, prompts, steering, requests
  <2> QED  BY <2>1 DEF RequestTypes
<1>22. ASSUME NEW s \in Steers, NEW c \in Conns, NEW p \in Runs, RequireActiveRun(s, c, p) PROVE RequestTypes'
  <2>1. UNCHANGED <<closed, gone, closing, loading, loads, closes>>  BY <1>22 DEF RequireActiveRun, Goto, claims, caches, prompts, steering, requests
  <2> QED  BY <2>1 DEF RequestTypes
<1>23. ASSUME NEW s \in Steers, Steer(s) PROVE RequestTypes'
  <2>1. UNCHANGED <<closed, gone, closing, loading, loads, closes>>  BY <1>23 DEF Steer, Goto, claims, caches, prompts, steering, requests
  <2> QED  BY <2>1 DEF RequestTypes
<1>24. ASSUME Cancel PROVE RequestTypes'
  <2>1. UNCHANGED <<closed, gone, closing, loading, loads, closes>>  BY <1>24 DEF Cancel, Goto, claims, caches, prompts, steering, requests
  <2> QED  BY <2>1 DEF RequestTypes
<1>25. ASSUME NEW c \in Conns, CloseMarks(c) PROVE RequestTypes'
  BY <1>25, NoneAssumption DEF CloseMarks, Goto, claims, caches, prompts, steering, requests, RequestTypes
<1>26. ASSUME NEW c \in Conns, CloseCancels(c) PROVE RequestTypes'
  BY <1>26, NoneAssumption DEF CloseCancels, Goto, claims, caches, prompts, steering, requests, RequestTypes
<1>27. ASSUME NEW c \in Conns, CloseUnlists(c) PROVE RequestTypes'
  BY <1>27, NoneAssumption DEF CloseUnlists, Goto, claims, caches, prompts, steering, requests, RequestTypes
<1>28. ASSUME NEW c \in Conns, CloseUnloads(c) PROVE RequestTypes'
  BY <1>28, NoneAssumption DEF CloseUnloads, Goto, claims, caches, prompts, steering, requests, RequestTypes
<1>29. ASSUME NEW c \in Conns, LoadPrepares(c) PROVE RequestTypes'
  BY <1>29, NoneAssumption DEF LoadPrepares, Goto, claims, caches, prompts, steering, requests, RequestTypes
<1>30. ASSUME NEW c \in Conns, LoadRegisters(c) PROVE RequestTypes'
  BY <1>30, NoneAssumption DEF LoadRegisters, Goto, ActivateAcpSession, claims, caches, prompts, steering, requests, RequestTypes
<1>31. ASSUME NEW c \in Conns, LoadReloads(c) PROVE RequestTypes'
  BY <1>31, NoneAssumption DEF LoadReloads, Goto, claims, caches, prompts, steering, requests, RequestTypes
<1>32. ASSUME NEW c \in Conns, LoadOpens(c) PROVE RequestTypes'
  BY <1>32, NoneAssumption DEF LoadOpens, Goto, claims, caches, prompts, steering, requests, RequestTypes
<1>33. ASSUME NEW c \in Conns, ConnectionLost(c) PROVE RequestTypes'
  BY <1>33, NoneAssumption DEF ConnectionLost, Goto, claims, caches, prompts, steering, requests, RequestTypes
<1>34. CASE UNCHANGED vars
  BY <1>34 DEF vars, claims, caches, prompts, steering, requests, RequestTypes
<1> QED
  BY <1>1, <1>2, <1>3, <1>4, <1>5, <1>6, <1>7, <1>8, <1>9, <1>10, <1>11, <1>12, <1>13, <1>14, <1>15, <1>16, <1>17, <1>18, <1>19, <1>20, <1>21, <1>22, <1>23, <1>24, <1>25, <1>26, <1>27, <1>28, <1>29, <1>30, <1>31, <1>32, <1>33, <1>34
  DEF Next, HandlerStep, StreamStep, GuardStep, CloseStep, LoadStep

\* No more agents are made than there were prompts and loads to make them.
LEMMA AgentStep ==
  ASSUME RunInv, RequestTypes, RequestTypes', AgentInv, [Next]_vars
  PROVE  AgentInv'
<1>1. ASSUME NEW p \in Runs, NEW c \in Conns, Prompt(p, c) PROVE AgentInv'
  <2>1. UNCHANGED <<agent, made, loads>> /\ loads \in Nat
    BY <1>1 DEF Prompt, Goto, claims, caches, prompts, steering, requests, RequestTypes
  <2>2. \A k \in Conns : loading'[k] = "register" => loading[k] = "register"
    BY <1>1 DEF Prompt, Goto, claims, caches, prompts, steering, requests, RequestTypes
  <2>3. sessions' \in [Conns -> Versions \cup {0}] /\ managed' \in [Conns -> Versions \cup {0}]
    BY <1>1 DEF Prompt, Goto, claims, caches, prompts, steering, requests, AgentInv, AgentTypes
  <2>4. \A q \in Runs : pc'[q] \in {"idle", "resolve"} => pc[q] \in {"idle", "resolve"}
    BY <1>1 DEF Prompt, Goto, claims, caches, prompts, steering, requests, RunInv, RunTypes
  <2>5. \A q \in Runs : pc'[q] \in {"check", "claim"} => pc[q] \in {"check", "claim"}
    BY <1>1 DEF Prompt, Goto, claims, caches, prompts, steering, requests, RunInv, RunTypes
  <2>6. \A q \in Runs : Claimed(q)' => Claimed(q) \/ pc[q] \in {"check", "claim"}
    BY <1>1 DEF Prompt, Goto, claims, caches, prompts, steering, requests, RunInv, RunTypes, Claimed, GuardAfterwards, Guarded
  <2> QED  BY <2>1, <2>2, <2>3, <2>4, <2>5, <2>6, AgentFrame
<1>2. ASSUME NEW p \in Runs, Resolve(p) PROVE AgentInv'
  <2> DEFINE c == on[p]
  <2>1. c \in Conns /\ agent[p] = 0 /\ pc[p] = "resolve"
    BY <1>2 DEF Resolve, RunInv, Placed, AgentInv, Unresolved
  <2>2. /\ UNCHANGED <<loads, loading, guard>> /\ loads \in 0..MaxLoads
        /\ pc' = [pc EXCEPT ![p] = "check"] /\ agent' = [agent EXCEPT ![p] = sessions'[c]]
        /\ \/ sessions[c] # 0 /\ UNCHANGED <<sessions, managed, made>>
           \/ ActivateAcpSession(c)
    BY <1>2 DEF Resolve, Goto, requests, claims, RequestTypes
  <2>3. /\ made' \in [Conns -> Nat] /\ sessions'[c] # 0
        /\ \A k \in Conns : made'[k] <= made[k] + 1
        /\ made'[c] \in Versions \cup {0} => sessions' \in [Conns -> Versions \cup {0}]
        /\ made'[c] \in Versions \cup {0} => managed' \in [Conns -> Versions \cup {0}]
    <3>1. CASE sessions[c] # 0 /\ UNCHANGED <<sessions, managed, made>>
      BY <3>1, <2>1 DEF AgentInv, AgentTypes, Versions
    <3>2. CASE ActivateAcpSession(c)
      BY <3>2, <2>1, Activated
    <3> QED  BY <2>2, <3>1, <3>2
  <2>4. Used' = Used \cup {p} /\ p \notin Used
    BY <2>1, <2>2, <2>3 DEF AgentInv, AgentTypes, Used
  <2>5. Cardinality(Used') = Cardinality(Used) + 1
    BY <2>4, UsedFinite, FS_AddElement
  <2>6. ASSUME NEW k \in Conns PROVE (made[k] + Due(k) <= Cardinality(Used) + loads)'
    <3>1. made[k] \in Nat /\ Due(k) \in 0..1 /\ loads \in Nat
      BY <2>2, BoundsAssumption DEF AgentInv, AgentTypes, Versions, Due
    <3>2. made[k] + Due(k) <= Cardinality(Used) + loads
      BY DEF AgentInv, Counted
    <3>3. Due(k)' = Due(k)  BY <2>2 DEF Due
    <3>4. made'[k] + Due(k) <= (Cardinality(Used) + 1) + loads
      BY <3>1, <3>2, <2>3, UsedFinite
    <3> QED  BY <3>3, <3>4, <2>2, <2>5
  <2>7. \A k \in Conns : made'[k] \in Versions \cup {0}
    <3>1. \A k \in Conns : Due(k)' \in 0..1  BY DEF Due
    <3>2. ASSUME NEW k \in Conns PROVE made'[k] <= Cardinality(Runs) + MaxLoads
      <4>1. made'[k] + Due(k)' <= Cardinality(Used') + loads  BY <2>6, <2>2
      <4> QED  BY <4>1, <3>1, <2>2, <2>3, UsedFinitePrimed, UsedFinite, BoundsAssumption
    <3> QED  BY <3>2, <2>3, UsedFinite, BoundsAssumption DEF Versions
  <2>8. sessions' \in [Conns -> Versions \cup {0}] /\ managed' \in [Conns -> Versions \cup {0}]
    BY <2>1, <2>3, <2>7
  <2>9. made' \in [Conns -> Versions \cup {0}]  BY <2>3, <2>7
  <2>10. sessions'[c] \in Versions  BY <2>1, <2>3, <2>8
  <2>11. AgentTypes'
    BY <2>2, <2>8, <2>9, <2>10 DEF AgentInv, AgentTypes
  <2>12. Unresolved'
    BY <2>2 DEF AgentInv, AgentTypes, Unresolved, RunInv, RunTypes
  <2>13. Equipped'
    BY <2>2, <2>10 DEF AgentInv, AgentTypes, Equipped, Claimed, RunInv, RunTypes
  <2> QED  BY <2>6, <2>11, <2>12, <2>13 DEF AgentInv, Counted
<1>3. ASSUME NEW p \in Runs, StartCheck(p) PROVE AgentInv'
  <2>1. UNCHANGED <<agent, made, loads>> /\ loads \in Nat
    BY <1>3 DEF StartCheck, Goto, claims, caches, prompts, steering, requests, RequestTypes
  <2>2. \A k \in Conns : loading'[k] = "register" => loading[k] = "register"
    BY <1>3 DEF StartCheck, Goto, claims, caches, prompts, steering, requests, RequestTypes
  <2>3. sessions' \in [Conns -> Versions \cup {0}] /\ managed' \in [Conns -> Versions \cup {0}]
    BY <1>3 DEF StartCheck, Goto, claims, caches, prompts, steering, requests, AgentInv, AgentTypes
  <2>4. \A q \in Runs : pc'[q] \in {"idle", "resolve"} => pc[q] \in {"idle", "resolve"}
    BY <1>3 DEF StartCheck, Goto, claims, caches, prompts, steering, requests, RunInv, RunTypes
  <2>5. \A q \in Runs : pc'[q] \in {"check", "claim"} => pc[q] \in {"check", "claim"}
    BY <1>3 DEF StartCheck, Goto, claims, caches, prompts, steering, requests, RunInv, RunTypes
  <2>6. \A q \in Runs : Claimed(q)' => Claimed(q) \/ pc[q] \in {"check", "claim"}
    BY <1>3 DEF StartCheck, Goto, claims, caches, prompts, steering, requests, RunInv, RunTypes, Claimed, GuardAfterwards, Guarded
  <2> QED  BY <2>1, <2>2, <2>3, <2>4, <2>5, <2>6, AgentFrame
<1>4. ASSUME NEW p \in Runs, StartRefused(p) PROVE AgentInv'
  <2>1. UNCHANGED <<agent, made, loads>> /\ loads \in Nat
    BY <1>4 DEF StartRefused, Goto, claims, caches, prompts, steering, requests, RequestTypes
  <2>2. \A k \in Conns : loading'[k] = "register" => loading[k] = "register"
    BY <1>4 DEF StartRefused, Goto, claims, caches, prompts, steering, requests, RequestTypes
  <2>3. sessions' \in [Conns -> Versions \cup {0}] /\ managed' \in [Conns -> Versions \cup {0}]
    BY <1>4 DEF StartRefused, Goto, claims, caches, prompts, steering, requests, AgentInv, AgentTypes
  <2>4. \A q \in Runs : pc'[q] \in {"idle", "resolve"} => pc[q] \in {"idle", "resolve"}
    BY <1>4 DEF StartRefused, Goto, claims, caches, prompts, steering, requests, RunInv, RunTypes
  <2>5. \A q \in Runs : pc'[q] \in {"check", "claim"} => pc[q] \in {"check", "claim"}
    BY <1>4 DEF StartRefused, Goto, claims, caches, prompts, steering, requests, RunInv, RunTypes
  <2>6. \A q \in Runs : Claimed(q)' => Claimed(q) \/ pc[q] \in {"check", "claim"}
    BY <1>4 DEF StartRefused, Goto, claims, caches, prompts, steering, requests, RunInv, RunTypes, Claimed, GuardAfterwards, Guarded
  <2> QED  BY <2>1, <2>2, <2>3, <2>4, <2>5, <2>6, AgentFrame
<1>5. ASSUME NEW p \in Runs, StartClaim(p) PROVE AgentInv'
  <2>1. UNCHANGED <<agent, made, loads>> /\ loads \in Nat
    BY <1>5 DEF StartClaim, Goto, claims, caches, prompts, steering, requests, RequestTypes
  <2>2. \A k \in Conns : loading'[k] = "register" => loading[k] = "register"
    BY <1>5 DEF StartClaim, Goto, claims, caches, prompts, steering, requests, RequestTypes
  <2>3. sessions' \in [Conns -> Versions \cup {0}] /\ managed' \in [Conns -> Versions \cup {0}]
    BY <1>5 DEF StartClaim, Goto, claims, caches, prompts, steering, requests, AgentInv, AgentTypes
  <2>4. \A q \in Runs : pc'[q] \in {"idle", "resolve"} => pc[q] \in {"idle", "resolve"}
    BY <1>5 DEF StartClaim, Goto, claims, caches, prompts, steering, requests, RunInv, RunTypes
  <2>5. \A q \in Runs : pc'[q] \in {"check", "claim"} => pc[q] \in {"check", "claim"}
    BY <1>5 DEF StartClaim, Goto, claims, caches, prompts, steering, requests, RunInv, RunTypes
  <2>6. \A q \in Runs : Claimed(q)' => Claimed(q) \/ pc[q] \in {"check", "claim"}
    BY <1>5 DEF StartClaim, Goto, claims, caches, prompts, steering, requests, RunInv, RunTypes, Claimed, GuardAfterwards, Guarded
  <2> QED  BY <2>1, <2>2, <2>3, <2>4, <2>5, <2>6, AgentFrame
<1>6. ASSUME NEW p \in Runs, PromptFails(p) PROVE AgentInv'
  <2>1. UNCHANGED <<agent, made, loads>> /\ loads \in Nat
    BY <1>6 DEF PromptFails, Goto, claims, caches, prompts, steering, requests, RequestTypes
  <2>2. \A k \in Conns : loading'[k] = "register" => loading[k] = "register"
    BY <1>6 DEF PromptFails, Goto, claims, caches, prompts, steering, requests, RequestTypes
  <2>3. sessions' \in [Conns -> Versions \cup {0}] /\ managed' \in [Conns -> Versions \cup {0}]
    BY <1>6 DEF PromptFails, Goto, claims, caches, prompts, steering, requests, AgentInv, AgentTypes
  <2>4. \A q \in Runs : pc'[q] \in {"idle", "resolve"} => pc[q] \in {"idle", "resolve"}
    BY <1>6 DEF PromptFails, Goto, claims, caches, prompts, steering, requests, RunInv, RunTypes
  <2>5. \A q \in Runs : pc'[q] \in {"check", "claim"} => pc[q] \in {"check", "claim"}
    BY <1>6 DEF PromptFails, Goto, claims, caches, prompts, steering, requests, RunInv, RunTypes
  <2>6. \A q \in Runs : Claimed(q)' => Claimed(q) \/ pc[q] \in {"check", "claim"}
    BY <1>6 DEF PromptFails, Goto, claims, caches, prompts, steering, requests, RunInv, RunTypes, Claimed, GuardAfterwards, Guarded
  <2> QED  BY <2>1, <2>2, <2>3, <2>4, <2>5, <2>6, AgentFrame
<1>7. ASSUME NEW p \in Runs, PromptStreams(p) PROVE AgentInv'
  <2>1. UNCHANGED <<agent, made, loads>> /\ loads \in Nat
    BY <1>7 DEF PromptStreams, Goto, claims, caches, prompts, steering, requests, RequestTypes
  <2>2. \A k \in Conns : loading'[k] = "register" => loading[k] = "register"
    BY <1>7 DEF PromptStreams, Goto, claims, caches, prompts, steering, requests, RequestTypes
  <2>3. sessions' \in [Conns -> Versions \cup {0}] /\ managed' \in [Conns -> Versions \cup {0}]
    BY <1>7 DEF PromptStreams, Goto, claims, caches, prompts, steering, requests, AgentInv, AgentTypes
  <2>4. \A q \in Runs : pc'[q] \in {"idle", "resolve"} => pc[q] \in {"idle", "resolve"}
    BY <1>7 DEF PromptStreams, Goto, claims, caches, prompts, steering, requests, RunInv, RunTypes
  <2>5. \A q \in Runs : pc'[q] \in {"check", "claim"} => pc[q] \in {"check", "claim"}
    BY <1>7 DEF PromptStreams, Goto, claims, caches, prompts, steering, requests, RunInv, RunTypes
  <2>6. \A q \in Runs : Claimed(q)' => Claimed(q) \/ pc[q] \in {"check", "claim"}
    BY <1>7 DEF PromptStreams, Goto, claims, caches, prompts, steering, requests, RunInv, RunTypes, Claimed, GuardAfterwards, Guarded
  <2> QED  BY <2>1, <2>2, <2>3, <2>4, <2>5, <2>6, AgentFrame
<1>8. ASSUME NEW p \in Runs, StreamStopped(p) PROVE AgentInv'
  <2>1. UNCHANGED <<agent, made, loads>> /\ loads \in Nat
    BY <1>8 DEF StreamStopped, Goto, claims, caches, prompts, steering, requests, RequestTypes
  <2>2. \A k \in Conns : loading'[k] = "register" => loading[k] = "register"
    BY <1>8 DEF StreamStopped, Goto, claims, caches, prompts, steering, requests, RequestTypes
  <2>3. sessions' \in [Conns -> Versions \cup {0}] /\ managed' \in [Conns -> Versions \cup {0}]
    BY <1>8 DEF StreamStopped, Goto, claims, caches, prompts, steering, requests, AgentInv, AgentTypes
  <2>4. \A q \in Runs : pc'[q] \in {"idle", "resolve"} => pc[q] \in {"idle", "resolve"}
    BY <1>8 DEF StreamStopped, Goto, claims, caches, prompts, steering, requests, RunInv, RunTypes
  <2>5. \A q \in Runs : pc'[q] \in {"check", "claim"} => pc[q] \in {"check", "claim"}
    BY <1>8 DEF StreamStopped, Goto, claims, caches, prompts, steering, requests, RunInv, RunTypes
  <2>6. \A q \in Runs : Claimed(q)' => Claimed(q) \/ pc[q] \in {"check", "claim"}
    BY <1>8 DEF StreamStopped, Goto, claims, caches, prompts, steering, requests, RunInv, RunTypes, Claimed, GuardAfterwards, Guarded
  <2> QED  BY <2>1, <2>2, <2>3, <2>4, <2>5, <2>6, AgentFrame
<1>9. ASSUME NEW p \in Runs, ClearActiveRun(p) PROVE AgentInv'
  <2>1. UNCHANGED <<agent, made, loads>> /\ loads \in Nat
    BY <1>9 DEF ClearActiveRun, Goto, claims, caches, prompts, steering, requests, RequestTypes
  <2>2. \A k \in Conns : loading'[k] = "register" => loading[k] = "register"
    BY <1>9 DEF ClearActiveRun, Goto, claims, caches, prompts, steering, requests, RequestTypes
  <2>3. sessions' \in [Conns -> Versions \cup {0}] /\ managed' \in [Conns -> Versions \cup {0}]
    BY <1>9 DEF ClearActiveRun, Goto, claims, caches, prompts, steering, requests, AgentInv, AgentTypes
  <2>4. \A q \in Runs : pc'[q] \in {"idle", "resolve"} => pc[q] \in {"idle", "resolve"}
    BY <1>9 DEF ClearActiveRun, Goto, claims, caches, prompts, steering, requests, RunInv, RunTypes
  <2>5. \A q \in Runs : pc'[q] \in {"check", "claim"} => pc[q] \in {"check", "claim"}
    BY <1>9 DEF ClearActiveRun, Goto, claims, caches, prompts, steering, requests, RunInv, RunTypes
  <2>6. \A q \in Runs : Claimed(q)' => Claimed(q) \/ pc[q] \in {"check", "claim"}
    BY <1>9 DEF ClearActiveRun, Goto, claims, caches, prompts, steering, requests, RunInv, RunTypes, Claimed, GuardAfterwards, Guarded
  <2> QED  BY <2>1, <2>2, <2>3, <2>4, <2>5, <2>6, AgentFrame
<1>10. ASSUME NEW p \in Runs, ClearDiscards(p) PROVE AgentInv'
  <2>1. UNCHANGED <<agent, made, loads>> /\ loads \in Nat
    BY <1>10 DEF ClearDiscards, Goto, DiscardPendingSteers, claims, caches, prompts, steering, requests, RequestTypes
  <2>2. \A k \in Conns : loading'[k] = "register" => loading[k] = "register"
    BY <1>10 DEF ClearDiscards, Goto, DiscardPendingSteers, claims, caches, prompts, steering, requests, RequestTypes
  <2>3. sessions' \in [Conns -> Versions \cup {0}] /\ managed' \in [Conns -> Versions \cup {0}]
    BY <1>10 DEF ClearDiscards, Goto, DiscardPendingSteers, claims, caches, prompts, steering, requests, AgentInv, AgentTypes
  <2>4. \A q \in Runs : pc'[q] \in {"idle", "resolve"} => pc[q] \in {"idle", "resolve"}
    BY <1>10 DEF ClearDiscards, Goto, DiscardPendingSteers, claims, caches, prompts, steering, requests, RunInv, RunTypes
  <2>5. \A q \in Runs : pc'[q] \in {"check", "claim"} => pc[q] \in {"check", "claim"}
    BY <1>10 DEF ClearDiscards, Goto, DiscardPendingSteers, claims, caches, prompts, steering, requests, RunInv, RunTypes
  <2>6. \A q \in Runs : Claimed(q)' => Claimed(q) \/ pc[q] \in {"check", "claim"}
    BY <1>10 DEF ClearDiscards, Goto, DiscardPendingSteers, claims, caches, prompts, steering, requests, RunInv, RunTypes, Claimed, GuardAfterwards, Guarded
  <2> QED  BY <2>1, <2>2, <2>3, <2>4, <2>5, <2>6, AgentFrame
<1>11. ASSUME NEW p \in Runs, ClearReaps(p) PROVE AgentInv'
  <2>1. UNCHANGED <<agent, made, loads>> /\ loads \in Nat
    BY <1>11 DEF ClearReaps, Goto, claims, caches, prompts, steering, requests, RequestTypes
  <2>2. \A k \in Conns : loading'[k] = "register" => loading[k] = "register"
    BY <1>11 DEF ClearReaps, Goto, claims, caches, prompts, steering, requests, RequestTypes
  <2>3. sessions' \in [Conns -> Versions \cup {0}] /\ managed' \in [Conns -> Versions \cup {0}]
    BY <1>11 DEF ClearReaps, Goto, claims, caches, prompts, steering, requests, AgentInv, AgentTypes
  <2>4. \A q \in Runs : pc'[q] \in {"idle", "resolve"} => pc[q] \in {"idle", "resolve"}
    BY <1>11 DEF ClearReaps, Goto, claims, caches, prompts, steering, requests, RunInv, RunTypes
  <2>5. \A q \in Runs : pc'[q] \in {"check", "claim"} => pc[q] \in {"check", "claim"}
    BY <1>11 DEF ClearReaps, Goto, claims, caches, prompts, steering, requests, RunInv, RunTypes
  <2>6. \A q \in Runs : Claimed(q)' => Claimed(q) \/ pc[q] \in {"check", "claim"}
    BY <1>11 DEF ClearReaps, Goto, claims, caches, prompts, steering, requests, RunInv, RunTypes, Claimed, GuardAfterwards, Guarded
  <2> QED  BY <2>1, <2>2, <2>3, <2>4, <2>5, <2>6, AgentFrame
<1>12. ASSUME NEW p \in Runs, ClearUnlists(p) PROVE AgentInv'
  <2>1. UNCHANGED <<agent, made, loads>> /\ loads \in Nat
    BY <1>12 DEF ClearUnlists, Goto, claims, caches, prompts, steering, requests, RequestTypes
  <2>2. \A k \in Conns : loading'[k] = "register" => loading[k] = "register"
    BY <1>12 DEF ClearUnlists, Goto, claims, caches, prompts, steering, requests, RequestTypes
  <2>3. sessions' \in [Conns -> Versions \cup {0}] /\ managed' \in [Conns -> Versions \cup {0}]
    BY <1>12 DEF ClearUnlists, Goto, claims, caches, prompts, steering, requests, AgentInv, AgentTypes
  <2>4. \A q \in Runs : pc'[q] \in {"idle", "resolve"} => pc[q] \in {"idle", "resolve"}
    BY <1>12 DEF ClearUnlists, Goto, claims, caches, prompts, steering, requests, RunInv, RunTypes
  <2>5. \A q \in Runs : pc'[q] \in {"check", "claim"} => pc[q] \in {"check", "claim"}
    BY <1>12 DEF ClearUnlists, Goto, claims, caches, prompts, steering, requests, RunInv, RunTypes
  <2>6. \A q \in Runs : Claimed(q)' => Claimed(q) \/ pc[q] \in {"check", "claim"}
    BY <1>12 DEF ClearUnlists, Goto, claims, caches, prompts, steering, requests, RunInv, RunTypes, Claimed, GuardAfterwards, Guarded
  <2> QED  BY <2>1, <2>2, <2>3, <2>4, <2>5, <2>6, AgentFrame
<1>13. ASSUME NEW p \in Runs, ClearUnloads(p) PROVE AgentInv'
  <2>1. UNCHANGED <<agent, made, loads>> /\ loads \in Nat
    BY <1>13 DEF ClearUnloads, Goto, claims, caches, prompts, steering, requests, RequestTypes
  <2>2. \A k \in Conns : loading'[k] = "register" => loading[k] = "register"
    BY <1>13 DEF ClearUnloads, Goto, claims, caches, prompts, steering, requests, RequestTypes
  <2>3. sessions' \in [Conns -> Versions \cup {0}] /\ managed' \in [Conns -> Versions \cup {0}]
    BY <1>13 DEF ClearUnloads, Goto, claims, caches, prompts, steering, requests, AgentInv, AgentTypes
  <2>4. \A q \in Runs : pc'[q] \in {"idle", "resolve"} => pc[q] \in {"idle", "resolve"}
    BY <1>13 DEF ClearUnloads, Goto, claims, caches, prompts, steering, requests, RunInv, RunTypes
  <2>5. \A q \in Runs : pc'[q] \in {"check", "claim"} => pc[q] \in {"check", "claim"}
    BY <1>13 DEF ClearUnloads, Goto, claims, caches, prompts, steering, requests, RunInv, RunTypes
  <2>6. \A q \in Runs : Claimed(q)' => Claimed(q) \/ pc[q] \in {"check", "claim"}
    BY <1>13 DEF ClearUnloads, Goto, claims, caches, prompts, steering, requests, RunInv, RunTypes, Claimed, GuardAfterwards, Guarded
  <2> QED  BY <2>1, <2>2, <2>3, <2>4, <2>5, <2>6, AgentFrame
<1>14. ASSUME NEW p \in Runs, Finish(p) PROVE AgentInv'
  <2>1. UNCHANGED <<agent, made, loads>> /\ loads \in Nat
    BY <1>14 DEF Finish, Goto, claims, caches, prompts, steering, requests, RequestTypes
  <2>2. \A k \in Conns : loading'[k] = "register" => loading[k] = "register"
    BY <1>14 DEF Finish, Goto, claims, caches, prompts, steering, requests, RequestTypes
  <2>3. sessions' \in [Conns -> Versions \cup {0}] /\ managed' \in [Conns -> Versions \cup {0}]
    BY <1>14 DEF Finish, Goto, claims, caches, prompts, steering, requests, AgentInv, AgentTypes
  <2>4. \A q \in Runs : pc'[q] \in {"idle", "resolve"} => pc[q] \in {"idle", "resolve"}
    BY <1>14 DEF Finish, Goto, claims, caches, prompts, steering, requests, RunInv, RunTypes
  <2>5. \A q \in Runs : pc'[q] \in {"check", "claim"} => pc[q] \in {"check", "claim"}
    BY <1>14 DEF Finish, Goto, claims, caches, prompts, steering, requests, RunInv, RunTypes
  <2>6. \A q \in Runs : Claimed(q)' => Claimed(q) \/ pc[q] \in {"check", "claim"}
    BY <1>14 DEF Finish, Goto, claims, caches, prompts, steering, requests, RunInv, RunTypes, Claimed, GuardAfterwards, Guarded
  <2> QED  BY <2>1, <2>2, <2>3, <2>4, <2>5, <2>6, AgentFrame
<1>15. ASSUME NEW p \in Runs, Drain(p) PROVE AgentInv'
  <2>1. UNCHANGED <<sessions, managed, made, agent, loads, loading, pc, guard>>  BY <1>15 DEF Drain, Goto, Drained, Forwards, Reads, claims, caches, prompts, steering, requests
  <2> QED  BY <2>1 DEF AgentInv, AgentTypes, Counted, Due, Used, Unresolved, Equipped, Claimed
<1>16. ASSUME NEW p \in Runs, AskApproval(p) PROVE AgentInv'
  <2>1. UNCHANGED <<sessions, managed, made, agent, loads, loading, pc, guard>>  BY <1>16 DEF AskApproval, Goto, Forwards, claims, caches, prompts, steering, requests
  <2> QED  BY <2>1 DEF AgentInv, AgentTypes, Counted, Due, Used, Unresolved, Equipped, Claimed
<1>17. ASSUME NEW p \in Runs, AnswerApproval(p) PROVE AgentInv'
  <2>1. UNCHANGED <<sessions, managed, made, agent, loads, loading, pc, guard>>  BY <1>17 DEF AnswerApproval, Goto, Forwards, claims, caches, prompts, steering, requests
  <2> QED  BY <2>1 DEF AgentInv, AgentTypes, Counted, Due, Used, Unresolved, Equipped, Claimed
<1>18. ASSUME NEW p \in Runs, StreamEnds(p) PROVE AgentInv'
  <2>1. UNCHANGED <<agent, made, loads>> /\ loads \in Nat
    BY <1>18 DEF StreamEnds, Goto, Forwards, Reads, claims, caches, prompts, steering, requests, RequestTypes
  <2>2. \A k \in Conns : loading'[k] = "register" => loading[k] = "register"
    BY <1>18 DEF StreamEnds, Goto, Forwards, Reads, claims, caches, prompts, steering, requests, RequestTypes
  <2>3. sessions' \in [Conns -> Versions \cup {0}] /\ managed' \in [Conns -> Versions \cup {0}]
    BY <1>18 DEF StreamEnds, Goto, Forwards, Reads, claims, caches, prompts, steering, requests, AgentInv, AgentTypes
  <2>4. \A q \in Runs : pc'[q] \in {"idle", "resolve"} => pc[q] \in {"idle", "resolve"}
    BY <1>18 DEF StreamEnds, Goto, Forwards, Reads, claims, caches, prompts, steering, requests, RunInv, RunTypes
  <2>5. \A q \in Runs : pc'[q] \in {"check", "claim"} => pc[q] \in {"check", "claim"}
    BY <1>18 DEF StreamEnds, Goto, Forwards, Reads, claims, caches, prompts, steering, requests, RunInv, RunTypes
  <2>6. \A q \in Runs : Claimed(q)' => Claimed(q) \/ pc[q] \in {"check", "claim"}
    BY <1>18 DEF StreamEnds, Goto, Forwards, Reads, claims, caches, prompts, steering, requests, RunInv, RunTypes, Claimed, GuardAfterwards, Guarded
  <2> QED  BY <2>1, <2>2, <2>3, <2>4, <2>5, <2>6, AgentFrame
<1>19. ASSUME NEW p \in Runs, StreamFails(p) PROVE AgentInv'
  <2>1. UNCHANGED <<agent, made, loads>> /\ loads \in Nat
    BY <1>19 DEF StreamFails, Goto, claims, caches, prompts, steering, requests, RequestTypes
  <2>2. \A k \in Conns : loading'[k] = "register" => loading[k] = "register"
    BY <1>19 DEF StreamFails, Goto, claims, caches, prompts, steering, requests, RequestTypes
  <2>3. sessions' \in [Conns -> Versions \cup {0}] /\ managed' \in [Conns -> Versions \cup {0}]
    BY <1>19 DEF StreamFails, Goto, claims, caches, prompts, steering, requests, AgentInv, AgentTypes
  <2>4. \A q \in Runs : pc'[q] \in {"idle", "resolve"} => pc[q] \in {"idle", "resolve"}
    BY <1>19 DEF StreamFails, Goto, claims, caches, prompts, steering, requests, RunInv, RunTypes
  <2>5. \A q \in Runs : pc'[q] \in {"check", "claim"} => pc[q] \in {"check", "claim"}
    BY <1>19 DEF StreamFails, Goto, claims, caches, prompts, steering, requests, RunInv, RunTypes
  <2>6. \A q \in Runs : Claimed(q)' => Claimed(q) \/ pc[q] \in {"check", "claim"}
    BY <1>19 DEF StreamFails, Goto, claims, caches, prompts, steering, requests, RunInv, RunTypes, Claimed, GuardAfterwards, Guarded
  <2> QED  BY <2>1, <2>2, <2>3, <2>4, <2>5, <2>6, AgentFrame
<1>20. ASSUME NEW p \in Runs, GuardRemoves(p) PROVE AgentInv'
  <2>1. UNCHANGED <<agent, made, loads>> /\ loads \in Nat
    BY <1>20 DEF GuardRemoves, Goto, claims, caches, prompts, steering, requests, RequestTypes
  <2>2. \A k \in Conns : loading'[k] = "register" => loading[k] = "register"
    BY <1>20 DEF GuardRemoves, Goto, claims, caches, prompts, steering, requests, RequestTypes
  <2>3. sessions' \in [Conns -> Versions \cup {0}] /\ managed' \in [Conns -> Versions \cup {0}]
    BY <1>20 DEF GuardRemoves, Goto, claims, caches, prompts, steering, requests, AgentInv, AgentTypes
  <2>4. \A q \in Runs : pc'[q] \in {"idle", "resolve"} => pc[q] \in {"idle", "resolve"}
    BY <1>20 DEF GuardRemoves, Goto, claims, caches, prompts, steering, requests, RunInv, RunTypes
  <2>5. \A q \in Runs : pc'[q] \in {"check", "claim"} => pc[q] \in {"check", "claim"}
    BY <1>20 DEF GuardRemoves, Goto, claims, caches, prompts, steering, requests, RunInv, RunTypes
  <2>6. \A q \in Runs : Claimed(q)' => Claimed(q) \/ pc[q] \in {"check", "claim"}
    BY <1>20 DEF GuardRemoves, Goto, claims, caches, prompts, steering, requests, RunInv, RunTypes, Claimed, GuardAfterwards, Guarded
  <2> QED  BY <2>1, <2>2, <2>3, <2>4, <2>5, <2>6, AgentFrame
<1>21. ASSUME NEW p \in Runs, GuardDiscards(p) PROVE AgentInv'
  <2>1. UNCHANGED <<agent, made, loads>> /\ loads \in Nat
    BY <1>21 DEF GuardDiscards, Goto, DiscardPendingSteers, claims, caches, prompts, steering, requests, RequestTypes
  <2>2. \A k \in Conns : loading'[k] = "register" => loading[k] = "register"
    BY <1>21 DEF GuardDiscards, Goto, DiscardPendingSteers, claims, caches, prompts, steering, requests, RequestTypes
  <2>3. sessions' \in [Conns -> Versions \cup {0}] /\ managed' \in [Conns -> Versions \cup {0}]
    BY <1>21 DEF GuardDiscards, Goto, DiscardPendingSteers, claims, caches, prompts, steering, requests, AgentInv, AgentTypes
  <2>4. \A q \in Runs : pc'[q] \in {"idle", "resolve"} => pc[q] \in {"idle", "resolve"}
    BY <1>21 DEF GuardDiscards, Goto, DiscardPendingSteers, claims, caches, prompts, steering, requests, RunInv, RunTypes
  <2>5. \A q \in Runs : pc'[q] \in {"check", "claim"} => pc[q] \in {"check", "claim"}
    BY <1>21 DEF GuardDiscards, Goto, DiscardPendingSteers, claims, caches, prompts, steering, requests, RunInv, RunTypes
  <2>6. \A q \in Runs : Claimed(q)' => Claimed(q) \/ pc[q] \in {"check", "claim"}
    BY <1>21 DEF GuardDiscards, Goto, DiscardPendingSteers, claims, caches, prompts, steering, requests, RunInv, RunTypes, Claimed, GuardAfterwards, Guarded
  <2> QED  BY <2>1, <2>2, <2>3, <2>4, <2>5, <2>6, AgentFrame
<1>22. ASSUME NEW s \in Steers, NEW c \in Conns, NEW p \in Runs, RequireActiveRun(s, c, p) PROVE AgentInv'
  <2>1. UNCHANGED <<sessions, managed, made, agent, loads, loading, pc, guard>>  BY <1>22 DEF RequireActiveRun, Goto, claims, caches, prompts, steering, requests
  <2> QED  BY <2>1 DEF AgentInv, AgentTypes, Counted, Due, Used, Unresolved, Equipped, Claimed
<1>23. ASSUME NEW s \in Steers, Steer(s) PROVE AgentInv'
  <2>1. UNCHANGED <<sessions, managed, made, agent, loads, loading, pc, guard>>  BY <1>23 DEF Steer, Goto, claims, caches, prompts, steering, requests
  <2> QED  BY <2>1 DEF AgentInv, AgentTypes, Counted, Due, Used, Unresolved, Equipped, Claimed
<1>24. ASSUME Cancel PROVE AgentInv'
  <2>1. UNCHANGED <<sessions, managed, made, agent, loads, loading, pc, guard>>  BY <1>24 DEF Cancel, Goto, claims, caches, prompts, steering, requests
  <2> QED  BY <2>1 DEF AgentInv, AgentTypes, Counted, Due, Used, Unresolved, Equipped, Claimed
<1>25. ASSUME NEW c \in Conns, CloseMarks(c) PROVE AgentInv'
  <2>1. UNCHANGED <<sessions, managed, made, agent, loads, loading, pc, guard>>  BY <1>25 DEF CloseMarks, Goto, claims, caches, prompts, steering, requests
  <2> QED  BY <2>1 DEF AgentInv, AgentTypes, Counted, Due, Used, Unresolved, Equipped, Claimed
<1>26. ASSUME NEW c \in Conns, CloseCancels(c) PROVE AgentInv'
  <2>1. UNCHANGED <<sessions, managed, made, agent, loads, loading, pc, guard>>  BY <1>26 DEF CloseCancels, Goto, claims, caches, prompts, steering, requests
  <2> QED  BY <2>1 DEF AgentInv, AgentTypes, Counted, Due, Used, Unresolved, Equipped, Claimed
<1>27. ASSUME NEW c \in Conns, CloseUnlists(c) PROVE AgentInv'
  <2>1. UNCHANGED <<agent, made, loads>> /\ loads \in Nat
    BY <1>27 DEF CloseUnlists, Goto, claims, caches, prompts, steering, requests, RequestTypes
  <2>2. \A k \in Conns : loading'[k] = "register" => loading[k] = "register"
    BY <1>27 DEF CloseUnlists, Goto, claims, caches, prompts, steering, requests, RequestTypes
  <2>3. sessions' \in [Conns -> Versions \cup {0}] /\ managed' \in [Conns -> Versions \cup {0}]
    BY <1>27 DEF CloseUnlists, Goto, claims, caches, prompts, steering, requests, AgentInv, AgentTypes
  <2>4. \A q \in Runs : pc'[q] \in {"idle", "resolve"} => pc[q] \in {"idle", "resolve"}
    BY <1>27 DEF CloseUnlists, Goto, claims, caches, prompts, steering, requests, RunInv, RunTypes
  <2>5. \A q \in Runs : pc'[q] \in {"check", "claim"} => pc[q] \in {"check", "claim"}
    BY <1>27 DEF CloseUnlists, Goto, claims, caches, prompts, steering, requests, RunInv, RunTypes
  <2>6. \A q \in Runs : Claimed(q)' => Claimed(q) \/ pc[q] \in {"check", "claim"}
    BY <1>27 DEF CloseUnlists, Goto, claims, caches, prompts, steering, requests, RunInv, RunTypes, Claimed, GuardAfterwards, Guarded
  <2> QED  BY <2>1, <2>2, <2>3, <2>4, <2>5, <2>6, AgentFrame
<1>28. ASSUME NEW c \in Conns, CloseUnloads(c) PROVE AgentInv'
  <2>1. UNCHANGED <<agent, made, loads>> /\ loads \in Nat
    BY <1>28 DEF CloseUnloads, Goto, claims, caches, prompts, steering, requests, RequestTypes
  <2>2. \A k \in Conns : loading'[k] = "register" => loading[k] = "register"
    BY <1>28 DEF CloseUnloads, Goto, claims, caches, prompts, steering, requests, RequestTypes
  <2>3. sessions' \in [Conns -> Versions \cup {0}] /\ managed' \in [Conns -> Versions \cup {0}]
    BY <1>28 DEF CloseUnloads, Goto, claims, caches, prompts, steering, requests, AgentInv, AgentTypes
  <2>4. \A q \in Runs : pc'[q] \in {"idle", "resolve"} => pc[q] \in {"idle", "resolve"}
    BY <1>28 DEF CloseUnloads, Goto, claims, caches, prompts, steering, requests, RunInv, RunTypes
  <2>5. \A q \in Runs : pc'[q] \in {"check", "claim"} => pc[q] \in {"check", "claim"}
    BY <1>28 DEF CloseUnloads, Goto, claims, caches, prompts, steering, requests, RunInv, RunTypes
  <2>6. \A q \in Runs : Claimed(q)' => Claimed(q) \/ pc[q] \in {"check", "claim"}
    BY <1>28 DEF CloseUnloads, Goto, claims, caches, prompts, steering, requests, RunInv, RunTypes, Claimed, GuardAfterwards, Guarded
  <2> QED  BY <2>1, <2>2, <2>3, <2>4, <2>5, <2>6, AgentFrame
<1>29. ASSUME NEW c \in Conns, LoadPrepares(c) PROVE AgentInv'
  <2>1. UNCHANGED <<agent, made, sessions, pc, guard>> /\ loads' = loads + 1 /\ loads \in Nat
    BY <1>29 DEF LoadPrepares, claims, prompts, RequestTypes
  <2>2. managed' \in [Conns -> Versions \cup {0}]
    BY <1>29 DEF LoadPrepares, AgentInv, AgentTypes
  <2>3. AgentTypes' /\ Unresolved' /\ Equipped'
    BY <2>1, <2>2 DEF AgentInv, AgentTypes, Unresolved, Equipped, Claimed
  <2>4. ASSUME NEW k \in Conns PROVE (made[k] + Due(k) <= Cardinality(Used) + loads)'
    <3>1. made[k] \in Nat /\ Due(k) \in 0..1 /\ Due(k)' \in 0..1
      BY DEF AgentInv, AgentTypes, Versions, Due
    <3>2. made[k] + Due(k) <= Cardinality(Used) + loads
      BY DEF AgentInv, Counted
    <3>3. k = c => Due(k)' = 1 /\ Due(k) = 0
      BY <1>29 DEF LoadPrepares, Due, RequestTypes
    <3>4. k # c => Due(k)' = Due(k)
      BY <1>29 DEF LoadPrepares, Due, RequestTypes
    <3>5. Used' = Used /\ made'[k] = made[k]  BY <2>1 DEF Used
    <3>6. made[k] + Due(k)' <= Cardinality(Used) + (loads + 1)
      BY <3>1, <3>2, <3>3, <3>4, <2>1, UsedFinite
    <3> QED  BY <3>5, <3>6, <2>1
  <2> QED  BY <2>3, <2>4 DEF AgentInv, Counted
<1>30. ASSUME NEW c \in Conns, LoadRegisters(c) PROVE AgentInv'
  <2>1. UNCHANGED <<agent, pc, guard, loads>> /\ loads \in 0..MaxLoads /\ ActivateAcpSession(c)
    BY <1>30 DEF LoadRegisters, claims, prompts, RequestTypes
  <2>2. Used' = Used  BY <2>1 DEF Used
  <2>3. /\ made' \in [Conns -> Nat]
        /\ \A k \in Conns : made'[k] <= made[k] + 1
        /\ \A k \in Conns \ {c} : made'[k] = made[k]
    BY <2>1, Activated
  <2>4. ASSUME NEW k \in Conns PROVE (made[k] + Due(k) <= Cardinality(Used) + loads)'
    <3>1. made[k] \in Nat /\ Due(k) \in 0..1 /\ Due(k)' \in 0..1 /\ loads \in Nat
      BY <2>1, BoundsAssumption DEF AgentInv, AgentTypes, Versions, Due
    <3>2. made[k] + Due(k) <= Cardinality(Used) + loads
      BY DEF AgentInv, Counted
    <3>3. k = c => Due(k)' = 0 /\ Due(k) = 1
      BY <1>30 DEF LoadRegisters, Due, RequestTypes
    <3>4. k # c => Due(k)' = Due(k)
      BY <1>30 DEF LoadRegisters, Due, RequestTypes
    <3>5. made'[k] + Due(k)' <= Cardinality(Used) + loads
      BY <3>1, <3>2, <3>3, <3>4, <2>3, UsedFinite
    <3> QED  BY <3>5, <2>1, <2>2
  <2>5. \A k \in Conns : made'[k] \in Versions \cup {0}
    <3>1. \A k \in Conns : Due(k)' \in 0..1  BY DEF Due
    <3>2. ASSUME NEW k \in Conns PROVE made'[k] <= Cardinality(Runs) + MaxLoads
      <4>1. made'[k] + Due(k)' <= Cardinality(Used) + loads  BY <2>4, <2>1, <2>2
      <4> QED  BY <4>1, <3>1, <2>1, <2>3, UsedFinite, BoundsAssumption
    <3> QED  BY <3>2, <2>3, UsedFinite, BoundsAssumption DEF Versions
  <2>7. made' \in [Conns -> Versions \cup {0}]  BY <2>3, <2>5
  <2>8. AgentTypes'
    BY <2>1, <2>5, <2>7, Activated DEF AgentInv, AgentTypes
  <2>9. Unresolved' /\ Equipped'
    BY <2>1 DEF AgentInv, Unresolved, Equipped, Claimed
  <2> QED  BY <2>4, <2>8, <2>9 DEF AgentInv, Counted
<1>31. ASSUME NEW c \in Conns, LoadReloads(c) PROVE AgentInv'
  <2>1. UNCHANGED <<agent, made, loads>> /\ loads \in Nat
    BY <1>31 DEF LoadReloads, Goto, claims, caches, prompts, steering, requests, RequestTypes
  <2>2. \A k \in Conns : loading'[k] = "register" => loading[k] = "register"
    BY <1>31 DEF LoadReloads, Goto, claims, caches, prompts, steering, requests, RequestTypes
  <2>3. sessions' \in [Conns -> Versions \cup {0}] /\ managed' \in [Conns -> Versions \cup {0}]
    BY <1>31 DEF LoadReloads, Goto, claims, caches, prompts, steering, requests, AgentInv, AgentTypes
  <2>4. \A q \in Runs : pc'[q] \in {"idle", "resolve"} => pc[q] \in {"idle", "resolve"}
    BY <1>31 DEF LoadReloads, Goto, claims, caches, prompts, steering, requests, RunInv, RunTypes
  <2>5. \A q \in Runs : pc'[q] \in {"check", "claim"} => pc[q] \in {"check", "claim"}
    BY <1>31 DEF LoadReloads, Goto, claims, caches, prompts, steering, requests, RunInv, RunTypes
  <2>6. \A q \in Runs : Claimed(q)' => Claimed(q) \/ pc[q] \in {"check", "claim"}
    BY <1>31 DEF LoadReloads, Goto, claims, caches, prompts, steering, requests, RunInv, RunTypes, Claimed, GuardAfterwards, Guarded
  <2> QED  BY <2>1, <2>2, <2>3, <2>4, <2>5, <2>6, AgentFrame
<1>32. ASSUME NEW c \in Conns, LoadOpens(c) PROVE AgentInv'
  <2>1. UNCHANGED <<agent, made, loads>> /\ loads \in Nat
    BY <1>32 DEF LoadOpens, Goto, claims, caches, prompts, steering, requests, RequestTypes
  <2>2. \A k \in Conns : loading'[k] = "register" => loading[k] = "register"
    BY <1>32 DEF LoadOpens, Goto, claims, caches, prompts, steering, requests, RequestTypes
  <2>3. sessions' \in [Conns -> Versions \cup {0}] /\ managed' \in [Conns -> Versions \cup {0}]
    BY <1>32 DEF LoadOpens, Goto, claims, caches, prompts, steering, requests, AgentInv, AgentTypes
  <2>4. \A q \in Runs : pc'[q] \in {"idle", "resolve"} => pc[q] \in {"idle", "resolve"}
    BY <1>32 DEF LoadOpens, Goto, claims, caches, prompts, steering, requests, RunInv, RunTypes
  <2>5. \A q \in Runs : pc'[q] \in {"check", "claim"} => pc[q] \in {"check", "claim"}
    BY <1>32 DEF LoadOpens, Goto, claims, caches, prompts, steering, requests, RunInv, RunTypes
  <2>6. \A q \in Runs : Claimed(q)' => Claimed(q) \/ pc[q] \in {"check", "claim"}
    BY <1>32 DEF LoadOpens, Goto, claims, caches, prompts, steering, requests, RunInv, RunTypes, Claimed, GuardAfterwards, Guarded
  <2> QED  BY <2>1, <2>2, <2>3, <2>4, <2>5, <2>6, AgentFrame
<1>33. ASSUME NEW c \in Conns, ConnectionLost(c) PROVE AgentInv'
  <2>1. UNCHANGED <<agent, made, loads>> /\ loads \in Nat
    BY <1>33 DEF ConnectionLost, Goto, claims, caches, prompts, steering, requests, RequestTypes
  <2>2. \A k \in Conns : loading'[k] = "register" => loading[k] = "register"
    BY <1>33 DEF ConnectionLost, Goto, claims, caches, prompts, steering, requests, RequestTypes
  <2>3. sessions' \in [Conns -> Versions \cup {0}] /\ managed' \in [Conns -> Versions \cup {0}]
    BY <1>33 DEF ConnectionLost, Goto, claims, caches, prompts, steering, requests, AgentInv, AgentTypes
  <2>4. \A q \in Runs : pc'[q] \in {"idle", "resolve"} => pc[q] \in {"idle", "resolve"}
    BY <1>33 DEF ConnectionLost, Goto, claims, caches, prompts, steering, requests, RunInv, RunTypes
  <2>5. \A q \in Runs : pc'[q] \in {"check", "claim"} => pc[q] \in {"check", "claim"}
    BY <1>33 DEF ConnectionLost, Goto, claims, caches, prompts, steering, requests, RunInv, RunTypes
  <2>6. \A q \in Runs : Claimed(q)' => Claimed(q) \/ pc[q] \in {"check", "claim"}
    BY <1>33 DEF ConnectionLost, Goto, claims, caches, prompts, steering, requests, RunInv, RunTypes, Claimed, GuardAfterwards, Guarded
  <2> QED  BY <2>1, <2>2, <2>3, <2>4, <2>5, <2>6, AgentFrame
<1>34. CASE UNCHANGED vars
  BY <1>34 DEF vars, claims, caches, prompts, steering, requests, AgentInv, AgentTypes, Counted, Due, Used, Unresolved, Equipped, Claimed
<1> QED
  BY <1>1, <1>2, <1>3, <1>4, <1>5, <1>6, <1>7, <1>8, <1>9, <1>10, <1>11, <1>12, <1>13, <1>14, <1>15, <1>16, <1>17, <1>18, <1>19, <1>20, <1>21, <1>22, <1>23, <1>24, <1>25, <1>26, <1>27, <1>28, <1>29, <1>30, <1>31, <1>32, <1>33, <1>34
  DEF Next, HandlerStep, StreamStep, GuardStep, CloseStep, LoadStep

\* Steers stay in the queues of the agent they were routed to.
LEMMA SteerStep ==
  ASSUME RunInv, AgentInv, SteerInv, [Next]_vars
  PROVE  SteerInv'
<1>1. ASSUME NEW p \in Runs, NEW c \in Conns, Prompt(p, c) PROVE SteerInv'
  <2>1. UNCHANGED steering
    BY <1>1 DEF Prompt, Goto, claims, caches, prompts, steering, requests
  <2>2. \A q \in Runs : Claimed(q) => Claimed(q)' /\ on'[q] = on[q] /\ agent'[q] = agent[q]
    BY <1>1 DEF Prompt, Goto, claims, caches, prompts, steering, requests, RunInv, RunTypes, GuardAfterwards, Guarded, AgentInv, AgentTypes, Claimed
  <2>3. Registered'
    BY <1>1, <2>2, NoneAssumption DEF Prompt, Goto, claims, caches, prompts, steering, requests, RunInv, RunTypes, SteerInv, Registered, Claimed
  <2> QED  BY <2>1, <2>2, <2>3, SteerFrame
<1>2. ASSUME NEW p \in Runs, Resolve(p) PROVE SteerInv'
  <2>1. UNCHANGED steering
    BY <1>2 DEF Resolve, Goto, ActivateAcpSession, claims, caches, prompts, steering, requests
  <2>2. \A q \in Runs : Claimed(q) => Claimed(q)' /\ on'[q] = on[q] /\ agent'[q] = agent[q]
    BY <1>2 DEF Resolve, Goto, ActivateAcpSession, claims, caches, prompts, steering, requests, RunInv, RunTypes, GuardAfterwards, Guarded, AgentInv, AgentTypes, Claimed
  <2>3. Registered'
    BY <1>2, <2>2, NoneAssumption DEF Resolve, Goto, ActivateAcpSession, claims, caches, prompts, steering, requests, RunInv, RunTypes, SteerInv, Registered, Claimed
  <2> QED  BY <2>1, <2>2, <2>3, SteerFrame
<1>3. ASSUME NEW p \in Runs, StartCheck(p) PROVE SteerInv'
  <2>1. UNCHANGED steering
    BY <1>3 DEF StartCheck, Goto, claims, caches, prompts, steering, requests
  <2>2. \A q \in Runs : Claimed(q) => Claimed(q)' /\ on'[q] = on[q] /\ agent'[q] = agent[q]
    BY <1>3 DEF StartCheck, Goto, claims, caches, prompts, steering, requests, RunInv, RunTypes, GuardAfterwards, Guarded, AgentInv, AgentTypes, Claimed
  <2>3. Registered'
    BY <1>3, <2>2, NoneAssumption DEF StartCheck, Goto, claims, caches, prompts, steering, requests, RunInv, RunTypes, SteerInv, Registered, Claimed
  <2> QED  BY <2>1, <2>2, <2>3, SteerFrame
<1>4. ASSUME NEW p \in Runs, StartRefused(p) PROVE SteerInv'
  <2>1. UNCHANGED steering
    BY <1>4 DEF StartRefused, Goto, claims, caches, prompts, steering, requests
  <2>2. \A q \in Runs : Claimed(q) => Claimed(q)' /\ on'[q] = on[q] /\ agent'[q] = agent[q]
    BY <1>4 DEF StartRefused, Goto, claims, caches, prompts, steering, requests, RunInv, RunTypes, GuardAfterwards, Guarded, AgentInv, AgentTypes, Claimed
  <2>3. Registered'
    BY <1>4, <2>2, NoneAssumption DEF StartRefused, Goto, claims, caches, prompts, steering, requests, RunInv, RunTypes, SteerInv, Registered, Claimed
  <2> QED  BY <2>1, <2>2, <2>3, SteerFrame
<1>5. ASSUME NEW p \in Runs, StartClaim(p) PROVE SteerInv'
  <2>1. UNCHANGED steering
    BY <1>5 DEF StartClaim, Goto, claims, caches, prompts, steering, requests
  <2>2. \A q \in Runs : Claimed(q) => Claimed(q)' /\ on'[q] = on[q] /\ agent'[q] = agent[q]
    BY <1>5 DEF StartClaim, Goto, claims, caches, prompts, steering, requests, RunInv, RunTypes, GuardAfterwards, Guarded, AgentInv, AgentTypes, Claimed
  <2>3. Registered'
    BY <1>5, <2>2, NoneAssumption DEF StartClaim, Goto, claims, caches, prompts, steering, requests, RunInv, RunTypes, SteerInv, Registered, Claimed
  <2> QED  BY <2>1, <2>2, <2>3, SteerFrame
<1>6. ASSUME NEW p \in Runs, PromptFails(p) PROVE SteerInv'
  <2>1. UNCHANGED steering
    BY <1>6 DEF PromptFails, Goto, claims, caches, prompts, steering, requests
  <2>2. \A q \in Runs : Claimed(q) => Claimed(q)' /\ on'[q] = on[q] /\ agent'[q] = agent[q]
    BY <1>6 DEF PromptFails, Goto, claims, caches, prompts, steering, requests, RunInv, RunTypes, GuardAfterwards, Guarded, AgentInv, AgentTypes, Claimed
  <2>3. Registered'
    BY <1>6, <2>2, NoneAssumption DEF PromptFails, Goto, claims, caches, prompts, steering, requests, RunInv, RunTypes, SteerInv, Registered, Claimed
  <2> QED  BY <2>1, <2>2, <2>3, SteerFrame
<1>7. ASSUME NEW p \in Runs, PromptStreams(p) PROVE SteerInv'
  <2>1. UNCHANGED steering
    BY <1>7 DEF PromptStreams, Goto, claims, caches, prompts, steering, requests
  <2>2. \A q \in Runs : Claimed(q) => Claimed(q)' /\ on'[q] = on[q] /\ agent'[q] = agent[q]
    BY <1>7 DEF PromptStreams, Goto, claims, caches, prompts, steering, requests, RunInv, RunTypes, GuardAfterwards, Guarded, AgentInv, AgentTypes, Claimed
  <2>3. Registered'
    BY <1>7, <2>2, NoneAssumption DEF PromptStreams, Goto, claims, caches, prompts, steering, requests, RunInv, RunTypes, SteerInv, Registered, Claimed
  <2> QED  BY <2>1, <2>2, <2>3, SteerFrame
<1>8. ASSUME NEW p \in Runs, StreamStopped(p) PROVE SteerInv'
  <2>1. UNCHANGED steering
    BY <1>8 DEF StreamStopped, Goto, claims, caches, prompts, steering, requests
  <2>2. \A q \in Runs : Claimed(q) => Claimed(q)' /\ on'[q] = on[q] /\ agent'[q] = agent[q]
    BY <1>8 DEF StreamStopped, Goto, claims, caches, prompts, steering, requests, RunInv, RunTypes, GuardAfterwards, Guarded, AgentInv, AgentTypes, Claimed
  <2>3. Registered'
    BY <1>8, <2>2, NoneAssumption DEF StreamStopped, Goto, claims, caches, prompts, steering, requests, RunInv, RunTypes, SteerInv, Registered, Claimed
  <2> QED  BY <2>1, <2>2, <2>3, SteerFrame
<1>9. ASSUME NEW p \in Runs, ClearActiveRun(p) PROVE SteerInv'
  <2>1. UNCHANGED steering
    BY <1>9 DEF ClearActiveRun, Goto, claims, caches, prompts, steering, requests
  <2>2. \A q \in Runs : Claimed(q) => Claimed(q)' /\ on'[q] = on[q] /\ agent'[q] = agent[q]
    BY <1>9 DEF ClearActiveRun, Goto, claims, caches, prompts, steering, requests, RunInv, RunTypes, GuardAfterwards, Guarded, AgentInv, AgentTypes, Claimed
  <2>3. Registered'
    BY <1>9, <2>2, NoneAssumption DEF ClearActiveRun, Goto, claims, caches, prompts, steering, requests, RunInv, RunTypes, SteerInv, Registered, Claimed
  <2> QED  BY <2>1, <2>2, <2>3, SteerFrame
<1>10. ASSUME NEW p \in Runs, ClearDiscards(p) PROVE SteerInv'
  <2>1. on[p] \in Conns /\ agent[p] \in Versions
    BY <1>10 DEF ClearDiscards, RunInv, RunTypes, Placed, GuardAfterwards, Guarded, AgentInv, Equipped, Claimed
  <2>2. DiscardPendingSteers(on[p], agent[p]) /\ UNCHANGED <<on, agent, registry>>
    BY <1>10 DEF ClearDiscards, prompts, claims
  <2>3. \A q \in Runs : Claimed(q) => Claimed(q)'
    BY <1>10 DEF ClearDiscards, claims, RunInv, RunTypes, Claimed
  <2>4. Registered'  BY <2>2, <2>3 DEF SteerInv, Registered
  <2> QED  BY <2>1, <2>2, <2>3, <2>4, SteerDiscard
<1>11. ASSUME NEW p \in Runs, ClearReaps(p) PROVE SteerInv'
  <2>1. UNCHANGED steering
    BY <1>11 DEF ClearReaps, Goto, claims, caches, prompts, steering, requests
  <2>2. \A q \in Runs : Claimed(q) => Claimed(q)' /\ on'[q] = on[q] /\ agent'[q] = agent[q]
    BY <1>11 DEF ClearReaps, Goto, claims, caches, prompts, steering, requests, RunInv, RunTypes, GuardAfterwards, Guarded, AgentInv, AgentTypes, Claimed
  <2>3. Registered'
    BY <1>11, <2>2, NoneAssumption DEF ClearReaps, Goto, claims, caches, prompts, steering, requests, RunInv, RunTypes, SteerInv, Registered, Claimed
  <2> QED  BY <2>1, <2>2, <2>3, SteerFrame
<1>12. ASSUME NEW p \in Runs, ClearUnlists(p) PROVE SteerInv'
  <2>1. UNCHANGED steering
    BY <1>12 DEF ClearUnlists, Goto, claims, caches, prompts, steering, requests
  <2>2. \A q \in Runs : Claimed(q) => Claimed(q)' /\ on'[q] = on[q] /\ agent'[q] = agent[q]
    BY <1>12 DEF ClearUnlists, Goto, claims, caches, prompts, steering, requests, RunInv, RunTypes, GuardAfterwards, Guarded, AgentInv, AgentTypes, Claimed
  <2>3. Registered'
    BY <1>12, <2>2, NoneAssumption DEF ClearUnlists, Goto, claims, caches, prompts, steering, requests, RunInv, RunTypes, SteerInv, Registered, Claimed
  <2> QED  BY <2>1, <2>2, <2>3, SteerFrame
<1>13. ASSUME NEW p \in Runs, ClearUnloads(p) PROVE SteerInv'
  <2>1. UNCHANGED steering
    BY <1>13 DEF ClearUnloads, Goto, claims, caches, prompts, steering, requests
  <2>2. \A q \in Runs : Claimed(q) => Claimed(q)' /\ on'[q] = on[q] /\ agent'[q] = agent[q]
    BY <1>13 DEF ClearUnloads, Goto, claims, caches, prompts, steering, requests, RunInv, RunTypes, GuardAfterwards, Guarded, AgentInv, AgentTypes, Claimed
  <2>3. Registered'
    BY <1>13, <2>2, NoneAssumption DEF ClearUnloads, Goto, claims, caches, prompts, steering, requests, RunInv, RunTypes, SteerInv, Registered, Claimed
  <2> QED  BY <2>1, <2>2, <2>3, SteerFrame
<1>14. ASSUME NEW p \in Runs, Finish(p) PROVE SteerInv'
  <2>1. UNCHANGED steering
    BY <1>14 DEF Finish, Goto, claims, caches, prompts, steering, requests
  <2>2. \A q \in Runs : Claimed(q) => Claimed(q)' /\ on'[q] = on[q] /\ agent'[q] = agent[q]
    BY <1>14 DEF Finish, Goto, claims, caches, prompts, steering, requests, RunInv, RunTypes, GuardAfterwards, Guarded, AgentInv, AgentTypes, Claimed
  <2>3. Registered'
    BY <1>14, <2>2, NoneAssumption DEF Finish, Goto, claims, caches, prompts, steering, requests, RunInv, RunTypes, SteerInv, Registered, Claimed
  <2> QED  BY <2>1, <2>2, <2>3, SteerFrame
<1>15. ASSUME NEW p \in Runs, Drain(p) PROVE SteerInv'
  <2>1. Claimed(p) /\ on[p] \in Conns /\ agent[p] \in Versions
    BY <1>15 DEF Drain, Forwards, RunInv, RunTypes, Placed, GuardAfterwards, Guarded, AgentInv, Equipped,
             Claimed
  <2>2. UNCHANGED <<on, agent, registry, guard, detached, steer, by, expected>>
    BY <1>15 DEF Drain, prompts, claims
  <2>3. \A s \in Reads(p) : /\ s \in Steers /\ expected[s] \in Runs
                            /\ on[expected[s]] = on[p] /\ agent[expected[s]] = agent[p]
    BY <2>1 DEF Reads, SteerInv, SteerTypes, Routed
  <2>4. /\ queue' \in [Conns -> [Versions -> SUBSET Steers]] /\ orphan' \in [Runs -> SUBSET Steers]
        /\ \A k \in Conns, u \in Versions : queue'[k][u] \subseteq queue[k][u]
        /\ \A q \in Runs : orphan'[q] \subseteq orphan[q]
    <3>1. CASE p \in detached
      BY <1>15, <3>1 DEF Drain, Drained, SteerInv, SteerTypes
    <3>2. CASE p \notin detached
      <4>1. queue' = [queue EXCEPT ![on[p]][agent[p]] = {}] /\ orphan' = orphan
        BY <1>15, <3>2 DEF Drain, Drained
      <4> QED  BY <2>1, <4>1 DEF SteerInv, SteerTypes
    <3> QED  BY <3>1, <3>2
  <2>7. pickedUp' = [s \in Steers |-> IF s \in Reads(p) THEN p ELSE pickedUp[s]]
    BY <1>15 DEF Drain
  <2>8. SteerTypes'
    BY <2>2, <2>4, <2>7 DEF SteerInv, SteerTypes
  <2>9. Registered' /\ Named'
    BY <2>2 DEF SteerInv, Registered, Named, Claimed
  <2>10. \A s \in Steers : pickedUp'[s] \in Runs =>
           /\ expected[s] \in Runs /\ Claimed(pickedUp'[s])
           /\ on[expected[s]] = on[pickedUp'[s]] /\ agent[expected[s]] = agent[pickedUp'[s]]
    BY <2>1, <2>3, <2>7 DEF SteerInv, Routed
  <2>11. Routed'
    BY <2>2, <2>4, <2>10 DEF SteerInv, Routed, Claimed
  <2> QED  BY <2>8, <2>9, <2>11 DEF SteerInv
<1>16. ASSUME NEW p \in Runs, AskApproval(p) PROVE SteerInv'
  <2>1. UNCHANGED <<detached, queue, orphan, steer, by, expected, pickedUp, registry, guard, on, agent>>  BY <1>16 DEF AskApproval, Goto, Forwards, claims, caches, prompts, steering, requests
  <2> QED  BY <2>1 DEF SteerInv, SteerTypes, Registered, Named, Routed, Claimed
<1>17. ASSUME NEW p \in Runs, AnswerApproval(p) PROVE SteerInv'
  <2>1. /\ detached' = detached \ {p} \/ detached' = detached
        /\ orphan' = [orphan EXCEPT ![p] = {}] \/ orphan' = orphan
        /\ UNCHANGED <<queue, steer, by, expected, pickedUp, registry, guard, on, agent>>
    BY <1>17 DEF AnswerApproval, Forwards, claims, prompts
  <2>2. /\ detached' \subseteq Runs /\ orphan' \in [Runs -> SUBSET Steers]
        /\ \A q \in Runs : orphan'[q] \subseteq orphan[q]
    BY <2>1 DEF SteerInv, SteerTypes
  <2>3. SteerTypes' /\ Registered' /\ Named'
    BY <2>1, <2>2 DEF SteerInv, SteerTypes, Registered, Named, Claimed
  <2>4. Routed'
    BY <2>1, <2>2 DEF SteerInv, Routed, Claimed
  <2> QED  BY <2>3, <2>4 DEF SteerInv
<1>18. ASSUME NEW p \in Runs, StreamEnds(p) PROVE SteerInv'
  <2>1. UNCHANGED steering
    BY <1>18 DEF StreamEnds, Goto, Forwards, Reads, claims, caches, prompts, steering, requests
  <2>2. \A q \in Runs : Claimed(q) => Claimed(q)' /\ on'[q] = on[q] /\ agent'[q] = agent[q]
    BY <1>18 DEF StreamEnds, Goto, Forwards, Reads, claims, caches, prompts, steering, requests, RunInv, RunTypes, GuardAfterwards, Guarded, AgentInv, AgentTypes, Claimed
  <2>3. Registered'
    BY <1>18, <2>2, NoneAssumption DEF StreamEnds, Goto, Forwards, Reads, claims, caches, prompts, steering, requests, RunInv, RunTypes, SteerInv, Registered, Claimed
  <2> QED  BY <2>1, <2>2, <2>3, SteerFrame
<1>19. ASSUME NEW p \in Runs, StreamFails(p) PROVE SteerInv'
  <2>1. UNCHANGED steering
    BY <1>19 DEF StreamFails, Goto, claims, caches, prompts, steering, requests
  <2>2. \A q \in Runs : Claimed(q) => Claimed(q)' /\ on'[q] = on[q] /\ agent'[q] = agent[q]
    BY <1>19 DEF StreamFails, Goto, claims, caches, prompts, steering, requests, RunInv, RunTypes, GuardAfterwards, Guarded, AgentInv, AgentTypes, Claimed
  <2>3. Registered'
    BY <1>19, <2>2, NoneAssumption DEF StreamFails, Goto, claims, caches, prompts, steering, requests, RunInv, RunTypes, SteerInv, Registered, Claimed
  <2> QED  BY <2>1, <2>2, <2>3, SteerFrame
<1>20. ASSUME NEW p \in Runs, GuardRemoves(p) PROVE SteerInv'
  <2>1. UNCHANGED steering
    BY <1>20 DEF GuardRemoves, Goto, claims, caches, prompts, steering, requests
  <2>2. \A q \in Runs : Claimed(q) => Claimed(q)' /\ on'[q] = on[q] /\ agent'[q] = agent[q]
    BY <1>20 DEF GuardRemoves, Goto, claims, caches, prompts, steering, requests, RunInv, RunTypes, GuardAfterwards, Guarded, AgentInv, AgentTypes, Claimed
  <2>3. Registered'
    BY <1>20, <2>2, NoneAssumption DEF GuardRemoves, Goto, claims, caches, prompts, steering, requests, RunInv, RunTypes, SteerInv, Registered, Claimed
  <2> QED  BY <2>1, <2>2, <2>3, SteerFrame
<1>21. ASSUME NEW p \in Runs, GuardDiscards(p) PROVE SteerInv'
  <2>1. on[p] \in Conns /\ agent[p] \in Versions
    BY <1>21 DEF GuardDiscards, RunInv, RunTypes, Placed, GuardAfterwards, Guarded, AgentInv, Equipped, Claimed
  <2>2. DiscardPendingSteers(on[p], agent[p]) /\ UNCHANGED <<on, agent, registry>>
    BY <1>21 DEF GuardDiscards, prompts, claims
  <2>3. \A q \in Runs : Claimed(q) => Claimed(q)'
    BY <1>21 DEF GuardDiscards, claims, RunInv, RunTypes, Claimed
  <2>4. Registered'  BY <2>2, <2>3 DEF SteerInv, Registered
  <2> QED  BY <2>1, <2>2, <2>3, <2>4, SteerDiscard
<1>22. ASSUME NEW s \in Steers, NEW c \in Conns, NEW p \in Runs, RequireActiveRun(s, c, p) PROVE SteerInv'
  BY <1>22, NoneAssumption DEF RequireActiveRun, Goto, claims, caches, prompts, steering, requests, SteerInv, SteerTypes, Registered, Named, Routed, Claimed
<1>23. ASSUME NEW s \in Steers, Steer(s) PROVE SteerInv'
  <2> DEFINE p == expected[s]
  <2>1. p \in Runs /\ Claimed(p)
    BY <1>23 DEF Steer, SteerInv, Named
  <2>2. on[p] \in Conns /\ agent[p] \in Versions
    BY <2>1 DEF RunInv, RunTypes, Placed, GuardAfterwards, Guarded, AgentInv, Equipped, Claimed
  <2>3. UNCHANGED <<on, agent, registry, guard, detached, orphan, expected, pickedUp>>
    BY <1>23 DEF Steer, prompts, claims
  <2>4. queue' = [queue EXCEPT ![on[p]][agent[p]] = queue[on[p]][agent[p]] \cup {s}]
    BY <1>23 DEF Steer
  <2>5. queue' \in [Conns -> [Versions -> SUBSET Steers]]
    BY <2>2, <2>4 DEF SteerInv, SteerTypes
  <2>6. \A k \in Conns, u \in Versions : \A t \in queue'[k][u] :
          t \in queue[k][u] \/ (t = s /\ k = on[p] /\ u = agent[p])
    BY <2>2, <2>4 DEF SteerInv, SteerTypes
  <2>7. steer' = [steer EXCEPT ![s] = "queued"]
    BY <1>23 DEF Steer
  <2>12. by' \in [Steers -> Conns \cup {None}]
    BY <1>23 DEF Steer, SteerInv, SteerTypes
  <2>8. SteerTypes'
    BY <2>3, <2>5, <2>7, <2>12 DEF SteerInv, SteerTypes
  <2>9. Registered' /\ Named'
    BY <2>3, <2>7 DEF SteerInv, SteerTypes, Registered, Named, Claimed
  <2>10. \A k \in Conns, u \in Versions : \A t \in queue'[k][u] :
           expected[t] \in Runs /\ on[expected[t]] = k /\ agent[expected[t]] = u
    BY <2>1, <2>6 DEF SteerInv, Routed
  <2>11. Routed'
    BY <2>3, <2>10 DEF SteerInv, Routed, Claimed
  <2> QED  BY <2>8, <2>9, <2>11 DEF SteerInv
<1>24. ASSUME Cancel PROVE SteerInv'
  <2>1. UNCHANGED <<detached, queue, orphan, steer, by, expected, pickedUp, registry, guard, on, agent>>  BY <1>24 DEF Cancel, Goto, claims, caches, prompts, steering, requests
  <2> QED  BY <2>1 DEF SteerInv, SteerTypes, Registered, Named, Routed, Claimed
<1>25. ASSUME NEW c \in Conns, CloseMarks(c) PROVE SteerInv'
  <2>1. UNCHANGED <<detached, queue, orphan, steer, by, expected, pickedUp, registry, guard, on, agent>>  BY <1>25 DEF CloseMarks, Goto, claims, caches, prompts, steering, requests
  <2> QED  BY <2>1 DEF SteerInv, SteerTypes, Registered, Named, Routed, Claimed
<1>26. ASSUME NEW c \in Conns, CloseCancels(c) PROVE SteerInv'
  <2>1. UNCHANGED <<detached, queue, orphan, steer, by, expected, pickedUp, registry, guard, on, agent>>  BY <1>26 DEF CloseCancels, Goto, claims, caches, prompts, steering, requests
  <2> QED  BY <2>1 DEF SteerInv, SteerTypes, Registered, Named, Routed, Claimed
<1>27. ASSUME NEW c \in Conns, CloseUnlists(c) PROVE SteerInv'
  <2>1. UNCHANGED <<detached, queue, orphan, steer, by, expected, pickedUp, registry, guard, on, agent>>  BY <1>27 DEF CloseUnlists, Goto, claims, caches, prompts, steering, requests
  <2> QED  BY <2>1 DEF SteerInv, SteerTypes, Registered, Named, Routed, Claimed
<1>28. ASSUME NEW c \in Conns, CloseUnloads(c) PROVE SteerInv'
  <2>1. UNCHANGED <<detached, queue, orphan, steer, by, expected, pickedUp, registry, guard, on, agent>>  BY <1>28 DEF CloseUnloads, Goto, claims, caches, prompts, steering, requests
  <2> QED  BY <2>1 DEF SteerInv, SteerTypes, Registered, Named, Routed, Claimed
<1>29. ASSUME NEW c \in Conns, LoadPrepares(c) PROVE SteerInv'
  <2>1. UNCHANGED <<detached, queue, orphan, steer, by, expected, pickedUp, registry, guard, on, agent>>  BY <1>29 DEF LoadPrepares, Goto, claims, caches, prompts, steering, requests
  <2> QED  BY <2>1 DEF SteerInv, SteerTypes, Registered, Named, Routed, Claimed
<1>30. ASSUME NEW c \in Conns, LoadRegisters(c) PROVE SteerInv'
  <2>1. UNCHANGED <<detached, queue, orphan, steer, by, expected, pickedUp, registry, guard, on, agent>>  BY <1>30 DEF LoadRegisters, Goto, ActivateAcpSession, claims, caches, prompts, steering, requests
  <2> QED  BY <2>1 DEF SteerInv, SteerTypes, Registered, Named, Routed, Claimed
<1>31. ASSUME NEW c \in Conns, LoadReloads(c) PROVE SteerInv'
  <2>1. UNCHANGED <<detached, queue, orphan, steer, by, expected, pickedUp, registry, guard, on, agent>>  BY <1>31 DEF LoadReloads, Goto, claims, caches, prompts, steering, requests
  <2> QED  BY <2>1 DEF SteerInv, SteerTypes, Registered, Named, Routed, Claimed
<1>32. ASSUME NEW c \in Conns, LoadOpens(c) PROVE SteerInv'
  <2>1. UNCHANGED <<detached, queue, orphan, steer, by, expected, pickedUp, registry, guard, on, agent>>  BY <1>32 DEF LoadOpens, Goto, claims, caches, prompts, steering, requests
  <2> QED  BY <2>1 DEF SteerInv, SteerTypes, Registered, Named, Routed, Claimed
<1>33. ASSUME NEW c \in Conns, ConnectionLost(c) PROVE SteerInv'
  BY <1>33, NoneAssumption DEF ConnectionLost, Goto, claims, caches, prompts, steering, requests, SteerInv, SteerTypes, Registered, Named, Routed, Claimed
<1>34. CASE UNCHANGED vars
  BY <1>34 DEF vars, claims, caches, prompts, steering, requests, SteerInv, SteerTypes, Registered, Named, Routed, Claimed
<1> QED
  BY <1>1, <1>2, <1>3, <1>4, <1>5, <1>6, <1>7, <1>8, <1>9, <1>10, <1>11, <1>12, <1>13, <1>14, <1>15, <1>16, <1>17, <1>18, <1>19, <1>20, <1>21, <1>22, <1>23, <1>24, <1>25, <1>26, <1>27, <1>28, <1>29, <1>30, <1>31, <1>32, <1>33, <1>34
  DEF Next, HandlerStep, StreamStep, GuardStep, CloseStep, LoadStep

-----------------------------------------------------------------------------

LEMMA InitHolds == Init => IInv
<1> SUFFICES ASSUME Init PROVE IInv
  OBVIOUS
<1>1. RunInv
  BY NoneAssumption DEF Init, RunInv, RunTypes, Holder, GuardAfterwards, Placed, Guarded, Holding
<1>2. RequestTypes
  BY BoundsAssumption DEF Init, RequestTypes
<1>3. AgentInv
  <2>1. AgentTypes /\ Unresolved /\ Equipped
    BY DEF Init, AgentTypes, Unresolved, Equipped, Claimed
  <2>2. \A c \in Conns : made[c] = 0 /\ Due(c) = 0 /\ loads = 0
    BY DEF Init, Due
  <2>3. Counted
    BY <2>2, UsedFinite DEF Counted
  <2> QED  BY <2>1, <2>3 DEF AgentInv
<1>4. SteerInv
  <2>1. SteerTypes
    BY DEF Init, SteerTypes
  <2>2. Registered /\ Named
    BY NoneAssumption DEF Init, Registered, Named
  <2>3. Routed
    BY NoneAssumption DEF Init, Routed
  <2> QED  BY <2>1, <2>2, <2>3 DEF SteerInv
<1> QED  BY <1>1, <1>2, <1>3, <1>4 DEF IInv

LEMMA IInvHolds == Spec => []IInv
<1>1. IInv /\ [Next]_vars => IInv'
  <2> SUFFICES ASSUME IInv, [Next]_vars PROVE IInv'
    OBVIOUS
  <2>1. RunInv'  BY RunStep DEF IInv
  <2>2. RequestTypes'  BY RequestStep, BoundsAssumption DEF IInv
  <2>3. AgentInv'  BY <2>2, AgentStep DEF IInv
  <2>4. SteerInv'  BY SteerStep DEF IInv
  <2> QED  BY <2>1, <2>2, <2>3, <2>4 DEF IInv
<1> QED  BY <1>1, InitHolds, PTL DEF Spec

\* Every variable keeps its type; in particular prompts and loads together make
\* no more agents than there are versions for.
THEOREM TypesHold == Spec => []TypeOK
<1>1. IInv => TypeOK
  BY DEF IInv, RunInv, AgentInv, SteerInv, TypeOK
<1> QED  BY <1>1, IInvHolds, PTL

\* Whatever connections, cancels, closes and loads do, and whenever the tasks of
\* drop guards run, at most one agent loop works on the session.
THEOREM OneLoopHolds == Spec => []OneLoop
<1>1. IInv => OneLoop
  BY DEF IInv, RunInv, Holder, Holding, OneLoop
<1> QED  BY <1>1, IInvHolds, PTL

\* A steer is picked up by no agent but the one whose run it named.
THEOREM SteersRouted == Spec => []SteerStaysWithAgent
<1>1. IInv => SteerStaysWithAgent
  <2> SUFFICES ASSUME IInv, NEW s \in Steers, pickedUp[s] # None
               PROVE  /\ on[pickedUp[s]] = on[expected[s]]
                      /\ agent[pickedUp[s]] = agent[expected[s]]
    BY DEF SteerStaysWithAgent
  <2>1. pickedUp[s] \in Runs
    BY DEF IInv, SteerInv, SteerTypes
  <2> QED  BY <2>1 DEF IInv, SteerInv, Routed
<1> QED  BY <1>1, IInvHolds, PTL
=============================================================================
