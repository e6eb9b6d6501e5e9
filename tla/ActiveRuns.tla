----------------------------- MODULE ActiveRuns -----------------------------
(***************************************************************************)
(* The active prompt runs of one session on the ACP server: prompts that   *)
(* claim the session in the registry all connections share, the drop guard *)
(* that frees it when a connection is lost, steers, cancels and closes     *)
(* that arrive on any connection, and loads.                               *)
(*                                                                         *)
(* Every connection has its own AIBuddyAcpAgent: its sessions map, its     *)
(* closed_session_ids and its agent manager. A step ends at an await.      *)
(***************************************************************************)
EXTENDS Naturals, FiniteSets

CONSTANTS
    Conns,          \* connections
    Runs,           \* run ids: one per prompt request
    Steers,         \* ids of steer messages
    StateMachine,   \* AIBUDDY_STATE_MACHINE
    MaxLoads,       \* bound: session/load requests
    MaxCloses,      \* bound: session/close requests
    None

ASSUME NoneAssumption   == None \notin Runs \cup Conns
ASSUME BoundsAssumption == MaxLoads \in Nat /\ MaxCloses \in Nat
ASSUME FiniteRuns       == IsFiniteSet(Runs)
ASSUME ModeAssumption   == StateMachine \in BOOLEAN

\* Only a prompt or a load makes an agent, so this many versions are enough.
Versions == 1..(Cardinality(Runs) + MaxLoads)

VARIABLES
    registry,       \* active_prompt_runs: the run that holds the session
    cancelled,      \* runs whose cancel_token is cancelled
    closed,         \* connections with the session in closed_session_ids
    sessions,       \* per connection: version of the agent in `sessions`, or 0
    managed,        \* per connection: version of the agent in its manager, or 0
    made,           \* per connection: agents made so far
    gone,           \* connections that are lost
    pc,             \* per run: where on_prompt stands
    on,             \* per run: its connection
    agent,          \* per run: the version of the agent that runs it
    guard,          \* per run: ActiveRunDropGuard
    detached,       \* runs whose captured queue has left steer_queues
    queue,          \* steer_queues of each agent
    orphan,         \* per run: what is left in its captured, detached queue
    steer,          \* per steer: where on_steer_session stands
    by,             \* per steer: the connection it came on, until it is answered
    expected,       \* per steer: expected_run_id
    pickedUp,       \* per steer: the run that drained it
    closing,        \* per connection: where on_close_session stands
    loading,        \* per connection: where handle_load_session stands
    loads, closes,
    pending         \* the active turn has tool confirmations without an answer

claims   == <<registry, cancelled, guard>>
caches   == <<closed, sessions, managed, made>>
prompts  == <<on, agent>>
steering == <<detached, queue, orphan, steer, by, expected, pickedUp>>
requests == <<closing, loading, loads, closes>>
vars == <<claims, caches, gone, pc, prompts, steering, requests, pending>>

\* ActiveRunDropGuard exists, its run has not been dropped.
Guarded == {"claimed", "stream", "clear", "discard", "reap", "unlist", "unload", "finish"}

Init ==
    /\ registry = None /\ cancelled = {} /\ closed = {} /\ gone = {}
    /\ sessions = [c \in Conns |-> 0]
    /\ managed = [c \in Conns |-> 0]
    /\ made = [c \in Conns |-> 0]
    /\ pc = [p \in Runs |-> "idle"]
    /\ on = [p \in Runs |-> None]
    /\ agent = [p \in Runs |-> 0]
    /\ guard = [p \in Runs |-> "none"]
    /\ detached = {}
    /\ queue = [c \in Conns |-> [v \in Versions |-> {}]]
    /\ orphan = [p \in Runs |-> {}]
    /\ steer = [s \in Steers |-> "idle"]
    /\ by = [s \in Steers |-> None]
    /\ expected = [s \in Steers |-> None]
    /\ pickedUp = [s \in Steers |-> None]
    /\ closing = [c \in Conns |-> "idle"]
    /\ loading = [c \in Conns |-> "idle"]
    /\ loads = 0 /\ closes = 0
    /\ pending = FALSE

Goto(p, l) == pc' = [pc EXCEPT ![p] = l]

-----------------------------------------------------------------------------
(* The agent's steer queues.                                               *)

\* The state machine drains the queue it took when its stream was made, the
\* legacy loop the one it finds in steer_queues each time.
Reads(p) == IF p \in detached THEN orphan[p] ELSE queue[on[p]][agent[p]]

\* discard_pending_steers drops the map's entry. A stream that captured the
\* queue keeps it, and what is steered from now on goes to another one.
DiscardPendingSteers(c, v) ==
    LET holders == {p \in Runs : /\ StateMachine /\ pc[p] = "stream" /\ p \notin detached
                                 /\ on[p] = c /\ agent[p] = v}
    IN /\ queue' = [queue EXCEPT ![c][v] = {}]
       /\ orphan' = [p \in Runs |-> IF p \in holders THEN queue[c][v] ELSE orphan[p]]
       /\ detached' = detached \cup holders
       /\ UNCHANGED <<steer, by, expected, pickedUp>>

-----------------------------------------------------------------------------
(* Prompts.                                                                *)

Prompt(p, c) ==
    /\ pc[p] = "idle" /\ c \notin gone
    /\ on' = [on EXCEPT ![p] = c]
    /\ IF c \in closed THEN Goto(p, "done") ELSE Goto(p, "resolve")
    /\ UNCHANGED <<claims, caches, gone, agent, steering, requests, pending>>

\* The agent in the manager, or a new one, becomes the session's.
ActivateAcpSession(c) ==
    LET v == IF managed[c] = 0 THEN made[c] + 1 ELSE managed[c]
    IN /\ made' = [made EXCEPT ![c] = IF managed[c] = 0 THEN v ELSE made[c]]
       /\ managed' = [managed EXCEPT ![c] = v]
       /\ sessions' = [sessions EXCEPT ![c] = v]

\* get_session_agent
Resolve(p) ==
    LET c == on[p]
    IN /\ pc[p] = "resolve"
       /\ \/ /\ sessions[c] # 0
             /\ UNCHANGED <<sessions, managed, made>>
          \/ /\ sessions[c] = 0
             /\ ActivateAcpSession(c)
       /\ agent' = [agent EXCEPT ![p] = sessions'[c]]
       /\ Goto(p, "check")
       /\ UNCHANGED <<claims, closed, gone, on, steering, requests, pending>>

\* start_active_run looks at closed_session_ids, then waits for the registry.
StartCheck(p) ==
    /\ pc[p] = "check"
    /\ IF on[p] \in closed THEN Goto(p, "done") ELSE Goto(p, "claim")
    /\ UNCHANGED <<claims, caches, gone, prompts, steering, requests, pending>>

StartRefused(p) ==
    /\ pc[p] = "claim" /\ registry # None
    /\ Goto(p, "done")
    /\ UNCHANGED <<claims, caches, gone, prompts, steering, requests, pending>>

StartClaim(p) ==
    /\ pc[p] = "claim" /\ registry = None
    /\ registry' = p
    /\ guard' = [guard EXCEPT ![p] = "armed"]
    /\ Goto(p, "claimed")
    /\ UNCHANGED <<cancelled, caches, gone, prompts, steering, requests, pending>>

\* Cancelled already, a notification that cannot be sent, or no stream.
PromptFails(p) ==
    /\ pc[p] = "claimed"
    /\ Goto(p, "clear")
    /\ UNCHANGED <<claims, caches, gone, prompts, steering, requests, pending>>

\* The prompt is the new turn's kickoff: older confirmations are of no turn.
PromptStreams(p) ==
    /\ pc[p] = "claimed" /\ p \notin cancelled
    /\ Goto(p, "stream")
    /\ pending' = FALSE
    /\ UNCHANGED <<claims, caches, gone, prompts, steering, requests>>

-----------------------------------------------------------------------------
(* The stream, polled by forward_agent_stream.                             *)

\* A message is only forwarded while the connection still has the session.
Forwards(p) == pc[p] = "stream" /\ p \notin cancelled /\ sessions[on[p]] # 0

Drained(p) == IF p \in detached
              THEN /\ orphan' = [orphan EXCEPT ![p] = {}] /\ UNCHANGED queue
              ELSE /\ queue' = [queue EXCEPT ![on[p]][agent[p]] = {}] /\ UNCHANGED orphan

Drain(p) ==
    /\ Forwards(p) /\ ~pending /\ Reads(p) # {}
    /\ pickedUp' = [s \in Steers |-> IF s \in Reads(p) THEN p ELSE pickedUp[s]]
    /\ Drained(p)
    /\ UNCHANGED <<claims, caches, gone, pc, prompts, detached, steer, by, expected,
                   requests, pending>>

\* A tool waits for approval; the answer comes from a client.
AskApproval(p) ==
    /\ Forwards(p) /\ ~pending
    /\ pending' = TRUE
    /\ UNCHANGED <<claims, caches, gone, pc, prompts, steering, requests>>

\* A turn that paused for it goes on in a new stream, which takes the queue that
\* is in steer_queues now; a provider that waited for it goes on in the old one.
AnswerApproval(p) ==
    /\ Forwards(p) /\ pending
    /\ pending' = FALSE
    /\ \/ /\ detached' = detached \ {p}
          /\ orphan' = [orphan EXCEPT ![p] = {}]
       \/ UNCHANGED <<detached, orphan>>
    /\ UNCHANGED <<claims, caches, gone, pc, prompts, queue, steer, by, expected,
                   pickedUp, requests>>

\* Neither loop ends a turn by itself while it sees a steer in its queue.
StreamEnds(p) ==
    /\ Forwards(p) /\ ~pending /\ Reads(p) = {}
    /\ Goto(p, "clear")
    /\ UNCHANGED <<claims, caches, gone, prompts, steering, requests, pending>>

\* Mutant: the token is not looked at.
StreamStoppedUncancelled(p) ==
    /\ pc[p] = "stream" /\ sessions[on[p]] = 0
    /\ Goto(p, "clear")
    /\ UNCHANGED <<claims, caches, gone, prompts, steering, requests, pending>>

\* The next event finds the token cancelled or the session gone.
StreamStopped(p) ==
    /\ pc[p] = "stream" /\ (p \in cancelled \/ sessions[on[p]] = 0)
    /\ Goto(p, "clear")
    /\ UNCHANGED <<claims, caches, gone, prompts, steering, requests, pending>>

\* A provider error, an error notification, the turn limit.
StreamFails(p) ==
    /\ pc[p] = "stream"
    /\ Goto(p, "clear")
    /\ UNCHANGED <<claims, caches, gone, prompts, steering, requests, pending>>

-----------------------------------------------------------------------------
(* clear_active_run and the end of on_prompt.                              *)

ClearActiveRun(p) ==
    /\ pc[p] = "clear"
    /\ IF registry = p THEN registry' = None /\ Goto(p, "discard")
                       ELSE UNCHANGED registry /\ Goto(p, "finish")
    /\ UNCHANGED <<cancelled, guard, caches, gone, prompts, steering, requests, pending>>

ClearDiscards(p) ==
    /\ pc[p] = "discard"
    /\ DiscardPendingSteers(on[p], agent[p])
    /\ Goto(p, "reap")
    /\ UNCHANGED <<claims, caches, gone, prompts, requests, pending>>

ClearReaps(p) ==
    /\ pc[p] = "reap"
    /\ IF on[p] \in closed THEN Goto(p, "unlist") ELSE Goto(p, "finish")
    /\ UNCHANGED <<claims, caches, gone, prompts, steering, requests, pending>>

ClearUnlists(p) ==
    /\ pc[p] = "unlist"
    /\ sessions' = [sessions EXCEPT ![on[p]] = 0]
    /\ Goto(p, "unload")
    /\ UNCHANGED <<claims, closed, managed, made, gone, prompts, steering, requests, pending>>

ClearUnloads(p) ==
    /\ pc[p] = "unload"
    /\ managed' = [managed EXCEPT ![on[p]] = 0]
    /\ Goto(p, "finish")
    /\ UNCHANGED <<claims, closed, sessions, made, gone, prompts, steering, requests, pending>>

\* on_prompt returns; its guard is dropped.
Finish(p) ==
    /\ pc[p] = "finish"
    /\ cancelled' = cancelled \cup {p}
    /\ guard' = [guard EXCEPT ![p] = "spawned"]
    /\ Goto(p, "done")
    /\ UNCHANGED <<registry, caches, gone, prompts, steering, requests, pending>>

\* Mutant: the run id is not compared.
GuardRemovesAny(p) ==
    /\ guard[p] = "spawned"
    /\ registry' = None
    /\ guard' = [guard EXCEPT ![p] = "discard"]
    /\ UNCHANGED <<cancelled, caches, gone, pc, prompts, steering, requests, pending>>

\* The task the guard spawns removes the run it was made for and no other.
GuardRemoves(p) ==
    /\ guard[p] = "spawned"
    /\ IF registry = p
       THEN registry' = None /\ guard' = [guard EXCEPT ![p] = "discard"]
       ELSE UNCHANGED registry /\ guard' = [guard EXCEPT ![p] = "done"]
    /\ UNCHANGED <<cancelled, caches, gone, pc, prompts, steering, requests, pending>>

GuardDiscards(p) ==
    /\ guard[p] = "discard"
    /\ DiscardPendingSteers(on[p], agent[p])
    /\ guard' = [guard EXCEPT ![p] = "done"]
    /\ UNCHANGED <<registry, cancelled, caches, gone, pc, prompts, requests, pending>>

-----------------------------------------------------------------------------
(* Steers, cancels, closes, loads, and connections that are lost.          *)

\* require_active_run; a steer that names another run is refused.
RequireActiveRun(s, c, p) ==
    /\ steer[s] = "idle" /\ c \notin gone
    /\ registry = p
    /\ steer' = [steer EXCEPT ![s] = "push"]
    /\ by' = [by EXCEPT ![s] = c]
    /\ expected' = [expected EXCEPT ![s] = p]
    /\ UNCHANGED <<claims, caches, gone, pc, prompts, detached, queue, orphan, pickedUp,
                   requests, pending>>

\* Mutant: the steer goes to the agent of the connection it came on.
SteerCaller(s) ==
    /\ steer[s] = "push" /\ sessions[by[s]] # 0
    /\ queue' = [queue EXCEPT ![by[s]][sessions[by[s]]] = @ \cup {s}]
    /\ steer' = [steer EXCEPT ![s] = "queued"]
    /\ by' = [by EXCEPT ![s] = None]
    /\ UNCHANGED <<claims, caches, gone, pc, prompts, detached, orphan, expected,
                   pickedUp, requests, pending>>

\* Agent::steer on the agent of the run it found, and the response.
Steer(s) ==
    LET p == expected[s]
    IN /\ steer[s] = "push"
       /\ queue' = [queue EXCEPT ![on[p]][agent[p]] = @ \cup {s}]
       /\ steer' = [steer EXCEPT ![s] = "queued"]
       /\ by' = [by EXCEPT ![s] = None]
       /\ UNCHANGED <<claims, caches, gone, pc, prompts, detached, orphan, expected,
                      pickedUp, requests, pending>>

Cancel ==
    /\ registry # None /\ gone # Conns
    /\ cancelled' = cancelled \cup {registry}
    /\ UNCHANGED <<registry, guard, caches, gone, pc, prompts, steering, requests, pending>>

CloseMarks(c) ==
    /\ closing[c] = "idle" /\ c \notin gone /\ closes < MaxCloses
    /\ closes' = closes + 1
    /\ closed' = closed \cup {c}
    /\ closing' = [closing EXCEPT ![c] = "cancel"]
    /\ UNCHANGED <<claims, sessions, managed, made, gone, pc, prompts, steering, loading,
                   loads, pending>>

CloseCancels(c) ==
    /\ closing[c] = "cancel"
    /\ cancelled' = cancelled \cup ({registry} \cap Runs)
    /\ closing' = [closing EXCEPT ![c] = "unlist"]
    /\ UNCHANGED <<registry, guard, caches, gone, pc, prompts, steering, loading, loads, closes,
                   pending>>

CloseUnlists(c) ==
    /\ closing[c] = "unlist"
    /\ sessions' = [sessions EXCEPT ![c] = 0]
    /\ closing' = [closing EXCEPT ![c] = "unload"]
    /\ UNCHANGED <<claims, closed, managed, made, gone, pc, prompts, steering, loading, loads,
                   closes, pending>>

CloseUnloads(c) ==
    /\ closing[c] = "unload"
    /\ managed' = [managed EXCEPT ![c] = 0]
    /\ closing' = [closing EXCEPT ![c] = "idle"]
    /\ UNCHANGED <<claims, closed, sessions, made, gone, pc, prompts, steering, loading, loads,
                   closes, pending>>

\* prepare_session_for_activation unloads the agent when the request brings a
\* working directory, a provider or MCP servers the session did not have.
LoadPrepares(c) ==
    /\ loading[c] = "idle" /\ c \notin gone /\ loads < MaxLoads
    /\ loads' = loads + 1
    /\ \/ managed' = [managed EXCEPT ![c] = 0]
       \/ UNCHANGED managed
    /\ loading' = [loading EXCEPT ![c] = "register"]
    /\ UNCHANGED <<claims, closed, sessions, made, gone, pc, prompts, steering, closing, closes,
                   pending>>

LoadRegisters(c) ==
    /\ loading[c] = "register"
    /\ ActivateAcpSession(c)
    /\ loading' = [loading EXCEPT ![c] = "reload"]
    /\ UNCHANGED <<claims, closed, gone, pc, prompts, steering, closing, loads, closes, pending>>

\* get_session: the conversation is None unless the messages are asked for.
HasConfirmations(includeMessages) == includeMessages /\ pending

\* The session is reloaded without its messages, so that no load finds anything
\* to resume: start_resumed_state_machine_turn is never called.
LoadReloads(c) ==
    /\ loading[c] = "reload"
    /\ ~(StateMachine /\ HasConfirmations(FALSE))
    /\ loading' = [loading EXCEPT ![c] = "open"]
    /\ UNCHANGED <<claims, caches, gone, pc, prompts, steering, closing, loads, closes, pending>>

LoadOpens(c) ==
    /\ loading[c] = "open"
    /\ closed' = closed \ {c}
    /\ loading' = [loading EXCEPT ![c] = "idle"]
    /\ UNCHANGED <<claims, sessions, managed, made, gone, pc, prompts, steering, closing, loads,
                   closes, pending>>

\* The futures of its handlers are dropped at whatever await they are.
ConnectionLost(c) ==
    LET dropped == {p \in Runs : on[p] = c /\ pc[p] \in Guarded}
    IN /\ c \notin gone
       /\ gone' = gone \cup {c}
       /\ cancelled' = cancelled \cup dropped
       /\ guard' = [p \in Runs |-> IF p \in dropped THEN "spawned" ELSE guard[p]]
       /\ pc' = [p \in Runs |-> IF on[p] = c THEN "done" ELSE pc[p]]
       /\ steer' = [s \in Steers |-> IF by[s] = c /\ steer[s] = "push" THEN "lost" ELSE steer[s]]
       /\ closing' = [closing EXCEPT ![c] = "idle"]
       /\ loading' = [loading EXCEPT ![c] = "idle"]
       /\ UNCHANGED <<registry, caches, prompts, detached, queue, orphan, by, expected,
                      pickedUp, loads, closes, pending>>

-----------------------------------------------------------------------------

HandlerStep(p) ==
    \/ Resolve(p) \/ StartCheck(p) \/ StartRefused(p) \/ StartClaim(p)
    \/ PromptFails(p) \/ PromptStreams(p) \/ StreamStopped(p)
    \/ ClearActiveRun(p) \/ ClearDiscards(p) \/ ClearReaps(p) \/ ClearUnlists(p)
    \/ ClearUnloads(p) \/ Finish(p)

StreamStep(p) ==
    \/ Drain(p) \/ AskApproval(p) \/ AnswerApproval(p) \/ StreamEnds(p) \/ StreamFails(p)

GuardStep(p) == GuardRemoves(p) \/ GuardDiscards(p)

CloseStep(c) == CloseCancels(c) \/ CloseUnlists(c) \/ CloseUnloads(c)

LoadStep(c) == LoadRegisters(c) \/ LoadReloads(c) \/ LoadOpens(c)

Next ==
    \/ \E p \in Runs : \/ \E c \in Conns : Prompt(p, c)
                       \/ HandlerStep(p) \/ StreamStep(p) \/ GuardStep(p)
    \/ \E s \in Steers : \/ \E c \in Conns, p \in Runs : RequireActiveRun(s, c, p)
                         \/ Steer(s)
    \/ Cancel
    \/ \E c \in Conns : \/ CloseMarks(c) \/ CloseStep(c)
                        \/ LoadPrepares(c) \/ LoadStep(c)
                        \/ ConnectionLost(c)

Spec == Init /\ [][Next]_vars

\* Handlers and spawned tasks run on. A stream need never end, an approval need
\* never be answered, and connections need never be lost.
Fairness ==
    /\ \A p \in Runs : WF_vars(HandlerStep(p)) /\ WF_vars(GuardStep(p))
    /\ \A c \in Conns : WF_vars(CloseStep(c)) /\ WF_vars(LoadStep(c))

FairSpec == Spec /\ Fairness

-----------------------------------------------------------------------------

RunTypes ==
    /\ registry \in Runs \cup {None} /\ cancelled \subseteq Runs
    /\ pc \in [Runs -> Guarded \cup {"idle", "resolve", "check", "claim", "done"}]
    /\ on \in [Runs -> Conns \cup {None}]
    /\ guard \in [Runs -> {"none", "armed", "spawned", "discard", "done"}]
    /\ pending \in BOOLEAN

AgentTypes ==
    /\ sessions \in [Conns -> Versions \cup {0}]
    /\ managed \in [Conns -> Versions \cup {0}]
    /\ made \in [Conns -> Versions \cup {0}]
    /\ agent \in [Runs -> Versions \cup {0}]

SteerTypes ==
    /\ detached \subseteq Runs
    /\ queue \in [Conns -> [Versions -> SUBSET Steers]]
    /\ orphan \in [Runs -> SUBSET Steers]
    /\ steer \in [Steers -> {"idle", "push", "queued", "lost"}]
    /\ by \in [Steers -> Conns \cup {None}]
    /\ expected \in [Steers -> Runs \cup {None}]
    /\ pickedUp \in [Steers -> Runs \cup {None}]

RequestTypes ==
    /\ closed \subseteq Conns /\ gone \subseteq Conns
    /\ closing \in [Conns -> {"idle", "cancel", "unlist", "unload"}]
    /\ loading \in [Conns -> {"idle", "register", "reload", "open"}]
    /\ loads \in 0..MaxLoads /\ closes \in 0..MaxCloses

\* The types of every variable: runs, agents, steers and requests.
TypeOK == RunTypes /\ AgentTypes /\ SteerTypes /\ RequestTypes

\* Two loops never write to the session at once, whichever connections their
\* prompts came on and however earlier runs ended: a stream that is polled is
\* the run in the registry.
OneLoop == \A p \in Runs : pc[p] = "stream" => registry = p

\* A steer is picked up only by a run of the agent whose run it named: one that
\* arrives on another connection never reaches that connection's agent.
SteerStaysWithAgent ==
    \A s \in Steers : pickedUp[s] # None =>
        /\ on[pickedUp[s]] = on[expected[s]]
        /\ agent[pickedUp[s]] = agent[expected[s]]

\* A run that is cancelled, by a client, because the session is closed or because
\* its connection is lost, ends and frees the session, whatever it waited for.
CancelledRunEnds ==
    \A p \in Runs : (p \in cancelled) ~> (registry # p)

=============================================================================
