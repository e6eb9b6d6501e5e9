---------------------------- MODULE AgentManager ----------------------------
(***************************************************************************)
(* The agent manager: a bounded cache of agents, the per-session creation  *)
(* locks that keep two callers from building one session's agent twice,    *)
(* their pruning, and the table of cancellation tokens that makes a        *)
(* session busy while the orchestrator has it reply.                       *)
(*                                                                         *)
(* Every step is what a task does under one lock or between two of them,   *)
(* since tasks run on several threads. An Arc of a creation lock is        *)
(* modelled by who holds it, so that strong_count can be read off.         *)
(***************************************************************************)
EXTENDS Naturals, FiniteSets

CONSTANTS
    Sessions,
    Callers,    \* concurrent callers of the manager
    Droppable,  \* those whose future may be dropped at an await
    Locks,      \* creation locks that may be alive at once
    Capacity,   \* agents the cache holds
    Ops,        \* the operations callers use
    MaxAgents   \* bound: agents ever cached

None == "none"
AllOps == {"get", "remove", "send"}

ASSUME CallersAssumption  ==
    None \notin Callers \cup Locks \cup Sessions /\ Droppable \subseteq Callers
ASSUME CapacityAssumption == Capacity \in Nat \ {0} /\ MaxAgents \in Nat
ASSUME OpsAssumption      == Ops \subseteq AllOps

VARIABLES
    cache,      \* the agent of each session, 0 if not loaded
    newer,      \* <<s, t>>: s was used after t
    made,       \* agents cached so far
    lockOf,     \* creation_locks
    arc,        \* the lock each caller has an Arc of
    holder,     \* who is inside each lock
    tokens,     \* cancel_tokens: the caller whose reply registered the token
    cancelled,  \* callers whose token was cancelled
    pc, op, sess,
    victim,     \* the session a creator evicted and has to prune
    got         \* the agent a caller was given last

registry == <<cache, newer, made, got>>
locking  == <<lockOf, arc, holder>>
replies  == <<tokens, cancelled>>
calls    == <<pc, op, sess, victim>>
vars == <<registry, locking, replies, calls>>

Cached == {s \in Sessions : cache[s] # 0}

Init ==
    /\ cache = [s \in Sessions |-> 0] /\ newer = {} /\ made = 0
    /\ got = [c \in Callers |-> 0]
    /\ lockOf = [s \in Sessions |-> None]
    /\ arc = [c \in Callers |-> None] /\ holder = [l \in Locks |-> None]
    /\ tokens = [s \in Sessions |-> None] /\ cancelled = {}
    /\ pc = [c \in Callers |-> "idle"] /\ op = [c \in Callers |-> None]
    /\ sess = [c \in Callers |-> None] /\ victim = [c \in Callers |-> None]

-----------------------------------------------------------------------------
(* Steps.                                                                  *)

Goto(c, next) == pc' = [pc EXCEPT ![c] = next] /\ UNCHANGED <<op, sess, victim>>

Return(c) ==
    /\ pc' = [pc EXCEPT ![c] = "idle"]
    /\ op' = [op EXCEPT ![c] = None]
    /\ sess' = [sess EXCEPT ![c] = None]
    /\ victim' = [victim EXCEPT ![c] = None]

\* get_or_create_agent has its agent; send_message goes on with it.
GotAgent(c) == IF op[c] = "send" THEN Goto(c, "register") ELSE Return(c)

\* LruCache::get makes an entry the most recently used.
Touched(s, entries) ==
    {p \in newer : {p[1], p[2]} \subseteq entries \ {s}} \cup {<<s, t>> : t \in entries \ {s}}

Found(c) ==
    /\ cache[sess[c]] # 0
    /\ newer' = Touched(sess[c], Cached)
    /\ got' = [got EXCEPT ![c] = cache[sess[c]]]
    /\ UNCHANGED <<cache, made>>

\* The guard and the Arc go out of scope.
DropLock(c) ==
    /\ arc' = [arc EXCEPT ![c] = None]
    /\ holder' = [l \in Locks |-> IF holder[l] = c THEN None ELSE holder[l]]

\* prune_creation_lock; an Arc of anyone keeps the entry.
InUse(s, arcs) == \E c \in Callers : arcs[c] = lockOf[s]

Prune(s, arcs) ==
    lockOf' = IF InUse(s, arcs) THEN lockOf ELSE [lockOf EXCEPT ![s] = None]

-----------------------------------------------------------------------------
(* get_or_create_agent.                                                    *)

Call(c, o, s) ==
    /\ o \in Ops
    /\ pc[c] = "idle"
    /\ pc' = [pc EXCEPT ![c] = IF o = "remove" THEN "untoken" ELSE "lookup"]
    /\ op' = [op EXCEPT ![c] = o]
    /\ sess' = [sess EXCEPT ![c] = s]
    /\ UNCHANGED victim
    /\ UNCHANGED <<registry, locking, replies>>

\* The fast path, and the second look under the creation lock.
Lookup(c) ==
    /\ pc[c] = "lookup"
    /\ \/ Found(c) /\ GotAgent(c)
       \/ cache[sess[c]] = 0 /\ Goto(c, "lock") /\ UNCHANGED registry
    /\ UNCHANGED <<locking, replies>>

TakeArc(c) ==
    /\ pc[c] = "lock"
    /\ \E l \in Locks :
        /\ IF lockOf[sess[c]] # None
           THEN l = lockOf[sess[c]]
           ELSE /\ \A s \in Sessions : lockOf[s] # l
                /\ \A d \in Callers : arc[d] # l
        /\ lockOf' = [lockOf EXCEPT ![sess[c]] = l]
        /\ arc' = [arc EXCEPT ![c] = l]
    /\ Goto(c, "wait")
    /\ UNCHANGED <<registry, holder, replies>>

Acquire(c) ==
    /\ pc[c] = "wait" /\ holder[arc[c]] = None
    /\ holder' = [holder EXCEPT ![arc[c]] = c]
    /\ Goto(c, "recheck")
    /\ UNCHANGED <<registry, lockOf, arc, replies>>

\* Mutant: create_agent_locked builds without looking again.
NoRecheck(c) ==
    /\ pc[c] = "recheck"
    /\ Goto(c, "build")
    /\ UNCHANGED <<registry, locking, replies>>

Recheck(c) ==
    /\ pc[c] = "recheck"
    /\ \/ Found(c) /\ Goto(c, "leave")
       \/ cache[sess[c]] = 0 /\ Goto(c, "build") /\ UNCHANGED registry
    /\ UNCHANGED <<locking, replies>>

\* Provider restore and extension loading; the guard and the Arc are dropped
\* before the lock is pruned.
BuildFails(c) ==
    /\ pc[c] = "build"
    /\ DropLock(c)
    /\ Goto(c, "prune")
    /\ UNCHANGED <<registry, lockOf, replies>>

PruneOwn(c) ==
    /\ pc[c] = "prune"
    /\ Prune(sess[c], arc)
    /\ Return(c)
    /\ UNCHANGED <<registry, arc, holder, replies>>

\* Mutant: push without looking at what it evicts.
PublishOverfull(c) ==
    /\ pc[c] = "build" /\ made < MaxAgents
    /\ cache' = [cache EXCEPT ![sess[c]] = made + 1]
    /\ newer' = Touched(sess[c], Cached \cup {sess[c]})
    /\ made' = made + 1
    /\ got' = [got EXCEPT ![c] = made + 1]
    /\ Goto(c, "leave") /\ UNCHANGED <<locking, replies>>

\* The cache is looked at once more, then the agent is pushed; at capacity the
\* entry nobody used for longest goes.
Publish(c) ==
    /\ pc[c] = "build"
    /\ IF cache[sess[c]] # 0
       THEN Found(c) /\ Goto(c, "leave")
       ELSE /\ made < MaxAgents
            /\ made' = made + 1
            /\ got' = [got EXCEPT ![c] = made + 1]
            /\ \/ /\ Cardinality(Cached) < Capacity
                  /\ cache' = [cache EXCEPT ![sess[c]] = made + 1]
                  /\ newer' = Touched(sess[c], Cached \cup {sess[c]})
                  /\ Goto(c, "leave")
               \/ /\ Cardinality(Cached) >= Capacity
                  /\ \E t \in Cached :
                      /\ \A u \in Cached : <<t, u>> \notin newer
                      /\ cache' = [cache EXCEPT ![sess[c]] = made + 1, ![t] = 0]
                      /\ newer' = Touched(sess[c], (Cached \ {t}) \cup {sess[c]})
                      /\ victim' = [victim EXCEPT ![c] = t]
                      /\ pc' = [pc EXCEPT ![c] = "evict"] /\ UNCHANGED <<op, sess>>
    /\ UNCHANGED <<locking, replies>>

\* prune_creation_lock of the evicted session, inside the creator's own lock.
PruneEvicted(c) ==
    /\ pc[c] = "evict"
    /\ Prune(victim[c], arc)
    /\ Goto(c, "leave")
    /\ UNCHANGED <<registry, arc, holder, replies>>

\* Mutant: the guard outlives the call.
LeaveHolding(c) ==
    /\ pc[c] = "leave"
    /\ GotAgent(c)
    /\ UNCHANGED <<registry, locking, replies>>

\* get_or_create_agent returns, and its guard and its Arc are dropped.
Leave(c) ==
    /\ pc[c] = "leave"
    /\ DropLock(c)
    /\ GotAgent(c)
    /\ UNCHANGED <<registry, lockOf, replies>>

\* The caller's future is dropped at one of its awaits: no pruning, and a token
\* is unregistered by its guard, which send_message disarms before the await.
Abort(c) ==
    /\ c \in Droppable /\ pc[c] \notin {"idle", "leave", "reply", "spawned"}
    /\ DropLock(c)
    /\ cancelled' = cancelled \ {c}
    /\ Return(c)
    /\ UNCHANGED <<registry, lockOf, tokens>>

-----------------------------------------------------------------------------
(* remove_session and remove_session_if_loaded.                            *)

RemoveToken(c) ==
    /\ pc[c] = "untoken"
    /\ cancelled' = cancelled \cup ({tokens[sess[c]]} \ {None})
    /\ tokens' = [tokens EXCEPT ![sess[c]] = None]
    /\ Goto(c, "pop")
    /\ UNCHANGED <<registry, locking>>

Pop(c) ==
    /\ pc[c] = "pop"
    /\ IF cache[sess[c]] = 0
       THEN Return(c) /\ UNCHANGED <<cache, newer>>
       ELSE /\ cache' = [cache EXCEPT ![sess[c]] = 0]
            /\ newer' = {p \in newer : sess[c] \notin {p[1], p[2]}}
            /\ Goto(c, "prune")
    /\ UNCHANGED <<made, got, locking, replies>>

-----------------------------------------------------------------------------
(* send_message and interrupt_agent of the orchestrator.                   *)

\* try_register_cancel_token.
TryRegister(c) ==
    /\ pc[c] = "register"
    /\ IF tokens[sess[c]] # None
       THEN Return(c) /\ UNCHANGED tokens
       ELSE tokens' = [tokens EXCEPT ![sess[c]] = c] /\ Goto(c, "reply")
    /\ UNCHANGED <<registry, locking, cancelled>>

\* No provider could be set for the agent.
SendFails(c) ==
    /\ pc[c] = "register"
    /\ Return(c)
    /\ UNCHANGED <<registry, locking, replies>>

\* The stream ends or the parent is cancelled; or the reply fails to start or
\* the future is dropped, and the guard spawns the unregistration.
ReplyEnds(c) ==
    /\ pc[c] = "reply"
    /\ \E next \in {"unregister", "spawned"} : Goto(c, next)
    /\ UNCHANGED <<registry, locking, replies>>

\* Mutant: the session stays busy.
ForgetUnregister(c) ==
    /\ pc[c] \in {"unregister", "spawned"}
    /\ cancelled' = cancelled \ {c}
    /\ Return(c)
    /\ UNCHANGED <<registry, locking, tokens>>

\* unregister_cancel_token removes whatever token the session has.
Unregister(c) ==
    /\ pc[c] \in {"unregister", "spawned"}
    /\ tokens' = [tokens EXCEPT ![sess[c]] = None]
    /\ cancelled' = cancelled \ {c}
    /\ Return(c)
    /\ UNCHANGED <<registry, locking>>

\* cancel_session.
Interrupt(s) ==
    /\ tokens[s] # None /\ tokens[s] \notin cancelled
    /\ cancelled' = cancelled \cup {tokens[s]}
    /\ UNCHANGED <<registry, locking, tokens, calls>>

-----------------------------------------------------------------------------
Creation(c) ==
    \/ Lookup(c) \/ TakeArc(c) \/ Recheck(c)
    \/ BuildFails(c) \/ Publish(c) \/ PruneOwn(c) \/ PruneEvicted(c) \/ Leave(c)

Next ==
    \/ \E c \in Callers, o \in AllOps, s \in Sessions : Call(c, o, s)
    \/ \E c \in Callers :
        \/ Creation(c) \/ Acquire(c) \/ Abort(c)
        \/ RemoveToken(c) \/ Pop(c)
        \/ TryRegister(c) \/ SendFails(c) \/ ReplyEnds(c) \/ Unregister(c)
    \/ \E s \in Sessions : Interrupt(s)

Spec == Init /\ [][Next]_vars

\* A creation in progress goes on (loading extensions has its own timeouts),
\* and tokio's Mutex hands the lock to its waiters in order.
Fairness ==
    \A c \in Callers : WF_vars(Creation(c)) /\ SF_vars(Acquire(c))

FairSpec == Spec /\ Fairness
-----------------------------------------------------------------------------
(* Properties.                                                             *)

\* Callers that have an Arc of the creation lock of their session.
Queued(c) == pc[c] \in {"wait", "recheck", "build", "evict", "leave"}

RegistryTypes ==
    /\ cache \in [Sessions -> Nat] /\ newer \subseteq Sessions \X Sessions
    /\ made \in Nat /\ got \in [Callers -> Nat]

LockTypes ==
    /\ lockOf \in [Sessions -> Locks \cup {None}]
    /\ arc \in [Callers -> Locks \cup {None}]
    /\ holder \in [Locks -> Callers \cup {None}]

ReplyTypes ==
    /\ tokens \in [Sessions -> Callers \cup {None}] /\ cancelled \subseteq Callers

CallTypes ==
    /\ pc \in [Callers -> {"idle", "lookup", "lock", "wait", "recheck", "build", "prune", "evict", "leave",
                           "untoken", "pop", "register", "reply", "unregister", "spawned"}]
    /\ op \in [Callers -> AllOps \cup {None}]
    /\ sess \in [Callers -> Sessions \cup {None}]
    /\ \A c \in Callers : pc[c] # "idle" => sess[c] \in Sessions
    /\ victim \in [Callers -> Sessions \cup {None}]
    /\ \A c \in Callers : pc[c] = "evict" => victim[c] \in Sessions
    /\ \A c \in Callers : Queued(c) <=> arc[c] # None

\* The types of every variable; a call knows its session.
TypeOK == RegistryTypes /\ LockTypes /\ ReplyTypes /\ CallTypes

\* The agents in memory never exceed the capacity, and agents of two sessions
\* are never one.
Bounded ==
    /\ Cardinality(Cached) <= Capacity
    /\ \A s, t \in Cached : cache[s] = cache[t] => s = t

\* However locks are dropped, pruned and made again, all callers that queue for
\* a session queue at one lock, and the lock of the map is theirs.
OneLockPerSession == \A c \in Callers : Queued(c) => lockOf[sess[c]] = arc[c]

\* "concurrent callers for the same session never race into doing the work
\* twice": one caller at a time builds a session's agent, and only while the
\* session has none.
OneBuilder ==
    \A c, d \in Callers : pc[c] = "build" /\ sess[d] = sess[c] =>
        /\ cache[sess[c]] = 0
        /\ pc[d] = "build" => c = d

\* "Remove the cancellation token for a session (called when reply finishes)":
\* a busy session has a reply in progress, and none stays busy for ever. (Not so
\* when the future of the send is dropped where it waits to unregister.)
BusyIsBacked ==
    \A s \in Sessions : tokens[s] \in Callers \ Droppable =>
        sess[tokens[s]] = s /\ pc[tokens[s]] \in {"reply", "unregister", "spawned"}

Registry == INSTANCE AgentRegistry WITH reg <- cache

\* Behind its locks and second looks the manager is a register of one agent per
\* session: every caller gets the registered agent, and none is replaced.
KeepsRegistry == Registry!Spec

\* Whoever asks for an agent gets one, or an error.
GetReturns ==
    \A c \in Callers : pc[c] = "lookup" ~> pc[c] \in {"idle", "register"}
=============================================================================
