------------------------- MODULE AgentManagerProofs -------------------------
(***************************************************************************)
(* Proofs about AgentManager, for any sessions, callers, locks and         *)
(* capacity. OneBuilder needs two facts that no run states: the creation   *)
(* lock of a caller inside it is marked with that caller and with no other *)
(* (LockDiscipline), and a session has no agent while somebody builds one  *)
(* (BuilderAlone), which in turn needs that all callers of one session     *)
(* queue at one lock.                                                      *)
(***************************************************************************)
EXTENDS AgentManager, TLAPS, FiniteSetTheorems

Inside(c) == pc[c] \in {"recheck", "build", "evict", "leave"}

\* A caller inside its lock is its holder, and a holder has the lock's Arc.
LockDiscipline ==
    /\ \A c \in Callers : Inside(c) => holder[arc[c]] = c
    /\ \A l \in Locks : holder[l] # None => arc[holder[l]] = l

\* A session has no agent while a caller builds one.
BuilderAlone == \A c \in Callers : pc[c] = "build" => cache[sess[c]] = 0

\* What a step keeps.
IInv == TypeOK /\ LockDiscipline /\ OneLockPerSession /\ BuilderAlone

-----------------------------------------------------------------------------
(* Types.                                                                  *)

LEMMA TouchedType ==
  ASSUME TypeOK, NEW s \in Sessions, NEW E, E \subseteq Sessions
  PROVE  Touched(s, E) \subseteq Sessions \X Sessions
BY DEF Touched, TypeOK, RegistryTypes

LEMMA FoundType ==
  ASSUME TypeOK, NEW c \in Callers, sess[c] \in Sessions, Found(c)
  PROVE  RegistryTypes'
<1>1. newer' \subseteq Sessions \X Sessions
  BY TouchedType DEF Found, Cached
<1> QED  BY <1>1 DEF Found, TypeOK, RegistryTypes

\* What Publish does to the caller and to the agents of other sessions.
LEMMA PublishEffect ==
  ASSUME TypeOK, NEW c \in Callers, Publish(c)
  PROVE  /\ pc[c] = "build" /\ sess[c] \in Sessions
         /\ UNCHANGED <<locking, op, sess>>
         /\ \A s \in Sessions \ {sess[c]} : cache'[s] = cache[s] \/ cache'[s] = 0
         /\ \/ pc' = [pc EXCEPT ![c] = "leave"] /\ UNCHANGED victim
            \/ /\ pc' = [pc EXCEPT ![c] = "evict"]
               /\ \E t \in Sessions : victim' = [victim EXCEPT ![c] = t]
<1> DEFINE Others == \A s \in Sessions \ {sess[c]} : cache'[s] = cache[s] \/ cache'[s] = 0
           Evicts == /\ pc' = [pc EXCEPT ![c] = "evict"]
                     /\ \E t \in Sessions : victim' = [victim EXCEPT ![c] = t]
<1>1. pc[c] = "build" /\ sess[c] \in Sessions /\ UNCHANGED locking
  BY DEF Publish, TypeOK, CallTypes
<1>2. CASE cache[sess[c]] # 0
  BY <1>1, <1>2 DEF Publish, Found, Goto
<1>3. CASE cache[sess[c]] = 0
  <2>1. CASE Cardinality(Cached) < Capacity /\ cache' = [cache EXCEPT ![sess[c]] = made + 1] /\ Goto(c, "leave")
    BY <1>1, <2>1 DEF Goto, TypeOK, RegistryTypes
  <2>2. ASSUME NEW t \in Cached,
               cache' = [cache EXCEPT ![sess[c]] = made + 1, ![t] = 0],
               victim' = [victim EXCEPT ![c] = t],
               pc' = [pc EXCEPT ![c] = "evict"],
               UNCHANGED <<op, sess>>
        PROVE  UNCHANGED <<op, sess>> /\ Others /\ Evicts
    BY <1>1, <2>2 DEF TypeOK, RegistryTypes, Cached
  <2> QED  BY <1>1, <1>3, <2>1, <2>2 DEF Publish
<1> QED  BY <1>1, <1>2, <1>3

LEMMA CallType ==
  ASSUME TypeOK, NEW c \in Callers, NEW o \in AllOps, NEW s \in Sessions, Call(c, o, s)
  PROVE  TypeOK'
<1> USE CallersAssumption
<1>1. RegistryTypes'
  BY DEF TypeOK, RegistryTypes, Call, registry, registry, locking, replies, calls
<1>2. LockTypes'
  BY DEF TypeOK, LockTypes, Call, locking, registry, locking, replies, calls
<1>3. ReplyTypes'
  BY DEF TypeOK, ReplyTypes, Call, replies, registry, locking, replies, calls
<1>4. CallTypes'
  <2>1. pc' \in [Callers -> {"idle", "lookup", "lock", "wait", "recheck", "build", "prune", "evict", "leave",
                           "untoken", "pop", "register", "reply", "unregister", "spawned"}]
    BY DEF TypeOK, LockTypes, CallTypes, Queued, Call, registry, locking, replies, calls, AllOps
  <2>2. op' \in [Callers -> AllOps \cup {None}]
    BY DEF TypeOK, LockTypes, CallTypes, Queued, Call, registry, locking, replies, calls, AllOps
  <2>3. sess' \in [Callers -> Sessions \cup {None}]
    BY DEF TypeOK, LockTypes, CallTypes, Queued, Call, registry, locking, replies, calls, AllOps
  <2>4. (\A d \in Callers : pc[d] # "idle" => sess[d] \in Sessions)'
    BY DEF TypeOK, LockTypes, CallTypes, Queued, Call, registry, locking, replies, calls, AllOps
  <2>5. victim' \in [Callers -> Sessions \cup {None}]
    BY DEF TypeOK, LockTypes, CallTypes, Queued, Call, registry, locking, replies, calls, AllOps
  <2>6. (\A d \in Callers : pc[d] = "evict" => victim[d] \in Sessions)'
    BY DEF TypeOK, LockTypes, CallTypes, Queued, Call, registry, locking, replies, calls, AllOps
  <2>7. (\A d \in Callers : Queued(d) <=> arc[d] # None)'
    BY DEF TypeOK, LockTypes, CallTypes, Queued, Call, registry, locking, replies, calls, AllOps
  <2> QED  BY <2>1, <2>2, <2>3, <2>4, <2>5, <2>6, <2>7 DEF CallTypes
<1> QED  BY <1>1, <1>2, <1>3, <1>4 DEF TypeOK

LEMMA LookupType ==
  ASSUME TypeOK, NEW c \in Callers, Lookup(c)
  PROVE  TypeOK'
<1> USE CallersAssumption
<1>1. RegistryTypes'
  <2>1. CASE Found(c)
    BY <2>1, FoundType DEF TypeOK, CallTypes, Lookup
  <2>2. CASE UNCHANGED registry
    BY <2>2 DEF TypeOK, RegistryTypes, registry
  <2> QED  BY <2>1, <2>2 DEF Lookup
<1>2. LockTypes'
  BY DEF TypeOK, LockTypes, Lookup, locking, registry, locking, replies, calls
<1>3. ReplyTypes'
  BY DEF TypeOK, ReplyTypes, Lookup, replies, registry, locking, replies, calls
<1>4. CallTypes'
  <2>1. pc' \in [Callers -> {"idle", "lookup", "lock", "wait", "recheck", "build", "prune", "evict", "leave",
                           "untoken", "pop", "register", "reply", "unregister", "spawned"}]
    BY DEF TypeOK, LockTypes, CallTypes, Queued, Lookup, Found, GotAgent, Goto, Return, registry, locking, replies, calls, AllOps
  <2>2. op' \in [Callers -> AllOps \cup {None}]
    BY DEF TypeOK, LockTypes, CallTypes, Queued, Lookup, Found, GotAgent, Goto, Return, registry, locking, replies, calls, AllOps
  <2>3. sess' \in [Callers -> Sessions \cup {None}]
    BY DEF TypeOK, LockTypes, CallTypes, Queued, Lookup, Found, GotAgent, Goto, Return, registry, locking, replies, calls, AllOps
  <2>4. (\A d \in Callers : pc[d] # "idle" => sess[d] \in Sessions)'
    BY DEF TypeOK, LockTypes, CallTypes, Queued, Lookup, Found, GotAgent, Goto, Return, registry, locking, replies, calls, AllOps
  <2>5. victim' \in [Callers -> Sessions \cup {None}]
    BY DEF TypeOK, LockTypes, CallTypes, Queued, Lookup, Found, GotAgent, Goto, Return, registry, locking, replies, calls, AllOps
  <2>6. (\A d \in Callers : pc[d] = "evict" => victim[d] \in Sessions)'
    BY DEF TypeOK, LockTypes, CallTypes, Queued, Lookup, Found, GotAgent, Goto, Return, registry, locking, replies, calls, AllOps
  <2>7. (\A d \in Callers : Queued(d) <=> arc[d] # None)'
    BY DEF TypeOK, LockTypes, CallTypes, Queued, Lookup, Found, GotAgent, Goto, Return, registry, locking, replies, calls, AllOps
  <2> QED  BY <2>1, <2>2, <2>3, <2>4, <2>5, <2>6, <2>7 DEF CallTypes
<1> QED  BY <1>1, <1>2, <1>3, <1>4 DEF TypeOK

LEMMA TakeArcType ==
  ASSUME TypeOK, NEW c \in Callers, TakeArc(c)
  PROVE  TypeOK'
<1> USE CallersAssumption
<1>1. RegistryTypes'
  BY DEF TypeOK, RegistryTypes, TakeArc, registry, registry, locking, replies, calls
<1>2. LockTypes'
  BY DEF TypeOK, LockTypes, CallTypes, Queued, Touched, TakeArc, Goto, registry, locking, replies, calls, AllOps
<1>3. ReplyTypes'
  BY DEF TypeOK, ReplyTypes, TakeArc, replies, registry, locking, replies, calls
<1>4. CallTypes'
  <2>1. pc' \in [Callers -> {"idle", "lookup", "lock", "wait", "recheck", "build", "prune", "evict", "leave",
                           "untoken", "pop", "register", "reply", "unregister", "spawned"}]
    BY DEF TypeOK, LockTypes, CallTypes, Queued, TakeArc, Goto, registry, locking, replies, calls, AllOps
  <2>2. op' \in [Callers -> AllOps \cup {None}]
    BY DEF TypeOK, LockTypes, CallTypes, Queued, TakeArc, Goto, registry, locking, replies, calls, AllOps
  <2>3. sess' \in [Callers -> Sessions \cup {None}]
    BY DEF TypeOK, LockTypes, CallTypes, Queued, TakeArc, Goto, registry, locking, replies, calls, AllOps
  <2>4. (\A d \in Callers : pc[d] # "idle" => sess[d] \in Sessions)'
    BY DEF TypeOK, LockTypes, CallTypes, Queued, TakeArc, Goto, registry, locking, replies, calls, AllOps
  <2>5. victim' \in [Callers -> Sessions \cup {None}]
    BY DEF TypeOK, LockTypes, CallTypes, Queued, TakeArc, Goto, registry, locking, replies, calls, AllOps
  <2>6. (\A d \in Callers : pc[d] = "evict" => victim[d] \in Sessions)'
    BY DEF TypeOK, LockTypes, CallTypes, Queued, TakeArc, Goto, registry, locking, replies, calls, AllOps
  <2>7. (\A d \in Callers : Queued(d) <=> arc[d] # None)'
    BY DEF TypeOK, LockTypes, CallTypes, Queued, TakeArc, Goto, registry, locking, replies, calls, AllOps
  <2> QED  BY <2>1, <2>2, <2>3, <2>4, <2>5, <2>6, <2>7 DEF CallTypes
<1> QED  BY <1>1, <1>2, <1>3, <1>4 DEF TypeOK

LEMMA AcquireType ==
  ASSUME TypeOK, NEW c \in Callers, Acquire(c)
  PROVE  TypeOK'
<1> USE CallersAssumption
<1>1. RegistryTypes'
  BY DEF TypeOK, RegistryTypes, Acquire, registry, registry, locking, replies, calls
<1>2. LockTypes'
  BY DEF TypeOK, LockTypes, CallTypes, Queued, Touched, Acquire, Goto, registry, locking, replies, calls, AllOps
<1>3. ReplyTypes'
  BY DEF TypeOK, ReplyTypes, Acquire, replies, registry, locking, replies, calls
<1>4. CallTypes'
  <2>1. pc' \in [Callers -> {"idle", "lookup", "lock", "wait", "recheck", "build", "prune", "evict", "leave",
                           "untoken", "pop", "register", "reply", "unregister", "spawned"}]
    BY DEF TypeOK, LockTypes, CallTypes, Queued, Acquire, Goto, registry, locking, replies, calls, AllOps
  <2>2. op' \in [Callers -> AllOps \cup {None}]
    BY DEF TypeOK, LockTypes, CallTypes, Queued, Acquire, Goto, registry, locking, replies, calls, AllOps
  <2>3. sess' \in [Callers -> Sessions \cup {None}]
    BY DEF TypeOK, LockTypes, CallTypes, Queued, Acquire, Goto, registry, locking, replies, calls, AllOps
  <2>4. (\A d \in Callers : pc[d] # "idle" => sess[d] \in Sessions)'
    BY DEF TypeOK, LockTypes, CallTypes, Queued, Acquire, Goto, registry, locking, replies, calls, AllOps
  <2>5. victim' \in [Callers -> Sessions \cup {None}]
    BY DEF TypeOK, LockTypes, CallTypes, Queued, Acquire, Goto, registry, locking, replies, calls, AllOps
  <2>6. (\A d \in Callers : pc[d] = "evict" => victim[d] \in Sessions)'
    BY DEF TypeOK, LockTypes, CallTypes, Queued, Acquire, Goto, registry, locking, replies, calls, AllOps
  <2>7. (\A d \in Callers : Queued(d) <=> arc[d] # None)'
    BY DEF TypeOK, LockTypes, CallTypes, Queued, Acquire, Goto, registry, locking, replies, calls, AllOps
  <2> QED  BY <2>1, <2>2, <2>3, <2>4, <2>5, <2>6, <2>7 DEF CallTypes
<1> QED  BY <1>1, <1>2, <1>3, <1>4 DEF TypeOK

LEMMA RecheckType ==
  ASSUME TypeOK, NEW c \in Callers, Recheck(c)
  PROVE  TypeOK'
<1> USE CallersAssumption
<1>1. RegistryTypes'
  <2>1. CASE Found(c)
    BY <2>1, FoundType DEF TypeOK, CallTypes, Recheck
  <2>2. CASE UNCHANGED registry
    BY <2>2 DEF TypeOK, RegistryTypes, registry
  <2> QED  BY <2>1, <2>2 DEF Recheck
<1>2. LockTypes'
  BY DEF TypeOK, LockTypes, Recheck, locking, registry, locking, replies, calls
<1>3. ReplyTypes'
  BY DEF TypeOK, ReplyTypes, Recheck, replies, registry, locking, replies, calls
<1>4. CallTypes'
  <2>1. pc' \in [Callers -> {"idle", "lookup", "lock", "wait", "recheck", "build", "prune", "evict", "leave",
                           "untoken", "pop", "register", "reply", "unregister", "spawned"}]
    BY DEF TypeOK, LockTypes, CallTypes, Queued, Recheck, Found, Goto, registry, locking, replies, calls, AllOps
  <2>2. op' \in [Callers -> AllOps \cup {None}]
    BY DEF TypeOK, LockTypes, CallTypes, Queued, Recheck, Found, Goto, registry, locking, replies, calls, AllOps
  <2>3. sess' \in [Callers -> Sessions \cup {None}]
    BY DEF TypeOK, LockTypes, CallTypes, Queued, Recheck, Found, Goto, registry, locking, replies, calls, AllOps
  <2>4. (\A d \in Callers : pc[d] # "idle" => sess[d] \in Sessions)'
    BY DEF TypeOK, LockTypes, CallTypes, Queued, Recheck, Found, Goto, registry, locking, replies, calls, AllOps
  <2>5. victim' \in [Callers -> Sessions \cup {None}]
    BY DEF TypeOK, LockTypes, CallTypes, Queued, Recheck, Found, Goto, registry, locking, replies, calls, AllOps
  <2>6. (\A d \in Callers : pc[d] = "evict" => victim[d] \in Sessions)'
    BY DEF TypeOK, LockTypes, CallTypes, Queued, Recheck, Found, Goto, registry, locking, replies, calls, AllOps
  <2>7. (\A d \in Callers : Queued(d) <=> arc[d] # None)'
    BY DEF TypeOK, LockTypes, CallTypes, Queued, Recheck, Found, Goto, registry, locking, replies, calls, AllOps
  <2> QED  BY <2>1, <2>2, <2>3, <2>4, <2>5, <2>6, <2>7 DEF CallTypes
<1> QED  BY <1>1, <1>2, <1>3, <1>4 DEF TypeOK

LEMMA BuildFailsType ==
  ASSUME TypeOK, NEW c \in Callers, BuildFails(c)
  PROVE  TypeOK'
<1> USE CallersAssumption
<1>1. RegistryTypes'
  BY DEF TypeOK, RegistryTypes, BuildFails, registry, registry, locking, replies, calls
<1>2. LockTypes'
  BY DEF TypeOK, LockTypes, CallTypes, Queued, Touched, BuildFails, DropLock, Goto, registry, locking, replies, calls, AllOps
<1>3. ReplyTypes'
  BY DEF TypeOK, ReplyTypes, BuildFails, replies, registry, locking, replies, calls
<1>4. CallTypes'
  <2>1. pc' \in [Callers -> {"idle", "lookup", "lock", "wait", "recheck", "build", "prune", "evict", "leave",
                           "untoken", "pop", "register", "reply", "unregister", "spawned"}]
    BY DEF TypeOK, LockTypes, CallTypes, Queued, BuildFails, DropLock, Goto, registry, locking, replies, calls, AllOps
  <2>2. op' \in [Callers -> AllOps \cup {None}]
    BY DEF TypeOK, LockTypes, CallTypes, Queued, BuildFails, DropLock, Goto, registry, locking, replies, calls, AllOps
  <2>3. sess' \in [Callers -> Sessions \cup {None}]
    BY DEF TypeOK, LockTypes, CallTypes, Queued, BuildFails, DropLock, Goto, registry, locking, replies, calls, AllOps
  <2>4. (\A d \in Callers : pc[d] # "idle" => sess[d] \in Sessions)'
    BY DEF TypeOK, LockTypes, CallTypes, Queued, BuildFails, DropLock, Goto, registry, locking, replies, calls, AllOps
  <2>5. victim' \in [Callers -> Sessions \cup {None}]
    BY DEF TypeOK, LockTypes, CallTypes, Queued, BuildFails, DropLock, Goto, registry, locking, replies, calls, AllOps
  <2>6. (\A d \in Callers : pc[d] = "evict" => victim[d] \in Sessions)'
    BY DEF TypeOK, LockTypes, CallTypes, Queued, BuildFails, DropLock, Goto, registry, locking, replies, calls, AllOps
  <2>7. (\A d \in Callers : Queued(d) <=> arc[d] # None)'
    BY DEF TypeOK, LockTypes, CallTypes, Queued, BuildFails, DropLock, Goto, registry, locking, replies, calls, AllOps
  <2> QED  BY <2>1, <2>2, <2>3, <2>4, <2>5, <2>6, <2>7 DEF CallTypes
<1> QED  BY <1>1, <1>2, <1>3, <1>4 DEF TypeOK

LEMMA PruneOwnType ==
  ASSUME TypeOK, NEW c \in Callers, PruneOwn(c)
  PROVE  TypeOK'
<1> USE CallersAssumption
<1>1. RegistryTypes'
  BY DEF TypeOK, RegistryTypes, PruneOwn, registry, registry, locking, replies, calls
<1>2. LockTypes'
  BY DEF TypeOK, LockTypes, CallTypes, Queued, Touched, PruneOwn, Prune, InUse, Return, registry, locking, replies, calls, AllOps
<1>3. ReplyTypes'
  BY DEF TypeOK, ReplyTypes, PruneOwn, replies, registry, locking, replies, calls
<1>4. CallTypes'
  <2>1. pc' \in [Callers -> {"idle", "lookup", "lock", "wait", "recheck", "build", "prune", "evict", "leave",
                           "untoken", "pop", "register", "reply", "unregister", "spawned"}]
    BY DEF TypeOK, LockTypes, CallTypes, Queued, PruneOwn, Prune, InUse, Return, registry, locking, replies, calls, AllOps
  <2>2. op' \in [Callers -> AllOps \cup {None}]
    BY DEF TypeOK, LockTypes, CallTypes, Queued, PruneOwn, Prune, InUse, Return, registry, locking, replies, calls, AllOps
  <2>3. sess' \in [Callers -> Sessions \cup {None}]
    BY DEF TypeOK, LockTypes, CallTypes, Queued, PruneOwn, Prune, InUse, Return, registry, locking, replies, calls, AllOps
  <2>4. (\A d \in Callers : pc[d] # "idle" => sess[d] \in Sessions)'
    BY DEF TypeOK, LockTypes, CallTypes, Queued, PruneOwn, Prune, InUse, Return, registry, locking, replies, calls, AllOps
  <2>5. victim' \in [Callers -> Sessions \cup {None}]
    BY DEF TypeOK, LockTypes, CallTypes, Queued, PruneOwn, Prune, InUse, Return, registry, locking, replies, calls, AllOps
  <2>6. (\A d \in Callers : pc[d] = "evict" => victim[d] \in Sessions)'
    BY DEF TypeOK, LockTypes, CallTypes, Queued, PruneOwn, Prune, InUse, Return, registry, locking, replies, calls, AllOps
  <2>7. (\A d \in Callers : Queued(d) <=> arc[d] # None)'
    BY DEF TypeOK, LockTypes, CallTypes, Queued, PruneOwn, Prune, InUse, Return, registry, locking, replies, calls, AllOps
  <2> QED  BY <2>1, <2>2, <2>3, <2>4, <2>5, <2>6, <2>7 DEF CallTypes
<1> QED  BY <1>1, <1>2, <1>3, <1>4 DEF TypeOK

LEMMA PublishType ==
  ASSUME TypeOK, NEW c \in Callers, Publish(c)
  PROVE  TypeOK'
<1> USE CallersAssumption
<1>1. RegistryTypes'
  BY DEF TypeOK, RegistryTypes, CallTypes, Queued, Touched, Publish, Found, Goto, Cached, registry, locking, replies, calls, AllOps
<1>2. LockTypes'
  BY DEF TypeOK, LockTypes, Publish, locking, registry, locking, replies, calls
<1>3. ReplyTypes'
  BY DEF TypeOK, ReplyTypes, Publish, replies, registry, locking, replies, calls
<1>4. CallTypes'
  <2>1. pc' \in [Callers -> {"idle", "lookup", "lock", "wait", "recheck", "build", "prune", "evict", "leave",
                           "untoken", "pop", "register", "reply", "unregister", "spawned"}]
    BY PublishEffect DEF TypeOK, LockTypes, CallTypes, Queued, locking
  <2>2. op' \in [Callers -> AllOps \cup {None}]
    BY PublishEffect DEF TypeOK, LockTypes, CallTypes, Queued, locking
  <2>3. sess' \in [Callers -> Sessions \cup {None}]
    BY PublishEffect DEF TypeOK, LockTypes, CallTypes, Queued, locking
  <2>4. (\A d \in Callers : pc[d] # "idle" => sess[d] \in Sessions)'
    BY PublishEffect DEF TypeOK, LockTypes, CallTypes, Queued, locking
  <2>5. victim' \in [Callers -> Sessions \cup {None}]
    BY PublishEffect DEF TypeOK, LockTypes, CallTypes, Queued, locking
  <2>6. (\A d \in Callers : pc[d] = "evict" => victim[d] \in Sessions)'
    BY PublishEffect DEF TypeOK, LockTypes, CallTypes, Queued, locking
  <2>7. (\A d \in Callers : Queued(d) <=> arc[d] # None)'
    BY PublishEffect DEF TypeOK, LockTypes, CallTypes, Queued, locking
  <2> QED  BY <2>1, <2>2, <2>3, <2>4, <2>5, <2>6, <2>7 DEF CallTypes
<1> QED  BY <1>1, <1>2, <1>3, <1>4 DEF TypeOK

LEMMA PruneEvictedType ==
  ASSUME TypeOK, NEW c \in Callers, PruneEvicted(c)
  PROVE  TypeOK'
<1> USE CallersAssumption
<1>1. RegistryTypes'
  BY DEF TypeOK, RegistryTypes, PruneEvicted, registry, registry, locking, replies, calls
<1>2. LockTypes'
  BY DEF TypeOK, LockTypes, CallTypes, Queued, Touched, PruneEvicted, Prune, InUse, Goto, registry, locking, replies, calls, AllOps
<1>3. ReplyTypes'
  BY DEF TypeOK, ReplyTypes, PruneEvicted, replies, registry, locking, replies, calls
<1>4. CallTypes'
  <2>1. pc' \in [Callers -> {"idle", "lookup", "lock", "wait", "recheck", "build", "prune", "evict", "leave",
                           "untoken", "pop", "register", "reply", "unregister", "spawned"}]
    BY DEF TypeOK, LockTypes, CallTypes, Queued, PruneEvicted, Prune, InUse, Goto, registry, locking, replies, calls, AllOps
  <2>2. op' \in [Callers -> AllOps \cup {None}]
    BY DEF TypeOK, LockTypes, CallTypes, Queued, PruneEvicted, Prune, InUse, Goto, registry, locking, replies, calls, AllOps
  <2>3. sess' \in [Callers -> Sessions \cup {None}]
    BY DEF TypeOK, LockTypes, CallTypes, Queued, PruneEvicted, Prune, InUse, Goto, registry, locking, replies, calls, AllOps
  <2>4. (\A d \in Callers : pc[d] # "idle" => sess[d] \in Sessions)'
    BY DEF TypeOK, LockTypes, CallTypes, Queued, PruneEvicted, Prune, InUse, Goto, registry, locking, replies, calls, AllOps
  <2>5. victim' \in [Callers -> Sessions \cup {None}]
    BY DEF TypeOK, LockTypes, CallTypes, Queued, PruneEvicted, Prune, InUse, Goto, registry, locking, replies, calls, AllOps
  <2>6. (\A d \in Callers : pc[d] = "evict" => victim[d] \in Sessions)'
    BY DEF TypeOK, LockTypes, CallTypes, Queued, PruneEvicted, Prune, InUse, Goto, registry, locking, replies, calls, AllOps
  <2>7. (\A d \in Callers : Queued(d) <=> arc[d] # None)'
    BY DEF TypeOK, LockTypes, CallTypes, Queued, PruneEvicted, Prune, InUse, Goto, registry, locking, replies, calls, AllOps
  <2> QED  BY <2>1, <2>2, <2>3, <2>4, <2>5, <2>6, <2>7 DEF CallTypes
<1> QED  BY <1>1, <1>2, <1>3, <1>4 DEF TypeOK

LEMMA LeaveType ==
  ASSUME TypeOK, NEW c \in Callers, Leave(c)
  PROVE  TypeOK'
<1> USE CallersAssumption
<1>1. RegistryTypes'
  BY DEF TypeOK, RegistryTypes, Leave, registry, registry, locking, replies, calls
<1>2. LockTypes'
  BY DEF TypeOK, LockTypes, CallTypes, Queued, Touched, Leave, DropLock, GotAgent, Goto, Return, registry, locking, replies, calls, AllOps
<1>3. ReplyTypes'
  BY DEF TypeOK, ReplyTypes, Leave, replies, registry, locking, replies, calls
<1>4. CallTypes'
  <2>1. pc' \in [Callers -> {"idle", "lookup", "lock", "wait", "recheck", "build", "prune", "evict", "leave",
                           "untoken", "pop", "register", "reply", "unregister", "spawned"}]
    BY DEF TypeOK, LockTypes, CallTypes, Queued, Leave, DropLock, GotAgent, Goto, Return, registry, locking, replies, calls, AllOps
  <2>2. op' \in [Callers -> AllOps \cup {None}]
    BY DEF TypeOK, LockTypes, CallTypes, Queued, Leave, DropLock, GotAgent, Goto, Return, registry, locking, replies, calls, AllOps
  <2>3. sess' \in [Callers -> Sessions \cup {None}]
    BY DEF TypeOK, LockTypes, CallTypes, Queued, Leave, DropLock, GotAgent, Goto, Return, registry, locking, replies, calls, AllOps
  <2>4. (\A d \in Callers : pc[d] # "idle" => sess[d] \in Sessions)'
    BY DEF TypeOK, LockTypes, CallTypes, Queued, Leave, DropLock, GotAgent, Goto, Return, registry, locking, replies, calls, AllOps
  <2>5. victim' \in [Callers -> Sessions \cup {None}]
    BY DEF TypeOK, LockTypes, CallTypes, Queued, Leave, DropLock, GotAgent, Goto, Return, registry, locking, replies, calls, AllOps
  <2>6. (\A d \in Callers : pc[d] = "evict" => victim[d] \in Sessions)'
    BY DEF TypeOK, LockTypes, CallTypes, Queued, Leave, DropLock, GotAgent, Goto, Return, registry, locking, replies, calls, AllOps
  <2>7. (\A d \in Callers : Queued(d) <=> arc[d] # None)'
    BY DEF TypeOK, LockTypes, CallTypes, Queued, Leave, DropLock, GotAgent, Goto, Return, registry, locking, replies, calls, AllOps
  <2> QED  BY <2>1, <2>2, <2>3, <2>4, <2>5, <2>6, <2>7 DEF CallTypes
<1> QED  BY <1>1, <1>2, <1>3, <1>4 DEF TypeOK

LEMMA AbortType ==
  ASSUME TypeOK, NEW c \in Callers, Abort(c)
  PROVE  TypeOK'
<1> USE CallersAssumption
<1>1. RegistryTypes'
  BY DEF TypeOK, RegistryTypes, Abort, registry, registry, locking, replies, calls
<1>2. LockTypes'
  BY DEF TypeOK, LockTypes, CallTypes, Queued, Touched, Abort, DropLock, Return, registry, locking, replies, calls, AllOps
<1>3. ReplyTypes'
  BY DEF TypeOK, ReplyTypes, CallTypes, Queued, Touched, Abort, DropLock, Return, registry, locking, replies, calls, AllOps
<1>4. CallTypes'
  <2>1. pc' \in [Callers -> {"idle", "lookup", "lock", "wait", "recheck", "build", "prune", "evict", "leave",
                           "untoken", "pop", "register", "reply", "unregister", "spawned"}]
    BY DEF TypeOK, LockTypes, CallTypes, Queued, Abort, DropLock, Return, registry, locking, replies, calls, AllOps
  <2>2. op' \in [Callers -> AllOps \cup {None}]
    BY DEF TypeOK, LockTypes, CallTypes, Queued, Abort, DropLock, Return, registry, locking, replies, calls, AllOps
  <2>3. sess' \in [Callers -> Sessions \cup {None}]
    BY DEF TypeOK, LockTypes, CallTypes, Queued, Abort, DropLock, Return, registry, locking, replies, calls, AllOps
  <2>4. (\A d \in Callers : pc[d] # "idle" => sess[d] \in Sessions)'
    BY DEF TypeOK, LockTypes, CallTypes, Queued, Abort, DropLock, Return, registry, locking, replies, calls, AllOps
  <2>5. victim' \in [Callers -> Sessions \cup {None}]
    BY DEF TypeOK, LockTypes, CallTypes, Queued, Abort, DropLock, Return, registry, locking, replies, calls, AllOps
  <2>6. (\A d \in Callers : pc[d] = "evict" => victim[d] \in Sessions)'
    BY DEF TypeOK, LockTypes, CallTypes, Queued, Abort, DropLock, Return, registry, locking, replies, calls, AllOps
  <2>7. (\A d \in Callers : Queued(d) <=> arc[d] # None)'
    BY DEF TypeOK, LockTypes, CallTypes, Queued, Abort, DropLock, Return, registry, locking, replies, calls, AllOps
  <2> QED  BY <2>1, <2>2, <2>3, <2>4, <2>5, <2>6, <2>7 DEF CallTypes
<1> QED  BY <1>1, <1>2, <1>3, <1>4 DEF TypeOK

LEMMA RemoveTokenType ==
  ASSUME TypeOK, NEW c \in Callers, RemoveToken(c)
  PROVE  TypeOK'
<1> USE CallersAssumption
<1>1. RegistryTypes'
  BY DEF TypeOK, RegistryTypes, RemoveToken, registry, registry, locking, replies, calls
<1>2. LockTypes'
  BY DEF TypeOK, LockTypes, RemoveToken, locking, registry, locking, replies, calls
<1>3. ReplyTypes'
  BY DEF TypeOK, ReplyTypes, CallTypes, Queued, Touched, RemoveToken, Goto, registry, locking, replies, calls, AllOps
<1>4. CallTypes'
  <2>1. pc' \in [Callers -> {"idle", "lookup", "lock", "wait", "recheck", "build", "prune", "evict", "leave",
                           "untoken", "pop", "register", "reply", "unregister", "spawned"}]
    BY DEF TypeOK, LockTypes, CallTypes, Queued, RemoveToken, Goto, registry, locking, replies, calls, AllOps
  <2>2. op' \in [Callers -> AllOps \cup {None}]
    BY DEF TypeOK, LockTypes, CallTypes, Queued, RemoveToken, Goto, registry, locking, replies, calls, AllOps
  <2>3. sess' \in [Callers -> Sessions \cup {None}]
    BY DEF TypeOK, LockTypes, CallTypes, Queued, RemoveToken, Goto, registry, locking, replies, calls, AllOps
  <2>4. (\A d \in Callers : pc[d] # "idle" => sess[d] \in Sessions)'
    BY DEF TypeOK, LockTypes, CallTypes, Queued, RemoveToken, Goto, registry, locking, replies, calls, AllOps
  <2>5. victim' \in [Callers -> Sessions \cup {None}]
    BY DEF TypeOK, LockTypes, CallTypes, Queued, RemoveToken, Goto, registry, locking, replies, calls, AllOps
  <2>6. (\A d \in Callers : pc[d] = "evict" => victim[d] \in Sessions)'
    BY DEF TypeOK, LockTypes, CallTypes, Queued, RemoveToken, Goto, registry, locking, replies, calls, AllOps
  <2>7. (\A d \in Callers : Queued(d) <=> arc[d] # None)'
    BY DEF TypeOK, LockTypes, CallTypes, Queued, RemoveToken, Goto, registry, locking, replies, calls, AllOps
  <2> QED  BY <2>1, <2>2, <2>3, <2>4, <2>5, <2>6, <2>7 DEF CallTypes
<1> QED  BY <1>1, <1>2, <1>3, <1>4 DEF TypeOK

LEMMA PopType ==
  ASSUME TypeOK, NEW c \in Callers, Pop(c)
  PROVE  TypeOK'
<1> USE CallersAssumption
<1>1. RegistryTypes'
  BY DEF TypeOK, RegistryTypes, CallTypes, Queued, Touched, Pop, Goto, Return, registry, locking, replies, calls, AllOps
<1>2. LockTypes'
  BY DEF TypeOK, LockTypes, Pop, locking, registry, locking, replies, calls
<1>3. ReplyTypes'
  BY DEF TypeOK, ReplyTypes, Pop, replies, registry, locking, replies, calls
<1>4. CallTypes'
  <2>1. pc' \in [Callers -> {"idle", "lookup", "lock", "wait", "recheck", "build", "prune", "evict", "leave",
                           "untoken", "pop", "register", "reply", "unregister", "spawned"}]
    BY DEF TypeOK, LockTypes, CallTypes, Queued, Pop, Goto, Return, registry, locking, replies, calls, AllOps
  <2>2. op' \in [Callers -> AllOps \cup {None}]
    BY DEF TypeOK, LockTypes, CallTypes, Queued, Pop, Goto, Return, registry, locking, replies, calls, AllOps
  <2>3. sess' \in [Callers -> Sessions \cup {None}]
    BY DEF TypeOK, LockTypes, CallTypes, Queued, Pop, Goto, Return, registry, locking, replies, calls, AllOps
  <2>4. (\A d \in Callers : pc[d] # "idle" => sess[d] \in Sessions)'
    BY DEF TypeOK, LockTypes, CallTypes, Queued, Pop, Goto, Return, registry, locking, replies, calls, AllOps
  <2>5. victim' \in [Callers -> Sessions \cup {None}]
    BY DEF TypeOK, LockTypes, CallTypes, Queued, Pop, Goto, Return, registry, locking, replies, calls, AllOps
  <2>6. (\A d \in Callers : pc[d] = "evict" => victim[d] \in Sessions)'
    BY DEF TypeOK, LockTypes, CallTypes, Queued, Pop, Goto, Return, registry, locking, replies, calls, AllOps
  <2>7. (\A d \in Callers : Queued(d) <=> arc[d] # None)'
    BY DEF TypeOK, LockTypes, CallTypes, Queued, Pop, Goto, Return, registry, locking, replies, calls, AllOps
  <2> QED  BY <2>1, <2>2, <2>3, <2>4, <2>5, <2>6, <2>7 DEF CallTypes
<1> QED  BY <1>1, <1>2, <1>3, <1>4 DEF TypeOK

LEMMA TryRegisterType ==
  ASSUME TypeOK, NEW c \in Callers, TryRegister(c)
  PROVE  TypeOK'
<1> USE CallersAssumption
<1>1. RegistryTypes'
  BY DEF TypeOK, RegistryTypes, TryRegister, registry, registry, locking, replies, calls
<1>2. LockTypes'
  BY DEF TypeOK, LockTypes, TryRegister, locking, registry, locking, replies, calls
<1>3. ReplyTypes'
  BY DEF TypeOK, ReplyTypes, CallTypes, Queued, Touched, TryRegister, Goto, Return, registry, locking, replies, calls, AllOps
<1>4. CallTypes'
  <2>1. pc' \in [Callers -> {"idle", "lookup", "lock", "wait", "recheck", "build", "prune", "evict", "leave",
                           "untoken", "pop", "register", "reply", "unregister", "spawned"}]
    BY DEF TypeOK, LockTypes, CallTypes, Queued, TryRegister, Goto, Return, registry, locking, replies, calls, AllOps
  <2>2. op' \in [Callers -> AllOps \cup {None}]
    BY DEF TypeOK, LockTypes, CallTypes, Queued, TryRegister, Goto, Return, registry, locking, replies, calls, AllOps
  <2>3. sess' \in [Callers -> Sessions \cup {None}]
    BY DEF TypeOK, LockTypes, CallTypes, Queued, TryRegister, Goto, Return, registry, locking, replies, calls, AllOps
  <2>4. (\A d \in Callers : pc[d] # "idle" => sess[d] \in Sessions)'
    BY DEF TypeOK, LockTypes, CallTypes, Queued, TryRegister, Goto, Return, registry, locking, replies, calls, AllOps
  <2>5. victim' \in [Callers -> Sessions \cup {None}]
    BY DEF TypeOK, LockTypes, CallTypes, Queued, TryRegister, Goto, Return, registry, locking, replies, calls, AllOps
  <2>6. (\A d \in Callers : pc[d] = "evict" => victim[d] \in Sessions)'
    BY DEF TypeOK, LockTypes, CallTypes, Queued, TryRegister, Goto, Return, registry, locking, replies, calls, AllOps
  <2>7. (\A d \in Callers : Queued(d) <=> arc[d] # None)'
    BY DEF TypeOK, LockTypes, CallTypes, Queued, TryRegister, Goto, Return, registry, locking, replies, calls, AllOps
  <2> QED  BY <2>1, <2>2, <2>3, <2>4, <2>5, <2>6, <2>7 DEF CallTypes
<1> QED  BY <1>1, <1>2, <1>3, <1>4 DEF TypeOK

LEMMA SendFailsType ==
  ASSUME TypeOK, NEW c \in Callers, SendFails(c)
  PROVE  TypeOK'
<1> USE CallersAssumption
<1>1. RegistryTypes'
  BY DEF TypeOK, RegistryTypes, SendFails, registry, registry, locking, replies, calls
<1>2. LockTypes'
  BY DEF TypeOK, LockTypes, SendFails, locking, registry, locking, replies, calls
<1>3. ReplyTypes'
  BY DEF TypeOK, ReplyTypes, SendFails, replies, registry, locking, replies, calls
<1>4. CallTypes'
  <2>1. pc' \in [Callers -> {"idle", "lookup", "lock", "wait", "recheck", "build", "prune", "evict", "leave",
                           "untoken", "pop", "register", "reply", "unregister", "spawned"}]
    BY DEF TypeOK, LockTypes, CallTypes, Queued, SendFails, Return, registry, locking, replies, calls, AllOps
  <2>2. op' \in [Callers -> AllOps \cup {None}]
    BY DEF TypeOK, LockTypes, CallTypes, Queued, SendFails, Return, registry, locking, replies, calls, AllOps
  <2>3. sess' \in [Callers -> Sessions \cup {None}]
    BY DEF TypeOK, LockTypes, CallTypes, Queued, SendFails, Return, registry, locking, replies, calls, AllOps
  <2>4. (\A d \in Callers : pc[d] # "idle" => sess[d] \in Sessions)'
    BY DEF TypeOK, LockTypes, CallTypes, Queued, SendFails, Return, registry, locking, replies, calls, AllOps
  <2>5. victim' \in [Callers -> Sessions \cup {None}]
    BY DEF TypeOK, LockTypes, CallTypes, Queued, SendFails, Return, registry, locking, replies, calls, AllOps
  <2>6. (\A d \in Callers : pc[d] = "evict" => victim[d] \in Sessions)'
    BY DEF TypeOK, LockTypes, CallTypes, Queued, SendFails, Return, registry, locking, replies, calls, AllOps
  <2>7. (\A d \in Callers : Queued(d) <=> arc[d] # None)'
    BY DEF TypeOK, LockTypes, CallTypes, Queued, SendFails, Return, registry, locking, replies, calls, AllOps
  <2> QED  BY <2>1, <2>2, <2>3, <2>4, <2>5, <2>6, <2>7 DEF CallTypes
<1> QED  BY <1>1, <1>2, <1>3, <1>4 DEF TypeOK

LEMMA ReplyEndsType ==
  ASSUME TypeOK, NEW c \in Callers, ReplyEnds(c)
  PROVE  TypeOK'
<1> USE CallersAssumption
<1>1. RegistryTypes'
  BY DEF TypeOK, RegistryTypes, ReplyEnds, registry, registry, locking, replies, calls
<1>2. LockTypes'
  BY DEF TypeOK, LockTypes, ReplyEnds, locking, registry, locking, replies, calls
<1>3. ReplyTypes'
  BY DEF TypeOK, ReplyTypes, ReplyEnds, replies, registry, locking, replies, calls
<1>4. CallTypes'
  <2>1. pc' \in [Callers -> {"idle", "lookup", "lock", "wait", "recheck", "build", "prune", "evict", "leave",
                           "untoken", "pop", "register", "reply", "unregister", "spawned"}]
    BY DEF TypeOK, LockTypes, CallTypes, Queued, ReplyEnds, Goto, registry, locking, replies, calls, AllOps
  <2>2. op' \in [Callers -> AllOps \cup {None}]
    BY DEF TypeOK, LockTypes, CallTypes, Queued, ReplyEnds, Goto, registry, locking, replies, calls, AllOps
  <2>3. sess' \in [Callers -> Sessions \cup {None}]
    BY DEF TypeOK, LockTypes, CallTypes, Queued, ReplyEnds, Goto, registry, locking, replies, calls, AllOps
  <2>4. (\A d \in Callers : pc[d] # "idle" => sess[d] \in Sessions)'
    BY DEF TypeOK, LockTypes, CallTypes, Queued, ReplyEnds, Goto, registry, locking, replies, calls, AllOps
  <2>5. victim' \in [Callers -> Sessions \cup {None}]
    BY DEF TypeOK, LockTypes, CallTypes, Queued, ReplyEnds, Goto, registry, locking, replies, calls, AllOps
  <2>6. (\A d \in Callers : pc[d] = "evict" => victim[d] \in Sessions)'
    BY DEF TypeOK, LockTypes, CallTypes, Queued, ReplyEnds, Goto, registry, locking, replies, calls, AllOps
  <2>7. (\A d \in Callers : Queued(d) <=> arc[d] # None)'
    BY DEF TypeOK, LockTypes, CallTypes, Queued, ReplyEnds, Goto, registry, locking, replies, calls, AllOps
  <2> QED  BY <2>1, <2>2, <2>3, <2>4, <2>5, <2>6, <2>7 DEF CallTypes
<1> QED  BY <1>1, <1>2, <1>3, <1>4 DEF TypeOK

LEMMA UnregisterType ==
  ASSUME TypeOK, NEW c \in Callers, Unregister(c)
  PROVE  TypeOK'
<1> USE CallersAssumption
<1>1. RegistryTypes'
  BY DEF TypeOK, RegistryTypes, Unregister, registry, registry, locking, replies, calls
<1>2. LockTypes'
  BY DEF TypeOK, LockTypes, Unregister, locking, registry, locking, replies, calls
<1>3. ReplyTypes'
  BY DEF TypeOK, ReplyTypes, CallTypes, Queued, Touched, Unregister, Return, registry, locking, replies, calls, AllOps
<1>4. CallTypes'
  <2>1. pc' \in [Callers -> {"idle", "lookup", "lock", "wait", "recheck", "build", "prune", "evict", "leave",
                           "untoken", "pop", "register", "reply", "unregister", "spawned"}]
    BY DEF TypeOK, LockTypes, CallTypes, Queued, Unregister, Return, registry, locking, replies, calls, AllOps
  <2>2. op' \in [Callers -> AllOps \cup {None}]
    BY DEF TypeOK, LockTypes, CallTypes, Queued, Unregister, Return, registry, locking, replies, calls, AllOps
  <2>3. sess' \in [Callers -> Sessions \cup {None}]
    BY DEF TypeOK, LockTypes, CallTypes, Queued, Unregister, Return, registry, locking, replies, calls, AllOps
  <2>4. (\A d \in Callers : pc[d] # "idle" => sess[d] \in Sessions)'
    BY DEF TypeOK, LockTypes, CallTypes, Queued, Unregister, Return, registry, locking, replies, calls, AllOps
  <2>5. victim' \in [Callers -> Sessions \cup {None}]
    BY DEF TypeOK, LockTypes, CallTypes, Queued, Unregister, Return, registry, locking, replies, calls, AllOps
  <2>6. (\A d \in Callers : pc[d] = "evict" => victim[d] \in Sessions)'
    BY DEF TypeOK, LockTypes, CallTypes, Queued, Unregister, Return, registry, locking, replies, calls, AllOps
  <2>7. (\A d \in Callers : Queued(d) <=> arc[d] # None)'
    BY DEF TypeOK, LockTypes, CallTypes, Queued, Unregister, Return, registry, locking, replies, calls, AllOps
  <2> QED  BY <2>1, <2>2, <2>3, <2>4, <2>5, <2>6, <2>7 DEF CallTypes
<1> QED  BY <1>1, <1>2, <1>3, <1>4 DEF TypeOK

LEMMA InterruptType ==
  ASSUME TypeOK, NEW s \in Sessions, Interrupt(s)
  PROVE  TypeOK'
<1> USE CallersAssumption
<1>1. RegistryTypes'
  BY DEF TypeOK, RegistryTypes, Interrupt, registry, registry, locking, replies, calls
<1>2. LockTypes'
  BY DEF TypeOK, LockTypes, Interrupt, locking, registry, locking, replies, calls
<1>3. ReplyTypes'
  BY DEF TypeOK, ReplyTypes, CallTypes, Queued, Touched, Interrupt, registry, locking, replies, calls, AllOps
<1>4. CallTypes'
  BY DEF TypeOK, CallTypes, Queued, Interrupt, calls, locking
<1> QED  BY <1>1, <1>2, <1>3, <1>4 DEF TypeOK

-----------------------------------------------------------------------------
(* The locks.                                                              *)

LEMMA CallInv ==
  ASSUME IInv, NEW c \in Callers, NEW o \in AllOps, NEW s \in Sessions, Call(c, o, s)
  PROVE  IInv'
<1> USE CallersAssumption
<1>1. TypeOK'
  BY CallType DEF IInv
<1>2. LockDiscipline'
  BY <1>1 DEF IInv, TypeOK, LockTypes, CallTypes, RegistryTypes, Queued, Inside, LockDiscipline, OneLockPerSession, BuilderAlone, Call, registry, locking, replies, calls, AllOps
<1>3. OneLockPerSession'
  BY <1>1 DEF IInv, TypeOK, LockTypes, CallTypes, RegistryTypes, Queued, Inside, LockDiscipline, OneLockPerSession, BuilderAlone, Call, registry, locking, replies, calls, AllOps
<1>4. BuilderAlone'
  BY <1>1 DEF IInv, TypeOK, LockTypes, CallTypes, RegistryTypes, Queued, Inside, LockDiscipline, OneLockPerSession, BuilderAlone, Call, registry, locking, replies, calls, AllOps
<1> QED  BY <1>1, <1>2, <1>3, <1>4 DEF IInv

LEMMA LookupInv ==
  ASSUME IInv, NEW c \in Callers, Lookup(c)
  PROVE  IInv'
<1> USE CallersAssumption
<1>1. TypeOK'
  BY LookupType DEF IInv
<1>2. LockDiscipline'
  BY <1>1 DEF IInv, TypeOK, LockTypes, CallTypes, RegistryTypes, Queued, Inside, LockDiscipline, OneLockPerSession, BuilderAlone, Lookup, Found, GotAgent, Goto, Return, registry, locking, replies, calls, AllOps
<1>3. OneLockPerSession'
  BY <1>1 DEF IInv, TypeOK, LockTypes, CallTypes, RegistryTypes, Queued, Inside, LockDiscipline, OneLockPerSession, BuilderAlone, Lookup, Found, GotAgent, Goto, Return, registry, locking, replies, calls, AllOps
<1>4. BuilderAlone'
  BY <1>1 DEF IInv, TypeOK, LockTypes, CallTypes, RegistryTypes, Queued, Inside, LockDiscipline, OneLockPerSession, BuilderAlone, Lookup, Found, GotAgent, Goto, Return, registry, locking, replies, calls, AllOps
<1> QED  BY <1>1, <1>2, <1>3, <1>4 DEF IInv

LEMMA TakeArcInv ==
  ASSUME IInv, NEW c \in Callers, TakeArc(c)
  PROVE  IInv'
<1> USE CallersAssumption
<1>1. TypeOK'
  BY TakeArcType DEF IInv
<1>2. LockDiscipline'
  BY <1>1 DEF IInv, TypeOK, LockTypes, CallTypes, RegistryTypes, Queued, Inside, LockDiscipline, OneLockPerSession, BuilderAlone, TakeArc, Goto, registry, locking, replies, calls, AllOps
<1>3. OneLockPerSession'
  BY <1>1 DEF IInv, TypeOK, LockTypes, CallTypes, RegistryTypes, Queued, Inside, LockDiscipline, OneLockPerSession, BuilderAlone, TakeArc, Goto, registry, locking, replies, calls, AllOps
<1>4. BuilderAlone'
  BY <1>1 DEF IInv, TypeOK, LockTypes, CallTypes, RegistryTypes, Queued, Inside, LockDiscipline, OneLockPerSession, BuilderAlone, TakeArc, Goto, registry, locking, replies, calls, AllOps
<1> QED  BY <1>1, <1>2, <1>3, <1>4 DEF IInv

LEMMA AcquireInv ==
  ASSUME IInv, NEW c \in Callers, Acquire(c)
  PROVE  IInv'
<1> USE CallersAssumption
<1>1. TypeOK'
  BY AcquireType DEF IInv
<1>2. LockDiscipline'
  BY <1>1 DEF IInv, TypeOK, LockTypes, CallTypes, RegistryTypes, Queued, Inside, LockDiscipline, OneLockPerSession, BuilderAlone, Acquire, Goto, registry, locking, replies, calls, AllOps
<1>3. OneLockPerSession'
  BY <1>1 DEF IInv, TypeOK, LockTypes, CallTypes, RegistryTypes, Queued, Inside, LockDiscipline, OneLockPerSession, BuilderAlone, Acquire, Goto, registry, locking, replies, calls, AllOps
<1>4. BuilderAlone'
  BY <1>1 DEF IInv, TypeOK, LockTypes, CallTypes, RegistryTypes, Queued, Inside, LockDiscipline, OneLockPerSession, BuilderAlone, Acquire, Goto, registry, locking, replies, calls, AllOps
<1> QED  BY <1>1, <1>2, <1>3, <1>4 DEF IInv

LEMMA RecheckInv ==
  ASSUME IInv, NEW c \in Callers, Recheck(c)
  PROVE  IInv'
<1> USE CallersAssumption
<1>1. TypeOK'
  BY RecheckType DEF IInv
<1>2. LockDiscipline'
  BY <1>1 DEF IInv, TypeOK, LockTypes, CallTypes, RegistryTypes, Queued, Inside, LockDiscipline, OneLockPerSession, BuilderAlone, Recheck, Found, Goto, registry, locking, replies, calls, AllOps
<1>3. OneLockPerSession'
  BY <1>1 DEF IInv, TypeOK, LockTypes, CallTypes, RegistryTypes, Queued, Inside, LockDiscipline, OneLockPerSession, BuilderAlone, Recheck, Found, Goto, registry, locking, replies, calls, AllOps
<1>4. BuilderAlone'
  BY <1>1 DEF IInv, TypeOK, LockTypes, CallTypes, RegistryTypes, Queued, Inside, LockDiscipline, OneLockPerSession, BuilderAlone, Recheck, Found, Goto, registry, locking, replies, calls, AllOps
<1> QED  BY <1>1, <1>2, <1>3, <1>4 DEF IInv

LEMMA BuildFailsInv ==
  ASSUME IInv, NEW c \in Callers, BuildFails(c)
  PROVE  IInv'
<1> USE CallersAssumption
<1>1. TypeOK'
  BY BuildFailsType DEF IInv
<1>2. LockDiscipline'
  BY <1>1 DEF IInv, TypeOK, LockTypes, CallTypes, RegistryTypes, Queued, Inside, LockDiscipline, OneLockPerSession, BuilderAlone, BuildFails, DropLock, Goto, registry, locking, replies, calls, AllOps
<1>3. OneLockPerSession'
  BY <1>1 DEF IInv, TypeOK, LockTypes, CallTypes, RegistryTypes, Queued, Inside, LockDiscipline, OneLockPerSession, BuilderAlone, BuildFails, DropLock, Goto, registry, locking, replies, calls, AllOps
<1>4. BuilderAlone'
  BY <1>1 DEF IInv, TypeOK, LockTypes, CallTypes, RegistryTypes, Queued, Inside, LockDiscipline, OneLockPerSession, BuilderAlone, BuildFails, DropLock, Goto, registry, locking, replies, calls, AllOps
<1> QED  BY <1>1, <1>2, <1>3, <1>4 DEF IInv

LEMMA PruneOwnInv ==
  ASSUME IInv, NEW c \in Callers, PruneOwn(c)
  PROVE  IInv'
<1> USE CallersAssumption
<1>1. TypeOK'
  BY PruneOwnType DEF IInv
<1>2. LockDiscipline'
  BY <1>1 DEF IInv, TypeOK, LockTypes, CallTypes, RegistryTypes, Queued, Inside, LockDiscipline, OneLockPerSession, BuilderAlone, PruneOwn, Prune, InUse, Return, registry, locking, replies, calls, AllOps
<1>3. OneLockPerSession'
  BY <1>1 DEF IInv, TypeOK, LockTypes, CallTypes, RegistryTypes, Queued, Inside, LockDiscipline, OneLockPerSession, BuilderAlone, PruneOwn, Prune, InUse, Return, registry, locking, replies, calls, AllOps
<1>4. BuilderAlone'
  BY <1>1 DEF IInv, TypeOK, LockTypes, CallTypes, RegistryTypes, Queued, Inside, LockDiscipline, OneLockPerSession, BuilderAlone, PruneOwn, Prune, InUse, Return, registry, locking, replies, calls, AllOps
<1> QED  BY <1>1, <1>2, <1>3, <1>4 DEF IInv

LEMMA PublishInv ==
  ASSUME IInv, NEW c \in Callers, Publish(c)
  PROVE  IInv'
<1> USE CallersAssumption
<1>1. TypeOK'
  BY PublishType DEF IInv
<1>2. LockDiscipline'
  BY <1>1, PublishEffect DEF IInv, TypeOK, LockTypes, CallTypes, RegistryTypes, Queued, Inside, LockDiscipline, OneLockPerSession, BuilderAlone, locking
<1>3. OneLockPerSession'
  BY <1>1, PublishEffect DEF IInv, TypeOK, LockTypes, CallTypes, RegistryTypes, Queued, Inside, LockDiscipline, OneLockPerSession, BuilderAlone, locking
<1>4. BuilderAlone'
  BY <1>1, PublishEffect DEF IInv, TypeOK, LockTypes, CallTypes, RegistryTypes, Queued, Inside, LockDiscipline, OneLockPerSession, BuilderAlone, locking
<1> QED  BY <1>1, <1>2, <1>3, <1>4 DEF IInv

LEMMA PruneEvictedInv ==
  ASSUME IInv, NEW c \in Callers, PruneEvicted(c)
  PROVE  IInv'
<1> USE CallersAssumption
<1>1. TypeOK'
  BY PruneEvictedType DEF IInv
<1>2. LockDiscipline'
  BY <1>1 DEF IInv, TypeOK, LockTypes, CallTypes, RegistryTypes, Queued, Inside, LockDiscipline, OneLockPerSession, BuilderAlone, PruneEvicted, Prune, InUse, Goto, registry, locking, replies, calls, AllOps
<1>3. OneLockPerSession'
  BY <1>1 DEF IInv, TypeOK, LockTypes, CallTypes, RegistryTypes, Queued, Inside, LockDiscipline, OneLockPerSession, BuilderAlone, PruneEvicted, Prune, InUse, Goto, registry, locking, replies, calls, AllOps
<1>4. BuilderAlone'
  BY <1>1 DEF IInv, TypeOK, LockTypes, CallTypes, RegistryTypes, Queued, Inside, LockDiscipline, OneLockPerSession, BuilderAlone, PruneEvicted, Prune, InUse, Goto, registry, locking, replies, calls, AllOps
<1> QED  BY <1>1, <1>2, <1>3, <1>4 DEF IInv

LEMMA LeaveInv ==
  ASSUME IInv, NEW c \in Callers, Leave(c)
  PROVE  IInv'
<1> USE CallersAssumption
<1>1. TypeOK'
  BY LeaveType DEF IInv
<1>2. LockDiscipline'
  BY <1>1 DEF IInv, TypeOK, LockTypes, CallTypes, RegistryTypes, Queued, Inside, LockDiscipline, OneLockPerSession, BuilderAlone, Leave, DropLock, GotAgent, Goto, Return, registry, locking, replies, calls, AllOps
<1>3. OneLockPerSession'
  BY <1>1 DEF IInv, TypeOK, LockTypes, CallTypes, RegistryTypes, Queued, Inside, LockDiscipline, OneLockPerSession, BuilderAlone, Leave, DropLock, GotAgent, Goto, Return, registry, locking, replies, calls, AllOps
<1>4. BuilderAlone'
  BY <1>1 DEF IInv, TypeOK, LockTypes, CallTypes, RegistryTypes, Queued, Inside, LockDiscipline, OneLockPerSession, BuilderAlone, Leave, DropLock, GotAgent, Goto, Return, registry, locking, replies, calls, AllOps
<1> QED  BY <1>1, <1>2, <1>3, <1>4 DEF IInv

LEMMA AbortInv ==
  ASSUME IInv, NEW c \in Callers, Abort(c)
  PROVE  IInv'
<1> USE CallersAssumption
<1>1. TypeOK'
  BY AbortType DEF IInv
<1>2. LockDiscipline'
  BY <1>1 DEF IInv, TypeOK, LockTypes, CallTypes, RegistryTypes, Queued, Inside, LockDiscipline, OneLockPerSession, BuilderAlone, Abort, DropLock, Return, registry, locking, replies, calls, AllOps
<1>3. OneLockPerSession'
  BY <1>1 DEF IInv, TypeOK, LockTypes, CallTypes, RegistryTypes, Queued, Inside, LockDiscipline, OneLockPerSession, BuilderAlone, Abort, DropLock, Return, registry, locking, replies, calls, AllOps
<1>4. BuilderAlone'
  BY <1>1 DEF IInv, TypeOK, LockTypes, CallTypes, RegistryTypes, Queued, Inside, LockDiscipline, OneLockPerSession, BuilderAlone, Abort, DropLock, Return, registry, locking, replies, calls, AllOps
<1> QED  BY <1>1, <1>2, <1>3, <1>4 DEF IInv

LEMMA RemoveTokenInv ==
  ASSUME IInv, NEW c \in Callers, RemoveToken(c)
  PROVE  IInv'
<1> USE CallersAssumption
<1>1. TypeOK'
  BY RemoveTokenType DEF IInv
<1>2. LockDiscipline'
  BY <1>1 DEF IInv, TypeOK, LockTypes, CallTypes, RegistryTypes, Queued, Inside, LockDiscipline, OneLockPerSession, BuilderAlone, RemoveToken, Goto, registry, locking, replies, calls, AllOps
<1>3. OneLockPerSession'
  BY <1>1 DEF IInv, TypeOK, LockTypes, CallTypes, RegistryTypes, Queued, Inside, LockDiscipline, OneLockPerSession, BuilderAlone, RemoveToken, Goto, registry, locking, replies, calls, AllOps
<1>4. BuilderAlone'
  BY <1>1 DEF IInv, TypeOK, LockTypes, CallTypes, RegistryTypes, Queued, Inside, LockDiscipline, OneLockPerSession, BuilderAlone, RemoveToken, Goto, registry, locking, replies, calls, AllOps
<1> QED  BY <1>1, <1>2, <1>3, <1>4 DEF IInv

LEMMA PopInv ==
  ASSUME IInv, NEW c \in Callers, Pop(c)
  PROVE  IInv'
<1> USE CallersAssumption
<1>1. TypeOK'
  BY PopType DEF IInv
<1>2. LockDiscipline'
  BY <1>1 DEF IInv, TypeOK, LockTypes, CallTypes, RegistryTypes, Queued, Inside, LockDiscipline, OneLockPerSession, BuilderAlone, Pop, Goto, Return, registry, locking, replies, calls, AllOps
<1>3. OneLockPerSession'
  BY <1>1 DEF IInv, TypeOK, LockTypes, CallTypes, RegistryTypes, Queued, Inside, LockDiscipline, OneLockPerSession, BuilderAlone, Pop, Goto, Return, registry, locking, replies, calls, AllOps
<1>4. BuilderAlone'
  BY <1>1 DEF IInv, TypeOK, LockTypes, CallTypes, RegistryTypes, Queued, Inside, LockDiscipline, OneLockPerSession, BuilderAlone, Pop, Goto, Return, registry, locking, replies, calls, AllOps
<1> QED  BY <1>1, <1>2, <1>3, <1>4 DEF IInv

LEMMA TryRegisterInv ==
  ASSUME IInv, NEW c \in Callers, TryRegister(c)
  PROVE  IInv'
<1> USE CallersAssumption
<1>1. TypeOK'
  BY TryRegisterType DEF IInv
<1>2. LockDiscipline'
  BY <1>1 DEF IInv, TypeOK, LockTypes, CallTypes, RegistryTypes, Queued, Inside, LockDiscipline, OneLockPerSession, BuilderAlone, TryRegister, Goto, Return, registry, locking, replies, calls, AllOps
<1>3. OneLockPerSession'
  BY <1>1 DEF IInv, TypeOK, LockTypes, CallTypes, RegistryTypes, Queued, Inside, LockDiscipline, OneLockPerSession, BuilderAlone, TryRegister, Goto, Return, registry, locking, replies, calls, AllOps
<1>4. BuilderAlone'
  BY <1>1 DEF IInv, TypeOK, LockTypes, CallTypes, RegistryTypes, Queued, Inside, LockDiscipline, OneLockPerSession, BuilderAlone, TryRegister, Goto, Return, registry, locking, replies, calls, AllOps
<1> QED  BY <1>1, <1>2, <1>3, <1>4 DEF IInv

LEMMA SendFailsInv ==
  ASSUME IInv, NEW c \in Callers, SendFails(c)
  PROVE  IInv'
<1> USE CallersAssumption
<1>1. TypeOK'
  BY SendFailsType DEF IInv
<1>2. LockDiscipline'
  BY <1>1 DEF IInv, TypeOK, LockTypes, CallTypes, RegistryTypes, Queued, Inside, LockDiscipline, OneLockPerSession, BuilderAlone, SendFails, Return, registry, locking, replies, calls, AllOps
<1>3. OneLockPerSession'
  BY <1>1 DEF IInv, TypeOK, LockTypes, CallTypes, RegistryTypes, Queued, Inside, LockDiscipline, OneLockPerSession, BuilderAlone, SendFails, Return, registry, locking, replies, calls, AllOps
<1>4. BuilderAlone'
  BY <1>1 DEF IInv, TypeOK, LockTypes, CallTypes, RegistryTypes, Queued, Inside, LockDiscipline, OneLockPerSession, BuilderAlone, SendFails, Return, registry, locking, replies, calls, AllOps
<1> QED  BY <1>1, <1>2, <1>3, <1>4 DEF IInv

LEMMA ReplyEndsInv ==
  ASSUME IInv, NEW c \in Callers, ReplyEnds(c)
  PROVE  IInv'
<1> USE CallersAssumption
<1>1. TypeOK'
  BY ReplyEndsType DEF IInv
<1>2. LockDiscipline'
  BY <1>1 DEF IInv, TypeOK, LockTypes, CallTypes, RegistryTypes, Queued, Inside, LockDiscipline, OneLockPerSession, BuilderAlone, ReplyEnds, Goto, registry, locking, replies, calls, AllOps
<1>3. OneLockPerSession'
  BY <1>1 DEF IInv, TypeOK, LockTypes, CallTypes, RegistryTypes, Queued, Inside, LockDiscipline, OneLockPerSession, BuilderAlone, ReplyEnds, Goto, registry, locking, replies, calls, AllOps
<1>4. BuilderAlone'
  BY <1>1 DEF IInv, TypeOK, LockTypes, CallTypes, RegistryTypes, Queued, Inside, LockDiscipline, OneLockPerSession, BuilderAlone, ReplyEnds, Goto, registry, locking, replies, calls, AllOps
<1> QED  BY <1>1, <1>2, <1>3, <1>4 DEF IInv

LEMMA UnregisterInv ==
  ASSUME IInv, NEW c \in Callers, Unregister(c)
  PROVE  IInv'
<1> USE CallersAssumption
<1>1. TypeOK'
  BY UnregisterType DEF IInv
<1>2. LockDiscipline'
  BY <1>1 DEF IInv, TypeOK, LockTypes, CallTypes, RegistryTypes, Queued, Inside, LockDiscipline, OneLockPerSession, BuilderAlone, Unregister, Return, registry, locking, replies, calls, AllOps
<1>3. OneLockPerSession'
  BY <1>1 DEF IInv, TypeOK, LockTypes, CallTypes, RegistryTypes, Queued, Inside, LockDiscipline, OneLockPerSession, BuilderAlone, Unregister, Return, registry, locking, replies, calls, AllOps
<1>4. BuilderAlone'
  BY <1>1 DEF IInv, TypeOK, LockTypes, CallTypes, RegistryTypes, Queued, Inside, LockDiscipline, OneLockPerSession, BuilderAlone, Unregister, Return, registry, locking, replies, calls, AllOps
<1> QED  BY <1>1, <1>2, <1>3, <1>4 DEF IInv

LEMMA InterruptInv ==
  ASSUME IInv, NEW s \in Sessions, Interrupt(s)
  PROVE  IInv'
<1> USE CallersAssumption
<1>1. TypeOK'
  BY InterruptType DEF IInv
<1>2. LockDiscipline'
  BY <1>1 DEF IInv, TypeOK, LockTypes, CallTypes, RegistryTypes, Queued, Inside, LockDiscipline, OneLockPerSession, BuilderAlone, Interrupt, registry, locking, replies, calls, AllOps
<1>3. OneLockPerSession'
  BY <1>1 DEF IInv, TypeOK, LockTypes, CallTypes, RegistryTypes, Queued, Inside, LockDiscipline, OneLockPerSession, BuilderAlone, Interrupt, registry, locking, replies, calls, AllOps
<1>4. BuilderAlone'
  BY <1>1 DEF IInv, TypeOK, LockTypes, CallTypes, RegistryTypes, Queued, Inside, LockDiscipline, OneLockPerSession, BuilderAlone, Interrupt, registry, locking, replies, calls, AllOps
<1> QED  BY <1>1, <1>2, <1>3, <1>4 DEF IInv

LEMMA InitInv == Init => IInv
<1> SUFFICES ASSUME Init PROVE IInv  OBVIOUS
<1> USE CallersAssumption
<1>1. TypeOK
  BY DEF Init, TypeOK, RegistryTypes, LockTypes, ReplyTypes, CallTypes, Queued
<1> QED  BY <1>1 DEF Init, IInv, LockDiscipline, OneLockPerSession, BuilderAlone, Queued, Inside

LEMMA NextInv == IInv /\ [Next]_vars => IInv'
<1> SUFFICES ASSUME IInv, [Next]_vars PROVE IInv'  OBVIOUS
<1>1. CASE UNCHANGED vars
  BY <1>1 DEF vars, registry, locking, replies, calls, IInv, TypeOK, RegistryTypes, LockTypes, ReplyTypes, CallTypes,
     Queued, Inside, LockDiscipline, OneLockPerSession, BuilderAlone
<1>2. ASSUME NEW c \in Callers, NEW o \in AllOps, NEW s \in Sessions, Call(c, o, s) PROVE IInv'
  BY <1>2, CallInv
<1>3. ASSUME NEW c \in Callers, Creation(c) \/ Acquire(c) \/ Abort(c) PROVE IInv'
  BY <1>3, LookupInv, TakeArcInv, RecheckInv, BuildFailsInv, PublishInv, PruneOwnInv, PruneEvictedInv, LeaveInv,
     AcquireInv, AbortInv DEF Creation
<1>4. ASSUME NEW c \in Callers,
             \/ RemoveToken(c) \/ Pop(c)
             \/ TryRegister(c) \/ SendFails(c) \/ ReplyEnds(c) \/ Unregister(c)
      PROVE  IInv'
  BY <1>4, RemoveTokenInv, PopInv, TryRegisterInv, SendFailsInv, ReplyEndsInv, UnregisterInv
<1>5. ASSUME NEW s \in Sessions, Interrupt(s) PROVE IInv'
  BY <1>5, InterruptInv
<1> QED  BY <1>1, <1>2, <1>3, <1>4, <1>5 DEF Next

\* The inductive invariant: types, the discipline of the creation locks, one
\* lock per session, and no agent behind a builder's back.
THEOREM Invariance == Spec => []IInv
<1> QED  BY InitInv, NextInv, PTL DEF Spec

\* Whatever get_or_create_agent, remove_session and send_message do, every
\* variable keeps its type and exactly the queued callers have an Arc.
THEOREM TypeCorrect == Spec => []TypeOK
<1>1. IInv => TypeOK  BY DEF IInv
<1> QED  BY <1>1, Invariance, PTL

\* However creation locks are dropped, pruned and made again, the callers that
\* queue for one session queue at one lock.
THEOREM LockIsShared == Spec => []OneLockPerSession
<1>1. IInv => OneLockPerSession  BY DEF IInv
<1> QED  BY <1>1, Invariance, PTL

\* The creation lock of get_or_create_agent does its work: one caller at a time
\* builds the agent of a session, and the session has none meanwhile.
THEOREM BuiltOnce == Spec => []OneBuilder
<1>1. IInv => OneBuilder
  <2> SUFFICES ASSUME IInv, NEW c \in Callers, NEW d \in Callers, pc[c] = "build", sess[d] = sess[c]
               PROVE  cache[sess[c]] = 0 /\ (pc[d] = "build" => c = d)
    BY DEF OneBuilder
  <2> QED  BY DEF IInv, BuilderAlone, OneLockPerSession, LockDiscipline, Queued, Inside
<1> QED  BY <1>1, Invariance, PTL

-----------------------------------------------------------------------------
(* The capacity.                                                           *)

\* The cached sessions are finitely many and within the capacity, and agents
\* are numbered in the order they were cached.
Fits ==
    /\ IsFiniteSet(Cached) /\ Cardinality(Cached) <= Capacity
    /\ \A s \in Sessions : cache[s] <= made
    /\ \A s, t \in Cached : cache[s] = cache[t] => s = t

\* Only Publish and Pop write the cache.
LEMMA CacheSteps ==
  ASSUME [Next]_vars
  PROVE  UNCHANGED <<cache, made>> \/ \E c \in Callers : Publish(c) \/ Pop(c)
<1> SUFFICES ASSUME ~ UNCHANGED <<cache, made>> PROVE \E c \in Callers : Publish(c) \/ Pop(c)
  OBVIOUS
<1>1. ASSUME NEW c \in Callers, Lookup(c) \/ Recheck(c) PROVE UNCHANGED <<cache, made>>
  BY <1>1 DEF Lookup, Recheck, Found, registry
<1>2. ASSUME NEW c \in Callers, TakeArc(c) \/ BuildFails(c) \/ PruneOwn(c) \/ PruneEvicted(c) \/ Leave(c)
      PROVE  UNCHANGED <<cache, made>>
  BY <1>2 DEF TakeArc, BuildFails, PruneOwn, PruneEvicted, Leave, registry
<1>3. ASSUME NEW c \in Callers, Acquire(c) \/ Abort(c) \/ RemoveToken(c) \/ TryRegister(c)
      PROVE  UNCHANGED <<cache, made>>
  BY <1>3 DEF Acquire, Abort, RemoveToken, TryRegister, registry
<1>4. ASSUME NEW c \in Callers, SendFails(c) \/ ReplyEnds(c) \/ Unregister(c) PROVE UNCHANGED <<cache, made>>
  BY <1>4 DEF SendFails, ReplyEnds, Unregister, registry
<1>5. ASSUME NEW c \in Callers, NEW o \in AllOps, NEW s \in Sessions, Call(c, o, s) \/ Interrupt(s)
      PROVE  UNCHANGED <<cache, made>>
  BY <1>5 DEF Call, Interrupt, registry
<1>6. ASSUME NEW s \in Sessions, Interrupt(s) PROVE UNCHANGED <<cache, made>>
  BY <1>6 DEF Interrupt, registry
<1>7. CASE UNCHANGED vars
  BY <1>7 DEF vars, registry
<1> QED  BY <1>1, <1>2, <1>3, <1>4, <1>5, <1>6, <1>7 DEF Next, Creation

\* A push that finds room, one that evicts, and a find.
LEMMA PublishCases ==
  ASSUME TypeOK, NEW c \in Callers, Publish(c)
  PROVE  /\ sess[c] \in Sessions
         /\ \/ Found(c)
            \/ /\ cache[sess[c]] = 0 /\ made' = made + 1 /\ got' = [got EXCEPT ![c] = made + 1]
               /\ \/ /\ Cardinality(Cached) < Capacity
                     /\ cache' = [cache EXCEPT ![sess[c]] = made + 1]
                  \/ /\ Cardinality(Cached) >= Capacity
                     /\ \E t \in Cached : cache' = [cache EXCEPT ![sess[c]] = made + 1, ![t] = 0]
BY DEF Publish, TypeOK, CallTypes, RegistryTypes

LEMMA PublishFits ==
  ASSUME TypeOK, Fits, NEW c \in Callers, Publish(c)
  PROVE  Fits'
<1> DEFINE s == sess[c]
<1> USE CapacityAssumption
<1>1. s \in Sessions /\ made \in Nat /\ cache \in [Sessions -> Nat]
  BY PublishCases DEF TypeOK, RegistryTypes
<1>2. CASE Found(c)
  BY <1>2 DEF Found, Fits, Cached
<1>3. ASSUME cache[s] = 0, made' = made + 1, Cardinality(Cached) < Capacity, cache' = [cache EXCEPT ![s] = made + 1]
      PROVE  Fits'
  <2>1. Cached' = Cached \cup {s} /\ s \notin Cached
    BY <1>1, <1>3 DEF Cached
  <2>2. IsFiniteSet(Cached') /\ Cardinality(Cached') = Cardinality(Cached) + 1
    BY <2>1, FS_AddElement DEF Fits
  <2>3. Cardinality(Cached) \in Nat
    BY FS_CardinalityType DEF Fits
  <2>4. \A t \in Sessions : cache'[t] <= made'
    BY <1>1, <1>3 DEF Fits
  <2>5. \A t, u \in Cached' : cache'[t] = cache'[u] => t = u
    BY <1>1, <1>3, <2>1 DEF Fits, Cached
  <2> QED  BY <1>3, <2>2, <2>3, <2>4, <2>5 DEF Fits
<1>4. ASSUME NEW t \in Cached, cache[s] = 0, made' = made + 1, cache' = [cache EXCEPT ![s] = made + 1, ![t] = 0]
      PROVE  Fits'
  <2>1. Cached' = (Cached \ {t}) \cup {s} /\ s \notin Cached /\ t \in Sessions /\ t # s
    BY <1>1, <1>4 DEF Cached
  <2>2. IsFiniteSet(Cached \ {t}) /\ Cardinality(Cached \ {t}) = Cardinality(Cached) - 1
    BY FS_RemoveElement DEF Fits
  <2>3. IsFiniteSet(Cached') /\ Cardinality(Cached') = Cardinality(Cached \ {t}) + 1
    BY <2>1, <2>2, FS_AddElement
  <2>4. Cardinality(Cached) \in Nat
    BY FS_CardinalityType DEF Fits
  <2>5. \A u \in Sessions : cache'[u] <= made'
    BY <1>1, <1>4, <2>1 DEF Fits
  <2>6. \A u, v \in Cached' : cache'[u] = cache'[v] => u = v
    BY <1>1, <1>4, <2>1 DEF Fits, Cached
  <2> QED  BY <2>2, <2>3, <2>4, <2>5, <2>6 DEF Fits
<1> QED  BY <1>2, <1>3, <1>4, PublishCases

LEMMA PopFits ==
  ASSUME TypeOK, Fits, NEW c \in Callers, Pop(c)
  PROVE  Fits'
<1> DEFINE s == sess[c]
<1> USE CapacityAssumption
<1>1. s \in Sessions /\ made \in Nat /\ cache \in [Sessions -> Nat] /\ made' = made
  BY DEF Pop, TypeOK, CallTypes, RegistryTypes
<1>2. CASE cache[s] = 0
  BY <1>1, <1>2 DEF Pop, Fits, Cached
<1>3. CASE cache[s] # 0
  <2>1. cache' = [cache EXCEPT ![s] = 0]
    BY <1>3 DEF Pop
  <2>2. Cached' = Cached \ {s} /\ s \in Cached
    BY <1>1, <1>3, <2>1 DEF Cached
  <2>3. IsFiniteSet(Cached') /\ Cardinality(Cached') = Cardinality(Cached) - 1
    BY <2>2, FS_RemoveElement DEF Fits
  <2>4. Cardinality(Cached) \in Nat
    BY FS_CardinalityType DEF Fits
  <2>5. \A t \in Sessions : cache'[t] <= made'
    BY <1>1, <2>1 DEF Fits
  <2>6. \A t, u \in Cached' : cache'[t] = cache'[u] => t = u
    BY <1>1, <2>1, <2>2 DEF Fits, Cached
  <2> QED  BY <2>3, <2>4, <2>5, <2>6 DEF Fits
<1> QED  BY <1>2, <1>3

LEMMA InitFits == Init => Fits
<1> SUFFICES ASSUME Init PROVE Fits  OBVIOUS
<1>1. Cached = {}
  BY DEF Init, Cached
<1>2. IsFiniteSet(Cached) /\ Cardinality(Cached) = 0
  BY <1>1, FS_EmptySet
<1> QED  BY <1>1, <1>2, CapacityAssumption DEF Init, Fits

LEMMA NextFits == TypeOK /\ Fits /\ [Next]_vars => Fits'
<1> SUFFICES ASSUME TypeOK, Fits, [Next]_vars PROVE Fits'  OBVIOUS
<1>1. CASE UNCHANGED <<cache, made>>
  BY <1>1 DEF Fits, Cached
<1> QED  BY <1>1, CacheSteps, PublishFits, PopFits

LEMMA FitsAlways == Spec => []Fits
<1> QED  BY InitFits, NextFits, TypeCorrect, PTL DEF Spec

\* The LRU cache never holds more agents than max_sessions, and no agent serves
\* two sessions.
THEOREM WithinCapacity == Spec => []Bounded
<1>1. Fits => Bounded  BY DEF Fits, Bounded
<1> QED  BY <1>1, FitsAlways, PTL

-----------------------------------------------------------------------------
(* The register.                                                           *)

LEMMA FoundIsLookup ==
  ASSUME NEW c \in Callers, sess[c] \in Sessions, Found(c)
  PROVE  Registry!Next
<1>1. Registry!Lookup(c, sess[c])
  BY DEF Found, Registry!Lookup
<1> QED  BY <1>1 DEF Registry!Next

LEMMA PublishIsCreate ==
  ASSUME TypeOK, Fits, NEW c \in Callers, Publish(c)
  PROVE  Registry!Next
<1>1. CASE Found(c)
  BY <1>1, PublishCases, FoundIsLookup
<1>2. CASE ~ Found(c)
  <2>1. Registry!Registered = Cached
    BY DEF Registry!Registered, Cached
  <2>0. Registry!Cardinality(Cached) = Cardinality(Cached)
    BY Zenon DEF Registry!Cardinality, Cardinality
  <2>2. Cardinality(Cached) \in Nat
    BY FS_CardinalityType DEF Fits
  <2>3. Cardinality(Cached) >= Capacity => Cardinality(Cached) = Capacity
    BY <2>2, CapacityAssumption DEF Fits
  <2> DEFINE s == sess[c]
  <2>4. cache[s] = 0 /\ made' = made + 1 /\ got' = [got EXCEPT ![c] = made + 1]
    BY <1>2, PublishCases
  <2>5. ASSUME Cardinality(Cached) < Capacity, cache' = [cache EXCEPT ![s] = made + 1]
        PROVE  Registry!Create(c, s)
    BY <2>0, <2>1, <2>4, <2>5 DEF Registry!Create
  <2>6. ASSUME NEW t \in Cached, Cardinality(Cached) >= Capacity, cache' = [cache EXCEPT ![s] = made + 1, ![t] = 0]
        PROVE  Registry!Create(c, s)
    BY <2>0, <2>1, <2>3, <2>4, <2>6 DEF Registry!Create
  <2>7. Registry!Create(c, s)
    BY <1>2, <2>5, <2>6, PublishCases
  <2> QED  BY <2>7, PublishCases DEF Registry!Next
<1> QED  BY <1>1, <1>2

LEMMA PopIsDrop ==
  ASSUME TypeOK, NEW c \in Callers, Pop(c)
  PROVE  [Registry!Next]_<<cache, made, got>>
<1>1. sess[c] \in Sessions
  BY DEF Pop, TypeOK, CallTypes
<1>2. CASE cache[sess[c]] = 0
  BY <1>2 DEF Pop
<1>3. CASE cache[sess[c]] # 0
  BY <1>1, <1>3 DEF Pop, Registry!Next, Registry!Drop
<1> QED  BY <1>2, <1>3

\* Every other action leaves the register alone.
LEMMA RegistrySteps ==
  ASSUME TypeOK, [Next]_vars
  PROVE  \/ UNCHANGED registry
         \/ \E c \in Callers : Publish(c) \/ Pop(c) \/ (Found(c) /\ sess[c] \in Sessions)
<1>1. ASSUME NEW c \in Callers, Lookup(c) \/ Recheck(c)
      PROVE  UNCHANGED registry \/ (Found(c) /\ sess[c] \in Sessions)
  BY <1>1 DEF Lookup, Recheck, TypeOK, CallTypes
<1>2. ASSUME NEW c \in Callers, TakeArc(c) \/ BuildFails(c) \/ PruneOwn(c) \/ PruneEvicted(c) \/ Leave(c)
      PROVE  UNCHANGED registry
  BY <1>2 DEF TakeArc, BuildFails, PruneOwn, PruneEvicted, Leave, registry
<1>3. ASSUME NEW c \in Callers, Acquire(c) \/ Abort(c) \/ RemoveToken(c) \/ TryRegister(c)
      PROVE  UNCHANGED registry
  BY <1>3 DEF Acquire, Abort, RemoveToken, TryRegister, registry
<1>4. ASSUME NEW c \in Callers, SendFails(c) \/ ReplyEnds(c) \/ Unregister(c) PROVE UNCHANGED registry
  BY <1>4 DEF SendFails, ReplyEnds, Unregister, registry
<1>5. ASSUME NEW c \in Callers, NEW o \in AllOps, NEW s \in Sessions, Call(c, o, s) PROVE UNCHANGED registry
  BY <1>5 DEF Call, registry
<1>6. ASSUME NEW s \in Sessions, Interrupt(s) PROVE UNCHANGED registry
  BY <1>6 DEF Interrupt, registry
<1>7. CASE UNCHANGED vars
  BY <1>7 DEF vars, registry
<1> QED  BY <1>1, <1>2, <1>3, <1>4, <1>5, <1>6, <1>7 DEF Next, Creation

LEMMA RegistryStep == TypeOK /\ Fits /\ [Next]_vars => [Registry!Next]_<<cache, made, got>>
<1> SUFFICES ASSUME TypeOK, Fits, [Next]_vars PROVE [Registry!Next]_<<cache, made, got>>  OBVIOUS
<1>1. CASE UNCHANGED registry
  BY <1>1 DEF registry
<1> QED  BY <1>1, RegistrySteps, PublishIsCreate, PopIsDrop, FoundIsLookup

\* Behind its locks the manager is a bounded register of one agent per session:
\* what callers are given is what the register holds at that moment.
THEOREM ManagerIsRegister == Spec => KeepsRegistry
<1>1. Init => Registry!Init
  BY DEF Init, Registry!Init
<1> QED  BY <1>1, RegistryStep, TypeCorrect, FitsAlways, PTL DEF Spec, KeepsRegistry, Registry!Spec

-----------------------------------------------------------------------------
(* Busy sessions.                                                          *)

LEMMA CallBacked ==
  ASSUME TypeOK, BusyIsBacked, NEW c \in Callers, NEW o \in AllOps, NEW s \in Sessions, Call(c, o, s)
  PROVE  BusyIsBacked'
<1> USE CallersAssumption
<1> QED  BY DEF BusyIsBacked, TypeOK, ReplyTypes, CallTypes, Call, registry, locking, replies, calls, AllOps

LEMMA LookupBacked ==
  ASSUME TypeOK, BusyIsBacked, NEW c \in Callers, Lookup(c)
  PROVE  BusyIsBacked'
<1> USE CallersAssumption
<1> QED  BY DEF BusyIsBacked, TypeOK, ReplyTypes, CallTypes, Lookup, Found, GotAgent, Goto, Return, registry, locking, replies, calls, AllOps

LEMMA TakeArcBacked ==
  ASSUME TypeOK, BusyIsBacked, NEW c \in Callers, TakeArc(c)
  PROVE  BusyIsBacked'
<1> USE CallersAssumption
<1> QED  BY DEF BusyIsBacked, TypeOK, ReplyTypes, CallTypes, TakeArc, Goto, registry, locking, replies, calls, AllOps

LEMMA AcquireBacked ==
  ASSUME TypeOK, BusyIsBacked, NEW c \in Callers, Acquire(c)
  PROVE  BusyIsBacked'
<1> USE CallersAssumption
<1> QED  BY DEF BusyIsBacked, TypeOK, ReplyTypes, CallTypes, Acquire, Goto, registry, locking, replies, calls, AllOps

LEMMA RecheckBacked ==
  ASSUME TypeOK, BusyIsBacked, NEW c \in Callers, Recheck(c)
  PROVE  BusyIsBacked'
<1> USE CallersAssumption
<1> QED  BY DEF BusyIsBacked, TypeOK, ReplyTypes, CallTypes, Recheck, Found, Goto, registry, locking, replies, calls, AllOps

LEMMA BuildFailsBacked ==
  ASSUME TypeOK, BusyIsBacked, NEW c \in Callers, BuildFails(c)
  PROVE  BusyIsBacked'
<1> USE CallersAssumption
<1> QED  BY DEF BusyIsBacked, TypeOK, ReplyTypes, CallTypes, BuildFails, DropLock, Goto, registry, locking, replies, calls, AllOps

LEMMA PruneOwnBacked ==
  ASSUME TypeOK, BusyIsBacked, NEW c \in Callers, PruneOwn(c)
  PROVE  BusyIsBacked'
<1> USE CallersAssumption
<1> QED  BY DEF BusyIsBacked, TypeOK, ReplyTypes, CallTypes, PruneOwn, Prune, InUse, Return, registry, locking, replies, calls, AllOps

LEMMA PublishBacked ==
  ASSUME TypeOK, BusyIsBacked, NEW c \in Callers, Publish(c)
  PROVE  BusyIsBacked'
<1> USE CallersAssumption
<1>1. UNCHANGED replies
  BY DEF Publish
<1> QED  BY <1>1, PublishEffect DEF BusyIsBacked, TypeOK, ReplyTypes, CallTypes, replies

LEMMA PruneEvictedBacked ==
  ASSUME TypeOK, BusyIsBacked, NEW c \in Callers, PruneEvicted(c)
  PROVE  BusyIsBacked'
<1> USE CallersAssumption
<1> QED  BY DEF BusyIsBacked, TypeOK, ReplyTypes, CallTypes, PruneEvicted, Prune, InUse, Goto, registry, locking, replies, calls, AllOps

LEMMA LeaveBacked ==
  ASSUME TypeOK, BusyIsBacked, NEW c \in Callers, Leave(c)
  PROVE  BusyIsBacked'
<1> USE CallersAssumption
<1> QED  BY DEF BusyIsBacked, TypeOK, ReplyTypes, CallTypes, Leave, DropLock, GotAgent, Goto, Return, registry, locking, replies, calls, AllOps

LEMMA AbortBacked ==
  ASSUME TypeOK, BusyIsBacked, NEW c \in Callers, Abort(c)
  PROVE  BusyIsBacked'
<1> USE CallersAssumption
<1> QED  BY DEF BusyIsBacked, TypeOK, ReplyTypes, CallTypes, Abort, DropLock, Return, registry, locking, replies, calls, AllOps

LEMMA RemoveTokenBacked ==
  ASSUME TypeOK, BusyIsBacked, NEW c \in Callers, RemoveToken(c)
  PROVE  BusyIsBacked'
<1> USE CallersAssumption
<1> QED  BY DEF BusyIsBacked, TypeOK, ReplyTypes, CallTypes, RemoveToken, Goto, registry, locking, replies, calls, AllOps

LEMMA PopBacked ==
  ASSUME TypeOK, BusyIsBacked, NEW c \in Callers, Pop(c)
  PROVE  BusyIsBacked'
<1> USE CallersAssumption
<1> QED  BY DEF BusyIsBacked, TypeOK, ReplyTypes, CallTypes, Pop, Goto, Return, registry, locking, replies, calls, AllOps

LEMMA TryRegisterBacked ==
  ASSUME TypeOK, BusyIsBacked, NEW c \in Callers, TryRegister(c)
  PROVE  BusyIsBacked'
<1> USE CallersAssumption
<1> QED  BY DEF BusyIsBacked, TypeOK, ReplyTypes, CallTypes, TryRegister, Goto, Return, registry, locking, replies, calls, AllOps

LEMMA SendFailsBacked ==
  ASSUME TypeOK, BusyIsBacked, NEW c \in Callers, SendFails(c)
  PROVE  BusyIsBacked'
<1> USE CallersAssumption
<1> QED  BY DEF BusyIsBacked, TypeOK, ReplyTypes, CallTypes, SendFails, Return, registry, locking, replies, calls, AllOps

LEMMA ReplyEndsBacked ==
  ASSUME TypeOK, BusyIsBacked, NEW c \in Callers, ReplyEnds(c)
  PROVE  BusyIsBacked'
<1> USE CallersAssumption
<1> QED  BY DEF BusyIsBacked, TypeOK, ReplyTypes, CallTypes, ReplyEnds, Goto, registry, locking, replies, calls, AllOps

LEMMA UnregisterBacked ==
  ASSUME TypeOK, BusyIsBacked, NEW c \in Callers, Unregister(c)
  PROVE  BusyIsBacked'
<1> USE CallersAssumption
<1> QED  BY DEF BusyIsBacked, TypeOK, ReplyTypes, CallTypes, Unregister, Return, registry, locking, replies, calls, AllOps

LEMMA InterruptBacked ==
  ASSUME TypeOK, BusyIsBacked, NEW s \in Sessions, Interrupt(s)
  PROVE  BusyIsBacked'
<1> USE CallersAssumption
<1> QED  BY DEF BusyIsBacked, TypeOK, ReplyTypes, CallTypes, Interrupt, registry, locking, replies, calls, AllOps

LEMMA NextBacked == TypeOK /\ BusyIsBacked /\ [Next]_vars => BusyIsBacked'
<1> SUFFICES ASSUME TypeOK, BusyIsBacked, [Next]_vars PROVE BusyIsBacked'  OBVIOUS
<1>1. CASE UNCHANGED vars
  BY <1>1 DEF vars, replies, calls, BusyIsBacked
<1>2. ASSUME NEW c \in Callers, NEW o \in AllOps, NEW s \in Sessions, Call(c, o, s) PROVE BusyIsBacked'
  BY <1>2, CallBacked
<1>3. ASSUME NEW c \in Callers, Creation(c) \/ Acquire(c) \/ Abort(c) PROVE BusyIsBacked'
  BY <1>3, LookupBacked, TakeArcBacked, RecheckBacked, BuildFailsBacked, PublishBacked, PruneOwnBacked,
     PruneEvictedBacked, LeaveBacked, AcquireBacked, AbortBacked DEF Creation
<1>4. ASSUME NEW c \in Callers,
             \/ RemoveToken(c) \/ Pop(c)
             \/ TryRegister(c) \/ SendFails(c) \/ ReplyEnds(c) \/ Unregister(c)
      PROVE  BusyIsBacked'
  BY <1>4, RemoveTokenBacked, PopBacked, TryRegisterBacked, SendFailsBacked, ReplyEndsBacked, UnregisterBacked
<1>5. ASSUME NEW s \in Sessions, Interrupt(s) PROVE BusyIsBacked'
  BY <1>5, InterruptBacked
<1> QED  BY <1>1, <1>2, <1>3, <1>4, <1>5 DEF Next

\* A session is busy only while the reply that registered its token is in
\* progress, unless the future of that send was dropped where it waits.
THEOREM BusyBacked == Spec => []BusyIsBacked
<1>1. Init => BusyIsBacked
  BY CallersAssumption DEF Init, BusyIsBacked
<1> QED  BY <1>1, NextBacked, TypeCorrect, PTL DEF Spec

=============================================================================
