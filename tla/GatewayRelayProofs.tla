-------------------------- MODULE GatewayRelayProofs --------------------------
(***************************************************************************)
(* Proofs about GatewayRelay, for any messages, requests and faults.       *)
(* Serialized rests on all handlers of one kind queueing at the lock the   *)
(* map holds (Arcs). What the queue promises holds while the gateway is up *)
(* and nothing has failed (Good): then a reply always finds the request it *)
(* answers in front and unanswered, so none is ever refused. The types of  *)
(* all variables hold whatever fails, and rest on what a handler has in    *)
(* hand at each place (HasWhatItNeeds).                                    *)
(***************************************************************************)
EXTENDS GatewayRelay, WellFoundedInduction, TLAPS

Places == {"idle", "received", "turn_lock", "relay", "queueing", "prompting", "denying",
           "clearing", "turn_prune", "reply_lock", "submit", "pop", "discard", "reply_end",
           "reply_prune", "done"}

Kinds == {"turn", "reply"}

LockTypes ==
  /\ pc \in [Messages -> Places]
  /\ slot \in [Kinds -> Messages \cup {None}]
  /\ arc \in [Messages -> Messages \cup {None}]
  /\ holder \in [Messages -> Messages \cup {None}]

\* Whoever waits for a lock or has it has the Arc that is in the map.
Arcs ==
  \A m \in Messages :
    /\ InTurn(m) \/ pc[m] = "turn_lock" => arc[m] = slot["turn"] /\ arc[m] \in Messages
    /\ Replying(m) \/ pc[m] = "reply_lock" => arc[m] = slot["reply"] /\ arc[m] \in Messages

Holders == \A m \in Messages : InTurn(m) \/ Replying(m) => holder[arc[m]] = m

LockInv == LockTypes /\ Arcs /\ Holders

-----------------------------------------------------------------------------
(* While nothing has failed.                                               *)

Good == gateway = "up" /\ ~faulty

QueueTypes ==
  /\ pending \in Seq(Requests)
  /\ rid \in [Messages -> Requests \cup {None}]
  /\ answer \in [Requests -> {"absent", "unanswered", "chat", "yes", "no"}]
  /\ says \in [Messages -> {"chat", "yes", "no"}]
  /\ used \subseteq Requests

Calm ==
  cancelled = {} /\ \A m \in Messages : pc[m] \notin {"denying", "clearing", "discard"}

Distinct ==
  /\ \A i, j \in 1 .. Len(pending) : pending[i] = pending[j] => i = j
  /\ \A i \in 1 .. Len(pending) : pending[i] \in used

\* A queued request is unanswered; the first one may have its answer already.
QueuedIsOpen ==
  \A i \in 1 .. Len(pending) :
    \/ answer[pending[i]] = "unanswered"
    \/ i = 1 /\ \E m \in Messages : pc[m] = "pop" /\ rid[m] = pending[1]

OpenIsQueued ==
  \A r \in Requests : answer[r] = "unanswered" =>
    \/ \E i \in 1 .. Len(pending) : pending[i] = r
    \/ \E m \in Messages : pc[m] = "queueing" /\ rid[m] = r

\* What a handler has in hand.
InHand ==
  \A m \in Messages :
    /\ pc[m] = "queueing" =>
          /\ rid[m] \in used /\ answer[rid[m]] = "unanswered"
          /\ \A i \in 1 .. Len(pending) : pending[i] # rid[m]
    /\ pc[m] = "submit" =>
          pending # << >> /\ pending[1] = rid[m] /\ answer[rid[m]] = "unanswered"
    /\ pc[m] = "pop" =>
          pending # << >> /\ pending[1] = rid[m] /\ answer[rid[m]] # "unanswered"

QueueFacts ==
  QueueTypes /\ Calm /\ Distinct /\ QueuedIsOpen /\ OpenIsQueued /\ InHand

QueueInv == Good => QueueFacts

IInv == LockInv /\ QueueInv

-----------------------------------------------------------------------------
(* The locks.                                                              *)

\* A handler moves on without touching a lock, and keeps what it has.
LEMMA LockFrame ==
  ASSUME LockInv, UNCHANGED locks, NEW m \in Messages, NEW p \in Places, Goto(m, p),
         p \in {"relay", "queueing", "prompting", "denying", "clearing"} => InTurn(m),
         p \in {"submit", "pop", "discard", "reply_end"} => Replying(m),
         p \notin {"turn_lock", "reply_lock"}
  PROVE  LockInv'
<1>1. LockTypes'
  BY DEF LockInv, LockTypes, locks, Goto
<1>2. \A n \in Messages : /\ (InTurn(n) \/ pc[n] = "turn_lock")' => InTurn(n) \/ pc[n] = "turn_lock"
                          /\ (Replying(n) \/ pc[n] = "reply_lock")' => Replying(n) \/ pc[n] = "reply_lock"
                          /\ InTurn(n)' \/ Replying(n)' => InTurn(n) \/ Replying(n)
  BY DEF LockInv, LockTypes, Goto, InTurn, Replying, Places
<1>3. Arcs' /\ Holders'
  BY <1>2 DEF LockInv, Arcs, Holders, locks
<1> QED  BY <1>1, <1>3 DEF LockInv

LEMMA LockSame == ASSUME LockInv, UNCHANGED <<pc, locks>> PROVE LockInv'
BY DEF LockInv, LockTypes, Arcs, Holders, InTurn, Replying, locks

\* A handler queues at the lock of the map, which is made if there is none.
LEMMA QueueAtLock ==
  ASSUME LockInv, NEW m \in Messages, pc[m] = "received", UNCHANGED holder,
         NEW k \in Kinds, TakeArc(m, k),
         Goto(m, IF k = "turn" THEN "turn_lock" ELSE "reply_lock")
  PROVE  LockInv'
<1>1. None \notin Messages
  BY RelayAssumption
<1> DEFINE a == IF slot[k] = None THEN m ELSE slot[k]
<1>2. a \in Messages /\ slot' = [slot EXCEPT ![k] = a] /\ arc' = [arc EXCEPT ![m] = a]
  BY DEF LockInv, LockTypes, TakeArc
<1> HIDE DEF a
<1>3. LockTypes'
  BY <1>2 DEF LockInv, LockTypes, Goto, Places, Kinds
<1>4. \A n \in Messages \ {m} :
        pc'[n] = pc[n] /\ arc'[n] = arc[n] /\ (arc[n] \in Messages /\ arc[n] = slot[k] => slot'[k] = slot[k])
  BY <1>1, <1>2 DEF LockInv, LockTypes, Goto, a
<1>5. \A l \in Kinds : l # k => slot'[l] = slot[l]
  BY <1>2 DEF LockInv, LockTypes
<1>6. Arcs'
  <2> SUFFICES ASSUME NEW n \in Messages PROVE
        /\ InTurn(n)' \/ pc'[n] = "turn_lock" => arc'[n] = slot'["turn"] /\ arc'[n] \in Messages
        /\ Replying(n)' \/ pc'[n] = "reply_lock" => arc'[n] = slot'["reply"] /\ arc'[n] \in Messages
    BY DEF Arcs
  <2>1. CASE n = m
    BY <1>2, <2>1 DEF LockInv, LockTypes, Goto, InTurn, Replying, Kinds
  <2>2. CASE n # m
    BY <1>4, <1>5, <2>2 DEF LockInv, Arcs, InTurn, Replying, Kinds
  <2> QED  BY <2>1, <2>2
<1>7. Holders'
  BY <1>4 DEF LockInv, LockTypes, Holders, InTurn, Replying, Goto
<1> QED  BY <1>3, <1>6, <1>7 DEF LockInv

LEMMA LockTaken ==
  ASSUME LockInv, NEW m \in Messages, pc[m] \in {"turn_lock", "reply_lock"}, Locked(m),
         UNCHANGED <<slot, arc>>, NEW p \in {"relay", "submit", "reply_end"}, Goto(m, p),
         p = "relay" <=> pc[m] = "turn_lock"
  PROVE  LockInv'
<1>1. None \notin Messages
  BY RelayAssumption
<1>2. arc[m] \in Messages
  BY DEF LockInv, Arcs
<1>3. LockTypes'
  BY <1>2 DEF LockInv, LockTypes, Goto, Places, Locked
<1>4. Arcs'
  BY DEF LockInv, LockTypes, Arcs, Goto, InTurn, Replying
<1>5. \A n \in Messages \ {m} : InTurn(n) \/ Replying(n) => arc[n] # arc[m]
  BY <1>1 DEF LockInv, Holders, Locked
<1>6. Holders'
  BY <1>2, <1>5 DEF LockInv, LockTypes, Holders, Goto, InTurn, Replying, Locked
<1> QED  BY <1>3, <1>4, <1>6 DEF LockInv

LEMMA LockLeft ==
  ASSUME LockInv, NEW m \in Messages, InTurn(m) \/ Replying(m), Unlock(m),
         NEW p \in {"turn_prune", "reply_prune"}, Goto(m, p)
  PROVE  LockInv'
<1>1. None \notin Messages
  BY RelayAssumption
<1>2. arc[m] \in Messages /\ holder[arc[m]] = m
  BY DEF LockInv, Arcs, Holders
<1>3. LockTypes'
  BY <1>2 DEF LockInv, LockTypes, Goto, Places, Unlock
<1>4. Arcs'
  BY DEF LockInv, LockTypes, Arcs, Goto, InTurn, Replying, Unlock
<1>5. \A n \in Messages \ {m} : InTurn(n) \/ Replying(n) => arc[n] # arc[m] /\ arc[n] \in Messages
  BY <1>2 DEF LockInv, Holders, Arcs
<1>6. Holders'
  BY <1>2, <1>5 DEF LockInv, LockTypes, Holders, Goto, InTurn, Replying, Unlock
<1> QED  BY <1>3, <1>4, <1>6 DEF LockInv

\* An Arc that somebody has stays in the map.
LEMMA LockPruned ==
  ASSUME LockInv, NEW m \in Messages, NEW k \in Kinds, PruneLock(k), UNCHANGED <<arc, holder>>,
         Goto(m, "done")
  PROVE  LockInv'
<1>1. LockTypes'
  BY DEF LockInv, LockTypes, Goto, Places, PruneLock
<1>2. \A l \in Kinds, n \in Messages : arc[n] = slot[l] => slot'[l] = slot[l]
  BY DEF LockInv, LockTypes, PruneLock
<1>3. Arcs' /\ Holders'
  BY <1>2 DEF LockInv, LockTypes, Arcs, Holders, Goto, InTurn, Replying, Kinds
<1> QED  BY <1>1, <1>3 DEF LockInv

\* Handlers as they are in Next.
Steps(m) == Receive(m) \/ Handle(m)

LEMMA LockStep ==
  ASSUME LockInv, NEW m \in Messages, Steps(m)
  PROVE  LockInv'
<1>1. CASE Receive(m)
  <2>1. Goto(m, "received") /\ UNCHANGED locks /\ pc[m] # "turn_lock"
    BY <1>1 DEF Receive
  <2>2. /\ "received" \in {"relay", "queueing", "prompting", "denying", "clearing"} => InTurn(m)
        /\ "received" \in {"submit", "pop", "discard", "reply_end"} => Replying(m)
    BY <1>1 DEF Receive, InTurn, Replying
  <2> QED  BY <2>1, <2>2, LockFrame DEF Places
<1>2. CASE NotAnAnswer(m)
  <2>1. Goto(m, "done") /\ UNCHANGED locks /\ pc[m] # "turn_lock"
    BY <1>2 DEF NotAnAnswer, Return
  <2>2. /\ "done" \in {"relay", "queueing", "prompting", "denying", "clearing"} => InTurn(m)
        /\ "done" \in {"submit", "pop", "discard", "reply_end"} => Replying(m)
    BY <1>2 DEF NotAnAnswer, InTurn, Replying
  <2> QED  BY <2>1, <2>2, LockFrame DEF Places
<1>3. CASE HandlePending(m)
  BY <1>3, QueueAtLock DEF HandlePending, Kinds
<1>4. CASE HandleChat(m)
  BY <1>4, QueueAtLock DEF HandleChat, Kinds
<1>5. CASE RelayStart(m)
  BY <1>5, LockTaken DEF RelayStart
<1>6. CASE ActionRequired(m)
  <2>1. Goto(m, "queueing") /\ UNCHANGED locks /\ pc[m] # "turn_lock"
    BY <1>6 DEF ActionRequired
  <2>2. /\ "queueing" \in {"relay", "queueing", "prompting", "denying", "clearing"} => InTurn(m)
        /\ "queueing" \in {"submit", "pop", "discard", "reply_end"} => Replying(m)
    BY <1>6 DEF ActionRequired, InTurn, Replying
  <2> QED  BY <2>1, <2>2, LockFrame DEF Places
<1>7. CASE Enqueue(m)
  <2>1. Goto(m, "prompting") /\ UNCHANGED locks /\ pc[m] # "turn_lock"
    BY <1>7 DEF Enqueue
  <2>2. /\ "prompting" \in {"relay", "queueing", "prompting", "denying", "clearing"} => InTurn(m)
        /\ "prompting" \in {"submit", "pop", "discard", "reply_end"} => Replying(m)
    BY <1>7 DEF Enqueue, InTurn, Replying
  <2> QED  BY <2>1, <2>2, LockFrame DEF Places
<1>8. CASE PromptDelivered(m)
  <2>1. Goto(m, "relay") /\ UNCHANGED locks /\ pc[m] # "turn_lock"
    BY <1>8 DEF PromptDelivered
  <2>2. /\ "relay" \in {"relay", "queueing", "prompting", "denying", "clearing"} => InTurn(m)
        /\ "relay" \in {"submit", "pop", "discard", "reply_end"} => Replying(m)
    BY <1>8 DEF PromptDelivered, InTurn, Replying
  <2> QED  BY <2>1, <2>2, LockFrame DEF Places
<1>9. CASE PromptFails(m)
  <2>1. Goto(m, "denying") /\ UNCHANGED locks /\ pc[m] # "turn_lock"
    BY <1>9 DEF PromptFails
  <2>2. /\ "denying" \in {"relay", "queueing", "prompting", "denying", "clearing"} => InTurn(m)
        /\ "denying" \in {"submit", "pop", "discard", "reply_end"} => Replying(m)
    BY <1>9 DEF PromptFails, InTurn, Replying
  <2> QED  BY <2>1, <2>2, LockFrame DEF Places
<1>10. CASE DenyUndelivered(m)
  <2>1. Goto(m, "relay") /\ UNCHANGED locks /\ pc[m] # "turn_lock"
    BY <1>10 DEF DenyUndelivered
  <2>2. /\ "relay" \in {"relay", "queueing", "prompting", "denying", "clearing"} => InTurn(m)
        /\ "relay" \in {"submit", "pop", "discard", "reply_end"} => Replying(m)
    BY <1>10 DEF DenyUndelivered, InTurn, Replying
  <2> QED  BY <2>1, <2>2, LockFrame DEF Places
<1>11. CASE DenyFails(m)
  <2>1. Goto(m, "clearing") /\ UNCHANGED locks /\ pc[m] # "turn_lock"
    BY <1>11 DEF DenyFails
  <2>2. /\ "clearing" \in {"relay", "queueing", "prompting", "denying", "clearing"} => InTurn(m)
        /\ "clearing" \in {"submit", "pop", "discard", "reply_end"} => Replying(m)
    BY <1>11 DEF DenyFails, InTurn, Replying
  <2> QED  BY <2>1, <2>2, LockFrame DEF Places
<1>12. CASE ClearPending(m)
  <2>1. Goto(m, "relay") /\ UNCHANGED locks /\ pc[m] # "turn_lock"
    BY <1>12 DEF ClearPending
  <2>2. /\ "relay" \in {"relay", "queueing", "prompting", "denying", "clearing"} => InTurn(m)
        /\ "relay" \in {"submit", "pop", "discard", "reply_end"} => Replying(m)
    BY <1>12 DEF ClearPending, InTurn, Replying
  <2> QED  BY <2>1, <2>2, LockFrame DEF Places
<1>13. CASE RunOver(m)
  BY <1>13, LockSame DEF RunOver, message, locks
<1>14. CASE Answered(m)
  BY <1>14, LockSame DEF Answered, message, locks
<1>15. CASE RelayEnds(m)
  BY <1>15, LockLeft DEF RelayEnds, InTurn, Replying
<1>16. CASE Prune(m, "turn")
  BY <1>16, LockPruned DEF Prune, Return, Kinds
<1>17. CASE ReplyStart(m)
  BY <1>17, LockTaken DEF ReplyStart
<1>18. CASE Submit(m)
  <2>1. Goto(m, "pop") /\ UNCHANGED locks /\ pc[m] # "turn_lock"
    BY <1>18 DEF Submit
  <2>2. /\ "pop" \in {"relay", "queueing", "prompting", "denying", "clearing"} => InTurn(m)
        /\ "pop" \in {"submit", "pop", "discard", "reply_end"} => Replying(m)
    BY <1>18 DEF Submit, InTurn, Replying
  <2> QED  BY <2>1, <2>2, LockFrame DEF Places
<1>19. CASE SubmitFails(m)
  <2>1. Goto(m, "discard") /\ UNCHANGED locks /\ pc[m] # "turn_lock"
    BY <1>19 DEF SubmitFails
  <2>2. /\ "discard" \in {"relay", "queueing", "prompting", "denying", "clearing"} => InTurn(m)
        /\ "discard" \in {"submit", "pop", "discard", "reply_end"} => Replying(m)
    BY <1>19 DEF SubmitFails, InTurn, Replying
  <2> QED  BY <2>1, <2>2, LockFrame DEF Places
<1>20. CASE Discard(m)
  <2>1. Goto(m, "reply_end") /\ UNCHANGED locks /\ pc[m] # "turn_lock"
    BY <1>20 DEF Discard
  <2>2. /\ "reply_end" \in {"relay", "queueing", "prompting", "denying", "clearing"} => InTurn(m)
        /\ "reply_end" \in {"submit", "pop", "discard", "reply_end"} => Replying(m)
    BY <1>20 DEF Discard, InTurn, Replying
  <2> QED  BY <2>1, <2>2, LockFrame DEF Places
<1>21. CASE Pop(m)
  <2>1. Goto(m, "reply_end") /\ UNCHANGED locks /\ pc[m] # "turn_lock"
    BY <1>21 DEF Pop
  <2>2. /\ "reply_end" \in {"relay", "queueing", "prompting", "denying", "clearing"} => InTurn(m)
        /\ "reply_end" \in {"submit", "pop", "discard", "reply_end"} => Replying(m)
    BY <1>21 DEF Pop, InTurn, Replying
  <2> QED  BY <2>1, <2>2, LockFrame DEF Places
<1>22. CASE ReplyEnds(m)
  BY <1>22, LockLeft DEF ReplyEnds, InTurn, Replying
<1>23. CASE Prune(m, "reply")
  BY <1>23, LockPruned DEF Prune, Return, Kinds
<1> QED
  BY <1>1, <1>2, <1>3, <1>4, <1>5, <1>6, <1>7, <1>8, <1>9, <1>10, <1>11, <1>12, <1>13, <1>14, <1>15, <1>16, <1>17, <1>18, <1>19, <1>20, <1>21, <1>22, <1>23
  DEF Steps, Handle, Relay, Reply

LEMMA LockKept == LockInv /\ [Next]_vars => LockInv'
<1> SUFFICES ASSUME LockInv, [Next]_vars PROVE LockInv'
  OBVIOUS
<1>1. ASSUME NEW m \in Messages, Steps(m) PROVE LockInv'
  BY <1>1, LockStep
<1>2. CASE Stop \/ DenyDrained \/ Stopped \/ UNCHANGED vars
  <2>1. UNCHANGED <<pc, locks>>
    BY <1>2 DEF Stop, DenyDrained, Stopped, vars, message
  <2> QED  BY <2>1, LockSame
<1> QED  BY <1>1, <1>2 DEF Next, Steps

\* A lock has one holder.
LEMMA OneHolder ==
  ASSUME LockInv
  PROVE  Serialized
BY DEF LockInv, Arcs, Holders, Serialized


-----------------------------------------------------------------------------
(* The queue.                                                              *)

\* What has failed stays failed, and a gateway that stops does not come back.
LEMMA GoodBefore == Next /\ Good' => Good
<1> SUFFICES ASSUME Next, Good' PROVE Good
  OBVIOUS
<1>1. CASE \E m \in Messages : Receive(m) \/ Handle(m)
  <2> PICK m \in Messages : Receive(m) \/ Handle(m)
    BY <1>1
  <2>1. CASE Receive(m) \/ NotAnAnswer(m) \/ HandlePending(m) \/ HandleChat(m)
    BY <2>1 DEF Receive, NotAnAnswer, HandlePending, HandleChat, Good, outside, stopping
  <2>2. CASE Relay(m)
    <3>1. CASE \/ RelayStart(m) \/ ActionRequired(m) \/ Enqueue(m) \/ PromptDelivered(m)
               \/ DenyUndelivered(m) \/ ClearPending(m) \/ RunOver(m) \/ Answered(m)
               \/ Prune(m, "turn")
      BY <3>1 DEF RelayStart, ActionRequired, Enqueue, PromptDelivered, DenyUndelivered,
                  ClearPending, RunOver, Answered, Prune, Good, outside, stopping
    <3>2. CASE PromptFails(m)
      BY <3>2 DEF PromptFails, Good
    <3>3. CASE DenyFails(m)
      BY <3>3 DEF DenyFails, Refused, Good, stopping
    <3>4. CASE RelayEnds(m)
      <4>1. gateway = "up" /\ ~faulty'
        BY <3>4 DEF RelayEnds, Good, stopping
      <4>2. faulty' = (faulty \/ \E r \in Requests : answer[r] # "absent" /\ m \notin cancelled)
        BY <3>4 DEF RelayEnds
      <4>3. ~faulty
        BY <4>1, <4>2, Zenon
      <4> QED  BY <4>1, <4>3 DEF Good
    <3> QED  BY <2>2, <3>1, <3>2, <3>3, <3>4 DEF Relay
  <2>3. CASE Reply(m)
    BY <2>3 DEF Reply, ReplyStart, Submit, SubmitFails, Refused, Discard, Pop, ReplyEnds, Prune,
                Good, outside, stopping
  <2> QED  BY <2>1, <2>2, <2>3 DEF Handle
<1>2. CASE Stop \/ DenyDrained \/ Stopped
  BY <1>2 DEF Stop, DenyDrained, Stopped, Good
<1> QED  BY <1>1, <1>2 DEF Next

Busy == {"queueing", "submit", "pop", "denying", "clearing", "discard"}

\* A step that leaves the queue, the requests and every busy handler alone.
LEMMA QueueFrame ==
  ASSUME QueueFacts, UNCHANGED <<pending, answer, used, cancelled>>,
         rid' \in [Messages -> Requests \cup {None}],
         says' \in [Messages -> {"chat", "yes", "no"}],
         \A n \in Messages : \/ pc'[n] = pc[n] /\ rid'[n] = rid[n]
                             \/ pc[n] \notin Busy /\ pc'[n] \notin Busy
  PROVE  QueueFacts'
<1>1. \A n \in Messages : pc'[n] \in Busy => pc'[n] = pc[n] /\ rid'[n] = rid[n]
  OBVIOUS
<1>2. \A n \in Messages : pc[n] \in Busy => pc'[n] = pc[n] /\ rid'[n] = rid[n]
  OBVIOUS
<1>3. QueueTypes' /\ Distinct'
  BY DEF QueueFacts, QueueTypes, Distinct
<1>4. Calm'
  BY <1>1 DEF QueueFacts, Calm, Busy
<1>5. QueuedIsOpen'
  BY <1>2 DEF QueueFacts, QueuedIsOpen, Busy
<1>6. OpenIsQueued'
  BY <1>2 DEF QueueFacts, OpenIsQueued, Busy
<1>7. InHand'
  BY <1>1 DEF QueueFacts, InHand, Busy
<1> QED  BY <1>3, <1>4, <1>5, <1>6, <1>7 DEF QueueFacts

\* A handler goes on, not to or from a step on the queue.
LEMMA QueueGoto ==
  ASSUME QueueFacts, LockTypes, NEW m \in Messages, NEW p \in Places \ Busy, Goto(m, p),
         pc[m] \notin Busy, UNCHANGED <<pending, answer, used, cancelled>>,
         rid' = rid \/ rid' = [rid EXCEPT ![m] = None],
         \/ says' = says
         \/ \E t \in {"chat", "yes", "no"} : says' = [says EXCEPT ![m] = t]
  PROVE  QueueFacts'
<1>1. /\ rid' \in [Messages -> Requests \cup {None}]
      /\ says' \in [Messages -> {"chat", "yes", "no"}]
  BY DEF QueueFacts, QueueTypes
<1>2. \A n \in Messages : \/ pc'[n] = pc[n] /\ rid'[n] = rid[n]
                          \/ pc[n] \notin Busy /\ pc'[n] \notin Busy
  BY DEF Goto, LockTypes, QueueFacts, QueueTypes
<1> QED  BY <1>1, <1>2, QueueFrame

LEMMA AskStep ==
  ASSUME LockInv, QueueFacts, NEW m \in Messages, ActionRequired(m)
  PROVE  QueueFacts'
<1> PICK r \in Requests \ used :
      /\ pc[m] = "relay"
      /\ answer' = [answer EXCEPT ![r] = "unanswered"]
      /\ used' = used \cup {r}
      /\ rid' = [rid EXCEPT ![m] = r]
      /\ Goto(m, "queueing")
      /\ UNCHANGED <<says, pending, cancelled>>
  BY DEF ActionRequired, queue
<1>1. /\ pc'[m] = "queueing" /\ rid'[m] = r
      /\ \A n \in Messages \ {m} : pc'[n] = pc[n] /\ rid'[n] = rid[n]
  BY DEF Goto, LockInv, LockTypes, QueueFacts, QueueTypes
<1>2. answer'[r] = "unanswered" /\ \A s \in Requests \ {r} : answer'[s] = answer[s]
  BY DEF QueueFacts, QueueTypes
<1>3. \A i \in 1 .. Len(pending) : pending[i] \in Requests \ {r}
  BY DEF QueueFacts, QueueTypes, Distinct
<1>4. QueueTypes'
  BY DEF QueueFacts, QueueTypes
<1>5. Calm'
  BY <1>1 DEF QueueFacts, Calm
<1>6. Distinct'
  BY DEF QueueFacts, Distinct
<1>7. QueuedIsOpen'
  BY <1>1, <1>2, <1>3 DEF QueueFacts, QueuedIsOpen
<1>8. OpenIsQueued'
  BY <1>1, <1>2 DEF QueueFacts, OpenIsQueued
<1>9. InHand'
  <2> SUFFICES ASSUME NEW n \in Messages PROVE
        /\ pc'[n] = "queueing" =>
              /\ rid'[n] \in used' /\ answer'[rid'[n]] = "unanswered"
              /\ \A i \in 1 .. Len(pending) : pending[i] # rid'[n]
        /\ pc'[n] = "submit" =>
              pending # << >> /\ pending[1] = rid'[n] /\ answer'[rid'[n]] = "unanswered"
        /\ pc'[n] = "pop" =>
              pending # << >> /\ pending[1] = rid'[n] /\ answer'[rid'[n]] # "unanswered"
    BY DEF InHand
  <2>1. CASE n = m
    BY <1>1, <1>2, <1>3, <2>1
  <2>2. CASE n # m
    <3>1. pc'[n] = pc[n] /\ rid'[n] = rid[n]
      BY <1>1, <2>2
    <3>2. CASE pc[n] = "queueing"
      <4>1. rid[n] \in used
        BY <3>2 DEF QueueFacts, InHand
      <4>2. rid[n] \in Requests \ {r}
        BY <4>1 DEF QueueFacts, QueueTypes
      <4> QED  BY <1>2, <3>1, <3>2, <4>1, <4>2 DEF QueueFacts, InHand
    <3>3. CASE pc[n] \in {"submit", "pop"}
      <4>1. pending # << >> /\ pending[1] = rid[n]
        BY <3>3 DEF QueueFacts, InHand
      <4>2. 1 \in 1 .. Len(pending)
        BY <4>1 DEF QueueFacts, QueueTypes
      <4>3. rid[n] \in Requests \ {r}
        BY <1>3, <4>1, <4>2
      <4> QED  BY <1>2, <3>1, <3>3, <4>1, <4>3 DEF QueueFacts, InHand
    <3> QED  BY <3>1, <3>2, <3>3
  <2> QED  BY <2>1, <2>2
<1> QED  BY <1>4, <1>5, <1>6, <1>7, <1>8, <1>9 DEF QueueFacts

\* Only one turn is queueing, so the request joins a queue that lacks it.
LEMMA EnqueueStep ==
  ASSUME LockInv, QueueFacts, NEW m \in Messages, Enqueue(m)
  PROVE  QueueFacts'
<1> DEFINE r == rid[m]
<1>1. /\ r \in used /\ r \in Requests /\ answer[r] = "unanswered"
      /\ \A i \in 1 .. Len(pending) : pending[i] # r
  BY DEF Enqueue, QueueFacts, InHand, QueueTypes
<1>2. /\ pc'[m] = "prompting" /\ \A n \in Messages \ {m} : pc'[n] = pc[n]
      /\ UNCHANGED <<says, rid, answer, used, cancelled>>
  BY DEF Enqueue, Goto, LockInv, LockTypes, reply, agent
<1>3. pending \in Seq(Requests) /\ pending' = Append(pending, r)
  BY DEF Enqueue, QueueFacts, QueueTypes
<1> HIDE DEF r
<1>4. /\ pending' \in Seq(Requests) /\ Len(pending') = Len(pending) + 1
      /\ Len(pending) \in Nat /\ pending'[Len(pending) + 1] = r
      /\ \A i \in 1 .. Len(pending) : pending'[i] = pending[i]
  BY <1>1, <1>3
<1>5. \A n \in Messages : pc'[n] # "queueing"
  BY <1>2, OneHolder DEF Enqueue, Serialized, InTurn
<1>6. QueueTypes'
  BY <1>2, <1>4 DEF QueueFacts, QueueTypes
<1>7. Calm'
  BY <1>2 DEF QueueFacts, Calm
<1>8. Distinct'
  BY <1>1, <1>2, <1>4 DEF QueueFacts, Distinct
<1>9. QueuedIsOpen'
  <2> SUFFICES ASSUME NEW i \in 1 .. Len(pending') PROVE
        \/ answer'[pending'[i]] = "unanswered"
        \/ i = 1 /\ \E n \in Messages : pc'[n] = "pop" /\ rid'[n] = pending'[1]
    BY DEF QueuedIsOpen
  <2>1. CASE i = Len(pending) + 1
    BY <1>1, <1>2, <1>4, <2>1
  <2>2. CASE i \in 1 .. Len(pending)
    <3>1. \/ answer[pending[i]] = "unanswered"
          \/ i = 1 /\ \E n \in Messages : pc[n] = "pop" /\ rid[n] = pending[1]
      BY <2>2 DEF QueueFacts, QueuedIsOpen
    <3>2. pc[m] # "pop"
      BY DEF Enqueue
    <3> QED  BY <1>2, <1>4, <2>2, <3>1, <3>2
  <2> QED  BY <1>4, <2>1, <2>2
<1>10. OpenIsQueued'
  <2> SUFFICES ASSUME NEW s \in Requests, answer[s] = "unanswered"
               PROVE  \E i \in 1 .. Len(pending') : pending'[i] = s
    BY <1>2 DEF OpenIsQueued
  <2>1. \/ \E i \in 1 .. Len(pending) : pending[i] = s
        \/ \E n \in Messages : pc[n] = "queueing" /\ rid[n] = s
    BY DEF QueueFacts, OpenIsQueued
  <2>2. CASE \E i \in 1 .. Len(pending) : pending[i] = s
    BY <1>4, <2>2
  <2>3. ASSUME NEW n \in Messages, pc[n] = "queueing", rid[n] = s PROVE s = r
    BY <1>2, <1>5, <2>3 DEF r
  <2> QED  BY <1>4, <2>1, <2>2, <2>3
<1>11. InHand'
  <2>1. \A n \in Messages : pc'[n] \in {"submit", "pop"} =>
          /\ pc[n] = pc'[n] /\ 1 \in 1 .. Len(pending) /\ pending[1] = rid[n]
    BY <1>2, <1>4 DEF QueueFacts, InHand, QueueTypes
  <2>2. \A n \in Messages : pc'[n] \in {"submit", "pop"} => pending' # << >> /\ pending'[1] = rid[n]
    BY <1>4, <2>1
  <2> QED  BY <1>2, <1>5, <2>1, <2>2 DEF QueueFacts, InHand
<1> QED  BY <1>6, <1>7, <1>8, <1>9, <1>10, <1>11 DEF QueueFacts

\* When the agent forgets its requests all of them are answered, or there are none.
LEMMA ForgetStep ==
  ASSUME QueueFacts, NEW m \in Messages, pc[m] = "relay", LockTypes,
         UNCHANGED pc \/ Goto(m, "turn_prune"),
         \A r \in Requests : answer[r] # "unanswered",
         answer' = [r \in Requests |-> "absent"],
         UNCHANGED <<says, pending, rid, used, cancelled>>
  PROVE  QueueFacts'
<1>1. \A n \in Messages : pc'[n] = pc[n] \/ (n = m /\ pc'[n] = "turn_prune")
  BY DEF Goto, LockTypes
<1>2. \A i \in 1 .. Len(pending) :
        i = 1 /\ \E n \in Messages : pc[n] = "pop" /\ rid[n] = pending[1]
  BY DEF QueueFacts, QueueTypes, QueuedIsOpen
<1>3. QueueTypes'
  BY DEF QueueFacts, QueueTypes
<1>4. Calm'
  BY <1>1 DEF QueueFacts, Calm
<1>5. Distinct'
  BY DEF QueueFacts, Distinct
<1>6. QueuedIsOpen'
  BY <1>1, <1>2 DEF QueuedIsOpen
<1>7. OpenIsQueued'
  BY DEF OpenIsQueued
<1>8. InHand'
  <2>1. \A n \in Messages : pc[n] \notin {"queueing", "submit"}
    <3> SUFFICES ASSUME NEW n \in Messages, pc[n] \in {"queueing", "submit"} PROVE FALSE
      OBVIOUS
    <3>1. answer[rid[n]] = "unanswered" /\ (rid[n] \in used \/ (pending # << >> /\ pending[1] = rid[n]))
      BY DEF QueueFacts, InHand
    <3>2. rid[n] \in Requests
      BY <3>1 DEF QueueFacts, QueueTypes
    <3> QED  BY <3>1, <3>2
  <2>2. \A n \in Messages : pc[n] = "pop" => rid[n] \in Requests /\ pending # << >> /\ pending[1] = rid[n]
    BY DEF QueueFacts, QueueTypes, InHand
  <2> QED  BY <1>1, <2>1, <2>2 DEF InHand
<1> QED  BY <1>3, <1>4, <1>5, <1>6, <1>7, <1>8 DEF QueueFacts

\* The reply lock is free, so the front of the queue has no answer yet.
LEMMA ReplyStartStep ==
  ASSUME LockInv, QueueFacts, NEW m \in Messages, ReplyStart(m)
  PROVE  QueueFacts'
<1>1. pc[m] = "reply_lock" /\ UNCHANGED <<says, pending, answer, used, cancelled>>
  BY DEF ReplyStart, queue, agent
<1>2. CASE pending = << >>
  BY <1>1, <1>2, QueueGoto DEF ReplyStart, LockInv, Places, Busy
<1>3. CASE pending # << >>
  <2> DEFINE r == Head(pending)
  <2>1. rid' = [rid EXCEPT ![m] = r] /\ Goto(m, "submit")
    BY <1>3 DEF ReplyStart
  <2>2. r = pending[1] /\ 1 \in 1 .. Len(pending) /\ r \in Requests
    BY <1>3 DEF QueueFacts, QueueTypes
  <2> HIDE DEF r
  <2>3. \A n \in Messages : pc[n] # "pop" /\ pc[n] # "submit"
    <3> SUFFICES ASSUME NEW n \in Messages, pc[n] \in {"pop", "submit"} PROVE FALSE
      OBVIOUS
    <3>1. arc[n] = arc[m] /\ holder[arc[n]] = n
      BY <1>1 DEF LockInv, Arcs, Holders, Replying
    <3>2. holder[arc[m]] = None
      BY DEF ReplyStart, Locked
    <3> QED  BY <3>1, <3>2, RelayAssumption
  <2>4. answer[r] = "unanswered"
    BY <2>2, <2>3 DEF QueueFacts, QueuedIsOpen
  <2>5. /\ pc'[m] = "submit" /\ rid'[m] = r
        /\ \A n \in Messages \ {m} : pc'[n] = pc[n] /\ rid'[n] = rid[n]
    BY <2>1 DEF Goto, LockInv, LockTypes, QueueFacts, QueueTypes
  <2>6. QueueTypes'
    BY <1>1, <2>1, <2>2 DEF QueueFacts, QueueTypes
  <2>7. Calm'
    BY <1>1, <2>5 DEF QueueFacts, Calm
  <2>8. Distinct'
    BY <1>1 DEF QueueFacts, Distinct
  <2>9. QueuedIsOpen'
    BY <1>1, <2>3 DEF QueueFacts, QueuedIsOpen
  <2>10. OpenIsQueued'
    BY <1>1, <2>5 DEF QueueFacts, OpenIsQueued
  <2>11. InHand'
    BY <1>1, <1>3, <2>2, <2>3, <2>4, <2>5 DEF QueueFacts, InHand
  <2> QED  BY <2>6, <2>7, <2>8, <2>9, <2>10, <2>11 DEF QueueFacts
<1> QED  BY <1>2, <1>3

\* The answer reaches the front of the queue and no other request.
LEMMA SubmitStep ==
  ASSUME LockInv, QueueFacts, NEW m \in Messages, Submit(m)
  PROVE  QueueFacts'
<1> DEFINE r == rid[m]
<1>1. /\ pc[m] = "submit" /\ UNCHANGED <<says, pending, rid, used, cancelled>>
      /\ answer' = [answer EXCEPT ![r] = says[m]]
  BY DEF Submit, Submitted, queue, reply
<1>2. pending # << >> /\ pending[1] = r
  BY <1>1 DEF QueueFacts, InHand
<1>3. 1 \in 1 .. Len(pending) /\ r \in Requests /\ says[m] \in {"chat", "yes", "no"}
  BY <1>2 DEF QueueFacts, QueueTypes
<1>4. /\ pc'[m] = "pop" /\ \A n \in Messages \ {m} : pc'[n] = pc[n]
  BY DEF Submit, Goto, LockInv, LockTypes
<1>5. rid[m] = r
  OBVIOUS
<1> HIDE DEF r
<1>6. answer'[r] # "unanswered" /\ \A s \in Requests \ {r} : answer'[s] = answer[s]
  BY <1>1, <1>3 DEF QueueFacts, QueueTypes
<1>7. \A n \in Messages \ {m} : pc[n] \notin {"submit", "pop"}
  BY <1>1, OneHolder DEF Serialized, Replying
<1>8. QueueTypes'
  BY <1>1, <1>3 DEF QueueFacts, QueueTypes
<1>9. Calm'
  BY <1>1, <1>4 DEF QueueFacts, Calm
<1>10. Distinct'
  BY <1>1 DEF QueueFacts, Distinct
<1>11. QueuedIsOpen'
  <2>1. \A i \in 1 .. Len(pending) : i # 1 =>
          pending[i] \in Requests \ {r} /\ answer[pending[i]] = "unanswered"
    BY <1>2, <1>3 DEF QueueFacts, QueueTypes, QueuedIsOpen, Distinct
  <2> QED  BY <1>1, <1>2, <1>4, <1>5, <1>6, <2>1 DEF QueuedIsOpen
<1>12. OpenIsQueued'
  BY <1>1, <1>4, <1>6 DEF QueueFacts, OpenIsQueued
<1>13. InHand'
  <2>1. \A n \in Messages : pc'[n] = "queueing" => pc[n] = "queueing" /\ rid[n] \in Requests \ {r}
    BY <1>2, <1>3, <1>4 DEF QueueFacts, InHand, QueueTypes
  <2>2. \A n \in Messages : pc'[n] \in {"submit", "pop"} => n = m
    BY <1>4, <1>7
  <2> QED  BY <1>1, <1>2, <1>4, <1>5, <1>6, <2>1, <2>2 DEF QueueFacts, InHand
<1> QED  BY <1>8, <1>9, <1>10, <1>11, <1>12, <1>13 DEF QueueFacts

\* An answer to a request without one is refused only when it cannot be stored.
LEMMA NotRefused ==
  ASSUME QueueFacts, NEW m \in Messages, SubmitFails(m)
  PROVE  ~Good'
<1>1. answer[rid[m]] = "unanswered"
  BY DEF SubmitFails, QueueFacts, InHand
<1> QED  BY <1>1 DEF SubmitFails, Refused, Accepts, Good

LEMMA PopStep ==
  ASSUME LockInv, QueueFacts, NEW m \in Messages, Pop(m)
  PROVE  QueueFacts'
<1>1. /\ pc[m] = "pop" /\ UNCHANGED <<says, rid, answer, used, cancelled>>
      /\ pending # << >> /\ pending[1] = rid[m] /\ answer[rid[m]] # "unanswered"
  BY DEF Pop, reply, agent, QueueFacts, InHand
<1>2. pending \in Seq(Requests) /\ Head(pending) = rid[m]
  BY <1>1 DEF QueueFacts, QueueTypes
<1>3. pending' = Tail(pending)
  BY <1>1, <1>2 DEF Pop, SetPending
<1>4. /\ pending' \in Seq(Requests) /\ Len(pending') = Len(pending) - 1
      /\ Len(pending) \in Nat \ {0}
      /\ \A i \in 1 .. Len(pending') : pending'[i] = pending[i + 1]
  BY <1>1, <1>2, <1>3
<1>5. /\ pc'[m] = "reply_end" /\ \A n \in Messages \ {m} : pc'[n] = pc[n]
  BY DEF Pop, Goto, LockInv, LockTypes
<1>6. \A n \in Messages : pc'[n] \notin {"submit", "pop"}
  BY <1>1, <1>5, OneHolder DEF Serialized, Replying
<1>7. QueueTypes'
  BY <1>1, <1>4 DEF QueueFacts, QueueTypes
<1>8. Calm'
  BY <1>1, <1>5 DEF QueueFacts, Calm
<1>9. Distinct'
  BY <1>1, <1>4 DEF QueueFacts, Distinct
<1>10. QueuedIsOpen'
  BY <1>1, <1>4 DEF QueueFacts, QueuedIsOpen
<1>11. OpenIsQueued'
  <2> SUFFICES ASSUME NEW s \in Requests, answer[s] = "unanswered" PROVE
        \/ \E i \in 1 .. Len(pending') : pending'[i] = s
        \/ \E n \in Messages : pc'[n] = "queueing" /\ rid[n] = s
    BY <1>1 DEF OpenIsQueued
  <2>1. \/ \E i \in 1 .. Len(pending) : pending[i] = s
        \/ \E n \in Messages : pc[n] = "queueing" /\ rid[n] = s
    BY DEF QueueFacts, OpenIsQueued
  <2>2. ASSUME NEW i \in 1 .. Len(pending), pending[i] = s
        PROVE  \E j \in 1 .. Len(pending') : pending'[j] = s
    <3>1. i # 1
      BY <1>1, <2>2
    <3>2. i - 1 \in 1 .. Len(pending') /\ pending'[i - 1] = s
      BY <1>4, <2>2, <3>1
    <3> QED  BY <3>2
  <2> QED  BY <1>1, <1>5, <2>1, <2>2
<1>12. InHand'
  BY <1>1, <1>4, <1>5, <1>6 DEF QueueFacts, InHand
<1> QED  BY <1>7, <1>8, <1>9, <1>10, <1>11, <1>12 DEF QueueFacts

LEMMA QueueStep ==
  ASSUME LockInv, QueueFacts, Good, Good', NEW m \in Messages, Steps(m)
  PROVE  QueueFacts'
<1>0. LockTypes /\ pc[m] \notin {"denying", "clearing", "discard"} /\ cancelled = {}
  BY DEF LockInv, QueueFacts, Calm
<1>1. CASE Receive(m)
  BY <1>0, <1>1, QueueGoto DEF Receive, queue, reply, agent, Places, Busy
<1>2. CASE NotAnAnswer(m)
  BY <1>0, <1>2, QueueGoto DEF NotAnAnswer, Return, queue, agent, Places, Busy
<1>3. CASE HandlePending(m) \/ HandleChat(m)
  BY <1>0, <1>3, QueueGoto DEF HandlePending, HandleChat, queue, reply, agent, Places, Busy
<1>4. CASE RelayStart(m)
  BY <1>0, <1>4, QueueGoto DEF RelayStart, queue, reply, Places, Busy
<1>5. CASE ActionRequired(m)
  BY <1>5, AskStep
<1>6. CASE Enqueue(m)
  BY <1>6, EnqueueStep
<1>7. CASE PromptDelivered(m)
  BY <1>0, <1>7, QueueGoto DEF PromptDelivered, queue, reply, agent, Places, Busy
<1>8. CASE PromptFails(m)
  BY <1>8 DEF PromptFails, Good
<1>9. CASE DenyUndelivered(m) \/ DenyFails(m) \/ ClearPending(m) \/ Discard(m)
  BY <1>0, <1>9 DEF DenyUndelivered, DenyFails, ClearPending, Discard
<1>10. CASE RunOver(m)
  <2>1. UNCHANGED <<pc, says, rid, pending, answer, used, cancelled>>
    BY <1>10 DEF RunOver, message, queue, reply
  <2>2. /\ rid' \in [Messages -> Requests \cup {None}]
        /\ says' \in [Messages -> {"chat", "yes", "no"}]
    BY <2>1 DEF QueueFacts, QueueTypes
  <2> QED  BY <2>1, <2>2, QueueFrame
<1>11. CASE Answered(m)
  BY <1>0, <1>11, ForgetStep DEF Answered, message, queue, reply
<1>12. CASE RelayEnds(m)
  <2>1. \A r \in Requests : answer[r] = "absent"
    BY <1>0, <1>12 DEF RelayEnds, Good
  <2> QED  BY <1>0, <1>12, <2>1, ForgetStep DEF RelayEnds, queue, reply
<1>13. CASE Prune(m, "turn") \/ Prune(m, "reply")
  BY <1>0, <1>13, QueueGoto DEF Prune, Return, queue, agent, Places, Busy
<1>14. CASE ReplyStart(m)
  BY <1>14, ReplyStartStep
<1>15. CASE Submit(m)
  BY <1>15, SubmitStep
<1>16. CASE SubmitFails(m)
  BY <1>16, NotRefused
<1>17. CASE Pop(m)
  BY <1>17, PopStep
<1>18. CASE ReplyEnds(m)
  BY <1>0, <1>18, QueueGoto DEF ReplyEnds, queue, reply, agent, Places, Busy
<1> QED
  BY <1>1, <1>2, <1>3, <1>4, <1>5, <1>6, <1>7, <1>8, <1>9, <1>10, <1>11, <1>12, <1>13, <1>14,
     <1>15, <1>16, <1>17, <1>18
  DEF Steps, Handle, Relay, Reply

LEMMA QueueKept == LockInv /\ QueueInv /\ [Next]_vars => QueueInv'
<1> SUFFICES ASSUME LockInv, QueueInv, [Next]_vars, Good' PROVE QueueFacts'
  BY DEF QueueInv
<1>1. CASE UNCHANGED vars
  <2>1. Good /\ UNCHANGED <<pc, says, rid, pending, answer, used, cancelled>>
    BY <1>1 DEF vars, message, queue, reply, agent, outside, stopping, Good
  <2>2. QueueFacts
    BY <2>1 DEF QueueInv
  <2>3. /\ rid' \in [Messages -> Requests \cup {None}]
        /\ says' \in [Messages -> {"chat", "yes", "no"}]
    BY <2>1, <2>2 DEF QueueFacts, QueueTypes
  <2> QED  BY <2>1, <2>2, <2>3, QueueFrame
<1>2. CASE Next
  <2>1. Good /\ QueueFacts
    BY <1>2, GoodBefore DEF QueueInv
  <2>2. ASSUME NEW m \in Messages, Steps(m) PROVE QueueFacts'
    BY <2>1, <2>2, QueueStep
  <2>3. CASE Stop \/ DenyDrained \/ Stopped
    BY <2>1, <2>3 DEF Stop, DenyDrained, Stopped, Good
  <2> QED  BY <1>2, <2>2, <2>3 DEF Next, Steps
<1> QED  BY <1>1, <1>2

LEMMA InitIInv == Init => IInv
<1> SUFFICES ASSUME Init PROVE IInv
  OBVIOUS
<1>1. LockTypes /\ Arcs /\ Holders
  BY DEF Init, LockTypes, Arcs, Holders, Places, Kinds, InTurn, Replying
<1>2. pending = << >> /\ Len(pending) = 0 /\ pending \in Seq(Requests)
  BY DEF Init
<1>3. QueueTypes /\ Calm
  BY <1>2 DEF Init, QueueTypes, Calm
<1>4. Distinct /\ QueuedIsOpen
  BY <1>2 DEF Distinct, QueuedIsOpen
<1>5. OpenIsQueued /\ InHand
  BY DEF Init, OpenIsQueued, InHand
<1> QED  BY <1>1, <1>3, <1>4, <1>5 DEF IInv, LockInv, QueueInv, QueueFacts

LEMMA Invariance == Spec => []IInv
<1>1. IInv /\ [Next]_vars => IInv'
  BY LockKept, QueueKept DEF IInv
<1> QED  BY <1>1, InitIInv, PTL DEF Spec

-----------------------------------------------------------------------------
(* What retain leaves of a queue is a queue. That the recursive function     *)
(* exists, and that its values are sequences, is shown for the least place   *)
(* at which it might not be so.                                              *)

LEMMA LeastNumber ==
  ASSUME NEW T, T \subseteq Nat, T # {}
  PROVE  \E m \in T : \A k \in T : m <= k
<1>1. PICK m \in T : \A k \in T : ~(<<k, m>> \in OpToRel(<, Nat))
  BY NatLessThanWellFounded, WFMin
<1>2. \A k \in T : k < m => <<k, m>> \in OpToRel(<, Nat)
  BY DEF OpToRel
<1>3. \A k \in T : ~(k < m)
  BY <1>1, <1>2, Zenon
<1> QED  BY <1>3

\* One step of the recursion, and its equation up to the first n requests.
KeptAt(g, s, r, i) == IF i = 0 THEN << >> ELSE IF s[i] = r THEN g[i - 1] ELSE Append(g[i - 1], s[i])

IsKept(g, s, r, n) == g = [i \in 0 .. n |-> KeptAt(g, s, r, i)]

LEMMA WithoutIsKept ==
  ASSUME NEW s, NEW r
  PROVE  Without(s, r) = (CHOOSE g : IsKept(g, s, r, Len(s)))[Len(s)]
BY Zenon DEF Without, IsKept, KeptAt

LEMMA KeptExists ==
  ASSUME NEW s, NEW r, NEW N \in Nat
  PROVE  \E g : IsKept(g, s, r, N)
<1> DEFINE T == {n \in Nat : ~ \E g : IsKept(g, s, r, n)}
<1>1. \E g : IsKept(g, s, r, 0)
  <2> DEFINE g == [i \in 0 .. 0 |-> << >>]
  <2>1. \A i \in 0 .. 0 : KeptAt(g, s, r, i) = << >>
    BY SMT DEF KeptAt
  <2>2. g = [i \in 0 .. 0 |-> KeptAt(g, s, r, i)]
    BY <2>1, Zenon
  <2> QED  BY <2>2, Zenon DEF IsKept
<1>2. ASSUME NEW n \in Nat, \E g : IsKept(g, s, r, n)
      PROVE  \E g : IsKept(g, s, r, n + 1)
  <2>1. PICK g : g = [i \in 0 .. n |-> KeptAt(g, s, r, i)]
    BY <1>2, Zenon DEF IsKept
  <2> DEFINE h == [i \in 0 .. n + 1 |-> KeptAt(g, s, r, i)]
  <2>2. \A i \in 0 .. n : i \in 0 .. n + 1
    BY SMT
  <2>3. \A i \in 0 .. n : h[i] = g[i]
    BY <2>1, <2>2, Zenon
  <2>4. \A i \in 0 .. n + 1 : i # 0 => i - 1 \in 0 .. n
    BY SMT
  <2> HIDE DEF h
  <2>5. \A i \in 0 .. n + 1 : KeptAt(g, s, r, i) = KeptAt(h, s, r, i)
    BY <2>3, <2>4, Zenon DEF KeptAt
  <2>6. h = [i \in 0 .. n + 1 |-> KeptAt(h, s, r, i)]
    BY <2>5, Zenon DEF h
  <2> QED  BY <2>6, Zenon DEF IsKept
<1>3. T = {}
  <2> SUFFICES ASSUME T # {} PROVE FALSE
    OBVIOUS
  <2>1. PICK m \in T : \A k \in T : m <= k
    <3>1. T \subseteq Nat
      OBVIOUS
    <3> HIDE DEF T
    <3> QED  BY <3>1, LeastNumber
  <2>2. m \in Nat /\ ~ \E g : IsKept(g, s, r, m)
    BY Zenon
  <2>3. m # 0
    BY <1>1, <2>2, Zenon
  <2>4. m - 1 \in Nat /\ (m - 1) + 1 = m /\ ~(m <= m - 1)
    BY <2>2, <2>3, SMT
  <2>5. \E g : IsKept(g, s, r, m - 1)
    BY <2>1, <2>4, Zenon
  <2>6. \E g : IsKept(g, s, r, (m - 1) + 1)
    BY <1>2, <2>4, <2>5, Zenon
  <2> QED  BY <2>2, <2>4, <2>6, Zenon
<1> QED  BY <1>3, Zenon

LEMMA WithoutType ==
  ASSUME NEW S, NEW s \in Seq(S), NEW r
  PROVE  Without(s, r) \in Seq(S) /\ (s = << >> => Without(s, r) = << >>)
<1> DEFINE g == CHOOSE f : IsKept(f, s, r, Len(s))
<1>1. Len(s) \in Nat /\ \A i \in 1 .. Len(s) : s[i] \in S
  OBVIOUS
<1>2. IsKept(g, s, r, Len(s))
  BY <1>1, KeptExists, Zenon
<1>3. Without(s, r) = g[Len(s)]
  BY WithoutIsKept, Zenon
<1> HIDE DEF g
<1>4. \A i \in 0 .. Len(s) : g[i] = KeptAt(g, s, r, i)
  BY <1>2, Zenon DEF IsKept
<1>5. g[0] = << >> /\ << >> \in Seq(S)
  BY <1>1, <1>4, SMT DEF KeptAt
<1> DEFINE T == {i \in 0 .. Len(s) : g[i] \notin Seq(S)}
<1>6. T = {}
  <2> SUFFICES ASSUME T # {} PROVE FALSE
    OBVIOUS
  <2>1. PICK m \in T : \A k \in T : m <= k
    <3>1. T \subseteq Nat
      BY <1>1
    <3> HIDE DEF T
    <3> QED  BY <3>1, LeastNumber
  <2>2. m \in 0 .. Len(s) /\ g[m] \notin Seq(S)
    BY Zenon
  <2>3. m # 0
    BY <1>5, <2>2, Zenon
  <2>4. m - 1 \in 0 .. Len(s) /\ ~(m <= m - 1) /\ m \in 1 .. Len(s)
    BY <1>1, <2>2, <2>3, SMT
  <2>5. m - 1 \notin T
    BY <2>1, <2>4, Zenon
  <2>6. g[m - 1] \in Seq(S) /\ s[m] \in S
    BY <1>1, <2>4, <2>5, Zenon
  <2>7. g[m] = IF s[m] = r THEN g[m - 1] ELSE Append(g[m - 1], s[m])
    BY <1>4, <2>2, <2>3, Zenon DEF KeptAt
  <2> QED  BY <2>2, <2>6, <2>7, SMT
<1>7. Len(s) \in 0 .. Len(s)
  BY <1>1, SMT
<1>8. g[Len(s)] \in Seq(S)
  BY <1>6, <1>7, Zenon
<1>9. s = << >> => Len(s) = 0
  OBVIOUS
<1> QED  BY <1>3, <1>5, <1>8, <1>9

-----------------------------------------------------------------------------
(* Types, whatever fails.                                                  *)

Says == {"chat", "yes", "no"}

HandlerTypes ==
  /\ says \in [Messages -> Says]
  /\ rid \in [Messages -> Requests \cup {None}]
  /\ token \in [Messages -> Messages \cup {None}]

\* A handler that is to queue, deny, submit or pop a request has one; a reply
\* says yes or no, and has the cancel_token of the entry it was read from.
HasWhatItNeeds ==
  \A m \in Messages :
    /\ pc[m] \in {"queueing", "prompting", "denying", "submit", "pop"} => rid[m] \in Requests
    /\ pc[m] \in {"reply_lock", "submit"} => says[m] \in {"yes", "no"}
    /\ pc[m] = "submit" => token[m] \in Messages

EntryTypes ==
  /\ pending \in Seq(Requests) /\ owner \in Messages \cup {None}
  /\ pending # << >> => owner # None

AgentTypes ==
  /\ cancelled \subseteq Messages /\ used \subseteq Requests
  /\ answer \in [Requests -> {"absent", "unanswered", "yes", "no"}]

StopTypes ==
  /\ gateway \in {"up", "denying", "down"} /\ drained \in Seq(Requests)
  /\ drainOwner \in Messages \cup {None}
  /\ drained # << >> => drainOwner # None

FlagTypes == waiting \in BOOLEAN /\ faulty \in BOOLEAN

RelayTypes ==
  HandlerTypes /\ HasWhatItNeeds /\ EntryTypes /\ AgentTypes /\ StopTypes /\ FlagTypes

LEMMA ReturnTypes ==
  ASSUME LockTypes, HandlerTypes, HasWhatItNeeds, NEW m \in Messages, Return(m)
  PROVE  HandlerTypes' /\ HasWhatItNeeds'
<1>1. HandlerTypes'
  BY DEF HandlerTypes, Return, Says
<1>2. \A n \in Messages \ {m} :
        pc'[n] = pc[n] /\ says'[n] = says[n] /\ rid'[n] = rid[n] /\ token'[n] = token[n]
  BY DEF LockTypes, HandlerTypes, Return, Goto
<1>3. pc'[m] = "done"
  BY DEF LockTypes, Return, Goto
<1> QED  BY <1>1, <1>2, <1>3 DEF HasWhatItNeeds

\* A handler that keeps what it has in hand and needs no more of it.
LEMMA HandFrame ==
  ASSUME LockTypes, HandlerTypes, HasWhatItNeeds, NEW m \in Messages, NEW p, Goto(m, p),
         UNCHANGED <<says, rid, token>>,
         p \in {"queueing", "prompting", "denying", "submit", "pop"} => rid[m] \in Requests,
         p = "reply_lock" => says[m] \in {"yes", "no"},
         p # "submit"
  PROVE  HandlerTypes' /\ HasWhatItNeeds'
<1>1. HandlerTypes'
  BY DEF HandlerTypes
<1>2. \A n \in Messages \ {m} : pc'[n] = pc[n]
  BY DEF LockTypes, Goto
<1>3. pc'[m] = p
  BY DEF LockTypes, Goto
<1> QED  BY <1>1, <1>2, <1>3 DEF HasWhatItNeeds

LEMMA HandSame ==
  ASSUME HandlerTypes, HasWhatItNeeds, UNCHANGED <<pc, says, rid, token>>
  PROVE  HandlerTypes' /\ HasWhatItNeeds'
BY DEF HandlerTypes, HasWhatItNeeds

LEMMA HandStep ==
  ASSUME LockTypes, HandlerTypes, HasWhatItNeeds, EntryTypes, NEW m \in Messages, Steps(m)
  PROVE  HandlerTypes' /\ HasWhatItNeeds'
<1>1. CASE Receive(m)
  <2>1. PICK t \in Says : says' = [says EXCEPT ![m] = t]
    BY <1>1 DEF Receive, Says
  <2>2. Goto(m, "received") /\ UNCHANGED <<rid, token>>
    BY <1>1 DEF Receive, reply
  <2>3. HandlerTypes'
    BY <2>1, <2>2 DEF HandlerTypes
  <2>4. \A n \in Messages \ {m} :
          pc'[n] = pc[n] /\ says'[n] = says[n] /\ rid'[n] = rid[n] /\ token'[n] = token[n]
    BY <2>1, <2>2 DEF LockTypes, HandlerTypes, Goto
  <2>5. pc'[m] = "received"
    BY <2>2 DEF LockTypes, Goto
  <2> QED  BY <2>3, <2>4, <2>5 DEF HasWhatItNeeds
<1>2. CASE NotAnAnswer(m) \/ Prune(m, "turn") \/ Prune(m, "reply")
  BY <1>2, ReturnTypes DEF NotAnAnswer, Prune
<1>3. CASE HandlePending(m)
  <2>1. says[m] \in {"yes", "no"}
    BY <1>3 DEF HandlePending, HandlerTypes, Says
  <2> QED  BY <1>3, <2>1, HandFrame DEF HandlePending, reply
<1>4. CASE HandleChat(m)
  BY <1>4, HandFrame DEF HandleChat, reply
<1>5. CASE RelayStart(m)
  BY <1>5, HandFrame DEF RelayStart, reply
<1>6. CASE ActionRequired(m)
  <2>1. PICK r \in Requests : rid' = [rid EXCEPT ![m] = r]
    BY <1>6 DEF ActionRequired
  <2>2. Goto(m, "queueing") /\ UNCHANGED <<says, token>>
    BY <1>6 DEF ActionRequired
  <2>3. HandlerTypes'
    BY <2>1, <2>2 DEF HandlerTypes
  <2>4. \A n \in Messages \ {m} : pc'[n] = pc[n] /\ rid'[n] = rid[n]
    BY <2>1, <2>2 DEF LockTypes, HandlerTypes, Goto
  <2>5. pc'[m] = "queueing" /\ rid'[m] = r
    BY <2>1, <2>2 DEF LockTypes, HandlerTypes, Goto
  <2> QED  BY <2>2, <2>3, <2>4, <2>5 DEF HasWhatItNeeds
<1>7. CASE Enqueue(m) \/ PromptFails(m)
  <2>1. rid[m] \in Requests
    BY <1>7 DEF Enqueue, PromptFails, HasWhatItNeeds
  <2> QED  BY <1>7, <2>1, HandFrame DEF Enqueue, PromptFails, reply
<1>8. CASE PromptDelivered(m) \/ DenyUndelivered(m) \/ DenyFails(m) \/ ClearPending(m)
  BY <1>8, HandFrame DEF PromptDelivered, DenyUndelivered, DenyFails, ClearPending, reply
<1>9. CASE RunOver(m) \/ Answered(m)
  BY <1>9, HandSame DEF RunOver, Answered, message, reply
<1>10. CASE RelayEnds(m)
  BY <1>10, HandFrame DEF RelayEnds, reply
<1>11. CASE ReplyStart(m)
  <2> DEFINE p == IF pending = << >> THEN "reply_end" ELSE "submit"
             r == IF pending = << >> THEN None ELSE Head(pending)
  <2>1. Goto(m, p) /\ rid' = [rid EXCEPT ![m] = r] /\ token' = [token EXCEPT ![m] = owner] /\ UNCHANGED says
    BY <1>11 DEF ReplyStart
  <2>2. r \in Requests \cup {None} /\ (p = "submit" => r \in Requests /\ owner \in Messages)
    BY DEF EntryTypes
  <2>3. p \in {"reply_end", "submit"}
    OBVIOUS
  <2>4. says[m] \in {"yes", "no"}
    BY <1>11 DEF ReplyStart, HasWhatItNeeds
  <2> HIDE DEF p, r
  <2>5. HandlerTypes'
    BY <2>1, <2>2 DEF HandlerTypes, EntryTypes
  <2>6. \A n \in Messages \ {m} :
          pc'[n] = pc[n] /\ says'[n] = says[n] /\ rid'[n] = rid[n] /\ token'[n] = token[n]
    BY <2>1 DEF LockTypes, HandlerTypes, Goto
  <2>7. pc'[m] = p /\ rid'[m] = r /\ token'[m] = owner /\ says'[m] = says[m]
    BY <2>1 DEF LockTypes, HandlerTypes, Goto
  <2> QED  BY <2>2, <2>3, <2>4, <2>5, <2>6, <2>7 DEF HasWhatItNeeds
<1>12. CASE Submit(m)
  <2>1. rid[m] \in Requests
    BY <1>12 DEF Submit, HasWhatItNeeds
  <2> QED  BY <1>12, <2>1, HandFrame DEF Submit, reply
<1>13. CASE SubmitFails(m) \/ Discard(m) \/ Pop(m) \/ ReplyEnds(m)
  BY <1>13, HandFrame DEF SubmitFails, Discard, Pop, ReplyEnds, reply
<1> QED  BY <1>1, <1>2, <1>3, <1>4, <1>5, <1>6, <1>7, <1>8, <1>9, <1>10, <1>11, <1>12, <1>13
         DEF Steps, Handle, Relay, Reply

\* What is set in place of the queue was part of it, so it has an owner.
LEMMA SetPendingTypes ==
  ASSUME EntryTypes, NEW s \in Seq(Requests), SetPending(s), pending = << >> => s = << >>
  PROVE  EntryTypes'
BY DEF EntryTypes, SetPending

LEMMA EntryStep ==
  ASSUME HasWhatItNeeds, EntryTypes, NEW m \in Messages, Steps(m)
  PROVE  EntryTypes'
<1>1. None \notin Messages
  BY RelayAssumption
<1>2. CASE Enqueue(m)
  <2>1. rid[m] \in Requests /\ pending' = Append(pending, rid[m])
    BY <1>2 DEF Enqueue, HasWhatItNeeds
  <2>2. owner' = IF pending = << >> THEN m ELSE owner
    BY <1>2 DEF Enqueue
  <2> QED  BY <1>1, <2>1, <2>2 DEF EntryTypes
<1>3. CASE PromptFails(m)
  <2>1. SetPending(Without(pending, rid[m]))
    BY <1>3 DEF PromptFails
  <2>2. Without(pending, rid[m]) \in Seq(Requests) /\ (pending = << >> => Without(pending, rid[m]) = << >>)
    BY WithoutType DEF EntryTypes
  <2> QED  BY <2>1, <2>2, SetPendingTypes
<1>4. CASE ClearPending(m) \/ Discard(m)
  <2>1. SetPending(<< >>) /\ << >> \in Seq(Requests)
    BY <1>4 DEF ClearPending, Discard
  <2> QED  BY <2>1, SetPendingTypes
<1>5. CASE Pop(m)
  <2> DEFINE s == IF pending # << >> /\ Head(pending) = rid[m] THEN Tail(pending) ELSE pending
  <2>1. SetPending(s)
    BY <1>5 DEF Pop
  <2>2. s \in Seq(Requests) /\ (pending = << >> => s = << >>)
    BY DEF EntryTypes
  <2> HIDE DEF s
  <2> QED  BY <2>1, <2>2, SetPendingTypes
<1>6. CASE UNCHANGED <<pending, owner>>
  BY <1>6 DEF EntryTypes
<1>7. \/ Enqueue(m) \/ PromptFails(m) \/ ClearPending(m) \/ Discard(m) \/ Pop(m)
      \/ UNCHANGED <<pending, owner>>
  BY DEF Steps, Handle, Relay, Reply, Receive, NotAnAnswer, HandlePending, HandleChat, RelayStart,
         ActionRequired, PromptDelivered, DenyUndelivered, DenyFails, RunOver, Answered, RelayEnds,
         Prune, ReplyStart, Submit, SubmitFails, ReplyEnds, queue
<1> QED  BY <1>2, <1>3, <1>4, <1>5, <1>6, <1>7

LEMMA AgentStep ==
  ASSUME HasWhatItNeeds, AgentTypes, NEW m \in Messages, Steps(m)
  PROVE  AgentTypes'
<1>1. CASE ActionRequired(m)
  BY <1>1 DEF ActionRequired, AgentTypes
<1>2. CASE DenyUndelivered(m)
  BY <1>2 DEF DenyUndelivered, Submitted, AgentTypes
<1>3. CASE Submit(m)
  <2>1. says[m] \in {"yes", "no"} /\ answer' = [answer EXCEPT ![rid[m]] = says[m]]
    BY <1>3 DEF Submit, Submitted, HasWhatItNeeds
  <2> QED  BY <1>3, <2>1 DEF Submit, AgentTypes
<1>4. CASE DenyFails(m)
  BY <1>4 DEF DenyFails, Refused, AgentTypes
<1>5. CASE SubmitFails(m)
  <2>1. token[m] \in Messages
    BY <1>5 DEF SubmitFails, HasWhatItNeeds
  <2> QED  BY <1>5, <2>1 DEF SubmitFails, Refused, AgentTypes
<1>6. CASE Answered(m) \/ RelayEnds(m)
  BY <1>6 DEF Answered, RelayEnds, AgentTypes
<1>7. CASE UNCHANGED <<cancelled, used, answer>>
  BY <1>7 DEF AgentTypes
<1>8. \/ ActionRequired(m) \/ DenyUndelivered(m) \/ Submit(m) \/ DenyFails(m) \/ SubmitFails(m)
      \/ Answered(m) \/ RelayEnds(m) \/ UNCHANGED <<cancelled, used, answer>>
  BY DEF Steps, Handle, Relay, Reply, Receive, NotAnAnswer, HandlePending, HandleChat, RelayStart,
         Enqueue, PromptDelivered, PromptFails, ClearPending, RunOver,
         Prune, ReplyStart, Discard, Pop, ReplyEnds, agent
<1> QED  BY <1>1, <1>2, <1>3, <1>4, <1>5, <1>6, <1>7, <1>8

LEMMA FlagStep ==
  ASSUME FlagTypes, NEW m \in Messages, Steps(m)
  PROVE  FlagTypes' /\ UNCHANGED stopping
<1>1. UNCHANGED stopping
  BY DEF Steps, Handle, Relay, Reply, Receive, NotAnAnswer, HandlePending, HandleChat, RelayStart,
         ActionRequired, Enqueue, PromptDelivered, PromptFails, DenyUndelivered, DenyFails,
         ClearPending, RunOver, Answered, RelayEnds, Prune, ReplyStart, Submit, SubmitFails,
         Discard, Pop, ReplyEnds, outside
<1>2. \/ waiting' = waiting \/ waiting' = TRUE \/ waiting' = FALSE
  BY Zenon DEF Steps, Handle, Relay, Reply, Receive, NotAnAnswer, HandlePending, HandleChat, RelayStart,
         ActionRequired, Enqueue, PromptDelivered, PromptFails, DenyUndelivered, DenyFails,
         ClearPending, RunOver, Answered, RelayEnds, Prune, ReplyStart, Submit, SubmitFails,
         Discard, Pop, ReplyEnds, agent
<1>3. \/ faulty' = faulty \/ faulty' = TRUE
      \/ faulty' = (faulty \/ \E r \in Requests : answer[r] # "absent" /\ m \notin cancelled)
  BY Zenon DEF Steps, Handle, Relay, Reply, Receive, NotAnAnswer, HandlePending, HandleChat, RelayStart,
         ActionRequired, Enqueue, PromptDelivered, PromptFails, DenyUndelivered, DenyFails,
         ClearPending, RunOver, Answered, RelayEnds, Prune, ReplyStart, Submit, SubmitFails,
         Discard, Pop, ReplyEnds, Refused, outside
<1>4. faulty' \in BOOLEAN
  BY <1>3, Zenon DEF FlagTypes
<1>5. waiting' \in BOOLEAN
  BY <1>2, Zenon DEF FlagTypes
<1> QED  BY <1>1, <1>4, <1>5 DEF FlagTypes

\* stop_gateway drains the entry together with its cancel_token.
LEMMA StopStep ==
  ASSUME HandlerTypes, HasWhatItNeeds, EntryTypes, AgentTypes, StopTypes, FlagTypes,
         Stop \/ DenyDrained \/ Stopped
  PROVE  RelayTypes'
<1>1. UNCHANGED <<pc, says, rid, token, waiting, used>>
  BY DEF Stop, DenyDrained, Stopped, message, reply, agent
<1>2. HandlerTypes' /\ HasWhatItNeeds'
  BY <1>1, HandSame
<1>3. EntryTypes'
  <2>1. SetPending(<< >>) \/ UNCHANGED <<pending, owner>>
    BY DEF Stop, DenyDrained, Stopped, queue
  <2>2. << >> \in Seq(Requests)
    OBVIOUS
  <2>3. UNCHANGED <<pending, owner>> => EntryTypes'
    BY DEF EntryTypes
  <2> QED  BY <2>1, <2>2, <2>3, SetPendingTypes
<1>4. CASE Stop
  <2>1. AgentTypes' /\ StopTypes'
    BY <1>4 DEF Stop, AgentTypes, StopTypes, EntryTypes, agent
  <2>2. faulty' = faulty
    BY <1>4 DEF Stop
  <2>3. FlagTypes'
    BY <1>1, <2>2, Zenon DEF FlagTypes
  <2> QED  BY <1>2, <1>3, <2>1, <2>3 DEF RelayTypes
<1>5. CASE DenyDrained
  <2>1. drainOwner \in Messages /\ drained # << >> /\ Head(drained) \in Requests /\ Tail(drained) \in Seq(Requests)
    BY <1>5 DEF DenyDrained, StopTypes
  <2>2. StopTypes'
    BY <1>5, <2>1 DEF DenyDrained, StopTypes
  <2>3. AgentTypes'
    <3>1. CASE Submitted(Head(drained), "no") /\ UNCHANGED <<cancelled, faulty>>
      BY <1>1, <3>1 DEF Submitted, AgentTypes
    <3>2. CASE Refused(Head(drained), "no") /\ cancelled' = cancelled \cup {drainOwner}
      BY <1>1, <2>1, <3>2 DEF Refused, AgentTypes
    <3> QED  BY <1>5, <3>1, <3>2 DEF DenyDrained
  <2>4. faulty' = faulty \/ faulty' = TRUE
    BY <1>5, Zenon DEF DenyDrained, Refused
  <2>5. FlagTypes'
    BY <1>1, <2>4, Zenon DEF FlagTypes
  <2> QED  BY <1>2, <1>3, <2>2, <2>3, <2>5 DEF RelayTypes
<1>6. CASE Stopped
  <2>1. AgentTypes' /\ FlagTypes'
    BY <1>6 DEF Stopped, AgentTypes, FlagTypes, agent
  <2>2. StopTypes'
    BY <1>6 DEF Stopped, StopTypes
  <2> QED  BY <1>2, <1>3, <2>1, <2>2 DEF RelayTypes
<1> QED  BY <1>4, <1>5, <1>6

LEMMA TypesKept ==
  ASSUME LockTypes, RelayTypes, [Next]_vars
  PROVE  RelayTypes'
<1>1. CASE UNCHANGED vars
  <2>1. UNCHANGED <<pc, says, rid, token, pending, owner, cancelled, used, answer, gateway, drained,
                    drainOwner, waiting, faulty>>
    BY <1>1 DEF vars, message, queue, reply, agent, outside, stopping
  <2>2. HandlerTypes' /\ HasWhatItNeeds'
    BY <2>1, HandSame DEF RelayTypes
  <2>3. EntryTypes' /\ AgentTypes' /\ StopTypes' /\ FlagTypes'
    BY <2>1 DEF RelayTypes, EntryTypes, AgentTypes, StopTypes, FlagTypes
  <2> QED  BY <2>2, <2>3 DEF RelayTypes
<1>2. ASSUME NEW m \in Messages, Steps(m) PROVE RelayTypes'
  <2>1. HandlerTypes' /\ HasWhatItNeeds'
    BY <1>2, HandStep DEF RelayTypes
  <2>2. EntryTypes' /\ AgentTypes'
    BY <1>2, EntryStep, AgentStep DEF RelayTypes
  <2>3. FlagTypes' /\ UNCHANGED stopping
    BY <1>2, FlagStep DEF RelayTypes
  <2>4. StopTypes'
    BY <2>3 DEF RelayTypes, StopTypes, stopping
  <2> QED  BY <2>1, <2>2, <2>3, <2>4 DEF RelayTypes
<1>3. CASE Stop \/ DenyDrained \/ Stopped
  BY <1>3, StopStep DEF RelayTypes
<1> QED  BY <1>1, <1>2, <1>3 DEF Next, Steps

LEMMA InitTypes == Init => RelayTypes
<1> SUFFICES ASSUME Init PROVE RelayTypes
  OBVIOUS
<1>1. HandlerTypes /\ HasWhatItNeeds
  BY DEF Init, HandlerTypes, HasWhatItNeeds, Says
<1>2. EntryTypes /\ AgentTypes /\ StopTypes
  BY DEF Init, EntryTypes, AgentTypes, StopTypes
<1>3. FlagTypes
  BY Zenon DEF Init, FlagTypes
<1> QED  BY <1>1, <1>2, <1>3 DEF RelayTypes

-----------------------------------------------------------------------------
(* Results.                                                                *)

\* per_user_lock makes a lock on demand and prune_per_user_lock drops it, yet
\* one user never has two turns, or two replies, at once.
THEOREM RelaySerialized == Spec => []Serialized
<1>1. IInv => Serialized
  BY OneHolder DEF IInv
<1> QED  BY <1>1, Invariance, PTL

\* While the gateway is up and nothing has failed, the user can still answer
\* every request that handle_message's turn waits for.
THEOREM RelayReachable == Spec => []RequestReachable
<1>1. IInv => RequestReachable
  <2> SUFFICES ASSUME IInv, Good, NEW r \in Requests, answer[r] = "unanswered" PROVE
        \/ \E i \in DOMAIN pending : pending[i] = r
        \/ \E m \in Messages : rid[m] = r /\ pc[m] \in {"queueing", "denying", "submit"}
    BY DEF RequestReachable, Good
  <2>1. QueueFacts
    BY DEF IInv, QueueInv
  <2>2. DOMAIN pending = 1 .. Len(pending)
    BY <2>1 DEF QueueFacts, QueueTypes
  <2> QED  BY <2>1, <2>2 DEF QueueFacts, OpenIsQueued
<1> QED  BY <1>1, Invariance, PTL

\* While the gateway is up and nothing has failed, no request is left in
\* pending_confirmations that the agent has forgotten, so no reply is spent on it.
THEOREM RelayQueueIsCurrent == Spec => []QueueIsCurrent
<1>1. IInv => QueueIsCurrent
  <2> SUFFICES ASSUME IInv, Good, NEW i \in DOMAIN pending PROVE
        \/ answer[pending[i]] # "absent"
        \/ \E m \in Messages : pc[m] = "pop" /\ rid[m] = pending[i]
    BY DEF QueueIsCurrent, Good
  <2>1. QueueFacts
    BY DEF IInv, QueueInv
  <2>2. i \in 1 .. Len(pending)
    BY <2>1 DEF QueueFacts, QueueTypes
  <2> QED  BY <2>1, <2>2 DEF QueueFacts, QueuedIsOpen
<1> QED  BY <1>1, Invariance, PTL

\* Every variable of the relay keeps its type whatever fails, and an entry of
\* pending_confirmations has the agent and cancel_token of a turn for as long as
\* it has a request: taking a request back, clearing the queue and popping it
\* leave the one when they leave the other.
THEOREM RelayTypesHold == Spec => []TypeOK
<1>1. IInv /\ RelayTypes /\ [Next]_vars => RelayTypes'
  BY TypesKept DEF IInv, LockInv
<1>2. IInv /\ RelayTypes => TypeOK
  BY DEF IInv, LockInv, LockTypes, Places, Kinds, RelayTypes, HandlerTypes, Says, EntryTypes, AgentTypes,
         StopTypes, FlagTypes, TypeOK
<1> QED  BY <1>1, <1>2, InitTypes, Invariance, PTL DEF Spec

=============================================================================
