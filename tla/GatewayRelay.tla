---------------------------- MODULE GatewayRelay ----------------------------
(***************************************************************************)
(* The chat gateway's handler (crates/aibuddy/src/gateway/handler.rs), for  *)
(* one paired user. The platform's poll loop spawns handle_message for each *)
(* message. A message that arrives while a tool approval is pending is a    *)
(* reply to it; any other starts a turn of the user's session and is        *)
(* relayed under the user's turn lock. Approvals a turn asks for are queued *)
(* per user. The agent is what the handler sees of it: the requests it has  *)
(* registered and not forgotten, and whether the turn waits for answers.    *)
(***************************************************************************)
EXTENDS Naturals, Sequences, FiniteSets

CONSTANTS Messages,   \* messages the user may send
          Requests,     \* tool calls that need approval
          Faults,       \* subset of {"send", "store"}: what may fail
          None

ASSUME RelayAssumption ==
  /\ None \notin Messages \cup Requests \cup {"turn", "reply"}
  /\ Faults \subseteq {"send", "store"}

VARIABLES
  pc,         \* where each message's handle_message is
  says,       \* what the message says: "chat", "yes" or "no"
  slot,       \* turn_locks and confirmation_reply_locks: the Arc in the map
  arc,        \* the Arc a message holds a clone of, named after its creator
  holder,     \* who holds the mutex in each Arc
  pending,    \* pending_confirmations of the user: request_ids, empty if absent
  owner,      \* the turn whose agent and cancel_token the entry has
  rid, token, \* the request and the cancel_token a reply works with
  cancelled,  \* turns whose cancel_token is cancelled
  answer,     \* the agent's registered requests and their answers
  waiting,    \* the agent's run is over and it waits for all answers
  used,       \* requests asked for so far
  gateway,    \* "up", "denying" while stop_gateway drains, "down"
  drained,    \* what deny_pending_confirmations still has to deny
  drainOwner, \* and the turn whose cancel_token it has
  faulty      \* a send or a store has failed (history)

message == <<pc, says>>
locks == <<slot, arc, holder>>
queue == <<pending, owner>>
reply == <<rid, token>>
agent == <<cancelled, answer, waiting, used>>
stopping == <<gateway, drained, drainOwner>>
outside == <<stopping, faulty>>
vars == <<message, locks, queue, reply, agent, outside>>

Init ==
  /\ pc = [m \in Messages |-> "idle"]
  /\ says = [m \in Messages |-> "chat"]
  /\ slot = [k \in {"turn", "reply"} |-> None]
  /\ arc = [m \in Messages |-> None]
  /\ holder = [a \in Messages |-> None]
  /\ pending = << >> /\ owner = None
  /\ rid = [m \in Messages |-> None]
  /\ token = [m \in Messages |-> None]
  /\ cancelled = {} /\ waiting = FALSE /\ used = {}
  /\ answer = [r \in Requests |-> "absent"]
  /\ gateway = "up" /\ drained = << >> /\ drainOwner = None /\ faulty = FALSE

Goto(m, p) == pc' = [pc EXCEPT ![m] = p]

\* retain: what is left of a queue without a request.
Without(s, r) ==
  LET kept[i \in 0 .. Len(s)] ==
        IF i = 0 THEN << >> ELSE IF s[i] = r THEN kept[i - 1] ELSE Append(kept[i - 1], s[i])
  IN  kept[Len(s)]

\* The handler returns, and its locals are dropped.
Return(m) ==
  /\ Goto(m, "done")
  /\ says' = [says EXCEPT ![m] = "chat"]
  /\ rid' = [rid EXCEPT ![m] = None] /\ token' = [token EXCEPT ![m] = None]

\* The user's entry; it leaves the map with its last request.
SetPending(s) == pending' = s /\ owner' = IF s = << >> THEN None ELSE owner

-----------------------------------------------------------------------------
(* Per-user locks *)

\* per_user_lock: a clone of the Arc in the map, made if there is none.
TakeArc(m, k) ==
  LET a == IF slot[k] = None THEN m ELSE slot[k]
  IN  /\ slot' = [slot EXCEPT ![k] = a]
      /\ arc' = [arc EXCEPT ![m] = a]

Locked(m) == holder[arc[m]] = None /\ holder' = [holder EXCEPT ![arc[m]] = m]

\* The guard is dropped, then the clone.
Unlock(m) ==
  /\ holder' = [holder EXCEPT ![arc[m]] = None]
  /\ arc' = [arc EXCEPT ![m] = None]
  /\ UNCHANGED slot

\* Mutant: the Arc is removed whoever waits for it.
PruneAlways(k) == slot' = [slot EXCEPT ![k] = None]

\* prune_per_user_lock: the Arc goes when only the map has it.
PruneLock(k) ==
  slot' = [slot EXCEPT ![k] = IF \E n \in Messages : arc[n] = slot[k] THEN @ ELSE None]

Prune(m, k) ==
  /\ pc[m] = IF k = "turn" THEN "turn_prune" ELSE "reply_prune"
  /\ PruneLock(k)
  /\ Return(m)
  /\ UNCHANGED <<arc, holder, queue, agent, outside>>

-----------------------------------------------------------------------------
(* handle_message *)

\* The poll loop spawns a handler.
Receive(m) ==
  \E t \in {"chat", "yes", "no"} :
    /\ pc[m] = "idle" /\ gateway # "down"
    /\ says' = [says EXCEPT ![m] = t]
    /\ Goto(m, "received")
    /\ UNCHANGED <<locks, queue, reply, agent, outside>>

\* Text that is no answer is turned away while an approval is pending.
NotAnAnswer(m) ==
  /\ pc[m] = "received" /\ pending # << >> /\ says[m] = "chat"
  /\ Return(m)
  /\ UNCHANGED <<locks, queue, agent, outside>>

HandlePending(m) ==
  /\ pc[m] = "received" /\ pending # << >> /\ says[m] # "chat"
  /\ TakeArc(m, "reply")
  /\ Goto(m, "reply_lock")
  /\ UNCHANGED <<says, holder, queue, reply, agent, outside>>

HandleChat(m) ==
  /\ pc[m] = "received" /\ pending = << >>
  /\ TakeArc(m, "turn")
  /\ Goto(m, "turn_lock")
  /\ UNCHANGED <<says, holder, queue, reply, agent, outside>>

-----------------------------------------------------------------------------
(* Agent::submit_tool_confirmation, as its callers see it *)

\* Accepted: a registered request without an answer, or with the same one.
Accepts(r, a) == answer[r] \in {"unanswered", a}

Submitted(r, a) == Accepts(r, a) /\ answer' = [answer EXCEPT ![r] = a]

\* Refused, or the decision could not be stored.
Refused(r, a) ==
  /\ \/ ~Accepts(r, a) /\ UNCHANGED faulty
     \/ Accepts(r, a) /\ "store" \in Faults /\ faulty' = TRUE
  /\ UNCHANGED answer

-----------------------------------------------------------------------------
(* A turn: relay_to_session over the agent's event stream *)

RelayStart(m) ==
  /\ pc[m] = "turn_lock" /\ Locked(m)
  /\ Goto(m, "relay")
  /\ waiting' = FALSE
  /\ UNCHANGED <<says, slot, arc, queue, reply, cancelled, answer, used, outside>>

\* The stream yields a confirmation: the agent has registered the request.
ActionRequired(m) ==
  \E r \in Requests \ used :
    /\ pc[m] = "relay" /\ ~waiting /\ m \notin cancelled
    /\ answer' = [answer EXCEPT ![r] = "unanswered"]
    /\ used' = used \cup {r}
    /\ rid' = [rid EXCEPT ![m] = r]
    /\ Goto(m, "queueing")
    /\ UNCHANGED <<says, locks, queue, token, cancelled, waiting, outside>>

\* Mutant: the entry is replaced by one for the new request.
EnqueueReplaces(m) ==
  /\ pc[m] = "queueing"
  /\ pending' = <<rid[m]>>
  /\ owner' = m
  /\ Goto(m, "prompting")
  /\ UNCHANGED <<says, locks, reply, agent, outside>>

\* Mutant: the entry is made without its turn.
EnqueueUnowned(m) ==
  /\ pc[m] = "queueing"
  /\ pending' = Append(pending, rid[m])
  /\ Goto(m, "prompting")
  /\ UNCHANGED <<says, locks, owner, reply, agent, outside>>

\* It is queued behind what the user has pending; an entry that exists keeps its
\* agent and cancel_token.
Enqueue(m) ==
  /\ pc[m] = "queueing"
  /\ pending' = Append(pending, rid[m])
  /\ owner' = IF pending = << >> THEN m ELSE owner
  /\ Goto(m, "prompting")
  /\ UNCHANGED <<says, locks, reply, agent, outside>>

PromptDelivered(m) ==
  /\ pc[m] = "prompting"
  /\ Goto(m, "relay")
  /\ UNCHANGED <<says, locks, queue, reply, agent, outside>>

\* The prompt cannot be delivered: the request is taken back ...
PromptFails(m) ==
  /\ pc[m] = "prompting" /\ "send" \in Faults
  /\ SetPending(Without(pending, rid[m]))
  /\ faulty' = TRUE
  /\ Goto(m, "denying")
  /\ UNCHANGED <<says, locks, reply, agent, stopping>>

\* ... and denied.
DenyUndelivered(m) ==
  /\ pc[m] = "denying"
  /\ Submitted(rid[m], "no")
  /\ Goto(m, "relay")
  /\ UNCHANGED <<says, locks, queue, reply, cancelled, waiting, used, outside>>

\* A failure to deny cancels the turn and forgets the user's pending approvals.
DenyFails(m) ==
  /\ pc[m] = "denying"
  /\ Refused(rid[m], "no")
  /\ cancelled' = cancelled \cup {m}
  /\ Goto(m, "clearing")
  /\ UNCHANGED <<says, locks, queue, reply, waiting, used, stopping>>

ClearPending(m) ==
  /\ pc[m] = "clearing"
  /\ SetPending(<< >>)
  /\ Goto(m, "relay")
  /\ UNCHANGED <<says, locks, reply, agent, outside>>

\* The agent's run is over: it waits if it has asked for anything.
RunOver(m) ==
  /\ pc[m] = "relay" /\ ~waiting
  /\ \E r \in Requests : answer[r] # "absent"
  /\ waiting' = TRUE
  /\ UNCHANGED <<message, locks, queue, reply, cancelled, answer, used, outside>>

\* All answered: the agent forgets the requests and runs on.
Answered(m) ==
  /\ pc[m] = "relay" /\ waiting
  /\ \A r \in Requests : answer[r] # "unanswered"
  /\ waiting' = FALSE
  /\ answer' = [r \in Requests |-> "absent"]
  /\ UNCHANGED <<message, locks, queue, reply, cancelled, used, outside>>

\* The stream is over, with the agent's answer or with an error: a cancelled
\* wait, or a request that could not be persisted. Either way the turn's
\* requests are forgotten by the agent and the lock is released.
RelayEnds(m) ==
  /\ pc[m] = "relay"
  /\ \/ ~waiting /\ \A r \in Requests : answer[r] = "absent"
     \/ waiting /\ m \in cancelled
     \/ ~waiting /\ "store" \in Faults
  /\ faulty' = (faulty \/ \E r \in Requests : answer[r] # "absent" /\ m \notin cancelled)
  /\ answer' = [r \in Requests |-> "absent"]
  /\ waiting' = FALSE
  /\ Unlock(m)
  /\ Goto(m, "turn_prune")
  /\ UNCHANGED <<says, queue, reply, cancelled, used, stopping>>

-----------------------------------------------------------------------------
(* A reply: submit_pending_confirmation under the user's reply lock *)

\* The reply answers the front of the queue.
ReplyStart(m) ==
  /\ pc[m] = "reply_lock" /\ Locked(m)
  /\ rid' = [rid EXCEPT ![m] = IF pending = << >> THEN None ELSE Head(pending)]
  /\ token' = [token EXCEPT ![m] = owner]
  /\ Goto(m, IF pending = << >> THEN "reply_end" ELSE "submit")
  /\ UNCHANGED <<says, slot, arc, queue, agent, outside>>

Submit(m) ==
  /\ pc[m] = "submit"
  /\ Submitted(rid[m], says[m])
  /\ Goto(m, "pop")
  /\ UNCHANGED <<says, locks, queue, reply, cancelled, waiting, used, outside>>

\* A refused answer cancels the turn of the entry it was read from ...
SubmitFails(m) ==
  /\ pc[m] = "submit"
  /\ Refused(rid[m], says[m])
  /\ cancelled' = cancelled \cup {token[m]}
  /\ Goto(m, "discard")
  /\ UNCHANGED <<says, locks, queue, reply, waiting, used, stopping>>

\* ... and removes the entry.
Discard(m) ==
  /\ pc[m] = "discard"
  /\ SetPending(<< >>)
  /\ Goto(m, "reply_end")
  /\ UNCHANGED <<says, locks, reply, agent, outside>>

\* Mutant: the answered request stays while others are queued behind it.
PopLast(m) ==
  /\ pc[m] = "pop"
  /\ SetPending(IF pending = <<rid[m]>> THEN << >> ELSE pending)
  /\ Goto(m, "reply_end")
  /\ UNCHANGED <<says, locks, reply, agent, outside>>

\* The answered request leaves the queue if it is still in front.
Pop(m) ==
  /\ pc[m] = "pop"
  /\ SetPending(IF pending # << >> /\ Head(pending) = rid[m] THEN Tail(pending) ELSE pending)
  /\ Goto(m, "reply_end")
  /\ UNCHANGED <<says, locks, reply, agent, outside>>

ReplyEnds(m) ==
  /\ pc[m] = "reply_end"
  /\ Unlock(m)
  /\ Goto(m, "reply_prune")
  /\ UNCHANGED <<says, queue, reply, agent, outside>>

-----------------------------------------------------------------------------
(* GatewayManager::stop_gateway *)

\* deny_pending_confirmations drains the entries, then denies them one by one;
\* a refusal cancels the entry's turn.
Stop ==
  /\ gateway = "up"
  /\ gateway' = "denying" /\ drained' = pending /\ drainOwner' = owner
  /\ SetPending(<< >>)
  /\ UNCHANGED <<message, locks, reply, agent, faulty>>

DenyDrained ==
  /\ gateway = "denying" /\ drained # << >>
  /\ drained' = Tail(drained)
  /\ \/ Submitted(Head(drained), "no") /\ UNCHANGED <<cancelled, faulty>>
     \/ Refused(Head(drained), "no") /\ cancelled' = cancelled \cup {drainOwner}
  /\ UNCHANGED <<message, locks, queue, reply, waiting, used, gateway,
                 drainOwner>>

\* The poll loop is cancelled and joined.
Stopped ==
  /\ gateway = "denying" /\ drained = << >>
  /\ gateway' = "down"
  /\ drainOwner' = None
  /\ UNCHANGED <<message, locks, queue, reply, agent, drained, faulty>>

-----------------------------------------------------------------------------
Relay(m) ==
  \/ RelayStart(m) \/ ActionRequired(m) \/ Enqueue(m) \/ PromptDelivered(m) \/ PromptFails(m)
  \/ DenyUndelivered(m) \/ DenyFails(m) \/ ClearPending(m) \/ RunOver(m) \/ Answered(m)
  \/ RelayEnds(m) \/ Prune(m, "turn")

Reply(m) ==
  \/ ReplyStart(m) \/ Submit(m) \/ SubmitFails(m) \/ Discard(m) \/ Pop(m) \/ ReplyEnds(m)
  \/ Prune(m, "reply")

Handle(m) == NotAnAnswer(m) \/ HandlePending(m) \/ HandleChat(m) \/ Relay(m) \/ Reply(m)

Next ==
  \/ \E m \in Messages : Receive(m) \/ Handle(m)
  \/ Stop \/ DenyDrained \/ Stopped

Spec == Init /\ [][Next]_vars

-----------------------------------------------------------------------------
(* Properties *)

InTurn(m) == pc[m] \in {"relay", "queueing", "prompting", "denying", "clearing"}

Replying(m) == pc[m] \in {"submit", "pop", "discard", "reply_end"}

\* Types of the handlers, the locks, the queue and the agent's requests.
TypeOK ==
  /\ pc \in [Messages -> {"idle", "received", "turn_lock", "relay", "queueing", "prompting",
                          "denying", "clearing", "turn_prune", "reply_lock", "submit", "pop",
                          "discard", "reply_end", "reply_prune", "done"}]
  /\ says \in [Messages -> {"chat", "yes", "no"}]
  /\ slot \in [{"turn", "reply"} -> Messages \cup {None}]
  /\ arc \in [Messages -> Messages \cup {None}] /\ holder \in [Messages -> Messages \cup {None}]
  /\ pending \in Seq(Requests) /\ owner \in Messages \cup {None}
  /\ rid \in [Messages -> Requests \cup {None}] /\ token \in [Messages -> Messages \cup {None}]
  /\ cancelled \subseteq Messages /\ waiting \in BOOLEAN
  /\ used \subseteq Requests
  /\ answer \in [Requests -> {"absent", "unanswered", "yes", "no"}]
  /\ gateway \in {"up", "denying", "down"} /\ drained \in Seq(Requests)
  /\ drainOwner \in Messages \cup {None} /\ faulty \in BOOLEAN
  /\ pending # << >> => owner # None

\* One turn and one reply at a time, though locks are made and pruned on demand.
Serialized ==
  \A m, n \in Messages :
    (InTurn(m) /\ InTurn(n)) \/ (Replying(m) /\ Replying(n)) => m = n

\* While the gateway is up and nothing has failed, a request the agent waits for
\* can still be answered: it is queued for the user, or on its way into the queue
\* or out of it, or its turn is cancelled.
RequestReachable ==
  \A r \in Requests : gateway = "up" /\ ~faulty /\ answer[r] = "unanswered" =>
    \/ \E i \in DOMAIN pending : pending[i] = r
    \/ \E m \in Messages : rid[m] = r /\ pc[m] \in {"queueing", "denying", "submit"}
    \/ \E m \in cancelled : InTurn(m)

\* While the gateway is up and nothing has failed, a queued request is one the
\* agent still waits for, or the reply to it is just being taken off the queue.
QueueIsCurrent ==
  gateway = "up" /\ ~faulty =>
    \A i \in DOMAIN pending :
      \/ answer[pending[i]] # "absent"
      \/ \E m \in Messages : pc[m] = "pop" /\ rid[m] = pending[i]

=============================================================================
