---------------------------- MODULE Elicitation ----------------------------
(***************************************************************************)
(* Elicitation: an MCP server, in the middle of a tool call, asks the user *)
(* for input.  mcp_client.rs works out which tool call the question        *)
(* belongs to, ActionRequiredManager puts it on that call's stream and     *)
(* waits for the answer with a deadline, and the handler of an answer      *)
(* (agent.rs reply_impl, acp/server/elicitation.rs) claims the request,    *)
(* records the answer in the conversation and only then hands it over.     *)
(*                                                                         *)
(* A Dispatch is one run of ExtensionManager::dispatch_tool_call, a        *)
(* Request one elicitation, an Answerer one handler of one response; the   *)
(* answer itself is named by its Answerer.  All belong to one session,     *)
(* except that an Answerer may act for a foreign one.                      *)
(*                                                                         *)
(* Dispatches may share a call id: one made by a script that runs in       *)
(* another (code_execution), and a second one of the same request, made    *)
(* when an interrupted turn is resumed.                                    *)
(***************************************************************************)
EXTENDS Naturals, Sequences, FiniteSets

CONSTANTS
  Dispatches,   \* tool call dispatches
  CallIds,      \* tool call request ids
  Requests,     \* elicitations
  Answerers,    \* handlers of a response
  None,
  CallOf,       \* the tool call request id a dispatch carries
  Outer,        \* the dispatch that encloses a nested one (code_execution), or None
  Home,         \* the dispatch in which the server issues an elicitation
  Echo,         \* elicitations whose server echoes the tool call request id
  Capacity,     \* ACTION_REQUIRED_STREAM_CAPACITY
  Drops,        \* whether the futures of waiters and handlers may be dropped
  MaxStarted    \* bound: dispatches made and elicitations issued

ASSUME ElicitationAssumption ==
  /\ None \notin Dispatches \cup CallIds \cup Requests \cup Answerers
  /\ "failed" \notin Answerers
  /\ CallOf \in [Dispatches -> CallIds]
  /\ Outer \in [Dispatches -> Dispatches \cup {None}]
  /\ \A d \in Dispatches : Outer[d] # None =>
        Outer[Outer[d]] = None /\ CallOf[Outer[d]] = CallOf[d]
  /\ Home \in [Requests -> Dispatches]
  /\ Echo \subseteq Requests
  /\ Capacity \in Nat
  /\ Drops \in BOOLEAN
  /\ MaxStarted \in Nat

VARIABLES
  \* tool calls
  dpc,        \* where each dispatch is
  stream,     \* its ActionRequiredStream: "none", "open" or "dropped"
  unreg,      \* dropped streams whose spawned unregister task has not run
  senders,    \* action_required_senders
  queue,      \* messages waiting in each stream
  active,     \* active_tool_calls of the session: dispatches, oldest first
  working,    \* dispatches the server is still executing
  \* elicitations
  wpc,        \* where each request_and_wait is
  call,       \* the tool call request id it resolved to, until it is over
  via,        \* the stream whose sender it cloned, until it is over
  pending,    \* keys of the pending map
  tx,         \* response_tx is Some
  chan,       \* what was sent on the oneshot channel
  outcome,    \* what request_and_wait returns: an answer or "failed"
  \* answers
  apc,        \* where each handler is
  areq,       \* the request it answers
  mine,       \* it acts for the session of the request, until it has claimed
  lock,       \* the claim that holds the PendingRequest mutex
  shown,      \* elicitations the user has seen
  recorded    \* handlers whose message is in the conversation

callVars   == <<dpc, stream, unreg, senders, queue, active, working>>
waitVars   == <<wpc, call, via, pending, tx, chan, outcome>>
answerVars == <<apc, areq, mine, lock, shown, recorded>>
vars       == <<callVars, waitVars, answerVars>>

Init ==
  /\ dpc = [d \in Dispatches |-> "new"]
  /\ stream = [d \in Dispatches |-> "none"]
  /\ unreg = {} /\ active = <<>> /\ working = {}
  /\ senders = [c \in CallIds |-> None]
  /\ queue = [d \in Dispatches |-> <<>>]
  /\ wpc = [r \in Requests |-> "idle"]
  /\ call = [r \in Requests |-> None]
  /\ via = [r \in Requests |-> None]
  /\ pending = {}
  /\ tx = [r \in Requests |-> FALSE]
  /\ chan = [r \in Requests |-> None]
  /\ outcome = [r \in Requests |-> None]
  /\ apc = [a \in Answerers |-> "idle"]
  /\ areq = [a \in Answerers |-> None]
  /\ mine = [a \in Answerers |-> FALSE]
  /\ lock = [r \in Requests |-> None]
  /\ shown = {} /\ recorded = {}

\* Dispatches made and elicitations issued so far.
Started == Cardinality({d \in Dispatches : dpc[d] # "new"})
           + Cardinality({r \in Requests : wpc[r] # "idle"})

-----------------------------------------------------------------------------
(* Tool calls: dispatch_tool_call and send_request_with_context.           *)

Running(d) == dpc[d] \in {"ready", "running", "returning"}

\* A script of code_execution has started, and with it what it dispatches: it
\* runs on when the stream of its own dispatch is dropped (spawn_blocking).
Begun(d) == dpc[d] \notin {"new", "absent"}

\* Mutant: a nested dispatch registers a stream of its own.
CheckStreamAlways(d) ==
  /\ dpc[d] = "new" /\ Started < MaxStarted
  /\ Outer[d] # None => Begun(Outer[d])
  /\ dpc' = [dpc EXCEPT ![d] = "absent"]
  /\ UNCHANGED <<stream, unreg, senders, queue, active, working, waitVars, answerVars>>

\* The first of the two locks of dispatch_tool_call: a stream that is registered
\* for the id already is shared, be it that of an enclosing call or what is left
\* of an interrupted dispatch of the same request.
CheckStream(d) ==
  /\ dpc[d] = "new" /\ Started < MaxStarted
  /\ Outer[d] # None => Begun(Outer[d])
  /\ dpc' = [dpc EXCEPT ![d] =
                IF senders[CallOf[d]] # None THEN "ready" ELSE "absent"]
  /\ UNCHANGED <<stream, unreg, senders, queue, active, working, waitVars, answerVars>>

\* The second lock: register_action_required_stream.
RegisterStream(d) ==
  /\ dpc[d] = "absent"
  /\ dpc' = [dpc EXCEPT ![d] = "ready"]
  /\ stream' = [stream EXCEPT ![d] = "open"]
  /\ senders' = [senders EXCEPT ![CallOf[d]] = d]
  /\ UNCHANGED <<unreg, queue, active, working, waitVars, answerVars>>

\* send_request_with_context sends the request, the active call registered
\* first.  A tool that only encloses others runs in this process and sends
\* nothing.
IsMcp(d) == \A e \in Dispatches : Outer[e] # d

Call(d) ==
  /\ dpc[d] = "ready" /\ IsMcp(d)
  /\ dpc' = [dpc EXCEPT ![d] = "running"]
  /\ active' = Append(active, d)
  /\ working' = working \cup {d}
  /\ UNCHANGED <<stream, unreg, senders, queue, waitVars, answerVars>>

\* ActiveToolCallGuard::drop removes the first entry with the id of the call.
WithoutActive(s, c) ==
  IF \E i \in 1..Len(s) : CallOf[s[i]] = c
  THEN LET i == CHOOSE j \in 1..Len(s) :
                   CallOf[s[j]] = c /\ \A k \in 1..(j - 1) : CallOf[s[k]] # c
       IN SubSeq(s, 1, i - 1) \o SubSeq(s, i + 1, Len(s))
  ELSE s

\* await_response returns: the server's answer came, or the extension timeout
\* fired and the server works on.  The stream is still polled while the result
\* is post-processed.
Return(d) ==
  /\ dpc[d] = "running"
  /\ dpc' = [dpc EXCEPT ![d] = "returning"]
  /\ active' = WithoutActive(active, CallOf[d])
  /\ working' \in {working, working \ {d}}
  /\ UNCHANGED <<stream, unreg, senders, queue, waitVars, answerVars>>

\* The tool stream ends or is dropped with the reply (a cancelled turn), at
\* any point: the receiver goes with it, the unregistration is spawned.
DropCall(d) ==
  /\ Running(d)
  /\ dpc' = [dpc EXCEPT ![d] = "ended"]
  /\ active' = IF dpc[d] = "running" THEN WithoutActive(active, CallOf[d]) ELSE active
  /\ stream' = [stream EXCEPT ![d] = IF @ = "open" THEN "dropped" ELSE @]
  /\ unreg' = IF stream[d] = "open" THEN unreg \cup {d} ELSE unreg
  /\ queue' = [queue EXCEPT ![d] = <<>>]
  /\ UNCHANGED <<senders, working, waitVars, answerVars>>

\* unregister_action_required_stream, in the task that Drop spawned: by key.
Unregister(d) ==
  /\ d \in unreg
  /\ unreg' = unreg \ {d}
  /\ senders' = [senders EXCEPT ![CallOf[d]] = None]
  /\ UNCHANGED <<dpc, stream, queue, active, working, waitVars, answerVars>>

\* tool_stream yields the next message of the stream; it becomes a message the
\* client shows.  A nested dispatch's own stream is never polled.
Show(d) ==
  /\ Running(d) /\ Outer[d] = None
  /\ queue[d] # <<>>
  /\ shown' = shown \cup {Head(queue[d])}
  /\ queue' = [queue EXCEPT ![d] = Tail(@)]
  /\ UNCHANGED <<dpc, stream, unreg, senders, active, working, waitVars,
                 apc, areq, mine, lock, recorded>>

-----------------------------------------------------------------------------
(* Elicitations: create_elicitation and request_and_wait.                  *)

\* Mutant: an unresolved id becomes the empty one.
ResolvedOrEmpty(r) ==
  IF r \in Echo THEN CallOf[Home[r]]
  ELSE IF Len(active) = 1 THEN CallOf[active[1]] ELSE ""

\* resolve_tool_call_request_id: the echoed id, else the only active call's.
Resolved(r) ==
  IF r \in Echo THEN CallOf[Home[r]]
  ELSE IF Len(active) = 1 THEN CallOf[active[1]] ELSE None

Ask(r) ==
  /\ wpc[r] = "idle" /\ Started < MaxStarted
  /\ Home[r] \in working
  /\ call' = [call EXCEPT ![r] = Resolved(r)]
  /\ wpc' = [wpc EXCEPT ![r] = IF Resolved(r) = None THEN "done" ELSE "asked"]
  /\ outcome' = [outcome EXCEPT ![r] = IF Resolved(r) = None THEN "failed" ELSE @]
  /\ UNCHANGED <<via, pending, tx, chan, callVars, answerVars>>

\* The sender is cloned out of the map: it may be unregistered, or its stream
\* dropped, before it is used.
LookUp(r) ==
  /\ wpc[r] = "asked"
  /\ via' = [via EXCEPT ![r] = senders[call[r]]]
  /\ IF senders[call[r]] = None
       THEN /\ wpc' = [wpc EXCEPT ![r] = "done"]
            /\ outcome' = [outcome EXCEPT ![r] = "failed"]
       ELSE /\ wpc' = [wpc EXCEPT ![r] = "found"]
            /\ UNCHANGED outcome
  /\ UNCHANGED <<call, pending, tx, chan, callVars, answerVars>>

Insert(r) ==
  /\ wpc[r] = "found"
  /\ wpc' = [wpc EXCEPT ![r] = "inserted"]
  /\ pending' = pending \cup {r}
  /\ tx' = [tx EXCEPT ![r] = TRUE]
  /\ UNCHANGED <<call, via, chan, outcome, callVars, answerVars>>

\* Mutant: a refused message leaves its pending entry.
TrySendLeaks(r) ==
  /\ wpc[r] = "inserted"
  /\ IF stream[via[r]] = "open" /\ Len(queue[via[r]]) < Capacity
       THEN /\ queue' = [queue EXCEPT ![via[r]] = Append(@, r)]
            /\ wpc' = [wpc EXCEPT ![r] = "waiting"]
            /\ UNCHANGED outcome
       ELSE /\ wpc' = [wpc EXCEPT ![r] = "done"]
            /\ outcome' = [outcome EXCEPT ![r] = "failed"]
            /\ UNCHANGED queue
  /\ UNCHANGED <<call, via, pending, tx, chan, dpc, stream, unreg, senders,
                 active, working, answerVars>>

\* try_send: refused when the stream is full or its receiver is gone.
TrySend(r) ==
  /\ wpc[r] = "inserted"
  /\ IF stream[via[r]] = "open" /\ Len(queue[via[r]]) < Capacity
       THEN /\ queue' = [queue EXCEPT ![via[r]] = Append(@, r)]
            /\ wpc' = [wpc EXCEPT ![r] = "waiting"]
            /\ UNCHANGED outcome
       ELSE /\ wpc' = [wpc EXCEPT ![r] = "leaving"]
            /\ outcome' = [outcome EXCEPT ![r] = "failed"]
            /\ UNCHANGED queue
  /\ UNCHANGED <<call, via, pending, tx, chan, dpc, stream, unreg, senders,
                 active, working, answerVars>>

\* The answer arrives: before the deadline, or after it ("drained") because a
\* claim had already taken the sender.  The sender is never dropped unused
\* while the receiver lives, so the "Response channel closed" branch of
\* finish_waiting is not reached.
Receive(r) ==
  /\ wpc[r] \in {"waiting", "drained"}
  /\ chan[r] # None
  /\ wpc' = [wpc EXCEPT ![r] = "leaving"]
  /\ outcome' = [outcome EXCEPT ![r] = chan[r]]
  /\ UNCHANGED <<call, via, pending, tx, chan, callVars, answerVars>>

\* tokio's timeout polls the channel before the timer.
Deadline(r) ==
  /\ wpc[r] = "waiting"
  /\ chan[r] = None
  /\ wpc' = [wpc EXCEPT ![r] = "expired"]
  /\ UNCHANGED <<call, via, pending, tx, chan, outcome, callVars, answerVars>>

\* Mutant: the deadline does not wait for a claim.
GiveUpUnlocked(r) ==
  /\ wpc[r] = "expired"
  /\ IF tx[r]
       THEN /\ tx' = [tx EXCEPT ![r] = FALSE]
            /\ outcome' = [outcome EXCEPT ![r] = "failed"]
            /\ wpc' = [wpc EXCEPT ![r] = "leaving"]
       ELSE /\ wpc' = [wpc EXCEPT ![r] = "drained"]
            /\ UNCHANGED <<tx, outcome>>
  /\ UNCHANGED <<call, via, pending, chan, callVars, answerVars>>

\* After the deadline wait_for_response locks the request, behind any claim.
GiveUp(r) ==
  /\ wpc[r] = "expired"
  /\ lock[r] = None
  /\ IF tx[r]
       THEN /\ tx' = [tx EXCEPT ![r] = FALSE]
            /\ outcome' = [outcome EXCEPT ![r] = "failed"]
            /\ wpc' = [wpc EXCEPT ![r] = "leaving"]
       ELSE /\ wpc' = [wpc EXCEPT ![r] = "drained"]
            /\ UNCHANGED <<tx, outcome>>
  /\ UNCHANGED <<call, via, pending, chan, callVars, answerVars>>

\* The last statement of request_and_wait, after either way out.
Remove(r) ==
  /\ wpc[r] = "leaving"
  /\ wpc' = [wpc EXCEPT ![r] = "done"]
  /\ pending' = pending \ {r}
  /\ call' = [call EXCEPT ![r] = None] /\ via' = [via EXCEPT ![r] = None]
  /\ UNCHANGED <<tx, chan, outcome, callVars, answerVars>>

\* The future is dropped at one of its await points.
DropWait(r) ==
  /\ Drops
  /\ wpc[r] \in {"inserted", "waiting", "expired", "drained"}
  /\ wpc' = [wpc EXCEPT ![r] = "dropped"]
  /\ call' = [call EXCEPT ![r] = None] /\ via' = [via EXCEPT ![r] = None]
  /\ UNCHANGED <<pending, tx, chan, outcome, callVars, answerVars>>

-----------------------------------------------------------------------------
(* Answers: complete_elicitation_with_message.                             *)

Receiving(r) == wpc[r] \in {"inserted", "waiting", "expired", "drained"}

\* pending_request: the map is read, the request's mutex is not yet taken.
\* The ids a handler can hold are those the client was shown.
Fetch(a, r, own) ==
  /\ apc[a] = "idle"
  /\ r \in shown
  /\ areq' = [areq EXCEPT ![a] = r]
  /\ mine' = [mine EXCEPT ![a] = own /\ r \in pending]
  /\ apc' = [apc EXCEPT ![a] = IF r \in pending THEN "fetched" ELSE "refused"]
  /\ UNCHANGED <<lock, shown, recorded, callVars, waitVars>>

\* Mutant: a completed request can be claimed again.
ClaimCompleted(a) ==
  LET r == areq[a] IN
  /\ apc[a] = "fetched"
  /\ lock[r] = None
  /\ IF mine[a] /\ Receiving(r)
       THEN /\ apc' = [apc EXCEPT ![a] = "claimed"]
            /\ lock' = [lock EXCEPT ![r] = a]
            /\ UNCHANGED tx
       ELSE /\ apc' = [apc EXCEPT ![a] = "refused"]
            /\ tx' = [tx EXCEPT ![r] = IF mine[a] /\ ~Receiving(r) THEN FALSE ELSE @]
            /\ UNCHANGED lock
  /\ mine' = [mine EXCEPT ![a] = FALSE]
  /\ UNCHANGED <<areq, shown, recorded, callVars, wpc, call, via, pending, chan, outcome>>

\* claim_response under the mutex: refused for a foreign session, a completed
\* request and a waiter that is gone; otherwise the guard is kept.
Claim(a) ==
  LET r == areq[a] IN
  /\ apc[a] = "fetched"
  /\ lock[r] = None
  /\ IF mine[a] /\ tx[r] /\ Receiving(r)
       THEN /\ apc' = [apc EXCEPT ![a] = "claimed"]
            /\ lock' = [lock EXCEPT ![r] = a]
            /\ UNCHANGED tx
       ELSE /\ apc' = [apc EXCEPT ![a] = "refused"]
            /\ tx' = [tx EXCEPT ![r] = IF mine[a] /\ ~Receiving(r) THEN FALSE ELSE @]
            /\ UNCHANGED lock
  /\ mine' = [mine EXCEPT ![a] = FALSE]
  /\ UNCHANGED <<areq, shown, recorded, callVars, wpc, call, via, pending, chan, outcome>>

\* add_message, with the claim held.
Record(a) ==
  /\ apc[a] = "claimed"
  /\ apc' = [apc EXCEPT ![a] = "recorded"]
  /\ recorded' = recorded \cup {a}
  /\ UNCHANGED <<areq, mine, lock, shown, callVars, waitVars>>

\* Mutant: the guard of a failed claim is kept.
RecordFailsHolding(a) ==
  /\ apc[a] = "claimed"
  /\ apc' = [apc EXCEPT ![a] = "refused"]
  /\ UNCHANGED lock
  /\ UNCHANGED <<areq, mine, shown, recorded, callVars, waitVars>>

\* Mutant: the message was written although add_message failed.
RecordFailsWritten(a) ==
  /\ apc[a] = "claimed"
  /\ apc' = [apc EXCEPT ![a] = "refused"]
  /\ lock' = [lock EXCEPT ![areq[a]] = None]
  /\ recorded' = recorded \cup {a}
  /\ UNCHANGED <<areq, mine, shown, callVars, waitVars>>

\* add_message fails: the claim is dropped, the request stays answerable.
RecordFails(a) ==
  /\ apc[a] = "claimed"
  /\ apc' = [apc EXCEPT ![a] = "refused"]
  /\ lock' = [lock EXCEPT ![areq[a]] = None]
  /\ UNCHANGED <<areq, mine, shown, recorded, callVars, waitVars>>

\* PendingResponseClaim::submit takes the sender, releases the mutex, sends.
Submit(a) ==
  /\ apc[a] = "recorded"
  /\ apc' = [apc EXCEPT ![a] = "sending"]
  /\ tx' = [tx EXCEPT ![areq[a]] = FALSE]
  /\ lock' = [lock EXCEPT ![areq[a]] = None]
  /\ UNCHANGED <<areq, mine, shown, recorded, callVars,
                 wpc, call, via, pending, chan, outcome>>

Send(a) ==
  LET r == areq[a] IN
  /\ apc[a] = "sending"
  /\ IF Receiving(r)
       THEN /\ chan' = [chan EXCEPT ![r] = a]
            /\ apc' = [apc EXCEPT ![a] = "accepted"]
       ELSE /\ apc' = [apc EXCEPT ![a] = "refused"]
            /\ UNCHANGED chan
  /\ UNCHANGED <<areq, mine, lock, shown, recorded, callVars,
                 wpc, call, via, pending, tx, outcome>>

\* The handler goes with its connection or its reply, at the lock of the claim or
\* in add_message: a claim lets go, and the message is in the conversation if the
\* handler was waiting for the commit.
DropHandler(a) ==
  /\ Drops
  /\ apc[a] \in {"fetched", "claimed"}
  /\ apc' = [apc EXCEPT ![a] = "dropped"]
  /\ mine' = [mine EXCEPT ![a] = FALSE]
  /\ \/ apc[a] = "fetched" /\ UNCHANGED <<lock, recorded>>
     \/ /\ apc[a] = "claimed"
        /\ lock' = [lock EXCEPT ![areq[a]] = None]
        /\ recorded' \in {recorded, recorded \cup {a}}
  /\ UNCHANGED <<areq, shown, callVars, waitVars>>

-----------------------------------------------------------------------------
CallStep(d) ==
  \/ CheckStream(d) \/ RegisterStream(d) \/ Call(d) \/ Return(d)
  \/ DropCall(d) \/ Unregister(d) \/ Show(d)

WaitStep(r) ==
  \/ Ask(r) \/ LookUp(r) \/ Insert(r) \/ TrySend(r) \/ Receive(r)
  \/ Deadline(r) \/ GiveUp(r) \/ Remove(r) \/ DropWait(r)

AnswerStep(a) ==
  \/ \E r \in Requests, own \in BOOLEAN : Fetch(a, r, own)
  \/ Claim(a) \/ Record(a) \/ RecordFails(a) \/ Submit(a) \/ Send(a)
  \/ DropHandler(a)

Next ==
  \/ \E d \in Dispatches : CallStep(d)
  \/ \E r \in Requests : WaitStep(r)
  \/ \E a \in Answerers : AnswerStep(a)

Spec == Init /\ [][Next]_vars

\* Tokio polls a woken task again, the timer fires, the database call of
\* add_message returns one way or the other.  Nothing makes the user answer,
\* the server ask or the tool call end.
Fairness ==
  /\ \A r \in Requests :
       WF_vars(LookUp(r) \/ Insert(r) \/ TrySend(r) \/ Receive(r)
               \/ Deadline(r) \/ GiveUp(r) \/ Remove(r))
  /\ \A a \in Answerers :
       WF_vars(Claim(a) \/ Record(a) \/ RecordFails(a) \/ Submit(a) \/ Send(a))

FairSpec == Spec /\ Fairness

-----------------------------------------------------------------------------
(* Properties.                                                             *)

Optional(S) == S \cup {None}

TypeOK ==
  /\ dpc \in [Dispatches -> {"new", "absent", "ready", "running", "returning", "ended"}]
  /\ stream \in [Dispatches -> {"none", "open", "dropped"}]
  /\ unreg \subseteq Dispatches /\ working \subseteq Dispatches
  /\ senders \in [CallIds -> Optional(Dispatches)]
  /\ queue \in [Dispatches -> Seq(Requests)]
  /\ active \in Seq(Dispatches)
  /\ wpc \in [Requests -> {"idle", "asked", "found", "inserted", "waiting",
                           "expired", "drained", "leaving", "done", "dropped"}]
  /\ call \in [Requests -> Optional(CallIds)]
  /\ via \in [Requests -> Optional(Dispatches)]
  /\ pending \subseteq Requests
  /\ tx \in [Requests -> BOOLEAN]
  /\ chan \in [Requests -> Optional(Answerers)]
  /\ outcome \in [Requests -> Answerers \cup {None, "failed"}]
  /\ apc \in [Answerers -> {"idle", "fetched", "claimed", "recorded",
                            "sending", "accepted", "refused", "dropped"}]
  /\ areq \in [Answerers -> Optional(Requests)]
  /\ mine \in [Answerers -> BOOLEAN]
  /\ lock \in [Requests -> Optional(Answerers)]
  /\ shown \subseteq Requests
  /\ recorded \subseteq Answerers

\* An elicitation is answered once: a second answer to it gets into the
\* conversation only if the handlers of all earlier ones were dropped while they
\* wrote, however many race for it (claim_response keeps the guard while
\* complete_elicitation_with_message records).
OneAnswerRecorded ==
  [][\A a \in recorded' \ recorded, b \in recorded :
        areq[a] = areq[b] => apc[b] = "dropped"]_vars

\* An answer in the conversation is the one the MCP server gets, even when the
\* deadline passed while it was being recorded: wait_for_response yields to a
\* claim.  (A handler dropped while it wrote hands nothing over, and a dropped
\* waiter returns nothing.)
RecordedIsHeard ==
  \A a \in recorded :
     apc[a] # "dropped" /\ wpc[areq[a]] \in {"leaving", "done"} => outcome[areq[a]] = a

\* A handler that is told its response failed has left no message behind and
\* its answer never reaches the server, unless the waiter itself was dropped.
RefusedLeavesNoTrace ==
  \A a \in Answerers : apc[a] = "refused" /\ areq[a] # None =>
     /\ outcome[areq[a]] # a
     /\ wpc[areq[a]] # "dropped" => a \notin recorded

\* No entry outlives its waiter in the pending map: every way out of
\* request_and_wait removes it, the refused try_send included. (A waiter that is
\* dropped leaves its entry.)
PendingIsWaited ==
  \A r \in pending : wpc[r] \in {"inserted", "waiting", "expired", "drained", "leaving", "dropped"}

\* While a call's stream is open its sender stays registered under the call's
\* id: nothing that is dispatched within the call takes it away or replaces it,
\* though it carries the same id, is tested under one lock and registered under
\* another, and may outlive the call (has_action_required_stream).  Only another
\* dispatch of the id with a stream of its own can.
StreamStaysRegistered ==
  \A d \in Dispatches :
     /\ stream[d] = "open" /\ Outer[d] = None
     /\ \A e \in Dispatches \ {d} :
           CallOf[e] = CallOf[d] /\ Outer[e] # d => stream[e] = "none"
     => senders[CallOf[d]] = d

\* Every elicitation that was put to the user ends, answered or not
\* (request_and_wait's timeout behind a claim that always lets go).
ElicitationEnds ==
  \A r \in Requests : wpc[r] = "waiting" ~> wpc[r] \in {"done", "dropped"}
=============================================================================
