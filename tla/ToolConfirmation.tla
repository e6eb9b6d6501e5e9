--------------------------- MODULE ToolConfirmation ---------------------------
(***************************************************************************)
(* Tool approval in one session: the turn (the stream that runs the state  *)
(* machine, asks the user and waits), the submissions that answer it, and  *)
(* the conversation on disk, which is all that outlives a dropped stream   *)
(* or a dead process.                                                      *)
(*                                                                         *)
(* Tools are tool requests of the model, approved by ToolApprovalOperation *)
(* and executed here.  LiveRequests are approvals a provider with          *)
(* PermissionRouting::ActionRequired asks for in the middle of its stream. *)
(*                                                                         *)
(* The conversation is kept as what the code reads back out of it; a step  *)
(* of the machine is computed from the conversation loaded at its start.   *)
(***************************************************************************)
EXTENDS Naturals, FiniteSets

CONSTANTS
    Tools,              \* tool request ids
    LiveRequests,       \* ids of provider-routed approvals
    Clients,            \* handlers of an answer, each for one answer at a time
    Choices,            \* the permissions the clients choose from
    MaxSteers,          \* bound: steers injected
    MaxInterruptions,   \* bound: dropped streams, dropped submissions, crashes
    None

Requests    == Tools \cup LiveRequests
Permissions == {"allow_once", "always_allow", "deny_once", "always_deny", "cancel"}
Allowing    == {"allow_once", "always_allow"}
Decisions   == Permissions \ {"cancel"}

ASSUME ToolConfirmationAssumption ==
    /\ Tools \cap LiveRequests = {}
    /\ None \notin Requests \cup Clients \cup Permissions
    /\ None \notin {"open", "live", "cancelled", "declined", "result"}
    /\ Choices \subseteq Permissions
    /\ MaxSteers \in Nat /\ MaxInterruptions \in Nat

VARIABLES
    \* the conversation
    used,           \* requests the model has made
    window,         \* those that lie behind the kickoff message
    asked,          \* those with a confirmation request
    executable,     \* tool_meta["aibuddy.executable"]
    decision,       \* the confirmation response
    response,       \* the kind of the tool response
    last,           \* the last message: "settled" (a text, tool responses), "error" or "open"
    providerNext,   \* the last message the provider sees is not the assistant's
    \* SessionToolConfirmationState, and the provider's pending_confirmations
    answer,         \* the confirmations map; "open" is the code's None
    live,
    woken,          \* the enabled Notified has been notified
    \* the turn
    turn,           \* where it is; "idle" when the turn lock is free
    cancelled,      \* its cancellation token
    marks, needs,   \* effects to persist: marks, then holds with a question each
    asking,         \* the hold is written, the question is next
    batch,          \* requests of the step in progress
    \* a resume between its read and the turn lock
    resume, read,
    \* submissions
    pc, req, perm,
    own,            \* those that answer a prompt of the present turn
    \* history
    runs,           \* how often each tool was started
    accepted,       \* permissions whose submission returned Ok
    steered, interruptions

conversation == <<used, window, asked, executable, decision, response, last, providerNext>>
waiting == <<answer, live, woken>>
effects == <<marks, needs, asking, batch>>
resuming == <<resume, read>>
calls == <<pc, req, perm>>
history == <<runs, accepted, steered, interruptions>>
vars == <<conversation, waiting, turn, cancelled, effects, resuming, calls, own, history>>

Init ==
    /\ used = {} /\ window = {} /\ asked = {}
    /\ executable = [r \in Tools |-> "unset"]
    /\ decision = [r \in Tools |-> None]
    /\ response = [r \in Tools |-> None]
    /\ last = "open" /\ providerNext = TRUE
    /\ answer = [r \in Requests |-> None] /\ live = {} /\ woken = FALSE
    /\ turn = "idle" /\ cancelled = FALSE
    /\ marks = {} /\ needs = {} /\ asking = None /\ batch = {}
    /\ resume = "none" /\ read = {}
    /\ pc = [c \in Clients |-> "idle"]
    /\ req = [c \in Clients |-> None] /\ perm = [c \in Clients |-> None]
    /\ own = {}
    /\ runs = [r \in Tools |-> 0] /\ accepted = [r \in Requests |-> {}]
    /\ steered = 0 /\ interruptions = 0

-----------------------------------------------------------------------------
(* What the code reads out of the conversation.                            *)

OpenTools == {r \in window \cap Tools : response[r] = None}

\* The mark a decided request should have; one without a decision was denied.
Wanted(r) == IF decision[r] \in Allowing THEN "yes" ELSE "no"

\* ApprovalState::responses whose mark has yet to be written.
Unapplied == {r \in OpenTools : decision[r] # None /\ executable[r] # Wanted(r)}

\* ApprovalState::pending_requests.
ToInspect ==
    {r \in OpenTools : r \notin asked /\ decision[r] = None /\ executable[r] # "no"}

\* Mutant: a request that has its response is executed again.
ToExecuteAgain == {r \in window \cap Tools : executable[r] # "no"}

ToExecute == {r \in OpenTools : executable[r] # "no"}

\* Mutant: a held request is declined before the user has answered.
ToDeclineUnanswered == {r \in OpenTools : executable[r] = "no"}

\* A held request waits for the user, unless it was denied by the inspectors
\* (never asked about) or by the user.
ToDecline ==
    {r \in OpenTools : /\ executable[r] = "no"
                       /\ r \in asked => decision[r] \in Decisions \ Allowing}

\* pending_tool_confirmations: any question without an answer or a response.
PendingConfirmations ==
    {r \in window \cap asked :
        r \in Tools => response[r] = None /\ decision[r] = None}

HasUnappliedResponse == \E r \in OpenTools : r \in asked /\ decision[r] # None

InferenceApplies == last # "error" /\ providerNext

\* SteerOperation: ends_turn, or the last message is a tool response.
BetweenTurns == last = "settled"

Registered(r) == answer[r] # None

AllAnswered ==
    /\ \E r \in Requests : Registered(r)
    /\ \A r \in Requests : answer[r] # "open"

-----------------------------------------------------------------------------
(* The turn.                                                               *)

\* ActiveTurnGuard::drop clears the map and frees the lock.
EndTurn ==
    /\ turn' = "idle" /\ cancelled' = FALSE
    /\ answer' = [r \in Requests |-> None] /\ woken' = FALSE
    /\ marks' = {} /\ needs' = {} /\ asking' = None /\ batch' = {}
    /\ own' = {}
    /\ UNCHANGED live

\* The run is over: has_confirmations says whether the turn waits or returns.
\* It holds exactly when a request is registered, because the map is empty when
\* a stream is made.
RunOver ==
    IF \E r \in Requests : Registered(r)
    THEN /\ turn' = "arm" /\ batch' = {}
         /\ UNCHANGED <<waiting, cancelled, marks, needs, asking, own>>
    ELSE EndTurn

\* After a step: the loop goes on, or, when the token was cancelled before the
\* step returned, it yields to the client.
AfterStep ==
    \/ /\ turn' = "top" /\ batch' = {}
       /\ UNCHANGED <<waiting, cancelled, marks, needs, asking, own>>
    \/ cancelled /\ RunOver

\* reply_with_state_machine: the turn lock, then the message, then a run.
StartTurn ==
    /\ turn = "idle"
    /\ turn' = "top"
    /\ window' = {} /\ last' = "open" /\ providerNext' = TRUE
    /\ UNCHANGED <<used, asked, executable, decision, response, waiting, cancelled,
                   effects, resuming, calls, own, history>>

\* resume_state_machine_turn reads the conversation before it takes the lock.
\* (session/load, its only caller, looks for the pending questions in a session
\* it has loaded without its conversation, and so does not get here.)
ResumeRead ==
    /\ resume = "none"
    /\ \/ PendingConfirmations # {} /\ resume' = "wait"
       \/ PendingConfirmations = {} /\ HasUnappliedResponse /\ resume' = "run"
    /\ read' = PendingConfirmations
    /\ UNCHANGED <<conversation, waiting, turn, cancelled, effects, calls, own, history>>

ResumeStart ==
    /\ resume # "none"
    /\ resume' = "none" /\ read' = {}
    /\ IF turn = "idle"
       THEN /\ answer' = [r \in Requests |-> IF r \in read THEN "open" ELSE answer[r]]
            /\ turn' = IF resume = "wait" THEN "arm" ELSE "top"
       ELSE UNCHANGED <<answer, turn>>
    /\ UNCHANGED <<conversation, live, woken, cancelled, effects, calls, own, history>>

\* on_cancel.
Cancel ==
    /\ turn # "idle" /\ ~cancelled
    /\ cancelled' = TRUE
    /\ UNCHANGED <<conversation, waiting, turn, effects, resuming, calls, own, history>>

-----------------------------------------------------------------------------
(* wait_for_all_confirmation_answers.                                      *)

Waiting == turn \in {"arm", "check", "looked", "asleep"}

\* notified() is enabled before the map is looked at.
Arm ==
    /\ turn = "arm"
    /\ turn' = "check"
    /\ UNCHANGED <<conversation, waiting, cancelled, effects, resuming, calls, own, history>>

\* With an answer of the state machine the map is cleared and the machine runs
\* again; answers a provider has handled end the turn.
CheckAnswers ==
    /\ turn = "check"
    /\ IF ~AllAnswered
       THEN /\ turn' = "looked"
            /\ UNCHANGED <<waiting, cancelled, effects, own>>
       ELSE IF \E r \in Requests : answer[r] \in Permissions
       THEN /\ turn' = "top"
            /\ answer' = [r \in Requests |-> None] /\ woken' = FALSE
            /\ UNCHANGED <<live, cancelled, effects, own>>
       ELSE EndTurn
    /\ UNCHANGED <<conversation, resuming, calls, history>>

Sleep ==
    /\ turn = "looked"
    /\ turn' = "asleep"
    /\ UNCHANGED <<conversation, waiting, cancelled, effects, resuming, calls, own, history>>

WakeUp ==
    /\ turn = "asleep" /\ woken
    /\ turn' = "arm" /\ woken' = FALSE
    /\ UNCHANGED <<conversation, answer, live, cancelled, effects, resuming, calls, own, history>>

WaitCancelled ==
    /\ turn = "asleep" /\ cancelled
    /\ EndTurn
    /\ UNCHANGED <<conversation, resuming, calls, history>>

-----------------------------------------------------------------------------
(* The steps of the machine, in the order of the pipeline.                 *)

\* InferenceRunner::cancel answers every open request; the others do nothing.
StepCancelled ==
    /\ turn = "top" /\ cancelled
    /\ response' = [r \in Tools |-> IF r \in OpenTools THEN "cancelled" ELSE response[r]]
    /\ last' = IF OpenTools # {} THEN "settled" ELSE last
    /\ providerNext' = (OpenTools # {} \/ providerNext)
    /\ RunOver
    /\ UNCHANGED <<used, window, asked, executable, decision, resuming, calls, history>>

\* The steer queue is drained into the conversation: a new kickoff message.
Steer ==
    /\ turn = "top" /\ ~cancelled /\ BetweenTurns
    /\ steered < MaxSteers
    /\ steered' = steered + 1
    /\ window' = {} /\ last' = "open" /\ providerNext' = TRUE
    /\ UNCHANGED <<used, asked, executable, decision, response, waiting, turn, cancelled,
                   effects, resuming, calls, own, runs, accepted, interruptions>>

\* The inspectors deny, ask about or approve; to approve takes no effect.
BeginApproval(denied, questioned) ==
    /\ turn = "top" /\ ~cancelled
    /\ denied \subseteq ToInspect /\ questioned \subseteq ToInspect \ denied
    /\ marks' = Unapplied \cup denied /\ needs' = questioned
    /\ marks' \cup needs' # {}
    /\ turn' = "approving"
    /\ UNCHANGED <<conversation, waiting, cancelled, asking, batch, resuming, calls, own, history>>

PersistMark(r) ==
    /\ turn = "approving" /\ r \in marks
    /\ executable' = [executable EXCEPT ![r] = Wanted(r)]
    /\ marks' = marks \ {r}
    /\ UNCHANGED <<used, window, asked, decision, response, last, providerNext, waiting, turn,
                   cancelled, needs, asking, batch, resuming, calls, own, history>>

\* Mutant: the question is asked of a request that is not held.
PersistNoHold(r) ==
    /\ turn = "approving" /\ marks = {} /\ asking = None /\ r \in needs
    /\ needs' = needs \ {r} /\ asking' = r
    /\ UNCHANGED <<conversation, waiting, turn,
                   cancelled, marks, batch, resuming, calls, own, history>>

PersistHold(r) ==
    /\ turn = "approving" /\ marks = {} /\ asking = None /\ r \in needs
    /\ executable' = [executable EXCEPT ![r] = "no"]
    /\ needs' = needs \ {r} /\ asking' = r
    /\ UNCHANGED <<used, window, asked, decision, response, last, providerNext, waiting, turn,
                   cancelled, marks, batch, resuming, calls, own, history>>

PersistAsk ==
    /\ turn = "approving" /\ asking # None
    /\ asked' = asked \cup {asking}
    /\ last' = "open"
    /\ asking' = None /\ batch' = batch \cup {asking}
    /\ UNCHANGED <<used, window, executable, decision, response, providerNext, waiting, turn,
                   cancelled, marks, needs, resuming, calls, own, history>>

\* The persistence pass is over: the questions go to the stream, which registers
\* each one and shows it. Cancelled before the step returned, the run ends.
Publish ==
    /\ turn = "approving" /\ marks = {} /\ needs = {} /\ asking = None
    /\ answer' = [r \in Requests |-> IF r \in batch /\ ~Registered(r) THEN "open" ELSE answer[r]]
    /\ batch' = {}
    /\ IF cancelled /\ \E r \in Requests : answer'[r] # None
       THEN turn' \in {"top", "arm"} ELSE turn' = "top"
    /\ UNCHANGED <<conversation, live, woken, cancelled, marks, needs, asking, resuming, calls,
                   own, history>>

BeginExecution ==
    /\ turn = "top" /\ ~cancelled /\ Unapplied = {}
    /\ ToExecute \cup ToDecline # {}
    /\ turn' = "executing"
    /\ batch' = ToExecute \cup ToDecline
    /\ runs' = [r \in Tools |-> IF r \in ToExecute THEN runs[r] + 1 ELSE runs[r]]
    /\ UNCHANGED <<conversation, waiting, cancelled, marks, needs, asking, resuming, calls, own,
                   accepted, steered, interruptions>>

\* One message answers the batch; a cancelled execution answers for the tools
\* that have not returned.
CommitExecution ==
    /\ turn = "executing"
    /\ response' = [r \in Tools |-> IF r \notin batch THEN response[r]
                                    ELSE IF executable[r] = "no" THEN "declined" ELSE "result"]
    /\ last' = "settled" /\ providerNext' = TRUE
    /\ AfterStep
    /\ UNCHANGED <<used, window, asked, executable, decision, resuming, calls, history>>

BeginInference ==
    /\ turn = "top" /\ ~cancelled /\ Unapplied = {}
    /\ ToExecute \cup ToDecline = {} /\ InferenceApplies
    /\ turn' = "inferring"
    /\ UNCHANGED <<conversation, waiting, cancelled, effects, resuming, calls, own, history>>

\* The provider asks in its stream, which registers and shows the question at
\* once, and reads on when it is answered.
LiveAsk(r) ==
    /\ turn = "inferring" /\ ~cancelled /\ live \cap batch = {}
    /\ r \in LiveRequests \ used
    /\ used' = used \cup {r} /\ batch' = batch \cup {r}
    /\ live' = live \cup {r}
    /\ answer' = [answer EXCEPT ![r] = "open"]
    /\ UNCHANGED <<window, asked, executable, decision, response, last, providerNext, woken, turn,
                   cancelled, marks, needs, asking, resuming, calls, own, history>>

\* The stream ends or fails, or the token is cancelled: what it brought is
\* appended. Questions are published again, which registers nothing new.
CommitInference(new, failed) ==
    LET answered == IF cancelled /\ ~failed THEN OpenTools \cup new ELSE {}
    IN  /\ turn = "inferring"
        /\ cancelled \/ live \cap batch = {}
        /\ new \subseteq Tools \ used
        /\ used' = used \cup new
        /\ window' = window \cup new \cup batch
        /\ asked' = asked \cup batch
        /\ response' = [r \in Tools |-> IF r \in answered THEN "cancelled" ELSE response[r]]
        /\ last' \in IF answered # {} THEN {"settled"}
                     ELSE IF failed THEN {"error"}
                     ELSE IF new # {} THEN {"open"}
                     ELSE IF batch # {} THEN {"open", "settled"} ELSE {"settled"}
        /\ providerNext' = (answered # {})
        /\ AfterStep
        /\ UNCHANGED <<executable, decision, resuming, calls, history>>

\* No step applies.
RunEnds ==
    /\ turn = "top" /\ ~cancelled /\ Unapplied = {}
    /\ ToExecute \cup ToDecline = {} /\ ~InferenceApplies
    /\ RunOver
    /\ UNCHANGED <<conversation, resuming, calls, history>>

-----------------------------------------------------------------------------
(* submit_tool_confirmation, called from the callback of a prompt.         *)

\* The callback cancels the turn it belongs to when the submission fails.
ReturnErr(c) ==
    /\ pc' = [pc EXCEPT ![c] = "idle"]
    /\ req' = [req EXCEPT ![c] = None] /\ perm' = [perm EXCEPT ![c] = None]
    /\ own' = own \ {c}
    /\ cancelled' = (cancelled \/ c \in own)
    /\ UNCHANGED accepted

ReturnOk(c) ==
    /\ pc' = [pc EXCEPT ![c] = "idle"]
    /\ req' = [req EXCEPT ![c] = None] /\ perm' = [perm EXCEPT ![c] = None]
    /\ own' = own \ {c}
    /\ accepted' = [accepted EXCEPT ![req[c]] = @ \cup {perm[c]}]
    /\ UNCHANGED cancelled

Goto(c, next) ==
    /\ pc' = [pc EXCEPT ![c] = next]
    /\ UNCHANGED <<req, perm, own, cancelled, accepted>>

\* state_machine_permission.
Stored(p) == IF p = "cancel" THEN "deny_once" ELSE p

\* A prompt on some screen, of this turn or of an earlier one, is answered.
Submit(c, r, p) ==
    /\ pc[c] = "idle"
    /\ Registered(r) \/ r \in asked \cup live
    /\ pc' = [pc EXCEPT ![c] = "queued"]
    /\ req' = [req EXCEPT ![c] = r] /\ perm' = [perm EXCEPT ![c] = p]
    /\ own' = IF Registered(r) THEN own \cup {c} ELSE own
    /\ UNCHANGED <<conversation, waiting, turn, cancelled, effects, resuming, history>>

\* Mutant: there is no submission lock.
NoSubmissionLock == TRUE

SubmissionLockFree == \A c \in Clients : pc[c] \in {"idle", "queued"}

Acquire(c) ==
    /\ pc[c] = "queued" /\ SubmissionLockFree
    /\ LET known == answer[req[c]]
       IN  \/ known \in {None, "open"} /\ Goto(c, "routing")
           \/ known = Stored(perm[c]) /\ ReturnOk(c)
           \/ known \notin {None, "open", Stored(perm[c])} /\ ReturnErr(c)
    /\ UNCHANGED <<conversation, waiting, turn, effects, resuming, runs, steered, interruptions>>

\* Mutant: only a waiter that is asleep is told (no enable()).
NotifyOnlySleeping == woken' = (woken \/ turn = "asleep")

\* notify_waiters reaches the Notified that is enabled, asleep or not.
NotifyWaiters == woken' = (woken \/ turn \in {"check", "looked", "asleep"})

\* The provider's own map first, then the registered requests of the turn.
RouteLive(c) ==
    /\ pc[c] = "routing" /\ req[c] \in live
    /\ live' = live \ {req[c]}
    /\ IF Registered(req[c])
       THEN answer' = [answer EXCEPT ![req[c]] = "live"] /\ NotifyWaiters
       ELSE UNCHANGED <<answer, woken>>
    /\ ReturnOk(c)
    /\ UNCHANGED <<conversation, turn, effects, resuming, runs, steered, interruptions>>

RouteStateMachine(c) ==
    /\ pc[c] = "routing" /\ req[c] \notin live
    /\ IF Registered(req[c]) THEN Goto(c, "reading") ELSE ReturnErr(c)
    /\ UNCHANGED <<conversation, waiting, turn, effects, resuming, runs, steered, interruptions>>

\* persist_tool_confirmation_decision reads the conversation. A decision that is
\* there already is not written twice.
ReadConversation(c) ==
    LET r == req[c]
        awaited == r \in window \cap asked \cap Tools
    IN  /\ pc[c] = "reading"
        /\ \/ awaited /\ decision[r] = Stored(perm[c]) /\ Goto(c, "recording")
           \/ awaited /\ decision[r] = None /\ response[r] = None /\ Goto(c, "appending")
           \/ /\ awaited => /\ decision[r] # Stored(perm[c])
                            /\ decision[r] = None => response[r] # None
              /\ ReturnErr(c)
        /\ UNCHANGED <<conversation, waiting, turn, effects, resuming, runs, steered,
                       interruptions>>

AppendDecision(c) ==
    /\ pc[c] = "appending"
    /\ decision' = [decision EXCEPT ![req[c]] = Stored(perm[c])]
    /\ last' = "open"
    /\ Goto(c, "recording")
    /\ UNCHANGED <<used, window, asked, executable, response, providerNext, waiting, turn,
                   effects, resuming, runs, steered, interruptions>>

\* record_answer; it is too late when the turn has gone.
RecordAnswer(c) ==
    /\ pc[c] = "recording"
    /\ IF answer[req[c]] = "open"
       THEN /\ answer' = [answer EXCEPT ![req[c]] = Stored(perm[c])]
            /\ NotifyWaiters
            /\ ReturnOk(c)
       ELSE ReturnErr(c) /\ UNCHANGED <<answer, woken>>
    /\ UNCHANGED <<conversation, live, turn, effects, resuming, runs, steered, interruptions>>

-----------------------------------------------------------------------------
(* Interruptions.                                                          *)

Interrupted ==
    /\ interruptions < MaxInterruptions
    /\ interruptions' = interruptions + 1
    /\ UNCHANGED <<conversation, runs, accepted, steered>>

\* forward_agent_stream stops polling: the turn is dropped where it stands.
DropTurn ==
    /\ turn # "idle"
    /\ Interrupted /\ EndTurn
    /\ UNCHANGED <<resuming, calls>>

\* The future of a submission is dropped at one of its awaits.
DropSubmission(c) ==
    /\ pc[c] # "idle"
    /\ Interrupted
    /\ pc' = [pc EXCEPT ![c] = "idle"]
    /\ req' = [req EXCEPT ![c] = None] /\ perm' = [perm EXCEPT ![c] = None]
    /\ own' = own \ {c}
    /\ UNCHANGED <<waiting, turn, cancelled, effects, resuming>>

Crash ==
    /\ Interrupted
    /\ turn' = "idle" /\ cancelled' = FALSE
    /\ answer' = [r \in Requests |-> None] /\ live' = {} /\ woken' = FALSE
    /\ marks' = {} /\ needs' = {} /\ asking' = None /\ batch' = {}
    /\ resume' = "none" /\ read' = {}
    /\ pc' = [c \in Clients |-> "idle"]
    /\ req' = [c \in Clients |-> None] /\ perm' = [c \in Clients |-> None]
    /\ own' = {}

-----------------------------------------------------------------------------
WaitStep == Arm \/ CheckAnswers \/ Sleep \/ WakeUp \/ WaitCancelled

RunStep ==
    \/ StepCancelled \/ Steer
    \/ \E denied, questioned \in SUBSET Tools : BeginApproval(denied, questioned)
    \/ \E r \in Tools : PersistMark(r) \/ PersistHold(r)
    \/ PersistAsk \/ Publish
    \/ BeginExecution \/ CommitExecution
    \/ BeginInference
    \/ \E new \in SUBSET Tools, failed \in BOOLEAN : CommitInference(new, failed)
    \/ RunEnds

CallStep(c) ==
    RouteLive(c) \/ RouteStateMachine(c) \/ ReadConversation(c) \/ AppendDecision(c)
    \/ RecordAnswer(c)

Answer(r) == \E c \in Clients, p \in Choices : Submit(c, r, p)

Next ==
    \/ StartTurn \/ ResumeRead \/ ResumeStart \/ Cancel
    \/ WaitStep \/ RunStep
    \/ \E r \in LiveRequests : LiveAsk(r)
    \/ \E r \in Requests : Answer(r)
    \/ \E c \in Clients : Acquire(c) \/ CallStep(c) \/ DropSubmission(c)
    \/ DropTurn \/ Crash

Spec == Init /\ [][Next]_vars

\* The stream is polled by its consumer, a submission by its task; the lock is
\* handed on in order; a prompt that stays on the screen is answered.
Fairness ==
    /\ WF_vars(WaitStep) /\ WF_vars(RunStep)
    /\ \A c \in Clients : SF_vars(Acquire(c)) /\ WF_vars(CallStep(c))
    /\ \A r \in Requests : SF_vars(answer[r] = "open" /\ Answer(r))

FairSpec == Spec /\ Fairness

-----------------------------------------------------------------------------
(* Properties.                                                             *)

ConversationTypes ==
    /\ used \subseteq Requests /\ window \subseteq used /\ asked \subseteq used
    /\ executable \in [Tools -> {"unset", "yes", "no"}]
    /\ decision \in [Tools -> Decisions \cup {None}]
    /\ response \in [Tools -> {"cancelled", "declined", "result", None}]
    /\ last \in {"open", "settled", "error"} /\ providerNext \in BOOLEAN

WaitingTypes ==
    /\ answer \in [Requests -> {"open", "live", None} \cup Decisions]
    /\ live \subseteq LiveRequests /\ woken \in BOOLEAN

TurnTypes ==
    /\ turn \in {"idle", "top", "approving", "executing", "inferring", "arm", "check",
                "looked", "asleep"}
    /\ cancelled \in BOOLEAN
    /\ marks \subseteq Tools /\ needs \subseteq Tools /\ asking \in Tools \cup {None}
    /\ batch \subseteq Requests
    /\ resume \in {"none", "wait", "run"} /\ read \subseteq Requests

\* Steps of a submission under the lock, and the requests they carry.
Locked == {"routing", "reading", "appending", "recording"}

CallTypes ==
    /\ pc \in [Clients -> {"idle", "queued"} \cup Locked]
    /\ req \in [Clients -> Requests \cup {None}]
    /\ perm \in [Clients -> Permissions \cup {None}]
    /\ own \subseteq Clients
    /\ \A c \in Clients : pc[c] # "idle" => req[c] \in Requests /\ perm[c] \in Permissions
    /\ \A c \in Clients : pc[c] \in {"appending", "recording"} => req[c] \in Tools

HistoryTypes ==
    /\ runs \in [Tools -> Nat] /\ accepted \in [Requests -> SUBSET Permissions]
    /\ steered \in Nat /\ interruptions \in Nat

\* The types of every variable: a decision on disk is never the raw "cancel", an
\* approval of a provider never gets one.
TypeOK ==
    /\ ConversationTypes /\ WaitingTypes /\ TurnTypes /\ CallTypes /\ HistoryTypes

\* On disk, at every point a crash may strike: a tool request the user was asked
\* about is held unless the answer allows it. The hold is persisted before the
\* question (ToolApprovalOperation), lifted only by an allowing response.
PermissionGate ==
    \A r \in asked \cap Tools : executable[r] # "no" => decision[r] \in Allowing

\* A caller that was told Ok for a tool request finds its decision in the
\* conversation, then and ever after, whoever else answers (the submission lock
\* of submit_tool_confirmation). So two different answers are never both Ok.
AcceptedIsPersisted ==
    \A r \in Tools : \A p \in accepted[r] : decision[r] = Stored(p)

\* A tool is started again only after its response was lost to a dropped stream
\* or a crash (ToolExecutionOperation persists responses after the tools ran).
RerunsNeedInterruption == \A r \in Tools : runs[r] <= 1 + interruptions

\* The wait never sleeps through the last answer: once all are in, the Notified
\* it sleeps on has fired (enable() before the map is looked at).
NoLostWakeup == turn = "asleep" /\ AllAnswered => woken

Contract == INSTANCE ApprovalContract WITH
    Requests <- Tools,
    gated <- asked \cap Tools,
    dispatched <- {r \in Tools : runs[r] > 0}

\* The protocol implements ApprovalContract: the user is asked before a tool
\* runs, decides once, and the request gets one response, which fits.
KeepsContract == Contract!Spec

\* Every confirmation wait ends: with the answers, or because one was refused or
\* the turn cancelled.
WaitEnds == Waiting ~> ~Waiting
=============================================================================
