------------------------ MODULE ToolConfirmationProofs ------------------------
(***************************************************************************)
(* Proofs about ToolConfirmation, for any tool requests, provider          *)
(* approvals, clients and bounds.  The argument: a question is put only    *)
(* after its hold is on disk (HeldBeforeAsked); a submission between its   *)
(* read and its write is alone (LockHeld), so what it read still holds     *)
(* (ReadIsCurrent); what the map says was answered is what the disk says   *)
(* (AnswerIsPersisted); and a batch in execution is still what it was      *)
(* when it was computed (BatchIsDue).  ApprovalContract follows from these *)
(* step by step.                                                           *)
(***************************************************************************)
EXTENDS ToolConfirmation, TLAPS

\* The effects of a step live only while it is in progress.
EffectsAreOfStep ==
  /\ turn \notin {"approving", "executing", "inferring"} => batch = {}
  /\ turn # "approving" => marks = {} /\ needs = {} /\ asking = None
  /\ turn = "inferring" => batch \subseteq LiveRequests
  /\ turn = "executing" => batch \subseteq Tools
  /\ batch \subseteq used

\* What is to be held and asked about is open and has not been asked about.
NeedsAreFresh ==
  /\ \A r \in needs : r \in used /\ r \notin asked /\ response[r] = None
  /\ asking # None => /\ asking \in used /\ asking \notin asked /\ response[asking] = None
                      /\ asking \notin needs

HeldBeforeAsked == asking # None => marks = {} /\ executable[asking] = "no"

ResponsesAreUsed == \A r \in Tools : response[r] # None => r \in used

LockHeld == \A c, d \in Clients : pc[c] \in Locked /\ pc[d] \in Locked => c = d

ReadIsCurrent ==
  \A c \in Clients :
    /\ pc[c] = "appending" => decision[req[c]] = None
    /\ pc[c] \in {"appending", "recording"} => req[c] \in asked
    /\ pc[c] = "recording" => decision[req[c]] = Stored(perm[c])

AnswerIsPersisted == \A r \in Tools : answer[r] \in Decisions => decision[r] = answer[r]

\* A tool whose response is in has used its run; so has one being executed.
Spent(r) == response[r] # None \/ (turn = "executing" /\ r \in batch)

RunsAreCounted ==
  \A r \in Tools : runs[r] <= interruptions + 1 /\ (~Spent(r) => runs[r] <= interruptions)

\* The batch in execution is due: no answer that comes in changes that.
BatchIsDue ==
  turn = "executing" =>
    \A r \in batch :
      /\ response[r] = None
      /\ executable[r] = "no" /\ r \in asked => decision[r] \in Decisions \ Allowing
      /\ executable[r] # "no" => runs[r] > 0

LookedOrTold == turn \in {"looked", "asleep"} /\ AllAnswered => woken

IInv ==
  /\ TypeOK /\ EffectsAreOfStep /\ NeedsAreFresh /\ HeldBeforeAsked /\ ResponsesAreUsed
  /\ LockHeld /\ ReadIsCurrent /\ AnswerIsPersisted
  /\ PermissionGate /\ AcceptedIsPersisted /\ RunsAreCounted /\ BatchIsDue /\ LookedOrTold

-----------------------------------------------------------------------------
(* Who writes what.                                                        *)

\* The conversation is written by the turn and by AppendDecision.
LEMMA ConversationFrame ==
  ASSUME [Next]_vars
  PROVE  \/ UNCHANGED conversation
         \/ StartTurn
         \/ (\E r \in LiveRequests : LiveAsk(r))
         \/ StepCancelled
         \/ Steer
         \/ (\E r \in Tools : PersistMark(r))
         \/ (\E r \in Tools : PersistHold(r))
         \/ PersistAsk
         \/ CommitExecution
         \/ (\E new \in SUBSET Tools, failed \in BOOLEAN : CommitInference(new, failed))
         \/ (\E c \in Clients : AppendDecision(c))
<1>1. ASSUME ResumeRead \/ ResumeStart \/ Cancel \/ Arm PROVE UNCHANGED conversation
  BY <1>1 DEF ResumeRead, ResumeStart, Cancel, Arm, conversation, waiting, effects, resuming,
         calls, history
<1>2. ASSUME CheckAnswers \/ Sleep \/ WakeUp \/ WaitCancelled PROVE UNCHANGED conversation
  BY <1>2 DEF CheckAnswers, Sleep, WakeUp, WaitCancelled, EndTurn, conversation, waiting, effects,
         resuming, calls, history
<1>3. ASSUME \/ (\E denied, questioned \in SUBSET Tools : BeginApproval(denied, questioned))
             \/ Publish
             \/ BeginExecution
             \/ BeginInference
      PROVE  UNCHANGED conversation
  BY <1>3 DEF BeginApproval, Publish, BeginExecution, BeginInference, conversation, waiting,
         effects, resuming, calls, history
<1>4. ASSUME \/ RunEnds
             \/ (\E c \in Clients, r \in Requests, p \in Choices : Submit(c, r, p))
             \/ (\E c \in Clients : Acquire(c))
             \/ (\E c \in Clients : RouteLive(c))
      PROVE  UNCHANGED conversation
  BY <1>4 DEF RunEnds, Submit, Acquire, RouteLive, RunOver, EndTurn, Goto, ReturnOk, ReturnErr,
         NotifyWaiters, conversation, waiting, effects, resuming, calls, history
<1>5. ASSUME \/ (\E c \in Clients : RouteStateMachine(c))
             \/ (\E c \in Clients : ReadConversation(c))
             \/ (\E c \in Clients : RecordAnswer(c))
             \/ (\E c \in Clients : DropSubmission(c))
      PROVE  UNCHANGED conversation
  BY <1>5 DEF RouteStateMachine, ReadConversation, RecordAnswer, DropSubmission, Goto, ReturnErr,
         ReturnOk, NotifyWaiters, Interrupted, conversation, waiting, effects, resuming, calls,
         history
<1>6. ASSUME DropTurn \/ Crash PROVE UNCHANGED conversation
  BY <1>6 DEF DropTurn, Crash, Interrupted, EndTurn, conversation, waiting, effects, resuming,
         calls, history
<1> QED  BY <1>1, <1>2, <1>3, <1>4, <1>5, <1>6 DEF Next, WaitStep, RunStep, CallStep, Answer,
         vars, conversation, waiting, effects, resuming, calls, history

\* A request is asked about by PersistAsk, a provider's when its message is appended.
LEMMA AskedFrame ==
  ASSUME [Next]_vars
  PROVE  \/ UNCHANGED asked
         \/ PersistAsk
         \/ (\E new \in SUBSET Tools, failed \in BOOLEAN : CommitInference(new, failed))
<1>1. ASSUME StartTurn \/ ResumeRead \/ ResumeStart \/ Cancel PROVE UNCHANGED asked
  BY <1>1 DEF StartTurn, ResumeRead, ResumeStart, Cancel, conversation, waiting, effects,
         resuming, calls, history
<1>2. ASSUME Arm \/ CheckAnswers \/ Sleep \/ WakeUp PROVE UNCHANGED asked
  BY <1>2 DEF Arm, CheckAnswers, Sleep, WakeUp, EndTurn, conversation, waiting, effects, resuming,
         calls, history
<1>3. ASSUME \/ WaitCancelled
             \/ StepCancelled
             \/ Steer
             \/ (\E denied, questioned \in SUBSET Tools : BeginApproval(denied, questioned))
      PROVE  UNCHANGED asked
  BY <1>3 DEF WaitCancelled, StepCancelled, Steer, BeginApproval, EndTurn, RunOver, conversation,
         waiting, effects, resuming, calls, history
<1>4. ASSUME \/ (\E r \in Tools : PersistMark(r))
             \/ (\E r \in Tools : PersistHold(r))
             \/ Publish
             \/ BeginExecution
      PROVE  UNCHANGED asked
  BY <1>4 DEF PersistMark, PersistHold, Publish, BeginExecution, conversation, waiting, effects,
         resuming, calls, history
<1>5. ASSUME \/ CommitExecution
             \/ BeginInference
             \/ RunEnds
             \/ (\E r \in LiveRequests : LiveAsk(r))
      PROVE  UNCHANGED asked
  BY <1>5 DEF CommitExecution, BeginInference, RunEnds, LiveAsk, AfterStep, RunOver, EndTurn,
         conversation, waiting, effects, resuming, calls, history
<1>6. ASSUME \/ (\E c \in Clients, r \in Requests, p \in Choices : Submit(c, r, p))
             \/ (\E c \in Clients : Acquire(c))
             \/ (\E c \in Clients : RouteLive(c))
             \/ (\E c \in Clients : RouteStateMachine(c))
      PROVE  UNCHANGED asked
  BY <1>6 DEF Submit, Acquire, RouteLive, RouteStateMachine, Goto, ReturnOk, ReturnErr,
         NotifyWaiters, conversation, waiting, effects, resuming, calls, history
<1>7. ASSUME \/ (\E c \in Clients : ReadConversation(c))
             \/ (\E c \in Clients : AppendDecision(c))
             \/ (\E c \in Clients : RecordAnswer(c))
             \/ (\E c \in Clients : DropSubmission(c))
      PROVE  UNCHANGED asked
  BY <1>7 DEF ReadConversation, AppendDecision, RecordAnswer, DropSubmission, Goto, ReturnErr,
         ReturnOk, NotifyWaiters, Interrupted, conversation, waiting, effects, resuming, calls,
         history
<1>8. ASSUME DropTurn \/ Crash PROVE UNCHANGED asked
  BY <1>8 DEF DropTurn, Crash, Interrupted, EndTurn, conversation, waiting, effects, resuming,
         calls, history
<1> QED  BY <1>1, <1>2, <1>3, <1>4, <1>5, <1>6, <1>7, <1>8 DEF Next, WaitStep, RunStep, CallStep,
         Answer, vars, conversation, waiting, effects, resuming, calls, history

\* Marks are written one at a time.
LEMMA ExecutableFrame ==
  ASSUME [Next]_vars
  PROVE  \/ UNCHANGED executable
         \/ (\E r \in Tools : PersistMark(r))
         \/ (\E r \in Tools : PersistHold(r))
<1>1. ASSUME StartTurn \/ ResumeRead \/ ResumeStart \/ Cancel PROVE UNCHANGED executable
  BY <1>1 DEF StartTurn, ResumeRead, ResumeStart, Cancel, conversation, waiting, effects,
         resuming, calls, history
<1>2. ASSUME Arm \/ CheckAnswers \/ Sleep \/ WakeUp PROVE UNCHANGED executable
  BY <1>2 DEF Arm, CheckAnswers, Sleep, WakeUp, EndTurn, conversation, waiting, effects, resuming,
         calls, history
<1>3. ASSUME \/ WaitCancelled
             \/ StepCancelled
             \/ Steer
             \/ (\E denied, questioned \in SUBSET Tools : BeginApproval(denied, questioned))
      PROVE  UNCHANGED executable
  BY <1>3 DEF WaitCancelled, StepCancelled, Steer, BeginApproval, EndTurn, RunOver, conversation,
         waiting, effects, resuming, calls, history
<1>4. ASSUME PersistAsk \/ Publish \/ BeginExecution \/ CommitExecution PROVE UNCHANGED executable
  BY <1>4 DEF PersistAsk, Publish, BeginExecution, CommitExecution, AfterStep, RunOver, EndTurn,
         conversation, waiting, effects, resuming, calls, history
<1>5. ASSUME \/ BeginInference
             \/ (\E new \in SUBSET Tools, failed \in BOOLEAN : CommitInference(new, failed))
             \/ RunEnds
             \/ (\E r \in LiveRequests : LiveAsk(r))
      PROVE  UNCHANGED executable
  BY <1>5 DEF BeginInference, CommitInference, RunEnds, LiveAsk, AfterStep, RunOver, EndTurn,
         conversation, waiting, effects, resuming, calls, history
<1>6. ASSUME \/ (\E c \in Clients, r \in Requests, p \in Choices : Submit(c, r, p))
             \/ (\E c \in Clients : Acquire(c))
             \/ (\E c \in Clients : RouteLive(c))
             \/ (\E c \in Clients : RouteStateMachine(c))
      PROVE  UNCHANGED executable
  BY <1>6 DEF Submit, Acquire, RouteLive, RouteStateMachine, Goto, ReturnOk, ReturnErr,
         NotifyWaiters, conversation, waiting, effects, resuming, calls, history
<1>7. ASSUME \/ (\E c \in Clients : ReadConversation(c))
             \/ (\E c \in Clients : AppendDecision(c))
             \/ (\E c \in Clients : RecordAnswer(c))
             \/ (\E c \in Clients : DropSubmission(c))
      PROVE  UNCHANGED executable
  BY <1>7 DEF ReadConversation, AppendDecision, RecordAnswer, DropSubmission, Goto, ReturnErr,
         ReturnOk, NotifyWaiters, Interrupted, conversation, waiting, effects, resuming, calls,
         history
<1>8. ASSUME DropTurn \/ Crash PROVE UNCHANGED executable
  BY <1>8 DEF DropTurn, Crash, Interrupted, EndTurn, conversation, waiting, effects, resuming,
         calls, history
<1> QED  BY <1>1, <1>2, <1>3, <1>4, <1>5, <1>6, <1>7, <1>8 DEF Next, WaitStep, RunStep, CallStep,
         Answer, vars, conversation, waiting, effects, resuming, calls, history

\* The user's decision has one writer.
LEMMA DecisionFrame ==
  ASSUME [Next]_vars
  PROVE  \/ UNCHANGED decision
         \/ (\E c \in Clients : AppendDecision(c))
<1>1. ASSUME StartTurn \/ ResumeRead \/ ResumeStart \/ Cancel PROVE UNCHANGED decision
  BY <1>1 DEF StartTurn, ResumeRead, ResumeStart, Cancel, conversation, waiting, effects,
         resuming, calls, history
<1>2. ASSUME Arm \/ CheckAnswers \/ Sleep \/ WakeUp PROVE UNCHANGED decision
  BY <1>2 DEF Arm, CheckAnswers, Sleep, WakeUp, EndTurn, conversation, waiting, effects, resuming,
         calls, history
<1>3. ASSUME \/ WaitCancelled
             \/ StepCancelled
             \/ Steer
             \/ (\E denied, questioned \in SUBSET Tools : BeginApproval(denied, questioned))
      PROVE  UNCHANGED decision
  BY <1>3 DEF WaitCancelled, StepCancelled, Steer, BeginApproval, EndTurn, RunOver, conversation,
         waiting, effects, resuming, calls, history
<1>4. ASSUME \/ (\E r \in Tools : PersistMark(r))
             \/ (\E r \in Tools : PersistHold(r))
             \/ PersistAsk
             \/ Publish
      PROVE  UNCHANGED decision
  BY <1>4 DEF PersistMark, PersistHold, PersistAsk, Publish, conversation, waiting, effects,
         resuming, calls, history
<1>5. ASSUME \/ BeginExecution
             \/ CommitExecution
             \/ BeginInference
             \/ (\E new \in SUBSET Tools, failed \in BOOLEAN : CommitInference(new, failed))
      PROVE  UNCHANGED decision
  BY <1>5 DEF BeginExecution, CommitExecution, BeginInference, CommitInference, AfterStep,
         RunOver, EndTurn, conversation, waiting, effects, resuming, calls, history
<1>6. ASSUME \/ RunEnds
             \/ (\E r \in LiveRequests : LiveAsk(r))
             \/ (\E c \in Clients, r \in Requests, p \in Choices : Submit(c, r, p))
             \/ (\E c \in Clients : Acquire(c))
      PROVE  UNCHANGED decision
  BY <1>6 DEF RunEnds, LiveAsk, Submit, Acquire, RunOver, EndTurn, Goto, ReturnOk, ReturnErr,
         conversation, waiting, effects, resuming, calls, history
<1>7. ASSUME \/ (\E c \in Clients : RouteLive(c))
             \/ (\E c \in Clients : RouteStateMachine(c))
             \/ (\E c \in Clients : ReadConversation(c))
             \/ (\E c \in Clients : RecordAnswer(c))
      PROVE  UNCHANGED decision
  BY <1>7 DEF RouteLive, RouteStateMachine, ReadConversation, RecordAnswer, ReturnOk,
         NotifyWaiters, Goto, ReturnErr, conversation, waiting, effects, resuming, calls, history
<1>8. ASSUME \/ (\E c \in Clients : DropSubmission(c))
             \/ DropTurn
             \/ Crash
      PROVE  UNCHANGED decision
  BY <1>8 DEF DropSubmission, DropTurn, Crash, Interrupted, EndTurn, conversation, waiting,
         effects, resuming, calls, history
<1> QED  BY <1>1, <1>2, <1>3, <1>4, <1>5, <1>6, <1>7, <1>8 DEF Next, WaitStep, RunStep, CallStep,
         Answer, vars, conversation, waiting, effects, resuming, calls, history

\* Responses are written by the turn.
LEMMA ResponseFrame ==
  ASSUME [Next]_vars
  PROVE  \/ UNCHANGED response
         \/ StepCancelled
         \/ CommitExecution
         \/ (\E new \in SUBSET Tools, failed \in BOOLEAN : CommitInference(new, failed))
<1>1. ASSUME StartTurn \/ ResumeRead \/ ResumeStart \/ Cancel PROVE UNCHANGED response
  BY <1>1 DEF StartTurn, ResumeRead, ResumeStart, Cancel, conversation, waiting, effects,
         resuming, calls, history
<1>2. ASSUME Arm \/ CheckAnswers \/ Sleep \/ WakeUp PROVE UNCHANGED response
  BY <1>2 DEF Arm, CheckAnswers, Sleep, WakeUp, EndTurn, conversation, waiting, effects, resuming,
         calls, history
<1>3. ASSUME \/ WaitCancelled
             \/ Steer
             \/ (\E denied, questioned \in SUBSET Tools : BeginApproval(denied, questioned))
             \/ (\E r \in Tools : PersistMark(r))
      PROVE  UNCHANGED response
  BY <1>3 DEF WaitCancelled, Steer, BeginApproval, PersistMark, EndTurn, conversation, waiting,
         effects, resuming, calls, history
<1>4. ASSUME \/ (\E r \in Tools : PersistHold(r))
             \/ PersistAsk
             \/ Publish
             \/ BeginExecution
      PROVE  UNCHANGED response
  BY <1>4 DEF PersistHold, PersistAsk, Publish, BeginExecution, conversation, waiting, effects,
         resuming, calls, history
<1>5. ASSUME \/ BeginInference
             \/ RunEnds
             \/ (\E r \in LiveRequests : LiveAsk(r))
             \/ (\E c \in Clients, r \in Requests, p \in Choices : Submit(c, r, p))
      PROVE  UNCHANGED response
  BY <1>5 DEF BeginInference, RunEnds, LiveAsk, Submit, RunOver, EndTurn, conversation, waiting,
         effects, resuming, calls, history
<1>6. ASSUME \/ (\E c \in Clients : Acquire(c))
             \/ (\E c \in Clients : RouteLive(c))
             \/ (\E c \in Clients : RouteStateMachine(c))
             \/ (\E c \in Clients : ReadConversation(c))
      PROVE  UNCHANGED response
  BY <1>6 DEF Acquire, RouteLive, RouteStateMachine, ReadConversation, Goto, ReturnOk, ReturnErr,
         NotifyWaiters, conversation, waiting, effects, resuming, calls, history
<1>7. ASSUME \/ (\E c \in Clients : AppendDecision(c))
             \/ (\E c \in Clients : RecordAnswer(c))
             \/ (\E c \in Clients : DropSubmission(c))
             \/ DropTurn
      PROVE  UNCHANGED response
  BY <1>7 DEF AppendDecision, RecordAnswer, DropSubmission, DropTurn, Goto, ReturnOk, ReturnErr,
         NotifyWaiters, Interrupted, EndTurn, conversation, waiting, effects, resuming, calls,
         history
<1>8. ASSUME Crash PROVE UNCHANGED response
  BY <1>8 DEF Crash, Interrupted, conversation, waiting, effects, resuming, calls, history
<1> QED  BY <1>1, <1>2, <1>3, <1>4, <1>5, <1>6, <1>7, <1>8 DEF Next, WaitStep, RunStep, CallStep,
         Answer, vars, conversation, waiting, effects, resuming, calls, history

\* Requests are made by an inference.
LEMMA UsedFrame ==
  ASSUME [Next]_vars
  PROVE  \/ UNCHANGED used
         \/ (\E r \in LiveRequests : LiveAsk(r))
         \/ (\E new \in SUBSET Tools, failed \in BOOLEAN : CommitInference(new, failed))
<1>1. ASSUME StartTurn \/ ResumeRead \/ ResumeStart \/ Cancel PROVE UNCHANGED used
  BY <1>1 DEF StartTurn, ResumeRead, ResumeStart, Cancel, conversation, waiting, effects,
         resuming, calls, history
<1>2. ASSUME Arm \/ CheckAnswers \/ Sleep \/ WakeUp PROVE UNCHANGED used
  BY <1>2 DEF Arm, CheckAnswers, Sleep, WakeUp, EndTurn, conversation, waiting, effects, resuming,
         calls, history
<1>3. ASSUME \/ WaitCancelled
             \/ StepCancelled
             \/ Steer
             \/ (\E denied, questioned \in SUBSET Tools : BeginApproval(denied, questioned))
      PROVE  UNCHANGED used
  BY <1>3 DEF WaitCancelled, StepCancelled, Steer, BeginApproval, EndTurn, RunOver, conversation,
         waiting, effects, resuming, calls, history
<1>4. ASSUME \/ (\E r \in Tools : PersistMark(r))
             \/ (\E r \in Tools : PersistHold(r))
             \/ PersistAsk
             \/ Publish
      PROVE  UNCHANGED used
  BY <1>4 DEF PersistMark, PersistHold, PersistAsk, Publish, conversation, waiting, effects,
         resuming, calls, history
<1>5. ASSUME BeginExecution \/ CommitExecution \/ BeginInference \/ RunEnds PROVE UNCHANGED used
  BY <1>5 DEF BeginExecution, CommitExecution, BeginInference, RunEnds, AfterStep, RunOver,
         EndTurn, conversation, waiting, effects, resuming, calls, history
<1>6. ASSUME \/ (\E c \in Clients, r \in Requests, p \in Choices : Submit(c, r, p))
             \/ (\E c \in Clients : Acquire(c))
             \/ (\E c \in Clients : RouteLive(c))
             \/ (\E c \in Clients : RouteStateMachine(c))
      PROVE  UNCHANGED used
  BY <1>6 DEF Submit, Acquire, RouteLive, RouteStateMachine, Goto, ReturnOk, ReturnErr,
         NotifyWaiters, conversation, waiting, effects, resuming, calls, history
<1>7. ASSUME \/ (\E c \in Clients : ReadConversation(c))
             \/ (\E c \in Clients : AppendDecision(c))
             \/ (\E c \in Clients : RecordAnswer(c))
             \/ (\E c \in Clients : DropSubmission(c))
      PROVE  UNCHANGED used
  BY <1>7 DEF ReadConversation, AppendDecision, RecordAnswer, DropSubmission, Goto, ReturnErr,
         ReturnOk, NotifyWaiters, Interrupted, conversation, waiting, effects, resuming, calls,
         history
<1>8. ASSUME DropTurn \/ Crash PROVE UNCHANGED used
  BY <1>8 DEF DropTurn, Crash, Interrupted, EndTurn, conversation, waiting, effects, resuming,
         calls, history
<1> QED  BY <1>1, <1>2, <1>3, <1>4, <1>5, <1>6, <1>7, <1>8 DEF Next, WaitStep, RunStep, CallStep,
         Answer, vars, conversation, waiting, effects, resuming, calls, history

\* The confirmations map, live and woken.
LEMMA WaitingFrame ==
  ASSUME [Next]_vars
  PROVE  \/ UNCHANGED waiting
         \/ ResumeStart
         \/ CheckAnswers
         \/ WakeUp
         \/ WaitCancelled
         \/ StepCancelled
         \/ Publish
         \/ CommitExecution
         \/ (\E r \in LiveRequests : LiveAsk(r))
         \/ (\E new \in SUBSET Tools, failed \in BOOLEAN : CommitInference(new, failed))
         \/ RunEnds
         \/ (\E c \in Clients : RouteLive(c))
         \/ (\E c \in Clients : RecordAnswer(c))
         \/ DropTurn
         \/ Crash
<1>1. ASSUME StartTurn \/ ResumeRead \/ Cancel \/ Arm PROVE UNCHANGED waiting
  BY <1>1 DEF StartTurn, ResumeRead, Cancel, Arm, conversation, waiting, effects, resuming, calls,
         history
<1>2. ASSUME \/ Sleep
             \/ Steer
             \/ (\E denied, questioned \in SUBSET Tools : BeginApproval(denied, questioned))
             \/ (\E r \in Tools : PersistMark(r))
      PROVE  UNCHANGED waiting
  BY <1>2 DEF Sleep, Steer, BeginApproval, PersistMark, conversation, waiting, effects, resuming,
         calls, history
<1>3. ASSUME \/ (\E r \in Tools : PersistHold(r))
             \/ PersistAsk
             \/ BeginExecution
             \/ BeginInference
      PROVE  UNCHANGED waiting
  BY <1>3 DEF PersistHold, PersistAsk, BeginExecution, BeginInference, conversation, waiting,
         effects, resuming, calls, history
<1>4. ASSUME \/ (\E c \in Clients, r \in Requests, p \in Choices : Submit(c, r, p))
             \/ (\E c \in Clients : Acquire(c))
             \/ (\E c \in Clients : RouteStateMachine(c))
             \/ (\E c \in Clients : ReadConversation(c))
      PROVE  UNCHANGED waiting
  BY <1>4 DEF Submit, Acquire, RouteStateMachine, ReadConversation, Goto, ReturnOk, ReturnErr,
         conversation, waiting, effects, resuming, calls, history
<1>5. ASSUME \/ (\E c \in Clients : AppendDecision(c))
             \/ (\E c \in Clients : DropSubmission(c))
      PROVE  UNCHANGED waiting
  BY <1>5 DEF AppendDecision, DropSubmission, Goto, Interrupted, conversation, waiting, effects,
         resuming, calls, history
<1> QED  BY <1>1, <1>2, <1>3, <1>4, <1>5 DEF Next, WaitStep, RunStep, CallStep, Answer, vars,
         conversation, waiting, effects, resuming, calls, history

\* Where the turn is, and the effects it has yet to persist.
LEMMA EffectsFrame ==
  ASSUME [Next]_vars
  PROVE  \/ UNCHANGED <<turn, effects>>
         \/ StartTurn
         \/ ResumeStart
         \/ Arm
         \/ CheckAnswers
         \/ Sleep
         \/ WakeUp
         \/ WaitCancelled
         \/ StepCancelled
         \/ (\E denied, questioned \in SUBSET Tools : BeginApproval(denied, questioned))
         \/ (\E r \in Tools : PersistMark(r))
         \/ (\E r \in Tools : PersistHold(r))
         \/ PersistAsk
         \/ Publish
         \/ BeginExecution
         \/ CommitExecution
         \/ BeginInference
         \/ (\E new \in SUBSET Tools, failed \in BOOLEAN : CommitInference(new, failed))
         \/ RunEnds
         \/ (\E r \in LiveRequests : LiveAsk(r))
         \/ DropTurn
         \/ Crash
<1>1. ASSUME \/ ResumeRead
             \/ Cancel
             \/ Steer
             \/ (\E c \in Clients, r \in Requests, p \in Choices : Submit(c, r, p))
      PROVE  UNCHANGED <<turn, effects>>
  BY <1>1 DEF ResumeRead, Cancel, Steer, Submit, conversation, waiting, effects, resuming, calls,
         history
<1>2. ASSUME \/ (\E c \in Clients : Acquire(c))
             \/ (\E c \in Clients : RouteLive(c))
             \/ (\E c \in Clients : RouteStateMachine(c))
             \/ (\E c \in Clients : ReadConversation(c))
      PROVE  UNCHANGED <<turn, effects>>
  BY <1>2 DEF Acquire, RouteLive, RouteStateMachine, ReadConversation, Goto, ReturnOk, ReturnErr,
         NotifyWaiters, conversation, waiting, effects, resuming, calls, history
<1>3. ASSUME \/ (\E c \in Clients : AppendDecision(c))
             \/ (\E c \in Clients : RecordAnswer(c))
             \/ (\E c \in Clients : DropSubmission(c))
      PROVE  UNCHANGED <<turn, effects>>
  BY <1>3 DEF AppendDecision, RecordAnswer, DropSubmission, Goto, ReturnOk, ReturnErr,
         NotifyWaiters, Interrupted, conversation, waiting, effects, resuming, calls, history
<1> QED  BY <1>1, <1>2, <1>3 DEF Next, WaitStep, RunStep, CallStep, Answer, vars, conversation,
         waiting, effects, resuming, calls, history

\* The submissions.
LEMMA CallsFrame ==
  ASSUME [Next]_vars
  PROVE  \/ UNCHANGED calls
         \/ (\E c \in Clients, r \in Requests, p \in Choices : Submit(c, r, p))
         \/ (\E c \in Clients : Acquire(c))
         \/ (\E c \in Clients : RouteLive(c))
         \/ (\E c \in Clients : RouteStateMachine(c))
         \/ (\E c \in Clients : ReadConversation(c))
         \/ (\E c \in Clients : AppendDecision(c))
         \/ (\E c \in Clients : RecordAnswer(c))
         \/ (\E c \in Clients : DropSubmission(c))
         \/ Crash
<1>1. ASSUME StartTurn \/ ResumeRead \/ ResumeStart \/ Cancel PROVE UNCHANGED calls
  BY <1>1 DEF StartTurn, ResumeRead, ResumeStart, Cancel, conversation, waiting, effects,
         resuming, calls, history
<1>2. ASSUME Arm \/ CheckAnswers \/ Sleep \/ WakeUp PROVE UNCHANGED calls
  BY <1>2 DEF Arm, CheckAnswers, Sleep, WakeUp, EndTurn, conversation, waiting, effects, resuming,
         calls, history
<1>3. ASSUME \/ WaitCancelled
             \/ StepCancelled
             \/ Steer
             \/ (\E denied, questioned \in SUBSET Tools : BeginApproval(denied, questioned))
      PROVE  UNCHANGED calls
  BY <1>3 DEF WaitCancelled, StepCancelled, Steer, BeginApproval, EndTurn, RunOver, conversation,
         waiting, effects, resuming, calls, history
<1>4. ASSUME \/ (\E r \in Tools : PersistMark(r))
             \/ (\E r \in Tools : PersistHold(r))
             \/ PersistAsk
             \/ Publish
      PROVE  UNCHANGED calls
  BY <1>4 DEF PersistMark, PersistHold, PersistAsk, Publish, conversation, waiting, effects,
         resuming, calls, history
<1>5. ASSUME \/ BeginExecution
             \/ CommitExecution
             \/ BeginInference
             \/ (\E new \in SUBSET Tools, failed \in BOOLEAN : CommitInference(new, failed))
      PROVE  UNCHANGED calls
  BY <1>5 DEF BeginExecution, CommitExecution, BeginInference, CommitInference, AfterStep,
         RunOver, EndTurn, conversation, waiting, effects, resuming, calls, history
<1>6. ASSUME \/ RunEnds
             \/ (\E r \in LiveRequests : LiveAsk(r))
             \/ DropTurn
      PROVE  UNCHANGED calls
  BY <1>6 DEF RunEnds, LiveAsk, DropTurn, RunOver, EndTurn, Interrupted, conversation, waiting,
         effects, resuming, calls, history
<1> QED  BY <1>1, <1>2, <1>3, <1>4, <1>5, <1>6 DEF Next, WaitStep, RunStep, CallStep, Answer,
         vars, conversation, waiting, effects, resuming, calls, history

\* The history.
LEMMA HistoryFrame ==
  ASSUME [Next]_vars
  PROVE  \/ UNCHANGED history
         \/ Steer
         \/ BeginExecution
         \/ DropTurn
         \/ (\E c \in Clients : DropSubmission(c))
         \/ Crash
         \/ (\E c \in Clients : Acquire(c))
         \/ (\E c \in Clients : RouteLive(c))
         \/ (\E c \in Clients : RecordAnswer(c))
<1>1. ASSUME StartTurn \/ ResumeRead \/ ResumeStart \/ Cancel PROVE UNCHANGED history
  BY <1>1 DEF StartTurn, ResumeRead, ResumeStart, Cancel, conversation, waiting, effects,
         resuming, calls, history
<1>2. ASSUME Arm \/ CheckAnswers \/ Sleep \/ WakeUp PROVE UNCHANGED history
  BY <1>2 DEF Arm, CheckAnswers, Sleep, WakeUp, EndTurn, conversation, waiting, effects, resuming,
         calls, history
<1>3. ASSUME \/ WaitCancelled
             \/ StepCancelled
             \/ (\E denied, questioned \in SUBSET Tools : BeginApproval(denied, questioned))
             \/ (\E r \in Tools : PersistMark(r))
      PROVE  UNCHANGED history
  BY <1>3 DEF WaitCancelled, StepCancelled, BeginApproval, PersistMark, EndTurn, RunOver,
         conversation, waiting, effects, resuming, calls, history
<1>4. ASSUME \/ (\E r \in Tools : PersistHold(r))
             \/ PersistAsk
             \/ Publish
             \/ CommitExecution
      PROVE  UNCHANGED history
  BY <1>4 DEF PersistHold, PersistAsk, Publish, CommitExecution, AfterStep, RunOver, EndTurn,
         conversation, waiting, effects, resuming, calls, history
<1>5. ASSUME \/ BeginInference
             \/ (\E new \in SUBSET Tools, failed \in BOOLEAN : CommitInference(new, failed))
             \/ RunEnds
             \/ (\E r \in LiveRequests : LiveAsk(r))
      PROVE  UNCHANGED history
  BY <1>5 DEF BeginInference, CommitInference, RunEnds, LiveAsk, AfterStep, RunOver, EndTurn,
         conversation, waiting, effects, resuming, calls, history
<1>6. ASSUME \/ (\E c \in Clients, r \in Requests, p \in Choices : Submit(c, r, p))
             \/ (\E c \in Clients : RouteStateMachine(c))
             \/ (\E c \in Clients : ReadConversation(c))
             \/ (\E c \in Clients : AppendDecision(c))
      PROVE  UNCHANGED history
  BY <1>6 DEF Submit, RouteStateMachine, ReadConversation, AppendDecision, Goto, ReturnErr,
         conversation, waiting, effects, resuming, calls, history
<1> QED  BY <1>1, <1>2, <1>3, <1>4, <1>5, <1>6 DEF Next, WaitStep, RunStep, CallStep, Answer,
         vars, conversation, waiting, effects, resuming, calls, history

\* A tool is started with its batch.
LEMMA StartedFrame ==
  ASSUME [Next]_vars
  PROVE  \/ UNCHANGED runs
         \/ BeginExecution
<1>1. ASSUME StartTurn \/ ResumeRead \/ ResumeStart \/ Cancel PROVE UNCHANGED runs
  BY <1>1 DEF StartTurn, ResumeRead, ResumeStart, Cancel, conversation, waiting, effects,
         resuming, calls, history
<1>2. ASSUME Arm \/ CheckAnswers \/ Sleep \/ WakeUp PROVE UNCHANGED runs
  BY <1>2 DEF Arm, CheckAnswers, Sleep, WakeUp, EndTurn, conversation, waiting, effects, resuming,
         calls, history
<1>3. ASSUME \/ WaitCancelled
             \/ StepCancelled
             \/ Steer
             \/ (\E denied, questioned \in SUBSET Tools : BeginApproval(denied, questioned))
      PROVE  UNCHANGED runs
  BY <1>3 DEF WaitCancelled, StepCancelled, Steer, BeginApproval, EndTurn, RunOver, conversation,
         waiting, effects, resuming, calls, history
<1>4. ASSUME \/ (\E r \in Tools : PersistMark(r))
             \/ (\E r \in Tools : PersistHold(r))
             \/ PersistAsk
             \/ Publish
      PROVE  UNCHANGED runs
  BY <1>4 DEF PersistMark, PersistHold, PersistAsk, Publish, conversation, waiting, effects,
         resuming, calls, history
<1>5. ASSUME \/ CommitExecution
             \/ BeginInference
             \/ (\E new \in SUBSET Tools, failed \in BOOLEAN : CommitInference(new, failed))
             \/ RunEnds
      PROVE  UNCHANGED runs
  BY <1>5 DEF CommitExecution, BeginInference, CommitInference, RunEnds, AfterStep, RunOver,
         EndTurn, conversation, waiting, effects, resuming, calls, history
<1>6. ASSUME \/ (\E r \in LiveRequests : LiveAsk(r))
             \/ (\E c \in Clients, r \in Requests, p \in Choices : Submit(c, r, p))
             \/ (\E c \in Clients : Acquire(c))
             \/ (\E c \in Clients : RouteLive(c))
      PROVE  UNCHANGED runs
  BY <1>6 DEF LiveAsk, Submit, Acquire, RouteLive, Goto, ReturnOk, ReturnErr, NotifyWaiters,
         conversation, waiting, effects, resuming, calls, history
<1>7. ASSUME \/ (\E c \in Clients : RouteStateMachine(c))
             \/ (\E c \in Clients : ReadConversation(c))
             \/ (\E c \in Clients : AppendDecision(c))
             \/ (\E c \in Clients : RecordAnswer(c))
      PROVE  UNCHANGED runs
  BY <1>7 DEF RouteStateMachine, ReadConversation, AppendDecision, RecordAnswer, Goto, ReturnErr,
         ReturnOk, NotifyWaiters, conversation, waiting, effects, resuming, calls, history
<1>8. ASSUME \/ (\E c \in Clients : DropSubmission(c))
             \/ DropTurn
             \/ Crash
      PROVE  UNCHANGED runs
  BY <1>8 DEF DropSubmission, DropTurn, Crash, Interrupted, EndTurn, conversation, waiting,
         effects, resuming, calls, history
<1> QED  BY <1>1, <1>2, <1>3, <1>4, <1>5, <1>6, <1>7, <1>8 DEF Next, WaitStep, RunStep, CallStep,
         Answer, vars, conversation, waiting, effects, resuming, calls, history

\* Runs are counted when a batch is started.
LEMMA RunsFrame ==
  ASSUME [Next]_vars
  PROVE  \/ UNCHANGED <<runs, interruptions>>
         \/ BeginExecution
         \/ DropTurn
         \/ (\E c \in Clients : DropSubmission(c))
         \/ Crash
<1>1. ASSUME StartTurn \/ ResumeRead \/ ResumeStart \/ Cancel PROVE UNCHANGED <<runs, interruptions>>
  BY <1>1 DEF StartTurn, ResumeRead, ResumeStart, Cancel, conversation, waiting, effects,
         resuming, calls, history
<1>2. ASSUME Arm \/ CheckAnswers \/ Sleep \/ WakeUp PROVE UNCHANGED <<runs, interruptions>>
  BY <1>2 DEF Arm, CheckAnswers, Sleep, WakeUp, EndTurn, conversation, waiting, effects, resuming,
         calls, history
<1>3. ASSUME \/ WaitCancelled
             \/ StepCancelled
             \/ Steer
             \/ (\E denied, questioned \in SUBSET Tools : BeginApproval(denied, questioned))
      PROVE  UNCHANGED <<runs, interruptions>>
  BY <1>3 DEF WaitCancelled, StepCancelled, Steer, BeginApproval, EndTurn, RunOver, conversation,
         waiting, effects, resuming, calls, history
<1>4. ASSUME \/ (\E r \in Tools : PersistMark(r))
             \/ (\E r \in Tools : PersistHold(r))
             \/ PersistAsk
             \/ Publish
      PROVE  UNCHANGED <<runs, interruptions>>
  BY <1>4 DEF PersistMark, PersistHold, PersistAsk, Publish, conversation, waiting, effects,
         resuming, calls, history
<1>5. ASSUME \/ CommitExecution
             \/ BeginInference
             \/ (\E new \in SUBSET Tools, failed \in BOOLEAN : CommitInference(new, failed))
             \/ RunEnds
      PROVE  UNCHANGED <<runs, interruptions>>
  BY <1>5 DEF CommitExecution, BeginInference, CommitInference, RunEnds, AfterStep, RunOver,
         EndTurn, conversation, waiting, effects, resuming, calls, history
<1>6. ASSUME \/ (\E r \in LiveRequests : LiveAsk(r))
             \/ (\E c \in Clients, r \in Requests, p \in Choices : Submit(c, r, p))
             \/ (\E c \in Clients : Acquire(c))
             \/ (\E c \in Clients : RouteLive(c))
      PROVE  UNCHANGED <<runs, interruptions>>
  BY <1>6 DEF LiveAsk, Submit, Acquire, RouteLive, Goto, ReturnOk, ReturnErr, NotifyWaiters,
         conversation, waiting, effects, resuming, calls, history
<1>7. ASSUME \/ (\E c \in Clients : RouteStateMachine(c))
             \/ (\E c \in Clients : ReadConversation(c))
             \/ (\E c \in Clients : AppendDecision(c))
             \/ (\E c \in Clients : RecordAnswer(c))
      PROVE  UNCHANGED <<runs, interruptions>>
  BY <1>7 DEF RouteStateMachine, ReadConversation, AppendDecision, RecordAnswer, Goto, ReturnErr,
         ReturnOk, NotifyWaiters, conversation, waiting, effects, resuming, calls, history
<1> QED  BY <1>1, <1>2, <1>3, <1>4, <1>5, <1>6, <1>7 DEF Next, WaitStep, RunStep, CallStep,
         Answer, vars, conversation, waiting, effects, resuming, calls, history

\* A submission returns Ok in three places.
LEMMA AcceptedFrame ==
  ASSUME [Next]_vars
  PROVE  \/ UNCHANGED accepted
         \/ (\E c \in Clients : Acquire(c))
         \/ (\E c \in Clients : RouteLive(c))
         \/ (\E c \in Clients : RecordAnswer(c))
<1>1. ASSUME StartTurn \/ ResumeRead \/ ResumeStart \/ Cancel PROVE UNCHANGED accepted
  BY <1>1 DEF StartTurn, ResumeRead, ResumeStart, Cancel, conversation, waiting, effects,
         resuming, calls, history
<1>2. ASSUME Arm \/ CheckAnswers \/ Sleep \/ WakeUp PROVE UNCHANGED accepted
  BY <1>2 DEF Arm, CheckAnswers, Sleep, WakeUp, EndTurn, conversation, waiting, effects, resuming,
         calls, history
<1>3. ASSUME \/ WaitCancelled
             \/ StepCancelled
             \/ Steer
             \/ (\E denied, questioned \in SUBSET Tools : BeginApproval(denied, questioned))
      PROVE  UNCHANGED accepted
  BY <1>3 DEF WaitCancelled, StepCancelled, Steer, BeginApproval, EndTurn, RunOver, conversation,
         waiting, effects, resuming, calls, history
<1>4. ASSUME \/ (\E r \in Tools : PersistMark(r))
             \/ (\E r \in Tools : PersistHold(r))
             \/ PersistAsk
             \/ Publish
      PROVE  UNCHANGED accepted
  BY <1>4 DEF PersistMark, PersistHold, PersistAsk, Publish, conversation, waiting, effects,
         resuming, calls, history
<1>5. ASSUME \/ BeginExecution
             \/ CommitExecution
             \/ BeginInference
             \/ (\E new \in SUBSET Tools, failed \in BOOLEAN : CommitInference(new, failed))
      PROVE  UNCHANGED accepted
  BY <1>5 DEF BeginExecution, CommitExecution, BeginInference, CommitInference, AfterStep,
         RunOver, EndTurn, conversation, waiting, effects, resuming, calls, history
<1>6. ASSUME \/ RunEnds
             \/ (\E r \in LiveRequests : LiveAsk(r))
             \/ (\E c \in Clients, r \in Requests, p \in Choices : Submit(c, r, p))
             \/ (\E c \in Clients : RouteStateMachine(c))
      PROVE  UNCHANGED accepted
  BY <1>6 DEF RunEnds, LiveAsk, Submit, RouteStateMachine, RunOver, EndTurn, Goto, ReturnErr,
         conversation, waiting, effects, resuming, calls, history
<1>7. ASSUME \/ (\E c \in Clients : ReadConversation(c))
             \/ (\E c \in Clients : AppendDecision(c))
             \/ (\E c \in Clients : DropSubmission(c))
             \/ DropTurn
      PROVE  UNCHANGED accepted
  BY <1>7 DEF ReadConversation, AppendDecision, DropSubmission, DropTurn, Goto, ReturnErr,
         Interrupted, EndTurn, conversation, waiting, effects, resuming, calls, history
<1>8. ASSUME Crash PROVE UNCHANGED accepted
  BY <1>8 DEF Crash, Interrupted, conversation, waiting, effects, resuming, calls, history
<1> QED  BY <1>1, <1>2, <1>3, <1>4, <1>5, <1>6, <1>7, <1>8 DEF Next, WaitStep, RunStep, CallStep,
         Answer, vars, conversation, waiting, effects, resuming, calls, history

\* The conversion of the user's choice, and what it cannot be.
LEMMA StoredIsDecision ==
  /\ \A p \in Permissions : Stored(p) \in Decisions
  /\ None \notin Decisions /\ "open" \notin Decisions /\ "live" \notin Decisions
  /\ None \notin Allowing
BY ToolConfirmationAssumption DEF Permissions, Decisions, Allowing, Stored

-----------------------------------------------------------------------------
(* Every step preserves every part of IInv.                                *)

\* Everything of the turn but its map.
LEMMA TurnVarsFrame ==
  ASSUME [Next]_vars
  PROVE  \/ UNCHANGED <<turn, cancelled, effects, resuming>>
         \/ StartTurn
         \/ ResumeRead
         \/ ResumeStart
         \/ Cancel
         \/ Arm
         \/ CheckAnswers
         \/ Sleep
         \/ WakeUp
         \/ WaitCancelled
         \/ StepCancelled
         \/ (\E denied, questioned \in SUBSET Tools : BeginApproval(denied, questioned))
         \/ (\E r \in Tools : PersistMark(r))
         \/ (\E r \in Tools : PersistHold(r))
         \/ PersistAsk
         \/ Publish
         \/ BeginExecution
         \/ CommitExecution
         \/ BeginInference
         \/ (\E new \in SUBSET Tools, failed \in BOOLEAN : CommitInference(new, failed))
         \/ RunEnds
         \/ (\E r \in LiveRequests : LiveAsk(r))
         \/ (\E c \in Clients : Acquire(c))
         \/ (\E c \in Clients : RouteLive(c))
         \/ (\E c \in Clients : RouteStateMachine(c))
         \/ (\E c \in Clients : ReadConversation(c))
         \/ (\E c \in Clients : RecordAnswer(c))
         \/ DropTurn
         \/ Crash
<1>1. ASSUME \/ Steer
             \/ (\E c \in Clients, r \in Requests, p \in Choices : Submit(c, r, p))
             \/ (\E c \in Clients : AppendDecision(c))
             \/ (\E c \in Clients : DropSubmission(c))
      PROVE  UNCHANGED <<turn, cancelled, effects, resuming>>
  BY <1>1 DEF Steer, Submit, AppendDecision, DropSubmission, Goto, Interrupted, conversation,
         waiting, effects, resuming, calls, history
<1> QED  BY <1>1 DEF Next, WaitStep, RunStep, CallStep, Answer, vars, conversation, waiting,
         effects, resuming, calls, history

\* The submissions, and which are of the turn.
LEMMA CallVarsFrame ==
  ASSUME [Next]_vars
  PROVE  \/ UNCHANGED <<calls, own>>
         \/ (\E c \in Clients, r \in Requests, p \in Choices : Submit(c, r, p))
         \/ (\E c \in Clients : Acquire(c))
         \/ (\E c \in Clients : RouteLive(c))
         \/ (\E c \in Clients : RouteStateMachine(c))
         \/ (\E c \in Clients : ReadConversation(c))
         \/ (\E c \in Clients : AppendDecision(c))
         \/ (\E c \in Clients : RecordAnswer(c))
         \/ (\E c \in Clients : DropSubmission(c))
         \/ Crash
         \/ CheckAnswers
         \/ WaitCancelled
         \/ StepCancelled
         \/ CommitExecution
         \/ (\E new \in SUBSET Tools, failed \in BOOLEAN : CommitInference(new, failed))
         \/ RunEnds
         \/ DropTurn
<1>1. ASSUME StartTurn \/ ResumeRead \/ ResumeStart \/ Cancel PROVE UNCHANGED <<calls, own>>
  BY <1>1 DEF StartTurn, ResumeRead, ResumeStart, Cancel, conversation, waiting, effects,
         resuming, calls, history
<1>2. ASSUME Arm \/ Sleep \/ WakeUp \/ Steer PROVE UNCHANGED <<calls, own>>
  BY <1>2 DEF Arm, Sleep, WakeUp, Steer, conversation, waiting, effects, resuming, calls, history
<1>3. ASSUME \/ (\E denied, questioned \in SUBSET Tools : BeginApproval(denied, questioned))
             \/ (\E r \in Tools : PersistMark(r))
             \/ (\E r \in Tools : PersistHold(r))
             \/ PersistAsk
      PROVE  UNCHANGED <<calls, own>>
  BY <1>3 DEF BeginApproval, PersistMark, PersistHold, PersistAsk, conversation, waiting, effects,
         resuming, calls, history
<1>4. ASSUME \/ Publish
             \/ BeginExecution
             \/ BeginInference
             \/ (\E r \in LiveRequests : LiveAsk(r))
      PROVE  UNCHANGED <<calls, own>>
  BY <1>4 DEF Publish, BeginExecution, BeginInference, LiveAsk, conversation, waiting, effects,
         resuming, calls, history
<1> QED  BY <1>1, <1>2, <1>3, <1>4 DEF Next, WaitStep, RunStep, CallStep, Answer, vars,
         conversation, waiting, effects, resuming, calls, history

LEMMA ConversationTyped ==
  ASSUME IInv, [Next]_vars
  PROVE  ConversationTypes'
<1>0. TypeOK /\ EffectsAreOfStep /\ NeedsAreFresh /\ LockHeld
  BY DEF IInv
<1>1. CASE UNCHANGED conversation
  BY <1>0, <1>1 DEF TypeOK, ConversationTypes, conversation, waiting, effects, resuming, calls,
         history
<1>2. CASE StartTurn
  BY <1>0, <1>2, ToolConfirmationAssumption DEF StartTurn, TypeOK, ConversationTypes, TurnTypes,
         EffectsAreOfStep, NeedsAreFresh, Wanted, Requests, conversation, waiting, effects,
         resuming, calls, history
<1>3. ASSUME NEW r \in LiveRequests, LiveAsk(r) PROVE ConversationTypes'
  BY <1>0, <1>3, ToolConfirmationAssumption DEF LiveAsk, TypeOK, ConversationTypes, Requests,
         conversation, waiting, effects, resuming, calls, history
<1>4. CASE StepCancelled
  BY <1>0, <1>4, ToolConfirmationAssumption DEF StepCancelled, RunOver, EndTurn, Registered,
         OpenTools, TypeOK, ConversationTypes, TurnTypes, EffectsAreOfStep, NeedsAreFresh, Wanted,
         Requests, conversation, waiting, effects, resuming, calls, history
<1>5. CASE Steer
  BY <1>0, <1>5, ToolConfirmationAssumption DEF Steer, TypeOK, ConversationTypes, TurnTypes,
         EffectsAreOfStep, NeedsAreFresh, Wanted, Requests, conversation, waiting, effects,
         resuming, calls, history
<1>6. ASSUME NEW r \in Tools, PersistMark(r) PROVE ConversationTypes'
  BY <1>0, <1>6, ToolConfirmationAssumption DEF PersistMark, Wanted, TypeOK, ConversationTypes,
         TurnTypes, EffectsAreOfStep, NeedsAreFresh, Requests, conversation, waiting, effects,
         resuming, calls, history
<1>7. ASSUME NEW r \in Tools, PersistHold(r) PROVE ConversationTypes'
  BY <1>0, <1>7, ToolConfirmationAssumption DEF PersistHold, TypeOK, ConversationTypes, TurnTypes,
         EffectsAreOfStep, NeedsAreFresh, Wanted, Requests, conversation, waiting, effects,
         resuming, calls, history
<1>8. CASE PersistAsk
  BY <1>0, <1>8, ToolConfirmationAssumption DEF PersistAsk, TypeOK, ConversationTypes, TurnTypes,
         EffectsAreOfStep, NeedsAreFresh, Wanted, Requests, conversation, waiting, effects,
         resuming, calls, history
<1>9. CASE CommitExecution
  BY <1>0, <1>9, ToolConfirmationAssumption DEF CommitExecution, AfterStep, RunOver, EndTurn,
         Registered, TypeOK, ConversationTypes, TurnTypes, EffectsAreOfStep, NeedsAreFresh,
         Wanted, Requests, conversation, waiting, effects, resuming, calls, history
<1>10. ASSUME NEW new \in SUBSET Tools, NEW failed \in BOOLEAN, CommitInference(new, failed)
       PROVE  ConversationTypes'
  BY <1>0, <1>10, ToolConfirmationAssumption DEF CommitInference, AfterStep, RunOver, EndTurn,
         Registered, OpenTools, TypeOK, ConversationTypes, TurnTypes, EffectsAreOfStep,
         NeedsAreFresh, Wanted, Requests, conversation, waiting, effects, resuming, calls, history
<1>11. ASSUME NEW c \in Clients, AppendDecision(c) PROVE ConversationTypes'
  BY <1>0, <1>11, ToolConfirmationAssumption, StoredIsDecision DEF AppendDecision, Goto, TypeOK,
         ConversationTypes, CallTypes, conversation, waiting, effects, resuming, calls, history
<1> QED  BY <1>1, <1>2, <1>3, <1>4, <1>5, <1>6, <1>7, <1>8, <1>9, <1>10, <1>11, ConversationFrame
         DEF conversation, waiting, effects, calls

LEMMA WaitingTyped ==
  ASSUME IInv, [Next]_vars
  PROVE  WaitingTypes'
<1>0. TypeOK
  BY DEF IInv
<1>1. CASE UNCHANGED waiting
  BY <1>0, <1>1 DEF TypeOK, WaitingTypes, conversation, waiting, effects, resuming, calls, history
<1>2. CASE ResumeStart
  BY <1>0, <1>2, ToolConfirmationAssumption DEF ResumeStart, TypeOK, WaitingTypes, conversation,
         waiting, effects, resuming, calls, history
<1>3. CASE CheckAnswers
  BY <1>0, <1>3, ToolConfirmationAssumption DEF CheckAnswers, AllAnswered, EndTurn, Registered,
         TypeOK, WaitingTypes, conversation, waiting, effects, resuming, calls, history
<1>4. CASE WakeUp
  BY <1>0, <1>4, ToolConfirmationAssumption DEF WakeUp, TypeOK, WaitingTypes, conversation,
         waiting, effects, resuming, calls, history
<1>5. CASE WaitCancelled
  BY <1>0, <1>5, ToolConfirmationAssumption DEF WaitCancelled, EndTurn, TypeOK, WaitingTypes,
         conversation, waiting, effects, resuming, calls, history
<1>6. CASE StepCancelled
  BY <1>0, <1>6, ToolConfirmationAssumption DEF StepCancelled, RunOver, EndTurn, Registered,
         OpenTools, TypeOK, WaitingTypes, conversation, waiting, effects, resuming, calls, history
<1>7. CASE Publish
  BY <1>0, <1>7, ToolConfirmationAssumption DEF Publish, Registered, TypeOK, WaitingTypes,
         conversation, waiting, effects, resuming, calls, history
<1>8. CASE CommitExecution
  BY <1>0, <1>8, ToolConfirmationAssumption DEF CommitExecution, AfterStep, RunOver, EndTurn,
         Registered, TypeOK, WaitingTypes, conversation, waiting, effects, resuming, calls,
         history
<1>9. ASSUME NEW r \in LiveRequests, LiveAsk(r) PROVE WaitingTypes'
  BY <1>0, <1>9, ToolConfirmationAssumption DEF LiveAsk, TypeOK, WaitingTypes, Requests,
         conversation, waiting, effects, resuming, calls, history
<1>10. ASSUME NEW new \in SUBSET Tools, NEW failed \in BOOLEAN, CommitInference(new, failed)
       PROVE  WaitingTypes'
  BY <1>0, <1>10, ToolConfirmationAssumption DEF CommitInference, AfterStep, RunOver, EndTurn,
         Registered, OpenTools, TypeOK, WaitingTypes, conversation, waiting, effects, resuming,
         calls, history
<1>11. CASE RunEnds
  BY <1>0, <1>11, ToolConfirmationAssumption DEF RunEnds, RunOver, EndTurn, Registered, TypeOK,
         WaitingTypes, conversation, waiting, effects, resuming, calls, history
<1>12. ASSUME NEW c \in Clients, RouteLive(c) PROVE WaitingTypes'
  BY <1>0, <1>12, ToolConfirmationAssumption DEF RouteLive, ReturnOk, NotifyWaiters, Registered,
         TypeOK, WaitingTypes, CallTypes, conversation, waiting, effects, resuming, calls, history
<1>13. ASSUME NEW c \in Clients, RecordAnswer(c) PROVE WaitingTypes'
  <2>1. req[c] \in Requests /\ Stored(perm[c]) \in Decisions
    BY <1>0, <1>13, StoredIsDecision DEF RecordAnswer, TypeOK, CallTypes
  <2>2. live' = live /\ woken' \in BOOLEAN
    BY <1>0, <1>13 DEF RecordAnswer, NotifyWaiters, TypeOK, WaitingTypes
  <2>3. answer' = answer \/ answer' = [answer EXCEPT ![req[c]] = Stored(perm[c])]
    BY <1>13 DEF RecordAnswer
  <2> QED  BY <1>0, <2>1, <2>2, <2>3 DEF TypeOK, WaitingTypes
<1>14. CASE DropTurn
  BY <1>0, <1>14, ToolConfirmationAssumption DEF DropTurn, Interrupted, EndTurn, TypeOK,
         WaitingTypes, conversation, waiting, effects, resuming, calls, history
<1>15. CASE Crash
  BY <1>0, <1>15, ToolConfirmationAssumption DEF Crash, Interrupted, TypeOK, WaitingTypes,
         conversation, waiting, effects, resuming, calls, history
<1> QED  BY <1>1, <1>2, <1>3, <1>4, <1>5, <1>6, <1>7, <1>8, <1>9, <1>10, <1>11, <1>12, <1>13,
         <1>14, <1>15, WaitingFrame DEF conversation, waiting, effects, calls

LEMMA TurnTyped ==
  ASSUME IInv, [Next]_vars
  PROVE  TurnTypes'
<1>0. TypeOK
  BY DEF IInv
<1>1. CASE UNCHANGED <<turn, cancelled, effects, resuming>>
  BY <1>0, <1>1 DEF TypeOK, TurnTypes, conversation, waiting, effects, resuming, calls, history
<1>2. CASE StartTurn
  BY <1>0, <1>2, ToolConfirmationAssumption DEF StartTurn, TypeOK, TurnTypes, conversation,
         waiting, effects, resuming, calls, history
<1>3. CASE ResumeRead
  BY <1>0, <1>3, ToolConfirmationAssumption DEF ResumeRead, TypeOK, TurnTypes,
         PendingConfirmations, ConversationTypes, conversation, waiting, effects, resuming, calls,
         history
<1>4. CASE ResumeStart
  BY <1>0, <1>4, ToolConfirmationAssumption DEF ResumeStart, TypeOK, TurnTypes, conversation,
         waiting, effects, resuming, calls, history
<1>5. CASE Cancel
  BY <1>0, <1>5, ToolConfirmationAssumption DEF Cancel, TypeOK, TurnTypes, conversation, waiting,
         effects, resuming, calls, history
<1>6. CASE Arm
  BY <1>0, <1>6, ToolConfirmationAssumption DEF Arm, TypeOK, TurnTypes, conversation, waiting,
         effects, resuming, calls, history
<1>7. CASE CheckAnswers
  BY <1>0, <1>7, ToolConfirmationAssumption DEF CheckAnswers, AllAnswered, EndTurn, Registered,
         TypeOK, TurnTypes, conversation, waiting, effects, resuming, calls, history
<1>8. CASE Sleep
  BY <1>0, <1>8, ToolConfirmationAssumption DEF Sleep, TypeOK, TurnTypes, conversation, waiting,
         effects, resuming, calls, history
<1>9. CASE WakeUp
  BY <1>0, <1>9, ToolConfirmationAssumption DEF WakeUp, TypeOK, TurnTypes, conversation, waiting,
         effects, resuming, calls, history
<1>10. CASE WaitCancelled
  BY <1>0, <1>10, ToolConfirmationAssumption DEF WaitCancelled, EndTurn, TypeOK, TurnTypes,
         conversation, waiting, effects, resuming, calls, history
<1>11. CASE StepCancelled
  BY <1>0, <1>11, ToolConfirmationAssumption DEF StepCancelled, RunOver, EndTurn, Registered,
         OpenTools, TypeOK, TurnTypes, conversation, waiting, effects, resuming, calls, history
<1>12. ASSUME NEW denied \in SUBSET Tools, NEW questioned \in SUBSET Tools,
              BeginApproval(denied, questioned)
       PROVE  TurnTypes'
  BY <1>0, <1>12, ToolConfirmationAssumption DEF BeginApproval, Unapplied, ToInspect, OpenTools,
         TypeOK, TurnTypes, conversation, waiting, effects, resuming, calls, history
<1>13. ASSUME NEW r \in Tools, PersistMark(r) PROVE TurnTypes'
  BY <1>0, <1>13, ToolConfirmationAssumption DEF PersistMark, Wanted, TypeOK, TurnTypes,
         conversation, waiting, effects, resuming, calls, history
<1>14. ASSUME NEW r \in Tools, PersistHold(r) PROVE TurnTypes'
  BY <1>0, <1>14, ToolConfirmationAssumption DEF PersistHold, TypeOK, TurnTypes, conversation,
         waiting, effects, resuming, calls, history
<1>15. CASE PersistAsk
  BY <1>0, <1>15, ToolConfirmationAssumption DEF PersistAsk, TypeOK, TurnTypes, Requests,
         conversation, waiting, effects, resuming, calls, history
<1>16. CASE Publish
  BY <1>0, <1>16, ToolConfirmationAssumption DEF Publish, Registered, TypeOK, TurnTypes,
         conversation, waiting, effects, resuming, calls, history
<1>17. CASE BeginExecution
  BY <1>0, <1>17, ToolConfirmationAssumption DEF BeginExecution, ToExecute, ToDecline, OpenTools,
         TypeOK, TurnTypes, Requests, conversation, waiting, effects, resuming, calls, history
<1>18. CASE CommitExecution
  BY <1>0, <1>18, ToolConfirmationAssumption DEF CommitExecution, AfterStep, RunOver, EndTurn,
         Registered, TypeOK, TurnTypes, conversation, waiting, effects, resuming, calls, history
<1>19. CASE BeginInference
  BY <1>0, <1>19, ToolConfirmationAssumption DEF BeginInference, TypeOK, TurnTypes, conversation,
         waiting, effects, resuming, calls, history
<1>20. ASSUME NEW new \in SUBSET Tools, NEW failed \in BOOLEAN, CommitInference(new, failed)
       PROVE  TurnTypes'
  BY <1>0, <1>20, ToolConfirmationAssumption DEF CommitInference, AfterStep, RunOver, EndTurn,
         Registered, OpenTools, TypeOK, TurnTypes, conversation, waiting, effects, resuming,
         calls, history
<1>21. CASE RunEnds
  BY <1>0, <1>21, ToolConfirmationAssumption DEF RunEnds, RunOver, EndTurn, Registered, TypeOK,
         TurnTypes, conversation, waiting, effects, resuming, calls, history
<1>22. ASSUME NEW r \in LiveRequests, LiveAsk(r) PROVE TurnTypes'
  BY <1>0, <1>22, ToolConfirmationAssumption DEF LiveAsk, TypeOK, TurnTypes, Requests,
         conversation, waiting, effects, resuming, calls, history
<1>23. ASSUME NEW c \in Clients, Acquire(c) PROVE TurnTypes'
  BY <1>0, <1>23, ToolConfirmationAssumption DEF Acquire, Goto, ReturnOk, ReturnErr,
         SubmissionLockFree, TypeOK, TurnTypes, conversation, waiting, effects, resuming, calls,
         history
<1>24. ASSUME NEW c \in Clients, RouteLive(c) PROVE TurnTypes'
  BY <1>0, <1>24, ToolConfirmationAssumption DEF RouteLive, ReturnOk, NotifyWaiters, Registered,
         TypeOK, TurnTypes, conversation, waiting, effects, resuming, calls, history
<1>25. ASSUME NEW c \in Clients, RouteStateMachine(c) PROVE TurnTypes'
  BY <1>0, <1>25, ToolConfirmationAssumption DEF RouteStateMachine, Goto, ReturnErr, Registered,
         TypeOK, TurnTypes, conversation, waiting, effects, resuming, calls, history
<1>26. ASSUME NEW c \in Clients, ReadConversation(c) PROVE TurnTypes'
  BY <1>0, <1>26, ToolConfirmationAssumption DEF ReadConversation, Goto, ReturnErr, TypeOK,
         TurnTypes, conversation, waiting, effects, resuming, calls, history
<1>27. ASSUME NEW c \in Clients, RecordAnswer(c) PROVE TurnTypes'
  BY <1>0, <1>27, ToolConfirmationAssumption DEF RecordAnswer, ReturnOk, ReturnErr, NotifyWaiters,
         TypeOK, TurnTypes, conversation, waiting, effects, resuming, calls, history
<1>28. CASE DropTurn
  BY <1>0, <1>28, ToolConfirmationAssumption DEF DropTurn, Interrupted, EndTurn, TypeOK,
         TurnTypes, conversation, waiting, effects, resuming, calls, history
<1>29. CASE Crash
  BY <1>0, <1>29, ToolConfirmationAssumption DEF Crash, Interrupted, TypeOK, TurnTypes,
         conversation, waiting, effects, resuming, calls, history
<1> QED  BY <1>1, <1>2, <1>3, <1>4, <1>5, <1>6, <1>7, <1>8, <1>9, <1>10, <1>11, <1>12, <1>13,
         <1>14, <1>15, <1>16, <1>17, <1>18, <1>19, <1>20, <1>21, <1>22, <1>23, <1>24, <1>25,
         <1>26, <1>27, <1>28, <1>29, TurnVarsFrame

LEMMA CallTyped ==
  ASSUME IInv, [Next]_vars
  PROVE  CallTypes'
<1>0. TypeOK
  BY DEF IInv
<1>1. CASE UNCHANGED <<calls, own>>
  BY <1>0, <1>1 DEF TypeOK, CallTypes, Locked, conversation, waiting, effects, resuming, calls,
         history
<1>2. ASSUME NEW c \in Clients, NEW r \in Requests, NEW p \in Choices, Submit(c, r, p)
      PROVE  CallTypes'
  BY <1>0, <1>2, ToolConfirmationAssumption DEF Submit, Registered, TypeOK, CallTypes, Locked,
         conversation, waiting, effects, resuming, calls, history
<1>3. ASSUME NEW c \in Clients, Acquire(c) PROVE CallTypes'
  BY <1>0, <1>3, ToolConfirmationAssumption DEF Acquire, Goto, ReturnOk, ReturnErr,
         SubmissionLockFree, TypeOK, CallTypes, Locked, conversation, waiting, effects, resuming,
         calls, history
<1>4. ASSUME NEW c \in Clients, RouteLive(c) PROVE CallTypes'
  BY <1>0, <1>4, ToolConfirmationAssumption DEF RouteLive, ReturnOk, NotifyWaiters, Registered,
         TypeOK, CallTypes, Locked, conversation, waiting, effects, resuming, calls, history
<1>5. ASSUME NEW c \in Clients, RouteStateMachine(c) PROVE CallTypes'
  BY <1>0, <1>5, ToolConfirmationAssumption DEF RouteStateMachine, Goto, ReturnErr, Registered,
         TypeOK, CallTypes, Locked, conversation, waiting, effects, resuming, calls, history
<1>6. ASSUME NEW c \in Clients, ReadConversation(c) PROVE CallTypes'
  BY <1>0, <1>6, ToolConfirmationAssumption DEF ReadConversation, Goto, ReturnErr, TypeOK,
         CallTypes, Locked, Requests, conversation, waiting, effects, resuming, calls, history
<1>7. ASSUME NEW c \in Clients, AppendDecision(c) PROVE CallTypes'
  BY <1>0, <1>7, ToolConfirmationAssumption DEF AppendDecision, Goto, TypeOK, CallTypes, Locked,
         conversation, waiting, effects, resuming, calls, history
<1>8. ASSUME NEW c \in Clients, RecordAnswer(c) PROVE CallTypes'
  BY <1>0, <1>8, ToolConfirmationAssumption DEF RecordAnswer, ReturnOk, ReturnErr, NotifyWaiters,
         TypeOK, CallTypes, Locked, conversation, waiting, effects, resuming, calls, history
<1>9. ASSUME NEW c \in Clients, DropSubmission(c) PROVE CallTypes'
  BY <1>0, <1>9, ToolConfirmationAssumption DEF DropSubmission, Interrupted, TypeOK, CallTypes,
         Locked, conversation, waiting, effects, resuming, calls, history
<1>10. CASE Crash
  BY <1>0, <1>10, ToolConfirmationAssumption DEF Crash, Interrupted, TypeOK, CallTypes, Locked,
         conversation, waiting, effects, resuming, calls, history
<1>11. CASE CheckAnswers
  BY <1>0, <1>11, ToolConfirmationAssumption DEF CheckAnswers, AllAnswered, EndTurn, Registered,
         TypeOK, CallTypes, Locked, conversation, waiting, effects, resuming, calls, history
<1>12. CASE WaitCancelled
  BY <1>0, <1>12, ToolConfirmationAssumption DEF WaitCancelled, EndTurn, TypeOK, CallTypes,
         Locked, conversation, waiting, effects, resuming, calls, history
<1>13. CASE StepCancelled
  BY <1>0, <1>13, ToolConfirmationAssumption DEF StepCancelled, RunOver, EndTurn, Registered,
         OpenTools, TypeOK, CallTypes, Locked, conversation, waiting, effects, resuming, calls,
         history
<1>14. CASE CommitExecution
  BY <1>0, <1>14, ToolConfirmationAssumption DEF CommitExecution, AfterStep, RunOver, EndTurn,
         Registered, TypeOK, CallTypes, Locked, conversation, waiting, effects, resuming, calls,
         history
<1>15. ASSUME NEW new \in SUBSET Tools, NEW failed \in BOOLEAN, CommitInference(new, failed)
       PROVE  CallTypes'
  BY <1>0, <1>15, ToolConfirmationAssumption DEF CommitInference, AfterStep, RunOver, EndTurn,
         Registered, OpenTools, TypeOK, CallTypes, Locked, conversation, waiting, effects,
         resuming, calls, history
<1>16. CASE RunEnds
  BY <1>0, <1>16, ToolConfirmationAssumption DEF RunEnds, RunOver, EndTurn, Registered, TypeOK,
         CallTypes, Locked, conversation, waiting, effects, resuming, calls, history
<1>17. CASE DropTurn
  BY <1>0, <1>17, ToolConfirmationAssumption DEF DropTurn, Interrupted, EndTurn, TypeOK,
         CallTypes, Locked, conversation, waiting, effects, resuming, calls, history
<1> QED  BY <1>1, <1>2, <1>3, <1>4, <1>5, <1>6, <1>7, <1>8, <1>9, <1>10, <1>11, <1>12, <1>13,
         <1>14, <1>15, <1>16, <1>17, CallVarsFrame

LEMMA HistoryTyped ==
  ASSUME IInv, [Next]_vars
  PROVE  HistoryTypes'
<1>0. TypeOK
  BY DEF IInv
<1>1. CASE UNCHANGED history
  BY <1>0, <1>1 DEF TypeOK, HistoryTypes, CallTypes, conversation, waiting, effects, resuming,
         calls, history
<1>2. CASE Steer
  BY <1>0, <1>2, ToolConfirmationAssumption DEF Steer, TypeOK, HistoryTypes, CallTypes,
         conversation, waiting, effects, resuming, calls, history
<1>3. CASE BeginExecution
  BY <1>0, <1>3, ToolConfirmationAssumption DEF BeginExecution, ToExecute, ToDecline, OpenTools,
         TypeOK, HistoryTypes, CallTypes, conversation, waiting, effects, resuming, calls, history
<1>4. CASE DropTurn
  BY <1>0, <1>4, ToolConfirmationAssumption DEF DropTurn, Interrupted, EndTurn, TypeOK,
         HistoryTypes, CallTypes, conversation, waiting, effects, resuming, calls, history
<1>5. ASSUME NEW c \in Clients, DropSubmission(c) PROVE HistoryTypes'
  BY <1>0, <1>5, ToolConfirmationAssumption DEF DropSubmission, Interrupted, TypeOK, HistoryTypes,
         CallTypes, conversation, waiting, effects, resuming, calls, history
<1>6. CASE Crash
  BY <1>0, <1>6, ToolConfirmationAssumption DEF Crash, Interrupted, TypeOK, HistoryTypes,
         CallTypes, conversation, waiting, effects, resuming, calls, history
<1>7. ASSUME NEW c \in Clients, Acquire(c) PROVE HistoryTypes'
  BY <1>0, <1>7, ToolConfirmationAssumption DEF Acquire, Goto, ReturnOk, ReturnErr,
         SubmissionLockFree, TypeOK, HistoryTypes, CallTypes, Locked, conversation, waiting,
         effects, resuming, calls, history
<1>8. ASSUME NEW c \in Clients, RouteLive(c) PROVE HistoryTypes'
  BY <1>0, <1>8, ToolConfirmationAssumption DEF RouteLive, ReturnOk, NotifyWaiters, Registered,
         TypeOK, HistoryTypes, CallTypes, Locked, conversation, waiting, effects, resuming, calls,
         history
<1>9. ASSUME NEW c \in Clients, RecordAnswer(c) PROVE HistoryTypes'
  BY <1>0, <1>9, ToolConfirmationAssumption DEF RecordAnswer, ReturnOk, ReturnErr, NotifyWaiters,
         TypeOK, HistoryTypes, CallTypes, Locked, conversation, waiting, effects, resuming, calls,
         history
<1> QED  BY <1>1, <1>2, <1>3, <1>4, <1>5, <1>6, <1>7, <1>8, <1>9, HistoryFrame

LEMMA EffectsKept ==
  ASSUME IInv, [Next]_vars
  PROVE  EffectsAreOfStep'
<1>0. TypeOK /\ EffectsAreOfStep /\ NeedsAreFresh
  BY DEF IInv
<1>1. CASE UNCHANGED <<turn, effects, used>>
  BY <1>0, <1>1 DEF EffectsAreOfStep, conversation, waiting, effects, resuming, calls, history
<1>2. CASE StartTurn
  BY <1>0, <1>2, ToolConfirmationAssumption DEF StartTurn, EffectsAreOfStep, TypeOK, TurnTypes,
         conversation, waiting, effects, resuming, calls, history
<1>3. CASE ResumeStart
  BY <1>0, <1>3, ToolConfirmationAssumption DEF ResumeStart, EffectsAreOfStep, TypeOK, TurnTypes,
         conversation, waiting, effects, resuming, calls, history
<1>4. CASE Arm
  BY <1>0, <1>4, ToolConfirmationAssumption DEF Arm, EffectsAreOfStep, TypeOK, TurnTypes,
         conversation, waiting, effects, resuming, calls, history
<1>5. CASE CheckAnswers
  BY <1>0, <1>5, ToolConfirmationAssumption DEF CheckAnswers, AllAnswered, EndTurn, Registered,
         EffectsAreOfStep, TypeOK, TurnTypes, conversation, waiting, effects, resuming, calls,
         history
<1>6. CASE Sleep
  BY <1>0, <1>6, ToolConfirmationAssumption DEF Sleep, EffectsAreOfStep, TypeOK, TurnTypes,
         conversation, waiting, effects, resuming, calls, history
<1>7. CASE WakeUp
  BY <1>0, <1>7, ToolConfirmationAssumption DEF WakeUp, EffectsAreOfStep, TypeOK, TurnTypes,
         conversation, waiting, effects, resuming, calls, history
<1>8. CASE WaitCancelled
  BY <1>0, <1>8, ToolConfirmationAssumption DEF WaitCancelled, EndTurn, EffectsAreOfStep, TypeOK,
         TurnTypes, conversation, waiting, effects, resuming, calls, history
<1>9. CASE StepCancelled
  BY <1>0, <1>9, ToolConfirmationAssumption DEF StepCancelled, RunOver, EndTurn, Registered,
         OpenTools, EffectsAreOfStep, TypeOK, TurnTypes, conversation, waiting, effects, resuming,
         calls, history
<1>10. ASSUME NEW denied \in SUBSET Tools, NEW questioned \in SUBSET Tools,
              BeginApproval(denied, questioned)
       PROVE  EffectsAreOfStep'
  BY <1>0, <1>10, ToolConfirmationAssumption DEF BeginApproval, Unapplied, ToInspect, OpenTools,
         EffectsAreOfStep, TypeOK, TurnTypes, conversation, waiting, effects, resuming, calls,
         history
<1>11. ASSUME NEW r \in Tools, PersistMark(r) PROVE EffectsAreOfStep'
  BY <1>0, <1>11, ToolConfirmationAssumption DEF PersistMark, Wanted, EffectsAreOfStep, TypeOK,
         TurnTypes, conversation, waiting, effects, resuming, calls, history
<1>12. ASSUME NEW r \in Tools, PersistHold(r) PROVE EffectsAreOfStep'
  BY <1>0, <1>12, ToolConfirmationAssumption DEF PersistHold, EffectsAreOfStep, TypeOK, TurnTypes,
         conversation, waiting, effects, resuming, calls, history
<1>13. CASE PersistAsk
  BY <1>0, <1>13, ToolConfirmationAssumption DEF PersistAsk, EffectsAreOfStep, NeedsAreFresh,
         TypeOK, TurnTypes, conversation, waiting, effects, resuming, calls, history
<1>14. CASE Publish
  BY <1>0, <1>14, ToolConfirmationAssumption DEF Publish, Registered, EffectsAreOfStep, TypeOK,
         TurnTypes, conversation, waiting, effects, resuming, calls, history
<1>15. CASE BeginExecution
  BY <1>0, <1>15, ToolConfirmationAssumption DEF BeginExecution, ToExecute, ToDecline, OpenTools,
         EffectsAreOfStep, TypeOK, ConversationTypes, conversation, waiting, effects, resuming,
         calls, history
<1>16. CASE CommitExecution
  BY <1>0, <1>16, ToolConfirmationAssumption DEF CommitExecution, AfterStep, RunOver, EndTurn,
         Registered, EffectsAreOfStep, TypeOK, TurnTypes, conversation, waiting, effects,
         resuming, calls, history
<1>17. CASE BeginInference
  BY <1>0, <1>17, ToolConfirmationAssumption DEF BeginInference, EffectsAreOfStep, TypeOK,
         TurnTypes, conversation, waiting, effects, resuming, calls, history
<1>18. ASSUME NEW new \in SUBSET Tools, NEW failed \in BOOLEAN, CommitInference(new, failed)
       PROVE  EffectsAreOfStep'
  BY <1>0, <1>18, ToolConfirmationAssumption DEF CommitInference, AfterStep, RunOver, EndTurn,
         Registered, OpenTools, EffectsAreOfStep, TypeOK, TurnTypes, conversation, waiting,
         effects, resuming, calls, history
<1>19. CASE RunEnds
  BY <1>0, <1>19, ToolConfirmationAssumption DEF RunEnds, RunOver, EndTurn, Registered,
         EffectsAreOfStep, TypeOK, TurnTypes, conversation, waiting, effects, resuming, calls,
         history
<1>20. ASSUME NEW r \in LiveRequests, LiveAsk(r) PROVE EffectsAreOfStep'
  BY <1>0, <1>20, ToolConfirmationAssumption DEF LiveAsk, EffectsAreOfStep, TypeOK, TurnTypes,
         conversation, waiting, effects, resuming, calls, history
<1>21. CASE DropTurn
  BY <1>0, <1>21, ToolConfirmationAssumption DEF DropTurn, Interrupted, EndTurn, EffectsAreOfStep,
         TypeOK, TurnTypes, conversation, waiting, effects, resuming, calls, history
<1>22. CASE Crash
  BY <1>0, <1>22, ToolConfirmationAssumption DEF Crash, Interrupted, EffectsAreOfStep, TypeOK,
         TurnTypes, conversation, waiting, effects, resuming, calls, history
<1> QED  BY <1>1, <1>2, <1>3, <1>4, <1>5, <1>6, <1>7, <1>8, <1>9, <1>10, <1>11, <1>12, <1>13,
         <1>14, <1>15, <1>16, <1>17, <1>18, <1>19, <1>20, <1>21, <1>22, EffectsFrame, UsedFrame
         DEF conversation, waiting, effects, calls

LEMMA NeedsKept ==
  ASSUME IInv, [Next]_vars
  PROVE  NeedsAreFresh'
<1>0. TypeOK /\ EffectsAreOfStep /\ NeedsAreFresh /\ HeldBeforeAsked
  BY DEF IInv
<1>1. CASE UNCHANGED <<turn, effects, used, asked, response>>
  BY <1>0, <1>1 DEF NeedsAreFresh, EffectsAreOfStep, conversation, waiting, effects, resuming,
         calls, history
<1>2. CASE StartTurn
  BY <1>0, <1>2, ToolConfirmationAssumption DEF StartTurn, NeedsAreFresh, EffectsAreOfStep,
         conversation, waiting, effects, resuming, calls, history
<1>3. CASE ResumeStart
  BY <1>0, <1>3, ToolConfirmationAssumption DEF ResumeStart, NeedsAreFresh, EffectsAreOfStep,
         conversation, waiting, effects, resuming, calls, history
<1>4. CASE Arm
  BY <1>0, <1>4, ToolConfirmationAssumption DEF Arm, NeedsAreFresh, EffectsAreOfStep,
         conversation, waiting, effects, resuming, calls, history
<1>5. CASE CheckAnswers
  BY <1>0, <1>5, ToolConfirmationAssumption DEF CheckAnswers, AllAnswered, EndTurn, Registered,
         NeedsAreFresh, EffectsAreOfStep, conversation, waiting, effects, resuming, calls, history
<1>6. CASE Sleep
  BY <1>0, <1>6, ToolConfirmationAssumption DEF Sleep, NeedsAreFresh, EffectsAreOfStep,
         conversation, waiting, effects, resuming, calls, history
<1>7. CASE WakeUp
  BY <1>0, <1>7, ToolConfirmationAssumption DEF WakeUp, NeedsAreFresh, EffectsAreOfStep,
         conversation, waiting, effects, resuming, calls, history
<1>8. CASE WaitCancelled
  BY <1>0, <1>8, ToolConfirmationAssumption DEF WaitCancelled, EndTurn, NeedsAreFresh,
         EffectsAreOfStep, conversation, waiting, effects, resuming, calls, history
<1>9. CASE StepCancelled
  BY <1>0, <1>9, ToolConfirmationAssumption DEF StepCancelled, RunOver, EndTurn, Registered,
         OpenTools, NeedsAreFresh, EffectsAreOfStep, conversation, waiting, effects, resuming,
         calls, history
<1>10. ASSUME NEW denied \in SUBSET Tools, NEW questioned \in SUBSET Tools,
              BeginApproval(denied, questioned)
       PROVE  NeedsAreFresh'
  BY <1>0, <1>10, ToolConfirmationAssumption DEF BeginApproval, Unapplied, ToInspect, OpenTools,
         NeedsAreFresh, EffectsAreOfStep, TypeOK, ConversationTypes, conversation, waiting,
         effects, resuming, calls, history
<1>11. ASSUME NEW r \in Tools, PersistMark(r) PROVE NeedsAreFresh'
  BY <1>0, <1>11, ToolConfirmationAssumption DEF PersistMark, Wanted, NeedsAreFresh,
         EffectsAreOfStep, conversation, waiting, effects, resuming, calls, history
<1>12. ASSUME NEW r \in Tools, PersistHold(r) PROVE NeedsAreFresh'
  BY <1>0, <1>12, ToolConfirmationAssumption DEF PersistHold, NeedsAreFresh, EffectsAreOfStep,
         conversation, waiting, effects, resuming, calls, history
<1>13. CASE PersistAsk
  BY <1>0, <1>13, ToolConfirmationAssumption DEF PersistAsk, NeedsAreFresh, EffectsAreOfStep,
         conversation, waiting, effects, resuming, calls, history
<1>14. CASE Publish
  BY <1>0, <1>14, ToolConfirmationAssumption DEF Publish, Registered, NeedsAreFresh,
         EffectsAreOfStep, conversation, waiting, effects, resuming, calls, history
<1>15. CASE BeginExecution
  BY <1>0, <1>15, ToolConfirmationAssumption DEF BeginExecution, ToExecute, ToDecline, OpenTools,
         NeedsAreFresh, EffectsAreOfStep, conversation, waiting, effects, resuming, calls, history
<1>16. CASE CommitExecution
  BY <1>0, <1>16, ToolConfirmationAssumption DEF CommitExecution, AfterStep, RunOver, EndTurn,
         Registered, NeedsAreFresh, EffectsAreOfStep, conversation, waiting, effects, resuming,
         calls, history
<1>17. CASE BeginInference
  BY <1>0, <1>17, ToolConfirmationAssumption DEF BeginInference, NeedsAreFresh, EffectsAreOfStep,
         conversation, waiting, effects, resuming, calls, history
<1>18. ASSUME NEW new \in SUBSET Tools, NEW failed \in BOOLEAN, CommitInference(new, failed)
       PROVE  NeedsAreFresh'
  BY <1>0, <1>18, ToolConfirmationAssumption DEF CommitInference, AfterStep, RunOver, EndTurn,
         Registered, OpenTools, NeedsAreFresh, EffectsAreOfStep, TypeOK, ConversationTypes,
         conversation, waiting, effects, resuming, calls, history
<1>19. CASE RunEnds
  BY <1>0, <1>19, ToolConfirmationAssumption DEF RunEnds, RunOver, EndTurn, Registered,
         NeedsAreFresh, EffectsAreOfStep, conversation, waiting, effects, resuming, calls, history
<1>20. ASSUME NEW r \in LiveRequests, LiveAsk(r) PROVE NeedsAreFresh'
  BY <1>0, <1>20, ToolConfirmationAssumption DEF LiveAsk, NeedsAreFresh, EffectsAreOfStep,
         conversation, waiting, effects, resuming, calls, history
<1>21. CASE DropTurn
  BY <1>0, <1>21, ToolConfirmationAssumption DEF DropTurn, Interrupted, EndTurn, NeedsAreFresh,
         EffectsAreOfStep, conversation, waiting, effects, resuming, calls, history
<1>22. CASE Crash
  BY <1>0, <1>22, ToolConfirmationAssumption DEF Crash, Interrupted, NeedsAreFresh,
         EffectsAreOfStep, conversation, waiting, effects, resuming, calls, history
<1> QED  BY <1>1, <1>2, <1>3, <1>4, <1>5, <1>6, <1>7, <1>8, <1>9, <1>10, <1>11, <1>12, <1>13,
         <1>14, <1>15, <1>16, <1>17, <1>18, <1>19, <1>20, <1>21, <1>22, EffectsFrame, UsedFrame,
         AskedFrame, ResponseFrame DEF conversation, waiting, effects, calls

LEMMA HeldKept ==
  ASSUME IInv, [Next]_vars
  PROVE  HeldBeforeAsked'
<1>0. TypeOK /\ EffectsAreOfStep /\ HeldBeforeAsked
  BY DEF IInv
<1>1. CASE UNCHANGED <<turn, effects, executable>>
  BY <1>0, <1>1 DEF HeldBeforeAsked, EffectsAreOfStep, conversation, waiting, effects, resuming,
         calls, history
<1>2. CASE StartTurn
  BY <1>0, <1>2, ToolConfirmationAssumption DEF StartTurn, HeldBeforeAsked, EffectsAreOfStep,
         conversation, waiting, effects, resuming, calls, history
<1>3. CASE ResumeStart
  BY <1>0, <1>3, ToolConfirmationAssumption DEF ResumeStart, HeldBeforeAsked, EffectsAreOfStep,
         conversation, waiting, effects, resuming, calls, history
<1>4. CASE Arm
  BY <1>0, <1>4, ToolConfirmationAssumption DEF Arm, HeldBeforeAsked, EffectsAreOfStep,
         conversation, waiting, effects, resuming, calls, history
<1>5. CASE CheckAnswers
  BY <1>0, <1>5, ToolConfirmationAssumption DEF CheckAnswers, AllAnswered, EndTurn, Registered,
         HeldBeforeAsked, EffectsAreOfStep, conversation, waiting, effects, resuming, calls,
         history
<1>6. CASE Sleep
  BY <1>0, <1>6, ToolConfirmationAssumption DEF Sleep, HeldBeforeAsked, EffectsAreOfStep,
         conversation, waiting, effects, resuming, calls, history
<1>7. CASE WakeUp
  BY <1>0, <1>7, ToolConfirmationAssumption DEF WakeUp, HeldBeforeAsked, EffectsAreOfStep,
         conversation, waiting, effects, resuming, calls, history
<1>8. CASE WaitCancelled
  BY <1>0, <1>8, ToolConfirmationAssumption DEF WaitCancelled, EndTurn, HeldBeforeAsked,
         EffectsAreOfStep, conversation, waiting, effects, resuming, calls, history
<1>9. CASE StepCancelled
  BY <1>0, <1>9, ToolConfirmationAssumption DEF StepCancelled, RunOver, EndTurn, Registered,
         OpenTools, HeldBeforeAsked, EffectsAreOfStep, conversation, waiting, effects, resuming,
         calls, history
<1>10. ASSUME NEW denied \in SUBSET Tools, NEW questioned \in SUBSET Tools,
              BeginApproval(denied, questioned)
       PROVE  HeldBeforeAsked'
  BY <1>0, <1>10, ToolConfirmationAssumption DEF BeginApproval, Unapplied, ToInspect, OpenTools,
         HeldBeforeAsked, EffectsAreOfStep, conversation, waiting, effects, resuming, calls,
         history
<1>11. ASSUME NEW r \in Tools, PersistMark(r) PROVE HeldBeforeAsked'
  BY <1>0, <1>11, ToolConfirmationAssumption DEF PersistMark, Wanted, HeldBeforeAsked,
         EffectsAreOfStep, TypeOK, ConversationTypes, TurnTypes, conversation, waiting, effects,
         resuming, calls, history
<1>12. ASSUME NEW r \in Tools, PersistHold(r) PROVE HeldBeforeAsked'
  BY <1>0, <1>12, ToolConfirmationAssumption DEF PersistHold, HeldBeforeAsked, EffectsAreOfStep,
         TypeOK, ConversationTypes, TurnTypes, conversation, waiting, effects, resuming, calls,
         history
<1>13. CASE PersistAsk
  BY <1>0, <1>13, ToolConfirmationAssumption DEF PersistAsk, HeldBeforeAsked, EffectsAreOfStep,
         conversation, waiting, effects, resuming, calls, history
<1>14. CASE Publish
  BY <1>0, <1>14, ToolConfirmationAssumption DEF Publish, Registered, HeldBeforeAsked,
         EffectsAreOfStep, conversation, waiting, effects, resuming, calls, history
<1>15. CASE BeginExecution
  BY <1>0, <1>15, ToolConfirmationAssumption DEF BeginExecution, ToExecute, ToDecline, OpenTools,
         HeldBeforeAsked, EffectsAreOfStep, conversation, waiting, effects, resuming, calls,
         history
<1>16. CASE CommitExecution
  BY <1>0, <1>16, ToolConfirmationAssumption DEF CommitExecution, AfterStep, RunOver, EndTurn,
         Registered, HeldBeforeAsked, EffectsAreOfStep, conversation, waiting, effects, resuming,
         calls, history
<1>17. CASE BeginInference
  BY <1>0, <1>17, ToolConfirmationAssumption DEF BeginInference, HeldBeforeAsked,
         EffectsAreOfStep, conversation, waiting, effects, resuming, calls, history
<1>18. ASSUME NEW new \in SUBSET Tools, NEW failed \in BOOLEAN, CommitInference(new, failed)
       PROVE  HeldBeforeAsked'
  BY <1>0, <1>18, ToolConfirmationAssumption DEF CommitInference, AfterStep, RunOver, EndTurn,
         Registered, OpenTools, HeldBeforeAsked, EffectsAreOfStep, conversation, waiting, effects,
         resuming, calls, history
<1>19. CASE RunEnds
  BY <1>0, <1>19, ToolConfirmationAssumption DEF RunEnds, RunOver, EndTurn, Registered,
         HeldBeforeAsked, EffectsAreOfStep, conversation, waiting, effects, resuming, calls,
         history
<1>20. ASSUME NEW r \in LiveRequests, LiveAsk(r) PROVE HeldBeforeAsked'
  BY <1>0, <1>20, ToolConfirmationAssumption DEF LiveAsk, HeldBeforeAsked, EffectsAreOfStep,
         conversation, waiting, effects, resuming, calls, history
<1>21. CASE DropTurn
  BY <1>0, <1>21, ToolConfirmationAssumption DEF DropTurn, Interrupted, EndTurn, HeldBeforeAsked,
         EffectsAreOfStep, conversation, waiting, effects, resuming, calls, history
<1>22. CASE Crash
  BY <1>0, <1>22, ToolConfirmationAssumption DEF Crash, Interrupted, HeldBeforeAsked,
         EffectsAreOfStep, conversation, waiting, effects, resuming, calls, history
<1> QED  BY <1>1, <1>2, <1>3, <1>4, <1>5, <1>6, <1>7, <1>8, <1>9, <1>10, <1>11, <1>12, <1>13,
         <1>14, <1>15, <1>16, <1>17, <1>18, <1>19, <1>20, <1>21, <1>22, EffectsFrame,
         ExecutableFrame DEF conversation, waiting, effects, calls

LEMMA ResponsesKept ==
  ASSUME IInv, [Next]_vars
  PROVE  ResponsesAreUsed'
<1>0. TypeOK /\ EffectsAreOfStep /\ ResponsesAreUsed
  BY DEF IInv
<1>1. CASE UNCHANGED <<response, used>>
  BY <1>0, <1>1 DEF ResponsesAreUsed, TypeOK, ConversationTypes, EffectsAreOfStep, conversation,
         waiting, effects, resuming, calls, history
<1>2. CASE StepCancelled
  BY <1>0, <1>2, ToolConfirmationAssumption DEF StepCancelled, RunOver, EndTurn, Registered,
         OpenTools, ResponsesAreUsed, TypeOK, ConversationTypes, EffectsAreOfStep, conversation,
         waiting, effects, resuming, calls, history
<1>3. CASE CommitExecution
  BY <1>0, <1>3, ToolConfirmationAssumption DEF CommitExecution, AfterStep, RunOver, EndTurn,
         Registered, ResponsesAreUsed, TypeOK, ConversationTypes, EffectsAreOfStep, conversation,
         waiting, effects, resuming, calls, history
<1>4. ASSUME NEW r \in LiveRequests, LiveAsk(r) PROVE ResponsesAreUsed'
  BY <1>0, <1>4, ToolConfirmationAssumption DEF LiveAsk, ResponsesAreUsed, TypeOK,
         ConversationTypes, EffectsAreOfStep, conversation, waiting, effects, resuming, calls,
         history
<1>5. ASSUME NEW new \in SUBSET Tools, NEW failed \in BOOLEAN, CommitInference(new, failed)
      PROVE  ResponsesAreUsed'
  BY <1>0, <1>5, ToolConfirmationAssumption DEF CommitInference, AfterStep, RunOver, EndTurn,
         Registered, OpenTools, ResponsesAreUsed, TypeOK, ConversationTypes, EffectsAreOfStep,
         conversation, waiting, effects, resuming, calls, history
<1> QED  BY <1>1, <1>2, <1>3, <1>4, <1>5, ResponseFrame, UsedFrame

LEMMA LockKept ==
  ASSUME IInv, [Next]_vars
  PROVE  LockHeld'
<1>0. TypeOK /\ LockHeld
  BY DEF IInv
<1>1. CASE UNCHANGED calls
  BY <1>0, <1>1 DEF LockHeld, Locked, TypeOK, CallTypes, conversation, waiting, effects, resuming,
         calls, history
<1>2. ASSUME NEW c \in Clients, NEW r \in Requests, NEW p \in Choices, Submit(c, r, p)
      PROVE  LockHeld'
  BY <1>0, <1>2, ToolConfirmationAssumption DEF Submit, Registered, LockHeld, Locked, TypeOK,
         CallTypes, conversation, waiting, effects, resuming, calls, history
<1>3. ASSUME NEW c \in Clients, Acquire(c) PROVE LockHeld'
  BY <1>0, <1>3, ToolConfirmationAssumption DEF Acquire, Goto, ReturnOk, ReturnErr,
         SubmissionLockFree, LockHeld, Locked, TypeOK, CallTypes, conversation, waiting, effects,
         resuming, calls, history
<1>4. ASSUME NEW c \in Clients, RouteLive(c) PROVE LockHeld'
  BY <1>0, <1>4, ToolConfirmationAssumption DEF RouteLive, ReturnOk, NotifyWaiters, Registered,
         LockHeld, Locked, TypeOK, CallTypes, conversation, waiting, effects, resuming, calls,
         history
<1>5. ASSUME NEW c \in Clients, RouteStateMachine(c) PROVE LockHeld'
  BY <1>0, <1>5, ToolConfirmationAssumption DEF RouteStateMachine, Goto, ReturnErr, Registered,
         LockHeld, Locked, TypeOK, CallTypes, conversation, waiting, effects, resuming, calls,
         history
<1>6. ASSUME NEW c \in Clients, ReadConversation(c) PROVE LockHeld'
  BY <1>0, <1>6, ToolConfirmationAssumption DEF ReadConversation, Goto, ReturnErr, LockHeld,
         Locked, TypeOK, CallTypes, conversation, waiting, effects, resuming, calls, history
<1>7. ASSUME NEW c \in Clients, AppendDecision(c) PROVE LockHeld'
  BY <1>0, <1>7, ToolConfirmationAssumption DEF AppendDecision, Goto, LockHeld, Locked, TypeOK,
         CallTypes, conversation, waiting, effects, resuming, calls, history
<1>8. ASSUME NEW c \in Clients, RecordAnswer(c) PROVE LockHeld'
  BY <1>0, <1>8, ToolConfirmationAssumption DEF RecordAnswer, ReturnOk, ReturnErr, NotifyWaiters,
         LockHeld, Locked, TypeOK, CallTypes, conversation, waiting, effects, resuming, calls,
         history
<1>9. ASSUME NEW c \in Clients, DropSubmission(c) PROVE LockHeld'
  BY <1>0, <1>9, ToolConfirmationAssumption DEF DropSubmission, Interrupted, LockHeld, Locked,
         TypeOK, CallTypes, conversation, waiting, effects, resuming, calls, history
<1>10. CASE Crash
  BY <1>0, <1>10, ToolConfirmationAssumption DEF Crash, Interrupted, LockHeld, Locked, TypeOK,
         CallTypes, conversation, waiting, effects, resuming, calls, history
<1> QED  BY <1>1, <1>2, <1>3, <1>4, <1>5, <1>6, <1>7, <1>8, <1>9, <1>10, CallsFrame
         DEF conversation, waiting, effects, calls

LEMMA ReadKept ==
  ASSUME IInv, [Next]_vars
  PROVE  ReadIsCurrent'
<1>0. TypeOK /\ LockHeld /\ ReadIsCurrent
  BY DEF IInv
<1>1. CASE UNCHANGED <<calls, decision, asked>>
  BY <1>0, <1>1 DEF ReadIsCurrent, conversation, waiting, effects, resuming, calls, history
<1>2. ASSUME NEW c \in Clients, NEW r \in Requests, NEW p \in Choices, Submit(c, r, p)
      PROVE  ReadIsCurrent'
  BY <1>0, <1>2, ToolConfirmationAssumption DEF Submit, Registered, ReadIsCurrent, TypeOK,
         CallTypes, LockHeld, Locked, conversation, waiting, effects, resuming, calls, history
<1>3. ASSUME NEW c \in Clients, Acquire(c) PROVE ReadIsCurrent'
  BY <1>0, <1>3, ToolConfirmationAssumption DEF Acquire, Goto, ReturnOk, ReturnErr,
         SubmissionLockFree, ReadIsCurrent, TypeOK, CallTypes, LockHeld, Locked, conversation,
         waiting, effects, resuming, calls, history
<1>4. ASSUME NEW c \in Clients, RouteLive(c) PROVE ReadIsCurrent'
  BY <1>0, <1>4, ToolConfirmationAssumption DEF RouteLive, ReturnOk, NotifyWaiters, Registered,
         ReadIsCurrent, TypeOK, CallTypes, LockHeld, Locked, conversation, waiting, effects,
         resuming, calls, history
<1>5. ASSUME NEW c \in Clients, RouteStateMachine(c) PROVE ReadIsCurrent'
  BY <1>0, <1>5, ToolConfirmationAssumption DEF RouteStateMachine, Goto, ReturnErr, Registered,
         ReadIsCurrent, TypeOK, CallTypes, LockHeld, Locked, conversation, waiting, effects,
         resuming, calls, history
<1>6. ASSUME NEW c \in Clients, ReadConversation(c) PROVE ReadIsCurrent'
  BY <1>0, <1>6, ToolConfirmationAssumption DEF ReadConversation, Goto, ReturnErr, ReadIsCurrent,
         TypeOK, CallTypes, LockHeld, Locked, conversation, waiting, effects, resuming, calls,
         history
<1>7. ASSUME NEW c \in Clients, AppendDecision(c) PROVE ReadIsCurrent'
  BY <1>0, <1>7, ToolConfirmationAssumption DEF AppendDecision, Goto, ReadIsCurrent, TypeOK,
         ConversationTypes, CallTypes, LockHeld, Locked, conversation, waiting, effects, resuming,
         calls, history
<1>8. ASSUME NEW c \in Clients, RecordAnswer(c) PROVE ReadIsCurrent'
  BY <1>0, <1>8, ToolConfirmationAssumption DEF RecordAnswer, ReturnOk, ReturnErr, NotifyWaiters,
         ReadIsCurrent, TypeOK, CallTypes, LockHeld, Locked, conversation, waiting, effects,
         resuming, calls, history
<1>9. ASSUME NEW c \in Clients, DropSubmission(c) PROVE ReadIsCurrent'
  BY <1>0, <1>9, ToolConfirmationAssumption DEF DropSubmission, Interrupted, ReadIsCurrent,
         TypeOK, CallTypes, LockHeld, Locked, conversation, waiting, effects, resuming, calls,
         history
<1>10. CASE Crash
  BY <1>0, <1>10, ToolConfirmationAssumption DEF Crash, Interrupted, ReadIsCurrent, TypeOK,
         CallTypes, LockHeld, Locked, conversation, waiting, effects, resuming, calls, history
<1>11. CASE PersistAsk
  BY <1>0, <1>11, ToolConfirmationAssumption DEF PersistAsk, ReadIsCurrent, TypeOK, CallTypes,
         LockHeld, Locked, conversation, waiting, effects, resuming, calls, history
<1>12. ASSUME NEW new \in SUBSET Tools, NEW failed \in BOOLEAN, CommitInference(new, failed)
       PROVE  ReadIsCurrent'
  BY <1>0, <1>12, ToolConfirmationAssumption DEF CommitInference, AfterStep, RunOver, EndTurn,
         Registered, OpenTools, ReadIsCurrent, TypeOK, CallTypes, LockHeld, Locked, conversation,
         waiting, effects, resuming, calls, history
<1> QED  BY <1>1, <1>2, <1>3, <1>4, <1>5, <1>6, <1>7, <1>8, <1>9, <1>10, <1>11, <1>12, CallsFrame,
         DecisionFrame, AskedFrame DEF conversation, waiting, effects, calls

LEMMA AnswerKept ==
  ASSUME IInv, [Next]_vars
  PROVE  AnswerIsPersisted'
<1>0. TypeOK /\ ReadIsCurrent /\ AnswerIsPersisted
  BY DEF IInv
<1>1. CASE UNCHANGED <<answer, decision>>
  BY <1>0, <1>1 DEF AnswerIsPersisted, Requests, conversation, waiting, effects, resuming, calls,
         history
<1>2. CASE ResumeStart
  BY <1>0, <1>2, ToolConfirmationAssumption, StoredIsDecision DEF ResumeStart, AnswerIsPersisted,
         Requests, TypeOK, WaitingTypes, conversation, waiting, effects, resuming, calls, history
<1>3. CASE CheckAnswers
  BY <1>0, <1>3, ToolConfirmationAssumption, StoredIsDecision DEF CheckAnswers, EndTurn,
         Registered, AnswerIsPersisted, Requests, TypeOK, WaitingTypes, conversation, waiting,
         effects, resuming, calls, history
<1>4. CASE WakeUp
  BY <1>0, <1>4, ToolConfirmationAssumption, StoredIsDecision DEF WakeUp, AnswerIsPersisted,
         Requests, TypeOK, WaitingTypes, conversation, waiting, effects, resuming, calls, history
<1>5. CASE WaitCancelled
  BY <1>0, <1>5, ToolConfirmationAssumption, StoredIsDecision DEF WaitCancelled, EndTurn,
         AnswerIsPersisted, Requests, TypeOK, WaitingTypes, conversation, waiting, effects,
         resuming, calls, history
<1>6. CASE StepCancelled
  <2>1. decision' = decision
    BY <1>6 DEF StepCancelled, conversation
  <2>2. answer' = answer \/ answer' = [t \in Requests |-> None]
    BY <1>6 DEF StepCancelled, RunOver, EndTurn, waiting
  <2> QED  BY <1>0, <2>1, <2>2, StoredIsDecision DEF AnswerIsPersisted, Requests
<1>7. CASE Publish
  BY <1>0, <1>7, ToolConfirmationAssumption, StoredIsDecision DEF Publish, Registered,
         AnswerIsPersisted, Requests, TypeOK, WaitingTypes, conversation, waiting, effects,
         resuming, calls, history
<1>8. CASE CommitExecution
  <2>1. decision' = decision
    BY <1>8 DEF CommitExecution, conversation
  <2>2. answer' = answer \/ answer' = [t \in Requests |-> None]
    BY <1>8 DEF CommitExecution, AfterStep, RunOver, EndTurn, waiting
  <2> QED  BY <1>0, <2>1, <2>2, StoredIsDecision DEF AnswerIsPersisted, Requests
<1>9. ASSUME NEW r \in LiveRequests, LiveAsk(r) PROVE AnswerIsPersisted'
  BY <1>0, <1>9, ToolConfirmationAssumption, StoredIsDecision DEF LiveAsk, AnswerIsPersisted,
         Requests, TypeOK, WaitingTypes, conversation, waiting, effects, resuming, calls, history
<1>10. ASSUME NEW new \in SUBSET Tools, NEW failed \in BOOLEAN, CommitInference(new, failed)
       PROVE  AnswerIsPersisted'
  <2>1. decision' = decision
    BY <1>10 DEF CommitInference, conversation
  <2>2. answer' = answer \/ answer' = [t \in Requests |-> None]
    BY <1>10 DEF CommitInference, AfterStep, RunOver, EndTurn, waiting
  <2> QED  BY <1>0, <2>1, <2>2, StoredIsDecision DEF AnswerIsPersisted, Requests
<1>11. CASE RunEnds
  <2>1. decision' = decision
    BY <1>11 DEF RunEnds, conversation
  <2>2. answer' = answer \/ answer' = [t \in Requests |-> None]
    BY <1>11 DEF RunEnds, RunOver, EndTurn, waiting
  <2> QED  BY <1>0, <2>1, <2>2, StoredIsDecision DEF AnswerIsPersisted, Requests
<1>12. ASSUME NEW c \in Clients, RouteLive(c) PROVE AnswerIsPersisted'
  BY <1>0, <1>12, ToolConfirmationAssumption, StoredIsDecision DEF RouteLive, ReturnOk,
         NotifyWaiters, Registered, AnswerIsPersisted, Requests, TypeOK, WaitingTypes, CallTypes,
         conversation, waiting, effects, resuming, calls, history
<1>13. ASSUME NEW c \in Clients, RecordAnswer(c) PROVE AnswerIsPersisted'
  BY <1>0, <1>13, ToolConfirmationAssumption, StoredIsDecision DEF RecordAnswer, ReturnOk,
         ReturnErr, NotifyWaiters, AnswerIsPersisted, Requests, TypeOK, WaitingTypes, CallTypes,
         ReadIsCurrent, conversation, waiting, effects, resuming, calls, history
<1>14. CASE DropTurn
  BY <1>0, <1>14, ToolConfirmationAssumption, StoredIsDecision DEF DropTurn, Interrupted, EndTurn,
         AnswerIsPersisted, Requests, TypeOK, WaitingTypes, conversation, waiting, effects,
         resuming, calls, history
<1>15. CASE Crash
  BY <1>0, <1>15, ToolConfirmationAssumption, StoredIsDecision DEF Crash, Interrupted,
         AnswerIsPersisted, Requests, TypeOK, WaitingTypes, conversation, waiting, effects,
         resuming, calls, history
<1>16. ASSUME NEW c \in Clients, AppendDecision(c) PROVE AnswerIsPersisted'
  BY <1>0, <1>16, ToolConfirmationAssumption, StoredIsDecision DEF AppendDecision, Goto,
         AnswerIsPersisted, Requests, TypeOK, ConversationTypes, CallTypes, ReadIsCurrent,
         conversation, waiting, effects, resuming, calls, history
<1> QED  BY <1>1, <1>2, <1>3, <1>4, <1>5, <1>6, <1>7, <1>8, <1>9, <1>10, <1>11, <1>12, <1>13,
         <1>14, <1>15, <1>16, WaitingFrame, DecisionFrame DEF conversation, waiting, effects,
         calls

LEMMA GateKept ==
  ASSUME IInv, [Next]_vars
  PROVE  PermissionGate'
<1>0. TypeOK /\ EffectsAreOfStep /\ HeldBeforeAsked /\ ReadIsCurrent /\ PermissionGate
  BY DEF IInv
<1>1. CASE UNCHANGED <<asked, executable, decision>>
  BY <1>0, <1>1 DEF PermissionGate, Allowing, conversation, waiting, effects, resuming, calls,
         history
<1>2. ASSUME NEW r \in Tools, PersistMark(r) PROVE PermissionGate'
  BY <1>0, <1>2, ToolConfirmationAssumption, StoredIsDecision DEF PersistMark, Wanted,
         PermissionGate, Allowing, TypeOK, ConversationTypes, conversation, waiting, effects,
         resuming, calls, history
<1>3. ASSUME NEW r \in Tools, PersistHold(r) PROVE PermissionGate'
  BY <1>0, <1>3, ToolConfirmationAssumption, StoredIsDecision DEF PersistHold, PermissionGate,
         TypeOK, ConversationTypes, conversation, waiting, effects, resuming, calls, history
<1>4. CASE PersistAsk
  BY <1>0, <1>4, ToolConfirmationAssumption, StoredIsDecision DEF PersistAsk, PermissionGate,
         HeldBeforeAsked, conversation, waiting, effects, resuming, calls, history
<1>5. ASSUME NEW new \in SUBSET Tools, NEW failed \in BOOLEAN, CommitInference(new, failed)
      PROVE  PermissionGate'
  BY <1>0, <1>5, ToolConfirmationAssumption, StoredIsDecision DEF CommitInference, AfterStep,
         RunOver, EndTurn, Registered, PermissionGate, EffectsAreOfStep, conversation, waiting,
         effects, resuming, calls, history
<1>6. ASSUME NEW c \in Clients, AppendDecision(c) PROVE PermissionGate'
  BY <1>0, <1>6, ToolConfirmationAssumption, StoredIsDecision DEF AppendDecision, Goto,
         PermissionGate, ReadIsCurrent, TypeOK, ConversationTypes, CallTypes, conversation,
         waiting, effects, resuming, calls, history
<1> QED  BY <1>1, <1>2, <1>3, <1>4, <1>5, <1>6, AskedFrame, ExecutableFrame, DecisionFrame

LEMMA AcceptedKept ==
  ASSUME IInv, [Next]_vars
  PROVE  AcceptedIsPersisted'
<1>0. TypeOK /\ ReadIsCurrent /\ AnswerIsPersisted /\ AcceptedIsPersisted
  BY DEF IInv
<1>1. CASE UNCHANGED <<accepted, decision>>
  BY <1>0, <1>1 DEF AcceptedIsPersisted, TypeOK, HistoryTypes, CallTypes, Requests, conversation,
         waiting, effects, resuming, calls, history
<1>2. ASSUME NEW c \in Clients, Acquire(c) PROVE AcceptedIsPersisted'
  BY <1>0, <1>2, ToolConfirmationAssumption, StoredIsDecision DEF Acquire, Goto, ReturnOk,
         ReturnErr, SubmissionLockFree, AcceptedIsPersisted, TypeOK, HistoryTypes, CallTypes,
         Requests, AnswerIsPersisted, conversation, waiting, effects, resuming, calls, history
<1>3. ASSUME NEW c \in Clients, RouteLive(c) PROVE AcceptedIsPersisted'
  BY <1>0, <1>3, ToolConfirmationAssumption DEF RouteLive, ReturnOk, NotifyWaiters, Registered,
         AcceptedIsPersisted, TypeOK, HistoryTypes, CallTypes, Requests, WaitingTypes,
         conversation, waiting, effects, resuming, calls, history
<1>4. ASSUME NEW c \in Clients, RecordAnswer(c) PROVE AcceptedIsPersisted'
  BY <1>0, <1>4, ToolConfirmationAssumption DEF RecordAnswer, ReturnOk, ReturnErr, NotifyWaiters,
         AcceptedIsPersisted, TypeOK, HistoryTypes, CallTypes, Requests, ReadIsCurrent,
         conversation, waiting, effects, resuming, calls, history
<1>5. ASSUME NEW c \in Clients, AppendDecision(c) PROVE AcceptedIsPersisted'
  BY <1>0, <1>5, ToolConfirmationAssumption, StoredIsDecision DEF AppendDecision, Goto,
         AcceptedIsPersisted, TypeOK, HistoryTypes, CallTypes, Requests, ReadIsCurrent,
         ConversationTypes, conversation, waiting, effects, resuming, calls, history
<1> QED  BY <1>1, <1>2, <1>3, <1>4, <1>5, AcceptedFrame, DecisionFrame

LEMMA RunsKept ==
  ASSUME IInv, [Next]_vars
  PROVE  RunsAreCounted'
<1>0. TypeOK /\ EffectsAreOfStep /\ RunsAreCounted
  BY DEF IInv
<1>1. CASE UNCHANGED <<turn, effects, response, runs, interruptions>>
  BY <1>0, <1>1 DEF RunsAreCounted, Spent, TypeOK, HistoryTypes, conversation, waiting, effects,
         resuming, calls, history
<1>2. CASE StartTurn
  BY <1>0, <1>2, ToolConfirmationAssumption DEF StartTurn, RunsAreCounted, Spent, TypeOK,
         HistoryTypes, conversation, waiting, effects, resuming, calls, history
<1>3. CASE ResumeStart
  BY <1>0, <1>3, ToolConfirmationAssumption DEF ResumeStart, RunsAreCounted, Spent, TypeOK,
         HistoryTypes, conversation, waiting, effects, resuming, calls, history
<1>4. CASE Arm
  BY <1>0, <1>4, ToolConfirmationAssumption DEF Arm, RunsAreCounted, Spent, TypeOK, HistoryTypes,
         conversation, waiting, effects, resuming, calls, history
<1>5. CASE CheckAnswers
  BY <1>0, <1>5, ToolConfirmationAssumption DEF CheckAnswers, AllAnswered, EndTurn, Registered,
         RunsAreCounted, Spent, TypeOK, HistoryTypes, conversation, waiting, effects, resuming,
         calls, history
<1>6. CASE Sleep
  BY <1>0, <1>6, ToolConfirmationAssumption DEF Sleep, RunsAreCounted, Spent, TypeOK,
         HistoryTypes, conversation, waiting, effects, resuming, calls, history
<1>7. CASE WakeUp
  BY <1>0, <1>7, ToolConfirmationAssumption DEF WakeUp, RunsAreCounted, Spent, TypeOK,
         HistoryTypes, conversation, waiting, effects, resuming, calls, history
<1>8. CASE WaitCancelled
  BY <1>0, <1>8, ToolConfirmationAssumption DEF WaitCancelled, EndTurn, RunsAreCounted, Spent,
         TypeOK, HistoryTypes, conversation, waiting, effects, resuming, calls, history
<1>9. CASE StepCancelled
  BY <1>0, <1>9, ToolConfirmationAssumption DEF StepCancelled, RunOver, EndTurn, Registered,
         OpenTools, RunsAreCounted, Spent, TypeOK, HistoryTypes, ConversationTypes, conversation,
         waiting, effects, resuming, calls, history
<1>10. ASSUME NEW denied \in SUBSET Tools, NEW questioned \in SUBSET Tools,
              BeginApproval(denied, questioned)
       PROVE  RunsAreCounted'
  BY <1>0, <1>10, ToolConfirmationAssumption DEF BeginApproval, Unapplied, ToInspect, OpenTools,
         RunsAreCounted, Spent, TypeOK, HistoryTypes, conversation, waiting, effects, resuming,
         calls, history
<1>11. ASSUME NEW r \in Tools, PersistMark(r) PROVE RunsAreCounted'
  BY <1>0, <1>11, ToolConfirmationAssumption DEF PersistMark, Wanted, RunsAreCounted, Spent,
         TypeOK, HistoryTypes, conversation, waiting, effects, resuming, calls, history
<1>12. ASSUME NEW r \in Tools, PersistHold(r) PROVE RunsAreCounted'
  BY <1>0, <1>12, ToolConfirmationAssumption DEF PersistHold, RunsAreCounted, Spent, TypeOK,
         HistoryTypes, conversation, waiting, effects, resuming, calls, history
<1>13. CASE PersistAsk
  BY <1>0, <1>13, ToolConfirmationAssumption DEF PersistAsk, RunsAreCounted, Spent, TypeOK,
         HistoryTypes, conversation, waiting, effects, resuming, calls, history
<1>14. CASE Publish
  BY <1>0, <1>14, ToolConfirmationAssumption DEF Publish, Registered, RunsAreCounted, Spent,
         TypeOK, HistoryTypes, conversation, waiting, effects, resuming, calls, history
<1>15. CASE BeginExecution
  BY <1>0, <1>15, ToolConfirmationAssumption DEF BeginExecution, ToExecute, ToDecline, OpenTools,
         RunsAreCounted, Spent, TypeOK, HistoryTypes, conversation, waiting, effects, resuming,
         calls, history
<1>16. CASE CommitExecution
  BY <1>0, <1>16, ToolConfirmationAssumption DEF CommitExecution, AfterStep, RunOver, EndTurn,
         Registered, RunsAreCounted, Spent, TypeOK, HistoryTypes, ConversationTypes, conversation,
         waiting, effects, resuming, calls, history
<1>17. CASE BeginInference
  BY <1>0, <1>17, ToolConfirmationAssumption DEF BeginInference, RunsAreCounted, Spent, TypeOK,
         HistoryTypes, conversation, waiting, effects, resuming, calls, history
<1>18. ASSUME NEW new \in SUBSET Tools, NEW failed \in BOOLEAN, CommitInference(new, failed)
       PROVE  RunsAreCounted'
  BY <1>0, <1>18, ToolConfirmationAssumption DEF CommitInference, AfterStep, RunOver, EndTurn,
         Registered, OpenTools, RunsAreCounted, Spent, TypeOK, HistoryTypes, ConversationTypes,
         conversation, waiting, effects, resuming, calls, history
<1>19. CASE RunEnds
  BY <1>0, <1>19, ToolConfirmationAssumption DEF RunEnds, RunOver, EndTurn, Registered,
         RunsAreCounted, Spent, TypeOK, HistoryTypes, conversation, waiting, effects, resuming,
         calls, history
<1>20. ASSUME NEW r \in LiveRequests, LiveAsk(r) PROVE RunsAreCounted'
  BY <1>0, <1>20, ToolConfirmationAssumption DEF LiveAsk, RunsAreCounted, Spent, TypeOK,
         HistoryTypes, conversation, waiting, effects, resuming, calls, history
<1>21. CASE DropTurn
  BY <1>0, <1>21, ToolConfirmationAssumption DEF DropTurn, Interrupted, EndTurn, RunsAreCounted,
         Spent, TypeOK, HistoryTypes, conversation, waiting, effects, resuming, calls, history
<1>22. CASE Crash
  BY <1>0, <1>22, ToolConfirmationAssumption DEF Crash, Interrupted, RunsAreCounted, Spent,
         TypeOK, HistoryTypes, conversation, waiting, effects, resuming, calls, history
<1>23. ASSUME NEW c \in Clients, DropSubmission(c) PROVE RunsAreCounted'
  BY <1>0, <1>23, ToolConfirmationAssumption DEF DropSubmission, Interrupted, RunsAreCounted,
         Spent, TypeOK, HistoryTypes, conversation, waiting, effects, resuming, calls, history
<1> QED  BY <1>1, <1>2, <1>3, <1>4, <1>5, <1>6, <1>7, <1>8, <1>9, <1>10, <1>11, <1>12, <1>13,
         <1>14, <1>15, <1>16, <1>17, <1>18, <1>19, <1>20, <1>21, <1>22, <1>23, EffectsFrame,
         ResponseFrame, RunsFrame DEF conversation, waiting, effects, calls

LEMMA BatchKept ==
  ASSUME IInv, [Next]_vars
  PROVE  BatchIsDue'
<1>0. TypeOK /\ EffectsAreOfStep /\ PermissionGate /\ ReadIsCurrent /\ BatchIsDue
  BY DEF IInv
<1>1. CASE UNCHANGED <<turn, effects, asked, executable, decision, response, runs>>
  BY <1>0, <1>1 DEF BatchIsDue, conversation, waiting, effects, resuming, calls, history
<1>2. CASE StartTurn
  BY <1>0, <1>2, ToolConfirmationAssumption DEF StartTurn, BatchIsDue, conversation, waiting,
         effects, resuming, calls, history
<1>3. CASE ResumeStart
  BY <1>0, <1>3, ToolConfirmationAssumption DEF ResumeStart, BatchIsDue, conversation, waiting,
         effects, resuming, calls, history
<1>4. CASE Arm
  BY <1>0, <1>4, ToolConfirmationAssumption DEF Arm, BatchIsDue, conversation, waiting, effects,
         resuming, calls, history
<1>5. CASE CheckAnswers
  BY <1>0, <1>5, ToolConfirmationAssumption DEF CheckAnswers, AllAnswered, EndTurn, Registered,
         BatchIsDue, conversation, waiting, effects, resuming, calls, history
<1>6. CASE Sleep
  BY <1>0, <1>6, ToolConfirmationAssumption DEF Sleep, BatchIsDue, conversation, waiting, effects,
         resuming, calls, history
<1>7. CASE WakeUp
  BY <1>0, <1>7, ToolConfirmationAssumption DEF WakeUp, BatchIsDue, conversation, waiting,
         effects, resuming, calls, history
<1>8. CASE WaitCancelled
  BY <1>0, <1>8, ToolConfirmationAssumption DEF WaitCancelled, EndTurn, BatchIsDue, conversation,
         waiting, effects, resuming, calls, history
<1>9. CASE StepCancelled
  BY <1>0, <1>9, ToolConfirmationAssumption DEF StepCancelled, RunOver, EndTurn, Registered,
         OpenTools, BatchIsDue, conversation, waiting, effects, resuming, calls, history
<1>10. ASSUME NEW denied \in SUBSET Tools, NEW questioned \in SUBSET Tools,
              BeginApproval(denied, questioned)
       PROVE  BatchIsDue'
  BY <1>0, <1>10, ToolConfirmationAssumption DEF BeginApproval, Unapplied, ToInspect, OpenTools,
         BatchIsDue, conversation, waiting, effects, resuming, calls, history
<1>11. ASSUME NEW r \in Tools, PersistMark(r) PROVE BatchIsDue'
  BY <1>0, <1>11, ToolConfirmationAssumption DEF PersistMark, Wanted, BatchIsDue, conversation,
         waiting, effects, resuming, calls, history
<1>12. ASSUME NEW r \in Tools, PersistHold(r) PROVE BatchIsDue'
  BY <1>0, <1>12, ToolConfirmationAssumption DEF PersistHold, BatchIsDue, conversation, waiting,
         effects, resuming, calls, history
<1>13. CASE PersistAsk
  BY <1>0, <1>13, ToolConfirmationAssumption DEF PersistAsk, BatchIsDue, conversation, waiting,
         effects, resuming, calls, history
<1>14. CASE Publish
  BY <1>0, <1>14, ToolConfirmationAssumption DEF Publish, Registered, BatchIsDue, conversation,
         waiting, effects, resuming, calls, history
<1>15. CASE BeginExecution
  BY <1>0, <1>15, ToolConfirmationAssumption DEF BeginExecution, ToExecute, ToDecline, OpenTools,
         BatchIsDue, TypeOK, ConversationTypes, HistoryTypes, conversation, waiting, effects,
         resuming, calls, history
<1>16. CASE CommitExecution
  BY <1>0, <1>16, ToolConfirmationAssumption DEF CommitExecution, AfterStep, RunOver, EndTurn,
         Registered, BatchIsDue, conversation, waiting, effects, resuming, calls, history
<1>17. CASE BeginInference
  BY <1>0, <1>17, ToolConfirmationAssumption DEF BeginInference, BatchIsDue, conversation,
         waiting, effects, resuming, calls, history
<1>18. ASSUME NEW new \in SUBSET Tools, NEW failed \in BOOLEAN, CommitInference(new, failed)
       PROVE  BatchIsDue'
  BY <1>0, <1>18, ToolConfirmationAssumption DEF CommitInference, AfterStep, RunOver, EndTurn,
         Registered, OpenTools, BatchIsDue, conversation, waiting, effects, resuming, calls,
         history
<1>19. CASE RunEnds
  BY <1>0, <1>19, ToolConfirmationAssumption DEF RunEnds, RunOver, EndTurn, Registered,
         BatchIsDue, conversation, waiting, effects, resuming, calls, history
<1>20. ASSUME NEW r \in LiveRequests, LiveAsk(r) PROVE BatchIsDue'
  BY <1>0, <1>20, ToolConfirmationAssumption DEF LiveAsk, BatchIsDue, conversation, waiting,
         effects, resuming, calls, history
<1>21. CASE DropTurn
  BY <1>0, <1>21, ToolConfirmationAssumption DEF DropTurn, Interrupted, EndTurn, BatchIsDue,
         conversation, waiting, effects, resuming, calls, history
<1>22. CASE Crash
  BY <1>0, <1>22, ToolConfirmationAssumption DEF Crash, Interrupted, BatchIsDue, conversation,
         waiting, effects, resuming, calls, history
<1>23. ASSUME NEW c \in Clients, AppendDecision(c) PROVE BatchIsDue'
  BY <1>0, <1>23, ToolConfirmationAssumption, StoredIsDecision DEF AppendDecision, Goto,
         BatchIsDue, TypeOK, ConversationTypes, CallTypes, ReadIsCurrent, EffectsAreOfStep,
         PermissionGate, conversation, waiting, effects, resuming, calls, history
<1>24. ASSUME NEW c \in Clients, DropSubmission(c) PROVE BatchIsDue'
  BY <1>0, <1>24, ToolConfirmationAssumption DEF DropSubmission, Interrupted, BatchIsDue,
         conversation, waiting, effects, resuming, calls, history
<1> QED  BY <1>1, <1>2, <1>3, <1>4, <1>5, <1>6, <1>7, <1>8, <1>9, <1>10, <1>11, <1>12, <1>13,
         <1>14, <1>15, <1>16, <1>17, <1>18, <1>19, <1>20, <1>21, <1>22, <1>23, <1>24,
         EffectsFrame, AskedFrame, ExecutableFrame, DecisionFrame, ResponseFrame, RunsFrame
         DEF conversation, waiting, effects, calls

LEMMA LookKept ==
  ASSUME IInv, [Next]_vars
  PROVE  LookedOrTold'
<1>0. TypeOK /\ LookedOrTold
  BY DEF IInv
<1>1. CASE UNCHANGED <<turn, answer, woken>>
  BY <1>0, <1>1 DEF LookedOrTold, AllAnswered, Registered, conversation, waiting, effects,
         resuming, calls, history
<1>2. CASE StartTurn
  BY <1>0, <1>2, ToolConfirmationAssumption DEF StartTurn, LookedOrTold, AllAnswered, Registered,
         conversation, waiting, effects, resuming, calls, history
<1>3. CASE ResumeStart
  BY <1>0, <1>3, ToolConfirmationAssumption DEF ResumeStart, LookedOrTold, AllAnswered,
         Registered, conversation, waiting, effects, resuming, calls, history
<1>4. CASE Arm
  BY <1>0, <1>4, ToolConfirmationAssumption DEF Arm, LookedOrTold, AllAnswered, Registered,
         conversation, waiting, effects, resuming, calls, history
<1>5. CASE CheckAnswers
  BY <1>0, <1>5, ToolConfirmationAssumption DEF CheckAnswers, AllAnswered, EndTurn, Registered,
         LookedOrTold, conversation, waiting, effects, resuming, calls, history
<1>6. CASE Sleep
  BY <1>0, <1>6, ToolConfirmationAssumption DEF Sleep, LookedOrTold, AllAnswered, Registered,
         conversation, waiting, effects, resuming, calls, history
<1>7. CASE WakeUp
  BY <1>0, <1>7, ToolConfirmationAssumption DEF WakeUp, LookedOrTold, AllAnswered, Registered,
         conversation, waiting, effects, resuming, calls, history
<1>8. CASE WaitCancelled
  BY <1>0, <1>8, ToolConfirmationAssumption DEF WaitCancelled, EndTurn, LookedOrTold, AllAnswered,
         Registered, conversation, waiting, effects, resuming, calls, history
<1>9. CASE StepCancelled
  BY <1>0, <1>9, ToolConfirmationAssumption DEF StepCancelled, RunOver, EndTurn, Registered,
         OpenTools, LookedOrTold, AllAnswered, conversation, waiting, effects, resuming, calls,
         history
<1>10. ASSUME NEW denied \in SUBSET Tools, NEW questioned \in SUBSET Tools,
              BeginApproval(denied, questioned)
       PROVE  LookedOrTold'
  BY <1>0, <1>10, ToolConfirmationAssumption DEF BeginApproval, Unapplied, ToInspect, OpenTools,
         LookedOrTold, AllAnswered, Registered, conversation, waiting, effects, resuming, calls,
         history
<1>11. ASSUME NEW r \in Tools, PersistMark(r) PROVE LookedOrTold'
  BY <1>0, <1>11, ToolConfirmationAssumption DEF PersistMark, Wanted, LookedOrTold, AllAnswered,
         Registered, conversation, waiting, effects, resuming, calls, history
<1>12. ASSUME NEW r \in Tools, PersistHold(r) PROVE LookedOrTold'
  BY <1>0, <1>12, ToolConfirmationAssumption DEF PersistHold, LookedOrTold, AllAnswered,
         Registered, conversation, waiting, effects, resuming, calls, history
<1>13. CASE PersistAsk
  BY <1>0, <1>13, ToolConfirmationAssumption DEF PersistAsk, LookedOrTold, AllAnswered,
         Registered, conversation, waiting, effects, resuming, calls, history
<1>14. CASE Publish
  BY <1>0, <1>14, ToolConfirmationAssumption DEF Publish, Registered, LookedOrTold, AllAnswered,
         conversation, waiting, effects, resuming, calls, history
<1>15. CASE BeginExecution
  BY <1>0, <1>15, ToolConfirmationAssumption DEF BeginExecution, ToExecute, ToDecline, OpenTools,
         LookedOrTold, AllAnswered, Registered, conversation, waiting, effects, resuming, calls,
         history
<1>16. CASE CommitExecution
  BY <1>0, <1>16, ToolConfirmationAssumption DEF CommitExecution, AfterStep, RunOver, EndTurn,
         Registered, LookedOrTold, AllAnswered, conversation, waiting, effects, resuming, calls,
         history
<1>17. CASE BeginInference
  BY <1>0, <1>17, ToolConfirmationAssumption DEF BeginInference, LookedOrTold, AllAnswered,
         Registered, conversation, waiting, effects, resuming, calls, history
<1>18. ASSUME NEW new \in SUBSET Tools, NEW failed \in BOOLEAN, CommitInference(new, failed)
       PROVE  LookedOrTold'
  BY <1>0, <1>18, ToolConfirmationAssumption DEF CommitInference, AfterStep, RunOver, EndTurn,
         Registered, OpenTools, LookedOrTold, AllAnswered, conversation, waiting, effects,
         resuming, calls, history
<1>19. CASE RunEnds
  BY <1>0, <1>19, ToolConfirmationAssumption DEF RunEnds, RunOver, EndTurn, Registered,
         LookedOrTold, AllAnswered, conversation, waiting, effects, resuming, calls, history
<1>20. ASSUME NEW r \in LiveRequests, LiveAsk(r) PROVE LookedOrTold'
  BY <1>0, <1>20, ToolConfirmationAssumption DEF LiveAsk, LookedOrTold, AllAnswered, Registered,
         conversation, waiting, effects, resuming, calls, history
<1>21. CASE DropTurn
  BY <1>0, <1>21, ToolConfirmationAssumption DEF DropTurn, Interrupted, EndTurn, LookedOrTold,
         AllAnswered, Registered, conversation, waiting, effects, resuming, calls, history
<1>22. CASE Crash
  BY <1>0, <1>22, ToolConfirmationAssumption DEF Crash, Interrupted, LookedOrTold, AllAnswered,
         Registered, conversation, waiting, effects, resuming, calls, history
<1>23. ASSUME NEW c \in Clients, RouteLive(c) PROVE LookedOrTold'
  BY <1>0, <1>23, ToolConfirmationAssumption DEF RouteLive, ReturnOk, NotifyWaiters, Registered,
         LookedOrTold, AllAnswered, TypeOK, WaitingTypes, TurnTypes, CallTypes, conversation,
         waiting, effects, resuming, calls, history
<1>24. ASSUME NEW c \in Clients, RecordAnswer(c) PROVE LookedOrTold'
  BY <1>0, <1>24, ToolConfirmationAssumption DEF RecordAnswer, ReturnOk, ReturnErr, NotifyWaiters,
         LookedOrTold, AllAnswered, Registered, TypeOK, WaitingTypes, TurnTypes, CallTypes,
         conversation, waiting, effects, resuming, calls, history
<1> QED  BY <1>1, <1>2, <1>3, <1>4, <1>5, <1>6, <1>7, <1>8, <1>9, <1>10, <1>11, <1>12, <1>13,
         <1>14, <1>15, <1>16, <1>17, <1>18, <1>19, <1>20, <1>21, <1>22, <1>23, <1>24,
         EffectsFrame, WaitingFrame DEF conversation, waiting, effects, calls

-----------------------------------------------------------------------------
LEMMA InitHolds == Init => IInv
<1> SUFFICES ASSUME Init PROVE IInv  OBVIOUS
<1>1. TypeOK
  BY ToolConfirmationAssumption DEF Init, TypeOK, ConversationTypes, WaitingTypes, TurnTypes,
         CallTypes, HistoryTypes
<1>2. EffectsAreOfStep /\ NeedsAreFresh /\ HeldBeforeAsked /\ ResponsesAreUsed
  BY DEF Init, EffectsAreOfStep, NeedsAreFresh, HeldBeforeAsked, ResponsesAreUsed
<1>3. LockHeld /\ ReadIsCurrent
  BY DEF Init, LockHeld, Locked, ReadIsCurrent
<1>4. AnswerIsPersisted /\ PermissionGate /\ AcceptedIsPersisted
  BY StoredIsDecision DEF Init, AnswerIsPersisted, PermissionGate, AcceptedIsPersisted, Requests
<1>5. RunsAreCounted /\ BatchIsDue /\ LookedOrTold
  BY DEF Init, RunsAreCounted, Spent, BatchIsDue, LookedOrTold
<1> QED  BY <1>1, <1>2, <1>3, <1>4, <1>5 DEF IInv

LEMMA TypeKept ==
  ASSUME IInv, [Next]_vars
  PROVE  TypeOK'
BY ConversationTyped, WaitingTyped, TurnTyped, CallTyped, HistoryTyped DEF TypeOK

LEMMA Inductive == IInv /\ [Next]_vars => IInv'
<1> SUFFICES ASSUME IInv, [Next]_vars PROVE IInv'  OBVIOUS
<1>1. TypeOK' /\ EffectsAreOfStep' /\ NeedsAreFresh' /\ HeldBeforeAsked' /\ ResponsesAreUsed'
  BY TypeKept, EffectsKept, NeedsKept, HeldKept, ResponsesKept
<1>2. LockHeld' /\ ReadIsCurrent' /\ AnswerIsPersisted'
  BY LockKept, ReadKept, AnswerKept
<1>3. PermissionGate' /\ AcceptedIsPersisted' /\ RunsAreCounted' /\ BatchIsDue' /\ LookedOrTold'
  BY GateKept, AcceptedKept, RunsKept, BatchKept, LookKept
<1> QED  BY <1>1, <1>2, <1>3 DEF IInv

-----------------------------------------------------------------------------
(* What follows.                                                           *)

\* The strengthened invariant holds in every reachable state, whatever turns,
\* submissions, dropped streams and crashes do.
THEOREM Invariance == Spec => []IInv
BY InitHolds, Inductive, PTL DEF Spec

\* Types: what is on disk is never a raw "cancel" (state_machine_permission).
THEOREM TypeCorrect == Spec => []TypeOK
<1>1. IInv => TypeOK  BY DEF IInv
<1> QED  BY <1>1, Invariance, PTL

\* At every point a crash may strike, a request the user was asked about is held
\* or allowed (ToolApprovalOperation persists the hold before the question).
THEOREM Gated == Spec => []PermissionGate
<1>1. IInv => PermissionGate  BY DEF IInv
<1> QED  BY <1>1, Invariance, PTL

\* A caller that was told Ok finds its decision in the conversation for ever
\* (submit_tool_confirmation, under the submission lock).
THEOREM AnswersPersist == Spec => []AcceptedIsPersisted
<1>1. IInv => AcceptedIsPersisted  BY DEF IInv
<1> QED  BY <1>1, Invariance, PTL

\* A tool runs again only after an interruption lost its response
\* (ToolExecutionOperation).
THEOREM RerunsAreCounted == Spec => []RerunsNeedInterruption
<1>1. IInv => RerunsNeedInterruption
  BY DEF IInv, TypeOK, HistoryTypes, RunsAreCounted, RerunsNeedInterruption
<1> QED  BY <1>1, Invariance, PTL

\* The wait is told of the last answer (wait_for_all_confirmation_answers).
THEOREM WakeupKept == Spec => []NoLostWakeup
<1>1. IInv => NoLostWakeup  BY DEF IInv, LookedOrTold, NoLostWakeup
<1> QED  BY <1>1, Invariance, PTL

-----------------------------------------------------------------------------
(* ApprovalContract.                                                       *)

Started == {r \in Tools : runs[r] > 0}

\* Any response that was given before stays, and a new one is due.
LEMMA RespondIs ==
  ASSUME UNCHANGED <<asked, decision, runs>>,
         \A r \in Tools : \/ response'[r] = response[r]
                          \/ response[r] = None /\ response'[r] \in Contract!Due(r)
  PROVE  Contract!Next
<1>1. UNCHANGED <<asked \cap Tools, decision, Started>>
  BY DEF Started
<1>2. Contract!Respond
  BY <1>1 DEF Contract!Respond, Started
<1> QED  BY <1>2 DEF Contract!Next

LEMMA AskIs ==
  ASSUME IInv, PersistAsk
  PROVE  Contract!Next
<1>1. asking \in Tools /\ asking \notin asked /\ response[asking] = None
  BY DEF IInv, TypeOK, TurnTypes, NeedsAreFresh, PersistAsk
<1>2. (asked \cap Tools)' = (asked \cap Tools) \cup {asking}
  BY <1>1 DEF PersistAsk
<1>3. UNCHANGED <<decision, Started, response>>
  BY DEF PersistAsk, history, Started
<1>4. Contract!Ask
  BY <1>1, <1>2, <1>3 DEF Contract!Ask, Started
<1> QED  BY <1>4 DEF Contract!Next

LEMMA DecideIs ==
  ASSUME IInv, NEW c \in Clients, AppendDecision(c)
  PROVE  Contract!Next
<1>1. req[c] \in asked \cap Tools /\ decision[req[c]] = None /\ Stored(perm[c]) \in Decisions
  BY StoredIsDecision DEF IInv, TypeOK, CallTypes, ReadIsCurrent, AppendDecision
<1>2. decision' = [decision EXCEPT ![req[c]] = Stored(perm[c])]
  BY DEF AppendDecision
<1>3. UNCHANGED <<asked \cap Tools, Started, response>>
  BY DEF AppendDecision, Started
<1>4. Contract!Decide
  BY <1>1, <1>2, <1>3 DEF Contract!Decide, Started
<1> QED  BY <1>4 DEF Contract!Next

LEMMA DispatchIs ==
  ASSUME IInv, BeginExecution
  PROVE  Contract!Next
<1>1. UNCHANGED <<asked \cap Tools, decision, response>>
  BY DEF BeginExecution, conversation
<1>2. ToExecute \subseteq {r \in Tools : Contract!Permitted(r) /\ response[r] = None}
  BY DEF IInv, PermissionGate, ToExecute, OpenTools, Contract!Permitted
<1>3. Started' = Started \cup ToExecute
  BY <1>2 DEF IInv, TypeOK, HistoryTypes, BeginExecution, Started
<1>4. Contract!Dispatch
  BY <1>1, <1>2, <1>3 DEF Contract!Dispatch, Started
<1> QED  BY <1>4 DEF Contract!Next

LEMMA CommitIs ==
  ASSUME IInv, CommitExecution
  PROVE  Contract!Next
<1>1. UNCHANGED <<asked, decision, runs>>
  BY DEF CommitExecution, AfterStep, RunOver, EndTurn, conversation, history
<1>2. ASSUME NEW r \in Tools, r \in batch
      PROVE  response[r] = None /\ response'[r] \in Contract!Due(r)
  <2>1. CASE executable[r] = "no"
    <3>1. response'[r] = "declined" /\ response[r] = None
      BY <1>2, <2>1 DEF CommitExecution, IInv, BatchIsDue
    <3>2. r \in asked => decision[r] \in Decisions \ Allowing
      BY <1>2, <2>1 DEF CommitExecution, IInv, BatchIsDue
    <3> QED  BY <3>1, <3>2 DEF Contract!Due
  <2>2. CASE executable[r] # "no"
    <3>1. response'[r] = "result" /\ response[r] = None /\ runs[r] > 0
      BY <1>2, <2>2 DEF CommitExecution, IInv, BatchIsDue
    <3>2. Contract!Permitted(r)
      BY <2>2 DEF IInv, PermissionGate, Contract!Permitted
    <3> QED  BY <3>1, <3>2 DEF Contract!Due
  <2> QED  BY <2>1, <2>2
<1>3. ASSUME NEW r \in Tools, r \notin batch PROVE response'[r] = response[r]
  BY <1>3 DEF CommitExecution
<1> QED  BY <1>1, <1>2, <1>3, RespondIs

LEMMA StepCancelledIs ==
  ASSUME IInv, StepCancelled
  PROVE  Contract!Next
<1>1. UNCHANGED <<asked, decision, runs>>
  BY DEF StepCancelled, history
<1>2. ASSUME NEW r \in Tools
      PROVE  \/ response'[r] = response[r]
             \/ response[r] = None /\ response'[r] \in Contract!Due(r)
  BY DEF StepCancelled, OpenTools, Contract!Due
<1> QED  BY <1>1, <1>2, RespondIs

\* What an inference brings is new, and so has no response.
LEMMA InferenceIs ==
  ASSUME IInv, NEW new \in SUBSET Tools, NEW failed \in BOOLEAN, CommitInference(new, failed)
  PROVE  Contract!Next
<1>1. UNCHANGED <<asked \cap Tools, decision, Started>>
  BY ToolConfirmationAssumption DEF CommitInference, IInv, EffectsAreOfStep, history, Started
<1>2. ASSUME NEW r \in Tools
      PROVE  \/ response'[r] = response[r]
             \/ response[r] = None /\ response'[r] \in Contract!Due(r)
  BY DEF CommitInference, OpenTools, Contract!Due, IInv, ResponsesAreUsed
<1>3. Contract!Respond
  BY <1>1, <1>2 DEF Contract!Respond, Started
<1> QED  BY <1>3 DEF Contract!Next

LEMMA ContractStep == IInv /\ [Next]_vars => [Contract!Next]_Contract!vars
<1> SUFFICES ASSUME IInv, [Next]_vars PROVE [Contract!Next]_Contract!vars  OBVIOUS
<1>1. CASE UNCHANGED <<asked, decision, response, runs>>
  BY <1>1 DEF Contract!vars
<1> QED  BY <1>1, AskedFrame, DecisionFrame, ResponseFrame, StartedFrame, AskIs, DecideIs,
         DispatchIs, CommitIs, StepCancelledIs, InferenceIs

\* The protocol implements ApprovalContract: asked first, decided once, run only
\* when allowed, answered once and as decided.
THEOREM ImplementsContract == Spec => KeepsContract
<1>1. Init => Contract!Init
  BY DEF Init, Contract!Init
<1> QED  BY <1>1, ContractStep, Invariance, PTL DEF Spec, KeepsContract, Contract!Spec
=============================================================================
