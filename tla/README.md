# TLA+ models of AIBuddy

AIBuddy is a general-purpose AI agent: a Rust core (`crates/aibuddy` and its
satellites) that loops between a language model and tools, a scheduler, an ACP
server for front ends, a chat gateway, and many providers and extensions. This
directory holds TLA+ models of the parts of the core where the *order* of things
decides whether the program is correct, TLC configurations that check them on
small instances, and TLAPS proofs of what holds for every instance. Paths are
relative to `src/crates/` unless they start with `src/`.

## 1. Inventory

| Component | State it keeps | Operations | Talks to | Model |
|---|---|---|---|---|
| **Tool confirmation** `aibuddy/src/agents/{tool_confirmation_coordinator,agent}.rs`, `agents/state_machine/{tool_confirmation,ops_tool_approval,ops_toolcalling}.rs`, `aibuddy-agent/src/inference.rs` | per session: turn lock, submission lock, map request -> answer, a `Notify`; on disk: requests, holds (`tool_meta`), questions, decisions, responses | start or resume a turn, wait, submit an answer, apply decisions, execute | session store, provider, ACP client | `ToolConfirmation` |
| **Scheduler** `aibuddy/src/scheduler.rs` | jobs and cron entries in memory, the job file, cancel tokens of running jobs | add, remove, pause, update, run now, kill, list, cron tick | agent, other processes through the file | `Scheduler` |
| **Agent manager** `aibuddy/src/execution/manager.rs` | LRU of agents, per-session creation locks, cancel tokens | get or create, remove, register and cancel a reply | session store, orchestrator | `AgentManager` |
| **Download manager** `aibuddy-download-manager/src/lib.rs` | progress per model id, partial files | download, cancel, retry, clear | HTTP, file system | `DownloadManager` |
| **Local model downloads** `aibuddy-local-inference/src/{management,hf_models}.rs` | cancellation channels, cached files | download, cancel, delete | download manager, Hugging Face | `ModelDownloads` |
| **Gateway** `aibuddy/src/gateway/{handler,manager}.rs` | per-user locks, queue of pending approvals | relay a message, submit a reply, stop | chat platform, agent | `GatewayRelay` |
| **ACP server** `aibuddy/src/acp/server.rs`, `acp/server/load_session.rs` | active run per session, sessions per connection, steer queues | prompt, steer, cancel, load, close, lose a connection | agent manager, agent | `ActiveRuns` |
| **Elicitation** `aibuddy/src/{action_required_manager,elicitation}.rs`, `agents/{mcp_client,extension_manager}.rs` | streams per tool call, pending requests with a deadline | dispatch, ask, claim, record, answer, time out | MCP server, conversation | `Elicitation` |
| **Turn pipeline** `aibuddy-agent/src/{machine,operation}.rs`, `agents/state_machine/ops_*.rs` | none in memory: every step re-reads the conversation | first applicable step wins; effects persisted, then published | session store, provider, hooks | its order, inside `ToolConfirmation` |
| **Session store** `aibuddy/src/session/session_manager.rs` | SQLite database | messages, metadata, usage | everything above | assumed atomic per call |
| Extensions, permissions, compaction, hooks, roaming, providers, inference engine, recipes, configuration, CLI, desktop | see `PROJECT.json` | | | section 11 |

The components interact as follows. A front end (ACP client, CLI, gateway) or
the scheduler asks the *agent manager* for the session's agent and starts a
turn on it. The turn takes the session's turn lock, appends the user's message
to the *session store* and drives the *pipeline*: load the conversation, let
the first applicable step produce effects, persist them one at a time, publish
the events, again. The approval step may stop the pipeline with questions; the
*turn* then sleeps on the coordinator until `submit_tool_confirmation`, called
from other tasks, has answered all of them, and starts another run. A tool call
may itself ask the user (*elicitation*). Steers reach a running turn through a
queue; cancellation reaches it through a token. Everything the program must
remember over a crash is in the conversation, the job file or partial files.

What is hard in it:

* several tasks touch one session (the turn, any number of answering clients,
  steering, cancellation, a second prompt on another connection);
* in-memory bookkeeping (answers, run registry, running marks, cancel tokens,
  locks made and pruned on demand) is separate from what is on disk, and is
  updated before or after it with an `await` in between;
* effects of one step are persisted one at a time, so a crash can fall between
  any two;
* a stream or a future may be dropped at any `await`, which runs only destructors;
* long operations (a scheduled job, a download) outlive the call that started
  them and are identified by keys that a later call reuses.

The hazards, each at its line and with the properties that catch it, are in
`PROJECT.json`.

## 2. Plan, and what became of it

1. `ToolConfirmation` with its contract and proofs (section 3): done, the
   refinement included.
2. `Scheduler` and its proofs (section 4): done, the two properties that hold
   for one caller included.
3. `AgentManager`, its abstract register and proofs (section 5): done.
4. `DownloadManager`, `ModelDownloads` and their proofs (sections 6, 7): done.
5. `GatewayRelay` and proofs (section 8): relay and approvals; pairing is not modelled.
6. `ActiveRuns` and proofs (section 9): done.
7. `Elicitation` and proofs (section 10): done for form elicitations of a session.

A separate module for the turn pipeline was given up: what its order decides is
in `ToolConfirmation`, and the stop-hook cap, the turn limit and the retry step
are sequential counters over conversation text.

Each component module `X` has constants with named assumptions, one action per
stretch of code between two awaits (or per critical section where tasks run on
several threads), and its properties at the end. A definition whose comment
starts with "Mutant:" is a plausible bug; nothing uses it, and each property is
known to be violated when one of them replaces the definition that follows.
`MCX` gives TLC its values, `XProofs` holds the proofs. Type invariants that
TLAPS proves are not checked again by TLC, except where only a part is proved.

## 3. Tool confirmation

| Module | Content |
|---|---|
| `ToolConfirmation` | the protocol of one session: turn, steps, submissions, disk, crash |
| `ApprovalContract` | what tool approval promises, as an abstract specification |
| `MCToolConfirmation` | symmetry for TLC |
| `ToolConfirmationProofs` | the inductive invariant, the theorems, the refinement |

**State.** The conversation is kept as what the code reads back out of it
(`ApprovalState::from_messages`, `pending_tool_confirmations`, `ends_turn`,
`InferenceRunner::applies`): which requests the model has made (`used`), which of
them lie behind the kickoff message (`window`), which have a question (`asked`),
the hold `tool_meta["aibuddy.executable"]`, the decision, the response, whether
the last message ends a turn (`last`) and whether the provider has the word
(`providerNext`). In memory: the coordinator's map (`answer`; "open" is the
code's `None`), the provider's own map (`live`) and whether the enabled
`Notified` was notified (`woken`). The turn is a label (`turn`; "idle" is the
free turn lock); what the step in progress has still to persist is in `marks`,
`needs`, `asking`, `batch`. Every caller of `submit_tool_confirmation` has a
label per `await` (`pc`); `own` are those whose prompt belongs to the present
turn, which a refused submission cancels. `Tools` are requests of the model,
`LiveRequests` approvals that a provider with `PermissionRouting::ActionRequired`
asks for in its stream.

| Code | Actions |
|---|---|
| `reply_with_state_machine` | `StartTurn` |
| `resume_state_machine_turn` | `ResumeRead`, `ResumeStart` (the conversation is read before the turn lock is taken) |
| `stream_state_machine_turn` | `RunOver`, `CheckAnswers`, `EndTurn` |
| `wait_for_all_confirmation_answers` | `Arm`, `CheckAnswers`, `Sleep`, `WakeUp`, `WaitCancelled` |
| `ToolApprovalOperation::run`, `apply_effects` | `BeginApproval`, `PersistMark`, `PersistHold`, `PersistAsk`, `Publish` |
| `ToolExecutionOperation::run` | `BeginExecution`, `CommitExecution` |
| `InferenceRunner::{infer,cancel}` | `BeginInference`, `LiveAsk`, `CommitInference`, `StepCancelled` |
| `SteerOperation`, end of the pipeline | `Steer`, `RunEnds` |
| `submit_tool_confirmation` | `Submit`, `Acquire`, `RouteLive`, `RouteStateMachine`, `ReadConversation`, `AppendDecision`, `RecordAnswer` |
| `on_cancel`, dropped futures, process death | `Cancel`, `DropTurn`, `DropSubmission`, `Crash` |

**Abstractions.** Messages and arguments are not kept. What the inspectors decide
and what a provider brings are any choice. Holds and questions are persisted
effect by effect; the responses of one execution are one message, as in the code.
Other pipeline steps (slash commands, compaction, stop hooks, turn limit, retry)
do not touch this state. Two branches are left out: the approval step that does
nothing in Chat mode (`ops_tool_approval.rs:56`) and the execution step's
response for a tool the user skipped (`ops_toolcalling.rs:856`), which asks nobody. The router of the legacy loop is not modelled: with the
state machine it is always empty. `resume_state_machine_turn` is modelled as the
operation it is, although its one caller (`acp/server/load_session.rs:428`) looks
for pending questions in a session loaded without its conversation and therefore
never gets there.

**Runs.**

| Run | Instance | Shows |
|---|---|---|
| `ToolConfirmationRaces` | 1 tool request, 2 clients, an allowing and a refusing choice, 1 steer, 2 interruptions | `PermissionGate`, `AcceptedIsPersisted`, `RerunsNeedInterruption`, and `KeepsContract`: the protocol implements `ApprovalContract` |
| `ToolConfirmationWait` | 1 tool request and 1 provider-routed approval, 1 client, 1 interruption, fair steps | `NoLostWakeup`, `WaitEnds` |

Two clients give every race the submission lock is for. One interruption puts a
crash, a dropped stream or a dropped submission between any two effects; two put
one in the recovery of another. A steer is the only thing that moves the kickoff
inside a turn. With two tools TLC takes too long for a routine run; that several
requests in one batch make no difference to the safety properties is what the
theorems, which hold for every set of requests, show.

**Fairness.** `WF(WaitStep)` and `WF(RunStep)`: the stream is polled by its
consumer. `WF(CallStep(c))`: a submission's future is polled by its task.
`SF(Acquire(c))`: `tokio::sync::Mutex` hands the lock on in order. `SF` on the
answer to a request that is open: a prompt that stays on the screen is answered;
without it no wait could end. None for cancellation, steers, new turns, crashes
and answers to stale prompts.

**Proved** (`ToolConfirmationProofs`, for every set of requests and clients and
every bound): `TypeCorrect`, `Gated` (`PermissionGate`), `AnswersPersist`
(`AcceptedIsPersisted`), `RerunsAreCounted`, `WakeupKept` (`NoLostWakeup`) and
`ImplementsContract` (`Spec => KeepsContract`). None is inductive alone. `IInv` adds:

* effects live only in the step that made them (`EffectsAreOfStep`), and what is
  to be asked about is open and was never asked about (`NeedsAreFresh`);
* a question is written only for a held request, with no mark left to write
  (`HeldBeforeAsked`), which gives the gate;
* only the holder of the submission lock is past `Acquire` (`LockHeld`), so what it
  read of the conversation is still so when it appends (`ReadIsCurrent`), and a
  state-machine answer in memory has its decision on disk (`AnswerIsPersisted`):
  "Ok" means "on disk", and a decision is made once;
* a tool that was started has its response, is in the batch in execution, or its
  run was paid for by an interruption (`RunsAreCounted`);
* no answer that comes in meanwhile changes what the batch in execution is due
  (`BatchIsDue`), which gives the contract its response step;
* a wait that has looked is told of the answers it did not see (`LookedOrTold`).

Only model-checked: `WaitEnds` (liveness is out of the prover's reach).

**What the code does that a reader may not expect**; none is excluded by a
statement of the repository, and the properties hold with it:

* a provider-routed approval is shown by the stream and published again when the
  inference is persisted (`state_machine/session.rs:119`): registered twice when
  the first wait is over, it prompts the client for an answered request, whose
  answer is refused, which cancels the turn;
* a resume registers an approval the provider has had answered as open, since no
  decision of it is on disk (`agent.rs:1837`; "None means still unanswered",
  `tool_confirmation_coordinator.rs:21`);
* a steer after the executed part of a mixed batch moves the kickoff past the
  question that is still open, and its answer is refused ("not awaiting
  confirmation").

## 4. Scheduler

`Scheduler` is one process's scheduler, its job file, crashes, and a second process
on the same file; `MCScheduler` has the symmetry; `SchedulerProofs` the proofs.

**State.** The `jobs` map is kept as its keys (`jobs`), the paused and running
marks, the cron expression and the uuid of each job's cron entry. `timer` is what
`TokioJobScheduler` has registered; `tokens` is `running_tasks`; `disk` and
`readable` are the job file. A caller or a cron closure (`Procs`) has a label per
critical section or await (`pc`), and the operation, job, expression and uuid it
carries (`op`, `job`, `want`, `held`); a sync has the list it read and what it is
still to register and remove (`snap`, `adds`, `drops`). `other` is the list a CLI
command has loaded and not yet written back. Two history variables record what
calls that ended half way have left behind: their operation and job (`cutOff`), and
the jobs whose change nobody is left to write (`unsaved`); a restart, which loads
what is on disk, empties both.

| Code | Actions |
|---|---|
| `add_scheduled_job_inner` | `Add`, `Register`, `Insert`, `Save` |
| `update_schedule` | `Update`, `Unregister`, `Register`, `Replace`, `Save` |
| `remove_scheduled_job` | `Remove`, `Unregister`, `Save` |
| `schedule_recipe` | `ScheduleRecipe` (one of the three above) |
| `pause_schedule`, `unpause_schedule` | `Pause`, `Unpause`, `Save` |
| `kill_running_job` | `Kill`, `CancelToken`, `Unmark`, `Save` |
| `run_now` | `RunNow`, then as a tick from `SaveStart` on |
| closure of `create_cron_task` | `Fire`, `CheckDue`, `Mark`, `SaveStart`, `PutToken`, `ExecuteEnds`, `DropToken`, `Finish`, `Save` |
| `sync_from_storage` | `ListRead`, `ListCompare`, `SyncRegister`, `SyncInsert`, `SyncUnregister`, `SyncDrop`, `ListReturns` |
| a caller's future dropped at an await (connection lost, `acp/server/dispatch.rs:479`) | `Abandon` |
| process death, `Scheduler::new` | `Restart` |
| `aibuddy schedule add` / `remove` | `OtherLoads`, `OtherAdds`, `OtherRemoves` |

**Abstractions.** A job's recipe, parameters, session id and time stamps are left
out, with the copying of recipes and the run itself (`ExecuteEnds`). Serialising
the list and writing it are one step that reads the map as it is then; a write can
fail with the file untouched or truncated, and a crash can fall inside it. A
caller can be dropped wherever it awaits, since the requests of an ACP client run
in tasks of its connection while the scheduler is shared by all; a cron closure
runs in a task of its own and cannot. A dropped `run_now` leaves its token in the
table (`Orphan`). The
cron crate is external: every `add` returns a new uuid, `remove` of an entry that
is gone succeeds, and a registered entry may fire at any time. An early return
that changes nothing is a step that is not taken.

**Runs.**

| Run | Instance | Shows |
|---|---|---|
| `SchedulerRaces` | 1 job, 2 callers, 1 tick, 3 entries, 1 fault, every operation but list, pause and unpause | `RunningIsBacked`, `TokensAreLive`, `JobHasTimer`, `EveryChangeIsSaved` |
| `SchedulerRestarts` | 1 job, 1 caller that also lists, 1 tick, a bad expression, 1 fault, 1 command of another process, every operation but run_now, fair steps | `FiresAsShown`, `ListMergesTheFile`, `CancelledRunEnds` |

Operations on different jobs meet only in the file, which is written whole, so one
job shows every race on a job. Two callers and a tick are three actors on it: two
runs may overlap while a third call kills, updates or removes. Three entries let
two callers each hold an unplaced one beside the job's. `Ticks` bounds closures
alive at once, not how often an entry fires. A fault is a failed write, a dropped
caller or a crash (`MaxFaults` counts them together): one puts a failure of each
kind at every point between two steps. That several break no safety property is
what the theorems show, which hold for every bound. A pause is one locked assignment and a
save, as `kill` is, and is left to the other run.

**Fairness.** `WF` on the steps of a call or closure that has started: tasks are
polled and the file system answers. `WF` on the end of a run whose token was
cancelled: `execute_job` hands the token to `Agent::reply`, whose stream ends on
it. None for requests, ticks, crashes, or the end of a run that was not cancelled.

**Proved** (`SchedulerProofs`, for every set and every number of faults):
`TypeCorrect`, `LiveTokens` (`TokensAreLive`), `BackedMarks` (`RunningIsBacked`),
`SavedChanges` (`EveryChangeIsSaved`), `JobsFire` (`JobHasTimer`). Each holds
whatever is dropped, fails or crashes, and names what one call that ended half way
can leave of its own job: a mark or an `Orphan` token of a `run_now`, a missing
entry of an update or a sync, an unwritten change (a torn write loses the file of all
jobs). That no other job, no later run and no next process inherits it is what the
proofs are about. `BackedMarks`
and `SavedChanges` have the premise that nobody lists, part of the property: a sync
takes marks and jobs from an old file. `IInv` adds what a call carries
at each label (`CallShapes`, `SyncTypes`, parts of `TypeOK`); that a call is in a
sync only if callers list (`NoStraySync`); that an entry registered and not yet
in the map is known to its caller only (`PrivateEntries`; dropped with it, to
nobody); that no two jobs share
an entry and whatever is about to be unregistered belongs to the job it was read
from or to none (`EntryOwners`); and that an update that will be refused
unregisters only the entry of a job that shows a bad expression (`BadUpdates`).
`Frames` states what each action leaves alone; `CutOffGrows` that the record of
half-done calls is only ever emptied by a restart.

`OneCallerFires` (`FiresAsShown`) and `OneCallerMerges` (`ListMergesTheFile`) assume
`OneCaller`: at most one member in `Clients`, as in the run that checks them. Ticks,
failed writes, dropped calls, restarts and other processes stay free. `OneCallerInv`
says that every registered entry is in the map as the job shows it, in the caller's
hand, or of a job on which an add, update, remove or list was dropped
(`EntriesAccounted`); that the entry in hand is for the job and expression the caller
will write (`HeldAsShown`); that what the caller read under the jobs lock still holds
when it takes the lock again, which is where a second caller would break it
(`StillTrue`); and that what a sync has still to add and to drop completes the merge
(`MergeUnderWay`). The delicate step is a restart: the new process registers one
fresh entry per loadable job of the file, and nothing of the old one is left. Only
model-checked: `CancelledRunEnds`.

**What the code does**, and the properties therefore exclude by name:

* a run marks its job, writes the file and only then inserts its token; a kill in
  that window takes nothing out of the table, clears the mark and returns, and the
  CLI prints "Successfully killed running job" (`scheduler.rs:950`); the run goes on;
* a tick checks `paused` in one critical section and marks the job in the next
  (`scheduler.rs:349`); a pause between the two returns Ok and the run starts;
* two concurrent adds of one id leave the first one's entry registered
  (`FiresAsShown` is for one caller);
* a list that read the file before an add wrote it takes the new job for one
  deleted elsewhere (`EveryChangeIsSaved` without list);
* an update with an expression that does not parse leaves the job with that
  expression and without an entry (`JobHasTimer` names it);
* a `run_now` dropped while it awaits the run (`scheduler.rs:815`) leaves the running
  mark and the token, with no run behind them, until the job is run or killed again
  or the process restarts; one that fails to write leaves the mark;
* an update dropped between the removal of the old entry and the new uuid
  (`scheduler.rs:913`-`930`) leaves a job that shows its old uuid and never fires;
  an add or update dropped after the registration leaves an entry that fires for a
  job that is not there or shows another expression; a remove dropped before its
  write (`scheduler.rs:754`) is undone by a restart unless another call writes first;
* a torn write loads as an empty list; a CLI command that loaded the
  file before another process changed it writes the old list back;
* a job may run twice at once: `should_execute` does not look at the running mark,
  so there is no "at most one run" to state.

## 5. Agent manager

`AgentManager` is the cache of agents with its per-session creation locks and the
table of cancel tokens; `AgentRegistry` is the abstract register of one agent per
session it implements.

**State.** `cache` is the LRU (agents are numbered in the order they were
cached), `newer` its recency order, `lockOf` the `creation_locks` map, `arc` the
clones of a lock's `Arc` that callers hold (so `strong_count` can be read off),
`holder` who is inside each lock, `tokens` and `cancelled` the cancel tokens by
the reply that registered them, `got` the agent a caller was given last.

| Code | Actions |
|---|---|
| `get_or_create_agent_with_runtime_context` | `Call`, `Lookup`, `TakeArc`, `Acquire`, `PruneOwn` |
| `create_agent_locked` | `Recheck`, `BuildFails`, `Publish`, `PruneEvicted`, `Leave` |
| `remove_session` | `RemoveToken`, `Pop` |
| `OrchestratorClient::handle_send_message` | `TryRegister`, `SendFails`, `ReplyEnds`, `Unregister` |
| `cancel_session`, a dropped caller | `Interrupt`, `Abort` |

**Run** `AgentManager`: two callers, one of them droppable at its awaits, two
sessions, room for one agent, at most two agents made: every build beyond the
first evicts, and its victim's lock is pruned while the other caller may queue
for it. Shows `KeepsRegistry`, `GetReturns`, `OneBuilder`, `BusyIsBacked`. Two
callers are one inside and one queued at a lock; two sessions with room for one
are what eviction needs. **Fairness**: `WF` on a creation in progress (loading
extensions has timeouts of its own), `SF(Acquire(c))` (tokio's fair mutex).

**Proved** (`AgentManagerProofs`, every set and capacity): `TypeCorrect`,
`LockIsShared`, `BuiltOnce` (`OneBuilder`), `WithinCapacity`, `ManagerIsRegister`
(`Spec => KeepsRegistry`) and `BusyBacked`. The argument: a caller inside a lock
holds it and its `Arc` (`LockDiscipline`), all who queue for a session queue at
the lock of the map (`OneLockPerSession`), hence the builder is alone and its
session has no agent (`BuilderAlone`); the cache only grows in `Publish`, which
evicts at capacity (`Fits`). Only model-checked: `GetReturns`.

**What the code does**: `prune_creation_lock` leaves a lock somebody still holds
in the map (`manager.rs:305`), so it may outlive its session;
`unregister_cancel_token` removes whatever token the session has, another
reply's included (`manager.rs:367`); the orchestrator disarms its guard before it
awaits the removal (`orchestrator.rs:592`), so a send dropped there leaves its
session busy: the premise of `BusyIsBacked`.

## 6. Download manager

`DownloadManager` is one model of several files: the progress entry, the
background task that fetches the files one after the other, and the partial files.

**State.** `status`, `exited`, `shown`, `total` are the entry; `part` and `dest`
the files, each a sequence of chunks that name the version of the remote file
they were read from and their place in it; `remote` the version each URL serves;
per task its place, file, byte counts, retries and the response it reads. A 416
may answer any request, also one without a range (`refusals` counts those).

| Code | Actions |
|---|---|
| `download_model_sharded_with_bearer_token` and the task it spawns | `StartDownload`, `Mkdir`, `Complete`, `RemovePartials`, `Fail` |
| `download_files_sequentially` | `HeadPass`, `NextFile` |
| `download_one_file` | `OpenFile`, `RequestFails`, `RangeNotSatisfiable`, `Respond`, `Chunk`, `StreamFails`, `StreamEnds`, `Rename`, `StopCancelled`, `Backoff` |
| `cancel_download`, `clear_completed` | `CancelDownload`, `ClearCompleted` |
| process death, the server | `Crash`, `RemoteChanges` |

**Run** `DownloadManager`: two tasks, two files of two chunks that may shrink to
one on the server, one retry, one crash, one 416 to a request for a whole file,
every fault (directories, HEAD, network, HTTP errors, removals, changing remotes). Shows `TypeOK`, `ExitedIsTrue`,
`OneTask`, `DestIsWhole`, `TaskEnds`. Two chunks give a partial file that is
neither empty nor whole, one retry a resume and a give-up, two files a first and
a last. **Fairness**: `WF` on the steps of a task: it is spawned, and connects
and reads have timeouts. `TaskEnds` is about servers that answer 416 to a request
without a range at most `MaxRefusals` times: the code counts no attempt there and
would ask for ever (below).

**Proved** (`DownloadManagerProofs`): `TypesOfAll` (`TypeOK`), `OneTaskAtATime`,
`ExitedTellsTruth`, `BlockedHasTask` (unless a directory cannot be made),
`PromotedWhole` (`DestIsWhole`). A task at work always has an entry that says
so, and a final status comes with `task_exited` (`Exclusion`); that a promoted
file is whole rests on what a task knows of the partial file it writes
(`InPlace`, `InOrder`), for as long as no remote file has changed; none changes
back (`RemoteSteady`). The totals of a `HeadPass` are folds over the files; that
such a sum is a natural number (`SumType`) is proved without the library's
induction theorems, from the least counterexample (`LeastNumber`), first to the
existence of the function that the fold picks, then to its values.

`TasksRunOut` is what `TaskEnds` rests on beside fairness. What a task has left to do
is counted by the way through the files (`Way`), then by the attempts and the stage
of the present one (`Turns`), then by the chunks of the body still to come
(`Unread`). Every step of the task lowers this lexicographically, and no other step
raises it, neither a cancel nor a remote file that changes under a resume. One step
is excepted by name (`Refused`): a 416 to a request that had nothing to resume
removes no byte and counts no attempt, and leaves the task where it was
(`RefusedStays`); a 416 to a resume discards the partial file and is nearer. By
`DistanceIsFinite` the counts are natural numbers: a file has at most `MaxRetries`
retries and a body is never read beyond its length (`Bounded`). TLC checked both on
the run's instance before they were proved. The remaining inference, that a task
which is polled for ever then ends, is about `WF` and stays with the run: `TaskEnds`
is only model-checked.

**What the code does**: `download_one_file` starts over on every 416 with neither a
retry counted nor a pause (`lib.rs:497`-`505`), so a server or proxy that answers
416 to a request for the whole file keeps it in the loop until it is cancelled;
a directory that cannot be made leaves an entry that
refuses new downloads with no task behind it (`lib.rs:257`); a resume trusts the
length of the partial file only (`lib.rs:461`), so a file that changed on the
server meanwhile is promoted mixed; progress may pass 100 % (`lib.rs:553`).

## 7. Local model downloads

`ModelDownloads` composes the calls of `management.rs`, the Hugging Face task and
the manager's entries, for several models and requests.

**State.** The entry of each model (`status`, `exited`), whose cancellation channel
is registered (`sender`) and holds an unseen value (`signalled`); per task its
place, model and files still to fetch; `disk`, the cache; a cancelling request
between its mark and its signal; a deletion with the models its first scan listed.
A task's step is one poll of its biased `select!`: the cancellation is looked at
first, then the resolution goes on.

| Code | Actions |
|---|---|
| `download_model` and its task | `Reserve`, `Register`, `Subscribe`, `CancellationSeen`, `Resolve`, `ResolveFails`, `FetchFile`, `FetchFails`, `Complete`, `MarkDownloadFailed`, `Unregister`, `MarkTaskExited` |
| `cancel_download` | `Cancel`, `Signal` |
| `delete_cached_local_model` | `Scan`, `CheckActive`, `Remove` |

**Runs.** `ModelDownloads`: two variants of one repository that share a projector
file, two downloads, one cancelling and one deleting request, failing listings and
fetches: `TypeOK`, `CancelledStays`, `DeleteSparesListed`, `SignalEnds`. Two
downloads are a task and the one that replaces it, or one of each variant.
**Fairness**: `WF` on the task's own steps and on the signal of a cancel; none on
the network, so `SignalEnds` says that a cancelled task leaves even if it hangs.
`ModelDownloadsExited` is expected to be violated: see the finding.

**Proved** (`ModelDownloadsProofs`, every set of models, files, tasks and requests;
files of different repositories differ): `TypeCorrect`; `CancellationLasts`
(`CancelledStays`): each step that writes a status keeps "cancelled" but the
reservation; `DeletionSpares` (`DeleteSparesListed`), from `RemovableSpares`: a
listed model of the same repository is among the others whose files are kept, and
one of another repository shares none. The invariant is the types, with a model for
every deletion past its first scan. `SignalEnds` is only model-checked.

**Finding.** The manager documents `task_exited` as "Whether the background
download task has exited" (`aibuddy-download-manager/src/lib.rs:71`). The last
step of a Hugging Face task, `mark_download_task_exited`
(`management.rs:182`), sets it on whatever entry the model has then; when the
model was reserved again meanwhile, that is the entry of a task at work. The run
shows the shortest such behaviour; a third download may then start beside the
second.

**What the code does** besides: a cancel between the reservation and the
registration of the channel is only seen at the next status check
(`management.rs:155`); a deletion whose first scan is stale may remove files of a
model that finished in between (`hf_models.rs:2969`): `DeleteSparesListed` is
about the models the scan listed; a deletion does not keep a download of the same
repository from starting after its check (`hf_models.rs:2962`).

## 8. Gateway relay

`GatewayRelay` is `GatewayHandler` for one paired user, and the stop of the gateway.

**State.** Each message's `handle_message` has a place (`pc`); `slot`, `arc`,
`holder` are the per-user turn and reply locks, made and pruned on demand;
`pending` and `owner` the queue of approvals and the turn whose token it has; the
agent is what the handler sees of it: registered requests and answers (`answer`),
whether its run waits (`waiting`), cancelled turns.

| Code | Actions |
|---|---|
| `handle_message`, `per_user_lock`, `prune_per_user_lock` | `Receive`, `TakeArc`, `HandlePending`, `HandleChat`, `Prune` |
| `relay_to_session` | `Relay` (start, ask, enqueue, prompt, deny what could not be delivered, clear, end) |
| `handle_pending_confirmation`, `submit_pending_confirmation` | `Reply` (start, submit, pop, discard, end) |
| `stop_gateway`, `deny_pending_confirmations` | `Stop`, `DenyDrained`, `Stopped` |

**Run** `GatewayRelayRaces`: three messages (a turn, a reply, and either a second
of each) and two approvals, in one turn or in two; sends and stores may fail.
Shows `TypeOK`, `Serialized`, `RequestReachable`, `QueueIsCurrent`; the last two
until something fails. No fairness, no liveness: whether a turn ends is the agent's
promise (section 3).

**Proved** (`GatewayRelayProofs`, every set of messages, requests and faults):
`RelaySerialized`, `RelayReachable`, `RelayQueueIsCurrent`. `Serialized` says who has
a lock, and is not inductive: a lock could be pruned while somebody waits for it.
`LockInv` adds that whoever waits for a lock, or has it, has the Arc that is in the
map (`Arcs`), and is its holder when he has it (`Holders`). The other two rest on
`QueueFacts`, which hold until something fails or the gateway stops (`Good`, which
once lost is lost: `GoodBefore`): queued requests are distinct and unanswered, but
for the first one while its reply is between `Submit` and `Pop`; what the agent waits
for is queued or about to be. So a reply under the reply lock finds an unanswered
request in front (`ReplyStartStep`), its answer is refused only by a fault
(`NotRefused`), and nothing is discarded. `RelayTypesHold` (`TypeOK`) holds whatever
fails: a handler at a place that needs a request, an answer or a `cancel_token` has
one (`HasWhatItNeeds`), and an entry has an owner for as long as it has a request,
so a reply or a stop that reads the front of the queue reads an owner with it.
`Without` (`retain`) is a recursive function; that it exists and leaves a sequence
(`WithoutType`) is shown by its least counterexample, as in section 6.

**What the code does**: after a failed send a late reply's discard can take the
next turn's request off the queue; a stream error leaves its requests queued
(`handler.rs:769`); a reply always goes to the front of the queue, whichever
prompt the user saw. Pairing, configuration and the start of a gateway are not
modelled.

## 9. Active prompt runs

`ActiveRuns` is one session on the ACP server, with the state all connections
share and what each connection has of its own.

**State.** `registry` (`active_prompt_runs`), cancel tokens, drop guards
(`guard`); per connection `closed`, `sessions`, `managed` (its agent manager) and
versions of the agents made; per run the place of `on_prompt`, its connection and
agent; steers with the run they named and the run that picked them up, in the
agent's queue or in a detached one (`orphan`). A detached run takes the queue of the
registry anew when an approval of the state machine is answered (`agent.rs:1917`).

| Code | Actions |
|---|---|
| `on_prompt`, `start_active_run`, `forward_agent_stream` | `Prompt`, `Resolve`, `StartCheck`, `StartRefused`, `StartClaim`, `PromptFails`, `PromptStreams`, `StreamStopped`, `StreamFails`, `StreamEnds`, `Drain`, `AskApproval`, `AnswerApproval` |
| `clear_active_run`, end of `on_prompt` | `ClearActiveRun`, `ClearDiscards`, `ClearReaps`, `ClearUnlists`, `ClearUnloads`, `Finish` |
| `ActiveRunDropGuard::drop` and its task | `ConnectionLost`, `GuardRemoves`, `GuardDiscards` |
| `on_steer_session`, `on_cancel` | `RequireActiveRun`, `Steer`, `Cancel` |
| `on_close_session`, `handle_load_session` | `CloseMarks`, `CloseCancels`, `CloseUnlists`, `CloseUnloads`; `LoadPrepares`, `LoadRegisters`, `LoadReloads`, `LoadOpens` |

**Runs.** `ActiveRunsRaces`: two connections, two prompts, a steer, a close, a load
that reopens the session, connections lost at any await: `OneLoop`,
`SteerStaysWithAgent`. `ActiveRunsLive`: two prompts, a close and lost
connections, fair steps: `CancelledRunEnds`. Two prompts are the one in the
registry and the one that replaces or is refused; two connections the shared and
the own state. **Fairness**: `WF` on handlers and spawned tasks (prompt, guard,
close, load); none on the stream, which need never end, on an approval, which need
never be answered, or on losing a connection.

**Proved** (`ActiveRunsProofs`): `TypesHold` (with a bound on the agents that
prompts and loads make), `OneLoopHolds`, `SteersRouted`. Whoever relies on the
session holds it (`Holder`), because the guard removes only its own run and only
after the prompt is over (`GuardAfterwards`); wherever a steer is found, that is
the agent of the run it named (`Routed`). Only model-checked: `CancelledRunEnds`.

**What the code does**: a close between a prompt's closed check and its claim does
not stop it; a steer may be accepted after its run has ended (`server.rs:2521`),
or acknowledged and then dropped with the queue (`server.rs:2090`); a resumed turn
at load is never started (section 3).

## 10. Elicitation

`Elicitation` is one session's tool call dispatches, the elicitations MCP servers
issue in them, and the handlers of the answers. Dispatches may share a call id: one
that a script makes (`code_execution.rs:381`, a task of its own, which may outlive the
call the script runs in), and a second dispatch of a request that an interrupted turn
made and a resume makes again.

**State.** Per dispatch its place and stream, the sender registered for its call
id (`senders`), messages in the stream, `active_tool_calls` in order; per
elicitation the place of `request_and_wait`, the call it was resolved to, its
pending entry, oneshot channel and outcome; per handler its place, the request and
the claim (`lock`), and the messages recorded.

| Code | Actions |
|---|---|
| `dispatch_tool_call`, `send_request_with_context`, guards and streams dropped | `CheckStream`, `RegisterStream`, `Call`, `Return`, `DropCall`, `Unregister` |
| the consumer of a call's stream puts a question to the user | `Show` |
| `create_elicitation`, `resolve_tool_call_request_id` | `Ask` |
| `request_and_wait`, `wait_for_response` | `LookUp`, `Insert`, `TrySend`, `Receive`, `Deadline`, `GiveUp`, `Remove`, `DropWait` |
| `claim_response`, `complete_elicitation_with_message`, `PendingResponseClaim` | `Fetch`, `Claim`, `Record`, `RecordFails`, `Submit`, `Send` |
| a handler's future dropped, its message committed or not | `DropHandler` |

**Run** `Elicitation`: a tool call, one nested in it and a second dispatch of the
same request, all under one id; two elicitations of which one echoes the call id, two
handlers (of any session), streams of capacity one, waiters and handlers that may be
dropped, failing writes and deadlines. At most four dispatches and elicitations
happen in one behaviour (`MaxStarted`): any one of the five stays out, which leaves
every two dispatches and the two elicitations to race with each other. Shows `TypeOK`,
`OneAnswerRecorded`, `RecordedIsHeard`, `RefusedLeavesNoTrace`,
`StreamStaysRegistered`, `PendingIsWaited`, `ElicitationEnds`. Two handlers race for
one request or answer one each; capacity one makes the second elicitation find a
full stream. **Fairness**: `WF` on the steps of a waiter (the timer fires) and of a
handler (the database answers one way or the other), but not on dropping either;
nothing makes the user answer, the server ask or a call end.

**Proved** (`ElicitationProofs`): `OneAnswer`, `Heard`, `NoTrace`. A handler that
answers has seen the request, so it was sent (`SeenIsSent`, `AnswersSeen`), and is
past the only point where `request_and_wait` can fail to send it; a claim keeps the
sender and the waiter (`Claimed`); a handler that recorded and was not dropped took
the sender (`Taken`), of which a request has one, so there is one such handler
(`OneLives`), and what it recorded is what the channel holds (`Delivered`).
`RecordsAlone` is the step: who records holds the claim while the sender is there,
hence no other has recorded and lives. A dropped handler is the exception
that `OneAnswerRecorded` and `RecordedIsHeard` name.

`StreamsStay` (`StreamStaysRegistered`): `has_action_required_stream` and the
registration take the lock of the table separately, a nested dispatch may check after
its outer call is over, and a dropped stream unregisters by its key from a spawned
task. `CallInv` shows what is safe in that all the same. Nothing nested is dispatched
before its outer call has a stream (`NestedLater`, `NoneYet`), so while that stream
is open the nested one finds it and makes none (`Settled`); a registered sender is
of its own id, with its stream open or its unregistration on the way (`SendersLive`),
so an unregistration only ever follows a drop (`UnregDropped`). As long as nothing
else under the id had a stream (`Alone`) the entry is the first one's (`OwnStreams`).
`NoDeadSender` holds however dispatches share an id: no sender stays in the table
for good when its stream is gone.
`NoEntryOutlives` (`PendingIsWaited`) follows the entry through every way out of
`request_and_wait`; `TypeCorrect` (`TypeOK`) uses the types of calls and waiters
(`CallTypes`, `RestTypes`). Only model-checked: `ElicitationEnds`.

**What the code does**: a waiter outlives the cancelled tool call it belongs to,
until its deadline; an elicitation of a server that does not echo call ids goes to
the only active call, also when its own call has timed out (`mcp_client.rs:1532`
tests the rule). A handler dropped at the commit of `add_message`
(`session_manager.rs:1994`) leaves the answer in the conversation and the claim
released: the waiter hears nothing of it, and a second answer can be recorded. When a
request is dispatched again, the unregistration of the first dispatch's stream takes
out whatever sender the id has then (`action_required_manager.rs`), the second's
included, and its elicitations fail. All of these are in the model. A future of `request_and_wait` is dropped only where a
waiter can be waiting; its entry then stays in the pending map, the exception
`PendingIsWaited` names.

## 11. Not modelled

* The **legacy agent loop** (`reply_internal` with `tool_confirmation_router.rs`):
  the state machine replaces it.
* **Turn pipeline** beyond approval, execution, inference and steer: sequential
  counters over conversation text, covered by unit tests.
* **Session store**: SQL over one connection pool; that a call is atomic is assumed
  by every module that reads or writes the conversation.
* **Extension manager** beyond dispatches and their streams, **built-in MCP servers**,
  **providers**, **roaming**, **inference engine**: process, network and protocol I/O.
* **Permissions, compaction, hooks, recipes, configuration, telemetry**, the **CLI**,
  the **desktop application**: wire formats, parsing, prompt construction and user
  interfaces with no protocol of their own.

They appear as nondeterministic environments: what a provider brings, what an
inspector decides, whether a write fails. The models cover a small share of the
repository's lines because most of it is such input and output.

Only TLC stands behind liveness: `WaitEnds`, `CancelledRunEnds` (twice),
`GetReturns`, `TaskEnds`, `SignalEnds` and `ElicitationEnds` hold under fairness,
and `WF` is defined by `ENABLED`, which the prover does not handle. Every invariant
and every action property of the passing runs is a theorem, two of them under a
premise that the theorem states and the run shares, one caller (section 4).

## 12. Running

    tlc -workers 2 -config ToolConfirmationRaces.cfg MCToolConfirmation
    tlc -workers 2 -config SchedulerRaces.cfg MCScheduler
    tlapm ToolConfirmationProofs.tla
    tlapm GatewayRelayProofs.tla

The run of each `.cfg` and its module are in `PROJECT.json`; each passing run
takes from a second to about three and a half minutes.
