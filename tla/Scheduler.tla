------------------------------ MODULE Scheduler ------------------------------
(***************************************************************************)
(* The job scheduler of one aibuddy process: the job map and the cron      *)
(* entries in memory, the job file every change is written to, the runs    *)
(* that cron ticks and run_now start, the token table kill_running_job     *)
(* cancels them through, and sync_from_storage, which merges the file that *)
(* other processes write too.                                              *)
(*                                                                         *)
(* Every step is one critical section of the jobs or running_tasks lock,   *)
(* or one await point between two of them. At each of them the caller may  *)
(* be dropped, with its connection or its reply, and the process may die.  *)
(* A job is its id, its cron expression and its paused and running marks;  *)
(* its recipe, parameters, session and time stamps are left out.           *)
(***************************************************************************)
EXTENDS Naturals, FiniteSets

CONSTANTS
    Jobs,           \* job ids
    Crons,          \* cron expressions, those that do not parse included
    BadCrons,       \* those create_cron_task refuses
    MissingRecipes, \* jobs whose recipe file is not there at load and sync
    Clients,        \* concurrent callers of the scheduler
    Ticks,          \* bound: cron closures alive at once
    Timers,         \* uuids of cron entries; bound: entries registered at once
    Ops,            \* the operations the clients call
    MaxFaults,      \* bound: failed writes, dropped calls and restarts together
    MaxOthers       \* bound: commands another process runs on the same file

None == "none"
Orphan == "orphan"   \* the token of a run whose future was dropped
Procs == Clients \cup Ticks
AllOps == {"add", "update", "remove", "pause", "unpause", "kill", "run_now", "list"}

ASSUME CronsAssumption  == BadCrons \subseteq Crons /\ None \notin Crons
ASSUME JobsAssumption   == MissingRecipes \subseteq Jobs /\ None \notin Jobs
ASSUME ProcsAssumption  == /\ Clients \cap Ticks = {} /\ None \notin Procs
                            /\ Orphan \notin Procs /\ None \notin Timers
ASSUME OpsAssumption    == Ops \subseteq AllOps
ASSUME BoundsAssumption == {MaxFaults, MaxOthers} \subseteq Nat

VARIABLES
    \* the jobs map
    jobs,       \* ids in the map
    paused, running,
    cron,       \* the cron expression each job shows
    uuid,       \* the cron entry each job is said to have
    \* TokioJobScheduler and running_tasks
    timer,      \* the job and the expression each registered entry fires for
    tokens,     \* the run whose token the table holds for each job
    cancelled,  \* runs whose token has been cancelled
    \* the job file
    disk,       \* the list it holds
    readable,   \* it exists and parses
    \* callers and runs
    pc, op, job, want, held,
    snap,       \* the list a sync has read
    adds, drops,\* jobs it registers, jobs and entries it removes
    \* another process between reading the file and writing it back
    other, otherLoaded,
    \* what calls that ended half way have left behind
    cutOff,     \* the operation and job of each such call of this process
    unsaved,    \* jobs whose change nobody is left to write
    \* counters of the bounds
    faults, others

memory   == <<jobs, paused, running, cron, uuid>>
runtime  == <<timer, tokens, cancelled>>
file     == <<disk, readable>>
calls    == <<pc, op, job, want, held>>
syncs    == <<snap, adds, drops>>
external == <<other, otherLoaded>>
history  == <<cutOff, unsaved, faults, others>>
vars == <<memory, runtime, file, calls, syncs, external, history>>

NoTimer == [job |-> None, cron |-> None]
Image == [jobs |-> jobs, paused |-> paused, running |-> running, cron |-> cron]
Empty == [jobs |-> {}, paused |-> {}, running |-> {}, cron |-> [j \in Jobs |-> None]]

\* clear_running_state of every job of a list.
Cleared(list) == [list EXCEPT !.running = {}]

\* The jobs of a list that load and sync do not skip.
Loadable(list) == {j \in list.jobs \ MissingRecipes : list.cron[j] \notin BadCrons}

-----------------------------------------------------------------------------
Init ==
    /\ jobs = {} /\ paused = {} /\ running = {}
    /\ cron = [j \in Jobs |-> None] /\ uuid = [j \in Jobs |-> None]
    /\ timer = [e \in Timers |-> NoTimer]
    /\ tokens = [j \in Jobs |-> None] /\ cancelled = {}
    /\ disk = Empty /\ readable = FALSE
    /\ pc = [p \in Procs |-> "idle"] /\ op = [p \in Procs |-> None]
    /\ job = [p \in Procs |-> None] /\ want = [p \in Procs |-> None]
    /\ held = [p \in Procs |-> None]
    /\ snap = [c \in Clients |-> Empty]
    /\ adds = [c \in Clients |-> {}] /\ drops = [c \in Clients |-> {}]
    /\ other = Empty /\ otherLoaded = FALSE
    /\ cutOff = {} /\ unsaved = {}
    /\ faults = 0 /\ others = 0

-----------------------------------------------------------------------------
(* Steps of a call.                                                        *)

Call(c, o, j, cr, next) ==
    /\ o \in Ops
    /\ pc[c] = "idle"
    /\ pc' = [pc EXCEPT ![c] = next]
    /\ op' = [op EXCEPT ![c] = o]
    /\ job' = [job EXCEPT ![c] = j]
    /\ want' = [want EXCEPT ![c] = cr]

Goto(p, next) ==
    /\ pc' = [pc EXCEPT ![p] = next]
    /\ UNCHANGED <<op, job, want, held>>

Return(p) ==
    /\ pc' = [pc EXCEPT ![p] = "idle"]
    /\ op' = [op EXCEPT ![p] = None]
    /\ job' = [job EXCEPT ![p] = None]
    /\ want' = [want EXCEPT ![p] = None]
    /\ held' = [held EXCEPT ![p] = None]
    /\ cancelled' = cancelled \ {p}

\* The call ends before its last step.
CutOff(p) == cutOff' = cutOff \cup ({op[p]} \X ({job[p]} \ {None}))

\* Uuids nobody holds: a registered entry always gets a new one.
FreshTimers ==
    {e \in Timers : /\ timer[e] = NoTimer
                    /\ \A j \in Jobs : uuid[j] # e
                    /\ \A p \in Procs : held[p] # e
                    /\ \A c \in Clients, j \in Jobs : <<j, e>> \notin drops[c]}

\* insert into the jobs map, an older job of that id included.
Store(j, cr, e, isPaused, isRunning) ==
    /\ jobs' = jobs \cup {j}
    /\ paused' = IF isPaused THEN paused \cup {j} ELSE paused \ {j}
    /\ running' = IF isRunning THEN running \cup {j} ELSE running \ {j}
    /\ cron' = [cron EXCEPT ![j] = cr]
    /\ uuid' = [uuid EXCEPT ![j] = e]

Forget(j) ==
    /\ jobs' = jobs \ {j} /\ paused' = paused \ {j} /\ running' = running \ {j}
    /\ cron' = [cron EXCEPT ![j] = None] /\ uuid' = [uuid EXCEPT ![j] = None]

-----------------------------------------------------------------------------
(* Writing the job file.                                                   *)

WriteOk ==
    /\ disk' = Image /\ readable' = TRUE
    /\ unsaved' = {}
    /\ UNCHANGED <<cutOff, faults, others>>

\* fs::write truncates the file before it writes.
WriteFails(p) ==
    /\ faults < MaxFaults /\ faults' = faults + 1
    /\ \/ UNCHANGED file /\ unsaved' = unsaved \cup {job[p]}
       \/ disk' = Empty /\ readable' = FALSE /\ unsaved' = Jobs
    /\ UNCHANGED others

\* The last step of every call that changed the map, and of every run.
Save(p) ==
    /\ pc[p] = "save"
    /\ WriteOk \/ (WriteFails(p) /\ UNCHANGED cutOff)
    /\ Return(p)
    /\ UNCHANGED <<memory, timer, tokens, syncs, external>>

-----------------------------------------------------------------------------
(* add_scheduled_job, update_schedule, remove_scheduled_job.               *)

Add(c, j, cr) ==
    /\ Call(c, "add", j, cr, "register")
    /\ j \notin jobs
    /\ UNCHANGED <<memory, runtime, file, held, syncs, external, history>>

\* create_cron_task and TokioJobScheduler::add; an expression that does not
\* parse ends the call.
Register(c) ==
    /\ pc[c] = "register"
    /\ IF want[c] \in BadCrons
       THEN Return(c) /\ UNCHANGED timer
       ELSE /\ \E e \in FreshTimers :
                /\ timer' = [timer EXCEPT ![e] = [job |-> job[c], cron |-> want[c]]]
                /\ held' = [held EXCEPT ![c] = e]
            /\ pc' = [pc EXCEPT ![c] = IF op[c] = "add" THEN "insert" ELSE "replace"]
            /\ UNCHANGED <<op, job, want, cancelled>>
    /\ UNCHANGED <<memory, tokens, file, syncs, external, history>>

\* Mutant: the map is changed and never written.
InsertWithoutSaving(c) ==
    /\ pc[c] = "insert"
    /\ Store(job[c], want[c], held[c], FALSE, FALSE)
    /\ Return(c)
    /\ UNCHANGED <<timer, tokens, file, syncs, external, history>>

Insert(c) ==
    /\ pc[c] = "insert"
    /\ Store(job[c], want[c], held[c], FALSE, FALSE)
    /\ Goto(c, "save")
    /\ UNCHANGED <<runtime, file, syncs, external, history>>

Update(c, j, cr) ==
    /\ Call(c, "update", j, cr, "unregister")
    /\ j \in jobs \ running /\ cron[j] # cr
    /\ cron' = [cron EXCEPT ![j] = cr]
    /\ held' = [held EXCEPT ![c] = uuid[j]]
    /\ UNCHANGED <<jobs, paused, running, uuid, runtime, file, syncs, external, history>>

\* Mutant: the entry is not removed before the new one is made.
UnregisterNothing(c) ==
    /\ pc[c] = "unregister"
    /\ Goto(c, IF op[c] = "update" THEN "register" ELSE "save")
    /\ UNCHANGED <<memory, runtime, file, syncs, external, history>>

\* TokioJobScheduler::remove of the entry read under the lock.
Unregister(c) ==
    /\ pc[c] = "unregister"
    /\ timer' = [timer EXCEPT ![held[c]] = NoTimer]
    /\ Goto(c, IF op[c] = "update" THEN "register" ELSE "save")
    /\ UNCHANGED <<memory, tokens, cancelled, file, syncs, external, history>>

\* Mutant: the job keeps the entry that was removed.
ReplaceForgotten(c) ==
    /\ pc[c] = "replace"
    /\ Goto(c, "save")
    /\ UNCHANGED <<memory, runtime, file, syncs, external, history>>

Replace(c) ==
    /\ pc[c] = "replace"
    /\ uuid' = IF job[c] \in jobs THEN [uuid EXCEPT ![job[c]] = held[c]] ELSE uuid
    /\ Goto(c, "save")
    /\ UNCHANGED <<jobs, paused, running, cron, runtime, file, syncs, external, history>>

Remove(c, j) ==
    /\ Call(c, "remove", j, None, "unregister")
    /\ j \in jobs
    /\ held' = [held EXCEPT ![c] = uuid[j]]
    /\ Forget(j)
    /\ UNCHANGED <<runtime, file, syncs, external, history>>

-----------------------------------------------------------------------------
(* pause_schedule, unpause_schedule, kill_running_job.                     *)

Pause(c, j) ==
    /\ Call(c, "pause", j, None, "save")
    /\ j \in jobs \ running
    /\ paused' = paused \cup {j}
    /\ UNCHANGED <<jobs, running, cron, uuid, runtime, file, held, syncs, external, history>>

Unpause(c, j) ==
    /\ Call(c, "unpause", j, None, "save")
    /\ j \in jobs
    /\ paused' = paused \ {j}
    /\ UNCHANGED <<jobs, running, cron, uuid, runtime, file, held, syncs, external, history>>

Kill(c, j) ==
    /\ Call(c, "kill", j, None, "cancel")
    /\ j \in jobs \cap running
    /\ UNCHANGED <<memory, runtime, file, held, syncs, external, history>>

\* running_tasks.remove, then cancel the token if there was one.
CancelToken(c) ==
    /\ pc[c] = "cancel"
    /\ cancelled' = cancelled \cup ({tokens[job[c]]} \cap Procs)
    /\ tokens' = [tokens EXCEPT ![job[c]] = None]
    /\ Goto(c, "unmark")
    /\ UNCHANGED <<memory, timer, file, syncs, external, history>>

\* clear_running_state; a job removed meanwhile ends the call before the write.
Unmark(c) ==
    /\ pc[c] = "unmark"
    /\ IF job[c] \in jobs
       THEN Goto(c, "save") /\ UNCHANGED cancelled
       ELSE Return(c)
    /\ running' = running \ {job[c]}
    /\ UNCHANGED <<jobs, paused, cron, uuid, timer, tokens, file, syncs, external, history>>

-----------------------------------------------------------------------------
(* Runs: a cron tick or run_now, then the same steps.                      *)

\* The cron crate starts the closure of a registered entry.
Fire(t, e) ==
    /\ pc[t] = "idle" /\ timer[e] # NoTimer
    /\ pc' = [pc EXCEPT ![t] = "check"]
    /\ op' = [op EXCEPT ![t] = "tick"]
    /\ job' = [job EXCEPT ![t] = timer[e].job]
    /\ UNCHANGED <<memory, runtime, file, want, held, syncs, external, history>>

\* should_execute: present and not paused; running is not looked at.
CheckDue(t) ==
    /\ pc[t] = "check"
    /\ IF job[t] \in jobs \ paused
       THEN Goto(t, "mark") /\ UNCHANGED cancelled
       ELSE Return(t)
    /\ UNCHANGED <<memory, timer, tokens, file, syncs, external, history>>

\* A critical section of its own, after the one that checked.
Mark(t) ==
    /\ pc[t] = "mark"
    /\ running' = running \cup ({job[t]} \cap jobs)
    /\ Goto(t, "save_start")
    /\ UNCHANGED <<jobs, paused, cron, uuid, runtime, file, syncs, external, history>>

RunNow(c, j) ==
    /\ Call(c, "run_now", j, None, "save_start")
    /\ j \in jobs \ running
    /\ running' = running \cup {j}
    /\ UNCHANGED <<jobs, paused, cron, uuid, runtime, file, held, syncs, external, history>>

\* A tick logs a failed write and goes on; run_now returns the error.
SaveStart(p) ==
    /\ pc[p] = "save_start"
    /\ \/ WriteOk /\ Goto(p, "token") /\ UNCHANGED cancelled
       \/ /\ WriteFails(p) /\ op[p] = "tick"
          /\ Goto(p, "token") /\ UNCHANGED <<cancelled, cutOff>>
       \/ /\ WriteFails(p) /\ op[p] = "run_now"
          /\ Return(p) /\ CutOff(p)
    /\ UNCHANGED <<memory, timer, tokens, syncs, external>>

PutToken(p) ==
    /\ pc[p] = "token"
    /\ tokens' = [tokens EXCEPT ![job[p]] = p]
    /\ Goto(p, "exec")
    /\ UNCHANGED <<memory, timer, cancelled, file, syncs, external, history>>

\* Mutant: only a run whose token is still in the table gets to return.
ExecuteNeedsToken(p) ==
    /\ pc[p] = "exec" /\ tokens[job[p]] = p
    /\ Goto(p, "untoken")
    /\ UNCHANGED <<memory, runtime, file, syncs, external, history>>

\* execute_job returns: the stream ended, failed or was cancelled.
ExecuteEnds(p) ==
    /\ pc[p] = "exec"
    /\ Goto(p, "untoken")
    /\ UNCHANGED <<memory, runtime, file, syncs, external, history>>

\* Mutant: the table keeps the token of the run that ended.
KeepToken(p) ==
    /\ pc[p] = "untoken"
    /\ Goto(p, "finish")
    /\ UNCHANGED <<memory, runtime, file, syncs, external, history>>

\* running_tasks.remove(id), whichever run's token is under the id.
DropToken(p) ==
    /\ pc[p] = "untoken"
    /\ tokens' = [tokens EXCEPT ![job[p]] = None]
    /\ Goto(p, "finish")
    /\ UNCHANGED <<memory, timer, cancelled, file, syncs, external, history>>

\* Mutant: the mark stays.
FinishButMarked(p) ==
    /\ pc[p] = "finish"
    /\ Goto(p, "save")
    /\ UNCHANGED <<memory, runtime, file, syncs, external, history>>

Finish(p) ==
    /\ pc[p] = "finish"
    /\ running' = running \ {job[p]}
    /\ Goto(p, "save")
    /\ UNCHANGED <<jobs, paused, cron, uuid, runtime, file, syncs, external, history>>

-----------------------------------------------------------------------------
(* list_scheduled_jobs: sync_from_storage.                                 *)

\* The file is read before the lock is taken.
ListRead(c) ==
    /\ Call(c, "list", None, None, "compare")
    /\ readable
    /\ snap' = [snap EXCEPT ![c] = disk]
    /\ UNCHANGED <<memory, runtime, file, held, adds, drops, external, history>>

\* Mutant: paused jobs of the file are not registered.
CompareSkipsPaused(c) ==
    /\ pc[c] = "compare"
    /\ adds' = [adds EXCEPT ![c] = Loadable(snap[c]) \ (jobs \cup snap[c].paused)]
    /\ drops' = [drops EXCEPT ![c] =
                    {<<j, uuid[j]>> : j \in jobs \ (snap[c].jobs \cup running)}]
    /\ Goto(c, "sync")
    /\ UNCHANGED <<memory, runtime, file, snap, external, history>>

ListCompare(c) ==
    /\ pc[c] = "compare"
    /\ adds' = [adds EXCEPT ![c] = Loadable(snap[c]) \ jobs]
    /\ drops' = [drops EXCEPT ![c] =
                    {<<j, uuid[j]>> : j \in jobs \ (snap[c].jobs \cup running)}]
    /\ Goto(c, "sync")
    /\ UNCHANGED <<memory, runtime, file, snap, external, history>>

SyncRegister(c, j) ==
    /\ pc[c] = "sync" /\ j \in adds[c]
    /\ \E e \in FreshTimers :
        /\ timer' = [timer EXCEPT ![e] = [job |-> j, cron |-> snap[c].cron[j]]]
        /\ held' = [held EXCEPT ![c] = e]
    /\ adds' = [adds EXCEPT ![c] = @ \ {j}]
    /\ pc' = [pc EXCEPT ![c] = "sync_insert"]
    /\ job' = [job EXCEPT ![c] = j]
    /\ UNCHANGED <<memory, tokens, cancelled, file, op, want, snap, drops, external, history>>

SyncInsert(c) ==
    /\ pc[c] = "sync_insert"
    /\ Store(job[c], snap[c].cron[job[c]], held[c],
             job[c] \in snap[c].paused, job[c] \in snap[c].running)
    /\ pc' = [pc EXCEPT ![c] = "sync"]
    /\ job' = [job EXCEPT ![c] = None] /\ held' = [held EXCEPT ![c] = None]
    /\ UNCHANGED <<runtime, file, op, want, syncs, external, history>>

SyncUnregister(c, j, e) ==
    /\ pc[c] = "sync" /\ adds[c] = {} /\ <<j, e>> \in drops[c]
    /\ timer' = [timer EXCEPT ![e] = NoTimer]
    /\ drops' = [drops EXCEPT ![c] = @ \ {<<j, e>>}]
    /\ pc' = [pc EXCEPT ![c] = "sync_drop"]
    /\ job' = [job EXCEPT ![c] = j]
    /\ UNCHANGED <<memory, tokens, cancelled, file, op, want, held, snap, adds, external, history>>

SyncDrop(c) ==
    /\ pc[c] = "sync_drop"
    /\ Forget(job[c])
    /\ pc' = [pc EXCEPT ![c] = "sync"]
    /\ job' = [job EXCEPT ![c] = None]
    /\ UNCHANGED <<runtime, file, op, want, held, syncs, external, history>>

ListReturns(c) ==
    /\ pc[c] = "sync" /\ adds[c] = {} /\ drops[c] = {}
    /\ snap' = [snap EXCEPT ![c] = Empty]
    /\ Return(c)
    /\ UNCHANGED <<memory, timer, tokens, file, adds, drops, external, history>>

-----------------------------------------------------------------------------
(* Lost callers, restarts and other processes.                             *)

\* The task that awaits a call is dropped at one of its await points: its
\* connection is lost, or the agent's reply stream it runs in is dropped. The
\* call takes no further step. A token it put into the table stays there, the
\* token of no run; writing the file has no await point inside.
Abandon(c) ==
    /\ faults < MaxFaults /\ faults' = faults + 1
    /\ pc[c] # "idle"
    /\ Return(c)
    /\ tokens' = [j \in Jobs |-> IF tokens[j] = c THEN Orphan ELSE tokens[j]]
    /\ snap' = [snap EXCEPT ![c] = Empty]
    /\ adds' = [adds EXCEPT ![c] = {}] /\ drops' = [drops EXCEPT ![c] = {}]
    /\ CutOff(c)
    /\ unsaved' = unsaved \cup ({job[c]} \ {None})
    /\ UNCHANGED <<memory, timer, file, external, others>>

\* The process dies and Scheduler::new loads the file again. A write in
\* progress leaves the file truncated; the stale running marks are cleared in
\* memory, and in the file unless that write fails.
Restart ==
    /\ faults < MaxFaults /\ faults' = faults + 1
    /\ \E torn \in {FALSE} \cup {TRUE : p \in {q \in Procs : pc[q] \in {"save", "save_start"}}} :
        LET stored == IF torn THEN Empty ELSE disk IN
        /\ jobs' = Loadable(stored)
        /\ paused' = stored.paused \cap jobs'
        /\ cron' = [j \in Jobs |-> IF j \in jobs' THEN stored.cron[j] ELSE None]
        /\ \/ /\ disk' = Cleared(stored) /\ readable' = (readable /\ ~torn)
              /\ unsaved' = {}
           \/ /\ stored.running # {}
              /\ \/ disk' = stored /\ readable' = readable /\ unsaved' = stored.running
                 \/ disk' = Empty /\ readable' = FALSE /\ unsaved' = Jobs
    /\ running' = {}
    /\ \E u \in [jobs' -> Timers] :
        /\ \A i, j \in jobs' : u[i] = u[j] => i = j
        /\ uuid' = [j \in Jobs |-> IF j \in jobs' THEN u[j] ELSE None]
    /\ timer' = [e \in Timers |-> IF \E j \in jobs' : uuid'[j] = e
                                  THEN LET j == CHOOSE i \in jobs' : uuid'[i] = e
                                       IN [job |-> j, cron |-> cron'[j]]
                                  ELSE NoTimer]
    /\ tokens' = [j \in Jobs |-> None] /\ cancelled' = {}
    /\ pc' = [p \in Procs |-> "idle"] /\ op' = [p \in Procs |-> None]
    /\ job' = [p \in Procs |-> None] /\ want' = [p \in Procs |-> None]
    /\ held' = [p \in Procs |-> None]
    /\ snap' = [c \in Clients |-> Empty]
    /\ adds' = [c \in Clients |-> {}] /\ drops' = [c \in Clients |-> {}]
    /\ cutOff' = {}
    /\ UNCHANGED <<external, others>>

\* A schedule command of the CLI is a scheduler of its own: it loads the file,
\* clearing the running marks there, and writes its own list back.
OtherLoads ==
    /\ others < MaxOthers /\ ~otherLoaded
    /\ others' = others + 1
    /\ otherLoaded' = TRUE
    /\ other' = [Cleared(disk) EXCEPT
                    !.jobs = Loadable(disk), !.paused = @ \cap Loadable(disk),
                    !.cron = [j \in Jobs |-> IF j \in Loadable(disk) THEN @[j] ELSE None]]
    /\ disk' = Cleared(disk)
    /\ UNCHANGED <<memory, runtime, readable, calls, syncs,
                   cutOff, unsaved, faults>>

OtherAdds(j, cr) ==
    /\ otherLoaded /\ j \notin other.jobs /\ cr \notin BadCrons
    /\ disk' = [other EXCEPT !.jobs = @ \cup {j}, !.cron[j] = cr]
    /\ readable' = TRUE
    /\ otherLoaded' = FALSE /\ other' = Empty
    /\ UNCHANGED <<memory, runtime, calls, syncs, history>>

OtherRemoves(j) ==
    /\ otherLoaded /\ j \in other.jobs
    /\ disk' = [other EXCEPT !.jobs = @ \ {j}, !.paused = @ \ {j}, !.cron[j] = None]
    /\ readable' = TRUE
    /\ otherLoaded' = FALSE /\ other' = Empty
    /\ UNCHANGED <<memory, runtime, calls, syncs, history>>

-----------------------------------------------------------------------------
\* schedule_recipe looks up the job of a recipe under the lock and then adds,
\* updates or removes it as the direct calls do; a lookup that is out of date by
\* then ends like a refused call.
ScheduleRecipe(c) ==
    \E j \in Jobs :
        \/ \E cr \in Crons : Add(c, j, cr) \/ Update(c, j, cr)
        \/ Remove(c, j)

Request(c) ==
    \/ ScheduleRecipe(c)
    \/ \E j \in Jobs : Pause(c, j) \/ Unpause(c, j) \/ Kill(c, j) \/ RunNow(c, j)
    \/ ListRead(c)

Sync(c) ==
    \/ ListCompare(c)
    \/ \E j \in Jobs : SyncRegister(c, j)
    \/ SyncInsert(c)
    \/ \E j \in Jobs, e \in Timers : SyncUnregister(c, j, e)
    \/ SyncDrop(c)
    \/ ListReturns(c)

ClientStep(c) ==
    \/ Register(c) \/ Insert(c) \/ Unregister(c) \/ Replace(c)
    \/ CancelToken(c) \/ Unmark(c)
    \/ Sync(c)

RunStep(p) == SaveStart(p) \/ PutToken(p) \/ DropToken(p) \/ Finish(p) \/ Save(p)

Next ==
    \/ \E c \in Clients : Request(c) \/ ClientStep(c) \/ Abandon(c)
    \/ \E t \in Ticks : (\E e \in Timers : Fire(t, e)) \/ CheckDue(t) \/ Mark(t)
    \/ \E p \in Procs : RunStep(p) \/ ExecuteEnds(p)
    \/ Restart
    \/ OtherLoads
    \/ \E j \in Jobs, cr \in Crons : OtherAdds(j, cr)
    \/ \E j \in Jobs : OtherRemoves(j)

Spec == Init /\ [][Next]_vars

\* Started calls go on: their tasks are polled and the file system answers. A
\* run need not end by itself; a cancelled stream does.
Fairness ==
    /\ \A c \in Clients : WF_vars(ClientStep(c))
    /\ \A t \in Ticks : WF_vars(CheckDue(t) \/ Mark(t))
    /\ \A p \in Procs : WF_vars(RunStep(p)) /\ WF_vars(p \in cancelled /\ ExecuteEnds(p))

FairSpec == Spec /\ Fairness
-----------------------------------------------------------------------------
(* Properties.                                                             *)

\* A list of jobs: marks and an expression for the jobs in it, none for others.
Lists ==
    {l \in [jobs : SUBSET Jobs, paused : SUBSET Jobs, running : SUBSET Jobs,
            cron : [Jobs -> Crons \cup {None}]] :
        /\ l.paused \subseteq l.jobs /\ l.running \subseteq l.jobs
        /\ \A j \in Jobs : j \in l.jobs <=> l.cron[j] # None}

\* A run has marked its job running and not yet cleared the mark.
Started(p) == pc[p] \in {"save_start", "token", "exec", "untoken", "finish"}

MemoryTypes ==
    /\ Image \in Lists
    /\ uuid \in [Jobs -> Timers \cup {None}]
    /\ \A j \in Jobs : j \in jobs <=> uuid[j] # None

RuntimeTypes ==
    /\ timer \in [Timers -> [job : Jobs, cron : Crons] \cup {NoTimer}]
    /\ tokens \in [Jobs -> Procs \cup {None, Orphan}]
    /\ cancelled \subseteq Procs

FileTypes ==
    /\ disk \in Lists /\ other \in Lists /\ other.running = {}
    /\ readable \in BOOLEAN /\ otherLoaded \in BOOLEAN

CallTypes ==
    /\ pc \in [Procs -> {"idle", "register", "insert", "unregister", "replace", "save",
                         "cancel", "unmark", "check", "mark", "save_start", "token", "exec",
                         "untoken", "finish", "compare", "sync", "sync_insert", "sync_drop"}]
    /\ op \in [Procs -> AllOps \cup {"tick", None}]
    /\ job \in [Procs -> Jobs \cup {None}]
    /\ want \in [Procs -> Crons \cup {None}]
    /\ held \in [Procs -> Timers \cup {None}]

\* What a call holds at each of its steps.
CallShapes ==
    \A p \in Procs :
        /\ pc[p] \notin {"idle", "compare", "sync"} => job[p] \in Jobs
        /\ pc[p] \in {"register", "insert", "replace"} =>
              want[p] \in Crons /\ op[p] \in {"add", "update"}
        /\ pc[p] = "unregister" => op[p] = "remove" \/ (op[p] = "update" /\ want[p] \in Crons)
        /\ pc[p] \in {"insert", "unregister", "replace", "sync_insert"} => held[p] \in Timers
        /\ pc[p] \in {"check", "mark"} => op[p] = "tick"
        /\ pc[p] \in {"save_start", "token", "exec", "untoken", "finish"} =>
              op[p] = IF p \in Clients THEN "run_now" ELSE "tick"
        /\ pc[p] \in {"compare", "sync", "sync_insert", "sync_drop"} => op[p] = "list"
        /\ pc[p] # "idle" => op[p] # None

SyncTypes ==
    /\ snap \in [Clients -> Lists]
    /\ adds \in [Clients -> SUBSET Jobs]
    /\ drops \in [Clients -> SUBSET (Jobs \X Timers)]
    /\ \A c \in Clients :
        /\ adds[c] \subseteq Loadable(snap[c])
        /\ pc[c] = "sync_insert" => job[c] \in Loadable(snap[c])
        /\ pc[c] \notin {"sync", "sync_insert", "sync_drop"} => adds[c] = {} /\ drops[c] = {}

HistoryTypes ==
    /\ cutOff \subseteq (AllOps \cup {"tick"}) \X Jobs /\ unsaved \subseteq Jobs
    /\ faults \in Nat /\ others \in Nat

\* The types of every variable: the map and every copy of it are lists of jobs,
\* and a call holds at each step what that step uses.
TypeOK ==
    /\ MemoryTypes /\ RuntimeTypes /\ FileTypes
    /\ CallTypes /\ CallShapes /\ SyncTypes /\ HistoryTypes

\* A call of one of these operations on job j ended half way.
CutOffIn(ops, j) == \E o \in ops : <<o, j>> \in cutOff

\* The running mark of a job is the mark of a run in progress: whatever runs
\* overlap, whoever kills them, whatever call is dropped, whatever write fails
\* and whatever restart comes between, no mark blocks a job that nobody runs.
\* (Except that of a job whose own run_now was dropped or ended on a failed
\* write, and the marks a sync takes from an old file, hence nobody lists.)
RunningIsBacked ==
    "list" \notin Ops =>
        \A j \in running : \/ CutOffIn({"run_now"}, j)
                           \/ \E p \in Procs : Started(p) /\ job[p] = j

\* The token running_tasks holds for a job is that of a run of this job that is
\* in progress: kill_running_job never cancels a run of another job, nor a
\* later one of the same caller. A token of no run is that of a dropped run_now.
TokensAreLive ==
    \A j \in Jobs :
        \/ tokens[j] = None
        \/ tokens[j] = Orphan /\ CutOffIn({"run_now"}, j)
        \/ tokens[j] \in Procs /\ job[tokens[j]] = j /\ pc[tokens[j]] \in {"exec", "untoken"}

\* A caller is updating j with an expression that parses.
Updating(j) ==
    \E c \in Clients : /\ op[c] = "update" /\ job[c] = j /\ want[c] \notin BadCrons
                       /\ pc[c] \in {"unregister", "register", "replace"}

\* Under any interleaving of add, update, remove and sync, a job in the map has
\* a registered cron entry of its own: unless its expression does not parse, an
\* update is about to give it one, a sync is about to remove it, or an update or
\* a sync was dropped in the middle of that, it fires.
JobHasTimer ==
    \A j \in jobs :
        \/ timer[uuid[j]].job = j
        \/ cron[j] \in BadCrons
        \/ Updating(j)
        \/ \E c \in Clients : pc[c] = "sync_drop" /\ job[c] = j
        \/ CutOffIn({"update", "list"}, j)

\* A call or run that will still write the file.
WillSave(p) ==
    \/ pc[p] \in {"save", "token", "exec", "untoken", "finish", "save_start"}
    \/ op[p] \in {"update", "remove"} /\ pc[p] \in {"unregister", "register", "replace"}

\* The file and the map say the same of job j.
SavedAs(j) ==
    /\ j \in disk.jobs <=> j \in jobs
    /\ j \in disk.paused <=> j \in paused
    /\ j \in disk.running <=> j \in running
    /\ disk.cron[j] = cron[j]

\* The file says of every job what the map says, or a call on this job is still
\* to write it: no interleaving of calls, runs and restarts loses a change, and
\* a dropped call loses no change but its own, which the next write saves too.
\* (Premises: nobody lists, no other process writes the file, every expression
\* parses, no load skips a job.)
EveryChangeIsSaved ==
    "list" \notin Ops /\ others = 0 /\ BadCrons = {} /\ MissingRecipes = {} =>
        \A j \in Jobs \ unsaved : SavedAs(j) \/ \E p \in Procs : WillSave(p) /\ job[p] = j

\* A caller is between registering or removing an entry and changing the map.
Rewiring(c) ==
    pc[c] \in {"register", "insert", "unregister", "replace", "sync", "sync_insert", "sync_drop"}

\* With one caller at a time, whatever fails, crashes or is written by others:
\* the registered entries are exactly those of the jobs in the map, each firing
\* at the expression the job shows; no entry is left behind to fire twice. Only
\* an add, update, remove or sync that was dropped can leave a wrong entry, and
\* only one of its own job.
FiresAsShown ==
    (\A c \in Clients : ~Rewiring(c)) =>
        \A e \in Timers : timer[e] # NoTimer =>
            LET j == timer[e].job IN
            \/ j \in jobs /\ uuid[j] = e /\ cron[j] = timer[e].cron
            \/ CutOffIn({"add", "update", "remove", "list"}, j)

\* When a list returns to its only caller, every job of the file it read that
\* can be loaded is in the map: "Listing syncs from storage, registering jobs
\* persisted by other processes".
ListMergesTheFile ==
    [][\A c \in Clients : pc[c] = "sync" /\ pc'[c] = "idle" /\ faults' = faults =>
        Loadable(snap[c]) \subseteq jobs]_vars

\* A cancelled run ends: it clears its mark, writes the file and returns.
CancelledRunEnds == \A p \in Procs : p \in cancelled ~> p \notin cancelled
=============================================================================
