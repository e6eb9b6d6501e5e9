---------------------------- MODULE ModelDownloads ----------------------------
(***************************************************************************)
(* Downloads of local-inference models: the management calls of             *)
(* crates/aibuddy-local-inference/src/management.rs, the Hugging Face       *)
(* downloads of hf_models.rs, and the process-wide download manager they    *)
(* share. A call of download_model reserves the model's entry, registers a  *)
(* cancellation channel and spawns a task; the task resolves the model,     *)
(* fetches its files into the cache and records the outcome. Cancelling and *)
(* deleting are calls of other requests.                                    *)
(*                                                                          *)
(* A task's step is one poll of its select: the cancellation is looked at   *)
(* first (biased), then resolution runs to its next await. What the task    *)
(* does after the select has no await; its steps are the manager's lock     *)
(* acquisitions.                                                            *)
(***************************************************************************)
EXTENDS Naturals, FiniteSets

CONSTANTS Models,    \* model ids: repository and variant
          Repo,        \* Models -> repository
          FilesOf,     \* Models -> the files a download of it fetches
          Tasks,       \* download_model calls that reserve, each with its task
          Clients,     \* requests that cancel
          Deleters,    \* requests that delete
          Faults,      \* subset of {"resolve", "fetch"}: what may fail
          None

ASSUME DownloadsAssumption ==
  /\ Models # {} /\ None \notin Models \cup Tasks
  /\ \A m \in Models : m \in DOMAIN Repo /\ m \in DOMAIN FilesOf
  /\ \A m, n \in Models : Repo[m] # Repo[n] => FilesOf[m] \cap FilesOf[n] = {}
  /\ Faults \subseteq {"resolve", "fetch"}

VARIABLES
  status,     \* DownloadProgress.status of the model's entry, "absent" if none
  exited,     \* DownloadProgress.task_exited
  sender,     \* DOWNLOAD_CANCELLATIONS: whose channel is registered for the model
  signalled,  \* tasks whose channel holds a value they have not seen
  pc,         \* where each download_model call, then its task, is
  model,      \* the model it downloads
  todo,       \* files it has still to fetch
  disk,       \* files in the cache
  cancelling, \* the model a cancel_download has marked and not yet signalled
  dpc,        \* where each delete is
  deleting,   \* the model it deletes
  scan        \* cached models, as its first scan found them

entry == <<status, exited>>
channel == <<sender, signalled>>
task == <<pc, model, todo>>
delete == <<dpc, deleting, scan>>
vars == <<entry, channel, task, disk, cancelling, delete>>

Statuses == {"absent", "downloading", "completed", "failed", "cancelled"}

Init ==
  /\ status = [m \in Models |-> "absent"]
  /\ exited = [m \in Models |-> TRUE]
  /\ sender = [m \in Models |-> None]
  /\ signalled = {}
  /\ pc = [t \in Tasks |-> "idle"]
  /\ model = [t \in Tasks |-> None]
  /\ todo = [t \in Tasks |-> {}]
  /\ disk = {}
  /\ cancelling = [c \in Clients |-> None]
  /\ dpc = [d \in Deleters |-> "idle"]
  /\ deleting = [d \in Deleters |-> None]
  /\ scan = [d \in Deleters |-> {}]

Goto(t, p) == pc' = [pc EXCEPT ![t] = p]

\* The entry is closed, by the rule complete, fail and mark_download_failed
\* share: a cancelled entry keeps its status.
Close(m, outcome) ==
  /\ status' = [status EXCEPT ![m] = IF @ = "cancelled" THEN @ ELSE outcome]
  /\ exited' = [exited EXCEPT ![m] = TRUE]

-----------------------------------------------------------------------------
(* download_model *)

\* The task of an entry may still be at work.
TaskIsActive(m) ==
  \/ status[m] = "downloading"
  \/ status[m] = "cancelled" /\ exited[m] = FALSE

\* Mutant: the task is not told which model it downloads.
ReserveUnnamed(t) ==
  \E m \in Models :
    /\ pc[t] = "idle"
    /\ ~TaskIsActive(m)
    /\ status' = [status EXCEPT ![m] = "downloading"]
    /\ exited' = [exited EXCEPT ![m] = FALSE]
    /\ Goto(t, "reserved")
    /\ UNCHANGED <<channel, model, todo, disk, cancelling, delete>>

\* reserve_download; a refused call returns without a task.
Reserve(t) ==
  \E m \in Models :
    /\ pc[t] = "idle"
    /\ ~TaskIsActive(m)
    /\ status' = [status EXCEPT ![m] = "downloading"]
    /\ exited' = [exited EXCEPT ![m] = FALSE]
    /\ model' = [model EXCEPT ![t] = m]
    /\ Goto(t, "reserved")
    /\ UNCHANGED <<channel, todo, disk, cancelling, delete>>

Register(t) ==
  /\ pc[t] = "reserved"
  /\ sender' = [sender EXCEPT ![model[t]] = t]
  /\ Goto(t, "registered")
  /\ UNCHANGED <<entry, signalled, model, todo, disk, cancelling, delete>>

\* subscribe takes the channel's current value as seen; the task is spawned.
Subscribe(t) ==
  /\ pc[t] = "registered"
  /\ signalled' = signalled \ {t}
  /\ Goto(t, "resolving")
  /\ UNCHANGED <<entry, sender, model, todo, disk, cancelling, delete>>

-----------------------------------------------------------------------------
(* The spawned task *)

Polled(t, p) == pc[t] = p /\ t \notin signalled

\* Mutant: only resolution is cancellable, the fetches are not.
CancellationSeenEarly(t) ==
  /\ pc[t] = "resolving"
  /\ t \in signalled
  /\ Goto(t, "leaving")
  /\ UNCHANGED <<entry, channel, model, todo, disk, cancelling, delete>>

\* The select sees the cancellation: resolution is dropped where it stands.
CancellationSeen(t) ==
  /\ pc[t] \in {"resolving", "fetching"}
  /\ t \in signalled
  /\ Goto(t, "leaving")
  /\ UNCHANGED <<entry, channel, model, todo, disk, cancelling, delete>>

\* Mutant: init forgets that it may find a cancelled entry.
ResolveReopens(t) ==
  /\ Polled(t, "resolving")
  /\ status' = [status EXCEPT ![model[t]] = "downloading"]
  /\ exited' = [exited EXCEPT ![model[t]] = FALSE]
  /\ todo' = [todo EXCEPT ![t] = FilesOf[model[t]]]
  /\ Goto(t, "fetching")
  /\ UNCHANGED <<channel, model, disk, cancelling, delete>>

\* The model is resolved and HfDownloadProgress::init opens the entry again.
Resolve(t) ==
  /\ Polled(t, "resolving")
  /\ IF status[model[t]] = "cancelled" THEN UNCHANGED entry
     ELSE /\ status' = [status EXCEPT ![model[t]] = "downloading"]
          /\ exited' = [exited EXCEPT ![model[t]] = FALSE]
  /\ todo' = [todo EXCEPT ![t] = FilesOf[model[t]]]
  /\ Goto(t, "fetching")
  /\ UNCHANGED <<channel, model, disk, cancelling, delete>>

\* Resolution fails, before init or at the client made right after it.
ResolveFails(t) ==
  /\ "resolve" \in Faults
  /\ Polled(t, "resolving") \/ (Polled(t, "fetching") /\ todo[t] = FilesOf[model[t]])
  /\ Goto(t, "marking")
  /\ UNCHANGED <<entry, channel, model, todo, disk, cancelling, delete>>

FetchFile(t) ==
  \E f \in todo[t] :
    /\ Polled(t, "fetching")
    /\ todo' = [todo EXCEPT ![t] = @ \ {f}]
    /\ disk' = disk \cup {f}
    /\ UNCHANGED <<entry, channel, pc, model, cancelling, delete>>

\* A file fails: HfDownloadProgress::fail closes the entry, then the error is
\* returned to the task, which closes it again.
FetchFails(t) ==
  /\ "fetch" \in Faults
  /\ Polled(t, "fetching") /\ todo[t] # {}
  /\ Close(model[t], "failed")
  /\ Goto(t, "marking")
  /\ UNCHANGED <<channel, model, todo, disk, cancelling, delete>>

Complete(t) ==
  /\ Polled(t, "fetching") /\ todo[t] = {}
  /\ Close(model[t], "completed")
  /\ Goto(t, "leaving")
  /\ UNCHANGED <<channel, model, todo, disk, cancelling, delete>>

MarkDownloadFailed(t) ==
  /\ pc[t] = "marking"
  /\ Close(model[t], "failed")
  /\ Goto(t, "leaving")
  /\ UNCHANGED <<channel, model, todo, disk, cancelling, delete>>

\* unregister_download_cancellation: only the task's own channel (ptr_eq).
Unregister(t) ==
  /\ pc[t] = "leaving"
  /\ sender' = [sender EXCEPT ![model[t]] = IF @ = t THEN None ELSE @]
  /\ Goto(t, "exiting")
  /\ UNCHANGED <<entry, signalled, model, todo, disk, cancelling, delete>>

MarkTaskExited(t) ==
  /\ pc[t] = "exiting"
  /\ exited' = [exited EXCEPT ![model[t]] = TRUE]
  /\ Goto(t, "done")
  /\ UNCHANGED <<status, channel, model, todo, disk, cancelling, delete>>

-----------------------------------------------------------------------------
(* cancel_download and delete_cached_local_model *)

\* The entry is marked first; an unknown model is an error.
Cancel(c) ==
  \E m \in Models :
    /\ cancelling[c] = None /\ status[m] # "absent"
    /\ status' = [status EXCEPT ![m] = "cancelled"]
    /\ cancelling' = [cancelling EXCEPT ![c] = m]
    /\ UNCHANGED <<exited, channel, task, disk, delete>>

\* Then the channel registered for the model, if any, is signalled.
Signal(c) ==
  /\ cancelling[c] # None
  /\ signalled' = signalled \cup ({sender[cancelling[c]]} \ {None})
  /\ cancelling' = [cancelling EXCEPT ![c] = None]
  /\ UNCHANGED <<entry, sender, task, disk, delete>>

\* A model is listed as cached when all its files are there.
Cached(m) == FilesOf[m] \subseteq disk

SameRepo(m) == {n \in Models : Repo[n] = Repo[m]}

\* The first scan; a model that is not cached is an error.
Scan(d) ==
  \E m \in Models :
    /\ dpc[d] = "idle" /\ Cached(m)
    /\ deleting' = [deleting EXCEPT ![d] = m]
    /\ scan' = [scan EXCEPT ![d] = {n \in Models : Cached(n)}]
    /\ dpc' = [dpc EXCEPT ![d] = "scanned"]
    /\ UNCHANGED <<entry, channel, task, disk, cancelling>>

\* Refused while a download of the repository is active.
CheckActive(d) ==
  /\ dpc[d] = "scanned"
  /\ dpc' = [dpc EXCEPT ![d] = IF \E n \in SameRepo(deleting[d]) : TaskIsActive(n)
                              THEN "idle" ELSE "checked"]
  /\ UNCHANGED <<entry, channel, task, disk, cancelling, deleting, scan>>

\* Mutant: the shared files of the repository go with the first model deleted.
RemovableShared(m, seen) ==
  LET others == (seen \cap SameRepo(m)) \ {m}
  IN  IF others = {} THEN UNION {FilesOf[n] : n \in SameRepo(m)} ELSE FilesOf[m]

\* After a second scan: the whole repository when the first scan saw no other
\* model of it, else the files no other model uses.
Removable(m, seen) ==
  LET others == (seen \cap SameRepo(m)) \ {m}
  IN  IF others = {} THEN UNION {FilesOf[n] : n \in SameRepo(m)}
      ELSE FilesOf[m] \ UNION {FilesOf[n] : n \in others}

Remove(d) ==
  /\ dpc[d] = "checked"
  /\ disk' = disk \ Removable(deleting[d], scan[d])
  /\ dpc' = [dpc EXCEPT ![d] = "idle"]
  /\ UNCHANGED <<entry, channel, task, cancelling, deleting, scan>>

-----------------------------------------------------------------------------
TaskStep(t) ==
  \/ Register(t) \/ Subscribe(t) \/ CancellationSeen(t) \/ Resolve(t) \/ ResolveFails(t)
  \/ FetchFile(t) \/ FetchFails(t) \/ Complete(t) \/ MarkDownloadFailed(t)
  \/ Unregister(t) \/ MarkTaskExited(t)

Next ==
  \/ \E t \in Tasks : Reserve(t) \/ TaskStep(t)
  \/ \E c \in Clients : Cancel(c) \/ Signal(c)
  \/ \E d \in Deleters : Scan(d) \/ CheckActive(d) \/ Remove(d)

\* The task's own steps are taken; the network's (resolving, fetching) need not be.
Driven(t) == Register(t) \/ Subscribe(t) \/ CancellationSeen(t) \/ MarkDownloadFailed(t)
             \/ Unregister(t) \/ MarkTaskExited(t)

Fairness ==
  /\ \A t \in Tasks : WF_vars(Driven(t))
  /\ \A c \in Clients : WF_vars(Signal(c))

Spec == Init /\ [][Next]_vars
FairSpec == Spec /\ Fairness

-----------------------------------------------------------------------------
(* Properties *)

Stages == {"idle", "reserved", "registered", "resolving", "fetching", "marking",
           "leaving", "exiting", "done"}

\* Types of the entries, the channels, the tasks and the requests.
TypeOK ==
  /\ status \in [Models -> Statuses] /\ exited \in [Models -> BOOLEAN]
  /\ sender \in [Models -> Tasks \cup {None}] /\ signalled \subseteq Tasks
  /\ pc \in [Tasks -> Stages] /\ model \in [Tasks -> Models \cup {None}]
  /\ todo \in [Tasks -> SUBSET UNION {FilesOf[m] : m \in Models}]
  /\ disk \subseteq UNION {FilesOf[m] : m \in Models}
  /\ cancelling \in [Clients -> Models \cup {None}]
  /\ dpc \in [Deleters -> {"idle", "scanned", "checked"}]
  /\ deleting \in [Deleters -> Models \cup {None}] /\ scan \in [Deleters -> SUBSET Models]
  /\ \A t \in Tasks : pc[t] # "idle" => model[t] \in Models

AtWork(t, m) == model[t] = m /\ pc[t] \in {"resolving", "fetching"}

\* An entry that says its task has exited has no task at work.
ExitedIsTrue ==
  \A m \in Models : \A t \in Tasks : exited[m] => ~AtWork(t, m)

\* A deletion leaves every other model of the repository that the first scan
\* listed usable: its files are still there when the deletion is done.
DeleteSparesListed ==
  [][\A d \in Deleters :
        Remove(d) => \A n \in scan[d] \ {deleting[d]} : Cached(n) => Cached(n)']_vars

\* A cancelled entry stays so until a new download reserves it.
CancelledStays ==
  [][\A m \in Models : status[m] = "cancelled" /\ status'[m] # "cancelled"
        => \E t \in Tasks : pc[t] = "idle" /\ pc'[t] = "reserved" /\ model'[t] = m]_vars

\* A signalled task leaves, also when the network never answers.
SignalEnds ==
  \A t \in Tasks : t \in signalled /\ pc[t] \in {"resolving", "fetching"} ~> pc[t] = "done"
=============================================================================
