-------------------------- MODULE DownloadManager --------------------------
(***************************************************************************)
(* The download manager, for one model of several files: the progress      *)
(* entry that admits one download at a time, the background task that      *)
(* fetches the files one after the other with resume and retry, and the    *)
(* partial files that outlive a crash.                                     *)
(*                                                                         *)
(* A file's content is a sequence of chunks; a chunk is the version of the *)
(* remote file it was read from and its place in it.                       *)
(***************************************************************************)
EXTENDS Naturals, Sequences, FiniteSets, Functions

CONSTANTS
    Tasks,      \* background tasks that may exist at once
    NFiles,     \* files of the model
    Sizes,      \* chunks of each version of a remote file
    Hint,       \* total_size_hint
    MaxRetries, \* MAX_RETRIES
    Faults,     \* what may go wrong
    MaxCrashes, \* bound: process crashes
    MaxRefusals \* bound: 416 answers to requests for the whole file

Files    == 1 .. NFiles
Versions == 1 .. Len(Sizes)
AllFaults == {"mkdir", "head", "net", "http", "remove", "remote"}
Statuses  == {"absent", "downloading", "completed", "failed", "cancelled"}

ASSUME FilesAssumption == NFiles \in Nat \ {0} /\ Sizes \in Seq(Nat \ {0}) /\ Len(Sizes) > 0
ASSUME FaultsAssumption == Faults \subseteq AllFaults
ASSUME BoundsAssumption ==
    /\ Hint \in Nat /\ MaxRetries \in Nat
    /\ MaxCrashes \in Nat /\ MaxRefusals \in Nat

VARIABLES
    status,     \* the model's DownloadProgress: its status, or "absent"
    exited,     \* task_exited
    shown,      \* bytes_downloaded
    total,      \* total_bytes
    remote,     \* the version each URL serves
    part, dest, \* the partial file and the file; << >> if there is none
    pc, file,   \* per task: where it is, the file it fetches
    bytes,      \* file_bytes
    size,       \* file_total
    sum,        \* cumulative_bytes
    tries,      \* retries
    served,     \* the version of the response being read
    crashes,
    refusals    \* 416 answers so far to requests for the whole file

entry  == <<status, exited, shown, total>>
disk   == <<part, dest>>
locals == <<file, bytes, size, sum, tries, served>>
vars   == <<entry, remote, disk, pc, locals, crashes, refusals>>

Running(t) == pc[t] # "idle"

Fresh == status' = "downloading" /\ exited' = FALSE /\ shown' = 0 /\ total' = Hint

Gone == status' = "absent" /\ exited' = FALSE /\ shown' = 0 /\ total' = 0

Init ==
    /\ status = "absent" /\ exited = FALSE /\ shown = 0 /\ total = 0
    /\ crashes = 0 /\ refusals = 0
    /\ remote = [f \in Files |-> 1]
    /\ part = [f \in Files |-> << >>] /\ dest = [f \in Files |-> << >>]
    /\ pc = [t \in Tasks |-> "idle"] /\ file = [t \in Tasks |-> 0]
    /\ bytes = [t \in Tasks |-> 0] /\ size = [t \in Tasks |-> 0]
    /\ sum = [t \in Tasks |-> 0] /\ tries = [t \in Tasks |-> 0]
    /\ served = [t \in Tasks |-> 0]

-----------------------------------------------------------------------------
(* The progress entry.                                                     *)

Goto(t, next) == pc' = [pc EXCEPT ![t] = next]

\* The task is over, and its locals are dropped.
Exit(t) ==
    /\ pc' = [pc EXCEPT ![t] = "idle"]
    /\ file' = [file EXCEPT ![t] = 0] /\ bytes' = [bytes EXCEPT ![t] = 0]
    /\ size' = [size EXCEPT ![t] = 0] /\ sum' = [sum EXCEPT ![t] = 0]
    /\ tries' = [tries EXCEPT ![t] = 0] /\ served' = [served EXCEPT ![t] = 0]

IsCancelled == status = "cancelled"

\* Mutant: a cancelled download may be restarted at once.
StartableTooSoon == status # "downloading"

Startable == status # "downloading" /\ ~ (status = "cancelled" /\ ~ exited)

\* download_model; the directories are made before the task is spawned.
StartDownload(t) ==
    /\ pc[t] = "idle"
    /\ Startable
    /\ Fresh
    /\ Goto(t, "mkdir")
    /\ UNCHANGED <<remote, disk, locals, crashes, refusals>>

Mkdir(t) ==
    /\ pc[t] = "mkdir"
    /\ \/ Goto(t, "head") /\ UNCHANGED locals
       \/ "mkdir" \in Faults /\ Exit(t)
    /\ UNCHANGED <<entry, remote, disk, crashes, refusals>>

CancelDownload ==
    /\ status # "absent"
    /\ status' = "cancelled"
    /\ UNCHANGED <<exited, shown, total, remote, disk, pc, locals, crashes, refusals>>

\* Mutant: the entry goes while the task is at work.
ClearEarly ==
    /\ status \notin {"absent", "downloading"}
    /\ Gone
    /\ UNCHANGED <<remote, disk, pc, locals, crashes, refusals>>

ClearCompleted ==
    /\ status \notin {"absent", "downloading"} /\ exited
    /\ Gone
    /\ UNCHANGED <<remote, disk, pc, locals, crashes, refusals>>

-----------------------------------------------------------------------------
(* download_files_sequentially.                                            *)

\* One HEAD per file: the total is replaced only if all of them tell a size.
\* Then the bytes already on disk are counted.
HeadPass(t) ==
    /\ pc[t] = "head"
    /\ \E R \in IF "head" \in Faults THEN SUBSET Files ELSE {Files} :
        total' = IF R = Files THEN SumFunction([f \in Files |-> Sizes[remote[f]]]) ELSE total
    /\ sum' = [sum EXCEPT ![t] =
                  SumFunction([f \in Files |-> Len(IF dest[f] # << >> THEN dest[f] ELSE part[f])])]
    /\ file' = [file EXCEPT ![t] = 1]
    /\ Goto(t, "next")
    /\ UNCHANGED <<status, exited, shown, remote, disk, bytes, size, tries, served, crashes, refusals>>

\* The loop over the files.
NextFile(t) ==
    /\ pc[t] = "next"
    /\ \/ file[t] > NFiles /\ Goto(t, "done") /\ UNCHANGED file
       \/ file[t] <= NFiles /\ IsCancelled /\ Goto(t, "failing") /\ UNCHANGED file
       \/ /\ file[t] <= NFiles /\ ~ IsCancelled
          /\ IF dest[file[t]] # << >>
             THEN file' = [file EXCEPT ![t] = @ + 1] /\ UNCHANGED pc
             ELSE Goto(t, "open") /\ UNCHANGED file
    /\ UNCHANGED <<entry, remote, disk, bytes, size, sum, tries, served, crashes, refusals>>

-----------------------------------------------------------------------------
(* download_one_file.                                                      *)

\* let _ = remove_file(partial): its failure is ignored.
Discard(f) ==
    \/ part' = [part EXCEPT ![f] = << >>]
    \/ "remove" \in Faults /\ UNCHANGED part

Restart(t) ==
    /\ sum' = [sum EXCEPT ![t] = IF @ > bytes[t] THEN @ - bytes[t] ELSE 0]
    /\ bytes' = [bytes EXCEPT ![t] = 0]

Promote(f) ==
    /\ dest' = [dest EXCEPT ![f] = part[f]]
    /\ part' = [part EXCEPT ![f] = << >>]

\* The partial file is measured against what a HEAD says: promoted, thrown away
\* or kept for a resume.
OpenFile(t) ==
    LET f == file[t]  n == Len(part[f]) IN
    /\ pc[t] = "open"
    /\ \E told \in {Sizes[remote[f]]} \cup (IF "head" \in Faults THEN {0} ELSE {}) :
        /\ size' = [size EXCEPT ![t] = told]
        /\ \/ /\ told > 0 /\ n = told
              /\ Promote(f)
              /\ bytes' = [bytes EXCEPT ![t] = n]
              /\ file' = [file EXCEPT ![t] = f + 1]
              /\ Goto(t, "next") /\ UNCHANGED sum
           \/ /\ told > 0 /\ n > told
              /\ Discard(f)
              /\ sum' = [sum EXCEPT ![t] = IF @ > n THEN @ - n ELSE 0]
              /\ bytes' = [bytes EXCEPT ![t] = 0]
              /\ Goto(t, "request") /\ UNCHANGED <<dest, file>>
           \/ /\ told = 0 \/ n < told
              /\ bytes' = [bytes EXCEPT ![t] = n]
              /\ Goto(t, "request") /\ UNCHANGED <<disk, file, sum>>
    /\ tries' = [tries EXCEPT ![t] = 0]
    /\ UNCHANGED <<entry, remote, served, crashes, refusals>>

\* Seen cancelled: the partial file goes, and the download fails.
StopCancelled(t) ==
    /\ pc[t] \in {"request", "stream"} /\ IsCancelled
    /\ Discard(file[t])
    /\ Goto(t, "failing")
    /\ UNCHANGED <<entry, remote, dest, locals, crashes, refusals>>

\* Mutant: retries are not counted.
RetryForever(t) == Goto(t, "backoff") /\ UNCHANGED tries

\* Back off and try again, until the retries are used up.
Retry(t) ==
    \/ /\ tries[t] < MaxRetries
       /\ tries' = [tries EXCEPT ![t] = @ + 1]
       /\ Goto(t, "backoff")
    \/ tries[t] >= MaxRetries /\ Goto(t, "failing") /\ UNCHANGED tries

\* The request fails on the way, or with a status worth a retry or not.
RequestFails(t) ==
    /\ pc[t] = "request" /\ ~ IsCancelled
    /\ \/ "net" \in Faults /\ Retry(t)
       \/ "http" \in Faults /\ Goto(t, "failing") /\ UNCHANGED tries
    /\ UNCHANGED <<entry, remote, disk, file, bytes, size, sum, served, crashes, refusals>>

\* cancellable_sleep.
Backoff(t) ==
    /\ pc[t] = "backoff"
    /\ \/ IsCancelled /\ Goto(t, "failing")
       \/ Goto(t, "request")
    /\ UNCHANGED <<entry, remote, disk, locals, crashes, refusals>>

\* 416, whatever was asked for: the file is there, or is asked for once more from
\* its beginning. That is no retry: it is not counted and does not wait. A server
\* that answers 416 to a request without a range too is bounded by MaxRefusals.
RangeNotSatisfiable(t) ==
    LET f == file[t] IN
    /\ pc[t] = "request" /\ ~ IsCancelled
    /\ \/ bytes[t] > 0 /\ UNCHANGED refusals
       \/ bytes[t] = 0 /\ refusals < MaxRefusals /\ refusals' = refusals + 1
    /\ \/ /\ size[t] > 0 /\ bytes[t] = size[t]
          /\ Goto(t, "rename") /\ UNCHANGED <<part, bytes, sum>>
       \/ /\ size[t] = 0 \/ bytes[t] # size[t]
          /\ Discard(f) /\ Restart(t) /\ UNCHANGED pc
    /\ UNCHANGED <<entry, remote, dest, file, size, tries, served, crashes>>

\* Mutant: the partial file is not cut back to what will be resumed.
SetLenNot(s, n) == s

\* set_len: cut back to the bytes that are kept.
SetLen(s, n) == [k \in 1 .. n |-> IF k <= Len(s) THEN s[k] ELSE <<0, 0>>]

\* A response: 206 goes on where the partial file ends, 200 starts over. A size
\* the HEAD did not tell is learned from it, if it has one.
Respond(t) ==
    LET f == file[t]  length == Sizes[remote[f]] IN
    /\ pc[t] = "request" /\ ~ IsCancelled
    /\ \E kept \in {0} \cup (IF bytes[t] < length THEN {bytes[t]} ELSE {}) :
        /\ IF kept = bytes[t] THEN UNCHANGED <<bytes, sum>> ELSE Restart(t)
        /\ part' = [part EXCEPT ![f] = SetLen(@, kept)]
    /\ \/ (size[t] # 0 \/ "head" \in Faults) /\ UNCHANGED <<size, total>>
       \/ /\ size[t] = 0
          /\ size' = [size EXCEPT ![t] = length]
          /\ total' = total + length
    /\ served' = [served EXCEPT ![t] = remote[f]]
    /\ Goto(t, "stream")
    /\ UNCHANGED <<status, exited, shown, remote, dest, file, tries, crashes, refusals>>

Chunk(t) ==
    LET f == file[t] IN
    /\ pc[t] = "stream" /\ ~ IsCancelled
    /\ bytes[t] < Sizes[served[t]]
    /\ part' = [part EXCEPT ![f] = Append(@, <<served[t], bytes[t] + 1>>)]
    /\ bytes' = [bytes EXCEPT ![t] = @ + 1]
    /\ sum' = [sum EXCEPT ![t] = @ + 1]
    /\ shown' = sum[t] + 1
    /\ UNCHANGED <<status, exited, total, remote, dest, pc, file, size, tries, served, crashes, refusals>>

StreamFails(t) ==
    /\ pc[t] = "stream" /\ "net" \in Faults
    /\ Retry(t)
    /\ UNCHANGED <<entry, remote, disk, file, bytes, size, sum, served, crashes, refusals>>

\* The body ends where its length says.
StreamEnds(t) ==
    /\ pc[t] = "stream" /\ bytes[t] = Sizes[served[t]]
    /\ Goto(t, "rename")
    /\ UNCHANGED <<entry, remote, disk, locals, crashes, refusals>>

\* Mutant: on to the next file without a look at the list.
RenameThenOpen(t) ==
    /\ pc[t] = "rename"
    /\ Promote(file[t])
    /\ file' = [file EXCEPT ![t] = @ + 1]
    /\ Goto(t, "open")
    /\ UNCHANGED <<entry, remote, bytes, size, sum, tries, served, crashes, refusals>>

Rename(t) ==
    /\ pc[t] = "rename"
    /\ Promote(file[t])
    /\ file' = [file EXCEPT ![t] = @ + 1]
    /\ Goto(t, "next")
    /\ UNCHANGED <<entry, remote, bytes, size, sum, tries, served, crashes, refusals>>

-----------------------------------------------------------------------------
(* The task's end.                                                         *)

Complete(t) ==
    /\ pc[t] = "done"
    /\ status' = "completed" /\ exited' = TRUE
    /\ Exit(t)
    /\ UNCHANGED <<shown, total, remote, disk, crashes, refusals>>

\* Partial files are removed before the entry says that the task is over.
RemovePartials(t) ==
    /\ pc[t] = "failing"
    /\ \E kept \in IF "remove" \in Faults THEN SUBSET Files ELSE {{}} :
        part' = [f \in Files |-> IF f \in kept THEN part[f] ELSE << >>]
    /\ Goto(t, "failed")
    /\ UNCHANGED <<entry, remote, dest, locals, crashes, refusals>>

Fail(t) ==
    /\ pc[t] = "failed"
    /\ status' = (IF IsCancelled THEN status ELSE "failed") /\ exited' = TRUE
    /\ Exit(t)
    /\ UNCHANGED <<shown, total, remote, disk, crashes, refusals>>

-----------------------------------------------------------------------------
(* The environment.                                                        *)

\* The process ends: memory goes, the files stay.
Crash ==
    /\ crashes < MaxCrashes
    /\ crashes' = crashes + 1
    /\ Gone
    /\ pc' = [t \in Tasks |-> "idle"] /\ file' = [t \in Tasks |-> 0]
    /\ bytes' = [t \in Tasks |-> 0] /\ size' = [t \in Tasks |-> 0]
    /\ sum' = [t \in Tasks |-> 0] /\ tries' = [t \in Tasks |-> 0]
    /\ served' = [t \in Tasks |-> 0]
    /\ UNCHANGED <<remote, disk, refusals>>

RemoteChanges(f) ==
    /\ "remote" \in Faults /\ remote[f] < Len(Sizes)
    /\ remote' = [remote EXCEPT ![f] = @ + 1]
    /\ UNCHANGED <<entry, disk, pc, locals, crashes, refusals>>

-----------------------------------------------------------------------------
TaskStep(t) ==
    \/ Mkdir(t) \/ HeadPass(t) \/ NextFile(t) \/ OpenFile(t)
    \/ StopCancelled(t) \/ RequestFails(t) \/ Backoff(t) \/ RangeNotSatisfiable(t) \/ Respond(t)
    \/ Chunk(t) \/ StreamFails(t) \/ StreamEnds(t) \/ Rename(t)
    \/ Complete(t) \/ RemovePartials(t) \/ Fail(t)

Next ==
    \/ \E t \in Tasks : StartDownload(t) \/ TaskStep(t)
    \/ CancelDownload \/ ClearCompleted
    \/ Crash
    \/ \E f \in Files : RemoteChanges(f)

Spec == Init /\ [][Next]_vars

\* A spawned task is polled, and connects and reads have timeouts.
FairSpec == Spec /\ \A t \in Tasks : WF_vars(TaskStep(t))
-----------------------------------------------------------------------------
(* Properties.                                                             *)

Places == {"idle", "mkdir", "head", "next", "open", "request", "backoff", "stream", "rename",
           "done", "failing", "failed"}

EntryTypes == status \in Statuses /\ exited \in BOOLEAN

DiskTypes ==
    /\ remote \in [Files -> Versions]
    /\ part \in [Files -> Seq(Nat \X Nat)] /\ dest \in [Files -> Seq(Nat \X Nat)]

TaskTypes ==
    /\ pc \in [Tasks -> Places] /\ file \in [Tasks -> 0 .. NFiles + 1]
    /\ \A t \in Tasks :
          pc[t] \in {"next", "open", "request", "backoff", "stream", "rename"} => file[t] > 0
    /\ \A t \in Tasks :
          pc[t] \in {"open", "request", "backoff", "stream", "rename"} => file[t] <= NFiles
    /\ \A t \in Tasks : pc[t] = "stream" => served[t] \in Versions
    /\ bytes \in [Tasks -> Nat] /\ size \in [Tasks -> Nat]
    /\ tries \in [Tasks -> Nat] /\ served \in [Tasks -> Nat]
    /\ crashes \in Nat

CountTypes == shown \in Nat /\ total \in Nat /\ sum \in [Tasks -> Nat]

ControlTypes == EntryTypes /\ DiskTypes /\ TaskTypes

\* The types of every variable; a task at a file is at one of the model's.
TypeOK == ControlTypes /\ CountTypes /\ refusals \in 0 .. MaxRefusals

\* "Whether the background download task has exited": a task is at work only
\* under an entry that does not say so.
ExitedIsTrue == \A t \in Tasks : Running(t) => status # "absent" /\ exited = FALSE

\* Two tasks never write the files of one model, however cancels, failures and
\* new requests interleave.
OneTask == \A t, u \in Tasks : Running(t) /\ Running(u) => t = u

\* An entry that blocks a new download belongs to a task that will end it: a
\* model does not stay "already in progress" or "being cancelled" for ever.
BlockedIsBacked == ~ Startable => \E t \in Tasks : Running(t)

\* What is promoted to the destination is the remote file, whole and in order,
\* through retries, resumes, ignored ranges, failed removals and crashes. (Not so
\* once a remote file has changed: a resume appends its new chunks to old ones.)
DestIsWhole ==
    (\A f \in Files : remote[f] = 1) =>
        \A f \in Files : dest[f] # << >> => dest[f] = [k \in 1 .. Sizes[1] |-> <<1, k>>]

\* A download ends: with all files, with an error, or cancelled; provided that the
\* server does not answer 416 to requests for the whole file for ever, the one loop
\* that counts nothing.
TaskEnds == \A t \in Tasks : Running(t) ~> ~ Running(t)
=============================================================================
