------------------------ MODULE DownloadManagerProofs ------------------------
(***************************************************************************)
(* Proofs about DownloadManager, for any tasks, files, sizes, retries,     *)
(* faults and crashes. OneTask rests on the entry: while a task is at work *)
(* the entry says so (ExitedIsTrue), and a final status always comes with  *)
(* task_exited (FinalIsExited). DestIsWhole rests on what a task knows of  *)
(* the partial file it writes (InPlace). The byte counters are sums over   *)
(* the files (SumType), and a lexicographic count of what a task has left  *)
(* to do (Way, Turns, Unread) shows that it cannot run for ever.           *)
(***************************************************************************)
EXTENDS DownloadManager, FiniteSetTheorems, WellFoundedInduction, TLAPS

\* A completed or failed download has no task.
FinalIsExited == status \in {"completed", "failed"} => exited = TRUE

Exclusion == OneTask /\ ExitedIsTrue /\ FinalIsExited

-----------------------------------------------------------------------------
(* Types.                                                                  *)

LEMMA SizesType == \A v \in Versions : Sizes[v] \in Nat \ {0}
BY FilesAssumption DEF Versions

\* What the proofs below use of ControlTypes.
LEMMA TypeFacts ==
  ASSUME ControlTypes
  PROVE  /\ remote \in [Files -> Versions]
         /\ part \in [Files -> Seq(Nat \X Nat)] /\ dest \in [Files -> Seq(Nat \X Nat)]
         /\ \A f \in Files : Sizes[remote[f]] \in Nat \ {0}
         /\ \A f \in Files : Len(part[f]) \in Nat
BY SizesType DEF ControlTypes, DiskTypes

LEMMA TaskFacts ==
  ASSUME ControlTypes
  PROVE  /\ pc \in [Tasks -> Places] /\ file \in [Tasks -> 0 .. NFiles + 1]
         /\ bytes \in [Tasks -> Nat] /\ size \in [Tasks -> Nat]
         /\ tries \in [Tasks -> Nat] /\ served \in [Tasks -> Nat] /\ crashes \in Nat
BY DEF ControlTypes, TaskTypes

LEMMA AtFile ==
  ASSUME ControlTypes, NEW t \in Tasks
  PROVE  /\ pc[t] \in {"open", "request", "backoff", "stream", "rename"} => file[t] \in Files /\ file[t] + 1 \in 0 .. NFiles + 1
         /\ pc[t] = "next" => file[t] \in Nat /\ file[t] > 0
         /\ pc[t] = "stream" => served[t] \in Versions
<1>1. file[t] \in 0 .. NFiles + 1
  BY TaskFacts
<1> QED  BY <1>1, FilesAssumption DEF ControlTypes, TaskTypes, Files

LEMMA EmptyFile == << >> \in Seq(Nat \X Nat)
OBVIOUS

LEMMA DiscardType ==
  ASSUME ControlTypes, NEW f \in Files, Discard(f)
  PROVE  part' \in [Files -> Seq(Nat \X Nat)]
<1>1. CASE part' = [part EXCEPT ![f] = << >>]
  BY <1>1, TypeFacts, EmptyFile
<1>2. CASE UNCHANGED part
  BY <1>2, TypeFacts
<1> QED  BY <1>1, <1>2 DEF Discard

\* The three outcomes of OpenFile.
LEMMA OpenCases ==
  ASSUME ControlTypes, NEW t \in Tasks, OpenFile(t)
  PROVE  /\ pc[t] = "open" /\ file[t] \in Files /\ file[t] + 1 \in 0 .. NFiles + 1
         /\ \E told \in {0, Sizes[remote[file[t]]]} : size' = [size EXCEPT ![t] = told]
         /\ \/ /\ Len(part[file[t]]) = Sizes[remote[file[t]]]
               /\ Promote(file[t])
               /\ bytes' = [bytes EXCEPT ![t] = Len(part[file[t]])]
               /\ file' = [file EXCEPT ![t] = file[t] + 1]
               /\ Goto(t, "next")
            \/ /\ Discard(file[t]) /\ UNCHANGED <<dest, file>>
               /\ bytes' = [bytes EXCEPT ![t] = 0]
               /\ Goto(t, "request")
            \/ /\ UNCHANGED <<part, dest, file>>
               /\ bytes' = [bytes EXCEPT ![t] = Len(part[file[t]])]
               /\ Goto(t, "request")
<1>1. pc[t] = "open" /\ file[t] \in Files /\ file[t] + 1 \in 0 .. NFiles + 1
  BY AtFile DEF OpenFile
<1>2. \E told \in {0, Sizes[remote[file[t]]]} : size' = [size EXCEPT ![t] = told]
  BY DEF OpenFile
<1> DEFINE f == file[t]
           n == Len(part[f])
<1>3. PICK told \in {0, Sizes[remote[f]]} :
           \/ /\ told > 0 /\ n = told
              /\ Promote(f)
              /\ bytes' = [bytes EXCEPT ![t] = n]
              /\ file' = [file EXCEPT ![t] = f + 1]
              /\ Goto(t, "next")
           \/ /\ told > 0 /\ n > told
              /\ Discard(f)
              /\ bytes' = [bytes EXCEPT ![t] = 0]
              /\ Goto(t, "request") /\ UNCHANGED <<dest, file>>
           \/ /\ bytes' = [bytes EXCEPT ![t] = n]
              /\ Goto(t, "request") /\ UNCHANGED <<disk, file>>
  BY DEF OpenFile
<1>4. told > 0 => told = Sizes[remote[f]]
  OBVIOUS
<1> QED  BY <1>1, <1>2, <1>3, <1>4 DEF disk

LEMMA VersionsNat == Versions \subseteq Nat
BY FilesAssumption DEF Versions

LEMMA SetLenType ==
  ASSUME NEW s \in Seq(Nat \X Nat), NEW n \in Nat
  PROVE  SetLen(s, n) \in Seq(Nat \X Nat) /\ Len(SetLen(s, n)) = n
<1>1. \A k \in 1 .. n : (IF k <= Len(s) THEN s[k] ELSE <<0, 0>>) \in Nat \X Nat
  OBVIOUS
<1>2. SetLen(s, n) \in [1 .. n -> Nat \X Nat]
  BY <1>1 DEF SetLen
<1> QED  BY <1>2

\* What a response does to the task's position and to its partial file.
LEMMA RespondKeeps ==
  ASSUME ControlTypes, NEW t \in Tasks, Respond(t)
  PROVE  \E kept \in Nat :
            /\ kept = 0 \/ kept = bytes[t]
            /\ bytes' = [bytes EXCEPT ![t] = kept]
            /\ part' = [part EXCEPT ![file[t]] = SetLen(@, kept)]
<1>1. PICK kept \in {0} \cup (IF bytes[t] < Sizes[remote[file[t]]] THEN {bytes[t]} ELSE {}) :
            /\ IF kept = bytes[t] THEN UNCHANGED <<bytes, sum>> ELSE Restart(t)
            /\ part' = [part EXCEPT ![file[t]] = SetLen(@, kept)]
  BY DEF Respond
<1>2. kept \in Nat /\ (kept = 0 \/ kept = bytes[t])
  BY <1>1, TaskFacts
<1>3. bytes' = [bytes EXCEPT ![t] = kept]
  BY <1>1, <1>2, TaskFacts DEF Restart
<1> QED  BY <1>1, <1>2, <1>3

LEMMA StartDownloadType ==
  ASSUME ControlTypes, NEW t \in Tasks, StartDownload(t)
  PROVE  ControlTypes'
<1>1. EntryTypes'
  BY DEF ControlTypes, EntryTypes, Statuses, StartDownload, Startable, Fresh, Goto, entry, disk, locals
<1>2. DiskTypes'
  <2>1. remote' \in [Files -> Versions]
    BY TypeFacts DEF StartDownload, Startable, Fresh, Goto, entry, disk, locals
  <2>2. part' \in [Files -> Seq(Nat \X Nat)]
    BY TypeFacts, AtFile DEF StartDownload, Startable, Fresh, Goto, entry, disk, locals
  <2>3. dest' \in [Files -> Seq(Nat \X Nat)]
    BY TypeFacts, AtFile DEF StartDownload, Startable, Fresh, Goto, entry, disk, locals
  <2> QED  BY <2>1, <2>2, <2>3 DEF DiskTypes
<1>3. TaskTypes'
  <2>1. pc' \in [Tasks -> Places]
    BY TaskFacts DEF Places, StartDownload, Startable, Fresh, Goto, entry, disk, locals
  <2>2. file' \in [Tasks -> 0 .. NFiles + 1]
    BY TaskFacts, AtFile, FilesAssumption DEF Places, StartDownload, Startable, Fresh, Goto, entry, disk, locals
  <2>3. (\A u \in Tasks : pc[u] \in {"next", "open", "request", "backoff", "stream", "rename"} => file[u] > 0)'
    BY TaskFacts, AtFile DEF ControlTypes, TaskTypes, StartDownload, Startable, Fresh, Goto, entry, disk, locals
  <2>4. (\A u \in Tasks : pc[u] \in {"open", "request", "backoff", "stream", "rename"} => file[u] <= NFiles)'
    BY TaskFacts DEF ControlTypes, TaskTypes, StartDownload, Startable, Fresh, Goto, entry, disk, locals
  <2>5. (\A u \in Tasks : pc[u] = "stream" => served[u] \in Versions)'
    BY TaskFacts, TypeFacts, AtFile DEF ControlTypes, TaskTypes, StartDownload, Startable, Fresh, Goto, entry, disk, locals
  <2>6. bytes' \in [Tasks -> Nat]
    BY TaskFacts, TypeFacts, AtFile DEF StartDownload, Startable, Fresh, Goto, entry, disk, locals
  <2>7. size' \in [Tasks -> Nat]
    BY TaskFacts, TypeFacts, AtFile DEF StartDownload, Startable, Fresh, Goto, entry, disk, locals
  <2>8. tries' \in [Tasks -> Nat]
    BY TaskFacts DEF StartDownload, Startable, Fresh, Goto, entry, disk, locals
  <2>9. served' \in [Tasks -> Nat]
    BY TaskFacts, TypeFacts, AtFile, VersionsNat DEF StartDownload, Startable, Fresh, Goto, entry, disk, locals
  <2>10. crashes' \in Nat
    BY TaskFacts DEF StartDownload, Startable, Fresh, Goto, entry, disk, locals
  <2> QED  BY <2>1, <2>2, <2>3, <2>4, <2>5, <2>6, <2>7, <2>8, <2>9, <2>10 DEF TaskTypes
<1> QED  BY <1>1, <1>2, <1>3 DEF ControlTypes

LEMMA MkdirType ==
  ASSUME ControlTypes, NEW t \in Tasks, Mkdir(t)
  PROVE  ControlTypes'
<1>1. EntryTypes'
  BY DEF ControlTypes, EntryTypes, Statuses, Mkdir, Exit, Goto, entry, disk, locals
<1>2. DiskTypes'
  <2>1. remote' \in [Files -> Versions]
    BY TypeFacts DEF Mkdir, Exit, Goto, entry, disk, locals
  <2>2. part' \in [Files -> Seq(Nat \X Nat)]
    BY TypeFacts, AtFile DEF Mkdir, Exit, Goto, entry, disk, locals
  <2>3. dest' \in [Files -> Seq(Nat \X Nat)]
    BY TypeFacts, AtFile DEF Mkdir, Exit, Goto, entry, disk, locals
  <2> QED  BY <2>1, <2>2, <2>3 DEF DiskTypes
<1>3. TaskTypes'
  <2>1. CASE Goto(t, "head") /\ UNCHANGED locals
    BY <2>1, TaskFacts, AtFile DEF ControlTypes, TaskTypes, Places, Mkdir, Goto, locals
  <2>2. CASE Exit(t)
    <3>1. /\ pc' \in [Tasks -> Places] /\ file' \in [Tasks -> 0 .. NFiles + 1]
          /\ bytes' \in [Tasks -> Nat] /\ size' \in [Tasks -> Nat]
          /\ tries' \in [Tasks -> Nat] /\ served' \in [Tasks -> Nat] /\ crashes' \in Nat
      BY <2>2, TaskFacts, FilesAssumption DEF Mkdir, Exit, Places
    <3>2. \A u \in Tasks : pc'[u] # "idle" => pc'[u] = pc[u] /\ file'[u] = file[u] /\ served'[u] = served[u]
      BY <2>2, TaskFacts DEF Exit
    <3> QED  BY <3>1, <3>2 DEF ControlTypes, TaskTypes
  <2> QED  BY <2>1, <2>2 DEF Mkdir
<1> QED  BY <1>1, <1>2, <1>3 DEF ControlTypes

LEMMA HeadPassType ==
  ASSUME ControlTypes, NEW t \in Tasks, HeadPass(t)
  PROVE  ControlTypes'
<1>1. EntryTypes'
  BY DEF ControlTypes, EntryTypes, Statuses, HeadPass, Goto, entry, disk, locals
<1>2. DiskTypes'
  <2>1. remote' \in [Files -> Versions]
    BY TypeFacts DEF HeadPass, Goto, entry, disk, locals
  <2>2. part' \in [Files -> Seq(Nat \X Nat)]
    BY TypeFacts, AtFile DEF HeadPass, Goto, entry, disk, locals
  <2>3. dest' \in [Files -> Seq(Nat \X Nat)]
    BY TypeFacts, AtFile DEF HeadPass, Goto, entry, disk, locals
  <2> QED  BY <2>1, <2>2, <2>3 DEF DiskTypes
<1>3. TaskTypes'
  <2>1. pc' \in [Tasks -> Places]
    BY TaskFacts DEF Places, HeadPass, Goto, entry, disk, locals
  <2>2. file' \in [Tasks -> 0 .. NFiles + 1]
    <3>1. file' = [file EXCEPT ![t] = 1]
      BY DEF HeadPass
    <3> QED  BY <3>1, TaskFacts, FilesAssumption
  <2>3. (\A u \in Tasks : pc[u] \in {"next", "open", "request", "backoff", "stream", "rename"} => file[u] > 0)'
    <3>1. file' = [file EXCEPT ![t] = 1] /\ pc' = [pc EXCEPT ![t] = "next"]
      BY DEF HeadPass, Goto
    <3> QED  BY <3>1, TaskFacts DEF ControlTypes, TaskTypes
  <2>4. (\A u \in Tasks : pc[u] \in {"open", "request", "backoff", "stream", "rename"} => file[u] <= NFiles)'
    BY TaskFacts DEF ControlTypes, TaskTypes, HeadPass, Goto, entry, disk, locals
  <2>5. (\A u \in Tasks : pc[u] = "stream" => served[u] \in Versions)'
    BY TaskFacts, TypeFacts, AtFile DEF ControlTypes, TaskTypes, HeadPass, Goto, entry, disk, locals
  <2>6. bytes' \in [Tasks -> Nat]
    BY TaskFacts, TypeFacts, AtFile DEF HeadPass, Goto, entry, disk, locals
  <2>7. size' \in [Tasks -> Nat]
    BY TaskFacts, TypeFacts, AtFile DEF HeadPass, Goto, entry, disk, locals
  <2>8. tries' \in [Tasks -> Nat]
    BY TaskFacts DEF HeadPass, Goto, entry, disk, locals
  <2>9. served' \in [Tasks -> Nat]
    BY TaskFacts, TypeFacts, AtFile, VersionsNat DEF HeadPass, Goto, entry, disk, locals
  <2>10. crashes' \in Nat
    BY TaskFacts DEF HeadPass, Goto, entry, disk, locals
  <2> QED  BY <2>1, <2>2, <2>3, <2>4, <2>5, <2>6, <2>7, <2>8, <2>9, <2>10 DEF TaskTypes
<1> QED  BY <1>1, <1>2, <1>3 DEF ControlTypes

LEMMA NextFileType ==
  ASSUME ControlTypes, NEW t \in Tasks, NextFile(t)
  PROVE  ControlTypes'
<1>1. EntryTypes'
  BY DEF ControlTypes, EntryTypes, Statuses, NextFile, Goto, IsCancelled, entry, disk, locals
<1>2. DiskTypes'
  <2>1. remote' \in [Files -> Versions]
    BY TypeFacts DEF NextFile, Goto, IsCancelled, entry, disk, locals
  <2>2. part' \in [Files -> Seq(Nat \X Nat)]
    BY TypeFacts, AtFile DEF NextFile, Goto, IsCancelled, entry, disk, locals
  <2>3. dest' \in [Files -> Seq(Nat \X Nat)]
    BY TypeFacts, AtFile DEF NextFile, Goto, IsCancelled, entry, disk, locals
  <2> QED  BY <2>1, <2>2, <2>3 DEF DiskTypes
<1>3. TaskTypes'
  <2>1. pc' \in [Tasks -> Places]
    BY TaskFacts DEF Places, NextFile, Goto, IsCancelled, entry, disk, locals
  <2>2. file' \in [Tasks -> 0 .. NFiles + 1]
    <3>1. CASE UNCHANGED file
      BY <3>1, TaskFacts
    <3>2. CASE file[t] <= NFiles /\ file' = [file EXCEPT ![t] = @ + 1]
      <4>1. file[t] \in 0 .. NFiles + 1
        BY TaskFacts
      <4>2. file[t] + 1 \in 0 .. NFiles + 1
        BY <3>2, <4>1, FilesAssumption
      <4> QED  BY <3>2, <4>2, TaskFacts
    <3> QED  BY <3>1, <3>2 DEF NextFile
  <2>3. (\A u \in Tasks : pc[u] \in {"next", "open", "request", "backoff", "stream", "rename"} => file[u] > 0)'
    <3>1. pc[t] = "next" /\ file[t] \in Nat /\ file[t] > 0
      BY AtFile DEF NextFile
    <3>2. file'[t] > 0 /\ \A u \in Tasks : u # t => pc'[u] = pc[u] /\ file'[u] = file[u]
      <4>1. UNCHANGED file \/ file' = [file EXCEPT ![t] = @ + 1]
        BY DEF NextFile
      <4>2. UNCHANGED pc \/ \E p \in Places : pc' = [pc EXCEPT ![t] = p]
        BY DEF NextFile, Goto, Places
      <4> QED  BY <3>1, <4>1, <4>2, TaskFacts
    <3> QED  BY <3>2 DEF ControlTypes, TaskTypes
  <2>4. (\A u \in Tasks : pc[u] \in {"open", "request", "backoff", "stream", "rename"} => file[u] <= NFiles)'
    BY TaskFacts DEF ControlTypes, TaskTypes, NextFile, Goto, IsCancelled, entry, disk, locals
  <2>5. (\A u \in Tasks : pc[u] = "stream" => served[u] \in Versions)'
    BY TaskFacts, TypeFacts, AtFile DEF ControlTypes, TaskTypes, NextFile, Goto, IsCancelled, entry, disk, locals
  <2>6. bytes' \in [Tasks -> Nat]
    BY TaskFacts, TypeFacts, AtFile DEF NextFile, Goto, IsCancelled, entry, disk, locals
  <2>7. size' \in [Tasks -> Nat]
    BY TaskFacts, TypeFacts, AtFile DEF NextFile, Goto, IsCancelled, entry, disk, locals
  <2>8. tries' \in [Tasks -> Nat]
    BY TaskFacts DEF NextFile, Goto, IsCancelled, entry, disk, locals
  <2>9. served' \in [Tasks -> Nat]
    BY TaskFacts, TypeFacts, AtFile, VersionsNat DEF NextFile, Goto, IsCancelled, entry, disk, locals
  <2>10. crashes' \in Nat
    BY TaskFacts DEF NextFile, Goto, IsCancelled, entry, disk, locals
  <2> QED  BY <2>1, <2>2, <2>3, <2>4, <2>5, <2>6, <2>7, <2>8, <2>9, <2>10 DEF TaskTypes
<1> QED  BY <1>1, <1>2, <1>3 DEF ControlTypes

LEMMA OpenFileType ==
  ASSUME ControlTypes, NEW t \in Tasks, OpenFile(t)
  PROVE  ControlTypes'
<1>1. EntryTypes'
  BY DEF ControlTypes, EntryTypes, Statuses, OpenFile, Promote, Discard, Goto, entry, disk, locals
<1>2. DiskTypes'
  <2>1. remote' \in [Files -> Versions]
    BY TypeFacts DEF OpenFile, Promote, Discard, Goto, entry, disk, locals
  <2>2. part' \in [Files -> Seq(Nat \X Nat)]
    <3>1. CASE Promote(file[t])
      BY <3>1, TypeFacts, EmptyFile, OpenCases DEF Promote
    <3>2. CASE Discard(file[t])
      BY <3>2, DiscardType, OpenCases
    <3>3. CASE UNCHANGED part
      BY <3>3, TypeFacts
    <3> QED  BY <3>1, <3>2, <3>3, OpenCases
  <2>3. dest' \in [Files -> Seq(Nat \X Nat)]
    <3>1. CASE Promote(file[t])
      BY <3>1, TypeFacts, EmptyFile, OpenCases DEF Promote
    <3>2. CASE UNCHANGED dest
      BY <3>2, TypeFacts
    <3> QED  BY <3>1, <3>2, OpenCases
  <2> QED  BY <2>1, <2>2, <2>3 DEF DiskTypes
<1>3. TaskTypes'
  <2>1. pc' \in [Tasks -> Places]
    BY TaskFacts DEF Places, OpenFile, Promote, Discard, Goto, entry, disk, locals
  <2>2. file' \in [Tasks -> 0 .. NFiles + 1]
    <3>1. CASE UNCHANGED file
      BY <3>1, TaskFacts
    <3>2. CASE file' = [file EXCEPT ![t] = file[t] + 1]
      BY <3>2, OpenCases, TaskFacts
    <3> QED  BY <3>1, <3>2, OpenCases
  <2>3. (\A u \in Tasks : pc[u] \in {"next", "open", "request", "backoff", "stream", "rename"} => file[u] > 0)'
    <3>1. pc[t] = "open" /\ file[t] \in Nat /\ file[t] > 0
      BY OpenCases, FilesAssumption DEF Files
    <3>2. CASE UNCHANGED file /\ pc' = [pc EXCEPT ![t] = "request"]
      BY <3>1, <3>2, TaskFacts DEF ControlTypes, TaskTypes
    <3>3. CASE file' = [file EXCEPT ![t] = file[t] + 1] /\ pc' = [pc EXCEPT ![t] = "next"]
      BY <3>1, <3>3, TaskFacts DEF ControlTypes, TaskTypes
    <3> QED  BY <3>2, <3>3, OpenCases DEF Goto
  <2>4. (\A u \in Tasks : pc[u] \in {"open", "request", "backoff", "stream", "rename"} => file[u] <= NFiles)'
    BY TaskFacts DEF ControlTypes, TaskTypes, OpenFile, Promote, Discard, Goto, entry, disk, locals
  <2>5. (\A u \in Tasks : pc[u] = "stream" => served[u] \in Versions)'
    BY TaskFacts, TypeFacts, AtFile DEF ControlTypes, TaskTypes, OpenFile, Promote, Discard, Goto, entry, disk, locals
  <2>6. bytes' \in [Tasks -> Nat]
    <3>1. Len(part[file[t]]) \in Nat
      BY TypeFacts, OpenCases
    <3> QED  BY <3>1, TaskFacts, OpenCases
  <2>7. size' \in [Tasks -> Nat]
    BY TaskFacts, TypeFacts, AtFile DEF OpenFile, Promote, Discard, Goto, entry, disk, locals
  <2>8. tries' \in [Tasks -> Nat]
    BY TaskFacts DEF OpenFile, Promote, Discard, Goto, entry, disk, locals
  <2>9. served' \in [Tasks -> Nat]
    BY TaskFacts, TypeFacts, AtFile, VersionsNat DEF OpenFile, Promote, Discard, Goto, entry, disk, locals
  <2>10. crashes' \in Nat
    BY TaskFacts DEF OpenFile, Promote, Discard, Goto, entry, disk, locals
  <2> QED  BY <2>1, <2>2, <2>3, <2>4, <2>5, <2>6, <2>7, <2>8, <2>9, <2>10 DEF TaskTypes
<1> QED  BY <1>1, <1>2, <1>3 DEF ControlTypes

LEMMA StopCancelledType ==
  ASSUME ControlTypes, NEW t \in Tasks, StopCancelled(t)
  PROVE  ControlTypes'
<1>1. EntryTypes'
  BY DEF ControlTypes, EntryTypes, Statuses, StopCancelled, IsCancelled, Discard, Goto, entry, disk, locals
<1>2. DiskTypes'
  <2>1. remote' \in [Files -> Versions]
    BY TypeFacts DEF StopCancelled, IsCancelled, Discard, Goto, entry, disk, locals
  <2>2. part' \in [Files -> Seq(Nat \X Nat)]
    BY AtFile, DiscardType DEF StopCancelled
  <2>3. dest' \in [Files -> Seq(Nat \X Nat)]
    BY TypeFacts, AtFile DEF StopCancelled, IsCancelled, Discard, Goto, entry, disk, locals
  <2> QED  BY <2>1, <2>2, <2>3 DEF DiskTypes
<1>3. TaskTypes'
  <2>1. pc' \in [Tasks -> Places]
    BY TaskFacts DEF Places, StopCancelled, IsCancelled, Discard, Goto, entry, disk, locals
  <2>2. file' \in [Tasks -> 0 .. NFiles + 1]
    BY TaskFacts, AtFile, FilesAssumption DEF Places, StopCancelled, IsCancelled, Discard, Goto, entry, disk, locals
  <2>3. (\A u \in Tasks : pc[u] \in {"next", "open", "request", "backoff", "stream", "rename"} => file[u] > 0)'
    BY TaskFacts, AtFile DEF ControlTypes, TaskTypes, StopCancelled, IsCancelled, Discard, Goto, entry, disk, locals
  <2>4. (\A u \in Tasks : pc[u] \in {"open", "request", "backoff", "stream", "rename"} => file[u] <= NFiles)'
    BY TaskFacts DEF ControlTypes, TaskTypes, StopCancelled, IsCancelled, Discard, Goto, entry, disk, locals
  <2>5. (\A u \in Tasks : pc[u] = "stream" => served[u] \in Versions)'
    BY TaskFacts, TypeFacts, AtFile DEF ControlTypes, TaskTypes, StopCancelled, IsCancelled, Discard, Goto, entry, disk, locals
  <2>6. bytes' \in [Tasks -> Nat]
    BY TaskFacts, TypeFacts, AtFile DEF StopCancelled, IsCancelled, Discard, Goto, entry, disk, locals
  <2>7. size' \in [Tasks -> Nat]
    BY TaskFacts, TypeFacts, AtFile DEF StopCancelled, IsCancelled, Discard, Goto, entry, disk, locals
  <2>8. tries' \in [Tasks -> Nat]
    BY TaskFacts DEF StopCancelled, IsCancelled, Discard, Goto, entry, disk, locals
  <2>9. served' \in [Tasks -> Nat]
    BY TaskFacts, TypeFacts, AtFile, VersionsNat DEF StopCancelled, IsCancelled, Discard, Goto, entry, disk, locals
  <2>10. crashes' \in Nat
    BY TaskFacts DEF StopCancelled, IsCancelled, Discard, Goto, entry, disk, locals
  <2> QED  BY <2>1, <2>2, <2>3, <2>4, <2>5, <2>6, <2>7, <2>8, <2>9, <2>10 DEF TaskTypes
<1> QED  BY <1>1, <1>2, <1>3 DEF ControlTypes

LEMMA RequestFailsType ==
  ASSUME ControlTypes, NEW t \in Tasks, RequestFails(t)
  PROVE  ControlTypes'
<1>1. EntryTypes'
  BY DEF ControlTypes, EntryTypes, Statuses, RequestFails, IsCancelled, Retry, Goto, entry, disk, locals
<1>2. DiskTypes'
  <2>1. remote' \in [Files -> Versions]
    BY TypeFacts DEF RequestFails, IsCancelled, Retry, Goto, entry, disk, locals
  <2>2. part' \in [Files -> Seq(Nat \X Nat)]
    BY TypeFacts, AtFile DEF RequestFails, IsCancelled, Retry, Goto, entry, disk, locals
  <2>3. dest' \in [Files -> Seq(Nat \X Nat)]
    BY TypeFacts, AtFile DEF RequestFails, IsCancelled, Retry, Goto, entry, disk, locals
  <2> QED  BY <2>1, <2>2, <2>3 DEF DiskTypes
<1>3. TaskTypes'
  <2>1. pc' \in [Tasks -> Places]
    BY TaskFacts DEF Places, RequestFails, IsCancelled, Retry, Goto, entry, disk, locals
  <2>2. file' \in [Tasks -> 0 .. NFiles + 1]
    BY TaskFacts, AtFile, FilesAssumption DEF Places, RequestFails, IsCancelled, Retry, Goto, entry, disk, locals
  <2>3. (\A u \in Tasks : pc[u] \in {"next", "open", "request", "backoff", "stream", "rename"} => file[u] > 0)'
    BY TaskFacts, AtFile DEF ControlTypes, TaskTypes, RequestFails, IsCancelled, Retry, Goto, entry, disk, locals
  <2>4. (\A u \in Tasks : pc[u] \in {"open", "request", "backoff", "stream", "rename"} => file[u] <= NFiles)'
    BY TaskFacts DEF ControlTypes, TaskTypes, RequestFails, IsCancelled, Retry, Goto, entry, disk, locals
  <2>5. (\A u \in Tasks : pc[u] = "stream" => served[u] \in Versions)'
    BY TaskFacts, TypeFacts, AtFile DEF ControlTypes, TaskTypes, RequestFails, IsCancelled, Retry, Goto, entry, disk, locals
  <2>6. bytes' \in [Tasks -> Nat]
    BY TaskFacts, TypeFacts, AtFile DEF RequestFails, IsCancelled, Retry, Goto, entry, disk, locals
  <2>7. size' \in [Tasks -> Nat]
    BY TaskFacts, TypeFacts, AtFile DEF RequestFails, IsCancelled, Retry, Goto, entry, disk, locals
  <2>8. tries' \in [Tasks -> Nat]
    BY TaskFacts DEF RequestFails, IsCancelled, Retry, Goto, entry, disk, locals
  <2>9. served' \in [Tasks -> Nat]
    BY TaskFacts, TypeFacts, AtFile, VersionsNat DEF RequestFails, IsCancelled, Retry, Goto, entry, disk, locals
  <2>10. crashes' \in Nat
    BY TaskFacts DEF RequestFails, IsCancelled, Retry, Goto, entry, disk, locals
  <2> QED  BY <2>1, <2>2, <2>3, <2>4, <2>5, <2>6, <2>7, <2>8, <2>9, <2>10 DEF TaskTypes
<1> QED  BY <1>1, <1>2, <1>3 DEF ControlTypes

LEMMA BackoffType ==
  ASSUME ControlTypes, NEW t \in Tasks, Backoff(t)
  PROVE  ControlTypes'
<1>1. EntryTypes'
  BY DEF ControlTypes, EntryTypes, Statuses, Backoff, IsCancelled, Goto, entry, disk, locals
<1>2. DiskTypes'
  <2>1. remote' \in [Files -> Versions]
    BY TypeFacts DEF Backoff, IsCancelled, Goto, entry, disk, locals
  <2>2. part' \in [Files -> Seq(Nat \X Nat)]
    BY TypeFacts, AtFile DEF Backoff, IsCancelled, Goto, entry, disk, locals
  <2>3. dest' \in [Files -> Seq(Nat \X Nat)]
    BY TypeFacts, AtFile DEF Backoff, IsCancelled, Goto, entry, disk, locals
  <2> QED  BY <2>1, <2>2, <2>3 DEF DiskTypes
<1>3. TaskTypes'
  <2>1. pc' \in [Tasks -> Places]
    BY TaskFacts DEF Places, Backoff, IsCancelled, Goto, entry, disk, locals
  <2>2. file' \in [Tasks -> 0 .. NFiles + 1]
    BY TaskFacts, AtFile, FilesAssumption DEF Places, Backoff, IsCancelled, Goto, entry, disk, locals
  <2>3. (\A u \in Tasks : pc[u] \in {"next", "open", "request", "backoff", "stream", "rename"} => file[u] > 0)'
    BY TaskFacts, AtFile DEF ControlTypes, TaskTypes, Backoff, IsCancelled, Goto, entry, disk, locals
  <2>4. (\A u \in Tasks : pc[u] \in {"open", "request", "backoff", "stream", "rename"} => file[u] <= NFiles)'
    BY TaskFacts DEF ControlTypes, TaskTypes, Backoff, IsCancelled, Goto, entry, disk, locals
  <2>5. (\A u \in Tasks : pc[u] = "stream" => served[u] \in Versions)'
    BY TaskFacts, TypeFacts, AtFile DEF ControlTypes, TaskTypes, Backoff, IsCancelled, Goto, entry, disk, locals
  <2>6. bytes' \in [Tasks -> Nat]
    BY TaskFacts, TypeFacts, AtFile DEF Backoff, IsCancelled, Goto, entry, disk, locals
  <2>7. size' \in [Tasks -> Nat]
    BY TaskFacts, TypeFacts, AtFile DEF Backoff, IsCancelled, Goto, entry, disk, locals
  <2>8. tries' \in [Tasks -> Nat]
    BY TaskFacts DEF Backoff, IsCancelled, Goto, entry, disk, locals
  <2>9. served' \in [Tasks -> Nat]
    BY TaskFacts, TypeFacts, AtFile, VersionsNat DEF Backoff, IsCancelled, Goto, entry, disk, locals
  <2>10. crashes' \in Nat
    BY TaskFacts DEF Backoff, IsCancelled, Goto, entry, disk, locals
  <2> QED  BY <2>1, <2>2, <2>3, <2>4, <2>5, <2>6, <2>7, <2>8, <2>9, <2>10 DEF TaskTypes
<1> QED  BY <1>1, <1>2, <1>3 DEF ControlTypes

LEMMA RangeNotSatisfiableType ==
  ASSUME ControlTypes, NEW t \in Tasks, RangeNotSatisfiable(t)
  PROVE  ControlTypes'
<1>1. EntryTypes'
  BY DEF ControlTypes, EntryTypes, Statuses, RangeNotSatisfiable, IsCancelled, Goto, Discard, Restart, entry, disk, locals
<1>2. DiskTypes'
  <2>1. remote' \in [Files -> Versions]
    BY TypeFacts DEF RangeNotSatisfiable, IsCancelled, Goto, Discard, Restart, entry, disk, locals
  <2>2. part' \in [Files -> Seq(Nat \X Nat)]
    <3>1. file[t] \in Files
      BY AtFile DEF RangeNotSatisfiable
    <3>2. CASE Discard(file[t])
      BY <3>1, <3>2, DiscardType
    <3>3. CASE UNCHANGED part
      BY <3>3, TypeFacts
    <3> QED  BY <3>2, <3>3 DEF RangeNotSatisfiable
  <2>3. dest' \in [Files -> Seq(Nat \X Nat)]
    BY TypeFacts, AtFile DEF RangeNotSatisfiable, IsCancelled, Goto, Discard, Restart, entry, disk, locals
  <2> QED  BY <2>1, <2>2, <2>3 DEF DiskTypes
<1>3. TaskTypes'
  <2>1. pc' \in [Tasks -> Places]
    BY TaskFacts DEF Places, RangeNotSatisfiable, IsCancelled, Goto, Discard, Restart, entry, disk, locals
  <2>2. file' \in [Tasks -> 0 .. NFiles + 1]
    BY TaskFacts, AtFile, FilesAssumption DEF Places, RangeNotSatisfiable, IsCancelled, Goto, Discard, Restart, entry, disk, locals
  <2>3. (\A u \in Tasks : pc[u] \in {"next", "open", "request", "backoff", "stream", "rename"} => file[u] > 0)'
    BY TaskFacts, AtFile DEF ControlTypes, TaskTypes, RangeNotSatisfiable, IsCancelled, Goto, Discard, Restart, entry, disk, locals
  <2>4. (\A u \in Tasks : pc[u] \in {"open", "request", "backoff", "stream", "rename"} => file[u] <= NFiles)'
    BY TaskFacts DEF ControlTypes, TaskTypes, RangeNotSatisfiable, IsCancelled, Goto, Discard, Restart, entry, disk, locals
  <2>5. (\A u \in Tasks : pc[u] = "stream" => served[u] \in Versions)'
    BY TaskFacts, TypeFacts, AtFile DEF ControlTypes, TaskTypes, RangeNotSatisfiable, IsCancelled, Goto, Discard, Restart, entry, disk, locals
  <2>6. bytes' \in [Tasks -> Nat]
    <3>1. UNCHANGED bytes \/ bytes' = [bytes EXCEPT ![t] = 0]
      BY DEF RangeNotSatisfiable, Restart
    <3> QED  BY <3>1, TaskFacts
  <2>7. size' \in [Tasks -> Nat]
    BY TaskFacts, TypeFacts, AtFile DEF RangeNotSatisfiable, IsCancelled, Goto, Discard, Restart, entry, disk, locals
  <2>8. tries' \in [Tasks -> Nat]
    BY TaskFacts DEF RangeNotSatisfiable, IsCancelled, Goto, Discard, Restart, entry, disk, locals
  <2>9. served' \in [Tasks -> Nat]
    BY TaskFacts, TypeFacts, AtFile, VersionsNat DEF RangeNotSatisfiable, IsCancelled, Goto, Discard, Restart, entry, disk, locals
  <2>10. crashes' \in Nat
    BY TaskFacts DEF RangeNotSatisfiable, IsCancelled, Goto, Discard, Restart, entry, disk, locals
  <2> QED  BY <2>1, <2>2, <2>3, <2>4, <2>5, <2>6, <2>7, <2>8, <2>9, <2>10 DEF TaskTypes
<1> QED  BY <1>1, <1>2, <1>3 DEF ControlTypes

LEMMA RespondType ==
  ASSUME ControlTypes, NEW t \in Tasks, Respond(t)
  PROVE  ControlTypes'
<1>1. EntryTypes'
  BY DEF ControlTypes, EntryTypes, Statuses, Respond, IsCancelled, Restart, SetLen, Goto, entry, disk, locals
<1>2. DiskTypes'
  <2>1. remote' \in [Files -> Versions]
    BY TypeFacts DEF Respond, IsCancelled, Restart, SetLen, Goto, entry, disk, locals
  <2>2. part' \in [Files -> Seq(Nat \X Nat)]
    <3>1. file[t] \in Files
      BY AtFile DEF Respond
    <3>2. PICK kept \in Nat : part' = [part EXCEPT ![file[t]] = SetLen(@, kept)]
      BY RespondKeeps
    <3>3. SetLen(part[file[t]], kept) \in Seq(Nat \X Nat)
      BY <3>1, TypeFacts, SetLenType
    <3> QED  BY <3>1, <3>2, <3>3, TypeFacts
  <2>3. dest' \in [Files -> Seq(Nat \X Nat)]
    BY TypeFacts, AtFile DEF Respond, IsCancelled, Restart, SetLen, Goto, entry, disk, locals
  <2> QED  BY <2>1, <2>2, <2>3 DEF DiskTypes
<1>3. TaskTypes'
  <2>1. pc' \in [Tasks -> Places]
    BY TaskFacts DEF Places, Respond, IsCancelled, Restart, SetLen, Goto, entry, disk, locals
  <2>2. file' \in [Tasks -> 0 .. NFiles + 1]
    BY TaskFacts, AtFile, FilesAssumption DEF Places, Respond, IsCancelled, Restart, SetLen, Goto, entry, disk, locals
  <2>3. (\A u \in Tasks : pc[u] \in {"next", "open", "request", "backoff", "stream", "rename"} => file[u] > 0)'
    BY TaskFacts, AtFile DEF ControlTypes, TaskTypes, Respond, IsCancelled, Restart, SetLen, Goto, entry, disk, locals
  <2>4. (\A u \in Tasks : pc[u] \in {"open", "request", "backoff", "stream", "rename"} => file[u] <= NFiles)'
    BY TaskFacts DEF ControlTypes, TaskTypes, Respond, IsCancelled, Restart, SetLen, Goto, entry, disk, locals
  <2>5. (\A u \in Tasks : pc[u] = "stream" => served[u] \in Versions)'
    BY TaskFacts, TypeFacts, AtFile DEF ControlTypes, TaskTypes, Respond, IsCancelled, Restart, SetLen, Goto, entry, disk, locals
  <2>6. bytes' \in [Tasks -> Nat]
    BY TaskFacts, TypeFacts, AtFile DEF Respond, IsCancelled, Restart, SetLen, Goto, entry, disk, locals
  <2>7. size' \in [Tasks -> Nat]
    BY TaskFacts, TypeFacts, AtFile DEF Respond, IsCancelled, Restart, SetLen, Goto, entry, disk, locals
  <2>8. tries' \in [Tasks -> Nat]
    BY TaskFacts DEF Respond, IsCancelled, Restart, SetLen, Goto, entry, disk, locals
  <2>9. served' \in [Tasks -> Nat]
    BY TaskFacts, TypeFacts, AtFile, VersionsNat DEF Respond, IsCancelled, Restart, SetLen, Goto, entry, disk, locals
  <2>10. crashes' \in Nat
    BY TaskFacts DEF Respond, IsCancelled, Restart, SetLen, Goto, entry, disk, locals
  <2> QED  BY <2>1, <2>2, <2>3, <2>4, <2>5, <2>6, <2>7, <2>8, <2>9, <2>10 DEF TaskTypes
<1> QED  BY <1>1, <1>2, <1>3 DEF ControlTypes

LEMMA ChunkType ==
  ASSUME ControlTypes, NEW t \in Tasks, Chunk(t)
  PROVE  ControlTypes'
<1>1. EntryTypes'
  BY DEF ControlTypes, EntryTypes, Statuses, Chunk, IsCancelled, entry, disk, locals
<1>2. DiskTypes'
  <2>1. remote' \in [Files -> Versions]
    BY TypeFacts DEF Chunk, IsCancelled, entry, disk, locals
  <2>2. part' \in [Files -> Seq(Nat \X Nat)]
    <3>1. file[t] \in Files /\ <<served[t], bytes[t] + 1>> \in Nat \X Nat
      BY AtFile, TaskFacts DEF Chunk
    <3>2. part[file[t]] \in Seq(Nat \X Nat)
      BY <3>1, TypeFacts
    <3>3. Append(part[file[t]], <<served[t], bytes[t] + 1>>) \in Seq(Nat \X Nat)
      BY <3>1, <3>2
    <3>4. part' = [part EXCEPT ![file[t]] = Append(part[file[t]], <<served[t], bytes[t] + 1>>)]
      BY DEF Chunk
    <3> QED  BY <3>1, <3>3, <3>4, TypeFacts
  <2>3. dest' \in [Files -> Seq(Nat \X Nat)]
    BY TypeFacts, AtFile DEF Chunk, IsCancelled, entry, disk, locals
  <2> QED  BY <2>1, <2>2, <2>3 DEF DiskTypes
<1>3. TaskTypes'
  <2>1. pc' \in [Tasks -> Places]
    BY TaskFacts DEF Places, Chunk, IsCancelled, entry, disk, locals
  <2>2. file' \in [Tasks -> 0 .. NFiles + 1]
    BY TaskFacts, AtFile, FilesAssumption DEF Places, Chunk, IsCancelled, entry, disk, locals
  <2>3. (\A u \in Tasks : pc[u] \in {"next", "open", "request", "backoff", "stream", "rename"} => file[u] > 0)'
    BY TaskFacts, AtFile DEF ControlTypes, TaskTypes, Chunk, IsCancelled, entry, disk, locals
  <2>4. (\A u \in Tasks : pc[u] \in {"open", "request", "backoff", "stream", "rename"} => file[u] <= NFiles)'
    BY TaskFacts DEF ControlTypes, TaskTypes, Chunk, IsCancelled, entry, disk, locals
  <2>5. (\A u \in Tasks : pc[u] = "stream" => served[u] \in Versions)'
    BY TaskFacts, TypeFacts, AtFile DEF ControlTypes, TaskTypes, Chunk, IsCancelled, entry, disk, locals
  <2>6. bytes' \in [Tasks -> Nat]
    BY TaskFacts, TypeFacts, AtFile DEF Chunk, IsCancelled, entry, disk, locals
  <2>7. size' \in [Tasks -> Nat]
    BY TaskFacts, TypeFacts, AtFile DEF Chunk, IsCancelled, entry, disk, locals
  <2>8. tries' \in [Tasks -> Nat]
    BY TaskFacts DEF Chunk, IsCancelled, entry, disk, locals
  <2>9. served' \in [Tasks -> Nat]
    BY TaskFacts, TypeFacts, AtFile, VersionsNat DEF Chunk, IsCancelled, entry, disk, locals
  <2>10. crashes' \in Nat
    BY TaskFacts DEF Chunk, IsCancelled, entry, disk, locals
  <2> QED  BY <2>1, <2>2, <2>3, <2>4, <2>5, <2>6, <2>7, <2>8, <2>9, <2>10 DEF TaskTypes
<1> QED  BY <1>1, <1>2, <1>3 DEF ControlTypes

LEMMA StreamFailsType ==
  ASSUME ControlTypes, NEW t \in Tasks, StreamFails(t)
  PROVE  ControlTypes'
<1>1. EntryTypes'
  BY DEF ControlTypes, EntryTypes, Statuses, StreamFails, Retry, Goto, entry, disk, locals
<1>2. DiskTypes'
  <2>1. remote' \in [Files -> Versions]
    BY TypeFacts DEF StreamFails, Retry, Goto, entry, disk, locals
  <2>2. part' \in [Files -> Seq(Nat \X Nat)]
    BY TypeFacts, AtFile DEF StreamFails, Retry, Goto, entry, disk, locals
  <2>3. dest' \in [Files -> Seq(Nat \X Nat)]
    BY TypeFacts, AtFile DEF StreamFails, Retry, Goto, entry, disk, locals
  <2> QED  BY <2>1, <2>2, <2>3 DEF DiskTypes
<1>3. TaskTypes'
  <2>1. pc' \in [Tasks -> Places]
    BY TaskFacts DEF Places, StreamFails, Retry, Goto, entry, disk, locals
  <2>2. file' \in [Tasks -> 0 .. NFiles + 1]
    BY TaskFacts, AtFile, FilesAssumption DEF Places, StreamFails, Retry, Goto, entry, disk, locals
  <2>3. (\A u \in Tasks : pc[u] \in {"next", "open", "request", "backoff", "stream", "rename"} => file[u] > 0)'
    BY TaskFacts, AtFile DEF ControlTypes, TaskTypes, StreamFails, Retry, Goto, entry, disk, locals
  <2>4. (\A u \in Tasks : pc[u] \in {"open", "request", "backoff", "stream", "rename"} => file[u] <= NFiles)'
    BY TaskFacts DEF ControlTypes, TaskTypes, StreamFails, Retry, Goto, entry, disk, locals
  <2>5. (\A u \in Tasks : pc[u] = "stream" => served[u] \in Versions)'
    BY TaskFacts, TypeFacts, AtFile DEF ControlTypes, TaskTypes, StreamFails, Retry, Goto, entry, disk, locals
  <2>6. bytes' \in [Tasks -> Nat]
    BY TaskFacts, TypeFacts, AtFile DEF StreamFails, Retry, Goto, entry, disk, locals
  <2>7. size' \in [Tasks -> Nat]
    BY TaskFacts, TypeFacts, AtFile DEF StreamFails, Retry, Goto, entry, disk, locals
  <2>8. tries' \in [Tasks -> Nat]
    BY TaskFacts DEF StreamFails, Retry, Goto, entry, disk, locals
  <2>9. served' \in [Tasks -> Nat]
    BY TaskFacts, TypeFacts, AtFile, VersionsNat DEF StreamFails, Retry, Goto, entry, disk, locals
  <2>10. crashes' \in Nat
    BY TaskFacts DEF StreamFails, Retry, Goto, entry, disk, locals
  <2> QED  BY <2>1, <2>2, <2>3, <2>4, <2>5, <2>6, <2>7, <2>8, <2>9, <2>10 DEF TaskTypes
<1> QED  BY <1>1, <1>2, <1>3 DEF ControlTypes

LEMMA StreamEndsType ==
  ASSUME ControlTypes, NEW t \in Tasks, StreamEnds(t)
  PROVE  ControlTypes'
<1>1. EntryTypes'
  BY DEF ControlTypes, EntryTypes, Statuses, StreamEnds, Goto, entry, disk, locals
<1>2. DiskTypes'
  <2>1. remote' \in [Files -> Versions]
    BY TypeFacts DEF StreamEnds, Goto, entry, disk, locals
  <2>2. part' \in [Files -> Seq(Nat \X Nat)]
    BY TypeFacts, AtFile DEF StreamEnds, Goto, entry, disk, locals
  <2>3. dest' \in [Files -> Seq(Nat \X Nat)]
    BY TypeFacts, AtFile DEF StreamEnds, Goto, entry, disk, locals
  <2> QED  BY <2>1, <2>2, <2>3 DEF DiskTypes
<1>3. TaskTypes'
  <2>1. pc' \in [Tasks -> Places]
    BY TaskFacts DEF Places, StreamEnds, Goto, entry, disk, locals
  <2>2. file' \in [Tasks -> 0 .. NFiles + 1]
    BY TaskFacts, AtFile, FilesAssumption DEF Places, StreamEnds, Goto, entry, disk, locals
  <2>3. (\A u \in Tasks : pc[u] \in {"next", "open", "request", "backoff", "stream", "rename"} => file[u] > 0)'
    BY TaskFacts, AtFile DEF ControlTypes, TaskTypes, StreamEnds, Goto, entry, disk, locals
  <2>4. (\A u \in Tasks : pc[u] \in {"open", "request", "backoff", "stream", "rename"} => file[u] <= NFiles)'
    BY TaskFacts DEF ControlTypes, TaskTypes, StreamEnds, Goto, entry, disk, locals
  <2>5. (\A u \in Tasks : pc[u] = "stream" => served[u] \in Versions)'
    BY TaskFacts, TypeFacts, AtFile DEF ControlTypes, TaskTypes, StreamEnds, Goto, entry, disk, locals
  <2>6. bytes' \in [Tasks -> Nat]
    BY TaskFacts, TypeFacts, AtFile DEF StreamEnds, Goto, entry, disk, locals
  <2>7. size' \in [Tasks -> Nat]
    BY TaskFacts, TypeFacts, AtFile DEF StreamEnds, Goto, entry, disk, locals
  <2>8. tries' \in [Tasks -> Nat]
    BY TaskFacts DEF StreamEnds, Goto, entry, disk, locals
  <2>9. served' \in [Tasks -> Nat]
    BY TaskFacts, TypeFacts, AtFile, VersionsNat DEF StreamEnds, Goto, entry, disk, locals
  <2>10. crashes' \in Nat
    BY TaskFacts DEF StreamEnds, Goto, entry, disk, locals
  <2> QED  BY <2>1, <2>2, <2>3, <2>4, <2>5, <2>6, <2>7, <2>8, <2>9, <2>10 DEF TaskTypes
<1> QED  BY <1>1, <1>2, <1>3 DEF ControlTypes

LEMMA RenameType ==
  ASSUME ControlTypes, NEW t \in Tasks, Rename(t)
  PROVE  ControlTypes'
<1>1. EntryTypes'
  BY DEF ControlTypes, EntryTypes, Statuses, Rename, Promote, Goto, entry, disk, locals
<1>2. DiskTypes'
  <2>1. remote' \in [Files -> Versions]
    BY TypeFacts DEF Rename, Promote, Goto, entry, disk, locals
  <2>2. part' \in [Files -> Seq(Nat \X Nat)]
    BY TypeFacts, AtFile DEF Rename, Promote, Goto, entry, disk, locals
  <2>3. dest' \in [Files -> Seq(Nat \X Nat)]
    BY TypeFacts, AtFile DEF Rename, Promote, Goto, entry, disk, locals
  <2> QED  BY <2>1, <2>2, <2>3 DEF DiskTypes
<1>3. TaskTypes'
  <2>1. pc' \in [Tasks -> Places]
    BY TaskFacts DEF Places, Rename, Promote, Goto, entry, disk, locals
  <2>2. file' \in [Tasks -> 0 .. NFiles + 1]
    BY TaskFacts, AtFile, FilesAssumption DEF Places, Rename, Promote, Goto, entry, disk, locals
  <2>3. (\A u \in Tasks : pc[u] \in {"next", "open", "request", "backoff", "stream", "rename"} => file[u] > 0)'
    BY TaskFacts, AtFile DEF ControlTypes, TaskTypes, Rename, Promote, Goto, entry, disk, locals
  <2>4. (\A u \in Tasks : pc[u] \in {"open", "request", "backoff", "stream", "rename"} => file[u] <= NFiles)'
    BY TaskFacts DEF ControlTypes, TaskTypes, Rename, Promote, Goto, entry, disk, locals
  <2>5. (\A u \in Tasks : pc[u] = "stream" => served[u] \in Versions)'
    BY TaskFacts, TypeFacts, AtFile DEF ControlTypes, TaskTypes, Rename, Promote, Goto, entry, disk, locals
  <2>6. bytes' \in [Tasks -> Nat]
    BY TaskFacts, TypeFacts, AtFile DEF Rename, Promote, Goto, entry, disk, locals
  <2>7. size' \in [Tasks -> Nat]
    BY TaskFacts, TypeFacts, AtFile DEF Rename, Promote, Goto, entry, disk, locals
  <2>8. tries' \in [Tasks -> Nat]
    BY TaskFacts DEF Rename, Promote, Goto, entry, disk, locals
  <2>9. served' \in [Tasks -> Nat]
    BY TaskFacts, TypeFacts, AtFile, VersionsNat DEF Rename, Promote, Goto, entry, disk, locals
  <2>10. crashes' \in Nat
    BY TaskFacts DEF Rename, Promote, Goto, entry, disk, locals
  <2> QED  BY <2>1, <2>2, <2>3, <2>4, <2>5, <2>6, <2>7, <2>8, <2>9, <2>10 DEF TaskTypes
<1> QED  BY <1>1, <1>2, <1>3 DEF ControlTypes

LEMMA CompleteType ==
  ASSUME ControlTypes, NEW t \in Tasks, Complete(t)
  PROVE  ControlTypes'
<1>1. EntryTypes'
  BY DEF ControlTypes, EntryTypes, Statuses, Complete, Exit, Goto, entry, disk, locals
<1>2. DiskTypes'
  <2>1. remote' \in [Files -> Versions]
    BY TypeFacts DEF Complete, Exit, Goto, entry, disk, locals
  <2>2. part' \in [Files -> Seq(Nat \X Nat)]
    BY TypeFacts, AtFile DEF Complete, Exit, Goto, entry, disk, locals
  <2>3. dest' \in [Files -> Seq(Nat \X Nat)]
    BY TypeFacts, AtFile DEF Complete, Exit, Goto, entry, disk, locals
  <2> QED  BY <2>1, <2>2, <2>3 DEF DiskTypes
<1>3. TaskTypes'
  <2>1. pc' \in [Tasks -> Places]
    BY TaskFacts DEF Places, Complete, Exit, Goto, entry, disk, locals
  <2>2. file' \in [Tasks -> 0 .. NFiles + 1]
    BY TaskFacts, AtFile, FilesAssumption DEF Places, Complete, Exit, Goto, entry, disk, locals
  <2>3. (\A u \in Tasks : pc[u] \in {"next", "open", "request", "backoff", "stream", "rename"} => file[u] > 0)'
    BY TaskFacts, AtFile DEF ControlTypes, TaskTypes, Complete, Exit, Goto, entry, disk, locals
  <2>4. (\A u \in Tasks : pc[u] \in {"open", "request", "backoff", "stream", "rename"} => file[u] <= NFiles)'
    BY TaskFacts DEF ControlTypes, TaskTypes, Complete, Exit, Goto, entry, disk, locals
  <2>5. (\A u \in Tasks : pc[u] = "stream" => served[u] \in Versions)'
    BY TaskFacts, TypeFacts, AtFile DEF ControlTypes, TaskTypes, Complete, Exit, Goto, entry, disk, locals
  <2>6. bytes' \in [Tasks -> Nat]
    BY TaskFacts, TypeFacts, AtFile DEF Complete, Exit, Goto, entry, disk, locals
  <2>7. size' \in [Tasks -> Nat]
    BY TaskFacts, TypeFacts, AtFile DEF Complete, Exit, Goto, entry, disk, locals
  <2>8. tries' \in [Tasks -> Nat]
    BY TaskFacts DEF Complete, Exit, Goto, entry, disk, locals
  <2>9. served' \in [Tasks -> Nat]
    BY TaskFacts, TypeFacts, AtFile, VersionsNat DEF Complete, Exit, Goto, entry, disk, locals
  <2>10. crashes' \in Nat
    BY TaskFacts DEF Complete, Exit, Goto, entry, disk, locals
  <2> QED  BY <2>1, <2>2, <2>3, <2>4, <2>5, <2>6, <2>7, <2>8, <2>9, <2>10 DEF TaskTypes
<1> QED  BY <1>1, <1>2, <1>3 DEF ControlTypes

LEMMA RemovePartialsType ==
  ASSUME ControlTypes, NEW t \in Tasks, RemovePartials(t)
  PROVE  ControlTypes'
<1>1. EntryTypes'
  BY DEF ControlTypes, EntryTypes, Statuses, RemovePartials, Goto, entry, disk, locals
<1>2. DiskTypes'
  <2>1. remote' \in [Files -> Versions]
    BY TypeFacts DEF RemovePartials, Goto, entry, disk, locals
  <2>2. part' \in [Files -> Seq(Nat \X Nat)]
    BY TypeFacts, AtFile DEF RemovePartials, Goto, entry, disk, locals
  <2>3. dest' \in [Files -> Seq(Nat \X Nat)]
    BY TypeFacts, AtFile DEF RemovePartials, Goto, entry, disk, locals
  <2> QED  BY <2>1, <2>2, <2>3 DEF DiskTypes
<1>3. TaskTypes'
  <2>1. pc' \in [Tasks -> Places]
    BY TaskFacts DEF Places, RemovePartials, Goto, entry, disk, locals
  <2>2. file' \in [Tasks -> 0 .. NFiles + 1]
    BY TaskFacts, AtFile, FilesAssumption DEF Places, RemovePartials, Goto, entry, disk, locals
  <2>3. (\A u \in Tasks : pc[u] \in {"next", "open", "request", "backoff", "stream", "rename"} => file[u] > 0)'
    BY TaskFacts, AtFile DEF ControlTypes, TaskTypes, RemovePartials, Goto, entry, disk, locals
  <2>4. (\A u \in Tasks : pc[u] \in {"open", "request", "backoff", "stream", "rename"} => file[u] <= NFiles)'
    BY TaskFacts DEF ControlTypes, TaskTypes, RemovePartials, Goto, entry, disk, locals
  <2>5. (\A u \in Tasks : pc[u] = "stream" => served[u] \in Versions)'
    BY TaskFacts, TypeFacts, AtFile DEF ControlTypes, TaskTypes, RemovePartials, Goto, entry, disk, locals
  <2>6. bytes' \in [Tasks -> Nat]
    BY TaskFacts, TypeFacts, AtFile DEF RemovePartials, Goto, entry, disk, locals
  <2>7. size' \in [Tasks -> Nat]
    BY TaskFacts, TypeFacts, AtFile DEF RemovePartials, Goto, entry, disk, locals
  <2>8. tries' \in [Tasks -> Nat]
    BY TaskFacts DEF RemovePartials, Goto, entry, disk, locals
  <2>9. served' \in [Tasks -> Nat]
    BY TaskFacts, TypeFacts, AtFile, VersionsNat DEF RemovePartials, Goto, entry, disk, locals
  <2>10. crashes' \in Nat
    BY TaskFacts DEF RemovePartials, Goto, entry, disk, locals
  <2> QED  BY <2>1, <2>2, <2>3, <2>4, <2>5, <2>6, <2>7, <2>8, <2>9, <2>10 DEF TaskTypes
<1> QED  BY <1>1, <1>2, <1>3 DEF ControlTypes

LEMMA FailType ==
  ASSUME ControlTypes, NEW t \in Tasks, Fail(t)
  PROVE  ControlTypes'
<1>1. EntryTypes'
  BY DEF ControlTypes, EntryTypes, Statuses, Fail, Exit, IsCancelled, Goto, entry, disk, locals
<1>2. DiskTypes'
  <2>1. remote' \in [Files -> Versions]
    BY TypeFacts DEF Fail, Exit, IsCancelled, Goto, entry, disk, locals
  <2>2. part' \in [Files -> Seq(Nat \X Nat)]
    BY TypeFacts, AtFile DEF Fail, Exit, IsCancelled, Goto, entry, disk, locals
  <2>3. dest' \in [Files -> Seq(Nat \X Nat)]
    BY TypeFacts, AtFile DEF Fail, Exit, IsCancelled, Goto, entry, disk, locals
  <2> QED  BY <2>1, <2>2, <2>3 DEF DiskTypes
<1>3. TaskTypes'
  <2>1. pc' \in [Tasks -> Places]
    BY TaskFacts DEF Places, Fail, Exit, IsCancelled, Goto, entry, disk, locals
  <2>2. file' \in [Tasks -> 0 .. NFiles + 1]
    BY TaskFacts, AtFile, FilesAssumption DEF Places, Fail, Exit, IsCancelled, Goto, entry, disk, locals
  <2>3. (\A u \in Tasks : pc[u] \in {"next", "open", "request", "backoff", "stream", "rename"} => file[u] > 0)'
    BY TaskFacts, AtFile DEF ControlTypes, TaskTypes, Fail, Exit, IsCancelled, Goto, entry, disk, locals
  <2>4. (\A u \in Tasks : pc[u] \in {"open", "request", "backoff", "stream", "rename"} => file[u] <= NFiles)'
    BY TaskFacts DEF ControlTypes, TaskTypes, Fail, Exit, IsCancelled, Goto, entry, disk, locals
  <2>5. (\A u \in Tasks : pc[u] = "stream" => served[u] \in Versions)'
    BY TaskFacts, TypeFacts, AtFile DEF ControlTypes, TaskTypes, Fail, Exit, IsCancelled, Goto, entry, disk, locals
  <2>6. bytes' \in [Tasks -> Nat]
    BY TaskFacts, TypeFacts, AtFile DEF Fail, Exit, IsCancelled, Goto, entry, disk, locals
  <2>7. size' \in [Tasks -> Nat]
    BY TaskFacts, TypeFacts, AtFile DEF Fail, Exit, IsCancelled, Goto, entry, disk, locals
  <2>8. tries' \in [Tasks -> Nat]
    BY TaskFacts DEF Fail, Exit, IsCancelled, Goto, entry, disk, locals
  <2>9. served' \in [Tasks -> Nat]
    BY TaskFacts, TypeFacts, AtFile, VersionsNat DEF Fail, Exit, IsCancelled, Goto, entry, disk, locals
  <2>10. crashes' \in Nat
    BY TaskFacts DEF Fail, Exit, IsCancelled, Goto, entry, disk, locals
  <2> QED  BY <2>1, <2>2, <2>3, <2>4, <2>5, <2>6, <2>7, <2>8, <2>9, <2>10 DEF TaskTypes
<1> QED  BY <1>1, <1>2, <1>3 DEF ControlTypes

LEMMA CancelDownloadType ==
  ASSUME ControlTypes, CancelDownload
  PROVE  ControlTypes'
<1>1. EntryTypes'
  BY DEF ControlTypes, EntryTypes, Statuses, CancelDownload, entry, disk, locals
<1>2. DiskTypes'
  <2>1. remote' \in [Files -> Versions]
    BY TypeFacts DEF CancelDownload, entry, disk, locals
  <2>2. part' \in [Files -> Seq(Nat \X Nat)]
    BY TypeFacts, AtFile DEF CancelDownload, entry, disk, locals
  <2>3. dest' \in [Files -> Seq(Nat \X Nat)]
    BY TypeFacts, AtFile DEF CancelDownload, entry, disk, locals
  <2> QED  BY <2>1, <2>2, <2>3 DEF DiskTypes
<1>3. TaskTypes'
  <2>1. pc' \in [Tasks -> Places]
    BY TaskFacts DEF Places, CancelDownload, entry, disk, locals
  <2>2. file' \in [Tasks -> 0 .. NFiles + 1]
    BY TaskFacts, AtFile, FilesAssumption DEF Places, CancelDownload, entry, disk, locals
  <2>3. (\A u \in Tasks : pc[u] \in {"next", "open", "request", "backoff", "stream", "rename"} => file[u] > 0)'
    BY TaskFacts, AtFile DEF ControlTypes, TaskTypes, CancelDownload, entry, disk, locals
  <2>4. (\A u \in Tasks : pc[u] \in {"open", "request", "backoff", "stream", "rename"} => file[u] <= NFiles)'
    BY TaskFacts DEF ControlTypes, TaskTypes, CancelDownload, entry, disk, locals
  <2>5. (\A u \in Tasks : pc[u] = "stream" => served[u] \in Versions)'
    BY TaskFacts, TypeFacts, AtFile DEF ControlTypes, TaskTypes, CancelDownload, entry, disk, locals
  <2>6. bytes' \in [Tasks -> Nat]
    BY TaskFacts, TypeFacts, AtFile DEF CancelDownload, entry, disk, locals
  <2>7. size' \in [Tasks -> Nat]
    BY TaskFacts, TypeFacts, AtFile DEF CancelDownload, entry, disk, locals
  <2>8. tries' \in [Tasks -> Nat]
    BY TaskFacts DEF CancelDownload, entry, disk, locals
  <2>9. served' \in [Tasks -> Nat]
    BY TaskFacts, TypeFacts, AtFile, VersionsNat DEF CancelDownload, entry, disk, locals
  <2>10. crashes' \in Nat
    BY TaskFacts DEF CancelDownload, entry, disk, locals
  <2> QED  BY <2>1, <2>2, <2>3, <2>4, <2>5, <2>6, <2>7, <2>8, <2>9, <2>10 DEF TaskTypes
<1> QED  BY <1>1, <1>2, <1>3 DEF ControlTypes

LEMMA ClearCompletedType ==
  ASSUME ControlTypes, ClearCompleted
  PROVE  ControlTypes'
<1>1. EntryTypes'
  BY DEF ControlTypes, EntryTypes, Statuses, ClearCompleted, Gone, entry, disk, locals
<1>2. DiskTypes'
  <2>1. remote' \in [Files -> Versions]
    BY TypeFacts DEF ClearCompleted, Gone, entry, disk, locals
  <2>2. part' \in [Files -> Seq(Nat \X Nat)]
    BY TypeFacts, AtFile DEF ClearCompleted, Gone, entry, disk, locals
  <2>3. dest' \in [Files -> Seq(Nat \X Nat)]
    BY TypeFacts, AtFile DEF ClearCompleted, Gone, entry, disk, locals
  <2> QED  BY <2>1, <2>2, <2>3 DEF DiskTypes
<1>3. TaskTypes'
  <2>1. pc' \in [Tasks -> Places]
    BY TaskFacts DEF Places, ClearCompleted, Gone, entry, disk, locals
  <2>2. file' \in [Tasks -> 0 .. NFiles + 1]
    BY TaskFacts, AtFile, FilesAssumption DEF Places, ClearCompleted, Gone, entry, disk, locals
  <2>3. (\A u \in Tasks : pc[u] \in {"next", "open", "request", "backoff", "stream", "rename"} => file[u] > 0)'
    BY TaskFacts, AtFile DEF ControlTypes, TaskTypes, ClearCompleted, Gone, entry, disk, locals
  <2>4. (\A u \in Tasks : pc[u] \in {"open", "request", "backoff", "stream", "rename"} => file[u] <= NFiles)'
    BY TaskFacts DEF ControlTypes, TaskTypes, ClearCompleted, Gone, entry, disk, locals
  <2>5. (\A u \in Tasks : pc[u] = "stream" => served[u] \in Versions)'
    BY TaskFacts, TypeFacts, AtFile DEF ControlTypes, TaskTypes, ClearCompleted, Gone, entry, disk, locals
  <2>6. bytes' \in [Tasks -> Nat]
    BY TaskFacts, TypeFacts, AtFile DEF ClearCompleted, Gone, entry, disk, locals
  <2>7. size' \in [Tasks -> Nat]
    BY TaskFacts, TypeFacts, AtFile DEF ClearCompleted, Gone, entry, disk, locals
  <2>8. tries' \in [Tasks -> Nat]
    BY TaskFacts DEF ClearCompleted, Gone, entry, disk, locals
  <2>9. served' \in [Tasks -> Nat]
    BY TaskFacts, TypeFacts, AtFile, VersionsNat DEF ClearCompleted, Gone, entry, disk, locals
  <2>10. crashes' \in Nat
    BY TaskFacts DEF ClearCompleted, Gone, entry, disk, locals
  <2> QED  BY <2>1, <2>2, <2>3, <2>4, <2>5, <2>6, <2>7, <2>8, <2>9, <2>10 DEF TaskTypes
<1> QED  BY <1>1, <1>2, <1>3 DEF ControlTypes

LEMMA CrashType ==
  ASSUME ControlTypes, Crash
  PROVE  ControlTypes'
<1>1. EntryTypes'
  BY DEF ControlTypes, EntryTypes, Statuses, Crash, Gone, entry, disk, locals
<1>2. DiskTypes'
  <2>1. remote' \in [Files -> Versions]
    BY TypeFacts DEF Crash, Gone, entry, disk, locals
  <2>2. part' \in [Files -> Seq(Nat \X Nat)]
    BY TypeFacts, AtFile DEF Crash, Gone, entry, disk, locals
  <2>3. dest' \in [Files -> Seq(Nat \X Nat)]
    BY TypeFacts, AtFile DEF Crash, Gone, entry, disk, locals
  <2> QED  BY <2>1, <2>2, <2>3 DEF DiskTypes
<1>3. TaskTypes'
  <2>1. pc' \in [Tasks -> Places]
    BY TaskFacts DEF Places, Crash, Gone, entry, disk, locals
  <2>2. file' \in [Tasks -> 0 .. NFiles + 1]
    BY TaskFacts, AtFile, FilesAssumption DEF Places, Crash, Gone, entry, disk, locals
  <2>3. (\A u \in Tasks : pc[u] \in {"next", "open", "request", "backoff", "stream", "rename"} => file[u] > 0)'
    BY TaskFacts, AtFile DEF ControlTypes, TaskTypes, Crash, Gone, entry, disk, locals
  <2>4. (\A u \in Tasks : pc[u] \in {"open", "request", "backoff", "stream", "rename"} => file[u] <= NFiles)'
    BY TaskFacts DEF ControlTypes, TaskTypes, Crash, Gone, entry, disk, locals
  <2>5. (\A u \in Tasks : pc[u] = "stream" => served[u] \in Versions)'
    BY TaskFacts, TypeFacts, AtFile DEF ControlTypes, TaskTypes, Crash, Gone, entry, disk, locals
  <2>6. bytes' \in [Tasks -> Nat]
    BY TaskFacts, TypeFacts, AtFile DEF Crash, Gone, entry, disk, locals
  <2>7. size' \in [Tasks -> Nat]
    BY TaskFacts, TypeFacts, AtFile DEF Crash, Gone, entry, disk, locals
  <2>8. tries' \in [Tasks -> Nat]
    BY TaskFacts DEF Crash, Gone, entry, disk, locals
  <2>9. served' \in [Tasks -> Nat]
    BY TaskFacts, TypeFacts, AtFile, VersionsNat DEF Crash, Gone, entry, disk, locals
  <2>10. crashes' \in Nat
    BY TaskFacts DEF Crash, Gone, entry, disk, locals
  <2> QED  BY <2>1, <2>2, <2>3, <2>4, <2>5, <2>6, <2>7, <2>8, <2>9, <2>10 DEF TaskTypes
<1> QED  BY <1>1, <1>2, <1>3 DEF ControlTypes

LEMMA RemoteChangesType ==
  ASSUME ControlTypes, NEW f \in Files, RemoteChanges(f)
  PROVE  ControlTypes'
<1>1. EntryTypes'
  BY DEF ControlTypes, EntryTypes, Statuses, RemoteChanges, entry, disk, locals
<1>2. DiskTypes'
  <2>1. remote' \in [Files -> Versions]
    <3>1. remote[f] \in Nat /\ remote[f] + 1 \in Versions
      BY TypeFacts, FilesAssumption DEF RemoteChanges, Versions
    <3>2. remote' = [remote EXCEPT ![f] = remote[f] + 1]
      BY DEF RemoteChanges
    <3> QED  BY <3>1, <3>2, TypeFacts
  <2>2. part' \in [Files -> Seq(Nat \X Nat)]
    BY TypeFacts, AtFile DEF RemoteChanges, entry, disk, locals
  <2>3. dest' \in [Files -> Seq(Nat \X Nat)]
    BY TypeFacts, AtFile DEF RemoteChanges, entry, disk, locals
  <2> QED  BY <2>1, <2>2, <2>3 DEF DiskTypes
<1>3. TaskTypes'
  <2>1. pc' \in [Tasks -> Places]
    BY TaskFacts DEF Places, RemoteChanges, entry, disk, locals
  <2>2. file' \in [Tasks -> 0 .. NFiles + 1]
    BY TaskFacts, AtFile, FilesAssumption DEF Places, RemoteChanges, entry, disk, locals
  <2>3. (\A u \in Tasks : pc[u] \in {"next", "open", "request", "backoff", "stream", "rename"} => file[u] > 0)'
    BY TaskFacts, AtFile DEF ControlTypes, TaskTypes, RemoteChanges, entry, disk, locals
  <2>4. (\A u \in Tasks : pc[u] \in {"open", "request", "backoff", "stream", "rename"} => file[u] <= NFiles)'
    BY TaskFacts DEF ControlTypes, TaskTypes, RemoteChanges, entry, disk, locals
  <2>5. (\A u \in Tasks : pc[u] = "stream" => served[u] \in Versions)'
    BY TaskFacts, TypeFacts, AtFile DEF ControlTypes, TaskTypes, RemoteChanges, entry, disk, locals
  <2>6. bytes' \in [Tasks -> Nat]
    BY TaskFacts, TypeFacts, AtFile DEF RemoteChanges, entry, disk, locals
  <2>7. size' \in [Tasks -> Nat]
    BY TaskFacts, TypeFacts, AtFile DEF RemoteChanges, entry, disk, locals
  <2>8. tries' \in [Tasks -> Nat]
    BY TaskFacts DEF RemoteChanges, entry, disk, locals
  <2>9. served' \in [Tasks -> Nat]
    BY TaskFacts, TypeFacts, AtFile, VersionsNat DEF RemoteChanges, entry, disk, locals
  <2>10. crashes' \in Nat
    BY TaskFacts DEF RemoteChanges, entry, disk, locals
  <2> QED  BY <2>1, <2>2, <2>3, <2>4, <2>5, <2>6, <2>7, <2>8, <2>9, <2>10 DEF TaskTypes
<1> QED  BY <1>1, <1>2, <1>3 DEF ControlTypes

-----------------------------------------------------------------------------
(* One task at a time.                                                     *)

LEMMA StartDownloadExcl ==
  ASSUME ControlTypes, Exclusion, NEW t \in Tasks, StartDownload(t)
  PROVE  Exclusion'
BY DEF ControlTypes, EntryTypes, TaskTypes, Statuses, Exclusion, OneTask, ExitedIsTrue, FinalIsExited, Running, StartDownload, Startable, Fresh, Goto, entry, disk, locals

LEMMA MkdirExcl ==
  ASSUME ControlTypes, Exclusion, NEW t \in Tasks, Mkdir(t)
  PROVE  Exclusion'
BY DEF ControlTypes, EntryTypes, TaskTypes, Statuses, Exclusion, OneTask, ExitedIsTrue, FinalIsExited, Running, Mkdir, Exit, Goto, entry, disk, locals

LEMMA HeadPassExcl ==
  ASSUME ControlTypes, Exclusion, NEW t \in Tasks, HeadPass(t)
  PROVE  Exclusion'
BY DEF ControlTypes, EntryTypes, TaskTypes, Statuses, Exclusion, OneTask, ExitedIsTrue, FinalIsExited, Running, HeadPass, Goto, entry, disk, locals

LEMMA NextFileExcl ==
  ASSUME ControlTypes, Exclusion, NEW t \in Tasks, NextFile(t)
  PROVE  Exclusion'
BY DEF ControlTypes, EntryTypes, TaskTypes, Statuses, Exclusion, OneTask, ExitedIsTrue, FinalIsExited, Running, NextFile, Goto, IsCancelled, entry, disk, locals

LEMMA OpenFileExcl ==
  ASSUME ControlTypes, Exclusion, NEW t \in Tasks, OpenFile(t)
  PROVE  Exclusion'
BY DEF ControlTypes, EntryTypes, TaskTypes, Statuses, Exclusion, OneTask, ExitedIsTrue, FinalIsExited, Running, OpenFile, Promote, Discard, Goto, entry, disk, locals

LEMMA StopCancelledExcl ==
  ASSUME ControlTypes, Exclusion, NEW t \in Tasks, StopCancelled(t)
  PROVE  Exclusion'
BY DEF ControlTypes, EntryTypes, TaskTypes, Statuses, Exclusion, OneTask, ExitedIsTrue, FinalIsExited, Running, StopCancelled, IsCancelled, Discard, Goto, entry, disk, locals

LEMMA RequestFailsExcl ==
  ASSUME ControlTypes, Exclusion, NEW t \in Tasks, RequestFails(t)
  PROVE  Exclusion'
BY DEF ControlTypes, EntryTypes, TaskTypes, Statuses, Exclusion, OneTask, ExitedIsTrue, FinalIsExited, Running, RequestFails, IsCancelled, Retry, Goto, entry, disk, locals

LEMMA BackoffExcl ==
  ASSUME ControlTypes, Exclusion, NEW t \in Tasks, Backoff(t)
  PROVE  Exclusion'
BY DEF ControlTypes, EntryTypes, TaskTypes, Statuses, Exclusion, OneTask, ExitedIsTrue, FinalIsExited, Running, Backoff, IsCancelled, Goto, entry, disk, locals

LEMMA RangeNotSatisfiableExcl ==
  ASSUME ControlTypes, Exclusion, NEW t \in Tasks, RangeNotSatisfiable(t)
  PROVE  Exclusion'
BY DEF ControlTypes, EntryTypes, TaskTypes, Statuses, Exclusion, OneTask, ExitedIsTrue, FinalIsExited, Running, RangeNotSatisfiable, IsCancelled, Goto, Discard, Restart, entry, disk, locals

LEMMA RespondExcl ==
  ASSUME ControlTypes, Exclusion, NEW t \in Tasks, Respond(t)
  PROVE  Exclusion'
BY DEF ControlTypes, EntryTypes, TaskTypes, Statuses, Exclusion, OneTask, ExitedIsTrue, FinalIsExited, Running, Respond, IsCancelled, Restart, SetLen, Goto, entry, disk, locals

LEMMA ChunkExcl ==
  ASSUME ControlTypes, Exclusion, NEW t \in Tasks, Chunk(t)
  PROVE  Exclusion'
BY DEF ControlTypes, EntryTypes, TaskTypes, Statuses, Exclusion, OneTask, ExitedIsTrue, FinalIsExited, Running, Chunk, IsCancelled, entry, disk, locals

LEMMA StreamFailsExcl ==
  ASSUME ControlTypes, Exclusion, NEW t \in Tasks, StreamFails(t)
  PROVE  Exclusion'
BY DEF ControlTypes, EntryTypes, TaskTypes, Statuses, Exclusion, OneTask, ExitedIsTrue, FinalIsExited, Running, StreamFails, Retry, Goto, entry, disk, locals

LEMMA StreamEndsExcl ==
  ASSUME ControlTypes, Exclusion, NEW t \in Tasks, StreamEnds(t)
  PROVE  Exclusion'
BY DEF ControlTypes, EntryTypes, TaskTypes, Statuses, Exclusion, OneTask, ExitedIsTrue, FinalIsExited, Running, StreamEnds, Goto, entry, disk, locals

LEMMA RenameExcl ==
  ASSUME ControlTypes, Exclusion, NEW t \in Tasks, Rename(t)
  PROVE  Exclusion'
BY DEF ControlTypes, EntryTypes, TaskTypes, Statuses, Exclusion, OneTask, ExitedIsTrue, FinalIsExited, Running, Rename, Promote, Goto, entry, disk, locals

LEMMA CompleteExcl ==
  ASSUME ControlTypes, Exclusion, NEW t \in Tasks, Complete(t)
  PROVE  Exclusion'
BY DEF ControlTypes, EntryTypes, TaskTypes, Statuses, Exclusion, OneTask, ExitedIsTrue, FinalIsExited, Running, Complete, Exit, Goto, entry, disk, locals

LEMMA RemovePartialsExcl ==
  ASSUME ControlTypes, Exclusion, NEW t \in Tasks, RemovePartials(t)
  PROVE  Exclusion'
BY DEF ControlTypes, EntryTypes, TaskTypes, Statuses, Exclusion, OneTask, ExitedIsTrue, FinalIsExited, Running, RemovePartials, Goto, entry, disk, locals

LEMMA FailExcl ==
  ASSUME ControlTypes, Exclusion, NEW t \in Tasks, Fail(t)
  PROVE  Exclusion'
BY DEF ControlTypes, EntryTypes, TaskTypes, Statuses, Exclusion, OneTask, ExitedIsTrue, FinalIsExited, Running, Fail, Exit, IsCancelled, Goto, entry, disk, locals

LEMMA CancelDownloadExcl ==
  ASSUME ControlTypes, Exclusion, CancelDownload
  PROVE  Exclusion'
BY DEF ControlTypes, EntryTypes, TaskTypes, Statuses, Exclusion, OneTask, ExitedIsTrue, FinalIsExited, Running, CancelDownload, entry, disk, locals

LEMMA ClearCompletedExcl ==
  ASSUME ControlTypes, Exclusion, ClearCompleted
  PROVE  Exclusion'
BY DEF ControlTypes, EntryTypes, TaskTypes, Statuses, Exclusion, OneTask, ExitedIsTrue, FinalIsExited, Running, ClearCompleted, Gone, entry, disk, locals

LEMMA CrashExcl ==
  ASSUME ControlTypes, Exclusion, Crash
  PROVE  Exclusion'
BY DEF ControlTypes, EntryTypes, TaskTypes, Statuses, Exclusion, OneTask, ExitedIsTrue, FinalIsExited, Running, Crash, Gone, entry, disk, locals

LEMMA RemoteChangesExcl ==
  ASSUME ControlTypes, Exclusion, NEW f \in Files, RemoteChanges(f)
  PROVE  Exclusion'
BY DEF ControlTypes, EntryTypes, TaskTypes, Statuses, Exclusion, OneTask, ExitedIsTrue, FinalIsExited, Running, RemoteChanges, entry, disk, locals


LEMMA InitExclusion == Init => ControlTypes /\ Exclusion
<1> SUFFICES ASSUME Init PROVE ControlTypes /\ Exclusion  OBVIOUS
<1>1. EntryTypes
  BY DEF Init, EntryTypes, Statuses
<1>2. DiskTypes
  BY EmptyFile, FilesAssumption DEF Init, DiskTypes, Versions
<1>3. TaskTypes
  BY FilesAssumption DEF Init, TaskTypes, Places
<1>4. Exclusion
  BY DEF Init, Exclusion, OneTask, ExitedIsTrue, FinalIsExited, Running
<1> QED  BY <1>1, <1>2, <1>3, <1>4 DEF ControlTypes

LEMMA NextTypes ==
  ASSUME ControlTypes, [Next]_vars
  PROVE  ControlTypes'
<1>1. CASE UNCHANGED vars
  BY <1>1 DEF ControlTypes, EntryTypes, DiskTypes, TaskTypes, vars, entry, disk, locals
<1>2. ASSUME NEW t \in Tasks, StartDownload(t) \/ TaskStep(t) PROVE ControlTypes'
  BY <1>2, StartDownloadType, MkdirType, HeadPassType, NextFileType, OpenFileType, StopCancelledType,
     RequestFailsType, BackoffType, RangeNotSatisfiableType, RespondType, ChunkType, StreamFailsType,
     StreamEndsType, RenameType, CompleteType, RemovePartialsType, FailType DEF TaskStep
<1>3. CASE CancelDownload \/ ClearCompleted \/ Crash
  BY <1>3, CancelDownloadType, ClearCompletedType, CrashType
<1>4. ASSUME NEW f \in Files, RemoteChanges(f) PROVE ControlTypes'
  BY <1>4, RemoteChangesType
<1> QED  BY <1>1, <1>2, <1>3, <1>4 DEF Next

LEMMA NextExclusion ==
  ASSUME ControlTypes, Exclusion, [Next]_vars
  PROVE  Exclusion'
<1>1. CASE UNCHANGED vars
  BY <1>1 DEF Exclusion, OneTask, ExitedIsTrue, FinalIsExited, Running, vars, entry, disk, locals
<1>2. ASSUME NEW t \in Tasks, StartDownload(t) \/ TaskStep(t) PROVE Exclusion'
  BY <1>2, StartDownloadExcl, MkdirExcl, HeadPassExcl, NextFileExcl, OpenFileExcl, StopCancelledExcl,
     RequestFailsExcl, BackoffExcl, RangeNotSatisfiableExcl, RespondExcl, ChunkExcl, StreamFailsExcl,
     StreamEndsExcl, RenameExcl, CompleteExcl, RemovePartialsExcl, FailExcl DEF TaskStep
<1>3. CASE CancelDownload \/ ClearCompleted \/ Crash
  BY <1>3, CancelDownloadExcl, ClearCompletedExcl, CrashExcl
<1>4. ASSUME NEW f \in Files, RemoteChanges(f) PROVE Exclusion'
  BY <1>4, RemoteChangesExcl
<1> QED  BY <1>1, <1>2, <1>3, <1>4 DEF Next

LEMMA ExclusionAlways == Spec => [](ControlTypes /\ Exclusion)
<1>1. ControlTypes /\ Exclusion /\ [Next]_vars => (ControlTypes /\ Exclusion)'
  BY NextTypes, NextExclusion
<1> QED  BY <1>1, InitExclusion, PTL DEF Spec

\* The types of the entry, the files and the tasks.
THEOREM TypesHold == Spec => []ControlTypes
<1> QED  BY ExclusionAlways, PTL

-----------------------------------------------------------------------------
(* SumFunction, a fold, adds up natural numbers. A fold is a function that  *)
(* CHOOSE picks by its equation: that one exists is shown for the sets of   *)
(* at most n members, for the least n for which it might not, and then that *)
(* every value of it is a number, for a least set for which it might not be.*)

LEMMA LeastNumber ==
  ASSUME NEW T, T \subseteq Nat, T # {}
  PROVE  \E m \in T : \A k \in T : m <= k
<1>1. PICK m \in T : \A k \in T : ~(<<k, m>> \in OpToRel(<, Nat))
  BY NatLessThanWellFounded, WFMin
<1>2. \A k \in T : k < m => <<k, m>> \in OpToRel(<, Nat)
  BY DEF OpToRel
<1>3. \A k \in T : ~(k < m)
  BY <1>1, <1>2, Zenon
<1> QED  BY <1>3

\* The member that the fold takes out of a set.
Picked(s) == CHOOSE x \in s : TRUE

\* One step of the fold of v.
Adds(v, g, s) == IF s = {} THEN 0 ELSE v[Picked(s)] + g[s \ {Picked(s)}]

Within(S, n) == {s \in SUBSET S : Cardinality(s) <= n}

\* g is the fold of v, on all subsets of S; or there is one on those of at most n members.
IsSum(g, v, S) == g = [s \in SUBSET S |-> Adds(v, g, s)]

SumsWithin(v, S, n) == \E g : g = [s \in Within(S, n) |-> Adds(v, g, s)]

LEMMA SumIsFold ==
  ASSUME NEW S, NEW v, DOMAIN v = S
  PROVE  SumFunction(v) = (CHOOSE g : IsSum(g, v, S))[S]
BY Zenon DEF SumFunction, SumFunctionOnSet, FoldFunctionOnSet, MapThenFoldSet, IsSum, Adds, Picked

LEMMA PickedFacts ==
  ASSUME NEW S, IsFiniteSet(S), NEW s \in SUBSET S
  PROVE  /\ Cardinality(s) \in Nat /\ Cardinality(s) <= Cardinality(S)
         /\ s # {} => /\ Picked(s) \in s
                      /\ Cardinality(s \ {Picked(s)}) = Cardinality(s) - 1
                      /\ Cardinality(s) # 0
<1>1. IsFiniteSet(s) /\ Cardinality(s) <= Cardinality(S)
  BY FS_Subset
<1>2. s # {} => Picked(s) \in s
  BY Zenon DEF Picked
<1>3. Cardinality(s) \in Nat
  BY <1>1, FS_CardinalityType
<1>4. s # {} => Cardinality(s \ {Picked(s)}) = Cardinality(s) - 1
  BY <1>1, <1>2, FS_RemoveElement
<1>5. Cardinality(s) = 0 <=> s = {}
  BY <1>1, FS_EmptySet
<1> QED  BY <1>1, <1>2, <1>3, <1>4, <1>5

LEMMA SumExists ==
  ASSUME NEW S, IsFiniteSet(S), NEW v \in [S -> Nat]
  PROVE  \E g : IsSum(g, v, S)
<1> DEFINE T == {n \in Nat : ~SumsWithin(v, S, n)}
<1>1. SumsWithin(v, S, 0)
  <2> DEFINE g == [s \in Within(S, 0) |-> 0]
  <2>1. ASSUME NEW s \in Within(S, 0) PROVE s = {}
    <3>1. s \in SUBSET S /\ Cardinality(s) <= 0
      BY DEF Within
    <3>2. Cardinality(s) \in Nat /\ (s # {} => Cardinality(s) # 0)
      BY <3>1, PickedFacts, Zenon
    <3> QED  BY <3>1, <3>2
  <2>2. \A s \in Within(S, 0) : Adds(v, g, s) = 0
    BY <2>1 DEF Adds
  <2>3. g = [s \in Within(S, 0) |-> Adds(v, g, s)]
    BY <2>2, Zenon
  <2> QED  BY <2>3, Zenon DEF SumsWithin
<1>2. ASSUME NEW n \in Nat, SumsWithin(v, S, n)
      PROVE  SumsWithin(v, S, n + 1)
  <2>1. PICK g : g = [s \in Within(S, n) |-> Adds(v, g, s)]
    BY <1>2, Zenon DEF SumsWithin
  <2> DEFINE h == [s \in Within(S, n + 1) |-> Adds(v, g, s)]
  <2>2. ASSUME NEW s \in Within(S, n) PROVE s \in Within(S, n + 1)
    <3>1. s \in SUBSET S /\ Cardinality(s) <= n
      BY DEF Within
    <3>2. Cardinality(s) \in Nat
      BY <3>1, PickedFacts, Zenon
    <3>3. Cardinality(s) <= n + 1
      BY <3>1, <3>2
    <3> QED  BY <3>1, <3>3 DEF Within
  <2>3. \A s \in Within(S, n) : h[s] = g[s]
    BY <2>1, <2>2, Zenon
  <2>4. ASSUME NEW s \in Within(S, n + 1), s # {}
        PROVE  s \ {Picked(s)} \in Within(S, n)
    <3>1. s \ {Picked(s)} \in SUBSET S /\ s \in SUBSET S /\ Cardinality(s) <= n + 1
      BY <2>4 DEF Within
    <3>2. Cardinality(s \ {Picked(s)}) <= n
      BY <2>4, <3>1, PickedFacts
    <3> QED  BY <3>1, <3>2 DEF Within
  <2> HIDE DEF h
  <2>5. \A s \in Within(S, n + 1) : Adds(v, g, s) = Adds(v, h, s)
    BY <2>3, <2>4, Zenon DEF Adds
  <2>6. h = [s \in Within(S, n + 1) |-> Adds(v, h, s)]
    BY <2>5, Zenon DEF h
  <2> QED  BY <2>6, Zenon DEF SumsWithin
<1>3. T = {}
  <2> SUFFICES ASSUME T # {} PROVE FALSE
    OBVIOUS
  <2>1. PICK m \in T : \A k \in T : m <= k
    <3>1. T \subseteq Nat
      OBVIOUS
    <3> HIDE DEF T
    <3> QED  BY <3>1, LeastNumber
  <2>2. m \in Nat /\ ~SumsWithin(v, S, m)
    BY Zenon
  <2>3. m # 0
    BY <1>1, <2>2
  <2>4. m - 1 \in Nat /\ (m - 1) + 1 = m /\ ~(m <= m - 1)
    BY <2>2, <2>3
  <2>5. SumsWithin(v, S, m - 1)
    BY <2>1, <2>4
  <2> QED  BY <1>2, <2>2, <2>4, <2>5
<1>4. Cardinality(S) \in Nat
  BY FS_CardinalityType
<1>5. Within(S, Cardinality(S)) = SUBSET S
  BY PickedFacts DEF Within
<1>6. SumsWithin(v, S, Cardinality(S))
  BY <1>3, <1>4, Zenon
<1> QED  BY <1>5, <1>6, Zenon DEF IsSum, SumsWithin

\* A sum of natural numbers is one.
LEMMA SumType ==
  ASSUME NEW S, IsFiniteSet(S), NEW v \in [S -> Nat]
  PROVE  SumFunction(v) \in Nat
<1> DEFINE g == CHOOSE f : IsSum(f, v, S)
<1>1. IsSum(g, v, S)
  BY SumExists, Zenon
<1>2. SumFunction(v) = g[S]
  BY SumIsFold, Zenon
<1> HIDE DEF g
<1>3. \A s \in SUBSET S : g[s] = Adds(v, g, s)
  BY <1>1, Zenon DEF IsSum
<1> DEFINE T == {Cardinality(s) : s \in {u \in SUBSET S : g[u] \notin Nat}}
<1>4. T = {}
  <2> SUFFICES ASSUME T # {} PROVE FALSE
    OBVIOUS
  <2>1. T \subseteq Nat
    BY PickedFacts
  <2>2. PICK m \in T : \A k \in T : m <= k
    <3> HIDE DEF T
    <3> QED  BY <2>1, LeastNumber
  <2>3. PICK s \in SUBSET S : g[s] \notin Nat /\ m = Cardinality(s)
    BY Zenon
  <2>4. s # {}
    <3> SUFFICES ASSUME s = {} PROVE FALSE
      OBVIOUS
    <3>1. g[s] = 0
      BY <1>3, Zenon DEF Adds
    <3> QED  BY <2>3, <3>1
  <2>5. Picked(s) \in S /\ Cardinality(s \ {Picked(s)}) < m
    BY <2>1, <2>3, <2>4, PickedFacts
  <2>6. s \ {Picked(s)} \in SUBSET S
    BY <2>3, Zenon
  <2>7. Cardinality(s \ {Picked(s)}) \in Nat
    BY <2>6, PickedFacts
  <2>8. g[s \ {Picked(s)}] \in Nat
    <3>1. ~(m <= Cardinality(s \ {Picked(s)}))
      BY <2>1, <2>5, <2>7
    <3>2. Cardinality(s \ {Picked(s)}) \notin T
      BY <2>2, <3>1, Zenon
    <3> QED  BY <2>6, <3>2, Zenon
  <2>9. v[Picked(s)] \in Nat
    BY <2>5
  <2>10. g[s] = v[Picked(s)] + g[s \ {Picked(s)}]
    BY <1>3, <2>4, Zenon DEF Adds
  <2> QED  BY <2>3, <2>8, <2>9, <2>10
<1>5. g[S] \in Nat
  BY <1>4, Zenon
<1> QED  BY <1>2, <1>5

-----------------------------------------------------------------------------
(* The counters of bytes.                                                  *)

LEMMA SumsAreNumbers ==
  ASSUME ControlTypes
  PROVE  /\ SumFunction([f \in Files |-> Sizes[remote[f]]]) \in Nat
         /\ SumFunction([f \in Files |-> Len(IF dest[f] # << >> THEN dest[f] ELSE part[f])]) \in Nat
<1>1. IsFiniteSet(Files)
  BY FilesAssumption, FS_Interval DEF Files
<1>2. [f \in Files |-> Sizes[remote[f]]] \in [Files -> Nat]
  BY TypeFacts
<1>3. \A f \in Files : (IF dest[f] # << >> THEN dest[f] ELSE part[f]) \in Seq(Nat \X Nat)
  BY TypeFacts
<1>4. [f \in Files |-> Len(IF dest[f] # << >> THEN dest[f] ELSE part[f])] \in [Files -> Nat]
  BY <1>3
<1> QED  BY <1>1, <1>2, <1>4, SumType

LEMMA RestartCounts ==
  ASSUME ControlTypes, CountTypes, NEW t \in Tasks, Restart(t)
  PROVE  sum' \in [Tasks -> Nat]
<1>1. sum[t] \in Nat /\ bytes[t] \in Nat
  BY TaskFacts DEF CountTypes
<1>2. (IF sum[t] > bytes[t] THEN sum[t] - bytes[t] ELSE 0) \in Nat
  BY <1>1
<1> QED  BY <1>2 DEF CountTypes, Restart

LEMMA HeadPassCounts ==
  ASSUME ControlTypes, CountTypes, NEW t \in Tasks, HeadPass(t)
  PROVE  CountTypes'
<1>1. shown' \in Nat
  BY DEF HeadPass, CountTypes
<1>2. total' \in Nat
  BY SumsAreNumbers, Zenon DEF HeadPass, CountTypes
<1>3. sum' \in [Tasks -> Nat]
  <2>1. sum' = [sum EXCEPT ![t] =
           SumFunction([f \in Files |-> Len(IF dest[f] # << >> THEN dest[f] ELSE part[f])])]
    BY Zenon DEF HeadPass
  <2> QED  BY <2>1, SumsAreNumbers, Zenon DEF CountTypes
<1> QED  BY <1>1, <1>2, <1>3 DEF CountTypes

LEMMA OpenFileCounts ==
  ASSUME ControlTypes, CountTypes, NEW t \in Tasks, OpenFile(t)
  PROVE  CountTypes'
<1>1. shown' = shown /\ total' = total
  BY DEF OpenFile, entry
<1> DEFINE n == Len(part[file[t]])
<1>2. n \in Nat /\ sum[t] \in Nat
  <2>1. file[t] \in Files
    BY AtFile DEF OpenFile
  <2> QED  BY <2>1, TypeFacts DEF CountTypes
<1>3. sum' = sum \/ sum' = [sum EXCEPT ![t] = IF @ > n THEN @ - n ELSE 0]
  BY Zenon DEF OpenFile
<1>4. (IF sum[t] > n THEN sum[t] - n ELSE 0) \in Nat
  BY <1>2
<1> QED  BY <1>1, <1>3, <1>4 DEF CountTypes

LEMMA RespondCounts ==
  ASSUME ControlTypes, CountTypes, NEW t \in Tasks, Respond(t)
  PROVE  CountTypes'
<1>1. file[t] \in Files
  BY AtFile DEF Respond
<1>2. total' = total \/ total' = total + Sizes[remote[file[t]]]
  BY Zenon DEF Respond
<1>3. sum' = sum \/ Restart(t)
  BY DEF Respond
<1>4. shown' = shown
  BY DEF Respond
<1>5. total' \in Nat
  BY <1>1, <1>2, TypeFacts DEF CountTypes
<1> QED  BY <1>3, <1>4, <1>5, RestartCounts DEF CountTypes

LEMMA RangeNotSatisfiableCounts ==
  ASSUME ControlTypes, CountTypes, NEW t \in Tasks, RangeNotSatisfiable(t)
  PROVE  CountTypes'
<1>1. shown' = shown /\ total' = total /\ (sum' = sum \/ Restart(t))
  BY DEF RangeNotSatisfiable, entry
<1> QED  BY <1>1, RestartCounts DEF CountTypes

LEMMA ChunkCounts ==
  ASSUME ControlTypes, CountTypes, NEW t \in Tasks, Chunk(t)
  PROVE  CountTypes'
<1>1. sum' = [sum EXCEPT ![t] = @ + 1] /\ shown' = sum[t] + 1 /\ total' = total
  BY DEF Chunk
<1> QED  BY <1>1 DEF CountTypes

LEMMA ExitCounts ==
  ASSUME CountTypes, NEW t \in Tasks, Exit(t)
  PROVE  sum' \in [Tasks -> Nat]
BY DEF CountTypes, Exit

\* The other steps of a task leave the counters alone, or drop the task's.
LEMMA OtherCounts ==
  ASSUME CountTypes, NEW t \in Tasks,
         \/ Mkdir(t) \/ NextFile(t) \/ StopCancelled(t) \/ RequestFails(t) \/ Backoff(t)
         \/ StreamFails(t) \/ StreamEnds(t) \/ Rename(t) \/ Complete(t) \/ RemovePartials(t) \/ Fail(t)
  PROVE  CountTypes'
<1>1. shown' = shown /\ total' = total
  BY Zenon DEF Mkdir, NextFile, StopCancelled, RequestFails, Backoff, StreamFails, StreamEnds,
         Rename, Complete, RemovePartials, Fail, entry
<1>2. sum' = sum \/ Exit(t)
  BY Zenon DEF Mkdir, NextFile, StopCancelled, RequestFails, Backoff, StreamFails, StreamEnds,
         Rename, Complete, RemovePartials, Fail, locals
<1> QED  BY <1>1, <1>2, ExitCounts DEF CountTypes

LEMMA NextCounts ==
  ASSUME ControlTypes, CountTypes, [Next]_vars
  PROVE  CountTypes'
<1>1. CASE UNCHANGED vars
  BY <1>1 DEF CountTypes, vars, entry, locals
<1>2. ASSUME NEW t \in Tasks, StartDownload(t) PROVE CountTypes'
  BY <1>2, BoundsAssumption DEF CountTypes, StartDownload, Fresh, locals
<1>3. ASSUME NEW t \in Tasks, TaskStep(t) PROVE CountTypes'
  BY <1>3, HeadPassCounts, OpenFileCounts, RespondCounts, RangeNotSatisfiableCounts, ChunkCounts,
     OtherCounts DEF TaskStep
<1>4. CASE CancelDownload \/ ClearCompleted \/ Crash
  BY <1>4 DEF CountTypes, CancelDownload, ClearCompleted, Crash, Gone, locals
<1>5. ASSUME NEW f \in Files, RemoteChanges(f) PROVE CountTypes'
  BY <1>5 DEF CountTypes, RemoteChanges, entry, locals
<1> QED  BY <1>1, <1>2, <1>3, <1>4, <1>5 DEF Next

LEMMA RefusalsType ==
  ASSUME refusals \in 0 .. MaxRefusals, [Next]_vars
  PROVE  refusals' \in 0 .. MaxRefusals
<1>1. ASSUME NEW t \in Tasks, RangeNotSatisfiable(t) PROVE refusals' \in 0 .. MaxRefusals
  BY <1>1, BoundsAssumption DEF RangeNotSatisfiable
<1>2. ASSUME NEW t \in Tasks, StartDownload(t) \/ (TaskStep(t) /\ ~ RangeNotSatisfiable(t))
      PROVE  UNCHANGED refusals
  BY <1>2, Zenon DEF StartDownload, TaskStep, Mkdir, HeadPass, NextFile, OpenFile, StopCancelled,
     RequestFails, Backoff, Respond, Chunk, StreamFails, StreamEnds, Rename, Complete,
     RemovePartials, Fail
<1>3. CASE CancelDownload \/ ClearCompleted \/ Crash \/ (\E f \in Files : RemoteChanges(f))
           \/ UNCHANGED vars
  BY <1>3 DEF CancelDownload, ClearCompleted, Crash, RemoteChanges, vars
<1> QED  BY <1>1, <1>2, <1>3 DEF Next

\* Every variable keeps its type: a task at a file is at one of the model's, and
\* the byte counts of the progress entry never go below zero, though a restart,
\* a discard and a shorter response all subtract from them (saturating_sub).
THEOREM TypesOfAll == Spec => []TypeOK
<1>1. Init => CountTypes
  BY DEF Init, CountTypes
<1>2. ControlTypes /\ CountTypes /\ [Next]_vars => CountTypes'
  BY NextCounts
<1>3. Init => refusals \in 0 .. MaxRefusals
  BY BoundsAssumption DEF Init
<1>4. refusals \in 0 .. MaxRefusals /\ [Next]_vars => (refusals \in 0 .. MaxRefusals)'
  BY RefusalsType
<1>5. ControlTypes /\ CountTypes /\ refusals \in 0 .. MaxRefusals => TypeOK
  BY DEF TypeOK
<1> QED  BY <1>1, <1>2, <1>3, <1>4, <1>5, ExclusionAlways, PTL DEF Spec

-----------------------------------------------------------------------------
\* However start, cancel, clear, failures and crashes interleave, two tasks
\* never write the files of one model.
THEOREM OneTaskAtATime == Spec => []OneTask
<1>1. Exclusion => OneTask  BY DEF Exclusion
<1> QED  BY <1>1, ExclusionAlways, PTL

\* task_exited tells the truth: no task is at work under an entry that says so.
THEOREM ExitedTellsTruth == Spec => []ExitedIsTrue
<1>1. Exclusion => ExitedIsTrue  BY DEF Exclusion
<1> QED  BY <1>1, ExclusionAlways, PTL

-----------------------------------------------------------------------------
(* Entries that block.                                                     *)

LEMMA StartDownloadBacked ==
  ASSUME "mkdir" \notin Faults, ControlTypes, Exclusion, BlockedIsBacked,
         NEW t \in Tasks, StartDownload(t)
  PROVE  BlockedIsBacked'
<1>1. Running(t)'
  BY DEF ControlTypes, TaskTypes, Running, StartDownload, Startable, Fresh, Goto, entry, disk, locals
<1> QED  BY <1>1 DEF BlockedIsBacked

LEMMA MkdirBacked ==
  ASSUME "mkdir" \notin Faults, ControlTypes, Exclusion, BlockedIsBacked,
         NEW t \in Tasks, Mkdir(t)
  PROVE  BlockedIsBacked'
<1>1. Running(t)'
  BY DEF ControlTypes, TaskTypes, Running, Mkdir, Exit, Goto, entry, disk, locals
<1> QED  BY <1>1 DEF BlockedIsBacked

LEMMA HeadPassBacked ==
  ASSUME "mkdir" \notin Faults, ControlTypes, Exclusion, BlockedIsBacked,
         NEW t \in Tasks, HeadPass(t)
  PROVE  BlockedIsBacked'
<1>1. Running(t)'
  BY DEF ControlTypes, TaskTypes, Running, HeadPass, Goto, entry, disk, locals
<1> QED  BY <1>1 DEF BlockedIsBacked

LEMMA NextFileBacked ==
  ASSUME "mkdir" \notin Faults, ControlTypes, Exclusion, BlockedIsBacked,
         NEW t \in Tasks, NextFile(t)
  PROVE  BlockedIsBacked'
<1>1. Running(t)'
  BY DEF ControlTypes, TaskTypes, Running, NextFile, Goto, IsCancelled, entry, disk, locals
<1> QED  BY <1>1 DEF BlockedIsBacked

LEMMA OpenFileBacked ==
  ASSUME "mkdir" \notin Faults, ControlTypes, Exclusion, BlockedIsBacked,
         NEW t \in Tasks, OpenFile(t)
  PROVE  BlockedIsBacked'
<1>1. Running(t)'
  BY DEF ControlTypes, TaskTypes, Running, OpenFile, Promote, Discard, Goto, entry, disk, locals
<1> QED  BY <1>1 DEF BlockedIsBacked

LEMMA StopCancelledBacked ==
  ASSUME "mkdir" \notin Faults, ControlTypes, Exclusion, BlockedIsBacked,
         NEW t \in Tasks, StopCancelled(t)
  PROVE  BlockedIsBacked'
<1>1. Running(t)'
  BY DEF ControlTypes, TaskTypes, Running, StopCancelled, IsCancelled, Discard, Goto, entry, disk, locals
<1> QED  BY <1>1 DEF BlockedIsBacked

LEMMA RequestFailsBacked ==
  ASSUME "mkdir" \notin Faults, ControlTypes, Exclusion, BlockedIsBacked,
         NEW t \in Tasks, RequestFails(t)
  PROVE  BlockedIsBacked'
<1>1. Running(t)'
  BY DEF ControlTypes, TaskTypes, Running, RequestFails, IsCancelled, Retry, Goto, entry, disk, locals
<1> QED  BY <1>1 DEF BlockedIsBacked

LEMMA BackoffBacked ==
  ASSUME "mkdir" \notin Faults, ControlTypes, Exclusion, BlockedIsBacked,
         NEW t \in Tasks, Backoff(t)
  PROVE  BlockedIsBacked'
<1>1. Running(t)'
  BY DEF ControlTypes, TaskTypes, Running, Backoff, IsCancelled, Goto, entry, disk, locals
<1> QED  BY <1>1 DEF BlockedIsBacked

LEMMA RangeNotSatisfiableBacked ==
  ASSUME "mkdir" \notin Faults, ControlTypes, Exclusion, BlockedIsBacked,
         NEW t \in Tasks, RangeNotSatisfiable(t)
  PROVE  BlockedIsBacked'
<1>1. Running(t)'
  BY DEF ControlTypes, TaskTypes, Running, RangeNotSatisfiable, IsCancelled, Goto, Discard, Restart, entry, disk, locals
<1> QED  BY <1>1 DEF BlockedIsBacked

LEMMA RespondBacked ==
  ASSUME "mkdir" \notin Faults, ControlTypes, Exclusion, BlockedIsBacked,
         NEW t \in Tasks, Respond(t)
  PROVE  BlockedIsBacked'
<1>1. Running(t)'
  BY DEF ControlTypes, TaskTypes, Running, Respond, IsCancelled, Restart, SetLen, Goto, entry, disk, locals
<1> QED  BY <1>1 DEF BlockedIsBacked

LEMMA ChunkBacked ==
  ASSUME "mkdir" \notin Faults, ControlTypes, Exclusion, BlockedIsBacked,
         NEW t \in Tasks, Chunk(t)
  PROVE  BlockedIsBacked'
<1>1. Running(t)'
  BY DEF ControlTypes, TaskTypes, Running, Chunk, IsCancelled, entry, disk, locals
<1> QED  BY <1>1 DEF BlockedIsBacked

LEMMA StreamFailsBacked ==
  ASSUME "mkdir" \notin Faults, ControlTypes, Exclusion, BlockedIsBacked,
         NEW t \in Tasks, StreamFails(t)
  PROVE  BlockedIsBacked'
<1>1. Running(t)'
  BY DEF ControlTypes, TaskTypes, Running, StreamFails, Retry, Goto, entry, disk, locals
<1> QED  BY <1>1 DEF BlockedIsBacked

LEMMA StreamEndsBacked ==
  ASSUME "mkdir" \notin Faults, ControlTypes, Exclusion, BlockedIsBacked,
         NEW t \in Tasks, StreamEnds(t)
  PROVE  BlockedIsBacked'
<1>1. Running(t)'
  BY DEF ControlTypes, TaskTypes, Running, StreamEnds, Goto, entry, disk, locals
<1> QED  BY <1>1 DEF BlockedIsBacked

LEMMA RenameBacked ==
  ASSUME "mkdir" \notin Faults, ControlTypes, Exclusion, BlockedIsBacked,
         NEW t \in Tasks, Rename(t)
  PROVE  BlockedIsBacked'
<1>1. Running(t)'
  BY DEF ControlTypes, TaskTypes, Running, Rename, Promote, Goto, entry, disk, locals
<1> QED  BY <1>1 DEF BlockedIsBacked

LEMMA CompleteBacked ==
  ASSUME "mkdir" \notin Faults, ControlTypes, Exclusion, BlockedIsBacked,
         NEW t \in Tasks, Complete(t)
  PROVE  BlockedIsBacked'
<1>1. Startable'
  BY DEF ControlTypes, EntryTypes, Startable, Complete, Exit, Goto, entry, disk, locals
<1> QED  BY <1>1 DEF BlockedIsBacked

LEMMA RemovePartialsBacked ==
  ASSUME "mkdir" \notin Faults, ControlTypes, Exclusion, BlockedIsBacked,
         NEW t \in Tasks, RemovePartials(t)
  PROVE  BlockedIsBacked'
<1>1. Running(t)'
  BY DEF ControlTypes, TaskTypes, Running, RemovePartials, Goto, entry, disk, locals
<1> QED  BY <1>1 DEF BlockedIsBacked

LEMMA FailBacked ==
  ASSUME "mkdir" \notin Faults, ControlTypes, Exclusion, BlockedIsBacked,
         NEW t \in Tasks, Fail(t)
  PROVE  BlockedIsBacked'
<1>1. Startable'
  BY DEF ControlTypes, EntryTypes, Startable, Fail, Exit, IsCancelled, Goto, entry, disk, locals
<1> QED  BY <1>1 DEF BlockedIsBacked

LEMMA CancelDownloadBacked ==
  ASSUME "mkdir" \notin Faults, ControlTypes, Exclusion, BlockedIsBacked,
         CancelDownload
  PROVE  BlockedIsBacked'
BY DEF ControlTypes, EntryTypes, TaskTypes, Statuses, Exclusion, ExitedIsTrue, FinalIsExited, BlockedIsBacked, Startable, Running, CancelDownload, entry, disk, locals

LEMMA ClearCompletedBacked ==
  ASSUME "mkdir" \notin Faults, ControlTypes, Exclusion, BlockedIsBacked,
         ClearCompleted
  PROVE  BlockedIsBacked'
BY DEF ControlTypes, EntryTypes, TaskTypes, Statuses, Exclusion, ExitedIsTrue, FinalIsExited, BlockedIsBacked, Startable, Running, ClearCompleted, Gone, entry, disk, locals

LEMMA CrashBacked ==
  ASSUME "mkdir" \notin Faults, ControlTypes, Exclusion, BlockedIsBacked,
         Crash
  PROVE  BlockedIsBacked'
BY DEF ControlTypes, EntryTypes, TaskTypes, Statuses, Exclusion, ExitedIsTrue, FinalIsExited, BlockedIsBacked, Startable, Running, Crash, Gone, entry, disk, locals

LEMMA RemoteChangesBacked ==
  ASSUME "mkdir" \notin Faults, ControlTypes, Exclusion, BlockedIsBacked,
         NEW f \in Files, RemoteChanges(f)
  PROVE  BlockedIsBacked'
BY DEF ControlTypes, EntryTypes, TaskTypes, Statuses, Exclusion, ExitedIsTrue, FinalIsExited, BlockedIsBacked, Startable, Running, RemoteChanges, entry, disk, locals

LEMMA NextBacked ==
  ASSUME "mkdir" \notin Faults, ControlTypes, Exclusion, BlockedIsBacked, [Next]_vars
  PROVE  BlockedIsBacked'
<1>1. CASE UNCHANGED vars
  BY <1>1 DEF BlockedIsBacked, Startable, Running, vars, entry, disk, locals
<1>2. ASSUME NEW t \in Tasks, StartDownload(t) \/ TaskStep(t) PROVE BlockedIsBacked'
  BY <1>2, StartDownloadBacked, MkdirBacked, HeadPassBacked, NextFileBacked, OpenFileBacked, StopCancelledBacked,
     RequestFailsBacked, BackoffBacked, RangeNotSatisfiableBacked, RespondBacked, ChunkBacked, StreamFailsBacked,
     StreamEndsBacked, RenameBacked, CompleteBacked, RemovePartialsBacked, FailBacked DEF TaskStep
<1>3. CASE CancelDownload \/ ClearCompleted \/ Crash
  BY <1>3, CancelDownloadBacked, ClearCompletedBacked, CrashBacked
<1>4. ASSUME NEW f \in Files, RemoteChanges(f) PROVE BlockedIsBacked'
  BY <1>4, RemoteChangesBacked
<1> QED  BY <1>1, <1>2, <1>3, <1>4 DEF Next

\* While directories can be made, an entry that refuses a new download has a
\* task that will end it.
THEOREM BlockedHasTask ==
  ASSUME "mkdir" \notin Faults
  PROVE  Spec => []BlockedIsBacked
<1>1. Init => BlockedIsBacked
  BY DEF Init, BlockedIsBacked, Startable
<1>2. ControlTypes /\ Exclusion /\ BlockedIsBacked /\ [Next]_vars => BlockedIsBacked'
  BY NextBacked
<1> QED  BY <1>1, <1>2, ExclusionAlways, PTL DEF Spec

-----------------------------------------------------------------------------
(* What is promoted is the remote file.                                    *)

Steady == \A f \in Files : remote[f] = 1

\* Whatever is in a partial file is the beginning of the remote file.
InOrder == \A f \in Files : \A k \in 1 .. Len(part[f]) : part[f][k] = <<1, k>>

\* What a task knows of the partial file it is at.
InPlace(t) ==
    /\ pc[t] \in {"request", "backoff"} =>
        /\ bytes[t] = 0 \/ bytes[t] = Len(part[file[t]])
        /\ size[t] = 0 \/ size[t] = Sizes[1]
    /\ pc[t] = "stream" =>
        /\ served[t] = 1 /\ bytes[t] = Len(part[file[t]])
        /\ size[t] = 0 \/ size[t] = Sizes[1]
    /\ pc[t] = "rename" => Len(part[file[t]]) = Sizes[1]

Promoted == \A f \in Files : dest[f] # << >> => dest[f] = [k \in 1 .. Sizes[1] |-> <<1, k>>]

Whole == Steady /\ InOrder /\ (\A t \in Tasks : InPlace(t)) /\ Promoted

LEMMA OthersIdle ==
  ASSUME Exclusion, NEW t \in Tasks, Running(t)
  PROVE  \A u \in Tasks : u # t => pc[u] = "idle"
BY DEF Exclusion, OneTask, Running

\* Only the task that takes a step has a place to keep.
LEMMA KeepsPlaces ==
  ASSUME ControlTypes, Exclusion, NEW t \in Tasks, Running(t),
         \A u \in Tasks : u # t => pc'[u] = pc[u],
         InPlace(t)'
  PROVE  \A u \in Tasks : InPlace(u)'
<1>1. \A u \in Tasks : u # t => pc'[u] = "idle"
  BY OthersIdle
<1> QED  BY <1>1 DEF InPlace

LEMMA DiscardOrder ==
  ASSUME ControlTypes, InOrder, NEW f \in Files, Discard(f)
  PROVE  InOrder'
<1>1. CASE part' = [part EXCEPT ![f] = << >>]
  BY <1>1, TypeFacts DEF InOrder
<1>2. CASE UNCHANGED part
  BY <1>2 DEF InOrder
<1> QED  BY <1>1, <1>2 DEF Discard

\* A partial file of full length is the remote file.
LEMMA PromoteWhole ==
  ASSUME ControlTypes, InOrder, Promoted, NEW f \in Files, Promote(f), Len(part[f]) = Sizes[1]
  PROVE  InOrder' /\ Promoted'
<1>1. part[f] \in Seq(Nat \X Nat) /\ \A k \in 1 .. Len(part[f]) : part[f][k] = <<1, k>>
  BY TypeFacts DEF InOrder
<1>5. part[f] = [k \in 1 .. Sizes[1] |-> part[f][k]]
  BY <1>1
<1>6. \A k \in 1 .. Sizes[1] : part[f][k] = <<1, k>>
  BY <1>1
<1>2. part[f] = [k \in 1 .. Sizes[1] |-> <<1, k>>]
  BY <1>5, <1>6, Zenon
<1>3. Promoted'
  BY <1>2, TypeFacts DEF Promote, Promoted
<1>4. InOrder'
  BY TypeFacts DEF Promote, InOrder
<1> QED  BY <1>3, <1>4

LEMMA StartDownloadWhole ==
  ASSUME ControlTypes, Exclusion, Whole,
         NEW t \in Tasks, StartDownload(t)
  PROVE  Whole'
<1>1. Steady'
  BY DEF Whole, Steady, StartDownload
<1>2. InOrder' /\ Promoted'
  BY DEF Whole, InOrder, Promoted, StartDownload, disk
<1>3. \A u \in Tasks : InPlace(u)'
  BY TaskFacts DEF Whole, InPlace, StartDownload, Startable, Fresh, Goto, entry, disk, locals
<1> QED  BY <1>1, <1>2, <1>3 DEF Whole

LEMMA MkdirWhole ==
  ASSUME ControlTypes, Exclusion, Whole,
         NEW t \in Tasks, Mkdir(t)
  PROVE  Whole'
<1>1. Steady'
  BY DEF Whole, Steady, Mkdir, Exit
<1>2. Running(t) /\ \A u \in Tasks : u # t => pc'[u] = pc[u]
  BY TaskFacts DEF Running, Mkdir, Exit, Goto
<1>3. InOrder' /\ Promoted'
  BY DEF Whole, InOrder, Promoted, Mkdir, Exit, disk
<1>4. InPlace(t)'
  BY TaskFacts DEF Whole, InPlace, Mkdir, Exit, Goto, entry, disk, locals
<1>5. \A u \in Tasks : InPlace(u)'
  BY <1>2, <1>4, KeepsPlaces
<1> QED  BY <1>1, <1>3, <1>5 DEF Whole

LEMMA HeadPassWhole ==
  ASSUME ControlTypes, Exclusion, Whole,
         NEW t \in Tasks, HeadPass(t)
  PROVE  Whole'
<1>1. Steady'
  BY DEF Whole, Steady, HeadPass
<1>2. Running(t) /\ \A u \in Tasks : u # t => pc'[u] = pc[u]
  BY TaskFacts DEF Running, HeadPass, Goto
<1>3. InOrder' /\ Promoted'
  BY DEF Whole, InOrder, Promoted, HeadPass, disk
<1>4. InPlace(t)'
  BY TaskFacts DEF Whole, InPlace, HeadPass, Goto, entry, disk, locals
<1>5. \A u \in Tasks : InPlace(u)'
  BY <1>2, <1>4, KeepsPlaces
<1> QED  BY <1>1, <1>3, <1>5 DEF Whole

LEMMA NextFileWhole ==
  ASSUME ControlTypes, Exclusion, Whole,
         NEW t \in Tasks, NextFile(t)
  PROVE  Whole'
<1>1. Steady'
  BY DEF Whole, Steady, NextFile
<1>2. Running(t) /\ \A u \in Tasks : u # t => pc'[u] = pc[u]
  BY TaskFacts DEF Running, NextFile, Goto
<1>3. InOrder' /\ Promoted'
  BY DEF Whole, InOrder, Promoted, NextFile, disk
<1>4. InPlace(t)'
  BY TaskFacts DEF Whole, InPlace, NextFile, Goto, IsCancelled, entry, disk, locals
<1>5. \A u \in Tasks : InPlace(u)'
  BY <1>2, <1>4, KeepsPlaces
<1> QED  BY <1>1, <1>3, <1>5 DEF Whole

LEMMA OpenFileWhole ==
  ASSUME ControlTypes, Exclusion, Whole,
         NEW t \in Tasks, OpenFile(t)
  PROVE  Whole'
<1>1. Steady'
  BY DEF Whole, Steady, OpenFile
<1>2. Running(t) /\ \A u \in Tasks : u # t => pc'[u] = pc[u]
  BY TaskFacts DEF Running, OpenFile, Goto
<1>a. remote[file[t]] = 1 /\ file[t] \in Files
  BY OpenCases DEF Whole, Steady
<1>3. InOrder' /\ Promoted'
  <2>1. CASE Promote(file[t]) /\ Len(part[file[t]]) = Sizes[1]
    BY <1>a, <2>1, PromoteWhole DEF Whole
  <2>2. CASE Discard(file[t]) /\ UNCHANGED dest
    BY <1>a, <2>2, DiscardOrder DEF Whole, Promoted
  <2>3. CASE UNCHANGED <<part, dest>>
    BY <2>3 DEF Whole, InOrder, Promoted
  <2> QED  BY <1>a, <2>1, <2>2, <2>3, OpenCases
<1>4. InPlace(t)'
  <2>1. size'[t] = 0 \/ size'[t] = Sizes[1]
    BY <1>a, OpenCases, TaskFacts
  <2>2. CASE Goto(t, "next")
    BY <2>2, TaskFacts DEF InPlace, Goto
  <2>3. CASE Goto(t, "request") /\ bytes' = [bytes EXCEPT ![t] = 0]
    BY <2>1, <2>3, TaskFacts DEF InPlace, Goto
  <2>4. CASE /\ Goto(t, "request") /\ UNCHANGED <<part, file>>
             /\ bytes' = [bytes EXCEPT ![t] = Len(part[file[t]])]
    BY <2>1, <2>4, TaskFacts DEF InPlace, Goto
  <2> QED  BY <2>2, <2>3, <2>4, OpenCases
<1>5. \A u \in Tasks : InPlace(u)'
  BY <1>2, <1>4, KeepsPlaces
<1> QED  BY <1>1, <1>3, <1>5 DEF Whole

LEMMA StopCancelledWhole ==
  ASSUME ControlTypes, Exclusion, Whole,
         NEW t \in Tasks, StopCancelled(t)
  PROVE  Whole'
<1>1. Steady'
  BY DEF Whole, Steady, StopCancelled
<1>2. Running(t) /\ \A u \in Tasks : u # t => pc'[u] = pc[u]
  BY TaskFacts DEF Running, StopCancelled, Goto
<1>3. InOrder' /\ Promoted'
  BY AtFile, DiscardOrder DEF Whole, Promoted, StopCancelled
<1>4. InPlace(t)'
  BY TaskFacts DEF InPlace, StopCancelled, Goto
<1>5. \A u \in Tasks : InPlace(u)'
  BY <1>2, <1>4, KeepsPlaces
<1> QED  BY <1>1, <1>3, <1>5 DEF Whole

LEMMA RequestFailsWhole ==
  ASSUME ControlTypes, Exclusion, Whole,
         NEW t \in Tasks, RequestFails(t)
  PROVE  Whole'
<1>1. Steady'
  BY DEF Whole, Steady, RequestFails
<1>2. Running(t) /\ \A u \in Tasks : u # t => pc'[u] = pc[u]
  BY TaskFacts DEF Running, RequestFails, Goto, Retry
<1>3. InOrder' /\ Promoted'
  BY DEF Whole, InOrder, Promoted, RequestFails, disk
<1>4. InPlace(t)'
  BY TaskFacts DEF Whole, InPlace, RequestFails, IsCancelled, Retry, Goto, entry, disk, locals
<1>5. \A u \in Tasks : InPlace(u)'
  BY <1>2, <1>4, KeepsPlaces
<1> QED  BY <1>1, <1>3, <1>5 DEF Whole

LEMMA BackoffWhole ==
  ASSUME ControlTypes, Exclusion, Whole,
         NEW t \in Tasks, Backoff(t)
  PROVE  Whole'
<1>1. Steady'
  BY DEF Whole, Steady, Backoff
<1>2. Running(t) /\ \A u \in Tasks : u # t => pc'[u] = pc[u]
  BY TaskFacts DEF Running, Backoff, Goto
<1>3. InOrder' /\ Promoted'
  BY DEF Whole, InOrder, Promoted, Backoff, disk
<1>4. InPlace(t)'
  BY TaskFacts DEF Whole, InPlace, Backoff, IsCancelled, Goto, entry, disk, locals
<1>5. \A u \in Tasks : InPlace(u)'
  BY <1>2, <1>4, KeepsPlaces
<1> QED  BY <1>1, <1>3, <1>5 DEF Whole

LEMMA RangeNotSatisfiableWhole ==
  ASSUME ControlTypes, Exclusion, Whole,
         NEW t \in Tasks, RangeNotSatisfiable(t)
  PROVE  Whole'
<1>1. Steady'
  BY DEF Whole, Steady, RangeNotSatisfiable
<1>2. Running(t) /\ \A u \in Tasks : u # t => pc'[u] = pc[u]
  BY TaskFacts DEF Running, RangeNotSatisfiable, Goto
<1>a. file[t] \in Files /\ remote[file[t]] = 1 /\ Sizes[1] \in Nat \ {0} /\ pc[t] = "request"
  BY AtFile, TypeFacts DEF Whole, Steady, RangeNotSatisfiable
<1>b. CASE size[t] > 0 /\ bytes[t] = size[t] /\ Goto(t, "rename") /\ UNCHANGED <<part, bytes, sum>>
  <2>1. InOrder' /\ Promoted'
    BY <1>b DEF Whole, InOrder, Promoted, RangeNotSatisfiable
  <2>2. bytes[t] \in Nat /\ bytes[t] > 0
    BY <1>b, TaskFacts
  <2>3. Len(part[file[t]]) = Sizes[1]
    BY <1>a, <1>b, <2>2 DEF Whole, InPlace
  <2>4. UNCHANGED file
    BY DEF RangeNotSatisfiable
  <2>5. InPlace(t)'
    BY <1>b, <2>3, <2>4, TaskFacts DEF InPlace, Goto
  <2>6. \A u \in Tasks : InPlace(u)'
    BY <1>2, <2>5, KeepsPlaces
  <2> QED  BY <1>1, <2>1, <2>6 DEF Whole
<1>c. CASE Discard(file[t]) /\ Restart(t) /\ UNCHANGED pc
  <2>1. InOrder' /\ Promoted'
    BY <1>a, <1>c, DiscardOrder DEF Whole, Promoted, RangeNotSatisfiable
  <2>2. UNCHANGED <<file, size>>
    BY DEF RangeNotSatisfiable
  <2>3. InPlace(t)'
    BY <1>a, <1>c, <2>2, TaskFacts DEF Whole, InPlace, Restart
  <2>4. \A u \in Tasks : InPlace(u)'
    BY <1>2, <2>3, KeepsPlaces
  <2> QED  BY <1>1, <2>1, <2>4 DEF Whole
<1>3. InOrder' /\ Promoted'
  BY <1>b, <1>c DEF RangeNotSatisfiable, Whole
<1>4. InPlace(t)'
  BY <1>b, <1>c DEF RangeNotSatisfiable, Whole
<1>5. \A u \in Tasks : InPlace(u)'
  BY <1>2, <1>4, KeepsPlaces
<1> QED  BY <1>1, <1>3, <1>5 DEF Whole

LEMMA RespondWhole ==
  ASSUME ControlTypes, Exclusion, Whole,
         NEW t \in Tasks, Respond(t)
  PROVE  Whole'
<1>1. Steady'
  BY DEF Whole, Steady, Respond
<1>2. Running(t) /\ \A u \in Tasks : u # t => pc'[u] = pc[u]
  BY TaskFacts DEF Running, Respond, Goto
<1>a. file[t] \in Files /\ remote[file[t]] = 1 /\ pc[t] = "request"
  BY AtFile DEF Whole, Steady, Respond
<1>b. PICK kept \in Nat :
           /\ kept = 0 \/ kept = bytes[t]
           /\ bytes' = [bytes EXCEPT ![t] = kept]
           /\ part' = [part EXCEPT ![file[t]] = SetLen(@, kept)]
  BY RespondKeeps
<1>c. part[file[t]] \in Seq(Nat \X Nat) /\ kept <= Len(part[file[t]])
  <2>1. part[file[t]] \in Seq(Nat \X Nat)
    BY <1>a, TypeFacts
  <2>2. bytes[t] = 0 \/ bytes[t] = Len(part[file[t]])
    BY <1>a DEF Whole, InPlace
  <2>3. kept = 0 \/ kept = Len(part[file[t]])
    BY <1>b, <2>2, Zenon
  <2>4. Len(part[file[t]]) \in Nat
    BY <2>1
  <2> QED  BY <2>1, <2>3, <2>4
<1>d. SetLen(part[file[t]], kept) \in Seq(Nat \X Nat) /\ Len(SetLen(part[file[t]], kept)) = kept
  BY <1>c, SetLenType
<1>e. \A k \in 1 .. kept : SetLen(part[file[t]], kept)[k] = <<1, k>>
  <2>1. \A k \in 1 .. kept : SetLen(part[file[t]], kept)[k] = part[file[t]][k]
    <3> TAKE k \in 1 .. kept
    <3>1. k \in Nat /\ k <= Len(part[file[t]])
      BY <1>b, <1>c
    <3>2. SetLen(part[file[t]], kept) = [j \in 1 .. kept |-> IF j <= Len(part[file[t]]) THEN part[file[t]][j] ELSE <<0, 0>>]
      BY Zenon DEF SetLen
    <3> QED  BY <3>1, <3>2
  <2>2. \A k \in 1 .. Len(part[file[t]]) : part[file[t]][k] = <<1, k>>
    BY <1>a DEF Whole, InOrder
  <2>3. \A k \in 1 .. kept : k \in 1 .. Len(part[file[t]])
    BY <1>b, <1>c
  <2> QED  BY <2>1, <2>2, <2>3, Zenon
<1>f. part'[file[t]] = SetLen(part[file[t]], kept) /\ \A f \in Files : f # file[t] => part'[f] = part[f]
  BY <1>a, <1>b, TypeFacts
<1>3. InOrder' /\ Promoted'
  <2>1. InOrder'
    BY <1>d, <1>e, <1>f DEF Whole, InOrder
  <2>2. Promoted'
    BY DEF Whole, Promoted, Respond
  <2> QED  BY <2>1, <2>2
<1>4. InPlace(t)'
  <2>1. pc' = [pc EXCEPT ![t] = "stream"] /\ served' = [served EXCEPT ![t] = 1] /\ UNCHANGED file
    BY <1>a DEF Respond, Goto
  <2>2. size'[t] = size[t] \/ size'[t] = Sizes[1]
    BY <1>a, TaskFacts DEF Respond
  <2>3. size[t] = 0 \/ size[t] = Sizes[1]
    BY <1>a DEF Whole, InPlace
  <2>4. bytes'[t] = kept /\ Len(part'[file[t]]) = kept
    BY <1>b, <1>d, <1>f, TaskFacts
  <2> QED  BY <2>1, <2>2, <2>3, <2>4, TaskFacts DEF InPlace
<1>5. \A u \in Tasks : InPlace(u)'
  BY <1>2, <1>4, KeepsPlaces
<1> QED  BY <1>1, <1>3, <1>5 DEF Whole

LEMMA ChunkWhole ==
  ASSUME ControlTypes, Exclusion, Whole,
         NEW t \in Tasks, Chunk(t)
  PROVE  Whole'
<1>1. Steady'
  BY DEF Whole, Steady, Chunk
<1>2. Running(t) /\ \A u \in Tasks : u # t => pc'[u] = pc[u]
  BY TaskFacts DEF Running, Chunk, entry
<1>a. file[t] \in Files /\ pc[t] = "stream" /\ served[t] = 1 /\ bytes[t] = Len(part[file[t]]) /\ bytes[t] \in Nat
  BY AtFile, TaskFacts DEF Whole, InPlace, Chunk
<1>b. part' = [part EXCEPT ![file[t]] = Append(part[file[t]], <<1, Len(part[file[t]]) + 1>>)]
  BY <1>a DEF Chunk
<1>c. part[file[t]] \in Seq(Nat \X Nat) /\ \A k \in 1 .. Len(part[file[t]]) : part[file[t]][k] = <<1, k>>
  BY <1>a, TypeFacts DEF Whole, InOrder
<1>d. /\ Len(Append(part[file[t]], <<1, Len(part[file[t]]) + 1>>)) = Len(part[file[t]]) + 1
      /\ \A k \in 1 .. Len(part[file[t]]) + 1 : Append(part[file[t]], <<1, Len(part[file[t]]) + 1>>)[k] = <<1, k>>
  BY <1>c
<1>e. part'[file[t]] = Append(part[file[t]], <<1, Len(part[file[t]]) + 1>>) /\ \A f \in Files : f # file[t] => part'[f] = part[f]
  BY <1>a, <1>b, TypeFacts
<1>3. InOrder' /\ Promoted'
  <2>1. InOrder'
    BY <1>d, <1>e DEF Whole, InOrder
  <2>2. Promoted'
    BY DEF Whole, Promoted, Chunk
  <2> QED  BY <2>1, <2>2
<1>4. InPlace(t)'
  <2>1. bytes'[t] = bytes[t] + 1 /\ UNCHANGED <<pc, file, size, served>>
    BY TaskFacts DEF Chunk
  <2> QED  BY <1>a, <1>d, <1>e, <2>1 DEF Whole, InPlace
<1>5. \A u \in Tasks : InPlace(u)'
  BY <1>2, <1>4, KeepsPlaces
<1> QED  BY <1>1, <1>3, <1>5 DEF Whole

LEMMA StreamFailsWhole ==
  ASSUME ControlTypes, Exclusion, Whole,
         NEW t \in Tasks, StreamFails(t)
  PROVE  Whole'
<1>1. Steady'
  BY DEF Whole, Steady, StreamFails
<1>2. Running(t) /\ \A u \in Tasks : u # t => pc'[u] = pc[u]
  BY TaskFacts DEF Running, StreamFails, Goto, Retry
<1>3. InOrder' /\ Promoted'
  BY DEF Whole, InOrder, Promoted, StreamFails, disk
<1>4. InPlace(t)'
  BY TaskFacts DEF Whole, InPlace, StreamFails, Retry, Goto, entry, disk, locals
<1>5. \A u \in Tasks : InPlace(u)'
  BY <1>2, <1>4, KeepsPlaces
<1> QED  BY <1>1, <1>3, <1>5 DEF Whole

LEMMA StreamEndsWhole ==
  ASSUME ControlTypes, Exclusion, Whole,
         NEW t \in Tasks, StreamEnds(t)
  PROVE  Whole'
<1>1. Steady'
  BY DEF Whole, Steady, StreamEnds
<1>2. Running(t) /\ \A u \in Tasks : u # t => pc'[u] = pc[u]
  BY TaskFacts DEF Running, StreamEnds, Goto
<1>3. InOrder' /\ Promoted'
  BY DEF Whole, InOrder, Promoted, StreamEnds, disk
<1>4. InPlace(t)'
  BY TaskFacts DEF Whole, InPlace, StreamEnds, Goto, entry, disk, locals
<1>5. \A u \in Tasks : InPlace(u)'
  BY <1>2, <1>4, KeepsPlaces
<1> QED  BY <1>1, <1>3, <1>5 DEF Whole

LEMMA RenameWhole ==
  ASSUME ControlTypes, Exclusion, Whole,
         NEW t \in Tasks, Rename(t)
  PROVE  Whole'
<1>1. Steady'
  BY DEF Whole, Steady, Rename
<1>2. Running(t) /\ \A u \in Tasks : u # t => pc'[u] = pc[u]
  BY TaskFacts DEF Running, Rename, Goto
<1>3. InOrder' /\ Promoted'
  BY AtFile, PromoteWhole DEF Whole, InPlace, Rename
<1>4. InPlace(t)'
  BY TaskFacts DEF InPlace, Rename, Goto
<1>5. \A u \in Tasks : InPlace(u)'
  BY <1>2, <1>4, KeepsPlaces
<1> QED  BY <1>1, <1>3, <1>5 DEF Whole

LEMMA CompleteWhole ==
  ASSUME ControlTypes, Exclusion, Whole,
         NEW t \in Tasks, Complete(t)
  PROVE  Whole'
<1>1. Steady'
  BY DEF Whole, Steady, Complete, Exit
<1>2. Running(t) /\ \A u \in Tasks : u # t => pc'[u] = pc[u]
  BY TaskFacts DEF Running, Complete, Exit, Goto
<1>3. InOrder' /\ Promoted'
  BY DEF Whole, InOrder, Promoted, Complete, Exit, disk
<1>4. InPlace(t)'
  BY TaskFacts DEF Whole, InPlace, Complete, Exit, Goto, entry, disk, locals
<1>5. \A u \in Tasks : InPlace(u)'
  BY <1>2, <1>4, KeepsPlaces
<1> QED  BY <1>1, <1>3, <1>5 DEF Whole

LEMMA RemovePartialsWhole ==
  ASSUME ControlTypes, Exclusion, Whole,
         NEW t \in Tasks, RemovePartials(t)
  PROVE  Whole'
<1>1. Steady'
  BY DEF Whole, Steady, RemovePartials
<1>2. Running(t) /\ \A u \in Tasks : u # t => pc'[u] = pc[u]
  BY TaskFacts DEF Running, RemovePartials, Goto
<1>3. InOrder' /\ Promoted'
  <2>1. PICK kept \in SUBSET Files : part' = [f \in Files |-> IF f \in kept THEN part[f] ELSE << >>]
    BY DEF RemovePartials
  <2>2. InOrder'
    BY <2>1 DEF Whole, InOrder
  <2>3. Promoted'
    BY DEF Whole, Promoted, RemovePartials
  <2> QED  BY <2>2, <2>3
<1>4. InPlace(t)'
  BY TaskFacts DEF InPlace, RemovePartials, Goto
<1>5. \A u \in Tasks : InPlace(u)'
  BY <1>2, <1>4, KeepsPlaces
<1> QED  BY <1>1, <1>3, <1>5 DEF Whole

LEMMA FailWhole ==
  ASSUME ControlTypes, Exclusion, Whole,
         NEW t \in Tasks, Fail(t)
  PROVE  Whole'
<1>1. Steady'
  BY DEF Whole, Steady, Fail, Exit
<1>2. Running(t) /\ \A u \in Tasks : u # t => pc'[u] = pc[u]
  BY TaskFacts DEF Running, Fail, Exit, Goto
<1>3. InOrder' /\ Promoted'
  BY DEF Whole, InOrder, Promoted, Fail, Exit, disk
<1>4. InPlace(t)'
  BY TaskFacts DEF Whole, InPlace, Fail, Exit, IsCancelled, Goto, entry, disk, locals
<1>5. \A u \in Tasks : InPlace(u)'
  BY <1>2, <1>4, KeepsPlaces
<1> QED  BY <1>1, <1>3, <1>5 DEF Whole

LEMMA CancelDownloadWhole ==
  ASSUME ControlTypes, Exclusion, Whole,
         CancelDownload
  PROVE  Whole'
BY DEF Whole, Steady, InOrder, InPlace, Promoted, CancelDownload, entry, disk, locals

LEMMA ClearCompletedWhole ==
  ASSUME ControlTypes, Exclusion, Whole,
         ClearCompleted
  PROVE  Whole'
BY DEF Whole, Steady, InOrder, InPlace, Promoted, ClearCompleted, Gone, entry, disk, locals

LEMMA CrashWhole ==
  ASSUME ControlTypes, Exclusion, Whole,
         Crash
  PROVE  Whole'
BY DEF Whole, Steady, InOrder, InPlace, Promoted, Crash, Gone, entry, disk, locals

\* A changed remote file never changes back.
LEMMA RemoteSteady ==
  ASSUME ControlTypes, [Next]_vars, Steady'
  PROVE  Steady /\ \A f \in Files : ~ RemoteChanges(f)
<1>1. ASSUME NEW f \in Files, RemoteChanges(f) PROVE FALSE
  <2>1. remote[f] \in 1 .. Len(Sizes) /\ remote'[f] = remote[f] + 1
    BY <1>1, TypeFacts DEF RemoteChanges, Versions
  <2>2. Len(Sizes) \in Nat /\ remote'[f] = 1
    BY FilesAssumption DEF Steady
  <2> QED  BY <2>1, <2>2
<1>2. ASSUME NEW t \in Tasks, StartDownload(t) \/ TaskStep(t) PROVE UNCHANGED remote
  BY <1>2, Zenon DEF TaskStep, StartDownload, Mkdir, HeadPass, NextFile, OpenFile, StopCancelled,
     RequestFails, Backoff, RangeNotSatisfiable, Respond, Chunk, StreamFails, StreamEnds, Rename,
     Complete, RemovePartials, Fail
<1>3. CancelDownload \/ ClearCompleted \/ Crash \/ UNCHANGED vars => UNCHANGED remote
  BY Zenon DEF CancelDownload, ClearCompleted, Crash, vars
<1>4. UNCHANGED remote => Steady
  BY DEF Steady
<1> QED  BY <1>1, <1>2, <1>3, <1>4 DEF Next

LEMMA NextWhole ==
  ASSUME ControlTypes, Exclusion, Steady => Whole, [Next]_vars
  PROVE  Steady' => Whole'
<1> SUFFICES ASSUME Steady' PROVE Whole'
  OBVIOUS
<1>1. Whole /\ \A f \in Files : ~ RemoteChanges(f)
  BY RemoteSteady
<1>2. CASE UNCHANGED vars
  BY <1>1, <1>2 DEF Whole, Steady, InOrder, InPlace, Promoted, vars, entry, disk, locals
<1>3. ASSUME NEW t \in Tasks, StartDownload(t) \/ TaskStep(t) PROVE Whole'
  BY <1>1, <1>3, StartDownloadWhole, MkdirWhole, HeadPassWhole, NextFileWhole, OpenFileWhole, StopCancelledWhole,
     RequestFailsWhole, BackoffWhole, RangeNotSatisfiableWhole, RespondWhole, ChunkWhole, StreamFailsWhole,
     StreamEndsWhole, RenameWhole, CompleteWhole, RemovePartialsWhole, FailWhole DEF TaskStep
<1>4. CASE CancelDownload \/ ClearCompleted \/ Crash
  BY <1>1, <1>4, CancelDownloadWhole, ClearCompletedWhole, CrashWhole
<1> QED  BY <1>1, <1>2, <1>3, <1>4 DEF Next

\* For as long as the remote files are what they were, every promoted file is the
\* remote file, for any sizes, number of files, retries, crashes and other faults.
THEOREM PromotedWhole == Spec => []DestIsWhole
<1>1. Init => Whole
  BY DEF Init, Whole, Steady, InOrder, InPlace, Promoted
<1>2. ControlTypes /\ Exclusion /\ (Steady => Whole) /\ [Next]_vars => (Steady => Whole)'
  BY NextWhole
<1>3. (Steady => Whole) => DestIsWhole
  <2>1. 1 \in Versions
    BY FilesAssumption DEF Versions
  <2> QED  BY <2>1 DEF Whole, Steady, Promoted, DestIsWhole
<1> QED  BY <1>1, <1>2, <1>3, ExclusionAlways, PTL DEF Spec

-----------------------------------------------------------------------------
(* Every step of a task brings its end nearer. How far a task has to go is *)
(* counted by the files before it, then by the attempts it has left at the *)
(* file, then by the chunks still to come; a lower count of the first kind *)
(* makes up for any of the others.                                         *)

Fetching == {"request", "backoff", "stream", "rename"}

WayAt(p, f) ==
  CASE p = "mkdir" -> 3 * NFiles + 9
    [] p = "head" -> 3 * NFiles + 8
    [] p = "next" -> 3 * (NFiles + 1 - f) + 5
    [] p = "open" -> 3 * (NFiles + 1 - f) + 4
    [] p \in Fetching -> 3 * (NFiles + 1 - f) + 3
    [] p = "failing" -> 2
    [] p \in {"done", "failed"} -> 1
    [] p = "idle" -> 0

\* An attempt backs off, asks (anew if the server has nothing after the chunks
\* that are kept), reads the body and renames.
StageAt(p, b) ==
  CASE p = "backoff" -> 4
    [] p = "request" -> IF b > 0 THEN 3 ELSE 2
    [] p = "stream" -> 1
    [] p = "rename" -> 0

TurnsAt(p, n, b) == IF p \in Fetching THEN 5 * (MaxRetries - n) + StageAt(p, b) ELSE 0

UnreadAt(p, b, v) == IF p = "stream" THEN Sizes[v] - b ELSE 0

Way(t)    == WayAt(pc[t], file[t])
Turns(t)  == TurnsAt(pc[t], tries[t], bytes[t])
Unread(t) == UnreadAt(pc[t], bytes[t], served[t])

Nearer(t) ==
  \/ Way(t)' < Way(t)
  \/ Way(t)' = Way(t) /\ Turns(t)' < Turns(t)
  \/ Way(t)' = Way(t) /\ Turns(t)' = Turns(t) /\ Unread(t)' < Unread(t)

\* A task makes no more retries than it may, and reads no further than the body.
Bounded(t) ==
  /\ pc[t] \in Fetching => tries[t] <= MaxRetries
  /\ pc[t] = "stream" => bytes[t] <= Sizes[served[t]]

Counted == \A t \in Tasks : Bounded(t)

LEMMA TaskTypesAt ==
  ASSUME ControlTypes, NEW t \in Tasks
  PROVE  /\ pc[t] \in Places /\ file[t] \in Nat /\ bytes[t] \in Nat /\ tries[t] \in Nat
         /\ pc[t] \in {"next", "open"} \cup Fetching => file[t] <= NFiles + 1
         /\ pc[t] = "stream" => Sizes[served[t]] \in Nat
         /\ NFiles \in Nat /\ MaxRetries \in Nat
<1>1. file[t] \in 0 .. NFiles + 1
  BY TaskFacts
<1> QED  BY <1>1, TaskFacts, AtFile, SizesType, FilesAssumption, BoundsAssumption

\* How far a task has to go is a natural number of each kind.
LEMMA DistanceType ==
  ASSUME ControlTypes, NEW t \in Tasks, Bounded(t)
  PROVE  Way(t) \in Nat /\ Turns(t) \in Nat /\ Unread(t) \in Nat
<1>1. Way(t) \in Nat
  BY TaskTypesAt DEF Way, WayAt, Fetching, Places
<1>2. Turns(t) \in Nat
  BY TaskTypesAt DEF Turns, TurnsAt, StageAt, Fetching, Places, Bounded
<1>3. Unread(t) \in Nat
  BY TaskTypesAt DEF Unread, UnreadAt, Bounded
<1> QED  BY <1>1, <1>2, <1>3

-----------------------------------------------------------------------------
(* The steps of the task itself.                                           *)

\* It is over.
LEMMA ExitNearer ==
  ASSUME ControlTypes, NEW t \in Tasks, pc[t] \in {"mkdir", "done", "failed"}, Exit(t)
  PROVE  Nearer(t) /\ Bounded(t)'
<1>1. pc'[t] = "idle"
  BY TaskFacts DEF Exit
<1> QED  BY <1>1, TaskTypesAt DEF Nearer, Way, WayAt, Bounded, Fetching

\* It moves on to where less is left to do.
LEMMA MoveNearer ==
  ASSUME ControlTypes, NEW t \in Tasks, NEW p, Goto(t, p), UNCHANGED file,
         \/ pc[t] = "mkdir" /\ p = "head"
         \/ pc[t] = "next" /\ p \in {"done", "failing", "open"}
         \/ pc[t] \in Fetching /\ p = "failing"
         \/ pc[t] = "failing" /\ p = "failed"
  PROVE  Nearer(t) /\ Bounded(t)'
<1>1. pc'[t] = p /\ file'[t] = file[t]
  BY TaskFacts DEF Goto
<1> QED  BY <1>1, TaskTypesAt DEF Nearer, Way, WayAt, Bounded, Fetching

\* It goes on to the next file.
LEMMA FileNearer ==
  ASSUME ControlTypes, NEW t \in Tasks, pc[t] \in {"next", "open"} \cup Fetching, file[t] <= NFiles,
         pc'[t] = "next", file'[t] = file[t] + 1
  PROVE  Nearer(t) /\ Bounded(t)'
BY TaskTypesAt DEF Nearer, Way, WayAt, Bounded, Fetching

LEMMA HeadPassNearer ==
  ASSUME ControlTypes, NEW t \in Tasks, HeadPass(t)
  PROVE  Nearer(t) /\ Bounded(t)'
<1>1. pc[t] = "head" /\ pc'[t] = "next" /\ file'[t] = 1
  <2>1. pc[t] = "head" /\ Goto(t, "next") /\ file' = [file EXCEPT ![t] = 1]
    BY Zenon DEF HeadPass
  <2> QED  BY <2>1, TaskFacts DEF Goto
<1> QED  BY <1>1, TaskTypesAt DEF Nearer, Way, WayAt, Bounded, Fetching

LEMMA NextFileNearer ==
  ASSUME ControlTypes, NEW t \in Tasks, NextFile(t)
  PROVE  Nearer(t) /\ Bounded(t)'
<1>1. CASE file[t] <= NFiles /\ dest[file[t]] # << >> /\ ~ IsCancelled
  <2>1. pc[t] = "next" /\ pc' = pc /\ file' = [file EXCEPT ![t] = @ + 1]
    BY <1>1, TaskTypesAt DEF NextFile
  <2> QED  BY <1>1, <2>1, TaskFacts, FileNearer
<1>2. CASE ~ (file[t] <= NFiles /\ dest[file[t]] # << >> /\ ~ IsCancelled)
  <2>1. pc[t] = "next" /\ UNCHANGED file /\ \E p \in {"done", "failing", "open"} : Goto(t, p)
    BY <1>2, TaskTypesAt DEF NextFile
  <2> QED  BY <2>1, MoveNearer
<1> QED  BY <1>1, <1>2

LEMMA OpenFileNearer ==
  ASSUME ControlTypes, NEW t \in Tasks, OpenFile(t)
  PROVE  Nearer(t) /\ Bounded(t)'
<1>1. pc[t] = "open" /\ file[t] \in Files
  BY OpenCases
<1>2. tries'[t] = 0
  BY TaskFacts DEF OpenFile
<1>3. CASE file' = [file EXCEPT ![t] = file[t] + 1] /\ Goto(t, "next")
  <2>1. file'[t] = file[t] + 1 /\ pc'[t] = "next" /\ file[t] <= NFiles
    BY <1>1, <1>3, TaskFacts, FilesAssumption DEF Goto, Files
  <2> QED  BY <1>1, <2>1, FileNearer
<1>4. CASE UNCHANGED file /\ Goto(t, "request")
  <2>1. file'[t] = file[t] /\ pc'[t] = "request"
    BY <1>4, TaskFacts DEF Goto
  <2> QED  BY <1>1, <1>2, <2>1, TaskTypesAt DEF Nearer, Way, WayAt, Bounded, Fetching
<1> QED  BY <1>3, <1>4, OpenCases

LEMMA RetryNearer ==
  ASSUME ControlTypes, NEW t \in Tasks, pc[t] \in {"request", "stream"}, Bounded(t), Retry(t),
         UNCHANGED <<file, bytes>>
  PROVE  Nearer(t) /\ Bounded(t)'
<1>1. CASE tries[t] < MaxRetries /\ tries' = [tries EXCEPT ![t] = @ + 1] /\ Goto(t, "backoff")
  <2>1. pc'[t] = "backoff" /\ tries'[t] = tries[t] + 1 /\ file'[t] = file[t] /\ bytes'[t] = bytes[t]
    BY <1>1, TaskFacts DEF Goto
  <2>2. Way(t)' = Way(t) /\ Bounded(t)'
    BY <1>1, <2>1, TaskTypesAt DEF Way, WayAt, Bounded, Fetching
  <2>3. Turns(t)' = 5 * (MaxRetries - (tries[t] + 1)) + 4
    BY <2>1 DEF Turns, TurnsAt, StageAt, Fetching
  <2>4. Turns(t) >= 5 * (MaxRetries - tries[t]) + 1
    BY TaskTypesAt DEF Turns, TurnsAt, StageAt, Fetching
  <2>5. Turns(t) \in Nat
    BY DistanceType
  <2>6. Turns(t)' < Turns(t)
    BY <2>3, <2>4, <2>5, TaskTypesAt
  <2> QED  BY <2>2, <2>6 DEF Nearer
<1>2. CASE Goto(t, "failing")
  BY <1>2, MoveNearer DEF Fetching
<1> QED  BY <1>1, <1>2 DEF Retry

LEMMA BackoffNearer ==
  ASSUME ControlTypes, NEW t \in Tasks, Bounded(t), Backoff(t)
  PROVE  Nearer(t) /\ Bounded(t)'
<1>1. pc[t] = "backoff" /\ UNCHANGED <<file, tries, bytes>> /\ (Goto(t, "failing") \/ Goto(t, "request"))
  BY DEF Backoff, locals
<1>2. CASE Goto(t, "failing")
  BY <1>1, <1>2, MoveNearer DEF Fetching
<1>3. CASE Goto(t, "request")
  <2>1. pc'[t] = "request"
    BY <1>3, TaskFacts DEF Goto
  <2>2. Way(t)' = Way(t) /\ Bounded(t)'
    BY <1>1, <2>1, TaskTypesAt DEF Way, WayAt, Bounded, Fetching
  <2>3. Turns(t)' < Turns(t)
    BY <1>1, <2>1, TaskTypesAt DEF Turns, TurnsAt, StageAt, Fetching
  <2> QED  BY <2>2, <2>3 DEF Nearer
<1> QED  BY <1>1, <1>2, <1>3

\* A 416 to a request for the whole file: the request is made again, uncounted.
Refused(t) == RangeNotSatisfiable(t) /\ bytes[t] = 0

LEMMA RangeNotSatisfiableNearer ==
  ASSUME ControlTypes, NEW t \in Tasks, Bounded(t), RangeNotSatisfiable(t), ~ Refused(t)
  PROVE  Nearer(t) /\ Bounded(t)'
<1>1. pc[t] = "request" /\ UNCHANGED <<file, tries>>
  BY DEF RangeNotSatisfiable
<1>2. bytes[t] > 0
  BY TaskTypesAt DEF Refused
<1>3. \/ pc'[t] = "rename"
      \/ pc'[t] = "request" /\ bytes'[t] = 0
  <2>1. Goto(t, "rename") \/ (UNCHANGED pc /\ Restart(t))
    BY DEF RangeNotSatisfiable
  <2> QED  BY <1>1, <2>1, TaskFacts DEF Goto, Restart
<1>4. Way(t)' = Way(t) /\ Bounded(t)'
  BY <1>1, <1>3, TaskTypesAt DEF Way, WayAt, Bounded, Fetching
<1>5. Turns(t)' < Turns(t)
  BY <1>1, <1>2, <1>3, TaskTypesAt DEF Turns, TurnsAt, StageAt, Fetching
<1> QED  BY <1>4, <1>5 DEF Nearer

LEMMA RefusedStays ==
  ASSUME ControlTypes, NEW t \in Tasks, Bounded(t), Refused(t)
  PROVE  /\ Way(t)' = Way(t) /\ Turns(t)' = Turns(t) /\ Unread(t)' = Unread(t)
         /\ Bounded(t)'
<1>1. pc[t] = "request" /\ UNCHANGED <<file, tries>> /\ bytes[t] = 0
  BY DEF Refused, RangeNotSatisfiable
<1>2. pc'[t] = "request" /\ bytes'[t] = 0
  <2>1. UNCHANGED pc /\ Restart(t)
    BY <1>1 DEF Refused, RangeNotSatisfiable
  <2> QED  BY <1>1, <2>1, TaskFacts DEF Restart
<1>3. Way(t)' = Way(t) /\ Unread(t)' = Unread(t)
  BY <1>1, <1>2 DEF Way, WayAt, Unread, UnreadAt, Fetching
<1>4. Turns(t)' = Turns(t)
  BY <1>1, <1>2 DEF Turns, TurnsAt, StageAt, Fetching
<1>5. Bounded(t)'
  BY <1>1, <1>2 DEF Bounded, Fetching
<1> QED  BY <1>3, <1>4, <1>5

LEMMA RespondNearer ==
  ASSUME ControlTypes, NEW t \in Tasks, Bounded(t), Respond(t)
  PROVE  Nearer(t) /\ Bounded(t)'
<1>1. pc[t] = "request" /\ UNCHANGED <<file, tries>> /\ Goto(t, "stream")
      /\ served' = [served EXCEPT ![t] = remote[file[t]]]
  BY DEF Respond
<1>2. pc'[t] = "stream" /\ served'[t] = remote[file[t]]
  BY <1>1, TaskFacts DEF Goto
<1>3. Sizes[remote[file[t]]] \in Nat
  BY <1>1, AtFile, TypeFacts
<1>4. bytes'[t] \in Nat /\ bytes'[t] <= Sizes[remote[file[t]]]
  <2>1. PICK kept \in {0} \cup (IF bytes[t] < Sizes[remote[file[t]]] THEN {bytes[t]} ELSE {}) :
            IF kept = bytes[t] THEN UNCHANGED <<bytes, sum>> ELSE Restart(t)
    BY DEF Respond
  <2>2. (bytes'[t] = bytes[t] /\ bytes[t] <= Sizes[remote[file[t]]]) \/ bytes'[t] = 0
    BY <1>3, <2>1, TaskFacts DEF Restart
  <2> QED  BY <1>3, <2>2, TaskTypesAt
<1>5. Way(t)' = Way(t) /\ Bounded(t)'
  BY <1>1, <1>2, <1>4, TaskTypesAt DEF Way, WayAt, Bounded, Fetching
<1>6. Turns(t)' < Turns(t)
  BY <1>1, <1>2, TaskTypesAt DEF Turns, TurnsAt, StageAt, Fetching
<1> QED  BY <1>5, <1>6 DEF Nearer

LEMMA ChunkNearer ==
  ASSUME ControlTypes, NEW t \in Tasks, Bounded(t), Chunk(t)
  PROVE  Nearer(t) /\ Bounded(t)'
<1>1. pc[t] = "stream" /\ bytes[t] < Sizes[served[t]] /\ UNCHANGED <<pc, file, tries, served>>
  BY DEF Chunk
<1>2. bytes'[t] = bytes[t] + 1
  BY TaskFacts DEF Chunk
<1>3. Way(t)' = Way(t) /\ Turns(t)' = Turns(t)
  BY <1>1 DEF Way, WayAt, Turns, TurnsAt, StageAt, Fetching
<1>4. Unread(t)' < Unread(t) /\ Bounded(t)'
  BY <1>1, <1>2, TaskTypesAt DEF Unread, UnreadAt, Bounded, Fetching
<1> QED  BY <1>3, <1>4 DEF Nearer

LEMMA StreamEndsNearer ==
  ASSUME ControlTypes, NEW t \in Tasks, Bounded(t), StreamEnds(t)
  PROVE  Nearer(t) /\ Bounded(t)'
<1>1. pc[t] = "stream" /\ UNCHANGED <<file, tries>> /\ pc'[t] = "rename"
  BY TaskFacts DEF StreamEnds, Goto, locals
<1>2. Way(t)' = Way(t) /\ Bounded(t)'
  BY <1>1, TaskTypesAt DEF Way, WayAt, Bounded, Fetching
<1>3. Turns(t)' < Turns(t)
  BY <1>1, TaskTypesAt DEF Turns, TurnsAt, StageAt, Fetching
<1> QED  BY <1>2, <1>3 DEF Nearer

LEMMA RenameNearer ==
  ASSUME ControlTypes, NEW t \in Tasks, Rename(t)
  PROVE  Nearer(t) /\ Bounded(t)'
<1>1. pc[t] = "rename" /\ pc'[t] = "next" /\ file'[t] = file[t] + 1
  BY TaskFacts DEF Rename, Goto
<1>2. file[t] <= NFiles
  BY <1>1, AtFile, FilesAssumption DEF Files
<1> QED  BY <1>1, <1>2, FileNearer DEF Fetching

LEMMA StepNearer ==
  ASSUME ControlTypes, NEW t \in Tasks, Bounded(t), TaskStep(t), ~ Refused(t)
  PROVE  Nearer(t) /\ Bounded(t)'
<1>1. CASE Mkdir(t)
  BY <1>1, ExitNearer, MoveNearer DEF Mkdir, locals
<1>2. CASE StopCancelled(t)
  BY <1>2, MoveNearer DEF StopCancelled, Fetching, locals
<1>3. CASE RequestFails(t)
  <2>1. pc[t] = "request" /\ UNCHANGED <<file, bytes>> /\ (Retry(t) \/ Goto(t, "failing"))
    BY <1>3 DEF RequestFails
  <2> QED  BY <2>1, RetryNearer, MoveNearer DEF Fetching
<1>4. CASE StreamFails(t)
  BY <1>4, RetryNearer DEF StreamFails
<1>5. CASE Complete(t) \/ Fail(t)
  BY <1>5, ExitNearer DEF Complete, Fail
<1>6. CASE RemovePartials(t)
  BY <1>6, MoveNearer DEF RemovePartials, locals
<1> QED  BY <1>1, <1>2, <1>3, <1>4, <1>5, <1>6, HeadPassNearer, NextFileNearer, OpenFileNearer,
            BackoffNearer, RangeNotSatisfiableNearer, RespondNearer, ChunkNearer, StreamEndsNearer,
            RenameNearer DEF TaskStep

-----------------------------------------------------------------------------
(* The steps of others.                                                    *)

Same(u) ==
  /\ pc'[u] = pc[u] /\ file'[u] = file[u] /\ bytes'[u] = bytes[u] /\ tries'[u] = tries[u]
  /\ served'[u] = served[u]

LEMMA SameDistance ==
  ASSUME NEW u \in Tasks, Same(u)
  PROVE  /\ Way(u)' = Way(u) /\ Turns(u)' = Turns(u) /\ Unread(u)' = Unread(u)
         /\ Bounded(u) => Bounded(u)'
<1>1. Way(u)' = Way(u)
  BY DEF Same, Way
<1>2. Turns(u)' = Turns(u)
  BY DEF Same, Turns
<1>3. Unread(u)' = Unread(u)
  BY DEF Same, Unread
<1>4. Bounded(u) => Bounded(u)'
  BY DEF Same, Bounded
<1> QED  BY <1>1, <1>2, <1>3, <1>4

\* A step of one task leaves what the others have alone.
LEMMA OthersSame ==
  ASSUME ControlTypes, NEW t \in Tasks, StartDownload(t) \/ TaskStep(t), NEW u \in Tasks, u # t
  PROVE  Same(u)
<1>1. CASE StartDownload(t) \/ Mkdir(t) \/ Complete(t) \/ Fail(t) \/ RemovePartials(t)
  BY <1>1, TaskFacts DEF StartDownload, Mkdir, Complete, Fail, RemovePartials, Exit, Goto, Same, locals
<1>2. CASE HeadPass(t)
  <2>1. Goto(t, "next") /\ file' = [file EXCEPT ![t] = 1] /\ UNCHANGED <<bytes, tries, served>>
    BY <1>2, Zenon DEF HeadPass
  <2> QED  BY <2>1, TaskFacts DEF Goto, Same
<1>3. CASE NextFile(t) \/ StopCancelled(t) \/ Backoff(t) \/ StreamEnds(t) \/ Rename(t) \/ Chunk(t)
  BY <1>3, TaskFacts DEF NextFile, StopCancelled, Backoff, StreamEnds, Rename, Chunk, Goto, Same, locals
<1>4. CASE OpenFile(t)
  <2>1. tries' = [tries EXCEPT ![t] = 0] /\ UNCHANGED served
    BY <1>4 DEF OpenFile
  <2>2. /\ UNCHANGED file \/ file' = [file EXCEPT ![t] = file[t] + 1]
        /\ Goto(t, "next") \/ Goto(t, "request")
        /\ bytes' = [bytes EXCEPT ![t] = 0] \/ bytes' = [bytes EXCEPT ![t] = Len(part[file[t]])]
    BY <1>4, OpenCases
  <2> QED  BY <2>1, <2>2, TaskFacts DEF Goto, Same
<1>5. CASE RequestFails(t) \/ StreamFails(t)
  BY <1>5, TaskFacts DEF RequestFails, StreamFails, Retry, Goto, Same
<1>6. CASE RangeNotSatisfiable(t)
  BY <1>6, TaskFacts DEF RangeNotSatisfiable, Restart, Goto, Same
<1>7. CASE Respond(t)
  <2>1. Goto(t, "stream") /\ served' = [served EXCEPT ![t] = remote[file[t]]] /\ UNCHANGED <<file, tries>>
    BY <1>7 DEF Respond
  <2>2. \E kept \in Nat : bytes' = [bytes EXCEPT ![t] = kept]
    BY <1>7, RespondKeeps
  <2> QED  BY <2>1, <2>2, TaskFacts DEF Goto, Same
<1> QED  BY <1>1, <1>2, <1>3, <1>4, <1>5, <1>6, <1>7 DEF TaskStep

\* What a step of the program does to a task: its own step brings it nearer to
\* its end, a refusal of the whole file excepted, and no step takes it further away.
Progress(t) ==
  /\ TaskStep(t) => Nearer(t) \/ Refused(t)
  /\ Running(t) => Nearer(t) \/ (Way(t)' = Way(t) /\ Turns(t)' = Turns(t) /\ Unread(t)' = Unread(t))

LEMMA NextProgress ==
  ASSUME ControlTypes, Counted, [Next]_vars
  PROVE  Counted' /\ \A t \in Tasks : Progress(t)
<1> SUFFICES ASSUME NEW t \in Tasks PROVE Bounded(t)' /\ Progress(t)
  BY DEF Counted
<1>1. Bounded(t)
  BY DEF Counted
<1>2. CASE TaskStep(t)
  <2>1. CASE Refused(t)
    BY <1>1, <2>1, RefusedStays DEF Progress
  <2>2. CASE ~ Refused(t)
    BY <1>1, <1>2, <2>2, StepNearer DEF Progress
  <2> QED  BY <2>1, <2>2
<1>3. CASE ~ TaskStep(t) /\ Same(t)
  BY <1>1, <1>3, SameDistance DEF Progress
<1>4. CASE StartDownload(t) /\ ~ TaskStep(t)
  <2>1. pc[t] = "idle" /\ pc'[t] = "mkdir"
    BY <1>4, TaskFacts DEF StartDownload, Goto
  <2> QED  BY <1>4, <2>1 DEF Progress, Running, Bounded, Fetching
<1>5. CASE Crash /\ ~ TaskStep(t)
  <2>1. pc'[t] = "idle"
    BY <1>5 DEF Crash
  <2>2. pc[t] # "idle" => Way(t)' < Way(t)
    BY <2>1, TaskTypesAt DEF Way, WayAt, Fetching, Places
  <2> QED  BY <1>5, <2>1, <2>2 DEF Progress, Running, Nearer, Bounded, Fetching
<1>6. ASSUME NEW u \in Tasks, u # t, StartDownload(u) \/ TaskStep(u) PROVE Same(t)
  BY <1>6, OthersSame
<1>7. ASSUME CancelDownload \/ ClearCompleted \/ (\E f \in Files : RemoteChanges(f)) \/ UNCHANGED vars
      PROVE  Same(t)
  BY <1>7 DEF CancelDownload, ClearCompleted, RemoteChanges, Same, vars, locals
<1>8. TaskStep(t) \/ Same(t) \/ StartDownload(t) \/ Crash
  BY <1>6, <1>7 DEF Next
<1> QED  BY <1>2, <1>3, <1>4, <1>5, <1>8

LEMMA CountedAlways == Spec => []Counted
<1>1. Init => Counted
  BY DEF Init, Counted, Bounded, Fetching
<1>2. ControlTypes /\ Counted /\ [Next]_vars => Counted'
  BY NextProgress
<1> QED  BY <1>1, <1>2, ExclusionAlways, PTL DEF Spec

\* download_one_file makes at most MAX_RETRIES retries of a file, reads no body
\* beyond its length, and so a task has only so far to go.
THEOREM DistanceIsFinite ==
  Spec => [](\A t \in Tasks : Bounded(t) /\ Way(t) \in Nat /\ Turns(t) \in Nat /\ Unread(t) \in Nat)
<1>1. ControlTypes /\ Counted =>
        \A t \in Tasks : Bounded(t) /\ Way(t) \in Nat /\ Turns(t) \in Nat /\ Unread(t) \in Nat
  BY DistanceType DEF Counted
<1> QED  BY <1>1, CountedAlways, ExclusionAlways, PTL

\* The loop of download_one_file runs out: whatever cancels, retries, refused ranges,
\* ignored ranges and changes of the remote file do to it, every step of a background
\* task brings it nearer to its end and nothing takes it back. The one exception is
\* what the loop does not count: a 416 answer to a request for the whole file.
THEOREM TasksRunOut == Spec => [][\A t \in Tasks : Progress(t)]_vars
<1>1. ControlTypes /\ Counted /\ [Next]_vars => [\A t \in Tasks : Progress(t)]_vars
  BY NextProgress
<1> QED  BY <1>1, CountedAlways, ExclusionAlways, PTL DEF Spec

=============================================================================
