------------------------- MODULE ModelDownloadsProofs -------------------------
(***************************************************************************)
(* Proofs about ModelDownloads, for any models, repositories, tasks and    *)
(* requests. The types carry most of it: a task past its reservation and a *)
(* deletion past its first scan have a model.                              *)
(***************************************************************************)
EXTENDS ModelDownloads, TLAPS

AllFiles == UNION {FilesOf[m] : m \in Models}

EntryTypes == status \in [Models -> Statuses] /\ exited \in [Models -> BOOLEAN]

ChannelTypes == sender \in [Models -> Tasks \cup {None}] /\ signalled \subseteq Tasks

TaskTypes ==
  /\ pc \in [Tasks -> Stages] /\ model \in [Tasks -> Models \cup {None}]
  /\ todo \in [Tasks -> SUBSET AllFiles]
  /\ \A t \in Tasks : pc[t] # "idle" => model[t] \in Models

DiskTypes == disk \subseteq AllFiles

CancelTypes == cancelling \in [Clients -> Models \cup {None}]

DeleteTypes ==
  /\ dpc \in [Deleters -> {"idle", "scanned", "checked"}]
  /\ deleting \in [Deleters -> Models \cup {None}] /\ scan \in [Deleters -> SUBSET Models]
  /\ \A d \in Deleters : dpc[d] # "idle" => deleting[d] \in Models

IInv == EntryTypes /\ ChannelTypes /\ TaskTypes /\ DiskTypes /\ CancelTypes /\ DeleteTypes

LEMMA IInvGivesTypeOK == IInv => TypeOK
BY DEF IInv, EntryTypes, ChannelTypes, TaskTypes, DiskTypes, CancelTypes, DeleteTypes, AllFiles,
       TypeOK

LEMMA InitIInv == Init => IInv
<1> SUFFICES ASSUME Init PROVE IInv
  OBVIOUS
<1>1. EntryTypes /\ ChannelTypes /\ DiskTypes /\ CancelTypes
  BY DEF Init, EntryTypes, ChannelTypes, DiskTypes, CancelTypes, Statuses
<1>2. TaskTypes
  BY DEF Init, TaskTypes, Stages
<1>3. DeleteTypes
  BY DEF Init, DeleteTypes
<1> QED  BY <1>1, <1>2, <1>3 DEF IInv

-----------------------------------------------------------------------------
(* Types.                                                                  *)

LEMMA FilesAreFiles == \A m \in Models : FilesOf[m] \subseteq AllFiles
BY DEF AllFiles

LEMMA Closed ==
  ASSUME EntryTypes, NEW m \in Models, NEW outcome \in Statuses, Close(m, outcome)
  PROVE  EntryTypes'
BY DEF EntryTypes, Close

LEMMA Gone ==
  ASSUME TaskTypes, NEW t \in Tasks, NEW p \in Stages, Goto(t, p), pc[t] # "idle",
         UNCHANGED <<model, todo>>
  PROVE  TaskTypes'
BY DEF TaskTypes, Goto

LEMMA TaskKeepsTypes ==
  ASSUME IInv, NEW t \in Tasks, Reserve(t) \/ TaskStep(t)
  PROVE  IInv'
<1> USE DEF IInv
<1>1. CASE Reserve(t)
  <2> PICK m \in Models :
        /\ status' = [status EXCEPT ![m] = "downloading"]
        /\ exited' = [exited EXCEPT ![m] = FALSE]
        /\ model' = [model EXCEPT ![t] = m]
        /\ Goto(t, "reserved")
        /\ UNCHANGED <<channel, todo, disk, cancelling, delete>>
    BY <1>1 DEF Reserve
  <2>1. EntryTypes'
    BY DEF EntryTypes, Statuses
  <2>2. TaskTypes'
    BY DEF TaskTypes, Goto, Stages
  <2>3. ChannelTypes' /\ DiskTypes' /\ CancelTypes' /\ DeleteTypes'
    BY DEF ChannelTypes, DiskTypes, CancelTypes, DeleteTypes, channel, delete
  <2> QED  BY <2>1, <2>2, <2>3
<1>2. CASE TaskStep(t)
  <2>1. pc[t] # "idle" /\ model[t] \in Models
    BY <1>2 DEF TaskStep, Register, Subscribe, CancellationSeen, Resolve, ResolveFails, FetchFile,
                FetchFails, Complete, MarkDownloadFailed, Unregister, MarkTaskExited, Polled,
                TaskTypes
  <2>2. CancelTypes' /\ DeleteTypes'
    BY <1>2 DEF TaskStep, Register, Subscribe, CancellationSeen, Resolve, ResolveFails, FetchFile,
                FetchFails, Complete, MarkDownloadFailed, Unregister, MarkTaskExited,
                CancelTypes, DeleteTypes, delete
  <2>3. CASE Register(t)
    <3>1. TaskTypes'
      BY <2>1, <2>3, Gone DEF Register, Stages
    <3>2. ChannelTypes' /\ EntryTypes' /\ DiskTypes'
      BY <2>3 DEF Register, ChannelTypes, EntryTypes, DiskTypes, entry
    <3> QED  BY <2>2, <3>1, <3>2
  <2>4. CASE Subscribe(t)
    <3>1. TaskTypes'
      BY <2>1, <2>4, Gone DEF Subscribe, Stages
    <3>2. ChannelTypes' /\ EntryTypes' /\ DiskTypes'
      BY <2>4 DEF Subscribe, ChannelTypes, EntryTypes, DiskTypes, entry
    <3> QED  BY <2>2, <3>1, <3>2
  <2>5. CASE CancellationSeen(t)
    <3>1. TaskTypes'
      BY <2>1, <2>5, Gone DEF CancellationSeen, Stages
    <3>2. ChannelTypes' /\ EntryTypes' /\ DiskTypes'
      BY <2>5 DEF CancellationSeen, ChannelTypes, EntryTypes, DiskTypes, entry, channel
    <3> QED  BY <2>2, <3>1, <3>2
  <2>6. CASE Resolve(t)
    <3>1. TaskTypes'
      BY <2>1, <2>6, FilesAreFiles DEF Resolve, TaskTypes, Goto, Stages
    <3>2. EntryTypes'
      BY <2>1, <2>6 DEF Resolve, EntryTypes, Statuses, entry
    <3>3. ChannelTypes' /\ DiskTypes'
      BY <2>6 DEF Resolve, ChannelTypes, DiskTypes, channel
    <3> QED  BY <2>2, <3>1, <3>2, <3>3
  <2>7. CASE ResolveFails(t)
    <3>1. TaskTypes'
      BY <2>1, <2>7, Gone DEF ResolveFails, Stages
    <3>2. ChannelTypes' /\ EntryTypes' /\ DiskTypes'
      BY <2>7 DEF ResolveFails, ChannelTypes, EntryTypes, DiskTypes, entry, channel
    <3> QED  BY <2>2, <3>1, <3>2
  <2>8. CASE FetchFile(t)
    <3> PICK f \in todo[t] :
          /\ todo' = [todo EXCEPT ![t] = @ \ {f}]
          /\ disk' = disk \cup {f}
          /\ UNCHANGED <<entry, channel, pc, model, cancelling, delete>>
      BY <2>8 DEF FetchFile
    <3>1. TaskTypes' /\ DiskTypes'
      BY DEF TaskTypes, DiskTypes
    <3>2. ChannelTypes' /\ EntryTypes'
      BY DEF ChannelTypes, EntryTypes, entry, channel
    <3> QED  BY <2>2, <3>1, <3>2
  <2>9. CASE FetchFails(t)
    <3>1. TaskTypes'
      BY <2>1, <2>9, Gone DEF FetchFails, Stages
    <3>2. EntryTypes'
      BY <2>1, <2>9, Closed DEF FetchFails, Statuses
    <3>3. ChannelTypes' /\ DiskTypes'
      BY <2>9 DEF FetchFails, ChannelTypes, DiskTypes, channel
    <3> QED  BY <2>2, <3>1, <3>2, <3>3
  <2>10. CASE Complete(t)
    <3>1. TaskTypes'
      BY <2>1, <2>10, Gone DEF Complete, Stages
    <3>2. EntryTypes'
      BY <2>1, <2>10, Closed DEF Complete, Statuses
    <3>3. ChannelTypes' /\ DiskTypes'
      BY <2>10 DEF Complete, ChannelTypes, DiskTypes, channel
    <3> QED  BY <2>2, <3>1, <3>2, <3>3
  <2>11. CASE MarkDownloadFailed(t)
    <3>1. TaskTypes'
      BY <2>1, <2>11, Gone DEF MarkDownloadFailed, Stages
    <3>2. EntryTypes'
      BY <2>1, <2>11, Closed DEF MarkDownloadFailed, Statuses
    <3>3. ChannelTypes' /\ DiskTypes'
      BY <2>11 DEF MarkDownloadFailed, ChannelTypes, DiskTypes, channel
    <3> QED  BY <2>2, <3>1, <3>2, <3>3
  <2>12. CASE Unregister(t)
    <3>1. TaskTypes'
      BY <2>1, <2>12, Gone DEF Unregister, Stages
    <3>2. ChannelTypes' /\ EntryTypes' /\ DiskTypes'
      BY <2>12 DEF Unregister, ChannelTypes, EntryTypes, DiskTypes, entry
    <3> QED  BY <2>2, <3>1, <3>2
  <2>13. CASE MarkTaskExited(t)
    <3>1. TaskTypes'
      BY <2>1, <2>13, Gone DEF MarkTaskExited, Stages
    <3>2. ChannelTypes' /\ EntryTypes' /\ DiskTypes'
      BY <2>13 DEF MarkTaskExited, ChannelTypes, EntryTypes, DiskTypes, channel
    <3> QED  BY <2>2, <3>1, <3>2
  <2> QED
    BY <1>2, <2>3, <2>4, <2>5, <2>6, <2>7, <2>8, <2>9, <2>10, <2>11, <2>12, <2>13 DEF TaskStep
<1> QED  BY <1>1, <1>2

LEMMA CancelKeepsTypes ==
  ASSUME IInv, NEW c \in Clients, Cancel(c) \/ Signal(c)
  PROVE  IInv'
<1>1. CASE Cancel(c)
  <2>1. EntryTypes' /\ CancelTypes'
    BY <1>1 DEF IInv, Cancel, EntryTypes, CancelTypes, Statuses
  <2>2. ChannelTypes' /\ TaskTypes' /\ DiskTypes' /\ DeleteTypes'
    BY <1>1 DEF IInv, Cancel, ChannelTypes, TaskTypes, DiskTypes, DeleteTypes, channel, task, delete
  <2> QED  BY <2>1, <2>2 DEF IInv
<1>2. CASE Signal(c)
  <2>1. cancelling[c] \in Models
    BY <1>2 DEF IInv, Signal, CancelTypes
  <2>2. ChannelTypes'
    BY <1>2, <2>1 DEF IInv, Signal, ChannelTypes
  <2>3. EntryTypes' /\ CancelTypes' /\ TaskTypes' /\ DiskTypes' /\ DeleteTypes'
    BY <1>2 DEF IInv, Signal, EntryTypes, CancelTypes, TaskTypes, DiskTypes, DeleteTypes, entry,
                task, delete
  <2> QED  BY <2>2, <2>3 DEF IInv
<1> QED  BY <1>1, <1>2

LEMMA DeleteKeepsTypes ==
  ASSUME IInv, NEW d \in Deleters, Scan(d) \/ CheckActive(d) \/ Remove(d)
  PROVE  IInv'
<1>1. EntryTypes' /\ ChannelTypes' /\ TaskTypes' /\ CancelTypes'
  BY DEF IInv, Scan, CheckActive, Remove, EntryTypes, ChannelTypes, TaskTypes, CancelTypes, entry,
         channel, task
<1>2. DiskTypes'
  BY DEF IInv, Scan, CheckActive, Remove, DiskTypes
<1>3. CASE Scan(d)
  <2> PICK m \in Models :
        /\ deleting' = [deleting EXCEPT ![d] = m]
        /\ scan' = [scan EXCEPT ![d] = {n \in Models : Cached(n)}]
        /\ dpc' = [dpc EXCEPT ![d] = "scanned"]
    BY <1>3 DEF Scan
  <2>1. DeleteTypes'
    BY DEF IInv, DeleteTypes
  <2> QED  BY <1>1, <1>2, <2>1 DEF IInv
<1>4. CASE CheckActive(d)
  <2> DEFINE p == IF \E n \in SameRepo(deleting[d]) : TaskIsActive(n) THEN "idle" ELSE "checked"
  <2>1. /\ dpc[d] = "scanned" /\ dpc' = [dpc EXCEPT ![d] = p]
        /\ UNCHANGED <<deleting, scan>>
    BY <1>4 DEF CheckActive
  <2>2. p \in {"idle", "checked"}
    OBVIOUS
  <2> HIDE DEF p
  <2>3. DeleteTypes'
    BY <2>1, <2>2 DEF IInv, DeleteTypes
  <2> QED  BY <1>1, <1>2, <2>3 DEF IInv
<1>5. CASE Remove(d)
  <2>1. DeleteTypes'
    BY <1>5 DEF IInv, Remove, DeleteTypes
  <2> QED  BY <1>1, <1>2, <2>1 DEF IInv
<1> QED  BY <1>3, <1>4, <1>5

LEMMA NextKeepsTypes == IInv /\ [Next]_vars => IInv'
<1> SUFFICES ASSUME IInv, [Next]_vars PROVE IInv'
  OBVIOUS
<1>1. CASE UNCHANGED vars
  BY <1>1 DEF IInv, EntryTypes, ChannelTypes, TaskTypes, DiskTypes, CancelTypes, DeleteTypes, vars,
              entry, channel, task, delete
<1> QED  BY <1>1, TaskKeepsTypes, CancelKeepsTypes, DeleteKeepsTypes DEF Next

LEMMA Invariance == Spec => []IInv
BY InitIInv, NextKeepsTypes, PTL DEF Spec

-----------------------------------------------------------------------------
(* What a step does to a cancelled entry, and a deletion to the others.    *)

LEMMA CancelledStep ==
  ASSUME IInv, [Next]_vars, NEW m \in Models, status[m] = "cancelled", status'[m] # "cancelled"
  PROVE  \E t \in Tasks : pc[t] = "idle" /\ pc'[t] = "reserved" /\ model'[t] = m
<1>1. ASSUME NEW t \in Tasks, Reserve(t)
      PROVE  pc[t] = "idle" /\ pc'[t] = "reserved" /\ model'[t] = m
  BY <1>1 DEF IInv, Reserve, EntryTypes, TaskTypes, Goto
<1>2. ASSUME NEW t \in Tasks, TaskStep(t) PROVE FALSE
  <2>1. CASE Resolve(t)
    BY <2>1 DEF Resolve, IInv, EntryTypes, entry
  <2>2. CASE FetchFails(t) \/ Complete(t) \/ MarkDownloadFailed(t)
    BY <2>2 DEF FetchFails, Complete, MarkDownloadFailed, Close, IInv, EntryTypes
  <2>3. CASE \/ Register(t) \/ Subscribe(t) \/ CancellationSeen(t) \/ ResolveFails(t)
             \/ FetchFile(t) \/ Unregister(t) \/ MarkTaskExited(t)
    BY <2>3 DEF Register, Subscribe, CancellationSeen, ResolveFails, FetchFile, Unregister,
                MarkTaskExited, entry
  <2> QED  BY <1>2, <2>1, <2>2, <2>3 DEF TaskStep
<1>3. ASSUME NEW c \in Clients, Cancel(c) \/ Signal(c) PROVE FALSE
  BY <1>3 DEF Cancel, Signal, IInv, EntryTypes, entry
<1>4. ASSUME NEW d \in Deleters, Scan(d) \/ CheckActive(d) \/ Remove(d) PROVE FALSE
  BY <1>4 DEF Scan, CheckActive, Remove, entry
<1>5. CASE UNCHANGED vars
  BY <1>5 DEF vars, entry
<1> QED  BY <1>1, <1>2, <1>3, <1>4, <1>5 DEF Next

\* What is removed for m leaves the files of every other model that was seen.
LEMMA RemovableSpares ==
  ASSUME NEW m \in Models, NEW seen \in SUBSET Models, NEW n \in seen \ {m}
  PROVE  FilesOf[n] \cap Removable(m, seen) = {}
<1> DEFINE others == (seen \cap SameRepo(m)) \ {m}
<1>1. Removable(m, seen) = IF others = {} THEN UNION {FilesOf[k] : k \in SameRepo(m)}
                           ELSE FilesOf[m] \ UNION {FilesOf[k] : k \in others}
  BY DEF Removable
<1>2. m \in SameRepo(m)
  BY DEF SameRepo
<1>3. CASE n \in SameRepo(m)
  <2>1. n \in others
    BY <1>3
  <2> HIDE DEF others
  <2>2. Removable(m, seen) = FilesOf[m] \ UNION {FilesOf[k] : k \in others}
    BY <1>1, <2>1
  <2> QED  BY <2>1, <2>2
<1>4. CASE n \notin SameRepo(m)
  <2>1. Removable(m, seen) \subseteq UNION {FilesOf[k] : k \in SameRepo(m)}
    BY <1>1, <1>2
  <2>2. \A k \in SameRepo(m) : FilesOf[n] \cap FilesOf[k] = {}
    BY <1>4, DownloadsAssumption DEF SameRepo
  <2> QED  BY <2>1, <2>2
<1> QED  BY <1>3, <1>4

LEMMA DeleteStep ==
  ASSUME IInv, NEW d \in Deleters, Remove(d), NEW n \in scan[d] \ {deleting[d]}, Cached(n)
  PROVE  Cached(n)'
<1>1. deleting[d] \in Models /\ scan[d] \subseteq Models
  BY DEF IInv, DeleteTypes, Remove
<1>2. FilesOf[n] \cap Removable(deleting[d], scan[d]) = {}
  BY <1>1, RemovableSpares
<1>3. disk' = disk \ Removable(deleting[d], scan[d])
  BY DEF Remove
<1> QED  BY <1>2, <1>3 DEF Cached

-----------------------------------------------------------------------------
(* Results.                                                                *)

\* The tables of the download manager, the tasks and the requests keep their types.
THEOREM TypeCorrect == Spec => []TypeOK
BY Invariance, IInvGivesTypeOK, PTL

\* complete, fail, init and mark_download_failed leave a cancelled entry
\* cancelled: only reserve_download, for a new download, replaces it.
THEOREM CancellationLasts == Spec => CancelledStays
<1> DEFINE Stays == \A m \in Models : status[m] = "cancelled" /\ status'[m] # "cancelled"
                      => \E t \in Tasks : pc[t] = "idle" /\ pc'[t] = "reserved" /\ model'[t] = m
<1>1. IInv /\ [Next]_vars => [Stays]_vars
  BY CancelledStep
<1> QED  BY <1>1, Invariance, PTL DEF Spec, CancelledStays

\* delete_cached_local_model takes no file from a model its first scan listed.
THEOREM DeletionSpares == Spec => DeleteSparesListed
<1> DEFINE Spares == \A d \in Deleters :
                       Remove(d) => \A n \in scan[d] \ {deleting[d]} : Cached(n) => Cached(n)'
<1>1. IInv /\ [Next]_vars => [Spares]_vars
  BY DeleteStep
<1> QED  BY <1>1, Invariance, PTL DEF Spec, DeleteSparesListed

=============================================================================
