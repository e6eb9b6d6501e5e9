--------------------------- MODULE SchedulerProofs ---------------------------
(***************************************************************************)
(* Proofs about Scheduler, for every set of jobs, callers, ticks and cron  *)
(* expressions and every bound.                                            *)
(***************************************************************************)
EXTENDS Scheduler, TLAPS

USE DEF memory, runtime, file, calls, syncs, external, history, vars

-----------------------------------------------------------------------------
(* Lists of jobs.                                                          *)

\* What makes four components a list.
LEMMA ListCriterion ==
    ASSUME NEW J, NEW P, NEW R, NEW C
    PROVE  [jobs |-> J, paused |-> P, running |-> R, cron |-> C] \in Lists <=>
               /\ J \subseteq Jobs /\ P \subseteq J /\ R \subseteq J
               /\ C \in [Jobs -> Crons \cup {None}]
               /\ \A j \in Jobs : j \in J <=> C[j] # None
  BY DEF Lists

\* The components of a list.
LEMMA ListParts ==
    ASSUME NEW l \in Lists
    PROVE  /\ l = [jobs |-> l.jobs, paused |-> l.paused, running |-> l.running, cron |-> l.cron]
           /\ l.jobs \subseteq Jobs /\ l.paused \subseteq l.jobs /\ l.running \subseteq l.jobs
           /\ l.cron \in [Jobs -> Crons \cup {None}]
           /\ \A j \in Jobs : j \in l.jobs <=> l.cron[j] # None
  BY DEF Lists

\* The empty list is one.
LEMMA EmptyList == Empty \in Lists
  BY ListCriterion DEF Empty

\* Clearing the running marks keeps a list one.
LEMMA ClearedList ==
    ASSUME NEW l \in Lists
    PROVE  /\ Cleared(l) \in Lists
           /\ Cleared(l) = [jobs |-> l.jobs, paused |-> l.paused, running |-> {}, cron |-> l.cron]
<1>1. Cleared(l) = [jobs |-> l.jobs, paused |-> l.paused, running |-> {}, cron |-> l.cron]
  BY DEF Cleared, Lists
<1> QED
  BY <1>1, ListParts, ListCriterion

-----------------------------------------------------------------------------
(* Which steps change what.                                                *)

\* What each step leaves alone.
LEMMA Frames ==
    /\ \A c \in Clients, j \in Jobs, cr \in Crons : Add(c, j, cr) => UNCHANGED <<memory, timer, tokens, cancelled, history, file, external, syncs>>
    /\ \A c \in Clients, j \in Jobs, cr \in Crons : Update(c, j, cr) => UNCHANGED <<timer, tokens, cancelled, history, file, external, syncs>>
    /\ \A c \in Clients, j \in Jobs : Remove(c, j) => UNCHANGED <<timer, tokens, cancelled, history, file, external, syncs>>
    /\ \A c \in Clients, j \in Jobs : Pause(c, j) => UNCHANGED <<timer, tokens, cancelled, history, file, external, syncs>>
    /\ \A c \in Clients, j \in Jobs : Unpause(c, j) => UNCHANGED <<timer, tokens, cancelled, history, file, external, syncs>>
    /\ \A c \in Clients, j \in Jobs : Kill(c, j) => UNCHANGED <<memory, timer, tokens, cancelled, history, file, external, syncs>>
    /\ \A c \in Clients, j \in Jobs : RunNow(c, j) => UNCHANGED <<timer, tokens, cancelled, history, file, external, syncs>>
    /\ \A c \in Clients : ListRead(c) => UNCHANGED <<memory, timer, tokens, cancelled, history, file, external>>
    /\ \A c \in Clients : Register(c) => UNCHANGED <<memory, tokens, history, file, external, syncs>>
    /\ \A c \in Clients : Insert(c) => UNCHANGED <<timer, tokens, cancelled, history, file, external, syncs>>
    /\ \A c \in Clients : Unregister(c) => UNCHANGED <<memory, tokens, cancelled, history, file, external, syncs>>
    /\ \A c \in Clients : Replace(c) => UNCHANGED <<timer, tokens, cancelled, history, file, external, syncs>>
    /\ \A c \in Clients : CancelToken(c) => UNCHANGED <<memory, timer, history, file, external, syncs>>
    /\ \A c \in Clients : Unmark(c) => UNCHANGED <<timer, tokens, history, file, external, syncs>>
    /\ \A c \in Clients : ListCompare(c) => UNCHANGED <<memory, timer, tokens, cancelled, history, file, external>>
    /\ \A c \in Clients, j \in Jobs : SyncRegister(c, j) => UNCHANGED <<memory, tokens, cancelled, history, file, external>>
    /\ \A c \in Clients : SyncInsert(c) => UNCHANGED <<timer, tokens, cancelled, history, file, external, syncs>>
    /\ \A c \in Clients, j \in Jobs, e \in Timers : SyncUnregister(c, j, e) => UNCHANGED <<memory, tokens, cancelled, history, file, external>>
    /\ \A c \in Clients : SyncDrop(c) => UNCHANGED <<timer, tokens, cancelled, history, file, external, syncs>>
    /\ \A c \in Clients : ListReturns(c) => UNCHANGED <<memory, timer, tokens, history, file, external>>
    /\ \A t \in Ticks, e \in Timers : Fire(t, e) => UNCHANGED <<memory, timer, tokens, cancelled, history, file, external, syncs>>
    /\ \A t \in Ticks : CheckDue(t) => UNCHANGED <<memory, timer, tokens, history, file, external, syncs>>
    /\ \A t \in Ticks : Mark(t) => UNCHANGED <<timer, tokens, cancelled, history, file, external, syncs>>
    /\ \A p \in Procs : SaveStart(p) => UNCHANGED <<memory, timer, tokens, syncs>>
    /\ \A p \in Procs : PutToken(p) => UNCHANGED <<memory, timer, cancelled, history, file, external, syncs>>
    /\ \A p \in Procs : DropToken(p) => UNCHANGED <<memory, timer, cancelled, history, file, external, syncs>>
    /\ \A p \in Procs : Finish(p) => UNCHANGED <<timer, tokens, cancelled, history, file, external, syncs>>
    /\ \A p \in Procs : Save(p) => UNCHANGED <<memory, timer, tokens, syncs>>
    /\ \A p \in Procs : ExecuteEnds(p) => UNCHANGED <<memory, timer, tokens, cancelled, history, file, external, syncs>>
    /\ \A c \in Clients : Abandon(c) => UNCHANGED <<memory, timer, file, external>>
    /\ OtherLoads => UNCHANGED <<memory, timer, tokens, cancelled, calls, syncs>>
    /\ \A j \in Jobs, cr \in Crons : OtherAdds(j, cr) => UNCHANGED <<memory, timer, tokens, cancelled, history, calls, syncs>>
    /\ \A j \in Jobs : OtherRemoves(j) => UNCHANGED <<memory, timer, tokens, cancelled, history, calls, syncs>>
<1>1. \A c \in Clients, j \in Jobs, cr \in Crons : Add(c, j, cr) => UNCHANGED <<memory, timer, tokens, cancelled, history, file, external, syncs>>
  BY DEF Add, Call
<1>2. \A c \in Clients, j \in Jobs, cr \in Crons : Update(c, j, cr) => UNCHANGED <<timer, tokens, cancelled, history, file, external, syncs>>
  BY DEF Update, Call
<1>3. \A c \in Clients, j \in Jobs : Remove(c, j) => UNCHANGED <<timer, tokens, cancelled, history, file, external, syncs>>
  BY DEF Remove, Call, Forget
<1>4. \A c \in Clients, j \in Jobs : Pause(c, j) => UNCHANGED <<timer, tokens, cancelled, history, file, external, syncs>>
  BY DEF Pause, Call
<1>5. \A c \in Clients, j \in Jobs : Unpause(c, j) => UNCHANGED <<timer, tokens, cancelled, history, file, external, syncs>>
  BY DEF Unpause, Call
<1>6. \A c \in Clients, j \in Jobs : Kill(c, j) => UNCHANGED <<memory, timer, tokens, cancelled, history, file, external, syncs>>
  BY DEF Kill, Call
<1>7. \A c \in Clients, j \in Jobs : RunNow(c, j) => UNCHANGED <<timer, tokens, cancelled, history, file, external, syncs>>
  BY DEF RunNow, Call
<1>8. \A c \in Clients : ListRead(c) => UNCHANGED <<memory, timer, tokens, cancelled, history, file, external>>
  BY DEF ListRead, Call
<1>9. \A c \in Clients : Register(c) => UNCHANGED <<memory, tokens, history, file, external, syncs>>
  BY DEF Register, Return, FreshTimers
<1>10. \A c \in Clients : Insert(c) => UNCHANGED <<timer, tokens, cancelled, history, file, external, syncs>>
  BY DEF Insert, Store, Goto
<1>11. \A c \in Clients : Unregister(c) => UNCHANGED <<memory, tokens, cancelled, history, file, external, syncs>>
  BY DEF Unregister, Goto
<1>12. \A c \in Clients : Replace(c) => UNCHANGED <<timer, tokens, cancelled, history, file, external, syncs>>
  BY DEF Replace, Goto
<1>13. \A c \in Clients : CancelToken(c) => UNCHANGED <<memory, timer, history, file, external, syncs>>
  BY DEF CancelToken, Goto
<1>14. \A c \in Clients : Unmark(c) => UNCHANGED <<timer, tokens, history, file, external, syncs>>
  BY DEF Unmark, Goto, Return
<1>15. \A c \in Clients : ListCompare(c) => UNCHANGED <<memory, timer, tokens, cancelled, history, file, external>>
  BY DEF ListCompare, Goto
<1>16. \A c \in Clients, j \in Jobs : SyncRegister(c, j) => UNCHANGED <<memory, tokens, cancelled, history, file, external>>
  BY DEF SyncRegister, FreshTimers
<1>17. \A c \in Clients : SyncInsert(c) => UNCHANGED <<timer, tokens, cancelled, history, file, external, syncs>>
  BY DEF SyncInsert, Store
<1>18. \A c \in Clients, j \in Jobs, e \in Timers : SyncUnregister(c, j, e) => UNCHANGED <<memory, tokens, cancelled, history, file, external>>
  BY DEF SyncUnregister
<1>19. \A c \in Clients : SyncDrop(c) => UNCHANGED <<timer, tokens, cancelled, history, file, external, syncs>>
  BY DEF SyncDrop, Forget
<1>20. \A c \in Clients : ListReturns(c) => UNCHANGED <<memory, timer, tokens, history, file, external>>
  BY DEF ListReturns, Return
<1>21. \A t \in Ticks, e \in Timers : Fire(t, e) => UNCHANGED <<memory, timer, tokens, cancelled, history, file, external, syncs>>
  BY DEF Fire
<1>22. \A t \in Ticks : CheckDue(t) => UNCHANGED <<memory, timer, tokens, history, file, external, syncs>>
  BY DEF CheckDue, Goto, Return
<1>23. \A t \in Ticks : Mark(t) => UNCHANGED <<timer, tokens, cancelled, history, file, external, syncs>>
  BY DEF Mark, Goto
<1>24. \A p \in Procs : SaveStart(p) => UNCHANGED <<memory, timer, tokens, syncs>>
  BY DEF SaveStart, Goto, Return, WriteOk, WriteFails
<1>25. \A p \in Procs : PutToken(p) => UNCHANGED <<memory, timer, cancelled, history, file, external, syncs>>
  BY DEF PutToken, Goto
<1>26. \A p \in Procs : DropToken(p) => UNCHANGED <<memory, timer, cancelled, history, file, external, syncs>>
  BY DEF DropToken, Goto
<1>27. \A p \in Procs : Finish(p) => UNCHANGED <<timer, tokens, cancelled, history, file, external, syncs>>
  BY DEF Finish, Goto
<1>28. \A p \in Procs : Save(p) => UNCHANGED <<memory, timer, tokens, syncs>>
  BY DEF Save, Return, WriteOk, WriteFails
<1>29. \A p \in Procs : ExecuteEnds(p) => UNCHANGED <<memory, timer, tokens, cancelled, history, file, external, syncs>>
  BY DEF ExecuteEnds, Goto
<1>30. OtherLoads => UNCHANGED <<memory, timer, tokens, cancelled, calls, syncs>>
  BY DEF OtherLoads
<1>31. \A j \in Jobs, cr \in Crons : OtherAdds(j, cr) => UNCHANGED <<memory, timer, tokens, cancelled, history, calls, syncs>>
  BY DEF OtherAdds
<1>32. \A j \in Jobs : OtherRemoves(j) => UNCHANGED <<memory, timer, tokens, cancelled, history, calls, syncs>>
  BY DEF OtherRemoves
<1>33. \A c \in Clients : Abandon(c) => UNCHANGED <<memory, timer, file, external>>
  BY DEF Abandon, Return
<1> QED
  BY <1>33, <1>1, <1>2, <1>3, <1>4, <1>5, <1>6, <1>7, <1>8, <1>9, <1>10, <1>11, <1>12, <1>13,
      <1>14, <1>15, <1>16, <1>17, <1>18, <1>19, <1>20, <1>21, <1>22, <1>23, <1>24,
      <1>25, <1>26, <1>27, <1>28, <1>29, <1>30, <1>31, <1>32

\* The steps that change the job map.
LEMMA MemoryFrame ==
    ASSUME Next
    PROVE  \/ UNCHANGED memory
           \/ \E c \in Clients, j \in Jobs, cr \in Crons : Update(c, j, cr)
           \/ \E c \in Clients, j \in Jobs : Remove(c, j)
           \/ \E c \in Clients, j \in Jobs : Pause(c, j)
           \/ \E c \in Clients, j \in Jobs : Unpause(c, j)
           \/ \E c \in Clients, j \in Jobs : RunNow(c, j)
           \/ \E c \in Clients : Insert(c)
           \/ \E c \in Clients : Replace(c)
           \/ \E c \in Clients : Unmark(c)
           \/ \E c \in Clients : SyncInsert(c)
           \/ \E c \in Clients : SyncDrop(c)
           \/ \E t \in Ticks : Mark(t)
           \/ \E p \in Procs : Finish(p)
           \/ Restart
  BY Frames DEF Next, Request, ScheduleRecipe, Sync, ClientStep, RunStep

\* The steps that change the registered entries.
LEMMA TimerFrame ==
    ASSUME Next
    PROVE  \/ UNCHANGED timer
           \/ \E c \in Clients : Register(c)
           \/ \E c \in Clients : Unregister(c)
           \/ \E c \in Clients, j \in Jobs : SyncRegister(c, j)
           \/ \E c \in Clients, j \in Jobs, e \in Timers : SyncUnregister(c, j, e)
           \/ Restart
  BY Frames DEF Next, Request, ScheduleRecipe, Sync, ClientStep, RunStep

\* The steps that change the token table.
LEMMA TokenFrame ==
    ASSUME Next
    PROVE  \/ UNCHANGED tokens
           \/ \E c \in Clients : CancelToken(c)
           \/ \E p \in Procs : PutToken(p)
           \/ \E p \in Procs : DropToken(p)
           \/ \E c \in Clients : Abandon(c)
           \/ Restart
  BY Frames DEF Next, Request, ScheduleRecipe, Sync, ClientStep, RunStep

\* The steps that change the job file.
LEMMA FileFrame ==
    ASSUME Next
    PROVE  \/ UNCHANGED <<file, external>>
           \/ \E p \in Procs : SaveStart(p)
           \/ \E p \in Procs : Save(p)
           \/ Restart
           \/ OtherLoads
           \/ \E j \in Jobs, cr \in Crons : OtherAdds(j, cr)
           \/ \E j \in Jobs : OtherRemoves(j)
  BY Frames DEF Next, Request, ScheduleRecipe, Sync, ClientStep, RunStep

\* The steps that change which runs are cancelled.
LEMMA CancelFrame ==
    ASSUME Next
    PROVE  \/ UNCHANGED cancelled
           \/ \E p \in Procs : Save(p)
           \/ \E c \in Clients : Register(c)
           \/ \E c \in Clients : Unmark(c)
           \/ \E t \in Ticks : CheckDue(t)
           \/ \E p \in Procs : SaveStart(p)
           \/ \E c \in Clients : ListReturns(c)
           \/ \E c \in Clients : CancelToken(c)
           \/ \E c \in Clients : Abandon(c)
           \/ Restart
  BY Frames DEF Next, Request, ScheduleRecipe, Sync, ClientStep, RunStep

\* The steps that count.
LEMMA HistoryFrame ==
    ASSUME Next
    PROVE  \/ UNCHANGED history
           \/ \E p \in Procs : SaveStart(p)
           \/ \E p \in Procs : Save(p)
           \/ \E c \in Clients : Abandon(c)
           \/ Restart
           \/ OtherLoads
  BY Frames DEF Next, Request, ScheduleRecipe, Sync, ClientStep, RunStep

\* The steps that change what a sync has read and is to do.
LEMMA SyncFrame ==
    ASSUME Next
    PROVE  \/ UNCHANGED syncs
           \/ \E c \in Clients : ListRead(c)
           \/ \E c \in Clients : ListCompare(c)
           \/ \E c \in Clients, j \in Jobs : SyncRegister(c, j)
           \/ \E c \in Clients, j \in Jobs, e \in Timers : SyncUnregister(c, j, e)
           \/ \E c \in Clients : ListReturns(c)
           \/ \E c \in Clients : Abandon(c)
           \/ Restart
  BY Frames DEF Next, Request, ScheduleRecipe, Sync, ClientStep, RunStep

-----------------------------------------------------------------------------
(* Types.                                                                  *)

\* MemoryTypes, with the list taken apart.
MemoryParts ==
    /\ jobs \subseteq Jobs /\ paused \subseteq jobs /\ running \subseteq jobs
    /\ cron \in [Jobs -> Crons \cup {None}]
    /\ uuid \in [Jobs -> Timers \cup {None}]
    /\ \A j \in Jobs : j \in jobs <=> cron[j] # None
    /\ \A j \in Jobs : j \in jobs <=> uuid[j] # None

\* The two forms of the type of the job map are one.
LEMMA MemoryForms == (MemoryTypes <=> MemoryParts) /\ (MemoryTypes' <=> MemoryParts')
<1>1. MemoryTypes <=> MemoryParts
  BY ListCriterion DEF MemoryTypes, MemoryParts, Image
<1>2. MemoryTypes' <=> MemoryParts'
  BY ListCriterion DEF MemoryTypes, MemoryParts, Image
<1> QED
  BY <1>1, <1>2

\* What Restart loads is a list of jobs, each with an entry of its own.
LEMMA RestartLoads ==
    ASSUME TypeOK, Restart
    PROVE  /\ MemoryParts' /\ running' = {}
           /\ \E l \in {disk, Empty} : jobs' = Loadable(l)
           /\ \A i, j \in jobs' : uuid'[i] = uuid'[j] => i = j
           /\ \A j \in jobs' : uuid'[j] \in Timers
<1>1. PICK l \in {disk, Empty} :
        /\ jobs' = Loadable(l) /\ paused' = l.paused \cap jobs'
        /\ cron' = [j \in Jobs |-> IF j \in jobs' THEN l.cron[j] ELSE None]
  BY DEF Restart
<1>2. PICK u \in [jobs' -> Timers] :
        /\ \A i, j \in jobs' : u[i] = u[j] => i = j
        /\ uuid' = [j \in Jobs |-> IF j \in jobs' THEN u[j] ELSE None]
  BY DEF Restart
<1>3. l \in Lists
  BY EmptyList DEF TypeOK, FileTypes
<1>4. jobs' \subseteq Jobs /\ \A j \in jobs' : l.cron[j] \in Crons
  BY <1>1, <1>3, ListParts DEF Loadable
<1>5. running' = {}
  BY DEF Restart
<1> QED
  BY <1>1, <1>2, <1>4, <1>5, CronsAssumption, ProcsAssumption DEF MemoryParts

\* The job map stays a list of jobs with their entries.
LEMMA MemoryStep ==
    ASSUME TypeOK, Next
    PROVE  MemoryTypes'
<1> USE MemoryForms
<1>0. MemoryParts /\ CallTypes /\ CallShapes
  BY DEF TypeOK
<1>1. ASSUME NEW c \in Clients, NEW j \in Jobs, NEW cr \in Crons, Update(c, j, cr) PROVE MemoryParts'
  BY <1>1, <1>0, CronsAssumption, ProcsAssumption DEF
      Update, Call, MemoryParts, CallTypes, CallShapes, Procs
<1>2. ASSUME NEW c \in Clients, NEW j \in Jobs, Remove(c, j) PROVE MemoryParts'
  BY <1>2, <1>0, CronsAssumption, ProcsAssumption DEF
      Remove, Call, Forget, MemoryParts, CallTypes, CallShapes, Procs
<1>3. ASSUME NEW c \in Clients, NEW j \in Jobs, Pause(c, j) PROVE MemoryParts'
  BY <1>3, <1>0, CronsAssumption, ProcsAssumption DEF
      Pause, Call, MemoryParts, CallTypes, CallShapes, Procs
<1>4. ASSUME NEW c \in Clients, NEW j \in Jobs, Unpause(c, j) PROVE MemoryParts'
  BY <1>4, <1>0, CronsAssumption, ProcsAssumption DEF
      Unpause, Call, MemoryParts, CallTypes, CallShapes, Procs
<1>5. ASSUME NEW c \in Clients, NEW j \in Jobs, RunNow(c, j) PROVE MemoryParts'
  BY <1>5, <1>0, CronsAssumption, ProcsAssumption DEF
      RunNow, Call, MemoryParts, CallTypes, CallShapes, Procs
<1>6. ASSUME NEW c \in Clients, Insert(c) PROVE MemoryParts'
  BY <1>6, <1>0, CronsAssumption, ProcsAssumption DEF
      Insert, Store, Goto, MemoryParts, CallTypes, CallShapes, Procs
<1>7. ASSUME NEW c \in Clients, Replace(c) PROVE MemoryParts'
  BY <1>7, <1>0, CronsAssumption, ProcsAssumption DEF
      Replace, Goto, MemoryParts, CallTypes, CallShapes, Procs
<1>8. ASSUME NEW c \in Clients, Unmark(c) PROVE MemoryParts'
  BY <1>8, <1>0, CronsAssumption, ProcsAssumption DEF
      Unmark, Goto, Return, MemoryParts, CallTypes, CallShapes, Procs
<1>9. ASSUME NEW c \in Clients, SyncInsert(c) PROVE MemoryParts'
  <2>1. /\ job[c] \in Jobs /\ held[c] \in Timers /\ snap[c].cron[job[c]] \in Crons
    BY <1>9, ListParts DEF SyncInsert, TypeOK, CallShapes, SyncTypes, Loadable, Procs
  <2> QED
    BY <1>9, <1>0, <2>1, CronsAssumption, ProcsAssumption DEF SyncInsert, Store, MemoryParts
<1>10. ASSUME NEW c \in Clients, SyncDrop(c) PROVE MemoryParts'
  BY <1>10, <1>0, CronsAssumption, ProcsAssumption DEF
      SyncDrop, Forget, MemoryParts, CallTypes, CallShapes, Procs
<1>11. ASSUME NEW t \in Ticks, Mark(t) PROVE MemoryParts'
  BY <1>11, <1>0, CronsAssumption, ProcsAssumption DEF
      Mark, Goto, MemoryParts, CallTypes, CallShapes, Procs
<1>12. ASSUME NEW p \in Procs, Finish(p) PROVE MemoryParts'
  BY <1>12, <1>0, CronsAssumption, ProcsAssumption DEF
      Finish, Goto, MemoryParts, CallTypes, CallShapes, Procs
<1>13. ASSUME Restart PROVE MemoryParts'
  BY <1>13, RestartLoads 
<1>14. CASE UNCHANGED memory
  BY <1>0, <1>14 DEF MemoryParts
<1> QED
  BY MemoryFrame, <1>1, <1>2, <1>3, <1>4, <1>5, <1>6, <1>7, <1>8, <1>9, <1>10, <1>11, <1>12, <1>13, <1>14

\* Entries fire for a job at an expression.
LEMMA TimerStep ==
    ASSUME TypeOK, Next
    PROVE  (timer \in [Timers -> [job : Jobs, cron : Crons] \cup {NoTimer}])'
<1>0. timer \in [Timers -> [job : Jobs, cron : Crons] \cup {NoTimer}] /\ CallTypes /\ CallShapes
  BY DEF TypeOK, RuntimeTypes
<1>1. ASSUME NEW c \in Clients, Register(c) PROVE (timer \in [Timers -> [job : Jobs, cron : Crons] \cup {NoTimer}])'
  BY <1>1, <1>0 DEF Register, Return, FreshTimers, CallTypes, CallShapes, Procs
<1>2. ASSUME NEW c \in Clients, Unregister(c) PROVE (timer \in [Timers -> [job : Jobs, cron : Crons] \cup {NoTimer}])'
  BY <1>2, <1>0 DEF Unregister, Goto, CallTypes, CallShapes, Procs
<1>3. ASSUME NEW c \in Clients, NEW j \in Jobs, SyncRegister(c, j) PROVE (timer \in [Timers -> [job : Jobs, cron : Crons] \cup {NoTimer}])'
  <2>1. snap[c].cron[j] \in Crons
    BY <1>3, ListParts DEF SyncRegister, TypeOK, SyncTypes, Loadable
  <2> QED
    BY <1>3, <1>0, <2>1 DEF SyncRegister, FreshTimers
<1>4. ASSUME NEW c \in Clients, NEW j \in Jobs, NEW e \in Timers, SyncUnregister(c, j, e) PROVE (timer \in [Timers -> [job : Jobs, cron : Crons] \cup {NoTimer}])'
  BY <1>4, <1>0 DEF SyncUnregister, CallTypes, CallShapes, Procs
<1>5. ASSUME Restart PROVE (timer \in [Timers -> [job : Jobs, cron : Crons] \cup {NoTimer}])'
  <2>1. \A j \in jobs' : j \in Jobs /\ cron'[j] \in Crons
    BY <1>5, RestartLoads DEF MemoryParts
  <2>2. ASSUME NEW e \in Timers
        PROVE  timer'[e] \in [job : Jobs, cron : Crons] \cup {NoTimer}
    <3>1. CASE \E j \in jobs' : uuid'[j] = e
      <4> DEFINE k == CHOOSE i \in jobs' : uuid'[i] = e
      <4>1. k \in jobs'
        BY <3>1
      <4>2. timer'[e] = [job |-> k, cron |-> cron'[k]]
        BY <1>5, <3>1 DEF Restart
      <4> HIDE DEF k
      <4> QED
        BY <2>1, <4>1, <4>2
    <3>2. CASE ~\E j \in jobs' : uuid'[j] = e
      BY <1>5, <3>2 DEF Restart
    <3> QED
      BY <3>1, <3>2
  <2>3. timer' = [e \in Timers |-> timer'[e]]
    BY <1>5 DEF Restart
  <2> QED
    BY <2>2, <2>3
<1>6. CASE UNCHANGED timer
  BY <1>6, <1>0 DEF CallTypes, CallShapes, Procs
<1> QED
  BY TimerFrame, <1>1, <1>2, <1>3, <1>4, <1>5, <1>6

\* The table holds runs under jobs.
LEMMA TokenStep ==
    ASSUME TypeOK, Next
    PROVE  (tokens \in [Jobs -> Procs \cup {None, Orphan}])'
<1>0. tokens \in [Jobs -> Procs \cup {None, Orphan}] /\ CallTypes /\ CallShapes
  BY DEF TypeOK, RuntimeTypes
<1>1. ASSUME NEW c \in Clients, CancelToken(c) PROVE (tokens \in [Jobs -> Procs \cup {None, Orphan}])'
  BY <1>1, <1>0 DEF CancelToken, Goto, CallTypes, CallShapes, Procs
<1>2. ASSUME NEW p \in Procs, PutToken(p) PROVE (tokens \in [Jobs -> Procs \cup {None, Orphan}])'
  BY <1>2, <1>0 DEF PutToken, Goto, CallTypes, CallShapes, Procs
<1>3. ASSUME NEW p \in Procs, DropToken(p) PROVE (tokens \in [Jobs -> Procs \cup {None, Orphan}])'
  BY <1>3, <1>0 DEF DropToken, Goto, CallTypes, CallShapes, Procs
<1>4. ASSUME Restart PROVE (tokens \in [Jobs -> Procs \cup {None, Orphan}])'
  BY <1>4, <1>0 DEF Restart, CallTypes, CallShapes, Procs
<1>5. CASE UNCHANGED tokens
  BY <1>5, <1>0 DEF CallTypes, CallShapes, Procs
<1>35. ASSUME NEW c \in Clients, Abandon(c) PROVE (tokens \in [Jobs -> Procs \cup {None, Orphan}])'
  BY <1>35, <1>0 DEF Abandon, Return, CutOff
<1> QED
  BY <1>35, TokenFrame, <1>1, <1>2, <1>3, <1>4, <1>5

\* Only runs are cancelled.
LEMMA CancelStep ==
    ASSUME TypeOK, Next
    PROVE  (cancelled \subseteq Procs)'
<1>0. tokens \in [Jobs -> Procs \cup {None, Orphan}] /\ cancelled \subseteq Procs /\ CallShapes
  BY DEF TypeOK, RuntimeTypes
<1>1. ASSUME NEW p \in Procs, Save(p) PROVE (cancelled \subseteq Procs)'
  BY <1>1, <1>0 DEF Save, Return, WriteOk, WriteFails, CallShapes, Procs
<1>2. ASSUME NEW c \in Clients, Register(c) PROVE (cancelled \subseteq Procs)'
  BY <1>2, <1>0 DEF Register, Return, FreshTimers, CallShapes, Procs
<1>3. ASSUME NEW c \in Clients, Unmark(c) PROVE (cancelled \subseteq Procs)'
  BY <1>3, <1>0 DEF Unmark, Goto, Return, CallShapes, Procs
<1>4. ASSUME NEW t \in Ticks, CheckDue(t) PROVE (cancelled \subseteq Procs)'
  BY <1>4, <1>0 DEF CheckDue, Goto, Return, CallShapes, Procs
<1>5. ASSUME NEW p \in Procs, SaveStart(p) PROVE (cancelled \subseteq Procs)'
  BY <1>5, <1>0 DEF SaveStart, Goto, Return, WriteOk, WriteFails, CallShapes, Procs
<1>6. ASSUME NEW c \in Clients, ListReturns(c) PROVE (cancelled \subseteq Procs)'
  BY <1>6, <1>0 DEF ListReturns, Return, CallShapes, Procs
<1>7. ASSUME NEW c \in Clients, CancelToken(c) PROVE (cancelled \subseteq Procs)'
  BY <1>7, <1>0 DEF CancelToken, Goto, CallShapes, Procs
<1>8. ASSUME Restart PROVE (cancelled \subseteq Procs)'
  BY <1>8, <1>0 DEF Restart, CallShapes, Procs
<1>9. CASE UNCHANGED cancelled
  BY <1>9, <1>0 DEF CallShapes, Procs
<1>35. ASSUME NEW c \in Clients, Abandon(c) PROVE (cancelled \subseteq Procs)'
  BY <1>35, <1>0 DEF Abandon, Return, CutOff
<1> QED
  BY <1>35, CancelFrame, <1>1, <1>2, <1>3, <1>4, <1>5, <1>6, <1>7, <1>8, <1>9

\* The counters count.
LEMMA HistoryStep ==
    ASSUME TypeOK, Next
    PROVE  HistoryTypes'
<1>0. HistoryTypes /\ FileTypes /\ CallTypes /\ CallShapes
  BY DEF TypeOK
<1>1. ASSUME NEW p \in Procs, SaveStart(p) PROVE HistoryTypes'
  BY <1>1, <1>0 DEF SaveStart, Goto, Return, CutOff, WriteOk, WriteFails, HistoryTypes,
      CallTypes, CallShapes
<1>2. ASSUME NEW p \in Procs, Save(p) PROVE HistoryTypes'
  BY <1>2, <1>0 DEF Save, Return, WriteOk, WriteFails, HistoryTypes, CallTypes, CallShapes
<1>3. ASSUME Restart PROVE HistoryTypes'
  <2>1. disk.running \subseteq Jobs /\ Empty.running = {}
    BY <1>0, ListParts DEF FileTypes, Empty
  <2> QED
    BY <1>3, <1>0, <2>1 DEF Restart, HistoryTypes
<1>4. ASSUME OtherLoads PROVE HistoryTypes'
  BY <1>4, <1>0 DEF OtherLoads, HistoryTypes
<1>5. CASE UNCHANGED history
  BY <1>5, <1>0 DEF HistoryTypes
<1>35. ASSUME NEW c \in Clients, Abandon(c) PROVE HistoryTypes'
  BY <1>35, <1>0 DEF Abandon, Return, CutOff, HistoryTypes, CallTypes, CallShapes, Procs
<1> QED
  BY <1>35, HistoryFrame, <1>1, <1>2, <1>3, <1>4, <1>5

\* The file and the other process's copy of it stay lists of jobs.
LEMMA FileStep ==
    ASSUME TypeOK, Next
    PROVE  FileTypes'
<1>0. FileTypes /\ Image \in Lists
  BY DEF TypeOK, MemoryTypes
<1>1. ASSUME NEW p \in Procs, SaveStart(p) PROVE FileTypes'
  <2>1. /\ UNCHANGED external
        /\ \/ disk' = Image /\ readable' = TRUE
           \/ UNCHANGED file
           \/ disk' = Empty /\ readable' = FALSE
    BY <1>1 DEF SaveStart, WriteOk, WriteFails
  <2> QED
    BY <2>1, <1>0, EmptyList DEF FileTypes
<1>2. ASSUME NEW p \in Procs, Save(p) PROVE FileTypes'
  BY <1>2, <1>0, ListParts, ListCriterion, EmptyList, ClearedList DEF Save, Return,
      WriteOk, WriteFails, FileTypes
<1>3. ASSUME Restart PROVE FileTypes'
  <2>1. /\ readable' \in BOOLEAN
        /\ disk' \in {Cleared(disk), Cleared(Empty), disk, Empty}
    BY <1>3, <1>0 DEF Restart, FileTypes
  <2> QED
    BY <1>3, <1>0, <2>1, EmptyList, ClearedList DEF Restart, FileTypes
<1>4. ASSUME OtherLoads PROVE FileTypes'
  <2> DEFINE L == Loadable(disk)
              C == [j \in Jobs |-> IF j \in L THEN disk.cron[j] ELSE None]
  <2>1. L \subseteq disk.jobs
    BY DEF Loadable
  <2>2. other' = [jobs |-> L, paused |-> disk.paused \cap L, running |-> {}, cron |-> C]
    BY <1>4, <1>0 DEF OtherLoads, FileTypes, Lists, Cleared
  <2> HIDE DEF L
  <2>3. other' \in Lists
    BY <1>0, <2>1, <2>2, ListParts, ListCriterion DEF FileTypes
  <2> HIDE DEF C
  <2>4. other'.running = {}
    BY <2>2
  <2>5. disk' \in Lists
    BY <1>4, <1>0, ClearedList DEF OtherLoads, FileTypes
  <2> QED
    BY <1>4, <1>0, <2>3, <2>4, <2>5 DEF OtherLoads, FileTypes
<1>5. ASSUME NEW j \in Jobs, NEW cr \in Crons, OtherAdds(j, cr) PROVE FileTypes'
  <2>1. disk' = [jobs |-> other.jobs \cup {j}, paused |-> other.paused,
                 running |-> other.running, cron |-> [other.cron EXCEPT ![j] = cr]]
    BY <1>5, <1>0 DEF OtherAdds, FileTypes, Lists
  <2>2. disk' \in Lists
    BY <1>0, <2>1, ListParts, ListCriterion, CronsAssumption DEF FileTypes
  <2> QED
    BY <1>5, <1>0, <2>2, EmptyList DEF OtherAdds, FileTypes, Empty
<1>6. ASSUME NEW j \in Jobs, OtherRemoves(j) PROVE FileTypes'
  <2>1. disk' = [jobs |-> other.jobs \ {j}, paused |-> other.paused \ {j},
                 running |-> other.running, cron |-> [other.cron EXCEPT ![j] = None]]
    BY <1>6, <1>0 DEF OtherRemoves, FileTypes, Lists
  <2>2. disk' \in Lists
    BY <1>0, <2>1, ListParts, ListCriterion DEF FileTypes
  <2> QED
    BY <1>6, <1>0, <2>2, EmptyList DEF OtherRemoves, FileTypes, Empty
<1>7. CASE UNCHANGED <<file, external>>
  BY <1>7, <1>0, ListParts, ListCriterion, EmptyList, ClearedList DEF FileTypes
<1> QED
  BY FileFrame, <1>1, <1>2, <1>3, <1>4, <1>5, <1>6, <1>7

\* The local variables of callers and runs keep their types.
LEMMA CallStep ==
    ASSUME TypeOK, Next
    PROVE  CallTypes'
<1>0. CallTypes /\ CallShapes /\ MemoryParts /\ RuntimeTypes
  BY MemoryForms DEF TypeOK
<1>1. ASSUME NEW c \in Clients, NEW j \in Jobs, NEW cr \in Crons, Add(c, j, cr) PROVE CallTypes'
  BY <1>1, <1>0, OpsAssumption DEF Add, Call, CallTypes, CallShapes, Procs
<1>2. ASSUME NEW c \in Clients, NEW j \in Jobs, NEW cr \in Crons, Update(c, j, cr) PROVE CallTypes'
  BY <1>2, <1>0, OpsAssumption, MemoryForms DEF Update, Call, MemoryParts, CallTypes, CallShapes,
      Procs
<1>3. ASSUME NEW c \in Clients, NEW j \in Jobs, Remove(c, j) PROVE CallTypes'
  BY <1>3, <1>0, OpsAssumption DEF Remove, Call, Forget, MemoryParts, CallTypes, CallShapes, Procs
<1>4. ASSUME NEW c \in Clients, NEW j \in Jobs, Pause(c, j) PROVE CallTypes'
  BY <1>4, <1>0, OpsAssumption DEF Pause, Call, CallTypes, CallShapes, Procs
<1>5. ASSUME NEW c \in Clients, NEW j \in Jobs, Unpause(c, j) PROVE CallTypes'
  BY <1>5, <1>0, OpsAssumption DEF Unpause, Call, CallTypes, CallShapes, Procs
<1>6. ASSUME NEW c \in Clients, NEW j \in Jobs, Kill(c, j) PROVE CallTypes'
  BY <1>6, <1>0, OpsAssumption DEF Kill, Call, CallTypes, CallShapes, Procs
<1>7. ASSUME NEW c \in Clients, NEW j \in Jobs, RunNow(c, j) PROVE CallTypes'
  BY <1>7, <1>0, OpsAssumption DEF RunNow, Call, CallTypes, CallShapes, Procs
<1>8. ASSUME NEW c \in Clients, ListRead(c) PROVE CallTypes'
  BY <1>8, <1>0, OpsAssumption DEF ListRead, Call, CallTypes, CallShapes, Procs
<1>9. ASSUME NEW c \in Clients, Register(c) PROVE CallTypes'
  BY <1>9, <1>0, OpsAssumption DEF Register, Return, FreshTimers, CallTypes, CallShapes,
      Procs
<1>10. ASSUME NEW c \in Clients, Insert(c) PROVE CallTypes'
  BY <1>10, <1>0, OpsAssumption DEF Insert, Store, Goto, CallTypes, CallShapes, Procs
<1>11. ASSUME NEW c \in Clients, Unregister(c) PROVE CallTypes'
  BY <1>11, <1>0, OpsAssumption DEF Unregister, Goto, CallTypes, CallShapes, Procs
<1>12. ASSUME NEW c \in Clients, Replace(c) PROVE CallTypes'
  BY <1>12, <1>0, OpsAssumption DEF Replace, Goto, CallTypes, CallShapes, Procs
<1>13. ASSUME NEW c \in Clients, CancelToken(c) PROVE CallTypes'
  BY <1>13, <1>0, OpsAssumption DEF CancelToken, Goto, CallTypes, CallShapes, Procs
<1>14. ASSUME NEW c \in Clients, Unmark(c) PROVE CallTypes'
  BY <1>14, <1>0, OpsAssumption DEF Unmark, Goto, Return, CallTypes, CallShapes, Procs
<1>15. ASSUME NEW c \in Clients, ListCompare(c) PROVE CallTypes'
  BY <1>15, <1>0, OpsAssumption DEF ListCompare, Goto, CallTypes, CallShapes, Procs
<1>16. ASSUME NEW c \in Clients, NEW j \in Jobs, SyncRegister(c, j) PROVE CallTypes'
  BY <1>16, <1>0, OpsAssumption DEF SyncRegister, FreshTimers, CallTypes, CallShapes,
      Procs
<1>17. ASSUME NEW c \in Clients, SyncInsert(c) PROVE CallTypes'
  BY <1>17, <1>0, OpsAssumption DEF SyncInsert, Store, CallTypes, CallShapes, Procs
<1>18. ASSUME NEW c \in Clients, NEW j \in Jobs, NEW e \in Timers, SyncUnregister(c, j, e) PROVE CallTypes'
  BY <1>18, <1>0, OpsAssumption DEF SyncUnregister, CallTypes, CallShapes, Procs
<1>19. ASSUME NEW c \in Clients, SyncDrop(c) PROVE CallTypes'
  BY <1>19, <1>0, OpsAssumption DEF SyncDrop, Forget, CallTypes, CallShapes, Procs
<1>20. ASSUME NEW c \in Clients, ListReturns(c) PROVE CallTypes'
  BY <1>20, <1>0, OpsAssumption DEF ListReturns, Return, CallTypes, CallShapes, Procs
<1>21. ASSUME NEW t \in Ticks, NEW e \in Timers, Fire(t, e) PROVE CallTypes'
  <2>1. timer[e].job \in Jobs
    BY <1>21, <1>0 DEF Fire, RuntimeTypes
  <2> QED
    BY <1>21, <1>0, <2>1 DEF Fire, CallTypes, Procs
<1>22. ASSUME NEW t \in Ticks, CheckDue(t) PROVE CallTypes'
  BY <1>22, <1>0, OpsAssumption DEF CheckDue, Goto, Return, CallTypes, CallShapes, Procs
<1>23. ASSUME NEW t \in Ticks, Mark(t) PROVE CallTypes'
  BY <1>23, <1>0, OpsAssumption DEF Mark, Goto, CallTypes, CallShapes, Procs
<1>24. ASSUME NEW p \in Procs, SaveStart(p) PROVE CallTypes'
  BY <1>24, <1>0, OpsAssumption DEF SaveStart, Goto, Return, WriteOk, WriteFails,
      CallTypes, CallShapes, Procs
<1>25. ASSUME NEW p \in Procs, PutToken(p) PROVE CallTypes'
  BY <1>25, <1>0, OpsAssumption DEF PutToken, Goto, CallTypes, CallShapes, Procs
<1>26. ASSUME NEW p \in Procs, DropToken(p) PROVE CallTypes'
  BY <1>26, <1>0, OpsAssumption DEF DropToken, Goto, CallTypes, CallShapes, Procs
<1>27. ASSUME NEW p \in Procs, Finish(p) PROVE CallTypes'
  BY <1>27, <1>0, OpsAssumption DEF Finish, Goto, CallTypes, CallShapes, Procs
<1>28. ASSUME NEW p \in Procs, Save(p) PROVE CallTypes'
  BY <1>28, <1>0, OpsAssumption DEF Save, Return, WriteOk, WriteFails, CallTypes,
      CallShapes, Procs
<1>29. ASSUME NEW p \in Procs, ExecuteEnds(p) PROVE CallTypes'
  BY <1>29, <1>0, OpsAssumption DEF ExecuteEnds, Goto, CallTypes, CallShapes, Procs
<1>30. ASSUME Restart PROVE CallTypes'
  BY <1>30, <1>0, OpsAssumption DEF Restart, CallTypes, CallShapes, Procs
<1>31. CASE UNCHANGED calls
  BY <1>0, <1>31 DEF CallTypes
<1>35. ASSUME NEW c \in Clients, Abandon(c) PROVE CallTypes'
  BY <1>35, <1>0 DEF Abandon, Return, CutOff, CallTypes, CallShapes, Procs
<1> QED
  BY <1>35, Frames, <1>1, <1>2, <1>3, <1>4, <1>5, <1>6, <1>7, <1>8, <1>9, <1>10, <1>11, <1>12,
      <1>13, <1>14, <1>15, <1>16, <1>17, <1>18, <1>19, <1>20, <1>21, <1>22, <1>23,
      <1>24, <1>25, <1>26, <1>27, <1>28, <1>29, <1>30, <1>31 DEF Next, Request,
      ScheduleRecipe, Sync, ClientStep, RunStep

\* A call holds what its next step uses.
LEMMA ShapeStep ==
    ASSUME TypeOK, Next
    PROVE  CallShapes'
<1>0. CallTypes /\ CallShapes /\ MemoryParts /\ RuntimeTypes
  BY MemoryForms DEF TypeOK
<1>00. (\A o \in Ops : o # None) /\ "tick" # None
  BY OpsAssumption DEF AllOps, None
<1>1. ASSUME NEW c \in Clients, NEW j \in Jobs, NEW cr \in Crons, Add(c, j, cr) PROVE CallShapes'
  BY <1>1, <1>0, <1>00 DEF Add, Call, CallTypes, CallShapes, Procs
<1>2. ASSUME NEW c \in Clients, NEW j \in Jobs, NEW cr \in Crons, Update(c, j, cr) PROVE CallShapes'
  BY <1>2, <1>0, <1>00 DEF MemoryParts, Update, Call, CallTypes, CallShapes, Procs
<1>3. ASSUME NEW c \in Clients, NEW j \in Jobs, Remove(c, j) PROVE CallShapes'
  BY <1>3, <1>0, <1>00 DEF Remove, Call, Forget, MemoryParts, CallTypes, CallShapes, Procs
<1>4. ASSUME NEW c \in Clients, NEW j \in Jobs, Pause(c, j) PROVE CallShapes'
  BY <1>4, <1>0, <1>00 DEF Pause, Call, CallTypes, CallShapes, Procs
<1>5. ASSUME NEW c \in Clients, NEW j \in Jobs, Unpause(c, j) PROVE CallShapes'
  BY <1>5, <1>0, <1>00 DEF Unpause, Call, CallTypes, CallShapes, Procs
<1>6. ASSUME NEW c \in Clients, NEW j \in Jobs, Kill(c, j) PROVE CallShapes'
  BY <1>6, <1>0, <1>00 DEF Kill, Call, CallTypes, CallShapes, Procs
<1>7. ASSUME NEW c \in Clients, NEW j \in Jobs, RunNow(c, j) PROVE CallShapes'
  BY <1>7, <1>0, <1>00 DEF RunNow, Call, CallTypes, CallShapes, Procs
<1>8. ASSUME NEW c \in Clients, ListRead(c) PROVE CallShapes'
  BY <1>8, <1>0, <1>00 DEF ListRead, Call, CallTypes, CallShapes, Procs
<1>9. ASSUME NEW c \in Clients, Register(c) PROVE CallShapes'
  BY <1>9, <1>0 DEF Register, Return, FreshTimers, CallTypes, CallShapes, Procs
<1>10. ASSUME NEW c \in Clients, Insert(c) PROVE CallShapes'
  BY <1>10, <1>0 DEF Insert, Store, Goto, CallTypes, CallShapes, Procs
<1>11. ASSUME NEW c \in Clients, Unregister(c) PROVE CallShapes'
  BY <1>11, <1>0 DEF Unregister, Goto, CallTypes, CallShapes, Procs
<1>12. ASSUME NEW c \in Clients, Replace(c) PROVE CallShapes'
  BY <1>12, <1>0 DEF Replace, Goto, CallTypes, CallShapes, Procs
<1>13. ASSUME NEW c \in Clients, CancelToken(c) PROVE CallShapes'
  BY <1>13, <1>0 DEF CancelToken, Goto, CallTypes, CallShapes, Procs
<1>14. ASSUME NEW c \in Clients, Unmark(c) PROVE CallShapes'
  BY <1>14, <1>0 DEF Unmark, Goto, Return, CallTypes, CallShapes, Procs
<1>15. ASSUME NEW c \in Clients, ListCompare(c) PROVE CallShapes'
  BY <1>15, <1>0 DEF ListCompare, Goto, CallTypes, CallShapes, Procs
<1>16. ASSUME NEW c \in Clients, NEW j \in Jobs, SyncRegister(c, j) PROVE CallShapes'
  BY <1>16, <1>0 DEF SyncRegister, FreshTimers, CallTypes, CallShapes, Procs
<1>17. ASSUME NEW c \in Clients, SyncInsert(c) PROVE CallShapes'
  BY <1>17, <1>0 DEF SyncInsert, Store, CallTypes, CallShapes, Procs
<1>18. ASSUME NEW c \in Clients, NEW j \in Jobs, NEW e \in Timers, SyncUnregister(c, j, e) PROVE CallShapes'
  BY <1>18, <1>0 DEF SyncUnregister, CallTypes, CallShapes, Procs
<1>19. ASSUME NEW c \in Clients, SyncDrop(c) PROVE CallShapes'
  BY <1>19, <1>0 DEF SyncDrop, Forget, CallTypes, CallShapes, Procs
<1>20. ASSUME NEW c \in Clients, ListReturns(c) PROVE CallShapes'
  BY <1>20, <1>0 DEF ListReturns, Return, CallTypes, CallShapes, Procs
<1>21. ASSUME NEW t \in Ticks, NEW e \in Timers, Fire(t, e) PROVE CallShapes'
  <2>1. timer[e].job \in Jobs
    BY <1>21, <1>0 DEF Fire, RuntimeTypes
  <2> QED
    BY <1>21, <1>0, <1>00, <2>1, ProcsAssumption DEF Fire, CallTypes, CallShapes, Procs
<1>22. ASSUME NEW t \in Ticks, CheckDue(t) PROVE CallShapes'
  BY <1>22, <1>0 DEF CheckDue, Goto, Return, CallTypes, CallShapes, Procs
<1>23. ASSUME NEW t \in Ticks, Mark(t) PROVE CallShapes'
  BY <1>23, <1>0, ProcsAssumption DEF Mark, Goto, CallTypes, CallShapes, Procs
<1>24. ASSUME NEW p \in Procs, SaveStart(p) PROVE CallShapes'
  BY <1>24, <1>0 DEF SaveStart, Goto, Return, WriteOk, WriteFails, CallTypes,
      CallShapes, Procs
<1>25. ASSUME NEW p \in Procs, PutToken(p) PROVE CallShapes'
  BY <1>25, <1>0 DEF PutToken, Goto, CallTypes, CallShapes, Procs
<1>26. ASSUME NEW p \in Procs, DropToken(p) PROVE CallShapes'
  BY <1>26, <1>0 DEF DropToken, Goto, CallTypes, CallShapes, Procs
<1>27. ASSUME NEW p \in Procs, Finish(p) PROVE CallShapes'
  BY <1>27, <1>0 DEF Finish, Goto, CallTypes, CallShapes, Procs
<1>28. ASSUME NEW p \in Procs, Save(p) PROVE CallShapes'
  BY <1>28, <1>0 DEF Save, Return, WriteOk, WriteFails, CallTypes, CallShapes, Procs
<1>29. ASSUME NEW p \in Procs, ExecuteEnds(p) PROVE CallShapes'
  BY <1>29, <1>0 DEF ExecuteEnds, Goto, CallTypes, CallShapes, Procs
<1>30. ASSUME Restart PROVE CallShapes'
  BY <1>30, <1>0 DEF Restart, CallTypes, CallShapes, Procs
<1>31. CASE UNCHANGED calls
  BY <1>0, <1>31 DEF CallShapes
<1>35. ASSUME NEW c \in Clients, Abandon(c) PROVE CallShapes'
  BY <1>35, <1>0 DEF Abandon, Return, CutOff, CallTypes, CallShapes, Procs
<1> QED
  BY <1>35, Frames, <1>1, <1>2, <1>3, <1>4, <1>5, <1>6, <1>7, <1>8, <1>9, <1>10, <1>11, <1>12,
      <1>13, <1>14, <1>15, <1>16, <1>17, <1>18, <1>19, <1>20, <1>21, <1>22, <1>23,
      <1>24, <1>25, <1>26, <1>27, <1>28, <1>29, <1>30, <1>31 DEF Next, Request,
      ScheduleRecipe, Sync, ClientStep, RunStep

\* A sync adds jobs of the list it read.
LEMMA SyncStep ==
    ASSUME TypeOK, Next
    PROVE  SyncTypes'
<1>0. SyncTypes /\ CallTypes /\ CallShapes /\ MemoryParts /\ FileTypes
  BY MemoryForms DEF TypeOK
<1>1. ASSUME NEW c \in Clients, NEW j \in Jobs, NEW cr \in Crons, Add(c, j, cr) PROVE SyncTypes'
  BY <1>1, <1>0 DEF Add, Call, SyncTypes, CallTypes, Procs
<1>2. ASSUME NEW c \in Clients, NEW j \in Jobs, NEW cr \in Crons, Update(c, j, cr) PROVE SyncTypes'
  BY <1>2, <1>0 DEF Update, Call, SyncTypes, CallTypes, Procs
<1>3. ASSUME NEW c \in Clients, NEW j \in Jobs, Remove(c, j) PROVE SyncTypes'
  BY <1>3, <1>0 DEF Remove, Call, Forget, SyncTypes, CallTypes, Procs
<1>4. ASSUME NEW c \in Clients, NEW j \in Jobs, Pause(c, j) PROVE SyncTypes'
  BY <1>4, <1>0 DEF Pause, Call, SyncTypes, CallTypes, Procs
<1>5. ASSUME NEW c \in Clients, NEW j \in Jobs, Unpause(c, j) PROVE SyncTypes'
  BY <1>5, <1>0 DEF Unpause, Call, SyncTypes, CallTypes, Procs
<1>6. ASSUME NEW c \in Clients, NEW j \in Jobs, Kill(c, j) PROVE SyncTypes'
  BY <1>6, <1>0 DEF Kill, Call, SyncTypes, CallTypes, Procs
<1>7. ASSUME NEW c \in Clients, NEW j \in Jobs, RunNow(c, j) PROVE SyncTypes'
  BY <1>7, <1>0 DEF RunNow, Call, SyncTypes, CallTypes, Procs
<1>8. ASSUME NEW c \in Clients, ListRead(c) PROVE SyncTypes'
  BY <1>8, <1>0 DEF FileTypes, ListRead, Call, SyncTypes, CallTypes, Procs
<1>9. ASSUME NEW c \in Clients, Register(c) PROVE SyncTypes'
  BY <1>9, <1>0 DEF Register, Return, FreshTimers, SyncTypes, CallTypes, Procs
<1>10. ASSUME NEW c \in Clients, Insert(c) PROVE SyncTypes'
  BY <1>10, <1>0 DEF Insert, Store, Goto, SyncTypes, CallTypes, Procs
<1>11. ASSUME NEW c \in Clients, Unregister(c) PROVE SyncTypes'
  BY <1>11, <1>0 DEF Unregister, Goto, SyncTypes, CallTypes, Procs
<1>12. ASSUME NEW c \in Clients, Replace(c) PROVE SyncTypes'
  BY <1>12, <1>0 DEF Replace, Goto, SyncTypes, CallTypes, Procs
<1>13. ASSUME NEW c \in Clients, CancelToken(c) PROVE SyncTypes'
  BY <1>13, <1>0 DEF CancelToken, Goto, SyncTypes, CallTypes, Procs
<1>14. ASSUME NEW c \in Clients, Unmark(c) PROVE SyncTypes'
  BY <1>14, <1>0 DEF Unmark, Goto, Return, SyncTypes, CallTypes, Procs
<1>15. ASSUME NEW c \in Clients, ListCompare(c) PROVE SyncTypes'
  <2> DEFINE D == {<<j, uuid[j]>> : j \in jobs \ (snap[c].jobs \cup running)}
  <2>1. \A j \in jobs : j \in Jobs /\ uuid[j] \in Timers
    BY <1>0 DEF MemoryParts
  <2>2. D \in SUBSET (Jobs \X Timers)
    BY <2>1
  <2>3. drops' = [drops EXCEPT ![c] = D]
    BY <1>15 DEF ListCompare
  <2> HIDE DEF D
  <2>4. Loadable(snap[c]) \in SUBSET Jobs
    BY <1>0, ListParts DEF SyncTypes, Loadable
  <2> QED
    BY <1>15, <1>0, <2>2, <2>3, <2>4 DEF ListCompare, Goto, SyncTypes, CallTypes, Procs
<1>16. ASSUME NEW c \in Clients, NEW j \in Jobs, SyncRegister(c, j) PROVE SyncTypes'
  BY <1>16, <1>0 DEF SyncRegister, FreshTimers, SyncTypes, CallTypes, Procs
<1>17. ASSUME NEW c \in Clients, SyncInsert(c) PROVE SyncTypes'
  BY <1>17, <1>0 DEF SyncInsert, Store, SyncTypes, CallTypes, Procs
<1>18. ASSUME NEW c \in Clients, NEW j \in Jobs, NEW e \in Timers, SyncUnregister(c, j, e) PROVE SyncTypes'
  BY <1>18, <1>0 DEF SyncUnregister, SyncTypes, CallTypes, Procs
<1>19. ASSUME NEW c \in Clients, SyncDrop(c) PROVE SyncTypes'
  BY <1>19, <1>0 DEF SyncDrop, Forget, SyncTypes, CallTypes, Procs
<1>20. ASSUME NEW c \in Clients, ListReturns(c) PROVE SyncTypes'
  BY <1>20, <1>0, EmptyList DEF ListReturns, Return, SyncTypes, CallTypes, Procs
<1>21. ASSUME NEW t \in Ticks, NEW e \in Timers, Fire(t, e) PROVE SyncTypes'
  BY <1>21, <1>0 DEF Fire, SyncTypes, CallTypes, Procs
<1>22. ASSUME NEW t \in Ticks, CheckDue(t) PROVE SyncTypes'
  BY <1>22, <1>0 DEF CheckDue, Goto, Return, SyncTypes, CallTypes, Procs
<1>23. ASSUME NEW t \in Ticks, Mark(t) PROVE SyncTypes'
  BY <1>23, <1>0 DEF Mark, Goto, SyncTypes, CallTypes, Procs
<1>24. ASSUME NEW p \in Procs, SaveStart(p) PROVE SyncTypes'
  BY <1>24, <1>0 DEF SaveStart, Goto, Return, WriteOk, WriteFails, SyncTypes, CallTypes,
      Procs
<1>25. ASSUME NEW p \in Procs, PutToken(p) PROVE SyncTypes'
  BY <1>25, <1>0 DEF PutToken, Goto, SyncTypes, CallTypes, Procs
<1>26. ASSUME NEW p \in Procs, DropToken(p) PROVE SyncTypes'
  BY <1>26, <1>0 DEF DropToken, Goto, SyncTypes, CallTypes, Procs
<1>27. ASSUME NEW p \in Procs, Finish(p) PROVE SyncTypes'
  BY <1>27, <1>0 DEF Finish, Goto, SyncTypes, CallTypes, Procs
<1>28. ASSUME NEW p \in Procs, Save(p) PROVE SyncTypes'
  BY <1>28, <1>0 DEF Save, Return, WriteOk, WriteFails, SyncTypes, CallTypes, Procs
<1>29. ASSUME NEW p \in Procs, ExecuteEnds(p) PROVE SyncTypes'
  BY <1>29, <1>0 DEF ExecuteEnds, Goto, SyncTypes, CallTypes, Procs
<1>30. ASSUME Restart PROVE SyncTypes'
  BY <1>30, <1>0, EmptyList DEF Restart, SyncTypes, CallTypes, Procs
<1>31. CASE UNCHANGED <<calls, syncs>>
  BY <1>0, <1>31 DEF SyncTypes
<1>35. ASSUME NEW c \in Clients, Abandon(c) PROVE SyncTypes'
  BY <1>35, <1>0, EmptyList DEF Abandon, Return, SyncTypes, CallTypes, Procs
<1> QED
  BY <1>35, Frames, <1>1, <1>2, <1>3, <1>4, <1>5, <1>6, <1>7, <1>8, <1>9, <1>10, <1>11, <1>12,
      <1>13, <1>14, <1>15, <1>16, <1>17, <1>18, <1>19, <1>20, <1>21, <1>22, <1>23,
      <1>24, <1>25, <1>26, <1>27, <1>28, <1>29, <1>30, <1>31 DEF Next, Request,
      ScheduleRecipe, Sync, ClientStep, RunStep

\* The type invariant is kept.
LEMMA TypeStep ==
    ASSUME TypeOK, [Next]_vars
    PROVE  TypeOK'
<1>1. CASE Next
  BY <1>1, MemoryStep, TimerStep, TokenStep, CancelStep, FileStep, CallStep, ShapeStep, SyncStep,
      HistoryStep DEF TypeOK, RuntimeTypes
<1>2. CASE UNCHANGED vars
  <2>1. MemoryTypes' /\ RuntimeTypes' /\ FileTypes'
    BY <1>2 DEF TypeOK, MemoryTypes, RuntimeTypes, FileTypes, Image
  <2>2. CallTypes' /\ CallShapes' /\ SyncTypes' /\ HistoryTypes'
    BY <1>2 DEF TypeOK, CallTypes, CallShapes, SyncTypes, HistoryTypes, Loadable
  <2> QED
    BY <2>1, <2>2 DEF TypeOK
<1> QED
  BY <1>1, <1>2

\* Every state an empty file starts from has its types.
LEMMA TypeInit == Init => TypeOK
<1> SUFFICES ASSUME Init PROVE TypeOK
  OBVIOUS
<1>1. MemoryTypes
  BY MemoryForms DEF Init, MemoryParts
<1>2. RuntimeTypes /\ CallTypes /\ CallShapes /\ HistoryTypes
  BY DEF Init, RuntimeTypes, CallTypes, CallShapes, HistoryTypes
<1>3. Empty.running = {}
  BY DEF Empty
<1>4. FileTypes
  BY <1>3, EmptyList DEF Init, FileTypes
<1>5. SyncTypes
  BY EmptyList DEF Init, SyncTypes, Procs
<1> QED
  BY <1>1, <1>2, <1>4, <1>5 DEF TypeOK

-----------------------------------------------------------------------------
(* Tokens, running marks and the file.                                     *)

\* Nobody forgets a call that ended half way, except a restart.
LEMMA CutOffGrows ==
    ASSUME cutOff \subseteq cutOff'
    PROVE  \A ops, j : CutOffIn(ops, j) => CutOffIn(ops, j)'
  BY DEF CutOffIn

\* A call that ends half way is remembered under its operation and its job.
LEMMA CutOffNow ==
    ASSUME NEW p, CutOff(p)
    PROVE  /\ cutOff \subseteq cutOff'
           /\ \A ops, j : j \in Jobs /\ job[p] = j /\ op[p] \in ops => CutOffIn(ops, j)'
  BY JobsAssumption DEF CutOff, CutOffIn

\* The first write of a run succeeds or fails.
LEMMA SaveStarts ==
    ASSUME NEW p, SaveStart(p)
    PROVE  /\ pc[p] = "save_start" /\ UNCHANGED <<memory, tokens>>
           /\ \/ Goto(p, "token") /\ cutOff' = cutOff
              \/ Return(p) /\ CutOff(p) /\ op[p] = "run_now"
  BY DEF SaveStart, WriteOk, WriteFails

\* The table keeps holding tokens of runs in progress only.
LEMMA TokensStep ==
    ASSUME TypeOK, TokensAreLive, [Next]_vars
    PROVE  TokensAreLive'
<1>0. TokensAreLive /\ CallTypes /\ CallShapes /\ RuntimeTypes
  BY DEF TypeOK
<1>1. ASSUME NEW c \in Clients, NEW j \in Jobs, NEW cr \in Crons, Add(c, j, cr) PROVE TokensAreLive'
  BY <1>1, <1>0, CutOffGrows DEF Add, Call, TokensAreLive, CallTypes, CallShapes, RuntimeTypes, Procs
<1>2. ASSUME NEW c \in Clients, NEW j \in Jobs, NEW cr \in Crons, Update(c, j, cr) PROVE TokensAreLive'
  BY <1>2, <1>0, CutOffGrows DEF Update, Call, TokensAreLive, CallTypes, CallShapes, RuntimeTypes,
      Procs
<1>3. ASSUME NEW c \in Clients, NEW j \in Jobs, Remove(c, j) PROVE TokensAreLive'
  BY <1>3, <1>0, CutOffGrows DEF Remove, Call, Forget, TokensAreLive, CallTypes, CallShapes,
      RuntimeTypes, Procs
<1>4. ASSUME NEW c \in Clients, NEW j \in Jobs, Pause(c, j) PROVE TokensAreLive'
  BY <1>4, <1>0, CutOffGrows DEF Pause, Call, TokensAreLive, CallTypes, CallShapes, RuntimeTypes,
      Procs
<1>5. ASSUME NEW c \in Clients, NEW j \in Jobs, Unpause(c, j) PROVE TokensAreLive'
  BY <1>5, <1>0, CutOffGrows DEF Unpause, Call, TokensAreLive, CallTypes, CallShapes, RuntimeTypes,
      Procs
<1>6. ASSUME NEW c \in Clients, NEW j \in Jobs, Kill(c, j) PROVE TokensAreLive'
  BY <1>6, <1>0, CutOffGrows DEF Kill, Call, TokensAreLive, CallTypes, CallShapes, RuntimeTypes,
      Procs
<1>7. ASSUME NEW c \in Clients, NEW j \in Jobs, RunNow(c, j) PROVE TokensAreLive'
  BY <1>7, <1>0, CutOffGrows DEF RunNow, Call, TokensAreLive, CallTypes, CallShapes, RuntimeTypes,
      Procs
<1>8. ASSUME NEW c \in Clients, ListRead(c) PROVE TokensAreLive'
  BY <1>8, <1>0, CutOffGrows DEF ListRead, Call, TokensAreLive, CallTypes, CallShapes, RuntimeTypes,
      Procs
<1>9. ASSUME NEW c \in Clients, Register(c) PROVE TokensAreLive'
  BY <1>9, <1>0, CutOffGrows DEF Register, Return, TokensAreLive, CallTypes, CallShapes,
      RuntimeTypes, Procs
<1>10. ASSUME NEW c \in Clients, Insert(c) PROVE TokensAreLive'
  BY <1>10, <1>0, CutOffGrows DEF Insert, Store, Goto, TokensAreLive, CallTypes, CallShapes,
      RuntimeTypes, Procs
<1>11. ASSUME NEW c \in Clients, Unregister(c) PROVE TokensAreLive'
  BY <1>11, <1>0, CutOffGrows DEF Unregister, Goto, TokensAreLive, CallTypes, CallShapes,
      RuntimeTypes, Procs
<1>12. ASSUME NEW c \in Clients, Replace(c) PROVE TokensAreLive'
  BY <1>12, <1>0, CutOffGrows DEF Replace, Goto, TokensAreLive, CallTypes, CallShapes, RuntimeTypes,
      Procs
<1>13. ASSUME NEW c \in Clients, CancelToken(c) PROVE TokensAreLive'
  BY CutOffGrows, <1>13, <1>0 DEF CancelToken, Goto, TokensAreLive, CallTypes, CallShapes,
      RuntimeTypes, Procs
<1>14. ASSUME NEW c \in Clients, Unmark(c) PROVE TokensAreLive'
  BY CutOffGrows, <1>14, <1>0 DEF Unmark, Goto, Return, TokensAreLive, CallTypes, CallShapes,
      RuntimeTypes, Procs
<1>15. ASSUME NEW c \in Clients, ListCompare(c) PROVE TokensAreLive'
  BY <1>15, <1>0, CutOffGrows DEF ListCompare, Goto, TokensAreLive, CallTypes, CallShapes,
      RuntimeTypes, Procs
<1>16. ASSUME NEW c \in Clients, NEW j \in Jobs, SyncRegister(c, j) PROVE TokensAreLive'
  BY <1>16, <1>0, CutOffGrows DEF SyncRegister, FreshTimers, TokensAreLive, CallTypes, CallShapes,
      RuntimeTypes, Procs
<1>17. ASSUME NEW c \in Clients, SyncInsert(c) PROVE TokensAreLive'
  BY <1>17, <1>0, CutOffGrows DEF SyncInsert, Store, TokensAreLive, CallTypes, CallShapes,
      RuntimeTypes, Procs
<1>18. ASSUME NEW c \in Clients, NEW j \in Jobs, NEW e \in Timers, SyncUnregister(c, j, e) PROVE TokensAreLive'
  BY <1>18, <1>0, CutOffGrows DEF SyncUnregister, TokensAreLive, CallTypes, CallShapes, RuntimeTypes,
      Procs
<1>19. ASSUME NEW c \in Clients, SyncDrop(c) PROVE TokensAreLive'
  BY <1>19, <1>0, CutOffGrows DEF SyncDrop, Forget, TokensAreLive, CallTypes, CallShapes,
      RuntimeTypes, Procs
<1>20. ASSUME NEW c \in Clients, ListReturns(c) PROVE TokensAreLive'
  BY <1>20, <1>0, CutOffGrows DEF ListReturns, Return, TokensAreLive, CallTypes, CallShapes,
      RuntimeTypes, Procs
<1>21. ASSUME NEW t \in Ticks, NEW e \in Timers, Fire(t, e) PROVE TokensAreLive'
  BY <1>21, <1>0, CutOffGrows DEF Fire, TokensAreLive, CallTypes, CallShapes, RuntimeTypes, Procs
<1>22. ASSUME NEW t \in Ticks, CheckDue(t) PROVE TokensAreLive'
  BY CutOffGrows, <1>22, <1>0 DEF CheckDue, Goto, Return, TokensAreLive, CallTypes, CallShapes,
      RuntimeTypes, Procs
<1>23. ASSUME NEW t \in Ticks, Mark(t) PROVE TokensAreLive'
  BY <1>23, <1>0, CutOffGrows DEF Mark, Goto, TokensAreLive, CallTypes, CallShapes, RuntimeTypes,
      Procs
<1>24. ASSUME NEW p \in Procs, SaveStart(p) PROVE TokensAreLive'
  <2>1. /\ cutOff \subseteq cutOff' /\ tokens' = tokens /\ pc[p] = "save_start"
        /\ \A q \in Procs \ {p} : pc'[q] = pc[q] /\ job'[q] = job[q]
    BY <1>24, <1>0, SaveStarts, CutOffNow DEF Goto, Return, CallTypes
  <2> QED
    BY <2>1, <1>0, CutOffGrows DEF TokensAreLive
<1>25. ASSUME NEW p \in Procs, PutToken(p) PROVE TokensAreLive'
  BY CutOffGrows, <1>25, <1>0 DEF PutToken, Goto, TokensAreLive, CallTypes, CallShapes, RuntimeTypes,
      Procs
<1>26. ASSUME NEW p \in Procs, DropToken(p) PROVE TokensAreLive'
  BY CutOffGrows, <1>26, <1>0 DEF DropToken, Goto, TokensAreLive, CallTypes, CallShapes,
      RuntimeTypes, Procs
<1>27. ASSUME NEW p \in Procs, Finish(p) PROVE TokensAreLive'
  BY <1>27, <1>0, CutOffGrows DEF Finish, Goto, TokensAreLive, CallTypes, CallShapes, RuntimeTypes,
      Procs
<1>28. ASSUME NEW p \in Procs, Save(p) PROVE TokensAreLive'
  BY <1>28, <1>0, CutOffGrows DEF Save, Return, WriteOk, WriteFails, TokensAreLive, CallTypes,
      CallShapes, RuntimeTypes, Procs
<1>29. ASSUME NEW p \in Procs, ExecuteEnds(p) PROVE TokensAreLive'
  BY <1>29, <1>0, CutOffGrows DEF ExecuteEnds, Goto, TokensAreLive, CallTypes, CallShapes,
      RuntimeTypes, Procs
<1>30. ASSUME Restart PROVE TokensAreLive'
  BY <1>30, <1>0 DEF Restart, TokensAreLive, CutOffIn, CallTypes, CallShapes, RuntimeTypes, Procs
<1>31. ASSUME OtherLoads PROVE TokensAreLive'
  BY <1>31, <1>0, CutOffGrows DEF OtherLoads, TokensAreLive, CallTypes, CallShapes, RuntimeTypes,
      Procs
<1>32. ASSUME NEW j \in Jobs, NEW cr \in Crons, OtherAdds(j, cr) PROVE TokensAreLive'
  BY <1>32, <1>0, CutOffGrows DEF OtherAdds, TokensAreLive, CallTypes, CallShapes, RuntimeTypes,
      Procs
<1>33. ASSUME NEW j \in Jobs, OtherRemoves(j) PROVE TokensAreLive'
  BY <1>33, <1>0, CutOffGrows DEF OtherRemoves, TokensAreLive, CallTypes, CallShapes, RuntimeTypes,
      Procs
<1>34. CASE UNCHANGED vars
  BY <1>34, <1>0, CutOffGrows DEF TokensAreLive, CallTypes, CallShapes, RuntimeTypes, Procs
<1>35. ASSUME NEW c \in Clients, Abandon(c) PROVE TokensAreLive'
  <2>1. /\ cutOff \subseteq cutOff'
        /\ \A j \in Jobs : tokens'[j] = IF tokens[j] = c THEN Orphan ELSE tokens[j]
        /\ \A q \in Procs \ {c} : pc'[q] = pc[q] /\ job'[q] = job[q]
    BY <1>35, <1>0, CutOffNow DEF Abandon, Return, CallTypes
  <2>2. ASSUME NEW j \in Jobs, tokens[j] = c
        PROVE  CutOffIn({"run_now"}, j)'
    <3>1. job[c] = j /\ op[c] = "run_now"
      BY <2>2, <1>0, ProcsAssumption DEF TokensAreLive, CallShapes, Procs
    <3> QED
      BY <3>1, <1>35, CutOffNow DEF Abandon
  <2> QED
    BY <2>1, <2>2, <1>0, CutOffGrows, ProcsAssumption DEF TokensAreLive, Procs
<1> QED
  BY <1>35, <1>1, <1>2, <1>3, <1>4, <1>5, <1>6, <1>7, <1>8, <1>9, <1>10, <1>11, <1>12, <1>13,
      <1>14, <1>15, <1>16, <1>17, <1>18, <1>19, <1>20, <1>21, <1>22, <1>23, <1>24,
      <1>25, <1>26, <1>27, <1>28, <1>29, <1>30, <1>31, <1>32, <1>33, <1>34 DEF Next,
      Request, ScheduleRecipe, Sync, ClientStep, RunStep

\* Only callers of list are in a sync.
NoStraySync ==
    /\ \A p \in Procs : pc[p] \in {"compare", "sync", "sync_insert", "sync_drop"} => "list" \in Ops
    /\ otherLoaded => others # 0

\* A sync needs a list.
LEMMA NoStraySyncStep ==
    ASSUME TypeOK, NoStraySync, [Next]_vars
    PROVE  NoStraySync'
<1>0. NoStraySync /\ CallTypes /\ HistoryTypes
  BY DEF TypeOK
<1>1. ASSUME NEW c \in Clients, NEW j \in Jobs, NEW cr \in Crons, Add(c, j, cr) PROVE NoStraySync'
  BY <1>1, <1>0 DEF Add, Call, NoStraySync, CallTypes, HistoryTypes, Procs
<1>2. ASSUME NEW c \in Clients, NEW j \in Jobs, NEW cr \in Crons, Update(c, j, cr) PROVE NoStraySync'
  BY <1>2, <1>0 DEF Update, Call, NoStraySync, CallTypes, HistoryTypes, Procs
<1>3. ASSUME NEW c \in Clients, NEW j \in Jobs, Remove(c, j) PROVE NoStraySync'
  BY <1>3, <1>0 DEF Remove, Call, Forget, NoStraySync, CallTypes, HistoryTypes, Procs
<1>4. ASSUME NEW c \in Clients, NEW j \in Jobs, Pause(c, j) PROVE NoStraySync'
  BY <1>4, <1>0 DEF Pause, Call, NoStraySync, CallTypes, HistoryTypes, Procs
<1>5. ASSUME NEW c \in Clients, NEW j \in Jobs, Unpause(c, j) PROVE NoStraySync'
  BY <1>5, <1>0 DEF Unpause, Call, NoStraySync, CallTypes, HistoryTypes, Procs
<1>6. ASSUME NEW c \in Clients, NEW j \in Jobs, Kill(c, j) PROVE NoStraySync'
  BY <1>6, <1>0 DEF Kill, Call, NoStraySync, CallTypes, HistoryTypes, Procs
<1>7. ASSUME NEW c \in Clients, NEW j \in Jobs, RunNow(c, j) PROVE NoStraySync'
  BY <1>7, <1>0 DEF RunNow, Call, NoStraySync, CallTypes, HistoryTypes, Procs
<1>8. ASSUME NEW c \in Clients, ListRead(c) PROVE NoStraySync'
  BY <1>8, <1>0 DEF ListRead, Call, NoStraySync, CallTypes, HistoryTypes, Procs
<1>9. ASSUME NEW c \in Clients, Register(c) PROVE NoStraySync'
  BY <1>9, <1>0 DEF Register, Return, FreshTimers, NoStraySync, CallTypes, HistoryTypes,
      Procs
<1>10. ASSUME NEW c \in Clients, Insert(c) PROVE NoStraySync'
  BY <1>10, <1>0 DEF Insert, Store, Goto, NoStraySync, CallTypes, HistoryTypes, Procs
<1>11. ASSUME NEW c \in Clients, Unregister(c) PROVE NoStraySync'
  BY <1>11, <1>0 DEF Unregister, Goto, NoStraySync, CallTypes, HistoryTypes, Procs
<1>12. ASSUME NEW c \in Clients, Replace(c) PROVE NoStraySync'
  BY <1>12, <1>0 DEF Replace, Goto, NoStraySync, CallTypes, HistoryTypes, Procs
<1>13. ASSUME NEW c \in Clients, CancelToken(c) PROVE NoStraySync'
  BY <1>13, <1>0 DEF CancelToken, Goto, NoStraySync, CallTypes, HistoryTypes, Procs
<1>14. ASSUME NEW c \in Clients, Unmark(c) PROVE NoStraySync'
  BY <1>14, <1>0 DEF Unmark, Goto, Return, NoStraySync, CallTypes, HistoryTypes, Procs
<1>15. ASSUME NEW c \in Clients, ListCompare(c) PROVE NoStraySync'
  BY <1>15, <1>0 DEF ListCompare, Goto, NoStraySync, CallTypes, HistoryTypes, Procs
<1>16. ASSUME NEW c \in Clients, NEW j \in Jobs, SyncRegister(c, j) PROVE NoStraySync'
  BY <1>16, <1>0 DEF SyncRegister, FreshTimers, NoStraySync, CallTypes, HistoryTypes,
      Procs
<1>17. ASSUME NEW c \in Clients, SyncInsert(c) PROVE NoStraySync'
  BY <1>17, <1>0 DEF SyncInsert, Store, NoStraySync, CallTypes, HistoryTypes, Procs
<1>18. ASSUME NEW c \in Clients, NEW j \in Jobs, NEW e \in Timers, SyncUnregister(c, j, e) PROVE NoStraySync'
  BY <1>18, <1>0 DEF SyncUnregister, NoStraySync, CallTypes, HistoryTypes, Procs
<1>19. ASSUME NEW c \in Clients, SyncDrop(c) PROVE NoStraySync'
  BY <1>19, <1>0 DEF SyncDrop, Forget, NoStraySync, CallTypes, HistoryTypes, Procs
<1>20. ASSUME NEW c \in Clients, ListReturns(c) PROVE NoStraySync'
  BY <1>20, <1>0 DEF ListReturns, Return, NoStraySync, CallTypes, HistoryTypes, Procs
<1>21. ASSUME NEW t \in Ticks, NEW e \in Timers, Fire(t, e) PROVE NoStraySync'
  BY <1>21, <1>0 DEF Fire, NoStraySync, CallTypes, HistoryTypes, Procs
<1>22. ASSUME NEW t \in Ticks, CheckDue(t) PROVE NoStraySync'
  BY <1>22, <1>0 DEF CheckDue, Goto, Return, NoStraySync, CallTypes, HistoryTypes, Procs
<1>23. ASSUME NEW t \in Ticks, Mark(t) PROVE NoStraySync'
  BY <1>23, <1>0 DEF Mark, Goto, NoStraySync, CallTypes, HistoryTypes, Procs
<1>24. ASSUME NEW p \in Procs, SaveStart(p) PROVE NoStraySync'
  BY <1>24, <1>0 DEF SaveStart, Goto, Return, WriteOk, WriteFails, NoStraySync,
      CallTypes, HistoryTypes, Procs
<1>25. ASSUME NEW p \in Procs, PutToken(p) PROVE NoStraySync'
  BY <1>25, <1>0 DEF PutToken, Goto, NoStraySync, CallTypes, HistoryTypes, Procs
<1>26. ASSUME NEW p \in Procs, DropToken(p) PROVE NoStraySync'
  BY <1>26, <1>0 DEF DropToken, Goto, NoStraySync, CallTypes, HistoryTypes, Procs
<1>27. ASSUME NEW p \in Procs, Finish(p) PROVE NoStraySync'
  BY <1>27, <1>0 DEF Finish, Goto, NoStraySync, CallTypes, HistoryTypes, Procs
<1>28. ASSUME NEW p \in Procs, Save(p) PROVE NoStraySync'
  BY <1>28, <1>0 DEF Save, Return, WriteOk, WriteFails, NoStraySync, CallTypes,
      HistoryTypes, Procs
<1>29. ASSUME NEW p \in Procs, ExecuteEnds(p) PROVE NoStraySync'
  BY <1>29, <1>0 DEF ExecuteEnds, Goto, NoStraySync, CallTypes, HistoryTypes, Procs
<1>30. ASSUME Restart PROVE NoStraySync'
  BY <1>30, <1>0 DEF Restart, NoStraySync, CallTypes, HistoryTypes, Procs
<1>31. ASSUME OtherLoads PROVE NoStraySync'
  BY <1>31, <1>0 DEF OtherLoads, NoStraySync, CallTypes, HistoryTypes, Procs
<1>32. ASSUME NEW j \in Jobs, NEW cr \in Crons, OtherAdds(j, cr) PROVE NoStraySync'
  BY <1>32, <1>0 DEF OtherAdds, NoStraySync, CallTypes, HistoryTypes, Procs
<1>33. ASSUME NEW j \in Jobs, OtherRemoves(j) PROVE NoStraySync'
  BY <1>33, <1>0 DEF OtherRemoves, NoStraySync, CallTypes, HistoryTypes, Procs
<1>34. CASE UNCHANGED vars
  BY <1>34, <1>0 DEF NoStraySync, CallTypes, HistoryTypes, Procs
<1>35. ASSUME NEW c \in Clients, Abandon(c) PROVE NoStraySync'
  BY <1>35, <1>0 DEF Abandon, Return, CutOff, NoStraySync, CallTypes, HistoryTypes, Procs
<1> QED
  BY <1>35, <1>1, <1>2, <1>3, <1>4, <1>5, <1>6, <1>7, <1>8, <1>9, <1>10, <1>11, <1>12, <1>13,
      <1>14, <1>15, <1>16, <1>17, <1>18, <1>19, <1>20, <1>21, <1>22, <1>23, <1>24,
      <1>25, <1>26, <1>27, <1>28, <1>29, <1>30, <1>31, <1>32, <1>33, <1>34 DEF Next,
      Request, ScheduleRecipe, Sync, ClientStep, RunStep

\* A running mark keeps its run.
LEMMA BackedStep ==
    ASSUME TypeOK, NoStraySync, RunningIsBacked, [Next]_vars
    PROVE  RunningIsBacked'
<1>0. RunningIsBacked /\ NoStraySync /\ CallTypes /\ CallShapes /\ HistoryTypes
  BY DEF TypeOK
<1>1. ASSUME NEW c \in Clients, NEW j \in Jobs, NEW cr \in Crons, Add(c, j, cr) PROVE RunningIsBacked'
  BY <1>1, <1>0, CutOffGrows DEF Add, Call, RunningIsBacked, Started, NoStraySync, CallTypes,
      CallShapes, HistoryTypes, Procs
<1>2. ASSUME NEW c \in Clients, NEW j \in Jobs, NEW cr \in Crons, Update(c, j, cr) PROVE RunningIsBacked'
  BY <1>2, <1>0, CutOffGrows DEF Update, Call, RunningIsBacked, Started, NoStraySync, CallTypes,
      CallShapes, HistoryTypes, Procs
<1>3. ASSUME NEW c \in Clients, NEW j \in Jobs, Remove(c, j) PROVE RunningIsBacked'
  BY <1>3, <1>0, CutOffGrows DEF Remove, Call, Forget, RunningIsBacked, Started, NoStraySync,
      CallTypes, CallShapes, HistoryTypes, Procs
<1>4. ASSUME NEW c \in Clients, NEW j \in Jobs, Pause(c, j) PROVE RunningIsBacked'
  BY <1>4, <1>0, CutOffGrows DEF Pause, Call, RunningIsBacked, Started, NoStraySync, CallTypes,
      CallShapes, HistoryTypes, Procs
<1>5. ASSUME NEW c \in Clients, NEW j \in Jobs, Unpause(c, j) PROVE RunningIsBacked'
  BY <1>5, <1>0, CutOffGrows DEF Unpause, Call, RunningIsBacked, Started, NoStraySync, CallTypes,
      CallShapes, HistoryTypes, Procs
<1>6. ASSUME NEW c \in Clients, NEW j \in Jobs, Kill(c, j) PROVE RunningIsBacked'
  BY <1>6, <1>0, CutOffGrows DEF Kill, Call, RunningIsBacked, Started, NoStraySync, CallTypes,
      CallShapes, HistoryTypes, Procs
<1>7. ASSUME NEW c \in Clients, NEW j \in Jobs, RunNow(c, j) PROVE RunningIsBacked'
  BY <1>7, <1>0, CutOffGrows DEF RunNow, Call, RunningIsBacked, Started, NoStraySync, CallTypes,
      CallShapes, HistoryTypes, Procs
<1>8. ASSUME NEW c \in Clients, ListRead(c) PROVE RunningIsBacked'
  BY <1>8, <1>0, CutOffGrows DEF ListRead, Call, RunningIsBacked, Started, NoStraySync, CallTypes,
      CallShapes, HistoryTypes, Procs
<1>9. ASSUME NEW c \in Clients, Register(c) PROVE RunningIsBacked'
  BY CutOffGrows, <1>9, <1>0 DEF Register, Return, FreshTimers, RunningIsBacked, Started,
      NoStraySync, CallTypes, CallShapes, HistoryTypes, Procs
<1>10. ASSUME NEW c \in Clients, Insert(c) PROVE RunningIsBacked'
  BY <1>10, <1>0, CutOffGrows DEF Insert, Store, Goto, RunningIsBacked, Started, NoStraySync,
      CallTypes, CallShapes, HistoryTypes, Procs
<1>11. ASSUME NEW c \in Clients, Unregister(c) PROVE RunningIsBacked'
  BY <1>11, <1>0, CutOffGrows DEF Unregister, Goto, RunningIsBacked, Started, NoStraySync, CallTypes,
      CallShapes, HistoryTypes, Procs
<1>12. ASSUME NEW c \in Clients, Replace(c) PROVE RunningIsBacked'
  BY <1>12, <1>0, CutOffGrows DEF Replace, Goto, RunningIsBacked, Started, NoStraySync, CallTypes,
      CallShapes, HistoryTypes, Procs
<1>13. ASSUME NEW c \in Clients, CancelToken(c) PROVE RunningIsBacked'
  BY <1>13, <1>0, CutOffGrows DEF CancelToken, Goto, RunningIsBacked, Started, NoStraySync,
      CallTypes, CallShapes, HistoryTypes, Procs
<1>14. ASSUME NEW c \in Clients, Unmark(c) PROVE RunningIsBacked'
  BY CutOffGrows, <1>14, <1>0 DEF Unmark, Goto, Return, RunningIsBacked, Started, NoStraySync,
      CallTypes, CallShapes, HistoryTypes, Procs
<1>15. ASSUME NEW c \in Clients, ListCompare(c) PROVE RunningIsBacked'
  BY <1>15, <1>0, CutOffGrows DEF ListCompare, Goto, RunningIsBacked, Started, NoStraySync,
      CallTypes, CallShapes, HistoryTypes, Procs
<1>16. ASSUME NEW c \in Clients, NEW j \in Jobs, SyncRegister(c, j) PROVE RunningIsBacked'
  BY <1>16, <1>0, CutOffGrows DEF SyncRegister, FreshTimers, RunningIsBacked, Started, NoStraySync,
      CallTypes, CallShapes, HistoryTypes, Procs
<1>17. ASSUME NEW c \in Clients, SyncInsert(c) PROVE RunningIsBacked'
  BY <1>17, <1>0, CutOffGrows DEF SyncInsert, Store, RunningIsBacked, Started, NoStraySync,
      CallTypes, CallShapes, HistoryTypes, Procs
<1>18. ASSUME NEW c \in Clients, NEW j \in Jobs, NEW e \in Timers, SyncUnregister(c, j, e) PROVE RunningIsBacked'
  BY <1>18, <1>0, CutOffGrows DEF SyncUnregister, RunningIsBacked, Started, NoStraySync, CallTypes,
      CallShapes, HistoryTypes, Procs
<1>19. ASSUME NEW c \in Clients, SyncDrop(c) PROVE RunningIsBacked'
  BY <1>19, <1>0, CutOffGrows DEF SyncDrop, Forget, RunningIsBacked, Started, NoStraySync, CallTypes,
      CallShapes, HistoryTypes, Procs
<1>20. ASSUME NEW c \in Clients, ListReturns(c) PROVE RunningIsBacked'
  BY <1>20, <1>0, CutOffGrows DEF ListReturns, Return, RunningIsBacked, Started, NoStraySync,
      CallTypes, CallShapes, HistoryTypes, Procs
<1>21. ASSUME NEW t \in Ticks, NEW e \in Timers, Fire(t, e) PROVE RunningIsBacked'
  BY <1>21, <1>0, CutOffGrows DEF Fire, RunningIsBacked, Started, NoStraySync, CallTypes, CallShapes,
      HistoryTypes, Procs
<1>22. ASSUME NEW t \in Ticks, CheckDue(t) PROVE RunningIsBacked'
  BY CutOffGrows, <1>22, <1>0 DEF CheckDue, Goto, Return, RunningIsBacked, Started, NoStraySync,
      CallTypes, CallShapes, HistoryTypes, Procs
<1>23. ASSUME NEW t \in Ticks, Mark(t) PROVE RunningIsBacked'
  BY <1>23, <1>0, CutOffGrows DEF Mark, Goto, RunningIsBacked, Started, NoStraySync, CallTypes,
      CallShapes, HistoryTypes, Procs
<1>24. ASSUME NEW p \in Procs, SaveStart(p) PROVE RunningIsBacked'
  <2>1. /\ cutOff \subseteq cutOff' /\ running' = running /\ pc[p] = "save_start"
        /\ \A q \in Procs \ {p} : pc'[q] = pc[q] /\ job'[q] = job[q]
    BY <1>24, <1>0, SaveStarts, CutOffNow DEF Goto, Return, CallTypes
  <2>2. \/ pc'[p] = "token" /\ job'[p] = job[p]
        \/ \A j \in Jobs : job[p] = j => CutOffIn({"run_now"}, j)'
    BY <1>24, <1>0, SaveStarts, CutOffNow DEF Goto, CallTypes
  <2>3. \A q \in Procs : Started(q) => job[q] \in Jobs
    BY <1>0 DEF Started, CallShapes
  <2> QED
    BY <2>1, <2>2, <2>3, <1>0, CutOffGrows DEF RunningIsBacked, Started
<1>25. ASSUME NEW p \in Procs, PutToken(p) PROVE RunningIsBacked'
  BY <1>25, <1>0, CutOffGrows DEF PutToken, Goto, RunningIsBacked, Started, NoStraySync, CallTypes,
      CallShapes, HistoryTypes, Procs
<1>26. ASSUME NEW p \in Procs, DropToken(p) PROVE RunningIsBacked'
  BY <1>26, <1>0, CutOffGrows DEF DropToken, Goto, RunningIsBacked, Started, NoStraySync, CallTypes,
      CallShapes, HistoryTypes, Procs
<1>27. ASSUME NEW p \in Procs, Finish(p) PROVE RunningIsBacked'
  BY <1>27, <1>0, CutOffGrows DEF Finish, Goto, RunningIsBacked, Started, NoStraySync, CallTypes,
      CallShapes, HistoryTypes, Procs
<1>28. ASSUME NEW p \in Procs, Save(p) PROVE RunningIsBacked'
  BY <1>28, <1>0, CutOffGrows DEF Save, Return, WriteOk, WriteFails, RunningIsBacked, Started,
      NoStraySync, CallTypes, CallShapes, HistoryTypes, Procs
<1>29. ASSUME NEW p \in Procs, ExecuteEnds(p) PROVE RunningIsBacked'
  BY <1>29, <1>0, CutOffGrows DEF ExecuteEnds, Goto, RunningIsBacked, Started, NoStraySync,
      CallTypes, CallShapes, HistoryTypes, Procs
<1>30. ASSUME Restart PROVE RunningIsBacked'
  BY <1>30, <1>0 DEF Restart, RunningIsBacked, CutOffIn, Started, NoStraySync, CallTypes,
      CallShapes, HistoryTypes, Procs
<1>31. ASSUME OtherLoads PROVE RunningIsBacked'
  BY <1>31, <1>0, CutOffGrows DEF OtherLoads, RunningIsBacked, Started, NoStraySync, CallTypes,
      CallShapes, HistoryTypes, Procs
<1>32. ASSUME NEW j \in Jobs, NEW cr \in Crons, OtherAdds(j, cr) PROVE RunningIsBacked'
  BY <1>32, <1>0, CutOffGrows DEF OtherAdds, RunningIsBacked, Started, NoStraySync, CallTypes,
      CallShapes, HistoryTypes, Procs
<1>33. ASSUME NEW j \in Jobs, OtherRemoves(j) PROVE RunningIsBacked'
  BY <1>33, <1>0, CutOffGrows DEF OtherRemoves, RunningIsBacked, Started, NoStraySync, CallTypes,
      CallShapes, HistoryTypes, Procs
<1>34. CASE UNCHANGED vars
  BY <1>34, <1>0, CutOffGrows DEF RunningIsBacked, Started, NoStraySync, CallTypes, CallShapes,
      HistoryTypes, Procs
<1>35. ASSUME NEW c \in Clients, Abandon(c) PROVE RunningIsBacked'
  <2>1. /\ cutOff \subseteq cutOff' /\ running' = running
        /\ \A q \in Procs \ {c} : pc'[q] = pc[q] /\ job'[q] = job[q]
    BY <1>35, <1>0, CutOffNow DEF Abandon, Return, CallTypes
  <2>2. Started(c) => \A j \in Jobs : job[c] = j => CutOffIn({"run_now"}, j)'
    BY <1>35, <1>0, CutOffNow DEF Abandon, Started, CallShapes, Procs
  <2>3. \A q \in Procs : Started(q) => job[q] \in Jobs
    BY <1>0 DEF Started, CallShapes
  <2> QED
    BY <2>1, <2>2, <2>3, <1>0, CutOffGrows DEF RunningIsBacked, Started
<1> QED
  BY <1>35, <1>1, <1>2, <1>3, <1>4, <1>5, <1>6, <1>7, <1>8, <1>9, <1>10, <1>11, <1>12, <1>13,
      <1>14, <1>15, <1>16, <1>17, <1>18, <1>19, <1>20, <1>21, <1>22, <1>23, <1>24,
      <1>25, <1>26, <1>27, <1>28, <1>29, <1>30, <1>31, <1>32, <1>33, <1>34 DEF Next,
      Request, ScheduleRecipe, Sync, ClientStep, RunStep

\* A change of the map keeps a writer until it is written.
LEMMA SavedStep ==
    ASSUME TypeOK, NoStraySync, EveryChangeIsSaved, [Next]_vars
    PROVE  EveryChangeIsSaved'
<1>0. /\ EveryChangeIsSaved /\ NoStraySync /\ CallTypes /\ CallShapes /\ HistoryTypes
      /\ running \subseteq jobs /\ disk \in Lists
  BY MemoryForms DEF TypeOK, MemoryParts, FileTypes
<1>1. ASSUME NEW c \in Clients, NEW j \in Jobs, NEW cr \in Crons, Add(c, j, cr) PROVE EveryChangeIsSaved'
  BY <1>1, <1>0 DEF Add, Call, EveryChangeIsSaved, SavedAs, WillSave, Image, NoStraySync, CallTypes,
      CallShapes, HistoryTypes, Procs
<1>2. ASSUME NEW c \in Clients, NEW j \in Jobs, NEW cr \in Crons, Update(c, j, cr) PROVE EveryChangeIsSaved'
  BY <1>2, <1>0 DEF Update, Call, EveryChangeIsSaved, SavedAs, WillSave, Image, NoStraySync, CallTypes,
      CallShapes, HistoryTypes, Procs
<1>3. ASSUME NEW c \in Clients, NEW j \in Jobs, Remove(c, j) PROVE EveryChangeIsSaved'
  BY <1>3, <1>0 DEF Remove, Call, Forget, EveryChangeIsSaved, SavedAs, WillSave, Image, NoStraySync,
      CallTypes, CallShapes, HistoryTypes, Procs
<1>4. ASSUME NEW c \in Clients, NEW j \in Jobs, Pause(c, j) PROVE EveryChangeIsSaved'
  BY <1>4, <1>0 DEF Pause, Call, EveryChangeIsSaved, SavedAs, WillSave, Image, NoStraySync, CallTypes,
      CallShapes, HistoryTypes, Procs
<1>5. ASSUME NEW c \in Clients, NEW j \in Jobs, Unpause(c, j) PROVE EveryChangeIsSaved'
  BY <1>5, <1>0 DEF Unpause, Call, EveryChangeIsSaved, SavedAs, WillSave, Image, NoStraySync, CallTypes,
      CallShapes, HistoryTypes, Procs
<1>6. ASSUME NEW c \in Clients, NEW j \in Jobs, Kill(c, j) PROVE EveryChangeIsSaved'
  BY <1>6, <1>0 DEF Kill, Call, EveryChangeIsSaved, SavedAs, WillSave, Image, NoStraySync, CallTypes,
      CallShapes, HistoryTypes, Procs
<1>7. ASSUME NEW c \in Clients, NEW j \in Jobs, RunNow(c, j) PROVE EveryChangeIsSaved'
  BY <1>7, <1>0 DEF RunNow, Call, EveryChangeIsSaved, SavedAs, WillSave, Image, NoStraySync, CallTypes,
      CallShapes, HistoryTypes, Procs
<1>8. ASSUME NEW c \in Clients, ListRead(c) PROVE EveryChangeIsSaved'
  BY <1>8, <1>0 DEF ListRead, Call, EveryChangeIsSaved, SavedAs, WillSave, Image, NoStraySync, CallTypes,
      CallShapes, HistoryTypes, Procs
<1>9. ASSUME NEW c \in Clients, Register(c) PROVE EveryChangeIsSaved'
  BY <1>9, <1>0 DEF Register, Return, FreshTimers, EveryChangeIsSaved, SavedAs, WillSave, Image,
      NoStraySync, CallTypes, CallShapes, HistoryTypes, Procs
<1>10. ASSUME NEW c \in Clients, Insert(c) PROVE EveryChangeIsSaved'
  BY <1>10, <1>0 DEF Insert, Store, Goto, EveryChangeIsSaved, SavedAs, WillSave, Image, NoStraySync,
      CallTypes, CallShapes, HistoryTypes, Procs
<1>11. ASSUME NEW c \in Clients, Unregister(c) PROVE EveryChangeIsSaved'
  BY <1>11, <1>0 DEF Unregister, Goto, EveryChangeIsSaved, SavedAs, WillSave, Image, NoStraySync,
      CallTypes, CallShapes, HistoryTypes, Procs
<1>12. ASSUME NEW c \in Clients, Replace(c) PROVE EveryChangeIsSaved'
  BY <1>12, <1>0 DEF Replace, Goto, EveryChangeIsSaved, SavedAs, WillSave, Image, NoStraySync, CallTypes,
      CallShapes, HistoryTypes, Procs
<1>13. ASSUME NEW c \in Clients, CancelToken(c) PROVE EveryChangeIsSaved'
  BY <1>13, <1>0 DEF CancelToken, Goto, EveryChangeIsSaved, SavedAs, WillSave, Image, NoStraySync,
      CallTypes, CallShapes, HistoryTypes, Procs
<1>14. ASSUME NEW c \in Clients, Unmark(c) PROVE EveryChangeIsSaved'
  BY <1>14, <1>0 DEF Unmark, Goto, Return, EveryChangeIsSaved, SavedAs, WillSave, Image, NoStraySync,
      CallTypes, CallShapes, HistoryTypes, Procs
<1>15. ASSUME NEW c \in Clients, ListCompare(c) PROVE EveryChangeIsSaved'
  BY <1>15, <1>0 DEF ListCompare, Goto, EveryChangeIsSaved, SavedAs, WillSave, Image, NoStraySync,
      CallTypes, CallShapes, HistoryTypes, Procs
<1>16. ASSUME NEW c \in Clients, NEW j \in Jobs, SyncRegister(c, j) PROVE EveryChangeIsSaved'
  BY <1>16, <1>0 DEF SyncRegister, FreshTimers, EveryChangeIsSaved, SavedAs, WillSave, Image, NoStraySync,
      CallTypes, CallShapes, HistoryTypes, Procs
<1>17. ASSUME NEW c \in Clients, SyncInsert(c) PROVE EveryChangeIsSaved'
  BY <1>17, <1>0 DEF SyncInsert, Store, EveryChangeIsSaved, SavedAs, WillSave, Image, NoStraySync,
      CallTypes, CallShapes, HistoryTypes, Procs
<1>18. ASSUME NEW c \in Clients, NEW j \in Jobs, NEW e \in Timers, SyncUnregister(c, j, e) PROVE EveryChangeIsSaved'
  BY <1>18, <1>0 DEF SyncUnregister, EveryChangeIsSaved, SavedAs, WillSave, Image, NoStraySync, CallTypes,
      CallShapes, HistoryTypes, Procs
<1>19. ASSUME NEW c \in Clients, SyncDrop(c) PROVE EveryChangeIsSaved'
  BY <1>19, <1>0 DEF SyncDrop, Forget, EveryChangeIsSaved, SavedAs, WillSave, Image, NoStraySync,
      CallTypes, CallShapes, HistoryTypes, Procs
<1>20. ASSUME NEW c \in Clients, ListReturns(c) PROVE EveryChangeIsSaved'
  BY <1>20, <1>0 DEF ListReturns, Return, EveryChangeIsSaved, SavedAs, WillSave, Image, NoStraySync,
      CallTypes, CallShapes, HistoryTypes, Procs
<1>21. ASSUME NEW t \in Ticks, NEW e \in Timers, Fire(t, e) PROVE EveryChangeIsSaved'
  BY <1>21, <1>0 DEF Fire, EveryChangeIsSaved, SavedAs, WillSave, Image, NoStraySync, CallTypes,
      CallShapes, HistoryTypes, Procs
<1>22. ASSUME NEW t \in Ticks, CheckDue(t) PROVE EveryChangeIsSaved'
  BY <1>22, <1>0 DEF CheckDue, Goto, Return, EveryChangeIsSaved, SavedAs, WillSave, Image, NoStraySync,
      CallTypes, CallShapes, HistoryTypes, Procs
<1>23. ASSUME NEW t \in Ticks, Mark(t) PROVE EveryChangeIsSaved'
  BY <1>23, <1>0 DEF Mark, Goto, EveryChangeIsSaved, SavedAs, WillSave, Image, NoStraySync, CallTypes,
      CallShapes, HistoryTypes, Procs
<1>24. ASSUME NEW p \in Procs, SaveStart(p) PROVE EveryChangeIsSaved'
  BY <1>24, <1>0 DEF SaveStart, Goto, Return, CutOff, WriteOk, WriteFails, EveryChangeIsSaved, SavedAs, WillSave,
      Image, NoStraySync, CallTypes, CallShapes, HistoryTypes, Procs
<1>25. ASSUME NEW p \in Procs, PutToken(p) PROVE EveryChangeIsSaved'
  BY <1>25, <1>0 DEF PutToken, Goto, EveryChangeIsSaved, SavedAs, WillSave, Image, NoStraySync, CallTypes,
      CallShapes, HistoryTypes, Procs
<1>26. ASSUME NEW p \in Procs, DropToken(p) PROVE EveryChangeIsSaved'
  BY <1>26, <1>0 DEF DropToken, Goto, EveryChangeIsSaved, SavedAs, WillSave, Image, NoStraySync, CallTypes,
      CallShapes, HistoryTypes, Procs
<1>27. ASSUME NEW p \in Procs, Finish(p) PROVE EveryChangeIsSaved'
  BY <1>27, <1>0 DEF Finish, Goto, EveryChangeIsSaved, SavedAs, WillSave, Image, NoStraySync, CallTypes,
      CallShapes, HistoryTypes, Procs
<1>28. ASSUME NEW p \in Procs, Save(p) PROVE EveryChangeIsSaved'
  BY <1>28, <1>0 DEF Save, Return, WriteOk, WriteFails, EveryChangeIsSaved, SavedAs, WillSave, Image,
      NoStraySync, CallTypes, CallShapes, HistoryTypes, Procs
<1>29. ASSUME NEW p \in Procs, ExecuteEnds(p) PROVE EveryChangeIsSaved'
  BY <1>29, <1>0 DEF ExecuteEnds, Goto, EveryChangeIsSaved, SavedAs, WillSave, Image, NoStraySync,
      CallTypes, CallShapes, HistoryTypes, Procs
<1>30. ASSUME Restart PROVE EveryChangeIsSaved'
  <2> SUFFICES ASSUME BadCrons = {}, MissingRecipes = {}, NEW j \in Jobs \ unsaved'
               PROVE  SavedAs(j)'
    BY DEF EveryChangeIsSaved
  <2>1. PICK l \in {disk, Empty} :
            /\ jobs' = Loadable(l) /\ paused' = l.paused \cap jobs'
            /\ cron' = [i \in Jobs |-> IF i \in jobs' THEN l.cron[i] ELSE None]
            /\ disk' = Cleared(l) \/ (disk' = l /\ unsaved' = l.running) \/ unsaved' = Jobs
    BY <1>30, <1>0 DEF Restart
  <2>2. l \in Lists /\ running' = {}
    BY <1>30, <1>0, EmptyList DEF Restart
  <2>3. jobs' = l.jobs
    BY <2>1 DEF Loadable
  <2>4. paused' = l.paused /\ cron' = l.cron
    BY <2>1, <2>2, <2>3, ListParts
  <2>5. Cleared(l) = [jobs |-> l.jobs, paused |-> l.paused, running |-> {}, cron |-> l.cron]
    BY <2>2, ClearedList
  <2> QED
    BY <2>1, <2>2, <2>3, <2>4, <2>5 DEF SavedAs
<1>31. ASSUME OtherLoads PROVE EveryChangeIsSaved'
  BY <1>31, <1>0 DEF OtherLoads, EveryChangeIsSaved, SavedAs, WillSave, Image, NoStraySync, CallTypes,
      CallShapes, HistoryTypes, Procs
<1>32. ASSUME NEW j \in Jobs, NEW cr \in Crons, OtherAdds(j, cr) PROVE EveryChangeIsSaved'
  BY <1>32, <1>0 DEF OtherAdds, EveryChangeIsSaved, SavedAs, WillSave, Image, NoStraySync, CallTypes,
      CallShapes, HistoryTypes, Procs
<1>33. ASSUME NEW j \in Jobs, OtherRemoves(j) PROVE EveryChangeIsSaved'
  BY <1>33, <1>0 DEF OtherRemoves, EveryChangeIsSaved, SavedAs, WillSave, Image, NoStraySync, CallTypes,
      CallShapes, HistoryTypes, Procs
<1>34. CASE UNCHANGED vars
  BY <1>34, <1>0 DEF EveryChangeIsSaved, SavedAs, WillSave, Image, NoStraySync, CallTypes, CallShapes,
      HistoryTypes, Procs
<1>35. ASSUME NEW c \in Clients, Abandon(c) PROVE EveryChangeIsSaved'
  <2>1. /\ unsaved' = unsaved \cup ({job[c]} \ {None}) /\ UNCHANGED <<memory, disk, others>>
        /\ \A q \in Procs \ {c} : pc'[q] = pc[q] /\ job'[q] = job[q] /\ op'[q] = op[q]
    BY <1>35, <1>0 DEF Abandon, Return, CallTypes
  <2> SUFFICES ASSUME "list" \notin Ops, others = 0, BadCrons = {}, MissingRecipes = {},
                      NEW j \in Jobs, j \notin unsaved, j # job[c]
               PROVE  SavedAs(j)' \/ \E p \in Procs : WillSave(p)' /\ job'[p] = j
    BY <2>1, JobsAssumption DEF EveryChangeIsSaved
  <2>2. SavedAs(j) \/ \E p \in Procs : WillSave(p) /\ job[p] = j
    BY <1>0 DEF EveryChangeIsSaved
  <2> QED
    BY <2>1, <2>2 DEF SavedAs, WillSave
<1> QED
  BY <1>35, <1>1, <1>2, <1>3, <1>4, <1>5, <1>6, <1>7, <1>8, <1>9, <1>10, <1>11, <1>12, <1>13,
      <1>14, <1>15, <1>16, <1>17, <1>18, <1>19, <1>20, <1>21, <1>22, <1>23, <1>24,
      <1>25, <1>26, <1>27, <1>28, <1>29, <1>30, <1>31, <1>32, <1>33, <1>34 DEF Next,
      Request, ScheduleRecipe, Sync, ClientStep, RunStep

-----------------------------------------------------------------------------
(* Cron entries.                                                           *)

\* A caller has registered an entry and not yet put it in the map.
Holding(p) == pc[p] \in {"insert", "replace", "sync_insert"}

\* Such an entry fires for the caller's job, and nobody else knows it.
PrivateEntries ==
    \A p \in Procs : Holding(p) =>
        /\ timer[held[p]].job = job[p]
        /\ \A j \in Jobs : uuid[j] # held[p]
        /\ \A q \in Procs : q # p => held[q] # held[p]
        /\ \A c \in Clients, j \in Jobs : <<j, held[p]>> \notin drops[c]

\* No two jobs share an entry, and the entry a sync or an update is to remove
\* is that of the job it was read from, or of none.
EntryOwners ==
    /\ \A i, j \in jobs : uuid[i] = uuid[j] => i = j
    /\ \A c \in Clients, i, j \in Jobs : <<j, uuid[i]>> \in drops[c] => i = j
    /\ \A p \in Procs, j \in Jobs : pc[p] = "unregister" /\ uuid[j] = held[p] =>
            op[p] = "update" /\ j = job[p]

\* An update with an expression that does not parse removes the entry of a job
\* that shows such an expression, or that another update will give an entry.
BadUpdates ==
    \A p \in Procs, j \in Jobs :
        pc[p] = "unregister" /\ job[p] = j /\ want[p] \in BadCrons /\ uuid[j] = held[p] =>
            cron[j] \in BadCrons \/ Updating(j) \/ CutOffIn({"update", "list"}, j)

TimerInv == PrivateEntries /\ EntryOwners /\ BadUpdates /\ JobHasTimer

\* A step that neither moves an entry nor enters or leaves a step that does.
Quiet ==
    /\ UNCHANGED <<jobs, cron, uuid, timer, drops>> /\ cutOff \subseteq cutOff'
    /\ \A p \in Procs :
        /\ held'[p] \in {held[p], None}
        /\ (pc[p] \in {"register", "insert", "unregister", "replace", "sync_insert", "sync_drop"}
            \/ pc'[p] \in {"register", "insert", "unregister", "replace", "sync_insert", "sync_drop"})
           => /\ pc'[p] = pc[p] /\ op'[p] = op[p] /\ job'[p] = job[p]
              /\ want'[p] = want[p] /\ held'[p] = held[p]

\* The steps that move entries.
LEMMA QuietFrame ==
    ASSUME CallTypes, Next
    PROVE  \/ Quiet
           \/ \E c \in Clients, j \in Jobs, cr \in Crons : Add(c, j, cr)
           \/ \E c \in Clients, j \in Jobs, cr \in Crons : Update(c, j, cr)
           \/ \E c \in Clients, j \in Jobs : Remove(c, j)
           \/ \E c \in Clients : Register(c)
           \/ \E c \in Clients : Insert(c)
           \/ \E c \in Clients : Unregister(c)
           \/ \E c \in Clients : Replace(c)
           \/ \E c \in Clients : ListCompare(c)
           \/ \E c \in Clients, j \in Jobs : SyncRegister(c, j)
           \/ \E c \in Clients : SyncInsert(c)
           \/ \E c \in Clients, j \in Jobs, e \in Timers : SyncUnregister(c, j, e)
           \/ \E c \in Clients : SyncDrop(c)
           \/ \E c \in Clients : Abandon(c)
           \/ Restart
<1>1. ASSUME NEW c \in Clients, NEW j \in Jobs, Pause(c, j) PROVE Quiet
  BY <1>1, CallTypes DEF Pause, Call, Quiet, CallTypes, Procs
<1>2. ASSUME NEW c \in Clients, NEW j \in Jobs, Unpause(c, j) PROVE Quiet
  BY <1>2, CallTypes DEF Unpause, Call, Quiet, CallTypes, Procs
<1>3. ASSUME NEW c \in Clients, NEW j \in Jobs, Kill(c, j) PROVE Quiet
  BY <1>3, CallTypes DEF Kill, Call, Quiet, CallTypes, Procs
<1>4. ASSUME NEW c \in Clients, NEW j \in Jobs, RunNow(c, j) PROVE Quiet
  BY <1>4, CallTypes DEF RunNow, Call, Quiet, CallTypes, Procs
<1>5. ASSUME NEW c \in Clients, ListRead(c) PROVE Quiet
  BY <1>5, CallTypes DEF ListRead, Call, Quiet, CallTypes, Procs
<1>6. ASSUME NEW c \in Clients, CancelToken(c) PROVE Quiet
  BY <1>6, CallTypes DEF CancelToken, Goto, Quiet, CallTypes, Procs
<1>7. ASSUME NEW c \in Clients, Unmark(c) PROVE Quiet
  BY <1>7, CallTypes DEF Unmark, Goto, Return, Quiet, CallTypes, Procs
<1>8. ASSUME NEW c \in Clients, ListReturns(c) PROVE Quiet
  BY <1>8, CallTypes DEF ListReturns, Return, Quiet, CallTypes, Procs
<1>9. ASSUME NEW t \in Ticks, NEW e \in Timers, Fire(t, e) PROVE Quiet
  BY <1>9, CallTypes DEF Fire, Quiet, CallTypes, Procs
<1>10. ASSUME NEW t \in Ticks, CheckDue(t) PROVE Quiet
  BY <1>10, CallTypes DEF CheckDue, Goto, Return, Quiet, CallTypes, Procs
<1>11. ASSUME NEW t \in Ticks, Mark(t) PROVE Quiet
  BY <1>11, CallTypes DEF Mark, Goto, Quiet, CallTypes, Procs
<1>12. ASSUME NEW p \in Procs, SaveStart(p) PROVE Quiet
  BY <1>12, CallTypes DEF SaveStart, Goto, Return, CutOff, WriteOk, WriteFails, Quiet,
      CallTypes, Procs
<1>13. ASSUME NEW p \in Procs, PutToken(p) PROVE Quiet
  BY <1>13, CallTypes DEF PutToken, Goto, Quiet, CallTypes, Procs
<1>14. ASSUME NEW p \in Procs, DropToken(p) PROVE Quiet
  BY <1>14, CallTypes DEF DropToken, Goto, Quiet, CallTypes, Procs
<1>15. ASSUME NEW p \in Procs, Finish(p) PROVE Quiet
  BY <1>15, CallTypes DEF Finish, Goto, Quiet, CallTypes, Procs
<1>16. ASSUME NEW p \in Procs, Save(p) PROVE Quiet
  BY <1>16, CallTypes DEF Save, Return, WriteOk, WriteFails, Quiet, CallTypes, Procs
<1>17. ASSUME NEW p \in Procs, ExecuteEnds(p) PROVE Quiet
  BY <1>17, CallTypes DEF ExecuteEnds, Goto, Quiet, CallTypes, Procs
<1>18. ASSUME OtherLoads PROVE Quiet
  BY <1>18, CallTypes DEF OtherLoads, Quiet, CallTypes, Procs
<1>19. ASSUME NEW j \in Jobs, NEW cr \in Crons, OtherAdds(j, cr) PROVE Quiet
  BY <1>19, CallTypes DEF OtherAdds, Quiet, CallTypes, Procs
<1>20. ASSUME NEW j \in Jobs, OtherRemoves(j) PROVE Quiet
  BY <1>20, CallTypes DEF OtherRemoves, Quiet, CallTypes, Procs
<1> QED
  BY <1>1, <1>2, <1>3, <1>4, <1>5, <1>6, <1>7, <1>8, <1>9, <1>10, <1>11, <1>12, <1>13,
      <1>14, <1>15, <1>16, <1>17, <1>18, <1>19, <1>20 DEF Next, Request, ScheduleRecipe,
      Sync, ClientStep, RunStep

\* The other steps keep who has which entry.
LEMMA QuietKeeps ==
    ASSUME TypeOK, TimerInv, Quiet
    PROVE  TimerInv'
<1>0. CallTypes /\ CallShapes /\ None \notin Timers
  BY ProcsAssumption DEF TypeOK
<1>1. PrivateEntries'
  BY <1>0 DEF TimerInv, PrivateEntries, Holding, Quiet, CallShapes
<1>2. EntryOwners'
  BY <1>0 DEF TimerInv, EntryOwners, Quiet
<1>3. \A j \in Jobs : Updating(j) => Updating(j)'
  BY <1>0 DEF Updating, Quiet, Procs
<1>4. BadUpdates'
  BY <1>0, <1>3 DEF TimerInv, BadUpdates, CutOffIn, Quiet, CallShapes
<1>5. MemoryParts
  BY MemoryForms DEF TypeOK
<1>6. JobHasTimer'
  BY <1>0, <1>3, <1>5, CutOffGrows DEF TimerInv, JobHasTimer, Quiet, MemoryParts, Procs
<1> QED
  BY <1>1, <1>2, <1>4, <1>6 DEF TimerInv

\* A registered entry stays with its caller until it is in the map.
LEMMA PrivateStep ==
    ASSUME TypeOK, TimerInv, Next
    PROVE  PrivateEntries'
<1>0. /\ TimerInv /\ MemoryParts /\ CallTypes /\ CallShapes
      /\ timer \in [Timers -> [job : Jobs, cron : Crons] \cup {NoTimer}]
      /\ drops \in [Clients -> SUBSET (Jobs \X Timers)]
      /\ None \notin Timers /\ None \notin Crons /\ BadCrons \subseteq Crons
  BY MemoryForms, ProcsAssumption, CronsAssumption DEF TypeOK, RuntimeTypes, SyncTypes
<1>1. ASSUME NEW c \in Clients, NEW j \in Jobs, NEW cr \in Crons, Add(c, j, cr) PROVE PrivateEntries'
  BY <1>1, <1>0 DEF Add, Call, TimerInv, PrivateEntries, Holding, NoTimer, MemoryParts,
      CallTypes, CallShapes, Procs
<1>2. ASSUME NEW c \in Clients, NEW j \in Jobs, NEW cr \in Crons, Update(c, j, cr) PROVE PrivateEntries'
  BY <1>2, <1>0 DEF Update, Call, TimerInv, PrivateEntries, Holding, NoTimer,
      MemoryParts, CallTypes, CallShapes, Procs
<1>3. ASSUME NEW c \in Clients, NEW j \in Jobs, Remove(c, j) PROVE PrivateEntries'
  BY <1>3, <1>0 DEF Remove, Call, Forget, TimerInv, PrivateEntries, Holding, NoTimer,
      MemoryParts, CallTypes, CallShapes, Procs
<1>4. ASSUME NEW c \in Clients, Register(c) PROVE PrivateEntries'
  BY <1>4, <1>0 DEF Register, Return, FreshTimers, TimerInv, PrivateEntries, Holding,
      NoTimer, MemoryParts, CallTypes, CallShapes, Procs
<1>5. ASSUME NEW c \in Clients, Insert(c) PROVE PrivateEntries'
  BY <1>5, <1>0 DEF Insert, Store, Goto, TimerInv, PrivateEntries, Holding, NoTimer,
      MemoryParts, CallTypes, CallShapes, Procs
<1>6. ASSUME NEW c \in Clients, Unregister(c) PROVE PrivateEntries'
  BY <1>6, <1>0 DEF Unregister, Goto, TimerInv, PrivateEntries, Holding, NoTimer,
      MemoryParts, CallTypes, CallShapes, Procs
<1>7. ASSUME NEW c \in Clients, Replace(c) PROVE PrivateEntries'
  BY <1>7, <1>0 DEF Replace, Goto, TimerInv, PrivateEntries, Holding, NoTimer,
      MemoryParts, CallTypes, CallShapes, Procs
<1>8. ASSUME NEW c \in Clients, ListCompare(c) PROVE PrivateEntries'
  BY <1>8, <1>0 DEF ListCompare, Goto, TimerInv, PrivateEntries, Holding, NoTimer,
      MemoryParts, CallTypes, CallShapes, Procs
<1>9. ASSUME NEW c \in Clients, NEW j \in Jobs, SyncRegister(c, j) PROVE PrivateEntries'
  BY <1>9, <1>0 DEF SyncRegister, FreshTimers, TimerInv, PrivateEntries, Holding,
      NoTimer, MemoryParts, CallTypes, CallShapes, Procs
<1>10. ASSUME NEW c \in Clients, SyncInsert(c) PROVE PrivateEntries'
  BY <1>10, <1>0 DEF SyncInsert, Store, TimerInv, PrivateEntries, Holding, NoTimer,
      MemoryParts, CallTypes, CallShapes, Procs
<1>11. ASSUME NEW c \in Clients, NEW j \in Jobs, NEW e \in Timers, SyncUnregister(c, j, e) PROVE PrivateEntries'
  BY <1>11, <1>0 DEF SyncUnregister, TimerInv, PrivateEntries, Holding, NoTimer,
      MemoryParts, CallTypes, CallShapes, Procs
<1>12. ASSUME NEW c \in Clients, SyncDrop(c) PROVE PrivateEntries'
  BY <1>12, <1>0 DEF SyncDrop, Forget, TimerInv, PrivateEntries, Holding, NoTimer,
      MemoryParts, CallTypes, CallShapes, Procs
<1>13. ASSUME Restart PROVE PrivateEntries'
  BY <1>13, <1>0 DEF Restart, TimerInv, PrivateEntries, Holding, NoTimer, MemoryParts,
      CallTypes, CallShapes, Procs
<1>14. CASE Quiet
  BY <1>14, QuietKeeps DEF TimerInv
<1>15. CallTypes
  BY DEF TypeOK
<1>16. ASSUME NEW c \in Clients, Abandon(c) PROVE PrivateEntries'
  BY <1>16, <1>0 DEF Abandon, Return, CutOff, TimerInv, PrivateEntries, Holding, MemoryParts, CallTypes, CallShapes, Procs
<1> QED
  BY <1>16, QuietFrame, <1>1, <1>2, <1>3, <1>4, <1>5, <1>6, <1>7, <1>8, <1>9, <1>10, <1>11,
      <1>12, <1>13, <1>14, <1>15

\* Entries stay with one job.
LEMMA OwnersStep ==
    ASSUME TypeOK, TimerInv, Next
    PROVE  EntryOwners'
<1>0. /\ TimerInv /\ MemoryParts /\ CallTypes /\ CallShapes
      /\ timer \in [Timers -> [job : Jobs, cron : Crons] \cup {NoTimer}]
      /\ drops \in [Clients -> SUBSET (Jobs \X Timers)]
      /\ None \notin Timers /\ None \notin Crons /\ BadCrons \subseteq Crons
  BY MemoryForms, ProcsAssumption, CronsAssumption DEF TypeOK, RuntimeTypes, SyncTypes
<1>1. ASSUME NEW c \in Clients, NEW j \in Jobs, NEW cr \in Crons, Add(c, j, cr) PROVE EntryOwners'
  BY <1>1, <1>0 DEF Add, Call, TimerInv, PrivateEntries, EntryOwners, Holding,
      MemoryParts, CallTypes, CallShapes, Procs
<1>2. ASSUME NEW c \in Clients, NEW j \in Jobs, NEW cr \in Crons, Update(c, j, cr) PROVE EntryOwners'
  BY <1>2, <1>0 DEF Update, Call, TimerInv, PrivateEntries, EntryOwners, Holding,
      MemoryParts, CallTypes, CallShapes, Procs
<1>3. ASSUME NEW c \in Clients, NEW j \in Jobs, Remove(c, j) PROVE EntryOwners'
  BY <1>3, <1>0 DEF Remove, Call, Forget, TimerInv, PrivateEntries, EntryOwners,
      Holding, MemoryParts, CallTypes, CallShapes, Procs
<1>4. ASSUME NEW c \in Clients, Register(c) PROVE EntryOwners'
  BY <1>4, <1>0 DEF Register, Return, FreshTimers, TimerInv, PrivateEntries,
      EntryOwners, Holding, MemoryParts, CallTypes, CallShapes, Procs
<1>5. ASSUME NEW c \in Clients, Insert(c) PROVE EntryOwners'
  BY <1>5, <1>0 DEF Insert, Store, Goto, TimerInv, PrivateEntries, EntryOwners, Holding,
      MemoryParts, CallTypes, CallShapes, Procs
<1>6. ASSUME NEW c \in Clients, Unregister(c) PROVE EntryOwners'
  BY <1>6, <1>0 DEF Unregister, Goto, TimerInv, PrivateEntries, EntryOwners, Holding,
      MemoryParts, CallTypes, CallShapes, Procs
<1>7. ASSUME NEW c \in Clients, Replace(c) PROVE EntryOwners'
  BY <1>7, <1>0 DEF Replace, Goto, TimerInv, PrivateEntries, EntryOwners, Holding,
      MemoryParts, CallTypes, CallShapes, Procs
<1>8. ASSUME NEW c \in Clients, ListCompare(c) PROVE EntryOwners'
  BY <1>8, <1>0 DEF ListCompare, Goto, TimerInv, PrivateEntries, EntryOwners, Holding,
      MemoryParts, CallTypes, CallShapes, Procs
<1>9. ASSUME NEW c \in Clients, NEW j \in Jobs, SyncRegister(c, j) PROVE EntryOwners'
  BY <1>9, <1>0 DEF SyncRegister, FreshTimers, TimerInv, PrivateEntries, EntryOwners,
      Holding, MemoryParts, CallTypes, CallShapes, Procs
<1>10. ASSUME NEW c \in Clients, SyncInsert(c) PROVE EntryOwners'
  BY <1>10, <1>0 DEF SyncInsert, Store, TimerInv, PrivateEntries, EntryOwners, Holding,
      MemoryParts, CallTypes, CallShapes, Procs
<1>11. ASSUME NEW c \in Clients, NEW j \in Jobs, NEW e \in Timers, SyncUnregister(c, j, e) PROVE EntryOwners'
  BY <1>11, <1>0 DEF SyncUnregister, TimerInv, PrivateEntries, EntryOwners, Holding,
      MemoryParts, CallTypes, CallShapes, Procs
<1>12. ASSUME NEW c \in Clients, SyncDrop(c) PROVE EntryOwners'
  BY <1>12, <1>0 DEF SyncDrop, Forget, TimerInv, PrivateEntries, EntryOwners, Holding,
      MemoryParts, CallTypes, CallShapes, Procs
<1>13. ASSUME Restart PROVE EntryOwners'
  <2>1. /\ \A i, j \in jobs' : uuid'[i] = uuid'[j] => i = j
        /\ drops' = [c \in Clients |-> {}] /\ pc' = [p \in Procs |-> "idle"]
    BY <1>13, RestartLoads DEF Restart
  <2> QED
    BY <2>1 DEF EntryOwners
<1>14. CASE Quiet
  BY <1>14, QuietKeeps DEF TimerInv
<1>15. CallTypes
  BY DEF TypeOK
<1>16. ASSUME NEW c \in Clients, Abandon(c) PROVE EntryOwners'
  BY <1>16, <1>0 DEF Abandon, Return, CutOff, TimerInv, EntryOwners, MemoryParts, CallTypes, CallShapes, Procs
<1> QED
  BY <1>16, QuietFrame, <1>1, <1>2, <1>3, <1>4, <1>5, <1>6, <1>7, <1>8, <1>9, <1>10, <1>11,
      <1>12, <1>13, <1>14, <1>15

\* A refused update never strands a job that another expression was given.
LEMMA BadUpdatesStep ==
    ASSUME TypeOK, TimerInv, Next
    PROVE  BadUpdates'
<1>0. /\ TimerInv /\ MemoryParts /\ CallTypes /\ CallShapes
      /\ timer \in [Timers -> [job : Jobs, cron : Crons] \cup {NoTimer}]
      /\ drops \in [Clients -> SUBSET (Jobs \X Timers)]
      /\ None \notin Timers /\ None \notin Crons /\ BadCrons \subseteq Crons
  BY MemoryForms, ProcsAssumption, CronsAssumption DEF TypeOK, RuntimeTypes, SyncTypes
<1>1. ASSUME NEW c \in Clients, NEW j \in Jobs, NEW cr \in Crons, Add(c, j, cr) PROVE BadUpdates'
  BY CutOffGrows, <1>1, <1>0 DEF Add, Call, TimerInv, PrivateEntries, EntryOwners, BadUpdates,
      Updating, Holding, MemoryParts, CallTypes, CallShapes, Procs
<1>2. ASSUME NEW c \in Clients, NEW j \in Jobs, NEW cr \in Crons, Update(c, j, cr) PROVE BadUpdates'
  BY CutOffGrows, <1>2, <1>0 DEF Update, Call, TimerInv, PrivateEntries, EntryOwners, BadUpdates,
      Updating, Holding, MemoryParts, CallTypes, CallShapes, Procs
<1>3. ASSUME NEW c \in Clients, NEW j \in Jobs, Remove(c, j) PROVE BadUpdates'
  <2>1. /\ cutOff' = cutOff /\ \A k \in Jobs : Updating(k) => Updating(k)'
    BY <1>3, <1>0 DEF Remove, Call, Forget, Updating, CallTypes, Procs
  <2>2. ASSUME NEW p \in Procs, NEW k \in Jobs, pc'[p] = "unregister", job'[p] = k,
               want'[p] \in BadCrons, uuid'[k] = held'[p]
        PROVE  pc[p] = "unregister" /\ job[p] = k /\ want[p] \in BadCrons /\ uuid[k] = held[p] /\ k # j
    BY <1>3, <1>0, <2>2 DEF Remove, Call, Forget, TimerInv, PrivateEntries, Holding, MemoryParts, CallTypes, CallShapes, Procs
  <2>3. \A k \in Jobs : held'[c] # uuid'[k] /\ (k = j \/ cron'[k] = cron[k])
    BY <1>3, <1>0 DEF Remove, Call, Forget, TimerInv, EntryOwners, MemoryParts, CallTypes, Procs
  <2> QED
    BY <2>1, <2>2, <2>3, <1>0, CutOffGrows DEF TimerInv, BadUpdates
<1>4. ASSUME NEW c \in Clients, Register(c) PROVE BadUpdates'
  <2>1. /\ UNCHANGED <<cron, cutOff>> /\ \A k \in Jobs : Updating(k) => Updating(k)'
    BY <1>4, <1>0 DEF Register, Return, FreshTimers, Updating, CallTypes, Procs
  <2>2. ASSUME NEW p \in Procs, NEW k \in Jobs, pc'[p] = "unregister", job'[p] = k,
               want'[p] \in BadCrons, uuid'[k] = held'[p]
        PROVE  pc[p] = "unregister" /\ job[p] = k /\ want[p] \in BadCrons /\ uuid[k] = held[p]
    BY <1>4, <1>0, <2>2 DEF Register, Return, FreshTimers, TimerInv, PrivateEntries, Holding, MemoryParts, CallTypes, CallShapes, Procs
  <2> QED
    BY <2>1, <2>2, <1>0, CutOffGrows DEF TimerInv, BadUpdates
<1>5. ASSUME NEW c \in Clients, Insert(c) PROVE BadUpdates'
  BY CutOffGrows, <1>5, <1>0 DEF Insert, Store, Goto, TimerInv, PrivateEntries, EntryOwners,
      BadUpdates, Updating, Holding, MemoryParts, CallTypes, CallShapes, Procs
<1>6. ASSUME NEW c \in Clients, Unregister(c) PROVE BadUpdates'
  BY CutOffGrows, <1>6, <1>0 DEF Unregister, Goto, TimerInv, PrivateEntries, EntryOwners, BadUpdates,
      Updating, Holding, MemoryParts, CallTypes, CallShapes, Procs
<1>7. ASSUME NEW c \in Clients, Replace(c) PROVE BadUpdates'
  BY CutOffGrows, <1>7, <1>0 DEF Replace, Goto, TimerInv, PrivateEntries, EntryOwners, BadUpdates,
      Updating, Holding, MemoryParts, CallTypes, CallShapes, Procs
<1>8. ASSUME NEW c \in Clients, ListCompare(c) PROVE BadUpdates'
  BY CutOffGrows, <1>8, <1>0 DEF ListCompare, Goto, TimerInv, PrivateEntries, EntryOwners,
      BadUpdates, Updating, Holding, MemoryParts, CallTypes, CallShapes, Procs
<1>9. ASSUME NEW c \in Clients, NEW j \in Jobs, SyncRegister(c, j) PROVE BadUpdates'
  BY CutOffGrows, <1>9, <1>0 DEF SyncRegister, FreshTimers, TimerInv, PrivateEntries, EntryOwners,
      BadUpdates, Updating, Holding, MemoryParts, CallTypes, CallShapes, Procs
<1>10. ASSUME NEW c \in Clients, SyncInsert(c) PROVE BadUpdates'
  <2>1. cutOff' = cutOff /\ \A k \in Jobs : Updating(k) => Updating(k)'
    BY <1>10, <1>0 DEF SyncInsert, Updating, CallTypes, Procs
  <2>2. ASSUME NEW p \in Procs, NEW k \in Jobs, pc'[p] = "unregister", job'[p] = k,
               want'[p] \in BadCrons, uuid'[k] = held'[p]
        PROVE  /\ pc[p] = "unregister" /\ job[p] = k /\ want[p] \in BadCrons
               /\ uuid[k] = held[p] /\ cron'[k] = cron[k]
    <3>1. p # c /\ held[c] # held[p] /\ job[c] \in Jobs /\ held[p] = held'[p]
      BY <1>10, <1>0, <2>2 DEF SyncInsert, CallTypes, CallShapes, TimerInv, PrivateEntries, Holding, Procs
    <3> QED
      BY <3>1, <1>10, <1>0, <2>2 DEF SyncInsert, Store, MemoryParts, CallTypes, Procs
  <2> QED
    BY <2>1, <2>2, <1>0, CutOffGrows DEF TimerInv, BadUpdates
<1>11. ASSUME NEW c \in Clients, NEW j \in Jobs, NEW e \in Timers, SyncUnregister(c, j, e) PROVE BadUpdates'
  BY CutOffGrows, <1>11, <1>0 DEF SyncUnregister, TimerInv, PrivateEntries, EntryOwners, BadUpdates,
      Updating, Holding, MemoryParts, CallTypes, CallShapes, Procs
<1>12. ASSUME NEW c \in Clients, SyncDrop(c) PROVE BadUpdates'
  BY CutOffGrows, <1>12, <1>0 DEF SyncDrop, Forget, TimerInv, PrivateEntries, EntryOwners,
      BadUpdates, Updating, Holding, MemoryParts, CallTypes, CallShapes, Procs
<1>13. ASSUME Restart PROVE BadUpdates'
  BY <1>13, <1>0 DEF Restart, TimerInv, PrivateEntries, EntryOwners, BadUpdates,
      Updating, CutOffIn, Holding, MemoryParts, CallTypes, CallShapes, Procs
<1>14. CASE Quiet
  BY <1>14, QuietKeeps DEF TimerInv
<1>15. CallTypes
  BY DEF TypeOK
<1>16. ASSUME NEW c \in Clients, Abandon(c) PROVE BadUpdates'
  <2>1. /\ cutOff \subseteq cutOff' /\ UNCHANGED <<cron, uuid>>
        /\ pc'[c] = "idle"
        /\ \A q \in Procs \ {c} : /\ pc'[q] = pc[q] /\ job'[q] = job[q] /\ op'[q] = op[q]
                                  /\ want'[q] = want[q] /\ held'[q] = held[q]
    BY <1>16, <1>0, CutOffNow DEF Abandon, Return, CallTypes, Procs
  <2>2. \A j \in Jobs : Updating(j) => Updating(j)' \/ CutOffIn({"update", "list"}, j)'
    BY <2>1, <1>16, CutOffNow DEF Abandon, Updating, Procs
  <2> QED
    BY <2>1, <2>2, <1>0, CutOffGrows DEF TimerInv, BadUpdates
<1> QED
  BY <1>16, QuietFrame, <1>1, <1>2, <1>3, <1>4, <1>5, <1>6, <1>7, <1>8, <1>9, <1>10, <1>11,
      <1>12, <1>13, <1>14, <1>15

\* A job in the map keeps an entry.
LEMMA HasTimerStep ==
    ASSUME TypeOK, TimerInv, Next
    PROVE  JobHasTimer'
<1>0. /\ TimerInv /\ MemoryParts /\ CallTypes /\ CallShapes
      /\ timer \in [Timers -> [job : Jobs, cron : Crons] \cup {NoTimer}]
      /\ drops \in [Clients -> SUBSET (Jobs \X Timers)]
      /\ None \notin Timers /\ None \notin Crons /\ BadCrons \subseteq Crons
  BY MemoryForms, ProcsAssumption, CronsAssumption DEF TypeOK, RuntimeTypes, SyncTypes
<1>1. ASSUME NEW c \in Clients, NEW j \in Jobs, NEW cr \in Crons, Add(c, j, cr) PROVE JobHasTimer'
  BY <1>1, <1>0, CutOffGrows DEF Add, Call, TimerInv, PrivateEntries, EntryOwners, BadUpdates,
      JobHasTimer, Updating, Holding, MemoryParts, CallTypes, CallShapes, Procs
<1>2. ASSUME NEW c \in Clients, NEW j \in Jobs, NEW cr \in Crons, Update(c, j, cr) PROVE JobHasTimer'
  BY <1>2, <1>0, CutOffGrows DEF Update, Call, TimerInv, PrivateEntries, EntryOwners, BadUpdates,
      JobHasTimer, Updating, Holding, MemoryParts, CallTypes, CallShapes, Procs
<1>3. ASSUME NEW c \in Clients, NEW j \in Jobs, Remove(c, j) PROVE JobHasTimer'
  BY <1>3, <1>0, CutOffGrows DEF Remove, Call, Forget, TimerInv, PrivateEntries, EntryOwners,
      BadUpdates, JobHasTimer, Updating, Holding, MemoryParts, CallTypes, CallShapes,
      Procs
<1>4. ASSUME NEW c \in Clients, Register(c) PROVE JobHasTimer'
  <2> SUFFICES ASSUME NEW j \in jobs,
                      timer'[uuid[j]].job # j, cron[j] \notin BadCrons,
                      ~\E d \in Clients : pc[d] = "sync_drop" /\ job[d] = j,
                      ~CutOffIn({"update", "list"}, j)
               PROVE  Updating(j)'
    BY <1>4, <1>0, CutOffGrows DEF Register, Return, JobHasTimer, CallTypes, Procs
  <2>1. uuid[j] \in Timers /\ timer'[uuid[j]] = timer[uuid[j]]
    BY <1>4, <1>0, CutOffGrows DEF Register, FreshTimers, MemoryParts
  <2>2. PICK d \in Clients : /\ op[d] = "update" /\ job[d] = j /\ want[d] \notin BadCrons
                             /\ pc[d] \in {"unregister", "register", "replace"}
    BY <1>0, <2>1 DEF TimerInv, JobHasTimer, Updating
  <2> QED
    BY <1>4, <1>0, <2>2 DEF Register, Return, Updating, CallTypes, Procs
<1>5. ASSUME NEW c \in Clients, Insert(c) PROVE JobHasTimer'
  BY <1>5, <1>0, CutOffGrows DEF Insert, Store, Goto, TimerInv, PrivateEntries, EntryOwners,
      BadUpdates, JobHasTimer, Updating, Holding, MemoryParts, CallTypes, CallShapes,
      Procs
<1>6. ASSUME NEW c \in Clients, Unregister(c) PROVE JobHasTimer'
  BY <1>6, <1>0, CutOffGrows DEF Unregister, Goto, TimerInv, PrivateEntries, EntryOwners, BadUpdates,
      JobHasTimer, Updating, Holding, MemoryParts, CallTypes, CallShapes, Procs
<1>7. ASSUME NEW c \in Clients, Replace(c) PROVE JobHasTimer'
  BY <1>7, <1>0, CutOffGrows DEF Replace, Goto, TimerInv, PrivateEntries, EntryOwners, BadUpdates,
      JobHasTimer, Updating, Holding, MemoryParts, CallTypes, CallShapes, Procs
<1>8. ASSUME NEW c \in Clients, ListCompare(c) PROVE JobHasTimer'
  BY <1>8, <1>0, CutOffGrows DEF ListCompare, Goto, TimerInv, PrivateEntries, EntryOwners,
      BadUpdates, JobHasTimer, Updating, Holding, MemoryParts, CallTypes, CallShapes,
      Procs
<1>9. ASSUME NEW c \in Clients, NEW j \in Jobs, SyncRegister(c, j) PROVE JobHasTimer'
  BY <1>9, <1>0, CutOffGrows DEF SyncRegister, FreshTimers, TimerInv, PrivateEntries, EntryOwners,
      BadUpdates, JobHasTimer, Updating, Holding, MemoryParts, CallTypes, CallShapes,
      Procs
<1>10. ASSUME NEW c \in Clients, SyncInsert(c) PROVE JobHasTimer'
  BY <1>10, <1>0, CutOffGrows DEF SyncInsert, Store, TimerInv, PrivateEntries, EntryOwners,
      BadUpdates, JobHasTimer, Updating, Holding, MemoryParts, CallTypes, CallShapes,
      Procs
<1>11. ASSUME NEW c \in Clients, NEW j \in Jobs, NEW e \in Timers, SyncUnregister(c, j, e) PROVE JobHasTimer'
  BY <1>11, <1>0, CutOffGrows DEF SyncUnregister, TimerInv, PrivateEntries, EntryOwners, BadUpdates,
      JobHasTimer, Updating, Holding, MemoryParts, CallTypes, CallShapes, Procs
<1>12. ASSUME NEW c \in Clients, SyncDrop(c) PROVE JobHasTimer'
  BY <1>12, <1>0, CutOffGrows DEF SyncDrop, Forget, TimerInv, PrivateEntries, EntryOwners,
      BadUpdates, JobHasTimer, Updating, Holding, MemoryParts, CallTypes, CallShapes,
      Procs
<1>13. ASSUME Restart PROVE JobHasTimer'
  <2> SUFFICES ASSUME NEW j \in jobs' PROVE timer'[uuid'[j]].job = j
    BY DEF JobHasTimer
  <2>1. /\ uuid'[j] \in Timers
        /\ \A i \in jobs' : uuid'[i] = uuid'[j] => i = j
    BY <1>13, RestartLoads
  <2> DEFINE k == CHOOSE i \in jobs' : uuid'[i] = uuid'[j]
  <2>2. k \in jobs' /\ uuid'[k] = uuid'[j]
    OBVIOUS
  <2>3. timer'[uuid'[j]] = [job |-> k, cron |-> cron'[k]]
    BY <1>13, <2>1 DEF Restart
  <2> HIDE DEF k
  <2> QED
    BY <2>1, <2>2, <2>3
<1>14. CASE Quiet
  BY <1>14, QuietKeeps DEF TimerInv
<1>15. CallTypes
  BY DEF TypeOK
<1>16. ASSUME NEW c \in Clients, Abandon(c) PROVE JobHasTimer'
  <2>1. /\ cutOff \subseteq cutOff' /\ UNCHANGED <<jobs, cron, uuid, timer>>
        /\ \A q \in Procs \ {c} : /\ pc'[q] = pc[q] /\ job'[q] = job[q] /\ op'[q] = op[q]
                                  /\ want'[q] = want[q]
    BY <1>16, <1>0, CutOffNow DEF Abandon, Return, CallTypes, Procs
  <2>2. \A j \in Jobs : Updating(j) => Updating(j)' \/ CutOffIn({"update", "list"}, j)'
    BY <2>1, <1>16, CutOffNow DEF Abandon, Updating, Procs
  <2>3. ASSUME NEW j \in Jobs, pc[c] = "sync_drop", job[c] = j
        PROVE  CutOffIn({"update", "list"}, j)'
    <3>1. op[c] = "list"
      BY <2>3, <1>0 DEF CallShapes, Procs
    <3> QED
      BY <2>3, <3>1, <1>16, CutOffNow DEF Abandon
  <2> SUFFICES ASSUME NEW j \in jobs, ~CutOffIn({"update", "list"}, j)',
                      timer'[uuid'[j]].job # j, cron'[j] \notin BadCrons, ~Updating(j)'
               PROVE  \E d \in Clients : pc'[d] = "sync_drop" /\ job'[d] = j
    <3>1. jobs' = jobs
      BY <2>1
    <3> QED
      BY <3>1 DEF JobHasTimer
  <2>4. j \in Jobs /\ ~CutOffIn({"update", "list"}, j)
    BY <1>0, <2>1, CutOffGrows DEF MemoryParts
  <2>5. PICK d \in Clients : pc[d] = "sync_drop" /\ job[d] = j
    BY <1>0, <2>1, <2>2, <2>4 DEF TimerInv, JobHasTimer
  <2> QED
    BY <2>1, <2>3, <2>4, <2>5 DEF Procs
<1> QED
  BY <1>16, QuietFrame, <1>1, <1>2, <1>3, <1>4, <1>5, <1>6, <1>7, <1>8, <1>9, <1>10, <1>11,
      <1>12, <1>13, <1>14, <1>15

-----------------------------------------------------------------------------
(* The theorems.                                                           *)

\* The inductive invariant. RunningIsBacked and EveryChangeIsSaved need to know
\* that without a list no call is in a sync (NoStraySync); JobHasTimer needs to
\* know who holds which entry.
IInv == TypeOK /\ TokensAreLive /\ NoStraySync /\ RunningIsBacked /\ EveryChangeIsSaved /\ TimerInv

\* The scheduler starts with it.
LEMMA IInvInit == Init => IInv
<1> SUFFICES ASSUME Init PROVE IInv
  OBVIOUS
<1>1. TypeOK
  BY TypeInit
<1>2. TokensAreLive /\ NoStraySync /\ RunningIsBacked
  BY DEF Init, TokensAreLive, NoStraySync, RunningIsBacked
<1>3. EveryChangeIsSaved
  BY DEF Init, EveryChangeIsSaved, SavedAs, Empty
<1>4. TimerInv
  BY DEF Init, TimerInv, PrivateEntries, EntryOwners, BadUpdates, JobHasTimer, Holding
<1> QED
  BY <1>1, <1>2, <1>3, <1>4 DEF IInv

\* Every step keeps who has which entry.
LEMMA TimerInvStep ==
    ASSUME TypeOK, TimerInv, [Next]_vars
    PROVE  TimerInv'
<1>1. CASE Next
  BY <1>1, PrivateStep, OwnersStep, BadUpdatesStep, HasTimerStep DEF TimerInv
<1>2. CASE UNCHANGED vars
  <2>1. Quiet
    BY <1>2 DEF Quiet
  <2> QED
    BY <2>1, QuietKeeps
<1> QED
  BY <1>1, <1>2

\* Every step of the scheduler, of another process and of a restart keeps the
\* inductive invariant.
LEMMA IInvStep == IInv /\ [Next]_vars => IInv'
  BY TypeStep, TokensStep, NoStraySyncStep, BackedStep, SavedStep, TimerInvStep DEF IInv

\* The inductive invariant holds in every state the scheduler reaches.
THEOREM Invariance == Spec => []IInv
  BY IInvInit, IInvStep, PTL DEF Spec

\* The job map and every copy of it (the file, what a sync has read, what
\* another process has loaded) stay lists of jobs, and every call holds at each
\* of its steps what that step uses.
THEOREM TypeCorrect == Spec => []TypeOK
<1>1. IInv => TypeOK
  BY DEF IInv
<1> QED
  BY <1>1, Invariance, PTL

\* Whatever runs of one job overlap, whoever kills them and whichever callers are
\* dropped, running_tasks holds the tokens of runs in progress, each under the id
\* of its own job, and of dropped run_now calls on that job.
THEOREM LiveTokens == Spec => []TokensAreLive
<1>1. IInv => TokensAreLive
  BY DEF IInv
<1> QED
  BY <1>1, Invariance, PTL

\* As long as nobody lists, a job marked running has a run in progress, or one of
\* its own run_now calls was dropped or failed to write: no mark is left behind by
\* overlapping ticks, run_now, kill, remove, another dropped call, another failed
\* write or a crash.
THEOREM BackedMarks == Spec => []RunningIsBacked
<1>1. IInv => RunningIsBacked
  BY DEF IInv
<1> QED
  BY <1>1, Invariance, PTL

\* When callers do not list and nobody else writes the file, no interleaving of
\* calls, runs and restarts leaves a change of the job map out of the file with
\* nobody about to write it; a dropped call or a failed write does so with the
\* change of its own job only, until the next write.
THEOREM SavedChanges == Spec => []EveryChangeIsSaved
<1>1. IInv => EveryChangeIsSaved
  BY DEF IInv
<1> QED
  BY <1>1, Invariance, PTL

\* With any number of concurrent callers, syncs, dropped calls, restarts and failed
\* writes, every job in the map has a registered cron entry of its own, but for the
\* exceptions JobHasTimer names.
THEOREM JobsFire == Spec => []JobHasTimer
<1>1. IInv => JobHasTimer
  BY DEF IInv, TimerInv
<1> QED
  BY <1>1, Invariance, PTL

-----------------------------------------------------------------------------
(* One caller.                                                             *)
(*                                                                         *)
(* With concurrent callers an entry can be left behind to fire twice: that *)
(* is why FiresAsShown and ListMergesTheFile are about one caller.  Ticks, *)
(* restarts, failed writes and other processes are still unconstrained.    *)

OneCaller == \A c, d \in Clients : c = d

\* The entry is that of a job in the map and fires at the expression it shows.
InMap(e) == \E j \in jobs : uuid[j] = e /\ timer[e] = [job |-> j, cron |-> cron[j]]

\* The caller is about to put the entry in the map, or to remove it.
InHand(e) ==
    \E c \in Clients : held[c] = e /\ pc[c] \in {"unregister", "insert", "replace", "sync_insert"}

\* A call that registers or removes entries of the entry's job was dropped.
Lost(e) == CutOffIn({"add", "update", "remove", "list"}, timer[e].job)

\* No registered entry is forgotten, but by a dropped call.
EntriesAccounted == \A e \in Timers : timer[e] # NoTimer => InMap(e) \/ InHand(e) \/ Lost(e)

\* The entry a job is said to have is registered for no other job.
OwnEntries == \A j \in jobs : timer[uuid[j]] = NoTimer \/ timer[uuid[j]].job = j

\* What a caller that registered an entry will show for the job.
HeldAsShown ==
    \A c \in Clients :
        /\ pc[c] \in {"insert", "replace"} => timer[held[c]] = [job |-> job[c], cron |-> want[c]]
        /\ pc[c] = "sync_insert" =>
              timer[held[c]] = [job |-> job[c], cron |-> snap[c].cron[job[c]]]
        /\ pc[c] = "unregister" => timer[held[c]] = NoTimer \/ timer[held[c]].job = job[c]

\* What the only caller read under the lock still holds at its later steps.
StillTrue ==
    \A c \in Clients :
        /\ pc[c] = "insert" \/ (pc[c] = "register" /\ op[c] = "add") => job[c] \notin jobs
        /\ pc[c] = "unregister" /\ op[c] = "update" =>
              job[c] \in jobs /\ cron[job[c]] = want[c] /\ uuid[job[c]] = held[c]
        /\ pc[c] = "replace" \/ (pc[c] = "register" /\ op[c] = "update") =>
              job[c] \in jobs /\ cron[job[c]] = want[c] /\ timer[uuid[job[c]]] = NoTimer
        /\ pc[c] = "sync_insert" => job[c] \notin jobs \cup adds[c]
        /\ pc[c] = "sync_drop" => /\ job[c] \in jobs /\ timer[uuid[job[c]]] = NoTimer
                                  /\ \A e \in Timers : <<job[c], e>> \notin drops[c]
        /\ adds[c] \cap jobs = {}
        /\ \A j \in Jobs, e \in Timers : <<j, e>> \in drops[c] => j \in jobs /\ uuid[j] = e

\* What a sync has still to add and to remove completes the merge.
MergeUnderWay ==
    \A c \in Clients : pc[c] \in {"sync", "sync_insert", "sync_drop"} =>
        /\ Loadable(snap[c]) \subseteq
              jobs \cup adds[c] \cup (IF pc[c] = "sync_insert" THEN {job[c]} ELSE {})
        /\ pc[c] = "sync_drop" => job[c] \notin snap[c].jobs
        /\ \A j \in Jobs, e \in Timers : <<j, e>> \in drops[c] => j \notin snap[c].jobs

OneCallerInv == EntriesAccounted /\ OwnEntries /\ HeldAsShown /\ StillTrue /\ MergeUnderWay

\* The steps at which a caller is in the middle of a sync.
Syncing == {"sync", "sync_insert", "sync_drop"}

\* Only ListCompare, SyncInsert and SyncDrop go to the main loop of a sync.
LEMMA SyncEntered ==
    ASSUME CallTypes, Next, NEW c \in Clients, pc'[c] = "sync"
    PROVE  pc[c] = "sync" \/ ListCompare(c) \/ SyncInsert(c) \/ SyncDrop(c)
<1> USE DEF CallTypes, Procs
<1>1. ASSUME NEW d \in Clients, Request(d) PROVE pc[c] = "sync"
  BY <1>1 DEF Request, ScheduleRecipe, Add, Update, Remove, Pause, Unpause, Kill, RunNow,
      ListRead, Call
<1>2. ASSUME NEW d \in Clients,
             Register(d) \/ Insert(d) \/ Unregister(d) \/ Replace(d) \/ CancelToken(d) \/ Unmark(d)
      PROVE  pc[c] = "sync"
  BY <1>2 DEF Register, Insert, Unregister, Replace, CancelToken, Unmark, Goto, Return
<1>3. ASSUME NEW d \in Clients, Sync(d)
      PROVE  pc[c] = "sync" \/ ListCompare(c) \/ SyncInsert(c) \/ SyncDrop(c)
  <2>1. c # d => pc[c] = "sync"
    BY <1>3 DEF Sync, ListCompare, SyncRegister, SyncInsert, SyncUnregister, SyncDrop,
        ListReturns, Goto, Return
  <2>2. c = d => ListCompare(c) \/ SyncInsert(c) \/ SyncDrop(c)
    BY <1>3 DEF Sync, SyncRegister, SyncUnregister, ListReturns, Return
  <2> QED
    BY <2>1, <2>2
<1>4. ASSUME NEW t \in Ticks, (\E e \in Timers : Fire(t, e)) \/ CheckDue(t) \/ Mark(t)
      PROVE  pc[c] = "sync"
  BY <1>4 DEF Fire, CheckDue, Mark, Goto, Return
<1>5. ASSUME NEW p \in Procs, RunStep(p) \/ ExecuteEnds(p) PROVE pc[c] = "sync"
  BY <1>5 DEF RunStep, SaveStart, PutToken, DropToken, Finish, Save, ExecuteEnds, Goto, Return
<1>6. ASSUME \/ OtherLoads
             \/ \E j \in Jobs, cr \in Crons : OtherAdds(j, cr)
             \/ \E j \in Jobs : OtherRemoves(j)
      PROVE  pc[c] = "sync"
  BY <1>6 DEF OtherLoads, OtherAdds, OtherRemoves
<1>8. ASSUME NEW d \in Clients, Abandon(d) PROVE pc[c] = "sync"
  BY <1>8 DEF Abandon, Return
<1>7. ~Restart
  BY DEF Restart
<1> QED
  BY <1>1, <1>2, <1>3, <1>4, <1>5, <1>6, <1>7, <1>8 DEF Next, ClientStep

\* A list returns from its main loop with nothing left to register.
LEMMA SyncLeft ==
    ASSUME CallTypes, HistoryTypes, Next, NEW c \in Clients, pc[c] = "sync", pc'[c] = "idle",
           faults' = faults
    PROVE  adds[c] = {}
<1> USE DEF CallTypes, Procs
<1>1. ASSUME NEW d \in Clients, Request(d) PROVE FALSE
  BY <1>1 DEF Request, ScheduleRecipe, Add, Update, Remove, Pause, Unpause, Kill, RunNow,
      ListRead, Call
<1>2. ASSUME NEW d \in Clients,
             Register(d) \/ Insert(d) \/ Unregister(d) \/ Replace(d) \/ CancelToken(d) \/ Unmark(d)
      PROVE  FALSE
  BY <1>2 DEF Register, Insert, Unregister, Replace, CancelToken, Unmark, Goto, Return
<1>3. ASSUME NEW d \in Clients, Sync(d) PROVE adds[c] = {}
  BY <1>3 DEF Sync, ListCompare, SyncRegister, SyncInsert, SyncUnregister, SyncDrop,
      ListReturns, Goto, Return
<1>4. ASSUME NEW t \in Ticks, (\E e \in Timers : Fire(t, e)) \/ CheckDue(t) \/ Mark(t)
      PROVE  FALSE
  BY <1>4, ProcsAssumption DEF Fire, CheckDue, Mark, Goto, Return
<1>5. ASSUME NEW p \in Procs, RunStep(p) \/ ExecuteEnds(p) PROVE FALSE
  BY <1>5 DEF RunStep, SaveStart, PutToken, DropToken, Finish, Save, ExecuteEnds, Goto, Return
<1>6. ASSUME \/ OtherLoads
             \/ \E j \in Jobs, cr \in Crons : OtherAdds(j, cr)
             \/ \E j \in Jobs : OtherRemoves(j)
      PROVE  FALSE
  BY <1>6 DEF OtherLoads, OtherAdds, OtherRemoves
<1>7. ~Restart /\ \A d \in Clients : ~Abandon(d)
  <2>1. Restart \/ (\E d \in Clients : Abandon(d)) => faults' = faults + 1
    BY DEF Restart, Abandon
  <2>2. faults + 1 # faults
    BY DEF HistoryTypes
  <2> QED
    BY <2>1, <2>2
<1> QED
  BY <1>1, <1>2, <1>3, <1>4, <1>5, <1>6, <1>7 DEF Next, ClientStep

\* A quiet step that does not touch a sync in progress either.
Calm ==
    /\ Quiet /\ UNCHANGED adds
    /\ \A c \in Clients : pc'[c] \in Syncing => pc'[c] = pc[c] /\ snap'[c] = snap[c]

\* The steps that move entries or go on with a sync.
LEMMA CalmFrame ==
    ASSUME CallTypes, Next
    PROVE  \/ Calm
           \/ \E c \in Clients, j \in Jobs, cr \in Crons : Add(c, j, cr)
           \/ \E c \in Clients, j \in Jobs, cr \in Crons : Update(c, j, cr)
           \/ \E c \in Clients, j \in Jobs : Remove(c, j)
           \/ \E c \in Clients : Register(c)
           \/ \E c \in Clients : Insert(c)
           \/ \E c \in Clients : Unregister(c)
           \/ \E c \in Clients : Replace(c)
           \/ \E c \in Clients : ListCompare(c)
           \/ \E c \in Clients, j \in Jobs : SyncRegister(c, j)
           \/ \E c \in Clients : SyncInsert(c)
           \/ \E c \in Clients, j \in Jobs, e \in Timers : SyncUnregister(c, j, e)
           \/ \E c \in Clients : SyncDrop(c)
           \/ \E c \in Clients : Abandon(c)
           \/ Restart
<1> SUFFICES ASSUME Quiet,
                    ~Restart, \A c \in Clients : ~Abandon(c),
                    \A c \in Clients : ~ListCompare(c) /\ ~SyncInsert(c) /\ ~SyncDrop(c),
                    \A c \in Clients, j \in Jobs : ~SyncRegister(c, j),
                    \A c \in Clients, j \in Jobs, e \in Timers : ~SyncUnregister(c, j, e)
             PROVE  Calm
  BY QuietFrame
<1>1. \/ UNCHANGED syncs
      \/ \E c \in Clients : ListRead(c)
      \/ \E c \in Clients : ListReturns(c)
  BY SyncFrame
<1>2. UNCHANGED adds
  BY <1>1 DEF ListRead, ListReturns
<1>3. ASSUME NEW c \in Clients, pc'[c] \in Syncing PROVE pc'[c] = pc[c]
  BY <1>3, SyncEntered DEF Syncing, Quiet, Procs
<1>4. ASSUME NEW c \in Clients, pc'[c] \in Syncing PROVE snap'[c] = snap[c]
  <2>1. CASE \E d \in Clients : ListRead(d) /\ d # c
    BY <2>1 DEF ListRead
  <2>2. CASE \E d \in Clients : ListReturns(d) /\ d # c
    BY <2>2 DEF ListReturns
  <2>3. ~ListRead(c) /\ ~ListReturns(c)
    BY <1>4 DEF ListRead, Call, ListReturns, Return, Syncing, CallTypes, Procs
  <2> QED
    BY <1>1, <2>1, <2>2, <2>3
<1> QED
  BY <1>2, <1>3, <1>4 DEF Calm

\* What the four lemmas below use of the types.
OneCallerParts ==
    /\ EntriesAccounted /\ OwnEntries /\ HeldAsShown /\ StillTrue /\ MergeUnderWay
    /\ MemoryParts /\ CallTypes /\ CallShapes
    /\ timer \in [Timers -> [job : Jobs, cron : Crons] \cup {NoTimer}]
    /\ adds \in [Clients -> SUBSET Jobs]
    /\ drops \in [Clients -> SUBSET (Jobs \X Timers)]
    /\ \A c \in Clients : pc[c] \notin Syncing => adds[c] = {} /\ drops[c] = {}
    /\ None \notin Timers /\ None \notin Crons /\ None \notin Jobs

LEMMA OneCallerTypes ==
    ASSUME TypeOK, OneCallerInv
    PROVE  OneCallerParts
  BY MemoryForms, ProcsAssumption, CronsAssumption, JobsAssumption
  DEF TypeOK, RuntimeTypes, SyncTypes, OneCallerInv, OneCallerParts, Syncing

\* Restart leaves no call behind and registers an entry for each job it loads.
LEMMA RestartRegisters ==
    ASSUME TypeOK, Restart
    PROVE  /\ \A e \in Timers : timer'[e] # NoTimer => InMap(e)'
           /\ \A c \in Clients : /\ pc'[c] = "idle" /\ adds'[c] = {} /\ drops'[c] = {}
           /\ OwnEntries'
<1>1. ASSUME NEW e \in Timers, timer'[e] # NoTimer PROVE InMap(e)'
  <2>1. PICK i \in jobs' : uuid'[i] = e
    BY <1>1 DEF Restart
  <2> DEFINE k == CHOOSE j \in jobs' : uuid'[j] = e
  <2>2. k \in jobs' /\ uuid'[k] = e
    BY <2>1
  <2>3. timer'[e] = [job |-> k, cron |-> cron'[k]]
    BY <2>1 DEF Restart
  <2> HIDE DEF k
  <2> QED
    BY <2>2, <2>3 DEF InMap
<1>2. /\ pc' = [p \in Procs |-> "idle"]
      /\ adds' = [c \in Clients |-> {}] /\ drops' = [c \in Clients |-> {}]
  BY DEF Restart
<1>3. /\ \A j \in jobs' : uuid'[j] \in Timers
      /\ \A i, j \in jobs' : uuid'[i] = uuid'[j] => i = j
  BY RestartLoads
<1>4. OwnEntries'
  <2> SUFFICES ASSUME NEW j \in jobs', timer'[uuid'[j]] # NoTimer
               PROVE  timer'[uuid'[j]].job = j
    BY DEF OwnEntries
  <2>1. PICK i \in jobs' : /\ uuid'[i] = uuid'[j]
                           /\ timer'[uuid'[j]] = [job |-> i, cron |-> cron'[i]]
    BY <1>1, <1>3 DEF InMap
  <2> QED
    BY <1>3, <2>1
<1> QED
  BY <1>1, <1>2, <1>4 DEF Procs

\* A registered entry stays as it is until it is removed.
LEMMA EntryStays ==
    ASSUME TypeOK, Next, ~Restart, NEW e \in Timers, timer[e] # NoTimer, timer'[e] # NoTimer
    PROVE  timer'[e] = timer[e] /\ cutOff \subseteq cutOff'
<1>0. CallTypes /\ timer \in [Timers -> [job : Jobs, cron : Crons] \cup {NoTimer}]
  BY DEF TypeOK, RuntimeTypes
<1>1. ASSUME NEW c \in Clients, Register(c) PROVE timer'[e] = timer[e] /\ cutOff' = cutOff
  BY <1>0, <1>1 DEF Register, FreshTimers
<1>2. ASSUME NEW c \in Clients, Unregister(c) PROVE timer'[e] = timer[e] /\ cutOff' = cutOff
  BY <1>0, <1>2 DEF Unregister
<1>3. ASSUME NEW c \in Clients, NEW j \in Jobs, SyncRegister(c, j)
      PROVE  timer'[e] = timer[e] /\ cutOff' = cutOff
  BY <1>0, <1>3 DEF SyncRegister, FreshTimers
<1>4. ASSUME NEW c \in Clients, NEW j \in Jobs, NEW g \in Timers, SyncUnregister(c, j, g)
      PROVE  timer'[e] = timer[e] /\ cutOff' = cutOff
  BY <1>0, <1>4 DEF SyncUnregister
<1>5. ASSUME NEW c \in Clients, Abandon(c) PROVE timer' = timer /\ cutOff \subseteq cutOff'
  BY <1>5, CutOffNow DEF Abandon
<1>6. CASE Calm
  BY <1>6 DEF Calm, Quiet
<1> QED
  BY <1>0, <1>1, <1>2, <1>3, <1>4, <1>5, <1>6, CalmFrame, Frames

\* No step forgets an entry.
LEMMA AccountedStep ==
    ASSUME OneCaller, TypeOK, TimerInv, OneCallerInv, Next
    PROVE  EntriesAccounted'
<1>0. OneCaller /\ OneCallerParts /\ PrivateEntries /\ EntryOwners
  BY OneCallerTypes DEF OneCallerInv, TimerInv
<1>13. CASE Restart
  BY <1>13, RestartRegisters DEF EntriesAccounted
<1> SUFFICES ASSUME ~Restart, NEW e \in Timers, timer'[e] # NoTimer, ~Lost(e)'
             PROVE  InMap(e)' \/ InHand(e)'
  BY <1>13 DEF EntriesAccounted
<1>b. timer[e] # NoTimer => timer'[e] = timer[e] /\ cutOff \subseteq cutOff'
  BY EntryStays, <1>0 DEF OneCallerParts, TypeOK
<1>a. timer[e] # NoTimer => InMap(e) \/ InHand(e)
  BY <1>0, <1>b, CutOffGrows DEF OneCallerParts, EntriesAccounted, Lost
<1>1. ASSUME NEW c \in Clients, NEW j \in Jobs, NEW cr \in Crons, Add(c, j, cr)
      PROVE  InMap(e)' \/ InHand(e)'
  BY <1>1, <1>0, <1>a DEF Add, Call, InMap, InHand, OneCaller, OneCallerParts, CallTypes, Procs
<1>2. ASSUME NEW c \in Clients, NEW j \in Jobs, NEW cr \in Crons, Update(c, j, cr)
      PROVE  InMap(e)' \/ InHand(e)'
  BY <1>2, <1>0, <1>a DEF Update, Call, InMap, InHand, OneCaller, OneCallerParts,
      MemoryParts, CallTypes, Procs
<1>3. ASSUME NEW c \in Clients, NEW j \in Jobs, Remove(c, j) PROVE InMap(e)' \/ InHand(e)'
  BY <1>3, <1>0, <1>a DEF Remove, Call, Forget, InMap, InHand, OneCaller, OneCallerParts,
      MemoryParts, CallTypes, Procs
<1>4. ASSUME NEW c \in Clients, Register(c) PROVE InMap(e)' \/ InHand(e)'
  <2>1. CASE timer[e] # NoTimer
    <3>1. InMap(e)
      BY <1>4, <1>0, <1>a, <2>1 DEF Register, InHand, OneCaller
    <3>2. timer'[e] = timer[e]
      BY <1>4, <1>0, <2>1 DEF Register, FreshTimers, OneCallerParts
    <3> QED
      BY <1>4, <3>1, <3>2 DEF Register, InMap
  <2>2. CASE timer[e] = NoTimer
    BY <1>4, <1>0, <2>2 DEF Register, Return, FreshTimers, InHand, OneCallerParts, CallTypes, Procs
  <2> QED
    BY <2>1, <2>2
<1>5. ASSUME NEW c \in Clients, Insert(c) PROVE InMap(e)' \/ InHand(e)'
  <2>1. job[c] \in Jobs /\ job[c] \notin jobs /\ held[c] \in Timers
        /\ timer[held[c]] = [job |-> job[c], cron |-> want[c]]
    BY <1>5, <1>0 DEF Insert, OneCallerParts, StillTrue, HeldAsShown, CallShapes, Procs
  <2>2. timer' = timer /\ (InMap(e) \/ held[c] = e)
    BY <1>5, <1>0, <1>a DEF Insert, InHand, OneCaller
  <2>3. CASE held[c] = e
    BY <1>5, <1>0, <2>1, <2>2, <2>3 DEF Insert, Store, InMap, OneCallerParts, MemoryParts
  <2>4. CASE InMap(e)
    BY <1>5, <1>0, <2>1, <2>2, <2>4 DEF Insert, Store, InMap, OneCallerParts, MemoryParts
  <2> QED
    BY <2>2, <2>3, <2>4
<1>6. ASSUME NEW c \in Clients, Unregister(c) PROVE InMap(e)' \/ InHand(e)'
  <2>1. timer'[e] = timer[e] /\ held[c] # e
    BY <1>6, <1>0 DEF Unregister, OneCallerParts
  <2>2. InMap(e)
    BY <1>6, <1>0, <1>a, <2>1 DEF InHand, OneCaller
  <2> QED
    BY <1>6, <2>1, <2>2 DEF Unregister, InMap
<1>7. ASSUME NEW c \in Clients, Replace(c) PROVE InMap(e)' \/ InHand(e)'
  <2>1. /\ job[c] \in jobs /\ cron[job[c]] = want[c] /\ timer[uuid[job[c]]] = NoTimer
        /\ timer[held[c]] = [job |-> job[c], cron |-> want[c]]
    BY <1>7, <1>0 DEF Replace, OneCallerParts, StillTrue, HeldAsShown
  <2>2. UNCHANGED <<jobs, cron, timer>> /\ uuid' = [uuid EXCEPT ![job[c]] = held[c]]
        /\ (InMap(e) \/ held[c] = e)
    BY <1>7, <1>0, <1>a, <2>1 DEF Replace, InHand, OneCaller
  <2>3. CASE held[c] = e
    BY <1>0, <2>1, <2>2, <2>3 DEF InMap, OneCallerParts, MemoryParts
  <2>4. CASE InMap(e)
    BY <1>0, <2>1, <2>2, <2>4 DEF InMap, OneCallerParts, MemoryParts
  <2> QED
    BY <2>2, <2>3, <2>4
<1>8. ASSUME NEW c \in Clients, ListCompare(c) PROVE InMap(e)' \/ InHand(e)'
  BY <1>8, <1>0, <1>a DEF ListCompare, Goto, InMap, InHand, OneCaller, OneCallerParts, CallTypes,
      Procs
<1>9. ASSUME NEW c \in Clients, NEW j \in Jobs, SyncRegister(c, j)
      PROVE  InMap(e)' \/ InHand(e)'
  <2>1. CASE timer[e] # NoTimer
    <3>1. InMap(e)
      BY <1>9, <1>0, <1>a, <2>1 DEF SyncRegister, InHand, OneCaller
    <3>2. timer'[e] = timer[e]
      BY <1>9, <1>0, <2>1 DEF SyncRegister, FreshTimers, OneCallerParts
    <3> QED
      BY <1>9, <3>1, <3>2 DEF SyncRegister, InMap
  <2>2. CASE timer[e] = NoTimer
    BY <1>9, <1>0, <2>2 DEF SyncRegister, FreshTimers, InHand, OneCallerParts, CallTypes, Procs
  <2> QED
    BY <2>1, <2>2
<1>10. ASSUME NEW c \in Clients, SyncInsert(c) PROVE InMap(e)' \/ InHand(e)'
  <2>1. job[c] \in Jobs /\ job[c] \notin jobs /\ held[c] \in Timers
        /\ timer[held[c]] = [job |-> job[c], cron |-> snap[c].cron[job[c]]]
    BY <1>10, <1>0 DEF SyncInsert, OneCallerParts, StillTrue, HeldAsShown, CallShapes, Procs
  <2>2. timer' = timer /\ (InMap(e) \/ held[c] = e)
    BY <1>10, <1>0, <1>a DEF SyncInsert, InHand, OneCaller
  <2>3. CASE held[c] = e
    BY <1>10, <1>0, <2>1, <2>2, <2>3 DEF SyncInsert, Store, InMap, OneCallerParts, MemoryParts
  <2>4. CASE InMap(e)
    BY <1>10, <1>0, <2>1, <2>2, <2>4 DEF SyncInsert, Store, InMap, OneCallerParts, MemoryParts
  <2> QED
    BY <2>2, <2>3, <2>4
<1>11. ASSUME NEW c \in Clients, NEW j \in Jobs, NEW g \in Timers, SyncUnregister(c, j, g)
       PROVE  InMap(e)' \/ InHand(e)'
  <2>1. timer'[e] = timer[e]
    BY <1>11, <1>0 DEF SyncUnregister, OneCallerParts
  <2>2. InMap(e)
    BY <1>11, <1>0, <1>a, <2>1 DEF SyncUnregister, InHand, OneCaller
  <2> QED
    BY <1>11, <2>1, <2>2 DEF SyncUnregister, InMap
<1>12. ASSUME NEW c \in Clients, SyncDrop(c) PROVE InMap(e)' \/ InHand(e)'
  <2>1. job[c] \in jobs /\ timer[uuid[job[c]]] = NoTimer /\ timer' = timer
    BY <1>12, <1>0 DEF SyncDrop, OneCallerParts, StillTrue
  <2>2. InMap(e)
    BY <1>12, <1>0, <1>a, <2>1 DEF SyncDrop, InHand, OneCaller
  <2> QED
    BY <1>12, <1>0, <2>1, <2>2 DEF SyncDrop, Forget, InMap, OneCallerParts, MemoryParts
<1>14. CASE Calm
  BY <1>14, <1>0, <1>a DEF Calm, Quiet, InMap, InHand, Procs
<1>15. CallTypes
  BY DEF TypeOK
<1>16. ASSUME NEW c \in Clients, Abandon(c) PROVE InMap(e)' \/ InHand(e)'
  <2>1. UNCHANGED <<memory, timer>>
    BY <1>16 DEF Abandon
  <2>2. ASSUME held[c] = e, pc[c] \in {"unregister", "insert", "replace", "sync_insert"}
        PROVE  Lost(e)'
    <3>1. timer[e].job = job[c]
      <4>1. timer[e] # NoTimer
        BY <2>1
      <4>2. CASE pc[c] = "unregister"
        BY <1>0, <2>2, <4>1, <4>2 DEF OneCallerParts, HeldAsShown
      <4>3. CASE pc[c] # "unregister"
        BY <1>0, <2>2, <4>3 DEF PrivateEntries, Holding, Procs
      <4> QED
        BY <4>2, <4>3
    <3>2. job[c] \in Jobs /\ op[c] \in {"add", "update", "remove", "list"}
      BY <1>0, <2>2 DEF OneCallerParts, CallShapes, Procs
    <3>3. CutOffIn({"add", "update", "remove", "list"}, timer[e].job)'
      BY <3>1, <3>2, <2>1, <1>16, CutOffNow DEF Abandon, CutOffIn
    <3> QED
      BY <3>3 DEF Lost
  <2> QED
    BY <1>a, <1>0, <2>1, <2>2 DEF InMap, InHand, OneCaller
<1> QED
  BY CalmFrame, <1>16, <1>1, <1>2, <1>3, <1>4, <1>5, <1>6, <1>7, <1>8, <1>9, <1>10, <1>11,
      <1>12, <1>13, <1>14, <1>15

\* An entry put in the map is that of its job.
LEMMA OwnStep ==
    ASSUME TypeOK, TimerInv, OwnEntries, Next
    PROVE  OwnEntries'
<1>0. /\ OwnEntries /\ PrivateEntries /\ MemoryParts /\ CallTypes /\ CallShapes
      /\ timer \in [Timers -> [job : Jobs, cron : Crons] \cup {NoTimer}]
      /\ None \notin Timers
  BY MemoryForms, ProcsAssumption DEF TypeOK, RuntimeTypes, TimerInv
<1>1. ASSUME NEW c \in Clients, NEW j \in Jobs, NEW cr \in Crons, Add(c, j, cr) \/ Update(c, j, cr)
      PROVE  OwnEntries'
  BY <1>0, <1>1 DEF Add, Update, OwnEntries
<1>2. ASSUME NEW c \in Clients, NEW j \in Jobs, Remove(c, j) PROVE OwnEntries'
  BY <1>0, <1>2 DEF Remove, Forget, OwnEntries, MemoryParts
<1>3. ASSUME NEW c \in Clients, Register(c) PROVE OwnEntries'
  BY <1>0, <1>3 DEF Register, FreshTimers, OwnEntries, MemoryParts
<1>4. ASSUME NEW c \in Clients, Insert(c) PROVE OwnEntries'
  <2>1. job[c] \in Jobs /\ timer[held[c]].job = job[c]
    BY <1>0, <1>4 DEF Insert, PrivateEntries, Holding, CallShapes, Procs
  <2> QED
    BY <1>0, <1>4, <2>1 DEF Insert, Store, OwnEntries, MemoryParts
<1>5. ASSUME NEW c \in Clients, Unregister(c) PROVE OwnEntries'
  BY <1>0, <1>5 DEF Unregister, OwnEntries, MemoryParts
<1>6. ASSUME NEW c \in Clients, Replace(c) PROVE OwnEntries'
  BY <1>0, <1>6 DEF Replace, OwnEntries, PrivateEntries, Holding, MemoryParts, Procs
<1>7. ASSUME NEW c \in Clients, ListCompare(c) \/ Abandon(c) PROVE OwnEntries'
  BY <1>0, <1>7 DEF ListCompare, Abandon, OwnEntries
<1>8. ASSUME NEW c \in Clients, NEW j \in Jobs, SyncRegister(c, j) PROVE OwnEntries'
  BY <1>0, <1>8 DEF SyncRegister, FreshTimers, OwnEntries, MemoryParts
<1>9. ASSUME NEW c \in Clients, SyncInsert(c) PROVE OwnEntries'
  <2>1. job[c] \in Jobs /\ timer[held[c]].job = job[c]
    BY <1>0, <1>9 DEF SyncInsert, PrivateEntries, Holding, CallShapes, Procs
  <2> QED
    BY <1>0, <1>9, <2>1 DEF SyncInsert, Store, OwnEntries, MemoryParts
<1>10. ASSUME NEW c \in Clients, NEW j \in Jobs, NEW e \in Timers, SyncUnregister(c, j, e)
       PROVE  OwnEntries'
  BY <1>0, <1>10 DEF SyncUnregister, OwnEntries, MemoryParts
<1>11. ASSUME NEW c \in Clients, SyncDrop(c) PROVE OwnEntries'
  BY <1>0, <1>11 DEF SyncDrop, Forget, OwnEntries, MemoryParts
<1>12. CASE Restart
  BY <1>12, RestartRegisters
<1>13. CASE Quiet
  BY <1>0, <1>13 DEF Quiet, OwnEntries
<1> QED
  BY QuietFrame, <1>0, <1>1, <1>2, <1>3, <1>4, <1>5, <1>6, <1>7, <1>8, <1>9, <1>10, <1>11,
      <1>12, <1>13

\* The entry in hand is the one the caller will show.
LEMMA HeldStep ==
    ASSUME OneCaller, TypeOK, TimerInv, OneCallerInv, Next
    PROVE  HeldAsShown'
<1>0. OneCaller /\ OneCallerParts /\ PrivateEntries /\ EntryOwners
  BY OneCallerTypes DEF OneCallerInv, TimerInv
<1>1. ASSUME NEW c \in Clients, NEW j \in Jobs, NEW cr \in Crons, Add(c, j, cr)
      PROVE  HeldAsShown'
  BY <1>1, <1>0 DEF Add, Call, HeldAsShown, PrivateEntries, Holding, OneCallerParts,
      OneCaller, CallTypes, CallShapes, Procs
<1>2. ASSUME NEW c \in Clients, NEW j \in Jobs, NEW cr \in Crons, Update(c, j, cr)
      PROVE  HeldAsShown'
  BY <1>2, <1>0 DEF Update, Call, HeldAsShown, OwnEntries, MemoryParts, PrivateEntries, Holding, OneCallerParts,
      OneCaller, CallTypes, CallShapes, Procs
<1>3. ASSUME NEW c \in Clients, NEW j \in Jobs, Remove(c, j) PROVE HeldAsShown'
  BY <1>3, <1>0 DEF Remove, Call, Forget, HeldAsShown, OwnEntries, MemoryParts, PrivateEntries, Holding,
      OneCallerParts, OneCaller, CallTypes, CallShapes, Procs
<1>4. ASSUME NEW c \in Clients, Register(c) PROVE HeldAsShown'
  BY <1>4, <1>0 DEF Register, Return, FreshTimers, HeldAsShown, PrivateEntries, Holding,
      OneCallerParts, OneCaller, CallTypes, CallShapes, Procs
<1>5. ASSUME NEW c \in Clients, Insert(c) PROVE HeldAsShown'
  BY <1>5, <1>0 DEF Insert, Store, Goto, HeldAsShown, PrivateEntries, Holding,
      OneCallerParts, OneCaller, CallTypes, CallShapes, Procs
<1>6. ASSUME NEW c \in Clients, Unregister(c) PROVE HeldAsShown'
  BY <1>6, <1>0 DEF Unregister, Goto, HeldAsShown, PrivateEntries, Holding,
      OneCallerParts, OneCaller, CallTypes, CallShapes, Procs
<1>7. ASSUME NEW c \in Clients, Replace(c) PROVE HeldAsShown'
  BY <1>7, <1>0 DEF Replace, Goto, HeldAsShown, PrivateEntries, Holding, OneCallerParts,
      OneCaller, CallTypes, CallShapes, Procs
<1>8. ASSUME NEW c \in Clients, ListCompare(c) PROVE HeldAsShown'
  BY <1>8, <1>0 DEF ListCompare, Goto, HeldAsShown, PrivateEntries, Holding,
      OneCallerParts, OneCaller, CallTypes, CallShapes, Procs
<1>9. ASSUME NEW c \in Clients, NEW j \in Jobs, SyncRegister(c, j) PROVE HeldAsShown'
  BY <1>9, <1>0 DEF SyncRegister, FreshTimers, HeldAsShown, PrivateEntries, Holding,
      OneCallerParts, OneCaller, CallTypes, CallShapes, Procs
<1>10. ASSUME NEW c \in Clients, SyncInsert(c) PROVE HeldAsShown'
  BY <1>10, <1>0 DEF SyncInsert, Store, HeldAsShown, PrivateEntries, Holding,
      OneCallerParts, OneCaller, CallTypes, CallShapes, Procs
<1>11. ASSUME NEW c \in Clients, NEW j \in Jobs, NEW e \in Timers, SyncUnregister(c, j, e)
      PROVE  HeldAsShown'
  BY <1>11, <1>0 DEF SyncUnregister, HeldAsShown, PrivateEntries, Holding,
      OneCallerParts, OneCaller, CallTypes, CallShapes, Procs
<1>12. ASSUME NEW c \in Clients, SyncDrop(c) PROVE HeldAsShown'
  BY <1>12, <1>0 DEF SyncDrop, Forget, HeldAsShown, PrivateEntries, Holding,
      OneCallerParts, OneCaller, CallTypes, CallShapes, Procs
<1>13. ASSUME Restart PROVE HeldAsShown'
  BY <1>13, RestartRegisters DEF HeldAsShown, Procs
<1>14. CASE Calm
  <2>1. ASSUME NEW c \in Clients,
               pc'[c] \in {"insert", "unregister", "replace", "sync_insert"}
        PROVE  /\ pc'[c] = pc[c] /\ job'[c] = job[c] /\ want'[c] = want[c] /\ held'[c] = held[c]
               /\ pc[c] = "sync_insert" => snap'[c] = snap[c]
    <3>1. c \in Procs /\ Quiet
      BY <1>14 DEF Calm, Procs
    <3>2. pc'[c] = pc[c] /\ job'[c] = job[c] /\ want'[c] = want[c] /\ held'[c] = held[c]
      BY <2>1, <3>1 DEF Quiet
    <3> QED
      BY <1>14, <3>2 DEF Calm, Syncing
  <2>2. timer' = timer
    BY <1>14 DEF Calm, Quiet
  <2> QED
    <3> SUFFICES ASSUME NEW c \in Clients
                 PROVE  /\ pc'[c] \in {"insert", "replace"} =>
                              timer'[held'[c]] = [job |-> job'[c], cron |-> want'[c]]
                        /\ pc'[c] = "sync_insert" =>
                              timer'[held'[c]] = [job |-> job'[c], cron |-> snap'[c].cron[job'[c]]]
                        /\ pc'[c] = "unregister" =>
                              timer'[held'[c]] = NoTimer \/ timer'[held'[c]].job = job'[c]
      BY DEF HeldAsShown
    <3>1. CASE pc'[c] \in {"insert", "unregister", "replace", "sync_insert"}
      <4>1. HeldAsShown
        BY <1>0 DEF OneCallerParts
      <4>2. /\ pc'[c] = pc[c] /\ job'[c] = job[c] /\ want'[c] = want[c] /\ held'[c] = held[c]
            /\ pc[c] = "sync_insert" => snap'[c] = snap[c]
        BY <2>1, <3>1
      <4> QED
        BY <4>1, <4>2, <2>2 DEF HeldAsShown
    <3>2. CASE pc'[c] \notin {"insert", "unregister", "replace", "sync_insert"}
      BY <3>2
    <3> QED
      BY <3>1, <3>2
<1>15. CallTypes
  BY DEF TypeOK
<1>16. ASSUME NEW c \in Clients, Abandon(c) PROVE HeldAsShown'
  BY <1>16, <1>0 DEF Abandon, Return, HeldAsShown, OneCallerParts, OneCaller, CallTypes, Procs
<1> QED
  BY CalmFrame, <1>16, <1>1, <1>2, <1>3, <1>4, <1>5, <1>6, <1>7, <1>8, <1>9, <1>10, <1>11,
      <1>12, <1>13, <1>14, <1>15

\* Nothing but the caller changes what it has read.
LEMMA StillTrueStep ==
    ASSUME OneCaller, TypeOK, TimerInv, OneCallerInv, Next
    PROVE  StillTrue'
<1>0. OneCaller /\ OneCallerParts /\ PrivateEntries /\ EntryOwners
  BY OneCallerTypes DEF OneCallerInv, TimerInv
<1>1. ASSUME NEW c \in Clients, NEW j \in Jobs, NEW cr \in Crons, Add(c, j, cr)
      PROVE  StillTrue'
  BY <1>1, <1>0 DEF Add, Call, StillTrue, PrivateEntries, EntryOwners, Holding, NoTimer,
      Syncing, OneCallerParts, OneCaller, MemoryParts, CallTypes, CallShapes, Procs
<1>2. ASSUME NEW c \in Clients, NEW j \in Jobs, NEW cr \in Crons, Update(c, j, cr)
      PROVE  StillTrue'
  BY <1>2, <1>0 DEF Update, Call, StillTrue, PrivateEntries, EntryOwners, Holding,
      NoTimer, Syncing, OneCallerParts, OneCaller, MemoryParts, CallTypes, CallShapes,
      Procs
<1>3. ASSUME NEW c \in Clients, NEW j \in Jobs, Remove(c, j) PROVE StillTrue'
  BY <1>3, <1>0 DEF Remove, Call, Forget, StillTrue, PrivateEntries, EntryOwners,
      Holding, NoTimer, Syncing, OneCallerParts, OneCaller, MemoryParts, CallTypes,
      CallShapes, Procs
<1>4. ASSUME NEW c \in Clients, Register(c) PROVE StillTrue'
  BY <1>4, <1>0 DEF Register, Return, FreshTimers, StillTrue, PrivateEntries,
      EntryOwners, Holding, NoTimer, Syncing, OneCallerParts, OneCaller, MemoryParts,
      CallTypes, CallShapes, Procs
<1>5. ASSUME NEW c \in Clients, Insert(c) PROVE StillTrue'
  BY <1>5, <1>0 DEF Insert, Store, Goto, StillTrue, PrivateEntries, EntryOwners,
      Holding, NoTimer, Syncing, OneCallerParts, OneCaller, MemoryParts, CallTypes,
      CallShapes, Procs
<1>6. ASSUME NEW c \in Clients, Unregister(c) PROVE StillTrue'
  BY <1>6, <1>0 DEF Unregister, Goto, StillTrue, PrivateEntries, EntryOwners, Holding,
      NoTimer, Syncing, OneCallerParts, OneCaller, MemoryParts, CallTypes, CallShapes,
      Procs
<1>7. ASSUME NEW c \in Clients, Replace(c) PROVE StillTrue'
  BY <1>7, <1>0 DEF Replace, Goto, StillTrue, PrivateEntries, EntryOwners, Holding,
      NoTimer, Syncing, OneCallerParts, OneCaller, MemoryParts, CallTypes, CallShapes,
      Procs
<1>8. ASSUME NEW c \in Clients, ListCompare(c) PROVE StillTrue'
  BY <1>8, <1>0 DEF ListCompare, Goto, StillTrue, PrivateEntries, EntryOwners, Holding,
      NoTimer, Syncing, OneCallerParts, OneCaller, MemoryParts, CallTypes, CallShapes,
      Procs
<1>9. ASSUME NEW c \in Clients, NEW j \in Jobs, SyncRegister(c, j) PROVE StillTrue'
  BY <1>9, <1>0 DEF SyncRegister, FreshTimers, StillTrue, PrivateEntries, EntryOwners,
      Holding, NoTimer, Syncing, OneCallerParts, OneCaller, MemoryParts, CallTypes,
      CallShapes, Procs
<1>10. ASSUME NEW c \in Clients, SyncInsert(c) PROVE StillTrue'
  BY <1>10, <1>0 DEF SyncInsert, Store, StillTrue, PrivateEntries, EntryOwners, Holding,
      NoTimer, Syncing, OneCallerParts, OneCaller, MemoryParts, CallTypes, CallShapes,
      Procs
<1>11. ASSUME NEW c \in Clients, NEW j \in Jobs, NEW e \in Timers, SyncUnregister(c, j, e)
      PROVE  StillTrue'
  BY <1>11, <1>0 DEF SyncUnregister, StillTrue, PrivateEntries, EntryOwners, Holding,
      NoTimer, Syncing, OneCallerParts, OneCaller, MemoryParts, CallTypes, CallShapes,
      Procs
<1>12. ASSUME NEW c \in Clients, SyncDrop(c) PROVE StillTrue'
  BY <1>12, <1>0 DEF SyncDrop, Forget, StillTrue, PrivateEntries, EntryOwners, Holding,
      NoTimer, Syncing, OneCallerParts, OneCaller, MemoryParts, CallTypes, CallShapes,
      Procs
<1>13. ASSUME Restart PROVE StillTrue'
  BY <1>13, RestartRegisters DEF StillTrue, Procs
<1>14. CASE Calm
  BY <1>14, <1>0 DEF Calm, Quiet, StillTrue, PrivateEntries, EntryOwners, Holding,
      NoTimer, Syncing, OneCallerParts, OneCaller, MemoryParts, CallTypes, CallShapes,
      Procs
<1>15. CallTypes
  BY DEF TypeOK
<1>16. ASSUME NEW c \in Clients, Abandon(c) PROVE StillTrue'
  BY <1>16, <1>0 DEF Abandon, Return, StillTrue, OneCallerParts, OneCaller, CallTypes, Procs
<1> QED
  BY CalmFrame, <1>16, <1>1, <1>2, <1>3, <1>4, <1>5, <1>6, <1>7, <1>8, <1>9, <1>10, <1>11,
      <1>12, <1>13, <1>14, <1>15

\* A sync goes on with the merge.
LEMMA MergeStep ==
    ASSUME OneCaller, TypeOK, TimerInv, OneCallerInv, Next
    PROVE  MergeUnderWay'
<1>0. OneCaller /\ OneCallerParts /\ PrivateEntries /\ EntryOwners
  BY OneCallerTypes DEF OneCallerInv, TimerInv
<1>1. ASSUME NEW c \in Clients, NEW j \in Jobs, NEW cr \in Crons, Add(c, j, cr)
      PROVE  MergeUnderWay'
  BY <1>1, <1>0 DEF Add, Call, MergeUnderWay, StillTrue, Syncing, Loadable,
      OneCallerParts, OneCaller, MemoryParts, CallTypes, CallShapes, Procs
<1>2. ASSUME NEW c \in Clients, NEW j \in Jobs, NEW cr \in Crons, Update(c, j, cr)
      PROVE  MergeUnderWay'
  BY <1>2, <1>0 DEF Update, Call, MergeUnderWay, StillTrue, Syncing, Loadable,
      OneCallerParts, OneCaller, MemoryParts, CallTypes, CallShapes, Procs
<1>3. ASSUME NEW c \in Clients, NEW j \in Jobs, Remove(c, j) PROVE MergeUnderWay'
  BY <1>3, <1>0 DEF Remove, Call, Forget, MergeUnderWay, StillTrue, Syncing, Loadable,
      OneCallerParts, OneCaller, MemoryParts, CallTypes, CallShapes, Procs
<1>4. ASSUME NEW c \in Clients, Register(c) PROVE MergeUnderWay'
  BY <1>4, <1>0 DEF Register, Return, FreshTimers, MergeUnderWay, StillTrue, Syncing,
      Loadable, OneCallerParts, OneCaller, MemoryParts, CallTypes, CallShapes, Procs
<1>5. ASSUME NEW c \in Clients, Insert(c) PROVE MergeUnderWay'
  BY <1>5, <1>0 DEF Insert, Store, Goto, MergeUnderWay, StillTrue, Syncing, Loadable,
      OneCallerParts, OneCaller, MemoryParts, CallTypes, CallShapes, Procs
<1>6. ASSUME NEW c \in Clients, Unregister(c) PROVE MergeUnderWay'
  BY <1>6, <1>0 DEF Unregister, Goto, MergeUnderWay, StillTrue, Syncing, Loadable,
      OneCallerParts, OneCaller, MemoryParts, CallTypes, CallShapes, Procs
<1>7. ASSUME NEW c \in Clients, Replace(c) PROVE MergeUnderWay'
  BY <1>7, <1>0 DEF Replace, Goto, MergeUnderWay, StillTrue, Syncing, Loadable,
      OneCallerParts, OneCaller, MemoryParts, CallTypes, CallShapes, Procs
<1>8. ASSUME NEW c \in Clients, ListCompare(c) PROVE MergeUnderWay'
  BY <1>8, <1>0 DEF ListCompare, Goto, MergeUnderWay, StillTrue, Syncing, Loadable,
      OneCallerParts, OneCaller, MemoryParts, CallTypes, CallShapes, Procs
<1>9. ASSUME NEW c \in Clients, NEW j \in Jobs, SyncRegister(c, j) PROVE MergeUnderWay'
  BY <1>9, <1>0 DEF SyncRegister, FreshTimers, MergeUnderWay, StillTrue, Syncing,
      Loadable, OneCallerParts, OneCaller, MemoryParts, CallTypes, CallShapes, Procs
<1>10. ASSUME NEW c \in Clients, SyncInsert(c) PROVE MergeUnderWay'
  BY <1>10, <1>0 DEF SyncInsert, Store, MergeUnderWay, StillTrue, Syncing, Loadable,
      OneCallerParts, OneCaller, MemoryParts, CallTypes, CallShapes, Procs
<1>11. ASSUME NEW c \in Clients, NEW j \in Jobs, NEW e \in Timers, SyncUnregister(c, j, e)
      PROVE  MergeUnderWay'
  BY <1>11, <1>0 DEF SyncUnregister, MergeUnderWay, StillTrue, Syncing, Loadable,
      OneCallerParts, OneCaller, MemoryParts, CallTypes, CallShapes, Procs
<1>12. ASSUME NEW c \in Clients, SyncDrop(c) PROVE MergeUnderWay'
  BY <1>12, <1>0 DEF SyncDrop, Forget, MergeUnderWay, StillTrue, Syncing, Loadable,
      OneCallerParts, OneCaller, MemoryParts, CallTypes, CallShapes, Procs
<1>13. ASSUME Restart PROVE MergeUnderWay'
  BY <1>13, RestartRegisters DEF MergeUnderWay, Procs
<1>14. CASE Calm
  BY <1>14, <1>0 DEF Calm, Quiet, MergeUnderWay, StillTrue, Syncing, Loadable,
      OneCallerParts, OneCaller, MemoryParts, CallTypes, CallShapes, Procs
<1>15. CallTypes
  BY DEF TypeOK
<1>16. ASSUME NEW c \in Clients, Abandon(c) PROVE MergeUnderWay'
  BY <1>16, <1>0 DEF Abandon, Return, MergeUnderWay, OneCallerParts, OneCaller, CallTypes, Procs
<1> QED
  BY CalmFrame, <1>16, <1>1, <1>2, <1>3, <1>4, <1>5, <1>6, <1>7, <1>8, <1>9, <1>10, <1>11,
      <1>12, <1>13, <1>14, <1>15

\* Every step keeps what one caller relies on.
LEMMA OneCallerStep ==
    ASSUME OneCaller, TypeOK, TimerInv, OneCallerInv, [Next]_vars
    PROVE  OneCallerInv'
<1>1. CASE Next
  BY <1>1, AccountedStep, OwnStep, HeldStep, StillTrueStep, MergeStep DEF OneCallerInv
<1>2. CASE UNCHANGED vars
  BY <1>2 DEF OneCallerInv, EntriesAccounted, InMap, InHand, Lost, CutOffIn,
      OwnEntries, HeldAsShown, StillTrue, MergeUnderWay
<1> QED
  BY <1>1, <1>2

\* Every reachable state has it.
LEMMA OneCallerInvariance ==
    ASSUME OneCaller
    PROVE  Spec => []OneCallerInv
<1>1. Init => OneCallerInv
  <2> SUFFICES ASSUME Init PROVE OneCallerInv
    OBVIOUS
  <2>1. EntriesAccounted /\ OwnEntries
    BY DEF Init, EntriesAccounted, OwnEntries
  <2>2. HeldAsShown /\ StillTrue /\ MergeUnderWay
    BY DEF Init, HeldAsShown, StillTrue, MergeUnderWay, Procs
  <2> QED
    BY <2>1, <2>2 DEF OneCallerInv
<1>2. IInv /\ OneCallerInv /\ [Next]_vars => OneCallerInv'
  BY OneCallerStep DEF IInv
<1> QED
  BY <1>1, <1>2, Invariance, PTL DEF Spec

\* Between the calls of one caller, whatever writes fail, whenever the process
\* restarts and whatever other processes write, every entry TokioJobScheduler
\* holds is that of a job in the map and fires at the expression list shows, but
\* for an entry of a job one of whose own calls, or a list, was dropped half way.
THEOREM OneCallerFires ==
    ASSUME OneCaller
    PROVE  Spec => []FiresAsShown
<1>1. ASSUME TypeOK, OneCallerInv, \A c \in Clients : ~Rewiring(c),
             NEW e \in Timers, timer[e] # NoTimer
      PROVE  LET j == timer[e].job IN
             \/ j \in jobs /\ uuid[j] = e /\ cron[j] = timer[e].cron
             \/ CutOffIn({"add", "update", "remove", "list"}, j)
  <2>1. ~InHand(e)
    BY <1>1 DEF InHand, Rewiring
  <2>2. InMap(e) \/ Lost(e)
    BY <1>1, <2>1 DEF OneCallerInv, EntriesAccounted
  <2>3. InMap(e) => LET j == timer[e].job IN j \in jobs /\ uuid[j] = e /\ cron[j] = timer[e].cron
    BY DEF InMap
  <2> QED
    BY <2>2, <2>3 DEF Lost
<1>2. IInv /\ OneCallerInv => FiresAsShown
  BY <1>1 DEF IInv, FiresAsShown
<1> QED
  BY <1>2, Invariance, OneCallerInvariance, PTL

\* A list of one caller returns with every loadable job of the file it read in
\* the map, whatever ticks and other processes do while sync_from_storage awaits.
THEOREM OneCallerMerges ==
    ASSUME OneCaller
    PROVE  Spec => ListMergesTheFile
<1>1. ASSUME TypeOK, OneCallerInv, Next, NEW c \in Clients,
             pc[c] = "sync", pc'[c] = "idle", faults' = faults
      PROVE  Loadable(snap[c]) \subseteq jobs
  <2>1. adds[c] = {}
    BY <1>1, SyncLeft DEF TypeOK
  <2> QED
    BY <1>1, <2>1 DEF OneCallerInv, MergeUnderWay
<1>2. IInv /\ OneCallerInv /\ [Next]_vars =>
        [\A c \in Clients : pc[c] = "sync" /\ pc'[c] = "idle" /\ faults' = faults =>
            Loadable(snap[c]) \subseteq jobs]_vars
  BY <1>1 DEF IInv
<1> QED
  BY <1>2, Invariance, OneCallerInvariance, PTL DEF Spec, ListMergesTheFile
=============================================================================
