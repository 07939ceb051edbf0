------------------------ MODULE JobLifecycle_proofs ------------------------
(***************************************************************************)
(* Proofs about JobLifecycle, for every number of jobs, workers, restarts  *)
(* and late dequeues and for every set of faults.                          *)
(*                                                                         *)
(* The safety properties are not inductive: OneVerdict needs to know that  *)
(* a job is in one hand only (Exclusive), that a claimed row is running    *)
(* and has no verdict yet, and that the ids on the cleaner's list can      *)
(* never get a row again (RowsAreServed).  The refinement needs to know of *)
(* which jobs an error note may lie on disk (NoteIsOfFailure).             *)
(***************************************************************************)
EXTENDS JobLifecycle, FiniteSetTheorems, TLAPS

\* The scheduler's claimed job, from the dequeue to the submit.
InDispatch == schedAt \in {"claimed", "submit"}

\* A job is in one hand: the table of futures, a popper, or the scheduler.
Exclusive ==
  /\ \A j \in futures : claim[j] = "none"
  /\ \A j \in Jobs : IF claim[j] = "none" THEN settle[j] = "verdict"
                                          ELSE row[j] # "queued" /\ req[j] = "served"
  /\ InDispatch => /\ schedJob \notin futures
                   /\ claim[schedJob] = "none"
                   /\ row[schedJob] = "running" /\ task[schedJob] = "none"
                   /\ \A w \in writes : w.job # schedJob

\* Only a request that came through has a row, and it never gets a second one.
RowsAreServed ==
  \A j \in Jobs : /\ row[j] # "absent" => req[j] = "served"
                  /\ j \in purge => row[j] = "absent" /\ req[j] = "served"
                  /\ req[j] = "registering" => j \in intake
                  /\ task[j] # "none" => row[j] # "queued" /\ req[j] = "served"
                  /\ req[j] # "served" => out[j] = {}

\* A held job whose run succeeded, or whose success is on its way to the
\* store, has its archive.
SuccessHasArtifact ==
  /\ \A j \in Owing : task[j] = "complete" => "artifact" \in out[j]
  /\ \A w \in writes : w.verdict = "complete" => "artifact" \in out[w.job]

ArchiveInv == SuccessHasArtifact /\ CompleteHasArtifact

\* An error note is only ever written of a job that is not, and will not be,
\* reported complete: by a run that failed, or by whoever gives the job up.
NoteIsOfFailure ==
  /\ \A j \in Owing : task[j] \notin {"failed", "crashed"} => "manifest" \notin out[j]
  /\ InDispatch => "manifest" \notin out[schedJob]
  /\ \A j \in Jobs : /\ row[j] = "queued" => "manifest" \notin out[j]
                     /\ row[j] = "complete" => /\ "manifest" \notin out[j]
                                               /\ task[j] \in {"none", "complete"}
  /\ \A w \in writes : w.verdict = "complete" => /\ "manifest" \notin out[w.job]
                                                 /\ task[w.job] = "complete"

HandInv == /\ TypeOK /\ Exclusive /\ RowsAreServed
           /\ HeldIsRunning /\ OneVerdict

IInv == /\ HandInv /\ SlotsAccounted /\ QueuedHasIntake
        /\ ArchiveInv /\ NoteIsOfFailure /\ RunningIsOwned

\* The hand-over invariant is inductive: no thread takes a job another holds, and
\* no action of the store, the cleaner or the pool disturbs who holds it.
LEMMA HandStep == HandInv /\ [Next]_vars => HandInv'
<1> SUFFICES ASSUME HandInv, [Next]_vars PROVE HandInv'
  OBVIOUS
<1> USE BoundsAssumption
    DEF HandInv, TypeOK, Exclusive, InDispatch, RowsAreServed, HeldIsRunning,
        Holders, Owing, OneVerdict, Verdicts,
        store, files, tables, scheduler, popper, executor, cleaner, clocks, process
<1>1. ASSUME NEW j \in Jobs, GenerateAdmit(j) PROVE HandInv'
  BY <1>1 DEF GenerateAdmit
<1>2. ASSUME NEW j \in Jobs, GenerateIntake(j) PROVE HandInv'
  BY <1>2 DEF GenerateIntake
<1>3. ASSUME NEW j \in Jobs, InsertQueued(j) PROVE HandInv'
  BY <1>3 DEF InsertQueued, SideTablesFilled
<1>4. ASSUME NEW j \in Jobs, InsertFails(j) PROVE HandInv'
  BY <1>4 DEF InsertFails
<1>5. ASSUME SchedTick PROVE HandInv'
  BY <1>5 DEF SchedTick
<1>6. ASSUME NEW j \in Jobs, WatchdogClaim(j) PROVE HandInv'
  BY <1>6 DEF WatchdogClaim, WinsFuture
<1>7. ASSUME NEW j \in Jobs, WatchdogResolve(j) PROVE HandInv'
  BY <1>7
     DEF WatchdogResolve, ProcessTerminal, ForceTimeout, SubmitWrite, OutcomeOf,
         Finished
<1>8. ASSUME SchedGate PROVE HandInv'
  BY <1>8 DEF SchedGate, AfterGate
<1>9. ASSUME SchedDequeue PROVE HandInv'
  <2>1. CASE row' = row /\ schedJob' = schedJob /\ schedAt' = "tick"
    BY <1>9, <2>1 DEF SchedDequeue
  <2>2. CASE \E j \in Jobs : /\ row[j] = "queued" /\ schedJob' = j
                           /\ row' = [row EXCEPT ![j] = "running"]
                           /\ schedAt' = "claimed"
    <3>1. PICK j \in Jobs : /\ row[j] = "queued" /\ schedJob' = j
                            /\ row' = [row EXCEPT ![j] = "running"]
                            /\ schedAt' = "claimed"
      BY <2>2
    <3>2. /\ UNCHANGED <<stamp, inserts, writes, stray, orphans, files, tables,
                         req, watch, popper, executor, cleaner, clocks, process>>
          /\ schedAt = "dequeue"
      BY <1>9 DEF SchedDequeue
    <3>3. TypeOK'
      BY <3>1, <3>2
    <3>4. Exclusive'
      BY <3>1, <3>2
    <3>4a. RowsAreServed'
      BY <3>1, <3>2
    <3>5. HeldIsRunning' /\ OneVerdict'
      BY <3>1, <3>2
    <3>6. QED
      BY <3>3, <3>4, <3>4a, <3>5
  <2>3. QED
    BY <1>9, <2>1, <2>2 DEF SchedDequeue, OldestQueued, Queued, NoneClaimed
<1>10. ASSUME SchedDequeueFails PROVE HandInv'
  BY <1>10 DEF SchedDequeueFails
<1>11. ASSUME SchedDequeueSlow PROVE HandInv'
  BY <1>11 DEF SchedDequeueSlow
<1>12. ASSUME StrayDequeue PROVE HandInv'
  BY <1>12 DEF StrayDequeue, OldestQueued, Queued
<1>13. ASSUME SchedReject PROVE HandInv'
  BY <1>13 DEF SchedReject, MarkSubmissionFailed, SubmitWrite, DropRuntime
<1>14. ASSUME SchedReserve PROVE HandInv'
  BY <1>14 DEF SchedReserve
<1>15. ASSUME SchedSubmit PROVE HandInv'
  BY <1>15 DEF SchedSubmit
<1>16. ASSUME SchedSubmitFails PROVE HandInv'
  BY <1>16
     DEF SchedSubmitFails, MarkSubmissionFailed, SubmitWrite, DropRuntime,
         ReleaseSlot
<1>17. ASSUME NEW j \in Jobs, WorkerStart(j) PROVE HandInv'
  BY <1>17 DEF WorkerStart
<1>18. ASSUME NEW j \in Jobs, WorkerFinish(j) PROVE HandInv'
  BY <1>18 DEF WorkerFinish
<1>19. ASSUME PoolBreaks PROVE HandInv'
  BY <1>19 DEF PoolBreaks
<1>20. ASSUME NEW j \in Jobs, CallbackClaim(j) PROVE HandInv'
  BY <1>20 DEF CallbackClaim, WinsFuture
<1>21. ASSUME NEW j \in Jobs, CallbackResolve(j) PROVE HandInv'
  BY <1>21 DEF CallbackResolve, ProcessTerminal, SubmitWrite, OutcomeOf
<1>21a. ASSUME NEW j \in Jobs, NEW who, SettleDrop(j, who) PROVE HandInv'
  BY <1>21a DEF SettleDrop, DropRuntime
<1>21b. ASSUME NEW j \in Jobs, NEW who, SettleRelease(j, who) PROVE HandInv'
  BY <1>21b DEF SettleRelease, ReleaseSlot
<1>22. ASSUME NEW w \in writes, StoreWrite(w) PROVE HandInv'
  BY <1>22 DEF StoreWrite
<1>23. ASSUME NEW w \in writes, StoreWriteLost(w) PROVE HandInv'
  BY <1>23 DEF StoreWriteLost
<1>24. ASSUME CleanExpired PROVE HandInv'
  BY <1>24 DEF CleanExpired, Expired, Terminal
<1>25. ASSUME CleanSagas PROVE HandInv'
  BY <1>25 DEF CleanSagas
<1>26. ASSUME NEW j \in Jobs, CleanPurge(j) PROVE HandInv'
  BY <1>26 DEF CleanPurge, DropRuntime
<1>27. ASSUME CleanSweep PROVE HandInv'
  BY <1>27 DEF CleanSweep
<1>28. ASSUME NEW j \in Jobs, DeadlinePasses(j) PROVE HandInv'
  BY <1>28 DEF DeadlinePasses
<1>29. ASSUME NEW j \in Jobs, TtlPasses(j) PROVE HandInv'
  BY <1>29 DEF TtlPasses
<1>30. ASSUME ShutdownStep PROVE HandInv'
  BY <1>30 DEF ShutdownStep
<1>31. ASSUME Restart PROVE HandInv'
  <2>1. TypeOK'
    <3>1. row' \in [Jobs -> {"absent", "queued", "running"} \cup Verdicts]
      BY <1>31 DEF Restart
    <3>2. req' \in [Jobs -> {"new", "admitted", "registering", "served", "refused"}]
      BY <1>31 DEF Restart
    <3>3. /\ orphans' \subseteq Jobs /\ restarts' \in 0..MaxRestarts
         /\ stray' \in 0..MaxSlow
      BY <1>31 DEF Restart
    <3>4. QED
      BY <1>31, <3>1, <3>2, <3>3 DEF Restart
  <2>2. RowsAreServed'
    BY <1>31, FaultsAssumption DEF Restart
  <2>3. /\ Holders' = {} /\ writes' = {} /\ ~InDispatch' /\ futures' = {}
        /\ \A j \in Jobs : claim'[j] = "none" /\ settle'[j] = "verdict"
    BY <1>31 DEF Restart
  <2>4. QED
    BY <2>1, <2>2, <2>3
<1>32. CASE UNCHANGED vars
  BY <1>32 DEF vars
<1>33. QED
  BY <1>1, <1>2, <1>3, <1>4, <1>5, <1>6, <1>7, <1>8, <1>9, <1>10, <1>11, <1>12,
     <1>13, <1>14, <1>15, <1>16, <1>17, <1>18, <1>19, <1>20, <1>21, <1>21a, <1>21b, <1>22,
     <1>23, <1>24, <1>25, <1>26, <1>27, <1>28, <1>29, <1>30, <1>31, <1>32
     DEF Next, Generate, Callbacks, Scheduler, Cleaner

\* At start-up nobody holds anything.
LEMMA InitHand == Init => HandInv
<1> SUFFICES ASSUME Init PROVE HandInv
  OBVIOUS
<1>1. TypeOK
  <2>1. out \in [Jobs -> SUBSET {"artifact", "manifest"}]
    BY DEF Init
  <2>2. stray \in 0..MaxSlow /\ restarts \in 0..MaxRestarts
    BY BoundsAssumption DEF Init
  <2>3. row \in [Jobs -> {"absent", "queued", "running"} \cup Verdicts]
    BY DEF Init
  <2>4. writes \subseteq [job : Jobs, verdict : Verdicts]
    BY DEF Init
  <2>5. QED
    BY <2>1, <2>2, <2>3, <2>4 DEF Init, TypeOK
<1>2. Holders = {} /\ ~InDispatch
  BY DEF Init, Holders, InDispatch
<1>3. Exclusive /\ RowsAreServed /\ HeldIsRunning /\ OneVerdict
  BY <1>2 DEF Init, Exclusive, RowsAreServed, HeldIsRunning, OneVerdict
<1>4. QED
  BY <1>1, <1>3 DEF HandInv
-----------------------------------------------------------------------------
(* The slots.                                                              *)

\* The holders of slots are finitely many jobs, so they can be counted.
LEMMA HoldersFinite ==
  ASSUME HandInv
  PROVE  IsFiniteSet(Holders) /\ Cardinality(Holders) \in Nat
<1>1. Holders \subseteq Jobs
  BY DEF HandInv, TypeOK, Holders
<1>2. QED
  BY <1>1, JobsAssumption, FS_Subset, FS_CardinalityType

\* A step that changes neither holders nor active_jobs keeps the account.
LEMMA SlotKept ==
  ASSUME SlotsAccounted, Holders' = Holders, activeJobs' = activeJobs
  PROVE  SlotsAccounted'
BY DEF SlotsAccounted

\* Reserving a slot below MAX_WORKERS for a job that holds none keeps it.
LEMMA SlotTaken ==
  ASSUME HandInv, SlotsAccounted, NEW j, j \notin Holders, activeJobs < MaxWorkers,
         Holders' = Holders \cup {j}, activeJobs' = activeJobs + 1
  PROVE  SlotsAccounted'
<1>1. Cardinality(Holders') = Cardinality(Holders) + 1
  BY HoldersFinite, FS_AddElement
<1>2. QED
  BY <1>1, HoldersFinite, BoundsAssumption DEF SlotsAccounted

\* Releasing one slot for one holder keeps it.
LEMMA SlotReleased ==
  ASSUME HandInv, SlotsAccounted, NEW j \in Holders,
         Holders' = Holders \ {j}, ReleaseSlot
  PROVE  SlotsAccounted'
<1>1. Cardinality(Holders') = Cardinality(Holders) - 1
  BY HoldersFinite, FS_RemoveElement
<1>2. Cardinality(Holders) > 0
  BY HoldersFinite, FS_EmptySet
<1>3. QED
  BY <1>1, <1>2, HoldersFinite, BoundsAssumption DEF SlotsAccounted, ReleaseSlot

\* Every action keeps active_jobs equal to the number of holders.
LEMMA SlotsStep == HandInv /\ SlotsAccounted /\ [Next]_vars => SlotsAccounted'
<1> SUFFICES ASSUME HandInv, SlotsAccounted, [Next]_vars PROVE SlotsAccounted'
  OBVIOUS
<1> USE DEF store, files, tables, scheduler, popper, executor, cleaner, clocks, process
<1>1. ASSUME NEW j \in Jobs, GenerateAdmit(j) PROVE SlotsAccounted'
  <2>1. Holders' = Holders /\ activeJobs' = activeJobs
    BY <1>1 DEF GenerateAdmit, Holders
  <2>2. QED
    BY <2>1, SlotKept
<1>2. ASSUME NEW j \in Jobs, GenerateIntake(j) PROVE SlotsAccounted'
  <2>1. Holders' = Holders /\ activeJobs' = activeJobs
    BY <1>2 DEF GenerateIntake, Holders
  <2>2. QED
    BY <2>1, SlotKept
<1>3. ASSUME NEW j \in Jobs, InsertQueued(j) PROVE SlotsAccounted'
  <2>1. Holders' = Holders /\ activeJobs' = activeJobs
    BY <1>3 DEF InsertQueued, SideTablesFilled, Holders
  <2>2. QED
    BY <2>1, SlotKept
<1>4. ASSUME NEW j \in Jobs, InsertFails(j) PROVE SlotsAccounted'
  <2>1. Holders' = Holders /\ activeJobs' = activeJobs
    BY <1>4 DEF InsertFails, Holders
  <2>2. QED
    BY <2>1, SlotKept
<1>5. ASSUME SchedTick PROVE SlotsAccounted'
  <2>1. Holders' = Holders /\ activeJobs' = activeJobs
    BY <1>5
       DEF SchedTick, Holders, HandInv, TypeOK, Exclusive, InDispatch,
           HeldIsRunning, RowsAreServed
  <2>2. QED
    BY <2>1, SlotKept
<1>6. ASSUME NEW j \in Jobs, WatchdogClaim(j) PROVE SlotsAccounted'
  <2>1. Holders' = Holders /\ activeJobs' = activeJobs
    BY <1>6
       DEF WatchdogClaim, WinsFuture, Holders, HandInv, TypeOK, Exclusive,
           InDispatch, HeldIsRunning, RowsAreServed
  <2>2. QED
    BY <2>1, SlotKept
<1>7. ASSUME NEW j \in Jobs, WatchdogResolve(j) PROVE SlotsAccounted'
  <2>1. Holders' = Holders /\ activeJobs' = activeJobs
    BY <1>7 DEF WatchdogResolve, Holders
  <2>2. QED
    BY <2>1, SlotKept
<1>8. ASSUME SchedGate PROVE SlotsAccounted'
  <2>1. Holders' = Holders /\ activeJobs' = activeJobs
    BY <1>8
       DEF SchedGate, AfterGate, Holders, HandInv, TypeOK, Exclusive, InDispatch,
           HeldIsRunning, RowsAreServed
  <2>2. QED
    BY <2>1, SlotKept
<1>9. ASSUME SchedDequeue PROVE SlotsAccounted'
  <2>1. Holders' = Holders /\ activeJobs' = activeJobs
    BY <1>9
       DEF SchedDequeue, OldestQueued, Queued, NoneClaimed, Holders, HandInv,
           TypeOK, Exclusive, InDispatch, HeldIsRunning, RowsAreServed
  <2>2. QED
    BY <2>1, SlotKept
<1>10. ASSUME SchedDequeueFails PROVE SlotsAccounted'
  <2>1. Holders' = Holders /\ activeJobs' = activeJobs
    BY <1>10
       DEF SchedDequeueFails, Holders, HandInv, TypeOK, Exclusive, InDispatch,
           HeldIsRunning, RowsAreServed
  <2>2. QED
    BY <2>1, SlotKept
<1>11. ASSUME SchedDequeueSlow PROVE SlotsAccounted'
  <2>1. Holders' = Holders /\ activeJobs' = activeJobs
    BY <1>11
       DEF SchedDequeueSlow, Holders, HandInv, TypeOK, Exclusive, InDispatch,
           HeldIsRunning, RowsAreServed
  <2>2. QED
    BY <2>1, SlotKept
<1>12. ASSUME StrayDequeue PROVE SlotsAccounted'
  <2>1. Holders' = Holders /\ activeJobs' = activeJobs
    BY <1>12 DEF StrayDequeue, OldestQueued, Queued, Holders
  <2>2. QED
    BY <2>1, SlotKept
<1>13. ASSUME SchedReject PROVE SlotsAccounted'
  <2>1. Holders' = Holders /\ activeJobs' = activeJobs
    BY <1>13
       DEF SchedReject, MarkSubmissionFailed, SubmitWrite, DropRuntime, Holders,
           HandInv, TypeOK, Exclusive, InDispatch, HeldIsRunning, RowsAreServed
  <2>2. QED
    BY <2>1, SlotKept
<1>14. ASSUME SchedReserve PROVE SlotsAccounted'
  <2>1. schedJob \notin Holders /\ Holders' = Holders \cup {schedJob}
    BY <1>14 DEF SchedReserve, HandInv, TypeOK, Holders, Exclusive, InDispatch
  <2>2. QED
    BY <1>14, <2>1, SlotTaken DEF SchedReserve
<1>15. ASSUME SchedSubmit PROVE SlotsAccounted'
  <2>1. Holders' = Holders /\ activeJobs' = activeJobs
    BY <1>15
       DEF SchedSubmit, Holders, HandInv, TypeOK, Exclusive, InDispatch,
           HeldIsRunning, RowsAreServed
  <2>2. QED
    BY <2>1, SlotKept
<1>16. ASSUME SchedSubmitFails PROVE SlotsAccounted'
  <2>1. schedJob \in Holders /\ Holders' = Holders \ {schedJob} /\ ReleaseSlot
    BY <1>16
       DEF SchedSubmitFails, MarkSubmissionFailed, SubmitWrite, DropRuntime,
           HandInv, TypeOK, Holders, Exclusive, InDispatch
  <2>2. QED
    BY <2>1, SlotReleased
<1>17. ASSUME NEW j \in Jobs, WorkerStart(j) PROVE SlotsAccounted'
  <2>1. Holders' = Holders /\ activeJobs' = activeJobs
    BY <1>17 DEF WorkerStart, Holders
  <2>2. QED
    BY <2>1, SlotKept
<1>18. ASSUME NEW j \in Jobs, WorkerFinish(j) PROVE SlotsAccounted'
  <2>1. Holders' = Holders /\ activeJobs' = activeJobs
    BY <1>18 DEF WorkerFinish, Holders
  <2>2. QED
    BY <2>1, SlotKept
<1>19. ASSUME PoolBreaks PROVE SlotsAccounted'
  <2>1. Holders' = Holders /\ activeJobs' = activeJobs
    BY <1>19 DEF PoolBreaks, Holders
  <2>2. QED
    BY <2>1, SlotKept
<1>20. ASSUME NEW j \in Jobs, CallbackClaim(j) PROVE SlotsAccounted'
  <2>1. Holders' = Holders /\ activeJobs' = activeJobs
    BY <1>20
       DEF CallbackClaim, WinsFuture, Holders, HandInv, TypeOK, Exclusive,
           InDispatch, HeldIsRunning, RowsAreServed
  <2>2. QED
    BY <2>1, SlotKept
<1>21. ASSUME NEW j \in Jobs, CallbackResolve(j) PROVE SlotsAccounted'
  <2>1. Holders' = Holders /\ activeJobs' = activeJobs
    BY <1>21 DEF CallbackResolve, Holders
  <2>2. QED
    BY <2>1, SlotKept
<1>21a. ASSUME NEW j \in Jobs, NEW who, SettleDrop(j, who) PROVE SlotsAccounted'
  <2>1. Holders' = Holders /\ activeJobs' = activeJobs
    BY <1>21a
       DEF SettleDrop, DropRuntime, Holders, HandInv, TypeOK, Exclusive, InDispatch
  <2>2. QED
    BY <2>1, SlotKept
<1>21b. ASSUME NEW j \in Jobs, NEW who, SettleRelease(j, who) PROVE SlotsAccounted'
  <2>1. j \in Holders /\ Holders' = Holders \ {j} /\ ReleaseSlot
    BY <1>21b
       DEF SettleRelease, HandInv, TypeOK, Holders, Exclusive, InDispatch
  <2>2. QED
    BY <2>1, SlotReleased
<1>22. ASSUME NEW w \in writes, StoreWrite(w) PROVE SlotsAccounted'
  <2>1. Holders' = Holders /\ activeJobs' = activeJobs
    BY <1>22 DEF StoreWrite, Holders
  <2>2. QED
    BY <2>1, SlotKept
<1>23. ASSUME NEW w \in writes, StoreWriteLost(w) PROVE SlotsAccounted'
  <2>1. Holders' = Holders /\ activeJobs' = activeJobs
    BY <1>23 DEF StoreWriteLost, Holders
  <2>2. QED
    BY <2>1, SlotKept
<1>24. ASSUME CleanExpired PROVE SlotsAccounted'
  <2>1. Holders' = Holders /\ activeJobs' = activeJobs
    BY <1>24 DEF CleanExpired, Expired, Terminal, Holders
  <2>2. QED
    BY <2>1, SlotKept
<1>25. ASSUME CleanSagas PROVE SlotsAccounted'
  <2>1. Holders' = Holders /\ activeJobs' = activeJobs
    BY <1>25 DEF CleanSagas, Holders
  <2>2. QED
    BY <2>1, SlotKept
<1>26. ASSUME NEW j \in Jobs, CleanPurge(j) PROVE SlotsAccounted'
  <2>1. Holders' = Holders /\ activeJobs' = activeJobs
    BY <1>26
       DEF CleanPurge, DropRuntime, Holders, HandInv, TypeOK, Exclusive, InDispatch,
           HeldIsRunning, RowsAreServed
  <2>2. QED
    BY <2>1, SlotKept
<1>27. ASSUME CleanSweep PROVE SlotsAccounted'
  <2>1. Holders' = Holders /\ activeJobs' = activeJobs
    BY <1>27 DEF CleanSweep, Holders
  <2>2. QED
    BY <2>1, SlotKept
<1>28. ASSUME NEW j \in Jobs, DeadlinePasses(j) PROVE SlotsAccounted'
  <2>1. Holders' = Holders /\ activeJobs' = activeJobs
    BY <1>28 DEF DeadlinePasses, Holders
  <2>2. QED
    BY <2>1, SlotKept
<1>29. ASSUME NEW j \in Jobs, TtlPasses(j) PROVE SlotsAccounted'
  <2>1. Holders' = Holders /\ activeJobs' = activeJobs
    BY <1>29 DEF TtlPasses, Holders
  <2>2. QED
    BY <2>1, SlotKept
<1>30. ASSUME ShutdownStep PROVE SlotsAccounted'
  <2>1. Holders' = Holders /\ activeJobs' = activeJobs
    BY <1>30 DEF ShutdownStep, Holders
  <2>2. QED
    BY <2>1, SlotKept
<1>31. ASSUME Restart PROVE SlotsAccounted'
  <2>1. Holders' = {} /\ activeJobs' = 0
    BY <1>31 DEF Restart, Holders
  <2>2. QED
    BY <2>1, FS_EmptySet, BoundsAssumption DEF SlotsAccounted
<1>32. CASE UNCHANGED vars
  BY <1>32, SlotKept DEF vars, Holders
<1>33. QED
  BY <1>1, <1>2, <1>3, <1>4, <1>5, <1>6, <1>7, <1>8, <1>9, <1>10, <1>11, <1>12,
     <1>13, <1>14, <1>15, <1>16, <1>17, <1>18, <1>19, <1>20, <1>21, <1>21a, <1>21b, <1>22,
     <1>23, <1>24, <1>25, <1>26, <1>27, <1>28, <1>29, <1>30, <1>31, <1>32
     DEF Next, Generate, Callbacks, Scheduler, Cleaner

-----------------------------------------------------------------------------
(* Intake, owners and archives.                                            *)

\* Every action keeps the intake settings of the queued rows: the tables are
\* filled before the insert and dropped only for rows that are gone.
LEMMA IntakeStep == HandInv /\ QueuedHasIntake /\ [Next]_vars => QueuedHasIntake'
<1> SUFFICES ASSUME HandInv, QueuedHasIntake, [Next]_vars PROVE QueuedHasIntake'
  OBVIOUS
<1> USE  DEF HandInv, TypeOK, RowsAreServed, QueuedHasIntake, Queued,
        store, files, tables, scheduler, popper, executor, cleaner, clocks, process
<1>1. ASSUME NEW j \in Jobs, GenerateAdmit(j) PROVE QueuedHasIntake'
  BY <1>1 DEF GenerateAdmit
<1>2. ASSUME NEW j \in Jobs, GenerateIntake(j) PROVE QueuedHasIntake'
  BY <1>2 DEF GenerateIntake
<1>3. ASSUME NEW j \in Jobs, InsertQueued(j) PROVE QueuedHasIntake'
  BY <1>3 DEF InsertQueued, SideTablesFilled
<1>4. ASSUME NEW j \in Jobs, InsertFails(j) PROVE QueuedHasIntake'
  BY <1>4 DEF InsertFails
<1>5. ASSUME SchedTick PROVE QueuedHasIntake'
  BY <1>5 DEF SchedTick
<1>6. ASSUME NEW j \in Jobs, WatchdogClaim(j) PROVE QueuedHasIntake'
  BY <1>6 DEF WatchdogClaim, WinsFuture
<1>7. ASSUME NEW j \in Jobs, WatchdogResolve(j) PROVE QueuedHasIntake'
  BY <1>7
     DEF WatchdogResolve, ProcessTerminal, ForceTimeout, SubmitWrite, OutcomeOf,
         Finished
<1>8. ASSUME SchedGate PROVE QueuedHasIntake'
  BY <1>8 DEF SchedGate, AfterGate
<1>9. ASSUME SchedDequeue PROVE QueuedHasIntake'
  BY <1>9 DEF SchedDequeue, OldestQueued, Queued, NoneClaimed
<1>10. ASSUME SchedDequeueFails PROVE QueuedHasIntake'
  BY <1>10 DEF SchedDequeueFails
<1>11. ASSUME SchedDequeueSlow PROVE QueuedHasIntake'
  BY <1>11 DEF SchedDequeueSlow
<1>12. ASSUME StrayDequeue PROVE QueuedHasIntake'
  BY <1>12 DEF StrayDequeue, OldestQueued, Queued
<1>13. ASSUME SchedReject PROVE QueuedHasIntake'
  BY <1>13 DEF SchedReject, MarkSubmissionFailed, SubmitWrite, DropRuntime
<1>14. ASSUME SchedReserve PROVE QueuedHasIntake'
  BY <1>14 DEF SchedReserve
<1>15. ASSUME SchedSubmit PROVE QueuedHasIntake'
  BY <1>15 DEF SchedSubmit
<1>16. ASSUME SchedSubmitFails PROVE QueuedHasIntake'
  BY <1>16
     DEF SchedSubmitFails, MarkSubmissionFailed, SubmitWrite, DropRuntime,
         ReleaseSlot
<1>17. ASSUME NEW j \in Jobs, WorkerStart(j) PROVE QueuedHasIntake'
  BY <1>17 DEF WorkerStart
<1>18. ASSUME NEW j \in Jobs, WorkerFinish(j) PROVE QueuedHasIntake'
  BY <1>18 DEF WorkerFinish
<1>19. ASSUME PoolBreaks PROVE QueuedHasIntake'
  BY <1>19 DEF PoolBreaks
<1>20. ASSUME NEW j \in Jobs, CallbackClaim(j) PROVE QueuedHasIntake'
  BY <1>20 DEF CallbackClaim, WinsFuture
<1>21. ASSUME NEW j \in Jobs, CallbackResolve(j) PROVE QueuedHasIntake'
  BY <1>21 DEF CallbackResolve, ProcessTerminal, SubmitWrite, OutcomeOf
<1>21a. ASSUME NEW j \in Jobs, NEW who, SettleDrop(j, who) PROVE QueuedHasIntake'
  BY <1>21a DEF SettleDrop, DropRuntime
<1>21b. ASSUME NEW j \in Jobs, NEW who, SettleRelease(j, who) PROVE QueuedHasIntake'
  BY <1>21b DEF SettleRelease, ReleaseSlot
<1>22. ASSUME NEW w \in writes, StoreWrite(w) PROVE QueuedHasIntake'
  BY <1>22 DEF StoreWrite, Verdicts
<1>23. ASSUME NEW w \in writes, StoreWriteLost(w) PROVE QueuedHasIntake'
  BY <1>23 DEF StoreWriteLost
<1>24. ASSUME CleanExpired PROVE QueuedHasIntake'
  BY <1>24 DEF CleanExpired, Expired, Terminal
<1>25. ASSUME CleanSagas PROVE QueuedHasIntake'
  BY <1>25 DEF CleanSagas
<1>26. ASSUME NEW j \in Jobs, CleanPurge(j) PROVE QueuedHasIntake'
  BY <1>26 DEF CleanPurge, DropRuntime
<1>27. ASSUME CleanSweep PROVE QueuedHasIntake'
  BY <1>27 DEF CleanSweep
<1>28. ASSUME NEW j \in Jobs, DeadlinePasses(j) PROVE QueuedHasIntake'
  BY <1>28 DEF DeadlinePasses
<1>29. ASSUME NEW j \in Jobs, TtlPasses(j) PROVE QueuedHasIntake'
  BY <1>29 DEF TtlPasses
<1>30. ASSUME ShutdownStep PROVE QueuedHasIntake'
  BY <1>30 DEF ShutdownStep
<1>31. ASSUME Restart PROVE QueuedHasIntake'
  BY <1>31 DEF Restart
<1>32. CASE UNCHANGED vars
  BY <1>32 DEF vars
<1>33. QED
  BY <1>1, <1>2, <1>3, <1>4, <1>5, <1>6, <1>7, <1>8, <1>9, <1>10, <1>11, <1>12,
     <1>13, <1>14, <1>15, <1>16, <1>17, <1>18, <1>19, <1>20, <1>21, <1>21a, <1>21b, <1>22,
     <1>23, <1>24, <1>25, <1>26, <1>27, <1>28, <1>29, <1>30, <1>31, <1>32
     DEF Next, Generate, Callbacks, Scheduler, Cleaner

\* A terminal write that is submitted is pending, or the job is an orphan.
LEMMA VerdictOwed ==
  ASSUME NEW j, NEW v, SubmitWrite(j, v)
  PROVE  /\ j \in orphans' \/ \E w \in writes' : w.job = j
         /\ writes \subseteq writes' /\ orphans \subseteq orphans'
<1>1. CASE phase = "cleared"
  BY <1>1 DEF SubmitWrite
<1>2. CASE phase # "cleared"
  <2> DEFINE w == [job |-> j, verdict |-> v]
  <2>1. writes' = writes \cup {w} /\ orphans' = orphans
    BY <1>2 DEF SubmitWrite
  <2>2. w \in writes' /\ w.job = j
    BY <2>1
  <2>3. QED
    BY <2>1, <2>2
<1>3. QED
  BY <1>1, <1>2

\* Every action keeps the running rows owned: whoever lets a job go submits its
\* terminal write, or leaves it among the orphans.
LEMMA OwnerStep == HandInv /\ RunningIsOwned /\ [Next]_vars => RunningIsOwned'
<1> SUFFICES ASSUME HandInv, RunningIsOwned, [Next]_vars PROVE RunningIsOwned'
  OBVIOUS
<1> USE  DEF HandInv, TypeOK, Exclusive, InDispatch, RowsAreServed, HeldIsRunning,
        Holders, Owing, OneVerdict, Verdicts, RunningIsOwned,
        store, files, tables, scheduler, popper, executor, cleaner, clocks, process
<1>1. ASSUME NEW j \in Jobs, GenerateAdmit(j) PROVE RunningIsOwned'
  BY <1>1 DEF GenerateAdmit
<1>2. ASSUME NEW j \in Jobs, GenerateIntake(j) PROVE RunningIsOwned'
  BY <1>2 DEF GenerateIntake
<1>3. ASSUME NEW j \in Jobs, InsertQueued(j) PROVE RunningIsOwned'
  BY <1>3 DEF InsertQueued, SideTablesFilled
<1>4. ASSUME NEW j \in Jobs, InsertFails(j) PROVE RunningIsOwned'
  BY <1>4 DEF InsertFails
<1>5. ASSUME SchedTick PROVE RunningIsOwned'
  BY <1>5 DEF SchedTick
<1>6. ASSUME NEW j \in Jobs, WatchdogClaim(j) PROVE RunningIsOwned'
  BY <1>6 DEF WatchdogClaim, WinsFuture
<1>7. ASSUME NEW j \in Jobs, WatchdogResolve(j) PROVE RunningIsOwned'
  <2>1. \E v \in Verdicts : SubmitWrite(j, v)
    BY <1>7 DEF WatchdogResolve, ProcessTerminal, ForceTimeout, OutcomeOf
  <2>2. Owing \ {j} \subseteq Owing' /\ row' = row
    BY <1>7 DEF WatchdogResolve
  <2>3. UNCHANGED <<schedAt, schedJob>>
    BY <1>7 DEF WatchdogResolve
  <2>4. QED
    BY <1>7, <2>1, <2>2, <2>3, VerdictOwed
<1>8. ASSUME SchedGate PROVE RunningIsOwned'
  BY <1>8 DEF SchedGate, AfterGate
<1>9. ASSUME SchedDequeue PROVE RunningIsOwned'
  BY <1>9 DEF SchedDequeue, OldestQueued, Queued, NoneClaimed
<1>10. ASSUME SchedDequeueFails PROVE RunningIsOwned'
  BY <1>10 DEF SchedDequeueFails
<1>11. ASSUME SchedDequeueSlow PROVE RunningIsOwned'
  BY <1>11 DEF SchedDequeueSlow
<1>12. ASSUME StrayDequeue PROVE RunningIsOwned'
  BY <1>12 DEF StrayDequeue, OldestQueued, Queued
<1>13. ASSUME SchedReject PROVE RunningIsOwned'
  <2>1. \E v \in Verdicts : SubmitWrite(schedJob, v)
    BY <1>13 DEF SchedReject, MarkSubmissionFailed
  <2>2. Owing \ {schedJob} \subseteq Owing' /\ row' = row
    BY <1>13 DEF SchedReject, MarkSubmissionFailed, DropRuntime
  <2>3. ~(schedAt = "claimed" /\ schedJob # schedJob) /\ UNCHANGED schedJob
    BY <1>13 DEF SchedReject
  <2>4. QED
    BY <1>13, <2>1, <2>2, <2>3, VerdictOwed
<1>14. ASSUME SchedReserve PROVE RunningIsOwned'
  BY <1>14 DEF SchedReserve
<1>15. ASSUME SchedSubmit PROVE RunningIsOwned'
  BY <1>15 DEF SchedSubmit
<1>16. ASSUME SchedSubmitFails PROVE RunningIsOwned'
  <2>1. \E v \in Verdicts : SubmitWrite(schedJob, v)
    BY <1>16 DEF SchedSubmitFails, MarkSubmissionFailed
  <2>2. Owing \ {schedJob} \subseteq Owing' /\ row' = row
    BY <1>16 DEF SchedSubmitFails, MarkSubmissionFailed, DropRuntime
  <2>3. ~(schedAt = "claimed" /\ schedJob # schedJob) /\ UNCHANGED schedJob
    BY <1>16 DEF SchedSubmitFails
  <2>4. QED
    BY <1>16, <2>1, <2>2, <2>3, VerdictOwed
<1>17. ASSUME NEW j \in Jobs, WorkerStart(j) PROVE RunningIsOwned'
  BY <1>17 DEF WorkerStart
<1>18. ASSUME NEW j \in Jobs, WorkerFinish(j) PROVE RunningIsOwned'
  BY <1>18 DEF WorkerFinish
<1>19. ASSUME PoolBreaks PROVE RunningIsOwned'
  BY <1>19 DEF PoolBreaks
<1>20. ASSUME NEW j \in Jobs, CallbackClaim(j) PROVE RunningIsOwned'
  BY <1>20 DEF CallbackClaim, WinsFuture
<1>21. ASSUME NEW j \in Jobs, CallbackResolve(j) PROVE RunningIsOwned'
  <2>1. \E v \in Verdicts : SubmitWrite(j, v)
    BY <1>21 DEF CallbackResolve, ProcessTerminal, OutcomeOf
  <2>2. Owing \ {j} \subseteq Owing' /\ row' = row
    BY <1>21 DEF CallbackResolve
  <2>3. UNCHANGED <<schedAt, schedJob>>
    BY <1>21 DEF CallbackResolve
  <2>4. QED
    BY <1>21, <2>1, <2>2, <2>3, VerdictOwed
<1>21a. ASSUME NEW j \in Jobs, NEW who, SettleDrop(j, who) PROVE RunningIsOwned'
  BY <1>21a DEF SettleDrop, DropRuntime
<1>21b. ASSUME NEW j \in Jobs, NEW who, SettleRelease(j, who) PROVE RunningIsOwned'
  BY <1>21b DEF SettleRelease, ReleaseSlot
<1>22. ASSUME NEW w \in writes, StoreWrite(w) PROVE RunningIsOwned'
  BY <1>22 DEF StoreWrite
<1>23. ASSUME NEW w \in writes, StoreWriteLost(w) PROVE RunningIsOwned'
  BY <1>23 DEF StoreWriteLost
<1>24. ASSUME CleanExpired PROVE RunningIsOwned'
  BY <1>24 DEF CleanExpired, Expired, Terminal
<1>25. ASSUME CleanSagas PROVE RunningIsOwned'
  BY <1>25 DEF CleanSagas
<1>26. ASSUME NEW j \in Jobs, CleanPurge(j) PROVE RunningIsOwned'
  BY <1>26 DEF CleanPurge, DropRuntime
<1>27. ASSUME CleanSweep PROVE RunningIsOwned'
  BY <1>27 DEF CleanSweep
<1>28. ASSUME NEW j \in Jobs, DeadlinePasses(j) PROVE RunningIsOwned'
  BY <1>28 DEF DeadlinePasses
<1>29. ASSUME NEW j \in Jobs, TtlPasses(j) PROVE RunningIsOwned'
  BY <1>29 DEF TtlPasses
<1>30. ASSUME ShutdownStep PROVE RunningIsOwned'
  BY <1>30 DEF ShutdownStep
<1>31. ASSUME Restart PROVE RunningIsOwned'
  BY <1>31 DEF Restart
<1>32. CASE UNCHANGED vars
  BY <1>32 DEF vars
<1>33. QED
  BY <1>1, <1>2, <1>3, <1>4, <1>5, <1>6, <1>7, <1>8, <1>9, <1>10, <1>11, <1>12,
     <1>13, <1>14, <1>15, <1>16, <1>17, <1>18, <1>19, <1>20, <1>21, <1>21a, <1>21b, <1>22,
     <1>23, <1>24, <1>25, <1>26, <1>27, <1>28, <1>29, <1>30, <1>31, <1>32
     DEF Next, Generate, Callbacks, Scheduler, Cleaner

\* Every action keeps the archives of the jobs that are, or are about to be,
\* reported complete.
LEMMA ArtifactStep == HandInv /\ ArchiveInv /\ [Next]_vars => ArchiveInv'
<1> SUFFICES ASSUME HandInv, ArchiveInv, [Next]_vars PROVE ArchiveInv'
  OBVIOUS
<1> USE  DEF HandInv, TypeOK, Exclusive, InDispatch, RowsAreServed, HeldIsRunning,
        Holders, Owing, OneVerdict, Verdicts,
        ArchiveInv, SuccessHasArtifact, CompleteHasArtifact, Finished,
        store, files, tables, scheduler, popper, executor, cleaner, clocks, process
<1>1. ASSUME NEW j \in Jobs, GenerateAdmit(j) PROVE ArchiveInv'
  BY <1>1 DEF GenerateAdmit
<1>2. ASSUME NEW j \in Jobs, GenerateIntake(j) PROVE ArchiveInv'
  BY <1>2 DEF GenerateIntake
<1>3. ASSUME NEW j \in Jobs, InsertQueued(j) PROVE ArchiveInv'
  BY <1>3 DEF InsertQueued, SideTablesFilled
<1>4. ASSUME NEW j \in Jobs, InsertFails(j) PROVE ArchiveInv'
  BY <1>4 DEF InsertFails
<1>5. ASSUME SchedTick PROVE ArchiveInv'
  BY <1>5 DEF SchedTick
<1>6. ASSUME NEW j \in Jobs, WatchdogClaim(j) PROVE ArchiveInv'
  BY <1>6 DEF WatchdogClaim, WinsFuture
<1>7. ASSUME NEW j \in Jobs, WatchdogResolve(j) PROVE ArchiveInv'
  BY <1>7
     DEF WatchdogResolve, ProcessTerminal, ForceTimeout, SubmitWrite, OutcomeOf,
         Finished
<1>8. ASSUME SchedGate PROVE ArchiveInv'
  BY <1>8 DEF SchedGate, AfterGate
<1>9. ASSUME SchedDequeue PROVE ArchiveInv'
  BY <1>9 DEF SchedDequeue, OldestQueued, Queued, NoneClaimed
<1>10. ASSUME SchedDequeueFails PROVE ArchiveInv'
  BY <1>10 DEF SchedDequeueFails
<1>11. ASSUME SchedDequeueSlow PROVE ArchiveInv'
  BY <1>11 DEF SchedDequeueSlow
<1>12. ASSUME StrayDequeue PROVE ArchiveInv'
  BY <1>12 DEF StrayDequeue, OldestQueued, Queued
<1>13. ASSUME SchedReject PROVE ArchiveInv'
  BY <1>13 DEF SchedReject, MarkSubmissionFailed, SubmitWrite, DropRuntime
<1>14. ASSUME SchedReserve PROVE ArchiveInv'
  BY <1>14 DEF SchedReserve
<1>15. ASSUME SchedSubmit PROVE ArchiveInv'
  BY <1>15 DEF SchedSubmit
<1>16. ASSUME SchedSubmitFails PROVE ArchiveInv'
  BY <1>16
     DEF SchedSubmitFails, MarkSubmissionFailed, SubmitWrite, DropRuntime,
         ReleaseSlot
<1>17. ASSUME NEW j \in Jobs, WorkerStart(j) PROVE ArchiveInv'
  BY <1>17 DEF WorkerStart
<1>18. ASSUME NEW j \in Jobs, WorkerFinish(j) PROVE ArchiveInv'
  BY <1>18 DEF WorkerFinish
<1>19. ASSUME PoolBreaks PROVE ArchiveInv'
  BY <1>19 DEF PoolBreaks
<1>20. ASSUME NEW j \in Jobs, CallbackClaim(j) PROVE ArchiveInv'
  BY <1>20 DEF CallbackClaim, WinsFuture
<1>21. ASSUME NEW j \in Jobs, CallbackResolve(j) PROVE ArchiveInv'
  BY <1>21 DEF CallbackResolve, ProcessTerminal, SubmitWrite, OutcomeOf
<1>21a. ASSUME NEW j \in Jobs, NEW who, SettleDrop(j, who) PROVE ArchiveInv'
  BY <1>21a DEF SettleDrop, DropRuntime
<1>21b. ASSUME NEW j \in Jobs, NEW who, SettleRelease(j, who) PROVE ArchiveInv'
  BY <1>21b DEF SettleRelease, ReleaseSlot
<1>22. ASSUME NEW w \in writes, StoreWrite(w) PROVE ArchiveInv'
  BY <1>22 DEF StoreWrite
<1>23. ASSUME NEW w \in writes, StoreWriteLost(w) PROVE ArchiveInv'
  BY <1>23 DEF StoreWriteLost
<1>24. ASSUME CleanExpired PROVE ArchiveInv'
  BY <1>24 DEF CleanExpired, Expired, Terminal
<1>25. ASSUME CleanSagas PROVE ArchiveInv'
  BY <1>25 DEF CleanSagas
<1>26. ASSUME NEW j \in Jobs, CleanPurge(j) PROVE ArchiveInv'
  BY <1>26 DEF CleanPurge, DropRuntime
<1>27. ASSUME CleanSweep PROVE ArchiveInv'
  BY <1>27 DEF CleanSweep
<1>28. ASSUME NEW j \in Jobs, DeadlinePasses(j) PROVE ArchiveInv'
  BY <1>28 DEF DeadlinePasses
<1>29. ASSUME NEW j \in Jobs, TtlPasses(j) PROVE ArchiveInv'
  BY <1>29 DEF TtlPasses
<1>30. ASSUME ShutdownStep PROVE ArchiveInv'
  BY <1>30 DEF ShutdownStep
<1>31. ASSUME Restart PROVE ArchiveInv'
  BY <1>31 DEF Restart
<1>32. CASE UNCHANGED vars
  BY <1>32 DEF vars
<1>33. QED
  BY <1>1, <1>2, <1>3, <1>4, <1>5, <1>6, <1>7, <1>8, <1>9, <1>10, <1>11, <1>12,
     <1>13, <1>14, <1>15, <1>16, <1>17, <1>18, <1>19, <1>20, <1>21, <1>21a, <1>21b, <1>22,
     <1>23, <1>24, <1>25, <1>26, <1>27, <1>28, <1>29, <1>30, <1>31, <1>32
     DEF Next, Generate, Callbacks, Scheduler, Cleaner

\* No action writes an error note of a job that is, or is about to be, reported
\* complete, and none reports complete a job that has one.
LEMMA NoteStep == HandInv /\ NoteIsOfFailure /\ [Next]_vars => NoteIsOfFailure'
<1> SUFFICES ASSUME HandInv, NoteIsOfFailure, [Next]_vars PROVE NoteIsOfFailure'
  OBVIOUS
<1> USE  DEF HandInv, TypeOK, Exclusive, InDispatch, RowsAreServed, HeldIsRunning,
        Holders, Owing, OneVerdict, Verdicts,
        NoteIsOfFailure, Finished,
        store, files, tables, scheduler, popper, executor, cleaner, clocks, process
<1>1. ASSUME NEW j \in Jobs, GenerateAdmit(j) PROVE NoteIsOfFailure'
  BY <1>1 DEF GenerateAdmit
<1>2. ASSUME NEW j \in Jobs, GenerateIntake(j) PROVE NoteIsOfFailure'
  BY <1>2 DEF GenerateIntake
<1>3. ASSUME NEW j \in Jobs, InsertQueued(j) PROVE NoteIsOfFailure'
  BY <1>3 DEF InsertQueued, SideTablesFilled
<1>4. ASSUME NEW j \in Jobs, InsertFails(j) PROVE NoteIsOfFailure'
  BY <1>4 DEF InsertFails
<1>5. ASSUME SchedTick PROVE NoteIsOfFailure'
  BY <1>5 DEF SchedTick
<1>6. ASSUME NEW j \in Jobs, WatchdogClaim(j) PROVE NoteIsOfFailure'
  BY <1>6 DEF WatchdogClaim, WinsFuture
<1>7. ASSUME NEW j \in Jobs, WatchdogResolve(j) PROVE NoteIsOfFailure'
  BY <1>7
     DEF WatchdogResolve, ProcessTerminal, ForceTimeout, SubmitWrite, OutcomeOf,
         Finished
<1>8. ASSUME SchedGate PROVE NoteIsOfFailure'
  BY <1>8 DEF SchedGate, AfterGate
<1>9. ASSUME SchedDequeue PROVE NoteIsOfFailure'
  BY <1>9 DEF SchedDequeue, OldestQueued, Queued, NoneClaimed
<1>10. ASSUME SchedDequeueFails PROVE NoteIsOfFailure'
  BY <1>10 DEF SchedDequeueFails
<1>11. ASSUME SchedDequeueSlow PROVE NoteIsOfFailure'
  BY <1>11 DEF SchedDequeueSlow
<1>12. ASSUME StrayDequeue PROVE NoteIsOfFailure'
  BY <1>12 DEF StrayDequeue, OldestQueued, Queued
<1>13. ASSUME SchedReject PROVE NoteIsOfFailure'
  BY <1>13 DEF SchedReject, MarkSubmissionFailed, SubmitWrite, DropRuntime
<1>14. ASSUME SchedReserve PROVE NoteIsOfFailure'
  BY <1>14 DEF SchedReserve
<1>15. ASSUME SchedSubmit PROVE NoteIsOfFailure'
  BY <1>15 DEF SchedSubmit
<1>16. ASSUME SchedSubmitFails PROVE NoteIsOfFailure'
  BY <1>16
     DEF SchedSubmitFails, MarkSubmissionFailed, SubmitWrite, DropRuntime,
         ReleaseSlot
<1>17. ASSUME NEW j \in Jobs, WorkerStart(j) PROVE NoteIsOfFailure'
  BY <1>17 DEF WorkerStart
<1>18. ASSUME NEW j \in Jobs, WorkerFinish(j) PROVE NoteIsOfFailure'
  BY <1>18 DEF WorkerFinish
<1>19. ASSUME PoolBreaks PROVE NoteIsOfFailure'
  BY <1>19 DEF PoolBreaks
<1>20. ASSUME NEW j \in Jobs, CallbackClaim(j) PROVE NoteIsOfFailure'
  BY <1>20 DEF CallbackClaim, WinsFuture
<1>21. ASSUME NEW j \in Jobs, CallbackResolve(j) PROVE NoteIsOfFailure'
  BY <1>21 DEF CallbackResolve, ProcessTerminal, SubmitWrite, OutcomeOf
<1>21a. ASSUME NEW j \in Jobs, NEW who, SettleDrop(j, who) PROVE NoteIsOfFailure'
  BY <1>21a DEF SettleDrop, DropRuntime
<1>21b. ASSUME NEW j \in Jobs, NEW who, SettleRelease(j, who) PROVE NoteIsOfFailure'
  BY <1>21b DEF SettleRelease, ReleaseSlot
<1>22. ASSUME NEW w \in writes, StoreWrite(w) PROVE NoteIsOfFailure'
  BY <1>22 DEF StoreWrite
<1>23. ASSUME NEW w \in writes, StoreWriteLost(w) PROVE NoteIsOfFailure'
  BY <1>23 DEF StoreWriteLost
<1>24. ASSUME CleanExpired PROVE NoteIsOfFailure'
  BY <1>24 DEF CleanExpired, Expired, Terminal
<1>25. ASSUME CleanSagas PROVE NoteIsOfFailure'
  BY <1>25 DEF CleanSagas
<1>26. ASSUME NEW j \in Jobs, CleanPurge(j) PROVE NoteIsOfFailure'
  BY <1>26 DEF CleanPurge, DropRuntime
<1>27. ASSUME CleanSweep PROVE NoteIsOfFailure'
  BY <1>27 DEF CleanSweep
<1>28. ASSUME NEW j \in Jobs, DeadlinePasses(j) PROVE NoteIsOfFailure'
  BY <1>28 DEF DeadlinePasses
<1>29. ASSUME NEW j \in Jobs, TtlPasses(j) PROVE NoteIsOfFailure'
  BY <1>29 DEF TtlPasses
<1>30. ASSUME ShutdownStep PROVE NoteIsOfFailure'
  BY <1>30 DEF ShutdownStep
<1>31. ASSUME Restart PROVE NoteIsOfFailure'
  BY <1>31 DEF Restart
<1>32. CASE UNCHANGED vars
  BY <1>32 DEF vars
<1>33. QED
  BY <1>1, <1>2, <1>3, <1>4, <1>5, <1>6, <1>7, <1>8, <1>9, <1>10, <1>11, <1>12,
     <1>13, <1>14, <1>15, <1>16, <1>17, <1>18, <1>19, <1>20, <1>21, <1>21a, <1>21b, <1>22,
     <1>23, <1>24, <1>25, <1>26, <1>27, <1>28, <1>29, <1>30, <1>31, <1>32
     DEF Next, Generate, Callbacks, Scheduler, Cleaner

-----------------------------------------------------------------------------
(* The theorems.                                                           *)

\* The inductive invariant holds at start-up.
LEMMA InitIInv == Init => IInv
<1> SUFFICES ASSUME Init PROVE IInv
  OBVIOUS
<1>1. HandInv
  BY InitHand
<1>2. Holders = {} /\ writes = {} /\ \A j \in Jobs : row[j] = "absent"
  BY DEF Init, Holders
<1>3. SlotsAccounted
  BY <1>2, FS_EmptySet, BoundsAssumption DEF Init, SlotsAccounted
<1>4. QueuedHasIntake /\ RunningIsOwned
  BY <1>2 DEF QueuedHasIntake, Queued, RunningIsOwned
<1>5. Owing = {} /\ ~InDispatch
  BY <1>2 DEF Init, Owing, InDispatch
<1>6. ArchiveInv /\ NoteIsOfFailure
  BY <1>2, <1>5
     DEF ArchiveInv, SuccessHasArtifact, CompleteHasArtifact, NoteIsOfFailure
<1>7. QED
  BY <1>1, <1>3, <1>4, <1>6 DEF IInv

\* The inductive invariant: every thread keeps all of it.
THEOREM IInvariant == Spec => []IInv
<1>1. IInv /\ [Next]_vars => IInv'
  BY HandStep, SlotsStep, IntakeStep, OwnerStep, ArtifactStep, NoteStep DEF IInv
<1>2. QED
  BY InitIInv, <1>1, PTL DEF Spec

\* Every variable keeps its type.
THEOREM TypeCorrect == Spec => []TypeOK
BY IInvariant, PTL DEF IInv, HandInv

\* active_jobs counts the held jobs exactly and never exceeds MAX_WORKERS,
\* for any pool size: done-callback, watchdog, failed submit and pool crash
\* each release a slot once.
THEOREM SlotsAreAccounted == Spec => []SlotsAccounted
BY IInvariant, PTL DEF IInv

\* At most one verdict per job is under way to the store, over a running row.
THEOREM VerdictIsUnique == Spec => []OneVerdict
BY IInvariant, PTL DEF IInv, HandInv

\* The cleaner never reaps a job somebody works on.
THEOREM HeldJobsAreSafe == Spec => []HeldIsRunning
BY IInvariant, PTL DEF IInv, HandInv

\* The scheduler never sees a queued row of this process without its settings.
THEOREM IntakeIsThere == Spec => []QueuedHasIntake
BY IInvariant, PTL DEF IInv

\* A row reported complete has its archive.
THEOREM ArtifactIsThere == Spec => []CompleteHasArtifact
BY IInvariant, PTL DEF IInv, ArchiveInv

\* Nothing but the four recorded causes leaves a running row without an owner.
THEOREM RunningJobsAreOwned == Spec => []RunningIsOwned
BY IInvariant, PTL DEF IInv
-----------------------------------------------------------------------------
(* Finality, and the contract the client sees.                             *)

Finality == \A j \in Terminal : row'[j] \in {row[j], "absent"}

\* No action writes over a verdict: a pending write is for a running row.
LEMMA FinalityStep == IInv /\ [Next]_vars => Finality
<1> SUFFICES ASSUME IInv, [Next]_vars PROVE Finality
  OBVIOUS
<1> USE
   DEF Finality, Terminal, IInv, HandInv, TypeOK, Exclusive, RowsAreServed,
       InDispatch, Holders, Owing, OneVerdict, Verdicts,
        store, files, tables, scheduler, popper, executor, cleaner, clocks, process
<1>1. ASSUME NEW j \in Jobs, GenerateAdmit(j) PROVE Finality
  BY <1>1 DEF GenerateAdmit
<1>2. ASSUME NEW j \in Jobs, GenerateIntake(j) PROVE Finality
  BY <1>2 DEF GenerateIntake
<1>3. ASSUME NEW j \in Jobs, InsertQueued(j) PROVE Finality
  BY <1>3 DEF InsertQueued, SideTablesFilled
<1>4. ASSUME NEW j \in Jobs, InsertFails(j) PROVE Finality
  BY <1>4 DEF InsertFails
<1>5. ASSUME SchedTick PROVE Finality
  BY <1>5 DEF SchedTick
<1>6. ASSUME NEW j \in Jobs, WatchdogClaim(j) PROVE Finality
  BY <1>6 DEF WatchdogClaim, WinsFuture
<1>7. ASSUME NEW j \in Jobs, WatchdogResolve(j) PROVE Finality
  BY <1>7
     DEF WatchdogResolve, ProcessTerminal, ForceTimeout, SubmitWrite, OutcomeOf,
         Finished
<1>8. ASSUME SchedGate PROVE Finality
  BY <1>8 DEF SchedGate, AfterGate
<1>9. ASSUME SchedDequeue PROVE Finality
  BY <1>9 DEF SchedDequeue, OldestQueued, Queued, NoneClaimed
<1>10. ASSUME SchedDequeueFails PROVE Finality
  BY <1>10 DEF SchedDequeueFails
<1>11. ASSUME SchedDequeueSlow PROVE Finality
  BY <1>11 DEF SchedDequeueSlow
<1>12. ASSUME StrayDequeue PROVE Finality
  BY <1>12 DEF StrayDequeue, OldestQueued, Queued
<1>13. ASSUME SchedReject PROVE Finality
  BY <1>13 DEF SchedReject, MarkSubmissionFailed, SubmitWrite, DropRuntime
<1>14. ASSUME SchedReserve PROVE Finality
  BY <1>14 DEF SchedReserve
<1>15. ASSUME SchedSubmit PROVE Finality
  BY <1>15 DEF SchedSubmit
<1>16. ASSUME SchedSubmitFails PROVE Finality
  BY <1>16
     DEF SchedSubmitFails, MarkSubmissionFailed, SubmitWrite, DropRuntime,
         ReleaseSlot
<1>17. ASSUME NEW j \in Jobs, WorkerStart(j) PROVE Finality
  BY <1>17 DEF WorkerStart
<1>18. ASSUME NEW j \in Jobs, WorkerFinish(j) PROVE Finality
  BY <1>18 DEF WorkerFinish
<1>19. ASSUME PoolBreaks PROVE Finality
  BY <1>19 DEF PoolBreaks
<1>20. ASSUME NEW j \in Jobs, CallbackClaim(j) PROVE Finality
  BY <1>20 DEF CallbackClaim, WinsFuture
<1>21. ASSUME NEW j \in Jobs, CallbackResolve(j) PROVE Finality
  BY <1>21 DEF CallbackResolve, ProcessTerminal, SubmitWrite, OutcomeOf
<1>21a. ASSUME NEW j \in Jobs, NEW who, SettleDrop(j, who) PROVE Finality
  BY <1>21a DEF SettleDrop, DropRuntime
<1>21b. ASSUME NEW j \in Jobs, NEW who, SettleRelease(j, who) PROVE Finality
  BY <1>21b DEF SettleRelease, ReleaseSlot
<1>22. ASSUME NEW w \in writes, StoreWrite(w) PROVE Finality
  BY <1>22 DEF StoreWrite
<1>23. ASSUME NEW w \in writes, StoreWriteLost(w) PROVE Finality
  BY <1>23 DEF StoreWriteLost
<1>24. ASSUME CleanExpired PROVE Finality
  BY <1>24 DEF CleanExpired, Expired, Terminal
<1>25. ASSUME CleanSagas PROVE Finality
  BY <1>25 DEF CleanSagas
<1>26. ASSUME NEW j \in Jobs, CleanPurge(j) PROVE Finality
  BY <1>26 DEF CleanPurge, DropRuntime
<1>27. ASSUME CleanSweep PROVE Finality
  BY <1>27 DEF CleanSweep
<1>28. ASSUME NEW j \in Jobs, DeadlinePasses(j) PROVE Finality
  BY <1>28 DEF DeadlinePasses
<1>29. ASSUME NEW j \in Jobs, TtlPasses(j) PROVE Finality
  BY <1>29 DEF TtlPasses
<1>30. ASSUME ShutdownStep PROVE Finality
  BY <1>30 DEF ShutdownStep
<1>31. ASSUME Restart PROVE Finality
  BY <1>31 DEF Restart
<1>32. CASE UNCHANGED vars
  BY <1>32 DEF vars
<1>33. QED
  BY <1>1, <1>2, <1>3, <1>4, <1>5, <1>6, <1>7, <1>8, <1>9, <1>10, <1>11, <1>12,
     <1>13, <1>14, <1>15, <1>16, <1>17, <1>18, <1>19, <1>20, <1>21, <1>21a, <1>21b, <1>22,
     <1>23, <1>24, <1>25, <1>26, <1>27, <1>28, <1>29, <1>30, <1>31, <1>32
     DEF Next, Generate, Callbacks, Scheduler, Cleaner

\* A terminal row only expires: no late callback, zombie or retry rewrites it.
THEOREM VerdictsAreFinal == Spec => TerminalIsFinal
<1>1. IInv /\ [Next]_vars => [Finality]_vars
  BY FinalityStep
<1>2. QED
  BY IInvariant, <1>1, PTL DEF Spec, TerminalIsFinal, Finality


\* What the client sees changes only with the rows, the archives and the
\* requests that came through.
LEMMA ViewKept ==
  ASSUME row' = row, out' = out,
         \A j \in Jobs : req'[j] = "served" <=> req[j] = "served"
  PROVE  UNCHANGED JC!cvars
<1>1. StatusSeen' = StatusSeen
  BY DEF StatusSeen
<1>2. QED
  BY <1>1 DEF JC!cvars

\* The client sees the archives unchanged while out is.
LEMMA ArchiveKept ==
  ASSUME NEW k \in Jobs, NEW X,
         TypeOK, X \subseteq {"manifest"}, 
         out' = [out EXCEPT ![k] = @ \cup X] \/ out' = out
  PROVE  {j \in Jobs : "artifact" \in out'[j]} = {j \in Jobs : "artifact" \in out[j]}
BY DEF TypeOK

\* Every action is, for the client, a step of the contract or none.
LEMMA ContractStep == IInv /\ [Next]_vars => [JC!ContractNext]_(JC!cvars)
<1> SUFFICES ASSUME IInv, [Next]_vars PROVE [JC!ContractNext]_(JC!cvars)
  OBVIOUS
<1> DEFINE Archives == {j \in Jobs : "artifact" \in out[j]}
<1> TypeOK /\ HandInv /\ RowsAreServed /\ OneVerdict /\ Exclusive
  BY DEF IInv, HandInv
<1>0. NoteIsOfFailure
  BY DEF IInv
<1> USE DEF store, files, tables, scheduler, popper, executor, cleaner, clocks, process
<1>1. ASSUME NEW j \in Jobs, GenerateAdmit(j) \/ GenerateIntake(j) \/ InsertFails(j)
      PROVE  UNCHANGED JC!cvars
  BY <1>1, ViewKept DEF GenerateAdmit, GenerateIntake, InsertFails, TypeOK
<1>2. ASSUME NEW j \in Jobs, InsertQueued(j) PROVE JC!Submit(j)
  <2>1. StatusSeen[j] = "unknown" /\ Archives' = Archives
    BY <1>2 DEF InsertQueued, SideTablesFilled, StatusSeen, TypeOK, RowsAreServed
  <2>2. StatusSeen' = [StatusSeen EXCEPT ![j] = "queued"]
    BY <1>2 DEF InsertQueued, SideTablesFilled, StatusSeen, TypeOK
  <2>3. QED
    BY <2>1, <2>2 DEF JC!Submit
<1>3. ASSUME SchedTick \/ SchedGate \/ SchedDequeueFails \/ SchedDequeueSlow
             \/ SchedReserve \/ SchedSubmit \/ PoolBreaks \/ CleanSagas
             \/ CleanSweep \/ ShutdownStep
      PROVE  UNCHANGED JC!cvars
  BY <1>3, ViewKept
     DEF SchedTick, SchedGate, SchedDequeueFails, SchedDequeueSlow, SchedReserve,
         SchedSubmit, PoolBreaks, CleanSagas, CleanSweep, ShutdownStep
<1>4. ASSUME NEW j \in Jobs,
             WatchdogClaim(j) \/ WorkerStart(j) \/ CallbackClaim(j)
             \/ DeadlinePasses(j) \/ TtlPasses(j)
      PROVE  UNCHANGED JC!cvars
  BY <1>4, ViewKept
     DEF WatchdogClaim, WorkerStart, CallbackClaim, DeadlinePasses, TtlPasses
<1>5. ASSUME NEW w \in writes, StoreWriteLost(w) PROVE UNCHANGED JC!cvars
  BY <1>5, ViewKept DEF StoreWriteLost
<1>6. ASSUME NEW j \in Jobs, WatchdogResolve(j) \/ CallbackResolve(j)
      PROVE  UNCHANGED JC!cvars
  <2>1. row' = row /\ req' = req /\ row[j] = "running"
    BY <1>6
       DEF WatchdogResolve, CallbackResolve, IInv, HandInv, HeldIsRunning, Holders
  <2>2. out' = [out EXCEPT ![j] = @ \cup {"manifest"}] \/ out' = out
    BY <1>6 DEF WatchdogResolve, CallbackResolve, ProcessTerminal, ForceTimeout
  <2>3. Archives' = Archives
    BY <2>2, ArchiveKept
  <2>4. StatusSeen' = StatusSeen
    BY <2>1, <2>2 DEF StatusSeen, TypeOK
  <2>5. QED
    BY <2>3, <2>4 DEF JC!cvars
<1>6a. ASSUME NEW j \in Jobs, NEW who, SettleDrop(j, who) \/ SettleRelease(j, who)
       PROVE  UNCHANGED JC!cvars
  BY <1>6a, ViewKept DEF SettleDrop, SettleRelease
<1>7. ASSUME SchedDequeue \/ StrayDequeue
      PROVE  UNCHANGED JC!cvars \/ \E j \in Jobs : JC!Claim(j)
  <2>1. CASE row' = row
    BY <1>7, <2>1, ViewKept DEF SchedDequeue, StrayDequeue
  <2>2. CASE \E j \in Jobs : OldestQueued(j) /\ row' = [row EXCEPT ![j] = "running"]
    <3>1. PICK j \in Jobs : OldestQueued(j) /\ row' = [row EXCEPT ![j] = "running"]
      BY <2>2
    <3>2. req' = req /\ out' = out /\ row[j] = "queued"
      BY <1>7, <3>1 DEF SchedDequeue, StrayDequeue, OldestQueued, Queued
    <3>3. StatusSeen[j] = "queued" /\ StatusSeen' = [StatusSeen EXCEPT ![j] = "running"]
      BY <3>1, <3>2 DEF StatusSeen, TypeOK
    <3>4. QED
      BY <3>2, <3>3 DEF JC!Claim
  <2>3. QED
    BY <1>7, <2>1, <2>2 DEF SchedDequeue, StrayDequeue, NoneClaimed
<1>8. ASSUME SchedReject \/ SchedSubmitFails
      PROVE  \E j \in Jobs : JC!Discard(j)
  <2>1. schedJob \in Jobs /\ row[schedJob] = "running" /\ row' = row /\ req' = req
    BY <1>8 DEF SchedReject, SchedSubmitFails, TypeOK, Exclusive, InDispatch
  <2>2. out' = [out EXCEPT ![schedJob] = {"manifest"}]
    BY <1>8 DEF SchedReject, SchedSubmitFails, MarkSubmissionFailed
  <2>3. Archives' = Archives \ {schedJob}
    BY <2>1, <2>2 DEF TypeOK
  <2>4. StatusSeen' = StatusSeen /\ StatusSeen[schedJob] = "running"
    BY <2>1, <2>2 DEF StatusSeen, TypeOK
  <2>5. QED
    BY <2>1, <2>3, <2>4 DEF JC!Discard
<1>9. ASSUME NEW j \in Jobs, WorkerFinish(j)
      PROVE  UNCHANGED JC!cvars \/ JC!Produce(j) \/ JC!Resurface(j)
  <2>1. /\ row' = row /\ req' = req /\ req[j] = "served"
        /\ row[j] \notin {"queued", "complete"}
    BY <1>9, <1>0 DEF WorkerFinish, RowsAreServed, TypeOK, NoteIsOfFailure
  <2>2. StatusSeen[j] \notin {"unknown", "queued"}
    BY <2>1 DEF StatusSeen, TypeOK, Verdicts
  <2>3. CASE out' = [out EXCEPT ![j] = @ \cup {"artifact"}]
    <3>1. Archives' = Archives \cup {j}
      BY <2>3 DEF TypeOK
    <3>2. StatusSeen' = StatusSeen
      BY <2>1, <2>3 DEF StatusSeen, TypeOK
    <3>3. QED
      BY <2>2, <3>1, <3>2 DEF JC!Produce
  <2>4. CASE out' = [out EXCEPT ![j] = @ \cup {"manifest"}]
    <3>1. Archives' = Archives
      BY <2>4, ArchiveKept
    <3>2. \A k \in Jobs : k # j => StatusSeen'[k] = StatusSeen[k]
      BY <2>1, <2>4 DEF StatusSeen, TypeOK
    <3>3. CASE row[j] = "absent" /\ "manifest" \notin out[j]
      <4>1. StatusSeen[j] = "gone" /\ StatusSeen'[j] = "failed"
        BY <2>1, <2>4, <3>3 DEF StatusSeen, TypeOK
      <4>2. StatusSeen' = [StatusSeen EXCEPT ![j] = "failed"]
        BY <3>2, <4>1 DEF StatusSeen
      <4>3. QED
        BY <3>1, <4>1, <4>2 DEF JC!Resurface
    <3>4. CASE row[j] # "absent" \/ "manifest" \in out[j]
      <4>1. StatusSeen'[j] = StatusSeen[j]
        BY <2>1, <2>4, <3>4 DEF StatusSeen, TypeOK
      <4>2. StatusSeen' = StatusSeen
        BY <3>2, <4>1 DEF StatusSeen
      <4>3. QED
        BY <3>1, <4>2 DEF JC!cvars
    <3>5. QED
      BY <3>3, <3>4
  <2>5. QED
    BY <1>9, <2>3, <2>4 DEF WorkerFinish
<1>10. ASSUME NEW w \in writes, StoreWrite(w)
       PROVE  \E v \in JC!Verdict : JC!Decide(w.job, v)
  <2> DEFINE v == IF w.verdict = "timed_out" THEN "failed" ELSE w.verdict
  <2>1. /\ w.job \in Jobs /\ w.verdict \in Verdicts /\ row[w.job] = "running"
        /\ row' = [row EXCEPT ![w.job] = w.verdict] /\ req' = req /\ out' = out
    BY <1>10 DEF StoreWrite, OneVerdict, TypeOK
  <2>2. v = "complete" => w.job \in Archives
    BY <2>1 DEF IInv, ArchiveInv, SuccessHasArtifact
  <2>3. StatusSeen[w.job] = "running" /\ Archives' = Archives
    BY <2>1 DEF StatusSeen
  <2>4. StatusSeen' = [StatusSeen EXCEPT ![w.job] = v]
    BY <2>1 DEF StatusSeen, TypeOK, Verdicts
  <2>5. v \in JC!Verdict
    BY <2>1 DEF Verdicts, JC!Verdict
  <2>6. QED
    BY <2>2, <2>3, <2>4, <2>5 DEF JC!Decide
<1>11. ASSUME CleanExpired PROVE JC!Expire
  <2> DEFINE due   == Expired
             noted == {j \in due : "manifest" \in out[j]}
  <2>1. /\ row' = [j \in Jobs |-> IF j \in due THEN "absent" ELSE row[j]]
        /\ req' = req /\ out' = out
    BY <1>11 DEF CleanExpired
  <2>2. \A j \in due :
          /\ j \in Jobs /\ row[j] \in Verdicts /\ req[j] = "served"
          /\ StatusSeen[j] \in JC!Verdict
          /\ j \in noted => StatusSeen[j] = "failed"
    BY <1>0
       DEF Expired, Terminal, StatusSeen, RowsAreServed, Verdicts, JC!Verdict,
           NoteIsOfFailure
  <2> HIDE DEF due
  <2>3. due \in SUBSET {j \in Jobs : StatusSeen[j] \in JC!Verdict}
    BY <2>2
  <2>3a. noted \in SUBSET {j \in due : StatusSeen[j] = "failed"}
    BY <2>2
  <2>4. StatusSeen' = [j \in Jobs |-> IF j \in due \ noted THEN "gone" ELSE StatusSeen[j]]
    <3>1. ASSUME NEW j \in Jobs
          PROVE  StatusSeen'[j] = IF j \in due \ noted THEN "gone" ELSE StatusSeen[j]
      <4>1. CASE j \in due
        <5>1. row'[j] = "absent" /\ req'[j] = "served" /\ out'[j] = out[j]
          BY <2>1, <2>2, <4>1
        <5>2. QED
          BY <5>1, <4>1, <2>2 DEF StatusSeen
      <4>2. CASE j \notin due
        <5>1. row'[j] = row[j] /\ req'[j] = req[j] /\ out'[j] = out[j]
          BY <2>1, <4>2
        <5>2. QED
          BY <5>1, <4>2 DEF StatusSeen
      <4>3. QED
        BY <4>1, <4>2
    <3>2. QED
      BY <3>1 DEF StatusSeen
  <2>5. Archives' = Archives
    BY <2>1
  <2>6. QED
    BY <2>3, <2>3a, <2>4, <2>5 DEF JC!Expire
<1>12. ASSUME NEW j \in Jobs, CleanPurge(j) PROVE JC!Remove(j)
  <2>1. /\ row' = row /\ req' = req /\ row[j] = "absent" /\ req[j] = "served"
        /\ out' = [out EXCEPT ![j] = {}]
    BY <1>12 DEF CleanPurge, RowsAreServed
  <2>2. Archives' = Archives \ {j}
    BY <2>1 DEF TypeOK
  <2>3. StatusSeen[j] \in {"failed", "gone"}
    BY <2>1 DEF StatusSeen
  <2>4. StatusSeen' = [StatusSeen EXCEPT ![j] = "gone"]
    <3>1. ASSUME NEW k \in Jobs
          PROVE  StatusSeen'[k] = IF k = j THEN "gone" ELSE StatusSeen[k]
      BY <2>1 DEF StatusSeen, TypeOK
    <3>2. QED
      BY <3>1 DEF StatusSeen
  <2>5. QED
    BY <2>2, <2>3, <2>4 DEF JC!Remove
<1>13. ASSUME Restart PROVE UNCHANGED JC!cvars \/ JC!Forget
  <2>1. out' = out /\ \A j \in Jobs : req'[j] = "served" <=> req[j] = "served"
    BY <1>13 DEF Restart, TypeOK
  <2>2. CASE Durable
    BY <1>13, <2>1, <2>2, ViewKept DEF Restart
  <2>3. CASE ~Durable
    <3> DEFINE noted == {j \in Jobs : "manifest" \in out[j]
                                      /\ StatusSeen[j] \in {"running", "failed"}}
    <3>1. ASSUME NEW j \in Jobs
          PROVE  StatusSeen'[j] = IF StatusSeen[j] = "unknown" THEN "unknown"
                                  ELSE IF j \in noted THEN "failed" ELSE "gone"
      <4>1. row'[j] = "absent"
        BY <1>13, <2>3 DEF Restart
      <4>2. CASE "manifest" \in out[j]
        <5>1. row[j] \in {"absent", "running", "failed", "timed_out"}
          BY <1>0, <4>2 DEF NoteIsOfFailure, TypeOK, Verdicts
        <5>2. QED
          BY <2>1, <4>1, <4>2, <5>1 DEF StatusSeen
      <4>3. CASE "manifest" \notin out[j]
        BY <2>1, <4>1, <4>3 DEF StatusSeen, RowsAreServed, TypeOK, Verdicts
      <4>4. QED
        BY <4>2, <4>3
    <3>2. StatusSeen' = [j \in Jobs |-> IF StatusSeen[j] = "unknown" THEN "unknown"
                                        ELSE IF j \in noted THEN "failed" ELSE "gone"]
      BY <3>1 DEF StatusSeen
    <3>3. QED
      BY <2>1, <2>3, <3>2 DEF JC!Forget
  <2>4. QED
    BY <2>2, <2>3
<1>14. CASE UNCHANGED vars
  BY <1>14, ViewKept DEF vars
<1>15. ASSUME NEW w \in writes PROVE w.job \in Jobs
  BY DEF TypeOK
<1>16. QED
  BY <1>1, <1>2, <1>3, <1>4, <1>5, <1>6, <1>6a, <1>7, <1>8, <1>9, <1>10, <1>11, <1>12,
     <1>13, <1>14, <1>15
     DEF Next, Generate, Callbacks, Scheduler, Cleaner, JC!ContractNext

\* The threads implement the contract: every step is one of the contract or one
\* the client cannot see.
THEOREM ImplementsContract == Spec => Contract
<1>1. Init => JC!ContractInit
  BY DEF Init, JC!ContractInit, StatusSeen
<1>2. QED
  BY <1>1, ContractStep, IInvariant, PTL DEF Spec, Contract, JC!Contract
=============================================================================
