---------------------------- MODULE JobLifecycle ----------------------------
(***************************************************************************)
(* The life of a mosaic job in the web process of scripts/Main.py.         *)
(*                                                                         *)
(* Five threads of control share the runtime side tables and the jobs      *)
(* store: the event loop (request handlers and every store coroutine), the *)
(* scheduler thread (dispatch and timeout watchdog), the executor's        *)
(* management thread (done-callbacks), the cleanup thread, and the worker  *)
(* processes of the pool.  One action is one stretch of one thread that no *)
(* other thread can observe half done.                                     *)
(*                                                                         *)
(* Time is not counted: a job may outlive its JOB_TIMEOUT_SECONDS deadline *)
(* or its JOB_TTL_SECONDS at any moment (DeadlinePasses, TtlPasses), in    *)
(* either order -- a queued job waits as long as the jobs ahead of it run. *)
(***************************************************************************)
EXTENDS Integers, FiniteSets

CONSTANTS
  Jobs,          \* the uuid4 ids /generate hands out; never reused
  MaxWorkers,    \* MAX_WORKERS: pool size and dispatch gate
  MaxQueueSize,  \* MAX_QUEUE_SIZE: queued rows at which /generate answers 429
  Durable,       \* TRUE: jobs_store_pg, rows outlive the process; FALSE: jobs_store_json
  MaxRestarts,   \* bound: how often the process dies and boots again
  MaxSlow,       \* bound: dequeue_next calls abandoned after 10 s, at one time
  Faults         \* the failures of the environment that are considered

FaultKinds == {"store_error", "cleanup_error", "pool_break", "shutdown"}

ASSUME JobsAssumption   == IsFiniteSet(Jobs)
ASSUME BoundsAssumption == /\ MaxWorkers \in Nat \ {0}
                           /\ MaxQueueSize \in Nat \ {0}
                           /\ MaxRestarts \in Nat
                           /\ MaxSlow \in Nat
ASSUME FaultsAssumption == Durable \in BOOLEAN /\ Faults \subseteq FaultKinds

Verdicts == {"complete", "failed", "timed_out"}

VARIABLES
  \* the jobs store
  row,        \* status column of each job's row, "absent" without a row
  stamp,      \* queued_at, as the rank of the insert
  inserts,    \* how many rows were ever inserted (the source of stamp)
  writes,     \* terminal writes handed to the event loop and not yet run
  stray,      \* dequeue_next coroutines whose caller gave up waiting
  orphans,    \* history: jobs whose row lost the thread that owed it a verdict
  \* files
  upload,     \* jobs with an INPUT_DIR/{id}.upload
  out,        \* what OUTPUT_DIR/{id} holds
  \* side tables of app.state
  intake, futures, deadlines, activeJobs,
  \* threads
  req,        \* where the /generate request of each job is
  schedAt, schedJob, watch,   \* the scheduler: its place, claimed job, watchdog list
  claim,      \* who popped the job's future and finalizes the job
  settle,     \* what he does next: the verdict, the side tables, the slot
  task,       \* the job's run_job in the executor
  callbacks,  \* finished futures whose done-callback has not run
  broken,     \* the pool lost a worker process and refuses all work
  cleanAt, purge,             \* the cleanup thread and the ids it still has to purge
  phase,      \* of the process: serving, or how far lifespan shutdown has come
  \* environment
  overdue, aged,              \* jobs past the deadline they have / past their TTL
  restarts

store    == <<row, stamp, inserts, writes, stray, orphans>>
files    == <<upload, out>>
tables   == <<intake, futures, deadlines, activeJobs>>
scheduler == <<schedAt, schedJob, watch>>
popper   == <<claim, settle>>
executor == <<task, callbacks, broken>>
cleaner  == <<cleanAt, purge>>
clocks   == <<overdue, aged>>
process  == <<phase, restarts>>

vars == <<store, files, tables, req, scheduler, popper, executor, cleaner,
          clocks, process>>

TypeOK ==
  /\ row \in [Jobs -> {"absent", "queued", "running"} \cup Verdicts]
  /\ stamp \in [Jobs -> Nat] /\ inserts \in Nat
  /\ writes \subseteq [job : Jobs, verdict : Verdicts]
  /\ stray \in 0..MaxSlow /\ orphans \subseteq Jobs
  /\ upload \subseteq Jobs
  /\ out \in [Jobs -> SUBSET {"artifact", "manifest"}]
  /\ intake \subseteq Jobs /\ futures \subseteq Jobs /\ deadlines \subseteq Jobs
  /\ activeJobs \in Nat
  /\ req \in [Jobs -> {"new", "admitted", "registering", "served", "refused"}]
  /\ schedAt \in {"tick", "watch", "gate", "dequeue", "claimed", "submit", "stopped"}
  /\ schedJob \in Jobs \cup {"none"} /\ watch \subseteq Jobs
  /\ schedAt \in {"claimed", "submit"} => schedJob \in Jobs
  /\ claim \in [Jobs -> {"none", "watchdog", "callback"}]
  /\ settle \in [Jobs -> {"verdict", "drop", "release"}]
  /\ task \in [Jobs -> {"none", "pending", "busy", "starved",
                        "complete", "failed", "crashed"}]
  /\ callbacks \subseteq Jobs /\ broken \in BOOLEAN
  /\ cleanAt \in {"asleep", "sagas", "purge"} /\ purge \subseteq Jobs
  /\ phase \in {"serving", "stopping", "draining", "cleared"}
  /\ overdue \subseteq Jobs /\ aged \subseteq Jobs
  /\ restarts \in 0..MaxRestarts

Init ==
  /\ row = [j \in Jobs |-> "absent"] /\ stamp = [j \in Jobs |-> 0] /\ inserts = 0
  /\ writes = {} /\ stray = 0 /\ orphans = {}
  /\ upload = {} /\ out = [j \in Jobs |-> {}]
  /\ intake = {} /\ futures = {} /\ deadlines = {} /\ activeJobs = 0
  /\ req = [j \in Jobs |-> "new"]
  /\ schedAt = "tick" /\ schedJob = "none" /\ watch = {}
  /\ claim = [j \in Jobs |-> "none"] /\ settle = [j \in Jobs |-> "verdict"]
  /\ task = [j \in Jobs |-> "none"] /\ callbacks = {} /\ broken = FALSE
  /\ cleanAt = "asleep" /\ purge = {}
  /\ phase = "serving"
  /\ overdue = {} /\ aged = {} /\ restarts = 0
-----------------------------------------------------------------------------
Queued   == {j \in Jobs : row[j] = "queued"}
Terminal == {j \in Jobs : row[j] \in Verdicts}
Finished == {"complete", "failed", "crashed"}

\* scheduler_shutdown is set before the lifespan blocks the loop in join/shutdown,
\* and the loop turns again once the executor is drained and the loop ref cleared.
ShuttingDown == phase # "serving"
LoopRuns     == phase \in {"serving", "cleared"}

OldestQueued(j) == j \in Queued /\ \A k \in Queued : stamp[j] <= stamp[k]

\* *_from_thread: the coroutine is closed unrun once the loop ref is gone.
SubmitWrite(j, v) ==
  IF phase = "cleared"
    THEN UNCHANGED writes /\ orphans' = orphans \cup {j}
    ELSE writes' = writes \cup {[job |-> j, verdict |-> v]} /\ UNCHANGED orphans

\* _drop_runtime_state without drop_intake.
DropRuntime(j) == /\ futures' = futures \ {j}
                  /\ deadlines' = deadlines \ {j}
                  /\ overdue' = overdue \ {j}
                  /\ upload' = upload \ {j}

\* Slip: the slot is forgotten.
ReleaseSlotForgotten == UNCHANGED activeJobs

ReleaseSlot == activeJobs' = IF activeJobs > 0 THEN activeJobs - 1 ELSE 0

\* Slip: the None answer of futures.pop is not looked at.
WinsFutureUnchecked(j) == j \in Jobs

\* futures.pop(job_id, None) is not None: the popper owns the terminal path.
WinsFuture(j) == j \in futures
-----------------------------------------------------------------------------
(* POST /generate, on the event loop.  A request refused by validation, the  *)
(* shutdown check, the per-IP cooldown or the queue-full check leaves no     *)
(* state and is not an action; an id is drawn only for an admitted one.      *)

GenerateAdmit(j) ==
  /\ req[j] = "new" /\ phase = "serving"
  /\ Cardinality(Queued) < MaxQueueSize
  /\ req' = [req EXCEPT ![j] = "admitted"]
  /\ UNCHANGED <<store, files, tables, scheduler, popper, executor,
                 cleaner, clocks, process>>

\* Upload streamed and decoded; the side tables are filled before the insert.
GenerateIntake(j) ==
  /\ req[j] = "admitted" /\ LoopRuns
  /\ \/ /\ req' = [req EXCEPT ![j] = "registering"]
        /\ upload' = upload \cup {j}
        /\ intake' = intake \cup {j}
     \/ /\ req' = [req EXCEPT ![j] = "refused"]     \* too large, or not an image
        /\ UNCHANGED <<upload, intake>>
  /\ UNCHANGED <<store, out, futures, deadlines, activeJobs,
                 scheduler, popper, executor, cleaner, clocks, process>>

\* Slip: the row is inserted first, the side tables filled after.
SideTablesFilledLate(j) == req[j] = "admitted"

SideTablesFilled(j) == req[j] = "registering"

InsertQueued(j) ==
  /\ SideTablesFilled(j) /\ LoopRuns
  /\ req' = [req EXCEPT ![j] = "served"]
  /\ row' = [row EXCEPT ![j] = "queued"]
  /\ stamp' = [stamp EXCEPT ![j] = inserts]
  /\ inserts' = inserts + 1
  /\ UNCHANGED <<writes, stray, orphans, files, tables, scheduler,
                 popper, executor, cleaner, clocks, process>>

\* The insert raises: side tables and files are rolled back, the caller gets 500.
InsertFails(j) ==
  /\ req[j] = "registering" /\ LoopRuns /\ "store_error" \in Faults
  /\ req' = [req EXCEPT ![j] = "refused"]
  /\ intake' = intake \ {j}
  /\ upload' = upload \ {j}
  /\ UNCHANGED <<store, out, futures, deadlines, activeJobs,
                 scheduler, popper, executor, cleaner, clocks, process>>
-----------------------------------------------------------------------------
(* The terminal paths.                                                     *)

\* Slip: only a returned failure counts as one, an exception does not.
OutcomeOfNoFailure(j) == IF task[j] = "failed" THEN "failed" ELSE "complete"

OutcomeOf(j) == IF task[j] = "complete" THEN "complete" ELSE "failed"

\* _process_terminal up to the verdict, by whoever popped the future of a
\* finished run.
ProcessTerminal(j) ==
  /\ SubmitWrite(j, OutcomeOf(j))
  /\ out' = IF task[j] = "crashed" THEN [out EXCEPT ![j] = @ \cup {"manifest"}] ELSE out

\* The watchdog's forced failure.  The worker is neither killed nor cancelled.
ForceTimeout(j) ==
  /\ SubmitWrite(j, "timed_out")
  /\ out' = [out EXCEPT ![j] = @ \cup {"manifest"}]

\* The verdict is with the event loop, which may run it at once: side tables and
\* slot follow on the popper's own thread, each seen by the others when done.
SettleDrop(j, who) ==
  /\ claim[j] = who /\ settle[j] = "drop"
  /\ DropRuntime(j)
  /\ settle' = [settle EXCEPT ![j] = "release"]
  /\ UNCHANGED <<store, out, intake, activeJobs, req, scheduler, claim, executor,
                 cleaner, aged, process>>

SettleRelease(j, who) ==
  /\ claim[j] = who /\ settle[j] = "release"
  /\ ReleaseSlot
  /\ claim' = [claim EXCEPT ![j] = "none"]
  /\ settle' = [settle EXCEPT ![j] = "verdict"]
  /\ watch' = IF who = "watchdog" THEN watch \ {j} ELSE watch
  /\ UNCHANGED <<store, files, intake, futures, deadlines, req, schedAt, schedJob,
                 executor, cleaner, clocks, process>>

\* Slip: the claimed row is left at running.
MarkSubmissionFailedNoWrite(j) == /\ UNCHANGED <<writes, orphans>>
                                  /\ out' = [out EXCEPT ![j] = {"manifest"}]
                                  /\ DropRuntime(j)

\* _mark_submission_failed, for a row claimed but never handed to the pool.
MarkSubmissionFailed(j) ==
  /\ SubmitWrite(j, "failed")
  /\ out' = [out EXCEPT ![j] = {"manifest"}]
  /\ DropRuntime(j)
-----------------------------------------------------------------------------
(* The scheduler thread.                                                   *)

\* Top of the loop: snapshot the deadlines that have passed.
SchedTick ==
  /\ schedAt = "tick"
  /\ IF ShuttingDown
       THEN schedAt' = "stopped" /\ UNCHANGED watch
       ELSE schedAt' = "watch" /\ watch' = overdue
  /\ UNCHANGED <<store, files, tables, req, schedJob, popper, executor,
                 cleaner, clocks, process>>

\* futures.pop arbitrates: None means the done-callback owns the job already.
WatchdogClaim(j) ==
  /\ schedAt = "watch" /\ j \in watch
  /\ \A k \in Jobs : claim[k] # "watchdog"
  /\ IF WinsFuture(j)
       THEN /\ futures' = futures \ {j}
            /\ claim' = [claim EXCEPT ![j] = "watchdog"]
            /\ UNCHANGED watch
       ELSE watch' = watch \ {j} /\ UNCHANGED <<futures, popper>>
  /\ UNCHANGED <<store, files, settle, intake, deadlines, activeJobs, req, schedAt,
                 schedJob, executor, cleaner, clocks, process>>

WatchdogResolve(j) ==
  /\ claim[j] = "watchdog" /\ settle[j] = "verdict"
  /\ \/ task[j] \in Finished /\ ProcessTerminal(j)
     \/ task[j] \notin Finished /\ ForceTimeout(j)
  /\ settle' = [settle EXCEPT ![j] = "drop"]
  /\ UNCHANGED <<row, stamp, inserts, stray, upload, tables, req, scheduler,
                 claim, executor, cleaner, clocks, process>>

\* Slip: the `while` of the old gate, which waits for a slot inside the tick.
AfterGateWaiting == IF ShuttingDown THEN "stopped"
                    ELSE IF activeJobs >= MaxWorkers THEN "gate" ELSE "dequeue"

AfterGate == IF ShuttingDown THEN "stopped"
             ELSE IF activeJobs >= MaxWorkers THEN "tick" ELSE "dequeue"

\* Watchdog and progress mirror done; the MAX_WORKERS gate.
SchedGate ==
  /\ \/ schedAt = "watch" /\ watch = {} /\ schedAt' = "gate"
     \/ schedAt = "gate" /\ schedAt' = AfterGate
  /\ UNCHANGED <<store, files, tables, req, schedJob, watch, popper,
                 executor, cleaner, clocks, process>>

\* Slip: the None answer of dequeue_next is not looked at.
NoneClaimedUnchecked == Queued = {} /\ schedAt' = "claimed"

NoneClaimed == Queued = {} /\ schedAt' = "tick"

\* dequeue_next answers in time: oldest queued row flipped to running, or None.
SchedDequeue ==
  /\ schedAt = "dequeue" /\ LoopRuns
  /\ \/ NoneClaimed /\ UNCHANGED <<row, schedJob>>
     \/ \E j \in Jobs : /\ OldestQueued(j)
                        /\ row' = [row EXCEPT ![j] = "running"]
                        /\ schedJob' = j
                        /\ schedAt' = "claimed"
  /\ UNCHANGED <<stamp, inserts, writes, stray, orphans, files, tables,
                 req, watch, popper, executor, cleaner, clocks, process>>

\* It raises: nothing was claimed, the loop retries.
SchedDequeueFails ==
  /\ schedAt = "dequeue" /\ "store_error" \in Faults
  /\ schedAt' = "tick"
  /\ UNCHANGED <<store, files, tables, req, schedJob, watch, popper,
                 executor, cleaner, clocks, process>>

\* It outlasts the 10 s wait: the caller gives up, the coroutine lives on.
SchedDequeueSlow ==
  /\ schedAt = "dequeue" /\ stray < MaxSlow
  /\ stray' = stray + 1
  /\ schedAt' = "tick"
  /\ UNCHANGED <<row, stamp, inserts, writes, orphans, files, tables, req,
                 schedJob, watch, popper, executor, cleaner, clocks, process>>

\* The abandoned coroutine runs; nobody reads the row it returns.
StrayDequeue ==
  /\ stray > 0 /\ LoopRuns
  /\ stray' = stray - 1
  /\ \/ Queued = {} /\ UNCHANGED <<row, orphans>>
     \/ \E j \in Jobs : /\ OldestQueued(j)
                        /\ row' = [row EXCEPT ![j] = "running"]
                        /\ orphans' = orphans \cup {j}
  /\ UNCHANGED <<stamp, inserts, writes, files, tables, req,
                 scheduler, popper, executor, cleaner, clocks, process>>

\* A claimed row without intake, or claimed during shutdown, is rolled forward.
SchedReject ==
  /\ schedAt = "claimed"
  /\ schedJob \notin intake \/ ShuttingDown
  /\ MarkSubmissionFailed(schedJob)
  /\ schedAt' = "tick"
  /\ UNCHANGED <<row, stamp, inserts, stray, intake, activeJobs,
                 req, schedJob, watch, popper, executor, cleaner, aged,
                 process>>

SchedReserve ==
  /\ schedAt = "claimed"
  /\ schedJob \in intake /\ ~ShuttingDown
  /\ activeJobs < MaxWorkers
  /\ activeJobs' = activeJobs + 1
  /\ schedAt' = "submit"
  /\ UNCHANGED <<store, files, intake, futures, deadlines, req, schedJob,
                 watch, popper, executor, cleaner, clocks, process>>

\* No other thread acts on a future before its callback is registered, so the
\* submit, the two side-table writes and add_done_callback are one step.
SchedSubmit ==
  /\ schedAt = "submit" /\ ~broken /\ phase \in {"serving", "stopping"}
  /\ task' = [task EXCEPT ![schedJob] = "pending"]
  /\ futures' = futures \cup {schedJob}
  /\ deadlines' = deadlines \cup {schedJob}
  /\ schedAt' = "tick"
  /\ UNCHANGED <<store, files, intake, activeJobs, req, schedJob, watch,
                 popper, callbacks, broken, cleaner, clocks, process>>

\* executor.submit raises: the pool is broken or already shut down.
SchedSubmitFails ==
  /\ schedAt = "submit"
  /\ broken \/ phase \in {"draining", "cleared"}
  /\ MarkSubmissionFailed(schedJob)
  /\ ReleaseSlot
  /\ schedAt' = "tick"
  /\ UNCHANGED <<row, stamp, inserts, stray, intake, req,
                 schedJob, watch, popper, executor, cleaner, aged, process>>
-----------------------------------------------------------------------------
(* The process pool and the executor's management thread.                  *)

\* run_job starts on a free worker, in submission order.
WorkerStart(j) ==
  /\ task[j] = "pending" /\ ~broken
  /\ Cardinality({k \in Jobs : task[k] \in {"busy", "starved"}}) < MaxWorkers
  /\ \A k \in Jobs : task[k] = "pending" => stamp[j] <= stamp[k]
  /\ task' = [task EXCEPT ![j] = IF j \in upload THEN "busy" ELSE "starved"]
  /\ UNCHANGED <<store, files, tables, req, scheduler, popper, callbacks,
                 broken, cleaner, clocks, process>>

\* run_job returns; without its input picture it can only fail.
WorkerFinish(j) ==
  /\ \/ /\ task[j] = "busy"
        /\ task' = [task EXCEPT ![j] = "complete"]
        /\ out' = [out EXCEPT ![j] = @ \cup {"artifact"}]
     \/ /\ task[j] \in {"busy", "starved"}
        /\ task' = [task EXCEPT ![j] = "failed"]
        /\ out' = [out EXCEPT ![j] = @ \cup {"manifest"}]
  /\ upload' = upload \ {j}
  /\ callbacks' = callbacks \cup {j}
  /\ UNCHANGED <<store, tables, req, scheduler, popper, broken,
                 cleaner, clocks, process>>

\* A worker process dies: BrokenProcessPool for every future, and for good.
PoolBreaks ==
  /\ "pool_break" \in Faults /\ ~broken
  /\ \E j \in Jobs : task[j] \in {"busy", "starved"}
  /\ LET hit == {j \in Jobs : task[j] \in {"pending", "busy", "starved"}}
     IN  /\ task' = [j \in Jobs |-> IF j \in hit THEN "crashed" ELSE task[j]]
         /\ callbacks' = callbacks \cup hit
  /\ broken' = TRUE
  /\ UNCHANGED <<store, files, tables, req, scheduler, popper, cleaner,
                 clocks, process>>

CallbackClaim(j) ==
  /\ j \in callbacks
  /\ callbacks' = callbacks \ {j}
  /\ IF WinsFuture(j)
       THEN /\ futures' = futures \ {j}
            /\ claim' = [claim EXCEPT ![j] = "callback"]
       ELSE UNCHANGED <<futures, popper>>      \* the watchdog owns the job
  /\ UNCHANGED <<store, files, settle, intake, deadlines, activeJobs, req,
                 scheduler, task, broken, cleaner, clocks, process>>

CallbackResolve(j) ==
  /\ claim[j] = "callback" /\ settle[j] = "verdict"
  /\ ProcessTerminal(j)
  /\ settle' = [settle EXCEPT ![j] = "drop"]
  /\ UNCHANGED <<row, stamp, inserts, stray, upload, tables, req, scheduler,
                 claim, executor, cleaner, clocks, process>>
-----------------------------------------------------------------------------
(* The event loop runs a terminal write: mark_complete, mark_failed and      *)
(* mark_timed_out carry no status guard, only "the row exists".              *)

StoreWrite(w) ==
  /\ w \in writes /\ LoopRuns
  /\ writes' = writes \ {w}
  /\ row' = IF row[w.job] = "absent" THEN row ELSE [row EXCEPT ![w.job] = w.verdict]
  /\ UNCHANGED <<stamp, inserts, stray, orphans, files, tables, req, scheduler,
                 popper, executor, cleaner, clocks, process>>

\* _swallow: the statement raises, a CRITICAL line is all that is left of it.
StoreWriteLost(w) ==
  /\ w \in writes /\ LoopRuns /\ "store_error" \in Faults
  /\ writes' = writes \ {w}
  /\ orphans' = orphans \cup {w.job}
  /\ UNCHANGED <<row, stamp, inserts, stray, files, tables, req,
                 scheduler, popper, executor, cleaner, clocks, process>>
-----------------------------------------------------------------------------
(* The cleanup thread.                                                     *)

\* Slip: every row past its TTL, whatever its status.
ExpiredAnyStatus == {j \in aged : row[j] # "absent"}

Expired == Terminal \cap aged

\* cleanup_expired deletes the expired terminal rows and returns their ids ...
CleanExpired ==
  /\ cleanAt = "asleep" /\ LoopRuns
  /\ purge' = Expired
  /\ row' = [j \in Jobs |-> IF j \in Expired THEN "absent" ELSE row[j]]
  /\ cleanAt' = "sagas"
  /\ UNCHANGED <<stamp, inserts, writes, stray, orphans, files, tables,
                 req, scheduler, popper, executor, clocks, process>>

\* ... which are lost when this wait or the one on the second pass raises.
CleanSagas ==
  /\ cleanAt = "sagas"
  /\ \/ cleanAt' = "purge" /\ UNCHANGED purge
     \/ "cleanup_error" \in Faults /\ cleanAt' = "asleep" /\ purge' = {}
  /\ UNCHANGED <<store, files, tables, req, scheduler, popper, executor,
                 clocks, process>>

CleanPurge(j) ==
  /\ cleanAt = "purge" /\ j \in purge
  /\ purge' = purge \ {j}
  /\ out' = [out EXCEPT ![j] = {}]
  /\ intake' = intake \ {j}
  /\ DropRuntime(j)
  /\ UNCHANGED <<store, activeJobs, req, scheduler, popper, executor,
                 cleanAt, aged, process>>

\* Sweep intake files older than the TTL, then sleep.
CleanSweep ==
  /\ cleanAt = "purge" /\ purge = {}
  /\ upload' = upload \ aged
  /\ cleanAt' = "asleep"
  /\ UNCHANGED <<store, out, tables, req, scheduler, popper, executor,
                 purge, clocks, process>>
-----------------------------------------------------------------------------
(* Time, shutdown, death and boot.                                         *)

DeadlinePasses(j) ==
  /\ j \in deadlines \ overdue
  /\ overdue' = overdue \cup {j}
  /\ UNCHANGED <<store, files, tables, req, scheduler, popper, executor,
                 cleaner, aged, process>>

\* Of a row, or of a file that is left without one.
TtlPasses(j) ==
  /\ row[j] # "absent" \/ (j \in upload /\ req[j] # "registering")
  /\ j \notin aged
  /\ aged' = aged \cup {j}
  /\ UNCHANGED <<store, files, tables, req, scheduler, popper, executor,
                 cleaner, overdue, process>>

\* lifespan exit: flag and notify; join the scheduler (at most 5 s); drain the
\* executor; clear the loop reference.
ShutdownStep ==
  /\ \/ "shutdown" \in Faults /\ phase = "serving" /\ phase' = "stopping"
     \/ phase = "stopping" /\ phase' = "draining"
     \/ /\ phase = "draining"
        /\ \A j \in Jobs : task[j] \notin {"pending", "busy", "starved"}
        /\ phase' = "cleared"
  /\ UNCHANGED <<store, files, tables, req, scheduler, popper, executor,
                 cleaner, clocks, restarts>>

\* The process ends, at any point, and boots again: side tables, pool, threads,
\* pending coroutines and open requests are gone; files stay.
Restart ==
  /\ restarts < MaxRestarts /\ restarts' = restarts + 1
  /\ row' = IF Durable THEN row ELSE [j \in Jobs |-> "absent"]
  /\ orphans' = IF Durable THEN {j \in Jobs : row[j] # "absent"} ELSE {}
  /\ writes' = {} /\ stray' = 0
  /\ intake' = {} /\ futures' = {} /\ deadlines' = {} /\ activeJobs' = 0
  /\ req' = [j \in Jobs |-> IF req[j] \in {"admitted", "registering"}
                              THEN "refused" ELSE req[j]]
  /\ schedAt' = "tick" /\ schedJob' = "none" /\ watch' = {}
  /\ claim' = [j \in Jobs |-> "none"] /\ settle' = [j \in Jobs |-> "verdict"]
  /\ task' = [j \in Jobs |-> "none"] /\ callbacks' = {} /\ broken' = FALSE
  /\ cleanAt' = "asleep" /\ purge' = {}
  /\ phase' = "serving" /\ overdue' = {}
  /\ UNCHANGED <<stamp, inserts, files, aged>>
-----------------------------------------------------------------------------
Generate(j) == GenerateAdmit(j) \/ GenerateIntake(j) \/ InsertQueued(j) \/ InsertFails(j)

Scheduler == \/ SchedTick \/ SchedGate \/ SchedDequeue \/ SchedReject
             \/ SchedReserve \/ SchedSubmit \/ SchedSubmitFails
             \/ \E j \in Jobs : \/ WatchdogClaim(j) \/ WatchdogResolve(j)
                                \/ SettleDrop(j, "watchdog")
                                \/ SettleRelease(j, "watchdog")

Callbacks(j) == \/ CallbackClaim(j) \/ CallbackResolve(j)
                \/ SettleDrop(j, "callback") \/ SettleRelease(j, "callback")

Cleaner == CleanExpired \/ CleanSagas \/ CleanSweep \/ \E j \in Jobs : CleanPurge(j)

Next ==
  \/ \E j \in Jobs : \/ Generate(j) \/ Callbacks(j)
                     \/ WorkerStart(j) \/ WorkerFinish(j)
                     \/ DeadlinePasses(j) \/ TtlPasses(j)
  \/ Scheduler \/ SchedDequeueFails \/ SchedDequeueSlow \/ StrayDequeue
  \/ PoolBreaks
  \/ \E w \in writes : StoreWrite(w) \/ StoreWriteLost(w)
  \/ Cleaner
  \/ ShutdownStep \/ Restart

\* What keeps turning: the scheduler and cleanup loops, the executor's callback
\* thread, the event loop, and the clock.  A dequeue that is tried again and
\* again is answered in time once.  Workers are not fair: they may hang.
Fairness ==
  /\ WF_vars(Scheduler) /\ WF_vars(Cleaner)
  /\ SF_vars(SchedDequeue) /\ WF_vars(StrayDequeue)
  /\ \A j \in Jobs : /\ WF_vars(Callbacks(j))
                     /\ WF_vars(DeadlinePasses(j)) /\ WF_vars(TtlPasses(j))
                     /\ \A v \in Verdicts :
                          WF_vars(StoreWrite([job |-> j, verdict |-> v]))

Spec     == Init /\ [][Next]_vars
FairSpec == Spec /\ Fairness
-----------------------------------------------------------------------------
(* Properties.                                                             *)

\* The jobs that hold one of the MAX_WORKERS slots: their future is in the side
\* table, or somebody popped it and has not released the slot, or the slot is
\* reserved and executor.submit has not returned.
Holders == futures \cup {j \in Jobs : claim[j] # "none"}
                   \cup (IF schedAt = "submit" THEN {schedJob} ELSE {})

\* active_jobs is decremented exactly once per dispatched job whatever the race
\* between done-callback, watchdog, failed submit and pool crash (Main.py "must
\* ... decrement active_jobs exactly once"), so the gate never leaks or
\* double-frees a slot and never admits more than MAX_WORKERS.
SlotsAccounted == activeJobs = Cardinality(Holders) /\ activeJobs <= MaxWorkers

\* Of these, the jobs that still owe the store a verdict: a popper who has handed
\* his to the event loop owes none, though he holds the slot a little longer.
Owing == {j \in Holders : settle[j] = "verdict"}

\* mark_complete/failed/timed_out overwrite whatever they find.  They may,
\* because at most one verdict per job is ever on its way to the store, and
\* while it is, the row is still running and nobody else is to write another.
OneVerdict ==
  \A w \in writes : /\ row[w.job] = "running"
                    /\ w.job \notin Owing
                    /\ \A u \in writes : u.job = w.job => u = w

\* A job that waits in the pool, runs or is about to be given its verdict is
\* never reaped under him who works on it: cleanup neither deletes its row nor
\* has its id on the list of directories to remove.  Only a popper whose verdict
\* the loop has already written may find the row terminal, or gone, while he
\* clears the side tables and the slot.
HeldIsRunning ==
  \A j \in Holders : \/ row[j] = "running" /\ j \notin purge
                     \/ settle[j] # "verdict" /\ \A w \in writes : w.job # j

\* "The scheduler can never see a 'queued' row without also seeing its intake"
\* (Main.py generate); rows carried over a restart are the exception it names.
QueuedHasIntake == \A j \in Queued \ orphans : j \in intake

\* A job the client is told is complete has its archive on disk until its row
\* is gone, whatever the watchdog, a failed submit or the cleaner did meanwhile.
CompleteHasArtifact == \A j \in Jobs : row[j] = "complete" => "artifact" \in out[j]

\* A running row has an owner who will write its verdict, through dequeue,
\* submit, pool and terminal write.  Only four things take the owner away, and
\* they are the ones recorded in orphans: a restart, a swallowed terminal write,
\* a write after the loop reference is cleared, a dequeue that answered too late.
RunningIsOwned ==
  \A j \in Jobs \ orphans : row[j] = "running" =>
    \/ j \in Owing
    \/ schedAt = "claimed" /\ schedJob = j
    \/ \E w \in writes : w.job = j

\* The input picture of a job is there until its worker has it.  The sweep's
\* comment says "no live job's file is ever this old" (Main.py:1691-1699).
LiveUploadKept ==
  \A j \in Jobs \ orphans : row[j] = "queued" => j \in upload

\* A verdict is final: no late callback, no timed-out zombie and no retry turns
\* a terminal row into another status; it can only expire.
TerminalIsFinal ==
  [][\A j \in Terminal : row'[j] \in {row[j], "absent"}]_vars

\* Every queued job gets its verdict although workers may hang for ever: the
\* watchdog frees the slot and the queue moves on.  A job in orphans may not.
EveryJobSettles ==
  \A j \in Jobs : row[j] = "queued" ~>
                  row[j] \in Verdicts \cup {"absent"} \/ j \in orphans

\* The watchdog does run while all workers are busy (the reason Main.py gives
\* for `if`, not `while`, at the gate): an overdue job is given up.
OverdueIsGivenUp ==
  \A j \in Jobs : j \in futures /\ j \in overdue ~> j \notin futures
-----------------------------------------------------------------------------
(* The client's view.  timed_out is shown as failed; without a row the error  *)
(* note on disk answers, whoever left it there; a job that is gone is told     *)
(* from one never inserted by the request that inserted it.                    *)

StatusSeen ==
  [j \in Jobs |-> IF row[j] = "timed_out" THEN "failed"
                  ELSE IF row[j] # "absent" THEN row[j]
                  ELSE IF "manifest" \in out[j] THEN "failed"
                  ELSE IF req[j] = "served" THEN "gone" ELSE "unknown"]

JC == INSTANCE JobContract WITH status  <- StatusSeen,
                                archive <- {j \in Jobs : "artifact" \in out[j]}

\* The five threads together implement the contract of JobContract: no race of
\* theirs shows the client a step the contract does not have.  What the error
\* note costs is in the contract (Resurface), not hidden from it.
Contract == JC!Contract
=============================================================================
