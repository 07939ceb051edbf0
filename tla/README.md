# LAIGO: jobs, booklets, payments, quotes and the checkout saga in TLA+

LAIGO turns a picture into a LEGO mosaic.  A web process (FastAPI, `src/scripts/Main.py`)
takes the picture, queues a job, runs it in a process pool, keeps its verdict and serves
the build pack.  The worker makes of the picture an order list and an instruction booklet
(`picToMosiac.py`, `MosiacToOrder.py`, `MosiacToInstruction.py`, `VisualMaker.py`).  The customer then names a price (`pay_router.py`), is charged by Stripe
and gets the pack by mail (`emailer.py`).  A second, shelved path (`src/scripts/checkout/`)
sells the bricks themselves: a quote spreads the order list over several shops, and the
checkout saga holds the money at Stripe, orders at the shops and captures the hold.

This directory holds TLA+ modules for these parts, the TLC configurations that
check them and proofs that TLAPS checks.

| module | models | kind |
| --- | --- | --- |
| `JobContract` | what a client polling a job may see | abstract specification |
| `JobLifecycle` | `Main.py`, the jobs stores, the worker, as seen by five threads | detailed, implements `JobContract` |
| `JobLifecycle_proofs` | theorems about `JobLifecycle` | TLAPS |
| `KitList` | the pieces of a kit, as the order list counts them and as the booklet's legends do | operators |
| `FrameGrid` | where the booklet puts its dots, arrows and hooks | operators |
| `BuildBook` | from palette indices to preview, order list, stats and booklet, page by page | detailed |
| `FrameGrid_proofs`, `BuildBook_proofs` | theorems about `FrameGrid` and `BuildBook` | TLAPS |
| `BuildPackPay` | `/pay`, `/donate`, the Stripe webhook, the mail threads, the purge | detailed |
| `BuildPackPay_proofs` | theorems about `BuildPackPay` | TLAPS |
| `CheckoutQuote` | order list, listings, the optimizer's two passes, the quote | detailed |
| `CheckoutQuote_proofs` | theorems about `CheckoutQuote` | TLAPS |
| `SetSums` | laws of sums over finite sets, for the proofs | TLAPS |
| `CheckoutSaga` | saga, deadline handler, recovery at boot, hold reconciler | detailed |
| `CheckoutSaga_proofs` | theorems about `CheckoutSaga` | TLAPS |
| `MCJobLifecycle`, `MCBuildBook`, `MCBuildPackPay`, `MCCheckoutQuote`, `MCCheckoutSaga` | instances for TLC | |

`tlc -config MCJobLifecycle_safe.cfg MCJobLifecycle` runs one check,
`tlapm JobLifecycle_proofs.tla` one proof module.

---

# 1. Inventory

## 1.1 Job lifecycle (`Main.py`, `jobs_store_*.py`, `worker.py`)

*State.*  The jobs table (Postgres, or a dict in `jobs_store_json.py`): status and
`queued_at` of each row.  `app.state`: `intake` (settings of a submitted job), `futures`,
`deadlines`, `active_jobs`, the executor, the two flags that stop the threads.  Files:
`inputs/{id}.upload`, `outputs/{id}/…`, the progress file.

*Threads.*  The event loop runs the request handlers and every coroutine of the store.
The **scheduler** thread runs, each tick, the timeout watchdog, then the gate
(`active_jobs >= MAX_WORKERS`), then dequeue, reserve, submit.  The executor's management
thread runs the **done-callbacks**.  The **cleanup** thread deletes expired rows, then their
directories, then sweeps old uploads.  The **workers** are processes.  The scheduler waits
for the store (`_run_coro_blocking`, 10 s); terminal writes are only handed over
(`*_from_thread`) and run on the loop some time later.

*Hard behaviour.*  Watchdog and callback race for one job; both want to write a verdict and
free a slot.  `executor.submit` may raise after the row was claimed.  A dead worker breaks
the pool for everybody.  A hung worker is given up but lives on and writes its archive.  A
dequeue may take effect after its caller has left.  The cleaner deletes what others may
still use.  Shutdown blocks the loop while callbacks still want to write.  A restart loses
every table of `app.state` but, with Postgres, no row.

*Correct means:* one verdict per job and never another; a slot is released exactly once;
nothing is reaped under somebody who holds it; complete means the archive is there; every
accepted job settles although workers hang.

## 1.2 Build-pack payments and mail (`pay_router.py`, `emailer.py`)

*State.*  `private/{id}/payment.json` (a log of the revenue), `private/{id}/email.json` (the
claim file and record of the mail), `outputs/{id}/artifact.zip`; at Stripe one PaymentIntent
for each job and amount (the idempotency key), with the address in its metadata.

*Operations.*  `POST /jobs/{id}/pay`: $0 is recorded at once; from 50 cents on the card is
charged in one call, which may succeed, ask for 3DS, fail, or succeed without an answer.
`POST /donate` mints an intent.  `POST /webhooks/stripe` records a payment from Stripe's event
and, for a charge, mails.  Mail is a background task in the thread pool: claim the file with
`O_EXCL`, look for the attachments, post to Resend, record.

*Hard behaviour.*  Request, webhook and redelivery send for one payment; a webhook comes
before the answer of the charge it is about; the cleaner purges the job under all of them;
a crash between claim and record.

*Correct means:* a record on file was charged and is not taken back by a later $0; a charge
comes on record and is mailed although its answer was lost; one message, not two.

## 1.3 Checkout saga (`checkout/saga.py`, `saga_resume.py`, `reconcile.py`, `router.py`, stores)

*State.*  Tables `sagas` (status, order ids, hold id, disposition) and `payment_holds` (a
mirror of the hold at Stripe); outside, the hold at Stripe and the orders at the shops.

*Operations.*  `/confirm` inserts the row (a partial unique index allows one active saga per
job) and starts the task: gate, hold, record, `STRIPE_HELD`, drift check, orders one by one with a
checkpoint each, re-optimisation after a stockout, `ORDERS_PLACED`, capture, `PAYMENT_CAPTURED`;
`_compensate` on failure.  One deadline covers the whole; its handler classifies by status and
recorded orders.  At boot `saga_resume` routes what was in flight.  Every hour the reconciler
asks Stripe about each open hold.

*Hard behaviour.*  Deadline and crash on any await; requests that are executed although cut
off; calls that name the job and not the checkout; a reconciler acting on rows read before;
one step of several failing.

*Correct means:* captured is delivered, compensated is clean, no order without money for it,
the mirror true, a settled saga settled, no hold left on a card without reason.

## 1.4 Order list and quote (`MosiacToOrder.py`, `Util.py`, `optimizer.py`, `router.py`)

*State.*  `order_list.json` and its continuations `order_list_1.json`, … in the job's workspace; the one
copy the worker keeps; inside `optimize` the tables `allocation`, `seller_piece_cost`, `seller_meta`; the cached
quote.

*Operations.*  The worker writes the list in files of at most 999 of a piece and copies the first.
`/quote` reads the copy, asks LEGO.com, BrickOwl and BrickLink, merges the answers, and allocates
greedily (pass 1), then moves whole sellers onto others where that is cheaper than their shipping
(pass 2), then waives LEGO's shipping from a threshold on and adds the fee.  `/confirm` refuses a
quote with missing pieces.

*Hard behaviour.*  No concurrency; a long sequence of small updates of three tables that must keep
fitting each other, with edges at multiples of 999, at sold-out and nearly sold-out lots, at
sellers with two lots of a piece.

*Correct means:* no piece lost or sold twice, no seller oversold, nothing missing that was in stock,
the price the sum of what is bought, consolidation never dearer, and the quote one for the mosaic.

## 1.5 The mosaic, its kit and its booklet (`picToMosiac.py`, `MosiacToOrder.py`, `MosiacToInstruction.py`, `VisualMaker.py`)

*State.*  In the worker: the picture as palette indices (of a 3D mosaic a background, a foreground and a
silhouette), the background after its simplification, the order, the step number handed from each drawing
function to the next.  Files: `preview.json`, `order_list.json`, `stats.json`, one PNG a page, the PDF.

*Operations.*  Choose the size, simplify the background to the colours the slider allows, write the
preview, count the order, write the stats, draw the pages (title; per baseplate three set-up pages and a page a
column; the grid; the frame, one kind of unit after the other, built and placed; the hooks; the final view),
check the page numbers, make the PDF, delete the pages.

*Hard behaviour.*  No concurrency, but everything is counted twice: the kit from formulas, the booklet from what
each function happens to draw, "keep the two in sync".  One-wide and one-high mosaics are special in every loop.
Columns without foreground have no page.  Several versions of one picture are about.  A single wrong page number
fails the job after all its work.

*Correct means:* the booklet uses up exactly the kit, its frame goes all around, every stud is shown, the PDF is
never refused, and all files speak of one picture.

## 1.6 The rest

`gate.py` is a conjunction of environment checks; its answer is the
fault `gate_closed`.  Of the marketplace clients the models have the answers.  Quote cache, audit log, LEGO session store, the way
from a photo to palette indices, the layout of pages, migrations and operator tools keep no state that decides anything above
and are not modelled (PROJECT.json gives each its reason).

*Interaction.*  The parts meet only in files and rows: `/pay` looks for the archive of a
complete job; the cleaner of the job lifecycle purges the private directory (`Purge` in
`BuildPackPay` is `CleanPurge` in `JobLifecycle`, seen from the other side); sagas live in a table
keyed by job, and are resumed in the same lifespan start-up.  A quote reads what the worker left and is
what a saga starts from (`Quote` and `Totals` of `CheckoutSaga` stand for it).

---

# 2. The job lifecycle

## 2.1 How the model corresponds to the code

One action is one stretch of one thread that no other thread can see half done.

| code | variables | actions |
| --- | --- | --- |
| jobs table | `row`, `stamp`, `inserts` | `InsertQueued`, `SchedDequeue`, `StoreWrite`, `CleanExpired`, … |
| terminal writes on their way to the loop | `writes` | `SubmitWrite`, `StoreWrite`, `StoreWriteLost` |
| dequeues whose caller left | `stray` | `SchedDequeueSlow`, `StrayDequeue` |
| `app.state` tables | `intake`, `futures`, `deadlines`, `activeJobs` | every handler |
| `/generate` | `req` | `GenerateAdmit`, `GenerateIntake`, `InsertQueued`, `InsertFails` |
| scheduler thread | `schedAt`, `schedJob`, `watch` | `SchedTick`, `WatchdogClaim`, `WatchdogResolve`, `SchedGate`, `SchedDequeue…`, `SchedReject`, `SchedReserve`, `SchedSubmit`, `SchedSubmitFails` |
| done-callback | `claim`, `callbacks` | `CallbackClaim`, `CallbackResolve` |
| whoever popped the future | `claim`, `settle` | the verdict (`WatchdogResolve`, `CallbackResolve`), then `SettleDrop`, then `SettleRelease` |
| executor, workers | `task`, `broken` | `WorkerStart`, `WorkerFinish`, `PoolBreaks` |
| cleanup thread | `cleanAt`, `purge` | `CleanExpired`, `CleanSagas`, `CleanPurge`, `CleanSweep` |
| lifespan | `phase`, `restarts` | `ShutdownStep`, `Restart` |
| clock | `overdue`, `aged` | `DeadlinePasses`, `TtlPasses` |

Finalizing a job is four steps of the thread that does it: pop the future, write the error note and hand
the verdict to the event loop, drop the side tables, release the slot.  The loop may run the write
before the third, and the cleaner may reap the row before the fourth.

The client's view (`StatusSeen`) is `get_job`'s: `timed_out` is shown as failed, and without a row
`manifest_failed.json` answers.  That fallback has a price the contract states as an action of its own
(`Resurface`): a worker that was given up, and fails after the job's directory was purged, makes the
directory anew with its note in it, so the client sees gone and then failed, for good (nothing
reaps the directory again).

Time is two sets: any job may pass its deadline or its TTL at any moment, in either order.
`orphans` is a history variable: the jobs whose owner was taken from them by a restart, a lost
write, a write after the loop reference was cleared, or a dequeue that answered too late.
`RunningIsOwned` says that nothing else takes an owner away.

`Durable` chooses the Postgres store (rows survive) or the dict (they do not).

## 2.2 Runs

**`jobs_safe`** — two jobs, one worker, `Durable`, all faults, one restart, one late dequeue,
symmetry of the jobs (no property tells them apart): seven million states.  Two jobs and one
worker are the smallest instance in which a slot is contended, one job is given up while the
next runs and the pool breaks under both; a second restart begins, but for `orphans`, in a state
the first one can begin in.  Checked: `SlotsAccounted`, `OneVerdict`, `HeldIsRunning`,
`QueuedHasIntake`, `CompleteHasArtifact`, `RunningIsOwned`, `TerminalIsFinal`, and `Contract`, the
refinement: under the status `get_job` answers, each step is a step of `JobContract` or a stutter.
`HeldIsRunning` is about the jobs somebody still owes a verdict; a popper whose verdict is written may
find the row terminal, or gone, and the second half of the property says that this is the only way.

**`jobs_live`** — the same under `FairSpec`, with breaking pools, without symmetry.  `EveryJobSettles`
and `OverdueIsGivenUp`.  Without restarts and store errors because those do leave rows at running
for good (that is what `orphans` records).

**`jobs_upload`** (a violation) — `Main.py:1694-1699` says no live job's upload is ever as old as
the TTL, because the watchdog fails it first.  A job still *queued* has no deadline: the sweep
takes its upload and the job can only fail.  The defaults (TTL 600 s, timeout 1800 s) are
moreover the other way round than the comment says.

**Fairness.**  Scheduler, cleaner, callback thread and event loop are loops that go on whatever
happens in a turn (each catches its exceptions): weak fairness.  `SchedDequeue` is strongly fair: a
dequeue that is tried each tick is answered in time once.  The clock goes on.  Workers are *not*
fair: they may hang for ever, and that is what the watchdog is for.

**Deadlock** is not checked: with every job served and the restarts used up the system may stop.

## 2.3 Proofs (`JobLifecycle_proofs`)

For every finite set of jobs, every `MaxWorkers`, `MaxQueueSize`, `MaxRestarts`, `MaxSlow`, any faults and both
stores.  Assumptions: the named ASSUMEs of `JobLifecycle` (which TLC evaluates).  None of the
properties is inductive alone; the inductive invariant is

    IInv = HandInv /\ SlotsAccounted /\ QueuedHasIntake /\ ArchiveInv
           /\ NoteIsOfFailure /\ RunningIsOwned

- `HandInv` is the core.  A job is in one hand only (`Exclusive`): the futures table, a popper
  (`claim`), or the scheduler between dequeue and submit; while it is there, and until the popper has
  handed the verdict over, the row is running, the cleaner does not have it and no verdict is on its way.  `RowsAreServed` says that an id never
  gets a second row, so an id on the cleaner's list stays dead.  `OneVerdict` and `HeldIsRunning`
  need each other: the first because a popper finds the row running, the second because only a
  verdict lets the cleaner in, and a verdict is only on its way when nobody owes one (`Owing`).
- `SlotsAccounted` adds the counting: each action moves a job between hands or in and out of
  `Holders`, and the cardinality follows (`FiniteSetTheorems`).
- `ArchiveInv` carries the archive from the worker's success to the verdict; `NoteIsOfFailure` says that
  no error note lies in the directory of a job that is, or will be, reported complete, which is what
  keeps get_job's fallback from turning complete into failed when the row expires.

Each part has one step lemma with one step per action.  `IInvariant` then gives `TypeCorrect`,
`SlotsAreAccounted`, `VerdictIsUnique`, `HeldJobsAreSafe`, `IntakeIsThere`, `ArtifactIsThere`,
`RunningJobsAreOwned`; `VerdictsAreFinal` is an action property from the same invariant; and
`ImplementsContract` is the refinement, every action mapped to an action of `JobContract` or to a
stutter.

Only model-checked: the two liveness properties (temporal reasoning under fairness is out of
the prover's reach).

---

# 3. Build-pack payments

## 3.1 Correspondence

One job, from the moment its pack exists.  The endpoints run on the event loop: a step is what
one does between two awaits (`PayFree`; `PayAsk` and `PayAnswered` around the charge; `Donate`;
`Webhook`).  Writing `payment.json` (`RecordPayment`) and starting the background task (`SendLater`)
are part of the action that does them.  `send_build_pack_email` runs in a thread: `MailOpen`
(is it switched on, make the directory), `MailClaim`, `MailLoad`, `MailPost`, `MailRecord` are steps of their
own, interleaved with everything.  The two `rmtree` of the cleaner are two steps of `Purge`.

`write_text` empties `payment.json` before it writes (`pay_router.py:147`), so a write that fails or is cut off by the death of
the process (`CutOff`, `DiesPaying`) leaves the old record, the new one, or one that cannot be read (`Torn`).  The code takes
an unreadable record for none (`:138-139`), and so does `RecordPayment`: a $0 download then writes over it.  The fault
`unread` is that of a good record that cannot be read just now.

A *sender* is one call of `send_build_pack_email`: by a request, or by one delivery of one
event.  `Execute` is Stripe's side of a charge: once per key (job and amount); a retry with the
same parameters replays the answer, one with another address is refused.  `Restart` ends requests
and background tasks; a charge that was cut off may have gone through.

## 3.2 Runs

**`buildpack`** — two requests, two addresses, offers 0, 49 and 50 cents (free, one cent too little,
the least that is charged), one tip, one delivery of each event, one restart; Stripe and
Resend fail or hide their answer, mail may be switched off, the restart may cut a write short: about 745,000 states.  Two requests
with one key and one delivery are already three senders of one charge; a redelivery is one
sender more, like the others.  The inductive invariant was also checked with two deliveries
and failing disks, and the safety properties with all faults.
- `RecordIsCharged`: what is on record was charged (not merely waiting for 3DS).
- `OneMail`: as long as no attempt is recorded as failed, one message.  The order of the purge
  matters: outputs first, so that a sender who finds no claim file finds no pack either.
- `RecordKeepsPaid`: paid is lost only with the job, or torn by the record of another payment whose write is cut short.  As long as
  it can be read no $0 download writes over it or tears it, answered or cut off.  The mutant lets it.
- `EveryChargeRecorded`, `EveryChargeMailed`: what the webhook is for.

**Fairness** of `FairSpec`: Stripe delivers the event of a payment at least once (it repeats until
answered), and a mail thread ends (each of its calls has a timeout).  Nothing else.

The fault `disk` is left out of this run: a failed write of `payment.json` is only logged and the
webhook answers 200, so `EveryChargeRecorded` does not hold with it.  A write cut short by the death of the process is in the run:
the event was not answered then and is delivered again.  The proofs cover all faults.

**Seen while modelling, and not stated as properties.**  `Main.py:1677-1678` says that no PII is retained past
the job.  A mail task, a webhook or a late answer of Stripe makes the directory again after the purge
(`private` is TRUE with `purged = 2` in reachable states), and its row being gone, no later pass names that job.
`pay_router.py:21-22` promises that every completed checkout mails the pack to
the given address.  The claim is per job: a second checkout of the job with another address ends as
`"duplicate"` and that address gets nothing.  A paid record that a later payment's write has torn is a $0 record after the
next free download.

**Deadlock** is not checked: nothing needs to happen after the last request.

## 3.3 Proofs (`BuildPackPay_proofs`)

For all payers, addresses, offers, tips, deliveries, restarts and faults.

    IInv = TypeOK /\ AsksCharge /\ RecordIsCharged /\ StartedOnce /\ OneClaim

`OneClaim` is why `OneMail` holds.  Until the purge begins, at most one sender is past the claim
and has not failed, and none is while there is no claim file.  From the first `rmtree` on
nobody new gets an attachment, so at most one sender is about to post, and the claim file may
go.  `StartedOnce` (a sender leaves "none" once, at its own request or delivery) keeps a
finished sender from being started again; it needs that a request is not a delivery
(`SendersAssumption`).  `WhatIsWritten` says what any write of `payment.json`, whole or cut short, can leave.  Theorems: `PayInvariant`, `PayTypeCorrect`, `RecordedIsCharged`,
`MailIsSentOnce`, `PaidIsKept`.  The two liveness properties are only model-checked.

---

# 4. The checkout saga

## 4.1 Correspondence

`pc[c]` is where the one coroutine that works on checkout `c` stands: the awaits of the saga
(`gate`, `hold`, `record`, `held`, `order`, `checkpoint`, …, `capture`, `paid`), the compensation (`compensate`,
`release`, `write`, `audit`), the deadline handler and the boot recovery (`expired`, `resume`, `letgo`,
`verdict`).  An action is the code between two awaits together with the outcome of the await
before it; `Timeout` and `Restart` cut it off on any await, and what was asked may then land later or
never (`late`, `LateLands`).  `status`, `recorded`, `holdKnown`, `disposition` are the saga row, `holdRow` the mirror,
`hold` and `live` the truth outside.  All store calls go to the job's latest saga (`latest`), as in the
code.  The retries inside one provider call are one action with the outcomes they can have.

The reconciler takes a row in as many steps as it makes calls: `AskStripe`, then the mirror (`MirrorTerminal`) and the
saga row (`EscalateReleased`), or the saga row (`EscalateStuck`) and the mirror (`LeaveHold`), or the cancel with its mirror
(`CancelOrphan`), and each store call may raise (`RowFails`), after which the tick goes on to the next row.

`OutOfBand` is the operator who follows the runbook of a `manual_review` saga, Stripe that lets a hold expire, and, under the
fault `operator`, somebody who captures or cancels from the dashboard while the saga is in flight (`reconcile.py:8-10`).  The
saga's own cancel of a captured hold is then a success to the provider (`stripe_provider.py:307`, `Cancelled`).

Two variables are history, not program: `byHand`, the holds captured in this way, and `disturbed`, the checkouts whose row
somebody who works on another checkout came upon.  Store calls name the job only; the handler of a checkout that settled in
time, kept by a slow audit row until its deadline, reads and writes the next checkout's row (`saga.py:582`; the comment at
`:565-566` calls the case a no-op).  The properties state both cases as what they are.

`brickowl_client.create_order` raises `NotImplementedError` at this commit and BrickLink is switched
off: `Shops = {}` is today's program, other values the protocol the saga and its tests (which stub
the client) are written for.

## 4.2 Runs

**`checkout_safe`** — one checkout, two BrickOwl sellers and LEGO, one stockout retry, one restart,
all faults, the operator's too.  `OrdersFitHold`, `CapturedIsDelivered`, `CompensatedIsClean`, `OrdersOutliveDeadline`, `MirrorIsTrue`,
`SettledIsFinal`, `ReconcilerHandsOff`.  Two sellers are needed for an order that stands while the next
fails; two totals (105 and 106 on a quote of 100) lie on the two sides of the 5 % buffer.  `CompensatedIsClean` and `MirrorIsTrue` except
exactly the hold an operator captured while the saga was in flight: there the saga says compensated and the mirror canceled, and the
money is taken.  With one checkout nobody is `disturbed`.

**`checkout_pair`** — two checkouts of one job, without BrickOwl, one restart; payments and the store fail, audit rows are
slow, an operator interferes: 12.2 million states up to the symmetry of the two checkouts.  `OneSagaPerJob`: one saga is in
flight, and whoever works on a checkout works on the job's latest, with the late handler of a settled saga as the one exception; the
checkout it comes upon is `disturbed` from then on.  `FetchedRowsStillTrue`, for the reconciler that acts on rows read before
its Stripe calls, holds of disturbed sagas as well.  That the properties of `checkout_safe` hold of every undisturbed checkout, however
many the job has, is what the proofs show.

**`checkout_live`** — under `FairSpec`: `EverySagaSettles`, `OrphanHoldReleased`.  Fair are the deadline,
the handler and the boot (Stripe's SDK has timeouts), the reconciler's loop and the hour.  The
reconciler's question to Stripe and its cancel are strongly fair: tried again and again, they
go through once.  No await of the saga is fair: a shop may never answer.  Store errors are left
out, since one at `initiated` kills the task for good (a hazard in PROJECT.json).  A saga whose hold an operator captured and whose
task is gone stays in flight: the reconciler mirrors the capture and does not escalate (`reconcile.py:262`); `EverySagaSettles`
names this exception.

**Violations.**
- `checkout_resume`: the recovery says it routes like the deadline handler; after a crash between
  the checkpoint of an order and `ORDERS_PLACED` it does not look at the order ids, and writes failed.
- `checkout_lost`: the deadline falls between a shop's confirmation and the checkpoint; the order
  ships, the hold is released.

**Deadlock** is not checked: a settled saga stops.

## 4.3 Seen while modelling, and not stated as properties

- The handler that cannot read the row writes `manual_review` over whatever is there
  (`saga.py:583`); `SettledIsFinal` names this as its one exception.
- A hold row whose saga row has no hold id is "no saga" to the reconciler, which cancels it
  although the comment at manual review says not to touch.
- A hold made after its request was cut off is invisible; `saga_resume.py:86-98` declares the gap.

## 4.4 Proofs (`CheckoutSaga_proofs`)

For any number of checkouts of a job, any sellers, retries and restarts, every quote, every set of totals after
drift and all faults.  The constants' named ASSUMEs are those of `CheckoutSaga` (TLC evaluates them);
`NamesAssumption` says that the names of the requests to Stripe and `lego_official` are no BrickOwl seller's.

Three theorems need nothing else.  `TypeCorrect` and `SagaTypeOK` (a row for every saga that began, no retry beyond
the limit) and `DriftIsCaughtEarly`: from the drift check on, `total` is within the authorisation, before it nothing is placed,
and every re-optimisation passes the check again.

Everything else rests on one fact, which is not inductive by itself: whoever works on a checkout works on the job's latest, which
is the row his store calls reach.  That needs that the row is active; that needs what the await he stands on implies for the
row; and that needs that nobody else wrote to the row, neither a deadline handler, the boot nor the reconciler with rows read
before.  The late handler of a settled saga breaks the fact; the checkout it comes upon is then `disturbed`, and the invariant
says what remains true of all checkouts and what of those that are not disturbed:

    IInv = TInv /\ DriftInv /\ Core
    Core = BootInv /\ BatchInv /\ Apart /\ AgedAlone
           /\ \A c \in Checkouts : Base(c) /\ \A c \in Undisturbed : Stage(c)

*Of all checkouts.*  `Base(c)`: an active row is the latest one's, nothing exists of a checkout before it is confirmed (`Fresh`), and
where the task can be at a boot or after an hour (`Timing`).  `Apart`: unless the latest checkout is disturbed nobody works on an older
one.  `AgedAlone`: a latest hold left alone for an hour has outlived all tasks, the late handler's too, whose deadline is
900 s.  `BatchInv`: what the reconciler has fetched is still so when it acts: the checkout is over, its row unchanged,
the answer from Stripe still true, and no two rows are of one hold.  A step of a checkout that is not over touches no fetched
row (`OneMoves`), which is what makes the parts fit.

*Of undisturbed ones.*  `Stage(c)` is one conjunct per question about a checkout, each saying what `pc[c]` implies: whose row it is (`Owns`),
what exists before the hold and after it (`Opening`, `Holding`), which orders are on record, placed and standing (`Ordering`,
`Delivering`), what the next terminal write will be true of (`Judging`, `LettingGo`), what a settled row promises (`Settled`), that no
request was cut off while the task runs (`Unbroken`), and when money is taken, by whom, or may still be by a request that was cut off (`Money`).

No theorem assumes the late handler away.  `AloneWithoutSlowAudit` says when there is none: if audit rows are never slow, or the checkout is
the job's only one (`LateHandlerAlone`), nobody is ever disturbed, and what is proved of undisturbed checkouts is proved of all.

| theorem | property |
| --- | --- |
| `TypeCorrect`, `SagaTypeOK`, `DriftIsCaughtEarly` | `TypeOK`, `OrdersFitHold` |
| `SagaInvariant` | `IInv` |
| `OneSagaAtATime` | `OneSagaPerJob` |
| `AloneWithoutSlowAudit` | under `LateHandlerAlone`, no checkout is ever disturbed |
| `MirrorIsTruthful` | `MirrorIsTrue` |
| `CaptureDelivers` | `CapturedIsDelivered` |
| `CompensationCleans` | `CompensatedIsClean` |
| `DeadlineKeepsOrders` | `OrdersOutliveDeadline` |
| `FetchedStaysTrue` | `FetchedRowsStillTrue` |
| `NoChargeForNothing` | a failed or compensated saga is never charged, not by a late capture either, unless by an operator's hand |
| `ReconcilerKeepsOff` | `ReconcilerHandsOff` (action property) |
| `SettledStays` | `SettledIsFinal` (action property) |

Before the proof `IInv` was model-checked, with two checkouts and slow audit rows among the faults.
Only model-checked: `EverySagaSettles` and `OrphanHoldReleased`, which are liveness under fairness.

---

# 5. The quote

## 5.1 Correspondence

`optimize` is a pure function; the model takes one step for each turn of its loops, because what is worth
stating holds *between* the turns.

| code | action |
| --- | --- |
| `SaveDictAsJsonsOptimized` | `SaveOrderList` (`QtyForFile`, `MaxParts`) |
| the worker's copy, `read_order_list` | `CopyOrderList` |
| `get_all_listings` of the clients, `merge_listings`, the items without listings | `FetchListings` |
| pass 1: next item, one lot taken or passed over, the remainder | `NextItem`, `TakeLot`, `SkipLot`, `ItemDone` |
| pass 2: one merge, and the restart of the loop | `Consolidate` (`Feasible`, `ExtraCost`, `BestMove`, `Merge`) |
| the sums, `apply_free_shipping_thresholds`, the fee | `BuildQuote` |
| `/confirm` up to the 422 | `Confirm` |

`alloc`, `cost`, `chosen` are `allocation`, `seller_piece_cost` and the order of the keys of the dict, which decides
ties.  Python's sorts are stable; items of equal value come in any order, as the order list may have
them.  LEGO's listing is one lot of a fixed size (`LEGO_MAX_QTY_PER_ITEM`, larger than a line of the
list); a BrickOwl answer is any list of lots, sold-out ones included.  `FeePercent` is taken as a whole number
and the fee rounded down, as `int` does (floating point apart).  A copy that fails leaves no list and `/quote` answers 404; this is not modelled.

## 5.2 Runs

**`quote`** — two elements, each 1, 3 or 7 times in the mosaic with files of at most 3 (below, at, and
more than twice the cap); LEGO, a shop without shipping and a shop with; of each element every
combination of no lot, sold-out, short and ample lots at two prices, and one book with two
lots of one shop; the waiver from 5 on: about three million states.  Two elements are needed for a
preferred seller and for a merge that brings a share onto a share; three sellers for a choice of
where to move.
- `SplitIsWhole`: the files sum up to the order, each line within the cap, no empty file.
- `NothingLost`: in every turn, items = allocated + fallback + still to do.
- `StockRespected`: nobody is asked for more of an element than a lot of his has; what is reported missing
  is sold out with everybody (stated for sellers with one lot each: with two, the code counts
  what the first gave against the second, and passes over stock that is there).
- `QuoteIsTrue`: the running sums are the price of the allocation computed anew, after every merge and the
  waiver, and the fee is on it.
- `ConsolidationSaves`: each turn of pass 2 lowers the true price and the number of parcels, and it ends only when
  no single move of a seller who charges shipping would.  That is not the cheapest order: sellers without
  shipping are passed over (`optimizer.py:119-120`), and pass 1 prefers a seller already chosen, so a share may stay with one of
  them although another seller of the order has it for less.  The waiver comes after both passes and is not
  part of the price pass 2 compares; `docs/CHECKOUT_AUDIT.md:139` and `:160` know this.

**`quote_split`** (a violation) — `checkout_store.py:8-10` calls the split irrelevant to the optimizer, "which
always reads the single canonical file".  That file is the first of the split: of a piece needed
more than 999 times the rest is never quoted, and the quote may be confirmed.

**Deadlock** is not checked: the program ends with `Confirm`.

## 5.3 Proofs (`CheckoutQuote_proofs`)

For any orders and listings, any finite sets of elements and sellers (`SellersAssumption`: one of them is LEGO.com) and any
prices, all six properties of the run are proved.

    IInv = QuoteTypes /\ RestTypes /\ TurnInv /\ ChosenGive /\ NeverOversold /\ FallbackIsSoldOut
           /\ SplitIsWhole /\ NothingLost /\ CostIsTrue /\ QuoteIsTrue

- `NeverOversold` is kept by pass 1 because a take is at most what the lot has left, and by pass 2 because
  of `Feasible`, which looks at a lot of the absorber *minus* what he gives already.
- `FallbackIsSoldOut` needs to know the loop: `InHand` says that, while pieces lack, the lots gone through are sold out.  `SkipLot` needs
  `NeverOversold` for that (a lot with nothing remaining is used up exactly).  Pass 2 keeps it since a
  sold-out lot can absorb nothing.  `NotYetGiven` says that an element whose turn has not come is nowhere in the tables.
- `SplitIsWhole`: the first files are full, the last takes the rest; the sum over the files of `QtyForFile` is the smaller of the
  order and the cap times their number.
- `NothingLost`: a take moves pieces from `needed` to one seller; a merge moves a share from one seller to another, so the sum over
  the sellers of each element is the same before and after.
- `QuoteIsTrue` is about the end and needs what is true on the way: `CostIsTrue`, each seller's running cost is that of what he
  gives, and `ChosenGive`, the keys of the dict are those who give something, each once, so that the
  sums over the dict are the sums over all sellers.
- `ConsolidationSaves` follows from both: the saving the code computes for a move (`ExtraCost` against cost and shipping) is the exact
  difference of the true prices, and that `BestMove` finds nothing means no move of a seller with shipping has a positive one.

`QuoteIsTrue`, `ConsolidationSaves` and the second half of `StockRespected` are stated for sellers with one lot each (`OneLotEach`); with
two lots at two prices the code prices pieces of the second by the first, which the property does not hide but leaves out.

`SetSums` holds the laws of the sums these proofs need, stated for any finite set: a sum may start with any element, depends only on
the values, splits, is monotone and changes by what one value changes.  A fold is
a recursive function and the induction theorems are out of the prover's reach, so each law is proved by contradiction from a smallest
subset for which it fails (`SmallestSubset`, from the well-foundedness of strict inclusion on finite sets).

| theorem | property |
| --- | --- |
| `QuoteInvariant` | `IInv` |
| `QuoteTypeOK` | `TypeOK` |
| `SplitKeepsOrder` | `SplitIsWhole` |
| `PiecesAreKept` | `NothingLost` |
| `StockIsRespected` | `StockRespected` |
| `QuotesAreTrue` | `QuoteIsTrue` |
| `Pass2Saves` | `ConsolidationSaves` (action property) |

`IInv` was model-checked on the instance of the run (2.9 million states) before it was proved.

---

# 6. The kit and the booklet

## 6.1 Correspondence

`KitList` and `FrameGrid` translate pure functions; `BuildBook` is the run of `pic_to_mosaic` once
the pixels are palette indices, one action for each file it writes and for each function that draws pages.

| code | definition or action |
| --- | --- |
| `GetBaseplatesForSize`, `GetFrameForSize`, `GenerateOrderList` | `KitList`'s operators of the same names, `KitFor`, `GenerateOrderList` |
| `_baseplate_step_b_parts`, the legends of `_assemble_*`, of the hooks | `StepBParts`, `LongEdgeParts`, `CornerParts`, `SeamParts`, `HookParts` |
| `draw_baseplate_bottom`, what it draws per case | `BottomArt` |
| `_compute_frame_grid` | `CornerDots`, `EdgeDots`, `SeamDots`; of the pages that draw the dots, what is on the paper: `OnPage`, `OnPaper` |
| `draw_axle_pin_map`, the hooks of `draw_backhook_instruction` | `PinMap`, `HookSpots` |
| `background_color_budget`, `simplify_background_lego` | `Budget`, `TopColours`, `Remaps`, `SimplifyBackground`, `NoBackground` |
| `build_preview_payload`, `BuildStatsPayload` | `WritePreview`, `WriteStats` |
| `GenerateInstructions` and the functions it calls | `TitlePage`, `BaseplateSetup`, `BackgroundColumn`, `ForegroundColumn`, `GridSetup`, `AssembleLongEdge`, …, `FinalView` |
| `save_img_and_increment_step` | `Draw` (variables `step`, `pngs`) |
| `_validate_sequence`, `images_to_pdf`, the deletion of the pages | `MakePdf` |
| an exception in any of it, and the worker's `fail` | `Fail`, `DiskFull` |

The variables `used`, `laid`, `shown`, `built`, `placed`, `joined`, `hung` are not in the program: they are what a reader who has
followed the pages so far has used, laid, placed and joined by which connectors.

*Abstractions.*  A column of sixteen studs is how many of each colour it has, not their order.  Which of two equally frequent
colours is kept, and which kept colour is the nearest to one that goes, is left open (so nothing rests on the colour
distance).  The silhouette is one mask; the code reads it in three ways (`== 0`, `> 0`, `255 - mask`), which agree as
it is 0 or 255.  Percentages are whole numbers; for those, and up to the 43 colours of the palette, `int((pct / 100) * n)` is the
rounded-down quotient but for 58 % of 50, which is out of range.  `round` goes to the even neighbour; the aspect ratio is a fraction
instead of a float.  A function that draws several pages is one action, since nothing else runs.  The progress file and the
geometry of the pages (legends that wrap, rows cut off, places in pixels) are left out, but for two pages: the placement pages, whose
grid has cells of 60 pixels from y = 350 on a page of 612x792 whatever the mosaic's size (`VisualMaker.py:2310-2313`), so that a
reader is told of the dots on the paper only; and the grid page, which takes the size of its own page for that of the
mosaic (`:1886-1890`, `GridSetup`).  `FinishFrame` reads its three closing pages as a builder would: a pin for each arrow, a 16x1 brick
for each green dot on the paper, a thin corner for each corner, and "all flat plates" of the kit.  `KitClosesRing`
takes the plates for the ring two studs wide and the bricks for rows one stud wide around the mosaic's edge, corner studs counted once
for each side; `TopLayer` is the top row with thin corners whose arms are three studs (as drawn) or two (`piece_specs.py:86`).

## 6.2 Run

**`book`** — three colours; one, two and three baseplates across with photos of 3:1 and 2:3 (one to four high: the
sizes 1x1, 1x2, 2x1, 2x3, 3x1, 3x4), and 10x1 and 1x8, which are just too large for the placement pages; flat pictures and silhouettes that cover nothing, parts, whole rows, one column, everything;
0 % and 70 % of the colours; with and without frame; preview, stats and the disk may fail: about 96,000 states.  One across and one high
are the special cases of the dots, three across and four high have a baseplate inside and borders without corner.
- `KitFitsBook`: no legend, xN or dot asks for more than the kit has left, a page's legend and its drawing agree, there is a spot for
  each hook, and at the end nothing is left over but the 16x1 bricks whose dots are off the page.  The grid page has no legend
  and tells of both connectors always: of all the kit has, and of none it lacks if the mosaic is more than one wide and high
  (`JoinsAreInKit`); smaller mosaics are told of connectors their kit has none of.
- `FrameFits`: up to nine baseplates across and seven down as many dots as units, no dot of two kinds, all together the whole border; of
  larger mosaics (`MAX_BLOCK_WIDTH` allows 40) exactly what is on the paper, and fewer dots than units.  The kit's plates and bricks
  close the ring; the top layer with the corners drawn, and eight studs stay open with those of `piece_specs.py`.
- `BookIsWhole`: the PDF is never refused, has the pages 0 to n and every column of both layers.
- `OnePicture`: preview, order list, stats and booklet have the same studs of each colour, and the slider is kept.
- `TypeOK` also says that the simplification keeps the number of studs of every column.

**Deadlock** is not checked: the program ends with the PDF or the failure.

**Seen while modelling, and not stated as properties.**
- `draw_axle_pin_map` fits its grid to the page, the placement pages before it do not.
- `VisualMaker.py:2537` says that the perimeter is `len(edges)`.  As a list it is longer for one-wide and one-high mosaics, whose edges are collected
  twice; on paper the dots coincide.
- A silhouette that covers the whole picture fails the job (`picToMosiac.py:91-92`).

## 6.3 Proofs (`FrameGrid_proofs`, `BuildBook_proofs`)

For every width and height, every finite palette, all pictures, percentages and faults.

`FrameGrid_proofs` shows that the dots, which the program collects with four corner cases and their exceptions, are sets one can count
(`DotCounts`: 4, 2w + 2h and 2w + 2h - 4, disjoint), that together they are the border (`DotsCoverBorder`), and that all of it is on the
paper exactly up to nine across and seven down (`PageLimits`; `OnPaperCounts` for what is left of larger ones).  Each set is a union of two
products, upper and lower side, left and right side; a side is in bijection with an interval.

`BuildBook_proofs` shows `BookUsesKit`, `FrameGoesAround` and `BookMissesNothing` over one inductive invariant.  Its idea is that whatever has been
told so far has a closed form in `pc` and `at`: `CountInv` gives the pieces used after so many baseplates of so many columns (the
formulas of `GetBaseplatesForSize` for a part of the mosaic, with the last row and column not yet reached) and of the frame for each unit built, `UnitInv` the units
built and placed and the connectors told of, `ShownInv` which columns are shown, `PageInv` that the pages on disk are 0 to `step - 1`.  A set-up page moves the closed form by
the legend of its case; at the last baseplate it is the kit's formula.  A failed job keeps what it told and is bounded the same way.

`PictureIsOne` and `BookTypes` (`OnePicture`, `TypeOK`) add `PictureInv`, which says of each result how many studs of a colour it has as a sum
over columns: of all columns for preview, order list and stats, of the columns *shown so far* for the plates laid (`LaidInv`).  A page
adds a column that was not shown before (`ColumnIsNew`, from `ShownInv`), and at the end all are shown (`BookMissesNothing`).  The
preview and the order list count a layer after the other, the stats all plates at once: that their totals agree is
an exchange of two sums (`PlatesTotal`).  That repainting keeps a column's studs, whichever colour goes to which, is a sum
over the fibres of the map (`ColumnRepainted`); that the slider's number of colours is left is `Repaints`.  The laws of sums are in `SetSums`
(section 5.3).  `PicturesAssumption` says that a column of the background has sixteen studs, the hidden ones included;
without it the stats' total would not be one.  The conjunction, `StudInv`, was model-checked on the sizes of one and two
baseplates across before it was proved.

| theorem | property |
| --- | --- |
| `DotCounts`, `DotsCoverBorder`, `PageLimits` | about `FrameGrid`'s operators |
| `BookUsesKit` | `KitFitsBook` |
| `FrameGoesAround` | `FrameFits` |
| `BookMissesNothing` | `BookIsWhole` |
| `BookTypes` | `TypeOK` |
| `PictureIsOne` | `OnePicture` |

All properties of the run are proved.

---

# 7. What is not modelled

Bytes, texts, pixels and the layout of pages are data.  The per-IP cooldown, the progress mirror and the
read-only endpoints of `Main.py` change no decision modelled here.  The JSON backend of the
checkout store has neither recovery nor reconciler and is left out.  Signature checks of
webhooks are assumed to let exactly Stripe's events in.  Several web processes at once are not
modelled: the code's side tables assume one.

The way from a photo to palette indices (segmentation,
lightness, nearest colour, dithering) is arithmetic on floats that no property here rests on.

# 8. Plan

Done: `JobContract`, `JobLifecycle` and its proofs; `BuildPackPay` and its proofs; `CheckoutQuote` with its runs and
proofs; `CheckoutSaga` with its runs and proofs; `KitList`, `FrameGrid`, `BuildBook` and their proofs.  Every invariant and
every action property that a passing run checks is also proved, and so is that `JobLifecycle` implements `JobContract`.  Only the liveness properties are TLC's alone: fairness and ENABLED are out of the prover's reach.

1. An abstract checkout contract (money held, orders, one outcome) that `CheckoutSaga` implements up to
   the declared gaps.
2. The saga's re-optimisation after a stockout with `CheckoutQuote` inside: `lego_fallback_items` of the new
   allocation is looked at by nobody (`saga.py:1327`), so fewer pieces may be ordered than were quoted.
3. `PayContract`: an abstract view of payment and mail for `BuildPackPay`.
4. The LEGO session store and the checkout gate, if their hazards prove to be real ones.
