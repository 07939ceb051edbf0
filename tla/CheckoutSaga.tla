---------------------------- MODULE CheckoutSaga ----------------------------
(***************************************************************************)
(* The checkout saga of scripts/checkout: one job's checkouts, each with   *)
(* its background task (saga.py), the timeout handler that replaces the    *)
(* task, the boot-time recovery (saga_resume.py) and the periodic          *)
(* reconciler of Stripe holds (reconcile.py), over the sagas and           *)
(* payment_holds tables of the Postgres backend.                           *)
(*                                                                         *)
(* One action is what a coroutine does between two awaits together with    *)
(* the outcome of the await that starts it; the deadline and the death of  *)
(* the process can fall on any await.  A request cut off there may still   *)
(* be executed by Stripe or a shop, later or never (late).                 *)
(*                                                                         *)
(* Every store call names the job, not the checkout: it reads and writes   *)
(* the row of the job's latest saga.                                       *)
(*                                                                         *)
(* brickowl_client.create_order raises NotImplementedError at this commit: *)
(* Shops = {} is the program as it runs today, other values the protocol   *)
(* that the saga (and its tests, with a stubbed client) is written for.    *)
(*                                                                         *)
(* Two things the code cannot rule out are kept as history (marks): a hold *)
(* an operator captured from the dashboard while its saga was in flight,   *)
(* and a saga that somebody who works on another checkout came upon.       *)
(***************************************************************************)
EXTENDS Integers, FiniteSets

CONSTANTS
  Checkouts,    \* the checkout ids one job is quoted
  Shops,        \* BrickOwl sellers that can appear in an allocation
  Quote,        \* customer_total_cents of the quote
  Totals,       \* totals a re-optimisation may come to
  MaxRetries,   \* OPTIMIZER_MAX_STOCKOUT_RETRIES
  MaxRestarts,  \* bound: how often the process dies and boots again
  Faults        \* the failures of the environment that are considered

FaultKinds == {"gate_closed", "payment", "store", "shop", "cancel_order",
               "lego_session", "audit", "stripe_denies",
               "operator"}  \* captures or cancels a hold while its saga is in flight

ASSUME CheckoutsAssumption == IsFiniteSet(Checkouts) /\ IsFiniteSet(Shops)
ASSUME MoneyAssumption     == Quote \in Nat /\ Totals \subseteq Nat
ASSUME LimitsAssumption    == MaxRetries \in Nat /\ MaxRestarts \in Nat
ASSUME FaultsAssumption    == Faults \subseteq FaultKinds

Lego == "lego_official"
ASSUME NamesAssumption ==
         Shops \cap {Lego, "create", "capture", "cancel"} = {} /\ "none" \notin Checkouts

Orders   == Shops \cup {Lego}
Active   == {"initiated", "stripe_held", "orders_placed"}
Clean    == {"payment_captured", "compensated", "failed"}
Terminal == Clean \cup {"manual_review"}
Settling == [status : Terminal, disposition : {"none", "cancel_safe", "operator_decides"}]

VARIABLES
  \* the tables
  latest,       \* the checkout whose saga row is the job's newest
  status, recorded, disposition,   \* columns of each checkout's saga row
  holdKnown,    \* checkouts whose saga row has a payment_hold_id
  holdRow,      \* payment_holds.last_known_status, "absent" without a row
  aged,         \* holds whose row was last touched over an hour ago
  \* the outside
  hold,         \* each checkout's PaymentIntent at Stripe
  live,         \* marketplace orders of each checkout that stand
  late,         \* requests cut off by the deadline or a crash, not executed yet
  \* the task, its timeout handler, or the recovery at boot
  pc, want, placed, total, retries, review, verdict,
  \* the reconciler and the process
  batch,        \* rows fetched by the running tick and not yet handled
  seen,         \* holds left alone once: their saga is an hour stale the next time
  phase, restarts,
  \* history
  byHand,       \* holds an operator captured while their saga was in flight
  disturbed     \* checkouts whose row somebody else works with

table   == <<latest, status, recorded, disposition, holdKnown, holdRow, aged>>
outside == <<hold, live, late>>
locals  == <<want, placed, total, retries, review, verdict>>
process == <<phase, restarts>>
marks   == <<byHand, disturbed>>
vars    == <<table, outside, pc, locals, batch, seen, process, marks>>

\* The awaits of the inner saga: here the deadline can fall.
Awaits == {"gate", "hold", "record", "rollback", "held", "order", "checkpoint",
           "recall", "reoptimise", "placed", "capture", "paid", "compensate",
           "release", "write", "audit"}

TypeOK ==
  /\ latest \in Checkouts \cup {"none"}
  /\ status \in [Checkouts -> {"absent"} \cup Active \cup Terminal]
  /\ recorded \in [Checkouts -> SUBSET Orders]
  /\ disposition \in [Checkouts -> {"none", "cancel_safe", "operator_decides"}]
  /\ holdKnown \subseteq Checkouts
  /\ holdRow \in [Checkouts -> {"absent", "requires_capture", "succeeded",
                                "canceled", "unknown"}]
  /\ aged \subseteq Checkouts
  /\ hold \in [Checkouts -> {"none", "requires_capture", "succeeded", "canceled"}]
  /\ live \in [Checkouts -> SUBSET Orders]
  /\ late \subseteq Checkouts \X ({"create", "capture", "cancel"} \cup Orders)
  /\ pc \in [Checkouts -> Awaits \cup {"idle", "drift", "expired", "resume",
                                       "letgo", "verdict", "over"}]
  /\ want \in [Checkouts -> SUBSET Orders] /\ placed \in [Checkouts -> SUBSET Orders]
  /\ total \in [Checkouts -> Totals \cup {Quote}]
  /\ retries \in [Checkouts -> 0..MaxRetries]
  /\ review \in [Checkouts -> BOOLEAN]
  /\ verdict \in [Checkouts -> Settling]
  /\ batch \subseteq [hold : Checkouts,
                       stripe : {"unasked", "none", "requires_capture",
                                 "succeeded", "canceled", "mirrored"},
                       status : {"no_saga"} \cup Active \cup Terminal,
                       disposition : {"none", "cancel_safe", "operator_decides"}]
  /\ seen \subseteq Checkouts
  /\ phase \in {"serving", "booting"} /\ restarts \in 0..MaxRestarts
  /\ byHand \subseteq Checkouts /\ disturbed \subseteq Checkouts

NoVerdict == [status |-> "failed", disposition |-> "none"]

Init ==
  /\ latest = "none"
  /\ status = [c \in Checkouts |-> "absent"]
  /\ recorded = [c \in Checkouts |-> {}]
  /\ disposition = [c \in Checkouts |-> "none"]
  /\ holdKnown = {} /\ holdRow = [c \in Checkouts |-> "absent"] /\ aged = {}
  /\ hold = [c \in Checkouts |-> "none"]
  /\ live = [c \in Checkouts |-> {}] /\ late = {}
  /\ pc = [c \in Checkouts |-> "idle"]
  /\ want = [c \in Checkouts |-> {}] /\ placed = [c \in Checkouts |-> {}]
  /\ total = [c \in Checkouts |-> Quote]
  /\ retries = [c \in Checkouts |-> MaxRetries]
  /\ review = [c \in Checkouts |-> FALSE]
  /\ verdict = [c \in Checkouts |-> NoVerdict]
  /\ batch = {} /\ seen = {} /\ phase = "serving" /\ restarts = 0
  /\ byHand = {} /\ disturbed = {}
-----------------------------------------------------------------------------
Fault(f) == f \in Faults

At(c, p)   == pc[c] = p
Goto(c, p) == pc' = [pc EXCEPT ![c] = p]

\* int(math.ceil(quote_total * _HOLD_BUFFER_MULTIPLIER)), the buffer being 5%.
Authorized == (Quote * 105 + 99) \div 100

Allocations == SUBSET Orders \ {{}}

\* The next row write of c is terminal: s with hold disposition d.
Settle(c, p, s, d) == /\ Goto(c, p)
                      /\ verdict' = [verdict EXCEPT ![c] = [status |-> s, disposition |-> d]]

\* checkout_store.update raised in the saga: the background task dies of it.
TaskDies(c) == Fault("store") /\ Goto(c, "over")

\* Slip: /confirm does not ask whether a saga is under way.
NoActiveSagaUnchecked == TRUE

\* sagas_one_active_per_job_idx
NoActiveSaga == \A c \in Checkouts : status[c] \notin Active

\* Nobody makes a store call, or is about to, for c.
Quiet(c) == pc[c] \in {"idle", "over", "audit"}

\* c meets the row of another checkout from here on.
Disturbs(c) == disturbed' = IF latest = c THEN disturbed ELSE disturbed \cup {latest}
-----------------------------------------------------------------------------
(* POST /confirm and the steps of _execute_checkout_saga_inner.            *)

Confirm(c) ==
  /\ phase = "serving" /\ At(c, "idle") /\ NoActiveSaga
  /\ latest' = c
  /\ status' = [status EXCEPT ![c] = "initiated"]
  /\ \E w \in Allocations : want' = [want EXCEPT ![c] = w]
  /\ Goto(c, "gate")
  /\ disturbed' = IF \A d \in Checkouts : Quiet(d) THEN disturbed
                  ELSE disturbed \cup {c}
  /\ UNCHANGED <<recorded, disposition, holdKnown, holdRow, aged, outside,
                 placed, total, retries, review, verdict, batch, seen, process, byHand>>

\* Layer 4 and 5, then the first checkpoint.
OpenGate(c) ==
  /\ At(c, "gate")
  /\ \/ /\ status' = [status EXCEPT ![latest] = "initiated"]
        /\ recorded' = [recorded EXCEPT ![latest] = {}]
        /\ holdKnown' = holdKnown \ {latest}
        /\ Goto(c, "hold") /\ UNCHANGED verdict
     \/ /\ Fault("gate_closed") /\ Settle(c, "write", "failed", "none")
        /\ UNCHANGED <<status, recorded, holdKnown>>
     \/ TaskDies(c) /\ UNCHANGED <<status, recorded, holdKnown, verdict>>
  /\ UNCHANGED <<latest, disposition, holdRow, aged, outside, want, placed,
                 total, retries, review, batch, seen, process, marks>>

\* provider.create_hold.  A transient error may hide a hold that was created.
CreateHold(c) ==
  /\ At(c, "hold")
  /\ \/ /\ hold' = [hold EXCEPT ![c] = "requires_capture"]
        /\ Goto(c, "record") /\ UNCHANGED verdict
     \/ /\ Fault("payment")
        /\ \E h \in {"none", "requires_capture"} : hold' = [hold EXCEPT ![c] = h]
        /\ \/ Settle(c, "write", "failed", "none")          \* a provider error
           \/ Settle(c, "write", "manual_review", "none")   \* any other exception
  /\ UNCHANGED <<table, live, late, want, placed, total, retries, review,
                 batch, seen, process, marks>>

RecordHold(c) ==
  /\ At(c, "record")
  /\ \/ /\ holdRow' = [holdRow EXCEPT ![c] = "requires_capture"]
        /\ Goto(c, "held")
     \/ Fault("store") /\ Goto(c, "rollback") /\ UNCHANGED holdRow
  /\ UNCHANGED <<latest, status, recorded, disposition, holdKnown, aged,
                 outside, locals, batch, seen, process, marks>>

\* PaymentIntent.cancel: Stripe refuses it on a terminal intent, captured ones
\* included, and the provider calls that success.
Cancelled(h) == hold' = [hold EXCEPT ![h] = IF @ = "requires_capture" THEN "canceled" ELSE @]

\* B56: record_hold failed, the hold is cancelled or audited as an orphan.
RollbackHold(c) ==
  /\ At(c, "rollback")
  /\ \/ Cancelled(c)
     \/ Fault("payment") /\ UNCHANGED hold
  /\ Settle(c, "write", "failed", "none")
  /\ UNCHANGED <<table, live, late, want, placed, total, retries, review,
                 batch, seen, process, marks>>

CheckpointHold(c) ==
  /\ At(c, "held")
  /\ \/ /\ holdKnown' = holdKnown \cup {latest}
        /\ status' = [status EXCEPT ![latest] = "stripe_held"]
        /\ Goto(c, "drift")
     \/ TaskDies(c) /\ UNCHANGED <<holdKnown, status>>
  /\ UNCHANGED <<latest, recorded, disposition, holdRow, aged, outside,
                 locals, batch, seen, process, marks>>

\* Slip: the pre-placement check is left to the one before capture.
FitsHoldUnchecked(c) == c \in Checkouts

FitsHold(c) == total[c] <= Authorized

\* B5: the total is compared with the hold before a round of orders.
CheckDrift(c) ==
  /\ At(c, "drift")
  /\ Goto(c, IF FitsHold(c) THEN "order" ELSE "compensate")
  /\ UNCHANGED <<table, outside, locals, batch, seen, process, marks>>

\* Slip: one retry too many.
NoRetriesLeftLate(c) == retries[c] < 0

NoRetriesLeft(c) == retries[c] = 0

\* create_order / order_from_lego.  LEGO comes after every BrickOwl seller; a
\* stockout there is not retried.
PlaceOrder(c, o) ==
  /\ At(c, "order") /\ o \in want[c]
  /\ o = Lego => want[c] = {Lego}
  /\ \/ /\ live' = [live EXCEPT ![c] = @ \cup {o}]
        /\ placed' = [placed EXCEPT ![c] = @ \cup {o}]
        /\ want' = [want EXCEPT ![c] = @ \ {o}]
        /\ Goto(c, "checkpoint") /\ UNCHANGED verdict
     \/ /\ Goto(c, IF o = Lego \/ NoRetriesLeft(c) THEN "compensate" ELSE "recall")
        /\ UNCHANGED <<live, placed, want, verdict>>        \* StockoutError
     \/ /\ o = Lego /\ Fault("lego_session")
        /\ Settle(c, "write", "manual_review", "operator_decides")
        /\ UNCHANGED <<live, placed, want>>
     \/ /\ Fault("shop") /\ Goto(c, "compensate")
        /\ \E reached \in SUBSET {o} : live' = [live EXCEPT ![c] = @ \cup reached]
        /\ UNCHANGED <<placed, want, verdict>>              \* any other exception
  /\ UNCHANGED <<table, hold, late, total, retries, review, batch, seen, process, marks>>

\* Slip: the loop over the sellers is left after its first round.
AfterCheckpointAtOnce(c) == IF c \in Checkouts THEN "placed" ELSE "order"

AfterCheckpoint(c) == IF want[c] = {} THEN "placed" ELSE "order"

\* B19: a failed checkpoint goes to compensation with the new order as an extra.
CheckpointOrder(c) ==
  /\ At(c, "checkpoint")
  /\ \/ /\ recorded' = [recorded EXCEPT ![latest] = placed[c]]
        /\ Goto(c, AfterCheckpoint(c))
     \/ Fault("store") /\ Goto(c, "compensate") /\ UNCHANGED recorded
  /\ UNCHANGED <<latest, status, disposition, holdKnown, holdRow, aged,
                 outside, locals, batch, seen, process, marks>>

\* A stockout with retries left: take back this round's orders.
RecallRound(c) ==
  /\ At(c, "recall")
  /\ \E refused \in SUBSET placed[c] :
       /\ refused # {} => Fault("cancel_order")
       /\ live' = [live EXCEPT ![c] = @ \ (placed[c] \ refused)]
       /\ IF refused = {}
            THEN Goto(c, "reoptimise") /\ UNCHANGED verdict
            ELSE Settle(c, "write", "manual_review", "operator_decides")
  /\ UNCHANGED <<table, hold, late, want, placed, total, retries, review,
                 batch, seen, process, marks>>

\* ... forget them, fetch listings again and optimise.
Reoptimise(c) ==
  /\ At(c, "reoptimise")
  /\ \/ /\ recorded' = [recorded EXCEPT ![latest] = {}]
        /\ placed' = [placed EXCEPT ![c] = {}]
        /\ \E w \in Allocations : want' = [want EXCEPT ![c] = w]
        /\ \E t \in Totals : total' = [total EXCEPT ![c] = t]
        /\ retries' = [retries EXCEPT ![c] = @ - 1]
        /\ Goto(c, "drift")
     \/ TaskDies(c) /\ UNCHANGED <<recorded, placed, want, total, retries>>
     \/ /\ Fault("shop") /\ Goto(c, "over")                 \* a fetch raises
        /\ recorded' = [recorded EXCEPT ![latest] = {}]
        /\ UNCHANGED <<placed, want, total, retries>>
  /\ UNCHANGED <<latest, status, disposition, holdKnown, holdRow, aged,
                 outside, review, verdict, batch, seen, process, marks>>

\* ORDERS_PLACED, and the drift check kept as defence in depth.
OrdersPlaced(c) ==
  /\ At(c, "placed")
  /\ \/ /\ status' = [status EXCEPT ![latest] = "orders_placed"]
        /\ IF total[c] > Authorized
             THEN Settle(c, "write", "manual_review", "operator_decides")
             ELSE Goto(c, "capture") /\ UNCHANGED verdict
     \/ TaskDies(c) /\ UNCHANGED <<status, verdict>>
  /\ UNCHANGED <<latest, recorded, disposition, holdKnown, holdRow, aged,
                 outside, want, placed, total, retries, review, batch, seen, process, marks>>

\* _capture_with_retry as a whole; a failure may hide a capture that happened.  A
\* hold captured by hand counts as captured, a cancelled one cannot be.
Capture(c) ==
  /\ At(c, "capture")
  /\ \/ /\ hold[c] \in {"requires_capture", "succeeded"}
        /\ hold' = [hold EXCEPT ![c] = "succeeded"]
        /\ \/ holdRow' = [holdRow EXCEPT ![c] = "succeeded"]
           \/ Fault("store") /\ UNCHANGED holdRow
        /\ Goto(c, "paid") /\ UNCHANGED verdict
     \/ /\ Fault("payment") \/ hold[c] = "canceled"
        /\ \/ hold[c] = "requires_capture" /\ hold' = [hold EXCEPT ![c] = "succeeded"]
           \/ UNCHANGED hold
        /\ Settle(c, "write", "manual_review", "operator_decides")
        /\ UNCHANGED holdRow
  /\ UNCHANGED <<latest, status, recorded, disposition, holdKnown, aged, live,
                 late, want, placed, total, retries, review, batch, seen, process, marks>>

PaymentCaptured(c) ==
  /\ At(c, "paid")
  /\ \/ status' = [status EXCEPT ![latest] = "payment_captured"] /\ Goto(c, "audit")
     \/ TaskDies(c) /\ UNCHANGED status
  /\ UNCHANGED <<latest, recorded, disposition, holdKnown, holdRow, aged,
                 outside, locals, batch, seen, process, marks>>
-----------------------------------------------------------------------------
(* _compensate: cancel the orders, release the hold, write one verdict.    *)

\* Slip: orders the checkpoint missed are not handed over.
KnownOrdersFromState(c) == IF c \in Checkouts THEN recorded[latest] ELSE {}

\* The orders in the row and, B19, those only the caller knows of; where the row is
\* another checkout's, only c's own orders are followed.
KnownOrders(c) == recorded[latest] \cup placed[c]

CancelOrders(c) ==
  /\ At(c, "compensate")
  /\ \/ /\ status[latest] \in Terminal /\ Goto(c, "over")
        /\ UNCHANGED <<live, review, verdict>>
     \/ /\ status[latest] \notin Terminal
        /\ \E refused \in SUBSET (KnownOrders(c) \cap Shops) :
             /\ refused # {} => Fault("cancel_order")
             /\ live' = [live EXCEPT ![c] = @ \ ((KnownOrders(c) \cap Shops) \ refused)]
             /\ LET stranded == refused # {} \/ Lego \in KnownOrders(c)
                IN  /\ review' = [review EXCEPT ![c] = stranded]
                    /\ IF latest \in holdKnown
                         THEN Goto(c, "release") /\ UNCHANGED verdict
                         ELSE Settle(c, "write", IF stranded THEN "manual_review"
                                                 ELSE "compensated", "none")
     \/ /\ Fault("store")                                  \* the row cannot be read
        /\ \E refused \in SUBSET (placed[c] \cap Shops) :
             /\ refused # {} => Fault("cancel_order")
             /\ live' = [live EXCEPT ![c] = @ \ ((placed[c] \cap Shops) \ refused)]
        /\ Settle(c, "write", "manual_review", "none")
        /\ UNCHANGED review
  /\ UNCHANGED <<table, hold, late, want, placed, total, retries, batch, seen, process, marks>>

\* Slip: the mirror is written whether or not the cancel went through.
MirrorCancelAlways(c, ok) == holdRow' = [holdRow EXCEPT ![c] =
                               IF ok \in BOOLEAN /\ @ # "absent" THEN "canceled" ELSE @]

\* mark_status(canceled): best effort, and a no-op without a row.
MirrorCancel(c, ok) ==
  \/ ok /\ holdRow' = [holdRow EXCEPT ![c] = IF @ = "absent" THEN @ ELSE "canceled"]
  \/ (~ok \/ Fault("store")) /\ UNCHANGED holdRow

\* cancel_hold_with_retry on the hold of checkout h, with outcome ok; a failure
\* may hide a cancel that happened.
CancelHold(h, ok) ==
  /\ \/ /\ ok \/ Fault("payment")
        /\ Cancelled(h)
     \/ /\ ~ok /\ (Fault("payment") \/ Fault("gate_closed"))
        /\ UNCHANGED hold
  /\ MirrorCancel(h, ok)

ReleaseHold(c) ==
  /\ At(c, "release")
  /\ \E ok \in BOOLEAN :
       /\ CancelHold(latest, ok)
       /\ IF ~ok THEN Settle(c, "write", "manual_review", "cancel_safe")
          ELSE Settle(c, "write", IF review[c] THEN "manual_review"
                                  ELSE "compensated", "none")
  /\ UNCHANGED <<latest, status, recorded, disposition, holdKnown, aged, live,
                 late, want, placed, total, retries, review, batch, seen, process, marks>>

\* The terminal write of the task, the timeout handler or the recovery.
WriteVerdict(c) ==
  /\ pc[c] \in {"write", "verdict"}
  /\ \/ /\ status' = [status EXCEPT ![latest] = verdict[c].status]
        /\ disposition' = [disposition EXCEPT ![latest] = verdict[c].disposition]
        /\ Goto(c, IF At(c, "write") THEN "audit" ELSE "over")
     \/ TaskDies(c) /\ UNCHANGED <<status, disposition>>
  /\ UNCHANGED <<latest, recorded, holdKnown, holdRow, aged, outside, locals,
                 batch, seen, process, marks>>

\* audit.emit after the terminal write, the last await of the task.
Audited(c) ==
  /\ At(c, "audit") /\ Goto(c, "over")
  /\ UNCHANGED <<table, outside, locals, batch, seen, process, marks>>
-----------------------------------------------------------------------------
(* The deadline and _handle_saga_timeout.                                  *)

\* What c has asked of the outside at the await it stands at, and for which
\* checkout: the hold to release is that of the row.
Asked(c) ==
  CASE At(c, "hold")      -> {<<c, "create">>}
    [] At(c, "capture")   -> {<<c, "capture">>}
    [] At(c, "rollback")  -> {<<c, "cancel">>}
    [] pc[c] \in {"release", "letgo"} -> {<<latest, "cancel">>}
    [] At(c, "order")     -> {c} \X {o \in want[c] : o = Lego => want[c] = {Lego}}
    [] OTHER              -> {}

\* Order cancellations c may have got through before it is cut off.
Cancelling(c) ==
  CASE At(c, "recall")     -> placed[c]
    [] At(c, "compensate") -> KnownOrders(c) \cap Shops
    [] OTHER               -> {}

\* Slip: deadlines per call, none around the compensation.
UnderDeadlineInPart(c) == pc[c] \in Awaits \ {"compensate", "release", "write"}

\* wait_for covers everything the inner saga awaits.
UnderDeadline(c) == pc[c] \in Awaits

Timeout(c) ==
  /\ UnderDeadline(c)
  /\ At(c, "audit") => Fault("audit")      \* only an audit row that is slow
  /\ Goto(c, "expired")
  /\ \E gone \in SUBSET Cancelling(c) : live' = [live EXCEPT ![c] = @ \ gone]
  /\ \/ UNCHANGED late
     \/ \E q \in Asked(c) : late' = late \cup {q}
  /\ Disturbs(c)
  /\ UNCHANGED <<table, hold, locals, batch, seen, process, byHand>>

\* Slip: orders the shops confirmed do not keep the hold.
OrdersRecordedIgnored == FALSE

OrdersRecorded == recorded[latest] # {}

\* Slip: the handler does not look whether the saga finished in time.
FinishedInTimeUnchecked == FALSE

FinishedInTime == status[latest] \in Terminal

HandleTimeout(c) ==
  /\ At(c, "expired")
  /\ \/ Fault("store") /\ Settle(c, "verdict", "manual_review", "none")
     \/ FinishedInTime /\ Goto(c, "over") /\ UNCHANGED verdict
     \/ /\ ~FinishedInTime /\ OrdersRecorded
        /\ Settle(c, "verdict", "manual_review", "operator_decides")
     \/ /\ ~FinishedInTime /\ ~OrdersRecorded /\ latest \in holdKnown
        /\ Goto(c, "letgo") /\ UNCHANGED verdict
     \/ /\ ~FinishedInTime /\ ~OrdersRecorded /\ latest \notin holdKnown
        /\ Settle(c, "verdict", "failed", "none")
  /\ UNCHANGED <<table, outside, want, placed, total, retries, review, batch,
                 seen, process, marks>>

\* The handler and the recovery release a hold the same way.
LetHoldGo(c) ==
  /\ At(c, "letgo")
  /\ \E ok \in BOOLEAN :
       /\ CancelHold(latest, ok)
       /\ IF ok THEN Settle(c, "verdict", "failed", "none")
          ELSE Settle(c, "verdict", "manual_review", "cancel_safe")
  /\ UNCHANGED <<latest, status, recorded, disposition, holdKnown, aged, live,
                 late, want, placed, total, retries, review, batch, seen, process, marks>>
-----------------------------------------------------------------------------
(* The process dies at any point, boots, and recovers before it serves.    *)

Restart ==
  /\ restarts < MaxRestarts /\ restarts' = restarts + 1
  /\ phase' = "booting" /\ batch' = {}
  /\ pc' = [c \in Checkouts |-> IF pc[c] = "idle" THEN "idle"
                                ELSE IF status[c] \in Active THEN "resume" ELSE "over"]
  /\ \E gone \in [Checkouts -> SUBSET Shops] :
       /\ \A c \in Checkouts : gone[c] \subseteq Cancelling(c)
       /\ live' = [c \in Checkouts |-> live[c] \ gone[c]]
  /\ \E cut \in SUBSET UNION {Asked(c) : c \in Checkouts} : late' = late \cup cut
  /\ UNCHANGED <<table, hold, locals, seen, marks>>

\* _route_recovery: by the status column alone.
Resume(c) ==
  /\ At(c, "resume")
  /\ \/ status[c] = "initiated" /\ Settle(c, "verdict", "failed", "none")
     \/ status[c] = "stripe_held" /\ c \in holdKnown
          /\ Goto(c, "letgo") /\ UNCHANGED verdict
     \/ status[c] = "stripe_held" /\ c \notin holdKnown
          /\ Settle(c, "verdict", "manual_review", "none")
     \/ status[c] = "orders_placed"
          /\ Settle(c, "verdict", "manual_review", "operator_decides")
  /\ UNCHANGED <<table, outside, want, placed, total, retries, review, batch,
                 seen, process, marks>>

Booted ==
  /\ phase = "booting" /\ phase' = "serving"
  /\ \A c \in Checkouts : pc[c] \in {"idle", "over"}
  /\ UNCHANGED <<table, outside, pc, locals, batch, seen, restarts, marks>>
-----------------------------------------------------------------------------
(* Requests cut off, and the people and clocks outside.                    *)

LateLands(c, r) ==
  /\ <<c, r>> \in late /\ late' = late \ {<<c, r>>}
  /\ LET from == IF r = "create" THEN "none" ELSE "requires_capture"
         into == CASE r = "create" -> "requires_capture"
                   [] r = "capture" -> "succeeded" [] OTHER -> "canceled"
     IN  IF r \in Orders
           THEN live' = [live EXCEPT ![c] = @ \cup {r}] /\ UNCHANGED hold
           ELSE /\ hold' = [hold EXCEPT ![c] = IF @ = from THEN into ELSE @]
                /\ UNCHANGED live
  /\ UNCHANGED <<table, pc, locals, batch, seen, process, marks>>

\* Slip: the reconciler's threshold is shorter than the saga's deadline.
LongOverEarly(c) == pc[c] # "idle"

\* After an hour the deadline of 900 s has ended the task long before, and so it has
\* the tasks of the checkouts confirmed before it.
LongOver(c) == /\ pc[c] = "over"
               /\ c = latest => \A d \in Checkouts : pc[d] \in {"idle", "over"}

HourPasses(c) ==
  /\ holdRow[c] = "requires_capture" /\ LongOver(c) /\ c \notin aged
  /\ aged' = aged \cup {c}
  /\ UNCHANGED <<latest, status, recorded, disposition, holdKnown, holdRow,
                 outside, pc, locals, batch, seen, process, marks>>

\* The operator follows the runbook of a manual_review saga, which offers capture
\* only where the disposition is operator_decides, or acts from the dashboard while
\* the saga is still in flight.  Stripe itself cancels a hold after seven days.
OutOfBand(c) ==
  /\ hold[c] = "requires_capture"
  /\ \/ /\ \/ status[c] = "manual_review"
           \/ c \in aged /\ pc[c] = "over"
           \/ Fault("operator") /\ status[c] \in Active
        /\ hold' = [hold EXCEPT ![c] = "canceled"] /\ UNCHANGED byHand
     \/ /\ status[c] = "manual_review" /\ disposition[c] = "operator_decides"
        /\ hold' = [hold EXCEPT ![c] = "succeeded"] /\ UNCHANGED byHand
     \/ /\ Fault("operator") /\ status[c] \in Active
        /\ hold' = [hold EXCEPT ![c] = "succeeded"] /\ byHand' = byHand \cup {c}
  /\ UNCHANGED <<table, live, late, pc, locals, batch, seen, process, disturbed>>
-----------------------------------------------------------------------------
(* reconcile.py: a tick fetches its rows once, joined with the sagas by hold *)
(* id, and takes them one at a time: ask Stripe, then act on what was read.  *)

Candidates == {c \in aged : holdRow[c] = "requires_capture"}

ReconcileFetch ==
  /\ phase = "serving" /\ batch = {} /\ Candidates # {}
  /\ batch' = {[hold |-> c, stripe |-> "unasked",
                status |-> IF c \in holdKnown THEN status[c] ELSE "no_saga",
                disposition |-> disposition[c]] : c \in Candidates}
  /\ UNCHANGED <<table, outside, pc, locals, seen, process, marks>>

AskStripe(r) ==
  /\ r \in batch /\ r.stripe = "unasked"
  /\ \A q \in batch : q.stripe = "unasked"
  /\ \/ batch' = (batch \ {r}) \cup {[r EXCEPT !.stripe = hold[r.hold]]}
     \/ Fault("payment") /\ batch' = batch \ {r}            \* transient: next tick
  /\ UNCHANGED <<table, outside, pc, locals, seen, process, marks>>

\* The row was looked at: last_reconciled_at is now, its status v.
Reconciled(c, v) == holdRow' = [holdRow EXCEPT ![c] = v] /\ aged' = aged \ {c}

\* A permanent error or an unmapped status: the row is not looked at again.
DisownHold(r) ==
  /\ r \in batch /\ r.stripe = "unasked" /\ Fault("stripe_denies")
  /\ \A q \in batch : q.stripe = "unasked"
  /\ batch' = batch \ {r}
  /\ Reconciled(r.hold, "unknown")
  /\ UNCHANGED <<latest, status, recorded, disposition, holdKnown, outside, pc,
                 locals, seen, process, marks>>

\* A store call of the row raises: the tick counts it and goes on to the next row,
\* whatever the row's first call has done.
RowFails(r) ==
  /\ r \in batch /\ Fault("store")
  /\ r.stripe # "unasked" \/ Fault("stripe_denies")
  /\ \A q \in batch \ {r} : q.stripe = "unasked"
  /\ batch' = batch \ {r}
  /\ UNCHANGED <<table, outside, pc, locals, seen, process, marks>>

\* Slip (before B55): manual_review is one of the clean terminal statuses.
IsOrphanBeforeB55(r) == r.status \in {"no_saga", "initiated"} \cup Terminal

IsOrphan(r) == \/ r.status \in {"no_saga", "initiated"} \cup Clean
               \/ r.status = "manual_review" /\ r.disposition = "cancel_safe"

InFlightWithHold == {"stripe_held", "orders_placed"}   \* _IN_FLIGHT_WITH_HOLD

\* Slip: a failed cancel takes the row out of the candidates.
AfterFailedCancelGivenUp == "unknown"

AfterFailedCancel == "requires_capture"

\* mark_status with what Stripe says.  A saga in flight that lost its hold is still
\* to be escalated, by a second call.
MirrorTerminal(r) ==
  /\ r \in batch /\ r.stripe \in {"succeeded", "canceled"}
  /\ Reconciled(r.hold, r.stripe)
  /\ batch' = (batch \ {r}) \cup
               (IF r.stripe = "canceled" /\ r.status \in InFlightWithHold
                  THEN {[r EXCEPT !.stripe = "mirrored"]} ELSE {})
  /\ UNCHANGED <<latest, status, recorded, disposition, holdKnown, outside, pc,
                 locals, seen, process, marks>>

EscalateReleased(r) ==
  /\ r \in batch /\ r.stripe = "mirrored"
  /\ batch' = batch \ {r}
  /\ status' = [status EXCEPT ![latest] = "manual_review"]
  /\ UNCHANGED <<latest, recorded, disposition, holdKnown, holdRow, aged, outside,
                 pc, locals, seen, process, marks>>

\* _cancel_orphan_hold, with outcome ok; the mirror's update may fail after it.
CancelOrphan(r, ok) ==
  /\ r \in batch /\ r.stripe = "requires_capture" /\ IsOrphan(r)
  /\ batch' = batch \ {r}
  /\ \/ (ok \/ Fault("payment")) /\ Cancelled(r.hold)
     \/ ~ok /\ Fault("payment") /\ UNCHANGED hold
  /\ \/ Reconciled(r.hold, IF ok THEN "canceled" ELSE AfterFailedCancel)
     \/ Fault("store") /\ UNCHANGED <<holdRow, aged>>
  /\ UNCHANGED <<latest, status, recorded, disposition, holdKnown, live, late,
                 pc, locals, seen, process, marks>>

\* A saga in flight for an hour is stuck and escalated; what is then left to do
\* for its row is what LeaveHold does.
EscalateStuck(r) ==
  /\ r \in batch /\ r.stripe = "requires_capture" /\ r.status \in InFlightWithHold
  /\ batch' = (batch \ {r}) \cup {[r EXCEPT !.status = "manual_review"]}
  /\ status' = [status EXCEPT ![latest] = "manual_review"]
  /\ UNCHANGED <<latest, recorded, disposition, holdKnown, holdRow, aged, outside,
                 pc, locals, seen, process, marks>>

\* A manual_review hold is the operator's; a saga that moved within the hour is
\* left alone.
LeaveHold(r) ==
  /\ r \in batch /\ r.stripe = "requires_capture" /\ ~IsOrphan(r)
  /\ r.status = "manual_review" \/ r.hold \notin seen
  /\ batch' = batch \ {r} /\ seen' = seen \cup {r.hold}
  /\ Reconciled(r.hold, "requires_capture")
  /\ UNCHANGED <<latest, status, recorded, disposition, holdKnown, outside, pc,
                 locals, process, marks>>

Reconcile == \/ ReconcileFetch
             \/ \E r \in batch : \/ AskStripe(r) \/ DisownHold(r) \/ RowFails(r)
                                 \/ MirrorTerminal(r) \/ EscalateReleased(r)
                                 \/ CancelOrphan(r, TRUE) \/ CancelOrphan(r, FALSE)
                                 \/ EscalateStuck(r) \/ LeaveHold(r)
-----------------------------------------------------------------------------
Saga(c) == \/ OpenGate(c) \/ CreateHold(c) \/ RecordHold(c) \/ RollbackHold(c)
           \/ CheckpointHold(c) \/ CheckDrift(c) \/ CheckpointOrder(c)
           \/ RecallRound(c) \/ Reoptimise(c) \/ OrdersPlaced(c) \/ Capture(c)
           \/ PaymentCaptured(c) \/ CancelOrders(c) \/ ReleaseHold(c) \/ Audited(c)
           \/ \E o \in Orders : PlaceOrder(c, o)

\* What runs outside the deadline: the handler, and the recovery at boot.
Recovery(c) == \/ HandleTimeout(c) \/ Resume(c) \/ LetHoldGo(c)
               \/ At(c, "verdict") /\ WriteVerdict(c)

Next == \/ \E c \in Checkouts : \/ Confirm(c) \/ Saga(c) \/ Recovery(c)
                                \/ At(c, "write") /\ WriteVerdict(c)
                                \/ Timeout(c) \/ HourPasses(c) \/ OutOfBand(c)
                                \/ \E r \in {q[2] : q \in late} : LateLands(c, r)
        \/ Reconcile \/ Restart \/ Booted

Spec == Init /\ [][Next]_vars

\* The deadline falls, handler and boot come to an end (their Stripe calls have
\* the SDK's own timeouts), the reconciler keeps ticking, an hour passes, and a
\* cancel tried again and again goes through once.  No await of the saga itself
\* is fair: a shop may never answer.
Fairness ==
  /\ WF_vars(Booted) /\ WF_vars(Reconcile)
  /\ \A c \in Checkouts :
       /\ WF_vars(Timeout(c)) /\ WF_vars(CheckDrift(c)) /\ WF_vars(Recovery(c))
       /\ WF_vars(Audited(c)) /\ WF_vars(HourPasses(c))
       /\ SF_vars(\E r \in batch : r.hold = c /\ AskStripe(r) /\ batch' # batch \ {r})
       /\ SF_vars(\E r \in batch : r.hold = c /\ CancelOrphan(r, TRUE))

FairSpec == Spec /\ Fairness
-----------------------------------------------------------------------------
(* Properties.                                                             *)

Undisturbed == Checkouts \ disturbed

\* B23: one job never has two sagas under way, and whoever still works on a
\* checkout works on the job's latest, which is the row his store calls reach.  It
\* can only be the timeout handler of a settled saga, kept by a slow audit row,
\* that comes upon the next one (saga.py:582), and then that one is disturbed.
OneSagaPerJob ==
  \A c \in Checkouts :
    /\ status[c] \in Active => c = latest
    /\ c # latest /\ ~Quiet(c) =>
         /\ latest \in disturbed
         /\ \/ c \in disturbed
            \/ status[c] \in Terminal /\ pc[c] \in {"expired", "letgo", "verdict"}

\* A terminal saga status is final: no deadline, recovery or reconciler tick
\* that read the row before it settled takes it back.  The one exception is the
\* handler that cannot read the row and calls the operator unseen.
SettledIsFinal ==
  [][\A c \in Undisturbed : status[c] \in Terminal =>
        \/ status'[c] = status[c]
        \/ /\ status'[c] = "manual_review"
           /\ \E d \in Checkouts : At(d, "verdict")]_vars

\* B5: no order is placed for more than the hold can pay, so the drift check
\* after placement, and a capture beyond the authorisation, never come about.
OrdersFitHold ==
  \A c \in Checkouts : /\ placed[c] # {} => total[c] <= Authorized
                       /\ pc[c] = "capture" => total[c] <= Authorized

\* A captured saga took the money once and every order of it stands and is on
\* record: nothing cancelled an order or the hold behind its back.
CapturedIsDelivered ==
  \A c \in Undisturbed : status[c] = "payment_captured" =>
    /\ hold[c] = "succeeded"
    /\ recorded[c] # {} /\ recorded[c] = placed[c] /\ placed[c] \subseteq live[c]
    /\ want[c] = {}

\* B19: compensated means clean.  Of the orders in the row and those only the
\* task knew of none stands, and the customer's money is neither held nor taken,
\* unless by an operator who captured the hold while the saga was in flight.
CompensatedIsClean ==
  \A c \in Undisturbed : status[c] = "compensated" =>
    /\ (recorded[c] \cup placed[c]) \cap live[c] = {}
    /\ \/ hold[c] \in {"none", "canceled"}
       \/ hold[c] = "succeeded" /\ c \in byHand

\* "any marketplace orders placed: MANUAL_REVIEW" (saga.py, timeout policy): a
\* saga with an order on record is never written off as failed.  The recovery
\* at boot says it routes the same way (saga_resume.py:17).
FailedHasNoOrders ==
  \A c \in Undisturbed : status[c] = "failed" => recorded[c] = {}

\* ... and as long as no boot comes between, it is not.
OrdersOutliveDeadline == restarts = 0 => FailedHasNoOrders

\* "Hand it to _compensate so the order is cancelled rather than lost" (saga.py,
\* B19): an order a shop has confirmed to the saga is never silently shipped to a
\* customer who is told that nothing was ordered.
ConfirmedOrdersKept ==
  \A c \in Undisturbed : status[c] = "failed" => placed[c] \cap live[c] = {}

\* B55: the reconciler, for all it acts on rows and answers read before, never
\* cancels the hold of a saga that left the choice to the operator, nor one that
\* somebody still works with.
ReconcilerHandsOff ==
  [][\A c \in Undisturbed : \A ok \in BOOLEAN :
       (\E r \in batch : r.hold = c /\ CancelOrphan(r, ok)) =>
         disposition[c] # "operator_decides" /\ pc[c] = "over"]_vars

\* The reconciler acts on rows fetched some Stripe calls ago, and its update goes
\* to whatever saga is the job's latest by then: of a saga in flight what it read
\* is still so, and the update reaches that saga.
FetchedRowsStillTrue ==
  \A r \in batch : r.status \in InFlightWithHold =>
    r.hold = latest /\ status[r.hold] = r.status

\* The mirror in payment_holds drops a hold from reconciliation only when it is
\* over at Stripe, in the way the row says.  It lies of one kind of hold only: one
\* that an operator captured while the saga was in flight, and that the saga then
\* cancelled, with success as the provider has it (stripe_provider.py:307).
MirrorIsTrue ==
  \A c \in Undisturbed : holdRow[c] \in {"succeeded", "canceled"} =>
    \/ hold[c] = holdRow[c]
    \/ hold[c] = "succeeded" /\ holdRow[c] = "canceled" /\ c \in byHand

\* B4: every checkout reaches a terminal status although shops and Stripe may
\* never answer, because one deadline covers everything the saga awaits, and the
\* reconciler escalates the saga of a task that died.  Only where an operator had
\* captured the hold does it leave such a saga as it is (reconcile.py:262).
EverySagaSettles ==
  \A c \in Checkouts :
    status[c] \in Active ~> \/ status[c] \in Terminal
                            \/ c \in byHand /\ At(c, "over")

\* A hold on record whose saga failed, was compensated or may safely be
\* cancelled does not stay on the customer's card.
OrphanHoldReleased ==
  \A c \in Checkouts :
    /\ holdRow[c] = "requires_capture"
    /\ hold[c] = "requires_capture"
    /\ \/ status[c] \in {"failed", "compensated"}
       \/ status[c] = "manual_review" /\ disposition[c] = "cancel_safe"
    ~> hold[c] # "requires_capture"
=============================================================================
