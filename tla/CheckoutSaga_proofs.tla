------------------------ MODULE CheckoutSaga_proofs ------------------------
(***************************************************************************)
(* Proofs about CheckoutSaga, for every number of checkouts, sellers,      *)
(* retries and restarts, every quote and every set of totals and faults.   *)
(*                                                                         *)
(* Almost everything rests on one fact: whoever works on a checkout works  *)
(* on the job's latest, which is the row his store calls reach.  A handler *)
(* kept by a slow audit row breaks it; then the checkout it comes upon is  *)
(* disturbed, and what is proved is proved of every checkout that is not.  *)
(* AloneWithoutSlowAudit says when none is.                                *)
(***************************************************************************)
EXTENDS CheckoutSaga, TLAPS

\* saga.py:565-566 takes for granted that the handler of a saga that finished in
\* time does nothing: it does if the latest saga is still its own.
LateHandlerAlone == "audit" \notin Faults \/ \A c, d \in Checkouts : c = d

InFlight == {"initiated", "stripe_held"}   \* no order is confirmed to the row
-----------------------------------------------------------------------------
(* What holds whatever the handlers do.                                    *)

\* Store calls find a row once a checkout was confirmed.
RowExists == \A c \in Checkouts : pc[c] # "idle" => latest \in Checkouts

\* A row with a hold id was inserted.
HoldHasRow == \A c \in holdKnown : status[c] # "absent"

\* A stockout is only retried while retries are left.
RetriesLeft == \A c \in Checkouts : pc[c] \in {"recall", "reoptimise"} => retries[c] > 0

TInv == TypeOK /\ RowExists /\ HoldHasRow /\ RetriesLeft

\* Between the drift check and the end of the task the total fits the hold, and
\* before it nothing is placed.
Drifts(c) ==
  /\ placed[c] # {} => total[c] <= Authorized
  /\ pc[c] \in {"idle", "gate", "hold", "record", "held", "drift"} => placed[c] = {}
  /\ pc[c] \in {"order", "checkpoint", "recall", "placed", "capture"} =>
       total[c] <= Authorized

DriftInv == \A c \in Checkouts : Drifts(c)
-----------------------------------------------------------------------------
(* What holds of every checkout, disturbed or not.                         *)

\* No request of c was cut off and may still be executed.
NothingLate(c) == \A q \in late : q[1] # c

\* Nothing exists of a checkout before it is confirmed.
Fresh(c) ==
  pc[c] = "idle" =>
    /\ status[c] = "absent" /\ recorded[c] = {} /\ disposition[c] = "none"
    /\ c \notin holdKnown /\ holdRow[c] = "absent" /\ c \notin aged
    /\ hold[c] = "none" /\ NothingLate(c)

\* The hour, the boot and the tasks.
Timing(c) ==
  /\ c \in aged => pc[c] = "over" \/ phase = "booting"
  /\ phase = "booting" => pc[c] \in {"idle", "over", "resume", "letgo", "verdict"}
  /\ pc[c] = "resume" => phase = "booting"

Base(c) == /\ Fresh(c) /\ Timing(c)
           /\ status[c] \in Active => c = latest
           /\ pc[c] # "idle" => status[c] # "absent"
           /\ c = latest => pc[c] # "idle"

\* Nobody works.
AllDone == \A c \in Checkouts : pc[c] \in {"idle", "over"}

\* Whoever is not the latest and works has disturbed the latest.
Apart == latest \notin disturbed => \A c \in Checkouts : c = latest \/ Quiet(c)

\* When the latest hold has been left alone for an hour nobody works any more.
AgedAlone == latest \in aged /\ phase = "serving" => AllDone

\* What the reconciler read is still so, and its rows are of different holds.
Fetched(r) ==
  /\ pc[r.hold] = "over"
  /\ holdRow[r.hold] = IF r.stripe = "mirrored" THEN "canceled" ELSE "requires_capture"
  /\ r.status = IF r.hold \in holdKnown THEN status[r.hold] ELSE "no_saga"
  /\ r.disposition = disposition[r.hold]
  /\ r.stripe \in {"succeeded", "canceled"} => hold[r.hold] = r.stripe
  /\ r.stripe = "mirrored" => hold[r.hold] = "canceled" /\ r.status \in InFlightWithHold
  /\ r.stripe = "requires_capture" /\ r.hold \notin disturbed =>
       status[r.hold] # "payment_captured"
  /\ r.hold = latest => AllDone
  /\ \A q \in batch : q.hold = r.hold => q = r

BatchInv == /\ \A r \in batch : Fetched(r)
            /\ batch # {} => phase = "serving"

BootInv == phase = "booting" => restarts > 0
-----------------------------------------------------------------------------
(* What each stage of a checkout knows of its row, its hold and its orders, *)
(* as long as nobody else works with its row.                               *)

\* The inner saga, audit row excepted: its row is in flight.
Working == (Awaits \ {"audit"}) \cup {"drift"}

\* The timeout handler, and what the recovery shares with it.
Handling == {"expired", "letgo", "verdict"}

\* Whoever works owns the latest row; only audit rows outlast a verdict, and only
\* the handler that they delay outlasts the next confirmation.
Owns(c) ==
  /\ pc[c] \in Working \cup {"resume"} => c = latest /\ status[c] \in Active
  /\ pc[c] = "letgo" /\ c = latest => status[c] \in Active
  /\ pc[c] \in Handling => c = latest \/ status[c] \notin Active
  /\ pc[c] \in Handling /\ status[c] \notin Active => "audit" \in Faults

\* Nothing of a checkout was cut off while its task runs.
Unbroken(c) == pc[c] \in Working \cup {"audit"} => NothingLate(c)

\* There is a hold, and only an operator can have captured it.
HoldMade(c) == hold[c] # "none" /\ (hold[c] = "succeeded" => c \in byHand)

\* Before the hold is on record.
Opening(c) ==
  /\ pc[c] \in {"gate", "hold"} => holdRow[c] = "absent" /\ hold[c] = "none"
  /\ pc[c] \in {"record", "rollback"} => holdRow[c] = "absent" /\ HoldMade(c)
  /\ pc[c] = "held" => holdRow[c] = "requires_capture" /\ HoldMade(c)
  /\ pc[c] \in {"gate", "hold", "record", "rollback", "held"} =>
       /\ status[c] = "initiated" /\ recorded[c] = {} /\ c \notin holdKnown

\* From then on to the capture or the compensation.
Holding(c) ==
  pc[c] \in {"drift", "order", "checkpoint", "recall", "reoptimise", "placed",
             "capture", "compensate", "release"} =>
    /\ c \in holdKnown
    /\ holdRow[c] = "requires_capture" /\ HoldMade(c)
    /\ IF pc[c] = "capture" THEN status[c] = "orders_placed" ELSE status[c] = "stripe_held"

\* What was ordered, what is on record of it and what of it stands.
Ordering(c) ==
  /\ pc[c] = "drift" => recorded[c] = {}
  /\ pc[c] \in {"order", "recall"} => recorded[c] = placed[c]
  /\ pc[c] \in {"checkpoint", "compensate"} => recorded[c] \subseteq placed[c]
  /\ pc[c] \in {"order", "checkpoint"} => placed[c] \subseteq live[c]
  /\ pc[c] = "checkpoint" => placed[c] # {}
  /\ pc[c] = "release" /\ ~review[c] => (recorded[c] \cup placed[c]) \cap live[c] = {}

Delivered(c) ==
  /\ recorded[c] # {} /\ recorded[c] = placed[c] /\ placed[c] \subseteq live[c]
  /\ want[c] = {} /\ c \in holdKnown

Delivering(c) ==
  /\ pc[c] \in {"placed", "capture"} => Delivered(c)
  /\ pc[c] = "paid" => /\ Delivered(c) /\ hold[c] = "succeeded"
                       /\ status[c] = "orders_placed"
  /\ status[c] = "payment_captured" => Delivered(c) /\ hold[c] = "succeeded"
  /\ status[c] = "orders_placed" => recorded[c] # {}

\* A clean way out: all orders cancelled, nothing pending, the hold not taken but
\* by hand.
Compensated(c) ==
  /\ (recorded[c] \cup placed[c]) \cap live[c] = {}
  /\ hold[c] # "requires_capture" /\ (hold[c] = "succeeded" => c \in byHand)

\* What the next terminal write will be true of.
Judging(c) ==
  c = latest /\ pc[c] \in {"write", "verdict"} =>
    /\ verdict[c].status # "payment_captured"
    /\ verdict[c].status # "manual_review" \/ verdict[c].disposition = "cancel_safe" =>
         status[c] \in InFlight
    /\ verdict[c].status = "failed" /\ restarts = 0 => recorded[c] = {}
    /\ verdict[c].status = "compensated" => pc[c] = "write" /\ Compensated(c)
    /\ verdict[c].disposition # "none" => verdict[c].status = "manual_review"
    /\ verdict[c].disposition = "operator_decides" => c \in holdKnown
    /\ status[c] \in Active \/ verdict[c].status = "manual_review"

LettingGo(c) ==
  c = latest /\ pc[c] = "letgo" => /\ status[c] \in InFlight /\ c \in holdKnown
                                   /\ restarts = 0 => recorded[c] = {}

Settled(c) ==
  /\ disposition[c] # "none" => status[c] = "manual_review"
  /\ disposition[c] = "operator_decides" => c \in holdKnown
  /\ recorded[c] # {} => c \in holdKnown
  /\ status[c] = "failed" /\ restarts = 0 => recorded[c] = {}
  /\ status[c] = "compensated" =>
       Compensated(c) /\ NothingLate(c)

\* Money is taken, or may yet be by a request cut off, only where orders stood
\* and the choice is not the reconciler's.
Money(c) ==
  /\ (hold[c] = "succeeded" /\ c \notin byHand) \/ <<c, "capture">> \in late =>
       /\ status[c] \in {"orders_placed", "payment_captured", "manual_review"}
       /\ disposition[c] # "cancel_safe" /\ c \in holdKnown
  /\ holdRow[c] # "absent" => hold[c] # "none"
  /\ holdRow[c] \in {"succeeded", "canceled"} =>
       \/ hold[c] = holdRow[c]
       \/ hold[c] = "succeeded" /\ holdRow[c] = "canceled" /\ c \in byHand

Stage(c) == /\ Owns(c) /\ Unbroken(c) /\ Opening(c) /\ Holding(c)
            /\ Ordering(c) /\ Delivering(c) /\ Judging(c) /\ LettingGo(c)
            /\ Settled(c) /\ Money(c)

Core == /\ BootInv /\ BatchInv /\ Apart /\ AgedAlone
        /\ \A c \in Checkouts : Base(c)
        /\ \A c \in Undisturbed : Stage(c)

IInv == TInv /\ DriftInv /\ Core
-----------------------------------------------------------------------------
(* Types, rows and retries.                                                *)

Requests     == {"create", "capture", "cancel"} \cup Orders
Stages       == Awaits \cup {"idle", "drift", "expired", "resume", "letgo", "verdict", "over"}
HoldRows     == {"absent", "requires_capture", "succeeded", "canceled", "unknown"}
Holds        == {"none", "requires_capture", "succeeded", "canceled"}
Dispositions == {"none", "cancel_safe", "operator_decides"}
Fetchable    == [hold : Checkouts, stripe : {"unasked", "mirrored"} \cup Holds,
                 status : {"no_saga"} \cup Active \cup Terminal,
                 disposition : Dispositions]

\* TypeOK, by the parts of the state that change together.
PcType      == pc \in [Checkouts -> Stages]
VerdictType == verdict \in [Checkouts -> Settling]
RowType     == /\ latest \in Checkouts \cup {"none"}
               /\ status \in [Checkouts -> {"absent"} \cup Active \cup Terminal]
               /\ recorded \in [Checkouts -> SUBSET Orders]
               /\ disposition \in [Checkouts -> Dispositions]
               /\ holdKnown \subseteq Checkouts
MirrorType  == holdRow \in [Checkouts -> HoldRows] /\ aged \subseteq Checkouts
HoldType    == hold \in [Checkouts -> Holds]
LiveType    == live \in [Checkouts -> SUBSET Orders]
LateType    == late \subseteq Checkouts \X Requests
OrderType   == want \in [Checkouts -> SUBSET Orders] /\ placed \in [Checkouts -> SUBSET Orders]
TaskType    == /\ total \in [Checkouts -> Totals \cup {Quote}]
               /\ retries \in [Checkouts -> 0..MaxRetries]
               /\ review \in [Checkouts -> BOOLEAN]
TickType    == batch \subseteq Fetchable /\ seen \subseteq Checkouts
BootType    == /\ phase \in {"serving", "booting"} /\ restarts \in 0..MaxRestarts
               /\ byHand \subseteq Checkouts /\ disturbed \subseteq Checkouts

Types == /\ PcType /\ VerdictType /\ RowType /\ MirrorType /\ HoldType /\ LiveType
         /\ LateType /\ OrderType /\ TaskType /\ TickType /\ BootType

\* The parts are the whole, now and after a step.
LEMMA TypeParts == (TypeOK <=> Types) /\ (TypeOK' <=> Types')
<1>1. {"unasked", "mirrored"} \cup Holds =
        {"unasked", "none", "requires_capture", "succeeded", "canceled", "mirrored"}
  BY DEF Holds
<1>2. Fetchable = [hold : Checkouts,
                   stripe : {"unasked", "none", "requires_capture", "succeeded",
                             "canceled", "mirrored"},
                   status : {"no_saga"} \cup Active \cup Terminal,
                   disposition : {"none", "cancel_safe", "operator_decides"}]
  BY <1>1 DEF Fetchable, Dispositions
<1> QED
  BY <1>2, Zenon DEF TypeOK, Types, PcType, VerdictType, RowType, MirrorType, HoldType,
     LiveType, LateType, OrderType, TaskType, TickType, BootType, Requests, Stages,
     HoldRows, Holds, Dispositions

\* What a step of the control does to pc.
LEMMA GotoType ==
  ASSUME PcType, NEW c \in Checkouts, NEW p \in Stages, Goto(c, p)
  PROVE  PcType' /\ pc'[c] = p /\ \A d \in Checkouts \ {c} : pc'[d] = pc[d]
BY DEF PcType, Goto

\* ... and a settlement to the verdict as well.
LEMMA SettleType ==
  ASSUME PcType, VerdictType, NEW c \in Checkouts, NEW p \in Stages,
         NEW s \in Terminal, NEW d \in Dispositions, Settle(c, p, s, d)
  PROVE  /\ PcType' /\ pc'[c] = p /\ \A e \in Checkouts \ {c} : pc'[e] = pc[e]
         /\ VerdictType' /\ verdict'[c] = [status |-> s, disposition |-> d]
         /\ \A e \in Checkouts \ {c} : verdict'[e] = verdict[e]
<1>1. [status |-> s, disposition |-> d] \in Settling
  BY DEF Settling, Dispositions
<1>2. verdict' = [verdict EXCEPT ![c] = [status |-> s, disposition |-> d]]
  BY DEF Settle
<1>3. Goto(c, p)
  BY DEF Settle
<1> QED
  BY <1>1, <1>2, <1>3, GotoType DEF VerdictType

\* What is asked of the outside is a request, what is being cancelled an order.
LEMMA AskedType ==
  ASSUME OrderType, RowType, RowExists, NEW c \in Checkouts
  PROVE  Asked(c) \subseteq Checkouts \X Requests
BY DEF OrderType, RowType, RowExists, Asked, At, Requests

\* What a release makes of the hold and of its mirror.
LEMMA CancelHoldType ==
  ASSUME HoldType, MirrorType, NEW h, NEW ok \in BOOLEAN, CancelHold(h, ok)
  PROVE  hold' \in [Checkouts -> Holds] /\ holdRow' \in [Checkouts -> HoldRows]
<1>1. hold' \in [Checkouts -> Holds]
  BY DEF CancelHold, Cancelled, HoldType, Holds
<1>2. holdRow' \in [Checkouts -> HoldRows]
  BY DEF CancelHold, MirrorCancel, MirrorType, HoldRows
<1> QED
  BY <1>1, <1>2

\* The initial state.
LEMMA TInit == Init => TInv
BY MoneyAssumption, LimitsAssumption
   DEF Init, TInv, TypeOK, RowExists, HoldHasRow, RetriesLeft, NoVerdict, Settling,
       Terminal, Clean

\* The types, the row and the retries through a step of the saga's task.
LEMMA TSaga ==
  ASSUME Types, RowExists, HoldHasRow, RetriesLeft, NEW c \in Checkouts, Saga(c)
  PROVE  Types' /\ RowExists' /\ HoldHasRow' /\ RetriesLeft'
<1> DEFINE Moved == /\ PcType' /\ VerdictType' /\ pc'[c] \notin {"idle", "recall", "reoptimise"}
                    /\ \A d \in Checkouts \ {c} : pc'[d] = pc[d]
<1> USE LimitsAssumption
    DEF Types, At, TaskDies, Active, Terminal, Clean, outside, table, locals, process, marks
<1>1. CASE OpenGate(c)
  <2>1. Moved
    BY <1>1, GotoType, SettleType DEF OpenGate, PcType, VerdictType, Stages, Awaits,
       Dispositions
  <2>2. RowType'
    BY <1>1 DEF OpenGate, RowType, RowExists, PcType
  <2>3. /\ MirrorType' /\ HoldType' /\ LiveType' /\ LateType' /\ OrderType' /\ TaskType'
        /\ TickType' /\ BootType'
    BY <1>1 DEF OpenGate, MirrorType, HoldType, LiveType, LateType, OrderType, TaskType,
       TickType, BootType
  <2> QED
    BY <1>1, <2>1, <2>2, <2>3 DEF OpenGate, RowType, RowExists, HoldHasRow, RetriesLeft
<1>2. CASE CreateHold(c)
  <2>1. Moved
    BY <1>2, GotoType, SettleType DEF CreateHold, PcType, VerdictType, Stages, Awaits,
       Dispositions
  <2>2. HoldType'
    BY <1>2 DEF CreateHold, HoldType, Holds
  <2>3. /\ RowType' /\ MirrorType' /\ LiveType' /\ LateType' /\ OrderType' /\ TaskType'
        /\ TickType' /\ BootType'
    BY <1>2 DEF CreateHold, RowType, MirrorType, LiveType, LateType, OrderType, TaskType,
       TickType, BootType
  <2> QED
    BY <1>2, <2>1, <2>2, <2>3 DEF CreateHold, RowType, RowExists, HoldHasRow, RetriesLeft
<1>3. CASE RecordHold(c)
  <2>1. Moved
    BY <1>3, GotoType, SettleType DEF RecordHold, PcType, VerdictType, Stages, Awaits,
       Dispositions
  <2>2. MirrorType'
    BY <1>3 DEF RecordHold, MirrorType, HoldRows
  <2>3. /\ RowType' /\ HoldType' /\ LiveType' /\ LateType' /\ OrderType' /\ TaskType'
        /\ TickType' /\ BootType'
    BY <1>3 DEF RecordHold, RowType, HoldType, LiveType, LateType, OrderType, TaskType,
       TickType, BootType
  <2> QED
    BY <1>3, <2>1, <2>2, <2>3 DEF RecordHold, RowType, RowExists, HoldHasRow, RetriesLeft
<1>4. CASE RollbackHold(c)
  <2>1. Moved
    BY <1>4, GotoType, SettleType DEF RollbackHold, PcType, VerdictType, Stages, Awaits,
       Dispositions
  <2>2. HoldType'
    BY <1>4 DEF RollbackHold, Cancelled, HoldType, Holds
  <2>3. /\ RowType' /\ MirrorType' /\ LiveType' /\ LateType' /\ OrderType' /\ TaskType'
        /\ TickType' /\ BootType'
    BY <1>4 DEF RollbackHold, RowType, MirrorType, LiveType, LateType, OrderType, TaskType,
       TickType, BootType
  <2> QED
    BY <1>4, <2>1, <2>2, <2>3 DEF RollbackHold, RowType, RowExists, HoldHasRow, RetriesLeft
<1>5. CASE CheckpointHold(c)
  <2>1. Moved
    BY <1>5, GotoType, SettleType DEF CheckpointHold, PcType, VerdictType, Stages, Awaits,
       Dispositions
  <2>2. RowType'
    BY <1>5 DEF CheckpointHold, RowType, RowExists, PcType
  <2>3. /\ MirrorType' /\ HoldType' /\ LiveType' /\ LateType' /\ OrderType' /\ TaskType'
        /\ TickType' /\ BootType'
    BY <1>5 DEF CheckpointHold, MirrorType, HoldType, LiveType, LateType, OrderType,
       TaskType, TickType, BootType
  <2> QED
    BY <1>5, <2>1, <2>2, <2>3 DEF CheckpointHold, RowType, RowExists, HoldHasRow,
       RetriesLeft
<1>6. CASE CheckDrift(c)
  <2>1. Moved
    BY <1>6, GotoType, SettleType DEF CheckDrift, PcType, VerdictType, Stages, Awaits,
       Dispositions
  <2>2. /\ RowType' /\ MirrorType' /\ HoldType' /\ LiveType' /\ LateType' /\ OrderType'
        /\ TaskType' /\ TickType' /\ BootType'
    BY <1>6 DEF CheckDrift, RowType, MirrorType, HoldType, LiveType, LateType, OrderType,
       TaskType, TickType, BootType
  <2> QED
    BY <1>6, <2>1, <2>2 DEF CheckDrift, RowType, RowExists, HoldHasRow, RetriesLeft
<1>7. CASE CheckpointOrder(c)
  <2>1. Moved
    BY <1>7, GotoType, SettleType DEF CheckpointOrder, PcType, VerdictType, Stages, Awaits,
       Dispositions, AfterCheckpoint
  <2>2. RowType'
    BY <1>7 DEF CheckpointOrder, RowType, RowExists, PcType, OrderType
  <2>3. /\ MirrorType' /\ HoldType' /\ LiveType' /\ LateType' /\ OrderType' /\ TaskType'
        /\ TickType' /\ BootType'
    BY <1>7 DEF CheckpointOrder, MirrorType, HoldType, LiveType, LateType, OrderType,
       TaskType, TickType, BootType
  <2> QED
    BY <1>7, <2>1, <2>2, <2>3 DEF CheckpointOrder, RowType, RowExists, HoldHasRow,
       RetriesLeft
<1>8. CASE RecallRound(c)
  <2>1. /\ PcType' /\ VerdictType' /\ pc'[c] \notin {"idle", "recall"}
        /\ \A d \in Checkouts \ {c} : pc'[d] = pc[d]
    BY <1>8, GotoType, SettleType DEF RecallRound, PcType, VerdictType, Stages, Awaits,
       Dispositions
  <2>2. LiveType'
    BY <1>8 DEF RecallRound, LiveType, OrderType
  <2>3. /\ RowType' /\ MirrorType' /\ HoldType' /\ LateType' /\ OrderType' /\ TaskType'
        /\ TickType' /\ BootType'
    BY <1>8 DEF RecallRound, RowType, MirrorType, HoldType, LateType, OrderType, TaskType,
       TickType, BootType
  <2> QED
    BY <1>8, <2>1, <2>2, <2>3 DEF RecallRound, RowType, RowExists, HoldHasRow, RetriesLeft
<1>9. CASE Reoptimise(c)
  <2>1. Moved
    BY <1>9, GotoType, SettleType DEF Reoptimise, PcType, VerdictType, Stages, Awaits,
       Dispositions
  <2>2. RowType'
    BY <1>9 DEF Reoptimise, RowType, RowExists, PcType
  <2>3. OrderType'
    BY <1>9 DEF Reoptimise, OrderType, Allocations
  <2>4. TaskType'
    BY <1>9 DEF Reoptimise, TaskType, RetriesLeft
  <2>5. MirrorType' /\ HoldType' /\ LiveType' /\ LateType' /\ TickType' /\ BootType'
    BY <1>9 DEF Reoptimise, MirrorType, HoldType, LiveType, LateType, TickType, BootType
  <2> QED
    BY <1>9, <2>1, <2>2, <2>3, <2>4, <2>5 DEF Reoptimise, RowType, TaskType, RowExists,
       HoldHasRow, RetriesLeft
<1>10. CASE OrdersPlaced(c)
  <2>1. Moved
    BY <1>10, GotoType, SettleType DEF OrdersPlaced, PcType, VerdictType, Stages, Awaits,
       Dispositions
  <2>2. RowType'
    BY <1>10 DEF OrdersPlaced, RowType, RowExists, PcType
  <2>3. /\ MirrorType' /\ HoldType' /\ LiveType' /\ LateType' /\ OrderType' /\ TaskType'
        /\ TickType' /\ BootType'
    BY <1>10 DEF OrdersPlaced, MirrorType, HoldType, LiveType, LateType, OrderType,
       TaskType, TickType, BootType
  <2> QED
    BY <1>10, <2>1, <2>2, <2>3 DEF OrdersPlaced, RowType, RowExists, HoldHasRow, RetriesLeft
<1>11. CASE Capture(c)
  <2>1. Moved
    BY <1>11, GotoType, SettleType DEF Capture, PcType, VerdictType, Stages, Awaits,
       Dispositions
  <2>2. HoldType'
    BY <1>11 DEF Capture, HoldType, Holds
  <2>3. MirrorType'
    BY <1>11 DEF Capture, MirrorType, HoldRows
  <2>4. /\ RowType' /\ LiveType' /\ LateType' /\ OrderType' /\ TaskType' /\ TickType'
        /\ BootType'
    BY <1>11 DEF Capture, RowType, LiveType, LateType, OrderType, TaskType, TickType,
       BootType
  <2> QED
    BY <1>11, <2>1, <2>2, <2>3, <2>4 DEF Capture, RowType, RowExists, HoldHasRow,
       RetriesLeft
<1>12. CASE PaymentCaptured(c)
  <2>1. Moved
    BY <1>12, GotoType, SettleType DEF PaymentCaptured, PcType, VerdictType, Stages, Awaits,
       Dispositions
  <2>2. RowType'
    BY <1>12 DEF PaymentCaptured, RowType, RowExists, PcType
  <2>3. /\ MirrorType' /\ HoldType' /\ LiveType' /\ LateType' /\ OrderType' /\ TaskType'
        /\ TickType' /\ BootType'
    BY <1>12 DEF PaymentCaptured, MirrorType, HoldType, LiveType, LateType, OrderType,
       TaskType, TickType, BootType
  <2> QED
    BY <1>12, <2>1, <2>2, <2>3 DEF PaymentCaptured, RowType, RowExists, HoldHasRow,
       RetriesLeft
<1>13. CASE CancelOrders(c)
  <2>1. Moved
    BY <1>13, GotoType, SettleType DEF CancelOrders, PcType, VerdictType, Stages, Awaits,
       Dispositions
  <2>2. LiveType'
    BY <1>13 DEF CancelOrders, LiveType, OrderType
  <2>3. TaskType'
    BY <1>13 DEF CancelOrders, TaskType, RetriesLeft
  <2>4. /\ RowType' /\ MirrorType' /\ HoldType' /\ LateType' /\ OrderType' /\ TickType'
        /\ BootType'
    BY <1>13 DEF CancelOrders, RowType, MirrorType, HoldType, LateType, OrderType, TickType,
       BootType
  <2> QED
    BY <1>13, <2>1, <2>2, <2>3, <2>4 DEF CancelOrders, RowType, RowExists, HoldHasRow,
       RetriesLeft
<1>14. CASE ReleaseHold(c)
  <2>1. Moved
    BY <1>14, GotoType, SettleType DEF ReleaseHold, PcType, VerdictType, Stages, Awaits,
       Dispositions
  <2>2. hold' \in [Checkouts -> Holds] /\ holdRow' \in [Checkouts -> HoldRows]
    BY <1>14, CancelHoldType DEF ReleaseHold
  <2>3. HoldType' /\ MirrorType'
    BY <1>14, <2>2 DEF ReleaseHold, HoldType, MirrorType
  <2>4. /\ RowType' /\ LiveType' /\ LateType' /\ OrderType' /\ TaskType' /\ TickType'
        /\ BootType'
    BY <1>14 DEF ReleaseHold, RowType, LiveType, LateType, OrderType, TaskType, TickType,
       BootType
  <2> QED
    BY <1>14, <2>1, <2>2, <2>3, <2>4 DEF ReleaseHold, RowType, RowExists, HoldHasRow,
       RetriesLeft
<1>15. CASE Audited(c)
  <2>1. Moved
    BY <1>15, GotoType, SettleType DEF Audited, PcType, VerdictType, Stages, Awaits,
       Dispositions
  <2>2. /\ RowType' /\ MirrorType' /\ HoldType' /\ LiveType' /\ LateType' /\ OrderType'
        /\ TaskType' /\ TickType' /\ BootType'
    BY <1>15 DEF Audited, RowType, MirrorType, HoldType, LiveType, LateType, OrderType,
       TaskType, TickType, BootType
  <2> QED
    BY <1>15, <2>1, <2>2 DEF Audited, RowType, RowExists, HoldHasRow, RetriesLeft
<1>16. ASSUME NEW o \in Orders, PlaceOrder(c, o)
       PROVE  Types' /\ RowExists' /\ HoldHasRow' /\ RetriesLeft'
  <2>1. /\ PcType' /\ VerdictType' /\ pc'[c] \notin {"idle", "reoptimise"}
        /\ \A d \in Checkouts \ {c} : pc'[d] = pc[d]
        /\ pc'[c] = "recall" => retries[c] > 0
    BY <1>16, GotoType, SettleType DEF PlaceOrder, PcType, VerdictType, Stages, Awaits,
       Dispositions, NoRetriesLeft, TaskType
  <2>2. LiveType'
    BY <1>16 DEF PlaceOrder, LiveType, OrderType
  <2>3. OrderType'
    BY <1>16 DEF PlaceOrder, OrderType, Allocations
  <2>4. /\ RowType' /\ MirrorType' /\ HoldType' /\ LateType' /\ TaskType' /\ TickType'
        /\ BootType'
    BY <1>16 DEF PlaceOrder, RowType, MirrorType, HoldType, LateType, TaskType, TickType,
       BootType
  <2> QED
    BY <1>16, <2>1, <2>2, <2>3, <2>4 DEF PlaceOrder, RowType, RowExists, HoldHasRow,
       RetriesLeft
<1> QED
  BY <1>1, <1>2, <1>3, <1>4, <1>5, <1>6, <1>7, <1>8, <1>9, <1>10, <1>11, <1>12, <1>13,
     <1>14, <1>15, <1>16 DEF Saga

\* ... of the deadline handler, the recovery at boot, and the terminal write.
LEMMA TRecovery ==
  ASSUME Types, RowExists, HoldHasRow, RetriesLeft, NEW c \in Checkouts,
         Recovery(c) \/ WriteVerdict(c)
  PROVE  Types' /\ RowExists' /\ HoldHasRow' /\ RetriesLeft'
<1> DEFINE Moved == /\ PcType' /\ VerdictType' /\ pc'[c] \notin {"idle", "recall", "reoptimise"}
                    /\ \A d \in Checkouts \ {c} : pc'[d] = pc[d]
<1> USE LimitsAssumption
    DEF Types, At, TaskDies, Active, Terminal, Clean, outside, table, locals, process, marks
<1>1. CASE HandleTimeout(c)
  <2>1. Moved
    BY <1>1, GotoType, SettleType DEF HandleTimeout, PcType, VerdictType, Stages, Awaits,
       Dispositions
  <2>2. /\ RowType' /\ MirrorType' /\ HoldType' /\ LiveType' /\ LateType' /\ OrderType'
        /\ TaskType' /\ TickType' /\ BootType'
    BY <1>1 DEF HandleTimeout, RowType, MirrorType, HoldType, LiveType, LateType, OrderType,
       TaskType, TickType, BootType
  <2> QED
    BY <1>1, <2>1, <2>2 DEF HandleTimeout, RowType, RowExists, HoldHasRow, RetriesLeft
<1>2. CASE Resume(c)
  <2>1. Moved
    BY <1>2, GotoType, SettleType DEF Resume, PcType, VerdictType, Stages, Awaits,
       Dispositions
  <2>2. /\ RowType' /\ MirrorType' /\ HoldType' /\ LiveType' /\ LateType' /\ OrderType'
        /\ TaskType' /\ TickType' /\ BootType'
    BY <1>2 DEF Resume, RowType, MirrorType, HoldType, LiveType, LateType, OrderType,
       TaskType, TickType, BootType
  <2> QED
    BY <1>2, <2>1, <2>2 DEF Resume, RowType, RowExists, HoldHasRow, RetriesLeft
<1>3. CASE LetHoldGo(c)
  <2>1. Moved
    BY <1>3, GotoType, SettleType DEF LetHoldGo, PcType, VerdictType, Stages, Awaits,
       Dispositions
  <2>2. hold' \in [Checkouts -> Holds] /\ holdRow' \in [Checkouts -> HoldRows]
    BY <1>3, CancelHoldType DEF LetHoldGo
  <2>3. HoldType' /\ MirrorType'
    BY <1>3, <2>2 DEF LetHoldGo, HoldType, MirrorType
  <2>4. /\ RowType' /\ LiveType' /\ LateType' /\ OrderType' /\ TaskType' /\ TickType'
        /\ BootType'
    BY <1>3 DEF LetHoldGo, RowType, LiveType, LateType, OrderType, TaskType, TickType,
       BootType
  <2> QED
    BY <1>3, <2>1, <2>2, <2>3, <2>4 DEF LetHoldGo, RowType, RowExists, HoldHasRow,
       RetriesLeft
<1>4. CASE WriteVerdict(c)
  <2>1. Moved
    BY <1>4, GotoType, SettleType DEF WriteVerdict, PcType, VerdictType, Stages, Awaits,
       Dispositions
  <2>2. RowType'
    BY <1>4 DEF WriteVerdict, RowType, RowExists, PcType, VerdictType, Settling,
       Dispositions
  <2>3. /\ MirrorType' /\ HoldType' /\ LiveType' /\ LateType' /\ OrderType' /\ TaskType'
        /\ TickType' /\ BootType'
    BY <1>4 DEF WriteVerdict, MirrorType, HoldType, LiveType, LateType, OrderType, TaskType,
       TickType, BootType
  <2> QED
    BY <1>4, <2>1, <2>2, <2>3 DEF WriteVerdict, VerdictType, Settling, RowType, RowExists,
       HoldHasRow, RetriesLeft
<1> QED
  BY <1>1, <1>2, <1>3, <1>4 DEF Recovery

\* ... of a request confirmed or cut off, and of the clocks and people outside.
LEMMA TOutside ==
  ASSUME Types, RowExists, HoldHasRow, RetriesLeft, NEW c \in Checkouts,
         \/ Confirm(c) \/ Timeout(c) \/ HourPasses(c) \/ OutOfBand(c)
         \/ \E r \in {q[2] : q \in late} : LateLands(c, r)
  PROVE  Types' /\ RowExists' /\ HoldHasRow' /\ RetriesLeft'
<1> DEFINE Moved == /\ PcType' /\ VerdictType' /\ pc'[c] \notin {"idle", "recall", "reoptimise"}
                    /\ \A d \in Checkouts \ {c} : pc'[d] = pc[d]
<1> USE LimitsAssumption
    DEF Types, At, TaskDies, Active, Terminal, Clean, outside, table, locals, process, marks
<1>1. CASE Confirm(c)
  <2>1. Moved
    BY <1>1, GotoType, SettleType DEF Confirm, PcType, VerdictType, Stages, Awaits,
       Dispositions, Fault
  <2>2. RowType'
    BY <1>1 DEF Confirm, RowType, RowExists, PcType
  <2>3. OrderType'
    BY <1>1 DEF Confirm, OrderType, Allocations
  <2>4. /\ MirrorType' /\ HoldType' /\ LiveType' /\ LateType' /\ TaskType' /\ TickType'
        /\ BootType'
    BY <1>1 DEF Confirm, MirrorType, HoldType, LiveType, LateType, TaskType, TickType,
       BootType
  <2> QED
    BY <1>1, <2>1, <2>2, <2>3, <2>4 DEF Confirm, RowType, RowExists, HoldHasRow, RetriesLeft
<1>2. CASE Timeout(c)
  <2>1. Moved
    BY <1>2, GotoType, SettleType DEF Timeout, PcType, VerdictType, Stages, Awaits,
       Dispositions
  <2>2. LiveType'
    BY <1>2 DEF Timeout, LiveType
  <2>3. LateType'
    BY <1>2, AskedType DEF Timeout, LateType, Requests
  <2>4. RowType' /\ MirrorType' /\ HoldType' /\ OrderType' /\ TaskType' /\ TickType'
    BY <1>2 DEF Timeout, RowType, MirrorType, HoldType, OrderType, TaskType, TickType
  <2>5. BootType'
    BY <1>2 DEF Timeout, Disturbs, UnderDeadline, Awaits, RowType, RowExists, BootType
  <2> QED
    BY <1>2, <2>1, <2>2, <2>3, <2>4, <2>5 DEF Timeout, UnderDeadline, Awaits, RowType, RowExists,
       HoldHasRow, RetriesLeft
<1>3. CASE HourPasses(c)
  <2>1. PcType' /\ VerdictType' /\ pc' = pc
    BY <1>3, GotoType, SettleType DEF HourPasses, PcType, VerdictType, Stages, Awaits,
       Dispositions
  <2>2. MirrorType'
    BY <1>3 DEF HourPasses, MirrorType, HoldRows
  <2>3. /\ RowType' /\ HoldType' /\ LiveType' /\ LateType' /\ OrderType' /\ TaskType'
        /\ TickType' /\ BootType'
    BY <1>3 DEF HourPasses, RowType, HoldType, LiveType, LateType, OrderType, TaskType,
       TickType, BootType
  <2> QED
    BY <1>3, <2>1, <2>2, <2>3 DEF HourPasses, RowType, RowExists, HoldHasRow, RetriesLeft
<1>4. CASE OutOfBand(c)
  <2>1. PcType' /\ VerdictType' /\ pc' = pc
    BY <1>4, GotoType, SettleType DEF OutOfBand, PcType, VerdictType, Stages, Awaits,
       Dispositions
  <2>2. HoldType'
    BY <1>4 DEF OutOfBand, HoldType, Holds
  <2>3. /\ RowType' /\ MirrorType' /\ LiveType' /\ LateType' /\ OrderType' /\ TaskType'
        /\ TickType' /\ BootType'
    BY <1>4 DEF OutOfBand, RowType, MirrorType, LiveType, LateType, OrderType, TaskType,
       TickType, BootType
  <2> QED
    BY <1>4, <2>1, <2>2, <2>3 DEF OutOfBand, RowType, RowExists, HoldHasRow, RetriesLeft
<1>5. ASSUME NEW r, LateLands(c, r)
      PROVE  Types' /\ RowExists' /\ HoldHasRow' /\ RetriesLeft'
  <2>1. PcType' /\ VerdictType' /\ pc' = pc
    BY <1>5, GotoType, SettleType DEF LateLands, PcType, VerdictType, Stages, Awaits,
       Dispositions
  <2>2. HoldType'
    BY <1>5 DEF LateLands, HoldType, Holds
  <2>3. LiveType'
    BY <1>5 DEF LateLands, LiveType
  <2>4. LateType'
    BY <1>5 DEF LateLands, LateType
  <2>5. RowType' /\ MirrorType' /\ OrderType' /\ TaskType' /\ TickType' /\ BootType'
    BY <1>5 DEF LateLands, RowType, MirrorType, OrderType, TaskType, TickType, BootType
  <2> QED
    BY <1>5, <2>1, <2>2, <2>3, <2>4, <2>5 DEF LateLands, RowType, RowExists, HoldHasRow,
       RetriesLeft
<1> QED
  BY <1>1, <1>2, <1>3, <1>4, <1>5

\* The reconciler updates a row to a status and takes it out of the aged ones.
LEMMA ReconciledType ==
  ASSUME MirrorType, NEW c \in Checkouts, NEW v \in HoldRows, Reconciled(c, v)
  PROVE  MirrorType'
BY DEF MirrorType, Reconciled

\* What a reconciler knows of a hold.
LEMMA FetchableParts ==
  ASSUME NEW r \in Fetchable
  PROVE  /\ r.hold \in Checkouts /\ r.stripe \in {"unasked", "mirrored"} \cup Holds
         /\ r.status \in {"no_saga"} \cup Active \cup Terminal
         /\ r.disposition \in Dispositions
BY DEF Fetchable

\* ... of a step of the reconciler.
LEMMA TReconcile ==
  ASSUME Types, RowExists, HoldHasRow, RetriesLeft, Reconcile
  PROVE  Types' /\ RowExists' /\ HoldHasRow' /\ RetriesLeft'
<1> USE DEF Types, outside, table, locals, process, marks
<1>1. CASE ReconcileFetch
  <2>1. ASSUME NEW q \in batch' PROVE q \in Fetchable
    <3>1. PICK c \in Candidates :
            q = [hold |-> c, stripe |-> "unasked",
                 status |-> IF c \in holdKnown THEN status[c] ELSE "no_saga",
                 disposition |-> disposition[c]]
      BY <1>1, <2>1 DEF ReconcileFetch
    <3>2. c \in Checkouts /\ disposition[c] \in Dispositions
      BY DEF Candidates, MirrorType, RowType
    <3>3. (IF c \in holdKnown THEN status[c] ELSE "no_saga")
            \in {"no_saga"} \cup Active \cup Terminal
      BY <3>2 DEF HoldHasRow, RowType
    <3> QED
      BY <3>1, <3>2, <3>3 DEF Fetchable
  <2>2. UNCHANGED <<table, outside, pc, locals, seen, process, marks>>
    BY <1>1 DEF ReconcileFetch
  <2> QED
    BY <2>1, <2>2 DEF PcType, VerdictType, RowType, MirrorType, HoldType, LiveType,
       LateType, OrderType, TaskType, TickType, BootType, RowExists, HoldHasRow, RetriesLeft
<1>2. ASSUME NEW r \in batch, AskStripe(r)
      PROVE  Types' /\ RowExists' /\ HoldHasRow' /\ RetriesLeft'
  <2>1. [r EXCEPT !.stripe = hold[r.hold]] \in Fetchable
    <3>1. r \in Fetchable
      BY DEF TickType
    <3>2. hold[r.hold] \in Holds
      BY <3>1, FetchableParts DEF HoldType
    <3> QED
      BY <3>1, <3>2 DEF Fetchable
  <2>2. UNCHANGED <<table, outside, pc, locals, seen, process, marks>>
    BY <1>2 DEF AskStripe
  <2>3. TickType'
    BY <1>2, <2>1 DEF AskStripe, TickType
  <2> QED
    BY <2>2, <2>3 DEF PcType, VerdictType, RowType, MirrorType, HoldType, LiveType,
       LateType, OrderType, TaskType, BootType, RowExists, HoldHasRow, RetriesLeft
<1>3. ASSUME NEW r \in batch, NEW ok \in BOOLEAN,
             DisownHold(r) \/ MirrorTerminal(r) \/ CancelOrphan(r, ok) \/ LeaveHold(r)
      PROVE  Types' /\ RowExists' /\ HoldHasRow' /\ RetriesLeft'
  <2>1. r \in Fetchable /\ r.hold \in Checkouts
    BY FetchableParts DEF TickType
  <2>2. (\E v \in HoldRows : Reconciled(r.hold, v)) \/ UNCHANGED <<holdRow, aged>>
    BY <1>3 DEF DisownHold, MirrorTerminal, CancelOrphan, LeaveHold, AfterFailedCancel,
       HoldRows
  <2>3. MirrorType'
    BY <2>1, <2>2, ReconciledType DEF MirrorType
  <2>4. HoldType'
    BY <1>3 DEF DisownHold, MirrorTerminal, CancelOrphan, LeaveHold, Cancelled, HoldType,
       Holds
  <2>5. [r EXCEPT !.stripe = "mirrored"] \in Fetchable
    BY <2>1 DEF Fetchable
  <2>6. TickType'
    BY <1>3, <2>1, <2>5 DEF DisownHold, MirrorTerminal, CancelOrphan, LeaveHold, TickType
  <2>7. UNCHANGED <<latest, status, recorded, disposition, holdKnown, pc, locals, live,
                    late, process, marks>>
    BY <1>3 DEF DisownHold, MirrorTerminal, CancelOrphan, LeaveHold
  <2> QED
    BY <2>3, <2>4, <2>6, <2>7 DEF PcType, VerdictType, RowType, LiveType, LateType, OrderType,
       TaskType, BootType, RowExists, HoldHasRow, RetriesLeft
<1>4. ASSUME NEW r \in batch, RowFails(r) \/ EscalateReleased(r) \/ EscalateStuck(r)
      PROVE  Types' /\ RowExists' /\ HoldHasRow' /\ RetriesLeft'
  <2>1. r \in Fetchable
    BY DEF TickType
  <2>2. [r EXCEPT !.status = "manual_review"] \in Fetchable
    BY <2>1 DEF Fetchable, Terminal
  <2>3. TickType'
    BY <1>4, <2>1, <2>2 DEF RowFails, EscalateReleased, EscalateStuck, TickType
  <2>4. RowType' /\ HoldHasRow'
    BY <1>4 DEF RowFails, EscalateReleased, EscalateStuck, RowType, HoldHasRow, Terminal
  <2>5. UNCHANGED <<latest, holdRow, aged, hold, pc, locals, live, late, process, marks>>
    BY <1>4 DEF RowFails, EscalateReleased, EscalateStuck
  <2> QED
    BY <2>3, <2>4, <2>5 DEF PcType, VerdictType, MirrorType, HoldType, LiveType, LateType,
       OrderType, TaskType, BootType, RowExists, RetriesLeft
<1> QED
  BY <1>1, <1>2, <1>3, <1>4 DEF Reconcile

\* ... of the death of the process, and of the end of the boot.
LEMMA TBoot ==
  ASSUME Types, RowExists, HoldHasRow, RetriesLeft, Restart \/ Booted
  PROVE  Types' /\ RowExists' /\ HoldHasRow' /\ RetriesLeft'
<1> USE DEF Types, outside, table, locals, process, marks
<1>1. CASE Restart
  <2>1. PcType'
    BY <1>1 DEF Restart, PcType, Stages
  <2>2. LiveType'
    BY <1>1 DEF Restart, LiveType
  <2>3. LateType'
    <3>1. PICK cut \in SUBSET UNION {Asked(c) : c \in Checkouts} : late' = late \cup cut
      BY <1>1 DEF Restart
    <3>2. ASSUME NEW q \in cut PROVE q \in Checkouts \X Requests
      <4>1. PICK c \in Checkouts : q \in Asked(c)
        OBVIOUS
      <4> QED
        BY <4>1, AskedType
    <3> QED
      BY <3>1, <3>2 DEF LateType
  <2>4. TickType'
    BY <1>1 DEF Restart, TickType
  <2>5. BootType'
    BY <1>1, LimitsAssumption DEF Restart, BootType
  <2>6. UNCHANGED <<table, hold, locals, marks>>
    BY <1>1 DEF Restart
  <2>7. RowExists' /\ RetriesLeft'
    BY <1>1 DEF Restart, RowExists, RetriesLeft
  <2> QED
    BY <2>1, <2>2, <2>3, <2>4, <2>5, <2>6, <2>7 DEF VerdictType, RowType, MirrorType,
       HoldType, OrderType, TaskType, HoldHasRow
<1>2. CASE Booted
  BY <1>2 DEF Booted, PcType, VerdictType, RowType, MirrorType, HoldType, LiveType,
     LateType, OrderType, TaskType, TickType, BootType, RowExists, HoldHasRow, RetriesLeft
<1> QED
  BY <1>1, <1>2

\* Together: whatever the handlers do, the state stays well formed.
LEMMA TStep == TInv /\ [Next]_vars => TInv'
<1> SUFFICES ASSUME TInv, [Next]_vars PROVE TInv'
  OBVIOUS
<1>1. Types /\ RowExists /\ HoldHasRow /\ RetriesLeft
  BY TypeParts DEF TInv
<1>2. Types' /\ RowExists' /\ HoldHasRow' /\ RetriesLeft'
  <2>1. CASE UNCHANGED vars
    BY <1>1, <2>1 DEF vars, table, outside, locals, process, marks, Types, PcType, VerdictType,
       RowType, MirrorType, HoldType, LiveType, LateType, OrderType, TaskType, TickType,
       BootType, RowExists, HoldHasRow, RetriesLeft
  <2> QED
    BY <1>1, <2>1, TSaga, TRecovery, TOutside, TReconcile, TBoot DEF Next
<1> QED
  BY <1>2, TypeParts DEF TInv

\* Type correctness: the rows, the mirror, the outside and the tasks keep their
\* shape whatever fails, and no store call meets a job without a row.
THEOREM TypeCorrect == Spec => []TInv
<1>1. TInv /\ [Next]_vars => TInv'
  BY TStep
<1> QED
  BY TInit, <1>1, PTL DEF Spec

\* Every state of the saga is well typed (saga.py, the tables of the store).
THEOREM SagaTypeOK == Spec => []TypeOK
<1>1. TInv => TypeOK
  BY DEF TInv
<1> QED
  BY <1>1, TypeCorrect, PTL
-----------------------------------------------------------------------------
(* The drift check.                                                        *)

\* At first nothing is placed.
LEMMA DriftInit == Init => DriftInv
BY DEF Init, DriftInv, Drifts

\* A round of orders starts below the authorisation and a new total starts with no
\* orders; no other step touches the total or adds an order.
LEMMA DriftStep == Types /\ DriftInv /\ [Next]_vars => DriftInv'
<1> SUFFICES ASSUME Types, DriftInv, [Next]_vars, NEW d \in Checkouts PROVE Drifts(d)'
  BY DEF DriftInv
<1> USE DEF At, Goto, Settle, TaskDies, Drifts, outside, table, locals, process, marks
<1>0. /\ Drifts(d)
      /\ pc \in [Checkouts -> Stages] /\ placed \in [Checkouts -> SUBSET Orders]
      /\ total \in [Checkouts -> Totals \cup {Quote}]
  BY DEF DriftInv, Types, PcType, OrderType, TaskType
<1>1. ASSUME NEW c \in Checkouts, Confirm(c) PROVE Drifts(d)'
  BY <1>0, <1>1 DEF Confirm
<1>2. ASSUME NEW c \in Checkouts, OpenGate(c) \/ CreateHold(c) \/ RecordHold(c)
                                  \/ RollbackHold(c) \/ CheckpointHold(c)
      PROVE  Drifts(d)'
  BY <1>0, <1>2 DEF OpenGate, CreateHold, RecordHold, RollbackHold, CheckpointHold
<1>3. ASSUME NEW c \in Checkouts, CheckDrift(c) PROVE Drifts(d)'
  BY <1>0, <1>3 DEF CheckDrift, FitsHold
<1>4. ASSUME NEW c \in Checkouts, NEW o \in Orders, PlaceOrder(c, o) PROVE Drifts(d)'
  BY <1>0, <1>4 DEF PlaceOrder
<1>5. ASSUME NEW c \in Checkouts, CheckpointOrder(c) PROVE Drifts(d)'
  BY <1>0, <1>5 DEF CheckpointOrder, AfterCheckpoint
<1>6. ASSUME NEW c \in Checkouts, RecallRound(c) PROVE Drifts(d)'
  BY <1>0, <1>6 DEF RecallRound
<1>7. ASSUME NEW c \in Checkouts, Reoptimise(c) PROVE Drifts(d)'
  BY <1>0, <1>7 DEF Reoptimise
<1>8. ASSUME NEW c \in Checkouts, OrdersPlaced(c) PROVE Drifts(d)'
  BY <1>0, <1>8 DEF OrdersPlaced
<1>9. ASSUME NEW c \in Checkouts, \/ Capture(c) \/ PaymentCaptured(c) \/ CancelOrders(c)
                                  \/ ReleaseHold(c) \/ Audited(c) \/ WriteVerdict(c)
      PROVE  Drifts(d)'
  BY <1>0, <1>9 DEF Capture, PaymentCaptured, CancelOrders, ReleaseHold, Audited,
     WriteVerdict
<1>10. ASSUME NEW c \in Checkouts, \/ HandleTimeout(c) \/ Resume(c) \/ LetHoldGo(c)
                                   \/ Timeout(c) \/ HourPasses(c) \/ OutOfBand(c)
      PROVE  Drifts(d)'
  BY <1>0, <1>10 DEF HandleTimeout, Resume, LetHoldGo, Timeout, HourPasses, OutOfBand
<1>11. ASSUME NEW c \in Checkouts, NEW r, LateLands(c, r) PROVE Drifts(d)'
  BY <1>0, <1>11 DEF LateLands
<1>12. CASE Reconcile
  BY <1>0, <1>12 DEF Reconcile, ReconcileFetch, AskStripe, DisownHold, RowFails,
     MirrorTerminal, EscalateReleased, CancelOrphan, EscalateStuck, LeaveHold
<1>13. CASE Restart \/ Booted
  BY <1>0, <1>13 DEF Restart, Booted
<1>14. CASE UNCHANGED vars
  BY <1>0, <1>14 DEF vars
<1> QED
  BY <1>1, <1>2, <1>3, <1>4, <1>5, <1>6, <1>7, <1>8, <1>9, <1>10, <1>11, <1>12, <1>13,
     <1>14 DEF Next, Saga, Recovery

\* B5: no order is placed, and nothing captured, beyond what the hold authorises,
\* for any quote, any totals and any number of stockouts (saga.py, the drift check
\* before each round of orders).
THEOREM DriftIsCaughtEarly == Spec => []OrdersFitHold
<1>1. TInv /\ DriftInv /\ [Next]_vars => DriftInv'
  BY TypeParts, DriftStep DEF TInv
<1>2. DriftInv => OrdersFitHold
  BY DEF DriftInv, Drifts, OrdersFitHold
<1> QED
  BY DriftInit, <1>1, <1>2, TypeCorrect, PTL DEF Spec
-----------------------------------------------------------------------------
(* One checkout at a time.                                                 *)

\* What a step leaves alone of checkout d: all but the task's place and its verdict,
\* or everything.
Kept(d) ==
  /\ status'[d] = status[d] /\ recorded'[d] = recorded[d]
  /\ disposition'[d] = disposition[d] /\ holdRow'[d] = holdRow[d] /\ hold'[d] = hold[d]
  /\ d \in holdKnown' <=> d \in holdKnown
  /\ live'[d] = live[d] /\ want'[d] = want[d] /\ placed'[d] = placed[d]
  /\ review'[d] = review[d]
  /\ d \in byHand' <=> d \in byHand
  /\ \A q \in late' : q[1] = d => q \in late

Aside(d) == Kept(d) /\ pc'[d] = pc[d] /\ verdict'[d] = verdict[d]

\* What stays aside stays as it is, if no newer checkout was confirmed.
LEMMA StageAside ==
  ASSUME NEW d \in Checkouts, Stage(d), Aside(d), UNCHANGED <<latest, restarts>>
  PROVE  Stage(d)'
<1> USE DEF Stage, Aside, Kept
<1>1. Owns(d)'
  BY DEF Owns
<1>2. Unbroken(d)'
  BY DEF Unbroken, NothingLate
<1>3. Opening(d)' /\ Holding(d)'
  BY DEF Opening, Holding, HoldMade
<1>4. Ordering(d)' /\ Delivering(d)'
  BY DEF Ordering, Delivering, Delivered
<1>5. Judging(d)' /\ LettingGo(d)'
  BY DEF Judging, LettingGo, Compensated
<1>6. Settled(d)'
  BY DEF Settled, Compensated, NothingLate
<1>7. Money(d)'
  BY DEF Money
<1> QED
  BY <1>1, <1>2, <1>3, <1>4, <1>5, <1>6, <1>7

\* A step of the task, the handler or the recovery of c: store calls reach the
\* latest row, the rest is c's own.
Stepped(c) ==
  /\ UNCHANGED <<latest, aged, batch, phase, restarts, marks>>
  /\ pc[c] \notin {"idle", "over"} /\ pc'[c] \notin {"idle", "resume"}
  /\ pc[c] = "audit" => pc'[c] = "over" /\ \A d \in Checkouts : Kept(d)
  /\ pc[c] \in Handling \cup {"resume"} =>
       pc'[c] \in {"letgo", "verdict", "over"} /\ (c # latest => Kept(c))
  /\ \A d \in Checkouts \ {c} : pc'[d] = pc[d] /\ verdict'[d] = verdict[d]
  /\ \A d \in Checkouts \ {c, latest} : Kept(d)
  /\ \A d \in Checkouts \ {latest} : status'[d] = status[d]
  /\ \A d \in Checkouts : status[d] # "absent" => status'[d] # "absent"

\* Such a step touches no hold the reconciler has fetched, and no checkout but its
\* own if the latest is not disturbed.
LEMMA OneMoves ==
  ASSUME Types, RowExists, Core, NEW c \in Checkouts, Stepped(c),
         c \in Undisturbed /\ c = latest => Stage(c)'
  PROVE  Core'
<1>1. latest \in Checkouts /\ ~AllDone
  BY DEF Stepped, RowExists, AllDone
<1>2. ASSUME NEW d \in Checkouts PROVE Base(d)'
  <2>1. Base(d) /\ Base(c)
    BY DEF Core
  <2>2. UNCHANGED <<latest, aged, phase>>
    BY DEF Stepped
  <2>3. Fresh(d)'
    <3>1. SUFFICES ASSUME pc'[d] = "idle" PROVE Fresh(d)'
      BY DEF Fresh
    <3>2. d # c /\ pc[d] = "idle" /\ d # latest
      BY <2>1, <3>1 DEF Stepped, Base
    <3>3. Kept(d)
      BY <3>2 DEF Stepped
    <3> QED
      BY <2>1, <2>2, <3>2, <3>3 DEF Base, Fresh, Kept, NothingLate
  <2>4. Timing(d)'
    BY <2>1, <2>2 DEF Base, Timing, Stepped, Handling
  <2>5. /\ status'[d] \in Active => d = latest
        /\ pc'[d] # "idle" => status'[d] # "absent"
        /\ d = latest => pc'[d] # "idle"
    BY <2>1 DEF Base, Stepped
  <2> QED
    BY <2>2, <2>3, <2>4, <2>5 DEF Base
<1>3. Apart'
  <2> SUFFICES ASSUME latest \notin disturbed, NEW d \in Checkouts, d # latest
               PROVE  Quiet(d)'
    BY DEF Apart, Stepped, marks
  <2>1. Quiet(d)
    BY DEF Core, Apart
  <2> QED
    BY <2>1 DEF Quiet, Stepped
<1>4. AgedAlone'
  <2>1. ~(latest \in aged /\ phase = "serving")
    BY <1>1 DEF Core, AgedAlone
  <2> QED
    BY <2>1 DEF AgedAlone, Stepped
<1>5. BatchInv'
  <2>1. ASSUME NEW r \in batch PROVE Fetched(r)'
    <3>1. r.hold \in Checkouts /\ Fetched(r)
      BY FetchableParts DEF Types, TickType, Core, BatchInv
    <3>2. r.hold # c /\ r.hold # latest
      BY <1>1, <3>1 DEF Fetched, Stepped
    <3>3. Kept(r.hold) /\ pc'[r.hold] = pc[r.hold] /\ UNCHANGED <<latest, batch, disturbed>>
      BY <3>1, <3>2 DEF Stepped, marks
    <3> QED
      BY <3>1, <3>2, <3>3 DEF Fetched, Kept
  <2> QED
    BY <2>1 DEF Stepped, Core, BatchInv
<1>6. ASSUME NEW d \in Undisturbed' PROVE Stage(d)'
  <2>1. d \in Checkouts /\ d \in Undisturbed /\ Stage(d)
    BY DEF Undisturbed, Stepped, marks, Core
  <2>2. UNCHANGED <<latest, restarts>>
    BY DEF Stepped
  <2>3. CASE d # c /\ d # latest
    BY <2>1, <2>2, <2>3, StageAside DEF Stepped, Aside
  <2>4. CASE d = latest /\ d # c
    <3>1. pc[c] = "audit"
      BY <2>1, <2>4 DEF Core, Apart, Quiet, Undisturbed, Stepped
    <3> QED
      BY <2>1, <2>2, <2>4, <3>1, StageAside DEF Stepped, Aside
  <2>5. CASE d = c /\ d # latest
    <3>1. pc[c] \in Handling \cup {"audit"}
      BY <2>1, <2>5 DEF Stage, Owns, Stepped, Working, Handling, Types, PcType, Stages, Awaits
    <3>2. /\ Kept(c)
          /\ pc'[c] \in {"letgo", "verdict", "over"} /\ (pc[c] = "audit" => pc'[c] = "over")
      BY <2>5, <3>1 DEF Stepped, Handling
    <3>3. status[c] \notin Active
      BY <2>5 DEF Core, Base
    <3>4. Owns(c)'
      BY <2>1, <2>2, <2>5, <3>1, <3>2, <3>3 DEF Stage, Owns, Kept, Working, Handling, Awaits
    <3>5. Unbroken(c)' /\ Opening(c)' /\ Holding(c)' /\ Ordering(c)'
      BY <3>2 DEF Unbroken, Opening, Holding, Ordering, Working, Awaits
    <3>6. Delivering(c)' /\ Settled(c)' /\ Money(c)'
      BY <2>1, <2>2, <2>5, <3>2 DEF Stage, Delivering, Delivered, Settled, Compensated, Money,
         NothingLate, Kept
    <3>7. Judging(c)' /\ LettingGo(c)'
      BY <2>2, <2>5 DEF Judging, LettingGo
    <3> QED
      BY <2>5, <3>4, <3>5, <3>6, <3>7 DEF Stage
  <2> QED
    BY <2>1, <2>3, <2>4, <2>5
<1>7. BootInv'
  BY DEF Core, BootInv, Stepped
<1> QED
  BY <1>2, <1>3, <1>4, <1>5, <1>6, <1>7 DEF Core

\* What the steps of the task touch.
LEMMA TaskFrame ==
  ASSUME Types, RowExists, NEW c \in Checkouts, Saga(c)
  PROVE  Stepped(c)
<1> USE DEF At, Goto, Settle, TaskDies, table, outside, locals, process, marks, Active,
            Terminal, Clean, Working, Handling, Awaits, InFlight
<1> USE DEF Types, PcType, VerdictType, RowType, MirrorType, HoldType, LiveType, OrderType,
            TaskType, Stepped, Kept
<1>0. pc[c] # "idle" => latest \in Checkouts
  BY DEF RowExists
<1>1. CASE OpenGate(c)
  BY <1>0, <1>1 DEF OpenGate
<1>2. CASE CreateHold(c)
  BY <1>0, <1>2 DEF CreateHold
<1>3. CASE RecordHold(c)
  BY <1>0, <1>3 DEF RecordHold
<1>4. CASE RollbackHold(c)
  BY <1>0, <1>4 DEF RollbackHold, Cancelled
<1>5. CASE CheckpointHold(c)
  BY <1>0, <1>5 DEF CheckpointHold
<1>6. CASE CheckDrift(c)
  BY <1>0, <1>6 DEF CheckDrift, FitsHold
<1>7. CASE CheckpointOrder(c)
  BY <1>0, <1>7 DEF CheckpointOrder, AfterCheckpoint
<1>8. CASE RecallRound(c)
  BY <1>0, <1>8 DEF RecallRound
<1>9. CASE Reoptimise(c)
  BY <1>0, <1>9 DEF Reoptimise
<1>10. CASE OrdersPlaced(c)
  BY <1>0, <1>10 DEF OrdersPlaced
<1>11. CASE Capture(c)
  BY <1>0, <1>11 DEF Capture
<1>12. CASE PaymentCaptured(c)
  BY <1>0, <1>12 DEF PaymentCaptured
<1>13. CASE CancelOrders(c)
  BY <1>0, <1>13 DEF CancelOrders
<1>14. CASE ReleaseHold(c)
  BY <1>0, <1>14 DEF ReleaseHold, CancelHold, Cancelled, MirrorCancel
<1>15. CASE Audited(c)
  BY <1>0, <1>15 DEF Audited
<1>16. ASSUME NEW o \in Orders, PlaceOrder(c, o) PROVE Stepped(c)
  BY <1>0, <1>16 DEF PlaceOrder
<1> QED
  BY <1>1, <1>2, <1>3, <1>4, <1>5, <1>6, <1>7, <1>8, <1>9, <1>10, <1>11, <1>12,
     <1>13, <1>14, <1>15, <1>16 DEF Saga

\* What the handler, the recovery and the terminal write touch.
LEMMA HandlerFrame ==
  ASSUME Types, RowExists, NEW c \in Checkouts, Recovery(c) \/ WriteVerdict(c)
  PROVE  Stepped(c)
<1> USE DEF At, Goto, Settle, TaskDies, table, outside, locals, process, marks, Active,
            Terminal, Clean, Working, Handling, Awaits, InFlight
<1> USE DEF Types, PcType, VerdictType, RowType, MirrorType, HoldType, LiveType, OrderType,
            TaskType, Stepped, Kept
<1>0. pc[c] # "idle" => latest \in Checkouts
  BY DEF RowExists
<1>1. CASE HandleTimeout(c)
  BY <1>0, <1>1 DEF HandleTimeout
<1>2. CASE Resume(c)
  BY <1>0, <1>2 DEF Resume
<1>3. CASE LetHoldGo(c)
  BY <1>0, <1>3 DEF LetHoldGo, CancelHold, Cancelled, MirrorCancel
<1>4. CASE WriteVerdict(c)
  BY <1>0, <1>4 DEF WriteVerdict, Settling
<1> QED
  BY <1>1, <1>2, <1>3, <1>4 DEF Recovery

\* The steps of the task: each makes of its own checkout's stage the next one.
LEMMA TaskStage ==
  ASSUME Types, Core, DriftInv, NEW c \in Checkouts, c \in Undisturbed, c = latest, Saga(c)
  PROVE  Stage(c)'
<1> USE DEF At, Goto, Settle, TaskDies, table, outside, locals, process, marks, Active,
            Terminal, Clean, Working, Handling, Awaits, InFlight
<1> USE DEF Types, PcType, VerdictType, RowType, MirrorType, HoldType, LiveType, OrderType,
            TaskType, BootType, Stage, Owns, Unbroken, NothingLate, Opening, Holding, HoldMade,
            Ordering, Delivering, Delivered, Judging, LettingGo, Settled, Compensated, Money
<1>0. Stage(c) /\ c = latest /\ Base(c)
  BY DEF Core
<1>1. CASE OpenGate(c)
  BY <1>0, <1>1 DEF OpenGate
<1>2. CASE CreateHold(c)
  BY <1>0, <1>2 DEF CreateHold
<1>3. CASE RecordHold(c)
  BY <1>0, <1>3 DEF RecordHold
<1>4. CASE RollbackHold(c)
  BY <1>0, <1>4 DEF RollbackHold, Cancelled
<1>5. CASE CheckpointHold(c)
  BY <1>0, <1>5 DEF CheckpointHold
<1>6. CASE CheckDrift(c)
  <2>1. placed[c] = {}
    BY <1>6 DEF CheckDrift, DriftInv, Drifts
  <2> QED
    BY <1>0, <1>6, <2>1 DEF CheckDrift, FitsHold
<1>7. CASE CheckpointOrder(c)
  BY <1>0, <1>7 DEF CheckpointOrder, AfterCheckpoint
<1>8. CASE RecallRound(c)
  BY <1>0, <1>8 DEF RecallRound
<1>9. CASE Reoptimise(c)
  BY <1>0, <1>9 DEF Reoptimise
<1>10. CASE OrdersPlaced(c)
  BY <1>0, <1>10 DEF OrdersPlaced
<1>11. CASE Capture(c)
  BY <1>0, <1>11 DEF Capture
<1>12. CASE PaymentCaptured(c)
  BY <1>0, <1>12 DEF PaymentCaptured
<1>13. CASE CancelOrders(c)
  <2> DEFINE Read == /\ status[latest] \notin Terminal
                     /\ \E refused \in SUBSET (KnownOrders(c) \cap Shops) :
                          /\ live' = [live EXCEPT ![c] =
                                        @ \ ((KnownOrders(c) \cap Shops) \ refused)]
                          /\ review' = [review EXCEPT ![c] =
                                          refused # {} \/ Lego \in KnownOrders(c)]
                     /\ latest \in holdKnown => Goto(c, "release") /\ UNCHANGED verdict
             Unread == /\ \E refused \in SUBSET (placed[c] \cap Shops) :
                            live' = [live EXCEPT ![c] = @ \ ((placed[c] \cap Shops) \ refused)]
                       /\ Settle(c, "write", "manual_review", "none") /\ UNCHANGED review
  <2>1. /\ status[c] \notin Terminal /\ c \in holdKnown
        /\ UNCHANGED <<table, hold, late, want, placed, process, marks>>
    BY <1>0, <1>13 DEF CancelOrders
  <2>2. ASSUME Read PROVE Stage(c)'
    <3>1. PICK refused \in SUBSET (KnownOrders(c) \cap Shops) :
            /\ live' = [live EXCEPT ![c] = @ \ ((KnownOrders(c) \cap Shops) \ refused)]
            /\ review' = [review EXCEPT ![c] = refused # {} \/ Lego \in KnownOrders(c)]
      BY <2>2
    <3>2. KnownOrders(c) = recorded[c] \cup placed[c] /\ KnownOrders(c) \subseteq Orders
      BY <1>0 DEF KnownOrders
    <3>3. ~review'[c] => KnownOrders(c) \cap live'[c] = {}
      BY <3>1, <3>2 DEF Orders
    <3>4. pc'[c] = "release" /\ UNCHANGED verdict /\ live'[c] \subseteq live[c]
      BY <1>0, <2>1, <2>2, <3>1
    <3> QED
      BY <1>0, <1>13, <2>1, <3>2, <3>3, <3>4 DEF CancelOrders
  <2>3. ASSUME Unread PROVE Stage(c)'
    <3>1. live'[c] \subseteq live[c]
      BY <2>3
    <3> QED
      BY <1>0, <1>13, <2>1, <2>3, <3>1 DEF CancelOrders
  <2> QED
    <3>1. Read \/ Unread
      <4> HIDE DEF Goto, Settle, Terminal, Clean
      <4> QED
        BY <1>0, <1>13, <2>1 DEF CancelOrders
    <3> QED
      BY <2>2, <2>3, <3>1
<1>14. CASE ReleaseHold(c)
  <2>1. pc[c] = "release" /\ pc'[c] = "write" /\ UNCHANGED <<live, late, want, placed, review>>
        /\ UNCHANGED <<latest, status, recorded, disposition, holdKnown, aged, process, marks>>
    BY <1>14 DEF ReleaseHold
  <2>2. status[c] = "stripe_held" /\ holdRow[c] = "requires_capture" /\ HoldMade(c)
    BY <1>0, <2>1
  <2>3. /\ holdRow'[c] # holdRow[c] => holdRow'[c] = "canceled" /\ hold'[c] # "requires_capture"
        /\ hold'[c] # hold[c] => hold[c] = "requires_capture" /\ hold'[c] = "canceled"
    BY <1>0, <1>14 DEF ReleaseHold, CancelHold, Cancelled, MirrorCancel
  <2>4. \/ verdict'[c] = [status |-> "manual_review", disposition |-> "cancel_safe"]
        \/ verdict'[c] = [status |-> "manual_review", disposition |-> "none"]
        \/ /\ verdict'[c] = [status |-> "compensated", disposition |-> "none"]
           /\ ~review[c] /\ hold'[c] # "requires_capture"
    BY <1>0, <1>14 DEF ReleaseHold, CancelHold, Cancelled
  <2>5. hold'[c] \in Holds
    BY <1>0, <1>14 DEF ReleaseHold, CancelHold, Cancelled, Holds
  <2> QED
    BY <1>0, <2>1, <2>2, <2>3, <2>4, <2>5 DEF Holds
<1>15. CASE Audited(c)
  BY <1>0, <1>15 DEF Audited
<1>16. ASSUME NEW o \in Orders, PlaceOrder(c, o) PROVE Stage(c)'
  <2>1. /\ UNCHANGED <<table, hold, late, total, retries, review, seen, process, marks>>
        /\ pc[c] = "order"
    BY <1>16 DEF PlaceOrder
  <2>2. ASSUME live' = [live EXCEPT ![c] = @ \cup {o}],
               placed' = [placed EXCEPT ![c] = @ \cup {o}],
               want' = [want EXCEPT ![c] = @ \ {o}],
               Goto(c, "checkpoint"), UNCHANGED verdict
        PROVE  Stage(c)'
    BY <1>0, <2>1, <2>2
  <2>3. ASSUME pc[c] = "order", UNCHANGED <<live, placed, want, verdict>>,
               Goto(c, IF o = Lego \/ NoRetriesLeft(c) THEN "compensate" ELSE "recall")
        PROVE  Stage(c)'
    BY <1>0, <2>1, <2>3
  <2>4. ASSUME Settle(c, "write", "manual_review", "operator_decides"),
               UNCHANGED <<live, placed, want>>
        PROVE  Stage(c)'
    BY <1>0, <2>1, <2>4
  <2>5. ASSUME Goto(c, "compensate"), UNCHANGED <<placed, want, verdict>>,
               \E reached \in SUBSET {o} : live' = [live EXCEPT ![c] = @ \cup reached]
        PROVE  Stage(c)'
    BY <1>0, <2>1, <2>5
  <2> QED
    <3> HIDE DEF Goto, Settle
    <3> QED
      BY <1>16, <2>1, <2>2, <2>3, <2>4, <2>5 DEF PlaceOrder
<1> QED
  BY <1>1, <1>2, <1>3, <1>4, <1>5, <1>6, <1>7, <1>8, <1>9, <1>10, <1>11, <1>12, <1>13,
     <1>14, <1>15, <1>16 DEF Saga

\* The handler, the recovery and the terminal write: all of the job's latest.
LEMMA HandlerStage ==
  ASSUME Types, Core, NEW c \in Checkouts, c \in Undisturbed, c = latest,
         Recovery(c) \/ WriteVerdict(c)
  PROVE  Stage(c)'
<1> USE DEF At, Goto, Settle, TaskDies, table, outside, locals, process, marks, Active,
            Terminal, Clean, Working, Handling, Awaits, InFlight
<1> USE DEF Types, PcType, VerdictType, RowType, MirrorType, HoldType, LiveType, OrderType,
            TaskType, BootType, Stage, Owns, Unbroken, NothingLate, Opening, Holding, HoldMade,
            Ordering, Delivering, Delivered, Judging, LettingGo, Settled, Compensated, Money
<1>0. Stage(c) /\ c = latest /\ Base(c)
  BY DEF Core
<1>1. CASE HandleTimeout(c)
  BY <1>0, <1>1 DEF HandleTimeout, FinishedInTime, OrdersRecorded, Base
<1>2. CASE Resume(c)
  <2>1. phase = "booting" /\ restarts # 0
    BY <1>0, <1>2 DEF Resume, Core, BootInv, Base, Timing
  <2> QED
    BY <1>0, <1>2, <2>1 DEF Resume
<1>3. CASE LetHoldGo(c)
  <2>1. /\ (hold[c] = "succeeded" => c \in byHand) /\ <<c, "capture">> \notin late
        /\ holdRow[c] # "absent" => hold[c] # "none"
    BY <1>0, <1>3 DEF LetHoldGo
  <2>2. /\ holdRow'[c] # holdRow[c] =>
             /\ holdRow'[c] = "canceled" /\ holdRow[c] # "absent"
             /\ hold'[c] = "canceled" \/ (hold'[c] = "succeeded" /\ c \in byHand)
        /\ hold'[c] # hold[c] => hold[c] = "requires_capture" /\ hold'[c] = "canceled"
    BY <1>0, <1>3, <2>1 DEF LetHoldGo, CancelHold, Cancelled, MirrorCancel, Holds
  <2>3. \/ verdict'[c] = [status |-> "failed", disposition |-> "none"]
        \/ verdict'[c] = [status |-> "manual_review", disposition |-> "cancel_safe"]
    BY <1>3 DEF LetHoldGo
  <2>4. pc[c] = "letgo" /\ pc'[c] = "verdict" /\ UNCHANGED <<live, late, want, placed, review>>
        /\ UNCHANGED <<latest, status, recorded, disposition, holdKnown, aged, process, marks>>
    BY <1>3 DEF LetHoldGo
  <2> QED
    BY <1>0, <2>1, <2>2, <2>3, <2>4
<1>4. CASE WriteVerdict(c)
  <2>1. verdict[c].status \in Terminal /\ verdict[c].disposition \in Dispositions
    BY DEF Settling, Dispositions
  <2>2. /\ UNCHANGED <<recorded, holdKnown, holdRow, aged, outside, locals, process, marks>>
        /\ \/ /\ status'[c] = verdict[c].status /\ disposition'[c] = verdict[c].disposition
              /\ \/ pc[c] = "write" /\ pc'[c] = "audit"
                 \/ pc[c] = "verdict" /\ pc'[c] = "over"
           \/ /\ pc'[c] = "over" /\ pc[c] \in {"write", "verdict"}
              /\ UNCHANGED <<status, disposition>>
    BY <1>0, <1>4 DEF WriteVerdict
  <2> QED
    BY <1>0, <2>1, <2>2 DEF Dispositions
<1> QED
  BY <1>1, <1>2, <1>3, <1>4 DEF Recovery

\* What a task cut off has asked for goes to its own hold and orders, unless it has
\* disturbed the checkout whose hold it was to release.
LEMMA AskedIsOwn ==
  ASSUME Types, Core, NEW d \in Checkouts, d \in Undisturbed, NEW e \in Checkouts,
         NEW q \in Asked(e), q[1] = d
  PROVE  /\ e = d /\ status[d] \in {"initiated", "stripe_held", "orders_placed"}
         /\ pc[d] \in {"hold", "capture", "rollback", "release", "letgo", "order"}
         /\ q = <<d, "capture">> => pc[d] = "capture"
<1>1. /\ pc[e] \in {"hold", "capture", "rollback", "release", "letgo", "order"}
      /\ e # d => d = latest
      /\ pc[e] \in {"release", "letgo"} => d = latest
      /\ q = <<d, "capture">> => pc[e] = "capture"
  BY NamesAssumption DEF Asked, At, Orders, Lego, Types, OrderType
<1>2. e = d
  BY <1>1 DEF Core, Apart, Quiet, Undisturbed
<1>3. Stage(d)
  BY DEF Core
<1> QED
  BY <1>1, <1>2, <1>3 DEF Stage, Owns, Working, Awaits, Active

\* The deadline.  Only an audit row that is too slow outlasts a verdict, and then the
\* handler disturbs the checkout confirmed meanwhile.
LEMMA TimeoutStep ==
  ASSUME Types, RowExists, Core, NEW c \in Checkouts, Timeout(c)
  PROVE  Core'
<1> USE DEF At, Goto, table, outside, locals, process, marks, Active, Terminal, Clean, Working,
            Handling, Awaits, InFlight
<1>1. /\ pc[c] \in Awaits /\ latest \in Checkouts /\ ~AllDone
      /\ UNCHANGED <<table, hold, locals, batch, process, byHand>>
      /\ pc'[c] = "expired" /\ \A d \in Checkouts \ {c} : pc'[d] = pc[d]
  BY DEF Timeout, UnderDeadline, RowExists, AllDone, Types, PcType
<1>2. /\ disturbed \subseteq disturbed'
      /\ c = latest \/ latest \in disturbed'
  BY DEF Timeout, Disturbs
<1>3. \A q \in late' : q \in late \/ q \in Asked(c)
  BY DEF Timeout
<1>4. /\ live'[c] \subseteq live[c]
      /\ pc[c] \notin {"recall", "compensate"} => live'[c] = live[c]
      /\ \A d \in Checkouts \ {c} : live'[d] = live[d]
  BY DEF Timeout, Cancelling, Types, LiveType
<1>5. ASSUME NEW d \in Checkouts PROVE Base(d)'
  <2>1. Base(d) /\ Base(c)
    BY DEF Core
  <2>2. Fresh(d)'
    <3>1. SUFFICES ASSUME pc'[d] = "idle" PROVE Fresh(d)'
      BY DEF Fresh
    <3>2. d # c /\ pc[d] = "idle" /\ d # latest
      BY <1>1, <2>1, <3>1 DEF Base
    <3>3. \A q \in Asked(c) : q[1] # d
      BY <3>2 DEF Asked
    <3>4. NothingLate(d)'
      BY <1>3, <2>1, <3>2, <3>3 DEF Base, Fresh, NothingLate
    <3> QED
      BY <1>1, <2>1, <3>2, <3>4 DEF Base, Fresh
  <2>3. Timing(d)'
    BY <1>1, <2>1 DEF Base, Timing
  <2> QED
    BY <1>1, <2>1, <2>2, <2>3 DEF Base
<1>6. Apart'
  BY <1>1, <1>2 DEF Core, Apart, Quiet
<1>7. AgedAlone'
  BY <1>1 DEF Core, AgedAlone
<1>8. BatchInv'
  <2>1. ASSUME NEW r \in batch PROVE Fetched(r)'
    <3>1. r.hold \in Checkouts /\ Fetched(r)
      BY FetchableParts DEF Types, TickType, Core, BatchInv
    <3>2. r.hold # c /\ r.hold # latest
      BY <1>1, <3>1 DEF Fetched
    <3> QED
      BY <1>1, <1>2, <3>1, <3>2 DEF Fetched
  <2> QED
    BY <1>1, <2>1 DEF Core, BatchInv
<1>9. ASSUME NEW d \in Checkouts, d \in Undisturbed' PROVE Stage(d)'
  <2>1. d \in Undisturbed /\ Stage(d) /\ Base(d)
    BY <1>2, <1>9 DEF Undisturbed, Core
  <2>2. CASE d # c
    <3>1. \A q \in late' : q[1] = d => q \in late
      BY <1>3, <2>1, <2>2, AskedIsOwn
    <3>2. Aside(d)
      BY <1>1, <1>4, <2>2, <3>1 DEF Aside, Kept
    <3> QED
      BY <1>1, <2>1, <3>2, StageAside
  <2>3. CASE d = c
    <3>1. pc[c] = "audit" => "audit" \in Faults
      BY DEF Timeout, Fault
    <3>2. c # latest => pc[c] = "audit"
      BY <1>1, <2>1, <2>3 DEF Stage, Owns
    <3>3. \A q \in late' : q[1] = c => q \in late \/ status[c] \in Active
      BY <1>3, <2>1, <2>3, AskedIsOwn
    <3>4. <<c, "capture">> \in late' => <<c, "capture">> \in late \/ pc[c] = "capture"
      BY <1>3, <2>1, <2>3, AskedIsOwn
    <3>5. Stage(c)'
      BY <1>1, <1>4, <2>1, <2>3, <3>1, <3>2, <3>3, <3>4 DEF Base, Stage, Owns, Unbroken,
         NothingLate, Opening, Holding, HoldMade, Ordering, Delivering, Delivered, Judging,
         LettingGo, Settled, Compensated, Money
    <3> QED
      BY <2>3, <3>5
  <2> QED
    BY <2>2, <2>3
<1> QED
  BY <1>1, <1>5, <1>6, <1>7, <1>8, <1>9 DEF Core, BootInv, Undisturbed

\* A confirmation: the checkouts before it have settled, and if a handler is left of
\* one of them the new one is disturbed.
LEMMA ConfirmStep ==
  ASSUME Types, Core, NEW c \in Checkouts, Confirm(c)
  PROVE  Core'
<1> USE DEF At, Goto, table, outside, locals, process, marks, Active, Terminal, Clean, Working,
            Handling, Awaits, InFlight
<1>1. /\ UNCHANGED <<recorded, disposition, holdKnown, holdRow, aged, outside, placed, review,
                     verdict, batch, process, byHand>>
      /\ pc[c] = "idle" /\ pc'[c] = "gate" /\ \A d \in Checkouts \ {c} : pc'[d] = pc[d]
      /\ phase = "serving" /\ latest' = c
      /\ status'[c] = "initiated" /\ \A d \in Checkouts \ {c} : status'[d] = status[d]
      /\ \A d \in Checkouts \ {c} : want'[d] = want[d]
  BY DEF Confirm, Types, PcType, RowType, OrderType
<1>2. \A d \in Checkouts : status[d] \notin Active
  BY DEF Confirm, NoActiveSaga
<1>3. /\ disturbed \subseteq disturbed'
      /\ c \in disturbed' \/ \A d \in Checkouts : Quiet(d)
  BY DEF Confirm
<1>4. ASSUME NEW d \in Checkouts PROVE Base(d)'
  <2>1. Base(d)
    BY DEF Core
  <2> QED
    BY <1>1, <1>2, <2>1 DEF Base, Fresh, Timing, NothingLate
<1>5. Apart'
  BY <1>1, <1>3 DEF Apart, Quiet
<1>6. AgedAlone'
  <2>1. c \notin aged
    BY <1>1 DEF Core, Base, Fresh
  <2> QED
    BY <1>1, <2>1 DEF AgedAlone
<1>7. BatchInv'
  <2>1. ASSUME NEW r \in batch PROVE Fetched(r)'
    <3>1. r.hold \in Checkouts /\ Fetched(r)
      BY FetchableParts DEF Types, TickType, Core, BatchInv
    <3>2. r.hold # c
      BY <1>1, <3>1 DEF Fetched
    <3> QED
      BY <1>1, <1>3, <3>1, <3>2 DEF Fetched
  <2> QED
    BY <1>1, <2>1 DEF Core, BatchInv
<1>8. ASSUME NEW d \in Checkouts, d \in Undisturbed' PROVE Stage(d)'
  <2>1. Stage(d) /\ Base(d)
    BY <1>3, <1>8 DEF Undisturbed, Core
  <2>2. CASE d # c
    BY <1>1, <1>2, <2>1, <2>2 DEF Stage, Owns, Unbroken, NothingLate, Opening, Holding,
       HoldMade, Ordering, Delivering, Delivered, Judging, LettingGo, Settled, Compensated,
       Money
  <2>3. CASE d = c
    BY <1>1, <2>1, <2>3 DEF Base, Fresh, Stage, Owns, Unbroken, NothingLate, Opening, Holding,
       Ordering, Delivering, Judging, LettingGo, Settled, Money
  <2> QED
    BY <2>2, <2>3
<1> QED
  BY <1>1, <1>4, <1>5, <1>6, <1>7, <1>8 DEF Core, BootInv, Undisturbed

\* What stays aside outside its task stays founded, and its row stays in the batch as
\* it was fetched.
LEMMA BaseAside ==
  ASSUME NEW d \in Checkouts, Base(d), Aside(d), d \in aged' => d \in aged,
         UNCHANGED <<latest, phase>>
  PROVE  Base(d)'
BY DEF Base, Fresh, Timing, NothingLate, Aside, Kept

LEMMA BatchAside ==
  ASSUME BatchInv, batch' \subseteq batch, UNCHANGED <<latest, phase, pc, disturbed>>,
         \A r \in batch' : Aside(r.hold)
  PROVE  BatchInv'
BY DEF BatchInv, Fetched, Aside, Kept, AllDone

\* The clock, the operator and requests that land late do nothing to a row.
LEMMA OutsideStep ==
  ASSUME Types, RowExists, Core, NEW c \in Checkouts,
         \/ HourPasses(c) \/ OutOfBand(c)
         \/ \E r \in {q[2] : q \in late} : LateLands(c, r)
  PROVE  Core'
<1> USE DEF At, table, outside, locals, process, marks, Active, Terminal, Clean, Working,
            Handling, Awaits, InFlight
<1>1. UNCHANGED <<latest, status, recorded, disposition, holdKnown, holdRow, pc, locals, batch,
                  process, disturbed>>
  BY DEF HourPasses, OutOfBand, LateLands
<1>2. \A d \in Checkouts \ {c} : Aside(d)
  BY <1>1 DEF HourPasses, OutOfBand, LateLands, Aside, Kept, Types, HoldType, LiveType, LateType
<1>3. /\ late' \subseteq late /\ live[c] \subseteq live'[c]
      /\ live'[c] # live[c] \/ late' # late => ~NothingLate(c)
      /\ hold'[c] # hold[c] => hold[c] # "none" \/ ~NothingLate(c)
      /\ byHand \subseteq byHand'
      /\ aged' # aged => aged' = aged \cup {c} /\ LongOver(c)
  BY DEF HourPasses, OutOfBand, LateLands, NothingLate, Types, LiveType, HoldType
<1>4. ASSUME NEW d \in Checkouts PROVE Base(d)'
  BY <1>1, <1>2, <1>3 DEF Core, Base, Fresh, Timing, NothingLate, Aside, Kept, LongOver
<1>5. Apart'
  BY <1>1 DEF Core, Apart, Quiet
<1>6. AgedAlone'
  BY <1>1, <1>3 DEF Core, AgedAlone, AllDone, LongOver
<1>7. BatchInv'
  <2>1. \A d \in Checkouts : hold[d] \in {"succeeded", "canceled"} => hold'[d] = hold[d]
    BY DEF HourPasses, OutOfBand, LateLands, Types, HoldType
  <2>2. \A r \in batch : r.hold \in Checkouts
    BY FetchableParts DEF Types, TickType
  <2> QED
    BY <1>1, <2>1, <2>2 DEF Core, BatchInv, Fetched, AllDone
<1>8. ASSUME c \in Undisturbed PROVE Stage(c)'
  <2>0. Stage(c) /\ Base(c)
    BY <1>8 DEF Core, Undisturbed
  <2>1. CASE HourPasses(c)
    BY <2>0, <2>1, <1>1 DEF HourPasses, Stage, Owns, Unbroken, NothingLate,
       Opening, Holding, HoldMade, Ordering, Delivering, Delivered, Judging, LettingGo, Settled,
       Compensated, Money
  <2>2. CASE OutOfBand(c)
    <3>1. /\ hold[c] = "requires_capture" /\ hold'[c] \in {"canceled", "succeeded"}
          /\ \/ hold'[c] = "canceled" \/ c \in byHand'
             \/ status[c] = "manual_review" /\ disposition[c] = "operator_decides"
          /\ byHand \subseteq byHand'
          /\ UNCHANGED <<live, late>>
      BY <2>2 DEF OutOfBand, Types, HoldType
    <3>2. Owns(c)' /\ Unbroken(c)' /\ Ordering(c)' /\ Delivering(c)' /\ LettingGo(c)'
      BY <1>1, <2>0, <3>1 DEF Stage, Owns, Unbroken, NothingLate, Ordering, Delivering,
         Delivered, LettingGo
    <3>3. Opening(c)' /\ Holding(c)'
      BY <1>1, <2>0, <3>1 DEF Stage, Owns, Opening, Holding, HoldMade
    <3>4. Judging(c)' /\ Settled(c)'
      BY <1>1, <2>0, <3>1 DEF Stage, Judging, Settled, Compensated
    <3>5. Money(c)'
      BY <1>1, <2>0, <3>1 DEF Stage, Money, Settled
    <3> QED
      BY <3>2, <3>3, <3>4, <3>5 DEF Stage
  <2>3. ASSUME NEW r, LateLands(c, r) PROVE Stage(c)'
    <3>1. ~NothingLate(c) /\ late' \subseteq late /\ live[c] \subseteq live'[c]
      BY <2>3 DEF LateLands, NothingLate, Types, LiveType
    <3>2. /\ hold'[c] # hold[c] => hold[c] \in {"none", "requires_capture"} /\ hold'[c] # "none"
          /\ hold'[c] = "succeeded" => hold[c] = "succeeded" \/ <<c, "capture">> \in late
      BY <2>3 DEF LateLands, Types, HoldType, Holds
    <3>3. /\ pc[c] \notin Working \cup {"audit", "idle"} /\ status[c] # "compensated"
          /\ UNCHANGED <<latest, status, recorded, disposition, holdKnown, holdRow, aged, pc,
                         locals, process, byHand>>
      BY <1>1, <2>0, <2>3, <3>1 DEF LateLands, Base, Stage, Fresh, Unbroken, Settled
    <3>4. Owns(c)' /\ Unbroken(c)' /\ Opening(c)' /\ Holding(c)' /\ Ordering(c)'
          /\ LettingGo(c)'
      BY <2>0, <3>3 DEF Stage, Owns, Unbroken, Opening, Holding, Ordering, LettingGo
    <3>5. Delivering(c)'
      BY <2>0, <3>1, <3>2, <3>3 DEF Stage, Delivering, Delivered
    <3>6. Judging(c)'
      BY <2>0, <3>3 DEF Stage, Judging
    <3>7. Settled(c)' /\ Money(c)'
      BY <2>0, <3>1, <3>2, <3>3 DEF Stage, Settled, Money
    <3> QED
      BY <3>4, <3>5, <3>6, <3>7 DEF Stage
  <2> QED
    BY <2>1, <2>2, <2>3
<1>9. ASSUME NEW d \in Checkouts, d \in Undisturbed' PROVE Stage(d)'
  BY <1>1, <1>2, <1>8, <1>9, StageAside DEF Core, Undisturbed
<1> QED
  BY <1>1, <1>4, <1>5, <1>6, <1>7, <1>9 DEF Core, BootInv, Undisturbed

\* A tick that reads, rows or Stripe, or that fails at a row, leaves every checkout as
\* it is.
LEMMA ReadStep ==
  ASSUME Types, HoldHasRow, Core,
         ReconcileFetch \/ \E r \in batch : AskStripe(r) \/ RowFails(r)
  PROVE  Core'
<1> USE DEF table, outside, locals, process, marks
<1>1. UNCHANGED <<table, outside, pc, locals, process, marks>>
  BY DEF ReconcileFetch, AskStripe, RowFails
<1>2. \A c \in Checkouts : Aside(c)
  BY <1>1 DEF Aside, Kept
<1>3. \A c \in Checkouts : Base(c)'
  BY <1>1, <1>2, BaseAside DEF Core
<1>4. \A c \in Undisturbed' : Stage(c)'
  BY <1>1, <1>2, StageAside DEF Core, Undisturbed
<1>5. BootInv' /\ Apart' /\ AgedAlone'
  BY <1>1 DEF Core, BootInv, Apart, Quiet, AgedAlone, AllDone
<1>6. CASE ReconcileFetch
  <2>1. ASSUME NEW r \in batch' PROVE Fetched(r)'
    <3>1. PICK c \in Candidates :
            r = [hold |-> c, stripe |-> "unasked",
                 status |-> IF c \in holdKnown THEN status[c] ELSE "no_saga",
                 disposition |-> disposition[c]]
      BY <1>6, <2>1 DEF ReconcileFetch
    <3>2. c \in Checkouts /\ c \in aged /\ holdRow[c] = "requires_capture" /\ phase = "serving"
      BY <1>6 DEF ReconcileFetch, Candidates, Types, MirrorType
    <3>3. pc[c] = "over" /\ (c = latest => AllDone)
      BY <3>2 DEF Core, Base, Timing, AgedAlone
    <3>4. ASSUME NEW q \in batch', q.hold = r.hold PROVE q = r
      <4>1. PICK d \in Candidates :
              q = [hold |-> d, stripe |-> "unasked",
                   status |-> IF d \in holdKnown THEN status[d] ELSE "no_saga",
                   disposition |-> disposition[d]]
        BY <1>6, <3>4 DEF ReconcileFetch
      <4> QED
        BY <3>1, <3>4, <4>1
    <3>5. r.hold = c /\ r.stripe = "unasked" /\ r.disposition = disposition[c]
          /\ r.status = IF c \in holdKnown THEN status[c] ELSE "no_saga"
      BY <3>1
    <3> QED
      BY <1>1, <3>2, <3>3, <3>4, <3>5 DEF Fetched, AllDone
  <2>2. phase' = "serving"
    BY <1>6 DEF ReconcileFetch
  <2> QED
    BY <1>3, <1>4, <1>5, <2>1, <2>2 DEF Core, BatchInv
<1>7. ASSUME NEW r \in batch, AskStripe(r) PROVE Core'
  <2>0. PICK asked : asked = [r EXCEPT !.stripe = hold[r.hold]]
    OBVIOUS
  <2>1. r \in Fetchable /\ r.hold \in Checkouts
    BY FetchableParts DEF Types, TickType
  <2>2. asked.hold = r.hold /\ asked.stripe = hold[r.hold] /\ asked.status = r.status
        /\ asked.disposition = r.disposition
    BY <2>0, <2>1 DEF Fetchable
  <2>3. batch' \subseteq (batch \ {r}) \cup {asked} /\ r.stripe = "unasked"
    BY <1>7, <2>0 DEF AskStripe
  <2>4. Fetched(r) /\ \A q \in batch \ {r} : Fetched(q) /\ q.hold # r.hold
    BY DEF Core, BatchInv, Fetched
  <2>5. /\ hold[r.hold] = "requires_capture" /\ r.hold \notin disturbed =>
             status[r.hold] # "payment_captured"
        /\ hold[r.hold] \in Holds
    BY <2>1 DEF Core, Stage, Delivering, Undisturbed, Types, HoldType
  <2>6. Fetched(asked)'
    BY <1>1, <2>2, <2>3, <2>4, <2>5 DEF Fetched, AllDone, Holds
  <2>7. ASSUME NEW q \in batch \ {r} PROVE Fetched(q)'
    BY <1>1, <2>2, <2>3, <2>4 DEF Fetched, AllDone
  <2>8. batch' # {} => phase' = "serving"
    BY <1>1 DEF Core, BatchInv
  <2> QED
    BY <1>3, <1>4, <1>5, <2>3, <2>6, <2>7, <2>8 DEF Core, BatchInv
<1>8. ASSUME NEW r \in batch, RowFails(r) PROVE Core'
  <2>1. batch' \subseteq batch /\ \A q \in batch : q.hold \in Checkouts
    BY <1>8, FetchableParts DEF RowFails, Types, TickType
  <2>2. BatchInv'
    BY <1>1, <1>2, <2>1, BatchAside DEF Core
  <2> QED
    BY <1>3, <1>4, <1>5, <2>2 DEF Core
<1> QED
  BY <1>6, <1>7, <1>8

\* What the reconciler takes for an orphan is one: nobody works with the hold, the
\* choice was not left to the operator, and the money was not taken but by hand.
LEMMA OrphanIsOne ==
  ASSUME Types, Core, NEW r \in batch, r.hold \in Undisturbed,
         r.stripe = "requires_capture", IsOrphan(r)
  PROVE  /\ pc[r.hold] = "over" /\ disposition[r.hold] # "operator_decides"
         /\ hold[r.hold] = "succeeded" => r.hold \in byHand
         /\ hold[r.hold] # "none"
<1>1. r.hold \in Checkouts /\ Fetched(r) /\ r.hold \notin disturbed
  BY FetchableParts DEF Types, TickType, Core, BatchInv, Undisturbed
<1>2. Stage(r.hold) /\ Base(r.hold)
  BY <1>1 DEF Core
<1> QED
  BY <1>1, <1>2 DEF IsOrphan, Clean, Fetched, Base, Stage, Settled, Money, Active

\* A tick that acts does so on a hold nobody works with, and what it writes to the
\* job's latest saga reaches the saga of that hold.
LEMMA ActStep ==
  ASSUME Types, Core, NEW r \in batch, NEW ok \in BOOLEAN,
         \/ DisownHold(r) \/ MirrorTerminal(r) \/ EscalateReleased(r)
         \/ CancelOrphan(r, ok) \/ EscalateStuck(r) \/ LeaveHold(r)
  PROVE  Core'
<1> USE DEF table, outside, locals, process, marks, Active, Terminal, Clean, Working, Handling,
            Awaits, InFlight
<1> DEFINE c == r.hold
           Acts == DisownHold(r) \/ MirrorTerminal(r) \/ CancelOrphan(r, ok) \/ LeaveHold(r)
           Escalates == EscalateReleased(r) \/ EscalateStuck(r)
<1>1. /\ c \in Checkouts /\ r \in Fetchable /\ Fetched(r) /\ pc[c] = "over" /\ Base(c)
      /\ c \in Undisturbed => Stage(c)
  BY FetchableParts DEF Types, TickType, Core, BatchInv, Fetched
<1>2. UNCHANGED <<latest, recorded, disposition, holdKnown, live, late, pc, locals, process,
                  marks>>
  BY DEF DisownHold, MirrorTerminal, EscalateReleased, CancelOrphan, EscalateStuck, LeaveHold
<1>3. \/ UNCHANGED <<holdRow, aged>>
      \/ \E v \in HoldRows : holdRow' = [holdRow EXCEPT ![c] = v] /\ aged' = aged \ {c}
  BY DEF DisownHold, MirrorTerminal, EscalateReleased, CancelOrphan, EscalateStuck, LeaveHold,
     AfterFailedCancel, HoldRows, Reconciled
<1>4. \/ status' = status
      \/ /\ Escalates /\ status' = [status EXCEPT ![c] = "manual_review"]
         /\ status[c] \in Active /\ c \in holdKnown /\ c = latest
  <2>1. r.status \in InFlightWithHold => /\ status[c] = r.status /\ c \in holdKnown
                                         /\ c = latest /\ status[c] \in Active
    BY <1>1 DEF Fetched, Base, InFlightWithHold
  <2>2. CASE Acts
    BY <2>2 DEF DisownHold, MirrorTerminal, CancelOrphan, LeaveHold
  <2>3. CASE Escalates
    <3>1. r.status \in InFlightWithHold
      BY <1>1, <2>3 DEF EscalateReleased, EscalateStuck, Fetched
    <3> QED
      BY <2>1, <2>3, <3>1 DEF EscalateReleased, EscalateStuck
  <2> QED
    BY <2>2, <2>3
<1>5. \/ hold' = hold
      \/ hold' = [hold EXCEPT ![c] = "canceled"] /\ hold[c] = "requires_capture"
  BY <1>1 DEF DisownHold, MirrorTerminal, EscalateReleased, CancelOrphan, EscalateStuck,
     LeaveHold, Cancelled, Types, HoldType
<1>6. PICK q : /\ batch' \subseteq (batch \ {r}) \cup {q}
               /\ q \in batch' => Fetched(q)' /\ q.hold = c
  <2>1. CASE MirrorTerminal(r) /\ r.stripe = "canceled" /\ r.status \in InFlightWithHold
    <3>1. PICK q : q = [r EXCEPT !.stripe = "mirrored"]
      OBVIOUS
    <3>2. /\ q.hold = c /\ q.stripe = "mirrored" /\ q.status = r.status
          /\ q.disposition = r.disposition
      BY <1>1, <3>1 DEF Fetchable
    <3>3. /\ batch' = (batch \ {r}) \cup {q} /\ holdRow'[c] = "canceled"
          /\ UNCHANGED <<status, hold>>
      BY <1>1, <2>1, <3>1 DEF MirrorTerminal, Reconciled, Types, MirrorType
    <3>4. \A p \in batch' : p.hold = c => p = q
      BY <1>1, <3>3 DEF Core, BatchInv, Fetched
    <3>5. Fetched(q)'
      BY <1>1, <1>2, <2>1, <3>2, <3>3, <3>4 DEF Fetched, AllDone
    <3> QED
      BY <3>2, <3>3, <3>5
  <2>2. CASE EscalateStuck(r)
    <3>1. PICK q : q = [r EXCEPT !.status = "manual_review"]
      OBVIOUS
    <3>2. /\ q.hold = c /\ q.stripe = r.stripe /\ q.status = "manual_review"
          /\ q.disposition = r.disposition
      BY <1>1, <3>1 DEF Fetchable
    <3>3. /\ batch' = (batch \ {r}) \cup {q} /\ UNCHANGED <<holdRow, hold>>
          /\ status'[c] = "manual_review" /\ c \in holdKnown /\ r.stripe = "requires_capture"
      <4>1. r.status \in InFlightWithHold =>
              status[c] = r.status /\ c \in holdKnown /\ c = latest
        BY <1>1 DEF Fetched, Base, InFlightWithHold
      <4> QED
        BY <1>1, <2>2, <3>1, <4>1 DEF EscalateStuck, Types, RowType
    <3>4. \A p \in batch' : p.hold = c => p = q
      BY <1>1, <3>3 DEF Core, BatchInv, Fetched
    <3>5. Fetched(q)'
      BY <1>1, <1>2, <2>2, <3>2, <3>3, <3>4 DEF Fetched, AllDone
    <3> QED
      BY <3>2, <3>3, <3>5
  <2>3. CASE batch' = batch \ {r}
    BY <2>3
  <2> QED
    BY <2>1, <2>2, <2>3 DEF DisownHold, MirrorTerminal, EscalateReleased, CancelOrphan, LeaveHold
<1>7. ASSUME c \in Undisturbed, holdRow'[c] \in {"succeeded", "canceled"}
      PROVE  \/ hold'[c] = holdRow'[c]
             \/ hold'[c] = "succeeded" /\ holdRow'[c] = "canceled" /\ c \in byHand
  <2>1. CASE DisownHold(r) \/ LeaveHold(r)
    BY <1>1, <1>7, <2>1 DEF DisownHold, LeaveHold, Reconciled, Types, MirrorType
  <2>2. CASE MirrorTerminal(r)
    BY <1>1, <2>2 DEF MirrorTerminal, Reconciled, Types, MirrorType, Fetched
  <2>3. CASE CancelOrphan(r, ok)
    <3>1. r.stripe = "requires_capture" /\ IsOrphan(r) /\ holdRow[c] = "requires_capture"
      BY <1>1, <2>3 DEF CancelOrphan, Fetched
    <3>2. ok /\ Cancelled(c) /\ holdRow'[c] = "canceled"
      BY <1>1, <1>7, <2>3, <3>1 DEF CancelOrphan, AfterFailedCancel, Reconciled, Types,
         MirrorType
    <3>3. (hold[c] = "succeeded" => c \in byHand) /\ hold[c] # "none"
      BY <1>7, <3>1, OrphanIsOne
    <3> QED
      BY <1>1, <3>2, <3>3 DEF Cancelled, Types, HoldType, Holds
  <2>4. CASE Escalates
    <3>1. UNCHANGED <<hold, holdRow>>
      BY <2>4 DEF EscalateReleased, EscalateStuck
    <3> QED
      BY <1>1, <1>7, <3>1 DEF Stage, Money
  <2> QED
    BY <2>1, <2>2, <2>3, <2>4
<1> HIDE DEF c, Acts, Escalates
<1>8. /\ aged' \subseteq aged
      /\ status'[c] # status[c] => status'[c] = "manual_review" /\ status[c] \in Active
      /\ hold'[c] # hold[c] => hold[c] = "requires_capture" /\ hold'[c] = "canceled"
      /\ holdRow'[c] # "absent" => holdRow[c] # "absent" \/ hold[c] # "none"
      /\ \A d \in Checkouts \ {c} : Aside(d)
  <2>1. aged' \subseteq aged
    BY <1>3
  <2>2. status'[c] # status[c] => status'[c] = "manual_review" /\ status[c] \in Active
    BY <1>1, <1>4 DEF Types, RowType
  <2>3. hold'[c] # hold[c] => hold[c] = "requires_capture" /\ hold'[c] = "canceled"
    BY <1>1, <1>5 DEF Types, HoldType
  <2>4. holdRow[c] # "absent"
    BY <1>1 DEF Fetched, c
  <2>5. ASSUME NEW d \in Checkouts \ {c} PROVE Aside(d)
    BY <1>2, <1>3, <1>4, <1>5 DEF Aside, Kept, Types, RowType, HoldType, MirrorType
  <2> QED
    BY <2>1, <2>2, <2>3, <2>4, <2>5
<1>9. ASSUME c \in Undisturbed PROVE Stage(c)'
  BY <1>1, <1>2, <1>7, <1>8, <1>9 DEF Stage, Owns, Unbroken, NothingLate, Opening, Holding,
     Ordering, Delivering, Delivered, Judging, LettingGo, Settled, Compensated, Money
<1>10. \A d \in Checkouts : d \in Undisturbed' => Stage(d)'
  BY <1>2, <1>8, <1>9, StageAside DEF Core, Undisturbed
<1>11. ASSUME NEW d \in Checkouts PROVE Base(d)'
  <2>1. CASE d = c
    BY <1>1, <1>2, <1>8, <2>1 DEF Base, Fresh, Timing
  <2>2. CASE d # c
    BY <1>2, <1>8, <2>2, BaseAside DEF Core
  <2> QED
    BY <2>1, <2>2
<1>12. BatchInv'
  <2>1. ASSUME NEW p \in batch', p \in batch \ {r} PROVE Fetched(p)'
    <3>1. p.hold \in Checkouts /\ Fetched(p)
      BY <2>1, FetchableParts DEF Types, TickType, Core, BatchInv
    <3>2. p.hold # c
      BY <2>1 DEF Core, BatchInv, Fetched, c
    <3>3. Aside(p.hold)
      BY <1>8, <3>1, <3>2
    <3>4. \A o \in batch' : o.hold = p.hold => o = p
      BY <1>6, <3>1, <3>2 DEF Fetched
    <3> QED
      BY <1>2, <3>1, <3>3, <3>4 DEF Fetched, Aside, Kept, AllDone
  <2>2. batch' # {} => phase' = "serving"
    BY <1>2 DEF Core, BatchInv
  <2> QED
    BY <1>6, <2>1, <2>2 DEF BatchInv
<1>13. BootInv' /\ Apart' /\ AgedAlone'
  BY <1>2, <1>8 DEF Core, BootInv, Apart, Quiet, AgedAlone, AllDone
<1> QED
  BY <1>10, <1>11, <1>12, <1>13 DEF Core, Undisturbed

\* The death of the process cuts off what was asked, and every saga in flight, which
\* is at most the latest, is left to the recovery.
LEMMA RestartStep ==
  ASSUME Types, RowExists, Core, Restart
  PROVE  Core'
<1> USE DEF At, table, outside, locals, process, marks, Active, Terminal, Clean, Working,
            Handling, Awaits, InFlight
<1>1. /\ phase' = "booting" /\ batch' = {} /\ restarts' > 0
      /\ UNCHANGED <<table, hold, locals, marks>>
  BY DEF Restart, Types, BootType
<1>2. \A d \in Checkouts : pc'[d] = IF pc[d] = "idle" THEN "idle"
                                   ELSE IF status[d] \in Active THEN "resume" ELSE "over"
  BY DEF Restart
<1>3. \A q \in late' : q \in late \/ \E e \in Checkouts : q \in Asked(e)
  <2>1. PICK cut \in SUBSET UNION {Asked(e) : e \in Checkouts} : late' = late \cup cut
    BY DEF Restart
  <2> QED
    BY <2>1
<1>4. ASSUME NEW d \in Checkouts PROVE Base(d)'
  <2>1. Base(d)
    BY DEF Core
  <2>2. Fresh(d)'
    <3>1. SUFFICES ASSUME pc'[d] = "idle" PROVE Fresh(d)'
      BY DEF Fresh
    <3>2. pc[d] = "idle" /\ d # latest
      BY <1>2, <2>1, <3>1 DEF Base
    <3>3. ASSUME NEW e \in Checkouts, NEW q \in Asked(e) PROVE q[1] # d
      BY <3>2 DEF Asked
    <3>4. NothingLate(d)'
      BY <1>3, <2>1, <3>2, <3>3 DEF Base, Fresh, NothingLate
    <3> QED
      BY <1>1, <2>1, <3>2, <3>4 DEF Base, Fresh
  <2>3. Timing(d)'
    BY <1>1, <1>2 DEF Timing
  <2> QED
    BY <1>1, <1>2, <2>1, <2>2, <2>3 DEF Base
<1>5. ASSUME NEW d \in Checkouts, d \in Undisturbed' PROVE Stage(d)'
  <2>1. Stage(d) /\ Base(d) /\ d \in Undisturbed
    BY <1>1, <1>5 DEF Core, Undisturbed
  <2>2. \A q \in late' : q[1] = d => q \in late \/ status[d] \in Active
    BY <1>3, <2>1, AskedIsOwn
  <2>3. <<d, "capture">> \in late' => <<d, "capture">> \in late \/ pc[d] = "capture"
    BY <1>3, <2>1, AskedIsOwn
  <2>4. live'[d] \subseteq live[d]
        /\ (pc[d] \notin {"recall", "compensate"} => live'[d] = live[d])
    BY DEF Restart, Cancelling, Types, LiveType
  <2>5. pc'[d] \in {"idle", "resume", "over"} /\ (pc'[d] = "resume" => status[d] \in Active)
    BY <1>2
  <2> QED
    BY <1>1, <2>1, <2>2, <2>3, <2>4, <2>5 DEF Base, Stage, Owns, Unbroken, NothingLate, Opening,
       Holding, Ordering, Delivering, Delivered, Judging, LettingGo, Settled, Compensated,
       Money
<1>6. Apart'
  <2> SUFFICES ASSUME latest \notin disturbed, NEW d \in Checkouts, d # latest PROVE Quiet(d)'
    BY <1>1 DEF Apart
  <2>1. status[d] \notin Active
    BY DEF Core, Base
  <2> QED
    BY <1>2, <2>1 DEF Quiet
<1> QED
  BY <1>1, <1>4, <1>5, <1>6 DEF Core, BatchInv, BootInv, AgedAlone, Undisturbed

\* The boot ends when nobody is left to recover.
LEMMA BootedStep ==
  ASSUME Types, Core, Booted
  PROVE  Core'
<1> USE DEF table, outside, locals, process, marks
<1>1. /\ phase = "booting" /\ phase' = "serving"
      /\ UNCHANGED <<table, outside, pc, locals, batch, restarts, marks>>
      /\ \A d \in Checkouts : pc[d] \in {"idle", "over"}
  BY DEF Booted
<1>2. ASSUME NEW d \in Checkouts PROVE Base(d)' /\ Aside(d)
  BY <1>1 DEF Core, Base, Fresh, Timing, NothingLate, Aside, Kept
<1>3. ASSUME NEW d \in Checkouts, d \in Undisturbed' PROVE Stage(d)'
  BY <1>1, <1>2, <1>3, StageAside DEF Core, Undisturbed
<1>4. batch' = {}
  BY <1>1 DEF Core, BatchInv
<1> QED
  BY <1>1, <1>2, <1>3, <1>4 DEF Core, BatchInv, BootInv, Apart, Quiet, AgedAlone, AllDone,
     Undisturbed

\* At first every checkout is fresh.
LEMMA CoreInit == Init => Core
BY NamesAssumption
   DEF Init, Core, BootInv, BatchInv, Apart, Quiet, AgedAlone, Base, Undisturbed, Active,
   Terminal, Clean, Working, Handling, Awaits, Stage, Owns, Fresh, Unbroken, NothingLate,
   Opening, Holding, Ordering, Delivering, Delivered, Judging, LettingGo, Settled,
   Compensated, Money, Timing

\* IInv is inductive.
LEMMA CoreStep ==
  ASSUME TInv, DriftInv, Core, [Next]_vars
  PROVE  Core'
<1>1. Types /\ RowExists /\ HoldHasRow
  BY TypeParts DEF TInv
<1>2. ASSUME NEW c \in Checkouts, Saga(c) \/ Recovery(c) \/ WriteVerdict(c) PROVE Core'
  <2>1. Stepped(c)
    BY <1>1, <1>2, TaskFrame, HandlerFrame
  <2>2. c \in Undisturbed /\ c = latest => Stage(c)'
    BY <1>1, <1>2, TaskStage, HandlerStage
  <2> QED
    BY <1>1, <2>1, <2>2, OneMoves
<1>3. ASSUME NEW c \in Checkouts, \/ Confirm(c) \/ Timeout(c) \/ HourPasses(c) \/ OutOfBand(c)
                                  \/ \E r \in {q[2] : q \in late} : LateLands(c, r)
      PROVE  Core'
  BY <1>1, <1>3, ConfirmStep, TimeoutStep, OutsideStep
<1>4. CASE Reconcile
  BY <1>1, <1>4, ReadStep, ActStep DEF Reconcile
<1>5. CASE Restart \/ Booted
  BY <1>1, <1>5, RestartStep, BootedStep
<1>6. CASE UNCHANGED vars
  <2> USE DEF vars, table, outside, locals, process, marks
  <2>1. ASSUME NEW d \in Checkouts PROVE Base(d)' /\ (d \in Undisturbed' => Stage(d)')
    BY <1>6, StageAside, BaseAside DEF Core, Undisturbed, Aside, Kept
  <2> QED
    BY <1>6, <2>1 DEF Core, BatchInv, Fetched, BootInv, Apart, Quiet, AgedAlone, AllDone,
       Undisturbed
<1> QED
  BY <1>2, <1>3, <1>4, <1>5, <1>6 DEF Next
-----------------------------------------------------------------------------
(* What follows for every behaviour.                                       *)

\* The inductive invariant holds in every reachable state: each stage of the task,
\* the handler, the boot and the reconciler knows of row, hold and orders what the
\* next stage relies on, as long as nobody else works with its row; and whoever
\* could be that somebody is known (Owns, Apart).
THEOREM SagaInvariant == Spec => []IInv
<1>1. Init => IInv
  BY TInit, DriftInit, CoreInit DEF IInv
<1>2. IInv /\ [Next]_vars => IInv'
  <2> SUFFICES ASSUME IInv, [Next]_vars PROVE IInv'
    OBVIOUS
  <2>1. TInv' /\ DriftInv'
    BY TStep, TypeParts, DriftStep DEF IInv, TInv
  <2>2. Core'
    BY CoreStep DEF IInv
  <2> QED
    BY <2>1, <2>2 DEF IInv
<1> QED
  BY <1>1, <1>2, PTL DEF Spec

\* B23: a job never has two sagas in flight, and store calls, which name the job
\* only, reach the row of the checkout that makes them, but for those of the handler
\* of a settled saga that a slow audit row has kept (saga.py:582).
THEOREM OneSagaAtATime == Spec => []OneSagaPerJob
<1>1. IInv => OneSagaPerJob
  <2> SUFFICES ASSUME IInv, NEW c \in Checkouts
               PROVE  /\ status[c] \in Active => c = latest
                      /\ c # latest /\ ~Quiet(c) =>
                           /\ latest \in disturbed
                           /\ \/ c \in disturbed
                              \/ /\ status[c] \in Terminal
                                 /\ pc[c] \in {"expired", "letgo", "verdict"}
    BY DEF OneSagaPerJob
  <2>1. Base(c) /\ Apart /\ (c \notin disturbed => Stage(c)) /\ Types
    BY TypeParts DEF IInv, TInv, Core, Undisturbed
  <2>2. c # latest /\ ~Quiet(c) => latest \in disturbed
    BY <2>1 DEF Apart
  <2>3. c # latest /\ ~Quiet(c) /\ c \notin disturbed =>
          status[c] \in Terminal /\ pc[c] \in Handling
    BY <2>1 DEF Base, Stage, Owns, Quiet, Working, Handling, Awaits, Types, PcType, RowType,
       Stages
  <2> QED
    BY <2>1, <2>2, <2>3 DEF Base, Handling
<1> QED
  BY <1>1, SagaInvariant, PTL

\* B23 as the code's authors mean it: unless an audit row can be slow and the job has
\* a second checkout, nobody ever comes upon another checkout's row, so that what is
\* proved of undisturbed checkouts is proved of all.
NobodyDisturbed == disturbed = {}

THEOREM AloneWithoutSlowAudit ==
  ASSUME LateHandlerAlone
  PROVE  Spec => []NobodyDisturbed
<1>1. IInv /\ NobodyDisturbed /\ [Next]_vars => NobodyDisturbed'
  <2> SUFFICES ASSUME IInv, disturbed = {}, [Next]_vars PROVE disturbed' = {}
    BY DEF NobodyDisturbed
  <2>1. Types /\ Core /\ RowExists /\ \A d \in Checkouts : Stage(d) /\ Base(d)
    BY TypeParts DEF IInv, TInv, Core, Undisturbed
  <2>2. ASSUME NEW c \in Checkouts, Timeout(c) PROVE disturbed' = {}
    <3>1. pc[c] \in Awaits /\ (pc[c] = "audit" => "audit" \in Faults)
      BY <2>2 DEF Timeout, UnderDeadline, At, Fault
    <3>2. latest \in Checkouts
      BY <2>1, <3>1 DEF RowExists, Awaits
    <3>3. c = latest
      BY <2>1, <3>1, <3>2 DEF Stage, Owns, Working, LateHandlerAlone
    <3> QED
      BY <2>2, <3>3 DEF Timeout, Disturbs
  <2>3. ASSUME NEW c \in Checkouts, Confirm(c) PROVE disturbed' = {}
    <3>1. pc[c] = "idle" /\ \A d \in Checkouts : status[d] \notin Active
      BY <2>3 DEF Confirm, At, NoActiveSaga
    <3>2. ASSUME NEW d \in Checkouts PROVE Quiet(d)
      <4>1. pc[d] \notin Working \cup {"resume"}
        BY <2>1, <3>1 DEF Stage, Owns
      <4>2. pc[d] \in Handling => d = c
        BY <2>1, <3>1 DEF Stage, Owns, LateHandlerAlone
      <4> QED
        BY <2>1, <3>1, <4>1, <4>2 DEF Quiet, Types, PcType, Stages, Working, Handling, Awaits
    <3> QED
      BY <2>3, <3>2 DEF Confirm
  <2>4. ASSUME NEW c \in Checkouts, Saga(c) \/ Recovery(c) \/ WriteVerdict(c)
        PROVE  disturbed' = {}
    <3>1. Stepped(c)
      BY <2>1, <2>4, TaskFrame, HandlerFrame
    <3> QED
      BY <3>1 DEF Stepped, marks
  <2>5. ASSUME NEW c \in Checkouts, \/ HourPasses(c) \/ OutOfBand(c)
                                    \/ \E r \in {q[2] : q \in late} : LateLands(c, r)
        PROVE  disturbed' = {}
    BY <2>5 DEF HourPasses, OutOfBand, LateLands, marks
  <2>6. CASE Reconcile
    BY <2>6 DEF Reconcile, ReconcileFetch, AskStripe, DisownHold, RowFails, MirrorTerminal,
       EscalateReleased, CancelOrphan, EscalateStuck, LeaveHold, marks
  <2>7. CASE Restart \/ Booted \/ UNCHANGED vars
    BY <2>7 DEF Restart, Booted, vars, marks
  <2> QED
    BY <2>2, <2>3, <2>4, <2>5, <2>6, <2>7 DEF Next
<1>2. Init => NobodyDisturbed
  BY DEF Init, NobodyDisturbed
<1> QED
  BY <1>1, <1>2, SagaInvariant, PTL DEF Spec

\* The mirror only says a hold is over, which takes it out of reconciliation, when it
\* is over at Stripe in just that way, unless an operator captured it by hand while
\* the saga was in flight (reconcile.py, saga.py, stripe_provider.py:307).
THEOREM MirrorIsTruthful == Spec => []MirrorIsTrue
<1>1. IInv => MirrorIsTrue
  BY DEF IInv, Core, Stage, Money, MirrorIsTrue
<1> QED
  BY <1>1, SagaInvariant, PTL

\* A captured saga took the money and all its orders stand and are on record.
THEOREM CaptureDelivers == Spec => []CapturedIsDelivered
<1>1. IInv => CapturedIsDelivered
  BY DEF IInv, Core, Stage, Delivering, Delivered, CapturedIsDelivered
<1> QED
  BY <1>1, SagaInvariant, PTL

\* B19: compensated means no known order stands, the card is not held, and the money
\* is not taken unless by an operator's hand while the saga was in flight.
THEOREM CompensationCleans == Spec => []CompensatedIsClean
<1>1. IInv => CompensatedIsClean
  <2> SUFFICES ASSUME IInv, NEW c \in Undisturbed, status[c] = "compensated"
               PROVE  /\ (recorded[c] \cup placed[c]) \cap live[c] = {}
                      /\ \/ hold[c] \in {"none", "canceled"}
                         \/ hold[c] = "succeeded" /\ c \in byHand
    BY DEF CompensatedIsClean
  <2>1. Stage(c) /\ Types /\ c \in Checkouts
    BY TypeParts DEF IInv, TInv, Core, Undisturbed
  <2>2. Compensated(c) /\ hold[c] \in Holds
    BY <2>1 DEF Stage, Settled, Types, HoldType
  <2> QED
    BY <2>2 DEF Compensated, Holds
<1> QED
  BY <1>1, SagaInvariant, PTL

\* The deadline's policy: as long as no boot comes between, a saga with an order on
\* record is not written off as failed.
THEOREM DeadlineKeepsOrders == Spec => []OrdersOutliveDeadline
<1>1. IInv => OrdersOutliveDeadline
  BY DEF IInv, Core, Stage, Settled, OrdersOutliveDeadline, FailedHasNoOrders
<1> QED
  BY <1>1, SagaInvariant, PTL

\* What the reconciler fetched of a saga in flight is still so when it acts on it, be
\* the saga disturbed or not.
THEOREM FetchedStaysTrue == Spec => []FetchedRowsStillTrue
<1>1. IInv => FetchedRowsStillTrue
  <2> SUFFICES ASSUME IInv, NEW r \in batch, r.status \in InFlightWithHold
               PROVE  r.hold = latest /\ status[r.hold] = r.status
    BY DEF FetchedRowsStillTrue
  <2>1. r.hold \in Checkouts /\ Base(r.hold) /\ Fetched(r)
    BY TypeParts, FetchableParts DEF IInv, TInv, Types, TickType, Core, BatchInv
  <2> QED
    BY <2>1 DEF Fetched, Base, Active, InFlightWithHold
<1> QED
  BY <1>1, SagaInvariant, PTL

\* A customer whose checkout failed or was compensated was not charged, unless by an
\* operator who captured the hold from the dashboard while the saga was in flight,
\* and no capture cut off by the deadline or a crash can charge him later.
FailedIsNeverCharged ==
  \A c \in Undisturbed : status[c] \in {"failed", "compensated"} =>
    /\ hold[c] = "succeeded" => c \in byHand
    /\ <<c, "capture">> \notin late

\* ... in every behaviour (saga.py, the verdicts of compensation and deadline).
THEOREM NoChargeForNothing == Spec => []FailedIsNeverCharged
<1>1. IInv => FailedIsNeverCharged
  BY DEF IInv, Core, Stage, Money, FailedIsNeverCharged
<1> QED
  BY <1>1, SagaInvariant, PTL

\* The reconciler cancels no hold whose fate was left to the operator, and none that
\* somebody still works with, however old the rows and answers it acts on (B55).
THEOREM ReconcilerKeepsOff == Spec => ReconcilerHandsOff
<1>1. IInv /\ [Next]_vars =>
        [\A c \in Undisturbed : \A ok \in BOOLEAN :
           (\E r \in batch : r.hold = c /\ CancelOrphan(r, ok)) =>
             disposition[c] # "operator_decides" /\ pc[c] = "over"]_vars
  <2> SUFFICES ASSUME IInv, NEW c \in Undisturbed, NEW ok \in BOOLEAN,
                      NEW r \in batch, r.hold = c, CancelOrphan(r, ok)
               PROVE  disposition[c] # "operator_decides" /\ pc[c] = "over"
    OBVIOUS
  <2>1. Types /\ Core
    BY TypeParts DEF IInv, TInv
  <2> QED
    BY <2>1, OrphanIsOne DEF CancelOrphan
<1> QED
  BY <1>1, SagaInvariant, PTL DEF Spec, ReconcilerHandsOff

\* A step changes the status of a settled saga only to manual_review, and only where
\* a handler could not read the row.
LEMMA StatusStep ==
  ASSUME Types, RowExists, Core, Next, NEW c \in Checkouts, c \in Undisturbed,
         status[c] \in Terminal
  PROVE  \/ status'[c] = status[c]
         \/ status'[c] = "manual_review" /\ \E d \in Checkouts : At(d, "verdict")
<1> USE DEF At, Terminal, Clean, Active, table, outside, locals, process, marks, Types, RowType
<1>1. Stage(c) /\ Base(c)
  BY DEF Core
<1>2. ASSUME NEW d \in Checkouts, Confirm(d) PROVE status'[c] = status[c]
  BY <1>1, <1>2 DEF Confirm, Core, Base, Fresh
<1>3. ASSUME NEW d \in Checkouts, Saga(d) PROVE status'[c] = status[c]
  <2>1. Stepped(d)
    BY <1>3, TaskFrame
  <2>2. CASE c # latest
    BY <2>1, <2>2 DEF Stepped
  <2>3. CASE c = latest /\ d # c
    BY <2>1, <2>3 DEF Core, Apart, Undisturbed, Quiet, Stepped, Kept
  <2>4. CASE c = latest /\ d = c
    <3>1. pc[c] \notin Working
      BY <1>1 DEF Stage, Owns
    <3>2. pc[c] = "audit"
      BY <1>3, <2>4, <3>1 DEF Saga, OpenGate, CreateHold, RecordHold, RollbackHold,
         CheckpointHold, CheckDrift, CheckpointOrder, RecallRound, Reoptimise, OrdersPlaced,
         Capture, PaymentCaptured, CancelOrders, ReleaseHold, Audited, PlaceOrder, Working,
         Awaits
    <3> QED
      BY <2>1, <2>4, <3>2 DEF Stepped, Kept
  <2> QED
    BY <2>2, <2>3, <2>4
<1>4. ASSUME NEW d \in Checkouts, WriteVerdict(d)
      PROVE  \/ status'[c] = status[c]
             \/ status'[c] = "manual_review" /\ At(d, "verdict")
  <2>1. CASE c # latest
    BY <1>4, <2>1 DEF WriteVerdict
  <2>2. CASE c = latest
    <3>1. d = c
      BY <1>4, <2>2 DEF WriteVerdict, Core, Apart, Undisturbed, Quiet
    <3>2. pc[c] # "write"
      BY <1>1 DEF Stage, Owns, Working, Awaits
    <3>3. pc[c] = "verdict" => verdict[c].status = "manual_review"
      BY <1>1, <2>2 DEF Stage, Judging
    <3> QED
      BY <1>4, <2>2, <3>1, <3>2, <3>3 DEF WriteVerdict
  <2> QED
    BY <2>1, <2>2
<1>5. ASSUME NEW d \in Checkouts, \/ HandleTimeout(d) \/ Resume(d) \/ LetHoldGo(d)
                                  \/ Timeout(d) \/ HourPasses(d) \/ OutOfBand(d)
                                  \/ \E r \in {q[2] : q \in late} : LateLands(d, r)
      PROVE  status'[c] = status[c]
  BY <1>5 DEF HandleTimeout, Resume, LetHoldGo, Timeout, HourPasses, OutOfBand, LateLands
<1>6. CASE Reconcile
  <2>1. ASSUME NEW r \in batch, EscalateReleased(r) \/ EscalateStuck(r)
        PROVE  status'[c] = status[c]
    <3>1. r.hold \in Checkouts /\ Fetched(r) /\ Base(r.hold)
      BY FetchableParts DEF TickType, Core, BatchInv
    <3>2. r.status \in InFlightWithHold
      BY <2>1, <3>1 DEF EscalateReleased, EscalateStuck, Fetched
    <3>3. latest # c
      BY <3>1, <3>2 DEF Fetched, Base, InFlightWithHold
    <3> QED
      BY <2>1, <3>3 DEF EscalateReleased, EscalateStuck
  <2>2. ASSUME ~(\E r \in batch : EscalateReleased(r) \/ EscalateStuck(r))
        PROVE  status' = status
    BY <1>6, <2>2 DEF Reconcile, ReconcileFetch, AskStripe, DisownHold, RowFails,
       MirrorTerminal, CancelOrphan, LeaveHold
  <2> QED
    BY <2>1, <2>2
<1>7. CASE Restart \/ Booted
  BY <1>7 DEF Restart, Booted
<1> QED
  BY <1>2, <1>3, <1>4, <1>5, <1>6, <1>7 DEF Next, Recovery

\* A settled saga stays settled the way it is: no deadline, boot or tick that read
\* the row before takes it back.
THEOREM SettledStays == Spec => SettledIsFinal
<1>1. IInv /\ [Next]_vars =>
        [\A c \in Undisturbed : status[c] \in Terminal =>
           \/ status'[c] = status[c]
           \/ /\ status'[c] = "manual_review"
              /\ \E d \in Checkouts : At(d, "verdict")]_vars
  <2> SUFFICES ASSUME IInv, Next, NEW c \in Undisturbed, status[c] \in Terminal
               PROVE  \/ status'[c] = status[c]
                      \/ status'[c] = "manual_review" /\ \E d \in Checkouts : At(d, "verdict")
    OBVIOUS
  <2>1. Types /\ RowExists /\ Core /\ c \in Checkouts
    BY TypeParts DEF IInv, TInv, Undisturbed
  <2> QED
    BY <2>1, StatusStep
<1> QED
  BY <1>1, SagaInvariant, PTL DEF Spec, SettledIsFinal
=============================================================================
