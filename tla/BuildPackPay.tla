---------------------------- MODULE BuildPackPay ----------------------------
(***************************************************************************)
(* Pay-what-you-want for one finished build pack (scripts/pay_router.py,   *)
(* scripts/emailer.py), and the purge of what is stored about it           *)
(* (cleanup_loop in scripts/Main.py).                                      *)
(*                                                                         *)
(* The endpoints run on the event loop: what one does between two awaits   *)
(* is one action.  The emailer runs in the thread pool after the response, *)
(* so every file it touches is a step of its own.  Stripe delivers the     *)
(* event of a payment again and again until it is answered, and sometimes  *)
(* after that.                                                             *)
(***************************************************************************)
EXTENDS Integers

CONSTANTS
  Payers,         \* POST /jobs/{id}/pay requests
  Addresses,      \* e-mail addresses given in them
  Offers,         \* amount_cents they may carry
  Tips,           \* POST /donate intents that name this job
  MaxDeliveries,  \* bound: deliveries of one event
  MaxRestarts,    \* bound: how often the process dies and boots again
  Faults          \* the failures of the environment that are considered

FaultKinds == {"stripe", "disk", "unread", "resend", "email_off"}

MinCharge == 50    \* _STRIPE_MIN_CHARGE_CENTS
Charges   == {a \in Offers : a >= MinCharge}

ASSUME OffersAssumption == Offers \subseteq Nat
ASSUME TipsAssumption   == Tips \cap Offers = {}
ASSUME BoundsAssumption == MaxDeliveries \in Nat /\ MaxRestarts \in Nat
ASSUME FaultsAssumption == Faults \subseteq FaultKinds

\* The idempotency key of a charge is job and amount: one intent per amount.
Intents == Charges \cup Tips

\* Calls of send_build_pack_email: by a request, or by a delivery of an event.
Deliveries == Charges \X (1..MaxDeliveries)
Senders    == Payers \cup Deliveries

ASSUME SendersAssumption == Payers \cap Deliveries = {}

NoRecord == [status |-> "absent", of |-> {}]
Free     == [status |-> "free", of |-> {}]
Paid(i)  == [status |-> "paid", of |-> {i}]
Torn     == [status |-> "torn", of |-> {}]     \* truncated, and not written in full

VARIABLES
  pack,        \* outputs/{job}/artifact.zip exists
  private,     \* private/{job} exists
  record,      \* payment.json
  sentinel,    \* email.json: its status, "claimed" for the placeholder
  intent,      \* each PaymentIntent at Stripe
  bill,        \* metadata.email of each charge
  delivered,   \* how often the event of an intent was delivered
  req, ask, addr,   \* each request: where it stands, its amount, its address
  mail,        \* where each sender stands
  accepted,    \* senders whose message Resend took
  purged,      \* how far the cleaner is with this job's directories
  restarts

files  == <<pack, private, record, sentinel>>
stripe == <<intent, bill>>
pays   == <<req, ask, addr>>
mails  == <<mail, accepted>>
vars   == <<files, stripe, delivered, pays, mails, purged, restarts>>

Ended == {"sent", "failed", "duplicate", "skipped", "lost"}

TypeOK ==
  /\ pack \in BOOLEAN /\ private \in BOOLEAN
  /\ record \in {NoRecord, Free, Torn} \cup {Paid(i) : i \in Intents}
  /\ sentinel \in {"absent", "claimed", "sent", "failed"}
  /\ intent \in [Intents -> {"none", "requires_action", "succeeded"}]
  /\ bill \in [Charges -> Addresses \cup {"none"}]
  /\ delivered \in [Intents -> 0..MaxDeliveries]
  /\ req \in [Payers -> {"new", "charging", "over"}]
  /\ ask \in [Payers -> Charges \cup {0}] /\ addr \in [Payers -> Addresses \cup {"none"}]
  /\ mail \in [Senders -> Ended \cup {"none", "queued", "claiming", "loading",
                                      "posting", "accepted", "refused"}]
  /\ accepted \subseteq Senders
  /\ purged \in 0..2 /\ restarts \in 0..MaxRestarts

Init ==
  /\ pack = TRUE /\ private = FALSE /\ record = NoRecord /\ sentinel = "absent"
  /\ intent = [i \in Intents |-> "none"] /\ bill = [i \in Charges |-> "none"]
  /\ delivered = [i \in Intents |-> 0]
  /\ req = [p \in Payers |-> "new"] /\ ask = [p \in Payers |-> 0]
  /\ addr = [p \in Payers |-> "none"]
  /\ mail = [m \in Senders |-> "none"] /\ accepted = {}
  /\ purged = 0 /\ restarts = 0
-----------------------------------------------------------------------------
Fault(f) == f \in Faults

\* Slip: the first record stays, whatever comes after it.
KeepsPriorAlways(v) == record # NoRecord /\ v.status \in {"free", "paid"}

\* Slip: the latest word is recorded.
KeepsPriorNever(v) == v.status \notin {"free", "paid"}

\* A paid record is never downgraded.
KeepsPrior(v) == v.status # "paid" /\ record.status = "paid"

\* write_text empties the file before it writes, and leaves it so when the write fails
\* or the process dies; a prior record that cannot be read is written over.
CutOff(v) ==
  /\ private' = TRUE
  /\ record' \in {record} \cup (IF KeepsPrior(v) /\ ~Fault("unread") THEN {} ELSE {Torn, v})

\* _record_payment: makes the directory if need be, and never raises.
RecordPayment(v) ==
  \/ private' = TRUE /\ record' = IF KeepsPrior(v) THEN record ELSE v
  \/ Fault("unread") /\ private' = TRUE /\ record' = v
  \/ Fault("disk") /\ (UNCHANGED <<private, record>> \/ CutOff(v))

\* add_task(send_build_pack_email)
SendLater(m) == mail' = [mail EXCEPT ![m] = "queued"]

\* Slip: only $0 is told apart from what Stripe can charge.
EnoughUnchecked(a) == a # 0

Enough(a) == a >= MinCharge
-----------------------------------------------------------------------------
(* POST /jobs/{id}/pay.  A refused request leaves nothing behind.          *)

PayFree(p, e) ==
  /\ req[p] = "new" /\ pack
  /\ req' = [req EXCEPT ![p] = "over"] /\ addr' = [addr EXCEPT ![p] = e]
  /\ RecordPayment(Free) /\ SendLater(p)
  /\ UNCHANGED <<pack, sentinel, stripe, delivered, ask, accepted, purged, restarts>>

\* The pack is looked for, the amount is checked, Stripe is asked.
PayAsk(p, a, e) ==
  /\ req[p] = "new" /\ pack /\ Enough(a)
  /\ req' = [req EXCEPT ![p] = "charging"]
  /\ ask' = [ask EXCEPT ![p] = a] /\ addr' = [addr EXCEPT ![p] = e]
  /\ UNCHANGED <<files, stripe, delivered, mails, purged, restarts>>

\* Slip: an intent that waits for 3DS is taken for a charge.
ChargedOrWaiting == {"requires_action", "succeeded"}

Charged == {"succeeded"}

\* provider.charge, executed once per key: the first execution leaves the intent
\* in state s, a retry with the same parameters gets the same answer again.
Execute(p, s) ==
  /\ \/ intent[ask[p]] = "none"
     \/ bill[ask[p]] = addr[p]
          /\ (s = "succeeded" => intent[ask[p]] = "succeeded")
  /\ intent' = [intent EXCEPT ![ask[p]] = IF @ = "none" THEN s ELSE @]
  /\ bill' = [bill EXCEPT ![ask[p]] = addr[p]]

PayAnswered(p) ==
  /\ req[p] = "charging"
  /\ req' = [req EXCEPT ![p] = "over"] /\ ask' = [ask EXCEPT ![p] = 0]
  /\ \/ \E s \in {"requires_action", "succeeded"} :
          /\ Execute(p, s)
          /\ IF s \in Charged THEN RecordPayment(Paid(ask[p])) /\ SendLater(p)
             ELSE UNCHANGED <<private, record, mail>>
     \/ /\ Fault("stripe")               \* declined, or no answer in time: 402, 503
        /\ UNCHANGED stripe \/ Execute(p, "succeeded")
        /\ UNCHANGED <<private, record, mail>>
     \/ /\ bill[ask[p]] \notin {"none", addr[p]}     \* the key was used otherwise
        /\ UNCHANGED <<stripe, private, record, mail>>
  /\ UNCHANGED <<pack, sentinel, delivered, addr, accepted, purged, restarts>>

\* POST /donate mints an intent; it asks for no pack.
Donate(t) ==
  /\ intent[t] = "none" /\ intent' = [intent EXCEPT ![t] = "requires_action"]
  /\ UNCHANGED <<files, bill, delivered, pays, mails, purged, restarts>>

\* The customer finishes 3DS, or the tip, in the browser.
Confirmed(i) ==
  /\ intent[i] = "requires_action" /\ intent' = [intent EXCEPT ![i] = "succeeded"]
  /\ UNCHANGED <<files, bill, delivered, pays, mails, purged, restarts>>

\* Slip: no mail when the payment is already on record.
MailsForUnpaid(i) == i \in Charges /\ record.status # "paid"

\* metadata.source = "laigo_pay", and an address: charges, never tips.
MailsFor(i) == i \in Charges

\* POST /webhooks/stripe with payment_intent.succeeded.
Webhook(i) ==
  /\ intent[i] = "succeeded" /\ delivered[i] < MaxDeliveries
  /\ delivered' = [delivered EXCEPT ![i] = @ + 1]
  /\ RecordPayment(Paid(i))
  /\ IF MailsFor(i) THEN SendLater(<<i, delivered[i] + 1>>) ELSE UNCHANGED mail
  /\ UNCHANGED <<pack, sentinel, stripe, pays, accepted, purged, restarts>>
-----------------------------------------------------------------------------
(* send_build_pack_email, one thread per call.                             *)

\* _claim_send: O_EXCL, or a prior attempt that failed.
WinsClaim == sentinel \in {"absent", "failed"}

MailOpen(m) ==
  /\ mail[m] = "queued"
  /\ \/ /\ Fault("email_off") /\ mail' = [mail EXCEPT ![m] = "skipped"]
        /\ UNCHANGED private
     \/ mail' = [mail EXCEPT ![m] = "claiming"] /\ private' = TRUE
  /\ UNCHANGED <<pack, record, sentinel, stripe, delivered, pays, accepted, purged, restarts>>

\* The directory may be gone again: then the claim raises.
MailClaim(m) ==
  /\ mail[m] = "claiming"
  /\ mail' = [mail EXCEPT ![m] = IF ~private THEN "refused"
                                  ELSE IF WinsClaim THEN "loading" ELSE "duplicate"]
  /\ sentinel' = IF private /\ sentinel = "absent" THEN "claimed" ELSE sentinel
  /\ UNCHANGED <<pack, private, record, stripe, delivered, pays, accepted, purged, restarts>>

\* _load_attachments
MailLoad(m) ==
  /\ mail[m] = "loading"
  /\ mail' = [mail EXCEPT ![m] = IF pack THEN "posting" ELSE "refused"]
  /\ UNCHANGED <<files, stripe, delivered, pays, accepted, purged, restarts>>

\* _http_post: an answer that is lost may hide a message that was taken.
MailPost(m) ==
  /\ mail[m] = "posting"
  /\ \/ mail' = [mail EXCEPT ![m] = "accepted"] /\ accepted' = accepted \cup {m}
     \/ /\ Fault("resend") /\ mail' = [mail EXCEPT ![m] = "refused"]
        /\ accepted' = accepted \cup {m} \/ UNCHANGED accepted
  /\ UNCHANGED <<files, stripe, delivered, pays, purged, restarts>>

\* _record: best effort, and into a directory that may be gone.  A file cut short
\* reads like the placeholder.
MailRecord(m) ==
  /\ mail[m] \in {"accepted", "refused"}
  /\ LET end == IF mail[m] = "accepted" THEN "sent" ELSE "failed"
     IN  /\ mail' = [mail EXCEPT ![m] = end]
         /\ \/ sentinel' = IF private THEN end ELSE sentinel
            \/ Fault("disk") /\ UNCHANGED sentinel
            \/ Fault("disk") /\ private /\ sentinel' = "claimed"
  /\ UNCHANGED <<pack, private, record, stripe, delivered, pays, accepted, purged, restarts>>
-----------------------------------------------------------------------------
(* The cleaner, once the job is past its TTL, and the death of the process. *)

\* Slip: the private directory first, and with it the sentinel.
PurgeOrderSwapped == <<"private", "outputs">>

PurgeOrder == <<"outputs", "private">>

Purge ==
  /\ purged < 2 /\ purged' = purged + 1
  /\ IF PurgeOrder[purged + 1] = "outputs"
       THEN pack' = FALSE /\ UNCHANGED <<private, record, sentinel>>
       ELSE /\ private' = FALSE /\ record' = NoRecord /\ sentinel' = "absent"
            /\ UNCHANGED pack
  /\ UNCHANGED <<stripe, delivered, pays, mails, restarts>>

\* The charge of a request that was cut off may have gone through, and the record of
\* one that was being answered may be cut short.
DiesPaying ==
  \/ UNCHANGED <<stripe, private, record>>
  \/ \E p \in Payers : /\ req[p] = "charging" /\ Execute(p, "succeeded")
                        /\ (UNCHANGED <<private, record>> \/ CutOff(Paid(ask[p])))
  \/ /\ UNCHANGED stripe
     /\ \/ \E i \in Intents :
             intent[i] = "succeeded" /\ delivered[i] < MaxDeliveries /\ CutOff(Paid(i))
        \/ pack /\ (\E p \in Payers : req[p] = "new") /\ CutOff(Free)

\* Open requests and background tasks are gone.
Restart ==
  /\ restarts < MaxRestarts /\ restarts' = restarts + 1
  /\ req' = [p \in Payers |-> IF req[p] = "charging" THEN "over" ELSE req[p]]
  /\ ask' = [p \in Payers |-> 0]
  /\ mail' = [m \in Senders |-> IF mail[m] \in Ended \cup {"none"} THEN mail[m] ELSE "lost"]
  /\ DiesPaying
  /\ \/ UNCHANGED sentinel
     \/ /\ private /\ sentinel' = "claimed"
        /\ \E m \in Senders : mail[m] \in {"accepted", "refused"}
  /\ UNCHANGED <<pack, delivered, addr, accepted, purged>>

Mailer(m) == MailOpen(m) \/ MailClaim(m) \/ MailLoad(m) \/ MailPost(m) \/ MailRecord(m)

Next == \/ \E p \in Payers : \/ PayAnswered(p)
                             \/ \E e \in Addresses : \/ PayFree(p, e)
                                                     \/ \E a \in Offers : PayAsk(p, a, e)
        \/ \E t \in Tips : Donate(t)
        \/ \E i \in Intents : Confirmed(i) \/ Webhook(i)
        \/ \E m \in Senders : Mailer(m)
        \/ Purge \/ Restart

Spec == Init /\ [][Next]_vars

\* Stripe delivers the event of a payment at least once; a background task that
\* was started ends, each of its calls having a timeout.
Fairness == /\ \A i \in Intents : WF_vars(Webhook(i) /\ delivered[i] = 0)
            /\ \A m \in Senders : WF_vars(Mailer(m))

FairSpec == Spec /\ Fairness
-----------------------------------------------------------------------------
(* Properties.                                                             *)

\* The revenue log never runs ahead of the money: a payment on record was charged,
\* also when 3DS is still to be done or the answer came after a retry.
RecordIsCharged == \A i \in record.of : intent[i] = "succeeded"

\* "The sentinel makes the second attempt a no-op" (emailer.py:20): as long as no
\* attempt was recorded as failed, the requests and the deliveries of their events,
\* the cleaner and a restart together never bring about two messages.
OneMail == (\A m \in Senders : mail[m] # "failed")
             => \A m, n \in accepted : m = n

\* A paid record is lost with the job, or torn by the record of a payment whose write
\* fails or dies half way (pay_router.py:147).  As long as it can be read, no $0
\* download takes it back, answered or cut off, nor does a late answer.
RecordKeepsPaid ==
  [][record.status = "paid" =>
       \/ record'.status = "paid" \/ purged' # purged
       \/ record' = Torn /\ \A p \in Payers : req[p] = "new" => req'[p] = "new"
       \/ Fault("unread")]_vars

\* "Catches 3DS completions and any charge whose synchronous response was lost"
\* (pay_router.py, webhook): what Stripe has not told of yet comes onto record,
\* whatever is on record already.
EveryChargeRecorded ==
  \A i \in Intents : intent[i] = "succeeded" /\ delivered[i] = 0 ~> record = Paid(i)

\* A charge is followed by a message for the job, or by an attempt that failed,
\* was switched off, or died with the process.
EveryChargeMailed ==
  \A a \in Charges : intent[a] = "succeeded" ~>
    accepted # {} \/ \E m \in Senders : mail[m] \in {"failed", "skipped", "lost"}
=============================================================================
