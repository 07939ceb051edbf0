------------------------ MODULE BuildPackPay_proofs ------------------------
(***************************************************************************)
(* Proofs about BuildPackPay, for every number of requests, deliveries and *)
(* restarts, every amount and address, and every set of faults.            *)
(*                                                                         *)
(* OneMail is not inductive: it needs to know that each sender is started  *)
(* once (StartedOnce), that the claim file only says "failed" when an      *)
(* attempt failed, and that from the first step of the purge on there is   *)
(* nothing left to attach, so that the sentinel may go (OneClaim).         *)
(***************************************************************************)
EXTENDS BuildPackPay, TLAPS

NoneFailed == \A m \in Senders : mail[m] # "failed"

\* A request asks for an amount that can be charged.
AsksCharge == \A p \in Payers : req[p] = "charging" => ask[p] \in Charges

\* No sender is started before its request, or its delivery, was answered.
StartedOnce ==
  /\ \A p \in Payers : req[p] # "over" => mail[p] = "none"
  /\ \A i \in Charges, n \in 1..MaxDeliveries :
        n > delivered[i] => mail[<<i, n>>] = "none"

\* Senders that have posted, or hold an attachment they will post.
Posters == accepted \cup {m \in Senders : mail[m] = "posting"}

\* Those and the ones that won the claim and have not looked for the pack yet.
Claimants == Posters \cup {m \in Senders : mail[m] = "loading"}

OneClaim ==
  /\ pack <=> purged = 0
  /\ sentinel = "failed" => ~NoneFailed
  /\ NoneFailed =>
       /\ \A m, n \in Posters : m = n
       /\ pack => \A m, n \in Claimants : m = n
       /\ pack /\ sentinel = "absent" => Claimants = {}

IInv == TypeOK /\ AsksCharge /\ RecordIsCharged /\ StartedOnce /\ OneClaim
-----------------------------------------------------------------------------
Records == {NoRecord, Free, Torn} \cup {Paid(i) : i \in Intents}

\* What is written is what was there, the new record, or a torn one: the last two
\* only where the prior record is not kept.
LEMMA WhatIsWritten ==
  ASSUME NEW v, RecordPayment(v) \/ CutOff(v)
  PROVE  /\ record' \in {record, v, Torn}
         /\ private' = private \/ private' = TRUE
         /\ KeepsPrior(v) => record' = record \/ Fault("unread")
<1>1. CASE CutOff(v)
  BY <1>1 DEF CutOff
<1>2. CASE RecordPayment(v)
  BY <1>1, <1>2 DEF RecordPayment
<1> QED
  BY <1>1, <1>2

\* What is written is a record.
LEMMA WrittenType ==
  ASSUME TypeOK, NEW v \in Records, RecordPayment(v) \/ CutOff(v)
  PROVE  private' \in BOOLEAN /\ record' \in Records
<1>1. record' \in {record, v, Torn} /\ (private' = private \/ private' = TRUE)
  BY WhatIsWritten
<1>2. Torn \in Records /\ record \in Records /\ private \in BOOLEAN
  BY DEF Records, TypeOK
<1> QED
  BY <1>1, <1>2

\* What Stripe keeps of an executed charge.
LEMMA ExecuteType ==
  ASSUME TypeOK, NEW p \in Payers, ask[p] \in Charges,
         NEW s \in {"requires_action", "succeeded"}, Execute(p, s)
  PROVE  /\ intent' \in [Intents -> {"none", "requires_action", "succeeded"}]
         /\ bill' \in [Charges -> Addresses \cup {"none"}]
<1>1. ask[p] \in Intents
  BY DEF Intents
<1>2. /\ intent \in [Intents -> {"none", "requires_action", "succeeded"}]
      /\ bill \in [Charges -> Addresses \cup {"none"}]
      /\ addr[p] \in Addresses \cup {"none"}
  BY DEF TypeOK
<1> QED
  BY <1>1, <1>2 DEF Execute

\* A process that dies leaves a record, torn or whole, and charges as they were or one
\* more.
LEMMA DyingType ==
  ASSUME TypeOK, AsksCharge, DiesPaying
  PROVE  /\ private' \in BOOLEAN /\ record' \in Records
         /\ intent' \in [Intents -> {"none", "requires_action", "succeeded"}]
         /\ bill' \in [Charges -> Addresses \cup {"none"}]
<1>1. /\ private \in BOOLEAN /\ record \in Records
      /\ intent \in [Intents -> {"none", "requires_action", "succeeded"}]
      /\ bill \in [Charges -> Addresses \cup {"none"}]
  BY DEF TypeOK, Records
<1>2. \A i \in Intents : Paid(i) \in Records
  BY DEF Records
<1>3. CASE UNCHANGED <<stripe, private, record>>
  BY <1>3, <1>1 DEF stripe
<1>4. ASSUME NEW p \in Payers, req[p] = "charging", Execute(p, "succeeded"),
             UNCHANGED <<private, record>> \/ CutOff(Paid(ask[p]))
      PROVE  /\ private' \in BOOLEAN /\ record' \in Records
             /\ intent' \in [Intents -> {"none", "requires_action", "succeeded"}]
             /\ bill' \in [Charges -> Addresses \cup {"none"}]
  <2>1. ask[p] \in Charges /\ ask[p] \in Intents
    BY <1>4 DEF AsksCharge, Intents
  <2>2. /\ intent' \in [Intents -> {"none", "requires_action", "succeeded"}]
        /\ bill' \in [Charges -> Addresses \cup {"none"}]
    BY <1>4, <2>1, ExecuteType
  <2>3. Paid(ask[p]) \in Records
    BY <2>1, <1>2
  <2>4. private' \in BOOLEAN /\ record' \in Records
    BY <1>4, <1>1, <2>3, WrittenType
  <2> QED
    BY <2>2, <2>4
<1>5. ASSUME UNCHANGED stripe, NEW v \in Records, CutOff(v)
      PROVE  /\ private' \in BOOLEAN /\ record' \in Records
             /\ intent' \in [Intents -> {"none", "requires_action", "succeeded"}]
             /\ bill' \in [Charges -> Addresses \cup {"none"}]
  BY <1>5, <1>1, WrittenType DEF stripe
<1>6. Free \in Records
  BY DEF Records
<1> QED
  BY <1>2, <1>3, <1>4, <1>5, <1>6 DEF DiesPaying

\* Each state component keeps its type, and a request that waits for Stripe asked
\* for an amount Stripe can charge.
LEMMA TypeStep == TypeOK /\ AsksCharge /\ [Next]_vars => TypeOK' /\ AsksCharge'
<1> SUFFICES ASSUME TypeOK, AsksCharge, [Next]_vars PROVE TypeOK' /\ AsksCharge'
  OBVIOUS
<1> USE OffersAssumption, TipsAssumption, BoundsAssumption
    DEF TypeOK, AsksCharge, Charges, MinCharge, Intents, Senders, Deliveries,
        Ended, files, stripe, pays, mails
<1>1. ASSUME NEW p \in Payers, NEW e \in Addresses, PayFree(p, e)
      PROVE  TypeOK' /\ AsksCharge'
  <2>1. private' \in BOOLEAN /\ record' \in Records
    <3>1. Free \in Records
      BY DEF Records
    <3> HIDE DEF TypeOK
    <3> QED
      BY <1>1, <3>1, WrittenType DEF PayFree
  <2>2. UNCHANGED <<pack, sentinel, stripe, delivered, ask, accepted, purged, restarts>>
    BY <1>1 DEF PayFree
  <2>3. req' = [req EXCEPT ![p] = "over"] /\ addr' = [addr EXCEPT ![p] = e]
        /\ SendLater(p)
    BY <1>1 DEF PayFree
  <2> QED
    BY <2>1, <2>2, <2>3 DEF SendLater, Records
<1>2. ASSUME NEW p \in Payers, NEW e \in Addresses, NEW a \in Offers, PayAsk(p, a, e)
      PROVE  TypeOK' /\ AsksCharge'
  BY <1>2 DEF PayAsk, Enough
<1>3. ASSUME NEW p \in Payers, PayAnswered(p)
      PROVE  TypeOK' /\ AsksCharge'
  <2>1. ask[p] \in Charges
    BY <1>3 DEF PayAnswered
  <2>2. UNCHANGED <<pack, sentinel, delivered, addr, accepted, purged, restarts>>
    BY <1>3 DEF PayAnswered
  <2>3. req' \in [Payers -> {"new", "charging", "over"}]
        /\ ask' \in [Payers -> Charges \cup {0}] /\ AsksCharge'
    BY <1>3 DEF PayAnswered
  <2>4. intent' \in [Intents -> {"none", "requires_action", "succeeded"}]
        /\ bill' \in [Charges -> Addresses \cup {"none"}]
    BY <1>3, <2>1, ExecuteType DEF PayAnswered
  <2>5. private' \in BOOLEAN /\ record' \in Records
    <3>1. UNCHANGED <<private, record>> \/ RecordPayment(Paid(ask[p]))
      BY <1>3 DEF PayAnswered
    <3>2. Paid(ask[p]) \in Records
      BY <2>1 DEF Records
    <3>3. private \in BOOLEAN /\ record \in Records
      BY DEF Records
    <3> HIDE DEF TypeOK
    <3> QED
      BY <3>1, <3>2, <3>3, WrittenType
  <2>6. mail' \in [Senders -> Ended \cup {"none", "queued", "claiming", "loading",
                                          "posting", "accepted", "refused"}]
    <3>1. mail' = mail \/ SendLater(p)
      BY <1>3 DEF PayAnswered
    <3> QED
      BY <3>1 DEF SendLater
  <2> QED
    BY <2>2, <2>3, <2>4, <2>5, <2>6 DEF Records
<1>4. ASSUME NEW t \in Tips, Donate(t) PROVE TypeOK' /\ AsksCharge'
  BY <1>4 DEF Donate
<1>5. ASSUME NEW i \in Intents, Confirmed(i) PROVE TypeOK' /\ AsksCharge'
  BY <1>5 DEF Confirmed
<1>6. ASSUME NEW i \in Intents, Webhook(i) PROVE TypeOK' /\ AsksCharge'
  <2>1. UNCHANGED <<pack, sentinel, stripe, pays, accepted, purged, restarts>>
    BY <1>6 DEF Webhook
  <2>2. delivered' \in [Intents -> 0..MaxDeliveries]
    BY <1>6 DEF Webhook
  <2>3. private' \in BOOLEAN /\ record' \in Records
    <3>1. Paid(i) \in Records
      BY DEF Records
    <3> HIDE DEF TypeOK
    <3> QED
      BY <1>6, <3>1, WrittenType DEF Webhook
  <2>4. mail' \in [Senders -> Ended \cup {"none", "queued", "claiming", "loading",
                                          "posting", "accepted", "refused"}]
    BY <1>6 DEF Webhook, SendLater
  <2> QED
    BY <2>1, <2>2, <2>3, <2>4 DEF Records
<1>7. ASSUME NEW m \in Senders, Mailer(m) PROVE TypeOK' /\ AsksCharge'
  BY <1>7 DEF Mailer, MailOpen, MailClaim, MailLoad, MailPost, MailRecord
<1>8. CASE Purge
  <2>1. purged' \in 0..2 /\ UNCHANGED <<stripe, delivered, pays, mails, restarts>>
    BY <1>8 DEF Purge
  <2>2. \/ pack' = FALSE /\ UNCHANGED <<private, record, sentinel>>
        \/ private' = FALSE /\ record' = NoRecord /\ sentinel' = "absent" /\ UNCHANGED pack
    BY <1>8 DEF Purge
  <2> QED
    BY <2>1, <2>2
<1>9. CASE Restart
  <2>1. DiesPaying
    BY <1>9 DEF Restart
  <2>2. /\ private' \in BOOLEAN /\ record' \in Records
        /\ intent' \in [Intents -> {"none", "requires_action", "succeeded"}]
        /\ bill' \in [Charges -> Addresses \cup {"none"}]
    <3> HIDE DEF TypeOK, AsksCharge
    <3> QED
      BY <2>1, DyingType
  <2>3. /\ req' \in [Payers -> {"new", "charging", "over"}]
        /\ ask' \in [Payers -> Charges \cup {0}] /\ AsksCharge'
    BY <1>9 DEF Restart
  <2>4. mail' \in [Senders -> Ended \cup {"none", "queued", "claiming", "loading",
                                          "posting", "accepted", "refused"}]
    <3>1. mail' = [m \in Senders |-> IF mail[m] \in Ended \cup {"none"}
                                     THEN mail[m] ELSE "lost"]
      BY <1>9 DEF Restart
    <3> QED
      BY <3>1
  <2>5. /\ UNCHANGED <<pack, delivered, addr, accepted, purged>>
        /\ restarts' \in 0..MaxRestarts /\ sentinel' \in {sentinel, "claimed"}
    BY <1>9 DEF Restart
  <2> HIDE DEF Charges, Ended
  <2> QED
    BY <2>2, <2>3, <2>4, <2>5 DEF Records
<1>10. CASE UNCHANGED vars
  BY <1>10 DEF vars
<1> QED
  BY <1>1, <1>2, <1>3, <1>4, <1>5, <1>6, <1>7, <1>8, <1>9, <1>10 DEF Next

\* A charge, once made, stays made.
LEMMA ChargedStays ==
  ASSUME TypeOK, AsksCharge, [Next]_vars, NEW i \in Intents, intent[i] = "succeeded"
  PROVE  intent'[i] = "succeeded"
<1> USE DEF TypeOK, AsksCharge, Intents, Execute, files, stripe, pays, mails, DiesPaying
<1>1. CASE \E p \in Payers : PayAnswered(p)
  BY <1>1 DEF PayAnswered
<1>2. CASE Restart
  BY <1>2 DEF Restart
<1>3. CASE UNCHANGED vars
  BY <1>3 DEF vars
<1> QED
  BY <1>1, <1>2, <1>3
     DEF Next, PayFree, PayAsk, Donate, Confirmed, Webhook, Mailer, MailOpen,
         MailClaim, MailLoad, MailPost, MailRecord, Purge

\* What a step puts on record has been charged.
LEMMA ChargedStep ==
  TypeOK /\ AsksCharge /\ RecordIsCharged /\ [Next]_vars => RecordIsCharged'
<1> SUFFICES ASSUME TypeOK, AsksCharge, RecordIsCharged, [Next]_vars
             PROVE  RecordIsCharged'
  OBVIOUS
<1>1. record.of \subseteq Intents
  BY DEF TypeOK, NoRecord, Free, Torn, Paid
<1>2. record'.of \subseteq record.of => RecordIsCharged'
  BY <1>1, ChargedStays DEF RecordIsCharged
<1>3. ASSUME NEW p \in Payers, PayAnswered(p) PROVE RecordIsCharged'
  <2>1. ask[p] \in Intents /\ record' \in {record, Paid(ask[p]), Torn}
    BY <1>3, WhatIsWritten DEF PayAnswered, AsksCharge, Intents
  <2>2. CASE record' = record
    BY <2>2, <1>2
  <2>3. CASE record' # record
    <3>1. Execute(p, "succeeded")
      BY <1>3, <2>3 DEF PayAnswered, Charged
    <3>2. intent'[ask[p]] = "succeeded"
      BY <3>1, <2>1 DEF Execute, TypeOK
    <3> QED
      BY <3>2, <2>1, <2>3 DEF RecordIsCharged, Paid, Torn
  <2> QED
    BY <2>2, <2>3
<1>4. ASSUME NEW i \in Intents, Webhook(i) PROVE RecordIsCharged'
  <2>1. record' \in {record, Paid(i), Torn} /\ intent' = intent /\ intent[i] = "succeeded"
    BY <1>4, WhatIsWritten DEF Webhook, stripe
  <2> QED
    BY <2>1, <1>2 DEF RecordIsCharged, Paid, Torn
<1>5. ASSUME NEW p \in Payers, NEW e \in Addresses, PayFree(p, e) PROVE RecordIsCharged'
  <2>1. record' \in {record, Free, Torn}
    BY <1>5, WhatIsWritten DEF PayFree
  <2> QED
    BY <2>1, <1>2 DEF Free, Torn
<1>6. CASE Purge
  BY <1>6, <1>2 DEF Purge, NoRecord
<1>7. CASE record' = record
  BY <1>7, <1>2
<1>8. CASE Restart
  <2>1. ASSUME NEW p \in Payers, req[p] = "charging", Execute(p, "succeeded"),
               CutOff(Paid(ask[p]))
        PROVE  RecordIsCharged'
    <3>1. ask[p] \in Intents /\ record' \in {record, Paid(ask[p]), Torn}
      BY <2>1, WhatIsWritten DEF AsksCharge, Intents
    <3>2. intent'[ask[p]] = "succeeded"
      BY <2>1, <3>1 DEF Execute, TypeOK
    <3> QED
      BY <3>1, <3>2, <1>2 DEF RecordIsCharged, Paid, Torn
  <2>2. ASSUME UNCHANGED stripe, NEW i \in Intents, intent[i] = "succeeded",
               CutOff(Paid(i))
        PROVE  RecordIsCharged'
    <3>1. record' \in {record, Paid(i), Torn} /\ intent' = intent
      BY <2>2, WhatIsWritten DEF stripe
    <3> QED
      BY <2>2, <3>1, <1>2 DEF RecordIsCharged, Paid, Torn
  <2>3. CASE CutOff(Free)
    <3>1. record' \in {record, Free, Torn}
      BY <2>3, WhatIsWritten
    <3> QED
      BY <3>1, <1>2 DEF Free, Torn
  <2> QED
    BY <1>8, <1>7, <2>1, <2>2, <2>3 DEF Restart, DiesPaying
<1> QED
  BY <1>3, <1>4, <1>5, <1>6, <1>7, <1>8
     DEF Next, vars, files, PayAsk, Donate, Confirmed, Mailer, MailOpen,
         MailClaim, MailLoad, MailPost, MailRecord

\* A sender only leaves "none" when its request or its delivery is answered.
LEMMA StartedStep == TypeOK /\ StartedOnce /\ [Next]_vars => StartedOnce'
<1> SUFFICES ASSUME TypeOK, StartedOnce, [Next]_vars PROVE StartedOnce'
  OBVIOUS
<1> USE BoundsAssumption, SendersAssumption
    DEF TypeOK, StartedOnce, Senders, Deliveries, files, stripe, pays, mails
<1>1. ASSUME NEW p \in Payers, NEW e \in Addresses, PayFree(p, e) PROVE StartedOnce'
  BY <1>1 DEF PayFree, SendLater
<1>2. ASSUME NEW p \in Payers, NEW e \in Addresses, NEW a \in Offers, PayAsk(p, a, e)
      PROVE  StartedOnce'
  BY <1>2 DEF PayAsk
<1>3. ASSUME NEW p \in Payers, PayAnswered(p) PROVE StartedOnce'
  <2>1. mail' = mail \/ SendLater(p)
    BY <1>3 DEF PayAnswered
  <2>2. req' = [req EXCEPT ![p] = "over"] /\ delivered' = delivered
    BY <1>3 DEF PayAnswered
  <2> QED
    BY <2>1, <2>2 DEF SendLater
<1>4. ASSUME NEW i \in Intents, Webhook(i) PROVE StartedOnce'
  <2>1. req' = req /\ delivered' = [delivered EXCEPT ![i] = @ + 1]
    BY <1>4 DEF Webhook
  <2>2. mail' = mail \/ (i \in Charges /\ SendLater(<<i, delivered[i] + 1>>))
    BY <1>4 DEF Webhook, MailsFor
  <2>3. \A c \in Charges : c \in Intents
    BY DEF Intents
  <2>4. \A c \in Charges : delivered[c] \in 0..MaxDeliveries
    BY <2>3
  <2>5. delivered[i] + 1 \in 1..MaxDeliveries
    BY <1>4 DEF Webhook
  <2>6. ASSUME NEW p \in Payers, req'[p] # "over" PROVE mail'[p] = "none"
    <3>1. i \in Charges => p # <<i, delivered[i] + 1>>
      BY <2>5
    <3> QED
      BY <2>1, <2>2, <2>6, <3>1 DEF SendLater
  <2>7. ASSUME NEW c \in Charges, NEW n \in 1..MaxDeliveries, n > delivered'[c]
        PROVE  mail'[<<c, n>>] = "none"
    <3>1. delivered'[c] = IF c = i THEN delivered[i] + 1 ELSE delivered[c]
      BY <2>1, <2>3
    <3>2. n > delivered[c] /\ <<c, n>> # <<i, delivered[i] + 1>>
      BY <2>7, <3>1, <2>4
    <3> QED
      BY <2>2, <3>2 DEF SendLater
  <2> QED
    BY <2>6, <2>7
<1>5. ASSUME NEW m \in Senders, Mailer(m) PROVE StartedOnce'
  BY <1>5 DEF Mailer, MailOpen, MailClaim, MailLoad, MailPost, MailRecord
<1>6. CASE Restart
  BY <1>6 DEF Restart
<1>7. CASE UNCHANGED <<req, mail, delivered>>
  BY <1>7
<1> QED
  BY <1>1, <1>2, <1>3, <1>4, <1>5, <1>6, <1>7
     DEF Next, vars, Donate, Confirmed, Purge

\* The claim file, the pack and the senders stay in step: also while the cleaner
\* takes the one away and then the other.
LEMMA ClaimStep == TypeOK /\ StartedOnce /\ OneClaim /\ [Next]_vars => OneClaim'
<1> SUFFICES ASSUME TypeOK, StartedOnce, OneClaim, [Next]_vars PROVE OneClaim'
  OBVIOUS
<1> USE DEF OneClaim, NoneFailed, Posters, Claimants
<1> DEFINE Kept == UNCHANGED <<pack, sentinel, accepted, purged>>
<1>1. mail \in [Senders -> Ended \cup {"none", "queued", "claiming", "loading",
                                       "posting", "accepted", "refused"}]
  BY DEF TypeOK
<1>2. ASSUME NEW m \in Senders, mail[m] = "none", SendLater(m), Kept PROVE OneClaim'
  BY <1>2, <1>1 DEF SendLater
<1>3. CASE Kept /\ UNCHANGED mail
  BY <1>3
<1>4. ASSUME NEW p \in Payers, NEW e \in Addresses, PayFree(p, e) PROVE OneClaim'
  BY <1>4, <1>2 DEF PayFree, StartedOnce, Senders
<1>5. ASSUME NEW p \in Payers, PayAnswered(p) PROVE OneClaim'
  <2>1. Kept /\ (mail' = mail \/ SendLater(p)) /\ mail[p] = "none"
    BY <1>5 DEF PayAnswered, StartedOnce
  <2> QED
    BY <2>1, <1>2, <1>3 DEF Senders
<1>6. ASSUME NEW i \in Intents, Webhook(i) PROVE OneClaim'
  <2>1. Kept /\ (mail' = mail \/ (i \in Charges /\ SendLater(<<i, delivered[i] + 1>>)))
    BY <1>6 DEF Webhook, MailsFor
  <2>2. delivered[i] + 1 \in 1..MaxDeliveries /\ delivered[i] + 1 > delivered[i]
    BY <1>6, BoundsAssumption DEF Webhook, TypeOK
  <2>3. i \in Charges => /\ <<i, delivered[i] + 1>> \in Senders
                         /\ mail[<<i, delivered[i] + 1>>] = "none"
    BY <2>2 DEF Senders, Deliveries, StartedOnce
  <2> QED
    BY <2>1, <2>3, <1>2, <1>3
<1>7. ASSUME NEW m \in Senders, Mailer(m) PROVE OneClaim'
  <2>1. CASE MailOpen(m)
    BY <2>1, <1>1 DEF MailOpen
  <2>2. CASE MailClaim(m)
    BY <2>2, <1>1 DEF MailClaim, WinsClaim
  <2>3. CASE MailLoad(m)
    BY <2>3, <1>1 DEF MailLoad, files
  <2>4. CASE MailPost(m)
    BY <2>4, <1>1 DEF MailPost, files
  <2>5. CASE MailRecord(m)
    BY <2>5, <1>1 DEF MailRecord
  <2> QED
    BY <1>7, <2>1, <2>2, <2>3, <2>4, <2>5 DEF Mailer
<1>8. CASE Purge
  BY <1>8 DEF Purge, PurgeOrder, TypeOK, mails
<1>9. CASE Restart
  BY <1>9, <1>1 DEF Restart, Ended, files
<1> QED
  BY <1>3, <1>4, <1>5, <1>6, <1>7, <1>8, <1>9
     DEF Next, vars, PayAsk, Donate, Confirmed, files, mails
-----------------------------------------------------------------------------
\* A finished job starts with its pack, and nothing stored about a payer.
LEMMA InitInv == Init => IInv
<1> SUFFICES ASSUME Init PROVE IInv
  OBVIOUS
<1> USE OffersAssumption, BoundsAssumption
    DEF Init, Charges, MinCharge, Intents, Senders, Deliveries, NoRecord
<1>1. TypeOK
  <2>1. /\ 0 \in 0..MaxDeliveries /\ 0 \in 0..MaxRestarts /\ 0 \in 0..2
    OBVIOUS
  <2>2. /\ delivered \in [Intents -> 0..MaxDeliveries]
        /\ restarts \in 0..MaxRestarts /\ purged \in 0..2
    BY <2>1
  <2> QED
    BY <2>2 DEF TypeOK, Ended
<1>2. AsksCharge /\ RecordIsCharged /\ StartedOnce
  BY DEF AsksCharge, RecordIsCharged, StartedOnce
<1>3. OneClaim
  BY DEF OneClaim, NoneFailed, Posters, Claimants
<1> QED
  BY <1>1, <1>2, <1>3 DEF IInv

\* The strengthened invariant holds throughout.
THEOREM PayInvariant == Spec => []IInv
<1>1. IInv /\ [Next]_vars => IInv'
  BY TypeStep, ChargedStep, StartedStep, ClaimStep DEF IInv
<1> QED
  BY InitInv, <1>1, PTL DEF Spec

\* Every component of the payment path keeps its type.
THEOREM PayTypeCorrect == Spec => []TypeOK
<1>1. IInv => TypeOK
  BY DEF IInv
<1> QED
  BY PayInvariant, <1>1, PTL

\* A payment on record was charged, whatever was retried, delivered or cut off.
THEOREM RecordedIsCharged == Spec => []RecordIsCharged
<1>1. IInv => RecordIsCharged
  BY DEF IInv
<1> QED
  BY PayInvariant, <1>1, PTL

\* Any number of requests and deliveries of their events send one message, as long
\* as no attempt was recorded as failed.
THEOREM MailIsSentOnce == Spec => []OneMail
<1>1. IInv => OneMail
  BY DEF IInv, OneClaim, NoneFailed, OneMail, Posters
<1> QED
  BY PayInvariant, <1>1, PTL

\* A paid record is lost with the job, or torn where the record of a payment was being
\* written (pay_router.py:147): no $0 download writes over one that can be read, nor
\* tears it, whatever fails and wherever the process dies.
THEOREM PaidIsKept == Spec => RecordKeepsPaid
<1> DEFINE Whole  == record'.status = "paid" \/ purged' # purged \/ Fault("unread")
           NoFree == \A p \in Payers : req[p] = "new" => req'[p] = "new"
           Keeps  == record.status = "paid" => Whole \/ (record' = Torn /\ NoFree)
<1>1. IInv /\ [Next]_vars => [Keeps]_vars
  <2> SUFFICES ASSUME IInv, Next, record.status = "paid"
               PROVE  Whole \/ (record' = Torn /\ NoFree)
    OBVIOUS
  <2>1. ASSUME NEW v, v.status = "paid", RecordPayment(v) \/ CutOff(v)
        PROVE  Whole \/ record' = Torn
    BY <2>1, WhatIsWritten
  <2>2. ASSUME RecordPayment(Free) \/ CutOff(Free) PROVE Whole
    <3>1. KeepsPrior(Free)
      BY DEF KeepsPrior, Free
    <3> QED
      BY <2>2, <3>1, WhatIsWritten
  <2>3. ASSUME NEW p \in Payers, NEW e \in Addresses, PayFree(p, e) PROVE Whole
    BY <2>3, <2>2 DEF PayFree
  <2>4. ASSUME NEW p \in Payers, PayAnswered(p)
        PROVE  Whole \/ (record' = Torn /\ NoFree)
    <3>1. record' = record \/ RecordPayment(Paid(ask[p]))
      BY <2>4 DEF PayAnswered
    <3>2. NoFree
      BY <2>4 DEF PayAnswered, IInv, TypeOK
    <3>3. Paid(ask[p]).status = "paid"
      BY DEF Paid
    <3> QED
      BY <3>1, <3>2, <3>3, <2>1
  <2>5. ASSUME NEW i \in Intents, Webhook(i)
        PROVE  Whole \/ (record' = Torn /\ NoFree)
    <3>1. Paid(i).status = "paid" /\ RecordPayment(Paid(i)) /\ NoFree
      BY <2>5 DEF Webhook, Paid, pays
    <3> QED
      BY <3>1, <2>1
  <2>6. CASE Purge
    BY <2>6 DEF Purge, IInv, TypeOK
  <2>7. CASE record' = record
    BY <2>7
  <2>8. CASE Restart
    <3>1. NoFree
      BY <2>8 DEF Restart
    <3>2. \/ record' = record \/ CutOff(Free)
          \/ \E i : CutOff(Paid(i))
      BY <2>8 DEF Restart, DiesPaying
    <3>3. ASSUME NEW i, CutOff(Paid(i)) PROVE Whole \/ record' = Torn
      BY <3>3, <2>1 DEF Paid
    <3> QED
      BY <3>1, <3>2, <3>3, <2>2, <2>7
  <2> QED
    BY <2>3, <2>4, <2>5, <2>6, <2>7, <2>8
       DEF Next, files, PayAsk, Donate, Confirmed, Mailer, MailOpen,
           MailClaim, MailLoad, MailPost, MailRecord
<1> QED
  BY PayInvariant, <1>1, PTL DEF Spec, RecordKeepsPaid
=============================================================================
