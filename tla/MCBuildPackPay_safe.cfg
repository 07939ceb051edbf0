SPECIFICATION FairSpec
CONSTANTS
  p1 = p1
  p2 = p2
  alice = alice
  bob = bob
  tip = tip
  Payers = {p1, p2}
  Addresses = {alice, bob}
  Offers <- ThreeOffers
  Tips = {tip}
  MaxDeliveries = 1
  MaxRestarts = 1
  Faults = {"stripe", "resend", "email_off"}
INVARIANTS
  TypeOK
  RecordIsCharged
  OneMail
PROPERTIES
  RecordKeepsPaid
  EveryChargeRecorded
  EveryChargeMailed
CHECK_DEADLOCK FALSE
