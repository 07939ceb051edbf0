SPECIFICATION FairSpec
CONSTANTS
  a = a
  b = b
  s1 = s1
  s2 = s2
  Checkouts = {a}
  Shops = {s1}
  Quote <- OneQuote
  Totals <- DriftTotals
  MaxRetries = 1
  MaxRestarts = 1
  Faults = {"gate_closed", "payment", "shop", "cancel_order", "lego_session", "audit", "operator"}
PROPERTIES
  EverySagaSettles
  OrphanHoldReleased
CHECK_DEADLOCK FALSE
