SPECIFICATION Spec
CONSTANTS
  a = a
  b = b
  s1 = s1
  s2 = s2
  Checkouts = {a}
  Shops = {s1, s2}
  Quote <- OneQuote
  Totals <- DriftTotals
  MaxRetries = 1
  MaxRestarts = 1
  Faults = {"gate_closed", "payment", "store", "shop", "cancel_order", "lego_session", "audit", "operator", "stripe_denies"}
SYMMETRY Symmetry
INVARIANTS
  TypeOK
  OrdersFitHold
  CapturedIsDelivered
  CompensatedIsClean
  OrdersOutliveDeadline
  MirrorIsTrue
PROPERTIES
  SettledIsFinal
  ReconcilerHandsOff
CHECK_DEADLOCK FALSE
