SPECIFICATION Spec
CONSTANTS
  a = a
  b = b
  s1 = s1
  s2 = s2
  Checkouts = {a}
  Shops = {}
  Quote <- OneQuote
  Totals <- DriftTotals
  MaxRetries = 0
  MaxRestarts = 1
  Faults = {}
INVARIANTS
  FailedHasNoOrders
CHECK_DEADLOCK FALSE
