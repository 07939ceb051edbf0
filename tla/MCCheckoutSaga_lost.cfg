SPECIFICATION Spec
CONSTANTS
  a = a
  b = b
  s1 = s1
  s2 = s2
  Checkouts = {a}
  Shops = {}
  Quote <- OneQuote
  Totals <- DriftTotals
  MaxRetries = 0
  MaxRestarts = 0
  Faults = {}
INVARIANTS
  ConfirmedOrdersKept
CHECK_DEADLOCK FALSE
