SPECIFICATION Spec
CONSTANTS
  a = a
  b = b
  s1 = s1
  s2 = s2
  Checkouts = {a, b}
  Shops = {}
  Quote <- OneQuote
  Totals <- DriftTotals
  MaxRetries = 0
  MaxRestarts = 1
  Faults = {"payment", "store", "audit", "operator"}
SYMMETRY PairSymmetry
INVARIANTS
  OneSagaPerJob
  FetchedRowsStillTrue
CHECK_DEADLOCK FALSE
