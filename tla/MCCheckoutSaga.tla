--------------------------- MODULE MCCheckoutSaga ---------------------------
(* CheckoutSaga on small instances.                                          *)
EXTENDS CheckoutSaga, TLC

CONSTANTS a, b, s1, s2

\* A quote of 100 cents authorises 105: one total fits the hold, one does not.
OneQuote    == 100
DriftTotals == {105, 106}

Symmetry == Permutations({s1, s2})
PairSymmetry == Permutations({a, b})
=============================================================================
