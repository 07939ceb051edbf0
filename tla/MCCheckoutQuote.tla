--------------------------- MODULE MCCheckoutQuote ---------------------------
(* CheckoutQuote on small instances.                                         *)
EXTENDS CheckoutQuote, TLC

CONSTANTS e1, e2, lego, near, far

\* Counts below, at and far above the cap of 3.
SmallOrders == [{e1, e2} -> {1, 3, 7}]

At(s, p, q, c) == [seller |-> s, price |-> p, qty |-> q, shipping |-> c]

LegoLots(prices, q) == {<<>>} \cup {<<At(lego, p, q, 3)>> : p \in prices}

\* One shop ships for 4, the other for nothing; each offers nothing, or a lot
\* that may be sold out, short or ample.  The last book has two lots of one shop.
ShopLots(prices, qtys) ==
  LET offers(s, c) == {<<>>} \cup {<<At(s, p, q, c)>> : p \in prices, q \in qtys}
  IN  {n \o f : n \in offers(near, 0), f \in offers(far, 4)}
      \cup {<<At(far, 3, 1, 4), At(far, 1, 3, 4)>>}

SmallLego  == LegoLots({1, 3}, 3)
SmallShops == ShopLots({1, 2}, {0, 1, 3})
=============================================================================
