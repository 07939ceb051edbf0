--------------------------- MODULE MCBuildPackPay ---------------------------
(* BuildPackPay on small instances.                                          *)
EXTENDS BuildPackPay, TLC

CONSTANTS p1, p2, alice, bob, tip

\* $0, one cent too little, and the least amount Stripe charges.
ThreeOffers == {0, 49, 50}
=============================================================================
