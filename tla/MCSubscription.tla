--------------------------- MODULE MCSubscription ---------------------------
(* Model values for Subscription.                                          *)
EXTENDS Subscription
CONSTANTS c1, c2, h1, h2
=============================================================================
