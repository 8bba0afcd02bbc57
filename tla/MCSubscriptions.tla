-------------------------- MODULE MCSubscriptions --------------------------
(* Subscriptions on small instances.                                       *)
EXTENDS Subscriptions

CONSTANTS u1, r1, r2, depth

OneUser == {u1}
TwoRecons == {r1, r2}
OneChannel == {depth}
=============================================================================
