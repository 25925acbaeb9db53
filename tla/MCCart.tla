------------------------------- MODULE MCCart -------------------------------
(***************************************************************************)
(* Up to two of the customer's calls at once, three in all, on a ring in   *)
(* two sizes, which can be bought twice, and a coin.  Carts live one       *)
(* second and two pass, so that a cart is seen alive, in its last second   *)
(* and past it, and can be renewed.  Two carts: one more than the customer *)
(* may start with; three items: the first cart's, one of the guest cart    *)
(* and one that an overlapping addition makes.                             *)
(***************************************************************************)
EXTENDS Cart, TLC

CONSTANTS c1, c2, p1, p2, small, large

MCCalls == {c1, c2}
MCSizes == {small, large}
MCStock == p1 :> 2 @@ p2 :> 1
MCSymmetry == Permutations(MCCalls) \cup Permutations(MCSizes)
=============================================================================
