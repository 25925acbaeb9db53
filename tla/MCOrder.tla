------------------------------ MODULE MCOrder -------------------------------
(***************************************************************************)
(* One cart with two lines, checked out twice (a double click, or a second *)
(* attempt), and two redirects of the gateway, with either status.  Both   *)
(* lines are of p1, one ring in two sizes, and three units of it are left, *)
(* so the checkouts compete for them, takes that nobody noticed use them   *)
(* up, and a checkout can fail between its lines; with one line taken out  *)
(* of the cart both can get as far as saving the order.                    *)
(***************************************************************************)
EXTENDS Order, TLC

CONSTANTS r1, r2, b1, b2, k1, p1, i1, i2

MCRequests == {r1, r2}
MCCallbacks == {b1, b2}
MCItems == {i1, i2}
MCProductOf == i1 :> p1 @@ i2 :> p1
MCOpeningStock == p1 :> 3
MCBaskets == {k1 :> {i1, i2}}

\* The redirects are interchangeable, and so are the lines; no CHOOSE of Order
\* ranges over them.
MCSymmetry == {f @@ g : f \in Permutations(MCCallbacks), g \in Permutations(MCItems)}
=============================================================================
