---------------------------- MODULE StockPromise ----------------------------
(***************************************************************************)
(* What the shop's stock promises to the code that sells from it, with no  *)
(* word on how ProductService.removeStock gets there: a sale takes its     *)
(* whole quantity in one step, only from stock that covers it, and no call *)
(* takes more often than it may try.  A product whose stock an             *)
(* administrator has overwritten by hand is out of the promise, because    *)
(* the overwrite ignores the version the sales compare.                    *)
(***************************************************************************)
EXTENDS Integers

CONSTANTS
  Catalog,      \* the products
  Calls,        \* the calls that take stock
  Quantities,   \* what one call may take, positive integers
  MaxTakes      \* how often one call may take

VARIABLES
  stock,    \* units on the shelf, per product
  took,     \* how many times a call has taken its quantity
  edited    \* products whose stock was overwritten by hand

vars == <<stock, took, edited>>

Init ==
  /\ stock \in [Catalog -> Nat]
  /\ took = [c \in Calls |-> 0]
  /\ edited = {}

Take(c, p, q) ==
  /\ took[c] < MaxTakes
  /\ q <= stock[p] \/ p \in edited
  /\ stock' = [stock EXCEPT ![p] = @ - q]
  /\ took' = [took EXCEPT ![c] = @ + 1]
  /\ UNCHANGED edited

Overwrite(p) ==
  /\ stock' \in [Catalog -> Int]
  /\ \A other \in Catalog \ {p} : stock'[other] = stock[other]
  /\ edited' = edited \union {p}
  /\ UNCHANGED took

Next ==
  \/ \E c \in Calls, p \in Catalog, q \in Quantities : Take(c, p, q)
  \/ \E p \in Catalog : Overwrite(p)

Spec == Init /\ [][Next]_vars
=============================================================================
