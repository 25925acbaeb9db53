------------------------------ MODULE MCStock -------------------------------
(***************************************************************************)
(* Two sales compete for more than the stock of one product, beside a call *)
(* that is a restock of the product in one workload, and a sale of an      *)
(* unknown product in the other.  With lost answers a call decrements up   *)
(* to three times, so two sales already exhaust each other's retries.      *)
(***************************************************************************)
EXTENDS Stock, TLC

CONSTANTS c1, c2, c3, p1, missing

MCCalls == {c1, c2, c3}

Ask(k, id, q) == [kind |-> k, id |-> id, qty |-> q]

MCWorkloads ==
  {c1 :> Ask("remove", p1, 1) @@ c2 :> Ask("remove", p1, 2) @@ c3 :> third :
     third \in {Ask("add", p1, 1), Ask("remove", missing, 1)}}
=============================================================================
