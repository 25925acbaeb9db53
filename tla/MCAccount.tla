----------------------------- MODULE MCAccount -----------------------------
(***************************************************************************)
(* Two accounts and two calls at once, five calls in all: enough for a     *)
(* code that is sent twice, entered wrong and right, and used to register  *)
(* both accounts with one of two national codes, or for a login, a refresh *)
(* and a logout that overlap.  Times are shortened: an access token and a  *)
(* code live one tick, a refresh token and a verification two, the windows *)
(* of the codes are two and three.  The clock stops at five, when each has *)
(* ended.  A number's document is made once, and may be deleted under the  *)
(* calls that run on it.                                                   *)
(***************************************************************************)
EXTENDS Account

CONSTANTS c1, c2, m1, m2, n1, n2

MCCalls == {c1, c2}
MCUsers == {m1, m2}
MCIds == {n1, n2}
MCSymmetry == Permutations(MCCalls) \cup Permutations(MCUsers) \cup Permutations(MCIds)
=============================================================================
