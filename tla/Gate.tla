-------------------------------- MODULE Gate --------------------------------
(***************************************************************************)
(* IpThrottleGuard, the first guard of every request: a counter per        *)
(* address of the client and kind of route, kept in the memory of the      *)
(* process.  The guard is global and runs before the one that finds the    *)
(* user, so that its second counter, per user, is never reached.           *)
(***************************************************************************)
EXTENDS Integers, Sequences

CONSTANTS
  Clients,      \* addresses, as getClientIp takes them from the headers
  Kinds,        \* "sensitive", "public"
  RouteLimit,   \* [Kinds -> Nat]
  RouteWindow,  \* [Kinds -> Nat]
  LastTick      \* bound on the clock

ASSUME GateAssumption ==
  /\ RouteLimit \in [Kinds -> Nat \ {0}] /\ RouteWindow \in [Kinds -> Nat \ {0}]
  /\ LastTick \in Nat

Keys == Clients \X Kinds

VARIABLES
  tick,
  records,   \* ipRequestCounts: [count, reset]; a reset of 0: there is no record
  passed     \* history: when requests were let through since the process started

gateVars == <<tick, records, passed>>

NoRecord == [count |-> 0, reset |-> 0]
NonePassed == [k \in Keys |-> << >>]

GateInit ==
  /\ tick = 1
  /\ records = [k \in Keys |-> NoRecord]
  /\ passed = NonePassed

LimitOf(k) == RouteLimit[k[2]]
WindowOf(k) == RouteWindow[k[2]]

Lapsed(k) == records[k].reset < tick

\* Mutant of Exceeded: the count is compared before it is increased.
ExceededLate(k, count) == count > LimitOf(k) + 1

Exceeded(k, count) == count > LimitOf(k)

\* checkIpLimit: a refused request is counted too, which nothing depends on.
Counted(k) ==
  IF Lapsed(k) THEN [count |-> 1, reset |-> tick + WindowOf(k)]
  ELSE [records[k] EXCEPT !.count = IF Exceeded(k, @ + 1) THEN @ ELSE @ + 1]

Arrive(k) ==
  /\ records' = [records EXCEPT ![k] = Counted(k)]
  /\ passed' = IF ~Lapsed(k) /\ Exceeded(k, records[k].count + 1) THEN passed
               ELSE [passed EXCEPT ![k] = Append(@, tick)]
  /\ UNCHANGED tick

\* One request in a hundred that are let through drops all records that have expired.
Cleanup ==
  /\ records' = [k \in Keys |-> IF Lapsed(k) THEN NoRecord ELSE records[k]]
  /\ \E k \in Keys : \E i \in DOMAIN passed[k] : passed[k][i] = tick
  /\ UNCHANGED <<tick, passed>>

\* The process restarts, and counts from nothing.
Restart ==
  /\ records' = [k \in Keys |-> NoRecord]
  /\ passed' = NonePassed
  /\ UNCHANGED tick

GateTick ==
  /\ tick < LastTick
  /\ tick' = tick + 1
  /\ UNCHANGED <<records, passed>>

GateNext == (\E k \in Keys : Arrive(k)) \/ Cleanup \/ Restart \/ GateTick

GateSpec == GateInit /\ [][GateNext]_gateVars

-----------------------------------------------------------------------------
\* A window that opens when the last one's counter is used up lets through the limit
\* again: no stretch of time as long as a window sees more than twice the limit pass,
\* however the clean-up meets the requests, until the process restarts.
TwiceTheLimitAtMost ==
  \A k \in Keys : LET twice == 2 * LimitOf(k) IN
    \A i \in 1..(Len(passed[k]) - twice) : passed[k][i + twice] > passed[k][i] + WindowOf(k)

-----------------------------------------------------------------------------
(* The inductive invariant.                                                *)

GateTypeOK ==
  /\ tick \in Nat \ {0}
  /\ records \in [Keys -> [count : Nat, reset : Nat]]
  /\ passed \in [Keys -> Seq(Nat)]

\* The requests counted by the present record are the last ones, in its window; all
\* others came before, and those that are the limit further back came a window before.
WindowInv(k) ==
  LET n == Len(passed[k])
      count == records[k].count
      open == records[k].reset - WindowOf(k) IN
  IF records[k] = NoRecord
  THEN /\ \A i \in 1..n : passed[k][i] < tick
       /\ \A i \in 1..(n - LimitOf(k)) : passed[k][i] + WindowOf(k) < tick
  ELSE /\ open \in 1..tick /\ count \in 1..LimitOf(k) /\ count <= n
       /\ \A i \in 1..n : passed[k][i] <= records[k].reset
       /\ \A i \in 1..(n - count) : passed[k][i] < open
       /\ \A i \in 1..(n - count - LimitOf(k)) : passed[k][i] + WindowOf(k) < open

GateInv == GateTypeOK /\ (\A k \in Keys : WindowInv(k)) /\ TwiceTheLimitAtMost
=============================================================================
