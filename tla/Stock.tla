------------------------------- MODULE Stock --------------------------------
(***************************************************************************)
(* The stock of the product catalogue: ProductService.removeStock with its *)
(* optimistic lock, addStock, the administrator's update of a product, and *)
(* the inventory records.  Any number of calls run at once; they           *)
(* interleave at every await, that is at every database operation, each of *)
(* which is atomic on one document.                                        *)
(*                                                                         *)
(* A database operation may also fail (connection lost, timeout), and a    *)
(* write that failed may or may not have been applied.                     *)
(***************************************************************************)
EXTENDS Integers, FiniteSets

CONSTANTS
  Calls,        \* addStock and removeStock calls
  Ids,          \* the product ids a call may name
  Catalog,      \* those of them that exist
  Quantities,   \* the quantities a call may name (StockDto: positive)
  Workloads,    \* what the calls may be asked, together
  OpeningStock, \* stock of every product at the start
  EditValues,   \* the stock an administrator may write over it
  MaxEdits,     \* bound: hand edits of one product
  MaxRetries    \* removeStock's maxRetries, 3 in the code

Kinds == {"add", "remove"}
Requests == [kind : Kinds, id : Ids, qty : Quantities]

ASSUME StockAssumption ==
  /\ Catalog \subseteq Ids
  /\ Quantities \subseteq Nat \ {0}
  /\ Workloads \subseteq [Calls -> Requests]
  /\ OpeningStock \in Nat
  /\ EditValues \subseteq Int
  /\ MaxEdits \in Nat
  /\ MaxRetries \in Nat \ {0}

VARIABLES
  stock,    \* Product.stock
  version,  \* Product.version
  edits,    \* history: hand edits of the product's stock
  pc,       \* where a call stands
  call,     \* what a call was asked: kind, product id, quantity
  seen,     \* what removeStock last read of its product
  retries,  \* removeStock's retries
  took,     \* history: decrements this call has applied
  faults,   \* history: database errors this call has met
  records   \* inventory records this call has written

vars == <<stock, version, edits, pc, call, seen, retries, took, faults, records>>

locals == <<pc, call, seen, retries, took, faults, records>>
catalog == <<stock, version, edits>>

PCs == {"idle", "read", "cas", "record", "done", "failed"}
Snapshots == [stock : Int, version : Int, edits : Nat]

Ended(c) == pc[c] \in {"done", "failed"}

-----------------------------------------------------------------------------
Init ==
  /\ stock = [p \in Catalog |-> OpeningStock]
  /\ version = [p \in Catalog |-> 1]
  /\ edits = [p \in Catalog |-> 0]
  /\ pc = [c \in Calls |-> "idle"]
  /\ call \in Workloads
  /\ seen = [c \in Calls |-> [stock |-> 0, version |-> 1, edits |-> 0]]
  /\ retries = [c \in Calls |-> 0]
  /\ took = [c \in Calls |-> 0]
  /\ faults = [c \in Calls |-> 0]
  /\ records = [c \in Calls |-> 0]

\* A request reaches the service.
Begin(c) ==
  /\ pc[c] = "idle"
  /\ pc' = [pc EXCEPT ![c] = "read"]
  /\ UNCHANGED <<catalog, call, seen, retries, took, faults, records>>

\* Mutant of CountRetry: one try too many.
CountRetryLate(c) ==
  /\ retries' = [retries EXCEPT ![c] = @ + 1]
  /\ pc' = [pc EXCEPT ![c] = IF retries[c] >= MaxRetries THEN "failed" ELSE "read"]

\* retries++, then give up at maxRetries or go round the loop again.
CountRetry(c) ==
  /\ retries' = [retries EXCEPT ![c] = @ + 1]
  /\ pc' = [pc EXCEPT ![c] = IF retries[c] + 1 >= MaxRetries THEN "failed" ELSE "read"]

\* Mutant of CountFault: the catch goes round the loop without counting.
CountFaultNever(c) ==
  /\ pc' = [pc EXCEPT ![c] = "read"]
  /\ UNCHANGED <<retries, faults>>

\* A database error that reaches the catch of removeStock.
CountFault(c) ==
  /\ faults' = [faults EXCEPT ![c] = @ + 1]
  /\ CountRetry(c)

-----------------------------------------------------------------------------
(* removeStock: read the product, check it, compare and swap, record.      *)

Removing(c, at) == pc[c] = at /\ call[c].kind = "remove"

\* Mutant of Sellable: only an empty shelf is refused.
SellableIfAny(c) ==
  /\ call[c].id \in Catalog
  /\ stock[call[c].id] # 0

Sellable(c) ==
  /\ call[c].id \in Catalog
  /\ stock[call[c].id] # 0
  /\ stock[call[c].id] >= call[c].qty

Read(c) ==
  /\ Removing(c, "read")
  /\ Sellable(c)
  /\ LET p == call[c].id
     IN seen' = [seen EXCEPT ![c] = [stock |-> stock[p], version |-> version[p],
                                     edits |-> edits[p]]]
  /\ pc' = [pc EXCEPT ![c] = "cas"]
  /\ UNCHANGED <<catalog, call, retries, took, faults, records>>

\* Product not found, stock 0, or less stock than asked: thrown through.
Reject(c) ==
  /\ Removing(c, "read")
  /\ ~Sellable(c)
  /\ pc' = [pc EXCEPT ![c] = "failed"]
  /\ UNCHANGED <<catalog, call, seen, retries, took, faults, records>>

ReadFault(c) ==
  /\ Removing(c, "read")
  /\ CountFault(c)
  /\ UNCHANGED <<catalog, call, seen, took, records>>

\* Mutant of Matches: the update filters on _id alone.
MatchesAny(c) == TRUE

Matches(c) == version[call[c].id] = seen[c].version

\* Mutants of Decrement: the version is not bumped, the quantity is not used.
DecrementNoBump(c) ==
  LET p == call[c].id
  IN /\ stock' = [stock EXCEPT ![p] = @ - call[c].qty]
     /\ took' = [took EXCEPT ![c] = @ + 1]
     /\ UNCHANGED <<version, edits>>

DecrementOne(c) ==
  LET p == call[c].id
  IN /\ stock' = [stock EXCEPT ![p] = @ - 1]
     /\ version' = [version EXCEPT ![p] = @ + 1]
     /\ took' = [took EXCEPT ![c] = @ + 1]
     /\ UNCHANGED edits

\* findOneAndUpdate's $inc on the matching document.
Decrement(c) ==
  LET p == call[c].id
  IN /\ stock' = [stock EXCEPT ![p] = @ - call[c].qty]
     /\ version' = [version EXCEPT ![p] = @ + 1]
     /\ took' = [took EXCEPT ![c] = @ + 1]
     /\ UNCHANGED edits

Swap(c) ==
  /\ Removing(c, "cas")
  /\ Matches(c)
  /\ Decrement(c)
  /\ pc' = [pc EXCEPT ![c] = "record"]
  /\ UNCHANGED <<call, seen, retries, faults, records>>

\* Mutants of Conflict: the null answer of the update is taken for success;
\* the retry does not reload the product.
ConflictUnnoticed(c) ==
  /\ Removing(c, "cas")
  /\ ~Matches(c)
  /\ pc' = [pc EXCEPT ![c] = "record"]
  /\ UNCHANGED <<catalog, call, seen, retries, took, faults, records>>

ConflictNoReload(c) ==
  /\ Removing(c, "cas")
  /\ ~Matches(c)
  /\ retries' = [retries EXCEPT ![c] = @ + 1]
  /\ pc' = [pc EXCEPT ![c] = IF retries[c] + 1 >= MaxRetries THEN "failed" ELSE "cas"]
  /\ UNCHANGED <<catalog, call, seen, took, faults, records>>

\* Somebody else's sale bumped the version first.
Conflict(c) ==
  /\ Removing(c, "cas")
  /\ ~Matches(c)
  /\ CountRetry(c)
  /\ UNCHANGED <<catalog, call, seen, took, faults, records>>

\* The update failed; it may have been applied all the same.
SwapFault(c) ==
  /\ Removing(c, "cas")
  /\ CountFault(c)
  /\ \/ UNCHANGED <<catalog, took>>
     \/ Matches(c) /\ Decrement(c)
  /\ UNCHANGED <<call, seen, records>>

Record(c) ==
  /\ Removing(c, "record")
  /\ records' = [records EXCEPT ![c] = @ + 1]
  /\ pc' = [pc EXCEPT ![c] = "done"]
  /\ UNCHANGED <<catalog, call, seen, retries, took, faults>>

\* createRecord throws inside the same try: the catch sends the call round
\* the loop again, with the stock already decremented.
RecordFault(c) ==
  /\ Removing(c, "record")
  /\ CountFault(c)
  /\ \/ UNCHANGED records
     \/ records' = [records EXCEPT ![c] = @ + 1]
  /\ UNCHANGED <<catalog, call, seen, took>>

-----------------------------------------------------------------------------
(* addStock loads the product with findOne, which returns a plain object   *)
(* (lean, then spread): product.save is not a function, so an existing     *)
(* product answers with a TypeError and a missing one with NotFound.       *)

AddStock(c) ==
  /\ pc[c] = "read"
  /\ call[c].kind = "add"
  /\ pc' = [pc EXCEPT ![c] = "failed"]
  /\ UNCHANGED <<catalog, call, seen, retries, took, faults, records>>

-----------------------------------------------------------------------------
(* ProductService.update with a stock in the body: findByIdAndUpdate sets  *)
(* the field, whatever it was, and leaves the version alone.               *)

Update(p, s) ==
  /\ edits[p] < MaxEdits
  /\ stock' = [stock EXCEPT ![p] = s]
  /\ edits' = [edits EXCEPT ![p] = @ + 1]
  /\ UNCHANGED <<version, locals>>

-----------------------------------------------------------------------------
\* What a call does once it has begun.
Step(c) ==
  \/ Read(c) \/ Reject(c) \/ ReadFault(c)
  \/ Swap(c) \/ Conflict(c) \/ SwapFault(c)
  \/ Record(c) \/ RecordFault(c)
  \/ AddStock(c)

Next ==
  \/ \E c \in Calls : Begin(c) \/ Step(c)
  \/ \E p \in Catalog, s \in EditValues : Update(p, s)

Spec == Init /\ [][Next]_vars

\* The event loop runs every continuation and the database answers, with a
\* result or with an error (the driver's timeouts), so a call never stays put.
FairSpec == Spec /\ \A c \in Calls : WF_vars(Step(c))
-----------------------------------------------------------------------------
TypeOK ==
  /\ stock \in [Catalog -> Int]
  /\ version \in [Catalog -> Nat \ {0}]
  /\ edits \in [Catalog -> 0..MaxEdits]
  /\ pc \in [Calls -> PCs]
  /\ call \in [Calls -> Requests]
  /\ seen \in [Calls -> Snapshots]
  /\ retries \in [Calls -> 0..MaxRetries]
  /\ took \in [Calls -> 0..MaxRetries]
  /\ faults \in [Calls -> 0..MaxRetries]
  /\ records \in [Calls -> 0..MaxRetries]

\* The lock: when the version still is the one a call read, and nobody wrote
\* the stock by hand since, the stock still is the one it checked.  removeStock
\* decrements without looking at the stock again, so all depends on this.
LockHolds ==
  \A c \in Calls : pc[c] = "cas" =>
    LET p == call[c].id
    IN version[p] = seen[c].version /\ edits[p] = seen[c].edits
         => stock[p] = seen[c].stock

\* However many sales and retries race, and whatever writes are applied with
\* their answer lost, a product nobody edited by hand is never sold below zero.
NeverOversold ==
  \A p \in Catalog : edits[p] = 0 => stock[p] >= 0

\* The lock prevents overselling whatever runs concurrently: no product is ever
\* sold below zero, even while an administrator corrects its stock.
NeverOversoldAtAll ==
  \A p \in Catalog : stock[p] >= 0

\* What the pass of the loop a call is in has achieved.
Swapped(c) == IF pc[c] \in {"record", "done"} THEN 1 ELSE 0
Recorded(c) == IF pc[c] = "done" THEN 1 ELSE 0

\* A call that met no database error took its quantity exactly once if it
\* succeeded, and wrote exactly one record; if it failed, it took nothing.
\* Each error can repeat the decrement or the record once, never more.
ExactlyOnceUnlessFault ==
  \A c \in Calls :
    /\ took[c] \in Swapped(c)..(Swapped(c) + faults[c])
    /\ records[c] \in Recorded(c)..(Recorded(c) + faults[c])
    /\ records[c] <= took[c]

\* A conflict is never spurious: each is paid for by a decrement some other
\* call applied to the same product, so of several sales one gets through.
ConflictsAreReal ==
  \A c \in Calls : call[c].id \in Catalog =>
    retries[c] - faults[c] <= version[call[c].id] - 1 - took[c]

\* The units missing from a product are the units the calls took, no sale is
\* lost under another's write: version and stock move together.
Units(p) == [c \in Calls |-> IF call[c].id = p THEN took[c] * call[c].qty ELSE 0]

SumOver(units) ==
  LET Sum[S \in SUBSET Calls] ==
        IF S = {} THEN 0
        ELSE LET c == CHOOSE c \in S : TRUE IN Sum[S \ {c}] + units[c]
  IN Sum

TakenFrom(p) == SumOver(Units(p))[Calls]

SalesAddUp ==
  \A p \in Catalog : edits[p] = 0 => stock[p] + TakenFrom(p) = OpeningStock

\* The steps a call may still take: at most four to a round of the retry loop.
StagesLeft == [idle |-> 4, read |-> 3, cas |-> 2, record |-> 1, done |-> 0, failed |-> 0]
Remaining(c) == 4 * (MaxRetries - retries[c]) + StagesLeft[pc[c]]

\* Whatever fails and whoever else sells, each step of a call brings it nearer to its
\* end, and no step of another takes it back: the loop ends after maxRetries rounds.
CallsRunDown ==
  [][\A c \in Calls : /\ Remaining(c)' <= Remaining(c)
                      /\ Step(c) => Remaining(c)' < Remaining(c)]_vars

\* Every call that began is answered: the retry loop always ends.
EveryCallEnds == \A c \in Calls : pc[c] = "read" ~> Ended(c)

\* Taken together, the calls keep the abstract promise of the stock.
Promise == INSTANCE StockPromise
             WITH MaxTakes <- MaxRetries,
                  edited <- {p \in Catalog : edits[p] > 0}
KeepsPromise == Promise!Spec

-----------------------------------------------------------------------------
(* The inductive invariant behind the safety properties.                   *)

\* A snapshot is of an existing product, in its past, and covers the request.
SnapshotInv(c) ==
  LET p == call[c].id
  IN pc[c] \in {"cas", "record"} =>
       /\ p \in Catalog
       /\ seen[c].version <= version[p]
       /\ seen[c].edits <= edits[p]
       /\ call[c].qty <= seen[c].stock
       /\ pc[c] = "cas" =>
            /\ version[p] = seen[c].version /\ edits[p] = seen[c].edits
                 => stock[p] = seen[c].stock
            /\ retries[c] - faults[c] <= seen[c].version - 1 - took[c]

\* Every pass of the loop takes and records at most once.
LoopInv(c) ==
  /\ pc[c] # "failed" => retries[c] < MaxRetries
  /\ faults[c] <= retries[c]
  /\ took[c] \in Swapped(c)..(Swapped(c) + faults[c])
  /\ records[c] \in Recorded(c)..(Recorded(c) + faults[c])
  /\ records[c] <= took[c] - (IF pc[c] = "record" THEN 1 ELSE 0)

IInv ==
  /\ TypeOK
  /\ NeverOversold
  /\ ConflictsAreReal
  /\ \A c \in Calls : SnapshotInv(c) /\ LoopInv(c)

=============================================================================
