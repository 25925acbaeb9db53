---------------------------- MODULE StockProofs -----------------------------
(***************************************************************************)
(* Proofs about Stock for any number of calls, products, quantities, hand  *)
(* edits and retries.  IInv is inductive; the safety properties of the     *)
(* module follow from it, and every step of Stock is a step, or no step,   *)
(* of StockPromise.  SalesAddUp is about a sum over the calls: what a step *)
(* adds to it is found by choosing a set of calls with the fewest members. *)
(* CallsRunDown bounds the steps a call can take.                          *)
(***************************************************************************)
EXTENDS Stock, FiniteSetTheorems, TLAPS

USE StockAssumption

LEMMA InitInv == Init => IInv
<1> SUFFICES ASSUME Init PROVE IInv
  OBVIOUS
<1>1. TypeOK
  BY DEF Init, TypeOK, PCs, Snapshots, Requests
<1>2. NeverOversold /\ ConflictsAreReal
  BY DEF Init, NeverOversold, ConflictsAreReal
<1>3. ASSUME NEW c \in Calls PROVE SnapshotInv(c) /\ LoopInv(c)
  BY DEF Init, SnapshotInv, LoopInv, Swapped, Recorded
<1> QED
  BY <1>1, <1>2, <1>3 DEF IInv

\* Retries of a call that still runs stay below the bound, so counting one
\* more keeps them in their range.
LEMMA CountRetryTypes ==
  ASSUME NEW c \in Calls, TypeOK, LoopInv(c), pc[c] # "failed", CountRetry(c)
  PROVE  /\ retries' \in [Calls -> 0..MaxRetries]
         /\ pc' \in [Calls -> PCs]
         /\ retries'[c] = retries[c] + 1
         /\ pc'[c] \in {"failed", "read"}
         /\ pc'[c] # "failed" => retries'[c] < MaxRetries
         /\ \A d \in Calls \ {c} : retries'[d] = retries[d] /\ pc'[d] = pc[d]
  BY DEF TypeOK, LoopInv, CountRetry, PCs

\* What one decrement by call c does to the product and to every invariant
\* that speaks of another call or of the catalogue.
LEMMA DecrementEffect ==
  ASSUME NEW c \in Calls, IInv, pc[c] = "cas", Matches(c), Decrement(c),
         call' = call, seen' = seen
  PROVE  /\ stock' \in [Catalog -> Int]
         /\ version' \in [Catalog -> Nat \ {0}]
         /\ edits' = edits
         /\ NeverOversold'
         /\ took'[c] = took[c] + 1
         /\ \A d \in Calls \ {c} : took'[d] = took[d]
         /\ version'[call[c].id] = version[call[c].id] + 1
         /\ \A p \in Catalog \ {call[c].id} : stock'[p] = stock[p] /\ version'[p] = version[p]
<1> DEFINE p == call[c].id
<1>1. p \in Catalog /\ call[c].qty \in Nat /\ call[c].qty <= seen[c].stock
      /\ seen[c] \in Snapshots /\ seen[c].edits <= edits[p]
  BY DEF IInv, SnapshotInv, TypeOK, Requests
<1>2. version[p] = seen[c].version
  BY DEF Matches
<1>3. edits[p] = seen[c].edits => stock[p] = seen[c].stock
  BY <1>2 DEF IInv, SnapshotInv
<1>4. /\ stock' = [stock EXCEPT ![p] = @ - call[c].qty]
      /\ version' = [version EXCEPT ![p] = @ + 1]
      /\ took' = [took EXCEPT ![c] = @ + 1]
      /\ edits' = edits
  BY DEF Decrement
<1>5. /\ stock \in [Catalog -> Int] /\ version \in [Catalog -> Nat \ {0}]
      /\ took \in [Calls -> 0..MaxRetries] /\ edits \in [Catalog -> 0..MaxEdits]
  BY DEF IInv, TypeOK
<1>6. edits[p] = 0 => stock[p] >= call[c].qty
  BY <1>1, <1>3, <1>5 DEF Snapshots
<1>7. NeverOversold'
  BY <1>1, <1>4, <1>5, <1>6 DEF IInv, NeverOversold
<1> QED
  BY <1>1, <1>4, <1>5, <1>7

-----------------------------------------------------------------------------
(* IInv is preserved.  The per-call parts of the invariant speak of one    *)
(* call and its product; the lemmas below say what a step of c leaves of   *)
(* the parts that speak of another call d.                                 *)

\* The catalogue as it is, or one decrement further, or edited: the other
\* calls' snapshots stay in the past and their conflicts stay paid for.
LEMMA OthersKept ==
  ASSUME NEW d \in Calls, IInv, call' = call, TypeOK',
         UNCHANGED <<pc[d], seen[d], retries[d], took[d], faults[d], records[d]>>,
         \A p \in Catalog : /\ edits'[p] >= edits[p]
                            /\ version'[p] >= version[p]
                            /\ edits'[p] = edits[p] /\ version'[p] = version[p]
                                 => stock'[p] = stock[p]
  PROVE  /\ SnapshotInv(d)' /\ LoopInv(d)'
         /\ call[d].id \in Catalog =>
              retries'[d] - faults'[d] <= version'[call[d].id] - 1 - took'[d]
<1> DEFINE p == call[d].id
<1>1. SnapshotInv(d) /\ LoopInv(d) /\ TypeOK
  BY DEF IInv
<1>2. seen[d] \in Snapshots /\ call[d] \in Requests
  BY <1>1 DEF TypeOK
<1>3. LoopInv(d)'
  BY <1>1 DEF LoopInv, Swapped, Recorded
<1>4. ASSUME p \in Catalog
      PROVE  /\ version[p] \in Int /\ version'[p] \in Int
             /\ edits[p] \in Int /\ edits'[p] \in Int
             /\ edits'[p] >= edits[p] /\ version'[p] >= version[p]
             /\ edits'[p] = edits[p] /\ version'[p] = version[p]
                  => stock'[p] = stock[p]
  BY <1>1, <1>4 DEF TypeOK
<1>5. SnapshotInv(d)'
  BY <1>1, <1>2, <1>4 DEF SnapshotInv, Snapshots
<1>6. p \in Catalog => retries[d] - faults[d] <= version[p] - 1 - took[d]
  BY DEF IInv, ConflictsAreReal
<1>7. retries[d] \in Int /\ faults[d] \in Int /\ took[d] \in Int
  BY <1>1 DEF TypeOK
<1> QED
  BY <1>3, <1>4, <1>5, <1>6, <1>7

\* A step of call c that keeps the types, the shelf and c's own parts of the
\* invariant keeps the invariant.
LEMMA StepOfOneCall ==
  ASSUME NEW c \in Calls, IInv, TypeOK', NeverOversold', call' = call,
         \A d \in Calls \ {c} :
           UNCHANGED <<pc[d], seen[d], retries[d], took[d], faults[d], records[d]>>,
         \A p \in Catalog : /\ edits'[p] >= edits[p]
                            /\ version'[p] >= version[p]
                            /\ edits'[p] = edits[p] /\ version'[p] = version[p]
                                 => stock'[p] = stock[p],
         SnapshotInv(c)', LoopInv(c)',
         call[c].id \in Catalog =>
           retries'[c] - faults'[c] <= version'[call[c].id] - 1 - took'[c]
  PROVE  IInv'
<1>1. ASSUME NEW d \in Calls, d # c
      PROVE  /\ SnapshotInv(d)' /\ LoopInv(d)'
             /\ call[d].id \in Catalog =>
                  retries'[d] - faults'[d] <= version'[call[d].id] - 1 - took'[d]
  <2>1. UNCHANGED <<pc[d], seen[d], retries[d], took[d], faults[d], records[d]>>
    BY <1>1
  <2> QED
    BY <2>1, OthersKept
<1>2. ConflictsAreReal'
  BY <1>1 DEF ConflictsAreReal
<1> QED
  BY <1>1, <1>2 DEF IInv

\* Steps that leave the catalogue alone meet the conditions on it.
LEMMA CatalogueStill ==
  ASSUME IInv, UNCHANGED catalog
  PROVE  /\ NeverOversold'
         /\ \A p \in Catalog : /\ edits'[p] >= edits[p]
                               /\ version'[p] >= version[p]
                               /\ edits'[p] = edits[p] /\ version'[p] = version[p]
                                    => stock'[p] = stock[p]
  BY DEF IInv, catalog, NeverOversold, TypeOK

LEMMA BeginInv ==
  ASSUME NEW c \in Calls, IInv, Begin(c) PROVE IInv'
<1>1. TypeOK'
  BY DEF IInv, TypeOK, Begin, PCs, catalog
<1>2. SnapshotInv(c)' /\ LoopInv(c)'
  BY DEF IInv, TypeOK, Begin, SnapshotInv, LoopInv, Swapped, Recorded, catalog
<1>3. call[c].id \in Catalog =>
        retries'[c] - faults'[c] <= version'[call[c].id] - 1 - took'[c]
  BY DEF IInv, ConflictsAreReal, Begin, catalog
<1>4. /\ UNCHANGED catalog /\ call' = call
      /\ \A d \in Calls \ {c} :
           UNCHANGED <<pc[d], seen[d], retries[d], took[d], faults[d], records[d]>>
  BY DEF IInv, TypeOK, Begin
<1> QED
  BY <1>1, <1>2, <1>3, <1>4, CatalogueStill, StepOfOneCall

LEMMA ReadInv ==
  ASSUME NEW c \in Calls, IInv, Read(c) PROVE IInv'
<1> DEFINE p == call[c].id
<1>1. p \in Catalog /\ call[c].qty <= stock[p] /\ pc[c] = "read"
  BY DEF Read, Removing, Sellable
<1>2. seen' = [seen EXCEPT ![c] = [stock |-> stock[p], version |-> version[p],
                                   edits |-> edits[p]]]
      /\ pc' = [pc EXCEPT ![c] = "cas"]
      /\ UNCHANGED <<stock, version, edits, call, retries, took, faults, records>>
  BY DEF Read, catalog
<1>3. TypeOK'
  BY <1>1, <1>2 DEF IInv, TypeOK, PCs, Snapshots
<1>4. call[c].id \in Catalog =>
        retries'[c] - faults'[c] <= version'[call[c].id] - 1 - took'[c]
  BY <1>2 DEF IInv, ConflictsAreReal
<1>5. SnapshotInv(c)'
  BY <1>1, <1>2, <1>4 DEF IInv, TypeOK, SnapshotInv, Snapshots
<1>6. LoopInv(c)'
  BY <1>1, <1>2 DEF IInv, TypeOK, LoopInv, Swapped, Recorded
<1>7. /\ UNCHANGED catalog /\ call' = call
      /\ \A d \in Calls \ {c} :
           UNCHANGED <<pc[d], seen[d], retries[d], took[d], faults[d], records[d]>>
  BY <1>2 DEF IInv, TypeOK, catalog
<1> QED
  BY <1>3, <1>4, <1>5, <1>6, <1>7, CatalogueStill, StepOfOneCall

\* Reject and AddStock only fail the call.
LEMMA GiveUpInv ==
  ASSUME NEW c \in Calls, IInv, Reject(c) \/ AddStock(c) PROVE IInv'
<1>1. /\ pc[c] = "read"
      /\ pc' = [pc EXCEPT ![c] = "failed"]
      /\ UNCHANGED <<stock, version, edits, call, seen, retries, took, faults, records>>
  BY DEF Reject, AddStock, Removing, catalog
<1>2. TypeOK'
  BY <1>1 DEF IInv, TypeOK, PCs
<1>3. SnapshotInv(c)' /\ LoopInv(c)'
  BY <1>1 DEF IInv, TypeOK, SnapshotInv, LoopInv, Swapped, Recorded
<1>4. call[c].id \in Catalog =>
        retries'[c] - faults'[c] <= version'[call[c].id] - 1 - took'[c]
  BY <1>1 DEF IInv, ConflictsAreReal
<1>5. /\ UNCHANGED catalog /\ call' = call
      /\ \A d \in Calls \ {c} :
           UNCHANGED <<pc[d], seen[d], retries[d], took[d], faults[d], records[d]>>
  BY <1>1 DEF IInv, TypeOK, catalog
<1> QED
  BY <1>2, <1>3, <1>4, <1>5, CatalogueStill, StepOfOneCall

\* Going round the loop again, or giving up, with nothing else changed: after a
\* failed read, with an error counted, or after a conflict, without one.
LEMMA RetryInv ==
  ASSUME NEW c \in Calls, IInv, CountRetry(c),
         pc[c] \in {"read", "cas"},
         UNCHANGED <<catalog, call, seen, took, records>>,
         \/ faults' = [faults EXCEPT ![c] = @ + 1]
         \/ /\ faults' = faults /\ pc[c] = "cas" /\ ~Matches(c)
  PROVE  IInv'
<1> DEFINE p == call[c].id
<1>1. /\ retries' \in [Calls -> 0..MaxRetries]
      /\ pc' \in [Calls -> PCs]
      /\ retries'[c] = retries[c] + 1
      /\ pc'[c] \in {"failed", "read"}
      /\ pc'[c] # "failed" => retries'[c] < MaxRetries
      /\ \A d \in Calls \ {c} : retries'[d] = retries[d] /\ pc'[d] = pc[d]
  BY CountRetryTypes DEF IInv
<1>2. /\ TypeOK /\ SnapshotInv(c) /\ LoopInv(c)
      /\ p \in Catalog => retries[c] - faults[c] <= version[p] - 1 - took[c]
  BY DEF IInv, ConflictsAreReal
<1>3. /\ faults[c] <= retries[c] /\ retries[c] < MaxRetries
      /\ faults'[c] \in {faults[c], faults[c] + 1}
      /\ faults[c] \in Nat /\ retries[c] \in Nat /\ MaxRetries \in Nat
      /\ faults' \in [Calls -> Int]
      /\ \A d \in Calls \ {c} : faults'[d] = faults[d]
  BY <1>2 DEF LoopInv, TypeOK
<1>4. faults' \in [Calls -> 0..MaxRetries]
  BY <1>2, <1>3 DEF TypeOK
<1>5. TypeOK'
  BY <1>1, <1>2, <1>4 DEF TypeOK, catalog
<1>6. SnapshotInv(c)'
  BY <1>1 DEF SnapshotInv
<1>7. LoopInv(c)'
  BY <1>1, <1>2, <1>3 DEF LoopInv, Swapped, Recorded, TypeOK
<1>8. p \in Catalog => retries'[c] - faults'[c] <= version'[p] - 1 - took'[c]
  <2>1. CASE faults' = [faults EXCEPT ![c] = @ + 1]
    BY <1>1, <1>2, <2>1 DEF TypeOK, catalog
  <2>2. CASE faults' = faults /\ pc[c] = "cas" /\ ~Matches(c)
    <3>1. /\ retries[c] - faults[c] <= seen[c].version - 1 - took[c]
          /\ p \in Catalog /\ seen[c].version <= version[p]
          /\ seen[c].version # version[p]
      BY <1>2, <2>2 DEF SnapshotInv, Matches
    <3>2. seen[c].version \in Int /\ version[p] \in Int /\ took[c] \in Int
          /\ version' = version /\ took' = took
      BY <1>2, <3>1 DEF TypeOK, Snapshots, catalog
    <3> QED
      BY <1>1, <1>3, <2>2, <3>1, <3>2
  <2> QED
    BY <2>1, <2>2
<1>9. \A d \in Calls \ {c} :
        UNCHANGED <<pc[d], seen[d], retries[d], took[d], faults[d], records[d]>>
  BY <1>1, <1>3
<1> QED
  BY <1>5, <1>6, <1>7, <1>8, <1>9, CatalogueStill, StepOfOneCall

LEMMA ReadFaultInv ==
  ASSUME NEW c \in Calls, IInv, ReadFault(c) PROVE IInv'
  BY RetryInv DEF ReadFault, CountFault, Removing

LEMMA ConflictInv ==
  ASSUME NEW c \in Calls, IInv, Conflict(c) PROVE IInv'
  BY RetryInv DEF Conflict, Removing

LEMMA SwapInv ==
  ASSUME NEW c \in Calls, IInv, Swap(c) PROVE IInv'
<1> DEFINE p == call[c].id
<1>1. /\ pc[c] = "cas" /\ Matches(c) /\ Decrement(c)
      /\ pc' = [pc EXCEPT ![c] = "record"]
      /\ UNCHANGED <<call, seen, retries, faults, records>>
  BY DEF Swap, Removing
<1>2. /\ stock' \in [Catalog -> Int]
      /\ version' \in [Catalog -> Nat \ {0}]
      /\ edits' = edits
      /\ NeverOversold'
      /\ took'[c] = took[c] + 1
      /\ \A d \in Calls \ {c} : took'[d] = took[d]
      /\ version'[p] = version[p] + 1
      /\ \A q \in Catalog \ {p} : stock'[q] = stock[q] /\ version'[q] = version[q]
  BY <1>1, DecrementEffect
<1>3. TypeOK /\ SnapshotInv(c) /\ LoopInv(c)
  BY DEF IInv
<1>4. took'[c] <= retries[c] + 1 /\ retries[c] < MaxRetries
      /\ took[c] \in Nat /\ retries[c] \in Nat /\ MaxRetries \in Nat
  BY <1>1, <1>2, <1>3 DEF TypeOK, LoopInv, Swapped
<1>5. took' \in [Calls -> 0..MaxRetries]
  BY <1>1, <1>2, <1>3, <1>4 DEF TypeOK, Decrement
<1>6. TypeOK'
  BY <1>1, <1>2, <1>3, <1>5 DEF TypeOK, PCs
<1>7. SnapshotInv(c)'
  BY <1>1, <1>2, <1>3 DEF SnapshotInv, TypeOK, Snapshots
<1>8. LoopInv(c)'
  BY <1>1, <1>2, <1>3 DEF LoopInv, Swapped, Recorded, TypeOK
<1>9. p \in Catalog => retries'[c] - faults'[c] <= version'[p] - 1 - took'[c]
  BY <1>1, <1>2, <1>3 DEF IInv, ConflictsAreReal, TypeOK
<1>10. \A d \in Calls \ {c} :
         UNCHANGED <<pc[d], seen[d], retries[d], took[d], faults[d], records[d]>>
  BY <1>1, <1>2, <1>3 DEF TypeOK
<1>11. \A q \in Catalog : /\ edits'[q] >= edits[q]
                          /\ version'[q] >= version[q]
                          /\ edits'[q] = edits[q] /\ version'[q] = version[q]
                               => stock'[q] = stock[q]
  BY <1>1, <1>2, <1>3 DEF TypeOK, SnapshotInv
<1> QED
  BY <1>1, <1>2, <1>6, <1>7, <1>8, <1>9, <1>10, <1>11, StepOfOneCall

LEMMA SwapFaultInv ==
  ASSUME NEW c \in Calls, IInv, SwapFault(c) PROVE IInv'
<1> DEFINE p == call[c].id
<1>1. /\ pc[c] = "cas" /\ CountFault(c) /\ CountRetry(c)
      /\ faults' = [faults EXCEPT ![c] = @ + 1]
      /\ UNCHANGED <<call, seen, records>>
  BY DEF SwapFault, Removing, CountFault
<1>2. CASE UNCHANGED <<catalog, took>>
  BY <1>1, <1>2, RetryInv
<1>3. CASE Matches(c) /\ Decrement(c)
  <2>1. /\ stock' \in [Catalog -> Int]
        /\ version' \in [Catalog -> Nat \ {0}]
        /\ edits' = edits
        /\ NeverOversold'
        /\ took'[c] = took[c] + 1
        /\ \A d \in Calls \ {c} : took'[d] = took[d]
        /\ version'[p] = version[p] + 1
        /\ \A q \in Catalog \ {p} : stock'[q] = stock[q] /\ version'[q] = version[q]
    BY <1>1, <1>3, DecrementEffect
  <2>2. TypeOK /\ SnapshotInv(c) /\ LoopInv(c)
    BY DEF IInv
  <2>3. /\ retries' \in [Calls -> 0..MaxRetries]
        /\ pc' \in [Calls -> PCs]
        /\ retries'[c] = retries[c] + 1
        /\ pc'[c] \in {"failed", "read"}
        /\ pc'[c] # "failed" => retries'[c] < MaxRetries
        /\ \A d \in Calls \ {c} : retries'[d] = retries[d] /\ pc'[d] = pc[d]
    BY <1>1, <2>2, CountRetryTypes
  <2>4. /\ took[c] <= faults[c] /\ faults[c] <= retries[c] /\ retries[c] < MaxRetries
        /\ took[c] \in Nat /\ faults[c] \in Nat /\ retries[c] \in Nat
        /\ MaxRetries \in Nat /\ faults'[c] = faults[c] + 1
    BY <1>1, <2>2 DEF LoopInv, Swapped, TypeOK
  <2>5. took' \in [Calls -> 0..MaxRetries] /\ faults' \in [Calls -> 0..MaxRetries]
    BY <1>1, <1>3, <2>2, <2>4 DEF TypeOK, Decrement
  <2>6. TypeOK'
    BY <1>1, <2>1, <2>2, <2>3, <2>5 DEF TypeOK
  <2>7. SnapshotInv(c)'
    BY <2>3 DEF SnapshotInv
  <2>8. LoopInv(c)'
    BY <1>1, <2>1, <2>2, <2>3, <2>4 DEF LoopInv, Swapped, Recorded, TypeOK
  <2>9. p \in Catalog => retries'[c] - faults'[c] <= version'[p] - 1 - took'[c]
    BY <2>1, <2>2, <2>3, <2>4 DEF IInv, ConflictsAreReal, TypeOK
  <2>10. \A d \in Calls \ {c} :
           UNCHANGED <<pc[d], seen[d], retries[d], took[d], faults[d], records[d]>>
    BY <1>1, <2>1, <2>2, <2>3 DEF TypeOK
  <2>11. \A q \in Catalog : /\ edits'[q] >= edits[q]
                            /\ version'[q] >= version[q]
                            /\ edits'[q] = edits[q] /\ version'[q] = version[q]
                                 => stock'[q] = stock[q]
    BY <1>1, <2>1, <2>2 DEF TypeOK, SnapshotInv
  <2> QED
    BY <1>1, <2>1, <2>6, <2>7, <2>8, <2>9, <2>10, <2>11, StepOfOneCall
<1> QED
  BY <1>2, <1>3 DEF SwapFault

LEMMA RecordInv ==
  ASSUME NEW c \in Calls, IInv, Record(c) PROVE IInv'
<1>1. /\ pc[c] = "record"
      /\ records' = [records EXCEPT ![c] = @ + 1]
      /\ pc' = [pc EXCEPT ![c] = "done"]
      /\ UNCHANGED <<stock, version, edits, call, seen, retries, took, faults>>
  BY DEF Record, Removing, catalog
<1>2. TypeOK /\ LoopInv(c)
  BY DEF IInv
<1>3. records' \in [Calls -> 0..MaxRetries]
  BY <1>1, <1>2 DEF TypeOK, LoopInv
<1>4. TypeOK'
  BY <1>1, <1>2, <1>3 DEF TypeOK, PCs
<1>5. SnapshotInv(c)' /\ LoopInv(c)'
  BY <1>1, <1>2 DEF TypeOK, SnapshotInv, LoopInv, Swapped, Recorded
<1>6. call[c].id \in Catalog =>
        retries'[c] - faults'[c] <= version'[call[c].id] - 1 - took'[c]
  BY <1>1 DEF IInv, ConflictsAreReal
<1>7. /\ UNCHANGED catalog /\ call' = call
      /\ \A d \in Calls \ {c} :
           UNCHANGED <<pc[d], seen[d], retries[d], took[d], faults[d], records[d]>>
  BY <1>1, <1>2 DEF TypeOK, catalog
<1> QED
  BY <1>4, <1>5, <1>6, <1>7, CatalogueStill, StepOfOneCall

LEMMA RecordFaultInv ==
  ASSUME NEW c \in Calls, IInv, RecordFault(c) PROVE IInv'
<1>1. /\ pc[c] = "record" /\ CountRetry(c)
      /\ faults' = [faults EXCEPT ![c] = @ + 1]
      /\ records' = records \/ records' = [records EXCEPT ![c] = @ + 1]
      /\ UNCHANGED <<stock, version, edits, call, seen, took>>
  BY DEF RecordFault, Removing, CountFault, catalog
<1>2. TypeOK /\ SnapshotInv(c) /\ LoopInv(c)
  BY DEF IInv
<1>3. /\ retries' \in [Calls -> 0..MaxRetries]
      /\ pc' \in [Calls -> PCs]
      /\ retries'[c] = retries[c] + 1
      /\ pc'[c] \in {"failed", "read"}
      /\ pc'[c] # "failed" => retries'[c] < MaxRetries
      /\ \A d \in Calls \ {c} : retries'[d] = retries[d] /\ pc'[d] = pc[d]
  BY <1>1, <1>2, CountRetryTypes
<1>4. /\ records'[c] <= took[c] /\ records'[c] \in 0..(faults[c] + 1)
      /\ took[c] \in 0..(1 + faults[c]) /\ took[c] \in 0..MaxRetries
      /\ faults[c] <= retries[c] /\ retries[c] < MaxRetries
      /\ faults[c] \in Nat /\ retries[c] \in Nat /\ MaxRetries \in Nat
      /\ faults'[c] = faults[c] + 1
      /\ \A d \in Calls \ {c} : records'[d] = records[d] /\ faults'[d] = faults[d]
  BY <1>1, <1>2 DEF TypeOK, LoopInv, Swapped, Recorded
<1>5. records' \in [Calls -> 0..MaxRetries] /\ faults' \in [Calls -> 0..MaxRetries]
  BY <1>1, <1>2, <1>4 DEF TypeOK
<1>6. TypeOK'
  BY <1>1, <1>2, <1>3, <1>5 DEF TypeOK
<1>7. SnapshotInv(c)' /\ LoopInv(c)'
  BY <1>1, <1>3, <1>4 DEF SnapshotInv, LoopInv, Swapped, Recorded
<1>8. call[c].id \in Catalog =>
        retries'[c] - faults'[c] <= version'[call[c].id] - 1 - took'[c]
  BY <1>1, <1>2, <1>3, <1>4 DEF IInv, ConflictsAreReal, TypeOK
<1>9. /\ UNCHANGED catalog /\ call' = call
      /\ \A d \in Calls \ {c} :
           UNCHANGED <<pc[d], seen[d], retries[d], took[d], faults[d], records[d]>>
  BY <1>1, <1>3, <1>4 DEF catalog
<1> QED
  BY <1>6, <1>7, <1>8, <1>9, CatalogueStill, StepOfOneCall

LEMMA UpdateInv ==
  ASSUME NEW p \in Catalog, NEW s \in EditValues, IInv, Update(p, s) PROVE IInv'
<1>1. /\ edits[p] < MaxEdits
      /\ stock' = [stock EXCEPT ![p] = s]
      /\ edits' = [edits EXCEPT ![p] = @ + 1]
      /\ UNCHANGED <<version, pc, call, seen, retries, took, faults, records>>
  BY DEF Update, locals
<1>2. TypeOK
  BY DEF IInv
<1>3. TypeOK'
  BY <1>1, <1>2 DEF TypeOK
<1>4. NeverOversold'
  BY <1>1, <1>2 DEF IInv, NeverOversold, TypeOK
<1>5. \A q \in Catalog : /\ edits'[q] >= edits[q]
                         /\ version'[q] >= version[q]
                         /\ edits'[q] = edits[q] /\ version'[q] = version[q]
                              => stock'[q] = stock[q]
  BY <1>1, <1>2 DEF TypeOK
<1>6. ASSUME NEW d \in Calls
      PROVE  /\ SnapshotInv(d)' /\ LoopInv(d)'
             /\ call[d].id \in Catalog =>
                  retries'[d] - faults'[d] <= version'[call[d].id] - 1 - took'[d]
  BY <1>1, <1>3, <1>5, OthersKept
<1>7. ConflictsAreReal'
  BY <1>1, <1>6 DEF ConflictsAreReal
<1> QED
  BY <1>3, <1>4, <1>6, <1>7 DEF IInv

LEMMA NextInv == IInv /\ [Next]_vars => IInv'
<1> SUFFICES ASSUME IInv, [Next]_vars PROVE IInv'
  OBVIOUS
<1>1. ASSUME NEW c \in Calls, Begin(c) PROVE IInv'
  BY <1>1, BeginInv
<1>2. ASSUME NEW c \in Calls, Step(c) PROVE IInv'
  BY <1>2, ReadInv, GiveUpInv, ReadFaultInv, SwapInv, ConflictInv, SwapFaultInv,
     RecordInv, RecordFaultInv DEF Step
<1>3. ASSUME NEW p \in Catalog, NEW s \in EditValues, Update(p, s) PROVE IInv'
  BY <1>3, UpdateInv
<1>4. CASE UNCHANGED vars
  BY <1>4 DEF vars, IInv, TypeOK, NeverOversold, ConflictsAreReal, SnapshotInv,
     LoopInv, Swapped, Recorded
<1> QED
  BY <1>1, <1>2, <1>3, <1>4 DEF Next

LEMMA InvImplies ==
  IInv => TypeOK /\ LockHolds /\ NeverOversold /\ ExactlyOnceUnlessFault /\ ConflictsAreReal
<1> SUFFICES ASSUME IInv
             PROVE  LockHolds /\ ExactlyOnceUnlessFault
  BY DEF IInv
<1>1. LockHolds
  BY DEF IInv, SnapshotInv, LockHolds
<1>2. ExactlyOnceUnlessFault
  BY DEF IInv, LoopInv, TypeOK, ExactlyOnceUnlessFault
<1> QED
  BY <1>1, <1>2

-----------------------------------------------------------------------------
THEOREM Invariance == Spec => []IInv
  BY InitInv, NextInv, PTL DEF Spec

\* Every variable of the stock keeps its type: in particular no call takes, or
\* records, more often than removeStock's maxRetries.
THEOREM TypeCorrect == Spec => []TypeOK
  BY Invariance, InvImplies, PTL

\* removeStock's optimistic lock is sound: a version that still matches stands
\* for the stock that was checked.
THEOREM LockSound == Spec => []LockHolds
  BY Invariance, InvImplies, PTL

\* Whatever the number of racing sales, retries and lost answers, a product
\* whose stock is not overwritten by hand is never sold below zero.
THEOREM NoOverselling == Spec => []NeverOversold
  BY Invariance, InvImplies, PTL

\* Without database errors a call that succeeds takes and records its quantity
\* exactly once, and one that fails takes nothing.
THEOREM ExactlyOnce == Spec => []ExactlyOnceUnlessFault
  BY Invariance, InvImplies, PTL

\* A sale refused for conflicts was overtaken by as many other decrements.
THEOREM NoSpuriousConflict == Spec => []ConflictsAreReal
  BY Invariance, InvImplies, PTL

-----------------------------------------------------------------------------
(* Stock implements StockPromise: a decrement is a Take, a hand edit is an *)
(* Overwrite, and every other step of a call is invisible.                 *)

LEMMA InitPromise == Init => Promise!Init
  BY DEF Init, Promise!Init

LEMMA DecrementTakes ==
  ASSUME NEW c \in Calls, IInv, pc[c] = "cas", Matches(c), Decrement(c),
         call' = call, seen' = seen
  PROVE  Promise!Next
<1> DEFINE p == call[c].id  q == call[c].qty
<1>1. TypeOK /\ SnapshotInv(c) /\ LoopInv(c)
  BY DEF IInv
<1>2. p \in Catalog /\ q \in Quantities
  BY <1>1 DEF TypeOK, SnapshotInv, Requests
<1>3. took[c] < MaxRetries
  BY <1>1 DEF TypeOK, LoopInv, Swapped
<1>4. /\ stock' = [stock EXCEPT ![p] = @ - q]
      /\ took' = [took EXCEPT ![c] = @ + 1]
      /\ edits' = edits
  BY DEF Decrement
<1>5. q <= stock[p] \/ edits[p] > 0
  <2>1. NeverOversold'
    BY DecrementEffect
  <2>2. stock \in [Catalog -> Int] /\ edits \in [Catalog -> 0..MaxEdits]
    BY <1>1 DEF TypeOK
  <2>3. q \in Nat
    BY <1>2
  <2>4. stock'[p] = stock[p] - q /\ stock[p] \in Int /\ edits[p] \in Nat
    BY <1>2, <1>4, <2>2, <2>3
  <2> QED
    BY <1>2, <1>4, <2>1, <2>2, <2>3, <2>4 DEF NeverOversold
<1>6. Promise!Take(c, p, q)
  BY <1>2, <1>3, <1>4, <1>5 DEF Promise!Take
<1> QED
  BY <1>2, <1>6 DEF Promise!Next

LEMMA StepPromise == IInv /\ [Next]_vars => [Promise!Next]_(Promise!vars)
<1> SUFFICES ASSUME IInv, [Next]_vars
             PROVE  Promise!Next \/ UNCHANGED Promise!vars
  OBVIOUS
<1> USE DEF Promise!vars
<1>1. ASSUME NEW c \in Calls, Begin(c) PROVE UNCHANGED Promise!vars
  BY <1>1 DEF Begin, catalog
<1>2. ASSUME NEW c \in Calls, Step(c) PROVE Promise!Next \/ UNCHANGED Promise!vars
  <2>1. CASE Swap(c)
    BY <2>1, DecrementTakes DEF Swap, Removing
  <2>2. CASE SwapFault(c)
    BY <2>2, DecrementTakes DEF SwapFault, Removing, catalog
  <2>3. CASE Read(c) \/ Reject(c) \/ ReadFault(c) \/ Conflict(c) \/ Record(c)
             \/ RecordFault(c) \/ AddStock(c)
    BY <2>3 DEF Read, Reject, ReadFault, Conflict, Record, RecordFault, AddStock, catalog
  <2> QED
    BY <1>2, <2>1, <2>2, <2>3 DEF Step
<1>3. ASSUME NEW p \in Catalog, NEW s \in EditValues, Update(p, s) PROVE Promise!Next
  <2>1. /\ stock \in [Catalog -> Int] /\ edits \in [Catalog -> 0..MaxEdits]
        /\ stock' = [stock EXCEPT ![p] = s]
        /\ edits' = [edits EXCEPT ![p] = @ + 1]
        /\ took' = took
    BY <1>3 DEF IInv, TypeOK, Update, locals
  <2>2. stock' \in [Catalog -> Int] /\ \A o \in Catalog \ {p} : stock'[o] = stock[o]
    BY <2>1
  <2>3. {o \in Catalog : edits'[o] > 0} = {o \in Catalog : edits[o] > 0} \union {p}
    BY <2>1
  <2>4. Promise!Overwrite(p)
    BY <2>1, <2>2, <2>3 DEF Promise!Overwrite
  <2> QED
    BY <2>4 DEF Promise!Next
<1>4. CASE UNCHANGED vars
  BY <1>4 DEF vars
<1> QED
  BY <1>1, <1>2, <1>3, <1>4 DEF Next

\* The detailed stock, with its reads, conflicts, retries and lost answers, is
\* an implementation of the atomic one.
THEOREM Refinement == Spec => KeepsPromise
<1>1. Spec => []IInv
  BY Invariance
<1> QED
  BY <1>1, InitPromise, StepPromise, PTL DEF Spec, KeepsPromise, Promise!Spec

-----------------------------------------------------------------------------
(* What the calls took, summed.  The sum is a recursive function: that it  *)
(* is defined at all, and what it does, holds for finitely many calls.     *)

HIDE StockAssumption

\* The call that the sum over S takes first.
One(S) == CHOOSE c \in S : TRUE
Adds(sum, units, S) == IF S = {} THEN 0 ELSE sum[S \ {One(S)}] + units[One(S)]

\* A set of subsets of a finite set has a smallest one: what stands for an induction.
LEMMA MinimalSet ==
  \A S, F : IsFiniteSet(S) /\ F \in SUBSET (SUBSET S) /\ F # {}
              => \E T \in F : \A U \in F : ~(U \subseteq T /\ U # T)
<1> SUFFICES ASSUME NEW S, IsFiniteSet(S), NEW F, F \in SUBSET (SUBSET S), F # {}
             PROVE  \E T \in F : \A U \in F : ~(U \subseteq T /\ U # T)
  OBVIOUS
<1>1. F \subseteq FiniteSubsetsOf(S)
  BY FS_FiniteSubsetsOfFinite
<1>2. \E T \in F : \A U \in F : <<U, T>> \notin StrictSubsetOrdering(S)
  BY <1>1, FS_StrictSubsetOrderingWellFounded, WFMin, Zenon
<1>3. \A T, U \in F : U \subseteq T /\ U # T => <<U, T>> \in StrictSubsetOrdering(S)
  BY DEF StrictSubsetOrdering
<1> QED
  BY <1>2, <1>3

LEMMA LeastNumber ==
  ASSUME NEW N \in Nat, NEW A, A \subseteq 0..N, A # {}
  PROVE  \E n \in A : \A m \in A : n <= m
<1> DEFINE F == {T \in SUBSET (0..N) : \E n \in A : T = 0..n}
<1>1. \A n \in A : 0..n \in F /\ n \in Nat
  OBVIOUS
<1>2. F \in SUBSET (SUBSET (0..N)) /\ F # {}
  BY <1>1
<1>3. \A T \in F : \E n \in A : T = 0..n
  OBVIOUS
<1> HIDE DEF F
<1>4. PICK T \in F : \A U \in F : ~(U \subseteq T /\ U # T)
  <2>1. PICK S : S = 0..N
    OBVIOUS
  <2>2. IsFiniteSet(S)
    BY <2>1, FS_Interval
  <2>3. F \in SUBSET (SUBSET S) /\ F # {}
    BY <1>2, <2>1
  <2> QED
    BY <2>2, <2>3, MinimalSet
<1>5. PICK n \in A : T = 0..n
  BY <1>3
<1>6. ASSUME NEW m \in A, m < n PROVE FALSE
  <2>1. m \in Nat /\ n \in Nat
    BY <1>1
  <2>2. 0..m \subseteq 0..n /\ n \in 0..n /\ n \notin 0..m
    BY <1>6, <2>1
  <2> QED
    BY <1>1, <1>4, <1>5, <2>2
<1> QED
  BY <1>1, <1>6

\* The recursive definition of the sum has a solution: solved for sets of ever more calls.
LEMMA SumDefined ==
  ASSUME IsFiniteSet(Calls), NEW units
  PROVE  SumOver(units) = [S \in SUBSET Calls |-> Adds(SumOver(units), units, S)]
<1> DEFINE Upto(n) == {S \in SUBSET Calls : Cardinality(S) <= n}
           Solved(n) == \E sum : sum = [S \in Upto(n) |-> Adds(sum, units, S)]
           N == Cardinality(Calls)
<1>1. N \in Nat /\ \A S \in SUBSET Calls : Cardinality(S) \in 0..N /\ IsFiniteSet(S)
  BY FS_CardinalityType, FS_Subset
<1>2. Solved(0)
  <2> DEFINE sum == [S \in Upto(0) |-> 0]
  <2>1. \A S \in Upto(0) : S = {}
    BY <1>1, FS_EmptySet
  <2>2. sum = [S \in Upto(0) |-> Adds(sum, units, S)]
    BY <2>1 DEF Adds
  <2> QED
    BY <2>2
<1>3. ASSUME NEW n \in Nat, Solved(n)
      PROVE  Solved(n + 1)
  <2>1. PICK old : old = [S \in Upto(n) |-> Adds(old, units, S)]
    BY <1>3
  <2> DEFINE sum == [S \in Upto(n + 1) |-> Adds(old, units, S)]
  <2>2. ASSUME NEW S \in Upto(n + 1)
        PROVE  Adds(old, units, S) = Adds(sum, units, S)
    <3>1. CASE S = {}
      BY <3>1 DEF Adds
    <3>2. CASE S # {}
      <4>1. One(S) \in S
        BY <3>2 DEF One
      <4>2. S \ {One(S)} \in Upto(n)
        <5>1. Cardinality(S \ {One(S)}) = Cardinality(S) - 1
          BY <1>1, <4>1, FS_RemoveElement
        <5>2. Cardinality(S) \in Nat /\ Cardinality(S) <= n + 1 /\ n \in Nat
          BY <1>1
        <5> QED
          BY <5>1, <5>2
      <4>3. S \ {One(S)} \in Upto(n + 1)
        BY <1>1, <4>2
      <4>4. sum[S \ {One(S)}] = old[S \ {One(S)}]
        BY <2>1, <4>2, <4>3
      <4> QED
        BY <4>4 DEF Adds
    <3> QED
      BY <3>1, <3>2
  <2>3. sum = [S \in Upto(n + 1) |-> Adds(sum, units, S)]
    BY <2>2
  <2> QED
    BY <2>3
<1>4. Solved(N)
  <2> SUFFICES ASSUME ~Solved(N) PROVE FALSE
    OBVIOUS
  <2> DEFINE A == {n \in 0..N : ~Solved(n)}
  <2> HIDE DEF Solved, N
  <2>1. A \subseteq 0..N /\ A # {}
    BY <1>1
  <2>2. PICK n \in A : \A m \in A : n <= m
    <3> HIDE DEF A
    <3> QED
      BY <1>1, <2>1, LeastNumber
  <2>3. n \in 0..N /\ ~Solved(n) /\ n # 0
    BY <1>2
  <2>4. n - 1 \in 0..N /\ n - 1 \in Nat /\ ~(n <= n - 1) /\ (n - 1) + 1 = n
    BY <1>1, <2>3
  <2>5. Solved(n - 1)
    BY <2>2, <2>4
  <2>6. Solved((n - 1) + 1)
    BY <1>3, <2>4, <2>5
  <2> QED
    BY <2>3, <2>4, <2>6
<1>5. Upto(N) = SUBSET Calls
  BY <1>1
<1>6. \E sum : sum = [S \in SUBSET Calls |-> Adds(sum, units, S)]
  BY <1>4, <1>5
<1>7. SumOver(units) = CHOOSE sum : sum = [S \in SUBSET Calls |-> Adds(sum, units, S)]
  BY DEF SumOver, Adds, One
<1> QED
  BY <1>6, <1>7, Zenon

\* The sum over a set with one call more.
LEMMA SumStep ==
  ASSUME IsFiniteSet(Calls), NEW units \in [Calls -> Int], NEW S \in SUBSET Calls
  PROVE  /\ S = {} => SumOver(units)[S] = 0
         /\ S # {} => /\ One(S) \in S /\ S \ {One(S)} \in SUBSET Calls
                      /\ SumOver(units)[S] = SumOver(units)[S \ {One(S)}] + units[One(S)]
<1>1. SumOver(units)[S] = Adds(SumOver(units), units, S)
  BY SumDefined
<1>2. S # {} => One(S) \in S
  BY DEF One
<1> QED
  BY <1>1, <1>2 DEF Adds

\* One of the units changes by k.
Moves(units, moved, c, k) ==
  /\ units \in [Calls -> Int] /\ c \in Calls /\ k \in Int
  /\ moved = [units EXCEPT ![c] = @ + k]

\* A sum follows a change of one of its terms.
LEMMA SumMoves ==
  ASSUME IsFiniteSet(Calls), NEW units, NEW c, NEW k, NEW moved,
         Moves(units, moved, c, k)
  PROVE  \A S \in SUBSET Calls :
           /\ SumOver(units)[S] \in Int
           /\ SumOver(moved)[S] = SumOver(units)[S] + (IF c \in S THEN k ELSE 0)
<1> DEFINE Right(S) == /\ SumOver(units)[S] \in Int
                       /\ SumOver(moved)[S] = SumOver(units)[S] + (IF c \in S THEN k ELSE 0)
           F == {S \in SUBSET Calls : ~Right(S)}
<1>1. /\ units \in [Calls -> Int] /\ moved \in [Calls -> Int] /\ k \in Int /\ c \in Calls
      /\ moved[c] = units[c] + k /\ \A d \in Calls \ {c} : moved[d] = units[d]
  BY DEF Moves
<1>2. SUFFICES ASSUME F # {} PROVE FALSE
  OBVIOUS
<1>3. PICK S \in F : \A U \in F : ~(U \subseteq S /\ U # S)
  <2>1. F \in SUBSET (SUBSET Calls)
    OBVIOUS
  <2> HIDE DEF F
  <2> QED
    BY <1>2, <2>1, MinimalSet
<1>4. S \in SUBSET Calls /\ ~Right(S)
  BY <1>3
<1>5. CASE S = {}
  <2>1. SumOver(units)[S] = 0 /\ SumOver(moved)[S] = 0 /\ c \notin S
    BY <1>1, <1>4, <1>5, SumStep
  <2> QED
    BY <1>4, <2>1
<1>6. CASE S # {}
  <2> PICK d, R : d = One(S) /\ R = S \ {One(S)}
    OBVIOUS
  <2>1. /\ d \in S /\ d \in Calls /\ R \in SUBSET Calls /\ R = S \ {d}
        /\ SumOver(units)[S] = SumOver(units)[R] + units[d]
        /\ SumOver(moved)[S] = SumOver(moved)[R] + moved[d]
    BY <1>1, <1>4, <1>6, SumStep
  <2>2. Right(R)
    BY <1>3, <2>1
  <2>3. units[d] \in Int /\ moved[d] = units[d] + (IF d = c THEN k ELSE 0)
    BY <1>1, <2>1
  <2>4. c \in R <=> c \in S /\ d # c
    BY <2>1
  <2>5. /\ SumOver(units)[R] \in Int
        /\ SumOver(moved)[R] = SumOver(units)[R] + (IF c \in R THEN k ELSE 0)
    BY <2>2
  <2>6. SumOver(units)[S] \in Int
    BY <2>1, <2>3, <2>5
  <2>7. SumOver(moved)[S] = SumOver(units)[S] + (IF c \in S THEN k ELSE 0)
    <3>1. CASE d = c
      BY <1>1, <2>1, <2>3, <2>4, <2>5, <3>1
    <3>2. CASE d # c
      BY <1>1, <2>1, <2>3, <2>4, <2>5, <3>2
    <3> QED
      BY <3>1, <3>2
  <2> QED
    BY <1>4, <2>6, <2>7
<1> QED
  BY <1>5, <1>6

LEMMA SumType ==
  ASSUME IsFiniteSet(Calls), NEW units \in [Calls -> Int]
  PROVE  SumOver(units)[Calls] \in Int
<1>1. CASE Calls = {}
  <2>1. Calls \in SUBSET Calls
    OBVIOUS
  <2>2. SumOver(units)[Calls] = 0
    BY <1>1, <2>1, SumStep
  <2> QED
    BY <2>2
<1>2. ASSUME NEW c \in Calls
      PROVE  SumOver(units)[Calls] \in Int
  <2> PICK moved : moved = [units EXCEPT ![c] = @ + 0]
    OBVIOUS
  <2>1. \A S \in SUBSET Calls : SumOver(units)[S] \in Int
    BY SumMoves DEF Moves
  <2> QED
    BY <2>1
<1> QED
  BY <1>1, <1>2

\* A sum of zeros.
LEMMA SumNothing ==
  ASSUME IsFiniteSet(Calls), NEW units \in [Calls -> Int], \A c \in Calls : units[c] = 0
  PROVE  SumOver(units)[Calls] = 0
<1> DEFINE F == {S \in SUBSET Calls : SumOver(units)[S] # 0}
<1>1. SUFFICES ASSUME F # {} PROVE FALSE
  OBVIOUS
<1>2. PICK S \in F : \A U \in F : ~(U \subseteq S /\ U # S)
  <2>1. F \in SUBSET (SUBSET Calls)
    OBVIOUS
  <2> HIDE DEF F
  <2> QED
    BY <1>1, <2>1, MinimalSet
<1>3. S # {} /\ S \in SUBSET Calls /\ SumOver(units)[S] # 0
  BY <1>2, SumStep
<1>4. /\ One(S) \in S /\ S \ {One(S)} \in SUBSET Calls
      /\ SumOver(units)[S] = SumOver(units)[S \ {One(S)}] + units[One(S)]
  BY <1>3, SumStep
<1>5. SumOver(units)[S \ {One(S)}] = 0
  BY <1>2, <1>4
<1>6. units[One(S)] = 0
  BY <1>3, <1>4
<1> QED
  BY <1>3, <1>4, <1>5, <1>6

LEMMA RequestTypes ==
  ASSUME TypeOK, NEW c \in Calls
  PROVE  took[c] \in Nat /\ call[c].qty \in Nat
<1>1. took[c] \in 0..MaxRetries
  BY DEF TypeOK
<1>2. call[c].qty \in Quantities
  BY DEF TypeOK, Requests
<1>3. MaxRetries \in Nat /\ Quantities \subseteq Nat
  BY StockAssumption
<1>4. call[c].qty \in Nat
  BY <1>2, <1>3
<1> QED
  BY <1>1, <1>3, <1>4

LEMMA UnitsTypes ==
  ASSUME TypeOK, NEW p
  PROVE  Units(p) \in [Calls -> Int]
<1>1. \A c \in Calls : took[c] \in Nat /\ call[c].qty \in Nat
  BY RequestTypes
<1>2. \A x, y \in Nat : x * y \in Int
  OBVIOUS
<1> QED
  BY <1>1, <1>2 DEF Units

LEMMA AddUpInit == IsFiniteSet(Calls) /\ Init => SalesAddUp
<1> SUFFICES ASSUME IsFiniteSet(Calls), Init, NEW p \in Catalog
             PROVE  stock[p] + TakenFrom(p) = OpeningStock
  BY DEF SalesAddUp
<1>1. TypeOK
  BY InitInv DEF IInv
<1>2. Units(p) \in [Calls -> Int]
  BY <1>1, UnitsTypes
<1>3. \A c \in Calls : Units(p)[c] = 0
  <2>1. \A c \in Calls : took[c] = 0 /\ call[c].qty \in Nat
    BY <1>1, RequestTypes DEF Init
  <2>2. \A x \in Nat : 0 * x = 0
    OBVIOUS
  <2> QED
    BY <2>1, <2>2 DEF Units
<1>4. TakenFrom(p) = 0
  BY <1>2, <1>3, SumNothing DEF TakenFrom
<1>5. stock[p] = OpeningStock /\ OpeningStock \in Nat
  BY StockAssumption DEF Init
<1> QED
  BY <1>4, <1>5

\* A decrement moves its quantity from the stock into what the calls took.
LEMMA DecrementAddsUp ==
  ASSUME IsFiniteSet(Calls), IInv, SalesAddUp, NEW c \in Calls, pc[c] = "cas", Matches(c),
         Decrement(c), call' = call, NEW p \in Catalog, edits'[p] = 0
  PROVE  stock'[p] + TakenFrom(p)' = OpeningStock
<1> PICK id, qty : id = call[c].id /\ qty = call[c].qty
  OBVIOUS
<1>1. /\ TypeOK /\ id \in Catalog /\ qty \in Nat /\ took[c] \in Nat
      /\ stock \in [Catalog -> Int] /\ took \in [Calls -> 0..MaxRetries] /\ stock[p] \in Int
  <2>1. TypeOK /\ SnapshotInv(c)
    BY DEF IInv
  <2>2. stock \in [Catalog -> Int] /\ took \in [Calls -> 0..MaxRetries]
    BY <2>1 DEF TypeOK
  <2>3. id \in Catalog
    BY <2>1 DEF SnapshotInv
  <2> QED
    BY <2>1, <2>2, <2>3, RequestTypes
<1>2. /\ stock' = [stock EXCEPT ![id] = @ - qty] /\ took' = [took EXCEPT ![c] = @ + 1]
      /\ edits' = edits
  BY DEF Decrement
<1>3. stock[p] + TakenFrom(p) = OpeningStock
  BY <1>2 DEF SalesAddUp
<1>4. Units(p) \in [Calls -> Int] /\ TakenFrom(p) \in Int
  <2>1. Units(p) \in [Calls -> Int]
    BY <1>1, UnitsTypes
  <2>2. SumOver(Units(p))[Calls] \in Int
    BY <2>1, SumType
  <2> QED
    BY <2>1, <2>2 DEF TakenFrom
<1>5. CASE p = id
  <2>1. (took[c] + 1) * qty = took[c] * qty + qty
    <3>1. \A x, y \in Nat : (x + 1) * y = x * y + y
      OBVIOUS
    <3> QED
      BY <1>1, <3>1
  <2>2. Units(p)' = [Units(p) EXCEPT ![c] = @ + qty]
    <3>1. Units(p)'[c] = (took[c] + 1) * qty /\ Units(p)[c] = took[c] * qty
      BY <1>1, <1>2, <1>5 DEF Units
    <3>2. \A d \in Calls \ {c} : Units(p)'[d] = Units(p)[d]
      BY <1>1, <1>2 DEF Units
    <3>3. DOMAIN Units(p)' = Calls /\ Units(p)' = [d \in Calls |-> Units(p)'[d]]
      BY DEF Units
    <3> QED
      BY <1>4, <2>1, <3>1, <3>2, <3>3
  <2>3. TakenFrom(p)' = TakenFrom(p) + qty
    <3> PICK units : units = Units(p)
      OBVIOUS
    <3> PICK moved : moved = Units(p)'
      OBVIOUS
    <3>1. Moves(units, moved, c, qty)
      BY <1>1, <1>4, <2>2 DEF Moves
    <3>2. \A S \in SUBSET Calls :
            SumOver(moved)[S] = SumOver(units)[S] + (IF c \in S THEN qty ELSE 0)
      BY <3>1, SumMoves
    <3>3. SumOver(moved)[Calls] = SumOver(units)[Calls] + qty
      BY <3>2
    <3> QED
      BY <3>3 DEF TakenFrom
  <2>4. stock'[p] = stock[p] - qty
    BY <1>1, <1>2, <1>5
  <2> QED
    BY <1>1, <1>3, <1>4, <2>3, <2>4
<1>6. CASE p # id
  <2>1. Units(p)' = Units(p)
    BY <1>1, <1>2, <1>6 DEF Units
  <2>2. stock'[p] = stock[p]
    BY <1>1, <1>2, <1>6
  <2> QED
    BY <1>3, <2>1, <2>2 DEF TakenFrom
<1> QED
  BY <1>5, <1>6

LEMMA AddUpNext == IsFiniteSet(Calls) /\ IInv /\ SalesAddUp /\ [Next]_vars => SalesAddUp'
<1> SUFFICES ASSUME IsFiniteSet(Calls), IInv, SalesAddUp, [Next]_vars,
                    NEW p \in Catalog, edits'[p] = 0
             PROVE  stock'[p] + TakenFrom(p)' = OpeningStock
  BY DEF SalesAddUp
<1>1. CASE UNCHANGED <<stock, edits, took, call>>
  BY <1>1 DEF SalesAddUp, TakenFrom, Units
<1>2. ASSUME NEW c \in Calls, pc[c] = "cas", Matches(c), Decrement(c), call' = call
      PROVE  stock'[p] + TakenFrom(p)' = OpeningStock
  BY <1>2, DecrementAddsUp
<1>3. ASSUME NEW c \in Calls, Step(c)
      PROVE  stock'[p] + TakenFrom(p)' = OpeningStock
  <2>1. CASE Swap(c)
    BY <1>2, <2>1 DEF Swap, Removing
  <2>2. CASE SwapFault(c)
    BY <1>1, <1>2, <2>2 DEF SwapFault, Removing, catalog
  <2>3. CASE Read(c) \/ Reject(c) \/ ReadFault(c) \/ Conflict(c) \/ Record(c)
             \/ RecordFault(c) \/ AddStock(c)
    BY <1>1, <2>3 DEF Read, Reject, ReadFault, Conflict, Record, RecordFault, AddStock, catalog
  <2> QED
    BY <1>3, <2>1, <2>2, <2>3 DEF Step
<1>4. ASSUME NEW o \in Catalog, NEW s \in EditValues, Update(o, s)
      PROVE  stock'[p] + TakenFrom(p)' = OpeningStock
  <2>1. /\ stock \in [Catalog -> Int] /\ edits \in [Catalog -> 0..MaxEdits]
        /\ stock' = [stock EXCEPT ![o] = s] /\ edits' = [edits EXCEPT ![o] = @ + 1]
        /\ took' = took /\ call' = call
    BY <1>4 DEF IInv, TypeOK, Update, locals
  <2>2. p # o
    BY <2>1
  <2>3. stock'[p] = stock[p] /\ edits[p] = 0
    BY <2>1, <2>2
  <2> QED
    BY <2>1, <2>3 DEF SalesAddUp, TakenFrom, Units
<1>5. ASSUME NEW c \in Calls, Begin(c)
      PROVE  stock'[p] + TakenFrom(p)' = OpeningStock
  BY <1>1, <1>5 DEF Begin, catalog
<1>6. CASE UNCHANGED vars
  BY <1>1, <1>6 DEF vars
<1> QED
  BY <1>3, <1>4, <1>5, <1>6 DEF Next

\* SalesAddUp: of finitely many calls, what is missing from a product that nobody
\* edited by hand is what the calls took; no sale is lost under another's write.
THEOREM SalesConserve ==
  ASSUME IsFiniteSet(Calls)
  PROVE  Spec => []SalesAddUp
<1>1. IInv /\ SalesAddUp /\ [Next]_vars => SalesAddUp'
  BY AddUpNext
<1>2. Init => SalesAddUp
  BY AddUpInit
<1> QED
  BY <1>1, <1>2, Invariance, PTL DEF Spec

-----------------------------------------------------------------------------
(* The loop of removeStock runs down.                                      *)

LEMMA StagesAre ==
  /\ StagesLeft["idle"] = 4 /\ StagesLeft["read"] = 3 /\ StagesLeft["cas"] = 2
  /\ StagesLeft["record"] = 1 /\ StagesLeft["done"] = 0 /\ StagesLeft["failed"] = 0
  BY DEF StagesLeft

LEMMA StepRunsDown ==
  ASSUME IInv, NEW c \in Calls, Begin(c) \/ Step(c)
  PROVE  Remaining(c)' < Remaining(c)
<1>1. retries \in [Calls -> 0..MaxRetries] /\ pc \in [Calls -> PCs] /\ MaxRetries \in Nat
  BY StockAssumption DEF IInv, TypeOK
<1>2. Remaining(c)' = 4 * (MaxRetries - retries'[c]) + StagesLeft[pc'[c]]
  BY DEF Remaining
<1> PICK M, r : M = MaxRetries /\ r = retries[c]
  OBVIOUS
<1>3. M \in Nat /\ r \in Nat
  BY <1>1
<1>4. CASE retries' = retries
  <2>1. Remaining(c) = 4 * (M - r) + StagesLeft[pc[c]] /\ Remaining(c)' = 4 * (M - r) + StagesLeft[pc'[c]]
    BY <1>2, <1>4 DEF Remaining
  <2>2. \/ pc[c] = "idle" /\ pc'[c] = "read"
        \/ pc[c] = "read" /\ pc'[c] \in {"cas", "failed"}
        \/ pc[c] = "cas" /\ pc'[c] = "record"
        \/ pc[c] = "record" /\ pc'[c] = "done"
    <3>1. \A x \in Nat : x # x + 1
      OBVIOUS
    <3>2. ~CountRetry(c)
      BY <1>1, <1>3, <1>4, <3>1 DEF CountRetry
    <3> QED
      BY <1>1, <3>2 DEF Begin, Step, Read, Reject, ReadFault, Swap, Conflict, SwapFault, Record,
                        RecordFault, AddStock, CountFault, Removing
  <2> QED
    BY <1>3, <2>1, <2>2, StagesAre
<1>5. CASE CountRetry(c) /\ pc[c] \in {"read", "cas", "record"}
  <2>1. retries'[c] = r + 1 /\ pc'[c] \in {"read", "failed"}
    BY <1>1, <1>5 DEF CountRetry
  <2>2. Remaining(c) = 4 * (M - r) + StagesLeft[pc[c]] /\ Remaining(c)' = 4 * (M - (r + 1)) + StagesLeft[pc'[c]]
    BY <1>2, <2>1 DEF Remaining
  <2> QED
    BY <1>3, <1>5, <2>1, <2>2, StagesAre
<1> QED
  BY <1>4, <1>5 DEF Begin, Step, Read, Reject, ReadFault, Swap, Conflict, SwapFault, Record,
                    RecordFault, AddStock, CountFault, Removing

\* A step of one call leaves where the others stand.
LEMMA OthersStand ==
  ASSUME IInv, NEW c \in Calls, Begin(c) \/ Step(c), NEW d \in Calls \ {c}
  PROVE  Remaining(d)' = Remaining(d)
<1>1. retries \in [Calls -> 0..MaxRetries] /\ pc \in [Calls -> PCs]
  BY DEF IInv, TypeOK
<1>2. retries'[d] = retries[d] /\ pc'[d] = pc[d]
  BY <1>1 DEF Begin, Step, Read, Reject, ReadFault, Swap, Conflict, SwapFault, Record,
              RecordFault, AddStock, CountFault, CountRetry
<1> QED
  BY <1>2 DEF Remaining

LEMMA RemainingNumber ==
  ASSUME IInv, NEW c \in Calls
  PROVE  Remaining(c) \in 0..(4 * (MaxRetries + 1))
<1> PICK M, r, s : M = MaxRetries /\ r = retries[c] /\ s = StagesLeft[pc[c]]
  OBVIOUS
<1>1. M \in Nat /\ r \in 0..M /\ pc[c] \in PCs
  BY StockAssumption DEF IInv, TypeOK
<1>2. s \in 0..4
  BY <1>1, StagesAre DEF PCs
<1>3. Remaining(c) = 4 * (M - r) + s
  BY DEF Remaining
<1>4. 4 * (M - r) + s \in 0..(4 * (M + 1))
  BY <1>1, <1>2
<1> QED
  BY <1>3, <1>4

\* The bound of the steps a call of removeStock may still take is a number at any time,
\* and no more than four for each try and one try to spare: the loop has no longer run.
THEOREM StepsBounded == Spec => [](\A c \in Calls : Remaining(c) \in 0..(4 * (MaxRetries + 1)))
<1>1. IInv => \A c \in Calls : Remaining(c) \in 0..(4 * (MaxRetries + 1))
  BY RemainingNumber
<1> QED
  BY <1>1, Invariance, PTL

\* CallsRunDown: every step of a call lowers the bound of the steps it may still take,
\* and no step of another raises it: the safety behind EveryCallEnds.
THEOREM RunningDown == Spec => CallsRunDown
<1>1. ASSUME IInv, [Next]_vars, NEW c \in Calls
      PROVE  /\ Remaining(c)' <= Remaining(c)
             /\ Step(c) => Remaining(c)' < Remaining(c)
  <2>1. Remaining(c) \in Int /\ Remaining(c)' \in Int
    <3>1. IInv'
      BY <1>1, NextInv
    <3>2. retries'[c] \in Int /\ MaxRetries \in Int /\ pc'[c] \in PCs
      BY <3>1, StockAssumption DEF IInv, TypeOK
    <3>3. StagesLeft[pc'[c]] \in Int
      BY <3>2, StagesAre DEF PCs
    <3>4. Remaining(c)' \in Int
      BY <3>2, <3>3 DEF Remaining
    <3> QED
      BY <1>1, <3>4, RemainingNumber, StockAssumption
  <2>2. Step(c) => Remaining(c)' < Remaining(c)
    BY <1>1, StepRunsDown
  <2>3. CASE UNCHANGED <<retries, pc>>
    <3>1. Remaining(c)' = Remaining(c)
      BY <2>3 DEF Remaining
    <3> QED
      BY <2>1, <2>2, <3>1
  <2>4. ASSUME NEW d \in Calls, Begin(d) \/ Step(d)
        PROVE  Remaining(c)' <= Remaining(c)
    <3>1. CASE d = c
      BY <1>1, <2>1, <2>4, <3>1, StepRunsDown
    <3>2. CASE d # c
      BY <1>1, <2>1, <2>4, <3>2, OthersStand
    <3> QED
      BY <3>1, <3>2
  <2> QED
    BY <1>1, <2>2, <2>3, <2>4 DEF Next, Update, locals, vars
<1>2. IInv /\ [Next]_vars =>
        [\A c \in Calls : /\ Remaining(c)' <= Remaining(c)
                          /\ Step(c) => Remaining(c)' < Remaining(c)]_vars
  BY <1>1
<1> QED
  BY <1>2, Invariance, PTL DEF Spec, CallsRunDown
=============================================================================
