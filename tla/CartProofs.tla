----------------------------- MODULE CartProofs -----------------------------
(***************************************************************************)
(* Proofs about Cart for any number of calls, products, carts and items,   *)
(* any stock and any life of a cart.  IInv is inductive; the safety and    *)
(* action properties of the module follow from it.                         *)
(***************************************************************************)
EXTENDS Cart, WellFoundedInduction, TLAPS

USE CartAssumption

-----------------------------------------------------------------------------
(* The oldest and the newest of several documents.                         *)

\* A set of numbers has a least one ...
LEMMA Least ==
  ASSUME NEW S \in SUBSET Nat, S # {}
  PROVE  \E x \in S : \A y \in S : x <= y
<1>1. PICK x \in S : \A y \in S : ~ (<<y, x>> \in OpToRel(<, Nat))
  BY NatLessThanWellFounded, WFMin
<1>2. \A y \in S : y < x => <<y, x>> \in OpToRel(<, Nat)
  BY DEF OpToRel
<1>3. \A y \in S : ~(y < x)
  BY <1>1, <1>2, Zenon
<1>4. \A y \in Nat : y \in S => x <= y
  BY <1>3
<1> QED
  BY <1>4

LEMMA FreshIsOne ==
  ASSUME NEW S \in SUBSET Nat, S # {}
  PROVE  Fresh(S) \in S
  BY Least DEF Fresh

\* ... and, if they are bounded, a greatest one: the one least below the bound.
LEMMA NewestIsOne ==
  ASSUME NEW N \in Nat, NEW S \in SUBSET (1..N), S # {}
  PROVE  Newest(S) \in S
<1> DEFINE T == {N - k : k \in S}
<1>1. \A k \in S : k \in 1..N
  OBVIOUS
<1>2. T \in SUBSET Nat /\ T # {}
  <2>1. \A m \in T : m \in Nat
    BY <1>1
  <2> QED
    BY <2>1
<1>3. PICK m \in T : \A l \in T : m <= l
  <2> HIDE DEF T
  <2> QED
    BY <1>2, Least
<1>4. PICK x \in S : m = N - x
  BY <1>3
<1>5. \A y \in S : N - x <= N - y
  BY <1>3, <1>4
<1>6. \A y \in S : y <= x
  BY <1>1, <1>5
<1> QED
  BY <1>6 DEF Newest

\* What the call finds is open and the customer's; it finds nothing only if
\* there is nothing.
LEMMA FoundCarts ==
  ASSUME TypeOK
  PROVE  /\ OfUser \in 0..MaxCarts /\ OfSession \in 0..MaxCarts
         /\ OfUser # 0 => Open(OfUser) /\ carts[OfUser].user
         /\ OfSession # 0 => Open(OfSession) /\ carts[OfSession].session
         /\ OfUser = 0 => \A l \in CartIds : Open(l) => ~carts[l].user
         /\ OfSession = 0 => \A l \in CartIds : Open(l) => ~carts[l].session
<1> DEFINE U == {k \in CartIds : Open(k) /\ carts[k].user}
           S == {k \in CartIds : Open(k) /\ carts[k].session}
<1>1. U \in SUBSET (1..MaxCarts) /\ S \in SUBSET (1..MaxCarts)
  BY DEF CartIds
<1>2. U # {} => Newest(U) \in U
  BY <1>1, NewestIsOne
<1>3. S # {} => Newest(S) \in S
  BY <1>1, NewestIsOne
<1>4. (U = {} => Newest(U) = 0) /\ (S = {} => Newest(S) = 0)
  BY DEF Newest
<1>5. OfUser = Newest(U) /\ OfSession = Newest(S)
  BY DEF OfUser, OfSession
<1> QED
  BY <1>1, <1>2, <1>3, <1>4, <1>5

\* The line of the cart that the addition would be on.
LEMMA SameItem ==
  ASSUME NEW c \in Calls
  PROVE  /\ Same(c) \in 0..MaxItems
         /\ Same(c) # 0 => Held(Same(c))
         /\ Same(c) = 0 => \A i \in InCart(calls[c].cart) : ~SameLine(items[i], calls[c])
<1> DEFINE S == {i \in InCart(calls[c].cart) : SameLine(items[i], calls[c])}
<1>1. S \in SUBSET (1..MaxItems) /\ \A i \in S : Held(i)
  BY DEF InCart, ItemIds, Held
<1>2. S # {} => Newest(S) \in S
  BY <1>1, NewestIsOne
<1>3. Same(c) = Newest(S) /\ (S = {} => Newest(S) = 0)
  BY DEF Same, Newest
<1> QED
  BY <1>1, <1>2, <1>3

-----------------------------------------------------------------------------
(* The initial state.                                                      *)

LEMMA Placeholders ==
  /\ NoCart \in CartRecords /\ NoItem \in ItemRecords /\ NoCall \in CallLocals
  /\ GoneCart \in CartRecords /\ GoneCart.state = "gone"
  /\ GoneItem \in ItemRecords /\ GoneItem.state = "gone"
<1>1. AnyProduct \in Products
  BY DEF AnyProduct
<1>2. NoCart \in CartRecords /\ GoneCart \in CartRecords /\ GoneCart.state = "gone"
  BY DEF NoCart, GoneCart, CartRecords
<1>3. NoItem \in ItemRecords /\ GoneItem \in ItemRecords /\ GoneItem.state = "gone"
  BY <1>1 DEF NoItem, GoneItem, ItemRecords
<1>4. NoCall \in CallLocals
  BY <1>1 DEF NoCall, CallLocals, PCs
<1> QED
  BY <1>2, <1>3, <1>4

LEMMA InitInv == Init => IInv
<1> SUFFICES ASSUME Init PROVE IInv
  OBVIOUS
<1>1. PICK old \in BOOLEAN, p \in Products, s \in Sizes :
        /\ old => Stock[p] > 0
        /\ carts = [k \in CartIds |-> IF old /\ k = 1
                     THEN [NoCart EXCEPT !.state = "open", !.user = TRUE, !.expires = Life]
                     ELSE NoCart]
        /\ items = [i \in ItemIds |-> IF old /\ i = 1
                     THEN [state |-> "in", cart |-> 1, product |-> p, size |-> s, qty |-> 1]
                     ELSE NoItem]
  BY DEF Init
<1>2. 1 \in CartIds /\ Stock[p] \in Nat
  BY DEF CartIds
<1>3. carts \in [CartIds -> CartRecords]
  <2>1. [NoCart EXCEPT !.state = "open", !.user = TRUE, !.expires = Life] \in CartRecords
    BY DEF NoCart, CartRecords
  <2> QED
    BY <1>1, <2>1, Placeholders
<1>4. items \in [ItemIds -> ItemRecords]
  <2>1. [state |-> "in", cart |-> 1, product |-> p, size |-> s, qty |-> 1] \in ItemRecords
    BY DEF ItemRecords
  <2> QED
    BY <1>1, <2>1, Placeholders
<1>5. \A c \in Calls : calls[c] = NoCall /\ NoCall.pc = "idle" /\ NoCall.op = "view"
  BY DEF Init, NoCall
<1>6. TypeOK
  <2>1. calls \in [Calls -> CallLocals] /\ told \in [CartIds -> Nat]
    BY Placeholders DEF Init
  <2>2. now = 0 /\ started = 0 /\ overlapped = FALSE
    BY DEF Init
  <2>3. now \in 0..MaxTime /\ started \in 0..MaxCalls
    BY <2>2
  <2>4. overlapped \in BOOLEAN
    BY <2>2, Zenon
  <2> QED
    BY <1>3, <1>4, <1>5, <2>1, <2>3, <2>4 DEF TypeOK
<1>7. \A i \in ItemIds : Held(i) =>
        old /\ i = 1 /\ items[i].cart = 1 /\ items[i].product = p /\ items[i].qty = 1
  BY <1>1 DEF Held, NoItem
<1>8. \A k \in CartIds : /\ Open(k) => old /\ k = 1
                         /\ old /\ k = 1 => Open(k)
                         /\ ~carts[k].notified /\ told[k] = 0
  BY <1>1 DEF Init, Open, NoCart
<1>9. DocumentsInv
  BY <1>1, <1>2, <1>7, <1>8
  DEF DocumentsInv, QuantityWithinStock, UnmadeCarts, OneCartEach, OneLineEach, NoOrphans,
      ExpiryToldOnce
<1> QED
  BY <1>5, <1>6, <1>9 DEF IInv, CallInv, AtMostOneRuns, AloneInv

-----------------------------------------------------------------------------
(* Steps of a running call.                                                *)

\* The documents stay as they are.
LEMMA DocumentsKept ==
  ASSUME DocumentsInv, UNCHANGED <<carts, items, told, overlapped>>
  PROVE  DocumentsInv'
  BY DEF DocumentsInv, QuantityWithinStock, UnmadeCarts, OneCartEach, OneLineEach, NoOrphans,
         ExpiryToldOnce, Held, Open

\* The call changes its own locals and keeps to what the invariant says of them
\* and of the documents; no other call runs beside one that runs alone.
LEMMA RunningStep ==
  ASSUME NEW c \in Calls, NEW next \in CallLocals, IInv, calls[c].pc # "idle",
         calls' = [calls EXCEPT ![c] = next], UNCHANGED outside,
         next.pc \notin {"idle", "find", "create", "guest", "mine"} => next.cart # 0,
         next.pc = "merge" => next.mine # 0,
         CallInv(c)', ~overlapped => AloneInv(c)',
         carts' \in [CartIds -> CartRecords], items' \in [ItemIds -> ItemRecords],
         told' \in [CartIds -> Nat], DocumentsInv'
  PROVE  IInv'
<1>1. /\ calls' \in [Calls -> CallLocals] /\ calls'[c] = next
      /\ \A d \in Calls \ {c} : calls'[d] = calls[d]
      /\ now' = now /\ started' = started /\ overlapped' = overlapped
  BY DEF IInv, TypeOK, outside, history
<1>2. TypeOK'
  BY <1>1 DEF IInv, TypeOK
<1>3. ASSUME NEW d \in Calls PROVE CallInv(d)'
  BY <1>1 DEF IInv, CallInv
<1>4. ASSUME ~overlapped PROVE AtMostOneRuns' /\ \A d \in Calls : AloneInv(d)'
  <2>1. \A d \in Calls \ {c} : calls[d].pc = "idle" /\ calls'[d].pc = "idle"
    BY <1>1, <1>4 DEF IInv, AtMostOneRuns
  <2>2. \A d \in Calls \ {c} : AloneInv(d)'
    BY <2>1 DEF AloneInv
  <2> QED
    BY <1>4, <2>1, <2>2 DEF AtMostOneRuns
<1> QED
  BY <1>1, <1>2, <1>3, <1>4 DEF IInv

\* The call ends.
LEMMA EndInv ==
  ASSUME NEW c \in Calls, IInv, calls[c].pc # "idle", End(c), UNCHANGED outside,
         carts' \in [CartIds -> CartRecords], items' \in [ItemIds -> ItemRecords],
         told' \in [CartIds -> Nat], DocumentsInv'
  PROVE  IInv'
<1>1. calls'[c] = NoCall /\ NoCall.pc = "idle" /\ NoCall.op = "view"
  BY DEF IInv, TypeOK, End, NoCall
<1>2. CallInv(c)' /\ AloneInv(c)'
  BY <1>1 DEF CallInv, AloneInv
<1> QED
  BY <1>1, <1>2, Placeholders, RunningStep DEF End

LEMMA EndLeavesDocuments ==
  ASSUME NEW c \in Calls, IInv, calls[c].pc # "idle", End(c),
         UNCHANGED <<outside, carts, items, told>>
  PROVE  IInv'
<1>1. DocumentsInv'
  BY DocumentsKept DEF IInv, outside, history
<1> QED
  BY <1>1, EndInv DEF IInv, TypeOK

\* The call goes on with the locals it has.
LEMMA GotoEffect ==
  ASSUME NEW c \in Calls, NEW at \in PCs, TypeOK, Goto(c, at)
  PROVE  /\ calls' = [calls EXCEPT ![c] = [calls[c] EXCEPT !.pc = at]]
         /\ [calls[c] EXCEPT !.pc = at] \in CallLocals
         /\ calls'[c].pc = at
         /\ UNCHANGED <<calls[c].op, calls[c].member, calls[c].cart, calls[c].item,
                        calls[c].product, calls[c].size, calls[c].qty, calls[c].mine,
                        calls[c].first>>
<1>1. calls \in [Calls -> CallLocals]
  BY DEF TypeOK
<1>2. calls[c] \in CallLocals
  BY <1>1
<1>3. [calls[c] EXCEPT !.pc = at] \in CallLocals
  BY <1>2 DEF CallLocals
<1> QED
  BY <1>1, <1>2, <1>3 DEF Goto, CallLocals

LEMMA GotoInv ==
  ASSUME NEW c \in Calls, NEW at \in PCs \ {"idle", "find", "guest", "mine", "merge"},
         IInv, calls[c].pc # "idle", Goto(c, at), UNCHANGED outside,
         at # "create" => calls[c].cart # 0,
         CallInv(c)', ~overlapped => AloneInv(c)',
         carts' \in [CartIds -> CartRecords], items' \in [ItemIds -> ItemRecords],
         told' \in [CartIds -> Nat], DocumentsInv'
  PROVE  IInv'
<1> DEFINE next == [calls[c] EXCEPT !.pc = at]
<1>1. /\ next \in CallLocals /\ calls' = [calls EXCEPT ![c] = next]
      /\ next.pc = at /\ next.cart = calls[c].cart
  BY GotoEffect DEF IInv, TypeOK, CallLocals
<1> HIDE DEF next
<1> QED
  BY <1>1, RunningStep

\* The call goes on with the cart k.
LEMMA MoveEffect ==
  ASSUME NEW c \in Calls, NEW at \in PCs, NEW k \in 0..MaxCarts, TypeOK,
         calls' = [calls EXCEPT ![c].cart = k, ![c].pc = at]
  PROVE  /\ calls' = [calls EXCEPT ![c] = [calls[c] EXCEPT !.cart = k, !.pc = at]]
         /\ [calls[c] EXCEPT !.cart = k, !.pc = at] \in CallLocals
         /\ calls'[c].pc = at /\ calls'[c].cart = k
         /\ UNCHANGED <<calls[c].op, calls[c].member, calls[c].item, calls[c].product,
                        calls[c].size, calls[c].qty, calls[c].mine, calls[c].first>>
<1>1. calls \in [Calls -> CallLocals]
  BY DEF TypeOK
<1>2. calls[c] \in CallLocals
  BY <1>1
<1>3. [calls[c] EXCEPT !.cart = k, !.pc = at] \in CallLocals
  BY <1>2 DEF CallLocals
<1> QED
  BY <1>1, <1>2, <1>3 DEF CallLocals

LEMMA MoveInv ==
  ASSUME NEW c \in Calls, NEW at \in PCs \ {"idle", "merge"}, NEW k \in 0..MaxCarts, IInv,
         calls[c].pc # "idle", calls' = [calls EXCEPT ![c].cart = k, ![c].pc = at],
         UNCHANGED outside,
         at \notin {"find", "create", "guest", "mine"} => k # 0,
         CallInv(c)', ~overlapped => AloneInv(c)',
         carts' \in [CartIds -> CartRecords], items' \in [ItemIds -> ItemRecords],
         told' \in [CartIds -> Nat], DocumentsInv'
  PROVE  IInv'
<1> DEFINE next == [calls[c] EXCEPT !.cart = k, !.pc = at]
<1>1. calls \in [Calls -> CallLocals] /\ calls[c] \in CallLocals
  BY DEF IInv, TypeOK
<1>2. next \in CallLocals /\ next.pc = at /\ next.cart = k
  BY <1>1 DEF CallLocals
<1>3. calls' = [calls EXCEPT ![c] = next]
  BY <1>1 DEF CallLocals
<1> HIDE DEF next
<1> QED
  BY <1>2, <1>3, RunningStep

\* The call answers, or goes back from the edit to the addition it is part of.
LEMMA AnswerInv ==
  ASSUME NEW c \in Calls, IInv, calls[c].pc # "idle", calls[c].cart # 0, Answer(c),
         UNCHANGED outside,
         carts' \in [CartIds -> CartRecords], items' \in [ItemIds -> ItemRecords],
         told' \in [CartIds -> Nat], DocumentsInv'
  PROVE  IInv'
<1>1. CASE calls[c].op # "sum"
  BY <1>1, EndInv DEF Answer
<1>2. CASE calls[c].op = "sum"
  <2> DEFINE next == [calls[c] EXCEPT !.op = "add", !.pc = "details"]
  <2>1. calls[c] \in CallLocals /\ calls \in [Calls -> CallLocals]
    BY DEF IInv, TypeOK
  <2>2. next \in CallLocals /\ calls' = [calls EXCEPT ![c] = next]
    BY <1>2, <2>1 DEF Answer, CallLocals, PCs
  <2>3. next.pc = "details" /\ next.cart # 0 /\ next.op = "add" /\ next.qty = calls[c].qty
    BY <2>1 DEF CallLocals
  <2> HIDE DEF next
  <2>4. calls'[c] = next
    BY <2>1, <2>2
  <2>5. CallInv(c)' /\ AloneInv(c)'
    BY <1>2, <2>3, <2>4 DEF IInv, CallInv, AloneInv
  <2> QED
    BY <2>2, <2>3, <2>5, RunningStep
<1> QED
  BY <1>1, <1>2

-----------------------------------------------------------------------------
(* Finding the cart.                                                       *)

LEMMA RefuseInv == ASSUME NEW c \in Calls, IInv, Refuse(c) PROVE IInv'
  BY EndLeavesDocuments DEF Refuse

LEMMA FindInv == ASSUME NEW c \in Calls, IInv, Find(c) PROVE IInv'
<1> DEFINE k == FindOrCreate(c)
<1>1. calls[c].pc = "find" /\ UNCHANGED <<outside, carts, items, told>>
  BY DEF Find
<1>2. \/ End(c)
      \/ k = 0 /\ calls[c].op = "add" /\ Goto(c, "create")
      \/ k # 0 /\ MayUse(c, k) /\ calls' = [calls EXCEPT ![c].cart = k, ![c].pc =
                                   IF calls[c].op = "view" THEN "details" ELSE "renew"]
  BY DEF Find, IInv, CallInv
<1>3. DocumentsInv' /\ TypeOK
  BY <1>1, DocumentsKept DEF IInv, outside, history
<1>4. CASE End(c)
  BY <1>1, <1>4, EndLeavesDocuments
<1>5. CASE k = 0 /\ calls[c].op = "add" /\ Goto(c, "create")
  <2>1. \A l \in CartIds : Open(l) => ~carts[l].session /\ ~(calls[c].member /\ carts[l].user)
    BY <1>3, <1>5, FoundCarts DEF FindOrCreate
  <2>2. calls'[c].pc = "create" /\ UNCHANGED <<calls[c].op, calls[c].member, calls[c].qty>>
    BY <1>3, <1>5, GotoEffect DEF PCs
  <2>3. CallInv(c)' /\ AloneInv(c)'
    BY <1>1, <1>5, <2>1, <2>2 DEF IInv, CallInv, AloneInv, Open
  <2> QED
    BY <1>1, <1>3, <1>5, <2>3, GotoInv DEF IInv, TypeOK, PCs
<1>6. CASE k # 0 /\ MayUse(c, k) /\ calls' = [calls EXCEPT ![c].cart = k, ![c].pc =
                                   IF calls[c].op = "view" THEN "details" ELSE "renew"]
  <2>1. /\ k \in 0..MaxCarts /\ k # 0 /\ Open(k)
        /\ "details" \in PCs /\ "renew" \in PCs
    BY <1>6 DEF MayUse, Open, CartIds, PCs
  <2> HIDE DEF k
  <2>2. CASE calls[c].op = "view"
    <3>1. calls' = [calls EXCEPT ![c].cart = k, ![c].pc = "details"]
      BY <1>6, <2>2
    <3>2. calls'[c].pc = "details" /\ calls'[c].op = "view"
      BY <1>3, <2>1, <2>2, <3>1, MoveEffect
    <3>3. CallInv(c)' /\ AloneInv(c)'
      BY <3>2 DEF CallInv, AloneInv
    <3> QED
      BY <1>1, <1>3, <2>1, <3>1, <3>3, MoveInv DEF TypeOK
  <2>3. CASE calls[c].op # "view"
    <3>1. calls' = [calls EXCEPT ![c].cart = k, ![c].pc = "renew"]
      BY <1>6, <2>3
    <3>2. calls'[c].pc = "renew" /\ UNCHANGED <<calls[c].op, calls[c].qty>>
      BY <1>3, <2>1, <3>1, MoveEffect
    <3>3. calls'[c].cart = k
      <4>1. calls \in [Calls -> CallLocals] /\ calls[c] \in CallLocals
        BY <1>3 DEF TypeOK
      <4> QED
        BY <3>1, <4>1 DEF CallLocals
    <3>4. CallInv(c)' /\ AloneInv(c)'
      BY <1>1, <2>1, <3>2, <3>3 DEF IInv, CallInv, AloneInv, Open
    <3> QED
      BY <1>1, <1>3, <2>1, <3>1, <3>4, MoveInv DEF TypeOK
  <2> QED
    BY <2>2, <2>3
<1> QED
  BY <1>2, <1>4, <1>5, <1>6

LEMMA AuthorizeInv == ASSUME NEW c \in Calls, IInv, Authorize(c) PROVE IInv'
<1> DEFINE k == calls[c].cart
<1>1. calls[c].pc = "auth" /\ UNCHANGED <<outside, carts, items, told>> /\ TypeOK
      /\ DocumentsInv'
  BY DocumentsKept DEF Authorize, IInv, outside, history
<1>2. CASE ~MayUse(c, k)
  BY <1>1, <1>2, EndLeavesDocuments DEF Authorize
<1>3. CASE MayUse(c, k)
  <2>1. Goto(c, "renew") /\ Open(k) /\ k # 0
    BY <1>1, <1>3 DEF Authorize, MayUse, TypeOK
  <2>2. calls'[c].pc = "renew" /\ UNCHANGED <<calls[c].op, calls[c].cart, calls[c].qty>>
    BY <1>1, <2>1, GotoEffect DEF PCs
  <2>3. CallInv(c)' /\ AloneInv(c)'
    BY <1>1, <2>1, <2>2 DEF IInv, CallInv, AloneInv, Open
  <2> QED
    BY <1>1, <2>1, <2>3, GotoInv DEF IInv, TypeOK, PCs
<1> QED
  BY <1>2, <1>3

-----------------------------------------------------------------------------
(* The changes of an addition, an edit and a removal.                      *)

\* The next cart is none of those made before.
LEMMA NextCart ==
  ASSUME \E l \in CartIds : carts[l].state = "none"
  PROVE  LET k == Fresh({l \in CartIds : carts[l].state = "none"})
         IN k \in CartIds /\ carts[k].state = "none"
<1> DEFINE S == {l \in CartIds : carts[l].state = "none"}
<1>1. S \in SUBSET Nat /\ S # {}
  BY DEF CartIds
<1>2. Fresh(S) \in S
  BY <1>1, FreshIsOne
<1> QED
  BY <1>2

LEMMA NextItem ==
  ASSUME \E j \in ItemIds : items[j].state = "none"
  PROVE  LET i == Fresh({j \in ItemIds : items[j].state = "none"})
         IN i \in ItemIds /\ items[i].state = "none"
<1> DEFINE S == {j \in ItemIds : items[j].state = "none"}
<1>1. S \in SUBSET Nat /\ S # {}
  BY DEF ItemIds
<1>2. Fresh(S) \in S
  BY <1>1, FreshIsOne
<1> QED
  BY <1>2

LEMMA CreateCartInv == ASSUME NEW c \in Calls, IInv, CreateCart(c) PROVE IInv'
<1> DEFINE k == Fresh({l \in CartIds : carts[l].state = "none"})
           new == [state |-> "open", user |-> calls[c].member, session |-> TRUE,
                   expires |-> now + Life, notified |-> FALSE]
<1>1. /\ calls[c].pc = "create" /\ Stock[calls[c].product] >= calls[c].qty
      /\ calls[c].qty >= 1
      /\ carts' = [carts EXCEPT ![k] = new]
      /\ calls' = [calls EXCEPT ![c].cart = k, ![c].pc = "createItem"]
      /\ UNCHANGED <<outside, items, told>>
  BY DEF CreateCart, IInv, CallInv
<1>2. k \in CartIds /\ carts[k].state = "none"
  BY NextCart DEF CreateCart
<1>3. /\ calls[c] \in CallLocals /\ calls \in [Calls -> CallLocals]
      /\ carts \in [CartIds -> CartRecords] /\ now \in Nat
  BY DEF IInv, TypeOK
<1>4. new \in CartRecords
  BY <1>3 DEF CallLocals, CartRecords
<1>5. k \in 0..MaxCarts /\ k # 0 /\ "createItem" \in PCs \ {"idle", "merge"}
  BY <1>2 DEF CartIds, PCs
<1>6. /\ calls'[c].pc = "createItem" /\ calls'[c].cart = k
      /\ UNCHANGED <<calls[c].op, calls[c].product, calls[c].size, calls[c].qty>>
  BY <1>1, <1>5, MoveEffect DEF IInv
<1>7. new.state = "open" /\ new.user = calls[c].member /\ new.session /\ ~new.notified
  OBVIOUS
<1> HIDE DEF new, k
<1>8. /\ carts'[k] = new /\ carts' \in [CartIds -> CartRecords]
      /\ \A l \in CartIds \ {k} : carts'[l] = carts[l]
      /\ UNCHANGED <<items, told, overlapped>>
  BY <1>1, <1>2, <1>3, <1>4 DEF outside, history
<1>9. CallInv(c)'
  BY <1>1, <1>3, <1>6 DEF CallInv, CallLocals
<1>10. ASSUME ~overlapped PROVE AloneInv(c)'
  <2>1. \A i \in ItemIds : Held(i) => items[i].cart # k
    BY <1>2, <1>10 DEF IInv, DocumentsInv, NoOrphans, Open
  <2> QED
    BY <1>2, <1>6, <1>7, <1>8, <2>1 DEF AloneInv, InCart, Open, Held
<1>11. DocumentsInv'
  <2>1. QuantityWithinStock' /\ UnmadeCarts' /\ OneLineEach'
    BY <1>7, <1>8 DEF IInv, DocumentsInv, QuantityWithinStock, UnmadeCarts, OneLineEach, Held
  <2>2. OneCartEach'
    <3> SUFFICES ASSUME ~overlapped, NEW l \in CartIds, NEW m \in CartIds,
                        Open(l)', Open(m)', l # m
                 PROVE  /\ ~(carts'[l].user /\ carts'[m].user)
                        /\ ~(carts'[l].session /\ carts'[m].session)
      BY <1>8 DEF OneCartEach
    <3>1. \A j \in CartIds : Open(j) => ~carts[j].session /\ ~(calls[c].member /\ carts[j].user)
      BY <1>1 DEF IInv, AloneInv
    <3>2. \A j \in CartIds \ {k} : Open(j)' => Open(j)
      BY <1>8 DEF Open
    <3> QED
      BY <1>7, <1>8, <3>1, <3>2 DEF IInv, DocumentsInv, OneCartEach
  <2>3. NoOrphans'
    BY <1>2, <1>8 DEF IInv, DocumentsInv, NoOrphans, Open, Held
  <2>4. ExpiryToldOnce'
    BY <1>2, <1>7, <1>8 DEF IInv, DocumentsInv, UnmadeCarts, ExpiryToldOnce, Open
  <2> QED
    BY <2>1, <2>2, <2>3, <2>4 DEF DocumentsInv
<1>12. items' \in [ItemIds -> ItemRecords] /\ told' \in [CartIds -> Nat]
  BY <1>8 DEF IInv, TypeOK
<1> QED
  BY <1>1, <1>5, <1>8, <1>9, <1>10, <1>11, <1>12, MoveInv

LEMMA CreateItemInv == ASSUME NEW c \in Calls, IInv, CreateItem(c) PROVE IInv'
<1> DEFINE i == Fresh({j \in ItemIds : items[j].state = "none"})
           k == calls[c].cart
           new == [state |-> "in", cart |-> k, product |-> calls[c].product,
                   size |-> calls[c].size, qty |-> calls[c].qty]
<1>1. /\ calls[c].pc = "createItem" /\ items' = [items EXCEPT ![i] = new]
      /\ Goto(c, "details") /\ UNCHANGED <<outside, carts, told>>
      /\ calls[c].qty \in 1..Stock[calls[c].product]
  BY DEF CreateItem, IInv, CallInv
<1>2. i \in ItemIds /\ items[i].state = "none"
  BY NextItem DEF CreateItem
<1>3. calls[c] \in CallLocals /\ items \in [ItemIds -> ItemRecords] /\ k # 0
  BY <1>1 DEF IInv, TypeOK
<1>4. new \in ItemRecords
  BY <1>3 DEF CallLocals, ItemRecords
<1>5. /\ new.state = "in" /\ new.cart = k /\ new.qty = calls[c].qty
      /\ new.product = calls[c].product /\ new.size = calls[c].size
  OBVIOUS
<1> HIDE DEF i, new
<1>6. /\ items'[i] = new /\ items' \in [ItemIds -> ItemRecords]
      /\ \A j \in ItemIds \ {i} : items'[j] = items[j]
      /\ UNCHANGED <<carts, told, overlapped>>
  BY <1>1, <1>2, <1>3, <1>4 DEF outside, history
<1>7. /\ calls'[c].pc = "details" /\ UNCHANGED <<calls[c].op, calls[c].qty>>
  BY <1>1, GotoEffect DEF IInv, PCs
<1>8. CallInv(c)' /\ AloneInv(c)'
  BY <1>1, <1>7 DEF IInv, CallInv, AloneInv
<1>9. DocumentsInv'
  <2>1. QuantityWithinStock' /\ UnmadeCarts'
    BY <1>1, <1>3, <1>5, <1>6 DEF IInv, DocumentsInv, QuantityWithinStock, UnmadeCarts, Held
  <2>2. OneLineEach'
    <3> SUFFICES ASSUME ~overlapped, NEW j \in ItemIds \ {i}, Held(j)
                 PROVE  items[j].cart # k \/ ~SameLine(items[j], calls[c])
      BY <1>5, <1>6 DEF IInv, DocumentsInv, OneLineEach, SameLine, Held
    <3> QED
      BY <1>1 DEF IInv, AloneInv, InCart, Held
  <2>3. NoOrphans'
    BY <1>1, <1>5, <1>6 DEF IInv, AloneInv, DocumentsInv, NoOrphans, Open, Held
  <2>4. OneCartEach' /\ ExpiryToldOnce'
    BY <1>6 DEF IInv, DocumentsInv, OneCartEach, ExpiryToldOnce, Open
  <2> QED
    BY <2>1, <2>2, <2>3, <2>4 DEF DocumentsInv
<1> QED
  BY <1>1, <1>3, <1>6, <1>8, <1>9, GotoInv DEF IInv, TypeOK, PCs

LEMMA RenewInv == ASSUME NEW c \in Calls, IInv, Renew(c) PROVE IInv'
<1> DEFINE k == calls[c].cart
           at == IF calls[c].op = "add" THEN "items" ELSE "item"
<1>1. calls[c].pc = "renew" /\ Goto(c, at) /\ UNCHANGED <<outside, items>> /\ k # 0
  BY DEF Renew, IInv, TypeOK
<1>2. /\ calls'[c].pc = at
      /\ UNCHANGED <<calls[c].op, calls[c].qty, calls[c].cart>>
  BY <1>1, GotoEffect DEF IInv, PCs
<1>3. CallInv(c)'
  BY <1>2 DEF IInv, CallInv
<1>4. /\ carts' \in [CartIds -> CartRecords] /\ told' \in [CartIds -> Nat]
      /\ items' \in [ItemIds -> ItemRecords]
      /\ \A l \in CartIds : /\ carts'[l].state = carts[l].state
                            /\ carts'[l].user = carts[l].user
                            /\ carts'[l].session = carts[l].session
                            /\ \/ ~carts'[l].notified /\ told'[l] = 0
                               \/ carts'[l].notified = carts[l].notified /\ told'[l] = told[l]
      /\ overlapped' = overlapped
  <2>1. now \in Nat /\ carts \in [CartIds -> CartRecords] /\ told \in [CartIds -> Nat]
        /\ items \in [ItemIds -> ItemRecords]
    BY DEF IInv, TypeOK
  <2>2. CASE ~Open(k)
    BY <1>1, <2>1, <2>2 DEF Renew, outside, history
  <2>3. CASE Open(k)
    <3> DEFINE new == [carts[k] EXCEPT !.expires = now + Life, !.notified = FALSE]
    <3>1. k \in CartIds /\ carts[k] \in CartRecords
      BY <2>1, <2>3 DEF Open
    <3>2. new \in CartRecords
      <4>1. now + Life \in Nat
        BY <2>1
      <4> QED
        BY <3>1, <4>1 DEF CartRecords
    <3>3. /\ new.state = carts[k].state /\ new.user = carts[k].user
          /\ new.session = carts[k].session /\ ~new.notified
      BY <3>1 DEF CartRecords
    <3>4. carts' = [carts EXCEPT ![k] = new] /\ told' = [told EXCEPT ![k] = 0]
      BY <2>1, <2>3, <3>1 DEF Renew, CartRecords
    <3> HIDE DEF new
    <3>5. /\ carts' \in [CartIds -> CartRecords] /\ carts'[k] = new /\ told'[k] = 0
          /\ told' \in [CartIds -> Nat]
          /\ \A l \in CartIds \ {k} : carts'[l] = carts[l] /\ told'[l] = told[l]
      BY <2>1, <3>1, <3>2, <3>4
    <3> QED
      BY <1>1, <2>1, <3>3, <3>5 DEF outside, history
  <2> QED
    BY <2>2, <2>3
<1>5. ~overlapped => AloneInv(c)'
  BY <1>1, <1>2, <1>4 DEF IInv, AloneInv, Open
<1>6. DocumentsInv'
  BY <1>1, <1>4 DEF IInv, DocumentsInv, QuantityWithinStock, UnmadeCarts, OneCartEach,
     OneLineEach, NoOrphans, ExpiryToldOnce, Open, Held
<1> QED
  BY <1>1, <1>3, <1>4, <1>5, <1>6, GotoInv DEF PCs

LEMMA AddItemInv == ASSUME NEW c \in Calls, IInv, AddItem(c) PROVE IInv'
<1> DEFINE k == calls[c].cart
           j == Same(c)
           sum == calls[c].qty + items[j].qty
<1>1. /\ calls[c].pc = "items" /\ k # 0 /\ calls[c].op = "add" /\ calls[c].qty >= 1
      /\ UNCHANGED <<outside, carts, items, told>>
      /\ calls \in [Calls -> CallLocals] /\ calls[c] \in CallLocals
      /\ items \in [ItemIds -> ItemRecords]
      /\ carts \in [CartIds -> CartRecords] /\ told \in [CartIds -> Nat]
  BY DEF AddItem, IInv, TypeOK, CallInv
<1>2. DocumentsInv'
  BY <1>1, DocumentsKept DEF IInv, outside, history
<1>3. \/ End(c)
      \/ Stock[calls[c].product] >= calls[c].qty /\ j = 0 /\ Goto(c, "createItem")
      \/ j # 0 /\ calls' = [calls EXCEPT ![c].op = "sum", ![c].pc = "auth",
                                         ![c].item = j, ![c].qty = sum]
  <2>1. calls[c].qty \in Nat /\ calls[c].product \in Products
    BY <1>1 DEF CallLocals
  <2> QED
    BY <2>1 DEF AddItem
<1>4. CASE End(c)
  BY <1>1, <1>4, EndLeavesDocuments
<1>5. CASE Stock[calls[c].product] >= calls[c].qty /\ j = 0 /\ Goto(c, "createItem")
  <2>1. /\ calls'[c].pc = "createItem"
        /\ UNCHANGED <<calls[c].op, calls[c].cart, calls[c].product, calls[c].size, calls[c].qty>>
    BY <1>5, GotoEffect DEF IInv, PCs
  <2>2. calls[c].qty \in Nat /\ Stock[calls[c].product] \in Nat
    BY <1>1 DEF CallLocals
  <2>3. CallInv(c)'
    BY <1>1, <1>5, <2>1, <2>2 DEF CallInv
  <2>4. \A i \in InCart(k) : ~SameLine(items[i], calls[c])
    BY <1>5, SameItem
  <2>5. ~overlapped => AloneInv(c)'
    BY <1>1, <2>1, <2>4 DEF IInv, AloneInv, InCart, SameLine, Open
  <2> QED
    BY <1>1, <1>2, <1>5, <2>3, <2>5, GotoInv DEF PCs
<1>6. CASE j # 0 /\ calls' = [calls EXCEPT ![c].op = "sum", ![c].pc = "auth",
                                           ![c].item = j, ![c].qty = sum]
  <2> DEFINE next == [calls[c] EXCEPT !.op = "sum", !.pc = "auth", !.item = j, !.qty = sum]
  <2>1. j \in ItemIds /\ j \in 0..MaxItems
    BY <1>6, SameItem DEF Held
  <2>2. sum \in Nat /\ sum >= 1
    <3>1. items[j].qty \in Nat /\ calls[c].qty \in Nat
      BY <1>1, <2>1 DEF ItemRecords, CallLocals
    <3> QED
      BY <1>1, <3>1
  <2> HIDE DEF j, sum
  <2>3. /\ next \in CallLocals /\ next.pc = "auth" /\ next.cart = k /\ next.op = "sum"
        /\ next.qty = sum
    BY <1>1, <2>1, <2>2 DEF CallLocals, PCs
  <2>4. calls' = [calls EXCEPT ![c] = next] /\ calls'[c] = next
    BY <1>1, <1>6 DEF CallLocals
  <2> HIDE DEF next
  <2>5. CallInv(c)' /\ AloneInv(c)'
    BY <2>2, <2>3, <2>4 DEF CallInv, AloneInv
  <2> QED
    BY <1>1, <1>2, <2>3, <2>4, <2>5, RunningStep
<1> QED
  BY <1>3, <1>4, <1>5, <1>6

\* Items only go: whatever holds of the documents still does.
LEMMA FewerItems ==
  ASSUME DocumentsInv, UNCHANGED <<carts, told, overlapped>>,
         \A i \in ItemIds : Held(i)' => Held(i) /\ items'[i] = items[i]
  PROVE  DocumentsInv'
  BY DEF DocumentsInv, QuantityWithinStock, UnmadeCarts, OneCartEach, OneLineEach, NoOrphans,
         ExpiryToldOnce, Held, Open

LEMMA EditItemInv == ASSUME NEW c \in Calls, IInv, EditItem(c) PROVE IInv'
<1> DEFINE i == calls[c].item
           q == calls[c].qty
<1>1. /\ calls[c].pc = "item" /\ calls[c].op \in {"edit", "sum"} /\ q >= 1
      /\ calls[c].cart # 0 /\ UNCHANGED <<outside, carts, told>>
      /\ calls[c] \in CallLocals /\ items \in [ItemIds -> ItemRecords]
      /\ carts \in [CartIds -> CartRecords] /\ told \in [CartIds -> Nat]
  BY DEF EditItem, IInv, TypeOK, CallInv
<1>2. CASE ~(Held(i) /\ Stock[items[i].product] >= q)
  BY <1>1, <1>2, EndLeavesDocuments DEF EditItem
<1>3. CASE Held(i) /\ Stock[items[i].product] >= q
  <2> DEFINE new == [items[i] EXCEPT !.qty = q]
  <2>1. i \in ItemIds /\ items[i] \in ItemRecords /\ q \in Nat
    BY <1>1, <1>3 DEF Held, CallLocals
  <2>2. /\ new \in ItemRecords /\ new.qty = q /\ new.state = items[i].state
        /\ new.cart = items[i].cart /\ new.product = items[i].product
        /\ new.size = items[i].size
    BY <2>1 DEF ItemRecords
  <2>3. items' = [items EXCEPT ![i] = new] /\ Goto(c, "details")
    BY <1>1, <1>3, <2>1 DEF EditItem, ItemRecords
  <2> HIDE DEF new
  <2>4. /\ items' \in [ItemIds -> ItemRecords] /\ items'[i] = new
        /\ \A j \in ItemIds \ {i} : items'[j] = items[j]
        /\ overlapped' = overlapped
    BY <1>1, <2>1, <2>2, <2>3 DEF outside, history
  <2>5. Stock[items[i].product] \in Nat
    BY <2>1 DEF ItemRecords
  <2>6. DocumentsInv'
    BY <1>1, <1>3, <2>1, <2>2, <2>4, <2>5 DEF IInv, DocumentsInv, QuantityWithinStock,
       UnmadeCarts, OneCartEach, OneLineEach, SameLine, NoOrphans, ExpiryToldOnce, Held, Open
  <2>7. calls'[c].pc = "details" /\ UNCHANGED <<calls[c].op, calls[c].qty>>
    BY <2>3, GotoEffect DEF IInv, PCs
  <2>8. CallInv(c)' /\ AloneInv(c)'
    BY <2>7 DEF IInv, CallInv, AloneInv
  <2> QED
    BY <1>1, <2>3, <2>4, <2>6, <2>8, GotoInv DEF PCs
<1> QED
  BY <1>2, <1>3

LEMMA RemoveItemInv == ASSUME NEW c \in Calls, IInv, RemoveItem(c) PROVE IInv'
<1> DEFINE i == calls[c].item
<1>1. /\ calls[c].pc = "item" /\ calls[c].op = "remove" /\ calls[c].cart # 0
      /\ UNCHANGED <<outside, carts, told>> /\ items \in [ItemIds -> ItemRecords]
      /\ carts \in [CartIds -> CartRecords] /\ told \in [CartIds -> Nat]
  BY DEF RemoveItem, IInv, TypeOK
<1>2. CASE ~Held(i)
  BY <1>1, <1>2, EndLeavesDocuments DEF RemoveItem
<1>3. CASE Held(i)
  <2>1. items' = [items EXCEPT ![i] = GoneItem] /\ Goto(c, "remaining")
    BY <1>3 DEF RemoveItem
  <2>2. i \in ItemIds /\ items[i] \in ItemRecords
    BY <1>1, <1>3 DEF Held
  <2>3. /\ items' \in [ItemIds -> ItemRecords] /\ items'[i].state = "gone"
        /\ \A j \in ItemIds \ {i} : items'[j] = items[j]
    BY <1>1, <2>1, <2>2, Placeholders
  <2>4. DocumentsInv'
    BY <1>1, <2>3, FewerItems DEF IInv, Held, outside, history
  <2>5. calls'[c].pc = "remaining" /\ UNCHANGED <<calls[c].op, calls[c].qty>>
    BY <2>1, GotoEffect DEF IInv, PCs
  <2>6. CallInv(c)' /\ AloneInv(c)'
    BY <2>5 DEF IInv, CallInv, AloneInv
  <2> QED
    BY <1>1, <2>1, <2>3, <2>4, <2>6, GotoInv DEF PCs
<1> QED
  BY <1>2, <1>3

LEMMA RemainingInv == ASSUME NEW c \in Calls, IInv, Remaining(c) PROVE IInv'
<1> DEFINE k == calls[c].cart
<1>1. /\ calls[c].pc = "remaining" /\ k # 0 /\ UNCHANGED <<outside, carts, items, told>>
      /\ DocumentsInv' /\ TypeOK
  BY DocumentsKept DEF Remaining, IInv, TypeOK, outside, history
<1>2. CASE InCart(k) = {}
  <2>1. Goto(c, "drop")
    BY <1>2 DEF Remaining
  <2>2. /\ calls'[c].pc = "drop"
        /\ UNCHANGED <<calls[c].op, calls[c].cart, calls[c].qty>>
    BY <1>1, <2>1, GotoEffect DEF PCs
  <2>3. CallInv(c)' /\ AloneInv(c)'
    BY <1>1, <1>2, <2>2 DEF IInv, CallInv, AloneInv, InCart
  <2> QED
    BY <1>1, <2>1, <2>3, GotoInv DEF TypeOK, PCs
<1>3. CASE InCart(k) # {}
  <2>1. Goto(c, "details")
    BY <1>3 DEF Remaining
  <2>2. calls'[c].pc = "details" /\ UNCHANGED <<calls[c].op, calls[c].qty>>
    BY <1>1, <2>1, GotoEffect DEF PCs
  <2>3. CallInv(c)' /\ AloneInv(c)'
    BY <2>2 DEF IInv, CallInv, AloneInv
  <2> QED
    BY <1>1, <2>1, <2>3, GotoInv DEF TypeOK, PCs
<1> QED
  BY <1>2, <1>3

-----------------------------------------------------------------------------
(* Carts that go, with their items or without any.                         *)

LEMMA WithoutEffect ==
  ASSUME TypeOK, NEW k \in 0..MaxCarts, items' = Without(k)
  PROVE  /\ items' \in [ItemIds -> ItemRecords]
         /\ \A i \in ItemIds : Held(i)' => /\ Held(i) /\ items'[i] = items[i]
                                           /\ items[i].cart # k
         /\ \A i \in ItemIds : Held(i) /\ items[i].cart # k => items'[i] = items[i]
<1>1. items \in [ItemIds -> ItemRecords]
  BY DEF TypeOK
<1>2. GoneItem \in ItemRecords /\ GoneItem.state = "gone"
  BY Placeholders
<1>3. \A i \in ItemIds : items'[i] = IF i \in InCart(k) THEN GoneItem ELSE items[i]
  BY DEF Without
<1>4. items' \in [ItemIds -> ItemRecords]
  BY <1>1, <1>2 DEF Without
<1>5. \A i \in ItemIds : i \in InCart(k) <=> Held(i) /\ items[i].cart = k
  BY DEF InCart, Held
<1> QED
  BY <1>2, <1>3, <1>4, <1>5 DEF Held

\* A cart is gone, and so are its items, if the customer's calls do not overlap.
LEMMA CartGone ==
  ASSUME TypeOK, DocumentsInv, NEW k \in CartIds,
         carts' = [carts EXCEPT ![k] = GoneCart],
         told' = told, ~overlapped' => ~overlapped,
         \A i \in ItemIds : Held(i)' => Held(i) /\ items'[i] = items[i],
         ~overlapped => \A i \in ItemIds : Held(i)' => items[i].cart # k
  PROVE  carts' \in [CartIds -> CartRecords] /\ DocumentsInv'
<1>1. carts \in [CartIds -> CartRecords] /\ carts[k] \in CartRecords
  BY DEF TypeOK
<1>2. /\ carts' \in [CartIds -> CartRecords]
      /\ carts'[k].state = "gone"
      /\ \A l \in CartIds \ {k} : carts'[l] = carts[l]
  BY <1>1, Placeholders
<1>3. \A l \in CartIds : Open(l)' <=> Open(l) /\ l # k
  BY <1>2 DEF Open
<1>4. QuantityWithinStock' /\ UnmadeCarts'
  BY <1>2 DEF DocumentsInv, QuantityWithinStock, UnmadeCarts
<1>5. OneCartEach' /\ ExpiryToldOnce'
  BY <1>2, <1>3 DEF DocumentsInv, OneCartEach, ExpiryToldOnce
<1>6. OneLineEach'
  BY DEF DocumentsInv, OneLineEach
<1>7. NoOrphans'
  <2> SUFFICES ASSUME ~overlapped, NEW i \in ItemIds, Held(i)'
               PROVE  Open(items[i].cart)'
    BY DEF NoOrphans
  <2>1. Held(i) /\ items'[i] = items[i] /\ items[i].cart # k /\ Open(items[i].cart)
    BY DEF DocumentsInv, NoOrphans
  <2>2. items[i].cart \in CartIds
    BY <2>1 DEF Open
  <2> QED
    BY <1>2, <2>1, <2>2 DEF Open
<1> QED
  BY <1>2, <1>4, <1>5, <1>6, <1>7 DEF DocumentsInv

LEMMA DropCartInv == ASSUME NEW c \in Calls, IInv, DropCart(c) PROVE IInv'
<1> DEFINE k == calls[c].cart
<1>1. /\ calls[c].pc = "drop" /\ End(c) /\ UNCHANGED <<outside, items, told>>
      /\ TypeOK /\ DocumentsInv /\ overlapped' = overlapped
      /\ ~overlapped => InCart(k) = {}
  BY DEF DropCart, IInv, AloneInv, outside, history
<1>2. CASE ~MayUse(c, k)
  BY <1>1, <1>2, EndLeavesDocuments DEF DropCart
<1>3. CASE MayUse(c, k)
  <2>1. k \in CartIds /\ carts' = [carts EXCEPT ![k] = GoneCart]
    BY <1>3 DEF DropCart, MayUse, Open
  <2>2. ~overlapped => \A i \in ItemIds : Held(i) => items[i].cart # k
    BY <1>1 DEF InCart, Held
  <2>3. \A i \in ItemIds : Held(i)' <=> Held(i)
    BY <1>1 DEF Held
  <2>4. carts' \in [CartIds -> CartRecords] /\ DocumentsInv'
    BY <1>1, <2>1, <2>2, <2>3, CartGone
  <2> QED
    BY <1>1, <2>4, EndInv DEF TypeOK
<1> QED
  BY <1>2, <1>3

\* The items of the guest cart go, and the cart too if it is still there.
LEMMA MergeInv == ASSUME NEW c \in Calls, IInv, Merge(c) PROVE IInv'
<1> DEFINE k == calls[c].cart
           mine == calls[c].mine
<1>1. /\ calls[c].pc = "merge" /\ items' = Without(k)
      /\ calls' = [calls EXCEPT ![c].cart = mine, ![c].pc = "details"]
      /\ UNCHANGED <<outside, told>> /\ overlapped' = overlapped
      /\ TypeOK /\ DocumentsInv
  BY DEF Merge, IInv, outside, history
<1>2. k \in 0..MaxCarts /\ mine \in 0..MaxCarts /\ mine # 0
  BY <1>1 DEF TypeOK, CallLocals
<1>3. "details" \in PCs
  BY DEF PCs
<1>4. calls'[c].pc = "details" /\ UNCHANGED <<calls[c].op, calls[c].qty>>
  BY <1>1, <1>2, <1>3, MoveEffect
<1>5. CallInv(c)' /\ AloneInv(c)'
  BY <1>4 DEF IInv, CallInv, AloneInv
<1>6. /\ items' \in [ItemIds -> ItemRecords]
      /\ \A i \in ItemIds : Held(i)' => Held(i) /\ items'[i] = items[i] /\ items[i].cart # k
  BY <1>1, <1>2, WithoutEffect
<1>7. carts' \in [CartIds -> CartRecords] /\ DocumentsInv'
  <2>1. CASE Open(k)
    <3>1. k \in CartIds /\ carts' = [carts EXCEPT ![k] = GoneCart]
      BY <2>1 DEF Merge, Open
    <3> QED
      BY <1>1, <1>6, <3>1, CartGone
  <2>2. CASE ~Open(k)
    <3>1. carts' = carts
      BY <2>2 DEF Merge
    <3> QED
      BY <1>1, <1>6, <3>1, FewerItems DEF TypeOK
  <2> QED
    BY <2>1, <2>2
<1> QED
  BY <1>1, <1>2, <1>3, <1>5, <1>6, <1>7, MoveInv DEF TypeOK

-----------------------------------------------------------------------------
(* getCartDetails.                                                         *)

LEMMA DetailsInv == ASSUME NEW c \in Calls, IInv, Details(c) PROVE IInv'
<1> DEFINE k == calls[c].cart
<1>1. /\ calls[c].pc = "details" /\ k # 0 /\ UNCHANGED <<outside, carts, items, told>>
      /\ TypeOK /\ DocumentsInv' /\ UNCHANGED <<now, overlapped>>
      /\ carts \in [CartIds -> CartRecords] /\ items \in [ItemIds -> ItemRecords]
      /\ told \in [CartIds -> Nat] /\ now \in Nat
      /\ calls \in [Calls -> CallLocals] /\ calls[c] \in CallLocals
  BY DocumentsKept DEF Details, IInv, TypeOK, outside, history
<1>2. \/ End(c) \/ Answer(c)
      \/ /\ Open(k) /\ (Past(k) \/ LastSecond(k))
         /\ calls' = [calls EXCEPT ![c].pc = "wipe", ![c].first = ~carts[k].notified]
  BY DEF Details, MayUse
<1>3. CASE End(c)
  BY <1>1, <1>3, EndLeavesDocuments
<1>4. CASE Answer(c)
  BY <1>1, <1>4, AnswerInv
<1>5. CASE /\ Open(k) /\ (Past(k) \/ LastSecond(k))
           /\ calls' = [calls EXCEPT ![c].pc = "wipe", ![c].first = ~carts[k].notified]
  <2> DEFINE next == [calls[c] EXCEPT !.pc = "wipe", !.first = ~carts[k].notified]
  <2>1. next \in CallLocals /\ calls' = [calls EXCEPT ![c] = next] /\ calls'[c] = next
    BY <1>1, <1>5 DEF CallLocals, PCs
  <2>2. /\ next.pc = "wipe" /\ next.cart = k /\ next.op = calls[c].op
        /\ next.qty = calls[c].qty
    BY <1>1 DEF CallLocals
  <2>3. next.first => ~carts[k].notified
    BY <1>1 DEF CallLocals
  <2>4. carts[k].expires <= now
    BY <1>1, <1>5 DEF Past, LastSecond, Open, CartRecords
  <2> HIDE DEF next
  <2>5. CallInv(c)'
    BY <2>1, <2>2 DEF IInv, CallInv
  <2>6. AloneInv(c)'
    BY <1>1, <1>5, <2>1, <2>2, <2>3, <2>4 DEF AloneInv, Open
  <2> QED
    BY <1>1, <2>1, <2>2, <2>5, <2>6, RunningStep
<1> QED
  BY <1>2, <1>3, <1>4, <1>5

LEMMA WipeInv == ASSUME NEW c \in Calls, IInv, Wipe(c) PROVE IInv'
<1> DEFINE k == calls[c].cart
<1>1. /\ calls[c].pc = "wipe" /\ k # 0 /\ k \in 0..MaxCarts
      /\ UNCHANGED <<outside, carts, told>> /\ overlapped' = overlapped
      /\ TypeOK /\ DocumentsInv /\ items' = Without(k)
      /\ carts \in [CartIds -> CartRecords] /\ told \in [CartIds -> Nat]
  BY DEF Wipe, IInv, TypeOK, CallLocals, outside, history
<1>2. items' \in [ItemIds -> ItemRecords] /\ DocumentsInv'
  BY <1>1, WithoutEffect, FewerItems
<1>3. CASE ~calls[c].first
  BY <1>1, <1>2, <1>3, AnswerInv DEF Wipe
<1>4. CASE calls[c].first
  <2>1. Goto(c, "flag")
    BY <1>4 DEF Wipe
  <2>2. calls'[c].pc = "flag" /\ UNCHANGED <<calls[c].op, calls[c].cart, calls[c].qty>>
    BY <1>1, <2>1, GotoEffect DEF PCs
  <2>3. CallInv(c)'
    BY <2>2 DEF IInv, CallInv
  <2>4. ~overlapped => AloneInv(c)'
    BY <1>1, <1>4, <2>2 DEF IInv, AloneInv, Open
  <2> QED
    BY <1>1, <1>2, <2>1, <2>3, <2>4, GotoInv DEF PCs
<1> QED
  BY <1>3, <1>4

LEMMA FlagInv == ASSUME NEW c \in Calls, IInv, Flag(c) PROVE IInv'
<1> DEFINE k == calls[c].cart
<1>1. /\ calls[c].pc = "flag" /\ k # 0 /\ UNCHANGED <<outside, items>>
      /\ overlapped' = overlapped /\ DocumentsInv
      /\ carts \in [CartIds -> CartRecords] /\ items \in [ItemIds -> ItemRecords]
      /\ told \in [CartIds -> Nat]
  BY DEF Flag, IInv, TypeOK, outside, history
<1>2. CASE ~Open(k)
  BY <1>1, <1>2, EndLeavesDocuments DEF Flag
<1>3. CASE Open(k)
  <2> DEFINE new == [carts[k] EXCEPT !.notified = TRUE]
  <2>1. k \in CartIds /\ carts[k] \in CartRecords
    BY <1>1, <1>3 DEF Open
  <2>2. /\ new \in CartRecords /\ new.notified = TRUE /\ new.state = carts[k].state
        /\ new.user = carts[k].user /\ new.session = carts[k].session
    BY <2>1 DEF CartRecords
  <2>3. carts' = [carts EXCEPT ![k] = new] /\ told' = [told EXCEPT ![k] = @ + 1] /\ Answer(c)
    BY <1>1, <1>3, <2>1 DEF Flag, CartRecords
  <2> HIDE DEF new
  <2>4. /\ carts' \in [CartIds -> CartRecords] /\ told' \in [CartIds -> Nat]
        /\ carts'[k] = new /\ told'[k] = told[k] + 1
        /\ \A l \in CartIds \ {k} : carts'[l] = carts[l] /\ told'[l] = told[l]
    BY <1>1, <2>1, <2>2, <2>3
  <2>5. \A l \in CartIds : Open(l)' <=> Open(l)
    BY <2>2, <2>4 DEF Open
  <2>6. QuantityWithinStock' /\ OneLineEach'
    BY <1>1 DEF DocumentsInv, QuantityWithinStock, OneLineEach, Held
  <2>7. UnmadeCarts' /\ OneCartEach'
    BY <1>1, <1>3, <2>2, <2>4, <2>5 DEF DocumentsInv, UnmadeCarts, OneCartEach, Held, Open
  <2>8. NoOrphans'
    BY <1>1, <2>5 DEF DocumentsInv, NoOrphans, Held, Open
  <2>9. ExpiryToldOnce'
    <3>1. ~overlapped => ~carts[k].notified
      BY <1>1 DEF IInv, AloneInv
    <3> QED
      BY <1>1, <1>3, <2>1, <2>2, <2>4, <2>5, <3>1 DEF DocumentsInv, ExpiryToldOnce
  <2>10. DocumentsInv'
    BY <2>6, <2>7, <2>8, <2>9 DEF DocumentsInv
  <2> QED
    BY <1>1, <2>3, <2>4, <2>10, AnswerInv
<1> QED
  BY <1>2, <1>3

-----------------------------------------------------------------------------
(* mergeCarts up to the deletion of the guest cart.                        *)

LEMMA MergeGuestInv == ASSUME NEW c \in Calls, IInv, MergeGuest(c) PROVE IInv'
<1> DEFINE k == OfSession
           at == IF k = 0 THEN "mine" ELSE "user"
<1>1. /\ calls[c].pc = "guest" /\ UNCHANGED <<outside, carts, items, told>>
      /\ calls' = [calls EXCEPT ![c].cart = k, ![c].pc = at]
      /\ TypeOK /\ DocumentsInv'
  BY DocumentsKept DEF MergeGuest, IInv, outside, history
<1>2. k \in 0..MaxCarts /\ calls \in [Calls -> CallLocals] /\ calls[c] \in CallLocals
  BY <1>1, FoundCarts DEF TypeOK
<1>3. at \in PCs \ {"idle", "merge"} /\ at \in {"mine", "user"} /\ (at = "user" => k # 0)
  BY DEF PCs
<1> HIDE DEF k, at
<1>4. calls'[c].pc = at /\ UNCHANGED <<calls[c].op, calls[c].qty>>
  BY <1>1, <1>2 DEF CallLocals
<1>5. CallInv(c)' /\ AloneInv(c)'
  BY <1>3, <1>4 DEF IInv, CallInv, AloneInv
<1> QED
  BY <1>1, <1>2, <1>3, <1>5, MoveInv DEF TypeOK

LEMMA MergeNothingInv == ASSUME NEW c \in Calls, IInv, MergeNothing(c) PROVE IInv'
<1> DEFINE k == OfUser
<1>1. /\ calls[c].pc = "mine" /\ UNCHANGED <<outside, carts, items, told>>
      /\ TypeOK /\ DocumentsInv'
  BY DocumentsKept DEF MergeNothing, IInv, outside, history
<1>2. CASE k = 0
  BY <1>1, <1>2, EndLeavesDocuments DEF MergeNothing
<1>3. CASE k # 0
  <2>1. calls' = [calls EXCEPT ![c].cart = k, ![c].pc = "details"] /\ "details" \in PCs
    BY <1>3 DEF MergeNothing, PCs
  <2>2. k \in 0..MaxCarts
    BY <1>1, FoundCarts
  <2> HIDE DEF k
  <2>3. calls'[c].pc = "details" /\ UNCHANGED <<calls[c].op, calls[c].qty>>
    BY <1>1, <2>1, <2>2, MoveEffect
  <2>4. CallInv(c)' /\ AloneInv(c)'
    BY <2>3 DEF IInv, CallInv, AloneInv
  <2> QED
    BY <1>1, <1>3, <2>1, <2>2, <2>4, MoveInv DEF TypeOK
<1> QED
  BY <1>2, <1>3

LEMMA MergeUserInv == ASSUME NEW c \in Calls, IInv, MergeUser(c) PROVE IInv'
<1> DEFINE k == OfUser
           at == IF k = 0 THEN "transfer" ELSE "merge"
           next == [calls[c] EXCEPT !.mine = k, !.pc = at]
<1>1. /\ calls[c].pc = "user" /\ calls[c].cart # 0
      /\ UNCHANGED <<outside, carts, items, told>>
      /\ calls' = [calls EXCEPT ![c].mine = k, ![c].pc = at]
      /\ TypeOK /\ DocumentsInv'
  BY DocumentsKept DEF MergeUser, IInv, TypeOK, outside, history
<1>2. calls \in [Calls -> CallLocals] /\ calls[c] \in CallLocals
  BY <1>1 DEF TypeOK
<1>3. k \in 0..MaxCarts /\ (k = 0 => \A l \in CartIds : Open(l) => ~carts[l].user)
  BY <1>1, FoundCarts
<1>4. at \in PCs /\ at \in {"transfer", "merge"} /\ (at = "merge" <=> k # 0)
  BY DEF PCs
<1> HIDE DEF k, at
<1>5. next \in CallLocals
  BY <1>2, <1>3, <1>4 DEF CallLocals
<1>6. /\ next.pc = at /\ next.mine = k /\ next.cart = calls[c].cart /\ next.op = calls[c].op
      /\ next.qty = calls[c].qty
  BY <1>2 DEF CallLocals
<1>7. calls' = [calls EXCEPT ![c] = next] /\ calls'[c] = next
  BY <1>1, <1>2 DEF CallLocals
<1> HIDE DEF next
<1>8. CallInv(c)'
  BY <1>4, <1>6, <1>7 DEF IInv, CallInv
<1>9. AloneInv(c)'
  BY <1>1, <1>3, <1>4, <1>6, <1>7 DEF AloneInv, Open
<1> QED
  BY <1>1, <1>4, <1>5, <1>6, <1>7, <1>8, <1>9, RunningStep DEF TypeOK

LEMMA TransferInv == ASSUME NEW c \in Calls, IInv, Transfer(c) PROVE IInv'
<1> DEFINE k == calls[c].cart
<1>1. /\ calls[c].pc = "transfer" /\ k # 0 /\ UNCHANGED <<outside, items, told>>
      /\ overlapped' = overlapped /\ DocumentsInv /\ TypeOK
      /\ carts \in [CartIds -> CartRecords]
  BY DEF Transfer, IInv, TypeOK, outside, history
<1>2. CASE ~Open(k)
  BY <1>1, <1>2, EndLeavesDocuments DEF Transfer
<1>3. CASE Open(k)
  <2> DEFINE new == [carts[k] EXCEPT !.user = TRUE, !.session = FALSE]
  <2>1. k \in CartIds /\ carts[k] \in CartRecords
    BY <1>1, <1>3 DEF Open
  <2>2. /\ new \in CartRecords /\ new.session = FALSE /\ new.state = carts[k].state
        /\ new.notified = carts[k].notified
    BY <2>1 DEF CartRecords
  <2>3. carts' = [carts EXCEPT ![k] = new] /\ Goto(c, "details")
    BY <1>1, <1>3, <2>1 DEF Transfer, CartRecords
  <2> HIDE DEF new
  <2>4. /\ carts' \in [CartIds -> CartRecords] /\ carts'[k] = new
        /\ \A l \in CartIds \ {k} : carts'[l] = carts[l]
    BY <1>1, <2>1, <2>2, <2>3
  <2>5. \A l \in CartIds : Open(l)' <=> Open(l)
    BY <2>2, <2>4 DEF Open
  <2>6. QuantityWithinStock' /\ OneLineEach'
    BY <1>1 DEF DocumentsInv, QuantityWithinStock, OneLineEach, Held
  <2>7. UnmadeCarts' /\ ExpiryToldOnce'
    BY <1>1, <2>2, <2>4, <2>5 DEF DocumentsInv, UnmadeCarts, ExpiryToldOnce, Held
  <2>8. NoOrphans'
    BY <1>1, <2>5 DEF DocumentsInv, NoOrphans, Held, Open
  <2>9. OneCartEach'
    <3>1. ~overlapped => \A l \in CartIds : Open(l) => ~carts[l].user
      BY <1>1 DEF IInv, AloneInv
    <3> QED
      BY <1>1, <2>1, <2>2, <2>4, <2>5, <3>1 DEF DocumentsInv, OneCartEach
  <2>10. DocumentsInv'
    BY <2>6, <2>7, <2>8, <2>9 DEF DocumentsInv
  <2>11. calls'[c].pc = "details" /\ UNCHANGED <<calls[c].op, calls[c].qty>>
    BY <1>1, <2>3, GotoEffect DEF PCs
  <2>12. CallInv(c)' /\ AloneInv(c)'
    BY <2>11 DEF IInv, CallInv, AloneInv
  <2> QED
    BY <1>1, <2>3, <2>4, <2>10, <2>12, GotoInv DEF TypeOK, PCs
<1> QED
  BY <1>2, <1>3

-----------------------------------------------------------------------------
(* Requests, checkout and time.                                            *)

\* A request names a quantity if it adds or edits, and a cart if it edits or removes.
LEMMA BeginInv ==
  ASSUME NEW c \in Calls, NEW op \in {"view", "add", "edit", "remove", "merge"},
         NEW m \in BOOLEAN, NEW k \in 0..MaxCarts, NEW i \in 0..MaxItems, NEW p \in Products,
         NEW s \in Sizes \cup {NoSize}, NEW q \in Nat, IInv, Begin(c, op, m, k, i, p, s, q),
         op \in {"add", "edit"} => q >= 1,
         op \in {"edit", "remove"} => k # 0
  PROVE  IInv'
<1> DEFINE at == IF op = "merge" THEN "guest" ELSE
                 IF k = 0 THEN "find" ELSE
                 IF op = "view" THEN "details" ELSE "auth"
           next == [NoCall EXCEPT !.pc = at, !.op = op, !.member = m, !.cart = k, !.item = i,
                                  !.product = p, !.size = s, !.qty = q]
<1>1. /\ calls[c].pc = "idle" /\ started < MaxCalls /\ started' = started + 1
      /\ calls' = [calls EXCEPT ![c] = next]
      /\ UNCHANGED <<now, carts, items, told>>
  BY DEF Begin
<1>2. at \in PCs
  BY DEF PCs
<1>3. /\ at \in {"find", "guest", "details", "auth"} /\ (at = "find" => op \in {"view", "add"})
      /\ at \in {"details", "auth"} => k # 0
  OBVIOUS
<1> HIDE DEF at
<1>4. /\ next \in CallLocals /\ next.pc = at /\ next.op = op /\ next.cart = k /\ next.qty = q
  <2>1. NoCall \in CallLocals
    BY Placeholders
  <2> QED
    BY <1>2, <2>1 DEF CallLocals
<1> HIDE DEF next
<1>5. /\ calls' \in [Calls -> CallLocals] /\ calls'[c] = next
      /\ \A d \in Calls \ {c} : calls'[d] = calls[d]
  BY <1>1, <1>4 DEF IInv, TypeOK
<1>6. /\ overlapped' \in BOOLEAN
      /\ ~overlapped' => ~overlapped /\ \A d \in Calls : calls[d].pc = "idle"
  BY DEF Begin
<1>7. TypeOK'
  <2>1. started' \in 0..MaxCalls
    BY <1>1 DEF IInv, TypeOK
  <2> QED
    BY <1>1, <1>3, <1>4, <1>5, <1>6, <2>1 DEF IInv, TypeOK
<1>8. DocumentsInv'
  BY <1>1, <1>6 DEF IInv, DocumentsInv, QuantityWithinStock, UnmadeCarts, OneCartEach,
     OneLineEach, NoOrphans, ExpiryToldOnce, Held, Open
<1>9. ASSUME NEW d \in Calls PROVE CallInv(d)'
  BY <1>3, <1>4, <1>5 DEF IInv, CallInv
<1>10. ASSUME ~overlapped' PROVE AtMostOneRuns' /\ \A d \in Calls : AloneInv(d)'
  <2>1. \A d \in Calls \ {c} : calls'[d].pc = "idle"
    BY <1>5, <1>6, <1>10
  <2> QED
    BY <1>3, <1>4, <1>5, <2>1 DEF AtMostOneRuns, AloneInv
<1> QED
  BY <1>7, <1>8, <1>9, <1>10 DEF IInv

LEMMA CheckOutInv == ASSUME NEW k \in CartIds, IInv, CheckOut(k) PROVE IInv'
<1>1. /\ items' = Without(k) /\ carts' = [carts EXCEPT ![k] = GoneCart]
      /\ UNCHANGED <<now, calls, started, told>> /\ TypeOK /\ DocumentsInv
  BY DEF CheckOut, IInv
<1>2. k \in 0..MaxCarts
  BY DEF CartIds
<1>3. /\ overlapped' \in BOOLEAN
      /\ ~overlapped' => ~overlapped /\ \A d \in Calls : calls[d].pc = "idle"
  BY DEF CheckOut
<1>4. /\ items' \in [ItemIds -> ItemRecords]
      /\ \A i \in ItemIds : Held(i)' => Held(i) /\ items'[i] = items[i] /\ items[i].cart # k
  BY <1>1, <1>2, WithoutEffect
<1>5. carts' \in [CartIds -> CartRecords] /\ DocumentsInv'
  BY <1>1, <1>3, <1>4, CartGone
<1>6. TypeOK'
  BY <1>1, <1>3, <1>4, <1>5 DEF TypeOK
<1>7. \A d \in Calls : CallInv(d)'
  BY <1>1 DEF IInv, CallInv
<1>8. ~overlapped' => AtMostOneRuns' /\ \A d \in Calls : AloneInv(d)'
  BY <1>1, <1>3 DEF AtMostOneRuns, AloneInv
<1> QED
  BY <1>5, <1>6, <1>7, <1>8 DEF IInv

LEMMA TickInv == ASSUME IInv, Tick PROVE IInv'
<1>1. /\ now \in Nat /\ now' = now + 1 /\ now' \in 0..MaxTime
      /\ UNCHANGED <<carts, items, calls, started, overlapped, told>>
  BY DEF Tick, IInv, TypeOK, history
<1>2. TypeOK' /\ DocumentsInv'
  BY <1>1, DocumentsKept DEF IInv, TypeOK
<1>3. \A c \in Calls : CallInv(c)'
  BY <1>1 DEF IInv, CallInv
<1>4. ASSUME ~overlapped, NEW c \in Calls PROVE AloneInv(c)'
  <2>1. AloneInv(c)
    BY <1>4 DEF IInv
  <2>2. calls[c].pc = "wipe" => Open(calls[c].cart) /\ carts[calls[c].cart].expires <= now'
    <3> SUFFICES ASSUME calls[c].pc = "wipe"
                 PROVE  Open(calls[c].cart) /\ carts[calls[c].cart].expires <= now'
      OBVIOUS
    <3>1. Open(calls[c].cart) /\ carts[calls[c].cart].expires <= now
      BY <2>1 DEF AloneInv
    <3>2. carts[calls[c].cart].expires \in Nat
      BY <3>1 DEF Open, IInv, TypeOK, CartRecords
    <3> QED
      BY <1>1, <3>1, <3>2
  <2> QED
    BY <1>1, <2>1, <2>2 DEF AloneInv, Open, InCart
<1>5. ~overlapped' => AtMostOneRuns' /\ \A c \in Calls : AloneInv(c)'
  BY <1>1, <1>4 DEF IInv, AtMostOneRuns
<1> QED
  BY <1>2, <1>3, <1>5 DEF IInv

-----------------------------------------------------------------------------
(* The invariant.                                                          *)

LEMMA StepInv == ASSUME NEW c \in Calls, IInv, Step(c) PROVE IInv'
  BY FindInv, RefuseInv, CreateCartInv, CreateItemInv, AuthorizeInv, RenewInv, AddItemInv,
     EditItemInv, RemoveItemInv, RemainingInv, DropCartInv, DetailsInv, WipeInv, FlagInv,
     MergeGuestInv, MergeNothingInv, MergeUserInv, TransferInv, MergeInv
  DEF Step

LEMMA NextInv == ASSUME IInv, [Next]_vars PROVE IInv'
<1> USE DEF CartIds, ItemIds
<1>1. AnyProduct \in Products
  BY DEF AnyProduct
<1>2. ASSUME NEW c \in Calls, NEW m \in BOOLEAN, NEW k \in CartIds \cup {0},
             Begin(c, "view", m, k, 0, AnyProduct, NoSize, 0)
      PROVE  IInv'
  <2>1. k \in 0..MaxCarts /\ 0 \in 0..MaxItems /\ 0 \in Nat
    OBVIOUS
  <2> QED
    BY <1>1, <1>2, <2>1, BeginInv
<1>3. ASSUME NEW c \in Calls, NEW m \in BOOLEAN, NEW k \in CartIds \cup {0},
             NEW p \in Products, NEW s \in Sizes, Begin(c, "add", m, k, 0, p, s, 1)
      PROVE  IInv'
  <2>1. k \in 0..MaxCarts /\ 0 \in 0..MaxItems /\ 1 \in Nat
    OBVIOUS
  <2> QED
    BY <1>3, <2>1, BeginInv
<1>4. ASSUME NEW c \in Calls, NEW m \in BOOLEAN, NEW i \in ItemIds, Held(i),
             \/ \E q \in 1..2 : Begin(c, "edit", m, items[i].cart, i, AnyProduct, NoSize, q)
             \/ Begin(c, "remove", m, items[i].cart, i, AnyProduct, NoSize, 0)
      PROVE  IInv'
  <2>1. items[i].cart \in 0..MaxCarts
    BY DEF IInv, TypeOK, ItemRecords
  <2>2. i \in 0..MaxItems /\ 0 \in Nat /\ items[i].cart # 0
    BY <1>4 DEF IInv, DocumentsInv, UnmadeCarts
  <2>3. ASSUME NEW q \in 1..2, Begin(c, "edit", m, items[i].cart, i, AnyProduct, NoSize, q)
        PROVE  IInv'
    <3>1. q \in Nat /\ q >= 1
      OBVIOUS
    <3> QED
      BY <1>1, <2>1, <2>2, <2>3, <3>1, BeginInv
  <2>4. CASE Begin(c, "remove", m, items[i].cart, i, AnyProduct, NoSize, 0)
    BY <1>1, <2>1, <2>2, <2>4, BeginInv
  <2> QED
    BY <1>4, <2>3, <2>4
<1>5. ASSUME NEW c \in Calls, Begin(c, "merge", TRUE, 0, 0, AnyProduct, NoSize, 0) PROVE IInv'
  <2>1. 0 \in 0..MaxCarts /\ 0 \in 0..MaxItems /\ 0 \in Nat
    OBVIOUS
  <2> QED
    BY <1>1, <1>5, <2>1, BeginInv
<1>6. ASSUME NEW c \in Calls, Step(c) PROVE IInv'
  BY <1>6, StepInv
<1>7. ASSUME NEW k \in CartIds, CheckOut(k) PROVE IInv'
  BY <1>7, CheckOutInv
<1>8. CASE UNCHANGED vars
  <2>1. /\ UNCHANGED <<now, carts, items, calls, started, overlapped, told>>
    BY <1>8 DEF vars
  <2> QED
    BY <2>1 DEF IInv, TypeOK, DocumentsInv, QuantityWithinStock, UnmadeCarts, OneCartEach,
       OneLineEach, NoOrphans, ExpiryToldOnce, CallInv, AloneInv, AtMostOneRuns, InCart,
       Held, Open
<1> QED
  BY <1>2, <1>3, <1>4, <1>5, <1>6, <1>7, <1>8, TickInv DEF Next

\* IInv holds in every state the calls, the checkouts and the clock can reach.
THEOREM Invariance == Spec => []IInv
<1> QED
  BY InitInv, NextInv, PTL DEF Spec

\* Every variable keeps its type, and a call that is past looking for its cart
\* has one.
THEOREM TypeCorrect == Spec => []TypeOK
<1>1. IInv => TypeOK
  BY DEF IInv
<1> QED
  BY <1>1, Invariance, PTL

\* No line of a cart ever asks for more units than the product has, however the
\* additions and edits of several tabs interleave: addItemToCart and editCart
\* check the quantity they write, not the one they add.
THEOREM WithinStock == Spec => []QuantityWithinStock
<1>1. IInv => QuantityWithinStock
  BY DEF IInv, DocumentsInv
<1> QED
  BY <1>1, Invariance, PTL

\* Calls that do not overlap never leave two carts for one user or one cookie.
THEOREM OneCart == Spec => []OneCartEach
<1>1. IInv => OneCartEach
  BY DEF IInv, DocumentsInv
<1> QED
  BY <1>1, Invariance, PTL

\* Calls that do not overlap never make two lines of one coin or bar in a cart, nor
\* two of one piece of jewellery in one size.
THEOREM OneLine == Spec => []OneLineEach
<1>1. IInv => OneLineEach
  BY DEF IInv, DocumentsInv
<1> QED
  BY <1>1, Invariance, PTL

\* Calls that do not overlap leave no item without its cart.
THEOREM NoItemAlone == Spec => []NoOrphans
<1>1. IInv => NoOrphans
  BY DEF IInv, DocumentsInv
<1> QED
  BY <1>1, Invariance, PTL

\* Calls that do not overlap tell a cart's expiry once, until it is renewed.
THEOREM ToldOnce == Spec => []ExpiryToldOnce
<1>1. IInv => ExpiryToldOnce
  BY DEF IInv, DocumentsInv
<1> QED
  BY <1>1, Invariance, PTL

-----------------------------------------------------------------------------
(* What becomes of the items.                                              *)

LEMMA NoOverlapBefore == ASSUME TypeOK, [Next]_vars, ~overlapped' PROVE ~overlapped
<1>1. CASE UNCHANGED vars
  BY <1>1 DEF vars
<1>2. ASSUME NEW c \in Calls, Step(c) PROVE overlapped' = overlapped
  BY <1>2 DEF Step, Find, Refuse, CreateCart, CreateItem, Authorize, Renew, AddItem, EditItem,
     RemoveItem, Remaining, DropCart, Details, Wipe, Flag, MergeGuest, MergeNothing, MergeUser,
     Transfer, Merge, outside, history
<1>3. Tick => overlapped' = overlapped
  BY DEF Tick, history
<1> QED
  BY <1>1, <1>2, <1>3 DEF Next, Begin, CheckOut

LEMMA ItemsThatGo ==
  ASSUME IInv, [Next]_vars, ~overlapped', NEW i \in ItemIds, Held(i), ~Held(i)'
  PROVE  \/ \E c \in Calls : calls[c].op = "remove" /\ calls[c].item = i
         \/ items[i].cart \notin OpenCarts'
         \/ carts[items[i].cart].expires <= now
<1>1. ~overlapped /\ TypeOK
  BY NoOverlapBefore DEF IInv
<1>2. items # items'
  BY DEF Held
<1>3. \/ \E c \in Calls : \/ CreateItem(c) \/ EditItem(c) \/ RemoveItem(c)
                          \/ Wipe(c) \/ Merge(c)
      \/ \E k \in CartIds : CheckOut(k)
  BY <1>2 DEF Next, vars, Begin, Tick, Step, Find, Refuse, CreateCart, Authorize, Renew,
     AddItem, Remaining, DropCart, Details, Flag, MergeGuest, MergeNothing, MergeUser, Transfer
<1>4. items \in [ItemIds -> ItemRecords]
  BY <1>1 DEF TypeOK
<1>5. ASSUME NEW c \in Calls, CreateItem(c) PROVE FALSE
  <2> DEFINE j == Fresh({l \in ItemIds : items[l].state = "none"})
  <2>1. j \in ItemIds /\ items[j].state = "none"
    BY <1>5, NextItem DEF CreateItem
  <2>2. i # j
    BY <2>1 DEF Held
  <2> HIDE DEF j
  <2>3. items'[i] = items[i]
    BY <1>4, <1>5, <2>1, <2>2 DEF CreateItem, j
  <2> QED
    BY <2>3 DEF Held
<1>6. ASSUME NEW c \in Calls, EditItem(c) PROVE FALSE
  <2>1. items[i] \in ItemRecords
    BY <1>4
  <2>2. items'[i].state = items[i].state
    BY <1>2, <1>4, <1>6, <2>1 DEF EditItem, ItemRecords
  <2> QED
    BY <2>2 DEF Held
<1>7. ASSUME NEW c \in Calls, RemoveItem(c)
      PROVE  calls[c].op = "remove" /\ calls[c].item = i
  <2>1. items' = [items EXCEPT ![calls[c].item] = GoneItem] /\ calls[c].op = "remove"
    BY <1>2, <1>7 DEF RemoveItem
  <2>2. calls[c].item # i => items'[i] = items[i]
    BY <1>4, <2>1
  <2> QED
    BY <2>1, <2>2 DEF Held
<1>8. ASSUME NEW c \in Calls, Wipe(c) PROVE carts[items[i].cart].expires <= now
  <2>1. items' = Without(calls[c].cart) /\ calls[c].cart \in 0..MaxCarts
        /\ carts[calls[c].cart].expires <= now
    BY <1>1, <1>8 DEF Wipe, IInv, AloneInv, TypeOK, CallLocals
  <2>2. items[i].cart = calls[c].cart
    BY <1>1, <2>1, WithoutEffect DEF Held
  <2> QED
    BY <2>1, <2>2
<1>9. ASSUME NEW c \in Calls, Merge(c) PROVE items[i].cart \notin OpenCarts'
  <2> DEFINE k == calls[c].cart
  <2>1. items' = Without(k) /\ k \in 0..MaxCarts /\ carts \in [CartIds -> CartRecords]
    BY <1>1, <1>9 DEF Merge, TypeOK, CallLocals
  <2>2. items[i].cart = k
    BY <1>1, <2>1, WithoutEffect DEF Held
  <2>3. k \notin CartIds \/ carts'[k].state # "open"
    BY <1>9, <2>1, Placeholders DEF Merge, Open
  <2> QED
    BY <2>2, <2>3 DEF OpenCarts, Open
<1>10. ASSUME NEW k \in CartIds, CheckOut(k) PROVE items[i].cart \notin OpenCarts'
  <2>1. items' = Without(k) /\ k \in 0..MaxCarts /\ carts'[k].state = "gone"
    BY <1>1, <1>10, Placeholders DEF CheckOut, TypeOK, CartIds
  <2>2. items[i].cart = k
    BY <1>1, <2>1, WithoutEffect DEF Held
  <2> QED
    BY <2>1, <2>2 DEF OpenCarts, Open
<1> QED
  BY <1>3, <1>5, <1>6, <1>7, <1>8, <1>9, <1>10

\* Calls that do not overlap lose no item of a live cart: one goes when the
\* customer removes it, when its cart goes, or when the cart's time is up.
THEOREM LiveItems == Spec => LiveItemsKept
<1>1. IInv /\ [Next]_vars =>
        [~overlapped' => \A i \in ItemIds : Held(i) /\ ~Held(i)' =>
           \/ \E c \in Calls : calls[c].op = "remove" /\ calls[c].item = i
           \/ items[i].cart \notin OpenCarts'
           \/ carts[items[i].cart].expires <= now]_vars
  BY ItemsThatGo
<1> QED
  BY <1>1, Invariance, PTL DEF Spec, LiveItemsKept
=============================================================================
