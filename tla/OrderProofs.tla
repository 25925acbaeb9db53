---------------------------- MODULE OrderProofs -----------------------------
(***************************************************************************)
(* Proofs about Order for any number of checkouts, callbacks, carts and    *)
(* products.  IInv is inductive; the safety and action properties of the   *)
(* module follow from it, and every step of Order is a step, or no step,   *)
(* of StockPromise.                                                        *)
(***************************************************************************)
EXTENDS Order, FiniteSetTheorems, TLAPS

USE OrderAssumption

LEMMA Placeholders == NewRequest \in RequestLocals /\ NewCallback \in CallbackLocals
  BY DEF NewRequest, NewCallback, RequestLocals, CallbackLocals, Ended

LEMMA InitInv == Init => IInv
<1> SUFFICES ASSUME Init PROVE IInv
  OBVIOUS
<1>1. TypeOK
  <2>1. req \in [Requests -> RequestLocals] /\ cb \in [Callbacks -> CallbackLocals]
    BY Placeholders DEF Init
  <2>2. cart \in [Carts -> [state : {"live", "past", "gone"}, items : SUBSET Items]]
    BY DEF Init
  <2> QED
    BY <2>1, <2>2 DEF Init, TypeOK, NoOrder, BankStates, Statuses
<1>2. OneOrderPerCart
  BY DEF Init, OneOrderPerCart, Saved, NoOrder
<1>3. SalesAreCounted
  <2>1. ASSUME NEW p \in Products PROVE CountsOf(p) = {}
    BY DEF Init, CountsOf, Counted, NewCallback
  <2> QED
    BY <2>1, FS_EmptySet DEF Init, SalesAreCounted
<1>4. ASSUME NEW r \in Requests PROVE CheckoutInv(r)
  BY DEF Init, CheckoutInv, Saved, NoOrder, NewRequest, Taken
<1>5. ASSUME NEW b \in Callbacks PROVE CallbackInv(b)
  BY DEF Init, CallbackInv, NewCallback
<1> QED
  BY <1>1, <1>2, <1>3, <1>4, <1>5 DEF IInv

-----------------------------------------------------------------------------
(* What a step leaves of the parts of IInv that it does not speak of.      *)

\* How often each line was taken for a call.
Takes(r) == [i \in Items |-> took[<<r, i>>]]

LEMMA TakesSame ==
  ASSUME NEW r \in Requests, UNCHANGED Takes(r)
  PROVE  Taken(r)' = Taken(r) /\ \A i \in Items : took'[<<r, i>>] = took[<<r, i>>]
<1>1. ASSUME NEW i \in Items PROVE took'[<<r, i>>] = took[<<r, i>>]
  <2>1. Takes(r)[i] = took[<<r, i>>] /\ Takes(r)'[i] = took'[<<r, i>>]
    BY DEF Takes
  <2> QED
    BY <2>1
<1> QED
  BY <1>1 DEF Taken

LEMMA StateTyped ==
  IInv => /\ order \in [Requests -> [status : Statuses \union {"none"}, recent : BOOLEAN,
                                     attempts : 0..MaxAttempts]]
          /\ cart \in [Carts -> [state : {"live", "past", "gone"}, items : SUBSET Items]]
  BY DEF IInv, TypeOK

LEMMA TookKept == UNCHANGED took => \A r \in Requests : UNCHANGED Takes(r)
  BY DEF Takes

\* A checkout whose documents and locals a step leaves alone.
LEMMA CheckoutKept ==
  ASSUME NEW r \in Requests, IInv,
         UNCHANGED <<req[r], bank[r], lines[r], Takes(r)>>,
         \A q \in Requests : Saved(q) => Saved(q)',
         Saved(r)' => Saved(r)
  PROVE  CheckoutInv(r)'
<1>1. CheckoutInv(r) /\ req[r].old \in Requests /\ req[r].want \subseteq Items
  BY DEF IInv, TypeOK, RequestLocals
<1> QED
  BY <1>1, TakesSame DEF CheckoutInv

\* A callback that a step leaves alone, whatever happens to orders and carts.
LEMMA CallbackKept ==
  ASSUME NEW b \in Callbacks, IInv, cb'[b] = cb[b],
         \A q \in Requests : Saved(q) => /\ Saved(q)' /\ req'[q].cart = req[q].cart
                                         /\ bank'[q] = bank[q]
                                         /\ lines'[q] = lines[q],
         \A k \in Carts : cart[k].state = "gone" => cart'[k].state = "gone"
  PROVE  CallbackInv(b)'
<1>1. CallbackInv(b) /\ cb[b].order \in Requests
      /\ \A q \in Requests : req[q].cart \in Carts
  BY DEF IInv, TypeOK, RequestLocals, CallbackLocals
<1> QED
  BY <1>1 DEF CallbackInv, CartOf

\* Orders that are neither made nor handed to another cart stay one per cart.
LEMMA OrdersKept ==
  ASSUME IInv, \A q \in Requests : Saved(q)' => Saved(q) /\ req'[q].cart = req[q].cart
  PROVE  OneOrderPerCart'
  BY DEF IInv, OneOrderPerCart

\* Where no callback counts, the sales stay what was counted.
LEMMA SalesStay ==
  ASSUME IInv, sales' = sales, \A b \in Callbacks : Counted(b)' = Counted(b)
  PROVE  SalesAreCounted'
<1>1. ASSUME NEW p \in Products PROVE CountsOf(p)' = CountsOf(p)
  BY DEF CountsOf
<1> QED
  BY <1>1 DEF IInv, SalesAreCounted

\* What is counted are lines of orders that are there; a step of a call changes none.
LEMMA CountedKept ==
  ASSUME NEW b \in Callbacks, IInv, cb'[b] = cb[b],
         \A q \in Requests : Saved(q) => lines'[q] = lines[q]
  PROVE  Counted(b)' = Counted(b)
<1>1. CallbackInv(b) /\ cb[b].order \in Requests
  BY DEF IInv, TypeOK, CallbackLocals
<1> QED
  BY <1>1 DEF Counted, CallbackInv

LEMMA SalesKept ==
  ASSUME IInv, UNCHANGED <<sales, cb>>,
         \A q \in Requests : Saved(q) => lines'[q] = lines[q]
  PROVE  SalesAreCounted'
  BY CountedKept, SalesStay

-----------------------------------------------------------------------------
(* createOrder.                                                            *)

\* A call moves on, or ends, with nothing changed but its locals and, perhaps, the cart.
LEMMA LocalStep ==
  ASSUME NEW r \in Requests, NEW next \in RequestLocals, IInv,
         req' = [req EXCEPT ![r] = next],
         Saved(r) => next.pc \in Ended /\ next.cart = req[r].cart,
         next.pc \in {"lookup", "retry", "details", "validate", "pay"} => bank[r] = "none",
         next.pc = "retry" => Saved(next.old),
         next.pc = "pay" => next.want # {},
         next.pc \notin {"items", "take"},
         cart' \in [Carts -> [state : {"live", "past", "gone"}, items : SUBSET Items]],
         \A k \in Carts : cart[k].state = "gone" => cart'[k].state = "gone",
         UNCHANGED <<shelves, order, sales, bank, cb, others>>
  PROVE  IInv'
<1>1. /\ req' \in [Requests -> RequestLocals] /\ req'[r] = next
      /\ \A q \in Requests \ {r} : req'[q] = req[q]
      /\ UNCHANGED <<stock, lines, took, order, sales, bank, cb, visits, updates>>
  BY DEF IInv, TypeOK, shelves, others
<1>2. TypeOK'
  BY <1>1 DEF IInv, TypeOK
<1>3. \A q \in Requests : /\ Saved(q)' <=> Saved(q)
                          /\ Saved(q) => req'[q].cart = req[q].cart
  BY <1>1 DEF Saved
<1>4. OneOrderPerCart' /\ SalesAreCounted'
  BY <1>1, <1>3, OrdersKept, SalesKept
<1>5. CheckoutInv(r)'
  <2>1. CheckoutInv(r) /\ next.old \in Requests /\ Taken(r)' = Taken(r)
    BY <1>1 DEF IInv, RequestLocals, Taken
  <2> QED
    BY <1>1, <1>3, <2>1 DEF CheckoutInv
<1>6. ASSUME NEW q \in Requests PROVE CheckoutInv(q)'
  BY <1>1, <1>3, <1>5, TookKept, CheckoutKept
<1>7. ASSUME NEW b \in Callbacks PROVE CallbackInv(b)'
  BY <1>1, <1>3, CallbackKept
<1> QED
  BY <1>2, <1>4, <1>6, <1>7 DEF IInv

\* The call answers; the cart is as it was, or gone.
LEMMA AnswerInv ==
  ASSUME NEW r \in Requests, NEW at \in Ended, IInv, Answer(r, at),
         cart' \in [Carts -> [state : {"live", "past", "gone"}, items : SUBSET Items]],
         \A k \in Carts : cart[k].state = "gone" => cart'[k].state = "gone",
         UNCHANGED <<shelves, order, sales, bank, cb, others>>
  PROVE  IInv'
<1> DEFINE next == [NewRequest EXCEPT !.pc = at, !.cart = req[r].cart]
<1>1. req[r].cart \in Carts
  BY DEF IInv, TypeOK, RequestLocals
<1>2. next \in RequestLocals /\ next.pc = at /\ next.cart = req[r].cart
  BY <1>1, Placeholders DEF RequestLocals, NewRequest
<1>3. req' = [req EXCEPT ![r] = next]
  BY DEF Answer
<1>4. at \notin {"lookup", "retry", "details", "validate", "pay", "items", "take"}
  BY DEF Ended
<1> HIDE DEF next
<1> QED
  BY <1>2, <1>3, <1>4, LocalStep

LEMMA CartTyped ==
  ASSUME IInv, cart' = cart
  PROVE  /\ cart' \in [Carts -> [state : {"live", "past", "gone"}, items : SUBSET Items]]
         /\ \A k \in Carts : cart[k].state = "gone" => cart'[k].state = "gone"
  BY DEF IInv, TypeOK

LEMMA BeginInv ==
  ASSUME NEW r \in Requests, NEW k \in Carts, IInv, Begin(r, k) PROVE IInv'
<1> DEFINE next == [NewRequest EXCEPT !.pc = "lookup", !.cart = k]
<1>1. next \in RequestLocals /\ next.pc = "lookup"
  BY Placeholders DEF RequestLocals, NewRequest
<1>2. ~Saved(r) /\ bank[r] = "none"
  BY DEF IInv, CheckoutInv, Begin
<1>3. req' = [req EXCEPT ![r] = next] /\ cart' = cart
      /\ UNCHANGED <<shelves, order, sales, bank, cb, others>>
  BY DEF Begin
<1> HIDE DEF next
<1> QED
  BY <1>1, <1>2, <1>3, CartTyped, LocalStep

\* The refusals, the order handed out again, and the ends without an answer.
LEMMA RefusedInv ==
  ASSUME NEW r \in Requests, IInv,
         \/ RefuseAddress(r) \/ FindRecent(r) \/ RefuseShipping(r) \/ RefuseItems(r)
         \/ PaymentRefused(r) \/ LineThrows(r) \/ TakeFails(r) \/ SaveFails(r) \/ Abandon(r)
  PROVE  IInv'
<1>1. PICK at \in Ended : Answer(r, at)
  BY DEF RefuseAddress, FindRecent, RefuseShipping, RefuseItems, PaymentRefused, LineThrows,
     TakeFails, SaveFails, Abandon, Ended
<1>2. cart' = cart /\ UNCHANGED <<shelves, order, sales, bank, cb, others>>
  BY DEF RefuseAddress, FindRecent, RefuseShipping, RefuseItems, PaymentRefused, LineThrows,
     TakeFails, SaveFails, Abandon
<1> QED
  BY <1>1, <1>2, CartTyped, AnswerInv

LEMMA FindOldInv ==
  ASSUME NEW r \in Requests, IInv, FindOld(r) PROVE IInv'
<1>1. PICK q \in Paying(r) :
        IF order[q].attempts + 1 > MaxAttempts
        THEN Answer(r, "answered")
        ELSE req' = [req EXCEPT ![r].pc = "retry", ![r].old = q,
                                ![r].tries = order[q].attempts + 1]
  BY DEF FindOld
<1>2. cart' = cart /\ UNCHANGED <<shelves, order, sales, bank, cb, others>>
  BY DEF FindOld
<1>3. CASE Answer(r, "answered")
  BY <1>2, <1>3, CartTyped, AnswerInv DEF Ended
<1>4. CASE /\ ~(order[q].attempts + 1 > MaxAttempts)
           /\ req' = [req EXCEPT ![r].pc = "retry", ![r].old = q,
                                 ![r].tries = order[q].attempts + 1]
  <2> DEFINE next == [req[r] EXCEPT !.pc = "retry", !.old = q, !.tries = order[q].attempts + 1]
  <2>1. q \in Requests /\ order[q].attempts \in 0..MaxAttempts /\ req[r] \in RequestLocals
        /\ order[q].status = "paying"
    BY DEF Paying, IInv, TypeOK
  <2>2. order[q].attempts + 1 \in 0..MaxAttempts
    BY <1>4, <2>1
  <2>3. next \in RequestLocals /\ next.pc = "retry" /\ next.old = q
    BY <2>1, <2>2 DEF RequestLocals
  <2>4. bank[r] = "none" /\ ~Saved(r) /\ Saved(q)
    BY <2>1 DEF IInv, CheckoutInv, FindOld, Saved
  <2>5. req' = [req EXCEPT ![r] = next]
    BY <1>4, <2>1 DEF IInv, TypeOK
  <2> HIDE DEF next
  <2> QED
    BY <1>2, <2>3, <2>4, <2>5, CartTyped, LocalStep
<1> QED
  BY <1>1, <1>3, <1>4

LEMMA FindNoneInv ==
  ASSUME NEW r \in Requests, IInv, FindNone(r) PROVE IInv'
<1> DEFINE next == [req[r] EXCEPT !.pc = "details"]
<1>1. next \in RequestLocals /\ next.pc = "details"
  <2>1. req[r] \in RequestLocals
    BY DEF IInv, TypeOK
  <2> QED
    BY <2>1 DEF RequestLocals
<1>2. bank[r] = "none" /\ ~Saved(r)
  BY DEF IInv, CheckoutInv, FindNone
<1>3. req' = [req EXCEPT ![r] = next] /\ cart' = cart
      /\ UNCHANGED <<shelves, order, sales, bank, cb, others>>
  BY DEF FindNone, Goto
<1> HIDE DEF next
<1> QED
  BY <1>1, <1>2, <1>3, CartTyped, LocalStep

\* The cart as getCartDetails leaves it.
LEMMA ViewedTyped ==
  ASSUME NEW k \in Carts, IInv
  PROVE  /\ Viewed(k) \in [state : {"live", "past", "gone"}, items : SUBSET Items]
         /\ Viewed(k).state = cart[k].state
  BY DEF IInv, TypeOK, Viewed

LEMMA DetailsInv ==
  ASSUME NEW r \in Requests, IInv, Details(r) PROVE IInv'
<1> DEFINE k == req[r].cart
           short == \E i \in Viewed(k).items : stock[ProductOf[i]] < 1
           next == [req[r] EXCEPT !.pc = "validate", !.want = Viewed(k).items,
                                  !.expired = cart[k].state = "past", !.short = short]
<1>1. k \in Carts /\ req[r] \in RequestLocals
  BY DEF IInv, TypeOK, RequestLocals
<1>2. cart' = [cart EXCEPT ![k] = Viewed(k)]
      /\ UNCHANGED <<shelves, order, sales, bank, cb, others>>
  BY DEF Details
<1>3. /\ cart' \in [Carts -> [state : {"live", "past", "gone"}, items : SUBSET Items]]
      /\ \A l \in Carts : cart[l].state = "gone" => cart'[l].state = "gone"
  BY <1>1, <1>2, ViewedTyped DEF IInv, TypeOK
<1>4. CASE Answer(r, "answered")
  BY <1>2, <1>3, <1>4, AnswerInv DEF Ended
<1>5. CASE req' = [req EXCEPT ![r].pc = "validate", ![r].want = Viewed(k).items,
                              ![r].expired = cart[k].state = "past", ![r].short = short]
  <2>1. next \in RequestLocals /\ next.pc = "validate"
    <3> HIDE DEF short
    <3>1. short \in BOOLEAN
      BY DEF short
    <3> QED
      BY <1>1, <3>1, ViewedTyped DEF RequestLocals
  <2>2. bank[r] = "none" /\ ~Saved(r)
    BY DEF IInv, CheckoutInv, Details
  <2>3. req' = [req EXCEPT ![r] = next]
    BY <1>1, <1>5 DEF IInv, TypeOK
  <2> HIDE DEF next
  <2> QED
    BY <1>2, <1>3, <2>1, <2>2, <2>3, LocalStep
<1> QED
  BY <1>4, <1>5 DEF Details

LEMMA SaveRetryInv ==
  ASSUME NEW r \in Requests, IInv, SaveRetry(r) PROVE IInv'
<1> DEFINE q == req[r].old
           next == [NewRequest EXCEPT !.pc = "answered", !.cart = req[r].cart]
<1>1. req[r] \in RequestLocals /\ Saved(q) /\ bank[r] = "none" /\ ~Saved(r)
  BY DEF IInv, TypeOK, CheckoutInv, SaveRetry
<1>2. q \in Requests /\ req[r].tries \in 0..MaxAttempts /\ next \in RequestLocals
      /\ next.pc = "answered" /\ next.cart = req[r].cart
  BY <1>1, Placeholders DEF RequestLocals, Ended, NewRequest
<1>3. /\ order' = [order EXCEPT ![q].recent = TRUE, ![q].attempts = req[r].tries]
      /\ req' = [req EXCEPT ![r] = next]
      /\ UNCHANGED <<stock, lines, took, cart, sales, bank, cb, visits, updates>>
  BY DEF SaveRetry, Answer, shelves, others
<1> HIDE DEF next
<1>4. TypeOK'
  <2>1. order' \in [Requests -> [status : Statuses \union {"none"}, recent : BOOLEAN,
                                 attempts : 0..MaxAttempts]]
    BY <1>2, <1>3, StateTyped
  <2>2. req' \in [Requests -> RequestLocals]
    BY <1>2, <1>3 DEF IInv, TypeOK
  <2> QED
    BY <1>3, <2>1, <2>2 DEF IInv, TypeOK
<1>5. \A o \in Requests : /\ Saved(o)' <=> Saved(o)
                          /\ req'[o].cart = req[o].cart
                          /\ o # r => req'[o] = req[o]
  BY <1>2, <1>3 DEF IInv, TypeOK, Saved
<1>6. OneOrderPerCart' /\ SalesAreCounted'
  BY <1>3, <1>5, OrdersKept, SalesKept
<1>7. CheckoutInv(r)'
  <2>1. req'[r].pc = "answered" /\ CheckoutInv(r) /\ Taken(r)' = Taken(r)
    BY <1>2, <1>3 DEF IInv, TypeOK, Taken
  <2> QED
    BY <1>1, <1>3, <1>5, <2>1 DEF CheckoutInv
<1>8. ASSUME NEW o \in Requests PROVE CheckoutInv(o)'
  BY <1>3, <1>5, <1>7, TookKept, CheckoutKept
<1>9. ASSUME NEW b \in Callbacks PROVE CallbackInv(b)'
  BY <1>3, <1>5, CallbackKept
<1> QED
  BY <1>4, <1>6, <1>8, <1>9 DEF IInv

LEMMA RefuseExpiredInv ==
  ASSUME NEW r \in Requests, IInv, RefuseExpired(r) PROVE IInv'
<1>1. /\ cart' = [cart EXCEPT ![req[r].cart] = [state |-> "gone", items |-> {}]]
      /\ Answer(r, "answered")
      /\ UNCHANGED <<shelves, order, sales, bank, cb, others>>
  BY DEF RefuseExpired
<1>2. req[r].cart \in Carts
  BY DEF IInv, TypeOK, RequestLocals
<1>3. /\ cart' \in [Carts -> [state : {"live", "past", "gone"}, items : SUBSET Items]]
      /\ \A k \in Carts : cart[k].state = "gone" => cart'[k].state = "gone"
  BY <1>1, <1>2 DEF IInv, TypeOK
<1> QED
  BY <1>1, <1>3, AnswerInv DEF Ended

LEMMA AcceptInv ==
  ASSUME NEW r \in Requests, IInv, Accept(r) PROVE IInv'
<1> DEFINE next == [req[r] EXCEPT !.pc = "pay"]
<1>1. next \in RequestLocals /\ next.pc = "pay" /\ next.want # {}
  <2>1. req[r] \in RequestLocals /\ req[r].want # {}
    BY DEF IInv, TypeOK, Accept
  <2> QED
    BY <2>1 DEF RequestLocals
<1>2. bank[r] = "none" /\ ~Saved(r)
  BY DEF IInv, CheckoutInv, Accept
<1>3. req' = [req EXCEPT ![r] = next] /\ cart' = cart
      /\ UNCHANGED <<shelves, order, sales, bank, cb, others>>
  BY DEF Accept, Goto
<1> HIDE DEF next
<1> QED
  BY <1>1, <1>2, <1>3, CartTyped, LocalStep

\* A step of the loop over the lines, from the payment request on: only this call's
\* payment, lines and goods change, and its order is not made yet.
LEMMA LoopStep ==
  ASSUME NEW r \in Requests, IInv, TypeOK', ~Saved(r), CheckoutInv(r)',
         \A q \in Requests \ {r} :
           UNCHANGED <<req[q], bank[q], lines[q], Takes(q)>>,
         UNCHANGED <<order, cart, sales, cb>>
  PROVE  IInv'
<1>1. \A q \in Requests : Saved(q)' <=> Saved(q)
  BY DEF Saved
<1>2. OneOrderPerCart' /\ SalesAreCounted'
  BY <1>1, OrdersKept, SalesKept
<1>3. ASSUME NEW q \in Requests PROVE CheckoutInv(q)'
  BY <1>1, CheckoutKept
<1>4. ASSUME NEW b \in Callbacks PROVE CallbackInv(b)'
  BY <1>1, CallbackKept
<1> QED
  BY <1>2, <1>3, <1>4 DEF IInv

LEMMA PaymentRequestInv ==
  ASSUME NEW r \in Requests, IInv, PaymentRequest(r) PROVE IInv'
<1> DEFINE next == [req[r] EXCEPT !.pc = "items"]
<1>1. /\ req[r] \in RequestLocals /\ CheckoutInv(r)
      /\ req[r].pc = "pay" /\ bank[r] = "none" /\ req[r].want # {} /\ ~Saved(r)
  BY DEF IInv, TypeOK, CheckoutInv, PaymentRequest
<1>2. next \in RequestLocals /\ next.pc = "items" /\ next.want = req[r].want
      /\ next.old = req[r].old
  BY <1>1 DEF RequestLocals
<1>3. /\ bank' = [bank EXCEPT ![r] = "open"] /\ req' = [req EXCEPT ![r] = next]
      /\ UNCHANGED <<stock, lines, took, cart, order, sales, cb, visits, updates>>
  BY DEF PaymentRequest, Goto, shelves, others
<1> HIDE DEF next
<1>4. TypeOK'
  BY <1>2, <1>3 DEF IInv, TypeOK, BankStates
<1>5. /\ req'[r] = next /\ bank'[r] = "open" /\ lines'[r] = {} /\ Taken(r)' = {}
      /\ \A q \in Requests \ {r} : UNCHANGED <<req[q], bank[q], lines[q], Takes(q)>>
  BY <1>1, <1>3 DEF IInv, TypeOK, CheckoutInv, Taken, Takes
<1>6. CheckoutInv(r)'
  BY <1>1, <1>2, <1>3, <1>5 DEF CheckoutInv, Saved, Ended
<1> QED
  BY <1>1, <1>3, <1>4, <1>5, <1>6, LoopStep

LEMMA LineInv ==
  ASSUME NEW r \in Requests, IInv, Line(r) PROVE IInv'
<1>1. PICK i \in req[r].want :
        /\ lines' = [lines EXCEPT ![r] = @ \union {i}]
        /\ req' = [req EXCEPT ![r].pc = "take", ![r].item = i]
  BY DEF Line
<1> DEFINE next == [req[r] EXCEPT !.pc = "take", !.item = i]
<1>2. /\ req[r] \in RequestLocals /\ CheckoutInv(r) /\ req[r].pc = "items"
      /\ UNCHANGED <<stock, took, cart, order, sales, bank, cb, visits, updates>>
  BY DEF IInv, TypeOK, Line, others
<1>3. i \in Items /\ next \in RequestLocals /\ next.pc = "take" /\ next.item = i
      /\ next.want = req[r].want /\ next.old = req[r].old
  BY <1>2 DEF RequestLocals
<1>4. req' = [req EXCEPT ![r] = next]
  BY <1>1, <1>2 DEF IInv, TypeOK
<1> HIDE DEF next
<1>5. TypeOK'
  <2>1. lines[r] \union {i} \in SUBSET Items /\ lines \in [Requests -> SUBSET Items]
    BY <1>3 DEF IInv, TypeOK
  <2>2. lines' \in [Requests -> SUBSET Items]
    BY <1>1, <2>1
  <2>3. req' \in [Requests -> RequestLocals]
    BY <1>3, <1>4 DEF IInv, TypeOK
  <2> QED
    BY <1>2, <2>2, <2>3 DEF IInv, TypeOK
<1>6. /\ req'[r] = next /\ lines'[r] = lines[r] \union {i} /\ Taken(r)' = Taken(r)
      /\ \A q \in Requests \ {r} : UNCHANGED <<req[q], bank[q], lines[q], Takes(q)>>
  BY <1>1, <1>2, <1>4 DEF IInv, TypeOK, Taken, Takes
<1>7. bank[r] = "open" /\ ~Saved(r)
  BY <1>2 DEF CheckoutInv, Ended
<1>8. CheckoutInv(r)'
  <2>1. took'[<<r, i>>] = 0 /\ 0 < MaxTakes
    <3>1. i \notin Taken(r) /\ took[<<r, i>>] \in 0..MaxTakes
      BY <1>2, <1>3 DEF CheckoutInv, IInv, TypeOK
    <3> QED
      BY <1>2, <1>3, <3>1 DEF Taken
  <2> QED
    BY <1>1, <1>2, <1>3, <1>6, <1>7, <2>1 DEF CheckoutInv, Saved, Ended
<1> QED
  BY <1>2, <1>5, <1>6, <1>7, <1>8, LoopStep

\* What a decrement does, and to whom: it is one take of the line the call is at.
LEMMA DecrementEffect ==
  ASSUME NEW r \in Requests, IInv, req[r].pc = "take", Decrement(r)
  PROVE  /\ req[r].item \in Items /\ took[<<r, req[r].item>>] < MaxTakes
         /\ stock' \in [Products -> Nat] /\ took' \in [Requests \X Items -> 0..MaxTakes]
         /\ Taken(r)' = Taken(r) \union {req[r].item}
         /\ \A q \in Requests \ {r} : UNCHANGED Takes(q)
<1> DEFINE i == req[r].item
           p == ProductOf[i]
<1>1. i \in Items /\ took[<<r, i>>] < MaxTakes
  BY DEF IInv, TypeOK, CheckoutInv, RequestLocals
<1>2. /\ p \in Products /\ stock[p] >= 1 /\ stock \in [Products -> Nat]
      /\ stock' = [stock EXCEPT ![p] = @ - 1]
      /\ took' = [took EXCEPT ![<<r, i>>] = @ + 1]
      /\ took \in [Requests \X Items -> 0..MaxTakes]
  BY <1>1 DEF Decrement, IInv, TypeOK
<1> HIDE DEF i, p
<1>3. <<r, i>> \in Requests \X Items
  BY <1>1
<1>4. took[<<r, i>>] + 1 \in 0..MaxTakes /\ took[<<r, i>>] + 1 > 0
  BY <1>1, <1>2, <1>3
<1>5. stock' \in [Products -> Nat] /\ took' \in [Requests \X Items -> 0..MaxTakes]
  <2>1. stock[p] - 1 \in Nat
    BY <1>2
  <2> QED
    BY <1>2, <1>3, <1>4, <2>1
<1>6. \A q \in Requests, j \in Items :
        took'[<<q, j>>] = IF q = r /\ j = i THEN took[<<r, i>>] + 1 ELSE took[<<q, j>>]
  BY <1>2, <1>3
<1>7. Taken(r)' = Taken(r) \union {i}
  BY <1>1, <1>4, <1>6 DEF Taken
<1>8. ASSUME NEW q \in Requests \ {r} PROVE UNCHANGED Takes(q)
  BY <1>6 DEF Takes
<1> QED
  BY <1>1, <1>5, <1>7, <1>8 DEF i

LEMMA TakeInv ==
  ASSUME NEW r \in Requests, IInv, Take(r) PROVE IInv'
<1> DEFINE i == req[r].item
           next == [req[r] EXCEPT !.pc = "items", !.want = @ \ {i}, !.item = NoItem]
<1>1. /\ req[r] \in RequestLocals /\ CheckoutInv(r) /\ req[r].pc = "take" /\ Decrement(r)
      /\ req' = [req EXCEPT ![r].pc = "items", ![r].want = @ \ {i}, ![r].item = NoItem]
      /\ UNCHANGED <<lines, cart, order, sales, bank, cb, visits, updates>>
  BY DEF IInv, TypeOK, Take, NextLine, others
<1>2. next \in RequestLocals /\ next.pc = "items"
      /\ next.want = req[r].want \ {i} /\ next.old = req[r].old
  BY <1>1 DEF RequestLocals
<1>3. req' = [req EXCEPT ![r] = next]
  BY <1>1 DEF IInv, TypeOK
<1> HIDE DEF next
<1>4. TypeOK'
  <2>1. req' \in [Requests -> RequestLocals]
    BY <1>2, <1>3 DEF IInv, TypeOK
  <2> QED
    BY <1>1, <2>1, DecrementEffect DEF IInv, TypeOK
<1>5. /\ req'[r] = next /\ Taken(r)' = Taken(r) \union {i} /\ lines' = lines
      /\ \A q \in Requests \ {r} : UNCHANGED <<req[q], bank[q], lines[q], Takes(q)>>
  BY <1>1, <1>3, DecrementEffect DEF IInv, TypeOK
<1>6. bank[r] = "open" /\ ~Saved(r)
  BY <1>1 DEF CheckoutInv, Ended
<1>7. CheckoutInv(r)'
  BY <1>1, <1>2, <1>5, <1>6 DEF CheckoutInv, Saved, Ended
<1> QED
  BY <1>1, <1>4, <1>5, <1>6, <1>7, LoopStep

\* A take that nobody noticed leaves the call at the same line, or ends it.
LEMMA TakeUnnoticedInv ==
  ASSUME NEW r \in Requests, IInv, TakeUnnoticed(r) PROVE IInv'
<1> DEFINE i == req[r].item
           next == [NewRequest EXCEPT !.pc = "answered", !.cart = req[r].cart]
<1>1. /\ req[r] \in RequestLocals /\ CheckoutInv(r) /\ req[r].pc = "take" /\ Decrement(r)
      /\ UNCHANGED <<lines, cart, order, sales, bank, cb, visits, updates>>
  BY DEF IInv, TypeOK, TakeUnnoticed, others
<1>2. next \in RequestLocals /\ next.pc = "answered"
  BY <1>1, Placeholders DEF RequestLocals, Ended, NewRequest
<1>3. \/ req' = req /\ took'[<<r, i>>] < MaxTakes
      \/ req' = [req EXCEPT ![r] = next]
  BY DEF TakeUnnoticed, Answer
<1> HIDE DEF next
<1>4. TypeOK'
  <2>1. req' \in [Requests -> RequestLocals]
    BY <1>2, <1>3 DEF IInv, TypeOK
  <2> QED
    BY <1>1, <2>1, DecrementEffect DEF IInv, TypeOK
<1>5. /\ \/ req'[r] = req[r] /\ took'[<<r, i>>] < MaxTakes
         \/ req'[r].pc = "answered"
      /\ Taken(r)' = Taken(r) \union {i} /\ lines' = lines
      /\ \A q \in Requests \ {r} : UNCHANGED <<req[q], bank[q], lines[q], Takes(q)>>
  BY <1>1, <1>2, <1>3, DecrementEffect DEF IInv, TypeOK
<1>6. bank[r] = "open" /\ ~Saved(r)
  BY <1>1 DEF CheckoutInv, Ended
<1>7. CheckoutInv(r)'
  BY <1>1, <1>5, <1>6 DEF CheckoutInv, Saved, Ended
<1> QED
  BY <1>1, <1>4, <1>5, <1>6, <1>7, LoopStep

\* The order is saved: the index has let it through, so it is its cart's only one.
LEMMA SaveInv ==
  ASSUME NEW r \in Requests, IInv, Save(r) PROVE IInv'
<1> DEFINE next == [NewRequest EXCEPT !.pc = "answered", !.cart = req[r].cart]
<1>1. /\ req[r].pc = "items" /\ req[r].want = {} /\ ~KeyTaken(r) /\ CheckoutInv(r)
      /\ order' = [order EXCEPT ![r] = [status |-> "paying", recent |-> TRUE, attempts |-> 1]]
      /\ req' = [req EXCEPT ![r] = next]
      /\ UNCHANGED <<stock, lines, took, cart, sales, bank, cb, visits, updates>>
  BY DEF IInv, Save, Answer, shelves, others
<1>2. next \in RequestLocals /\ next.pc = "answered" /\ next.cart = req[r].cart
  <2>1. req[r].cart \in Carts
    BY DEF IInv, TypeOK, RequestLocals
  <2> QED
    BY <2>1, Placeholders DEF RequestLocals, Ended, NewRequest
<1> HIDE DEF next
<1>3. TypeOK'
  <2>1. order' \in [Requests -> [status : Statuses \union {"none"}, recent : BOOLEAN,
                                 attempts : 0..MaxAttempts]]
    BY <1>1 DEF IInv, TypeOK, Statuses
  <2> QED
    BY <1>1, <1>2, <2>1 DEF IInv, TypeOK
<1>4. /\ req'[r] = next /\ Saved(r)' /\ ~Saved(r)
      /\ \A q \in Requests : /\ q # r => req'[q] = req[q] /\ (Saved(q)' <=> Saved(q))
                             /\ req'[q].cart = req[q].cart
  BY <1>1, <1>2 DEF IInv, TypeOK, Saved, CheckoutInv, Ended
<1>5. OneOrderPerCart'
  <2> SUFFICES ASSUME NEW o \in Requests, NEW q \in Requests,
                      Saved(o)', Saved(q)', req'[o].cart = req'[q].cart
               PROVE  o = q
    BY DEF OneOrderPerCart
  <2>1. CASE o # r /\ q # r
    BY <1>4, <2>1 DEF IInv, OneOrderPerCart
  <2>2. CASE o = r \/ q = r
    BY <1>1, <1>4, <2>2 DEF KeyTaken
  <2> QED
    BY <2>1, <2>2
<1>6. SalesAreCounted'
  BY <1>1, SalesKept
<1>7. CheckoutInv(r)'
  <2>1. Taken(r)' = Taken(r)
    BY <1>1 DEF Taken
  <2> QED
    BY <1>1, <1>2, <1>4, <2>1 DEF CheckoutInv, Ended
<1>8. ASSUME NEW q \in Requests PROVE CheckoutInv(q)'
  BY <1>1, <1>4, <1>7, TookKept, CheckoutKept
<1>9. ASSUME NEW b \in Callbacks PROVE CallbackInv(b)'
  BY <1>1, <1>4, CallbackKept
<1> QED
  BY <1>3, <1>5, <1>6, <1>8, <1>9 DEF IInv

LEMMA CreateOrderInv ==
  ASSUME NEW r \in Requests, IInv, CreateOrder(r) PROVE IInv'
  BY RefusedInv, FindOldInv, FindNoneInv, SaveRetryInv, DetailsInv, RefuseExpiredInv,
     AcceptInv, PaymentRequestInv, LineInv, TakeInv, TakeUnnoticedInv,
     SaveInv DEF CreateOrder

-----------------------------------------------------------------------------
(* The gateway.                                                            *)

\* A payment moves on; what was captured stays so, and who waits for an answer keeps it.
LEMMA SettleInv ==
  ASSUME NEW r \in Requests, IInv, Pay(r) \/ Decline(r) \/ GiveBack(r) PROVE IInv'
<1>1. PICK from, to \in BankStates :
        /\ bank[r] = from /\ bank' = [bank EXCEPT ![r] = to] /\ Saved(r)
        /\ \/ from = "open" /\ to \in {"paid", "declined"}
           \/ from = "paid" /\ to = "returned"
  BY DEF Pay, Decline, GiveBack, Settle, BankStates, IInv, CheckoutInv
<1>2. UNCHANGED <<stock, lines, took, cart, order, sales, req, cb, visits, updates>>
  BY DEF Pay, Decline, GiveBack, Settle, shelves, others
<1>3. TypeOK'
  BY <1>1, <1>2 DEF IInv, TypeOK
<1>4. /\ bank'[r] = to
      /\ \A q \in Requests : /\ q # r => bank'[q] = bank[q]
                             /\ bank[q] = "captured" => bank'[q] = "captured"
                             /\ Saved(q)' <=> Saved(q)
  BY <1>1, <1>2 DEF IInv, TypeOK, Saved
<1>5. OneOrderPerCart' /\ SalesAreCounted'
  BY <1>2, <1>4, OrdersKept, SalesKept
<1>6. CheckoutInv(r)'
  <2>1. Taken(r)' = Taken(r)
    BY <1>2 DEF Taken
  <2> QED
    BY <1>1, <1>2, <1>4, <2>1 DEF IInv, CheckoutInv, Ended
<1>7. ASSUME NEW q \in Requests PROVE CheckoutInv(q)'
  BY <1>2, <1>4, <1>6, TookKept, CheckoutKept
<1>8. ASSUME NEW b \in Callbacks PROVE CallbackInv(b)'
  <2>1. CallbackInv(b) /\ cb[b].order \in Requests
    BY DEF IInv, TypeOK, CallbackLocals
  <2>2. CASE cb[b].order = r
    BY <1>1, <1>2, <1>4, <2>1, <2>2 DEF CallbackInv, CartOf
  <2>3. CASE cb[b].order # r
    BY <1>2, <1>4, <2>1, <2>3 DEF CallbackInv, CartOf
  <2> QED
    BY <2>2, <2>3
<1> QED
  BY <1>3, <1>5, <1>7, <1>8 DEF IInv

-----------------------------------------------------------------------------
(* The callback.                                                           *)

\* A callback moves on or ends.  It captures at most the payment of its own order,
\* never unsaves an order and never brings a cart back.
LEMMA CallbackStep ==
  ASSUME NEW b \in Callbacks, IInv, TypeOK', SalesAreCounted', CallbackInv(b)',
         \A d \in Callbacks \ {b} : cb'[d] = cb[d],
         \A r \in Requests :
           /\ order'[r].status # "none" <=> order[r].status # "none"
           /\ bank'[r] = bank[r] \/ (bank[r] = "paid" /\ bank'[r] = "captured"),
         \A k \in Carts : cart[k].state = "gone" => cart'[k].state = "gone",
         UNCHANGED <<lines, took, req>>
  PROVE  IInv'
<1>1. \A r \in Requests : Saved(r)' <=> Saved(r)
  BY DEF Saved
<1>2. OneOrderPerCart'
  BY <1>1, OrdersKept
<1>3. ASSUME NEW r \in Requests PROVE CheckoutInv(r)'
  <2>1. CheckoutInv(r) /\ req[r].old \in Requests /\ Taken(r)' = Taken(r)
    BY DEF IInv, TypeOK, RequestLocals, Taken
  <2> QED
    BY <1>1, <2>1 DEF CheckoutInv
<1>4. ASSUME NEW d \in Callbacks, d # b PROVE CallbackInv(d)'
  <2>1. CallbackInv(d) /\ cb[d].order \in Requests /\ cb'[d] = cb[d]
        /\ \A r \in Requests : req[r].cart \in Carts
    BY <1>4 DEF IInv, TypeOK, CallbackLocals, RequestLocals
  <2> QED
    BY <1>1, <2>1 DEF CallbackInv, CartOf
<1> QED
  BY <1>2, <1>3, <1>4 DEF IInv

\* A callback that has ended has nothing left to say, unless it counted sales.
LEMMA EndTyped ==
  ASSUME NEW b \in Callbacks, IInv, CbEnd(b), cb[b].pc \notin {"count", "stopped", "success"}
  PROVE  /\ cb' \in [Callbacks -> CallbackLocals] /\ cb'[b].pc = "failed"
         /\ \A d \in Callbacks \ {b} : cb'[d] = cb[d]
         /\ CallbackInv(b)' /\ Counted(b)' = Counted(b)
<1> DEFINE next == [NewCallback EXCEPT !.pc = "failed"]
<1>1. next \in CallbackLocals /\ next.pc = "failed"
  BY Placeholders DEF CallbackLocals, NewCallback
<1>2. cb' = [cb EXCEPT ![b] = next] /\ cb \in [Callbacks -> CallbackLocals]
  BY DEF CbEnd, IInv, TypeOK
<1> HIDE DEF next
<1>3. cb' \in [Callbacks -> CallbackLocals] /\ cb'[b] = next
      /\ \A d \in Callbacks \ {b} : cb'[d] = cb[d]
  BY <1>1, <1>2
<1> QED
  BY <1>1, <1>3 DEF CallbackInv, Counted

LEMMA MoveTyped ==
  ASSUME NEW b \in Callbacks, IInv,
         NEW at \in {"verify", "list", "delete", "save", "count", "cancel"},
         CbGoto(b, at)
  PROVE  /\ cb' \in [Callbacks -> CallbackLocals] /\ cb'[b].pc = at
         /\ cb'[b].order = cb[b].order /\ cb'[b].truthful = cb[b].truthful
         /\ \A d \in Callbacks \ {b} : cb'[d] = cb[d]
<1> DEFINE next == [cb[b] EXCEPT !.pc = at]
<1>1. cb[b] \in CallbackLocals /\ cb \in [Callbacks -> CallbackLocals]
  BY DEF IInv, TypeOK
<1>2. next \in CallbackLocals /\ next.pc = at /\ next.order = cb[b].order
      /\ next.truthful = cb[b].truthful
  BY <1>1 DEF CallbackLocals
<1>3. cb' = [cb EXCEPT ![b] = next]
  BY DEF CbGoto
<1> HIDE DEF next
<1> QED
  BY <1>1, <1>2, <1>3

\* Callbacks that count nothing in a step leave the sales as they were counted.
LEMMA CountsKept ==
  ASSUME NEW b \in Callbacks, IInv, UNCHANGED <<lines, sales>>, Counted(b)' = Counted(b),
         \A d \in Callbacks \ {b} : cb'[d] = cb[d]
  PROVE  SalesAreCounted'
<1>1. ASSUME NEW d \in Callbacks, d # b PROVE Counted(d)' = Counted(d)
  BY <1>1, CountedKept
<1> QED
  BY <1>1, SalesStay

LEMMA CbOpenInv ==
  ASSUME NEW b \in Callbacks, NEW r \in Requests, NEW status \in {"OK", "NOK"}, IInv,
         CbOpen(b, r, status)
  PROVE  IInv'
<1> DEFINE next == [pc |-> IF status = "OK" THEN "verify" ELSE "cancel",
                    order |-> r, seen |-> order[r].status,
                    truthful |-> Truthful(r, status), list |-> {}]
<1>1. /\ Saved(r) /\ cb[b].pc = "idle"
      /\ cb' = [cb EXCEPT ![b] = next]
      /\ UNCHANGED <<stock, lines, took, cart, order, sales, bank, req, visits, updates>>
  BY DEF CbOpen, shelves, others
<1>2. next \in CallbackLocals
  <2>1. Truthful(r, status) \in BOOLEAN
    BY DEF Truthful
  <2>2. order[r].status \in Statuses \union {"none"}
    BY DEF IInv, TypeOK
  <2> QED
    BY <2>1, <2>2 DEF CallbackLocals
<1>3. /\ next.order = r
      /\ next.pc = IF status = "OK" THEN "verify" ELSE "cancel"
      /\ next.truthful <=> Truthful(r, status)
  OBVIOUS
<1> HIDE DEF next
<1>4. cb' \in [Callbacks -> CallbackLocals] /\ cb'[b] = next
      /\ \A d \in Callbacks \ {b} : cb'[d] = cb[d]
  BY <1>1, <1>2 DEF IInv, TypeOK
<1>5. TypeOK'
  BY <1>1, <1>4 DEF IInv, TypeOK
<1>6. SalesAreCounted'
  <2>1. Counted(b)' = Counted(b)
    BY <1>1, <1>3, <1>4 DEF Counted
  <2> QED
    BY <1>1, <1>4, <2>1, CountsKept
<1>7. CallbackInv(b)'
  BY <1>1, <1>3, <1>4 DEF CallbackInv, Saved, Truthful
<1> QED
  BY <1>1, <1>4, <1>5, <1>6, <1>7, CallbackStep

\* A capture takes the money of a payment that was made, and of no other.
LEMMA CaptureEffect ==
  ASSUME NEW b \in Callbacks, IInv, Capture(cb[b].order) \/ UNCHANGED bank
  PROVE  /\ bank' \in [Requests -> BankStates]
         /\ \A r \in Requests : \/ bank'[r] = bank[r]
                                \/ bank[r] = "paid" /\ bank'[r] = "captured"
         /\ Capture(cb[b].order) =>
              bank'[cb[b].order] = IF bank[cb[b].order] = "paid" THEN "captured"
                                   ELSE bank[cb[b].order]
<1>1. cb[b].order \in Requests /\ bank \in [Requests -> BankStates]
  BY DEF IInv, TypeOK, CallbackLocals
<1> QED
  BY <1>1 DEF Capture, BankStates

LEMMA CbVerifyInv ==
  ASSUME NEW b \in Callbacks, IInv, CbVerify(b) \/ CbVerifyLost(b) PROVE IInv'
<1> DEFINE r == cb[b].order
<1>1. /\ cb[b].pc = "verify" /\ CallbackInv(b) /\ r \in Requests
      /\ Capture(r) \/ UNCHANGED bank
      /\ UNCHANGED <<stock, lines, took, cart, order, sales, req, visits, updates>>
  BY DEF IInv, TypeOK, CallbackLocals, CbVerify, CbVerifyLost, shelves, others
<1>2. bank' \in [Requests -> BankStates]
      /\ \A q \in Requests : \/ bank'[q] = bank[q]
                             \/ bank[q] = "paid" /\ bank'[q] = "captured"
  BY <1>1, CaptureEffect
<1>3. /\ cb' \in [Callbacks -> CallbackLocals] /\ CallbackInv(b)' /\ Counted(b)' = Counted(b)
      /\ \A d \in Callbacks \ {b} : cb'[d] = cb[d]
  <2>1. CASE CbVerifyLost(b)
    BY <2>1, EndTyped DEF CbVerifyLost
  <2>2. CASE CbVerify(b)
    <3> DEFINE at == IF bank[r] \in {"paid", "captured"} THEN "list" ELSE "cancel"
    <3>1. CbGoto(b, at) /\ at \in {"list", "cancel"} /\ Capture(r)
      BY <2>2 DEF CbVerify
    <3>2. /\ cb' \in [Callbacks -> CallbackLocals] /\ cb'[b].pc = at /\ cb'[b].order = r
          /\ cb'[b].truthful = cb[b].truthful
          /\ \A d \in Callbacks \ {b} : cb'[d] = cb[d]
      BY <3>1, MoveTyped
    <3>3. bank'[r] = IF bank[r] = "paid" THEN "captured" ELSE bank[r]
      BY <3>1, CaptureEffect
    <3>4. /\ order'[r].status # "none"
          /\ cb[b].truthful => bank[r] \in {"paid", "captured", "returned"}
      BY <1>1 DEF CallbackInv, Saved
    <3> QED
      BY <1>1, <3>1, <3>2, <3>3, <3>4 DEF CallbackInv, Saved, Counted
  <2> QED
    BY <2>1, <2>2
<1>4. TypeOK'
  BY <1>1, <1>2, <1>3 DEF IInv, TypeOK
<1>5. SalesAreCounted'
  BY <1>1, <1>3, CountsKept
<1> QED
  BY <1>1, <1>2, <1>3, <1>4, <1>5, CallbackStep

\* The steps of a callback that leave the payment as it is and count no sale.
LEMMA CallbackMove ==
  ASSUME NEW b \in Callbacks, IInv, CallbackInv(b)', Counted(b)' = Counted(b),
         cb' \in [Callbacks -> CallbackLocals],
         \A d \in Callbacks \ {b} : cb'[d] = cb[d],
         cart' \in [Carts -> [state : {"live", "past", "gone"}, items : SUBSET Items]],
         \A k \in Carts : cart[k].state = "gone" => cart'[k].state = "gone",
         order' \in [Requests -> [status : Statuses \union {"none"}, recent : BOOLEAN,
                                  attempts : 0..MaxAttempts]],
         \A r \in Requests : order'[r].status # "none" <=> order[r].status # "none",
         UNCHANGED <<shelves, sales, bank, req, others>>
  PROVE  IInv'
<1>1. UNCHANGED <<stock, lines, took, sales, bank, req, visits, updates>>
  BY DEF shelves, others
<1>2. TypeOK'
  BY <1>1 DEF IInv, TypeOK
<1>3. SalesAreCounted'
  BY <1>1, CountsKept
<1> QED
  BY <1>1, <1>2, <1>3, CallbackStep

LEMMA OrderTyped ==
  ASSUME IInv, order' = order
  PROVE  /\ order' \in [Requests -> [status : Statuses \union {"none"}, recent : BOOLEAN,
                                    attempts : 0..MaxAttempts]]
         /\ \A r \in Requests : order'[r].status # "none" <=> order[r].status # "none"
  BY DEF IInv, TypeOK

LEMMA CbListInv ==
  ASSUME NEW b \in Callbacks, IInv, CbList(b) PROVE IInv'
<1> DEFINE next == [cb[b] EXCEPT !.pc = "delete", !.list = cart[CartOf(b)].items]
<1>1. /\ cb[b] \in CallbackLocals /\ cb[b].pc = "list" /\ CallbackInv(b)
      /\ cb' = [cb EXCEPT ![b].pc = "delete", ![b].list = cart[CartOf(b)].items]
      /\ UNCHANGED <<shelves, cart, order, sales, bank, req, others>>
  BY DEF IInv, TypeOK, CbList
<1>2. CartOf(b) \in Carts
  BY <1>1 DEF IInv, TypeOK, CartOf, CallbackLocals, RequestLocals
<1>3. next \in CallbackLocals /\ next.pc = "delete" /\ next.order = cb[b].order
  BY <1>1, <1>2 DEF IInv, TypeOK, CallbackLocals
<1>4. cb' = [cb EXCEPT ![b] = next] /\ cb \in [Callbacks -> CallbackLocals]
  BY <1>1 DEF IInv, TypeOK
<1> HIDE DEF next
<1>5. cb' \in [Callbacks -> CallbackLocals] /\ cb'[b] = next
      /\ \A d \in Callbacks \ {b} : cb'[d] = cb[d]
  BY <1>3, <1>4
<1>6. CallbackInv(b)' /\ Counted(b)' = Counted(b)
  BY <1>1, <1>3, <1>5 DEF CallbackInv, Saved, Counted
<1> QED
  BY <1>1, <1>5, <1>6, CartTyped, OrderTyped, CallbackMove

LEMMA CbDeleteInv ==
  ASSUME NEW b \in Callbacks, IInv, CbDelete(b) PROVE IInv'
<1> DEFINE next == [cb[b] EXCEPT !.pc = "save", !.list = {}]
           k == CartOf(b)
<1>1. /\ cb[b] \in CallbackLocals /\ cb[b].pc = "delete" /\ CallbackInv(b)
      /\ cart' = [cart EXCEPT ![k] = [state |-> "gone", items |-> {}]]
      /\ cb' = [cb EXCEPT ![b].pc = "save", ![b].list = {}]
      /\ UNCHANGED <<shelves, order, sales, bank, req, others>>
  BY DEF IInv, TypeOK, CbDelete
<1>2. k \in Carts
  BY <1>1 DEF IInv, TypeOK, CartOf, CallbackLocals, RequestLocals
<1>3. next \in CallbackLocals /\ next.pc = "save" /\ next.order = cb[b].order
  BY <1>1 DEF CallbackLocals
<1>4. cb' = [cb EXCEPT ![b] = next] /\ cb \in [Callbacks -> CallbackLocals]
  BY <1>1 DEF IInv, TypeOK
<1> HIDE DEF next
<1>5. cb' \in [Callbacks -> CallbackLocals] /\ cb'[b] = next
      /\ \A d \in Callbacks \ {b} : cb'[d] = cb[d]
  BY <1>3, <1>4
<1>6. /\ cart' \in [Carts -> [state : {"live", "past", "gone"}, items : SUBSET Items]]
      /\ \A l \in Carts : cart[l].state = "gone" => cart'[l].state = "gone"
      /\ cart'[k].state = "gone"
  BY <1>1, <1>2 DEF IInv, TypeOK
<1>7. CallbackInv(b)' /\ Counted(b)' = Counted(b)
  BY <1>1, <1>3, <1>5, <1>6 DEF CallbackInv, Saved, CartOf, Counted
<1> QED
  BY <1>1, <1>5, <1>6, <1>7, OrderTyped, CallbackMove

LEMMA CbDeleteFailsInv ==
  ASSUME NEW b \in Callbacks, IInv, CbDeleteFails(b) PROVE IInv'
<1> DEFINE k == CartOf(b)
<1>1. PICK before \in SUBSET Items : cart' = [cart EXCEPT ![k].items = @ \ before]
  BY DEF CbDeleteFails, IInv, TypeOK, CallbackLocals
<1>2. k \in Carts
  BY DEF IInv, TypeOK, CartOf, CallbackLocals, RequestLocals
<1>3. /\ cart' \in [Carts -> [state : {"live", "past", "gone"}, items : SUBSET Items]]
      /\ \A l \in Carts : cart[l].state = "gone" => cart'[l].state = "gone"
  BY <1>1, <1>2, StateTyped
<1>4. /\ CbEnd(b) /\ cb[b].pc = "delete" /\ order' = order
      /\ UNCHANGED <<shelves, sales, bank, req, others>>
  BY DEF CbDeleteFails
<1> QED
  BY <1>3, <1>4, EndTyped, OrderTyped, CallbackMove

LEMMA StampTyped ==
  ASSUME NEW b \in Callbacks, NEW s \in {"paid", "canceled"}, IInv, Stamp(b, s), Saved(cb[b].order)
  PROVE  /\ order' \in [Requests -> [status : Statuses \union {"none"}, recent : BOOLEAN,
                                    attempts : 0..MaxAttempts]]
         /\ \A r \in Requests : order'[r].status # "none" <=> order[r].status # "none"
         /\ \A r \in Requests : order'[r].status # order[r].status =>
              r = cb[b].order /\ order'[r].status = s
<1>1. cb[b].order \in Requests
  BY DEF IInv, TypeOK, CallbackLocals
<1> QED
  BY <1>1, StateTyped DEF Stamp, Saved, Statuses

LEMMA CbSaveInv ==
  ASSUME NEW b \in Callbacks, IInv, CbSave(b) PROVE IInv'
<1> DEFINE next == [cb[b] EXCEPT !.pc = "count", !.list = lines[cb[b].order]]
<1>1. /\ cb[b] \in CallbackLocals /\ cb[b].pc = "save" /\ CallbackInv(b) /\ Stamp(b, "paid")
      /\ cb' = [cb EXCEPT ![b].pc = "count", ![b].list = lines[cb[b].order]]
      /\ cart' = cart /\ UNCHANGED <<shelves, sales, bank, req, others>>
  BY DEF IInv, TypeOK, CbSave
<1>2. Saved(cb[b].order) /\ cb[b].order \in Requests /\ lines[cb[b].order] \subseteq Items
  BY <1>1 DEF CallbackInv, IInv, TypeOK, CallbackLocals
<1>3. next \in CallbackLocals /\ next.pc = "count" /\ next.order = cb[b].order
      /\ next.list = lines[cb[b].order]
  BY <1>1, <1>2 DEF CallbackLocals
<1>4. cb' = [cb EXCEPT ![b] = next] /\ cb \in [Callbacks -> CallbackLocals]
  BY <1>1 DEF IInv, TypeOK
<1> HIDE DEF next
<1>5. cb' \in [Callbacks -> CallbackLocals] /\ cb'[b] = next
      /\ \A d \in Callbacks \ {b} : cb'[d] = cb[d]
  BY <1>3, <1>4
<1>6. /\ order' \in [Requests -> [status : Statuses \union {"none"}, recent : BOOLEAN,
                                  attempts : 0..MaxAttempts]]
      /\ \A r \in Requests : order'[r].status # "none" <=> order[r].status # "none"
  BY <1>1, <1>2, StampTyped
<1>7. CallbackInv(b)'
  BY <1>1, <1>2, <1>3, <1>5, <1>6 DEF CallbackInv, Saved, shelves
<1>8. Counted(b)' = Counted(b)
  BY <1>1, <1>3, <1>5 DEF Counted, shelves
<1> QED
  BY <1>1, <1>5, <1>6, <1>7, <1>8, CartTyped, CallbackMove

LEMMA CbCancelInv ==
  ASSUME NEW b \in Callbacks, IInv, CbCancel(b) PROVE IInv'
<1>1. /\ cb[b].pc = "cancel" /\ CallbackInv(b) /\ Stamp(b, "canceled") /\ CbEnd(b)
      /\ cart' = cart /\ UNCHANGED <<shelves, sales, bank, req, others>>
  BY DEF IInv, CbCancel
<1>2. Saved(cb[b].order)
  BY <1>1 DEF CallbackInv
<1> QED
  BY <1>1, <1>2, StampTyped, EndTyped, CartTyped, CallbackMove

LEMMA CbAbandonInv ==
  ASSUME NEW b \in Callbacks, IInv, CbAbandon(b) PROVE IInv'
<1>1. /\ CbEnd(b) /\ cb[b].pc \in {"list", "save", "cancel"}
      /\ cart' = cart /\ order' = order /\ UNCHANGED <<shelves, sales, bank, req, others>>
  BY DEF CbAbandon
<1> QED
  BY <1>1, EndTyped, CartTyped, OrderTyped, CallbackMove

\* The loop over the items ends, or is cut short, with its count as it is.
LEMMA CbCountedInv ==
  ASSUME NEW b \in Callbacks, IInv, CbDone(b) \/ CbCountFails(b) PROVE IInv'
<1>1. PICK at \in {"stopped", "success"} :
        /\ CbCounted(b, at) /\ cb[b].pc = "count" /\ (at = "success" => cb[b].list = {})
  BY DEF CbDone, CbCountFails
<1> DEFINE next == [NewCallback EXCEPT !.pc = at, !.order = cb[b].order, !.list = cb[b].list]
<1>2. /\ cb[b] \in CallbackLocals /\ CallbackInv(b)
      /\ cart' = cart /\ order' = order /\ UNCHANGED <<shelves, sales, bank, req, others>>
  BY DEF IInv, TypeOK, CbDone, CbCountFails
<1>3. next \in CallbackLocals /\ next.pc = at /\ next.order = cb[b].order
      /\ next.list = cb[b].list
  BY <1>2, Placeholders DEF CallbackLocals, NewCallback
<1>4. cb' = [cb EXCEPT ![b] = next] /\ cb \in [Callbacks -> CallbackLocals]
  BY <1>1 DEF CbCounted, IInv, TypeOK
<1> HIDE DEF next
<1>5. cb' \in [Callbacks -> CallbackLocals] /\ cb'[b] = next
      /\ \A d \in Callbacks \ {b} : cb'[d] = cb[d]
  BY <1>3, <1>4
<1>6. CallbackInv(b)'
  BY <1>1, <1>2, <1>3, <1>5 DEF CallbackInv, Saved
<1>7. Counted(b)' = Counted(b)
  BY <1>1, <1>2, <1>3, <1>5 DEF Counted, shelves
<1> QED
  BY <1>2, <1>5, <1>6, <1>7, CartTyped, OrderTyped, CallbackMove

\* Only here sales are counted: of one line more, of an order whose money was captured.
LEMMA CbCountInv ==
  ASSUME NEW b \in Callbacks, IInv, CbCount(b) PROVE IInv'
<1>1. PICK i \in cb[b].list :
        /\ sales' = [sales EXCEPT ![ProductOf[i]] = @ + 1]
        /\ cb' = [cb EXCEPT ![b].list = @ \ {i}]
  BY DEF CbCount
<1> DEFINE r == cb[b].order
           next == [cb[b] EXCEPT !.list = @ \ {i}]
<1>2. /\ cb[b] \in CallbackLocals /\ cb[b].pc = "count" /\ CallbackInv(b)
      /\ r \in Requests /\ i \in Items /\ ProductOf[i] \in Products
      /\ UNCHANGED <<stock, lines, took, cart, order, bank, req, visits, updates>>
  BY DEF IInv, TypeOK, CallbackLocals, CbCount, shelves, others
<1>3. next \in CallbackLocals /\ next.pc = "count" /\ next.order = r
      /\ next.list = cb[b].list \ {i}
  BY <1>2 DEF CallbackLocals
<1>4. cb' = [cb EXCEPT ![b] = next] /\ cb \in [Callbacks -> CallbackLocals]
  BY <1>1 DEF IInv, TypeOK
<1> HIDE DEF next
<1>5. cb' \in [Callbacks -> CallbackLocals] /\ cb'[b] = next
      /\ \A d \in Callbacks \ {b} : cb'[d] = cb[d]
  BY <1>3, <1>4
<1>6. TypeOK'
  <2>1. sales' \in [Products -> Nat]
    BY <1>1, <1>2 DEF IInv, TypeOK
  <2> QED
    BY <1>2, <1>5, <2>1 DEF IInv, TypeOK
<1>7. CallbackInv(b)'
  BY <1>2, <1>3, <1>5 DEF CallbackInv, Saved
<1>8. i \in lines[r]
  BY <1>2 DEF CallbackInv
<1>9. /\ i \notin Counted(b) /\ Counted(b)' = Counted(b) \union {i}
      /\ \A d \in Callbacks \ {b} : Counted(d)' = Counted(d)
  <2>1. ASSUME NEW d \in Callbacks, d # b PROVE Counted(d)' = Counted(d)
    BY <1>2, <1>5, <2>1, CountedKept
  <2>2. i \notin Counted(b) /\ Counted(b)' = Counted(b) \union {i}
    BY <1>2, <1>3, <1>5, <1>8 DEF Counted
  <2> QED
    BY <2>1, <2>2
<1>10. SalesAreCounted'
  <2> SUFFICES ASSUME NEW p \in Products PROVE sales'[p] = Cardinality(CountsOf(p)')
    BY DEF SalesAreCounted
  <2>1. sales[p] = Cardinality(CountsOf(p)) /\ IsFiniteSet(CountsOf(p))
    <3>1. IsFiniteSet(Callbacks \X Items)
      BY FS_Product
    <3>2. CountsOf(p) \subseteq Callbacks \X Items
      BY DEF CountsOf
    <3> QED
      BY <3>1, <3>2, FS_Subset DEF IInv, SalesAreCounted
  <2>2. CASE p # ProductOf[i]
    <3>1. CountsOf(p)' = CountsOf(p)
      BY <1>9, <2>2 DEF CountsOf
    <3>2. sales'[p] = sales[p]
      BY <1>1, <1>2, <2>2 DEF IInv, TypeOK
    <3> QED
      BY <2>1, <3>1, <3>2
  <2>3. CASE p = ProductOf[i]
    <3>1. <<b, i>> \notin CountsOf(p) /\ CountsOf(p)' = CountsOf(p) \union {<<b, i>>}
      BY <1>2, <1>9, <2>3 DEF CountsOf
    <3>2. Cardinality(CountsOf(p)') = Cardinality(CountsOf(p)) + 1
      BY <2>1, <3>1, FS_AddElement
    <3>3. sales'[p] = sales[p] + 1
      BY <1>1, <1>2, <2>3 DEF IInv, TypeOK
    <3> QED
      BY <2>1, <3>2, <3>3
  <2> QED
    BY <2>2, <2>3
<1> QED
  BY <1>2, <1>5, <1>6, <1>7, <1>10, CallbackStep

-----------------------------------------------------------------------------
(* The administrator, the customer at the cart, and the clock.             *)

\* Orders change only in what the calls do not rely on, carts are not brought back.
LEMMA OutsideStep ==
  ASSUME IInv, TypeOK',
         \A r \in Requests : order'[r].status # "none" <=> order[r].status # "none",
         \A k \in Carts : cart[k].state = "gone" => cart'[k].state = "gone",
         UNCHANGED <<lines, took, sales, bank, req, cb>>
  PROVE  IInv'
<1>1. \A r \in Requests : Saved(r)' <=> Saved(r)
  BY DEF Saved
<1>2. OneOrderPerCart' /\ SalesAreCounted'
  BY <1>1, OrdersKept, SalesKept
<1>3. ASSUME NEW r \in Requests PROVE CheckoutInv(r)'
  BY <1>1, TookKept, CheckoutKept
<1>4. ASSUME NEW b \in Callbacks PROVE CallbackInv(b)'
  BY <1>1, CallbackKept
<1> QED
  BY <1>2, <1>3, <1>4 DEF IInv

LEMMA UpdateStatusInv ==
  ASSUME NEW r \in Requests, NEW s \in Statuses, IInv, UpdateStatus(r, s) PROVE IInv'
<1>1. /\ Saved(r) /\ order' = [order EXCEPT ![r].status = s]
      /\ updates < MaxUpdates /\ updates' = updates + 1
      /\ UNCHANGED <<stock, lines, took, cart, sales, bank, req, cb, visits>>
  BY DEF UpdateStatus, shelves
<1>2. TypeOK'
  <2>1. updates' \in 0..MaxUpdates
    BY <1>1 DEF IInv, TypeOK
  <2>2. order' \in [Requests -> [status : Statuses \union {"none"}, recent : BOOLEAN,
                                 attempts : 0..MaxAttempts]]
    BY <1>1, StateTyped
  <2> QED
    BY <1>1, <2>1, <2>2 DEF IInv, TypeOK
<1>3. \A q \in Requests : order'[q].status # "none" <=> order[q].status # "none"
  BY <1>1 DEF IInv, TypeOK, Saved, Statuses
<1> QED
  BY <1>1, <1>2, <1>3, OutsideStep

LEMMA FifteenMinutesInv ==
  ASSUME NEW r \in Requests, IInv, FifteenMinutes(r) PROVE IInv'
<1>1. /\ order' = [order EXCEPT ![r].recent = FALSE]
      /\ UNCHANGED <<stock, lines, took, cart, sales, bank, req, cb, visits, updates>>
  BY DEF FifteenMinutes, shelves, others
<1>2. TypeOK'
  BY <1>1 DEF IInv, TypeOK
<1>3. \A q \in Requests : order'[q].status # "none" <=> order[q].status # "none"
  BY <1>1 DEF IInv, TypeOK
<1> QED
  BY <1>1, <1>2, <1>3, OutsideStep

LEMMA CartStepInv ==
  ASSUME NEW k \in Carts, IInv,
         NEW to \in [state : {"live", "past", "gone"}, items : SUBSET Items],
         CartStep(k, to)
  PROVE  IInv'
<1>1. /\ cart[k].state # "gone" /\ cart' = [cart EXCEPT ![k] = to]
      /\ visits < MaxVisits /\ visits' = visits + 1
      /\ UNCHANGED <<stock, lines, took, order, sales, bank, req, cb, updates>>
  BY DEF CartStep, shelves
<1>2. TypeOK'
  BY <1>1 DEF IInv, TypeOK
<1>3. \A l \in Carts : cart[l].state = "gone" => cart'[l].state = "gone"
  BY <1>1 DEF IInv, TypeOK
<1> QED
  BY <1>1, <1>2, <1>3, OutsideStep

LEMMA CustomerInv ==
  ASSUME NEW k \in Carts, IInv,
         \/ GetCart(k) \/ Expire(k)
         \/ \E i \in Items : AddItemToCart(k, i) \/ RemoveItemFromCart(k, i)
  PROVE  IInv'
<1>1. cart[k] \in [state : {"live", "past", "gone"}, items : SUBSET Items]
  BY DEF IInv, TypeOK
<1>2. CASE GetCart(k)
  <2>1. /\ cart' = [cart EXCEPT ![k] = Viewed(k)]
        /\ UNCHANGED <<stock, lines, took, order, sales, bank, req, cb, visits, updates>>
    BY <1>2 DEF GetCart, shelves, others
  <2>2. TypeOK'
    BY <2>1, ViewedTyped DEF IInv, TypeOK
  <2>3. \A l \in Carts : cart[l].state = "gone" => cart'[l].state = "gone"
    BY <2>1, ViewedTyped DEF IInv, TypeOK
  <2> QED
    BY <2>1, <2>2, <2>3, OutsideStep
<1>3. CASE Expire(k)
  BY <1>1, <1>3, CartStepInv DEF Expire
<1>4. ASSUME NEW i \in Items, AddItemToCart(k, i) PROVE IInv'
  <2> DEFINE more == cart[k].items \union (IF stock[ProductOf[i]] >= 1 THEN {i} ELSE {})
  <2>1. more \in SUBSET Items
    BY <1>1
  <2> QED
    BY <1>4, <2>1, CartStepInv DEF AddItemToCart
<1>5. ASSUME NEW i \in Items, RemoveItemFromCart(k, i) PROVE IInv'
  BY <1>1, <1>5, CartStepInv DEF RemoveItemFromCart
<1> QED
  BY <1>2, <1>3, <1>4, <1>5

-----------------------------------------------------------------------------
LEMMA NextInv == IInv /\ [Next]_vars => IInv'
<1> SUFFICES ASSUME IInv, [Next]_vars PROVE IInv'
  OBVIOUS
<1>1. ASSUME NEW r \in Requests, (\E k \in Carts : Begin(r, k)) \/ CreateOrder(r) PROVE IInv'
  BY <1>1, BeginInv, CreateOrderInv
<1>2. ASSUME NEW r \in Requests, Pay(r) \/ Decline(r) \/ GiveBack(r) \/ FifteenMinutes(r)
      PROVE  IInv'
  BY <1>2, SettleInv, FifteenMinutesInv
<1>3. ASSUME NEW b \in Callbacks, Callback(b) PROVE IInv'
  BY <1>3, CbOpenInv, CbVerifyInv, CbListInv, CbDeleteInv, CbDeleteFailsInv, CbSaveInv,
     CbCountInv, CbCountedInv, CbCancelInv, CbAbandonInv DEF Callback
<1>4. ASSUME NEW r \in Requests, NEW s \in Statuses, UpdateStatus(r, s) PROVE IInv'
  BY <1>4, UpdateStatusInv
<1>5. ASSUME NEW k \in Carts,
             \/ GetCart(k) \/ Expire(k)
             \/ \E i \in Items : AddItemToCart(k, i) \/ RemoveItemFromCart(k, i)
      PROVE  IInv'
  BY <1>5, CustomerInv
<1>6. CASE UNCHANGED vars
  <2>1. UNCHANGED <<stock, cart, order, lines, took, sales, bank, req, cb, visits, updates>>
    BY <1>6 DEF vars
  <2>2. TypeOK'
    BY <2>1 DEF IInv, TypeOK
  <2> QED
    BY <2>1, <2>2, OutsideStep
<1> QED
  BY <1>1, <1>2, <1>3, <1>4, <1>5, <1>6 DEF Next

LEMMA InvImplies ==
  IInv => TypeOK /\ OrdersAreBacked /\ NeverChargedTwice /\ SalesAreConfirmed
<1> SUFFICES ASSUME IInv PROVE OrdersAreBacked /\ NeverChargedTwice /\ SalesAreConfirmed
  BY DEF IInv
<1>1. OrdersAreBacked
  BY DEF IInv, CheckoutInv, OrdersAreBacked
<1>2. NeverChargedTwice
  BY DEF IInv, CheckoutInv, OneOrderPerCart, NeverChargedTwice
<1>3. SalesAreConfirmed
  BY DEF IInv, CallbackInv, Counted, SalesAreConfirmed
<1> QED
  BY <1>1, <1>2, <1>3

-----------------------------------------------------------------------------
\* IInv holds in every state that checkouts, redirects, customers and the administrator
\* can reach.
THEOREM Invariance == Spec => []IInv
  BY InitInv, NextInv, PTL DEF Spec

\* Every variable of the checkout keeps its type; in particular no order is offered
\* for payment more often than MaxAttempts.
THEOREM TypeCorrect == Spec => []TypeOK
  BY Invariance, InvImplies, PTL

\* However many checkouts compete for the stock, an order exists only with every line
\* written down and taken.
THEOREM OrdersBacked == Spec => []OrdersAreBacked
  BY Invariance, InvImplies, PTL

\* The idempotency key of createOrder keeps customers from paying twice for a cart.
THEOREM ChargedOnce == Spec => []NeverChargedTwice
  BY Invariance, InvImplies, PTL

\* The callback's loop over the items counts each at most once in a redirect, and only
\* for money that was captured; a customer who sees success sees them all counted.
THEOREM SalesConfirmed == Spec => []SalesAreConfirmed
  BY Invariance, InvImplies, PTL

-----------------------------------------------------------------------------
(* What a step may never do to an order.                                   *)

\* The only steps that change the status of an order that is there.
LEMMA StatusChange ==
  ASSUME NEW r \in Requests, IInv, [Next]_vars, order'[r].status # order[r].status
  PROVE  \/ ~Saved(r) /\ Save(r)
         \/ \E b \in Callbacks : CbSave(b) /\ cb[b].order = r /\ order'[r].status = "paid"
         \/ \E b \in Callbacks : CbCancel(b) /\ cb[b].order = r /\ order'[r].status = "canceled"
         \/ ByAdministrator
<1>1. ASSUME NEW q \in Requests, CreateOrder(q) PROVE q = r /\ ~Saved(r) /\ Save(r)
  <2>1. CASE Save(q)
    <3>1. order' = [order EXCEPT ![q] = [status |-> "paying", recent |-> TRUE, attempts |-> 1]]
          /\ ~Saved(q)
      BY <2>1 DEF Save, IInv, CheckoutInv, Ended
    <3> QED
      BY <2>1, <3>1 DEF IInv, TypeOK
  <2>2. CASE SaveRetry(q)
    BY <2>2 DEF SaveRetry, IInv, TypeOK, RequestLocals
  <2>3. CASE order' = order
    BY <2>3
  <2> QED
    BY <1>1, <2>1, <2>2, <2>3 DEF CreateOrder, RefuseAddress, FindRecent, FindOld, FindNone,
       Details, RefuseShipping, RefuseExpired, RefuseItems, Accept, PaymentRequest,
       PaymentRefused, Line, LineThrows, Take, TakeUnnoticed, TakeFails, SaveFails, Abandon
<1>2. ASSUME NEW b \in Callbacks, Callback(b)
      PROVE  \/ CbSave(b) /\ cb[b].order = r /\ order'[r].status = "paid"
             \/ CbCancel(b) /\ cb[b].order = r /\ order'[r].status = "canceled"
  <2>1. CASE CbSave(b)
    BY <2>1, StampTyped DEF CbSave, IInv, CallbackInv
  <2>2. CASE CbCancel(b)
    BY <2>2, StampTyped DEF CbCancel, IInv, CallbackInv
  <2>3. CASE order' = order
    BY <2>3
  <2> QED
    BY <1>2, <2>1, <2>2, <2>3 DEF Callback, CbOpen, CbVerify, CbVerifyLost, CbList, CbDelete,
       CbDeleteFails, CbCount, CbDone, CbCountFails, CbAbandon
<1>3. ASSUME NEW q \in Requests, NEW s \in Statuses, UpdateStatus(q, s) PROVE ByAdministrator
  BY <1>3 DEF UpdateStatus, ByAdministrator, IInv, TypeOK
<1>4. ASSUME NEW q \in Requests, FifteenMinutes(q) PROVE FALSE
  BY <1>4 DEF FifteenMinutes, IInv, TypeOK
<1>5. CASE \/ \E q \in Requests : \/ \E k \in Carts : Begin(q, k)
                                  \/ Pay(q) \/ Decline(q) \/ GiveBack(q)
           \/ \E k \in Carts : GetCart(k) \/ Expire(k)
           \/ \E k \in Carts, i \in Items : AddItemToCart(k, i) \/ RemoveItemFromCart(k, i)
           \/ UNCHANGED vars
  BY <1>5 DEF Begin, Pay, Decline, GiveBack, Settle, GetCart, Expire, AddItemToCart,
     RemoveItemFromCart, CartStep, vars
<1> QED
  BY <1>1, <1>2, <1>3, <1>4, <1>5 DEF Next

\* A redirect whose status is not its payment's is about to cancel the order.
Misled(r) ==
  \E b \in Callbacks : cb[b].pc = "cancel" /\ cb[b].order = r /\ ~cb[b].truthful

\* The three action properties, for one step and one order.
LEMMA StepsOfAnOrder ==
  ASSUME NEW r \in Requests, IInv, [Next]_vars
  PROVE  /\ Becomes(r, "paid") =>
              \/ bank[r] = "captured" /\ cart[req[r].cart].state = "gone"
              \/ ByAdministrator
         /\ Becomes(r, "canceled") =>
              \/ bank[r] \in {"declined", "returned"}
              \/ ByAdministrator
              \/ Misled(r)
         /\ Saved(r) /\ Becomes(r, "paying") => ByAdministrator
<1> SUFFICES ASSUME order'[r].status # order[r].status, ~ByAdministrator
             PROVE  /\ order'[r].status = "paid" =>
                         bank[r] = "captured" /\ cart[req[r].cart].state = "gone"
                    /\ order'[r].status = "canceled" =>
                         bank[r] \in {"declined", "returned"} \/ Misled(r)
                    /\ order'[r].status = "paying" => ~Saved(r)
  BY DEF Becomes
<1>1. CASE ~Saved(r) /\ Save(r)
  <2>1. order'[r].status = "paying"
    BY <1>1 DEF Save, IInv, TypeOK
  <2> QED
    BY <1>1, <2>1
<1>2. ASSUME NEW b \in Callbacks, CbSave(b), cb[b].order = r, order'[r].status = "paid"
      PROVE  bank[r] = "captured" /\ cart[req[r].cart].state = "gone"
  BY <1>2 DEF CbSave, IInv, CallbackInv, CartOf
<1>3. ASSUME NEW b \in Callbacks, CbCancel(b), cb[b].order = r, order'[r].status = "canceled"
      PROVE  bank[r] \in {"declined", "returned"} \/ Misled(r)
  BY <1>3 DEF CbCancel, IInv, CallbackInv, Misled
<1> QED
  BY <1>1, <1>2, <1>3, StatusChange

\* Only a callback that verified the payment and emptied the cart, or the administrator,
\* makes an order paid.
THEOREM PaidSettled == Spec => PaidOnlyWhenSettled
<1>1. IInv /\ [Next]_vars =>
        \A r \in Requests : Becomes(r, "paid") =>
          \/ bank[r] = "captured" /\ cart[req[r].cart].state = "gone"
          \/ ByAdministrator
  BY StepsOfAnOrder
<1> QED
  BY <1>1, Invariance, PTL DEF Spec, PaidOnlyWhenSettled

\* However often and late redirects come, and whatever others make of the order between
\* its steps: one with the payment's own status cancels no order whose money was taken.
THEOREM CanceledUnpaid == Spec => CanceledOnlyWhenUnpaid
<1>1. IInv /\ [Next]_vars =>
        \A r \in Requests : Becomes(r, "canceled") =>
          \/ bank[r] \in {"declined", "returned"}
          \/ ByAdministrator
          \/ \E b \in Callbacks :
               cb[b].pc = "cancel" /\ cb[b].order = r /\ ~cb[b].truthful
  BY StepsOfAnOrder DEF Misled
<1> QED
  BY <1>1, Invariance, PTL DEF Spec, CanceledOnlyWhenUnpaid

\* A retry that saves what it read of an order does not undo a callback.
THEOREM NeverPayingAgain == Spec => NoWayBackToPaying
<1>1. IInv /\ [Next]_vars =>
        \A r \in Requests : Saved(r) /\ Becomes(r, "paying") => ByAdministrator
  BY StepsOfAnOrder
<1> QED
  BY <1>1, Invariance, PTL DEF Spec, NoWayBackToPaying

-----------------------------------------------------------------------------
(* The checkouts implement StockPromise: each decrement of removeStock is a *)
(* Take, noticed or not, and nothing else touches the stock.               *)

LEMMA InitPromise == Init => StockOfOrders!Init
  BY DEF Init, StockOfOrders!Init

\* A call that is at a line has a round left, and decrements what covers the line.
LEMMA TakePromise ==
  ASSUME NEW r \in Requests, IInv, Take(r) \/ TakeUnnoticed(r) PROVE StockOfOrders!Next
<1> DEFINE i == req[r].item
           p == ProductOf[i]
<1>1. req[r].pc = "take" /\ Decrement(r)
  BY DEF Take, TakeUnnoticed
<1>2. <<r, i>> \in Requests \X Items /\ p \in Products /\ took[<<r, i>>] < MaxTakes
  BY <1>1, DecrementEffect
<1>3. StockOfOrders!Take(<<r, i>>, p, 1)
  <2>1. /\ stock[p] >= 1 /\ stock' = [stock EXCEPT ![p] = @ - 1]
        /\ took' = [took EXCEPT ![<<r, i>>] = @ + 1]
    BY <1>1 DEF Decrement
  <2>2. 1 <= stock[p]
    BY <1>2, <2>1 DEF IInv, TypeOK
  <2> QED
    BY <1>2, <2>1, <2>2 DEF StockOfOrders!Take
<1> QED
  BY <1>2, <1>3 DEF StockOfOrders!Next

LEMMA StepPromise == IInv /\ [Next]_vars => [StockOfOrders!Next]_(StockOfOrders!vars)
<1> SUFFICES ASSUME IInv, [Next]_vars
             PROVE  StockOfOrders!Next \/ UNCHANGED <<stock, took>>
  BY DEF StockOfOrders!vars
<1>1. ASSUME NEW r \in Requests, CreateOrder(r)
      PROVE  Take(r) \/ TakeUnnoticed(r) \/ UNCHANGED <<stock, took>>
  BY <1>1 DEF CreateOrder, RefuseAddress, FindRecent, FindOld, FindNone, SaveRetry, Details,
     RefuseShipping, RefuseExpired, RefuseItems, Accept, PaymentRequest, PaymentRefused, Line,
     LineThrows, TakeFails, Save, SaveFails, Abandon, shelves
<1>2. ASSUME NEW b \in Callbacks, Callback(b) PROVE UNCHANGED <<stock, took>>
  BY <1>2 DEF Callback, CbOpen, CbVerify, CbVerifyLost, CbList, CbDelete, CbDeleteFails, CbSave,
     CbCount, CbDone, CbCountFails, CbCancel, CbAbandon, shelves
<1>3. CASE \/ \E r \in Requests : \/ \E k \in Carts : Begin(r, k)
                                  \/ Pay(r) \/ Decline(r) \/ GiveBack(r) \/ FifteenMinutes(r)
           \/ \E r \in Requests, s \in Statuses : UpdateStatus(r, s)
           \/ \E k \in Carts : GetCart(k) \/ Expire(k)
           \/ \E k \in Carts, i \in Items : AddItemToCart(k, i) \/ RemoveItemFromCart(k, i)
           \/ UNCHANGED vars
  BY <1>3 DEF Begin, Pay, Decline, GiveBack, Settle, FifteenMinutes, UpdateStatus, GetCart,
     Expire, AddItemToCart, RemoveItemFromCart, CartStep, shelves, vars
<1> QED
  BY <1>1, <1>2, <1>3, TakePromise DEF Next

\* Checkouts that compete, fail between their lines, lose answers or are abandoned take
\* lines whole, only from stock that covers them, and no oftener than MaxTakes each.
THEOREM Refinement == Spec => KeepsStockPromise
<1>1. Spec => []IInv
  BY Invariance
<1> QED
  BY <1>1, InitPromise, StepPromise, PTL DEF Spec, KeepsStockPromise, StockOfOrders!Spec
=============================================================================
