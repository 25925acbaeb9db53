------------------------------- MODULE Order --------------------------------
(***************************************************************************)
(* From cart to paid order: OrderService.createOrder, the payment gateway's *)
(* callback in SiteOrderController, and the administrator's change of an    *)
(* order's status.  Calls interleave at every await.                        *)
(*                                                                         *)
(* The gateway (Zarinpal) is outside the repository and is modelled by     *)
(* what the code relies on: a customer who was given a payment URL pays or *)
(* gives up, the first verification of a payment captures it (code 100),   *)
(* later ones say so (code 101), and what is never verified is given back. *)
(* The redirect to the callback is a request like any other: it comes as   *)
(* often as it likes, early or late, and with either status.  Stock is     *)
(* taken as StockPromise says, one unit per line and take.                 *)
(***************************************************************************)
EXTENDS Integers, FiniteSets

CONSTANTS
  Requests,      \* createOrder calls; each also names the order it would make
  Callbacks,     \* arrivals of the gateway's redirect
  Carts, Products,
  Items,         \* the lines a cart may hold: a product, in one size if it has sizes
  ProductOf,     \* the product of a line
  NoItem,        \* what a call is at between two lines
  OpeningStock,  \* stock of the products at the start
  Baskets,       \* what the carts may hold at the start
  MaxTakes,      \* maxRetries of removeStock, 3 in the code
  MaxAttempts,   \* paymentAttempts an old order may reach, 5 in the code
  MaxVisits,     \* bound: what happens to the carts outside checkout
  MaxUpdates,    \* bound: the administrator's changes of an order's status
  IdBeforeValidation
     \* FALSE in the shipped code: orderId is required, and is made in a
     \* pre-save hook, which mongoose 8 runs after its own validation

ASSUME OrderAssumption ==
  /\ Requests # {} /\ Carts # {} /\ Items # {}
  /\ IsFiniteSet(Callbacks) /\ IsFiniteSet(Items)
  /\ ProductOf \in [Items -> Products] /\ NoItem \notin Items
  /\ OpeningStock \in [Products -> Nat]
  /\ Baskets \subseteq [Carts -> SUBSET Items]
  /\ MaxTakes \in Nat \ {0}
  /\ MaxAttempts \in Nat \ {0}
  /\ MaxVisits \in Nat /\ MaxUpdates \in Nat
  /\ IdBeforeValidation \in BOOLEAN

VARIABLES
  stock,    \* Product.stock
  cart,     \* the carts: live, past their expiresAt, or deleted; their items
  order,    \* the order documents, by the request that made them
  lines,    \* OrderItem documents of an order
  took,     \* how often removeStock has decremented the stock for a line of an order
  sales,    \* Product.salesCount
  bank,     \* what the gateway knows of the payment of an order
  req,      \* locals of a createOrder call
  cb,       \* locals of a callback
  visits, updates  \* history: counts for the bounds

vars == <<stock, cart, order, lines, took, sales, bank, req, cb, visits, updates>>
others == <<visits, updates>>
shelves == <<stock, lines, took>>

Statuses == {"paying", "paid", "sent", "canceled"}
NoOrder == [status |-> "none", recent |-> FALSE, attempts |-> 0]
Saved(r) == order[r].status # "none"

BankStates == {"none", "open", "paid", "declined", "captured", "returned"}

NewRequest == [pc |-> "idle", cart |-> CHOOSE k \in Carts : TRUE, want |-> {},
               item |-> NoItem, expired |-> FALSE,
               short |-> FALSE, old |-> CHOOSE r \in Requests : TRUE, tries |-> 0]
NewCallback == [pc |-> "idle", order |-> CHOOSE r \in Requests : TRUE,
                seen |-> "none", truthful |-> FALSE, list |-> {}]

Goto(r, at) == req' = [req EXCEPT ![r].pc = at]
CbGoto(b, at) == cb' = [cb EXCEPT ![b].pc = at]

\* The call answers: its locals are gone, all but the cart it was about.
Answer(r, at) == req' = [req EXCEPT ![r] = [NewRequest EXCEPT !.pc = at, !.cart = req[r].cart]]

Ended == {"answered", "unsaved"}

Init ==
  /\ stock = OpeningStock
  /\ \E basket \in Baskets :
       cart = [k \in Carts |-> [state |-> "live", items |-> basket[k]]]
  /\ order = [r \in Requests |-> NoOrder]
  /\ lines = [r \in Requests |-> {}]
  /\ took = [line \in Requests \X Items |-> 0]
  /\ sales = [p \in Products |-> 0]
  /\ bank = [r \in Requests |-> "none"]
  /\ req = [r \in Requests |-> NewRequest]
  /\ cb = [b \in Callbacks |-> NewCallback]
  /\ visits = 0 /\ updates = 0

-----------------------------------------------------------------------------
(* createOrder.  A call that asked the gateway for nothing leaves no trace, *)
(* so its name may be used again for a later call.                         *)

Begin(r, k) ==
  /\ req[r].pc \in {"idle"} \union Ended /\ bank[r] = "none"
  /\ req' = [req EXCEPT ![r] = [NewRequest EXCEPT !.pc = "lookup", !.cart = k]]
  /\ UNCHANGED <<shelves, cart, order, sales, bank, cb, others>>

\* The address is missing, somebody else's or incomplete.
RefuseAddress(r) ==
  /\ req[r].pc = "lookup"
  /\ Answer(r, "answered")
  /\ UNCHANGED <<shelves, cart, order, sales, bank, cb, others>>

\* Orders being paid for the cart of this call.
Paying(r) == {q \in Requests : order[q].status = "paying" /\ req[q].cart = req[r].cart}

\* The order being paid was touched in the last 15 minutes: hand it out again.
FindRecent(r) ==
  /\ req[r].pc = "lookup"
  /\ \E q \in Paying(r) : order[q].recent
  /\ Answer(r, "answered")
  /\ UNCHANGED <<shelves, cart, order, sales, bank, cb, others>>

\* Mutant of FindOld: the attempts are counted and not limited.
FindOldUnlimited(r) ==
  /\ req[r].pc = "lookup"
  /\ \E q \in Paying(r) :
       /\ ~order[q].recent
       /\ req' = [req EXCEPT ![r].pc = "retry", ![r].old = q,
                             ![r].tries = order[q].attempts + 1]
  /\ UNCHANGED <<shelves, cart, order, sales, bank, cb, others>>

\* It was not: one more attempt, counted on the document as read here.
FindOld(r) ==
  /\ req[r].pc = "lookup"
  /\ \E q \in Paying(r) :
       /\ ~order[q].recent
       /\ IF order[q].attempts + 1 > MaxAttempts
          THEN Answer(r, "answered")
          ELSE req' = [req EXCEPT ![r].pc = "retry", ![r].old = q,
                                  ![r].tries = order[q].attempts + 1]
  /\ UNCHANGED <<shelves, cart, order, sales, bank, cb, others>>

FindNone(r) ==
  /\ req[r].pc = "lookup"
  /\ Paying(r) = {}
  /\ Goto(r, "details")
  /\ UNCHANGED <<shelves, cart, order, sales, bank, cb, others>>

\* Mutant of SaveRetry: the whole document is written back, not the two paths.
SaveRetryWhole(r) ==
  /\ req[r].pc = "retry"
  /\ order' = [order EXCEPT ![req[r].old] =
                 [status |-> "paying", recent |-> TRUE, attempts |-> req[r].tries]]
  /\ Answer(r, "answered")
  /\ UNCHANGED <<shelves, cart, sales, bank, cb, others>>

\* existingOrder.save() writes the paths it changed, never the status.
SaveRetry(r) ==
  /\ req[r].pc = "retry"
  /\ order' = [order EXCEPT ![req[r].old].recent = TRUE,
                            ![req[r].old].attempts = req[r].tries]
  /\ Answer(r, "answered")
  /\ UNCHANGED <<shelves, cart, sales, bank, cb, others>>

\* What getCartDetails leaves of a cart: one past its time loses its items.
Viewed(k) == IF cart[k].state = "past" THEN [cart[k] EXCEPT !.items = {}] ELSE cart[k]

\* getCartDetails for the checkout, with the stock of each product as it is now.
Details(r) ==
  LET k == req[r].cart
  IN /\ req[r].pc = "details"
     /\ cart' = [cart EXCEPT ![k] = Viewed(k)]
     /\ IF cart[k].state = "gone"
        THEN Answer(r, "answered")
        ELSE req' = [req EXCEPT ![r].pc = "validate",
                                ![r].want = Viewed(k).items,
                                ![r].expired = cart[k].state = "past",
                                ![r].short = \E i \in Viewed(k).items : stock[ProductOf[i]] < 1]
     /\ UNCHANGED <<shelves, order, sales, bank, cb, others>>

\* The shipping method is unknown or inactive.
RefuseShipping(r) ==
  /\ req[r].pc = "validate"
  /\ Answer(r, "answered")
  /\ UNCHANGED <<shelves, cart, order, sales, bank, cb, others>>

\* The cart had expired: removeCartAndItems deletes it with what it holds now.
RefuseExpired(r) ==
  /\ req[r].pc = "validate"
  /\ req[r].expired
  /\ cart' = [cart EXCEPT ![req[r].cart] = [state |-> "gone", items |-> {}]]
  /\ Answer(r, "answered")
  /\ UNCHANGED <<shelves, order, sales, bank, cb, others>>

RefuseItems(r) ==
  /\ req[r].pc = "validate"
  /\ ~req[r].expired
  /\ req[r].want = {} \/ req[r].short
  /\ Answer(r, "answered")
  /\ UNCHANGED <<shelves, cart, order, sales, bank, cb, others>>

Accept(r) ==
  /\ req[r].pc = "validate"
  /\ ~req[r].expired /\ req[r].want # {} /\ ~req[r].short
  /\ Goto(r, "pay")
  /\ UNCHANGED <<shelves, cart, order, sales, bank, cb, others>>

\* The gateway gives an authority (code 100) ...
PaymentRequest(r) ==
  /\ req[r].pc = "pay"
  /\ bank' = [bank EXCEPT ![r] = "open"]
  /\ Goto(r, "items")
  /\ UNCHANGED <<shelves, cart, order, sales, cb, others>>

\* ... or another code, an error, or no answer in 10 seconds.
PaymentRefused(r) ==
  /\ req[r].pc = "pay"
  /\ Answer(r, "answered")
  /\ UNCHANGED <<shelves, cart, order, sales, bank, cb, others>>

\* The next item's OrderItem is saved ...
Line(r) ==
  /\ req[r].pc = "items"
  /\ \E i \in req[r].want :
       /\ lines' = [lines EXCEPT ![r] = @ \union {i}]
       /\ req' = [req EXCEPT ![r].pc = "take", ![r].item = i]
  /\ UNCHANGED <<stock, took, cart, order, sales, bank, cb, others>>

\* ... or calculateItemTotal throws: discountPrice, a price, is handed to it as
\* a percentage, so any product with one above 100 ends the call here.
LineThrows(r) ==
  /\ req[r].pc = "items"
  /\ req[r].want # {}
  /\ Answer(r, "answered")
  /\ UNCHANGED <<shelves, cart, order, sales, bank, cb, others>>

NextLine(r) ==
  req' = [req EXCEPT ![r].pc = "items", ![r].want = @ \ {req[r].item}, ![r].item = NoItem]

\* One round of removeStock got through: checked and decremented in one version.
Decrement(r) ==
  LET p == ProductOf[req[r].item]
  IN /\ stock[p] >= 1
     /\ stock' = [stock EXCEPT ![p] = @ - 1]
     /\ took' = [took EXCEPT ![<<r, req[r].item>>] = @ + 1]

\* Mutant of Take: the stock checked with the cart is trusted.
TakeUnchecked(r) ==
  /\ req[r].pc = "take"
  /\ stock' = [stock EXCEPT ![ProductOf[req[r].item]] = @ - 1]
  /\ took' = [took EXCEPT ![<<r, req[r].item>>] = @ + 1]
  /\ NextLine(r)
  /\ UNCHANGED <<lines, cart, order, sales, bank, cb, others>>

\* removeStock takes the line, in its first round or in a later one.
Take(r) ==
  /\ req[r].pc = "take"
  /\ Decrement(r)
  /\ NextLine(r)
  /\ UNCHANGED <<lines, cart, order, sales, bank, cb, others>>

\* The decrement is applied but its answer is lost, or the inventory record
\* fails: the catch goes round again, or throws after the last round.
TakeUnnoticed(r) ==
  /\ req[r].pc = "take"
  /\ Decrement(r)
  /\ IF took'[<<r, req[r].item>>] < MaxTakes THEN UNCHANGED req ELSE Answer(r, "answered")
  /\ UNCHANGED <<lines, cart, order, sales, bank, cb, others>>

\* Mutant of TakeFails: the error is swallowed and the loop goes on.
TakeFailsUnnoticed(r) ==
  /\ req[r].pc = "take"
  /\ NextLine(r)
  /\ UNCHANGED <<shelves, cart, order, sales, bank, cb, others>>

\* removeStock finds too little, or is out of rounds, which conflicts and errors
\* use up as well.  The call ends there; what it wrote and took so far stays,
\* of this line too.
TakeFails(r) ==
  /\ req[r].pc = "take"
  /\ Answer(r, "answered")
  /\ UNCHANGED <<shelves, cart, order, sales, bank, cb, others>>

\* Mutant of KeyTaken: the index is not unique.
KeyNeverTaken(r) == FALSE

\* The unique index on idempotencyKey (user and cart) counts every status.
KeyTaken(r) == \E q \in Requests : Saved(q) /\ req[q].cart = req[r].cart

Save(r) ==
  /\ req[r].pc = "items" /\ req[r].want = {}
  /\ IdBeforeValidation /\ ~KeyTaken(r)
  /\ order' = [order EXCEPT ![r] = [status |-> "paying", recent |-> TRUE, attempts |-> 1]]
  /\ Answer(r, "answered")
  /\ UNCHANGED <<shelves, cart, sales, bank, cb, others>>

\* Validation finds no orderId, or the index refuses the key.
SaveFails(r) ==
  /\ req[r].pc = "items" /\ req[r].want = {}
  /\ ~IdBeforeValidation \/ KeyTaken(r)
  /\ Answer(r, "unsaved")
  /\ UNCHANGED <<shelves, cart, order, sales, bank, cb, others>>

\* The database fails, or the process stops: the call ends where it stands.
Abandon(r) ==
  /\ req[r].pc \in {"lookup", "retry", "details", "validate", "items", "take"}
  /\ Answer(r, "answered")
  /\ UNCHANGED <<shelves, cart, order, sales, bank, cb, others>>

CreateOrder(r) ==
  \/ RefuseAddress(r) \/ FindRecent(r) \/ FindOld(r) \/ FindNone(r) \/ SaveRetry(r)
  \/ Details(r) \/ RefuseShipping(r) \/ RefuseExpired(r) \/ RefuseItems(r) \/ Accept(r)
  \/ PaymentRequest(r) \/ PaymentRefused(r)
  \/ Line(r) \/ LineThrows(r) \/ Take(r) \/ TakeUnnoticed(r) \/ TakeFails(r)
  \/ Save(r) \/ SaveFails(r) \/ Abandon(r)

-----------------------------------------------------------------------------
(* The gateway.  Its payment page is reached from the URL in the answer of  *)
(* a call that saved its order, or that found it again.                    *)

Settle(r, from, to) ==
  /\ bank[r] = from
  /\ bank' = [bank EXCEPT ![r] = to]
  /\ UNCHANGED <<shelves, cart, order, sales, req, cb, others>>

Pay(r) == Saved(r) /\ Settle(r, "open", "paid")
Decline(r) == Saved(r) /\ Settle(r, "open", "declined")
GiveBack(r) == Settle(r, "paid", "returned")

-----------------------------------------------------------------------------
(* The callback: findOrderByRefId, then by its Status query, which nobody   *)
(* vouches for.                                                            *)

\* The status a redirect comes with when the gateway sends it.
Truthful(r, status) ==
  \/ status = "OK" /\ bank[r] \in {"paid", "captured", "returned"}
  \/ status = "NOK" /\ bank[r] = "declined"

CbOpen(b, r, status) ==
  /\ cb[b].pc = "idle"
  /\ Saved(r)
  /\ cb' = [cb EXCEPT ![b] = [pc |-> IF status = "OK" THEN "verify" ELSE "cancel",
                              order |-> r, seen |-> order[r].status,
                              truthful |-> Truthful(r, status), list |-> {}]]
  /\ UNCHANGED <<shelves, cart, order, sales, bank, req, others>>

\* The customer is redirected to the page of failed orders.
CbEnd(b) == cb' = [cb EXCEPT ![b] = [NewCallback EXCEPT !.pc = "failed"]]

Capture(r) == bank' = [bank EXCEPT ![r] = IF @ = "paid" THEN "captured" ELSE @]

\* Mutant of CbVerify: code 101 is not success.
CbVerifyOnly100(b) ==
  LET r == cb[b].order
  IN /\ cb[b].pc = "verify"
     /\ Capture(r)
     /\ CbGoto(b, IF bank[r] = "paid" THEN "list" ELSE "cancel")
     /\ UNCHANGED <<shelves, cart, order, sales, req, others>>

\* checkOrder: 100 captures, 101 was captured before, any other code cancels.
CbVerify(b) ==
  LET r == cb[b].order
  IN /\ cb[b].pc = "verify"
     /\ Capture(r)
     /\ CbGoto(b, IF bank[r] \in {"paid", "captured"} THEN "list" ELSE "cancel")
     /\ UNCHANGED <<shelves, cart, order, sales, req, others>>

\* The gateway's answer is an error, or is lost after 10 seconds.
CbVerifyLost(b) ==
  /\ cb[b].pc = "verify"
  /\ Capture(cb[b].order) \/ UNCHANGED bank
  /\ CbEnd(b)
  /\ UNCHANGED <<shelves, cart, order, sales, req, others>>

CartOf(b) == req[cb[b].order].cart

\* removeCartAndItems reads the items, deletes them, then the cart.
CbList(b) ==
  /\ cb[b].pc = "list"
  /\ cb' = [cb EXCEPT ![b].pc = "delete", ![b].list = cart[CartOf(b)].items]
  /\ UNCHANGED <<shelves, cart, order, sales, bank, req, others>>

\* Mutant of CbDelete: the cart itself is left.
CbDeleteItemsOnly(b) ==
  LET k == CartOf(b)
  IN /\ cb[b].pc = "delete"
     /\ cb[b].list \subseteq cart[k].items
     /\ cart' = [cart EXCEPT ![k].items = @ \ cb[b].list]
     /\ cb' = [cb EXCEPT ![b].pc = "save", ![b].list = {}]
     /\ UNCHANGED <<shelves, order, sales, bank, req, others>>

CbDelete(b) ==
  LET k == CartOf(b)
  IN /\ cb[b].pc = "delete"
     /\ cb[b].list \subseteq cart[k].items
     /\ cart' = [cart EXCEPT ![k] = [state |-> "gone", items |-> {}]]
     /\ cb' = [cb EXCEPT ![b].pc = "save", ![b].list = {}]
     /\ UNCHANGED <<shelves, order, sales, bank, req, others>>

\* An item of the list was deleted meanwhile, even if its product was added
\* anew (NotFound), or the database fails: the callback ends, with the items
\* before it deleted and the order as it was.
CbDeleteFails(b) ==
  LET k == CartOf(b)
  IN /\ cb[b].pc = "delete"
     /\ \E before \in SUBSET (cb[b].list \intersect cart[k].items) :
          cart' = [cart EXCEPT ![k].items = @ \ before]
     /\ CbEnd(b)
     /\ UNCHANGED <<shelves, order, sales, bank, req, others>>

\* order.save() writes the status only when it changed since the order was read.
Stamp(b, status) ==
  order' = IF cb[b].seen = status THEN order
           ELSE [order EXCEPT ![cb[b].order].status = status]

\* findOneOrderDetails, after it, reads the items, which do not change any more.
CbSave(b) ==
  /\ cb[b].pc = "save"
  /\ Stamp(b, "paid")
  /\ cb' = [cb EXCEPT ![b].pc = "count", ![b].list = lines[cb[b].order]]
  /\ UNCHANGED <<shelves, cart, sales, bank, req, others>>

\* incrementSales for the next item, awaited before the one after it.
CbCount(b) ==
  /\ cb[b].pc = "count"
  /\ \E i \in cb[b].list :
       /\ sales' = [sales EXCEPT ![ProductOf[i]] = @ + 1]
       /\ cb' = [cb EXCEPT ![b].list = @ \ {i}]
  /\ UNCHANGED <<shelves, cart, order, bank, req, others>>

\* The callback ends; what it was to count, and did not, is on record in its list.
CbCounted(b, at) ==
  cb' = [cb EXCEPT ![b] = [NewCallback EXCEPT !.pc = at, !.order = cb[b].order,
                                              !.list = cb[b].list]]

\* All are counted: the customer is redirected to the page of paid orders.
CbDone(b) ==
  /\ cb[b].pc = "count" /\ cb[b].list = {}
  /\ CbCounted(b, "success")
  /\ UNCHANGED <<shelves, cart, order, sales, bank, req, others>>

\* Mutant of CbCountFails: the loop is tried again, from its first item.
CbCountRetried(b) ==
  /\ cb[b].pc = "count"
  /\ cb' = [cb EXCEPT ![b].list = lines[cb[b].order]]
  /\ UNCHANGED <<shelves, cart, order, sales, bank, req, others>>

\* An increment, or the score after it, fails: the rest is left uncounted, and
\* the customer is told that the payment failed.
CbCountFails(b) ==
  /\ cb[b].pc = "count"
  /\ CbCounted(b, "stopped")
  /\ UNCHANGED <<shelves, cart, order, sales, bank, req, others>>

CbCancel(b) ==
  /\ cb[b].pc = "cancel"
  /\ Stamp(b, "canceled")
  /\ CbEnd(b)
  /\ UNCHANGED <<shelves, cart, sales, bank, req, others>>

CbAbandon(b) ==
  /\ cb[b].pc \in {"list", "save", "cancel"}
  /\ CbEnd(b)
  /\ UNCHANGED <<shelves, cart, order, sales, bank, req, others>>

Callback(b) ==
  \/ \E r \in Requests, status \in {"OK", "NOK"} : CbOpen(b, r, status)
  \/ CbVerify(b) \/ CbVerifyLost(b)
  \/ CbList(b) \/ CbDelete(b) \/ CbDeleteFails(b) \/ CbSave(b)
  \/ CbCount(b) \/ CbDone(b) \/ CbCountFails(b)
  \/ CbCancel(b) \/ CbAbandon(b)

-----------------------------------------------------------------------------
(* The administrator, the customer at the cart, and the clock.             *)

\* updateOrderStatus: any status to any other; the same one again writes nothing.
UpdateStatus(r, s) ==
  /\ Saved(r) /\ order[r].status # s
  /\ order' = [order EXCEPT ![r].status = s]
  /\ updates < MaxUpdates /\ updates' = updates + 1
  /\ UNCHANGED <<shelves, cart, sales, bank, req, cb, visits>>

CartStep(k, to) ==
  /\ cart[k].state # "gone"
  /\ cart' = [cart EXCEPT ![k] = to]
  /\ visits < MaxVisits /\ visits' = visits + 1
  /\ UNCHANGED <<shelves, order, sales, bank, req, cb, updates>>

\* addItemToCart renews the cart before it looks at the product's stock.
AddItemToCart(k, i) ==
  CartStep(k, [state |-> "live",
               items |-> cart[k].items \union (IF stock[ProductOf[i]] >= 1 THEN {i} ELSE {})])

\* removeItemFromCart deletes a cart it empties.
RemoveItemFromCart(k, i) ==
  /\ i \in cart[k].items
  /\ CartStep(k, [state |-> IF cart[k].items = {i} THEN "gone" ELSE "live",
                  items |-> cart[k].items \ {i}])

GetCart(k) ==
  /\ cart[k].state = "past"
  /\ cart' = [cart EXCEPT ![k] = Viewed(k)]
  /\ UNCHANGED <<shelves, order, sales, bank, req, cb, others>>

\* CART_EXPIRATION_MINUTES go by without activity.
Expire(k) == cart[k].state = "live" /\ CartStep(k, [cart[k] EXCEPT !.state = "past"])

\* 15 minutes go by since lastPaymentAttemptAt.
FifteenMinutes(r) ==
  /\ order[r].recent
  /\ order' = [order EXCEPT ![r].recent = FALSE]
  /\ UNCHANGED <<shelves, cart, sales, bank, req, cb, others>>

-----------------------------------------------------------------------------
Next ==
  \/ \E r \in Requests : (\E k \in Carts : Begin(r, k)) \/ CreateOrder(r)
  \/ \E r \in Requests : Pay(r) \/ Decline(r) \/ GiveBack(r) \/ FifteenMinutes(r)
  \/ \E b \in Callbacks : Callback(b)
  \/ \E r \in Requests, s \in Statuses : UpdateStatus(r, s)
  \/ \E k \in Carts : GetCart(k) \/ Expire(k)
  \/ \E k \in Carts, i \in Items : AddItemToCart(k, i) \/ RemoveItemFromCart(k, i)

Spec == Init /\ [][Next]_vars

-----------------------------------------------------------------------------
\* Locals of a createOrder call, and of a callback.
RequestLocals ==
  [pc : {"idle", "lookup", "retry", "details", "validate", "pay", "items", "take"} \union Ended,
   cart : Carts, want : SUBSET Items, item : Items \union {NoItem}, expired : BOOLEAN,
   short : BOOLEAN, old : Requests, tries : 0..MaxAttempts]
CallbackLocals ==
  [pc : {"idle", "verify", "list", "delete", "save", "count", "cancel",
         "failed", "stopped", "success"},
   order : Requests, seen : Statuses \union {"none"}, truthful : BOOLEAN,
   list : SUBSET Items]

TypeOK ==
  /\ stock \in [Products -> Nat]
  /\ cart \in [Carts -> [state : {"live", "past", "gone"}, items : SUBSET Items]]
  /\ order \in [Requests -> [status : Statuses \union {"none"}, recent : BOOLEAN,
                            attempts : 0..MaxAttempts]]
  /\ lines \in [Requests -> SUBSET Items]
  /\ took \in [Requests \X Items -> 0..MaxTakes]
  /\ sales \in [Products -> Nat]
  /\ visits \in 0..MaxVisits /\ updates \in 0..MaxUpdates
  /\ bank \in [Requests -> BankStates]
  /\ req \in [Requests -> RequestLocals]
  /\ cb \in [Callbacks -> CallbackLocals]

\* The lines a call has taken from stock, once or oftener.
Taken(r) == {i \in Items : took[<<r, i>>] > 0}

\* An order document exists only for a checkout that has every line of it both
\* written down and taken from stock, however the checkouts compete, and
\* whatever happens to the order or the cart afterwards.
OrdersAreBacked ==
  \A r \in Requests : Saved(r) => lines[r] # {} /\ lines[r] = Taken(r)

\* Checkouts of one cart that run at once, or follow each other, never get the
\* customer to pay twice for it: of their payments at most one is made.
NeverChargedTwice ==
  \A r, q \in Requests :
    /\ r # q /\ req[r].cart = req[q].cart
    /\ bank[r] \in {"paid", "captured"}
    => bank[q] \notin {"paid", "captured"}

\* The items of its order that a callback has counted: those it read less those it
\* has still to go through, or never will.
Counted(b) ==
  IF cb[b].pc \in {"count", "stopped", "success"} THEN lines[cb[b].order] \ cb[b].list ELSE {}
CountsOf(p) ==
  {c \in Callbacks \X Items : c[2] \in Counted(c[1]) /\ ProductOf[c[2]] = p}

SalesAreCounted == \A p \in Products : sales[p] = Cardinality(CountsOf(p))

\* However redirects repeat, overlap and fail between two products, salesCount is
\* made of nothing but items of orders whose money was captured, each counted at
\* most once by a redirect, and none left out where the customer was shown success.
SalesAreConfirmed ==
  /\ SalesAreCounted
  /\ \A b \in Callbacks :
       /\ Counted(b) # {} => bank[cb[b].order] = "captured"
       /\ cb[b].pc = "success" => Counted(b) = lines[cb[b].order]

Becomes(r, status) == order[r].status # status /\ order'[r].status = status
ByAdministrator == updates' # updates

\* Nobody but the administrator makes an order paid before its money is
\* captured and its cart is gone, so that it cannot be bought from again.
PaidOnlyWhenSettled ==
  [][\A r \in Requests : Becomes(r, "paid") =>
       \/ bank[r] = "captured" /\ cart[req[r].cart].state = "gone"
       \/ ByAdministrator]_vars

\* A redirect that came with the status its payment had cancels only what was
\* declined or given back, however late or often it and others come, and whatever
\* becomes of the payment while it waits.  One with another status cancels at will.
CanceledOnlyWhenUnpaid ==
  [][\A r \in Requests : Becomes(r, "canceled") =>
       \/ bank[r] \in {"declined", "returned"}
       \/ ByAdministrator
       \/ \E b \in Callbacks :
            cb[b].pc = "cancel" /\ cb[b].order = r /\ ~cb[b].truthful]_vars

\* A retry of the checkout that read the order while it was being paid does
\* not undo what a callback made of it in the meantime.
NoWayBackToPaying ==
  [][\A r \in Requests : Saved(r) /\ Becomes(r, "paying") => ByAdministrator]_vars

\* The checkouts together keep the promise of the stock: what they take of a line
\* they take whole and from stock that covers it, and no oftener than removeStock
\* goes round, over lost answers and failed records too.
StockOfOrders == INSTANCE StockPromise
  WITH Catalog <- Products, Calls <- Requests \X Items, Quantities <- {1}, edited <- {}
KeepsStockPromise == StockOfOrders!Spec

\* The pre-save hook is there to make the orderId: a checkout that got as far
\* as saving its order fails only when another order has its cart.
AcceptedCheckoutIsStored ==
  \A r \in Requests : req[r].pc = "unsaved" =>
    \E q \in Requests \ {r} : Saved(q) /\ req[q].cart = req[r].cart

\* Stock is reduced by a payment, so an order that a failed payment cancels
\* has taken none.
FailedPaymentHoldsNoStock ==
  [][\A b \in Callbacks :
       CbCancel(b) /\ cb[b].truthful /\ Becomes(cb[b].order, "canceled")
         => Taken(cb[b].order) = {}]_vars

-----------------------------------------------------------------------------
(* The inductive invariant behind the safety properties.                   *)

\* A call has asked the gateway for nothing before its loop over the lines, and is
\* over once its order is saved.  In the loop the lines it has written are those it
\* has taken, but for the one it is at; none it still wants is taken.
CheckoutInv(r) ==
  /\ bank[r] = "none" => ~Saved(r) /\ lines[r] = {} /\ Taken(r) = {}
  /\ ~Saved(r) => bank[r] \in {"none", "open"}
  /\ Saved(r) => req[r].pc \in Ended /\ lines[r] # {} /\ lines[r] = Taken(r)
  /\ req[r].pc \in {"lookup", "retry", "details", "validate", "pay"} => bank[r] = "none"
  /\ req[r].pc = "retry" => Saved(req[r].old)
  /\ req[r].pc = "pay" => req[r].want # {}
  /\ req[r].pc \in {"items", "take"} => bank[r] = "open"
  /\ req[r].pc = "items" => /\ req[r].want # {} \/ lines[r] # {}
                            /\ lines[r] = Taken(r)
                            /\ req[r].want \intersect Taken(r) = {}
  /\ req[r].pc = "take" => LET i == req[r].item
                           IN /\ i \in req[r].want
                              /\ took[<<r, i>>] < MaxTakes
                              /\ lines[r] = Taken(r) \union {i}
                              /\ req[r].want \intersect Taken(r) \subseteq {i}

\* What a callback knows of the payment and the cart stays true while it is suspended.
CallbackInv(b) ==
  LET r == cb[b].order
  IN /\ cb[b].pc \notin {"idle", "failed"} => Saved(r)
     /\ cb[b].truthful /\ cb[b].pc = "verify" => bank[r] \in {"paid", "captured", "returned"}
     /\ cb[b].truthful /\ cb[b].pc = "cancel" => bank[r] \in {"declined", "returned"}
     /\ cb[b].pc \in {"list", "delete", "save", "count", "stopped", "success"} =>
          bank[r] = "captured"
     /\ cb[b].pc = "save" => cart[CartOf(b)].state = "gone"
     /\ cb[b].pc = "count" => cb[b].list \subseteq lines[r]
     /\ cb[b].pc = "success" => cb[b].list = {}

\* The idempotency key: one order document for a cart.
OneOrderPerCart ==
  \A r, q \in Requests : Saved(r) /\ Saved(q) /\ req[r].cart = req[q].cart => r = q

IInv ==
  /\ TypeOK
  /\ OneOrderPerCart
  /\ SalesAreCounted
  /\ \A r \in Requests : CheckoutInv(r)
  /\ \A b \in Callbacks : CallbackInv(b)
=============================================================================
