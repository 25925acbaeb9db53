-------------------------------- MODULE Cart --------------------------------
(***************************************************************************)
(* The cart of one customer, as a guest (known by the session cookie) and  *)
(* as a member (logged in): CartService with CartCleanupService, called by *)
(* CartController.  The cookie outlives the login, so a member's calls     *)
(* carry both.  Calls of several tabs interleave at their database         *)
(* operations; time passes in between, and checkout may delete the cart.   *)
(*                                                                         *)
(* Time is counted in whole seconds, what the code computes with at the    *)
(* end of a cart's life: at expiresAt itself remainingSeconds is 0 while   *)
(* expiresAt < now does not hold yet.                                      *)
(***************************************************************************)
EXTENDS Integers, FiniteSets

CONSTANTS
  Calls,      \* requests that may be running at once
  Products,
  Jewellery,  \* the products of productType 'jewelry', the default; the others are coins, bars
  Sizes,      \* what a body gives as size, to leave it out being one of them
  NoSize,     \* of what is no item and no addition
  Stock,      \* units of each product; carts do not change it
  Life,       \* CART_EXPIRATION_MINUTES, in seconds
  MaxTime,    \* bound: the last second
  MaxCarts,   \* bound: carts ever made
  MaxItems,   \* bound: cart items ever made
  MaxCalls    \* bound: calls ever made

ASSUME CartAssumption ==
  /\ Products # {} /\ Jewellery \subseteq Products /\ NoSize \notin Sizes
  /\ Stock \in [Products -> Nat]
  /\ Life \in Nat \ {0}
  /\ MaxTime \in Nat /\ MaxCarts \in Nat \ {0} /\ MaxItems \in Nat /\ MaxCalls \in Nat

CartIds == 1..MaxCarts   \* in the order of createdAt
ItemIds == 1..MaxItems   \* likewise

VARIABLES
  now,
  carts,      \* Cart documents
  items,      \* CartItem documents
  calls,      \* locals of the running calls
  started,    \* history: calls begun, for the bound
  overlapped, \* history: some call ran while another was running
  told        \* history: expiredFirstTime answers per cart since its renewal

vars == <<now, carts, items, calls, started, overlapped, told>>
history == <<started, overlapped>>
outside == <<now, history>>

NoCart == [state |-> "none", user |-> FALSE, session |-> FALSE,
           expires |-> 0, notified |-> FALSE]
AnyProduct == CHOOSE p \in Products : TRUE

NoItem == [state |-> "none", cart |-> 0, product |-> AnyProduct, size |-> NoSize, qty |-> 0]
NoCall == [pc |-> "idle", op |-> "view", member |-> FALSE, cart |-> 0, item |-> 0,
           product |-> AnyProduct, size |-> NoSize, qty |-> 0, mine |-> 0, first |-> FALSE]

GoneCart == [NoCart EXCEPT !.state = "gone"]
GoneItem == [NoItem EXCEPT !.state = "gone"]

\* The customer is new, or has a cart made in another browser: no cookie of this
\* one is on it.
Init ==
  /\ now = 0
  /\ \E old \in BOOLEAN, p \in Products, s \in Sizes :
       /\ old => Stock[p] > 0
       /\ carts = [k \in CartIds |-> IF old /\ k = 1
                    THEN [NoCart EXCEPT !.state = "open", !.user = TRUE, !.expires = Life]
                    ELSE NoCart]
       /\ items = [i \in ItemIds |-> IF old /\ i = 1
                    THEN [state |-> "in", cart |-> 1, product |-> p, size |-> s, qty |-> 1]
                    ELSE NoItem]
  /\ calls = [c \in Calls |-> NoCall]
  /\ started = 0 /\ overlapped = FALSE
  /\ told = [k \in CartIds |-> 0]

-----------------------------------------------------------------------------
Open(k) == k \in CartIds /\ carts[k].state = "open"
OpenCarts == {k \in CartIds : Open(k)}
InCart(k) == {i \in ItemIds : items[i].state = "in" /\ items[i].cart = k}
Held(i) == i \in ItemIds /\ items[i].state = "in"

\* findCart: a call with a user needs the cart of the user, whatever the cookie.
MayUse(c, k) == Open(k) /\ (IF calls[c].member THEN carts[k].user ELSE carts[k].session)

Newest(S) == IF S = {} THEN 0 ELSE CHOOSE k \in S : \A l \in S : l <= k
OfUser == Newest({k \in CartIds : Open(k) /\ carts[k].user})
OfSession == Newest({k \in CartIds : Open(k) /\ carts[k].session})

\* Mutant of FindOrCreate: a member's guest cart is not looked for.
FindOrCreateMember(c) == IF calls[c].member THEN OfUser ELSE OfSession

\* findOrCreateCart: the user's newest cart, else the session's, else none.
FindOrCreate(c) == IF calls[c].member /\ OfUser # 0 THEN OfUser ELSE OfSession

Goto(c, at) == calls' = [calls EXCEPT ![c].pc = at]
End(c) == calls' = [calls EXCEPT ![c] = NoCall]

\* The answer of getCartDetails; the one editCart got for addItemToCart is
\* dropped, and addItemToCart asks again.
Answer(c) ==
  IF calls[c].op = "sum" THEN calls' = [calls EXCEPT ![c].op = "add", ![c].pc = "details"]
  ELSE End(c)

Fresh(S) == CHOOSE k \in S : \A l \in S : k <= l

-----------------------------------------------------------------------------
(* A request arrives, of the customer logged in or not, for the cart k and  *)
(* the item i as some view of them showed, or for whatever cart there is.   *)

Begin(c, op, m, k, i, p, s, q) ==
  /\ calls[c].pc = "idle" /\ started < MaxCalls
  /\ calls' = [calls EXCEPT ![c] =
       [NoCall EXCEPT !.pc = IF op = "merge" THEN "guest" ELSE
                             IF k = 0 THEN "find" ELSE
                             IF op = "view" THEN "details" ELSE "auth",
                      !.op = op, !.member = m, !.cart = k, !.item = i,
                      !.product = p, !.size = s, !.qty = q]]
  /\ started' = started + 1
  /\ overlapped' = (overlapped \/ \E d \in Calls : calls[d].pc # "idle")
  /\ UNCHANGED <<now, carts, items, told>>

\* getCart and createCart: a cart of the session that is not the user's yet is
\* found, and then refused by findCart.
Find(c) ==
  LET k == FindOrCreate(c)
  IN /\ calls[c].pc = "find"
     /\ CASE k = 0 /\ calls[c].op = "view" -> End(c)
          [] k = 0 /\ calls[c].op = "add" -> Goto(c, "create")
          [] k # 0 /\ ~MayUse(c, k) -> End(c)
          [] OTHER -> calls' = [calls EXCEPT ![c].cart = k, ![c].pc =
                                  IF calls[c].op = "view" THEN "details" ELSE "renew"]
     /\ UNCHANGED <<outside, carts, items, told>>

\* The member's registration is incomplete, or the product is not available.
Refuse(c) ==
  /\ calls[c].pc \in {"find", "create", "auth", "items"} /\ calls[c].op = "add"
  /\ End(c)
  /\ UNCHANGED <<outside, carts, items, told>>

\* createNewCart saves the cart, with the user and the cookie the call carries ...
CreateCart(c) ==
  LET k == Fresh({l \in CartIds : carts[l].state = "none"})
  IN /\ calls[c].pc = "create"
     /\ Stock[calls[c].product] >= calls[c].qty
     /\ \E l \in CartIds : carts[l].state = "none"
     /\ carts' = [carts EXCEPT ![k] =
          [state |-> "open", user |-> calls[c].member, session |-> TRUE,
           expires |-> now + Life, notified |-> FALSE]]
     /\ calls' = [calls EXCEPT ![c].cart = k, ![c].pc = "createItem"]
     /\ UNCHANGED <<outside, items, told>>

\* ... and then its item; createCartItem does the same for a cart there was.
CreateItem(c) ==
  /\ calls[c].pc = "createItem"
  /\ \E j \in ItemIds : items[j].state = "none"
  /\ items' = [items EXCEPT ![Fresh({j \in ItemIds : items[j].state = "none"})] =
       [state |-> "in", cart |-> calls[c].cart, product |-> calls[c].product,
        size |-> calls[c].size, qty |-> calls[c].qty]]
  /\ Goto(c, "details")
  /\ UNCHANGED <<outside, carts, told>>

\* findCart at the head of addItemToCart, editCart and removeItemFromCart.
Authorize(c) ==
  /\ calls[c].pc = "auth"
  /\ IF MayUse(c, calls[c].cart) THEN Goto(c, "renew") ELSE End(c)
  /\ UNCHANGED <<outside, carts, items, told>>

\* Mutant of Renew: the time is renewed, the notice of the last expiry stays.
RenewTimeOnly(c) ==
  LET k == calls[c].cart
  IN /\ calls[c].pc = "renew"
     /\ IF Open(k)
        THEN /\ carts' = [carts EXCEPT ![k].expires = now + Life]
             /\ told' = [told EXCEPT ![k] = 0]
        ELSE UNCHANGED <<carts, told>>
     /\ Goto(c, IF calls[c].op = "add" THEN "items" ELSE "item")
     /\ UNCHANGED <<outside, items>>

\* updateCartActivity; its errors are swallowed.
Renew(c) ==
  LET k == calls[c].cart
  IN /\ calls[c].pc = "renew"
     /\ IF Open(k)
        THEN /\ carts' = [carts EXCEPT ![k].expires = now + Life, ![k].notified = FALSE]
             /\ told' = [told EXCEPT ![k] = 0]
        ELSE UNCHANGED <<carts, told>>
     /\ Goto(c, IF calls[c].op = "add" THEN "items" ELSE "item")
     /\ UNCHANGED <<outside, items>>

\* What makes two items, or an item and an addition, one line: the product, and
\* of jewellery the size too.
SameLine(x, y) == x.product = y.product /\ (x.product \in Jewellery => x.size = y.size)

Same(c) == Newest({i \in InCart(calls[c].cart) : SameLine(items[i], calls[c])})

\* Mutant of AddItem: the item already there is not looked for.
AddItemAgain(c) ==
  /\ calls[c].pc = "items"
  /\ IF Stock[calls[c].product] < calls[c].qty THEN End(c) ELSE Goto(c, "createItem")
  /\ UNCHANGED <<outside, carts, items, told>>

\* addItemToCart, the cart renewed: a line already in the cart becomes an edit
\* of that item to the sum, from the quantity read here.
AddItem(c) ==
  LET sum == calls[c].qty + items[Same(c)].qty
  IN /\ calls[c].pc = "items"
     /\ IF Stock[calls[c].product] < calls[c].qty
        THEN End(c)
        ELSE IF Same(c) = 0
        THEN Goto(c, "createItem")
        ELSE IF Stock[calls[c].product] < sum
        THEN End(c)
        ELSE calls' = [calls EXCEPT ![c].op = "sum", ![c].pc = "auth",
                                    ![c].item = Same(c), ![c].qty = sum]
     /\ UNCHANGED <<outside, carts, items, told>>

\* Mutant of EditItem: editCart trusts the quantity it is given.
EditItemUnchecked(c) ==
  LET i == calls[c].item
  IN /\ calls[c].pc = "item" /\ calls[c].op \in {"edit", "sum"}
     /\ IF Held(i)
        THEN items' = [items EXCEPT ![i].qty = calls[c].qty] /\ Goto(c, "details")
        ELSE UNCHANGED items /\ End(c)
     /\ UNCHANGED <<outside, carts, told>>

\* editCart, the cart renewed: the item exists and the stock covers it.  The
\* branch for a quantity of zero or less is dead: EditCartItemDto refuses those.
EditItem(c) ==
  LET i == calls[c].item
  IN /\ calls[c].pc = "item" /\ calls[c].op \in {"edit", "sum"}
     /\ IF Held(i) /\ Stock[items[i].product] >= calls[c].qty
        THEN items' = [items EXCEPT ![i].qty = calls[c].qty] /\ Goto(c, "details")
        ELSE UNCHANGED items /\ End(c)
     /\ UNCHANGED <<outside, carts, told>>

\* removeItemFromCart, the cart renewed.
RemoveItem(c) ==
  LET i == calls[c].item
  IN /\ calls[c].pc = "item" /\ calls[c].op = "remove"
     /\ IF Held(i)
        THEN items' = [items EXCEPT ![i] = GoneItem] /\ Goto(c, "remaining")
        ELSE UNCHANGED items /\ End(c)
     /\ UNCHANGED <<outside, carts, told>>

Remaining(c) ==
  /\ calls[c].pc = "remaining"
  /\ Goto(c, IF InCart(calls[c].cart) = {} THEN "drop" ELSE "details")
  /\ UNCHANGED <<outside, carts, items, told>>

\* deleteCart of a cart that was found empty; it may no longer be.
DropCart(c) ==
  LET k == calls[c].cart
  IN /\ calls[c].pc = "drop"
     /\ carts' = IF MayUse(c, k) THEN [carts EXCEPT ![k] = GoneCart] ELSE carts
     /\ End(c)
     /\ UNCHANGED <<outside, items, told>>

-----------------------------------------------------------------------------
(* getCartDetails, the end of every call.                                  *)

Past(k) == carts[k].expires < now

\* Mutant of LastSecond: the remaining time is rounded the other way.
LastSecondEarly(k) == carts[k].expires = now + 1 /\ ~carts[k].notified

LastSecond(k) == carts[k].expires = now /\ ~carts[k].notified

\* The cart as it is read here decides on all that follows.
Details(c) ==
  LET k == calls[c].cart
  IN /\ calls[c].pc = "details"
     /\ CASE ~MayUse(c, k) -> End(c)
          [] MayUse(c, k) /\ (Past(k) \/ LastSecond(k)) ->
               calls' = [calls EXCEPT ![c].pc = "wipe", ![c].first = ~carts[k].notified]
          [] OTHER -> Answer(c)
     /\ UNCHANGED <<outside, carts, items, told>>

Without(k) == [i \in ItemIds |-> IF i \in InCart(k) THEN GoneItem ELSE items[i]]

\* The items the cart has now are deleted.
Wipe(c) ==
  /\ calls[c].pc = "wipe"
  /\ items' = Without(calls[c].cart)
  /\ IF calls[c].first THEN Goto(c, "flag") ELSE Answer(c)
  /\ UNCHANGED <<outside, carts, told>>

\* expiredNotifiedAt is saved on the cart, renewed or not; a cart that is gone
\* fails the save.
Flag(c) ==
  LET k == calls[c].cart
  IN /\ calls[c].pc = "flag"
     /\ IF Open(k)
        THEN /\ carts' = [carts EXCEPT ![k].notified = TRUE]
             /\ told' = [told EXCEPT ![k] = @ + 1]
             /\ Answer(c)
        ELSE UNCHANGED <<carts, told>> /\ End(c)
     /\ UNCHANGED <<outside, items>>

-----------------------------------------------------------------------------
(* mergeCarts, after the login.                                            *)

\* Mutant of MergeGuest: no guest cart goes unnoticed.
MergeGuestUnchecked(c) ==
  /\ calls[c].pc = "guest"
  /\ calls' = [calls EXCEPT ![c].cart = OfSession, ![c].pc = "user"]
  /\ UNCHANGED <<outside, carts, items, told>>

MergeGuest(c) ==
  /\ calls[c].pc = "guest"
  /\ calls' = [calls EXCEPT ![c].cart = OfSession,
                            ![c].pc = IF OfSession = 0 THEN "mine" ELSE "user"]
  /\ UNCHANGED <<outside, carts, items, told>>

\* No guest cart: the answer is the member's own.
MergeNothing(c) ==
  /\ calls[c].pc = "mine"
  /\ IF OfUser = 0 THEN End(c)
     ELSE calls' = [calls EXCEPT ![c].cart = OfUser, ![c].pc = "details"]
  /\ UNCHANGED <<outside, carts, items, told>>

MergeUser(c) ==
  /\ calls[c].pc = "user"
  /\ calls' = [calls EXCEPT ![c].mine = OfUser,
                            ![c].pc = IF OfUser = 0 THEN "transfer" ELSE "merge"]
  /\ UNCHANGED <<outside, carts, items, told>>

\* The guest cart becomes the member's.
Transfer(c) ==
  LET k == calls[c].cart
  IN /\ calls[c].pc = "transfer"
     /\ IF Open(k)
        THEN /\ carts' = [carts EXCEPT ![k].user = TRUE, ![k].session = FALSE]
             /\ Goto(c, "details")
        ELSE UNCHANGED carts /\ End(c)
     /\ UNCHANGED <<outside, items, told>>

\* Mutant of Merge: the guest cart is deleted and its items stay.
MergeCartOnly(c) ==
  LET k == calls[c].cart
  IN /\ calls[c].pc = "merge"
     /\ carts' = IF Open(k) THEN [carts EXCEPT ![k] = GoneCart] ELSE carts
     /\ calls' = [calls EXCEPT ![c].cart = calls[c].mine, ![c].pc = "details"]
     /\ UNCHANGED <<outside, items, told>>

\* Both exist.  Every item is handed to addItemToCart without user or session,
\* findCart throws for want of both, the error is swallowed; then the guest cart
\* is deleted with its items.
Merge(c) ==
  LET k == calls[c].cart
  IN /\ calls[c].pc = "merge"
     /\ items' = Without(k)
     /\ carts' = IF Open(k) THEN [carts EXCEPT ![k] = GoneCart] ELSE carts
     /\ calls' = [calls EXCEPT ![c].cart = calls[c].mine, ![c].pc = "details"]
     /\ UNCHANGED <<outside, told>>

-----------------------------------------------------------------------------
(* removeCartAndItems, called by OrderService.createOrder on a cart it saw *)
(* expired, or by the payment callback on one that was paid for.           *)

CheckOut(k) ==
  /\ Open(k) /\ carts[k].user
  /\ items' = Without(k)
  /\ carts' = [carts EXCEPT ![k] = GoneCart]
  /\ overlapped' = (overlapped \/ \E c \in Calls : calls[c].pc # "idle")
  /\ UNCHANGED <<now, calls, started, told>>

Tick ==
  /\ now < MaxTime /\ now' = now + 1
  /\ UNCHANGED <<carts, items, calls, history, told>>

-----------------------------------------------------------------------------
Step(c) ==
  \/ Find(c) \/ Refuse(c) \/ CreateCart(c) \/ CreateItem(c)
  \/ Authorize(c) \/ Renew(c) \/ AddItem(c) \/ EditItem(c)
  \/ RemoveItem(c) \/ Remaining(c) \/ DropCart(c)
  \/ Details(c) \/ Wipe(c) \/ Flag(c)
  \/ MergeGuest(c) \/ MergeNothing(c) \/ MergeUser(c) \/ Transfer(c) \/ Merge(c)

Next ==
  \/ \E c \in Calls, m \in BOOLEAN :
       \/ \E k \in CartIds \cup {0} :
            /\ k # 0 => Open(k)
            /\ \/ Begin(c, "view", m, k, 0, AnyProduct, NoSize, 0)
               \/ \E p \in Products, s \in Sizes : Begin(c, "add", m, k, 0, p, s, 1)
       \/ \E i \in ItemIds :
            /\ Held(i)
            /\ \/ \E q \in 1..2 : Begin(c, "edit", m, items[i].cart, i, AnyProduct, NoSize, q)
               \/ Begin(c, "remove", m, items[i].cart, i, AnyProduct, NoSize, 0)
  \/ \E c \in Calls : Begin(c, "merge", TRUE, 0, 0, AnyProduct, NoSize, 0)
  \/ \E c \in Calls : Step(c)
  \/ \E k \in CartIds : CheckOut(k)
  \/ Tick

Spec == Init /\ [][Next]_vars

-----------------------------------------------------------------------------
CartRecords ==
  [state : {"none", "open", "gone"}, user : BOOLEAN, session : BOOLEAN,
   expires : Nat, notified : BOOLEAN]

ItemRecords ==
  [state : {"none", "in", "gone"}, cart : 0..MaxCarts, product : Products,
   size : Sizes \cup {NoSize}, qty : Nat]

PCs ==
  {"idle", "find", "create", "createItem", "auth", "renew", "items", "item", "remaining",
   "drop", "details", "wipe", "flag", "guest", "mine", "user", "transfer", "merge"}

CallLocals ==
  [pc : PCs, op : {"view", "add", "sum", "edit", "remove", "merge"},
   member : BOOLEAN, cart : 0..MaxCarts, item : 0..MaxItems, product : Products,
   size : Sizes \cup {NoSize}, qty : Nat, mine : 0..MaxCarts, first : BOOLEAN]

\* Types, and a call that is past looking for its cart has one.
TypeOK ==
  /\ now \in 0..MaxTime
  /\ carts \in [CartIds -> CartRecords]
  /\ items \in [ItemIds -> ItemRecords]
  /\ calls \in [Calls -> CallLocals]
  /\ \A c \in Calls :
       /\ calls[c].pc \notin {"idle", "find", "create", "guest", "mine"} => calls[c].cart # 0
       /\ calls[c].pc = "merge" => calls[c].mine # 0
  /\ started \in 0..MaxCalls /\ overlapped \in BOOLEAN
  /\ told \in [CartIds -> Nat]

\* No line of a cart asks for more than there is of its product, however many
\* additions and edits of it are under way.
QuantityWithinStock ==
  \A i \in ItemIds : Held(i) => items[i].qty \in 1..Stock[items[i].product]

\* As long as the customer's calls do not overlap, there is one cart to find:
\* logging in and out, merging and expiring never leave a second one behind for
\* the same user or the same cookie.
OneCartEach ==
  ~overlapped => \A k, l \in CartIds : Open(k) /\ Open(l) /\ k # l =>
    ~(carts[k].user /\ carts[l].user) /\ ~(carts[k].session /\ carts[l].session)

\* ... what is added again becomes more of the line it is on already: a coin or a
\* bar is one line of the cart, a piece of jewellery one line for each size,
OneLineEach ==
  ~overlapped => \A i, j \in ItemIds : Held(i) /\ Held(j) /\ i # j =>
    items[i].cart # items[j].cart \/ ~SameLine(items[i], items[j])

\* ... no item outlives its cart,
NoOrphans ==
  ~overlapped => \A i \in ItemIds : Held(i) => Open(items[i].cart)

\* ... and a cart's expiry is told once, until the cart is renewed.
ExpiryToldOnce ==
  ~overlapped => \A k \in CartIds : Open(k) =>
    told[k] = IF carts[k].notified THEN 1 ELSE 0

\* ... Items the customer did not remove go only with their cart, or when its
\* time is up: not a second before.
LiveItemsKept ==
  [][~overlapped' => \A i \in ItemIds : Held(i) /\ ~Held(i)' =>
       \/ \E c \in Calls : calls[c].op = "remove" /\ calls[c].item = i
       \/ items[i].cart \notin OpenCarts'
       \/ carts[items[i].cart].expires <= now]_vars

\* A merge moves the items of the guest cart into the member's cart.
MergedItemsArrive ==
  [][\A c \in Calls : Merge(c) =>
       {items[i].product : i \in InCart(calls[c].cart)}
         \subseteq {items'[i].product : i \in InCart(calls[c].mine)'}]_vars

-----------------------------------------------------------------------------
(* The inductive invariant.                                                *)

\* What a running call has checked already, whoever else is running: only an
\* addition makes carts and items, and the stock covers what it adds.
CallInv(c) ==
  /\ calls[c].op \in {"add", "sum", "edit"} => calls[c].qty >= 1
  /\ calls[c].pc = "find" => calls[c].op \in {"view", "add"}
  /\ calls[c].pc \in {"create", "items"} => calls[c].op = "add"
  /\ calls[c].pc = "createItem" => calls[c].qty \in 1..Stock[calls[c].product]

\* What it read and still relies on, true as long as it ran alone.
AloneInv(c) ==
  LET k == calls[c].cart
      at == calls[c].pc
  IN /\ at \in {"renew", "items", "item", "createItem", "wipe", "flag"} => Open(k)
     /\ at = "create" => \A l \in CartIds : Open(l) =>
          ~carts[l].session /\ ~(calls[c].member /\ carts[l].user)
     /\ at = "createItem" => \A i \in InCart(k) : ~SameLine(items[i], calls[c])
     /\ at = "drop" => InCart(k) = {}
     /\ at = "transfer" => \A l \in CartIds : Open(l) => ~carts[l].user
     /\ at = "wipe" => carts[k].expires <= now
     /\ at = "wipe" /\ calls[c].first => ~carts[k].notified
     /\ at = "flag" => ~carts[k].notified

\* A cart not made yet has told nothing; an item that is there is in some cart.
UnmadeCarts ==
  /\ \A k \in CartIds : carts[k].state = "none" => told[k] = 0
  /\ \A i \in ItemIds : Held(i) => items[i].cart # 0

\* What relates the documents, apart from the calls.
DocumentsInv ==
  /\ QuantityWithinStock /\ UnmadeCarts
  /\ OneCartEach /\ OneLineEach /\ NoOrphans /\ ExpiryToldOnce

AtMostOneRuns ==
  \A c, d \in Calls : c # d => calls[c].pc = "idle" \/ calls[d].pc = "idle"

IInv ==
  /\ TypeOK /\ DocumentsInv
  /\ \A c \in Calls : CallInv(c)
  /\ ~overlapped => AtMostOneRuns /\ \A c \in Calls : AloneInv(c)
=============================================================================
