# HorseGallery backend: a TLA+ model

The backend (NestJS, Mongoose, MongoDB; `src/src`) sells jewellery and gold.
This directory holds TLA+ modules of the parts where several actors meet on the
same documents, TLC configurations that check them, and proofs for TLAPS.

How to run: `tlc -workers 2 -config MCStock.cfg MCStock.tla` (and likewise for
the other configurations), `tlapm StockProofs.tla` (and likewise `OrderProofs`,
`CartProofs`, `GoldProofs`, `AccountProofs`, `LocationsProofs`,
`AddressesProofs`, `ShopProofs`).

## 1. The system

### How it executes

One Node process. Requests interleave at every `await`; between two awaits
nothing else runs. The state is in MongoDB, where one operation on one document
is atomic and nothing spans two: the code uses no transaction. `doc.save()`
writes the paths that were changed since the document was loaded, and does not
compare anything. Hence the grain of every module here: **a step of the model is
the code between two awaits together with the database operation that ends it**,
and the locals a function carries over an await are variables of the model.

The process keeps no queue and no timer of its own for the shop; after a crash
there is nothing to recover, so a crash is a call that ends where it stands.
What it keeps in memory (the throttle's counters, the caches of settings and
price) begins empty again.

### Components, their state and their hard behaviour

| component | state | operations | what is hard, and what makes it correct |
|---|---|---|---|
| stock (`product.service.ts`) | `stock`, `version`, inventory records | `removeStock`, `addStock`, `update` | racing sales, retries with lost answers, hand edits; the lock holds, no overselling, a sale counts once |
| checkout (`order.service.ts`) | orders, order items | `createOrder`, `updateOrderStatus` | a gateway call in the middle, failure between items, double clicks, retries of old orders; an order is backed by stock, nobody pays twice |
| payment callback (`site-order.controller.ts`) | order status, sales counters | `callback` | repeated and late redirects, lost verification, failure after capture; the status follows the money |
| cart (`cart.service.ts`, `cart-cleanup.service.ts`) | carts, cart items | view, create, add, edit, remove, merge, expire, checkout | two identities, expiry seen by whoever looks first, stale reads; one cart, one line a product (a piece of jewellery: one a size), quantities within stock |
| catalogue (`product.service.ts`, `product.schema.ts`, three scripts) | price, discount, views, sales, score | create, update, view, sale, lists; scripts over all products | the discount is stored by hooks that read before they write, and recomputed in answers; scripts write what they read long before; lists are read page by page |
| images and their documents (`file-utils.ts`, categories, blog, products) | two files per image, names in documents | upload, create, update, delete | files and documents change in turn, and either may fail; no file of a replaced image is left behind |
| shop addresses (`shop/services/address.service.ts`) | addresses | create, update, delete, default, merge; the panel | at most two, one default, counted and written in separate queries; what a merge may delete |
| gold purchase and settings | purchase, cached settings | add, get, remove; get, update | lost additions, expiry, stale cache |
| gold price | cached price, request counter | fetch | cache per karat, limits checked before and counted after the request |
| one-time codes (`user.service.ts`) | code, attempts, sent count | send, confirm, verify, register | attempts counted on stale documents, two senders and three verifiers on the same fields |
| sessions (`user.service.ts`, `jwt.guard.ts`, `token-blacklist.service.ts`) | refresh token, revocations | login, refresh, logout, guard | what logout ends, and in what order |
| throttling (`ip-throttle.guard.ts`) | counters in memory | request, clean-up | window boundaries |
| provinces and cities (`location.service.ts`, two scripts) | documents copied from an external service | sync, lists, drop | two writers that match documents differently; syncs that overlap or fail |
| seed and import scripts | all collections | empty, fill, add | cut off after any step, beside requests; references that resolve |
| tickets, FAQ, announcements, SEO, shipping methods | documents | CRUD | nothing that takes two steps, or nothing stated of them |
| response cache, API keys | cache; keys | | not wired to any route |
| guards, pipes, filters, encryption, SMS | none or external | | input and output |

Interactions: the cart controller calls the cart service, which asks the product
service for stock and the cleanup service to renew the cart. Checkout reads the
cart through `getCartDetails` (which may wipe it), asks the gateway, calls
`removeStock` per item and saves the order last. The gateway redirects the
customer's browser to the callback, which verifies the payment at the gateway,
removes the cart, saves the order and increments the sales counters. A purchase
of gold asks for the settings and the price, each through a cache in the
process, and then reads and saves the purchase. The guard and the user's
operations meet on the user document and on the blacklist. Scripts meet the
application in the database only. `PROJECT.json` lists every component with its
status, and every hazard at its line.

## 2. The plan

Done, in this order:

1. `StockPromise` (abstract), `Stock`, `MCStock`, `StockProofs`.
2. `Order`, `MCOrder`, over `StockPromise`.
3. `Cart`, `MCCart`.
4. `Account`, `MCAccount`: codes, registration and sessions. The plan had two
   modules; the operations all save the same document, and what is hard is that
   they do, so it is one.
5. `Gold`, `Catalogue`, `Content`, `Addresses`, `Gate`, `Locations`, `Datasets`,
   which share neither documents nor memory with each other, and `MCShop`, which
   checks them.

6. The inductive invariants and the proofs: `OrderProofs`, `CartProofs`,
   `GoldProofs`, `AccountProofs`, `LocationsProofs`, `AddressesProofs`, and
   `ShopProofs` about `Content`, `Datasets`, `Catalogue` and `Gate`.

Of what the runs check only the liveness of `Stock` is left without a proof. No
module declares a RECURSIVE operator, and what they assume of their constants is
named. Not planned any more: modules for the response cache and for API keys
(nothing reaches that code) and for prices (plain arithmetic, with unit tests
beside it).

## 3. The modules

### StockPromise, Stock

`StockPromise` says what the code that sells relies on: a sale takes its whole
quantity in one step, only from stock that covers it, and a call takes no more
often than it may try. A product whose stock was overwritten by hand is exempt,
because the code's lock does not see the overwrite.

`Stock` is `ProductService`. `stock` and `version` are the document's fields;
`pc`, `seen` and `retries` are the locals of a `removeStock` call; `took`,
`faults`, `records` and `edits` are history. The actions follow the function:
`Begin`; `Read` or `Reject` (lines 677-696); `Swap` or `Conflict` (the
`findOneAndUpdate` that filters on the version, 699-718); `Record` (721). Every
database operation may fail: `ReadFault`, `SwapFault` and `RecordFault` go to
the catch (730-741), and a write that failed may have been applied, which is how
one call can decrement more than once. `AddStock` always fails, because `findOne`
gives a plain object that has no `save`. `Update` writes the stock and leaves the
version alone. The pause between two tries is not modelled: it only delays.
Every product has both fields (their schema defaults), so the code's `|| 0` and
`|| 1` are not needed.

### Order

`Order` is `createOrder`, the callback and `updateOrderStatus`. A request also
names the order it would make, so `order`, `lines` and `bank` are functions of
requests; `took` counts, for every request and line, how often the stock was
decremented. A line (`Items`) is a product, or a product in one size, of which
several may have the same product (`ProductOf`). A call that asked the gateway for
nothing leaves no trace and its name is used again, so that more than `|Requests|`
calls are made.

`lookup` (135) decides between `FindRecent`, `FindOld` and `FindNone`;
`SaveRetry` (183) saves the two paths it changed; `Details` is
`getCartDetails`, wiping a cart past its time; then `RefuseShipping`,
`RefuseExpired`, `RefuseItems`, `Accept`; `PaymentRequest` or `PaymentRefused`;
`Line` for each item, one unit each, and then `removeStock`, which goes round up
to `MaxTakes` times; `Save` or `SaveFails`. `LineThrows` is `calculateItemTotal`
refusing a discount above 100 (it is handed `discountPrice`, a price). `Abandon`
is a database error or a crash at any await.

`removeStock` is `Take`, one round that got through; `TakeUnnoticed`, a round
that decremented the stock but whose answer was lost or whose inventory record
failed, so that the catch goes round again, or throws after the last round; and
`TakeFails`, which throws with too little stock or no round left, whatever this
line has taken before. Every decrement is a step of `StockPromise` with the
`MaxTakes` that `Stock` is shown to implement it with; how the rounds come about
(versions, conflicts, reloading) is `Stock`'s subject and not repeated.

The callback: `CbOpen` reads the order and goes by the status in the query alone,
which may be either whatever the bank knows of the payment, since the route asks
nobody who sends it; `truthful` is history, whether it was the status that the
gateway would have sent. `CbVerify`, or `CbVerifyLost` when the answer is an
error or lost; `CbList` and `CbDelete` are `removeCartAndItems`, which fails
(`CbDeleteFails`) when an item it listed was deleted meanwhile; `CbSave` writes
the status only if it differs from the one read, as Mongoose does, and reads the
items of the order; `CbCount` is `incrementSales` for one of them, awaited before
the next; `CbDone`, or `CbCountFails` when one fails and the rest stays
uncounted; `CbCancel`.

External, from how the code uses them: the gateway. A payment is open, then paid
or declined; a paid one is captured by its first verification or given back; a
redirect may be repeated, come early or late, and come with another status than
the payment has. The customer at the cart (`AddItemToCart`, `RemoveItemFromCart`,
`GetCart`, `Expire`) and the administrator (`UpdateStatus`) are actors of their
own.

`IdBeforeValidation` names the one place where the shipped code stops every
order: `orderId` is required by the schema and made in a pre-save hook, which
Mongoose 8 runs after validating. FALSE is the shipped code, and the run
`order_never_saved` shows what follows. TRUE is the code with the id made in
time; without it nothing after the first save could ever be checked.

### Cart

`Cart` follows the calls of one customer, as a guest known by the session cookie
and as a member who sends the cookie too. `carts` and `items` are the two
collections, in the order of `createdAt`; `calls` the locals. `Find` is
`findOrCreateCart` with the check that follows (`findCart`); `CreateCart` and
`CreateItem` the two saves of `createNewCart` (`CreateItem` also
`createCartItem`); `Authorize`, `Renew`, `AddItem`, `EditItem` are
`addItemToCart` and `editCart`, which `addItemToCart` calls with a sum it
computed before (`op = "sum"`); `RemoveItem`, `Remaining`, `DropCart` are
`removeItemFromCart`; `Details`, `Wipe`, `Flag` are `getCartDetails`, which ends
every call; `MergeGuest`, `MergeNothing`, `MergeUser`, `Transfer`, `Merge` are
`mergeCarts`; `CheckOut` is the checkout or the callback deleting the cart.

Time is in whole seconds, because the end of a cart's life is decided by
`Math.floor` of seconds in one place and by comparing dates in another; at the
second `expiresAt` itself the two disagree (`LastSecond` and `Past`). The items
of a cart are deleted in one step by `Wipe`, `Merge` and `CheckOut`, where the
code deletes them one after the other; a second deleter, in the code, gets a
NotFound for an item already gone. The line of a product is found as the code
finds it (`SameLine`): by product, and for jewellery by product and size, of
which leaving the size out is one. Prices are left out, and the stock of a
product is constant: carts do not change it, so `QuantityWithinStock`
speaks of carts among themselves and not of sales beside them.
The two reads of `getCartDetails` before its decision are one step.

### Account

`Account` is `UserService` behind the controllers, with `JwtGuard` and
`TokenBlacklistService`. A call reads a user document, decides, awaits, and
saves the paths it changed: the action that reads (`SendCode`, `SendOtp`,
`VerifyOtp`, `Confirm`, `Register`, `Logout`) computes a patch and `Save`
applies it, if the document is still there. `Spent`, `Wrong` and the success are
the outcomes of entering a code: `verifyOtp` and `register` allow the same number
of wrong entries and then take the code away, `confirm` allows fewer and leaves
it. `SendOtpNew` and `Create` are `sendOtp` for an unknown number, `CheckUnique`
is `register`'s query for the national code, and `AfterSave` what follows a save:
a registration saves twice, the second time with its tokens. `Logout` reads the
user, `AddToBlacklist` and `RevokeAllUserTokens` are its two steps on the
blacklist. A code is the minute it was made in. The clock counts minutes and
waits for running calls, which take far less. Hashes are not modelled, except
where comparing them matters: `bcrypt` compares 72 bytes, which in a refresh
token end before anything that differs between two tokens of one user.
Of a number's access tokens the newest is followed.

### Gold

`SiteGoldInvestmentController` over four services. `UseCachedSettings`,
`AskSettings`, `ReadSettings`, `CreateDefault`, `FillSettings` are `getSettings`
at its awaits; `SaveSettings`, `ClearCache` are `updateSettings` (which no
controller calls at present); `UseCachedPrice`, `RequestPrice`, `PriceArrives`,
`PriceFails` are `fetchRealTimeGoldPrice`; `FindPurchase`, `RemovePurchase`,
`SaveAddition`, `SavePurchase` are `GoldPurchaseService`. A setting is a version,
a price a level; the commission is computed. A call between two awaits is alone
(`Busy`), and time passes while settings or prices are on their way.

### Catalogue

`ProductService` apart from stock and images, the schema's hooks, and the scripts
`migrate-discount-fields`, `fix-product-structure` and
`calculate-popularity-scores`. A write that names one of price and discount price
goes through `Hook`, which reads the other; a script reads all (`Find`) and writes
one after the other (`Visit`, and then `Hook` and `WriteProduct` like any update).
`fix-product-structure` writes, with the discount, the newer pair of counters from
the older pair as it read them (`FixedCounts`), and so takes back what was counted
since. `Sale` increments the counters and `CalculateScore` reads what it will
write: five times the sales, the views, and ten times the rating, with either
counter of a pair when the other is zero (`Or`); an update may lower a rating.
`StartReading`, `ReadPage`, `CountPages` are a visitor going through the pages of
the public list, the sale list, the search or the site's list; ties in the sort
key fall either way. `raced` is history: the products whose prices were last
written by a call that overlapped another at them (`dirty`). `given` is history:
what the formula of the score has given, for a product that a sale or a script is
about to store a score of, since the sale counted or the script read.

### Content

Documents with images and the files. `Upload`, `SaveMain`, `SaveResized` are
`saveImages`, `UnlinkMain` and `UnlinkResized` `deleteImages`; `Update`,
`WriteUpdate`, `Delete`, `Remove`, `Create` the services of categories, blogs
and their categories, and the deletion of products. Field names matter in one
place: a category's image is `heroImage`, and its service deletes the file also
when the body has `image`, which the schema does not know. `former` is history: the
images that a request dropped from a document in which it had read them. An image
that came into the document after the read is dropped by the write and stays on
disk.

### Addresses

`create` is `StartCreate`, `CountAddresses`, `UnsetDefaults`, `SaveNew`,
`SaveAgain`; `update`, `setDefault` and `delete` are `StartChange`,
`FindAddress`, `UnsetDefaults`, `SaveChange`, `DeleteAddress`;
`mergeGuestAddresses` is `StartMerge`, `ReadGuests`, `ReadOwn`, `MergeOne` for
each, `FindDefault`, `SaveFirst`. The panel writes the same collection with none
of these checks. Of an address the mobile number is kept, by which a merge tells
duplicates.

Two variables are history. `mixed` are the users whose addresses were written in
other ways than one call after the other: by calls of theirs, or in their browser,
that overlapped, by a merge, by the panel, by a guest on an address that has both
owners. A merge is `met` when a write changes the owner or the mobile number of an
address the merge may have read, or deletes one (`HasRead`, `Wrote`); looking for
other calls of the same user or browser when a call begins is not enough, because
a second user of the browser has addresses the merge reads and may write them
later from elsewhere.

### Gate, Locations, Datasets

`Gate` is `IpThrottleGuard`: `Arrive` is `canActivate` with `checkIpLimit`,
`Cleanup` may come at any time that a request is let through, `Restart` at any
time. The history `passed` has the times of the requests let through, key by key
and in order: more than twice the limit within a window means that a request and
the one twice the limit before it lie no further apart than that. Being a global
guard it runs before the guard that finds the user, so the counter per user has no
part in it.

`Locations` has the sync endpoints and the script `sync-locations` as one call
with a `kind`, because they differ in three places only: the provinces they go
over, what they do without an answer, and how they look for a city
(`ServiceMatches`, `ScriptMatches`). `CitiesByProvince` and `CitiesByExternalId`
are the two lists, each with its fall-back. An upsert is one step, and the unique
indexes are there.

`Datasets` has the scripts that fill collections. What the generators produce is
reduced to what it refers to, a collection's documents of one `insertMany` to one
document. The application is `CreateDocument`, `UpdateDocument` and
`DeleteDocument`, of any collection. A document it makes may refer to anything
that is or was there, or to a document still to be made: no service looks up the
ids in a body, and `createOrder` saves the items of an order before the order.
It deletes whatever refers to the document, except orders and tickets and their
parts, for which it has no such operation. Its documents are marked as its own
(`own`), and what it deleted is remembered (`gone`): `RefsResolve` claims nothing
of the references that the application itself writes.

### MCShop

The seven modules above are independent, so `MCShop` lets one of them move per
behaviour (`part`) while the others rest in an initial state. The constant
`Parts` says which; the violation runs have one. A trace shows all variables;
those of the other parts do not change. Each part begins with one of a few
*workloads*, which say how often every operation is asked for: that bounds the
behaviour and puts together the operations that meet.

## 4. What the runs check

Passing:

- `stock`: two sales, of 1 and 2 out of 3 units, with up to three tries each,
  faults at every operation, one hand edit, and a third call that is a restock
  or a sale of an unknown product. `LockHolds`: same version and no hand edit
  since the read means same stock. `NeverOversold`. `ExactlyOnceUnlessFault`:
  each error repeats a decrement or a record at most once, and without error a
  sale counts exactly once. `ConflictsAreReal`: a conflict is paid for by
  another call's decrement. `SalesAddUp`: units missing are units taken.
  `EveryCallEnds` under weak fairness of each call's steps. `KeepsPromise`:
  refinement of `StockPromise`.
- `order`: two checkouts of one cart with two lines (a ring in two sizes), two
  redirects with either status, one status change by hand, one visit to the cart;
  three units are left, so the checkouts compete, a take that nobody noticed can
  use up what another line needs, and a checkout can fail between its lines.
  `OrdersAreBacked`, `NeverChargedTwice`, `PaidOnlyWhenSettled`,
  `NoWayBackToPaying`. `SalesAreConfirmed`: the sales counters are made of items
  of captured orders only, each counted at most once by a redirect, none left out
  where the customer was shown success - across redirects that repeat, overlap
  and fail between two products (a second redirect counts them again, as the code
  has it). `CanceledOnlyWhenUnpaid`: a redirect with the status its payment had
  cancels only what was declined or given back; one with another status cancels at
  will, a paid order too, and that is all it says of those. `KeepsStockPromise`:
  refinement of `StockPromise`, one call for each request and line, with the three
  rounds of `removeStock`.
- `cart`: three calls, two at once, a ring in two sizes that can be bought twice
  and a coin, carts that live one second while two pass. `QuantityWithinStock` under
  every interleaving. `OneCartEach`, `OneLineEach`, `NoOrphans`,
  `ExpiryToldOnce` and `LiveItemsKept` **for calls that do not overlap**, with
  time and checkout anywhere in between: for overlapping calls the code does
  not keep them (two first additions make two carts; two additions of one
  line make two lines; the last item removed while another is added leaves
  an item without a cart; an expiry seen before a renewal and acted on after
  wipes a live cart).
- `account`: two numbers, two national codes, two requests at once and five in
  all. `SendsWithinLimit`: the limit holds although two operations count on one
  field in windows of different length. `WrongEntriesWithinLimit`: a code is
  compared with at most so many wrong entries, whatever operations they go to,
  **while calls on the number do not overlap** (those that do read the same
  count). `NationalCodesUnique`: shared **only by registrations that overlap**.
  `SessionsStemFromCodes`: a session is given out no longer after a code was sent
  than the code lives and its verification counts. `RegistrationStays`: no save of
  an older read takes a registration back or replaces its national code, except
  that **two registrations of one number that overlap** may: each reads the
  document without a code, and the later save replaces the code of the earlier,
  against the comment at `user.service.ts:919`. The proof showed this: with one
  code in the instance the run could not.
- `shop`, by part:
  - gold: `SettingsAtMostStale`, `PriceAtMostStale` (a cache filled by a read that
    was overtaken answers what was true less than its life ago, because it is
    stamped with the time before the read), `RequestsWithinLimit` (exceeded by
    overlapping requests only), `PurchaseAddsUp` (for purchases that no two calls
    had in hand at once; two that did lose an addition);
  - catalogue: `DiscountsAgree` (stored and answered discount agree unless the
    last writes overlapped), `ScoreFollowsSales` (a stored score is one that the
    formula gave of the product at some moment since the sale that stores it had
    counted, or the script had read: old by no more than the call, whatever sales,
    views, ratings, scripts and scores overlap it), `PagesCoverList` (with
    products added while pages are turned);
  - content: `FormerImagesGone` (main and resized file, whatever overlaps, fails
    or is cut short, for images that the request had read in the document);
  - addresses: `AddressesInOrder` (at most two, one default, for members whose
    calls did not overlap and who had no merge; a merge that no write met loses no
    number), with two users who share a browser;
  - gate: `TwiceTheLimitAtMost`;
  - locations: `CitiesStay` (both lists keep every city that was written);
  - datasets: `RefsResolve` (what the scripts made, copied or moved since the last
    emptying resolves, cut off anywhere, with the application creating, changing
    and deleting documents in between; a reference counts as resolved when the
    application deleted what it meant).

Disagreements between the code and what the repository says of it:

- `stock_oversold`: the optimisation summary says the lock prevents overselling;
  a hand edit between check and swap is not seen by it.
- `order_never_saved`: the hook that should make the order id runs too late, so
  the order is refused after the stock was taken.
- `order_canceled_stock`: the documentation reduces stock on payment; the code
  reduces it at checkout and does not give it back when the payment fails.
- `cart_merge`: the guide says the guest's items are added to the member's cart;
  they are lost.
- `gold_karat`: the price asked for gold of 24 karat, and cached, is used for a
  purchase of melted gold, which the comments say is 18 karat.
- `address_merge`: the comment says duplicates are deleted; an address that a
  member made in his browser is its own duplicate and is deleted.
- `locations_shared`: the schema says that a city's id may be repeated in
  different provinces; the service's sync then keeps one of the two cities.

Met on the way, in the models as the code has it, with no run of its own:

- a logout puts its token on the blacklist and then deletes the user's entries
  there; the token stays usable until it expires (`RevokeAllUserTokens`);
- `findAll` skips `page - 1` products where the public lists skip pages, so the
  site's pages overlap (`Skip`; `PagesCoverList` leaves the site's list out);
- a discount price of 0 is a discount of 100 % for the hooks and none for
  `fix-product-structure` (`Agrees` leaves it out); a discount that rounds to
  0 % is stored as on sale and answered as not;
- a product with images can be neither updated with images nor deleted, a body
  with `image` on a category deletes the file and keeps the name, and an update
  whose slug is taken fails with the file already gone;
- the callback believes the status in its query, so that a redirect with another
  status than its payment had cancels an order that was paid (`CbOpen`), and a
  repeated redirect counts the sales again (`CbCount`);
- a take whose answer was lost is repeated: one line may have taken its stock up
  to three times, or have taken it and thrown (`TakeUnnoticed`, `TakeFails`);
- an addition to an expired gold purchase revives it; a member cannot clear his
  purchase from another browser; `CART_EXPIRATION_MINUTES` is 1;
- a merge of addresses can exceed the limit of two; after it the member is
  refused his own address while he sends the session's cookie;
- the seed stops at its second category on a database with the application's
  indexes on slugs, after it has deleted everything; the import leaves orders,
  carts and tickets that refer to users it dropped.

### Bounds

`MaxRetries` is the code's 3. `MaxEdits` 1: one hand edit of a product is enough
to break the lock, and it exempts the product from the promise for good.
`MaxTakes` is the same 3: with three units for two lines, one line's repeated
takes leave the other nothing. `MaxAttempts` 2 in place of 5, so that the limit is
reached. `MaxVisits` 1 lets an item be taken out of the cart or added to it, or
the cart expire, once between any two steps of the checkouts. `MaxUpdates` 1.
`MaxCarts` 2: one more than the customer starts with. `MaxItems` 3, `MaxCalls` 3:
what a merge needs (an old cart, an addition as a guest, the merge), with the
third call to overlap any of them. `MaxTime` 2 with `Life` 1 shows a cart alive,
in its last second, past it and renewed. The redirects and lines of `order`, the
calls and sizes of `cart`, are symmetric. Deadlock is not checked: a bounded
number of calls ends.

`Account`: times are shortened (access token and code one tick, refresh token,
`sendOtp`'s window and the verification two, `sendCode`'s window three), and the
clock stops at five, when each has ended. `SendLimit` and `VerifyLimit` are 2 and
`ConfirmLimit` 1 in place of 3, 5 and 3, so that five calls reach and pass each.
`MaxBirths` is 1: a number's document is made once, and may be deleted with calls
running on it.

`MCShop`: two calls at once everywhere; the caches live two ticks and one, of
three; the day's limit is 1 and the day two ticks. Four products, two on a page,
of which one is added while pages are turned; prices 10, 20 and 400 and discount
prices 0, 10 and 399 make the discount 0 % after rounding, 98 %, 100 %, and too
high. Three images and two documents: one image replaces another while a second
request has read the first. Three addresses: one more than the limit. Six ticks
of the gate are more than two windows of each kind. Two provinces with two
cities each, of which they share one. Two runs of scripts and one request of the
application, anywhere among their steps, from an empty database or a full one.

### Fairness

Only `EveryCallEnds` is a liveness property. `FairSpec` adds weak fairness to
the steps of each call that has begun. The event loop runs every continuation,
and every database operation resolves or rejects (the driver has timeouts), so
no call stays at an await for ever. There is no fairness on the arrival of
calls and none on which way an operation goes. The other modules promise nothing
that must happen: their calls end the same way, and what they leave undone when
they fail is the subject of their safety properties.

## 5. What is proved

`StockProofs` proves, for any number of calls, products, quantities, edits and
retries, with `StockAssumption` (sets of the right type, `MaxRetries` positive):

- `Invariance`: `IInv` is inductive. `NeverOversold` is not by itself: `Swap`
  decrements without looking at the stock, so one must know that the stock is
  the one `Read` checked whenever the version is. That is `SnapshotInv`: the
  snapshot lies in the past of the product, covers the request, and agrees with
  the product when neither version nor edits moved. `ConflictsAreReal` needs
  the same per snapshot (the retries a call has counted are paid for by the
  version it read). `LoopInv` relates retries, faults, decrements and records
  of a call at each point of the loop; `TypeOK` needs its part that a running
  call has a try left.
- `TypeCorrect`, `LockSound`, `NoOverselling`, `ExactlyOnce`,
  `NoSpuriousConflict`: the properties of the run `stock` of those names'
  formulas.
- `SalesConserve`: `SalesAddUp`, for finitely many calls. What the calls took of a
  product is a sum over them (`SumOver`, a recursive function of the set of calls).
  Three facts are needed of it: it is defined for every set of calls (`SumDefined`),
  a decrement adds the call's quantity to it (`SumMoves`), and nothing else changes
  it. Instead of an induction each takes a smallest counterexample: a number of calls
  for which the sum is not defined (`LeastNumber`), or a set of calls of which none
  that is smaller fails (`MinimalSet`), and leaves out a call. The step itself is
  `AddUpNext`.
- `RunningDown`: `CallsRunDown`, the safety behind `EveryCallEnds`: every step of a
  call lowers a bound of the steps it has left, whatever fails, and no step of
  another raises it. `StepsBounded`: that bound is a number. So a call whose steps
  are taken can only end; the last inference, under fairness, is left to TLC.
- `Refinement`: `Spec => KeepsPromise`. A `Swap` or an applied `SwapFault` is a
  `Take`, an `Update` an `Overwrite`, everything else a stutter.

The proof has one lemma per action (`ReadInv`, `SwapInv`, ...), over lemmas on
what a decrement does (`DecrementEffect`) and on what a step of one call leaves
of another's invariant (`OthersKept`, `StepOfOneCall`).

The other proofs are laid out the same way: the invariant is in the module it is
about (TLC checks it there on the module's instance), the proof has one lemma per
action over a few lemmas on what a step of one call leaves of the others', and the
properties follow from the invariant. They hold for any number of calls at once,
and for every value of the bounds.

`OrderProofs` (`OrderAssumption`: there are requests, carts and lines, finitely
many lines and redirects, a first stock, and `MaxTakes` is positive).
`NeverChargedTwice` is not inductive: that two checkouts of one cart do not both
reach a captured payment follows from `OneOrderPerCart`, the idempotency key, with
`CheckoutInv` (before its order is saved a checkout has at most an open payment,
and in its loop it has taken each line it is done with at least once and the one
it is at less than `MaxTakes` times) and `CallbackInv` (what a callback learned of
the payment and of the cart stays true while it is suspended). `OrdersBacked`,
`ChargedOnce`; `SalesConfirmed`, which needs that the counters are the number of
pairs of a redirect and an item it has counted, and that a step adds one pair or
none; the action properties `PaidSettled`, `CanceledUnpaid` (where a redirect had
the status of its payment and is about to cancel, the payment cannot become
captured), `NeverPayingAgain`; and `Refinement`: every step of `Order` takes one
unit for one line that has taken less than `MaxTakes`, or is a stutter of
`StockPromise`.

`CartProofs` (`CartAssumption`: there are products, some of them jewellery, and a
cart lives at least a second). `WithinStock` holds under every interleaving: what
a call adds was compared with the stock of the product, which it carries along
(`CallInv`). `OneCart`, `OneLine`, `NoItemAlone`, `ToldOnce` need calls that do
not overlap, and then `AloneInv`: what the running call has read is still so,
whatever time and checkout do meanwhile. `OneLine` speaks of lines as the code
tells them apart. `LiveItems` is an action property of the same invariant.

`GoldProofs` (`GoldAssumption`: finitely many calls at once, positive amounts - the
DTO's minimum is a million - and a positive limit of the day). `SettingsFresh` and
`PriceFresh` rest on `CachesInv` and `AskingInv`: what is cached, and what a call is
about to cache, was in force when its call asked, or ended later than that.
`LimitHolds` counts: the requests over the limit are sent by distinct calls that
are under way. `SumsHold` rests on `InHandInv`: what a call alone has in hand is
the purchase as it is stored.

`AccountProofs` (`AccountAssumption`: positive limits and times, `confirm` allows no
more entries than `verify`, the window of `sendOtp` is no longer than that of
`sendCode`). A call saves a patch over a document that may have changed since it
was read, so the invariant speaks of what the document *would be* after the save
(`RegistrationAfter`, `CodeAfter`, `SendAfter`, `EntryAfter`) whatever it is now:
`SendInv` with `SendAfter` says that the counter, with the code on its way, covers
every window that is still open, `EntryInv` that the attempts cover the wrong
entries but for one on its way, `MeetInv` that two registrations which could write
the same code have met. `SendsHold`, `EntriesHold`, `CodesUnique`, `SessionsHold`,
`RegistrationHolds`.

`LocationsProofs` (`LocationAssumption`: an atlas, nothing else). `LocationInv`: as
long as no drop met a sync, every stored city hangs on the present document of its
province, what a sync read still holds when it writes, nothing is stored between
the two halves of a drop, and what was told is stored unless the service wrote an
id that two provinces share. `CitiesHold`.

`AddressesProofs` (`AddressAssumption`: an id for at least one address, `Nobody` is
no user). `AddressInv` says of a user who is not mixed that his addresses are in
order (`OwnerInv`), that his call has left a place for what it adds and no other
default (`PlaceInv`), and that the address it made is still his (`MadeInv`); of any
call, that a default it may set is on nobody else's address unless he is mixed
(`ForeignInv`); of a merge that was not met, that its guests and the numbers it
knows are as it read them (`MergeInv`); and that two calls which meet have mixed
users (`PairInv`). `AddressesHold`. The first attempt failed for a good reason: a
merge was then said to run alone when no other call of its user or browser ran
with it, and with a second user in the browser TLC found a number lost. `met` now
follows the writes.

`ShopProofs` has five parts, over four modules.

- `ContentInvariance`, `ImagesHold` (`ContentAssumption`: the two values that stand
  for no image are none, documents to start with are of their type). `ContentInv`:
  a request that will drop images has deleted the files of those it read but for
  the ones it still has to (`EntryInv`), and an upload has names that nobody has
  been told and no other upload has (`UploadInv`), so that no file comes back. The
  first attempt failed for a good reason: with a third update of one category, that
  sets the image to null between the read and the write of another, a fourth
  request can store an image which that write drops unread; `former` used to count
  it.
- `DatasetInvariance`, `DatasetsHold` (`DatasetAssumption`: bounds are numbers).
  Of the documents that scripts made since the last emptying, `RefsResolve` follows
  from the order of the lists: a collection is filled after those it refers to, and
  what was filled is there or the application deleted it (`FillInv`). That the
  lists of both scripts are in this order is proved of the lists as they are in the
  code (`Ordered`), and kept whenever their head is taken off. A script that adds
  may be overtaken between its read and its writes: what it read, and what its
  copies refer to, is still known (`AddInv`). While collections are emptied no
  document counts as made since (`EmptyInv`).
- `CatalogueInvariance`, `DiscountsHold` (`CatalogueAssumption`: prices are
  positive, products to start with are of their type). `DiscountsAgree` is not
  inductive, because a call writes what somebody read before: `Sound` says of a
  running call that what its script has read, and what it is about to write, fits
  the product as it is *now*, unless the call is marked as overlapped there, and
  `Apart` that two calls at the same field of a product are both marked. A marked
  product becomes `raced` when it is written and is left out until a write that
  met nobody. `PercentRounds` says what the division behind the discount computes,
  and `DiscountsInRange` that what the answers show, and with these exceptions
  what is stored, is a percentage, as the schema's comment has it.
- `ScoreInvariance`, `ScoresHold`. `ScoreInv` says of a sale whose score is not yet
  computed that the formula's value of the product as it is *now* has been noted, of
  a script that the value of what it has read has, and of either that the score it
  is about to store has; so a step that stores a score stores one of those. Nothing
  is exempt, however calls overlap.
- `PagesInvariance`, `PagesHold` (`ListAssumption` besides: a collection is finite,
  its documents have a date). `PagesCoverList` is not inductive, since nothing in it
  says which products are left for the later pages. `PageInv` does: a product that
  was on the list when the reading began, and that has not been seen, is still on
  it and has at least as many products before it as the pages turned so far hold
  (`UnseenInv`). A query without ties ranks a product by how many come before it
  (`RankingCounts`: the ranks are an injection into 1..n, so that all are taken).
  Products that are added, and writes, only add to those before it, unless the
  reader saw prices or the list move. On the last page there are as many before it
  as the list has products, itself included, so there is none.
- `GateInvariance`, `GateHolds` (`GateAssumption`: limits and windows are positive).
  `WindowInv`: the requests that a key's record counts are the last ones let through,
  all of them since its window opened; the others came before, and those that are
  the limit further back came a window's length before. Without a record, or when
  it has lapsed, the same holds of now in place of the opening, so that a clean-up
  changes nothing.

Model-checked only: `EveryCallEnds`, which is liveness under fairness and out of
the prover's reach; `CallsRunDown` and `StepsBounded` are what can be proved of it.
The seven violation runs are counterexamples and have no theorem.

## 6. Not modelled

- Tickets: a message and then the status, each a single write. Of two answers at
  once either status may remain, and nothing in the repository says which.
- Response cache and API keys: `CacheInterceptor` is not registered and
  `ApiKeyGuard` guards no route.
- Shipping methods, FAQ, announcements, SEO, old gold prices: one document and
  one step per operation.
- Price calculation, encryption, sanitising, pipes, validators: functions of
  their input (the price has unit tests). Guards other than `JwtGuard`
  and `IpThrottleGuard` decide on one request without a state.
- `product-migration.service.ts` is written for documents of an earlier schema;
  the models begin with documents of the present one. It is not idempotent (it
  resets views and sales and renames the discount), so it must not be run again.
- Scripts that only print, or that rewrite one field which nothing modelled reads
  (`add-material-weight`, `update-blog-content`, `set-low-commission` and the
  like).
- Endpoints for development mode (`getVerificationCode`, `resetRateLimit`), and
  what only reads: the remaining time of a code, the dashboard, listings, served
  files.
- In `Order`: quantities above one a line (the take is of the line's quantity, as
  in `Stock`), the score after a sale (`Catalogue` has it), and the deletion of a
  product between checkout and callback. In `Datasets`: whether the references
  that the application writes resolve, which the code does not see to.
- Within the modelled parts: prices, sizes and texts where no property tells them
  apart, the content of addresses but for the mobile number, the gateway's mock
  and its test merchant, and the time between the drop of a collection and the
  return of its indexes.
