------------------------------ MODULE Catalogue ------------------------------
(***************************************************************************)
(* Products as they are priced, sold and listed: ProductService without    *)
(* the stock (that is module Stock) and the images (module Content), the   *)
(* hooks of the product schema, and the scripts that go over all products  *)
(* and rewrite their discounts or scores (migrate-discount-fields,         *)
(* fix-product-structure, calculate-popularity-scores).                    *)
(*                                                                         *)
(* A write with a price or a discount passes through a hook, which reads   *)
(* what the write leaves out and adds the discount that follows; a script  *)
(* reads all products first and then writes them one by one.               *)
(***************************************************************************)
EXTENDS Integers, FiniteSets

CONSTANTS
  Products,
  Prices,
  Cuts,         \* discount prices
  NoCut,        \* no discount price
  Ratings,
  Writers,      \* requests and scripts that may be running at once
  Limit,        \* products on a page
  Starts        \* products to start with and how often each operation is asked for

Fields == {"shown", "price", "cut", "discount", "onSale", "sales", "salesCount", "views", "viewsCount",
           "rating", "score", "at"}

\* a || b
Or(a, b) == IF a # 0 THEN a ELSE b

\* The formula of the popularity score, in the service and in its script.
Score(d) == 5 * Or(d.salesCount, d.sales) + Or(d.viewsCount, d.views) + 10 * d.rating

IsProduct(d) ==
  /\ DOMAIN d = Fields
  /\ d.price \in Nat \ {0} /\ d.cut \in Cuts \cup {NoCut}
  /\ d.sales \in Nat /\ d.salesCount \in Nat /\ d.views \in Nat /\ d.viewsCount \in Nat
  /\ d.rating \in Nat /\ d.score \in Nat

ASSUME CatalogueAssumption ==
  /\ Prices \subseteq Nat \ {0} /\ Cuts \subseteq Nat /\ NoCut \notin Cuts /\ Ratings \subseteq Nat
  /\ Limit \in Nat \ {0}
  /\ \A s \in Starts : /\ s.products = [p \in Products |-> s.products[p]]
                       /\ \A p \in Products : IsProduct(s.products[p])

\* What the lists need besides: a collection is finite, and its products have a date.
ASSUME ListAssumption ==
  /\ IsFiniteSet(Products)
  /\ \A s \in Starts : \A p \in Products : s.products[p].at \in Nat

VARIABLES
  products,
  writers,     \* locals of the running writers
  reader,      \* a visitor who goes through the pages of a list
  budget,      \* operations still to be asked for, for the bound
  raced,       \* history: products whose prices a call wrote last that overlapped another
  given        \* history: what the formula of the score gave while a call was to store it

catalogueVars == <<products, writers, reader, budget, raced, given>>

NoWriter == [pc |-> "idle"]
NoReader == [pc |-> "idle", kind |-> "", sort |-> "", page |-> 0, base |-> {}, seen |-> {},
             moved |-> FALSE]

Absent == [shown |-> "absent", price |-> 1, cut |-> NoCut, discount |-> 0, onSale |-> FALSE,
           sales |-> 0, salesCount |-> 0, views |-> 0, viewsCount |-> 0, rating |-> 0,
           score |-> 0, at |-> 0]

\* A document after an update with the fields of `body`.
Updated(body, d) ==
  [f \in DOMAIN body \cup DOMAIN d |-> IF f \in DOMAIN body THEN body[f] ELSE d[f]]

Existing == {p \in Products : products[p].shown # "absent"}

-----------------------------------------------------------------------------
\* Math.round of the share of the price that is saved.
Percent(price, cut) == (200 * (price - cut) + price) \div (2 * price)

\* Mutant of Discounted: a discount price that is too high is kept.
DiscountedUnchecked(price, cut) ==
  [cut |-> cut, discount |-> IF cut # NoCut /\ cut < price THEN Percent(price, cut) ELSE 0,
   onSale |-> cut # NoCut]

\* What the hooks store with a price and a discount price.
Discounted(price, cut) ==
  IF cut # NoCut /\ cut < price
  THEN [cut |-> cut, discount |-> Percent(price, cut), onSale |-> TRUE]
  ELSE [cut |-> NoCut, discount |-> 0, onSale |-> FALSE]

\* What the answers of all queries say.
Enriched(d) ==
  LET cutting == d.cut # NoCut /\ d.cut < d.price
      discount == IF cutting THEN Percent(d.price, d.cut) ELSE 0
  IN [discount |-> discount, onSale |-> cutting /\ discount > 0]

\* A discount price of zero is left out: the hook and fix-product-structure disagree.
Agrees(d) ==
  d.cut # 0 =>
    /\ d.discount = Enriched(d).discount
    /\ Enriched(d).onSale => d.onSale
    /\ d.cut # NoCut => d.cut < d.price

CatalogueInit ==
  /\ \E s \in Starts : products = s.products /\ budget = s.budget
  /\ writers = [c \in Writers |-> NoWriter]
  /\ reader = NoReader
  /\ raced = {p \in Products : ~Agrees(products[p])}
  /\ given = [c \in Writers |-> [p \in Products |-> {}]]

-----------------------------------------------------------------------------
Stands(c, pc) == writers[c].pc = pc
Asked(op) == budget[op] > 0 /\ budget' = [budget EXCEPT ![op] = @ - 1]

PriceFields == {"price", "cut", "discount", "onSale"}
Pricing == {"update", "migrate", "fix"}
Scoring == {"sale", "scores"}

\* The products a call has still to write.
Holds(c) == IF Stands(c, "idle") THEN {} ELSE writers[c].todo
Rivals(c, op) ==
  {d \in Writers \ {c} : op \in Pricing /\ ~Stands(d, "idle") /\ writers[d].op \in Pricing}

\* A call that will write the products of `todo`; where prices are written, it overlaps
\* whoever will too.
StartWriting(c, op, pc, todo, body) ==
  LET rivals == Rivals(c, op) IN
  writers' = [d \in Writers |->
    IF d = c
    THEN [pc |-> pc, op |-> op, todo |-> todo, body |-> body, snap |-> << >>,
          product |-> NoCut, dirty |-> todo \cap UNION {Holds(e) : e \in rivals}]
    ELSE IF d \in rivals THEN [writers[d] EXCEPT !.dirty = @ \cup (todo \cap Holds(d))]
    ELSE writers[d]]

\* A write needs the hook's query when it names one of the two prices.
Needs(body) == ~("price" \in DOMAIN body <=> "cut" \in DOMAIN body)

Completed(body) ==
  IF {"price", "cut"} \subseteq DOMAIN body THEN Updated(Discounted(body.price, body.cut), body) ELSE body

\* findByIdAndUpdate is called on p: the hook comes first.
Sending(call, p, body) ==
  [call EXCEPT !.product = p, !.body = Completed(body),
               !.pc = IF Needs(body) THEN "hook" ELSE "write"]

Hook(c) ==
  /\ Stands(c, "hook")
  /\ LET d == products[writers[c].product]
         body == writers[c].body
         price == IF "price" \in DOMAIN body THEN body.price ELSE d.price
         cut == IF "cut" \in DOMAIN body THEN body.cut ELSE d.cut IN
     writers' = [writers EXCEPT ![c].pc = "write", ![c].body = Updated(Discounted(price, cut), body)]
  /\ UNCHANGED <<products, reader, budget, raced>>

\* The call has dealt with p.
Passed(call, p) ==
  IF call.todo = {p} THEN NoWriter ELSE [call EXCEPT !.todo = @ \ {p}, !.pc = "next", !.product = NoCut]

Priced(c) ==
  LET p == writers[c].product IN
  IF p \in writers[c].dirty THEN raced \cup {p} ELSE raced \ {p}

\* What the filters of the lists let through: whatever is available (further filters
\* are about fields that nothing here writes), what also has any sign of a discount,
\* what also has a stock; the site's list takes everything.
InPublicList(d) == d.shown # "hidden"
InSaleList(d) == InPublicList(d) /\ (d.onSale \/ d.discount > 0 \/ (d.cut # NoCut /\ d.cut > 0))
InSearchResults(d) == d.shown = "stocked"

OnList(kind, d) ==
  CASE kind = "public" -> InPublicList(d)
    [] kind = "sale" -> InSaleList(d)
    [] kind = "search" -> InSearchResults(d)
    [] kind = "site" -> TRUE

\* A page that is being turned sees the list change.
Moved(old, new) ==
  reader' = [reader EXCEPT !.moved = @ \/ (reader.pc # "idle" /\
    \E p \in Products :
      \/ OnList(reader.kind, old[p]) # OnList(reader.kind, new[p])
      \/ old[p].price # new[p].price)]

WriteProduct(c) ==
  LET p == writers[c].product
      body == writers[c].body IN
  /\ Stands(c, "write")
  /\ products' = [products EXCEPT ![p] = Updated(body, @)]
  /\ Moved(products, products')
  /\ raced' = IF DOMAIN body \cap PriceFields = {} THEN raced ELSE Priced(c)
  /\ writers' = [writers EXCEPT ![c] = Passed(@, p)]
  /\ UNCHANGED budget

\* The database does not answer, or the process ends: a sale stays without its score.
WriterFails(c) ==
  /\ ~Stands(c, "idle") /\ budget["fail"] > 0
  /\ budget' = [budget EXCEPT !["fail"] = @ - 1]
  /\ writers' = [writers EXCEPT ![c] = NoWriter]
  /\ UNCHANGED <<products, reader, raced>>

-----------------------------------------------------------------------------
(* ProductService.                                                         *)

Bodies ==
  {[price |-> x] : x \in Prices} \cup {[cut |-> y] : y \in Cuts \cup {NoCut}}
  \cup {[price |-> x, cut |-> y] : x \in Prices, y \in Cuts \cup {NoCut}}
  \cup {[shown |-> s] : s \in {"hidden", "soldout", "stocked"}} \cup {[rating |-> r] : r \in Ratings}

\* update looks for the product without its price: a discount price is compared
\* with the price in the body only.
TooHigh(body) ==
  {"price", "cut"} \subseteq DOMAIN body /\ body.cut # NoCut /\ body.cut >= body.price

UpdateProduct(c, p, body) ==
  /\ Stands(c, "idle") /\ p \in Existing /\ Asked("update")
  /\ ~TooHigh(body)
  /\ StartWriting(c, "update", "begun", {p}, body)
  /\ UNCHANGED <<products, reader, raced>>

Send(c) ==
  /\ Stands(c, "begun")
  /\ \E p \in writers[c].todo : writers' = [writers EXCEPT ![c] = Sending(@, p, @.body)]
  /\ UNCHANGED <<products, reader, budget, raced>>

\* The newest product comes after all others.
CreateProduct(p, price, cut) ==
  /\ p \notin Existing /\ Asked("create")
  /\ cut # NoCut => cut < price
  /\ products' = [products EXCEPT ![p] = Updated(Discounted(price, cut),
       [Absent EXCEPT !.shown = "stocked", !.price = price, !.at = Cardinality(Existing) + 1])]
  /\ UNCHANGED <<writers, reader, raced>>

View(p) ==
  /\ p \in Existing /\ Asked("view")
  /\ products' = [products EXCEPT ![p].views = @ + 1, ![p].viewsCount = @ + 1]
  /\ UNCHANGED <<writers, reader, raced>>

\* incrementSales adds to the sales, and then computes the score.
Sale(c, p) ==
  /\ Stands(c, "idle") /\ p \in Existing /\ Asked("sale")
  /\ products' = [products EXCEPT ![p].sales = @ + 1, ![p].salesCount = @ + 1]
  /\ StartWriting(c, "sale", "score", {p}, << >>)
  /\ UNCHANGED <<reader, raced>>

\* Mutant of CalculateScore: of the document as it was before the sale.
CalculateScoreBefore(c) ==
  /\ Stands(c, "score")
  /\ \E p \in writers[c].todo :
       LET old == [products[p] EXCEPT !.sales = @ - 1, !.salesCount = @ - 1] IN
       writers' = [writers EXCEPT ![c] = Sending(@, p, [score |-> Score(old)])]
  /\ UNCHANGED <<products, reader, budget, raced>>

CalculateScore(c) ==
  /\ Stands(c, "score")
  /\ \E p \in writers[c].todo :
       writers' = [writers EXCEPT ![c] = Sending(@, p, [score |-> Score(products[p])])]
  /\ UNCHANGED <<products, reader, budget, raced>>

-----------------------------------------------------------------------------
(* The scripts: what each writes to a product it read as d.                *)

Migrated(d) ==
  LET new == Discounted(d.price, d.cut) IN
  IF \A f \in DOMAIN new : new[f] = d[f] THEN << >> ELSE new

\* fix-product-structure knows no discount price of zero, and leaves it there.
FixedDiscount(d) ==
  IF d.cut # NoCut /\ d.cut < d.price /\ d.cut > 0
  THEN [discount |-> Percent(d.price, d.cut), onSale |-> TRUE]
  ELSE [discount |-> 0, onSale |-> FALSE]

\* The newer pair of counters is set to what the older pair was when the script read it.
FixedCounts(d) == [salesCount |-> d.sales, viewsCount |-> d.views]

Differing(new, d) == [f \in {g \in DOMAIN new : new[g] # d[g]} |-> new[f]]

Fixed(d) ==
  Updated(IF d.cut # NoCut /\ d.cut >= d.price THEN [cut |-> NoCut] ELSE << >>,
          Updated(Differing(FixedDiscount(d), d), Differing(FixedCounts(d), d)))

Scored(d) == [score |-> Score(d)]

ScriptWrites(op, d) ==
  CASE op = "migrate" -> Migrated(d)
    [] op = "fix" -> Fixed(d)
    [] op = "scores" -> Scored(d)

RunScript(c, op) ==
  /\ Stands(c, "idle") /\ Existing # {} /\ Asked(op)
  /\ LET begun == StartWriting(c, op, "find", Existing, << >>) IN begun
  /\ UNCHANGED <<products, reader, raced>>

\* find().lean() of everything.
Find(c) ==
  /\ Stands(c, "find")
  /\ writers' = [writers EXCEPT ![c].pc = "next", ![c].snap = products]
  /\ UNCHANGED <<products, reader, budget, raced>>

Visit(c) ==
  /\ Stands(c, "next")
  /\ \E p \in writers[c].todo :
       LET body == ScriptWrites(writers[c].op, writers[c].snap[p]) IN
       writers' = [writers EXCEPT ![c] = IF DOMAIN body = {} THEN Passed(@, p) ELSE Sending(@, p, body)]
  /\ UNCHANGED <<products, reader, budget, raced>>

-----------------------------------------------------------------------------
(* Lists: findPublicProducts, searchProducts, and findAll behind the site. *)

ListKinds == {"public", "sale", "search", "site"}
Sorts == {"newest", "oldest", "price-asc"}

Listed(kind) == {p \in Existing : OnList(kind, products[p])}

Before(sort, p, q) ==
  CASE sort = "newest" -> products[p].at > products[q].at
    [] sort = "oldest" -> products[p].at < products[q].at
    [] sort = "price-asc" -> products[p].price < products[q].price

\* Ties may fall either way, and differently from one query to the next.
Rankings(kind, sort) ==
  LET L == Listed(kind) IN
  {r \in [L -> 1..Cardinality(L)] :
     \A p, q \in L : p # q => r[p] # r[q] /\ (Before(sort, p, q) => r[p] < r[q])}

\* Two products on the list share the sort key.
Tied(kind, sort) ==
  \E p, q \in Listed(kind) : p # q /\ ~Before(sort, p, q) /\ ~Before(sort, q, p)

\* Mutant of Skip: as the site's lists do it.
SkipOne(kind, page) == page - 1

\* findAll skips products where the others skip pages.
Skip(kind, page) == IF kind = "site" THEN page - 1 ELSE (page - 1) * Limit

StartReading(kind, sort) ==
  /\ reader.pc = "idle" /\ Asked("read")
  /\ reader' = [NoReader EXCEPT !.pc = "page", !.kind = kind, !.sort = sort, !.page = 1,
                                !.base = Listed(kind)]
  /\ UNCHANGED <<products, writers, raced>>

ReadPage ==
  /\ reader.pc = "page"
  /\ \E r \in Rankings(reader.kind, reader.sort) :
       LET from == Skip(reader.kind, reader.page) IN
       reader' = [reader EXCEPT !.pc = "count",
         !.seen = @ \cup {p \in DOMAIN r : r[p] > from /\ r[p] <= from + Limit},
         !.moved = @ \/ Tied(reader.kind, reader.sort)]
  /\ UNCHANGED <<products, writers, budget, raced>>

\* countDocuments comes after the query; the visitor goes on to the last page.
CountPages ==
  /\ reader.pc = "count"
  /\ LET pages == (Cardinality(Listed(reader.kind)) + Limit - 1) \div Limit IN
     reader' = IF reader.page < pages
               THEN [reader EXCEPT !.pc = "page", !.page = @ + 1]
               ELSE [reader EXCEPT !.pc = "done"]
  /\ UNCHANGED <<products, writers, budget, raced>>

CatalogueStep ==
  \/ \E c \in Writers :
       \/ \E p \in Products :
            \/ \E body \in Bodies : UpdateProduct(c, p, body)
            \/ Sale(c, p)
       \/ Send(c) \/ CalculateScore(c) \/ Hook(c) \/ WriteProduct(c) \/ WriterFails(c)
       \/ \E op \in {"migrate", "fix", "scores"} : RunScript(c, op)
       \/ Find(c) \/ Visit(c)
  \/ \E p \in Products :
       \/ \E x \in Prices, y \in Cuts \cup {NoCut} : CreateProduct(p, x, y)
       \/ View(p)
  \/ \E kind \in ListKinds, sort \in Sorts : StartReading(kind, sort)
  \/ ReadPage \/ CountPages

\* The sale has added to the counters, the script has read all products.
IsScoring(call) == call.pc \notin {"idle", "find"} /\ call.op \in Scoring

Noted ==
  given' = [c \in Writers |-> [p \in Products |->
    IF IsScoring(writers'[c]) /\ p \in writers'[c].todo
    THEN given[c][p] \cup {Score(products'[p])} ELSE {}]]

CatalogueNext == CatalogueStep /\ Noted

CatalogueSpec == CatalogueInit /\ [][CatalogueNext]_catalogueVars

-----------------------------------------------------------------------------
\* The discount is stored by the hooks and by the scripts and computed anew for the
\* answers.  The two agree on every product unless the last write of it overlapped
\* another; a script heals what it finds, if no edit comes between its read and its
\* write.
DiscountsAgree ==
  \A p \in Existing \ raced : Agrees(products[p])

\* The score is computed from a read of its own and stored later, while other sales,
\* visitors, edits and scripts write what it depends on, and other calls store scores:
\* whatever is stored, the formula gave it at some moment after the sale had counted its
\* own units, or since the script had read the product.  A score is never older than
\* the call that stores it, and never one that no state of the product had.
ScoreFollowsSales ==
  [][\A p \in Existing : products'[p].score # products[p].score =>
       \E c \in Writers : p \in Holds(c) /\ products'[p].score \in given[c][p]]_catalogueVars

\* Someone who reads all pages of a list that products are added to sees every product
\* that was there, unless one left the list, changed its price or shares a sort key.
PagesCoverList ==
  reader.pc = "done" /\ reader.kind # "site" /\ ~reader.moved => reader.base \subseteq reader.seen

-----------------------------------------------------------------------------
(* The inductive invariant of what is written.                             *)

OfScripts == {"migrate", "fix", "scores"}

\* What a call may send for a product.
PriceBody(body) ==
  /\ DOMAIN body \subseteq PriceFields \cup {"salesCount", "viewsCount"}
  /\ "price" \in DOMAIN body => body.price \in Nat \ {0}
  /\ "cut" \in DOMAIN body => body.cut \in Cuts \cup {NoCut}
  /\ \A f \in {"salesCount", "viewsCount"} \cap DOMAIN body : body[f] \in Nat
ShownBody(body) == DOMAIN body = {"shown"} /\ body.shown # "absent"
RatingBody(body) == DOMAIN body = {"rating"} /\ body.rating \in Nat
OtherBody(body) == ShownBody(body) \/ RatingBody(body)
ScoreBody(body) == DOMAIN body = {"score"} /\ body.score \in Nat

SamePrices(d, e) == \A f \in PriceFields : d[f] = e[f]

\* The locals of a call at each of its steps, among the products `goods`.
IsCall(call, goods) ==
  /\ call = [pc |-> call.pc, op |-> call.op, todo |-> call.todo, body |-> call.body,
             snap |-> call.snap, product |-> call.product, dirty |-> call.dirty]
  /\ call.op \in {"update", "sale"} \cup OfScripts
  /\ \A p \in call.todo : p \in Products /\ goods[p].shown # "absent"
  /\ call.op \notin OfScripts => \E p \in Products : call.todo = {p}
  /\ call.op \in OfScripts /\ call.pc # "find" => \A p \in call.todo : IsProduct(call.snap[p])
  /\ call.pc \in {"hook", "write"} => call.product \in call.todo
  /\ \/ /\ call.pc = "begun" /\ call.op = "update"
        /\ \/ OtherBody(call.body)
           \/ PriceBody(call.body) /\ DOMAIN call.body \subseteq {"price", "cut"}
     \/ call.pc = "score" /\ call.op = "sale"
     \/ call.pc \in {"find", "next"} /\ call.op \in OfScripts
     \/ call.pc = "hook" /\ call.op \in Pricing /\ PriceBody(call.body)
     \/ call.pc = "write" /\ call.op \in Pricing /\ (PriceBody(call.body) \/ OtherBody(call.body))
     \/ call.pc = "write" /\ call.op \in Scoring /\ ScoreBody(call.body)

\* What a script has read of a product's prices, and what a call is about to write, still
\* holds where no other call overlaps.
DiscountSound(call, goods) ==
  /\ call.op \in {"migrate", "fix"} /\ call.pc # "find" =>
       \A p \in call.todo \ call.dirty : SamePrices(call.snap[p], goods[p])
  /\ /\ call.pc = "write" /\ call.op \in Pricing /\ call.product \notin call.dirty
     /\ DOMAIN call.body \cap PriceFields # {}
     => Agrees(Updated(call.body, goods[call.product]))

Sound(call, goods) == call.pc # "idle" => IsCall(call, goods) /\ DiscountSound(call, goods)

\* Where a call is not marked nobody else is at the prices.
Apart(c, d) ==
  \A p \in Holds(c) \cap Holds(d) :
    {writers[c].op, writers[d].op} \subseteq Pricing => p \in writers[c].dirty \cap writers[d].dirty

ProductInv(p) ==
  /\ IsProduct(products[p])
  /\ p \notin raced => Agrees(products[p])

CatalogueInv ==
  /\ products = [p \in Products |-> products[p]] /\ writers = [c \in Writers |-> writers[c]]
  /\ \A p \in Products : ProductInv(p)
  /\ \A c \in Writers : Sound(writers[c], products)
  /\ \A c \in Writers : \A d \in Writers \ {c} : Apart(c, d)

\* What a scoring call has read, and what it is about to store, the formula has given.
ScoreSound(call, goods, scores) ==
  IsScoring(call) =>
    /\ call.op = "sale" => \A p \in call.todo : Score(goods[p]) \in scores[p]
    /\ call.op = "scores" => \A p \in call.todo : Score(call.snap[p]) \in scores[p]
    /\ call.pc = "write" => call.body.score \in scores[call.product]

ScoreInv == \A c \in Writers : ScoreSound(writers[c], products, given[c])

-----------------------------------------------------------------------------
(* The inductive invariant of the pages.                                   *)

Earlier(kind, sort, p) == {q \in Listed(kind) : Before(sort, q, p)}

\* Whatever was there and has not been seen has all the pages turned before it.
UnseenInv ==
  LET turned == IF reader.pc = "page" THEN reader.page - 1 ELSE reader.page IN
  \A p \in reader.base \ reader.seen :
    /\ p \in Listed(reader.kind)
    /\ Cardinality(Earlier(reader.kind, reader.sort, p)) >= turned * Limit

PageInv ==
  /\ \A p \in Products : products[p].at \in Nat
  /\ reader = [pc |-> reader.pc, kind |-> reader.kind, sort |-> reader.sort, page |-> reader.page,
               base |-> reader.base, seen |-> reader.seen, moved |-> reader.moved]
  /\ reader.pc \in {"idle", "page", "count", "done"}
  /\ reader.pc # "idle" =>
       reader.kind \in ListKinds /\ reader.sort \in Sorts /\ reader.page \in Nat \ {0}
  /\ reader.pc \in {"page", "count"} /\ reader.kind # "site" /\ ~reader.moved => UnseenInv
  /\ PagesCoverList
=============================================================================
