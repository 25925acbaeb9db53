------------------------------ MODULE Datasets ------------------------------
(***************************************************************************)
(* The scripts that fill the database: seed-database (empties 14           *)
(* collections and fills them again), import-mock-data (drops 8 and fills  *)
(* them), create-investment-category, add-coin-and-gold-products and       *)
(* triple-products (add to what is there), while the application creates,  *)
(* changes and deletes documents.                                          *)
(*                                                                         *)
(* A script runs alone, as long as its operator lets it, and may end after *)
(* any of its steps.  A collection's documents that one insertMany makes   *)
(* are one document here, with all they refer to.  The reference of an     *)
(* order to its cart is left out: the application removes carts of orders  *)
(* that are paid, and the seed makes an order whose cart never was.        *)
(***************************************************************************)
EXTENDS Naturals, Sequences

CONSTANTS
  Scripts,      \* scripts that are run, of "seed", "import", "invest", "coins", "triple"
  MaxRuns,      \* bound on runs of scripts
  MaxRequests   \* bound on requests of the application

ASSUME DatasetAssumption == MaxRuns \in Nat /\ MaxRequests \in Nat

VARIABLES
  db,        \* documents [id, refs, tag, since, own]; an id begins with its collection
  indexed,   \* the unique indexes on slugs are there
  script,    \* locals of the running script
  run,       \* history: scripts that have emptied collections
  gone,      \* history: ids of documents the application has deleted
  made       \* ids that are used up, and runs and requests so far

datasetVars == <<db, indexed, script, run, gone, made>>

-----------------------------------------------------------------------------
(* What the generators of seed-database return: for every collection the   *)
(* collections its documents refer to.                                     *)

MockData == [users |-> {}, categories |-> {}, blogCategories |-> {}, shippings |-> {}]
GeneratedSeo == [seos |-> {}]
GeneratedProducts == [products |-> {"categories"}]
GeneratedBlogs == [blogs |-> {"blogCategories", "users"}]
GeneratedAddresses == [addresses |-> {"users"}]
GeneratedCartsAndItems == [carts |-> {"users"}, cartItems |-> {"carts", "products"}]
GeneratedOrdersAndItems ==
  [orders |-> {"users", "shippings", "addresses"}, orderItems |-> {"orders", "products"}]
GeneratedTicketsAndMessages == [tickets |-> {"users"}, ticketMessages |-> {"tickets", "users"}]

Joined(f, g) == [c \in DOMAIN f \cup DOMAIN g |-> IF c \in DOMAIN f THEN f[c] ELSE g[c]]

Generated ==
  LET documents == Joined(GeneratedProducts, GeneratedBlogs)
      holdings == Joined(GeneratedAddresses, GeneratedCartsAndItems)
      dealings == Joined(GeneratedOrdersAndItems, GeneratedTicketsAndMessages) IN
  Joined(Joined(MockData, GeneratedSeo), Joined(documents, Joined(holdings, dealings)))

ImportedData ==
  [blogCategories |-> {}, users |-> {}, categories |-> {}, products |-> {"categories"},
   blogs |-> {"blogCategories", "users"}, faqs |-> {}, goldPrices |-> {}, announcements |-> {}]

\* What the application's documents refer to, as the schemas have it.
Refers == Joined(Generated, ImportedData)

SeedDeletes ==
  <<"users", "categories", "products", "blogCategories", "blogs", "seos", "shippings", "addresses",
    "carts", "cartItems", "orders", "orderItems", "tickets", "ticketMessages">>

SeedInserts ==
  <<"users", "categories", "products", "blogCategories", "blogs", "seos", "shippings", "addresses",
    "carts", "cartItems", "orders", "orderItems", "tickets", "ticketMessages">>

ImportDrops ==
  <<"categories", "products", "blogCategories", "blogs", "users", "faqs", "goldPrices",
    "announcements">>

\* Mutant of ImportInserts: products before the categories they belong to.
ImportInsertsProductsFirst ==
  <<"blogCategories", "users", "products", "categories", "blogs", "faqs", "goldPrices",
    "announcements">>

ImportInserts ==
  <<"blogCategories", "users", "categories", "products", "blogs", "faqs", "goldPrices",
    "announcements">>

-----------------------------------------------------------------------------
Document(id, refs, tag) == [id |-> id, refs |-> refs, tag |-> tag, since |-> run, own |-> FALSE]

Filed(collection) == {d \in db : d.id[1] = collection}
Tagged(collection, tag) == {d \in Filed(collection) : d.tag = tag}
Present == {d.id : d \in db}

\* What a script's reference may rest on: that the application has deleted what is
\* referred to is not the script's doing.
Known == Present \cup gone

NoScript == [name |-> "none", empty |-> << >>, fill |-> << >>, kept |-> {}]

\* A new database, or one that operators have filled.  A seed makes documents without
\* slugs, of which the application's indexes allow one: these are there unless a seed
\* was first.
DatasetInit ==
  /\ run = 0
  /\ db \in {{}, {Document(<<c, 0>>, {<<o, 0>> : o \in Refers[c]}, "plain") : c \in DOMAIN Refers}}
  /\ indexed \in BOOLEAN
  /\ script = NoScript
  /\ gone = {}
  /\ made = [ids |-> 1, runs |-> 0, requests |-> 0]

Running(name) == script.name = name
Emptying == script.empty # << >>

NewId(collection) == <<collection, made.ids>>
UseId == made' = [made EXCEPT !.ids = @ + 1]

Begins(name, empty, fill, kept) ==
  /\ Running("none") /\ made.runs < MaxRuns /\ name \in Scripts
  /\ script' = [name |-> name, empty |-> empty, fill |-> fill, kept |-> kept]
  /\ made' = [made EXCEPT !.runs = @ + 1, !.ids = @ + 1]

\* All documents of a script that fills collections bear the id it starts with: those
\* of carts, orders and tickets are chosen before anything is inserted.
Seed ==
  /\ Begins("seed", SeedDeletes, SeedInserts, {})
  /\ run' = made.ids
  /\ UNCHANGED <<db, indexed, gone>>

Import ==
  /\ Begins("import", ImportDrops, ImportInserts, {})
  /\ run' = made.ids
  /\ UNCHANGED <<db, indexed, gone>>

\* The import drops its collections with their indexes, which its own schemas bring back.
Empty ==
  /\ Emptying
  /\ db' = db \ Filed(Head(script.empty))
  /\ script' = [script EXCEPT !.empty = Tail(@)]
  /\ indexed' = (indexed /\ ~(Running("import") /\ Head(script.empty) = "categories"))
  /\ UNCHANGED <<run, gone, made>>

ReferredBy(collection) ==
  {<<o, run>> : o \in (IF Running("seed") THEN Generated ELSE ImportedData)[collection]}

\* The second category of a seed has no slug either, and is refused by the index.
Fill ==
  /\ script.name \in {"seed", "import"} /\ ~Emptying /\ script.fill # << >>
  /\ LET c == Head(script.fill) IN
     /\ db' = db \cup {Document(<<c, run>>, ReferredBy(c), "plain")}
     /\ script' = IF (Running("seed") /\ indexed /\ c = "categories") \/ Len(script.fill) = 1
                  THEN NoScript
                  ELSE [script EXCEPT !.fill = Tail(@)]
  /\ indexed' = (indexed \/ Running("import"))
  /\ UNCHANGED <<run, gone, made>>

\* The process of the script ends.
Stop ==
  /\ ~Running("none")
  /\ script' = NoScript
  /\ UNCHANGED <<db, indexed, run, gone, made>>

-----------------------------------------------------------------------------
(* Scripts that add.                                                       *)

Investment == Tagged("categories", "investment")

\* create-investment-category takes the category, or makes it.
Invest ==
  /\ \E category \in IF Investment # {} THEN Investment
                     ELSE {Document(NewId("categories"), {}, "investment")} :
       /\ Begins("invest", << >>, <<"coin", "bar">>, {category.id})
       /\ db' = db \cup {category}
  /\ UNCHANGED <<indexed, run, gone>>

\* It moves the coins into it, and then the bars, be it there still or not.
MoveInto ==
  /\ Running("invest")
  /\ LET moved == Tagged("products", Head(script.fill)) IN
     db' = (db \ moved)
             \cup {[p EXCEPT !.refs = script.kept, !.since = run, !.own = FALSE] : p \in moved}
  /\ script' = IF Len(script.fill) = 1 THEN NoScript ELSE [script EXCEPT !.fill = Tail(@)]
  /\ UNCHANGED <<indexed, run, gone, made>>

\* add-coin-and-gold-products takes that category or any other.
Coins ==
  /\ Begins("coins", << >>, << >>, {})
  /\ UNCHANGED <<db, indexed, run, gone>>

FindCategory ==
  /\ Running("coins") /\ script.fill = << >>
  /\ LET found == IF Investment # {} THEN Investment ELSE Filed("categories") IN
     IF found = {} THEN script' = NoScript
     ELSE \E category \in found :
            script' = [script EXCEPT !.fill = <<"coin", "bar">>, !.kept = {category.id}]
  /\ UNCHANGED <<db, indexed, run, gone, made>>

\* Products whose slug is there already are left alone.
AddProducts ==
  /\ Running("coins") /\ script.fill # << >>
  /\ LET tag == Head(script.fill) IN
     IF Tagged("products", tag) # {} THEN UNCHANGED <<db, made>>
     ELSE db' = db \cup {Document(NewId("products"), script.kept, tag)} /\ UseId
  /\ script' = IF Len(script.fill) = 1 THEN NoScript ELSE [script EXCEPT !.fill = Tail(@)]
  /\ UNCHANGED <<indexed, run, gone>>

\* triple-products reads all products, and copies them one by one as it has read them,
\* but for those whose code is taken; a copy is as good as its original was.
Triple ==
  /\ Begins("triple", << >>, << >>, {})
  /\ UNCHANGED <<db, indexed, run, gone>>

ReadProducts ==
  /\ Running("triple") /\ script.kept = {}
  /\ script' = IF Filed("products") = {} THEN NoScript
               ELSE [script EXCEPT !.kept = Filed("products")]
  /\ UNCHANGED <<db, indexed, run, gone, made>>

CopyProduct ==
  /\ Running("triple")
  /\ \E p \in script.kept :
       /\ \E copies \in SUBSET {[p EXCEPT !.id = NewId("products")]} : db' = db \cup copies
       /\ script' = IF script.kept = {p} THEN NoScript ELSE [script EXCEPT !.kept = @ \ {p}]
  /\ UseId
  /\ UNCHANGED <<indexed, run, gone>>

-----------------------------------------------------------------------------
(* The application.  It looks up none of the ids that a body brings, and   *)
(* createOrder saves the items of an order before the order, which may     *)
(* never be saved: its documents are its own, whatever they refer to.      *)

\* The documents a new one may refer to, one of which is still to be made.
Nameable(collection) == {id \in Known : id[1] = collection} \cup {NewId(collection)}

OneRequest ==
  /\ made.requests < MaxRequests
  /\ made' = [made EXCEPT !.requests = @ + 1, !.ids = @ + 1]
  /\ UNCHANGED <<indexed, script, run>>

CreateDocument(collection) ==
  /\ OneRequest
  /\ \E named \in [Refers[collection] -> UNION {Nameable(o) : o \in Refers[collection]}] :
       /\ \A o \in Refers[collection] : named[o] \in Nameable(o)
       /\ LET refs == {named[o] : o \in Refers[collection]}
              document == Document(NewId(collection), refs, "plain") IN
          db' = db \cup {[document EXCEPT !.own = TRUE]}
  /\ UNCHANGED gone

\* An update writes the body's ids unchecked as well.
UpdateDocument(d) ==
  /\ OneRequest
  /\ db' = (db \ {d}) \cup {[d EXCEPT !.own = TRUE]}
  /\ UNCHANGED gone

\* Documents that nothing in the application deletes.
Lasting == {"orders", "orderItems", "tickets", "ticketMessages"}

\* A document is deleted whatever refers to it: here one of those that an insertMany
\* made, or the last of them.
DeleteDocument(d) ==
  /\ OneRequest
  /\ d.id[1] \notin Lasting
  /\ db' \in {db, db \ {d}}
  /\ gone' = gone \cup {d.id}

DatasetNext ==
  \/ Seed \/ Import \/ Empty \/ Fill \/ Stop
  \/ Invest \/ MoveInto \/ Coins \/ FindCategory \/ AddProducts
  \/ Triple \/ ReadProducts \/ CopyProduct
  \/ \E collection \in DOMAIN Refers : CreateDocument(collection)
  \/ \E d \in db : UpdateDocument(d) \/ DeleteDocument(d)

DatasetSpec == DatasetInit /\ [][DatasetNext]_datasetVars

-----------------------------------------------------------------------------
\* Wherever a script ends or is cut off, but for the time it empties collections: what
\* the scripts have made, copied or moved since refers to documents that are there, or
\* that the application has itself deleted.  Documents older than the last emptying may
\* refer to nothing, and so may those the application creates or changes.
RefsResolve ==
  ~Emptying => \A d \in db : ~d.own /\ d.since = run => d.refs \subseteq Known

-----------------------------------------------------------------------------
(* The inductive invariant.                                                *)

Collections == DOMAIN Refers
DocumentIds == Collections \X Nat
Tags == {"plain", "investment", "coin", "bar"}
Documents == [id : DocumentIds, refs : SUBSET DocumentIds, tag : Tags, since : Nat, own : BOOLEAN]

Members(s) == {s[i] : i \in DOMAIN s}

\* What a collection refers to comes before it.
Ordered(s) == \A i, j \in DOMAIN s : s[j] \in Refers[s[i]] => j < i

DatasetTypeOK ==
  /\ db \subseteq Documents /\ gone \subseteq DocumentIds /\ indexed \in BOOLEAN
  /\ script = [name |-> script.name, empty |-> script.empty, fill |-> script.fill,
               kept |-> script.kept]
  /\ script.name \in Scripts \cup {"none"}
  /\ script.empty \in Seq(Collections) /\ script.fill \in Seq(Collections \cup Tags)
  /\ run \in Nat /\ made \in [ids : Nat, runs : Nat, requests : Nat] /\ run < made.ids

\* A script's document that was made, copied or moved since the last emptying.
Recent(d) == ~d.own /\ d.since = run

\* While a script empties collections nothing counts as made since.
EmptyInv == Emptying => script.name \in {"seed", "import"} /\ \A d \in db : ~Recent(d)

\* A collection is filled, or will be, after those it refers to.
Fills == IF Running("seed") THEN DOMAIN Generated ELSE DOMAIN ImportedData
FillInv ==
  script.name \in {"seed", "import"} =>
    /\ script.fill \in Seq(Fills) /\ Ordered(script.fill)
    /\ \A c \in Fills \ Members(script.fill) : ~Emptying /\ <<c, run>> \in Known

\* The category or the products that a script has read.
AddInv ==
  /\ Running("invest") => script.fill # << >>
  /\ Running("coins") => script.fill \in Seq({"coin", "bar"})
  /\ script.name \in {"invest", "coins"} => script.kept \subseteq DocumentIds \cap Known
  /\ Running("triple") =>
       /\ script.kept \subseteq Documents
       /\ \A p \in script.kept : p.since <= run /\ (Recent(p) => p.refs \subseteq Known)

DatasetInv ==
  /\ DatasetTypeOK
  /\ \A d \in db : d.since <= run
  /\ EmptyInv /\ FillInv /\ AddInv
  /\ RefsResolve
=============================================================================
