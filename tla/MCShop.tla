------------------------------- MODULE MCShop -------------------------------
(***************************************************************************)
(* The components beside stock, orders, carts and accounts.  They share no *)
(* document and no memory, so that one of them moves in a behaviour, and   *)
(* the others rest in a state they may start in.                           *)
(*                                                                         *)
(* Two calls at once in each.  Gold: a guest and a member in one browser,  *)
(* workloads that meet on a purchase or on the caches; the clock counts    *)
(* minutes, the settings' cache and the day are shortened to two, so that  *)
(* both end within the three.  Catalogue: products as releases without     *)
(* the hooks left them, edited while a script runs; sales and scores; a    *)
(* list of two products a page.  Content: an entry with or without an      *)
(* image, or two that share nothing but the files.  Addresses: two members *)
(* in one browser, without it, and a guest in it.  Gate: two windows and   *)
(* more of each kind.  Locations: two provinces that share a city.         *)
(* Datasets: two scripts, one of which may be cut off, and a request.      *)
(***************************************************************************)
EXTENDS Gold, Catalogue, Content, Addresses, Gate, Locations, Datasets

CONSTANTS
  Parts,   \* the components that move: one in each behaviour
  c1, c2, s1, u1, u2, p1, p2, p3, p4, d1, d2, i1, i2, i3

VARIABLE part

MCCalls == {c1, c2}
MCUsers == {u1, u2}
MCSymmetry == {f @@ g : f \in Permutations(MCCalls), g \in Permutations(MCUsers)}

\* The operations that are not named are not asked for.
Of(ops, w) == w @@ [o \in ops |-> 0]

MCSessions == {s1}
MCDefault == [min |-> 100, max |-> 200, fixed |-> None, percent |-> 2]
MCSettings == {MCDefault, [min |-> 200, max |-> 300, fixed |-> 5, percent |-> None]}
GoldOps == {"info", "preview", "add", "get", "clear", "price"}
MCWorkloads == {Of(GoldOps, w) : w \in {[add |-> 1, get |-> 1], [add |-> 2, clear |-> 1],
                                        [info |-> 1, preview |-> 1, price |-> 1], [preview |-> 1, price |-> 2]}}
MCKaratWorkloads == {Of(GoldOps, [price |-> 1, add |-> 1])}

MCProducts == {p1, p2, p3, p4}
Item(p, cost, cut, at) ==
  p :> [Absent EXCEPT !.shown = "stocked", !.price = cost, !.cut = cut, !.at = at]
Shelf(items, w) ==
  [products |-> items @@ [p \in MCProducts |-> Absent],
   budget |-> Of({"update", "create", "view", "sale", "migrate", "fix", "scores", "read", "fail"}, w)]
MCStarts ==
  {Shelf(Item(p1, cost, 10, 1), w @@ [update |-> 2, fail |-> 1]) :
     cost \in {10, 400}, w \in {[fix |-> 1], [migrate |-> 1]}}
  \cup {Shelf(Item(p1, 10, NoCut, 1) @@ Item(p2, 10, NoCut, 2),
              [sale |-> 3, view |-> 1, scores |-> 1, fail |-> 1]),
         Shelf(p1 :> [Absent EXCEPT !.shown = "stocked", !.price = 400, !.sales = 2, !.viewsCount = 1],
              [sale |-> 2, view |-> 1, fix |-> 1, update |-> 1, scores |-> 1])}
  \cup {Shelf(Item(p1, 400, NoCut, 1) @@ Item(p2, 10, NoCut, 2) @@ Item(p3, 20, NoCut, 3),
              [read |-> 1, create |-> 1, update |-> 1])}

Pages(doc1, doc2, w) ==
  [docs |-> d1 :> doc1 @@ d2 :> doc2,
   asks |-> Of({"upload", "deleteFile", "create", "update", "delete", "fail"}, w @@ [fail |-> 1])]
Entry(kind, slug, I) == [kind |-> kind, slug |-> slug, images |-> I]
MCContentStarts ==
  {Pages(Entry(k, "a", I), Entry(k, "none", {}), [upload |-> 1, create |-> 1, update |-> 2]) :
     k \in {"category", "blog"}, I \in {{}, {i1}}}
  \cup {Pages(Entry(k, "a", {i1}), Entry(k, "b", {i2}), [update |-> 2, delete |-> 1, deleteFile |-> 1]) :
          k \in {"category", "blogCategory"}}
  \cup {Pages(Entry("product", "a", {i1, i2}), Entry("blog", "none", {}),
              [upload |-> 1, delete |-> 2, create |-> 1])}

MCAddressBodies == {[mobile |-> "m", default |-> TRUE], [mobile |-> "m", default |-> FALSE],
                    [mobile |-> "n", default |-> FALSE]}
MCCustomers == [user : MCUsers \cup {Nobody}, session : {s1, Nobody}]
                 \ {[user |-> Nobody, session |-> Nobody]}
MCAddressTasks ==
  {Of({"create", "update", "default", "delete", "merge", "panel", "fail"}, w) : w \in {
     [create |-> 3], [create |-> 2, default |-> 1, delete |-> 1], [create |-> 2, default |-> 1, update |-> 1],
     [create |-> 2, merge |-> 1, fail |-> 1], [create |-> 1, merge |-> 2],
     [create |-> 1, update |-> 1, merge |-> 1], [create |-> 1, panel |-> 1, merge |-> 1],
     [create |-> 2, delete |-> 1, merge |-> 1]}}

MCRouteLimit == [sensitive |-> 2, public |-> 3]
MCRouteWindow == [sensitive |-> 2, public |-> 1]

MCAtlas == 1 :> {1, 2} @@ 2 :> {2, 3}
MCJobs ==
  {Of({"all", "provinces", "one", "script", "drop", "fail"}, w) : w \in {
     [script |-> 2, fail |-> 1], [script |-> 1, all |-> 1],
     [provinces |-> 1, one |-> 2, fail |-> 1], [script |-> 2, drop |-> 1]}}

-----------------------------------------------------------------------------
\* The part that does not move begins with one of its workloads.
Rests(p, chosen, workloads) == part # p => chosen = CHOOSE w \in workloads : TRUE

Init ==
  /\ part \in Parts
  /\ GoldInit /\ Rests("gold", left, Workloads) /\ Rests("gold", stored, {1})
  /\ CatalogueInit /\ Rests("catalogue", [products |-> products, budget |-> budget], Starts)
  /\ ContentInit /\ Rests("content", [docs |-> docs, asks |-> asks], ContentStarts)
  /\ AddressInit /\ Rests("addresses", tasks, AddressTasks)
  /\ GateInit
  /\ LocationInit /\ Rests("locations", jobs, Jobs)
  /\ DatasetInit /\ Rests("datasets", <<db, indexed>>, {<<{}, TRUE>>})

vars == <<part, goldVars, catalogueVars, contentVars, addressVars, gateVars, locationVars, datasetVars>>

GoldMoves ==
  /\ part = "gold" /\ GoldNext
  /\ UNCHANGED <<part, catalogueVars, contentVars, addressVars, gateVars, locationVars, datasetVars>>

CatalogueMoves ==
  /\ part = "catalogue" /\ CatalogueNext
  /\ UNCHANGED <<part, goldVars, contentVars, addressVars, gateVars, locationVars, datasetVars>>

ContentMoves ==
  /\ part = "content" /\ ContentNext
  /\ UNCHANGED <<part, goldVars, catalogueVars, addressVars, gateVars, locationVars, datasetVars>>

AddressesMove ==
  /\ part = "addresses" /\ AddressNext
  /\ UNCHANGED <<part, goldVars, catalogueVars, contentVars, gateVars, locationVars, datasetVars>>

GateMoves ==
  /\ part = "gate" /\ GateNext
  /\ UNCHANGED <<part, goldVars, catalogueVars, contentVars, addressVars, locationVars, datasetVars>>

LocationsMove ==
  /\ part = "locations" /\ LocationNext
  /\ UNCHANGED <<part, goldVars, catalogueVars, contentVars, addressVars, gateVars, datasetVars>>

DatasetsMove ==
  /\ part = "datasets" /\ DatasetNext
  /\ UNCHANGED <<part, goldVars, catalogueVars, contentVars, addressVars, gateVars, locationVars>>

Next ==
  \/ GoldMoves \/ CatalogueMoves \/ ContentMoves \/ AddressesMove
  \/ GateMoves \/ LocationsMove \/ DatasetsMove

Spec == Init /\ [][Next]_vars
=============================================================================
