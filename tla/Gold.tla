-------------------------------- MODULE Gold --------------------------------
(***************************************************************************)
(* Buying melted gold: SiteGoldInvestmentController over                   *)
(* GoldPurchaseService, GoldInvestmentService, the settings                *)
(* (GoldInvestmentSettingsService, cached in the process) and the price    *)
(* (GoldPriceFetcherService, cached and rate limited in the process; also  *)
(* behind GoldPriceController).                                            *)
(*                                                                         *)
(* A call suspends at every await: the settings query, the request to the  *)
(* price service, the query for the purchase and its save.  Time passes    *)
(* while calls are suspended; 0 stands for a time that is not set.         *)
(***************************************************************************)
EXTENDS Naturals, FiniteSets, TLC

CONSTANTS
  Calls,        \* requests that may be running at once
  Sessions,     \* browsers
  Amounts,      \* of money, that customers invest
  Workloads,    \* how often each operation is asked for, in one behaviour
  Settings,     \* contents the settings may have: [min, max, fixed, percent]
  Default,      \* the settings made when there are none
  None,         \* no session, no commission of a kind
  SettingsLife, PriceLife, \* of the two caches
  PriceGap,     \* between two requests to the price service
  DayLength, DayLimit,     \* requests per day
  PurchaseLife, \* CART_EXPIRATION_MINUTES
  MaxClock, MaxChanges, MaxPurchases \* bounds

ASSUME GoldAssumption ==
  /\ IsFiniteSet(Calls)
  /\ Settings \subseteq [min : Nat, max : Nat, fixed : {None} \cup Nat, percent : {None} \cup Nat]
  /\ Default \in Settings /\ Amounts \subseteq Nat \ {0}
  /\ {SettingsLife, PriceLife, PriceGap, DayLength, PurchaseLife,
      MaxClock, MaxChanges, MaxPurchases} \subseteq Nat
  /\ DayLimit \in Nat \ {0}
  /\ PriceGap <= PriceLife

Purchases == 1..MaxPurchases   \* in the order of createdAt
NoVersion == 0
Versions == 1 .. MaxChanges + 1
Levels == 1 .. MaxChanges + 1

VARIABLES
  now,
  stored,    \* version of the settings document; NoVersion: there is none
  contents,  \* of every version
  cached,    \* the settings' cache: a version, and when the call that filled it asked
  clearing,  \* an update has saved, and not cleared the cache yet
  level,     \* the price service's present price
  price,     \* the price's cache: karat and level, and when its call asked
  requests,  \* the rate limit: count, last reset, last request
  purchases, \* GoldPurchase documents
  calls,     \* locals of the running calls
  left,      \* operations that are still to be asked for, for the bound
  ended,     \* history: when a version, and a level, was superseded
  sums,      \* history: what was added to a purchase
  shared     \* history: purchases that two calls had in hand at once

settings == <<stored, contents, cached, clearing>>
pricing == <<level, price, requests>>
booked == <<sums, shared>>
goldVars == <<now, settings, pricing, purchases, calls, left, ended, booked>>

NoCall == [pc |-> "idle"]
NoPurchase == [live |-> FALSE, member |-> FALSE, session |-> None,
               original |-> 0, commission |-> 0, total |-> 0, expires |-> 0]

GoldInit ==
  /\ now = 1
  /\ stored \in {NoVersion, 1}
  /\ contents = [v \in Versions |-> Default]
  /\ cached = [version |-> NoVersion, at |-> 0]
  /\ clearing = FALSE
  /\ level = 1
  /\ price = [karat |-> 0, level |-> 0, at |-> 0]
  /\ requests = [count |-> 0, reset |-> 1, last |-> 0]
  /\ purchases = [p \in Purchases |-> NoPurchase]
  /\ calls = [c \in Calls |-> NoCall]
  /\ left \in Workloads
  /\ ended = [settings |-> [v \in Versions |-> 0], level |-> [l \in Levels |-> 0]]
  /\ sums = [p \in Purchases |-> [original |-> 0, commission |-> 0]]
  /\ shared = {}

-----------------------------------------------------------------------------
At(c, pc) == calls[c].pc = pc
Goto(c, pc) == calls' = [calls EXCEPT ![c].pc = pc]
End(c) == calls' = [calls EXCEPT ![c] = NoCall]

\* A request: information, a preview, an addition, a look at the purchase, its
\* clearing, or the price page with a karat of its own.
Request(op, first, member, session, amount, karat) ==
  [pc |-> first, op |-> op, member |-> member, session |-> session, amount |-> amount,
   karat |-> karat, asked |-> 0, version |-> NoVersion, purchase |-> 0, read |-> NoPurchase]

Requests ==
  {Request("info", "settings", FALSE, None, 0, 18)}
  \cup {Request("preview", "settings", FALSE, None, a, 18) : a \in Amounts}
  \cup {Request("add", "settings", m, s, a, 18) : m \in BOOLEAN, s \in Sessions, a \in Amounts}
  \cup {Request(op, "find", m, s, 0, 18) : op \in {"get", "clear"}, m \in BOOLEAN, s \in Sessions}
  \cup {Request("price", "price", FALSE, None, 0, 24)}

Begin(c, r) ==
  /\ At(c, "idle") /\ left[r.op] > 0
  /\ left' = [left EXCEPT ![r.op] = @ - 1]
  /\ calls' = [calls EXCEPT ![c] = r]
  /\ UNCHANGED <<now, settings, pricing, purchases, ended, booked>>

-----------------------------------------------------------------------------
(* The settings.                                                           *)

SettingsCached == cached.version # NoVersion /\ now - cached.at < SettingsLife

\* preview refuses an amount outside the limits before it asks for the price.
WithSettings(c, v) ==
  calls' = [calls EXCEPT ![c] =
    IF @.op = "info" \/ @.amount \notin contents[v].min .. contents[v].max
    THEN NoCall
    ELSE [@ EXCEPT !.pc = "price", !.version = v, !.asked = 0]]

UseCachedSettings(c) ==
  /\ At(c, "settings") /\ SettingsCached
  /\ WithSettings(c, cached.version)
  /\ UNCHANGED <<now, settings, pricing, purchases, left, ended, booked>>

AskSettings(c) ==
  /\ At(c, "settings") /\ ~SettingsCached
  /\ calls' = [calls EXCEPT ![c].pc = "query", ![c].asked = now]
  /\ UNCHANGED <<now, settings, pricing, purchases, left, ended, booked>>

ReadSettings(c) ==
  /\ At(c, "query")
  /\ calls' = [calls EXCEPT ![c].pc = IF stored = NoVersion THEN "default" ELSE "fill",
                            ![c].version = stored]
  /\ UNCHANGED <<now, settings, pricing, purchases, left, ended, booked>>

\* createDefaultSettings; the unique index on _singleton refuses a second document.
CreateDefault(c) ==
  /\ At(c, "default")
  /\ IF stored = NoVersion
     THEN stored' = 1 /\ calls' = [calls EXCEPT ![c].pc = "fill", ![c].version = 1]
     ELSE End(c) /\ UNCHANGED stored
  /\ UNCHANGED <<now, contents, cached, clearing, pricing, purchases, left, ended, booked>>

\* Mutant of FillSettings: the cache is stamped when it is filled.
FillSettingsLate(c) ==
  /\ At(c, "fill")
  /\ cached' = [version |-> calls[c].version, at |-> now]
  /\ WithSettings(c, calls[c].version)
  /\ UNCHANGED <<now, stored, contents, clearing, pricing, purchases, left, ended, booked>>

\* The cache gets what the query answered, with the time before the query.
FillSettings(c) ==
  /\ At(c, "fill")
  /\ cached' = [version |-> calls[c].version, at |-> calls[c].asked]
  /\ WithSettings(c, calls[c].version)
  /\ UNCHANGED <<now, stored, contents, clearing, pricing, purchases, left, ended, booked>>

\* updateSettings saves new contents; the cache is cleared in a step after it.
SaveSettings(s) ==
  /\ stored + level <= MaxChanges + 1 /\ ~clearing
  /\ stored' = stored + 1 /\ clearing' = TRUE
  /\ contents' = [contents EXCEPT ![stored + 1] = s]
  /\ ended' = IF stored = NoVersion THEN ended ELSE [ended EXCEPT !.settings[stored] = now]
  /\ UNCHANGED <<now, cached, pricing, purchases, calls, left, booked>>

ClearCache ==
  /\ clearing /\ clearing' = FALSE
  /\ cached' = [version |-> NoVersion, at |-> 0]
  /\ UNCHANGED <<now, stored, contents, pricing, purchases, calls, left, ended, booked>>

-----------------------------------------------------------------------------
(* The price.                                                              *)

PriceCached == price.at # 0 /\ now - price.at < PriceLife

\* Every karat is answered from the one cached price.
UseCachedPrice(c) ==
  /\ At(c, "price") /\ PriceCached
  /\ IF calls[c].op = "add" THEN Goto(c, "find") ELSE End(c)
  /\ UNCHANGED <<now, settings, pricing, purchases, left, ended, booked>>

\* The counter starts again a day after it last did.
CountedAnew == IF now - requests.reset >= DayLength
               THEN [requests EXCEPT !.count = 0, !.reset = now]
               ELSE requests

\* Mutant of MayRequest: only the gap is checked.
MayRequestSpaced == requests.last # 0 => now - requests.last >= PriceGap

MayRequest ==
  /\ CountedAnew.count < DayLimit
  /\ requests.last # 0 => now - requests.last >= PriceGap

RequestPrice(c) ==
  /\ At(c, "price") /\ ~PriceCached
  /\ requests' = CountedAnew
  /\ IF MayRequest
     THEN calls' = [calls EXCEPT ![c].pc = "request", ![c].asked = now]
     ELSE End(c)
  /\ UNCHANGED <<now, settings, level, price, purchases, left, ended, booked>>

\* Mutant of Answered: the price is stamped with the time of its arrival.
AnsweredLate(c, l) == [karat |-> calls[c].karat, level |-> l, at |-> now]

Answered(c, l) == [karat |-> calls[c].karat, level |-> l, at |-> calls[c].asked]

Requesting == {c \in Calls : At(c, "request")}

\* A price that held at some time since the request.
PriceSince(c) == {l \in 1..level : l < level => ended.level[l] >= calls[c].asked}

\* The answer is cached and counted with the time before the request.
PriceArrives(c) ==
  /\ At(c, "request")
  /\ \E l \in PriceSince(c) : price' = Answered(c, l)
  /\ requests' = [requests EXCEPT !.count = @ + 1, !.last = calls[c].asked]
  /\ IF calls[c].op = "add"
     THEN calls' = [calls EXCEPT ![c].pc = "find", ![c].asked = 0]
     ELSE End(c)
  /\ UNCHANGED <<now, settings, level, purchases, left, ended, booked>>

\* An error or the timeout: nothing is counted.
PriceFails(c) ==
  /\ At(c, "request")
  /\ End(c)
  /\ UNCHANGED <<now, settings, pricing, purchases, left, ended, booked>>

MarketMoves ==
  /\ stored + level <= MaxChanges + 1
  /\ level' = level + 1
  /\ ended' = [ended EXCEPT !.level[level] = now]
  /\ UNCHANGED <<now, settings, price, requests, purchases, calls, left, booked>>

-----------------------------------------------------------------------------
(* The purchase.                                                           *)

\* The newest one of the member, or else of the session.
Found(c) ==
  LET mine == {p \in Purchases : purchases[p].live /\
                 IF calls[c].member THEN purchases[p].member
                 ELSE purchases[p].session = calls[c].session}
  IN IF mine = {} THEN 0 ELSE CHOOSE p \in mine : \A q \in mine : q <= p

InHand(p) == {c \in Calls : calls[c].pc \in {"save", "drop"} /\ calls[c].purchase = p}

Expired(p) == p.expires < now

\* A look drops an expired purchase; an addition takes it as it is; a clearing
\* drops what there is.
FindPurchase(c) ==
  /\ At(c, "find")
  /\ LET p == Found(c) IN
     /\ calls' = [calls EXCEPT ![c] =
          IF @.op = "add"
          THEN [@ EXCEPT !.pc = "save", !.purchase = p,
                         !.read = IF p = 0 THEN NoPurchase ELSE purchases[p]]
          ELSE IF p # 0 /\ (@.op = "clear" \/ Expired(purchases[p]))
               THEN [@ EXCEPT !.pc = "drop", !.purchase = p]
               ELSE NoCall]
     /\ shared' = IF p # 0 /\ InHand(p) # {} THEN shared \cup {p} ELSE shared
  /\ UNCHANGED <<now, settings, pricing, purchases, left, ended, sums>>

\* removePurchase: a purchase of another user or another session is refused.
MayDrop(c) ==
  LET p == purchases[calls[c].purchase] IN
  p.live /\ (calls[c].member => p.member) /\ p.session = calls[c].session

RemovePurchase(c) ==
  /\ At(c, "drop")
  /\ purchases' = IF MayDrop(c) THEN [purchases EXCEPT ![calls[c].purchase].live = FALSE]
                  ELSE purchases
  /\ End(c)
  /\ UNCHANGED <<now, settings, pricing, left, ended, booked>>

\* A fixed commission comes before one in percent.
Commission(s, a) ==
  IF s.fixed # None THEN s.fixed
  ELSE IF s.percent # None THEN (a * s.percent) \div 100 ELSE 0

Fee(c) == Commission(contents[calls[c].version], calls[c].amount)

Book(p, c) == sums' = [sums EXCEPT ![p].original = @ + calls[c].amount,
                                   ![p].commission = @ + Fee(c)]

\* Mutant of AddTo: the commission of an addition is not added.
AddToWithoutFee(p, c) ==
  [p EXCEPT !.original = @ + calls[c].amount, !.total = @ + calls[c].amount + Fee(c),
            !.expires = now + PurchaseLife]

AddTo(p, c) ==
  [p EXCEPT !.original = @ + calls[c].amount, !.commission = @ + Fee(c),
            !.total = @ + calls[c].amount + Fee(c), !.expires = now + PurchaseLife]

\* The save of an existing purchase writes the fields that changed since the read.
WithChanges(p, doc, read) == [f \in DOMAIN p |-> IF doc[f] # read[f] THEN doc[f] ELSE p[f]]

SaveAddition(c) ==
  LET p == calls[c].purchase
      read == calls[c].read IN
  /\ At(c, "save") /\ p # 0
  /\ IF purchases[p].live
     THEN purchases' = [purchases EXCEPT ![p] = WithChanges(@, AddTo(read, c), read)] /\ Book(p, c)
     ELSE UNCHANGED <<purchases, sums>>
  /\ End(c)
  /\ UNCHANGED <<now, settings, pricing, left, ended, shared>>

SavePurchase(c) ==
  /\ At(c, "save") /\ calls[c].purchase = 0
  /\ \E p \in Purchases :
       /\ ~purchases[p].live /\ sums[p].original = 0
       /\ \A q \in Purchases : q < p => sums[q].original # 0
       /\ purchases' = [purchases EXCEPT ![p] = AddTo([NoPurchase EXCEPT
            !.live = TRUE, !.member = calls[c].member, !.session = calls[c].session], c)]
       /\ Book(p, c)
  /\ End(c)
  /\ UNCHANGED <<now, settings, pricing, left, ended, shared>>

\* Settings and prices may take their time; the statements on a purchase do not.
Tick ==
  /\ now < MaxClock
  /\ \A c \in Calls : calls[c].pc \in {"idle", "query", "fill", "request"}
  /\ now' = now + 1
  /\ UNCHANGED <<settings, pricing, purchases, calls, left, ended, booked>>

\* Between two awaits a call is alone: whoever may use a cache does so at once.
Busy == {c \in Calls : calls[c].pc \in {"settings", "price"}}

GoldNext ==
  \/ \E c \in Calls : Busy \subseteq {c} /\
       \/ Busy = {} /\ \E r \in Requests : Begin(c, r)
       \/ UseCachedSettings(c) \/ AskSettings(c) \/ ReadSettings(c)
       \/ CreateDefault(c) \/ FillSettings(c)
       \/ UseCachedPrice(c) \/ RequestPrice(c) \/ PriceArrives(c) \/ PriceFails(c)
       \/ FindPurchase(c) \/ RemovePurchase(c) \/ SaveAddition(c) \/ SavePurchase(c)
  \/ Busy = {} /\
       \/ \E s \in Settings : SaveSettings(s)
       \/ ClearCache \/ MarketMoves \/ Tick

GoldSpec == GoldInit /\ [][GoldNext]_goldVars

-----------------------------------------------------------------------------
\* The settings' cache, filled by reads that race with updates: what it answers was
\* in force less than SettingsLife ago, also when it was filled after an update had
\* cleared it.
SettingsAtMostStale ==
  SettingsCached /\ cached.version # stored =>
    now < ended.settings[cached.version] + SettingsLife

\* The price's cache, filled by requests that answer in any order: what it answers
\* was the service's price less than PriceLife ago.
PriceAtMostStale ==
  PriceCached /\ price.level # level => now < ended.level[price.level] + PriceLife

\* The day's limit is checked before a request and counted after it: it is exceeded
\* by no more than the requests that overlap, over caches expiring and days ending.
RequestsWithinLimit ==
  requests.count + Cardinality(Requesting) < DayLimit + Cardinality(Calls)

\* A purchase that no two calls had in hand at once holds the sum of what was added
\* to it and of the commissions, under settings that change between the additions.
PurchaseAddsUp ==
  \A p \in Purchases : purchases[p].live /\ p \notin shared =>
    /\ purchases[p].original = sums[p].original
    /\ purchases[p].commission = sums[p].commission
    /\ purchases[p].total = sums[p].original + sums[p].commission

\* The price of gold of 18 karat goes into every addition.
PricedAt18Karat ==
  [][\A c \in Calls : UseCachedPrice(c) /\ calls[c].op = "add" => price.karat = 18]_goldVars

-----------------------------------------------------------------------------
(* The inductive invariant.                                                *)

PurchaseRecords ==
  [live : BOOLEAN, member : BOOLEAN, session : Sessions \cup {None},
   original : Nat, commission : Nat, total : Nat, expires : Nat]

GoldLocals ==
  [pc : {"settings", "query", "default", "fill", "price", "request", "find", "save", "drop"},
   op : {"info", "preview", "add", "get", "clear", "price"},
   member : BOOLEAN, session : Sessions \cup {None}, amount : {0} \cup Amounts, karat : {18, 24},
   asked : Nat, version : Versions \cup {NoVersion}, purchase : Purchases \cup {0},
   read : PurchaseRecords]

GoldTypeOK ==
  /\ now \in Nat \ {0}
  /\ stored \in Versions \cup {NoVersion} /\ contents \in [Versions -> Settings]
  /\ cached \in [version : Versions \cup {NoVersion}, at : Nat] /\ clearing \in BOOLEAN
  /\ level \in 1 .. MaxChanges + 2
  /\ price \in [karat : {0, 18, 24}, level : Nat, at : Nat]
  /\ requests \in [count : Nat, reset : Nat, last : Nat]
  /\ purchases \in [Purchases -> PurchaseRecords]
  /\ calls \in [Calls -> {NoCall} \cup GoldLocals]
  /\ ended \in [settings : [Versions -> Nat], level : [Levels -> Nat]]
  /\ sums \in [Purchases -> [original : Nat, commission : Nat]]
  /\ shared \subseteq Purchases

\* What is cached was in force when its call asked, which is not in the future.
CachesInv ==
  /\ cached.version # NoVersion =>
       /\ cached.version <= stored
       /\ cached.version # stored => cached.at <= ended.settings[cached.version]
  /\ cached.at <= now
  /\ price.at # 0 =>
       /\ price.level \in 1..level
       /\ price.level # level => price.at <= ended.level[price.level]
  /\ price.at <= now

\* What a call is about to cache was in force since it asked.
AskingInv(c) ==
  /\ At(c, "query") \/ At(c, "default") \/ At(c, "fill") \/ At(c, "request") =>
       calls[c].asked <= now
  /\ At(c, "fill") =>
       /\ calls[c].version \in 1..stored
       /\ calls[c].version # stored => calls[c].asked <= ended.settings[calls[c].version]

\* An addition has its amount and, from the price on, its settings.
AddingInv(c) ==
  /\ ~At(c, "idle") /\ calls[c].op = "add" =>
       /\ calls[c].amount # 0
       /\ At(c, "price") \/ At(c, "request") \/ At(c, "find") => calls[c].version # NoVersion
  /\ At(c, "save") => calls[c].amount # 0 /\ calls[c].version # NoVersion
  /\ At(c, "drop") => calls[c].purchase # 0

HasInHand(c, p) == calls[c].pc \in {"save", "drop"} /\ calls[c].purchase = p

\* Nobody else changes what a call has in hand alone.
InHandInv ==
  \A p \in Purchases \ shared, c \in Calls : HasInHand(c, p) =>
    /\ purchases[p].live
    /\ At(c, "save") => calls[c].read = purchases[p]
    /\ \A d \in Calls : HasInHand(d, p) => d = c

\* Nothing was added to a purchase not made yet.
UnmadeInv ==
  \A p \in Purchases : sums[p].original = 0 => sums[p].commission = 0 /\ ~purchases[p].live

GoldInv ==
  /\ GoldTypeOK /\ CachesInv /\ RequestsWithinLimit
  /\ \A c \in Calls : AskingInv(c) /\ AddingInv(c)
  /\ InHandInv /\ UnmadeInv /\ PurchaseAddsUp
=============================================================================
