----------------------------- MODULE GoldProofs -----------------------------
(***************************************************************************)
(* Proofs about Gold for any number of calls, settings, prices and         *)
(* purchases, any lives of the caches and any limit of the day.  GoldInv   *)
(* is inductive; the safety properties of the module follow from it.       *)
(***************************************************************************)
EXTENDS Gold, FiniteSetTheorems, WellFoundedInduction, TLAPS

USE GoldAssumption

LEMMA Constants ==
  /\ MaxChanges \in Nat /\ MaxPurchases \in Nat /\ SettingsLife \in Nat /\ PriceLife \in Nat
  /\ PurchaseLife \in Nat /\ DayLimit \in Nat /\ DayLimit >= 1
  OBVIOUS

-----------------------------------------------------------------------------
(* The initial state.                                                      *)

LEMMA NoPurchaseType == NoPurchase \in PurchaseRecords
  BY DEF NoPurchase, PurchaseRecords

LEMMA InitInv == GoldInit => GoldInv
<1> SUFFICES ASSUME GoldInit PROVE GoldInv
  OBVIOUS
<1>1. /\ now = 1 /\ stored \in {NoVersion, 1} /\ cached = [version |-> NoVersion, at |-> 0]
      /\ clearing = FALSE /\ level = 1 /\ price = [karat |-> 0, level |-> 0, at |-> 0]
      /\ requests = [count |-> 0, reset |-> 1, last |-> 0] /\ shared = {}
      /\ contents = [v \in Versions |-> Default]
      /\ purchases = [p \in Purchases |-> NoPurchase] /\ calls = [c \in Calls |-> NoCall]
      /\ sums = [p \in Purchases |-> [original |-> 0, commission |-> 0]]
      /\ ended = [settings |-> [v \in Versions |-> 0], level |-> [l \in Levels |-> 0]]
  BY DEF GoldInit
<1>2. GoldTypeOK
  <2>1. 1 \in Versions /\ NoVersion = 0 /\ 1 \in 1 .. MaxChanges + 2
    BY Constants DEF Versions, NoVersion
  <2>2. purchases \in [Purchases -> PurchaseRecords]
    BY <1>1, NoPurchaseType
  <2>3. /\ contents \in [Versions -> Settings] /\ calls \in [Calls -> {NoCall} \cup GoldLocals]
        /\ sums \in [Purchases -> [original : Nat, commission : Nat]]
        /\ ended \in [settings : [Versions -> Nat], level : [Levels -> Nat]]
    BY <1>1
  <2>4. clearing \in BOOLEAN
    BY <1>1, Zenon
  <2> QED
    BY <1>1, <2>1, <2>2, <2>3, <2>4 DEF GoldTypeOK
<1>3. CachesInv
  BY <1>1 DEF CachesInv, NoVersion
<1>4. \A c \in Calls : calls[c].pc = "idle"
  BY <1>1 DEF NoCall
<1>5. RequestsWithinLimit
  <2>1. Requesting = {} /\ requests.count = 0
    BY <1>1, <1>4 DEF Requesting, At
  <2>2. Cardinality(Calls) \in Nat /\ Cardinality({}) = 0
    BY FS_CardinalityType, FS_EmptySet
  <2> QED
    BY <2>1, <2>2, Constants DEF RequestsWithinLimit
<1>6. \A c \in Calls : AskingInv(c) /\ AddingInv(c)
  BY <1>4 DEF AskingInv, AddingInv, At
<1>7. InHandInv
  BY <1>4 DEF InHandInv, HasInHand
<1>8. UnmadeInv /\ PurchaseAddsUp
  BY <1>1 DEF UnmadeInv, PurchaseAddsUp, NoPurchase
<1> QED
  BY <1>2, <1>3, <1>5, <1>6, <1>7, <1>8 DEF GoldInv

-----------------------------------------------------------------------------
(* What a step leaves of the parts of GoldInv that it does not speak of.   *)

\* No more requests than before, asked or counted.
LEMMA LimitKept ==
  ASSUME GoldTypeOK, RequestsWithinLimit, requests'.count \in Nat,
         requests'.count <= requests.count, Requesting' \subseteq Requesting
  PROVE  RequestsWithinLimit'
<1>1. IsFiniteSet(Requesting)
  BY FS_Subset DEF Requesting
<1>2. IsFiniteSet(Requesting') /\ Cardinality(Requesting') <= Cardinality(Requesting)
  BY <1>1, FS_Subset
<1>3. Cardinality(Requesting) \in Nat /\ Cardinality(Requesting') \in Nat /\ Cardinality(Calls) \in Nat
  BY <1>1, <1>2, FS_CardinalityType
<1>4. requests.count \in Nat
  BY DEF GoldTypeOK
<1> QED
  BY <1>2, <1>3, <1>4, Constants DEF RequestsWithinLimit, Requesting

LEMMA CachesKept ==
  ASSUME CachesInv, UNCHANGED <<now, stored, cached, level, price, ended>>
  PROVE  CachesInv'
  BY DEF CachesInv

\* The locals of one call change.
LEMMA CallsAfter ==
  ASSUME GoldTypeOK, NEW c \in Calls, NEW next \in {NoCall} \cup GoldLocals,
         calls' = [calls EXCEPT ![c] = next]
  PROVE  /\ calls' \in [Calls -> {NoCall} \cup GoldLocals] /\ calls'[c] = next
         /\ \A d \in Calls \ {c} : calls'[d] = calls[d]
  BY DEF GoldTypeOK

LEMMA LimitOfOthers ==
  ASSUME GoldTypeOK, RequestsWithinLimit, NEW c \in Calls,
         NEW next \in {NoCall} \cup GoldLocals, calls' = [calls EXCEPT ![c] = next],
         next.pc # "request", requests'.count \in Nat, requests'.count <= requests.count
  PROVE  RequestsWithinLimit'
<1>1. Requesting' \subseteq Requesting
  BY CallsAfter DEF Requesting, At
<1> QED
  BY <1>1, LimitKept

\* A call that has no purchase in hand when it is done, and leaves the documents alone.
LEMMA CallStep ==
  ASSUME NEW c \in Calls, NEW next \in {NoCall} \cup GoldLocals, GoldInv,
         calls' = [calls EXCEPT ![c] = next], next.pc \notin {"save", "drop"},
         UNCHANGED <<now, stored, contents, clearing, level, purchases, ended, booked>>,
         cached' \in [version : Versions \cup {NoVersion}, at : Nat],
         price' \in [karat : {0, 18, 24}, level : Nat, at : Nat],
         requests' \in [count : Nat, reset : Nat, last : Nat],
         CachesInv', RequestsWithinLimit', AskingInv(c)', AddingInv(c)'
  PROVE  GoldInv'
<1>1. UNCHANGED <<sums, shared>>
  BY DEF booked
<1>2. /\ calls' \in [Calls -> {NoCall} \cup GoldLocals] /\ calls'[c] = next
      /\ \A d \in Calls \ {c} : calls'[d] = calls[d]
  BY CallsAfter DEF GoldInv
<1>3. GoldTypeOK'
  BY <1>1, <1>2 DEF GoldInv, GoldTypeOK
<1>4. ASSUME NEW d \in Calls PROVE AskingInv(d)' /\ AddingInv(d)'
  <2>1. CASE d = c
    BY <2>1
  <2>2. CASE d # c
    <3>1. AskingInv(d) /\ AddingInv(d) /\ calls'[d] = calls[d]
      BY <1>2, <2>2 DEF GoldInv
    <3> QED
      BY <3>1 DEF AskingInv, AddingInv, At
  <2> QED
    BY <2>1, <2>2
<1>5. InHandInv'
  <2>1. \A p \in Purchases, d \in Calls : HasInHand(d, p)' => HasInHand(d, p) /\ d # c
    BY <1>2 DEF HasInHand
  <2> QED
    BY <1>1, <1>2, <2>1 DEF GoldInv, InHandInv, At
<1>6. UnmadeInv' /\ PurchaseAddsUp'
  BY <1>1 DEF GoldInv, UnmadeInv, PurchaseAddsUp
<1> QED
  BY <1>3, <1>4, <1>5, <1>6 DEF GoldInv

\* A step that changes nothing but the locals of one call, which asks for nothing.
LEMMA LocalStep ==
  ASSUME NEW c \in Calls, NEW next \in {NoCall} \cup GoldLocals, GoldInv,
         calls' = [calls EXCEPT ![c] = next], next.pc \notin {"request", "save", "drop"},
         UNCHANGED <<now, settings, pricing, purchases, ended, booked>>,
         AskingInv(c)', AddingInv(c)'
  PROVE  GoldInv'
<1>1. UNCHANGED <<stored, contents, cached, clearing, level, price, requests>>
  BY DEF settings, pricing
<1>2. RequestsWithinLimit'
  <2>1. GoldTypeOK /\ RequestsWithinLimit
    BY DEF GoldInv
  <2>2. requests.count \in Nat
    BY <2>1 DEF GoldTypeOK
  <2>3. requests'.count \in Nat /\ requests'.count <= requests.count
    BY <1>1, <2>2
  <2>4. next.pc # "request"
    OBVIOUS
  <2> QED
    BY <2>1, <2>3, <2>4, LimitOfOthers
<1>3. CachesInv'
  BY <1>1, CachesKept DEF GoldInv
<1> QED
  BY <1>1, <1>2, <1>3, CallStep DEF GoldInv, GoldTypeOK

LEMMA NoCallAsksNothing ==
  ASSUME NEW c \in Calls, calls'[c] = NoCall
  PROVE  AskingInv(c)' /\ AddingInv(c)' /\ NoCall.pc = "idle"
  BY DEF NoCall, AskingInv, AddingInv, At

LEMMA EndInv ==
  ASSUME NEW c \in Calls, GoldInv, End(c),
         UNCHANGED <<now, settings, pricing, purchases, ended, booked>>
  PROVE  GoldInv'
<1>1. calls'[c] = NoCall
  BY CallsAfter DEF End, GoldInv
<1> QED
  BY <1>1, NoCallAsksNothing, LocalStep DEF End

\* A call that runs has the locals of a request.
LEMMA Locals ==
  ASSUME NEW c \in Calls, GoldTypeOK, calls[c].pc # "idle"
  PROVE  calls[c] \in GoldLocals
  BY DEF GoldTypeOK, NoCall

-----------------------------------------------------------------------------
(* Requests and settings.                                                  *)

LEMMA RequestsAreLocals ==
  ASSUME NEW r \in Requests
  PROVE  /\ r \in GoldLocals /\ r.pc \in {"settings", "price", "find"}
         /\ r.op = "add" => r.pc = "settings" /\ r.amount # 0
<1> DEFINE Infos == {Request("info", "settings", FALSE, None, 0, 18)}
           Previews == {Request("preview", "settings", FALSE, None, a, 18) : a \in Amounts}
           Additions == {Request("add", "settings", m, s, a, 18) :
                           m \in BOOLEAN, s \in Sessions, a \in Amounts}
           Looks == {Request(op, "find", m, s, 0, 18) :
                       op \in {"get", "clear"}, m \in BOOLEAN, s \in Sessions}
           Prices == {Request("price", "price", FALSE, None, 0, 24)}
<1>1. /\ NoPurchase \in PurchaseRecords /\ NoVersion \in Versions \cup {NoVersion}
      /\ 0 \in Purchases \cup {0} /\ None \in Sessions \cup {None} /\ 0 \in {0} \cup Amounts
  BY NoPurchaseType
<1>2. CASE r \in Infos
  <2>1. r = Request("info", "settings", FALSE, None, 0, 18)
    BY <1>2
  <2> QED
    BY <1>1, <2>1 DEF Request, GoldLocals
<1>3. CASE r \in Previews
  <2>1. PICK a \in Amounts : r = Request("preview", "settings", FALSE, None, a, 18)
    BY <1>3
  <2> QED
    BY <1>1, <2>1 DEF Request, GoldLocals
<1>4. CASE r \in Additions
  <2>1. PICK m \in BOOLEAN, s \in Sessions, a \in Amounts :
               r = Request("add", "settings", m, s, a, 18)
    BY <1>4
  <2> QED
    BY <1>1, <2>1 DEF Request, GoldLocals
<1>5. CASE r \in Looks
  <2>1. PICK op \in {"get", "clear"}, m \in BOOLEAN, s \in Sessions :
               r = Request(op, "find", m, s, 0, 18)
    BY <1>5
  <2> QED
    BY <1>1, <2>1 DEF Request, GoldLocals
<1>6. CASE r \in Prices
  <2>1. r = Request("price", "price", FALSE, None, 0, 24)
    BY <1>6
  <2> QED
    BY <1>1, <2>1 DEF Request, GoldLocals
<1>7. Requests = Infos \cup Previews \cup Additions \cup Looks \cup Prices
  BY DEF Requests
<1> HIDE DEF Infos, Previews, Additions, Looks, Prices
<1>8. r \in Infos \/ r \in Previews \/ r \in Additions \/ r \in Looks \/ r \in Prices
  BY <1>7
<1> QED
  BY <1>2, <1>3, <1>4, <1>5, <1>6, <1>8

LEMMA BeginInv == ASSUME NEW c \in Calls, NEW r \in Requests, GoldInv, Begin(c, r) PROVE GoldInv'
<1>1. /\ calls' = [calls EXCEPT ![c] = r]
      /\ UNCHANGED <<now, settings, pricing, purchases, ended, booked>>
  BY DEF Begin
<1>2. /\ r \in GoldLocals /\ r.pc \in {"settings", "price", "find"}
      /\ r.op = "add" => r.pc = "settings" /\ r.amount # 0
  BY RequestsAreLocals
<1>3. calls'[c] = r
  BY <1>1, <1>2, CallsAfter DEF GoldInv
<1>4. AskingInv(c)' /\ AddingInv(c)'
  BY <1>2, <1>3 DEF AskingInv, AddingInv, At
<1> QED
  BY <1>1, <1>2, <1>4, LocalStep

\* What a call does with the settings it got.
LEMMA WithSettingsInv ==
  ASSUME NEW c \in Calls, NEW v \in Versions, GoldInv, calls[c].pc \notin {"idle", "save", "drop"},
         WithSettings(c, v),
         UNCHANGED <<now, stored, contents, clearing, pricing, purchases, ended, booked>>,
         cached' \in [version : Versions \cup {NoVersion}, at : Nat], CachesInv'
  PROVE  GoldInv'
<1> DEFINE next == IF calls[c].op = "info"
                      \/ calls[c].amount \notin contents[v].min .. contents[v].max
                   THEN NoCall
                   ELSE [calls[c] EXCEPT !.pc = "price", !.version = v, !.asked = 0]
<1>1. GoldTypeOK /\ RequestsWithinLimit /\ calls[c] \in GoldLocals
  BY Locals DEF GoldInv
<1>2. calls' = [calls EXCEPT ![c] = next]
  BY DEF WithSettings
<1>3. [calls[c] EXCEPT !.pc = "price", !.version = v, !.asked = 0] \in GoldLocals
  BY <1>1 DEF GoldLocals
<1>4. next \in {NoCall} \cup GoldLocals /\ next.pc \in {"idle", "price"}
  <2>1. [calls[c] EXCEPT !.pc = "price", !.version = v, !.asked = 0].pc = "price"
    BY <1>1 DEF GoldLocals
  <2>2. NoCall.pc = "idle"
    BY DEF NoCall
  <2> QED
    BY <1>3, <2>1, <2>2
<1>5. next.pc = "price" => next.version = v /\ (next.op = "add" => next.amount # 0)
  <2>1. NoCall.pc # "price"
    BY DEF NoCall
  <2>2. /\ [calls[c] EXCEPT !.pc = "price", !.version = v, !.asked = 0].version = v
        /\ [calls[c] EXCEPT !.pc = "price", !.version = v, !.asked = 0].op = calls[c].op
        /\ [calls[c] EXCEPT !.pc = "price", !.version = v, !.asked = 0].amount = calls[c].amount
    BY <1>1 DEF GoldLocals
  <2>3. calls[c].op = "add" => calls[c].amount # 0
    BY DEF GoldInv, AddingInv, At
  <2> QED
    BY <2>1, <2>2, <2>3
<1>6. v # NoVersion
  BY DEF Versions, NoVersion
<1> HIDE DEF next
<1>7. calls'[c] = next
  BY <1>1, <1>2, <1>4, CallsAfter
<1>8. AskingInv(c)' /\ AddingInv(c)'
  BY <1>4, <1>5, <1>6, <1>7 DEF AskingInv, AddingInv, At
<1>9. UNCHANGED <<level, price, requests>>
  BY DEF pricing
<1>10. /\ price' \in [karat : {0, 18, 24}, level : Nat, at : Nat]
       /\ requests' \in [count : Nat, reset : Nat, last : Nat]
  BY <1>1, <1>9 DEF GoldTypeOK
<1>11. requests'.count \in Nat /\ requests'.count <= requests.count
  <2>1. requests.count \in Nat
    BY <1>1 DEF GoldTypeOK
  <2> QED
    BY <1>9, <2>1
<1>12. next.pc # "request" /\ next.pc \notin {"save", "drop"}
  BY <1>4
<1>13. RequestsWithinLimit'
  BY <1>1, <1>2, <1>4, <1>11, <1>12, LimitOfOthers
<1> QED
  BY <1>2, <1>4, <1>8, <1>9, <1>10, <1>12, <1>13, CallStep

LEMMA UseCachedSettingsInv ==
  ASSUME NEW c \in Calls, GoldInv, UseCachedSettings(c) PROVE GoldInv'
<1>1. /\ calls[c].pc = "settings" /\ cached.version # NoVersion
      /\ WithSettings(c, cached.version)
      /\ UNCHANGED <<now, settings, pricing, purchases, ended, booked>>
  BY DEF UseCachedSettings, At, SettingsCached
<1>2. GoldTypeOK /\ CachesInv
  BY DEF GoldInv
<1>3. cached.version \in Versions /\ cached \in [version : Versions \cup {NoVersion}, at : Nat]
  BY <1>1, <1>2 DEF GoldTypeOK
<1>4. UNCHANGED <<stored, contents, clearing, cached, level, price>>
  BY <1>1 DEF settings, pricing
<1>5. CachesInv'
  BY <1>1, <1>2, <1>4, CachesKept
<1> QED
  BY <1>1, <1>3, <1>4, <1>5, WithSettingsInv

\* A step that gives one running call other locals, and changes nothing else.
LEMMA AskSettingsInv ==
  ASSUME NEW c \in Calls, GoldInv, AskSettings(c) PROVE GoldInv'
<1> DEFINE next == [calls[c] EXCEPT !.pc = "query", !.asked = now]
<1>1. /\ calls[c].pc = "settings"
      /\ UNCHANGED <<now, settings, pricing, purchases, ended, booked>>
  BY DEF AskSettings, At
<1>2. GoldTypeOK /\ calls[c] \in GoldLocals /\ now \in Nat
  BY <1>1, Locals DEF GoldInv, GoldTypeOK
<1>3. calls' = [calls EXCEPT ![c] = next]
  BY <1>2 DEF AskSettings, GoldTypeOK
<1>4. /\ next \in GoldLocals /\ next.pc = "query" /\ next.asked = now
      /\ next.op = calls[c].op /\ next.amount = calls[c].amount
  BY <1>2 DEF GoldLocals
<1>5. calls[c].op = "add" => calls[c].amount # 0
  BY <1>1 DEF GoldInv, AddingInv, At
<1> HIDE DEF next
<1>6. calls'[c] = next
  BY <1>2, <1>3, <1>4, CallsAfter
<1>7. AskingInv(c)' /\ AddingInv(c)'
  BY <1>1, <1>2, <1>4, <1>5, <1>6 DEF AskingInv, AddingInv, At
<1> QED
  BY <1>1, <1>3, <1>4, <1>7, LocalStep

LEMMA ReadSettingsInv ==
  ASSUME NEW c \in Calls, GoldInv, ReadSettings(c) PROVE GoldInv'
<1> DEFINE at == IF stored = NoVersion THEN "default" ELSE "fill"
           next == [calls[c] EXCEPT !.pc = at, !.version = stored]
<1>0. at \in {"default", "fill"} /\ (at = "fill" => stored # NoVersion)
  OBVIOUS
<1>1. /\ calls[c].pc = "query"
      /\ UNCHANGED <<now, settings, pricing, purchases, ended, booked>>
  BY DEF ReadSettings, At
<1>2. GoldTypeOK /\ calls[c] \in GoldLocals /\ stored \in Versions \cup {NoVersion}
  BY <1>1, Locals DEF GoldInv, GoldTypeOK
<1>3. calls' = [calls EXCEPT ![c] = next]
  BY <1>2 DEF ReadSettings, GoldTypeOK
<1> HIDE DEF at
<1>4. /\ next \in GoldLocals /\ next.pc \in {"default", "fill"} /\ next.asked = calls[c].asked
      /\ next.op = calls[c].op /\ next.amount = calls[c].amount /\ next.version = stored
      /\ next.pc = at
  BY <1>0, <1>2 DEF GoldLocals
<1>5. next.pc = "fill" => stored \in 1..stored
  BY <1>0, <1>2, <1>4 DEF Versions, NoVersion
<1>6. (calls[c].op = "add" => calls[c].amount # 0) /\ calls[c].asked <= now
  BY <1>1 DEF GoldInv, AddingInv, AskingInv, At
<1> HIDE DEF next
<1>7. calls'[c] = next
  BY <1>2, <1>3, <1>4, CallsAfter
<1>8. UNCHANGED <<now, stored>>
  BY <1>1 DEF settings
<1>9. AskingInv(c)'
  BY <1>4, <1>5, <1>6, <1>7, <1>8 DEF AskingInv, At
<1>10. AddingInv(c)'
  BY <1>4, <1>6, <1>7 DEF AddingInv, At
<1> QED
  BY <1>1, <1>3, <1>4, <1>9, <1>10, LocalStep

LEMMA CreateDefaultInv ==
  ASSUME NEW c \in Calls, GoldInv, CreateDefault(c) PROVE GoldInv'
<1>1. /\ calls[c].pc = "default"
      /\ UNCHANGED <<now, contents, cached, clearing, pricing, purchases, ended, booked>>
  BY DEF CreateDefault, At
<1>2. CASE stored = NoVersion
  <2> DEFINE next == [calls[c] EXCEPT !.pc = "fill", !.version = 1]
  <2>1. GoldTypeOK /\ CachesInv /\ RequestsWithinLimit /\ calls[c] \in GoldLocals
    BY <1>1, Locals DEF GoldInv
  <2>2. 1 \in Versions /\ stored' = 1
    BY <1>2, Constants DEF CreateDefault, Versions
  <2>3. calls' = [calls EXCEPT ![c] = next]
    BY <1>2, <2>1 DEF CreateDefault, GoldTypeOK
  <2>4. /\ next \in GoldLocals /\ next.pc = "fill" /\ next.asked = calls[c].asked
        /\ next.op = calls[c].op /\ next.amount = calls[c].amount /\ next.version = 1
    BY <2>1, <2>2 DEF GoldLocals
  <2>5. (calls[c].op = "add" => calls[c].amount # 0) /\ calls[c].asked <= now
    BY <1>1 DEF GoldInv, AddingInv, AskingInv, At
  <2> HIDE DEF next
  <2>6. /\ calls' \in [Calls -> {NoCall} \cup GoldLocals] /\ calls'[c] = next
        /\ \A d \in Calls \ {c} : calls'[d] = calls[d]
    BY <2>1, <2>3, <2>4, CallsAfter
  <2>7. UNCHANGED <<level, price, requests, sums, shared>>
    BY <1>1 DEF pricing, booked
  <2>8. GoldTypeOK'
    BY <1>1, <2>1, <2>2, <2>6, <2>7 DEF GoldTypeOK
  <2>9. cached.version = NoVersion
    <3>1. cached.version \in Versions \cup {NoVersion}
      BY <2>1 DEF GoldTypeOK
    <3>2. cached.version # NoVersion => cached.version <= stored
      BY <2>1 DEF CachesInv
    <3> QED
      BY <1>2, <3>1, <3>2 DEF Versions, NoVersion
  <2>10. CachesInv'
    BY <1>1, <2>1, <2>7, <2>9 DEF CachesInv
  <2>11. AskingInv(c)' /\ AddingInv(c)'
    BY <1>1, <2>2, <2>4, <2>5, <2>6 DEF AskingInv, AddingInv, At
  <2>12. ASSUME NEW d \in Calls \ {c} PROVE AskingInv(d)' /\ AddingInv(d)'
    <3>1. AskingInv(d) /\ AddingInv(d) /\ calls'[d] = calls[d]
      BY <2>6 DEF GoldInv
    <3>2. calls[d].pc # "fill"
      BY <1>2, <3>1 DEF AskingInv, At, NoVersion
    <3> QED
      BY <1>1, <3>1, <3>2 DEF AskingInv, AddingInv, At
  <2>13. requests.count \in Nat
    BY <2>1 DEF GoldTypeOK
  <2>14. RequestsWithinLimit'
    <3>1. requests'.count \in Nat /\ requests'.count <= requests.count
      BY <2>7, <2>13
    <3>2. next.pc # "request" /\ next \in {NoCall} \cup GoldLocals
      BY <2>4
    <3> QED
      BY <2>1, <2>3, <3>1, <3>2, LimitOfOthers
  <2>15. InHandInv'
    <3>1. \A p \in Purchases, d \in Calls : HasInHand(d, p)' => HasInHand(d, p) /\ d # c
      BY <2>4, <2>6 DEF HasInHand
    <3> QED
      BY <1>1, <2>6, <2>7, <3>1 DEF GoldInv, InHandInv, At
  <2>16. UnmadeInv' /\ PurchaseAddsUp'
    BY <1>1, <2>7 DEF GoldInv, UnmadeInv, PurchaseAddsUp
  <2> QED
    BY <2>8, <2>10, <2>11, <2>12, <2>14, <2>15, <2>16 DEF GoldInv
<1>3. CASE stored # NoVersion
  <2>1. End(c) /\ UNCHANGED settings
    BY <1>1, <1>3 DEF CreateDefault, settings
  <2> QED
    BY <1>1, <2>1, EndInv
<1> QED
  BY <1>2, <1>3

LEMMA FillSettingsInv ==
  ASSUME NEW c \in Calls, GoldInv, FillSettings(c) PROVE GoldInv'
<1>1. /\ calls[c].pc = "fill"
      /\ cached' = [version |-> calls[c].version, at |-> calls[c].asked]
      /\ WithSettings(c, calls[c].version)
      /\ UNCHANGED <<now, stored, contents, clearing, pricing, purchases, ended, booked>>
  BY DEF FillSettings, At
<1>2. GoldTypeOK /\ CachesInv /\ calls[c] \in GoldLocals
  BY <1>1, Locals DEF GoldInv
<1>3. /\ calls[c].version \in 1..stored /\ calls[c].asked <= now
      /\ calls[c].version # stored => calls[c].asked <= ended.settings[calls[c].version]
  BY <1>1 DEF GoldInv, AskingInv, At
<1>4. calls[c].version \in Versions /\ calls[c].asked \in Nat
  BY <1>2, <1>3 DEF GoldLocals, NoVersion
<1>5. cached' \in [version : Versions \cup {NoVersion}, at : Nat]
  BY <1>1, <1>4
<1>6. UNCHANGED <<level, price>>
  BY <1>1 DEF pricing
<1>7. CachesInv'
  BY <1>1, <1>2, <1>3, <1>4, <1>6 DEF CachesInv
<1> QED
  BY <1>1, <1>4, <1>5, <1>7, WithSettingsInv

\* A step that changes no call, no purchase and no count of the requests.
LEMMA DocumentsKept ==
  ASSUME GoldInv, UNCHANGED <<requests, purchases, calls, booked>>
  PROVE  RequestsWithinLimit' /\ (\A c \in Calls : AddingInv(c)') /\ InHandInv' /\ UnmadeInv'
         /\ PurchaseAddsUp'
<1>1. UNCHANGED <<sums, shared>>
  BY DEF booked
<1>2. RequestsWithinLimit'
  BY DEF GoldInv, RequestsWithinLimit, Requesting, At
<1>3. \A c \in Calls : AddingInv(c)'
  BY DEF GoldInv, AddingInv, At
<1>4. InHandInv'
  BY <1>1 DEF GoldInv, InHandInv, HasInHand, At
<1>5. UnmadeInv' /\ PurchaseAddsUp'
  BY <1>1 DEF GoldInv, UnmadeInv, PurchaseAddsUp
<1> QED
  BY <1>2, <1>3, <1>4, <1>5

LEMMA SaveSettingsInv ==
  ASSUME NEW s \in Settings, GoldInv, SaveSettings(s) PROVE GoldInv'
<1>1. /\ stored + level <= MaxChanges + 1 /\ stored' = stored + 1 /\ clearing' = TRUE
      /\ contents' = [contents EXCEPT ![stored + 1] = s]
      /\ UNCHANGED <<now, cached, pricing, purchases, calls, booked>>
  BY DEF SaveSettings
<1>2. UNCHANGED <<level, price, requests, sums, shared>>
  BY <1>1 DEF pricing, booked
<1>3. GoldTypeOK /\ CachesInv
  BY DEF GoldInv
<1>4. /\ stored \in Nat /\ level \in 1 .. MaxChanges + 2 /\ now \in Nat /\ cached.at \in Nat
      /\ cached.version \in Versions \cup {NoVersion}
      /\ ended \in [settings : [Versions -> Nat], level : [Levels -> Nat]]
  BY <1>3, Constants DEF GoldTypeOK, Versions, NoVersion
<1>5. stored + 1 \in Versions /\ (stored # NoVersion => stored \in Versions)
  BY <1>1, <1>4, Constants DEF Versions, NoVersion
<1>6. /\ ended' \in [settings : [Versions -> Nat], level : [Levels -> Nat]]
      /\ ended'.level = ended.level
      /\ \A v \in Versions : ended'.settings[v] = IF v = stored THEN now ELSE ended.settings[v]
  <2>1. CASE stored = NoVersion
    <3>1. ended' = ended /\ stored \notin Versions
      BY <2>1 DEF SaveSettings, Versions, NoVersion
    <3> QED
      BY <1>4, <3>1
  <2>2. CASE stored # NoVersion
    <3>1. ended' = [ended EXCEPT !.settings[stored] = now]
      BY <2>2 DEF SaveSettings
    <3> QED
      BY <1>4, <1>5, <2>2, <3>1
  <2> QED
    BY <2>1, <2>2
<1>7. GoldTypeOK'
  <2>1. clearing' \in BOOLEAN
    BY <1>1, Zenon
  <2>2. contents' \in [Versions -> Settings]
    BY <1>1, <1>3 DEF GoldTypeOK
  <2> QED
    BY <1>1, <1>2, <1>3, <1>5, <1>6, <2>1, <2>2 DEF GoldTypeOK
<1>8. CachesInv'
  <2>1. ASSUME cached.version # NoVersion
        PROVE  cached.version <= stored' /\ cached.at <= ended'.settings[cached.version]
    <3>1. /\ cached.version \in Versions /\ cached.version \in Nat /\ cached.version <= stored
          /\ cached.version # stored => cached.at <= ended.settings[cached.version]
          /\ cached.at <= now
      BY <1>3, <1>4, <2>1 DEF CachesInv, Versions
    <3>2. cached.at <= ended'.settings[cached.version]
      BY <1>6, <3>1
    <3> QED
      BY <1>1, <1>4, <3>1, <3>2
  <2>2. /\ price.at # 0 =>
             /\ price.level \in 1..level
             /\ price.level # level => price.at <= ended'.level[price.level]
        /\ cached.at <= now /\ price.at <= now
    BY <1>3, <1>6 DEF CachesInv
  <2> QED
    BY <1>1, <1>2, <2>1, <2>2 DEF CachesInv
<1>9. ASSUME NEW c \in Calls PROVE AskingInv(c)'
  <2>1. AskingInv(c) /\ calls'[c] = calls[c]
    BY <1>1 DEF GoldInv
  <2>2. CASE calls[c].pc = "fill"
    <3>1. calls[c] \in GoldLocals
      BY <1>3, <2>2, Locals
    <3>2. /\ calls[c].version \in 1..stored /\ calls[c].version \in Versions
          /\ calls[c].asked \in Nat /\ calls[c].asked <= now
          /\ calls[c].version # stored => calls[c].asked <= ended.settings[calls[c].version]
      BY <2>1, <2>2, <3>1 DEF AskingInv, At, GoldLocals, NoVersion
    <3>3. calls[c].version \in 1..stored'
      BY <1>1, <1>4, <3>2
    <3>4. calls[c].asked <= ended'.settings[calls[c].version]
      BY <1>6, <3>2
    <3> QED
      BY <1>1, <2>1, <3>2, <3>3, <3>4 DEF AskingInv, At
  <2>3. CASE calls[c].pc # "fill"
    BY <1>1, <2>1, <2>3 DEF AskingInv, At
  <2> QED
    BY <2>2, <2>3
<1> QED
  BY <1>1, <1>2, <1>7, <1>8, <1>9, DocumentsKept DEF GoldInv

LEMMA ClearCacheInv == ASSUME GoldInv, ClearCache PROVE GoldInv'
<1>1. /\ clearing' = FALSE /\ cached' = [version |-> NoVersion, at |-> 0]
      /\ UNCHANGED <<now, stored, contents, pricing, purchases, calls, ended, booked>>
  BY DEF ClearCache
<1>2. UNCHANGED <<level, price, requests, sums, shared>>
  BY <1>1 DEF pricing, booked
<1>3. GoldTypeOK'
  <2>1. clearing' \in BOOLEAN
    BY <1>1, Zenon
  <2> QED
    BY <1>1, <1>2, <2>1 DEF GoldInv, GoldTypeOK
<1>4. CachesInv'
  <2>1. now \in Nat
    BY DEF GoldInv, GoldTypeOK
  <2> QED
    BY <1>1, <1>2, <2>1 DEF GoldInv, CachesInv
<1>5. \A c \in Calls : AskingInv(c)'
  BY <1>1 DEF GoldInv, AskingInv, At
<1> QED
  BY <1>1, <1>2, <1>3, <1>4, <1>5, DocumentsKept DEF GoldInv

-----------------------------------------------------------------------------
(* The price.                                                              *)

LEMMA UseCachedPriceInv ==
  ASSUME NEW c \in Calls, GoldInv, UseCachedPrice(c) PROVE GoldInv'
<1>1. /\ calls[c].pc = "price"
      /\ UNCHANGED <<now, settings, pricing, purchases, ended, booked>>
  BY DEF UseCachedPrice, At
<1>2. CASE calls[c].op = "add"
  <2> DEFINE next == [calls[c] EXCEPT !.pc = "find"]
  <2>1. GoldTypeOK /\ calls[c] \in GoldLocals
    BY <1>1, Locals DEF GoldInv
  <2>2. calls' = [calls EXCEPT ![c] = next]
    BY <1>2, <2>1 DEF UseCachedPrice, Goto, GoldTypeOK
  <2>3. /\ next \in GoldLocals /\ next.pc = "find"
        /\ next.op = calls[c].op /\ next.amount = calls[c].amount /\ next.version = calls[c].version
    BY <2>1 DEF GoldLocals
  <2>4. calls[c].amount # 0 /\ calls[c].version # NoVersion
    BY <1>1, <1>2 DEF GoldInv, AddingInv, At
  <2> HIDE DEF next
  <2>5. calls'[c] = next
    BY <2>1, <2>2, <2>3, CallsAfter
  <2>6. AskingInv(c)' /\ AddingInv(c)'
    BY <2>3, <2>4, <2>5 DEF AskingInv, AddingInv, At
  <2> QED
    BY <1>1, <2>2, <2>3, <2>6, LocalStep
<1>3. CASE calls[c].op # "add"
  <2>1. End(c)
    BY <1>3 DEF UseCachedPrice
  <2> QED
    BY <1>1, <2>1, EndInv
<1> QED
  BY <1>2, <1>3

LEMMA CountedAnewType ==
  ASSUME GoldTypeOK
  PROVE  /\ CountedAnew \in [count : Nat, reset : Nat, last : Nat]
         /\ CountedAnew.count <= requests.count
<1>1. requests \in [count : Nat, reset : Nat, last : Nat] /\ now \in Nat
  BY DEF GoldTypeOK
<1>2. /\ [requests EXCEPT !.count = 0, !.reset = now] \in [count : Nat, reset : Nat, last : Nat]
      /\ [requests EXCEPT !.count = 0, !.reset = now].count = 0
  BY <1>1
<1> QED
  BY <1>1, <1>2 DEF CountedAnew

LEMMA RequestPriceInv ==
  ASSUME NEW c \in Calls, GoldInv, RequestPrice(c) PROVE GoldInv'
<1>1. /\ calls[c].pc = "price" /\ requests' = CountedAnew
      /\ UNCHANGED <<now, settings, level, price, purchases, ended, booked>>
  BY DEF RequestPrice, At
<1>2. GoldTypeOK /\ CachesInv /\ RequestsWithinLimit /\ calls[c] \in GoldLocals /\ now \in Nat
  BY <1>1, Locals DEF GoldInv, GoldTypeOK
<1>3. UNCHANGED <<stored, contents, cached, clearing>>
  BY <1>1 DEF settings
<1>4. CachesInv'
  BY <1>1, <1>2, <1>3, CachesKept
<1>5. /\ requests' \in [count : Nat, reset : Nat, last : Nat]
      /\ requests'.count \in Nat /\ requests'.count <= requests.count
  BY <1>1, <1>2, CountedAnewType
<1>6. /\ cached' \in [version : Versions \cup {NoVersion}, at : Nat]
      /\ price' \in [karat : {0, 18, 24}, level : Nat, at : Nat]
  BY <1>1, <1>2, <1>3 DEF GoldTypeOK
<1>7. CASE MayRequest
  <2> DEFINE next == [calls[c] EXCEPT !.pc = "request", !.asked = now]
  <2>1. calls' = [calls EXCEPT ![c] = next]
    BY <1>2, <1>7 DEF RequestPrice, GoldTypeOK
  <2>2. /\ next \in GoldLocals /\ next.pc = "request" /\ next.asked = now
        /\ next.op = calls[c].op /\ next.amount = calls[c].amount /\ next.version = calls[c].version
    BY <1>2 DEF GoldLocals
  <2>3. calls[c].op = "add" => calls[c].amount # 0 /\ calls[c].version # NoVersion
    BY <1>1 DEF GoldInv, AddingInv, At
  <2> HIDE DEF next
  <2>4. calls'[c] = next
    BY <1>2, <2>1, <2>2, CallsAfter
  <2>5. AskingInv(c)' /\ AddingInv(c)'
    BY <1>1, <1>2, <2>2, <2>3, <2>4 DEF AskingInv, AddingInv, At
  <2>6. requests'.count < DayLimit
    BY <1>1, <1>7 DEF MayRequest
  <2>7. /\ Cardinality(Requesting') \in Nat /\ Cardinality(Calls) \in Nat
        /\ Cardinality(Requesting') <= Cardinality(Calls)
    <3>1. Requesting' \subseteq Calls
      BY DEF Requesting
    <3>2. IsFiniteSet(Requesting') /\ Cardinality(Requesting') <= Cardinality(Calls)
      BY <3>1, FS_Subset
    <3> QED
      BY <3>2, FS_CardinalityType
  <2>8. RequestsWithinLimit'
    BY <1>5, <2>6, <2>7, Constants DEF RequestsWithinLimit, Requesting
  <2> QED
    BY <1>1, <1>3, <1>4, <1>5, <1>6, <2>1, <2>2, <2>5, <2>8, CallStep
<1>8. CASE ~MayRequest
  <2>1. calls' = [calls EXCEPT ![c] = NoCall]
    BY <1>8 DEF RequestPrice, End
  <2>2. calls'[c] = NoCall /\ NoCall.pc = "idle"
    BY <1>2, <2>1, CallsAfter DEF NoCall
  <2>3. AskingInv(c)' /\ AddingInv(c)'
    BY <2>2, NoCallAsksNothing
  <2>4. RequestsWithinLimit'
    BY <1>2, <1>5, <2>1, <2>2, LimitOfOthers
  <2> QED
    BY <1>1, <1>3, <1>4, <1>5, <1>6, <2>1, <2>2, <2>3, <2>4, CallStep
<1> QED
  BY <1>7, <1>8

LEMMA PriceArrivesInv ==
  ASSUME NEW c \in Calls, GoldInv, PriceArrives(c) PROVE GoldInv'
<1> DEFINE found == [calls[c] EXCEPT !.pc = "find", !.asked = 0]
           next == IF calls[c].op = "add" THEN found ELSE NoCall
<1>1. /\ calls[c].pc = "request"
      /\ requests' = [requests EXCEPT !.count = @ + 1, !.last = calls[c].asked]
      /\ UNCHANGED <<now, settings, level, purchases, ended, booked>>
  BY DEF PriceArrives, At
<1>2. GoldTypeOK /\ CachesInv /\ RequestsWithinLimit /\ calls[c] \in GoldLocals
  BY <1>1, Locals DEF GoldInv
<1>3. UNCHANGED <<stored, contents, cached, clearing>>
  BY <1>1 DEF settings
<1>4. /\ calls[c].asked \in Nat /\ calls[c].asked <= now /\ calls[c].karat \in {18, 24}
      /\ calls[c].op = "add" => calls[c].amount # 0 /\ calls[c].version # NoVersion
  BY <1>1, <1>2 DEF GoldInv, GoldLocals, AskingInv, AddingInv, At
<1>5. PICK l \in PriceSince(c) : price' = Answered(c, l)
  BY DEF PriceArrives
<1>6. /\ l \in 1..level /\ l \in Nat
      /\ l < level => ended.level[l] >= calls[c].asked
  BY DEF PriceSince
<1>7. /\ price' \in [karat : {0, 18, 24}, level : Nat, at : Nat]
      /\ price'.level = l /\ price'.at = calls[c].asked
  BY <1>4, <1>5, <1>6 DEF Answered
<1>8. CachesInv'
  <2>1. price'.level # level => price'.at <= ended.level[price'.level]
    <3>1. level \in Nat /\ ended.level \in [Levels -> Nat] /\ level \in 1 .. MaxChanges + 2
      BY <1>2, Constants DEF GoldTypeOK
    <3>2. l # level => l < level /\ l \in Levels
      BY <1>6, <3>1, Constants DEF Levels
    <3>3. l # level => ended.level[l] \in Nat
      BY <3>1, <3>2
    <3> QED
      BY <1>4, <1>6, <1>7, <3>2, <3>3
  <2> QED
    BY <1>1, <1>2, <1>3, <1>4, <1>6, <1>7, <2>1 DEF CachesInv
<1>9. /\ requests' \in [count : Nat, reset : Nat, last : Nat]
      /\ requests.count \in Nat /\ requests'.count = requests.count + 1
  <2>1. requests \in [count : Nat, reset : Nat, last : Nat]
    BY <1>2 DEF GoldTypeOK
  <2>2. requests.count \in Nat /\ requests.count + 1 \in Nat /\ calls[c].asked \in Nat
    BY <1>4, <2>1
  <2>3. requests' = [requests EXCEPT !.count = requests.count + 1, !.last = calls[c].asked]
    BY <1>1
  <2> QED
    BY <2>1, <2>2, <2>3
<1>10. calls' = [calls EXCEPT ![c] = next]
  <2>1. CASE calls[c].op = "add"
    BY <1>2, <2>1 DEF PriceArrives, GoldTypeOK
  <2>2. CASE calls[c].op # "add"
    BY <2>2 DEF PriceArrives, End
  <2> QED
    BY <2>1, <2>2
<1>11. /\ found \in GoldLocals /\ found.pc = "find" /\ found.op = calls[c].op
       /\ found.amount = calls[c].amount /\ found.version = calls[c].version
  BY <1>2 DEF GoldLocals
<1> HIDE DEF found
<1>12. /\ next \in {NoCall} \cup GoldLocals /\ next.pc \in {"idle", "find"}
       /\ next.pc = "find" => next.version # NoVersion /\ next.amount # 0
  BY <1>4, <1>11 DEF NoCall
<1> HIDE DEF next
<1>13. calls'[c] = next /\ \A d \in Calls \ {c} : calls'[d] = calls[d]
  BY <1>2, <1>10, <1>12, CallsAfter
<1>14. AskingInv(c)' /\ AddingInv(c)'
  BY <1>12, <1>13 DEF AskingInv, AddingInv, At
<1>15. RequestsWithinLimit'
  <2>1. c \in Requesting /\ Requesting' = Requesting \ {c}
    BY <1>1, <1>12, <1>13 DEF Requesting, At
  <2>2. IsFiniteSet(Requesting)
    BY FS_Subset DEF Requesting
  <2>3. Cardinality(Requesting') = Cardinality(Requesting) - 1
    BY <2>1, <2>2, FS_RemoveElement
  <2>4. Cardinality(Requesting) \in Nat /\ Cardinality(Calls) \in Nat
    BY <2>2, FS_CardinalityType
  <2> QED
    BY <1>2, <1>9, <2>3, <2>4, Constants DEF RequestsWithinLimit
<1>16. cached' \in [version : Versions \cup {NoVersion}, at : Nat]
  BY <1>2, <1>3 DEF GoldTypeOK
<1> QED
  BY <1>1, <1>3, <1>7, <1>8, <1>9, <1>10, <1>12, <1>14, <1>15, <1>16, CallStep

LEMMA PriceFailsInv ==
  ASSUME NEW c \in Calls, GoldInv, PriceFails(c) PROVE GoldInv'
  BY EndInv DEF PriceFails

LEMMA MarketMovesInv == ASSUME GoldInv, MarketMoves PROVE GoldInv'
<1>1. /\ stored + level <= MaxChanges + 1 /\ level' = level + 1
      /\ ended' = [ended EXCEPT !.level[level] = now]
      /\ UNCHANGED <<now, settings, price, requests, purchases, calls, booked>>
  BY DEF MarketMoves
<1>2. UNCHANGED <<stored, contents, cached, clearing, sums, shared>>
  BY <1>1 DEF settings, booked
<1>3. GoldTypeOK /\ CachesInv
  BY DEF GoldInv
<1>4. /\ stored \in Nat /\ level \in 1 .. MaxChanges + 2 /\ now \in Nat /\ price.at \in Nat
      /\ price.level \in Nat /\ level \in Nat
      /\ ended \in [settings : [Versions -> Nat], level : [Levels -> Nat]]
  <2>1. /\ stored \in Versions \cup {NoVersion} /\ level \in 1 .. MaxChanges + 2 /\ now \in Nat
        /\ price \in [karat : {0, 18, 24}, level : Nat, at : Nat]
        /\ ended \in [settings : [Versions -> Nat], level : [Levels -> Nat]]
    BY <1>3 DEF GoldTypeOK
  <2>2. stored \in Nat /\ level \in Nat
    BY <2>1, Constants DEF Versions, NoVersion
  <2> QED
    BY <2>1, <2>2
<1>5. level \in Levels /\ level' \in 1 .. MaxChanges + 2
  <2>1. level <= MaxChanges + 1
    BY <1>1, <1>4, Constants
  <2>2. level + 1 \in 1 .. MaxChanges + 2
    BY <1>4, <2>1, Constants
  <2> QED
    BY <1>1, <1>4, <2>1, <2>2, Constants DEF Levels
<1>6. /\ ended' \in [settings : [Versions -> Nat], level : [Levels -> Nat]]
      /\ ended'.settings = ended.settings
      /\ \A l \in Levels : ended'.level[l] = IF l = level THEN now ELSE ended.level[l]
  BY <1>1, <1>4, <1>5
<1>7. GoldTypeOK'
  BY <1>1, <1>2, <1>3, <1>5, <1>6 DEF GoldTypeOK
<1>8. CachesInv'
  <2>1. ASSUME price.at # 0
        PROVE  price.level \in 1..level' /\ price.at <= ended'.level[price.level]
    <3>1. /\ price.level \in 1..level /\ price.at <= now
          /\ price.level # level => price.at <= ended.level[price.level]
      BY <1>3, <2>1 DEF CachesInv
    <3>2. price.level \in Levels
      BY <1>4, <1>5, <3>1, Constants DEF Levels
    <3>3. price.at <= ended'.level[price.level]
      BY <1>6, <3>1, <3>2
    <3> QED
      BY <1>1, <1>4, <3>1, <3>3
  <2>2. /\ cached.version # NoVersion =>
             /\ cached.version <= stored
             /\ cached.version # stored => cached.at <= ended'.settings[cached.version]
        /\ cached.at <= now /\ price.at <= now
    BY <1>3, <1>6 DEF CachesInv
  <2> QED
    BY <1>1, <1>2, <2>1, <2>2 DEF CachesInv
<1>9. \A c \in Calls : AskingInv(c)'
  BY <1>1, <1>2, <1>6 DEF GoldInv, AskingInv, At
<1> QED
  BY <1>1, <1>7, <1>8, <1>9, DocumentsKept DEF GoldInv

LEMMA TickInv == ASSUME GoldInv, Tick PROVE GoldInv'
<1>1. now' = now + 1 /\ UNCHANGED <<settings, pricing, purchases, calls, ended, booked>>
  BY DEF Tick
<1>2. UNCHANGED <<stored, contents, cached, clearing, level, price, requests, sums, shared>>
  BY <1>1 DEF settings, pricing, booked
<1>3. GoldTypeOK /\ CachesInv /\ now \in Nat /\ cached.at \in Nat /\ price.at \in Nat
  BY DEF GoldInv, GoldTypeOK
<1>4. GoldTypeOK'
  BY <1>1, <1>2, <1>3 DEF GoldTypeOK
<1>5. CachesInv'
  BY <1>1, <1>2, <1>3 DEF CachesInv
<1>6. ASSUME NEW c \in Calls PROVE AskingInv(c)'
  <2>1. AskingInv(c) /\ calls'[c] = calls[c]
    BY <1>1 DEF GoldInv
  <2>2. calls[c].pc \in {"query", "default", "fill", "request"} => calls[c].asked \in Nat
    BY <1>3, Locals DEF GoldLocals
  <2> QED
    BY <1>1, <1>2, <1>3, <2>1, <2>2 DEF AskingInv, At
<1> QED
  BY <1>1, <1>2, <1>4, <1>5, <1>6, DocumentsKept DEF GoldInv

-----------------------------------------------------------------------------
(* The purchase.                                                           *)

\* A set of numbers has a least one ...
LEMMA Least ==
  ASSUME NEW S \in SUBSET Nat, S # {}
  PROVE  \E x \in S : \A y \in S : x <= y
<1>1. PICK x \in S : \A y \in S : ~ (<<y, x>> \in OpToRel(<, Nat))
  BY NatLessThanWellFounded, WFMin
<1>2. \A y \in S : y < x => <<y, x>> \in OpToRel(<, Nat)
  BY DEF OpToRel
<1>3. \A y \in S : ~(y < x)
  BY <1>1, <1>2, Zenon
<1>4. \A y \in Nat : y \in S => x <= y
  BY <1>3
<1> QED
  BY <1>4

\* ... and a set of purchases a newest one.
LEMMA Newest ==
  ASSUME NEW S \in SUBSET Purchases, S # {}
  PROVE  \E x \in S : \A y \in S : y <= x
<1> DEFINE T == {MaxPurchases - k : k \in S}
<1>1. \A k \in S : k \in 1..MaxPurchases
  BY DEF Purchases
<1>2. T \in SUBSET Nat /\ T # {}
  <2>1. \A m \in T : m \in Nat
    BY <1>1, Constants
  <2> QED
    BY <2>1
<1>3. PICK m \in T : \A l \in T : m <= l
  <2> HIDE DEF T
  <2> QED
    BY <1>2, Least
<1>4. PICK x \in S : m = MaxPurchases - x
  BY <1>3
<1>5. \A y \in S : MaxPurchases - x <= MaxPurchases - y
  BY <1>3, <1>4
<1>6. \A y \in S : y <= x
  BY <1>1, <1>5, Constants
<1> QED
  BY <1>6

\* What the query finds is there.
LEMMA FoundLives ==
  ASSUME NEW c \in Calls
  PROVE  /\ Found(c) \in Purchases \cup {0}
         /\ Found(c) # 0 => Found(c) \in Purchases /\ purchases[Found(c)].live
<1> DEFINE mine == {p \in Purchases : purchases[p].live /\
                      IF calls[c].member THEN purchases[p].member
                      ELSE purchases[p].session = calls[c].session}
<1>1. CASE mine = {}
  BY <1>1 DEF Found
<1>2. CASE mine # {}
  <2>1. Found(c) = CHOOSE p \in mine : \A q \in mine : q <= p
    BY <1>2 DEF Found
  <2>2. \E p \in mine : \A q \in mine : q <= p
    <3>1. mine \in SUBSET Purchases
      OBVIOUS
    <3> HIDE DEF mine
    <3> QED
      BY <1>2, <3>1, Newest
  <2>3. Found(c) \in mine
    <3> HIDE DEF mine
    <3> QED
      BY <2>1, <2>2
  <2> QED
    BY <2>3
<1> QED
  BY <1>1, <1>2

LEMMA AmountsType == \A a \in {0} \cup Amounts : a \in Nat
  OBVIOUS

LEMMA FeeType ==
  ASSUME NEW c \in Calls, GoldTypeOK, calls[c] \in GoldLocals, calls[c].version # NoVersion
  PROVE  Fee(c) \in Nat
<1>1. contents[calls[c].version] \in Settings /\ calls[c].amount \in Nat
  <2>1. calls[c].amount \in {0} \cup Amounts /\ calls[c].version \in Versions
    BY DEF GoldLocals
  <2>2. contents \in [Versions -> Settings]
    BY DEF GoldTypeOK
  <2>3. contents[calls[c].version] \in Settings
    BY <2>1, <2>2
  <2>4. \A a \in {0} \cup Amounts : a \in Nat
    BY AmountsType
  <2> QED
    BY <2>1, <2>3, <2>4
<1>2. PICK s \in [min : Nat, max : Nat, fixed : {None} \cup Nat, percent : {None} \cup Nat] :
             s = contents[calls[c].version]
  BY <1>1
<1>3. /\ s.fixed # None => s.fixed \in Nat
      /\ s.percent # None => s.percent \in Nat
  BY <1>2
<1>4. ASSUME NEW a \in Nat, NEW b \in Nat PROVE (a * b) \div 100 \in Nat
  <2>1. a * b \in Nat
    OBVIOUS
  <2> QED
    BY <2>1
<1>5. s.percent # None => (calls[c].amount * s.percent) \div 100 \in Nat
  BY <1>1, <1>3, <1>4
<1> QED
  BY <1>2, <1>3, <1>5 DEF Fee, Commission

\* The fields of a document after an addition ...
LEMMA AddToFields ==
  ASSUME NEW c \in Calls, NEW p \in PurchaseRecords, GoldTypeOK, calls[c] \in GoldLocals,
         calls[c].version # NoVersion
  PROVE  /\ AddTo(p, c) \in PurchaseRecords /\ AddTo(p, c).live = p.live
         /\ AddTo(p, c).original = p.original + calls[c].amount
         /\ AddTo(p, c).commission = p.commission + Fee(c)
         /\ AddTo(p, c).total = p.total + calls[c].amount + Fee(c)
<1>1. Fee(c) \in Nat
  BY FeeType
<1>2. calls[c].amount \in Nat /\ now + PurchaseLife \in Nat
  <2>1. calls[c].amount \in {0} \cup Amounts
    BY DEF GoldLocals
  <2>2. now \in Nat
    BY DEF GoldTypeOK
  <2>3. now + PurchaseLife \in Nat
    BY <2>2, Constants
  <2>4. \A a \in {0} \cup Amounts : a \in Nat
    BY AmountsType
  <2> QED
    BY <2>1, <2>3, <2>4
<1>3. p.original \in Nat /\ p.commission \in Nat /\ p.total \in Nat
  BY DEF PurchaseRecords
<1>4. /\ p.original + calls[c].amount \in Nat /\ p.commission + Fee(c) \in Nat
      /\ p.total + calls[c].amount + Fee(c) \in Nat
  BY <1>1, <1>2, <1>3
<1>5. AddTo(p, c) = [p EXCEPT !.original = p.original + calls[c].amount,
                              !.commission = p.commission + Fee(c),
                              !.total = p.total + calls[c].amount + Fee(c),
                              !.expires = now + PurchaseLife]
  BY DEF AddTo
<1> QED
  BY <1>2, <1>4, <1>5 DEF PurchaseRecords

\* ... and after the save of the fields that changed.
LEMMA WithChangesFields ==
  ASSUME NEW p \in PurchaseRecords, NEW doc \in PurchaseRecords, NEW read \in PurchaseRecords
  PROVE  /\ WithChanges(p, doc, read) \in PurchaseRecords
         /\ doc.live = read.live => WithChanges(p, doc, read).live = p.live
         /\ read = p => WithChanges(p, doc, read) = doc
<1> DEFINE saved == WithChanges(p, doc, read)
<1>1. /\ saved.live = IF doc.live # read.live THEN doc.live ELSE p.live
      /\ saved.member = IF doc.member # read.member THEN doc.member ELSE p.member
      /\ saved.session = IF doc.session # read.session THEN doc.session ELSE p.session
      /\ saved.original = IF doc.original # read.original THEN doc.original ELSE p.original
      /\ saved.commission = IF doc.commission # read.commission THEN doc.commission ELSE p.commission
      /\ saved.total = IF doc.total # read.total THEN doc.total ELSE p.total
      /\ saved.expires = IF doc.expires # read.expires THEN doc.expires ELSE p.expires
  BY DEF WithChanges, PurchaseRecords
<1>2. saved = [live |-> saved.live, member |-> saved.member, session |-> saved.session,
               original |-> saved.original, commission |-> saved.commission,
               total |-> saved.total, expires |-> saved.expires]
  BY DEF WithChanges, PurchaseRecords
<1> HIDE DEF saved
<1>3. /\ saved.live \in BOOLEAN /\ saved.member \in BOOLEAN
      /\ saved.session \in Sessions \cup {None} /\ saved.original \in Nat
      /\ saved.commission \in Nat /\ saved.total \in Nat /\ saved.expires \in Nat
  BY <1>1 DEF PurchaseRecords
<1>4. saved \in PurchaseRecords
  BY <1>2, <1>3 DEF PurchaseRecords
<1>5. read = p => saved = doc
  BY <1>1, <1>2 DEF PurchaseRecords
<1> QED
  BY <1>1, <1>4, <1>5 DEF saved

\* A step on the purchases: a call goes on to a statement on them, or is done.
LEMMA DocumentStep ==
  ASSUME NEW c \in Calls, NEW next \in {NoCall} \cup GoldLocals, GoldInv,
         calls' = [calls EXCEPT ![c] = next], next.pc \in {"idle", "save", "drop"},
         UNCHANGED <<now, settings, pricing, ended>>, AddingInv(c)',
         purchases' \in [Purchases -> PurchaseRecords],
         sums' \in [Purchases -> [original : Nat, commission : Nat]], shared' \subseteq Purchases,
         InHandInv', UnmadeInv', PurchaseAddsUp'
  PROVE  GoldInv'
<1>1. UNCHANGED <<stored, contents, cached, clearing, level, price, requests>>
  BY DEF settings, pricing
<1>2. GoldTypeOK /\ CachesInv /\ RequestsWithinLimit
  BY DEF GoldInv
<1>3. /\ calls' \in [Calls -> {NoCall} \cup GoldLocals] /\ calls'[c] = next
      /\ \A d \in Calls \ {c} : calls'[d] = calls[d]
  BY <1>2, CallsAfter
<1>4. GoldTypeOK'
  BY <1>1, <1>2, <1>3 DEF GoldTypeOK
<1>5. CachesInv'
  BY <1>1, <1>2, CachesKept
<1>6. RequestsWithinLimit'
  <2>1. requests.count \in Nat
    BY <1>2 DEF GoldTypeOK
  <2>2. requests'.count \in Nat /\ requests'.count <= requests.count
    BY <1>1, <2>1
  <2>3. next.pc # "request"
    OBVIOUS
  <2> QED
    BY <1>2, <2>2, <2>3, LimitOfOthers
<1>7. AskingInv(c)'
  BY <1>3 DEF AskingInv, At
<1>8. ASSUME NEW d \in Calls \ {c} PROVE AskingInv(d)' /\ AddingInv(d)'
  <2>1. AskingInv(d) /\ AddingInv(d) /\ calls'[d] = calls[d]
    BY <1>3 DEF GoldInv
  <2> QED
    BY <1>1, <2>1 DEF AskingInv, AddingInv, At
<1> QED
  BY <1>4, <1>5, <1>6, <1>7, <1>8 DEF GoldInv

LEMMA FindPurchaseInv ==
  ASSUME NEW c \in Calls, GoldInv, FindPurchase(c) PROVE GoldInv'
<1> DEFINE p == Found(c)
           read == IF p = 0 THEN NoPurchase ELSE purchases[p]
           adding == [calls[c] EXCEPT !.pc = "save", !.purchase = p, !.read = read]
           dropping == [calls[c] EXCEPT !.pc = "drop", !.purchase = p]
<1>1. /\ calls[c].pc = "find"
      /\ shared' = IF p # 0 /\ InHand(p) # {} THEN shared \cup {p} ELSE shared
      /\ UNCHANGED <<now, settings, pricing, purchases, ended, sums>>
  BY DEF FindPurchase, At
<1>2. /\ GoldTypeOK /\ CachesInv /\ InHandInv /\ UnmadeInv /\ PurchaseAddsUp
      /\ calls[c] \in GoldLocals
  BY <1>1, Locals DEF GoldInv
<1>3. p \in Purchases \cup {0} /\ (p # 0 => p \in Purchases /\ purchases[p].live)
  BY FoundLives
<1>4. purchases \in [Purchases -> PurchaseRecords]
  BY <1>2 DEF GoldTypeOK
<1>5. read \in PurchaseRecords /\ (p # 0 => read = purchases[p])
  BY <1>3, <1>4, NoPurchaseType
<1>6. calls[c].op = "add" => calls[c].amount # 0 /\ calls[c].version # NoVersion
  BY <1>1 DEF GoldInv, AddingInv, At
<1> HIDE DEF p, read
<1>7. /\ adding \in GoldLocals /\ adding.pc = "save" /\ adding.purchase = p /\ adding.read = read
      /\ adding.amount = calls[c].amount /\ adding.version = calls[c].version
  BY <1>2, <1>3, <1>5 DEF GoldLocals
<1>8. /\ dropping \in GoldLocals /\ dropping.pc = "drop" /\ dropping.purchase = p
       /\ dropping.op = calls[c].op
  BY <1>2, <1>3 DEF GoldLocals
<1>9. NoCall.pc = "idle"
  BY DEF NoCall
<1>10. PICK next \in {NoCall} \cup GoldLocals :
        /\ calls' = [calls EXCEPT ![c] = next]
        /\ next.pc \in {"idle", "save", "drop"}
        /\ next.pc # "idle" => next.purchase = p
        /\ next.pc = "save" => next.read = read /\ next.amount # 0 /\ next.version # NoVersion
        /\ next.pc = "drop" => next.op # "add" /\ p # 0
  <2>1. CASE calls[c].op = "add"
    <3>1. calls' = [calls EXCEPT ![c] = adding]
      BY <2>1 DEF FindPurchase, p, read
    <3> HIDE DEF adding
    <3> QED
      BY <1>6, <1>7, <2>1, <3>1
  <2>2. CASE calls[c].op # "add" /\ p # 0 /\ (calls[c].op = "clear" \/ Expired(purchases[p]))
    <3>1. calls' = [calls EXCEPT ![c] = dropping]
      BY <2>2 DEF FindPurchase, p, read
    <3> HIDE DEF dropping
    <3> QED
      BY <1>8, <2>2, <3>1
  <2>3. CASE calls[c].op # "add" /\ ~(p # 0 /\ (calls[c].op = "clear" \/ Expired(purchases[p])))
    <3>1. calls' = [calls EXCEPT ![c] = NoCall]
      BY <2>3 DEF FindPurchase, p, read
    <3> QED
      BY <1>9, <3>1
  <2> QED
    BY <2>1, <2>2, <2>3
<1>11. calls'[c] = next /\ \A d \in Calls \ {c} : calls'[d] = calls[d]
  BY <1>2, <1>10, CallsAfter
<1>12. AddingInv(c)'
  BY <1>10, <1>11 DEF AddingInv, At
<1>13. shared \subseteq shared' /\ shared' \subseteq Purchases
  BY <1>1, <1>2, <1>3 DEF GoldTypeOK
<1>14. InHandInv'
  <2> SUFFICES ASSUME NEW q \in Purchases \ shared', NEW d \in Calls, HasInHand(d, q)'
               PROVE  /\ purchases'[q].live
                      /\ calls'[d].pc = "save" => calls'[d].read = purchases'[q]
                      /\ \A e \in Calls : HasInHand(e, q)' => e = d
    BY DEF InHandInv, At
  <2>1. q # 0 /\ q \in Purchases \ shared
    BY <1>13 DEF Purchases
  <2>2. CASE d = c
    <3>1. q = p /\ purchases'[q].live /\ (calls'[d].pc = "save" => calls'[d].read = purchases'[q])
      BY <1>1, <1>3, <1>5, <1>10, <1>11, <2>1, <2>2 DEF HasInHand
    <3>2. InHand(p) = {}
      BY <1>1, <2>1, <3>1
    <3>3. \A e \in Calls : HasInHand(e, q)' => e = d
      BY <1>11, <2>2, <3>1, <3>2 DEF HasInHand, InHand
    <3> QED
      BY <3>1, <3>3
  <2>3. CASE d # c
    <3>1. HasInHand(d, q) /\ calls'[d] = calls[d]
      BY <1>11, <2>3 DEF HasInHand
    <3>2. /\ purchases[q].live /\ (calls[d].pc = "save" => calls[d].read = purchases[q])
          /\ \A e \in Calls : HasInHand(e, q) => e = d
      BY <1>2, <2>1, <3>1 DEF InHandInv, At
    <3>3. ~HasInHand(c, q)'
      <4>1. d \in InHand(q)
        BY <3>1 DEF InHand, HasInHand
      <4>2. HasInHand(c, q)' => q = p
        BY <1>10, <1>11 DEF HasInHand
      <4> QED
        BY <1>1, <2>1, <4>1, <4>2
    <3>4. \A e \in Calls : HasInHand(e, q)' => e = d
      BY <1>11, <3>2, <3>3 DEF HasInHand
    <3> QED
      BY <1>1, <3>1, <3>2, <3>4
  <2> QED
    BY <2>2, <2>3
<1>15. UnmadeInv' /\ PurchaseAddsUp'
  BY <1>1, <1>2, <1>13 DEF UnmadeInv, PurchaseAddsUp
<1>16. /\ purchases' \in [Purchases -> PurchaseRecords]
       /\ sums' \in [Purchases -> [original : Nat, commission : Nat]]
  BY <1>1, <1>2 DEF GoldTypeOK
<1> QED
  BY <1>1, <1>10, <1>12, <1>13, <1>14, <1>15, <1>16, DocumentStep

\* A call that changes one purchase it had in hand, and is done.
LEMMA OthersInHand ==
  ASSUME NEW c \in Calls, NEW p \in Purchases, GoldInv, calls' = [calls EXCEPT ![c] = NoCall],
         HasInHand(c, p) \/ ~purchases[p].live,
         \A q \in Purchases : q # p => purchases'[q] = purchases[q], UNCHANGED shared
  PROVE  InHandInv'
<1>1. GoldTypeOK /\ InHandInv
  BY DEF GoldInv
<1>2. calls'[c].pc = "idle" /\ \A d \in Calls \ {c} : calls'[d] = calls[d]
  BY <1>1, CallsAfter DEF NoCall
<1>3. \A q \in Purchases, d \in Calls : HasInHand(d, q)' => HasInHand(d, q) /\ d # c
  BY <1>2 DEF HasInHand
<1>4. \A d \in Calls : p \notin shared => ~HasInHand(d, p)'
  BY <1>1, <1>3 DEF InHandInv
<1> SUFFICES ASSUME NEW q \in Purchases \ shared, NEW d \in Calls, HasInHand(d, q)'
             PROVE  /\ purchases'[q].live
                    /\ calls'[d].pc = "save" => calls'[d].read = purchases'[q]
                    /\ \A e \in Calls : HasInHand(e, q)' => e = d
  BY DEF InHandInv, At
<1>5. q # p /\ HasInHand(d, q) /\ calls'[d] = calls[d] /\ purchases'[q] = purchases[q]
  BY <1>2, <1>3, <1>4
<1>6. /\ purchases[q].live /\ (calls[d].pc = "save" => calls[d].read = purchases[q])
      /\ \A e \in Calls : HasInHand(e, q) => e = d
  BY <1>1, <1>5 DEF InHandInv, At
<1> QED
  BY <1>3, <1>5, <1>6

LEMMA RemovePurchaseInv ==
  ASSUME NEW c \in Calls, GoldInv, RemovePurchase(c) PROVE GoldInv'
<1> DEFINE p == calls[c].purchase
<1>1. /\ calls[c].pc = "drop" /\ calls' = [calls EXCEPT ![c] = NoCall]
      /\ purchases' = IF MayDrop(c) THEN [purchases EXCEPT ![p].live = FALSE] ELSE purchases
      /\ UNCHANGED <<now, settings, pricing, ended, booked>>
  BY DEF RemovePurchase, At, End
<1>2. /\ GoldTypeOK /\ UnmadeInv /\ PurchaseAddsUp /\ calls[c] \in GoldLocals
  BY <1>1, Locals DEF GoldInv
<1>3. p # 0 /\ p \in Purchases
  <2>1. p # 0
    BY <1>1 DEF GoldInv, AddingInv, At
  <2> QED
    BY <1>2, <2>1 DEF GoldLocals
<1>4. HasInHand(c, p)
  BY <1>1 DEF HasInHand
<1> HIDE DEF p
<1>5. purchases \in [Purchases -> PurchaseRecords]
  BY <1>2 DEF GoldTypeOK
<1>6. /\ purchases' \in [Purchases -> PurchaseRecords]
      /\ \A q \in Purchases :
           /\ q # p => purchases'[q] = purchases[q]
           /\ purchases'[q].live => purchases[q].live
           /\ purchases'[q].original = purchases[q].original
           /\ purchases'[q].commission = purchases[q].commission
           /\ purchases'[q].total = purchases[q].total
  <2>1. CASE MayDrop(c)
    <3>1. purchases' = [purchases EXCEPT ![p].live = FALSE]
      BY <1>1, <2>1
    <3> QED
      BY <1>3, <1>5, <3>1 DEF PurchaseRecords
  <2>2. CASE ~MayDrop(c)
    BY <1>1, <1>5, <2>2
  <2> QED
    BY <2>1, <2>2
<1>7. UNCHANGED <<sums, shared>>
  BY <1>1 DEF booked
<1>8. InHandInv'
  BY <1>1, <1>3, <1>4, <1>6, <1>7, OthersInHand
<1>9. UnmadeInv' /\ PurchaseAddsUp'
  BY <1>2, <1>6, <1>7 DEF UnmadeInv, PurchaseAddsUp
<1>10. NoCall.pc = "idle" /\ AddingInv(c)'
  <2>1. calls'[c] = NoCall
    BY <1>1, <1>2, CallsAfter
  <2> QED
    BY <2>1, NoCallAsksNothing
<1>11. /\ sums' \in [Purchases -> [original : Nat, commission : Nat]] /\ shared' \subseteq Purchases
  BY <1>2, <1>7 DEF GoldTypeOK
<1> QED
  BY <1>1, <1>6, <1>8, <1>9, <1>10, <1>11, DocumentStep

\* What Book adds to the sums of a purchase.
LEMMA BookSums ==
  ASSUME NEW c \in Calls, NEW p \in Purchases, GoldTypeOK, calls[c] \in GoldLocals,
         calls[c].amount # 0, calls[c].version # NoVersion, Book(p, c)
  PROVE  /\ sums' \in [Purchases -> [original : Nat, commission : Nat]]
         /\ \A q \in Purchases : q # p => sums'[q] = sums[q]
         /\ sums'[p].original = sums[p].original + calls[c].amount
         /\ sums'[p].commission = sums[p].commission + Fee(c)
         /\ sums'[p].original # 0
         /\ sums[p].original \in Nat /\ sums[p].commission \in Nat
         /\ calls[c].amount \in Nat /\ Fee(c) \in Nat
<1>1. Fee(c) \in Nat
  BY FeeType
<1>2. calls[c].amount \in Nat
  <2>1. calls[c].amount \in {0} \cup Amounts
    BY DEF GoldLocals
  <2> QED
    BY <2>1, AmountsType
<1>3. sums \in [Purchases -> [original : Nat, commission : Nat]]
  BY DEF GoldTypeOK
<1>4. sums[p].original \in Nat /\ sums[p].commission \in Nat
  BY <1>3
<1>5. sums[p].original + calls[c].amount \in Nat \ {0} /\ sums[p].commission + Fee(c) \in Nat
  BY <1>1, <1>2, <1>4
<1>6. sums' = [sums EXCEPT ![p].original = sums[p].original + calls[c].amount,
                           ![p].commission = sums[p].commission + Fee(c)]
  BY <1>3 DEF Book
<1> QED
  BY <1>1, <1>2, <1>3, <1>4, <1>5, <1>6

LEMMA SaveAdditionInv ==
  ASSUME NEW c \in Calls, GoldInv, SaveAddition(c) PROVE GoldInv'
<1> DEFINE p == calls[c].purchase
           read == calls[c].read
<1>1. /\ calls[c].pc = "save" /\ p # 0 /\ calls' = [calls EXCEPT ![c] = NoCall]
      /\ UNCHANGED <<now, settings, pricing, ended, shared>>
  BY DEF SaveAddition, At, End
<1>2. GoldTypeOK /\ InHandInv /\ UnmadeInv /\ PurchaseAddsUp /\ calls[c] \in GoldLocals
  BY <1>1, Locals DEF GoldInv
<1>3. p \in Purchases /\ read \in PurchaseRecords
  BY <1>1, <1>2 DEF GoldLocals
<1>4. calls[c].amount # 0 /\ calls[c].version # NoVersion
  BY <1>1 DEF GoldInv, AddingInv, At
<1>5. HasInHand(c, p)
  BY <1>1 DEF HasInHand
<1>6. NoCall.pc = "idle" /\ AddingInv(c)'
  <2>1. calls'[c] = NoCall
    BY <1>1, <1>2, CallsAfter
  <2> QED
    BY <2>1, NoCallAsksNothing
<1>7. purchases \in [Purchases -> PurchaseRecords] /\ shared' \subseteq Purchases
  BY <1>1, <1>2 DEF GoldTypeOK
<1>8. CASE purchases[p].live
  <2>1. /\ purchases' = [purchases EXCEPT
              ![p] = WithChanges(purchases[p], AddTo(read, c), read)]
        /\ Book(p, c)
    BY <1>7, <1>8 DEF SaveAddition
  <2>2. p \notin shared => read = purchases[p]
    BY <1>1, <1>2, <1>3, <1>5 DEF InHandInv, At
  <2> HIDE DEF p, read
  <2>3. /\ AddTo(read, c) \in PurchaseRecords /\ AddTo(read, c).live = read.live
        /\ AddTo(read, c).original = read.original + calls[c].amount
        /\ AddTo(read, c).commission = read.commission + Fee(c)
        /\ AddTo(read, c).total = read.total + calls[c].amount + Fee(c)
    BY <1>2, <1>3, <1>4, AddToFields
  <2>4. /\ WithChanges(purchases[p], AddTo(read, c), read) \in PurchaseRecords
        /\ read = purchases[p] =>
             WithChanges(purchases[p], AddTo(read, c), read) = AddTo(read, c)
    BY <1>3, <1>7, <2>3, WithChangesFields
  <2>5. /\ purchases' \in [Purchases -> PurchaseRecords]
        /\ \A q \in Purchases : q # p => purchases'[q] = purchases[q]
        /\ p \notin shared => purchases'[p] = AddTo(purchases[p], c)
    BY <1>3, <1>7, <2>1, <2>2, <2>4
  <2>6. /\ sums' \in [Purchases -> [original : Nat, commission : Nat]]
        /\ \A q \in Purchases : q # p => sums'[q] = sums[q]
        /\ sums'[p].original = sums[p].original + calls[c].amount
        /\ sums'[p].commission = sums[p].commission + Fee(c)
        /\ sums'[p].original # 0
        /\ sums[p].original \in Nat /\ sums[p].commission \in Nat
        /\ calls[c].amount \in Nat /\ Fee(c) \in Nat
    BY <1>2, <1>3, <1>4, <2>1, BookSums
  <2>7. InHandInv'
    BY <1>1, <1>3, <1>5, <2>5, OthersInHand
  <2>8. UnmadeInv'
    BY <1>2, <2>5, <2>6 DEF UnmadeInv
  <2>9. ASSUME p \notin shared
        PROVE  /\ purchases'[p].original = sums'[p].original
               /\ purchases'[p].commission = sums'[p].commission
               /\ purchases'[p].total = sums'[p].original + sums'[p].commission
    <3>1. /\ purchases[p].original = sums[p].original
          /\ purchases[p].commission = sums[p].commission
          /\ purchases[p].total = sums[p].original + sums[p].commission
      BY <1>2, <1>3, <1>8, <2>9 DEF PurchaseAddsUp
    <3> QED
      BY <2>2, <2>3, <2>5, <2>6, <2>9, <3>1
  <2>10. PurchaseAddsUp'
    BY <1>1, <1>2, <2>5, <2>6, <2>9 DEF PurchaseAddsUp
  <2> QED
    BY <1>1, <1>6, <1>7, <2>5, <2>6, <2>7, <2>8, <2>10, DocumentStep
<1>9. CASE ~purchases[p].live
  <2>1. UNCHANGED <<purchases, sums>>
    BY <1>9 DEF SaveAddition
  <2>2. InHandInv'
    BY <1>1, <1>3, <1>5, <2>1, OthersInHand
  <2>3. UnmadeInv' /\ PurchaseAddsUp'
    BY <1>1, <1>2, <2>1 DEF UnmadeInv, PurchaseAddsUp
  <2>4. sums' \in [Purchases -> [original : Nat, commission : Nat]]
    BY <1>2, <2>1 DEF GoldTypeOK
  <2> QED
    BY <1>1, <1>6, <1>7, <2>1, <2>2, <2>3, <2>4, DocumentStep
<1> QED
  BY <1>8, <1>9

LEMMA SavePurchaseInv ==
  ASSUME NEW c \in Calls, GoldInv, SavePurchase(c) PROVE GoldInv'
<1> DEFINE new == [NoPurchase EXCEPT
                     !.live = TRUE, !.member = calls[c].member, !.session = calls[c].session]
<1>1. /\ calls[c].pc = "save" /\ calls' = [calls EXCEPT ![c] = NoCall]
      /\ UNCHANGED <<now, settings, pricing, ended, shared>>
  BY DEF SavePurchase, At, End
<1>2. PICK p \in Purchases :
        /\ ~purchases[p].live /\ sums[p].original = 0
        /\ purchases' = [purchases EXCEPT ![p] = AddTo(new, c)] /\ Book(p, c)
  BY DEF SavePurchase
<1>3. GoldTypeOK /\ InHandInv /\ UnmadeInv /\ PurchaseAddsUp /\ calls[c] \in GoldLocals
  BY <1>1, Locals DEF GoldInv
<1>4. calls[c].amount # 0 /\ calls[c].version # NoVersion
  BY <1>1 DEF GoldInv, AddingInv, At
<1>5. NoCall.pc = "idle" /\ AddingInv(c)'
  <2>1. calls'[c] = NoCall
    BY <1>1, <1>3, CallsAfter
  <2> QED
    BY <2>1, NoCallAsksNothing
<1>6. purchases \in [Purchases -> PurchaseRecords] /\ shared' \subseteq Purchases
  BY <1>1, <1>3 DEF GoldTypeOK
<1>7. new \in PurchaseRecords /\ new.original = 0 /\ new.commission = 0 /\ new.total = 0
  BY <1>3 DEF NoPurchase, PurchaseRecords, GoldLocals
<1> HIDE DEF new
<1>8. /\ AddTo(new, c) \in PurchaseRecords
      /\ AddTo(new, c).original = 0 + calls[c].amount
      /\ AddTo(new, c).commission = 0 + Fee(c)
      /\ AddTo(new, c).total = 0 + calls[c].amount + Fee(c)
  BY <1>3, <1>4, <1>7, AddToFields
<1>9. /\ purchases' \in [Purchases -> PurchaseRecords] /\ purchases'[p] = AddTo(new, c)
      /\ \A q \in Purchases : q # p => purchases'[q] = purchases[q]
  BY <1>2, <1>6, <1>8
<1>10. /\ sums' \in [Purchases -> [original : Nat, commission : Nat]]
       /\ \A q \in Purchases : q # p => sums'[q] = sums[q]
       /\ sums'[p].original = sums[p].original + calls[c].amount
       /\ sums'[p].commission = sums[p].commission + Fee(c)
       /\ sums'[p].original # 0
       /\ calls[c].amount \in Nat /\ Fee(c) \in Nat
  BY <1>2, <1>3, <1>4, BookSums
<1>11. InHandInv'
  BY <1>1, <1>2, <1>9, OthersInHand
<1>12. UnmadeInv'
  BY <1>3, <1>9, <1>10 DEF UnmadeInv
<1>13. sums[p].original = 0 /\ sums[p].commission = 0
  BY <1>2, <1>3 DEF UnmadeInv
<1>14. /\ purchases'[p].original = sums'[p].original
       /\ purchases'[p].commission = sums'[p].commission
       /\ purchases'[p].total = sums'[p].original + sums'[p].commission
  BY <1>8, <1>9, <1>10, <1>13
<1>15. PurchaseAddsUp'
  BY <1>1, <1>3, <1>9, <1>10, <1>14 DEF PurchaseAddsUp
<1> QED
  BY <1>1, <1>5, <1>6, <1>9, <1>10, <1>11, <1>12, <1>15, DocumentStep

-----------------------------------------------------------------------------
(* The theorems.                                                           *)

\* GoldInv holds in every state: it is inductive, one lemma for every action.
THEOREM Invariance == GoldSpec => []GoldInv
<1>1. GoldInv /\ [GoldNext]_goldVars => GoldInv'
  <2> SUFFICES ASSUME GoldInv, [GoldNext]_goldVars PROVE GoldInv'
    OBVIOUS
  <2>1. ASSUME NEW c \in Calls, NEW r \in Requests, Begin(c, r) PROVE GoldInv'
    BY <2>1, BeginInv
  <2>2. ASSUME NEW c \in Calls, UseCachedSettings(c) PROVE GoldInv'
    BY <2>2, UseCachedSettingsInv
  <2>3. ASSUME NEW c \in Calls, AskSettings(c) PROVE GoldInv'
    BY <2>3, AskSettingsInv
  <2>4. ASSUME NEW c \in Calls, ReadSettings(c) PROVE GoldInv'
    BY <2>4, ReadSettingsInv
  <2>5. ASSUME NEW c \in Calls, CreateDefault(c) PROVE GoldInv'
    BY <2>5, CreateDefaultInv
  <2>6. ASSUME NEW c \in Calls, FillSettings(c) PROVE GoldInv'
    BY <2>6, FillSettingsInv
  <2>7. ASSUME NEW c \in Calls, UseCachedPrice(c) PROVE GoldInv'
    BY <2>7, UseCachedPriceInv
  <2>8. ASSUME NEW c \in Calls, RequestPrice(c) PROVE GoldInv'
    BY <2>8, RequestPriceInv
  <2>9. ASSUME NEW c \in Calls, PriceArrives(c) PROVE GoldInv'
    BY <2>9, PriceArrivesInv
  <2>10. ASSUME NEW c \in Calls, PriceFails(c) PROVE GoldInv'
    BY <2>10, PriceFailsInv
  <2>11. ASSUME NEW c \in Calls, FindPurchase(c) PROVE GoldInv'
    BY <2>11, FindPurchaseInv
  <2>12. ASSUME NEW c \in Calls, RemovePurchase(c) PROVE GoldInv'
    BY <2>12, RemovePurchaseInv
  <2>13. ASSUME NEW c \in Calls, SaveAddition(c) PROVE GoldInv'
    BY <2>13, SaveAdditionInv
  <2>14. ASSUME NEW c \in Calls, SavePurchase(c) PROVE GoldInv'
    BY <2>14, SavePurchaseInv
  <2>15. ASSUME NEW s \in Settings, SaveSettings(s) PROVE GoldInv'
    BY <2>15, SaveSettingsInv
  <2>16. CASE ClearCache \/ MarketMoves \/ Tick
    BY <2>16, ClearCacheInv, MarketMovesInv, TickInv
  <2>17. CASE UNCHANGED goldVars
    <3>1. UNCHANGED <<now, stored, contents, cached, clearing, level, price, requests, purchases,
                      calls, ended, sums, shared, booked>>
      BY <2>17 DEF goldVars, settings, pricing, booked
    <3>2. GoldTypeOK' /\ CachesInv' /\ \A c \in Calls : AskingInv(c)'
      BY <3>1 DEF GoldInv, GoldTypeOK, CachesInv, AskingInv, At
    <3> QED
      BY <3>1, <3>2, DocumentsKept DEF GoldInv
  <2> QED
    BY <2>1, <2>2, <2>3, <2>4, <2>5, <2>6, <2>7, <2>8, <2>9, <2>10, <2>11, <2>12, <2>13, <2>14,
       <2>15, <2>16, <2>17 DEF GoldNext
<1> QED
  BY InitInv, <1>1, PTL DEF GoldSpec

\* What the settings' cache answers was in force less than its life ago.
THEOREM SettingsFresh == GoldSpec => []SettingsAtMostStale
<1>1. GoldInv => SettingsAtMostStale
  <2> SUFFICES ASSUME GoldInv, SettingsCached, cached.version # stored
               PROVE  now < ended.settings[cached.version] + SettingsLife
    BY DEF SettingsAtMostStale
  <2>1. /\ cached.version \in Versions /\ now \in Nat /\ cached.at \in Nat
        /\ ended.settings \in [Versions -> Nat]
    BY DEF GoldInv, GoldTypeOK, SettingsCached
  <2>2. cached.at <= ended.settings[cached.version] /\ now - cached.at < SettingsLife
    BY DEF GoldInv, CachesInv, SettingsCached
  <2>3. ended.settings[cached.version] \in Nat
    BY <2>1
  <2> QED
    BY <2>1, <2>2, <2>3, Constants
<1> QED
  BY Invariance, <1>1, PTL

\* What the price's cache answers was the service's price less than its life ago.
THEOREM PriceFresh == GoldSpec => []PriceAtMostStale
<1>1. GoldInv => PriceAtMostStale
  <2> SUFFICES ASSUME GoldInv, PriceCached, price.level # level
               PROVE  now < ended.level[price.level] + PriceLife
    BY DEF PriceAtMostStale
  <2>1. /\ now \in Nat /\ price.at \in Nat /\ ended.level \in [Levels -> Nat]
        /\ level \in 1 .. MaxChanges + 2
    BY DEF GoldInv, GoldTypeOK
  <2>2. /\ price.level \in 1..level /\ price.at <= ended.level[price.level]
        /\ now - price.at < PriceLife
    BY DEF GoldInv, CachesInv, PriceCached
  <2>3. price.level \in Levels
    BY <2>1, <2>2, Constants DEF Levels
  <2>4. ended.level[price.level] \in Nat
    BY <2>1, <2>3
  <2> QED
    BY <2>1, <2>2, <2>4, Constants
<1> QED
  BY Invariance, <1>1, PTL

\* The limit of a day is exceeded by no more than the requests that overlap.
THEOREM LimitHolds == GoldSpec => []RequestsWithinLimit
<1>1. GoldInv => RequestsWithinLimit
  BY DEF GoldInv
<1> QED
  BY Invariance, <1>1, PTL

\* A purchase that no two calls had in hand at once is the sum of its additions.
THEOREM SumsHold == GoldSpec => []PurchaseAddsUp
<1>1. GoldInv => PurchaseAddsUp
  BY DEF GoldInv
<1> QED
  BY Invariance, <1>1, PTL
=============================================================================
