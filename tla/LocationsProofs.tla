--------------------------- MODULE LocationsProofs ---------------------------
(***************************************************************************)
(* Proofs about Locations for any provinces, cities and atlas, any number  *)
(* of syncs at once and any workload.  LocationInv is inductive, and       *)
(* CitiesStay follows from it.                                             *)
(***************************************************************************)
EXTENDS Locations, TLAPS

Locals == {NoSync} \cup SyncLocals \cup DropLocals
Outside == {"idle", "dropCities"}   \* where a drop may meet others

LEMMA Types ==
  ASSUME LocationInv
  PROVE  /\ provinces \in [States -> Nat] /\ objects \in Nat
         /\ cities \subseteq [city : CityIds, state : States, province : Nat]
         /\ syncs \in [Syncs -> Locals] /\ told \subseteq CityIds \X States
         /\ served \in BOOLEAN /\ crossed \in BOOLEAN
  BY DEF LocationInv, LocationTypeOK, Locals

\* Where a call stands tells which locals it has.
LEMMA SyncStages ==
  ASSUME NEW call \in Locals,
         call.pc \in {"provinces", "list", "each", "find", "cities"}
  PROVE  call \in SyncLocals
  BY DEF Locals, NoSync, DropLocals

LEMMA DropStages ==
  ASSUME NEW call \in Locals, call.pc \in {"dropCities", "dropProvinces"}
  PROVE  call \in DropLocals
  BY DEF Locals, NoSync, SyncLocals

LEMMA InitInv == LocationInit => LocationInv
<1> SUFFICES ASSUME LocationInit PROVE LocationInv
  OBVIOUS
<1>1. /\ provinces = [s \in States |-> 0] /\ cities = {} /\ objects = 0
      /\ syncs = [f \in Syncs |-> NoSync] /\ told = {} /\ served = FALSE /\ crossed = FALSE
  BY DEF LocationInit
<1>2. LocationTypeOK
  BY <1>1 DEF LocationTypeOK
<1>3. \A f \in Syncs : ReadInv(f) /\ DropInv(f)
  BY <1>1 DEF ReadInv, DropInv, Stage, NoSync
<1> QED
  BY <1>1, <1>2, <1>3 DEF LocationInv

-----------------------------------------------------------------------------
(* A step that moves one call and stores nothing.                          *)

\* What the next locals of a call may be.
Follows(f, next) ==
  /\ next \in Locals /\ next.pc # "dropProvinces"
  /\ ~crossed /\ next.pc = "cities" =>
       /\ provinces[next.state] # 0 /\ next.province = provinces[next.state]
       /\ next.rest \subseteq Atlas[next.state]
  /\ \/ next.pc \in Outside \/ syncs[f].pc \notin Outside
     \/ crossed' \/ \A g \in Syncs : ~Stage(g, "dropProvinces")

LEMMA MovesKeep ==
  ASSUME LocationInv, NEW f \in Syncs, NEW next, Turn(f, next), Follows(f, next),
         UNCHANGED <<provinces, cities, objects, told, served>>,
         crossed' \in BOOLEAN, crossed => crossed'
  PROVE  LocationInv'
<1>1. /\ syncs' = [syncs EXCEPT ![f] = next] /\ syncs \in [Syncs -> Locals] /\ next \in Locals
      /\ syncs'[f] = next /\ \A g \in Syncs \ {f} : syncs'[g] = syncs[g]
  BY Types DEF Turn, Follows
<1>2. syncs' \in [Syncs -> Locals]
  BY <1>1
<1>3. LocationTypeOK'
  BY <1>2, Types DEF LocationTypeOK, Locals
<1>4. ASSUME ~crossed'
      PROVE  /\ (\A d \in cities : CityInv(d))'
             /\ (\A g \in Syncs : ReadInv(g) /\ DropInv(g))'
             /\ (\A c \in CityIds, s \in States : <<c, s>> \in told => ToldInv(c, s))'
  <2>1. /\ ~crossed /\ \A d \in cities : CityInv(d)
        /\ \A g \in Syncs : ReadInv(g) /\ DropInv(g)
        /\ \A c \in CityIds, s \in States : <<c, s>> \in told => ToldInv(c, s)
    BY <1>4 DEF LocationInv
  <2>2. ASSUME NEW g \in Syncs
        PROVE  ReadInv(g)'
    <3>1. CASE g = f
      BY <1>1, <2>1, <3>1 DEF Follows, ReadInv, Stage
    <3>2. CASE g # f
      BY <1>1, <2>1, <3>2 DEF ReadInv, Stage
    <3> QED
      BY <3>1, <3>2
  <2>3. ASSUME NEW g \in Syncs, Stage(g, "dropProvinces")'
        PROVE  /\ cities' = {} /\ told' = {}
               /\ \A h \in Syncs \ {g} : Stage(h, "idle")' \/ Stage(h, "dropCities")'
    <3>1. g # f /\ Stage(g, "dropProvinces")
      BY <1>1, <2>3 DEF Follows, Stage
    <3>2. /\ cities = {} /\ told = {}
          /\ \A h \in Syncs \ {g} : Stage(h, "idle") \/ Stage(h, "dropCities")
      BY <2>1, <3>1 DEF DropInv
    <3>3. next.pc \in Outside
      BY <1>4, <3>1, <3>2 DEF Follows, Stage, Outside
    <3> QED
      BY <1>1, <3>1, <3>2, <3>3 DEF Stage, Outside
  <2>4. (\A g \in Syncs : ReadInv(g) /\ DropInv(g))'
    BY <2>2, <2>3 DEF DropInv
  <2> QED
    BY <2>1, <2>4 DEF CityInv, ToldInv
<1> QED
  BY <1>3, <1>4 DEF LocationInv

LEMMA ContinueFollows ==
  ASSUME LocationInv, NEW f \in Syncs, syncs[f] \in SyncLocals
  PROVE  Continue(f) \in Locals /\ Continue(f).pc \in {"idle", "each"}
<1>1. CASE syncs[f].kind = "one"
  BY <1>1 DEF Continue, Locals, NoSync
<1>2. CASE syncs[f].kind # "one"
  BY <1>2 DEF Continue, Locals, SyncLocals
<1> QED
  BY <1>1, <1>2

LEMMA StartSyncKeeps ==
  ASSUME LocationInv, NEW f \in Syncs, NEW s \in States,
         NEW kind \in {"all", "provinces", "one", "script"}, StartSync(f, kind, s)
  PROVE  LocationInv'
<1> DEFINE next == [pc |-> IF kind = "one" THEN "find" ELSE "provinces", kind |-> kind,
                    todo |-> States, state |-> s, province |-> 0, rest |-> {}]
<1>1. /\ Turn(f, next) /\ crossed' = (crossed \/ \E g \in Syncs : Stage(g, "dropProvinces"))
      /\ UNCHANGED <<provinces, cities, objects, told, served>>
  BY DEF StartSync
<1>2. next \in SyncLocals
  BY DEF SyncLocals
<1>3. next.pc \in {"find", "provinces"}
  OBVIOUS
<1> HIDE DEF next
<1>4. Follows(f, next)
  BY <1>1, <1>2, <1>3 DEF Follows, Locals
<1>5. crossed' \in BOOLEAN /\ (crossed => crossed')
  BY <1>1
<1> QED
  BY <1>1, <1>4, <1>5, MovesKeep

\* Steps of a running sync that store nothing.
LEMMA QuietKeeps ==
  ASSUME LocationInv, NEW f \in Syncs, NEW next \in Locals, Turn(f, next),
         next.pc \in {"idle", "list", "each", "find", "dropCities"},
         next.pc \in Outside \/ syncs[f].pc \notin Outside,
         UNCHANGED <<provinces, cities, objects, told, served, crossed>>
  PROVE  LocationInv'
<1>1. Follows(f, next)
  BY DEF Follows
<1>2. crossed' \in BOOLEAN /\ (crossed => crossed')
  BY Types
<1> QED
  BY <1>1, <1>2, MovesKeep

LEMMA ListKeeps ==
  ASSUME LocationInv, NEW f \in Syncs, ListProvinces(f)
  PROVE  LocationInv'
<1> DEFINE next == [syncs[f] EXCEPT !.todo = {s \in States : provinces[s] # 0}, !.pc = "each"]
<1>1. syncs[f].pc = "list" /\ Turn(f, next)
      /\ UNCHANGED <<provinces, cities, objects, told, served, crossed>>
  BY DEF ListProvinces, Stage
<1>2. syncs[f] \in SyncLocals
  BY <1>1, Types, SyncStages
<1>3. next \in SyncLocals /\ next.pc = "each"
  BY <1>2 DEF SyncLocals
<1> HIDE DEF next
<1> QED
  BY <1>1, <1>3, QuietKeeps DEF Locals, Outside

LEMMA NextProvinceKeeps ==
  ASSUME LocationInv, NEW f \in Syncs, NextProvince(f)
  PROVE  LocationInv'
<1>1. syncs[f].pc = "each" /\ UNCHANGED <<provinces, cities, objects, told, served, crossed>>
  BY DEF NextProvince, Stage
<1>2. syncs[f] \in SyncLocals
  BY <1>1, Types, SyncStages
<1>3. CASE syncs[f].todo = {}
  <2>1. Turn(f, NoSync) /\ NoSync.pc = "idle" /\ NoSync \in Locals
    BY <1>3 DEF NextProvince, NoSync, Locals
  <2> QED
    BY <1>1, <2>1, QuietKeeps DEF Outside
<1>4. CASE syncs[f].todo # {}
  <2>1. PICK s \in syncs[f].todo :
          Turn(f, [syncs[f] EXCEPT !.todo = @ \ {s}, !.state = s, !.pc = "find"])
    BY <1>4 DEF NextProvince
  <2> DEFINE next == [syncs[f] EXCEPT !.todo = @ \ {s}, !.state = s, !.pc = "find"]
  <2>2. next \in SyncLocals /\ next.pc = "find"
    BY <1>2 DEF SyncLocals
  <2>3. Turn(f, next)
    BY <2>1
  <2> HIDE DEF next
  <2> QED
    BY <1>1, <2>2, <2>3, QuietKeeps DEF Locals, Outside
<1> QED
  BY <1>3, <1>4

LEMMA FindKeeps ==
  ASSUME LocationInv, NEW f \in Syncs, FindProvince(f)
  PROVE  LocationInv'
<1> DEFINE s == syncs[f].state
           next == [syncs[f] EXCEPT !.province = provinces[s], !.rest = Atlas[s], !.pc = "cities"]
<1>1. syncs[f].pc = "find" /\ UNCHANGED <<provinces, cities, objects, told, served, crossed>>
  BY DEF FindProvince, Stage
<1>2. syncs[f] \in SyncLocals
  BY <1>1, Types, SyncStages
<1>3. CASE Atlas[s] = {} \/ provinces[s] = 0
  <2>1. Turn(f, Continue(f))
    BY <1>3 DEF FindProvince
  <2> QED
    BY <1>1, <1>2, <2>1, ContinueFollows, QuietKeeps DEF Outside
<1>4. CASE ~(Atlas[s] = {} \/ provinces[s] = 0)
  <2>1. Turn(f, next)
    BY <1>4 DEF FindProvince
  <2>2. s \in States /\ Atlas[s] \subseteq CityIds /\ provinces[s] \in Nat
    BY <1>2, Types, LocationAssumption DEF SyncLocals
  <2>3. /\ next \in SyncLocals /\ next.pc = "cities" /\ next.state = s
        /\ next.province = provinces[s] /\ next.rest = Atlas[s]
    BY <1>2, <2>2 DEF SyncLocals
  <2> HIDE DEF next
  <2>4. Follows(f, next)
    BY <1>1, <1>4, <2>3 DEF Follows, Locals, Outside
  <2> QED
    BY <1>1, <2>1, <2>4, MovesKeep, Types
<1> QED
  BY <1>3, <1>4

LEMMA NoAnswerKeeps ==
  ASSUME LocationInv, NEW f \in Syncs, NoAnswer(f)
  PROVE  LocationInv'
<1>1. syncs[f].pc = "find" /\ UNCHANGED <<provinces, cities, objects, told, served, crossed>>
  BY DEF NoAnswer, Stage
<1>2. syncs[f] \in SyncLocals
  BY <1>1, Types, SyncStages
<1>3. CASE ByScript(f)
  <2>1. Turn(f, Continue(f))
    BY <1>3 DEF NoAnswer
  <2> QED
    BY <1>1, <1>2, <2>1, ContinueFollows, QuietKeeps DEF Outside
<1>4. CASE ~ByScript(f)
  <2>1. Turn(f, NoSync) /\ NoSync.pc = "idle" /\ NoSync \in Locals
    BY <1>4 DEF NoAnswer, NoSync, Locals
  <2> QED
    BY <1>1, <2>1, QuietKeeps DEF Outside
<1> QED
  BY <1>3, <1>4

LEMMA StopKeeps ==
  ASSUME LocationInv, NEW f \in Syncs, SyncFails(f)
  PROVE  LocationInv'
<1>1. /\ Turn(f, NoSync) /\ NoSync.pc = "idle" /\ NoSync \in Locals
      /\ UNCHANGED <<provinces, cities, objects, told, served, crossed>>
  BY DEF SyncFails, NoSync, Locals
<1> QED
  BY <1>1, QuietKeeps DEF Outside

LEMMA StartDropKeeps ==
  ASSUME LocationInv, NEW f \in Syncs, StartDrop(f)
  PROVE  LocationInv'
<1> DEFINE next == [pc |-> "dropCities", kind |-> "drop"]
<1>1. /\ Turn(f, next) /\ next \in DropLocals /\ next.pc = "dropCities"
      /\ UNCHANGED <<provinces, cities, objects, told, served, crossed>>
  BY DEF StartDrop, DropLocals
<1> HIDE DEF next
<1> QED
  BY <1>1, QuietKeeps DEF Outside, Locals

-----------------------------------------------------------------------------
(* The steps that store.                                                   *)

\* A province gets its document: nothing hung on the one it did not have.
LEMMA SaveProvinceKeeps ==
  ASSUME LocationInv, NEW f \in Syncs, SaveProvince(f)
  PROVE  LocationInv'
<1>1. syncs[f].pc = "provinces" /\ UNCHANGED <<cities, told, served, crossed>>
  BY DEF SaveProvince, Stage
<1>2. syncs[f] \in SyncLocals
  BY <1>1, Types, SyncStages
<1>3. PICK s \in syncs[f].todo :
        /\ IF provinces[s] = 0
           THEN /\ objects < MaxObjects
                /\ objects' = objects + 1 /\ provinces' = [provinces EXCEPT ![s] = objects + 1]
           ELSE UNCHANGED <<objects, provinces>>
        /\ Turn(f, IF syncs[f].todo # {s} THEN [syncs[f] EXCEPT !.todo = @ \ {s}]
                   ELSE IF syncs[f].kind = "provinces" THEN NoSync
                   ELSE IF ByScript(f) THEN [syncs[f] EXCEPT !.todo = States, !.pc = "each"]
                   ELSE [syncs[f] EXCEPT !.todo = {}, !.pc = "list"])
  BY DEF SaveProvince
<1>4. PICK next : next = IF syncs[f].todo # {s} THEN [syncs[f] EXCEPT !.todo = @ \ {s}]
                   ELSE IF syncs[f].kind = "provinces" THEN NoSync
                   ELSE IF ByScript(f) THEN [syncs[f] EXCEPT !.todo = States, !.pc = "each"]
                   ELSE [syncs[f] EXCEPT !.todo = {}, !.pc = "list"]
  OBVIOUS
<1>5. next \in Locals /\ next.pc \in {"provinces", "idle", "each", "list"}
  <2>1. CASE syncs[f].todo # {s}
    <3>1. next = [syncs[f] EXCEPT !.todo = @ \ {s}]
      BY <1>4, <2>1
    <3>2. next \in SyncLocals /\ next.pc = "provinces"
      BY <1>1, <1>2, <3>1 DEF SyncLocals
    <3> QED
      BY <3>2 DEF Locals
  <2>2. CASE syncs[f].todo = {s} /\ syncs[f].kind = "provinces"
    <3>1. next = NoSync
      BY <1>4, <2>2
    <3> QED
      BY <3>1 DEF NoSync, Locals
  <2>3. CASE syncs[f].todo = {s} /\ syncs[f].kind # "provinces" /\ ByScript(f)
    <3>1. next = [syncs[f] EXCEPT !.todo = States, !.pc = "each"]
      BY <1>4, <2>3
    <3>2. next \in SyncLocals /\ next.pc = "each"
      BY <1>2, <3>1 DEF SyncLocals
    <3> QED
      BY <3>2 DEF Locals
  <2>4. CASE syncs[f].todo = {s} /\ syncs[f].kind # "provinces" /\ ~ByScript(f)
    <3>1. next = [syncs[f] EXCEPT !.todo = {}, !.pc = "list"]
      BY <1>4, <2>4
    <3>2. next \in SyncLocals /\ next.pc = "list"
      BY <1>2, <3>1 DEF SyncLocals
    <3> QED
      BY <3>2 DEF Locals
  <2> QED
    BY <2>1, <2>2, <2>3, <2>4
<1>6. /\ syncs' = [syncs EXCEPT ![f] = next] /\ syncs \in [Syncs -> Locals]
      /\ syncs'[f] = next /\ \A g \in Syncs \ {f} : syncs'[g] = syncs[g]
  BY <1>3, <1>4, Types DEF Turn
<1>7. s \in States
  BY <1>2 DEF SyncLocals
<1>8. /\ provinces' \in [States -> Nat] /\ objects' \in Nat
      /\ \A t \in States : provinces[t] # 0 => provinces'[t] = provinces[t]
  BY <1>3, <1>7, Types
<1>9. LocationTypeOK'
  <2>1. syncs' \in [Syncs -> Locals]
    BY <1>5, <1>6
  <2> QED
    BY <1>1, <1>8, <2>1, Types DEF LocationTypeOK, Locals
<1>10. ASSUME ~crossed'
       PROVE  /\ (\A d \in cities : CityInv(d))'
              /\ (\A g \in Syncs : ReadInv(g) /\ DropInv(g))'
              /\ (\A c \in CityIds, t \in States : <<c, t>> \in told => ToldInv(c, t))'
  <2>1. /\ ~crossed /\ \A d \in cities : CityInv(d)
        /\ \A g \in Syncs : ReadInv(g) /\ DropInv(g)
        /\ \A c \in CityIds, t \in States : <<c, t>> \in told => ToldInv(c, t)
    BY <1>1, <1>10 DEF LocationInv
  <2>2. \A d \in cities : d.state \in States /\ CityInv(d)'
    BY <1>1, <1>8, <2>1, Types DEF CityInv
  <2>3. ASSUME NEW g \in Syncs
        PROVE  ReadInv(g)'
    <3>1. CASE g = f
      BY <1>5, <1>6, <3>1 DEF ReadInv, Stage
    <3>2. CASE g # f /\ Stage(g, "cities")
      <4>1. syncs[g] \in SyncLocals
        BY <3>2, Types, SyncStages DEF Stage
      <4>2. syncs[g].state \in States
        BY <4>1 DEF SyncLocals
      <4> QED
        BY <1>6, <1>8, <2>1, <3>2, <4>2 DEF ReadInv, Stage
    <3>3. CASE g # f /\ ~Stage(g, "cities")
      BY <1>6, <3>3 DEF ReadInv, Stage
    <3> QED
      BY <3>1, <3>2, <3>3
  <2>4. ASSUME NEW g \in Syncs
        PROVE  DropInv(g)'
    <3>1. g # f /\ Stage(g, "dropProvinces") => FALSE
      BY <1>1, <2>1 DEF DropInv, Stage
    <3> QED
      BY <1>5, <1>6, <3>1 DEF DropInv, Stage
  <2>5. ASSUME NEW c \in CityIds, NEW t \in States, <<c, t>> \in told
        PROVE  ToldInv(c, t)'
    <3>1. ToldInv(c, t)
      BY <2>1, <2>5
    <3>2. CASE served /\ Shared(c)
      BY <1>1, <3>1, <3>2 DEF ToldInv, Shared
    <3>3. CASE [city |-> c, state |-> t, province |-> provinces[t]] \in cities
      <4>1. provinces[t] # 0
        BY <2>1, <3>3 DEF CityInv
      <4>2. provinces'[t] = provinces[t]
        BY <1>8, <4>1
      <4> QED
        BY <1>1, <3>1, <3>3, <4>2 DEF ToldInv
    <3> QED
      BY <3>1, <3>2, <3>3 DEF ToldInv
  <2> QED
    BY <1>1, <2>2, <2>3, <2>4, <2>5
<1> QED
  BY <1>9, <1>10 DEF LocationInv

\* A drop that leaves crossed as it was met nobody.
LEMMA CrossedNobody ==
  ASSUME NEW f \in Syncs, Crossing(f), ~crossed', NEW g \in Syncs \ {f}
  PROVE  ~crossed /\ Stage(g, "idle")
  BY DEF Crossing

LEMMA DropCitiesKeeps ==
  ASSUME LocationInv, NEW f \in Syncs, DropCities(f)
  PROVE  LocationInv'
<1> DEFINE next == [syncs[f] EXCEPT !.pc = "dropProvinces"]
<1>1. /\ syncs[f].pc = "dropCities" /\ cities' = {} /\ told' = {} /\ served' = FALSE
      /\ Crossing(f) /\ Turn(f, next) /\ UNCHANGED <<provinces, objects>>
  BY DEF DropCities, Stage
<1>2. next \in DropLocals /\ next.pc = "dropProvinces"
  BY <1>1, Types, DropStages DEF DropLocals
<1> HIDE DEF next
<1>3. /\ syncs' \in [Syncs -> Locals] /\ syncs'[f] = next
      /\ \A g \in Syncs \ {f} : syncs'[g] = syncs[g]
  BY <1>1, <1>2, Types DEF Turn, Locals
<1>4. LocationTypeOK'
  BY <1>1, <1>3, Types DEF LocationTypeOK, Locals, Crossing
<1>5. ASSUME ~crossed', NEW g \in Syncs
      PROVE  (ReadInv(g) /\ DropInv(g))'
  <2>1. g # f => Stage(g, "idle")'
    BY <1>1, <1>3, <1>5, CrossedNobody DEF Stage
  <2>2. \A h \in Syncs \ {f} : Stage(h, "idle")'
    BY <1>1, <1>3, <1>5, CrossedNobody DEF Stage
  <2>3. CASE g = f
    BY <1>1, <1>2, <1>3, <2>2, <2>3 DEF ReadInv, DropInv, Stage
  <2>4. CASE g # f
    BY <2>1, <2>4 DEF ReadInv, DropInv, Stage
  <2> QED
    BY <2>3, <2>4
<1> QED
  BY <1>1, <1>4, <1>5 DEF LocationInv

\* Between the two halves nothing was stored, so that no document hangs on a province.
LEMMA DropProvincesKeeps ==
  ASSUME LocationInv, NEW f \in Syncs, DropProvinces(f)
  PROVE  LocationInv'
<1>1. /\ syncs[f].pc = "dropProvinces" /\ provinces' = [s \in States |-> 0]
      /\ Crossing(f) /\ Turn(f, NoSync) /\ UNCHANGED <<cities, objects, told, served>>
  BY DEF DropProvinces, Stage
<1>2. /\ syncs' \in [Syncs -> Locals] /\ syncs'[f] = NoSync
      /\ \A g \in Syncs \ {f} : syncs'[g] = syncs[g]
  BY <1>1, Types DEF Turn, Locals
<1>3. LocationTypeOK'
  BY <1>1, <1>2, Types DEF LocationTypeOK, Locals, Crossing
<1>4. ASSUME ~crossed'
      PROVE  /\ cities' = {} /\ told' = {}
             /\ \A g \in Syncs : (ReadInv(g) /\ DropInv(g))'
  <2>1. \A g \in Syncs : Stage(g, "idle")'
    BY <1>1, <1>2, <1>4, CrossedNobody DEF Stage, NoSync
  <2>2. ~crossed
    BY <1>1, <1>4 DEF Crossing
  <2>3. cities = {} /\ told = {}
    BY <1>1, <2>2 DEF LocationInv, DropInv, Stage
  <2> QED
    BY <1>1, <2>1, <2>3 DEF ReadInv, DropInv, Stage
<1> QED
  BY <1>3, <1>4 DEF LocationInv

\* A document that a write fits is the city's, and in the same province if it is the
\* script's write or nobody shares the city.
LEMMA SaveCityKeeps ==
  ASSUME LocationInv, NEW f \in Syncs, SaveCity(f)
  PROVE  LocationInv'
<1>1. /\ syncs[f].pc = "cities" /\ syncs[f] \in SyncLocals
      /\ UNCHANGED <<provinces, objects, crossed>>
  BY Types, SyncStages DEF SaveCity, Stage
<1>2. PICK s : s = syncs[f].state
  OBVIOUS
<1>3. PICK c \in syncs[f].rest :
        LET new == [city |-> c, state |-> s, province |-> syncs[f].province]
            fit == {d \in cities : IF ByScript(f) THEN ScriptMatches(d, c, s) ELSE ServiceMatches(d, c, s)}
            done == IF syncs[f].rest = {c} THEN Continue(f) ELSE [syncs[f] EXCEPT !.rest = @ \ {c}] IN
        \E old \in IF fit = {} THEN {new} ELSE fit :
          LET refused == \E d \in cities \ {old} : d.city = c /\ d.state = s IN
          /\ cities' = IF refused THEN cities ELSE (cities \ {old}) \cup {new}
          /\ told' = IF refused THEN told ELSE told \cup {<<c, s>>}
          /\ served' = (served \/ (~ByScript(f) /\ ~refused))
          /\ Turn(f, IF refused /\ ~ByScript(f) THEN NoSync ELSE done)
  BY <1>2 DEF SaveCity
<1>4. PICK new : new = [city |-> c, state |-> s, province |-> syncs[f].province]
  OBVIOUS
<1>5. PICK done : done = IF syncs[f].rest = {c} THEN Continue(f) ELSE [syncs[f] EXCEPT !.rest = @ \ {c}]
  OBVIOUS
<1>6. PICK fit : fit = {d \in cities : IF ByScript(f) THEN ScriptMatches(d, c, s) ELSE ServiceMatches(d, c, s)}
  OBVIOUS
<1>7. PICK old \in IF fit = {} THEN {new} ELSE fit :
          LET refused == \E d \in cities \ {old} : d.city = c /\ d.state = s IN
          /\ cities' = IF refused THEN cities ELSE (cities \ {old}) \cup {new}
          /\ told' = IF refused THEN told ELSE told \cup {<<c, s>>}
          /\ served' = (served \/ (~ByScript(f) /\ ~refused))
          /\ Turn(f, IF refused /\ ~ByScript(f) THEN NoSync ELSE done)
  BY <1>3, <1>4, <1>5, <1>6
<1>8. PICK refused \in BOOLEAN : refused <=> \E d \in cities \ {old} : d.city = c /\ d.state = s
  OBVIOUS
<1>9. PICK next : next = IF refused /\ ~ByScript(f) THEN NoSync ELSE done
  OBVIOUS
<1>10. /\ Turn(f, next)
       /\ cities' = IF refused THEN cities ELSE (cities \ {old}) \cup {new}
       /\ told' = IF refused THEN told ELSE told \cup {<<c, s>>}
       /\ served' = (served \/ (~ByScript(f) /\ ~refused))
  BY <1>7, <1>8, <1>9
<1>11. s \in States /\ c \in CityIds /\ new \in [city : CityIds, state : States, province : Nat]
  BY <1>1, <1>2, <1>4 DEF SyncLocals
<1>12. /\ next \in Locals /\ next.pc \in {"idle", "each", "cities"}
       /\ next.pc = "cities" => /\ next.state = s /\ next.province = syncs[f].province
                                /\ next.rest \subseteq syncs[f].rest
  <2>1. CASE refused /\ ~ByScript(f)
    BY <1>9, <2>1 DEF NoSync, Locals
  <2>2. CASE ~(refused /\ ~ByScript(f)) /\ syncs[f].rest = {c}
    BY <1>1, <1>5, <1>9, <2>2, ContinueFollows
  <2>3. CASE ~(refused /\ ~ByScript(f)) /\ syncs[f].rest # {c}
    <3>1. next = [syncs[f] EXCEPT !.rest = @ \ {c}]
      BY <1>5, <1>9, <2>3
    <3>2. next \in SyncLocals /\ next.pc = "cities"
      BY <1>1, <3>1 DEF SyncLocals
    <3> QED
      BY <1>1, <1>2, <3>1, <3>2 DEF Locals, SyncLocals
  <2> QED
    BY <2>1, <2>2, <2>3
<1>13. /\ syncs' \in [Syncs -> Locals] /\ syncs'[f] = next
       /\ \A g \in Syncs \ {f} : syncs'[g] = syncs[g]
  BY <1>10, <1>12, Types DEF Turn
<1>14. LocationTypeOK'
  <2>1. cities' \subseteq [city : CityIds, state : States, province : Nat]
    BY <1>10, <1>11, Types
  <2>2. told' \subseteq CityIds \X States
    BY <1>10, <1>11, Types
  <2>3. served' \in BOOLEAN
    BY <1>10
  <2> QED
    BY <1>1, <1>13, <2>1, <2>2, <2>3, Types DEF LocationTypeOK, Locals
<1>15. ASSUME ~crossed'
       PROVE  /\ (\A d \in cities : CityInv(d))'
              /\ (\A g \in Syncs : ReadInv(g) /\ DropInv(g))'
              /\ (\A b \in CityIds, t \in States : <<b, t>> \in told => ToldInv(b, t))'
  <2>1. /\ ~crossed /\ \A d \in cities : CityInv(d)
        /\ \A g \in Syncs : ReadInv(g) /\ DropInv(g)
        /\ \A b \in CityIds, t \in States : <<b, t>> \in told => ToldInv(b, t)
    BY <1>1, <1>15 DEF LocationInv
  <2>2. /\ provinces[s] # 0 /\ syncs[f].province = provinces[s]
        /\ syncs[f].rest \subseteq Atlas[s] /\ c \in Atlas[s]
    BY <1>1, <1>2, <1>3, <2>1 DEF ReadInv, Stage
  <2>3. (\A d \in cities : CityInv(d))'
    <3>1. CityInv(new)
      BY <1>4, <2>2 DEF CityInv
    <3> QED
      BY <1>1, <1>10, <2>1, <3>1 DEF CityInv
  <2>4. ASSUME NEW g \in Syncs
        PROVE  ReadInv(g)'
    <3>1. CASE g = f
      BY <1>1, <1>12, <1>13, <2>2, <3>1 DEF ReadInv, Stage
    <3>2. CASE g # f
      BY <1>1, <1>13, <2>1, <3>2 DEF ReadInv, Stage
    <3> QED
      BY <3>1, <3>2
  <2>5. ASSUME NEW g \in Syncs
        PROVE  DropInv(g)'
    <3>1. g # f /\ Stage(g, "dropProvinces") => FALSE
      BY <1>1, <2>1 DEF DropInv, Stage
    <3> QED
      BY <1>12, <1>13, <3>1 DEF DropInv, Stage
  <2>6. old.city = c
    BY <1>4, <1>6, <1>7 DEF ScriptMatches, ServiceMatches
  <2>7. ASSUME ~refused
        PROVE  old.state = s \/ (served' /\ Shared(c))
    <3>1. CASE old = new
      BY <1>4, <3>1
    <3>2. CASE old \in cities /\ ByScript(f)
      BY <1>4, <1>6, <1>7, <3>2 DEF ScriptMatches
    <3>3. CASE old \in cities /\ ~ByScript(f)
      <4>1. served' /\ old.state \in States /\ c \in Atlas[old.state]
        BY <1>10, <2>1, <2>6, <2>7, <3>3, Types DEF CityInv
      <4> QED
        BY <1>11, <2>2, <4>1 DEF Shared
    <3> QED
      BY <1>6, <1>7, <3>1, <3>2, <3>3
  <2>8. ASSUME NEW b \in CityIds, NEW t \in States, <<b, t>> \in told'
        PROVE  ToldInv(b, t)'
    <3>1. CASE ~refused /\ b = c /\ t = s
      BY <1>1, <1>4, <1>10, <2>2, <3>1 DEF ToldInv
    <3>2. CASE refused \/ ~(b = c /\ t = s)
      <4>1. <<b, t>> \in told /\ ToldInv(b, t) /\ (served => served')
        BY <1>10, <2>1, <2>8, <3>2
      <4>2. CASE served /\ Shared(b)
        BY <4>1, <4>2 DEF ToldInv, Shared
      <4>3. CASE ~(served /\ Shared(b))
        <5>1. PICK d \in cities : d = [city |-> b, state |-> t, province |-> provinces[t]]
          BY <4>1, <4>3 DEF ToldInv
        <5>2. CASE d \in cities'
          BY <1>1, <4>1, <5>1, <5>2 DEF ToldInv
        <5>3. CASE d \notin cities'
          <6>1. ~refused /\ d = old
            BY <1>10, <5>3
          <6>2. b = c /\ t # s
            BY <2>6, <3>2, <5>1, <6>1
          <6>3. served' /\ Shared(b)
            BY <2>7, <5>1, <6>1, <6>2
          <6> QED
            BY <4>1, <6>3 DEF ToldInv, Shared
        <5> QED
          BY <5>2, <5>3
      <4> QED
        BY <4>2, <4>3
    <3> QED
      BY <3>1, <3>2
  <2> QED
    BY <2>3, <2>4, <2>5, <2>8
<1> QED
  BY <1>14, <1>15 DEF LocationInv

-----------------------------------------------------------------------------
\* Whatever the provinces, cities and syncs: what is stored hangs on a present province,
\* what a running sync has read still holds, what was told is stored.
THEOREM Invariance == LocationSpec => []LocationInv
<1>1. LocationInv /\ [LocationNext]_locationVars => LocationInv'
  <2> SUFFICES ASSUME LocationInv, [LocationNext]_locationVars PROVE LocationInv'
    OBVIOUS
  <2>1. ASSUME NEW f \in Syncs, NEW kind \in {"all", "provinces", "one", "script"},
               NEW s \in States, StartSync(f, kind, s)
        PROVE  LocationInv'
    BY <2>1, StartSyncKeeps
  <2>2. ASSUME NEW f \in Syncs, SaveProvince(f) \/ SaveCity(f)
        PROVE  LocationInv'
    BY <2>2, SaveProvinceKeeps, SaveCityKeeps
  <2>3. ASSUME NEW f \in Syncs,
               ListProvinces(f) \/ NextProvince(f) \/ FindProvince(f) \/ NoAnswer(f) \/ SyncFails(f)
        PROVE  LocationInv'
    BY <2>3, ListKeeps, NextProvinceKeeps, FindKeeps, NoAnswerKeeps, StopKeeps
  <2>4. ASSUME NEW f \in Syncs, StartDrop(f) \/ DropCities(f) \/ DropProvinces(f)
        PROVE  LocationInv'
    BY <2>4, StartDropKeeps, DropCitiesKeeps, DropProvincesKeeps
  <2>5. CASE UNCHANGED locationVars
    BY <2>5 DEF locationVars, LocationInv, LocationTypeOK, CityInv, ReadInv, DropInv, ToldInv, Stage
  <2> QED
    BY <2>1, <2>2, <2>3, <2>4, <2>5 DEF LocationNext
<1> QED
  BY InitInv, <1>1, PTL DEF LocationSpec

\* Both lists of a province name every city that a sync has written into it and no drop
\* removed, except for shared ids that the service wrote, and drops that met a sync.
THEOREM CitiesHold == LocationSpec => []CitiesStay
<1>1. LocationInv => CitiesStay
  <2> SUFFICES ASSUME LocationInv, ~crossed, NEW w \in told,
                      provinces[w[2]] # 0, ~(served /\ Shared(w[1]))
               PROVE  w[1] \in CitiesByProvince(w[2]) \cap CitiesByExternalId(w[2])
    BY DEF CitiesStay
  <2>1. PICK c \in CityIds, s \in States : w = <<c, s>>
    BY Types
  <2>2. ToldInv(c, s)
    BY <2>1 DEF LocationInv
  <2>3. PICK d \in cities : d.city = c /\ d.state = s /\ d.province = provinces[s]
    BY <2>1, <2>2 DEF ToldInv
  <2> QED
    BY <2>1, <2>3 DEF CitiesByProvince, CitiesByExternalId
<1> QED
  BY Invariance, <1>1, PTL
=============================================================================
