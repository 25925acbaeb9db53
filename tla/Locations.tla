----------------------------- MODULE Locations ------------------------------
(***************************************************************************)
(* Provinces and cities, copied from an external service: LocationService  *)
(* (the sync endpoints and the lists), the script sync-locations, which    *)
(* copies the same data in its own way, and drop-and-recreate-locations.   *)
(*                                                                         *)
(* Every document is written with an upsert, which is one step.  The       *)
(* unique index on a city's and its province's external id is there; the   *)
(* time between a drop and the application's next start, when it is not,   *)
(* is left out.                                                            *)
(***************************************************************************)
EXTENDS Naturals, FiniteSets, TLC

CONSTANTS
  States,      \* provinces, by their external ids
  CityIds,     \* external ids of cities
  Atlas,       \* [States -> SUBSET CityIds], what the external service answers
  Syncs,       \* sync requests and scripts that may be running at once
  Jobs,        \* how often each of them is asked for, in one behaviour
  MaxObjects   \* bound on the ids of province documents

ASSUME LocationAssumption ==
  Atlas \in [States -> SUBSET CityIds] /\ MaxObjects \in Nat

VARIABLES
  provinces,  \* object id of every province's document; 0: there is none
  cities,     \* documents [city, state, province]
  objects,    \* object ids that are used up
  syncs,      \* locals of the running syncs
  jobs,       \* syncs still to be asked for, for the bound
  told,       \* history: <<city, state>> written since the last drop
  served,     \* history: the service has written a city since the last drop
  crossed     \* history: a drop met a running sync

locationVars == <<provinces, cities, objects, syncs, jobs, told, served, crossed>>

NoSync == [pc |-> "idle"]

LocationInit ==
  /\ provinces = [s \in States |-> 0] /\ cities = {} /\ objects = 0
  /\ syncs = [f \in Syncs |-> NoSync]
  /\ jobs \in Jobs
  /\ told = {} /\ served = FALSE /\ crossed = FALSE

Job(op) == jobs[op] > 0 /\ jobs' = [jobs EXCEPT ![op] = @ - 1]
Stage(f, pc) == syncs[f].pc = pc
Turn(f, sync) == syncs' = [syncs EXCEPT ![f] = sync]
ByScript(f) == syncs[f].kind = "script"

\* The province is dealt with: on to the next, if the sync is about all of them.
Continue(f) == IF syncs[f].kind = "one" THEN NoSync ELSE [syncs[f] EXCEPT !.pc = "each"]

\* syncAllLocations, syncProvinces and the script begin with the provinces,
\* syncCitiesByProvince has one.
StartSync(f, kind, s) ==
  /\ Stage(f, "idle") /\ Job(kind)
  /\ Turn(f, [pc |-> IF kind = "one" THEN "find" ELSE "provinces", kind |-> kind,
              todo |-> States, state |-> s, province |-> 0, rest |-> {}])
  /\ crossed' = (crossed \/ \E g \in Syncs : Stage(g, "dropProvinces"))
  /\ UNCHANGED <<provinces, cities, objects, told, served>>

SaveProvince(f) ==
  /\ Stage(f, "provinces")
  /\ \E s \in syncs[f].todo :
       /\ IF provinces[s] = 0
          THEN /\ objects < MaxObjects
               /\ objects' = objects + 1 /\ provinces' = [provinces EXCEPT ![s] = objects + 1]
          ELSE UNCHANGED <<objects, provinces>>
       /\ Turn(f, IF syncs[f].todo # {s} THEN [syncs[f] EXCEPT !.todo = @ \ {s}]
                  ELSE IF syncs[f].kind = "provinces" THEN NoSync
                  ELSE IF ByScript(f) THEN [syncs[f] EXCEPT !.todo = States, !.pc = "each"]
                  ELSE [syncs[f] EXCEPT !.todo = {}, !.pc = "list"])
  /\ UNCHANGED <<cities, jobs, told, served, crossed>>

\* The service goes over the provinces it finds stored, the script over those answered.
ListProvinces(f) ==
  /\ Stage(f, "list")
  /\ Turn(f, [syncs[f] EXCEPT !.todo = {s \in States : provinces[s] # 0}, !.pc = "each"])
  /\ UNCHANGED <<provinces, cities, objects, jobs, told, served, crossed>>

NextProvince(f) ==
  /\ Stage(f, "each")
  /\ IF syncs[f].todo = {} THEN Turn(f, NoSync)
     ELSE \E s \in syncs[f].todo :
            Turn(f, [syncs[f] EXCEPT !.todo = @ \ {s}, !.state = s, !.pc = "find"])
  /\ UNCHANGED <<provinces, cities, objects, jobs, told, served, crossed>>

\* The external service has answered; the province's document is looked up.
FindProvince(f) ==
  /\ Stage(f, "find")
  /\ LET s == syncs[f].state IN
     Turn(f, IF Atlas[s] = {} \/ provinces[s] = 0 THEN Continue(f)
             ELSE [syncs[f] EXCEPT !.province = provinces[s], !.rest = Atlas[s], !.pc = "cities"])
  /\ UNCHANGED <<provinces, cities, objects, jobs, told, served, crossed>>

\* Without an answer the script goes on with the next province, the service fails.
NoAnswer(f) ==
  /\ Stage(f, "find") /\ Job("fail")
  /\ Turn(f, IF ByScript(f) THEN Continue(f) ELSE NoSync)
  /\ UNCHANGED <<provinces, cities, objects, told, served, crossed>>

\* Mutant of ScriptMatches: by the city's id alone, as the service does it.
ScriptMatchesCity(d, c, s) == d.city = c

\* The documents that the filter of the script's upsert fits.
ScriptMatches(d, c, s) == d.city = c /\ d.state = s

ServiceMatches(d, c, s) == d.city = c

\* An upsert changes one document that fits or adds one.  The unique index refuses a
\* second document of the same city and province: the script ignores that.
SaveCity(f) ==
  /\ Stage(f, "cities")
  /\ \E c \in syncs[f].rest :
       LET s == syncs[f].state
           new == [city |-> c, state |-> s, province |-> syncs[f].province]
           fit == {d \in cities : IF ByScript(f) THEN ScriptMatches(d, c, s) ELSE ServiceMatches(d, c, s)}
           done == IF syncs[f].rest = {c} THEN Continue(f) ELSE [syncs[f] EXCEPT !.rest = @ \ {c}] IN
       \E old \in IF fit = {} THEN {new} ELSE fit :
         LET refused == \E d \in cities \ {old} : d.city = c /\ d.state = s IN
         /\ cities' = IF refused THEN cities ELSE (cities \ {old}) \cup {new}
         /\ told' = IF refused THEN told ELSE told \cup {<<c, s>>}
         /\ served' = (served \/ (~ByScript(f) /\ ~refused))
         /\ Turn(f, IF refused /\ ~ByScript(f) THEN NoSync ELSE done)
  /\ UNCHANGED <<provinces, objects, jobs, crossed>>

\* drop-and-recreate-locations: the cities, then the provinces.
StartDrop(f) ==
  /\ Stage(f, "idle") /\ Job("drop")
  /\ Turn(f, [pc |-> "dropCities", kind |-> "drop"])
  /\ UNCHANGED <<provinces, cities, objects, told, served, crossed>>

Crossing(f) == crossed' = (crossed \/ \E g \in Syncs \ {f} : ~Stage(g, "idle"))

DropCities(f) ==
  /\ Stage(f, "dropCities")
  /\ cities' = {} /\ told' = {} /\ served' = FALSE
  /\ Crossing(f)
  /\ Turn(f, [syncs[f] EXCEPT !.pc = "dropProvinces"])
  /\ UNCHANGED <<provinces, objects, jobs>>

DropProvinces(f) ==
  /\ Stage(f, "dropProvinces")
  /\ provinces' = [s \in States |-> 0]
  /\ Crossing(f)
  /\ Turn(f, NoSync)
  /\ UNCHANGED <<cities, objects, jobs, told, served>>

\* The database does not answer, or the process ends.
SyncFails(f) ==
  /\ ~Stage(f, "idle") /\ Job("fail")
  /\ Turn(f, NoSync)
  /\ UNCHANGED <<provinces, cities, objects, told, served, crossed>>

LocationNext ==
  \E f \in Syncs :
    \/ \E kind \in {"all", "provinces", "one", "script"}, s \in States : StartSync(f, kind, s)
    \/ SaveProvince(f) \/ ListProvinces(f) \/ NextProvince(f) \/ FindProvince(f) \/ NoAnswer(f)
    \/ SaveCity(f) \/ StartDrop(f) \/ DropCities(f) \/ DropProvinces(f) \/ SyncFails(f)

LocationSpec == LocationInit /\ [][LocationNext]_locationVars

-----------------------------------------------------------------------------
\* The two lists: by one of the province's ids and, if that finds nothing, by the other.
CitiesByProvince(s) ==
  LET byId == {d \in cities : d.province = provinces[s]}
      found == IF byId = {} THEN {d \in cities : d.state = s} ELSE byId IN
  IF provinces[s] = 0 THEN {} ELSE {d.city : d \in found}

CitiesByExternalId(s) ==
  LET byState == {d \in cities : d.state = s}
      found == IF byState = {} THEN {d \in cities : d.province = provinces[s]} ELSE byState IN
  IF provinces[s] = 0 THEN {} ELSE {d.city : d \in found}

Shared(c) == \E s, t \in States : s # t /\ c \in Atlas[s] /\ c \in Atlas[t]

\* Both lists of a province name every city that a sync has written into it and no drop
\* removed, whatever syncs overlap, fail or are repeated.  Left out are cities whose id
\* two provinces share, once the service has written any, and a drop that met a sync.
CitiesStay ==
  ~crossed =>
    \A w \in told :
      provinces[w[2]] # 0 /\ ~(served /\ Shared(w[1])) =>
        w[1] \in CitiesByProvince(w[2]) \cap CitiesByExternalId(w[2])

\* "Not unique, for it may be repeated in different provinces" (the city's externalId,
\* city.schema): both provinces keep their city.
SharedCitiesStay == \A w \in told : \E d \in cities : d.city = w[1] /\ d.state = w[2]

-----------------------------------------------------------------------------
(* The inductive invariant.                                                *)

SyncLocals ==
  [pc : {"provinces", "list", "each", "find", "cities"},
   kind : {"all", "provinces", "one", "script"}, todo : SUBSET States, state : States,
   province : Nat, rest : SUBSET CityIds]
DropLocals == [pc : {"dropCities", "dropProvinces"}, kind : {"drop"}]

LocationTypeOK ==
  /\ provinces \in [States -> Nat]
  /\ cities \subseteq [city : CityIds, state : States, province : Nat]
  /\ objects \in Nat
  /\ syncs \in [Syncs -> {NoSync} \cup SyncLocals \cup DropLocals]
  /\ told \subseteq CityIds \X States
  /\ served \in BOOLEAN /\ crossed \in BOOLEAN

\* Whatever is stored hangs on the province's present document, and is in the atlas:
CityInv(d) ==
  provinces[d.state] # 0 /\ d.province = provinces[d.state] /\ d.city \in Atlas[d.state]

\* ... what a sync has read still holds when it writes,
ReadInv(f) ==
  Stage(f, "cities") =>
    LET s == syncs[f].state IN
    provinces[s] # 0 /\ syncs[f].province = provinces[s] /\ syncs[f].rest \subseteq Atlas[s]

\* ... and between the two halves of a drop nothing is stored and no sync runs.
DropInv(f) ==
  Stage(f, "dropProvinces") =>
    /\ cities = {} /\ told = {}
    /\ \A g \in Syncs \ {f} : Stage(g, "idle") \/ Stage(g, "dropCities")

\* What a sync has told is stored, unless the service wrote over it.
ToldInv(c, s) ==
  /\ c \in Atlas[s]
  /\ (served /\ Shared(c)) \/ [city |-> c, state |-> s, province |-> provinces[s]] \in cities

LocationInv ==
  /\ LocationTypeOK
  /\ ~crossed =>
       /\ \A d \in cities : CityInv(d)
       /\ \A f \in Syncs : ReadInv(f) /\ DropInv(f)
       /\ \A c \in CityIds, s \in States : <<c, s>> \in told => ToldInv(c, s)
=============================================================================
