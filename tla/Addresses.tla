----------------------------- MODULE Addresses ------------------------------
(***************************************************************************)
(* The addresses of the shop: AddressService (shop) behind                 *)
(* SiteAddressController, for members, guests and members in a browser     *)
(* that has a session; the older AddressService (user) behind the panel.   *)
(*                                                                         *)
(* A call is a chain of queries: what one reads is used after the next.    *)
(* Validation is switched off for the schema, so that only the checks in   *)
(* the service are left; of the fields of an address the mobile number     *)
(* alone matters, by which a merge tells duplicates.                       *)
(***************************************************************************)
EXTENDS Naturals, FiniteSets, TLC

CONSTANTS
  MaxAddresses,   \* bound: ids, in the order of creation
  Users,
  Nobody,         \* no user, no session
  AddressBodies,  \* [mobile, default]
  Customers,      \* who calls: [user, session], one of which may be Nobody
  Doings,         \* calls that may be running at once
  AddressTasks    \* how often each operation is asked for, in one behaviour

ASSUME AddressAssumption ==
  /\ MaxAddresses \in Nat \ {0} /\ Nobody \notin Users
  /\ \A b \in AddressBodies : b.default \in BOOLEAN
  /\ \A who \in Customers : who.user \in Users \cup {Nobody}

Ids == 1..MaxAddresses

VARIABLES
  addresses,
  doings,   \* locals of the running calls
  tasks,    \* operations still to be asked for, for the bound
  mixed,    \* history: users whose addresses were written in other ways (see Mixing)
  lost      \* history: mobile numbers a merge deleted, <<mobile, why it may>>

addressVars == <<addresses, doings, tasks, mixed, lost>>

NoDoing == [pc |-> "idle", who |-> [user |-> Nobody, session |-> Nobody]]
NoAddress == [state |-> "new", user |-> Nobody, session |-> Nobody, mobile |-> "", default |-> FALSE]

AddressInit ==
  /\ addresses = [a \in Ids |-> NoAddress]
  /\ doings = [c \in Doings |-> NoDoing]
  /\ tasks \in AddressTasks
  /\ mixed = {} /\ lost = {}

Stored == {a \in Ids : addresses[a].state = "stored"}
OfUser(u) == {a \in Stored : addresses[a].user = u}
OfSession(s) == {a \in Stored : addresses[a].session = s}
First(A) == CHOOSE a \in A : \A b \in A : a <= b
NextId == First({a \in Ids : addresses[a].state = "new"} \cup {MaxAddresses})

Task(op) == tasks[op] > 0 /\ tasks' = [tasks EXCEPT ![op] = @ - 1]
In(c, pc) == doings[c].pc = pc
To(c, pc) == doings' = [doings EXCEPT ![c].pc = pc]
Over(c) == doings' = [doings EXCEPT ![c] = NoDoing]

\* Running calls of the same user or the same browser.
Meets(c, who) ==
  {d \in Doings \ {c} : ~In(d, "idle") /\
     (\/ who.user # Nobody /\ doings[d].who.user = who.user
      \/ who.session # Nobody /\ doings[d].who.session = who.session)}

\* Users whose default or number of addresses the call may put out of order: of calls
\* that meet, of a merge, of a call without a user on an address that has one.
Mixing(c, op, who, a) ==
  mixed \cup {doings[d].who.user : d \in Meets(c, who)}
        \cup (IF op = "merge" \/ Meets(c, who) # {} THEN {who.user} ELSE {})
        \cup (IF op = "create" \/ who.user # Nobody THEN {} ELSE {addresses[a].user})

Enter(c, op, who, a, body, pc) ==
  /\ In(c, "idle") /\ Task(op)
  /\ mixed' = Mixing(c, op, who, a)
  /\ doings' = [doings EXCEPT ![c] =
       [pc |-> pc, op |-> op, who |-> who, id |-> a, body |-> body, read |-> NoAddress,
        met |-> FALSE, guests |-> {}, mobiles |-> {}]]

\* A write of a's owner or mobile number, or its deletion: a running merge that may
\* have read the address was met.
HasRead(d, a) ==
  /\ ~In(d, "idle") /\ doings[d].op = "merge"
  /\ addresses[a].user = doings[d].who.user \/ \E g \in doings[d].guests : g[1] = a

Met(a) == [d \in Doings |-> IF HasRead(d, a) THEN [doings[d] EXCEPT !.met = TRUE] ELSE doings[d]]
Wrote(c, a, next) == doings' = [Met(a) EXCEPT ![c] = next]

-----------------------------------------------------------------------------
(* create.                                                                 *)

StartCreate(c, who, body) ==
  /\ who.user # Nobody \/ who.session # Nobody
  /\ Enter(c, "create", who, MaxAddresses, body, IF who.user # Nobody THEN "count" ELSE "unset")
  /\ UNCHANGED <<addresses, lost>>

\* Mutant of Full: one more.
FullAtThree(u) == Cardinality(OfUser(u)) >= 3

Full(u) == Cardinality(OfUser(u)) >= 2

CountAddresses(c) ==
  /\ In(c, "count")
  /\ IF Full(doings[c].who.user) THEN Over(c) ELSE To(c, "unset")
  /\ UNCHANGED <<addresses, tasks, mixed, lost>>

\* unsetDefaultAddress: of the user if there is one, else of the browser, but for the
\* address that is to become the default.
Unset(who, except) ==
  LET own == IF who.user # Nobody THEN OfUser(who.user)
             ELSE IF who.session # Nobody THEN OfSession(who.session) ELSE {} IN
  addresses' = [a \in Ids |-> IF a \in own \ except THEN [addresses[a] EXCEPT !.default = FALSE]
                              ELSE addresses[a]]

UnsetDefaults(c) ==
  /\ In(c, "unset")
  /\ IF doings[c].body.default
     THEN Unset(doings[c].who, IF doings[c].op = "create" THEN {} ELSE {doings[c].id})
     ELSE UNCHANGED addresses
  /\ To(c, "save")
  /\ UNCHANGED <<tasks, mixed, lost>>

SaveNew(c) ==
  /\ In(c, "save") /\ doings[c].op = "create"
  /\ addresses[NextId].state = "new"
  /\ addresses' = [addresses EXCEPT ![NextId] =
       [state |-> "stored", user |-> doings[c].who.user, session |-> doings[c].who.session,
        mobile |-> doings[c].body.mobile, default |-> doings[c].body.default]]
  /\ doings' = [doings EXCEPT ![c].pc = "again", ![c].id = NextId]
  /\ UNCHANGED <<tasks, mixed, lost>>

\* The driver writes the owner and the mobile number once more.
SaveAgain(c) ==
  /\ In(c, "again")
  /\ LET a == doings[c].id IN
     addresses' = IF a \in Stored
       THEN [addresses EXCEPT ![a].user = doings[c].who.user, ![a].session = doings[c].who.session,
                              ![a].mobile = doings[c].body.mobile]
       ELSE addresses
  /\ Wrote(c, doings[c].id, NoDoing)
  /\ UNCHANGED <<tasks, mixed, lost>>

-----------------------------------------------------------------------------
(* findOne with its access check, and what follows it.                     *)

Access(who, a) ==
  /\ who.user # Nobody => addresses[a].user = who.user
  /\ who.session # Nobody => addresses[a].session = who.session

\* set-default is an update that always has the default in it.
StartChange(c, op, who, a, body) ==
  /\ a \in Stored /\ Access(who, a)
  /\ op = "default" => body.default
  /\ Enter(c, op, who, a, body, "find")
  /\ UNCHANGED <<addresses, lost>>

FindAddress(c) ==
  /\ In(c, "find")
  /\ LET a == doings[c].id IN
     IF a \in Stored /\ Access(doings[c].who, a)
     THEN doings' = [doings EXCEPT ![c].read = addresses[a],
                                   ![c].pc = IF doings[c].op = "delete" THEN "delete" ELSE "unset"]
     ELSE Over(c)
  /\ UNCHANGED <<addresses, tasks, mixed, lost>>

\* save writes the fields that differ from those that were read.
SaveChange(c) ==
  /\ In(c, "save") /\ doings[c].op # "create"
  /\ LET a == doings[c].id
         read == doings[c].read
         body == doings[c].body
         mobile == IF doings[c].op = "default" THEN read.mobile ELSE body.mobile IN
     addresses' = IF a \in Stored
       THEN [addresses EXCEPT
               ![a].mobile = IF mobile # read.mobile THEN mobile ELSE @,
               ![a].default = IF body.default # read.default THEN body.default ELSE @]
       ELSE addresses
  /\ Wrote(c, doings[c].id, NoDoing)
  /\ UNCHANGED <<tasks, mixed, lost>>

DeleteAddress(c) ==
  /\ In(c, "delete")
  /\ addresses' = [addresses EXCEPT ![doings[c].id].state = "deleted"]
  /\ Wrote(c, doings[c].id, NoDoing)
  /\ UNCHANGED <<tasks, mixed, lost>>

-----------------------------------------------------------------------------
(* mergeGuestAddresses.                                                    *)

StartMerge(c, who) ==
  /\ who.user # Nobody /\ who.session # Nobody
  /\ Enter(c, "merge", who, MaxAddresses, [mobile |-> "", default |-> FALSE], "guests")
  /\ UNCHANGED <<addresses, lost>>

ReadGuests(c) ==
  /\ In(c, "guests")
  /\ LET guests == OfSession(doings[c].who.session) IN
     IF guests = {} THEN Over(c)
     ELSE doings' = [doings EXCEPT ![c].guests = {<<a, addresses[a].mobile>> : a \in guests},
                                   ![c].pc = "own"]
  /\ UNCHANGED <<addresses, tasks, mixed, lost>>

ReadOwn(c) ==
  /\ In(c, "own")
  /\ doings' = [doings EXCEPT ![c].mobiles = {addresses[a].mobile : a \in OfUser(doings[c].who.user)},
                              ![c].pc = "merge"]
  /\ UNCHANGED <<addresses, tasks, mixed, lost>>

\* Mutant of Duplicate: all guest addresses are taken for duplicates.
DuplicateAlways(c, m) == TRUE

Duplicate(c, m) == m \in doings[c].mobiles

\* A deletion loses a number that the user has nowhere else.
Losing(c, a) ==
  LET u == doings[c].who.user
      m == addresses[a].mobile IN
  IF a \notin Stored \/ \E b \in OfUser(u) \ {a} : addresses[b].mobile = m THEN lost
  ELSE lost \cup {<<m, IF addresses[a].user = u \/ <<m, "own">> \in lost THEN "own"
                          ELSE IF doings[c].met THEN "met" ELSE "alone">>}

Merged(c, g) ==
  [doings[c] EXCEPT !.guests = @ \ {g}, !.mobiles = @ \cup {g[2]},
                    !.pc = IF doings[c].guests = {g} THEN "fallback" ELSE "merge"]

\* In the order of the ids.  A save of an address that is gone is an error.
MergeOne(c) ==
  /\ In(c, "merge")
  /\ \E g \in doings[c].guests :
       LET a == g[1] IN
       /\ \A h \in doings[c].guests : a <= h[1]
       /\ IF Duplicate(c, g[2])
          THEN /\ addresses' = [addresses EXCEPT ![a].state = "deleted"]
               /\ lost' = Losing(c, a)
               /\ Wrote(c, a, Merged(c, g))
          ELSE /\ addresses' = IF a \in Stored
                    THEN [addresses EXCEPT ![a].user = doings[c].who.user, ![a].session = Nobody]
                    ELSE addresses
               /\ UNCHANGED lost
               /\ Wrote(c, a, IF a \in Stored THEN Merged(c, g) ELSE NoDoing)
  /\ UNCHANGED <<tasks, mixed>>

\* Reads the user's addresses once more; without a default the first becomes it.
FindDefault(c) ==
  /\ In(c, "fallback")
  /\ LET own == OfUser(doings[c].who.user) IN
     IF own = {} \/ \E a \in own : addresses[a].default THEN Over(c)
     ELSE doings' = [doings EXCEPT ![c].id = First(own), ![c].pc = "first"]
  /\ UNCHANGED <<addresses, tasks, mixed, lost>>

SaveFirst(c) ==
  /\ In(c, "first")
  /\ addresses' = [addresses EXCEPT ![doings[c].id].default = @ \/ doings[c].id \in Stored]
  /\ Over(c)
  /\ UNCHANGED <<tasks, mixed, lost>>

-----------------------------------------------------------------------------
(* The panel writes without a limit and without a look at other addresses. *)

PanelCreate(u, body) ==
  /\ Task("panel") /\ addresses[NextId].state = "new"
  /\ addresses' = [addresses EXCEPT ![NextId] =
       [state |-> "stored", user |-> u, session |-> Nobody, mobile |-> body.mobile,
        default |-> body.default]]
  /\ mixed' = mixed \cup {u}
  /\ UNCHANGED <<doings, lost>>

\* The panel's body has no field for the mobile number that the schema knows.
PanelUpdate(a, default) ==
  /\ a \in Stored /\ Task("panel")
  /\ addresses' = [addresses EXCEPT ![a].default = default]
  /\ mixed' = mixed \cup {addresses[a].user}
  /\ UNCHANGED <<doings, lost>>

PanelDelete(a) ==
  /\ a \in Stored /\ Task("panel")
  /\ addresses' = [addresses EXCEPT ![a].state = "deleted"]
  /\ doings' = Met(a)
  /\ UNCHANGED <<mixed, lost>>

\* The database does not answer, or the process ends.
AddressCallFails(c) ==
  /\ ~In(c, "idle") /\ Task("fail")
  /\ Over(c)
  /\ UNCHANGED <<addresses, mixed, lost>>

AddressNext ==
  \/ \E c \in Doings, who \in Customers :
       \/ \E body \in AddressBodies :
            \/ StartCreate(c, who, body)
            \/ \E a \in Ids, op \in {"update", "default"} : StartChange(c, op, who, a, body)
       \/ \E a \in Ids : StartChange(c, "delete", who, a, [mobile |-> "", default |-> FALSE])
       \/ StartMerge(c, who)
  \/ \E c \in Doings :
       \/ CountAddresses(c) \/ UnsetDefaults(c) \/ SaveNew(c) \/ SaveAgain(c)
       \/ FindAddress(c) \/ SaveChange(c) \/ DeleteAddress(c)
       \/ ReadGuests(c) \/ ReadOwn(c) \/ MergeOne(c) \/ FindDefault(c) \/ SaveFirst(c)
       \/ AddressCallFails(c)
  \/ \E body \in AddressBodies, u \in Users : PanelCreate(u, body)
  \/ \E a \in Ids :
       \/ \E default \in BOOLEAN : PanelUpdate(a, default)
       \/ PanelDelete(a)

AddressSpec == AddressInit /\ [][AddressNext]_addressVars

-----------------------------------------------------------------------------
\* A member has at most two addresses and one default, unless his calls overlapped,
\* a merge or the panel added to them, or a guest in his browser changed one that has
\* both owners; and a merge deletes a guest's address only if the member has another
\* with its mobile number, or had one that the merge took for a duplicate of itself, or
\* another call wrote an address that the merge had read.
AddressesInOrder ==
  /\ \A u \in Users \ mixed :
       /\ Cardinality(OfUser(u)) <= 2
       /\ Cardinality({a \in OfUser(u) : addresses[a].default}) <= 1
  /\ \A l \in lost : l[2] # "alone"

\* "If it is a duplicate, delete the guest's address" (AddressService.mergeGuestAddresses):
\* whatever a merge deletes, the member keeps an address with that number.
MergeDeletesDuplicates == lost = {}

-----------------------------------------------------------------------------
(* The inductive invariant.                                                *)

Browsers == {who.session : who \in Customers} \cup {Nobody}
MobileNumbers == {b.mobile : b \in AddressBodies} \cup {""}
AnyBody == AddressBodies \cup {[mobile |-> "", default |-> FALSE]}

AddressRecords ==
  [state : {"new", "stored", "deleted"}, user : Users \cup {Nobody}, session : Browsers,
   mobile : MobileNumbers, default : BOOLEAN]

Stages == {"count", "unset", "save", "again", "find", "delete", "guests", "own", "merge", "fallback",
           "first"}
Changes == {"update", "default"}

DoingLocals ==
  [pc : Stages, op : {"create", "update", "default", "delete", "merge"}, who : Customers, id : Ids,
   body : AnyBody, read : AddressRecords, met : BOOLEAN, guests : SUBSET (Ids \X MobileNumbers),
   mobiles : SUBSET MobileNumbers]

AddressTypeOK ==
  /\ addresses \in [Ids -> AddressRecords]
  /\ doings \in [Doings -> {NoDoing} \cup DoingLocals]
  /\ mixed \subseteq Users \cup {Nobody}
  /\ lost \subseteq MobileNumbers \X {"own", "met"}

Runs(c) == ~In(c, "idle")
Making(c, pc) == In(c, pc) /\ doings[c].op = "create"

\* A user whose calls did not overlap is in order:
OwnerInv(u) ==
  /\ Cardinality(OfUser(u)) <= 2
  /\ \A a, b \in OfUser(u) : addresses[a].default /\ addresses[b].default => a = b

\* ... his call has left a place for what it adds, and no other default,
PlaceInv(c) ==
  LET u == doings[c].who.user
      Others == OfUser(u) \ (IF doings[c].op = "create" THEN {} ELSE {doings[c].id}) IN
  u \in Users \ mixed =>
    /\ Making(c, "unset") \/ Making(c, "save") => Cardinality(OfUser(u)) <= 1
    /\ In(c, "save") /\ doings[c].body.default => \A a \in Others : ~addresses[a].default

\* ... and the address it made is still his.
MadeInv(c) ==
  Making(c, "again") =>
    LET a == doings[c].id IN
    /\ addresses[a].state # "new"
    /\ doings[c].who.user \in Users \ mixed =>
         /\ addresses[a].user = doings[c].who.user
         /\ addresses[a].session = doings[c].who.session
         /\ \A d \in Doings : Runs(d) => \A g \in doings[d].guests : g[1] # a

\* What the stage of a call says of its operation.
StageInv(c) ==
  /\ In(c, "unset") \/ In(c, "save") => doings[c].op \in {"create"} \cup Changes
  /\ In(c, "count") \/ In(c, "again") => doings[c].op = "create"
  /\ In(c, "find") => doings[c].op \in {"delete"} \cup Changes
  /\ In(c, "delete") => doings[c].op = "delete"
  /\ In(c, "count") => doings[c].who.user # Nobody
  /\ (doings[c].op = "merge") = (doings[c].pc \in {"guests", "own", "merge", "fallback", "first"})
  /\ doings[c].op = "merge" => doings[c].who.user \in mixed \cap Users
  /\ doings[c].op = "merge" => doings[c].who.session # Nobody

\* The default it may set is on an address of its user, or of one who is mixed.
ForeignInv(c) ==
  /\ doings[c].op \in {"delete"} \cup Changes \/ In(c, "first") =>
       addresses[doings[c].id].state # "new"
  /\ \/ doings[c].op \in Changes /\ (doings[c].who.user = Nobody \/ In(c, "unset") \/ In(c, "save"))
     \/ In(c, "first")
     => addresses[doings[c].id].user \in {Nobody, doings[c].who.user} \cup mixed

\* What a merge that was not met has read still holds.
MergeInv(c) ==
  /\ \A g \in doings[c].guests : addresses[g[1]].state # "new"
  /\ doings[c].op = "merge" /\ ~doings[c].met =>
       /\ \A g \in doings[c].guests : g[1] \in Stored => addresses[g[1]].mobile = g[2]
       /\ \A m \in doings[c].mobiles :
            <<m, "own">> \in lost \/ \E b \in OfUser(doings[c].who.user) : addresses[b].mobile = m

\* Calls that run together: their users are mixed if they meet.
PairInv(c, d) ==
  /\ \/ doings[c].who.user = doings[d].who.user
     \/ doings[c].who.session # Nobody /\ doings[c].who.session = doings[d].who.session
     => doings[c].who.user = Nobody \/ doings[c].who.user \in mixed
  /\ Making(c, "again") /\ Making(d, "again") => doings[c].id # doings[d].id

AddressInv ==
  /\ AddressTypeOK
  /\ \A u \in Users \ mixed : OwnerInv(u)
  /\ \A c \in Doings : Runs(c) =>
       /\ StageInv(c) /\ PlaceInv(c) /\ MadeInv(c) /\ ForeignInv(c) /\ MergeInv(c)
       /\ \A d \in Doings \ {c} : Runs(d) => PairInv(c, d)
=============================================================================
