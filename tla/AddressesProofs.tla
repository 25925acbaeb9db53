-------------------------- MODULE AddressesProofs ----------------------------
(***************************************************************************)
(* Proofs about Addresses for any users, browsers and addresses, and any   *)
(* number of calls at once.  AddressInv is inductive, and AddressesInOrder *)
(* follows from it.                                                        *)
(***************************************************************************)
EXTENDS Addresses, FiniteSetTheorems, WellFoundedInduction, TLAPS

LEMMA Constants ==
  /\ MaxAddresses \in Nat /\ MaxAddresses >= 1 /\ MaxAddresses \in Ids /\ Ids \subseteq Nat
  /\ Nobody \notin Users
  BY AddressAssumption DEF Ids

Locals == {NoDoing} \cup DoingLocals

LEMMA Types ==
  ASSUME AddressInv
  PROVE  /\ addresses \in [Ids -> AddressRecords] /\ doings \in [Doings -> Locals]
         /\ mixed \subseteq Users \cup {Nobody}
         /\ lost \subseteq MobileNumbers \X {"own", "met"}
  BY DEF AddressInv, AddressTypeOK, Locals

LEMMA RunningLocals ==
  ASSUME AddressInv, NEW c \in Doings, Runs(c)
  PROVE  doings[c] \in DoingLocals
  BY Types DEF Locals, Runs, In, NoDoing

LEMMA BodyTypes ==
  ASSUME NEW b \in AnyBody
  PROVE  b.mobile \in MobileNumbers /\ b.default \in BOOLEAN
<1>1. CASE b = [mobile |-> "", default |-> FALSE]
  BY <1>1 DEF MobileNumbers
<1>2. CASE b \in AddressBodies
  BY <1>2, AddressAssumption DEF MobileNumbers
<1> QED
  BY <1>1, <1>2 DEF AnyBody

LEMMA CustomerTypes ==
  ASSUME NEW who \in Customers
  PROVE  who.user \in Users \cup {Nobody} /\ who.session \in Browsers
  BY AddressAssumption DEF Browsers

\* A set of addresses has a first one.
LEMMA FirstIn ==
  ASSUME NEW A \in SUBSET Ids, A # {}
  PROVE  First(A) \in A /\ First(A) \in Ids
<1>1. PICK x \in A : \A y \in A : ~(<<y, x>> \in OpToRel(<, Nat))
  BY Constants, NatLessThanWellFounded, WFMin
<1>2. \A y \in A : y < x => <<y, x>> \in OpToRel(<, Nat)
  BY Constants DEF OpToRel
<1>3. \A y \in A : ~(y < x)
  BY <1>1, <1>2, Zenon
<1>4. \A y \in Nat : y \in A => x <= y
  BY <1>3, Constants
<1>5. \A y \in A : x <= y
  BY <1>4, Constants
<1> QED
  BY <1>5 DEF First

LEMMA NextIdIn == NextId \in Ids
<1>1. {a \in Ids : addresses[a].state = "new"} \cup {MaxAddresses} \in SUBSET Ids
  BY Constants
<1> QED
  BY <1>1, FirstIn DEF NextId

\* Sets of addresses are finite; one with no two members has at most one.
LEMMA Counted ==
  ASSUME NEW A \in SUBSET Ids
  PROVE  IsFiniteSet(A) /\ Cardinality(A) \in Nat
<1>1. \A a \in A : a <= MaxAddresses
  BY DEF Ids
<1>2. A \in SUBSET Nat
  BY Constants
<1>3. IsFiniteSet(A)
  BY <1>1, <1>2, Constants, FS_BoundedSetOfNaturals
<1> QED
  BY <1>3, FS_CardinalityType

LEMMA Fewer ==
  ASSUME NEW A \in SUBSET Ids, NEW B \in SUBSET A
  PROVE  Cardinality(B) <= Cardinality(A)
  BY Counted, FS_Subset

LEMMA AtMostOne ==
  ASSUME NEW A \in SUBSET Ids, \A a, b \in A : a = b
  PROVE  Cardinality(A) <= 1
<1>1. CASE A = {}
  BY <1>1, FS_EmptySet
<1>2. CASE A # {}
  <2>1. PICK a \in A : A = {a}
    BY <1>2
  <2> QED
    BY <2>1, FS_Singleton
<1> QED
  BY <1>1, <1>2

LEMMA OwnedIds == \A u : OfUser(u) \in SUBSET Ids
  BY DEF OfUser, Stored

LEMMA InitInv == AddressInit => AddressInv
<1> SUFFICES ASSUME AddressInit PROVE AddressInv
  OBVIOUS
<1>1. /\ addresses = [a \in Ids |-> NoAddress] /\ doings = [c \in Doings |-> NoDoing]
      /\ mixed = {} /\ lost = {}
  BY DEF AddressInit
<1>2. NoAddress \in AddressRecords
  BY DEF NoAddress, AddressRecords, Browsers, MobileNumbers
<1>3. AddressTypeOK
  BY <1>1, <1>2 DEF AddressTypeOK
<1>4. \A u : OfUser(u) = {}
  BY <1>1 DEF OfUser, Stored, NoAddress
<1>5. \A u \in Users : OwnerInv(u)
  BY <1>4, FS_EmptySet DEF OwnerInv
<1>6. \A c \in Doings : ~Runs(c)
  BY <1>1 DEF Runs, In, NoDoing
<1> QED
  BY <1>1, <1>3, <1>5, <1>6 DEF AddressInv

-----------------------------------------------------------------------------
(* What a step leaves of the calls that it is not a step of, and of the    *)
(* users whose addresses it does not add to.                               *)

\* Of another call a step changes no more than the mark that it was met.
Beside(d) ==
  /\ Runs(d)' => Runs(d)
  /\ Runs(d) => doings'[d] = doings[d] \/ doings'[d] = [doings[d] EXCEPT !.met = TRUE]

\* Nobody but x gets an address, or a default, unless he is mixed.
Mild(x) ==
  /\ mixed \subseteq mixed' /\ mixed' \subseteq Users \cup {Nobody}
  /\ lost \subseteq lost'
  /\ \A a \in Ids : addresses[a].state # "new" =>
       /\ addresses'[a].state # "new"
       /\ addresses'[a].user \in {addresses[a].user, Nobody} \cup mixed'
  /\ \A u \in Users \ mixed' : u # x =>
       \A a \in OfUser(u)' : a \in OfUser(u) /\ (addresses'[a].default => addresses[a].default)

\* What a merge that was not met has read is untouched.
Untouched(d) ==
  (doings[d].op = "merge" /\ ~doings'[d].met) =>
    \A a \in Ids : addresses[a].state # "new" /\ HasRead(d, a) =>
      /\ addresses'[a].mobile = addresses[a].mobile /\ addresses'[a].user = addresses[a].user
      /\ addresses'[a].state = addresses[a].state

\* An address just made is left to its call.
Kept(d) ==
  (Making(d, "again") /\ doings[d].who.user \in Users \ mixed') =>
    LET a == doings[d].id IN
    /\ addresses'[a].user = addresses[a].user /\ addresses'[a].session = addresses[a].session
    /\ \A e \in Doings : Runs(e)' => \A g \in doings'[e].guests : g[1] # a

LEMMA OwnersKeep ==
  ASSUME AddressInv, NEW x, Mild(x), NEW u \in Users, u \notin mixed', u # x
  PROVE  OwnerInv(u)'
<1>1. OwnerInv(u)
  BY DEF AddressInv, Mild
<1>2. \A a \in OfUser(u)' : a \in OfUser(u) /\ (addresses'[a].default => addresses[a].default)
  BY DEF Mild
<1>3. Cardinality(OfUser(u)') <= 2
  <2>1. PICK A : A = OfUser(u)
    OBVIOUS
  <2>2. PICK B : B = OfUser(u)'
    OBVIOUS
  <2>3. A \in SUBSET Ids /\ B \in SUBSET A /\ Cardinality(A) <= 2
    BY <1>1, <1>2, <2>1, <2>2, OwnedIds DEF OwnerInv
  <2>4. Cardinality(B) <= Cardinality(A) /\ Cardinality(A) \in Nat /\ Cardinality(B) \in Nat
    BY <2>3, Fewer, Counted
  <2> QED
    BY <2>2, <2>3, <2>4
<1>4. \A a, b \in OfUser(u)' : addresses'[a].default /\ addresses'[b].default => a = b
  BY <1>1, <1>2 DEF OwnerInv
<1> QED
  BY <1>3, <1>4 DEF OwnerInv

\* What Beside leaves of a running call.
LEMMA BesideFields ==
  ASSUME AddressInv, NEW d \in Doings, Runs(d)', Beside(d)
  PROVE  /\ Runs(d) /\ doings[d] \in DoingLocals
         /\ doings'[d].pc = doings[d].pc /\ doings'[d].op = doings[d].op
         /\ doings'[d].who = doings[d].who /\ doings'[d].id = doings[d].id
         /\ doings'[d].body = doings[d].body /\ doings'[d].guests = doings[d].guests
         /\ doings'[d].mobiles = doings[d].mobiles /\ (doings[d].met => doings'[d].met)
<1>1. Runs(d) /\ doings[d] \in DoingLocals
  BY RunningLocals DEF Beside
<1>2. doings'[d] = doings[d] \/ doings'[d] = [doings[d] EXCEPT !.met = TRUE]
  BY <1>1 DEF Beside
<1> QED
  BY <1>1, <1>2 DEF DoingLocals

LEMMA StageBeside ==
  ASSUME AddressInv, NEW d \in Doings, Runs(d)', Beside(d), NEW x, Mild(x)
  PROVE  StageInv(d)'
<1>1. StageInv(d)
  BY BesideFields DEF AddressInv
<1> QED
  BY <1>1, BesideFields DEF StageInv, In, Mild

LEMMA PlaceBeside ==
  ASSUME AddressInv, NEW d \in Doings, Runs(d)', Beside(d), NEW x, Mild(x),
         doings[d].who.user # x \/ x \in {Nobody} \cup mixed'
  PROVE  PlaceInv(d)'
<1>1. PlaceInv(d)
  BY BesideFields DEF AddressInv
<1>2. PICK u : u = doings[d].who.user
  OBVIOUS
<1>3. CASE u \in Users /\ u \notin mixed'
  <2>1. u # x /\ u \notin mixed
    BY <1>2, <1>3, Constants DEF Mild
  <2>2. \A a \in OfUser(u)' : a \in OfUser(u) /\ (addresses'[a].default => addresses[a].default)
    BY <1>3, <2>1 DEF Mild
  <2>3. PICK A : A = OfUser(u)
    OBVIOUS
  <2>4. PICK B : B = OfUser(u)'
    OBVIOUS
  <2>5. A \in SUBSET Ids /\ B \in SUBSET A
    BY <2>2, <2>3, <2>4, OwnedIds
  <2>6. Cardinality(B) <= Cardinality(A) /\ Cardinality(A) \in Nat /\ Cardinality(B) \in Nat
    BY <2>5, Fewer, Counted
  <2>7. Making(d, "unset")' \/ Making(d, "save")' => Cardinality(B) <= 1
    <3>1. Making(d, "unset")' \/ Making(d, "save")' => Making(d, "unset") \/ Making(d, "save")
      BY BesideFields DEF Making, In
    <3>2. Making(d, "unset") \/ Making(d, "save") => Cardinality(A) <= 1
      BY <1>1, <1>2, <1>3, <2>1, <2>3 DEF PlaceInv
    <3> QED
      BY <2>6, <3>1, <3>2
  <2>8. In(d, "save")' /\ doings'[d].body.default =>
          \A a \in B \ (IF doings'[d].op = "create" THEN {} ELSE {doings'[d].id}) : ~addresses'[a].default
    BY <1>1, <1>2, <1>3, <2>1, <2>2, <2>4, BesideFields DEF PlaceInv, In
  <2>9. doings'[d].who.user = u
    BY <1>2, BesideFields
  <2> QED
    BY <2>4, <2>7, <2>8, <2>9 DEF PlaceInv
<1>4. CASE ~(u \in Users /\ u \notin mixed')
  BY <1>2, <1>4, BesideFields DEF PlaceInv
<1> QED
  BY <1>3, <1>4

LEMMA ForeignBeside ==
  ASSUME AddressInv, NEW d \in Doings, Runs(d)', Beside(d), NEW x, Mild(x)
  PROVE  ForeignInv(d)'
<1>1. ForeignInv(d) /\ doings[d].id \in Ids
  BY BesideFields DEF AddressInv, DoingLocals
<1> QED
  BY <1>1, BesideFields DEF ForeignInv, In, Mild

LEMMA MadeBeside ==
  ASSUME AddressInv, NEW d \in Doings, Runs(d)', Beside(d), NEW x, Mild(x), Kept(d)
  PROVE  MadeInv(d)'
<1>1. MadeInv(d) /\ doings[d].id \in Ids
  BY BesideFields DEF AddressInv, DoingLocals
<1>2. Making(d, "again")' => Making(d, "again")
  BY BesideFields DEF Making, In
<1> QED
  BY <1>1, <1>2, BesideFields DEF MadeInv, Kept, Mild

LEMMA MergeBeside ==
  ASSUME AddressInv, NEW d \in Doings, Runs(d)', Beside(d), NEW x, Mild(x), Untouched(d)
  PROVE  MergeInv(d)'
<1>1. MergeInv(d) /\ doings[d] \in DoingLocals
  BY BesideFields DEF AddressInv
<1>2. \A g \in doings[d].guests : g[1] \in Ids
  BY <1>1 DEF DoingLocals
<1> PICK u : u = doings[d].who.user /\ u = doings'[d].who.user
  BY BesideFields
<1>3. \A g \in doings'[d].guests : addresses'[g[1]].state # "new"
  BY <1>1, <1>2, BesideFields DEF MergeInv, Mild
<1>4. ASSUME doings'[d].op = "merge", ~doings'[d].met
      PROVE  /\ \A g \in doings'[d].guests : g[1] \in Stored' => addresses'[g[1]].mobile = g[2]
             /\ \A m \in doings'[d].mobiles :
                  \/ <<m, "own">> \in lost'
                  \/ \E b \in OfUser(u)' : addresses'[b].mobile = m
  <2>1. doings[d].op = "merge" /\ ~doings[d].met
    BY <1>4, BesideFields
  <2>2. /\ \A g \in doings[d].guests : addresses[g[1]].state # "new"
        /\ \A g \in doings[d].guests : g[1] \in Stored => addresses[g[1]].mobile = g[2]
        /\ \A m \in doings[d].mobiles :
             <<m, "own">> \in lost \/ \E b \in OfUser(u) : addresses[b].mobile = m
    BY <1>1, <2>1 DEF MergeInv
  <2>3. \A a \in Ids : addresses[a].state # "new" /\ HasRead(d, a) =>
          /\ addresses'[a].mobile = addresses[a].mobile /\ addresses'[a].user = addresses[a].user
          /\ addresses'[a].state = addresses[a].state
    BY <1>4, <2>1 DEF Untouched
  <2>4. \A g \in doings'[d].guests : g[1] \in Stored' => addresses'[g[1]].mobile = g[2]
    <3>1. \A g \in doings[d].guests : HasRead(d, g[1])
      BY <2>1, BesideFields DEF HasRead, Runs
    <3>2. SUFFICES ASSUME NEW g \in doings[d].guests, g[1] \in Stored'
                   PROVE  addresses'[g[1]].mobile = g[2]
      BY BesideFields
    <3>3. PICK a \in Ids : a = g[1]
      BY <1>2
    <3>4. addresses'[a].mobile = addresses[a].mobile /\ addresses'[a].state = addresses[a].state
      BY <2>2, <2>3, <3>1, <3>3
    <3>5. a \in Stored
      BY <3>2, <3>3, <3>4 DEF Stored
    <3> QED
      BY <2>2, <3>3, <3>4, <3>5
  <2>5. \A b \in OfUser(u) :
          b \in OfUser(u)' /\ addresses'[b].mobile = addresses[b].mobile
    <3>1. \A b \in OfUser(u) : HasRead(d, b)
      BY <2>1, BesideFields DEF HasRead, Runs, OfUser
    <3> QED
      BY <2>3, <3>1 DEF OfUser, Stored
  <2>6. ASSUME NEW m \in doings'[d].mobiles
        PROVE  \/ <<m, "own">> \in lost'
               \/ \E b \in OfUser(u)' : addresses'[b].mobile = m
    <3>1. m \in doings[d].mobiles
      BY BesideFields
    <3>2. CASE <<m, "own">> \in lost
      BY <3>2 DEF Mild
    <3>3. CASE <<m, "own">> \notin lost
      <4>1. PICK b \in OfUser(u) : addresses[b].mobile = m
        BY <2>2, <3>1, <3>3
      <4> QED
        BY <2>5, <4>1
    <3> QED
      BY <3>2, <3>3
  <2> QED
    BY <2>4, <2>6
<1> QED
  BY <1>3, <1>4, BesideFields DEF MergeInv

-----------------------------------------------------------------------------
(* What is left to prove of a step, when it is a step of one call.         *)

Good(c) == StageInv(c) /\ PlaceInv(c) /\ MadeInv(c) /\ ForeignInv(c) /\ MergeInv(c)
Aside(d) == Beside(d) /\ Untouched(d) /\ Kept(d)

\* The users who may gain an address, or a default, by a step of c: its own, or nobody.
Gains(c) == {Nobody, doings[c].who.user}

LEMMA GoodCalls ==
  ASSUME AddressInv
  PROVE  /\ \A c \in Doings : Runs(c) => Good(c)
         /\ \A c, d \in Doings : c # d /\ Runs(c) /\ Runs(d) => PairInv(c, d)
  BY DEF AddressInv, Good

LEMMA Together ==
  ASSUME AddressInv, NEW x, Mild(x), AddressTypeOK',
         \A u \in Users : u \notin mixed' /\ u = x => OwnerInv(u)',
         \A c \in Doings : Runs(c)' => Good(c)',
         \A c, d \in Doings : c # d /\ Runs(c)' /\ Runs(d)' => PairInv(c, d)'
  PROVE  AddressInv'
<1>1. \A u \in Users : u \notin mixed' => OwnerInv(u)'
  BY OwnersKeep
<1> QED
  BY <1>1 DEF AddressInv, Good

LEMMA AsideGood ==
  ASSUME AddressInv, NEW d \in Doings, Runs(d)', Aside(d), NEW x, Mild(x),
         doings[d].who.user # x \/ x \in {Nobody} \cup mixed'
  PROVE  Good(d)'
<1>1. Beside(d) /\ Untouched(d) /\ Kept(d)
  BY DEF Aside
<1> QED
  BY <1>1, StageBeside, PlaceBeside, MadeBeside, ForeignBeside, MergeBeside DEF Good

LEMMA PairsAside ==
  ASSUME AddressInv, NEW c \in Doings, NEW d \in Doings, c # d, Runs(c)', Runs(d)',
         Beside(c), Beside(d), mixed \subseteq mixed'
  PROVE  PairInv(c, d)'
<1>1. PairInv(c, d)
  BY BesideFields, GoodCalls
<1> QED
  BY <1>1, BesideFields DEF PairInv, Making, In

LEMMA CallStep ==
  ASSUME AddressInv, NEW c \in Doings, Runs(c), NEW next \in Locals, doings'[c] = next,
         AddressTypeOK', mixed' = mixed,
         NEW x \in Gains(c), Mild(x),
         \A u \in Users : u \notin mixed' /\ u = x => OwnerInv(u)',
         \A d \in Doings \ {c} : Aside(d),
         Runs(c)' => /\ next.who = doings[c].who /\ Good(c)'
                     /\ \A d \in Doings \ {c} :
                          Making(c, "again")' /\ Making(d, "again") => doings[d].id # next.id
  PROVE  AddressInv'
<1>1. ASSUME NEW d \in Doings, Runs(d)'
      PROVE  Good(d)'
  <2>1. CASE d = c
    BY <1>1, <2>1
  <2>2. CASE d # c
    <3>1. Aside(d) /\ Beside(d) /\ Runs(d)
      BY <1>1, <2>2 DEF Aside, Beside
    <3>2. PairInv(c, d)
      BY <2>2, <3>1, GoodCalls
    <3>3. doings[d].who.user # x \/ x \in {Nobody} \cup mixed'
      BY <3>2 DEF PairInv, Gains
    <3> QED
      BY <1>1, <3>1, <3>3, AsideGood
  <2> QED
    BY <2>1, <2>2
<1>2. ASSUME NEW d \in Doings, NEW e \in Doings, d # e, Runs(d)', Runs(e)'
      PROVE  PairInv(d, e)'
  <2>1. CASE d # c /\ e # c
    BY <1>2, <2>1, PairsAside DEF Aside
  <2>2. CASE d = c
    <3>1. Beside(e) /\ Runs(e) /\ e # c
      BY <1>2, <2>2 DEF Aside, Beside
    <3>2. PairInv(c, e)
      BY <2>2, <3>1, GoodCalls
    <3> QED
      BY <1>2, <2>2, <3>1, <3>2, BesideFields DEF PairInv, Making, In
  <2>3. CASE e = c
    <3>1. Beside(d) /\ Runs(d) /\ d # c
      BY <1>2, <2>3 DEF Aside, Beside
    <3>2. PairInv(d, c)
      BY <2>3, <3>1, GoodCalls
    <3> QED
      BY <1>2, <2>3, <3>1, <3>2, BesideFields DEF PairInv, Making, In
  <2> QED
    BY <2>1, <2>2, <2>3
<1> QED
  BY <1>1, <1>2, Together

\* The guests that a call has read are no address that was just made: it is enough that
\* the call of the step has read none.
LEMMA KeptAside ==
  ASSUME AddressInv, NEW c \in Doings, NEW d \in Doings, d # c, mixed \subseteq mixed',
         \A e \in Doings \ {c} : Beside(e), doings[d].id \in Ids,
         Making(d, "again") /\ doings[d].who.user \in Users \ mixed' =>
           LET a == doings[d].id IN
           /\ addresses'[a].user = addresses[a].user /\ addresses'[a].session = addresses[a].session
           /\ Runs(c)' => \A g \in doings'[c].guests : g[1] # a
  PROVE  Kept(d)
<1> SUFFICES ASSUME Making(d, "again"), doings[d].who.user \in Users, doings[d].who.user \notin mixed',
                    NEW e \in Doings, Runs(e)', e # c
             PROVE  \A g \in doings'[e].guests : g[1] # doings[d].id
  BY DEF Kept
<1>1. Runs(d) /\ MadeInv(d)
  BY GoodCalls DEF Making, Runs, In, Good
<1>2. Runs(e) /\ doings'[e].guests = doings[e].guests
  BY BesideFields
<1>3. doings[d].who.user \in Users \ mixed
  OBVIOUS
<1> QED
  BY <1>1, <1>2, <1>3 DEF MadeInv

\* A step of c that writes nothing another call has read, or only defaults.
LEMMA PlainStep ==
  ASSUME AddressInv, NEW c \in Doings, Runs(c), NEW next \in Locals,
         doings' = [doings EXCEPT ![c] = next], UNCHANGED <<mixed, lost>>,
         addresses' \in [Ids -> AddressRecords],
         \A a \in Ids : addresses[a].state # "new" =>
           /\ addresses'[a].mobile = addresses[a].mobile /\ addresses'[a].user = addresses[a].user
           /\ addresses'[a].state = addresses[a].state /\ addresses'[a].session = addresses[a].session,
         NEW x \in Gains(c),
         \A u \in Users \ mixed : u # x =>
           \A a \in OfUser(u)' : a \in OfUser(u) /\ (addresses'[a].default => addresses[a].default),
         \A u \in Users : u \notin mixed' /\ u = x => OwnerInv(u)',
         Runs(c)' => /\ next.who = doings[c].who /\ Good(c)'
                     /\ \A d \in Doings \ {c} : Making(d, "again") /\ Runs(d) =>
                          /\ Making(c, "again")' => doings[d].id # next.id
                          /\ doings[d].who.user \in Users \ mixed =>
                               \A g \in next.guests : g[1] # doings[d].id
  PROVE  AddressInv'
<1>1. /\ doings \in [Doings -> Locals] /\ doings'[c] = next
      /\ \A d \in Doings \ {c} : doings'[d] = doings[d]
  BY Types
<1>2. AddressTypeOK'
  <2>1. doings' \in [Doings -> Locals]
    BY <1>1
  <2> QED
    BY <2>1, Types DEF AddressTypeOK, Locals
<1>3. Mild(x)
  BY Types DEF Mild
<1>4. \A d \in Doings \ {c} : Beside(d)
  BY <1>1 DEF Beside, Runs, In
<1>5. ASSUME NEW d \in Doings \ {c}
      PROVE  Aside(d)
  <2>1. Untouched(d)
    BY DEF Untouched
  <2>2. CASE Making(d, "again")
    <3>1. Runs(d) /\ doings[d] \in DoingLocals
      BY <2>2, RunningLocals DEF Making, Runs, In
    <3>2. doings[d].id \in Ids /\ addresses[doings[d].id].state # "new"
      BY <2>2, <3>1, GoodCalls DEF DoingLocals, Good, MadeInv
    <3>3. Kept(d)
      BY <1>1, <1>4, <1>5, <2>2, <3>1, <3>2, KeptAside
    <3> QED
      BY <1>4, <2>1, <3>3 DEF Aside
  <2>3. CASE ~Making(d, "again")
    BY <1>4, <2>1, <2>3 DEF Aside, Kept
  <2> QED
    BY <2>2, <2>3
<1>6. Runs(c)' => \A d \in Doings \ {c} :
        Making(c, "again")' /\ Making(d, "again") => doings[d].id # next.id
  BY DEF Making, Runs, In
<1> QED
  BY <1>1, <1>2, <1>3, <1>5, <1>6, CallStep

\* Nothing but the locals of c changes.
LEMMA QuietStep ==
  ASSUME AddressInv, NEW c \in Doings, Runs(c), NEW next \in Locals,
         doings' = [doings EXCEPT ![c] = next], UNCHANGED <<addresses, mixed, lost>>,
         Runs(c)' => /\ next.who = doings[c].who /\ Good(c)' /\ ~Making(c, "again")'
                     /\ \A d \in Doings \ {c} :
                          Making(d, "again") /\ Runs(d) /\ doings[d].who.user \in Users \ mixed =>
                            \A g \in next.guests : g[1] # doings[d].id
  PROVE  AddressInv'
<1>1. \A u \in Users \ mixed : u # Nobody =>
        \A a \in OfUser(u)' : a \in OfUser(u) /\ (addresses'[a].default => addresses[a].default)
  BY DEF OfUser, Stored
<1>2. \A u \in Users : u \notin mixed' /\ u = Nobody => OwnerInv(u)'
  BY Constants
<1>3. addresses' \in [Ids -> AddressRecords]
  BY Types
<1>4. Nobody \in Gains(c)
  BY DEF Gains
<1> QED
  BY <1>1, <1>2, <1>3, <1>4, PlainStep

LEMMA StopStep ==
  ASSUME AddressInv, NEW c \in Doings, Runs(c), Over(c), UNCHANGED <<addresses, mixed, lost>>
  PROVE  AddressInv'
<1>1. doings' = [doings EXCEPT ![c] = NoDoing] /\ NoDoing \in Locals /\ doings'[c] = NoDoing
  BY Types DEF Over, Locals
<1>2. ~Runs(c)'
  BY <1>1 DEF Runs, In, NoDoing
<1> QED
  BY <1>1, <1>2, QuietStep

\* A write tells the merges that have read the address.
LEMMA WroteBeside ==
  ASSUME AddressInv, NEW c \in Doings, NEW a \in Ids, NEW next \in Locals, Wrote(c, a, next)
  PROVE  /\ doings' \in [Doings -> Locals] /\ doings'[c] = next
         /\ \A d \in Doings \ {c} : Beside(d) /\ (HasRead(d, a) => doings'[d].met)
<1>1. doings \in [Doings -> Locals]
  BY Types
<1>2. /\ doings'[c] = next
      /\ \A d \in Doings \ {c} :
           doings'[d] = IF HasRead(d, a) THEN [doings[d] EXCEPT !.met = TRUE] ELSE doings[d]
      /\ doings' = [d \in Doings |-> IF d = c THEN next
           ELSE IF HasRead(d, a) THEN [doings[d] EXCEPT !.met = TRUE] ELSE doings[d]]
  BY DEF Wrote, Met
<1>3. ASSUME NEW d \in Doings, HasRead(d, a)
      PROVE  /\ Runs(d) /\ doings[d] \in DoingLocals
             /\ [doings[d] EXCEPT !.met = TRUE] \in DoingLocals
             /\ [doings[d] EXCEPT !.met = TRUE].pc = doings[d].pc
             /\ [doings[d] EXCEPT !.met = TRUE].met
  <2>1. Runs(d)
    BY <1>3 DEF HasRead, Runs
  <2>2. doings[d] \in DoingLocals
    BY <2>1, RunningLocals
  <2> QED
    BY <2>1, <2>2 DEF DoingLocals
<1>4. \A d \in Doings : doings'[d] \in Locals
  BY <1>1, <1>2, <1>3 DEF Locals
<1>5. \A d \in Doings \ {c} : Beside(d) /\ (HasRead(d, a) => doings'[d].met)
  BY <1>2, <1>3 DEF Beside, Runs, In
<1> QED
  BY <1>2, <1>4, <1>5

\* c writes the address a, and goes on with next: the record becomes rec, by which x may gain.
Writes(c, a, next, rec, x) ==
  /\ Runs(c) /\ a \in Ids /\ addresses[a].state # "new"
  /\ next \in Locals /\ Wrote(c, a, next) /\ mixed' = mixed
  /\ lost \subseteq lost' /\ lost' \subseteq MobileNumbers \X {"own", "met"}
  /\ rec \in AddressRecords /\ addresses' = [addresses EXCEPT ![a] = rec] /\ rec.state # "new"
  /\ rec.user \in {addresses[a].user, Nobody} \cup mixed
  /\ x \in Gains(c)
  /\ \A u \in Users \ mixed : u # x /\ rec.state = "stored" /\ rec.user = u =>
       /\ addresses[a].state = "stored" /\ addresses[a].user = u
       /\ rec.default => addresses[a].default
  /\ \A u \in Users : u \notin mixed' /\ u = x => OwnerInv(u)'
  /\ \A d \in Doings \ {c} :
       Making(d, "again") /\ Runs(d) /\ doings[d].who.user \in Users \ mixed =>
         doings[d].id # a \/ (rec.user = addresses[a].user /\ rec.session = addresses[a].session)
  /\ Runs(c)' => /\ next.who = doings[c].who /\ next.guests \subseteq doings[c].guests
                 /\ Good(c)' /\ ~Making(c, "again")'

LEMMA WriteStep ==
  ASSUME AddressInv, NEW c \in Doings, NEW a, NEW next, NEW rec, NEW x, Writes(c, a, next, rec, x)
  PROVE  AddressInv'
<1> USE DEF Writes
<1>1. /\ addresses \in [Ids -> AddressRecords] /\ addresses'[a] = rec
      /\ \A b \in Ids \ {a} : addresses'[b] = addresses[b]
  BY Types
<1>2. /\ doings' \in [Doings -> Locals] /\ doings'[c] = next
      /\ \A d \in Doings \ {c} : Beside(d) /\ (HasRead(d, a) => doings'[d].met)
  BY WroteBeside
<1>3. AddressTypeOK'
  <2>1. addresses' \in [Ids -> AddressRecords]
    BY <1>1
  <2> QED
    BY <1>2, <2>1, Types DEF AddressTypeOK, Locals
<1>4. Mild(x)
  <2>1. \A b \in Ids : addresses[b].state # "new" =>
          /\ addresses'[b].state # "new"
          /\ addresses'[b].user \in {addresses[b].user, Nobody} \cup mixed'
    BY <1>1
  <2>2. ASSUME NEW u \in Users, u \notin mixed', u # x, NEW b \in OfUser(u)'
        PROVE  b \in OfUser(u) /\ (addresses'[b].default => addresses[b].default)
    <3>1. b \in Ids /\ addresses'[b].state = "stored" /\ addresses'[b].user = u
      BY DEF OfUser, Stored
    <3>2. addresses[b].state = "stored" /\ addresses[b].user = u
          /\ (addresses'[b].default => addresses[b].default)
      <4>1. CASE b = a
        BY <1>1, <2>2, <3>1, <4>1
      <4>2. CASE b # a
        BY <1>1, <3>1, <4>2
      <4> QED
        BY <4>1, <4>2
    <3> QED
      BY <3>1, <3>2 DEF OfUser, Stored
  <2>3. mixed' \subseteq Users \cup {Nobody}
    BY Types
  <2> QED
    BY <2>1, <2>2, <2>3 DEF Mild
<1>5. ASSUME NEW d \in Doings \ {c}
      PROVE  Aside(d)
  <2>1. Untouched(d)
    BY <1>1, <1>2 DEF Untouched
  <2>2. CASE Making(d, "again") /\ doings[d].who.user \in Users \ mixed
    <3>1. Runs(d) /\ doings[d] \in DoingLocals
      BY <2>2, RunningLocals DEF Making, Runs, In
    <3>2. doings[d].id \in Ids
      BY <3>1 DEF DoingLocals
    <3>3. MadeInv(d)
      BY <3>1, GoodCalls DEF Good
    <3>4. \A g \in doings[c].guests : g[1] # doings[d].id
      BY <2>2, <3>3 DEF MadeInv
    <3>5. Runs(c)' => \A g \in doings'[c].guests : g[1] # doings[d].id
      BY <1>2, <3>4
    <3>6. /\ addresses'[doings[d].id].user = addresses[doings[d].id].user
          /\ addresses'[doings[d].id].session = addresses[doings[d].id].session
      BY <1>1, <2>2, <3>1, <3>2
    <3>7. Kept(d)
      BY <1>2, <1>5, <3>2, <3>5, <3>6, KeptAside
    <3> QED
      BY <1>2, <2>1, <3>7 DEF Aside
  <2>3. CASE ~(Making(d, "again") /\ doings[d].who.user \in Users \ mixed)
    BY <1>2, <2>1, <2>3 DEF Aside, Kept
  <2> QED
    BY <2>2, <2>3
<1> QED
  BY <1>2, <1>3, <1>4, <1>5, CallStep

-----------------------------------------------------------------------------
(* A call begins.                                                          *)

LEMMA EnterKeeps ==
  ASSUME AddressInv, NEW c \in Doings, NEW who \in Customers, NEW a \in Ids, NEW body \in AnyBody,
         NEW op, NEW pc, Enter(c, op, who, a, body, pc), UNCHANGED <<addresses, lost>>,
         \/ op = "create" /\ pc = IF who.user # Nobody THEN "count" ELSE "unset"
         \/ op \in {"delete"} \cup Changes /\ pc = "find" /\ a \in Stored
         \/ op = "merge" /\ pc = "guests" /\ who.user # Nobody /\ who.session # Nobody
  PROVE  AddressInv'
<1> DEFINE next == [pc |-> pc, op |-> op, who |-> who, id |-> a, body |-> body, read |-> NoAddress,
                    met |-> FALSE, guests |-> {}, mobiles |-> {}]
<1>1. /\ doings' = [doings EXCEPT ![c] = next] /\ mixed' = Mixing(c, op, who, a) /\ ~Runs(c)
  BY DEF Enter, Runs
<1>2. NoAddress \in AddressRecords
  BY DEF NoAddress, AddressRecords, Browsers, MobileNumbers
<1>3. next \in DoingLocals
  BY <1>2 DEF DoingLocals, Stages, Changes
<1>4. /\ next.pc = pc /\ next.op = op /\ next.who = who /\ next.id = a /\ next.guests = {}
      /\ next.mobiles = {} /\ next.body = body
  OBVIOUS
<1> HIDE DEF next
<1>5. /\ doings' \in [Doings -> Locals] /\ doings'[c] = next
      /\ \A d \in Doings \ {c} : doings'[d] = doings[d]
  BY <1>1, <1>3, Types DEF Locals
<1>6. who.user \in Users \cup {Nobody} /\ addresses[a].user \in Users \cup {Nobody}
  BY CustomerTypes, Types DEF AddressRecords
<1>7. \A d \in Meets(c, who) : /\ d \in Doings \ {c} /\ Runs(d) /\ doings[d] \in DoingLocals
                               /\ doings[d].who.user \in Users \cup {Nobody}
  <2> SUFFICES ASSUME NEW d \in Meets(c, who)
               PROVE  /\ d \in Doings \ {c} /\ Runs(d) /\ doings[d] \in DoingLocals
                      /\ doings[d].who.user \in Users \cup {Nobody}
    OBVIOUS
  <2>1. d \in Doings \ {c} /\ Runs(d)
    BY DEF Meets, Runs
  <2>2. doings[d] \in DoingLocals
    BY <2>1, RunningLocals
  <2>3. doings[d].who \in Customers
    BY <2>2 DEF DoingLocals
  <2> QED
    BY <2>1, <2>2, <2>3, CustomerTypes
<1>8. /\ mixed \subseteq mixed' /\ mixed' \subseteq Users \cup {Nobody}
      /\ \A d \in Meets(c, who) : doings[d].who.user \in mixed' /\ who.user \in mixed'
      /\ op = "merge" => who.user \in mixed'
      /\ op # "create" /\ who.user = Nobody => addresses[a].user \in mixed'
  BY <1>1, <1>6, <1>7, Types DEF Mixing
<1>9. AddressTypeOK'
  BY <1>5, <1>8, Types DEF AddressTypeOK, Locals
<1>10. Mild(Nobody)
  BY <1>8 DEF Mild, OfUser, Stored
<1>11. ASSUME NEW d \in Doings \ {c}
       PROVE  Aside(d)
  <2>1. Beside(d) /\ \A e \in Doings \ {c} : Beside(e)
    BY <1>5 DEF Beside, Runs, In
  <2>2. Untouched(d)
    BY DEF Untouched
  <2>3. CASE Making(d, "again")
    <3>1. Runs(d) /\ doings[d] \in DoingLocals
      BY <2>3, RunningLocals DEF Making, Runs, In
    <3>2. doings[d].id \in Ids
      BY <3>1 DEF DoingLocals
    <3>3. Kept(d)
      BY <1>4, <1>5, <1>8, <1>11, <2>1, <3>2, KeptAside
    <3> QED
      BY <2>1, <2>2, <3>3 DEF Aside
  <2>4. CASE ~Making(d, "again")
    BY <2>1, <2>2, <2>4 DEF Aside, Kept
  <2> QED
    BY <2>3, <2>4
<1>12. Good(c)'
  <2>1. StageInv(c)'
    BY <1>4, <1>5, <1>6, <1>8, Constants DEF StageInv, In, Changes
  <2>2. PlaceInv(c)'
    BY <1>4, <1>5, Constants DEF PlaceInv, Making, In
  <2>3. MadeInv(c)'
    BY <1>4, <1>5 DEF MadeInv, Making, In
  <2>4. ForeignInv(c)'
    BY <1>4, <1>5, <1>8 DEF ForeignInv, In, Stored, Changes
  <2>5. MergeInv(c)'
    BY <1>4, <1>5 DEF MergeInv
  <2> QED
    BY <2>1, <2>2, <2>3, <2>4, <2>5 DEF Good
<1>13. ASSUME NEW d \in Doings, Runs(d)'
       PROVE  Good(d)'
  <2>1. CASE d = c
    BY <1>12, <2>1
  <2>2. CASE d # c
    BY <1>10, <1>11, <1>13, <2>2, AsideGood
  <2> QED
    BY <2>1, <2>2
<1>14. ASSUME NEW d \in Doings \ {c}, Runs(d)'
       PROVE  PairInv(c, d)' /\ PairInv(d, c)'
  <2>1. Runs(d) /\ doings'[d] = doings[d]
    BY <1>5, <1>14 DEF Runs, In
  <2>2. ~Making(c, "again")'
    BY <1>4, <1>5 DEF Making, In
  <2>3. \/ who.user # Nobody /\ doings[d].who.user = who.user
        \/ who.session # Nobody /\ doings[d].who.session = who.session
        => d \in Meets(c, who)
    BY <2>1 DEF Meets, Runs
  <2>4. PairInv(c, d)'
    BY <1>4, <1>5, <1>8, <2>1, <2>2, <2>3 DEF PairInv
  <2>5. PairInv(d, c)'
    BY <1>4, <1>5, <1>8, <2>1, <2>2, <2>3 DEF PairInv
  <2> QED
    BY <2>4, <2>5
<1>15. ASSUME NEW d \in Doings, NEW e \in Doings, d # e, Runs(d)', Runs(e)'
       PROVE  PairInv(d, e)'
  <2>1. CASE d # c /\ e # c
    BY <1>8, <1>11, <1>15, <2>1, PairsAside DEF Aside
  <2>2. CASE d = c
    BY <1>14, <1>15, <2>2
  <2>3. CASE e = c
    BY <1>14, <1>15, <2>3
  <2> QED
    BY <2>1, <2>2, <2>3
<1>16. \A u \in Users : u \notin mixed' /\ u = Nobody => OwnerInv(u)'
  BY Constants
<1> QED
  BY <1>9, <1>10, <1>13, <1>15, <1>16, Together

LEMMA StartsKeep ==
  ASSUME AddressInv, NEW c \in Doings, NEW who \in Customers
  PROVE  /\ \A body \in AddressBodies : StartCreate(c, who, body) => AddressInv'
         /\ \A a \in Ids, op \in {"update", "default"}, body \in AddressBodies :
              StartChange(c, op, who, a, body) => AddressInv'
         /\ \A a \in Ids : StartChange(c, "delete", who, a, [mobile |-> "", default |-> FALSE])
              => AddressInv'
         /\ StartMerge(c, who) => AddressInv'
<1>1. ASSUME NEW body \in AddressBodies, StartCreate(c, who, body)
      PROVE  AddressInv'
  <2>1. /\ Enter(c, "create", who, MaxAddresses, body, IF who.user # Nobody THEN "count" ELSE "unset")
        /\ UNCHANGED <<addresses, lost>>
    BY <1>1 DEF StartCreate
  <2>2. body \in AnyBody /\ MaxAddresses \in Ids
    BY Constants DEF AnyBody
  <2> QED
    BY <2>1, <2>2, EnterKeeps
<1>2. ASSUME NEW a \in Ids, NEW op \in {"delete"} \cup Changes, NEW body \in AnyBody,
             StartChange(c, op, who, a, body)
      PROVE  AddressInv'
  <2>1. Enter(c, op, who, a, body, "find") /\ UNCHANGED <<addresses, lost>> /\ a \in Stored
    BY <1>2 DEF StartChange
  <2> QED
    BY <2>1, EnterKeeps
<1>3. ASSUME StartMerge(c, who)
      PROVE  AddressInv'
  <2>1. /\ Enter(c, "merge", who, MaxAddresses, [mobile |-> "", default |-> FALSE], "guests")
        /\ UNCHANGED <<addresses, lost>> /\ who.user # Nobody /\ who.session # Nobody
    BY <1>3 DEF StartMerge
  <2>2. [mobile |-> "", default |-> FALSE] \in AnyBody /\ MaxAddresses \in Ids
    BY Constants DEF AnyBody
  <2> QED
    BY <2>1, <2>2, EnterKeeps
<1> QED
  BY <1>1, <1>2, <1>3 DEF AnyBody, Changes

-----------------------------------------------------------------------------
(* create.                                                                 *)

LEMMA CountKeeps ==
  ASSUME AddressInv, NEW c \in Doings, CountAddresses(c)
  PROVE  AddressInv'
<1>1. In(c, "count") /\ Runs(c) /\ UNCHANGED <<addresses, mixed, lost>>
  BY DEF CountAddresses, In, Runs
<1>2. doings[c] \in DoingLocals /\ Good(c)
  BY <1>1, RunningLocals, GoodCalls
<1>3. PICK u : u = doings[c].who.user
  OBVIOUS
<1>4. CASE Full(u)
  BY <1>1, <1>3, <1>4, StopStep DEF CountAddresses
<1>5. CASE ~Full(u)
  <2> DEFINE next == [doings[c] EXCEPT !.pc = "unset"]
  <2>1. doings' = [doings EXCEPT ![c] = next]
    BY <1>3, <1>5, Types DEF CountAddresses, To
  <2>2. /\ next \in DoingLocals /\ next.pc = "unset" /\ next.op = doings[c].op
        /\ next.who = doings[c].who /\ next.guests = doings[c].guests /\ next.id = doings[c].id
        /\ next.mobiles = doings[c].mobiles /\ next.met = doings[c].met
    BY <1>2 DEF DoingLocals, Stages
  <2> HIDE DEF next
  <2>3. doings'[c] = next
    BY <2>1, Types
  <2>4. doings[c].op = "create"
    BY <1>1, <1>2 DEF Good, StageInv
  <2>5. StageInv(c)'
    BY <1>1, <2>2, <2>3, <2>4 DEF StageInv, In
  <2>6. Cardinality(OfUser(u)) <= 1
    <3>1. Cardinality(OfUser(u)) \in Nat
      BY Counted, OwnedIds
    <3> QED
      BY <1>5, <3>1 DEF Full
  <2>7. PlaceInv(c)'
    <3>1. PICK n : n = Cardinality(OfUser(u)) /\ n = Cardinality(OfUser(u)')
      BY <1>1 DEF OfUser, Stored
    <3> QED
      BY <1>1, <1>3, <2>2, <2>3, <2>6, <3>1 DEF PlaceInv, In
  <2>8. MadeInv(c)' /\ ForeignInv(c)' /\ MergeInv(c)'
    BY <1>1, <1>2, <2>2, <2>3, <2>4 DEF Good, MadeInv, ForeignInv, MergeInv, Making, In, Changes
  <2>9. ~Making(c, "again")'
    BY <2>2, <2>3 DEF Making, In
  <2>10. \A d \in Doings \ {c} :
           Making(d, "again") /\ Runs(d) /\ doings[d].who.user \in Users \ mixed =>
             \A g \in next.guests : g[1] # doings[d].id
    BY <1>1, <2>2, GoodCalls DEF Good, MadeInv
  <2>11. Good(c)'
    BY <2>5, <2>7, <2>8 DEF Good
  <2> QED
    BY <1>1, <2>1, <2>2, <2>9, <2>10, <2>11, QuietStep DEF Locals
<1> QED
  BY <1>4, <1>5

\* What a call that goes on has read is no address that was just made.
LEMMA GuestsStay ==
  ASSUME AddressInv, NEW c \in Doings, Runs(c), NEW next, next.guests \subseteq doings[c].guests
  PROVE  \A d \in Doings \ {c} :
           Making(d, "again") /\ Runs(d) /\ doings[d].who.user \in Users \ mixed =>
             \A g \in next.guests : g[1] # doings[d].id
  BY GoodCalls DEF Good, MadeInv

LEMMA UnsetKeeps ==
  ASSUME AddressInv, NEW c \in Doings, UnsetDefaults(c)
  PROVE  AddressInv'
<1>1. In(c, "unset") /\ Runs(c) /\ UNCHANGED <<mixed, lost>>
  BY DEF UnsetDefaults, In, Runs
<1>2. doings[c] \in DoingLocals /\ Good(c)
  BY <1>1, RunningLocals, GoodCalls
<1>3. PICK u, s : u = doings[c].who.user /\ s = doings[c].who.session
  OBVIOUS
<1>4. PICK except : except = IF doings[c].op = "create" THEN {} ELSE {doings[c].id}
  OBVIOUS
<1>5. PICK own : own = IF u # Nobody THEN OfUser(u) ELSE IF s # Nobody THEN OfSession(s) ELSE {}
  OBVIOUS
<1> DEFINE next == [doings[c] EXCEPT !.pc = "save"]
<1>6. doings' = [doings EXCEPT ![c] = next]
  BY Types DEF UnsetDefaults, To
<1>7. /\ next \in DoingLocals /\ next.pc = "save" /\ next.op = doings[c].op /\ next.id = doings[c].id
      /\ next.who = doings[c].who /\ next.guests = doings[c].guests /\ next.body = doings[c].body
      /\ next.mobiles = doings[c].mobiles /\ next.met = doings[c].met
  BY <1>2 DEF DoingLocals, Stages
<1> HIDE DEF next
<1>8. doings'[c] = next
  BY <1>6, Types
<1>9. addresses' = IF doings[c].body.default
        THEN [a \in Ids |-> IF a \in own \ except THEN [addresses[a] EXCEPT !.default = FALSE]
                            ELSE addresses[a]]
        ELSE addresses
  <2>1. CASE doings[c].body.default
    BY <1>3, <1>4, <1>5, <2>1 DEF UnsetDefaults, Unset
  <2>2. CASE ~doings[c].body.default
    BY <2>2 DEF UnsetDefaults
  <2> QED
    BY <2>1, <2>2
<1>10. ASSUME NEW a \in Ids
       PROVE  /\ addresses'[a] \in AddressRecords
              /\ addresses'[a].state = addresses[a].state /\ addresses'[a].user = addresses[a].user
              /\ addresses'[a].mobile = addresses[a].mobile
              /\ addresses'[a].session = addresses[a].session
              /\ addresses'[a].default => addresses[a].default
              /\ doings[c].body.default /\ a \in own \ except => ~addresses'[a].default
  <2>1. addresses[a] \in AddressRecords
    BY Types
  <2> DEFINE unset == [addresses[a] EXCEPT !.default = FALSE]
  <2>2. /\ unset \in AddressRecords /\ unset.state = addresses[a].state
        /\ unset.user = addresses[a].user /\ unset.mobile = addresses[a].mobile
        /\ unset.session = addresses[a].session /\ ~unset.default
    BY <2>1 DEF AddressRecords
  <2>3. addresses'[a] = IF doings[c].body.default /\ a \in own \ except THEN unset ELSE addresses[a]
    BY <1>9
  <2> HIDE DEF unset
  <2>4. CASE doings[c].body.default /\ a \in own \ except
    BY <2>2, <2>3, <2>4
  <2>5. CASE ~(doings[c].body.default /\ a \in own \ except)
    BY <2>1, <2>3, <2>5
  <2> QED
    BY <2>4, <2>5
<1>11. addresses' \in [Ids -> AddressRecords]
  <2>1. addresses' = [a \in Ids |-> addresses'[a]]
    BY <1>9, Types
  <2> QED
    BY <1>10, <2>1
<1>12. \A v : OfUser(v)' = OfUser(v)
  BY <1>10 DEF OfUser, Stored
<1>13. Good(c)'
  <2>1. StageInv(c)'
    BY <1>1, <1>2, <1>7, <1>8 DEF Good, StageInv, In
  <2>2. PlaceInv(c)'
    <3>1. SUFFICES ASSUME u \in Users, u \notin mixed
                   PROVE  /\ Making(c, "unset")' \/ Making(c, "save")' => Cardinality(OfUser(u)') <= 1
                          /\ In(c, "save")' /\ doings'[c].body.default =>
                               \A a \in OfUser(u)' \ except : ~addresses'[a].default
      BY <1>1, <1>3, <1>4, <1>7, <1>8 DEF PlaceInv
    <3>2. Making(c, "save")' => Cardinality(OfUser(u)) <= 1
      BY <1>1, <1>2, <1>3, <1>7, <1>8, <3>1 DEF Good, PlaceInv, Making, In
    <3>3. own = OfUser(u)
      BY <1>5, <3>1, Constants
    <3>4. ~Making(c, "unset")'
      BY <1>7, <1>8 DEF Making, In
    <3>5. PICK n : n = Cardinality(OfUser(u)) /\ n = Cardinality(OfUser(u)')
      BY <1>12
    <3>6. doings'[c].body.default =>
            \A a \in OfUser(u)' \ except : ~addresses'[a].default
      BY <1>7, <1>8, <1>10, <1>12, <3>3, OwnedIds
    <3> QED
      BY <3>2, <3>4, <3>5, <3>6
  <2>3. doings[c].op # "merge"
    BY <1>1, <1>2 DEF Good, StageInv, In
  <2>4. MadeInv(c)' /\ MergeInv(c)'
    <3>1. \A g \in doings[c].guests : g[1] \in Ids /\ addresses[g[1]].state # "new"
      BY <1>2 DEF Good, MergeInv, DoingLocals
    <3> QED
      BY <1>7, <1>8, <1>10, <2>3, <3>1 DEF MadeInv, MergeInv, Making, In
  <2>5. ForeignInv(c)'
    <3>1. ForeignInv(c) /\ doings[c].id \in Ids
      BY <1>2 DEF Good, DoingLocals
    <3>2. /\ doings[c].op \in Changes => addresses[doings[c].id].user \in {Nobody, doings[c].who.user} \cup mixed
          /\ doings[c].op \in {"delete"} \cup Changes => addresses[doings[c].id].state # "new"
      BY <1>1, <3>1 DEF ForeignInv
    <3> QED
      BY <1>1, <1>7, <1>8, <1>10, <3>1, <3>2 DEF ForeignInv, In
  <2> QED
    BY <2>1, <2>2, <2>4, <2>5 DEF Good
<1>14. \A v \in Users \ mixed : v # Nobody =>
         \A a \in OfUser(v)' : a \in OfUser(v) /\ (addresses'[a].default => addresses[a].default)
  BY <1>10, <1>12, OwnedIds
<1>15. \A v \in Users : v \notin mixed' /\ v = Nobody => OwnerInv(v)'
  BY Constants
<1>16. ~Making(c, "again")'
  BY <1>7, <1>8 DEF Making, In
<1>17. next.guests \subseteq doings[c].guests /\ next \in Locals
  BY <1>7 DEF Locals
<1>18. \A d \in Doings \ {c} :
         Making(d, "again") /\ Runs(d) /\ doings[d].who.user \in Users \ mixed =>
           \A g \in next.guests : g[1] # doings[d].id
  BY <1>1, <1>17, GuestsStay
<1>19. \A a \in Ids : addresses[a].state # "new" =>
         /\ addresses'[a].mobile = addresses[a].mobile /\ addresses'[a].user = addresses[a].user
         /\ addresses'[a].state = addresses[a].state /\ addresses'[a].session = addresses[a].session
  BY <1>10
<1>20. Runs(c)' => /\ next.who = doings[c].who /\ Good(c)'
                   /\ \A d \in Doings \ {c} : Making(d, "again") /\ Runs(d) =>
                        /\ Making(c, "again")' => doings[d].id # next.id
                        /\ doings[d].who.user \in Users \ mixed =>
                             \A g \in next.guests : g[1] # doings[d].id
  BY <1>7, <1>13, <1>16, <1>18
<1>21. Runs(c) /\ UNCHANGED <<mixed, lost>> /\ next \in Locals /\ Nobody \in Gains(c)
  BY <1>1, <1>17 DEF Gains
<1> QED
  BY <1>6, <1>11, <1>14, <1>15, <1>19, <1>20, <1>21, PlainStep

\* Nobody has read an address that is new, and no call runs on it.
LEMMA SaveNewKeeps ==
  ASSUME AddressInv, NEW c \in Doings, SaveNew(c)
  PROVE  AddressInv'
<1>1. /\ In(c, "save") /\ Runs(c) /\ doings[c].op = "create" /\ UNCHANGED <<mixed, lost>>
      /\ addresses[NextId].state = "new"
  BY DEF SaveNew, In, Runs
<1>2. doings[c] \in DoingLocals /\ Good(c) /\ doings[c].who \in Customers /\ doings[c].body \in AnyBody
  BY <1>1, RunningLocals, GoodCalls DEF DoingLocals
<1>3. PICK u, s : u = doings[c].who.user /\ s = doings[c].who.session
  OBVIOUS
<1>4. PICK n \in Ids : n = NextId
  BY NextIdIn
<1>5. PICK rec : rec = [state |-> "stored", user |-> u, session |-> s,
                        mobile |-> doings[c].body.mobile, default |-> doings[c].body.default]
  OBVIOUS
<1>6. /\ rec \in AddressRecords /\ rec.state = "stored" /\ rec.user = u /\ rec.session = s
      /\ rec.default = doings[c].body.default
  BY <1>2, <1>3, <1>5, CustomerTypes, BodyTypes DEF AddressRecords
<1>7. /\ addresses' = [addresses EXCEPT ![n] = rec]
      /\ doings' = [doings EXCEPT ![c].pc = "again", ![c].id = n]
  BY <1>3, <1>4, <1>5 DEF SaveNew
<1>8. /\ addresses' \in [Ids -> AddressRecords] /\ addresses'[n] = rec
      /\ \A a \in Ids \ {n} : addresses'[a] = addresses[a]
  BY <1>6, <1>7, Types
<1>9. PICK next : next = [doings[c] EXCEPT !.pc = "again", !.id = n]
  OBVIOUS
<1>10. /\ next \in DoingLocals /\ next.pc = "again" /\ next.op = "create" /\ next.id = n
       /\ next.who = doings[c].who /\ next.guests = doings[c].guests
  BY <1>1, <1>2, <1>9 DEF DoingLocals, Stages
<1>11. doings' = [doings EXCEPT ![c] = next] /\ doings'[c] = next
  BY <1>7, <1>9, Types
<1>12. \A v : OfUser(v)' = IF v = u THEN OfUser(v) \cup {n} ELSE OfUser(v)
  BY <1>1, <1>4, <1>6, <1>8 DEF OfUser, Stored
<1>13. n \notin Stored
  BY <1>1, <1>4 DEF Stored
<1>14. ASSUME NEW e \in Doings, Runs(e)'
       PROVE  \A g \in doings'[e].guests : g[1] # n
  <2>1. doings'[e].guests = doings[e].guests /\ Runs(e)
    BY <1>1, <1>10, <1>11, <1>14, Types DEF Runs, In
  <2> QED
    BY <1>1, <1>4, <2>1, GoodCalls DEF Good, MergeInv
<1>15. Good(c)'
  <2>1. StageInv(c)'
    BY <1>10, <1>11 DEF StageInv, In
  <2>2. PlaceInv(c)' /\ ForeignInv(c)'
    BY <1>10, <1>11 DEF PlaceInv, ForeignInv, Making, In, Changes
  <2>3. MadeInv(c)'
    BY <1>3, <1>6, <1>8, <1>10, <1>11, <1>14 DEF MadeInv
  <2>4. MergeInv(c)'
    <3>1. \A g \in doings[c].guests : g[1] \in Ids /\ addresses[g[1]].state # "new"
      BY <1>2 DEF Good, MergeInv, DoingLocals
    <3> QED
      BY <1>6, <1>8, <1>10, <1>11, <3>1 DEF MergeInv
  <2> QED
    BY <2>1, <2>2, <2>3, <2>4 DEF Good
<1>16. ASSUME u \in Users, u \notin mixed
       PROVE  OwnerInv(u)'
  <2>1. OwnerInv(u) /\ PlaceInv(c)
    BY <1>2, <1>16 DEF AddressInv, Good
  <2>2. PICK A : A = OfUser(u)
    OBVIOUS
  <2>3. /\ A \in SUBSET Ids /\ n \notin A /\ Cardinality(A) <= 1
        /\ \A a, b \in A : addresses[a].default /\ addresses[b].default => a = b
        /\ rec.default => \A a \in A : ~addresses[a].default
    BY <1>1, <1>3, <1>6, <1>13, <1>16, <2>1, <2>2, OwnedIds DEF OwnerInv, PlaceInv, Making, OfUser
  <2>4. Cardinality(A \cup {n}) <= 2
    <3>1. IsFiniteSet(A) /\ Cardinality(A) \in Nat
      BY <2>3, Counted
    <3>2. Cardinality(A \cup {n}) = Cardinality(A) + 1
      BY <2>3, <3>1, FS_AddElement
    <3> QED
      BY <2>3, <3>1, <3>2
  <2>5. PICK B : B = OfUser(u)'
    OBVIOUS
  <2>6. B = A \cup {n}
    BY <1>12, <2>2, <2>5
  <2>7. \A a, b \in B : addresses'[a].default /\ addresses'[b].default => a = b
    BY <1>8, <2>3, <2>6
  <2> QED
    BY <2>4, <2>5, <2>6, <2>7 DEF OwnerInv
<1>17. \A v \in Users \ mixed : v # u =>
         \A a \in OfUser(v)' : a \in OfUser(v) /\ (addresses'[a].default => addresses[a].default)
  BY <1>8, <1>12, <1>13, OwnedIds DEF OfUser
<1>18. \A a \in Ids : addresses[a].state # "new" =>
         /\ addresses'[a].mobile = addresses[a].mobile /\ addresses'[a].user = addresses[a].user
         /\ addresses'[a].state = addresses[a].state /\ addresses'[a].session = addresses[a].session
  BY <1>1, <1>4, <1>8
<1>19. ASSUME NEW d \in Doings \ {c}, Making(d, "again"), Runs(d)
       PROVE  doings[d].id # next.id
  BY <1>1, <1>4, <1>10, <1>19, GoodCalls DEF Good, MadeInv
<1>20. \A d \in Doings \ {c} :
         Making(d, "again") /\ Runs(d) /\ doings[d].who.user \in Users \ mixed =>
           \A g \in next.guests : g[1] # doings[d].id
  BY <1>1, <1>10, GuestsStay
<1>21. Runs(c)' => /\ next.who = doings[c].who /\ Good(c)'
                   /\ \A d \in Doings \ {c} : Making(d, "again") /\ Runs(d) =>
                        /\ Making(c, "again")' => doings[d].id # next.id
                        /\ doings[d].who.user \in Users \ mixed =>
                             \A g \in next.guests : g[1] # doings[d].id
  BY <1>10, <1>15, <1>19, <1>20
<1>22. Runs(c) /\ UNCHANGED <<mixed, lost>> /\ next \in Locals /\ u \in Gains(c)
  BY <1>1, <1>3, <1>10 DEF Locals, Gains
<1>23. \A v \in Users : v \notin mixed' /\ v = u => OwnerInv(v)'
  BY <1>1, <1>16
<1>24. doings' = [doings EXCEPT ![c] = next] /\ addresses' \in [Ids -> AddressRecords]
  BY <1>8, <1>11
<1> QED
  BY <1>17, <1>18, <1>21, <1>22, <1>23, <1>24, PlainStep

LEMMA SaveAgainKeeps ==
  ASSUME AddressInv, NEW c \in Doings, SaveAgain(c)
  PROVE  AddressInv'
<1>1. In(c, "again") /\ Runs(c) /\ UNCHANGED <<mixed, lost>>
  BY DEF SaveAgain, In, Runs
<1>2. doings[c] \in DoingLocals /\ Good(c) /\ doings[c].who \in Customers /\ doings[c].body \in AnyBody
  BY <1>1, RunningLocals, GoodCalls DEF DoingLocals
<1>3. Making(c, "again")
  BY <1>1, <1>2 DEF Good, StageInv, Making
<1>4. PICK u, s : u = doings[c].who.user /\ s = doings[c].who.session
  OBVIOUS
<1>5. PICK a \in Ids : a = doings[c].id
  BY <1>2 DEF DoingLocals
<1>6. PICK rec : rec = IF a \in Stored
        THEN [addresses[a] EXCEPT !.user = u, !.session = s, !.mobile = doings[c].body.mobile]
        ELSE addresses[a]
  OBVIOUS
<1>7. addresses' = [addresses EXCEPT ![a] = rec] /\ Wrote(c, a, NoDoing)
  <2>1. Wrote(c, a, NoDoing)
    BY <1>5 DEF SaveAgain
  <2>2. CASE a \in Stored
    BY <1>4, <1>5, <1>6, <2>1, <2>2, Types DEF SaveAgain
  <2>3. CASE a \notin Stored
    BY <1>4, <1>5, <1>6, <2>1, <2>3, Types DEF SaveAgain
  <2> QED
    BY <2>2, <2>3
<1>8. u \in Users \cup {Nobody} /\ s \in Browsers /\ doings[c].body.mobile \in MobileNumbers
  BY <1>2, <1>4, CustomerTypes, BodyTypes
<1>9. /\ rec \in AddressRecords /\ rec.state = addresses[a].state /\ rec.default = addresses[a].default
      /\ rec.user = IF a \in Stored THEN u ELSE addresses[a].user
  <2>1. addresses[a] \in AddressRecords
    BY Types
  <2>2. CASE a \in Stored
    BY <1>6, <1>8, <2>1, <2>2 DEF AddressRecords
  <2>3. CASE a \notin Stored
    BY <1>6, <2>1, <2>3
  <2> QED
    BY <2>2, <2>3
<1>10. MadeInv(c)
  BY <1>2 DEF Good
<1>11. addresses[a].state # "new" /\ (u \in Users \ mixed => addresses[a].user = u)
  BY <1>3, <1>4, <1>5, <1>10 DEF MadeInv
<1>12. rec.user \in {addresses[a].user, Nobody} \cup mixed
  BY <1>8, <1>9, <1>11
<1>13. \A v \in Users \ mixed : v # Nobody /\ rec.state = "stored" /\ rec.user = v =>
         /\ addresses[a].state = "stored" /\ addresses[a].user = v
         /\ rec.default => addresses[a].default
  BY <1>9, <1>11
<1>14. ASSUME NEW d \in Doings \ {c}, Making(d, "again"), Runs(d)
       PROVE  doings[d].id # a
  BY <1>1, <1>3, <1>5, <1>14, GoodCalls DEF PairInv
<1>15. \A d \in Doings \ {c} :
         Making(d, "again") /\ Runs(d) /\ doings[d].who.user \in Users \ mixed =>
           doings[d].id # a \/ (rec.user = addresses[a].user /\ rec.session = addresses[a].session)
  BY <1>14
<1>16. NoDoing \in Locals /\ ~Runs(c)'
  <2>1. NoDoing \in Locals
    BY DEF Locals
  <2> QED
    BY <1>7, <2>1, WroteBeside DEF Runs, In, NoDoing
<1>17. /\ Runs(c) /\ mixed' = mixed /\ lost \subseteq lost' /\ rec.state # "new"
       /\ lost' \subseteq MobileNumbers \X {"own", "met"} /\ Nobody \in Gains(c)
  BY <1>1, <1>9, <1>11, Types DEF Gains
<1>18. \A v \in Users : v \notin mixed' /\ v = Nobody => OwnerInv(v)'
  BY Constants
<1> QED
  BY <1>7, <1>9, <1>11, <1>12, <1>13, <1>15, <1>16, <1>17, <1>18, WriteStep DEF Writes

-----------------------------------------------------------------------------
(* update, set-default, delete.                                            *)

LEMMA FindKeeps ==
  ASSUME AddressInv, NEW c \in Doings, FindAddress(c)
  PROVE  AddressInv'
<1>1. In(c, "find") /\ Runs(c) /\ UNCHANGED <<addresses, mixed, lost>>
  BY DEF FindAddress, In, Runs
<1>2. doings[c] \in DoingLocals /\ Good(c)
  BY <1>1, RunningLocals, GoodCalls
<1>3. PICK a \in Ids : a = doings[c].id
  BY <1>2 DEF DoingLocals
<1>4. PICK who : who = doings[c].who
  OBVIOUS
<1>5. CASE ~(a \in Stored /\ Access(who, a))
  BY <1>1, <1>3, <1>4, <1>5, StopStep DEF FindAddress
<1>6. CASE a \in Stored /\ Access(who, a)
  <2>1. PICK pc : pc = IF doings[c].op = "delete" THEN "delete" ELSE "unset"
    OBVIOUS
  <2>2. PICK next : next = [doings[c] EXCEPT !.read = addresses[a], !.pc = pc]
    OBVIOUS
  <2>3. doings' = [doings EXCEPT ![c] = next]
    BY <1>3, <1>4, <1>6, <2>1, <2>2, Types DEF FindAddress
  <2>4. /\ next \in DoingLocals /\ next.pc = pc /\ next.op = doings[c].op /\ next.who = who
        /\ next.id = a /\ next.guests = doings[c].guests
    BY <1>2, <1>3, <1>4, <2>1, <2>2, Types DEF DoingLocals, Stages
  <2>5. doings'[c] = next
    BY <2>3, Types
  <2>6. doings[c].op \in {"delete"} \cup Changes
    BY <1>1, <1>2 DEF Good, StageInv
  <2>7. StageInv(c)'
    BY <2>1, <2>4, <2>5, <2>6 DEF StageInv, In, Changes
  <2>8. PlaceInv(c)' /\ MadeInv(c)' /\ ~Making(c, "again")'
    BY <2>1, <2>4, <2>5, <2>6 DEF PlaceInv, MadeInv, Making, In, Changes
  <2>9. MergeInv(c)'
    BY <1>1, <1>2, <2>4, <2>5, <2>6 DEF Good, MergeInv, Changes
  <2>10. ForeignInv(c)'
    <3>1. addresses[a].state # "new"
      BY <1>6 DEF Stored
    <3>2. doings[c].op \in Changes => addresses[a].user \in {Nobody, who.user} \cup mixed
      BY <1>2, <1>3, <1>4, <1>6 DEF Good, ForeignInv, Access
    <3> QED
      BY <1>1, <2>1, <2>4, <2>5, <3>1, <3>2 DEF ForeignInv, In
  <2>11. \A d \in Doings \ {c} :
           Making(d, "again") /\ Runs(d) /\ doings[d].who.user \in Users \ mixed =>
             \A g \in next.guests : g[1] # doings[d].id
    BY <1>1, <2>4, GuestsStay
  <2>12. next \in Locals /\ next.who = doings[c].who /\ Good(c)'
    BY <1>4, <2>4, <2>7, <2>8, <2>9, <2>10 DEF Locals, Good
  <2> QED
    BY <1>1, <2>3, <2>8, <2>11, <2>12, QuietStep
<1> QED
  BY <1>5, <1>6

\* The call read its address before: others may have changed it since, but not its user.
LEMMA SaveChangeKeeps ==
  ASSUME AddressInv, NEW c \in Doings, SaveChange(c)
  PROVE  AddressInv'
<1>1. In(c, "save") /\ Runs(c) /\ doings[c].op # "create" /\ UNCHANGED <<mixed, lost>>
  BY DEF SaveChange, In, Runs
<1>2. /\ doings[c] \in DoingLocals /\ Good(c) /\ doings[c].body \in AnyBody
      /\ doings[c].read \in AddressRecords
  BY <1>1, RunningLocals, GoodCalls DEF DoingLocals
<1>3. doings[c].op \in Changes
  BY <1>1, <1>2 DEF Good, StageInv
<1>4. PICK a \in Ids : a = doings[c].id
  BY <1>2 DEF DoingLocals
<1>5. PICK x : x = doings[c].who.user
  OBVIOUS
<1>6. PICK read, body : read = doings[c].read /\ body = doings[c].body
  OBVIOUS
<1>7. PICK mobile : mobile = IF doings[c].op = "default" THEN read.mobile ELSE body.mobile
  OBVIOUS
<1>8. /\ body.mobile \in MobileNumbers /\ body.default \in BOOLEAN
      /\ read.mobile \in MobileNumbers /\ mobile \in MobileNumbers
  BY <1>2, <1>6, <1>7, BodyTypes DEF AddressRecords
<1>9. PICK rec : rec = IF a \in Stored
        THEN [addresses[a] EXCEPT !.mobile = IF mobile # read.mobile THEN mobile ELSE addresses[a].mobile,
                                  !.default = IF body.default # read.default THEN body.default
                                              ELSE addresses[a].default]
        ELSE addresses[a]
  OBVIOUS
<1>10. addresses' = [addresses EXCEPT ![a] = rec] /\ Wrote(c, a, NoDoing)
  <2>1. Wrote(c, a, NoDoing)
    BY <1>4 DEF SaveChange
  <2>2. CASE a \in Stored
    <3>1. addresses' = [addresses EXCEPT ![a].mobile = IF mobile # read.mobile THEN mobile ELSE @,
                          ![a].default = IF body.default # read.default THEN body.default ELSE @]
      BY <1>4, <1>6, <1>7, <2>2 DEF SaveChange
    <3> QED
      BY <1>9, <2>1, <2>2, <3>1, Types
  <2>3. CASE a \notin Stored
    BY <1>4, <1>9, <2>1, <2>3, Types DEF SaveChange
  <2> QED
    BY <2>2, <2>3
<1>11. /\ rec \in AddressRecords /\ rec.state = addresses[a].state /\ rec.user = addresses[a].user
       /\ rec.session = addresses[a].session /\ (rec.default => addresses[a].default \/ body.default)
  <2>1. addresses[a] \in AddressRecords
    BY Types
  <2>2. CASE a \in Stored
    <3>1. PICK m \in MobileNumbers : m = IF mobile # read.mobile THEN mobile ELSE addresses[a].mobile
      BY <1>8, <2>1 DEF AddressRecords
    <3>2. PICK b \in BOOLEAN : b = IF body.default # read.default THEN body.default
                                  ELSE addresses[a].default
      BY <1>8, <2>1 DEF AddressRecords
    <3>3. rec = [addresses[a] EXCEPT !.mobile = m, !.default = b]
      BY <1>9, <2>2, <3>1, <3>2
    <3>4. b => addresses[a].default \/ body.default
      BY <3>2
    <3> QED
      BY <2>1, <3>3, <3>4 DEF AddressRecords
  <2>3. CASE a \notin Stored
    BY <1>9, <2>1, <2>3
  <2> QED
    BY <2>2, <2>3
<1>12. addresses[a].state # "new" /\ addresses[a].user \in {Nobody, x} \cup mixed
  BY <1>1, <1>2, <1>3, <1>4, <1>5 DEF Good, ForeignInv
<1>13. ASSUME x \in Users, x \notin mixed
       PROVE  OwnerInv(x)'
  <2>1. OwnerInv(x) /\ PlaceInv(c)
    BY <1>2, <1>13 DEF AddressInv, Good
  <2>2. PICK A : A = OfUser(x) /\ A = OfUser(x)'
    <3>1. \A b \in Ids : addresses'[b].state = addresses[b].state /\ addresses'[b].user = addresses[b].user
      BY <1>10, <1>11, Types
    <3> QED
      BY <3>1 DEF OfUser, Stored
  <2>3. /\ Cardinality(A) <= 2
        /\ \A b, d \in A : addresses[b].default /\ addresses[d].default => b = d
    BY <2>1, <2>2 DEF OwnerInv
  <2>4. body.default => \A b \in A \ {a} : ~addresses[b].default
    BY <1>1, <1>4, <1>5, <1>6, <1>13, <2>1, <2>2 DEF PlaceInv
  <2>5. \A b \in Ids : addresses'[b].default => addresses[b].default \/ (b = a /\ body.default)
    <3>1. addresses'[a] = rec /\ \A b \in Ids \ {a} : addresses'[b] = addresses[b]
      BY <1>10, Types
    <3>2. addresses'[a].default => addresses[a].default \/ body.default
      BY <1>11, <3>1
    <3> QED
      BY <3>1, <3>2
  <2>6. \A b, d \in A : addresses'[b].default /\ addresses'[d].default => b = d
    <3>1. A \in SUBSET Ids
      BY <2>2, OwnedIds
    <3>2. CASE body.default
      BY <2>4, <2>5, <3>1, <3>2
    <3>3. CASE ~body.default
      BY <2>3, <2>5, <3>1, <3>3
    <3> QED
      BY <3>2, <3>3
  <2> QED
    BY <2>2, <2>3, <2>6 DEF OwnerInv
<1>14. NoDoing \in Locals
  BY DEF Locals
<1>15. ~Runs(c)'
  BY <1>10, <1>14, WroteBeside DEF Runs, In, NoDoing
<1>16. /\ Runs(c) /\ mixed' = mixed /\ lost \subseteq lost' /\ rec.state # "new"
       /\ lost' \subseteq MobileNumbers \X {"own", "met"} /\ x \in Gains(c)
       /\ rec.user \in {addresses[a].user, Nobody} \cup mixed
  BY <1>1, <1>5, <1>11, <1>12, Types DEF Gains
<1>17. \A v \in Users \ mixed : v # x /\ rec.state = "stored" /\ rec.user = v =>
         /\ addresses[a].state = "stored" /\ addresses[a].user = v
         /\ rec.default => addresses[a].default
  BY <1>11, <1>12, Constants
<1>18. \A v \in Users : v \notin mixed' /\ v = x => OwnerInv(v)'
  BY <1>1, <1>13
<1>19. \A d \in Doings \ {c} :
         Making(d, "again") /\ Runs(d) /\ doings[d].who.user \in Users \ mixed =>
           doings[d].id # a \/ (rec.user = addresses[a].user /\ rec.session = addresses[a].session)
  BY <1>11
<1>20. /\ Runs(c) /\ addresses[a].state # "new" /\ NoDoing \in Locals /\ Wrote(c, a, NoDoing)
       /\ mixed' = mixed
  BY <1>10, <1>12, <1>14, <1>16
<1>21. lost \subseteq lost' /\ lost' \subseteq MobileNumbers \X {"own", "met"}
  BY <1>16
<1>22. /\ rec \in AddressRecords /\ addresses' = [addresses EXCEPT ![a] = rec] /\ rec.state # "new"
       /\ rec.user \in {addresses[a].user, Nobody} \cup mixed
  BY <1>10, <1>11, <1>16
<1>23. x \in Gains(c) /\ ~Runs(c)'
  BY <1>15, <1>16
<1> QED
  BY <1>17, <1>18, <1>19, <1>20, <1>21, <1>22, <1>23, WriteStep DEF Writes

LEMMA DeleteKeeps ==
  ASSUME AddressInv, NEW c \in Doings, DeleteAddress(c)
  PROVE  AddressInv'
<1>1. In(c, "delete") /\ Runs(c) /\ UNCHANGED <<mixed, lost>>
  BY DEF DeleteAddress, In, Runs
<1>2. doings[c] \in DoingLocals /\ Good(c)
  BY <1>1, RunningLocals, GoodCalls
<1>3. PICK a \in Ids : a = doings[c].id
  BY <1>2 DEF DoingLocals
<1>4. PICK rec : rec = [addresses[a] EXCEPT !.state = "deleted"]
  OBVIOUS
<1>5. /\ rec \in AddressRecords /\ rec.state = "deleted" /\ rec.user = addresses[a].user
      /\ rec.session = addresses[a].session
  BY <1>4, Types DEF AddressRecords
<1>6. addresses' = [addresses EXCEPT ![a] = rec] /\ Wrote(c, a, NoDoing)
  BY <1>3, <1>4, Types DEF DeleteAddress
<1>7. addresses[a].state # "new"
  BY <1>1, <1>2, <1>3 DEF Good, StageInv, ForeignInv
<1>8. NoDoing \in Locals
  BY DEF Locals
<1>9. ~Runs(c)'
  BY <1>6, <1>8, WroteBeside DEF Runs, In, NoDoing
<1>10. \A v \in Users : v \notin mixed' /\ v = Nobody => OwnerInv(v)'
  BY Constants
<1>11. mixed' = mixed /\ lost \subseteq lost' /\ lost' \subseteq MobileNumbers \X {"own", "met"}
  BY <1>1, Types
<1>12. Nobody \in Gains(c)
  BY DEF Gains
<1>13. Writes(c, a, NoDoing, rec, Nobody)
  BY <1>1, <1>5, <1>6, <1>7, <1>8, <1>9, <1>10, <1>11, <1>12 DEF Writes
<1> QED
  BY <1>13, WriteStep

-----------------------------------------------------------------------------
(* mergeGuestAddresses.                                                    *)

\* Of a merge that goes on, all but what it has read is in order.
LEMMA MergingGood ==
  ASSUME AddressInv, NEW c \in Doings, Runs(c), doings[c].op = "merge", NEW next \in DoingLocals,
         next.op = "merge", next.who = doings[c].who, doings'[c] = next, mixed' = mixed,
         next.pc \in {"own", "merge", "fallback"}, MergeInv(c)'
  PROVE  Good(c)' /\ ~Making(c, "again")'
<1>1. StageInv(c)
  BY GoodCalls DEF Good
<1>2. StageInv(c)'
  BY <1>1 DEF StageInv, In, Changes
<1>3. PlaceInv(c)' /\ MadeInv(c)' /\ ForeignInv(c)' /\ ~Making(c, "again")'
  BY <1>1 DEF StageInv, PlaceInv, MadeInv, ForeignInv, Making, In, Changes
<1> QED
  BY <1>2, <1>3 DEF Good

LEMMA Merging ==
  ASSUME AddressInv, NEW c \in Doings,
         In(c, "guests") \/ In(c, "own") \/ In(c, "merge") \/ In(c, "fallback") \/ In(c, "first")
  PROVE  /\ Runs(c) /\ doings[c] \in DoingLocals /\ Good(c) /\ doings[c].op = "merge"
         /\ doings[c].who.user \in mixed \cap Users /\ doings[c].who.session # Nobody
<1>1. Runs(c)
  BY DEF In, Runs
<1>2. doings[c] \in DoingLocals /\ Good(c)
  BY <1>1, RunningLocals, GoodCalls
<1> QED
  BY <1>1, <1>2 DEF Good, StageInv, In

\* Two calls in one browser meet: what one has just made is no address the other reads,
\* unless its user is mixed.
LEMMA ReadGuestsKeeps ==
  ASSUME AddressInv, NEW c \in Doings, ReadGuests(c)
  PROVE  AddressInv'
<1>1. /\ In(c, "guests") /\ Runs(c) /\ doings[c] \in DoingLocals /\ Good(c)
      /\ doings[c].op = "merge" /\ doings[c].who.session # Nobody /\ UNCHANGED <<addresses, mixed, lost>>
  BY Merging DEF ReadGuests
<1>2. PICK G : G = OfSession(doings[c].who.session)
  OBVIOUS
<1>3. G \subseteq Stored /\ G \subseteq Ids
  BY <1>2 DEF OfSession, Stored
<1>4. CASE G = {}
  BY <1>1, <1>2, <1>4, StopStep DEF ReadGuests
<1>5. CASE G # {}
  <2>1. PICK guests : guests = {<<a, addresses[a].mobile>> : a \in G}
    OBVIOUS
  <2>2. guests \subseteq Ids \X MobileNumbers
    BY <1>3, <2>1, Types DEF AddressRecords
  <2>3. PICK next : next = [doings[c] EXCEPT !.guests = guests, !.pc = "own"]
    OBVIOUS
  <2>4. doings' = [doings EXCEPT ![c] = next]
    BY <1>2, <1>5, <2>1, <2>3, Types DEF ReadGuests
  <2>5. /\ next \in DoingLocals /\ next.pc = "own" /\ next.op = doings[c].op
        /\ next.who = doings[c].who /\ next.guests = guests /\ next.met = doings[c].met
        /\ next.mobiles = doings[c].mobiles
    BY <1>1, <2>2, <2>3 DEF DoingLocals, Stages
  <2>6. doings'[c] = next
    BY <2>4, Types
  <2>7. MergeInv(c)'
    <3>1. \A g \in guests : addresses[g[1]].state # "new" /\ addresses[g[1]].mobile = g[2]
      BY <1>3, <2>1 DEF Stored
    <3>2. PICK u : u = doings[c].who.user
      OBVIOUS
    <3>3. ~doings[c].met => \A m \in doings[c].mobiles :
            <<m, "own">> \in lost \/ \E b \in OfUser(u) : addresses[b].mobile = m
      BY <1>1, <3>2 DEF Good, MergeInv
    <3>4. OfUser(u)' = OfUser(u)
      BY <1>1 DEF OfUser, Stored
    <3> QED
      BY <1>1, <2>5, <2>6, <3>1, <3>2, <3>3, <3>4 DEF MergeInv
  <2>8. Good(c)' /\ ~Making(c, "again")'
    BY <1>1, <2>5, <2>6, <2>7, MergingGood
  <2>9. ASSUME NEW d \in Doings \ {c}, Making(d, "again"), Runs(d),
               doings[d].who.user \in Users \ mixed, NEW g \in next.guests, g[1] = doings[d].id
        PROVE  FALSE
    <3>1. MadeInv(d) /\ PairInv(d, c)
      BY <1>1, <2>9, GoodCalls DEF Good
    <3>2. addresses[doings[d].id].session = doings[d].who.session
      BY <2>9, <3>1 DEF MadeInv
    <3>3. g[1] \in G
      BY <2>1, <2>5, <2>9
    <3>4. doings[d].who.session = doings[c].who.session
      BY <1>2, <2>9, <3>2, <3>3 DEF OfSession
    <3> QED
      BY <1>1, <2>9, <3>1, <3>4, Constants DEF PairInv
  <2>10. next \in Locals
    BY <2>5 DEF Locals
  <2> QED
    BY <1>1, <2>4, <2>5, <2>8, <2>9, <2>10, QuietStep
<1> QED
  BY <1>4, <1>5

LEMMA ReadOwnKeeps ==
  ASSUME AddressInv, NEW c \in Doings, ReadOwn(c)
  PROVE  AddressInv'
<1>1. /\ In(c, "own") /\ Runs(c) /\ doings[c] \in DoingLocals /\ Good(c)
      /\ doings[c].op = "merge" /\ UNCHANGED <<addresses, mixed, lost>>
  BY Merging DEF ReadOwn
<1>2. PICK u : u = doings[c].who.user
  OBVIOUS
<1>3. PICK mobiles : mobiles = {addresses[a].mobile : a \in OfUser(u)}
  OBVIOUS
<1>4. mobiles \subseteq MobileNumbers
  BY <1>3, OwnedIds, Types DEF AddressRecords
<1>5. PICK next : next = [doings[c] EXCEPT !.mobiles = mobiles, !.pc = "merge"]
  OBVIOUS
<1>6. doings' = [doings EXCEPT ![c] = next]
  BY <1>2, <1>3, <1>5, Types DEF ReadOwn
<1>7. /\ next \in DoingLocals /\ next.pc = "merge" /\ next.op = doings[c].op
      /\ next.who = doings[c].who /\ next.guests = doings[c].guests /\ next.met = doings[c].met
      /\ next.mobiles = mobiles
  BY <1>1, <1>4, <1>5 DEF DoingLocals, Stages
<1>8. doings'[c] = next
  BY <1>6, Types
<1>9. MergeInv(c)'
  <2>1. OfUser(u)' = OfUser(u) /\ Stored' = Stored
    BY <1>1 DEF OfUser, Stored
  <2>2. \A m \in mobiles : \E b \in OfUser(u) : addresses[b].mobile = m
    BY <1>3
  <2> QED
    BY <1>1, <1>2, <1>7, <1>8, <2>1, <2>2 DEF Good, MergeInv
<1>10. Good(c)' /\ ~Making(c, "again")'
  BY <1>1, <1>7, <1>8, <1>9, MergingGood
<1>11. \A d \in Doings \ {c} :
         Making(d, "again") /\ Runs(d) /\ doings[d].who.user \in Users \ mixed =>
           \A g \in next.guests : g[1] # doings[d].id
  BY <1>1, <1>7, GuestsStay
<1>12. next \in Locals
  BY <1>7 DEF Locals
<1> QED
  BY <1>1, <1>6, <1>7, <1>10, <1>11, <1>12, QuietStep

\* A deletion that no other call disturbed loses no number the user has nowhere else.
LEMMA LosesOwn ==
  ASSUME AddressInv, NEW c \in Doings, Runs(c), doings[c].op = "merge", NEW g \in doings[c].guests,
         Duplicate(c, g[2])
  PROVE  /\ lost \subseteq Losing(c, g[1])
         /\ Losing(c, g[1]) \subseteq MobileNumbers \X {"own", "met"}
<1>1. doings[c] \in DoingLocals /\ MergeInv(c)
  BY RunningLocals, GoodCalls DEF Good
<1> PICK a \in Ids : a = g[1]
  BY <1>1 DEF DoingLocals
<1>2. PICK u, m : a = g[1] /\ u = doings[c].who.user /\ m = addresses[a].mobile
  OBVIOUS
<1>3. lost \subseteq MobileNumbers \X {"own", "met"} /\ m \in MobileNumbers
  BY <1>2, Types DEF AddressRecords
<1>4. CASE a \notin Stored \/ \E b \in OfUser(u) \ {a} : addresses[b].mobile = m
  BY <1>2, <1>3, <1>4 DEF Losing
<1>5. CASE a \in Stored /\ \A b \in OfUser(u) \ {a} : addresses[b].mobile # m
  <2>1. PICK why : why = IF addresses[a].user = u \/ <<m, "own">> \in lost THEN "own"
                         ELSE IF doings[c].met THEN "met" ELSE "alone"
    OBVIOUS
  <2>2. Losing(c, g[1]) = lost \cup {<<m, why>>}
    BY <1>2, <1>5, <2>1 DEF Losing
  <2>3. ~doings[c].met => addresses[a].user = u \/ <<m, "own">> \in lost
    <3>1. SUFFICES ASSUME ~doings[c].met PROVE addresses[a].user = u \/ <<m, "own">> \in lost
      OBVIOUS
    <3>2. m = g[2]
      BY <1>1, <1>2, <1>5, <3>1 DEF MergeInv
    <3>3. <<m, "own">> \in lost \/ \E b \in OfUser(u) : addresses[b].mobile = m
      BY <1>1, <1>2, <3>1, <3>2 DEF MergeInv, Duplicate
    <3> QED
      BY <1>5, <3>3 DEF OfUser
  <2>4. why \in {"own", "met"}
    BY <2>1, <2>3
  <2> QED
    BY <1>3, <2>2, <2>4
<1> QED
  BY <1>4, <1>5

\* What the merge writes of an address that it has read.
LEMMA MergedHolds ==
  ASSUME AddressInv, NEW c \in Doings, Runs(c), doings[c].op = "merge", NEW g \in doings[c].guests,
         NEW rec \in AddressRecords, addresses' = [addresses EXCEPT ![g[1]] = rec],
         rec.state # "new", rec.mobile = addresses[g[1]].mobile,
         NEW next \in DoingLocals, next = Merged(c, g), doings'[c] = next,
         \/ /\ rec.state = "deleted" /\ Duplicate(c, g[2]) /\ lost' = Losing(c, g[1])
         \/ /\ g[1] \in Stored /\ rec.state = "stored" /\ rec.user = doings[c].who.user
            /\ lost' = lost
  PROVE  MergeInv(c)'
<1>1. doings[c] \in DoingLocals /\ MergeInv(c)
  BY RunningLocals, GoodCalls DEF Good
<1> PICK a \in Ids : a = g[1]
  BY <1>1 DEF DoingLocals
<1>2. PICK u : a = g[1] /\ u = doings[c].who.user
  OBVIOUS
<1>3. /\ next.guests = doings[c].guests \ {g} /\ next.mobiles = doings[c].mobiles \cup {g[2]}
      /\ next.met = doings[c].met /\ next.op = "merge" /\ next.who = doings[c].who
  BY <1>1 DEF Merged, DoingLocals
<1>4. addresses'[a] = rec /\ \A b \in Ids \ {a} : addresses'[b] = addresses[b]
  BY <1>2, Types
<1>5. \A h \in doings[c].guests : h[1] \in Ids /\ addresses[h[1]].state # "new"
  BY <1>1 DEF MergeInv, DoingLocals
<1>6. \A h \in next.guests : addresses'[h[1]].state # "new"
  BY <1>3, <1>4, <1>5
<1>7. ASSUME ~doings[c].met
      PROVE  /\ \A h \in next.guests : h[1] \in Stored' => addresses'[h[1]].mobile = h[2]
             /\ \A m \in next.mobiles :
                  <<m, "own">> \in lost' \/ \E b \in OfUser(u)' : addresses'[b].mobile = m
  <2>1. /\ \A h \in doings[c].guests : h[1] \in Stored => addresses[h[1]].mobile = h[2]
        /\ \A m \in doings[c].mobiles :
             <<m, "own">> \in lost \/ \E b \in OfUser(u) : addresses[b].mobile = m
    BY <1>1, <1>2, <1>7 DEF MergeInv
  <2>2. \A b \in Ids : addresses'[b].mobile = addresses[b].mobile
    BY <1>2, <1>4
  <2>3. \A b \in Stored' : b \in Stored
    BY <1>2, <1>4 DEF Stored
  <2>4. \A h \in next.guests : h[1] \in Stored' => addresses'[h[1]].mobile = h[2]
    BY <1>3, <1>5, <2>1, <2>2, <2>3
  <2>5. CASE rec.state = "deleted" /\ Duplicate(c, g[2]) /\ lost' = Losing(c, a)
    <3>1. ASSUME NEW m \in next.mobiles
          PROVE  <<m, "own">> \in lost' \/ \E b \in OfUser(u)' : addresses'[b].mobile = m
      <4>1. m \in doings[c].mobiles
        BY <1>3, <2>5, <3>1 DEF Duplicate
      <4>2. \A b \in OfUser(u) \ {a} : b \in OfUser(u)' /\ addresses'[b].mobile = addresses[b].mobile
        BY <1>4 DEF OfUser, Stored
      <4>3. CASE <<m, "own">> \in lost
        BY <1>2, <2>5, <4>3, LosesOwn
      <4>4. CASE <<m, "own">> \notin lost
        <5>1. PICK b \in OfUser(u) : addresses[b].mobile = m
          BY <2>1, <4>1, <4>4
        <5>2. CASE b # a
          BY <4>2, <5>1, <5>2
        <5>3. CASE b = a /\ \E e \in OfUser(u) \ {a} : addresses[e].mobile = m
          BY <4>2, <5>3
        <5>4. CASE b = a /\ \A e \in OfUser(u) \ {a} : addresses[e].mobile # m
          <6>1. a \in Stored /\ addresses[a].user = u /\ addresses[a].mobile = m
            BY <5>1, <5>4 DEF OfUser
          <6>2. Losing(c, a) = lost \cup {<<m, "own">>}
            BY <1>2, <5>4, <6>1 DEF Losing
          <6> QED
            BY <2>5, <6>2
        <5> QED
          BY <5>2, <5>3, <5>4
      <4> QED
        BY <4>3, <4>4
    <3> QED
      BY <2>4, <3>1
  <2>6. CASE a \in Stored /\ rec.state = "stored" /\ rec.user = u /\ lost' = lost
    <3>1. \A b \in OfUser(u) \cup {a} : b \in OfUser(u)'
      BY <1>4, <2>6 DEF OfUser, Stored
    <3>2. addresses'[a].mobile = g[2]
      BY <1>2, <2>1, <2>2, <2>6
    <3>3. ASSUME NEW m \in next.mobiles
          PROVE  <<m, "own">> \in lost' \/ \E b \in OfUser(u)' : addresses'[b].mobile = m
      <4>1. CASE m = g[2]
        BY <3>1, <3>2, <4>1
      <4>2. CASE m \in doings[c].mobiles
        <5>1. <<m, "own">> \in lost \/ \E b \in OfUser(u) : addresses[b].mobile = m
          BY <2>1, <4>2
        <5> QED
          BY <2>2, <2>6, <3>1, <5>1, OwnedIds
      <4> QED
        BY <1>3, <4>1, <4>2
    <3> QED
      BY <2>4, <3>3
  <2> QED
    BY <1>2, <2>5, <2>6
<1> QED
  BY <1>2, <1>3, <1>6, <1>7 DEF MergeInv

LEMMA MergeOneKeeps ==
  ASSUME AddressInv, NEW c \in Doings, MergeOne(c)
  PROVE  AddressInv'
<1>1. /\ In(c, "merge") /\ Runs(c) /\ doings[c] \in DoingLocals /\ Good(c)
      /\ doings[c].op = "merge" /\ doings[c].who.user \in mixed \cap Users /\ UNCHANGED mixed
  BY Merging DEF MergeOne
<1>2. PICK u : u = doings[c].who.user
  OBVIOUS
<1>3. PICK g \in doings[c].guests :
        IF Duplicate(c, g[2])
        THEN /\ addresses' = [addresses EXCEPT ![g[1]].state = "deleted"]
             /\ lost' = Losing(c, g[1])
             /\ Wrote(c, g[1], Merged(c, g))
        ELSE /\ addresses' = IF g[1] \in Stored
                  THEN [addresses EXCEPT ![g[1]].user = u, ![g[1]].session = Nobody]
                  ELSE addresses
             /\ UNCHANGED lost
             /\ Wrote(c, g[1], IF g[1] \in Stored THEN Merged(c, g) ELSE NoDoing)
  BY <1>2 DEF MergeOne
<1>4. PICK a \in Ids : a = g[1] /\ addresses[a].state # "new" /\ addresses[a] \in AddressRecords
  BY <1>1, Types DEF Good, MergeInv, DoingLocals
<1>5. PICK next : next = Merged(c, g)
  OBVIOUS
<1>6. /\ next \in DoingLocals /\ next.op = "merge" /\ next.who = doings[c].who
      /\ next.guests \subseteq doings[c].guests /\ next.pc \in {"merge", "fallback"}
  <2>1. /\ g[2] \in MobileNumbers /\ doings[c].mobiles \subseteq MobileNumbers
        /\ doings[c].guests \subseteq Ids \X MobileNumbers
    BY <1>1 DEF DoingLocals
  <2>2. PICK pc : pc = IF doings[c].guests = {g} THEN "fallback" ELSE "merge"
    OBVIOUS
  <2>3. PICK guests, mobiles : guests = doings[c].guests \ {g} /\ mobiles = doings[c].mobiles \cup {g[2]}
    OBVIOUS
  <2>4. guests \subseteq Ids \X MobileNumbers /\ mobiles \subseteq MobileNumbers /\ pc \in Stages
    BY <2>1, <2>2, <2>3 DEF Stages
  <2>5. next = [doings[c] EXCEPT !.guests = guests, !.mobiles = mobiles, !.pc = pc]
    BY <1>5, <2>2, <2>3 DEF Merged
  <2> QED
    BY <1>1, <2>2, <2>3, <2>4, <2>5 DEF DoingLocals
<1>7. \A v \in Users : v \notin mixed' /\ v = Nobody => OwnerInv(v)'
  BY Constants
<1>8. \A d \in Doings \ {c} :
        Making(d, "again") /\ Runs(d) /\ doings[d].who.user \in Users \ mixed => doings[d].id # a
  BY <1>1, <1>4, GoodCalls DEF Good, MadeInv
<1>9. Nobody \in Gains(c) /\ next \in Locals /\ NoDoing \in Locals
  BY <1>6 DEF Gains, Locals
<1>10. CASE Duplicate(c, g[2])
  <2>1. PICK rec : rec = [addresses[a] EXCEPT !.state = "deleted"]
    OBVIOUS
  <2>2. /\ rec \in AddressRecords /\ rec.state = "deleted" /\ rec.user = addresses[a].user
        /\ rec.mobile = addresses[a].mobile
    BY <1>4, <2>1 DEF AddressRecords
  <2>3. addresses' = [addresses EXCEPT ![a] = rec] /\ lost' = Losing(c, a) /\ Wrote(c, a, next)
    BY <1>3, <1>4, <1>5, <1>10, <2>1, Types
  <2>4. lost \subseteq lost' /\ lost' \subseteq MobileNumbers \X {"own", "met"}
    BY <1>1, <1>4, <1>10, <2>3, LosesOwn
  <2>5. doings'[c] = next
    BY <1>9, <2>3, WroteBeside
  <2>6. MergeInv(c)'
    BY <1>1, <1>4, <1>5, <1>6, <1>10, <2>2, <2>3, <2>5, MergedHolds
  <2>7. Good(c)' /\ ~Making(c, "again")'
    BY <1>1, <1>6, <2>5, <2>6, MergingGood
  <2>8. Writes(c, a, next, rec, Nobody)
    BY <1>1, <1>4, <1>6, <1>7, <1>8, <1>9, <2>2, <2>3, <2>4, <2>7 DEF Writes
  <2> QED
    BY <2>8, WriteStep
<1>11. CASE ~Duplicate(c, g[2]) /\ a \in Stored
  <2>1. PICK rec : rec = [addresses[a] EXCEPT !.user = u, !.session = Nobody]
    OBVIOUS
  <2>2. u \in Users \cup {Nobody} /\ Nobody \in Browsers
    BY <1>1, <1>2 DEF Browsers
  <2>3. /\ rec \in AddressRecords /\ rec.state = "stored" /\ rec.user = u
        /\ rec.mobile = addresses[a].mobile
    BY <1>4, <1>11, <2>1, <2>2 DEF AddressRecords, Stored
  <2>4. addresses' = [addresses EXCEPT ![a] = rec] /\ lost' = lost /\ Wrote(c, a, next)
    BY <1>3, <1>4, <1>5, <1>11, <2>1, Types
  <2>5. lost \subseteq lost' /\ lost' \subseteq MobileNumbers \X {"own", "met"}
    BY <2>4, Types
  <2>6. doings'[c] = next
    BY <1>9, <2>4, WroteBeside
  <2>7. MergeInv(c)'
    BY <1>1, <1>2, <1>4, <1>5, <1>6, <1>11, <2>3, <2>4, <2>6, MergedHolds
  <2>8. Good(c)' /\ ~Making(c, "again")'
    BY <1>1, <1>6, <2>6, <2>7, MergingGood
  <2>9. Writes(c, a, next, rec, Nobody)
    BY <1>1, <1>2, <1>4, <1>6, <1>7, <1>8, <1>9, <2>3, <2>4, <2>5, <2>8 DEF Writes
  <2> QED
    BY <2>9, WriteStep
<1>12. CASE ~Duplicate(c, g[2]) /\ a \notin Stored
  <2>1. PICK rec : rec = addresses[a]
    OBVIOUS
  <2>2. addresses' = [addresses EXCEPT ![a] = rec] /\ lost' = lost /\ Wrote(c, a, NoDoing)
    BY <1>3, <1>4, <1>12, <2>1, Types
  <2>3. lost \subseteq lost' /\ lost' \subseteq MobileNumbers \X {"own", "met"}
    BY <2>2, Types
  <2>4. ~Runs(c)'
    BY <1>9, <2>2, WroteBeside DEF Runs, In, NoDoing
  <2>5. Writes(c, a, NoDoing, rec, Nobody)
    BY <1>1, <1>4, <1>7, <1>9, <2>1, <2>2, <2>3, <2>4 DEF Writes
  <2> QED
    BY <2>5, WriteStep
<1> QED
  BY <1>10, <1>11, <1>12

LEMMA FindDefaultKeeps ==
  ASSUME AddressInv, NEW c \in Doings, FindDefault(c)
  PROVE  AddressInv'
<1>1. /\ In(c, "fallback") /\ Runs(c) /\ doings[c] \in DoingLocals /\ Good(c)
      /\ doings[c].op = "merge" /\ doings[c].who.user \in mixed \cap Users
      /\ UNCHANGED <<addresses, mixed, lost>>
  BY Merging DEF FindDefault
<1>2. PICK u : u = doings[c].who.user
  OBVIOUS
<1>3. PICK A : A = OfUser(u)
  OBVIOUS
<1>4. CASE A = {} \/ \E a \in A : addresses[a].default
  BY <1>1, <1>2, <1>3, <1>4, StopStep DEF FindDefault
<1>5. CASE ~(A = {} \/ \E a \in A : addresses[a].default)
  <2>1. PICK a \in Ids : a = First(A) /\ a \in A
    BY <1>3, <1>5, OwnedIds, FirstIn
  <2>2. PICK next : next = [doings[c] EXCEPT !.id = a, !.pc = "first"]
    OBVIOUS
  <2>3. doings' = [doings EXCEPT ![c] = next]
    BY <1>2, <1>3, <1>5, <2>1, <2>2, Types DEF FindDefault
  <2>4. /\ next \in DoingLocals /\ next.pc = "first" /\ next.op = doings[c].op
        /\ next.who = doings[c].who /\ next.guests = doings[c].guests /\ next.met = doings[c].met
        /\ next.mobiles = doings[c].mobiles /\ next.id = a
    BY <1>1, <2>2 DEF DoingLocals, Stages
  <2>5. doings'[c] = next
    BY <2>3, Types
  <2>6. StageInv(c)'
    BY <1>1, <2>4, <2>5 DEF Good, StageInv, In
  <2>7. PlaceInv(c)' /\ MadeInv(c)' /\ ~Making(c, "again")'
    BY <1>1, <2>4, <2>5 DEF PlaceInv, MadeInv, Making, In
  <2>8. ForeignInv(c)'
    BY <1>1, <1>2, <1>3, <2>1, <2>4, <2>5 DEF ForeignInv, In, OfUser, Stored
  <2>9. MergeInv(c)'
    <3>1. OfUser(u)' = OfUser(u) /\ Stored' = Stored
      BY <1>1 DEF OfUser, Stored
    <3> QED
      BY <1>1, <1>2, <2>4, <2>5, <3>1 DEF Good, MergeInv
  <2>10. \A d \in Doings \ {c} :
           Making(d, "again") /\ Runs(d) /\ doings[d].who.user \in Users \ mixed =>
             \A g \in next.guests : g[1] # doings[d].id
    BY <1>1, <2>4, GuestsStay
  <2>11. next \in Locals /\ Good(c)'
    BY <2>4, <2>6, <2>7, <2>8, <2>9 DEF Locals, Good
  <2> QED
    BY <1>1, <2>3, <2>4, <2>7, <2>10, <2>11, QuietStep
<1> QED
  BY <1>4, <1>5

LEMMA SaveFirstKeeps ==
  ASSUME AddressInv, NEW c \in Doings, SaveFirst(c)
  PROVE  AddressInv'
<1>1. /\ In(c, "first") /\ Runs(c) /\ doings[c] \in DoingLocals /\ Good(c)
      /\ doings[c].who.user \in mixed \cap Users /\ UNCHANGED <<mixed, lost>>
  BY Merging DEF SaveFirst
<1>2. PICK a \in Ids : a = doings[c].id
  BY <1>1 DEF DoingLocals
<1>3. PICK default \in BOOLEAN : default = (addresses[a].default \/ a \in Stored)
  OBVIOUS
<1>4. PICK rec : rec = [addresses[a] EXCEPT !.default = default]
  OBVIOUS
<1>5. addresses' = [addresses EXCEPT ![a] = rec]
  BY <1>2, <1>3, <1>4, Types DEF SaveFirst
<1>6. /\ rec \in AddressRecords /\ rec.state = addresses[a].state /\ rec.user = addresses[a].user
      /\ rec.session = addresses[a].session /\ rec.mobile = addresses[a].mobile
  BY <1>4, Types DEF AddressRecords
<1>7. /\ addresses' \in [Ids -> AddressRecords] /\ addresses'[a] = rec
      /\ \A b \in Ids \ {a} : addresses'[b] = addresses[b]
  BY <1>5, <1>6, Types
<1>8. addresses[a].user \in {Nobody} \cup mixed
  BY <1>1, <1>2 DEF Good, ForeignInv
<1>9. \A v \in Users \ mixed : v # Nobody =>
        \A b \in OfUser(v)' : b \in OfUser(v) /\ (addresses'[b].default => addresses[b].default)
  <2> SUFFICES ASSUME NEW v \in Users \ mixed, v # Nobody, NEW b \in OfUser(v)'
               PROVE  b \in OfUser(v) /\ (addresses'[b].default => addresses[b].default)
    OBVIOUS
  <2>1. b # a /\ b \in Ids
    BY <1>6, <1>7, <1>8 DEF OfUser, Stored
  <2> QED
    BY <1>7, <2>1 DEF OfUser, Stored
<1>10. NoDoing \in Locals /\ doings' = [doings EXCEPT ![c] = NoDoing]
  BY DEF Locals, SaveFirst, Over
<1>11. ~Runs(c)'
  BY <1>10, Types DEF Runs, In, NoDoing
<1>12. \A v \in Users : v \notin mixed' /\ v = Nobody => OwnerInv(v)'
  BY Constants
<1>13. \A b \in Ids : addresses[b].state # "new" =>
         /\ addresses'[b].mobile = addresses[b].mobile /\ addresses'[b].user = addresses[b].user
         /\ addresses'[b].state = addresses[b].state /\ addresses'[b].session = addresses[b].session
  BY <1>6, <1>7
<1>14. Nobody \in Gains(c) /\ Runs(c) /\ UNCHANGED <<mixed, lost>> /\ addresses' \in [Ids -> AddressRecords]
  BY <1>1, <1>7 DEF Gains
<1> QED
  BY <1>9, <1>10, <1>11, <1>12, <1>13, <1>14, PlainStep

LEMMA FailKeeps ==
  ASSUME AddressInv, NEW c \in Doings, AddressCallFails(c)
  PROVE  AddressInv'
  BY StopStep DEF AddressCallFails, Runs

-----------------------------------------------------------------------------
(* The panel.                                                              *)

LEMMA MetBeside ==
  ASSUME AddressInv, NEW a \in Ids, doings' = doings \/ doings' = Met(a)
  PROVE  /\ doings' \in [Doings -> Locals]
         /\ \A d \in Doings : Beside(d)
         /\ doings' = Met(a) => \A d \in Doings : HasRead(d, a) => doings'[d].met
<1>1. doings \in [Doings -> Locals]
  BY Types
<1>2. CASE doings' = doings /\ doings' # Met(a)
  BY <1>1, <1>2 DEF Beside, Runs, In
<1>3. CASE doings' = Met(a)
  <2>1. doings' = [d \in Doings |-> IF HasRead(d, a) THEN [doings[d] EXCEPT !.met = TRUE] ELSE doings[d]]
    BY <1>3 DEF Met
  <2>2. ASSUME NEW d \in Doings, HasRead(d, a)
        PROVE  /\ Runs(d) /\ [doings[d] EXCEPT !.met = TRUE] \in DoingLocals
               /\ [doings[d] EXCEPT !.met = TRUE].pc = doings[d].pc
               /\ [doings[d] EXCEPT !.met = TRUE].met
    <3>1. Runs(d)
      BY <2>2 DEF HasRead, Runs
    <3>2. doings[d] \in DoingLocals
      BY <3>1, RunningLocals
    <3> QED
      BY <3>1, <3>2 DEF DoingLocals
  <2>3. \A d \in Doings : doings'[d] \in Locals
    BY <1>1, <2>1, <2>2 DEF Locals
  <2>4. \A d \in Doings : Beside(d) /\ (HasRead(d, a) => doings'[d].met)
    BY <2>1, <2>2 DEF Beside, Runs, In
  <2> QED
    BY <2>1, <2>3, <2>4
<1> QED
  BY <1>2, <1>3

\* A write of the panel: of an address that is new, or of the default of one, or a deletion
\* that it tells the merges.
LEMMA PanelStep ==
  ASSUME AddressInv, NEW a \in Ids, NEW rec \in AddressRecords,
         addresses' = [addresses EXCEPT ![a] = rec], rec.state # "new",
         mixed \subseteq mixed', mixed' \subseteq Users \cup {Nobody}, lost' = lost,
         rec.state = "stored" => rec.user \in mixed',
         \/ addresses[a].state = "new" /\ doings' = doings
         \/ /\ addresses[a].state # "new" /\ rec.user = addresses[a].user
            /\ rec.session = addresses[a].session /\ rec.mobile = addresses[a].mobile
            /\ \/ rec.state = addresses[a].state /\ doings' = doings
               \/ doings' = Met(a)
  PROVE  AddressInv'
<1>1. /\ addresses' \in [Ids -> AddressRecords] /\ addresses'[a] = rec
      /\ \A b \in Ids \ {a} : addresses'[b] = addresses[b]
  BY Types
<1>2. /\ doings' \in [Doings -> Locals]
      /\ \A d \in Doings : Beside(d)
      /\ doings' = Met(a) => \A d \in Doings : HasRead(d, a) => doings'[d].met
  BY MetBeside
<1>3. AddressTypeOK'
  BY <1>1, <1>2, Types DEF AddressTypeOK, Locals
<1>4. \A b \in Ids : addresses[b].state # "new" =>
        addresses'[b].state # "new" /\ addresses'[b].user = addresses[b].user
        /\ addresses'[b].session = addresses[b].session
  BY <1>1
<1>5. Mild(Nobody)
  <2>1. ASSUME NEW v \in Users \ mixed', NEW b \in OfUser(v)'
        PROVE  b \in OfUser(v) /\ (addresses'[b].default => addresses[b].default)
    <3>1. b # a /\ b \in Ids
      BY <1>1, <2>1 DEF OfUser, Stored
    <3> QED
      BY <1>1, <2>1, <3>1 DEF OfUser, Stored
  <2>2. \A b \in Ids : addresses[b].state # "new" =>
          /\ addresses'[b].state # "new"
          /\ addresses'[b].user \in {addresses[b].user, Nobody} \cup mixed'
    BY <1>4
  <2> QED
    BY <2>1, <2>2 DEF Mild
<1>6. ASSUME NEW d \in Doings
      PROVE  Aside(d)
  <2>1. Untouched(d)
    BY <1>1, <1>2 DEF Untouched
  <2>2. CASE Making(d, "again") /\ doings[d].who.user \in Users \ mixed'
    <3>1. Runs(d) /\ doings[d] \in DoingLocals
      BY <2>2, RunningLocals DEF Making, Runs, In
    <3>2. MadeInv(d) /\ doings[d].id \in Ids
      BY <3>1, GoodCalls DEF Good, DoingLocals
    <3>3. ASSUME NEW e \in Doings, Runs(e)'
          PROVE  \A g \in doings'[e].guests : g[1] # doings[d].id
      <4>1. Runs(e) /\ doings'[e].guests = doings[e].guests
        BY <1>2, <3>3, BesideFields
      <4> QED
        BY <2>2, <3>2, <4>1 DEF MadeInv
    <3>4. /\ addresses'[doings[d].id].user = addresses[doings[d].id].user
          /\ addresses'[doings[d].id].session = addresses[doings[d].id].session
      BY <1>4, <2>2, <3>2 DEF MadeInv
    <3> QED
      BY <1>2, <2>1, <3>3, <3>4 DEF Aside, Kept
  <2>3. CASE ~(Making(d, "again") /\ doings[d].who.user \in Users \ mixed')
    BY <1>2, <2>1, <2>3 DEF Aside, Kept
  <2> QED
    BY <2>2, <2>3
<1>7. \A d \in Doings : Runs(d)' => Good(d)'
  BY <1>5, <1>6, AsideGood
<1>8. \A d, e \in Doings : d # e /\ Runs(d)' /\ Runs(e)' => PairInv(d, e)'
  BY <1>2, PairsAside
<1>9. \A u \in Users : u \notin mixed' /\ u = Nobody => OwnerInv(u)'
  BY Constants
<1> QED
  BY <1>3, <1>5, <1>7, <1>8, <1>9, Together

LEMMA PanelKeeps ==
  ASSUME AddressInv
  PROVE  /\ \A body \in AddressBodies, u \in Users : PanelCreate(u, body) => AddressInv'
         /\ \A a \in Ids : (\E default \in BOOLEAN : PanelUpdate(a, default)) => AddressInv'
         /\ \A a \in Ids : PanelDelete(a) => AddressInv'
<1>1. ASSUME NEW body \in AddressBodies, NEW u \in Users, PanelCreate(u, body)
      PROVE  AddressInv'
  <2>1. PICK n \in Ids : n = NextId /\ addresses[n].state = "new"
    BY <1>1, NextIdIn DEF PanelCreate
  <2>2. PICK rec : rec = [state |-> "stored", user |-> u, session |-> Nobody, mobile |-> body.mobile,
                          default |-> body.default]
    OBVIOUS
  <2>3. body.mobile \in MobileNumbers /\ body.default \in BOOLEAN
    BY BodyTypes DEF AnyBody
  <2>4. rec \in AddressRecords /\ rec.state = "stored" /\ rec.user = u
    BY <2>2, <2>3 DEF AddressRecords, Browsers
  <2>5. /\ addresses' = [addresses EXCEPT ![n] = rec] /\ mixed' = mixed \cup {u}
        /\ doings' = doings /\ lost' = lost
    BY <1>1, <2>1, <2>2 DEF PanelCreate
  <2>6. mixed \subseteq mixed' /\ mixed' \subseteq Users \cup {Nobody} /\ rec.user \in mixed'
    BY <2>4, <2>5, Types
  <2> QED
    BY <2>1, <2>4, <2>5, <2>6, PanelStep
<1>2. ASSUME NEW a \in Ids, NEW default \in BOOLEAN, PanelUpdate(a, default)
      PROVE  AddressInv'
  <2>1. addresses[a] \in AddressRecords /\ addresses[a].state = "stored"
    BY <1>2, Types DEF PanelUpdate, Stored
  <2>2. PICK rec : rec = [addresses[a] EXCEPT !.default = default]
    OBVIOUS
  <2>3. /\ rec \in AddressRecords /\ rec.state = addresses[a].state /\ rec.user = addresses[a].user
        /\ rec.session = addresses[a].session /\ rec.mobile = addresses[a].mobile
    BY <2>1, <2>2 DEF AddressRecords
  <2>4. /\ addresses' = [addresses EXCEPT ![a] = rec] /\ mixed' = mixed \cup {addresses[a].user}
        /\ doings' = doings /\ lost' = lost
    BY <1>2, <2>2, Types DEF PanelUpdate
  <2>5. mixed \subseteq mixed' /\ mixed' \subseteq Users \cup {Nobody} /\ rec.user \in mixed'
    BY <2>1, <2>3, <2>4, Types DEF AddressRecords
  <2> QED
    BY <2>1, <2>3, <2>4, <2>5, PanelStep
<1>3. ASSUME NEW a \in Ids, PanelDelete(a)
      PROVE  AddressInv'
  <2>1. addresses[a] \in AddressRecords /\ addresses[a].state = "stored"
    BY <1>3, Types DEF PanelDelete, Stored
  <2>2. PICK rec : rec = [addresses[a] EXCEPT !.state = "deleted"]
    OBVIOUS
  <2>3. /\ rec \in AddressRecords /\ rec.state = "deleted" /\ rec.user = addresses[a].user
        /\ rec.session = addresses[a].session /\ rec.mobile = addresses[a].mobile
    BY <2>1, <2>2 DEF AddressRecords
  <2>4. /\ addresses' = [addresses EXCEPT ![a] = rec] /\ mixed' = mixed
        /\ doings' = Met(a) /\ lost' = lost
    BY <1>3, <2>2, Types DEF PanelDelete
  <2>5. mixed \subseteq mixed' /\ mixed' \subseteq Users \cup {Nobody}
    BY <2>4, Types
  <2> QED
    BY <2>1, <2>3, <2>4, <2>5, PanelStep
<1> QED
  BY <1>1, <1>2, <1>3

-----------------------------------------------------------------------------
\* Every step, of any number of calls at once and of the panel, keeps the invariant.
THEOREM Invariance == AddressSpec => []AddressInv
<1>1. AddressInit => AddressInv
  BY InitInv
<1>2. AddressInv /\ [AddressNext]_addressVars => AddressInv'
  <2> SUFFICES ASSUME AddressInv, [AddressNext]_addressVars PROVE AddressInv'
    OBVIOUS
  <2>1. CASE \E c \in Doings, who \in Customers :
               \/ \E body \in AddressBodies :
                    \/ StartCreate(c, who, body)
                    \/ \E a \in Ids, op \in {"update", "default"} : StartChange(c, op, who, a, body)
               \/ \E a \in Ids : StartChange(c, "delete", who, a, [mobile |-> "", default |-> FALSE])
               \/ StartMerge(c, who)
    BY <2>1, StartsKeep
  <2>2. ASSUME NEW c \in Doings,
               \/ CountAddresses(c) \/ UnsetDefaults(c) \/ SaveNew(c) \/ SaveAgain(c)
               \/ FindAddress(c) \/ SaveChange(c) \/ DeleteAddress(c)
        PROVE  AddressInv'
    BY <2>2, CountKeeps, UnsetKeeps, SaveNewKeeps, SaveAgainKeeps, FindKeeps, SaveChangeKeeps, DeleteKeeps
  <2>3. ASSUME NEW c \in Doings,
               \/ ReadGuests(c) \/ ReadOwn(c) \/ MergeOne(c) \/ FindDefault(c) \/ SaveFirst(c)
               \/ AddressCallFails(c)
        PROVE  AddressInv'
    BY <2>3, ReadGuestsKeeps, ReadOwnKeeps, MergeOneKeeps, FindDefaultKeeps, SaveFirstKeeps, FailKeeps
  <2>4. CASE \/ \E body \in AddressBodies, u \in Users : PanelCreate(u, body)
             \/ \E a \in Ids : (\E default \in BOOLEAN : PanelUpdate(a, default)) \/ PanelDelete(a)
    BY <2>4, PanelKeeps
  <2>5. CASE UNCHANGED addressVars
    <3>1. UNCHANGED <<addresses, doings, mixed, lost>>
      BY <2>5 DEF addressVars
    <3>2. /\ AddressTypeOK' /\ \A u \in Users : OwnerInv(u) => OwnerInv(u)'
      BY <3>1, Types DEF AddressTypeOK, Locals, OwnerInv, OfUser, Stored
    <3>3. ASSUME NEW c \in Doings
          PROVE  /\ Runs(c)' => Runs(c) /\ (Good(c) => Good(c)')
                 /\ \A d \in Doings : PairInv(c, d) => PairInv(c, d)'
      BY <3>1 DEF Good, PlaceInv, MadeInv, StageInv, ForeignInv, MergeInv, PairInv, OfUser, Stored,
                  Runs, Making, In
    <3> QED
      BY <3>1, <3>2, <3>3 DEF AddressInv, Good
  <2> QED
    BY <2>1, <2>2, <2>3, <2>4, <2>5 DEF AddressNext
<1> QED
  BY <1>1, <1>2, PTL DEF AddressSpec

\* Whatever runs together: a member whose calls did not overlap, and to whom no merge, panel
\* or guest in his browser added, has at most two addresses and one default; and a merge that
\* no other call met deletes no number the member keeps nowhere.
THEOREM AddressesHold == AddressSpec => []AddressesInOrder
<1>1. AddressInv => AddressesInOrder
  <2> SUFFICES ASSUME AddressInv PROVE AddressesInOrder
    OBVIOUS
  <2>1. ASSUME NEW u \in Users \ mixed
        PROVE  /\ Cardinality(OfUser(u)) <= 2
               /\ Cardinality({a \in OfUser(u) : addresses[a].default}) <= 1
    <3>1. OwnerInv(u)
      BY DEF AddressInv
    <3>2. PICK A : A = {a \in OfUser(u) : addresses[a].default}
      OBVIOUS
    <3>3. A \in SUBSET Ids /\ \A a, b \in A : a = b
      BY <3>1, <3>2, OwnedIds DEF OwnerInv
    <3> QED
      BY <3>1, <3>2, <3>3, AtMostOne DEF OwnerInv
  <2>2. \A l \in lost : l[2] # "alone"
    BY Types
  <2> QED
    BY <2>1, <2>2 DEF AddressesInOrder
<1> QED
  BY <1>1, Invariance, PTL

=============================================================================
