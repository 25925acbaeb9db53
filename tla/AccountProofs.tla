---------------------------- MODULE AccountProofs ----------------------------
(***************************************************************************)
(* Proofs about Account for any numbers, national codes and calls at once, *)
(* any limits, windows and lives.  IInv is inductive; the properties of    *)
(* the module follow from it.                                              *)
(***************************************************************************)
EXTENDS Account, FiniteSetTheorems, TLAPS

LEMMA Constants ==
  /\ SendLimit \in Nat \ {0} /\ VerifyLimit \in Nat \ {0} /\ ConfirmLimit \in Nat \ {0}
  /\ CodeLife \in Nat \ {0} /\ OtpWindow \in Nat \ {0} /\ CodeWindow \in Nat \ {0}
  /\ VerifyLife \in Nat \ {0} /\ RefreshLife \in Nat \ {0}
  /\ ConfirmLimit <= VerifyLimit /\ OtpWindow <= CodeWindow
  /\ None \notin Ids
  BY AccountAssumption

-----------------------------------------------------------------------------
(* Documents and patches.                                                  *)

\* What a save makes of every path.
LEMMA PatchedFields ==
  ASSUME NEW d \in UserRecords, NEW p \in Patches
  PROVE  /\ Patched(d, p) \in UserRecords
         /\ Patched(d, p).id = d.id /\ Patched(d, p).live = d.live
         /\ Patched(d, p).named = IF "named" \in DOMAIN p THEN TRUE ELSE d.named
         /\ Patched(d, p).national = IF "national" \in DOMAIN p THEN p["national"] ELSE d.national
         /\ Patched(d, p).complete = IF "complete" \in DOMAIN p THEN TRUE ELSE d.complete
         /\ Patched(d, p).code = IF "code" \in DOMAIN p THEN p["code"] ELSE d.code
         /\ Patched(d, p).expiry = IF "expiry" \in DOMAIN p THEN p["expiry"] ELSE d.expiry
         /\ Patched(d, p).attempts = IF "attempts" \in DOMAIN p THEN p["attempts"] ELSE d.attempts
         /\ Patched(d, p).verified = IF "verified" \in DOMAIN p THEN p["verified"] ELSE d.verified
         /\ Patched(d, p).lastSent = IF "lastSent" \in DOMAIN p THEN p["lastSent"] ELSE d.lastSent
         /\ Patched(d, p).sent = IF "sent" \in DOMAIN p THEN p["sent"] ELSE d.sent
         /\ Patched(d, p).refresh = IF "refresh" \in DOMAIN p THEN p["refresh"] ELSE d.refresh
<1> DEFINE e == Patched(d, p)
<1>1. /\ DOMAIN p \subseteq Paths
      /\ "named" \in DOMAIN p => p["named"] = TRUE
      /\ "complete" \in DOMAIN p => p["complete"] = TRUE
      /\ "national" \in DOMAIN p => p["national"] \in Ids
      /\ \A f \in Counts \cap DOMAIN p : p[f] \in Nat
  BY DEF Patches
<1>2. /\ e.named = IF "named" \in DOMAIN p THEN p["named"] ELSE d.named
      /\ e.national = IF "national" \in DOMAIN p THEN p["national"] ELSE d.national
      /\ e.complete = IF "complete" \in DOMAIN p THEN p["complete"] ELSE d.complete
      /\ e.code = IF "code" \in DOMAIN p THEN p["code"] ELSE d.code
      /\ e.expiry = IF "expiry" \in DOMAIN p THEN p["expiry"] ELSE d.expiry
      /\ e.attempts = IF "attempts" \in DOMAIN p THEN p["attempts"] ELSE d.attempts
  BY DEF Patched, UserRecords
<1>3. /\ e.verified = IF "verified" \in DOMAIN p THEN p["verified"] ELSE d.verified
      /\ e.lastSent = IF "lastSent" \in DOMAIN p THEN p["lastSent"] ELSE d.lastSent
      /\ e.sent = IF "sent" \in DOMAIN p THEN p["sent"] ELSE d.sent
      /\ e.refresh = IF "refresh" \in DOMAIN p THEN p["refresh"] ELSE d.refresh
      /\ e.id = IF "id" \in DOMAIN p THEN p["id"] ELSE d.id
      /\ e.live = IF "live" \in DOMAIN p THEN p["live"] ELSE d.live
  BY DEF Patched, UserRecords
<1>4. e = [id |-> e.id, live |-> e.live, named |-> e.named, national |-> e.national,
           complete |-> e.complete, code |-> e.code, expiry |-> e.expiry,
           attempts |-> e.attempts, verified |-> e.verified, lastSent |-> e.lastSent,
           sent |-> e.sent, refresh |-> e.refresh]
  BY DEF Patched, UserRecords
<1> HIDE DEF e
<1>5. e.id = d.id /\ e.live = d.live
  BY <1>1, <1>3 DEF Paths
<1>6. /\ "code" \in DOMAIN p => p["code"] \in Nat
      /\ "expiry" \in DOMAIN p => p["expiry"] \in Nat
      /\ "attempts" \in DOMAIN p => p["attempts"] \in Nat
      /\ "verified" \in DOMAIN p => p["verified"] \in Nat
      /\ "lastSent" \in DOMAIN p => p["lastSent"] \in Nat
      /\ "sent" \in DOMAIN p => p["sent"] \in Nat
      /\ "refresh" \in DOMAIN p => p["refresh"] \in Nat
  BY <1>1 DEF Counts
<1>7. /\ d.id \in Nat /\ d.live \in BOOLEAN /\ d.named \in BOOLEAN /\ d.complete \in BOOLEAN
      /\ d.national \in Ids \cup {None} /\ d.code \in Nat /\ d.expiry \in Nat /\ d.attempts \in Nat
      /\ d.verified \in Nat /\ d.lastSent \in Nat /\ d.sent \in Nat /\ d.refresh \in Nat
  BY DEF UserRecords
<1>8. /\ e.id \in Nat /\ e.live \in BOOLEAN /\ e.national \in Ids \cup {None}
      /\ e.code \in Nat /\ e.expiry \in Nat /\ e.attempts \in Nat /\ e.verified \in Nat
      /\ e.lastSent \in Nat /\ e.sent \in Nat /\ e.refresh \in Nat
  BY <1>1, <1>2, <1>3, <1>5, <1>6, <1>7
<1>9. e.named \in BOOLEAN /\ e.complete \in BOOLEAN
  BY <1>1, <1>2, <1>7
<1>10. e \in UserRecords
  BY <1>4, <1>8, <1>9 DEF UserRecords
<1> QED
  BY <1>1, <1>2, <1>3, <1>5, <1>10 DEF e

LEMMA PatchIntro ==
  ASSUME NEW S \in SUBSET Paths, NEW p \in [S -> {TRUE} \cup Ids \cup Nat],
         "named" \in DOMAIN p => p["named"] = TRUE,
         "complete" \in DOMAIN p => p["complete"] = TRUE,
         "national" \in DOMAIN p => p["national"] \in Ids,
         \A f \in Counts \cap DOMAIN p : p[f] \in Nat
  PROVE  p \in Patches
  BY DEF Patches

LEMMA PathNames ==
  /\ "named" \in Paths /\ "national" \in Paths /\ "complete" \in Paths /\ "code" \in Paths
  /\ "expiry" \in Paths /\ "attempts" \in Paths /\ "verified" \in Paths
  /\ "lastSent" \in Paths /\ "sent" \in Paths /\ "refresh" \in Paths
  BY DEF Paths

\* The paths a call is to write, and with what, from the document it read and the
\* one it made of it.
LEMMA PatchPath ==
  ASSUME NEW d \in UserRecords, NEW e \in UserRecords, NEW F \in SUBSET Paths,
         NEW p, p = Patch(d, e, F), NEW f \in Paths
  PROVE  /\ f \in DOMAIN p <=> e[f] # d[f] \/ f \in F
         /\ f \in DOMAIN p => p[f] = e[f]
<1> DEFINE D == {g \in DOMAIN e : e[g] # d[g]} \cup F
<1>1. DOMAIN e = Paths \cup {"id", "live"}
  BY DEF UserRecords, Paths
<1>2. p = [g \in D |-> e[g]]
  BY DEF Patch
<1> QED
  BY <1>1, <1>2

LEMMA PatchType ==
  ASSUME NEW d \in UserRecords, NEW e \in UserRecords, NEW F \in SUBSET Paths,
         NEW p, p = Patch(d, e, F),
         e.id = d.id, e.live = d.live,
         (e.named = d.named /\ "named" \notin F) \/ e.named = TRUE,
         (e.complete = d.complete /\ "complete" \notin F) \/ e.complete = TRUE,
         (e.national = d.national /\ "national" \notin F) \/ e.national \in Ids
  PROVE  p \in Patches
<1> DEFINE D == {g \in DOMAIN e : e[g] # d[g]} \cup F
<1>1. DOMAIN e = Paths \cup {"id", "live"}
  BY DEF UserRecords, Paths
<1>2. D \subseteq Paths
  BY <1>1 DEF Paths
<1>3. p = [f \in D |-> e[f]]
  BY DEF Patch
<1>4. /\ "named" \in D <=> e.named # d.named \/ "named" \in F
      /\ "national" \in D <=> e.national # d.national \/ "national" \in F
      /\ "complete" \in D <=> e.complete # d.complete \/ "complete" \in F
  BY <1>1 DEF Paths
<1> HIDE DEF D
<1>6. /\ DOMAIN p = D
      /\ \A f \in D : p[f] = e[f]
  BY <1>3
<1>5. /\ e.named \in BOOLEAN /\ e.complete \in BOOLEAN /\ e.national \in Ids \cup {None}
      /\ e.code \in Nat /\ e.expiry \in Nat /\ e.attempts \in Nat /\ e.verified \in Nat
      /\ e.lastSent \in Nat /\ e.sent \in Nat /\ e.refresh \in Nat
  BY DEF UserRecords
<1>7. /\ "named" \in D => e.named = TRUE
      /\ "complete" \in D => e.complete = TRUE
      /\ "national" \in D => e.national \in Ids
  BY <1>4
<1>8. \A f \in Counts : e[f] \in Nat
  BY <1>5 DEF Counts
<1>9. \A f \in D : e[f] \in {TRUE} \cup Ids \cup Nat
  BY <1>2, <1>7, <1>8 DEF Paths, Counts
<1>10. p \in [D -> {TRUE} \cup Ids \cup Nat]
  BY <1>3, <1>9
<1>11. /\ "named" \in DOMAIN p => p["named"] = TRUE
       /\ "complete" \in DOMAIN p => p["complete"] = TRUE
       /\ "national" \in DOMAIN p => p["national"] \in Ids
       /\ \A f \in Counts \cap DOMAIN p : p[f] \in Nat
  BY <1>6, <1>7, <1>8
<1> QED
  BY <1>2, <1>10, <1>11, PatchIntro

-----------------------------------------------------------------------------
(* What a call that starts is about to save.                               *)

\* Of a call of kind k that saves p for m, if m's document stays as it is.
Ready(m, k, at, n, p) ==
  /\ k \in Kinds \ {"welcome"} /\ at \in {"create", "unique", "revoke", "save"}
  /\ k = "register" => at = "unique"
  /\ n \in Ids \cup {None} /\ p \in Patches
  /\ Shape(k, at, n, p)
  /\ at # "create" =>
       /\ users[m].live
       /\ RegistrationAfter(m, p) /\ CodeAfter(m, k, p)
       /\ k = "send" => SendAfter(m, p)
       /\ k = "register" => "code" \in DOMAIN p \/ users[m].code = 0
       /\ k = "wrong" => /\ "attempts" \in DOMAIN p /\ p["attempts"] = users[m].attempts + 1
                         /\ users[m].code # 0 /\ users[m].attempts < VerifyLimit

\* A step in which such a call starts.
Starts(c, m) ==
  \E k, at, n, p :
    /\ StartFor(c, m, k, at, p, n) /\ Ready(m, k, at, n, p)
    /\ wrong' = IF k = "wrong" THEN [wrong EXCEPT ![m] = @ + 1] ELSE wrong

LEMMA Types ==
  ASSUME IInv, NEW m \in Users
  PROVE  /\ users[m] \in UserRecords
         /\ users[m].id \in Nat /\ users[m].live \in BOOLEAN /\ users[m].named \in BOOLEAN
         /\ users[m].complete \in BOOLEAN /\ users[m].national \in Ids \cup {None}
         /\ users[m].code \in Nat /\ users[m].expiry \in Nat /\ users[m].attempts \in Nat
         /\ users[m].verified \in Nat /\ users[m].lastSent \in Nat /\ users[m].sent \in Nat
         /\ users[m].refresh \in Nat
         /\ now \in Nat \ {0} /\ sent[m] \subseteq 1..now /\ wrong[m] \in Nat
         /\ IsFiniteSet(sent[m])
         /\ DocumentInv(m) /\ CodeInv(m) /\ SendInv(m) /\ EntryInv(m)
<1>1. users[m] \in UserRecords /\ now \in Nat \ {0} /\ sent[m] \subseteq 1..now /\ wrong[m] \in Nat
  BY DEF IInv, TypeOK
<1>2. IsFiniteSet(sent[m])
  <2>1. now \in Nat /\ sent[m] \in SUBSET Nat /\ \A s \in sent[m] : s <= now
    BY <1>1
  <2> QED
    BY <2>1, FS_BoundedSetOfNaturals
<1>3. DocumentInv(m) /\ CodeInv(m) /\ SendInv(m) /\ EntryInv(m)
  BY DEF IInv
<1>4. /\ users[m].id \in Nat /\ users[m].live \in BOOLEAN /\ users[m].named \in BOOLEAN
      /\ users[m].complete \in BOOLEAN /\ users[m].national \in Ids \cup {None}
      /\ users[m].code \in Nat /\ users[m].expiry \in Nat /\ users[m].attempts \in Nat
      /\ users[m].verified \in Nat /\ users[m].lastSent \in Nat /\ users[m].sent \in Nat
      /\ users[m].refresh \in Nat
  BY <1>1 DEF UserRecords
<1> QED
  BY <1>1, <1>2, <1>3, <1>4

\* A call that compared a wrong code.
LEMMA WrongReady ==
  ASSUME IInv, NEW m \in Users, NEW limit \in Nat, limit <= VerifyLimit,
         Enterable(users[m]), users[m].attempts < limit
  PROVE  Ready(m, "wrong", "save", None,
               Patch(users[m], [users[m] EXCEPT !.attempts = @ + 1], {}))
<1> DEFINE d == users[m]
           a == d.attempts + 1
           e == [d EXCEPT !.attempts = a]
           p == Patch(d, e, {})
<1>1. /\ d \in UserRecords /\ d.attempts \in Nat /\ d.live /\ d.code # 0
  BY Types DEF Enterable
<1>b. a \in Nat /\ a # d.attempts
  BY <1>1
<1> HIDE DEF a
<1>2. /\ e \in UserRecords /\ e.id = d.id /\ e.live = d.live /\ e.named = d.named
      /\ e.national = d.national /\ e.complete = d.complete /\ e.code = d.code
      /\ e.expiry = d.expiry /\ e.attempts = a /\ e.verified = d.verified
      /\ e.lastSent = d.lastSent /\ e.sent = d.sent /\ e.refresh = d.refresh
  BY <1>1, <1>b DEF UserRecords
<1> HIDE DEF e
<1>a. p = Patch(d, e, {}) /\ {} \in SUBSET Paths
  OBVIOUS
<1> HIDE DEF p, d
<1>c. p \in Patches
  BY <1>1, <1>2, <1>a, PatchType
<1>3. /\ "lastSent" \notin DOMAIN p /\ "sent" \notin DOMAIN p
      /\ "named" \notin DOMAIN p /\ "national" \notin DOMAIN p /\ "complete" \notin DOMAIN p
      /\ "code" \notin DOMAIN p /\ "expiry" \notin DOMAIN p /\ "verified" \notin DOMAIN p
      /\ "refresh" \notin DOMAIN p
      /\ "attempts" \in DOMAIN p /\ p["attempts"] = a
  BY <1>1, <1>2, <1>a, <1>b, PatchPath, PathNames
<1> USE DEF d
<1>4. Shape("wrong", "save", None, p)
  BY <1>3 DEF Shape
<1>5. RegistrationAfter(m, p) /\ CodeAfter(m, "wrong", p)
  BY <1>3 DEF RegistrationAfter, CodeAfter
<1>6. users[m].attempts < VerifyLimit
  BY <1>1, Constants
<1>7. Ready(m, "wrong", "save", None, p)
  BY <1>1, <1>3, <1>4, <1>5, <1>6, <1>c DEF Ready, Kinds, a
<1> QED
  BY <1>7 DEF p, e, a

\* A call that takes a code away.
LEMMA SpentReady ==
  ASSUME IInv, NEW m \in Users, Enterable(users[m])
  PROVE  Ready(m, "spent", "save", None, Patch(users[m], Cleared(users[m]), {}))
<1> DEFINE d == users[m]
           e == Cleared(d)
           p == Patch(d, e, {})
<1>1. /\ d \in UserRecords /\ d.live /\ d.code # 0
      /\ d.code \in Nat /\ d.expiry \in Nat /\ sent[m] \subseteq 1..now /\ CodeInv(m)
  BY Types DEF Enterable
<1>2. /\ e \in UserRecords /\ e.id = d.id /\ e.live = d.live /\ e.named = d.named
      /\ e.national = d.national /\ e.complete = d.complete /\ e.code = 0
      /\ e.expiry = 0 /\ e.attempts = d.attempts /\ e.verified = d.verified
      /\ e.lastSent = d.lastSent /\ e.sent = d.sent /\ e.refresh = d.refresh
  BY <1>1 DEF UserRecords, Cleared
<1> HIDE DEF e
<1>3. d.expiry # 0
  BY <1>1, Constants DEF CodeInv
<1>a. p = Patch(d, e, {}) /\ {} \in SUBSET Paths
  OBVIOUS
<1> HIDE DEF p, d
<1>c. p \in Patches
  BY <1>1, <1>2, <1>a, PatchType
<1>4. /\ "lastSent" \notin DOMAIN p /\ "sent" \notin DOMAIN p
      /\ "named" \notin DOMAIN p /\ "national" \notin DOMAIN p /\ "complete" \notin DOMAIN p
      /\ "code" \in DOMAIN p /\ "expiry" \in DOMAIN p /\ "verified" \notin DOMAIN p
      /\ "refresh" \notin DOMAIN p /\ "attempts" \notin DOMAIN p
      /\ p["code"] = 0 /\ p["expiry"] = 0
  BY <1>1, <1>2, <1>3, <1>a, PatchPath, PathNames
<1> USE DEF d
<1>5. Shape("spent", "save", None, p)
  BY <1>4 DEF Shape
<1>6. RegistrationAfter(m, p) /\ CodeAfter(m, "spent", p)
  BY <1>4 DEF RegistrationAfter, CodeAfter
<1>7. Ready(m, "spent", "save", None, p)
  BY <1>1, <1>4, <1>5, <1>6, <1>c DEF Ready, Kinds
<1> QED
  BY <1>7 DEF p, e

\* The patch of a new code, whichever window counts.
LEMMA NewCodePatch ==
  ASSUME now \in Nat \ {0}, NEW d \in UserRecords, NEW window \in Nat, MaySend(d, window)
  PROVE  LET p == NewCode(d, window)
             n == IF "sent" \in DOMAIN p THEN p["sent"] ELSE d.sent IN
         /\ p \in Patches /\ Shape("send", "save", None, p)
         /\ "named" \notin DOMAIN p /\ "national" \notin DOMAIN p
         /\ "complete" \notin DOMAIN p /\ "verified" \notin DOMAIN p
         /\ "code" \in DOMAIN p /\ "lastSent" \in DOMAIN p
         /\ p["code"] = now /\ p["expiry"] = now + CodeLife /\ p["lastSent"] = now
         /\ n = SentCount(d, window) + 1
<1> DEFINE x == now + CodeLife
           k == SentCount(d, window) + 1
           e == [d EXCEPT !.code = now, !.expiry = x, !.attempts = 0, !.lastSent = now, !.sent = k]
           p == Patch(d, e, {"code", "expiry"})
<1>1. now \in Nat /\ x \in Nat
  BY Constants
<1>2. d.sent \in Nat /\ d.lastSent \in Nat
  BY DEF UserRecords
<1>3. k \in Nat
  BY <1>2 DEF SentCount
<1>4. NewCode(d, window) = p
  BY DEF NewCode
<1>5. d.lastSent # now
  BY <1>1, <1>2 DEF MaySend
<1> HIDE DEF x, k
<1>6. /\ e \in UserRecords /\ e.id = d.id /\ e.live = d.live /\ e.named = d.named
      /\ e.national = d.national /\ e.complete = d.complete /\ e.code = now
      /\ e.expiry = x /\ e.attempts = 0 /\ e.verified = d.verified
      /\ e.lastSent = now /\ e.sent = k /\ e.refresh = d.refresh
  BY <1>1, <1>3 DEF UserRecords
<1>7. p = Patch(d, e, {"code", "expiry"}) /\ {"code", "expiry"} \in SUBSET Paths
  BY PathNames
<1> HIDE DEF e, p
<1>8. p \in Patches
  BY <1>6, <1>7, PatchType
<1>9. /\ "named" \notin DOMAIN p /\ "national" \notin DOMAIN p /\ "complete" \notin DOMAIN p
      /\ "verified" \notin DOMAIN p /\ "refresh" \notin DOMAIN p
  BY <1>6, <1>7, PatchPath, PathNames
<1>10. /\ "code" \in DOMAIN p /\ "expiry" \in DOMAIN p /\ "lastSent" \in DOMAIN p
       /\ p["code"] = now /\ p["expiry"] = x /\ p["lastSent"] = now
  BY <1>5, <1>6, <1>7, PatchPath, PathNames
<1>11. IF "sent" \in DOMAIN p THEN p["sent"] = k ELSE d.sent = k
  BY <1>6, <1>7, PatchPath, PathNames
<1>12. Shape("send", "save", None, p)
  BY <1>9, <1>10 DEF Shape
<1> QED
  BY <1>4, <1>8, <1>9, <1>10, <1>11, <1>12 DEF x, k

\* A code that is sent: the one more that it counts keeps to the limit.
LEMMA SendReady ==
  ASSUME IInv, NEW m \in Users, NEW window \in {OtpWindow, CodeWindow},
         MaySend(users[m], window)
  PROVE  Ready(m, "send", "save", None, NewCode(users[m], window))
<1> DEFINE d == users[m]
           p == NewCode(d, window)
           n == IF "sent" \in DOMAIN p THEN p["sent"] ELSE d.sent
           k == SentCount(d, window)
<1>1. /\ d \in UserRecords /\ d.sent \in Nat /\ d.lastSent \in Nat
      /\ now \in Nat \ {0} /\ sent[m] \subseteq 1..now /\ IsFiniteSet(sent[m]) /\ SendInv(m)
  BY Types
<1>2. window \in Nat /\ OtpWindow \in Nat /\ OtpWindow <= window /\ SendLimit \in Nat
  BY Constants
<1>3. d.live /\ k < SendLimit /\ k \in Nat /\ (d.lastSent # 0 => now > d.lastSent)
  BY <1>1 DEF MaySend, SentCount
<1>4. /\ p \in Patches /\ Shape("send", "save", None, p)
      /\ "named" \notin DOMAIN p /\ "national" \notin DOMAIN p
      /\ "complete" \notin DOMAIN p /\ "verified" \notin DOMAIN p
      /\ "code" \in DOMAIN p /\ "lastSent" \in DOMAIN p
      /\ p["code"] = now /\ p["expiry"] = now + CodeLife /\ p["lastSent"] = now
      /\ n = k + 1
  BY <1>1, <1>2, NewCodePatch
<1>5. ASSUME NEW t \in sent[m] \cup {now}, now <= t + OtpWindow
      PROVE  Cardinality({s \in sent[m] \cup {now} : t <= s}) <= k + 1
  <2> DEFINE S == {s \in sent[m] \cup {now} : t <= s}
  <2>1. S \subseteq From(m, t) \cup {now}
    BY DEF From
  <2>2. IsFiniteSet(From(m, t)) /\ Cardinality(From(m, t)) \in Nat
    BY <1>1, FS_Subset, FS_CardinalityType DEF From
  <2>3. IsFiniteSet(From(m, t) \cup {now}) /\ Cardinality(From(m, t) \cup {now}) <= Cardinality(From(m, t)) + 1
    <3> DEFINE A == From(m, t)
    <3> HIDE DEF A
    <3>1. /\ IsFiniteSet(A \cup {now})
          /\ Cardinality(A \cup {now}) = IF now \in A THEN Cardinality(A) ELSE Cardinality(A) + 1
      BY <2>2, FS_AddElement DEF A
    <3> QED
      BY <2>2, <3>1 DEF A
  <2>4. Cardinality(S) <= Cardinality(From(m, t)) + 1
    <3>1. Cardinality(S) <= Cardinality(From(m, t) \cup {now})
      BY <2>1, <2>3, FS_Subset
    <3>2. Cardinality(S) \in Nat /\ Cardinality(From(m, t) \cup {now}) \in Nat
      BY <2>1, <2>3, FS_Subset, FS_CardinalityType
    <3> QED
      BY <2>2, <2>3, <3>1, <3>2
  <2>5. Cardinality(S) \in Nat
    BY <2>1, <2>3, FS_Subset, FS_CardinalityType
  <2>6. CASE From(m, t) = {}
    BY <1>3, <2>2, <2>4, <2>5, <2>6, FS_EmptySet
  <2>7. CASE From(m, t) # {}
    <3>1. PICK s \in sent[m] : t <= s
      BY <2>7 DEF From
    <3>2. s <= d.lastSent /\ s \in 1..now
      BY <1>1, <1>3, <3>1 DEF SendInv
    <3>3. t \in Nat /\ d.lastSent # 0 /\ now > d.lastSent /\ t # now
      BY <1>1, <1>3, <3>1, <3>2
    <3>4. t \in sent[m] /\ d.lastSent <= t + OtpWindow /\ now - d.lastSent <= window
      BY <1>1, <1>2, <1>5, <3>1, <3>2, <3>3
    <3>5. Cardinality(From(m, t)) <= d.sent
      BY <1>1, <1>3, <3>4 DEF SendInv
    <3>6. k = d.sent
      BY <3>3, <3>4 DEF SentCount, InWindow
    <3> QED
      BY <1>1, <2>2, <2>4, <2>5, <3>5, <3>6
  <2> QED
    BY <2>6, <2>7
<1> HIDE DEF k
<1>6. SendAfter(m, p)
  BY <1>2, <1>3, <1>4, <1>5 DEF SendAfter
<1> HIDE DEF p
<1>7. RegistrationAfter(m, p) /\ CodeAfter(m, "send", p)
  BY <1>4 DEF RegistrationAfter, CodeAfter
<1>8. Ready(m, "send", "save", None, p)
  BY <1>3, <1>4, <1>6, <1>7 DEF Ready, Kinds
<1> QED
  BY <1>8 DEF p

\* A code that was sent not long ago, for whoever logs in with it,
LEMMA EnteredCode ==
  ASSUME IInv, NEW m \in Users, Enterable(users[m])
  PROVE  /\ users[m].live /\ users[m].code # 0 /\ users[m].expiry # 0
         /\ \E s \in sent[m] : now <= s + CodeLife
         /\ \E s \in sent[m] : now < s + CodeLife + VerifyLife
<1>1. /\ users[m].live /\ users[m].code # 0 /\ now <= users[m].expiry
      /\ now \in Nat /\ sent[m] \subseteq 1..now /\ CodeInv(m)
  BY Types DEF Enterable
<1>2. users[m].code \in sent[m] /\ users[m].expiry = users[m].code + CodeLife
  BY <1>1 DEF CodeInv
<1>3. users[m].code \in 1..now
  BY <1>1, <1>2
<1>4. now <= users[m].code + CodeLife /\ now < users[m].code + CodeLife + VerifyLife /\ users[m].expiry # 0
  BY <1>1, <1>2, <1>3, Constants
<1> QED
  BY <1>1, <1>2, <1>4

LEMMA LoginReady ==
  ASSUME IInv, NEW m \in Users, Enterable(users[m])
  PROVE  Ready(m, "login", "save", None,
               Patch(users[m], VerifiedUser(users[m]), {"refresh"}))
<1> DEFINE d == users[m]
           x == now + RefreshLife
           e == VerifiedUser(d)
           p == Patch(d, e, {"refresh"})
<1>1. /\ d \in UserRecords /\ d.live /\ d.code # 0 /\ d.expiry # 0
      /\ \E s \in sent[m] : now <= s + CodeLife
      /\ d.national \in Ids \cup {None} /\ d.complete \in BOOLEAN /\ d.named \in BOOLEAN
      /\ DocumentInv(m) /\ now \in Nat
  BY Types, EnteredCode
<1>2. x \in Nat
  BY <1>1, Constants
<1>3. CASE KnownUser(d)
  <2>1. e = [d EXCEPT !.refresh = x, !.attempts = 0, !.code = 0, !.expiry = 0, !.complete = TRUE]
    BY <1>1, <1>3 DEF VerifiedUser, Cleared, LoggedIn, UserRecords
  <2> HIDE DEF x, e
  <2>2. /\ e \in UserRecords /\ e.id = d.id /\ e.live = d.live /\ e.named = d.named
        /\ e.national = d.national /\ e.complete = TRUE /\ e.code = 0
        /\ e.expiry = 0 /\ e.attempts = 0 /\ e.verified = d.verified
        /\ e.lastSent = d.lastSent /\ e.sent = d.sent /\ e.refresh = x
    BY <1>1, <1>2, <2>1 DEF UserRecords
  <2>3. p = Patch(d, e, {"refresh"}) /\ {"refresh"} \in SUBSET Paths
    BY PathNames
  <2> HIDE DEF p
  <2>4. p \in Patches
    BY <1>1, <2>2, <2>3, PatchType
  <2>5. /\ "named" \notin DOMAIN p /\ "national" \notin DOMAIN p /\ "verified" \notin DOMAIN p
        /\ "lastSent" \notin DOMAIN p /\ "sent" \notin DOMAIN p
        /\ "code" \in DOMAIN p /\ "expiry" \in DOMAIN p /\ p["code"] = 0 /\ p["expiry"] = 0
    BY <1>1, <2>2, <2>3, PatchPath, PathNames
  <2>6. Shape("login", "save", None, p)
    BY <2>5 DEF Shape
  <2>7. d.named /\ d.national # None
    BY <1>3 DEF KnownUser
  <2>8. RegistrationAfter(m, p) /\ CodeAfter(m, "login", p)
    BY <1>1, <2>5, <2>7 DEF RegistrationAfter, CodeAfter
  <2>9. Ready(m, "login", "save", None, p)
    BY <1>1, <2>4, <2>6, <2>8 DEF Ready, Kinds
  <2> QED
    BY <2>9 DEF p, e
<1>4. CASE ~KnownUser(d)
  <2>1. e = [d EXCEPT !.refresh = x, !.attempts = 0, !.complete = FALSE, !.verified = now]
    BY <1>1, <1>4 DEF VerifiedUser, Cleared, LoggedIn, UserRecords
  <2>2. ~d.complete
    BY <1>1, <1>4 DEF DocumentInv, KnownUser
  <2> HIDE DEF x, e
  <2>3. /\ e \in UserRecords /\ e.id = d.id /\ e.live = d.live /\ e.named = d.named
        /\ e.national = d.national /\ e.complete = FALSE /\ e.code = d.code
        /\ e.expiry = d.expiry /\ e.attempts = 0 /\ e.verified = now
        /\ e.lastSent = d.lastSent /\ e.sent = d.sent /\ e.refresh = x
    BY <1>1, <1>2, <2>1 DEF UserRecords
  <2>4. e.complete = d.complete
    BY <1>1, <2>2, <2>3
  <2>5. p = Patch(d, e, {"refresh"}) /\ {"refresh"} \in SUBSET Paths
    BY PathNames
  <2> HIDE DEF p
  <2>6. p \in Patches
    BY <1>1, <2>3, <2>4, <2>5, PatchType
  <2>7. /\ "named" \notin DOMAIN p /\ "national" \notin DOMAIN p /\ "complete" \notin DOMAIN p
        /\ "lastSent" \notin DOMAIN p /\ "sent" \notin DOMAIN p
        /\ "code" \notin DOMAIN p /\ "expiry" \notin DOMAIN p
        /\ "verified" \in DOMAIN p => p["verified"] = now
    BY <1>1, <2>3, <2>4, <2>5, PatchPath, PathNames
  <2>8. Shape("login", "save", None, p)
    BY <2>7 DEF Shape
  <2>9. RegistrationAfter(m, p) /\ CodeAfter(m, "login", p)
    BY <1>1, <2>7 DEF RegistrationAfter, CodeAfter
  <2>10. Ready(m, "login", "save", None, p)
    BY <1>1, <2>6, <2>8, <2>9 DEF Ready, Kinds
  <2> QED
    BY <2>10 DEF p, e
<1> QED
  BY <1>3, <1>4

LEMMA ConfirmReady ==
  ASSUME IInv, NEW m \in Users, Enterable(users[m])
  PROVE  Ready(m, "confirm", "save", None,
               Patch(users[m], Cleared(LoggedIn(users[m])), {"refresh"}))
<1> DEFINE d == users[m]
           x == now + RefreshLife
           e == Cleared(LoggedIn(d))
           p == Patch(d, e, {"refresh"})
<1>1. /\ d \in UserRecords /\ d.live /\ d.code # 0 /\ d.expiry # 0
      /\ \E s \in sent[m] : now <= s + CodeLife
      /\ now \in Nat
  BY Types, EnteredCode
<1>2. x \in Nat
  BY <1>1, Constants
<1>3. e = [d EXCEPT !.refresh = x, !.attempts = 0, !.code = 0, !.expiry = 0]
  BY <1>1 DEF Cleared, LoggedIn, UserRecords
<1> HIDE DEF x, e
<1>4. /\ e \in UserRecords /\ e.id = d.id /\ e.live = d.live /\ e.named = d.named
      /\ e.national = d.national /\ e.complete = d.complete /\ e.code = 0
      /\ e.expiry = 0 /\ e.attempts = 0 /\ e.verified = d.verified
      /\ e.lastSent = d.lastSent /\ e.sent = d.sent /\ e.refresh = x
  BY <1>1, <1>2, <1>3 DEF UserRecords
<1>5. p = Patch(d, e, {"refresh"}) /\ {"refresh"} \in SUBSET Paths
  BY PathNames
<1> HIDE DEF p
<1>6. p \in Patches
  BY <1>1, <1>4, <1>5, PatchType
<1>7. /\ "named" \notin DOMAIN p /\ "national" \notin DOMAIN p /\ "complete" \notin DOMAIN p
      /\ "lastSent" \notin DOMAIN p /\ "sent" \notin DOMAIN p /\ "verified" \notin DOMAIN p
      /\ "code" \in DOMAIN p /\ "expiry" \in DOMAIN p /\ p["code"] = 0 /\ p["expiry"] = 0
  BY <1>1, <1>4, <1>5, PatchPath, PathNames
<1>8. Shape("confirm", "save", None, p)
  BY <1>7 DEF Shape
<1>9. RegistrationAfter(m, p) /\ CodeAfter(m, "confirm", p)
  BY <1>1, <1>7 DEF RegistrationAfter, CodeAfter
<1>10. Ready(m, "confirm", "save", None, p)
  BY <1>1, <1>6, <1>8, <1>9 DEF Ready, Kinds
<1> QED
  BY <1>10 DEF p, e

\* and for whoever registers: with the code, or with the verification of one.
LEMMA VerifiedCode ==
  ASSUME IInv, NEW m \in Users, users[m].live, RecentlyVerified(users[m])
  PROVE  \E s \in sent[m] : now < s + CodeLife + VerifyLife
<1>1. /\ users[m].verified # 0 /\ now - users[m].verified < VerifyLife /\ users[m].verified \in Nat
      /\ now \in Nat /\ sent[m] \subseteq 1..now /\ CodeInv(m)
  BY Types DEF RecentlyVerified
<1>2. PICK s \in sent[m] : users[m].verified <= s + CodeLife
  BY <1>1 DEF CodeInv
<1>3. s \in 1..now
  BY <1>1, <1>2
<1>4. now < s + CodeLife + VerifyLife
  BY <1>1, <1>2, <1>3, Constants
<1> QED
  BY <1>2, <1>4

LEMMA RegisterReady ==
  ASSUME IInv, NEW m \in Users, NEW n \in Ids, users[m].live,
         users[m].national \in {None, n},
         \E s \in sent[m] : now < s + CodeLife + VerifyLife
  PROVE  Ready(m, "register", "unique", n,
               Patch(users[m], Registered(users[m], n), {"verified"}))
<1> DEFINE d == users[m]
           e == Registered(d, n)
           p == Patch(d, e, {"verified"})
<1>1. /\ d \in UserRecords /\ d.live /\ sent[m] \subseteq 1..now /\ now \in Nat /\ CodeInv(m)
      /\ d.code \in Nat /\ d.expiry \in Nat /\ d.named \in BOOLEAN
  BY Types
<1>2. e = [d EXCEPT !.code = 0, !.expiry = 0, !.named = TRUE, !.national = n, !.complete = TRUE,
                    !.verified = 0, !.attempts = 0]
  BY <1>1 DEF Registered, Cleared, UserRecords
<1>3. d.code = 0 <=> d.expiry = 0
  <2>1. CASE d.code = 0 /\ d.expiry = 0
    BY <2>1
  <2>2. CASE d.code \in sent[m] /\ d.expiry = d.code + CodeLife
    <3>1. d.code \in 1..now
      BY <1>1, <2>2
    <3> QED
      BY <1>1, <2>2, <3>1, Constants
  <2> QED
    BY <1>1, <2>1, <2>2 DEF CodeInv
<1> HIDE DEF e
<1>4. /\ e \in UserRecords /\ e.id = d.id /\ e.live = d.live /\ e.named = TRUE
      /\ e.national = n /\ e.complete = TRUE /\ e.code = 0
      /\ e.expiry = 0 /\ e.attempts = 0 /\ e.verified = 0
      /\ e.lastSent = d.lastSent /\ e.sent = d.sent /\ e.refresh = d.refresh
  BY <1>1, <1>2 DEF UserRecords
<1>5. p = Patch(d, e, {"verified"}) /\ {"verified"} \in SUBSET Paths
  BY PathNames
<1> HIDE DEF p
<1>6. p \in Patches
  BY <1>1, <1>4, <1>5, PatchType
<1>7. /\ "national" \in DOMAIN p <=> n # d.national
      /\ "national" \in DOMAIN p => p["national"] = n
      /\ "named" \in DOMAIN p \/ e.named = d.named
  BY <1>1, <1>4, <1>5, PatchPath, PathNames
<1>8. /\ "lastSent" \notin DOMAIN p /\ "sent" \notin DOMAIN p /\ "refresh" \notin DOMAIN p
      /\ "code" \in DOMAIN p <=> d.code # 0
      /\ "expiry" \in DOMAIN p <=> d.expiry # 0
      /\ "code" \in DOMAIN p => p["code"] = 0
      /\ "expiry" \in DOMAIN p => p["expiry"] = 0
      /\ "verified" \in DOMAIN p => p["verified"] = 0
  BY <1>1, <1>4, <1>5, PatchPath, PathNames
<1>9. Shape("register", "unique", n, p)
  BY <1>3, <1>7, <1>8 DEF Shape
<1>10. "national" \in DOMAIN p \/ d.national # None
  BY <1>7, Constants
<1>11. "national" \in DOMAIN p => d.national \in {None, p["national"]}
  BY <1>7
<1>12. "named" \in DOMAIN p \/ d.named
  BY <1>1, <1>4, <1>7
<1>13. RegistrationAfter(m, p)
  BY <1>10, <1>11, <1>12 DEF RegistrationAfter
<1>14. CodeAfter(m, "register", p)
  BY <1>8 DEF CodeAfter
<1>15. Ready(m, "register", "unique", n, p)
  BY <1>1, <1>6, <1>8, <1>9, <1>13, <1>14 DEF Ready, Kinds
<1> QED
  BY <1>15 DEF p, e

LEMMA LogoutReady ==
  ASSUME IInv, NEW m \in Users, users[m].live
  PROVE  Ready(m, "logout", "revoke", None,
               Patch(users[m], [users[m] EXCEPT !.refresh = 0], {}))
<1> DEFINE d == users[m]
           e == [d EXCEPT !.refresh = 0]
           p == Patch(d, e, {})
<1>1. d \in UserRecords /\ d.live
  BY Types
<1>2. /\ e \in UserRecords /\ e.id = d.id /\ e.live = d.live /\ e.named = d.named
      /\ e.national = d.national /\ e.complete = d.complete /\ e.code = d.code
      /\ e.expiry = d.expiry /\ e.attempts = d.attempts /\ e.verified = d.verified
      /\ e.lastSent = d.lastSent /\ e.sent = d.sent /\ e.refresh = 0
  BY <1>1 DEF UserRecords
<1>3. p = Patch(d, e, {}) /\ {} \in SUBSET Paths
  OBVIOUS
<1> HIDE DEF e, p
<1>4. p \in Patches
  BY <1>1, <1>2, <1>3, PatchType
<1>5. /\ "named" \notin DOMAIN p /\ "national" \notin DOMAIN p /\ "complete" \notin DOMAIN p
      /\ "lastSent" \notin DOMAIN p /\ "sent" \notin DOMAIN p /\ "verified" \notin DOMAIN p
      /\ "code" \notin DOMAIN p /\ "expiry" \notin DOMAIN p /\ "attempts" \notin DOMAIN p
      /\ "refresh" \in DOMAIN p => p["refresh"] = 0
  BY <1>1, <1>2, <1>3, PatchPath, PathNames
<1>6. Shape("logout", "revoke", None, p)
  BY <1>5 DEF Shape
<1>7. RegistrationAfter(m, p) /\ CodeAfter(m, "logout", p)
  BY <1>5 DEF RegistrationAfter, CodeAfter
<1>8. Ready(m, "logout", "revoke", None, p)
  BY <1>1, <1>4, <1>6, <1>7 DEF Ready, Kinds
<1> QED
  BY <1>8 DEF p, e

\* A call for a number that has no document yet saves nothing as it stands.
LEMMA CreateReady ==
  ASSUME NEW m
  PROVE  Ready(m, "send", "create", None, NoPatch)
<1> DEFINE p == NoPatch
<1>1. DOMAIN p = {} /\ p \in [{} -> {TRUE} \cup Ids \cup Nat]
  BY DEF NoPatch
<1> HIDE DEF p
<1>2. p \in Patches
  BY <1>1, PatchIntro
<1>3. Shape("send", "create", None, p)
  BY <1>1 DEF Shape
<1>4. Ready(m, "send", "create", None, p)
  BY <1>2, <1>3 DEF Ready, Kinds
<1> QED
  BY <1>4 DEF p

-----------------------------------------------------------------------------
\* Every step in which a call starts is of this form.
LEMMA StartSteps ==
  ASSUME IInv, NEW c \in Calls, NEW m \in Users,
         \/ SendCode(c, m) \/ SendOtp(c, m) \/ SendOtpNew(c, m)
         \/ VerifyOtp(c, m) \/ Confirm(c, m) \/ Logout(c, m)
         \/ \E n \in Ids : Register(c, m, n)
  PROVE  Starts(c, m)
<1>1. ASSUME NEW window \in {OtpWindow, CodeWindow}, MaySend(users[m], window),
             Start(c, m, "send", "save", NewCode(users[m], window)), UNCHANGED wrong
      PROVE  Starts(c, m)
  BY <1>1, SendReady DEF Starts, Start
<1>2. ASSUME Spent(c, m, users[m]), Enterable(users[m])
      PROVE  Starts(c, m)
  BY <1>2, SpentReady DEF Starts, Start, Spent
<1>3. ASSUME NEW limit \in Nat, limit <= VerifyLimit, Enterable(users[m]),
             Wrong(c, m, users[m], limit)
      PROVE  Starts(c, m)
  <2>1. Ready(m, "wrong", "save", None,
              Patch(users[m], [users[m] EXCEPT !.attempts = @ + 1], {}))
    BY <1>3, WrongReady DEF Wrong
  <2>2. wrong' = [wrong EXCEPT ![m] = @ + 1]
    BY <1>3 DEF Wrong, Entered
  <2> QED
    BY <1>3, <2>1, <2>2 DEF Starts, Start, Wrong
<1>4. Entered(m, TRUE) => wrong' = wrong
  BY DEF Entered, IInv, TypeOK
<1>5. VerifyLimit \in Nat /\ ConfirmLimit \in Nat /\ ConfirmLimit <= VerifyLimit
  BY Constants
<1>6. CASE SendCode(c, m) \/ SendOtp(c, m)
  BY <1>1, <1>6 DEF SendCode, SendOtp
<1>7. CASE SendOtpNew(c, m)
  BY <1>7, CreateReady DEF SendOtpNew, Starts, Start
<1>8. CASE VerifyOtp(c, m)
  <2>1. Enterable(users[m])
    BY <1>8 DEF VerifyOtp
  <2>2. CASE Spent(c, m, users[m]) \/ Wrong(c, m, users[m], VerifyLimit)
    BY <1>2, <1>3, <1>5, <2>1, <2>2
  <2>3. CASE /\ Start(c, m, "login", "save", Patch(users[m], VerifiedUser(users[m]), {"refresh"}))
             /\ Entered(m, TRUE)
    BY <1>4, <2>1, <2>3, LoginReady DEF Starts, Start
  <2> QED
    BY <1>8, <2>2, <2>3 DEF VerifyOtp
<1>9. CASE Confirm(c, m)
  <2>1. Enterable(users[m])
    BY <1>9 DEF Confirm
  <2>2. CASE Wrong(c, m, users[m], ConfirmLimit)
    BY <1>3, <1>5, <2>1, <2>2
  <2>3. CASE /\ Start(c, m, "confirm", "save", Patch(users[m], Cleared(LoggedIn(users[m])), {"refresh"}))
             /\ Entered(m, TRUE)
    BY <1>4, <2>1, <2>3, ConfirmReady DEF Starts, Start
  <2> QED
    BY <1>9, <2>2, <2>3 DEF Confirm
<1>10. CASE Logout(c, m)
  BY <1>10, LogoutReady DEF Logout, Starts, Start
<1>11. ASSUME NEW n \in Ids, Register(c, m, n)
       PROVE  Starts(c, m)
  <2> DEFINE proceed ==
        /\ users[m].national \in {None, n}
        /\ StartFor(c, m, "register", "unique",
                    Patch(users[m], Registered(users[m], n), {"verified"}), n)
  <2>1. ASSUME proceed, users[m].live, wrong' = wrong,
               \E s \in sent[m] : now < s + CodeLife + VerifyLife
        PROVE  Starts(c, m)
    BY <2>1, RegisterReady DEF Starts
  <2> HIDE DEF proceed
  <2>2. CASE users[m].live /\ RecentlyVerified(users[m]) /\ proceed /\ UNCHANGED wrong
    BY <2>1, <2>2, VerifiedCode
  <2>3. CASE Enterable(users[m]) /\ (Spent(c, m, users[m]) \/ Wrong(c, m, users[m], VerifyLimit))
    BY <1>2, <1>3, <1>5, <2>3
  <2>4. CASE Enterable(users[m]) /\ proceed /\ Entered(m, TRUE)
    BY <1>4, <2>1, <2>4, EnteredCode
  <2> QED
    BY <1>11, <2>2, <2>3, <2>4 DEF Register, proceed
<1> QED
  BY <1>6, <1>7, <1>8, <1>9, <1>10, <1>11

-----------------------------------------------------------------------------
(* Steps that leave what others rest on alone.                             *)

LEMMA CallTypes ==
  ASSUME TypeOK, NEW c \in Calls, ~Idle(c)
  PROVE  /\ calls[c] \in CallLocals
         /\ calls[c].user \in Users /\ calls[c].id \in Nat /\ calls[c].patch \in Patches
         /\ calls[c].kind \in Kinds /\ calls[c].national \in Ids \cup {None}
         /\ calls[c].at \in {"create", "unique", "revoke", "forget", "save"}
<1>1. calls[c] \in CallLocals
  BY DEF TypeOK, Idle, NoCall
<1> QED
  BY <1>1 DEF CallLocals

\* Nothing of the documents, or of the codes sent, changes.
LEMMA Settled ==
  ASSUME IInv, UNCHANGED <<now, users, sent>>, met \subseteq met'
  PROVE  /\ \A u \in Users : DocumentInv(u)' /\ CodeInv(u)' /\ SendInv(u)'
         /\ SendsWithinLimit' /\ NationalCodesUnique'
<1>1. \A u \in Users : DocumentInv(u) /\ CodeInv(u) /\ SendInv(u)
  BY DEF IInv
<1>2. ASSUME NEW u \in Users
      PROVE  DocumentInv(u)' /\ CodeInv(u)' /\ SendInv(u)'
  BY <1>1 DEF DocumentInv, CodeInv, SendInv, From
<1>3. SendsWithinLimit'
  BY DEF IInv, SendsWithinLimit
<1>4. NationalCodesUnique'
  BY DEF IInv, NationalCodesUnique
<1> QED
  BY <1>2, <1>3, <1>4

\* ... nor does a call, what it found, or the count of entries it goes by.
LEMMA CallSettled ==
  ASSUME IInv, NEW e \in Calls, ~Idle(e), calls'[e] = calls[e],
         now' = now, met \subseteq met',
         users'[calls[e].user] = users[calls[e].user], sent'[calls[e].user] = sent[calls[e].user],
         alone'[calls[e].user] => alone[calls[e].user] /\ wrong'[calls[e].user] = wrong[calls[e].user]
  PROVE  ShapeInv(e)' /\ AfterInv(e)'
<1> DEFINE m == calls[e].user
           k == calls[e].kind
           p == calls[e].patch
<1>1. ShapeInv(e) /\ AfterInv(e)
  BY DEF IInv
<1>2. ShapeInv(e)'
  BY <1>1 DEF ShapeInv, Shape
<1>3. Saves(e)' = Saves(e)
  BY DEF Saves
<1>4. RegistrationAfter(m, p) => RegistrationAfter(m, p)'
  BY DEF RegistrationAfter
<1>5. CodeAfter(m, k, p) => CodeAfter(m, k, p)'
  BY DEF CodeAfter
<1>6. SendAfter(m, p) => SendAfter(m, p)'
  BY DEF SendAfter
<1>7. EntryAfter(m, k, p) => EntryAfter(m, k, p)'
  BY DEF EntryAfter
<1>8. AfterInv(e)'
  BY <1>1, <1>3, <1>4, <1>5, <1>6, <1>7 DEF AfterInv
<1> QED
  BY <1>2, <1>8

\* The count of the entries on a number nothing happens to.
LEMMA EntriesSettled ==
  ASSUME IInv, NEW u \in Users, users'[u] = users[u], alone'[u] => alone[u], wrong'[u] = wrong[u],
         \A e \in Calls :
           \/ calls'[e] = calls[e]
           \/ /\ Idle(e) \/ calls[e].user # u \/ calls[e].kind # "wrong" \/ ~Saves(e)
              /\ calls'[e] = NoCall \/ calls'[e].user # u \/ e \in Running(u)
  PROVE  EntryInv(u)'
<1>1. SUFFICES ASSUME alone'[u]
               PROVE  /\ wrong'[u] <= VerifyLimit
                      /\ users'[u].live /\ users'[u].code # 0 => wrong'[u] <= users'[u].attempts \/ Pending(u)'
                      /\ \A c, e \in Running(u)' : c = e
  BY DEF EntryInv
<1>2. /\ wrong[u] <= VerifyLimit
      /\ users[u].live /\ users[u].code # 0 => wrong[u] <= users[u].attempts \/ Pending(u)
      /\ \A c, e \in Running(u) : c = e
  BY <1>1 DEF IInv, EntryInv
<1>3. Running(u)' \subseteq Running(u)
  BY DEF Running, Idle, NoCall
<1>4. Pending(u) => Pending(u)'
  BY DEF Pending, Idle, Saves
<1> QED
  BY <1>2, <1>3, <1>4

-----------------------------------------------------------------------------
\* A call starts.
LEMMA StartsKeep ==
  ASSUME IInv, NEW c \in Calls, NEW m \in Users, Starts(c, m)
  PROVE  IInv'
<1>1. PICK k, at, n, p : /\ StartFor(c, m, k, at, p, n) /\ Ready(m, k, at, n, p)
                         /\ wrong' = IF k = "wrong" THEN [wrong EXCEPT ![m] = @ + 1] ELSE wrong
  BY DEF Starts
<1> DEFINE r == [at |-> at, kind |-> k, user |-> m, id |-> users[m].id, national |-> n, patch |-> p]
<1>2. /\ Idle(c) /\ calls' = [calls EXCEPT ![c] = r]
      /\ alone' = [alone EXCEPT ![m] = @ /\ Running(m) = {}]
      /\ met' = IF k = "register" THEN met \cup {{m, calls[o].user} : o \in Registering} ELSE met
      /\ UNCHANGED <<now, users, session, sent>>
  BY <1>1 DEF StartFor
<1>3. /\ k \in Kinds \ {"welcome"} /\ at \in {"create", "unique", "revoke", "save"}
      /\ k = "register" => at = "unique"
      /\ n \in Ids \cup {None} /\ p \in Patches /\ Shape(k, at, n, p)
      /\ at # "create" =>
           /\ users[m].live
           /\ RegistrationAfter(m, p) /\ CodeAfter(m, k, p)
           /\ k = "send" => SendAfter(m, p)
           /\ k = "register" => "code" \in DOMAIN p \/ users[m].code = 0
           /\ k = "wrong" => /\ "attempts" \in DOMAIN p /\ p["attempts"] = users[m].attempts + 1
                             /\ users[m].code # 0 /\ users[m].attempts < VerifyLimit
  BY <1>1 DEF Ready
<1>4. /\ r.at = at /\ r.kind = k /\ r.user = m /\ r.id = users[m].id /\ r.national = n /\ r.patch = p
      /\ r.at # "idle"
  BY <1>3
<1>5. r \in CallLocals
  BY <1>3, Types DEF CallLocals
<1> HIDE DEF r
<1>6. TypeOK
  BY DEF IInv
<1>7. calls'[c] = r /\ \A e \in Calls \ {c} : calls'[e] = calls[e]
  BY <1>2, <1>6 DEF TypeOK
<1>8. wrong' \in [Users -> Nat] /\ \A u \in Users \ {m} : wrong'[u] = wrong[u] /\ alone'[u] = alone[u]
  BY <1>1, <1>2, <1>6 DEF TypeOK
<1>9. wrong'[m] = IF k = "wrong" THEN wrong[m] + 1 ELSE wrong[m]
  BY <1>1, <1>6 DEF TypeOK
<1>10. alone'[m] => alone[m] /\ Running(m) = {}
  BY <1>2, <1>6 DEF TypeOK
<1>11. TypeOK'
  <2>1. calls' \in [Calls -> {NoCall} \cup CallLocals]
    BY <1>2, <1>5, <1>6 DEF TypeOK
  <2>2. alone' \in [Users -> BOOLEAN]
    BY <1>2, <1>6 DEF TypeOK
  <2> QED
    BY <1>2, <1>6, <1>8, <2>1, <2>2 DEF TypeOK
<1>12. met \subseteq met'
  BY <1>2
<1>13. \A u \in Users : DocumentInv(u)' /\ CodeInv(u)' /\ SendInv(u)'
  BY <1>2, <1>12, Settled
<1>14. SendsWithinLimit' /\ NationalCodesUnique'
  BY <1>2, <1>12, Settled
<1>15. ASSUME NEW u \in Users \ {m}
       PROVE  EntryInv(u)'
  BY <1>2, <1>4, <1>7, <1>8, EntriesSettled
<1>16. EntryInv(m)'
  <2>1. SUFFICES ASSUME alone'[m]
                 PROVE  /\ wrong'[m] <= VerifyLimit
                        /\ users'[m].live /\ users'[m].code # 0
                             => wrong'[m] <= users'[m].attempts \/ Pending(m)'
                        /\ \A d, e \in Running(m)' : d = e
    BY DEF EntryInv
  <2>2. alone[m] /\ Running(m) = {}
    BY <1>10, <2>1
  <2>3. ~Pending(m)
    BY <2>2 DEF Pending, Running
  <2>4. /\ wrong[m] <= VerifyLimit /\ wrong[m] \in Nat /\ users[m].attempts \in Nat
        /\ users[m].live /\ users[m].code # 0 => wrong[m] <= users[m].attempts
    BY <2>2, <2>3, Types DEF EntryInv
  <2>5. Running(m)' \subseteq {c}
    BY <1>7, <2>2 DEF Running, Idle
  <2>6. CASE k # "wrong"
    BY <1>2, <1>9, <2>4, <2>5, <2>6
  <2>7. CASE k = "wrong"
    <3>1. at # "create"
      BY <1>3, <2>7 DEF Shape
    <3>2. wrong'[m] <= VerifyLimit
      BY <1>3, <1>9, <2>4, <2>7, <3>1, Constants
    <3>3. Pending(m)'
      BY <1>2, <1>3, <1>4, <1>7, <2>7, <3>1 DEF Pending, Saves, Idle
    <3> QED
      BY <2>5, <3>2, <3>3
  <2> QED
    BY <2>6, <2>7
<1>17. ASSUME NEW e \in Calls, ~Idle(e)'
       PROVE  ShapeInv(e)' /\ AfterInv(e)'
  <2>1. CASE e # c
    <3>1. calls'[e] = calls[e] /\ ~Idle(e)
      BY <1>7, <1>17, <2>1 DEF Idle
    <3>2. calls[e].user \in Users
      BY <1>6, <3>1, CallTypes
    <3>3. calls[e].user = m => ~alone'[m]
      BY <1>10, <3>1 DEF Running
    <3>4. calls[e].user # m => /\ alone'[calls[e].user] = alone[calls[e].user]
                               /\ wrong'[calls[e].user] = wrong[calls[e].user]
      BY <1>8, <3>2
    <3> QED
      BY <1>2, <1>12, <3>1, <3>3, <3>4, CallSettled
  <2>2. CASE e = c
    <3>1. ShapeInv(c)'
      BY <1>3, <1>4, <1>7 DEF ShapeInv
    <3>2. SUFFICES ASSUME at # "create"
                   PROVE  /\ RegistrationAfter(m, p)' /\ CodeAfter(m, k, p)' /\ EntryAfter(m, k, p)'
                          /\ k = "send" => SendAfter(m, p)'
      <4>1. calls'[c].id <= users'[m].id
        BY <1>2, <1>4, <1>7, Types
      <4> QED
        BY <1>4, <1>7, <2>2, <3>1, <3>2, <4>1 DEF AfterInv
    <3>3. RegistrationAfter(m, p)'
      BY <1>2, <1>3, <1>12, <3>2 DEF RegistrationAfter
    <3>4. CodeAfter(m, k, p)'
      BY <1>2, <1>3, <3>2 DEF CodeAfter
    <3>5. k = "send" => SendAfter(m, p)'
      BY <1>2, <1>3, <3>2 DEF SendAfter
    <3>6. EntryAfter(m, k, p)'
      <4>1. SUFFICES ASSUME alone'[m]
                     PROVE  /\ k = "wrong" => "attempts" \in DOMAIN p /\ wrong'[m] <= p["attempts"]
                            /\ k = "register" => "code" \in DOMAIN p \/ users'[m].code = 0
        BY DEF EntryAfter
      <4>2. alone[m] /\ ~Pending(m)
        BY <1>10, <4>1 DEF Pending, Running
      <4>3. k = "wrong" => wrong[m] <= users[m].attempts
        BY <1>3, <3>2, <4>2, Types DEF EntryInv
      <4>4. k = "wrong" => "attempts" \in DOMAIN p /\ wrong'[m] <= p["attempts"]
        BY <1>3, <1>9, <3>2, <4>3, Types
      <4> QED
        BY <1>2, <1>3, <3>2, <4>4
    <3> QED
      BY <3>3, <3>4, <3>5, <3>6
  <2> QED
    BY <2>1, <2>2
<1>18. MeetInv'
  <2>1. ASSUME NEW e \in Registering', e # c
        PROVE  e \in Registering /\ calls'[e] = calls[e]
    BY <1>7, <2>1 DEF Registering, Idle
  <2>2. c \in Registering' => k = "register"
    BY <1>3, <1>4, <1>7 DEF Registering
  <2>3. ASSUME NEW e \in Registering', e # c, c \in Registering'
        PROVE  {m, calls[e].user} \in met'
    BY <1>2, <2>1, <2>2, <2>3
  <2>4. ASSUME NEW d \in Registering', NEW e \in Registering', d # e
        PROVE  {calls'[d].user, calls'[e].user} \in met'
    <3>1. CASE d # c /\ e # c
      BY <1>12, <2>1, <2>4, <3>1 DEF IInv, MeetInv
    <3>2. CASE d = c
      BY <1>4, <1>7, <2>1, <2>3, <2>4, <3>2
    <3>3. CASE e = c
      <4>1. {m, calls[d].user} \in met' /\ calls'[d] = calls[d]
        BY <2>1, <2>3, <2>4, <3>3
      <4>2. {calls[d].user, m} = {m, calls[d].user}
        OBVIOUS
      <4> QED
        BY <1>4, <1>7, <3>3, <4>1, <4>2
    <3> QED
      BY <3>1, <3>2, <3>3
  <2>5. ASSUME NEW e \in Registering', calls'[e].kind = "register", calls'[e].at = "save",
               NEW u \in Users \ {calls'[e].user},
               users'[u].live, users'[u].national = calls'[e].national
        PROVE  {u, calls'[e].user} \in met'
    <3>1. e # c
      BY <1>3, <1>4, <1>7, <2>5
    <3> QED
      BY <1>2, <1>12, <2>1, <2>5, <3>1 DEF IInv, MeetInv
  <2> QED
    BY <2>4, <2>5 DEF MeetInv
<1> QED
  BY <1>11, <1>13, <1>14, <1>15, <1>16, <1>17, <1>18 DEF IInv

\* A call moves on, or ends, and has saved nothing.
LEMMA MovesKeep ==
  ASSUME IInv, NEW c \in Calls, ~Idle(c),
         UNCHANGED <<now, users, sent, wrong, alone, met>>,
         NEW next, calls' = [calls EXCEPT ![c] = next],
         \/ next = NoCall /\ (calls[c].kind # "wrong" \/ ~Saves(c))
         \/ /\ next \in CallLocals /\ calls[c].at # "create" /\ calls[c].kind # "wrong"
            /\ next.kind = calls[c].kind /\ next.user = calls[c].user /\ next.id = calls[c].id
            /\ next.national = calls[c].national /\ next.patch = calls[c].patch
            /\ Shape(next.kind, next.at, next.national, next.patch)
            /\ next.kind = "register" => ~TakenByOther(c)
  PROVE  IInv'
<1>1. TypeOK /\ calls[c] \in CallLocals /\ calls[c].user \in Users
  BY CallTypes DEF IInv
<1>2. calls'[c] = next /\ \A e \in Calls \ {c} : calls'[e] = calls[e]
  BY <1>1 DEF TypeOK
<1>3. TypeOK'
  BY <1>1 DEF TypeOK
<1>4. \A u \in Users : DocumentInv(u)' /\ CodeInv(u)' /\ SendInv(u)'
  BY Settled
<1>5. SendsWithinLimit' /\ NationalCodesUnique'
  BY Settled
<1>6. ASSUME NEW u \in Users
      PROVE  EntryInv(u)'
  BY <1>2, EntriesSettled DEF Running
<1>7. next # NoCall => next \in CallLocals /\ ~Idle(c)' /\ Saves(c)' = Saves(c)
  BY <1>2 DEF Idle, Saves, CallLocals
<1>8. ASSUME NEW e \in Calls, ~Idle(e)'
      PROVE  ShapeInv(e)' /\ AfterInv(e)'
  <2>1. CASE e # c
    <3>1. calls'[e] = calls[e] /\ ~Idle(e)
      BY <1>2, <1>8, <2>1 DEF Idle
    <3> QED
      BY <3>1, CallSettled
  <2>2. CASE e = c
    <3>a. PICK m, k, p : m \in Users /\ m = calls[c].user /\ k = calls[c].kind /\ p = calls[c].patch
      BY <1>1
    <3>1. next # NoCall
      BY <1>2, <1>8, <2>2 DEF Idle, NoCall
    <3>2. /\ next.kind = k /\ next.user = m /\ next.id = calls[c].id /\ next.patch = p
          /\ calls[c].at # "create" /\ Shape(next.kind, next.at, next.national, next.patch)
      BY <3>1, <3>a
    <3>3. ShapeInv(c)'
      BY <1>2, <3>2 DEF ShapeInv
    <3>4. AfterInv(c)
      BY DEF IInv
    <3>5. /\ RegistrationAfter(m, p)' = RegistrationAfter(m, p)
          /\ CodeAfter(m, k, p)' = CodeAfter(m, k, p)
      BY DEF RegistrationAfter, CodeAfter
    <3>6. /\ SendAfter(m, p)' = SendAfter(m, p)
          /\ EntryAfter(m, k, p)' = EntryAfter(m, k, p)
      BY DEF SendAfter, EntryAfter
    <3>7. AfterInv(c)'
      BY <1>2, <1>7, <3>1, <3>2, <3>4, <3>5, <3>6, <3>a DEF AfterInv
    <3> QED
      BY <2>2, <3>3, <3>7
  <2> QED
    BY <2>1, <2>2
<1>9. MeetInv'
  <2>1. ASSUME NEW e \in Registering'
        PROVE  /\ e \in Registering /\ calls'[e].user = calls[e].user
               /\ calls'[e].kind = calls[e].kind /\ calls'[e].national = calls[e].national
    BY <1>2, <2>1 DEF Registering, Idle, NoCall
  <2>2. \A d, e \in Registering' : d # e => {calls'[d].user, calls'[e].user} \in met'
    BY <2>1 DEF IInv, MeetInv
  <2>3. ASSUME NEW e \in Registering', calls'[e].kind = "register", calls'[e].at = "save",
               NEW u \in Users \ {calls'[e].user},
               users'[u].live, users'[u].national = calls'[e].national
        PROVE  {u, calls'[e].user} \in met'
    <3>1. CASE e # c
      BY <1>2, <2>1, <2>3, <3>1 DEF IInv, MeetInv, Registering
    <3>2. CASE e = c
      <4>1. ~TakenByOther(c)
        BY <1>2, <2>3, <3>2 DEF Registering, Idle, NoCall
      <4> QED
        BY <2>1, <2>3, <3>2, <4>1 DEF TakenByOther
    <3> QED
      BY <3>1, <3>2
  <2> QED
    BY <2>2, <2>3 DEF MeetInv
<1> QED
  BY <1>3, <1>4, <1>5, <1>6, <1>8, <1>9 DEF IInv

LEMMA MoveSteps ==
  ASSUME IInv, NEW c \in Calls,
         \/ CreateFails(c) \/ CheckUnique(c) \/ SaveFails(c)
         \/ AddToBlacklist(c) \/ RevokeAllUserTokens(c)
  PROVE  IInv'
<1>1. TypeOK /\ ~Idle(c)
  BY DEF IInv, Idle, CreateFails, CheckUnique, SaveFails, AddToBlacklist, RevokeAllUserTokens
<1>2. calls[c] \in CallLocals /\ ShapeInv(c)
  BY <1>1, CallTypes DEF IInv
<1>3. UNCHANGED <<now, users, sent, wrong, alone, met>>
  BY DEF CreateFails, CheckUnique, SaveFails, AddToBlacklist, RevokeAllUserTokens, history
<1>4. CASE CreateFails(c)
  <2>1. calls[c].kind # "wrong" /\ calls' = [calls EXCEPT ![c] = NoCall]
    BY <1>2, <1>4 DEF CreateFails, ShapeInv, Shape
  <2> QED
    BY <1>1, <1>3, <2>1, MovesKeep
<1>5. CASE SaveFails(c)
  BY <1>1, <1>3, <1>5, MovesKeep DEF SaveFails
<1>6. CASE CheckUnique(c) /\ TakenByOther(c)
  <2>1. calls[c].kind # "wrong" /\ calls' = [calls EXCEPT ![c] = NoCall]
    BY <1>2, <1>6 DEF CheckUnique, ShapeInv, Shape
  <2> QED
    BY <1>1, <1>3, <2>1, MovesKeep
<1>7. ASSUME NEW at \in {"save", "forget"}, calls[c].at # "create", calls[c].kind # "wrong",
             calls' = [calls EXCEPT ![c] = [calls[c] EXCEPT !.at = at]],
             Shape(calls[c].kind, at, calls[c].national, calls[c].patch),
             calls[c].kind = "register" => ~TakenByOther(c)
      PROVE  IInv'
  <2> DEFINE next == [calls[c] EXCEPT !.at = at]
  <2>1. /\ next \in CallLocals /\ next.kind = calls[c].kind /\ next.user = calls[c].user
        /\ next.id = calls[c].id /\ next.national = calls[c].national
        /\ next.patch = calls[c].patch /\ next.at = at
    BY <1>2 DEF CallLocals
  <2>2. calls' = [calls EXCEPT ![c] = next]
    BY <1>7
  <2> HIDE DEF next
  <2> QED
    BY <1>1, <1>3, <1>7, <2>1, <2>2, MovesKeep
<1>8. CASE CheckUnique(c) /\ ~TakenByOther(c)
  <2>1. /\ calls[c].kind = "register" /\ calls[c].at = "unique"
        /\ calls' = [calls EXCEPT ![c] = [calls[c] EXCEPT !.at = "save"]]
    BY <1>1, <1>2, <1>8 DEF CheckUnique, ShapeInv, Shape, TypeOK
  <2>2. Shape(calls[c].kind, "save", calls[c].national, calls[c].patch)
    BY <1>2, <2>1 DEF ShapeInv, Shape
  <2> QED
    BY <1>7, <1>8, <2>1, <2>2
<1>9. CASE AddToBlacklist(c)
  <2>1. /\ calls[c].kind = "logout" /\ calls[c].at = "revoke"
        /\ calls' = [calls EXCEPT ![c] = [calls[c] EXCEPT !.at = "forget"]]
    BY <1>1, <1>2, <1>9 DEF AddToBlacklist, ShapeInv, Shape, TypeOK
  <2>2. Shape(calls[c].kind, "forget", calls[c].national, calls[c].patch)
    BY <1>2, <2>1 DEF ShapeInv, Shape
  <2> QED
    BY <1>7, <2>1, <2>2
<1>10. CASE RevokeAllUserTokens(c)
  <2>1. /\ calls[c].kind = "logout" /\ calls[c].at = "forget"
        /\ calls' = [calls EXCEPT ![c] = [calls[c] EXCEPT !.at = "save"]]
    BY <1>1, <1>2, <1>10 DEF RevokeAllUserTokens, ShapeInv, Shape, TypeOK
  <2>2. Shape(calls[c].kind, "save", calls[c].national, calls[c].patch)
    BY <1>2, <2>1 DEF ShapeInv, Shape
  <2> QED
    BY <1>7, <2>1, <2>2
<1> QED
  BY <1>4, <1>5, <1>6, <1>8, <1>9, <1>10

-----------------------------------------------------------------------------
\* A document is made: what held of an earlier one of the number is over.
LEMMA BornFacts ==
  ASSUME IInv, NEW m \in Users, NEW named \in BOOLEAN, Born(m, named)
  PROVE  /\ users' \in [Users -> UserRecords] /\ wrong' \in [Users -> Nat]
         /\ sent' \in [Users -> SUBSET (1..now)]
         /\ \A u \in Users \ {m} : users'[u] = users[u] /\ sent'[u] = sent[u] /\ wrong'[u] = wrong[u]
         /\ users'[m] \in UserRecords /\ users'[m].id = users[m].id + 1 /\ users'[m].live
         /\ users'[m].complete = FALSE /\ users'[m].national = None
         /\ users'[m].code = 0 /\ users'[m].expiry = 0 /\ users'[m].verified = 0
         /\ users'[m].lastSent = 0 /\ users'[m].sent = 0
         /\ sent'[m] = {} /\ wrong'[m] = 0
<1>1. TypeOK /\ users[m].id \in Nat
  BY Types DEF IInv
<1> DEFINE i == users[m].id + 1
           d == [Unborn EXCEPT !.id = i, !.live = TRUE, !.named = named]
<1>2. i \in Nat
  BY <1>1
<1> HIDE DEF i
<1>3. /\ d \in UserRecords /\ d.id = i /\ d.live /\ d.complete = FALSE /\ d.national = None
      /\ d.code = 0 /\ d.expiry = 0 /\ d.verified = 0 /\ d.lastSent = 0 /\ d.sent = 0
  BY <1>2 DEF Unborn, UserRecords
<1>4. users' = [users EXCEPT ![m] = d] /\ sent' = [sent EXCEPT ![m] = {}] /\ wrong' = [wrong EXCEPT ![m] = 0]
  BY DEF Born, i
<1> HIDE DEF d
<1>5. /\ users' \in [Users -> UserRecords] /\ wrong' \in [Users -> Nat]
      /\ users'[m] = d /\ sent'[m] = {} /\ wrong'[m] = 0
      /\ \A u \in Users \ {m} : users'[u] = users[u] /\ sent'[u] = sent[u] /\ wrong'[u] = wrong[u]
  BY <1>1, <1>3, <1>4 DEF TypeOK
<1>6. sent' \in [Users -> SUBSET (1..now)]
  BY <1>1, <1>4 DEF TypeOK
<1> QED
  BY <1>3, <1>5, <1>6 DEF i

LEMMA BornKeeps ==
  ASSUME IInv, NEW m \in Users, NEW named \in BOOLEAN, Born(m, named), UNCHANGED <<now, alone, met>>
  PROVE  /\ \A u \in Users : DocumentInv(u)' /\ CodeInv(u)' /\ SendInv(u)'
         /\ SendsWithinLimit' /\ NationalCodesUnique'
         /\ \A e \in Calls : ~Idle(e) /\ calls'[e] = calls[e] => ShapeInv(e)' /\ AfterInv(e)'
<1>1. /\ \A u \in Users \ {m} : users'[u] = users[u] /\ sent'[u] = sent[u] /\ wrong'[u] = wrong[u]
      /\ users'[m] \in UserRecords /\ users'[m].id = users[m].id + 1 /\ users'[m].live
      /\ users'[m].complete = FALSE /\ users'[m].national = None
      /\ users'[m].code = 0 /\ users'[m].expiry = 0 /\ users'[m].verified = 0
      /\ sent'[m] = {}
  BY BornFacts
<1>2. \A u \in Users : DocumentInv(u) /\ CodeInv(u) /\ SendInv(u)
  BY DEF IInv
<1>3. ASSUME NEW u \in Users \ {m}
      PROVE  DocumentInv(u)' /\ CodeInv(u)' /\ SendInv(u)'
  BY <1>1, <1>2 DEF DocumentInv, CodeInv, SendInv, From
<1>4. DocumentInv(m)' /\ CodeInv(m)' /\ SendInv(m)'
  BY <1>1 DEF DocumentInv, CodeInv, SendInv
<1>5. SendsWithinLimit'
  <2>1. SUFFICES ASSUME NEW u \in Users, NEW t \in sent'[u]
                 PROVE  Cardinality({s \in sent'[u] : t <= s /\ s <= t + OtpWindow}) <= SendLimit
    BY DEF SendsWithinLimit
  <2>2. u # m /\ sent'[u] = sent[u]
    BY <1>1, <2>1
  <2> QED
    BY <2>2 DEF IInv, SendsWithinLimit
<1>6. NationalCodesUnique'
  <2>1. SUFFICES ASSUME NEW u \in Users, NEW v \in Users, u # v, users'[u].live, users'[v].live,
                        users'[u].national = users'[v].national, users'[u].national # None
                 PROVE  {u, v} \in met
    BY DEF NationalCodesUnique
  <2>2. users'[u] = users[u] /\ users'[v] = users[v]
    BY <1>1, <2>1
  <2> QED
    BY <2>1, <2>2 DEF IInv, NationalCodesUnique
<1>7. ASSUME NEW e \in Calls, ~Idle(e), calls'[e] = calls[e]
      PROVE  ShapeInv(e)' /\ AfterInv(e)'
  <2>1. calls[e].user \in Users /\ calls[e].id \in Nat /\ ShapeInv(e) /\ AfterInv(e)
    BY <1>7, CallTypes DEF IInv
  <2>2. CASE calls[e].user # m
    BY <1>1, <1>7, <2>1, <2>2, CallSettled
  <2>3. CASE calls[e].user = m
    <3>1. calls[e].id < users'[m].id
      BY <1>1, <2>1, <2>3, Types DEF AfterInv
    <3>2. calls[e].id <= users'[m].id /\ calls[e].id # users'[m].id
      BY <1>1, <2>1, <3>1, Types
    <3>3. AfterInv(e)'
      BY <1>7, <2>3, <3>2 DEF AfterInv, Saves
    <3>4. ShapeInv(e)'
      BY <1>7, <2>1 DEF ShapeInv, Shape
    <3> QED
      BY <3>3, <3>4
  <2> QED
    BY <2>2, <2>3
<1> QED
  BY <1>3, <1>4, <1>5, <1>6, <1>7

LEMMA AdminCreateKeeps ==
  ASSUME IInv, NEW m \in Users, AdminCreate(m)
  PROVE  IInv'
<1>1. Born(m, TRUE) /\ UNCHANGED <<now, calls, alone, met>>
  BY DEF AdminCreate
<1>2. TypeOK
  BY DEF IInv
<1>3. TypeOK'
  BY <1>1, <1>2, BornFacts DEF TypeOK
<1>4. /\ \A u \in Users : DocumentInv(u)' /\ CodeInv(u)' /\ SendInv(u)'
      /\ SendsWithinLimit' /\ NationalCodesUnique'
      /\ \A e \in Calls : ~Idle(e) => ShapeInv(e)' /\ AfterInv(e)'
  BY <1>1, BornKeeps
<1>5. /\ \A u \in Users \ {m} : users'[u] = users[u] /\ wrong'[u] = wrong[u]
      /\ users'[m].code = 0 /\ users'[m].national = None /\ wrong'[m] = 0
  BY <1>1, BornFacts
<1>6. ASSUME NEW u \in Users \ {m}
      PROVE  EntryInv(u)'
  BY <1>1, <1>5, EntriesSettled
<1>7. EntryInv(m)'
  <2>1. Running(m)' = Running(m)
    BY <1>1 DEF Running, Idle
  <2> QED
    BY <1>1, <1>5, <2>1, Types, Constants DEF EntryInv
<1>8. MeetInv'
  <2>1. \A d, e \in Registering' : d # e => {calls'[d].user, calls'[e].user} \in met'
    BY <1>1 DEF IInv, MeetInv, Registering, Idle
  <2>2. ASSUME NEW e \in Registering', calls'[e].kind = "register", calls'[e].at = "save",
               NEW u \in Users \ {calls'[e].user},
               users'[u].live, users'[u].national = calls'[e].national
        PROVE  {u, calls'[e].user} \in met'
    <3>1. e \in Registering /\ calls'[e] = calls[e] /\ e \in Calls /\ ~Idle(e)
      BY <1>1, <2>2 DEF Registering, Idle
    <3>2. calls[e].national \in Ids
      BY <2>2, <3>1 DEF IInv, ShapeInv, Shape
    <3>3. u # m
      BY <1>5, <2>2, <3>1, <3>2, Constants
    <3> QED
      BY <1>1, <1>5, <2>2, <3>1, <3>3 DEF IInv, MeetInv
  <2> QED
    BY <2>1, <2>2 DEF MeetInv
<1> QED
  BY <1>1, <1>3, <1>4, <1>6, <1>7, <1>8 DEF IInv, Idle

LEMMA CreateKeeps ==
  ASSUME IInv, NEW c \in Calls, Create(c)
  PROVE  IInv'
<1>1. TypeOK /\ ~Idle(c) /\ calls[c].at = "create"
  BY DEF IInv, Idle, Create
<1>2. PICK m \in Users : m = calls[c].user
  BY <1>1, CallTypes
<1>3. calls[c] \in CallLocals /\ calls[c].kind = "send"
  BY <1>1, CallTypes DEF IInv, ShapeInv, Shape
<1>4. Born(m, FALSE) /\ UNCHANGED <<now, alone, met>>
  BY <1>2 DEF Create
<1>a. PICK d, p : d = users'[m] /\ p = NewCode(d, OtpWindow)
  OBVIOUS
<1> DEFINE next == [calls[c] EXCEPT !.at = "save", !.id = d.id, !.patch = p]
<1>5. calls' = [calls EXCEPT ![c] = next]
  BY <1>1, <1>2, <1>3, <1>a DEF Create, TypeOK, CallLocals
<1>6. /\ users' \in [Users -> UserRecords] /\ wrong' \in [Users -> Nat]
      /\ sent' \in [Users -> SUBSET (1..now)]
      /\ \A u \in Users \ {m} : users'[u] = users[u] /\ sent'[u] = sent[u] /\ wrong'[u] = wrong[u]
      /\ d \in UserRecords /\ d.id = users[m].id + 1 /\ d.live
      /\ d.national = None /\ d.code = 0 /\ d.lastSent = 0 /\ d.sent = 0
      /\ sent'[m] = {} /\ wrong'[m] = 0
  BY <1>4, <1>a, BornFacts
<1>7. now \in Nat \ {0} /\ now' = now /\ SentCount(d, OtpWindow) = 0
  BY <1>4, <1>6, Types DEF SentCount, InWindow
<1>8. MaySend(d, OtpWindow)
  BY <1>6, <1>7, Constants DEF MaySend
<1>9. /\ p \in Patches /\ Shape("send", "save", None, p)
      /\ "named" \notin DOMAIN p /\ "national" \notin DOMAIN p
      /\ "complete" \notin DOMAIN p /\ "verified" \notin DOMAIN p
      /\ "code" \in DOMAIN p /\ "lastSent" \in DOMAIN p
      /\ p["code"] = now /\ p["expiry"] = now + CodeLife /\ p["lastSent"] = now
      /\ IF "sent" \in DOMAIN p THEN p["sent"] = 1 ELSE d.sent = 1
  <2>1. OtpWindow \in Nat
    BY Constants
  <2>2. LET n == IF "sent" \in DOMAIN p THEN p["sent"] ELSE d.sent IN n = 0 + 1
    BY <1>6, <1>7, <1>8, <1>a, <2>1, NewCodePatch
  <2> QED
    BY <1>6, <1>7, <1>8, <1>a, <2>1, <2>2, NewCodePatch
<1>10. d.id \in Nat
  BY <1>6, Types
<1>11. /\ next \in CallLocals /\ next.at = "save" /\ next.kind = "send" /\ next.user = m
       /\ next.id = d.id /\ next.patch = p
  BY <1>2, <1>3, <1>9, <1>10 DEF CallLocals
<1>12. next.national = calls[c].national
  BY <1>3 DEF CallLocals
<1> HIDE DEF next
<1>13. calls'[c] = next /\ \A e \in Calls \ {c} : calls'[e] = calls[e]
  BY <1>1, <1>5 DEF TypeOK
<1>14. TypeOK'
  BY <1>1, <1>4, <1>5, <1>6, <1>11 DEF TypeOK
<1>15. /\ \A u \in Users : DocumentInv(u)' /\ CodeInv(u)' /\ SendInv(u)'
       /\ SendsWithinLimit' /\ NationalCodesUnique'
       /\ \A e \in Calls : ~Idle(e) /\ calls'[e] = calls[e] => ShapeInv(e)' /\ AfterInv(e)'
  BY <1>4, BornKeeps
<1>16. ASSUME NEW u \in Users \ {m}
       PROVE  EntryInv(u)'
  BY <1>2, <1>3, <1>4, <1>6, <1>11, <1>13, EntriesSettled
<1>17. EntryInv(m)'
  <2>1. Running(m)' = Running(m)
    BY <1>1, <1>2, <1>11, <1>13 DEF Running, Idle
  <2>2. users'[m].code = 0
    BY <1>6, <1>a
  <2> QED
    BY <1>4, <1>6, <2>1, <2>2, Types, Constants DEF EntryInv
<1>18. ShapeInv(c)'
  BY <1>9, <1>11, <1>13 DEF ShapeInv, Shape
<1>19. AfterInv(c)'
  <2>1. RegistrationAfter(m, p)' /\ CodeAfter(m, "send", p)' /\ EntryAfter(m, "send", p)'
    BY <1>7, <1>9 DEF RegistrationAfter, CodeAfter, EntryAfter
  <2>2. SendAfter(m, p)'
    <3> DEFINE n == IF "sent" \in DOMAIN p THEN p["sent"] ELSE users'[m].sent
    <3>1. n = 1 /\ n <= SendLimit
      BY <1>9, <1>a, Constants
    <3>2. ASSUME NEW t \in sent'[m] \cup {now}, now <= t + OtpWindow
          PROVE  Cardinality({s \in sent'[m] \cup {now} : t <= s}) <= 1
      <4>1. t = now /\ {s \in sent'[m] \cup {now} : t <= s} = {} \cup {now}
        BY <1>6, <1>7
      <4>2. IsFiniteSet({}) /\ Cardinality({}) = 0
        BY FS_EmptySet
      <4>3. Cardinality({} \cup {now}) = IF now \in {} THEN Cardinality({}) ELSE Cardinality({}) + 1
        BY <4>2, FS_AddElement
      <4> QED
        BY <4>1, <4>2, <4>3
    <3> QED
      BY <1>7, <3>1, <3>2 DEF SendAfter
  <2>3. calls'[c].id <= users'[m].id
    BY <1>10, <1>11, <1>13, <1>a
  <2> QED
    BY <1>11, <1>13, <2>1, <2>2, <2>3 DEF AfterInv
<1>20. MeetInv'
  <2>1. ASSUME NEW e \in Registering'
        PROVE  e \in Registering /\ calls'[e] = calls[e] /\ e \in Calls /\ ~Idle(e)
    BY <1>11, <1>13, <2>1 DEF Registering, Idle
  <2>2. \A e, f \in Registering' : e # f => {calls'[e].user, calls'[f].user} \in met'
    BY <1>4, <2>1 DEF IInv, MeetInv
  <2>3. ASSUME NEW e \in Registering', calls'[e].kind = "register", calls'[e].at = "save",
               NEW u \in Users \ {calls'[e].user},
               users'[u].live, users'[u].national = calls'[e].national
        PROVE  {u, calls'[e].user} \in met'
    <3>1. calls[e].national \in Ids
      BY <2>1, <2>3 DEF IInv, ShapeInv, Shape
    <3>2. u # m
      BY <1>6, <2>1, <2>3, <3>1, <1>a, Constants
    <3> QED
      BY <1>4, <1>6, <2>1, <2>3, <3>2 DEF IInv, MeetInv
  <2> QED
    BY <2>2, <2>3 DEF MeetInv
<1>21. ASSUME NEW e \in Calls, ~Idle(e)'
       PROVE  ShapeInv(e)' /\ AfterInv(e)'
  <2>1. CASE e = c
    BY <1>18, <1>19, <2>1
  <2>2. CASE e # c
    BY <1>13, <1>15, <1>21, <2>2 DEF Idle
  <2> QED
    BY <2>1, <2>2
<1> QED
  BY <1>14, <1>15, <1>16, <1>17, <1>20, <1>21 DEF IInv

-----------------------------------------------------------------------------
(* The administrator's other operations, a refresh and the clock.          *)

LEMMA AdminRenameKeeps ==
  ASSUME IInv, NEW m \in Users, AdminRename(m)
  PROVE  IInv'
<1>1. TypeOK /\ users[m] \in UserRecords /\ users[m].live
  BY Types DEF IInv, AdminRename
<1> DEFINE d == [users[m] EXCEPT !.named = TRUE]
<1>2. /\ d \in UserRecords /\ d.id = users[m].id /\ d.live = users[m].live /\ d.named
      /\ d.national = users[m].national /\ d.complete = users[m].complete
      /\ d.code = users[m].code /\ d.expiry = users[m].expiry /\ d.attempts = users[m].attempts
      /\ d.verified = users[m].verified /\ d.lastSent = users[m].lastSent /\ d.sent = users[m].sent
  BY <1>1 DEF UserRecords
<1>3. users' = [users EXCEPT ![m] = d] /\ UNCHANGED <<now, sent, wrong, alone, met, calls>>
  BY <1>1 DEF AdminRename, TypeOK, history
<1> HIDE DEF d
<1>4. users'[m] = d /\ \A u \in Users \ {m} : users'[u] = users[u]
  BY <1>1, <1>3 DEF TypeOK
<1>5. TypeOK'
  BY <1>1, <1>2, <1>3 DEF TypeOK
<1>6. \A u \in Users : DocumentInv(u) /\ CodeInv(u) /\ SendInv(u)
  BY DEF IInv
<1>7. ASSUME NEW u \in Users
      PROVE  DocumentInv(u)' /\ CodeInv(u)' /\ SendInv(u)'
  <2>1. DocumentInv(u)'
    BY <1>2, <1>4, <1>6 DEF DocumentInv
  <2>2. CodeInv(u)'
    BY <1>2, <1>3, <1>4, <1>6 DEF CodeInv
  <2>3. SendInv(u)'
    BY <1>2, <1>3, <1>4, <1>6 DEF SendInv, From
  <2> QED
    BY <2>1, <2>2, <2>3
<1>8. SendsWithinLimit'
  BY <1>3 DEF IInv, SendsWithinLimit
<1>9. NationalCodesUnique'
  <2>1. \A u \in Users : users'[u].live = users[u].live /\ users'[u].national = users[u].national
    BY <1>2, <1>4
  <2> QED
    BY <1>3, <2>1 DEF IInv, NationalCodesUnique
<1>10. ASSUME NEW e \in Calls, ~Idle(e)'
       PROVE  ShapeInv(e)' /\ AfterInv(e)'
  <2>1. ~Idle(e) /\ calls'[e] = calls[e]
    BY <1>3, <1>10 DEF Idle
  <2>2. calls[e].user \in Users /\ ShapeInv(e) /\ AfterInv(e)
    BY <1>1, <2>1, CallTypes DEF IInv
  <2>3. CASE calls[e].user # m
    BY <1>3, <1>4, <2>1, <2>2, <2>3, CallSettled
  <2>4. CASE calls[e].user = m
    <3>1. PICK k, p : k = calls[e].kind /\ p = calls[e].patch
      OBVIOUS
    <3>2. RegistrationAfter(m, p) => RegistrationAfter(m, p)'
      BY <1>2, <1>3, <1>4 DEF RegistrationAfter
    <3>3. CodeAfter(m, k, p) => CodeAfter(m, k, p)'
      BY <1>3 DEF CodeAfter
    <3>4. SendAfter(m, p) => SendAfter(m, p)'
      BY <1>2, <1>3, <1>4 DEF SendAfter
    <3>5. EntryAfter(m, k, p) => EntryAfter(m, k, p)'
      BY <1>2, <1>3, <1>4 DEF EntryAfter
    <3>6. Saves(e)' = Saves(e)
      BY <1>2, <1>4, <2>1, <2>4 DEF Saves
    <3>7. calls'[e].id <= users'[m].id
      BY <1>2, <1>4, <2>1, <2>2, <2>4 DEF AfterInv
    <3>8. AfterInv(e)'
      BY <2>1, <2>2, <2>4, <3>1, <3>2, <3>3, <3>4, <3>5, <3>6, <3>7 DEF AfterInv
    <3>9. ShapeInv(e)'
      BY <2>1, <2>2 DEF ShapeInv, Shape
    <3> QED
      BY <3>8, <3>9
  <2> QED
    BY <2>3, <2>4
<1>11. ASSUME NEW u \in Users
       PROVE  EntryInv(u)'
  <2>1. CASE u # m
    BY <1>3, <1>4, <2>1, EntriesSettled
  <2>2. CASE u = m
    <3>1. Running(m)' = Running(m)
      BY <1>3 DEF Running, Idle
    <3>2. Pending(m) => Pending(m)'
      <4>1. ASSUME NEW e \in Calls, calls[e].user = m, Saves(e)
            PROVE  Saves(e)'
        BY <1>2, <1>3, <1>4, <4>1 DEF Saves
      <4> QED
        BY <1>3, <4>1 DEF Pending, Idle
    <3>3. EntryInv(m)
      BY DEF IInv
    <3> QED
      BY <1>2, <1>3, <1>4, <2>2, <3>1, <3>2, <3>3 DEF EntryInv
  <2> QED
    BY <2>1, <2>2
<1>12. MeetInv'
  <2>1. \A u \in Users : users'[u].live = users[u].live /\ users'[u].national = users[u].national
    BY <1>2, <1>4
  <2> QED
    BY <1>3, <2>1 DEF IInv, MeetInv, Registering, Idle
<1> QED
  BY <1>5, <1>7, <1>8, <1>9, <1>10, <1>11, <1>12 DEF IInv

LEMMA AdminDeleteKeeps ==
  ASSUME IInv, NEW m \in Users, AdminDelete(m)
  PROVE  IInv'
<1>1. TypeOK /\ users[m].id \in Nat
  BY Types DEF IInv
<1> DEFINE d == [Unborn EXCEPT !.id = users[m].id]
<1>2. d \in UserRecords /\ d.id = users[m].id /\ ~d.live /\ ~d.complete
  BY <1>1 DEF UserRecords, Unborn
<1>3. users' = [users EXCEPT ![m] = d] /\ UNCHANGED <<now, sent, wrong, alone, met, calls>>
  BY DEF AdminDelete, history
<1> HIDE DEF d
<1>4. users'[m] = d /\ \A u \in Users \ {m} : users'[u] = users[u]
  BY <1>1, <1>3 DEF TypeOK
<1>5. TypeOK'
  BY <1>1, <1>2, <1>3 DEF TypeOK
<1>6. \A u \in Users : DocumentInv(u) /\ CodeInv(u) /\ SendInv(u)
  BY DEF IInv
<1>7. ASSUME NEW u \in Users
      PROVE  DocumentInv(u)' /\ CodeInv(u)' /\ SendInv(u)'
  <2>1. DocumentInv(u)'
    BY <1>2, <1>4, <1>6 DEF DocumentInv
  <2>2. CodeInv(u)'
    BY <1>2, <1>3, <1>4, <1>6 DEF CodeInv
  <2>3. SendInv(u)'
    BY <1>2, <1>3, <1>4, <1>6 DEF SendInv, From
  <2> QED
    BY <2>1, <2>2, <2>3
<1>8. SendsWithinLimit'
  BY <1>3 DEF IInv, SendsWithinLimit
<1>9. \A u \in Users : users'[u].live => users'[u] = users[u]
  BY <1>2, <1>4
<1>10. NationalCodesUnique'
  BY <1>3, <1>9 DEF IInv, NationalCodesUnique
<1>11. ASSUME NEW e \in Calls, ~Idle(e)'
       PROVE  ShapeInv(e)' /\ AfterInv(e)'
  <2>1. ~Idle(e) /\ calls'[e] = calls[e]
    BY <1>3, <1>11 DEF Idle
  <2>2. calls[e].user \in Users /\ ShapeInv(e) /\ AfterInv(e)
    BY <1>1, <2>1, CallTypes DEF IInv
  <2>3. CASE calls[e].user # m
    BY <1>3, <1>4, <2>1, <2>2, <2>3, CallSettled
  <2>4. CASE calls[e].user = m
    <3>1. ~Saves(e)'
      BY <1>2, <1>4, <2>1, <2>4 DEF Saves
    <3>2. calls'[e].id <= users'[m].id
      BY <1>2, <1>4, <2>1, <2>2, <2>4 DEF AfterInv
    <3>3. AfterInv(e)'
      BY <2>1, <2>4, <3>1, <3>2 DEF AfterInv
    <3>4. ShapeInv(e)'
      BY <2>1, <2>2 DEF ShapeInv, Shape
    <3> QED
      BY <3>3, <3>4
  <2> QED
    BY <2>3, <2>4
<1>12. ASSUME NEW u \in Users
       PROVE  EntryInv(u)'
  <2>1. CASE u # m
    BY <1>3, <1>4, <2>1, EntriesSettled
  <2>2. CASE u = m
    <3>1. Running(m)' = Running(m)
      BY <1>3 DEF Running, Idle
    <3>2. EntryInv(m)
      BY DEF IInv
    <3> QED
      BY <1>2, <1>3, <1>4, <2>2, <3>1, <3>2 DEF EntryInv
  <2> QED
    BY <2>1, <2>2
<1>13. MeetInv'
  BY <1>3, <1>9 DEF IInv, MeetInv, Registering, Idle
<1> QED
  BY <1>5, <1>7, <1>8, <1>10, <1>11, <1>12, <1>13 DEF IInv

\* A step that changes no more than a session keeps the invariant.
LEMMA Quiet ==
  ASSUME IInv, UNCHANGED <<now, users, calls, sent, wrong, alone, met>>
  PROVE  IInv'
<1>1. TypeOK'
  BY DEF IInv, TypeOK
<1>2. \A u \in Users : DocumentInv(u)' /\ CodeInv(u)' /\ SendInv(u)'
  BY Settled
<1>3. SendsWithinLimit' /\ NationalCodesUnique'
  BY Settled
<1>4. ASSUME NEW u \in Users
      PROVE  EntryInv(u)'
  BY EntriesSettled
<1>5. ASSUME NEW e \in Calls, ~Idle(e)'
      PROVE  ShapeInv(e)' /\ AfterInv(e)'
  BY <1>5, CallSettled DEF Idle
<1>6. MeetInv'
  BY DEF IInv, MeetInv, Registering, Idle
<1> QED
  BY <1>1, <1>2, <1>3, <1>4, <1>5, <1>6 DEF IInv

LEMMA TickKeeps ==
  ASSUME IInv, Tick
  PROVE  IInv'
<1>1. /\ \A c \in Calls : Idle(c) /\ Idle(c)'
      /\ now' = now + 1 /\ UNCHANGED <<users, calls, sent, wrong, alone, met>>
  BY DEF Tick, history, Idle
<1>2. TypeOK /\ now \in Nat
  BY DEF IInv, TypeOK
<1>3. TypeOK'
  <2>1. 1..now \subseteq 1..now' /\ now' \in Nat \ {0}
    BY <1>1, <1>2
  <2> QED
    BY <1>1, <1>2, <2>1 DEF TypeOK
<1>4. \A u \in Users : DocumentInv(u) /\ CodeInv(u) /\ SendInv(u) /\ EntryInv(u)
  BY DEF IInv
<1>5. ASSUME NEW u \in Users
      PROVE  DocumentInv(u)' /\ CodeInv(u)' /\ SendInv(u)'
  BY <1>1, <1>4 DEF DocumentInv, CodeInv, SendInv, From
<1>6. ASSUME NEW u \in Users
      PROVE  EntryInv(u)'
  <2>1. Running(u)' = {} /\ ~Pending(u)
    BY <1>1 DEF Running, Pending
  <2> QED
    BY <1>1, <1>4, <2>1 DEF EntryInv
<1>7. SendsWithinLimit' /\ NationalCodesUnique'
  BY <1>1 DEF IInv, SendsWithinLimit, NationalCodesUnique
<1>8. MeetInv'
  BY <1>1 DEF MeetInv, Registering
<1> QED
  BY <1>1, <1>3, <1>5, <1>6, <1>7, <1>8 DEF IInv

-----------------------------------------------------------------------------
(* A save.                                                                 *)

\* What it finds, by the invariant, and what it leaves of the document.
LEMMA SaveFacts ==
  ASSUME IInv, NEW c \in Calls, Save(c),
         NEW m, NEW k, NEW p, m = calls[c].user, k = calls[c].kind, p = calls[c].patch
  PROVE  /\ calls[c] \in CallLocals /\ ~Idle(c) /\ m \in Users /\ p \in Patches /\ k \in Kinds
         /\ calls[c].at = "save" /\ calls[c].id = users[m].id /\ users[m].live
         /\ Shape(k, "save", calls[c].national, p)
         /\ RegistrationAfter(m, p) /\ CodeAfter(m, k, p) /\ EntryAfter(m, k, p)
         /\ k = "send" => SendAfter(m, p)
         /\ users'[m] = Patched(users[m], p)
         /\ \A u \in Users \ {m} : users'[u] = users[u]
         /\ users' \in [Users -> UserRecords]
         /\ now' = now /\ met' = met
<1>1. TypeOK /\ ~Idle(c) /\ calls[c].at = "save" /\ Saves(c) /\ now' = now /\ met' = met
  BY DEF IInv, Save, Idle
<1>2. calls[c] \in CallLocals /\ m \in Users /\ p \in Patches /\ k \in Kinds
  BY <1>1, CallTypes
<1>3. ShapeInv(c) /\ AfterInv(c)
  BY <1>1 DEF IInv
<1>4. Shape(k, "save", calls[c].national, p)
  BY <1>1, <1>3 DEF ShapeInv
<1>5. calls[c].id = users[m].id /\ users[m].live
  BY <1>1 DEF Saves
<1>6. /\ RegistrationAfter(m, p) /\ CodeAfter(m, k, p) /\ EntryAfter(m, k, p)
      /\ k = "send" => SendAfter(m, p)
  BY <1>1, <1>3 DEF AfterInv
<1>7. users[m] \in UserRecords /\ Patched(users[m], p) \in UserRecords
  BY <1>2, Types, PatchedFields
<1>8. users' = [users EXCEPT ![m] = Patched(users[m], p)]
  BY DEF Save
<1>9. /\ users'[m] = Patched(users[m], p) /\ users' \in [Users -> UserRecords]
      /\ \A u \in Users \ {m} : users'[u] = users[u]
  BY <1>1, <1>2, <1>7, <1>8 DEF TypeOK
<1> QED
  BY <1>1, <1>2, <1>4, <1>5, <1>6, <1>9

\* ... and of the counts.
LEMMA SaveCounts ==
  ASSUME IInv, NEW c \in Calls, Save(c),
         NEW m, NEW k, m = calls[c].user, k = calls[c].kind
  PROVE  /\ sent' \in [Users -> SUBSET (1..now)] /\ wrong' \in [Users -> Nat]
         /\ alone' \in [Users -> BOOLEAN]
         /\ sent'[m] = IF k = "send" THEN sent[m] \cup {now} ELSE sent[m]
         /\ wrong'[m] = IF k \in {"send", "login", "confirm"} THEN 0 ELSE wrong[m]
         /\ \A u \in Users \ {m} : sent'[u] = sent[u] /\ wrong'[u] = wrong[u] /\ alone'[u] = alone[u]
<1>1. /\ TypeOK /\ calls[c] \in CallLocals /\ ~Idle(c) /\ m \in Users /\ calls[c].at = "save"
  <2>1. PICK p : p = calls[c].patch
    OBVIOUS
  <2>2. /\ calls[c] \in CallLocals /\ ~Idle(c) /\ m \in Users /\ calls[c].at = "save"
    BY <2>1, SaveFacts
  <2> QED
    BY <2>2 DEF IInv
<1>2. now \in Nat \ {0}
  BY <1>1 DEF TypeOK
<1>3. /\ sent' = IF k = "send" THEN [sent EXCEPT ![m] = @ \cup {now}] ELSE sent
      /\ wrong' = IF k \in {"send", "login", "confirm"} THEN [wrong EXCEPT ![m] = 0] ELSE wrong
      /\ alone' = IF k = "send" /\ Running(m) = {c} THEN [alone EXCEPT ![m] = TRUE] ELSE alone
  BY DEF Save, AfterSave
<1>4. /\ sent' \in [Users -> SUBSET (1..now)]
      /\ sent'[m] = IF k = "send" THEN sent[m] \cup {now} ELSE sent[m]
      /\ \A u \in Users \ {m} : sent'[u] = sent[u]
  BY <1>1, <1>2, <1>3 DEF TypeOK
<1>5. /\ wrong' \in [Users -> Nat]
      /\ wrong'[m] = IF k \in {"send", "login", "confirm"} THEN 0 ELSE wrong[m]
      /\ \A u \in Users \ {m} : wrong'[u] = wrong[u]
  BY <1>1, <1>3 DEF TypeOK
<1>6. alone' \in [Users -> BOOLEAN]
  BY <1>1, <1>3 DEF TypeOK
<1>9. \A u \in Users \ {m} : alone'[u] = alone[u]
  BY <1>1, <1>3 DEF TypeOK
<1> QED
  BY <1>4, <1>5, <1>6, <1>9

\* No call has overlapped with another, or this one sends the code.
LEMMA SaveAlone ==
  ASSUME IInv, NEW c \in Calls, Save(c),
         NEW m, NEW k, m = calls[c].user, k = calls[c].kind, alone'[m]
  PROVE  /\ alone[m] \/ k = "send"
         /\ \A e \in Running(m) : e = c
<1>1. m \in Users /\ ~Idle(c)
  BY SaveFacts
<1>2. CASE k = "send" /\ Running(m) = {c}
  BY <1>2
<1>3. CASE ~(k = "send" /\ Running(m) = {c})
  <2>1. alone' = alone
    BY <1>3 DEF Save, AfterSave
  <2>2. alone[m]
    BY <2>1
  <2>3. \A e \in Running(m) : e = c
    BY <1>1, <2>2, Types DEF EntryInv, Running
  <2> QED
    BY <2>2, <2>3
<1> QED
  BY <1>2, <1>3

\* ... and of the call: a registration goes on to give the user a session.
LEMMA SaveCall ==
  ASSUME IInv, NEW c \in Calls, Save(c),
         NEW m, NEW k, m = calls[c].user, k = calls[c].kind
  PROVE  \E next \in {NoCall} \cup CallLocals :
           /\ calls' = [calls EXCEPT ![c] = next]
           /\ \/ k # "register" /\ next = NoCall
              \/ /\ k = "register" /\ next \in CallLocals
                 /\ next.at = "save" /\ next.kind = "welcome" /\ next.user = m
                 /\ next.id = calls[c].id
                 /\ DOMAIN next.patch = {"refresh"}
<1>1. /\ TypeOK /\ calls[c] \in CallLocals /\ ~Idle(c) /\ m \in Users /\ calls[c].at = "save"
  <2>1. PICK p : p = calls[c].patch
    OBVIOUS
  <2>2. /\ calls[c] \in CallLocals /\ ~Idle(c) /\ m \in Users /\ calls[c].at = "save"
    BY <2>1, SaveFacts
  <2> QED
    BY <2>2 DEF IInv
<1>2. now \in Nat \ {0}
  BY <1>1 DEF TypeOK
<1>3. CASE k # "register"
  BY <1>3 DEF Save, AfterSave
<1>4. CASE k = "register"
  <2> DEFINE x == now + RefreshLife
             p == [refresh |-> x]
             next == [calls[c] EXCEPT !.kind = "welcome", !.patch = p]
  <2>1. x \in Nat
    BY <1>2, Constants
  <2>2. calls' = [calls EXCEPT ![c] = next]
    BY <1>1, <1>4 DEF Save, AfterSave, TypeOK
  <2> HIDE DEF x
  <2>3. DOMAIN p = {"refresh"} /\ p["refresh"] = x /\ p = [f \in {"refresh"} |-> x]
    OBVIOUS
  <2> HIDE DEF p
  <2>4. /\ {"refresh"} \in SUBSET Paths /\ p \in [{"refresh"} -> {TRUE} \cup Ids \cup Nat]
        /\ \A f \in Counts \cap DOMAIN p : p[f] \in Nat
    BY <2>1, <2>3, PathNames
  <2>5. p \in Patches
    BY <2>3, <2>4, PatchIntro
  <2>6. /\ next \in CallLocals /\ next.at = "save" /\ next.kind = "welcome" /\ next.user = m
        /\ next.id = calls[c].id /\ next.patch = p
    BY <1>1, <2>5 DEF CallLocals, Kinds
  <2> HIDE DEF next
  <2> QED
    BY <1>4, <2>2, <2>3, <2>6
<1> QED
  BY <1>3, <1>4

\* The document, its code and its counter after a save.
LEMMA SaveDocument ==
  ASSUME IInv, NEW c \in Calls, Save(c)
  PROVE  \A u \in Users : DocumentInv(u)' /\ CodeInv(u)' /\ SendInv(u)'
<1>1. PICK m, k, p, n : /\ m = calls[c].user /\ k = calls[c].kind /\ p = calls[c].patch
                        /\ n = calls[c].national
  OBVIOUS
<1>2. /\ m \in Users /\ p \in Patches /\ users[m].live /\ Shape(k, "save", n, p)
      /\ RegistrationAfter(m, p) /\ CodeAfter(m, k, p) /\ (k = "send" => SendAfter(m, p))
      /\ users'[m] = Patched(users[m], p) /\ \A u \in Users \ {m} : users'[u] = users[u]
      /\ now' = now
  BY <1>1, SaveFacts
<1>3. /\ sent'[m] = IF k = "send" THEN sent[m] \cup {now} ELSE sent[m]
      /\ \A u \in Users \ {m} : sent'[u] = sent[u]
  BY <1>1, SaveCounts
<1>4. \A u \in Users : DocumentInv(u) /\ CodeInv(u) /\ SendInv(u)
  BY DEF IInv
<1>5. ASSUME NEW u \in Users \ {m}
      PROVE  DocumentInv(u)' /\ CodeInv(u)' /\ SendInv(u)'
  BY <1>2, <1>3, <1>4 DEF DocumentInv, CodeInv, SendInv, From
<1> DEFINE d == users[m]
           e == Patched(d, p)
<1>6. d \in UserRecords /\ now \in Nat \ {0} /\ sent[m] \subseteq 1..now
  BY <1>2, Types
<1>7. /\ e.live = d.live
      /\ e.named = IF "named" \in DOMAIN p THEN TRUE ELSE d.named
      /\ e.national = IF "national" \in DOMAIN p THEN p["national"] ELSE d.national
      /\ e.complete = IF "complete" \in DOMAIN p THEN TRUE ELSE d.complete
      /\ e.code = IF "code" \in DOMAIN p THEN p["code"] ELSE d.code
      /\ e.expiry = IF "expiry" \in DOMAIN p THEN p["expiry"] ELSE d.expiry
      /\ e.verified = IF "verified" \in DOMAIN p THEN p["verified"] ELSE d.verified
      /\ e.lastSent = IF "lastSent" \in DOMAIN p THEN p["lastSent"] ELSE d.lastSent
      /\ e.sent = IF "sent" \in DOMAIN p THEN p["sent"] ELSE d.sent
  BY <1>2, <1>6, PatchedFields
<1>8. /\ users'[m] = e
      /\ "national" \in DOMAIN p => p["national"] \in Ids
  BY <1>2 DEF Patches
<1> HIDE DEF e
<1>9. DocumentInv(m)'
  <2>1. e.complete => e.named /\ e.national # None
    <3>1. CASE "complete" \in DOMAIN p
      BY <1>2, <1>7, <1>8, <3>1, Constants DEF RegistrationAfter
    <3>2. CASE "complete" \notin DOMAIN p
      BY <1>2, <1>4, <1>7, <1>8, <3>2, Constants DEF DocumentInv
    <3> QED
      BY <3>1, <3>2
  <2> QED
    BY <1>2, <1>7, <1>8, <2>1 DEF DocumentInv
<1>10. CodeInv(m)'
  <2>1. sent[m] \subseteq sent'[m] /\ (k = "send" => now \in sent'[m])
    BY <1>3
  <2>2. \/ e.code = 0 /\ e.expiry = 0
        \/ e.code \in sent'[m] /\ e.expiry = e.code + CodeLife
    <3>1. CASE k = "send"
      BY <1>2, <1>7, <2>1, <3>1 DEF CodeAfter, Shape
    <3>2. CASE k # "send" /\ "code" \in DOMAIN p
      BY <1>2, <1>7, <3>2 DEF Shape
    <3>3. CASE k # "send" /\ "code" \notin DOMAIN p
      <4>1. e.code = d.code /\ e.expiry = d.expiry
        BY <1>2, <1>7, <3>3 DEF Shape
      <4> QED
        BY <1>2, <1>4, <2>1, <4>1 DEF CodeInv
    <3> QED
      BY <3>1, <3>2, <3>3
  <2>3. e.verified # 0 => \E s \in sent'[m] : e.verified <= s + CodeLife
    <3>1. CASE "verified" \in DOMAIN p
      <4>1. e.verified # 0 => e.verified = now /\ k = "login"
        BY <1>2, <1>7, <3>1 DEF Shape, CodeAfter
      <4> QED
        BY <1>2, <2>1, <4>1 DEF CodeAfter
    <3>2. CASE "verified" \notin DOMAIN p
      BY <1>2, <1>4, <1>7, <2>1, <3>2 DEF CodeInv
    <3> QED
      BY <3>1, <3>2
  <2> QED
    BY <1>8, <2>2, <2>3 DEF CodeInv
<1>11. SendInv(m)'
  <2>1. CASE k = "send"
    <3>1. sent'[m] = sent[m] \cup {now} /\ e.lastSent = now
      BY <1>2, <1>3, <1>7, <2>1 DEF CodeAfter
    <3>2. \A s \in sent'[m] : s <= e.lastSent
      BY <1>6, <3>1
    <3>3. ASSUME NEW t \in sent'[m], e.lastSent <= t + OtpWindow
          PROVE  Cardinality({s \in sent'[m] : t <= s}) <= e.sent
      BY <1>2, <1>7, <2>1, <3>1, <3>3 DEF SendAfter
    <3> QED
      BY <1>8, <3>2, <3>3 DEF SendInv, From
  <2>2. CASE k # "send"
    <3>1. sent'[m] = sent[m] /\ e.lastSent = d.lastSent /\ e.sent = d.sent
      BY <1>2, <1>3, <1>7, <2>2 DEF Shape
    <3> QED
      BY <1>2, <1>4, <1>8, <3>1 DEF SendInv, From
  <2> QED
    BY <2>1, <2>2
<1> QED
  BY <1>5, <1>9, <1>10, <1>11

\* The limit on the codes sent, over every window.
LEMMA SaveLimit ==
  ASSUME IInv, NEW c \in Calls, Save(c)
  PROVE  SendsWithinLimit'
<1>1. PICK m, k, p, n : /\ m = calls[c].user /\ k = calls[c].kind /\ p = calls[c].patch
                        /\ n = calls[c].national
  OBVIOUS
<1>2. m \in Users /\ (k = "send" => SendAfter(m, p)) /\ users[m].sent \in Nat
  BY <1>1, SaveFacts, Types
<1>3. /\ sent'[m] = IF k = "send" THEN sent[m] \cup {now} ELSE sent[m]
      /\ \A u \in Users \ {m} : sent'[u] = sent[u]
      /\ now \in Nat /\ sent[m] \subseteq 1..now /\ IsFiniteSet(sent[m])
  BY <1>1, <1>2, SaveCounts, Types
<1>4. SUFFICES ASSUME NEW u \in Users, NEW t \in sent'[u]
               PROVE  Cardinality({s \in sent'[u] : t <= s /\ s <= t + OtpWindow}) <= SendLimit
  BY DEF SendsWithinLimit
<1>5. CASE u # m \/ k # "send"
  <2>1. sent'[u] = sent[u]
    BY <1>3, <1>5
  <2> QED
    BY <2>1 DEF IInv, SendsWithinLimit
<1>6. CASE u = m /\ k = "send"
  <2> DEFINE S == {s \in sent'[u] : t <= s /\ s <= t + OtpWindow}
             T == {s \in sent[m] \cup {now} : t <= s}
  <2>1. sent'[u] = sent[m] \cup {now}
    BY <1>3, <1>6
  <2>2. CASE now <= t + OtpWindow
    <3>1. PICK q : q = IF "sent" \in DOMAIN p THEN p["sent"] ELSE users[m].sent
      OBVIOUS
    <3>2. q <= SendLimit /\ Cardinality(T) <= q
      BY <1>2, <1>4, <1>6, <2>1, <2>2, <3>1 DEF SendAfter
    <3>3. S \subseteq T
      BY <2>1
    <3>4. IsFiniteSet(T)
      <4>1. IsFiniteSet(sent[m] \cup {now})
        BY <1>3, FS_AddElement
      <4> QED
        BY <4>1, FS_Subset
    <3>5. Cardinality(S) <= Cardinality(T) /\ IsFiniteSet(S)
      BY <3>3, <3>4, FS_Subset
    <3>6. Cardinality(S) \in Nat /\ Cardinality(T) \in Nat
      BY <3>4, <3>5, FS_CardinalityType
    <3>7. q \in Nat
      <4>1. p \in Patches
        BY <1>1, SaveFacts
      <4>2. "sent" \in DOMAIN p => p["sent"] \in Nat
        BY <4>1 DEF Patches, Counts
      <4> QED
        BY <1>2, <3>1, <4>2
    <3> QED
      BY <3>2, <3>5, <3>6, <3>7, Constants
  <2>3. CASE ~(now <= t + OtpWindow)
    <3>1. t \in sent[m]
      BY <1>3, <1>4, <1>6, <2>1, <2>3, Constants
    <3>2. S = {s \in sent[m] : t <= s /\ s <= t + OtpWindow}
      BY <2>1, <2>3
    <3> QED
      BY <1>2, <3>1, <3>2 DEF IInv, SendsWithinLimit
  <2> QED
    BY <2>2, <2>3
<1> QED
  BY <1>5, <1>6

\* The entries counted: a new code or a right entry begins the count again.
LEMMA SaveEntries ==
  ASSUME IInv, NEW c \in Calls, Save(c), NEW u \in Users
  PROVE  EntryInv(u)'
<1>1. PICK m, k, p, n : /\ m = calls[c].user /\ k = calls[c].kind /\ p = calls[c].patch
                        /\ n = calls[c].national
  OBVIOUS
<1>2. /\ m \in Users /\ p \in Patches /\ users[m].live /\ Shape(k, "save", n, p)
      /\ EntryAfter(m, k, p) /\ k \in Kinds /\ ~Idle(c)
      /\ users'[m] = Patched(users[m], p) /\ \A v \in Users \ {m} : users'[v] = users[v]
  BY <1>1, SaveFacts
<1>3. /\ wrong'[m] = IF k \in {"send", "login", "confirm"} THEN 0 ELSE wrong[m]
      /\ \A v \in Users \ {m} : wrong'[v] = wrong[v] /\ alone'[v] = alone[v]
      /\ alone'[m] => alone[m] \/ k = "send"
      /\ alone'[m] => \A e \in Running(m) : e = c
  <2>1. /\ wrong'[m] = IF k \in {"send", "login", "confirm"} THEN 0 ELSE wrong[m]
        /\ \A v \in Users \ {m} : wrong'[v] = wrong[v] /\ alone'[v] = alone[v]
    BY <1>1, SaveCounts
  <2>2. alone'[m] => alone[m] \/ k = "send"
    BY <1>1, SaveAlone
  <2>3. alone'[m] => \A e \in Running(m) : e = c
    BY <1>1, SaveAlone
  <2> QED
    BY <2>1, <2>2, <2>3
<1>4. PICK next \in {NoCall} \cup CallLocals :
                  /\ calls' = [calls EXCEPT ![c] = next]
                  /\ next = NoCall \/ (next \in CallLocals /\ next.user = m)
  BY <1>1, SaveCall
<1>5. calls'[c] = next /\ \A e \in Calls \ {c} : calls'[e] = calls[e]
  BY <1>4 DEF IInv, TypeOK
<1>6. CASE u # m
  BY <1>1, <1>2, <1>3, <1>4, <1>5, <1>6, EntriesSettled
<1>7. CASE u = m
  <2>1. SUFFICES ASSUME alone'[m]
                 PROVE  /\ wrong'[m] <= VerifyLimit
                        /\ users'[m].live /\ users'[m].code # 0
                             => wrong'[m] <= users'[m].attempts \/ Pending(m)'
                        /\ \A d, e \in Running(m)' : d = e
    BY <1>7 DEF EntryInv
  <2>2. Running(m)' \subseteq Running(m)
    BY <1>1, <1>2, <1>4, <1>5 DEF Running, Idle, NoCall
  <2>3. \A d, e \in Running(m)' : d = e
    BY <1>3, <2>1, <2>2
  <2>4. /\ users[m] \in UserRecords /\ users[m].attempts \in Nat /\ wrong[m] \in Nat /\ EntryInv(m)
        /\ users[m].code \in Nat
    BY <1>2, Types
  <2> DEFINE e == Patched(users[m], p)
  <2>5. /\ e.code = IF "code" \in DOMAIN p THEN p["code"] ELSE users[m].code
        /\ e.attempts = IF "attempts" \in DOMAIN p THEN p["attempts"] ELSE users[m].attempts
        /\ e.attempts \in Nat
    <3>1. e \in UserRecords
      BY <1>2, <2>4, PatchedFields
    <3>2. e.attempts \in Nat
      BY <3>1 DEF UserRecords
    <3> QED
      BY <1>2, <2>4, <3>2, PatchedFields
  <2> HIDE DEF e
  <2>6. users'[m] = e
    BY <1>2 DEF e
  <2>7. CASE k \in {"send", "login", "confirm"}
    <3>1. wrong'[m] = 0 /\ wrong'[m] <= VerifyLimit /\ wrong'[m] <= users'[m].attempts
      BY <1>3, <2>5, <2>6, <2>7, Constants
    <3> QED
      BY <2>3, <3>1
  <2>8. CASE k \notin {"send", "login", "confirm"}
    <3>1. alone[m] /\ wrong'[m] = wrong[m]
      BY <1>3, <2>1, <2>8
    <3>2. wrong[m] <= VerifyLimit
      BY <2>4, <3>1 DEF EntryInv
    <3>3. ASSUME e.code # 0
          PROVE  wrong[m] <= e.attempts
      <4>1. "code" \notin DOMAIN p /\ users[m].code # 0
        BY <1>2, <2>5, <2>8, <3>3 DEF Shape
      <4>2. k # "register"
        BY <1>2, <3>1, <4>1 DEF EntryAfter
      <4>3. CASE k = "wrong"
        BY <1>2, <2>5, <3>1, <4>3 DEF EntryAfter
      <4>4. CASE k # "wrong"
        <5>1. "attempts" \notin DOMAIN p
          BY <1>2, <2>8, <4>2, <4>4 DEF Shape
        <5>2. ~Pending(m)
          BY <1>1, <1>3, <2>1, <4>4 DEF Pending, Running
        <5>3. wrong[m] <= users[m].attempts
          BY <1>2, <2>4, <3>1, <4>1, <5>2 DEF EntryInv
        <5> QED
          BY <2>5, <5>1, <5>3
      <4> QED
        BY <4>3, <4>4
    <3> QED
      BY <2>3, <2>6, <3>1, <3>2, <3>3
  <2> QED
    BY <2>7, <2>8
<1> QED
  BY <1>6, <1>7

\* The other calls on the number: what one of them read is older now, and what it
\* is about to save still fits.
LEMMA SaveCalls ==
  ASSUME IInv, NEW c \in Calls, Save(c), NEW e \in Calls, ~Idle(e)'
  PROVE  ShapeInv(e)' /\ AfterInv(e)'
<1>1. PICK m, k, p, n : /\ m = calls[c].user /\ k = calls[c].kind /\ p = calls[c].patch
                        /\ n = calls[c].national
  OBVIOUS
<1>2. /\ m \in Users /\ p \in Patches /\ users[m].live /\ Shape(k, "save", n, p)
      /\ RegistrationAfter(m, p) /\ CodeAfter(m, k, p) /\ (k = "send" => SendAfter(m, p))
      /\ users'[m] = Patched(users[m], p) /\ \A u \in Users \ {m} : users'[u] = users[u]
      /\ k \in Kinds /\ ~Idle(c) /\ now' = now /\ met' = met /\ calls[c].id = users[m].id
  BY <1>1, SaveFacts
<1>3. /\ sent'[m] = IF k = "send" THEN sent[m] \cup {now} ELSE sent[m]
      /\ \A u \in Users \ {m} : sent'[u] = sent[u] /\ wrong'[u] = wrong[u] /\ alone'[u] = alone[u]
      /\ alone'[m] => \A f \in Running(m) : f = c
  BY <1>1, SaveCounts, SaveAlone
<1>4. PICK next \in {NoCall} \cup CallLocals :
                  /\ calls' = [calls EXCEPT ![c] = next]
                  /\ \/ next = NoCall
                     \/ /\ k = "register" /\ next \in CallLocals
                        /\ next.at = "save" /\ next.kind = "welcome" /\ next.user = m
                        /\ next.id = calls[c].id
                        /\ DOMAIN next.patch = {"refresh"}
  BY <1>1, SaveCall
<1>5. calls'[c] = next /\ \A f \in Calls \ {c} : calls'[f] = calls[f]
  BY <1>4 DEF IInv, TypeOK
<1>6. users[m] \in UserRecords /\ sent[m] \subseteq sent'[m]
  BY <1>2, <1>3, Types
<1>7. PICK d : d = Patched(users[m], p)
  OBVIOUS
<1>8. /\ d.id = users[m].id /\ d.live = users[m].live /\ users'[m] = d
      /\ d.named = IF "named" \in DOMAIN p THEN TRUE ELSE users[m].named
      /\ d.national = IF "national" \in DOMAIN p THEN p["national"] ELSE users[m].national
      /\ d.sent = IF "sent" \in DOMAIN p THEN p["sent"] ELSE users[m].sent
      /\ "national" \in DOMAIN p => p["national"] \in Ids
  <2>1. "national" \in DOMAIN p => p["national"] \in Ids
    BY <1>2 DEF Patches
  <2> QED
    BY <1>2, <1>6, <1>7, <2>1, PatchedFields
<1>9. CASE e = c
  <2>1. /\ k = "register" /\ next.at = "save" /\ next.kind = "welcome" /\ next.user = m
        /\ next.id = users[m].id /\ DOMAIN next.patch = {"refresh"}
    BY <1>2, <1>4, <1>5, <1>9 DEF Idle, NoCall
  <2>2. PICK q : q = next.patch
    OBVIOUS
  <2>3. ShapeInv(c)'
    BY <1>5, <2>1 DEF ShapeInv, Shape
  <2>4. RegistrationAfter(m, q)' /\ EntryAfter(m, "welcome", q)'
    BY <2>1, <2>2 DEF RegistrationAfter, EntryAfter
  <2>5. CodeAfter(m, "welcome", q)'
    BY <1>2, <1>6, <2>1, <2>2 DEF CodeAfter
  <2>6. calls'[c].id <= users'[m].id
    BY <1>2, <1>5, <1>8, <2>1, Types
  <2>7. AfterInv(c)'
    BY <1>5, <2>1, <2>2, <2>4, <2>5, <2>6 DEF AfterInv
  <2> QED
    BY <1>9, <2>3, <2>7
<1>10. CASE e # c
  <2>1. calls'[e] = calls[e] /\ ~Idle(e)
    BY <1>5, <1>10 DEF Idle
  <2>2. calls[e].user \in Users /\ ShapeInv(e) /\ AfterInv(e)
    BY <2>1, CallTypes DEF IInv
  <2>3. CASE calls[e].user # m
    BY <1>2, <1>3, <2>1, <2>2, <2>3, CallSettled
  <2>4. CASE calls[e].user = m
    <3>1. PICK h, q, i : h = calls[e].kind /\ q = calls[e].patch /\ i = calls[e].national
      OBVIOUS
    <3>2. ShapeInv(e)' /\ Shape(h, calls[e].at, i, q)
      BY <2>1, <2>2, <3>1 DEF ShapeInv, Shape
    <3>3. calls'[e].id <= users'[m].id
      BY <1>8, <2>1, <2>2, <2>4 DEF AfterInv
    <3>4. SUFFICES ASSUME calls[e].at # "create", Saves(e)'
                   PROVE  /\ RegistrationAfter(m, q)' /\ CodeAfter(m, h, q)' /\ EntryAfter(m, h, q)'
                          /\ h = "send" => SendAfter(m, q)'
      BY <2>1, <2>4, <3>1, <3>2, <3>3 DEF AfterInv
    <3>5. Saves(e)
      BY <1>8, <2>1, <2>4, <3>4 DEF Saves
    <3>6. RegistrationAfter(m, q) /\ CodeAfter(m, h, q) /\ (h = "send" => SendAfter(m, q))
      BY <2>2, <2>4, <3>1, <3>4, <3>5 DEF AfterInv
    <3>7. RegistrationAfter(m, q)'
      <4>1. "complete" \in DOMAIN q =>
              /\ "national" \in DOMAIN q \/ users'[m].national # None
              /\ "named" \in DOMAIN q \/ users'[m].named
        BY <1>8, <3>6, Constants DEF RegistrationAfter
      <4>2. "national" \in DOMAIN q => users'[m].national \in {None, q["national"]} \/ {m} \in met
        <5>1. CASE "national" \in DOMAIN p /\ "national" \in DOMAIN q
          <6>1. k = "register" /\ h = "register"
            BY <1>2, <3>2, <5>1 DEF Shape
          <6>2. c \in Registering /\ e \in Registering
            BY <1>1, <1>2, <2>1, <3>1, <6>1 DEF Registering
          <6>3. {m, m} \in met
            BY <1>1, <1>10, <2>4, <6>2 DEF IInv, MeetInv
          <6>4. {m, m} = {m}
            OBVIOUS
          <6> QED
            BY <6>3, <6>4
        <5>2. CASE "national" \notin DOMAIN p
          BY <1>8, <3>6, <5>2 DEF RegistrationAfter
        <5> QED
          BY <5>1, <5>2
      <4> QED
        BY <1>2, <4>1, <4>2 DEF RegistrationAfter
    <3>8. CodeAfter(m, h, q)'
      BY <1>2, <1>6, <3>6 DEF CodeAfter
    <3>9. EntryAfter(m, h, q)'
      <4>1. e \in Running(m)
        BY <2>1, <2>4 DEF Running
      <4>2. ~alone'[m]
        BY <1>3, <1>10, <4>1
      <4> QED
        BY <4>2 DEF EntryAfter
    <3>10. ASSUME h = "send"
           PROVE  SendAfter(m, q)'
      <4>1. sent'[m] \cup {now} = sent[m] \cup {now}
        BY <1>3
      <4>2. SendAfter(m, q)
        BY <3>6, <3>10
      <4>3. CASE "sent" \in DOMAIN q \/ d.sent = users[m].sent
        BY <1>2, <1>8, <4>1, <4>2, <4>3 DEF SendAfter
      <4>4. CASE "sent" \notin DOMAIN q /\ d.sent # users[m].sent
        <5>1. "sent" \in DOMAIN p /\ k = "send"
          BY <1>2, <1>8, <4>4 DEF Shape
        <5>2. SendAfter(m, p)
          BY <1>2, <5>1
        <5> QED
          BY <1>2, <1>8, <4>1, <4>4, <5>1, <5>2 DEF SendAfter
      <4> QED
        BY <4>3, <4>4
    <3> QED
      BY <3>7, <3>8, <3>9, <3>10
  <2> QED
    BY <2>3, <2>4
<1> QED
  BY <1>9, <1>10

\* National codes: only a registration writes one, and only the one it asked for.
LEMMA SaveMeets ==
  ASSUME IInv, NEW c \in Calls, Save(c)
  PROVE  NationalCodesUnique' /\ MeetInv'
<1>1. PICK m, k, p, n : /\ m = calls[c].user /\ k = calls[c].kind /\ p = calls[c].patch
                        /\ n = calls[c].national
  OBVIOUS
<1>2. /\ m \in Users /\ p \in Patches /\ users[m].live /\ Shape(k, "save", n, p)
      /\ users'[m] = Patched(users[m], p) /\ \A u \in Users \ {m} : users'[u] = users[u]
      /\ ~Idle(c) /\ met' = met /\ calls[c].at = "save"
  BY <1>1, SaveFacts
<1>3. PICK next \in {NoCall} \cup CallLocals :
                  /\ calls' = [calls EXCEPT ![c] = next]
                  /\ \/ next = NoCall
                     \/ /\ k = "register" /\ next \in CallLocals
                        /\ next.at = "save" /\ next.kind = "welcome" /\ next.user = m
  BY <1>1, SaveCall
<1>4. calls'[c] = next /\ \A f \in Calls \ {c} : calls'[f] = calls[f]
  BY <1>3 DEF IInv, TypeOK
<1>5. /\ users'[m].live = users[m].live
      /\ users'[m].national = IF "national" \in DOMAIN p THEN p["national"] ELSE users[m].national
  <2>1. users[m] \in UserRecords
    BY <1>2, Types
  <2>2. PICK d : d = Patched(users[m], p)
    OBVIOUS
  <2>3. /\ d.live = users[m].live
        /\ d.national = IF "national" \in DOMAIN p THEN p["national"] ELSE users[m].national
    BY <1>2, <2>1, <2>2, PatchedFields
  <2> QED
    BY <1>2, <2>2, <2>3
<1>6. "national" \in DOMAIN p => users'[m].national = n /\ c \in Registering /\ k = "register"
  BY <1>1, <1>2, <1>5 DEF Shape, Registering
<1>7. ASSUME NEW v \in Users \ {m}, users[v].live, users[v].national = users'[m].national
      PROVE  users[v].national = None \/ {m, v} \in met
  <2>1. CASE "national" \in DOMAIN p
    <3>1. {v, m} \in met
      BY <1>1, <1>2, <1>6, <1>7, <2>1 DEF IInv, MeetInv
    <3>2. {v, m} = {m, v}
      OBVIOUS
    <3> QED
      BY <3>1, <3>2
  <2>2. CASE "national" \notin DOMAIN p
    BY <1>2, <1>5, <1>7, <2>2 DEF IInv, NationalCodesUnique
  <2> QED
    BY <2>1, <2>2
<1>8. NationalCodesUnique'
  <2>1. SUFFICES ASSUME NEW u \in Users, NEW v \in Users, u # v, users'[u].live, users'[v].live,
                        users'[u].national = users'[v].national
                 PROVE  users'[u].national = None \/ {u, v} \in met
    BY <1>2 DEF NationalCodesUnique
  <2>2. CASE u # m /\ v # m
    BY <1>2, <2>1, <2>2 DEF IInv, NationalCodesUnique
  <2>3. CASE u = m
    BY <1>2, <1>7, <2>1, <2>3
  <2>4. CASE v = m
    <3>1. users[u].national = None \/ {m, u} \in met
      BY <1>2, <1>7, <2>1, <2>4
    <3>2. {m, u} = {u, v}
      BY <2>4
    <3> QED
      BY <1>2, <2>1, <2>4, <3>1, <3>2
  <2> QED
    BY <2>2, <2>3, <2>4
<1>9. ASSUME NEW e \in Registering'
      PROVE  e \in Registering /\ calls'[e].user = calls[e].user
  BY <1>1, <1>2, <1>3, <1>4, <1>9 DEF Registering, Idle, NoCall
<1>10. \A d, e \in Registering' : d # e => {calls'[d].user, calls'[e].user} \in met'
  BY <1>2, <1>9 DEF IInv, MeetInv
<1>11. ASSUME NEW e \in Registering', calls'[e].kind = "register", calls'[e].at = "save",
              NEW u \in Users \ {calls'[e].user},
              users'[u].live, users'[u].national = calls'[e].national
       PROVE  {u, calls'[e].user} \in met'
  <2>1. e # c
    BY <1>3, <1>4, <1>11 DEF Registering, Idle, NoCall
  <2>2. e \in Registering /\ calls'[e] = calls[e]
    BY <1>4, <1>9, <1>11, <2>1 DEF Registering
  <2>3. CASE users'[u].national = users[u].national /\ users[u].live
    BY <1>2, <1>11, <2>2, <2>3 DEF IInv, MeetInv
  <2>4. CASE ~(users'[u].national = users[u].national /\ users[u].live)
    <3>1. u = m /\ c \in Registering
      BY <1>2, <1>5, <1>6, <1>11, <2>4
    <3>2. {calls[c].user, calls[e].user} \in met
      BY <2>1, <2>2, <3>1 DEF IInv, MeetInv
    <3> QED
      BY <1>1, <1>2, <2>2, <3>1, <3>2
  <2> QED
    BY <2>3, <2>4
<1> QED
  BY <1>8, <1>10, <1>11 DEF MeetInv

LEMMA SaveKeeps ==
  ASSUME IInv, NEW c \in Calls, Save(c)
  PROVE  IInv'
<1>1. TypeOK'
  <2>1. PICK m, k, p : m = calls[c].user /\ k = calls[c].kind /\ p = calls[c].patch
    OBVIOUS
  <2>2. users' \in [Users -> UserRecords] /\ now' = now
    BY <2>1, SaveFacts
  <2>3. /\ sent' \in [Users -> SUBSET (1..now)] /\ wrong' \in [Users -> Nat]
        /\ alone' \in [Users -> BOOLEAN]
    BY <2>1, SaveCounts
  <2>4. calls' \in [Calls -> {NoCall} \cup CallLocals]
    <3>1. PICK next \in {NoCall} \cup CallLocals : calls' = [calls EXCEPT ![c] = next]
      BY <2>1, SaveCall
    <3> QED
      BY <3>1 DEF IInv, TypeOK
  <2> QED
    BY <2>2, <2>3, <2>4 DEF IInv, TypeOK
<1> QED
  BY <1>1, SaveDocument, SaveLimit, SaveEntries, SaveCalls, SaveMeets DEF IInv

-----------------------------------------------------------------------------
LEMMA InitIInv ==
  ASSUME Init
  PROVE  IInv
<1>1. /\ \A m \in Users : /\ users[m] = Unborn /\ sent[m] = {} /\ wrong[m] = 0
      /\ \A c \in Calls : Idle(c)
      /\ now = 1
  BY DEF Init, Idle, NoCall
<1>2. Unborn \in UserRecords /\ ~Unborn.live /\ ~Unborn.complete
  BY DEF Unborn, UserRecords
<1>3. TypeOK
  BY <1>2 DEF Init, TypeOK
<1>4. ASSUME NEW m \in Users
      PROVE  DocumentInv(m) /\ CodeInv(m) /\ SendInv(m) /\ EntryInv(m)
  BY <1>1, <1>2, Constants DEF DocumentInv, CodeInv, SendInv, EntryInv, Running
<1>5. MeetInv
  BY <1>1 DEF MeetInv, Registering
<1>6. SendsWithinLimit /\ NationalCodesUnique
  BY <1>1, <1>2 DEF SendsWithinLimit, NationalCodesUnique
<1> QED
  BY <1>1, <1>3, <1>4, <1>5, <1>6 DEF IInv

LEMMA NextIInv ==
  ASSUME IInv, [Next]_vars
  PROVE  IInv'
<1>1. ASSUME NEW c \in Calls, NEW m \in Users,
             \/ SendCode(c, m) \/ SendOtp(c, m) \/ SendOtpNew(c, m)
             \/ VerifyOtp(c, m) \/ Confirm(c, m) \/ Logout(c, m)
             \/ \E n \in Ids : Register(c, m, n)
      PROVE  IInv'
  BY <1>1, StartSteps, StartsKeep
<1>2. ASSUME NEW c \in Calls,
             \/ CreateFails(c) \/ CheckUnique(c) \/ SaveFails(c)
             \/ AddToBlacklist(c) \/ RevokeAllUserTokens(c)
      PROVE  IInv'
  BY <1>2, MoveSteps
<1>3. ASSUME NEW c \in Calls, Create(c) \/ Save(c)
      PROVE  IInv'
  BY <1>3, CreateKeeps, SaveKeeps
<1>4. ASSUME NEW m \in Users, AdminCreate(m) \/ AdminRename(m) \/ AdminDelete(m)
      PROVE  IInv'
  BY <1>4, AdminCreateKeeps, AdminRenameKeeps, AdminDeleteKeeps
<1>5. ASSUME NEW m \in Users, RefreshAccessToken(m)
      PROVE  IInv'
  BY <1>5, Quiet DEF RefreshAccessToken, history
<1>6. CASE Tick
  BY <1>6, TickKeeps
<1>7. CASE UNCHANGED vars
  BY <1>7, Quiet DEF vars, history
<1> QED
  BY <1>1, <1>2, <1>3, <1>4, <1>5, <1>6, <1>7 DEF Next

\* IInv holds of every reachable state: of documents, of what is about to be
\* written over them, and of what was sent and entered.
THEOREM Invariance == Spec => []IInv
<1>1. Init => IInv
  BY InitIInv
<1>2. IInv /\ [Next]_vars => IInv'
  BY NextIInv
<1> QED
  BY <1>1, <1>2, PTL DEF Spec

\* No window of OtpWindow sees codes sent to a number at more than SendLimit
\* minutes, however sendOtp and sendCode are mixed and raced on its document.
THEOREM SendsHold == Spec => []SendsWithinLimit
<1>1. IInv => SendsWithinLimit
  BY DEF IInv
<1> QED
  BY <1>1, Invariance, PTL

\* As long as no two calls on the number overlap, a code is compared with at most
\* VerifyLimit wrong entries, whichever of the three operations take them.
THEOREM EntriesHold == Spec => []WrongEntriesWithinLimit
<1>1. IInv => WrongEntriesWithinLimit
  BY DEF IInv, EntryInv, WrongEntriesWithinLimit
<1> QED
  BY <1>1, Invariance, PTL

\* Two numbers share a national code only if they registered at the same time.
THEOREM CodesUnique == Spec => []NationalCodesUnique
<1>1. IInv => NationalCodesUnique
  BY DEF IInv
<1> QED
  BY <1>1, Invariance, PTL

-----------------------------------------------------------------------------
(* What a step may never do.                                               *)

\* Only a save writes a session, a national code or a registration, but for the
\* administrator's operations on a document.
LEMMA OnlySaves ==
  ASSUME IInv, [Next]_vars, NEW m \in Users
  PROVE  \/ users'[m] = users[m]
         \/ \E c \in Calls : Save(c) /\ calls[c].user = m
         \/ /\ users'[m].refresh \in {0, users[m].refresh}
            /\ ~users'[m].live \/ ~users[m].complete
               \/ /\ users'[m].complete = users[m].complete
                  /\ users'[m].national = users[m].national
<1>1. users[m] \in UserRecords /\ DocumentInv(m)
  BY Types
<1>2. ASSUME NEW c \in Calls, NEW u \in Users, Starts(c, u)
      PROVE  users' = users
  BY <1>2 DEF Starts, StartFor
<1>3. ASSUME NEW c \in Calls,
             \/ CreateFails(c) \/ CheckUnique(c) \/ SaveFails(c)
             \/ AddToBlacklist(c) \/ RevokeAllUserTokens(c)
      PROVE  users' = users
  BY <1>3 DEF CreateFails, CheckUnique, SaveFails, AddToBlacklist, RevokeAllUserTokens
<1>4. ASSUME NEW u \in Users, NEW named \in BOOLEAN, Born(u, named)
      PROVE  \/ users'[m] = users[m]
             \/ users'[m].refresh \in {0, users[m].refresh} /\ ~users[m].complete
  <2>1. CASE u # m
    BY <1>4, <2>1, BornFacts
  <2>2. CASE u = m
    <3>1. ~users[m].complete
      BY <1>1, <1>4, <2>2 DEF Born, DocumentInv
    <3>2. users'[m] = [Unborn EXCEPT !.id = users[m].id + 1, !.live = TRUE, !.named = named]
      BY <1>4, <2>2 DEF Born, IInv, TypeOK
    <3>3. users'[m].refresh = 0
      BY <3>2 DEF Unborn
    <3> QED
      BY <3>1, <3>3
  <2> QED
    BY <2>1, <2>2
<1>5. ASSUME NEW c \in Calls, Save(c)
      PROVE  users'[m] = users[m] \/ calls[c].user = m
  <2>1. PICK u, k, p : u = calls[c].user /\ k = calls[c].kind /\ p = calls[c].patch
    OBVIOUS
  <2> QED
    BY <1>5, <2>1, SaveFacts
<1>6. ASSUME NEW c \in Calls, Create(c)
      PROVE  \E u \in Users : Born(u, FALSE)
  <2>1. calls[c].user \in Users
    BY <1>6, CallTypes DEF IInv, Create, Idle
  <2> QED
    BY <1>6, <2>1 DEF Create
<1>7. ASSUME NEW u \in Users, AdminRename(u)
      PROVE  \/ users'[m] = users[m]
             \/ /\ users'[m].refresh = users[m].refresh
                /\ users'[m].complete = users[m].complete
                /\ users'[m].national = users[m].national
  BY <1>1, <1>7 DEF AdminRename, IInv, TypeOK, UserRecords
<1>8. ASSUME NEW u \in Users, AdminDelete(u)
      PROVE  users'[m] = users[m] \/ (users'[m].refresh = 0 /\ ~users'[m].live)
  BY <1>1, <1>8 DEF AdminDelete, IInv, TypeOK, UserRecords, Unborn
<1>9. ASSUME \/ \E u \in Users : RefreshAccessToken(u)
             \/ Tick
             \/ UNCHANGED vars
      PROVE  users' = users
  BY <1>9 DEF RefreshAccessToken, Tick, vars
<1>10. ASSUME NEW u \in Users, AdminCreate(u)
       PROVE  Born(u, TRUE)
  BY <1>10 DEF AdminCreate
<1>11. ASSUME NEW c \in Calls, NEW u \in Users,
              \/ SendCode(c, u) \/ SendOtp(c, u) \/ SendOtpNew(c, u)
              \/ VerifyOtp(c, u) \/ Confirm(c, u) \/ Logout(c, u)
              \/ \E n \in Ids : Register(c, u, n)
       PROVE  users' = users
  BY <1>2, <1>11, StartSteps
<1> QED
  BY <1>3, <1>4, <1>5, <1>6, <1>7, <1>8, <1>9, <1>10, <1>11 DEF Next

\* Whoever gets a session had a code sent to the number no longer ago than a code
\* lives and its verification counts.
THEOREM SessionsHold == Spec => SessionsStemFromCodes
<1> DEFINE A == \A m \in Users :
                  users'[m].refresh \notin {0, users[m].refresh} =>
                    \E s \in sent[m] : now < s + CodeLife + VerifyLife
<1>1. ASSUME IInv, [Next]_vars
      PROVE  A
  <2>1. SUFFICES ASSUME NEW m \in Users, users'[m].refresh \notin {0, users[m].refresh}
                 PROVE  \E s \in sent[m] : now < s + CodeLife + VerifyLife
    OBVIOUS
  <2>2. PICK c \in Calls : Save(c) /\ calls[c].user = m
    BY <1>1, <2>1, OnlySaves
  <2>3. PICK k, p, n : k = calls[c].kind /\ p = calls[c].patch /\ n = calls[c].national
    OBVIOUS
  <2>4. /\ p \in Patches /\ Shape(k, "save", n, p) /\ CodeAfter(m, k, p)
        /\ users'[m] = Patched(users[m], p)
    BY <1>1, <2>2, <2>3, SaveFacts
  <2>5. users[m] \in UserRecords /\ now \in Nat /\ sent[m] \subseteq 1..now
    BY <1>1, Types
  <2>6. users'[m].refresh = IF "refresh" \in DOMAIN p THEN p["refresh"] ELSE users[m].refresh
    <3>1. PICK d : d = Patched(users[m], p)
      OBVIOUS
    <3>2. d.refresh = IF "refresh" \in DOMAIN p THEN p["refresh"] ELSE users[m].refresh
      BY <2>4, <2>5, <3>1, PatchedFields
    <3> QED
      BY <2>4, <3>1, <3>2
  <2>7. k \in {"login", "confirm", "welcome"}
    BY <2>1, <2>4, <2>6 DEF Shape
  <2>8. CASE k = "welcome"
    BY <2>4, <2>8 DEF CodeAfter
  <2>9. CASE k \in {"login", "confirm"}
    <3>1. PICK s \in sent[m] : now <= s + CodeLife
      BY <2>4, <2>9 DEF CodeAfter
    <3>2. s \in Nat
      BY <2>5, <3>1
    <3>3. now < s + CodeLife + VerifyLife
      BY <2>5, <3>1, <3>2, Constants
    <3> QED
      BY <3>1, <3>3
  <2> QED
    BY <2>7, <2>8, <2>9
<1>2. Spec => [][A]_vars
  <2>1. IInv /\ [Next]_vars => [A]_vars
    BY <1>1
  <2> QED
    BY <2>1, Invariance, PTL DEF Spec
<1> QED
  BY <1>2 DEF SessionsStemFromCodes

\* A registration that is complete stays so while the document lives, and keeps its
\* national code unless the number was registered twice at the same time.
THEOREM RegistrationHolds == Spec => RegistrationStays
<1> DEFINE A == \A m \in Users :
                  users[m].complete /\ users'[m].live =>
                    users'[m].complete /\ (users'[m].national = users[m].national \/ {m} \in met)
<1>1. ASSUME IInv, [Next]_vars
      PROVE  A
  <2>1. SUFFICES ASSUME NEW m \in Users, users[m].complete, users'[m].live
                 PROVE  users'[m].complete /\ (users'[m].national = users[m].national \/ {m} \in met)
    OBVIOUS
  <2>2. ASSUME NEW c \in Calls, Save(c), calls[c].user = m
        PROVE  users'[m].complete /\ (users'[m].national = users[m].national \/ {m} \in met)
    <3>1. PICK k, p, n : k = calls[c].kind /\ p = calls[c].patch /\ n = calls[c].national
      OBVIOUS
    <3>2. p \in Patches /\ RegistrationAfter(m, p) /\ users'[m] = Patched(users[m], p)
      BY <1>1, <2>2, <3>1, SaveFacts
    <3>3. users[m] \in UserRecords /\ users[m].national # None
      BY <1>1, <2>1, Types DEF DocumentInv
    <3>4. PICK d : d = Patched(users[m], p)
      OBVIOUS
    <3>5. /\ d.complete = IF "complete" \in DOMAIN p THEN TRUE ELSE users[m].complete
          /\ d.national = IF "national" \in DOMAIN p THEN p["national"] ELSE users[m].national
      BY <3>2, <3>3, <3>4, PatchedFields
    <3>6. d.complete
      BY <2>1, <3>5
    <3>7. d.national = users[m].national \/ {m} \in met
      BY <3>2, <3>3, <3>5 DEF RegistrationAfter
    <3> QED
      BY <3>2, <3>4, <3>6, <3>7
  <2> QED
    BY <1>1, <2>1, <2>2, OnlySaves
<1>2. Spec => [][A]_vars
  <2>1. IInv /\ [Next]_vars => [A]_vars
    BY <1>1
  <2> QED
    BY <2>1, Invariance, PTL DEF Spec
<1> QED
  BY <1>2 DEF RegistrationStays
=============================================================================
