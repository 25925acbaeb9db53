------------------------------ MODULE Account ------------------------------
(***************************************************************************)
(* The user documents: one-time codes, registration and sessions           *)
(* (UserService behind AuthController and UserController, with JwtGuard    *)
(* and TokenBlacklistService), in production mode.                         *)
(*                                                                         *)
(* A call reads a user document, decides on what it read, awaits (bcrypt,  *)
(* the uniqueness query, the blacklist) and saves.  mongoose writes only   *)
(* the paths the call changed, so a call is a read that computes a patch   *)
(* and a save that applies it to whatever the document has become.         *)
(*                                                                         *)
(* The clock counts minutes, from 1; 0 stands for a Date that is not set.  *)
(* A call takes far less than a minute: the clock waits for running calls. *)
(***************************************************************************)
EXTENDS Naturals, FiniteSets, TLC

CONSTANTS
  Users,        \* mobile numbers
  Ids,          \* national codes
  None,         \* no national code
  Calls,        \* requests that may be running at once
  SendLimit,    \* codes per window
  VerifyLimit,  \* wrong entries per code in verifyOtp and register
  ConfirmLimit, \* and in confirm
  CodeLife,     \* the code expires after it
  OtpWindow,    \* window of sendOtp's limit
  CodeWindow,   \* window of sendCode's limit
  VerifyLife,   \* register asks for no code this long after a verification
  AccessLife, RefreshLife, \* of the tokens
  MaxClock,     \* bound: the last minute
  MaxCalls,     \* bound: calls ever made
  MaxBirths     \* bound: documents ever made for a number

ASSUME AccountAssumption ==
  /\ None \notin Ids
  /\ {SendLimit, VerifyLimit, ConfirmLimit, CodeLife, OtpWindow, CodeWindow, VerifyLife,
      AccessLife, RefreshLife, MaxClock, MaxCalls, MaxBirths} \subseteq Nat \ {0}
  /\ ConfirmLimit <= VerifyLimit /\ OtpWindow <= CodeWindow

VARIABLES
  now,
  users,   \* User documents, one per number (mobile is unique)
  access,  \* the newest access token of a number: its expiry and whether it has a jti
  listed,  \* numbers whose newest access token is in the blacklist
  calls,   \* locals of the running calls
  started, \* history: calls begun, for the bound
  sent,    \* history: when codes went out for the present document
  wrong,   \* history: wrong entries since the code was made or entered rightly
  alone,   \* history: no two calls on the number have overlapped since its code was made
  met      \* history: pairs of numbers whose registrations overlapped

session == <<access, listed>>
history == <<started, sent, wrong, alone, met>>
vars == <<now, users, session, calls, history>>

Unborn == [id |-> 0, live |-> FALSE, named |-> FALSE, national |-> None, complete |-> FALSE,
           code |-> 0, expiry |-> 0, attempts |-> 0, verified |-> 0,
           lastSent |-> 0, sent |-> 0, refresh |-> 0]
NoToken == [expiry |-> 0, jti |-> FALSE]
NoCall == [at |-> "idle"]
NoPatch == [f \in {} |-> None]

Init ==
  /\ now = 1
  /\ users = [m \in Users |-> Unborn]
  /\ access = [m \in Users |-> NoToken]
  /\ listed = {}
  /\ calls = [c \in Calls |-> NoCall]
  /\ started = 0
  /\ sent = [m \in Users |-> {}]
  /\ wrong = [m \in Users |-> 0]
  /\ alone = [m \in Users |-> TRUE]
  /\ met = {}

-----------------------------------------------------------------------------
Idle(c) == calls[c].at = "idle"
Running(m) == {c \in Calls : ~Idle(c) /\ calls[c].user = m}
Registering == {c \in Calls : ~Idle(c) /\ calls[c].kind \in {"register", "welcome"}}

\* Mutant of Patch: the whole document is written back.
PatchWhole(read, doc, fresh) == doc

\* The paths a save writes: those whose value differs from the one read, and
\* those that get a new value in any case (a hash).
Patch(read, doc, fresh) ==
  [f \in {g \in DOMAIN doc : doc[g] # read[g]} \cup fresh |-> doc[f]]

\* mongoose's save: the paths of the patch, over what the document has become.
Patched(d, p) == [f \in DOMAIN d |-> IF f \in DOMAIN p THEN p[f] ELSE d[f]]

\* A call has read m's document and will save p, after the stage `at`.  A
\* registration also remembers the national code it was asked for.
StartFor(c, m, kind, at, p, n) ==
  /\ Idle(c) /\ started < MaxCalls
  /\ started' = started + 1
  /\ calls' = [calls EXCEPT ![c] =
       [at |-> at, kind |-> kind, user |-> m, id |-> users[m].id, national |-> n, patch |-> p]]
  /\ alone' = [alone EXCEPT ![m] = @ /\ Running(m) = {}]
  /\ met' = IF kind = "register"
            THEN met \cup {{m, calls[o].user} : o \in Registering}
            ELSE met
  /\ UNCHANGED <<now, users, session, sent>>

Start(c, m, kind, at, p) == StartFor(c, m, kind, at, p, None)

-----------------------------------------------------------------------------
\* A document of a number that has none.
Born(m, named) ==
  /\ ~users[m].live /\ users[m].id < MaxBirths
  /\ users' = [users EXCEPT ![m] =
       [Unborn EXCEPT !.id = users[m].id + 1, !.live = TRUE, !.named = named]]
  /\ sent' = [sent EXCEPT ![m] = {}]
  /\ wrong' = [wrong EXCEPT ![m] = 0]

\* The counter starts again once the last code is older than the window.
InWindow(d, window) == d.lastSent # 0 /\ now - d.lastSent <= window

SentCount(d, window) == IF InWindow(d, window) THEN d.sent ELSE 0

\* Mutant of MaySend: one more than the limit.
MaySendOneMore(d, window) ==
  /\ d.live
  /\ SentCount(d, window) <= SendLimit
  /\ d.lastSent # 0 => now > d.lastSent

\* Fewer than the limit, and the last one at least a minute ago.
MaySend(d, window) ==
  /\ d.live
  /\ SentCount(d, window) < SendLimit
  /\ d.lastSent # 0 => now > d.lastSent

\* The code is stored before the message goes out, and stays if that fails.
NewCode(d, window) ==
  Patch(d, [d EXCEPT !.code = now, !.expiry = now + CodeLife, !.attempts = 0,
                     !.lastSent = now, !.sent = SentCount(d, window) + 1],
        {"code", "expiry"})

SendCode(c, m) ==
  /\ MaySend(users[m], CodeWindow)
  /\ Start(c, m, "send", "save", NewCode(users[m], CodeWindow))
  /\ UNCHANGED wrong

SendOtp(c, m) ==
  /\ MaySend(users[m], OtpWindow)
  /\ Start(c, m, "send", "save", NewCode(users[m], OtpWindow))
  /\ UNCHANGED wrong

\* An unknown number: the user is made in a step of its own, and the unique
\* index refuses the second of two (Create is then not enabled).
SendOtpNew(c, m) ==
  /\ ~users[m].live
  /\ Start(c, m, "send", "create", NoPatch)
  /\ UNCHANGED wrong

Create(c) ==
  /\ calls[c].at = "create"
  /\ LET m == calls[c].user IN
     /\ Born(m, FALSE)
     /\ calls' = [calls EXCEPT ![c].at = "save", ![c].id = users'[m].id,
                               ![c].patch = NewCode(users'[m], OtpWindow)]
  /\ UNCHANGED <<now, session, started, alone, met>>

\* Another call, or the administrator, made the user first (or the bound is met).
CreateFails(c) ==
  /\ calls[c].at = "create"
  /\ users[calls[c].user].live \/ users[calls[c].user].id = MaxBirths
  /\ calls' = [calls EXCEPT ![c] = NoCall]
  /\ UNCHANGED <<now, users, session, history>>

-----------------------------------------------------------------------------
\* There is a code to compare with, and it has not expired.
Enterable(d) == d.live /\ d.code # 0 /\ now <= d.expiry

Cleared(d) == [d EXCEPT !.code = 0, !.expiry = 0]

Entered(m, right) == wrong' = [wrong EXCEPT ![m] = IF right THEN @ ELSE @ + 1]

\* Too many wrong entries: verifyOtp and register take the code away.
Spent(c, m, d) ==
  /\ d.attempts >= VerifyLimit
  /\ Start(c, m, "spent", "save", Patch(d, Cleared(d), {}))
  /\ UNCHANGED wrong

\* Mutant of Wrong: the attempt is compared and not counted.
WrongUncounted(c, m, d, limit) ==
  /\ d.attempts < limit
  /\ Start(c, m, "wrong", "save", NoPatch)
  /\ Entered(m, FALSE)

Wrong(c, m, d, limit) ==
  /\ d.attempts < limit
  /\ Start(c, m, "wrong", "save", Patch(d, [d EXCEPT !.attempts = @ + 1], {}))
  /\ Entered(m, FALSE)

LoggedIn(d) == [d EXCEPT !.refresh = now + RefreshLife, !.attempts = 0]

KnownUser(d) == d.named /\ d.national # None

\* A right code logs in.  A complete user's code is used up; one who has still to
\* register keeps it, and the time of the verification is noted.
VerifiedUser(d) ==
  IF KnownUser(d)
  THEN [Cleared(LoggedIn(d)) EXCEPT !.complete = TRUE]
  ELSE [LoggedIn(d) EXCEPT !.complete = FALSE, !.verified = now]

VerifyOtp(c, m) ==
  LET d == users[m] IN
  /\ Enterable(d)
  /\ \/ Spent(c, m, d)
     \/ Wrong(c, m, d, VerifyLimit)
     \/ /\ d.attempts < VerifyLimit
        /\ Start(c, m, "login", "save", Patch(d, VerifiedUser(d), {"refresh"}))
        /\ Entered(m, TRUE)

\* The older login: a lower limit, and the code is always used up.
Confirm(c, m) ==
  LET d == users[m] IN
  /\ Enterable(d)
  /\ \/ Wrong(c, m, d, ConfirmLimit)
     \/ /\ d.attempts < ConfirmLimit
        /\ Start(c, m, "confirm", "save", Patch(d, Cleared(LoggedIn(d)), {"refresh"}))
        /\ Entered(m, TRUE)

-----------------------------------------------------------------------------
\* Mutant of RecentlyVerified: a verification counts for ever.
RecentlyVerifiedEver(d) == d.verified # 0

RecentlyVerified(d) == d.verified # 0 /\ now - d.verified < VerifyLife

Registered(d, n) ==
  [Cleared(d) EXCEPT !.named = TRUE, !.national = n, !.complete = TRUE,
                     !.verified = 0, !.attempts = 0]

\* register with national code n: a code is asked for unless one was verified
\* lately; a number keeps the national code it registered with.
Register(c, m, n) ==
  LET d == users[m]
      proceed == /\ d.national \in {None, n}
                 /\ StartFor(c, m, "register", "unique", Patch(d, Registered(d, n), {"verified"}), n)
  IN \/ d.live /\ RecentlyVerified(d) /\ proceed /\ UNCHANGED wrong
     \/ /\ Enterable(d) /\ ~RecentlyVerified(d)
        /\ \/ Spent(c, m, d)
           \/ Wrong(c, m, d, VerifyLimit)
           \/ d.attempts < VerifyLimit /\ proceed /\ Entered(m, TRUE)

\* Mutant of TakenByOther: nobody looks for the code.
TakenByOtherNever(c) == FALSE

TakenByOther(c) ==
  \E u \in Users \ {calls[c].user} : users[u].live /\ users[u].national = calls[c].national

\* The query for the national code answers; the save is then on its way.
CheckUnique(c) ==
  /\ calls[c].at = "unique"
  /\ calls' = [calls EXCEPT ![c] = IF TakenByOther(c) THEN NoCall ELSE [@ EXCEPT !.at = "save"]]
  /\ UNCHANGED <<now, users, session, history>>

-----------------------------------------------------------------------------
\* A new access token: its jti, if it has one, is in nobody's blacklist.
Issue(m, jti) ==
  /\ access' = [access EXCEPT ![m] = [expiry |-> now + AccessLife, jti |-> jti]]
  /\ listed' = listed \ {m}

\* The document the call read is still there.
Saves(c) == LET d == users[calls[c].user] IN d.live /\ d.id = calls[c].id

\* What follows a save that succeeded, by the kind of the call.
AfterSave(c) ==
  LET m == calls[c].user
      k == calls[c].kind IN
  /\ sent' = IF k = "send" THEN [sent EXCEPT ![m] = @ \cup {now}] ELSE sent
  /\ wrong' = IF k \in {"send", "login", "confirm"} THEN [wrong EXCEPT ![m] = 0] ELSE wrong
  /\ alone' = IF k = "send" /\ Running(m) = {c} THEN [alone EXCEPT ![m] = TRUE] ELSE alone
  /\ IF k \in {"login", "confirm", "welcome"} THEN Issue(m, k # "confirm") ELSE UNCHANGED session
  /\ calls' = [calls EXCEPT ![c] =
       IF k = "register"
       THEN [@ EXCEPT !.kind = "welcome",
                      !.patch = [refresh |-> now + RefreshLife]]
       ELSE NoCall]

Save(c) ==
  /\ calls[c].at = "save" /\ Saves(c)
  /\ users' = [users EXCEPT ![calls[c].user] = Patched(@, calls[c].patch)]
  /\ AfterSave(c)
  /\ UNCHANGED <<now, started, met>>

\* The document is gone: the save throws, and nothing of the call remains.
SaveFails(c) ==
  /\ calls[c].at = "save" /\ ~Saves(c)
  /\ calls' = [calls EXCEPT ![c] = NoCall]
  /\ UNCHANGED <<now, users, session, history>>

-----------------------------------------------------------------------------
\* JwtGuard: a token that has not expired and whose jti is not in the blacklist.
Accepted(m) ==
  /\ now < access[m].expiry
  /\ access[m].jti => m \notin listed

\* refreshAccessToken.  bcrypt compares 72 bytes, which end inside the user's id in
\* a refresh token: any unexpired one of the user passes while one is stored.
RefreshAccessToken(m) ==
  /\ users[m].live /\ users[m].refresh # 0 /\ now <= users[m].refresh
  /\ Issue(m, TRUE)
  /\ UNCHANGED <<now, users, calls, history>>

\* logout, with the token it was called with: the user is read, then the token goes
\* to the blacklist, then the user's entries are deleted from it, then the save.
Logout(c, m) ==
  /\ Accepted(m) /\ users[m].live
  /\ Start(c, m, "logout", "revoke", Patch(users[m], [users[m] EXCEPT !.refresh = 0], {}))
  /\ UNCHANGED wrong

AddToBlacklist(c) ==
  /\ calls[c].at = "revoke"
  /\ listed' = listed \cup {calls[c].user}
  /\ calls' = [calls EXCEPT ![c].at = "forget"]
  /\ UNCHANGED <<now, users, access, history>>

RevokeAllUserTokens(c) ==
  /\ calls[c].at = "forget"
  /\ listed' = listed \ {calls[c].user}
  /\ calls' = [calls EXCEPT ![c].at = "save"]
  /\ UNCHANGED <<now, users, access, history>>

-----------------------------------------------------------------------------
\* UserController and sign-up: a document with names and no national code.
AdminCreate(m) ==
  /\ Born(m, TRUE)
  /\ UNCHANGED <<now, session, calls, started, alone, met>>

AdminRename(m) ==
  /\ users[m].live /\ ~users[m].named
  /\ users' = [users EXCEPT ![m].named = TRUE]
  /\ UNCHANGED <<now, session, calls, history>>

AdminDelete(m) ==
  /\ users[m].live
  /\ users' = [users EXCEPT ![m] = [Unborn EXCEPT !.id = users[m].id]]
  /\ UNCHANGED <<now, session, calls, history>>

Tick ==
  /\ now < MaxClock
  /\ \A c \in Calls : Idle(c)
  /\ now' = now + 1
  /\ UNCHANGED <<users, session, calls, history>>

Next ==
  \/ \E c \in Calls, m \in Users :
       \/ SendCode(c, m) \/ SendOtp(c, m) \/ SendOtpNew(c, m)
       \/ VerifyOtp(c, m) \/ Confirm(c, m) \/ Logout(c, m)
       \/ \E n \in Ids : Register(c, m, n)
  \/ \E c \in Calls :
       \/ Create(c) \/ CreateFails(c) \/ CheckUnique(c) \/ Save(c) \/ SaveFails(c)
       \/ AddToBlacklist(c) \/ RevokeAllUserTokens(c)
  \/ \E m \in Users : AdminCreate(m) \/ AdminRename(m) \/ AdminDelete(m) \/ RefreshAccessToken(m)
  \/ Tick

Spec == Init /\ [][Next]_vars

-----------------------------------------------------------------------------
\* The limit of sendOtp and sendCode on one counter: however the two are mixed and
\* raced with entries of codes, no window of OtpWindow sees codes sent at more than
\* SendLimit different minutes.
SendsWithinLimit ==
  \A m \in Users : \A t \in sent[m] :
    Cardinality({s \in sent[m] : t <= s /\ s <= t + OtpWindow}) <= SendLimit

\* verifyOtp, confirm and register count on one field: when no two calls on the
\* number overlap, a code is compared with at most VerifyLimit wrong entries before
\* it is replaced or entered rightly.
WrongEntriesWithinLimit ==
  \A m \in Users : alone[m] => wrong[m] <= VerifyLimit

\* Whoever gets a session (verifyOtp, confirm, register) had a code sent to the
\* number no longer ago than a code lives and its verification counts.
SessionsStemFromCodes ==
  [][\A m \in Users :
       users'[m].refresh \notin {0, users[m].refresh} =>
         \E s \in sent[m] : now < s + CodeLife + VerifyLife]_vars

\* A registration that is complete stays so, whatever saves of older reads follow it,
\* as long as the document lives; and it keeps its national code, unless the number
\* was registered twice at the same time: two registrations that both read the number
\* before either saved do not see, and refuse, each other's code.
RegistrationStays ==
  [][\A m \in Users :
       users[m].complete /\ users'[m].live =>
         users'[m].complete /\ (users'[m].national = users[m].national \/ {m} \in met)]_vars

\* register's query before the save: two numbers share a national code only if they
\* registered at the same time.
NationalCodesUnique ==
  \A u, v \in Users :
    (u # v /\ users[u].live /\ users[v].live /\ users[u].national = users[v].national)
      => users[u].national = None \/ {u, v} \in met

-----------------------------------------------------------------------------
(* The inductive invariant.                                                *)

Paths == {"named", "national", "complete", "code", "expiry", "attempts", "verified",
          "lastSent", "sent", "refresh"}
Counts == {"code", "expiry", "attempts", "verified", "lastSent", "sent", "refresh"}

UserRecords ==
  [id : Nat, live : BOOLEAN, named : BOOLEAN, national : Ids \cup {None}, complete : BOOLEAN,
   code : Nat, expiry : Nat, attempts : Nat, verified : Nat, lastSent : Nat, sent : Nat,
   refresh : Nat]

\* No save takes a name, a national code or a registration away.
Patches ==
  {p \in UNION {[S -> {TRUE} \cup Ids \cup Nat] : S \in SUBSET Paths} :
     /\ "named" \in DOMAIN p => p["named"] = TRUE
     /\ "complete" \in DOMAIN p => p["complete"] = TRUE
     /\ "national" \in DOMAIN p => p["national"] \in Ids
     /\ \A f \in Counts \cap DOMAIN p : p[f] \in Nat}

Kinds == {"send", "spent", "wrong", "login", "confirm", "register", "welcome", "logout"}

CallLocals ==
  [at : {"create", "unique", "revoke", "forget", "save"}, kind : Kinds, user : Users, id : Nat,
   national : Ids \cup {None}, patch : Patches]

TypeOK ==
  /\ now \in Nat \ {0}
  /\ users \in [Users -> UserRecords]
  /\ calls \in [Calls -> {NoCall} \cup CallLocals]
  /\ sent \in [Users -> SUBSET (1..now)]
  /\ wrong \in [Users -> Nat]
  /\ alone \in [Users -> BOOLEAN]

\* The user document as such.
DocumentInv(m) ==
  LET d == users[m] IN
  /\ ~d.live => ~d.complete
  /\ d.complete => d.named /\ d.national # None

\* ... its code, and what came of one: they were sent to the number.
CodeInv(m) ==
  LET d == users[m] IN
  d.live =>
    /\ \/ d.code = 0 /\ d.expiry = 0
       \/ d.code \in sent[m] /\ d.expiry = d.code + CodeLife
    /\ d.verified # 0 => \E s \in sent[m] : d.verified <= s + CodeLife

\* ... its counter: it counts what was sent since any time in the window.
From(m, t) == {s \in sent[m] : t <= s}
SendInv(m) ==
  LET d == users[m] IN
  d.live =>
    /\ \A s \in sent[m] : s <= d.lastSent
    /\ \A t \in sent[m] : d.lastSent <= t + OtpWindow => Cardinality(From(m, t)) <= d.sent

\* ... its attempts: they count every wrong entry, but for one on its way.
Pending(m) == \E c \in Calls : ~Idle(c) /\ calls[c].user = m /\ calls[c].kind = "wrong" /\ Saves(c)
EntryInv(m) ==
  alone[m] =>
    /\ wrong[m] <= VerifyLimit
    /\ users[m].live /\ users[m].code # 0 => wrong[m] <= users[m].attempts \/ Pending(m)
    /\ \A c, e \in Running(m) : c = e

\* What a call is about to write: which paths, and values, whatever the document is.
Shape(k, at, n, p) ==
  /\ at = "create" => k = "send"
  /\ at = "unique" => k = "register"
  /\ at \in {"revoke", "forget"} => k = "logout"
  /\ k = "register" => n \in Ids
  /\ "national" \in DOMAIN p => k = "register" /\ p["national"] = n
  /\ "lastSent" \in DOMAIN p \/ "sent" \in DOMAIN p => k = "send"
  /\ "attempts" \in DOMAIN p => k \in {"send", "login", "confirm", "register", "wrong"}
  /\ "code" \in DOMAIN p <=> "expiry" \in DOMAIN p
  /\ "code" \in DOMAIN p /\ k # "send" => p["code"] = 0 /\ p["expiry"] = 0
  /\ "verified" \in DOMAIN p /\ k # "login" => p["verified"] = 0
  /\ "refresh" \in DOMAIN p /\ k \notin {"login", "confirm", "welcome"} => p["refresh"] = 0

ShapeInv(c) == Shape(calls[c].kind, calls[c].at, calls[c].national, calls[c].patch)

\* What a save of patch p of a call of kind k would find, and leave: a registration,
RegistrationAfter(m, p) ==
  /\ "complete" \in DOMAIN p =>
       /\ "national" \in DOMAIN p \/ users[m].national # None
       /\ "named" \in DOMAIN p \/ users[m].named
  /\ "national" \in DOMAIN p => users[m].national \in {None, p["national"]} \/ {m} \in met

\* ... a code, a verification and a session,
CodeAfter(m, k, p) ==
  /\ k = "send" => {"code", "lastSent"} \subseteq DOMAIN p
  /\ k = "send" => p["code"] = now /\ p["expiry"] = now + CodeLife /\ p["lastSent"] = now
  /\ "verified" \in DOMAIN p => p["verified"] \in {0, now}
  /\ k \in {"login", "confirm"} => \E s \in sent[m] : now <= s + CodeLife
  /\ k \in {"register", "welcome"} => \E s \in sent[m] : now < s + CodeLife + VerifyLife

\* ... a count of the codes sent, the one on its way included,
SendAfter(m, p) ==
  LET n == IF "sent" \in DOMAIN p THEN p["sent"] ELSE users[m].sent IN
  /\ n <= SendLimit
  /\ \A t \in sent[m] \cup {now} : now <= t + OtpWindow =>
       Cardinality({s \in sent[m] \cup {now} : t <= s}) <= n

\* ... and the wrong entries counted, if the call ran alone.
EntryAfter(m, k, p) ==
  alone[m] =>
    /\ k = "wrong" => "attempts" \in DOMAIN p /\ wrong[m] <= p["attempts"]
    /\ k = "register" => "code" \in DOMAIN p \/ users[m].code = 0

AfterInv(c) ==
  LET m == calls[c].user
      k == calls[c].kind
      p == calls[c].patch IN
  /\ calls[c].id <= users[m].id
  /\ calls[c].at # "create" /\ Saves(c) =>
       /\ RegistrationAfter(m, p) /\ CodeAfter(m, k, p) /\ EntryAfter(m, k, p)
       /\ k = "send" => SendAfter(m, p)

\* Registrations that overlap have met; only they may share a national code.
MeetInv ==
  /\ \A c, e \in Registering : c # e => {calls[c].user, calls[e].user} \in met
  /\ \A c \in Registering : calls[c].kind = "register" /\ calls[c].at = "save" =>
       \A u \in Users \ {calls[c].user} :
         users[u].live /\ users[u].national = calls[c].national => {u, calls[c].user} \in met

IInv ==
  /\ TypeOK
  /\ \A m \in Users : DocumentInv(m) /\ CodeInv(m) /\ SendInv(m) /\ EntryInv(m)
  /\ \A c \in Calls : ~Idle(c) => ShapeInv(c) /\ AfterInv(c)
  /\ MeetInv /\ SendsWithinLimit /\ NationalCodesUnique
=============================================================================
