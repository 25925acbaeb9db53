----------------------------- MODULE ShopProofs -----------------------------
(***************************************************************************)
(* Proofs about Content, Datasets, Catalogue and Gate, for any documents,  *)
(* images, products, prices, scripts, clients, limits and bounds, any      *)
(* number of requests at once and any workload.  Each has an inductive     *)
(* invariant: ContentInv has FormerImagesGone as a part, DatasetInv has    *)
(* RefsResolve, CatalogueInv has DiscountsAgree, ScoreInv gives            *)
(* ScoreFollowsSales, PageInv has PagesCoverList, GateInv has              *)
(* TwiceTheLimitAtMost.                                                    *)
(***************************************************************************)
EXTENDS Content, Datasets, Catalogue, Gate, FiniteSetTheorems, SequenceTheorems, TLAPS

Locals == {NoEdit} \cup UploadLocals \cup EntryLocals \cup FileLocals

LEMMA ContentTypes ==
  ASSUME ContentInv
  PROVE  /\ docs \in [Docs -> Entries] /\ edits \in [Editors -> Locals]
         /\ main \subseteq Images /\ resized \subseteq Images /\ known \subseteq Images
         /\ former \subseteq known /\ Named \subseteq known
  BY DEF ContentInv, ContentTypeOK, Locals

\* Where a request stands, and what it was asked, tell which locals it has.
LEMMA EditStages ==
  ASSUME NEW edit \in Locals
  PROVE  /\ edit.pc \in {"main", "small"} => edit \in UploadLocals
         /\ edit.pc = "write" => edit \in EntryLocals
         /\ edit.pc \in {"unlink", "unlinkResized"} /\ edit.op = "deleteFile" => edit \in FileLocals
         /\ edit.pc \in {"unlink", "unlinkResized"} /\ edit.op # "deleteFile" => edit \in EntryLocals
  BY DEF Locals, NoEdit, UploadLocals, EntryLocals, FileLocals

\* Two kinds of locals never meet.
LEMMA EditKinds ==
  ASSUME NEW edit
  PROVE  /\ edit \in UploadLocals => edit \notin EntryLocals /\ edit.op = "upload"
         /\ edit \in EntryLocals => edit \notin UploadLocals /\ edit.op \in {"update", "delete"}
         /\ edit \in FileLocals => edit \notin UploadLocals /\ edit \notin EntryLocals
  BY DEF UploadLocals, EntryLocals, FileLocals

LEMMA NoEditKind == NoEdit \in Locals /\ NoEdit \notin UploadLocals /\ NoEdit \notin EntryLocals
  BY DEF Locals, NoEdit, UploadLocals, EntryLocals

LEMMA ContentInitInv == ContentInit => ContentInv
<1> SUFFICES ASSUME ContentInit PROVE ContentInv
  OBVIOUS
<1>1. docs \in [Docs -> Entries]
  BY ContentAssumption DEF ContentInit
<1>2. Named \subseteq Images
  BY <1>1 DEF Named, Entries
<1>3. /\ main = Named /\ resized = Named /\ known = Named /\ former = {}
      /\ edits = [e \in Editors |-> NoEdit]
  BY DEF ContentInit
<1>4. ContentTypeOK
  BY <1>1, <1>2, <1>3 DEF ContentTypeOK
<1>5. \A e \in Editors : UploadInv(e) /\ EntryInv(e)
  BY <1>3, NoEditKind DEF UploadInv, EntryInv
<1> QED
  BY <1>3, <1>4, <1>5 DEF ContentInv, FormerImagesGone

-----------------------------------------------------------------------------
(* A step of one request: what it owes to the others.                      *)

\* Only an upload tells names, its own, and files come under names not told.
Discreet(e) ==
  /\ known \subseteq known' /\ known' \subseteq Images
  /\ known' # known => edits[e] \in UploadLocals /\ known' \subseteq known \cup edits[e].all
  /\ main' \subseteq Images /\ (main' \ main) \cap known = {}
  /\ resized' \subseteq Images /\ (resized' \ resized) \cap known = {}

LEMMA StepKeeps ==
  ASSUME ContentInv, NEW e \in Editors, NEW next \in Locals, Becomes(e, next), Discreet(e),
         docs' \in [Docs -> Entries], former' \cup Named' \subseteq known',
         UploadInv(e)', EntryInv(e)', FormerImagesGone'
  PROVE  ContentInv'
<1>1. /\ edits \in [Editors -> Locals] /\ edits' = [edits EXCEPT ![e] = next]
      /\ edits'[e] = next /\ \A o \in Editors \ {e} : edits'[o] = edits[o]
  BY ContentTypes DEF Becomes
<1>2. edits' \in [Editors -> Locals]
  BY <1>1
<1>3. ContentTypeOK'
  BY <1>2 DEF ContentTypeOK, Locals, Discreet
<1>4. ASSUME NEW o \in Editors, o # e
      PROVE  UploadInv(o)'
  <2> SUFFICES ASSUME edits[o] \in UploadLocals
               PROVE  /\ edits[o].todo \subseteq edits[o].all /\ edits[o].all \cap known' = {}
                      /\ edits[o].pc = "small" => edits[o].image \in edits[o].all
                      /\ \A r \in Editors \ {o} :
                           edits'[r] \in UploadLocals => edits[o].all \cap edits'[r].all = {}
    BY <1>1, <1>4 DEF UploadInv
  <2>1. /\ edits[o].todo \subseteq edits[o].all /\ edits[o].all \cap known = {}
        /\ edits[o].pc = "small" => edits[o].image \in edits[o].all
        /\ \A r \in Editors \ {o} : edits[r] \in UploadLocals => edits[o].all \cap edits[r].all = {}
    BY DEF ContentInv, UploadInv
  <2>2. edits[o].all \cap known' = {}
    BY <1>4, <2>1 DEF Discreet
  <2>3. ASSUME NEW r \in Editors \ {o}, edits'[r] \in UploadLocals
        PROVE  edits[o].all \cap edits'[r].all = {}
    <3>1. CASE r = e
      BY <1>1, <1>4, <2>3, <3>1 DEF UploadInv
    <3>2. CASE r # e
      BY <1>1, <2>1, <2>3, <3>2
    <3> QED
      BY <3>1, <3>2
  <2> QED
    BY <2>1, <2>2, <2>3
<1>5. ASSUME NEW o \in Editors, o # e
      PROVE  EntryInv(o)'
  <2> SUFFICES ASSUME edits[o] \in EntryLocals
               PROVE  /\ edits[o].todo \subseteq edits[o].read /\ edits[o].read \subseteq known'
                      /\ edits[o].body.image \in Images => edits[o].body.image \in known'
                      /\ edits[o].pc = "unlinkResized" => edits[o].image \in edits[o].todo \ main'
                      /\ Deletes(edits[o]) =>
                           /\ (edits[o].read \ edits[o].todo) \cap (main' \cup resized') = {}
                           /\ edits[o].pc = "write" => edits[o].todo = {}
    BY <1>1, <1>5 DEF EntryInv, Deletes
  <2>1. /\ edits[o].todo \subseteq edits[o].read /\ edits[o].read \subseteq known
        /\ edits[o].body.image \in Images => edits[o].body.image \in known
        /\ edits[o].pc = "unlinkResized" => edits[o].image \in edits[o].todo \ main
        /\ Deletes(edits[o]) =>
             /\ (edits[o].read \ edits[o].todo) \cap (main \cup resized) = {}
             /\ edits[o].pc = "write" => edits[o].todo = {}
    BY DEF ContentInv, EntryInv
  <2> QED
    BY <2>1 DEF Discreet
<1> QED
  BY <1>3, <1>4, <1>5 DEF ContentInv

\* A step of a request that writes no document.
LEMMA DocsStay ==
  ASSUME ContentInv, NEW e \in Editors, Discreet(e), UNCHANGED <<docs, former>>
  PROVE  docs' \in [Docs -> Entries] /\ former' \cup Named' \subseteq known' /\ FormerImagesGone'
  BY ContentTypes DEF ContentInv, FormerImagesGone, Named, Discreet

LEMMA EndKeeps ==
  ASSUME ContentInv, NEW e \in Editors, Becomes(e, NoEdit), Discreet(e),
         docs' \in [Docs -> Entries], former' \cup Named' \subseteq known', FormerImagesGone'
  PROVE  ContentInv'
<1>1. edits'[e] = NoEdit
  BY ContentTypes DEF Becomes
<1>2. UploadInv(e)' /\ EntryInv(e)'
  BY <1>1, NoEditKind DEF UploadInv, EntryInv
<1> QED
  BY <1>2, NoEditKind, StepKeeps

-----------------------------------------------------------------------------
(* Uploads.                                                                *)

LEMMA UploadKeeps ==
  ASSUME ContentInv, NEW e \in Editors, NEW I \in SUBSET Images, Upload(e, I)
  PROVE  ContentInv'
<1> DEFINE next == [pc |-> "main", op |-> "upload", todo |-> I, all |-> I, image |-> NoImage]
<1>1. next \in UploadLocals /\ next.todo = I /\ next.all = I /\ next.pc = "main"
  BY DEF UploadLocals
<1>2. Becomes(e, next) /\ UNCHANGED <<docs, main, resized, known, former>>
  BY DEF Upload, files
<1> HIDE DEF next
<1>3. /\ I \cap known = {}
      /\ \A o \in Editors : ~Idle(o) /\ edits[o].op = "upload" => I \cap edits[o].all = {}
  BY DEF Upload
<1>4. Discreet(e)
  BY <1>2, ContentTypes DEF Discreet
<1>5. /\ edits'[e] = next /\ \A o \in Editors \ {e} : edits'[o] = edits[o]
  BY <1>2, ContentTypes DEF Becomes
<1>6. \A o \in Editors \ {e} : edits[o] \in UploadLocals => I \cap edits[o].all = {}
  <2> SUFFICES ASSUME NEW o \in Editors, edits[o] \in UploadLocals PROVE I \cap edits[o].all = {}
    OBVIOUS
  <2>1. ~Idle(o) /\ edits[o].op = "upload"
    BY DEF Idle, UploadLocals
  <2> QED
    BY <1>3, <2>1
<1>7. UploadInv(e)'
  BY <1>1, <1>2, <1>3, <1>5, <1>6 DEF UploadInv
<1>8. EntryInv(e)'
  BY <1>1, <1>5, EditKinds DEF EntryInv
<1> QED
  BY <1>1, <1>2, <1>4, <1>7, <1>8, DocsStay, StepKeeps DEF Locals

LEMMA SaveMainKeeps ==
  ASSUME ContentInv, NEW e \in Editors, SaveMain(e)
  PROVE  ContentInv'
<1>1. edits[e] \in UploadLocals
  BY ContentTypes, EditStages DEF SaveMain
<1>2. PICK i \in edits[e].todo :
        /\ main' = main \cup {i}
        /\ Becomes(e, [edits[e] EXCEPT !.pc = "small", !.todo = @ \ {i}, !.image = i])
  BY DEF SaveMain
<1> DEFINE next == [edits[e] EXCEPT !.pc = "small", !.todo = @ \ {i}, !.image = i]
<1>3. UNCHANGED <<docs, resized, known, former>>
  BY DEF SaveMain
<1>4. /\ edits[e].todo \subseteq edits[e].all /\ edits[e].all \cap known = {}
      /\ \A o \in Editors \ {e} : edits[o] \in UploadLocals => edits[e].all \cap edits[o].all = {}
      /\ edits[e].all \subseteq Images
  BY <1>1 DEF ContentInv, UploadInv, UploadLocals
<1>5. /\ next \in UploadLocals /\ next.todo \subseteq edits[e].all
      /\ next.all = edits[e].all /\ next.image = i /\ i \in edits[e].all
  BY <1>1, <1>4 DEF UploadLocals
<1>6. Becomes(e, next)
  BY <1>2
<1> HIDE DEF next
<1>7. Discreet(e)
  BY <1>2, <1>3, <1>4, ContentTypes DEF Discreet
<1>8. edits'[e] = next /\ \A o \in Editors \ {e} : edits'[o] = edits[o]
  BY <1>6, ContentTypes DEF Becomes
<1>9. UploadInv(e)'
  BY <1>3, <1>4, <1>5, <1>8 DEF UploadInv
<1>10. EntryInv(e)'
  BY <1>5, <1>8, EditKinds DEF EntryInv
<1> QED
  BY <1>3, <1>5, <1>6, <1>7, <1>9, <1>10, DocsStay, StepKeeps DEF Locals

LEMMA SaveResizedKeeps ==
  ASSUME ContentInv, NEW e \in Editors, SaveResized(e)
  PROVE  ContentInv'
<1>1. edits[e] \in UploadLocals
  BY ContentTypes, EditStages DEF SaveResized
<1>2. /\ resized' = resized \cup {edits[e].image} /\ UNCHANGED <<docs, main, former>>
      /\ edits[e].pc = "small"
  BY DEF SaveResized
<1>3. /\ edits[e].todo \subseteq edits[e].all /\ edits[e].all \cap known = {}
      /\ \A o \in Editors \ {e} : edits[o] \in UploadLocals => edits[e].all \cap edits[o].all = {}
      /\ edits[e].all \subseteq Images /\ edits[e].image \in edits[e].all
  BY <1>1, <1>2 DEF ContentInv, UploadInv, UploadLocals
<1>4. CASE edits[e].todo # {}
  <2> DEFINE next == [edits[e] EXCEPT !.pc = "main", !.image = NoImage]
  <2>1. Becomes(e, next) /\ known' = known
    BY <1>4 DEF SaveResized
  <2>2. /\ next \in UploadLocals /\ next.todo = edits[e].todo /\ next.all = edits[e].all
        /\ next.pc = "main"
    BY <1>1 DEF UploadLocals
  <2> HIDE DEF next
  <2>3. Discreet(e)
    BY <1>2, <1>3, <2>1, ContentTypes DEF Discreet
  <2>4. edits'[e] = next /\ \A o \in Editors \ {e} : edits'[o] = edits[o]
    BY <2>1, ContentTypes DEF Becomes
  <2>5. UploadInv(e)'
    BY <1>3, <2>1, <2>2, <2>4 DEF UploadInv
  <2>6. EntryInv(e)'
    BY <2>2, <2>4, EditKinds DEF EntryInv
  <2> QED
    BY <1>2, <2>1, <2>2, <2>3, <2>5, <2>6, DocsStay, StepKeeps DEF Locals
<1>5. CASE edits[e].todo = {}
  <2>1. Becomes(e, NoEdit) /\ known' = known \cup edits[e].all
    BY <1>5 DEF SaveResized
  <2>2. Discreet(e)
    BY <1>1, <1>2, <1>3, <2>1, ContentTypes DEF Discreet
  <2> QED
    BY <1>2, <2>1, <2>2, DocsStay, EndKeeps
<1> QED
  BY <1>4, <1>5

-----------------------------------------------------------------------------
(* Deletions of files.                                                     *)

LEMMA DeleteFileKeeps ==
  ASSUME ContentInv, NEW e \in Editors, NEW i \in Images, DeleteFile(e, i)
  PROVE  ContentInv'
<1> DEFINE next == [pc |-> "unlink", op |-> "deleteFile", todo |-> {i}, image |-> i]
<1>1. next \in FileLocals
  BY DEF FileLocals
<1>2. Becomes(e, next) /\ UNCHANGED <<docs, main, resized, known, former>>
  BY DEF DeleteFile, files
<1> HIDE DEF next
<1>3. Discreet(e)
  BY <1>2, ContentTypes DEF Discreet
<1>4. edits'[e] = next
  BY <1>2, ContentTypes DEF Becomes
<1>5. UploadInv(e)' /\ EntryInv(e)'
  BY <1>1, <1>4, EditKinds DEF UploadInv, EntryInv
<1> QED
  BY <1>1, <1>2, <1>3, <1>5, DocsStay, StepKeeps DEF Locals

LEMMA UnlinkMainKeeps ==
  ASSUME ContentInv, NEW e \in Editors, UnlinkMain(e)
  PROVE  ContentInv'
<1>1. PICK i \in edits[e].todo : AfterMain(e, i)
  BY DEF UnlinkMain
<1>2. UNCHANGED <<docs, resized, known, former>> /\ main' = main \ {i} /\ edits[e].pc = "unlink"
  BY <1>1 DEF UnlinkMain, AfterMain
<1>3. Discreet(e)
  BY <1>2, ContentTypes DEF Discreet
<1>4. docs' \in [Docs -> Entries] /\ former' \cup Named' \subseteq known' /\ FormerImagesGone'
  BY <1>2, <1>3, DocsStay
<1>5. CASE i \notin main
  <2>1. Becomes(e, NoEdit)
    BY <1>1, <1>5 DEF AfterMain
  <2> QED
    BY <1>3, <1>4, <2>1, EndKeeps
<1>6. CASE i \in main
  <2> DEFINE next == [edits[e] EXCEPT !.pc = "unlinkResized", !.image = i]
  <2>1. Becomes(e, next)
    BY <1>1, <1>6 DEF AfterMain
  <2>2. edits'[e] = next
    BY <2>1, ContentTypes DEF Becomes
  <2>3. CASE edits[e] \in FileLocals
    <3>1. next \in FileLocals
      BY <2>3 DEF FileLocals
    <3> HIDE DEF next
    <3>2. UploadInv(e)' /\ EntryInv(e)'
      BY <2>2, <3>1, EditKinds DEF UploadInv, EntryInv
    <3> QED
      BY <1>3, <1>4, <2>1, <3>1, <3>2, StepKeeps DEF Locals
  <2>4. CASE edits[e] \in EntryLocals
    <3>1. /\ next \in EntryLocals /\ next.todo = edits[e].todo /\ next.read = edits[e].read
          /\ next.pc = "unlinkResized" /\ next.image = i /\ next.op = edits[e].op
          /\ next.body = edits[e].body
      BY <2>4, <1>6, ContentTypes DEF EntryLocals
    <3> HIDE DEF next
    <3>2. /\ edits[e].todo \subseteq edits[e].read /\ edits[e].read \subseteq known
          /\ edits[e].body.image \in Images => edits[e].body.image \in known
          /\ Deletes(edits[e]) => (edits[e].read \ edits[e].todo) \cap (main \cup resized) = {}
      BY <2>4 DEF ContentInv, EntryInv
    <3>3. Deletes(next) = Deletes(edits[e])
      BY <3>1 DEF Deletes
    <3>4. EntryInv(e)'
      BY <1>2, <2>2, <3>1, <3>2, <3>3 DEF EntryInv, Deletes
    <3>5. UploadInv(e)'
      BY <2>2, <3>1, EditKinds DEF UploadInv
    <3> QED
      BY <1>3, <1>4, <2>1, <3>1, <3>4, <3>5, StepKeeps DEF Locals
  <2> QED
    BY <1>2, <2>3, <2>4, ContentTypes, EditStages
<1> QED
  BY <1>5, <1>6

LEMMA UnlinkResizedKeeps ==
  ASSUME ContentInv, NEW e \in Editors, UnlinkResized(e)
  PROVE  ContentInv'
<1> DEFINE rest == edits[e].todo \ {edits[e].image}
           next == [edits[e] EXCEPT !.todo = rest, !.pc = IF rest = {} THEN "write" ELSE "unlink"]
<1>1. /\ UNCHANGED <<docs, main, known, former>> /\ resized' = resized \ {edits[e].image}
      /\ edits[e].pc = "unlinkResized"
  BY DEF UnlinkResized
<1>2. Discreet(e)
  BY <1>1, ContentTypes DEF Discreet
<1>3. docs' \in [Docs -> Entries] /\ former' \cup Named' \subseteq known' /\ FormerImagesGone'
  BY <1>1, <1>2, DocsStay
<1>4. CASE Becomes(e, NoEdit)
  BY <1>2, <1>3, <1>4, EndKeeps
<1>5. CASE ~Becomes(e, NoEdit)
  <2>1. Becomes(e, next) /\ edits[e].op # "deleteFile"
    BY <1>5 DEF UnlinkResized
  <2>2. edits[e] \in EntryLocals
    BY <1>1, <2>1, ContentTypes, EditStages
  <2>3. edits'[e] = next
    BY <2>1, ContentTypes DEF Becomes
  <2>4. /\ next \in EntryLocals /\ next.todo = rest /\ next.read = edits[e].read
        /\ next.op = edits[e].op /\ next.body = edits[e].body /\ next.pc # "unlinkResized"
        /\ next.pc = "write" => rest = {}
    BY <2>2 DEF EntryLocals
  <2> HIDE DEF next
  <2>5. /\ edits[e].todo \subseteq edits[e].read /\ edits[e].read \subseteq known
        /\ edits[e].body.image \in Images => edits[e].body.image \in known
        /\ edits[e].image \in edits[e].todo \ main
        /\ Deletes(edits[e]) => (edits[e].read \ edits[e].todo) \cap (main \cup resized) = {}
    BY <1>1, <2>2 DEF ContentInv, EntryInv
  <2>6. Deletes(next) = Deletes(edits[e])
    BY <2>4 DEF Deletes
  <2>7. Deletes(next) => (next.read \ next.todo) \cap (main' \cup resized') = {}
    BY <1>1, <2>4, <2>5, <2>6
  <2>8. EntryInv(e)'
    BY <1>1, <2>3, <2>4, <2>5, <2>7 DEF EntryInv, Deletes
  <2>9. UploadInv(e)'
    BY <2>3, <2>4, EditKinds DEF UploadInv
  <2> QED
    BY <1>2, <1>3, <2>1, <2>4, <2>8, <2>9, StepKeeps DEF Locals
<1> QED
  BY <1>4, <1>5

-----------------------------------------------------------------------------
(* Documents.                                                              *)

\* One document gets other images: which names documents have then.
LEMMA NamesAfter ==
  ASSUME docs \in [Docs -> Entries], NEW d \in Docs, NEW images \in SUBSET Images,
         docs' \in [Docs -> Entries],
         docs'[d].images = images, \A o \in Docs \ {d} : docs'[o] = docs[o]
  PROVE  Named' \subseteq Named \cup images
  BY DEF Named, Entries

LEMMA CreateKeeps ==
  ASSUME ContentInv, NEW d \in Docs, NEW i \in known, NEW slug \in Slugs, Create(d, i, slug)
  PROVE  ContentInv'
<1>1. /\ docs' = [docs EXCEPT ![d].slug = slug, ![d].images = {i}]
      /\ UNCHANGED <<main, resized, known, edits, former>>
  BY DEF Create, files
<1>2. docs' \in [Docs -> Entries] /\ docs'[d].images = {i} /\ \A o \in Docs \ {d} : docs'[o] = docs[o]
  BY <1>1, ContentTypes DEF Entries
<1>3. Named' \subseteq Named \cup {i}
  BY <1>2, ContentTypes, NamesAfter
<1>4. ContentTypeOK'
  BY <1>1, <1>2 DEF ContentInv, ContentTypeOK
<1>5. \A e \in Editors : UploadInv(e)' /\ EntryInv(e)'
  BY <1>1 DEF ContentInv, UploadInv, EntryInv, Deletes
<1> QED
  BY <1>1, <1>3, <1>4, <1>5 DEF ContentInv, FormerImagesGone

LEMMA FoundKeeps ==
  ASSUME ContentInv, NEW e \in Editors, NEW d \in Docs, NEW op \in {"update", "delete"},
         NEW body \in EditBodies, body.image \in Images => body.image \in known, NEW deletes \in BOOLEAN, FoundEntry(e, d, op, body, deletes),
         op = "delete" \/ body.image \in Images => deletes,
         UNCHANGED <<docs, main, resized, known, former>>
  PROVE  ContentInv'
<1> DEFINE read == docs[d].images
           next == [pc |-> IF deletes /\ read # {} THEN "unlink" ELSE "write", op |-> op, doc |-> d,
                    body |-> body, read |-> read, todo |-> read, image |-> NoImage]
<1>1. read \in SUBSET Images /\ read \subseteq Named
  BY ContentTypes DEF Entries, Named
<1>2. Becomes(e, next)
  BY DEF FoundEntry
<1>3. /\ next \in EntryLocals /\ next.todo = read /\ next.read = read /\ next.op = op
      /\ next.body = body /\ next.pc # "unlinkResized"
  BY <1>1 DEF EntryLocals
<1>9. ASSUME deletes, next.pc = "write"
      PROVE  read = {}
  BY <1>9
<1> HIDE DEF next, read
<1>4. Discreet(e)
  BY ContentTypes DEF Discreet
<1>5. edits'[e] = next
  BY <1>2, ContentTypes DEF Becomes
<1>6. read \subseteq known
  BY <1>1, ContentTypes
<1>7. Deletes(next) /\ next.pc = "write" => next.todo = {}
  <2> SUFFICES ASSUME Deletes(next), next.pc = "write" PROVE read = {}
    BY <1>3
  <2>1. op = "delete" \/ body.image \in Images
    BY <1>3 DEF Deletes
  <2>2. deletes
    BY <2>1
  <2> QED
    BY <1>9, <2>2
<1>8. EntryInv(e)'
  BY <1>3, <1>5, <1>6, <1>7 DEF EntryInv, Deletes
<1>10. UploadInv(e)'
  BY <1>3, <1>5, EditKinds DEF UploadInv
<1> QED
  BY <1>2, <1>3, <1>4, <1>8, <1>10, DocsStay, StepKeeps DEF Locals

LEMMA UpdateKeeps ==
  ASSUME ContentInv, NEW e \in Editors, NEW d \in Docs, NEW i \in known \cup {NoImage, Null},
         NEW f \in {"own", "other"}, NEW s \in Slugs \cup {"none"}, Update(e, d, i, f, s)
  PROVE  ContentInv'
<1> DEFINE body == [image |-> i, field |-> f, slug |-> s]
<1>1. body \in EditBodies /\ body.image = i
  BY ContentTypes DEF EditBodies
<1>2. FoundEntry(e, d, "update", body, i \in Images)
  BY DEF Update
<1>3. UNCHANGED <<docs, main, resized, known, former>>
  BY DEF Update, files
<1> HIDE DEF body
<1>4. i \in Images => i \in known
  BY ContentAssumption
<1>5. CASE i \in Images
  <2>1. (i \in Images) = TRUE
    BY <1>5
  <2>2. FoundEntry(e, d, "update", body, TRUE)
    BY <1>2, <2>1
  <2> QED
    BY <1>1, <1>3, <1>4, <2>2, FoundKeeps
<1>6. CASE i \notin Images
  <2>1. (i \in Images) = FALSE
    BY <1>6
  <2>2. FoundEntry(e, d, "update", body, FALSE)
    BY <1>2, <2>1
  <2> QED
    BY <1>1, <1>3, <1>6, <2>2, FoundKeeps
<1> QED
  BY <1>5, <1>6

LEMMA DeleteKeeps ==
  ASSUME ContentInv, NEW e \in Editors, NEW d \in Docs, Delete(e, d)
  PROVE  ContentInv'
<1> DEFINE body == [image |-> NoImage, field |-> "own", slug |-> "none"]
<1>1. body \in EditBodies /\ body.image \notin Images
  BY ContentAssumption DEF EditBodies
<1>2. FoundEntry(e, d, "delete", body, TRUE) /\ UNCHANGED <<docs, main, resized, known, former>>
  BY DEF Delete, files
<1> HIDE DEF body
<1> QED
  BY <1>1, <1>2, FoundKeeps

\* What a request drops, by an update to an image or by a deletion, it has deleted.
LEMMA DropsAreGone ==
  ASSUME ContentInv, NEW e \in Editors, edits[e] \in EntryLocals, edits[e].pc = "write",
         Deletes(edits[e])
  PROVE  edits[e].read \cap (main \cup resized) = {}
  BY DEF ContentInv, EntryInv

LEMMA WriteUpdateKeeps ==
  ASSUME ContentInv, NEW e \in Editors, WriteUpdate(e)
  PROVE  ContentInv'
<1> DEFINE d == edits[e].doc
           body == edits[e].body
           images == Rewritten(docs[d].images, body)
           slug == IF body.slug = "none" THEN docs[d].slug ELSE body.slug
<1>1. edits[e] \in EntryLocals
  BY ContentTypes, EditStages DEF WriteUpdate
<1>2. d \in Docs /\ body \in EditBodies
  BY <1>1 DEF EntryLocals
<1>3. Becomes(e, NoEdit) /\ UNCHANGED <<main, resized, known>>
  BY DEF WriteUpdate, files
<1>4. Discreet(e)
  BY <1>3, ContentTypes DEF Discreet
<1>5. CASE UNCHANGED <<docs, former>>
  BY <1>3, <1>4, <1>5, DocsStay, EndKeeps
<1>6. CASE /\ docs' = [docs EXCEPT ![d].images = images, ![d].slug = slug]
           /\ former' = Dropped(e, images)
  <2>1. docs[d] \in Entries /\ docs[d].images \subseteq Images
    BY <1>2, ContentTypes DEF Entries
  <2>2. images \in SUBSET Images /\ images \subseteq Named \cup known
    <3>1. body.image \in Images => body.image \in known
      BY <1>1 DEF ContentInv, EntryInv
    <3> QED
      BY <1>2, <2>1, <3>1 DEF Rewritten, Named, EditBodies
  <2>3. slug \in Slugs \cup {"none", "gone"}
    BY <1>2, <2>1 DEF Entries, EditBodies
  <2>4. former' \subseteq former \cup edits[e].read /\ former \subseteq former'
    BY <1>6 DEF Dropped
  <2>5. ~Deletes(edits[e]) => former' = former
    BY <1>2, <1>6 DEF Dropped, Rewritten, Deletes, EditBodies
  <2> HIDE DEF images, slug, body
  <2>6. /\ docs' \in [Docs -> Entries] /\ docs'[d].images = images
        /\ \A o \in Docs \ {d} : docs'[o] = docs[o]
    BY <1>2, <1>6, <2>1, <2>2, <2>3, ContentTypes DEF Entries
  <2> HIDE DEF d
  <2>7. Named' \subseteq Named \cup images
    BY <1>2, <2>2, <2>6, ContentTypes, NamesAfter
  <2>8. former' \cup Named' \subseteq known
    <3>1. edits[e].read \subseteq known
      BY <1>1 DEF ContentInv, EntryInv
    <3> QED
      BY <2>2, <2>4, <2>7, <3>1, ContentTypes
  <2>9. FormerImagesGone'
    <3>1. Deletes(edits[e]) => edits[e].read \cap (main \cup resized) = {}
      BY <1>1, DropsAreGone DEF WriteUpdate
    <3> QED
      BY <1>3, <2>4, <2>5, <3>1 DEF ContentInv, FormerImagesGone
  <2> QED
    BY <1>3, <1>4, <2>6, <2>8, <2>9, EndKeeps
<1> QED
  BY <1>5, <1>6 DEF WriteUpdate

LEMMA RemoveKeeps ==
  ASSUME ContentInv, NEW e \in Editors, Remove(e)
  PROVE  ContentInv'
<1> DEFINE d == edits[e].doc
<1>1. edits[e] \in EntryLocals
  BY ContentTypes, EditStages DEF Remove
<1>2. d \in Docs
  BY <1>1 DEF EntryLocals
<1>3. /\ Becomes(e, NoEdit) /\ UNCHANGED <<main, resized, known>>
      /\ docs' = [docs EXCEPT ![d].images = {}, ![d].slug = "gone"]
  BY DEF Remove, files
<1>4. former' \subseteq former \cup edits[e].read /\ former \subseteq former'
  BY DEF Remove, Dropped
<1> HIDE DEF d
<1>5. Discreet(e)
  BY <1>3, ContentTypes DEF Discreet
<1>6. /\ docs' \in [Docs -> Entries] /\ docs'[d].images = {}
      /\ \A o \in Docs \ {d} : docs'[o] = docs[o]
  BY <1>2, <1>3, ContentTypes DEF Entries
<1>7. Named' \subseteq Named
  BY <1>2, <1>6, ContentTypes, NamesAfter
<1>8. edits[e].read \subseteq known
  BY <1>1 DEF ContentInv, EntryInv
<1>9. edits[e].read \cap (main \cup resized) = {}
  BY <1>1, DropsAreGone DEF Remove, Deletes
<1>10. FormerImagesGone'
  BY <1>3, <1>4, <1>9 DEF ContentInv, FormerImagesGone
<1>11. former' \cup Named' \subseteq known'
  BY <1>3, <1>4, <1>7, <1>8, ContentTypes
<1> QED
  BY <1>3, <1>5, <1>6, <1>10, <1>11, EndKeeps

LEMMA CutShortKeeps ==
  ASSUME ContentInv, NEW e \in Editors, CutShort(e)
  PROVE  ContentInv'
<1>1. Becomes(e, NoEdit) /\ UNCHANGED <<docs, main, resized, known, former>>
  BY DEF CutShort, files
<1>2. Discreet(e)
  BY <1>1, ContentTypes DEF Discreet
<1> QED
  BY <1>1, <1>2, DocsStay, EndKeeps

-----------------------------------------------------------------------------
\* Whatever the documents, images and requests: an upload has names nobody else has or
\* was told, and a request about to drop images has deleted the files of those it read.
THEOREM ContentInvariance == ContentSpec => []ContentInv
<1>1. ContentInv /\ [ContentNext]_contentVars => ContentInv'
  <2> SUFFICES ASSUME ContentInv, [ContentNext]_contentVars PROVE ContentInv'
    OBVIOUS
  <2>1. ASSUME NEW e \in Editors, NEW I \in SUBSET Images, Upload(e, I)
        PROVE  ContentInv'
    BY <2>1, UploadKeeps
  <2>2. ASSUME NEW e \in Editors, NEW i \in Images, DeleteFile(e, i)
        PROVE  ContentInv'
    BY <2>2, DeleteFileKeeps
  <2>3. ASSUME NEW e \in Editors, NEW d \in Docs, NEW i \in known \cup {NoImage, Null},
               NEW f \in {"own", "other"}, NEW s \in Slugs \cup {"none"}, Update(e, d, i, f, s)
        PROVE  ContentInv'
    BY <2>3, UpdateKeeps
  <2>4. ASSUME NEW e \in Editors, NEW d \in Docs, Delete(e, d)
        PROVE  ContentInv'
    BY <2>4, DeleteKeeps
  <2>5. ASSUME NEW e \in Editors,
               \/ SaveMain(e) \/ SaveResized(e) \/ UnlinkMain(e) \/ UnlinkResized(e)
               \/ WriteUpdate(e) \/ Remove(e) \/ CutShort(e)
        PROVE  ContentInv'
    BY <2>5, SaveMainKeeps, SaveResizedKeeps, UnlinkMainKeeps, UnlinkResizedKeeps,
       WriteUpdateKeeps, RemoveKeeps, CutShortKeeps
  <2>6. ASSUME NEW d \in Docs, NEW i \in known, NEW s \in Slugs, Create(d, i, s)
        PROVE  ContentInv'
    BY <2>6, CreateKeeps
  <2>7. CASE UNCHANGED contentVars
    BY <2>7 DEF contentVars, files, ContentInv, ContentTypeOK, UploadInv, EntryInv, Deletes, Named,
                FormerImagesGone
  <2> QED
    BY <2>1, <2>2, <2>3, <2>4, <2>5, <2>6, <2>7 DEF ContentNext
<1> QED
  BY ContentInitInv, <1>1, PTL DEF ContentSpec

\* The files of an image that a request dropped from a document, having read it there, are
\* gone for good: file-utils unlinks the main file first, so one request gets through.
THEOREM ImagesHold == ContentSpec => []FormerImagesGone
<1>1. ContentInv => FormerImagesGone
  BY DEF ContentInv
<1> QED
  BY ContentInvariance, <1>1, PTL

-----------------------------------------------------------------------------
\* What the collections refer to, in full.
LEMMA SeedRefers ==
  /\ DOMAIN Generated =
       {"users", "categories", "products", "blogCategories", "blogs", "seos", "shippings",
        "addresses", "carts", "cartItems", "orders", "orderItems", "tickets", "ticketMessages"}
  /\ Generated["users"] = {} /\ Generated["categories"] = {} /\ Generated["blogCategories"] = {}
  /\ Generated["shippings"] = {} /\ Generated["seos"] = {}
  /\ Generated["products"] = {"categories"} /\ Generated["blogs"] = {"blogCategories", "users"}
  /\ Generated["addresses"] = {"users"} /\ Generated["carts"] = {"users"}
  /\ Generated["cartItems"] = {"carts", "products"}
  /\ Generated["orders"] = {"users", "shippings", "addresses"}
  /\ Generated["orderItems"] = {"orders", "products"}
  /\ Generated["tickets"] = {"users"} /\ Generated["ticketMessages"] = {"tickets", "users"}
<1> DEFINE documents == Joined(GeneratedProducts, GeneratedBlogs)
           holdings == Joined(GeneratedAddresses, GeneratedCartsAndItems)
           dealings == Joined(GeneratedOrdersAndItems, GeneratedTicketsAndMessages)
           plain == Joined(MockData, GeneratedSeo)
           dealt == Joined(holdings, dealings)
           rest == Joined(documents, dealt)
<1>1. /\ DOMAIN documents = {"products", "blogs"} /\ documents["products"] = {"categories"}
      /\ documents["blogs"] = {"blogCategories", "users"}
  BY DEF Joined, GeneratedProducts, GeneratedBlogs
<1>2. /\ DOMAIN holdings = {"addresses", "carts", "cartItems"} /\ holdings["addresses"] = {"users"}
      /\ holdings["carts"] = {"users"} /\ holdings["cartItems"] = {"carts", "products"}
  BY DEF Joined, GeneratedAddresses, GeneratedCartsAndItems
<1>3. /\ DOMAIN dealings = {"orders", "orderItems", "tickets", "ticketMessages"}
      /\ dealings["orders"] = {"users", "shippings", "addresses"}
      /\ dealings["orderItems"] = {"orders", "products"}
      /\ dealings["tickets"] = {"users"} /\ dealings["ticketMessages"] = {"tickets", "users"}
  BY DEF Joined, GeneratedOrdersAndItems, GeneratedTicketsAndMessages
<1>4. /\ DOMAIN plain = {"users", "categories", "blogCategories", "shippings", "seos"}
      /\ plain["users"] = {} /\ plain["categories"] = {} /\ plain["blogCategories"] = {}
      /\ plain["shippings"] = {} /\ plain["seos"] = {}
  BY DEF Joined, MockData, GeneratedSeo
<1>5. Generated = Joined(plain, rest)
  BY DEF Generated
<1> HIDE DEF documents, holdings, dealings, plain
<1>6. /\ DOMAIN dealt = {"addresses", "carts", "cartItems", "orders", "orderItems", "tickets",
                         "ticketMessages"}
      /\ \A c \in DOMAIN holdings : dealt[c] = holdings[c]
      /\ \A c \in DOMAIN dealings \ DOMAIN holdings : dealt[c] = dealings[c]
  BY <1>2, <1>3 DEF Joined
<1> HIDE DEF dealt
<1>7. /\ DOMAIN rest = {"products", "blogs"} \cup DOMAIN dealt
      /\ \A c \in DOMAIN documents : rest[c] = documents[c]
      /\ \A c \in DOMAIN dealt \ DOMAIN documents : rest[c] = dealt[c]
  BY <1>1 DEF Joined
<1> HIDE DEF rest
<1>8. /\ DOMAIN Generated = DOMAIN plain \cup DOMAIN rest
      /\ \A c \in DOMAIN plain : Generated[c] = plain[c]
      /\ \A c \in DOMAIN rest \ DOMAIN plain : Generated[c] = rest[c]
  BY <1>5 DEF Joined
<1>9. /\ Generated["users"] = {} /\ Generated["categories"] = {} /\ Generated["blogCategories"] = {}
      /\ Generated["shippings"] = {} /\ Generated["seos"] = {}
  BY <1>4, <1>8
<1>10. /\ Generated["products"] = {"categories"} /\ Generated["blogs"] = {"blogCategories", "users"}
  BY <1>1, <1>4, <1>7, <1>8
<1>11. /\ Generated["addresses"] = {"users"} /\ Generated["carts"] = {"users"}
       /\ Generated["cartItems"] = {"carts", "products"}
  BY <1>1, <1>2, <1>4, <1>6, <1>7, <1>8
<1>12. /\ Generated["orders"] = {"users", "shippings", "addresses"}
       /\ Generated["orderItems"] = {"orders", "products"}
       /\ Generated["tickets"] = {"users"} /\ Generated["ticketMessages"] = {"tickets", "users"}
  BY <1>1, <1>2, <1>3, <1>4, <1>6, <1>7, <1>8
<1>13. DOMAIN Generated =
         {"users", "categories", "products", "blogCategories", "blogs", "seos", "shippings",
          "addresses", "carts", "cartItems", "orders", "orderItems", "tickets", "ticketMessages"}
  BY <1>4, <1>6, <1>7, <1>8
<1> QED
  BY <1>9, <1>10, <1>11, <1>12, <1>13

LEMMA ImportRefers ==
  /\ DOMAIN ImportedData =
       {"blogCategories", "users", "categories", "products", "blogs", "faqs", "goldPrices",
        "announcements"}
  /\ \A c \in DOMAIN ImportedData \ {"products", "blogs"} : ImportedData[c] = {}
  /\ ImportedData["products"] = {"categories"} /\ ImportedData["blogs"] = {"blogCategories", "users"}
  BY DEF ImportedData

LEMMA RefersFacts ==
  /\ DOMAIN Generated \subseteq Collections /\ DOMAIN ImportedData \subseteq Collections
  /\ Collections = DOMAIN Generated \cup {"faqs", "goldPrices", "announcements"}
  /\ \A c \in DOMAIN Generated : Refers[c] = Generated[c]
  /\ \A c \in DOMAIN ImportedData : Refers[c] = ImportedData[c]
  /\ \A c \in {"faqs", "goldPrices", "announcements"} : Refers[c] = {}
<1>1. /\ DOMAIN Refers = DOMAIN Generated \cup DOMAIN ImportedData
      /\ \A c \in DOMAIN Generated : Refers[c] = Generated[c]
      /\ \A c \in DOMAIN ImportedData \ DOMAIN Generated : Refers[c] = ImportedData[c]
  BY DEF Refers, Joined
<1>2. {"faqs", "goldPrices", "announcements"} \cap DOMAIN Generated = {}
  BY SeedRefers
<1>3. \A c \in DOMAIN ImportedData \cap DOMAIN Generated : Generated[c] = ImportedData[c]
  BY SeedRefers, ImportRefers
<1>4. DOMAIN ImportedData \subseteq DOMAIN Generated \cup {"faqs", "goldPrices", "announcements"}
  BY SeedRefers, ImportRefers
<1>5. {"faqs", "goldPrices", "announcements"} \subseteq DOMAIN ImportedData
  BY ImportRefers
<1>6. Collections = DOMAIN Generated \cup DOMAIN ImportedData
  BY <1>1 DEF Collections
<1>7. Collections = DOMAIN Generated \cup {"faqs", "goldPrices", "announcements"}
  BY <1>4, <1>5, <1>6
<1>8. \A c \in DOMAIN ImportedData : Refers[c] = ImportedData[c]
  BY <1>1, <1>3
<1>9. \A c \in {"faqs", "goldPrices", "announcements"} : Refers[c] = {}
  BY <1>1, <1>2, <1>5, ImportRefers
<1> QED
  BY <1>1, <1>6, <1>7, <1>8, <1>9

\* A seed and an import fill only what they list, with references among it.
LEMMA FillsClosed ==
  /\ \A c \in DOMAIN Generated : Refers[c] \subseteq DOMAIN Generated
  /\ \A c \in DOMAIN ImportedData : Refers[c] \subseteq DOMAIN ImportedData
<1>1. \A c \in DOMAIN Generated : Generated[c] \subseteq DOMAIN Generated
  BY SeedRefers
<1>2. \A c \in DOMAIN ImportedData : ImportedData[c] \subseteq DOMAIN ImportedData
  BY ImportRefers
<1> QED
  BY <1>1, <1>2, RefersFacts

LEMMA CollectionsClosed == \A c \in Collections : Refers[c] \subseteq Collections
<1>1. \A c \in DOMAIN Generated : Refers[c] \subseteq Collections
  BY FillsClosed, RefersFacts
<1>2. \A c \in {"faqs", "goldPrices", "announcements"} : Refers[c] \subseteq Collections
  BY RefersFacts
<1> QED
  BY <1>1, <1>2, RefersFacts

LEMMA SeedOrder ==
  /\ SeedInserts \in Seq(DOMAIN Generated) /\ Members(SeedInserts) = DOMAIN Generated
  /\ Ordered(SeedInserts)
  /\ SeedDeletes \in Seq(Collections) /\ SeedDeletes # << >>
<1>1. SeedInserts \in Seq(DOMAIN Generated) /\ DOMAIN SeedInserts = 1 .. 14
  BY SeedRefers DEF SeedInserts
<1>2. Members(SeedInserts) = DOMAIN Generated
  BY SeedRefers, <1>1 DEF SeedInserts, Members
<1>3. Ordered(SeedInserts)
  <2>1. \A i, j \in 1 .. 14 : SeedInserts[j] \in Generated[SeedInserts[i]] => j < i
    BY SeedRefers DEF SeedInserts
  <2> QED
    BY <1>1, <1>2, <2>1, RefersFacts DEF Ordered, Members
<1>4. SeedDeletes = SeedInserts
  BY DEF SeedDeletes, SeedInserts
<1>5. SeedDeletes # << >>
  BY DEF SeedDeletes
<1>6. SeedDeletes \in Seq(Collections)
  BY <1>1, <1>4, RefersFacts
<1> QED
  BY <1>1, <1>2, <1>3, <1>4, <1>5, <1>6

LEMMA ImportOrder ==
  /\ ImportInserts \in Seq(DOMAIN ImportedData) /\ Members(ImportInserts) = DOMAIN ImportedData
  /\ Ordered(ImportInserts)
  /\ ImportDrops \in Seq(Collections) /\ ImportDrops # << >>
<1>1. ImportInserts \in Seq(DOMAIN ImportedData) /\ DOMAIN ImportInserts = 1 .. 8
  BY ImportRefers DEF ImportInserts
<1>2. Members(ImportInserts) = DOMAIN ImportedData
  BY ImportRefers, <1>1 DEF ImportInserts, Members
<1>3. Ordered(ImportInserts)
  <2>1. \A i, j \in 1 .. 8 : ImportInserts[j] \in ImportedData[ImportInserts[i]] => j < i
    BY ImportRefers DEF ImportInserts
  <2> QED
    BY <1>1, <1>2, <2>1, RefersFacts DEF Ordered, Members
<1>4. ImportDrops \in Seq(DOMAIN ImportedData) /\ ImportDrops # << >>
  BY ImportRefers DEF ImportDrops
<1> QED
  BY <1>1, <1>2, <1>3, <1>4, RefersFacts

\* What is left of a list.
LEMMA Rest ==
  ASSUME NEW S, NEW s \in Seq(S), s # << >>
  PROVE  /\ Tail(s) \in Seq(S) /\ Head(s) \in S /\ Head(s) \in Members(s)
         /\ Members(s) = {Head(s)} \cup Members(Tail(s))
         /\ Ordered(s) => Ordered(Tail(s)) /\ Refers[Head(s)] \cap Members(s) = {}
         /\ Len(s) = 1 <=> Tail(s) = << >>
<1>1. /\ Tail(s) \in Seq(S) /\ Len(s) \in Nat /\ Len(s) > 0 /\ Len(Tail(s)) = Len(s) - 1
      /\ \A i \in 1 .. Len(s) - 1 : Tail(s)[i] = s[i + 1]
      /\ Head(s) = s[1] /\ DOMAIN s = 1 .. Len(s) /\ DOMAIN Tail(s) = 1 .. Len(s) - 1
      /\ Head(s) \in S
  OBVIOUS
<1>2. Head(s) \in Members(s)
  BY <1>1 DEF Members
<1>3. Members(s) = {Head(s)} \cup Members(Tail(s))
  <2>1. ASSUME NEW i \in DOMAIN s PROVE s[i] \in {Head(s)} \cup Members(Tail(s))
    <3>1. CASE i = 1
      BY <1>1, <3>1
    <3>2. CASE i # 1
      <4>1. i - 1 \in DOMAIN Tail(s) /\ Tail(s)[i - 1] = s[i]
        BY <1>1, <3>2
      <4> QED
        BY <4>1 DEF Members
    <3> QED
      BY <3>1, <3>2
  <2>2. ASSUME NEW i \in DOMAIN Tail(s) PROVE Tail(s)[i] \in Members(s)
    <3>1. i + 1 \in DOMAIN s /\ Tail(s)[i] = s[i + 1]
      BY <1>1
    <3> QED
      BY <3>1 DEF Members
  <2> QED
    BY <1>2, <2>1, <2>2 DEF Members
<1>4. ASSUME Ordered(s)
      PROVE  Ordered(Tail(s)) /\ Refers[Head(s)] \cap Members(s) = {}
  <2>1. Ordered(Tail(s))
    <3> SUFFICES ASSUME NEW i \in DOMAIN Tail(s), NEW j \in DOMAIN Tail(s),
                        Tail(s)[j] \in Refers[Tail(s)[i]]
                 PROVE  j < i
      BY DEF Ordered
    <3>1. i + 1 \in DOMAIN s /\ j + 1 \in DOMAIN s /\ s[j + 1] \in Refers[s[i + 1]]
      BY <1>1
    <3>2. j + 1 < i + 1
      BY <1>4, <3>1 DEF Ordered
    <3> QED
      BY <1>1, <3>2
  <2>2. ASSUME NEW j \in DOMAIN s, s[j] \in Refers[Head(s)]
        PROVE  FALSE
    <3>1. j < 1
      BY <1>1, <1>4, <2>2 DEF Ordered
    <3> QED
      BY <1>1, <3>1
  <2> QED
    BY <2>1, <2>2 DEF Members
<1>5. Len(s) = 1 <=> Tail(s) = << >>
  <2>1. Tail(s) = << >> <=> Len(Tail(s)) = 0
    BY <1>1, EmptySeq
  <2> QED
    BY <1>1, <2>1
<1> QED
  BY <1>1, <1>2, <1>3, <1>4, <1>5


-----------------------------------------------------------------------------
(* What every step has to show.                                            *)

LEMMA DatasetTypes ==
  ASSUME DatasetInv
  PROVE  /\ db \subseteq Documents /\ gone \subseteq DocumentIds /\ indexed \in BOOLEAN
         /\ run \in Nat /\ made \in [ids : Nat, runs : Nat, requests : Nat] /\ run < made.ids
         /\ Present \subseteq DocumentIds /\ Known \subseteq DocumentIds
<1>1. db \subseteq Documents /\ gone \subseteq DocumentIds
  BY DEF DatasetInv, DatasetTypeOK
<1>2. Present \subseteq DocumentIds
  BY <1>1 DEF Present, Documents
<1> QED
  BY <1>1, <1>2 DEF DatasetInv, DatasetTypeOK, Known

LEMMA ScriptTypes ==
  ASSUME DatasetInv
  PROVE  /\ script = [name |-> script.name, empty |-> script.empty, fill |-> script.fill,
                      kept |-> script.kept]
         /\ script.name \in Scripts \cup {"none"}
         /\ script.empty \in Seq(Collections) /\ script.fill \in Seq(Collections \cup Tags)
         /\ Emptying => script.name \in {"seed", "import"}
  BY DEF DatasetInv, DatasetTypeOK, EmptyInv

\* What a step that loses nothing owes for a document it makes.
Due(d) ==
  /\ d \in Documents /\ d.since <= run
  /\ Recent(d) => ~Emptying /\ d.refs \subseteq Known'

LEMMA GrowKeeps ==
  ASSUME DatasetInv, DatasetTypeOK', run' = run, Known \subseteq Known',
         \A d \in db' \ db : Due(d), script' = script \/ (~Emptying /\ ~Emptying'),
         FillInv', AddInv'
  PROVE  DatasetInv'
<1>1. \A d \in db' : d.since <= run'
  BY DEF DatasetInv, Due
<1>2. EmptyInv'
  <2> SUFFICES ASSUME Emptying' PROVE EmptyInv'
    BY DEF EmptyInv
  <2>1. script' = script /\ Emptying
    BY DEF Emptying
  <2>2. script.name \in {"seed", "import"} /\ \A d \in db : ~Recent(d)
    BY <2>1 DEF DatasetInv, EmptyInv
  <2>3. \A d \in db' : ~Recent(d)
    BY <2>1, <2>2 DEF Due
  <2> QED
    BY <2>1, <2>2, <2>3 DEF EmptyInv, Recent
<1>3. RefsResolve'
  <2> SUFFICES ASSUME ~Emptying', NEW d \in db', Recent(d)
               PROVE  d.refs \subseteq Known'
    BY DEF RefsResolve, Recent
  <2>1. ~Emptying
    BY DEF Emptying
  <2>2. CASE d \in db
    BY <2>1, <2>2 DEF DatasetInv, RefsResolve, Recent
  <2>3. CASE d \notin db
    BY <2>3 DEF Due
  <2> QED
    BY <2>2, <2>3
<1> QED
  BY <1>1, <1>2, <1>3 DEF DatasetInv

LEMMA ScriptStays ==
  ASSUME DatasetInv, UNCHANGED <<script, run>>, Known \subseteq Known'
  PROVE  FillInv' /\ AddInv'
<1>1. FillInv'
  BY DEF DatasetInv, FillInv, Fills, Emptying, Running
<1>2. AddInv'
  BY DEF DatasetInv, AddInv, Running, Recent
<1> QED
  BY <1>1, <1>2

LEMMA DatasetInitInv == DatasetInit => DatasetInv
<1> SUFFICES ASSUME DatasetInit PROVE DatasetInv
  OBVIOUS
<1>1. /\ run = 0 /\ indexed \in BOOLEAN /\ script = NoScript /\ gone = {}
      /\ made = [ids |-> 1, runs |-> 0, requests |-> 0]
      /\ db \in {{}, {Document(<<c, 0>>, {<<o, 0>> : o \in Refers[c]}, "plain") : c \in Collections}}
  BY DEF DatasetInit, Collections
<1>2. ASSUME NEW d \in db
      PROVE  /\ d \in Documents /\ d.since = 0
             /\ d.refs \subseteq Present
  <2>1. PICK c \in Collections : d = Document(<<c, 0>>, {<<o, 0>> : o \in Refers[c]}, "plain")
    BY <1>1
  <2>2. db = {Document(<<b, 0>>, {<<o, 0>> : o \in Refers[b]}, "plain") : b \in Collections}
    BY <1>1
  <2>3. d = [id |-> <<c, 0>>, refs |-> {<<o, 0>> : o \in Refers[c]}, tag |-> "plain", since |-> 0,
             own |-> FALSE]
    BY <1>1, <2>1 DEF Document
  <2>4. Refers[c] \subseteq Collections
    BY CollectionsClosed
  <2>5. ASSUME NEW b \in Collections PROVE <<b, 0>> \in Present
    <3> DEFINE e == Document(<<b, 0>>, {<<o, 0>> : o \in Refers[b]}, "plain")
    <3>1. e \in db /\ e.id = <<b, 0>>
      BY <2>2 DEF Document
    <3> QED
      BY <3>1 DEF Present
  <2>6. d.refs \subseteq Present
    BY <2>3, <2>4, <2>5
  <2>7. d.refs \subseteq DocumentIds
    BY <2>3, <2>4 DEF DocumentIds
  <2>8. d \in Documents
    <3>1. <<c, 0>> \in DocumentIds /\ "plain" \in Tags
      BY DEF DocumentIds, Tags
    <3> QED
      BY <2>3, <2>7, <3>1 DEF Documents
  <2> QED
    BY <2>3, <2>6, <2>8
<1>3. DatasetTypeOK
  BY <1>1, <1>2 DEF DatasetTypeOK, NoScript
<1>4. ~Emptying /\ script.name = "none"
  BY <1>1 DEF Emptying, NoScript
<1>5. EmptyInv /\ FillInv /\ AddInv
  BY <1>1, <1>4 DEF EmptyInv, FillInv, AddInv, Running
<1>6. RefsResolve /\ \A d \in db : d.since <= run
  BY <1>1, <1>2 DEF RefsResolve, Known
<1> QED
  BY <1>3, <1>5, <1>6 DEF DatasetInv

-----------------------------------------------------------------------------
(* Scripts begin and end.                                                  *)

LEMMA BeginTypes ==
  ASSUME DatasetInv, NEW name, NEW empty \in Seq(Collections), NEW fill \in Seq(Collections \cup Tags),
         NEW kept, Begins(name, empty, fill, kept)
  PROVE  /\ script' = [name |-> name, empty |-> empty, fill |-> fill, kept |-> kept]
         /\ name \in Scripts /\ ~Emptying
         /\ made' \in [ids : Nat, runs : Nat, requests : Nat] /\ made'.ids = made.ids + 1
<1>1. script.name = "none" /\ name \in Scripts
  BY DEF Begins, Running
<1>2. ~Emptying
  BY <1>1, ScriptTypes
<1>3. made' = [made EXCEPT !.runs = @ + 1, !.ids = @ + 1]
  BY DEF Begins
<1>4. made' \in [ids : Nat, runs : Nat, requests : Nat] /\ made'.ids = made.ids + 1
  <2>1. /\ made.ids \in Nat /\ made.runs \in Nat /\ made.requests \in Nat
        /\ made = [ids |-> made.ids, runs |-> made.runs, requests |-> made.requests]
    BY DatasetTypes
  <2>2. made' = [ids |-> made.ids + 1, runs |-> made.runs + 1, requests |-> made.requests]
    BY <1>3, <2>1
  <2> QED
    BY <2>1, <2>2
<1> QED
  BY <1>1, <1>2, <1>4 DEF Begins

\* A script that empties collections begins: nothing counts as made since.
LEMMA FillerKeeps ==
  ASSUME DatasetInv, NEW name \in {"seed", "import"}, NEW empty \in Seq(Collections),
         NEW fill \in Seq(Collections \cup Tags), Begins(name, empty, fill, {}), empty # << >>,
         LET filled == IF name = "seed" THEN DOMAIN Generated ELSE DOMAIN ImportedData IN
           fill \in Seq(filled) /\ Members(fill) = filled,
         Ordered(fill), run' = made.ids, UNCHANGED <<db, indexed, gone>>
  PROVE  DatasetInv'
<1>1. /\ script' = [name |-> name, empty |-> empty, fill |-> fill, kept |-> {}]
      /\ name \in Scripts /\ ~Emptying
      /\ made' \in [ids : Nat, runs : Nat, requests : Nat] /\ made'.ids = made.ids + 1
  BY BeginTypes
<1>2. /\ script'.name = name /\ script'.empty = empty /\ script'.fill = fill /\ script'.kept = {}
      /\ Emptying'
  BY <1>1 DEF Emptying
<1>3. made.ids \in Nat /\ run \in Nat /\ run < made.ids
  BY DatasetTypes
<1>4. DatasetTypeOK'
  <2>1. script' = [name |-> script'.name, empty |-> script'.empty, fill |-> script'.fill,
                   kept |-> script'.kept]
    BY <1>1, <1>2
  <2>2. run' \in Nat /\ run' < made'.ids
    BY <1>1, <1>3
  <2>3. /\ script'.name \in Scripts \cup {"none"} /\ script'.empty \in Seq(Collections)
        /\ script'.fill \in Seq(Collections \cup Tags)
    BY <1>1, <1>2
  <2> QED
    BY <1>1, <2>1, <2>2, <2>3, DatasetTypes DEF DatasetTypeOK
<1>5. ASSUME NEW d \in db
      PROVE  d.since <= run' /\ d.since # run'
  <2>1. d.since \in Nat /\ d.since <= run
    BY DatasetTypes DEF DatasetInv, Documents
  <2> QED
    BY <1>3, <2>1
<1>6. EmptyInv'
  BY <1>2, <1>5 DEF EmptyInv, Recent
<1>7. FillInv'
  BY <1>2 DEF FillInv, Fills, Running
<1>8. AddInv'
  BY <1>2 DEF AddInv, Running
<1>9. RefsResolve'
  BY <1>2 DEF RefsResolve
<1> QED
  BY <1>4, <1>5, <1>6, <1>7, <1>8, <1>9 DEF DatasetInv

LEMMA SeedKeeps ==
  ASSUME DatasetInv, Seed
  PROVE  DatasetInv'
<1>1. SeedInserts \in Seq(Collections \cup Tags)
  BY SeedOrder, RefersFacts
<1>2. Begins("seed", SeedDeletes, SeedInserts, {}) /\ run' = made.ids /\ UNCHANGED <<db, indexed, gone>>
  BY DEF Seed
<1> QED
  BY <1>1, <1>2, SeedOrder, FillerKeeps

LEMMA ImportKeeps ==
  ASSUME DatasetInv, Import
  PROVE  DatasetInv'
<1>1. ImportInserts \in Seq(Collections \cup Tags)
  BY ImportOrder, RefersFacts
<1>2. Begins("import", ImportDrops, ImportInserts, {}) /\ run' = made.ids /\ UNCHANGED <<db, indexed, gone>>
  BY DEF Import
<1> QED
  BY <1>1, <1>2, ImportOrder, FillerKeeps

LEMMA StopKeeps ==
  ASSUME DatasetInv, script' = NoScript, UNCHANGED <<db, indexed, run, gone, made>>
  PROVE  DatasetInv'
<1>1. script'.name = "none" /\ script'.empty = << >> /\ script'.fill = << >> /\ ~Emptying'
  BY DEF NoScript, Emptying
<1>2. DatasetTypeOK'
  BY <1>1 DEF DatasetInv, DatasetTypeOK, NoScript
<1>3. RefsResolve'
  <2>1. CASE Emptying
    BY <2>1 DEF DatasetInv, EmptyInv, RefsResolve, Recent
  <2>2. CASE ~Emptying
    BY <2>2 DEF DatasetInv, RefsResolve, Known, Present
  <2> QED
    BY <2>1, <2>2
<1>4. EmptyInv' /\ FillInv' /\ AddInv'
  BY <1>1 DEF EmptyInv, FillInv, AddInv, Running
<1> QED
  BY <1>2, <1>3, <1>4 DEF DatasetInv

-----------------------------------------------------------------------------
(* Collections are emptied and filled.                                     *)

ScriptShape ==
  /\ script = [name |-> script.name, empty |-> script.empty, fill |-> script.fill,
               kept |-> script.kept]
  /\ script.name \in Scripts \cup {"none"}
  /\ script.empty \in Seq(Collections) /\ script.fill \in Seq(Collections \cup Tags)

LEMMA TypeKeeps ==
  ASSUME DatasetInv, db' \subseteq Documents, gone' \subseteq DocumentIds, indexed' \in BOOLEAN,
         made' \in [ids : Nat, runs : Nat, requests : Nat], made.ids <= made'.ids, run' = run,
         ScriptShape'
  PROVE  DatasetTypeOK'
<1>1. run' < made'.ids
  BY DatasetTypes
<1> QED
  BY <1>1, DatasetTypes DEF ScriptShape, DatasetTypeOK

LEMMA ShapeStays ==
  ASSUME DatasetInv, script' = script
  PROVE  ScriptShape'
  BY ScriptTypes DEF ScriptShape

LEMMA ShapeNone ==
  ASSUME script' = NoScript
  PROVE  ScriptShape' /\ ~Emptying' /\ script'.name = "none"
  BY DEF ScriptShape, NoScript, Emptying

LEMMA ShapeFills ==
  ASSUME DatasetInv, script.fill # << >>, script' = [script EXCEPT !.fill = Tail(@)]
  PROVE  /\ ScriptShape' /\ script'.name = script.name /\ script'.empty = script.empty
         /\ script'.fill = Tail(script.fill) /\ script'.kept = script.kept
<1>1. script' = [name |-> script.name, empty |-> script.empty, fill |-> Tail(script.fill),
                 kept |-> script.kept]
  BY ScriptTypes
<1>2. Tail(script.fill) \in Seq(Collections \cup Tags)
  BY ScriptTypes
<1> QED
  BY <1>1, <1>2, ScriptTypes DEF ScriptShape

LEMMA ShapeEmpties ==
  ASSUME DatasetInv, script.empty # << >>, script' = [script EXCEPT !.empty = Tail(@)]
  PROVE  /\ ScriptShape' /\ script'.name = script.name /\ script'.fill = script.fill
         /\ script'.empty = Tail(script.empty) /\ script'.kept = script.kept
<1>1. script' = [name |-> script.name, empty |-> Tail(script.empty), fill |-> script.fill,
                 kept |-> script.kept]
  BY ScriptTypes
<1>2. Tail(script.empty) \in Seq(Collections)
  BY ScriptTypes
<1> QED
  BY <1>1, <1>2, ScriptTypes DEF ScriptShape

LEMMA EmptyKeeps ==
  ASSUME DatasetInv, Empty
  PROVE  DatasetInv'
<1>1. /\ script.empty # << >> /\ db' \subseteq db
      /\ script' = [script EXCEPT !.empty = Tail(@)] /\ UNCHANGED <<run, gone, made>>
  BY DEF Empty, Emptying
<1>2. /\ ScriptShape' /\ script'.name = script.name /\ script'.fill = script.fill
      /\ script'.empty = Tail(script.empty) /\ script'.kept = script.kept
  BY <1>1, ShapeEmpties
<1>3. script.name \in {"seed", "import"} /\ \A d \in db : ~Recent(d)
  BY <1>1 DEF DatasetInv, EmptyInv, Emptying
<1>4. DatasetTypeOK'
  <2>1. indexed' \in BOOLEAN
    BY DEF Empty
  <2>2. made.ids <= made'.ids
    BY <1>1, DatasetTypes
  <2>3. db' \subseteq Documents
    BY <1>1, DatasetTypes
  <2> QED
    BY <1>1, <1>2, <2>1, <2>2, <2>3, DatasetTypes, TypeKeeps
<1>5. \A d \in db' : d.since <= run' /\ ~Recent(d)'
  BY <1>1, <1>3 DEF DatasetInv, Recent
<1>6. EmptyInv'
  BY <1>2, <1>3, <1>5 DEF EmptyInv, Recent
<1>7. FillInv'
  <2>1. /\ script.fill \in Seq(Fills) /\ Ordered(script.fill) /\ Fills \ Members(script.fill) = {}
    BY <1>1, <1>3 DEF DatasetInv, FillInv, Emptying
  <2>2. Fills' = Fills
    BY <1>2 DEF Fills, Running
  <2> QED
    BY <1>2, <2>1, <2>2 DEF FillInv
<1>8. AddInv'
  BY <1>2, <1>3 DEF AddInv, Running
<1>9. RefsResolve'
  BY <1>5 DEF RefsResolve, Recent
<1> QED
  BY <1>4, <1>5, <1>6, <1>7, <1>8, <1>9 DEF DatasetInv

\* A document that comes: the others are still there.
LEMMA OneMore ==
  ASSUME NEW e, db' = db \cup {e}, gone' = gone
  PROVE  Known' = Known \cup {e.id} /\ db \subseteq db' /\ db' \ db \subseteq {e}
  BY DEF Known, Present

LEMMA DocumentShape ==
  ASSUME DatasetInv, NEW id \in DocumentIds, NEW refs \in SUBSET DocumentIds, NEW tag \in Tags
  PROVE  /\ Document(id, refs, tag) \in Documents /\ Document(id, refs, tag).id = id
         /\ Document(id, refs, tag).refs = refs /\ Document(id, refs, tag).since = run
         /\ Document(id, refs, tag).tag = tag /\ ~Document(id, refs, tag).own
  BY DatasetTypes DEF Document, Documents

LEMMA FillKeeps ==
  ASSUME DatasetInv, Fill
  PROVE  DatasetInv'
<1> DEFINE c == Head(script.fill)
           e == Document(<<c, run>>, ReferredBy(c), "plain")
<1>1. /\ script.name \in {"seed", "import"} /\ ~Emptying /\ script.fill # << >>
      /\ db' = db \cup {e} /\ UNCHANGED <<run, gone, made>>
      /\ script' = NoScript \/ script' = [script EXCEPT !.fill = Tail(@)]
  BY DEF Fill
<1>2. /\ script.fill \in Seq(Fills) /\ Ordered(script.fill)
      /\ \A o \in Fills \ Members(script.fill) : <<o, run>> \in Known
  BY <1>1 DEF DatasetInv, FillInv
<1>3. /\ c \in Fills /\ Members(script.fill) = {c} \cup Members(Tail(script.fill))
      /\ Tail(script.fill) \in Seq(Fills) /\ Ordered(Tail(script.fill))
      /\ Refers[c] \cap Members(script.fill) = {}
  BY <1>1, <1>2, Rest
<1>4. Fills \subseteq Collections /\ Refers[c] \subseteq Fills
  BY <1>3, FillsClosed, RefersFacts DEF Fills
<1>5. ReferredBy(c) = {<<o, run>> : o \in Refers[c]}
  BY <1>1, <1>3, RefersFacts DEF ReferredBy, Fills, Running
<1> HIDE DEF c
<1>6. <<c, run>> \in DocumentIds /\ ReferredBy(c) \in SUBSET DocumentIds /\ "plain" \in Tags
  BY <1>3, <1>4, <1>5, DatasetTypes DEF DocumentIds, Tags
<1>7. e \in Documents /\ e.id = <<c, run>> /\ e.refs = ReferredBy(c) /\ e.since = run
  BY <1>6, DocumentShape
<1> HIDE DEF e
<1>8. e.refs \subseteq Known
  BY <1>2, <1>3, <1>4, <1>5, <1>7
<1>9. Known' = Known \cup {<<c, run>>} /\ db \subseteq db' /\ db' \ db \subseteq {e}
  BY <1>1, <1>7, OneMore
<1>10. Due(e)
  BY <1>1, <1>7, <1>8, <1>9, DatasetTypes DEF Due
<1>11. indexed' \in BOOLEAN
  BY DEF Fill
<1>13. CASE script' = NoScript
  <2>1. ScriptShape' /\ ~Emptying' /\ script'.name = "none"
    BY <1>13, ShapeNone
  <2>2. DatasetTypeOK'
    BY <1>1, <1>7, <1>11, <2>1, DatasetTypes, TypeKeeps
  <2>3. FillInv' /\ AddInv'
    BY <2>1 DEF FillInv, AddInv, Running
  <2> QED
    BY <1>1, <1>9, <1>10, <2>1, <2>2, <2>3, GrowKeeps
<1>14. CASE script' = [script EXCEPT !.fill = Tail(@)]
  <2>1. /\ ScriptShape' /\ script'.name = script.name /\ script'.empty = script.empty
        /\ script'.fill = Tail(script.fill)
    BY <1>1, <1>14, ShapeFills
  <2>2. DatasetTypeOK'
    BY <1>1, <1>7, <1>11, <2>1, DatasetTypes, TypeKeeps
  <2>3. ~Emptying' /\ Fills' = Fills
    BY <1>1, <2>1 DEF Emptying, Fills, Running
  <2>4. \A o \in Fills \ Members(Tail(script.fill)) : <<o, run>> \in Known'
    BY <1>2, <1>3, <1>9
  <2>5. FillInv'
    BY <1>1, <1>3, <2>1, <2>3, <2>4 DEF FillInv
  <2>6. AddInv'
    BY <1>1, <2>1 DEF AddInv, Running
  <2> QED
    BY <1>1, <1>9, <1>10, <2>2, <2>3, <2>5, <2>6, GrowKeeps
<1> QED
  BY <1>1, <1>13, <1>14

-----------------------------------------------------------------------------
(* Scripts that add.                                                       *)

\* A script begins that empties and fills nothing.
LEMMA AdderKeeps ==
  ASSUME DatasetInv, NEW name \in {"invest", "coins", "triple"},
         NEW fill \in Seq({"coin", "bar"}), NEW kept \in SUBSET DocumentIds,
         Begins(name, << >>, fill, kept), kept \subseteq Known',
         name = "invest" => fill # << >>, name = "triple" => kept = {},
         db' \subseteq Documents, db \subseteq db', \A d \in db' \ db : Due(d),
         UNCHANGED <<indexed, run, gone>>
  PROVE  DatasetInv'
<1>1. << >> \in Seq(Collections)
  OBVIOUS
<1>2. fill \in Seq(Collections \cup Tags)
  BY DEF Tags
<1>3. /\ script' = [name |-> name, empty |-> << >>, fill |-> fill, kept |-> kept]
      /\ name \in Scripts /\ ~Emptying
      /\ made' \in [ids : Nat, runs : Nat, requests : Nat] /\ made'.ids = made.ids + 1
  BY <1>1, <1>2, BeginTypes
<1>4. /\ script'.name = name /\ script'.empty = << >> /\ script'.fill = fill /\ script'.kept = kept
      /\ ~Emptying'
  BY <1>3 DEF Emptying
<1>5. ScriptShape'
  BY <1>1, <1>2, <1>3, <1>4 DEF ScriptShape
<1>6. DatasetTypeOK'
  BY <1>3, <1>5, DatasetTypes, TypeKeeps
<1>7. FillInv' /\ AddInv'
  BY <1>1, <1>4 DEF FillInv, AddInv, Running
<1>8. Known \subseteq Known'
  BY DEF Known, Present
<1> QED
  BY <1>3, <1>4, <1>6, <1>7, <1>8, GrowKeeps

LEMMA NewIds ==
  ASSUME DatasetInv
  PROVE  \A c \in Collections : NewId(c) \in DocumentIds /\ NewId(c)[1] = c
  BY DatasetTypes DEF NewId, DocumentIds

LEMMA InvestKeeps ==
  ASSUME DatasetInv, Invest
  PROVE  DatasetInv'
<1> DEFINE e == Document(NewId("categories"), {}, "investment")
           fill == <<"coin", "bar">>
<1>1. PICK category \in Investment \cup {e} :
        Begins("invest", << >>, fill, {category.id}) /\ db' = db \cup {category}
  BY DEF Invest
<1>2. UNCHANGED <<indexed, run, gone>>
  BY DEF Invest
<1>3. NewId("categories") \in DocumentIds /\ "investment" \in Tags
  <2>1. "categories" \in Collections
    BY SeedRefers, RefersFacts
  <2> QED
    BY <2>1, NewIds DEF Tags
<1>4. e \in Documents /\ e.refs = {} /\ e.since = run
  BY <1>3, DocumentShape
<1> HIDE DEF e
<1>5. ~Emptying
  BY <1>1, ScriptTypes DEF Begins, Running
<1>6. Due(e)
  BY <1>4, <1>5, DatasetTypes DEF Due
<1>7. category \in Documents /\ (category \in db \/ category = e)
  BY <1>1, <1>4, DatasetTypes DEF Investment, Tagged, Filed
<1>8. db' \subseteq Documents /\ db \subseteq db' /\ \A d \in db' \ db : Due(d)
  BY <1>1, <1>6, <1>7, DatasetTypes
<1>9. {category.id} \in SUBSET DocumentIds /\ {category.id} \subseteq Known'
  BY <1>1, <1>7 DEF Documents, Known, Present
<1>10. fill # << >> /\ fill \in Seq({"coin", "bar"})
  OBVIOUS
<1> HIDE DEF fill
<1> DEFINE kept == {category.id}
<1>11. kept \in SUBSET DocumentIds /\ kept \subseteq Known' /\ Begins("invest", << >>, fill, kept)
  BY <1>1, <1>9
<1> HIDE DEF kept
<1> QED
  BY <1>2, <1>8, <1>10, <1>11, AdderKeeps

LEMMA CoinsTripleKeep ==
  ASSUME DatasetInv, Coins \/ Triple
  PROVE  DatasetInv'
<1>1. /\ Begins("coins", << >>, << >>, {}) \/ Begins("triple", << >>, << >>, {})
      /\ UNCHANGED <<db, indexed, run, gone>>
  BY DEF Coins, Triple
<1>2. db' \subseteq Documents /\ db \subseteq db' /\ \A d \in db' \ db : Due(d)
  BY <1>1, DatasetTypes
<1>3. PICK name \in {"coins", "triple"} : Begins(name, << >>, << >>, {})
  BY <1>1
<1>4. PICK fill \in Seq({"coin", "bar"}) : fill = << >>
  <2>1. << >> \in Seq({"coin", "bar"})
    OBVIOUS
  <2> QED
    BY <2>1
<1>5. PICK kept \in SUBSET DocumentIds : kept = {} /\ kept \subseteq Known'
  <2>1. {} \in SUBSET DocumentIds /\ {} \subseteq Known'
    OBVIOUS
  <2> QED
    BY <2>1
<1>6. Begins(name, << >>, fill, kept) /\ (name = "triple" => kept = {}) /\ name # "invest"
  BY <1>3, <1>4, <1>5
<1> QED
  BY <1>1, <1>2, <1>5, <1>6, AdderKeeps

LEMMA AddsKeep ==
  ASSUME DatasetInv, script.name \in {"invest", "coins", "triple"},
         ScriptShape', script'.name \in {"none", script.name}, script'.empty = << >>, AddInv',
         db' \subseteq Documents, Known \subseteq Known', \A d \in db' \ db : Due(d),
         made' \in [ids : Nat, runs : Nat, requests : Nat], made.ids <= made'.ids,
         UNCHANGED <<indexed, run, gone>>
  PROVE  DatasetInv'
<1>1. ~Emptying /\ ~Emptying'
  BY ScriptTypes DEF Emptying
<1>2. DatasetTypeOK'
  BY DatasetTypes, TypeKeeps
<1>3. FillInv'
  BY DEF FillInv
<1> QED
  BY <1>1, <1>2, <1>3, GrowKeeps

LEMMA MoveIntoKeeps ==
  ASSUME DatasetInv, MoveInto
  PROVE  DatasetInv'
<1> DEFINE moved == Tagged("products", Head(script.fill))
<1> DEFINE into(p) == [p EXCEPT !.refs = script.kept, !.since = run, !.own = FALSE]
<1>1. db' = (db \ moved) \cup {into(p) : p \in moved}
  BY DEF MoveInto
<1>2. /\ Running("invest") /\ UNCHANGED <<indexed, run, gone, made>>
      /\ script' = NoScript \/ script' = [script EXCEPT !.fill = Tail(@)]
      /\ Len(script.fill) = 1 => script' = NoScript
  BY DEF MoveInto
<1>3. script.kept \subseteq DocumentIds \cap Known
  BY <1>2 DEF DatasetInv, AddInv, Running
<1>4. moved \subseteq db
  BY DEF Tagged, Filed
<1>5. ASSUME NEW p \in moved
      PROVE  into(p) \in Documents /\ into(p).id = p.id /\ into(p).refs = script.kept /\ into(p).since = run
  BY <1>3, <1>4, DatasetTypes DEF Documents
<1> HIDE DEF moved, into
<1>7. Known \subseteq Known'
  <2> SUFFICES ASSUME NEW d \in db PROVE d.id \in Present'
    BY <1>2 DEF Known, Present
  <2>1. CASE d \in moved
    BY <1>1, <1>5, <2>1 DEF Present
  <2>2. CASE d \notin moved
    BY <1>1, <2>2 DEF Present
  <2> QED
    BY <2>1, <2>2
<1>8. ~Emptying
  BY <1>2, ScriptTypes DEF Running
<1>9. ASSUME NEW d \in db' \ db
      PROVE  d \in Documents /\ Due(d)
  <2>1. PICK p \in moved : d = into(p)
    BY <1>1, <1>9
  <2>2. d \in Documents /\ d.refs = script.kept /\ d.since = run
    BY <1>5, <2>1
  <2> QED
    BY <1>3, <1>7, <1>8, <2>2, DatasetTypes DEF Due
<1>10. db' \subseteq Documents
  BY <1>9, DatasetTypes
<1>11. ScriptShape' /\ script'.name \in {"none", "invest"} /\ script'.empty = << >> /\ AddInv'
  <2>1. CASE script' = NoScript
    BY <2>1, ShapeNone DEF AddInv, Running, NoScript
  <2>2. CASE script' # NoScript
    <3>1. script.fill # << >> /\ script.fill \in Seq(Collections \cup Tags)
      BY <1>2, ScriptTypes DEF DatasetInv, AddInv
    <3>2. /\ ScriptShape' /\ script'.name = script.name /\ script'.empty = script.empty
          /\ script'.fill = Tail(script.fill)
      BY <1>2, <2>2, <3>1, ShapeFills
    <3>3. Tail(script.fill) # << >>
      BY <1>2, <2>2, <3>1, Rest
    <3>4. script'.kept \subseteq DocumentIds \cap Known'
      BY <1>2, <1>3, <1>7, <2>2, ScriptTypes
    <3> QED
      BY <1>2, <1>8, <3>2, <3>3, <3>4 DEF AddInv, Running, Emptying
  <2> QED
    BY <2>1, <2>2
<1> QED
  BY <1>2, <1>7, <1>9, <1>10, <1>11, DatasetTypes, AddsKeep DEF Running

LEMMA FindCategoryKeeps ==
  ASSUME DatasetInv, FindCategory
  PROVE  DatasetInv'
<1>1. /\ Running("coins") /\ UNCHANGED <<db, indexed, run, gone, made>>
      /\ \/ script' = NoScript
         \/ \E category \in Filed("categories") :
              script' = [script EXCEPT !.fill = <<"coin", "bar">>, !.kept = {category.id}]
  BY DEF FindCategory, Investment, Tagged
<1>2. db' \subseteq Documents /\ Known \subseteq Known' /\ \A d \in db' \ db : Due(d)
  BY <1>1, DatasetTypes DEF Known, Present
<1>3. ScriptShape' /\ script'.name \in {"none", "coins"} /\ script'.empty = << >> /\ AddInv'
  <2>1. CASE script' = NoScript
    BY <2>1, ShapeNone DEF AddInv, Running, NoScript
  <2>2. CASE script' # NoScript
    <3>1. PICK category \in Filed("categories") :
            script' = [script EXCEPT !.fill = <<"coin", "bar">>, !.kept = {category.id}]
      BY <1>1, <2>2
    <3> DEFINE fill == <<"coin", "bar">>
    <3>2. fill \in Seq({"coin", "bar"})
      OBVIOUS
    <3>3. fill \in Seq(Collections \cup Tags)
      BY <3>2 DEF Tags
    <3>4. /\ script' = [name |-> script.name, empty |-> script.empty, fill |-> fill,
                        kept |-> {category.id}]
      BY <3>1, ScriptTypes
    <3> HIDE DEF fill
    <3>5. category \in db /\ category.id \in DocumentIds
      BY DatasetTypes DEF Filed, Documents
    <3>6. {category.id} \subseteq DocumentIds \cap Known
      BY <3>5 DEF Known, Present
    <3>7. script.empty = << >> /\ script.name = "coins"
      BY <1>1, ScriptTypes DEF Running, Emptying
    <3>8. ScriptShape'
      BY <3>3, <3>4, ScriptTypes DEF ScriptShape
    <3>9. AddInv'
      BY <1>2, <3>2, <3>4, <3>6, <3>7 DEF AddInv, Running
    <3> QED
      BY <3>4, <3>7, <3>8, <3>9
  <2> QED
    BY <2>1, <2>2
<1>4. made' \in [ids : Nat, runs : Nat, requests : Nat] /\ made.ids <= made'.ids
  <2>1. made' = made /\ made.ids \in Nat
    BY <1>1, DatasetTypes
  <2> QED
    BY <2>1, DatasetTypes
<1> QED
  BY <1>1, <1>2, <1>3, <1>4, AddsKeep DEF Running

LEMMA AddProductsKeeps ==
  ASSUME DatasetInv, AddProducts
  PROVE  DatasetInv'
<1> DEFINE e == Document(NewId("products"), script.kept, Head(script.fill))
<1>1. /\ Running("coins") /\ script.fill # << >> /\ UNCHANGED <<indexed, run, gone>>
      /\ script' = NoScript \/ script' = [script EXCEPT !.fill = Tail(@)]
  BY DEF AddProducts
<1>2. \/ UNCHANGED <<db, made>>
      \/ db' = db \cup {e} /\ made' = [made EXCEPT !.ids = @ + 1]
  BY DEF AddProducts, UseId
<1>3. /\ script.fill \in Seq({"coin", "bar"}) /\ script.kept \subseteq DocumentIds
      /\ script.kept \subseteq Known /\ script.empty = << >> /\ ~Emptying /\ script.name = "coins"
  BY <1>1, ScriptTypes DEF DatasetInv, AddInv, Running, Emptying
<1>4. Head(script.fill) \in Tags
  BY <1>1, <1>3 DEF Tags
<1>5. "products" \in Collections
  BY SeedRefers, RefersFacts
<1>6. NewId("products") \in DocumentIds /\ NewId("products")[1] = "products"
  BY <1>5, NewIds
<1>7. script.kept \in SUBSET DocumentIds
  BY <1>3, DatasetTypes
<1>8. e \in Documents /\ e.id[1] = "products" /\ e.refs = script.kept /\ e.since = run
  BY <1>4, <1>6, <1>7, DocumentShape
<1> HIDE DEF e
<1>9. db' \subseteq Documents /\ db \subseteq db' /\ db' \ db \subseteq {e}
  BY <1>2, <1>8, DatasetTypes
<1>10. Known \subseteq Known'
  BY <1>1, <1>9 DEF Known, Present
<1>11. Due(e)
  BY <1>3, <1>8, <1>10, DatasetTypes DEF Due
<1>12. made' \in [ids : Nat, runs : Nat, requests : Nat] /\ made.ids <= made'.ids
  BY <1>2, DatasetTypes
<1>13. ScriptShape' /\ script'.name \in {"none", "coins"} /\ script'.empty = << >> /\ AddInv'
  <2>1. CASE script' = NoScript
    BY <2>1, ShapeNone DEF AddInv, Running, NoScript
  <2>2. CASE script' # NoScript
    <3>1. /\ ScriptShape' /\ script'.name = script.name /\ script'.empty = script.empty
          /\ script'.fill = Tail(script.fill) /\ script'.kept = script.kept
      BY <1>1, <2>2, ShapeFills
    <3>2. Tail(script.fill) \in Seq({"coin", "bar"})
      BY <1>1, <1>3
    <3> QED
      BY <1>3, <1>10, <3>1, <3>2 DEF AddInv, Running
  <2> QED
    BY <2>1, <2>2
<1> QED
  BY <1>1, <1>3, <1>9, <1>10, <1>11, <1>12, <1>13, AddsKeep

LEMMA ReadProductsKeeps ==
  ASSUME DatasetInv, ReadProducts
  PROVE  DatasetInv'
<1>1. /\ Running("triple") /\ UNCHANGED <<db, indexed, run, gone, made>>
      /\ script' = NoScript \/ script' = [script EXCEPT !.kept = Filed("products")]
  BY DEF ReadProducts
<1>2. db' \subseteq Documents /\ Known \subseteq Known' /\ \A d \in db' \ db : Due(d)
  BY <1>1, DatasetTypes DEF Known, Present
<1>3. ScriptShape' /\ script'.name \in {"none", "triple"} /\ script'.empty = << >> /\ AddInv'
  <2>1. CASE script' = NoScript
    BY <2>1, ShapeNone DEF AddInv, Running, NoScript
  <2>2. CASE script' # NoScript
    <3>1. script' = [name |-> script.name, empty |-> script.empty, fill |-> script.fill,
                     kept |-> Filed("products")]
      BY <1>1, <2>2, ScriptTypes
    <3>2. script.empty = << >> /\ script.name = "triple"
      BY <1>1, ScriptTypes DEF Running, Emptying
    <3>3. ScriptShape'
      BY <3>1, ScriptTypes DEF ScriptShape
    <3>4. script'.kept \subseteq db
      BY <3>1 DEF Filed
    <3>5. \A p \in db : p.since <= run /\ (Recent(p) => p.refs \subseteq Known)
      BY <3>2, ScriptTypes DEF DatasetInv, RefsResolve, Recent, Emptying
    <3>6. AddInv'
      BY <1>1, <1>2, <3>1, <3>2, <3>4, <3>5, DatasetTypes DEF AddInv, Running, Recent
    <3> QED
      BY <3>1, <3>2, <3>3, <3>6
  <2> QED
    BY <2>1, <2>2
<1>4. made' \in [ids : Nat, runs : Nat, requests : Nat] /\ made.ids <= made'.ids
  <2>1. made' = made /\ made.ids \in Nat
    BY <1>1, DatasetTypes
  <2> QED
    BY <2>1, DatasetTypes
<1> QED
  BY <1>1, <1>2, <1>3, <1>4, AddsKeep DEF Running

LEMMA CopyProductKeeps ==
  ASSUME DatasetInv, CopyProduct
  PROVE  DatasetInv'
<1>1. PICK p \in script.kept :
        /\ \E copies \in SUBSET {[p EXCEPT !.id = NewId("products")]} : db' = db \cup copies
        /\ script' = IF script.kept = {p} THEN NoScript ELSE [script EXCEPT !.kept = @ \ {p}]
  BY DEF CopyProduct
<1> DEFINE e == [p EXCEPT !.id = NewId("products")]
<1>2. PICK copies \in SUBSET {e} : db' = db \cup copies
  BY <1>1
<1>3. /\ Running("triple") /\ UNCHANGED <<indexed, run, gone>>
      /\ made' = [made EXCEPT !.ids = @ + 1]
  BY DEF CopyProduct, UseId
<1>4. /\ script.kept \subseteq Documents /\ script.empty = << >> /\ ~Emptying /\ script.name = "triple"
      /\ \A q \in script.kept : q.since <= run /\ (Recent(q) => q.refs \subseteq Known)
  BY <1>3, ScriptTypes DEF DatasetInv, AddInv, Running, Emptying
<1>5. p \in Documents /\ p.since <= run /\ (Recent(p) => p.refs \subseteq Known)
  BY <1>4
<1>6. "products" \in Collections
  BY SeedRefers, RefersFacts
<1>7. NewId("products") \in DocumentIds /\ NewId("products")[1] = "products"
  BY <1>6, NewIds
<1>8. e \in Documents /\ e.refs = p.refs /\ e.since = p.since /\ e.own = p.own
  BY <1>5, <1>7 DEF Documents
<1> HIDE DEF e
<1>9. db' \subseteq Documents /\ db \subseteq db' /\ db' \ db \subseteq {e}
  BY <1>2, <1>8, DatasetTypes
<1>10. Known \subseteq Known'
  BY <1>3, <1>9 DEF Known, Present
<1>11. Due(e)
  BY <1>4, <1>5, <1>8, <1>10 DEF Due, Recent
<1>12. made' \in [ids : Nat, runs : Nat, requests : Nat] /\ made.ids <= made'.ids
  BY <1>3, DatasetTypes
<1>13. ScriptShape' /\ script'.name \in {"none", "triple"} /\ script'.empty = << >> /\ AddInv'
  <2>1. CASE script' = NoScript
    BY <2>1, ShapeNone DEF AddInv, Running, NoScript
  <2>2. CASE script' # NoScript
    <3>1. script' = [name |-> script.name, empty |-> script.empty, fill |-> script.fill,
                     kept |-> script.kept \ {p}]
      BY <1>1, <2>2, ScriptTypes
    <3>2. ScriptShape'
      BY <3>1, ScriptTypes DEF ScriptShape
    <3>3. AddInv'
      BY <1>3, <1>4, <1>10, <3>1 DEF AddInv, Running, Recent
    <3> QED
      BY <1>4, <3>1, <3>2, <3>3
  <2> QED
    BY <2>1, <2>2
<1> QED
  BY <1>3, <1>4, <1>9, <1>10, <1>11, <1>12, <1>13, AddsKeep

-----------------------------------------------------------------------------
(* The application.                                                        *)

\* A request makes one document its own, and may delete one.
LEMMA RequestKeeps ==
  ASSUME DatasetInv, OneRequest, db' \subseteq Documents, gone' \subseteq DocumentIds,
         Known \subseteq Known', \A d \in db' \ db : d.own /\ d.since <= run
  PROVE  DatasetInv'
<1>1. made' = [made EXCEPT !.requests = @ + 1, !.ids = @ + 1] /\ UNCHANGED <<indexed, script, run>>
  BY DEF OneRequest
<1>2. made' \in [ids : Nat, runs : Nat, requests : Nat] /\ made.ids <= made'.ids
  <2>1. /\ made.ids \in Nat /\ made.runs \in Nat /\ made.requests \in Nat
        /\ made = [ids |-> made.ids, runs |-> made.runs, requests |-> made.requests]
    BY DatasetTypes
  <2>2. made' = [ids |-> made.ids + 1, runs |-> made.runs, requests |-> made.requests + 1]
    BY <1>1, <2>1
  <2> QED
    BY <2>1, <2>2
<1>3. DatasetTypeOK'
  BY <1>1, <1>2, DatasetTypes, ShapeStays, TypeKeeps
<1>4. FillInv' /\ AddInv'
  BY <1>1, ScriptStays
<1>5. \A d \in db' \ db : Due(d)
  BY DEF Due, Recent
<1> QED
  BY <1>1, <1>3, <1>4, <1>5, GrowKeeps

LEMMA CreateDocumentKeeps ==
  ASSUME DatasetInv, NEW collection \in Collections, CreateDocument(collection)
  PROVE  DatasetInv'
<1>1. PICK named \in [Refers[collection] -> UNION {Nameable(o) : o \in Refers[collection]}] :
        /\ \A o \in Refers[collection] : named[o] \in Nameable(o)
        /\ LET refs == {named[o] : o \in Refers[collection]}
               document == Document(NewId(collection), refs, "plain") IN
           db' = db \cup {[document EXCEPT !.own = TRUE]}
  BY DEF CreateDocument
<1> DEFINE refs == {named[o] : o \in Refers[collection]}
           document == Document(NewId(collection), refs, "plain")
           e == [document EXCEPT !.own = TRUE]
<1>2. OneRequest /\ gone' = gone /\ db' = db \cup {e}
  BY <1>1 DEF CreateDocument
<1>3. refs \in SUBSET DocumentIds
  <2> SUFFICES ASSUME NEW o \in Refers[collection] PROVE Nameable(o) \subseteq DocumentIds
    BY <1>1
  <2>1. o \in Collections
    BY CollectionsClosed
  <2> QED
    BY <2>1, NewIds, DatasetTypes DEF Nameable
<1> HIDE DEF refs
<1>4. NewId(collection) \in DocumentIds /\ "plain" \in Tags
  BY NewIds DEF Tags
<1>5. document \in Documents /\ document.since = run
  BY <1>3, <1>4, DocumentShape
<1> HIDE DEF document
<1>6. e \in Documents /\ e.own /\ e.since = run
  BY <1>5 DEF Documents
<1> HIDE DEF e
<1>7. Known \subseteq Known' /\ db' \ db \subseteq {e}
  BY <1>2, OneMore
<1> QED
  BY <1>2, <1>6, <1>7, DatasetTypes, RequestKeeps

LEMMA UpdateDocumentKeeps ==
  ASSUME DatasetInv, NEW d \in db, UpdateDocument(d)
  PROVE  DatasetInv'
<1> DEFINE e == [d EXCEPT !.own = TRUE]
<1>1. OneRequest /\ gone' = gone /\ db' = (db \ {d}) \cup {e}
  BY DEF UpdateDocument
<1>2. d \in Documents /\ d.since <= run
  BY DatasetTypes DEF DatasetInv
<1>3. e \in Documents /\ e.own /\ e.since = d.since /\ e.id = d.id
  BY <1>2 DEF Documents
<1> HIDE DEF e
<1>4. Known \subseteq Known'
  BY <1>1, <1>3 DEF Known, Present
<1> QED
  BY <1>1, <1>2, <1>3, <1>4, DatasetTypes, RequestKeeps

LEMMA DeleteDocumentKeeps ==
  ASSUME DatasetInv, NEW d \in db, DeleteDocument(d)
  PROVE  DatasetInv'
<1>1. OneRequest /\ gone' = gone \cup {d.id} /\ db' \in {db, db \ {d}}
  BY DEF DeleteDocument
<1>2. d.id \in DocumentIds
  BY DatasetTypes DEF Documents
<1>3. Known \subseteq Known'
  BY <1>1 DEF Known, Present
<1> QED
  BY <1>1, <1>2, <1>3, DatasetTypes, RequestKeeps

-----------------------------------------------------------------------------
\* Whatever scripts are run, wherever they end, and whatever the application creates,
\* changes and deletes meanwhile: a collection is filled after those it refers to, and a
\* script that adds refers to what it has read.
THEOREM DatasetInvariance == DatasetSpec => []DatasetInv
<1>1. DatasetInv /\ [DatasetNext]_datasetVars => DatasetInv'
  <2> SUFFICES ASSUME DatasetInv, [DatasetNext]_datasetVars PROVE DatasetInv'
    OBVIOUS
  <2>1. CASE Seed \/ Import \/ Empty \/ Fill
    BY <2>1, SeedKeeps, ImportKeeps, EmptyKeeps, FillKeeps
  <2>2. CASE Stop
    BY <2>2, StopKeeps DEF Stop
  <2>3. CASE Invest \/ MoveInto \/ Coins \/ FindCategory \/ AddProducts
    BY <2>3, InvestKeeps, MoveIntoKeeps, CoinsTripleKeep, FindCategoryKeeps, AddProductsKeeps
  <2>4. CASE Triple \/ ReadProducts \/ CopyProduct
    BY <2>4, CoinsTripleKeep, ReadProductsKeeps, CopyProductKeeps
  <2>5. ASSUME NEW collection \in DOMAIN Refers, CreateDocument(collection)
        PROVE  DatasetInv'
    BY <2>5, CreateDocumentKeeps DEF Collections
  <2>6. ASSUME NEW d \in db, UpdateDocument(d) \/ DeleteDocument(d)
        PROVE  DatasetInv'
    BY <2>6, UpdateDocumentKeeps, DeleteDocumentKeeps
  <2>7. CASE UNCHANGED datasetVars
    <3>1. UNCHANGED <<db, indexed, script, run, gone, made>>
      BY <2>7 DEF datasetVars
    <3> QED
      BY <3>1 DEF DatasetInv, DatasetTypeOK, Recent, EmptyInv, FillInv, Fills, AddInv,
                  RefsResolve, Known, Present, Emptying, Running
  <2> QED
    BY <2>1, <2>2, <2>3, <2>4, <2>5, <2>6, <2>7 DEF DatasetNext
<1> QED
  BY DatasetInitInv, <1>1, PTL DEF DatasetSpec

\* What a script has made, copied or moved refers to documents that are there, unless the
\* application has deleted them: seed-database and import-mock-data insert in the order
\* of the references, and the other scripts refer to what they have found.
THEOREM DatasetsHold == DatasetSpec => []RefsResolve
<1>1. DatasetInv => RefsResolve
  BY DEF DatasetInv
<1> QED
  BY DatasetInvariance, <1>1, PTL

-----------------------------------------------------------------------------
(* Catalogue: what a product holds, and what a call sends for it.          *)

\* What an update leaves.
LEMMA UpdatedFields ==
  ASSUME NEW body, NEW d
  PROVE  /\ DOMAIN Updated(body, d) = DOMAIN body \cup DOMAIN d
         /\ \A f \in DOMAIN body : Updated(body, d)[f] = body[f]
         /\ \A f \in DOMAIN d \ DOMAIN body : Updated(body, d)[f] = d[f]
  BY DEF Updated

LEMMA UpdatedProduct ==
  ASSUME NEW body, NEW d, IsProduct(d), DOMAIN body \subseteq Fields
  PROVE  /\ DOMAIN Updated(body, d) = Fields
         /\ \A f \in DOMAIN body : Updated(body, d)[f] = body[f]
         /\ \A f \in Fields \ DOMAIN body : Updated(body, d)[f] = d[f]
<1>1. DOMAIN d = Fields
  BY DEF IsProduct
<1> QED
  BY <1>1, UpdatedFields

LEMMA SameAgree ==
  ASSUME NEW d, NEW e, SamePrices(d, e), Agrees(d)
  PROVE  Agrees(e)
<1>1. e.price = d.price /\ e.cut = d.cut /\ e.discount = d.discount /\ e.onSale = d.onSale
  BY DEF SamePrices, PriceFields
<1> QED
  BY <1>1 DEF Agrees, Enriched

LEMMA PriceBodyKeeps ==
  ASSUME NEW d, IsProduct(d), NEW body, PriceBody(body)
  PROVE  /\ IsProduct(Updated(body, d)) /\ Updated(body, d).score = d.score
         /\ Updated(body, d).shown = d.shown
<1> DEFINE e == Updated(body, d)
<1>1. /\ DOMAIN e = Fields /\ \A f \in DOMAIN body : e[f] = body[f]
      /\ \A f \in Fields \ DOMAIN body : e[f] = d[f]
  <2>1. DOMAIN body \subseteq Fields
    BY DEF PriceBody, PriceFields, Fields
  <2> QED
    BY <2>1, UpdatedProduct
<1> HIDE DEF e
<1>2. /\ e.sales = d.sales /\ e.score = d.score /\ e.views = d.views /\ e.shown = d.shown
      /\ e.rating = d.rating
  BY <1>1 DEF PriceBody, PriceFields, Fields
<1>3. e.price \in Nat \ {0}
  <2>1. CASE "price" \in DOMAIN body
    BY <1>1, <2>1 DEF PriceBody
  <2>2. CASE "price" \notin DOMAIN body
    BY <1>1, <2>2 DEF IsProduct, Fields
  <2> QED
    BY <2>1, <2>2
<1>4. e.cut \in Cuts \cup {NoCut}
  <2>1. CASE "cut" \in DOMAIN body
    BY <1>1, <2>1 DEF PriceBody
  <2>2. CASE "cut" \notin DOMAIN body
    BY <1>1, <2>2 DEF IsProduct, Fields
  <2> QED
    BY <2>1, <2>2
<1>5. \A f \in {"salesCount", "viewsCount"} : e[f] \in Nat
  <2>1. \A f \in {"salesCount", "viewsCount"} : f \in Fields /\ d[f] \in Nat
    BY DEF IsProduct, Fields
  <2>2. \A f \in {"salesCount", "viewsCount"} : f \in DOMAIN body => body[f] \in Nat
    BY DEF PriceBody
  <2> QED
    BY <1>1, <2>1, <2>2
<1>6. IsProduct(e)
  BY <1>1, <1>2, <1>3, <1>4, <1>5 DEF IsProduct
<1> QED
  BY <1>2, <1>6 DEF e

LEMMA OtherBodyKeeps ==
  ASSUME NEW d, IsProduct(d), NEW body, OtherBody(body)
  PROVE  /\ IsProduct(Updated(body, d)) /\ Updated(body, d).score = d.score
         /\ d.shown # "absent" => Updated(body, d).shown # "absent"
         /\ SamePrices(Updated(body, d), d)
<1> DEFINE e == Updated(body, d)
<1>1. /\ DOMAIN e = Fields /\ \A f \in DOMAIN body : e[f] = body[f]
      /\ \A f \in Fields \ DOMAIN body : e[f] = d[f]
  <2>1. DOMAIN body \subseteq Fields
    BY DEF OtherBody, ShownBody, RatingBody, Fields
  <2> QED
    BY <2>1, UpdatedProduct
<1>2. DOMAIN body \subseteq {"shown", "rating"}
  BY DEF OtherBody, ShownBody, RatingBody
<1> HIDE DEF e
<1>3. /\ e.sales = d.sales /\ e.score = d.score /\ e.views = d.views /\ e.price = d.price
      /\ e.cut = d.cut /\ e.discount = d.discount /\ e.onSale = d.onSale
      /\ e.salesCount = d.salesCount /\ e.viewsCount = d.viewsCount
  BY <1>1, <1>2 DEF Fields
<1>4. d.shown # "absent" => e.shown # "absent"
  BY <1>1 DEF OtherBody, ShownBody, RatingBody, Fields
<1>5. e.rating \in Nat
  <2>1. CASE ShownBody(body)
    BY <1>1, <2>1 DEF ShownBody, IsProduct, Fields
  <2>2. CASE RatingBody(body)
    BY <1>1, <2>2 DEF RatingBody
  <2> QED
    BY <2>1, <2>2 DEF OtherBody
<1>6. IsProduct(e)
  BY <1>1, <1>3, <1>5 DEF IsProduct
<1>7. SamePrices(e, d)
  BY <1>3 DEF SamePrices, PriceFields
<1> QED
  BY <1>3, <1>4, <1>6, <1>7 DEF e

LEMMA ScoreBodyKeeps ==
  ASSUME NEW d, IsProduct(d), NEW body, ScoreBody(body)
  PROVE  /\ IsProduct(Updated(body, d)) /\ Updated(body, d).score = body.score
         /\ Updated(body, d).shown = d.shown /\ SamePrices(Updated(body, d), d)
<1> DEFINE e == Updated(body, d)
<1>1. /\ DOMAIN e = Fields /\ e["score"] = body["score"]
      /\ \A f \in Fields \ {"score"} : e[f] = d[f]
  <2>1. DOMAIN body = {"score"} /\ DOMAIN body \subseteq Fields
    BY DEF ScoreBody, Fields
  <2> QED
    BY <2>1, UpdatedProduct
<1> HIDE DEF e
<1>2. /\ e.sales = d.sales /\ e.shown = d.shown /\ e.views = d.views /\ e.price = d.price
      /\ e.cut = d.cut /\ e.discount = d.discount /\ e.onSale = d.onSale
      /\ e.salesCount = d.salesCount /\ e.viewsCount = d.viewsCount /\ e.rating = d.rating
  BY <1>1 DEF Fields
<1>3. e.score = body.score /\ body.score \in Nat
  BY <1>1 DEF ScoreBody
<1>4. IsProduct(e)
  BY <1>1, <1>2, <1>3 DEF IsProduct
<1>5. SamePrices(e, d)
  BY <1>2 DEF SamePrices, PriceFields
<1> QED
  BY <1>2, <1>3, <1>4, <1>5 DEF e

\* Percent rounds to the nearest number, halves up, and a price that is reduced at all
\* is reduced by 0 to 100 percent: 0 if less than half a percent is saved, so that the
\* hook stores a product as on sale which the answers say is not.
THEOREM PercentRounds ==
  ASSUME NEW price \in Nat \ {0}, NEW cut \in Nat, cut < price
  PROVE  /\ Percent(price, cut) \in 0..100
         /\ 2 * price * Percent(price, cut) <= 200 * (price - cut) + price
         /\ 200 * (price - cut) + price < 2 * price * (Percent(price, cut) + 1)
         /\ Percent(price, cut) = 0 <=> 200 * (price - cut) < price
<1> PICK a, b, q : a = 200 * (price - cut) + price /\ b = 2 * price /\ q = a \div b
  OBVIOUS
<1>1. a \in Nat /\ b \in Nat \ {0} /\ Percent(price, cut) = q
  BY DEF Percent
<1>2. a >= price /\ a < 101 * b
  OBVIOUS
<1>3. \A x \in Nat, y \in Nat \ {0} :
        /\ x \div y \in Nat /\ y * (x \div y) <= x /\ x < y * ((x \div y) + 1)
  OBVIOUS
<1>4. q \in Nat /\ b * q <= a /\ a < b * (q + 1)
  BY <1>1, <1>3
<1>5. q <= 100
  <2>1. \A x, y, z \in Nat : y * z <= x /\ x < 101 * y => z <= 100
    <3>1. SUFFICES ASSUME NEW x \in Nat, NEW y \in Nat, NEW z \in Nat, y * z <= x, x < 101 * y, z >= 101
                   PROVE  FALSE
      OBVIOUS
    <3>2. y * z >= y * 101
      BY <3>1
    <3> QED
      BY <3>1, <3>2
  <2> QED
    BY <1>1, <1>2, <1>4, <2>1
<1>6. q = 0 <=> a < b
  <2>1. ASSUME q # 0 PROVE b <= a
    <3>1. b * q >= b
      BY <1>1, <1>4, <2>1
    <3> QED
      BY <1>1, <1>4, <3>1
  <2>2. ASSUME q = 0 PROVE a < b
    BY <1>1, <1>4, <2>2
  <2> QED
    BY <1>1, <2>1, <2>2
<1>7. a < b <=> 200 * (price - cut) < price
  OBVIOUS
<1> QED
  BY <1>1, <1>4, <1>5, <1>6, <1>7

\* What the hooks make of a price and a discount price agrees with the answers.
LEMMA DiscountedFields ==
  ASSUME NEW price, NEW cut, cut \in Cuts \cup {NoCut}
  PROVE  /\ DOMAIN Discounted(price, cut) = {"cut", "discount", "onSale"}
         /\ Discounted(price, cut).cut \in Cuts \cup {NoCut}
         /\ \A e : /\ e.price = price /\ e.cut = Discounted(price, cut).cut
                   /\ e.discount = Discounted(price, cut).discount
                   /\ e.onSale = Discounted(price, cut).onSale
                   => Agrees(e)
<1>1. CASE cut # NoCut /\ cut < price
  BY <1>1 DEF Discounted, Agrees, Enriched
<1>2. CASE ~(cut # NoCut /\ cut < price)
  BY <1>2 DEF Discounted, Agrees, Enriched
<1> QED
  BY <1>1, <1>2

\* A body that the hook, or the service, has completed.
LEMMA CompletedAgrees ==
  ASSUME NEW d, IsProduct(d), NEW body, PriceBody(body), NEW price, NEW cut \in Cuts \cup {NoCut},
         price = IF "price" \in DOMAIN body THEN body.price ELSE d.price
  PROVE  /\ PriceBody(Updated(Discounted(price, cut), body))
         /\ Agrees(Updated(Updated(Discounted(price, cut), body), d))
<1> DEFINE new == Discounted(price, cut)
           full == Updated(new, body)
           e == Updated(full, d)
<1>1. DOMAIN new = {"cut", "discount", "onSale"} /\ new.cut \in Cuts \cup {NoCut}
  BY DiscountedFields
<1> HIDE DEF new
<1>2. /\ DOMAIN full = {"cut", "discount", "onSale"} \cup DOMAIN body
      /\ full.cut = new.cut /\ full.discount = new.discount /\ full.onSale = new.onSale
      /\ "price" \in DOMAIN body => full.price = body.price
      /\ \A f \in {"salesCount", "viewsCount"} \cap DOMAIN body : full[f] = body[f]
  <2>1. /\ DOMAIN full = DOMAIN new \cup DOMAIN body
        /\ \A f \in DOMAIN new : full[f] = new[f]
        /\ \A f \in DOMAIN body \ DOMAIN new : full[f] = body[f]
    BY UpdatedFields
  <2> HIDE DEF full
  <2>2. \A f \in DOMAIN body \ {"cut", "discount", "onSale"} : full[f] = body[f]
    BY <1>1, <2>1
  <2> QED
    BY <1>1, <2>1, <2>2
<1> HIDE DEF full
<1>3. PriceBody(full)
  <2>1. \A f \in {"salesCount", "viewsCount"} \cap DOMAIN full : full[f] \in Nat
    BY <1>2 DEF PriceBody
  <2> QED
    BY <1>1, <1>2, <2>1 DEF PriceBody, PriceFields
<1>4. /\ \A f \in DOMAIN full : e[f] = full[f]
      /\ \A f \in Fields \ DOMAIN full : e[f] = d[f]
  BY UpdatedFields DEF IsProduct
<1> HIDE DEF e
<1>5. e.cut = new.cut /\ e.discount = new.discount /\ e.onSale = new.onSale
  BY <1>2, <1>4
<1>6. e.price = price
  <2>1. CASE "price" \in DOMAIN body
    BY <1>2, <1>4, <2>1
  <2>2. CASE "price" \notin DOMAIN body
    BY <1>2, <1>4, <2>2 DEF Fields
  <2> QED
    BY <2>1, <2>2
<1>7. Agrees(e)
  BY <1>5, <1>6, DiscountedFields DEF new
<1> QED
  BY <1>3, <1>7 DEF e, full, new

\* What migrate-discount-fields sends has a discount price, and so passes the hook.
LEMMA MigratedBody ==
  ASSUME NEW d, IsProduct(d), DOMAIN Migrated(d) # {}
  PROVE  PriceBody(Migrated(d)) /\ "cut" \in DOMAIN Migrated(d) /\ "price" \notin DOMAIN Migrated(d)
<1>1. DOMAIN << >> = {}
  OBVIOUS
<1>2. Migrated(d) = Discounted(d.price, d.cut)
  BY <1>1 DEF Migrated
<1>3. /\ DOMAIN Discounted(d.price, d.cut) = {"cut", "discount", "onSale"}
      /\ Discounted(d.price, d.cut).cut \in Cuts \cup {NoCut}
  BY DiscountedFields DEF IsProduct
<1> QED
  BY <1>2, <1>3 DEF PriceBody, PriceFields

LEMMA DiscountedAgrees ==
  ASSUME NEW d, IsProduct(d), NEW price, price = d.price, NEW cut \in Cuts \cup {NoCut}
  PROVE  Agrees(Updated(Discounted(price, cut), d))
<1> DEFINE new == Discounted(price, cut)
           e == Updated(new, d)
<1>1. DOMAIN new = {"cut", "discount", "onSale"}
  BY DiscountedFields
<1> HIDE DEF new
<1>2. /\ \A f \in DOMAIN new : e[f] = new[f]
      /\ \A f \in Fields \ DOMAIN new : e[f] = d[f]
  <2>1. DOMAIN new \subseteq Fields
    BY <1>1 DEF Fields
  <2> QED
    BY <2>1, UpdatedProduct
<1> HIDE DEF e
<1>3. e.cut = new.cut /\ e.discount = new.discount /\ e.onSale = new.onSale
  BY <1>1, <1>2
<1>4. "price" \in Fields \ DOMAIN new
  BY <1>1 DEF Fields
<1>5. e.price = price
  BY <1>2, <1>4
<1> QED
  BY <1>3, <1>5, DiscountedFields DEF e, new

LEMMA FixedBody ==
  ASSUME NEW d, IsProduct(d)
  PROVE  /\ PriceBody(Fixed(d)) /\ "price" \notin DOMAIN Fixed(d)
         /\ \A e : "cut" \notin DOMAIN Fixed(d) /\ IsProduct(e) /\ SamePrices(d, e) =>
                   Agrees(Updated(Fixed(d), e))
<1> DEFINE new == FixedDiscount(d)
           high == d.cut # NoCut /\ d.cut >= d.price
           reset == IF high THEN [cut |-> NoCut] ELSE << >>
           prices == Differing(new, d)
           counts == Differing(FixedCounts(d), d)
           changed == Updated(prices, counts)
<1>1. Fixed(d) = Updated(reset, changed)
  BY DEF Fixed
<1>2. DOMAIN new = {"discount", "onSale"}
  BY DEF FixedDiscount
<1>3. /\ DOMAIN reset = IF high THEN {"cut"} ELSE {}
      /\ high => reset.cut = NoCut
  <2>1. CASE high
    BY <2>1
  <2>2. CASE ~high
    BY <2>2
  <2> QED
    BY <2>1, <2>2
<1>4. /\ DOMAIN changed \subseteq {"discount", "onSale", "salesCount", "viewsCount"}
      /\ DOMAIN changed \cap {"discount", "onSale"} = {g \in {"discount", "onSale"} : new[g] # d[g]}
      /\ \A f \in DOMAIN changed \cap {"discount", "onSale"} : changed[f] = new[f]
      /\ \A f \in DOMAIN changed \cap {"salesCount", "viewsCount"} : changed[f] \in Nat
  <2>1. /\ DOMAIN prices = {g \in {"discount", "onSale"} : new[g] # d[g]}
        /\ \A f \in DOMAIN prices : prices[f] = new[f]
    BY <1>2 DEF Differing
  <2>2. /\ DOMAIN counts \subseteq {"salesCount", "viewsCount"}
        /\ \A f \in DOMAIN counts : counts[f] \in Nat
    <3>1. /\ DOMAIN FixedCounts(d) = {"salesCount", "viewsCount"}
          /\ \A f \in {"salesCount", "viewsCount"} : FixedCounts(d)[f] \in Nat
      BY DEF FixedCounts, IsProduct
    <3> QED
      BY <3>1 DEF Differing
  <2> HIDE DEF prices, counts
  <2>3. /\ DOMAIN changed = DOMAIN prices \cup DOMAIN counts
        /\ \A f \in DOMAIN prices : changed[f] = prices[f]
        /\ \A f \in DOMAIN counts \ DOMAIN prices : changed[f] = counts[f]
    BY UpdatedFields
  <2> HIDE DEF changed
  <2> QED
    BY <2>1, <2>2, <2>3
<1> HIDE DEF reset, changed
<1>5. /\ DOMAIN Fixed(d) = DOMAIN reset \cup DOMAIN changed
      /\ high => Fixed(d).cut = NoCut
      /\ \A f \in DOMAIN changed : Fixed(d)[f] = changed[f]
  <2>1. /\ DOMAIN Fixed(d) = DOMAIN reset \cup DOMAIN changed
        /\ \A f \in DOMAIN reset : Fixed(d)[f] = reset[f]
        /\ \A f \in DOMAIN changed \ DOMAIN reset : Fixed(d)[f] = changed[f]
    <3>1. /\ DOMAIN Updated(reset, changed) = DOMAIN reset \cup DOMAIN changed
          /\ \A f \in DOMAIN reset : Updated(reset, changed)[f] = reset[f]
          /\ \A f \in DOMAIN changed \ DOMAIN reset : Updated(reset, changed)[f] = changed[f]
      BY UpdatedFields
    <3> QED
      BY <1>1, <3>1
  <2>2. DOMAIN reset \subseteq {"cut"} /\ (high => "cut" \in DOMAIN reset)
    BY <1>3
  <2>3. "cut" \notin DOMAIN changed
    BY <1>4
  <2>4. \A f \in DOMAIN changed : f \in DOMAIN changed \ DOMAIN reset
    BY <2>2, <2>3
  <2>5. \A f \in DOMAIN changed : Fixed(d)[f] = changed[f]
    BY <2>1, <2>4
  <2>6. high => Fixed(d).cut = NoCut
    BY <1>3, <2>1, <2>2
  <2> QED
    BY <2>1, <2>5, <2>6
<1>6. PriceBody(Fixed(d)) /\ "price" \notin DOMAIN Fixed(d) /\ ("cut" \in DOMAIN Fixed(d) <=> high)
  <2>1. /\ \A f \in {"salesCount", "viewsCount"} \cap DOMAIN Fixed(d) : Fixed(d)[f] \in Nat
        /\ DOMAIN Fixed(d) \subseteq {"cut"} \cup {"discount", "onSale", "salesCount", "viewsCount"}
    <3>1. DOMAIN reset \subseteq {"cut"}
      BY <1>3
    <3>2. \A f \in {"salesCount", "viewsCount"} \cap DOMAIN Fixed(d) : f \in DOMAIN changed
      BY <1>5, <3>1
    <3>3. \A f \in {"salesCount", "viewsCount"} \cap DOMAIN Fixed(d) : Fixed(d)[f] \in Nat
      BY <1>4, <1>5, <3>2
    <3>4. DOMAIN Fixed(d) \subseteq {"cut"} \cup {"discount", "onSale", "salesCount", "viewsCount"}
      BY <1>4, <1>5, <3>1
    <3> QED
      BY <3>3, <3>4
  <2>2. CASE high
    <3>1. "cut" \in DOMAIN Fixed(d) /\ Fixed(d).cut = NoCut
      BY <1>3, <1>5, <2>2
    <3> QED
      BY <2>1, <2>2, <3>1 DEF PriceBody, PriceFields
  <2>3. CASE ~high
    <3>1. "cut" \notin DOMAIN Fixed(d)
      BY <1>3, <1>4, <1>5, <2>3
    <3> QED
      BY <2>1, <2>3, <3>1 DEF PriceBody, PriceFields
  <2> QED
    BY <2>2, <2>3
<1>7. ASSUME "cut" \notin DOMAIN Fixed(d), NEW e, IsProduct(e), SamePrices(d, e)
      PROVE  Agrees(Updated(Fixed(d), e))
  <2> DEFINE x == Updated(Fixed(d), e)
  <2>1. /\ \A f \in DOMAIN Fixed(d) : x[f] = Fixed(d)[f]
        /\ \A f \in Fields \ DOMAIN Fixed(d) : x[f] = e[f]
    <3>1. DOMAIN Fixed(d) \subseteq Fields
      BY <1>6 DEF PriceBody, PriceFields, Fields
    <3> QED
      BY <1>7, <3>1, UpdatedProduct
  <2> HIDE DEF x
  <2>2. e.price = d.price /\ e.cut = d.cut /\ e.discount = d.discount /\ e.onSale = d.onSale
    BY <1>7 DEF SamePrices, PriceFields
  <2>3. x.price = d.price /\ x.cut = d.cut
    BY <1>6, <1>7, <2>1, <2>2 DEF Fields
  <2>4. x.discount = new.discount
    <3>1. CASE "discount" \in DOMAIN changed
      BY <1>4, <1>5, <2>1, <3>1
    <3>2. CASE "discount" \notin DOMAIN changed
      BY <1>3, <1>4, <1>5, <1>6, <1>7, <2>1, <2>2, <3>2 DEF Fields
    <3> QED
      BY <3>1, <3>2
  <2>5. x.onSale = new.onSale
    <3>1. CASE "onSale" \in DOMAIN changed
      BY <1>4, <1>5, <2>1, <3>1
    <3>2. CASE "onSale" \notin DOMAIN changed
      BY <1>3, <1>4, <1>5, <1>6, <1>7, <2>1, <2>2, <3>2 DEF Fields
    <3> QED
      BY <3>1, <3>2
  <2>6. /\ d.price \in Nat /\ (d.cut # NoCut => d.cut \in Nat) /\ ~high
    BY <1>6, <1>7, CatalogueAssumption DEF IsProduct
  <2>7. d.cut # NoCut => d.cut < d.price
    BY <2>6
  <2>8. d.cut # NoCut /\ d.cut # 0 => d.cut > 0
    BY <2>6
  <2> HIDE DEF high
  <2>9. Agrees(x)
    BY <2>3, <2>4, <2>5, <2>7, <2>8 DEF Agrees, Enriched, FixedDiscount
  <2> QED
    BY <2>9 DEF x
<1> QED
  BY <1>6, <1>7

-----------------------------------------------------------------------------
(* What a call has read and is about to write.                             *)

\* What others may do to the products of a call.
Beside(call, old, new) ==
  \A p \in call.todo :
    /\ IsProduct(old[p]) /\ IsProduct(new[p]) /\ new[p].shown # "absent"
    /\ p \notin call.dirty /\ call.op \in Pricing => SamePrices(old[p], new[p])

LEMMA ScoreTypes ==
  ASSUME NEW d, IsProduct(d)
  PROVE  Score(d) \in Nat
  BY DEF IsProduct, Score, Or

LEMMA SameUpdated ==
  ASSUME NEW d, NEW e, IsProduct(d), IsProduct(e), SamePrices(d, e),
         NEW body, PriceBody(body) \/ OtherBody(body)
  PROVE  SamePrices(Updated(body, d), Updated(body, e))
<1>1. DOMAIN body \subseteq Fields
  BY DEF PriceBody, OtherBody, ShownBody, RatingBody, PriceFields, Fields
<1>2. \A f \in PriceFields : f \in DOMAIN body => Updated(body, d)[f] = Updated(body, e)[f]
  BY <1>1, UpdatedProduct
<1>3. \A f \in PriceFields : f \notin DOMAIN body => Updated(body, d)[f] = d[f] /\ Updated(body, e)[f] = e[f]
  BY <1>1, UpdatedProduct DEF PriceFields, Fields
<1> QED
  BY <1>2, <1>3 DEF SamePrices

LEMMA IsCallStays ==
  ASSUME NEW call, NEW old, NEW new, IsCall(call, old), Beside(call, old, new)
  PROVE  IsCall(call, new)
<1>1. \A p \in call.todo : new[p].shown # "absent"
  BY DEF Beside
<1> QED
  BY <1>1 DEF IsCall

LEMMA DiscountStays ==
  ASSUME NEW call, NEW old, NEW new, IsCall(call, old), DiscountSound(call, old), Beside(call, old, new)
  PROVE  DiscountSound(call, new)
<1>1. ASSUME call.op \in {"migrate", "fix"}, call.pc # "find", NEW p \in call.todo \ call.dirty
      PROVE  SamePrices(call.snap[p], new[p])
  <2>1. SamePrices(call.snap[p], old[p])
    BY <1>1 DEF DiscountSound
  <2>2. SamePrices(old[p], new[p])
    BY <1>1 DEF Beside, Pricing
  <2> QED
    BY <2>1, <2>2 DEF SamePrices
<1>2. ASSUME call.pc = "write", call.op \in Pricing, call.product \notin call.dirty,
             DOMAIN call.body \cap PriceFields # {}
      PROVE  Agrees(Updated(call.body, new[call.product]))
  <2>1. call.product \in call.todo
    BY <1>2 DEF IsCall
  <2>2. PriceBody(call.body) \/ OtherBody(call.body)
    BY <1>2 DEF IsCall, Pricing, Scoring
  <2>3. /\ SamePrices(old[call.product], new[call.product])
        /\ IsProduct(old[call.product]) /\ IsProduct(new[call.product])
    BY <1>2, <2>1 DEF Beside
  <2>4. Agrees(Updated(call.body, old[call.product]))
    BY <1>2 DEF DiscountSound
  <2> QED
    BY <2>2, <2>3, <2>4, SameUpdated, SameAgree
<1> QED
  BY <1>1, <1>2 DEF DiscountSound

LEMMA SoundStays ==
  ASSUME NEW call, NEW old, NEW new, Sound(call, old), call.pc # "idle" => Beside(call, old, new)
  PROVE  Sound(call, new)
  BY IsCallStays, DiscountStays DEF Sound

LEMMA DirtierSound ==
  ASSUME NEW call, NEW goods, Sound(call, goods), call.pc # "idle", NEW more, NEW next,
         next = [call EXCEPT !.dirty = @ \cup more]
  PROVE  Sound(next, goods)
<1>1. IsCall(call, goods) /\ DiscountSound(call, goods)
  BY DEF Sound
<1>2. /\ next = [pc |-> call.pc, op |-> call.op, todo |-> call.todo, body |-> call.body,
                  snap |-> call.snap, product |-> call.product, dirty |-> call.dirty \cup more]
      /\ next.pc = call.pc /\ next.op = call.op /\ next.todo = call.todo /\ next.body = call.body
      /\ next.snap = call.snap /\ next.product = call.product /\ call.dirty \subseteq next.dirty
  BY <1>1 DEF IsCall
<1>3. IsCall(next, goods)
  BY <1>1, <1>2 DEF IsCall
<1>4. DiscountSound(next, goods)
  BY <1>1, <1>2 DEF DiscountSound
<1> QED
  BY <1>3, <1>4 DEF Sound

LEMMA SendingFields ==
  ASSUME NEW call, NEW goods, IsCall(call, goods), NEW p \in call.todo, NEW body, NEW next, next = Sending(call, p, body)
  PROVE  /\ next = [pc |-> next.pc, op |-> next.op, todo |-> next.todo, body |-> next.body,
                    snap |-> next.snap, product |-> next.product, dirty |-> next.dirty]
         /\ next.pc = IF Needs(body) THEN "hook" ELSE "write"
         /\ next.op = call.op /\ next.todo = call.todo /\ next.snap = call.snap /\ next.dirty = call.dirty
         /\ next.product = p /\ next.body = Completed(body)
<1>1. call = [pc |-> call.pc, op |-> call.op, todo |-> call.todo, body |-> call.body,
              snap |-> call.snap, product |-> call.product, dirty |-> call.dirty]
  BY DEF IsCall
<1> PICK x, y : x = Completed(body) /\ y = (IF Needs(body) THEN "hook" ELSE "write")
  OBVIOUS
<1>2. next = [call EXCEPT !.product = p, !.body = x, !.pc = y]
  BY DEF Sending
<1>3. next = [pc |-> y, op |-> call.op, todo |-> call.todo, body |-> x,
              snap |-> call.snap, product |-> p, dirty |-> call.dirty]
  BY <1>1, <1>2
<1> QED
  BY <1>3

\* What a script read is still sound when it sends.
LEMMA ReadsSound ==
  ASSUME NEW call, NEW next, NEW goods, Sound(call, goods), call.pc \in {"begun", "score", "next"},
         next.op = call.op, next.todo = call.todo, next.snap = call.snap, next.dirty = call.dirty,
         next.pc # "write"
  PROVE  DiscountSound(next, goods)
  BY DEF Sound, IsCall, DiscountSound, OfScripts

\* A call that sends a body with one of the prices: the hook reads the other.
LEMMA SendsToHook ==
  ASSUME NEW call, NEW goods, Sound(call, goods), call.pc \in {"begun", "next"}, call.op \in Pricing,
         NEW p \in call.todo, NEW body, PriceBody(body), Needs(body)
  PROVE  Sound(Sending(call, p, body), goods)
<1> PICK next : next = Sending(call, p, body)
  OBVIOUS
<1>1. IsCall(call, goods)
  BY DEF Sound
<1>2. /\ next = [pc |-> next.pc, op |-> next.op, todo |-> next.todo, body |-> next.body,
                  snap |-> next.snap, product |-> next.product, dirty |-> next.dirty]
      /\ next.pc = "hook" /\ next.product = p /\ next.body = Completed(body)
      /\ next.op = call.op /\ next.todo = call.todo /\ next.snap = call.snap /\ next.dirty = call.dirty
  BY <1>1, SendingFields
<1>3. next.body = body
  BY <1>2 DEF Completed, Needs
<1>4. IsCall(next, goods)
  BY <1>1, <1>2, <1>3 DEF IsCall
<1>5. DiscountSound(next, goods)
  BY <1>2, ReadsSound
<1> QED
  BY <1>4, <1>5 DEF Sound

\* Any other body about prices has both, or neither and is sound already.
LEMMA SendsPrices ==
  ASSUME NEW call, NEW goods, Sound(call, goods), call.pc \in {"begun", "next"}, call.op \in Pricing,
         NEW p \in call.todo, IsProduct(goods[p]), NEW body, PriceBody(body), ~Needs(body),
         "cut" \notin DOMAIN body /\ p \notin call.dirty =>
           DOMAIN body \cap PriceFields = {} \/ Agrees(Updated(body, goods[p]))
  PROVE  Sound(Sending(call, p, body), goods)
<1> PICK next : next = Sending(call, p, body)
  OBVIOUS
<1>1. IsCall(call, goods)
  BY DEF Sound
<1>2. /\ next = [pc |-> next.pc, op |-> next.op, todo |-> next.todo, body |-> next.body,
                  snap |-> next.snap, product |-> next.product, dirty |-> next.dirty]
      /\ next.pc = "write" /\ next.product = p /\ next.body = Completed(body)
      /\ next.op = call.op /\ next.todo = call.todo /\ next.snap = call.snap /\ next.dirty = call.dirty
  BY <1>1, SendingFields
<1>3. /\ PriceBody(next.body)
      /\ p \notin next.dirty =>
           DOMAIN next.body \cap PriceFields = {} \/ Agrees(Updated(next.body, goods[p]))
  <2>1. CASE "cut" \in DOMAIN body
    <3>1. "price" \in DOMAIN body /\ next.body = Updated(Discounted(body.price, body.cut), body)
      BY <1>2, <2>1 DEF Needs, Completed
    <3>2. body.cut \in Cuts \cup {NoCut}
      BY <2>1 DEF PriceBody
    <3> QED
      BY <3>1, <3>2, CompletedAgrees
  <2>2. CASE "cut" \notin DOMAIN body
    <3>1. next.body = body
      BY <1>2, <2>2 DEF Completed
    <3> QED
      BY <1>2, <2>2, <3>1
  <2> QED
    BY <2>1, <2>2
<1>4. IsCall(next, goods)
  BY <1>1, <1>2, <1>3 DEF IsCall
<1>5. DiscountSound(next, goods)
  BY <1>2, <1>3 DEF Sound, IsCall, DiscountSound, OfScripts
<1> QED
  BY <1>4, <1>5 DEF Sound

LEMMA SendsOther ==
  ASSUME NEW call, NEW goods, Sound(call, goods), call.pc = "begun", NEW p \in call.todo, NEW body, OtherBody(body)
  PROVE  Sound(Sending(call, p, body), goods)
<1> PICK next : next = Sending(call, p, body)
  OBVIOUS
<1>1. IsCall(call, goods) /\ call.op = "update"
  BY DEF Sound, IsCall
<1>2. DOMAIN body \cap PriceFields = {}
  BY DEF OtherBody, ShownBody, RatingBody, PriceFields
<1>3. /\ next = [pc |-> next.pc, op |-> next.op, todo |-> next.todo, body |-> next.body,
                  snap |-> next.snap, product |-> next.product, dirty |-> next.dirty]
      /\ next.pc = "write" /\ next.product = p /\ next.body = body
      /\ next.op = call.op /\ next.todo = call.todo /\ next.snap = call.snap /\ next.dirty = call.dirty
  BY <1>1, <1>2, SendingFields DEF PriceFields, Needs, Completed
<1>4. IsCall(next, goods)
  BY <1>1, <1>3 DEF IsCall, Pricing
<1>5. DiscountSound(next, goods)
  BY <1>1, <1>2, <1>3 DEF DiscountSound
<1> QED
  BY <1>4, <1>5 DEF Sound

LEMMA SendsScore ==
  ASSUME NEW call, NEW goods, Sound(call, goods), call.pc \in {"score", "next"}, call.op \in Scoring,
         NEW p \in call.todo, NEW body, ScoreBody(body)
  PROVE  Sound(Sending(call, p, body), goods)
<1> PICK next : next = Sending(call, p, body)
  OBVIOUS
<1>1. IsCall(call, goods)
  BY DEF Sound
<1>2. /\ next = [pc |-> next.pc, op |-> next.op, todo |-> next.todo, body |-> next.body,
                  snap |-> next.snap, product |-> next.product, dirty |-> next.dirty]
      /\ next.pc = "write" /\ next.product = p /\ next.body = body
      /\ next.op = call.op /\ next.todo = call.todo /\ next.snap = call.snap /\ next.dirty = call.dirty
  BY <1>1, SendingFields DEF ScoreBody, Needs, Completed
<1>3. IsCall(next, goods)
  BY <1>1, <1>2 DEF IsCall
<1>4. DiscountSound(next, goods)
  BY <1>1, <1>2 DEF DiscountSound, Scoring, Pricing
<1> QED
  BY <1>3, <1>4 DEF Sound

\* A script goes on to its next product.
LEMMA PassedSound ==
  ASSUME NEW call, NEW goods, Sound(call, goods), call.pc \in {"write", "next"}, NEW p \in call.todo
  PROVE  /\ Sound(Passed(call, p), goods)
         /\ Passed(call, p) # NoWriter =>
              /\ Passed(call, p).pc = "next" /\ Passed(call, p).op = call.op
              /\ Passed(call, p).todo = call.todo \ {p} /\ Passed(call, p).dirty = call.dirty
         /\ Passed(call, p) = NoWriter => call.todo = {p}
<1>1. CASE call.todo = {p}
  BY <1>1 DEF Passed, Sound, NoWriter
<1>2. CASE call.todo # {p}
  <2> PICK next : next = Passed(call, p)
    OBVIOUS
  <2>1. IsCall(call, goods)
    BY DEF Sound
  <2>2. /\ next = [pc |-> "next", op |-> call.op, todo |-> call.todo \ {p}, body |-> call.body,
                    snap |-> call.snap, product |-> NoCut, dirty |-> call.dirty]
    BY <1>2, <2>1 DEF Passed, IsCall
  <2>3. /\ next = [pc |-> next.pc, op |-> next.op, todo |-> next.todo, body |-> next.body,
                    snap |-> next.snap, product |-> next.product, dirty |-> next.dirty]
        /\ next.pc = "next" /\ next.op = call.op /\ next.todo = call.todo \ {p}
        /\ next.snap = call.snap /\ next.dirty = call.dirty
    BY <2>2
  <2>4. call.op \in OfScripts
    BY <1>2, <2>1 DEF IsCall
  <2>5. IsCall(next, goods)
    BY <2>1, <2>3, <2>4 DEF IsCall
  <2>6. DiscountSound(next, goods)
    BY <2>3 DEF Sound, DiscountSound
  <2>7. next # NoWriter
    BY <2>3 DEF NoWriter
  <2> QED
    BY <2>3, <2>5, <2>6, <2>7 DEF Sound
<1> QED
  BY <1>1, <1>2

-----------------------------------------------------------------------------
(* The steps of a running call.                                            *)

LEMMA CatalogueTypes ==
  ASSUME CatalogueInv
  PROVE  /\ DOMAIN products = Products /\ DOMAIN writers = Writers
         /\ \A p \in Products : IsProduct(products[p])
         /\ \A c \in Writers : ~Stands(c, "idle") => IsCall(writers[c], products)
  BY DEF CatalogueInv, ProductInv, Sound, Stands

\* A call that is no further than it was.
Shrinks(c) ==
  writers'[c].pc # "idle" =>
    /\ writers[c].pc # "idle" /\ writers'[c].op = writers[c].op
    /\ writers'[c].todo \subseteq writers[c].todo /\ writers[c].dirty \subseteq writers'[c].dirty

LEMMA ApartStays ==
  ASSUME NEW c \in Writers, NEW d \in Writers, Apart(c, d), Shrinks(c), Shrinks(d)
  PROVE  Apart(c, d)'
<1> SUFFICES ASSUME NEW p \in Holds(c)' \cap Holds(d)', {writers'[c].op, writers'[d].op} \subseteq Pricing
             PROVE  p \in writers'[c].dirty \cap writers'[d].dirty
  BY DEF Apart, Pricing
<1>1. writers'[c].pc # "idle" /\ p \in writers'[c].todo /\ writers'[d].pc # "idle" /\ p \in writers'[d].todo
  BY DEF Holds, Stands
<1>2. p \in Holds(c) \cap Holds(d) /\ {writers[c].op, writers[d].op} \subseteq Pricing
  BY <1>1 DEF Shrinks, Holds, Stands
<1>3. p \in writers[c].dirty \cap writers[d].dirty
  BY <1>2 DEF Apart
<1> QED
  BY <1>1, <1>3 DEF Shrinks

LEMMA OthersShrink ==
  ASSUME CatalogueInv, NEW c \in Writers, NEW next, writers' = [writers EXCEPT ![c] = next],
         next.pc # "idle" =>
           /\ writers[c].pc # "idle" /\ next.op = writers[c].op
           /\ next.todo \subseteq writers[c].todo /\ writers[c].dirty \subseteq next.dirty
  PROVE  /\ writers' = [d \in Writers |-> writers'[d]] /\ writers'[c] = next
         /\ \A d \in Writers \ {c} : writers'[d] = writers[d]
         /\ \A d \in Writers : Shrinks(d)
         /\ \A d \in Writers : \A e \in Writers \ {d} : Apart(d, e)'
<1>1. DOMAIN writers = Writers
  BY CatalogueTypes
<1>2. /\ writers' = [d \in Writers |-> writers'[d]] /\ writers'[c] = next
      /\ \A d \in Writers \ {c} : writers'[d] = writers[d]
  BY <1>1
<1>3. \A d \in Writers : Shrinks(d)
  BY <1>2 DEF Shrinks
<1>4. ASSUME NEW d \in Writers, NEW e \in Writers \ {d}
      PROVE  Apart(d, e)'
  <2>1. Apart(d, e) /\ Shrinks(d) /\ Shrinks(e)
    BY <1>3 DEF CatalogueInv
  <2> QED
    BY <2>1, ApartStays
<1> QED
  BY <1>2, <1>3, <1>4

LEMMA CallKeeps ==
  ASSUME CatalogueInv, NEW c \in Writers, writers[c].pc # "idle", NEW next,
         writers' = [writers EXCEPT ![c] = next], UNCHANGED <<products, raced>>,
         Sound(next, products),
         next.pc # "idle" =>
           next.op = writers[c].op /\ next.todo \subseteq writers[c].todo /\ writers[c].dirty \subseteq next.dirty
  PROVE  CatalogueInv'
<1>1. /\ writers' = [d \in Writers |-> writers'[d]] /\ writers'[c] = next
      /\ \A d \in Writers \ {c} : writers'[d] = writers[d]
      /\ \A d \in Writers : \A e \in Writers \ {d} : Apart(d, e)'
  BY OthersShrink
<1>2. products' = [p \in Products |-> products'[p]]
  BY DEF CatalogueInv
<1>3. \A d \in Writers : Sound(writers'[d], products')
  BY <1>1 DEF CatalogueInv
<1>4. \A p \in Products : ProductInv(p)'
  BY DEF CatalogueInv, ProductInv
<1> QED
  BY <1>1, <1>2, <1>3, <1>4 DEF CatalogueInv

LEMMA SendKeeps ==
  ASSUME CatalogueInv, NEW c \in Writers, Send(c)
  PROVE  CatalogueInv'
<1> PICK call : call = writers[c]
  OBVIOUS
<1>1. PICK p \in call.todo : writers' = [writers EXCEPT ![c] = Sending(call, p, call.body)]
  BY CatalogueTypes DEF Send
<1>2. call.pc = "begun" /\ Sound(call, products) /\ IsCall(call, products)
  BY DEF Send, Stands, CatalogueInv, Sound
<1>3. /\ call.op = "update" /\ p \in Products
      /\ \/ OtherBody(call.body)
         \/ PriceBody(call.body) /\ DOMAIN call.body \subseteq {"price", "cut"}
  BY <1>1, <1>2 DEF IsCall
<1>4. Sound(Sending(call, p, call.body), products)
  <2>1. CASE OtherBody(call.body)
    BY <1>1, <1>2, <2>1, SendsOther
  <2>2. CASE PriceBody(call.body) /\ DOMAIN call.body \subseteq {"price", "cut"} /\ Needs(call.body)
    BY <1>1, <1>2, <1>3, <2>2, SendsToHook DEF Pricing
  <2>3. CASE PriceBody(call.body) /\ DOMAIN call.body \subseteq {"price", "cut"} /\ ~Needs(call.body)
    <3>1. "cut" \notin DOMAIN call.body => DOMAIN call.body \cap PriceFields = {}
      BY <2>3 DEF Needs
    <3>2. IsProduct(products[p]) /\ call.op \in Pricing
      BY <1>3, CatalogueTypes DEF Pricing
    <3> QED
      BY <1>1, <1>2, <2>3, <3>1, <3>2, SendsPrices
  <2> QED
    BY <1>3, <2>1, <2>2, <2>3
<1>5. /\ Sending(call, p, call.body).op = call.op /\ Sending(call, p, call.body).todo = call.todo
      /\ Sending(call, p, call.body).dirty = call.dirty
  BY <1>1, <1>2, SendingFields
<1> QED
  BY <1>1, <1>2, <1>3, <1>4, <1>5, CallKeeps DEF Send

LEMMA CalculateScoreKeeps ==
  ASSUME CatalogueInv, NEW c \in Writers, CalculateScore(c)
  PROVE  CatalogueInv'
<1> PICK call : call = writers[c]
  OBVIOUS
<1>1. PICK p \in call.todo :
        writers' = [writers EXCEPT ![c] = Sending(call, p, [score |-> Score(products[p])])]
  BY CatalogueTypes DEF CalculateScore
<1> PICK body : body = [score |-> Score(products[p])]
  OBVIOUS
<1>2. call.pc = "score" /\ Sound(call, products) /\ IsCall(call, products)
  BY DEF CalculateScore, Stands, CatalogueInv, Sound
<1>3. call.op = "sale" /\ p \in Products
  BY <1>1, <1>2 DEF IsCall
<1>4. ScoreBody(body)
  BY <1>3, CatalogueTypes, ScoreTypes DEF ScoreBody
<1>5. Sound(Sending(call, p, body), products)
  BY <1>1, <1>2, <1>3, <1>4, SendsScore DEF Scoring
<1>6. /\ Sending(call, p, body).op = call.op /\ Sending(call, p, body).todo = call.todo
      /\ Sending(call, p, body).dirty = call.dirty
      /\ Sending(call, p, body).pc # "idle"
  BY <1>1, <1>2, SendingFields
<1> QED
  BY <1>1, <1>2, <1>3, <1>5, <1>6, CallKeeps DEF CalculateScore

LEMMA HookKeeps ==
  ASSUME CatalogueInv, NEW c \in Writers, Hook(c)
  PROVE  CatalogueInv'
<1> PICK call : call = writers[c]
  OBVIOUS
<1> PICK d : d = products[call.product]
  OBVIOUS
<1> DEFINE price == IF "price" \in DOMAIN call.body THEN call.body.price ELSE d.price
           cut == IF "cut" \in DOMAIN call.body THEN call.body.cut ELSE d.cut
<1> PICK body : body = Updated(Discounted(price, cut), call.body)
  OBVIOUS
<1> PICK next : next = [call EXCEPT !.pc = "write", !.body = body]
  OBVIOUS
<1>1. writers' = [writers EXCEPT ![c] = next]
  <2>1. writers' = [writers EXCEPT ![c].pc = "write", ![c].body = body]
    BY DEF Hook
  <2> QED
    BY <2>1, CatalogueTypes
<1>2. call.pc = "hook" /\ Sound(call, products) /\ IsCall(call, products)
  BY DEF Hook, Stands, CatalogueInv, Sound
<1>3. /\ call.op \in Pricing /\ PriceBody(call.body)
      /\ call.product \in call.todo /\ call.product \in Products /\ IsProduct(d)
  BY <1>2, CatalogueTypes DEF IsCall
<1>4. cut \in Cuts \cup {NoCut}
  BY <1>3 DEF PriceBody, IsProduct
<1>5. PriceBody(body) /\ Agrees(Updated(body, d))
  BY <1>3, <1>4, CompletedAgrees
<1>6. next = [pc |-> "write", op |-> call.op, todo |-> call.todo, body |-> body,
              snap |-> call.snap, product |-> call.product, dirty |-> call.dirty]
  BY <1>2 DEF IsCall
<1>7. /\ next = [pc |-> next.pc, op |-> next.op, todo |-> next.todo, body |-> next.body,
                  snap |-> next.snap, product |-> next.product, dirty |-> next.dirty]
      /\ next.pc = "write" /\ next.product = call.product /\ next.body = body
      /\ next.op = call.op /\ next.todo = call.todo /\ next.snap = call.snap /\ next.dirty = call.dirty
  BY <1>6
<1>8. Sound(next, products)
  <2>1. IsCall(next, products)
    BY <1>2, <1>3, <1>5, <1>7 DEF IsCall
  <2>2. DiscountSound(next, products)
    BY <1>2, <1>5, <1>7 DEF Sound, DiscountSound
  <2> QED
    BY <2>1, <2>2 DEF Sound
<1> HIDE DEF price, cut
<1>9. UNCHANGED <<products, raced>>
  BY DEF Hook
<1> QED
  BY <1>1, <1>2, <1>3, <1>7, <1>8, <1>9, CallKeeps

LEMMA FindKeeps ==
  ASSUME CatalogueInv, NEW c \in Writers, Find(c)
  PROVE  CatalogueInv'
<1> PICK call : call = writers[c]
  OBVIOUS
<1> PICK next : next = [call EXCEPT !.pc = "next", !.snap = products]
  OBVIOUS
<1>1. writers' = [writers EXCEPT ![c] = next]
  <2>1. writers' = [writers EXCEPT ![c].pc = "next", ![c].snap = products]
    BY DEF Find
  <2> QED
    BY <2>1, CatalogueTypes
<1>2. call.pc = "find" /\ Sound(call, products) /\ IsCall(call, products)
  BY DEF Find, Stands, CatalogueInv, Sound
<1>3. call.op \in OfScripts /\ \A p \in call.todo : p \in Products /\ IsProduct(products[p])
  BY <1>2, CatalogueTypes DEF IsCall
<1>4. next = [pc |-> "next", op |-> call.op, todo |-> call.todo, body |-> call.body,
              snap |-> products, product |-> call.product, dirty |-> call.dirty]
  BY <1>2 DEF IsCall
<1>5. /\ next = [pc |-> next.pc, op |-> next.op, todo |-> next.todo, body |-> next.body,
                  snap |-> next.snap, product |-> next.product, dirty |-> next.dirty]
      /\ next.pc = "next" /\ next.snap = products
      /\ next.op = call.op /\ next.todo = call.todo /\ next.dirty = call.dirty
  BY <1>4
<1>6. Sound(next, products)
  <2>1. IsCall(next, products)
    BY <1>2, <1>3, <1>5 DEF IsCall
  <2>2. DiscountSound(next, products)
    BY <1>5 DEF DiscountSound, SamePrices
  <2> QED
    BY <2>1, <2>2 DEF Sound
<1>7. UNCHANGED <<products, raced>>
  BY DEF Find
<1>8. /\ writers[c].pc # "idle"
      /\ next.op = writers[c].op /\ next.todo = writers[c].todo /\ next.dirty = writers[c].dirty
  BY <1>2, <1>5, <1>7
<1> QED
  BY <1>1, <1>6, <1>7, <1>8, CallKeeps

\* What a script sends for what it has read.
LEMMA ScriptSends ==
  ASSUME NEW call, NEW goods, Sound(call, goods), call.pc = "next", NEW p \in call.todo, IsProduct(goods[p]),
         NEW body, body = ScriptWrites(call.op, call.snap[p]), DOMAIN body # {}
  PROVE  Sound(Sending(call, p, body), goods)
<1> PICK d : d = call.snap[p]
  OBVIOUS
<1>1. call.op \in OfScripts /\ IsProduct(d)
  BY DEF Sound, IsCall
<1>2. CASE call.op = "migrate"
  <2>1. body = Migrated(d) /\ call.op \in Pricing
    BY <1>2 DEF ScriptWrites, Pricing
  <2>2. PriceBody(body) /\ Needs(body)
    BY <1>1, <2>1, MigratedBody DEF Needs
  <2> QED
    BY <2>1, <2>2, SendsToHook
<1>3. CASE call.op = "fix"
  <2>1. body = Fixed(d) /\ call.op \in Pricing
    BY <1>3 DEF ScriptWrites, Pricing
  <2>2. PriceBody(body) /\ "price" \notin DOMAIN body
    BY <1>1, <2>1, FixedBody
  <2>3. CASE "cut" \in DOMAIN body
    <3>1. Needs(body)
      BY <2>2, <2>3 DEF Needs
    <3> QED
      BY <2>1, <2>2, <3>1, SendsToHook
  <2>4. CASE "cut" \notin DOMAIN body
    <3>1. ~Needs(body)
      BY <2>2, <2>4 DEF Needs
    <3>2. p \notin call.dirty => SamePrices(d, goods[p])
      BY <1>3 DEF Sound, DiscountSound
    <3>3. p \notin call.dirty => Agrees(Updated(body, goods[p]))
      BY <1>1, <2>1, <2>4, <3>2, FixedBody
    <3> QED
      BY <2>1, <2>2, <3>1, <3>3, SendsPrices
  <2> QED
    BY <2>3, <2>4
<1>4. CASE call.op = "scores"
  <2>1. body = [score |-> Score(d)] /\ call.op \in Scoring
    BY <1>4 DEF ScriptWrites, Scored, Scoring
  <2>2. ScoreBody(body)
    BY <1>1, <2>1, ScoreTypes DEF ScoreBody
  <2> QED
    BY <2>1, <2>2, SendsScore
<1> QED
  BY <1>1, <1>2, <1>3, <1>4 DEF OfScripts

LEMMA VisitKeeps ==
  ASSUME CatalogueInv, NEW c \in Writers, Visit(c)
  PROVE  CatalogueInv'
<1> PICK call : call = writers[c]
  OBVIOUS
<1>1. call.pc = "next" /\ Sound(call, products) /\ IsCall(call, products)
  BY DEF Visit, Stands, CatalogueInv, Sound
<1>2. PICK p \in call.todo :
        LET body == ScriptWrites(call.op, call.snap[p]) IN
        writers' = [writers EXCEPT ![c] = IF DOMAIN body = {} THEN Passed(call, p) ELSE Sending(call, p, body)]
  BY CatalogueTypes DEF Visit
<1> PICK body : body = ScriptWrites(call.op, call.snap[p])
  OBVIOUS
<1>3. IsProduct(products[p])
  BY <1>1, <1>2, CatalogueTypes DEF IsCall
<1>4. UNCHANGED <<products, raced>>
  BY DEF Visit
<1>5. CASE DOMAIN body = {}
  <2> PICK next : next = Passed(call, p)
    OBVIOUS
  <2>1. writers' = [writers EXCEPT ![c] = next]
    BY <1>2, <1>5
  <2>2. Sound(next, products)
    BY <1>1, <1>2, PassedSound
  <2>3. next.pc # "idle" =>
          next.op = writers[c].op /\ next.todo \subseteq writers[c].todo /\ writers[c].dirty \subseteq next.dirty
    BY <1>1, <1>2, PassedSound DEF NoWriter
  <2> QED
    BY <1>1, <1>3, <1>4, <2>1, <2>2, <2>3, CallKeeps
<1>6. CASE DOMAIN body # {}
  <2> PICK next : next = Sending(call, p, body)
    OBVIOUS
  <2>1. writers' = [writers EXCEPT ![c] = next]
    BY <1>2, <1>6
  <2>2. Sound(next, products)
    BY <1>1, <1>2, <1>3, <1>6, ScriptSends
  <2>3. next.op = writers[c].op /\ next.todo = writers[c].todo /\ next.dirty = writers[c].dirty
    BY <1>1, <1>2, SendingFields
  <2> QED
    BY <1>1, <1>3, <1>4, <2>1, <2>2, <2>3, CallKeeps
<1> QED
  BY <1>5, <1>6

\* A failed call leaves what it has not written.
LEMMA WriterFailsKeeps ==
  ASSUME CatalogueInv, NEW c \in Writers, WriterFails(c)
  PROVE  CatalogueInv'
<1>1. writers' = [writers EXCEPT ![c] = NoWriter] /\ products' = products /\ NoWriter.pc = "idle"
  BY DEF WriterFails, NoWriter
<1>2. /\ writers' = [d \in Writers |-> writers'[d]] /\ writers'[c] = NoWriter
      /\ \A d \in Writers \ {c} : writers'[d] = writers[d]
      /\ \A d \in Writers : \A e \in Writers \ {d} : Apart(d, e)'
  BY <1>1, OthersShrink
<1>3. products' = [p \in Products |-> products'[p]]
  BY <1>1 DEF CatalogueInv
<1>4. Sound(NoWriter, products)
  BY <1>1 DEF Sound
<1>5. \A d \in Writers : Sound(writers'[d], products')
  BY <1>1, <1>2, <1>4 DEF CatalogueInv
<1>6. \A p \in Products : ProductInv(p)'
  BY <1>1 DEF CatalogueInv, ProductInv, WriterFails
<1> QED
  BY <1>2, <1>3, <1>5, <1>6 DEF CatalogueInv

-----------------------------------------------------------------------------
(* Calls that begin.                                                       *)

LEMMA Starting ==
  ASSUME CatalogueInv, NEW c \in Writers, writers[c].pc = "idle",
         NEW op, NEW pc, NEW todo, NEW body, StartWriting(c, op, pc, todo, body), pc # "idle"
  PROVE  /\ writers' = [d \in Writers |-> writers'[d]]
         /\ writers'[c] = [pc |-> pc, op |-> op, todo |-> todo, body |-> body, snap |-> << >>,
                           product |-> NoCut, dirty |-> writers'[c].dirty]
         /\ \A d \in Writers \ {c} :
              /\ writers'[d].pc = writers[d].pc
              /\ Sound(writers'[d], products)
              /\ writers[d].pc # "idle" =>
                   /\ writers'[d].op = writers[d].op /\ writers'[d].todo = writers[d].todo
                   /\ {op, writers[d].op} \subseteq Pricing =>
                        todo \cap writers[d].todo \subseteq writers'[d].dirty
         /\ \A d \in Writers : \A e \in Writers \ {d} : Apart(d, e)'
<1> DEFINE rivals == Rivals(c, op)
<1> PICK dirty : dirty = todo \cap UNION {Holds(e) : e \in rivals}
  OBVIOUS
<1>1. /\ writers' = [d \in Writers |-> writers'[d]]
      /\ writers'[c] = [pc |-> pc, op |-> op, todo |-> todo, body |-> body, snap |-> << >>,
                        product |-> NoCut, dirty |-> dirty]
      /\ \A d \in Writers \ {c} :
           writers'[d] = IF d \in rivals THEN [writers[d] EXCEPT !.dirty = @ \cup (todo \cap Holds(d))]
                                         ELSE writers[d]
  BY DEF StartWriting
<1>2. rivals = {d \in Writers \ {c} : op \in Pricing /\ writers[d].pc # "idle" /\ writers[d].op \in Pricing}
  BY DEF Rivals, Stands
<1> HIDE DEF rivals
<1>3. ASSUME NEW d \in Writers \ {c}
      PROVE  /\ writers'[d].pc = writers[d].pc
             /\ Sound(writers'[d], products)
             /\ writers[d].pc # "idle" =>
                  /\ writers'[d].op = writers[d].op /\ writers'[d].todo = writers[d].todo
                  /\ writers[d].dirty \subseteq writers'[d].dirty
                  /\ {op, writers[d].op} \subseteq Pricing =>
                       todo \cap writers[d].todo \subseteq writers'[d].dirty
  <2>1. Sound(writers[d], products)
    BY DEF CatalogueInv
  <2>2. CASE d \in rivals
    <3> PICK call : call = writers[d]
      OBVIOUS
    <3> PICK next : next = [call EXCEPT !.dirty = @ \cup (todo \cap Holds(d))]
      OBVIOUS
    <3>1. writers'[d] = next /\ call.pc # "idle" /\ Holds(d) = call.todo
      BY <1>1, <1>2, <2>2 DEF Holds, Stands
    <3>2. Sound(next, products)
      BY <2>1, <3>1, DirtierSound
    <3>3. call = [pc |-> call.pc, op |-> call.op, todo |-> call.todo, body |-> call.body,
                  snap |-> call.snap, product |-> call.product, dirty |-> call.dirty]
      BY <2>1, <3>1 DEF Sound, IsCall
    <3>4. /\ next.pc = call.pc /\ next.op = call.op /\ next.todo = call.todo
          /\ next.dirty = call.dirty \cup (todo \cap call.todo)
      BY <3>1, <3>3
    <3> QED
      BY <3>1, <3>2, <3>4
  <2>3. CASE d \notin rivals
    BY <1>1, <1>2, <2>1, <2>3
  <2> QED
    BY <2>2, <2>3
<1>4. \A d \in Writers \ {c} : Shrinks(d)
  BY <1>3 DEF Shrinks
<1>5. ASSUME NEW d \in Writers \ {c}
      PROVE  Apart(c, d)' /\ Apart(d, c)'
  <2>1. SUFFICES ASSUME NEW p \in Holds(c)' \cap Holds(d)', {writers'[c].op, writers'[d].op} \subseteq Pricing
                 PROVE  p \in writers'[c].dirty \cap writers'[d].dirty
    BY DEF Apart, Pricing
  <2>2. p \in todo /\ writers'[d].pc # "idle" /\ p \in writers'[d].todo /\ writers'[c].op = op
    BY <1>1, <2>1 DEF Holds, Stands
  <2>3. writers[d].pc # "idle" /\ p \in writers[d].todo /\ {op, writers[d].op} \subseteq Pricing
    BY <1>3, <2>1, <2>2
  <2>4. p \in writers'[d].dirty
    BY <1>3, <2>2, <2>3
  <2>5. d \in rivals /\ p \in Holds(d)
    BY <1>2, <2>3 DEF Holds, Stands
  <2>6. p \in writers'[c].dirty
    BY <1>1, <2>2, <2>5
  <2> QED
    BY <2>4, <2>6
<1>6. \A d \in Writers : \A e \in Writers \ {d} : Apart(d, e)'
  <2>1. SUFFICES ASSUME NEW d \in Writers, NEW e \in Writers \ {d} PROVE Apart(d, e)'
    OBVIOUS
  <2>2. CASE d = c \/ e = c
    BY <1>5, <2>2
  <2>3. CASE d # c /\ e # c
    <3>1. Apart(d, e) /\ Shrinks(d) /\ Shrinks(e)
      BY <1>4, <2>3 DEF CatalogueInv
    <3> QED
      BY <3>1, ApartStays
  <2> QED
    BY <2>2, <2>3
<1> QED
  BY <1>1, <1>3, <1>6

\* A call that begins and changes no product.
LEMMA BeginKeeps ==
  ASSUME CatalogueInv, NEW c \in Writers, writers[c].pc = "idle",
         NEW op, NEW pc, NEW todo, NEW body, StartWriting(c, op, pc, todo, body), pc # "idle",
         UNCHANGED <<products, raced>>
  PROVE  (\A dirty : Sound([pc |-> pc, op |-> op, todo |-> todo, body |-> body, snap |-> << >>,
                            product |-> NoCut, dirty |-> dirty], products)) => CatalogueInv'
<1>1. /\ writers' = [d \in Writers |-> writers'[d]]
      /\ writers'[c] = [pc |-> pc, op |-> op, todo |-> todo, body |-> body, snap |-> << >>,
                        product |-> NoCut, dirty |-> writers'[c].dirty]
      /\ \A d \in Writers \ {c} : Sound(writers'[d], products)
      /\ \A d \in Writers : \A e \in Writers \ {d} : Apart(d, e)'
  BY Starting
<1> HAVE \A dirty : Sound([pc |-> pc, op |-> op, todo |-> todo, body |-> body, snap |-> << >>,
                           product |-> NoCut, dirty |-> dirty], products)
<1>2. \A d \in Writers : Sound(writers'[d], products')
  <2>1. Sound(writers'[c], products)
    BY <1>1
  <2> QED
    BY <1>1, <2>1
<1>3. products' = [p \in Products |-> products'[p]]
  BY DEF CatalogueInv
<1>4. \A p \in Products : ProductInv(p)'
  BY DEF CatalogueInv, ProductInv
<1> QED
  BY <1>1, <1>2, <1>3, <1>4 DEF CatalogueInv

LEMMA BodiesSent ==
  ASSUME NEW body \in Bodies
  PROVE  \/ OtherBody(body)
         \/ PriceBody(body) /\ DOMAIN body \subseteq {"price", "cut"}
<1>1. CASE \E x \in Prices : body = [price |-> x]
  BY <1>1, CatalogueAssumption DEF PriceBody, PriceFields
<1>2. CASE \E y \in Cuts \cup {NoCut} : body = [cut |-> y]
  BY <1>2 DEF PriceBody, PriceFields
<1>3. CASE \E x \in Prices, y \in Cuts \cup {NoCut} : body = [price |-> x, cut |-> y]
  BY <1>3, CatalogueAssumption DEF PriceBody, PriceFields
<1>4. CASE \E s \in {"hidden", "soldout", "stocked"} : body = [shown |-> s]
  BY <1>4 DEF OtherBody, ShownBody
<1>5. CASE \E r \in Ratings : body = [rating |-> r]
  BY <1>5, CatalogueAssumption DEF OtherBody, RatingBody
<1> QED
  BY <1>1, <1>2, <1>3, <1>4, <1>5 DEF Bodies

LEMMA UpdateProductKeeps ==
  ASSUME CatalogueInv, NEW c \in Writers, NEW p \in Products, NEW body \in Bodies, UpdateProduct(c, p, body)
  PROVE  CatalogueInv'
<1>1. /\ writers[c].pc = "idle" /\ p \in Existing /\ UNCHANGED <<products, raced>>
      /\ StartWriting(c, "update", "begun", {p}, body)
  BY DEF UpdateProduct, Stands
<1>2. products[p].shown # "absent"
  BY <1>1 DEF Existing
<1>3. ASSUME NEW call, NEW dirty,
             call = [pc |-> "begun", op |-> "update", todo |-> {p}, body |-> body, snap |-> << >>,
                     product |-> NoCut, dirty |-> dirty]
      PROVE  Sound(call, products)
  <2>1. IsCall(call, products)
    BY <1>2, <1>3, BodiesSent DEF IsCall, OfScripts
  <2>2. DiscountSound(call, products)
    BY <1>3 DEF DiscountSound
  <2> QED
    BY <2>1, <2>2 DEF Sound
<1> QED
  BY <1>1, <1>3, BeginKeeps

LEMMA RunScriptKeeps ==
  ASSUME CatalogueInv, NEW c \in Writers, NEW op \in OfScripts, RunScript(c, op)
  PROVE  CatalogueInv'
<1>1. /\ writers[c].pc = "idle" /\ UNCHANGED <<products, raced>>
      /\ StartWriting(c, op, "find", Existing, << >>)
  BY DEF RunScript, Stands
<1> PICK todo : todo = Existing
  OBVIOUS
<1>2. \A p \in todo : p \in Products /\ products[p].shown # "absent"
  BY DEF Existing
<1>3. ASSUME NEW call, NEW dirty,
             call = [pc |-> "find", op |-> op, todo |-> todo, body |-> << >>, snap |-> << >>,
                     product |-> NoCut, dirty |-> dirty]
      PROVE  Sound(call, products)
  <2>1. IsCall(call, products)
    BY <1>2, <1>3 DEF IsCall
  <2>2. DiscountSound(call, products)
    BY <1>3 DEF DiscountSound
  <2> QED
    BY <2>1, <2>2 DEF Sound
<1>4. StartWriting(c, op, "find", todo, << >>)
  BY <1>1
<1> QED
  BY <1>1, <1>3, <1>4, BeginKeeps

\* Products that change without their prices, or are not held, disturb no call.
LEMMA ViewKeeps ==
  ASSUME CatalogueInv, NEW p \in Products, View(p)
  PROVE  CatalogueInv'
<1> PICK d : d = products[p]
  OBVIOUS
<1> PICK e : e = [d EXCEPT !.views = @ + 1, !.viewsCount = @ + 1]
  OBVIOUS
<1>1. products' = [products EXCEPT ![p] = e] /\ DOMAIN products = Products /\ IsProduct(d)
  <2>1. products' = [products EXCEPT ![p].views = @ + 1, ![p].viewsCount = @ + 1]
    BY DEF View
  <2> QED
    BY <2>1, CatalogueTypes
<1>2. d.shown # "absent" /\ UNCHANGED <<writers, raced>>
  BY DEF View, Existing
<1>3. /\ products' = [q \in Products |-> products'[q]] /\ products'[p] = e
      /\ \A q \in Products \ {p} : products'[q] = products[q]
  BY <1>1
<1>4. /\ DOMAIN e = Fields /\ e.views = d.views + 1 /\ e.viewsCount = d.viewsCount + 1
      /\ e.salesCount = d.salesCount /\ e.rating = d.rating
      /\ e.shown = d.shown /\ e.price = d.price /\ e.cut = d.cut /\ e.discount = d.discount
      /\ e.onSale = d.onSale /\ e.sales = d.sales /\ e.score = d.score
  BY <1>1 DEF IsProduct, Fields
<1>5. IsProduct(e)
  BY <1>1, <1>4 DEF IsProduct
<1>6. SamePrices(d, e)
  BY <1>4 DEF SamePrices, PriceFields
<1>7. ASSUME NEW c \in Writers
      PROVE  Sound(writers'[c], products')
  <2>1. Sound(writers[c], products)
    BY DEF CatalogueInv
  <2>2. ASSUME writers[c].pc # "idle"
        PROVE  Beside(writers[c], products, products')
    <3>1. SUFFICES ASSUME NEW q \in writers[c].todo
                   PROVE  /\ IsProduct(products[q]) /\ IsProduct(products'[q])
                          /\ products'[q].shown # "absent" /\ SamePrices(products[q], products'[q])
      BY DEF Beside
    <3>2. q \in Products /\ products[q].shown # "absent" /\ IsProduct(products[q])
      BY <2>1, <2>2, CatalogueTypes DEF Sound, IsCall
    <3>3. CASE q = p
      BY <1>1, <1>2, <1>3, <1>4, <1>5, <1>6, <3>3
    <3>4. CASE q # p
      BY <1>3, <3>2, <3>4 DEF SamePrices
    <3> QED
      BY <3>3, <3>4
  <2>3. Sound(writers[c], products')
    BY <2>1, <2>2, SoundStays
  <2> QED
    BY <1>2, <2>3
<1>8. ASSUME NEW q \in Products
      PROVE  ProductInv(q)'
  <2>1. ProductInv(q)
    BY DEF CatalogueInv
  <2>2. CASE q = p
    <3>1. Agrees(d) => Agrees(e)
      BY <1>6, SameAgree
    <3> QED
      BY <1>2, <1>3, <1>4, <1>5, <2>1, <2>2, <3>1 DEF ProductInv
  <2>3. CASE q # p
    BY <1>2, <1>3, <2>1, <2>3 DEF ProductInv
  <2> QED
    BY <2>2, <2>3
<1>9. \A c \in Writers : \A g \in Writers \ {c} : Apart(c, g)'
  BY <1>2 DEF CatalogueInv, Apart, Holds, Stands
<1>10. writers' = [c \in Writers |-> writers'[c]]
  BY <1>2 DEF CatalogueInv
<1> QED
  BY <1>3, <1>7, <1>8, <1>9, <1>10 DEF CatalogueInv

\* A new product is held by nobody.
LEMMA CreateProductKeeps ==
  ASSUME CatalogueInv, NEW p \in Products, NEW price \in Prices, NEW cut \in Cuts \cup {NoCut},
         CreateProduct(p, price, cut)
  PROVE  CatalogueInv'
<1> PICK d : d = [Absent EXCEPT !.shown = "stocked", !.price = price, !.at = Cardinality(Existing) + 1]
  OBVIOUS
<1> PICK body : body = Discounted(price, cut)
  OBVIOUS
<1> PICK e : e = Updated(body, d)
  OBVIOUS
<1>1. products' = [products EXCEPT ![p] = e] /\ DOMAIN products = Products
  BY CatalogueTypes DEF CreateProduct
<1>2. products[p].shown = "absent" /\ UNCHANGED <<writers, raced>>
  BY DEF CreateProduct, Existing
<1>3. /\ products' = [q \in Products |-> products'[q]] /\ products'[p] = e
      /\ \A q \in Products \ {p} : products'[q] = products[q]
  BY <1>1
<1>4. /\ DOMAIN d = Fields /\ d.price = price /\ d.cut = NoCut /\ d.sales = 0 /\ d.views = 0 /\ d.score = 0
      /\ d.salesCount = 0 /\ d.viewsCount = 0 /\ d.rating = 0
  BY DEF Absent, Fields
<1>5. IsProduct(d)
  <2>1. price \in Nat \ {0}
    BY CatalogueAssumption
  <2> QED
    BY <1>4, <2>1 DEF IsProduct
<1>6. /\ PriceBody(body) /\ "price" \notin DOMAIN body
  BY DiscountedFields DEF PriceBody, PriceFields
<1>7. IsProduct(e)
  BY <1>4, <1>5, <1>6, PriceBodyKeeps
<1>8. Agrees(e)
  BY <1>4, <1>5, DiscountedAgrees
<1>9. ASSUME NEW c \in Writers
      PROVE  Sound(writers'[c], products')
  <2>1. Sound(writers[c], products)
    BY DEF CatalogueInv
  <2>2. ASSUME writers[c].pc # "idle"
        PROVE  Beside(writers[c], products, products')
    <3>1. SUFFICES ASSUME NEW q \in writers[c].todo
                   PROVE  /\ IsProduct(products[q]) /\ products'[q] = products[q]
                          /\ products[q].shown # "absent"
      BY DEF Beside, SamePrices
    <3>2. q \in Products /\ products[q].shown # "absent" /\ IsProduct(products[q])
      BY <2>1, <2>2, CatalogueTypes DEF Sound, IsCall
    <3> QED
      BY <1>2, <1>3, <3>2
  <2>3. Sound(writers[c], products')
    BY <2>1, <2>2, SoundStays
  <2> QED
    BY <1>2, <2>3
<1>10. ASSUME NEW q \in Products
       PROVE  ProductInv(q)'
  <2>1. ProductInv(q)
    BY DEF CatalogueInv
  <2>2. CASE q = p
    BY <1>3, <1>7, <1>8, <2>2 DEF ProductInv
  <2>3. CASE q # p
    BY <1>2, <1>3, <2>1, <2>3 DEF ProductInv
  <2> QED
    BY <2>2, <2>3
<1>11. \A c \in Writers : \A g \in Writers \ {c} : Apart(c, g)'
  BY <1>2 DEF CatalogueInv, Apart, Holds, Stands
<1>12. writers' = [c \in Writers |-> writers'[c]]
  BY <1>2 DEF CatalogueInv
<1> QED
  BY <1>3, <1>9, <1>10, <1>11, <1>12 DEF CatalogueInv

LEMMA SaleKeeps ==
  ASSUME CatalogueInv, NEW c \in Writers, NEW p \in Products, Sale(c, p)
  PROVE  CatalogueInv'
<1> PICK d : d = products[p]
  OBVIOUS
<1> PICK e : e = [d EXCEPT !.sales = @ + 1, !.salesCount = @ + 1]
  OBVIOUS
<1>1. products' = [products EXCEPT ![p] = e] /\ DOMAIN products = Products /\ IsProduct(d)
  <2>1. products' = [products EXCEPT ![p].sales = @ + 1, ![p].salesCount = @ + 1]
    BY DEF Sale
  <2> QED
    BY <2>1, CatalogueTypes
<1>2. d.shown # "absent" /\ raced' = raced /\ writers[c].pc = "idle"
  BY DEF Sale, Existing, Stands
<1>3. /\ products' = [q \in Products |-> products'[q]] /\ products'[p] = e
      /\ \A q \in Products \ {p} : products'[q] = products[q]
  BY <1>1
<1>4. /\ DOMAIN e = Fields /\ e.sales = d.sales + 1 /\ e.salesCount = d.salesCount + 1
      /\ e.viewsCount = d.viewsCount /\ e.rating = d.rating
      /\ e.shown = d.shown /\ e.price = d.price /\ e.cut = d.cut /\ e.discount = d.discount
      /\ e.onSale = d.onSale /\ e.views = d.views /\ e.score = d.score
  BY <1>1 DEF IsProduct, Fields
<1>5. IsProduct(e)
  BY <1>1, <1>4 DEF IsProduct
<1>6. SamePrices(d, e)
  BY <1>4 DEF SamePrices, PriceFields
<1>7. PICK op, pc, todo, body : op = "sale" /\ pc = "score" /\ todo = {p} /\ body = << >>
  OBVIOUS
<1> StartWriting(c, op, pc, todo, body) /\ pc # "idle" /\ writers[c].pc = "idle"
  BY <1>7 DEF Sale, Stands
<1>8. /\ writers' = [g \in Writers |-> writers'[g]]
      /\ writers'[c] = [pc |-> "score", op |-> "sale", todo |-> {p}, body |-> << >>, snap |-> << >>,
                        product |-> NoCut, dirty |-> writers'[c].dirty]
      /\ \A g \in Writers \ {c} :
           /\ writers'[g].pc = writers[g].pc
           /\ Sound(writers'[g], products)
           /\ writers[g].pc # "idle" =>
                writers'[g].op = writers[g].op /\ writers'[g].todo = writers[g].todo
      /\ \A g \in Writers : \A h \in Writers \ {g} : Apart(g, h)'
  <2>1. /\ writers' = [g \in Writers |-> writers'[g]]
        /\ writers'[c] = [pc |-> pc, op |-> op, todo |-> todo, body |-> body, snap |-> << >>,
                          product |-> NoCut, dirty |-> writers'[c].dirty]
        /\ \A g \in Writers \ {c} :
             /\ writers'[g].pc = writers[g].pc
             /\ Sound(writers'[g], products)
             /\ writers[g].pc # "idle" =>
                  writers'[g].op = writers[g].op /\ writers'[g].todo = writers[g].todo
        /\ \A g \in Writers : \A h \in Writers \ {g} : Apart(g, h)'
    BY Starting
  <2> QED
    BY <1>7, <2>1
<1>9. ASSUME NEW g \in Writers \ {c}
      PROVE  Sound(writers'[g], products')
  <2> PICK call : call = writers'[g]
    OBVIOUS
  <2>1. Sound(call, products) /\ (call.pc # "idle" => call.op = writers[g].op /\ call.todo = writers[g].todo)
    BY <1>8
  <2>2. ASSUME call.pc # "idle"
        PROVE  Beside(call, products, products')
    <3>1. SUFFICES ASSUME NEW q \in call.todo
                   PROVE  /\ IsProduct(products[q]) /\ IsProduct(products'[q])
                          /\ products'[q].shown # "absent" /\ SamePrices(products[q], products'[q])
      BY DEF Beside
    <3>2. q \in Products /\ products[q].shown # "absent" /\ IsProduct(products[q])
      BY <2>1, <2>2, CatalogueTypes DEF Sound, IsCall
    <3>3. CASE q = p
      BY <1>1, <1>2, <1>3, <1>4, <1>5, <1>6, <3>3
    <3>4. CASE q # p
      BY <1>3, <3>2, <3>4 DEF SamePrices
    <3> QED
      BY <3>3, <3>4
  <2>3. Sound(call, products')
    BY <2>1, <2>2, SoundStays
  <2> QED
    BY <2>3
<1>10. Sound(writers'[c], products')
  <2> PICK call : call = writers'[c]
    OBVIOUS
  <2>1. call = [pc |-> "score", op |-> "sale", todo |-> {p}, body |-> << >>, snap |-> << >>,
                product |-> NoCut, dirty |-> call.dirty]
    BY <1>8
  <2>2. products'[p].shown # "absent"
    BY <1>2, <1>3, <1>4
  <2>3. IsCall(call, products')
    BY <2>1, <2>2 DEF IsCall, OfScripts
  <2>4. DiscountSound(call, products')
    BY <2>1 DEF DiscountSound, Pricing
  <2> QED
    BY <2>3, <2>4 DEF Sound
<1>11. ASSUME NEW q \in Products
       PROVE  ProductInv(q)'
  <2>1. ProductInv(q)
    BY DEF CatalogueInv
  <2>2. CASE q = p
    <3>1. Agrees(d) => Agrees(e)
      BY <1>6, SameAgree
    <3> QED
      BY <1>2, <1>3, <1>5, <2>1, <2>2, <3>1 DEF ProductInv
  <2>3. CASE q # p
    BY <1>2, <1>3, <2>1, <2>3 DEF ProductInv
  <2> QED
    BY <2>2, <2>3
<1>12. \A g \in Writers : Sound(writers'[g], products')
  BY <1>9, <1>10
<1> QED
  BY <1>3, <1>8, <1>11, <1>12 DEF CatalogueInv

-----------------------------------------------------------------------------
(* The write.                                                              *)

\* What a write leaves of its product.
LEMMA WriteBody ==
  ASSUME NEW call, NEW goods, IsCall(call, goods), call.pc = "write", NEW d, d = goods[call.product], IsProduct(d),
         NEW e, e = Updated(call.body, d)
  PROVE  /\ IsProduct(e) /\ (d.shown # "absent" => e.shown # "absent")
         /\ call.op \in Pricing => e.score = d.score
         /\ DOMAIN call.body \cap PriceFields = {} => SamePrices(d, e)
         /\ call.op \in Scoring =>
              e.score = call.body.score /\ SamePrices(d, e) /\ DOMAIN call.body \cap PriceFields = {}
<1>0. call.op \in Pricing => call.op \notin Scoring
  BY DEF Pricing, Scoring
<1>1. \/ call.op \in Pricing /\ PriceBody(call.body)
      \/ call.op \in Pricing /\ OtherBody(call.body)
      \/ call.op \in Scoring /\ ScoreBody(call.body)
  BY DEF IsCall
<1>2. CASE call.op \in Pricing /\ PriceBody(call.body)
  <2>1. IsProduct(e) /\ e.shown = d.shown /\ e.score = d.score
    BY <1>2, PriceBodyKeeps
  <2>2. ASSUME DOMAIN call.body \cap PriceFields = {}
        PROVE  SamePrices(d, e)
    <3>1. DOMAIN call.body \subseteq Fields /\ PriceFields \subseteq Fields
      BY <1>2 DEF PriceBody, PriceFields, Fields
    <3>2. \A f \in Fields \ DOMAIN call.body : e[f] = d[f]
      BY <3>1, UpdatedProduct
    <3> QED
      BY <2>2, <3>1, <3>2 DEF SamePrices
  <2> QED
    BY <1>0, <1>2, <2>1, <2>2
<1>3. CASE call.op \in Pricing /\ OtherBody(call.body)
  <2>1. /\ IsProduct(e) /\ e.score = d.score
        /\ (d.shown # "absent" => e.shown # "absent") /\ SamePrices(e, d)
    BY <1>3, OtherBodyKeeps
  <2>2. SamePrices(d, e)
    BY <2>1 DEF SamePrices
  <2> QED
    BY <1>0, <1>3, <2>1, <2>2
<1>4. CASE call.op \in Scoring /\ ScoreBody(call.body)
  <2>1. /\ IsProduct(e) /\ e.score = call.body.score
        /\ e.shown = d.shown /\ SamePrices(e, d)
    BY <1>4, ScoreBodyKeeps
  <2>2. SamePrices(d, e)
    BY <2>1 DEF SamePrices
  <2>3. DOMAIN call.body \cap PriceFields = {}
    BY <1>4 DEF ScoreBody, PriceFields
  <2> QED
    BY <1>0, <1>4, <2>1, <2>2, <2>3
<1> QED
  BY <1>1, <1>2, <1>3, <1>4

LEMMA WriteProductKeeps ==
  ASSUME CatalogueInv, NEW c \in Writers, WriteProduct(c)
  PROVE  CatalogueInv'
<1> PICK call : call = writers[c]
  OBVIOUS
<1> PICK p : p = call.product
  OBVIOUS
<1> PICK d : d = products[p]
  OBVIOUS
<1> PICK e : e = Updated(call.body, d)
  OBVIOUS
<1> PICK next : next = Passed(call, p)
  OBVIOUS
<1>1. call.pc = "write" /\ Sound(call, products) /\ IsCall(call, products)
  BY DEF WriteProduct, Stands, CatalogueInv, Sound
<1>2. /\ p \in call.todo /\ p \in Products /\ d.shown # "absent" /\ IsProduct(d)
      /\ call.op \in Pricing \/ call.op \in Scoring
  BY <1>1, CatalogueTypes DEF IsCall
<1>3. /\ products' = [products EXCEPT ![p] = e] /\ writers' = [writers EXCEPT ![c] = next]
  BY <1>2, CatalogueTypes DEF WriteProduct
<1>4. raced' = IF DOMAIN call.body \cap PriceFields = {} THEN raced
               ELSE IF p \in call.dirty THEN raced \cup {p} ELSE raced \ {p}
  BY DEF WriteProduct, Priced
<1>5. /\ products' = [q \in Products |-> products'[q]] /\ products'[p] = e
      /\ \A q \in Products \ {p} : products'[q] = products[q]
  BY <1>2, <1>3, CatalogueTypes
<1>6. /\ IsProduct(e) /\ e.shown # "absent"
      /\ DOMAIN call.body \cap PriceFields = {} => SamePrices(d, e)
      /\ call.op \in Scoring => SamePrices(d, e) /\ DOMAIN call.body \cap PriceFields = {}
  BY <1>1, <1>2, WriteBody
<1>8. /\ Sound(next, products)
      /\ next.pc # "idle" => /\ next.op = call.op /\ next.todo = call.todo \ {p} /\ next.dirty = call.dirty
      /\ next.pc = "idle" => call.todo = {p}
  BY <1>1, <1>2, PassedSound DEF NoWriter
<1>9. /\ writers' = [g \in Writers |-> writers'[g]] /\ writers'[c] = next
      /\ \A g \in Writers \ {c} : writers'[g] = writers[g]
      /\ \A g \in Writers : \A h \in Writers \ {g} : Apart(g, h)'
  <2>1. next.pc # "idle" =>
           /\ writers[c].pc # "idle" /\ next.op = writers[c].op
           /\ next.todo \subseteq writers[c].todo /\ writers[c].dirty \subseteq next.dirty
    BY <1>1, <1>8
  <2> QED
    BY <1>3, <2>1, OthersShrink
<1>10. ASSUME NEW g \in Writers
       PROVE  Sound(writers'[g], products')
  <2> PICK other : other = writers'[g]
    OBVIOUS
  <2>1. Sound(other, products)
    BY <1>8, <1>9 DEF CatalogueInv
  <2>2. ASSUME other.pc # "idle"
        PROVE  Beside(other, products, products')
    <3>1. SUFFICES ASSUME NEW q \in other.todo
                   PROVE  /\ IsProduct(products[q]) /\ IsProduct(products'[q])
                          /\ products'[q].shown # "absent"
                          /\ q \notin other.dirty /\ other.op \in Pricing =>
                               SamePrices(products[q], products'[q])
      BY DEF Beside
    <3>2. q \in Products /\ products[q].shown # "absent" /\ IsProduct(products[q])
      BY <2>1, <2>2, CatalogueTypes DEF Sound, IsCall
    <3>3. CASE q = p
      <4>1. g # c
        BY <1>8, <1>9, <2>2, <3>1, <3>3
      <4>2. other = writers[g] /\ p \in Holds(c) \cap Holds(g)
        BY <1>1, <1>2, <1>9, <2>2, <3>1, <3>3, <4>1 DEF Holds, Stands
      <4>3. {other.op, call.op} \subseteq Pricing => p \in other.dirty
        BY <4>1, <4>2 DEF CatalogueInv, Apart
      <4>4. q \notin other.dirty /\ other.op \in Pricing => SamePrices(d, e)
        BY <1>2, <1>6, <3>3, <4>3
      <4> QED
        BY <1>2, <1>5, <1>6, <3>3, <4>4
    <3>4. CASE q # p
      BY <1>5, <3>2, <3>4 DEF SamePrices
    <3> QED
      BY <3>3, <3>4
  <2>3. Sound(other, products')
    BY <2>1, <2>2, SoundStays
  <2> QED
    BY <2>3
<1>11. ASSUME NEW q \in Products
       PROVE  ProductInv(q)'
  <2>1. ProductInv(q)
    BY DEF CatalogueInv
  <2>2. CASE q # p
    <3>1. q \in raced' <=> q \in raced
      BY <1>4, <2>2
    <3> QED
      BY <1>5, <2>1, <2>2, <3>1 DEF ProductInv
  <2>3. CASE q = p /\ DOMAIN call.body \cap PriceFields = {}
    <3>1. SamePrices(d, e) /\ raced' = raced
      BY <1>4, <1>6, <2>3
    <3>2. p \notin raced' => Agrees(e)
      BY <2>1, <2>3, <3>1, SameAgree DEF ProductInv
    <3> QED
      BY <1>5, <1>6, <2>3, <3>2 DEF ProductInv
  <2>4. CASE q = p /\ DOMAIN call.body \cap PriceFields # {}
    <3>1. p \notin raced' => p \notin call.dirty
      BY <1>4, <2>4
    <3>2. call.op \in Pricing
      BY <1>2, <1>6, <2>4
    <3>3. p \notin raced' => Agrees(e)
      BY <1>1, <2>4, <3>1, <3>2 DEF Sound, DiscountSound
    <3> QED
      BY <1>5, <1>6, <2>4, <3>3 DEF ProductInv
  <2> QED
    BY <2>2, <2>3, <2>4
<1> QED
  BY <1>5, <1>9, <1>10, <1>11 DEF CatalogueInv

-----------------------------------------------------------------------------
\* A visitor reads.
LEMMA ReaderKeeps ==
  ASSUME CatalogueInv, UNCHANGED <<products, writers, raced>>
  PROVE  CatalogueInv'
<1>1. /\ products' = [p \in Products |-> products'[p]] /\ writers' = [c \in Writers |-> writers'[c]]
      /\ \A c \in Writers : Sound(writers'[c], products')
  BY DEF CatalogueInv
<1>2. \A c \in Writers : \A d \in Writers \ {c} : Apart(c, d)'
  BY DEF CatalogueInv, Apart, Holds, Stands
<1>3. \A p \in Products : ProductInv(p)'
  BY DEF CatalogueInv, ProductInv
<1> QED
  BY <1>1, <1>2, <1>3 DEF CatalogueInv

LEMMA CatalogueInitInv == CatalogueInit => CatalogueInv
<1> SUFFICES ASSUME CatalogueInit PROVE CatalogueInv
  OBVIOUS
<1>1. /\ products = [p \in Products |-> products[p]]
      /\ \A p \in Products : IsProduct(products[p])
  BY CatalogueAssumption DEF CatalogueInit
<1>2. /\ writers = [c \in Writers |-> writers[c]]
      /\ \A c \in Writers : writers[c].pc = "idle"
  BY DEF CatalogueInit, NoWriter
<1>3. \A c \in Writers : Sound(writers[c], products)
  BY <1>2 DEF Sound
<1>4. \A c \in Writers : \A d \in Writers \ {c} : Apart(c, d)
  BY <1>2 DEF Apart, Holds, Stands
<1>5. \A p \in Products : ProductInv(p)
  BY <1>1 DEF CatalogueInit, ProductInv
<1> QED
  BY <1>1, <1>2, <1>3, <1>4, <1>5 DEF CatalogueInv

(***************************************************************************)
(* Whatever the products to start with, and however requests, sales and    *)
(* scripts interleave: what a running call has read, and what it will      *)
(* write, fits the product unless another call that overlaps it is known.  *)
(***************************************************************************)
THEOREM CatalogueInvariance == CatalogueSpec => []CatalogueInv
<1>1. CatalogueInv /\ [CatalogueNext]_catalogueVars => CatalogueInv'
  <2> SUFFICES ASSUME CatalogueInv, [CatalogueNext]_catalogueVars
               PROVE  CatalogueInv'
    OBVIOUS
  <2>1. ASSUME NEW c \in Writers, NEW p \in Products, NEW body \in Bodies, UpdateProduct(c, p, body)
        PROVE  CatalogueInv'
    BY <2>1, UpdateProductKeeps
  <2>2. ASSUME NEW c \in Writers, NEW p \in Products, Sale(c, p)
        PROVE  CatalogueInv'
    BY <2>2, SaleKeeps
  <2>3. ASSUME NEW c \in Writers,
               \/ Send(c) \/ CalculateScore(c) \/ Hook(c) \/ WriteProduct(c) \/ WriterFails(c)
               \/ Find(c) \/ Visit(c)
        PROVE  CatalogueInv'
    BY <2>3, SendKeeps, CalculateScoreKeeps, HookKeeps, WriteProductKeeps, WriterFailsKeeps, FindKeeps,
       VisitKeeps
  <2>4. ASSUME NEW c \in Writers, NEW op \in {"migrate", "fix", "scores"}, RunScript(c, op)
        PROVE  CatalogueInv'
    BY <2>4, RunScriptKeeps DEF OfScripts
  <2>5. ASSUME NEW p \in Products, NEW x \in Prices, NEW y \in Cuts \cup {NoCut}, CreateProduct(p, x, y)
        PROVE  CatalogueInv'
    BY <2>5, CreateProductKeeps
  <2>6. ASSUME NEW p \in Products, View(p)
        PROVE  CatalogueInv'
    BY <2>6, ViewKeeps
  <2>7. ASSUME NEW kind, NEW sort, StartReading(kind, sort)
        PROVE  CatalogueInv'
    BY <2>7, ReaderKeeps DEF StartReading
  <2>8. CASE ReadPage \/ CountPages
    BY <2>8, ReaderKeeps DEF ReadPage, CountPages
  <2>9. CASE UNCHANGED catalogueVars
    BY <2>9, ReaderKeeps DEF catalogueVars
  <2> QED
    BY <2>1, <2>2, <2>3, <2>4, <2>5, <2>6, <2>7, <2>8, <2>9 DEF CatalogueNext, CatalogueStep
<1> QED
  BY <1>1, CatalogueInitInv, PTL DEF CatalogueSpec

(***************************************************************************)
(* DiscountsAgree: the stored discount is the one the answers compute, but *)
(* after writes that overlapped.                                           *)
(***************************************************************************)
THEOREM DiscountsHold == CatalogueSpec => []DiscountsAgree
<1>1. CatalogueInv => DiscountsAgree
  BY DEF CatalogueInv, ProductInv, DiscountsAgree, Existing
<1> QED
  BY <1>1, CatalogueInvariance, PTL

(***************************************************************************)
(* The discount in an answer is a percentage, whatever is stored; so is    *)
(* the stored one where the two agree.                                     *)
(***************************************************************************)
THEOREM DiscountsInRange ==
  CatalogueSpec => [](\A p \in Existing :
    /\ Enriched(products[p]).discount \in 0..100
    /\ p \notin raced /\ products[p].cut # 0 => products[p].discount \in 0..100)
<1>1. ASSUME CatalogueInv, NEW p \in Existing
      PROVE  /\ Enriched(products[p]).discount \in 0..100
             /\ p \notin raced /\ products[p].cut # 0 => products[p].discount \in 0..100
  <2> PICK d : d = products[p]
    OBVIOUS
  <2>1. /\ d.price \in Nat \ {0} /\ d.cut \in Cuts \cup {NoCut}
        /\ p \notin raced => Agrees(d)
    BY <1>1 DEF CatalogueInv, ProductInv, IsProduct, Existing
  <2>2. Enriched(d).discount \in 0..100
    <3>1. CASE d.cut # NoCut /\ d.cut < d.price
      <4>1. d.cut \in Nat
        BY <2>1, <3>1, CatalogueAssumption
      <4>2. Percent(d.price, d.cut) \in 0..100
        BY <2>1, <3>1, <4>1, PercentRounds
      <4> QED
        BY <3>1, <4>2 DEF Enriched
    <3>2. CASE ~(d.cut # NoCut /\ d.cut < d.price)
      BY <3>2 DEF Enriched
    <3> QED
      BY <3>1, <3>2
  <2>3. Agrees(d) /\ d.cut # 0 => d.discount = Enriched(d).discount
    BY DEF Agrees
  <2> QED
    BY <2>1, <2>2, <2>3
<1>2. CatalogueInv => \A p \in Existing :
        /\ Enriched(products[p]).discount \in 0..100
        /\ p \notin raced /\ products[p].cut # 0 => products[p].discount \in 0..100
  BY <1>1
<1> QED
  BY <1>2, CatalogueInvariance, PTL

-----------------------------------------------------------------------------
(* Catalogue: the scores.                                                  *)

\* A scoring call has noted what the formula gives after the step, besides what it had.
LEMMA NotedScores ==
  ASSUME Noted, NEW c \in Writers, IsScoring(writers'[c]), NEW p \in Products, p \in writers'[c].todo
  PROVE  given'[c][p] = given[c][p] \cup {Score(products'[p])}
  BY DEF Noted

\* A call goes on that has what it knows from before, or has read just now.
GoesOn(c) ==
  IsScoring(writers'[c]) =>
    /\ IsScoring(writers[c]) /\ writers'[c].op = writers[c].op /\ writers'[c].snap = writers[c].snap
    /\ writers'[c].todo \subseteq writers[c].todo /\ writers[c].todo \subseteq Products
    /\ writers'[c].pc = "write" =>
         /\ writers'[c].product \in writers'[c].todo
         /\ \/ writers'[c].body.score \in given[c][writers'[c].product]
            \/ writers'[c].body.score = Score(products'[writers'[c].product])

LEMMA GoingOnSound ==
  ASSUME Noted, ScoreInv, NEW c \in Writers, GoesOn(c)
  PROVE  ScoreSound(writers'[c], products', given'[c])
<1> SUFFICES ASSUME IsScoring(writers'[c])
             PROVE  ScoreSound(writers'[c], products', given'[c])
  BY DEF ScoreSound
<1>1. \A p \in writers'[c].todo : /\ p \in writers[c].todo
                                  /\ given'[c][p] = given[c][p] \cup {Score(products'[p])}
  BY NotedScores DEF GoesOn
<1>2. ScoreSound(writers[c], products, given[c]) /\ IsScoring(writers[c])
  BY DEF ScoreInv, GoesOn
<1>3. writers'[c].op = "sale" => \A p \in writers'[c].todo : Score(products'[p]) \in given'[c][p]
  BY <1>1
<1>4. writers'[c].op = "scores" => \A p \in writers'[c].todo : Score(writers'[c].snap[p]) \in given'[c][p]
  BY <1>1, <1>2 DEF GoesOn, ScoreSound
<1>5. writers'[c].pc = "write" => writers'[c].body.score \in given'[c][writers'[c].product]
  BY <1>1 DEF GoesOn
<1> QED
  BY <1>3, <1>4, <1>5 DEF ScoreSound

LEMMA ScoringTodo ==
  ASSUME CatalogueInv, NEW c \in Writers, IsScoring(writers[c])
  PROVE  /\ IsCall(writers[c], products) /\ writers[c].todo \subseteq Products
         /\ writers[c].pc = "write" => writers[c].product \in writers[c].todo
<1>1. IsCall(writers[c], products)
  BY CatalogueTypes DEF IsScoring, Stands
<1> QED
  BY <1>1 DEF IsCall

\* A call that does not move.
LEMMA RestingGoesOn ==
  ASSUME CatalogueInv, ScoreInv, NEW c \in Writers, IsScoring(writers'[c]) => writers'[c] = writers[c]
  PROVE  GoesOn(c)
<1> SUFFICES ASSUME IsScoring(writers'[c]) PROVE GoesOn(c)
  BY DEF GoesOn
<1>1. writers'[c] = writers[c] /\ IsScoring(writers[c])
  OBVIOUS
<1>2. ScoreSound(writers[c], products, given[c])
  BY DEF ScoreInv
<1> QED
  BY <1>1, <1>2, ScoringTodo DEF GoesOn, ScoreSound

\* Nobody's call moves, or one that stores no score begins.
LEMMA AllRest ==
  ASSUME CatalogueInv, ScoreInv, Noted, \A c \in Writers : IsScoring(writers'[c]) => writers'[c] = writers[c]
  PROVE  ScoreInv'
<1>1. \A c \in Writers : GoesOn(c)
  BY RestingGoesOn
<1> QED
  BY <1>1, GoingOnSound DEF ScoreInv

LEMMA OneMoves ==
  ASSUME CatalogueInv, ScoreInv, Noted, NEW c \in Writers, GoesOn(c),
         NEW next, writers' = [writers EXCEPT ![c] = next]
  PROVE  ScoreInv'
<1>1. \A d \in Writers \ {c} : writers'[d] = writers[d]
  BY CatalogueTypes
<1>2. \A d \in Writers : GoesOn(d)
  BY <1>1, RestingGoesOn
<1> QED
  BY <1>2, GoingOnSound DEF ScoreInv

LEMMA BeginningScores ==
  ASSUME CatalogueInv, NEW c \in Writers, writers[c].pc = "idle",
         NEW op, NEW pc, NEW todo, NEW body, StartWriting(c, op, pc, todo, body), pc # "idle",
         NEW d \in Writers \ {c}, IsScoring(writers'[d])
  PROVE  writers'[d] = writers[d]
<1>1. /\ writers'[d].pc = writers[d].pc
      /\ writers[d].pc # "idle" => writers'[d].op = writers[d].op
  BY Starting
<1>2. writers[d].op \in Scoring
  BY <1>1 DEF IsScoring
<1>3. d \notin Rivals(c, op)
  BY <1>2 DEF Rivals, Pricing, Scoring
<1>4. DOMAIN writers = Writers
  BY CatalogueTypes
<1> QED
  BY <1>3 DEF StartWriting

LEMMA SaleScores ==
  ASSUME CatalogueInv, ScoreInv, Noted, NEW c \in Writers, NEW p \in Products, Sale(c, p)
  PROVE  ScoreInv'
<1>1. PICK op, pc, todo, body : op = "sale" /\ pc = "score" /\ todo = {p} /\ body = << >>
  OBVIOUS
<1> StartWriting(c, op, pc, todo, body) /\ pc # "idle" /\ writers[c].pc = "idle"
  BY <1>1 DEF Sale, Stands
<1>2. ScoreSound(writers'[c], products', given'[c])
  <2>1. writers'[c] = [pc |-> pc, op |-> op, todo |-> todo, body |-> body, snap |-> << >>,
                       product |-> NoCut, dirty |-> writers'[c].dirty]
    BY Starting
  <2>2. writers'[c].pc = "score" /\ writers'[c].op = "sale" /\ writers'[c].todo = {p}
    BY <1>1, <2>1
  <2>3. IsScoring(writers'[c])
    BY <2>2 DEF IsScoring, Scoring
  <2>4. Score(products'[p]) \in given'[c][p]
    BY <2>2, <2>3, NotedScores
  <2> QED
    BY <2>2, <2>4 DEF ScoreSound
<1>3. \A d \in Writers \ {c} : IsScoring(writers'[d]) => writers'[d] = writers[d]
  BY <1>1, BeginningScores
<1>4. \A d \in Writers \ {c} : ScoreSound(writers'[d], products', given'[d])
  BY <1>3, RestingGoesOn, GoingOnSound
<1> QED
  BY <1>2, <1>4 DEF ScoreInv

LEMMA BeginScores ==
  ASSUME CatalogueInv, ScoreInv, Noted, NEW c \in Writers, writers[c].pc = "idle",
         NEW op, NEW pc, NEW todo, NEW body, StartWriting(c, op, pc, todo, body), pc # "idle",
         op \notin Scoring \/ pc = "find"
  PROVE  ScoreInv'
<1>1. ~IsScoring(writers'[c])
  <2>1. writers'[c] = [pc |-> pc, op |-> op, todo |-> todo, body |-> body, snap |-> << >>,
                       product |-> NoCut, dirty |-> writers'[c].dirty]
    BY Starting
  <2>2. writers'[c].pc = pc /\ writers'[c].op = op
    BY <2>1
  <2> QED
    BY <2>2 DEF IsScoring
<1>2. \A d \in Writers : IsScoring(writers'[d]) => writers'[d] = writers[d]
  BY <1>1, BeginningScores
<1> QED
  BY <1>2, AllRest

LEMMA CalculateScoreScores ==
  ASSUME CatalogueInv, ScoreInv, Noted, NEW c \in Writers, CalculateScore(c)
  PROVE  ScoreInv'
<1> PICK call : call = writers[c]
  OBVIOUS
<1>1. PICK p \in call.todo :
        writers' = [writers EXCEPT ![c] = Sending(call, p, [score |-> Score(products[p])])]
  BY CatalogueTypes DEF CalculateScore
<1> PICK body : body = [score |-> Score(products[p])]
  OBVIOUS
<1> PICK next : next = Sending(call, p, body)
  OBVIOUS
<1>2. call.pc = "score" /\ IsCall(call, products)
  BY DEF CalculateScore, Stands, CatalogueInv, Sound
<1>3. IsScoring(call) /\ call.todo \subseteq Products
  BY <1>2 DEF IsCall, IsScoring, Scoring
<1>4. /\ next.op = call.op /\ next.todo = call.todo /\ next.snap = call.snap
      /\ next.product = p /\ next.body = Completed(body)
  BY <1>1, <1>2, SendingFields
<1>5. next.body.score = Score(products[p])
  BY <1>4 DEF Completed
<1>6. writers' = [writers EXCEPT ![c] = next] /\ writers'[c] = next /\ products' = products
  BY <1>1, CatalogueTypes DEF CalculateScore
<1>7. GoesOn(c)
  BY <1>1, <1>3, <1>4, <1>5, <1>6 DEF GoesOn
<1> QED
  BY <1>6, <1>7, OneMoves

LEMMA FindScores ==
  ASSUME CatalogueInv, ScoreInv, Noted, NEW c \in Writers, Find(c)
  PROVE  ScoreInv'
<1> PICK call : call = writers[c]
  OBVIOUS
<1> PICK next : next = [call EXCEPT !.pc = "next", !.snap = products]
  OBVIOUS
<1>1. writers' = [writers EXCEPT ![c] = next] /\ products' = products
  <2>1. writers' = [writers EXCEPT ![c].pc = "next", ![c].snap = products]
    BY DEF Find
  <2> QED
    BY <2>1, CatalogueTypes DEF Find
<1>2. call.pc = "find" /\ IsCall(call, products)
  BY DEF Find, Stands, CatalogueInv, Sound
<1>3. /\ next.pc = "next" /\ next.op = call.op /\ next.todo = call.todo /\ next.snap = products
  <2>1. next = [pc |-> "next", op |-> call.op, todo |-> call.todo, body |-> call.body,
                snap |-> products, product |-> call.product, dirty |-> call.dirty]
    BY <1>2 DEF IsCall
  <2> QED
    BY <2>1
<1>4. writers'[c] = next /\ \A d \in Writers \ {c} : writers'[d] = writers[d]
  BY <1>1, CatalogueTypes
<1>5. ScoreSound(writers'[c], products', given'[c])
  <2>1. SUFFICES ASSUME IsScoring(next) PROVE ScoreSound(next, products, given'[c])
    BY <1>1, <1>4 DEF ScoreSound
  <2>2. \A p \in next.todo : Score(products[p]) \in given'[c][p]
    <3>1. next.todo \subseteq Products
      BY <1>2, <1>3 DEF IsCall
    <3> QED
      BY <1>1, <1>4, <2>1, <3>1, NotedScores
  <2> QED
    BY <1>3, <2>2 DEF ScoreSound
<1>6. \A d \in Writers \ {c} : ScoreSound(writers'[d], products', given'[d])
  BY <1>4, RestingGoesOn, GoingOnSound
<1> QED
  BY <1>5, <1>6 DEF ScoreInv

LEMMA VisitScores ==
  ASSUME CatalogueInv, ScoreInv, Noted, NEW c \in Writers, Visit(c)
  PROVE  ScoreInv'
<1> PICK call : call = writers[c]
  OBVIOUS
<1>1. call.pc = "next" /\ Sound(call, products) /\ IsCall(call, products)
  BY DEF Visit, Stands, CatalogueInv, Sound
<1>2. PICK p \in call.todo :
        LET body == ScriptWrites(call.op, call.snap[p]) IN
        writers' = [writers EXCEPT ![c] = IF DOMAIN body = {} THEN Passed(call, p) ELSE Sending(call, p, body)]
  BY CatalogueTypes DEF Visit
<1> PICK body : body = ScriptWrites(call.op, call.snap[p])
  OBVIOUS
<1> PICK next : next = (IF DOMAIN body = {} THEN Passed(call, p) ELSE Sending(call, p, body))
  OBVIOUS
<1>3. writers' = [writers EXCEPT ![c] = next] /\ writers'[c] = next /\ products' = products
  BY <1>2, CatalogueTypes DEF Visit
<1>4. GoesOn(c)
  <2> SUFFICES ASSUME IsScoring(next)
               PROVE  GoesOn(c)
    BY <1>3 DEF GoesOn
  <2>1. CASE DOMAIN body = {}
    <3>1. next = Passed(call, p) /\ next # NoWriter
      BY <2>1 DEF IsScoring, NoWriter
    <3>2. call.todo # {p} /\ next = [call EXCEPT !.todo = @ \ {p}, !.pc = "next", !.product = NoCut]
      BY <3>1 DEF Passed
    <3>3. next = [pc |-> "next", op |-> call.op, todo |-> call.todo \ {p}, body |-> call.body,
                  snap |-> call.snap, product |-> NoCut, dirty |-> call.dirty]
      BY <1>1, <3>2 DEF IsCall
    <3>4. /\ next.pc = "next" /\ next.op = call.op /\ next.todo = call.todo \ {p} /\ next.snap = call.snap
      BY <3>3
    <3>5. IsScoring(call)
      BY <1>1, <3>4 DEF IsScoring
    <3>6. call.todo \subseteq Products
      BY <1>1 DEF IsCall
    <3> QED
      BY <1>3, <3>4, <3>5, <3>6 DEF GoesOn
  <2>2. CASE DOMAIN body # {}
    <3>1. /\ next.op = call.op /\ next.todo = call.todo /\ next.snap = call.snap
          /\ next.product = p /\ next.body = Completed(body)
      BY <1>1, <1>2, <2>2, SendingFields
    <3>2. call.op = "scores" /\ IsScoring(call)
      BY <1>1, <3>1 DEF IsScoring, IsCall, Scoring, OfScripts
    <3>3. body = [score |-> Score(call.snap[p])]
      BY <3>2 DEF ScriptWrites, Scored
    <3>4. next.body.score = Score(call.snap[p])
      BY <3>1, <3>3 DEF Completed
    <3>5. Score(call.snap[p]) \in given[c][p]
      BY <3>2 DEF ScoreInv, ScoreSound
    <3>6. call.todo \subseteq Products
      BY <1>1 DEF IsCall
    <3> QED
      BY <1>2, <1>3, <3>1, <3>2, <3>4, <3>5, <3>6 DEF GoesOn
  <2> QED
    BY <2>1, <2>2
<1> QED
  BY <1>3, <1>4, OneMoves

LEMMA WriteProductScores ==
  ASSUME CatalogueInv, ScoreInv, Noted, NEW c \in Writers, WriteProduct(c)
  PROVE  ScoreInv'
<1> PICK call : call = writers[c]
  OBVIOUS
<1> PICK p : p = call.product
  OBVIOUS
<1> PICK next : next = Passed(call, p)
  OBVIOUS
<1>1. call.pc = "write" /\ IsCall(call, products)
  BY DEF WriteProduct, Stands, CatalogueInv, Sound
<1>2. writers' = [writers EXCEPT ![c] = next] /\ writers'[c] = next
  BY CatalogueTypes DEF WriteProduct
<1>3. GoesOn(c)
  <2> SUFFICES ASSUME IsScoring(next)
               PROVE  GoesOn(c)
    BY <1>2 DEF GoesOn
  <2>1. next # NoWriter
    BY DEF IsScoring, NoWriter
  <2>2. next = [call EXCEPT !.todo = @ \ {p}, !.pc = "next", !.product = NoCut]
    BY <2>1 DEF Passed
  <2>3. next = [pc |-> "next", op |-> call.op, todo |-> call.todo \ {p}, body |-> call.body,
                snap |-> call.snap, product |-> NoCut, dirty |-> call.dirty]
    BY <1>1, <2>2 DEF IsCall
  <2>4. /\ next.pc = "next" /\ next.op = call.op /\ next.todo = call.todo \ {p} /\ next.snap = call.snap
    BY <2>3
  <2>5. IsScoring(call)
    BY <1>1, <2>4 DEF IsScoring
  <2>6. call.todo \subseteq Products
    BY <1>1 DEF IsCall
  <2> QED
    BY <1>2, <2>4, <2>5, <2>6 DEF GoesOn
<1> QED
  BY <1>2, <1>3, OneMoves

\* Calls about prices have no score to store.
LEMMA PricingScores ==
  ASSUME CatalogueInv, ScoreInv, Noted, NEW c \in Writers, Send(c) \/ Hook(c) \/ WriterFails(c)
  PROVE  ScoreInv'
<1> PICK call : call = writers[c]
  OBVIOUS
<1>1. DOMAIN writers = Writers
  BY CatalogueTypes
<1>2. CASE Send(c)
  <2>1. PICK p \in call.todo : writers' = [writers EXCEPT ![c] = Sending(call, p, call.body)]
    BY <1>1, <1>2 DEF Send
  <2>2. IsCall(call, products) /\ call.pc = "begun"
    BY <1>2 DEF Send, Stands, CatalogueInv, Sound
  <2>3. call.op = "update" /\ writers'[c].op = "update"
    BY <1>1, <2>1, <2>2, SendingFields DEF IsCall
  <2>4. GoesOn(c)
    BY <2>3 DEF GoesOn, IsScoring, Scoring
  <2> QED
    BY <2>1, <2>4, OneMoves
<1>3. CASE Hook(c)
  <2>1. IsCall(call, products) /\ call.pc = "hook"
    BY <1>3 DEF Hook, Stands, CatalogueInv, Sound
  <2>2. PICK body : writers' = [writers EXCEPT ![c].pc = "write", ![c].body = body]
    BY <1>3 DEF Hook
  <2> PICK next : next = [call EXCEPT !.pc = "write", !.body = body]
    OBVIOUS
  <2>3. writers' = [writers EXCEPT ![c] = next] /\ writers'[c] = next
    BY <1>1, <2>2
  <2>4. next = [pc |-> "write", op |-> call.op, todo |-> call.todo, body |-> body,
                snap |-> call.snap, product |-> call.product, dirty |-> call.dirty]
    BY <2>1 DEF IsCall
  <2>5. next.op = call.op /\ call.op \in Pricing
    BY <2>1, <2>4 DEF IsCall
  <2>6. GoesOn(c)
    BY <2>3, <2>5 DEF GoesOn, IsScoring, Scoring, Pricing
  <2> QED
    BY <2>3, <2>6, OneMoves
<1>4. CASE WriterFails(c)
  <2>1. writers' = [writers EXCEPT ![c] = NoWriter] /\ NoWriter.pc = "idle"
    BY <1>4 DEF WriterFails, NoWriter
  <2>2. GoesOn(c)
    BY <1>1, <2>1 DEF GoesOn, IsScoring
  <2> QED
    BY <2>1, <2>2, OneMoves
<1> QED
  BY <1>2, <1>3, <1>4

(***************************************************************************)
(* Whatever a scoring call has read, or is about to store, the formula of  *)
(* the score gave since its sale was counted or its script had read.       *)
(***************************************************************************)
THEOREM ScoreInvariance == CatalogueSpec => []ScoreInv
<1>1. CatalogueInit => ScoreInv
  BY DEF CatalogueInit, ScoreInv, ScoreSound, IsScoring, NoWriter
<1>2. CatalogueInv /\ ScoreInv /\ [CatalogueNext]_catalogueVars => ScoreInv'
  <2> SUFFICES ASSUME CatalogueInv, ScoreInv, [CatalogueNext]_catalogueVars
               PROVE  ScoreInv'
    OBVIOUS
  <2>1. ASSUME Noted, NEW c \in Writers, NEW p \in Products, NEW body \in Bodies, UpdateProduct(c, p, body)
        PROVE  ScoreInv'
    <3>1. writers[c].pc = "idle" /\ StartWriting(c, "update", "begun", {p}, body) /\ "update" \notin Scoring
      BY <2>1 DEF UpdateProduct, Stands, Scoring
    <3> QED
      BY <2>1, <3>1, BeginScores
  <2>2. ASSUME Noted, NEW c \in Writers, NEW p \in Products, Sale(c, p)
        PROVE  ScoreInv'
    BY <2>2, SaleScores
  <2>3. ASSUME Noted, NEW c \in Writers,
               \/ Send(c) \/ CalculateScore(c) \/ Hook(c) \/ WriteProduct(c) \/ WriterFails(c)
               \/ Find(c) \/ Visit(c)
        PROVE  ScoreInv'
    BY <2>3, PricingScores, CalculateScoreScores, WriteProductScores, FindScores, VisitScores
  <2>4. ASSUME Noted, NEW c \in Writers, NEW op \in {"migrate", "fix", "scores"}, RunScript(c, op)
        PROVE  ScoreInv'
    <3>1. writers[c].pc = "idle" /\ StartWriting(c, op, "find", Existing, << >>)
      BY <2>4 DEF RunScript, Stands
    <3> QED
      BY <2>4, <3>1, BeginScores
  <2>5. ASSUME Noted, UNCHANGED writers
        PROVE  ScoreInv'
    BY <2>5, AllRest
  <2>6. ASSUME Noted, NEW p \in Products, NEW x \in Prices, NEW y \in Cuts \cup {NoCut}, CreateProduct(p, x, y)
        PROVE  ScoreInv'
    BY <2>5, <2>6 DEF CreateProduct
  <2>7. ASSUME Noted, NEW p \in Products, View(p)
        PROVE  ScoreInv'
    BY <2>5, <2>7 DEF View
  <2>8. ASSUME Noted, NEW kind, NEW sort, StartReading(kind, sort)
        PROVE  ScoreInv'
    BY <2>5, <2>8 DEF StartReading
  <2>9. ASSUME Noted, ReadPage \/ CountPages
        PROVE  ScoreInv'
    BY <2>5, <2>9 DEF ReadPage, CountPages
  <2>10. CASE UNCHANGED catalogueVars
    BY <2>10 DEF catalogueVars, ScoreInv, ScoreSound, IsScoring
  <2> QED
    BY <2>1, <2>2, <2>3, <2>4, <2>6, <2>7, <2>8, <2>9, <2>10 DEF CatalogueNext, CatalogueStep
<1> QED
  BY <1>1, <1>2, CatalogueInvariance, PTL DEF CatalogueSpec

\* What a write stores.
LEMMA WrittenScore ==
  ASSUME CatalogueInv, ScoreInv, NEW c \in Writers, WriteProduct(c), NEW p \in Existing,
         products'[p].score # products[p].score
  PROVE  p \in Holds(c) /\ products'[p].score \in given[c][p]
<1> PICK call : call = writers[c]
  OBVIOUS
<1> PICK d : d = products[call.product]
  OBVIOUS
<1> PICK e : e = Updated(call.body, d)
  OBVIOUS
<1>1. call.pc = "write" /\ IsCall(call, products)
  BY DEF WriteProduct, Stands, CatalogueInv, Sound
<1>2. /\ call.product \in call.todo /\ call.product \in Products /\ IsProduct(d)
      /\ call.op \in Pricing \/ call.op \in Scoring
  BY <1>1, CatalogueTypes DEF IsCall
<1>3. products' = [products EXCEPT ![call.product] = e] /\ p \in Products /\ DOMAIN products = Products
  BY <1>2, CatalogueTypes DEF WriteProduct, Existing
<1>4. p = call.product /\ e.score # d.score
  BY <1>2, <1>3
<1>5. call.op \in Scoring /\ e.score = call.body.score
  BY <1>1, <1>2, <1>4, WriteBody
<1>6. call.body.score \in given[c][p]
  BY <1>1, <1>4, <1>5 DEF ScoreInv, ScoreSound, IsScoring
<1> QED
  BY <1>1, <1>2, <1>3, <1>4, <1>5, <1>6 DEF Holds, Stands

\* No other step changes a score.
LEMMA ScoresStay ==
  ASSUME CatalogueInv, CatalogueStep, \A c \in Writers : ~WriteProduct(c), NEW p \in Existing
  PROVE  products'[p].score = products[p].score
<1>1. DOMAIN products = Products /\ p \in Products /\ IsProduct(products[p])
  BY CatalogueTypes DEF Existing
<1>2. CASE \E c \in Writers, q \in Products : Sale(c, q)
  <2>1. PICK q \in Products : products' = [products EXCEPT ![q].sales = @ + 1, ![q].salesCount = @ + 1]
    BY <1>2 DEF Sale
  <2> QED
    BY <1>1, <2>1 DEF IsProduct, Fields
<1>3. CASE \E q \in Products : View(q)
  <2>1. PICK q \in Products : products' = [products EXCEPT ![q].views = @ + 1, ![q].viewsCount = @ + 1]
    BY <1>3 DEF View
  <2> QED
    BY <1>1, <2>1 DEF IsProduct, Fields
<1>4. CASE \E q \in Products, x \in Prices, y \in Cuts \cup {NoCut} : CreateProduct(q, x, y)
  <2>1. PICK q \in Products : q \notin Existing /\ \E e : products' = [products EXCEPT ![q] = e]
    BY <1>4 DEF CreateProduct
  <2>2. q # p
    BY <2>1
  <2> QED
    BY <1>1, <2>1, <2>2
<1>5. CASE UNCHANGED products
  BY <1>5
<1> QED
  BY <1>2, <1>3, <1>4, <1>5
  DEF CatalogueStep, UpdateProduct, Send, CalculateScore, Hook, WriterFails, RunScript, Find, Visit,
      StartReading, ReadPage, CountPages

(***************************************************************************)
(* ScoreFollowsSales: a score that is stored is one the formula gave after *)
(* the sale had counted its units, or since the script had read.           *)
(***************************************************************************)
THEOREM ScoresHold == CatalogueSpec => ScoreFollowsSales
<1>1. ASSUME CatalogueInv, ScoreInv, CatalogueStep, NEW p \in Existing, products'[p].score # products[p].score
      PROVE  \E c \in Writers : p \in Holds(c) /\ products'[p].score \in given[c][p]
  BY <1>1, ScoresStay, WrittenScore
<1>2. CatalogueInv /\ ScoreInv /\ [CatalogueNext]_catalogueVars =>
        [\A p \in Existing : products'[p].score # products[p].score =>
           \E c \in Writers : p \in Holds(c) /\ products'[p].score \in given[c][p]]_catalogueVars
  BY <1>1 DEF CatalogueNext
<1> QED
  BY <1>2, CatalogueInvariance, ScoreInvariance, PTL DEF CatalogueSpec, ScoreFollowsSales

-----------------------------------------------------------------------------
(* Catalogue: the pages of a list.                                         *)

LEMMA GoodsFinite ==
  ASSUME NEW T, T \subseteq Products
  PROVE  IsFiniteSet(T) /\ Cardinality(T) \in Nat
  BY ListAssumption, FS_Subset, FS_CardinalityType

\* Numbers that differ, from 1 to n.
Rank(r, L, n) ==
  /\ IsFiniteSet(L) /\ n = Cardinality(L) /\ r \in [L -> 1..n]
  /\ \A p, q \in L : p # q => r[p] # r[q]

\* Numbers within an interval: no more than it has.
LEMMA RanksFit ==
  ASSUME NEW L, NEW n, NEW r, Rank(r, L, n), NEW E, E \subseteq L,
         NEW a \in Nat, NEW b \in Nat, a <= b + 1, \A q \in E : r[q] \in a..b
  PROVE  IsFiniteSet(E) /\ Cardinality(E) \in Nat /\ Cardinality(E) <= b - a + 1
<1> DEFINE f == [q \in E |-> r[q]]
<1>1. f \in [E -> a..b] /\ \A p, q \in E : f[p] = f[q] => p = q
  BY DEF Rank
<1>2. f \in Injection(E, a..b)
  BY <1>1 DEF Injection, IsInjective
<1>3. IsFiniteSet(a..b) /\ Cardinality(a..b) = (IF a > b THEN 0 ELSE b - a + 1)
  BY FS_Interval
<1> HIDE DEF f
<1>4. Cardinality(E) <= Cardinality(a..b) /\ IsFiniteSet(E)
  BY <1>2, <1>3, FS_Injection
<1>5. Cardinality(E) \in Nat
  BY <1>4, FS_CardinalityType
<1> QED
  BY <1>3, <1>4, <1>5

\* All ranks are taken: as many come before a product as its rank says.
LEMMA RanksFull ==
  ASSUME NEW L, NEW n, NEW r, Rank(r, L, n), NEW p \in L
  PROVE  Cardinality({q \in L : r[q] < r[p]}) >= r[p] - 1
<1> PICK B : B = {q \in L : r[q] < r[p]}
  OBVIOUS
<1> PICK A : A = L \ B
  OBVIOUS
<1>1. n \in Nat /\ IsFiniteSet(L) /\ n = Cardinality(L) /\ r \in [L -> 1..n]
  BY FS_CardinalityType DEF Rank
<1>2. r[p] \in 1..n
  BY <1>1
<1>3. \A q \in A : r[q] \in r[p]..n
  BY <1>1, <1>2
<1>4. Cardinality(A) <= n - r[p] + 1 /\ Cardinality(A) \in Nat /\ IsFiniteSet(A)
  <2>1. A \subseteq L /\ r[p] \in Nat /\ r[p] <= n + 1
    BY <1>1, <1>2
  <2> QED
    BY <1>1, <1>3, <2>1, RanksFit
<1>5. Cardinality(A) = Cardinality(L) - Cardinality(L \cap B)
  BY <1>1, FS_Difference
<1>6. L \cap B = B
  OBVIOUS
<1>7. Cardinality(B) \in Nat
  BY <1>1, <1>6, FS_Intersection, FS_CardinalityType
<1>8. Cardinality(B) >= r[p] - 1
  BY <1>1, <1>2, <1>4, <1>5, <1>6, <1>7
<1> QED
  BY <1>8

LEMMA PageTypes ==
  ASSUME PageInv, CatalogueInv
  PROVE  \A p \in Products : products[p].at \in Nat /\ products[p].price \in Nat
  BY DEF PageInv, CatalogueInv, ProductInv, IsProduct

LEMMA BeforeIrreflexive ==
  ASSUME PageInv, CatalogueInv, NEW sort \in Sorts, NEW p \in Products
  PROVE  ~Before(sort, p, p)
<1>1. products[p].at \in Nat /\ products[p].price \in Nat
  BY PageTypes
<1>2. \A x \in Nat : ~(x > x) /\ ~(x < x)
  OBVIOUS
<1>3. sort = "newest" \/ sort = "oldest" \/ sort = "price-asc"
  BY DEF Sorts
<1>4. /\ sort = "newest" => (Before(sort, p, p) <=> products[p].at > products[p].at)
      /\ sort = "oldest" => (Before(sort, p, p) <=> products[p].at < products[p].at)
      /\ sort = "price-asc" => (Before(sort, p, p) <=> products[p].price < products[p].price)
  BY DEF Before
<1> QED
  BY <1>1, <1>2, <1>3, <1>4

\* A ranking of a list without ties counts the products that come before one.
LEMMA RankingCounts ==
  ASSUME PageInv, CatalogueInv, NEW kind, NEW sort \in Sorts, ~Tied(kind, sort),
         NEW r \in Rankings(kind, sort), NEW p \in Listed(kind)
  PROVE  /\ r[p] \in Nat \ {0}
         /\ Cardinality(Earlier(kind, sort, p)) = r[p] - 1
<1> PICK L, n : L = Listed(kind) /\ n = Cardinality(L)
  OBVIOUS
<1> PICK E : E = Earlier(kind, sort, p)
  OBVIOUS
<1>1. L \subseteq Products /\ IsFiniteSet(L) /\ n \in Nat
  <2>1. L \subseteq Products
    BY DEF Listed, Existing
  <2> QED
    BY <2>1, GoodsFinite
<1>2. /\ r \in [L -> 1..n]
      /\ \A x, y \in L : x # y => r[x] # r[y] /\ (Before(sort, x, y) => r[x] < r[y])
  BY DEF Rankings
<1>3. Rank(r, L, n)
  BY <1>1, <1>2 DEF Rank
<1>4. p \in L /\ r[p] \in 1..n /\ p \in Products
  BY <1>1, <1>2
<1>5. E = {q \in L : r[q] < r[p]}
  <2>1. ASSUME NEW q \in L PROVE Before(sort, q, p) <=> r[q] < r[p]
    <3>1. CASE q = p
      <4>1. ~Before(sort, q, p)
        BY <1>4, <3>1, BeforeIrreflexive
      <4> QED
        BY <1>4, <3>1, <4>1
    <3>2. CASE q # p
      <4>1. Before(sort, q, p) \/ Before(sort, p, q)
        BY <1>4, <3>2 DEF Tied
      <4>2. r[q] \in Nat /\ r[p] \in Nat
        BY <1>2, <1>4
      <4> QED
        BY <1>2, <1>4, <3>2, <4>1, <4>2
    <3> QED
      BY <3>1, <3>2
  <2> QED
    BY <2>1 DEF Earlier
<1>6. Cardinality(E) >= r[p] - 1
  BY <1>3, <1>4, <1>5, RanksFull
<1>7. Cardinality(E) <= r[p] - 1 /\ Cardinality(E) \in Nat
  <2>1. E \subseteq L /\ r[p] - 1 \in Nat /\ 1 \in Nat /\ 1 <= (r[p] - 1) + 1
    BY <1>1, <1>4, <1>5
  <2>2. \A q \in E : r[q] \in 1..(r[p] - 1)
    BY <1>2, <1>4, <1>5
  <2>3. Cardinality(E) \in Nat /\ Cardinality(E) <= (r[p] - 1) - 1 + 1
    BY <1>3, <2>1, <2>2, RanksFit
  <2> QED
    BY <1>4, <2>1, <2>3
<1> QED
  BY <1>1, <1>4, <1>6, <1>7

\* Nothing is written to a product: all that tells products and lists apart stays.
LEMMA SameLists ==
  ASSUME products' = products, NEW kind, NEW sort
  PROVE  /\ Listed(kind)' = Listed(kind)
         /\ \A p : Earlier(kind, sort, p)' = Earlier(kind, sort, p)
<1>1. Listed(kind)' = Listed(kind)
  BY DEF Listed, Existing
<1>2. \A p, q : Before(sort, p, q)' = Before(sort, p, q)
  BY DEF Before
<1> QED
  BY <1>1, <1>2 DEF Earlier

LEMMA ReadPageKeeps ==
  ASSUME PageInv, CatalogueInv, ReadPage
  PROVE  PageInv'
<1> PICK kind, sort, page, base, seen :
      /\ kind = reader.kind /\ sort = reader.sort /\ page = reader.page
      /\ base = reader.base /\ seen = reader.seen
  OBVIOUS
<1> PICK from : from = Skip(kind, page)
  OBVIOUS
<1>0. PICK r \in Rankings(reader.kind, reader.sort) :
        reader' = [reader EXCEPT !.pc = "count",
          !.seen = @ \cup {p \in DOMAIN r : r[p] > Skip(reader.kind, reader.page)
                                            /\ r[p] <= Skip(reader.kind, reader.page) + Limit},
          !.moved = @ \/ Tied(reader.kind, reader.sort)]
  BY DEF ReadPage
<1> PICK shown : shown = {p \in DOMAIN r : r[p] > Skip(reader.kind, reader.page)
                                           /\ r[p] <= Skip(reader.kind, reader.page) + Limit}
  OBVIOUS
<1>1. /\ reader' = [reader EXCEPT !.pc = "count", !.seen = @ \cup shown,
                                  !.moved = @ \/ Tied(reader.kind, reader.sort)]
      /\ r \in Rankings(kind, sort) /\ Tied(reader.kind, reader.sort) = Tied(kind, sort)
      /\ \A p \in DOMAIN r : r[p] > from /\ r[p] <= from + Limit => p \in shown
  BY <1>0
<1>2. /\ products' = products /\ reader.pc = "page" /\ kind \in ListKinds /\ sort \in Sorts
      /\ page \in Nat \ {0} /\ Limit \in Nat \ {0}
  BY CatalogueAssumption DEF ReadPage, PageInv
<1>3. reader = [pc |-> reader.pc, kind |-> kind, sort |-> sort, page |-> page,
                base |-> base, seen |-> seen, moved |-> reader.moved]
  BY DEF PageInv
<1>4. /\ reader'.pc = "count" /\ reader'.kind = kind /\ reader'.sort = sort /\ reader'.page = page
      /\ reader'.base = base
      /\ reader'.seen = seen \cup shown
      /\ reader'.moved = (reader.moved \/ Tied(kind, sort))
      /\ reader' = [pc |-> reader'.pc, kind |-> reader'.kind, sort |-> reader'.sort, page |-> reader'.page,
                    base |-> reader'.base, seen |-> reader'.seen, moved |-> reader'.moved]
  BY <1>1, <1>3
<1>5. ASSUME kind # "site", ~reader'.moved, NEW p \in base \ reader'.seen
      PROVE  p \in Listed(kind) /\ Cardinality(Earlier(kind, sort, p)) >= page * Limit
  <2>1. ~reader.moved /\ ~Tied(kind, sort)
    BY <1>4, <1>5
  <2>2. p \in Listed(kind) /\ Cardinality(Earlier(kind, sort, p)) >= (page - 1) * Limit
    <3>1. UnseenInv
      BY <1>2, <1>5, <2>1 DEF PageInv
    <3>2. p \in base \ seen
      BY <1>4, <1>5
    <3> QED
      BY <1>2, <3>1, <3>2 DEF UnseenInv
  <2>3. r[p] \in Nat \ {0} /\ Cardinality(Earlier(kind, sort, p)) = r[p] - 1
    BY <1>1, <1>2, <2>1, <2>2, RankingCounts
  <2>4. p \in DOMAIN r
    BY <1>1, <2>2 DEF Rankings
  <2>5. from = (page - 1) * Limit
    BY <1>5 DEF Skip
  <2>6. from \in Nat /\ from + Limit = page * Limit
    <3>1. \A x, y \in Nat \ {0} : (x - 1) * y \in Nat /\ (x - 1) * y + y = x * y
      OBVIOUS
    <3> QED
      BY <1>2, <2>5, <3>1
  <2>7. ~(r[p] > from /\ r[p] <= from + Limit)
    BY <1>1, <1>4, <1>5, <2>4
  <2>8. r[p] - 1 >= from
    BY <2>2, <2>3, <2>5
  <2> QED
    BY <1>2, <2>2, <2>3, <2>6, <2>7, <2>8
<1>6. \A p \in Products : products'[p].at \in Nat
  BY <1>2 DEF PageInv
<1>7. kind # "site" /\ ~reader'.moved => UnseenInv'
  <2>1. SUFFICES ASSUME kind # "site", ~reader'.moved PROVE UnseenInv'
    OBVIOUS
  <2>2. \A p \in base \ reader'.seen :
          p \in Listed(kind) /\ Cardinality(Earlier(kind, sort, p)) >= page * Limit
    BY <1>5, <2>1
  <2> QED
    BY <1>2, <1>4, <2>2, SameLists DEF UnseenInv
<1> QED
  BY <1>2, <1>4, <1>6, <1>7 DEF PageInv, PagesCoverList

\* A visitor stops at the last page: nothing comes after it that was there before.
LEMMA CountPagesKeeps ==
  ASSUME PageInv, CatalogueInv, CountPages
  PROVE  PageInv'
<1> PICK kind, sort, page, base, seen :
      /\ kind = reader.kind /\ sort = reader.sort /\ page = reader.page
      /\ base = reader.base /\ seen = reader.seen
  OBVIOUS
<1> PICK n : n = Cardinality(Listed(kind))
  OBVIOUS
<1> PICK pages : pages = (n + Limit - 1) \div Limit
  OBVIOUS
<1>1. /\ products' = products /\ reader.pc = "count" /\ kind \in ListKinds /\ sort \in Sorts
      /\ page \in Nat \ {0} /\ Limit \in Nat \ {0}
      /\ reader' = IF page < pages THEN [reader EXCEPT !.pc = "page", !.page = @ + 1]
                   ELSE [reader EXCEPT !.pc = "done"]
  BY CatalogueAssumption DEF CountPages, PageInv
<1>2. reader = [pc |-> reader.pc, kind |-> kind, sort |-> sort, page |-> page,
                base |-> base, seen |-> seen, moved |-> reader.moved]
  BY DEF PageInv
<1>3. /\ reader'.kind = kind /\ reader'.sort = sort /\ reader'.base = base /\ reader'.seen = seen
      /\ reader'.moved = reader.moved
      /\ reader' = [pc |-> reader'.pc, kind |-> reader'.kind, sort |-> reader'.sort, page |-> reader'.page,
                    base |-> reader'.base, seen |-> reader'.seen, moved |-> reader'.moved]
      /\ page < pages => reader'.pc = "page" /\ reader'.page = page + 1
      /\ ~(page < pages) => reader'.pc = "done" /\ reader'.page = page
  BY <1>1, <1>2
<1>4. \A p \in Products : products'[p].at \in Nat
  BY <1>1 DEF PageInv
<1>5. Listed(kind) \subseteq Products /\ IsFiniteSet(Listed(kind)) /\ n \in Nat
  <2>1. Listed(kind) \subseteq Products
    BY DEF Listed, Existing
  <2> QED
    BY <2>1, GoodsFinite
<1>6. kind # "site" /\ ~reader.moved =>
        \A p \in base \ seen : p \in Listed(kind) /\ Cardinality(Earlier(kind, sort, p)) >= page * Limit
  BY <1>1 DEF PageInv, UnseenInv
<1>7. CASE page < pages
  <2>1. reader'.page - 1 = page
    BY <1>1, <1>3, <1>7
  <2>2. kind # "site" /\ ~reader'.moved => UnseenInv'
    BY <1>1, <1>3, <1>6, <1>7, <2>1, SameLists DEF UnseenInv
  <2>3. reader'.page \in Nat \ {0}
    BY <1>1, <1>3, <1>7
  <2> QED
    BY <1>1, <1>3, <1>4, <1>7, <2>2, <2>3 DEF PageInv, PagesCoverList
<1>8. CASE ~(page < pages)
  <2>1. n <= page * Limit
    <3>1. \A x \in Nat, y \in Nat \ {0}, z \in Nat \ {0} : ~(z < (x + y - 1) \div y) => x <= z * y
      OBVIOUS
    <3> QED
      BY <1>1, <1>5, <1>8, <3>1
  <2>2. ASSUME kind # "site", ~reader.moved, NEW p \in base \ seen
        PROVE  FALSE
    <3> PICK E : E = Earlier(kind, sort, p)
      OBVIOUS
    <3>1. p \in Listed(kind) /\ p \in Products /\ Cardinality(E) >= page * Limit
      BY <1>5, <1>6, <2>2
    <3>2. p \notin E
      BY <1>1, <3>1, BeforeIrreflexive DEF Earlier
    <3>3. E \subseteq Listed(kind)
      BY DEF Earlier
    <3>4. Cardinality(E) <= n /\ (Cardinality(E) = n => E = Listed(kind)) /\ Cardinality(E) \in Nat
      BY <1>5, <3>3, FS_Subset, FS_CardinalityType
    <3>5. page * Limit \in Nat
      BY <1>1
    <3> QED
      BY <1>5, <2>1, <3>1, <3>2, <3>4, <3>5
  <2>3. kind # "site" /\ ~reader'.moved => reader'.base \subseteq reader'.seen
    BY <1>3, <2>2
  <2> QED
    BY <1>1, <1>3, <1>4, <1>8, <2>3 DEF PageInv, PagesCoverList
<1> QED
  BY <1>7, <1>8

LEMMA StartReadingKeeps ==
  ASSUME PageInv, CatalogueInv, NEW kind \in ListKinds, NEW sort \in Sorts, StartReading(kind, sort)
  PROVE  PageInv'
<1>1. /\ products' = products
      /\ reader' = [pc |-> "page", kind |-> kind, sort |-> sort, page |-> 1, base |-> Listed(kind),
                    seen |-> {}, moved |-> FALSE]
  BY DEF StartReading, NoReader
<1>2. /\ reader'.pc = "page" /\ reader'.kind = kind /\ reader'.sort = sort /\ reader'.page = 1
      /\ reader'.base = Listed(kind)
      /\ reader' = [pc |-> reader'.pc, kind |-> reader'.kind, sort |-> reader'.sort, page |-> reader'.page,
                    base |-> reader'.base, seen |-> reader'.seen, moved |-> reader'.moved]
  BY <1>1
<1>3. \A p \in Products : products'[p].at \in Nat
  BY <1>1 DEF PageInv
<1>4. (1 - 1) * Limit = 0
  BY CatalogueAssumption
<1>5. ASSUME NEW p \in Listed(kind)
      PROVE  Cardinality(Earlier(kind, sort, p)) >= 0
  <2>1. Earlier(kind, sort, p) \subseteq Products
    BY DEF Earlier, Listed, Existing
  <2>2. Cardinality(Earlier(kind, sort, p)) \in Nat
    BY <2>1, GoodsFinite
  <2> QED
    BY <2>2
<1>6. UnseenInv'
  BY <1>1, <1>2, <1>4, <1>5, SameLists DEF UnseenInv
<1> QED
  BY <1>2, <1>3, <1>6 DEF PageInv, PagesCoverList

\* A step that leaves the reader on the page: unless he sees the list move, whatever
\* is on it stays there, with what it is sorted by.
LEMMA ListStays ==
  ASSUME PageInv, NEW moved, reader.moved => moved,
         reader' = [reader EXCEPT !.moved = moved],
         \A p \in Products : products'[p].at \in Nat,
         reader.pc # "idle" /\ ~moved =>
           \A p \in Listed(reader.kind) : /\ p \in Listed(reader.kind)'
                                          /\ products'[p].at = products[p].at
                                          /\ products'[p].price = products[p].price
  PROVE  PageInv'
<1> PICK kind, sort, page, base, seen :
      /\ kind = reader.kind /\ sort = reader.sort /\ page = reader.page
      /\ base = reader.base /\ seen = reader.seen
  OBVIOUS
<1>1. reader = [pc |-> reader.pc, kind |-> kind, sort |-> sort, page |-> page,
                base |-> base, seen |-> seen, moved |-> reader.moved]
  BY DEF PageInv
<1>2. /\ reader'.pc = reader.pc /\ reader'.kind = kind /\ reader'.sort = sort /\ reader'.page = page
      /\ reader'.base = base /\ reader'.seen = seen /\ reader'.moved = moved
      /\ reader' = [pc |-> reader'.pc, kind |-> reader'.kind, sort |-> reader'.sort, page |-> reader'.page,
                    base |-> reader'.base, seen |-> reader'.seen, moved |-> reader'.moved]
  BY <1>1
<1>3. ASSUME reader.pc # "idle", ~moved, NEW p \in Listed(kind)
      PROVE  /\ p \in Listed(kind)'
             /\ Cardinality(Earlier(kind, sort, p)') >= Cardinality(Earlier(kind, sort, p))
  <2> PICK old, new : old = Earlier(kind, sort, p) /\ new = Earlier(kind, sort, p)'
    OBVIOUS
  <2>1. \A q \in Listed(kind) : /\ q \in Listed(kind)'
                                /\ products'[q].at = products[q].at
                                /\ products'[q].price = products[q].price
    BY <1>3
  <2>2. \A q \in Listed(kind) : Before(sort, q, p)' <=> Before(sort, q, p)
    BY <1>3, <2>1 DEF Before
  <2>3. old \subseteq new
    BY <2>1, <2>2 DEF Earlier
  <2>4. new \subseteq Products
    BY DEF Earlier, Listed, Existing
  <2>5. IsFiniteSet(new)
    BY <2>4, GoodsFinite
  <2>6. Cardinality(old) <= Cardinality(new)
    BY <2>3, <2>5, FS_Subset
  <2>7. Cardinality(old) \in Nat /\ Cardinality(new) \in Nat
    BY <2>3, <2>5, FS_Subset, FS_CardinalityType
  <2> QED
    BY <1>3, <2>1, <2>6, <2>7
<1>4. ASSUME reader.pc \in {"page", "count"}, kind # "site", ~moved
      PROVE  UnseenInv'
  <2> PICK turned : turned = (IF reader.pc = "page" THEN page - 1 ELSE page) * Limit
    OBVIOUS
  <2>1. UnseenInv /\ page \in Nat \ {0} /\ Limit \in Nat
    BY <1>4, CatalogueAssumption DEF PageInv
  <2>2. turned \in Nat
    BY <2>1
  <2>3. ASSUME NEW p \in base \ seen
        PROVE  p \in Listed(kind)' /\ Cardinality(Earlier(kind, sort, p)') >= turned
    <3>1. p \in Listed(kind) /\ Cardinality(Earlier(kind, sort, p)) >= turned
      BY <2>1, <2>3 DEF UnseenInv
    <3>2. Cardinality(Earlier(kind, sort, p)) \in Nat
      <4>1. Earlier(kind, sort, p) \subseteq Products
        BY DEF Earlier, Listed, Existing
      <4> QED
        BY <4>1, GoodsFinite
    <3>3. Cardinality(Earlier(kind, sort, p)') \in Nat
      <4>1. Earlier(kind, sort, p)' \subseteq Products
        BY DEF Earlier, Listed, Existing
      <4> QED
        BY <4>1, GoodsFinite
    <3>4. /\ p \in Listed(kind)'
          /\ Cardinality(Earlier(kind, sort, p)') >= Cardinality(Earlier(kind, sort, p))
      BY <1>3, <1>4, <3>1
    <3>5. \A x, y, z \in Nat : x >= y /\ y >= z => x >= z
      OBVIOUS
    <3> QED
      BY <2>2, <3>1, <3>2, <3>3, <3>4, <3>5
  <2> QED
    BY <1>2, <2>3 DEF UnseenInv
<1>5. PagesCoverList'
  BY <1>2 DEF PageInv, PagesCoverList
<1>6. reader'.pc \in {"page", "count"} /\ reader'.kind # "site" /\ ~reader'.moved => UnseenInv'
  BY <1>2, <1>4
<1> QED
  BY <1>2, <1>5, <1>6 DEF PageInv

\* A step that the reader takes no part in.
LEMMA PagesStay ==
  ASSUME PageInv, reader' = reader,
         \A p \in Products : products'[p].at \in Nat,
         \A kind : \A p \in Listed(kind) : /\ p \in Listed(kind)'
                                           /\ products'[p].at = products[p].at
                                           /\ products'[p].price = products[p].price
  PROVE  PageInv'
<1>1. reader' = [reader EXCEPT !.moved = reader.moved]
  BY DEF PageInv
<1> QED
  BY <1>1, ListStays

LEMMA ProductsStay ==
  ASSUME PageInv, UNCHANGED <<products, reader>>
  PROVE  PageInv'
<1>1. \A p \in Products : products'[p].at \in Nat
  BY DEF PageInv
<1> QED
  BY <1>1, PagesStay, SameLists

\* What a list goes by stays with one product, and all others stay as they are.
LEMMA OneProduct ==
  ASSUME PageInv, reader' = reader, NEW p \in Products, NEW d, d = products[p],
         NEW e, products' = [products EXCEPT ![p] = e], DOMAIN products = Products,
         e.at \in Nat,
         d.shown # "absent" => /\ e.shown = d.shown /\ e.price = d.price /\ e.cut = d.cut
                               /\ e.discount = d.discount /\ e.onSale = d.onSale /\ e.at = d.at
  PROVE  PageInv'
<1>1. products'[p] = e /\ \A q \in Products \ {p} : products'[q] = products[q]
  OBVIOUS
<1>2. \A q \in Products : products'[q].at \in Nat
  BY <1>1 DEF PageInv
<1>3. ASSUME NEW kind, NEW q \in Listed(kind)
      PROVE  /\ q \in Listed(kind)' /\ products'[q].at = products[q].at
             /\ products'[q].price = products[q].price
  <2>1. CASE q = p
    <3>1. /\ d.shown # "absent" /\ OnList(kind, d)
      BY <1>3, <2>1 DEF Listed, Existing
    <3>2. OnList(kind, e)
      BY <3>1 DEF OnList, InPublicList, InSaleList, InSearchResults
    <3> QED
      BY <1>1, <2>1, <3>1, <3>2 DEF Listed, Existing
  <2>2. CASE q # p
    BY <1>1, <1>3, <2>2 DEF Listed, Existing
  <2> QED
    BY <2>1, <2>2
<1> QED
  BY <1>2, <1>3, PagesStay

LEMMA CreateProductPages ==
  ASSUME PageInv, CatalogueInv, NEW p \in Products, NEW price \in Prices, NEW cut \in Cuts \cup {NoCut},
         CreateProduct(p, price, cut)
  PROVE  PageInv'
<1> PICK d : d = [Absent EXCEPT !.shown = "stocked", !.price = price, !.at = Cardinality(Existing) + 1]
  OBVIOUS
<1> PICK body : body = Discounted(price, cut)
  OBVIOUS
<1> PICK e : e = Updated(body, d)
  OBVIOUS
<1>1. /\ products' = [products EXCEPT ![p] = e] /\ DOMAIN products = Products
      /\ reader' = reader /\ products[p].shown = "absent"
  BY CatalogueTypes DEF CreateProduct, Existing
<1>2. Cardinality(Existing) \in Nat
  BY GoodsFinite DEF Existing
<1>3. "at" \in DOMAIN d /\ d.at = Cardinality(Existing) + 1
  BY DEF Absent
<1>4. DOMAIN body = {"cut", "discount", "onSale"}
  BY DEF Discounted
<1>5. e.at = d.at
  <2>1. \A f \in DOMAIN d \ DOMAIN body : e[f] = d[f]
    BY DEF Updated
  <2>2. "at" \in DOMAIN d \ DOMAIN body
    BY <1>3, <1>4
  <2>3. e["at"] = d["at"]
    BY <2>1, <2>2
  <2> QED
    BY <2>3
<1>6. e.at \in Nat
  BY <1>2, <1>3, <1>5
<1> QED
  BY <1>1, <1>6, OneProduct

LEMMA ViewPages ==
  ASSUME PageInv, CatalogueInv, NEW p \in Products, View(p)
  PROVE  PageInv'
<1> PICK d : d = products[p]
  OBVIOUS
<1> PICK e : e = [d EXCEPT !.views = @ + 1, !.viewsCount = @ + 1]
  OBVIOUS
<1>1. /\ products' = [products EXCEPT ![p] = e] /\ DOMAIN products = Products /\ IsProduct(d)
      /\ reader' = reader
  <2>1. products' = [products EXCEPT ![p].views = @ + 1, ![p].viewsCount = @ + 1] /\ reader' = reader
    BY DEF View
  <2> QED
    BY <2>1, CatalogueTypes
<1>2. /\ e.shown = d.shown /\ e.price = d.price /\ e.cut = d.cut
      /\ e.discount = d.discount /\ e.onSale = d.onSale /\ e.at = d.at
  BY <1>1 DEF IsProduct, Fields
<1>3. e.at \in Nat
  BY <1>2 DEF PageInv
<1> QED
  BY <1>1, <1>2, <1>3, OneProduct

LEMMA SalePages ==
  ASSUME PageInv, CatalogueInv, NEW c \in Writers, NEW p \in Products, Sale(c, p)
  PROVE  PageInv'
<1> PICK d : d = products[p]
  OBVIOUS
<1> PICK e : e = [d EXCEPT !.sales = @ + 1, !.salesCount = @ + 1]
  OBVIOUS
<1>1. /\ products' = [products EXCEPT ![p] = e] /\ DOMAIN products = Products /\ IsProduct(d)
      /\ reader' = reader
  <2>1. products' = [products EXCEPT ![p].sales = @ + 1, ![p].salesCount = @ + 1] /\ reader' = reader
    BY DEF Sale
  <2> QED
    BY <2>1, CatalogueTypes
<1>2. /\ e.shown = d.shown /\ e.price = d.price /\ e.cut = d.cut
      /\ e.discount = d.discount /\ e.onSale = d.onSale /\ e.at = d.at
  BY <1>1 DEF IsProduct, Fields
<1>3. e.at \in Nat
  BY <1>2 DEF PageInv
<1> QED
  BY <1>1, <1>2, <1>3, OneProduct

\* A write to one product: no call names a date, and a reader sees prices and lists move.
LEMMA WriteProductPages ==
  ASSUME PageInv, CatalogueInv, NEW c \in Writers, WriteProduct(c)
  PROVE  PageInv'
<1> PICK call : call = writers[c]
  OBVIOUS
<1> PICK p : p = call.product
  OBVIOUS
<1> PICK d : d = products[p]
  OBVIOUS
<1> PICK e : e = Updated(call.body, d)
  OBVIOUS
<1> PICK kind : kind = reader.kind
  OBVIOUS
<1> DEFINE changes == reader.pc # "idle" /\
             \E q \in Products : \/ OnList(kind, products[q]) # OnList(kind, products'[q])
                                 \/ products[q].price # products'[q].price
           moved == reader.moved \/ changes
<1>1. call.pc = "write" /\ IsCall(call, products)
  BY DEF WriteProduct, Stands, CatalogueInv, Sound
<1>2. p \in call.todo /\ p \in Products /\ d.shown # "absent" /\ IsProduct(d)
  BY <1>1, CatalogueTypes DEF IsCall
<1>3. products' = [products EXCEPT ![p] = e] /\ reader' = [reader EXCEPT !.moved = moved]
  BY <1>2, CatalogueTypes DEF WriteProduct, Moved
<1>4. /\ products'[p] = e /\ \A q \in Products \ {p} : products'[q] = products[q]
  BY <1>2, <1>3, CatalogueTypes
<1>5. e.shown # "absent"
  BY <1>1, <1>2, WriteBody
<1>6. e.at = d.at
  <2>1. DOMAIN call.body \subseteq Fields \ {"at"}
    BY <1>1 DEF IsCall, PriceBody, OtherBody, ShownBody, RatingBody, ScoreBody, PriceFields, Fields
  <2>2. "at" \in Fields /\ DOMAIN call.body \subseteq Fields
    BY <2>1 DEF Fields
  <2>3. \A f \in Fields \ DOMAIN call.body : e[f] = d[f]
    BY <1>2, <2>2, UpdatedProduct
  <2> QED
    BY <2>1, <2>2, <2>3
<1>7. \A q \in Products : products'[q].at = products[q].at
  BY <1>4, <1>6
<1>8. \A q \in Products : products'[q].at \in Nat
  BY <1>7 DEF PageInv
<1>9. ASSUME reader.pc # "idle", ~moved, NEW q \in Listed(kind)
      PROVE  /\ q \in Listed(kind)' /\ products'[q].at = products[q].at
             /\ products'[q].price = products[q].price
  <2>1. q \in Products /\ products[q].shown # "absent" /\ OnList(kind, products[q])
    BY <1>9 DEF Listed, Existing
  <2>2. OnList(kind, products[q]) = OnList(kind, products'[q]) /\ products[q].price = products'[q].price
    BY <1>9, <2>1, Zenon
  <2>3. products'[q].shown # "absent"
    BY <1>4, <1>5, <2>1
  <2>4. q \in Listed(kind)'
    BY <2>1, <2>2, <2>3 DEF Listed, Existing
  <2> QED
    BY <1>7, <2>1, <2>2, <2>4
<1> HIDE DEF moved
<1>10. reader.moved => moved
  BY DEF moved
<1>11. reader'.kind = kind
  BY <1>3 DEF PageInv
<1> QED
  BY <1>3, <1>8, <1>9, <1>10, <1>11, ListStays

LEMMA PageInitInv == CatalogueInit => PageInv
<1> SUFFICES ASSUME CatalogueInit PROVE PageInv
  OBVIOUS
<1>1. \A p \in Products : products[p].at \in Nat
  BY ListAssumption DEF CatalogueInit
<1>2. reader = NoReader
  BY DEF CatalogueInit
<1> QED
  BY <1>1, <1>2 DEF PageInv, PagesCoverList, NoReader

(***************************************************************************)
(* Whatever is written while somebody turns the pages of a list: a product *)
(* that was there and has not been seen has at least the pages turned so   *)
(* far before it, unless he saw the list move or two sort keys meet.       *)
(***************************************************************************)
THEOREM PagesInvariance == CatalogueSpec => []PageInv
<1>1. PageInv /\ CatalogueInv /\ [CatalogueNext]_catalogueVars => PageInv'
  <2> SUFFICES ASSUME PageInv, CatalogueInv, [CatalogueNext]_catalogueVars
               PROVE  PageInv'
    OBVIOUS
  <2>1. ASSUME NEW c \in Writers, NEW p \in Products, NEW body \in Bodies, UpdateProduct(c, p, body)
        PROVE  PageInv'
    BY <2>1, ProductsStay DEF UpdateProduct
  <2>2. ASSUME NEW c \in Writers, NEW p \in Products, Sale(c, p)
        PROVE  PageInv'
    BY <2>2, SalePages
  <2>3. ASSUME NEW c \in Writers, Send(c) \/ CalculateScore(c) \/ Hook(c) \/ Find(c) \/ Visit(c)
        PROVE  PageInv'
    BY <2>3, ProductsStay DEF Send, CalculateScore, Hook, Find, Visit
  <2>4. ASSUME NEW c \in Writers, WriterFails(c)
        PROVE  PageInv'
    BY <2>4, ProductsStay DEF WriterFails
  <2>5. ASSUME NEW c \in Writers, WriteProduct(c)
        PROVE  PageInv'
    BY <2>5, WriteProductPages
  <2>6. ASSUME NEW c \in Writers, NEW op \in {"migrate", "fix", "scores"}, RunScript(c, op)
        PROVE  PageInv'
    BY <2>6, ProductsStay DEF RunScript
  <2>7. ASSUME NEW p \in Products, NEW x \in Prices, NEW y \in Cuts \cup {NoCut}, CreateProduct(p, x, y)
        PROVE  PageInv'
    BY <2>7, CreateProductPages
  <2>8. ASSUME NEW p \in Products, View(p)
        PROVE  PageInv'
    BY <2>8, ViewPages
  <2>9. ASSUME NEW kind \in ListKinds, NEW sort \in Sorts, StartReading(kind, sort)
        PROVE  PageInv'
    BY <2>9, StartReadingKeeps
  <2>10. CASE ReadPage \/ CountPages
    BY <2>10, ReadPageKeeps, CountPagesKeeps
  <2>11. CASE UNCHANGED catalogueVars
    BY <2>11, ProductsStay DEF catalogueVars
  <2> QED
    BY <2>1, <2>2, <2>3, <2>4, <2>5, <2>6, <2>7, <2>8, <2>9, <2>10, <2>11 DEF CatalogueNext, CatalogueStep
<1> QED
  BY <1>1, PageInitInv, CatalogueInvariance, PTL DEF CatalogueSpec

(***************************************************************************)
(* PagesCoverList: who goes through all pages has seen all that was on the *)
(* list when he began.                                                     *)
(***************************************************************************)
THEOREM PagesHold == CatalogueSpec => []PagesCoverList
<1>1. PageInv => PagesCoverList
  BY DEF PageInv
<1> QED
  BY <1>1, PagesInvariance, PTL

-----------------------------------------------------------------------------
(* Gate: what a counter counts, and what it lets through.                  *)

LEMMA KeyTypes ==
  ASSUME NEW k \in Keys
  PROVE  LimitOf(k) \in Nat \ {0} /\ WindowOf(k) \in Nat \ {0}
  BY GateAssumption DEF Keys, LimitOf, WindowOf

\* What a key's counter and the requests let through are, one by one.
LEMMA GateTypes ==
  ASSUME GateInv, NEW k \in Keys
  PROVE  /\ records[k].count \in Nat /\ records[k].reset \in Nat
         /\ records[k] = [count |-> records[k].count, reset |-> records[k].reset]
         /\ passed[k] \in Seq(Nat) /\ Len(passed[k]) \in Nat
         /\ \A i \in 1..Len(passed[k]) : passed[k][i] \in Nat
         /\ WindowInv(k)
<1>1. records[k] \in [count : Nat, reset : Nat] /\ passed[k] \in Seq(Nat)
  BY DEF GateInv, GateTypeOK
<1> QED
  BY <1>1 DEF GateInv

\* WindowInv of a counter that has a record.
Counts(times, n, count, reset, L, W, now) ==
  /\ reset - W \in 1..now /\ count \in 1..L /\ count <= n
  /\ \A i \in 1..n : times[i] <= reset
  /\ \A i \in 1..(n - count) : times[i] < reset - W
  /\ \A i \in 1..(n - count - L) : times[i] + W < reset - W

LEMMA WindowStands ==
  ASSUME NEW k \in Keys, records'[k] # NoRecord, NEW times, NEW n,
         times = passed'[k], n = Len(times),
         Counts(times, n, records'[k].count, records'[k].reset, LimitOf(k), WindowOf(k), tick')
  PROVE  WindowInv(k)'
  BY DEF WindowInv, Counts, LimitOf, WindowOf

\* Steps that let nobody through.
NonePasses ==
  /\ passed' = passed /\ tick' \in Nat /\ tick <= tick'
  /\ records' \in [Keys -> [count : Nat, reset : Nat]]
  /\ \A k \in Keys : records'[k] = records[k] \/ (Lapsed(k) /\ records'[k] = NoRecord)

LEMMA NonePassesKeeps ==
  ASSUME GateInv, NonePasses
  PROVE  GateInv'
<1> USE DEF NonePasses
<1>1. GateTypeOK'
  BY DEF GateInv, GateTypeOK
<1>2. TwiceTheLimitAtMost'
  BY DEF GateInv, TwiceTheLimitAtMost, LimitOf, WindowOf
<1>3. ASSUME NEW k \in Keys
      PROVE  WindowInv(k)'
  <2> PICK n : n = Len(passed[k])
    OBVIOUS
  <2> PICK L, W : L = LimitOf(k) /\ W = WindowOf(k)
    OBVIOUS
  <2>1. /\ n \in Nat /\ \A i \in 1..n : passed[k][i] \in Nat
        /\ records[k].count \in Nat /\ records[k].reset \in Nat /\ WindowInv(k)
    BY GateTypes
  <2>2. L \in Nat \ {0} /\ W \in Nat \ {0} /\ tick \in Nat
    BY KeyTypes DEF GateInv, GateTypeOK
  <2>3. CASE records'[k] = records[k]
    <3>1. tick' \in Nat /\ tick <= tick' /\ passed'[k] = passed[k]
      OBVIOUS
    <3>2. CASE records[k] = NoRecord
      <4>1. /\ \A i \in 1..n : passed[k][i] < tick
            /\ \A i \in 1..(n - L) : passed[k][i] + W < tick
        BY <2>1, <3>2 DEF WindowInv
      <4>2. \A i \in 1..n : passed[k][i] < tick'
        BY <2>1, <2>2, <3>1, <4>1
      <4>3. \A i \in 1..(n - L) : i \in 1..n
        BY <2>1, <2>2
      <4>4. \A i \in 1..(n - L) : passed[k][i] + W < tick'
        <5>1. \A x, y, z, w \in Nat : x + w < y /\ y <= z => x + w < z
          OBVIOUS
        <5>2. ASSUME NEW i \in 1..(n - L)
              PROVE  passed[k][i] + W < tick'
          <6>1. passed[k][i] \in Nat /\ passed[k][i] + W < tick
            BY <2>1, <4>1, <4>3
          <6> QED
            BY <2>2, <3>1, <5>1, <6>1
        <5> QED
          BY <5>2
      <4> QED
        BY <2>3, <3>1, <3>2, <4>2, <4>4 DEF WindowInv, LimitOf, WindowOf
    <3>3. CASE records[k] # NoRecord
      <4>1. records[k].reset - W \in 1..tick
        BY <2>1, <3>3 DEF WindowInv
      <4>2. records[k].reset - W \in 1..tick'
        BY <2>1, <2>2, <3>1, <4>1
      <4>3. Counts(passed[k], n, records[k].count, records[k].reset, L, W, tick')
        BY <2>1, <3>3, <4>2 DEF WindowInv, Counts
      <4> QED
        BY <2>3, <3>1, <3>3, <4>3, WindowStands
    <3> QED
      BY <3>2, <3>3
  <2>4. CASE Lapsed(k) /\ records'[k] = NoRecord /\ records[k] # NoRecord
    <3>1. /\ records[k].reset < tick /\ records[k].reset - W \in 1..tick /\ records[k].count \in 1..L
          /\ records[k].count <= n
          /\ \A i \in 1..n : passed[k][i] <= records[k].reset
          /\ \A i \in 1..(n - records[k].count) : passed[k][i] < records[k].reset - W
      BY <2>1, <2>4 DEF WindowInv, Lapsed
    <3>2. \A i \in 1..n : passed'[k][i] < tick'
      BY <2>1, <2>2, <3>1
    <3>3. \A i \in 1..(n - L) : passed'[k][i] + W < tick'
      <4>1. SUFFICES ASSUME NEW i \in 1..(n - L) PROVE passed[k][i] + W < tick'
        OBVIOUS
      <4> PICK count : count = records[k].count
        OBVIOUS
      <4>2. i \in 1..(n - count) /\ i \in 1..n
        <5>1. count \in 1..L /\ L \in Nat /\ n \in Nat
          BY <2>1, <2>2, <3>1
        <5> QED
          BY <4>1, <5>1
      <4>3. passed[k][i] < records[k].reset - W /\ passed[k][i] \in Nat
        BY <2>1, <3>1, <4>2
      <4> QED
        BY <2>1, <2>2, <3>1, <4>3
    <3> QED
      BY <2>4, <3>2, <3>3 DEF WindowInv, LimitOf, WindowOf
  <2> QED
    BY <2>3, <2>4
<1> QED
  BY <1>1, <1>2, <1>3 DEF GateInv

\* A request that opens a window.
LEMMA OpenKeeps ==
  ASSUME GateInv, NEW k \in Keys, Lapsed(k), NEW n, n = Len(passed[k]), NEW new, new = Append(passed[k], tick)
  PROVE  /\ \A i \in 1..(n + 1) : new[i] <= tick + WindowOf(k)
         /\ \A i \in 1..n : new[i] < tick
         /\ \A i \in 1..(n - LimitOf(k)) : new[i] + WindowOf(k) < tick
<1> PICK W, L : W = WindowOf(k) /\ L = LimitOf(k)
  OBVIOUS
<1>1. /\ n \in Nat /\ passed[k] \in Seq(Nat) /\ \A i \in 1..n : passed[k][i] \in Nat
      /\ records[k].count \in Nat /\ records[k].reset \in Nat /\ WindowInv(k)
  BY GateTypes
<1>2. L \in Nat \ {0} /\ W \in Nat \ {0} /\ tick \in Nat \ {0}
  BY KeyTypes DEF GateInv, GateTypeOK
<1>3. new[n + 1] = tick /\ \A i \in 1..n : new[i] = passed[k][i]
  BY <1>1, <1>2
<1>4. \A i \in 1..n : passed[k][i] < tick
  <2>1. CASE records[k] = NoRecord
    BY <1>1, <2>1 DEF WindowInv
  <2>2. CASE records[k] # NoRecord
    BY <1>1, <1>2, <2>2 DEF WindowInv, Lapsed
  <2> QED
    BY <2>1, <2>2
<1>5. \A i \in 1..(n - L) : passed[k][i] + W < tick
  <2>1. CASE records[k] = NoRecord
    BY <1>1, <2>1 DEF WindowInv
  <2>2. CASE records[k] # NoRecord
    <3> PICK count, reset : count = records[k].count /\ reset = records[k].reset
      OBVIOUS
    <3>1. /\ reset < tick /\ reset \in Nat /\ count \in 1..L
          /\ \A i \in 1..(n - count) : passed[k][i] < reset - W
      BY <1>1, <2>2 DEF WindowInv, Lapsed
    <3>2. SUFFICES ASSUME NEW i \in 1..(n - L) PROVE passed[k][i] + W < tick
      OBVIOUS
    <3>3. i \in 1..(n - count) /\ i \in 1..n
      BY <1>1, <1>2, <3>1
    <3>4. passed[k][i] < reset - W /\ passed[k][i] \in Nat
      BY <1>1, <3>1, <3>3
    <3> QED
      BY <1>2, <3>1, <3>4
  <2> QED
    BY <2>1, <2>2
<1>6. \A i \in 1..n : new[i] < tick
  BY <1>3, <1>4
<1>7. \A i \in 1..(n + 1) : new[i] <= tick + W
  <2>1. SUFFICES ASSUME NEW i \in 1..(n + 1) PROVE new[i] <= tick + W
    OBVIOUS
  <2>2. CASE i = n + 1
    BY <1>2, <1>3, <2>2
  <2>3. CASE i # n + 1
    <3>1. i \in 1..n
      BY <1>1, <2>3
    <3>2. new[i] < tick /\ new[i] \in Nat
      BY <1>1, <1>3, <1>6, <3>1
    <3> QED
      BY <1>2, <3>2
  <2> QED
    BY <2>2, <2>3
<1>8. \A i \in 1..(n - L) : new[i] + W < tick
  <2>1. \A i \in 1..(n - L) : i \in 1..n
    BY <1>1, <1>2
  <2> QED
    BY <1>3, <1>5, <2>1
<1> QED
  BY <1>6, <1>7, <1>8

\* The request that is let through comes a window after the one twice the limit back.
LEMMA PassKeepsTwice ==
  ASSUME GateInv, NEW k \in Keys, Lapsed(k) \/ ~Exceeded(k, records[k].count + 1),
         NEW n, n = Len(passed[k]), NEW twice, twice = 2 * LimitOf(k), n + 1 - twice \in 1..n
  PROVE  tick > passed[k][n + 1 - twice] + WindowOf(k)
<1> PICK W, L : W = WindowOf(k) /\ L = LimitOf(k)
  OBVIOUS
<1> PICK i : i = n + 1 - twice
  OBVIOUS
<1>1. /\ n \in Nat /\ passed[k] \in Seq(Nat) /\ \A j \in 1..n : passed[k][j] \in Nat
      /\ records[k].count \in Nat /\ records[k].reset \in Nat /\ WindowInv(k)
  BY GateTypes
<1>2. L \in Nat \ {0} /\ W \in Nat \ {0} /\ tick \in Nat \ {0}
  BY KeyTypes DEF GateInv, GateTypeOK
<1>3. i \in 1..(n - L) /\ i \in 1..n
  BY <1>1, <1>2
<1>4. CASE Lapsed(k)
  <2>1. Append(passed[k], tick)[i] + W < tick
    BY <1>3, <1>4, OpenKeeps
  <2>2. Append(passed[k], tick)[i] = passed[k][i]
    BY <1>1, <1>2, <1>3
  <2> QED
    BY <1>1, <1>2, <1>3, <2>1, <2>2
<1>5. CASE ~Lapsed(k)
  <2> PICK count, reset : count = records[k].count /\ reset = records[k].reset
    OBVIOUS
  <2>1. records[k] # NoRecord
    BY <1>2, <1>5 DEF Lapsed, NoRecord
  <2>2. count + 1 <= L
    <3>1. ~(count + 1 > L)
      BY <1>5 DEF Exceeded
    <3>2. count \in Nat /\ L \in Nat
      BY <1>1, <1>2
    <3> QED
      BY <3>1, <3>2
  <2>3. /\ reset \in Nat /\ count \in Nat /\ reset - W \in 1..tick
        /\ \A j \in 1..(n - count - L) : passed[k][j] + W < reset - W
    BY <1>1, <2>1 DEF WindowInv
  <2>4. i \in 1..(n - count - L)
    <3>1. \A x, y, z \in Nat : y + 1 <= z /\ x + 1 - 2 * z >= 1 => x + 1 - 2 * z \in 1..(x - y - z)
      OBVIOUS
    <3>2. n \in Nat /\ count \in Nat /\ L \in Nat /\ i = n + 1 - 2 * L /\ n + 1 - 2 * L >= 1
      BY <1>1, <1>2, <1>3
    <3> QED
      BY <2>2, <3>1, <3>2
  <2>5. passed[k][i] + W < reset - W /\ passed[k][i] \in Nat
    BY <1>1, <1>3, <2>3, <2>4
  <2> PICK at : at = passed[k][i]
    OBVIOUS
  <2>6. at + W < reset - W /\ at \in Nat /\ W \in Nat /\ reset \in Nat /\ tick \in Nat /\ reset - W <= tick
    <3>1. reset - W <= tick
      BY <1>2, <2>3
    <3> QED
      BY <1>2, <2>3, <2>5, <3>1
  <2>7. tick > at + W
    <3>1. \A x, w, y, z \in Nat : x + w < y - w /\ y - w <= z => z > x + w
      OBVIOUS
    <3> QED
      BY <2>6, <3>1
  <2> QED
    BY <2>7
<1> QED
  BY <1>4, <1>5

LEMMA ArriveKeeps ==
  ASSUME GateInv, NEW k \in Keys, Arrive(k)
  PROVE  GateInv'
<1> PICK n : n = Len(passed[k])
  OBVIOUS
<1> PICK W, L : W = WindowOf(k) /\ L = LimitOf(k)
  OBVIOUS
<1> PICK count, reset : count = records[k].count /\ reset = records[k].reset
  OBVIOUS
<1> PICK new : new = Append(passed[k], tick)
  OBVIOUS
<1>1. /\ n \in Nat /\ passed[k] \in Seq(Nat) /\ \A i \in 1..n : passed[k][i] \in Nat
      /\ count \in Nat /\ reset \in Nat /\ WindowInv(k)
      /\ records[k] = [count |-> count, reset |-> reset]
  BY GateTypes
<1>2. L \in Nat \ {0} /\ W \in Nat \ {0} /\ tick \in Nat \ {0} /\ tick' = tick
  BY KeyTypes DEF GateInv, GateTypeOK, Arrive
<1>3. /\ new \in Seq(Nat) /\ Len(new) = n + 1 /\ new[n + 1] = tick
      /\ \A i \in 1..n : new[i] = passed[k][i]
  BY <1>1, <1>2
<1>4. records' = [records EXCEPT ![k] = Counted(k)]
  BY DEF Arrive
<1>5. DOMAIN records = Keys /\ DOMAIN passed = Keys
  BY DEF GateInv, GateTypeOK
<1>6. CASE ~Lapsed(k) /\ Exceeded(k, count + 1)
  <2>1. Counted(k) = records[k] /\ passed' = passed
    BY <1>1, <1>6 DEF Counted, Arrive
  <2>2. records' = records
    BY <1>4, <1>5, <2>1 DEF GateInv, GateTypeOK
  <2>3. records' \in [Keys -> [count : Nat, reset : Nat]] /\ tick' \in Nat /\ tick <= tick'
    BY <1>2, <2>2 DEF GateInv, GateTypeOK
  <2>4. \A j \in Keys : records'[j] = records[j] \/ (Lapsed(j) /\ records'[j] = NoRecord)
    BY <2>2
  <2>5. NonePasses
    BY <2>1, <2>3, <2>4 DEF NonePasses
  <2> QED
    BY <2>5, NonePassesKeeps
<1>7. CASE Lapsed(k) \/ ~Exceeded(k, count + 1)
  <2>1. passed' = [passed EXCEPT ![k] = new]
    BY <1>7 DEF Arrive
  <2>2. /\ passed'[k] = new /\ records'[k] = Counted(k)
        /\ \A j \in Keys \ {k} : passed'[j] = passed[j] /\ records'[j] = records[j]
    BY <1>4, <1>5, <2>1
  <2>3. Counted(k) = IF Lapsed(k) THEN [count |-> 1, reset |-> tick + W]
                     ELSE [count |-> count + 1, reset |-> reset]
    BY <1>1, <1>7 DEF Counted
  <2>4. GateTypeOK'
    <3>1. Counted(k) \in [count : Nat, reset : Nat]
      BY <1>1, <1>2, <2>3
    <3>2. passed' \in [Keys -> Seq(Nat)]
      BY <1>3, <2>1 DEF GateInv, GateTypeOK
    <3>3. records' \in [Keys -> [count : Nat, reset : Nat]]
      BY <1>4, <3>1 DEF GateInv, GateTypeOK
    <3> QED
      BY <1>2, <3>2, <3>3 DEF GateTypeOK
  <2>5. ASSUME NEW j \in Keys
        PROVE  WindowInv(j)'
    <3>1. CASE j # k
      <4>1. WindowInv(j)
        BY DEF GateInv
      <4> QED
        BY <1>2, <2>2, <3>1, <4>1 DEF WindowInv, LimitOf, WindowOf
    <3>2. CASE j = k /\ Lapsed(k)
      <4>1. records'[j] = [count |-> 1, reset |-> tick + W]
        BY <2>2, <2>3, <3>2
      <4>2. records'[j].count = 1 /\ records'[j].reset = tick + W /\ records'[j] # NoRecord
        BY <1>2, <4>1 DEF NoRecord
      <4>3. /\ \A i \in 1..(n + 1) : new[i] <= tick + W
            /\ \A i \in 1..n : new[i] < tick
            /\ \A i \in 1..(n - L) : new[i] + W < tick
        BY <3>2, OpenKeeps
      <4>4. (n + 1) - 1 = n /\ (n + 1) - 1 - L = n - L /\ tick + W - W = tick /\ 1 \in 1..L /\ 1 <= n + 1
        BY <1>1, <1>2
      <4>5. Counts(new, n + 1, 1, tick + W, L, W, tick)
        BY <1>2, <4>3, <4>4 DEF Counts
      <4> QED
        BY <1>2, <1>3, <2>2, <3>2, <4>2, <4>5, WindowStands
    <3>3. CASE j = k /\ ~Lapsed(k)
      <4>1. records'[j] = [count |-> count + 1, reset |-> reset]
        BY <2>2, <2>3, <3>3
      <4>2. records[k] # NoRecord /\ tick <= reset
        BY <1>1, <1>2, <3>3 DEF Lapsed, NoRecord
      <4>3. records'[j].count = count + 1 /\ records'[j].reset = reset /\ records'[j] # NoRecord
        BY <1>1, <1>2, <4>1, <4>2 DEF NoRecord
      <4>4. /\ reset - W \in 1..tick /\ count \in 1..L /\ count <= n
            /\ \A i \in 1..n : passed[k][i] <= reset
            /\ \A i \in 1..(n - count) : passed[k][i] < reset - W
            /\ \A i \in 1..(n - count - L) : passed[k][i] + W < reset - W
        BY <1>1, <4>2 DEF WindowInv
      <4>5. count + 1 \in 1..L
        <5>1. ~(count + 1 > L)
          BY <1>7, <3>3 DEF Exceeded
        <5>2. count \in Nat /\ L \in Nat
          BY <1>1, <1>2
        <5> QED
          BY <5>1, <5>2
      <4>6. \A i \in 1..(n + 1) : new[i] <= reset
        <5>1. SUFFICES ASSUME NEW i \in 1..(n + 1) PROVE new[i] <= reset
          OBVIOUS
        <5>2. CASE i = n + 1
          BY <1>3, <4>2, <5>2
        <5>3. CASE i # n + 1
          <6>1. i \in 1..n
            BY <1>1, <5>3
          <6> QED
            BY <1>3, <4>4, <6>1
        <5> QED
          BY <5>2, <5>3
      <4>7. (n + 1) - (count + 1) = n - count /\ (n + 1) - (count + 1) - L = n - count - L /\ count + 1 <= n + 1
        <5>1. n \in Nat /\ count \in Nat /\ L \in Nat /\ count <= n
          BY <1>1, <1>2, <4>4
        <5>2. \A x, y, z \in Nat : y <= x =>
                (x + 1) - (y + 1) = x - y /\ (x + 1) - (y + 1) - z = x - y - z /\ y + 1 <= x + 1
          OBVIOUS
        <5> QED
          BY <5>1, <5>2
      <4>8. \A i \in 1..(n - count) : i \in 1..n
        BY <1>1
      <4>9. \A i \in 1..(n - count) : new[i] < reset - W
        BY <1>3, <4>4, <4>8
      <4>10. \A i \in 1..(n - count - L) : i \in 1..n
        BY <1>1, <1>2
      <4>11. \A i \in 1..(n - count - L) : new[i] + W < reset - W
        BY <1>3, <4>4, <4>10
      <4>12. Counts(new, n + 1, count + 1, reset, L, W, tick)
        BY <4>4, <4>5, <4>6, <4>7, <4>9, <4>11 DEF Counts
      <4> QED
        BY <1>2, <1>3, <2>2, <3>3, <4>3, <4>12, WindowStands
    <3> QED
      BY <3>1, <3>2, <3>3
  <2>6. TwiceTheLimitAtMost'
    <3>1. SUFFICES ASSUME NEW j \in Keys, NEW twice, twice = 2 * LimitOf(j),
                          NEW i \in 1..(Len(passed'[j]) - twice)
                   PROVE  passed'[j][i + twice] > passed'[j][i] + WindowOf(j)
      BY DEF TwiceTheLimitAtMost, LimitOf, WindowOf
    <3>2. \A m \in 1..(Len(passed[j]) - twice) : passed[j][m + twice] > passed[j][m] + WindowOf(j)
      BY <3>1 DEF GateInv, TwiceTheLimitAtMost
    <3>3. CASE j # k
      BY <2>2, <3>1, <3>2, <3>3
    <3>4. CASE j = k /\ i <= n - twice
      <4>1. twice \in Nat /\ i \in 1..(n - twice) /\ i \in 1..n /\ i + twice \in 1..n
        <5>1. n \in Nat /\ twice = 2 * L /\ L \in Nat /\ i \in Nat \ {0} /\ i <= n - twice
          BY <1>1, <1>2, <1>3, <2>2, <3>1, <3>4
        <5>2. \A x, y \in Nat : \A z \in Nat \ {0} : z <= x - y =>
                z \in 1..(x - y) /\ z \in 1..x /\ z + y \in 1..x
          OBVIOUS
        <5>3. twice \in Nat
          BY <5>1
        <5> QED
          BY <5>1, <5>2, <5>3
      <4>2. new[i] = passed[k][i] /\ new[i + twice] = passed[k][i + twice]
        BY <1>3, <4>1
      <4> QED
        BY <2>2, <3>2, <3>4, <4>1, <4>2
    <3>5. CASE j = k /\ ~(i <= n - twice)
      <4>1. /\ twice \in Nat /\ twice > 0 /\ i = n + 1 - twice /\ i + twice = n + 1 /\ i \in 1..n
        <5>1. \A x \in Nat, y \in Nat \ {0} : \A z \in 1..((x + 1) - 2 * y) : ~(z <= x - 2 * y) =>
                2 * y \in Nat /\ 2 * y > 0 /\ z = x + 1 - 2 * y /\ z + 2 * y = x + 1 /\ z \in 1..x
          OBVIOUS
        <5>2. /\ n \in Nat /\ twice = 2 * L /\ L \in Nat \ {0} /\ i \in 1..((n + 1) - 2 * L)
              /\ ~(i <= n - 2 * L)
          BY <1>1, <1>2, <1>3, <2>2, <3>1, <3>5
        <5> QED
          BY <5>1, <5>2
      <4>2. tick > passed[k][n + 1 - twice] + WindowOf(k)
        BY <1>7, <3>1, <3>5, <4>1, PassKeepsTwice
      <4> QED
        BY <1>3, <2>2, <3>5, <4>1, <4>2
    <3> QED
      BY <3>3, <3>4, <3>5
  <2> QED
    BY <2>4, <2>5, <2>6 DEF GateInv
<1> QED
  BY <1>6, <1>7

LEMMA GateInitInv == GateInit => GateInv
<1> SUFFICES ASSUME GateInit PROVE GateInv
  OBVIOUS
<1>1. NoRecord \in [count : Nat, reset : Nat] /\ << >> \in Seq(Nat) /\ Len(<< >>) = 0
  BY DEF NoRecord
<1>2. GateTypeOK
  BY <1>1 DEF GateInit, GateTypeOK, NonePassed
<1>3. \A k \in Keys : records[k] = NoRecord /\ passed[k] = << >>
  BY DEF GateInit, NonePassed
<1>4. ASSUME NEW k \in Keys
      PROVE  WindowInv(k)
  BY <1>1, <1>3, KeyTypes DEF WindowInv
<1>5. TwiceTheLimitAtMost
  BY <1>1, <1>3, KeyTypes DEF TwiceTheLimitAtMost
<1> QED
  BY <1>2, <1>4, <1>5 DEF GateInv

LEMMA RestartKeeps ==
  ASSUME GateInv, Restart
  PROVE  GateInv'
<1>1. NoRecord \in [count : Nat, reset : Nat] /\ << >> \in Seq(Nat) /\ Len(<< >>) = 0
  BY DEF NoRecord
<1>2. GateTypeOK'
  BY <1>1 DEF GateInv, Restart, GateTypeOK, NonePassed
<1>3. \A k \in Keys : records'[k] = NoRecord /\ passed'[k] = << >>
  BY DEF Restart, NonePassed
<1>4. ASSUME NEW k \in Keys
      PROVE  WindowInv(k)'
  BY <1>1, <1>3, KeyTypes DEF WindowInv, LimitOf, WindowOf
<1>5. TwiceTheLimitAtMost'
  BY <1>1, <1>3, KeyTypes DEF TwiceTheLimitAtMost, LimitOf, WindowOf
<1> QED
  BY <1>2, <1>4, <1>5 DEF GateInv

(***************************************************************************)
(* For any clients, limits and windows: a counter counts the requests let  *)
(* through since its window opened, and those further back than the limit  *)
(* came a window earlier.                                                  *)
(***************************************************************************)
THEOREM GateInvariance == GateSpec => []GateInv
<1>1. GateInv /\ [GateNext]_gateVars => GateInv'
  <2> SUFFICES ASSUME GateInv, [GateNext]_gateVars PROVE GateInv'
    OBVIOUS
  <2>1. /\ tick \in Nat \ {0} /\ records \in [Keys -> [count : Nat, reset : Nat]]
        /\ NoRecord \in [count : Nat, reset : Nat]
    BY DEF GateInv, GateTypeOK, NoRecord
  <2>2. ASSUME NEW k \in Keys, Arrive(k) PROVE GateInv'
    BY <2>2, ArriveKeeps
  <2>3. CASE Cleanup
    <3>1. /\ passed' = passed /\ tick' = tick
          /\ records' = [k \in Keys |-> IF Lapsed(k) THEN NoRecord ELSE records[k]]
      BY <2>3 DEF Cleanup
    <3>2. \A k \in Keys : records'[k] = records[k] \/ (Lapsed(k) /\ records'[k] = NoRecord)
      BY <3>1
    <3>3. records' \in [Keys -> [count : Nat, reset : Nat]]
      BY <2>1, <3>1
    <3>4. tick' \in Nat /\ tick <= tick'
      BY <2>1, <3>1
    <3>5. NonePasses
      BY <3>1, <3>2, <3>3, <3>4 DEF NonePasses
    <3> QED
      BY <3>5, NonePassesKeeps
  <2>4. CASE Restart
    BY <2>4, RestartKeeps
  <2>5. CASE GateTick \/ UNCHANGED gateVars
    <3>1. passed' = passed /\ records' = records /\ (tick' = tick + 1 \/ tick' = tick)
      BY <2>5 DEF GateTick, gateVars
    <3>2. \A k \in Keys : records'[k] = records[k] \/ (Lapsed(k) /\ records'[k] = NoRecord)
      BY <3>1
    <3>3. records' \in [Keys -> [count : Nat, reset : Nat]]
      BY <2>1, <3>1
    <3>4. tick' \in Nat /\ tick <= tick'
      BY <2>1, <3>1
    <3>5. NonePasses
      BY <3>1, <3>2, <3>3, <3>4 DEF NonePasses
    <3> QED
      BY <3>5, NonePassesKeeps
  <2> QED
    BY <2>2, <2>3, <2>4, <2>5 DEF GateNext
<1> QED
  BY <1>1, GateInitInv, PTL DEF GateSpec

(***************************************************************************)
(* TwiceTheLimitAtMost: no stretch of time as long as a window sees more   *)
(* than twice the limit pass.                                              *)
(***************************************************************************)
THEOREM GateHolds == GateSpec => []TwiceTheLimitAtMost
<1>1. GateInv => TwiceTheLimitAtMost
  BY DEF GateInv
<1> QED
  BY <1>1, GateInvariance, PTL
=============================================================================
