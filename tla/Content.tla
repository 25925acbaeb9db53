------------------------------ MODULE Content -------------------------------
(***************************************************************************)
(* Documents that name images, and the image files: the services of        *)
(* product categories, blog categories and blogs, the deletion of          *)
(* products, AppService (upload and delete) and file-utils.                *)
(*                                                                         *)
(* The database knows nothing of the files: an update or a deletion first  *)
(* removes the files of the image it read, and then writes the document.   *)
(* An upload makes the files first and answers their names.  Every image   *)
(* is two files, main and resized, and has a name of its own (the time of  *)
(* the upload).                                                            *)
(***************************************************************************)
EXTENDS Naturals, FiniteSets

CONSTANTS
  Docs,
  Slugs,
  Images,
  NoImage,       \* the body does not say
  Null,          \* the body says null, which validation lets pass
  Editors,       \* requests that may be running at once
  ContentStarts  \* documents to start with and how often each operation is asked for

Entries ==
  [kind : {"category", "blog", "blogCategory", "product"}, slug : Slugs \cup {"none", "gone"},
   images : SUBSET Images]

ASSUME ContentAssumption ==
  /\ NoImage \notin Images /\ Null \notin Images
  /\ \A s \in ContentStarts : s.docs \in [Docs -> Entries]

VARIABLES
  docs,
  main, resized, \* image files
  known,         \* images whose names a client has been told
  edits,         \* locals of the running requests
  asks,          \* operations still to be asked for, for the bound
  former         \* history: images that a request dropped from the document it had read them in

files == <<main, resized, known>>
contentVars == <<docs, files, edits, asks, former>>

NoEdit == [pc |-> "idle"]
Named == UNION {docs[d].images : d \in Docs}

ContentInit ==
  /\ \E s \in ContentStarts : docs = s.docs /\ asks = s.asks
  /\ main = Named /\ resized = Named /\ known = Named
  /\ edits = [e \in Editors |-> NoEdit]
  /\ former = {}

Idle(e) == edits[e].pc = "idle"
Ask(op) == asks[op] > 0 /\ asks' = [asks EXCEPT ![op] = @ - 1]
Becomes(e, edit) == edits' = [edits EXCEPT ![e] = edit]

Live(d) == docs[d].slug \notin {"none", "gone"}   \* not made yet, removed
Taken(d, slug) == \E o \in Docs \ {d} : docs[o].kind = docs[d].kind /\ docs[o].slug = slug

-----------------------------------------------------------------------------
(* Uploads: every main file is followed by its resized one.                *)

Upload(e, I) ==
  /\ Idle(e) /\ Ask("upload")
  /\ I # {} /\ I \cap (known \cup main) = {}
  /\ \A o \in Editors : ~Idle(o) /\ edits[o].op = "upload" => I \cap edits[o].all = {}
  /\ Becomes(e, [pc |-> "main", op |-> "upload", todo |-> I, all |-> I, image |-> NoImage])
  /\ UNCHANGED <<docs, files, former>>

SaveMain(e) ==
  /\ edits[e].pc = "main"
  /\ \E i \in edits[e].todo :
       /\ main' = main \cup {i}
       /\ Becomes(e, [edits[e] EXCEPT !.pc = "small", !.todo = @ \ {i}, !.image = i])
  /\ UNCHANGED <<docs, resized, known, asks, former>>

SaveResized(e) ==
  /\ edits[e].pc = "small"
  /\ resized' = resized \cup {edits[e].image}
  /\ IF edits[e].todo # {}
     THEN Becomes(e, [edits[e] EXCEPT !.pc = "main", !.image = NoImage]) /\ UNCHANGED known
     ELSE Becomes(e, NoEdit) /\ known' = known \cup edits[e].all
  /\ UNCHANGED <<docs, main, asks, former>>

-----------------------------------------------------------------------------
(* deleteImages: both files in turn, and an error if one is not there.     *)

\* Mutant of AfterMain: deleteImages logs the error and returns.
AfterMainLogged(e, i) ==
  /\ main' = main \ {i}
  /\ Becomes(e, IF i \in main THEN [edits[e] EXCEPT !.pc = "unlinkResized", !.image = i]
                ELSE IF edits[e].op = "deleteFile" THEN NoEdit
                ELSE [edits[e] EXCEPT !.pc = "write", !.todo = {}])

AfterMain(e, i) ==
  /\ main' = main \ {i}
  /\ Becomes(e, IF i \in main THEN [edits[e] EXCEPT !.pc = "unlinkResized", !.image = i] ELSE NoEdit)

UnlinkMain(e) ==
  /\ edits[e].pc = "unlink"
  /\ \E i \in edits[e].todo : AfterMain(e, i)
  /\ UNCHANGED <<docs, resized, known, asks, former>>

\* When nothing is left to delete the request goes on to its write; a product is
\* read as a plain object, and its deleteOne is an error.
UnlinkResized(e) ==
  /\ edits[e].pc = "unlinkResized"
  /\ resized' = resized \ {edits[e].image}
  /\ LET rest == edits[e].todo \ {edits[e].image}
         over == edits[e].image \notin resized \/ edits[e].op = "deleteFile"
                   \/ (rest = {} /\ docs[edits[e].doc].kind = "product") IN
     Becomes(e, IF over THEN NoEdit
                ELSE [edits[e] EXCEPT !.todo = rest, !.pc = IF rest = {} THEN "write" ELSE "unlink"])
  /\ UNCHANGED <<docs, main, known, asks, former>>

DeleteFile(e, i) ==
  /\ Idle(e) /\ i \in known /\ Ask("deleteFile")
  /\ Becomes(e, [pc |-> "unlink", op |-> "deleteFile", todo |-> {i}, image |-> i])
  /\ UNCHANGED <<docs, files, former>>

-----------------------------------------------------------------------------
(* The documents.                                                          *)

Create(d, i, slug) ==
  /\ docs[d].slug = "none" /\ docs[d].kind # "product" /\ ~Taken(d, slug)
  /\ Ask("create")
  /\ docs' = [docs EXCEPT ![d].slug = slug, ![d].images = {i}]
  /\ UNCHANGED <<files, edits, former>>

\* findOne of an update or a deletion, which has the images `read` to delete.  A blog
\* or its category without an image has the files of "undefined" deleted: an error,
\* as the deleteOne of a product is that has none.
FoundEntry(e, d, op, body, deletes) ==
  LET read == docs[d].images IN
  /\ deletes /\ docs[d].kind # "category" => read # {}
  /\ Becomes(e, [pc |-> IF deletes /\ read # {} THEN "unlink" ELSE "write", op |-> op, doc |-> d,
                 body |-> body, read |-> read, todo |-> read, image |-> NoImage])

\* `field`: whether the schema knows the field of the image; a category's is heroImage,
\* and it takes image as well.  An update of a product with images is an error at once.
Update(e, d, image, field, slug) ==
  /\ Idle(e) /\ Live(d) /\ docs[d].kind # "product" /\ Ask("update")
  /\ field = "other" => docs[d].kind = "category"
  /\ FoundEntry(e, d, "update", [image |-> image, field |-> field, slug |-> slug], image \in Images)
  /\ UNCHANGED <<docs, files, former>>

Delete(e, d) ==
  /\ Idle(e) /\ Live(d) /\ Ask("delete")
  /\ FoundEntry(e, d, "delete", [image |-> NoImage, field |-> "own", slug |-> "none"], TRUE)
  /\ UNCHANGED <<docs, files, former>>

\* The images of the document after the write of a body.
Rewritten(old, body) ==
  IF body.field = "other" \/ body.image = NoImage THEN old
  ELSE IF body.image = Null THEN {} ELSE {body.image}

\* What the write drops of the images that the request has read, unless it sets null.
Dropped(e, images) ==
  former \cup (IF edits[e].body.image = Null THEN {}
               ELSE (edits[e].read \cap docs[edits[e].doc].images) \ images)

\* findByIdAndUpdate; the unique index refuses a slug that is taken.
WriteUpdate(e) ==
  /\ edits[e].pc = "write" /\ edits[e].op = "update"
  /\ LET d == edits[e].doc
         body == edits[e].body
         images == Rewritten(docs[d].images, body)
         slug == IF body.slug = "none" THEN docs[d].slug ELSE body.slug IN
     IF Live(d) /\ ~Taken(d, slug)
     THEN docs' = [docs EXCEPT ![d].images = images, ![d].slug = slug] /\ former' = Dropped(e, images)
     ELSE UNCHANGED <<docs, former>>
  /\ Becomes(e, NoEdit)
  /\ UNCHANGED <<files, asks>>

Remove(e) ==
  /\ edits[e].pc = "write" /\ edits[e].op = "delete"
  /\ docs' = [docs EXCEPT ![edits[e].doc].images = {}, ![edits[e].doc].slug = "gone"]
  /\ former' = Dropped(e, {})
  /\ Becomes(e, NoEdit)
  /\ UNCHANGED <<files, asks>>

\* The file system or the database fails, or the process ends.
CutShort(e) ==
  /\ ~Idle(e) /\ Ask("fail")
  /\ Becomes(e, NoEdit)
  /\ UNCHANGED <<docs, files, former>>

ContentNext ==
  \/ \E e \in Editors :
       \/ \E I \in SUBSET Images : Upload(e, I)
       \/ SaveMain(e) \/ SaveResized(e)
       \/ \E i \in Images : DeleteFile(e, i)
       \/ UnlinkMain(e) \/ UnlinkResized(e)
       \/ \E d \in Docs :
            \/ \E i \in known \cup {NoImage, Null}, f \in {"own", "other"}, s \in Slugs \cup {"none"} :
                 Update(e, d, i, f, s)
            \/ Delete(e, d)
       \/ WriteUpdate(e) \/ Remove(e) \/ CutShort(e)
  \/ \E d \in Docs, i \in known, s \in Slugs : Create(d, i, s)

ContentSpec == ContentInit /\ [][ContentNext]_contentVars

-----------------------------------------------------------------------------
(* The inductive invariant.                                                *)

UploadLocals ==
  [pc : {"main", "small"}, op : {"upload"}, todo : SUBSET Images, all : SUBSET Images,
   image : Images \cup {NoImage}]
EditBodies ==
  [image : Images \cup {NoImage, Null}, field : {"own", "other"}, slug : Slugs \cup {"none"}]
EntryLocals ==
  [pc : {"unlink", "unlinkResized", "write"}, op : {"update", "delete"}, doc : Docs, body : EditBodies,
   read : SUBSET Images, todo : SUBSET Images, image : Images \cup {NoImage}]
FileLocals ==
  [pc : {"unlink", "unlinkResized"}, op : {"deleteFile"}, todo : SUBSET Images, image : Images]

ContentTypeOK ==
  /\ docs \in [Docs -> Entries]
  /\ main \subseteq Images /\ resized \subseteq Images /\ known \subseteq Images
  /\ edits \in [Editors -> {NoEdit} \cup UploadLocals \cup EntryLocals \cup FileLocals]

\* An upload has names that no client has been told and no other upload has.
UploadInv(e) ==
  edits[e] \in UploadLocals =>
    /\ edits[e].todo \subseteq edits[e].all /\ edits[e].all \cap known = {}
    /\ edits[e].pc = "small" => edits[e].image \in edits[e].all
    /\ \A o \in Editors \ {e} : edits[o] \in UploadLocals => edits[e].all \cap edits[o].all = {}

\* A request that drops images has deleted the files of all it has read but for those
\* it still has to.
Deletes(edit) == edit.op = "delete" \/ edit.body.image \in Images
EntryInv(e) ==
  edits[e] \in EntryLocals =>
    /\ edits[e].todo \subseteq edits[e].read /\ edits[e].read \subseteq known
    /\ edits[e].body.image \in Images => edits[e].body.image \in known
    /\ edits[e].pc = "unlinkResized" => edits[e].image \in edits[e].todo \ main
    /\ Deletes(edits[e]) =>
         /\ (edits[e].read \ edits[e].todo) \cap (main \cup resized) = {}
         /\ edits[e].pc = "write" => edits[e].todo = {}

\* The files of an image that a request dropped from a document, after it read it there,
\* are gone for good, however requests overlap, fail or are cut short: the unlink of the
\* main file comes before the write and lets only one request through, and no upload
\* takes a name again.  Left out are images that an update set to null, and those of a
\* category that a request had read without one.
FormerImagesGone == former \cap (main \cup resized) = {}

ContentInv ==
  /\ ContentTypeOK
  /\ former \cup Named \subseteq known
  /\ \A e \in Editors : UploadInv(e) /\ EntryInv(e)
  /\ FormerImagesGone
=============================================================================
