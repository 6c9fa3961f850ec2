----------------------- MODULE ChannelPublishProofs -----------------------
(* Theorems about ChannelPublish, for every number of workers, colours,     *)
(* attempts, faults and sends.                                              *)
EXTENDS ChannelPublish, LeastElements

USE ConstantsAssumption DEF ConstantsAssumption

-----------------------------------------------------------------------------
(* The invariant *)

Product == <<"product", None>>
Draft == <<"draft", None>>
Photo(c) == <<"photo", c>>

(* An attempt that asks for a product has its number and upload, one that   *)
(* handles a photo has one left, and only attempts send requests.           *)
Picking == {"reserve_photo", "upload_photo", "save_photo"}
Grounded ==
    /\ \A p \in Workers :
          /\ proc[p].pc # "idle" => used # 0
          /\ proc[p].pc \in {"reserve", "create"} => proc[p].num # None /\ proc[p].upload # None
          /\ proc[p].pc \in Picking => proc[p].todo # {}
    /\ late # {} => used # 0
    /\ \A l \in late : l.what = Product => l.id # None /\ l.upload # None

(* What cannot be sent twice: it has been carried out, it waits to be, or   *)
(* an attempt holds the right to send it; in each case the record reserves  *)
(* it, and never two of the three at once.                                  *)
Asks == {"create", "refused", "create_draft", "upload_photo"}
Waiting(r) == \E l \in late : l.what = r
Asking(p, r) ==
    \/ r = Product /\ proc[p].pc \in {"create", "refused"}
    \/ r = Draft /\ proc[p].pc = "create_draft"
    \/ \E c \in Colors : r = Photo(c) /\ proc[p].pc = "upload_photo" /\ c = NextColor(p)
Done(r) ==
    \/ r = Product /\ printify.products # {}
    \/ r = Draft /\ etsy.drafts # 0
    \/ \E c \in Colors : r = Photo(c) /\ etsy.photos[c] # 0
Reserved(r) ==
    \/ r = Product /\ rec.created
    \/ r = Draft /\ rec.draft
    \/ \E c \in Colors : r = Photo(c) /\ (c = rec.pending \/ c \in rec.ids)
Once(r) ==
    /\ Done(r) => Reserved(r) /\ ~Waiting(r)
    /\ Waiting(r) => Reserved(r)
    /\ \A p \in Workers : Asking(p, r) =>
          /\ Reserved(r) /\ ~Done(r) /\ ~Waiting(r)
          /\ \A q \in Workers : Asking(q, r) => q = p

(* What has been carried out was carried out once, and waits once at most. *)
Single ==
    /\ \A x, y \in printify.products : x = y
    /\ etsy.drafts \in {0, 1}
    /\ \A c \in Colors : etsy.photos[c] \in {0, 1}
Distinct == \A k, l \in late : k.what = l.what => k = l

(* The steps that build a listing after its inventory, and those before an   *)
(* attempt has stored its product, or after it has given up.                *)
Building == Picking \cup {"photo", "links", "activate"}
Early == {"idle", "reserve", "create", "refused", "reconcile", "unreconciled", "save", "require", "raise"}

OnceInv == TypeOK /\ Grounded /\ Single /\ Distinct /\ \A r \in Requests : Once(r)
-----------------------------------------------------------------------------
(* Types *)

(* A step of attempt p leaves the other attempts alone. *)
Moved(p) == /\ proc' \in [Workers -> Attempts]
            /\ \A q \in Workers : q # p => proc'[q] = proc[q]

(* An attempt that gets a new typed state. *)
LEMMA MoveType ==
    ASSUME proc \in [Workers -> Attempts], NEW p \in Workers, NEW a \in Attempts,
           proc' = [proc EXCEPT ![p] = a]
    PROVE  Moved(p) /\ proc'[p] = a
  BY DEF Moved

(* An attempt that goes to another step keeps everything else. *)
LEMMA GoType ==
    ASSUME proc \in [Workers -> Attempts], NEW p \in Workers, NEW s \in Steps, Go(p, s)
    PROVE  /\ Moved(p) /\ proc'[p].pc = s
           /\ proc'[p].num = proc[p].num /\ proc'[p].upload = proc[p].upload
           /\ proc'[p].product = proc[p].product /\ proc'[p].todo = proc[p].todo
           /\ proc'[p].listing = proc[p].listing /\ proc'[p].owned = proc[p].owned
           /\ proc'[p].ids = proc[p].ids
  <1>. DEFINE a == [proc[p] EXCEPT !.pc = s]
  <1>1. proc' = [proc EXCEPT ![p] = a]
    BY DEF Go
  <1>2. /\ a \in Attempts /\ a.pc = s /\ a.num = proc[p].num /\ a.upload = proc[p].upload
        /\ a.product = proc[p].product /\ a.todo = proc[p].todo /\ a.listing = proc[p].listing
        /\ a.owned = proc[p].owned /\ a.ids = proc[p].ids
    BY DEF Attempts
  <1>. HIDE DEF a
  <1>. QED BY <1>1, <1>2, MoveType

(* The state of no attempt. *)
LEMMA IdleType == Idle \in Attempts /\ Idle.pc = "idle" /\ Idle.todo = {}
  BY DEF Idle, Attempts, Steps, None, Listings, Starts, Colors

(* An attempt that ends is gone. *)
LEMMA LeaveType ==
    ASSUME proc \in [Workers -> Attempts], NEW p \in Workers, Leave(p)
    PROVE  Moved(p) /\ proc'[p] = Idle /\ proc'[p].pc = "idle"
  BY IdleType, MoveType DEF Leave

(* Where an attempt goes next is a step. *)
LEMMA StepNames ==
    {"idle", "reserve", "create", "refused", "reconcile", "unreconciled", "save",
     "mockups", "readback", "request", "publish", "publish_refused", "answer",
     "wait", "find", "reserve_draft", "create_draft", "save_draft", "look",
     "inventory", "photo", "reserve_photo", "upload_photo", "save_photo",
     "links", "activate", "activated", "deactivate", "link", "republish", "tell",
     "confirm", "recount", "verify", "rewrite", "remap", "gallery", "finish",
     "require", "raise"} \subseteq Steps
  BY DEF Steps

(* Choosing the next colour. *)
LEMMA NextColorType ==
    ASSUME proc \in [Workers -> Attempts], NEW p \in Workers, proc[p].todo # {}
    PROVE  NextColor(p) \in Colors /\ NextColor(p) \in proc[p].todo
  <1>1. proc[p].todo \subseteq Colors
    BY DEF Attempts
  <1>2. proc[p].todo \subseteq Nat
    BY <1>1 DEF Colors
  <1>3. \E m \in proc[p].todo : \A n \in proc[p].todo : m <= n
    BY <1>2, LeastNatural
  <1>. QED BY <1>1, <1>3 DEF NextColor, Least

(* Steps that only read and go on. *)
Readers(p) ==
    \/ Reconcile(p) \/ PrepareMockups(p) \/ ReadBack(p) \/ WaitForLink(p) \/ FindListing(p)
    \/ Look(p) \/ LookAtPhoto(p) \/ Activated(p) \/ Confirm(p) \/ Recount(p)
    \/ VerifyGallery(p) \/ Unverified(p) \/ Raise(p) \/ Crash(p)

(* A reading action moves one attempt and nothing else. *)
LEMMA ReadersMove ==
    ASSUME TypeOK, NEW p \in Workers, Readers(p)
    PROVE  Moved(p) /\ UNCHANGED local
  <1>. USE StepNames
  <1>1. proc \in [Workers -> Attempts] /\ proc[p] \in Attempts /\ rec \in Records /\ printify \in Printifys
    BY DEF TypeOK
  <1>2. CASE Reconcile(p)
    <2>. DEFINE found == {x \in printify.products : x.upload = proc[p].upload}
                a == [proc[p] EXCEPT !.pc = "save", !.product = (CHOOSE x \in found : TRUE).id]
    <2>1. CASE Cardinality(found) = 1
      <3>1. found # {}
        <4>1. Cardinality({}) = 0
          BY FS_EmptySet
        <4>. QED BY ONLY <2>1, <4>1
      <3>2. (CHOOSE x \in found : TRUE) \in printify.products
        BY <3>1
      <3>3. (CHOOSE x \in found : TRUE).id \in Starts
        BY <1>1, <3>2 DEF Printifys
      <3>6. \A n \in 0..MaxStarts : [proc[p] EXCEPT !.pc = "save", !.product = n] \in Attempts
        BY <1>1 DEF Attempts
      <3>7. Starts \subseteq 0..MaxStarts
        BY DEF Starts
      <3>. HIDE DEF found
      <3>4. a \in Attempts
        BY <3>3, <3>6, <3>7
      <3>5. proc' = [proc EXCEPT ![p] = a]
        BY <1>2, <2>1 DEF Reconcile, found
      <3>. HIDE DEF a
      <3>. QED BY <1>1, <1>2, <3>4, <3>5, MoveType DEF Reconcile
    <2>2. CASE Cardinality(found) # 1
      BY <1>1, <1>2, <2>2, GoType DEF Reconcile
    <2>. QED BY <2>1, <2>2
  <1>3. CASE PrepareMockups(p) \/ Activated(p) \/ Confirm(p) \/ Recount(p) \/ Unverified(p) \/ Raise(p)
    BY <1>1, <1>3, GoType DEF PrepareMockups, Activated, Confirm, Recount, Unverified, Raise
  <1>4. CASE Crash(p)
    BY <1>1, <1>4, LeaveType DEF Crash
  <1>5. CASE ReadBack(p)
    <2>. DEFINE a == [proc[p] EXCEPT !.pc = "request", !.response =
                        IF printify.link # "none" THEN "already_published" ELSE proc[p].response]
    <2>1. a \in Attempts
      BY <1>1 DEF Attempts
    <2>2. proc' = [proc EXCEPT ![p] = a]
      BY <1>5 DEF ReadBack
    <2>. HIDE DEF a
    <2>. QED BY <1>1, <1>5, <2>1, <2>2, MoveType DEF ReadBack
  <1>6. CASE WaitForLink(p)
    <2>1. Progress(proc[p]) \in Attempts
      BY <1>1 DEF Attempts, Records, Progress
    <2>. QED BY <1>1, <1>6, <2>1, GoType, MoveType DEF WaitForLink
  <1>7. CASE FindListing(p)
    <2>1. \A l \in Listings, own \in BOOLEAN :
            [proc[p] EXCEPT !.pc = "save_draft", !.listing = l, !.owned = own] \in Attempts
      BY <1>1 DEF Attempts
    <2>2. \/ \E s \in Steps : Go(p, s)
          \/ \E l \in Listings, own \in BOOLEAN :
               proc' = [proc EXCEPT ![p] = [proc[p] EXCEPT !.pc = "save_draft", !.listing = l, !.owned = own]]
      BY <1>7 DEF FindListing, Listings
    <2>. QED BY <1>1, <1>7, <2>1, <2>2, GoType, MoveType DEF FindListing
  <1>8. CASE Look(p)
    <2>. DEFINE a == [proc[p] EXCEPT !.adopt = TRUE, !.pc = "link"]
    <2>1. a \in Attempts
      BY <1>1 DEF Attempts
    <2>2. proc' = [proc EXCEPT ![p] = a] \/ \E s \in Steps : Go(p, s)
      BY <1>8 DEF Look
    <2>. HIDE DEF a
    <2>. QED BY <1>1, <1>8, <2>1, <2>2, GoType, MoveType DEF Look
  <1>9. CASE LookAtPhoto(p)
    <2>. DEFINE a == [proc[p] EXCEPT !.todo = @ \ {NextColor(p)}]
                b == [proc[p] EXCEPT !.pc = "save_photo"]
    <2>1. a \in Attempts /\ b \in Attempts
      BY <1>1 DEF Attempts
    <2>2. proc' = [proc EXCEPT ![p] = a] \/ proc' = [proc EXCEPT ![p] = b] \/ \E s \in Steps : Go(p, s)
      BY <1>1, <1>9 DEF LookAtPhoto
    <2>. HIDE DEF a, b
    <2>. QED BY <1>1, <1>9, <2>1, <2>2, GoType, MoveType DEF LookAtPhoto
  <1>10. CASE VerifyGallery(p)
    <2>. DEFINE a == [proc[p] EXCEPT !.pc = "finish", !.listing = printify.link]
    <2>1. a \in Attempts
      BY <1>1 DEF Attempts, Printifys
    <2>2. proc' = [proc EXCEPT ![p] = a] \/ \E s \in Steps : Go(p, s)
      BY <1>10 DEF VerifyGallery
    <2>. HIDE DEF a
    <2>. QED BY <1>1, <1>10, <2>1, <2>2, GoType, MoveType DEF VerifyGallery
  <1>. QED BY <1>2, <1>3, <1>4, <1>5, <1>6, <1>7, <1>8, <1>9, <1>10 DEF Readers

(* Starting an attempt. *)
LEMMA StartMoves ==
    ASSUME TypeOK, NEW p \in Workers, Start(p)
    PROVE  /\ Moved(p) /\ used' \in 0..MaxStarts /\ used' # 0
           /\ proc'[p].pc = "reserve" /\ proc'[p].num # None /\ proc'[p].upload # None
           /\ UNCHANGED <<rec, printify, etsy, late, faults, overlap>>
  <1>1. proc \in [Workers -> Attempts] /\ rec \in Records /\ used + 1 \in 1..MaxStarts
    BY DEF TypeOK, Start
  <1>. DEFINE a == [Idle EXCEPT !.pc = "reserve", !.num = used + 1,
                      !.upload = IF rec.upload # None THEN rec.upload ELSE used + 1]
  <1>2. a \in Attempts /\ a.pc = "reserve" /\ a.num # None /\ a.upload # None
    <2>1. rec.upload \in 0..MaxStarts /\ used + 1 \in 0..MaxStarts /\ used + 1 # None
      BY <1>1 DEF Records, None
    <2>2. (IF rec.upload # None THEN rec.upload ELSE used + 1) \in (0..MaxStarts) \ {None}
      BY <2>1
    <2>. QED BY <2>1, <2>2, IdleType, StepNames DEF Attempts
  <1>3. proc' = [proc EXCEPT ![p] = a]
    BY DEF Start
  <1>. HIDE DEF a
  <1>4. Moved(p) /\ proc'[p] = a
    BY <1>1, <1>2, <1>3, MoveType
  <1>5. used' \in 0..MaxStarts /\ used' # 0
    BY <1>1 DEF Start
  <1>. QED BY <1>2, <1>4, <1>5 DEF Start

(* Steps that write the record. *)
Recorders(p) ==
    \/ Reserve(p) \/ CreateRefused(p) \/ Unreconciled(p) \/ SaveProduct(p) \/ ReservePublish(p)
    \/ PublishRefused(p) \/ SaveResponse(p) \/ ReserveDraft(p) \/ SaveDraft(p) \/ ReservePhoto(p)
    \/ SavePhoto(p) \/ Verify(p) \/ Finish(p) \/ RequireVerification(p) \/ RecordFailure(p)

(* A recording action moves one attempt and leaves a well-typed record. *)
LEMMA RecordersMove ==
    ASSUME TypeOK, Grounded, NEW p \in Workers, Recorders(p)
    PROVE  Moved(p) /\ rec' \in Records /\ UNCHANGED remote
  <1>. USE StepNames
  <1>0. UNCHANGED remote
    BY DEF Recorders, Reserve, CreateRefused, Unreconciled, SaveProduct, ReservePublish, PublishRefused,
       SaveResponse, ReserveDraft, SaveDraft, ReservePhoto, SavePhoto, Verify, Finish,
       RequireVerification, RecordFailure
  <1>1. proc \in [Workers -> Attempts] /\ proc[p] \in Attempts /\ rec \in Records
    BY DEF TypeOK
  <1>2. CASE Reserve(p)
    <2>. DEFINE upload == IF rec.upload # None THEN rec.upload ELSE proc[p].upload
                a == [proc[p] EXCEPT !.upload = upload, !.product = rec.product,
                      !.status = IF rec.status = "reconciliation_required" THEN rec.status ELSE "none",
                      !.pc = IF rec.product # None THEN "save"
                             ELSE IF Asked(rec) THEN "reconcile" ELSE "create"]
                r == [rec EXCEPT !.upload = upload, !.status = "creating",
                        !.created = @ \/ (rec.product = None /\ ~Asked(rec))]
    <2>1. a \in Attempts
      <3>1. upload \in 0..MaxStarts /\ rec.product \in 0..MaxStarts
        BY <1>1 DEF Attempts, Records
      <3>. DEFINE status == IF rec.status = "reconciliation_required" THEN rec.status ELSE "none"
                  pc == IF rec.product # None THEN "save" ELSE IF Asked(rec) THEN "reconcile" ELSE "create"
      <3>2. status \in {"none", "reconciliation_required"} /\ pc \in Steps
        OBVIOUS
      <3>3. \A u, n \in 0..MaxStarts, s \in {"none", "reconciliation_required"}, t \in Steps :
              [proc[p] EXCEPT !.upload = u, !.product = n, !.status = s, !.pc = t] \in Attempts
        BY ONLY <1>1 DEF Attempts
      <3>. HIDE DEF upload
      <3>. QED BY <3>1, <3>2, <3>3
    <2>2. r \in Records
      <3>1. upload \in 0..MaxStarts
        BY <1>1 DEF Records, Attempts
      <3>2. (rec.created \/ (rec.product = None /\ ~Asked(rec))) \in BOOLEAN
        BY <1>1 DEF Records
      <3>. HIDE DEF upload
      <3>3. [rec EXCEPT !.upload = upload, !.status = "creating"] \in Records
        BY <1>1, <3>1 DEF Records
      <3>. QED BY <1>1, <3>1, <3>2 DEF Records
    <2>3. \/ Leave(p) /\ rec' = rec
          \/ proc' = [proc EXCEPT ![p] = a] /\ rec' = r
      BY <1>2 DEF Reserve
    <2>. HIDE DEF a, r
    <2>. QED BY <1>0, <1>1, <2>1, <2>2, <2>3, LeaveType, MoveType
  <1>3. CASE SaveProduct(p)
    <2>. DEFINE a == [proc[p] EXCEPT !.pc = "mockups", !.response = Known(rec), !.product = None, !.upload = None]
                r == [rec EXCEPT !.product = proc[p].product, !.status = "publishing"]
    <2>1. a \in Attempts
      <3>1. Known(rec) \in {"none", "reconciling", "already_published", "accepted"}
        BY <1>1 DEF Known, Records
      <3>2. "mockups" \in Steps /\ None \in 0..MaxStarts
        BY DEF None
      <3>. QED BY ONLY <1>1, <3>1, <3>2 DEF Attempts
    <2>2. r \in Records
      BY <1>1 DEF Records, Attempts
    <2>3. \/ Leave(p) /\ rec' = rec
          \/ proc' = [proc EXCEPT ![p] = a] /\ rec' = r
      BY <1>3 DEF SaveProduct
    <2>. HIDE DEF a, r
    <2>. QED BY <1>0, <1>1, <2>1, <2>2, <2>3, LeaveType, MoveType
  <1>4. CASE ReservePublish(p)
    <2>. DEFINE response == IF Known(rec) # "none" THEN Known(rec) ELSE proc[p].response
                a == [proc[p] EXCEPT !.response = response, !.status = "none",
                      !.pc = IF response = "none" THEN "publish" ELSE "answer"]
                r == [rec EXCEPT !.started = @ \/ response = "none"]
    <2>1. response \in {"none", "reconciling", "already_published", "accepted"}
      BY <1>1 DEF Attempts, Records, Known
    <2>2. \/ Leave(p) /\ rec' = rec
          \/ proc' = [proc EXCEPT ![p] = a] /\ rec' = r
      BY <1>4 DEF ReservePublish
    <2>. HIDE DEF response
    <2>3. a \in Attempts
      BY <1>1, <2>1 DEF Attempts
    <2>4. r \in Records
      <3>1. (rec.started \/ response = "none") \in BOOLEAN
        BY <1>1 DEF Records
      <3>. QED BY <1>1, <3>1 DEF Records
    <2>. HIDE DEF a, r
    <2>. QED BY <1>0, <1>1, <2>2, <2>3, <2>4, LeaveType, MoveType
  <1>5. CASE SaveResponse(p)
    <2>. DEFINE a == [proc[p] EXCEPT !.pc = "wait", !.response = "none", !.num = None]
    <2>1. a \in Attempts
      <3>1. "wait" \in Steps /\ None \in 0..MaxStarts
        BY DEF None
      <3>. QED BY ONLY <1>1, <3>1 DEF Attempts
    <2>2. rec' \in Records /\ proc' = [proc EXCEPT ![p] = a]
      BY <1>1, <1>5 DEF SaveResponse, Records, Attempts
    <2>. HIDE DEF a
    <2>. QED BY <1>0, <1>1, <2>1, <2>2, MoveType
  <1>6. CASE ReserveDraft(p)
    <2>. DEFINE a == [proc[p] EXCEPT !.draft = TRUE, !.pc = "create_draft"]
    <2>1. a \in Attempts
      BY <1>1 DEF Attempts
    <2>2. \/ Go(p, "require") /\ rec' = rec
          \/ proc' = [proc EXCEPT ![p] = a] /\ rec' = [rec EXCEPT !.draft = TRUE]
      BY <1>6 DEF ReserveDraft
    <2>3. [rec EXCEPT !.draft = TRUE] \in Records
      BY ONLY <1>1 DEF Records
    <2>. HIDE DEF a
    <2>. QED BY <1>0, <1>1, <2>1, <2>2, <2>3, GoType, MoveType
  <1>7. CASE ReservePhoto(p)
    <2>. DEFINE c == NextColor(p)
                a == [proc[p] EXCEPT !.pending = c, !.pc = "upload_photo"]
    <2>1. c \in Colors
      BY <1>1, <1>7, NextColorType DEF ReservePhoto, At, Grounded, Picking
    <2>2. \/ Go(p, "require") /\ rec' = rec
          \/ proc' = [proc EXCEPT ![p] = a] /\ rec' = [rec EXCEPT !.pending = c]
      BY <1>7 DEF ReservePhoto
    <2>. HIDE DEF c
    <2>3. a \in Attempts /\ [rec EXCEPT !.pending = c] \in Records
      <3>1. c \in 0..NumColors /\ "upload_photo" \in Steps
        BY <2>1 DEF Colors
      <3>. QED BY ONLY <1>1, <3>1 DEF Attempts, Records
    <2>. HIDE DEF a
    <2>. QED BY <1>0, <1>1, <2>2, <2>3, GoType, MoveType
  <1>8. CASE SavePhoto(p)
    <2>. DEFINE c == NextColor(p)
                ids == proc[p].ids \cup {c}
                a == [proc[p] EXCEPT !.ids = ids, !.pending = None, !.todo = proc[p].todo \ {c}, !.pc = "photo"]
                r == [rec EXCEPT !.ids = Merged(rec, ids), !.pending = Released(rec, ids)]
    <2>1. c \in Colors
      BY <1>1, <1>8, NextColorType DEF SavePhoto, At, Grounded, Picking
    <2>2. \/ Go(p, "require") /\ rec' = rec
          \/ proc' = [proc EXCEPT ![p] = a] /\ rec' = r
      BY <1>8 DEF SavePhoto
    <2>. HIDE DEF c
    <2>3. ids \subseteq Colors
      BY <1>1, <2>1 DEF Attempts
    <2>. HIDE DEF ids
    <2>4. a \in Attempts
      <3>1. None \in 0..NumColors /\ "photo" \in Steps /\ proc[p].todo \ {c} \subseteq Colors
        BY <1>1 DEF None, Attempts
      <3>. QED BY ONLY <1>1, <2>3, <3>1 DEF Attempts
    <2>5. r \in Records
      <3>1. Merged(rec, ids) \subseteq Colors /\ Released(rec, ids) \in 0..NumColors
        BY <1>1, <2>3 DEF Records, Merged, Released, None
      <3>. QED BY ONLY <1>1, <3>1 DEF Records
    <2>. HIDE DEF a, r
    <2>. QED BY <1>0, <1>1, <2>2, <2>4, <2>5, GoType, MoveType
  <1>9. CASE Verify(p)
    <2>1. rec' \in Records
      <3>1. (rec.plan \/ (printify.link = "native" /\ ~etsy.exact)) \in BOOLEAN
        BY <1>1 DEF Records
      <3>. QED BY <1>1, <1>9, <3>1, ZenonT(30) DEF Verify, Records
    <2>2. \E s \in Steps : Go(p, s)
      BY <1>9 DEF Verify
    <2>. QED BY <1>0, <1>1, <2>1, <2>2, GoType
  <1>10. CASE SaveDraft(p)
    <2>1. rec' \in Records
      <3>1. proc[p].listing \in Listings /\ proc[p].owned \in BOOLEAN
        BY <1>1 DEF Attempts
      <3>2. [rec EXCEPT !.listing = proc[p].listing, !.owned = proc[p].owned] \in Records
        BY ONLY <1>1, <3>1 DEF Records
      <3>. QED BY <1>1, <1>10, <3>2 DEF SaveDraft
    <2>2. \E s \in Steps : Go(p, s)
      BY <1>10 DEF SaveDraft
    <2>. QED BY <1>0, <1>1, <2>1, <2>2, GoType
  <1>11. CASE CreateRefused(p) \/ PublishRefused(p)
    <2>1. rec' \in Records
      <3>1. [rec EXCEPT !.created = FALSE] \in Records /\ [rec EXCEPT !.started = FALSE] \in Records
        BY ONLY <1>1 DEF Records
      <3>. QED BY <1>11, <3>1 DEF CreateRefused, PublishRefused
    <2>2. \E s \in Steps : Go(p, s)
      BY <1>11 DEF CreateRefused, PublishRefused
    <2>. QED BY <1>0, <1>1, <2>1, <2>2, GoType
  <1>12. CASE Unreconciled(p) \/ Finish(p) \/ RequireVerification(p) \/ RecordFailure(p)
    <2>1. rec' \in Records
      <3>1. proc[p].listing \in Listings
        BY <1>1 DEF Attempts
      <3>2. /\ [rec EXCEPT !.status = "reconciliation_required"] \in Records
            /\ [rec EXCEPT !.status = "failed"] \in Records
            /\ [rec EXCEPT !.status = "succeeded", !.external = proc[p].listing] \in Records
        BY ONLY <1>1, <3>1 DEF Records
      <3>. QED BY <1>1, <1>12, <3>2 DEF Unreconciled, Finish, RequireVerification, RecordFailure
    <2>2. Leave(p)
      BY <1>12 DEF Unreconciled, Finish, RequireVerification, RecordFailure
    <2>. QED BY <1>0, <1>1, <2>1, <2>2, LeaveType
  <1>. QED BY <1>2, <1>3, <1>4, <1>5, <1>6, <1>7, <1>8, <1>9, <1>10, <1>11, <1>12 DEF Recorders

-----------------------------------------------------------------------------
(* Requests *)

(* The three kinds of request, and that they differ. *)
LEMMA Kinds ==
    /\ Product \in Requests /\ Draft \in Requests /\ \A c \in Colors : Photo(c) \in Requests
    /\ \A r \in Requests : r = Product \/ r = Draft \/ \E c \in Colors : r = Photo(c)
    /\ Product # Draft /\ \A c \in Colors : Photo(c) # Product /\ Photo(c) # Draft
    /\ \A c, d \in Colors : Photo(c) = Photo(d) => c = d
    /\ Product[1] = "product" /\ Draft[1] = "draft"
    /\ \A c \in Colors : Photo(c)[1] = "photo" /\ Photo(c)[2] = c
  <1>1. \A r \in {"photo"} \X Colors : \E c \in Colors : r = Photo(c)
    BY DEF Photo
  <1>2. \A c \in Colors : Photo(c) \in {"photo"} \X Colors
    BY DEF Photo
  <1>. QED BY <1>1, <1>2 DEF Requests, Product, Draft, Photo

(* A request is done when its object exists. *)
LEMMA DoneIs ==
    /\ Done(Product) <=> printify.products # {}
    /\ Done(Draft) <=> etsy.drafts # 0
    /\ \A c \in Colors : Done(Photo(c)) <=> etsy.photos[c] # 0
  BY Kinds DEF Done

(* What is done after the step, kind by kind. *)
LEMMA DoneWillBe ==
    /\ Done(Product)' <=> printify'.products # {}
    /\ Done(Draft)' <=> etsy'.drafts # 0
    /\ \A c \in Colors : Done(Photo(c))' <=> etsy'.photos[c] # 0
  BY Kinds DEF Done

(* A request that was not done is done, once, and nothing else changes. *)
LEMMA Performed ==
    ASSUME TypeOK, Single, used # 0, NEW r \in Requests, NEW n, NEW u,
           r = Product => n \in Starts /\ u \in Starts,
           ~Done(r), Perform(r, n, u)
    PROVE  /\ printify' \in Printifys /\ etsy' \in Etsys /\ Single'
           /\ Done(r)' /\ \A s \in Requests : s # r => (Done(s)' <=> Done(s))
           /\ printify'.link = printify.link /\ printify'.locked = printify.locked
           /\ printify.products \subseteq printify'.products
           /\ etsy'.inventory = etsy.inventory /\ etsy'.links = etsy.links
           /\ etsy'.native = etsy.native /\ etsy'.nativeLinks = etsy.nativeLinks
           /\ r # Draft => etsy'.state = etsy.state
           /\ r = Product => printify'.products = {[id |-> n, upload |-> u]}
  <1>1. printify \in Printifys /\ etsy \in Etsys /\ 1 \in 0..MaxStarts /\ 1 # 0
    BY DEF TypeOK
  <1>2. CASE r = Product
    <2>. DEFINE x == [id |-> n, upload |-> u]
    <2>1. printify' = [printify EXCEPT !.products = printify.products \cup {x}] /\ etsy' = etsy
      BY <1>2, Kinds DEF Perform
    <2>2. printify.products = {}
      BY <1>2, DoneIs
    <2>3. x \in [id : Starts, upload : Starts]
      BY <1>2
    <2>6. x = [id |-> n, upload |-> u]
      OBVIOUS
    <2>. HIDE DEF x
    <2>4. /\ printify' \in Printifys /\ printify'.products = {x}
          /\ printify'.link = printify.link /\ printify'.locked = printify.locked
      BY <1>1, <2>1, <2>2, <2>3 DEF Printifys
    <2>5. ASSUME NEW s \in Requests, s # r PROVE Done(s)' <=> Done(s)
      <3>1. CASE s = Draft
        BY <3>1, <2>1, DoneIs, DoneWillBe
      <3>2. ASSUME NEW c \in Colors, s = Photo(c) PROVE Done(s)' <=> Done(s)
        BY <3>2, <2>1, DoneIs, DoneWillBe
      <3>. QED BY <1>2, <2>5, <3>1, <3>2, Kinds
    <2>. QED BY <1>1, <1>2, <2>1, <2>2, <2>4, <2>5, <2>6, DoneWillBe, Kinds DEF Single
  <1>3. CASE r = Draft
    <2>1. etsy' = [etsy EXCEPT !.drafts = 1, !.state = "draft"] /\ printify' = printify
      <3>1. etsy.drafts + 1 = 1
        BY <1>3, DoneIs
      <3>. QED BY <1>3, <3>1, Kinds DEF Perform
    <2>3. /\ etsy' \in Etsys /\ etsy'.drafts = 1 /\ etsy'.photos = etsy.photos
          /\ etsy'.inventory = etsy.inventory /\ etsy'.links = etsy.links
          /\ etsy'.native = etsy.native /\ etsy'.nativeLinks = etsy.nativeLinks
      BY ONLY <1>1, <2>1 DEF Etsys
    <2>5. ASSUME NEW s \in Requests, s # r PROVE Done(s)' <=> Done(s)
      <3>1. CASE s = Product
        BY <3>1, <2>1, DoneIs, DoneWillBe
      <3>2. ASSUME NEW c \in Colors, s = Photo(c) PROVE Done(s)' <=> Done(s)
        BY <3>2, <2>3, DoneIs, DoneWillBe
      <3>. QED BY <1>3, <2>5, <3>1, <3>2, Kinds
    <2>. QED BY <1>1, <1>3, <2>1, <2>3, <2>5, DoneWillBe, Kinds DEF Single
  <1>4. CASE \E c \in Colors : r = Photo(c)
    <2>1. PICK c \in Colors : r = Photo(c)
      BY <1>4
    <2>3. etsy.photos[c] = 0 /\ etsy.photos \in [Colors -> 0..MaxStarts]
      BY <1>1, <2>1, DoneIs DEF Etsys
    <2>2. etsy' = [etsy EXCEPT !.photos[c] = 0 + 1] /\ printify' = printify
      BY <2>1, <2>3, Kinds DEF Perform
    <2>4. /\ etsy' \in Etsys /\ etsy'.photos = [etsy.photos EXCEPT ![c] = 1]
          /\ etsy'.drafts = etsy.drafts /\ etsy'.state = etsy.state
          /\ etsy'.inventory = etsy.inventory /\ etsy'.links = etsy.links
          /\ etsy'.native = etsy.native /\ etsy'.nativeLinks = etsy.nativeLinks
      <3>1. [etsy.photos EXCEPT ![c] = 1] \in [Colors -> 0..MaxStarts]
        BY <1>1, <2>3
      <3>2. etsy' = [etsy EXCEPT !.photos = [etsy.photos EXCEPT ![c] = 1]]
        BY <1>1, <2>2 DEF Etsys
      <3>. QED BY ONLY <1>1, <3>1, <3>2 DEF Etsys
    <2>6. \A d \in Colors : etsy'.photos[d] = IF d = c THEN 1 ELSE etsy.photos[d]
      BY <2>3, <2>4
    <2>7. ASSUME NEW s \in Requests, s # r PROVE Done(s)' <=> Done(s)
      <3>1. CASE s = Product
        BY <3>1, <2>2, DoneIs, DoneWillBe
      <3>2. CASE s = Draft
        BY <3>2, <2>4, DoneIs, DoneWillBe
      <3>3. ASSUME NEW d \in Colors, s = Photo(d) PROVE Done(s)' <=> Done(s)
        <4>1. d # c
          BY <2>1, <2>7, <3>3
        <4>2. etsy'.photos[d] = etsy.photos[d]
          BY <2>6, <4>1
        <4>. QED BY <3>3, <4>2, DoneIs, DoneWillBe
      <3>. QED BY <3>1, <3>2, <3>3, Kinds
    <2>8. Done(r)'
      BY <2>1, <2>6, DoneWillBe
    <2>9. Single'
      BY <2>2, <2>4, <2>6 DEF Single
    <2>. QED BY <1>1, <2>1, <2>2, <2>4, <2>7, <2>8, <2>9, Kinds
  <1>. QED BY <1>2, <1>3, <1>4, Kinds

-----------------------------------------------------------------------------
(* What cannot be sent twice *)

(* Attempts that do not move ask for what they asked for. *)
LEMMA OthersAsk ==
    ASSUME NEW p \in Workers, Moved(p), NEW r
    PROVE  \A q \in Workers : q # p => (Asking(q, r)' <=> Asking(q, r))
  <1>. SUFFICES ASSUME NEW q \in Workers, q # p PROVE Asking(q, r)' <=> Asking(q, r)
    OBVIOUS
  <1>1. proc'[q] = proc[q]
    BY DEF Moved
  <1>. QED BY <1>1 DEF Asking, NextColor

(* A request that nothing happens to. *)
LEMMA OnceStays ==
    ASSUME NEW p \in Workers, Moved(p), NEW r, Once(r),
           Done(r)' <=> Done(r), Waiting(r)' <=> Waiting(r),
           Reserved(r) => Reserved(r)', Asking(p, r)' => Asking(p, r)
    PROVE  Once(r)'
  <1>1. \A q \in Workers : Asking(q, r)' => Asking(q, r)
    BY OthersAsk
  <1>. QED BY <1>1 DEF Once

(* Sending a request uses up the right to send it. *)
LEMMA SendKeeps ==
    ASSUME OnceInv, NEW p \in Workers, NEW r \in Requests, Asking(p, r),
           NEW n \in 0..MaxStarts, NEW u \in 0..MaxStarts,
           r = Product => n # None /\ u # None,
           Moved(p), rec' = rec,
           \A s \in Requests : Asking(p, s)' => s = r,
           \/ Refused
           \/ (Answered(r, n, u) \/ Lost(r, n, u)) /\ ~Asking(p, r)'
    PROVE  /\ printify' \in Printifys /\ etsy' \in Etsys /\ faults' \in 0..MaxFaults
           /\ late' \subseteq [what : Requests, id : 0..MaxStarts, upload : 0..MaxStarts]
           /\ \A l \in late' : l.what = Product => l.id # None /\ l.upload # None
           /\ Single' /\ Distinct' /\ \A s \in Requests : Once(s)'
  <1>. DEFINE l == [what |-> r, id |-> n, upload |-> u]
  <1>1. /\ TypeOK /\ Single /\ Distinct /\ Once(r) /\ used # 0
        /\ \A m \in late : m.what = Product => m.id # None /\ m.upload # None
    <2>1. proc[p].pc # "idle"
      BY DEF Asking
    <2>. QED BY <2>1 DEF OnceInv, Grounded
  <1>2. faults \in 0..MaxFaults /\ printify \in Printifys /\ etsy \in Etsys
        /\ late \subseteq [what : Requests, id : 0..MaxStarts, upload : 0..MaxStarts]
    BY <1>1 DEF TypeOK
  <1>3. faults' \in 0..MaxFaults
    BY <1>2 DEF Refused, Answered, Lost
  <1>4. /\ Reserved(r)' /\ ~Done(r) /\ ~Waiting(r)
        /\ \A q \in Workers : Asking(q, r) => q = p
    BY <1>1 DEF Once, Reserved
  <1>5. \A s \in Requests : Once(s) /\ (Reserved(s) => Reserved(s)')
    BY DEF OnceInv, Reserved
  <1>6. \A s \in Requests : s # r => ~Asking(p, s)'
    OBVIOUS
  <1>7. \A q \in Workers : ~Asking(p, r)' => ~Asking(q, r)'
    BY <1>4, OthersAsk
  <1>8. CASE UNCHANGED <<printify, etsy, late>>
    <2>1. \A s \in Requests : (Done(s)' <=> Done(s)) /\ (Waiting(s)' <=> Waiting(s))
      BY <1>8 DEF Done, Waiting
    <2>2. \A s \in Requests : Asking(p, s)' => Asking(p, s)
      BY <1>6
    <2>3. \A s \in Requests : Once(s)'
      BY <1>5, <2>1, <2>2, OnceStays
    <2>. QED BY <1>1, <1>2, <1>3, <1>8, <2>3 DEF Single, Distinct
  <1>9. CASE Perform(r, n, u) /\ late' = late /\ ~Asking(p, r)'
    <2>0. r = Product => n \in Starts /\ u \in Starts
      BY DEF None, Starts
    <2>1. /\ printify' \in Printifys /\ etsy' \in Etsys /\ Single'
          /\ Done(r)' /\ \A s \in Requests : s # r => (Done(s)' <=> Done(s))
      BY <1>1, <1>4, <1>9, <2>0, Performed
    <2>2. \A s \in Requests : Waiting(s)' <=> Waiting(s)
      BY <1>9 DEF Waiting
    <2>3. \A s \in Requests : s # r => Once(s)'
      BY <1>5, <1>6, <2>1, <2>2, OnceStays
    <2>4. Once(r)'
      BY <1>4, <1>7, <1>9, <2>1, <2>2 DEF Once
    <2>. QED BY <1>1, <1>2, <1>3, <1>9, <2>1, <2>3, <2>4 DEF Distinct
  <1>10. CASE late' = late \cup {l} /\ UNCHANGED <<printify, etsy>> /\ ~Asking(p, r)'
    <2>1. l.what = r /\ l.id = n /\ l.upload = u
          /\ l \in [what : Requests, id : 0..MaxStarts, upload : 0..MaxStarts]
      OBVIOUS
    <2>. HIDE DEF l
    <2>2. \A s \in Requests : Done(s)' <=> Done(s)
      BY <1>10 DEF Done
    <2>3. \A s \in Requests : Waiting(s)' <=> Waiting(s) \/ s = r
      BY <1>10, <2>1 DEF Waiting
    <2>4. \A s \in Requests : s # r => Once(s)'
      BY <1>5, <1>6, <2>2, <2>3, OnceStays
    <2>5. Once(r)'
      BY <1>4, <1>7, <1>10, <2>2, <2>3 DEF Once
    <2>6. Distinct'
      BY <1>1, <1>4, <1>10, <2>1 DEF Distinct, Waiting
    <2>. QED BY <1>1, <1>2, <1>3, <1>10, <2>1, <2>4, <2>5, <2>6 DEF Single
  <1>. QED BY <1>8, <1>9, <1>10 DEF Refused, Answered, Lost

(* A delayed request is carried out once, as nobody may send it again. *)
LEMMA LandKeeps ==
    ASSUME OnceInv, Land
    PROVE  OnceInv'
  <1>1. PICK l \in late : Perform(l.what, l.id, l.upload) /\ late' = late \ {l}
    BY DEF Land
  <1>2. UNCHANGED <<rec, proc, used, faults, overlap>>
    BY DEF Land
  <1>3. l \in [what : Requests, id : 0..MaxStarts, upload : 0..MaxStarts]
    BY DEF OnceInv, TypeOK
  <1>. DEFINE r == l.what
  <1>4. r \in Requests /\ Waiting(r) /\ ~Done(r)
    <2>1. r \in Requests /\ Waiting(r) /\ Once(r)
      BY <1>3 DEF OnceInv, Waiting
    <2>. QED BY <2>1 DEF Once
  <1>5. r = Product => l.id \in Starts /\ l.upload \in Starts
    BY <1>3 DEF OnceInv, Grounded, Starts, None
  <1>6. TypeOK /\ Single /\ used # 0
    BY DEF OnceInv, Grounded
  <1>7. /\ printify' \in Printifys /\ etsy' \in Etsys /\ Single'
        /\ Done(r)' /\ \A s \in Requests : s # r => (Done(s)' <=> Done(s))
    BY <1>1, <1>4, <1>5, <1>6, Performed
  <1>8. \A s \in Requests : Waiting(s)' <=> (Waiting(s) /\ s # r)
    BY <1>1 DEF Waiting, OnceInv, Distinct
  <1>9. \A s \in Requests : /\ Reserved(s)' <=> Reserved(s)
                            /\ \A q \in Workers : Asking(q, s)' <=> Asking(q, s)
    BY <1>2 DEF Reserved, Asking, NextColor
  <1>10. \A s \in Requests : Once(s)
    BY DEF OnceInv
  <1>11. Once(r)'
    <2>1. Once(r)
      BY <1>4, <1>10
    <2>. QED BY <1>4, <1>7, <1>8, <1>9, <2>1 DEF Once
  <1>12. ASSUME NEW s \in Requests, s # r PROVE Once(s)'
    <2>1. Once(s)
      BY <1>10
    <2>. QED BY <1>7, <1>8, <1>9, <1>12, <2>1 DEF Once
  <1>13. Grounded' /\ Distinct'
    BY <1>1, <1>2 DEF OnceInv, Grounded, Distinct
  <1>14. TypeOK'
    BY <1>1, <1>2, <1>6, <1>7 DEF TypeOK
  <1>. QED BY <1>7, <1>11, <1>12, <1>13, <1>14 DEF OnceInv

-----------------------------------------------------------------------------
(* Writes that may be repeated *)

(* Steps that write to a provider what may be written twice. *)
Writers(p) ==
    \/ Publish(p) \/ WriteInventory(p) \/ LinkPhotos(p) \/ Activate(p) \/ Deactivate(p)
    \/ LinkListing(p) \/ Republish(p) \/ Tell(p) \/ RewriteSelectors(p) \/ RemapPhotos(p)

(* A writing action moves one attempt; products, drafts and photos stay. *)
LEMMA WritersMove ==
    ASSUME TypeOK, NEW p \in Workers, Writers(p)
    PROVE  /\ Moved(p) /\ UNCHANGED <<rec, late, used, overlap>>
           /\ faults' \in 0..MaxFaults /\ printify' \in Printifys /\ etsy' \in Etsys
           /\ printify'.products = printify.products
           /\ etsy'.photos = etsy.photos /\ etsy'.drafts = etsy.drafts
  <1>. USE StepNames
  <1>1. /\ proc \in [Workers -> Attempts] /\ proc[p] \in Attempts
        /\ printify \in Printifys /\ etsy \in Etsys /\ faults \in 0..MaxFaults
    BY DEF TypeOK
  <1>0. UNCHANGED <<rec, late, used, overlap>> /\ faults' \in 0..MaxFaults
    <2>1. faults' = faults \/ (faults < MaxFaults /\ faults' = faults + 1)
      BY DEF Writers, Publish, WriteInventory, LinkPhotos, Activate, Deactivate, LinkListing, Republish,
         Tell, RewriteSelectors, RemapPhotos
    <2>2. UNCHANGED <<rec, late, used, overlap>>
      BY DEF Writers, Publish, WriteInventory, LinkPhotos, Activate, Deactivate, LinkListing, Republish,
         Tell, RewriteSelectors, RemapPhotos
    <2>. QED BY <1>1, <2>1, <2>2
  <1>2. Lock \in Printifys /\ Lock.products = printify.products
    <2>1. (printify.locked \/ printify.link = "none") \in BOOLEAN
      BY <1>1 DEF Printifys
    <2>. QED BY <1>1, <2>1 DEF Lock, Printifys
  <1>3. CASE Publish(p)
    <2>. DEFINE a == [proc[p] EXCEPT !.response = "accepted", !.pc = "answer", !.tries = 0]
                b == [proc[p] EXCEPT !.tries = proc[p].tries + 1]
                c == [proc[p] EXCEPT !.tries = 0, !.pc = "raise"]
    <2>1. 0 \in 0..(Sends - 1) /\ "answer" \in Steps /\ "raise" \in Steps
      OBVIOUS
    <2>2. a \in Attempts /\ c \in Attempts
      BY ONLY <1>1, <2>1 DEF Attempts
    <2>3. proc[p].tries < Sends - 1 => b \in Attempts
      <3>1. proc[p].tries \in 0..(Sends - 1)
        BY ONLY <1>1 DEF Attempts
      <3>2. proc[p].tries < Sends - 1 => proc[p].tries + 1 \in 0..(Sends - 1)
        BY <3>1
      <3>. QED BY ONLY <1>1, <3>2 DEF Attempts
    <2>4. \/ proc' = [proc EXCEPT ![p] = a]
          \/ Go(p, "publish_refused")
          \/ proc[p].tries < Sends - 1 /\ proc' = [proc EXCEPT ![p] = b]
          \/ proc' = [proc EXCEPT ![p] = c]
      BY <1>1, <1>3 DEF Publish
    <2>5. printify' \in {printify, Lock} /\ etsy' = etsy
      BY <1>3 DEF Publish
    <2>. HIDE DEF a, b, c
    <2>6. Moved(p)
      BY <1>1, <2>2, <2>3, <2>4, GoType, MoveType
    <2>. QED BY <1>0, <1>1, <1>2, <2>5, <2>6
  <1>4. CASE WriteInventory(p)
    <2>. DEFINE a == [proc[p] EXCEPT !.pc = "photo", !.todo = Colors]
    <2>1. a \in Attempts
      BY <1>1 DEF Attempts
    <2>2. Go(p, "require") \/ proc' = [proc EXCEPT ![p] = a]
      BY <1>4 DEF WriteInventory
    <2>. HIDE DEF a
    <2>3. Moved(p)
      BY <1>1, <2>1, <2>2, GoType, MoveType
    <2>4. etsy' \in {etsy, [etsy EXCEPT !.inventory = TRUE]} /\ printify' = printify
      BY <1>4 DEF WriteInventory
    <2>. QED BY <1>0, <1>1, <2>3, <2>4 DEF Etsys
  <1>5. CASE LinkPhotos(p) \/ Activate(p) \/ Deactivate(p) \/ RewriteSelectors(p) \/ RemapPhotos(p)
    <2>1. \E s \in Steps : Go(p, s)
      BY <1>5 DEF LinkPhotos, Activate, Deactivate, RewriteSelectors, RemapPhotos
    <2>2. Moved(p)
      BY <1>1, <2>1, GoType
    <2>3. /\ printify' = printify
          /\ etsy' \in {etsy, [etsy EXCEPT !.links = TRUE], [etsy EXCEPT !.state = "active"],
                        [etsy EXCEPT !.state = "inactive"],
                        [etsy EXCEPT !.exact = TRUE, !.nativeLinks = FALSE],
                        [etsy EXCEPT !.nativeLinks = TRUE]}
      BY <1>5 DEF LinkPhotos, Activate, Deactivate, RewriteSelectors, RemapPhotos
    <2>4. etsy' \in Etsys /\ etsy'.photos = etsy.photos /\ etsy'.drafts = etsy.drafts
      BY ONLY <1>1, <2>3 DEF Etsys
    <2>. QED BY <1>0, <1>1, <2>2, <2>3, <2>4
  <1>6. CASE LinkListing(p) \/ Republish(p) \/ Tell(p)
    <2>. DEFINE told == [printify EXCEPT !.link = proc[p].listing, !.locked = FALSE]
    <2>1. \E s \in Steps : Go(p, s)
      BY <1>6 DEF LinkListing, Republish, Tell
    <2>2. Moved(p)
      BY <1>1, <2>1, GoType
    <2>3. told \in Printifys /\ told.products = printify.products
      BY <1>1 DEF Printifys, Attempts
    <2>4. printify' \in {printify, Lock, told} /\ etsy' = etsy
      BY <1>6 DEF LinkListing, Republish, Tell
    <2>. HIDE DEF told
    <2>. QED BY <1>0, <1>1, <1>2, <2>2, <2>3, <2>4
  <1>. QED BY <1>3, <1>4, <1>5, <1>6 DEF Writers

(* Printify carrying out a publish request. *)
LEMMA NativePublishType ==
    ASSUME TypeOK, NativePublish
    PROVE  /\ UNCHANGED <<rec, late, proc, used, faults, overlap>>
           /\ printify' \in Printifys /\ etsy' \in Etsys
           /\ printify'.products = printify.products
           /\ etsy'.photos = etsy.photos /\ etsy'.drafts = etsy.drafts
  <1>1. printify \in Printifys /\ etsy \in Etsys
    BY DEF TypeOK
  <1>2. printify' \in {[printify EXCEPT !.locked = FALSE, !.link = "native"], [printify EXCEPT !.locked = FALSE]}
    BY DEF NativePublish
  <1>3. etsy' \in {etsy, [etsy EXCEPT !.native = TRUE, !.nativeLinks = TRUE]}
    BY DEF NativePublish
  <1>4. printify' \in Printifys /\ printify'.products = printify.products
    BY <1>1, <1>2 DEF Printifys, Listings
  <1>5. etsy' \in Etsys /\ etsy'.photos = etsy.photos /\ etsy'.drafts = etsy.drafts
    BY ONLY <1>1, <1>3 DEF Etsys
  <1>. QED BY <1>4, <1>5 DEF NativePublish

(* Steps that send what must not be sent twice. *)
LEMMA SendersMove ==
    ASSUME TypeOK, NEW p \in Workers, Create(p) \/ CreateDraft(p) \/ UploadPhoto(p)
    PROVE  Moved(p) /\ UNCHANGED <<rec, used, overlap>>
  <1>. USE StepNames
  <1>1. proc \in [Workers -> Attempts] /\ proc[p] \in Attempts
    BY DEF TypeOK
  <1>2. CASE Create(p)
    <2>. DEFINE a == [proc[p] EXCEPT !.product = proc[p].num, !.pc = "save"]
    <2>1. a \in Attempts
      BY <1>1 DEF Attempts
    <2>2. proc' = [proc EXCEPT ![p] = a] \/ \E s \in Steps : Go(p, s)
      BY <1>2 DEF Create
    <2>. HIDE DEF a
    <2>. QED BY <1>1, <1>2, <2>1, <2>2, GoType, MoveType DEF Create
  <1>3. CASE CreateDraft(p)
    <2>. DEFINE a == [proc[p] EXCEPT !.pc = "save_draft", !.listing = "direct", !.owned = TRUE]
    <2>1. a \in Attempts
      <3>1. "direct" \in Listings /\ "save_draft" \in Steps
        BY DEF Listings
      <3>. QED BY ONLY <1>1, <3>1 DEF Attempts
    <2>2. proc' = [proc EXCEPT ![p] = a] \/ \E s \in Steps : Go(p, s)
      BY <1>3 DEF CreateDraft
    <2>. HIDE DEF a
    <2>. QED BY <1>1, <1>3, <2>1, <2>2, GoType, MoveType DEF CreateDraft
  <1>4. CASE UploadPhoto(p)
    BY <1>1, <1>4, GoType DEF UploadPhoto
  <1>. QED BY <1>2, <1>3, <1>4

-----------------------------------------------------------------------------
(* Every step keeps it *)

(* What a step of p must know of where p goes. *)
GroundedAttempt(p) ==
    /\ proc[p].pc # "idle" => used # 0
    /\ proc[p].pc \in {"reserve", "create"} => proc[p].num # None /\ proc[p].upload # None
    /\ proc[p].pc \in Picking => proc[p].todo # {}

(* A step of p that keeps the requests apart keeps the invariant. *)
LEMMA Assembled ==
    ASSUME OnceInv, NEW p \in Workers, Moved(p), GroundedAttempt(p)', used' \in 0..MaxStarts,
           used # 0 => used' # 0,
           rec' \in Records, printify' \in Printifys, etsy' \in Etsys, faults' \in 0..MaxFaults,
           late' \subseteq [what : Requests, id : 0..MaxStarts, upload : 0..MaxStarts],
           \A l \in late' : l.what = Product => l.id # None /\ l.upload # None,
           late' # {} => used' # 0,
           overlap' = overlap, Single', Distinct', \A r \in Requests : Once(r)'
    PROVE  OnceInv'
  <1>1. TypeOK'
    BY DEF OnceInv, TypeOK, Moved
  <1>2. Grounded'
    <2>1. \A q \in Workers : q # p => GroundedAttempt(q)'
      <3>1. ASSUME NEW q \in Workers, q # p PROVE GroundedAttempt(q)'
        <4>1. proc'[q] = proc[q] /\ GroundedAttempt(q)
          BY <3>1 DEF Moved, OnceInv, Grounded, GroundedAttempt
        <4>. QED BY <4>1 DEF GroundedAttempt
      <3>. QED BY <3>1
    <2>2. \A q \in Workers : GroundedAttempt(q)'
      BY <2>1
    <2>. QED BY <2>2 DEF Grounded, GroundedAttempt
  <1>. QED BY <1>1, <1>2 DEF OnceInv

(* A step of p that asks for nothing and does nothing that counts. *)
LEMMA QuietStep ==
    ASSUME OnceInv, NEW p \in Workers, Moved(p), GroundedAttempt(p)',
           used' \in 0..MaxStarts, used # 0 => used' # 0,
           rec' \in Records, printify' \in Printifys, etsy' \in Etsys, faults' \in 0..MaxFaults,
           late' = late, overlap' = overlap,
           printify'.products = printify.products,
           etsy'.drafts = etsy.drafts, etsy'.photos = etsy.photos,
           \A r \in Requests : Reserved(r) => Reserved(r)',
           proc'[p].pc \notin Asks
    PROVE  OnceInv'
  <1>1. \A r \in Requests : (Done(r)' <=> Done(r)) /\ (Waiting(r)' <=> Waiting(r))
    BY DEF Done, Waiting
  <1>2. \A r \in Requests : ~Asking(p, r)'
    BY DEF Asking, Asks
  <1>3. \A r \in Requests : Once(r)'
    BY <1>1, <1>2, OnceStays DEF OnceInv
  <1>4. Single' /\ Distinct'
    BY DEF OnceInv, Single, Distinct
  <1>5. /\ late' \subseteq [what : Requests, id : 0..MaxStarts, upload : 0..MaxStarts]
        /\ \A l \in late' : l.what = Product => l.id # None /\ l.upload # None
        /\ late' # {} => used' # 0
    BY DEF OnceInv, TypeOK, Grounded
  <1>. QED BY <1>3, <1>4, <1>5, Assembled

(* The step an attempt goes to, whatever else it learns. *)
LEMMA StepOf ==
    ASSUME NEW a \in Attempts
    PROVE  /\ \A s, x : [a EXCEPT !.pc = s, !.product = x].pc = s
           /\ \A s, x : [a EXCEPT !.pc = s, !.response = x].pc = s
           /\ \A s, x : [a EXCEPT !.pc = s, !.listing = x].pc = s
           /\ \A s, x : [a EXCEPT !.adopt = x, !.pc = s].pc = s
           /\ \A s, x, y : [a EXCEPT !.pc = s, !.listing = x, !.owned = y].pc = s
           /\ Progress(a).pc = "find"
  BY DEF Attempts, Progress

(* Go leads to the step it names. *)
LEMMA GoesTo ==
    ASSUME proc \in [Workers -> Attempts], NEW p \in Workers
    PROVE  \A s : Go(p, s) => proc'[p].pc = s
  BY DEF Go, Attempts

(* The next photo is one that is left. *)
LEMMA LookAtPhotoGoes ==
    ASSUME TypeOK, NEW p \in Workers, LookAtPhoto(p)
    PROVE  /\ proc'[p].pc \in {"links", "photo", "save_photo", "reserve_photo", "require"}
           /\ proc'[p].pc \in Picking => proc'[p].todo # {}
  <1>1. proc \in [Workers -> Attempts] /\ proc[p] \in Attempts
    BY DEF TypeOK
  <1>2. CASE proc[p].todo = {}
    BY <1>1, <1>2 DEF LookAtPhoto, At, Go, Attempts, Picking
  <1>3. CASE proc[p].todo # {}
    <2>1. \/ proc' = [proc EXCEPT ![p].todo = @ \ {NextColor(p)}]
          \/ proc' = [proc EXCEPT ![p] = [@ EXCEPT !.pc = "save_photo"]]
          \/ Go(p, "reserve_photo") \/ Go(p, "require")
      BY <1>3 DEF LookAtPhoto
    <2>2. proc[p].pc = "photo"
      BY DEF LookAtPhoto, At
    <2>. QED BY <1>1, <1>3, <2>1, <2>2 DEF Go, Attempts, Picking
  <1>. QED BY <1>2, <1>3
(* A reader is at work, asks for nothing, and stores no product. *)
LEMMA ReadersGo ==
    ASSUME TypeOK, NEW p \in Workers, Readers(p)
    PROVE  /\ proc[p].pc # "idle"
           /\ \/ proc'[p].pc \notin Asks \cup Building \cup {"reserve", "create"}
              \/ LookAtPhoto(p)
           /\ proc[p].pc \in Early => proc'[p].pc \in Early
           /\ proc'[p].pc = "save" => Reconcile(p)
  <1>1. proc \in [Workers -> Attempts] /\ proc[p] \in Attempts
    BY DEF TypeOK
  <1>2. CASE Reconcile(p)
    <2>. DEFINE a == [proc[p] EXCEPT !.pc = "save", !.product =
                        (CHOOSE x \in {x \in printify.products : x.upload = proc[p].upload} : TRUE).id]
    <2>1. a.pc = "save"
      BY <1>1, StepOf
    <2>2. proc' = [proc EXCEPT ![p] = a] \/ Go(p, "unreconciled")
      BY <1>2 DEF Reconcile
    <2>. HIDE DEF a
    <2>3. proc'[p].pc \in {"save", "unreconciled"}
      BY <1>1, <2>1, <2>2, GoType, StepNames
    <2>. QED BY <1>2, <2>3 DEF Reconcile, At, Asks, Building, Picking, Early
  <1>3. CASE PrepareMockups(p) \/ Activated(p) \/ Confirm(p) \/ Recount(p) \/ Unverified(p) \/ Raise(p)
    <2>1. \/ /\ proc[p].pc \in {"mockups", "activated", "confirm", "recount", "wait", "find", "look", "photo",
                                 "links", "verify", "rewrite", "remap", "gallery"}
             /\ \E s \in {"require", "readback", "request", "link", "deactivate", "recount", "verify"} : Go(p, s)
          \/ proc[p].pc \in {"reserve", "reconcile", "readback"} /\ Go(p, "raise")
      BY <1>3 DEF PrepareMockups, Activated, Confirm, Recount, Unverified, Raise, At
    <2>2. \/ /\ proc[p].pc \in {"mockups", "activated", "confirm", "recount", "wait", "find", "look", "photo",
                                 "links", "verify", "rewrite", "remap", "gallery"}
             /\ proc'[p].pc \in {"require", "readback", "request", "link", "deactivate", "recount", "verify"}
          \/ proc[p].pc \in {"reserve", "reconcile", "readback"} /\ proc'[p].pc = "raise"
      BY <1>1, <2>1, GoesTo
    <2>. QED BY <2>2 DEF Asks, Building, Picking, Early
  <1>4. CASE Crash(p)
    BY <1>1, <1>4, LeaveType DEF Crash, At, Asks, Building, Picking, Early
  <1>9. CASE ReadBack(p)
    <2>1. proc'[p].pc = "request"
      BY <1>1, <1>9, StepOf DEF ReadBack
    <2>. QED BY <1>9, <2>1 DEF ReadBack, At, Asks, Building, Picking, Early
  <1>5. CASE WaitForLink(p)
    <2>1. proc'[p].pc \in {"verify", "require", "find"}
      BY <1>1, <1>5, StepOf, GoType, StepNames DEF WaitForLink
    <2>. QED BY <1>5, <2>1 DEF WaitForLink, At, Asks, Building, Picking, Early
  <1>6. CASE FindListing(p)
    <2>1. \/ \E s \in {"look", "require", "reserve_draft"} : Go(p, s)
          \/ \E l, own : proc' = [proc EXCEPT ![p] = [proc[p] EXCEPT
                              !.pc = "save_draft", !.listing = l, !.owned = own]]
      BY <1>6 DEF FindListing
    <2>2. ASSUME NEW s, Go(p, s) PROVE proc'[p].pc = s
      BY <1>1, <2>2, GoesTo
    <2>3. ASSUME NEW l, NEW own, proc' = [proc EXCEPT ![p] = [proc[p] EXCEPT
                              !.pc = "save_draft", !.listing = l, !.owned = own]]
          PROVE  proc'[p].pc = "save_draft"
      BY <1>1, <2>3, StepOf
    <2>4. proc'[p].pc \in {"look", "require", "reserve_draft", "save_draft"}
      BY <2>1, <2>2, <2>3
    <2>. QED BY <1>6, <2>4 DEF FindListing, At, Asks, Building, Picking, Early
  <1>7. CASE Look(p)
    <2>1. \/ \E s \in {"inventory", "require"} : Go(p, s)
          \/ proc' = [proc EXCEPT ![p] = [proc[p] EXCEPT !.adopt = TRUE, !.pc = "link"]]
      BY <1>7 DEF Look
    <2>3. proc' = [proc EXCEPT ![p] = [proc[p] EXCEPT !.adopt = TRUE, !.pc = "link"]] => proc'[p].pc = "link"
      BY <1>1, StepOf
    <2>2. proc'[p].pc \in {"inventory", "require", "link"}
      BY ONLY <1>1, <2>1, <2>3, GoesTo
    <2>. QED BY <1>7, <2>2 DEF Look, At, Asks, Building, Picking, Early
  <1>10. CASE VerifyGallery(p)
    <2>1. \/ Go(p, "require")
          \/ proc' = [proc EXCEPT ![p] = [proc[p] EXCEPT !.pc = "finish", !.listing = printify.link]]
      BY <1>10 DEF VerifyGallery
    <2>3. proc' = [proc EXCEPT ![p] = [proc[p] EXCEPT !.pc = "finish", !.listing = printify.link]]
             => proc'[p].pc = "finish"
      BY <1>1, StepOf
    <2>2. proc'[p].pc \in {"require", "finish"}
      BY ONLY <1>1, <2>1, <2>3, GoesTo
    <2>. QED BY <1>10, <2>2 DEF VerifyGallery, At, Asks, Building, Picking, Early
  <1>8. CASE LookAtPhoto(p)
    <2>1. proc'[p].pc \in {"links", "photo", "save_photo", "reserve_photo", "require"}
      BY <1>8, LookAtPhotoGoes
    <2>. QED BY <1>8, <2>1 DEF LookAtPhoto, At, Early
  <1>. QED BY <1>2, <1>3, <1>4, <1>5, <1>6, <1>7, <1>8, <1>9, <1>10 DEF Readers

(* Reading actions preserve the invariant. *)
LEMMA ReadersKeep ==
    ASSUME OnceInv, NEW p \in Workers, Readers(p)
    PROVE  OnceInv'
  <1>1. TypeOK
    BY DEF OnceInv
  <1>2. Moved(p) /\ UNCHANGED local
    BY <1>1, ReadersMove
  <1>3. UNCHANGED <<rec, printify, etsy, late, used, faults, overlap>>
    BY <1>2 DEF local
  <1>4. proc[p].pc # "idle" /\ used # 0
    BY <1>1, ReadersGo DEF OnceInv, Grounded
  <1>5. proc'[p].pc \notin Asks /\ GroundedAttempt(p)'
    <2>1. CASE LookAtPhoto(p)
      BY <1>1, <1>3, <1>4, <2>1, LookAtPhotoGoes DEF GroundedAttempt, Asks
    <2>2. CASE ~LookAtPhoto(p)
      BY <1>1, <1>3, <1>4, <2>2, ReadersGo DEF GroundedAttempt, Asks, Picking, Building
    <2>. QED BY <2>1, <2>2
  <1>6. \A r \in Requests : Reserved(r) => Reserved(r)'
    BY <1>3 DEF Reserved
  <1>. QED BY <1>1, <1>2, <1>3, <1>4, <1>5, <1>6, QuietStep DEF TypeOK

(* Start preserves the invariant. *)
LEMMA StartKeeps ==
    ASSUME OnceInv, NEW p \in Workers, Start(p)
    PROVE  OnceInv'
  <1>1. TypeOK
    BY DEF OnceInv
  <1>2. /\ Moved(p) /\ used' \in 0..MaxStarts /\ used' # 0
        /\ proc'[p].pc = "reserve" /\ proc'[p].num # None /\ proc'[p].upload # None
        /\ UNCHANGED <<rec, printify, etsy, late, faults, overlap>>
    BY <1>1, StartMoves
  <1>3. proc'[p].pc \notin Asks /\ GroundedAttempt(p)'
    BY <1>2 DEF Asks, GroundedAttempt, Picking
  <1>4. \A r \in Requests : Reserved(r) => Reserved(r)'
    BY <1>2 DEF Reserved
  <1>. QED BY <1>1, <1>2, <1>3, <1>4, QuietStep DEF TypeOK

(* Where a step that writes the record leads, and that it reserves for good *)
(* what it reserves; the others follow.                                     *)
QuietRecorders(p) ==
    \/ Unreconciled(p) \/ SaveProduct(p) \/ ReservePublish(p) \/ PublishRefused(p) \/ SaveResponse(p)
    \/ SaveDraft(p) \/ SavePhoto(p) \/ Verify(p) \/ Finish(p) \/ RequireVerification(p) \/ RecordFailure(p)

(* These transactions lead to no step that asks for something. *)
LEMMA RecordersGo ==
    ASSUME TypeOK, NEW p \in Workers, QuietRecorders(p)
    PROVE  /\ proc[p].pc # "idle"
           /\ proc'[p].pc \notin Asks \cup Picking \cup {"reserve", "create", "save", "activate"}
           /\ proc'[p].pc \in Building => SavePhoto(p)
           /\ proc[p].pc \in Early => proc'[p].pc \in Early \/ SaveProduct(p)
  <1>1. proc \in [Workers -> Attempts] /\ proc[p] \in Attempts
    BY DEF TypeOK
  <1>0. Leave(p) => proc'[p].pc = "idle"
    BY <1>1, LeaveType
  <1>2. CASE Unreconciled(p) \/ Finish(p) \/ RequireVerification(p) \/ RecordFailure(p)
    BY <1>0, <1>2 DEF Unreconciled, Finish, RequireVerification, RecordFailure, At, Asks, Picking, Building, Early
  <1>3. CASE SaveProduct(p)
    <2>. DEFINE a == [proc[p] EXCEPT !.pc = "mockups", !.response = Known(rec), !.product = None, !.upload = None]
    <2>1. Leave(p) \/ proc' = [proc EXCEPT ![p] = a]
      BY <1>3 DEF SaveProduct
    <2>2. a.pc = "mockups"
      BY ONLY <1>1 DEF Attempts
    <2>. HIDE DEF a
    <2>3. proc'[p].pc \in {"idle", "mockups"}
      BY <1>0, <1>1, <2>1, <2>2
    <2>. QED BY <1>3, <2>3 DEF SaveProduct, At, Asks, Picking, Building, Early
  <1>4. CASE ReservePublish(p)
    <2>. DEFINE x == IF Known(rec) # "none" THEN Known(rec) ELSE proc[p].response
                s == IF x = "none" THEN "publish" ELSE "answer"
                a == [proc[p] EXCEPT !.response = x, !.status = "none", !.pc = s]
    <2>1. Leave(p) \/ proc' = [proc EXCEPT ![p] = a]
      BY <1>4 DEF ReservePublish
    <2>2. s \in {"publish", "answer"}
      OBVIOUS
    <2>. HIDE DEF x, s
    <2>3. a.pc = s
      BY ONLY <1>1 DEF Attempts
    <2>. HIDE DEF a
    <2>4. proc'[p].pc \in {"idle", "publish", "answer"}
      BY <1>0, <1>1, <2>1, <2>2, <2>3
    <2>. QED BY <1>4, <2>4 DEF ReservePublish, At, Asks, Picking, Building, Early
  <1>5. CASE SaveResponse(p)
    <2>1. proc' = [proc EXCEPT ![p] = [proc[p] EXCEPT !.pc = "wait", !.response = "none", !.num = None]]
      BY <1>5 DEF SaveResponse
    <2>2. [proc[p] EXCEPT !.pc = "wait", !.response = "none", !.num = None].pc = "wait"
      BY <1>1 DEF Attempts
    <2>3. proc'[p].pc = "wait"
      BY ONLY <1>1, <2>1, <2>2
    <2>. QED BY <1>5, <2>3 DEF SaveResponse, At, Asks, Picking, Building, Early
  <1>6. CASE SavePhoto(p)
    <2>. DEFINE x == proc[p].ids \cup {NextColor(p)}
                y == proc[p].todo \ {NextColor(p)}
                a == [proc[p] EXCEPT !.ids = x, !.pending = None, !.todo = y, !.pc = "photo"]
    <2>1. Go(p, "require") \/ proc' = [proc EXCEPT ![p] = a]
      BY <1>6 DEF SavePhoto
    <2>. HIDE DEF x, y
    <2>2. a.pc = "photo"
      BY ONLY <1>1 DEF Attempts
    <2>. HIDE DEF a
    <2>3. proc'[p].pc \in {"require", "photo"}
      BY <1>1, <2>1, <2>2, GoesTo
    <2>. QED BY <1>6, <2>3 DEF SavePhoto, At, Asks, Picking, Building, Early
  <1>7. CASE PublishRefused(p) \/ SaveDraft(p) \/ Verify(p)
    <2>1. \E s \in {"raise", "require", "look", "gallery", "rewrite", "remap"} : Go(p, s)
      BY <1>7 DEF PublishRefused, SaveDraft, Verify
    <2>2. proc'[p].pc \in {"raise", "require", "look", "gallery", "rewrite", "remap"}
      BY <1>1, <2>1, GoesTo
    <2>. QED BY <1>7, <2>2 DEF PublishRefused, SaveDraft, Verify, At, Asks, Picking, Building, Early
  <1>. QED BY <1>2, <1>3, <1>4, <1>5, <1>6, <1>7 DEF QuietRecorders

(* Reservations stay; a saved photo keeps its own by being saved. *)
LEMMA RecordersReserve ==
    ASSUME TypeOK, NEW p \in Workers, QuietRecorders(p)
    PROVE  \A r \in Requests : Reserved(r) => Reserved(r)'
  <1>1. rec \in Records
    BY DEF TypeOK
  <1>2. /\ rec'.created = rec.created /\ rec'.draft = rec.draft
        /\ \A c \in Colors : c = rec.pending \/ c \in rec.ids => c = rec'.pending \/ c \in rec'.ids
    <2>1. CASE SavePhoto(p)
      <3>1. \/ rec' = rec
            \/ \E ids : rec' = [rec EXCEPT !.ids = Merged(rec, ids), !.pending = Released(rec, ids)]
        BY <2>1 DEF SavePhoto
      <3>2. ASSUME NEW ids, rec' = [rec EXCEPT !.ids = Merged(rec, ids), !.pending = Released(rec, ids)]
            PROVE  /\ rec'.created = rec.created /\ rec'.draft = rec.draft
                   /\ \A c \in Colors : c = rec.pending \/ c \in rec.ids => c = rec'.pending \/ c \in rec'.ids
        BY <1>1, <3>2 DEF Records, Merged, Released
      <3>. QED BY <3>1, <3>2
    <2>2. CASE ~SavePhoto(p)
      <3>1. \/ rec' = rec
            \/ \E x : rec' = [rec EXCEPT !.status = x]
            \/ \E x, y : \/ rec' = [rec EXCEPT !.product = x, !.status = y]
                         \/ rec' = [rec EXCEPT !.listing = x, !.owned = y]
                         \/ rec' = [rec EXCEPT !.status = x, !.external = y]
            \/ \E x : \/ rec' = [rec EXCEPT !.started = x] \/ rec' = [rec EXCEPT !.response = x]
                      \/ rec' = [rec EXCEPT !.plan = x]
        BY <2>2 DEF QuietRecorders, Unreconciled, SaveProduct, ReservePublish, PublishRefused,
           SaveResponse, SaveDraft, Verify, Finish, RequireVerification, RecordFailure
      <3>2. rec'.created = rec.created /\ rec'.draft = rec.draft /\ rec'.pending = rec.pending /\ rec'.ids = rec.ids
        BY ONLY <1>1, <3>1 DEF Records
      <3>. QED BY <3>2
    <2>. QED BY <2>1, <2>2
  <1>. QED BY <1>2 DEF Reserved

(* Transactions that reserve nothing preserve the invariant. *)
LEMMA QuietRecordersKeep ==
    ASSUME OnceInv, NEW p \in Workers, QuietRecorders(p)
    PROVE  OnceInv'
  <1>1. TypeOK /\ Grounded /\ Recorders(p)
    BY DEF OnceInv, QuietRecorders, Recorders
  <1>2. Moved(p) /\ rec' \in Records /\ UNCHANGED <<printify, etsy, late, used, faults, overlap>>
    BY <1>1, RecordersMove DEF remote
  <1>3. proc[p].pc # "idle" /\ used # 0 /\ proc'[p].pc \notin Asks \cup Picking \cup {"reserve", "create"}
    BY <1>1, RecordersGo DEF Grounded
  <1>4. proc'[p].pc \notin Asks /\ GroundedAttempt(p)'
    BY <1>2, <1>3 DEF GroundedAttempt
  <1>5. \A r \in Requests : Reserved(r) => Reserved(r)'
    BY <1>1, RecordersReserve
  <1>. QED BY <1>1, <1>2, <1>3, <1>4, <1>5, QuietStep DEF TypeOK

(* A request nobody had reserved was not sent, and one attempt may send it now. *)
LEMMA Acquired ==
    ASSUME OnceInv, NEW p \in Workers, Moved(p), GroundedAttempt(p)', NEW r \in Requests,
           rec' \in Records, UNCHANGED <<printify, etsy, late, used, faults, overlap>>,
           ~Reserved(r), Reserved(r)',
           \A s \in Requests : Reserved(s) => Reserved(s)',
           \A s \in Requests : Asking(p, s)' => s = r
    PROVE  OnceInv'
  <1>1. \A s \in Requests : (Done(s)' <=> Done(s)) /\ (Waiting(s)' <=> Waiting(s))
    BY DEF Done, Waiting
  <1>2. \A s \in Requests : Once(s)
    BY DEF OnceInv
  <1>3. \A s \in Requests : s # r => Once(s)'
    BY <1>1, <1>2, OnceStays
  <1>4. ~Done(r) /\ ~Waiting(r) /\ \A q \in Workers : ~Asking(q, r)
    BY <1>2 DEF Once
  <1>5. \A q \in Workers : q # p => ~Asking(q, r)'
    BY <1>4, OthersAsk
  <1>6. Once(r)'
    BY <1>1, <1>4, <1>5 DEF Once
  <1>7. Single' /\ Distinct'
    BY DEF OnceInv, Single, Distinct
  <1>8. /\ TypeOK /\ used' \in 0..MaxStarts
        /\ late' \subseteq [what : Requests, id : 0..MaxStarts, upload : 0..MaxStarts]
        /\ \A l \in late' : l.what = Product => l.id # None /\ l.upload # None
        /\ late' # {} => used' # 0
    BY DEF OnceInv, TypeOK, Grounded
  <1>. QED BY <1>3, <1>6, <1>7, <1>8, Assembled DEF TypeOK

(* Reserving the product (the first transaction of publish_channel_run). *)
LEMMA ReserveKeeps ==
    ASSUME OnceInv, NEW p \in Workers, Reserve(p)
    PROVE  OnceInv'
  <1>1. TypeOK /\ Grounded /\ Recorders(p)
    BY DEF OnceInv, Recorders
  <1>2. Moved(p) /\ rec' \in Records /\ UNCHANGED <<printify, etsy, late, used, faults, overlap>>
    BY <1>1, RecordersMove DEF remote
  <1>3. /\ proc \in [Workers -> Attempts] /\ proc[p] \in Attempts /\ rec \in Records
        /\ used # 0 /\ proc[p].num # None /\ proc[p].upload # None
    BY <1>1 DEF TypeOK, Grounded, Reserve, At
  <1>. DEFINE upload == IF rec.upload # None THEN rec.upload ELSE proc[p].upload
              status == IF rec.status = "reconciliation_required" THEN rec.status ELSE "none"
              s == IF rec.product # None THEN "save" ELSE IF Asked(rec) THEN "reconcile" ELSE "create"
              a == [proc[p] EXCEPT !.upload = upload, !.product = rec.product, !.status = status, !.pc = s]
              new == rec.product = None /\ ~Asked(rec)
              r == [rec EXCEPT !.upload = upload, !.status = "creating", !.created = @ \/ new]
  <1>4. (Leave(p) /\ rec' = rec) \/ (proc' = [proc EXCEPT ![p] = a] /\ rec' = r)
    BY DEF Reserve
  <1>5. upload # None /\ s \in {"save", "reconcile", "create"} /\ (s = "create" <=> new)
    BY <1>3
  <1>6. new \in BOOLEAN /\ (new => ~rec.created)
    BY DEF Asked
  <1>. HIDE DEF upload, status, s, new
  <1>7. a.pc = s /\ a.upload = upload /\ a.num = proc[p].num
    BY ONLY <1>3 DEF Attempts
  <1>8. r.created = (rec.created \/ new) /\ r.draft = rec.draft /\ r.pending = rec.pending /\ r.ids = rec.ids
    BY ONLY <1>3 DEF Records
  <1>. HIDE DEF a, r
  <1>9. CASE Leave(p) /\ rec' = rec
    <2>1. proc'[p].pc = "idle"
      BY <1>3, <1>9, LeaveType
    <2>2. \A x \in Requests : Reserved(x) => Reserved(x)'
      BY <1>9 DEF Reserved
    <2>3. GroundedAttempt(p)' /\ proc'[p].pc \notin Asks
      BY <2>1 DEF GroundedAttempt, Picking, Asks
    <2>. QED BY <1>1, <1>2, <2>2, <2>3, QuietStep DEF TypeOK
  <1>10. CASE proc' = [proc EXCEPT ![p] = a] /\ rec' = r
    <2>1. proc'[p] = a
      BY <1>3, <1>10
    <2>2. GroundedAttempt(p)'
      BY <1>2, <1>3, <1>5, <1>7, <2>1 DEF GroundedAttempt, Picking
    <2>3. \A x \in Requests : Reserved(x) => Reserved(x)'
      BY <1>8, <1>10 DEF Reserved
    <2>4. CASE new
      <3>1. ~Reserved(Product) /\ Reserved(Product)'
        BY <1>6, <1>8, <1>10, <2>4, Kinds DEF Reserved
      <3>2. \A x \in Requests : Asking(p, x)' => x = Product
        BY <1>5, <1>7, <2>1, <2>4 DEF Asking
      <3>. QED BY <1>2, <2>2, <2>3, <3>1, <3>2, Kinds, Acquired
    <2>5. CASE ~new
      <3>1. proc'[p].pc \notin Asks
        BY <1>5, <1>7, <2>1, <2>5 DEF Asks
      <3>. QED BY <1>1, <1>2, <2>2, <2>3, <3>1, QuietStep DEF TypeOK
    <2>. QED BY <2>4, <2>5
  <1>. QED BY <1>4, <1>9, <1>10

(* The reservation of a refused creation is cleared (_clear_rejected_publish_intent). *)
LEMMA CreateRefusedKeeps ==
    ASSUME OnceInv, NEW p \in Workers, CreateRefused(p)
    PROVE  OnceInv'
  <1>1. TypeOK /\ Grounded /\ Recorders(p)
    BY DEF OnceInv, Recorders
  <1>2. Moved(p) /\ rec' \in Records /\ UNCHANGED <<printify, etsy, late, used, faults, overlap>>
    BY <1>1, RecordersMove DEF remote
  <1>3. /\ proc'[p].pc = "raise" /\ proc[p].pc = "refused" /\ used # 0
        /\ rec'.draft = rec.draft /\ rec'.pending = rec.pending /\ rec'.ids = rec.ids
    BY <1>1, GoesTo DEF CreateRefused, At, TypeOK, Records, Grounded
  <1>4. \A s \in Requests : /\ Done(s)' <=> Done(s)
                            /\ Waiting(s)' <=> Waiting(s)
                            /\ s # Product => (Reserved(s) => Reserved(s)')
                            /\ ~Asking(p, s)'
    BY <1>2, <1>3 DEF Done, Waiting, Reserved, Asking
  <1>5. \A s \in Requests : Once(s)
    BY DEF OnceInv
  <1>6. \A s \in Requests : s # Product => Once(s)'
    BY <1>2, <1>4, <1>5, OnceStays
  <1>7. Once(Product)'
    <2>1. Asking(p, Product)
      BY <1>3 DEF Asking
    <2>2. ~Done(Product) /\ ~Waiting(Product) /\ \A q \in Workers : Asking(q, Product) => q = p
      BY <1>5, <2>1, Kinds DEF Once
    <2>3. \A q \in Workers : ~Asking(q, Product)'
      BY <1>2, <1>4, <2>2, OthersAsk, Kinds
    <2>. QED BY <1>4, <2>2, <2>3, Kinds DEF Once
  <1>8. GroundedAttempt(p)'
    BY <1>2, <1>3 DEF GroundedAttempt, Picking
  <1>9. Single' /\ Distinct'
    BY <1>2 DEF OnceInv, Single, Distinct
  <1>10. /\ used' \in 0..MaxStarts
         /\ late' \subseteq [what : Requests, id : 0..MaxStarts, upload : 0..MaxStarts]
         /\ \A l \in late' : l.what = Product => l.id # None /\ l.upload # None
         /\ late' # {} => used' # 0
    BY <1>1, <1>2 DEF TypeOK, Grounded
  <1>. QED BY <1>1, <1>2, <1>6, <1>7, <1>8, <1>9, <1>10, Assembled DEF TypeOK

(* Reserving the draft (_checkpoint_etsy_publish with draft_create_started). *)
LEMMA ReserveDraftKeeps ==
    ASSUME OnceInv, NEW p \in Workers, ReserveDraft(p)
    PROVE  OnceInv'
  <1>1. TypeOK /\ Grounded /\ Recorders(p)
    BY DEF OnceInv, Recorders
  <1>2. Moved(p) /\ rec' \in Records /\ UNCHANGED <<printify, etsy, late, used, faults, overlap>>
    BY <1>1, RecordersMove DEF remote
  <1>3. /\ proc \in [Workers -> Attempts] /\ proc[p] \in Attempts /\ rec \in Records /\ used # 0
    BY <1>1 DEF TypeOK, Grounded, ReserveDraft, At
  <1>4. CASE Completed \/ rec.draft
    <2>1. proc'[p].pc = "require" /\ rec' = rec
      BY <1>3, <1>4, GoesTo DEF ReserveDraft
    <2>2. \A x \in Requests : Reserved(x) => Reserved(x)'
      BY <2>1 DEF Reserved
    <2>3. GroundedAttempt(p)' /\ proc'[p].pc \notin Asks
      BY <1>2, <1>3, <2>1 DEF GroundedAttempt, Picking, Asks
    <2>. QED BY <1>1, <1>2, <2>2, <2>3, QuietStep DEF TypeOK
  <1>5. CASE ~Completed /\ ~rec.draft
    <2>. DEFINE a == [proc[p] EXCEPT !.draft = TRUE, !.pc = "create_draft"]
    <2>1. rec' = [rec EXCEPT !.draft = TRUE] /\ proc' = [proc EXCEPT ![p] = a]
      BY <1>5 DEF ReserveDraft
    <2>2. a.pc = "create_draft"
      BY ONLY <1>3 DEF Attempts
    <2>. HIDE DEF a
    <2>3. proc'[p].pc = "create_draft"
      BY <1>3, <2>1, <2>2
    <2>4. rec'.draft /\ rec'.created = rec.created /\ rec'.pending = rec.pending /\ rec'.ids = rec.ids
      BY ONLY <1>3, <2>1 DEF Records
    <2>5. GroundedAttempt(p)'
      BY <1>2, <1>3, <2>3 DEF GroundedAttempt, Picking
    <2>6. \A x \in Requests : Reserved(x) => Reserved(x)'
      BY <2>4 DEF Reserved
    <2>7. ~Reserved(Draft) /\ Reserved(Draft)'
      BY <1>5, <2>4, Kinds DEF Reserved
    <2>8. \A x \in Requests : Asking(p, x)' => x = Draft
      BY <2>3 DEF Asking
    <2>. QED BY <1>2, <2>5, <2>6, <2>7, <2>8, Kinds, Acquired
  <1>. QED BY <1>4, <1>5

(* Reserving a photo (_checkpoint_etsy_publish with image_upload_started_color). *)
LEMMA ReservePhotoKeeps ==
    ASSUME OnceInv, NEW p \in Workers, ReservePhoto(p)
    PROVE  OnceInv'
  <1>1. TypeOK /\ Grounded /\ Recorders(p)
    BY DEF OnceInv, Recorders
  <1>2. Moved(p) /\ rec' \in Records /\ UNCHANGED <<printify, etsy, late, used, faults, overlap>>
    BY <1>1, RecordersMove DEF remote
  <1>3. /\ proc \in [Workers -> Attempts] /\ proc[p] \in Attempts /\ rec \in Records /\ used # 0
        /\ proc[p].todo # {}
    BY <1>1 DEF TypeOK, Grounded, ReservePhoto, At, Picking
  <1>4. PICK c \in Colors : c = NextColor(p)
    BY <1>3, NextColorType
  <1>5. CASE Completed \/ rec.pending # None \/ c \in rec.ids
    <2>1. proc'[p].pc = "require" /\ rec' = rec
      BY <1>3, <1>4, <1>5, GoesTo DEF ReservePhoto
    <2>2. \A x \in Requests : Reserved(x) => Reserved(x)'
      BY <2>1 DEF Reserved
    <2>3. GroundedAttempt(p)' /\ proc'[p].pc \notin Asks
      BY <1>2, <1>3, <2>1 DEF GroundedAttempt, Picking, Asks
    <2>. QED BY <1>1, <1>2, <2>2, <2>3, QuietStep DEF TypeOK
  <1>6. CASE ~(Completed \/ rec.pending # None \/ c \in rec.ids)
    <2>. DEFINE a == [proc[p] EXCEPT !.pending = c, !.pc = "upload_photo"]
    <2>1. rec' = [rec EXCEPT !.pending = c] /\ proc' = [proc EXCEPT ![p] = a]
      BY <1>4, <1>6 DEF ReservePhoto
    <2>0. NextColor(p)' = Least(proc'[p].todo) /\ c = Least(proc[p].todo)
      BY <1>4 DEF NextColor, Least
    <2>2. a.pc = "upload_photo" /\ a.todo = proc[p].todo
      BY ONLY <1>3 DEF Attempts
    <2>. HIDE DEF a
    <2>3. proc'[p].pc = "upload_photo" /\ proc'[p].todo = proc[p].todo /\ NextColor(p)' = c
      BY <1>3, <2>0, <2>1, <2>2
    <2>4. rec'.pending = c /\ rec'.created = rec.created /\ rec'.draft = rec.draft /\ rec'.ids = rec.ids
      BY ONLY <1>3, <2>1 DEF Records
    <2>5. GroundedAttempt(p)'
      BY <1>2, <1>3, <2>3 DEF GroundedAttempt, Picking
    <2>6. \A x \in Requests : Reserved(x) => Reserved(x)'
      BY <1>6, <2>4 DEF Reserved, None, Colors
    <2>7. ~Reserved(Photo(c)) /\ Reserved(Photo(c))'
      BY <1>4, <1>6, <2>4, Kinds DEF Reserved, None, Colors
    <2>8. \A x \in Requests : Asking(p, x)' => x = Photo(c)
      BY <2>3 DEF Asking
    <2>. QED BY <1>2, <1>4, <2>5, <2>6, <2>7, <2>8, Kinds, Acquired
  <1>. QED BY <1>5, <1>6

(* Writes that may be repeated disturb nothing that may not. *)
LEMMA WritersGo ==
    ASSUME TypeOK, NEW p \in Workers, Writers(p)
    PROVE  /\ proc[p].pc # "idle"
           /\ proc'[p].pc \notin Asks \cup Picking \cup {"reserve", "create", "save"}
           /\ proc'[p].pc \in Building => \/ WriteInventory(p) /\ proc'[p].pc = "photo"
                                          \/ LinkPhotos(p)
           /\ proc[p].pc \notin Early
  <1>1. proc \in [Workers -> Attempts] /\ proc[p] \in Attempts
    BY DEF TypeOK
  <1>2. CASE Publish(p)
    <2>. DEFINE a == [proc[p] EXCEPT !.response = "accepted", !.pc = "answer", !.tries = 0]
                b == [proc[p] EXCEPT !.tries = proc[p].tries + 1]
                c == [proc[p] EXCEPT !.tries = 0, !.pc = "raise"]
    <2>1. \/ proc' = [proc EXCEPT ![p] = a] \/ Go(p, "publish_refused")
          \/ proc' = [proc EXCEPT ![p] = b] \/ proc' = [proc EXCEPT ![p] = c]
      BY <1>1, <1>2 DEF Publish
    <2>2. proc[p].pc = "publish"
      BY <1>2 DEF Publish, At
    <2>3. a.pc = "answer" /\ b.pc = "publish" /\ c.pc = "raise"
      BY ONLY <1>1, <2>2 DEF Attempts
    <2>. HIDE DEF a, b, c
    <2>4. proc'[p].pc \in {"answer", "publish", "publish_refused", "raise"}
      BY <1>1, <2>1, <2>3, GoesTo
    <2>. QED BY <2>2, <2>4 DEF Asks, Picking, Building, Early
  <1>3. CASE WriteInventory(p)
    <2>. DEFINE a == [proc[p] EXCEPT !.pc = "photo", !.todo = Colors]
    <2>1. Go(p, "require") \/ proc' = [proc EXCEPT ![p] = a]
      BY <1>3 DEF WriteInventory
    <2>2. a.pc = "photo"
      BY ONLY <1>1 DEF Attempts
    <2>. HIDE DEF a
    <2>3. proc'[p].pc \in {"require", "photo"}
      BY <1>1, <2>1, <2>2, GoesTo
    <2>. QED BY <1>3, <2>3 DEF WriteInventory, At, Asks, Picking, Building, Early
  <1>6. CASE LinkPhotos(p)
    <2>1. proc'[p].pc \in {"activate", "require"}
      BY <1>1, <1>6, GoesTo DEF LinkPhotos
    <2>. QED BY <1>6, <2>1 DEF LinkPhotos, At, Asks, Picking, Building, Early
  <1>4. CASE Activate(p) \/ Deactivate(p) \/ RewriteSelectors(p) \/ RemapPhotos(p)
    <2>1. \E s \in {"require", "activated", "deactivate", "remap", "gallery"} : Go(p, s)
      BY <1>4 DEF Activate, Deactivate, RewriteSelectors, RemapPhotos
    <2>2. proc'[p].pc \in {"require", "activated", "deactivate", "remap", "gallery"}
      BY <1>1, <2>1, GoesTo
    <2>. QED BY <1>4, <2>2 DEF Activate, Deactivate, RewriteSelectors, RemapPhotos, At, Asks, Picking, Building, Early
  <1>5. CASE LinkListing(p) \/ Republish(p) \/ Tell(p)
    <2>1. \E s \in {"require", "recount", "republish", "deactivate", "tell", "confirm"} : Go(p, s)
      BY <1>5 DEF LinkListing, Republish, Tell
    <2>2. proc'[p].pc \in {"require", "recount", "republish", "deactivate", "tell", "confirm"}
      BY <1>1, <2>1, GoesTo
    <2>. QED BY <1>5, <2>2 DEF LinkListing, Republish, Tell, At, Asks, Picking, Building, Early
  <1>. QED BY <1>2, <1>3, <1>4, <1>5, <1>6 DEF Writers

(* Remote writes that can be repeated preserve the invariant. *)
LEMMA WritersKeep ==
    ASSUME OnceInv, NEW p \in Workers, Writers(p)
    PROVE  OnceInv'
  <1>1. TypeOK
    BY DEF OnceInv
  <1>2. /\ Moved(p) /\ UNCHANGED <<rec, late, used, overlap>>
        /\ faults' \in 0..MaxFaults /\ printify' \in Printifys /\ etsy' \in Etsys
        /\ printify'.products = printify.products
        /\ etsy'.photos = etsy.photos /\ etsy'.drafts = etsy.drafts
    BY <1>1, WritersMove
  <1>3. proc[p].pc # "idle" /\ used # 0 /\ proc'[p].pc \notin Asks \cup Picking \cup {"reserve", "create"}
    BY <1>1, WritersGo DEF OnceInv, Grounded
  <1>4. proc'[p].pc \notin Asks /\ GroundedAttempt(p)'
    BY <1>2, <1>3 DEF GroundedAttempt
  <1>5. \A r \in Requests : Reserved(r) => Reserved(r)'
    BY <1>2 DEF Reserved
  <1>. QED BY <1>1, <1>2, <1>4, <1>5, QuietStep DEF TypeOK

(* Sending keeps the invariant, whatever becomes of the request. *)
LEMMA SentKeeps ==
    ASSUME OnceInv, NEW p \in Workers, Moved(p), UNCHANGED <<rec, used, overlap>>,
           NEW r \in Requests, Asking(p, r),
           NEW n \in 0..MaxStarts, NEW u \in 0..MaxStarts, r = Product => n # None /\ u # None,
           GroundedAttempt(p)', \A s \in Requests : Asking(p, s)' => s = r,
           \/ Refused
           \/ (Answered(r, n, u) \/ Lost(r, n, u)) /\ ~Asking(p, r)'
    PROVE  OnceInv'
  <1>1. /\ printify' \in Printifys /\ etsy' \in Etsys /\ faults' \in 0..MaxFaults
        /\ late' \subseteq [what : Requests, id : 0..MaxStarts, upload : 0..MaxStarts]
        /\ \A l \in late' : l.what = Product => l.id # None /\ l.upload # None
        /\ Single' /\ Distinct' /\ \A s \in Requests : Once(s)'
    BY SendKeeps
  <1>2. TypeOK /\ used # 0
    BY DEF OnceInv, Grounded, Asking
  <1>. QED BY <1>1, <1>2, Assembled DEF TypeOK

(* Create preserves the invariant. *)
LEMMA CreateKeeps ==
    ASSUME OnceInv, NEW p \in Workers, Create(p)
    PROVE  OnceInv'
  <1>1. /\ TypeOK /\ proc \in [Workers -> Attempts] /\ proc[p] \in Attempts
        /\ proc[p].pc = "create" /\ used # 0
        /\ proc[p].num # None /\ proc[p].upload # None
    BY DEF OnceInv, TypeOK, Grounded, Create, At
  <1>2. Moved(p) /\ UNCHANGED <<rec, used, overlap>>
    BY <1>1, SendersMove
  <1>. DEFINE a == [proc[p] EXCEPT !.product = proc[p].num, !.pc = "save"]
  <1>3. PICK n \in 0..MaxStarts, u \in 0..MaxStarts : n = proc[p].num /\ u = proc[p].upload
    BY <1>1 DEF Attempts
  <1>4. \/ Answered(Product, n, u) /\ proc' = [proc EXCEPT ![p] = a]
        \/ Refused /\ Go(p, "refused")
        \/ Lost(Product, n, u) /\ \E step \in {"reconcile", "raise"} : Go(p, step)
    BY <1>3 DEF Create, Product
  <1>5. a.pc = "save"
    BY ONLY <1>1 DEF Attempts
  <1>. HIDE DEF a
  <1>6. \/ Answered(Product, n, u) /\ proc'[p].pc = "save"
        \/ Refused /\ proc'[p].pc = "refused"
        \/ Lost(Product, n, u) /\ proc'[p].pc \in {"reconcile", "raise"}
    BY <1>1, <1>4, <1>5, GoesTo
  <1>7. Asking(p, Product) /\ Product \in Requests
    BY <1>1, Kinds DEF Asking
  <1>8. GroundedAttempt(p)'
    BY <1>1, <1>2, <1>6 DEF GroundedAttempt, Picking
  <1>9. /\ \A s \in Requests : Asking(p, s)' => s = Product
        /\ proc'[p].pc # "refused" => ~Asking(p, Product)'
    BY <1>6 DEF Asking
  <1>. QED BY <1>1, <1>2, <1>3, <1>6, <1>7, <1>8, <1>9, SentKeeps

(* CreateDraft preserves the invariant. *)
LEMMA CreateDraftKeeps ==
    ASSUME OnceInv, NEW p \in Workers, CreateDraft(p)
    PROVE  OnceInv'
  <1>1. /\ TypeOK /\ proc \in [Workers -> Attempts] /\ proc[p] \in Attempts
        /\ proc[p].pc = "create_draft" /\ used # 0
    BY DEF OnceInv, TypeOK, Grounded, CreateDraft, At
  <1>2. Moved(p) /\ UNCHANGED <<rec, used, overlap>>
    BY <1>1, SendersMove
  <1>. DEFINE a == [proc[p] EXCEPT !.pc = "save_draft", !.listing = "direct", !.owned = TRUE]
  <1>4. \/ Answered(Draft, None, None) /\ proc' = [proc EXCEPT ![p] = a]
        \/ Refused /\ Go(p, "require")
        \/ Lost(Draft, None, None) /\ Go(p, "require")
    BY DEF CreateDraft, Draft
  <1>5. a.pc = "save_draft"
    BY ONLY <1>1 DEF Attempts
  <1>. HIDE DEF a
  <1>6. /\ proc'[p].pc \in {"save_draft", "require"}
        /\ Refused \/ Answered(Draft, None, None) \/ Lost(Draft, None, None)
    BY <1>1, <1>4, <1>5, GoesTo
  <1>7. Asking(p, Draft) /\ Draft \in Requests /\ Draft # Product /\ None \in 0..MaxStarts
    BY <1>1, Kinds DEF Asking, None
  <1>8. GroundedAttempt(p)'
    BY <1>1, <1>2, <1>6 DEF GroundedAttempt, Picking
  <1>9. \A s \in Requests : ~Asking(p, s)'
    BY <1>6 DEF Asking
  <1>. QED BY <1>2, <1>6, <1>7, <1>8, <1>9, SentKeeps

(* UploadPhoto preserves the invariant. *)
LEMMA UploadPhotoKeeps ==
    ASSUME OnceInv, NEW p \in Workers, UploadPhoto(p)
    PROVE  OnceInv'
  <1>1. /\ TypeOK /\ proc \in [Workers -> Attempts] /\ proc[p] \in Attempts
        /\ proc[p].pc = "upload_photo" /\ used # 0 /\ proc[p].todo # {}
    BY DEF OnceInv, TypeOK, Grounded, UploadPhoto, At, Picking
  <1>2. Moved(p) /\ UNCHANGED <<rec, used, overlap>>
    BY <1>1, SendersMove
  <1>3. PICK c \in Colors : c = NextColor(p)
    BY <1>1, NextColorType
  <1>4. PICK s \in Steps : /\ s \in {"save_photo", "require"} /\ Go(p, s)
                           /\ Refused \/ Answered(Photo(c), None, None) \/ Lost(Photo(c), None, None)
    BY <1>3, StepNames DEF UploadPhoto, Photo
  <1>6. proc'[p].pc \in {"save_photo", "require"} /\ proc'[p].todo = proc[p].todo
    BY <1>1, <1>4, GoType
  <1>7. /\ Asking(p, Photo(c)) /\ Photo(c) \in Requests /\ Photo(c) # Product /\ None \in 0..MaxStarts
    BY <1>1, <1>3, Kinds DEF Asking, None
  <1>8. GroundedAttempt(p)'
    BY <1>1, <1>2, <1>6 DEF GroundedAttempt, Picking
  <1>9. \A x \in Requests : ~Asking(p, x)'
    BY <1>6 DEF Asking
  <1>10. ~Asking(p, Photo(c))'
    BY <1>7, <1>9
  <1>. QED BY <1>2, <1>4, <1>7, <1>8, <1>9, <1>10, SentKeeps

(* Printify's own work. *)
LEMMA NativePublishKeeps ==
    ASSUME OnceInv, NativePublish
    PROVE  OnceInv'
  <1>1. TypeOK
    BY DEF OnceInv
  <1>2. /\ UNCHANGED <<rec, late, proc, used, faults, overlap>>
        /\ printify' \in Printifys /\ etsy' \in Etsys
        /\ printify'.products = printify.products
        /\ etsy'.photos = etsy.photos /\ etsy'.drafts = etsy.drafts
    BY <1>1, NativePublishType
  <1>3. TypeOK' /\ Grounded' /\ Single' /\ Distinct'
    BY <1>2 DEF OnceInv, TypeOK, Grounded, Single, Distinct
  <1>4. ASSUME NEW r \in Requests PROVE Once(r)'
    <2>1. Once(r)
      BY DEF OnceInv
    <2>2. /\ Done(r)' <=> Done(r)
          /\ Waiting(r)' <=> Waiting(r)
          /\ Reserved(r)' <=> Reserved(r)
          /\ \A q \in Workers : Asking(q, r)' <=> Asking(q, r)
      BY <1>2 DEF Done, Waiting, Reserved, Asking, NextColor
    <2>. QED BY <2>1, <2>2 DEF Once
  <1>. QED BY <1>3, <1>4 DEF OnceInv

(* The invariant holds at first. *)
LEMMA InitOnce == Init => OnceInv
  <1>. SUFFICES ASSUME Init PROVE OnceInv
    OBVIOUS
  <1>1. rec \in Records
    BY DEF Init, Fresh, Records, None, Listings
  <1>2. printify \in Printifys
    BY DEF Init, Printifys, Listings
  <1>3. etsy \in Etsys /\ etsy.drafts = 0 /\ \A c \in Colors : etsy.photos[c] = 0
    BY DEF Init, Etsys
  <1>4. proc \in [Workers -> Attempts] /\ \A p \in Workers : proc[p].pc = "idle"
    BY IdleType DEF Init
  <1>5. TypeOK
    BY <1>1, <1>2, <1>3, <1>4 DEF TypeOK, Init
  <1>6. Grounded /\ Single /\ Distinct
    BY <1>3, <1>4 DEF Init, Grounded, Single, Distinct, Picking
  <1>7. \A r \in Requests : ~Done(r) /\ ~Waiting(r) /\ \A p \in Workers : ~Asking(p, r)
    BY <1>3, <1>4 DEF Init, Done, Waiting, Asking
  <1>8. \A r \in Requests : Once(r)
    BY <1>7 DEF Once
  <1>. QED BY <1>5, <1>6, <1>8 DEF OnceInv

(* The actions of an attempt by kind. *)
LEMMA StepKinds ==
    ASSUME NEW p \in Workers, Step(p)
    PROVE  \/ Start(p) \/ Readers(p) \/ QuietRecorders(p) \/ Writers(p)
           \/ Reserve(p) \/ CreateRefused(p) \/ ReserveDraft(p) \/ ReservePhoto(p)
           \/ Create(p) \/ CreateDraft(p) \/ UploadPhoto(p)
  BY DEF Step, Readers, QuietRecorders, Writers

(* Every step preserves the invariant. *)
LEMMA NextOnce == OnceInv /\ [Next]_vars => OnceInv'
  <1>. SUFFICES ASSUME OnceInv, [Next]_vars PROVE OnceInv'
    OBVIOUS
  <1>1. ASSUME NEW p \in Workers, Step(p) PROVE OnceInv'
    BY <1>1, StepKinds, StartKeeps, ReadersKeep, QuietRecordersKeep, WritersKeep, ReserveKeeps,
       CreateRefusedKeeps, ReserveDraftKeeps, ReservePhotoKeeps, CreateKeeps, CreateDraftKeeps, UploadPhotoKeeps
  <1>2. CASE UNCHANGED vars
    <2>1. TypeOK' /\ Grounded' /\ Single' /\ Distinct'
      BY <1>2 DEF OnceInv, TypeOK, Grounded, Single, Distinct, vars
    <2>2. \A r \in Requests : Once(r)'
      BY <1>2 DEF OnceInv, Once, Done, Waiting, Reserved, Asking, NextColor, vars
    <2>. QED BY <2>1, <2>2 DEF OnceInv
  <1>. QED BY <1>1, <1>2, LandKeeps, NativePublishKeeps DEF Next

(* The inductive invariant: what cannot be sent twice is reserved in the     *)
(* record before it is sent, and at most one of three holds of it: it is     *)
(* done, it waits at the provider, or one attempt may send it.               *)
THEOREM OnceInvariant == Spec => []OnceInv
  <1>. QED BY InitOnce, NextOnce, PTL DEF Spec

(* Record, providers and attempts are well typed, for any number of workers. *)
THEOREM TypeCorrect == Spec => []TypeOK
  <1>1. OnceInv => TypeOK
    BY DEF OnceInv
  <1>. QED BY <1>1, OnceInvariant, PTL

(* One product, one draft and one photo for each colour, however attempts    *)
(* overlap, crash and lose answers (_checkpoint_etsy_publish and the first   *)
(* transaction of publish_channel_run).                                      *)
THEOREM NothingIsDoneTwice == Spec => []NothingTwice
  <1>1. ASSUME OnceInv PROVE NothingTwice
    <2>1. Single
      BY <1>1 DEF OnceInv
    <2>2. Cardinality(printify.products) <= 1
      <3>1. CASE printify.products = {}
        <4>1. Cardinality({}) = 0
          BY FS_EmptySet
        <4>. QED BY <3>1, <4>1
      <3>2. CASE printify.products # {}
        <4>1. PICK x \in printify.products : TRUE
          BY <3>2
        <4>2. printify.products = {x}
          BY <2>1, <4>1 DEF Single
        <4>3. Cardinality({x}) = 1
          BY FS_Singleton
        <4>. QED BY <4>2, <4>3
      <3>. QED BY <3>1, <3>2
    <2>. QED BY <2>1, <2>2 DEF Single, NothingTwice
  <1>. QED BY <1>1, OnceInvariant, PTL

-----------------------------------------------------------------------------
(* What a request changes *)

(* A request that is carried out adds its object and nothing else: a draft  *)
(* is made where none was, and a listing that exists keeps its state.       *)
Delivers ==
    /\ printify'.link = printify.link /\ printify'.locked = printify.locked
    /\ printify.products \subseteq printify'.products
    /\ etsy'.inventory = etsy.inventory /\ etsy'.links = etsy.links
    /\ etsy'.native = etsy.native /\ etsy'.nativeLinks = etsy.nativeLinks
    /\ \A c \in Colors : etsy.photos[c] = 1 => etsy'.photos[c] = 1
    /\ etsy.drafts # 0 => etsy'.drafts # 0
    /\ \/ etsy'.state = etsy.state
       \/ etsy.drafts = 0 /\ etsy'.drafts # 0 /\ etsy'.state = "draft"

(* A request that takes effect spoils no finished listing. *)
LEMMA PerformDelivers ==
    ASSUME OnceInv, NEW r \in Requests, NEW n, NEW u, used # 0, ~Done(r),
           r = Product => n \in Starts /\ u \in Starts, Perform(r, n, u)
    PROVE  Delivers /\ (r = Product => printify'.products = {[id |-> n, upload |-> u]})
  <1>1. TypeOK /\ Single /\ etsy \in Etsys
    BY DEF OnceInv, TypeOK
  <1>2. /\ Single' /\ Done(r)' /\ \A s \in Requests : s # r => (Done(s)' <=> Done(s))
        /\ printify'.link = printify.link /\ printify'.locked = printify.locked
        /\ printify.products \subseteq printify'.products
        /\ etsy'.inventory = etsy.inventory /\ etsy'.links = etsy.links
        /\ etsy'.native = etsy.native /\ etsy'.nativeLinks = etsy.nativeLinks
        /\ r # Draft => etsy'.state = etsy.state
        /\ r = Product => printify'.products = {[id |-> n, upload |-> u]}
    BY <1>1, Performed
  <1>3. \A s \in Requests : Done(s) => Done(s)'
    BY <1>2
  <1>4. ASSUME NEW c \in Colors, etsy.photos[c] = 1 PROVE etsy'.photos[c] = 1
    <2>1. Done(Photo(c))'
      BY <1>3, <1>4, DoneIs, Kinds
    <2>. QED BY <1>2, <2>1, DoneWillBe DEF Single
  <1>5. etsy.drafts # 0 => etsy'.drafts # 0
    BY <1>3, DoneIs, DoneWillBe, Kinds
  <1>6. r = Draft => etsy'.state = "draft" /\ etsy.drafts = 0 /\ etsy'.drafts # 0
    <2>1. ASSUME r = Draft PROVE etsy'.state = "draft"
      <3>1. etsy' = [etsy EXCEPT !.drafts = @ + 1, !.state = "draft"]
        BY <2>1, Kinds DEF Perform
      <3>. QED BY ONLY <1>1, <3>1 DEF Etsys
    <2>. QED BY <1>2, <2>1, DoneIs, DoneWillBe
  <1>. QED BY <1>2, <1>4, <1>5, <1>6 DEF Delivers

(* Nor does a request that is sent, whatever becomes of it. *)
LEMMA SendDelivers ==
    ASSUME OnceInv, NEW p \in Workers, NEW r \in Requests, Asking(p, r),
           NEW n \in 0..MaxStarts, NEW u \in 0..MaxStarts, r = Product => n # None /\ u # None,
           Answered(r, n, u) \/ Refused \/ Lost(r, n, u)
    PROVE  /\ Delivers
           /\ r = Product /\ Answered(r, n, u) => printify'.products = {[id |-> n, upload |-> u]}
  <1>1. used # 0 /\ ~Done(r)
    BY DEF OnceInv, Grounded, Asking, Once
  <1>2. r = Product => n \in Starts /\ u \in Starts
    BY DEF Starts, None
  <1>3. CASE Perform(r, n, u)
    BY <1>1, <1>2, <1>3, PerformDelivers
  <1>4. CASE UNCHANGED <<printify, etsy>> /\ ~Answered(r, n, u)
    BY <1>4 DEF Delivers
  <1>. QED BY <1>3, <1>4 DEF Answered, Lost, Refused

(* Sending and a delayed request deliver. *)
LEMMA SendersDeliver ==
    ASSUME OnceInv, NEW p \in Workers, Create(p) \/ CreateDraft(p) \/ UploadPhoto(p)
    PROVE  Delivers
  <1>1. /\ TypeOK /\ proc \in [Workers -> Attempts] /\ proc[p] \in Attempts
        /\ None \in 0..MaxStarts
    BY DEF OnceInv, TypeOK, None
  <1>2. CASE Create(p)
    <2>1. PICK n \in 0..MaxStarts, u \in 0..MaxStarts : n = proc[p].num /\ u = proc[p].upload
      BY <1>1 DEF Attempts
    <2>2. n # None /\ u # None /\ Asking(p, Product)
      BY <1>2, <2>1 DEF OnceInv, Grounded, Create, At, Asking
    <2>3. Answered(Product, n, u) \/ Refused \/ Lost(Product, n, u)
      BY <1>2, <2>1 DEF Create, Product
    <2>. QED BY <2>2, <2>3, Kinds, SendDelivers
  <1>3. CASE CreateDraft(p)
    <2>1. Asking(p, Draft)
      BY <1>3 DEF CreateDraft, At, Asking
    <2>2. Answered(Draft, None, None) \/ Refused \/ Lost(Draft, None, None)
      BY <1>3 DEF CreateDraft, Draft
    <2>. QED BY <1>1, <2>1, <2>2, Kinds, SendDelivers
  <1>4. CASE UploadPhoto(p)
    <2>1. PICK c \in Colors : c = NextColor(p)
      BY <1>1, <1>4, NextColorType DEF OnceInv, Grounded, UploadPhoto, At, Picking
    <2>2. Asking(p, Photo(c))
      BY <1>4, <2>1 DEF UploadPhoto, At, Asking
    <2>3. Answered(Photo(c), None, None) \/ Refused \/ Lost(Photo(c), None, None)
      BY <1>4, <2>1 DEF UploadPhoto, Photo
    <2>. QED BY <1>1, <2>2, <2>3, Kinds, SendDelivers
  <1>. QED BY <1>2, <1>3, <1>4

(* Nor does one that is carried out late. *)
LEMMA LandDelivers ==
    ASSUME OnceInv, Land
    PROVE  Delivers
  <1>1. PICK l \in late : Perform(l.what, l.id, l.upload)
    BY DEF Land
  <1>2. l \in [what : Requests, id : 0..MaxStarts, upload : 0..MaxStarts]
    BY DEF OnceInv, TypeOK
  <1>3. l.what \in Requests /\ ~Done(l.what)
    <2>1. l.what \in Requests /\ Waiting(l.what) /\ Once(l.what)
      BY <1>2 DEF OnceInv, Waiting
    <2>. QED BY <2>1 DEF Once
  <1>4. used # 0 /\ (l.what = Product => l.id \in Starts /\ l.upload \in Starts)
    BY <1>2 DEF OnceInv, Grounded, Starts, None
  <1>. QED BY <1>1, <1>3, <1>4, PerformDelivers

-----------------------------------------------------------------------------
(* A listing is complete before it is active *)

Complete == etsy.inventory /\ etsy.links /\ \A c \in Colors : etsy.photos[c] = 1
Built ==
    /\ \A p \in Workers : /\ proc[p].pc \in Building => etsy.inventory
                          /\ proc[p].pc = "activate" => Complete
    /\ etsy.state = "active" => Complete

(* Nothing takes inventory, links or photos away. *)
LEMMA BuiltStep ==
    ASSUME Built, NEW p \in Workers, Moved(p),
           etsy.inventory => etsy'.inventory, Complete => Complete',
           proc'[p].pc \in Building => etsy'.inventory,
           proc'[p].pc = "activate" => Complete',
           etsy'.state = "active" => Complete'
    PROVE  Built'
  <1>1. ASSUME NEW q \in Workers
        PROVE  /\ proc'[q].pc \in Building => etsy'.inventory
               /\ proc'[q].pc = "activate" => Complete'
    <2>1. CASE q = p
      BY <2>1
    <2>2. CASE q # p
      <3>1. proc'[q] = proc[q]
        BY <2>2 DEF Moved
      <3>. QED BY <3>1 DEF Built
    <2>. QED BY <2>1, <2>2
  <1>. QED BY <1>1 DEF Built

(* A step that leaves the listing alone preserves Built. *)
LEMMA BuiltFrame ==
    ASSUME Built, NEW p \in Workers, Moved(p), etsy' = etsy,
           proc'[p].pc \in Building => proc[p].pc \in Building,
           proc'[p].pc # "activate"
    PROVE  Built'
  BY BuiltStep DEF Built, Complete

(* What deliveries preserve of Built. *)
LEMMA DeliversBuilt ==
    ASSUME OnceInv, Built, Delivers
    PROVE  /\ etsy.inventory => etsy'.inventory
           /\ Complete => Complete'
           /\ etsy'.state = "active" => Complete'
  <1>1. Complete => Complete'
    BY DEF Delivers, Complete
  <1>. QED BY <1>1 DEF Delivers, Built

(* Every step preserves Built. *)
LEMMA NextBuilt == OnceInv /\ Built /\ [Next]_vars => Built'
  <1>. SUFFICES ASSUME OnceInv, Built, [Next]_vars PROVE Built'
    OBVIOUS
  <1>0. TypeOK /\ Grounded /\ proc \in [Workers -> Attempts] /\ etsy \in Etsys
    BY DEF OnceInv, TypeOK
  <1>1. ASSUME NEW p \in Workers, Step(p) PROVE Built'
    <2>1. CASE Start(p)
      <3>1. Moved(p) /\ proc'[p].pc = "reserve" /\ etsy' = etsy
        BY <1>0, <2>1, StartMoves
      <3>. QED BY <3>1, BuiltFrame DEF Building, Picking
    <2>2. CASE Readers(p)
      <3>1. Moved(p) /\ etsy' = etsy
        BY <1>0, <2>2, ReadersMove DEF local
      <3>2. CASE ~LookAtPhoto(p)
        BY <1>0, <2>2, <3>1, <3>2, ReadersGo, BuiltFrame DEF Building
      <3>3. CASE LookAtPhoto(p)
        <4>1. proc[p].pc \in Building
          BY <3>3 DEF LookAtPhoto, At, Building
        <4>2. proc'[p].pc # "activate"
          BY <1>0, <3>3, LookAtPhotoGoes
        <4>. QED BY <3>1, <4>1, <4>2, BuiltFrame
      <3>. QED BY <3>2, <3>3
    <2>3. CASE QuietRecorders(p)
      <3>1. Moved(p) /\ etsy' = etsy
        BY <1>0, <2>3, RecordersMove DEF remote, QuietRecorders, Recorders
      <3>2. /\ proc'[p].pc # "activate"
            /\ proc'[p].pc \in Building => proc[p].pc \in Building
        BY <1>0, <2>3, RecordersGo DEF SavePhoto, At, Building, Picking
      <3>. QED BY <3>1, <3>2, BuiltFrame
    <2>4. CASE Reserve(p) \/ CreateRefused(p) \/ ReserveDraft(p) \/ ReservePhoto(p)
      <3>1. Moved(p) /\ etsy' = etsy
        BY <1>0, <2>4, RecordersMove DEF remote, Recorders
      <3>2. /\ proc'[p].pc # "activate"
            /\ proc'[p].pc \in Building => proc[p].pc \in Building
        <4>1. proc[p] \in Attempts
          BY <1>0
        <4>2. CASE Reserve(p)
          <5>. DEFINE upload == IF rec.upload # None THEN rec.upload ELSE proc[p].upload
                      status == IF rec.status = "reconciliation_required" THEN rec.status ELSE "none"
                      s == IF rec.product # None THEN "save" ELSE IF Asked(rec) THEN "reconcile" ELSE "create"
                      a == [proc[p] EXCEPT !.upload = upload, !.product = rec.product, !.status = status, !.pc = s]
          <5>1. Leave(p) \/ proc' = [proc EXCEPT ![p] = a]
            BY <4>2 DEF Reserve
          <5>2. s \in {"save", "reconcile", "create"}
            OBVIOUS
          <5>. HIDE DEF upload, status, s
          <5>3. a.pc = s
            BY ONLY <4>1 DEF Attempts
          <5>. HIDE DEF a
          <5>4. proc'[p].pc \in {"idle", "save", "reconcile", "create"}
            BY <1>0, <5>1, <5>2, <5>3, LeaveType
          <5>. QED BY <5>4 DEF Building, Picking
        <4>3. CASE CreateRefused(p)
          <5>1. proc'[p].pc = "raise"
            BY <1>0, <4>3, GoesTo DEF CreateRefused
          <5>. QED BY <5>1 DEF Building, Picking
        <4>4. CASE ReserveDraft(p)
          <5>. DEFINE a == [proc[p] EXCEPT !.draft = TRUE, !.pc = "create_draft"]
          <5>1. Go(p, "require") \/ proc' = [proc EXCEPT ![p] = a]
            BY <4>4 DEF ReserveDraft
          <5>2. a.pc = "create_draft"
            BY ONLY <4>1 DEF Attempts
          <5>. HIDE DEF a
          <5>3. proc'[p].pc \in {"require", "create_draft"}
            BY <1>0, <5>1, <5>2, GoesTo
          <5>. QED BY <5>3 DEF Building, Picking
        <4>5. CASE ReservePhoto(p)
          <5>. DEFINE c == NextColor(p)
                      a == [proc[p] EXCEPT !.pending = c, !.pc = "upload_photo"]
          <5>1. Go(p, "require") \/ proc' = [proc EXCEPT ![p] = a]
            BY <4>5 DEF ReservePhoto
          <5>. HIDE DEF c
          <5>2. a.pc = "upload_photo"
            BY ONLY <4>1 DEF Attempts
          <5>. HIDE DEF a
          <5>3. proc'[p].pc \in {"require", "upload_photo"}
            BY <1>0, <5>1, <5>2, GoesTo
          <5>. QED BY <4>5, <5>3 DEF ReservePhoto, At, Building, Picking
        <4>. QED BY <2>4, <4>2, <4>3, <4>4, <4>5
      <3>. QED BY <3>1, <3>2, BuiltFrame
    <2>5. CASE Writers(p)
      <3>1. Moved(p) /\ etsy' \in Etsys /\ etsy'.photos = etsy.photos /\ etsy'.drafts = etsy.drafts
        BY <1>0, <2>5, WritersMove
      <3>2. CASE WriteInventory(p)
        <4>1. /\ etsy' \in {etsy, [etsy EXCEPT !.inventory = TRUE]}
              /\ Go(p, "require") \/ etsy' = [etsy EXCEPT !.inventory = TRUE]
          BY <3>2 DEF WriteInventory
        <4>2. /\ etsy'.inventory = etsy.inventory \/ etsy'.inventory
              /\ etsy' = [etsy EXCEPT !.inventory = TRUE] => etsy'.inventory
              /\ etsy'.links = etsy.links /\ etsy'.state = etsy.state
          BY ONLY <1>0, <4>1 DEF Etsys
        <4>3. /\ proc'[p].pc \in Building => proc'[p].pc = "photo" \/ LinkPhotos(p)
              /\ Go(p, "require") => proc'[p].pc = "require"
          BY <1>0, <2>5, WritersGo, GoesTo
        <4>4. ~LinkPhotos(p)
          BY <3>2 DEF WriteInventory, LinkPhotos, At
        <4>5. Complete => Complete'
          BY <3>1, <4>2 DEF Complete
        <4>. QED BY <3>1, <4>1, <4>2, <4>3, <4>4, <4>5, BuiltStep DEF Built, Building, Picking
      <3>3. CASE LinkPhotos(p)
        <4>1. etsy' = [etsy EXCEPT !.links = TRUE] /\ proc[p].pc = "links"
          BY <3>3 DEF LinkPhotos, At
        <4>2. etsy'.links /\ etsy'.inventory = etsy.inventory /\ etsy'.state = etsy.state
          BY ONLY <1>0, <4>1 DEF Etsys
        <4>3. PICK step \in {"activate", "require"} :
                 (step = "activate" => \A c \in Colors : etsy.photos[c] = 1) /\ Go(p, step)
          BY <3>3 DEF LinkPhotos
        <4>4. etsy.inventory
          BY <4>1 DEF Built, Building
        <4>5. proc'[p].pc = step
          BY <1>0, <4>3, GoesTo
        <4>6. proc'[p].pc = "activate" => Complete'
          BY <3>1, <4>2, <4>3, <4>4, <4>5 DEF Complete
        <4>7. Complete => Complete'
          BY <3>1, <4>2 DEF Complete
        <4>. QED BY <3>1, <4>2, <4>4, <4>5, <4>6, <4>7, BuiltStep DEF Built
      <3>4. CASE ~WriteInventory(p) /\ ~LinkPhotos(p)
        <4>1. proc'[p].pc \notin Building /\ proc'[p].pc # "activate"
          BY <1>0, <2>5, <3>4, WritersGo DEF Building
        <4>2. \/ etsy' = etsy
              \/ Activate(p) /\ etsy' = [etsy EXCEPT !.state = "active"]
              \/ Deactivate(p) /\ etsy' = [etsy EXCEPT !.state = "inactive"]
              \/ etsy' = [etsy EXCEPT !.exact = TRUE, !.nativeLinks = FALSE]
              \/ etsy' = [etsy EXCEPT !.nativeLinks = TRUE]
          BY <2>5, <3>4 DEF Writers, Publish, Activate, Deactivate, LinkListing, Republish, Tell,
             RewriteSelectors, RemapPhotos
        <4>3. /\ etsy'.inventory = etsy.inventory /\ etsy'.links = etsy.links
              /\ \/ etsy'.state = etsy.state
                 \/ Activate(p) /\ etsy'.state = "active"
                 \/ Deactivate(p) /\ etsy'.state = "inactive"
          BY <1>0, <4>2 DEF Etsys
        <4>4. Complete' <=> Complete
          BY <3>1, <4>3 DEF Complete
        <4>5. Activate(p) => Complete
          BY DEF Activate, At, Built
        <4>. QED BY <3>1, <4>1, <4>3, <4>4, <4>5, BuiltStep DEF Built
      <3>. QED BY <3>2, <3>3, <3>4
    <2>6. CASE Create(p) \/ CreateDraft(p) \/ UploadPhoto(p)
      <3>1. Moved(p) /\ Delivers
        BY <1>0, <2>6, SendersMove, SendersDeliver
      <3>2. /\ proc'[p].pc # "activate"
            /\ proc'[p].pc \in Building => proc[p].pc \in Building
        <4>0. proc[p] \in Attempts
          BY <1>0
        <4>1. CASE Create(p)
          <5>. DEFINE a == [proc[p] EXCEPT !.product = proc[p].num, !.pc = "save"]
          <5>1. proc' = [proc EXCEPT ![p] = a] \/ \E s \in {"refused", "reconcile", "raise"} : Go(p, s)
            BY <4>1 DEF Create
          <5>2. a.pc = "save"
            BY ONLY <4>0 DEF Attempts
          <5>. HIDE DEF a
          <5>3. proc'[p].pc \in {"save", "refused", "reconcile", "raise"}
            BY <1>0, <5>1, <5>2, GoesTo
          <5>. QED BY <5>3 DEF Building, Picking
        <4>2. CASE CreateDraft(p)
          <5>. DEFINE a == [proc[p] EXCEPT !.pc = "save_draft", !.listing = "direct", !.owned = TRUE]
          <5>1. proc' = [proc EXCEPT ![p] = a] \/ Go(p, "require")
            BY <4>2 DEF CreateDraft
          <5>2. a.pc = "save_draft"
            BY ONLY <4>0 DEF Attempts
          <5>. HIDE DEF a
          <5>3. proc'[p].pc \in {"save_draft", "require"}
            BY <1>0, <5>1, <5>2, GoesTo
          <5>. QED BY <5>3 DEF Building, Picking
        <4>3. CASE UploadPhoto(p)
          <5>1. Go(p, "save_photo") \/ Go(p, "require")
            BY <4>3 DEF UploadPhoto
          <5>2. proc'[p].pc \in {"save_photo", "require"}
            BY <1>0, <5>1, GoesTo
          <5>. QED BY <4>3, <5>2 DEF UploadPhoto, At, Building, Picking
        <4>. QED BY <2>6, <4>1, <4>2, <4>3
      <3>. QED BY <3>1, <3>2, DeliversBuilt, BuiltStep DEF Built
    <2>. QED BY <1>1, <2>1, <2>2, <2>3, <2>4, <2>5, <2>6, StepKinds
  <1>2. CASE Land
    <2>1. Delivers /\ proc' = proc
      BY <1>2, LandDelivers DEF Land
    <2>2. Complete => Complete'
      BY <2>1, DeliversBuilt
    <2>. QED BY <2>1, <2>2, DeliversBuilt DEF Built
  <1>3. CASE NativePublish
    <2>1. etsy'.photos = etsy.photos /\ etsy'.drafts = etsy.drafts /\ proc' = proc
      BY <1>0, <1>3, NativePublishType
    <2>2. etsy' \in {etsy, [etsy EXCEPT !.native = TRUE, !.nativeLinks = TRUE]}
      BY <1>3 DEF NativePublish
    <2>3. etsy'.inventory = etsy.inventory /\ etsy'.links = etsy.links /\ etsy'.state = etsy.state
      BY ONLY <1>0, <2>2 DEF Etsys
    <2>. QED BY <2>1, <2>3 DEF Built, Complete
  <1>4. CASE UNCHANGED vars
    BY <1>4 DEF Built, Complete, vars
  <1>. QED BY <1>1, <1>2, <1>3, <1>4 DEF Next

(* A buyer never sees a listing this code built before it is complete: the   *)
(* activation comes after inventory, photos and links, and nothing that was  *)
(* checked is undone (publish_direct_etsy).                                  *)
THEOREM CompleteBeforeActive == Spec => []ActiveIsComplete
  <1>1. Init => Built
    <2>1. Init => etsy.state = "none" /\ \A p \in Workers : proc[p].pc = "idle"
      BY IdleType DEF Init
    <2>. QED BY <2>1 DEF Built, Building, Picking
  <1>2. Built => ActiveIsComplete
    BY DEF Built, Complete, ActiveIsComplete, Shown
  <1>. QED BY <1>1, <1>2, OnceInvariant, NextBuilt, PTL DEF Spec

-----------------------------------------------------------------------------
(* What the record holds stays *)

(* The product that is recorded, or about to be, exists; an attempt past the *)
(* recording of its product, and a success, have one.                       *)
Exists(n) == n # None /\ \E x \in printify.products : x.id = n
Kept ==
    /\ rec.product # None => Exists(rec.product)
    /\ Completed => rec.product # None
    /\ \A p \in Workers : /\ proc[p].pc = "save" => Exists(proc[p].product)
                          /\ proc[p].pc \notin Early => rec.product # None

(* A step of p, as far as Kept goes. *)
LEMMA KeptStep ==
    ASSUME Kept, NEW p \in Workers, Moved(p), printify.products \subseteq printify'.products,
           rec.product # None => rec'.product # None,
           rec'.product # None => \E x \in printify'.products : x.id = rec'.product,
           rec'.status = "succeeded" => rec'.product # None,
           proc'[p].pc = "save" => /\ proc'[p].product # None
                                   /\ \E x \in printify'.products : x.id = proc'[p].product,
           proc'[p].pc \notin Early => rec'.product # None
    PROVE  Kept'
  BY DEF Kept, Exists, Moved, Completed

(* A step that leaves the record alone. *)
LEMMA KeptFrame ==
    ASSUME Kept, NEW p \in Workers, Moved(p), rec' = rec,
           printify.products \subseteq printify'.products,
           proc'[p].pc = "save" => /\ proc'[p].product # None
                                   /\ \E x \in printify'.products : x.id = proc'[p].product,
           proc'[p].pc \notin Early => proc[p].pc \notin Early
    PROVE  Kept'
  BY KeptStep DEF Kept, Exists, Completed

(* What the transactions write into the record. *)
LEMMA RecordersRecord ==
    ASSUME TypeOK, NEW p \in Workers, Recorders(p)
    PROVE  /\ \/ rec'.product = rec.product
              \/ SaveProduct(p) /\ ~Completed /\ rec'.product = proc[p].product
           /\ rec'.status = "succeeded" => Completed \/ Finish(p)
           /\ Completed => rec'.status = "succeeded"
           /\ rec.response = "accepted" => rec'.response = "accepted"
           /\ rec.ids \subseteq rec'.ids
  <1>0. rec \in Records
    BY DEF TypeOK
  <1>1. CASE Reserve(p)
    <2>1. rec' = rec \/ (~Completed /\ \E u, b : rec' = [rec EXCEPT !.upload = u, !.status = "creating", !.created = b])
      BY <1>1 DEF Reserve
    <2>. QED BY ONLY <1>0, <2>1 DEF Records, Completed
  <1>2. CASE CreateRefused(p) \/ PublishRefused(p)
    <2>1. rec' = [rec EXCEPT !.created = FALSE] \/ rec' = [rec EXCEPT !.started = FALSE]
      BY <1>2 DEF CreateRefused, PublishRefused
    <2>. QED BY ONLY <1>0, <2>1 DEF Records, Completed
  <1>3. CASE Unreconciled(p) \/ RequireVerification(p) \/ RecordFailure(p)
    <2>1. rec' = rec \/ (~Completed /\ \E s \in {"reconciliation_required", "failed"} : rec' = [rec EXCEPT !.status = s])
      BY <1>3 DEF Unreconciled, RequireVerification, RecordFailure
    <2>. QED BY ONLY <1>0, <2>1 DEF Records, Completed
  <1>4. CASE SaveProduct(p)
    <2>1. rec' = rec \/ (~Completed /\ rec' = [rec EXCEPT !.product = proc[p].product, !.status = "publishing"])
      BY <1>4 DEF SaveProduct
    <2>. QED BY ONLY <1>0, <1>4, <2>1 DEF Records, Completed
  <1>5. CASE ReservePublish(p)
    <2>1. rec' = rec \/ \E b : rec' = [rec EXCEPT !.started = b]
      BY <1>5 DEF ReservePublish
    <2>. QED BY ONLY <1>0, <2>1 DEF Records, Completed
  <1>6. CASE SaveResponse(p)
    <2>1. rec' = [rec EXCEPT !.response = IF proc[p].response = "accepted" \/ rec.response = "none"
                                          THEN proc[p].response ELSE rec.response]
      BY <1>0, <1>6 DEF SaveResponse, Records
    <2>. QED BY ONLY <1>0, <2>1 DEF Records, Completed
  <1>7. CASE ReserveDraft(p) \/ SaveDraft(p) \/ ReservePhoto(p)
    <2>1. \/ rec' = rec \/ rec' = [rec EXCEPT !.draft = TRUE]
          \/ \E l, o : rec' = [rec EXCEPT !.listing = l, !.owned = o]
          \/ \E c : rec' = [rec EXCEPT !.pending = c]
      BY <1>7 DEF ReserveDraft, SaveDraft, ReservePhoto
    <2>. QED BY ONLY <1>0, <2>1 DEF Records, Completed
  <1>8. CASE SavePhoto(p)
    <2>1. rec' = rec \/ \E s, n : rec' = [rec EXCEPT !.ids = rec.ids \cup s, !.pending = n]
      BY <1>8 DEF SavePhoto, Merged
    <2>. QED BY ONLY <1>0, <2>1, ZenonT(30) DEF Records, Completed
  <1>9. CASE Verify(p)
    <2>1. rec' = rec \/ \E b : rec' = [rec EXCEPT !.plan = b]
      BY <1>9 DEF Verify
    <2>. QED BY ONLY <1>0, <2>1 DEF Records, Completed
  <1>10. CASE Finish(p)
    <2>1. \E l : rec' = [rec EXCEPT !.status = "succeeded", !.external = l]
      BY <1>10 DEF Finish
    <2>. QED BY ONLY <1>0, <1>10, <2>1 DEF Records, Completed
  <1>. QED BY <1>1, <1>2, <1>3, <1>4, <1>5, <1>6, <1>7, <1>8, <1>9, <1>10 DEF Recorders

(* A product that is reconciled, created or taken from the record exists.    *)
LEMMA SaveExists ==
    ASSUME OnceInv, Kept, NEW p \in Workers, Reconcile(p) \/ Create(p) \/ Reserve(p),
           proc'[p].pc = "save"
    PROVE  /\ proc'[p].product # None
           /\ \E x \in printify'.products : x.id = proc'[p].product
  <1>0. /\ TypeOK /\ proc \in [Workers -> Attempts] /\ proc[p] \in Attempts
        /\ printify \in Printifys /\ rec \in Records /\ (printify' = printify \/ Create(p))
    BY DEF OnceInv, TypeOK, Reconcile, Reserve, local, remote
  <1>1. CASE Reconcile(p)
    <2>. DEFINE found == {x \in printify.products : x.upload = proc[p].upload}
                it == CHOOSE x \in found : TRUE
                a == [proc[p] EXCEPT !.pc = "save", !.product = it.id]
    <2>1. (Cardinality(found) = 1 /\ proc' = [proc EXCEPT ![p] = a]) \/ Go(p, "unreconciled")
      BY <1>1 DEF Reconcile
    <2>2. ~Go(p, "unreconciled")
      BY <1>0, GoesTo
    <2>3. Cardinality(found) = 1
      BY <2>1, <2>2
    <2>4. found # {}
      <3>1. Cardinality({}) = 0
        BY FS_EmptySet
      <3>. QED BY ONLY <2>3, <3>1
    <2>5. it \in printify.products /\ it.id # None
      <3>1. it \in printify.products
        BY <2>4
      <3>. HIDE DEF it
      <3>2. it.id \in Starts
        BY <1>0, <3>1 DEF Printifys
      <3>3. it.id # None
        BY <3>2 DEF Starts, None
      <3>. QED BY <3>1, <3>3
    <2>6. a.product = it.id
      BY ONLY <1>0 DEF Attempts
    <2>. HIDE DEF a
    <2>7. proc'[p].product = it.id
      BY <1>0, <2>1, <2>2, <2>6
    <2>8. printify' = printify
      BY <1>1 DEF Reconcile, local
    <2>. QED BY <2>5, <2>7, <2>8
  <1>2. CASE Create(p)
    <2>1. /\ proc[p].pc = "create" /\ proc[p].num # None /\ proc[p].upload # None
          /\ proc[p].num \in 0..MaxStarts /\ proc[p].upload \in 0..MaxStarts
      BY <1>0, <1>2 DEF OnceInv, Grounded, Create, At, Attempts
    <2>. DEFINE a == [proc[p] EXCEPT !.product = proc[p].num, !.pc = "save"]
    <2>2. \/ Answered(Product, proc[p].num, proc[p].upload) /\ proc' = [proc EXCEPT ![p] = a]
          \/ \E s \in {"refused", "reconcile", "raise"} : Go(p, s)
      BY <1>2 DEF Create, Product
    <2>3. a.product = proc[p].num
      BY ONLY <1>0 DEF Attempts
    <2>. HIDE DEF a
    <2>4. Answered(Product, proc[p].num, proc[p].upload) /\ proc'[p].product = proc[p].num
      BY <1>0, <2>2, <2>3, GoesTo
    <2>5. Asking(p, Product)
      BY <2>1 DEF Asking
    <2>6. printify'.products = {[id |-> proc[p].num, upload |-> proc[p].upload]}
      BY <2>1, <2>4, <2>5, SendDelivers, Kinds
    <2>7. [id |-> proc[p].num, upload |-> proc[p].upload] \in printify'.products
      BY <2>6
    <2>. QED BY <2>1, <2>4, <2>7
  <1>3. CASE Reserve(p)
    <2>. DEFINE upload == IF rec.upload # None THEN rec.upload ELSE proc[p].upload
                a == [proc[p] EXCEPT
                      !.upload = upload, !.product = rec.product,
                      !.status = IF rec.status = "reconciliation_required"
                                 THEN rec.status ELSE "none",
                      !.pc = IF rec.product # None THEN "save"
                             ELSE IF Asked(rec) THEN "reconcile" ELSE "create"]
    <2>1. (Leave(p) \/ proc' = [proc EXCEPT ![p] = a]) /\ printify' = printify
      BY <1>3 DEF Reserve, remote
    <2>2. ~Leave(p)
      BY <1>0, LeaveType
    <2>3. a.product = rec.product /\ (a.pc = "save" => rec.product # None)
      BY ONLY <1>0 DEF Attempts
    <2>. HIDE DEF a
    <2>4. proc'[p].product = rec.product /\ rec.product # None
      BY <1>0, <2>1, <2>2, <2>3
    <2>. QED BY <2>1, <2>4 DEF Kept, Exists
  <1>. QED BY <1>1, <1>2, <1>3

(* Every step preserves Kept. *)
LEMMA NextKept == OnceInv /\ Kept /\ [Next]_vars => Kept'
  <1>. SUFFICES ASSUME OnceInv, Kept, [Next]_vars PROVE Kept'
    OBVIOUS
  <1>0. TypeOK /\ Grounded /\ proc \in [Workers -> Attempts]
    BY DEF OnceInv, TypeOK
  <1>1. ASSUME NEW p \in Workers, Step(p) PROVE Kept'
    <2>1. CASE Start(p)
      <3>1. Moved(p) /\ proc'[p].pc = "reserve" /\ rec' = rec /\ printify' = printify
        BY <1>0, <2>1, StartMoves
      <3>. QED BY <3>1, KeptFrame DEF Early
    <2>2. CASE Readers(p)
      <3>1. Moved(p) /\ rec' = rec /\ printify' = printify
        BY <1>0, <2>2, ReadersMove DEF local
      <3>2. /\ proc'[p].pc \notin Early => proc[p].pc \notin Early
            /\ proc'[p].pc = "save" => Reconcile(p)
        BY <1>0, <2>2, ReadersGo
      <3>. QED BY <3>1, <3>2, KeptFrame, SaveExists
    <2>3. CASE QuietRecorders(p)
      <3>1. Recorders(p)
        BY <2>3 DEF Recorders, QuietRecorders
      <3>2. Moved(p) /\ printify' = printify
        BY <1>0, <3>1, RecordersMove DEF remote
      <3>3. proc'[p].pc # "save" /\ (proc'[p].pc \notin Early => proc[p].pc \notin Early \/ SaveProduct(p))
        BY <1>0, <2>3, RecordersGo
      <3>4. /\ rec'.product = rec.product \/ (SaveProduct(p) /\ ~Completed /\ rec'.product = proc[p].product)
            /\ rec'.status = "succeeded" => Completed \/ Finish(p)
        BY <1>0, <3>1, RecordersRecord
      <3>5. SaveProduct(p) => Exists(proc[p].product)
        BY DEF Kept, SaveProduct, At
      <3>6. Finish(p) => rec.product # None
        BY DEF Kept, Finish, At, Early
      <3>7. SaveProduct(p) /\ proc'[p].pc \notin Early => rec'.product = proc[p].product
        <4>1. SaveProduct(p) => \/ Leave(p)
                                \/ rec' = [rec EXCEPT !.product = proc[p].product, !.status = "publishing"]
          BY DEF SaveProduct
        <4>2. Leave(p) => proc'[p].pc \in Early
          BY <1>0, LeaveType DEF Early
        <4>3. rec \in Records
          BY <1>0 DEF TypeOK
        <4>. QED BY <4>1, <4>2, <4>3 DEF Records
      <3>8. rec.product # None => rec'.product # None
        BY <3>4, <3>5 DEF Exists
      <3>9. rec'.product # None => \E x \in printify'.products : x.id = rec'.product
        BY <3>2, <3>4, <3>5 DEF Kept, Exists
      <3>10. rec'.status = "succeeded" => rec'.product # None
        BY <3>4, <3>6, <3>8 DEF Kept
      <3>11. proc'[p].pc \notin Early => rec'.product # None
        BY <3>3, <3>5, <3>7, <3>8 DEF Kept, Exists
      <3>. QED BY <3>2, <3>3, <3>8, <3>9, <3>10, <3>11, KeptStep
    <2>4. CASE Writers(p)
      <3>1. Moved(p) /\ rec' = rec /\ printify'.products = printify.products
        BY <1>0, <2>4, WritersMove
      <3>2. proc'[p].pc # "save" /\ proc[p].pc \notin Early
        BY <1>0, <2>4, WritersGo
      <3>. QED BY <3>1, <3>2, KeptFrame
    <2>5. CASE Reserve(p) \/ CreateRefused(p) \/ ReserveDraft(p) \/ ReservePhoto(p)
      <3>1. Recorders(p)
        BY <2>5 DEF Recorders
      <3>2. Moved(p) /\ printify' = printify
        BY <1>0, <3>1, RecordersMove DEF remote
      <3>3. rec'.product = rec.product /\ (rec'.status = "succeeded" => Completed)
        <4>1. ~SaveProduct(p) /\ ~Finish(p)
          BY <2>5 DEF Reserve, CreateRefused, ReserveDraft, ReservePhoto, SaveProduct, Finish, At
        <4>. QED BY <1>0, <3>1, <4>1, RecordersRecord
      <3>4. /\ proc'[p].pc = "save" => Reserve(p)
            /\ proc'[p].pc \in Early \/ proc[p].pc \notin Early
        <4>0. proc[p] \in Attempts
          BY <1>0
        <4>1. CASE Reserve(p)
          <5>. DEFINE upload == IF rec.upload # None THEN rec.upload ELSE proc[p].upload
                      a == [proc[p] EXCEPT
                            !.upload = upload, !.product = rec.product,
                            !.status = IF rec.status = "reconciliation_required"
                                       THEN rec.status ELSE "none",
                            !.pc = IF rec.product # None THEN "save"
                                   ELSE IF Asked(rec) THEN "reconcile" ELSE "create"]
          <5>1. Leave(p) \/ proc' = [proc EXCEPT ![p] = a]
            BY <4>1 DEF Reserve
          <5>2. a.pc \in Early
            BY ONLY <4>0 DEF Attempts, Early
          <5>. HIDE DEF a
          <5>3. proc'[p].pc \in Early
            BY <1>0, <5>1, <5>2, LeaveType DEF Early
          <5>. QED BY <4>1, <5>3
        <4>2. CASE CreateRefused(p)
          <5>1. proc'[p].pc = "raise"
            BY <1>0, <4>2, GoesTo DEF CreateRefused
          <5>. QED BY <5>1 DEF Early
        <4>3. CASE ReserveDraft(p)
          <5>. DEFINE a == [proc[p] EXCEPT !.draft = TRUE, !.pc = "create_draft"]
          <5>1. Go(p, "require") \/ proc' = [proc EXCEPT ![p] = a]
            BY <4>3 DEF ReserveDraft
          <5>2. a.pc = "create_draft"
            BY ONLY <4>0 DEF Attempts
          <5>. HIDE DEF a
          <5>3. proc'[p].pc # "save"
            BY <1>0, <5>1, <5>2, GoesTo
          <5>. QED BY <4>3, <5>3 DEF ReserveDraft, At, Early
        <4>4. CASE ReservePhoto(p)
          <5>1. PICK c : Go(p, "require") \/ proc' = [proc EXCEPT ![p] = [proc[p] EXCEPT !.pending = c, !.pc = "upload_photo"]]
            BY <4>4 DEF ReservePhoto
          <5>. DEFINE a == [proc[p] EXCEPT !.pending = c, !.pc = "upload_photo"]
          <5>2. a.pc = "upload_photo"
            BY ONLY <4>0 DEF Attempts
          <5>4. Go(p, "require") \/ proc' = [proc EXCEPT ![p] = a]
            BY <5>1
          <5>. HIDE DEF a
          <5>3. proc'[p].pc # "save"
            BY <1>0, <5>4, <5>2, GoesTo
          <5>. QED BY <4>4, <5>3 DEF ReservePhoto, At, Early
        <4>. QED BY <2>5, <4>1, <4>2, <4>3, <4>4
      <3>5. proc'[p].pc \notin Early => rec'.product # None
        BY <3>3, <3>4 DEF Kept
      <3>6. rec'.product # None => \E x \in printify'.products : x.id = rec'.product
        BY <3>2, <3>3 DEF Kept, Exists
      <3>7. rec'.status = "succeeded" => rec'.product # None
        BY <3>3 DEF Kept
      <3>. QED BY <3>2, <3>3, <3>4, <3>5, <3>6, <3>7, KeptStep, SaveExists
    <2>6. CASE Create(p) \/ CreateDraft(p) \/ UploadPhoto(p)
      <3>1. Moved(p) /\ rec' = rec
        BY <1>0, <2>6, SendersMove
      <3>2. printify.products \subseteq printify'.products
        BY <2>6, SendersDeliver DEF Delivers
      <3>3. /\ proc'[p].pc = "save" => Create(p)
            /\ proc'[p].pc \in Early \/ proc[p].pc \notin Early
        <4>0. proc[p] \in Attempts
          BY <1>0
        <4>1. CASE Create(p)
          <5>. DEFINE a == [proc[p] EXCEPT !.product = proc[p].num, !.pc = "save"]
          <5>1. proc' = [proc EXCEPT ![p] = a] \/ \E s \in {"refused", "reconcile", "raise"} : Go(p, s)
            BY <4>1 DEF Create
          <5>2. a.pc = "save"
            BY ONLY <4>0 DEF Attempts
          <5>. HIDE DEF a
          <5>3. proc'[p].pc \in {"save", "refused", "reconcile", "raise"}
            BY <1>0, <5>1, <5>2, GoesTo
          <5>. QED BY <4>1, <5>3 DEF Early
        <4>2. CASE CreateDraft(p)
          <5>. DEFINE a == [proc[p] EXCEPT !.pc = "save_draft", !.listing = "direct", !.owned = TRUE]
          <5>1. proc' = [proc EXCEPT ![p] = a] \/ Go(p, "require")
            BY <4>2 DEF CreateDraft
          <5>2. a.pc = "save_draft"
            BY ONLY <4>0 DEF Attempts
          <5>. HIDE DEF a
          <5>3. proc'[p].pc \in {"save_draft", "require"}
            BY <1>0, <5>1, <5>2, GoesTo
          <5>. QED BY <4>2, <5>3 DEF CreateDraft, At, Early
        <4>3. CASE UploadPhoto(p)
          <5>1. Go(p, "save_photo") \/ Go(p, "require")
            BY <4>3 DEF UploadPhoto
          <5>2. proc'[p].pc \in {"save_photo", "require"}
            BY <1>0, <5>1, GoesTo
          <5>. QED BY <4>3, <5>2 DEF UploadPhoto, At, Early
        <4>. QED BY <2>6, <4>1, <4>2, <4>3
      <3>. QED BY <3>1, <3>2, <3>3, KeptFrame, SaveExists
    <2>. QED BY <1>1, <2>1, <2>2, <2>3, <2>4, <2>5, <2>6, StepKinds
  <1>2. CASE Land
    <2>1. printify.products \subseteq printify'.products /\ rec' = rec /\ proc' = proc
      BY <1>2, LandDelivers DEF Land, Delivers
    <2>. QED BY <2>1 DEF Kept, Exists, Completed
  <1>3. CASE NativePublish
    <2>1. printify'.products = printify.products /\ rec' = rec /\ proc' = proc
      BY <1>0, <1>3, NativePublishType
    <2>. QED BY <2>1 DEF Kept, Exists, Completed
  <1>4. CASE UNCHANGED vars
    BY <1>4 DEF Kept, Exists, Completed, vars
  <1>. QED BY <1>1, <1>2, <1>3, <1>4 DEF Next

-----------------------------------------------------------------------------
(* What the record and the attempts name exists *)

(* The steps whose entry has a condition, by the actions that lead there.    *)
Watched == {"find", "reserve_draft", "create_draft", "save_draft", "look", "inventory",
            "rewrite", "remap", "gallery", "finish"}
Leading(p) ==
    \/ WaitForLink(p) \/ FindListing(p) \/ ReserveDraft(p) \/ CreateDraft(p) \/ SaveDraft(p)
    \/ Look(p) \/ Verify(p) \/ RewriteSelectors(p) \/ RemapPhotos(p) \/ VerifyGallery(p)

(* All other actions keep what the attempt knows of its listing, or end it.  *)
Keeps(p) == /\ proc'[p].pc \notin Watched
            /\ \/ proc'[p].listing = proc[p].listing /\ proc'[p].owned = proc[p].owned
               \/ proc'[p].listing = "none" /\ ~proc'[p].owned
LEMMA OthersKeep ==
    ASSUME TypeOK, NEW p \in Workers, Step(p), ~Leading(p)
    PROVE  Keeps(p)
  <1>. USE StepNames
  <1>0. proc \in [Workers -> Attempts] /\ proc[p] \in Attempts
    BY DEF TypeOK
  <1>a. ASSUME NEW s \in Steps \ Watched, Go(p, s) PROVE Keeps(p)
    BY <1>0, <1>a, GoType DEF Keeps
  <1>b. Leave(p) => Keeps(p)
    BY <1>0, LeaveType DEF Keeps, Watched, Idle
  <1>1. CASE Start(p)
    <2>1. \E n, u : proc'[p] = [Idle EXCEPT !.pc = "reserve", !.num = n, !.upload = u]
      BY <1>0, <1>1 DEF Start
    <2>. QED BY ONLY <2>1, IdleType DEF Keeps, Idle, Watched
  <1>2. CASE Reserve(p)
    <2>. DEFINE upload == IF rec.upload # None THEN rec.upload ELSE proc[p].upload
                a == [proc[p] EXCEPT
                      !.upload = upload, !.product = rec.product,
                      !.status = IF rec.status = "reconciliation_required"
                                 THEN rec.status ELSE "none",
                      !.pc = IF rec.product # None THEN "save"
                             ELSE IF Asked(rec) THEN "reconcile" ELSE "create"]
    <2>1. Leave(p) \/ proc'[p] = a
      BY <1>0, <1>2 DEF Reserve
    <2>2. /\ a.pc \in {"save", "reconcile", "create"}
          /\ a.listing = proc[p].listing /\ a.owned = proc[p].owned
      BY ONLY <1>0 DEF Attempts
    <2>. HIDE DEF a
    <2>. QED BY <1>b, <2>1, <2>2 DEF Keeps, Watched
  <1>3. CASE Create(p)
    <2>1. \/ proc'[p] = [proc[p] EXCEPT !.product = proc[p].num, !.pc = "save"]
          \/ \E s \in {"refused", "reconcile", "raise"} : Go(p, s)
      BY <1>0, <1>3 DEF Create
    <2>2. {"refused", "reconcile", "raise"} \subseteq Steps \ Watched
      BY DEF Watched
    <2>3. CASE \E s \in {"refused", "reconcile", "raise"} : Go(p, s)
      BY <1>a, <2>2, <2>3
    <2>. QED BY ONLY <1>0, <2>1, <2>3 DEF Keeps, Attempts, Watched
  <1>4. CASE Reconcile(p) \/ SaveProduct(p) \/ ReadBack(p) \/ ReservePublish(p)
    <2>1. \/ Leave(p) \/ Go(p, "unreconciled")
          \/ \E n : proc'[p] = [proc[p] EXCEPT !.pc = "save", !.product = n]
          \/ \E r : proc'[p] = [proc[p] EXCEPT !.pc = "mockups", !.response = r, !.product = None, !.upload = None]
          \/ \E r : proc'[p] = [proc[p] EXCEPT !.pc = "request", !.response = r]
          \/ \E r, s : /\ proc'[p] = [proc[p] EXCEPT !.response = r, !.status = "none", !.pc = s]
                       /\ s \in {"publish", "answer"}
      <3>1. Reconcile(p) => Go(p, "unreconciled") \/ \E n : proc'[p] = [proc[p] EXCEPT !.pc = "save", !.product = n]
        BY <1>0 DEF Reconcile
      <3>2. SaveProduct(p) => Leave(p) \/ \E r : proc'[p] = [proc[p] EXCEPT !.pc = "mockups", !.response = r, !.product = None, !.upload = None]
        BY <1>0 DEF SaveProduct
      <3>3. ReadBack(p) => \E r : proc'[p] = [proc[p] EXCEPT !.pc = "request", !.response = r]
        BY <1>0 DEF ReadBack
      <3>4. ReservePublish(p) => Leave(p) \/ \E r, s : /\ proc'[p] = [proc[p] EXCEPT !.response = r, !.status = "none", !.pc = s]
                                                       /\ s \in {"publish", "answer"}
        BY <1>0 DEF ReservePublish
      <3>. QED BY <1>4, <3>1, <3>2, <3>3, <3>4
    <2>2. Go(p, "unreconciled") => Keeps(p)
      BY <1>a DEF Watched
    <2>3. ASSUME NEW n, proc'[p] = [proc[p] EXCEPT !.pc = "save", !.product = n] PROVE Keeps(p)
      BY ONLY <1>0, <2>3 DEF Keeps, Attempts, Watched
    <2>4. ASSUME NEW r, proc'[p] = [proc[p] EXCEPT !.pc = "mockups", !.response = r, !.product = None, !.upload = None]
          PROVE  Keeps(p)
      BY ONLY <1>0, <2>4 DEF Keeps, Attempts, Watched
    <2>5. ASSUME NEW r, proc'[p] = [proc[p] EXCEPT !.pc = "request", !.response = r] PROVE Keeps(p)
      BY ONLY <1>0, <2>5 DEF Keeps, Attempts, Watched
    <2>6. ASSUME NEW r, NEW s \in {"publish", "answer"},
                 proc'[p] = [proc[p] EXCEPT !.response = r, !.status = "none", !.pc = s]
          PROVE  Keeps(p)
      <3>1. proc'[p].pc = s /\ proc'[p].listing = proc[p].listing /\ proc'[p].owned = proc[p].owned
        BY ONLY <1>0, <2>6 DEF Attempts
      <3>. QED BY <3>1 DEF Keeps, Watched
    <2>. QED BY <1>b, <2>1, <2>2, <2>3, <2>4, <2>5, <2>6
  <1>5. CASE Publish(p)
    <2>1. \/ Go(p, "publish_refused")
          \/ proc'[p] = [proc[p] EXCEPT !.response = "accepted", !.pc = "answer", !.tries = 0]
          \/ proc'[p] = [proc[p] EXCEPT !.tries = proc[p].tries + 1]
          \/ proc'[p] = [proc[p] EXCEPT !.tries = 0, !.pc = "raise"]
      BY <1>0, <1>5 DEF Publish
    <2>2. Go(p, "publish_refused") => Keeps(p)
      BY <1>a DEF Watched
    <2>3. proc[p].pc = "publish"
      BY <1>5 DEF Publish, At
    <2>. QED BY ONLY <1>0, <2>1, <2>2, <2>3, ZenonT(30) DEF Keeps, Attempts, Watched
  <1>6. CASE SaveResponse(p)
    <2>1. proc'[p] = [proc[p] EXCEPT !.pc = "wait", !.response = "none", !.num = None]
      BY <1>0, <1>6 DEF SaveResponse
    <2>. QED BY ONLY <1>0, <2>1 DEF Keeps, Attempts, Watched
  <1>7. CASE WriteInventory(p) \/ LookAtPhoto(p) \/ ReservePhoto(p) \/ SavePhoto(p)
    <2>1. \/ \E s \in {"require", "links", "reserve_photo"} : Go(p, s)
          \/ proc'[p] = [proc[p] EXCEPT !.pc = "photo", !.todo = Colors]
          \/ proc[p].pc = "photo" /\ \E t : proc'[p] = [proc[p] EXCEPT !.todo = t]
          \/ proc'[p] = [proc[p] EXCEPT !.pc = "save_photo"]
          \/ \E c : proc'[p] = [proc[p] EXCEPT !.pending = c, !.pc = "upload_photo"]
          \/ \E i, t : proc'[p] = [proc[p] EXCEPT !.ids = i, !.pending = None, !.todo = t, !.pc = "photo"]
      <3>1. WriteInventory(p) => Go(p, "require") \/ proc'[p] = [proc[p] EXCEPT !.pc = "photo", !.todo = Colors]
        BY <1>0 DEF WriteInventory
      <3>2. LookAtPhoto(p) => \/ \E s \in {"require", "links", "reserve_photo"} : Go(p, s)
                              \/ proc[p].pc = "photo" /\ \E t : proc'[p] = [proc[p] EXCEPT !.todo = t]
                              \/ proc'[p] = [proc[p] EXCEPT !.pc = "save_photo"]
        BY <1>0 DEF LookAtPhoto, At
      <3>3. ReservePhoto(p) => Go(p, "require") \/ \E c : proc'[p] = [proc[p] EXCEPT !.pending = c, !.pc = "upload_photo"]
        BY <1>0 DEF ReservePhoto
      <3>4. SavePhoto(p) => \/ Go(p, "require")
                            \/ \E i, t : proc'[p] = [proc[p] EXCEPT !.ids = i, !.pending = None, !.todo = t, !.pc = "photo"]
        <4>. DEFINE ids == proc[p].ids \cup {NextColor(p)}
                    a == [proc[p] EXCEPT !.ids = ids, !.pending = None,
                                         !.todo = proc[p].todo \ {NextColor(p)}, !.pc = "photo"]
        <4>1. SavePhoto(p) => Go(p, "require") \/ proc'[p] = a
          BY <1>0 DEF SavePhoto
        <4>. QED BY <4>1
      <3>. QED BY <1>7, <3>1, <3>2, <3>3, <3>4
    <2>2. {"require", "links", "reserve_photo"} \subseteq Steps \ Watched
      BY DEF Watched
    <2>3. (\E s \in {"require", "links", "reserve_photo"} : Go(p, s)) => Keeps(p)
      BY <1>a, <2>2
    <2>4. ASSUME NEW t, proc[p].pc = "photo", proc'[p] = [proc[p] EXCEPT !.todo = t] PROVE Keeps(p)
      BY ONLY <1>0, <2>4 DEF Keeps, Attempts, Watched
    <2>5. ASSUME NEW c, proc'[p] = [proc[p] EXCEPT !.pending = c, !.pc = "upload_photo"] PROVE Keeps(p)
      BY ONLY <1>0, <2>5 DEF Keeps, Attempts, Watched
    <2>6. ASSUME NEW i, NEW t,
                 proc'[p] = [proc[p] EXCEPT !.ids = i, !.pending = None, !.todo = t, !.pc = "photo"]
          PROVE  Keeps(p)
      BY ONLY <1>0, <2>6 DEF Keeps, Attempts, Watched
    <2>7. ASSUME \/ proc'[p] = [proc[p] EXCEPT !.pc = "photo", !.todo = Colors]
                 \/ proc'[p] = [proc[p] EXCEPT !.pc = "save_photo"]
          PROVE  Keeps(p)
      BY ONLY <1>0, <2>7 DEF Keeps, Attempts, Watched
    <2>. QED BY <2>1, <2>3, <2>4, <2>5, <2>6, <2>7
  <1>8. CASE \/ CreateRefused(p) \/ Unreconciled(p) \/ PrepareMockups(p) \/ PublishRefused(p) \/ UploadPhoto(p)
             \/ LinkPhotos(p) \/ Activate(p) \/ Activated(p) \/ Deactivate(p) \/ LinkListing(p) \/ Republish(p)
             \/ Tell(p) \/ Confirm(p) \/ Recount(p) \/ Finish(p) \/ Unverified(p) \/ RequireVerification(p)
             \/ Raise(p) \/ RecordFailure(p) \/ Crash(p)
    <2>1. Leave(p) \/ \E s \in Steps \ Watched : Go(p, s)
      BY <1>8 DEF CreateRefused, Unreconciled, PrepareMockups, PublishRefused, UploadPhoto, LinkPhotos, Activate,
         Activated, Deactivate, LinkListing, Republish, Tell, Confirm, Recount, Finish, Unverified,
         RequireVerification, Raise, RecordFailure, Crash, Watched
    <2>. QED BY <1>a, <1>b, <2>1
  <1>. QED BY <1>1, <1>2, <1>3, <1>4, <1>5, <1>6, <1>7, <1>8 DEF Step, Leading

(* Every listing that the record, Printify or an attempt names exists, and   *)
(* so does the draft that was given an inventory or was once created here.   *)
Real(l) == (l = "direct" => etsy.drafts # 0) /\ (l = "native" => etsy.native)
Made ==
    /\ etsy.state # "none" => etsy.drafts # 0
    /\ etsy.inventory => etsy.drafts # 0
    /\ Real(rec.listing) /\ Real(printify.link)
    /\ rec.owned => etsy.drafts # 0
    /\ \A p \in Workers :
          /\ Real(proc[p].listing)
          /\ proc[p].owned => etsy.drafts # 0
          /\ proc[p].pc \in {"save_draft", "look"} => proc[p].listing # "none"
          /\ proc[p].pc = "inventory" => etsy.drafts # 0

(* A listing that exists stays. *)
LEMMA RealStays ==
    ASSUME etsy.drafts # 0 => etsy'.drafts # 0, etsy.native => etsy'.native
    PROVE  \A l : Real(l) => Real(l)'
  BY DEF Real

(* A step of p, as far as Made goes. *)
LEMMA MadeStep ==
    ASSUME Made, NEW p \in Workers, Moved(p),
           etsy.drafts # 0 => etsy'.drafts # 0, etsy.native => etsy'.native,
           etsy'.state # "none" => etsy'.drafts # 0, etsy'.inventory => etsy'.drafts # 0,
           Real(rec.listing)', Real(printify.link)', rec'.owned => etsy'.drafts # 0,
           Real(proc[p].listing)', proc'[p].owned => etsy'.drafts # 0,
           proc'[p].pc \in {"save_draft", "look"} => proc'[p].listing # "none",
           proc'[p].pc = "inventory" => etsy'.drafts # 0
    PROVE  Made'
  <1>1. ASSUME NEW q \in Workers
        PROVE  /\ Real(proc[q].listing)'
               /\ proc'[q].owned => etsy'.drafts # 0
               /\ proc'[q].pc \in {"save_draft", "look"} => proc'[q].listing # "none"
               /\ proc'[q].pc = "inventory" => etsy'.drafts # 0
    <2>1. CASE q = p
      BY <2>1
    <2>2. CASE q # p
      BY <2>2 DEF Made, Moved, Real
    <2>. QED BY <2>1, <2>2
  <1>. QED BY <1>1 DEF Made

(* What writes that may be repeated change. *)
LEMMA WritersWrite ==
    ASSUME TypeOK, NEW p \in Workers, Writers(p)
    PROVE  /\ etsy'.native = etsy.native
           /\ etsy.inventory => etsy'.inventory
           /\ etsy'.inventory = etsy.inventory \/ WriteInventory(p)
           /\ etsy'.state = etsy.state \/ Activate(p) \/ (Deactivate(p) /\ proc[p].owned)
           /\ printify'.link = printify.link \/ (Tell(p) /\ printify'.link = proc[p].listing)
  <1>0. printify \in Printifys /\ etsy \in Etsys
    BY DEF TypeOK
  <1>1. CASE WriteInventory(p)
    <2>1. etsy' \in {etsy, [etsy EXCEPT !.inventory = TRUE]} /\ printify' = printify
      BY <1>1 DEF WriteInventory
    <2>. QED BY ONLY <1>0, <1>1, <2>1 DEF Etsys
  <1>2. CASE Activate(p) \/ Deactivate(p)
    <2>1. /\ printify' = printify
          /\ \/ etsy' = etsy
             \/ Activate(p) /\ etsy' = [etsy EXCEPT !.state = "active"]
             \/ Deactivate(p) /\ proc[p].owned /\ etsy' = [etsy EXCEPT !.state = "inactive"]
      BY <1>2 DEF Activate, Deactivate
    <2>. QED BY ONLY <1>0, <2>1 DEF Etsys
  <1>3. CASE LinkPhotos(p) \/ RewriteSelectors(p) \/ RemapPhotos(p)
    <2>1. /\ printify' = printify
          /\ etsy' \in {[etsy EXCEPT !.links = TRUE], [etsy EXCEPT !.nativeLinks = TRUE],
                        [etsy EXCEPT !.exact = TRUE, !.nativeLinks = FALSE]}
      BY <1>3 DEF LinkPhotos, RewriteSelectors, RemapPhotos
    <2>. QED BY ONLY <1>0, <2>1 DEF Etsys
  <1>4. CASE Publish(p) \/ LinkListing(p) \/ Republish(p) \/ Tell(p)
    <2>1. /\ etsy' = etsy
          /\ \/ printify' = printify \/ \E b : printify' = [printify EXCEPT !.locked = b]
             \/ Tell(p) /\ printify' = [printify EXCEPT !.link = proc[p].listing, !.locked = FALSE]
      BY <1>0, <1>4 DEF Publish, LinkListing, Republish, Tell, Lock, Printifys
    <2>. QED BY ONLY <1>0, <2>1 DEF Printifys
  <1>. QED BY <1>1, <1>2, <1>3, <1>4 DEF Writers

(* What a step of an attempt does to listings and to Printify's link. *)
LEMMA StepProvides ==
    ASSUME OnceInv, Built, Made, NEW p \in Workers, Step(p)
    PROVE  /\ etsy.drafts # 0 => etsy'.drafts # 0
           /\ etsy.native => etsy'.native
           /\ etsy'.state # "none" => etsy'.drafts # 0
           /\ etsy'.inventory => etsy'.drafts # 0
           /\ Real(printify.link)'
  <1>0. TypeOK
    BY DEF OnceInv
  <1>1. CASE Writers(p)
    <2>1. etsy'.drafts = etsy.drafts
      BY <1>0, <1>1, WritersMove
    <2>2. WriteInventory(p) => etsy.drafts # 0
      BY DEF WriteInventory, At, Made
    <2>3. Activate(p) => etsy.drafts # 0
      BY DEF Activate, At, Made, Built, Complete
    <2>4. Deactivate(p) /\ proc[p].owned => etsy.drafts # 0
      BY DEF Made
    <2>5. /\ etsy'.native = etsy.native
          /\ etsy'.inventory = etsy.inventory \/ WriteInventory(p)
          /\ etsy'.state = etsy.state \/ Activate(p) \/ (Deactivate(p) /\ proc[p].owned)
          /\ printify'.link = printify.link \/ printify'.link = proc[p].listing
      BY <1>0, <1>1, WritersWrite
    <2>6. Real(printify.link)'
      BY <2>1, <2>5 DEF Made, Real
    <2>. QED BY <2>1, <2>2, <2>3, <2>4, <2>5, <2>6 DEF Made
  <1>2. CASE Create(p) \/ CreateDraft(p) \/ UploadPhoto(p)
    <2>1. Delivers
      BY <1>2, SendersDeliver
    <2>. QED BY <2>1 DEF Delivers, Made, Real
  <1>3. CASE Start(p)
    <2>1. etsy' = etsy /\ printify' = printify
      BY <1>0, <1>3, StartMoves
    <2>. QED BY <2>1 DEF Made, Real
  <1>4. CASE Readers(p)
    <2>1. etsy' = etsy /\ printify' = printify
      BY <1>0, <1>4, ReadersMove DEF local
    <2>. QED BY <2>1 DEF Made, Real
  <1>5. CASE QuietRecorders(p) \/ Reserve(p) \/ CreateRefused(p) \/ ReserveDraft(p) \/ ReservePhoto(p)
    <2>1. Recorders(p)
      BY <1>5 DEF Recorders, QuietRecorders
    <2>2. etsy' = etsy /\ printify' = printify
      BY <2>1, RecordersMove DEF OnceInv, remote
    <2>. QED BY <2>2 DEF Made, Real
  <1>. QED BY <1>1, <1>2, <1>3, <1>4, <1>5, StepKinds

(* Every action of an attempt moves only that attempt. *)
LEMMA StepMoves ==
    ASSUME OnceInv, NEW p \in Workers, Step(p)
    PROVE  Moved(p) /\ overlap' = overlap /\ (rec' = rec \/ Recorders(p))
  <1>0. TypeOK /\ Grounded
    BY DEF OnceInv
  <1>1. CASE Writers(p)
    BY <1>0, <1>1, WritersMove
  <1>2. CASE Create(p) \/ CreateDraft(p) \/ UploadPhoto(p)
    BY <1>0, <1>2, SendersMove
  <1>3. CASE Start(p)
    BY <1>0, <1>3, StartMoves
  <1>4. CASE Readers(p)
    BY <1>0, <1>4, ReadersMove DEF local
  <1>5. CASE QuietRecorders(p) \/ Reserve(p) \/ CreateRefused(p) \/ ReserveDraft(p) \/ ReservePhoto(p)
    <2>1. Recorders(p)
      BY <1>5 DEF Recorders, QuietRecorders
    <2>. QED BY <1>0, <2>1, RecordersMove DEF remote
  <1>. QED BY <1>1, <1>2, <1>3, <1>4, <1>5, StepKinds

(* Only SaveDraft and Finish record a listing. *)
LEMMA RecordsListing ==
    ASSUME TypeOK, NEW p \in Workers, Recorders(p)
    PROVE  /\ \/ rec'.listing = rec.listing /\ rec'.owned = rec.owned
              \/ SaveDraft(p) /\ rec'.listing = proc[p].listing /\ rec'.owned = proc[p].owned
           /\ rec'.external = rec.external \/ Finish(p)
  <1>0. rec \in Records
    BY DEF TypeOK
  <1>1. CASE Reserve(p)
    <2>1. rec' = rec \/ \E u, b : rec' = [rec EXCEPT !.upload = u, !.status = "creating", !.created = b]
      BY <1>1 DEF Reserve
    <2>. QED BY ONLY <1>0, <2>1 DEF Records
  <1>2. CASE CreateRefused(p) \/ PublishRefused(p) \/ Unreconciled(p) \/ RequireVerification(p) \/ RecordFailure(p)
    <2>1. \/ rec' = rec \/ rec' = [rec EXCEPT !.created = FALSE] \/ rec' = [rec EXCEPT !.started = FALSE]
          \/ \E s : rec' = [rec EXCEPT !.status = s]
      BY <1>2 DEF CreateRefused, PublishRefused, Unreconciled, RequireVerification, RecordFailure
    <2>. QED BY ONLY <1>0, <2>1 DEF Records
  <1>3. CASE SaveProduct(p) \/ ReservePublish(p) \/ SaveResponse(p)
    <2>1. \/ rec' = rec \/ \E n : rec' = [rec EXCEPT !.product = n, !.status = "publishing"]
          \/ \E b : rec' = [rec EXCEPT !.started = b]
          \/ \E r : rec' = [rec EXCEPT !.response = r]
      BY <1>0, <1>3 DEF SaveProduct, ReservePublish, SaveResponse, Records
    <2>. QED BY ONLY <1>0, <2>1 DEF Records
  <1>4. CASE ReserveDraft(p) \/ ReservePhoto(p) \/ SavePhoto(p) \/ Verify(p)
    <2>1. \/ rec' = rec \/ rec' = [rec EXCEPT !.draft = TRUE]
          \/ \E c : rec' = [rec EXCEPT !.pending = c]
          \/ \E s, n : rec' = [rec EXCEPT !.ids = s, !.pending = n]
          \/ \E b : rec' = [rec EXCEPT !.plan = b]
      BY <1>4 DEF ReserveDraft, ReservePhoto, SavePhoto, Verify
    <2>. QED BY ONLY <1>0, <2>1 DEF Records
  <1>5. CASE SaveDraft(p)
    <2>1. rec' = rec \/ rec' = [rec EXCEPT !.listing = proc[p].listing, !.owned = proc[p].owned]
      BY <1>5 DEF SaveDraft
    <2>. QED BY ONLY <1>0, <1>5, <2>1 DEF Records
  <1>6. CASE Finish(p)
    <2>1. \E l : rec' = [rec EXCEPT !.status = "succeeded", !.external = l]
      BY <1>6 DEF Finish
    <2>. QED BY ONLY <1>0, <1>6, <2>1 DEF Records
  <1>. QED BY <1>1, <1>2, <1>3, <1>4, <1>5, <1>6 DEF Recorders

(* The other actions name only listings that exist, too. *)
LEMMA LeadingNames ==
    ASSUME OnceInv, Made, NEW p \in Workers, Leading(p),
           etsy.drafts # 0 => etsy'.drafts # 0, etsy.native => etsy'.native
    PROVE  /\ Real(proc[p].listing)'
           /\ proc'[p].owned => etsy'.drafts # 0
           /\ proc'[p].pc \in {"save_draft", "look"} => proc'[p].listing # "none"
           /\ proc'[p].pc = "inventory" => etsy'.drafts # 0
  <1>. USE StepNames
  <1>0. /\ proc \in [Workers -> Attempts] /\ proc[p] \in Attempts /\ etsy \in Etsys
        /\ Real(proc[p].listing) /\ (proc[p].owned => etsy.drafts # 0)
        /\ Real(rec.listing) /\ (rec.owned => etsy.drafts # 0) /\ Real(printify.link)
    BY DEF OnceInv, TypeOK, Made
  <1>a. ASSUME NEW s \in Steps, Go(p, s),
               s \in {"save_draft", "look"} => proc[p].listing # "none",
               s = "inventory" => etsy.drafts # 0
        PROVE  /\ Real(proc[p].listing)'
               /\ proc'[p].owned => etsy'.drafts # 0
               /\ proc'[p].pc \in {"save_draft", "look"} => proc'[p].listing # "none"
               /\ proc'[p].pc = "inventory" => etsy'.drafts # 0
    BY <1>0, <1>a, GoType, RealStays DEF Real
  <1>1. CASE WaitForLink(p)
    <2>1. \/ \E s \in {"verify", "require"} : Go(p, s)
          \/ proc'[p] = Progress(proc[p])
      BY <1>0, <1>1 DEF WaitForLink
    <2>2. CASE \E s \in {"verify", "require"} : Go(p, s)
      BY <1>a, <2>2
    <2>3. CASE proc'[p] = Progress(proc[p])
      <3>1. proc'[p].pc = "find" /\ proc'[p].listing = rec.listing /\ proc'[p].owned = rec.owned
        BY ONLY <1>0, <2>3 DEF Attempts, Progress
      <3>. QED BY <1>0, <3>1, RealStays DEF Real
    <2>. QED BY <2>1, <2>2, <2>3
  <1>2. CASE FindListing(p)
    <2>1. \/ Go(p, "look") /\ proc[p].listing # "none"
          \/ \E s \in {"require", "reserve_draft"} : Go(p, s)
          \/ \E l \in Titled, own \in BOOLEAN :
                /\ own => etsy.state = "draft"
                /\ proc'[p] = [proc[p] EXCEPT !.pc = "save_draft", !.listing = l, !.owned = own]
      BY <1>0, <1>2 DEF FindListing
    <2>2. CASE Go(p, "look") /\ proc[p].listing # "none"
      BY <1>a, <2>2
    <2>3. CASE \E s \in {"require", "reserve_draft"} : Go(p, s)
      BY <1>a, <2>3
    <2>4. ASSUME NEW l \in Titled, NEW own \in BOOLEAN, own => etsy.state = "draft",
                 proc'[p] = [proc[p] EXCEPT !.pc = "save_draft", !.listing = l, !.owned = own]
          PROVE  /\ proc'[p].pc = "save_draft" /\ proc'[p].listing = l /\ l # "none" /\ Real(l)
                 /\ proc'[p].owned => etsy.drafts # 0
      <3>1. proc'[p].pc = "save_draft" /\ proc'[p].listing = l /\ proc'[p].owned = own
        BY ONLY <1>0, <2>4 DEF Attempts
      <3>2. l # "none" /\ Real(l)
        BY DEF Titled, Real, Made
      <3>. QED BY <2>4, <3>1, <3>2 DEF Made
    <2>. QED BY <2>1, <2>2, <2>3, <2>4, RealStays DEF Real
  <1>3. CASE ReserveDraft(p)
    <2>1. Go(p, "require") \/ proc'[p] = [proc[p] EXCEPT !.draft = TRUE, !.pc = "create_draft"]
      BY <1>0, <1>3 DEF ReserveDraft
    <2>2. CASE proc'[p] = [proc[p] EXCEPT !.draft = TRUE, !.pc = "create_draft"]
      <3>1. proc'[p].pc = "create_draft" /\ proc'[p].listing = proc[p].listing /\ proc'[p].owned = proc[p].owned
        BY ONLY <1>0, <2>2 DEF Attempts
      <3>. QED BY <1>0, <3>1, RealStays DEF Real
    <2>. QED BY <1>a, <2>1, <2>2
  <1>4. CASE CreateDraft(p)
    <2>1. \/ Go(p, "require")
          \/ /\ proc'[p] = [proc[p] EXCEPT !.pc = "save_draft", !.listing = "direct", !.owned = TRUE]
             /\ etsy' = [etsy EXCEPT !.drafts = etsy.drafts + 1, !.state = "draft"]
      BY <1>0, <1>4, Kinds DEF CreateDraft, Answered, Perform, Draft, Etsys
    <2>2. CASE /\ proc'[p] = [proc[p] EXCEPT !.pc = "save_draft", !.listing = "direct", !.owned = TRUE]
               /\ etsy' = [etsy EXCEPT !.drafts = etsy.drafts + 1, !.state = "draft"]
      <3>1. proc'[p].pc = "save_draft" /\ proc'[p].listing = "direct"
        BY ONLY <1>0, <2>2 DEF Attempts
      <3>2. etsy'.drafts = etsy.drafts + 1 /\ etsy.drafts \in 0..MaxStarts
        BY ONLY <1>0, <2>2 DEF Etsys
      <3>3. etsy'.drafts # 0
        BY <3>2
      <3>. QED BY <3>1, <3>3 DEF Real
    <2>. QED BY <1>a, <2>1, <2>2
  <1>5. CASE SaveDraft(p)
    <2>1. (Go(p, "require") \/ Go(p, "look")) /\ proc[p].listing # "none"
      BY <1>5 DEF SaveDraft, At, Made
    <2>. QED BY <1>a, <2>1
  <1>6. CASE Look(p)
    <2>1. /\ \/ Go(p, "require") \/ (Go(p, "inventory") /\ ~IsActive(proc[p].listing))
             \/ proc'[p] = [proc[p] EXCEPT !.adopt = TRUE, !.pc = "link"]
          /\ proc[p].listing # "none"
      BY <1>0, <1>6 DEF Look, At, Made
    <2>2. ~IsActive(proc[p].listing) => etsy.drafts # 0
      BY <1>0, <2>1 DEF IsActive, Real, Attempts, Listings
    <2>3. CASE proc'[p] = [proc[p] EXCEPT !.adopt = TRUE, !.pc = "link"]
      <3>1. proc'[p].pc = "link" /\ proc'[p].listing = proc[p].listing /\ proc'[p].owned = proc[p].owned
        BY ONLY <1>0, <2>3 DEF Attempts
      <3>. QED BY <1>0, <3>1, RealStays DEF Real
    <2>. QED BY <1>a, <2>1, <2>2, <2>3
  <1>7. CASE Verify(p) \/ RewriteSelectors(p) \/ RemapPhotos(p)
    <2>1. \E s \in {"require", "gallery", "rewrite", "remap"} : Go(p, s)
      BY <1>7 DEF Verify, RewriteSelectors, RemapPhotos
    <2>. QED BY <1>a, <2>1
  <1>8. CASE VerifyGallery(p)
    <2>1. \/ Go(p, "require")
          \/ proc'[p] = [proc[p] EXCEPT !.pc = "finish", !.listing = printify.link]
      BY <1>0, <1>8 DEF VerifyGallery
    <2>2. CASE proc'[p] = [proc[p] EXCEPT !.pc = "finish", !.listing = printify.link]
      <3>1. proc'[p].pc = "finish" /\ proc'[p].listing = printify.link /\ proc'[p].owned = proc[p].owned
        BY ONLY <1>0, <2>2 DEF Attempts
      <3>. QED BY <1>0, <3>1, RealStays DEF Real
    <2>. QED BY <1>a, <2>1, <2>2
  <1>. QED BY <1>1, <1>2, <1>3, <1>4, <1>5, <1>6, <1>7, <1>8 DEF Leading

(* Every step preserves Made. *)
LEMMA NextMade == OnceInv /\ Built /\ Made /\ [Next]_vars => Made'
  <1>. SUFFICES ASSUME OnceInv, Built, Made, [Next]_vars PROVE Made'
    OBVIOUS
  <1>0. TypeOK
    BY DEF OnceInv
  <1>1. ASSUME NEW p \in Workers, Step(p) PROVE Made'
    <2>1. /\ etsy.drafts # 0 => etsy'.drafts # 0
          /\ etsy.native => etsy'.native
          /\ etsy'.state # "none" => etsy'.drafts # 0
          /\ etsy'.inventory => etsy'.drafts # 0
          /\ Real(printify.link)'
      BY <1>1, StepProvides
    <2>2. Moved(p) /\ (rec' = rec \/ Recorders(p))
      BY <1>1, StepMoves
    <2>3. Real(rec.listing)' /\ (rec'.owned => etsy'.drafts # 0)
      <3>1. \/ rec'.listing = rec.listing /\ rec'.owned = rec.owned
            \/ rec'.listing = proc[p].listing /\ rec'.owned = proc[p].owned
        BY <1>0, <2>2, RecordsListing
      <3>. QED BY <2>1, <3>1 DEF Made, Real
    <2>4. /\ Real(proc[p].listing)'
          /\ proc'[p].owned => etsy'.drafts # 0
          /\ proc'[p].pc \in {"save_draft", "look"} => proc'[p].listing # "none"
          /\ proc'[p].pc = "inventory" => etsy'.drafts # 0
      <3>1. CASE Leading(p)
        BY <2>1, <3>1, LeadingNames
      <3>2. CASE ~Leading(p)
        <4>1. Keeps(p)
          BY <1>0, <1>1, <3>2, OthersKeep
        <4>. QED BY <2>1, <4>1 DEF Keeps, Watched, Made, Real
      <3>. QED BY <3>1, <3>2
    <2>. QED BY <2>1, <2>2, <2>3, <2>4, MadeStep
  <1>2. CASE Land
    <2>1. Delivers /\ rec' = rec /\ proc' = proc
      BY <1>2, LandDelivers DEF Land
    <2>. QED BY <2>1 DEF Delivers, Made, Real
  <1>3. CASE NativePublish
    <2>1. rec' = rec /\ proc' = proc /\ etsy'.drafts = etsy.drafts /\ printify \in Printifys /\ etsy \in Etsys
      BY <1>0, <1>3, NativePublishType DEF TypeOK
    <2>2. \/ /\ printify' = [printify EXCEPT !.locked = FALSE, !.link = "native"]
             /\ etsy' = [etsy EXCEPT !.native = TRUE, !.nativeLinks = TRUE]
          \/ printify' = [printify EXCEPT !.locked = FALSE] /\ etsy' = etsy
      BY <1>3 DEF NativePublish
    <2>3. /\ etsy'.state = etsy.state /\ etsy'.inventory = etsy.inventory /\ (etsy.native => etsy'.native)
          /\ printify'.link = printify.link \/ (printify'.link = "native" /\ etsy'.native)
      BY ONLY <2>1, <2>2 DEF Printifys, Etsys
    <2>. QED BY <2>1, <2>3 DEF Made, Real
  <1>4. CASE UNCHANGED vars
    BY <1>4 DEF Made, Real, vars
  <1>. QED BY <1>1, <1>2, <1>3, <1>4 DEF Next

-----------------------------------------------------------------------------
(* Attempts that follow one another *)

Live(l) == IsActive(l) /\ Shown(l)

(* One attempt at a time, and none after a success; what the attempt saw of  *)
(* the listing when it decided still holds when it acts on it.              *)
Serial ==
    /\ \A p, q \in Workers : proc[p].pc # "idle" /\ proc[q].pc # "idle" => p = q
    /\ Completed => Live(rec.external) /\ \A p \in Workers : proc[p].pc = "idle"
    /\ \A p \in Workers :
         /\ proc[p].pc \in {"rewrite", "remap", "gallery"} => IsActive(printify.link)
         /\ proc[p].pc = "finish" => Live(proc[p].listing)
         /\ proc[p].pc = "find" => proc[p].listing = rec.listing
         /\ proc[p].pc \in {"reserve_draft", "create_draft", "save_draft"} => rec.listing = "none"
OneByOne == ~overlap => Serial

(* All that holds of every state. *)
RecordInv == OnceInv /\ Built /\ Kept /\ Made /\ OneByOne

(* An attempt that acts is not idle, unless it starts. *)
LEMMA StepAwake ==
    ASSUME NEW p \in Workers, Step(p), ~Start(p)
    PROVE  proc[p].pc # "idle"
  <1>1. CASE \/ Reserve(p) \/ Create(p) \/ CreateRefused(p) \/ Reconcile(p)
             \/ Unreconciled(p) \/ SaveProduct(p) \/ PrepareMockups(p) \/ ReadBack(p)
             \/ ReservePublish(p) \/ Publish(p) \/ PublishRefused(p) \/ SaveResponse(p)
             \/ WaitForLink(p) \/ FindListing(p) \/ ReserveDraft(p) \/ CreateDraft(p)
             \/ SaveDraft(p) \/ Look(p) \/ WriteInventory(p) \/ LookAtPhoto(p)
    BY <1>1 DEF Reserve, Create, CreateRefused, Reconcile, Unreconciled, SaveProduct, PrepareMockups, ReadBack,
       ReservePublish, Publish, PublishRefused, SaveResponse, WaitForLink, FindListing, ReserveDraft, CreateDraft,
       SaveDraft, Look, WriteInventory, LookAtPhoto, At
  <1>2. CASE \/ ReservePhoto(p) \/ UploadPhoto(p) \/ SavePhoto(p) \/ LinkPhotos(p)
             \/ Activate(p) \/ Activated(p) \/ Deactivate(p) \/ LinkListing(p)
             \/ Republish(p) \/ Tell(p) \/ Confirm(p) \/ Recount(p) \/ Verify(p)
             \/ RewriteSelectors(p) \/ RemapPhotos(p) \/ VerifyGallery(p) \/ Finish(p)
             \/ Unverified(p) \/ RequireVerification(p) \/ Raise(p) \/ RecordFailure(p)
             \/ Crash(p)
    BY <1>2 DEF ReservePhoto, UploadPhoto, SavePhoto, LinkPhotos, Activate, Activated, Deactivate, LinkListing,
       Republish, Tell, Confirm, Recount, Verify, RewriteSelectors, RemapPhotos, VerifyGallery, Finish, Unverified,
       RequireVerification, Raise, RecordFailure, Crash, At
  <1>. QED BY <1>1, <1>2 DEF Step

(* One attempt at a time: the others are idle, before and after. *)
LEMMA OthersIdle ==
    ASSUME OnceInv, Kept, Serial, ~overlap, NEW p \in Workers, Step(p)
    PROVE  ~Completed /\ \A q \in Workers : q # p => proc[q].pc = "idle" /\ proc'[q] = proc[q]
  <1>1. Moved(p)
    BY StepMoves
  <1>2. CASE Start(p)
    BY <1>1, <1>2 DEF Start, At, Kept, Moved
  <1>3. CASE ~Start(p)
    BY <1>1, <1>3, StepAwake DEF Serial, Moved
  <1>. QED BY <1>2, <1>3

(* What the providers do on their own takes no listing down. *)
LEMMA ProvidersKeepLive ==
    ASSUME OnceInv, Made, Land \/ NativePublish
    PROVE  /\ \A l : (IsActive(l) => IsActive(l)') /\ (Live(l) => Live(l)')
           /\ IsActive(printify.link) => IsActive(printify.link)'
           /\ UNCHANGED <<rec, proc, overlap>>
  <1>1. CASE Land
    <2>1. Delivers /\ UNCHANGED <<rec, proc, overlap>>
      BY <1>1, LandDelivers DEF Land
    <2>2. etsy.state = "active" => etsy'.state = "active"
      BY <2>1 DEF Delivers, Made
    <2>3. \A l : IsActive(l) => IsActive(l)'
      BY <2>1, <2>2 DEF Delivers, IsActive
    <2>4. \A l : Shown(l) => Shown(l)'
      BY <2>1 DEF Delivers, Shown
    <2>. QED BY <2>1, <2>3, <2>4 DEF Delivers, Live, IsActive
  <1>2. CASE NativePublish
    <2>0. printify \in Printifys /\ etsy \in Etsys
      BY DEF OnceInv, TypeOK
    <2>1. \/ /\ printify' = [printify EXCEPT !.locked = FALSE, !.link = "native"]
             /\ etsy' = [etsy EXCEPT !.native = TRUE, !.nativeLinks = TRUE]
          \/ printify' = [printify EXCEPT !.locked = FALSE] /\ etsy' = etsy
      BY <1>2 DEF NativePublish
    <2>2. /\ etsy'.state = etsy.state /\ etsy'.links = etsy.links /\ etsy'.photos = etsy.photos
          /\ etsy.native => etsy'.native
          /\ etsy.nativeLinks => etsy'.nativeLinks
          /\ printify'.link = printify.link \/ (printify'.link = "native" /\ etsy'.native)
      BY ONLY <2>0, <2>1 DEF Printifys, Etsys
    <2>3. UNCHANGED <<rec, proc, overlap>>
      BY <1>2 DEF NativePublish
    <2>4. \A l : IsActive(l) => IsActive(l)'
      BY <2>2 DEF IsActive
    <2>5. \A l : Shown(l) => Shown(l)'
      BY <2>2 DEF Shown
    <2>6. IsActive(printify.link) => IsActive(printify.link)'
      BY <2>2 DEF IsActive
    <2>. QED BY <2>3, <2>4, <2>5, <2>6 DEF Live
  <1>. QED BY <1>1, <1>2

(* What the attempt sees when it enters a watched step. *)
LEMMA WatchedEntry ==
    ASSUME OnceInv, Made, Serial, NEW p \in Workers, Step(p)
    PROVE  /\ proc'[p].pc \in {"rewrite", "remap", "gallery"} => IsActive(printify.link)'
           /\ proc'[p].pc = "finish" => Live(proc[p].listing)'
           /\ proc'[p].pc = "find" => proc'[p].listing = rec'.listing
           /\ proc'[p].pc \in {"reserve_draft", "create_draft", "save_draft"} => rec'.listing = "none"
  <1>. USE StepNames
  <1>0. /\ TypeOK /\ proc \in [Workers -> Attempts] /\ proc[p] \in Attempts /\ rec \in Records
        /\ etsy \in Etsys /\ printify \in Printifys
    BY DEF OnceInv, TypeOK
  <1>1. CASE ~Leading(p)
    <2>1. Keeps(p)
      BY <1>0, <1>1, OthersKeep
    <2>. QED BY <2>1 DEF Keeps, Watched
  <1>2. CASE WaitForLink(p)
    <2>1. \/ \E s \in {"verify", "require"} : Go(p, s)
          \/ proc'[p] = Progress(proc[p])
      BY <1>0, <1>2 DEF WaitForLink
    <2>2. proc'[p].pc \in {"verify", "require"} \/ (proc'[p].pc = "find" /\ proc'[p].listing = rec.listing)
      <3>1. CASE \E s \in {"verify", "require"} : Go(p, s)
        BY <1>0, <3>1, GoesTo
      <3>2. CASE proc'[p] = Progress(proc[p])
        BY ONLY <1>0, <3>2 DEF Attempts, Progress
      <3>. QED BY <2>1, <3>1, <3>2
    <2>. QED BY <1>2, <2>2 DEF WaitForLink, local
  <1>3. CASE FindListing(p)
    <2>3. proc[p].listing = rec.listing /\ rec' = rec
      BY <1>3 DEF FindListing, At, Serial, local
    <2>1. CASE proc[p].listing # "none"
      <3>1. Go(p, "look")
        BY <1>3, <2>1 DEF FindListing
      <3>. QED BY <1>0, <3>1, GoesTo
    <2>2. CASE proc[p].listing = "none"
      <3>1. \/ \E s \in {"require", "reserve_draft"} : Go(p, s)
            \/ \E l \in Listings, own \in BOOLEAN :
                  proc'[p] = [proc[p] EXCEPT !.pc = "save_draft", !.listing = l, !.owned = own]
        BY <1>0, <1>3, <2>2 DEF FindListing, Listings
      <3>2. ASSUME NEW l, NEW own,
                   proc'[p] = [proc[p] EXCEPT !.pc = "save_draft", !.listing = l, !.owned = own]
            PROVE  proc'[p].pc = "save_draft"
        BY ONLY <1>0, <3>2 DEF Attempts
      <3>3. (\E s \in {"require", "reserve_draft"} : Go(p, s)) => proc'[p].pc \in {"require", "reserve_draft"}
        BY <1>0, GoesTo
      <3>4. proc'[p].pc \in {"require", "reserve_draft", "save_draft"}
        BY <3>1, <3>2, <3>3
      <3>. QED BY <2>2, <2>3, <3>4
    <2>. QED BY <2>1, <2>2
  <1>4. CASE ReserveDraft(p)
    <2>1. \/ Go(p, "require")
          \/ proc'[p] = [proc[p] EXCEPT !.draft = TRUE, !.pc = "create_draft"]
      BY <1>0, <1>4 DEF ReserveDraft
    <2>2. proc'[p].pc \in {"require", "create_draft"}
      <3>1. CASE Go(p, "require")
        BY <1>0, <3>1, GoesTo
      <3>2. CASE proc'[p] = [proc[p] EXCEPT !.draft = TRUE, !.pc = "create_draft"]
        BY ONLY <1>0, <3>2 DEF Attempts
      <3>. QED BY <2>1, <3>1, <3>2
    <2>3. rec'.listing = rec.listing
      <3>1. rec' = rec \/ rec' = [rec EXCEPT !.draft = TRUE]
        BY <1>4 DEF ReserveDraft
      <3>. QED BY ONLY <1>0, <3>1 DEF Records
    <2>. QED BY <1>4, <2>2, <2>3 DEF ReserveDraft, At, Serial
  <1>5. CASE CreateDraft(p)
    <2>1. \/ Go(p, "require")
          \/ proc'[p] = [proc[p] EXCEPT !.pc = "save_draft", !.listing = "direct", !.owned = TRUE]
      BY <1>0, <1>5 DEF CreateDraft
    <2>2. proc'[p].pc \in {"require", "save_draft"}
      <3>1. CASE Go(p, "require")
        BY <1>0, <3>1, GoesTo
      <3>2. CASE proc'[p] = [proc[p] EXCEPT !.pc = "save_draft", !.listing = "direct", !.owned = TRUE]
        BY ONLY <1>0, <3>2 DEF Attempts
      <3>. QED BY <2>1, <3>1, <3>2
    <2>. QED BY <1>5, <2>2 DEF CreateDraft, At, Serial
  <1>6. CASE SaveDraft(p)
    <2>1. Go(p, "require") \/ Go(p, "look")
      BY <1>6 DEF SaveDraft
    <2>. QED BY <1>0, <2>1, GoesTo
  <1>7. CASE Look(p)
    <2>1. \/ \E s \in {"require", "inventory"} : Go(p, s)
          \/ proc'[p] = [proc[p] EXCEPT !.adopt = TRUE, !.pc = "link"]
      BY <1>0, <1>7 DEF Look
    <2>2. proc'[p].pc \in {"require", "inventory", "link"}
      <3>1. CASE \E s \in {"require", "inventory"} : Go(p, s)
        BY <1>0, <3>1, GoesTo
      <3>2. CASE proc'[p] = [proc[p] EXCEPT !.adopt = TRUE, !.pc = "link"]
        BY ONLY <1>0, <3>2 DEF Attempts
      <3>. QED BY <2>1, <3>1, <3>2
    <2>. QED BY <2>2
  <1>8. CASE Verify(p)
    <2>1. /\ Go(p, "require") \/ (IsActive(printify.link) /\ \E s \in {"gallery", "rewrite", "remap"} : Go(p, s))
          /\ printify' = printify /\ etsy' = etsy
      BY <1>8 DEF Verify, remote
    <2>2. IsActive(printify.link) => IsActive(printify.link)'
      BY <2>1 DEF IsActive
    <2>. QED BY <1>0, <2>1, <2>2, GoesTo
  <1>9. CASE RewriteSelectors(p) \/ RemapPhotos(p)
    <2>1. /\ Go(p, "remap") \/ Go(p, "gallery")
          /\ printify' = printify /\ IsActive(printify.link)
          /\ \/ etsy' = [etsy EXCEPT !.exact = TRUE, !.nativeLinks = FALSE]
             \/ etsy' = [etsy EXCEPT !.nativeLinks = TRUE]
      BY <1>9 DEF RewriteSelectors, RemapPhotos, At, Serial
    <2>2. etsy'.state = etsy.state /\ etsy'.native = etsy.native
      BY ONLY <1>0, <2>1 DEF Etsys
    <2>3. IsActive(printify.link)'
      BY <2>1, <2>2 DEF IsActive
    <2>. QED BY <1>0, <2>1, <2>3, GoesTo
  <1>10. CASE VerifyGallery(p)
    <2>1. \/ Go(p, "require")
          \/ /\ proc'[p] = [proc[p] EXCEPT !.pc = "finish", !.listing = printify.link]
             /\ Shown(printify.link)
      BY <1>0, <1>10 DEF VerifyGallery
    <2>2. \/ proc'[p].pc = "require"
          \/ proc'[p].pc = "finish" /\ proc'[p].listing = printify.link /\ Shown(printify.link)
      <3>1. CASE Go(p, "require")
        BY <1>0, <3>1, GoesTo
      <3>2. CASE /\ proc'[p] = [proc[p] EXCEPT !.pc = "finish", !.listing = printify.link]
                 /\ Shown(printify.link)
        BY ONLY <1>0, <3>2 DEF Attempts
      <3>. QED BY <2>1, <3>1, <3>2
    <2>3. IsActive(printify.link) /\ printify' = printify /\ etsy' = etsy
      BY <1>10 DEF VerifyGallery, At, Serial, local
    <2>4. proc'[p].pc = "finish" => Live(proc[p].listing)'
      BY <2>2, <2>3 DEF Live, IsActive, Shown
    <2>. QED BY <2>2, <2>4
  <1>. QED BY <1>1, <1>2, <1>3, <1>4, <1>5, <1>6, <1>7, <1>8, <1>9, <1>10 DEF Leading

(* Every step keeps attempts that follow one another apart. *)
LEMMA NextSerial == RecordInv /\ [Next]_vars => OneByOne'
  <1>. SUFFICES ASSUME RecordInv, [Next]_vars, ~overlap' PROVE Serial'
    BY DEF OneByOne
  <1>0. OnceInv /\ Built /\ Kept /\ Made /\ (~overlap => Serial)
    BY DEF RecordInv, OneByOne
  <1>1. ASSUME NEW p \in Workers, Step(p) PROVE Serial'
    <2>1. Moved(p) /\ (rec' = rec \/ Recorders(p)) /\ ~overlap /\ Serial
      BY <1>0, <1>1, StepMoves
    <2>2. ~Completed /\ \A q \in Workers : q # p => proc[q].pc = "idle" /\ proc'[q] = proc[q]
      BY <1>0, <1>1, <2>1, OthersIdle
    <2>3. Completed' => Live(rec.external)' /\ proc'[p].pc = "idle"
      <3>1. Completed' => Finish(p)
        <4>1. TypeOK
          BY <1>0 DEF OnceInv
        <4>. QED BY <2>1, <2>2, <4>1, RecordersRecord DEF Completed
      <3>2. ASSUME Finish(p) PROVE Live(rec.external)' /\ proc'[p].pc = "idle"
        <4>1. rec \in Records /\ proc \in [Workers -> Attempts]
          BY <1>0 DEF OnceInv, TypeOK
        <4>2. /\ rec' = [rec EXCEPT !.status = "succeeded", !.external = proc[p].listing]
              /\ Leave(p) /\ UNCHANGED <<printify, etsy>> /\ proc[p].pc = "finish"
          BY <3>2 DEF Finish, At, remote
        <4>3. rec'.external = proc[p].listing
          BY ONLY <4>1, <4>2 DEF Records
        <4>4. proc'[p].pc = "idle"
          BY <4>1, <4>2, LeaveType
        <4>5. Live(proc[p].listing)
          BY <2>1, <4>2 DEF Serial
        <4>. QED BY <4>2, <4>3, <4>4, <4>5 DEF Live, IsActive, Shown
      <3>. QED BY <3>1, <3>2
    <2>4. /\ proc'[p].pc \in {"rewrite", "remap", "gallery"} => IsActive(printify.link)'
          /\ proc'[p].pc = "finish" => Live(proc[p].listing)'
          /\ proc'[p].pc = "find" => proc'[p].listing = rec'.listing
          /\ proc'[p].pc \in {"reserve_draft", "create_draft", "save_draft"} => rec'.listing = "none"
      BY <1>0, <1>1, <2>1, WatchedEntry
    <2>5. \A q \in Workers : q = p \/ proc'[q].pc = "idle"
      BY <2>2
    <2>. QED BY <2>3, <2>4, <2>5 DEF Serial
  <1>2. CASE Land \/ NativePublish
    <2>1. /\ \A l : (IsActive(l) => IsActive(l)') /\ (Live(l) => Live(l)')
          /\ IsActive(printify.link) => IsActive(printify.link)'
          /\ UNCHANGED <<rec, proc, overlap>>
      BY <1>0, <1>2, ProvidersKeepLive
    <2>2. Serial
      BY <1>0, <2>1
    <2>3. Completed' => Live(rec.external)' /\ \A p \in Workers : proc'[p].pc = "idle"
      <3>1. Live(rec.external) => Live(rec.external)'
        BY <2>1 DEF Live, IsActive, Shown
      <3>. QED BY <2>1, <2>2, <3>1 DEF Serial, Completed
    <2>4. ASSUME NEW p \in Workers, proc'[p].pc = "finish" PROVE Live(proc[p].listing)'
      <3>1. Live(proc[p].listing) => Live(proc[p].listing)'
        BY <2>1 DEF Live, IsActive, Shown
      <3>. QED BY <2>1, <2>2, <2>4, <3>1 DEF Serial
    <2>5. /\ \A p, q \in Workers : proc'[p].pc # "idle" /\ proc'[q].pc # "idle" => p = q
          /\ \A p \in Workers :
               /\ proc'[p].pc \in {"rewrite", "remap", "gallery"} => IsActive(printify.link)'
               /\ proc'[p].pc = "find" => proc'[p].listing = rec'.listing
               /\ proc'[p].pc \in {"reserve_draft", "create_draft", "save_draft"} => rec'.listing = "none"
      BY <2>1, <2>2 DEF Serial
    <2>. QED BY <2>3, <2>4, <2>5 DEF Serial
  <1>3. CASE UNCHANGED vars
    BY <1>0, <1>3 DEF Serial, Live, IsActive, Shown, Completed, vars
  <1>. QED BY <1>1, <1>2, <1>3 DEF Next

(* The invariant of the record: everything above, for every state. *)
THEOREM RecordInvariant == Spec => []RecordInv
  <1>1. Init => OnceInv
    BY InitOnce
  <1>2. Init => Built /\ Kept /\ Made /\ OneByOne
    <2>1. SUFFICES ASSUME Init PROVE Built /\ Kept /\ Made /\ OneByOne
      OBVIOUS
    <2>2. \A p \in Workers : /\ proc[p].pc = "idle" /\ proc[p].listing = "none" /\ ~proc[p].owned
      <3>1. Idle.listing = "none" /\ ~Idle.owned /\ Idle.pc = "idle"
        BY DEF Idle
      <3>. QED BY <2>1, <3>1 DEF Init
    <2>3. /\ etsy.state = "none" /\ ~etsy.inventory /\ printify.link = "none"
      BY <2>1 DEF Init
    <2>4. /\ rec.product = None /\ rec.status = "pending" /\ rec.listing = "none" /\ ~rec.owned
      BY <2>1 DEF Init, Fresh
    <2>. QED BY <2>2, <2>3, <2>4 DEF Built, Building, Picking, Kept, Made, Real, OneByOne, Serial, Completed, Early
  <1>3. RecordInv /\ [Next]_vars => RecordInv'
    BY NextOnce, NextBuilt, NextKept, NextMade, NextSerial DEF RecordInv
  <1>. QED BY <1>1, <1>2, <1>3, PTL DEF Spec, RecordInv

(* When attempts follow one another, a success names a listing that is live, *)
(* and nothing that comes later takes it down (_verify_etsy_publish).        *)
THEOREM SuccessStaysLive == Spec => []SuccessIsLive
  <1>1. RecordInv => SuccessIsLive
    BY DEF RecordInv, OneByOne, Serial, Live, SuccessIsLive
  <1>. QED BY <1>1, RecordInvariant, PTL

(* Retries retain what the record holds: product, accepted answer, image ids *)
(* and success always, the listing when attempts follow one another.        *)
THEOREM RecordsAreRetained == Spec => RetriesRetain
  <1>. DEFINE Retained ==
                /\ rec.product # None => rec'.product = rec.product
                /\ rec.response = "accepted" => rec'.response = "accepted"
                /\ rec.ids \subseteq rec'.ids
                /\ Completed => rec'.status = "succeeded"
                /\ ~overlap => /\ rec.listing # "none" => rec'.listing = rec.listing
                               /\ Completed => rec'.external = rec.external
  <1>1. RecordInv /\ [Next]_vars => [Retained]_vars
    <2>. SUFFICES ASSUME RecordInv, Next PROVE Retained
      OBVIOUS
    <2>0. /\ OnceInv /\ TypeOK /\ Single /\ Kept /\ (~overlap => Serial) /\ rec \in Records
      BY DEF RecordInv, OneByOne, OnceInv, TypeOK
    <2>1. ASSUME NEW p \in Workers, Step(p), Recorders(p) PROVE Retained
      <3>1. /\ \/ rec'.product = rec.product
               \/ SaveProduct(p) /\ ~Completed /\ rec'.product = proc[p].product
            /\ Completed => rec'.status = "succeeded"
            /\ rec.response = "accepted" => rec'.response = "accepted"
            /\ rec.ids \subseteq rec'.ids
        BY <2>0, <2>1, RecordersRecord
      <3>2. rec.product # None => rec'.product = rec.product
        <4>1. SaveProduct(p) => Exists(proc[p].product)
          BY <2>0 DEF Kept, SaveProduct, At
        <4>2. \A m, n : Exists(m) /\ Exists(n) => m = n
          BY <2>0 DEF Exists, Single
        <4>. QED BY <2>0, <3>1, <4>1, <4>2 DEF Kept
      <3>3. ASSUME ~overlap
            PROVE  /\ rec.listing # "none" => rec'.listing = rec.listing
                   /\ Completed => rec'.external = rec.external
        <4>1. ~Completed
          BY <2>0, <2>1, <3>3, OthersIdle
        <4>2. SaveDraft(p) => rec.listing = "none"
          BY <2>0, <3>3 DEF Serial, SaveDraft, At
        <4>. QED BY <2>0, <2>1, <4>1, <4>2, RecordsListing
      <3>. QED BY <3>1, <3>2, <3>3
    <2>2. CASE rec' = rec
      BY <2>2 DEF Completed
    <2>3. rec' = rec \/ \E p \in Workers : Step(p) /\ Recorders(p)
      BY <2>0, StepMoves DEF Next, Land, NativePublish
    <2>. QED BY <2>1, <2>2, <2>3
  <1>2. Spec => [][Next]_vars
    BY DEF Spec
  <1>. QED BY <1>1, <1>2, RecordInvariant, PTL DEF RetriesRetain
=============================================================================
