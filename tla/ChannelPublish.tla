--------------------------- MODULE ChannelPublish ---------------------------
(***************************************************************************)
(* Publishing a v1 run to Etsy: publish_channel_run, which has Printify    *)
(* create and publish a product, and publish_direct_etsy, the fallback     *)
(* that builds the Etsy listing itself when Printify never did.            *)
(*                                                                         *)
(* Every attempt is an activity; Temporal retries it and the operator can  *)
(* retry the channel, so an attempt that was given up may still run beside *)
(* its successor.  The publication record is all that tells them what was  *)
(* asked of the providers.  An attempt's number stands for the Printify    *)
(* upload and product it makes.  An action is one transaction on the       *)
(* record, one remote write, or the remote reads before a decision.        *)
(* Dry-run mode and the other channels are left out.                       *)
(***************************************************************************)
EXTENDS Integers, FiniteSets

CONSTANTS
    Workers,       \* places an attempt can run at
    NumColors,     \* approved colours, one photo each, uploaded in this order
    MaxStarts,     \* attempts
    MaxFaults,     \* remote writes that are refused or whose answer is lost
    Sends,         \* how often one publish call sends its request (4)
    Overlaps       \* the values of overlap to consider

Colors == 1..NumColors
Starts == 1..MaxStarts
None == 0

ASSUME ConstantsAssumption ==
    /\ NumColors \in Nat \ {0}
    /\ MaxStarts \in Nat
    /\ MaxFaults \in Nat
    /\ Sends \in Nat \ {0}
    /\ Overlaps \subseteq BOOLEAN

VARIABLES
    rec,           \* the publication record
    printify,      \* the products of this run at Printify
    etsy,          \* the run's Etsy listings
    late,          \* requests the providers will still carry out
    proc,          \* local state of every attempt
    used,          \* attempts started so far
    faults,        \* faults so far
    overlap        \* whether an attempt may start while another one runs

vars == <<rec, printify, etsy, late, proc, used, faults, overlap>>

-----------------------------------------------------------------------------
(* Types *)

Listings == {"none", "direct", "native"}
Records == [status: {"pending", "creating", "publishing", "failed",
                     "reconciliation_required", "succeeded"},
            upload: 0..MaxStarts, created: BOOLEAN, product: 0..MaxStarts,
            started: BOOLEAN,
            response: {"none", "reconciling", "already_published", "accepted"},
            draft: BOOLEAN, listing: Listings, owned: BOOLEAN,
            pending: 0..NumColors, ids: SUBSET Colors, plan: BOOLEAN,
            external: Listings]
Fresh == [status |-> "pending", upload |-> None, created |-> FALSE, product |-> None,
          started |-> FALSE, response |-> "none", draft |-> FALSE, listing |-> "none",
          owned |-> FALSE, pending |-> None, ids |-> {}, plan |-> FALSE,
          external |-> "none"]
Printifys == [products: SUBSET [id: Starts, upload: Starts], locked: BOOLEAN,
              link: Listings]
Etsys == [drafts: 0..MaxStarts, state: {"none", "draft", "active", "inactive"},
          inventory: BOOLEAN, photos: [Colors -> 0..MaxStarts], links: BOOLEAN,
          native: BOOLEAN, exact: BOOLEAN, nativeLinks: BOOLEAN]
Steps == {"idle", "reserve", "create", "refused", "reconcile", "unreconciled", "save",
          "mockups", "readback", "request", "publish", "publish_refused", "answer",
          "wait", "find", "reserve_draft", "create_draft", "save_draft", "look",
          "inventory", "photo", "reserve_photo", "upload_photo", "save_photo",
          "links", "activate", "activated", "deactivate", "link", "republish", "tell",
          "confirm", "recount", "verify", "rewrite", "remap", "gallery", "finish",
          "require", "raise"}
Attempts == [pc: Steps, num: 0..MaxStarts, upload: 0..MaxStarts, product: 0..MaxStarts,
             status: {"none", "reconciliation_required"},
             response: {"none", "reconciling", "already_published", "accepted"},
             tries: 0..(Sends - 1), draft: BOOLEAN, listing: Listings, owned: BOOLEAN,
             adopt: BOOLEAN, pending: 0..NumColors, ids: SUBSET Colors, todo: SUBSET Colors]
Idle == [pc |-> "idle", num |-> None, upload |-> None, product |-> None,
         status |-> "none", response |-> "none", tries |-> 0, draft |-> FALSE,
         listing |-> "none", owned |-> FALSE, adopt |-> FALSE, pending |-> None, ids |-> {},
         todo |-> {}]
Requests == {<<"product", None>>, <<"draft", None>>} \cup ({"photo"} \X Colors)

-----------------------------------------------------------------------------
(* Helpers *)

Completed == rec.status = "succeeded"
At(p, step) == proc[p].pc = step
Go(p, step) == proc' = [proc EXCEPT ![p].pc = step]
Leave(p) == proc' = [proc EXCEPT ![p] = Idle]
Least(S) == CHOOSE c \in S : \A d \in S : c <= d
NextColor(p) == Least(proc[p].todo)

\* What a gallery check accepts: one photo for each colour, linked to it.
Shown(l) ==
    CASE l = "direct" -> etsy.links /\ \A c \in Colors : etsy.photos[c] = 1
      [] l = "native" -> etsy.nativeLinks
      [] OTHER -> FALSE
IsActive(l) ==
    CASE l = "direct" -> etsy.state = "active"
      [] l = "native" -> etsy.native
      [] OTHER -> FALSE
\* verify_etsy_inventory and the selector labels.
Stocked(l) == IF l = "direct" THEN etsy.inventory ELSE etsy.exact
Titled == {l \in {"direct", "native"} :
               IF l = "direct" THEN etsy.state # "none" ELSE etsy.native}

\* A request takes effect at the provider.
Perform(r, n, u) ==
    CASE r[1] = "product" ->
           /\ printify' = [printify EXCEPT !.products = @ \cup {[id |-> n, upload |-> u]}]
           /\ UNCHANGED etsy
      [] r[1] = "draft" ->
           /\ etsy' = [etsy EXCEPT !.drafts = @ + 1, !.state = "draft"]
           /\ UNCHANGED printify
      [] OTHER ->
           /\ etsy' = [etsy EXCEPT !.photos[r[2]] = @ + 1]
           /\ UNCHANGED printify
\* The answer of a request is lost: it took effect, will still do so, or never does.
Lost(r, n, u) ==
    /\ faults < MaxFaults
    /\ faults' = faults + 1
    /\ \/ Perform(r, n, u) /\ UNCHANGED late
       \/ late' = late \cup {[what |-> r, id |-> n, upload |-> u]} /\ UNCHANGED <<printify, etsy>>
       \/ UNCHANGED <<printify, etsy, late>>
Answered(r, n, u) == Perform(r, n, u) /\ UNCHANGED <<late, faults>>
\* The provider definitely refuses a request.
Refused ==
    /\ faults < MaxFaults
    /\ faults' = faults + 1
    /\ UNCHANGED <<printify, etsy, late>>

local == <<rec, printify, etsy, late, used, faults, overlap>>   \* all but proc
remote == <<printify, etsy, late, used, faults, overlap>>       \* all but proc and rec

-----------------------------------------------------------------------------
(* publish_channel_run: the product *)

\* Everything up to the first transaction: the snapshot and, when the record
\* has no upload yet, the upload of the artwork.
Start(p) ==
    /\ At(p, "idle")
    /\ used < MaxStarts
    /\ ~(Completed /\ rec.product # None)
    /\ overlap \/ \A q \in Workers : At(q, "idle")
    /\ used' = used + 1
    /\ proc' = [proc EXCEPT ![p] = [Idle EXCEPT !.pc = "reserve", !.num = used + 1,
                   !.upload = IF rec.upload # None THEN rec.upload ELSE used + 1]]
    /\ UNCHANGED <<rec, printify, etsy, late, faults, overlap>>

\* Mutant: a reservation left by a crashed attempt is not looked at.
AskedIfUnsettled(r) == r.status = "reconciliation_required"

\* Whether the product may have been asked for already.
Asked(r) == r.created \/ r.status = "reconciliation_required"

Reserve(p) ==
    /\ At(p, "reserve")
    /\ IF Completed
       THEN Leave(p) /\ UNCHANGED rec
       ELSE LET upload == IF rec.upload # None THEN rec.upload ELSE proc[p].upload
            IN /\ rec' = [rec EXCEPT !.upload = upload, !.status = "creating",
                             !.created = @ \/ (rec.product = None /\ ~Asked(rec))]
               /\ proc' = [proc EXCEPT ![p] = [@ EXCEPT
                      !.upload = upload, !.product = rec.product,
                      !.status = IF rec.status = "reconciliation_required"
                                 THEN rec.status ELSE "none",
                      !.pc = IF rec.product # None THEN "save"
                             ELSE IF Asked(rec) THEN "reconcile" ELSE "create"]]
    /\ UNCHANGED remote

Create(p) ==
    /\ At(p, "create")
    /\ \/ /\ Answered(<<"product", None>>, proc[p].num, proc[p].upload)
          /\ proc' = [proc EXCEPT ![p] = [@ EXCEPT !.product = proc[p].num, !.pc = "save"]]
       \/ Refused /\ Go(p, "refused")
       \/ /\ Lost(<<"product", None>>, proc[p].num, proc[p].upload)
          /\ \E step \in {"reconcile", "raise"} : Go(p, step)
    /\ UNCHANGED <<rec, used, overlap>>

\* _clear_rejected_publish_intent for a refused creation.
CreateRefused(p) ==
    /\ At(p, "refused")
    /\ rec' = [rec EXCEPT !.created = FALSE]
    /\ Go(p, "raise")
    /\ UNCHANGED remote

\* reconcile_product finds the products with the upload and the title.
Reconcile(p) ==
    /\ At(p, "reconcile")
    /\ LET found == {x \in printify.products : x.upload = proc[p].upload}
       IN IF Cardinality(found) = 1
          THEN proc' = [proc EXCEPT ![p] = [@ EXCEPT !.pc = "save",
                           !.product = (CHOOSE x \in found : TRUE).id]]
          ELSE Go(p, "unreconciled")
    /\ UNCHANGED local

Unreconciled(p) ==
    /\ At(p, "unreconciled")
    /\ rec' = IF Completed THEN rec
              ELSE [rec EXCEPT !.status = "reconciliation_required"]
    /\ Leave(p)
    /\ UNCHANGED remote

\* The response the record already holds.
Known(r) == IF r.response # "none" THEN r.response
            ELSE IF r.started THEN "reconciling" ELSE "none"

SaveProduct(p) ==
    /\ At(p, "save")
    /\ IF Completed
       THEN Leave(p) /\ UNCHANGED rec
       ELSE /\ rec' = [rec EXCEPT !.product = proc[p].product, !.status = "publishing"]
            /\ proc' = [proc EXCEPT ![p] = [@ EXCEPT !.pc = "mockups",
                   !.response = Known(rec), !.product = None, !.upload = None]]
    /\ UNCHANGED remote

-----------------------------------------------------------------------------
(* publish_channel_run: the publish request *)

\* Source photos are prepared before a request is reserved.
PrepareMockups(p) ==
    /\ At(p, "mockups")
    /\ Go(p, IF Completed THEN "require"
             ELSE IF proc[p].status = "reconciliation_required"
                     /\ proc[p].response = "none" THEN "readback" ELSE "request")
    /\ UNCHANGED local

\* Mutant: the link itself is kept as the response.
ReadBackLink(p) ==
    /\ At(p, "readback")
    /\ proc' = [proc EXCEPT ![p] = [@ EXCEPT !.pc = "request", !.response = printify.link]]
    /\ UNCHANGED local

\* A run that needed verification may be live already.
ReadBack(p) ==
    /\ At(p, "readback")
    /\ proc' = [proc EXCEPT ![p] = [@ EXCEPT !.pc = "request",
           !.response = IF printify.link # "none" THEN "already_published"
                        ELSE proc[p].response]]
    /\ UNCHANGED local

\* The request is sent only by the attempt that reserves it.
ReservePublish(p) ==
    /\ At(p, "request")
    /\ IF Completed
       THEN Leave(p) /\ UNCHANGED rec
       ELSE LET response == IF Known(rec) # "none" THEN Known(rec) ELSE proc[p].response
            IN /\ rec' = [rec EXCEPT !.started = @ \/ response = "none"]
               /\ proc' = [proc EXCEPT ![p] = [@ EXCEPT !.response = response,
                      !.status = "none",
                      !.pc = IF response = "none" THEN "publish" ELSE "answer"]]
    /\ UNCHANGED remote

Lock == [printify EXCEPT !.locked = @ \/ printify.link = "none"]

\* A lost answer makes the client send the request again; any refusal ends it,
\* a server error too, which leaves open whether the request was carried out.
Publish(p) ==
    /\ At(p, "publish")
    /\ \/ /\ printify' = Lock
          /\ proc' = [proc EXCEPT ![p] = [@ EXCEPT !.response = "accepted",
                         !.pc = "answer", !.tries = 0]]
          /\ UNCHANGED faults
       \/ /\ faults < MaxFaults
          /\ faults' = faults + 1
          /\ printify' \in {printify, Lock}
          /\ \/ Go(p, "publish_refused")
             \/ proc' = [proc EXCEPT ![p] = IF @.tries < Sends - 1
                            THEN [@ EXCEPT !.tries = proc[p].tries + 1]
                            ELSE [@ EXCEPT !.tries = 0, !.pc = "raise"]]
    /\ UNCHANGED <<rec, etsy, late, used, overlap>>

PublishRefused(p) ==
    /\ At(p, "publish_refused")
    /\ rec' = [rec EXCEPT !.started = FALSE]
    /\ Go(p, "raise")
    /\ UNCHANGED remote

SaveResponse(p) ==
    /\ At(p, "answer")
    /\ rec' = [rec EXCEPT !.response =
                  IF proc[p].response = "accepted" \/ @ = "none"
                  THEN proc[p].response ELSE @]
    /\ proc' = [proc EXCEPT ![p] = [@ EXCEPT !.pc = "wait", !.response = "none",
                                             !.num = None]]
    /\ UNCHANGED remote

\* _direct_etsy_fallback starts from what the record holds.
Progress(a) == [a EXCEPT !.pc = "find", !.draft = rec.draft, !.listing = rec.listing,
                         !.owned = rec.owned, !.pending = rec.pending, !.ids = rec.ids]

\* Polls until Printify names its listing or the grace period is over.
WaitForLink(p) ==
    /\ At(p, "wait")
    /\ IF printify.link # "none" THEN Go(p, "verify")
       ELSE IF printify.locked THEN Go(p, "require")
       ELSE proc' = [proc EXCEPT ![p] = Progress(@)]
    /\ UNCHANGED local

-----------------------------------------------------------------------------
(* publish_direct_etsy *)

\* _find_reusable_listing, unless the record names a listing.
FindListing(p) ==
    /\ At(p, "find")
    /\ LET adopt(l, own) == proc' = [proc EXCEPT ![p] = [@ EXCEPT
               !.pc = "save_draft", !.listing = l, !.owned = own]]
       IN IF proc[p].listing # "none" THEN Go(p, "look")
          ELSE CASE Titled = {} ->
                      Go(p, IF proc[p].draft THEN "require" ELSE "reserve_draft")
                 [] Titled = {"native"} -> adopt("native", FALSE)
                 [] Titled = {"direct"} /\ etsy.inventory -> adopt("direct", FALSE)
                 [] Titled = {"direct"} /\ ~etsy.inventory /\ proc[p].draft
                      /\ etsy.state = "draft" -> adopt("direct", TRUE)
                 [] OTHER -> Go(p, "require")
    /\ UNCHANGED local

ReserveDraft(p) ==
    /\ At(p, "reserve_draft")
    /\ IF Completed \/ rec.draft
       THEN Go(p, "require") /\ UNCHANGED rec
       ELSE /\ rec' = [rec EXCEPT !.draft = TRUE]
            /\ proc' = [proc EXCEPT ![p] = [@ EXCEPT !.draft = TRUE, !.pc = "create_draft"]]
    /\ UNCHANGED remote

CreateDraft(p) ==
    /\ At(p, "create_draft")
    /\ \/ /\ Answered(<<"draft", None>>, None, None)
          /\ proc' = [proc EXCEPT ![p] = [@ EXCEPT !.pc = "save_draft",
                         !.listing = "direct", !.owned = TRUE]]
       \/ Refused /\ Go(p, "require")
       \/ Lost(<<"draft", None>>, None, None) /\ Go(p, "require")
    /\ UNCHANGED <<rec, used, overlap>>

SaveDraft(p) ==
    /\ At(p, "save_draft")
    /\ IF Completed
       THEN Go(p, "require") /\ UNCHANGED rec
       ELSE /\ rec' = [rec EXCEPT !.listing = proc[p].listing, !.owned = proc[p].owned]
            /\ Go(p, "look")
    /\ UNCHANGED remote

\* Mutant: a listing with its inventory is taken for finished.
LookOnlyAtInventory(p) ==
    /\ At(p, "look")
    /\ LET l == proc[p].listing
       IN Go(p, IF IsActive(l) THEN "link"
                ELSE IF Stocked(l) THEN "activate" ELSE "inventory")
    /\ UNCHANGED local

\* A listing that is already active is only checked and linked.
Look(p) ==
    /\ At(p, "look")
    /\ LET l == proc[p].listing
       IN IF IsActive(l) /\ Stocked(l) /\ Shown(l)
          THEN proc' = [proc EXCEPT ![p] = [@ EXCEPT !.adopt = TRUE, !.pc = "link"]]
          ELSE Go(p, IF IsActive(l) THEN "require" ELSE "inventory")
    /\ UNCHANGED local

WriteInventory(p) ==
    /\ At(p, "inventory")
    /\ IF Completed THEN Go(p, "require") /\ UNCHANGED <<etsy, faults>>
       ELSE \/ /\ etsy' = [etsy EXCEPT !.inventory = TRUE]
               /\ proc' = [proc EXCEPT ![p] = [@ EXCEPT !.pc = "photo", !.todo = Colors]]
               /\ UNCHANGED faults
            \/ /\ faults < MaxFaults /\ ~etsy.inventory
               /\ faults' = faults + 1
               /\ etsy' \in {etsy, [etsy EXCEPT !.inventory = TRUE]}
               /\ Go(p, "require")
    /\ UNCHANGED <<rec, printify, late, used, overlap>>

\* The next colour: kept, adopted from the listing, or to be uploaded.
LookAtPhoto(p) ==
    /\ At(p, "photo")
    /\ IF proc[p].todo = {} THEN Go(p, "links")
       ELSE LET c == NextColor(p)
            IN CASE c \in proc[p].ids /\ etsy.photos[c] > 0 ->
                      proc' = [proc EXCEPT ![p].todo = @ \ {c}]
                 [] c \notin proc[p].ids /\ etsy.photos[c] = 1 ->
                      proc' = [proc EXCEPT ![p] = [@ EXCEPT !.pc = "save_photo"]]
                 [] etsy.photos[c] = 0 /\ proc[p].pending # c -> Go(p, "reserve_photo")
                 [] OTHER -> Go(p, "require")
    /\ UNCHANGED local

\* _checkpoint_etsy_publish(image_upload_started_color=c)
ReservePhoto(p) ==
    /\ At(p, "reserve_photo")
    /\ LET c == NextColor(p)
       IN IF Completed \/ rec.pending # None \/ c \in rec.ids
          THEN Go(p, "require") /\ UNCHANGED rec
          ELSE /\ rec' = [rec EXCEPT !.pending = c]
               /\ proc' = [proc EXCEPT ![p] = [@ EXCEPT !.pending = c, !.pc = "upload_photo"]]
    /\ UNCHANGED remote

UploadPhoto(p) ==
    /\ At(p, "upload_photo")
    /\ LET r == <<"photo", NextColor(p)>>
       IN \/ Answered(r, None, None) /\ Go(p, "save_photo")
          \/ Refused /\ Go(p, "require")
          \/ Lost(r, None, None) /\ Go(p, "require")
    /\ UNCHANGED <<rec, used, overlap>>

\* Mutant: the attempt's own view of the image ids replaces the saved ones.
OwnIds(r, ids) == ids

\* Image ids are merged, an overlapping attempt may have saved others.
Merged(r, ids) == r.ids \cup ids

\* Completing a colour releases the reservation of no other colour.
Released(r, ids) == IF r.pending \in ids THEN None ELSE r.pending

SavePhoto(p) ==
    /\ At(p, "save_photo")
    /\ LET ids == proc[p].ids \cup {NextColor(p)}
       IN IF Completed
          THEN Go(p, "require") /\ UNCHANGED rec
          ELSE /\ rec' = [rec EXCEPT !.ids = Merged(rec, ids), !.pending = Released(rec, ids)]
               /\ proc' = [proc EXCEPT ![p] = [@ EXCEPT !.ids = ids, !.pending = None,
                              !.todo = proc[p].todo \ {NextColor(p)}, !.pc = "photo"]]
    /\ UNCHANGED remote

\* Colour links, then the gallery check and two checkpoints.
LinkPhotos(p) ==
    /\ At(p, "links")
    /\ etsy' = [etsy EXCEPT !.links = TRUE]
    /\ \E step \in {"activate", "require"} :
           /\ step = "activate" => ~Completed /\ \A c \in Colors : etsy.photos[c] = 1
           /\ Go(p, step)
    /\ UNCHANGED <<rec, printify, late, used, faults, overlap>>

\* The checkpoints around the activation are inside the block whose handler
\* takes the listing down again.
Activate(p) ==
    /\ At(p, "activate")
    /\ \/ /\ etsy.state = "active"
          /\ Go(p, "activated")
          /\ UNCHANGED <<etsy, faults>>
       \/ /\ etsy.state # "active" /\ Completed
          /\ Go(p, "deactivate")
          /\ UNCHANGED <<etsy, faults>>
       \/ /\ etsy.state # "active" /\ ~Completed
          /\ etsy' = [etsy EXCEPT !.state = "active"]
          /\ Go(p, "activated")
          /\ UNCHANGED faults
       \/ /\ etsy.state # "active" /\ ~Completed
          /\ faults < MaxFaults
          /\ faults' = faults + 1
          /\ etsy' \in {etsy, [etsy EXCEPT !.state = "active"]}
          /\ Go(p, "deactivate")
    /\ UNCHANGED <<rec, printify, late, used, overlap>>

Activated(p) ==
    /\ At(p, "activated")
    /\ Go(p, IF etsy.state = "active" /\ ~Completed THEN "link" ELSE "deactivate")
    /\ UNCHANGED local

Deactivate(p) ==
    /\ At(p, "deactivate")
    /\ IF proc[p].owned
       THEN \/ etsy' = [etsy EXCEPT !.state = "inactive"] /\ UNCHANGED faults
            \/ /\ faults < MaxFaults
               /\ faults' = faults + 1
               /\ UNCHANGED etsy
       ELSE UNCHANGED <<etsy, faults>>
    /\ Go(p, "require")
    /\ UNCHANGED <<rec, printify, late, used, overlap>>

-----------------------------------------------------------------------------
(* _link_printify_listing *)

LinkListing(p) ==
    /\ At(p, "link")
    /\ \/ /\ Go(p, CASE printify.link = proc[p].listing ->
                          IF Completed THEN "require" ELSE "recount"
                     [] printify.link = "none" -> "republish"
                     [] OTHER -> "deactivate")
          /\ UNCHANGED faults
       \/ /\ faults < MaxFaults     \* the product could not be read
          /\ faults' = faults + 1
          /\ Go(p, "deactivate")
    /\ UNCHANGED <<rec, printify, etsy, late, used, overlap>>

Republish(p) ==
    /\ At(p, "republish")
    /\ \/ printify' = Lock /\ Go(p, "tell") /\ UNCHANGED faults
       \/ /\ faults < MaxFaults
          /\ faults' = faults + 1
          /\ printify' \in {printify, Lock}
          /\ Go(p, "confirm")
    /\ UNCHANGED <<rec, etsy, late, used, overlap>>

\* publishing_succeeded names the listing and unlocks the product.
Tell(p) ==
    /\ At(p, "tell")
    /\ LET told == [printify EXCEPT !.link = proc[p].listing, !.locked = FALSE]
       IN \/ printify' = told /\ UNCHANGED faults
          \/ /\ faults < MaxFaults
             /\ faults' = faults + 1
             /\ printify' \in {printify, told}
    /\ Go(p, "confirm")
    /\ UNCHANGED <<rec, etsy, late, used, overlap>>

Confirm(p) ==
    /\ At(p, "confirm")
    /\ Go(p, IF printify.link # proc[p].listing THEN "deactivate"
             ELSE IF Completed THEN "require" ELSE "recount")
    /\ UNCHANGED local

\* The gallery again and, for a listing this attempt activated, no second
\* active one with the approved title.
Recount(p) ==
    /\ At(p, "recount")
    /\ Go(p, IF /\ Shown(proc[p].listing)
                /\ proc[p].adopt \/ Cardinality({l \in Titled : IsActive(l)}) = 1
             THEN "verify" ELSE "require")
    /\ UNCHANGED local

-----------------------------------------------------------------------------
(* _verify_etsy_publish and the outcome *)

\* Mutant: a listing whose selectors are right is taken for verified.
VerifyOnlySelectors(p) ==
    /\ At(p, "verify")
    /\ LET l == printify.link
       IN IF Stocked(l)
          THEN /\ proc' = [proc EXCEPT ![p] = [@ EXCEPT !.pc = "finish", !.listing = l]]
               /\ UNCHANGED rec
          ELSE /\ rec' = [rec EXCEPT !.plan = TRUE]
               /\ Go(p, "rewrite")
    /\ UNCHANGED remote

\* Reads the linked listing; its selectors may need rewriting, and the links
\* of its photos are saved before the rewrite drops them.
Verify(p) ==
    /\ At(p, "verify")
    /\ LET l == printify.link
       IN IF ~IsActive(l) \/ (l = "direct" /\ (rec.plan \/ ~etsy.inventory))
          THEN Go(p, "require") /\ UNCHANGED rec
          ELSE /\ rec' = [rec EXCEPT !.plan = @ \/ (l = "native" /\ ~etsy.exact)]
               /\ Go(p, IF l = "direct" THEN "gallery"
                        ELSE IF ~etsy.exact THEN "rewrite"
                        ELSE IF rec.plan THEN "remap" ELSE "gallery")
    /\ UNCHANGED remote

RewriteSelectors(p) ==
    /\ At(p, "rewrite")
    /\ etsy' = [etsy EXCEPT !.exact = TRUE, !.nativeLinks = FALSE]
    /\ Go(p, "remap")
    /\ UNCHANGED <<rec, printify, late, used, faults, overlap>>

RemapPhotos(p) ==
    /\ At(p, "remap")
    /\ etsy' = [etsy EXCEPT !.nativeLinks = TRUE]
    /\ Go(p, "gallery")
    /\ UNCHANGED <<rec, printify, late, used, faults, overlap>>

\* The verified listing must be the one the fallback linked.
VerifyGallery(p) ==
    /\ At(p, "gallery")
    /\ LET l == printify.link
       IN IF Completed \/ ~Shown(l) \/ proc[p].listing \notin {"none", l}
          THEN Go(p, "require")
          ELSE proc' = [proc EXCEPT ![p] = [@ EXCEPT !.pc = "finish", !.listing = l]]
    /\ UNCHANGED local

Finish(p) ==
    /\ At(p, "finish")
    /\ rec' = [rec EXCEPT !.status = "succeeded", !.external = proc[p].listing]
    /\ Leave(p)
    /\ UNCHANGED remote

\* Handled errors, among them every failed remote read of these steps.
Unverified(p) ==
    /\ proc[p].pc \in {"mockups", "wait", "find", "look", "photo", "links", "recount",
                       "verify", "rewrite", "remap", "gallery"}
    /\ Go(p, "require")
    /\ UNCHANGED local

RequireVerification(p) ==
    /\ At(p, "require")
    /\ rec' = IF Completed THEN rec
              ELSE [rec EXCEPT !.status = "reconciliation_required"]
    /\ Leave(p)
    /\ UNCHANGED remote

\* Errors that end the activity, and record_publish_failure.
Raise(p) ==
    /\ proc[p].pc \in {"reserve", "reconcile", "readback"}
    /\ Go(p, "raise")
    /\ UNCHANGED local

RecordFailure(p) ==
    /\ At(p, "raise")
    /\ rec' = IF Completed THEN rec ELSE [rec EXCEPT !.status = "failed"]
    /\ Leave(p)
    /\ UNCHANGED remote

Crash(p) ==
    /\ ~At(p, "idle")
    /\ Leave(p)
    /\ UNCHANGED local

-----------------------------------------------------------------------------
(* The providers *)

\* A delayed request is carried out.
Land ==
    /\ \E r \in late : Perform(r.what, r.id, r.upload) /\ late' = late \ {r}
    /\ UNCHANGED <<rec, proc, used, faults, overlap>>

\* Printify carries out a publish request, or gives up on it.
NativePublish ==
    /\ printify.locked
    /\ \/ /\ ~etsy.native
          /\ printify' = [printify EXCEPT !.locked = FALSE, !.link = "native"]
          /\ etsy' = [etsy EXCEPT !.native = TRUE, !.nativeLinks = TRUE]
       \/ printify' = [printify EXCEPT !.locked = FALSE] /\ UNCHANGED etsy
    /\ UNCHANGED <<rec, late, proc, used, faults, overlap>>

-----------------------------------------------------------------------------
Init ==
    /\ rec = Fresh
    /\ printify = [products |-> {}, locked |-> FALSE, link |-> "none"]
    /\ etsy = [drafts |-> 0, state |-> "none", inventory |-> FALSE,
               photos |-> [c \in Colors |-> 0], links |-> FALSE,
               native |-> FALSE, exact |-> FALSE, nativeLinks |-> FALSE]
    /\ late = {}
    /\ proc = [p \in Workers |-> Idle]
    /\ used = 0
    /\ faults = 0
    /\ overlap \in Overlaps

Step(p) ==
    \/ Start(p) \/ Reserve(p) \/ Create(p) \/ CreateRefused(p) \/ Reconcile(p)
    \/ Unreconciled(p) \/ SaveProduct(p) \/ PrepareMockups(p) \/ ReadBack(p)
    \/ ReservePublish(p) \/ Publish(p) \/ PublishRefused(p) \/ SaveResponse(p)
    \/ WaitForLink(p) \/ FindListing(p) \/ ReserveDraft(p) \/ CreateDraft(p)
    \/ SaveDraft(p) \/ Look(p) \/ WriteInventory(p) \/ LookAtPhoto(p)
    \/ ReservePhoto(p) \/ UploadPhoto(p) \/ SavePhoto(p) \/ LinkPhotos(p)
    \/ Activate(p) \/ Activated(p) \/ Deactivate(p) \/ LinkListing(p)
    \/ Republish(p) \/ Tell(p) \/ Confirm(p) \/ Recount(p) \/ Verify(p)
    \/ RewriteSelectors(p) \/ RemapPhotos(p) \/ VerifyGallery(p) \/ Finish(p)
    \/ Unverified(p) \/ RequireVerification(p) \/ Raise(p) \/ RecordFailure(p)
    \/ Crash(p)

Next == (\E p \in Workers : Step(p)) \/ Land \/ NativePublish

Spec == Init /\ [][Next]_vars

-----------------------------------------------------------------------------
(* Properties *)

\* Every variable has its type.
TypeOK ==
    /\ rec \in Records
    /\ printify \in Printifys
    /\ etsy \in Etsys
    /\ late \subseteq [what: Requests, id: 0..MaxStarts, upload: 0..MaxStarts]
    /\ proc \in [Workers -> Attempts]
    /\ used \in 0..MaxStarts
    /\ faults \in 0..MaxFaults
    /\ overlap \in BOOLEAN

\* However attempts overlap, crash and lose answers, the run gets one Printify
\* product, one Etsy draft and one photo for each colour: whatever cannot be
\* sent twice is reserved in the record first (pipeline.py _checkpoint_etsy_publish).
NothingTwice ==
    /\ Cardinality(printify.products) <= 1
    /\ etsy.drafts <= 1
    /\ \A c \in Colors : etsy.photos[c] <= 1

\* A buyer never sees a listing this code built before it is complete.
ActiveIsComplete ==
    etsy.state = "active" => etsy.inventory /\ Shown("direct")

\* Retries retain the product id, the accepted publish response and the image
\* checkpoints, and a success is never taken back; when attempts follow one
\* another they also retain the listing id (README), and a success is never
\* moved to another listing.
RetriesRetain ==
    [][/\ rec.product # None => rec'.product = rec.product
       /\ rec.response = "accepted" => rec'.response = "accepted"
       /\ rec.ids \subseteq rec'.ids
       /\ Completed => rec'.status = "succeeded"
       /\ ~overlap => /\ rec.listing # "none" => rec'.listing = rec.listing
                      /\ Completed => rec'.external = rec.external]_vars

\* The listing id is retained however attempts overlap: not when one of three
\* waits for Printify's listing while the others make both kinds.
ListingStays == [][rec.listing # "none" => rec'.listing = rec.listing]_vars

\* When attempts follow one another, a success is recorded for a listing that
\* is active with every photo linked, and no later attempt spoils it.
SuccessIsLive ==
    ~overlap /\ Completed => IsActive(rec.external) /\ Shown(rec.external)

\* The same for attempts that overlap, as the checkpoints intend: one that finds
\* the publication completed is stopped ("Stop stale workers before a checkpoint
\* can authorize another remote upload", pipeline.py _checkpoint_etsy_publish)
\* and takes nothing down.
StaleAttemptIsHarmless == Completed => IsActive(rec.external)
=============================================================================
