------------------------- MODULE ArtworkReplacement -------------------------
(***************************************************************************)
(* Replacing the artwork of a published Etsy run in place: the operator    *)
(* commands replace_published_artwork and reconcile_published_artwork.     *)
(* Both change three things they do not own (the Printify product, the     *)
(* Etsy listing's state, its photos) and keep a checkpoint in the          *)
(* publication record, which is also the lease that keeps commands apart.  *)
(*                                                                         *)
(* A command has a number that stands for the ids it draws: its operation  *)
(* id, its reconciliation attempt id and its Printify upload.  Artwork 0   *)
(* is what the run was published with.  A photo is the artwork it shows    *)
(* and its colour.  An action is one transaction, one remote write, or a   *)
(* run of remote reads that only decide whether the command goes on.       *)
(***************************************************************************)
EXTENDS Integers, FiniteSets

CONSTANTS
    Operators,     \* processes that run commands, one at a time each
    NumColors,     \* approved colours, one photo each
    MaxCommands,   \* commands that can be given
    Polls,         \* mockup_attempts
    EditKinds,     \* what others may change: "approved" fields, "placement"
    Overdue        \* whether a lease may run out while its holder lives

Colors == 1..NumColors
Commands == 1..MaxCommands
Artworks == 0..MaxCommands
None == 0

ASSUME ConstantsAssumption ==
    /\ NumColors \in Nat \ {0}
    /\ MaxCommands \in Nat
    /\ Polls \in Nat \ {0}
    /\ EditKinds \subseteq {"approved", "placement"}
    /\ Overdue \in BOOLEAN

VARIABLES
    rec,           \* run status, upload and artwork_replacement checkpoint
    art,           \* artwork the print areas of the Printify product name
    shop,          \* the Etsy listing: state, photos, colour links
    sold,          \* artworks shown by the photos somebody bought from
    edits,         \* what others changed at Printify or Etsy
    proc,          \* local state of every operator's command
    used           \* commands given so far

vars == <<rec, art, shop, sold, edits, proc, used>>
remote == <<art, shop, sold, edits>>

-----------------------------------------------------------------------------
(* Types *)

Photos(x) == {x} \X Colors
AllPhotos == Artworks \X Colors
Listings == [state: {"active", "inactive"}, gallery: SUBSET AllPhotos,
             links: SUBSET AllPhotos]
Statuses == {"none", "in_progress", "reconciling", "failed", "aborted", "completed"}
Records == [run: {"published", "verification_required"}, upload: Artworks,
            status: Statuses, op: 0..MaxCommands, attempt: 0..MaxCommands,
            new: Artworks, mocks: BOOLEAN, retained: 0..NumColors,
            snap: SUBSET EditKinds, stale: BOOLEAN]
Unstarted == [run |-> "published", upload |-> 0, status |-> "none", op |-> None,
              attempt |-> None, new |-> 0, mocks |-> FALSE, retained |-> None,
              snap |-> {}, stale |-> FALSE]
Steps == {"idle", "preflight", "begin", "upload", "deactivate", "recheck", "print",
          "render", "pregallery", "barrier", "unlink", "delete", "first",
          "handoff", "fill", "relink", "approve", "activate", "confirm", "persist",
          "lease", "inspect", "reactivate", "reverify", "drop", "resume",
          "restore", "restored", "silence", "record"}
Processes == [pc: Steps, kind: {"none", "replace", "reconcile"}, id: 0..MaxCommands,
              op: 0..MaxCommands, attempt: 0..MaxCommands, takeover: 0..MaxCommands,
              upload: Artworks, new: Artworks, mocks: BOOLEAN,
              retained: 0..NumColors, snap: SUBSET EditKinds, fulfil: BOOLEAN,
              deact: BOOLEAN, safe: BOOLEAN, gallery: SUBSET AllPhotos,
              links: SUBSET AllPhotos, todo: SUBSET AllPhotos, polls: 0..(Polls - 1)]
Idle == [pc |-> "idle", kind |-> "none", id |-> None, op |-> None, attempt |-> None,
         takeover |-> None, upload |-> 0, new |-> 0, mocks |-> FALSE,
         retained |-> None, snap |-> {}, fulfil |-> FALSE, deact |-> FALSE,
         safe |-> FALSE, gallery |-> {}, links |-> {}, todo |-> {}, polls |-> 0]

-----------------------------------------------------------------------------
(* What the remote reads compare *)

(* Product identity, copy, variants, lock and the approved Etsy fields.     *)
Identity == "approved" \notin edits

(* The product prints artwork x and is the approved one.                    *)
Prints(x) == art = x /\ Identity

(* verify_etsy_mockups: one linked photo per colour that shows artwork x.   *)
Shows(x) == shop.gallery = Photos(x) /\ shop.links = Photos(x)

(* Nothing differs from the snapshot taken before the first write.          *)
ExactOld(p, state) ==
    Prints(p.upload) /\ edits = p.snap /\ Shows(p.upload) /\ shop.state = state

(* _matching_orders and _matching_etsy_transactions *)
Ordered == sold # {}

Least(photos) == CHOOSE i \in photos : \A j \in photos : i[2] <= j[2]
Last(photos) == CHOOSE i \in photos : \A j \in photos : j[2] <= i[2]

-----------------------------------------------------------------------------
(* Checkpoints and failures *)

(* The checks of _checkpoint. *)
MayCheckpoint(p) ==
    /\ ~ (rec.op # None /\ rec.op # p.op /\ rec.status = "in_progress")
    /\ rec.attempt = None \/ rec.attempt = p.attempt
    /\ ~ (rec.status = "reconciling" /\ p.attempt = None)

Saved(p, status) ==
    [rec EXCEPT !.status = status, !.op = p.op, !.stale = FALSE,
                !.attempt = IF p.attempt # None THEN p.attempt ELSE @,
                !.run = CASE status = "failed"  -> "verification_required"
                          [] status = "aborted" -> "published"
                          [] OTHER              -> @]
Progress(p) == Saved(p, IF p.kind = "replace" THEN "in_progress" ELSE "reconciling")

(* The except clause: where a command goes when any of its steps raised.    *)
Raise(p) ==
    LET q == [p EXCEPT !.todo = {}, !.gallery = {}, !.links = {}, !.polls = 0]
    IN  IF (p.kind = "replace" /\ p.op = None) \/ (p.kind = "reconcile" /\ p.attempt = None)
          THEN Idle
        ELSE IF p.kind = "reconcile" \/ (p.fulfil /\ p.deact)
          THEN [q EXCEPT !.pc = "silence"]
        ELSE IF p.deact THEN [q EXCEPT !.pc = "restore"]
        ELSE [q EXCEPT !.pc = "record", !.safe = TRUE]

At(a, pc) == proc[a].pc = pc
Becomes(a, p) == proc' = [proc EXCEPT ![a] = p]
Goes(p, pc) == [p EXCEPT !.pc = pc]

(* Reads that decide, without a checkpoint. *)
Decide(a, ok, next) ==
    /\ Becomes(a, IF ok THEN next ELSE Raise(proc[a]))
    /\ UNCHANGED <<remote, rec, used>>

(* Reads that decide, then a checkpoint. *)
DecideAndSave(a, ok, saved, next) ==
    /\ IF ok /\ MayCheckpoint(proc[a])
         THEN rec' = saved /\ Becomes(a, next)
         ELSE rec' = rec /\ Becomes(a, Raise(proc[a]))
    /\ UNCHANGED <<remote, used>>

(* A write to the listing: carried out, confirmed and saved; or raising,    *)
(* also in the checkpoint, whether it was carried out or not.               *)
Write(a, listing, saved, next) ==
    /\ \/ /\ saved = rec \/ MayCheckpoint(proc[a])
          /\ shop' = listing /\ rec' = saved /\ Becomes(a, next)
       \/ shop' \in {shop, listing} /\ rec' = rec /\ Becomes(a, Raise(proc[a]))
    /\ UNCHANGED <<art, sold, edits, used>>

(* The same after a checkpoint that announces the write. *)
AnnouncedWrite(a, listing, saved, next) ==
    IF MayCheckpoint(proc[a]) THEN Write(a, listing, saved, next)
                              ELSE Decide(a, FALSE, next)

-----------------------------------------------------------------------------
(* replace_published_artwork *)

(* Reads the context: a published run without an unfinished replacement.    *)
StartReplace(a) ==
    /\ At(a, "idle") /\ used < MaxCommands
    /\ rec.run = "published" /\ rec.status # "in_progress"
    /\ used' = used + 1
    /\ Becomes(a, [Idle EXCEPT !.pc = "preflight", !.kind = "replace",
                               !.id = used + 1, !.upload = rec.upload])
    /\ UNCHANGED <<remote, rec>>

Preflight(a) ==
    /\ At(a, "preflight")
    /\ LET p == proc[a] IN
       Decide(a, ExactOld([p EXCEPT !.snap = edits], "active") /\ ~Ordered,
                 [Goes(p, "begin") EXCEPT !.snap = edits])

(* _initial_checkpoint *)
Begin(a) ==
    /\ At(a, "begin")
    /\ LET p == proc[a] IN
       IF rec.run = "published" /\ rec.upload = p.upload /\ rec.status # "in_progress"
         THEN /\ rec' = [Unstarted EXCEPT !.run = "verification_required",
                            !.upload = rec.upload, !.status = "in_progress",
                            !.op = p.id, !.snap = p.snap]
              /\ Becomes(a, [Goes(p, "upload") EXCEPT !.op = p.id])
         ELSE rec' = rec /\ Becomes(a, Raise(p))
    /\ UNCHANGED <<remote, used>>

(* The upload changes nothing that is visible until its id is saved. *)
Upload(a) ==
    /\ At(a, "upload")
    /\ LET p == proc[a] IN
       DecideAndSave(a, TRUE, [Progress(p) EXCEPT !.new = p.id],
                     [Goes(p, "deactivate") EXCEPT !.new = p.id, !.deact = TRUE])

Deactivate(a) ==
    /\ At(a, "deactivate")
    /\ LET p == proc[a] IN
       Write(a, [shop EXCEPT !.state = "inactive"], Progress(p), Goes(p, "recheck"))

(* Mutant: only the orders seen before the listing was inactive count. *)
RecheckUnordered(a) ==
    /\ At(a, "recheck")
    /\ LET p == proc[a] IN
       Decide(a, ExactOld(p, "inactive"), [Goes(p, "print") EXCEPT !.fulfil = TRUE])

(* Orders, product, listing, inventory, gallery and orders again. *)
Recheck(a) ==
    /\ At(a, "recheck")
    /\ LET p == proc[a] IN
       Decide(a, ExactOld(p, "inactive") /\ ~Ordered,
                 [Goes(p, "print") EXCEPT !.fulfil = TRUE])

(* The first fulfilment mutation.  A refusal that a fresh read proves to    *)
(* have changed nothing takes the mutation flag back.                       *)
PrintAreas(a) ==
    /\ At(a, "print")
    /\ LET p == proc[a] IN
       \/ /\ art' = p.new
          /\ IF MayCheckpoint(p)
               THEN rec' = Progress(p) /\ Becomes(a, Goes(p, "render"))
               ELSE rec' = rec /\ Becomes(a, Raise(p))
       \/ /\ art' \in {art, p.new} /\ rec' = rec
          /\ Becomes(a, Raise(p))
       \/ /\ art' \in {art, p.new} /\ rec' = rec
          /\ art' = p.upload /\ edits = p.snap
          /\ Becomes(a, Raise([p EXCEPT !.fulfil = FALSE]))
    /\ UNCHANGED <<shop, sold, edits, used>>

(* Mutant: one readback more than there are attempts. *)
NotRenderedOnce(a) ==
    /\ At(a, "render")
    /\ LET p == proc[a] IN
       DecideAndSave(a, p.polls + 1 <= Polls, Progress(p),
                     [p EXCEPT !.polls = @ + 1])

(* _wait_for_replacement_mockups: every readback starts with a checkpoint.  *)
NotRendered(a) ==
    /\ At(a, "render")
    /\ LET p == proc[a] IN
       DecideAndSave(a, p.polls + 1 < Polls, Progress(p),
                     [p EXCEPT !.polls = @ + 1])

Rendered(a) ==
    /\ At(a, "render")
    /\ LET p == proc[a] IN
       DecideAndSave(a, Prints(p.new), [Progress(p) EXCEPT !.mocks = TRUE],
                     [Goes(p, "pregallery") EXCEPT !.mocks = TRUE, !.polls = 0])

PreGallery(a) ==
    /\ At(a, "pregallery")
    /\ LET p == proc[a] IN
       Decide(a, /\ ~Ordered /\ Prints(p.new) /\ edits = p.snap
                 /\ shop.state = "inactive" /\ Shows(p.upload),
              [Goes(p, "barrier") EXCEPT !.gallery = shop.gallery, !.links = shop.links])

-----------------------------------------------------------------------------
(* _replace_etsy_gallery, used by both commands *)

Barrier(a) ==
    /\ At(a, "barrier")
    /\ LET p == proc[a] IN
       Decide(a, /\ Identity /\ edits = p.snap /\ shop.state = "inactive"
                 /\ shop.gallery = p.gallery /\ shop.links = p.links
                 /\ p.gallery # {},
              [Goes(p, "unlink") EXCEPT !.links = {}])

Unlink(a) ==
    /\ At(a, "unlink")
    /\ LET p == proc[a] IN
       Write(a, [shop EXCEPT !.links = {}], Progress(p),
             [Goes(p, "delete") EXCEPT !.todo = p.gallery \ {Last(p.gallery)}])

DeletePhoto(a) ==
    /\ At(a, "delete") /\ proc[a].todo # {}
    /\ LET p == proc[a]
           i == Least(p.todo)
       IN  AnnouncedWrite(a, [shop EXCEPT !.gallery = @ \ {i}], Progress(p),
                          [p EXCEPT !.todo = @ \ {i}])

(* Mutant: all old photos are deleted before the first new one. *)
KeepNone(a) ==
    /\ At(a, "delete") /\ proc[a].todo = {}
    /\ LET p == proc[a] IN
       AnnouncedWrite(a, [shop EXCEPT !.gallery = {}],
                      [Progress(p) EXCEPT !.retained = Last(p.gallery)[2]], Goes(p, "first"))

(* One old photo is kept until the first new one is there. *)
KeepLast(a) ==
    /\ At(a, "delete") /\ proc[a].todo = {}
    /\ LET p == proc[a] IN
       DecideAndSave(a, TRUE, [Progress(p) EXCEPT !.retained = Last(p.gallery)[2]],
                     Goes(p, "first"))

UploadFirst(a) ==
    /\ At(a, "first")
    /\ LET p == proc[a]
           i == Least(Photos(p.new))
       IN  AnnouncedWrite(a, [shop EXCEPT !.gallery = @ \cup {i}], Progress(p),
                          [Goes(p, "handoff") EXCEPT !.todo = Photos(p.new) \ {i}])

HandOff(a) ==
    /\ At(a, "handoff")
    /\ LET p == proc[a]
           left == shop.gallery \ {Last(p.gallery)}
       IN  AnnouncedWrite(a, [shop EXCEPT !.gallery = left],
                          [Progress(p) EXCEPT !.retained = None],
                          IF left = {Least(Photos(p.new))}
                            THEN [Goes(p, "fill") EXCEPT !.gallery = {}] ELSE Raise(p))

FillGallery(a) ==
    /\ At(a, "fill") /\ proc[a].todo # {}
    /\ LET p == proc[a]
           i == Least(p.todo)
       IN  AnnouncedWrite(a, [shop EXCEPT !.gallery = @ \cup {i}], Progress(p),
                          [p EXCEPT !.todo = @ \ {i}])

GalleryFilled(a) ==
    /\ At(a, "fill") /\ proc[a].todo = {}
    /\ Decide(a, shop.gallery = Photos(proc[a].new), Goes(proc[a], "relink"))

Relink(a) ==
    /\ At(a, "relink")
    /\ LET p == proc[a]
       IN  Write(a, [shop EXCEPT !.links = Photos(p.new)], Progress(p),
                 Goes(p, "approve"))

-----------------------------------------------------------------------------
(* The end of both commands *)

(* The inactive storefront is verified and saved, then orders are counted.  *)
Approve(a) ==
    /\ At(a, "approve")
    /\ LET p == proc[a] IN
       DecideAndSave(a, Shows(p.new), Progress(p),
                     IF Ordered THEN Raise(p) ELSE Goes(p, "activate"))

Activate(a) ==
    /\ At(a, "activate")
    /\ Write(a, [shop EXCEPT !.state = "active"], rec, Goes(proc[a], "confirm"))

Confirm(a) ==
    /\ At(a, "confirm")
    /\ LET p == proc[a] IN
       DecideAndSave(a, shop.state = "active" /\ Shows(p.new) /\ Prints(p.new),
                     Progress(p), Goes(p, "persist"))

Owns(p) ==
    /\ rec.op = p.op
    /\ IF p.kind = "replace" THEN rec.status = "in_progress" /\ rec.attempt = None
                             ELSE rec.status = "reconciling" /\ rec.attempt = p.attempt

(* _persist_success *)
Persist(a) ==
    /\ At(a, "persist")
    /\ LET p == proc[a] IN
       IF Owns(p)
         THEN /\ rec' = [rec EXCEPT !.status = "completed", !.run = "published",
                                    !.upload = p.new, !.new = p.new, !.stale = FALSE]
              /\ Becomes(a, Idle)
         ELSE rec' = rec /\ Becomes(a, Raise(p))
    /\ UNCHANGED <<remote, used>>

-----------------------------------------------------------------------------
(* The except clauses *)

(* Nothing was changed at Printify: prove it, then activate again. *)
Restore(a) ==
    /\ At(a, "restore")
    /\ LET p == proc[a] IN
       IF ExactOld(p, "inactive")
         THEN \/ /\ shop' = [shop EXCEPT !.state = "active"]
                 /\ Becomes(a, Goes(p, "restored"))
                 /\ UNCHANGED <<art, sold, edits, rec, used>>
              \/ /\ shop' \in {shop, [shop EXCEPT !.state = "active"]}
                 /\ Becomes(a, Goes(p, "silence"))
                 /\ UNCHANGED <<art, sold, edits, rec, used>>
         ELSE /\ Becomes(a, Goes(p, "silence"))
              /\ UNCHANGED <<remote, rec, used>>

Restored(a) ==
    /\ At(a, "restored")
    /\ LET p == proc[a] IN
       \/ ExactOld(p, "active") /\ Becomes(a, [Goes(p, "record") EXCEPT !.safe = TRUE])
       \/ Becomes(a, Goes(p, "silence"))
    /\ UNCHANGED <<remote, rec, used>>

(* The safety deactivation; its own failure is only noted. *)
Silence(a) ==
    /\ At(a, "silence")
    /\ shop' \in {shop, [shop EXCEPT !.state = "inactive"]}
    /\ Becomes(a, Goes(proc[a], "record"))
    /\ UNCHANGED <<art, sold, edits, rec, used>>

Outcome(p) == IF p.kind = "reconcile" \/ p.fulfil \/ ~p.safe THEN "failed" ELSE "aborted"

(* The outcome is recorded unless another command owns the checkpoint. *)
RecordOutcome(a) ==
    /\ At(a, "record")
    /\ rec' = IF MayCheckpoint(proc[a]) THEN Saved(proc[a], Outcome(proc[a])) ELSE rec
    /\ Becomes(a, Idle)
    /\ UNCHANGED <<remote, used>>

-----------------------------------------------------------------------------
(* reconcile_published_artwork *)

(* _failed_replacement_context *)
StartReconcile(a) ==
    /\ At(a, "idle") /\ used < MaxCommands
    /\ rec.run = "verification_required"
    /\ \/ rec.status = "failed"
       \/ rec.status \in {"reconciling", "in_progress"} /\ rec.stale
    /\ used' = used + 1
    /\ Becomes(a, [Idle EXCEPT !.pc = "lease", !.kind = "reconcile", !.id = used + 1,
                      !.op = rec.op, !.upload = rec.upload, !.new = rec.new,
                      !.mocks = rec.mocks, !.retained = rec.retained, !.snap = rec.snap,
                      !.takeover = CASE rec.status = "reconciling" -> rec.attempt
                                     [] rec.status = "in_progress" -> rec.op
                                     [] OTHER                      -> None])
    /\ UNCHANGED <<remote, rec>>

(* Mutant: whoever read a failed checkpoint may take it. *)
LeasableByAnyone(p) == rec.op = p.op /\ rec.status \in {"failed", "reconciling"}

Leasable(p) ==
    /\ rec.run = "verification_required" /\ rec.op = p.op
    /\ \/ rec.status = "failed" /\ p.takeover = None
       \/ /\ rec.status = "reconciling" /\ rec.stale
          /\ p.takeover # None /\ rec.attempt = p.takeover
       \/ /\ rec.status = "in_progress" /\ rec.stale
          /\ p.takeover # None /\ rec.op = p.takeover

(* _acquire_reconciliation_lease *)
Lease(a) ==
    /\ At(a, "lease")
    /\ LET p == proc[a] IN
       IF Leasable(p)
         THEN /\ rec' = [rec EXCEPT !.status = "reconciling", !.attempt = p.id,
                                    !.stale = FALSE]
              /\ Becomes(a, [Goes(p, "inspect") EXCEPT !.attempt = p.id])
         ELSE rec' = rec /\ Becomes(a, Raise(p))
    /\ UNCHANGED <<remote, used>>

(* _inspect_failed_replacement: one of the two states that can be finished. *)
Untouched(p) == ExactOld(p, shop.state) /\ ~Ordered
SentinelOnly(p) == p.retained # None /\ shop.gallery = {<<p.upload, p.retained>>}
                                     /\ shop.links = {}
Resumable(p) ==
    /\ p.new # 0 /\ p.mocks /\ Prints(p.new) /\ edits = p.snap
    /\ ~Ordered /\ shop.state = "inactive"
    /\ Shows(p.upload) \/ SentinelOnly(p)

Inspect(a) ==
    /\ At(a, "inspect")
    /\ LET p == proc[a] IN
       Decide(a, Untouched(p) \/ Resumable(p),
              IF Untouched(p) THEN Goes(p, "reactivate")
              ELSE [Goes(p, "resume") EXCEPT !.gallery = shop.gallery,
                                             !.links = shop.links])

Reactivate(a) ==
    /\ At(a, "reactivate")
    /\ Write(a, [shop EXCEPT !.state = "active"], rec, Goes(proc[a], "reverify"))

Reverify(a) ==
    /\ At(a, "reverify")
    /\ LET p == proc[a] IN
       Decide(a, ExactOld(p, "active") /\ ~Ordered, Goes(p, "drop"))

(* _persist_reconciled_abort *)
Drop(a) ==
    /\ At(a, "drop")
    /\ LET p == proc[a] IN
       IF Owns(p)
         THEN /\ rec' = [rec EXCEPT !.status = "aborted", !.run = "published",
                                    !.stale = FALSE]
              /\ Becomes(a, Idle)
         ELSE rec' = rec /\ Becomes(a, Raise(p))
    /\ UNCHANGED <<remote, used>>

Resume(a) ==
    /\ At(a, "resume")
    /\ LET p == proc[a]
           ready == ~Ordered /\ Prints(p.new) /\ edits = p.snap /\ shop.state = "inactive"
       IN  DecideAndSave(a, TRUE, Progress(p),
                         IF ready THEN Goes(p, "barrier") ELSE Raise(p))

-----------------------------------------------------------------------------
(* Remote failures, crashes, time, buyers and other people *)

Reading == Steps \ {"idle", "begin", "persist", "lease", "drop", "silence", "record",
                    "restore", "restored"}

(* A remote read, a download or the upload raises. *)
RemoteFails(a) ==
    /\ proc[a].pc \in Reading
    /\ Decide(a, FALSE, proc[a])

Crash(a) ==
    /\ ~At(a, "idle")
    /\ Becomes(a, Idle)
    /\ UNCHANGED <<remote, rec, used>>

Holder(a) == proc[a].op # None /\ proc[a].op = rec.op /\ proc[a].attempt = rec.attempt

(* Thirty minutes pass without a checkpoint. *)
LeaseExpires ==
    /\ rec.status \in {"in_progress", "reconciling"} /\ ~rec.stale
    /\ Overdue \/ \A a \in Operators : ~Holder(a)
    /\ rec' = [rec EXCEPT !.stale = TRUE]
    /\ UNCHANGED <<remote, proc, used>>

Sale ==
    /\ shop.state = "active"
    /\ \E i \in shop.gallery : sold' = sold \cup {i[1]}
    /\ UNCHANGED <<rec, art, shop, edits, proc, used>>

OtherEdit(kind) ==
    /\ kind \notin edits
    /\ edits' = edits \cup {kind}
    /\ UNCHANGED <<rec, art, shop, sold, proc, used>>

-----------------------------------------------------------------------------
(* Specification *)

Init ==
    /\ rec = Unstarted
    /\ art = 0
    /\ shop = [state |-> "active", gallery |-> Photos(0), links |-> Photos(0)]
    /\ sold = {}
    /\ edits = {}
    /\ proc = [a \in Operators |-> Idle]
    /\ used = 0

Replacing(a) ==
    \/ StartReplace(a) \/ Preflight(a) \/ Begin(a) \/ Upload(a) \/ Deactivate(a)
    \/ Recheck(a) \/ PrintAreas(a) \/ NotRendered(a) \/ Rendered(a) \/ PreGallery(a)

Photographing(a) ==
    \/ Barrier(a) \/ Unlink(a) \/ DeletePhoto(a) \/ KeepLast(a) \/ UploadFirst(a)
    \/ HandOff(a) \/ FillGallery(a) \/ GalleryFilled(a) \/ Relink(a)

Finishing(a) ==
    \/ Approve(a) \/ Activate(a) \/ Confirm(a) \/ Persist(a)
    \/ Restore(a) \/ Restored(a) \/ Silence(a) \/ RecordOutcome(a)

Reconciling(a) ==
    \/ StartReconcile(a) \/ Lease(a) \/ Inspect(a) \/ Reactivate(a) \/ Reverify(a)
    \/ Drop(a) \/ Resume(a)

Next ==
    \/ \E a \in Operators :
         \/ Replacing(a) \/ Photographing(a) \/ Finishing(a) \/ Reconciling(a)
         \/ RemoteFails(a) \/ Crash(a)
    \/ LeaseExpires
    \/ Sale
    \/ \E kind \in EditKinds : OtherEdit(kind)

Spec == Init /\ [][Next]_vars

-----------------------------------------------------------------------------
(* Properties *)

(* Every variable keeps its type. *)
TypeOK ==
    /\ rec \in Records
    /\ art \in Artworks
    /\ shop \in Listings
    /\ sold \subseteq Artworks
    /\ edits \subseteq EditKinds
    /\ proc \in [Operators -> Processes]
    /\ used \in 0..MaxCommands

(* Nobody receives another artwork than the photo they bought from showed:  *)
(* the print areas change only after the listing is inactive and no order   *)
(* is there, and never again after a sale.                                  *)
SoldAsPrinted == sold \subseteq {art}

(* A run that the database calls published has an active listing whose      *)
(* photos and product show the recorded artwork, wherever commands stopped. *)
PublishedIsLive ==
    rec.run = "published" =>
        /\ shop.state = "active"
        /\ art = rec.upload
        /\ Shows(rec.upload)

(* A photo of the published artwork is deleted only while the listing is    *)
(* inactive, the product prints the new artwork, and the new photos are     *)
(* retained; and the gallery never becomes empty.                           *)
PhotosAreReplaceable ==
    [][/\ \A i \in shop.gallery \ shop'.gallery :
            i[1] = rec.upload => shop.state = "inactive" /\ rec.mocks /\ art # rec.upload
       /\ shop'.gallery # {}]_vars

(* A completed replacement is succeeded only by a new one, never reopened   *)
(* by a checkpoint of a command that lost its lease.  README.md:251 says    *)
(* that a new lease fences further database checkpoints from the old one.   *)
LeaseFences ==
    [][rec.status = "completed" => rec'.status = "in_progress" /\ rec'.new = 0]_rec
=============================================================================
