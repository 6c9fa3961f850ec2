---- MODULE CopyRefresh ----
(***************************************************************************)
(* The refresh of the text of live listings (copy_refresh.py and the       *)
(* copy-refresh endpoints of web.py): a preparation stages new texts for   *)
(* the published listings, an operator edits and approves exactly what     *)
(* they saw, and workers write the approved texts to Printify and Etsy,    *)
(* item by item, from whatever an interrupted attempt left.                *)
(*                                                                         *)
(* A text stands for title, description and tags together.  The rest of a  *)
(* listing (identity, link, variants, prices, photos) is its "shape".      *)
(***************************************************************************)
EXTENDS Naturals, FiniteSets, FiniteSetsExt

CONSTANTS
    Runs,           \* published runs, each with one Printify product and one Etsy listing
    Edited,         \* the runs whose texts the operator and others edit
    Texts,          \* what the model or an operator may write
    Preparers,      \* preparations: CopyRefreshPrepareWorkflow or the command
    Appliers,       \* CopyRefreshApplyWorkflows
    Patient,        \* the operator prepares and retries only when no process is at work
    MaxBatches,     \* bound on batches
    MaxItems,       \* bound on the items of all batches together
    MaxVersion,     \* bound on a batch's version
    MaxTries,       \* attempts of an activity (ACTIVITY_RETRY)
    MaxFaults,      \* bound on refused requests, lost answers and crashes
    MaxEdits        \* bound on what others change in a shop

ASSUME ConstantsAssumption ==
    /\ IsFiniteSet(Runs) /\ Runs # {}
    /\ Edited \subseteq Runs
    /\ {"old", "foreign", "none"} \cap Texts = {}
    /\ Patient \in BOOLEAN
    /\ {MaxBatches, MaxItems, MaxVersion, MaxTries} \subseteq Nat \ {0}
    /\ {MaxFaults, MaxEdits} \subseteq Nat

VARIABLES
    batch,          \* CopyRefreshBatchRecord of each batch, in the order of created_at
    item,           \* CopyRefreshItemRecord of each batch and run
    live,           \* what Printify and Etsy show
    prep,           \* the preparations
    apply,          \* the apply workflows
    page,           \* what the operator's copy-refresh page shows
    approved,       \* the texts on the page that was approved, per batch (history)
    kept,           \* texts of others that no attempt could have missed (history)
    faults, edits   \* what has gone wrong and what others have changed so far

vars == <<batch, item, live, prep, apply, page, approved, kept, faults, edits>>

Batches == 1..MaxBatches
Sides == {"printify", "etsy"}
Copy == Texts \cup {"old", "foreign"}
NoTexts == [r \in Runs |-> "none"]

\* The records of a batch, an item and of both shops.
BatchRecords == [status : {"absent", "preparing", "pending_review", "applying", "verification_required", "applied"},
                 version : 1..MaxVersion, targets : SUBSET Runs,
                 digest : [Runs -> Texts \cup {"none"}], approved : BOOLEAN]
ItemRecords == [status : {"preparing", "pending_review", "applying", "verification_required", "applied"},
                before : [Sides -> Copy \cup {"none"}], after : Texts \cup {"none"},
                baseline : {"none", "as_published", "changed"}, draft : Texts \cup {"none"}]
Listings == [copy : [Sides -> Copy], shape : {"as_published", "changed", "gone"}]

NewItem == [status |-> "preparing", before |-> [s \in Sides |-> "none"], after |-> "none",
            baseline |-> "none", draft |-> "none"]

Closed == [batch |-> 0, version |-> 1, digest |-> NoTexts, texts |-> NoTexts]

\* An idle process; todo holds the runs whose items its loop has not finished.
Idle == [at |-> "idle", batch |-> 0, todo |-> {}, run |-> "none", source |-> NewItem,
         seen |-> [copy |-> [s \in Sides |-> "none"], shape |-> "none"], tries |-> 0]

\* Every record, workflow and process is in a state the code can name.
TypeOK ==
    /\ batch \in [Batches -> BatchRecords]
    /\ item \in [Batches -> [Runs -> ItemRecords]]
    /\ live \in [Runs -> Listings]
    /\ \A p \in Preparers : /\ prep[p].at \in {"idle", "choose", "load", "loop", "draft", "save", "again"}
                            /\ prep[p].tries \in 0..MaxTries
    /\ \A a \in Appliers : /\ apply[a].at \in {"idle", "begin", "loop", "look", "printify", "confirm_printify",
                                               "etsy", "confirm_etsy", "verify", "commit", "again"}
                           /\ apply[a].tries \in 0..MaxTries
    /\ page.batch \in 0..MaxBatches
    /\ approved \in [Batches -> [Runs -> Texts \cup {"none"}]]
    /\ kept \subseteq Runs \X Sides
    /\ faults \in 0..MaxFaults /\ edits \in 0..MaxEdits

Init ==
    /\ batch = [b \in Batches |-> [status |-> "absent", version |-> 1, targets |-> {},
                                   digest |-> NoTexts, approved |-> FALSE]]
    /\ item = [b \in Batches |-> [r \in Runs |-> NewItem]]
    /\ live = [r \in Runs |-> [copy |-> [s \in Sides |-> "old"], shape |-> "as_published"]]
    /\ prep = [p \in Preparers |-> Idle]
    /\ apply = [a \in Appliers |-> Idle]
    /\ page = Closed
    /\ approved = [b \in Batches |-> NoTexts]
    /\ kept = {}
    /\ faults = 0
    /\ edits = 0

Unfinished == {"preparing", "pending_review", "applying", "verification_required"}

\* The digest binds the proposed text of every item of the batch.
Digest(items, targets) == [r \in Runs |-> IF r \in targets THEN items[r].after ELSE "none"]

\* --- Preparation ---------------------------------------------------------

Working == {p \in Preparers : prep[p].at # "idle"} \cup {a \in Appliers : apply[a].at # "idle"}

Items == Cardinality({e \in Batches \X Runs : e[2] \in batch[e[1]].targets})

\* The batch a preparation of these runs joins: the last unfinished one, of any run or of the one asked for.
Active(scope) == {b \in Batches : /\ batch[b].status \in Unfinished
                                  /\ scope # Runs => scope \subseteq batch[b].targets}

\* The console's workflow prepares every published run and is tried again; the command, of one run, is not.
Prepare(p) ==
    /\ prep[p].at = "idle"
    /\ Patient => Working = {}
    /\ \E scope \in {Runs} \cup {{r} : r \in Runs} :
         prep' = [prep EXCEPT ![p] = [Idle EXCEPT !.at = "choose", !.todo = scope,
                                        !.tries = IF scope = Runs THEN 1 ELSE MaxTries]]
    /\ UNCHANGED <<batch, item, live, apply, page, approved, kept, faults, edits>>

Choose(p) ==
    /\ prep[p].at = "choose"
    /\ LET active == Active(prep[p].todo)
           b == IF active # {} THEN Max(active)
                ELSE Min({c \in Batches : batch[c].status = "absent"} \cup {MaxBatches + 1})
       IN /\ b \in Batches
          /\ active = {} => Items + Cardinality(prep[p].todo) <= MaxItems
          /\ batch' = IF active # {} THEN batch
                      ELSE [batch EXCEPT ![b].status = "preparing", ![b].targets = prep[p].todo]
          /\ prep' = [prep EXCEPT ![p] = [@ EXCEPT !.at = "load", !.batch = b]]
    /\ UNCHANGED <<item, live, apply, page, approved, kept, faults, edits>>

\* The loop works through the items as they were when the batch was loaded.
Load(p) ==
    /\ prep[p].at = "load"
    /\ LET b == prep[p].batch IN
         prep' = [prep EXCEPT ![p] = IF batch[b].status # "preparing" THEN Idle
                   ELSE [@ EXCEPT !.at = "loop",
                           !.todo = {r \in batch[b].targets : item[b][r].status # "pending_review"}]]
    /\ UNCHANGED <<batch, item, live, apply, page, approved, kept, faults, edits>>

\* Reads the item and both shops; a listing that is inactive or not linked raises.
Inspect(p) ==
    /\ prep[p].at = "loop"
    /\ \E r \in prep[p].todo :
         /\ live[r].shape # "gone"
         /\ prep' = [prep EXCEPT ![p] = [@ EXCEPT !.at = "draft", !.run = r, !.seen = live[r],
                                           !.source = item[prep[p].batch][r]]]
    /\ UNCHANGED <<batch, item, live, apply, page, approved, kept, faults, edits>>

\* Uses the text an interrupted attempt saved, or asks the model and saves its answer.
Draft(p) ==
    /\ prep[p].at = "draft"
    /\ LET b == prep[p].batch  r == prep[p].run  saved == prep[p].source.draft IN
         \E t \in IF saved # "none" THEN {saved} ELSE {u \in Texts : u # live[r].copy["etsy"]} :
            /\ prep' = [prep EXCEPT ![p] = [@ EXCEPT !.at = "save", !.source.draft = t]]
            /\ item' = [item EXCEPT ![b][r].draft = t]
    /\ UNCHANGED <<batch, live, apply, page, approved, kept, faults, edits>>

Save(p) ==
    /\ prep[p].at = "save"
    /\ LET b == prep[p].batch  r == prep[p].run IN
         /\ item' = [item EXCEPT ![b][r] = [@ EXCEPT
                        !.before = prep[p].seen.copy, !.after = prep[p].source.draft,
                        !.baseline = prep[p].seen.shape, !.status = "pending_review"]]
         /\ kept' = {k \in kept : k[1] # r \/ prep[p].seen.copy[k[2]] # "foreign"}
         /\ prep' = [prep EXCEPT ![p] = [Idle EXCEPT !.at = "loop", !.batch = b, !.todo = prep[p].todo \ {r},
                                           !.tries = prep[p].tries]]
    /\ UNCHANGED <<batch, live, apply, page, approved, faults, edits>>

Complete(p) ==
    /\ prep[p].at = "loop" /\ prep[p].todo = {}
    /\ LET b == prep[p].batch IN
         IF \A r \in batch[b].targets : item[b][r].status = "pending_review"
         THEN /\ batch' = [batch EXCEPT ![b] = [@ EXCEPT !.digest = Digest(item[b], batch[b].targets),
                                                         !.status = "pending_review"]]
              /\ prep' = [prep EXCEPT ![p] = Idle]
         ELSE /\ batch' = batch
              /\ prep' = [prep EXCEPT ![p] = IF @.tries < MaxTries THEN [@ EXCEPT !.at = "again"] ELSE Idle]
    /\ UNCHANGED <<item, live, apply, page, approved, kept, faults, edits>>

\* A refused request, a listing that is gone or a rejected draft raises; a crash ends the attempt too.
PrepareFails(p) ==
    /\ prep[p].at \in {"choose", "load", "loop", "draft", "save"}
    /\ IF prep[p].at = "loop" /\ \E r \in prep[p].todo : live[r].shape = "gone"
       THEN faults' = faults
       ELSE faults < MaxFaults /\ faults' = faults + 1
    /\ prep' = [prep EXCEPT ![p] = IF @.tries < MaxTries THEN [@ EXCEPT !.at = "again"] ELSE Idle]
    /\ UNCHANGED <<batch, item, live, apply, page, approved, kept, edits>>

PrepareAgainForever(p) ==
    /\ prep[p].at = "again"
    /\ prep' = [prep EXCEPT ![p] = [Idle EXCEPT !.at = "choose", !.todo = Runs, !.tries = MaxTries + 1]]
    /\ UNCHANGED <<batch, item, live, apply, page, approved, kept, faults, edits>>
\* The next attempt of the activity looks for the batch from the start.
PrepareAgain(p) ==
    /\ prep[p].at = "again"
    /\ prep' = [prep EXCEPT ![p] = [Idle EXCEPT !.at = "choose", !.todo = Runs, !.tries = prep[p].tries + 1]]
    /\ UNCHANGED <<batch, item, live, apply, page, approved, kept, faults, edits>>

\* --- Review --------------------------------------------------------------

\* The operator opens a batch.
Review ==
    \E b \in Batches :
      /\ batch[b].status = "pending_review"
      /\ page' = [batch |-> b, version |-> batch[b].version, digest |-> batch[b].digest,
                  texts |-> Digest(item[b], batch[b].targets)]
      /\ UNCHANGED <<batch, item, live, prep, apply, approved, kept, faults, edits>>

\* An edit that names the version the operator saw; another tab keeps the old page.
Edit ==
    /\ page.batch # 0
    /\ LET b == page.batch IN
         /\ batch[b].status = "pending_review" /\ batch[b].version = page.version
         /\ batch[b].version < MaxVersion
         /\ \E r \in batch[b].targets \cap Edited, t \in Texts :
              /\ item[b][r].after \notin {"none", t}
              /\ item' = [item EXCEPT ![b][r].after = t]
              /\ batch' = [batch EXCEPT ![b] = [@ EXCEPT !.version = batch[b].version + 1,
                                                         !.digest = Digest(item'[b], batch[b].targets)]]
    /\ UNCHANGED <<live, prep, apply, page, approved, kept, faults, edits>>

\* The request names the version and the digest the operator saw.
MatchesStatus(b) == batch[b].status = "pending_review"
Matches(b) == batch[b].version = page.version /\ batch[b].digest = page.digest
Free == {a \in Appliers : apply[a].at = "idle"}
Started(a, b) == [Idle EXCEPT !.at = "begin", !.batch = b, !.tries = 1]

\* The approval commits; then the endpoint starts a workflow, or dies before it does.
Launch(b) ==
    \/ \E a \in Free : apply' = [apply EXCEPT ![a] = Started(a, b)] /\ faults' = faults
    \/ faults < MaxFaults /\ faults' = faults + 1 /\ apply' = apply

Approve ==
    /\ page.batch # 0
    /\ LET b == page.batch IN
         /\ batch[b].status = "pending_review"
         /\ Matches(b)
         /\ \A r \in batch[b].targets : item[b][r].status = "pending_review" /\ item[b][r].after # "none"
         /\ batch' = [batch EXCEPT ![b] = [@ EXCEPT !.status = "applying", !.approved = TRUE]]
         /\ item' = [item EXCEPT ![b] = [r \in Runs |-> IF r \in batch[b].targets
                                          THEN [item[b][r] EXCEPT !.status = "applying"] ELSE item[b][r]]]
         /\ approved' = [approved EXCEPT ![b] = page.texts]
         /\ page' = Closed
         /\ Launch(b)
    /\ UNCHANGED <<live, prep, kept, edits>>

Retry ==
    \E b \in Batches :
      /\ Patient => Working = {}
      /\ batch[b].status \in {"verification_required", "applying"} /\ batch[b].approved
      /\ batch' = [batch EXCEPT ![b].status = "applying"]
      /\ item' = [item EXCEPT ![b] = [r \in Runs |-> IF item[b][r].status = "verification_required"
                                       THEN [item[b][r] EXCEPT !.status = "applying"] ELSE item[b][r]]]
      /\ Launch(b)
      /\ UNCHANGED <<live, prep, page, approved, kept, edits>>

\* --- Application ---------------------------------------------------------

\* A batch that is not approved for application raises a ValueError, which is not retried.
Begin(a) ==
    /\ apply[a].at = "begin"
    /\ LET b == apply[a].batch IN
         apply' = [apply EXCEPT ![a] =
                     IF batch[b].status # "applying" \/ ~batch[b].approved THEN Idle
                     ELSE [@ EXCEPT !.at = "loop",
                             !.todo = {r \in batch[b].targets : item[b][r].status # "applied"}]]
    /\ UNCHANGED <<batch, item, live, prep, page, approved, kept, faults, edits>>

Take(a) ==
    /\ apply[a].at = "loop"
    /\ \E r \in apply[a].todo :
         apply' = [apply EXCEPT ![a] = [@ EXCEPT !.at = "look", !.run = r, !.source = item[apply[a].batch][r]]]
    /\ UNCHANGED <<batch, item, live, prep, page, approved, kept, faults, edits>>

\* The exception handler of the loop marks the item and goes on with the next one.
ItemFails(a) ==
    /\ item' = [item EXCEPT ![apply[a].batch][apply[a].run].status = "verification_required"]
    /\ apply' = [apply EXCEPT ![a] = [Idle EXCEPT !.at = "loop", !.batch = apply[a].batch, !.tries = apply[a].tries,
                                        !.todo = apply[a].todo \ {apply[a].run}]]

\* Nothing but the text may have changed since the preparation, and the text only to the new one.
UntouchedShape(r, source) == live[r].shape = source.baseline
Untouched(r, source) ==
    /\ live[r].shape = source.baseline
    /\ \A s \in Sides : live[r].copy[s] \in {source.before[s], source.after}

Look(a) ==
    /\ apply[a].at = "look"
    /\ LET r == apply[a].run IN
         IF Untouched(r, apply[a].source)
         THEN /\ apply' = [apply EXCEPT ![a] = [@ EXCEPT !.at = "printify", !.seen = live[r]]]
              /\ item' = item
         ELSE ItemFails(a)
    /\ UNCHANGED <<batch, live, prep, page, approved, kept, faults, edits>>

\* Writes a side that does not show the text yet.
Update(a, s, next) ==
    /\ apply[a].at = s
    /\ LET r == apply[a].run  t == apply[a].source.after IN
         /\ live' = IF apply[a].seen.copy[s] = t THEN live ELSE [live EXCEPT ![r].copy[s] = t]
         /\ apply' = [apply EXCEPT ![a] = [@ EXCEPT !.at = next]]
    /\ UNCHANGED <<batch, item, prep, page, approved, kept, faults, edits>>

\* Reads a side it has written back before it goes on; a side it did not write was read by Look.
Confirm(a, s, at, next) ==
    /\ apply[a].at = at
    /\ LET r == apply[a].run  t == apply[a].source.after IN
         IF apply[a].seen.copy[s] = t \/ live[r].copy[s] = t
         THEN apply' = [apply EXCEPT ![a] = [@ EXCEPT !.at = next]] /\ item' = item
         ELSE ItemFails(a)
    /\ UNCHANGED <<batch, live, prep, page, approved, kept, faults, edits>>

UpdatePrintify(a) == Update(a, "printify", "confirm_printify")
ConfirmPrintify(a) == Confirm(a, "printify", "confirm_printify", "etsy")
UpdateEtsy(a) == Update(a, "etsy", "confirm_etsy")
ConfirmEtsy(a) == Confirm(a, "etsy", "confirm_etsy", "verify")

\* The final readback of both shops.
Shown(r, source) ==
    /\ live[r].shape = source.baseline
    /\ \A s \in Sides : live[r].copy[s] = source.after

ReadBack(a) ==
    /\ apply[a].at = "verify"
    /\ IF Shown(apply[a].run, apply[a].source)
       THEN apply' = [apply EXCEPT ![a] = [@ EXCEPT !.at = "commit"]] /\ item' = item
       ELSE ItemFails(a)
    /\ UNCHANGED <<batch, live, prep, page, approved, kept, faults, edits>>

Commit(a) ==
    /\ apply[a].at = "commit"
    /\ item' = [item EXCEPT ![apply[a].batch][apply[a].run].status = "applied"]
    /\ apply' = [apply EXCEPT ![a] = [Idle EXCEPT !.at = "loop", !.batch = apply[a].batch, !.tries = apply[a].tries,
                                        !.todo = apply[a].todo \ {apply[a].run}]]
    /\ UNCHANGED <<batch, live, prep, page, approved, kept, faults, edits>>

OutcomeAlways(b) == "applied"
Outcome(b) == IF \A r \in batch[b].targets : item[b][r].status = "applied" THEN "applied" ELSE "verification_required"

Conclude(a) ==
    /\ apply[a].at = "loop" /\ apply[a].todo = {}
    /\ LET b == apply[a].batch IN batch' = [batch EXCEPT ![b].status = Outcome(b)]
    /\ apply' = [apply EXCEPT ![a] = Idle]
    /\ UNCHANGED <<item, live, prep, page, approved, kept, faults, edits>>

\* A request of _apply_item is refused, or its answer is lost after it was carried out.
RequestFails(a) ==
    /\ apply[a].at \in {"look", "printify", "confirm_printify", "etsy", "confirm_etsy", "verify"}
    /\ faults < MaxFaults /\ faults' = faults + 1
    /\ ItemFails(a)
    /\ UNCHANGED <<batch, live, prep, page, approved, kept, edits>>

\* The attempt dies anywhere, or exceeds its timeout and is cancelled.
ApplyDies(a) ==
    /\ apply[a].at \notin {"idle", "again"}
    /\ faults < MaxFaults /\ faults' = faults + 1
    /\ apply' = [apply EXCEPT ![a] = IF @.tries < MaxTries
                  THEN [Idle EXCEPT !.at = "again", !.batch = apply[a].batch, !.tries = apply[a].tries] ELSE Idle]
    /\ UNCHANGED <<batch, item, live, prep, page, approved, kept, edits>>

ApplyAgain(a) ==
    /\ apply[a].at = "again"
    /\ apply' = [apply EXCEPT ![a] = [@ EXCEPT !.at = "begin", !.tries = apply[a].tries + 1]]
    /\ UNCHANGED <<batch, item, live, prep, page, approved, kept, faults, edits>>

\* A preparation of an unfinished batch has read a text of others there; it is the one that was read.
Known(r, s) == \E b \in Batches : /\ batch[b].status \in Unfinished /\ r \in batch[b].targets
                                 /\ item[b][r].before[s] = "foreign"

\* Somebody edits a text or changes the listing in one of the shops.
OtherEdit ==
    /\ edits < MaxEdits /\ edits' = edits + 1
    /\ \E r \in Edited :
         \/ \E s \in Sides :
              /\ live[r].copy[s] # "foreign"
              /\ live' = [live EXCEPT ![r].copy[s] = "foreign"]
              /\ kept' = IF Known(r, s) \/ \E a \in Appliers : apply[a].run = r /\ apply[a].at # "look"
                         THEN kept ELSE kept \cup {<<r, s>>}
         \/ \E shape \in {"changed", "gone"} :
              live[r].shape = "as_published" /\ live' = [live EXCEPT ![r].shape = shape] /\ kept' = kept
    /\ UNCHANGED <<batch, item, prep, apply, page, approved, faults>>

Next ==
    \/ \E p \in Preparers :
         \/ Prepare(p) \/ Choose(p) \/ Load(p) \/ Inspect(p) \/ Draft(p) \/ Save(p) \/ Complete(p)
         \/ PrepareFails(p) \/ PrepareAgain(p)
    \/ Review \/ Edit \/ Approve \/ Retry
    \/ \E a \in Appliers :
         \/ Begin(a) \/ Take(a) \/ Look(a) \/ UpdatePrintify(a) \/ ConfirmPrintify(a) \/ UpdateEtsy(a)
         \/ ConfirmEtsy(a) \/ ReadBack(a) \/ Commit(a) \/ Conclude(a)
         \/ RequestFails(a) \/ ApplyDies(a) \/ ApplyAgain(a)
    \/ OtherEdit

Spec == Init /\ [][Next]_vars

\* --- Properties ----------------------------------------------------------

\* A live text is the one that was there, one that somebody else wrote, or one that the operator saw
\* when they approved the batch: edits after the page was loaded, interrupted preparations and retries
\* never put another text in a shop (approve_copy_refresh_batch, _apply_item).
AppliedAsApproved ==
    \A r \in Runs, s \in Sides :
      live[r].copy[s] \in {"old", "foreign"} \cup {approved[b][r] : b \in Batches}

Effective(r) == LET done == {b \in Batches : item[b][r].status = "applied"}
                IN IF done = {} THEN "old" ELSE item[Max(done)][r].after
Open(r) == \E b \in Batches : r \in batch[b].targets /\ batch[b].status \in {"applying", "verification_required"}

\* The text a republication or an artwork replacement takes for the live one (effective_approved_listing:
\* that of the newest applied item) is what both shops show, unless somebody else edited it or an approved
\* batch is still open.
EffectiveIsLive ==
    \A r \in Runs, s \in Sides : Open(r) \/ live[r].copy[s] \in {Effective(r), "foreign"}

\* A text that somebody else wrote while no attempt was in the middle of the item stays until a
\* preparation has read it (the comparison with before in _apply_item).  Putting the text back that the
\* preparation of an open batch has read is not a new text.
OthersAreRespected == \A k \in kept : live[k[1]].copy[k[2]] = "foreign"
====
