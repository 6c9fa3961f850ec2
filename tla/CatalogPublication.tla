------------------------- MODULE CatalogPublication -------------------------
(***************************************************************************)
(* Release of one catalog-v2 run: CatalogMerchWorkflow prepares ranked     *)
(* opportunities and runs the publish_catalog_run activity, which creates  *)
(* one Printify product and one Etsy listing through checkpoints kept in   *)
(* the publication record; operators may start RetryPublishWorkflow.       *)
(*                                                                         *)
(* One action is the code between two awaits: one database transaction or  *)
(* one remote call.  An attempt (one execution of the activity) may crash  *)
(* before any of them; Temporal then starts the next attempt.  Payloads    *)
(* are abstracted to the rank of the opportunity they were made for.       *)
(***************************************************************************)
EXTENDS Integers, Sequences, FiniteSets

CONSTANTS
    NumRanks,      \* min(opportunities found, max_opportunity_attempts)
    Signatures,    \* print-surface signatures
    SurfaceOf,     \* the surface signature each ranked opportunity prints on
    Attempts,      \* executions of the activity that can be alive at once
    Main,          \* the CatalogMerchWorkflow of the run
    Retries,       \* RetryPublishWorkflows an operator may start
    MaxTries       \* ACTIVITY_RETRY.maximum_attempts

Ranks == 1..NumRanks
Workflows == {Main} \cup Retries
None == 0

ASSUME ConstantsAssumption ==
    /\ NumRanks \in Nat \ {0}
    /\ SurfaceOf \in [Ranks -> Signatures]
    /\ Main \notin Retries
    /\ MaxTries \in Nat \ {0}
    /\ None \notin Attempts

VARIABLES
    run,        \* RunRecord: status, selected_opportunity, package, rejected opportunities
    pub,        \* PublishRecord of the Etsy channel, response_data flattened
    products,   \* Printify products of the run, in creation order
    listings,   \* Etsy listings of the run, in creation order
    inflight,   \* create requests sent and neither executed nor refused
    sent,       \* number of create requests ever sent
    att,        \* local state of every activity attempt
    wf          \* state of every workflow

vars == <<run, pub, products, listings, inflight, sent, att, wf>>
remote == <<products, listings, inflight, sent>>

-----------------------------------------------------------------------------
(* Types and helpers *)

RunStatuses == {"ranking", "screening", "publishing", "published", "failed",
                "verification_required", "no_qualified_opportunity"}
PubStatuses == {"absent", "pending", "creating", "publishing",
                "reconciliation_required", "succeeded", "failed"}
Uploads == [Signatures -> Ranks \cup {None}]
NoUploads == [s \in Signatures |-> None]
Fingerprint == (Ranks \cup {None}) \X Uploads
NoFingerprint == <<None, NoUploads>>
Results == {"none", "succeeded", "reconciliation_required", "hard_gate_failed",
            "error", "fatal"}
PCs == {"idle", "retryBegin", "begin", "refresh", "upload", "reserve", "update",
        "stamp", "intend", "send", "creating", "rejected", "reconcile", "save",
        "ready", "find", "markDraft", "sendDraft", "drafting", "record", "fill",
        "activate", "link", "unlink", "verify", "finish", "failing", "recording",
        "done"}
Phases == {"off", "prepare", "preparing", "publish", "finish", "finishing",
           "exhausted", "markFailed", "ended"}

Requests == [kind: {"product", "listing"}, n: Nat, title: Ranks,
             art: Ranks \cup {None}]

NoProgress == [intent |-> FALSE, fp |-> NoFingerprint,
               draft |-> FALSE, listing |-> None, owned |-> FALSE]
Progress == [intent: BOOLEAN, fp: Fingerprint,
             draft: BOOLEAN, listing: Nat, owned: BOOLEAN]

RunRecords == [status: RunStatuses, selected: Ranks \cup {None},
               package: Ranks \cup {None}, rejected: SUBSET Ranks]
PublishRecords == [status: PubStatuses, product: Nat, uploads: Uploads,
                   first: Ranks \cup {None}, prog: Progress]
Products == [title: Ranks, art: Ranks \cup {None}, link: Nat, req: Nat]
Listings == [title: Ranks, state: {"draft", "active", "inactive"}, req: Nat]
AttemptStates == [pc: PCs, wf: Workflows, rank: Ranks \cup {None}, uploads: Uploads,
                  first: Ranks \cup {None}, product: Nat, prog: Progress, req: Nat,
                  res: Results]
WorkflowStates == [phase: Phases, rank: Ranks \cup {None}, cur: Attempts \cup {None},
                   tries: Nat, seen: {"none"} \cup PubStatuses,
                   result: {"none", "published", "verification_required",
                            "no_qualified_opportunity"} \cup PubStatuses]

IdleAttempt == [pc |-> "idle", wf |-> Main, rank |-> None, uploads |-> NoUploads,
                first |-> None, product |-> None, prog |-> NoProgress,
                req |-> None, res |-> "none"]

Fp(a) == <<att[a].rank, att[a].uploads>>
Art(a) == att[a].uploads[SurfaceOf[att[a].rank]]
Done(x, result) == [x EXCEPT !.pc = "done", !.res = result]

(* An exception that leaves publish_catalog_run: publish_activity, the     *)
(* activity of a retry, records the failure before it re-raises.           *)
Raise(x, result) ==
    [x EXCEPT !.pc = IF x.wf = Main THEN "done" ELSE "recording", !.res = result]

(* What an attempt may do when a remote call fails: a Printify HTTP error  *)
(* leaves the function, every other error reaches its except clause.       *)
Fails(a) == \/ att' = [att EXCEPT ![a] = Raise(@, "error")]
            \/ att' = [att EXCEPT ![a].pc = "failing"]

At(a, label) == att[a].pc = label
Goto(a, label) == att' = [att EXCEPT ![a].pc = label]

Init ==
    /\ run = [status |-> "ranking", selected |-> None, package |-> None,
              rejected |-> {}]
    /\ pub = [status |-> "absent", product |-> None, uploads |-> NoUploads,
              first |-> None, prog |-> NoProgress]
    /\ products = <<>> /\ listings = <<>> /\ inflight = {} /\ sent = 0
    /\ att = [a \in Attempts |-> IdleAttempt]
    /\ wf = [w \in Workflows |->
                [phase |-> IF w = Main THEN "prepare" ELSE "off",
                 rank |-> IF w = Main THEN 1 ELSE None,
                 cur |-> None, tries |-> 0, seen |-> "none", result |-> "none"]]

-----------------------------------------------------------------------------
(* attempt_catalog_opportunity *)

BeginPrepare ==
    /\ wf[Main].phase = "prepare"
    /\ wf' = [wf EXCEPT ![Main].phase = "preparing"]
    /\ run' = [run EXCEPT !.status = "screening", !.selected = wf[Main].rank,
                          !.package = IF run.selected = wf[Main].rank THEN @ ELSE None]
    /\ UNCHANGED <<pub, att, remote>>

(* Package stored, system approval recorded, release authorised. *)
Approve ==
    /\ wf[Main].phase = "preparing"
    /\ wf' = [wf EXCEPT ![Main] = [@ EXCEPT !.phase = "publish", !.tries = 0]]
    /\ run' = [run EXCEPT !.status = "publishing", !.selected = wf[Main].rank,
                          !.package = wf[Main].rank]
    /\ UNCHANGED <<pub, att, remote>>

(* reject_opportunity, for a failed gate or for drift at publication. *)
Rejecting(r) ==
    [run EXCEPT !.status = "ranking", !.rejected = @ \cup {r},
                !.selected = IF @ = r THEN None ELSE @]

(* Mutants: the loop over opportunities goes one too far; it never advances. *)
NextRankOffByOne(x) ==
    IF x.rank <= NumRanks THEN [x EXCEPT !.phase = "prepare", !.rank = @ + 1, !.cur = None]
                          ELSE [x EXCEPT !.phase = "exhausted", !.cur = None]
NextRankStuck(x) == [x EXCEPT !.phase = "prepare", !.cur = None]

NextRank(x) ==
    IF x.rank < NumRanks THEN [x EXCEPT !.phase = "prepare", !.rank = @ + 1, !.cur = None]
                         ELSE [x EXCEPT !.phase = "exhausted", !.cur = None]

RejectInPreparation ==
    /\ wf[Main].phase = "preparing"
    /\ run' = Rejecting(wf[Main].rank)
    /\ wf' = [wf EXCEPT ![Main] = NextRank(@)]
    /\ UNCHANGED <<pub, att, remote>>

(* An opportunity that research or an earlier try marked ineligible. *)
SkipIneligible ==
    /\ wf[Main].phase = "prepare"
    /\ wf' = [wf EXCEPT ![Main] = NextRank(@)]
    /\ UNCHANGED <<run, pub, att, remote>>

PreparationFails ==
    /\ wf[Main].phase = "preparing"
    /\ wf' = [wf EXCEPT ![Main].phase = "markFailed"]
    /\ UNCHANGED <<run, pub, att, remote>>

FinishNoQualified ==
    /\ wf[Main].phase = "exhausted"
    /\ run' = [run EXCEPT !.status = "no_qualified_opportunity"]
    /\ wf' = [wf EXCEPT ![Main] = [@ EXCEPT !.phase = "ended",
                        !.result = "no_qualified_opportunity"]]
    /\ UNCHANGED <<pub, att, remote>>

MarkFailed ==
    /\ wf[Main].phase = "markFailed"
    /\ run' = [run EXCEPT !.status = "failed"]
    /\ wf' = [wf EXCEPT ![Main] = [@ EXCEPT !.phase = "ended", !.result = "failed"]]
    /\ UNCHANGED <<pub, att, remote>>

-----------------------------------------------------------------------------
(* Temporal: activity attempts, timeouts, results *)

Start(w, a) ==
    /\ wf[w].phase = "publish" /\ wf[w].cur = None /\ wf[w].tries < MaxTries
    /\ At(a, "idle") /\ \A v \in Workflows : wf[v].cur # a
    /\ wf' = [wf EXCEPT ![w] = [@ EXCEPT !.cur = a, !.tries = wf[w].tries + 1]]
    /\ att' = [att EXCEPT ![a] =
                  [IdleAttempt EXCEPT !.wf = w,
                      !.pc = IF w = Main THEN "begin" ELSE "retryBegin"]]
    /\ UNCHANGED <<run, pub, remote>>

(* The worker dies, or cancels an attempt whose time is over. *)
Crash(a) ==
    /\ ~At(a, "idle")
    /\ att' = [att EXCEPT ![a] = IdleAttempt]
    /\ UNCHANGED <<run, pub, wf, remote>>

(* start_to_close timeout: the server stops waiting for an attempt that is *)
(* gone (the worker cancels its own attempt when the time is over).        *)
GiveUp(x, last) ==
    IF x.tries < MaxTries /\ ~last
      THEN [x EXCEPT !.cur = None]
      ELSE [x EXCEPT !.cur = None, !.phase = IF x.rank # None THEN "markFailed" ELSE "ended",
                     !.result = IF x.rank # None THEN @ ELSE "failed"]

Expire(w) ==
    /\ wf[w].cur # None
    /\ At(wf[w].cur, "idle")
    /\ wf' = [wf EXCEPT ![w] = GiveUp(@, FALSE)]
    /\ UNCHANGED <<run, pub, att, remote>>

(* The result of an attempt reaches the server; it counts when the attempt *)
(* is the one the workflow waits for.                                      *)
Outcome(w, x, result) ==
    IF result \in {"error", "fatal"} THEN GiveUp(x, result = "fatal")
    ELSE IF w # Main THEN [x EXCEPT !.phase = "finish", !.cur = None]
    ELSE IF result = "hard_gate_failed" THEN NextRank(x)
    ELSE [x EXCEPT !.phase = "ended", !.cur = None,
                   !.result = IF result = "succeeded" THEN "published"
                                                      ELSE "verification_required"]

Report(a) ==
    LET w == att[a].wf IN
    /\ At(a, "done")
    /\ wf' = IF wf[w].cur = a THEN [wf EXCEPT ![w] = Outcome(w, @, att[a].res)] ELSE wf
    /\ att' = [att EXCEPT ![a] = IdleAttempt]
    /\ UNCHANGED <<run, pub, remote>>

-----------------------------------------------------------------------------
(* RetryPublishWorkflow *)

(* The web handler checks the records, then starts a workflow whose id holds *)
(* the current second; what changes in between is seen by RetryBegin.        *)
RequestRetry(w) ==
    /\ wf[w].phase = "off"
    /\ run.status \in {"failed", "verification_required"}
    /\ pub.status \in {"failed", "reconciliation_required"}
    /\ wf' = [wf EXCEPT ![w].phase = "publish"]
    /\ UNCHANGED <<run, pub, att, remote>>

RetryBegin(a) ==
    /\ At(a, "retryBegin")
    /\ IF /\ run.status \in {"publishing", "failed", "verification_required"}
          /\ pub.status \in {"failed", "reconciliation_required", "creating", "publishing"}
         THEN run' = [run EXCEPT !.status = "publishing"] /\ Goto(a, "begin")
         ELSE att' = [att EXCEPT ![a] = Raise(@, "error")] /\ UNCHANGED run
    /\ UNCHANGED <<pub, wf, remote>>

(* Mutant: the failure overwrites a publication that succeeded. *)
RecordFailureAlways(a) ==
    /\ At(a, "recording")
    /\ pub' = [pub EXCEPT !.status = "failed"]
    /\ Goto(a, "done")
    /\ UNCHANGED <<run, wf, remote>>

RecordFailure(a) ==
    /\ At(a, "recording")
    /\ pub' = IF pub.status = "succeeded" THEN pub ELSE [pub EXCEPT !.status = "failed"]
    /\ Goto(a, "done")
    /\ UNCHANGED <<run, wf, remote>>

(* finish_retry reads the publication status in one transaction and sets   *)
(* the run status it implies in another.                                   *)
ReadRetryStatus(w) ==
    /\ wf[w].phase = "finish"
    /\ wf' = [wf EXCEPT ![w] = [@ EXCEPT !.phase = "finishing", !.seen = pub.status]]
    /\ UNCHANGED <<run, pub, att, remote>>

(* Mutant: every retry that returned a status counts as published. *)
FinishRetryOptimistic(w) ==
    /\ wf[w].phase = "finishing"
    /\ run' = [run EXCEPT !.status = "published"]
    /\ wf' = [wf EXCEPT ![w] = [@ EXCEPT !.phase = "ended", !.result = wf[w].seen]]
    /\ UNCHANGED <<pub, att, remote>>

FinishRetry(w) ==
    /\ wf[w].phase = "finishing"
    /\ run' = [run EXCEPT !.status =
                  CASE wf[w].seen = "succeeded" -> "published"
                    [] wf[w].seen = "reconciliation_required" -> "verification_required"
                    [] OTHER -> "failed"]
    /\ wf' = [wf EXCEPT ![w] = [@ EXCEPT !.phase = "ended", !.result = wf[w].seen]]
    /\ UNCHANGED <<pub, att, remote>>

-----------------------------------------------------------------------------
(* publish_catalog_run: admission, drift, uploads, reservation *)

(* First transaction: replay of a finished release, the approval and digest *)
(* checks, and the snapshot everything below works on.                      *)
Begin(a) ==
    /\ At(a, "begin")
    /\ att' = [att EXCEPT ![a] =
          IF run.status = "published" /\ pub.status = "succeeded"
            THEN Done(@, "succeeded")
          ELSE IF run.status # "publishing" \/ run.selected = None \/ run.package # run.selected
            THEN Raise(@, "fatal")
          ELSE IF pub.status = "succeeded" THEN Done(@, "succeeded")
          ELSE [@ EXCEPT !.pc = "refresh", !.rank = run.selected, !.uploads = pub.uploads,
                         !.first = pub.first, !.product = pub.product]]
    /\ UNCHANGED <<run, pub, wf, remote>>

(* Catalog, options, surfaces, shipping and costs are read again. *)
Unchanged(a) == At(a, "refresh") /\ Goto(a, "upload") /\ UNCHANGED <<run, pub, wf, remote>>

Drift(a) ==
    /\ At(a, "refresh")
    /\ run' = Rejecting(att[a].rank)
    /\ att' = [att EXCEPT ![a] = IF @.wf = Main THEN Done(@, "hard_gate_failed")
                                               ELSE Raise(@, "error")]
    /\ UNCHANGED <<pub, wf, remote>>

RefreshFails(a) ==
    /\ At(a, "refresh")
    /\ att' = [att EXCEPT ![a] = Raise(@, "error")]
    /\ UNCHANGED <<run, pub, wf, remote>>

(* Artwork is uploaded for every surface signature without an upload id. *)
Upload(a) ==
    LET sig == SurfaceOf[att[a].rank]
        art == IF att[a].uploads[sig] # None THEN att[a].uploads[sig] ELSE att[a].rank
    IN
    /\ At(a, "upload")
    /\ att' = [att EXCEPT ![a] = [@ EXCEPT
                  !.pc = "reserve", !.uploads[sig] = art,
                  !.first = IF att[a].first = None THEN art ELSE att[a].first]]
    /\ UNCHANGED <<run, pub, wf, remote>>

UploadFails(a) == At(a, "upload") /\ Fails(a) /\ UNCHANGED <<run, pub, wf, remote>>

(* The transaction that takes the row lock: upload ids are saved, and the   *)
(* branch to take is decided from what it read.                             *)
(* Mutants: an earlier create is forgotten; a changed package is not pushed. *)
BranchBlind(a, product) ==
    CASE product # None /\ pub.prog.fp # Fp(a) -> "update"
      [] product # None /\ pub.prog.fp = Fp(a) -> "save"
      [] product = None                        -> "intend"
BranchNoUpdate(a, product) ==
    CASE product # None                     -> "save"
      [] product = None /\ pub.prog.intent  -> "reconcile"
      [] product = None /\ ~pub.prog.intent -> "intend"

Branch(a, product) ==
    CASE product # None /\ pub.prog.fp # Fp(a) -> "update"
      [] product # None /\ pub.prog.fp = Fp(a) -> "save"
      [] product = None /\ pub.prog.intent     -> "reconcile"
      [] product = None /\ ~pub.prog.intent    -> "intend"

Reserve(a) ==
    LET product == IF pub.product # None THEN pub.product ELSE att[a].product IN
    /\ At(a, "reserve")
    /\ IF pub.status = "succeeded"
         THEN att' = [att EXCEPT ![a] = Done(@, "succeeded")] /\ UNCHANGED pub
         ELSE /\ pub' = [pub EXCEPT !.status = "creating", !.uploads = att[a].uploads,
                                    !.first = att[a].first]
              /\ att' = [att EXCEPT ![a] = [@ EXCEPT !.pc = Branch(a, product), !.product = product,
                                    !.prog = pub.prog]]
    /\ UNCHANGED <<run, wf, remote>>

-----------------------------------------------------------------------------
(* publish_catalog_run: the Printify product *)

(* An existing product takes the title, prices and artwork of the package.  *)
UpdateProduct(a) ==
    LET p == att[a].product IN
    /\ At(a, "update")
    /\ \/ /\ products' = [products EXCEPT ![p] = [@ EXCEPT !.title = att[a].rank, !.art = Art(a)]]
          /\ Goto(a, "stamp") \/ Fails(a)
       \/ UNCHANGED products /\ Fails(a)
    /\ UNCHANGED <<run, pub, wf, listings, inflight, sent>>

StampFingerprint(a) ==
    /\ At(a, "stamp")
    /\ pub' = [pub EXCEPT !.prog.fp = Fp(a)]
    /\ Goto(a, "save")
    /\ UNCHANGED <<run, wf, remote>>

RecordCreateIntent(a) ==
    /\ At(a, "intend")
    /\ pub' = [pub EXCEPT !.prog.intent = TRUE]
    /\ Goto(a, "send")
    /\ UNCHANGED <<run, wf, remote>>

Send(a, kind, art, label) ==
    /\ sent' = sent + 1
    /\ inflight' = inflight \cup
          {[kind |-> kind, n |-> sent + 1, title |-> att[a].rank, art |-> art]}
    /\ att' = [att EXCEPT ![a] = [@ EXCEPT !.pc = label, !.req = sent + 1]]
    /\ UNCHANGED <<run, pub, wf, products, listings>>

SendCreate(a) == At(a, "send") /\ Send(a, "product", Art(a), "creating")

CreateAccepted(a, p) ==
    /\ At(a, "creating") /\ products[p].req = att[a].req
    /\ att' = [att EXCEPT ![a] = [@ EXCEPT !.pc = "save", !.product = p]]
    /\ UNCHANGED <<run, pub, wf, remote>>

(* A definite refusal (PrintifyHTTPError): nothing was created. *)
CreateRejected(a) ==
    /\ At(a, "creating")
    /\ \E r \in inflight : r.n = att[a].req /\ inflight' = inflight \ {r}
    /\ Goto(a, "rejected")
    /\ UNCHANGED <<run, pub, wf, products, listings, sent>>

ClearCreateIntent(a) ==
    /\ At(a, "rejected")
    /\ pub' = [pub EXCEPT !.prog.intent = FALSE]
    /\ att' = [att EXCEPT ![a] = Raise(@, "error")]
    /\ UNCHANGED <<run, wf, remote>>

(* The outcome is unknown; the request may still be executed later. *)
(* Mutant: a lost response is taken for a refusal. *)
CreateAmbiguousIsRefusal(a) ==
    /\ At(a, "creating")
    /\ Goto(a, "reconcile") \/ Goto(a, "failing") \/ Goto(a, "rejected")
    /\ UNCHANGED <<run, pub, wf, remote>>

CreateAmbiguous(a) ==
    /\ At(a, "creating")
    /\ Goto(a, "reconcile") \/ Goto(a, "failing")
    /\ UNCHANGED <<run, pub, wf, remote>>

Matching(a) == {p \in DOMAIN products : /\ products[p].title = att[a].rank
                                        /\ products[p].art = att[a].first}

(* reconcile_product: exactly one product with the title and the artwork.   *)
(* Otherwise the publication waits for an operator.                         *)
Reconcile(a) ==
    /\ At(a, "reconcile")
    /\ IF Cardinality(Matching(a)) = 1
         THEN /\ \E p \in Matching(a) :
                     att' = [att EXCEPT ![a] = [@ EXCEPT !.pc = "save", !.product = p]]
              /\ UNCHANGED pub
         ELSE /\ pub' = [pub EXCEPT !.status = "reconciliation_required"]
              /\ att' = [att EXCEPT ![a] = Done(@, "reconciliation_required")]
    /\ UNCHANGED <<run, wf, remote>>

ReconcileFails(a) == At(a, "reconcile") /\ Fails(a) /\ UNCHANGED <<run, pub, wf, remote>>

SaveProduct(a) ==
    /\ At(a, "save")
    /\ pub' = [pub EXCEPT !.product = att[a].product, !.status = "publishing",
                          !.prog.fp = Fp(a)]
    /\ att' = [att EXCEPT ![a] = [@ EXCEPT !.pc = "ready", !.prog = pub'.prog]]
    /\ UNCHANGED <<run, wf, remote>>

-----------------------------------------------------------------------------
(* publish_direct_catalog_etsy: the listing *)

(* Mockups and SKUs of the product are waited for and verified. *)
DraftReady(a) == At(a, "ready") /\ Goto(a, "find") /\ UNCHANGED <<run, pub, wf, remote>>
NotReady(a) == At(a, "ready") /\ Fails(a) /\ UNCHANGED <<run, pub, wf, remote>>

Titled(r) == {l \in DOMAIN listings : listings[l].title = r}

FindListing(a) ==
    LET l == att[a].prog.listing
        found == Titled(att[a].rank)
    IN
    /\ At(a, "find")
    /\ \/ /\ l # None /\ listings[l].title = att[a].rank
          /\ Goto(a, "fill")
       \/ /\ l = None /\ Cardinality(found) = 1
          /\ \E f \in found : att' = [att EXCEPT ![a] = [@ EXCEPT !.pc = "record", !.prog.listing = f]]
       \/ /\ l = None /\ found = {} /\ ~att[a].prog.draft
          /\ Goto(a, "markDraft")
       \/ Goto(a, "failing")
    /\ UNCHANGED <<run, pub, wf, remote>>

(* Mutant: the checkpoint is kept in memory only. *)
RecordDraftIntentInMemory(a) ==
    /\ At(a, "markDraft")
    /\ att' = [att EXCEPT ![a] = [@ EXCEPT !.pc = "sendDraft", !.prog.draft = TRUE]]
    /\ UNCHANGED <<run, pub, wf, remote>>

RecordDraftIntent(a) ==
    /\ At(a, "markDraft")
    /\ pub' = [pub EXCEPT !.prog.draft = TRUE]
    /\ att' = [att EXCEPT ![a] = [@ EXCEPT !.pc = "sendDraft", !.prog.draft = TRUE]]
    /\ UNCHANGED <<run, wf, remote>>

SendDraft(a) == At(a, "sendDraft") /\ Send(a, "listing", None, "drafting")

DraftCreated(a, l) ==
    /\ At(a, "drafting") /\ listings[l].req = att[a].req
    /\ att' = [att EXCEPT ![a] = [@ EXCEPT !.pc = "record", !.prog.listing = l, !.prog.owned = TRUE]]
    /\ UNCHANGED <<run, pub, wf, remote>>

DraftFails(a) == At(a, "drafting") /\ Goto(a, "failing") /\ UNCHANGED <<run, pub, wf, remote>>

RecordListing(a) ==
    /\ At(a, "record")
    /\ pub' = [pub EXCEPT !.prog.listing = att[a].prog.listing,
                          !.prog.owned = att[a].prog.owned]
    /\ Goto(a, "fill")
    /\ UNCHANGED <<run, wf, remote>>

(* Tags, inventory, gallery, option photos and the served-image gate. *)
Filled(a) == At(a, "fill") /\ Goto(a, "activate") /\ UNCHANGED <<run, pub, wf, remote>>
FillFails(a) == At(a, "fill") /\ Fails(a) /\ UNCHANGED <<run, pub, wf, remote>>

SetState(l, state) == listings' = [listings EXCEPT ![l].state = state]

Activate(a) ==
    /\ At(a, "activate")
    /\ \/ SetState(att[a].prog.listing, "active") /\ (Goto(a, "link") \/ Goto(a, "failing"))
       \/ UNCHANGED listings /\ Goto(a, "failing")
    /\ UNCHANGED <<run, pub, wf, products, inflight, sent>>

(* publishing_succeeded: Printify is told the listing of the product. *)
Link(a) ==
    LET x == att[a]
        refused == IF x.prog.owned THEN Goto(a, "unlink") ELSE Fails(a)
    IN
    /\ At(a, "link")
    /\ \/ /\ products' = [products EXCEPT ![x.product].link = x.prog.listing]
          /\ Goto(a, "verify") \/ refused
       \/ UNCHANGED products /\ refused
    /\ UNCHANGED <<run, pub, wf, listings, inflight, sent>>

Deactivate(a) ==
    /\ At(a, "unlink")
    /\ \/ SetState(att[a].prog.listing, "inactive") /\ Fails(a)
       \/ UNCHANGED listings /\ Goto(a, "failing")
    /\ UNCHANGED <<run, pub, wf, products, inflight, sent>>

(* Readback of the link, the active listing and its inventory. *)
Verify(a) ==
    LET x == att[a] IN
    /\ At(a, "verify")
    /\ \/ /\ products[x.product].link = x.prog.listing
          /\ listings[x.prog.listing].state = "active"
          /\ listings[x.prog.listing].title = x.rank
          /\ Goto(a, "finish")
       \/ Fails(a)
    /\ UNCHANGED <<run, pub, wf, remote>>

Finish(a) ==
    /\ At(a, "finish")
    /\ pub' = [pub EXCEPT !.status = "succeeded"]
    /\ run' = [run EXCEPT !.status = "published"]
    /\ att' = [att EXCEPT ![a] = Done(@, "succeeded")]
    /\ UNCHANGED <<wf, remote>>

(* The except clause: with a product the release needs verification;        *)
(* without one the error is raised again.                                   *)
HandleError(a) ==
    /\ At(a, "failing")
    /\ IF pub.product # None
         THEN /\ pub' = [pub EXCEPT !.status = "reconciliation_required"]
              /\ run' = [run EXCEPT !.status = "verification_required"]
              /\ att' = [att EXCEPT ![a] = Done(@, "reconciliation_required")]
         ELSE /\ pub' = [pub EXCEPT !.status = IF @ = "absent" THEN "pending" ELSE @]
              /\ att' = [att EXCEPT ![a] = Raise(@, "error")]
              /\ UNCHANGED run
    /\ UNCHANGED <<wf, remote>>

-----------------------------------------------------------------------------
(* Printify and Etsy execute create requests when they arrive. *)

ExecuteCreate(r) ==
    /\ inflight' = inflight \ {r}
    /\ IF r.kind = "product"
         THEN /\ products' = Append(products, [title |-> r.title, art |-> r.art,
                                               link |-> None, req |-> r.n])
              /\ UNCHANGED listings
         ELSE /\ listings' = Append(listings, [title |-> r.title, state |-> "draft",
                                               req |-> r.n])
              /\ UNCHANGED products
    /\ UNCHANGED <<run, pub, sent, att, wf>>

-----------------------------------------------------------------------------
Publishing(a) ==
    \/ Begin(a) \/ Unchanged(a) \/ Drift(a) \/ RefreshFails(a)
    \/ Upload(a) \/ UploadFails(a) \/ Reserve(a)
    \/ UpdateProduct(a) \/ StampFingerprint(a) \/ RecordCreateIntent(a)
    \/ SendCreate(a) \/ (\E p \in DOMAIN products : CreateAccepted(a, p))
    \/ CreateRejected(a) \/ ClearCreateIntent(a) \/ CreateAmbiguous(a)
    \/ Reconcile(a) \/ ReconcileFails(a) \/ SaveProduct(a)
    \/ DraftReady(a) \/ NotReady(a) \/ FindListing(a) \/ RecordDraftIntent(a)
    \/ SendDraft(a) \/ (\E l \in DOMAIN listings : DraftCreated(a, l)) \/ DraftFails(a)
    \/ RecordListing(a) \/ Filled(a) \/ FillFails(a) \/ Activate(a)
    \/ Link(a) \/ Deactivate(a) \/ Verify(a) \/ Finish(a) \/ HandleError(a)
    \/ RetryBegin(a) \/ RecordFailure(a) \/ Report(a)

Preparing ==
    \/ BeginPrepare \/ Approve \/ RejectInPreparation \/ SkipIneligible \/ PreparationFails
    \/ FinishNoQualified \/ MarkFailed

Scheduling(w) ==
    \/ (\E a \in Attempts : Start(w, a)) \/ Expire(w)
    \/ ReadRetryStatus(w) \/ FinishRetry(w)

(* Every workflow has ended: nothing happens any more. *)
Ended ==
    /\ \A w \in Workflows : wf[w].phase \in {"off", "ended"}
    /\ UNCHANGED vars

Next ==
    \/ Preparing
    \/ \E w \in Workflows : Scheduling(w)
    \/ \E w \in Retries : RequestRetry(w)
    \/ \E a \in Attempts : Publishing(a) \/ Crash(a)
    \/ \E r \in inflight : ExecuteCreate(r)
    \/ Ended

Spec == Init /\ [][Next]_vars

(* Temporal keeps scheduling, a live worker keeps executing, and an         *)
(* activity of a workflow ends by returning or by its timeout.  Operators   *)
(* need not retry, remote services need not execute a request.              *)
Fairness ==
    /\ WF_vars(Preparing)
    /\ \A w \in Workflows : WF_vars(Scheduling(w))
    /\ \A a \in Attempts : WF_vars(Publishing(a))

FairSpec == Spec /\ Fairness

-----------------------------------------------------------------------------
(* Properties *)

\* Every record, workflow and process is in a state the code can name.
TypeOK ==
    /\ run \in RunRecords
    /\ pub \in PublishRecords
    /\ products \in Seq(Products)
    /\ listings \in Seq(Listings)
    /\ inflight \in SUBSET Requests
    /\ sent \in Nat
    /\ att \in [Attempts -> AttemptStates]
    /\ wf \in [Workflows -> WorkflowStates]

InFlight(kind) == {r \in inflight : r.kind = kind}

AtMostOne(created, kind) ==
    /\ Len(created) <= 1
    /\ created # <<>> => InFlight(kind) = {}
    /\ \A r, s \in InFlight(kind) : r = s

(* The product create is never blindly repeated: whatever crashes, times    *)
(* out or is retried, the remote shop holds or may still create at most one *)
(* Printify product for the run.                                            *)
OneProduct == AtMostOne(products, "product")

(* The same for the Etsy draft of publish_direct_catalog_etsy.              *)
OneListing == AtMostOne(listings, "listing")

(* A product or listing that exists, or whose create may still be executed, *)
(* is known to the durable checkpoint a later attempt starts from.          *)
NothingForgotten ==
    /\ products # <<>> \/ InFlight("product") # {} => pub.prog.intent \/ pub.product # None
    /\ listings # <<>> \/ InFlight("listing") # {} => pub.prog.draft

(* A publication recorded as succeeded names a product and an active        *)
(* listing linked to each other, and both carry the title and the artwork   *)
(* of the approved opportunity, which was never rejected.                   *)
SucceededIsLive ==
    pub.status = "succeeded" =>
        /\ run.selected = run.package /\ run.selected \notin run.rejected
        /\ \E p \in DOMAIN products, l \in DOMAIN listings :
              /\ pub.product = p /\ pub.prog.listing = l
              /\ products[p].link = l /\ listings[l].state = "active"
              /\ products[p].title = run.selected /\ products[p].art = run.selected
              /\ listings[l].title = run.selected

(* The run, or the main workflow, reports a published run only when the     *)
(* publication record says so: finish_retry and the activity agree.         *)
PublishedIsRecorded ==
    run.status = "published" \/ wf[Main].result = "published" => pub.status = "succeeded"

(* A recorded success is final: no late failure, error or retry of another  *)
(* attempt takes it back (record_publish_failure keeps it).                 *)
SucceededFinal == [][pub.status = "succeeded" => pub'.status = "succeeded"]_vars

(* Whatever crashes, the main workflow ends.                                *)
MainEnds == <>(wf[Main].phase = "ended")

-----------------------------------------------------------------------------
(* What the documentation says, where the code does something else *)

(* docs/catalog-v2.md: publication uses the unchanged package that the      *)
(* approval digest recorded; the artwork on the product is the package's.   *)
ApprovedArtOnly ==
    pub.status = "succeeded" => products[pub.product].art = run.package

(* docs/catalog-v2.md: "no_qualified_opportunity" means no listing was      *)
(* published.                                                               *)
NoQualifiedMeansNothingListed ==
    run.status = "no_qualified_opportunity" =>
        \A l \in DOMAIN listings : listings[l].state # "active"

(* docs/catalog-v2.md: a workflow that ends in verification_required leaves *)
(* its run in verification_required (no retry has been requested since).    *)
VerificationIsVisible ==
    (/\ wf[Main].result = "verification_required"
     /\ \A w \in Retries : wf[w].phase = "off")
    => run.status = "verification_required"

(* docs/catalog-v2.md: a run "publishes at most one Etsy listing", however  *)
(* many retries operators request.                                          *)
OneActiveListing ==
    \A k, l \in DOMAIN listings :
        listings[k].state = "active" /\ listings[l].state = "active" => k = l

(* docs/catalog-v2.md: a replay of a publication whose outcome is already   *)
(* recorded returns that outcome; it is not refused as "not approved".      *)
ReplayReturnsResult ==
    \A a \in Attempts :
        att[a].wf = Main /\ att[a].res = "fatal" => pub.status # "reconciliation_required"
=============================================================================
