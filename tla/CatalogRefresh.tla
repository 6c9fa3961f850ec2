-------------------------- MODULE CatalogRefresh ---------------------------
(***************************************************************************)
(* The resumable refresh of the Printify catalog: CatalogRefreshWorkflow   *)
(* and the database operations of CatalogRefreshRepository and             *)
(* CatalogRepository.  A refresh record is claimed by a scheduled workflow *)
(* or by a web or CLI process that then starts one; its manifest lists the *)
(* offerings to visit, its cursor how many have been visited.              *)
(*                                                                         *)
(* An offering (blueprint/provider pair) is its position in the sorted     *)
(* manifest order.  A workflow runs one activity attempt at a time; an     *)
(* attempt may die before its transaction, or after it with the result     *)
(* lost, and is repeated up to MaxTries times.                             *)
(***************************************************************************)
EXTENDS Integers, FiniteSets

CONSTANTS
    NumPairs,      \* blueprint/provider offerings that exist in the model
    Blueprints, Providers,
    BlueprintOf, ProviderOf,
    Ranked,        \* blueprints in the Bestsellers ranking
    BatchSize,     \* CATALOG_REFRESH_BATCH_SIZE
    Known,         \* products the catalog already has
    Singles,       \* products that runs refresh on their own
    Endangered,    \* products Printify may stop offering
    NumRefreshes,  \* refresh records that can be created
    Scheduled,     \* workflows the weekly schedule starts
    Manual,        \* workflows the web console or the CLI starts
    MaxTries,      \* ACTIVITY_RETRY.maximum_attempts
    UnknownStarts  \* whether a start that raised may have started its workflow

Pairs == 1..NumPairs
RefreshIds == 1..NumRefreshes
Workflows == Scheduled \cup Manual
None == 0

ASSUME ConstantsAssumption ==
    /\ NumPairs \in Nat \ {0}
    /\ BlueprintOf \in [Pairs -> Blueprints]
    /\ ProviderOf \in [Pairs -> Providers]
    /\ Ranked \subseteq Blueprints
    /\ BatchSize \in Nat \ {0}
    /\ Known \subseteq Pairs /\ Singles \subseteq Pairs /\ Endangered \subseteq Pairs
    /\ NumRefreshes \in Nat
    /\ Scheduled \cap Manual = {}
    /\ MaxTries \in Nat \ {0}
    /\ UnknownStarts \in BOOLEAN
    /\ None \notin Workflows

VARIABLES
    offered,       \* offerings Printify serves
    catalog,       \* CatalogProductRecord of every offering
    curated,       \* products named by the CatalogCurationRecords
    refreshes,     \* CatalogRefreshRecord
    wf,            \* workflows and their current activity attempt
    caller         \* the process that claims for a manual workflow

vars == <<offered, catalog, curated, refreshes, wf, caller>>

-----------------------------------------------------------------------------
(* Types and helpers *)

Manifests == [pairs: SUBSET Pairs, providers: SUBSET Providers,
              blueprints: SUBSET Blueprints]
NoManifest == [pairs |-> {}, providers |-> {}, blueprints |-> {}]
Products == [state: {"absent", "active", "unavailable", "retired"},
             seen: RefreshIds \cup {None}]
Refreshes == [status: {"unused", "pending", "running", "failed", "completed"},
              lease: BOOLEAN, workflow: Workflows \cup {None},
              manifest: Manifests, cursor: Nat, total: Nat,
              unresolved: SUBSET Providers]
Unused == [status |-> "unused", lease |-> FALSE, workflow |-> None,
           manifest |-> NoManifest, cursor |-> 0, total |-> 0,
           unresolved |-> {}]
Phases == {"off", "claim", "discover", "discovering", "batch", "batching",
           "finalize", "curating", "fail", "ended"}
Tries == 0..(MaxTries - 1)
WorkflowStates == [phase: Phases, refresh: RefreshIds \cup {None},
                   tries: Tries, start: Nat, batch: SUBSET Pairs,
                   found: SUBSET Pairs,
                   result: {"none", "done", "failed"}]
Off == [phase |-> "off", refresh |-> None, tries |-> 0, start |-> 0,
        batch |-> {}, found |-> {}, result |-> "none"]

Rank(p) == BlueprintOf[p] \in Ranked
Active == {p \in Pairs : catalog[p].state = "active"}
HasManifest(r) == refreshes[r].manifest.pairs # {}
Lease == {r \in RefreshIds : refreshes[r].lease}
At(w, phase) == wf[w].phase = phase

(* Position of an offering in a manifest, and the slice a cursor selects. *)
Position(p, pairs) == Cardinality({q \in pairs : q <= p})
Slice(pairs, cursor) ==
    {p \in pairs : cursor < Position(p, pairs) /\ Position(p, pairs) <= cursor + BatchSize}

-----------------------------------------------------------------------------
(* Activity attempts *)

Enter(x, phase) == [x EXCEPT !.phase = phase, !.tries = 0, !.start = 0,
                             !.batch = {}, !.found = {}]
EndWith(x, result) == [Enter(x, "ended") EXCEPT !.result = result]

Restart(phase) == CASE phase = "discovering" -> "discover"
                    [] phase = "batching"    -> "batch"
                    [] phase = "curating"    -> "finalize"
                    [] OTHER                 -> phase

(* The claim is made outside the try block that marks a refresh as failed.  *)
GiveUp(x) == IF x.phase = "claim" THEN EndWith(x, "failed") ELSE Enter(x, "fail")

(* Mutant: maximum_attempts is taken for a number of retries. *)
RetryOnceMore(x) ==
    IF x.tries + 1 <= MaxTries
      THEN [Enter(x, Restart(x.phase)) EXCEPT !.tries = x.tries + 1]
      ELSE GiveUp(x)

(* The attempt is lost: the next one starts over, unless it was the last. *)
Retry(x) ==
    IF x.tries + 1 < MaxTries
      THEN [Enter(x, Restart(x.phase)) EXCEPT !.tries = x.tries + 1]
      ELSE GiveUp(x)

(* The transaction is committed; its result may still be lost. *)
Report(w, next) == wf' \in {[wf EXCEPT ![w] = next], [wf EXCEPT ![w] = Retry(@)]}

(* An attempt also fails for good, with an error that is not retried. *)
AttemptDies(w) ==
    /\ wf[w].phase \in {"claim", "discover", "discovering", "batch", "batching",
                        "finalize", "curating"}
    /\ wf' \in {[wf EXCEPT ![w] = Retry(@)], [wf EXCEPT ![w] = GiveUp(@)]}
    /\ UNCHANGED <<offered, catalog, curated, refreshes, caller>>

-----------------------------------------------------------------------------
(* Claiming a refresh and starting its workflow *)

(* Mutant: whoever finds a claimed refresh works on it. *)
ClaimShared(w, r, owner) ==
    \/ /\ Lease = {} /\ owner = TRUE
       /\ refreshes[r].status = "unused"
       /\ \A s \in RefreshIds : refreshes[s].status = "unused" => r <= s
       /\ refreshes' = [refreshes EXCEPT ![r] =
              [@ EXCEPT !.status = "pending", !.lease = TRUE, !.workflow = w]]
    \/ /\ r \in Lease /\ owner = TRUE
       /\ refreshes' = [refreshes EXCEPT ![r] =
              [@ EXCEPT !.status = IF @ = "failed" THEN "pending" ELSE @, !.workflow = w]]

Claim(w, r, owner) ==
    \/ /\ Lease = {} /\ owner = TRUE
       /\ refreshes[r].status = "unused"
       /\ \A s \in RefreshIds : refreshes[s].status = "unused" => r <= s
       /\ refreshes' = [refreshes EXCEPT ![r] =
              [@ EXCEPT !.status = "pending", !.lease = TRUE, !.workflow = w]]
    \/ /\ r \in Lease /\ refreshes[r].status = "failed" /\ owner = TRUE
       /\ refreshes' = [refreshes EXCEPT ![r] =
              [@ EXCEPT !.status = "pending", !.workflow = w]]
    \/ /\ r \in Lease /\ refreshes[r].status # "failed"
       /\ owner = (refreshes[r].workflow = w)
       /\ UNCHANGED refreshes

Fire(w) ==
    /\ w \in Scheduled /\ At(w, "off")
    /\ wf' = [wf EXCEPT ![w] = Enter(@, "claim")]
    /\ UNCHANGED <<offered, catalog, curated, refreshes, caller>>

ClaimActivity(w) ==
    /\ At(w, "claim")
    /\ \E r \in RefreshIds, owner \in BOOLEAN :
          /\ Claim(w, r, owner)
          /\ Report(w, IF owner THEN [Enter(wf[w], "discover") EXCEPT !.refresh = r]
                                ELSE EndWith(wf[w], "done"))
    /\ UNCHANGED <<offered, catalog, curated, caller>>

(* start_catalog_refresh, in the web process or the CLI. *)
RequestRefresh(w) ==
    /\ w \in Manual /\ caller[w] = "off"
    /\ \E r \in RefreshIds, owner \in BOOLEAN :
          /\ Claim(w, r, owner)
          /\ caller' = [caller EXCEPT ![w] = IF owner THEN "starting" ELSE "gone"]
          /\ wf' = [wf EXCEPT ![w] = [@ EXCEPT !.refresh = IF owner THEN r ELSE None]]
    /\ UNCHANGED <<offered, catalog, curated>>

StartWorkflow(w) ==
    /\ caller[w] = "starting"
    /\ caller' = [caller EXCEPT ![w] = "gone"]
    /\ wf' = [wf EXCEPT ![w] = Enter(@, "discover")]
    /\ UNCHANGED <<offered, catalog, curated, refreshes>>

StartFails(w) ==
    /\ caller[w] = "starting"
    /\ caller' = [caller EXCEPT ![w] = "failing"]
    /\ \/ UNCHANGED wf
       \/ UnknownStarts /\ wf' = [wf EXCEPT ![w] = Enter(@, "discover")]
    /\ UNCHANGED <<offered, catalog, curated, refreshes>>

CallerDies(w) ==
    /\ caller[w] \in {"starting", "failing"}
    /\ caller' = [caller EXCEPT ![w] = "gone"]
    /\ UNCHANGED <<offered, catalog, curated, refreshes, wf>>

(* Mutant: a failure also takes back a completed refresh. *)
FailAlways(r) == refreshes' = [refreshes EXCEPT ![r] = [@ EXCEPT !.status = "failed"]]

Fail(r) ==
    IF refreshes[r].status = "completed" THEN UNCHANGED refreshes
    ELSE refreshes' = [refreshes EXCEPT ![r] = [@ EXCEPT !.status = "failed"]]

FailStart(w) ==
    /\ caller[w] = "failing"
    /\ Fail(wf[w].refresh)
    /\ caller' = [caller EXCEPT ![w] = "gone"]
    /\ UNCHANGED <<offered, catalog, curated, wf>>

-----------------------------------------------------------------------------
(* discover_catalog_refresh *)

Listed == {p \in offered : Rank(p)}

(* The provider index answers: providers that stay forbidden are looked for *)
(* in the lists of the blueprints, of which some are forbidden too.         *)
IndexDiscovery(pending, forbidden) ==
    LET direct == {p \in Listed : ProviderOf[p] \notin pending}
        extra == {p \in Listed : ProviderOf[p] \in pending /\ BlueprintOf[p] \notin forbidden}
    IN [pairs |-> direct \cup extra,
        providers |-> pending \ {ProviderOf[p] : p \in extra},
        blueprints |-> forbidden]

(* The index is forbidden: only the lists of the blueprints are read. *)
BlueprintDiscovery(forbidden) ==
    [pairs |-> {p \in Listed : BlueprintOf[p] \notin forbidden},
     providers |-> {}, blueprints |-> forbidden]

(* Mutant: a forbidden blueprint list is taken for an empty one. *)
DiscoveredUnpreserved ==
    {IndexDiscovery({}, {})}
    \cup {[BlueprintDiscovery(forbidden) EXCEPT !.blueprints = {}] : forbidden \in SUBSET Ranked}

Discovered ==
    {IndexDiscovery({}, {})}
    \cup {IndexDiscovery(pending, forbidden) :
             pending \in (SUBSET Providers) \ {{}}, forbidden \in SUBSET Ranked}
    \cup {BlueprintDiscovery(forbidden) : forbidden \in SUBSET Ranked}

(* The workflow loops while the state it was given has a cursor below the   *)
(* number of pairs.                                                         *)
Loop(x, refresh) == Enter(x, IF refresh.cursor < refresh.total THEN "batch" ELSE "finalize")

(* Mutant: a resumed refresh is discovered again. *)
DiscoverAgain(w) ==
    /\ At(w, "discover")
    /\ wf' = [wf EXCEPT ![w] = [@ EXCEPT !.phase = "discovering"]]
    /\ UNCHANGED <<offered, catalog, curated, caller, refreshes>>

Discover(w) ==
    LET r == wf[w].refresh IN
    /\ At(w, "discover")
    /\ IF HasManifest(r)
         THEN /\ refreshes' = [refreshes EXCEPT ![r] = [@ EXCEPT !.status = "running"]]
              /\ Report(w, Loop(wf[w], refreshes[r]))
         ELSE /\ wf' = [wf EXCEPT ![w] = [@ EXCEPT !.phase = "discovering"]]
              /\ UNCHANGED refreshes
    /\ UNCHANGED <<offered, catalog, curated, caller>>

StoreManifest(w) ==
    LET r == wf[w].refresh IN
    /\ At(w, "discovering")
    /\ \E manifest \in Discovered :
          /\ manifest.pairs # {}
          /\ refreshes' = [refreshes EXCEPT ![r] = [@ EXCEPT
                 !.status = "running", !.manifest = manifest,
                 !.total = Cardinality(manifest.pairs),
                 !.unresolved = refreshes[r].unresolved \cup manifest.providers]]
    /\ Report(w, Loop(wf[w], refreshes'[r]))
    /\ UNCHANGED <<offered, catalog, curated, caller>>

-----------------------------------------------------------------------------
(* refresh_catalog_batch *)

ReadBatch(w) ==
    LET r == wf[w].refresh
        batch == Slice(refreshes[r].manifest.pairs, refreshes[r].cursor)
    IN
    /\ At(w, "batch")
    /\ IF ~HasManifest(r) THEN wf' = [wf EXCEPT ![w] = Retry(@)]
       ELSE IF batch = {} THEN Report(w, Loop(wf[w], refreshes[r]))
       ELSE wf' = [wf EXCEPT ![w] = [@ EXCEPT !.phase = "batching", !.batch = batch,
                       !.start = refreshes[r].cursor, !.found = batch \cap offered]]
    /\ UNCHANGED <<offered, catalog, curated, refreshes, caller>>

(* upsert_product; mark_unavailable, which ignores unknown products. *)
Upsert(product, r) == [product EXCEPT !.state = "active", !.seen = IF r = None THEN @ ELSE r]
MarkUnavailable(product) ==
    IF product.state = "absent" THEN product ELSE [product EXCEPT !.state = "unavailable"]

(* Mutants: the cursor moves one pair too far; not at all. *)
CursorAfterEager(x) == x.start + Cardinality(x.batch) + 1
CursorAfterStuck(x) == x.start

CursorAfter(x) == x.start + Cardinality(x.batch)
Larger(a, b) == IF a > b THEN a ELSE b

CommitBatch(w) ==
    LET x == wf[w] IN
    /\ At(w, "batching")
    /\ catalog' = [p \in Pairs |->
           IF p \in x.found THEN Upsert(catalog[p], x.refresh)
           ELSE IF p \in x.batch THEN MarkUnavailable(catalog[p])
           ELSE catalog[p]]
    /\ refreshes' = [refreshes EXCEPT ![x.refresh] = [@ EXCEPT
           !.status = "running", !.cursor = Larger(refreshes[x.refresh].cursor, CursorAfter(x))]]
    /\ Report(w, Loop(x, refreshes'[x.refresh]))
    /\ UNCHANGED <<offered, curated, caller>>

-----------------------------------------------------------------------------
(* finalize_catalog_refresh *)

(* retire_not_seen: which active products a completed refresh keeps. *)
Kept(r) ==
    {p \in Pairs : /\ Rank(p)
                   /\ \/ catalog[p].seen = r
                      \/ ProviderOf[p] \in refreshes[r].manifest.providers
                      \/ BlueprintOf[p] \in refreshes[r].manifest.blueprints}

Complete(r) ==
    /\ catalog' = [p \in Pairs |->
           IF p \in Active \ Kept(r) THEN [catalog[p] EXCEPT !.state = "retired"] ELSE catalog[p]]
    /\ refreshes' = [refreshes EXCEPT ![r] = [@ EXCEPT
           !.status = "completed", !.lease = FALSE, !.manifest = NoManifest,
           !.cursor = refreshes[r].total]]

(* Mutant: an attempt that finds the refresh completed has nothing to do. *)
FinalizeOnce(w) ==
    LET r == wf[w].refresh IN
    /\ At(w, "finalize")
    /\ \/ /\ refreshes[r].status = "completed"
          /\ wf' = [wf EXCEPT ![w] = EndWith(@, "done")]
          /\ UNCHANGED <<catalog, refreshes>>
       \/ /\ refreshes[r].status # "completed"
          /\ HasManifest(r) /\ refreshes[r].cursor >= refreshes[r].total
          /\ Complete(r)
          /\ wf' = [wf EXCEPT ![w] = [@ EXCEPT !.phase = "curating"]]
    /\ UNCHANGED <<offered, curated, caller>>

Finalize(w) ==
    LET r == wf[w].refresh IN
    /\ At(w, "finalize")
    /\ IF refreshes[r].status = "completed"
         THEN /\ wf' = [wf EXCEPT ![w] = [@ EXCEPT !.phase = "curating"]]
              /\ UNCHANGED <<catalog, refreshes>>
       ELSE IF HasManifest(r) /\ refreshes[r].cursor >= refreshes[r].total
         THEN /\ wf' = [wf EXCEPT ![w] = [@ EXCEPT !.phase = "curating"]]
              /\ Complete(r)
       ELSE wf' = [wf EXCEPT ![w] = Retry(@)] /\ UNCHANGED <<catalog, refreshes>>
    /\ UNCHANGED <<offered, curated, caller>>

(* curate_synced_catalog, in a transaction of its own.  One product stands  *)
(* for each category; here every blueprint is a category and the least      *)
(* offering its best product.                                               *)
Best == {p \in Active : Rank(p) /\ \A q \in Active :
             Rank(q) /\ BlueprintOf[q] = BlueprintOf[p] => p <= q}

Curate(w) ==
    /\ At(w, "curating")
    /\ curated' = Best
    /\ Report(w, EndWith(wf[w], "done"))
    /\ UNCHANGED <<offered, catalog, refreshes, caller>>

(* The command catalog-curate --apply. *)
CurateCommand ==
    /\ curated' = Best
    /\ UNCHANGED <<offered, catalog, refreshes, wf, caller>>

(* fail_catalog_refresh has no retry policy: it is tried until it returns. *)
FailRefresh(w) ==
    /\ At(w, "fail")
    /\ Fail(wf[w].refresh)
    /\ wf' = [wf EXCEPT ![w] = EndWith(@, "failed")]
    /\ UNCHANGED <<offered, catalog, curated, caller>>

FailRefreshResultLost(w) ==
    /\ At(w, "fail")
    /\ Fail(wf[w].refresh)
    /\ UNCHANGED <<offered, catalog, curated, wf, caller>>

-----------------------------------------------------------------------------
(* Everyone else who changes the catalog *)

(* refresh_catalog_product and refresh_catalog_candidates, called by runs    *)
(* for products the catalog has.  What they store was fetched before, when  *)
(* Printify may still have offered the product.                             *)
RefreshProduct(p) ==
    /\ catalog[p].state # "absent"
    /\ catalog' \in {[catalog EXCEPT ![p] = Upsert(@, None)]} \cup
          {[catalog EXCEPT ![q] = MarkUnavailable(@)] : q \in {p} \ offered}
    /\ UNCHANGED <<offered, curated, refreshes, wf, caller>>

(* recover_catalog_providers, for the providers a refresh could not read and *)
(* that can be read now.                                                    *)
Unresolved(r) == IF HasManifest(r) THEN refreshes[r].manifest.providers
                                   ELSE refreshes[r].unresolved
RecoverProviders ==
    \E r \in {s \in RefreshIds : refreshes[s].status # "unused"} :
      \E readable \in (SUBSET Unresolved(r)) \ {{}} :
        /\ catalog' = [p \in Pairs |->
               IF p \in Listed \ Active /\ ProviderOf[p] \in readable
                 THEN Upsert(catalog[p], None) ELSE catalog[p]]
        /\ UNCHANGED <<offered, curated, refreshes, wf, caller>>

(* Printify stops offering a product. *)
Withdraw(p) ==
    /\ p \in offered
    /\ offered' = offered \ {p}
    /\ UNCHANGED <<catalog, curated, refreshes, wf, caller>>

-----------------------------------------------------------------------------
Init ==
    /\ offered = Pairs
    /\ catalog = [p \in Pairs |-> [state |-> IF p \in Known THEN "active" ELSE "absent",
                                   seen |-> None]]
    /\ curated = {}
    /\ refreshes = [r \in RefreshIds |-> Unused]
    /\ wf = [w \in Workflows |-> Off]
    /\ caller = [w \in Manual |-> "off"]

Working(w) ==
    \/ ClaimActivity(w) \/ Discover(w) \/ StoreManifest(w) \/ ReadBatch(w)
    \/ CommitBatch(w) \/ Finalize(w) \/ Curate(w)

Next ==
    \/ \E w \in Workflows : Working(w) \/ FailRefresh(w)
    \/ \E w \in Workflows : AttemptDies(w) \/ FailRefreshResultLost(w)
    \/ \E w \in Scheduled : Fire(w)
    \/ \E w \in Manual : \/ RequestRefresh(w) \/ StartWorkflow(w) \/ StartFails(w)
                         \/ CallerDies(w) \/ FailStart(w)
    \/ \E p \in Singles : RefreshProduct(p)
    \/ \E p \in Endangered : Withdraw(p)
    \/ RecoverProviders \/ CurateCommand

Spec == Init /\ [][Next]_vars

(* Temporal schedules the next attempt of a started workflow, and a live    *)
(* worker executes it.  Nobody has to trigger a refresh, start a workflow   *)
(* that was claimed, or refresh single products.                            *)
Fairness == \A w \in Workflows : WF_vars(Working(w) \/ AttemptDies(w) \/ FailRefresh(w))

FairSpec == Spec /\ Fairness

-----------------------------------------------------------------------------
(* Properties *)

\* Every record, workflow and process is in a state the code can name.
TypeOK ==
    /\ offered \in SUBSET Pairs
    /\ catalog \in [Pairs -> Products]
    /\ curated \in SUBSET Pairs
    /\ refreshes \in [RefreshIds -> Refreshes]
    /\ wf \in [Workflows -> WorkflowStates]
    /\ caller \in [Manual -> {"off", "starting", "failing", "gone"}]

(* Workflows, lost attempts, leases and resumption implement the plain      *)
(* snapshot: every offering of the manifest is visited exactly once, and    *)
(* nothing is retired before all are.                                       *)
Current == {r \in Lease : HasManifest(r)}
Snapshot == INSTANCE CatalogSnapshot WITH
    active <- Active,
    open <- Current # {},
    todo <- {p \in Pairs : \E r \in Current :
                p \in refreshes[r].manifest.pairs
                /\ refreshes[r].cursor < Position(p, refreshes[r].manifest.pairs)},
    keep <- {p \in Pairs : \E r \in Current : p \in Kept(r)}

ImplementsSnapshot == Snapshot!Spec

(* A ranked product that Printify goes on offering never leaves the         *)
(* catalog, whatever part of the catalog a refresh cannot read.             *)
OfferedStaysActive ==
    [][\A p \in Pairs : p \in Active /\ p \in offered /\ Rank(p) => p \in Active']_vars

(* A refresh that stopped is resumed where it was: its manifest and cursor  *)
(* are kept until it completes (docs/catalog-v2.md: "A failed refresh       *)
(* retains its manifest and cursor").                                       *)
ProgressIsKept ==
    [][\A r \in Current : r \in Lease' =>
          /\ refreshes'[r].manifest = refreshes[r].manifest
          /\ refreshes'[r].cursor >= refreshes[r].cursor]_vars

(* A completed refresh stays completed: no late batch or failure reopens it. *)
CompletedFinal ==
    [][\A r \in RefreshIds : refreshes[r].status = "completed" =>
          refreshes'[r].status = "completed"]_vars

(* A workflow that ended well left no product among the curated ones that   *)
(* its refresh retired, also when the worker died between completion and    *)
(* curation.                                                                *)
RetiredIsNotCurated ==
    (\A w \in Workflows : wf[w].phase \in {"off", "ended"} /\ wf[w].result # "failed")
    => \A p \in curated : catalog[p].state # "retired"

(* Every workflow that was started ends, however often attempts are lost.   *)
WorkflowsEnd == \A w \in Workflows : ~At(w, "off") ~> At(w, "ended")

-----------------------------------------------------------------------------
(* What the documentation says, where the code does something else *)

(* temporal.py, start_catalog_refresh: the record of a refresh that nobody  *)
(* works on permits the next trigger to resume it.                          *)
NextTriggerResumes ==
    \A r \in Lease :
        \/ refreshes[r].status = "failed"
        \/ \E w \in Workflows : wf[w].refresh = r /\ wf[w].phase \notin {"off", "ended"}
        \/ \E w \in Scheduled : refreshes[r].workflow = w /\ At(w, "claim")
        \/ \E w \in Manual : wf[w].refresh = r /\ caller[w] \in {"starting", "failing"}

(* docs/catalog-v2.md: completion "retires products absent from the         *)
(* discovery manifest".                                                     *)
RetiresOnlyAbsent ==
    [][\A r \in Current : refreshes'[r].status = "completed" =>
          \A p \in (Active \ Active') \cap offered : p \notin refreshes[r].manifest.pairs]_vars
=============================================================================
