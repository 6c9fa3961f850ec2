# MerchFlow: TLA+ models and proofs

MerchFlow turns product research into Etsy listings. A FastAPI process (`web.py`) accepts
operators' commands, Temporal runs the workflows, a worker executes their activities
(`temporal.py` and the modules it imports), PostgreSQL keeps the records, and two remote
services, Printify and Etsy, are changed by calls whose outcome may be unknown. What makes
the system hard is that an activity may stop between any two of its transactions and remote
calls, is then run again from its beginning, and must neither repeat a create nor lose one.

## Inventory

| Component (source under `src/src/merch`) | State it keeps | Operations | Hard behaviour | Correct when |
|---|---|---|---|---|
| Catalog v2 publication: `catalog_publisher.py`, `services/etsy_catalog_publisher.py` | the Etsy `PublishRecord` with its checkpoints (`response_data`) | one activity, `publish_catalog_run` | crash between checkpoint and remote call, lost responses, late execution, concurrent retries, drift | one product and one listing per run; success is live, linked and final |
| v2 workflow: `CatalogMerchWorkflow`, `catalog_pipeline.py` | `RunRecord` (status, selected opportunity, package), `OpportunityRecord` | prepare, publish, next opportunity, finish | replays, opportunities rejected late | ends; the reported status agrees with the records |
| Retry: `RetryPublishWorkflow`, `web.retry_channel` | none of its own | guard, start workflow, `finish_retry` | races with the run's workflow and other retries | never takes back a success |
| Catalog refresh: `CatalogRefreshWorkflow`, `services/catalog.py`, `repository.py` 607-743 | `CatalogRefreshRecord` (manifest, cursor, owner, lease), catalog products | claim, discover, batch, finalize, fail, recover | a lease without fencing, ambiguous workflow start, resume | only a complete refresh retires products; none is skipped |
| v1 channel publication: `pipeline.publish_channel_run`, `services/etsy_publisher.py` | one `PublishRecord` per channel | reserve, create, publish, poll, verify, direct Etsy | reservation under a row lock, rejected and lost publishes, cost changes | one product per channel, no blind republish |
| v1 workflow: `MerchWorkflow`, approvals and revisions in `repository.py` | run version, approvals, signals | signals, approval, revision, reprice, cancel | signals during activities, stale approvals, lost results | what is published was approved in that version |
| Published artwork replacement: `artwork_replacement.py` | replacement checkpoint and lease in `response_data` | plan, replace, reconcile | several remote changes, each resumable | ends with all photos old or all new, never lost |
| Listing copy refresh: `copy_refresh.py` | per-listing checkpoints | plan, apply, verify | restart in the middle of a batch | each listing changed at most once |
| Daily schedules: launcher, `reconcile_schedules` | deterministic workflow ids | create, update, pause, catch up | two launchers on one day | one design run per day |
| Templates and configuration: `ConfigurationRepository` | the active template | activate, read | activation during run creation | at most one active; a run keeps its snapshot |
| Etsy credentials: `services/etsy_auth.py` | rotating refresh token | access token, rotate | two rotations at once | the stored token is the last one issued |
| Pure algorithms: `domain/pricing.py`, `opportunities.py`, `concept_ranking.py`, `product_options.py`, `etsy_inventory.py` | none | price, rank, choose variants | rounding, limits | margins and limits hold on all inputs |
| Model, research, browser, storage, set-up, HTML | artifacts | calls and parsing | I/O | out of scope |

The components meet in the database rows and in Temporal: workflows call activities, activities
write rows, the web handlers read rows and start or signal workflows. Nothing else is shared.

## Modules

| Module | Models | Proofs |
|---|---|---|
| `CatalogPreparation` | a v2 run from research to release: `research_catalog_run`, `attempt_catalog_opportunity`, the loop of `CatalogMerchWorkflow` | `CatalogPreparationProofs` |
| `Opportunities`, `VariantMatrix`, `Pricing` | its pure algorithms: evidence gate, comparables, scores, ranking; selection of variants; competitive prices | `CatalogPreparationProofs` |
| `Arrangements` | Python's `sorted()`, comprehensions and `sum()` as these algorithms use them, defined by what they return | `CatalogPreparationProofs` |
| `CatalogPublication` | v2 workflow, retries, `publish_catalog_run` | `CatalogPublicationProofs` |
| `CatalogSnapshot` | abstract: take a snapshot, visit all of it, retire the rest | |
| `CatalogRefresh` | `CatalogRefreshWorkflow`, its activities and repository operations; implements `CatalogSnapshot` | `CatalogRefreshProofs` |
| `MerchWorkflow` | a v1 run: the workflow, its activities, the operator's requests, restarts and retries | `MerchWorkflowProofs` |
| `ChannelPublish` | `publish_channel_run` for Etsy and `publish_direct_etsy`; one step of `MerchWorkflow` | `ChannelPublishProofs` |
| `ArtworkReplacement` | `replace_published_artwork`, `reconcile_published_artwork` | `ArtworkReplacementProofs` |
| `CopyRefresh` | preparation, review and application of new listing text | `CopyRefreshProofs` |
| `LeastElements` | | lemmas the proofs share: a nonempty set of numbers has a least element, a bounded one a greatest |
| `MC*` and `*.cfg` | instances for TLC | |

`CatalogPreparation` and `CatalogPublication` meet at the release of an opportunity, as
`MerchWorkflow` and `ChannelPublish` meet at the publication of one channel: the first module of
each pair has it as one step with every outcome, the second takes it apart.

## Plan

Done: the modules above. Left, in this order:

1. `DailySchedule`: launchers, deterministic workflow ids, catching up.
2. `TemplateActivation` and `EtsyAuth`: one active template, the newest refresh token.
3. The v1 pure algorithms: concept ranking, `quote_price`, product options, featured colour.

## CatalogPublication

**State.** `run` is the `RunRecord` (status, selected opportunity, the opportunity the stored
package is for, rejected opportunities); `pub` the Etsy `PublishRecord`, with `prog` the
checkpoints of `response_data` (`product_create_started` is `intent`,
`product_payload_fingerprint` is `fp`, `draft_create_started` is `draft`, `etsy_listing_id` and
`etsy_listing_owned` are `listing` and `owned`) and `uploads` the `surface_upload_ids`;
`products` and `listings` are what exists at Printify and Etsy; `inflight` the create requests
that were sent and not yet executed; `att` the local variables and program counter of every
activity attempt; `wf` the workflows as the Temporal server sees them. A package, its title and
its artwork are all the rank of the opportunity they were made for, so a product with foreign
artwork is a product whose `art` is another rank.

**Steps.** An action is the code between two awaits: one transaction or one remote call. All
code from one `session_scope()` is in one action. Reads that only decide something (the catalog
refresh, the mockup and inventory checks) are a pair of actions for their outcomes. `Crash` may
take an attempt away before any action; `Start` gives the workflow its next attempt as
`ACTIVITY_RETRY` allows. A create request is executed (`ExecuteCreate`) at any time after it was
sent, also after its sender gave up.

**What is assumed of the services.** Printify and Etsy execute a create at most once and at any
time; a refusal (HTTP status below 500) means that it was not executed; a listing search sees
what exists. The Temporal server starts the next attempt only when the last one is gone (a
worker cancels its attempt when its time is over); concurrency comes from operator retries.

**Runs.**

| Run | Instance | Question |
|---|---|---|
| `CatalogPublication` | 2 opportunities on their own surfaces, 1 attempt at a time, 1 retry, 2 tries | all invariants, `SucceededFinal`, and under fairness `MainEnds` |
| `CatalogPublicationTwoRetries` | 2 attempts at once, 2 retries, 1 try | can two listings become active? Yes |

The passing run's properties: `OneProduct` and `OneListing` (a create is never repeated while an
earlier one may have been or may still be executed), `NothingForgotten` (whatever exists is known
to the durable checkpoint), `SucceededIsLive` (a recorded success is an active, linked listing
with the title and artwork of the approved opportunity), `PublishedIsRecorded` (run, workflow and
publication agree), `SucceededFinal`, `MainEnds`. The violation run is a disagreement between the
documentation and the code, described under "findings" in `PROJECT.json`; more of them are under
"Known disagreements" below.

**Bounds.** Two opportunities are the least for a product to be carried over to another package;
two tries the least for a crash to be followed by a replay; one retry the least for a second
workflow over the same records. A retry runs concurrently with the main workflow's own end
(`MarkFailed`, `Report`). Two attempts at once are in the violation run: with them
`OneProduct` and `OneListing` do not hold, which is why the theorems below state under which
condition they do.

**Fairness.** `WF` on the workflow steps (Temporal persists workflow tasks and timers and keeps
dispatching them) and on the steps of an attempt (a live worker goes on). None on operators,
crashes or remote execution. `MainEnds` needs no more: tries and opportunities are finite.

**Proofs** (`CatalogPublicationProofs`, every constant arbitrary).

- `TypeCorrect`: `Spec => []TypeOK`. `TypeOK` alone is not inductive: actions that publish use
  the rank of the attempt, so the invariant adds `HasRank` (an attempt past admission has one).
- `CreateOnceInWorkflow`: without operator retries, `OneProduct`, `OneListing` and
  `NothingForgotten` hold for any number of attempts, tries and opportunities.
- `CreateOnceSerially`: the same with any number of retries when one attempt runs at a time.

Both use the inductive invariant `CreateInv`. Its remote half says that what was created and what
is in flight number at most one per kind and are covered by the durable intent; its local half,
`Knows(a)`, ties every program counter to the record: an attempt about to send holds an intent
nobody else has used, one that waits owns the request in flight, one that was refused leaves none
behind. `Awaited` and `Alone` say that the attempt that may act is the only one, which is what the
two assumptions buy; with two concurrent attempts it is false, as the run
`CatalogPublicationTwoRetries` shows.

Four more theorems assume `Serial`, one or the other of these two conditions:

- `NothingIsForgotten`, `PublishedOnlyIfRecorded`, `SuccessIsFinal`: `NothingForgotten`,
  `PublishedIsRecorded` and `SucceededFinal`. Behind the last two is `Recorded`: nobody works on a
  publication that succeeded, and an attempt or a retry that reports a success found it in the
  record. Two attempts at once break it: one can handle an error after the other has finished.
- `SuccessIsLive`: `SucceededIsLive`, if also no two opportunities print on one surface
  (`OwnSurfaces`; the run `CatalogPublicationSharedSurface` shows what happens otherwise). The
  inductive invariant `LiveInv` has four parts. `Assigned`: an attempt that is alive is the one
  its workflow waits for. `Chosen`: only the opportunity the main workflow is at is selected, and
  it is not rejected. `World`: the recorded ids exist, each artwork goes with its title, and a
  fingerprint of the current opportunity means that the product shows it. `Sound`, for each
  attempt: what it knows at each of its steps, from the admission to the verified link. The
  difficult step is a product carried over from a rejected opportunity: the fingerprint in the
  record is what forces `UpdateProduct` before the listing is touched.

## CatalogRefresh

**State.** `refreshes` are the `CatalogRefreshRecord`s (`lease` is `active_lease`, `workflow` the
owner's workflow id, `unresolved` the providers named in the warnings), `catalog` the
`CatalogProductRecord`s (`state` is `active` with the reason of the deactivation, `seen` is
`last_seen_refresh_id`), `curated` the `CatalogCurationRecord`s, `offered` what Printify serves,
`wf` the workflows with the local variables of their current activity attempt, `caller` the web
or command process that claims a refresh and then starts a workflow. An offering is its position
in the sorted pair list, so the cursor selects a `Slice`.

**Steps.** One per transaction: `Discover` (the first transaction) and `StoreManifest` (the
second) with the remote reads in between, `ReadBatch` and `CommitBatch`, `Finalize` (retirement
and completion) and `Curate`. `Report` lets the result of a committed attempt get lost;
`AttemptDies` loses or fails an attempt before its next transaction. `Discovered` is the set of
manifests that discovery can return when Printify refuses (403) any set of providers and, in the
fallback, any set of blueprint lists; anything else refused makes the attempt fail. Others who
change the catalog are `RefreshProduct` (runs), `RecoverProviders` and `CurateCommand`
(operators) and `Withdraw` (Printify).

| Run | Instance | Question |
|---|---|---|
| `CatalogRefresh` | 2 refreshes, a scheduled and a manual workflow, 2 ranked offerings in batches of 1, an unranked one, 2 tries | does it implement `CatalogSnapshot`, leave nothing retired curated (`RetiredIsNotCurated`) and end (`WorkflowsEnd`)? |
| `CatalogRefreshForbidden` | 3 ranked offerings of 2 blueprints and 2 providers, batches of 2 | does anything still offered leave the catalog (`OfferedStaysActive`)? Is progress kept (`ProgressIsKept`) and completion final (`CompletedFinal`)? |

**Refinement.** `active` of the snapshot is the set of active products, `todo` the part of the
manifest beyond the cursor, `keep` what the completion would not retire. Losing an attempt,
failing, claiming and resuming are stutters; a batch that moved the cursor too far, or a
completion before the end, would not be a step of `CatalogSnapshot`.

**Bounds.** Two refreshes show that products seen by the first are judged anew by the second;
two workflows that one resumes what the other left; two tries that a committed attempt is
repeated. Products of `Endangered` may be withdrawn, those of `Singles` refreshed alone; only a
withdrawn product can make a difference there, so the two sets are the same. An attempt is
supposed to be gone when the next one starts, as in `CatalogPublication`; two workflows over one
record arise from an ambiguous start, which is excluded in the passing runs
(`UnknownStarts = FALSE`), or from a lost result of `fail_catalog_refresh`, which needs a third
workflow to do harm. `CatalogRefreshOverlap.cfg` shows the first, `CatalogRefreshLateReport.cfg`
the second.

**Fairness.** `WF` on the steps of a started workflow, lost attempts included, and on
`FailRefresh`, which Temporal repeats until it returns. None on triggers, callers, starts or
Printify.

**Proofs** (`CatalogRefreshProofs`, every constant arbitrary). Without any assumption:
`TypeCorrect`; `OneLease`, two refreshes never hold the lease and whoever may write to a refresh
knows an existing one; `CurationFollows`, which is `RetiredIsNotCurated`. `RefreshInv` joins types,
lease and `KnowsRefresh`, because none is inductive alone: a batch is well typed only if its
workflow knows a refresh, and a caller's claim may only reset a workflow that has not run.
`CurationDue` is what `RetiredIsNotCurated` lacks: while a curated product is retired some workflow
is between its completion and its curation, or failed there. Only `Complete` makes products
retired, and it leaves its workflow at the curation, where a lost attempt returns to.

The rest rests on `OneWorker`, that no two workflows work on one refresh. `TwoWorkAlone` proves it
of two workflows if a start that raised started nothing (`~UnknownStarts`, `AtMostTwo`; the
instance of the runs), `OwnersWorkAlone` of any number if no failure handler reports on a refresh
that has another owner by then (`HandlersOwn`). Neither can be dropped: without the first
`CatalogRefreshOverlap.cfg` shows the harm; without the second the report of a first workflow,
repeated because its result was lost, marks the refresh of a second as failed, so that a third
takes it over (`CatalogRefreshLateReport.cfg`). `OwnerSound` is the invariant behind both: whoever works on a refresh is the owner
its record names, and the record says failed under its hands only if a late report came from the
one other workflow.

From `[]OneWorker` follow `RefreshImplements` (`ImplementsSnapshot`), `OfferedStay`, `ProgressKept`
and `CompletedStaysFinal`; `TwoWorkflows` states the four from `Spec` alone. Their invariant
`SnapshotInv` adds that a lease goes with an unfinished status and a manifest with the lease
(`LeaseSound`); that a manifest lists ranked offerings and covers every offering but those it says
it could not read, and that what the cursor has passed and is still offered was seen
(`ManifestSound`); that a batch that was read is still the next slice (`WorkerSound`). `StepKinds`
sorts every step into one that leaves manifests alone, stores a manifest, visits a batch or
completes; each kind is then mapped to a step of the snapshot. That a cursor at the total has
passed the whole manifest, and that a slice moves it by its size, are lemmas about `Position`
and `Cardinality` (`PositionBounds`, `PositionOrder`, `SliceIsNext`).

## CatalogPreparation

**State.** `run` is the `RunRecord` with its `OpportunityRecord`s (`eligible` and `reason` are
their status and rejection), `ip` with `screened` and `analysis` with `analysed` the stored
reports and the opportunity each belongs to, `package` the stored package. `store` holds the
artifacts of an opportunity: contact sheet, reference images, artwork per print surface. `att`
are the local variables of the attempts of an activity, `wf` the workflow. `active` and
`pictures` are what others change meanwhile: the catalog table and the marketplaces' pictures.
`bought`, `kept` and `released` are history: the paid calls, those whose result was stored, and
what was published. An image is the number of the call that made it. A rank is a place in the
stored ranking; artifacts, calls and packages belong to the id of an opportunity, as in the code,
where the id is a hash of the product, its place in the cycle and its comparables: `Digest`, of
which only that no two are equal is assumed. `wf.count` is the number of opportunities the
workflow was told of when research answered, which may not be what the run record holds later.

**Steps.** One per transaction, or per call of a service with what is computed from its answer.
`Interrupted` cuts an attempt off or loses its answer; `Expire` gives one up, which may then go on
beside its successor (only where `world.patient` is false). What a model answers is a choice;
what the code computes is computed: `BuildOpportunities` gates, scores, orders and cuts off the
researched evidence, `ReduceVariationAxes` selects the variants, `CompetitivePrice` prices them.
Every failure of the code's own checks is a `Reason` of its own and a rejection, as in the
`except` clauses of `attempt_catalog_opportunity`; the errors that leave the activity end in a
retry. Publication is one step with its outcomes.

**Algorithms.** Money is in cents, percentages in per mille: what the code computes with
`Decimal` and rounding is integer division with the same rounding (`RoundDiv`, `CeilDiv`).
Scores, which the code computes with floats from integers, are exact here, in hundredths. `CompetitivePrice`,
`BuildOpportunities` and `ReduceVariationAxes` were compared with the Python functions on several
thousand random inputs when they were written.

| Run | Instance | Question |
|---|---|---|
| `CatalogPreparation` | 2 ranks of 3 opportunities, 2 attempts, 2 tries; some worlds where up to three things go wrong, some six hundred where nothing does | is a package whole (`PackageIsWhole`), are its prices the best allowed (`PricesAreBest`) and its variants a complete, cheapest matrix (`OfferIsMatrix`), and is nothing paid for twice (`PaidOnce`)? |
| `CatalogPreparationAxes` | one product with three axes, two supported | are further axes collapsed (`AxesAreCollapsed`)? No, the product is rejected |

`PricesAreBest` and `OfferIsMatrix` are reference definitions: they search all prices and all
combinations, where the code computes. `PackageIsWhole` says for every interleaving that the
artwork is that of the opportunity; the rest, and `PaidOnce`, only for patient worlds: an attempt
that was timed out and goes on may store its analysis for the opportunity after it.

**Bounds.** Two ranks are the least for what one opportunity left behind to reach another; three
opportunities (the code keeps 25) and three comparables (10) the least for the cut-offs to cut
something off; two of the five queries the least for one to fail and one to go on. `MaxAxes` 2
and `MaxEnabled` 4 (100) make both limits bite with a handful of variants. `MaxProducts` bounds
the catalog table. `WorldsAssumption` says what the rows the run starts from can be: amounts are
numbers of cents or unknown, options are finitely many (`CatalogVariant`,
`CompetitorListingSnapshot`); it does not ask that the products are any good.

Behaviour met while modelling that is no disagreement with a document: an error that a service
raises during an attempt counts against the opportunity and not against the attempt
(`catalog_pipeline.py:813`); if the ten strongest comparables are of one marketplace, research
fails although the gate passed the whole evidence; a run that is resumed releases on evidence
whose freshness was judged when it was researched; the originality assessment and the listing
text are asked for again by every try.

**Proofs** (`CatalogPreparationProofs`; every constant arbitrary: products, evidence, fees, limits,
attempts, tries). All five properties of the run are theorems. In the order of the module:

- *Algorithms.* `SortedBy` chooses the element that has n - 1 ahead of it; `LinearOrder` shows that
  there is always exactly one, so that the result is a permutation, ascending, with equal keys in
  their old order (`SortedSeq`). `PriceIsBest` is the pricing of one variant for every cost, fee
  and median. `SelectionIsMatrix` is `reduce_variation_axes`: the enumeration of prefixes has a
  best one among those that fit, and a prefix whose existing combinations are as many as its box
  has points has no hole. `ResearchedRows` is `build_opportunities`: well-formed rows, each with
  an id of its own.
- *Types.* `Inv` says what each record can hold, an attempt with the progress its `pc` stands for.
  `TypeCorrect` needs all of it: the loop stays within the ranks only because an answer counts the
  opportunities of the run.
- *Parts of a package.* `Parts` adds that what an attempt has drawn is in the store unless it is
  about to be stored (`WholeInv`), that a package holds what the algorithms make of its
  opportunity and the stored artwork (`PackageInv`), and that what counts as stored is there
  (`KeptInv`). Attempts may overlap: the artwork is safe because `_upsert_artifact` never replaces
  any. Hence `OfferIsComplete`, `PricesAreTheBest` and the first half of `PackagesAreWhole`.
- *Attempts that do not overlap* (`world.patient`). `Orderly` says that one attempt runs, the
  workflow's own (`Alone`); that it works on the rank the workflow is at, which is eligible, on the
  selected opportunity, with its reports and analysis (`Follows`); that the selected opportunity is
  the best one left, and what was ever stored for an opportunity is in the run record until it is
  rejected (`Sound`); that the ranks the workflow has passed are rejected, and a run that is
  publishing or published has the package of the opportunity it is at (`Path`). That it is the best
  one left is what makes the reuse sound after a resumption, which starts again at rank 1. Hence
  `PackagesAreWhole` and `NothingIsPaidTwice`. Without the assumption TLC finds counterexamples
  to both, so the properties claim them only under it.

## MerchWorkflow

**State.** `run` is the `RunRecord` with its approvals, `artifacts` the artwork of every package
version and revision with its QA verdict, `attempts` the brief rewrites in the audit trail,
`publishes` the `PublishRecord` statuses, `wf` the workflows of the run (each restart starts
another) with their signals, `att` the attempt of every workflow and, in slot `Late`, one that was
given up and goes on. `template` and `market` are what revalidation compares the package with.

**Steps.** An activity is the transactions it makes; between any two of them `CutOff` loses it and
`TimeOut` moves it to `Late`. `AfterX` is the workflow's reaction to its result; `TakeX` the
handling of a signal in its wait; `Approve`, `Reject`, `Regenerate`, `Cancel`, `Edit`,
`ResumeResearched`, `RetryArtwork` and `RetryChannel` are the operator's requests, each a
transaction and the signal or start that follows it.

**Properties.** `RewriteBudget` (the model is asked for at most `MaxRewrites` briefs, rejected and
interrupted attempts included, and a version is rewritten once), `ReleasedAsReviewed` (while
channels are published, artwork, copy and prices are what the author of the approval looked at),
`ReleasedAsApproved` (with artwork that passed QA, under an approval of the present version),
`NoOrphan` (a run that claims to be worked on has a workflow that is neither closed nor stuck),
`RestIsFinal`, and under fairness `NoEndlessWork`. A workflow that waits counts as one that serves
its run: after a lost answer of `record_approval` that is generous (`MerchWorkflowLostAnswer.cfg`).

**Closed and stuck.** The `except` clause of `MerchWorkflow.run` marks the run failed and raises
again. The error of an activity is a Temporal `FailureError` and closes the workflow. The
`ApprovalInvalid` that the workflow's own code raises for an automatic release (temporal.py:546,
559, 570; field `invalid`) is a `RuntimeError`, for which Temporal fails the workflow task and
retries it without end: `Close` makes such a workflow `stuck`. It can still be sent signals (`Tell`),
and nothing comes of them. `NoEndlessWork` counts it as settled, since it changes nothing any more;
that such a workflow ends is `StoppedReleaseEnds`, which `MerchWorkflowStopped.cfg` refutes.

**Bounds and assumptions.** Two channels are the least for a partial publication; two workflows
for one that was overtaken; two events (requests, faults, shifts together) for a signal during a
fault. Only `rewrite` is in `Slow`: it is the one activity whose code speaks of late answers.
`Eager` is FALSE: the operator acts when the workflow waits or has ended. What an eager operator
can cause is `MerchWorkflowOvertaken.cfg`, under "Known disagreements".

**Fairness.** `WF` on `Work`: Temporal keeps dispatching workflow tasks and repeats attempts. None
on operators, faults or late attempts.

**Proofs** (`MerchWorkflowProofs`, every constant arbitrary). Every property of the run but
`NoEndlessWork` is proved; the first two theorems include eager operators and any `Slow`.
`TypeCorrect` needs `TypeInv`: attempts are left to every activity that is repeated
(`Flows`), the artwork an attempt works on leaves room for the revision that follows a repair
(`Room`), an attempt that draws has a version and one that waits for a brief has its entry in the
audit trail (`Fits`), and the trail has at most `MaxRewrites` entries. `RewritesAreBounded` adds
`RewriteInv`: entries are of versions the run had, accepted ones of versions it has left, and an
attempt's entry is of the version it read. So two accepted rewrites of one version are impossible:
the first moved the run on, and whoever asks later reads another version.

`ReleasesAreReviewed`, `ReleasesAreApproved`, `NoRunIsOrphaned` and `RestStays` assume `Patient`,
the two choices under "Bounds and assumptions": the operator acts when the workflow waits or has
ended, and only rewrites are answered late. Without it an old workflow and its successor work on
one run, and `MerchWorkflowOvertaken` shows where that leads; with it they rest on `ReleaseInv`,
which none of the four can do without:

- `Stand`: only the run's own workflow is under way, beside at most one late rewrite (`Alone`), the
  status of the run says what that workflow may be doing (`Stands`), and a channel is retried only
  when the workflow is over (`Retried`). A late rewrite finds a run that is not paused any more,
  or the version it read already left.
- `Drawn`: no artwork belongs to a version to come, a passed run shows artwork that passed and
  nothing newer, and what an attempt has drawn is what is saved.
- `Signed`: an approval names no version to come, and one that names the present version is of the
  package as it is, whose artwork nobody is drawing. It lasts because every change of artwork,
  copy or prices begins another version; a run that is released has an approval of the version
  it is at.
- `Sold`: what a workflow knows of a channel is what its publication record says, the status of
  an ended run follows from it, and only an approved, passed run has publication records.

`RestStays` needs `Sold` for the last activity repeated after a lost answer: the second summary
is the first, because the results it counts are those the records still hold. TLC checked
`ReleaseInv` on the instance of the run before it was proved.

## ChannelPublish

**State.** `rec` is the Etsy `PublishRecord` with its checkpoints, `printify` and `etsy` what the
providers hold, `late` the requests they will still carry out, `proc` the attempts. An attempt's
number stands for the Printify upload and product it makes.

**Steps.** One transaction (every `_checkpoint_etsy_publish` is one), one remote write, or the
reads before a decision. A write is carried out, refused, or carried out later with its answer
lost; an attempt can be cut off before any step.

**Runs.** `ChannelPublish` has two workers, two photos, three attempts, one fault, a publish
request that is sent at most twice (`Sends`; the code sends it four times), with `overlap` both
TRUE and FALSE. `NothingTwice`: one product, one draft, one image per colour, however attempts
overlap. `ActiveIsComplete`: a listing this code built is not active before it is complete.
`RetriesRetain`: product, accepted answer, image ids and success stay; the listing and the id of
the success stay when attempts follow one another. `SuccessIsLive`: a recorded success is live,
when attempts follow one another. `ChannelPublishStale` shows that overlapping attempts
break the last one. Three attempts are the least for one that resumes what a second left of a
first; two photos the least for an interrupted upload. That the listing stays also when attempts
overlap holds of two and not of three workers: `ChannelPublishThree.cfg`, under "Known
disagreements".

**Proofs** (`ChannelPublishProofs`, every constant arbitrary, nothing assumed): all properties of
the passing run. `NothingTwice` rests on `OnceInv`: for every request that must not be sent twice,
it has been carried out, or it waits at the provider (`late`), or exactly one attempt may send it,
never two of the three, and in each case the record reserves it. `Grounded` and `Distinct` make
this inductive: whoever sends has the number and the photo it sends, and no request waits twice.
`ActiveIsComplete` adds `Built` (an attempt that builds has written the inventory, one about to
activate has seen everything, and nothing is undone). `RetriesRetain` and `SuccessIsLive` add
three facts. `Kept`: the recorded product exists, and as there is one product, a retry can only
record the same. `Made`: every listing that the record, Printify or an attempt names exists;
without it a late draft could turn an active listing back into a draft. `Serial`, for attempts
that follow one another: what an attempt saw when it decided still holds when it acts.

## ArtworkReplacement

**State.** `rec` is the run's status and upload with the `artwork_replacement` checkpoint
(`status`, operation and attempt id, the new upload, the retained ids, the snapshot); `art` the
artwork in the print areas of the Printify product; `shop` the Etsy listing's state, gallery and
colour links; `sold` the artworks that buyers' photos showed; `edits` what others changed.

**Steps.** Every checkpoint, every remote write and every group of reads that decides something.
A command's number stands for its operation id, attempt id and upload. Commands die anywhere;
writes are refused or executed with their answer lost; customers buy while the listing is active.

**Runs.** Two operators, two photos, three commands of either kind, two polls of the mockups,
edits of approved fields and of the placement by others. `SoldAsPrinted`: nobody receives another
artwork than the photo they bought from showed. `PublishedIsLive`: a run called published has an
active listing whose photos and product show the recorded artwork. `PhotosAreReplaceable`: a photo
of the published artwork is deleted only while the listing is inactive and new photos exist. Three
commands are the least for a takeover of a takeover. `Overdue` is FALSE: a lease is taken over
when its holder is gone; a holder that lives on past its lease is `ArtworkReplacementFencing.cfg`,
under "Known disagreements". No liveness: commands are given by operators.

**Proofs** (`ArtworkReplacementProofs`, every constant arbitrary). `TypeCorrect` holds wherever
commands stop; the other theorems assume `~Overdue`, as the run does. `SoldAsPrinted`,
`PublishedIsLive` and `PhotosAreReplaceable` follow from one inductive invariant,
`ReplacementInvariant`: while a command is active the checkpoint is its own (`Holds`), and the
product, the listing and the photos are as its step needs them (`Knows`); a command that waits for
the lease gets it only while what it read is still true (`MayLease`). That nobody else acts
meanwhile is what `~Overdue` buys. The oldest and the newest photo are `CHOOSE`s of a least and a greatest
number; `LeastElements` proves that the photos have them.

## CopyRefresh

**State.** `batch` and `item` are the `CopyRefreshBatchRecord`s and `CopyRefreshItemRecord`s,
`live` what both shops show, `prep` and `apply` the preparations and the apply workflows, `page`
what the operator has open; `approved` and `kept` are history. A text stands for title,
description and tags, `shape` for everything else that is compared.

**Properties.** `AppliedAsApproved` (a text in a shop was there before, is somebody else's, or was
on the page the operator approved), `EffectiveIsLive` (the text `effective_approved_listing`
returns is the live one), `OthersAreRespected` (a text somebody else wrote while no attempt was in
the middle of the item stays until a preparation read it).

**Bounds.** Two runs, two texts, two batches of up to two items; one fault and two edits by others;
`Patient`: preparations and retries start
when nothing else runs. Two preparations at once are the violation run
`CopyRefreshOverlap`. One edited run of two, because editing is per item.

**Proofs** (`CopyRefreshProofs`, every constant arbitrary). `TypeCorrect` needs no assumption, the
other theorems `Patient`, without which they are false. The inductive invariant
(`RefreshInvariant`) has five parts beside the properties: batches that share a run come one after
the other (`Succession`); the status of a batch says what was approved and under which digest
(`Reviewed`); one preparation works, on a batch nobody has reviewed (`OnePreparation`); each
application has a batch of its own, and what it read of its item is still true (`OwnApplication`);
an applied text stays in the shops until others change it (`Shops`). Without `Succession` a second
batch could overwrite what `Shops` says of the first, and without `OwnApplication` the last write
to an item could store a text that is not live.

## Known disagreements

The four violation runs are described under "findings" in `PROJECT.json`. These configurations are
kept beside them and show more; `tlc -config <file> <module>` reproduces each:

| Configuration | Module | What the documentation says and the code does not |
|---|---|---|
| `CatalogPublicationSharedSurface.cfg` | `MCCatalogPublication` | released artwork is the approved one (`ApprovedArtOnly`): two opportunities on one surface share an upload checkpoint |
| `CatalogPublicationDrift.cfg` | `MCCatalogPublication` | a run without a qualified opportunity leaves nothing listed (`NoQualifiedMeansNothingListed`) |
| `CatalogPublicationAmbiguous.cfg` | `MCCatalogPublication` | `verification_required` is visible in the run (`VerificationIsVisible`): not after an ambiguous create |
| `CatalogPublicationReplay.cfg` | `MCCatalogPublication` | a replay returns the recorded outcome (`ReplayReturnsResult`): not `verification_required` |
| `CatalogRefreshOverlap.cfg` | `MCCatalogRefresh` | a complete refresh retires only what its manifest lacks (`RetiresOnlyAbsent`): not with two workflows over one record |
| `CatalogRefreshLateReport.cfg` | `MCCatalogRefresh` | the same without an ambiguous start: the repeated failure report of a first workflow marks the refresh of a second as failed, and a third takes it over |
| `CatalogRefreshStuck.cfg` | `MCCatalogRefresh` | the next trigger resumes (`NextTriggerResumes`): not when the claiming process died before the start |
| `ArtworkReplacementFencing.cfg` | `MCArtworkReplacement` | a new lease fences the checkpoints of the old one (`LeaseFences`): a command whose lease was taken over can reopen a later, completed replacement, which dropped the attempt id the check compares |
| `ChannelPublishThree.cfg` | `MCChannelPublish` | retries retain the draft's id (`ListingStays`; README.md:288 of the repository): of three attempts that overlap, one finds Printify's own listing after another reserved a draft, and each records its own |
| `MerchWorkflowStopped.cfg` | `MCMerchWorkflow` | "automatic release stopped after repeated catalog changes" (temporal.py:560; `StoppedReleaseEnds`): the run is marked failed, but its workflow never closes, because `ApprovalInvalid` fails only the workflow task |
| `MerchWorkflowLostAnswer.cfg` | `MCMerchWorkflow` | a release comes to an end (`PublishingEnds`): when the answer of `record_approval` is lost, its repetition refuses the approval it recorded, and the workflow waits while the run is publishing |
| `MerchWorkflowOvertaken.cfg` | `MCMerchWorkflow` | an answer that comes after the operator moved on stops its workflow (`OvertakenStops`) |

## Only model-checked, and not modelled

Proved for all constants are the theorems named above: about `ChannelPublish`,
`ArtworkReplacement` and `CopyRefresh` every property of their passing runs, about
`CatalogPublication` every one but `MainEnds`, about `CatalogPreparation` every one, about `CatalogRefresh` every one but `WorkflowsEnd`
(the snapshot and its action properties where one workflow at a time works on a refresh), about
`MerchWorkflow` every one but `NoEndlessWork`, the release of a run under `Patient`.
Everything else is checked on the instances described: liveness and every statement with fairness
or `ENABLED`, which the prover does not handle, and the comparison of the algorithms with the
Python functions, which was a test.

Not modelled: dry-run mode and the storefronts other than Etsy (the same records with fewer
steps); the per-image upload intents of `catalog_publisher.py`; daily schedules, template
activation and Etsy token rotation (planned); concept ranking, `quote_price`, product options and
the featured colour (planned); pixels, fonts, wording, HTML, prompts and the parsing of answers
(data that no property tells apart); rate limits and HTTP retries of safe reads; audit rows other
than those a decision reads; the command line, settings and set-up scripts.
