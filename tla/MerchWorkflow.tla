--------------------------- MODULE MerchWorkflow ---------------------------
(***************************************************************************)
(* A v1 run from research to publication: MerchWorkflow (temporal.py), the *)
(* activities it calls (pipeline.py), what the operator can do meanwhile   *)
(* (web.py), and the workflows that restart or retry a run.                *)
(*                                                                         *)
(* The workflow is deterministic and survives crashes; its activities are  *)
(* attempts that may be cut off between any two transactions, also after   *)
(* the last one, and are then repeated.  An attempt that was timed out may *)
(* go on beside its successor.  An action is one transaction of an         *)
(* attempt, one step of a workflow, or one request of the operator.        *)
(*                                                                         *)
(* "working" stands for the statuses no guard tells apart: researching,    *)
(* screening, ranking, generating, prepress, qa and listing.  Templates    *)
(* are for one garment.  Publishing one channel is one step here;          *)
(* ChannelPublish has its detail.                                          *)
(***************************************************************************)
EXTENDS Integers, Sequences, FiniteSets

CONSTANTS
    Channels,      \* storefronts
    NumCandidates, \* researched concepts
    Modes,         \* release settings to consider: "automatic", "manual", "ip"
    MaxRevisions,  \* images per artwork version (max_revision_attempts)
    MaxRewrites,   \* brief rewrites per run (max_brief_rewrites, 8)
    MaxAttempts,   \* attempts of an activity (ACTIVITY_RETRY, 4)
    MaxWorkflows,  \* workflows a run gets, the first one included
    MaxVersion,    \* bound on package versions
    MaxActs,       \* operator requests
    MaxShifts,     \* changes of the template or of Printify's catalog
    MaxFaults,     \* attempts that are cut off, time out or fail
    MaxEvents,     \* bound on requests, shifts, faults and repaired revisions together
    Slow,          \* activities whose attempt may go on after its timeout
    Eager          \* whether the operator also acts while a workflow is busy

ASSUME ConstantsAssumption ==
    /\ Modes \subseteq {"automatic", "manual", "ip"}
    /\ {NumCandidates, MaxRevisions, MaxAttempts, MaxWorkflows, MaxVersion} \subseteq Nat \ {0}
    /\ {MaxRewrites, MaxActs, MaxShifts, MaxFaults, MaxEvents} \subseteq Nat
    /\ Eager \in BOOLEAN

VARIABLES
    run,           \* the run record
    artifacts,     \* saved artwork: per version, the state of every revision
    attempts,      \* the rewrite attempts in the audit trail
    publishes,     \* the publication record of every channel
    wf,            \* the run's workflows
    att,           \* the activity attempt of every workflow, and a late one
    retry,         \* the retry workflow of every channel
    template,      \* the active product template
    market,        \* what Printify's catalog says of it
    mode,          \* the release settings
    budget         \* requests, shifts and faults so far

vars == <<run, artifacts, attempts, publishes, wf, att, retry, template, market, mode,
          budget>>

-----------------------------------------------------------------------------
(* Types *)

Workflows == 1..MaxWorkflows
Versions == 1..MaxVersion
Late == 0                      \* the slot of an attempt that was given up
Slots == Workflows \cup {Late}

Templates == {"agreed", "dearer", "reshaped"}
Markets == Templates \cup {"gone", "reserve_gone"}
Rest == {"published", "rejected", "cancelled", "no_safe_candidate"}
Statuses == Rest \cup {"pending", "working", "awaiting_brief_revision",
                       "awaiting_approval", "publishing", "verification_required",
                       "partially_published", "failed"}
Origins == {"none", "creative", "rewrite", "fallback", "operator"}
Briefs == [by: Origins, version: 0..MaxVersion]
NoBrief == [by |-> "none", version |-> 0]
Quotes == [at: Templates \cup {"none"}, edited: BOOLEAN]
NoQuotes == [at |-> "none", edited |-> FALSE]
Packages == [art: [version: 0..MaxVersion, revision: 0..MaxRevisions],
             listings: 0..MaxVersion, quotes: Quotes]
NoPackage == [art |-> [version |-> 0, revision |-> 0], listings |-> 0, quotes |-> NoQuotes]
Runs == [status: Statuses, ready: BOOLEAN, version: Versions, workflow: Workflows,
         researched: BOOLEAN, selected: BOOLEAN,
         blocked: 0..NumCandidates, brief: Briefs, passed: BOOLEAN,
         listings: 0..MaxVersion, quotes: Quotes, snapshot: Templates \cup {"none"},
         fallback: BOOLEAN,
         approvals: SUBSET [version: Versions, decision: {"approved", "rejected"}]]

Verdicts == {"passed", "fixable", "blocked"}
Revisions == UNION {[1..n -> Verdicts \cup {"source"}] : n \in 0..MaxRevisions}
Outcomes == {"started", "interrupted", "provider_error", "superseded", "rejected",
             "accepted"}
PublishStatuses == {"none", "failed", "reconciliation_required", "succeeded"}

\* An approval; package is what its author looked at (not part of the signal).
Signals == [actor: {"none", "admin", "system"}, version: 0..MaxVersion,
            channels: SUBSET Channels, package: Packages]
NoSignal == [actor |-> "none", version |-> 0, channels |-> {}, package |-> NoPackage]

Activities == {"research", "screen", "generate", "rewrite", "automatic", "record",
               "revalidate", "reapprove", "publish", "finish", "cancel", "reject", "fail"}
\* A stuck workflow is open, but its task fails whenever it is tried.
Over == {"closed", "stuck"}
Stages == Activities \cup Over \cup {"unborn", "wait"}
WorkflowStates ==
    [stage: Stages, tries: 0..MaxAttempts, regenerate: BOOLEAN, preserve: BOOLEAN,
     reuse: BOOLEAN, approval: Signals, rejected: BOOLEAN, again: BOOLEAN,
     cancelled: BOOLEAN, current: Signals, reapprovals: 0..2, invalid: BOOLEAN,
     results: [Channels -> PublishStatuses]]
Unborn ==
    [stage |-> "unborn", tries |-> 0, regenerate |-> FALSE, preserve |-> TRUE,
     reuse |-> FALSE, approval |-> NoSignal, rejected |-> FALSE, again |-> FALSE,
     cancelled |-> FALSE, current |-> NoSignal, reapprovals |-> 0, invalid |-> FALSE,
     results |-> [c \in Channels |-> "none"]]

Steps == {"start", "answer", "brief", "artwork", "hold", "list", "store", "done"}
AttemptStates ==
    [kind: Activities \cup {"idle"}, step: Steps, regenerate: BOOLEAN, preserve: BOOLEAN,
     version: 0..MaxVersion, brief: Briefs, template: Templates \cup {"none"},
     arts: Revisions,
     listings: 0..MaxVersion, entry: 0..MaxRewrites, signal: Signals, ok: BOOLEAN]
Idle ==
    [kind |-> "idle", step |-> "start", regenerate |-> FALSE, preserve |-> TRUE,
     version |-> 0, brief |-> NoBrief, template |-> "none", arts |-> <<>>,
     listings |-> 0, entry |-> 0, signal |-> NoSignal, ok |-> FALSE]

-----------------------------------------------------------------------------
(* The package under review *)

Decided(arts) ==
    /\ arts # <<>>
    /\ arts[Len(arts)] \in {"passed", "blocked"}

\* The revisions of a version that have a production artifact.
Production(v) == {i \in DOMAIN artifacts[v] : artifacts[v][i] # "source"}
Newest(S) == CHOOSE i \in S : \A j \in S : j <= i

\* What publish_channel_run takes: the latest production artifact of this version
\* or an earlier one.
Artwork(version) ==
    LET made == {v \in 1..version : Production(v) # {}}
    IN IF made = {} THEN NoPackage.art
       ELSE [version |-> Newest(made), revision |-> Newest(Production(Newest(made)))]

Package == [art |-> Artwork(run.version), listings |-> run.listings, quotes |-> run.quotes]

\* Dropping what belongs to an earlier version.
Cleared(r) == [r EXCEPT !.version = @ + 1, !.passed = FALSE, !.listings = 0,
                        !.quotes = NoQuotes, !.ready = FALSE]

Status(r, s) == [r EXCEPT !.status = s, !.ready = FALSE]

-----------------------------------------------------------------------------
(* Attempts and workflows *)

At(s, kind, step) == att[s].kind = kind /\ att[s].step = step
Goto(s, step) == att' = [att EXCEPT ![s].step = step]

\* A late attempt has nobody to answer to.
Return(s, ok, signal) ==
    att' = [att EXCEPT ![s] =
               IF s = Late THEN Idle
               ELSE [@ EXCEPT !.step = "done", !.ok = ok, !.signal = signal]]
Answer(s, ok) == Return(s, ok, NoSignal)

\* The attempt a workflow in this state is waiting for.
Wanted(f) ==
    IF f.stage \notin Activities THEN Idle
    ELSE [Idle EXCEPT !.kind = f.stage, !.regenerate = f.regenerate,
                      !.preserve = f.preserve, !.signal = f.current]
Enter(w, f) ==
    /\ wf' = [wf EXCEPT ![w] = f]
    /\ att' = [att EXCEPT ![w] = Wanted(f)]
To(w, stage) == Enter(w, [wf[w] EXCEPT !.stage = stage, !.tries = 0])

\* ACTIVITY_RETRY limits attempts; activities without it are repeated for ever.
Limited == Activities \ {"record", "finish", "cancel", "reject", "fail", "publish"}
Failed(w) == [wf[w] EXCEPT !.stage = "fail", !.tries = 0]
\* The workflow's own code raises ApprovalInvalid.
Invalidated(w) == [Failed(w) EXCEPT !.invalid = TRUE]
Again(w) ==
    LET tries == wf[w].tries + 1
    IN IF wf[w].stage \notin Limited THEN wf[w]
       ELSE IF tries = MaxAttempts THEN Failed(w)
       ELSE [wf[w] EXCEPT !.tries = tries]

\* The attempt raises an error; ApprovalInvalid is not repeated.
Raise(s, final) ==
    IF s = Late THEN att' = [att EXCEPT ![s] = Idle] /\ UNCHANGED wf
    ELSE Enter(s, IF final THEN Failed(s) ELSE Again(s))

world == <<retry, template, market, mode, budget>>
others == <<artifacts, attempts, publishes, world>>

\* The bounds on what happens to a run.
Repaired == {v \in Versions : \E i \in DOMAIN artifacts[v] : artifacts[v][i] = "fixable"}
Events == budget.acts + budget.shifts + budget.faults + Cardinality(Repaired)
Spend(what, max) ==
    /\ budget[what] < max
    /\ Events < MaxEvents
    /\ budget' = [budget EXCEPT ![what] = @ + 1]

-----------------------------------------------------------------------------
(* Research and selection *)

Research(s) ==
    /\ At(s, "research", "start")
    /\ IF run.researched THEN Answer(s, TRUE) /\ UNCHANGED run
       ELSE run' = Status(run, "working") /\ Goto(s, "answer")
    /\ UNCHANGED <<wf, others>>

StoreResearch(s) ==
    /\ At(s, "research", "answer")
    /\ run' = [run EXCEPT !.researched = TRUE]
    /\ Answer(s, TRUE)
    /\ UNCHANGED <<wf, others>>

Screen(s) ==
    /\ At(s, "screen", "start")
    /\ IF run.selected THEN Answer(s, TRUE) /\ UNCHANGED run
       ELSE IF mode = "ip" /\ run.blocked = NumCandidates
       THEN run' = Status(run, "no_safe_candidate") /\ Answer(s, FALSE)
       ELSE run' = Status(run, "working") /\ Goto(s, "answer")
    /\ UNCHANGED <<wf, others>>

\* One candidate's enhanced screening: reports are saved one by one, so that a
\* repeated attempt does not pay for them again.
Block(s) ==
    /\ At(s, "screen", "answer")
    /\ mode = "ip"
    /\ run.blocked < NumCandidates
    /\ run' = [run EXCEPT !.blocked = @ + 1]
    /\ IF run'.blocked = NumCandidates THEN Goto(s, "hold") ELSE UNCHANGED att
    /\ UNCHANGED <<wf, others>>

NoneSafe(s) ==
    /\ At(s, "screen", "hold")
    /\ run' = Status(run, "no_safe_candidate")
    /\ Answer(s, FALSE)
    /\ UNCHANGED <<wf, others>>

Select(s) ==
    /\ At(s, "screen", "answer")
    /\ mode = "ip" => run.blocked < NumCandidates
    /\ run' = [run EXCEPT !.selected = TRUE]
    /\ Answer(s, TRUE)
    /\ UNCHANGED <<wf, others>>

-----------------------------------------------------------------------------
(* generate_package_run *)

\* begin_revision: only a fresh or reviewed package gets a new version, so a
\* repeated attempt goes on with the version it began.
Revised(r, a) ==
    IF a.regenerate /\ r.status \in {"pending", "awaiting_approval"}
    THEN [Cleared(r) EXCEPT !.snapshot = "none",
                            !.brief = IF a.preserve THEN @ ELSE NoBrief]
    ELSE r

Generate(s) ==
    /\ At(s, "generate", "start")
    /\ run.version < MaxVersion
    /\ run' = Status(Revised(run, att[s]), "working")
    /\ att' = [att EXCEPT ![s] =
                  [@ EXCEPT !.step = "brief", !.version = run'.version, !.brief = run'.brief,
                            !.template = IF run'.snapshot = "none" THEN template
                                         ELSE run'.snapshot,
                            !.listings = run'.listings, !.arts = artifacts[run'.version]]]
    /\ UNCHANGED <<wf, others>>

WriteBrief(s) ==
    /\ At(s, "generate", "brief")
    /\ LET a == att[s]
           brief == IF a.brief = NoBrief THEN [by |-> "creative", version |-> a.version]
                    ELSE a.brief
       IN /\ run' = IF a.brief = NoBrief THEN [run EXCEPT !.brief = brief] ELSE run
          /\ att' = [att EXCEPT ![s] = [@ EXCEPT !.brief = brief, !.step = "artwork"]]
    /\ UNCHANGED <<wf, others>>

\* Whether the next revision starts from an image that is still to be drawn.
Undrawn(arts) == \A i \in DOMAIN arts : arts[i] = "fixable"

\* Saving what was made; the unique key of artifacts refuses a second one.
Save(s, arts) ==
    LET a == att[s]
    IN IF artifacts[a.version] = a.arts
       THEN /\ artifacts' = [artifacts EXCEPT ![a.version] = arts]
            /\ att' = [att EXCEPT ![s].arts = arts]
            /\ UNCHANGED wf
       ELSE Raise(s, FALSE) /\ UNCHANGED artifacts

Draw(s) ==
    /\ At(s, "generate", "artwork")
    /\ ~Decided(att[s].arts) /\ Undrawn(att[s].arts)
    /\ Save(s, Append(att[s].arts, "source"))
    /\ UNCHANGED <<run, attempts, publishes, world>>

\* Prepress and QA; another revision may repair what is fixable.
Prepare(s) ==
    /\ At(s, "generate", "artwork")
    /\ att[s].arts # <<>>
    /\ ~Undrawn(att[s].arts) /\ ~Decided(att[s].arts)
    /\ \E verdict \in Verdicts :
           /\ verdict = "fixable" => Len(att[s].arts) < MaxRevisions /\ Events < MaxEvents
           /\ Save(s, [att[s].arts EXCEPT ![Len(att[s].arts)] = verdict])
    /\ run' = Status(run, "working")
    /\ UNCHANGED <<attempts, publishes, world>>

Settle(s) ==
    /\ At(s, "generate", "artwork")
    /\ Decided(att[s].arts)
    /\ LET passed == att[s].arts[Len(att[s].arts)] = "passed"
       IN /\ run' = [run EXCEPT !.passed = passed]
          /\ Goto(s, IF passed THEN "list" ELSE "hold")
    /\ UNCHANGED <<wf, others>>

HoldForBrief(s) ==
    /\ At(s, "generate", "hold")
    /\ run' = Status(run, "awaiting_brief_revision")
    /\ Answer(s, FALSE)
    /\ UNCHANGED <<wf, others>>

WriteListings(s) ==
    /\ At(s, "generate", "list")
    /\ LET a == att[s]
       IN IF a.listings # 0 THEN Goto(s, "store") /\ UNCHANGED run
          ELSE /\ run' = [Status(run, "working") EXCEPT !.listings = a.version]
               /\ att' = [att EXCEPT ![s] = [@ EXCEPT !.step = "store",
                                                      !.listings = a.version]]
    /\ UNCHANGED <<wf, others>>

StorePackage(s) ==
    /\ At(s, "generate", "store")
    /\ LET a == att[s]
       IN run' = [Status(run, "awaiting_approval") EXCEPT
                     !.brief = a.brief, !.passed = TRUE, !.listings = a.listings,
                     !.quotes = [at |-> a.template, edited |-> FALSE],
                     !.snapshot = a.template]
    /\ Answer(s, TRUE)
    /\ UNCHANGED <<wf, others>>

-----------------------------------------------------------------------------
(* rewrite_failed_brief_run *)

Accepted == {i \in DOMAIN attempts : attempts[i].outcome = "accepted"}

\* Mutant of Used: only accepted rewrites count.
UsedIfAccepted == Cardinality(Accepted)

\* Versions that no accepted rewrite explains count as rewrites of older runs.
Used ==
    LET floor == run.version - 1 - Cardinality(Accepted)
    IN (IF floor > 0 THEN floor ELSE 0) + Len(attempts)

Unreviewed(r) == ~r.passed /\ r.approvals = {} /\ \A c \in Channels : publishes[c] = "none"
Paused(r) == r.status \in {"failed", "awaiting_brief_revision"}

Rewritable ==
    /\ Paused(run)
    /\ run.selected /\ run.brief # NoBrief
    /\ Unreviewed(run)
    /\ LET made == Production(run.version)
       IN made # {} /\ artifacts[run.version][Newest(made)] # "passed"

Interrupted ==
    [i \in DOMAIN attempts |->
        IF attempts[i].outcome = "started" THEN [attempts[i] EXCEPT !.outcome = "interrupted"]
        ELSE attempts[i]]

\* Nothing to rewrite: the activity returns the status it finds.
RewriteNothing(s) ==
    /\ At(s, "rewrite", "start")
    /\ run.ready \/ ~Rewritable
    /\ Answer(s, run.status = "pending")
    /\ UNCHANGED <<run, wf, others>>

\* typography_fallback_required, of a design whose lettering was what failed.
Hopeless ==
    \/ Used >= MaxRewrites
    \/ Cardinality({v \in Versions : \E i \in DOMAIN artifacts[v] :
                        artifacts[v][i] \in {"fixable", "blocked"}}) >= 2

\* The last resort, once.
FallBack(s) ==
    /\ At(s, "rewrite", "start")
    /\ Rewritable /\ ~run.fallback /\ Hopeless
    /\ run.version < MaxVersion
    /\ run' = [Cleared(run) EXCEPT !.brief = [by |-> "fallback", version |-> run.version],
                                   !.status = "pending", !.fallback = TRUE]
    /\ attempts' = Interrupted
    /\ Answer(s, TRUE)
    /\ UNCHANGED <<wf, artifacts, publishes, world>>

GiveUp(s) ==
    /\ At(s, "rewrite", "start")
    /\ Rewritable
    /\ run.fallback \/ Used >= MaxRewrites
    /\ run' = Status(run, "awaiting_brief_revision")
    /\ attempts' = Interrupted
    /\ Answer(s, FALSE)
    /\ UNCHANGED <<wf, artifacts, publishes, world>>

\* The attempt is on record before the model is asked.
ReserveRewrite(s) ==
    /\ At(s, "rewrite", "start")
    /\ Rewritable /\ ~run.fallback
    /\ Used < MaxRewrites
    /\ attempts' = Append(Interrupted, [from |-> run.version, outcome |-> "started"])
    /\ att' = [att EXCEPT ![s] = [@ EXCEPT !.step = "answer", !.version = run.version,
                                           !.brief = run.brief, !.entry = Len(attempts')]]
    /\ UNCHANGED <<run, wf, artifacts, publishes, world>>

\* A timed-out attempt may be answered after its retry, or after the operator.
Superseded(a) ==
    \/ attempts[a.entry].outcome # "started"
    \/ run.version # a.version
    \/ ~Paused(run)
    \/ run.brief # a.brief
    \/ ~Unreviewed(run)

Mark(s, outcome) == attempts' = [attempts EXCEPT ![att[s].entry].outcome = outcome]

RewriteSuperseded(s) ==
    /\ At(s, "rewrite", "answer")
    /\ Superseded(att[s])
    /\ Mark(s, "superseded")
    /\ Answer(s, run.status = "pending")
    /\ UNCHANGED <<run, wf, artifacts, publishes, world>>

RewriteRejected(s) ==
    /\ At(s, "rewrite", "answer")
    /\ ~Superseded(att[s])
    /\ Mark(s, "rejected")
    /\ Goto(s, "start")
    /\ UNCHANGED <<run, wf, artifacts, publishes, world>>

RewriteAccepted(s) ==
    /\ At(s, "rewrite", "answer")
    /\ ~Superseded(att[s])
    /\ run.version < MaxVersion
    /\ Mark(s, "accepted")
    /\ run' = [Cleared(run) EXCEPT !.brief = [by |-> "rewrite", version |-> run.version],
                                   !.status = "pending", !.ready = TRUE]
    /\ Answer(s, TRUE)
    /\ UNCHANGED <<wf, artifacts, publishes, world>>

ProviderError(s) ==
    /\ At(s, "rewrite", "answer")
    /\ Spend("faults", MaxFaults)
    /\ IF attempts[att[s].entry].outcome = "started" THEN Mark(s, "provider_error")
       ELSE UNCHANGED attempts
    /\ \E final \in BOOLEAN : Raise(s, final)
    /\ UNCHANGED <<run, artifacts, publishes, retry, template, market, mode>>

\* A provider refuses for good: such errors end the activity at once.
Refused(s) ==
    /\ att[s].kind \in {"research", "screen", "generate"}
    /\ att[s].step \in {"answer", "brief", "artwork", "list"}
    /\ Spend("faults", MaxFaults)
    /\ Raise(s, TRUE)
    /\ UNCHANGED <<run, artifacts, attempts, publishes, retry, template, market, mode>>

-----------------------------------------------------------------------------
(* Approval and release *)

Signal(actor, channels) ==
    [actor |-> actor, version |-> run.version, channels |-> channels, package |-> Package]

Complete == run.passed /\ run.listings # 0 /\ run.quotes # NoQuotes

\* automatic_approval_signal; the second time its answer replaces the approval.
Automatic(s) ==
    /\ att[s].kind \in {"automatic", "reapprove"} /\ att[s].step = "start"
    /\ IF mode # "automatic" THEN Answer(s, TRUE) /\ UNCHANGED wf
       ELSE IF run.status # "awaiting_approval" \/ ~Complete THEN Raise(s, TRUE)
       ELSE Return(s, TRUE, Signal("system", Channels)) /\ UNCHANGED wf
    /\ UNCHANGED <<run, others>>

\* Mutant of Acceptable: any version will do.
AcceptableAnyVersion(signal) ==
    /\ run.status = "awaiting_approval"
    /\ signal.actor = "system" => mode = "automatic"
    /\ run.passed /\ run.listings # 0 /\ run.quotes.at # "none"
    /\ run.snapshot # "none" => run.snapshot = template

\* record_approval; quotes without a template are the empty list of a package
\* that has to be regenerated.
Acceptable(signal) ==
    /\ run.status = "awaiting_approval"
    /\ run.version = signal.version
    /\ signal.actor = "system" => mode = "automatic"
    /\ signal.channels # {}
    /\ run.passed
    /\ run.listings # 0
    /\ run.snapshot # "none" => run.snapshot = template
    /\ run.quotes.at # "none"

RecordApproval(s) ==
    /\ At(s, "record", "start")
    /\ LET ok == Acceptable(att[s].signal)
       IN /\ run' = IF ok THEN [Status(run, "publishing") EXCEPT
                                   !.approvals = @ \cup {[version |-> att[s].signal.version,
                                                          decision |-> "approved"]}]
                    ELSE run
          /\ Answer(s, ok)
    /\ UNCHANGED <<wf, others>>

ReadApproved(s) ==
    /\ At(s, "revalidate", "start")
    /\ IF run.status # "publishing" THEN Raise(s, TRUE)
       ELSE /\ att' = [att EXCEPT ![s] = [@ EXCEPT !.step = "answer", !.template = template]]
            /\ UNCHANGED wf
    /\ UNCHANGED <<run, others>>

Reshaped(t) == t = "reshaped"

\* reprice_package
Repriced(r, quotes) ==
    [r EXCEPT !.version = @ + 1, !.quotes = quotes, !.status = "awaiting_approval",
              !.ready = FALSE]

\* The catalog is what it was when the package was made.
StillValid(s) ==
    /\ At(s, "revalidate", "answer")
    /\ market = run.snapshot
    /\ Answer(s, TRUE)
    /\ UNCHANGED <<run, wf, others>>

\* What validation found becomes the active template, unless that was edited.
Adopt(s) ==
    template' = IF template = att[s].template THEN market ELSE template

\* Mutant of Reprice: a vanished variant is taken for one more change.
RepriceVanished(s) ==
    /\ At(s, "revalidate", "answer")
    /\ run.version < MaxVersion
    /\ market # run.snapshot
    /\ run' = [Repriced(run, [at |-> market, edited |-> FALSE]) EXCEPT !.snapshot = market]
    /\ Answer(s, FALSE)
    /\ UNCHANGED <<wf, others>>

Reprice(s) ==
    /\ At(s, "revalidate", "answer")
    /\ run.version < MaxVersion
    /\ market \in Templates /\ market # run.snapshot
    /\ run' = IF Reshaped(market) # Reshaped(run.snapshot)
              THEN [Repriced(run, NoQuotes) EXCEPT !.snapshot = market, !.passed = FALSE]
              ELSE [Repriced(run, [at |-> market, edited |-> FALSE])
                       EXCEPT !.snapshot = market]
    /\ Adopt(s)
    /\ Answer(s, FALSE)
    /\ UNCHANGED <<wf, artifacts, attempts, publishes, retry, market, mode, budget>>

\* A reserve colour of the approved package is gone, or a configured one.
Unavailable(s) ==
    /\ At(s, "revalidate", "answer")
    /\ run.version < MaxVersion
    /\ \/ /\ market = "reserve_gone"
          /\ run' = [Repriced(run, NoQuotes) EXCEPT !.passed = FALSE]
          /\ Answer(s, FALSE)
          /\ UNCHANGED wf
       \/ /\ market = "gone"
          /\ Raise(s, TRUE)
          /\ UNCHANGED run
    /\ UNCHANGED others

\* publish_channel_run; what the operator retries, or the workflow asks for.
Published(c, result) ==
    publishes' = [publishes EXCEPT ![c] = IF @ = "succeeded" THEN @ ELSE result]

Publish(w, c) ==
    /\ wf[w].stage = "publish"
    /\ c \in wf[w].current.channels /\ wf[w].results[c] = "none"
    /\ \E result \in PublishStatuses \ {"none"} :
           /\ Published(c, result)
           /\ wf' = [wf EXCEPT ![w].results[c] = publishes'[c]]
    /\ UNCHANGED <<run, att, artifacts, attempts, world>>

\* finish_publishing
Summary(results) ==
    IF results = {"succeeded"} THEN "published"
    ELSE IF "reconciliation_required" \in results THEN "verification_required"
    ELSE IF "succeeded" \in results THEN "partially_published"
    ELSE "failed"

Finish(s) ==
    /\ At(s, "finish", "start")
    /\ run' = Status(run, Summary({wf[s].results[c] : c \in wf[s].current.channels}))
    /\ Answer(s, TRUE)
    /\ UNCHANGED <<wf, others>>

MarkCancelled(s) ==
    /\ At(s, "cancel", "start")
    /\ run' = Status(run, "cancelled")
    /\ Answer(s, TRUE)
    /\ UNCHANGED <<wf, others>>

RecordRejection(s) ==
    /\ At(s, "reject", "start")
    /\ run' = [Status(run, "rejected") EXCEPT
                  !.approvals = @ \cup {[version |-> run.version, decision |-> "rejected"]}]
    /\ Answer(s, TRUE)
    /\ UNCHANGED <<wf, others>>

MarkFailed(s) ==
    /\ At(s, "fail", "start")
    /\ run' = Status(run, "failed")
    /\ Answer(s, TRUE)
    /\ UNCHANGED <<wf, others>>

-----------------------------------------------------------------------------
(* MerchWorkflow.run: what follows an activity *)

Heard(w, kind) == wf[w].stage = kind /\ att[w].step = "done"
steps == <<run, artifacts, attempts, publishes, world>>

AfterResearch(w) ==
    /\ Heard(w, "research")
    /\ To(w, "screen")
    /\ UNCHANGED steps

Generation(f, regenerate, preserve) ==
    [f EXCEPT !.stage = "generate", !.tries = 0, !.regenerate = regenerate,
              !.preserve = preserve]

AfterScreen(w) ==
    /\ Heard(w, "screen")
    /\ Enter(w, IF att[w].ok THEN Generation(wf[w], FALSE, TRUE)
                ELSE [wf[w] EXCEPT !.stage = "closed"])
    /\ UNCHANGED steps

AfterGenerate(w) ==
    /\ Heard(w, "generate")
    /\ To(w, IF att[w].ok THEN "automatic" ELSE "rewrite")
    /\ UNCHANGED steps

AfterRewrite(w) ==
    /\ Heard(w, "rewrite")
    /\ Enter(w, IF att[w].ok THEN Generation(wf[w], FALSE, TRUE)
                ELSE [wf[w] EXCEPT !.stage = "closed"])
    /\ UNCHANGED steps

\* An approval the operator sent meanwhile comes first.
AfterAutomatic(w) ==
    /\ Heard(w, "automatic")
    /\ Enter(w, [wf[w] EXCEPT !.stage = "wait", !.tries = 0,
                              !.approval = IF @ = NoSignal THEN att[w].signal ELSE @])
    /\ UNCHANGED steps

\* The top of the loop: cancellation, rejection, regeneration, approval.
TakeCancel(w) ==
    /\ wf[w].stage = "wait"
    /\ wf[w].cancelled
    /\ To(w, "cancel")
    /\ UNCHANGED steps

TakeReject(w) ==
    /\ wf[w].stage = "wait"
    /\ ~wf[w].cancelled /\ wf[w].rejected
    /\ To(w, "reject")
    /\ UNCHANGED steps

TakeRegenerate(w) ==
    /\ wf[w].stage = "wait"
    /\ ~wf[w].cancelled /\ ~wf[w].rejected /\ wf[w].again
    /\ Enter(w, Generation([wf[w] EXCEPT !.again = FALSE], TRUE, FALSE))
    /\ UNCHANGED steps

\* Mutant of TakeApproval: the approval is not consumed.
TakeApprovalForever(w) ==
    /\ wf[w].stage = "wait"
    /\ ~wf[w].cancelled /\ ~wf[w].rejected /\ ~wf[w].again
    /\ wf[w].approval # NoSignal
    /\ Enter(w, [wf[w] EXCEPT !.stage = "record", !.current = wf[w].approval])
    /\ UNCHANGED steps

TakeApproval(w) ==
    /\ wf[w].stage = "wait"
    /\ ~wf[w].cancelled /\ ~wf[w].rejected /\ ~wf[w].again
    /\ wf[w].approval # NoSignal
    /\ Enter(w, [wf[w] EXCEPT !.stage = "record", !.current = wf[w].approval,
                              !.approval = NoSignal])
    /\ UNCHANGED steps

\* Mutant of AfterRecord: a refused approval ends the workflow.
AfterRecordOnce(w) ==
    /\ Heard(w, "record")
    /\ To(w, IF att[w].ok THEN "revalidate" ELSE "closed")
    /\ UNCHANGED steps

AfterRecord(w) ==
    /\ Heard(w, "record")
    /\ IF att[w].ok THEN To(w, "revalidate")
       ELSE IF wf[w].current.actor = "system" THEN Enter(w, Invalidated(w))
       ELSE To(w, "wait")
    /\ UNCHANGED steps

\* An automatic release is repeated once when the catalog changed.
AfterRevalidate(w) ==
    /\ Heard(w, "revalidate")
    /\ IF att[w].ok THEN To(w, "publish")
       ELSE IF wf[w].current.actor # "system" THEN To(w, "wait")
       ELSE IF wf[w].reapprovals = 1
       THEN Enter(w, [Invalidated(w) EXCEPT !.reapprovals = 2])
       ELSE Enter(w, [wf[w] EXCEPT !.stage = "reapprove", !.tries = 0,
                                   !.reapprovals = @ + 1])
    /\ UNCHANGED steps

AfterReapprove(w) ==
    /\ Heard(w, "reapprove")
    /\ Enter(w, IF att[w].signal = NoSignal THEN Invalidated(w)
                ELSE [wf[w] EXCEPT !.stage = "wait", !.tries = 0,
                                   !.approval = att[w].signal])
    /\ UNCHANGED steps

AfterPublish(w) ==
    /\ wf[w].stage = "publish"
    /\ \A c \in wf[w].current.channels : wf[w].results[c] # "none"
    /\ To(w, "finish")
    /\ UNCHANGED steps

\* Mutant of Close: the loop is not left.
CloseNever(w) ==
    /\ wf[w].stage \in {"finish", "cancel", "reject", "fail"}
    /\ att[w].step = "done"
    /\ Enter(w, [wf[w] EXCEPT !.stage = "wait", !.cancelled = FALSE])
    /\ UNCHANGED steps

\* The error of an activity fails the workflow when it is raised again.  An
\* ApprovalInvalid is not a FailureError, and neither the workflow nor the Worker
\* names it in failure_exception_types: Temporal fails the task and tries it again.
Close(w) ==
    /\ wf[w].stage \in {"finish", "cancel", "reject", "fail"}
    /\ att[w].step = "done"
    /\ To(w, IF wf[w].stage = "fail" /\ wf[w].invalid THEN "stuck" ELSE "closed")
    /\ UNCHANGED steps

-----------------------------------------------------------------------------
(* The operator *)

Act == Spend("acts", MaxActs)

\* A patient operator leaves a run alone while a workflow of it is busy.
Calm == Eager \/ /\ wf[run.workflow].stage \in Over \cup {"wait"}
                 /\ \A c \in Channels : retry[c].step = "idle"

Tell(f) ==
    /\ Act /\ Calm
    /\ wf[run.workflow].stage # "closed"
    /\ wf' = [wf EXCEPT ![run.workflow] = f]
    /\ UNCHANGED <<run, att, artifacts, attempts, publishes, retry, template, market, mode>>

Approve ==
    /\ run.status = "awaiting_approval"
    /\ \E channels \in (SUBSET Channels) \ {{}} :
           Tell([wf[run.workflow] EXCEPT !.approval = Signal("admin", channels)])
Reject ==
    /\ run.status = "awaiting_approval"
    /\ Tell([wf[run.workflow] EXCEPT !.rejected = TRUE])
Regenerate ==
    /\ run.status = "awaiting_approval"
    /\ Tell([wf[run.workflow] EXCEPT !.again = TRUE])
Cancel ==
    /\ run.status \notin Rest \cup {"failed"}
    /\ Tell([wf[run.workflow] EXCEPT !.cancelled = TRUE])

\* Mutant of Edit: in any status.
EditAnytime ==
    /\ Act /\ Calm
    /\ run.quotes.at # "none"
    /\ run.version < MaxVersion
    /\ run' = [run EXCEPT !.version = @ + 1, !.listings = run.version + 1]
    /\ UNCHANGED <<wf, att, artifacts, attempts, publishes, retry, template, market, mode>>

\* update_package
Edit ==
    /\ Act /\ Calm
    /\ run.status = "awaiting_approval"
    /\ run.quotes.at # "none"
    /\ run.version < MaxVersion
    /\ run' = [run EXCEPT !.version = @ + 1, !.listings = run.version + 1,
                          !.quotes = [@ EXCEPT !.edited = TRUE]]
    /\ UNCHANGED <<wf, att, artifacts, attempts, publishes, retry, template, market, mode>>

\* A restart gives the run a workflow of its own.
Restart(r, f) ==
    /\ Act /\ Calm
    /\ run.workflow < MaxWorkflows
    /\ run' = [Status(r, "pending") EXCEPT !.workflow = @ + 1]
    /\ Enter(run.workflow + 1, f)
    /\ UNCHANGED <<artifacts, attempts, publishes, retry, template, market, mode>>

ResumeResearched ==
    /\ run.status = "failed" /\ run.researched
    /\ \A v \in Versions : artifacts[v] = <<>>
    /\ run.approvals = {} /\ \A c \in Channels : publishes[c] = "none"
    /\ Restart([run EXCEPT !.selected = FALSE, !.brief = NoBrief, !.passed = FALSE,
                           !.listings = 0, !.quotes = NoQuotes],
               [Unborn EXCEPT !.stage = "screen"])

RetryArtwork ==
    /\ Paused(run)
    /\ run.selected
    /\ \E v \in Versions : Production(v) # {}
    /\ Unreviewed(run)
    /\ \E revised \in BOOLEAN :
           /\ run.status = "awaiting_brief_revision" => revised
           /\ Restart(IF revised
                      THEN [run EXCEPT !.brief = [by |-> "operator", version |-> run.version]]
                      ELSE run,
                      Generation([Unborn EXCEPT !.reuse = TRUE], TRUE, revised))

\* retry_channel and RetryPublishWorkflow
RetryChannel(c) ==
    /\ Act /\ Calm
    /\ run.status \in {"partially_published", "failed", "verification_required"}
    /\ publishes[c] \in {"failed", "reconciliation_required"}
    /\ retry[c].step = "idle"
    /\ retry' = [retry EXCEPT ![c].step = "publish"]
    /\ UNCHANGED <<run, wf, att, artifacts, attempts, publishes, template, market, mode>>

RetryPublish(c) ==
    /\ retry[c].step = "publish"
    /\ \E result \in PublishStatuses \ {"none"} :
           /\ Published(c, result)
           /\ retry' = [retry EXCEPT ![c].step = IF result = "failed" THEN "idle" ELSE "count"]
    /\ UNCHANGED <<run, wf, att, artifacts, attempts, template, market, mode, budget>>

\* finish_retry reads in one transaction and writes in another.
CountRetry(c) ==
    /\ retry[c].step = "count"
    /\ retry' = [retry EXCEPT ![c] =
                    [step |-> "write",
                     seen |-> {publishes[d] : d \in Channels} \ {"none"}]]
    /\ UNCHANGED <<run, wf, att, artifacts, attempts, publishes, template, market, mode, budget>>

FinishRetry(c) ==
    /\ retry[c].step = "write"
    /\ run' = Status(run, Summary(retry[c].seen))
    /\ retry' = [retry EXCEPT ![c] = [step |-> "idle", seen |-> {}]]
    /\ UNCHANGED <<wf, att, artifacts, attempts, publishes, template, market, mode, budget>>

\* The operator saves another template, or Printify's catalog changes.
Shift ==
    /\ Spend("shifts", MaxShifts)
    /\ \/ template' \in Templates \ {template} /\ UNCHANGED market
       \/ market' \in Markets \ {market} /\ UNCHANGED template
    /\ UNCHANGED <<run, wf, att, artifacts, attempts, publishes, retry, mode>>

\* A worker dies or its answer is lost: the attempt is repeated from its start.
CutOff(w) ==
    /\ att[w].kind \notin {"idle", "publish"}
    /\ Spend("faults", MaxFaults)
    /\ Enter(w, Again(w))
    /\ UNCHANGED <<run, artifacts, attempts, publishes, retry, template, market, mode>>

\* The attempt is timed out while it goes on.
TimeOut(w) ==
    /\ att[w].kind \in Slow /\ att[w].step # "done"
    /\ att[Late] = Idle
    /\ Spend("faults", MaxFaults)
    /\ wf' = [wf EXCEPT ![w] = Again(w)]
    /\ att' = [att EXCEPT ![Late] = att[w], ![w] = Wanted(Again(w))]
    /\ UNCHANGED <<run, artifacts, attempts, publishes, retry, template, market, mode>>

-----------------------------------------------------------------------------
Init ==
    /\ run = [status |-> "pending", ready |-> FALSE, version |-> 1, workflow |-> 1,
              researched |-> FALSE, selected |-> FALSE, blocked |-> 0,
              brief |-> NoBrief, passed |-> FALSE, listings |-> 0, quotes |-> NoQuotes,
              snapshot |-> "none", fallback |-> FALSE, approvals |-> {}]
    /\ artifacts = [v \in Versions |-> <<>>]
    /\ attempts = <<>>
    /\ publishes = [c \in Channels |-> "none"]
    /\ wf = [w \in Workflows |-> IF w = 1 THEN [Unborn EXCEPT !.stage = "research"]
                                 ELSE Unborn]
    /\ att = [s \in Slots |-> IF s = 1 THEN [Idle EXCEPT !.kind = "research"] ELSE Idle]
    /\ retry = [c \in Channels |-> [step |-> "idle", seen |-> {}]]
    /\ template = "agreed"
    /\ market = "agreed"
    /\ mode \in Modes
    /\ budget = [acts |-> 0, shifts |-> 0, faults |-> 0]

Attempt(s) ==
    \/ Research(s) \/ StoreResearch(s) \/ Screen(s) \/ Block(s) \/ NoneSafe(s)
    \/ Select(s) \/ Generate(s) \/ WriteBrief(s) \/ Draw(s) \/ Prepare(s) \/ Settle(s)
    \/ HoldForBrief(s) \/ WriteListings(s) \/ StorePackage(s) \/ RewriteNothing(s)
    \/ FallBack(s) \/ GiveUp(s) \/ ReserveRewrite(s) \/ RewriteSuperseded(s)
    \/ RewriteRejected(s) \/ RewriteAccepted(s) \/ Automatic(s) \/ RecordApproval(s)
    \/ ReadApproved(s) \/ StillValid(s) \/ Reprice(s) \/ Unavailable(s) \/ Finish(s)
    \/ MarkCancelled(s) \/ RecordRejection(s) \/ MarkFailed(s)

Flow(w) ==
    \/ AfterResearch(w) \/ AfterScreen(w) \/ AfterGenerate(w) \/ AfterRewrite(w)
    \/ AfterAutomatic(w) \/ TakeCancel(w) \/ TakeReject(w) \/ TakeRegenerate(w)
    \/ TakeApproval(w) \/ AfterRecord(w) \/ AfterRevalidate(w) \/ AfterReapprove(w)
    \/ AfterPublish(w) \/ Close(w) \/ \E c \in Channels : Publish(w, c)

Operator ==
    \/ Approve \/ Reject \/ Regenerate \/ Cancel \/ Edit \/ ResumeResearched
    \/ RetryArtwork \/ \E c \in Channels : RetryChannel(c)

Retrying(c) == RetryPublish(c) \/ CountRetry(c) \/ FinishRetry(c)

Next ==
    \/ \E s \in Slots : Attempt(s) \/ ProviderError(s) \/ Refused(s)
    \/ \E w \in Workflows : Flow(w) \/ CutOff(w) \/ TimeOut(w)
    \/ \E c \in Channels : Retrying(c)
    \/ Operator
    \/ Shift

\* Temporal goes on with every workflow and repeats every attempt that ended.
Work == (\E s \in Slots : Attempt(s)) \/ (\E w \in Workflows : Flow(w))
Fairness == WF_vars(Work)

Spec == Init /\ [][Next]_vars /\ Fairness

-----------------------------------------------------------------------------
(* Properties *)

\* Every variable has its type.
TypeOK ==
    /\ run \in Runs
    /\ artifacts \in [Versions -> Revisions]
    /\ attempts \in Seq([from: Versions, outcome: Outcomes])
    /\ publishes \in [Channels -> PublishStatuses]
    /\ wf \in [Workflows -> WorkflowStates]
    /\ att \in [Slots -> AttemptStates]
    /\ retry \in [Channels -> [step: {"idle", "publish", "count", "write"},
                               seen: SUBSET PublishStatuses]]
    /\ template \in Templates
    /\ market \in Markets
    /\ mode \in Modes
    /\ budget \in [acts: 0..MaxActs, shifts: 0..MaxShifts, faults: 0..MaxFaults]

\* Rejected, interrupted and overtaken attempts included, the model is asked for
\* at most MaxRewrites briefs (README), no version is rewritten twice, and a
\* late answer is never accepted.
RewriteBudget ==
    /\ Len(attempts) <= MaxRewrites
    /\ \A i, j \in Accepted : attempts[i].from = attempts[j].from => i = j

\* While a run is released, its package is what the author of the approval under
\* way looked at: artwork, copy and prices.
ReleasedAsReviewed ==
    \A w \in Workflows :
        wf[w].stage \in {"publish", "finish"} => Package = wf[w].current.package

\* A run is only published with artwork that passed QA, under an approval of its
\* present version, and only where it was approved for.
ReleasedAsApproved ==
    run.status \in {"publishing", "published", "partially_published",
                    "verification_required"} =>
        /\ [version |-> run.version, decision |-> "approved"] \in run.approvals
        /\ LET art == Package.art IN artifacts[art.version][art.revision] = "passed"
        /\ run.status = "published" => \E c \in Channels : publishes[c] = "succeeded"

\* A run that is being worked on, reviewed or released has a workflow that still
\* serves it, whatever is cut off.
NoOrphan ==
    run.status \in {"working", "awaiting_approval", "publishing"} =>
        wf[run.workflow].stage \notin Over

\* Published, rejected and cancelled runs stay what they are.
RestIsFinal == [][run.status \in Rest \ {"no_safe_candidate"} => run'.status = run.status]_vars

\* No workflow works for ever, whatever is cut off, refused or changed meanwhile: it
\* ends, waits for the operator, or is stuck after it marked its run failed.
Settled(f) ==
    \/ f.stage \in Over \cup {"unborn"}
    \/ /\ f.stage = "wait" /\ f.approval = NoSignal
       /\ ~f.rejected /\ ~f.again /\ ~f.cancelled
NoEndlessWork == []<>(\A w \in Workflows : Settled(wf[w]))

\* A release given up after a second catalog change stops ("automatic release stopped
\* after repeated catalog changes", temporal.py run): its workflow is closed.
StoppedReleaseEnds ==
    \A w \in Workflows :
        wf[w].stage = "fail" /\ wf[w].reapprovals = 2 ~> wf[w].stage = "closed"

\* A release does not stop half-way: a run that is publishing comes to an end of it.
PublishingEnds == run.status = "publishing" ~> run.status # "publishing"

\* An answer that comes after the operator moved on stops its workflow ("A
\* timed-out activity may finish after its retry or an operator has moved on",
\* pipeline.py rewrite_failed_brief_run): only the run's own one draws artwork.
OvertakenStops ==
    [][\A w \in Workflows : w # run'.workflow /\ wf'[w].stage = "generate"
                                => wf[w].stage = "generate"]_vars
=============================================================================
