------------------------- MODULE CatalogPreparation -------------------------
(***************************************************************************)
(* A catalog-v2 run up to its release: research_catalog_run, and           *)
(* attempt_catalog_opportunity for one ranked opportunity after the other, *)
(* as CatalogMerchWorkflow calls them.                                     *)
(*                                                                         *)
(* An attempt of an activity may be cut off between any two transactions,  *)
(* or have its answer lost, and is then repeated; one that was timed out   *)
(* may go on beside its successor.  What it paid for is in the run record  *)
(* and the artifact store.  One action is one transaction, or one call of  *)
(* a service with what is computed from its answer.                        *)
(*                                                                         *)
(* A rank is a place in the stored ranking; calls, artifacts and packages  *)
(* belong to the id of an opportunity.  An image is the number of the call *)
(* that made it; a reference image is the version of the marketplace's     *)
(* picture that was downloaded.                                            *)
(***************************************************************************)
EXTENDS Opportunities, VariantMatrix

CONSTANTS
    Worlds,        \* what a behaviour starts from: products, evidence, settings
    Attempts,      \* executions of an activity that can be alive at once
    NoAttempt,
    MaxTries,      \* ACTIVITY_RETRY.maximum_attempts
    MaxRanks,      \* max_opportunity_attempts
    QueryLimit,    \* research_query_limit
    MaxAxes        \* etsy_max_variations_supported

ASSUME PreparationAssumption ==
    /\ NoAttempt \notin Attempts
    /\ {MaxTries, MaxRanks, QueryLimit} \subseteq Nat \ {0}
    /\ MaxAxes \in {2, 3}

IsTable(s) == s \in Seq({s[i] : i \in DOMAIN s})
Cents == Nat \cup {Unknown}

IsVariant(v) ==
    /\ {v.available, v.supported} \subseteq BOOLEAN
    /\ v.id \in Nat /\ {v.cost, v.shipping} \subseteq Cents
    /\ v.options \in [DOMAIN v.options -> Nat]
    /\ IsFiniteSet(DOMAIN v.options) /\ DOMAIN v.options \subseteq Nat
    /\ IsFiniteSet(v.surfaces) /\ v.surfaces \subseteq Nat \ {0}

IsListing(l) ==
    /\ {l.market, l.id, l.explicit, l.proxy, l.confidence, l.reviews, l.age} \subseteq Nat
    /\ l.delivered \in Cents /\ l.image \in BOOLEAN /\ l.method \in DOMAIN Freshness

ASSUME WorldsAssumption ==
    \A w \in Worlds :
        /\ {w.trouble, w.dollars} \subseteq Nat
        /\ {w.ip, w.originality, w.patient} \subseteq BOOLEAN
        /\ IsTable(w.products) /\ Len(w.products) \in 1..MaxProducts
        /\ IsTable(w.evidence) /\ Len(w.evidence) = Len(w.products)
        /\ \A p \in 1..Len(w.products) :
              /\ IsTable(w.products[p].variants) /\ IsTable(w.evidence[p])
              /\ \A i \in DOMAIN w.products[p].variants : IsVariant(w.products[p].variants[i])
              /\ \A i \in DOMAIN w.evidence[p] : IsListing(w.evidence[p][i])

VARIABLES
    world,       \* the products, what the marketplaces show of them, the settings
    trouble,     \* how much may still go wrong
    active,      \* products that the catalog table offers
    pictures,    \* version of the pictures the marketplaces show
    run,         \* the run record and its opportunities
    store,       \* the artifacts of each opportunity
    att,         \* the attempts
    wf,          \* the workflow
    bought,      \* calls paid for, per opportunity and kind
    kept,        \* calls whose result was stored at some time
    released     \* the package that was published

vars == <<world, trouble, active, pictures, run, store, att, wf, bought, kept, released>>

-----------------------------------------------------------------------------
(* Types *)

Ranks == 1..NumOpportunities
Products == 1..Len(world.products)
Ids == {Digest[<<p, i>>] : p \in Products, i \in Ranks}
References == 1..3
None == 0
Surfaces(variants) == UNION {variants[i].surfaces : i \in DOMAIN variants}
AllSurfaces == UNION {Surfaces(world.products[p].variants) : p \in Products}
Screening == -1
Analysis == -2
Calls == {Screening, Analysis} \cup AllSurfaces   \* surfaces are numbers above 0
Pictures == 1..2

Statuses == {"pending", "researching", "ranking", "screening", "generating", "publishing",
             "published", "failed", "no_qualified_opportunity"}
Reasons == {"", "lower ranked", "unavailable", "references", "ip", "costs", "offering",
            "unsupported", "surfaces", "prepress", "replayed", "originality", "shipping",
            "margin", "listing", "provider", "drift"}
Reports == [of: Ids \cup {None}, pass: BOOLEAN]
NoReport == [of |-> None, pass |-> FALSE]
NoOpportunity == [id |-> None]
NoPackage == [opportunity |-> NoOpportunity]
NoReferences == [i \in References |-> None]

Stages == {"research", "resume", "attempt", "publish", "exhausted", "ended"}
PCs == {"idle", "begin", "candidates", "rank", "load", "select", "refresh",
        "screen", "saveScreen", "offer", "references", "saveSheet", "saveReference",
        "analyse", "saveAnalysis", "generate", "draw", "saveArt", "review", "price",
        "commit", "reject", "done"}
Results == {"none", "ready", "rejected", "error"}

Idle == [pc |-> "idle", stage |-> "ended", rank |-> None, queue |-> <<>>, found |-> <<>>,
         count |-> 0, opportunity |-> NoOpportunity, ip |-> NoReport, refs |-> NoReferences,
         missing |-> {}, analysis |-> None,
         offer |-> <<>>, art |-> <<>>, reviewed |-> FALSE, reason |-> "", result |-> "none"]

Init ==
    /\ world \in Worlds
    /\ trouble = world.trouble
    /\ active = {p \in Products : world.products[p].offered}
    /\ pictures = 1
    /\ run = [status |-> "pending", opportunities |-> <<>>, eligible |-> {}, reason |-> <<>>,
              selected |-> None, ip |-> NoReport, screened |-> None, analysis |-> None,
              analysed |-> None, package |-> NoPackage, approved |-> FALSE]
    /\ store = [o \in Ids |-> [sheet |-> NoReferences, refs |-> NoReferences,
                                 art |-> [s \in AllSurfaces |-> None]]]
    /\ att = [a \in Attempts |-> Idle]
    /\ wf = [stage |-> "research", rank |-> 1, count |-> 0, tries |-> 0, current |-> NoAttempt]
    /\ bought = [o \in Ids |-> [c \in Calls |-> 0]]
    /\ kept = {}
    /\ released = NoPackage

-----------------------------------------------------------------------------
(* Helpers *)

At(a, label) == att[a].pc = label
Is(a, x) == att' = [att EXCEPT ![a] = x]
Goto(a, label) == Is(a, [att[a] EXCEPT !.pc = label])
Done(x, result) == [x EXCEPT !.pc = "done", !.result = result]
Rejecting(x, reason) == [x EXCEPT !.pc = "reject", !.reason = reason]
Reject(a, reason) == Is(a, Rejecting(att[a], reason))

\* One thing goes wrong.
Trouble == trouble > 0 /\ trouble' = trouble - 1

Id(a) == att[a].opportunity.id
ProductOf(o) == world.products[o.product]
Offered(product) == Filtered(product.variants, Available(product.variants))
RowsOf(id) == {n \in DOMAIN run.opportunities : run.opportunities[n].id = id}

\* The variants of a product that one listing offers.
Selected(product) ==
    LET axes == Cardinality(AxesOf(Offered(product)))
        Smaller(m, n) == Min({m, n})
    IN ReduceVariationAxes(Offered(product), MaxAxes,
           Smaller(MaxEnabled, InventoryProductLimit(Smaller(axes, MaxAxes))))

Buy(a, call) == bought' = [bought EXCEPT ![Id(a)][call] = @ + 1]
Keep(a, call) == kept' = kept \cup {<<Id(a), call>>}

-----------------------------------------------------------------------------
(* research_catalog_run *)

BeginResearch(a) ==
    /\ At(a, "begin") /\ att[a].stage = "research"
    /\ run' = [run EXCEPT !.status = "researching"]
    /\ Is(a, [att[a] EXCEPT !.pc = "candidates",
                            !.queue = Filtered([p \in Products |-> p], active)])
    /\ UNCHANGED <<world, trouble, active, pictures, store, wf, bought, kept, released>>

Viable(product) ==
    /\ Offered(product) # <<>>
    /\ \E i \in DOMAIN Offered(product) : /\ Offered(product)[i].supported
                                          /\ Offered(product)[i].shipping # Unknown

\* refresh_catalog_candidates, one cached product; Printify may have
\* withdrawn it since.
Candidate(a) ==
    /\ At(a, "candidates") /\ att[a].queue # <<>> /\ Len(att[a].found) < QueryLimit
    /\ LET p == Head(att[a].queue)
           rest == Tail(att[a].queue)
       IN \/ /\ Viable(world.products[p])
             /\ Is(a, [att[a] EXCEPT !.queue = rest, !.found = Append(@, p)])
             /\ active' = active \cup {p}
             /\ UNCHANGED trouble
          \/ /\ IF Viable(world.products[p]) THEN Trouble ELSE UNCHANGED trouble
             /\ Is(a, [att[a] EXCEPT !.queue = rest])
             /\ active' = active \ {p}
    /\ UNCHANGED <<world, pictures, run, store, wf, bought, kept, released>>

CostsKnown(product) == \A i \in DOMAIN Offered(product) : Offered(product)[i].cost # Unknown

\* Costs and evidence of every candidate; nothing is caught.
Gather(a) ==
    /\ At(a, "candidates") /\ (att[a].queue = <<>> \/ Len(att[a].found) >= QueryLimit)
    /\ Is(a, IF /\ att[a].found # <<>>
                /\ \A i \in DOMAIN att[a].found : CostsKnown(world.products[att[a].found[i]])
             THEN [att[a] EXCEPT !.pc = "rank"]
             ELSE Done(att[a], "error"))
    /\ UNCHANGED <<world, trouble, active, pictures, run, store, wf, bought, kept, released>>

Fresh(listings) == Filtered(listings, {i \in DOMAIN listings : EvidenceIsFresh(listings[i])})
Researched(found) ==
    BuildOpportunities(found, world.products, [p \in Products |-> Fresh(world.evidence[p])])

\* store_opportunities replaces what an earlier attempt stored.
StoreOpportunities(a) ==
    /\ At(a, "rank")
    /\ LET found == Researched(att[a].found)
       IN IF \A n \in DOMAIN found : Valid(found[n])
          THEN /\ run' = [run EXCEPT !.opportunities = found,
                                     !.eligible = DOMAIN found,
                                     !.reason = [n \in DOMAIN found |-> ""],
                                     !.status = IF found = <<>> THEN "no_qualified_opportunity"
                                                ELSE "ranking"]
               /\ Is(a, [Done(att[a], "ready") EXCEPT !.count = Len(found)])
          ELSE Is(a, Done(att[a], "error")) /\ UNCHANGED run
    /\ UNCHANGED <<world, trouble, active, pictures, store, wf, bought, kept, released>>

ResumeResearch(a) ==
    /\ At(a, "begin") /\ att[a].stage = "resume"
    /\ LET count == Len(run.opportunities)
       IN IF count = 0 THEN Is(a, Done(att[a], "error")) /\ UNCHANGED run
          ELSE /\ run' = [run EXCEPT !.status = "ranking"]
               /\ Is(a, [Done(att[a], "ready") EXCEPT !.count = count])
    /\ UNCHANGED <<world, trouble, active, pictures, store, wf, bought, kept, released>>

-----------------------------------------------------------------------------
(* attempt_catalog_opportunity and _prepare_opportunity *)

Load(a) ==
    /\ At(a, "load")
    /\ LET rank == att[a].rank
           o == run.opportunities[rank]
           prepared == /\ run.selected = o.id /\ run.package # NoPackage
                       /\ run.status = "publishing"
       IN Is(a, IF rank \notin run.eligible THEN Done(att[a], "rejected")
                ELSE IF prepared THEN Done(att[a], "ready")
                ELSE [att[a] EXCEPT !.pc = "select", !.opportunity = o])
    /\ UNCHANGED <<world, trouble, active, pictures, run, store, wf, bought, kept, released>>

\* Mutant: what an earlier attempt left is always forgotten.
SelectAfresh(o) ==
    [run EXCEPT !.selected = o, !.ip = NoReport, !.analysis = None, !.package = NoPackage,
                !.eligible = @ \cup RowsOf(o),
                !.reason = [n \in DOMAIN @ |-> IF n \notin RowsOf(o) /\ @[n] = ""
                                               THEN "lower ranked" ELSE @[n]]]

SelectOpportunity(o) ==
    LET again == run.selected = o
    IN [run EXCEPT !.selected = o,
                   !.ip = IF again THEN @ ELSE NoReport,
                   !.analysis = IF again THEN @ ELSE None,
                   !.package = IF again THEN @ ELSE NoPackage,
                   !.eligible = @ \cup RowsOf(o),
                   !.reason = [n \in DOMAIN @ |-> IF n \notin RowsOf(o) /\ @[n] = ""
                                                  THEN "lower ranked" ELSE @[n]]]

Select(a) ==
    /\ At(a, "select")
    /\ run' = [SelectOpportunity(Id(a)) EXCEPT
                 !.status = "screening", !.ip = IF world.ip THEN @ ELSE NoReport]
    /\ Goto(a, "refresh")
    /\ UNCHANGED <<world, trouble, active, pictures, store, wf, bought, kept, released>>

\* select_reference_listings: the first three that have an image.
Pictured(o) == {i \in DOMAIN o.listings : o.listings[i].image}

\* refresh_catalog_product; a withdrawn product leaves the catalog.
Refresh(a) ==
    /\ At(a, "refresh")
    /\ LET p == att[a].opportunity.product
       IN \/ /\ active' = active \cup {p}
             /\ Is(a, IF Cardinality(Pictured(att[a].opportunity)) < 3
                      THEN Rejecting(att[a], "references")
                      ELSE [att[a] EXCEPT !.pc = IF world.ip THEN "screen" ELSE "offer"])
             /\ UNCHANGED trouble
          \/ /\ Trouble
             /\ active' = active \ {p}
             /\ Reject(a, "unavailable")
    /\ UNCHANGED <<world, pictures, run, store, wf, bought, kept, released>>

\* The stored result of the latest call, if that was for this opportunity.
Reusable(payload, latest, o) == payload # None /\ latest = o

Judge(x, report) ==
    IF report.pass THEN [x EXCEPT !.ip = report, !.pc = "offer"] ELSE Rejecting(x, "ip")

\* ip_screen, unless its report is stored.
Screen(a) ==
    /\ At(a, "screen")
    /\ IF Reusable(run.ip.of, run.screened, Id(a))
       THEN Is(a, Judge(att[a], run.ip)) /\ UNCHANGED <<trouble, bought>>
       ELSE /\ Buy(a, Screening)
            /\ \E pass \in BOOLEAN :
                 /\ IF pass THEN UNCHANGED trouble ELSE Trouble
                 /\ Is(a, [att[a] EXCEPT !.pc = "saveScreen",
                                         !.ip = [of |-> Id(a), pass |-> pass]])
    /\ UNCHANGED <<world, active, pictures, run, store, wf, kept, released>>

SaveScreen(a) ==
    /\ At(a, "saveScreen")
    /\ run' = [run EXCEPT !.ip = att[a].ip, !.screened = Id(a)]
    /\ Is(a, Judge(att[a], att[a].ip))
    /\ Keep(a, Screening)
    /\ UNCHANGED <<world, trouble, active, pictures, store, wf, bought, released>>

\* Account costs, the variants to offer, their surfaces and the shop profile.
Offer(a) ==
    /\ At(a, "offer")
    /\ LET product == ProductOf(att[a].opportunity)
           selected == Selected(product)
       IN Is(a, IF ~CostsKnown(product) THEN Rejecting(att[a], "costs")
                ELSE IF selected = <<>> \/ Cardinality(AxesOf(selected)) > MaxAxes
                     THEN Rejecting(att[a], "offering")
                ELSE IF \E i \in DOMAIN selected : ~selected[i].supported
                     THEN Rejecting(att[a], "unsupported")
                ELSE [att[a] EXCEPT !.pc = "references", !.offer = selected])
    /\ UNCHANGED <<world, trouble, active, pictures, run, store, wf, bought, kept, released>>

\* The stored reference images; if one is missing, all are downloaded and
\* those that were missing are taken from it.
FetchReferences(a) ==
    /\ At(a, "references")
    /\ LET saved == store[Id(a)].refs
           missing == {i \in References : saved[i] = None}
       IN Is(a, [att[a] EXCEPT !.pc = "saveSheet", !.missing = missing,
                               !.refs = [i \in References |->
                                           IF i \in missing THEN pictures ELSE saved[i]]])
    /\ UNCHANGED <<world, trouble, active, pictures, run, store, wf, bought, kept, released>>

\* Mutant: the later version replaces the earlier one.
Replaces(stored, new, absent) == FALSE

\* _upsert_artifact refuses a second version of what is stored.
Differs(stored, new, absent) == stored # absent /\ stored # new

SaveSheet(a) ==
    /\ At(a, "saveSheet")
    /\ LET o == Id(a)
       IN IF Differs(store[o].sheet, att[a].refs, NoReferences)
          THEN Reject(a, "replayed") /\ UNCHANGED store
          ELSE /\ store' = [store EXCEPT ![o].sheet = att[a].refs]
               /\ Goto(a, "saveReference")
    /\ UNCHANGED <<world, trouble, active, pictures, run, wf, bought, kept, released>>

SaveReference(a) ==
    /\ At(a, "saveReference")
    /\ LET o == Id(a)
           i == Min(att[a].missing)
       IN IF att[a].missing = {} THEN Goto(a, "analyse") /\ UNCHANGED store
          ELSE IF Differs(store[o].refs[i], att[a].refs[i], None)
               THEN Reject(a, "replayed") /\ UNCHANGED store
          ELSE /\ store' = [store EXCEPT ![o].refs[i] = att[a].refs[i]]
               /\ Is(a, [att[a] EXCEPT !.missing = @ \ {i}])
    /\ UNCHANGED <<world, trouble, active, pictures, run, wf, bought, kept, released>>

\* analyze_references, unless its result is stored.
Analyse(a) ==
    /\ At(a, "analyse")
    /\ IF Reusable(run.analysis, run.analysed, Id(a))
       THEN /\ Is(a, [att[a] EXCEPT !.pc = "generate", !.analysis = run.analysis])
            /\ UNCHANGED bought
       ELSE /\ Buy(a, Analysis)
            /\ Is(a, [att[a] EXCEPT !.pc = "saveAnalysis", !.analysis = Id(a)])
    /\ UNCHANGED <<world, trouble, active, pictures, run, store, wf, kept, released>>

SaveAnalysis(a) ==
    /\ At(a, "saveAnalysis")
    /\ run' = [run EXCEPT !.analysis = Id(a), !.analysed = Id(a)]
    /\ Goto(a, "generate")
    /\ Keep(a, Analysis)
    /\ UNCHANGED <<world, trouble, active, pictures, store, wf, bought, released>>

Generate(a) ==
    /\ At(a, "generate")
    /\ IF Surfaces(att[a].offer) = {} THEN Reject(a, "surfaces") /\ UNCHANGED run
       ELSE run' = [run EXCEPT !.status = "generating"] /\ Goto(a, "draw")
    /\ UNCHANGED <<world, trouble, active, pictures, store, wf, bought, kept, released>>

\* The next surface: its stored artwork, or a new one, which fails prepress in
\* every revision or is to be stored.
Draw(a) ==
    /\ At(a, "draw")
    /\ LET o == Id(a)
           left == Surfaces(att[a].offer) \ DOMAIN att[a].art
           s == Min(left)
           Drawn(x, image) == [x EXCEPT !.art = [t \in DOMAIN @ \cup {s} |->
                                                   IF t = s THEN image ELSE @[t]]]
       IN IF left = {}
          THEN Goto(a, IF world.originality THEN "review" ELSE "price")
               /\ UNCHANGED <<trouble, bought>>
          ELSE IF store[o].art[s] # None
          THEN Is(a, Drawn(att[a], store[o].art[s])) /\ UNCHANGED <<trouble, bought>>
          ELSE /\ Buy(a, s)
               /\ \/ /\ Is(a, [Drawn(att[a], bought[o][s] + 1) EXCEPT !.pc = "saveArt"])
                     /\ UNCHANGED trouble
                  \/ Trouble /\ Reject(a, "prepress")
    /\ UNCHANGED <<world, active, pictures, run, store, wf, kept, released>>

SaveArt(a) ==
    /\ At(a, "saveArt")
    /\ LET o == Id(a)
           s == Max(DOMAIN att[a].art)
       IN IF Differs(store[o].art[s], att[a].art[s], None)
          THEN Reject(a, "replayed") /\ UNCHANGED <<store, kept>>
          ELSE /\ store' = [store EXCEPT ![o].art[s] = att[a].art[s]]
               /\ Goto(a, "draw")
               /\ Keep(a, s)
    /\ UNCHANGED <<world, trouble, active, pictures, run, wf, bought, released>>

\* originality_assessment of every artwork and of a mockup; none is stored.
Review(a) ==
    /\ At(a, "review")
    /\ \/ Is(a, [att[a] EXCEPT !.pc = "price", !.reviewed = TRUE]) /\ UNCHANGED trouble
       \/ Trouble /\ Reject(a, "originality")
    /\ UNCHANGED <<world, active, pictures, run, store, wf, bought, kept, released>>

Prices(a) ==
    LET offer == att[a].offer
        median == ComparableMedian(att[a].opportunity.listings)
    IN [i \in DOMAIN offer |-> CompetitivePrice(offer[i], median)]

\* Prices, then the listing and its checks.
Price(a) ==
    /\ At(a, "price")
    /\ LET offer == att[a].offer
           prices == Prices(a)
       IN \/ /\ Is(a, IF \E i \in DOMAIN offer : offer[i].shipping = Unknown
                      THEN Rejecting(att[a], "shipping")
                      ELSE IF \E i \in DOMAIN prices : ~prices[i].kept
                           THEN Rejecting(att[a], "margin")
                      ELSE [att[a] EXCEPT !.pc = "commit"])
             /\ UNCHANGED trouble
          \/ Trouble /\ Reject(a, "listing")
    /\ UNCHANGED <<world, active, pictures, run, store, wf, bought, kept, released>>

Package(a) ==
    [opportunity |-> att[a].opportunity, ip |-> att[a].ip, analysis |-> att[a].analysis,
     art |-> att[a].art, reviewed |-> att[a].reviewed, variants |-> att[a].offer,
     prices |-> Prices(a)]

\* The package and its system approval.
Commit(a) ==
    /\ At(a, "commit")
    /\ run' = [run EXCEPT !.selected = Id(a), !.ip = att[a].ip,
                          !.analysis = att[a].analysis, !.package = Package(a),
                          !.approved = TRUE, !.status = "publishing"]
    /\ Is(a, Done(att[a], "ready"))
    /\ UNCHANGED <<world, trouble, active, pictures, store, wf, bought, kept, released>>

Rejected(o, reason) ==
    [run EXCEPT !.eligible = @ \ RowsOf(o),
                !.reason = [n \in DOMAIN @ |-> IF n \in RowsOf(o) THEN reason ELSE @[n]],
                !.selected = IF @ = o THEN None ELSE @, !.status = "ranking"]

RejectOpportunity(a) ==
    /\ At(a, "reject")
    /\ run' = Rejected(Id(a), att[a].reason)
    /\ Is(a, Done(att[a], "rejected"))
    /\ UNCHANGED <<world, trouble, active, pictures, store, wf, bought, kept, released>>

\* Whether the step an attempt is at calls a service.
Calling(a) ==
    LET o == Id(a)
    IN \/ att[a].pc \in {"refresh", "offer", "review", "price"}
       \/ At(a, "screen") /\ ~Reusable(run.ip.of, run.screened, o)
       \/ At(a, "references") /\ \E i \in References : store[o].refs[i] = None
       \/ At(a, "analyse") /\ ~Reusable(run.analysis, run.analysed, o)
       \/ At(a, "draw") /\ \E s \in Surfaces(att[a].offer) \ DOMAIN att[a].art :
                               store[o].art[s] = None

\* A RuntimeError of a service (no credit, an HTTP error of Printify) is caught
\* and counts against the opportunity.
ServiceFails(a) ==
    /\ Calling(a)
    /\ Trouble
    /\ Reject(a, "provider")
    /\ UNCHANGED <<world, active, pictures, run, store, wf, bought, kept, released>>

-----------------------------------------------------------------------------
(* CatalogMerchWorkflow *)

\* Executions have no identity: which free one is taken makes no difference.
Free == {b \in Attempts : At(b, "idle")}
Start(a) ==
    /\ wf.stage \in {"research", "resume", "attempt"} /\ wf.current = NoAttempt
    /\ Free # {} /\ a = CHOOSE b \in Free : TRUE
    /\ wf' = [wf EXCEPT !.current = a, !.tries = @ + 1]
    /\ Is(a, [Idle EXCEPT !.pc = IF wf.stage = "attempt" THEN "load" ELSE "begin",
                          !.stage = wf.stage,
                          !.rank = IF wf.stage = "attempt" THEN wf.rank ELSE None])
    /\ UNCHANGED <<world, trouble, active, pictures, run, store, bought, kept, released>>

\* Mutant: the loop goes one opportunity too far.
NextRankBeyond ==
    [wf EXCEPT !.stage = IF wf.rank > Min({wf.count, MaxRanks}) THEN "exhausted"
                         ELSE "attempt",
               !.rank = @ + 1, !.tries = 0, !.current = NoAttempt]

NextRank ==
    LET last == wf.rank >= Min({wf.count, MaxRanks})
    IN [wf EXCEPT !.stage = IF last THEN "exhausted" ELSE "attempt",
                  !.rank = IF last THEN @ ELSE @ + 1, !.tries = 0, !.current = NoAttempt]

Enter(stage) == [wf EXCEPT !.stage = stage, !.tries = 0, !.current = NoAttempt]

\* The answer of a research attempt is the number of opportunities.
Answer(a) ==
    /\ wf.current = a /\ At(a, "done") /\ att[a].result # "error"
    /\ wf' = CASE wf.stage \in {"research", "resume"} ->
                    [Enter(IF att[a].count = 0 THEN "ended" ELSE "attempt")
                        EXCEPT !.count = att[a].count]
               [] wf.stage = "attempt" /\ att[a].result = "ready" -> Enter("publish")
               [] wf.stage = "attempt" /\ att[a].result = "rejected" -> NextRank
    /\ Is(a, Idle)
    /\ UNCHANGED <<world, trouble, active, pictures, run, store, bought, kept, released>>

\* The next attempt, or mark_failed after the last one.
TryAgain ==
    IF wf.tries < MaxTries THEN wf' = [wf EXCEPT !.current = NoAttempt] /\ UNCHANGED run
    ELSE wf' = Enter("ended") /\ run' = [run EXCEPT !.status = "failed"]

Retry(a) ==
    /\ wf.current = a /\ At(a, "done") /\ att[a].result = "error"
    /\ TryAgain
    /\ Is(a, Idle)
    /\ UNCHANGED <<world, trouble, active, pictures, store, bought, kept, released>>

\* A timeout; a patient world's attempts do not outlive it.
Expire(a) ==
    /\ wf.current = a /\ ~At(a, "done")
    /\ Trouble
    /\ TryAgain
    /\ IF world.patient THEN Is(a, Idle) ELSE UNCHANGED att
    /\ UNCHANGED <<world, active, pictures, store, bought, kept, released>>

\* publish_catalog_run, whose steps are in CatalogPublication: the package is
\* published, or found to have drifted and rejected; a run that is not to be
\* published is refused.
Publish ==
    /\ wf.stage = "publish"
    /\ IF run.status = "publishing" /\ run.package # NoPackage
       THEN \/ /\ released' = run.package
               /\ run' = [run EXCEPT !.status = "published"]
               /\ wf' = Enter("ended")
               /\ UNCHANGED trouble
            \/ /\ Trouble
               /\ run' = Rejected(run.selected, "drift")
               /\ wf' = NextRank
               /\ UNCHANGED released
       ELSE /\ run' = [run EXCEPT !.status = "failed"]
            /\ wf' = Enter("ended")
            /\ UNCHANGED <<trouble, released>>
    /\ UNCHANGED <<world, active, pictures, store, att, bought, kept>>

FinishExhausted ==
    /\ wf.stage = "exhausted"
    /\ run' = [run EXCEPT !.status = "no_qualified_opportunity"]
    /\ wf' = Enter("ended")
    /\ UNCHANGED <<world, trouble, active, pictures, store, att, bought, kept, released>>

\* resume_researched_run, asked for by the operator.
Resume ==
    /\ wf.stage = "ended" /\ run.status = "failed"
    /\ run.opportunities # <<>> /\ ~run.approved
    /\ Trouble
    /\ run' = [run EXCEPT !.status = "pending"]
    /\ wf' = [stage |-> "resume", rank |-> 1, count |-> 0, tries |-> 0, current |-> NoAttempt]
    /\ UNCHANGED <<world, active, pictures, store, att, bought, kept, released>>

-----------------------------------------------------------------------------
(* What happens around it *)

\* The worker dies, the answer is lost, or an error that nothing catches
\* ends the attempt.
Interrupted(a) ==
    /\ ~At(a, "idle") /\ att[a].result # "error"
    /\ Trouble
    /\ Is(a, Done(att[a], "error"))
    /\ UNCHANGED <<world, active, pictures, run, store, wf, bought, kept, released>>

\* The end of an attempt that was given up.
Leave(a) ==
    /\ At(a, "done") /\ wf.current # a
    /\ Is(a, Idle)
    /\ UNCHANGED <<world, trouble, active, pictures, run, store, wf, bought, kept, released>>

\* A seller changes the pictures of a listing.
Repaint ==
    /\ pictures = 1 /\ Trouble
    /\ pictures' = 2
    /\ UNCHANGED <<world, active, run, store, att, wf, bought, kept, released>>

Research(a) == \/ BeginResearch(a) \/ Candidate(a) \/ Gather(a) \/ StoreOpportunities(a)
               \/ ResumeResearch(a)

Prepare(a) == \/ Load(a) \/ Select(a) \/ Refresh(a) \/ Screen(a) \/ SaveScreen(a) \/ Offer(a)
              \/ FetchReferences(a) \/ SaveSheet(a) \/ SaveReference(a)
              \/ Analyse(a) \/ SaveAnalysis(a) \/ Generate(a) \/ Draw(a) \/ SaveArt(a)
              \/ Review(a) \/ Price(a) \/ Commit(a) \/ RejectOpportunity(a)

Next ==
    \/ \E a \in Attempts : Research(a) \/ Prepare(a) \/ ServiceFails(a)
    \/ \E a \in Attempts : Start(a) \/ Answer(a) \/ Retry(a) \/ Expire(a)
    \/ Publish \/ FinishExhausted \/ Resume \/ Repaint
    \/ \E a \in Attempts : Interrupted(a) \/ Leave(a)

Spec == Init /\ [][Next]_vars

-----------------------------------------------------------------------------
(* Properties *)

\* Type invariant.
TypeOK ==
    /\ trouble \in 0..world.trouble
    /\ active \subseteq Products /\ pictures \in Pictures
    /\ run.status \in Statuses
    /\ \A n \in DOMAIN run.opportunities : /\ run.opportunities[n].product \in Products
                                          /\ run.opportunities[n].id \in Ids
    /\ run.eligible \subseteq DOMAIN run.opportunities
    /\ run.reason \in [DOMAIN run.opportunities -> Reasons]
    /\ run.ip \in Reports
    /\ {run.selected, run.screened, run.analysis, run.analysed} \subseteq Ids \cup {None}
    /\ run.package.opportunity.id \in Ids \cup {None}
    /\ \A o \in Ids : /\ store[o].sheet \in [References -> Pictures \cup {None}]
                      /\ store[o].refs \in [References -> Pictures \cup {None}]
                      /\ store[o].art \in [AllSurfaces -> Nat]
    /\ \A a \in Attempts :
         /\ att[a].pc \in PCs /\ att[a].stage \in Stages /\ att[a].result \in Results
         /\ att[a].rank \in Ranks \cup {None}
         /\ att[a].opportunity.id \in Ids \cup {None}
         /\ att[a].ip \in Reports /\ att[a].analysis \in Ids \cup {None}
         /\ att[a].refs \in [References -> Pictures \cup {None}]
         /\ att[a].missing \subseteq References
         /\ DOMAIN att[a].art \subseteq AllSurfaces /\ att[a].reason \in Reasons
    /\ wf.stage \in Stages /\ wf.tries \in 0..MaxTries
    /\ wf.rank \in 1..Max({1, Min({wf.count, MaxRanks})})
    /\ wf.current \in Attempts \cup {NoAttempt}
    /\ bought \in [Ids -> [Calls -> Nat]]
    /\ kept \subseteq Ids \X Calls

\* Every artwork of a package that is, or was, to be released is the one that
\* the store has for that surface and opportunity, also when attempts overlap.
\* While they do not, every other part was made for the opportunity too, the
\* screening passed and the artwork was reviewed, and what is published is no
\* opportunity that was rejected (docs/catalog-v2.md, "Safety model").
PackageIsWhole ==
    \A package \in {run.package, released} \ {NoPackage} :
        LET o == package.opportunity.id
        IN /\ DOMAIN package.art = Surfaces(package.variants)
           /\ \A s \in DOMAIN package.art : package.art[s] = store[o].art[s]
           /\ world.patient =>
                /\ package.analysis = o
                /\ world.ip => package.ip = [of |-> o, pass |-> TRUE]
                /\ world.originality => package.reviewed
                /\ package = released => \E n \in run.eligible : run.opportunities[n].id = o

Prices99 == {100 * n - 1 : n \in 1..world.dollars}
Profitable(v, price) ==
    (1000 - PercentFee - TargetMargin) * (price + CustomerShipping)
        >= 1000 * (v.cost + v.shipping + FixedFee + Discount)

\* Every price of a package ends in 99, leaves the target margin also with the
\* fee that is charged, and no other would have been better: if some profitable
\* price undercuts the comparable median, it is the highest of those, and
\* otherwise the lowest profitable one (domain/pricing.py, competitive_price).
PricesAreBest ==
    run.package # NoPackage =>
        \A i \in DOMAIN run.package.prices :
            LET v == run.package.variants[i]
                p == run.package.prices[i]
                median == ComparableMedian(run.package.opportunity.listings)
                Undercuts(q) == median # Unknown /\ q + CustomerShipping < median
            IN /\ p.variant = v.id
               /\ p.price % 100 = 99 /\ Profitable(v, p.price)
               /\ p.undercut = "true" <=> Undercuts(p.price)
               /\ \A q \in Prices99 : Profitable(v, q) =>
                     IF Undercuts(p.price) THEN Undercuts(q) => q <= p.price
                     ELSE ~Undercuts(q) /\ p.price <= q
               /\ 1000 * p.contribution >= TargetMargin * (p.price + CustomerShipping)

\* The variants of a package are one complete matrix of option values, each
\* combination once and by a variant none is cheaper than, on no more axes
\* and in no greater number than Etsy and Printify accept, all available,
\* printable and with known costs.
OfferIsMatrix ==
    run.package # NoPackage =>
        LET vs == run.package.variants
            product == ProductOf(run.package.opportunity)
            axes == AxesOf(vs)
        IN /\ \A i \in DOMAIN vs : /\ vs[i].available /\ vs[i].supported
                                   /\ vs[i].cost # Unknown /\ vs[i].shipping # Unknown
                                   /\ DOMAIN vs[i].options = axes
           /\ Cardinality(axes) <= MaxAxes
           /\ Len(vs) <= Min({MaxEnabled, InventoryProductLimit(Cardinality(axes))})
           /\ \A i, j \in DOMAIN vs : i # j /\ axes # {} => vs[i].options # vs[j].options
           /\ \A k \in [axes -> UNION {ValuesOn(vs, x) : x \in axes}] :
                 (\A x \in axes : k[x] \in ValuesOn(vs, x)) =>
                     \E i \in DOMAIN vs : vs[i].options = k
           /\ \A i \in DOMAIN vs : \A n \in DOMAIN product.variants :
                 LET w == product.variants[n]
                 IN w.available /\ w.options = vs[i].options /\ axes # {}
                    => vs[i].cost <= w.cost

\* "Temporal retries reuse stored research, reference images, model outputs,
\* artwork" (docs/catalog-v2.md, "Recovery and terminal states"): a screening,
\* an analysis or an artwork whose result was stored is never paid for again,
\* whatever was interrupted since, unless attempts overlap.
PaidOnce ==
    [][world.patient =>
         \A o \in Ids : \A c \in Calls :
             bought'[o][c] > bought[o][c] => <<o, c>> \notin kept]_vars

\* "Variant selection ... collapses additional Printify axes"
\* (docs/catalog-v2.md:89): a product whose variants can be sold is not turned
\* down because it has more option axes than the shop supports.
AxesAreCollapsed ==
    \A o \in DOMAIN run.opportunities :
        run.reason[o] = "offering" =>
            Cardinality(AxesOf(Offered(ProductOf(run.opportunities[o])))) <= MaxAxes
=============================================================================
