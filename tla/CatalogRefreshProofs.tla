----------------------- MODULE CatalogRefreshProofs -----------------------
(***************************************************************************)
(* Theorems about CatalogRefresh, for every number of refreshes,           *)
(* workflows, offerings and tries: types and the lease; the refinement of  *)
(* CatalogSnapshot and the action properties, where one workflow at a time *)
(* works on a refresh; who does, by the owner a claim records; and the     *)
(* curation that follows every completion.                                 *)
(***************************************************************************)
EXTENDS CatalogRefresh, FiniteSetTheorems, TLAPS

USE ConstantsAssumption DEF ConstantsAssumption

(* An attempt past the claim, and a caller past its own, know the refresh   *)
(* they work on: without it nothing could be said of the record they write. *)
(* A manual workflow has not run before its caller claimed.                 *)
Acting == {"discover", "discovering", "batch", "batching", "finalize", "curating", "fail"}
Sound(x) == x \in WorkflowStates /\ (x.phase \in Acting => x.refresh \in RefreshIds)
KnowsRefresh ==
    /\ \A w \in Workflows : wf[w].phase \in Acting => wf[w].refresh \in RefreshIds
    /\ \A w \in Manual : caller[w] \in {"starting", "failing"} => wf[w].refresh \in RefreshIds
    /\ \A w \in Manual : caller[w] = "off" => wf[w].phase = "off"

(* At most one refresh holds the lease, however claims, failures and        *)
(* completions interleave (the unique column active_lease).                 *)
AtMostOneLease == \A r, s \in Lease : r = s

RefreshInv == TypeOK /\ KnowsRefresh /\ AtMostOneLease

-----------------------------------------------------------------------------
(* Attempts stay sound *)

(* Entering a phase resets the attempt and keeps the refresh. *)
LEMMA EnterSound ==
    ASSUME NEW x, Sound(x), NEW phase \in Phases,
           phase \in Acting => x.refresh \in RefreshIds
    PROVE  Sound(Enter(x, phase)) /\ Enter(x, phase).refresh = x.refresh
  <1>1. 0 \in Tries
    BY DEF Tries
  <1>2. Enter(x, phase) \in WorkflowStates
    BY <1>1 DEF Sound, Enter, WorkflowStates
  <1>3. Enter(x, phase).refresh = x.refresh /\ Enter(x, phase).phase = phase
    BY DEF Sound, Enter, WorkflowStates
  <1>. QED BY <1>2, <1>3 DEF Sound

(* An ended workflow remembers its refresh. *)
LEMMA EndWithSound ==
    ASSUME NEW x, Sound(x), NEW result \in {"none", "done", "failed"}
    PROVE  Sound(EndWith(x, result)) /\ EndWith(x, result).refresh = x.refresh
  <1>. DEFINE y == Enter(x, "ended")
  <1>1. Sound(y) /\ y.refresh = x.refresh
    BY EnterSound DEF Phases, Acting
  <1>2. y.phase = "ended"
    BY DEF Enter, Sound, WorkflowStates
  <1>3. EndWith(x, result) = [y EXCEPT !.result = result]
    BY DEF EndWith
  <1>. HIDE DEF y
  <1>. QED BY <1>1, <1>2, <1>3 DEF Sound, WorkflowStates, Acting

(* Giving up leads to the failure handler only from phases with a refresh. *)
LEMMA GiveUpSound ==
    ASSUME NEW x, Sound(x), x.phase \in Acting \cup {"claim"}
    PROVE  Sound(GiveUp(x)) /\ GiveUp(x).refresh = x.refresh
  <1>1. CASE x.phase = "claim"
    BY <1>1, EndWithSound DEF GiveUp
  <1>2. CASE x.phase # "claim"
    <2>1. x.refresh \in RefreshIds
      BY <1>2 DEF Sound
    <2>2. GiveUp(x) = Enter(x, "fail")
      BY <1>2 DEF GiveUp
    <2>. QED BY <2>1, <2>2, EnterSound DEF Phases
  <1>. QED BY <1>1, <1>2

(* A lost attempt is repeated within the limit, or given up. *)
LEMMA RetrySound ==
    ASSUME NEW x, Sound(x), x.phase \in Acting \cup {"claim"}
    PROVE  Sound(Retry(x)) /\ Retry(x).refresh = x.refresh
  <1>1. CASE x.tries + 1 < MaxTries
    <2>1. Restart(x.phase) \in Phases
      BY DEF Restart, Phases, Acting
    <2>2. Restart(x.phase) \in Acting => x.phase \in Acting
      BY DEF Restart, Acting
    <2>. DEFINE y == Enter(x, Restart(x.phase))
    <2>3. Sound(y) /\ y.refresh = x.refresh
      BY <2>1, <2>2, EnterSound DEF Sound
    <2>4. Retry(x) = [y EXCEPT !.tries = x.tries + 1]
      BY <1>1 DEF Retry
    <2>5. x.tries + 1 \in Tries
      BY <1>1 DEF Sound, WorkflowStates, Tries
    <2>. HIDE DEF y
    <2>. QED BY <2>3, <2>4, <2>5 DEF Sound, WorkflowStates
  <1>2. CASE ~(x.tries + 1 < MaxTries)
    BY <1>2, GiveUpSound DEF Retry
  <1>. QED BY <1>1, <1>2

(* The set of the offerings is finite, so manifests and batches are counted. *)
LEMMA PairsFinite ==
    ASSUME NEW S \in SUBSET Pairs
    PROVE  IsFiniteSet(S) /\ Cardinality(S) \in Nat
  <1>1. IsFiniteSet(Pairs)
    BY FS_Interval DEF Pairs
  <1>. QED BY <1>1, FS_Subset, FS_CardinalityType

-----------------------------------------------------------------------------
(* How an action changes one workflow, one record, the catalog *)

(* A workflow moves to a sound state; its refresh is kept or a valid one. *)
LEMMA WorkflowStep ==
    ASSUME RefreshInv, NEW w \in Workflows, NEW y, Sound(y),
           y.refresh \in RefreshIds \/ y.refresh = wf[w].refresh,
           w \in Scheduled \/ wf[w].phase # "off",
           wf' = [wf EXCEPT ![w] = y], UNCHANGED caller
    PROVE  wf' \in [Workflows -> WorkflowStates] /\ KnowsRefresh'
  <1>1. \A v \in Workflows : wf'[v] = IF v = w THEN y ELSE wf[v]
    BY DEF RefreshInv, TypeOK
  <1>2. wf' \in [Workflows -> WorkflowStates]
    BY DEF RefreshInv, TypeOK, Sound
  <1>3. \A v \in Workflows : wf'[v].phase \in Acting => wf'[v].refresh \in RefreshIds
    BY <1>1 DEF RefreshInv, KnowsRefresh, Sound
  <1>4. \A m \in Manual : caller'[m] \in {"starting", "failing"} => wf'[m].refresh \in RefreshIds
    <2>. SUFFICES ASSUME NEW m \in Manual, caller[m] \in {"starting", "failing"}
                  PROVE  wf'[m].refresh \in RefreshIds
      OBVIOUS
    <2>1. wf[m].refresh \in RefreshIds
      BY DEF RefreshInv, KnowsRefresh
    <2>. QED BY <1>1, <2>1 DEF Workflows
  <1>5. ASSUME NEW m \in Manual, caller'[m] = "off" PROVE wf'[m].phase = "off"
    <2>1. wf[m].phase = "off"
      BY <1>5 DEF RefreshInv, KnowsRefresh
    <2>2. m # w
      BY <2>1
    <2>. QED BY <1>1, <2>1, <2>2 DEF Workflows
  <1>. QED BY <1>2, <1>3, <1>4, <1>5 DEF KnowsRefresh

(* A record gets no lease it did not have, unless no record has one. *)
LEMMA RecordStep ==
    ASSUME RefreshInv, NEW r \in RefreshIds, NEW z \in Refreshes,
           z.lease => refreshes[r].lease \/ Lease = {},
           refreshes' = [refreshes EXCEPT ![r] = z]
    PROVE  refreshes' \in [RefreshIds -> Refreshes] /\ AtMostOneLease'
  <1>1. refreshes' \in [RefreshIds -> Refreshes]
    BY DEF RefreshInv, TypeOK
  <1>2. \A s \in RefreshIds : refreshes'[s] = IF s = r THEN z ELSE refreshes[s]
    BY DEF RefreshInv, TypeOK
  <1>3. ASSUME NEW s \in Lease', NEW t \in Lease' PROVE s = t
    BY <1>2, <1>3 DEF RefreshInv, AtMostOneLease, Lease
  <1>. QED BY <1>1, <1>3 DEF AtMostOneLease

(* Products stay well typed. *)
LEMMA UpsertType ==
    ASSUME NEW product \in Products, NEW r \in RefreshIds \cup {None}
    PROVE  Upsert(product, r) \in Products
  BY DEF Upsert, Products

LEMMA MarkUnavailableType ==
    ASSUME NEW product \in Products
    PROVE  MarkUnavailable(product) \in Products
  BY DEF MarkUnavailable, Products

(* Discovery returns manifests. *)
LEMMA DiscoveredType ==
    ASSUME offered \in SUBSET Pairs
    PROVE  Discovered \subseteq Manifests
  <1>1. ASSUME NEW pending \in SUBSET Providers, NEW forbidden \in SUBSET Ranked
        PROVE  IndexDiscovery(pending, forbidden) \in Manifests
    BY DEF IndexDiscovery, Manifests, Listed
  <1>2. ASSUME NEW forbidden \in SUBSET Ranked
        PROVE  BlueprintDiscovery(forbidden) \in Manifests
    BY DEF BlueprintDiscovery, Manifests, Listed
  <1>. QED BY <1>1, <1>2 DEF Discovered

-----------------------------------------------------------------------------
(* Every action preserves the invariant *)

(* The refresh an acting workflow works on is a record. *)
LEMMA ActingRefresh ==
    ASSUME RefreshInv, NEW w \in Workflows, wf[w].phase \in Acting
    PROVE  wf[w].refresh \in RefreshIds /\ refreshes[wf[w].refresh] \in Refreshes
  BY DEF RefreshInv, KnowsRefresh, TypeOK

LEMMA WorkflowSound ==
    ASSUME RefreshInv, NEW w \in Workflows
    PROVE  Sound(wf[w]) /\ wf[w] \in WorkflowStates
  BY DEF RefreshInv, KnowsRefresh, TypeOK, Sound

(* Reporting a sound result, or losing it. *)
LEMMA ReportStep ==
    ASSUME RefreshInv, NEW w \in Workflows, wf[w].phase \in Acting \cup {"claim"},
           NEW next, Sound(next),
           next.refresh \in RefreshIds \/ next.refresh = wf[w].refresh,
           Report(w, next), UNCHANGED caller
    PROVE  wf' \in [Workflows -> WorkflowStates] /\ KnowsRefresh'
  <1>1. Sound(wf[w])
    BY WorkflowSound
  <1>2. Sound(Retry(wf[w])) /\ Retry(wf[w]).refresh = wf[w].refresh /\ wf[w].phase # "off"
    BY <1>1, RetrySound DEF Acting
  <1>3. CASE wf' = [wf EXCEPT ![w] = next]
    BY <1>2, <1>3, WorkflowStep
  <1>4. CASE wf' = [wf EXCEPT ![w] = Retry(wf[w])]
    BY <1>2, <1>4, WorkflowStep
  <1>. QED BY <1>3, <1>4 DEF Report

(* Claims return a record and keep the lease with one refresh. *)
LEMMA ClaimStep ==
    ASSUME RefreshInv, NEW w \in Workflows, NEW r \in RefreshIds, NEW owner \in BOOLEAN,
           Claim(w, r, owner)
    PROVE  refreshes' \in [RefreshIds -> Refreshes] /\ AtMostOneLease'
  <1>. DEFINE fresh == [refreshes[r] EXCEPT !.status = "pending", !.lease = TRUE, !.workflow = w]
              resumed == [refreshes[r] EXCEPT !.status = "pending", !.workflow = w]
  <1>0. refreshes[r] \in Refreshes
    BY DEF RefreshInv, TypeOK
  <1>1. CASE Lease = {} /\ refreshes' = [refreshes EXCEPT ![r] = fresh]
    <2>1. fresh \in Refreshes
      BY <1>0 DEF Refreshes
    <2>. HIDE DEF fresh
    <2>. QED BY <1>1, <2>1, RecordStep
  <1>2. CASE r \in Lease /\ refreshes' = [refreshes EXCEPT ![r] = resumed]
    <2>1. resumed \in Refreshes
      BY <1>0 DEF Refreshes
    <2>2. refreshes[r].lease
      BY <1>2 DEF Lease
    <2>. HIDE DEF resumed
    <2>. QED BY <1>2, <2>1, <2>2, RecordStep
  <1>3. CASE UNCHANGED refreshes
    BY <1>3 DEF RefreshInv, TypeOK, AtMostOneLease, Lease
  <1>. QED BY <1>1, <1>2, <1>3 DEF Claim

(* A failure changes a status at most. *)
LEMMA FailStep ==
    ASSUME RefreshInv, NEW r \in RefreshIds, Fail(r)
    PROVE  refreshes' \in [RefreshIds -> Refreshes] /\ AtMostOneLease'
  <1>. DEFINE z == [refreshes[r] EXCEPT !.status = "failed"]
  <1>1. z \in Refreshes /\ z.lease = refreshes[r].lease
    BY DEF RefreshInv, TypeOK, Refreshes
  <1>2. CASE refreshes' = [refreshes EXCEPT ![r] = z]
    <2>. HIDE DEF z
    <2>. QED BY <1>1, <1>2, RecordStep
  <1>3. CASE UNCHANGED refreshes
    BY <1>3 DEF RefreshInv, TypeOK, AtMostOneLease, Lease
  <1>. QED BY <1>2, <1>3 DEF Fail

(* The refresh process leaves the rest of the state alone. *)
LEMMA UnchangedRecords ==
    ASSUME RefreshInv, UNCHANGED refreshes
    PROVE  refreshes' \in [RefreshIds -> Refreshes] /\ AtMostOneLease'
  BY DEF RefreshInv, TypeOK, AtMostOneLease, Lease

LEMMA UnchangedWorkflows ==
    ASSUME RefreshInv, UNCHANGED <<wf, caller>>
    PROVE  wf' \in [Workflows -> WorkflowStates] /\ KnowsRefresh'
  BY DEF RefreshInv, TypeOK, KnowsRefresh

(* Which phases an acting workflow goes on to. *)
LEMMA LoopSound ==
    ASSUME NEW x, Sound(x), x.refresh \in RefreshIds, NEW refresh
    PROVE  Sound(Loop(x, refresh)) /\ Loop(x, refresh).refresh = x.refresh
  <1>1. CASE refresh.cursor < refresh.total
    <2>1. Loop(x, refresh) = Enter(x, "batch")
      BY <1>1 DEF Loop
    <2>. QED BY <2>1, EnterSound DEF Phases
  <1>2. CASE ~(refresh.cursor < refresh.total)
    <2>1. Loop(x, refresh) = Enter(x, "finalize")
      BY <1>2 DEF Loop
    <2>. QED BY <2>1, EnterSound DEF Phases
  <1>. QED BY <1>1, <1>2

(* Moving on within an attempt. *)
LEMMA GotoSound ==
    ASSUME NEW x, Sound(x), x.refresh \in RefreshIds, NEW phase \in Phases
    PROVE  /\ Sound([x EXCEPT !.phase = phase])
           /\ [x EXCEPT !.phase = phase].refresh = x.refresh
  BY DEF Sound, WorkflowStates

-----------------------------------------------------------------------------
(* The invariant, one lemma per group of actions *)

(* Starting, claiming and failing: the catalog is left alone. *)
LEMMA TriggersPreserve ==
    ASSUME RefreshInv,
           \/ \E w \in Scheduled : Fire(w)
           \/ \E w \in Manual : \/ RequestRefresh(w) \/ StartWorkflow(w) \/ StartFails(w)
                                \/ CallerDies(w) \/ FailStart(w)
    PROVE  RefreshInv'
  <1>. USE DEF Workflows
  <1>1. ASSUME NEW w \in Scheduled, Fire(w) PROVE RefreshInv'
    <2>1. wf[w].phase = "off" /\ Sound(wf[w])
      BY <1>1, WorkflowSound DEF Fire, At
    <2>2. Sound(Enter(wf[w], "claim")) /\ Enter(wf[w], "claim").refresh = wf[w].refresh
      BY <2>1, EnterSound DEF Phases, Acting
    <2>3. wf' \in [Workflows -> WorkflowStates] /\ KnowsRefresh'
      BY <1>1, <2>2, WorkflowStep DEF Fire
    <2>4. refreshes' \in [RefreshIds -> Refreshes] /\ AtMostOneLease'
      BY <1>1, UnchangedRecords DEF Fire
    <2>. QED BY <1>1, <2>3, <2>4 DEF Fire, RefreshInv, TypeOK
  <1>2. ASSUME NEW w \in Manual, RequestRefresh(w) PROVE RefreshInv'
    <2>1. PICK r \in RefreshIds, owner \in BOOLEAN :
             /\ Claim(w, r, owner)
             /\ caller' = [caller EXCEPT ![w] = IF owner THEN "starting" ELSE "gone"]
             /\ wf' = [wf EXCEPT ![w] = [@ EXCEPT !.refresh = IF owner THEN r ELSE None]]
      BY <1>2 DEF RequestRefresh
    <2>2. refreshes' \in [RefreshIds -> Refreshes] /\ AtMostOneLease'
      BY <2>1, ClaimStep
    <2>. DEFINE y == [wf[w] EXCEPT !.refresh = IF owner THEN r ELSE None]
    <2>3. caller[w] = "off" /\ wf[w].phase = "off" /\ wf[w] \in WorkflowStates
      BY <1>2 DEF RequestRefresh, RefreshInv, KnowsRefresh, TypeOK
    <2>4. y \in WorkflowStates /\ y.phase = "off" /\ (owner => y.refresh = r)
      BY <2>3 DEF WorkflowStates
    <2>5. wf' = [wf EXCEPT ![w] = y]
      BY <2>1
    <2>. HIDE DEF y
    <2>6. wf' \in [Workflows -> WorkflowStates] /\ wf'[w] = y
          /\ \A v \in Workflows \ {w} : wf'[v] = wf[v]
      BY <2>4, <2>5 DEF RefreshInv, TypeOK
    <2>7. caller' \in [Manual -> {"off", "starting", "failing", "gone"}]
          /\ caller'[w] = (IF owner THEN "starting" ELSE "gone")
          /\ \A m \in Manual \ {w} : caller'[m] = caller[m]
      BY <2>1 DEF RefreshInv, TypeOK
    <2>8. \A v \in Workflows : wf'[v].phase \in Acting => wf'[v].refresh \in RefreshIds
      BY <2>4, <2>6 DEF RefreshInv, KnowsRefresh, Acting
    <2>9. \A m \in Manual : caller'[m] \in {"starting", "failing"} => wf'[m].refresh \in RefreshIds
      BY <2>4, <2>6, <2>7 DEF RefreshInv, KnowsRefresh
    <2>10. \A m \in Manual : caller'[m] = "off" => wf'[m].phase = "off"
      BY <2>4, <2>6, <2>7 DEF RefreshInv, KnowsRefresh
    <2>11. KnowsRefresh'
      BY <2>8, <2>9, <2>10 DEF KnowsRefresh
    <2>. QED BY <1>2, <2>2, <2>6, <2>7, <2>11 DEF RequestRefresh, RefreshInv, TypeOK
  <1>3. ASSUME NEW w \in Manual, caller[w] \in {"starting", "failing"},
               caller' \in [Manual -> {"off", "starting", "failing", "gone"}],
               \A m \in Manual \ {w} : caller'[m] = caller[m],
               caller'[w] \in {"failing", "gone"},
               UNCHANGED wf \/ wf' = [wf EXCEPT ![w] = Enter(wf[w], "discover")]
        PROVE  wf' \in [Workflows -> WorkflowStates] /\ KnowsRefresh'
    <2>. DEFINE y == Enter(wf[w], "discover")
    <2>1. wf[w].refresh \in RefreshIds /\ Sound(wf[w])
      BY <1>3, WorkflowSound DEF RefreshInv, KnowsRefresh
    <2>2. Sound(y) /\ y.refresh = wf[w].refresh
      BY <2>1, EnterSound DEF Phases
    <2>. HIDE DEF y
    <2>3. wf' \in [Workflows -> WorkflowStates]
          /\ wf'[w] \in {wf[w], y} /\ \A v \in Workflows \ {w} : wf'[v] = wf[v]
      BY <1>3, <2>2 DEF RefreshInv, TypeOK, Sound, y
    <2>4. \A v \in Workflows : wf'[v].phase \in Acting => wf'[v].refresh \in RefreshIds
      BY <2>2, <2>3 DEF RefreshInv, KnowsRefresh, Sound
    <2>5. \A m \in Manual : caller'[m] \in {"starting", "failing"} => wf'[m].refresh \in RefreshIds
      BY <1>3, <2>1, <2>2, <2>3 DEF RefreshInv, KnowsRefresh
    <2>6. \A m \in Manual : caller'[m] = "off" => wf'[m].phase = "off"
      BY <1>3, <2>3 DEF RefreshInv, KnowsRefresh
    <2>. QED BY <2>3, <2>4, <2>5, <2>6 DEF KnowsRefresh
  <1>4. ASSUME NEW w \in Manual, StartWorkflow(w) \/ StartFails(w) \/ CallerDies(w)
        PROVE  RefreshInv'
    <2>1. caller[w] \in {"starting", "failing"}
          /\ (UNCHANGED wf \/ wf' = [wf EXCEPT ![w] = Enter(wf[w], "discover")])
          /\ UNCHANGED <<offered, catalog, curated, refreshes>>
      BY <1>4 DEF StartWorkflow, StartFails, CallerDies
    <2>2. \E x \in {"failing", "gone"} : caller' = [caller EXCEPT ![w] = x]
      BY <1>4 DEF StartWorkflow, StartFails, CallerDies
    <2>3. caller' \in [Manual -> {"off", "starting", "failing", "gone"}]
          /\ caller'[w] \in {"failing", "gone"}
          /\ \A m \in Manual \ {w} : caller'[m] = caller[m]
      BY <2>2 DEF RefreshInv, TypeOK
    <2>4. wf' \in [Workflows -> WorkflowStates] /\ KnowsRefresh'
      BY <1>3, <2>1, <2>3
    <2>5. refreshes' \in [RefreshIds -> Refreshes] /\ AtMostOneLease'
      BY <2>1, UnchangedRecords
    <2>. QED BY <2>1, <2>3, <2>4, <2>5 DEF RefreshInv, TypeOK
  <1>5. ASSUME NEW w \in Manual, FailStart(w) PROVE RefreshInv'
    <2>1. wf[w].refresh \in RefreshIds
      BY <1>5 DEF FailStart, RefreshInv, KnowsRefresh
    <2>2. refreshes' \in [RefreshIds -> Refreshes] /\ AtMostOneLease'
      BY <1>5, <2>1, FailStep DEF FailStart
    <2>3. caller' \in [Manual -> {"off", "starting", "failing", "gone"}]
          /\ caller'[w] \in {"failing", "gone"}
          /\ \A m \in Manual \ {w} : caller'[m] = caller[m]
      BY <1>5 DEF FailStart, RefreshInv, TypeOK
    <2>4. wf' \in [Workflows -> WorkflowStates] /\ KnowsRefresh'
      BY <1>3, <1>5, <2>3 DEF FailStart
    <2>. QED BY <1>5, <2>2, <2>3, <2>4 DEF FailStart, RefreshInv, TypeOK
  <1>. QED BY <1>1, <1>2, <1>4, <1>5

(* Everyone else changes products only. *)
LEMMA OthersPreserve ==
    ASSUME RefreshInv,
           \/ \E p \in Singles : RefreshProduct(p)
           \/ \E p \in Endangered : Withdraw(p)
           \/ RecoverProviders \/ CurateCommand
    PROVE  RefreshInv'
  <1>1. UNCHANGED <<refreshes, wf, caller>>
    BY DEF RefreshProduct, Withdraw, RecoverProviders, CurateCommand
  <1>2. offered' \in SUBSET Pairs
    BY DEF RefreshProduct, Withdraw, RecoverProviders, CurateCommand, RefreshInv, TypeOK
  <1>3. curated' \in SUBSET Pairs
    BY DEF RefreshProduct, Withdraw, RecoverProviders, CurateCommand, RefreshInv, TypeOK,
           Best, Active
  <1>4. ASSUME NEW p \in Singles, RefreshProduct(p) PROVE catalog' \in [Pairs -> Products]
    <2>1. catalog \in [Pairs -> Products]
      BY DEF RefreshInv, TypeOK
    <2>. DEFINE up(q) == Upsert(catalog[q], None)
                out(q) == MarkUnavailable(catalog[q])
    <2>2. \A q \in Pairs : up(q) \in Products /\ out(q) \in Products
      BY <2>1, UpsertType, MarkUnavailableType
    <2>3. \E q \in Pairs : \/ catalog' = [catalog EXCEPT ![q] = up(q)]
                           \/ catalog' = [catalog EXCEPT ![q] = out(q)]
      BY <1>4 DEF RefreshProduct
    <2>. HIDE DEF up, out
    <2>. QED BY <2>1, <2>2, <2>3
  <1>5. ASSUME RecoverProviders PROVE catalog' \in [Pairs -> Products]
    <2>1. catalog \in [Pairs -> Products]
      BY DEF RefreshInv, TypeOK
    <2>2. \A q \in Pairs : Upsert(catalog[q], None) \in Products
      BY <2>1, UpsertType
    <2>3. PICK readable : catalog' = [p \in Pairs |->
               IF p \in Listed \ Active /\ ProviderOf[p] \in readable
                 THEN Upsert(catalog[p], None) ELSE catalog[p]]
      BY <1>5 DEF RecoverProviders
    <2>. QED BY <2>1, <2>2, <2>3
  <1>6. catalog' \in [Pairs -> Products]
    BY <1>4, <1>5 DEF Withdraw, CurateCommand, RefreshInv, TypeOK
  <1>7. refreshes' \in [RefreshIds -> Refreshes] /\ AtMostOneLease'
    BY <1>1, UnchangedRecords
  <1>8. wf' \in [Workflows -> WorkflowStates] /\ KnowsRefresh'
    BY <1>1, UnchangedWorkflows
  <1>. QED BY <1>1, <1>2, <1>3, <1>6, <1>7, <1>8 DEF RefreshInv, TypeOK

(* Lost attempts, and the failure handler. *)
LEMMA FailuresPreserve ==
    ASSUME RefreshInv, NEW w \in Workflows,
           AttemptDies(w) \/ FailRefresh(w) \/ FailRefreshResultLost(w)
    PROVE  RefreshInv'
  <1>1. Sound(wf[w])
    BY WorkflowSound
  <1>2. CASE AttemptDies(w)
    <2>1. wf[w].phase \in Acting \cup {"claim"} /\ wf[w].phase # "off"
      BY <1>2 DEF AttemptDies, Acting
    <2>2. Sound(Retry(wf[w])) /\ Retry(wf[w]).refresh = wf[w].refresh
          /\ Sound(GiveUp(wf[w])) /\ GiveUp(wf[w]).refresh = wf[w].refresh
      BY <1>1, <2>1, RetrySound, GiveUpSound
    <2>3. wf' = [wf EXCEPT ![w] = Retry(wf[w])] \/ wf' = [wf EXCEPT ![w] = GiveUp(wf[w])]
      BY <1>2 DEF AttemptDies
    <2>4. wf' \in [Workflows -> WorkflowStates] /\ KnowsRefresh'
      BY <1>2, <2>1, <2>2, <2>3, WorkflowStep DEF AttemptDies
    <2>5. refreshes' \in [RefreshIds -> Refreshes] /\ AtMostOneLease'
      BY <1>2, UnchangedRecords DEF AttemptDies
    <2>. QED BY <1>2, <2>4, <2>5 DEF AttemptDies, RefreshInv, TypeOK
  <1>3. CASE FailRefresh(w) \/ FailRefreshResultLost(w)
    <2>1. wf[w].phase = "fail"
      BY <1>3 DEF FailRefresh, FailRefreshResultLost, At
    <2>2. wf[w].refresh \in RefreshIds
      BY <2>1, ActingRefresh DEF Acting
    <2>3. refreshes' \in [RefreshIds -> Refreshes] /\ AtMostOneLease'
      BY <1>3, <2>2, FailStep DEF FailRefresh, FailRefreshResultLost
    <2>4. Sound(EndWith(wf[w], "failed")) /\ EndWith(wf[w], "failed").refresh = wf[w].refresh
      BY <1>1, EndWithSound
    <2>5. wf' \in [Workflows -> WorkflowStates] /\ KnowsRefresh'
      BY <1>3, <2>1, <2>4, WorkflowStep, UnchangedWorkflows DEF FailRefresh, FailRefreshResultLost
    <2>. QED BY <1>3, <2>3, <2>5 DEF FailRefresh, FailRefreshResultLost, RefreshInv, TypeOK
  <1>. QED BY <1>2, <1>3

(* The claim, discovery and curation of a workflow. *)
LEMMA ClaimActivityPreserves ==
    ASSUME RefreshInv, NEW w \in Workflows, ClaimActivity(w)
    PROVE  RefreshInv'
  <1>1. PICK r \in RefreshIds, owner \in BOOLEAN :
           /\ Claim(w, r, owner)
           /\ Report(w, IF owner THEN [Enter(wf[w], "discover") EXCEPT !.refresh = r]
                                 ELSE EndWith(wf[w], "done"))
    BY DEF ClaimActivity
  <1>2. wf[w].phase = "claim" /\ Sound(wf[w]) /\ UNCHANGED <<offered, catalog, curated, caller>>
    BY WorkflowSound DEF ClaimActivity, At
  <1>3. refreshes' \in [RefreshIds -> Refreshes] /\ AtMostOneLease'
    BY <1>1, ClaimStep
  <1>. DEFINE y == [Enter(wf[w], "discover") EXCEPT !.refresh = r]
  <1>4. Sound(y) /\ y.refresh = r
    <2>. DEFINE z == [wf[w] EXCEPT !.refresh = r]
    <2>1. Sound(z) /\ z.refresh = r
      BY <1>2 DEF Sound, WorkflowStates, Acting
    <2>2. y = Enter(z, "discover")
      BY <1>2 DEF Enter, Sound, WorkflowStates
    <2>. HIDE DEF y, z
    <2>. QED BY <2>1, <2>2, EnterSound DEF Phases
  <1>5. Sound(EndWith(wf[w], "done")) /\ EndWith(wf[w], "done").refresh = wf[w].refresh
    BY <1>2, EndWithSound
  <1>. HIDE DEF y
  <1>6. wf' \in [Workflows -> WorkflowStates] /\ KnowsRefresh'
    <2>1. CASE owner
      BY <1>1, <1>2, <1>4, <2>1, ReportStep DEF y
    <2>2. CASE ~owner
      BY <1>1, <1>2, <1>5, <2>2, ReportStep
    <2>. QED BY <2>1, <2>2
  <1>. QED BY <1>2, <1>3, <1>6 DEF RefreshInv, TypeOK

LEMMA DiscoverPreserves ==
    ASSUME RefreshInv, NEW w \in Workflows, Discover(w)
    PROVE  RefreshInv'
  <1>. DEFINE r == wf[w].refresh
              z == [refreshes[r] EXCEPT !.status = "running"]
              y == [wf[w] EXCEPT !.phase = "discovering"]
  <1>1. wf[w].phase = "discover" /\ Sound(wf[w]) /\ UNCHANGED <<offered, catalog, curated, caller>>
    BY WorkflowSound DEF Discover, At
  <1>2. r \in RefreshIds /\ refreshes[r] \in Refreshes
    BY <1>1, ActingRefresh DEF Acting
  <1>3. CASE HasManifest(r)
    <2>1. refreshes' = [refreshes EXCEPT ![r] = z] /\ Report(w, Loop(wf[w], refreshes[r]))
      BY <1>3 DEF Discover
    <2>2. z \in Refreshes /\ z.lease = refreshes[r].lease
      BY <1>2 DEF Refreshes
    <2>3. Sound(Loop(wf[w], refreshes[r])) /\ Loop(wf[w], refreshes[r]).refresh = r
      BY <1>1, <1>2, LoopSound
    <2>. HIDE DEF z
    <2>4. refreshes' \in [RefreshIds -> Refreshes] /\ AtMostOneLease'
      BY <1>2, <2>1, <2>2, RecordStep
    <2>5. wf' \in [Workflows -> WorkflowStates] /\ KnowsRefresh'
      BY <1>1, <2>1, <2>3, ReportStep DEF Acting
    <2>. QED BY <1>1, <2>4, <2>5 DEF RefreshInv, TypeOK
  <1>4. CASE ~HasManifest(r)
    <2>1. wf' = [wf EXCEPT ![w] = y] /\ UNCHANGED refreshes
      BY <1>4 DEF Discover
    <2>2. Sound(y) /\ y.refresh = r
      BY <1>1, <1>2, GotoSound DEF Phases
    <2>. HIDE DEF y
    <2>3. wf' \in [Workflows -> WorkflowStates] /\ KnowsRefresh'
      BY <1>1, <2>1, <2>2, WorkflowStep
    <2>4. refreshes' \in [RefreshIds -> Refreshes] /\ AtMostOneLease'
      BY <2>1, UnchangedRecords
    <2>. QED BY <1>1, <2>3, <2>4 DEF RefreshInv, TypeOK
  <1>. QED BY <1>3, <1>4

LEMMA StoreManifestPreserves ==
    ASSUME RefreshInv, NEW w \in Workflows, StoreManifest(w)
    PROVE  RefreshInv'
  <1>. DEFINE r == wf[w].refresh
  <1>1. wf[w].phase = "discovering" /\ Sound(wf[w])
        /\ UNCHANGED <<offered, catalog, curated, caller>>
    BY WorkflowSound DEF StoreManifest, At
  <1>2. r \in RefreshIds /\ refreshes[r] \in Refreshes
    BY <1>1, ActingRefresh DEF Acting
  <1>3. PICK manifest \in Discovered :
           refreshes' = [refreshes EXCEPT ![r] = [@ EXCEPT
               !.status = "running", !.manifest = manifest,
               !.total = Cardinality(manifest.pairs),
               !.unresolved = refreshes[r].unresolved \cup manifest.providers]]
    BY DEF StoreManifest
  <1>. DEFINE z == [refreshes[r] EXCEPT
               !.status = "running", !.manifest = manifest,
               !.total = Cardinality(manifest.pairs),
               !.unresolved = refreshes[r].unresolved \cup manifest.providers]
  <1>4. manifest \in Manifests
    BY DiscoveredType DEF RefreshInv, TypeOK
  <1>5. Cardinality(manifest.pairs) \in Nat /\ manifest.providers \in SUBSET Providers
    BY <1>4, PairsFinite DEF Manifests
  <1>6. z \in Refreshes /\ z.lease = refreshes[r].lease
    BY <1>2, <1>4, <1>5 DEF Refreshes
  <1>7. refreshes' = [refreshes EXCEPT ![r] = z]
    BY <1>3, Zenon
  <1>. HIDE DEF z
  <1>8. refreshes' \in [RefreshIds -> Refreshes] /\ AtMostOneLease'
    BY <1>2, <1>6, <1>7, RecordStep
  <1>9. Report(w, Loop(wf[w], refreshes'[r]))
    BY DEF StoreManifest
  <1>10. Sound(Loop(wf[w], refreshes'[r])) /\ Loop(wf[w], refreshes'[r]).refresh = r
    BY <1>1, <1>2, LoopSound
  <1>11. wf' \in [Workflows -> WorkflowStates] /\ KnowsRefresh'
    BY <1>1, <1>9, <1>10, ReportStep DEF Acting
  <1>. QED BY <1>1, <1>8, <1>11 DEF RefreshInv, TypeOK

LEMMA CuratePreserves ==
    ASSUME RefreshInv, NEW w \in Workflows, Curate(w)
    PROVE  RefreshInv'
  <1>1. wf[w].phase = "curating" /\ Sound(wf[w])
        /\ UNCHANGED <<offered, catalog, refreshes, caller>> /\ curated' \in SUBSET Pairs
    BY WorkflowSound DEF Curate, At, Best, Active
  <1>2. Sound(EndWith(wf[w], "done")) /\ EndWith(wf[w], "done").refresh = wf[w].refresh
    BY <1>1, EndWithSound
  <1>3. wf' \in [Workflows -> WorkflowStates] /\ KnowsRefresh'
    BY <1>1, <1>2, ReportStep DEF Curate, Acting
  <1>4. refreshes' \in [RefreshIds -> Refreshes] /\ AtMostOneLease'
    BY <1>1, UnchangedRecords
  <1>. QED BY <1>1, <1>3, <1>4 DEF RefreshInv, TypeOK

(* The two transactions of a batch. *)
LEMMA ReadBatchPreserves ==
    ASSUME RefreshInv, NEW w \in Workflows, ReadBatch(w)
    PROVE  RefreshInv'
  <1>. DEFINE r == wf[w].refresh
              batch == Slice(refreshes[r].manifest.pairs, refreshes[r].cursor)
              y == [wf[w] EXCEPT !.phase = "batching", !.batch = batch,
                       !.start = refreshes[r].cursor, !.found = batch \cap offered]
  <1>1. wf[w].phase = "batch" /\ Sound(wf[w])
        /\ UNCHANGED <<offered, catalog, curated, refreshes, caller>>
    BY WorkflowSound DEF ReadBatch, At
  <1>2. r \in RefreshIds /\ refreshes[r] \in Refreshes
    BY <1>1, ActingRefresh DEF Acting
  <1>3. batch \in SUBSET Pairs /\ refreshes[r].cursor \in Nat
    BY <1>2 DEF Refreshes, Manifests, Slice
  <1>4. wf' = [wf EXCEPT ![w] = Retry(wf[w])] \/ Report(w, Loop(wf[w], refreshes[r]))
        \/ wf' = [wf EXCEPT ![w] = y]
    BY DEF ReadBatch
  <1>5. Sound(Retry(wf[w])) /\ Retry(wf[w]).refresh = r
    BY <1>1, RetrySound DEF Acting
  <1>6. Sound(Loop(wf[w], refreshes[r])) /\ Loop(wf[w], refreshes[r]).refresh = r
    BY <1>1, <1>2, LoopSound
  <1>7. Sound(y) /\ y.refresh = r
    <2>. HIDE DEF batch
    <2>1. batch \cap offered \in SUBSET Pairs /\ wf[w] \in WorkflowStates
      BY <1>1, <1>3 DEF Sound
    <2>2. y \in WorkflowStates /\ y.refresh = r
      BY <1>3, <2>1 DEF WorkflowStates, Phases
    <2>. QED BY <1>2, <2>2 DEF Sound
  <1>. HIDE DEF y
  <1>8. wf' \in [Workflows -> WorkflowStates] /\ KnowsRefresh'
    <2>1. CASE wf' = [wf EXCEPT ![w] = Retry(wf[w])]
      BY <1>1, <1>5, <2>1, WorkflowStep
    <2>2. CASE Report(w, Loop(wf[w], refreshes[r]))
      BY <1>1, <1>6, <2>2, ReportStep DEF Acting
    <2>3. CASE wf' = [wf EXCEPT ![w] = y]
      BY <1>1, <1>7, <2>3, WorkflowStep
    <2>. QED BY <1>4, <2>1, <2>2, <2>3
  <1>9. refreshes' \in [RefreshIds -> Refreshes] /\ AtMostOneLease'
    BY <1>1, UnchangedRecords
  <1>. QED BY <1>1, <1>8, <1>9 DEF RefreshInv, TypeOK

LEMMA CommitBatchPreserves ==
    ASSUME RefreshInv, NEW w \in Workflows, CommitBatch(w)
    PROVE  RefreshInv'
  <1>. DEFINE x == wf[w]
              cursor == Larger(refreshes[x.refresh].cursor, CursorAfter(x))
              z == [refreshes[x.refresh] EXCEPT !.status = "running", !.cursor = cursor]
  <1>1. x.phase = "batching" /\ Sound(x) /\ x \in WorkflowStates
        /\ UNCHANGED <<offered, curated, caller>>
    BY WorkflowSound DEF CommitBatch, At
  <1>2. x.refresh \in RefreshIds /\ refreshes[x.refresh] \in Refreshes
    BY <1>1, ActingRefresh DEF Acting
  <1>3. cursor \in Nat
    <2>1. Cardinality(x.batch) \in Nat /\ x.start \in Nat
      BY <1>1, PairsFinite DEF WorkflowStates
    <2>. QED BY <1>2, <2>1 DEF CursorAfter, Larger, Refreshes
  <1>4. refreshes' = [refreshes EXCEPT ![x.refresh] = z]
    BY DEF CommitBatch
  <1>5. z \in Refreshes /\ z.lease = refreshes[x.refresh].lease
    <2>. HIDE DEF cursor
    <2>. QED BY <1>2, <1>3 DEF Refreshes
  <1>6. Report(w, Loop(x, refreshes'[x.refresh]))
    BY DEF CommitBatch
  <1>7. Sound(Loop(x, refreshes'[x.refresh])) /\ Loop(x, refreshes'[x.refresh]).refresh = x.refresh
    BY <1>1, <1>2, LoopSound
  <1>. HIDE DEF z
  <1>8. refreshes' \in [RefreshIds -> Refreshes] /\ AtMostOneLease'
    BY <1>2, <1>4, <1>5, RecordStep
  <1>9. wf' \in [Workflows -> WorkflowStates] /\ KnowsRefresh'
    BY <1>1, <1>6, <1>7, ReportStep DEF Acting
  <1>10. catalog' \in [Pairs -> Products]
    <2>1. catalog \in [Pairs -> Products]
      BY DEF RefreshInv, TypeOK
    <2>2. \A p \in Pairs : Upsert(catalog[p], x.refresh) \in Products
                           /\ MarkUnavailable(catalog[p]) \in Products
      BY <1>2, <2>1, UpsertType, MarkUnavailableType
    <2>3. catalog' = [p \in Pairs |->
             IF p \in x.found THEN Upsert(catalog[p], x.refresh)
             ELSE IF p \in x.batch THEN MarkUnavailable(catalog[p])
             ELSE catalog[p]]
      BY DEF CommitBatch
    <2>. QED BY <2>1, <2>2, <2>3
  <1>. QED BY <1>1, <1>8, <1>9, <1>10 DEF RefreshInv, TypeOK

(* The completion gives the lease back. *)
LEMMA FinalizePreserves ==
    ASSUME RefreshInv, NEW w \in Workflows, Finalize(w)
    PROVE  RefreshInv'
  <1>. DEFINE r == wf[w].refresh
              y == [wf[w] EXCEPT !.phase = "curating"]
              z == [refreshes[r] EXCEPT !.status = "completed", !.lease = FALSE,
                       !.manifest = NoManifest, !.cursor = refreshes[r].total]
  <1>1. wf[w].phase = "finalize" /\ Sound(wf[w]) /\ UNCHANGED <<offered, curated, caller>>
    BY WorkflowSound DEF Finalize, At
  <1>2. r \in RefreshIds /\ refreshes[r] \in Refreshes
    BY <1>1, ActingRefresh DEF Acting
  <1>3. wf' = [wf EXCEPT ![w] = y] \/ wf' = [wf EXCEPT ![w] = Retry(wf[w])]
    BY DEF Finalize
  <1>4. Complete(r) \/ UNCHANGED <<catalog, refreshes>>
    BY DEF Finalize
  <1>5. Sound(y) /\ y.refresh = r /\ Sound(Retry(wf[w])) /\ Retry(wf[w]).refresh = r
    BY <1>1, <1>2, GotoSound, RetrySound DEF Phases, Acting
  <1>6. wf' \in [Workflows -> WorkflowStates] /\ KnowsRefresh'
    <2>. HIDE DEF y
    <2>. QED BY <1>1, <1>3, <1>5, WorkflowStep
  <1>7. CASE Complete(r)
    <2>1. refreshes' = [refreshes EXCEPT ![r] = z]
      BY <1>7 DEF Complete
    <2>2. z \in Refreshes /\ ~z.lease
      BY <1>2 DEF Refreshes, Manifests, NoManifest
    <2>. HIDE DEF z
    <2>3. refreshes' \in [RefreshIds -> Refreshes] /\ AtMostOneLease'
      BY <1>2, <2>1, <2>2, RecordStep
    <2>4. catalog' \in [Pairs -> Products]
      <3>1. catalog \in [Pairs -> Products]
        BY DEF RefreshInv, TypeOK
      <3>2. \A p \in Pairs : [catalog[p] EXCEPT !.state = "retired"] \in Products
        BY <3>1 DEF Products
      <3>. QED BY <1>7, <3>1, <3>2 DEF Complete
    <2>. QED BY <1>1, <1>6, <2>3, <2>4 DEF RefreshInv, TypeOK
  <1>8. CASE UNCHANGED <<catalog, refreshes>>
    <2>1. refreshes' \in [RefreshIds -> Refreshes] /\ AtMostOneLease'
      BY <1>8, UnchangedRecords
    <2>. QED BY <1>1, <1>6, <1>8, <2>1 DEF RefreshInv, TypeOK
  <1>. QED BY <1>4, <1>7, <1>8

-----------------------------------------------------------------------------
(* The theorems *)

LEMMA InitInv == Init => RefreshInv
  <1>. SUFFICES ASSUME Init PROVE RefreshInv
    OBVIOUS
  <1>1. Unused \in Refreshes /\ ~Unused.lease
    BY DEF Unused, Refreshes, NoManifest, Manifests
  <1>2. Off \in WorkflowStates /\ Off.phase = "off"
    BY DEF Off, WorkflowStates, Phases, Tries
  <1>3. TypeOK
    <2>. HIDE DEF ConstantsAssumption
    <2>. QED BY <1>1, <1>2 DEF Init, TypeOK, Products
  <1>4. KnowsRefresh
    BY <1>2 DEF Init, KnowsRefresh, Acting, Workflows
  <1>5. AtMostOneLease
    BY <1>1 DEF Init, AtMostOneLease, Lease
  <1>. QED BY <1>3, <1>4, <1>5 DEF RefreshInv

LEMMA NextInv == RefreshInv /\ [Next]_vars => RefreshInv'
  <1>. SUFFICES ASSUME RefreshInv, [Next]_vars PROVE RefreshInv'
    OBVIOUS
  <1>1. ASSUME NEW w \in Workflows, Working(w) PROVE RefreshInv'
    BY <1>1, ClaimActivityPreserves, DiscoverPreserves, StoreManifestPreserves,
       ReadBatchPreserves, CommitBatchPreserves, FinalizePreserves, CuratePreserves DEF Working
  <1>2. CASE UNCHANGED vars
    BY <1>2 DEF vars, RefreshInv, TypeOK, KnowsRefresh, AtMostOneLease, Lease
  <1>. QED BY <1>1, <1>2, TriggersPreserve, OthersPreserve, FailuresPreserve DEF Next

(* Every reachable state is well typed: in particular no workflow uses more *)
(* attempts than the retry policy allows.                                   *)
THEOREM TypeCorrect == Spec => []TypeOK
  <1>1. RefreshInv => TypeOK
    BY DEF RefreshInv
  <1>. QED BY InitInv, NextInv, <1>1, PTL DEF Spec

(* Two refreshes never hold the lease, and whoever may write to a refresh    *)
(* knows an existing one: any number of triggers, ambiguous starts, lost    *)
(* results and dying callers included.                                      *)
THEOREM OneLease == Spec => [](AtMostOneLease /\ KnowsRefresh)
  <1>1. RefreshInv => AtMostOneLease /\ KnowsRefresh
    BY DEF RefreshInv
  <1>. QED BY InitInv, NextInv, <1>1, PTL DEF Spec
-----------------------------------------------------------------------------
(* Counting offerings: positions in a manifest and the slices of it *)

(* Every listed offering has a position up to the length of the list. *)
LEMMA PositionBounds ==
    ASSUME NEW S \in SUBSET Pairs, NEW p \in S
    PROVE  /\ Position(p, S) \in Nat
           /\ 1 <= Position(p, S) /\ Position(p, S) <= Cardinality(S)
  <1>. DEFINE A == {q \in S : q <= p}
  <1>1. p \in A
    BY DEF Pairs
  <1>2. IsFiniteSet(S) /\ Cardinality(S) \in Nat
    BY PairsFinite
  <1>3. IsFiniteSet(A) /\ Cardinality(A) \in Nat /\ Cardinality(A) <= Cardinality(S)
    <2>1. A \in SUBSET S
      OBVIOUS
    <2>. HIDE DEF A
    <2>. QED BY <1>2, <2>1, FS_Subset, FS_CardinalityType
  <1>4. Cardinality(A) # 0
    <2>. HIDE DEF A
    <2>. QED BY <1>1, <1>3, FS_EmptySet
  <1>5. Position(p, S) = Cardinality(A)
    BY DEF Position
  <1>. HIDE DEF A
  <1>. QED BY <1>2, <1>3, <1>4, <1>5

(* Positions follow the order of the offerings. *)
LEMMA PositionOrder ==
    ASSUME NEW S \in SUBSET Pairs, NEW p \in S, NEW q \in S, p < q
    PROVE  Position(p, S) < Position(q, S)
  <1>. DEFINE A == {o \in S : o <= p}
              B == {o \in S : o <= q}
  <1>0. \A o \in S : o \in Int
    BY DEF Pairs
  <1>1. A \in SUBSET B /\ q \in B /\ q \notin A /\ B \in SUBSET Pairs
    BY <1>0
  <1>2. Position(p, S) = Cardinality(A) /\ Position(q, S) = Cardinality(B)
    BY DEF Position
  <1>. HIDE DEF A, B
  <1>3. IsFiniteSet(B) /\ Cardinality(B) \in Nat
    BY <1>1, PairsFinite
  <1>4. Cardinality(A) <= Cardinality(B) /\ Cardinality(A) # Cardinality(B)
        /\ Cardinality(A) \in Nat
    BY <1>1, <1>3, FS_Subset, FS_CardinalityType
  <1>. QED BY <1>2, <1>3, <1>4

(* Offerings whose positions lie in an interval are no more than it has room *)
(* for.                                                                     *)
LEMMA PositionsFit ==
    ASSUME NEW S \in SUBSET Pairs, NEW T \in SUBSET S, NEW a \in Nat, NEW b \in Nat,
           \A p \in T : a < Position(p, S) /\ Position(p, S) <= a + b
    PROVE  Cardinality(T) <= b
  <1>. DEFINE I == (a + 1)..(a + b)
              f == [p \in T |-> Position(p, S)]
  <1>1. IsFiniteSet(I) /\ Cardinality(I) = b
    BY FS_Interval
  <1>2. f \in [T -> I]
    <2>1. ASSUME NEW p \in T PROVE Position(p, S) \in I
      <3>1. Position(p, S) \in Nat
        BY PositionBounds
      <3>2. a < Position(p, S) /\ Position(p, S) <= a + b
        OBVIOUS
      <3>. QED BY <3>1, <3>2
    <2>. QED BY <2>1
  <1>3. ASSUME NEW p \in T, NEW q \in T, f[p] = f[q] PROVE p = q
    <2>1. p \in Nat /\ q \in Nat /\ p \in S /\ q \in S
      BY DEF Pairs
    <2>2. Position(p, S) = Position(q, S) /\ Position(p, S) \in Nat
      BY <1>3, <2>1, PositionBounds
    <2>3. ~(p < q) /\ ~(q < p)
      BY <2>1, <2>2, PositionOrder
    <2>. QED BY <2>1, <2>3
  <1>. HIDE DEF I, f
  <1>4. f \in Injection(T, I)
    BY <1>2, <1>3 DEF Injection, IsInjective
  <1>. QED BY <1>1, <1>4, FS_Injection

(* A slice has no gaps: it is as many of the next offerings as it has       *)
(* elements, so that a cursor advanced by their number skips none.          *)
LEMMA SliceIsNext ==
    ASSUME NEW S \in SUBSET Pairs, NEW c \in Nat
    PROVE  /\ Slice(S, c) \in SUBSET S /\ Cardinality(Slice(S, c)) \in Nat
           /\ \A p \in S : p \in Slice(S, c) <=>
                 c < Position(p, S) /\ Position(p, S) <= c + Cardinality(Slice(S, c))
  <1>. DEFINE n == Cardinality(Slice(S, c))
  <1>1. Slice(S, c) \in SUBSET S
    BY DEF Slice
  <1>2. IsFiniteSet(Slice(S, c)) /\ n \in Nat
    BY <1>1, PairsFinite
  <1>3. n <= BatchSize
    <2>1. \A p \in Slice(S, c) : c < Position(p, S) /\ Position(p, S) <= c + BatchSize
      BY DEF Slice
    <2>. QED BY <1>1, <2>1, PositionsFit
  <1>4. ASSUME NEW p \in S, c < Position(p, S), Position(p, S) <= c + n
        PROVE  p \in Slice(S, c)
    <2>1. Position(p, S) \in Nat
      BY PositionBounds
    <2>2. Position(p, S) <= c + BatchSize
      <3>. HIDE DEF n
      <3>. QED BY <1>2, <1>3, <1>4, <2>1
    <2>. QED BY <1>4, <2>2 DEF Slice
  <1>5. ASSUME NEW p \in Slice(S, c)
        PROVE  c < Position(p, S) /\ Position(p, S) <= c + n
    <2>1. p \in S /\ c < Position(p, S) /\ Position(p, S) <= c + BatchSize
          /\ Position(p, S) \in Nat
      BY <1>1, <1>5, PositionBounds DEF Slice
    <2>. DEFINE L == {q \in S : q <= p}
                A == {q \in L : Position(q, S) <= c}
                B == {q \in L : c < Position(q, S)}
    <2>2. \A q \in L : Position(q, S) \in Nat /\ 1 <= Position(q, S)
      BY PositionBounds
    <2>3. L = A \cup B
      BY <2>2
    <2>4. Cardinality(A) <= c
      <3>1. A \in SUBSET S
        OBVIOUS
      <3>2. \A q \in A : 0 < Position(q, S) /\ Position(q, S) <= 0 + c
        BY <2>2
      <3>. HIDE DEF A
      <3>. QED BY <3>1, <3>2, PositionsFit
    <2>5. B \in SUBSET Slice(S, c)
      <3>. SUFFICES ASSUME NEW q \in B PROVE q \in Slice(S, c)
        OBVIOUS
      <3>1. q \in S /\ q <= p /\ c < Position(q, S) /\ q \in Nat /\ p \in Nat
        BY <2>1 DEF Pairs
      <3>2. Position(q, S) \in Nat
        BY <3>1, PositionBounds
      <3>3. Position(q, S) <= Position(p, S)
        <4>1. CASE q = p
          BY <2>1, <4>1
        <4>2. CASE q < p
          BY <2>1, <3>1, <3>2, <4>2, PositionOrder
        <4>. QED BY <3>1, <4>1, <4>2
      <3>4. Position(q, S) <= c + BatchSize
        BY <2>1, <3>2, <3>3
      <3>. QED BY <3>1, <3>4 DEF Slice
    <2>6. Position(p, S) = Cardinality(L)
      BY DEF Position
    <2>7. A \in SUBSET Pairs
      OBVIOUS
    <2>. HIDE DEF L, A, B
    <2>8. IsFiniteSet(A) /\ Cardinality(A) \in Nat
      BY <2>7, PairsFinite
    <2>9. IsFiniteSet(B) /\ Cardinality(B) \in Nat /\ Cardinality(B) <= n
      BY <1>2, <2>5, FS_Subset, FS_CardinalityType
    <2>10. Cardinality(A \cap B) \in Nat
      BY <2>8, FS_Intersection, FS_CardinalityType
    <2>11. Cardinality(L) <= Cardinality(A) + Cardinality(B)
      <3>1. Cardinality(L) = Cardinality(A) + Cardinality(B) - Cardinality(A \cap B)
        BY <2>3, <2>8, <2>9, FS_Union
      <3>. QED BY <2>8, <2>9, <2>10, <3>1
    <2>. HIDE DEF n
    <2>. QED BY <1>2, <2>1, <2>4, <2>6, <2>8, <2>9, <2>11
  <1>. QED BY <1>1, <1>2, <1>4, <1>5

-----------------------------------------------------------------------------
(* One worker per refresh, and what it relies on *)

(* A workflow works on a refresh from the claim that made it the owner to   *)
(* its curation; its failure handler only reports.                          *)
Toiling == {"discover", "discovering", "batch", "batching", "finalize", "curating"}
Works(w, r) ==
    /\ wf[w].refresh = r
    /\ \/ wf[w].phase \in Toiling
       \/ w \in Manual /\ caller[w] = "starting"

(* No two workflows work on one refresh.                                    *)
OneWorker == \A r \in RefreshIds : \A v, w \in Workflows : Works(v, r) /\ Works(w, r) => v = w

(* A lease goes with a status that can be worked on, a manifest with the    *)
(* lease, a cursor with a manifest.                                         *)
Leased == {"pending", "running", "failed"}
LeaseSound ==
    \A r \in RefreshIds :
        /\ refreshes[r].lease <=> refreshes[r].status \in Leased
        /\ HasManifest(r) => refreshes[r].lease
        /\ refreshes[r].lease /\ ~HasManifest(r) => refreshes[r].cursor = 0
        /\ refreshes[r].status = "unused" => refreshes[r].cursor = 0

(* A stored manifest lists ranked offerings, and all that are offered but   *)
(* those it says it could not read; what the cursor has passed was seen.    *)
Covers(r, p) ==
    \/ p \in refreshes[r].manifest.pairs
    \/ ProviderOf[p] \in refreshes[r].manifest.providers
    \/ BlueprintOf[p] \in refreshes[r].manifest.blueprints
Passed(r) ==
    {p \in refreshes[r].manifest.pairs :
        Position(p, refreshes[r].manifest.pairs) <= refreshes[r].cursor}
ManifestFit(r) ==
    /\ refreshes[r].total = Cardinality(refreshes[r].manifest.pairs)
    /\ \A p \in refreshes[r].manifest.pairs : Rank(p)
    /\ \A p \in Listed : Covers(r, p)
    /\ \A p \in Passed(r) \cap offered : catalog[p].seen = r
ManifestSound == \A r \in RefreshIds : HasManifest(r) => ManifestFit(r)

(* A worker before the completion works on the refresh with the lease, and  *)
(* a batch it has read is the next one, with all that is still offered.     *)
Early == {"discover", "discovering", "batch", "batching"}
BatchFit(x) ==
    /\ x.start = refreshes[x.refresh].cursor
    /\ x.batch = Slice(refreshes[x.refresh].manifest.pairs, x.start)
    /\ x.batch # {} /\ x.found \subseteq x.batch /\ x.batch \cap offered \subseteq x.found
Fit(x) ==
    /\ x.phase \in Early => x.refresh \in Lease
    /\ x.phase = "discovering" => ~HasManifest(x.refresh)
    /\ x.phase = "batching" => BatchFit(x)
    /\ x.phase \in Acting => refreshes[x.refresh].status # "unused"
CallerFit(m) ==
    /\ caller[m] = "starting" => At(m, "off") /\ wf[m].refresh \in Lease
    /\ caller[m] = "failing" => refreshes[wf[m].refresh].status # "unused"
WorkerSound ==
    /\ \A w \in Workflows : Fit(wf[w])
    /\ \A m \in Manual : CallerFit(m)

SnapshotInv == RefreshInv /\ LeaseSound /\ ManifestSound /\ WorkerSound

-----------------------------------------------------------------------------
(* Steps that leave manifests, cursors and visits alone *)

(* A record's snapshot is kept: it may be claimed, resumed or failed.       *)
CalmRecord(r) ==
    /\ refreshes'[r].manifest = refreshes[r].manifest
    /\ refreshes'[r].cursor = refreshes[r].cursor
    /\ refreshes'[r].total = refreshes[r].total
    /\ refreshes[r].lease => refreshes'[r].lease
    /\ refreshes'[r].lease => refreshes[r].lease \/ refreshes[r].status = "unused"
    /\ refreshes'[r].lease <=> refreshes'[r].status \in Leased
    /\ refreshes'[r].status = "unused" => refreshes[r].status = "unused"
    /\ refreshes[r].status = "completed" => refreshes'[r].status = "completed"
CalmRecords == \A r \in RefreshIds : CalmRecord(r)
CalmCatalog ==
    /\ offered' \subseteq offered
    /\ \A p \in Pairs : catalog'[p].seen = catalog[p].seen
    /\ \/ Active \subseteq Active'
       \/ \E p \in Pairs \ offered : Active' = Active \ {p}

LEMMA UnchangedCalm ==
    ASSUME LeaseSound, UNCHANGED refreshes
    PROVE  CalmRecords
  BY DEF LeaseSound, CalmRecords, CalmRecord

(* A step that changes the status, the lease and the owner of one record.   *)
LEMMA OneRecordCalm ==
    ASSUME RefreshInv, LeaseSound, NEW r \in RefreshIds, NEW z \in Refreshes,
           refreshes' = [refreshes EXCEPT ![r] = z],
           z.manifest = refreshes[r].manifest, z.cursor = refreshes[r].cursor,
           z.total = refreshes[r].total, z.lease = TRUE, z.status \in Leased,
           refreshes[r].lease \/ refreshes[r].status = "unused"
    PROVE  CalmRecords
  <1>1. refreshes'[r] = z /\ \A s \in RefreshIds \ {r} : refreshes'[s] = refreshes[s]
    BY DEF RefreshInv, TypeOK
  <1>2. CalmRecord(r)
    BY <1>1 DEF CalmRecord, LeaseSound, Leased
  <1>3. ASSUME NEW s \in RefreshIds \ {r} PROVE CalmRecord(s)
    BY <1>1 DEF CalmRecord, LeaseSound
  <1>. QED BY <1>2, <1>3 DEF CalmRecords

(* A claim; the owner holds the lease of a record to be worked on.          *)
LEMMA ClaimCalm ==
    ASSUME RefreshInv, LeaseSound, NEW w \in Workflows, NEW r \in RefreshIds,
           NEW owner \in BOOLEAN, Claim(w, r, owner)
    PROVE  /\ CalmRecords
           /\ refreshes'[r].lease /\ refreshes'[r].status # "unused"
           /\ owner => refreshes'[r].workflow = w /\ refreshes'[r].status # "failed"
  <1>. DEFINE fresh == [refreshes[r] EXCEPT !.status = "pending", !.lease = TRUE, !.workflow = w]
              resumed == [refreshes[r] EXCEPT !.status = "pending", !.workflow = w]
  <1>0. refreshes[r] \in Refreshes /\ refreshes \in [RefreshIds -> Refreshes]
    BY DEF RefreshInv, TypeOK
  <1>1. CASE refreshes[r].status = "unused" /\ refreshes' = [refreshes EXCEPT ![r] = fresh]
    <2>1. fresh \in Refreshes /\ fresh.manifest = refreshes[r].manifest
          /\ fresh.cursor = refreshes[r].cursor /\ fresh.total = refreshes[r].total
          /\ fresh.lease = TRUE /\ fresh.status = "pending" /\ fresh.workflow = w
      BY <1>0 DEF Refreshes
    <2>. HIDE DEF fresh
    <2>2. CalmRecords
      BY <1>1, <2>1, OneRecordCalm DEF Leased
    <2>3. refreshes'[r] = fresh
      BY <1>0, <1>1
    <2>. QED BY <2>1, <2>2, <2>3
  <1>2. CASE r \in Lease /\ refreshes' = [refreshes EXCEPT ![r] = resumed]
    <2>0. refreshes[r].lease = TRUE
      BY <1>0, <1>2 DEF Lease, Refreshes
    <2>1. resumed \in Refreshes /\ resumed.manifest = refreshes[r].manifest
          /\ resumed.cursor = refreshes[r].cursor /\ resumed.total = refreshes[r].total
          /\ resumed.lease = TRUE /\ resumed.status = "pending" /\ resumed.workflow = w
      BY <1>0, <2>0 DEF Refreshes
    <2>. HIDE DEF resumed
    <2>2. CalmRecords
      BY <1>2, <2>0, <2>1, OneRecordCalm DEF Leased
    <2>3. refreshes'[r] = resumed
      BY <1>0, <1>2
    <2>. QED BY <2>1, <2>2, <2>3
  <1>3. CASE r \in Lease /\ refreshes[r].status # "failed"
             /\ owner = (refreshes[r].workflow = w) /\ UNCHANGED refreshes
    <2>1. CalmRecords
      BY <1>3, UnchangedCalm
    <2>. QED BY <1>3, <2>1 DEF LeaseSound, Lease, Leased
  <1>. QED BY <1>1, <1>2, <1>3 DEF Claim

(* A failure of a record in use. *)
LEMMA FailCalm ==
    ASSUME RefreshInv, LeaseSound, NEW r \in RefreshIds, refreshes[r].status # "unused", Fail(r)
    PROVE  CalmRecords
  <1>1. CASE UNCHANGED refreshes
    BY <1>1, UnchangedCalm
  <1>2. CASE refreshes[r].status # "completed"
    <2>. DEFINE z == [refreshes[r] EXCEPT !.status = "failed"]
    <2>1. refreshes' = [refreshes EXCEPT ![r] = z]
      BY <1>2 DEF Fail
    <2>2. refreshes[r] \in Refreshes
      BY DEF RefreshInv, TypeOK
    <2>3. refreshes[r].lease = TRUE
      BY <1>2, <2>2 DEF LeaseSound, Leased, Refreshes
    <2>4. z \in Refreshes /\ z.manifest = refreshes[r].manifest
          /\ z.cursor = refreshes[r].cursor /\ z.total = refreshes[r].total
          /\ z.lease = TRUE /\ z.status = "failed"
      BY <2>2, <2>3 DEF Refreshes
    <2>. HIDE DEF z
    <2>. QED BY <2>1, <2>3, <2>4, OneRecordCalm DEF Leased
  <1>. QED BY <1>1, <1>2 DEF Fail

(* A resumed record is running again. *)
LEMMA RunningCalm ==
    ASSUME RefreshInv, LeaseSound, NEW r \in Lease,
           refreshes' = [refreshes EXCEPT ![r] = [refreshes[r] EXCEPT !.status = "running"]]
    PROVE  CalmRecords
  <1>. DEFINE z == [refreshes[r] EXCEPT !.status = "running"]
  <1>1. r \in RefreshIds /\ refreshes[r] \in Refreshes /\ refreshes[r].lease = TRUE
    BY DEF RefreshInv, TypeOK, Lease, Refreshes
  <1>2. z \in Refreshes /\ z.manifest = refreshes[r].manifest
        /\ z.cursor = refreshes[r].cursor /\ z.total = refreshes[r].total
        /\ z.lease = TRUE /\ z.status = "running"
    BY <1>1 DEF Refreshes
  <1>. HIDE DEF z
  <1>. QED BY <1>1, <1>2, OneRecordCalm DEF Leased, z

(* The records stay sound. *)
LEMMA CalmRecordsSound ==
    ASSUME RefreshInv, LeaseSound, ManifestSound, CalmRecords, CalmCatalog
    PROVE  LeaseSound' /\ ManifestSound'
  <1>1. LeaseSound'
    <2>. SUFFICES ASSUME NEW r \in RefreshIds
                  PROVE  (/\ refreshes[r].lease <=> refreshes[r].status \in Leased
                          /\ HasManifest(r) => refreshes[r].lease
                          /\ refreshes[r].lease /\ ~HasManifest(r) => refreshes[r].cursor = 0
                          /\ refreshes[r].status = "unused" => refreshes[r].cursor = 0)'
      BY DEF LeaseSound
    <2>1. CalmRecord(r)
      BY DEF CalmRecords
    <2>. QED BY <2>1 DEF CalmRecord, LeaseSound, HasManifest
  <1>2. ASSUME NEW r \in RefreshIds, HasManifest(r)' PROVE ManifestFit(r)'
    <2>1. CalmRecord(r)
      BY DEF CalmRecords
    <2>2. HasManifest(r) /\ ManifestFit(r) /\ refreshes[r].manifest.pairs \in SUBSET Pairs
      BY <1>2, <2>1 DEF CalmRecord, HasManifest, ManifestSound, RefreshInv, TypeOK,
         Refreshes, Manifests
    <2>3. Listed' \subseteq Listed
      BY DEF Listed, CalmCatalog, Rank
    <2>4. \A p \in Listed' : Covers(r, p)'
      BY <2>1, <2>2, <2>3 DEF CalmRecord, ManifestFit, Covers
    <2>5. Passed(r)' = Passed(r)
      BY <2>1 DEF CalmRecord, Passed
    <2>6. \A p \in Passed(r) : p \in Pairs
      BY <2>2 DEF Passed
    <2>7. \A p \in (Passed(r) \cap offered)' : catalog'[p].seen = r
      BY <2>2, <2>5, <2>6 DEF ManifestFit, CalmCatalog
    <2>8. refreshes'[r].total = Cardinality(refreshes'[r].manifest.pairs)
          /\ \A p \in refreshes'[r].manifest.pairs : Rank(p)
      BY <2>1, <2>2 DEF CalmRecord, ManifestFit
    <2>. QED BY <2>4, <2>7, <2>8 DEF ManifestFit, Rank
  <1>. QED BY <1>1, <1>2 DEF ManifestSound

-----------------------------------------------------------------------------
(* What a step leaves to the workflows that do not take it *)

KeepsSnapshot(r) ==
    /\ refreshes'[r].manifest = refreshes[r].manifest
    /\ refreshes'[r].cursor = refreshes[r].cursor
    /\ refreshes[r].lease => refreshes'[r].lease
KeepsUse(r) == refreshes'[r].status = "unused" => refreshes[r].status = "unused"

(* The step of a workflow does not touch what the others work on, and takes *)
(* no lease from itself before it has completed.                            *)
Undisturbed(w) ==
    /\ offered' \subseteq offered
    /\ \A r \in RefreshIds : KeepsUse(r)
    /\ \A v \in Workflows \ {w}, r \in RefreshIds : Works(v, r) => KeepsSnapshot(r)
    /\ wf[w].phase \in Early => refreshes'[wf[w].refresh].lease

LEMMA CalmUndisturbed ==
    ASSUME RefreshInv, WorkerSound, CalmRecords, CalmCatalog, NEW w \in Workflows
    PROVE  Undisturbed(w)
  <1>1. \A r \in RefreshIds : KeepsUse(r) /\ KeepsSnapshot(r)
    BY DEF CalmRecords, CalmRecord, KeepsUse, KeepsSnapshot
  <1>2. wf[w].phase \in Early => refreshes'[wf[w].refresh].lease
    <2>1. wf[w].phase \in Early => wf[w].refresh \in Lease
      BY DEF WorkerSound, Fit
    <2>. QED BY <1>1, <2>1 DEF KeepsSnapshot, Lease
  <1>. QED BY <1>1, <1>2 DEF Undisturbed, CalmCatalog

(* A workflow that is alone with its refresh may write to it.               *)
LEMMA SoleUndisturbed ==
    ASSUME RefreshInv, OneWorker, NEW w \in Workflows, NEW r \in RefreshIds, Works(w, r),
           \A s \in RefreshIds \ {r} : refreshes'[s] = refreshes[s],
           refreshes'[r].status # "unused", UNCHANGED offered,
           wf[w].phase \in Early => refreshes'[r].lease
    PROVE  Undisturbed(w)
  <1>1. \A s \in RefreshIds : KeepsUse(s)
    BY DEF KeepsUse
  <1>2. ASSUME NEW v \in Workflows \ {w}, NEW s \in RefreshIds, Works(v, s)
        PROVE  KeepsSnapshot(s)
    <2>1. s # r
      BY <1>2 DEF OneWorker
    <2>. QED BY <2>1 DEF KeepsSnapshot
  <1>. QED BY <1>1, <1>2 DEF Undisturbed, Works

LEMMA FitKept ==
    ASSUME RefreshInv, WorkerSound, offered' \subseteq offered,
           \A r \in RefreshIds : KeepsUse(r),
           NEW v \in Workflows, wf'[v] = wf[v],
           wf[v].phase \in Early => KeepsSnapshot(wf[v].refresh)
    PROVE  Fit(wf[v])'
  <1>. DEFINE r == wf[v].refresh
  <1>1. Fit(wf[v]) /\ (wf[v].phase \in Acting => r \in RefreshIds)
    BY DEF WorkerSound, RefreshInv, KnowsRefresh
  <1>2. wf[v].phase \in Acting => refreshes'[r].status # "unused"
    BY <1>1 DEF Fit, KeepsUse
  <1>3. wf[v].phase \in Early => r \in RefreshIds /\ refreshes'[r].lease
    BY <1>1 DEF Fit, KeepsSnapshot, Lease, Early, Acting
  <1>4. wf[v].phase = "discovering" => refreshes'[r].manifest.pairs = {}
    BY <1>1 DEF Fit, KeepsSnapshot, HasManifest, Early
  <1>5. ASSUME wf[v].phase = "batching" PROVE BatchFit(wf[v])'
    <2>1. BatchFit(wf[v]) /\ KeepsSnapshot(r)
      BY <1>1, <1>5 DEF Fit, Early
    <2>. QED BY <2>1 DEF BatchFit, KeepsSnapshot
  <1>. QED BY <1>2, <1>3, <1>4, <1>5 DEF Fit, Lease, HasManifest

LEMMA FitStays ==
    ASSUME RefreshInv, WorkerSound, NEW w \in Workflows, Undisturbed(w),
           NEW v \in Workflows \ {w}, wf'[v] = wf[v]
    PROVE  Fit(wf[v])'
  <1>1. wf[v].phase \in Early => wf[v].refresh \in RefreshIds /\ Works(v, wf[v].refresh)
    BY DEF RefreshInv, KnowsRefresh, Early, Acting, Works, Toiling
  <1>2. wf[v].phase \in Early => KeepsSnapshot(wf[v].refresh)
    BY <1>1 DEF Undisturbed
  <1>. QED BY <1>2, FitKept DEF Undisturbed

(* A caller's workflow that has not started is not disturbed either. *)
LEMMA CallerStays ==
    ASSUME RefreshInv, WorkerSound, NEW w \in Workflows, Undisturbed(w),
           NEW m \in Manual, m # w, wf'[m] = wf[m], caller'[m] = caller[m]
    PROVE  CallerFit(m)'
  <1>. DEFINE r == wf[m].refresh
  <1>1. CallerFit(m) /\ m \in Workflows
    BY DEF WorkerSound, Workflows
  <1>2. caller[m] \in {"starting", "failing"} => r \in RefreshIds
    BY DEF RefreshInv, KnowsRefresh
  <1>3. caller[m] = "starting" => r \in RefreshIds /\ Works(m, r)
    BY <1>2 DEF Works
  <1>4. caller[m] = "starting" => wf'[m].phase = "off" /\ refreshes'[r].lease /\ r \in RefreshIds
    BY <1>1, <1>3 DEF CallerFit, Undisturbed, KeepsSnapshot, Lease, At
  <1>5. caller[m] = "failing" => refreshes'[r].status # "unused"
    BY <1>1, <1>2 DEF CallerFit, Undisturbed, KeepsUse
  <1>. QED BY <1>4, <1>5 DEF CallerFit, At, Lease

(* A workflow moves on.                                                     *)
LEMMA WorkerMoves ==
    ASSUME RefreshInv, WorkerSound, NEW w \in Workflows, Undisturbed(w),
           NEW y, wf' = [wf EXCEPT ![w] = y], Fit(y)', UNCHANGED caller,
           w \in Scheduled \/ wf[w].phase # "off",
           y.refresh = wf[w].refresh \/ refreshes'[y.refresh].status # "unused"
    PROVE  WorkerSound'
  <1>1. wf'[w] = y /\ \A v \in Workflows \ {w} : wf'[v] = wf[v]
    BY DEF RefreshInv, TypeOK
  <1>2. Fit(wf[w])'
    BY <1>1 DEF Fit, BatchFit
  <1>3. \A v \in Workflows \ {w} : Fit(wf[v])'
    BY <1>1, FitStays
  <1>4. \A m \in Manual \ {w} : CallerFit(m)'
    BY <1>1, CallerStays DEF Workflows
  <1>5. ASSUME w \in Manual PROVE CallerFit(w)'
    <2>1. CallerFit(w)
      BY <1>5 DEF WorkerSound
    <2>2. caller[w] # "starting"
      BY <1>5, <2>1 DEF CallerFit, At
    <2>3. caller[w] = "failing" => refreshes'[y.refresh].status # "unused"
      <3>1. caller[w] = "failing" => wf[w].refresh \in RefreshIds
        BY <1>5 DEF RefreshInv, KnowsRefresh
      <3>. QED BY <2>1, <3>1 DEF CallerFit, Undisturbed, KeepsUse
    <2>. QED BY <1>1, <2>2, <2>3 DEF CallerFit
  <1>. QED BY <1>2, <1>3, <1>4, <1>5 DEF WorkerSound

(* Between two activities, at the claim and in the failure handler there is *)
(* nothing to know but the refresh.                                         *)
LEMMA PlainFit ==
    ASSUME NEW y, y.phase \notin {"discovering", "batching"},
           y.phase \in Early => y.refresh \in RefreshIds /\ refreshes'[y.refresh].lease,
           y.phase \in Acting => refreshes'[y.refresh].status # "unused"
    PROVE  Fit(y)'
  BY DEF Fit, Lease

(* Where a lost attempt leads to. *)
LEMMA RetryPhase ==
    ASSUME NEW x, Sound(x), x.phase \in Acting \cup {"claim"}
    PROVE  /\ Retry(x).phase \in {Restart(x.phase), GiveUp(x).phase}
           /\ GiveUp(x).phase = (IF x.phase = "claim" THEN "ended" ELSE "fail")
           /\ Retry(x).refresh = x.refresh /\ GiveUp(x).refresh = x.refresh
  <1>1. Retry(x).refresh = x.refresh /\ GiveUp(x).refresh = x.refresh
    BY RetrySound, GiveUpSound
  <1>2. GiveUp(x).phase = (IF x.phase = "claim" THEN "ended" ELSE "fail")
    BY DEF GiveUp, EndWith, Enter, Sound, WorkflowStates
  <1>3. CASE x.tries + 1 < MaxTries
    <2>1. Retry(x).phase = Restart(x.phase)
      BY <1>3 DEF Retry, Enter, Sound, WorkflowStates
    <2>. QED BY <1>1, <1>2, <2>1
  <1>4. CASE ~(x.tries + 1 < MaxTries)
    <2>1. Retry(x) = GiveUp(x)
      BY <1>4 DEF Retry
    <2>. QED BY <1>1, <1>2, <2>1
  <1>. QED BY <1>3, <1>4

LEMMA LostFit ==
    ASSUME RefreshInv, WorkerSound, NEW w \in Workflows, Undisturbed(w),
           wf[w].phase \in Acting \cup {"claim"},
           NEW y, y = Retry(wf[w]) \/ y = GiveUp(wf[w])
    PROVE  Fit(y)' /\ y.refresh = wf[w].refresh
  <1>1. Sound(wf[w])
    BY WorkflowSound
  <1>2. y.refresh = wf[w].refresh /\ y.phase \in {Restart(wf[w].phase), "ended", "fail"}
    BY <1>1, RetryPhase
  <1>3. y.phase \notin {"discovering", "batching"}
    BY <1>2 DEF Restart, Acting
  <1>4. y.phase \in Early => wf[w].phase \in Early
    BY <1>2 DEF Restart, Acting, Early
  <1>5. y.phase \in Acting => wf[w].phase \in Acting
    BY <1>1, <1>2, RetryPhase DEF Restart, Acting
  <1>6. wf[w].phase \in Acting => wf[w].refresh \in RefreshIds
                                  /\ refreshes'[wf[w].refresh].status # "unused"
    BY ActingRefresh DEF WorkerSound, Fit, Undisturbed, KeepsUse
  <1>7. wf[w].phase \in Early => wf[w].refresh \in RefreshIds
                                 /\ refreshes'[wf[w].refresh].lease
    BY <1>6 DEF Undisturbed, Early, Acting
  <1>8. Fit(y)'
    BY <1>2, <1>3, <1>4, <1>5, <1>6, <1>7, PlainFit
  <1>. QED BY <1>2, <1>8

(* A reported result, or a lost one. *)
LEMMA ReportFits ==
    ASSUME RefreshInv, WorkerSound, NEW w \in Workflows, Undisturbed(w),
           wf[w].phase \in Acting \cup {"claim"}, UNCHANGED caller,
           NEW next, Report(w, next), Fit(next)',
           next.refresh = wf[w].refresh \/ refreshes'[next.refresh].status # "unused"
    PROVE  WorkerSound'
  <1>0. wf[w].phase # "off"
    BY DEF Acting
  <1>1. CASE wf' = [wf EXCEPT ![w] = next]
    BY <1>0, <1>1, WorkerMoves
  <1>2. CASE wf' = [wf EXCEPT ![w] = Retry(wf[w])]
    <2>1. PICK y : y = Retry(wf[w])
      OBVIOUS
    <2>2. Fit(y)' /\ y.refresh = wf[w].refresh
      BY <2>1, LostFit
    <2>3. wf' = [wf EXCEPT ![w] = y]
      BY <1>2, <2>1
    <2>. QED BY <1>0, <2>2, <2>3, WorkerMoves
  <1>. QED BY <1>1, <1>2 DEF Report

-----------------------------------------------------------------------------
(* Calm actions: triggers, failures, and everyone else *)

(* A caller's step, with its workflow.                                      *)
LEMMA CallerMoves ==
    ASSUME RefreshInv, WorkerSound, NEW w \in Manual, Undisturbed(w), NEW c,
           NEW y, wf' = [wf EXCEPT ![w] = y], Fit(y)',
           caller' = [caller EXCEPT ![w] = c],
           c = "starting" => y.phase = "off" /\ y.refresh \in RefreshIds
                             /\ refreshes'[y.refresh].lease,
           c = "failing" => refreshes'[y.refresh].status # "unused"
    PROVE  WorkerSound'
  <1>0. w \in Workflows
    BY DEF Workflows
  <1>1. wf'[w] = y /\ \A v \in Workflows \ {w} : wf'[v] = wf[v]
    BY <1>0 DEF RefreshInv, TypeOK
  <1>2. caller'[w] = c /\ \A m \in Manual \ {w} : caller'[m] = caller[m]
    BY DEF RefreshInv, TypeOK
  <1>3. Fit(wf[w])'
    BY <1>1 DEF Fit, BatchFit
  <1>4. \A v \in Workflows \ {w} : Fit(wf[v])'
    BY <1>0, <1>1, FitStays
  <1>5. \A m \in Manual \ {w} : CallerFit(m)'
    BY <1>0, <1>1, <1>2, CallerStays DEF Workflows
  <1>6. CallerFit(w)'
    BY <1>1, <1>2 DEF CallerFit, At, Lease
  <1>. QED BY <1>3, <1>4, <1>5, <1>6 DEF WorkerSound

(* Nobody moves. *)
LEMMA NobodyMoves ==
    ASSUME RefreshInv, WorkerSound, CalmRecords, CalmCatalog, UNCHANGED <<wf, caller>>
    PROVE  WorkerSound'
  <1>1. \A r \in RefreshIds : KeepsUse(r) /\ KeepsSnapshot(r)
    BY DEF CalmRecords, CalmRecord, KeepsUse, KeepsSnapshot
  <1>2. \A v \in Workflows : wf[v].phase \in Early => wf[v].refresh \in RefreshIds
    BY DEF RefreshInv, KnowsRefresh, Early, Acting
  <1>3. \A v \in Workflows : Fit(wf[v])'
    BY <1>1, <1>2, FitKept DEF CalmCatalog
  <1>4. ASSUME NEW m \in Manual PROVE CallerFit(m)'
    <2>1. CallerFit(m) /\ (caller[m] \in {"starting", "failing"} => wf[m].refresh \in RefreshIds)
      BY DEF WorkerSound, RefreshInv, KnowsRefresh
    <2>. QED BY <1>1, <2>1 DEF CallerFit, KeepsUse, KeepsSnapshot, At, Lease
  <1>. QED BY <1>3, <1>4 DEF WorkerSound

(* A caller leaves, its workflow runs or not. *)
LEMMA CallerLeaves ==
    ASSUME RefreshInv, WorkerSound, CalmRecords, CalmCatalog, NEW w \in Manual,
           UNCHANGED wf, caller' = [caller EXCEPT ![w] = "gone"]
    PROVE  WorkerSound'
  <1>1. \A r \in RefreshIds : KeepsUse(r) /\ KeepsSnapshot(r)
    BY DEF CalmRecords, CalmRecord, KeepsUse, KeepsSnapshot
  <1>2. \A v \in Workflows : wf[v].phase \in Early => wf[v].refresh \in RefreshIds
    BY DEF RefreshInv, KnowsRefresh, Early, Acting
  <1>3. \A v \in Workflows : Fit(wf[v])'
    BY <1>1, <1>2, FitKept DEF CalmCatalog
  <1>4. caller'[w] = "gone" /\ \A m \in Manual \ {w} : caller'[m] = caller[m]
    BY DEF RefreshInv, TypeOK
  <1>5. w \in Workflows /\ Undisturbed(w)
    BY CalmUndisturbed DEF Workflows
  <1>6. \A m \in Manual \ {w} : CallerFit(m)'
    BY <1>4, <1>5, CallerStays DEF Workflows
  <1>7. CallerFit(w)'
    BY <1>4 DEF CallerFit
  <1>. QED BY <1>3, <1>6, <1>7 DEF WorkerSound

(* Whether a step is calm, and leaves its workers sound.                    *)
Calm == CalmRecords /\ CalmCatalog /\ WorkerSound'

LEMMA SameCatalogCalm ==
    ASSUME UNCHANGED <<offered, catalog>>
    PROVE  CalmCatalog
  BY DEF CalmCatalog, Active

LEMMA FireCalm ==
    ASSUME SnapshotInv, NEW w \in Scheduled, Fire(w)
    PROVE  Calm
  <1>1. CalmRecords /\ CalmCatalog
    BY UnchangedCalm, SameCatalogCalm DEF Fire, SnapshotInv
  <1>2. w \in Workflows
    BY DEF Workflows
  <1>3. Undisturbed(w)
    BY <1>1, <1>2, CalmUndisturbed DEF SnapshotInv
  <1>4. PICK y : y = Enter(wf[w], "claim")
    OBVIOUS
  <1>5. wf' = [wf EXCEPT ![w] = y] /\ UNCHANGED caller
    BY <1>4 DEF Fire
  <1>6. y.phase = "claim" /\ y.refresh = wf[w].refresh
    BY <1>2, <1>4, WorkflowSound DEF Enter, WorkflowStates, SnapshotInv
  <1>7. Fit(y)'
    BY <1>6, PlainFit DEF Early, Acting
  <1>8. WorkerSound'
    BY <1>2, <1>3, <1>5, <1>6, <1>7, WorkerMoves DEF SnapshotInv
  <1>. QED BY <1>1, <1>8 DEF Calm

LEMMA ClaimActivityCalm ==
    ASSUME SnapshotInv, NEW w \in Workflows, ClaimActivity(w)
    PROVE  Calm
  <1>1. PICK r \in RefreshIds, owner \in BOOLEAN :
           /\ Claim(w, r, owner)
           /\ Report(w, IF owner THEN [Enter(wf[w], "discover") EXCEPT !.refresh = r]
                                 ELSE EndWith(wf[w], "done"))
    BY DEF ClaimActivity
  <1>2. CalmRecords /\ CalmCatalog
    BY <1>1, ClaimCalm, SameCatalogCalm DEF ClaimActivity, SnapshotInv
  <1>3. refreshes'[r].lease /\ refreshes'[r].status # "unused"
    BY <1>1, ClaimCalm DEF SnapshotInv
  <1>4. Undisturbed(w)
    BY <1>2, CalmUndisturbed DEF SnapshotInv
  <1>5. wf[w].phase = "claim" /\ wf[w] \in WorkflowStates /\ UNCHANGED caller
    BY WorkflowSound DEF ClaimActivity, At, SnapshotInv
  <1>6. CASE owner
    <2>1. PICK y : y = [Enter(wf[w], "discover") EXCEPT !.refresh = r]
      OBVIOUS
    <2>2. y.phase = "discover" /\ y.refresh = r
      BY <1>5, <2>1 DEF Enter, WorkflowStates
    <2>3. Fit(y)'
      BY <1>3, <2>2, PlainFit
    <2>4. Report(w, y)
      BY <1>1, <1>6, <2>1
    <2>5. WorkerSound'
      BY <1>3, <1>4, <1>5, <2>2, <2>3, <2>4, ReportFits DEF SnapshotInv
    <2>. QED BY <1>2, <2>5 DEF Calm
  <1>7. CASE ~owner
    <2>1. PICK y : y = EndWith(wf[w], "done")
      OBVIOUS
    <2>2. y.phase = "ended" /\ y.refresh = wf[w].refresh
      BY <1>5, <2>1 DEF EndWith, Enter, WorkflowStates
    <2>3. Fit(y)'
      BY <2>2, PlainFit DEF Early, Acting
    <2>4. Report(w, y)
      BY <1>1, <1>7, <2>1
    <2>5. WorkerSound'
      BY <1>4, <1>5, <2>2, <2>3, <2>4, ReportFits DEF SnapshotInv
    <2>. QED BY <1>2, <2>5 DEF Calm
  <1>. QED BY <1>6, <1>7

LEMMA RequestRefreshCalm ==
    ASSUME SnapshotInv, NEW w \in Manual, RequestRefresh(w)
    PROVE  Calm
  <1>0. w \in Workflows
    BY DEF Workflows
  <1>1. PICK r \in RefreshIds, owner \in BOOLEAN :
           /\ Claim(w, r, owner)
           /\ caller' = [caller EXCEPT ![w] = IF owner THEN "starting" ELSE "gone"]
           /\ wf' = [wf EXCEPT ![w] = [@ EXCEPT !.refresh = IF owner THEN r ELSE None]]
    BY DEF RequestRefresh
  <1>2. CalmRecords /\ CalmCatalog
    BY <1>0, <1>1, ClaimCalm, SameCatalogCalm DEF RequestRefresh, SnapshotInv
  <1>3. refreshes'[r].lease
    BY <1>0, <1>1, ClaimCalm DEF SnapshotInv
  <1>4. Undisturbed(w)
    BY <1>0, <1>2, CalmUndisturbed DEF SnapshotInv
  <1>5. wf[w].phase = "off" /\ wf[w] \in WorkflowStates
    BY <1>0, WorkflowSound DEF RequestRefresh, RefreshInv, KnowsRefresh, SnapshotInv
  <1>6. PICK y : y = [wf[w] EXCEPT !.refresh = IF owner THEN r ELSE None]
    OBVIOUS
  <1>7. y.phase = "off" /\ (owner => y.refresh = r)
    BY <1>5, <1>6 DEF WorkflowStates
  <1>8. Fit(y)'
    BY <1>7, PlainFit DEF Early, Acting
  <1>9. wf' = [wf EXCEPT ![w] = y]
    BY <1>1, <1>6
  <1>10. PICK c : c = IF owner THEN "starting" ELSE "gone"
    OBVIOUS
  <1>11. caller' = [caller EXCEPT ![w] = c]
    BY <1>1, <1>10
  <1>12. WorkerSound'
    BY <1>3, <1>4, <1>7, <1>8, <1>9, <1>10, <1>11, CallerMoves DEF SnapshotInv
  <1>. QED BY <1>2, <1>12 DEF Calm

(* A caller that starts its workflow, fails to, or dies. *)
LEMMA StartCalm ==
    ASSUME SnapshotInv, NEW w \in Manual, StartWorkflow(w) \/ StartFails(w) \/ CallerDies(w)
    PROVE  Calm
  <1>0. w \in Workflows
    BY DEF Workflows
  <1>1. CalmRecords /\ CalmCatalog
    BY UnchangedCalm, SameCatalogCalm DEF StartWorkflow, StartFails, CallerDies, SnapshotInv
  <1>2. Undisturbed(w) /\ UNCHANGED refreshes
    BY <1>0, <1>1, CalmUndisturbed DEF SnapshotInv, StartWorkflow, StartFails, CallerDies
  <1>3. CASE StartWorkflow(w) \/ StartFails(w)
    <2>1. caller[w] = "starting"
      BY <1>3 DEF StartWorkflow, StartFails
    <2>2. wf[w].phase = "off" /\ wf[w].refresh \in RefreshIds /\ refreshes[wf[w].refresh].lease
          /\ refreshes[wf[w].refresh].status # "unused" /\ wf[w] \in WorkflowStates
      BY <1>0, <2>1, WorkflowSound
      DEF SnapshotInv, WorkerSound, CallerFit, At, Lease, LeaseSound, Leased
    <2>3. PICK y : /\ y = wf[w] \/ y = Enter(wf[w], "discover")
                   /\ wf' = [wf EXCEPT ![w] = y]
      <3>1. wf \in [Workflows -> WorkflowStates]
        BY DEF SnapshotInv, RefreshInv, TypeOK
      <3>2. wf = [wf EXCEPT ![w] = wf[w]]
        BY <3>1
      <3>. QED BY <1>3, <3>2 DEF StartWorkflow, StartFails
    <2>4. y.phase \in {"off", "discover"} /\ y.refresh = wf[w].refresh
      BY <2>2, <2>3 DEF Enter, WorkflowStates
    <2>5. Fit(y)'
      BY <1>2, <2>2, <2>4, PlainFit DEF Early, Acting
    <2>6. PICK c : c \in {"failing", "gone"} /\ caller' = [caller EXCEPT ![w] = c]
      BY <1>3 DEF StartWorkflow, StartFails
    <2>7. WorkerSound'
      BY <1>2, <2>2, <2>3, <2>4, <2>5, <2>6, CallerMoves DEF SnapshotInv
    <2>. QED BY <1>1, <2>7 DEF Calm
  <1>4. CASE CallerDies(w)
    <2>1. UNCHANGED wf /\ caller' = [caller EXCEPT ![w] = "gone"]
      BY <1>4 DEF CallerDies
    <2>2. WorkerSound'
      BY <1>1, <2>1, CallerLeaves DEF SnapshotInv
    <2>. QED BY <1>1, <2>2 DEF Calm
  <1>. QED BY <1>3, <1>4

LEMMA FailStartCalm ==
    ASSUME SnapshotInv, NEW w \in Manual, FailStart(w)
    PROVE  Calm
  <1>0. w \in Workflows /\ caller[w] = "failing"
    BY DEF Workflows, FailStart
  <1>1. wf[w].refresh \in RefreshIds /\ refreshes[wf[w].refresh].status # "unused"
    BY <1>0 DEF SnapshotInv, RefreshInv, KnowsRefresh, WorkerSound, CallerFit
  <1>2. CalmRecords /\ CalmCatalog
    BY <1>1, FailCalm, SameCatalogCalm DEF FailStart, SnapshotInv
  <1>3. UNCHANGED wf /\ caller' = [caller EXCEPT ![w] = "gone"]
    BY DEF FailStart
  <1>4. WorkerSound'
    BY <1>2, <1>3, CallerLeaves DEF SnapshotInv
  <1>. QED BY <1>2, <1>4 DEF Calm

LEMMA FailRefreshCalm ==
    ASSUME SnapshotInv, NEW w \in Workflows, FailRefresh(w) \/ FailRefreshResultLost(w)
    PROVE  Calm
  <1>1. wf[w].phase = "fail" /\ Fail(wf[w].refresh)
    BY DEF FailRefresh, FailRefreshResultLost, At
  <1>2. wf[w].refresh \in RefreshIds /\ refreshes[wf[w].refresh].status # "unused"
    BY <1>1 DEF SnapshotInv, RefreshInv, KnowsRefresh, WorkerSound, Fit, Acting
  <1>3. CalmRecords /\ CalmCatalog
    BY <1>1, <1>2, FailCalm, SameCatalogCalm DEF FailRefresh, FailRefreshResultLost, SnapshotInv
  <1>4. CASE FailRefresh(w)
    <2>1. PICK y : y = EndWith(wf[w], "failed")
      OBVIOUS
    <2>2. y.phase = "ended" /\ y.refresh = wf[w].refresh
      BY <2>1, WorkflowSound DEF EndWith, Enter, WorkflowStates, SnapshotInv
    <2>3. Fit(y)'
      BY <2>2, PlainFit DEF Early, Acting
    <2>4. wf' = [wf EXCEPT ![w] = y] /\ UNCHANGED caller
      BY <1>4, <2>1 DEF FailRefresh
    <2>5. Undisturbed(w)
      BY <1>3, CalmUndisturbed DEF SnapshotInv
    <2>6. WorkerSound'
      BY <1>1, <2>2, <2>3, <2>4, <2>5, WorkerMoves DEF SnapshotInv
    <2>. QED BY <1>3, <2>6 DEF Calm
  <1>5. CASE FailRefreshResultLost(w)
    <2>1. UNCHANGED <<wf, caller>>
      BY <1>5 DEF FailRefreshResultLost
    <2>. QED BY <1>3, <2>1, NobodyMoves DEF Calm, SnapshotInv
  <1>. QED BY <1>4, <1>5

LEMMA AttemptDiesCalm ==
    ASSUME SnapshotInv, NEW w \in Workflows, AttemptDies(w)
    PROVE  Calm
  <1>1. CalmRecords /\ CalmCatalog
    BY UnchangedCalm, SameCatalogCalm DEF AttemptDies, SnapshotInv
  <1>2. wf[w].phase \in Acting \cup {"claim"} /\ wf[w].phase # "off"
    BY DEF AttemptDies, Acting
  <1>3. PICK y : (y = Retry(wf[w]) \/ y = GiveUp(wf[w])) /\ wf' = [wf EXCEPT ![w] = y]
    BY DEF AttemptDies
  <1>4. Undisturbed(w) /\ UNCHANGED caller
    BY <1>1, CalmUndisturbed DEF SnapshotInv, AttemptDies
  <1>5. Fit(y)' /\ y.refresh = wf[w].refresh
    BY <1>2, <1>3, <1>4, LostFit DEF SnapshotInv
  <1>6. WorkerSound'
    BY <1>2, <1>3, <1>4, <1>5, WorkerMoves DEF SnapshotInv
  <1>. QED BY <1>1, <1>6 DEF Calm

(* Products are refreshed, recovered, withdrawn and curated by others.      *)
LEMMA OthersCalm ==
    ASSUME SnapshotInv,
           \/ \E p \in Singles : RefreshProduct(p)
           \/ \E p \in Endangered : Withdraw(p)
           \/ RecoverProviders \/ CurateCommand
    PROVE  Calm
  <1>1. UNCHANGED <<refreshes, wf, caller>>
    BY DEF RefreshProduct, Withdraw, RecoverProviders, CurateCommand
  <1>2. CalmRecords
    BY <1>1, UnchangedCalm DEF SnapshotInv
  <1>3. catalog \in [Pairs -> Products]
    BY DEF SnapshotInv, RefreshInv, TypeOK
  <1>4. \A p \in Pairs : Upsert(catalog[p], None).seen = catalog[p].seen
                        /\ MarkUnavailable(catalog[p]).seen = catalog[p].seen
    BY <1>3 DEF Upsert, MarkUnavailable, Products
  <1>5. offered' \subseteq offered
    BY DEF RefreshProduct, Withdraw, RecoverProviders, CurateCommand
  <1>6. ASSUME NEW p \in Singles, RefreshProduct(p)
        PROVE  CalmCatalog
    <2>0. p \in Pairs
      OBVIOUS
    <2>1. PICK z : /\ \/ z = Upsert(catalog[p], None)
                      \/ z = MarkUnavailable(catalog[p]) /\ p \notin offered
                   /\ catalog' = [catalog EXCEPT ![p] = z]
      BY <1>6 DEF RefreshProduct
    <2>2. catalog'[p] = z /\ \A q \in Pairs \ {p} : catalog'[q] = catalog[q]
      BY <1>3, <2>0, <2>1
    <2>3. \A q \in Pairs : catalog'[q].seen = catalog[q].seen
      BY <1>4, <2>0, <2>1, <2>2
    <2>4. CASE z = Upsert(catalog[p], None)
      <3>1. z.state = "active"
        BY <1>3, <2>0, <2>4 DEF Upsert, Products
      <3>2. Active \subseteq Active'
        BY <2>2, <3>1 DEF Active
      <3>. QED BY <1>5, <2>3, <3>2 DEF CalmCatalog
    <2>5. CASE z = MarkUnavailable(catalog[p]) /\ p \notin offered
      <3>1. z.state # "active"
        BY <1>3, <2>0, <2>5 DEF MarkUnavailable, Products
      <3>2. Active' = Active \ {p}
        BY <2>2, <3>1 DEF Active
      <3>. QED BY <1>5, <2>0, <2>3, <2>5, <3>2 DEF CalmCatalog
    <2>. QED BY <2>1, <2>4, <2>5
  <1>7. ASSUME RecoverProviders
        PROVE  CalmCatalog
    <2>1. PICK readable : catalog' = [p \in Pairs |->
               IF p \in Listed \ Active /\ ProviderOf[p] \in readable
                 THEN Upsert(catalog[p], None) ELSE catalog[p]]
      BY <1>7 DEF RecoverProviders
    <2>2. \A q \in Pairs : catalog'[q].seen = catalog[q].seen
      BY <1>4, <2>1
    <2>3. Active \subseteq Active'
      BY <2>1 DEF Active
    <2>. QED BY <1>5, <2>2, <2>3 DEF CalmCatalog
  <1>8. ASSUME UNCHANGED catalog PROVE CalmCatalog
    BY <1>5, <1>8 DEF CalmCatalog, Active
  <1>9. CalmCatalog
    BY <1>6, <1>7, <1>8 DEF Withdraw, CurateCommand
  <1>. QED BY <1>1, <1>2, <1>9, NobodyMoves DEF Calm, SnapshotInv

-----------------------------------------------------------------------------
(* The steps of a worker *)

LEMMA LoopPhase ==
    ASSUME NEW x \in WorkflowStates, NEW refresh
    PROVE  Loop(x, refresh).phase \in {"batch", "finalize"} /\ Loop(x, refresh).refresh = x.refresh
  BY DEF Loop, Enter, WorkflowStates

(* An early worker's record. *)
LEMMA EarlyWorker ==
    ASSUME SnapshotInv, NEW w \in Workflows, wf[w].phase \in Early
    PROVE  /\ wf[w].refresh \in RefreshIds /\ refreshes[wf[w].refresh] \in Refreshes
           /\ refreshes[wf[w].refresh].lease = TRUE
           /\ refreshes[wf[w].refresh].status \in Leased
           /\ Works(w, wf[w].refresh)
  <1>1. wf[w].refresh \in RefreshIds /\ refreshes[wf[w].refresh] \in Refreshes
    BY ActingRefresh DEF SnapshotInv, Early, Acting
  <1>2. wf[w].refresh \in Lease
    BY DEF SnapshotInv, WorkerSound, Fit
  <1>. QED BY <1>1, <1>2 DEF Lease, Refreshes, SnapshotInv, LeaseSound, Works, Early, Toiling

LEMMA DiscoverCalm ==
    ASSUME SnapshotInv, NEW w \in Workflows, Discover(w)
    PROVE  Calm
  <1>1. PICK r : r = wf[w].refresh
    OBVIOUS
  <1>2. wf[w].phase = "discover" /\ wf[w] \in WorkflowStates
        /\ UNCHANGED <<offered, catalog, caller>>
    BY WorkflowSound DEF Discover, At, SnapshotInv
  <1>3. r \in RefreshIds /\ refreshes[r].lease = TRUE /\ refreshes[r].status \in Leased
    BY <1>1, <1>2, EarlyWorker DEF Early
  <1>4. CASE HasManifest(r)
    <2>1. refreshes' = [refreshes EXCEPT ![r] = [refreshes[r] EXCEPT !.status = "running"]]
      BY <1>1, <1>4 DEF Discover
    <2>2. CalmRecords /\ CalmCatalog
      BY <1>2, <1>3, <2>1, RunningCalm, SameCatalogCalm DEF Lease, SnapshotInv
    <2>3. PICK y : y = Loop(wf[w], refreshes[r])
      OBVIOUS
    <2>4. Report(w, y)
      BY <1>1, <1>4, <2>3 DEF Discover
    <2>5. y.phase \in {"batch", "finalize"} /\ y.refresh = r
      BY <1>1, <1>2, <2>3, LoopPhase
    <2>6. Undisturbed(w)
      BY <2>2, CalmUndisturbed DEF SnapshotInv
    <2>7. refreshes'[r].lease /\ refreshes'[r].status # "unused"
      BY <1>3, <2>2 DEF CalmRecords, CalmRecord, Leased
    <2>8. Fit(y)'
      BY <1>3, <2>5, <2>7, PlainFit
    <2>9. WorkerSound'
      BY <1>2, <2>4, <2>5, <2>6, <2>7, <2>8, ReportFits DEF SnapshotInv, Acting
    <2>. QED BY <2>2, <2>9 DEF Calm
  <1>5. CASE ~HasManifest(r)
    <2>1. UNCHANGED refreshes
      BY <1>1, <1>5 DEF Discover
    <2>2. CalmRecords /\ CalmCatalog
      BY <1>2, <2>1, UnchangedCalm, SameCatalogCalm DEF SnapshotInv
    <2>3. PICK y : y = [wf[w] EXCEPT !.phase = "discovering"]
      OBVIOUS
    <2>4. wf' = [wf EXCEPT ![w] = y]
      BY <1>1, <1>5, <2>3 DEF Discover
    <2>5. y.phase = "discovering" /\ y.refresh = r
      BY <1>1, <1>2, <2>3 DEF WorkflowStates
    <2>6. Undisturbed(w)
      BY <2>2, CalmUndisturbed DEF SnapshotInv
    <2>7. Fit(y)'
      BY <1>3, <1>5, <2>1, <2>5 DEF Fit, Lease, HasManifest, Leased
    <2>8. WorkerSound'
      BY <1>1, <1>2, <2>4, <2>5, <2>6, <2>7, WorkerMoves DEF SnapshotInv
    <2>. QED BY <2>2, <2>8 DEF Calm
  <1>. QED BY <1>4, <1>5

LEMMA ReadBatchCalm ==
    ASSUME SnapshotInv, NEW w \in Workflows, ReadBatch(w)
    PROVE  Calm
  <1>1. PICK r : r = wf[w].refresh
    OBVIOUS
  <1>2. wf[w].phase = "batch" /\ wf[w] \in WorkflowStates
        /\ UNCHANGED <<offered, catalog, refreshes, caller>>
    BY WorkflowSound DEF ReadBatch, At, SnapshotInv
  <1>3. r \in RefreshIds /\ refreshes[r].lease = TRUE /\ refreshes[r].status \in Leased
    BY <1>1, <1>2, EarlyWorker DEF Early
  <1>4. CalmRecords /\ CalmCatalog
    BY <1>2, UnchangedCalm, SameCatalogCalm DEF SnapshotInv
  <1>5. Undisturbed(w)
    BY <1>4, CalmUndisturbed DEF SnapshotInv
  <1>6. PICK batch : batch = Slice(refreshes[r].manifest.pairs, refreshes[r].cursor)
    OBVIOUS
  <1>7. \/ wf' = [wf EXCEPT ![w] = Retry(wf[w])]
        \/ Report(w, Loop(wf[w], refreshes[r]))
        \/ batch # {} /\ wf' = [wf EXCEPT ![w] = [wf[w] EXCEPT !.phase = "batching", !.batch = batch,
                       !.start = refreshes[r].cursor, !.found = batch \cap offered]]
    BY <1>1, <1>6 DEF ReadBatch
  <1>8. CASE wf' = [wf EXCEPT ![w] = Retry(wf[w])]
    <2>1. PICK y : y = Retry(wf[w])
      OBVIOUS
    <2>2. Fit(y)' /\ y.refresh = wf[w].refresh
      BY <1>2, <1>5, <2>1, LostFit DEF SnapshotInv, Acting
    <2>3. wf' = [wf EXCEPT ![w] = y]
      BY <1>8, <2>1
    <2>4. WorkerSound'
      BY <1>2, <1>5, <2>2, <2>3, WorkerMoves DEF SnapshotInv
    <2>. QED BY <1>4, <2>4 DEF Calm
  <1>9. CASE Report(w, Loop(wf[w], refreshes[r]))
    <2>1. PICK y : y = Loop(wf[w], refreshes[r])
      OBVIOUS
    <2>2. y.phase \in {"batch", "finalize"} /\ y.refresh = r
      BY <1>1, <1>2, <2>1, LoopPhase
    <2>3. Report(w, y)
      BY <1>9, <2>1
    <2>4. Fit(y)'
      BY <1>2, <1>3, <2>2, PlainFit DEF Leased
    <2>5. WorkerSound'
      BY <1>1, <1>2, <1>5, <2>2, <2>3, <2>4, ReportFits DEF SnapshotInv, Acting
    <2>. QED BY <1>4, <2>5 DEF Calm
  <1>10. CASE batch # {} /\ wf' = [wf EXCEPT ![w] = [wf[w] EXCEPT !.phase = "batching",
                       !.batch = batch, !.start = refreshes[r].cursor, !.found = batch \cap offered]]
    <2>1. PICK y : y = [wf[w] EXCEPT !.phase = "batching", !.batch = batch,
                       !.start = refreshes[r].cursor, !.found = batch \cap offered]
      OBVIOUS
    <2>2. y.phase = "batching" /\ y.refresh = r /\ y.batch = batch
          /\ y.start = refreshes[r].cursor /\ y.found = batch \cap offered
      BY <1>1, <1>2, <2>1 DEF WorkflowStates
    <2>3. wf' = [wf EXCEPT ![w] = y]
      BY <1>10, <2>1
    <2>4. BatchFit(y)'
      BY <1>2, <1>6, <1>10, <2>2 DEF BatchFit
    <2>5. Fit(y)'
      BY <1>2, <1>3, <2>2, <2>4 DEF Fit, Lease, Leased
    <2>6. WorkerSound'
      BY <1>1, <1>2, <1>5, <2>2, <2>3, <2>5, WorkerMoves DEF SnapshotInv
    <2>. QED BY <1>4, <2>6 DEF Calm
  <1>. QED BY <1>7, <1>8, <1>9, <1>10

LEMMA CurateCalm ==
    ASSUME SnapshotInv, NEW w \in Workflows, Curate(w)
    PROVE  Calm
  <1>1. wf[w].phase = "curating" /\ wf[w] \in WorkflowStates
        /\ UNCHANGED <<offered, catalog, refreshes, caller>>
    BY WorkflowSound DEF Curate, At, SnapshotInv
  <1>2. CalmRecords /\ CalmCatalog
    BY <1>1, UnchangedCalm, SameCatalogCalm DEF SnapshotInv
  <1>3. Undisturbed(w)
    BY <1>2, CalmUndisturbed DEF SnapshotInv
  <1>4. PICK y : y = EndWith(wf[w], "done")
    OBVIOUS
  <1>5. y.phase = "ended" /\ y.refresh = wf[w].refresh
    BY <1>1, <1>4 DEF EndWith, Enter, WorkflowStates
  <1>6. Report(w, y) /\ Fit(y)'
    BY <1>4, <1>5, PlainFit DEF Curate, Early, Acting
  <1>7. WorkerSound'
    BY <1>1, <1>3, <1>5, <1>6, ReportFits DEF SnapshotInv, Acting
  <1>. QED BY <1>2, <1>7 DEF Calm

(* The manifest is stored once, when no other is open. *)
Stores(r, manifest) ==
    /\ r \in Lease /\ Current = {} /\ refreshes[r].cursor = 0
    /\ manifest \in Discovered /\ manifest.pairs # {}
    /\ refreshes'[r].manifest = manifest /\ refreshes'[r].cursor = 0
    /\ refreshes'[r].total = Cardinality(manifest.pairs)
    /\ refreshes'[r].lease /\ refreshes'[r].status = "running"
    /\ \A s \in RefreshIds \ {r} : refreshes'[s] = refreshes[s]
    /\ UNCHANGED <<offered, catalog>>

LEMMA StoreManifestStores ==
    ASSUME SnapshotInv, OneWorker, NEW w \in Workflows, StoreManifest(w)
    PROVE  (\E r \in RefreshIds : \E manifest \in Discovered : Stores(r, manifest)) /\ WorkerSound'
  <1>1. PICK r : r = wf[w].refresh
    OBVIOUS
  <1>2. wf[w].phase = "discovering" /\ wf[w] \in WorkflowStates
        /\ UNCHANGED <<offered, catalog, caller>>
    BY WorkflowSound DEF StoreManifest, At, SnapshotInv
  <1>3. r \in RefreshIds /\ refreshes[r] \in Refreshes /\ refreshes[r].lease = TRUE
        /\ Works(w, r)
    BY <1>1, <1>2, EarlyWorker DEF Early
  <1>4. ~HasManifest(r) /\ refreshes[r].cursor = 0
    BY <1>1, <1>2, <1>3 DEF SnapshotInv, WorkerSound, Fit, LeaseSound
  <1>5. Current = {}
    BY <1>3, <1>4 DEF Current, SnapshotInv, RefreshInv, AtMostOneLease, Lease
  <1>6. PICK manifest \in Discovered :
          /\ manifest.pairs # {}
          /\ refreshes' = [refreshes EXCEPT ![r] = [refreshes[r] EXCEPT
                 !.status = "running", !.manifest = manifest,
                 !.total = Cardinality(manifest.pairs),
                 !.unresolved = refreshes[r].unresolved \cup manifest.providers]]
    BY <1>1 DEF StoreManifest
  <1>7. PICK z : z = [refreshes[r] EXCEPT
                 !.status = "running", !.manifest = manifest,
                 !.total = Cardinality(manifest.pairs),
                 !.unresolved = refreshes[r].unresolved \cup manifest.providers]
    OBVIOUS
  <1>8. z.status = "running" /\ z.manifest = manifest /\ z.total = Cardinality(manifest.pairs)
        /\ z.cursor = 0 /\ z.lease
    BY <1>3, <1>4, <1>7 DEF Refreshes
  <1>9. refreshes'[r] = z /\ \A s \in RefreshIds \ {r} : refreshes'[s] = refreshes[s]
    <2>1. refreshes' = [refreshes EXCEPT ![r] = z]
      BY <1>6, <1>7
    <2>. QED BY <1>3, <2>1 DEF SnapshotInv, RefreshInv, TypeOK
  <1>10. Stores(r, manifest)
    BY <1>2, <1>3, <1>4, <1>5, <1>6, <1>8, <1>9 DEF Stores, Lease
  <1>11. Undisturbed(w)
    BY <1>2, <1>3, <1>8, <1>9, SoleUndisturbed DEF SnapshotInv
  <1>12. PICK y : y = Loop(wf[w], refreshes'[r])
    OBVIOUS
  <1>13. y.phase \in {"batch", "finalize"} /\ y.refresh = r
    BY <1>1, <1>2, <1>12, LoopPhase
  <1>14. Report(w, y)
    BY <1>1, <1>12 DEF StoreManifest
  <1>15. Fit(y)'
    BY <1>3, <1>8, <1>9, <1>13, PlainFit
  <1>16. WorkerSound'
    BY <1>1, <1>2, <1>11, <1>13, <1>14, <1>15, ReportFits DEF SnapshotInv, Acting
  <1>. QED BY <1>3, <1>10, <1>16

(* A batch is the next slice, and the cursor moves behind it. *)
Visits(r, batch, found) ==
    /\ r \in Lease /\ HasManifest(r)
    /\ batch = Slice(refreshes[r].manifest.pairs, refreshes[r].cursor) /\ batch # {}
    /\ found \subseteq batch /\ batch \cap offered \subseteq found
    /\ refreshes'[r].manifest = refreshes[r].manifest
    /\ refreshes'[r].total = refreshes[r].total
    /\ refreshes'[r].cursor = refreshes[r].cursor + Cardinality(batch)
    /\ refreshes'[r].lease /\ refreshes'[r].status = "running"
    /\ \A s \in RefreshIds \ {r} : refreshes'[s] = refreshes[s]
    /\ \A p \in Pairs : catalog'[p] =
           IF p \in found THEN Upsert(catalog[p], r)
           ELSE IF p \in batch THEN MarkUnavailable(catalog[p])
           ELSE catalog[p]
    /\ UNCHANGED offered

LEMMA CommitBatchVisits ==
    ASSUME SnapshotInv, OneWorker, NEW w \in Workflows, CommitBatch(w)
    PROVE  (\E r \in RefreshIds, batch, found \in SUBSET Pairs : Visits(r, batch, found))
           /\ WorkerSound'
  <1>1. PICK x : x = wf[w]
    OBVIOUS
  <1>2. PICK r : r = x.refresh
    OBVIOUS
  <1>3. x.phase = "batching" /\ x \in WorkflowStates /\ UNCHANGED <<offered, caller>>
    BY <1>1, WorkflowSound DEF CommitBatch, At, SnapshotInv
  <1>4. r \in RefreshIds /\ refreshes[r] \in Refreshes /\ refreshes[r].lease = TRUE
        /\ Works(w, r)
    BY <1>1, <1>2, <1>3, EarlyWorker DEF Early
  <1>5. x.start = refreshes[r].cursor
        /\ x.batch = Slice(refreshes[r].manifest.pairs, refreshes[r].cursor) /\ x.batch # {}
        /\ x.found \subseteq x.batch /\ x.batch \cap offered \subseteq x.found
    BY <1>1, <1>2, <1>3 DEF SnapshotInv, WorkerSound, Fit, BatchFit
  <1>6. refreshes[r].manifest.pairs \in SUBSET Pairs /\ refreshes[r].cursor \in Nat
    BY <1>4 DEF Refreshes, Manifests
  <1>7. HasManifest(r) /\ Cardinality(x.batch) \in Nat
    <2>1. PICK S \in SUBSET Pairs : S = refreshes[r].manifest.pairs
      BY <1>6
    <2>2. PICK c \in Nat : c = refreshes[r].cursor
      BY <1>6
    <2>3. Slice(S, c) \in SUBSET S /\ Cardinality(Slice(S, c)) \in Nat
      BY SliceIsNext
    <2>4. x.batch = Slice(S, c) /\ S # {}
      BY <1>5, <2>1, <2>2, <2>3
    <2>. QED BY <2>1, <2>3, <2>4 DEF HasManifest
  <1>8. CursorAfter(x) = refreshes[r].cursor + Cardinality(x.batch)
    BY <1>5 DEF CursorAfter
  <1>9. Larger(refreshes[r].cursor, CursorAfter(x)) = refreshes[r].cursor + Cardinality(x.batch)
    BY <1>6, <1>7, <1>8 DEF Larger
  <1>10. PICK z : z = [refreshes[r] EXCEPT !.status = "running",
                          !.cursor = Larger(refreshes[r].cursor, CursorAfter(x))]
    OBVIOUS
  <1>11. refreshes' = [refreshes EXCEPT ![r] = z]
    BY <1>1, <1>2, <1>10 DEF CommitBatch
  <1>12. z.manifest = refreshes[r].manifest /\ z.total = refreshes[r].total
         /\ z.cursor = refreshes[r].cursor + Cardinality(x.batch)
         /\ z.lease /\ z.status = "running"
    BY <1>4, <1>9, <1>10 DEF Refreshes
  <1>13. refreshes'[r] = z /\ \A s \in RefreshIds \ {r} : refreshes'[s] = refreshes[s]
    BY <1>4, <1>11 DEF SnapshotInv, RefreshInv, TypeOK
  <1>14. catalog' = [p \in Pairs |->
             IF p \in x.found THEN Upsert(catalog[p], r)
             ELSE IF p \in x.batch THEN MarkUnavailable(catalog[p])
             ELSE catalog[p]]
    BY <1>1, <1>2 DEF CommitBatch
  <1>15. Visits(r, x.batch, x.found)
    BY <1>3, <1>4, <1>5, <1>7, <1>12, <1>13, <1>14 DEF Visits, Lease
  <1>16. x.batch \in SUBSET Pairs /\ x.found \in SUBSET Pairs
    BY <1>3 DEF WorkflowStates
  <1>17. Undisturbed(w)
    BY <1>3, <1>4, <1>12, <1>13, SoleUndisturbed DEF SnapshotInv
  <1>18. PICK y : y = Loop(x, refreshes'[r])
    OBVIOUS
  <1>19. y.phase \in {"batch", "finalize"} /\ y.refresh = r
    BY <1>2, <1>3, <1>18, LoopPhase
  <1>20. Report(w, y)
    BY <1>1, <1>2, <1>18 DEF CommitBatch
  <1>21. Fit(y)'
    BY <1>4, <1>12, <1>13, <1>19, PlainFit
  <1>22. WorkerSound'
    BY <1>1, <1>2, <1>3, <1>17, <1>19, <1>20, <1>21, ReportFits DEF SnapshotInv, Acting
  <1>. QED BY <1>4, <1>15, <1>16, <1>22

(* The completion of a refresh whose cursor is at the end. *)
Completes(r) ==
    /\ r \in Lease /\ HasManifest(r) /\ refreshes[r].cursor >= refreshes[r].total
    /\ refreshes'[r].manifest.pairs = {} /\ ~refreshes'[r].lease
    /\ refreshes'[r].status = "completed"
    /\ \A s \in RefreshIds \ {r} : refreshes'[s] = refreshes[s]
    /\ \A p \in Pairs : catalog'[p] =
           IF p \in Active \ Kept(r) THEN [catalog[p] EXCEPT !.state = "retired"] ELSE catalog[p]
    /\ UNCHANGED offered

LEMMA FinalizeCompletes ==
    ASSUME SnapshotInv, OneWorker, NEW w \in Workflows, Finalize(w)
    PROVE  (Calm \/ \E r \in RefreshIds : Completes(r)) /\ WorkerSound'
  <1>1. PICK r : r = wf[w].refresh
    OBVIOUS
  <1>2. wf[w].phase = "finalize" /\ wf[w] \in WorkflowStates /\ UNCHANGED <<offered, caller>>
    BY WorkflowSound DEF Finalize, At, SnapshotInv
  <1>3. r \in RefreshIds /\ refreshes[r] \in Refreshes
    BY <1>1, <1>2, ActingRefresh DEF SnapshotInv, Acting
  <1>4. refreshes[r].status # "unused"
    BY <1>1, <1>2 DEF SnapshotInv, WorkerSound, Fit, Acting
  <1>5. PICK y : y = [wf[w] EXCEPT !.phase = "curating"]
    OBVIOUS
  <1>6. y.phase = "curating" /\ y.refresh = r
    BY <1>1, <1>2, <1>5 DEF WorkflowStates
  <1>7. CASE UNCHANGED <<catalog, refreshes>>
    <2>1. CalmRecords /\ CalmCatalog
      BY <1>2, <1>7, UnchangedCalm, SameCatalogCalm DEF SnapshotInv
    <2>2. Undisturbed(w)
      BY <2>1, CalmUndisturbed DEF SnapshotInv
    <2>3. CASE wf' = [wf EXCEPT ![w] = y]
      <3>1. Fit(y)'
        BY <1>4, <1>6, <1>7, PlainFit DEF Early
      <3>2. WorkerSound'
        BY <1>1, <1>2, <1>6, <2>2, <2>3, <3>1, WorkerMoves DEF SnapshotInv
      <3>. QED BY <2>1, <3>2 DEF Calm
    <2>4. CASE wf' = [wf EXCEPT ![w] = Retry(wf[w])]
      <3>1. PICK v : v = Retry(wf[w])
        OBVIOUS
      <3>2. Fit(v)' /\ v.refresh = wf[w].refresh
        BY <1>2, <2>2, <3>1, LostFit DEF SnapshotInv, Acting
      <3>3. wf' = [wf EXCEPT ![w] = v]
        BY <2>4, <3>1
      <3>4. WorkerSound'
        BY <1>2, <2>2, <3>2, <3>3, WorkerMoves DEF SnapshotInv
      <3>. QED BY <2>1, <3>4 DEF Calm
    <2>. QED BY <1>5, <2>3, <2>4 DEF Finalize
  <1>8. CASE ~UNCHANGED <<catalog, refreshes>>
    <2>1. HasManifest(r) /\ refreshes[r].cursor >= refreshes[r].total /\ Complete(r)
          /\ wf' = [wf EXCEPT ![w] = y]
      BY <1>1, <1>5, <1>8 DEF Finalize
    <2>2. PICK z : z = [refreshes[r] EXCEPT !.status = "completed", !.lease = FALSE,
                            !.manifest = NoManifest, !.cursor = refreshes[r].total]
      OBVIOUS
    <2>3. z.status = "completed" /\ z.lease = FALSE /\ z.manifest.pairs = {}
      BY <1>3, <2>2 DEF Refreshes, NoManifest
    <2>4. refreshes' = [refreshes EXCEPT ![r] = z]
      BY <2>1, <2>2 DEF Complete
    <2>5. refreshes'[r] = z /\ \A s \in RefreshIds \ {r} : refreshes'[s] = refreshes[s]
      BY <1>3, <2>4 DEF SnapshotInv, RefreshInv, TypeOK
    <2>6. r \in Lease
      BY <1>3, <2>1 DEF SnapshotInv, LeaseSound, Lease
    <2>7. \A p \in Pairs : catalog'[p] =
           IF p \in Active \ Kept(r) THEN [catalog[p] EXCEPT !.state = "retired"] ELSE catalog[p]
      BY <2>1 DEF Complete
    <2>8. Completes(r)
      BY <1>2, <2>1, <2>3, <2>5, <2>6, <2>7 DEF Completes
    <2>9. Works(w, r)
      BY <1>1, <1>2 DEF Works, Toiling
    <2>10. Undisturbed(w)
      BY <1>2, <1>3, <2>3, <2>5, <2>9, SoleUndisturbed DEF SnapshotInv, Early
    <2>11. Fit(y)'
      BY <1>6, <2>3, <2>5, PlainFit DEF Early
    <2>12. WorkerSound'
      BY <1>1, <1>2, <1>6, <2>1, <2>10, <2>11, WorkerMoves DEF SnapshotInv
    <2>. QED BY <1>3, <2>8, <2>12
  <1>. QED BY <1>7, <1>8

-----------------------------------------------------------------------------
(* The three steps of a snapshot *)

(* Discovery finds what is listed, or says why it could not.                *)
LEMMA DiscoveredCovers ==
    ASSUME NEW manifest \in Discovered
    PROVE  /\ manifest.pairs \subseteq Listed
           /\ \A p \in Listed : \/ p \in manifest.pairs
                                \/ ProviderOf[p] \in manifest.providers
                                \/ BlueprintOf[p] \in manifest.blueprints
  <1>1. ASSUME NEW pending \in SUBSET Providers, NEW forbidden \in SUBSET Ranked,
               manifest = IndexDiscovery(pending, forbidden)
        PROVE  /\ manifest.pairs \subseteq Listed
               /\ \A p \in Listed : \/ p \in manifest.pairs
                                    \/ ProviderOf[p] \in manifest.providers
                                    \/ BlueprintOf[p] \in manifest.blueprints
    <2>. DEFINE direct == {p \in Listed : ProviderOf[p] \notin pending}
                extra == {p \in Listed : ProviderOf[p] \in pending
                                         /\ BlueprintOf[p] \notin forbidden}
    <2>1. manifest.pairs = direct \cup extra
          /\ manifest.providers = pending \ {ProviderOf[p] : p \in extra}
          /\ manifest.blueprints = forbidden
      BY <1>1 DEF IndexDiscovery
    <2>. QED BY <2>1
  <1>2. ASSUME NEW forbidden \in SUBSET Ranked, manifest = BlueprintDiscovery(forbidden)
        PROVE  /\ manifest.pairs \subseteq Listed
               /\ \A p \in Listed : \/ p \in manifest.pairs
                                    \/ ProviderOf[p] \in manifest.providers
                                    \/ BlueprintOf[p] \in manifest.blueprints
    BY <1>2 DEF BlueprintDiscovery
  <1>3. \/ \E pending \in SUBSET Providers, forbidden \in SUBSET Ranked :
              manifest = IndexDiscovery(pending, forbidden)
        \/ \E forbidden \in SUBSET Ranked : manifest = BlueprintDiscovery(forbidden)
    BY DEF Discovered
  <1>. QED BY <1>1, <1>2, <1>3

(* Only the refresh with the lease has a manifest. *)
LEMMA OneManifest ==
    ASSUME SnapshotInv, NEW r \in Lease, NEW s \in RefreshIds, HasManifest(s)
    PROVE  s = r
  BY DEF SnapshotInv, LeaseSound, RefreshInv, AtMostOneLease, Lease

LEMMA StoresSound ==
    ASSUME SnapshotInv, NEW r \in RefreshIds, NEW manifest \in Discovered, Stores(r, manifest)
    PROVE  LeaseSound' /\ ManifestSound'
  <1>1. LeaseSound'
    <2>. SUFFICES ASSUME NEW s \in RefreshIds
                  PROVE  (/\ refreshes[s].lease <=> refreshes[s].status \in Leased
                          /\ HasManifest(s) => refreshes[s].lease
                          /\ refreshes[s].lease /\ ~HasManifest(s) => refreshes[s].cursor = 0
                          /\ refreshes[s].status = "unused" => refreshes[s].cursor = 0)'
      BY DEF LeaseSound
    <2>1. CASE s = r
      BY <2>1 DEF Stores, Leased
    <2>2. CASE s # r
      BY <2>2 DEF Stores, SnapshotInv, LeaseSound, HasManifest
    <2>. QED BY <2>1, <2>2
  <1>2. ASSUME NEW s \in RefreshIds, HasManifest(s)' PROVE s = r
    <2>1. CASE s # r
      <3>1. HasManifest(s)
        BY <1>2, <2>1 DEF Stores, HasManifest
      <3>. QED BY <3>1, OneManifest DEF Stores
    <2>. QED BY <2>1
  <1>3. manifest.pairs \subseteq Listed /\ manifest.pairs \in SUBSET Pairs
    BY DiscoveredCovers DEF SnapshotInv, RefreshInv, TypeOK, Listed
  <1>4. ManifestFit(r)'
    <2>1. \A p \in manifest.pairs : Rank(p)
      BY <1>3 DEF Listed
    <2>2. \A p \in Listed' : Covers(r, p)'
      BY DiscoveredCovers DEF Stores, Listed, Covers, Rank
    <2>3. ASSUME NEW p \in Passed(r)' PROVE FALSE
      <3>1. p \in manifest.pairs /\ Position(p, manifest.pairs) <= 0
        BY <2>3 DEF Passed, Stores
      <3>2. Position(p, manifest.pairs) \in Nat /\ 1 <= Position(p, manifest.pairs)
        BY <1>3, <3>1, PositionBounds
      <3>. QED BY <3>1, <3>2
    <2>. QED BY <2>1, <2>2, <2>3 DEF ManifestFit, Stores, Rank
  <1>. QED BY <1>1, <1>2, <1>4 DEF ManifestSound

(* What the cursor passes with a batch is the batch. *)
LEMMA BatchIsPassed ==
    ASSUME SnapshotInv, NEW r \in RefreshIds, NEW batch, NEW found, Visits(r, batch, found)
    PROVE  /\ refreshes[r].manifest.pairs \in SUBSET Pairs
           /\ batch \in SUBSET refreshes[r].manifest.pairs
           /\ Passed(r)' = Passed(r) \cup batch /\ batch \cap Passed(r) = {}
  <1>0. refreshes[r] \in Refreshes
    BY DEF SnapshotInv, RefreshInv, TypeOK
  <1>1. PICK S \in SUBSET Pairs : S = refreshes[r].manifest.pairs
    BY <1>0 DEF Refreshes, Manifests
  <1>2. PICK c \in Nat : c = refreshes[r].cursor
    BY <1>0 DEF Refreshes
  <1>3. PICK n : n = Cardinality(batch)
    OBVIOUS
  <1>4. batch = Slice(S, c) /\ refreshes'[r].cursor = c + n /\ refreshes'[r].manifest.pairs = S
    BY <1>1, <1>2, <1>3 DEF Visits
  <1>5. batch \in SUBSET S /\ n \in Nat
    BY <1>3, <1>4, SliceIsNext
  <1>6. \A p \in S : p \in batch <=> c < Position(p, S) /\ Position(p, S) <= c + n
    BY <1>3, <1>4, SliceIsNext
  <1>7. Passed(r) = {p \in S : Position(p, S) <= c}
    BY <1>1, <1>2 DEF Passed
  <1>8. Passed(r)' = {p \in S : Position(p, S) <= c + n}
    BY <1>4 DEF Passed
  <1>9. \A p \in S : Position(p, S) \in Nat
    BY PositionBounds
  <1>10. ASSUME NEW p \in S
         PROVE  /\ p \in Passed(r)' <=> p \in Passed(r) \cup batch
                /\ ~(p \in batch /\ p \in Passed(r))
    BY <1>2, <1>5, <1>6, <1>7, <1>8, <1>9
  <1>11. Passed(r)' \subseteq S /\ Passed(r) \subseteq S
    BY <1>7, <1>8
  <1>. QED BY <1>1, <1>5, <1>10, <1>11

LEMMA VisitsSound ==
    ASSUME SnapshotInv, NEW r \in RefreshIds, NEW batch, NEW found, Visits(r, batch, found)
    PROVE  LeaseSound' /\ ManifestSound'
  <1>1. LeaseSound'
    <2>. SUFFICES ASSUME NEW s \in RefreshIds
                  PROVE  (/\ refreshes[s].lease <=> refreshes[s].status \in Leased
                          /\ HasManifest(s) => refreshes[s].lease
                          /\ refreshes[s].lease /\ ~HasManifest(s) => refreshes[s].cursor = 0
                          /\ refreshes[s].status = "unused" => refreshes[s].cursor = 0)'
      BY DEF LeaseSound
    <2>1. CASE s = r
      BY <2>1 DEF Visits, Leased, HasManifest
    <2>2. CASE s # r
      BY <2>2 DEF Visits, SnapshotInv, LeaseSound, HasManifest
    <2>. QED BY <2>1, <2>2
  <1>2. ASSUME NEW s \in RefreshIds, HasManifest(s)' PROVE s = r
    <2>1. CASE s # r
      <3>1. HasManifest(s)
        BY <1>2, <2>1 DEF Visits, HasManifest
      <3>. QED BY <3>1, OneManifest DEF Visits
    <2>. QED BY <2>1
  <1>3. ManifestFit(r) /\ refreshes[r].manifest.pairs \in SUBSET Pairs
        /\ Passed(r)' = Passed(r) \cup batch /\ batch \in SUBSET Pairs
    BY BatchIsPassed, SMTT(20) DEF SnapshotInv, ManifestSound, Visits
  <1>4. ManifestFit(r)'
    <2>1. refreshes'[r].total = Cardinality(refreshes'[r].manifest.pairs)
          /\ \A p \in refreshes'[r].manifest.pairs : Rank(p)
      BY <1>3 DEF ManifestFit, Visits
    <2>2. \A p \in Listed' : Covers(r, p)'
      BY <1>3 DEF ManifestFit, Visits, Listed, Covers, Rank
    <2>3. ASSUME NEW p \in (Passed(r) \cap offered)' PROVE catalog'[p].seen = r
      <3>1. p \in Passed(r) \cup batch /\ p \in offered /\ p \in Pairs
            /\ catalog[p] \in Products
        BY <1>3, <2>3 DEF Passed, Visits, SnapshotInv, RefreshInv, TypeOK
      <3>2. CASE p \in batch
        <4>1. catalog'[p] = Upsert(catalog[p], r)
          BY <3>1, <3>2 DEF Visits
        <4>2. r # None
          BY DEF RefreshIds, None
        <4>. QED BY <3>1, <4>1, <4>2 DEF Upsert, Products
      <3>3. CASE p \notin batch
        <4>1. catalog'[p] = catalog[p]
          BY <3>1, <3>3 DEF Visits
        <4>. QED BY <1>3, <3>1, <3>3, <4>1 DEF ManifestFit
      <3>. QED BY <3>2, <3>3
    <2>. QED BY <2>1, <2>2, <2>3 DEF ManifestFit, Rank
  <1>. QED BY <1>1, <1>2, <1>4 DEF ManifestSound

LEMMA CompletesSound ==
    ASSUME SnapshotInv, NEW r \in RefreshIds, Completes(r)
    PROVE  LeaseSound' /\ ManifestSound' /\ \A s \in RefreshIds : ~HasManifest(s)'
  <1>1. LeaseSound'
    <2>. SUFFICES ASSUME NEW s \in RefreshIds
                  PROVE  (/\ refreshes[s].lease <=> refreshes[s].status \in Leased
                          /\ HasManifest(s) => refreshes[s].lease
                          /\ refreshes[s].lease /\ ~HasManifest(s) => refreshes[s].cursor = 0
                          /\ refreshes[s].status = "unused" => refreshes[s].cursor = 0)'
      BY DEF LeaseSound
    <2>1. CASE s = r
      BY <2>1 DEF Completes, Leased, HasManifest
    <2>2. CASE s # r
      BY <2>2 DEF Completes, SnapshotInv, LeaseSound, HasManifest
    <2>. QED BY <2>1, <2>2
  <1>2. ASSUME NEW s \in RefreshIds, HasManifest(s)' PROVE FALSE
    <2>1. CASE s # r
      <3>1. HasManifest(s)
        BY <1>2, <2>1 DEF Completes, HasManifest
      <3>. QED BY <2>1, <3>1, OneManifest DEF Completes
    <2>2. CASE s = r
      BY <1>2, <2>2 DEF Completes, HasManifest
    <2>. QED BY <2>1, <2>2
  <1>. QED BY <1>1, <1>2 DEF ManifestSound

(* Every step is calm, stores a manifest, visits a batch or completes.      *)
LEMMA StepKinds ==
    ASSUME SnapshotInv, OneWorker, [Next]_vars
    PROVE  /\ WorkerSound'
           /\ \/ CalmRecords /\ CalmCatalog
              \/ \E r \in RefreshIds : \E manifest \in Discovered : Stores(r, manifest)
              \/ \E r \in RefreshIds, batch, found \in SUBSET Pairs : Visits(r, batch, found)
              \/ \E r \in RefreshIds : Completes(r)
  <1>1. ASSUME NEW w \in Workflows, Working(w) \/ FailRefresh(w) \/ AttemptDies(w)
               \/ FailRefreshResultLost(w)
        PROVE  \/ Calm
               \/ /\ WorkerSound'
                  /\ \/ \E r \in RefreshIds : \E manifest \in Discovered : Stores(r, manifest)
                     \/ \E r \in RefreshIds, batch, found \in SUBSET Pairs : Visits(r, batch, found)
                     \/ \E r \in RefreshIds : Completes(r)
    <2>1. CASE ClaimActivity(w) \/ Discover(w) \/ ReadBatch(w) \/ Curate(w)
      BY <2>1, ClaimActivityCalm, DiscoverCalm, ReadBatchCalm, CurateCalm
    <2>2. CASE StoreManifest(w)
      BY <2>2, StoreManifestStores
    <2>3. CASE CommitBatch(w)
      BY <2>3, CommitBatchVisits
    <2>4. CASE Finalize(w)
      BY <2>4, FinalizeCompletes
    <2>5. CASE FailRefresh(w) \/ AttemptDies(w) \/ FailRefreshResultLost(w)
      BY <2>5, FailRefreshCalm, AttemptDiesCalm
    <2>. QED BY <1>1, <2>1, <2>2, <2>3, <2>4, <2>5 DEF Working
  <1>2. CASE UNCHANGED vars
    <2>1. UNCHANGED <<offered, catalog, refreshes, wf, caller>>
      BY <1>2 DEF vars
    <2>2. CalmRecords /\ CalmCatalog
      BY <2>1, UnchangedCalm, SameCatalogCalm DEF SnapshotInv
    <2>. QED BY <2>1, <2>2, NobodyMoves DEF SnapshotInv
  <1>3. ASSUME NEW w \in Manual, \/ RequestRefresh(w) \/ StartWorkflow(w) \/ StartFails(w)
                                 \/ CallerDies(w) \/ FailStart(w)
        PROVE  Calm
    BY <1>3, RequestRefreshCalm, StartCalm, FailStartCalm
  <1>. QED BY <1>1, <1>2, <1>3, FireCalm, OthersCalm DEF Next, Calm

LEMMA SnapshotInit == Init => SnapshotInv
  <1>. SUFFICES ASSUME Init PROVE SnapshotInv
    OBVIOUS
  <1>1. RefreshInv
    BY InitInv
  <1>2. \A r \in RefreshIds : refreshes[r].status = "unused" /\ ~refreshes[r].lease
            /\ refreshes[r].cursor = 0 /\ ~HasManifest(r)
    BY DEF Init, Unused, NoManifest, HasManifest
  <1>3. LeaseSound /\ ManifestSound
    BY <1>2 DEF LeaseSound, ManifestSound, Leased
  <1>4. \A w \in Workflows : wf[w].phase = "off"
    BY DEF Init, Off
  <1>5. \A m \in Manual : caller[m] = "off"
    BY DEF Init
  <1>6. WorkerSound
    BY <1>4, <1>5 DEF WorkerSound, Fit, CallerFit, Early, Acting
  <1>. QED BY <1>1, <1>3, <1>6 DEF SnapshotInv

LEMMA SnapshotNext == SnapshotInv /\ OneWorker /\ [Next]_vars => SnapshotInv'
  <1>. SUFFICES ASSUME SnapshotInv, OneWorker, [Next]_vars PROVE SnapshotInv'
    OBVIOUS
  <1>1. RefreshInv' /\ WorkerSound'
    BY NextInv, StepKinds DEF SnapshotInv
  <1>2. LeaseSound' /\ ManifestSound'
    <2>1. CASE CalmRecords /\ CalmCatalog
      BY <2>1, CalmRecordsSound DEF SnapshotInv
    <2>. QED BY <2>1, StepKinds, StoresSound, VisitsSound, CompletesSound
  <1>. QED BY <1>1, <1>2 DEF SnapshotInv

-----------------------------------------------------------------------------
(* What the steps keep *)

(* A cursor at the end has passed the whole manifest. *)
LEMMA AllPassed ==
    ASSUME SnapshotInv, NEW r \in RefreshIds, HasManifest(r),
           refreshes[r].cursor >= refreshes[r].total
    PROVE  Passed(r) = refreshes[r].manifest.pairs
  <1>0. refreshes[r] \in Refreshes
    BY DEF SnapshotInv, RefreshInv, TypeOK
  <1>1. PICK S \in SUBSET Pairs : S = refreshes[r].manifest.pairs
    BY <1>0 DEF Refreshes, Manifests
  <1>2. refreshes[r].total = Cardinality(S) /\ refreshes[r].cursor \in Nat
    BY <1>0, <1>1 DEF SnapshotInv, ManifestSound, ManifestFit, Refreshes
  <1>3. Cardinality(S) \in Nat
    BY PairsFinite
  <1>4. ASSUME NEW p \in S PROVE Position(p, S) <= refreshes[r].cursor
    BY <1>2, <1>3, PositionBounds
  <1>. QED BY <1>1, <1>4 DEF Passed

LEMMA CompletedStays ==
    ASSUME SnapshotInv, OneWorker, [Next]_vars, NEW r \in RefreshIds,
           refreshes[r].status = "completed"
    PROVE  refreshes'[r].status = "completed"
  <1>1. r \notin Lease
    BY DEF SnapshotInv, LeaseSound, Leased, Lease
  <1>2. CASE CalmRecords
    BY <1>2 DEF CalmRecords, CalmRecord
  <1>3. ASSUME NEW s \in RefreshIds, NEW manifest \in Discovered, Stores(s, manifest)
        PROVE  refreshes'[r] = refreshes[r]
    BY <1>1, <1>3 DEF Stores
  <1>4. ASSUME NEW s \in RefreshIds, NEW batch, NEW found, Visits(s, batch, found)
        PROVE  refreshes'[r] = refreshes[r]
    BY <1>1, <1>4 DEF Visits
  <1>5. ASSUME NEW s \in RefreshIds, Completes(s)
        PROVE  refreshes'[r] = refreshes[r]
    BY <1>1, <1>5 DEF Completes
  <1>. QED BY <1>2, <1>3, <1>4, <1>5, StepKinds

LEMMA ProgressStays ==
    ASSUME SnapshotInv, OneWorker, [Next]_vars, NEW r \in Current, r \in Lease'
    PROVE  /\ refreshes'[r].manifest = refreshes[r].manifest
           /\ refreshes'[r].cursor >= refreshes[r].cursor
  <1>1. r \in RefreshIds /\ r \in Lease /\ HasManifest(r) /\ refreshes[r].cursor \in Nat
    BY DEF Current, Lease, SnapshotInv, RefreshInv, TypeOK, Refreshes
  <1>2. CASE CalmRecords
    BY <1>1, <1>2 DEF CalmRecords, CalmRecord
  <1>3. ASSUME NEW s \in RefreshIds, NEW manifest \in Discovered, Stores(s, manifest)
        PROVE  FALSE
    BY <1>3 DEF Stores
  <1>4. ASSUME NEW s \in RefreshIds, NEW batch \in SUBSET Pairs, NEW found, Visits(s, batch, found)
        PROVE  /\ refreshes'[r].manifest = refreshes[r].manifest
               /\ refreshes'[r].cursor >= refreshes[r].cursor
    <2>1. r = s
      BY <1>1, <1>4, OneManifest DEF Visits
    <2>2. Cardinality(batch) \in Nat
      BY PairsFinite
    <2>. QED BY <1>1, <1>4, <2>1, <2>2 DEF Visits
  <1>5. ASSUME NEW s \in RefreshIds, Completes(s)
        PROVE  FALSE
    <2>1. r = s
      BY <1>1, <1>5, OneManifest DEF Completes
    <2>. QED BY <1>5, <2>1 DEF Completes, Lease
  <1>. QED BY <1>2, <1>3, <1>4, <1>5, StepKinds

(* Why a completion has to keep what Printify still offers. *)
LEMMA OfferedIsKept ==
    ASSUME SnapshotInv, NEW r \in RefreshIds, HasManifest(r),
           refreshes[r].cursor >= refreshes[r].total,
           NEW p \in Pairs, p \in offered, Rank(p)
    PROVE  p \in Kept(r)
  <1>1. ManifestFit(r) /\ Passed(r) = refreshes[r].manifest.pairs
    BY AllPassed DEF SnapshotInv, ManifestSound
  <1>2. Covers(r, p)
    BY <1>1 DEF ManifestFit, Listed
  <1>3. p \in refreshes[r].manifest.pairs => catalog[p].seen = r
    BY <1>1 DEF ManifestFit
  <1>. QED BY <1>2, <1>3 DEF Kept, Covers

LEMMA OfferedStays ==
    ASSUME SnapshotInv, OneWorker, [Next]_vars,
           NEW p \in Pairs, p \in Active, p \in offered, Rank(p)
    PROVE  p \in Active'
  <1>0. catalog[p] \in Products
    BY DEF SnapshotInv, RefreshInv, TypeOK
  <1>1. CASE CalmCatalog
    BY <1>1 DEF CalmCatalog
  <1>2. ASSUME NEW s \in RefreshIds, NEW manifest \in Discovered, Stores(s, manifest)
        PROVE  p \in Active'
    BY <1>2 DEF Stores, Active
  <1>3. ASSUME NEW s \in RefreshIds, NEW batch, NEW found, Visits(s, batch, found)
        PROVE  p \in Active'
    <2>1. p \in found \/ p \notin batch
      BY <1>3 DEF Visits
    <2>2. CASE p \in found
      <3>1. catalog'[p] = Upsert(catalog[p], s)
        BY <1>3, <2>2 DEF Visits
      <3>. QED BY <1>0, <3>1 DEF Active, Upsert, Products
    <2>3. CASE p \notin batch
      <3>1. catalog'[p] = catalog[p]
        BY <1>3, <2>3 DEF Visits
      <3>. QED BY <3>1 DEF Active
    <2>. QED BY <2>1, <2>2, <2>3
  <1>4. ASSUME NEW s \in RefreshIds, Completes(s)
        PROVE  p \in Active'
    <2>1. p \in Kept(s)
      BY <1>4, OfferedIsKept DEF Completes
    <2>2. catalog'[p] = catalog[p]
      BY <1>4, <2>1 DEF Completes
    <2>. QED BY <2>2 DEF Active
  <1>. QED BY <1>1, <1>2, <1>3, <1>4, StepKinds

-----------------------------------------------------------------------------
(* The refinement of CatalogSnapshot *)

Open == Current # {}
Todo == {p \in Pairs : \E r \in Current :
            p \in refreshes[r].manifest.pairs
            /\ refreshes[r].cursor < Position(p, refreshes[r].manifest.pairs)}
Keep == {p \in Pairs : \E r \in Current : p \in Kept(r)}

(* With the one refresh that has a manifest, what is to be visited is what   *)
(* its cursor has not passed.                                               *)
LEMMA CurrentIsOne ==
    ASSUME SnapshotInv, NEW r \in RefreshIds, r \in Lease, HasManifest(r)
    PROVE  /\ Current = {r}
           /\ Todo = refreshes[r].manifest.pairs \ Passed(r)
           /\ Keep = Kept(r)
  <1>1. Current = {r}
    BY OneManifest DEF Current, Lease
  <1>0. refreshes[r] \in Refreshes
    BY DEF SnapshotInv, RefreshInv, TypeOK
  <1>2. PICK S \in SUBSET Pairs : S = refreshes[r].manifest.pairs
    BY <1>0 DEF Refreshes, Manifests
  <1>3. PICK c \in Nat : c = refreshes[r].cursor
    BY <1>0 DEF Refreshes
  <1>4. \A p \in S : Position(p, S) \in Nat
    BY PositionBounds
  <1>5. Todo = {p \in S : c < Position(p, S)}
    BY <1>1, <1>2, <1>3 DEF Todo
  <1>6. Passed(r) = {p \in S : Position(p, S) <= c}
    BY <1>2, <1>3 DEF Passed
  <1>7. Todo = S \ Passed(r)
    BY <1>3, <1>4, <1>5, <1>6
  <1>8. Keep = Kept(r)
    BY <1>1 DEF Keep, Kept
  <1>. QED BY <1>1, <1>2, <1>7, <1>8

LEMMA NoCurrent ==
    ASSUME Current = {}
    PROVE  ~Open /\ Todo = {} /\ Keep = {}
  BY DEF Open, Todo, Keep

(* Claims, failures, resumptions and the work of others on products.        *)
LEMMA CalmMaps ==
    ASSUME SnapshotInv, SnapshotInv', CalmRecords, CalmCatalog
    PROVE  Snapshot!Next
  <1>1. \A r \in RefreshIds : HasManifest(r)' = HasManifest(r)
    BY DEF CalmRecords, CalmRecord, HasManifest
  <1>2. \A r \in RefreshIds : HasManifest(r) => refreshes[r].lease /\ refreshes'[r].lease
    BY DEF CalmRecords, CalmRecord, SnapshotInv, LeaseSound
  <1>3. Current' = Current
    BY <1>1, <1>2 DEF Current, Lease
  <1>4. \A r \in Current : /\ refreshes'[r].manifest = refreshes[r].manifest
                           /\ refreshes'[r].cursor = refreshes[r].cursor
    BY DEF Current, Lease, CalmRecords, CalmRecord
  <1>5. Open' = Open /\ Todo' = Todo
    BY <1>3, <1>4 DEF Open, Todo
  <1>6. ASSUME NEW r \in Current PROVE Kept(r)' = Kept(r)
    BY <1>4 DEF Kept, CalmCatalog, Rank
  <1>7. Keep' = Keep
    BY <1>3, <1>6 DEF Keep
  <1>8. \/ Active \subseteq Active' /\ Active' \subseteq Pairs
        \/ \E p \in Pairs : Active' \in {Active \cup {p}, Active \ {p}}
    BY DEF CalmCatalog, Active
  <1>9. Snapshot!Single \/ Snapshot!Recover
    BY <1>8 DEF Snapshot!Single, Snapshot!Recover
  <1>. QED BY <1>5, <1>7, <1>9 DEF Snapshot!Next, Open, Todo, Keep

LEMMA StoreMaps ==
    ASSUME SnapshotInv, SnapshotInv', NEW r \in RefreshIds, NEW manifest \in Discovered,
           Stores(r, manifest)
    PROVE  Snapshot!Next
  <1>1. ~Open /\ Active' = Active
    BY NoCurrent DEF Stores, Active
  <1>2. r \in Lease' /\ HasManifest(r)'
    BY DEF Stores, Lease, HasManifest
  <1>3. r \in Current'
    BY <1>2 DEF Current
  <1>4. Open'
    BY <1>3 DEF Open
  <1>5. manifest.pairs \in SUBSET Pairs
    BY DiscoveredCovers DEF SnapshotInv, RefreshInv, TypeOK, Listed
  <1>6. PICK p \in manifest.pairs : TRUE
    BY DEF Stores
  <1>7. 0 < Position(p, manifest.pairs)
    <2>1. Position(p, manifest.pairs) \in Nat /\ 1 <= Position(p, manifest.pairs)
      BY <1>5, PositionBounds
    <2>. QED BY <2>1
  <1>8. p \in Todo'
    BY <1>3, <1>5, <1>7 DEF Todo, Stores
  <1>9. Todo' \in (SUBSET Pairs) \ {{}} /\ Keep' \in SUBSET Pairs
    BY <1>8 DEF Todo, Keep
  <1>10. Snapshot!Take
    BY <1>1, <1>4, <1>9 DEF Snapshot!Take, Open, Todo, Keep
  <1>. QED BY <1>10 DEF Snapshot!Next

LEMMA VisitMaps ==
    ASSUME SnapshotInv, SnapshotInv', NEW r \in RefreshIds,
           NEW batch \in SUBSET Pairs, NEW found \in SUBSET Pairs, Visits(r, batch, found)
    PROVE  Snapshot!Next
  <1>1. r \in Lease /\ HasManifest(r) /\ r \in Lease' /\ HasManifest(r)'
    BY DEF Visits, Lease, HasManifest
  <1>2. Current = {r} /\ Todo = refreshes[r].manifest.pairs \ Passed(r) /\ Keep = Kept(r)
    BY <1>1, CurrentIsOne
  <1>3. Current' = {r} /\ Todo' = refreshes'[r].manifest.pairs \ Passed(r)' /\ Keep' = Kept(r)'
    <2>1. \A s \in RefreshIds : HasManifest(s)' => s = r
      <3>. SUFFICES ASSUME NEW s \in RefreshIds, HasManifest(s)', s # r PROVE FALSE
        OBVIOUS
      <3>1. HasManifest(s)
        BY DEF Visits, HasManifest
      <3>. QED BY <1>1, <3>1, OneManifest
    <2>2. Current' = {r}
      BY <1>1, <2>1 DEF Current, Lease
    <2>3. refreshes'[r] \in Refreshes
      BY DEF SnapshotInv, RefreshInv, TypeOK
    <2>4. PICK S \in SUBSET Pairs : S = refreshes'[r].manifest.pairs
      BY <2>3 DEF Refreshes, Manifests
    <2>5. PICK c \in Nat : c = refreshes'[r].cursor
      BY <2>3 DEF Refreshes
    <2>6. \A p \in S : Position(p, S) \in Nat
      BY PositionBounds
    <2>7. Todo' = {p \in S : c < Position(p, S)}
      BY <2>2, <2>4, <2>5 DEF Todo
    <2>8. Passed(r)' = {p \in S : Position(p, S) <= c}
      BY <2>4, <2>5 DEF Passed
    <2>9. Todo' = S \ Passed(r)'
      BY <2>5, <2>6, <2>7, <2>8
    <2>10. Keep' = Kept(r)'
      BY <2>2 DEF Keep, Kept
    <2>. QED BY <2>2, <2>4, <2>9, <2>10
  <1>4. /\ refreshes[r].manifest.pairs \in SUBSET Pairs
        /\ batch \in SUBSET refreshes[r].manifest.pairs
        /\ Passed(r)' = Passed(r) \cup batch /\ batch \cap Passed(r) = {}
    BY BatchIsPassed
  <1>5. Todo' \subseteq Todo /\ Todo \ Todo' = batch /\ batch # {} /\ found \subseteq batch
    BY <1>2, <1>3, <1>4 DEF Visits
  <1>6. \A p \in Pairs : catalog[p] \in Products
    BY DEF SnapshotInv, RefreshInv, TypeOK
  <1>7. \A p \in found : catalog'[p].state = "active" /\ catalog'[p].seen = r
    <2>. SUFFICES ASSUME NEW p \in found
                  PROVE  catalog'[p].state = "active" /\ catalog'[p].seen = r
      OBVIOUS
    <2>1. catalog'[p] = Upsert(catalog[p], r) /\ r # None
      BY DEF Visits, RefreshIds, None
    <2>. QED BY <1>6, <2>1 DEF Upsert, Products
  <1>8. \A p \in batch \ found : catalog'[p].state # "active" /\ catalog'[p].seen = catalog[p].seen
    <2>. SUFFICES ASSUME NEW p \in batch \ found
                  PROVE  catalog'[p].state # "active" /\ catalog'[p].seen = catalog[p].seen
      OBVIOUS
    <2>1. catalog'[p] = MarkUnavailable(catalog[p])
      BY DEF Visits
    <2>. QED BY <1>6, <2>1 DEF MarkUnavailable, Products
  <1>9. \A p \in Pairs \ batch : catalog'[p] = catalog[p]
    BY <1>5 DEF Visits
  <1>10. Active' = (Active \ batch) \cup found
    BY <1>5, <1>7, <1>8, <1>9 DEF Active
  <1>11. \A p \in found : Rank(p)
    <2>1. \A p \in refreshes[r].manifest.pairs : Rank(p)
      BY <1>1 DEF SnapshotInv, ManifestSound, ManifestFit
    <2>. QED BY <1>4, <1>5, <2>1
  <1>12. Kept(r)' = Kept(r) \cup found
    <2>1. refreshes'[r].manifest = refreshes[r].manifest
      BY DEF Visits
    <2>2. ASSUME NEW p \in Pairs PROVE p \in Kept(r)' <=> p \in Kept(r) \cup found
      <3>1. CASE p \in found
        <4>1. catalog'[p].seen = r /\ Rank(p)
          BY <1>7, <1>11, <3>1
        <4>. QED BY <3>1, <4>1 DEF Kept, Rank
      <3>2. CASE p \notin found
        <4>1. catalog'[p].seen = catalog[p].seen
          BY <1>8, <1>9, <3>2
        <4>. QED BY <2>1, <3>2, <4>1 DEF Kept, Rank
      <3>. QED BY <3>1, <3>2
    <2>3. Kept(r) \subseteq Pairs /\ Kept(r)' \subseteq Pairs
      BY DEF Kept
    <2>. QED BY <2>2, <2>3
  <1>13. Keep' = Keep \cup found
    BY <1>2, <1>3, <1>12
  <1>14. Open /\ Open'
    BY <1>2, <1>3 DEF Open
  <1>15. /\ Open /\ Todo' \subseteq Todo /\ Todo \ Todo' # {}
         /\ \E f \in SUBSET (Todo \ Todo') :
               /\ Keep' = Keep \cup f
               /\ Active' = (Active \ (Todo \ Todo')) \cup f
         /\ Open' = Open
    BY <1>5, <1>10, <1>13, <1>14
  <1>16. Snapshot!Visit
    BY <1>15 DEF Snapshot!Visit, Open, Todo, Keep
  <1>. QED BY <1>16 DEF Snapshot!Next

LEMMA CompleteMaps ==
    ASSUME SnapshotInv, SnapshotInv', NEW r \in RefreshIds, Completes(r)
    PROVE  Snapshot!Next
  <1>1. r \in Lease /\ HasManifest(r)
    BY DEF Completes
  <1>2. Current = {r} /\ Todo = refreshes[r].manifest.pairs \ Passed(r) /\ Keep = Kept(r)
    BY <1>1, CurrentIsOne
  <1>3. Open /\ Todo = {}
    BY <1>1, <1>2, AllPassed DEF Open, Completes
  <1>4. Current' = {}
    BY CompletesSound DEF Current, Lease
  <1>5. ~Open' /\ Todo' = {} /\ Keep' = {}
    BY <1>4 DEF Open, Todo, Keep
  <1>6. Active' = Active \cap Keep
    <2>1. \A p \in Pairs : catalog[p] \in Products
      BY DEF SnapshotInv, RefreshInv, TypeOK
    <2>2. ASSUME NEW p \in Pairs PROVE p \in Active' <=> p \in Active \cap Kept(r)
      <3>1. CASE p \in Active \ Kept(r)
        <4>1. catalog'[p] = [catalog[p] EXCEPT !.state = "retired"]
          BY <3>1 DEF Completes
        <4>. QED BY <2>1, <3>1, <4>1 DEF Active, Products
      <3>2. CASE p \notin Active \ Kept(r)
        <4>1. catalog'[p] = catalog[p]
          BY <3>2 DEF Completes
        <4>. QED BY <3>2, <4>1 DEF Active
      <3>. QED BY <3>1, <3>2
    <2>3. Active \subseteq Pairs /\ Active' \subseteq Pairs
      BY DEF Active
    <2>. QED BY <1>2, <2>2, <2>3
  <1>7. Snapshot!Complete
    BY <1>3, <1>5, <1>6 DEF Snapshot!Complete, Open, Todo, Keep
  <1>. QED BY <1>7 DEF Snapshot!Next

LEMMA InitMaps == Init => Snapshot!Init
  <1>. SUFFICES ASSUME Init PROVE Snapshot!Init
    OBVIOUS
  <1>1. Current = {}
    BY DEF Init, Current, Lease, Unused
  <1>2. ~Open /\ Todo = {} /\ Keep = {}
    BY <1>1, NoCurrent
  <1>. QED BY <1>2 DEF Snapshot!Init, Open, Todo, Keep, Active

LEMMA NextMaps ==
    SnapshotInv /\ SnapshotInv' /\ OneWorker /\ [Next]_vars => [Snapshot!Next]_(Snapshot!snapshotVars)
  <1>. SUFFICES ASSUME SnapshotInv, SnapshotInv', OneWorker, [Next]_vars PROVE Snapshot!Next
    OBVIOUS
  <1>. QED BY StepKinds, CalmMaps, StoreMaps, VisitMaps, CompleteMaps

-----------------------------------------------------------------------------
(* When one workflow at a time works on a refresh *)

(* Whoever works on a refresh, or is about to report that it could not      *)
(* start, is the owner its record names.  The record says failed under its  *)
(* hands only if another workflow's failure handler was late; with no third *)
(* workflow nobody is left then to take the refresh over.                   *)
Holds(w, r) ==
    \/ Works(w, r)
    \/ w \in Manual /\ caller[w] = "failing" /\ wf[w].refresh = r
AtMostTwo == \A u, v, w \in Workflows : u = v \/ v = w \/ u = w
Late(w) == AtMostTwo /\ \E y \in Workflows \ {w} : wf[y].phase \in {"fail", "ended"}
OwnerSound ==
    \A w \in Workflows, r \in RefreshIds : Holds(w, r) =>
        /\ refreshes[r].workflow = w
        /\ refreshes[r].status = "failed" => Late(w)

(* A start that raised did not start the workflow. *)
CallersIdle == \A m \in Manual : caller[m] \in {"starting", "failing"} => wf[m].phase = "off"

OwnerInv == SnapshotInv /\ CallersIdle /\ OwnerSound

(* No refresh is taken over before the failure handler of the workflow that *)
(* had it has returned.                                                     *)
HandlersOwn ==
    \A w \in Workflows : At(w, "fail") => refreshes[wf[w].refresh].workflow = w

LEMMA OwnersAreAlone == OwnerInv => OneWorker
  BY DEF OwnerInv, OwnerSound, OneWorker, Holds

(* A refresh somebody holds is not an unused record. *)
LEMMA HeldIsUsed ==
    ASSUME SnapshotInv, NEW w \in Workflows, NEW r \in RefreshIds, Holds(w, r)
    PROVE  refreshes[r].status # "unused"
  <1>1. CASE wf[w].phase \in Toiling /\ wf[w].refresh = r
    BY <1>1 DEF SnapshotInv, WorkerSound, Fit, Toiling, Acting
  <1>2. CASE w \in Manual /\ caller[w] = "starting" /\ wf[w].refresh = r
    BY <1>2 DEF SnapshotInv, WorkerSound, CallerFit, Lease, LeaseSound, Leased
  <1>3. CASE w \in Manual /\ caller[w] = "failing" /\ wf[w].refresh = r
    BY <1>3 DEF SnapshotInv, WorkerSound, CallerFit
  <1>. QED BY <1>1, <1>2, <1>3 DEF Holds, Works

(* A step after which a holder is the new owner of a record that is not     *)
(* failed, or held it before.                                               *)
Joins(v, s) == refreshes'[s].workflow = v /\ refreshes'[s].status # "failed"
Remains(v, s) ==
    /\ Holds(v, s)
    /\ refreshes'[s].workflow = refreshes[s].workflow
    /\ refreshes'[s].status = "failed" => refreshes[s].status = "failed" \/ Late(v)'

LEMMA OwnersStep ==
    ASSUME OwnerInv,
           \A v \in Workflows : wf[v].phase \in {"fail", "ended"} => wf'[v].phase \in {"fail", "ended"},
           \A v \in Workflows, s \in RefreshIds : Holds(v, s)' => Joins(v, s) \/ Remains(v, s)
    PROVE  OwnerSound'
  <1>. SUFFICES ASSUME NEW v \in Workflows, NEW s \in RefreshIds, Holds(v, s)'
                PROVE  refreshes'[s].workflow = v /\ (refreshes'[s].status = "failed" => Late(v)')
    BY DEF OwnerSound
  <1>1. CASE Joins(v, s)
    BY <1>1 DEF Joins
  <1>2. CASE Remains(v, s)
    <2>1. Late(v) => Late(v)'
      BY DEF Late
    <2>2. refreshes[s].workflow = v /\ (refreshes[s].status = "failed" => Late(v))
      BY <1>2 DEF OwnerInv, OwnerSound, Remains
    <2>. QED BY <1>2, <2>1, <2>2 DEF Remains
  <1>. QED BY <1>1, <1>2

(* Nobody but the workflow that moves gains or loses a refresh.             *)
LEMMA HoldersMove ==
    ASSUME OwnerInv, NEW w \in Workflows, NEW y, wf' = [wf EXCEPT ![w] = y], UNCHANGED caller,
           w \in Scheduled \/ wf[w].phase # "off"
    PROVE  /\ CallersIdle'
           /\ \A v \in Workflows \ {w}, s \in RefreshIds : Holds(v, s)' <=> Holds(v, s)
           /\ \A s \in RefreshIds : Holds(w, s)' => y.phase \in Toiling /\ y.refresh = s
           /\ \A v \in Workflows \ {w} : wf'[v] = wf[v]
           /\ wf'[w] = y
  <1>1. wf'[w] = y /\ \A v \in Workflows \ {w} : wf'[v] = wf[v]
    BY DEF OwnerInv, SnapshotInv, RefreshInv, TypeOK
  <1>2. w \in Manual => caller[w] \notin {"starting", "failing"}
    BY DEF OwnerInv, CallersIdle
  <1>3. CallersIdle'
    BY <1>1, <1>2 DEF CallersIdle, OwnerInv, Workflows
  <1>4. \A v \in Workflows \ {w}, s \in RefreshIds : Holds(v, s)' <=> Holds(v, s)
    BY <1>1 DEF Holds, Works
  <1>5. \A s \in RefreshIds : Holds(w, s)' => y.phase \in Toiling /\ y.refresh = s
    BY <1>1, <1>2 DEF Holds, Works
  <1>. QED BY <1>1, <1>3, <1>4, <1>5

(* A worker, or one that lost its claim, moves on with its refresh.         *)
LEMMA HolderMoves ==
    ASSUME OwnerInv, NEW w \in Workflows, NEW y, wf' = [wf EXCEPT ![w] = y], UNCHANGED caller,
           w \in Scheduled \/ wf[w].phase # "off",
           wf[w].phase \in {"fail", "ended"} => y.phase \in {"fail", "ended"},
           y.phase \in Toiling => wf[w].phase \in Toiling /\ y.refresh = wf[w].refresh,
           \A s \in RefreshIds :
               /\ refreshes'[s].workflow = refreshes[s].workflow
               /\ refreshes'[s].status = "failed" => refreshes[s].status = "failed"
    PROVE  CallersIdle' /\ OwnerSound'
  <1>0. \A s \in RefreshIds : Holds(w, s)' => Holds(w, s)
    <2>. SUFFICES ASSUME NEW s \in RefreshIds, Holds(w, s)' PROVE Holds(w, s)
      OBVIOUS
    <2>1. wf'[w] = y
      BY DEF OwnerInv, SnapshotInv, RefreshInv, TypeOK
    <2>2. w \in Manual => caller[w] \notin {"starting", "failing"}
      BY DEF OwnerInv, CallersIdle
    <2>. QED BY <2>1, <2>2 DEF Holds, Works
  <1>1. ASSUME NEW v \in Workflows, NEW s \in RefreshIds, Holds(v, s)'
        PROVE  Remains(v, s)
    <2>1. Holds(v, s)
      <3>1. CASE v = w
        BY <1>0, <1>1, <3>1
      <3>2. CASE v # w
        BY <1>1, <3>2, HoldersMove
      <3>. QED BY <3>1, <3>2
    <2>. QED BY <2>1 DEF Remains
  <1>2. \A v \in Workflows : wf[v].phase \in {"fail", "ended"} => wf'[v].phase \in {"fail", "ended"}
    BY HoldersMove
  <1>3. OwnerSound'
    BY <1>1, <1>2, OwnersStep
  <1>. QED BY <1>3, HoldersMove

(* A claim: nobody else holds the refresh that changes its owner.           *)
LEMMA ClaimAlone ==
    ASSUME OwnerInv, NEW x \in Workflows, wf[x].phase \in {"off", "claim"},
           NEW r \in RefreshIds, NEW owner \in BOOLEAN, Claim(x, r, owner)
    PROVE  /\ \A v \in Workflows \ {x}, s \in RefreshIds : Holds(v, s) =>
                  refreshes'[s] = refreshes[s]
           /\ owner => Joins(x, r)
  <1>1. owner => Joins(x, r)
    BY ClaimCalm, ZenonT(30) DEF OwnerInv, SnapshotInv, Joins
  <1>2. ASSUME NEW v \in Workflows \ {x}, NEW s \in RefreshIds, Holds(v, s)
        PROVE  refreshes'[s] = refreshes[s]
    <2>0. refreshes \in [RefreshIds -> Refreshes]
      BY DEF OwnerInv, SnapshotInv, RefreshInv, TypeOK
    <2>1. CASE s # r
      BY <2>0, <2>1 DEF Claim
    <2>2. CASE s = r
      <3>1. refreshes[r].status # "unused"
        BY <1>2, <2>2, HeldIsUsed DEF OwnerInv
      <3>2. refreshes[r].status # "failed"
        <4>. SUFFICES ASSUME refreshes[r].status = "failed" PROVE FALSE
          OBVIOUS
        <4>1. Late(v)
          BY <1>2, <2>2 DEF OwnerInv, OwnerSound
        <4>2. PICK z \in Workflows \ {v} : wf[z].phase \in {"fail", "ended"}
          BY <4>1 DEF Late
        <4>3. z # x
          BY <4>2
        <4>. QED BY <1>2, <4>1, <4>2, <4>3 DEF Late, AtMostTwo
      <3>. QED BY <2>2, <3>1, <3>2 DEF Claim
    <2>. QED BY <2>1, <2>2
  <1>. QED BY <1>1, <1>2

-----------------------------------------------------------------------------
(* The owner, action by action *)

LEMMA ClaimActivityOwns ==
    ASSUME OwnerInv, NEW w \in Workflows, ClaimActivity(w)
    PROVE  CallersIdle' /\ OwnerSound'
  <1>1. PICK r \in RefreshIds, owner \in BOOLEAN :
           /\ Claim(w, r, owner)
           /\ Report(w, IF owner THEN [Enter(wf[w], "discover") EXCEPT !.refresh = r]
                                 ELSE EndWith(wf[w], "done"))
    BY DEF ClaimActivity
  <1>2. wf[w].phase = "claim" /\ Sound(wf[w]) /\ wf[w] \in WorkflowStates /\ UNCHANGED caller
    BY WorkflowSound DEF ClaimActivity, At, OwnerInv, SnapshotInv
  <1>3. PICK y : /\ wf' = [wf EXCEPT ![w] = y]
                 /\ y.phase \in Toiling => owner /\ y.refresh = r
    <2>1. CASE wf' = [wf EXCEPT ![w] = Retry(wf[w])]
      <3>1. Retry(wf[w]).phase \in {"claim", "ended"}
        BY <1>2, RetryPhase DEF Restart
      <3>. QED BY <2>1, <3>1 DEF Toiling
    <2>2. CASE owner /\ wf' = [wf EXCEPT ![w] = [Enter(wf[w], "discover") EXCEPT !.refresh = r]]
      <3>1. [Enter(wf[w], "discover") EXCEPT !.refresh = r].refresh = r
        BY <1>2 DEF Enter, WorkflowStates
      <3>. QED BY <2>2, <3>1
    <2>3. CASE wf' = [wf EXCEPT ![w] = EndWith(wf[w], "done")]
      <3>1. EndWith(wf[w], "done").phase = "ended"
        BY <1>2 DEF EndWith, Enter, WorkflowStates
      <3>. QED BY <2>3, <3>1 DEF Toiling
    <2>. QED BY <1>1, <2>1, <2>2, <2>3 DEF Report
  <1>4. wf[w].phase # "off"
    BY <1>2
  <1>5. ASSUME NEW v \in Workflows, NEW s \in RefreshIds, Holds(v, s)'
        PROVE  Joins(v, s) \/ Remains(v, s)
    <2>1. CASE v = w
      <3>1. y.phase \in Toiling /\ y.refresh = s
        BY <1>2, <1>3, <1>4, <1>5, <2>1, HoldersMove
      <3>. QED BY <1>1, <1>2, <1>3, <2>1, <3>1, ClaimAlone
    <2>2. CASE v # w
      <3>1. Holds(v, s)
        BY <1>2, <1>3, <1>4, <1>5, <2>2, HoldersMove
      <3>2. refreshes'[s] = refreshes[s]
        BY <1>1, <1>2, <2>2, <3>1, ClaimAlone
      <3>. QED BY <3>1, <3>2 DEF Remains
    <2>. QED BY <2>1, <2>2
  <1>6. \A v \in Workflows : wf[v].phase \in {"fail", "ended"} => wf'[v].phase \in {"fail", "ended"}
    BY <1>2, <1>3, <1>4, HoldersMove
  <1>7. OwnerSound'
    BY <1>5, <1>6, OwnersStep
  <1>. QED BY <1>2, <1>3, <1>4, <1>7, HoldersMove

LEMMA RequestRefreshOwns ==
    ASSUME OwnerInv, NEW w \in Manual, RequestRefresh(w)
    PROVE  CallersIdle' /\ OwnerSound'
  <1>0. w \in Workflows
    BY DEF Workflows
  <1>1. PICK r \in RefreshIds, owner \in BOOLEAN :
           /\ Claim(w, r, owner)
           /\ caller' = [caller EXCEPT ![w] = IF owner THEN "starting" ELSE "gone"]
           /\ wf' = [wf EXCEPT ![w] = [@ EXCEPT !.refresh = IF owner THEN r ELSE None]]
    BY DEF RequestRefresh
  <1>2. wf[w].phase = "off" /\ wf[w] \in WorkflowStates
    BY <1>0, WorkflowSound DEF RequestRefresh, OwnerInv, SnapshotInv, RefreshInv, KnowsRefresh
  <1>3. PICK y : y = [wf[w] EXCEPT !.refresh = IF owner THEN r ELSE None]
    OBVIOUS
  <1>4. y.phase = "off" /\ (owner => y.refresh = r)
    BY <1>2, <1>3 DEF WorkflowStates
  <1>5. wf'[w] = y /\ \A v \in Workflows \ {w} : wf'[v] = wf[v]
    BY <1>0, <1>1, <1>3 DEF OwnerInv, SnapshotInv, RefreshInv, TypeOK
  <1>6. caller'[w] = (IF owner THEN "starting" ELSE "gone")
        /\ \A m \in Manual \ {w} : caller'[m] = caller[m]
    BY <1>1 DEF OwnerInv, SnapshotInv, RefreshInv, TypeOK
  <1>7. CallersIdle'
    BY <1>4, <1>5, <1>6 DEF CallersIdle, OwnerInv, Workflows
  <1>8. ASSUME NEW v \in Workflows, NEW s \in RefreshIds, Holds(v, s)'
        PROVE  Joins(v, s) \/ Remains(v, s)
    <2>1. CASE v = w
      <3>1. owner /\ y.refresh = s
        BY <1>4, <1>5, <1>6, <1>8, <2>1 DEF Holds, Works, Toiling
      <3>. QED BY <1>0, <1>1, <1>2, <1>4, <2>1, <3>1, ClaimAlone
    <2>2. CASE v # w
      <3>1. Holds(v, s)
        BY <1>5, <1>6, <1>8, <2>2 DEF Holds, Works
      <3>2. refreshes'[s] = refreshes[s]
        BY <1>0, <1>1, <1>2, <2>2, <3>1, ClaimAlone
      <3>. QED BY <3>1, <3>2 DEF Remains
    <2>. QED BY <2>1, <2>2
  <1>9. \A v \in Workflows : wf[v].phase \in {"fail", "ended"} => wf'[v].phase \in {"fail", "ended"}
    BY <1>2, <1>5
  <1>. QED BY <1>7, <1>8, <1>9, OwnersStep

LEMMA StartOwns ==
    ASSUME OwnerInv, ~UnknownStarts, NEW w \in Manual,
           StartWorkflow(w) \/ StartFails(w) \/ CallerDies(w)
    PROVE  CallersIdle' /\ OwnerSound'
  <1>0. w \in Workflows /\ UNCHANGED refreshes
    BY DEF Workflows, StartWorkflow, StartFails, CallerDies
  <1>1. caller[w] \in {"starting", "failing"} /\ wf[w].phase = "off" /\ wf[w] \in WorkflowStates
    BY <1>0, WorkflowSound
    DEF StartWorkflow, StartFails, CallerDies, OwnerInv, CallersIdle, SnapshotInv
  <1>2. PICK c : /\ caller' = [caller EXCEPT ![w] = c]
                 /\ \/ c \in {"failing", "gone"} /\ UNCHANGED wf
                    \/ /\ c = "gone" /\ caller[w] = "starting"
                       /\ wf' = [wf EXCEPT ![w] = Enter(wf[w], "discover")]
    BY DEF StartWorkflow, StartFails, CallerDies
  <1>3. caller'[w] = c /\ \A m \in Manual \ {w} : caller'[m] = caller[m]
    BY <1>2 DEF OwnerInv, SnapshotInv, RefreshInv, TypeOK
  <1>4. \A v \in Workflows \ {w} : wf'[v] = wf[v]
    BY <1>2 DEF OwnerInv, SnapshotInv, RefreshInv, TypeOK
  <1>5. \/ wf'[w] = wf[w]
        \/ c = "gone" /\ caller[w] = "starting" /\ wf'[w].refresh = wf[w].refresh
    <2>1. Enter(wf[w], "discover").refresh = wf[w].refresh
      BY <1>1 DEF Enter, WorkflowStates
    <2>. QED BY <1>0, <1>2, <2>1 DEF OwnerInv, SnapshotInv, RefreshInv, TypeOK
  <1>6. CallersIdle'
    BY <1>1, <1>2, <1>3, <1>4, <1>5 DEF CallersIdle, OwnerInv, Workflows
  <1>7. ASSUME NEW v \in Workflows, NEW s \in RefreshIds, Holds(v, s)'
        PROVE  Remains(v, s)
    <2>1. CASE v = w
      <3>1. Holds(w, s)
        BY <1>1, <1>2, <1>3, <1>5, <1>7, <2>1 DEF Holds, Works, Toiling
      <3>. QED BY <1>0, <2>1, <3>1 DEF Remains
    <2>2. CASE v # w
      <3>1. Holds(v, s)
        BY <1>3, <1>4, <1>7, <2>2 DEF Holds, Works
      <3>. QED BY <1>0, <3>1 DEF Remains
    <2>. QED BY <2>1, <2>2
  <1>8. \A v \in Workflows : wf[v].phase \in {"fail", "ended"} => wf'[v].phase \in {"fail", "ended"}
    BY <1>1, <1>4
  <1>. QED BY <1>6, <1>7, <1>8, OwnersStep

LEMMA FailWrites ==
    ASSUME RefreshInv, NEW r \in RefreshIds, Fail(r)
    PROVE  /\ \A s \in RefreshIds \ {r} : refreshes'[s] = refreshes[s]
           /\ refreshes'[r].workflow = refreshes[r].workflow
  <1>1. refreshes \in [RefreshIds -> Refreshes] /\ refreshes[r] \in Refreshes
    BY DEF RefreshInv, TypeOK
  <1>2. PICK z : z = [refreshes[r] EXCEPT !.status = "failed"]
    OBVIOUS
  <1>3. z.workflow = refreshes[r].workflow
    BY <1>1, <1>2 DEF Refreshes
  <1>4. refreshes' = refreshes \/ refreshes' = [refreshes EXCEPT ![r] = z]
    BY <1>2 DEF Fail
  <1>. QED BY <1>1, <1>3, <1>4

LEMMA FailStartOwns ==
    ASSUME OwnerInv, NEW w \in Manual, FailStart(w)
    PROVE  CallersIdle' /\ OwnerSound'
  <1>0. w \in Workflows /\ caller[w] = "failing" /\ UNCHANGED wf
    BY DEF Workflows, FailStart
  <1>1. PICK r \in RefreshIds : r = wf[w].refresh
    BY <1>0 DEF OwnerInv, SnapshotInv, RefreshInv, KnowsRefresh
  <1>2. wf[w].phase = "off" /\ Holds(w, r) /\ refreshes[r].workflow = w
    BY <1>0, <1>1 DEF OwnerInv, CallersIdle, OwnerSound, Holds
  <1>3. caller'[w] = "gone" /\ \A m \in Manual \ {w} : caller'[m] = caller[m]
    BY DEF FailStart, OwnerInv, SnapshotInv, RefreshInv, TypeOK
  <1>4. \A s \in RefreshIds \ {r} : refreshes'[s] = refreshes[s]
    BY <1>1, FailWrites DEF FailStart, OwnerInv, SnapshotInv
  <1>5. CallersIdle'
    BY <1>0, <1>3 DEF CallersIdle, OwnerInv
  <1>6. ASSUME NEW v \in Workflows, NEW s \in RefreshIds, Holds(v, s)'
        PROVE  Remains(v, s)
    <2>1. v # w
      BY <1>0, <1>2, <1>3, <1>6 DEF Holds, Works, Toiling
    <2>2. Holds(v, s)
      BY <1>0, <1>3, <1>6, <2>1 DEF Holds, Works
    <2>3. s # r
      BY <1>2, <2>1, <2>2 DEF OwnerInv, OwnerSound
    <2>. QED BY <1>4, <2>2, <2>3 DEF Remains
  <1>. QED BY <1>0, <1>5, <1>6, OwnersStep

(* The failure handler: what it marks as failed belongs to its workflow, or *)
(* its workflow was late.                                                   *)
LEMMA FailRefreshOwns ==
    ASSUME OwnerInv, AtMostTwo \/ HandlersOwn, NEW w \in Workflows,
           FailRefresh(w) \/ FailRefreshResultLost(w)
    PROVE  CallersIdle' /\ OwnerSound'
  <1>0. wf[w].phase = "fail" /\ wf[w] \in WorkflowStates /\ UNCHANGED caller
    BY WorkflowSound DEF FailRefresh, FailRefreshResultLost, At, OwnerInv, SnapshotInv
  <1>1. PICK r \in RefreshIds : r = wf[w].refresh
    BY <1>0 DEF OwnerInv, SnapshotInv, RefreshInv, KnowsRefresh, Acting
  <1>2. /\ \A s \in RefreshIds \ {r} : refreshes'[s] = refreshes[s]
        /\ refreshes'[r].workflow = refreshes[r].workflow
    BY <1>1, FailWrites DEF FailRefresh, FailRefreshResultLost, OwnerInv, SnapshotInv
  <1>3. PICK y : wf' = [wf EXCEPT ![w] = y] /\ y.phase \in {"fail", "ended"}
    <2>1. EndWith(wf[w], "failed").phase = "ended"
      BY <1>0 DEF EndWith, Enter, WorkflowStates
    <2>2. wf = [wf EXCEPT ![w] = wf[w]]
      BY DEF OwnerInv, SnapshotInv, RefreshInv, TypeOK
    <2>. QED BY <1>0, <2>1, <2>2 DEF FailRefresh, FailRefreshResultLost
  <1>4. wf[w].phase # "off"
    BY <1>0
  <1>5. wf'[w].phase \in {"fail", "ended"}
    BY <1>0, <1>3, <1>4, HoldersMove
  <1>6. ASSUME NEW v \in Workflows, NEW s \in RefreshIds, Holds(v, s)'
        PROVE  Remains(v, s)
    <2>1. v # w
      BY <1>0, <1>3, <1>4, <1>6, HoldersMove DEF Toiling
    <2>2. Holds(v, s)
      BY <1>0, <1>3, <1>4, <1>6, <2>1, HoldersMove
    <2>3. refreshes[s].workflow = v
      BY <2>2 DEF OwnerInv, OwnerSound
    <2>4. CASE s # r
      BY <1>2, <2>2, <2>4 DEF Remains
    <2>5. CASE s = r
      <3>1. AtMostTwo
        BY <1>0, <1>1, <2>1, <2>3, <2>5 DEF HandlersOwn, At
      <3>2. Late(v)'
        BY <1>5, <2>1, <3>1 DEF Late, AtMostTwo
      <3>. QED BY <1>2, <2>2, <2>5, <3>2 DEF Remains
    <2>. QED BY <2>4, <2>5
  <1>7. \A v \in Workflows : wf[v].phase \in {"fail", "ended"} => wf'[v].phase \in {"fail", "ended"}
    BY <1>0, <1>3, <1>4, <1>5, HoldersMove
  <1>8. OwnerSound'
    BY <1>6, <1>7, OwnersStep
  <1>. QED BY <1>0, <1>3, <1>4, <1>8, HoldersMove

(* What a worker writes to its record is neither its owner nor a failure.   *)
LEMMA WorkerWrites ==
    ASSUME OwnerInv, NEW w \in Workflows,
           \/ Discover(w) \/ StoreManifest(w) \/ ReadBatch(w) \/ CommitBatch(w)
           \/ Finalize(w) \/ Curate(w)
    PROVE  \A s \in RefreshIds :
               /\ refreshes'[s].workflow = refreshes[s].workflow
               /\ refreshes'[s].status = "failed" => refreshes[s].status = "failed"
  <1>1. wf[w].phase \in Acting
    BY DEF Discover, StoreManifest, ReadBatch, CommitBatch, Finalize, Curate, At, Acting
  <1>2. PICK r \in RefreshIds : r = wf[w].refresh
    BY <1>1 DEF OwnerInv, SnapshotInv, RefreshInv, KnowsRefresh
  <1>3. refreshes \in [RefreshIds -> Refreshes] /\ refreshes[r] \in Refreshes
    BY DEF OwnerInv, SnapshotInv, RefreshInv, TypeOK
  <1>4. CASE UNCHANGED refreshes
    BY <1>4
  <1>5. ASSUME NEW z, refreshes' = [refreshes EXCEPT ![r] = z],
               z.workflow = refreshes[r].workflow, z.status # "failed"
        PROVE  \A s \in RefreshIds :
                   /\ refreshes'[s].workflow = refreshes[s].workflow
                   /\ refreshes'[s].status = "failed" => refreshes[s].status = "failed"
    BY <1>3, <1>5
  <1>6. CASE Discover(w)
    <2>1. PICK z : z = [refreshes[r] EXCEPT !.status = "running"]
      OBVIOUS
    <2>2. z.workflow = refreshes[r].workflow /\ z.status # "failed"
      BY <1>3, <2>1 DEF Refreshes
    <2>3. refreshes' = [refreshes EXCEPT ![r] = z] \/ UNCHANGED refreshes
      BY <1>2, <1>6, <2>1 DEF Discover
    <2>. QED BY <1>4, <1>5, <2>2, <2>3
  <1>7. CASE StoreManifest(w)
    <2>1. PICK manifest \in Discovered :
             refreshes' = [refreshes EXCEPT ![r] = [refreshes[r] EXCEPT
                 !.status = "running", !.manifest = manifest,
                 !.total = Cardinality(manifest.pairs),
                 !.unresolved = refreshes[r].unresolved \cup manifest.providers]]
      BY <1>2, <1>7 DEF StoreManifest
    <2>2. PICK z : z = [refreshes[r] EXCEPT
                 !.status = "running", !.manifest = manifest,
                 !.total = Cardinality(manifest.pairs),
                 !.unresolved = refreshes[r].unresolved \cup manifest.providers]
      OBVIOUS
    <2>3. z.workflow = refreshes[r].workflow /\ z.status # "failed"
      BY <1>3, <2>2 DEF Refreshes
    <2>. QED BY <1>5, <2>1, <2>2, <2>3
  <1>8. CASE CommitBatch(w)
    <2>1. PICK c : refreshes' = [refreshes EXCEPT ![r] = [refreshes[r] EXCEPT
                      !.status = "running", !.cursor = c]]
      BY <1>2, <1>8 DEF CommitBatch
    <2>2. PICK z : z = [refreshes[r] EXCEPT !.status = "running", !.cursor = c]
      OBVIOUS
    <2>3. z.workflow = refreshes[r].workflow /\ z.status # "failed"
      BY <1>3, <2>2 DEF Refreshes
    <2>. QED BY <1>5, <2>1, <2>2, <2>3
  <1>9. CASE Finalize(w)
    <2>1. PICK z : z = [refreshes[r] EXCEPT !.status = "completed", !.lease = FALSE,
                            !.manifest = NoManifest, !.cursor = refreshes[r].total]
      OBVIOUS
    <2>2. z.workflow = refreshes[r].workflow /\ z.status # "failed"
      BY <1>3, <2>1 DEF Refreshes
    <2>3. refreshes' = [refreshes EXCEPT ![r] = z] \/ UNCHANGED refreshes
      BY <1>2, <1>9, <2>1 DEF Finalize, Complete
    <2>. QED BY <1>4, <1>5, <2>2, <2>3
  <1>10. ASSUME ReadBatch(w) PROVE UNCHANGED refreshes
    <2>1. UNCHANGED <<offered, catalog, curated, refreshes, caller>>
      BY <1>10 DEF ReadBatch
    <2>. QED BY <2>1
  <1>11. ASSUME Curate(w) PROVE UNCHANGED refreshes
    BY <1>11 DEF Curate
  <1>. QED BY <1>4, <1>6, <1>7, <1>8, <1>9, <1>10, <1>11

LEMMA ReadBatchKeeps ==
    ASSUME OwnerInv, NEW w \in Workflows, ReadBatch(w)
    PROVE  \E y : wf' = [wf EXCEPT ![w] = y] /\ y.refresh = wf[w].refresh
  <1>1. wf[w].phase = "batch" /\ wf[w] \in WorkflowStates /\ Sound(wf[w])
    BY WorkflowSound DEF ReadBatch, At, OwnerInv, SnapshotInv
  <1>2. PICK r, b, c, z :
           /\ z = [wf[w] EXCEPT !.phase = "batching", !.batch = b, !.start = c,
                                !.found = b \cap offered]
           /\ wf' \in {[wf EXCEPT ![w] = Retry(wf[w])], [wf EXCEPT ![w] = Loop(wf[w], r)],
                       [wf EXCEPT ![w] = z]}
    BY DEF ReadBatch, Report
  <1>3. z.refresh = wf[w].refresh
    BY <1>1, <1>2 DEF WorkflowStates
  <1>4. Retry(wf[w]).refresh = wf[w].refresh
    BY <1>1, RetryPhase DEF Acting
  <1>5. Loop(wf[w], r).refresh = wf[w].refresh
    BY <1>1, LoopPhase
  <1>6. CASE wf' = [wf EXCEPT ![w] = Retry(wf[w])]
    BY <1>4, <1>6
  <1>7. CASE wf' = [wf EXCEPT ![w] = Loop(wf[w], r)]
    BY <1>5, <1>7
  <1>8. CASE wf' = [wf EXCEPT ![w] = z]
    BY <1>3, <1>8
  <1>. QED BY <1>2, <1>6, <1>7, <1>8

(* A worker's step keeps its refresh or lets go of it.                      *)
LEMMA WorkerOwns ==
    ASSUME OwnerInv, NEW w \in Workflows,
           \/ Discover(w) \/ StoreManifest(w) \/ ReadBatch(w) \/ CommitBatch(w)
           \/ Finalize(w) \/ Curate(w)
    PROVE  CallersIdle' /\ OwnerSound'
  <1>1. wf[w].phase \in Toiling /\ wf[w] \in WorkflowStates /\ Sound(wf[w]) /\ UNCHANGED caller
    BY WorkflowSound DEF Discover, StoreManifest, ReadBatch, CommitBatch, Finalize, Curate, At,
       Toiling, OwnerInv, SnapshotInv
  <1>2. PICK y : wf' = [wf EXCEPT ![w] = y] /\ y.refresh = wf[w].refresh
    <2>1. Retry(wf[w]).refresh = wf[w].refresh
      BY <1>1, RetryPhase DEF Toiling, Acting
    <2>2. \A refresh : Loop(wf[w], refresh).refresh = wf[w].refresh
      BY <1>1, LoopPhase
    <2>3. EndWith(wf[w], "done").refresh = wf[w].refresh
      BY <1>1 DEF EndWith, Enter, WorkflowStates
    <2>4. \A phase : [wf[w] EXCEPT !.phase = phase].refresh = wf[w].refresh
      BY <1>1 DEF WorkflowStates
    <2>5. CASE Discover(w)
      BY <2>1, <2>2, <2>4, <2>5 DEF Discover, Report
    <2>6. CASE StoreManifest(w)
      BY <2>1, <2>2, <2>6 DEF StoreManifest, Report
    <2>7. CASE ReadBatch(w)
      BY <2>7, ReadBatchKeeps
    <2>8. CASE CommitBatch(w)
      BY <2>1, <2>2, <2>8 DEF CommitBatch, Report
    <2>9. CASE Finalize(w)
      BY <2>1, <2>4, <2>9 DEF Finalize
    <2>10. CASE Curate(w)
      BY <2>1, <2>3, <2>10 DEF Curate, Report
    <2>. QED BY <2>5, <2>6, <2>7, <2>8, <2>9, <2>10
  <1>3. wf[w].phase # "off" /\ wf[w].phase \notin {"fail", "ended"}
    BY <1>1 DEF Toiling
  <1>. QED BY <1>1, <1>2, <1>3, WorkerWrites, HolderMoves

LEMMA AttemptDiesOwns ==
    ASSUME OwnerInv, NEW w \in Workflows, AttemptDies(w)
    PROVE  CallersIdle' /\ OwnerSound'
  <1>1. wf[w].phase \in Toiling \cup {"claim"} /\ Sound(wf[w]) /\ UNCHANGED <<refreshes, caller>>
    BY WorkflowSound DEF AttemptDies, Toiling, OwnerInv, SnapshotInv
  <1>2. PICK y : (y = Retry(wf[w]) \/ y = GiveUp(wf[w])) /\ wf' = [wf EXCEPT ![w] = y]
    BY DEF AttemptDies
  <1>3. y.refresh = wf[w].refresh /\ y.phase \in {Restart(wf[w].phase), GiveUp(wf[w]).phase}
        /\ GiveUp(wf[w]).phase \in {"fail", "ended"}
    BY <1>1, <1>2, RetryPhase DEF Toiling, Acting
  <1>4. y.phase \in Toiling => wf[w].phase \in Toiling
    BY <1>1, <1>3 DEF Restart, Toiling
  <1>5. wf[w].phase # "off" /\ wf[w].phase \notin {"fail", "ended"}
    BY <1>1 DEF Toiling
  <1>. QED BY <1>1, <1>2, <1>3, <1>4, <1>5, HolderMoves

LEMMA FireOwns ==
    ASSUME OwnerInv, NEW w \in Scheduled, Fire(w)
    PROVE  CallersIdle' /\ OwnerSound'
  <1>1. w \in Workflows /\ wf[w].phase = "off" /\ wf[w] \in WorkflowStates
        /\ UNCHANGED <<refreshes, caller>>
    BY WorkflowSound DEF Fire, At, Workflows, OwnerInv, SnapshotInv
  <1>2. PICK y : y = Enter(wf[w], "claim")
    OBVIOUS
  <1>3. wf' = [wf EXCEPT ![w] = y] /\ y.phase = "claim"
    BY <1>1, <1>2 DEF Fire, Enter, WorkflowStates
  <1>. QED BY <1>1, <1>3, HolderMoves DEF Toiling

LEMMA UnchangedOwns ==
    ASSUME OwnerInv, UNCHANGED <<refreshes, wf, caller>>
    PROVE  CallersIdle' /\ OwnerSound'
  <1>1. CallersIdle'
    BY DEF OwnerInv, CallersIdle
  <1>2. ASSUME NEW v \in Workflows, NEW s \in RefreshIds, Holds(v, s)'
        PROVE  Remains(v, s)
    BY <1>2 DEF Remains, Holds, Works
  <1>. QED BY <1>1, <1>2, OwnersStep

LEMMA OwnerNext ==
    ASSUME ~UnknownStarts, OwnerInv, AtMostTwo \/ HandlersOwn, [Next]_vars
    PROVE  OwnerInv'
  <1>1. SnapshotInv'
    BY OwnersAreAlone, SnapshotNext DEF OwnerInv
  <1>2. ASSUME NEW w \in Workflows, Working(w) PROVE CallersIdle' /\ OwnerSound'
    BY <1>2, ClaimActivityOwns, WorkerOwns DEF Working
  <1>3. ASSUME NEW w \in Workflows, FailRefresh(w) \/ FailRefreshResultLost(w) \/ AttemptDies(w)
        PROVE  CallersIdle' /\ OwnerSound'
    BY <1>3, FailRefreshOwns, AttemptDiesOwns
  <1>4. ASSUME NEW w \in Scheduled, Fire(w) PROVE CallersIdle' /\ OwnerSound'
    BY <1>4, FireOwns
  <1>5. ASSUME NEW w \in Manual,
               \/ RequestRefresh(w) \/ StartWorkflow(w) \/ StartFails(w) \/ CallerDies(w)
               \/ FailStart(w)
        PROVE  CallersIdle' /\ OwnerSound'
    BY <1>5, RequestRefreshOwns, StartOwns, FailStartOwns
  <1>6. ASSUME \/ \E p \in Singles : RefreshProduct(p)
               \/ \E p \in Endangered : Withdraw(p)
               \/ RecoverProviders \/ CurateCommand \/ UNCHANGED vars
        PROVE  CallersIdle' /\ OwnerSound'
    <2>1. UNCHANGED <<refreshes, wf, caller>>
      BY <1>6 DEF RefreshProduct, Withdraw, RecoverProviders, CurateCommand, vars
    <2>. QED BY <2>1, UnchangedOwns
  <1>7. CallersIdle' /\ OwnerSound'
    BY <1>2, <1>3, <1>4, <1>5, <1>6 DEF Next
  <1>. QED BY <1>1, <1>7 DEF OwnerInv

LEMMA OwnerInit == Init => OwnerInv
  <1>. SUFFICES ASSUME Init PROVE OwnerInv
    OBVIOUS
  <1>1. \A w \in Workflows : wf[w].phase = "off"
    BY DEF Init, Off
  <1>2. \A m \in Manual : caller[m] = "off"
    BY DEF Init
  <1>3. CallersIdle /\ OwnerSound
    BY <1>1, <1>2 DEF CallersIdle, OwnerSound, Holds, Works, Toiling
  <1>. QED BY <1>3, SnapshotInit DEF OwnerInv

-----------------------------------------------------------------------------
(* The theorems about the snapshot *)

LEMMA SnapshotHolds == Spec /\ []OneWorker => []SnapshotInv
  BY SnapshotInit, SnapshotNext, PTL DEF Spec

(* A refresh that one workflow at a time works on implements the plain      *)
(* snapshot: every offering of the manifest is visited once, and nothing is *)
(* retired before all are.                                                  *)
THEOREM RefreshImplements == Spec /\ []OneWorker => ImplementsSnapshot
  BY InitMaps, NextMaps, SnapshotHolds, PTL DEF Spec, ImplementsSnapshot, Snapshot!Spec

(* It keeps every ranked product that Printify goes on offering.            *)
THEOREM OfferedStay == Spec /\ []OneWorker => OfferedStaysActive
  <1>1. SnapshotInv /\ OneWorker /\ [Next]_vars =>
           [\A p \in Pairs : p \in Active /\ p \in offered /\ Rank(p) => p \in Active']_vars
    BY OfferedStays
  <1>. QED BY <1>1, SnapshotHolds, PTL DEF Spec, OfferedStaysActive

(* It keeps its manifest and never takes its cursor back.                   *)
THEOREM ProgressKept == Spec /\ []OneWorker => ProgressIsKept
  <1>1. SnapshotInv /\ OneWorker /\ [Next]_vars =>
           [\A r \in Current : r \in Lease' =>
               /\ refreshes'[r].manifest = refreshes[r].manifest
               /\ refreshes'[r].cursor >= refreshes[r].cursor]_vars
    BY ProgressStays
  <1>. QED BY <1>1, SnapshotHolds, PTL DEF Spec, ProgressIsKept

(* Once completed it stays so.                                              *)
THEOREM CompletedStaysFinal == Spec /\ []OneWorker => CompletedFinal
  <1>1. SnapshotInv /\ OneWorker /\ [Next]_vars =>
           [\A r \in RefreshIds : refreshes[r].status = "completed" =>
               refreshes'[r].status = "completed"]_vars
    BY CompletedStays
  <1>. QED BY <1>1, SnapshotHolds, PTL DEF Spec, CompletedFinal

(* Who takes over: if a start that raised never started its workflow, the   *)
(* claim leaves a refresh to one workflow as long as no failure handler     *)
(* reports the failure of a refresh that has another owner by then.         *)
THEOREM OwnersWorkAlone ==
    ASSUME ~UnknownStarts
    PROVE  Spec /\ []HandlersOwn => []OneWorker
  <1>1. OwnerInv /\ HandlersOwn /\ [Next]_vars => OwnerInv'
    BY OwnerNext
  <1>. QED BY <1>1, OwnerInit, OwnersAreAlone, PTL DEF Spec

(* With two workflows a late report comes from the only other workflow.     *)
THEOREM TwoWorkAlone ==
    ASSUME ~UnknownStarts, AtMostTwo
    PROVE  Spec => []OneWorker
  <1>1. OwnerInv /\ [Next]_vars => OwnerInv'
    BY OwnerNext
  <1>. QED BY <1>1, OwnerInit, OwnersAreAlone, PTL DEF Spec

(* Two workflows, of which one may be started by hand, any number of        *)
(* offerings, refreshes, attempts and batches: everything the runs check.   *)
THEOREM TwoWorkflows ==
    ASSUME ~UnknownStarts, AtMostTwo
    PROVE  Spec => ImplementsSnapshot /\ OfferedStaysActive /\ ProgressIsKept /\ CompletedFinal
  BY TwoWorkAlone, RefreshImplements, OfferedStay, ProgressKept, CompletedStaysFinal, PTL
-----------------------------------------------------------------------------
(* Curation is due after a completion, whoever works on the refresh *)

(* As long as a curated product is retired, some workflow will curate again *)
(* or says that it failed.  Only a workflow that ended has a result.        *)
Pending(x) == x.phase \in {"finalize", "curating", "fail"} \/ x.result = "failed"
Retired == {p \in Pairs : catalog[p].state = "retired"}
CurationDue == curated \cap Retired # {} => \E w \in Workflows : Pending(wf[w])
ResultSound ==
    /\ \A w \in Workflows : wf[w].result # "none" => wf[w].phase = "ended"
    /\ \A m \in Manual : caller[m] = "starting" => wf[m].phase = "off"

DutyInv == RefreshInv /\ ResultSound /\ CurationDue

(* A step of w to the state y that keeps what is due. *)
Ended(y) == y.result # "none" => y.phase = "ended"
Faithful(w, y) == Ended(y) /\ (Pending(wf[w]) => Pending(y))

LEMMA EnterEnds ==
    ASSUME NEW x \in WorkflowStates, NEW phase, NEW result
    PROVE  /\ Enter(x, phase).phase = phase /\ Enter(x, phase).result = x.result
           /\ EndWith(x, result).phase = "ended" /\ EndWith(x, result).result = result
  <1>1. PICK y : y = Enter(x, "ended")
    OBVIOUS
  <1>2. y \in [phase: {"ended"}, refresh: RefreshIds \cup {None}, tries: {0}, start: {0},
               batch: {{}}, found: {{}}, result: {"none", "done", "failed"}]
    BY <1>1 DEF Enter, WorkflowStates
  <1>3. EndWith(x, result) = [y EXCEPT !.result = result]
    BY <1>1 DEF EndWith
  <1>4. EndWith(x, result).phase = "ended" /\ EndWith(x, result).result = result
    BY <1>2, <1>3
  <1>5. Enter(x, phase).phase = phase /\ Enter(x, phase).result = x.result
    BY DEF Enter, WorkflowStates
  <1>. QED BY <1>4, <1>5

(* A lost attempt, repeated or given up. *)
LEMMA LostFaithful ==
    ASSUME DutyInv, NEW w \in Workflows, wf[w].phase \in Acting \cup {"claim"},
           NEW y, y = Retry(wf[w]) \/ y = GiveUp(wf[w])
    PROVE  Faithful(w, y)
  <1>. DEFINE x == wf[w]
  <1>1. x \in WorkflowStates /\ Sound(x) /\ x.result = "none"
    <2>1. x \in WorkflowStates /\ Sound(x)
      BY WorkflowSound DEF DutyInv
    <2>2. x.phase # "ended"
      BY DEF Acting
    <2>. QED BY <2>1, <2>2 DEF DutyInv, ResultSound
  <1>2. GiveUp(x).phase = (IF x.phase = "claim" THEN "ended" ELSE "fail")
        /\ GiveUp(x).result = (IF x.phase = "claim" THEN "failed" ELSE "none")
    BY <1>1, EnterEnds DEF GiveUp
  <1>3. CASE y = GiveUp(x)
    BY <1>2, <1>3 DEF Faithful, Ended, Pending
  <1>4. CASE y = Retry(x) /\ x.tries + 1 < MaxTries
    <2>1. PICK z : z = Enter(x, Restart(x.phase))
      OBVIOUS
    <2>2. z.phase = Restart(x.phase) /\ z.result = "none"
      BY <1>1, <2>1, EnterEnds
    <2>3. y = [z EXCEPT !.tries = x.tries + 1]
      BY <1>4, <2>1 DEF Retry
    <2>4. z = [phase |-> z.phase, refresh |-> x.refresh, tries |-> 0, start |-> 0,
               batch |-> {}, found |-> {}, result |-> z.result]
      BY <1>1, <2>1 DEF Enter, WorkflowStates
    <2>5. y.phase = Restart(x.phase) /\ y.result = "none"
      BY <2>2, <2>3, <2>4
    <2>. QED BY <1>1, <2>5 DEF Faithful, Ended, Pending, Restart
  <1>5. CASE y = Retry(x) /\ ~(x.tries + 1 < MaxTries)
    BY <1>3, <1>5 DEF Retry
  <1>. QED BY <1>3, <1>4, <1>5

(* Retired products that stay curated are still due. *)
LEMMA DueStays ==
    ASSUME DutyInv, NEW w \in Workflows, NEW y, Faithful(w, y), wf' = [wf EXCEPT ![w] = y],
           w \in Scheduled \/ wf[w].phase # "off", UNCHANGED <<curated, caller>>,
           Retired' \subseteq Retired
    PROVE  ResultSound' /\ CurationDue'
  <1>1. wf'[w] = y /\ \A v \in Workflows \ {w} : wf'[v] = wf[v]
    BY DEF DutyInv, RefreshInv, TypeOK
  <1>2. w \in Manual => caller[w] # "starting"
    BY DEF DutyInv, ResultSound
  <1>3. ResultSound'
    BY <1>1, <1>2 DEF DutyInv, ResultSound, Faithful, Ended, Workflows
  <1>4. CurationDue'
    BY <1>1 DEF DutyInv, CurationDue, Faithful
  <1>. QED BY <1>3, <1>4

(* After a curation nothing is due. *)
LEMMA CurationSettles ==
    ASSUME catalog' = catalog, curated' = Best
    PROVE  CurationDue'
  <1>1. \A p \in Best : catalog'[p].state = "active"
    BY DEF Best, Active
  <1>. QED BY <1>1 DEF CurationDue, Retired

LEMMA ReportDue ==
    ASSUME DutyInv, NEW w \in Workflows, wf[w].phase \in Acting \cup {"claim"},
           NEW next, Faithful(w, next), Report(w, next), UNCHANGED <<curated, caller>>,
           Retired' \subseteq Retired
    PROVE  ResultSound' /\ CurationDue'
  <1>0. wf[w].phase # "off"
    BY DEF Acting
  <1>1. CASE wf' = [wf EXCEPT ![w] = next]
    BY <1>0, <1>1, DueStays
  <1>2. CASE wf' = [wf EXCEPT ![w] = Retry(wf[w])]
    <2>1. PICK y : y = Retry(wf[w])
      OBVIOUS
    <2>2. Faithful(w, y)
      BY <2>1, LostFaithful
    <2>3. wf' = [wf EXCEPT ![w] = y]
      BY <1>2, <2>1
    <2>. QED BY <1>0, <2>2, <2>3, DueStays
  <1>. QED BY <1>1, <1>2 DEF Report

-----------------------------------------------------------------------------
(* What is due, action by action *)

LEMMA RunningResult ==
    ASSUME DutyInv, NEW w \in Workflows, wf[w].phase # "ended"
    PROVE  wf[w] \in WorkflowStates /\ wf[w].result = "none"
  <1>1. wf[w] \in WorkflowStates
    BY WorkflowSound DEF DutyInv
  <1>. QED BY <1>1 DEF DutyInv, ResultSound

LEMMA ClaimActivityDue ==
    ASSUME DutyInv, NEW w \in Workflows, ClaimActivity(w)
    PROVE  ResultSound' /\ CurationDue'
  <1>1. PICK r \in RefreshIds, owner \in BOOLEAN :
           Report(w, IF owner THEN [Enter(wf[w], "discover") EXCEPT !.refresh = r]
                              ELSE EndWith(wf[w], "done"))
    BY DEF ClaimActivity
  <1>2. wf[w].phase = "claim" /\ UNCHANGED <<catalog, curated, caller>>
    BY DEF ClaimActivity, At
  <1>3. wf[w] \in WorkflowStates /\ wf[w].result = "none"
    BY <1>2, RunningResult
  <1>4. PICK next : /\ next = IF owner THEN [Enter(wf[w], "discover") EXCEPT !.refresh = r]
                                       ELSE EndWith(wf[w], "done")
                    /\ Report(w, next)
    BY <1>1
  <1>5. next.result # "none" => next.phase = "ended"
    <2>1. CASE owner
      BY <1>3, <1>4, <2>1 DEF Enter, WorkflowStates
    <2>2. CASE ~owner
      BY <1>3, <1>4, <2>2, EnterEnds
    <2>. QED BY <2>1, <2>2
  <1>6. Faithful(w, next)
    BY <1>2, <1>3, <1>5 DEF Faithful, Ended, Pending
  <1>7. Retired' \subseteq Retired
    BY <1>2 DEF Retired
  <1>. QED BY <1>2, <1>4, <1>6, <1>7, ReportDue

(* Loops and the phases of an attempt. *)
LEMMA LoopFaithful ==
    ASSUME DutyInv, NEW w \in Workflows, wf[w].phase \in Early, NEW refresh
    PROVE  Faithful(w, Loop(wf[w], refresh))
  <1>1. wf[w] \in WorkflowStates /\ wf[w].result = "none"
    BY RunningResult DEF Early
  <1>2. Loop(wf[w], refresh).result = "none"
    BY <1>1, EnterEnds DEF Loop
  <1>. QED BY <1>1, <1>2 DEF Faithful, Ended, Pending, Early

LEMMA DiscoverDue ==
    ASSUME DutyInv, NEW w \in Workflows, Discover(w)
    PROVE  ResultSound' /\ CurationDue'
  <1>1. wf[w].phase = "discover" /\ UNCHANGED <<catalog, curated, caller>>
    BY DEF Discover, At
  <1>2. Retired' \subseteq Retired
    BY <1>1 DEF Retired
  <1>3. wf[w] \in WorkflowStates /\ wf[w].result = "none"
    BY <1>1, RunningResult
  <1>4. CASE Report(w, Loop(wf[w], refreshes[wf[w].refresh]))
    BY <1>1, <1>2, <1>4, LoopFaithful, ReportDue DEF Early, Acting
  <1>5. CASE wf' = [wf EXCEPT ![w] = [wf[w] EXCEPT !.phase = "discovering"]]
    <2>1. PICK y : y = [wf[w] EXCEPT !.phase = "discovering"]
      OBVIOUS
    <2>2. y.result = "none"
      BY <1>3, <2>1 DEF WorkflowStates
    <2>3. Faithful(w, y)
      BY <1>1, <1>3, <2>2 DEF Faithful, Ended, Pending
    <2>4. wf' = [wf EXCEPT ![w] = y]
      BY <1>5, <2>1
    <2>. QED BY <1>1, <1>2, <2>3, <2>4, DueStays
  <1>. QED BY <1>4, <1>5 DEF Discover

LEMMA StoreManifestDue ==
    ASSUME DutyInv, NEW w \in Workflows, StoreManifest(w)
    PROVE  ResultSound' /\ CurationDue'
  <1>1. wf[w].phase = "discovering" /\ UNCHANGED <<catalog, curated, caller>>
        /\ Report(w, Loop(wf[w], refreshes'[wf[w].refresh]))
    BY DEF StoreManifest, At
  <1>2. Retired' \subseteq Retired
    BY <1>1 DEF Retired
  <1>3. Faithful(w, Loop(wf[w], refreshes'[wf[w].refresh]))
    BY <1>1, LoopFaithful DEF Early
  <1>. QED BY <1>1, <1>2, <1>3, ReportDue DEF Acting

LEMMA ReadBatchDue ==
    ASSUME DutyInv, NEW w \in Workflows, ReadBatch(w)
    PROVE  ResultSound' /\ CurationDue'
  <1>1. wf[w].phase = "batch" /\ UNCHANGED <<catalog, curated, caller>>
    BY DEF ReadBatch, At
  <1>2. Retired' \subseteq Retired
    BY <1>1 DEF Retired
  <1>3. wf[w] \in WorkflowStates /\ wf[w].result = "none"
    BY <1>1, RunningResult
  <1>4. PICK r, b, c, z :
           /\ z = [wf[w] EXCEPT !.phase = "batching", !.batch = b, !.start = c,
                                !.found = b \cap offered]
           /\ wf' \in {[wf EXCEPT ![w] = Retry(wf[w])], [wf EXCEPT ![w] = Loop(wf[w], r)],
                       [wf EXCEPT ![w] = z]}
    BY DEF ReadBatch, Report
  <1>5. z.result = "none"
    BY <1>3, <1>4 DEF WorkflowStates
  <1>6. Faithful(w, z)
    BY <1>1, <1>3, <1>5 DEF Faithful, Ended, Pending
  <1>7. Faithful(w, Loop(wf[w], r))
    BY <1>1, LoopFaithful DEF Early
  <1>8. Faithful(w, Retry(wf[w]))
    BY <1>1, LostFaithful DEF Acting
  <1>9. PICK y : y \in {Retry(wf[w]), Loop(wf[w], r), z} /\ wf' = [wf EXCEPT ![w] = y]
    BY <1>4
  <1>10. Faithful(w, y)
    BY <1>6, <1>7, <1>8, <1>9
  <1>. QED BY <1>1, <1>2, <1>9, <1>10, DueStays

LEMMA CommitBatchDue ==
    ASSUME DutyInv, NEW w \in Workflows, CommitBatch(w)
    PROVE  ResultSound' /\ CurationDue'
  <1>1. wf[w].phase = "batching" /\ UNCHANGED <<curated, caller>>
        /\ Report(w, Loop(wf[w], refreshes'[wf[w].refresh]))
    BY DEF CommitBatch, At
  <1>2. catalog' = [p \in Pairs |->
           IF p \in wf[w].found THEN Upsert(catalog[p], wf[w].refresh)
           ELSE IF p \in wf[w].batch THEN MarkUnavailable(catalog[p])
           ELSE catalog[p]]
    BY DEF CommitBatch
  <1>3. Retired' \subseteq Retired
    <2>. SUFFICES ASSUME NEW p \in Pairs, catalog'[p].state = "retired"
                  PROVE  catalog[p].state = "retired"
      BY DEF Retired
    <2>1. catalog[p] \in Products
      BY DEF DutyInv, RefreshInv, TypeOK
    <2>2. Upsert(catalog[p], wf[w].refresh).state = "active"
      BY <2>1 DEF Upsert, Products
    <2>3. MarkUnavailable(catalog[p]).state # "retired"
      BY <2>1 DEF MarkUnavailable, Products
    <2>. QED BY <1>2, <2>2, <2>3
  <1>4. Faithful(w, Loop(wf[w], refreshes'[wf[w].refresh]))
    BY <1>1, LoopFaithful DEF Early
  <1>. QED BY <1>1, <1>3, <1>4, ReportDue DEF Acting

(* The completion retires products, and leaves its workflow to curate.      *)
LEMMA FinalizeDue ==
    ASSUME DutyInv, NEW w \in Workflows, Finalize(w)
    PROVE  ResultSound' /\ CurationDue'
  <1>1. wf[w].phase = "finalize" /\ UNCHANGED <<curated, caller>>
    BY DEF Finalize, At
  <1>2. wf[w] \in WorkflowStates /\ wf[w].result = "none"
    BY <1>1, RunningResult
  <1>3. PICK y : y = [wf[w] EXCEPT !.phase = "curating"]
    OBVIOUS
  <1>4. y.phase = "curating" /\ y.result = "none"
    BY <1>2, <1>3 DEF WorkflowStates
  <1>5. CASE wf' = [wf EXCEPT ![w] = y]
    <2>1. wf'[w] = y /\ \A v \in Workflows \ {w} : wf'[v] = wf[v]
      BY <1>5 DEF DutyInv, RefreshInv, TypeOK
    <2>2. CurationDue'
      BY <1>4, <2>1 DEF CurationDue, Pending
    <2>3. w \in Manual => caller[w] # "starting"
      BY <1>1 DEF DutyInv, ResultSound
    <2>4. ResultSound'
      BY <1>1, <1>4, <2>1, <2>3 DEF DutyInv, ResultSound, Workflows
    <2>. QED BY <2>2, <2>4
  <1>6. CASE wf' = [wf EXCEPT ![w] = Retry(wf[w])] /\ UNCHANGED catalog
    <2>1. PICK z : z = Retry(wf[w])
      OBVIOUS
    <2>2. Faithful(w, z)
      BY <1>1, <2>1, LostFaithful DEF Acting
    <2>3. wf' = [wf EXCEPT ![w] = z] /\ Retired' \subseteq Retired
      BY <1>6, <2>1 DEF Retired
    <2>. QED BY <1>1, <2>2, <2>3, DueStays
  <1>. QED BY <1>3, <1>5, <1>6 DEF Finalize

LEMMA CurateDue ==
    ASSUME DutyInv, NEW w \in Workflows, Curate(w)
    PROVE  ResultSound' /\ CurationDue'
  <1>1. wf[w].phase = "curating" /\ UNCHANGED <<catalog, caller>> /\ curated' = Best
        /\ Report(w, EndWith(wf[w], "done"))
    BY DEF Curate, At
  <1>2. wf[w] \in WorkflowStates /\ wf[w].result = "none"
    BY <1>1, RunningResult
  <1>3. Ended(EndWith(wf[w], "done")) /\ Ended(Retry(wf[w]))
    BY <1>1, <1>2, EnterEnds, LostFaithful DEF Ended, Faithful, Acting
  <1>4. PICK y : Ended(y) /\ wf' = [wf EXCEPT ![w] = y]
    BY <1>1, <1>3 DEF Report
  <1>5. wf'[w] = y /\ \A v \in Workflows \ {w} : wf'[v] = wf[v]
    BY <1>4 DEF DutyInv, RefreshInv, TypeOK
  <1>6. w \in Manual => caller[w] # "starting"
    BY <1>1 DEF DutyInv, ResultSound
  <1>7. ResultSound'
    BY <1>1, <1>4, <1>5, <1>6 DEF DutyInv, ResultSound, Ended, Workflows
  <1>. QED BY <1>1, <1>7, CurationSettles

LEMMA AttemptFailsDue ==
    ASSUME DutyInv, NEW w \in Workflows,
           AttemptDies(w) \/ FailRefresh(w) \/ FailRefreshResultLost(w)
    PROVE  ResultSound' /\ CurationDue'
  <1>1. wf[w].phase \in Acting \cup {"claim"} /\ UNCHANGED <<catalog, curated, caller>>
    BY DEF AttemptDies, FailRefresh, FailRefreshResultLost, At, Acting
  <1>2. wf[w] \in WorkflowStates /\ wf[w].result = "none" /\ wf[w].phase # "off"
    BY <1>1, RunningResult DEF Acting
  <1>3. Retired' \subseteq Retired
    BY <1>1 DEF Retired
  <1>4. CASE AttemptDies(w)
    <2>1. PICK y : (y = Retry(wf[w]) \/ y = GiveUp(wf[w])) /\ wf' = [wf EXCEPT ![w] = y]
      BY <1>4 DEF AttemptDies
    <2>2. Faithful(w, y)
      BY <1>1, <2>1, LostFaithful
    <2>. QED BY <1>1, <1>2, <1>3, <2>1, <2>2, DueStays
  <1>5. CASE FailRefresh(w)
    <2>1. PICK y : y = EndWith(wf[w], "failed")
      OBVIOUS
    <2>2. y.phase = "ended" /\ y.result = "failed"
      BY <1>2, <2>1, EnterEnds
    <2>3. Faithful(w, y)
      BY <2>2 DEF Faithful, Ended, Pending
    <2>4. wf' = [wf EXCEPT ![w] = y]
      BY <1>5, <2>1 DEF FailRefresh
    <2>. QED BY <1>1, <1>2, <1>3, <2>3, <2>4, DueStays
  <1>6. CASE FailRefreshResultLost(w)
    <2>1. UNCHANGED wf
      BY <1>6 DEF FailRefreshResultLost
    <2>. QED BY <1>1, <1>3, <2>1 DEF DutyInv, ResultSound, CurationDue, Retired
  <1>. QED BY <1>4, <1>5, <1>6

LEMMA FireDue ==
    ASSUME DutyInv, NEW w \in Scheduled, Fire(w)
    PROVE  ResultSound' /\ CurationDue'
  <1>1. w \in Workflows /\ wf[w].phase = "off" /\ UNCHANGED <<catalog, curated, caller>>
    BY DEF Fire, At, Workflows
  <1>2. wf[w] \in WorkflowStates /\ wf[w].result = "none"
    BY <1>1, RunningResult
  <1>3. PICK y : y = Enter(wf[w], "claim")
    OBVIOUS
  <1>4. y.phase = "claim" /\ y.result = "none"
    BY <1>2, <1>3, EnterEnds
  <1>5. Faithful(w, y) /\ Retired' \subseteq Retired
    BY <1>1, <1>2, <1>4 DEF Faithful, Ended, Pending, Retired
  <1>6. wf' = [wf EXCEPT ![w] = y]
    BY <1>3 DEF Fire
  <1>. QED BY <1>1, <1>5, <1>6, DueStays

(* Callers start or leave workflows that have no result yet. *)
LEMMA CallersDue ==
    ASSUME DutyInv, NEW w \in Manual,
           \/ RequestRefresh(w) \/ StartWorkflow(w) \/ StartFails(w) \/ CallerDies(w)
           \/ FailStart(w)
    PROVE  ResultSound' /\ CurationDue'
  <1>0. w \in Workflows /\ UNCHANGED <<catalog, curated>>
    BY DEF Workflows, RequestRefresh, StartWorkflow, StartFails, CallerDies, FailStart
  <1>1. \A m \in Manual \ {w} : caller'[m] = caller[m]
    BY DEF RequestRefresh, StartWorkflow, StartFails, CallerDies, FailStart, DutyInv, RefreshInv,
       TypeOK
  <1>2. CASE CallerDies(w) \/ FailStart(w)
    <2>1. UNCHANGED wf /\ caller'[w] = "gone"
      BY <1>2 DEF CallerDies, FailStart, DutyInv, RefreshInv, TypeOK
    <2>. QED BY <1>0, <1>1, <2>1 DEF DutyInv, ResultSound, CurationDue, Retired
  <1>3. CASE RequestRefresh(w) \/ StartWorkflow(w) \/ StartFails(w)
    <2>1. wf[w].phase = "off" /\ wf[w] \in WorkflowStates /\ wf[w].result = "none"
      <3>1. wf[w].phase = "off"
        BY <1>3 DEF RequestRefresh, StartWorkflow, StartFails, DutyInv, ResultSound, RefreshInv,
           KnowsRefresh
      <3>. QED BY <1>0, <3>1, RunningResult
    <2>2. PICK y : /\ wf' = [wf EXCEPT ![w] = y] /\ y.result = "none"
                   /\ caller'[w] = "starting" => y.phase = "off"
      <3>1. Enter(wf[w], "discover").result = "none"
        BY <2>1, EnterEnds
      <3>2. \A s : [wf[w] EXCEPT !.refresh = s].result = "none"
                   /\ [wf[w] EXCEPT !.refresh = s].phase = "off"
        BY <2>1 DEF WorkflowStates
      <3>3. wf = [wf EXCEPT ![w] = wf[w]]
        BY DEF DutyInv, RefreshInv, TypeOK
      <3>4. CASE RequestRefresh(w)
        BY <3>2, <3>4 DEF RequestRefresh
      <3>5. CASE StartWorkflow(w)
        <4>1. caller'[w] = "gone"
          BY <3>5 DEF StartWorkflow, DutyInv, RefreshInv, TypeOK
        <4>. QED BY <3>1, <3>5, <4>1 DEF StartWorkflow
      <3>6. CASE StartFails(w)
        <4>1. caller'[w] = "failing"
          BY <3>6 DEF StartFails, DutyInv, RefreshInv, TypeOK
        <4>. QED BY <2>1, <3>1, <3>3, <3>6, <4>1 DEF StartFails
      <3>. QED BY <1>3, <3>4, <3>5, <3>6
    <2>3. wf'[w] = y /\ \A v \in Workflows \ {w} : wf'[v] = wf[v]
      BY <1>0, <2>2 DEF DutyInv, RefreshInv, TypeOK
    <2>4. ~Pending(wf[w])
      BY <2>1 DEF Pending
    <2>5. CurationDue'
      BY <1>0, <2>3, <2>4 DEF DutyInv, CurationDue, Retired
    <2>6. ResultSound'
      BY <1>1, <2>2, <2>3 DEF DutyInv, ResultSound, Workflows
    <2>. QED BY <2>5, <2>6
  <1>. QED BY <1>2, <1>3

LEMMA OthersDue ==
    ASSUME DutyInv,
           \/ \E p \in Singles : RefreshProduct(p)
           \/ \E p \in Endangered : Withdraw(p)
           \/ RecoverProviders \/ CurateCommand \/ UNCHANGED vars
    PROVE  ResultSound' /\ CurationDue'
  <1>1. UNCHANGED <<wf, caller>>
    BY DEF RefreshProduct, Withdraw, RecoverProviders, CurateCommand, vars
  <1>2. ResultSound'
    BY <1>1 DEF DutyInv, ResultSound
  <1>3. CASE CurateCommand
    BY <1>2, <1>3, CurationSettles DEF CurateCommand
  <1>4. ASSUME Retired' \subseteq Retired, UNCHANGED curated
        PROVE  ResultSound' /\ CurationDue'
    BY <1>1, <1>2, <1>4 DEF DutyInv, CurationDue
  <1>5. \A q \in Pairs : catalog[q] \in Products
    BY DEF DutyInv, RefreshInv, TypeOK
  <1>6. \A q \in Pairs : /\ Upsert(catalog[q], None).state = "active"
                         /\ MarkUnavailable(catalog[q]).state # "retired"
    BY <1>5 DEF Upsert, MarkUnavailable, Products
  <1>7. ASSUME NEW p \in Singles, RefreshProduct(p)
        PROVE  Retired' \subseteq Retired /\ UNCHANGED curated
    <2>1. PICK q, z : /\ q \in Pairs /\ z.state # "retired"
                      /\ catalog' = [catalog EXCEPT ![q] = z]
      BY <1>6, <1>7 DEF RefreshProduct
    <2>2. \A s \in Pairs \ {q} : catalog'[s] = catalog[s]
      BY <2>1 DEF DutyInv, RefreshInv, TypeOK
    <2>3. catalog'[q] = z
      BY <2>1 DEF DutyInv, RefreshInv, TypeOK
    <2>. QED BY <1>7, <2>1, <2>2, <2>3 DEF Retired, RefreshProduct
  <1>8. ASSUME RecoverProviders
        PROVE  Retired' \subseteq Retired /\ UNCHANGED curated
    <2>1. PICK readable : catalog' = [p \in Pairs |->
               IF p \in Listed \ Active /\ ProviderOf[p] \in readable
                 THEN Upsert(catalog[p], None) ELSE catalog[p]]
      BY <1>8 DEF RecoverProviders
    <2>. QED BY <1>6, <1>8, <2>1 DEF Retired, RecoverProviders
  <1>9. ASSUME (\E p \in Endangered : Withdraw(p)) \/ UNCHANGED vars
        PROVE  Retired' \subseteq Retired /\ UNCHANGED curated
    BY <1>9 DEF Withdraw, vars, Retired
  <1>. QED BY <1>3, <1>4, <1>7, <1>8, <1>9

LEMMA DutyNext == DutyInv /\ [Next]_vars => DutyInv'
  <1>. SUFFICES ASSUME DutyInv, [Next]_vars PROVE DutyInv'
    OBVIOUS
  <1>1. RefreshInv'
    BY NextInv DEF DutyInv
  <1>2. ASSUME NEW w \in Workflows, Working(w) PROVE ResultSound' /\ CurationDue'
    BY <1>2, ClaimActivityDue, DiscoverDue, StoreManifestDue, ReadBatchDue, CommitBatchDue,
       FinalizeDue, CurateDue DEF Working
  <1>3. ASSUME NEW w \in Manual,
               \/ RequestRefresh(w) \/ StartWorkflow(w) \/ StartFails(w) \/ CallerDies(w)
               \/ FailStart(w)
        PROVE  ResultSound' /\ CurationDue'
    BY <1>3, CallersDue
  <1>4. ResultSound' /\ CurationDue'
    BY <1>2, <1>3, AttemptFailsDue, FireDue, OthersDue DEF Next
  <1>. QED BY <1>1, <1>4 DEF DutyInv

(* No workflow ends well while a product its completion, or another's,      *)
(* retired is among the curated ones and nobody else is about to curate:    *)
(* ambiguous starts and overlapping workflows included.                     *)
THEOREM CurationFollows == Spec => []RetiredIsNotCurated
  <1>1. Init => DutyInv
    <2>. SUFFICES ASSUME Init PROVE DutyInv
      OBVIOUS
    <2>1. \A w \in Workflows : wf[w].result = "none"
      BY DEF Init, Off
    <2>2. \A m \in Manual : caller[m] = "off"
      BY DEF Init
    <2>. QED BY <2>1, <2>2, InitInv DEF DutyInv, ResultSound, CurationDue, Init
  <1>2. DutyInv => RetiredIsNotCurated
    BY DEF DutyInv, CurationDue, RetiredIsNotCurated, Pending, Retired, RefreshInv, TypeOK
  <1>. QED BY <1>1, <1>2, DutyNext, PTL DEF Spec
=============================================================================
