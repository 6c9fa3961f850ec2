---------------------- MODULE CatalogPublicationProofs ----------------------
(***************************************************************************)
(* Theorems about CatalogPublication, for any number of opportunities,     *)
(* signatures, attempts, retries and tries.                                *)
(***************************************************************************)
EXTENDS CatalogPublication, TLAPS

(* Where an attempt has taken the snapshot of the selected opportunity. *)
Working == PCs \ {"idle", "retryBegin", "begin", "recording", "done"}

(* The inductive strengthening of TypeOK: ranks are set where they are used. *)
HasRank ==
    /\ wf[Main].rank \in Ranks
    /\ \A a \in Attempts : att[a].pc \in Working => att[a].rank \in Ranks

TypeInv == TypeOK /\ HasRank

USE DEF None

-----------------------------------------------------------------------------
(* Helpers return values of their types. *)

LEMMA RaiseType ==
    ASSUME NEW x \in AttemptStates, NEW r \in Results
    PROVE  Raise(x, r) \in AttemptStates /\ Raise(x, r).pc \notin Working
BY DEF Raise, AttemptStates, PCs, Working

LEMMA DoneType ==
    ASSUME NEW x \in AttemptStates, NEW r \in Results
    PROVE  Done(x, r) \in AttemptStates /\ Done(x, r).pc \notin Working
BY ZenonT(30) DEF Done, AttemptStates, PCs, Working

LEMMA IdleType == IdleAttempt \in AttemptStates /\ IdleAttempt.pc \notin Working
BY DEF IdleAttempt, AttemptStates, PCs, Working, Results, Workflows, NoProgress,
       NoFingerprint, NoUploads, Uploads, Fingerprint, Progress

LEMMA RejectingType ==
    ASSUME run \in RunRecords, NEW r \in Ranks
    PROVE  Rejecting(r) \in RunRecords
BY DEF Rejecting, RunRecords, RunStatuses

LEMMA NextRankType ==
    ASSUME NumRanks \in Nat \ {0}, NEW x \in WorkflowStates, x.rank \in Ranks
    PROVE  NextRank(x) \in WorkflowStates /\ NextRank(x).rank \in Ranks
<1>1. CASE x.rank < NumRanks
  <2>1. x.rank + 1 \in Ranks
    BY <1>1 DEF Ranks
  <2> QED
    BY <1>1, <2>1 DEF NextRank, WorkflowStates, Phases
<1>2. CASE ~(x.rank < NumRanks)
  BY <1>2 DEF NextRank, WorkflowStates, Phases
<1> QED
  BY <1>1, <1>2

LEMMA GiveUpType ==
    ASSUME NEW x \in WorkflowStates, NEW last \in BOOLEAN
    PROVE  GiveUp(x, last) \in WorkflowStates /\ GiveUp(x, last).rank = x.rank
BY ZenonT(30) DEF GiveUp, WorkflowStates, Phases, PubStatuses

LEMMA OutcomeType ==
    ASSUME ConstantsAssumption, NEW w \in Workflows, NEW x \in WorkflowStates,
           w = Main => x.rank \in Ranks, NEW r \in Results
    PROVE  /\ Outcome(w, x, r) \in WorkflowStates
           /\ w = Main => Outcome(w, x, r).rank \in Ranks
<1>1. CASE r \in {"error", "fatal"}
  BY <1>1, GiveUpType DEF Outcome
<1>2. CASE r \notin {"error", "fatal"} /\ w # Main
  BY <1>2 DEF Outcome, WorkflowStates, Phases
<1>3. CASE w = Main /\ r = "hard_gate_failed"
  BY <1>3, NextRankType DEF Outcome, ConstantsAssumption
<1>4. CASE w = Main /\ r \notin {"error", "fatal", "hard_gate_failed"}
  BY <1>4 DEF Outcome, WorkflowStates, Phases
<1> QED
  BY <1>1, <1>2, <1>3, <1>4

(* Every step changes the local state of at most one attempt. *)
LEMMA SetAttempt ==
    ASSUME att \in [Attempts -> AttemptStates], HasRank, wf'[Main].rank \in Ranks,
           NEW a \in Attempts, NEW y \in AttemptStates,
           y.pc \in Working => y.rank \in Ranks,
           att' = [att EXCEPT ![a] = y]
    PROVE  att' \in [Attempts -> AttemptStates] /\ HasRank'
BY DEF HasRank

LEMMA GotoType ==
    ASSUME att \in [Attempts -> AttemptStates], HasRank, wf' = wf,
           NEW a \in Attempts, NEW label \in PCs,
           att[a].pc \in Working, Goto(a, label)
    PROVE  att' \in [Attempts -> AttemptStates] /\ HasRank'
<1> DEFINE y == [att[a] EXCEPT !.pc = label]
<1>1. y \in AttemptStates /\ y.rank = att[a].rank
  BY DEF AttemptStates
<1>2. wf'[Main].rank \in Ranks /\ att[a].rank \in Ranks
  BY DEF HasRank
<1> QED
  BY <1>1, <1>2, SetAttempt DEF Goto

LEMMA FailsType ==
    ASSUME att \in [Attempts -> AttemptStates], HasRank, wf' = wf,
           NEW a \in Attempts, att[a].pc \in Working, Fails(a)
    PROVE  att' \in [Attempts -> AttemptStates] /\ HasRank'
<1>1. CASE att' = [att EXCEPT ![a] = Raise(@, "error")]
  <2>1. Raise(att[a], "error") \in AttemptStates /\ Raise(att[a], "error").pc \notin Working
    BY RaiseType DEF Results
  <2>2. wf'[Main].rank \in Ranks
    BY DEF HasRank
  <2> QED
    BY <1>1, <2>1, <2>2, SetAttempt
<1>2. CASE att' = [att EXCEPT ![a].pc = "failing"]
  BY <1>2, GotoType DEF Goto, PCs
<1> QED
  BY <1>1, <1>2 DEF Fails

-----------------------------------------------------------------------------
(* Every action keeps the types; a lemma per group of the disjuncts of Next. *)

LEMMA SetWorkflow ==
    ASSUME wf \in [Workflows -> WorkflowStates], HasRank,
           NEW w \in Workflows, NEW y \in WorkflowStates,
           w = Main => y.rank \in Ranks,
           wf' = [wf EXCEPT ![w] = y]
    PROVE  wf' \in [Workflows -> WorkflowStates] /\ wf'[Main].rank \in Ranks
BY DEF HasRank, Workflows

LEMMA PreparingType ==
    ASSUME TypeOK, HasRank, Preparing
    PROVE  TypeOK' /\ HasRank'
<1> USE ConstantsAssumption
<1>0. /\ Main \in Workflows /\ wf \in [Workflows -> WorkflowStates]
      /\ wf[Main] \in WorkflowStates /\ wf[Main].rank \in Ranks /\ run \in RunRecords
      /\ UNCHANGED <<pub, products, listings, inflight, sent, att>>
  BY DEF Preparing, BeginPrepare, Approve, RejectInPreparation, SkipIneligible, PreparationFails,
         FinishNoQualified, MarkFailed, remote, TypeOK, HasRank, Workflows
<1> SUFFICES run' \in RunRecords /\ wf' \in [Workflows -> WorkflowStates]
             /\ wf'[Main].rank \in Ranks
  BY <1>0 DEF TypeOK, HasRank
<1>1. CASE BeginPrepare
  <2>1. [wf[Main] EXCEPT !.phase = "preparing"] \in WorkflowStates
    BY <1>0 DEF WorkflowStates, Phases
  <2>2. wf' \in [Workflows -> WorkflowStates] /\ wf'[Main].rank \in Ranks
    BY <1>0, <1>1, <2>1, SetWorkflow DEF BeginPrepare, WorkflowStates
  <2>3. run' \in RunRecords
    BY <1>0, <1>1 DEF BeginPrepare, RunRecords, RunStatuses
  <2> QED
    BY <2>2, <2>3
<1>2. CASE Approve
  <2>1. [wf[Main] EXCEPT !.phase = "publish", !.tries = 0] \in WorkflowStates
    BY <1>0 DEF WorkflowStates, Phases
  <2>2. wf' \in [Workflows -> WorkflowStates] /\ wf'[Main].rank \in Ranks
    BY <1>0, <1>2, <2>1, SetWorkflow DEF Approve, WorkflowStates
  <2>3. run' \in RunRecords
    BY <1>0, <1>2 DEF Approve, RunRecords, RunStatuses
  <2> QED
    BY <2>2, <2>3
<1>3. CASE RejectInPreparation
  <2>1. NextRank(wf[Main]) \in WorkflowStates /\ NextRank(wf[Main]).rank \in Ranks
    BY <1>0, NextRankType DEF ConstantsAssumption
  <2>2. wf' \in [Workflows -> WorkflowStates] /\ wf'[Main].rank \in Ranks
    BY <1>0, <1>3, <2>1, SetWorkflow DEF RejectInPreparation
  <2>3. run' \in RunRecords
    BY <1>0, <1>3, RejectingType DEF RejectInPreparation
  <2> QED
    BY <2>2, <2>3
<1>7. CASE SkipIneligible
  <2>1. NextRank(wf[Main]) \in WorkflowStates /\ NextRank(wf[Main]).rank \in Ranks
    BY <1>0, NextRankType DEF ConstantsAssumption
  <2>2. wf' \in [Workflows -> WorkflowStates] /\ wf'[Main].rank \in Ranks
    BY <1>0, <1>7, <2>1, SetWorkflow DEF SkipIneligible
  <2> QED
    BY <1>0, <1>7, <2>2 DEF SkipIneligible
<1>4. CASE PreparationFails
  <2>1. [wf[Main] EXCEPT !.phase = "markFailed"] \in WorkflowStates
    BY <1>0 DEF WorkflowStates, Phases
  <2>2. wf' \in [Workflows -> WorkflowStates] /\ wf'[Main].rank \in Ranks
    BY <1>0, <1>4, <2>1, SetWorkflow DEF PreparationFails, WorkflowStates
  <2> QED
    BY <1>0, <1>4, <2>2 DEF PreparationFails
<1>5. CASE FinishNoQualified
  <2>1. [wf[Main] EXCEPT !.phase = "ended", !.result = "no_qualified_opportunity"]
          \in WorkflowStates
    BY <1>0 DEF WorkflowStates, Phases
  <2>2. wf' \in [Workflows -> WorkflowStates] /\ wf'[Main].rank \in Ranks
    BY <1>0, <1>5, <2>1, SetWorkflow DEF FinishNoQualified, WorkflowStates
  <2>3. run' \in RunRecords
    BY <1>0, <1>5 DEF FinishNoQualified, RunRecords, RunStatuses
  <2> QED
    BY <2>2, <2>3
<1>6. CASE MarkFailed
  <2>1. [wf[Main] EXCEPT !.phase = "ended", !.result = "failed"] \in WorkflowStates
    BY <1>0 DEF WorkflowStates, Phases, PubStatuses
  <2>2. wf' \in [Workflows -> WorkflowStates] /\ wf'[Main].rank \in Ranks
    BY <1>0, <1>6, <2>1, SetWorkflow DEF MarkFailed, WorkflowStates
  <2>3. run' \in RunRecords
    BY <1>0, <1>6 DEF MarkFailed, RunRecords, RunStatuses
  <2> QED
    BY <2>2, <2>3
<1> QED
  BY <1>1, <1>2, <1>3, <1>4, <1>5, <1>6, <1>7 DEF Preparing

LEMMA SchedulingType ==
    ASSUME TypeOK, HasRank, NEW w \in Workflows,
           Scheduling(w) \/ RequestRetry(w)
    PROVE  TypeOK' /\ HasRank'
<1> USE ConstantsAssumption
<1>0. /\ wf \in [Workflows -> WorkflowStates] /\ wf[w] \in WorkflowStates
      /\ (w = Main => wf[w].rank \in Ranks) /\ run \in RunRecords
      /\ UNCHANGED <<pub, products, listings, inflight, sent>>
  BY DEF Scheduling, RequestRetry, Start, Expire, ReadRetryStatus, FinishRetry, remote,
         TypeOK, HasRank, WorkflowStates
<1> SUFFICES /\ run' \in RunRecords /\ wf' \in [Workflows -> WorkflowStates]
             /\ att' \in [Attempts -> AttemptStates] /\ HasRank'
  BY <1>0 DEF TypeOK
<1>a. ASSUME wf' \in [Workflows -> WorkflowStates] /\ wf'[Main].rank \in Ranks, att' = att
      PROVE  att' \in [Attempts -> AttemptStates] /\ HasRank'
  BY <1>a DEF TypeOK, HasRank
<1>1. ASSUME NEW a \in Attempts, Start(w, a)
      PROVE  /\ run' \in RunRecords /\ wf' \in [Workflows -> WorkflowStates]
             /\ att' \in [Attempts -> AttemptStates] /\ HasRank'
  <2>0. wf[w].tries + 1 \in Nat /\ a \in Attempts \cup {None}
    BY <1>0 DEF WorkflowStates
  <2> DEFINE v == [wf[w] EXCEPT !.cur = a, !.tries = wf[w].tries + 1]
  <2>1. v \in WorkflowStates /\ v.rank = wf[w].rank
    BY <1>0, <2>0 DEF WorkflowStates
  <2>1a. wf' = [wf EXCEPT ![w] = v]
    BY <1>1, Zenon DEF Start
  <2>2. wf' \in [Workflows -> WorkflowStates] /\ wf'[Main].rank \in Ranks
    <3> HIDE DEF v
    <3> QED
      BY <1>0, <2>1, <2>1a, SetWorkflow
  <2> DEFINE y == [IdleAttempt EXCEPT !.wf = w,
                      !.pc = IF w = Main THEN "begin" ELSE "retryBegin"]
  <2>3. y \in AttemptStates /\ y.pc \notin Working
    BY IdleType DEF AttemptStates, PCs, Working
  <2> QED
    BY <1>0, <1>1, <2>2, <2>3, SetAttempt DEF Start, TypeOK
<1>2. CASE Expire(w)
  <2>1. GiveUp(wf[w], FALSE) \in WorkflowStates /\ GiveUp(wf[w], FALSE).rank = wf[w].rank
    BY <1>0, GiveUpType
  <2>2. wf' \in [Workflows -> WorkflowStates] /\ wf'[Main].rank \in Ranks
    BY <1>0, <1>2, <2>1, SetWorkflow DEF Expire
  <2> QED
    BY <1>0, <1>2, <1>a, <2>2 DEF Expire
<1>3. CASE ReadRetryStatus(w)
  <2>1. [wf[w] EXCEPT !.phase = "finishing", !.seen = pub.status] \in WorkflowStates
    BY <1>0 DEF WorkflowStates, Phases, TypeOK, PublishRecords
  <2>2. wf' \in [Workflows -> WorkflowStates] /\ wf'[Main].rank \in Ranks
    BY <1>0, <1>3, <2>1, SetWorkflow DEF ReadRetryStatus, WorkflowStates
  <2> QED
    BY <1>0, <1>3, <1>a, <2>2 DEF ReadRetryStatus
<1>4. CASE FinishRetry(w)
  <2>1. [wf[w] EXCEPT !.phase = "ended", !.result = wf[w].seen] \in WorkflowStates
    BY <1>0 DEF WorkflowStates, Phases
  <2>2. wf' \in [Workflows -> WorkflowStates] /\ wf'[Main].rank \in Ranks
    BY <1>0, <1>4, <2>1, SetWorkflow DEF FinishRetry, WorkflowStates
  <2>3. run' \in RunRecords
    BY <1>0, <1>4 DEF FinishRetry, RunRecords, RunStatuses
  <2> QED
    BY <1>4, <1>a, <2>2, <2>3 DEF FinishRetry
<1>5. CASE RequestRetry(w)
  <2>1. [wf[w] EXCEPT !.phase = "publish"] \in WorkflowStates
    BY <1>0 DEF WorkflowStates, Phases
  <2>2. wf' \in [Workflows -> WorkflowStates] /\ wf'[Main].rank \in Ranks
    BY <1>0, <1>5, <2>1, SetWorkflow DEF RequestRetry, WorkflowStates
  <2> QED
    BY <1>0, <1>5, <1>a, <2>2 DEF RequestRetry
<1> QED
  BY <1>1, <1>2, <1>3, <1>4, <1>5 DEF Scheduling

LEMMA SnapshotType ==
    ASSUME TypeOK, HasRank, NEW a \in Attempts
    PROVE  /\ att[a] \in AttemptStates /\ att \in [Attempts -> AttemptStates]
           /\ pub \in PublishRecords /\ run \in RunRecords
           /\ wf[Main].rank \in Ranks
           /\ att[a].pc \in Working => att[a].rank \in Ranks
BY DEF TypeOK, HasRank

(* Admission, drift and upload. *)
LEMMA AdmissionType ==
    ASSUME TypeOK, HasRank, NEW a \in Attempts,
           \/ Begin(a) \/ Unchanged(a) \/ Drift(a) \/ RefreshFails(a)
           \/ Upload(a) \/ UploadFails(a) \/ Reserve(a)
    PROVE  TypeOK' /\ HasRank'
<1> USE ConstantsAssumption
<1>0. /\ att[a] \in AttemptStates /\ att \in [Attempts -> AttemptStates]
      /\ pub \in PublishRecords /\ run \in RunRecords
      /\ wf[Main].rank \in Ranks
      /\ att[a].pc \in Working => att[a].rank \in Ranks
      /\ UNCHANGED <<wf, products, listings, inflight, sent>>
  BY SnapshotType DEF Begin, Unchanged, Drift, RefreshFails, Upload, UploadFails, Reserve, remote
<1> SUFFICES /\ run' \in RunRecords /\ pub' \in PublishRecords
             /\ att' \in [Attempts -> AttemptStates] /\ HasRank'
  BY <1>0 DEF TypeOK
<1>r. \A r \in Results : /\ Raise(att[a], r) \in AttemptStates
                         /\ Raise(att[a], r).pc \notin Working
                         /\ Done(att[a], r) \in AttemptStates
                         /\ Done(att[a], r).pc \notin Working
  BY <1>0, RaiseType, DoneType
<1>1. CASE Begin(a)
  <2> DEFINE y == [att[a] EXCEPT !.pc = "refresh", !.rank = run.selected,
                       !.uploads = pub.uploads, !.first = pub.first, !.product = pub.product]
  <2>1. y \in AttemptStates
    BY <1>0 DEF AttemptStates, PublishRecords, RunRecords, PCs
  <2>2. run.selected # None => y.rank \in Ranks
    BY <1>0 DEF AttemptStates, RunRecords
  <2>3. PICK z \in AttemptStates : /\ z.pc \in Working => z.rank \in Ranks
                                   /\ att' = [att EXCEPT ![a] = z]
    BY <1>0, <1>r, <1>1, <2>1, <2>2 DEF Begin, Results
  <2>4. att' \in [Attempts -> AttemptStates] /\ HasRank'
    BY <1>0, <2>3, SetAttempt
  <2> QED
    BY <1>0, <1>1, <2>4 DEF Begin
<1>2. CASE Unchanged(a)
  BY <1>0, <1>2, GotoType DEF Unchanged, At, Working, PCs
<1>3. CASE Drift(a)
  <2>1. run' \in RunRecords
    BY <1>0, <1>3, RejectingType DEF Drift, At, Working, PCs
  <2>2. att' \in [Attempts -> AttemptStates] /\ HasRank'
    BY <1>0, <1>3, <1>r, SetAttempt DEF Drift, Results
  <2> QED
    BY <1>0, <1>3, <2>1, <2>2 DEF Drift
<1>4. CASE RefreshFails(a)
  BY <1>0, <1>4, <1>r, SetAttempt DEF RefreshFails, Results
<1>5. CASE Upload(a)
  <2> DEFINE sig == SurfaceOf[att[a].rank]
             art == IF att[a].uploads[sig] # None THEN att[a].uploads[sig] ELSE att[a].rank
             y == [att[a] EXCEPT !.pc = "reserve", !.uploads[sig] = art,
                      !.first = IF att[a].first = None THEN art ELSE att[a].first]
  <2>1. att[a].rank \in Ranks /\ sig \in Signatures
    BY <1>0, <1>5 DEF Upload, At, Working, PCs, ConstantsAssumption
  <2>2. art \in Ranks \cup {None}
    BY <1>0, <2>1 DEF AttemptStates, Uploads
  <2>3. y \in AttemptStates /\ y.rank = att[a].rank
    <3> HIDE DEF sig, art
    <3> QED
      BY <1>0, <2>1, <2>2 DEF AttemptStates, Uploads, PCs
  <2>4. att' = [att EXCEPT ![a] = y]
    BY <1>5, Zenon DEF Upload
  <2>5. att' \in [Attempts -> AttemptStates] /\ HasRank'
    <3> HIDE DEF y
    <3> QED
      BY <1>0, <2>1, <2>3, <2>4, SetAttempt
  <2> QED
    BY <1>0, <1>5, <2>5 DEF Upload
<1>6. CASE UploadFails(a)
  BY <1>0, <1>6, FailsType DEF UploadFails, At, Working, PCs
<1>7. CASE Reserve(a)
  <2> DEFINE product == IF pub.product # None THEN pub.product ELSE att[a].product
             y == [att[a] EXCEPT !.pc = Branch(a, product), !.product = product,
                                 !.prog = pub.prog]
  <2>1. product \in Nat /\ Branch(a, product) \in PCs /\ att[a].rank \in Ranks
    BY <1>0, <1>7 DEF AttemptStates, PublishRecords, Branch, PCs, Reserve, At, Working
  <2>2. y \in AttemptStates /\ y.rank = att[a].rank
    <3> HIDE DEF product
    <3> QED
      BY <1>0, <2>1 DEF AttemptStates, PublishRecords
  <2>3. att' \in [Attempts -> AttemptStates] /\ HasRank'
    <3>1. CASE pub.status = "succeeded"
      BY <1>0, <1>7, <1>r, <3>1, SetAttempt DEF Reserve, Results
    <3>2. CASE pub.status # "succeeded"
      <4>1. att' = [att EXCEPT ![a] = y]
        BY <1>7, <3>2, Zenon DEF Reserve
      <4> HIDE DEF y
      <4> QED
        BY <1>0, <2>1, <2>2, <4>1, SetAttempt
    <3> QED
      BY <3>1, <3>2
  <2>4. pub' \in PublishRecords
    BY <1>0, <1>7 DEF Reserve, PublishRecords, PubStatuses, AttemptStates
  <2> QED
    BY <1>0, <1>7, <2>3, <2>4 DEF Reserve
<1> QED
  BY <1>1, <1>2, <1>3, <1>4, <1>5, <1>6, <1>7

LEMMA SendType ==
    ASSUME TypeOK, HasRank, NEW a \in Attempts, att[a].pc \in Working,
           NEW kind \in {"product", "listing"}, NEW art \in Ranks \cup {None},
           NEW label \in PCs, Send(a, kind, art, label)
    PROVE  TypeOK' /\ HasRank'
<1> DEFINE r == [kind |-> kind, n |-> sent + 1, title |-> att[a].rank, art |-> art]
           y == [att[a] EXCEPT !.pc = label, !.req = sent + 1]
<1>0. sent + 1 \in Nat /\ att[a].rank \in Ranks /\ att[a] \in AttemptStates
  BY SnapshotType DEF TypeOK
<1>1. r \in Requests
  BY <1>0 DEF Requests
<1>2. y \in AttemptStates /\ y.rank = att[a].rank
  BY <1>0 DEF AttemptStates
<1>3. att' = [att EXCEPT ![a] = y] /\ UNCHANGED wf
  BY Zenon DEF Send
<1>4. att' \in [Attempts -> AttemptStates] /\ HasRank'
  <2> HIDE DEF y
  <2> QED
    BY <1>0, <1>2, <1>3, SetAttempt DEF TypeOK, HasRank
<1> HIDE DEF r, y
<1>5. inflight' \in SUBSET Requests
  BY <1>1 DEF Send, TypeOK, r
<1> QED
  BY <1>0, <1>4, <1>5 DEF Send, TypeOK

LEMMA SeqSet ==
    ASSUME NEW S, NEW seq \in Seq(S), NEW p, NEW q, p \in DOMAIN seq => q \in S
    PROVE  /\ [seq EXCEPT ![p] = q] \in Seq(S)
           /\ Len([seq EXCEPT ![p] = q]) = Len(seq)
<1> DEFINE new == [seq EXCEPT ![p] = q]
<1>1. DOMAIN new = 1..Len(seq) /\ Len(seq) \in Nat
  OBVIOUS
<1>2. \A i \in 1..Len(seq) : new[i] \in S
  OBVIOUS
<1>3. new = [i \in 1..Len(seq) |-> new[i]]
  OBVIOUS
<1> HIDE DEF new
<1>4. new \in Seq(S) /\ Len(new) = Len(seq)
  BY <1>1, <1>2, <1>3
<1> QED
  BY <1>4 DEF new

(* The Printify product. *)
LEMMA ProductType ==
    ASSUME TypeOK, HasRank, NEW a \in Attempts,
           \/ UpdateProduct(a) \/ StampFingerprint(a) \/ RecordCreateIntent(a)
           \/ SendCreate(a) \/ (\E p \in DOMAIN products : CreateAccepted(a, p))
           \/ CreateRejected(a) \/ ClearCreateIntent(a) \/ CreateAmbiguous(a)
           \/ Reconcile(a) \/ ReconcileFails(a) \/ SaveProduct(a)
    PROVE  TypeOK' /\ HasRank'
<1> USE ConstantsAssumption
<1>0. /\ att[a] \in AttemptStates /\ att \in [Attempts -> AttemptStates]
      /\ pub \in PublishRecords /\ run \in RunRecords
      /\ wf[Main].rank \in Ranks
      /\ att[a].pc \in Working /\ att[a].rank \in Ranks
      /\ UNCHANGED wf
  BY SnapshotType DEF UpdateProduct, StampFingerprint, RecordCreateIntent, SendCreate,
     CreateAccepted, CreateRejected, ClearCreateIntent, CreateAmbiguous, Reconcile,
     ReconcileFails, SaveProduct, remote, At, Working, PCs, Send
<1>f. Fp(a) \in Fingerprint /\ Art(a) \in Ranks \cup {None}
  BY <1>0 DEF Fp, Art, Fingerprint, AttemptStates, Uploads, ConstantsAssumption
<1>r. \A r \in Results : /\ Raise(att[a], r) \in AttemptStates
                         /\ Raise(att[a], r).pc \notin Working
                         /\ Done(att[a], r) \in AttemptStates
                         /\ Done(att[a], r).pc \notin Working
  BY <1>0, RaiseType, DoneType
<1>s. \A p \in Nat : LET y == [att[a] EXCEPT !.pc = "save", !.product = p] IN
        y \in AttemptStates /\ y.rank \in Ranks
  BY <1>0 DEF AttemptStates, PCs
<1>d. DOMAIN products \subseteq Nat /\ DOMAIN listings \subseteq Nat
  BY DEF TypeOK
<1>1. CASE UpdateProduct(a)
  <2>1. att' \in [Attempts -> AttemptStates] /\ HasRank'
    BY <1>0, <1>1, FailsType, GotoType DEF UpdateProduct, PCs
  <2>2. products' \in Seq(Products)
    <3> DEFINE p == att[a].product
               q == [products[p] EXCEPT !.title = att[a].rank, !.art = Art(a)]
    <3>1. p \in DOMAIN products => q \in Products
      <4>1. p \in DOMAIN products => products[p] \in Products
        BY DEF TypeOK
      <4> QED
        BY <4>1, <1>0, <1>f DEF Products
    <3>2. [products EXCEPT ![p] = q] \in Seq(Products)
      <4> HIDE DEF p, q
      <4> QED
        BY <3>1, SeqSet DEF TypeOK
    <3>3. products' \in {products, [products EXCEPT ![p] = q]}
      BY <1>1, Zenon DEF UpdateProduct
    <3> QED
      BY <3>2, <3>3 DEF TypeOK
  <2> QED
    BY <1>1, <2>1, <2>2 DEF UpdateProduct, TypeOK
<1>2. CASE StampFingerprint(a) \/ RecordCreateIntent(a)
  <2>1. pub' \in PublishRecords
    <3>1. /\ [pub.prog EXCEPT !.fp = Fp(a)] \in Progress
          /\ [pub.prog EXCEPT !.intent = TRUE] \in Progress
      BY <1>0, <1>f DEF PublishRecords, Progress
    <3> QED
      BY <1>0, <1>2, <3>1 DEF StampFingerprint, RecordCreateIntent, PublishRecords
  <2>2. att' \in [Attempts -> AttemptStates] /\ HasRank'
    BY <1>0, <1>2, GotoType DEF StampFingerprint, RecordCreateIntent, PCs
  <2> QED
    BY <1>2, <2>1, <2>2 DEF StampFingerprint, RecordCreateIntent, TypeOK, remote
<1>3. CASE SendCreate(a)
  BY <1>0, <1>3, <1>f, SendType DEF SendCreate, PCs
<1>4. CASE \E p \in DOMAIN products : CreateAccepted(a, p)
  <2>1. att' \in [Attempts -> AttemptStates] /\ HasRank'
    BY <1>0, <1>4, <1>s, <1>d, SetAttempt DEF CreateAccepted
  <2> QED
    BY <1>4, <2>1 DEF CreateAccepted, TypeOK, remote
<1>5. CASE CreateRejected(a)
  <2>1. att' \in [Attempts -> AttemptStates] /\ HasRank'
    BY <1>0, <1>5, GotoType DEF CreateRejected, PCs
  <2> QED
    BY <1>5, <2>1 DEF CreateRejected, TypeOK
<1>6. CASE ClearCreateIntent(a)
  <2>1. att' \in [Attempts -> AttemptStates] /\ HasRank'
    BY <1>0, <1>6, <1>r, SetAttempt DEF ClearCreateIntent, Results
  <2>2. pub' \in PublishRecords
    BY <1>0, <1>6 DEF ClearCreateIntent, PublishRecords, Progress
  <2> QED
    BY <1>6, <2>1, <2>2 DEF ClearCreateIntent, TypeOK, remote
<1>7. CASE CreateAmbiguous(a)
  <2>1. att' \in [Attempts -> AttemptStates] /\ HasRank'
    BY <1>0, <1>7, GotoType DEF CreateAmbiguous, PCs
  <2> QED
    BY <1>7, <2>1 DEF CreateAmbiguous, TypeOK, remote
<1>8. CASE Reconcile(a)
  <2>1. att' \in [Attempts -> AttemptStates] /\ HasRank'
    <3>1. CASE Cardinality(Matching(a)) = 1
      <4>1. PICK p \in Matching(a) :
              att' = [att EXCEPT ![a] = [@ EXCEPT !.pc = "save", !.product = p]]
        BY <1>8, <3>1 DEF Reconcile
      <4>2. p \in Nat
        BY <1>d DEF Matching
      <4> QED
        BY <1>0, <1>s, <4>1, <4>2, SetAttempt
    <3>2. CASE Cardinality(Matching(a)) # 1
      BY <1>0, <1>8, <1>r, <3>2, SetAttempt DEF Reconcile, Results
    <3> QED
      BY <3>1, <3>2
  <2>2. pub' \in PublishRecords
    BY <1>0, <1>8 DEF Reconcile, PublishRecords, PubStatuses
  <2> QED
    BY <1>8, <2>1, <2>2 DEF Reconcile, TypeOK, remote
<1>9. CASE ReconcileFails(a)
  <2>1. att' \in [Attempts -> AttemptStates] /\ HasRank'
    BY <1>0, <1>9, FailsType DEF ReconcileFails
  <2> QED
    BY <1>9, <2>1 DEF ReconcileFails, TypeOK, remote
<1>10. CASE SaveProduct(a)
  <2>1. pub' \in PublishRecords
    BY <1>0, <1>10, <1>f DEF SaveProduct, PublishRecords, PubStatuses, Progress, AttemptStates
  <2>2. [att[a] EXCEPT !.pc = "ready", !.prog = pub'.prog] \in AttemptStates
    BY <1>0, <2>1 DEF AttemptStates, PCs, PublishRecords
  <2>3. [att[a] EXCEPT !.pc = "ready", !.prog = pub'.prog].rank = att[a].rank
    BY <1>0 DEF AttemptStates
  <2>4. att' \in [Attempts -> AttemptStates] /\ HasRank'
    BY <1>0, <1>10, <2>2, <2>3, SetAttempt DEF SaveProduct
  <2> QED
    BY <1>10, <2>1, <2>4 DEF SaveProduct, TypeOK, remote
<1> QED
  BY <1>1, <1>2, <1>3, <1>4, <1>5, <1>6, <1>7, <1>8, <1>9, <1>10

(* The Etsy listing. *)
LEMMA ListingType ==
    ASSUME TypeOK, HasRank, NEW a \in Attempts,
           \/ DraftReady(a) \/ NotReady(a) \/ FindListing(a) \/ RecordDraftIntent(a)
           \/ SendDraft(a) \/ (\E l \in DOMAIN listings : DraftCreated(a, l)) \/ DraftFails(a)
           \/ RecordListing(a) \/ Filled(a) \/ FillFails(a) \/ Activate(a)
           \/ Link(a) \/ Deactivate(a) \/ Verify(a)
    PROVE  TypeOK' /\ HasRank'
<1> USE ConstantsAssumption
<1>0. /\ att[a] \in AttemptStates /\ att \in [Attempts -> AttemptStates]
      /\ pub \in PublishRecords /\ run \in RunRecords
      /\ wf[Main].rank \in Ranks
      /\ att[a].pc \in Working /\ att[a].rank \in Ranks
      /\ UNCHANGED wf
  BY SnapshotType DEF DraftReady, NotReady, FindListing, RecordDraftIntent, SendDraft,
     DraftCreated, DraftFails, RecordListing, Filled, FillFails, Activate, Link,
     Deactivate, Verify, remote, At, Working, PCs, Send
<1>d. DOMAIN listings \subseteq Nat
  BY DEF TypeOK
<1>l. ASSUME NEW l \in Nat, NEW o \in BOOLEAN
      PROVE  LET y == [att[a] EXCEPT !.pc = "record", !.prog.listing = l]
                 z == [att[a] EXCEPT !.pc = "record", !.prog.listing = l, !.prog.owned = o]
             IN /\ y \in AttemptStates /\ y.rank \in Ranks
                /\ z \in AttemptStates /\ z.rank \in Ranks
  <2> DEFINE pl == [att[a].prog EXCEPT !.listing = l]
             po == [pl EXCEPT !.owned = o]
             y == [att[a] EXCEPT !.pc = "record", !.prog = pl]
             z == [att[a] EXCEPT !.pc = "record", !.prog = po]
  <2>1. pl \in Progress /\ po \in Progress
    BY <1>0 DEF AttemptStates, Progress
  <2>2. y \in AttemptStates /\ y.rank \in Ranks /\ z \in AttemptStates /\ z.rank \in Ranks
    <3> HIDE DEF pl, po
    <3> QED
      BY <1>0, <2>1 DEF AttemptStates, PCs
  <2>3. /\ y = [att[a] EXCEPT !.pc = "record", !.prog.listing = l]
        /\ z = [att[a] EXCEPT !.pc = "record", !.prog.listing = l, !.prog.owned = o]
    BY <1>0 DEF AttemptStates, Progress
  <2> HIDE DEF y, z
  <2> QED
    BY <2>2, <2>3
<1>1. CASE DraftReady(a)
  <2>1. att' \in [Attempts -> AttemptStates] /\ HasRank'
    BY <1>0, <1>1, GotoType DEF DraftReady, PCs
  <2> QED
    BY <1>1, <2>1 DEF DraftReady, TypeOK, remote
<1>2. CASE NotReady(a)
  <2>1. att' \in [Attempts -> AttemptStates] /\ HasRank'
    BY <1>0, <1>2, FailsType DEF NotReady
  <2> QED
    BY <1>2, <2>1 DEF NotReady, TypeOK, remote
<1>3. CASE FindListing(a)
  <2>1. att' \in [Attempts -> AttemptStates] /\ HasRank'
    <3>1. CASE \E f \in Titled(att[a].rank) :
                 att' = [att EXCEPT ![a] = [@ EXCEPT !.pc = "record", !.prog.listing = f]]
      BY <1>0, <1>d, <1>l, <3>1, SetAttempt DEF Titled
    <3>2. CASE Goto(a, "fill") \/ Goto(a, "markDraft") \/ Goto(a, "failing")
      BY <1>0, <3>2, GotoType DEF PCs
    <3> QED
      BY <1>3, <3>1, <3>2, Zenon DEF FindListing
  <2> QED
    BY <1>3, <2>1 DEF FindListing, TypeOK, remote
<1>4. CASE RecordDraftIntent(a)
  <2> DEFINE y == [att[a] EXCEPT !.pc = "sendDraft", !.prog.draft = TRUE]
  <2>1. /\ [pub.prog EXCEPT !.draft = TRUE] \in Progress
        /\ [att[a].prog EXCEPT !.draft = TRUE] \in Progress
    BY <1>0 DEF PublishRecords, AttemptStates, Progress
  <2>2. y \in AttemptStates /\ y.rank = att[a].rank
    BY <1>0, <2>1 DEF AttemptStates, PCs
  <2>3. att' = [att EXCEPT ![a] = y]
    BY <1>4, Zenon DEF RecordDraftIntent
  <2>4. att' \in [Attempts -> AttemptStates] /\ HasRank'
    <3> HIDE DEF y
    <3> QED
      BY <1>0, <2>2, <2>3, SetAttempt
  <2>5. pub' \in PublishRecords
    BY <1>0, <1>4, <2>1 DEF RecordDraftIntent, PublishRecords
  <2> QED
    BY <1>4, <2>4, <2>5 DEF RecordDraftIntent, TypeOK, remote
<1>5. CASE SendDraft(a)
  BY <1>0, <1>5, SendType DEF SendDraft, PCs
<1>6. CASE \E l \in DOMAIN listings : DraftCreated(a, l)
  <2>1. att' \in [Attempts -> AttemptStates] /\ HasRank'
    BY <1>0, <1>6, <1>l, <1>d, SetAttempt DEF DraftCreated
  <2> QED
    BY <1>6, <2>1 DEF DraftCreated, TypeOK, remote
<1>7. CASE DraftFails(a)
  <2>1. att' \in [Attempts -> AttemptStates] /\ HasRank'
    BY <1>0, <1>7, GotoType DEF DraftFails, PCs
  <2> QED
    BY <1>7, <2>1 DEF DraftFails, TypeOK, remote
<1>8. CASE RecordListing(a)
  <2>1. att' \in [Attempts -> AttemptStates] /\ HasRank'
    BY <1>0, <1>8, GotoType DEF RecordListing, PCs
  <2>2. att[a].prog.listing \in Nat /\ att[a].prog.owned \in BOOLEAN
    BY <1>0 DEF AttemptStates, Progress
  <2>3. [[pub.prog EXCEPT !.listing = att[a].prog.listing]
                   EXCEPT !.owned = att[a].prog.owned] \in Progress
    BY <1>0, <2>2 DEF PublishRecords, Progress
  <2>4. pub' \in PublishRecords
    BY <1>0, <1>8, <2>3 DEF RecordListing, PublishRecords
  <2> QED
    BY <1>8, <2>1, <2>4 DEF RecordListing, TypeOK, remote
<1>9. CASE Filled(a)
  <2>1. att' \in [Attempts -> AttemptStates] /\ HasRank'
    BY <1>0, <1>9, GotoType DEF Filled, PCs
  <2> QED
    BY <1>9, <2>1 DEF Filled, TypeOK, remote
<1>10. CASE FillFails(a)
  <2>1. att' \in [Attempts -> AttemptStates] /\ HasRank'
    BY <1>0, <1>10, FailsType DEF FillFails
  <2> QED
    BY <1>10, <2>1 DEF FillFails, TypeOK, remote
<1>s. ASSUME NEW state \in {"active", "inactive"}, SetState(att[a].prog.listing, state)
      PROVE  listings' \in Seq(Listings)
  <2> DEFINE l == att[a].prog.listing
             q == [listings[l] EXCEPT !.state = state]
  <2>1. l \in DOMAIN listings => q \in Listings
    <3>1. l \in DOMAIN listings => listings[l] \in Listings
      BY DEF TypeOK
    <3> QED
      BY <3>1 DEF Listings
  <2>2. [listings EXCEPT ![l] = q] \in Seq(Listings)
    <3> HIDE DEF l, q
    <3> QED
      BY <2>1, SeqSet DEF TypeOK
  <2> QED
    BY <1>s, <2>2 DEF SetState
<1>11. CASE Activate(a)
  <2>1. att' \in [Attempts -> AttemptStates] /\ HasRank'
    BY <1>0, <1>11, GotoType DEF Activate, PCs
  <2>2. listings' \in Seq(Listings)
    BY <1>11, <1>s DEF Activate, TypeOK
  <2> QED
    BY <1>11, <2>1, <2>2 DEF Activate, TypeOK
<1>12. CASE Link(a)
  <2> DEFINE p == att[a].product
             q == [products[p] EXCEPT !.link = att[a].prog.listing]
  <2>1. att' \in [Attempts -> AttemptStates] /\ HasRank'
    BY <1>0, <1>12, GotoType, FailsType DEF Link, PCs
  <2>2. p \in DOMAIN products => q \in Products
    <3>1. p \in DOMAIN products => products[p] \in Products
      BY DEF TypeOK
    <3>2. att[a].prog.listing \in Nat
      BY <1>0 DEF AttemptStates, Progress
    <3> QED
      BY <3>1, <3>2 DEF Products
  <2>3. [products EXCEPT ![p] = q] \in Seq(Products)
    <3> HIDE DEF p, q
    <3> QED
      BY <2>2, SeqSet DEF TypeOK
  <2>4. products' \in {products, [products EXCEPT ![p] = q]}
    BY <1>12, Zenon DEF Link
  <2> QED
    BY <1>12, <2>1, <2>3, <2>4 DEF Link, TypeOK
<1>13. CASE Deactivate(a)
  <2>1. att' \in [Attempts -> AttemptStates] /\ HasRank'
    BY <1>0, <1>13, GotoType, FailsType DEF Deactivate, PCs
  <2>2. listings' \in Seq(Listings)
    BY <1>13, <1>s DEF Deactivate, TypeOK
  <2> QED
    BY <1>13, <2>1, <2>2 DEF Deactivate, TypeOK
<1>14. CASE Verify(a)
  <2>1. att' \in [Attempts -> AttemptStates] /\ HasRank'
    BY <1>0, <1>14, GotoType, FailsType DEF Verify, PCs
  <2> QED
    BY <1>14, <2>1 DEF Verify, TypeOK, remote
<1> QED
  BY <1>1, <1>2, <1>3, <1>4, <1>5, <1>6, <1>7, <1>8, <1>9, <1>10, <1>11, <1>12, <1>13, <1>14

(* The end of an attempt. *)
LEMMA EndingType ==
    ASSUME TypeOK, HasRank, NEW a \in Attempts,
           \/ Finish(a) \/ HandleError(a) \/ RetryBegin(a) \/ RecordFailure(a)
           \/ Report(a) \/ Crash(a)
    PROVE  TypeOK' /\ HasRank'
<1> USE ConstantsAssumption
<1>0. /\ att[a] \in AttemptStates /\ att \in [Attempts -> AttemptStates]
      /\ pub \in PublishRecords /\ run \in RunRecords
      /\ wf[Main].rank \in Ranks
      /\ UNCHANGED <<products, listings, inflight, sent>>
  BY SnapshotType DEF Finish, HandleError, RetryBegin, RecordFailure, Report, Crash, remote
<1>r. \A r \in Results : /\ Raise(att[a], r) \in AttemptStates
                         /\ Raise(att[a], r).pc \notin Working
                         /\ Done(att[a], r) \in AttemptStates
                         /\ Done(att[a], r).pc \notin Working
  BY <1>0, RaiseType, DoneType
<1>g. \A label \in {"done", "begin"} :
        /\ [att[a] EXCEPT !.pc = label] \in AttemptStates
        /\ [att[a] EXCEPT !.pc = label].pc \notin Working
  BY <1>0 DEF AttemptStates, PCs, Working
<1> SUFFICES /\ run' \in RunRecords /\ pub' \in PublishRecords
             /\ att' \in [Attempts -> AttemptStates] /\ HasRank'
             /\ wf' \in [Workflows -> WorkflowStates]
  BY <1>0 DEF TypeOK
<1>1. CASE Finish(a)
  <2>1. att' \in [Attempts -> AttemptStates] /\ HasRank'
    BY <1>0, <1>1, <1>r, SetAttempt DEF Finish, Results
  <2> QED
    BY <1>0, <1>1, <2>1 DEF Finish, TypeOK, RunRecords, PublishRecords, RunStatuses, PubStatuses
<1>2. CASE HandleError(a)
  <2>1. att' \in [Attempts -> AttemptStates] /\ HasRank'
    BY <1>0, <1>2, <1>r, SetAttempt DEF HandleError, Results
  <2>2. run' \in RunRecords
    BY <1>0, <1>2 DEF HandleError, RunRecords, RunStatuses
  <2>3. pub' \in PublishRecords
    BY <1>0, <1>2 DEF HandleError, PublishRecords, PubStatuses
  <2> QED
    BY <1>2, <2>1, <2>2, <2>3 DEF HandleError, TypeOK
<1>3. CASE RetryBegin(a)
  <2>1. att' \in [Attempts -> AttemptStates] /\ HasRank'
    BY <1>0, <1>3, <1>r, <1>g, SetAttempt DEF RetryBegin, Results, Goto
  <2>2. run' \in RunRecords
    BY <1>0, <1>3 DEF RetryBegin, RunRecords, RunStatuses
  <2> QED
    BY <1>0, <1>3, <2>1, <2>2 DEF RetryBegin, TypeOK
<1>4. CASE RecordFailure(a)
  <2>1. att' \in [Attempts -> AttemptStates] /\ HasRank'
    BY <1>0, <1>4, <1>g, SetAttempt DEF RecordFailure, Goto
  <2>2. pub' \in PublishRecords
    BY <1>0, <1>4 DEF RecordFailure, PublishRecords, PubStatuses
  <2> QED
    BY <1>0, <1>4, <2>1, <2>2 DEF RecordFailure, TypeOK
<1>5. CASE Report(a)
  <2> DEFINE w == att[a].wf
  <2>1. w \in Workflows /\ att[a].res \in Results /\ wf[w] \in WorkflowStates
    BY <1>0 DEF AttemptStates, TypeOK
  <2>2. /\ Outcome(w, wf[w], att[a].res) \in WorkflowStates
        /\ w = Main => Outcome(w, wf[w], att[a].res).rank \in Ranks
    <3> HIDE DEF w
    <3> QED
      BY <1>0, <2>1, OutcomeType
  <2>3. wf' \in [Workflows -> WorkflowStates] /\ wf'[Main].rank \in Ranks
    <3>1. wf' \in {wf, [wf EXCEPT ![w] = Outcome(w, wf[w], att[a].res)]}
      BY <1>5, Zenon DEF Report
    <3> HIDE DEF w
    <3> QED
      BY <1>0, <2>1, <2>2, <3>1, SetWorkflow DEF TypeOK
  <2>4. att' \in [Attempts -> AttemptStates] /\ HasRank'
    BY <1>0, <1>5, <2>3, IdleType, SetAttempt DEF Report
  <2> QED
    BY <1>0, <1>5, <2>3, <2>4 DEF Report
<1>6. CASE Crash(a)
  <2>1. att' \in [Attempts -> AttemptStates] /\ HasRank'
    BY <1>0, <1>6, IdleType, SetAttempt DEF Crash
  <2> QED
    BY <1>0, <1>6, <2>1 DEF Crash, TypeOK
<1> QED
  BY <1>1, <1>2, <1>3, <1>4, <1>5, <1>6

LEMMA ExecuteType ==
    ASSUME TypeOK, HasRank, NEW r \in inflight, ExecuteCreate(r)
    PROVE  TypeOK' /\ HasRank'
<1>1. r \in Requests
  BY DEF TypeOK
<1>2. /\ [title |-> r.title, art |-> r.art, link |-> None, req |-> r.n] \in Products
      /\ [title |-> r.title, state |-> "draft", req |-> r.n] \in Listings
  BY <1>1 DEF Requests, Products, Listings
<1>3. /\ \A q \in Products : Append(products, q) \in Seq(Products)
      /\ \A q \in Listings : Append(listings, q) \in Seq(Listings)
  BY DEF TypeOK
<1>4. products' \in Seq(Products) /\ listings' \in Seq(Listings)
  <2>1. CASE r.kind = "product"
    BY <1>2, <1>3, <2>1 DEF ExecuteCreate, TypeOK
  <2>2. CASE r.kind # "product"
    BY <1>2, <1>3, <2>2 DEF ExecuteCreate, TypeOK
  <2> QED
    BY <2>1, <2>2
<1> QED
  BY <1>4 DEF ExecuteCreate, TypeOK, HasRank

-----------------------------------------------------------------------------
LEMMA TypeInit == Init => TypeInv
<1> SUFFICES ASSUME Init PROVE TypeInv
  OBVIOUS
<1>1. 1 \in Ranks /\ Main \in Workflows
  BY ConstantsAssumption DEF Ranks, Workflows
<1>2. NoUploads \in Uploads /\ NoProgress \in Progress
  BY DEF NoUploads, Uploads, NoProgress, Progress, NoFingerprint, Fingerprint
<1>3. run \in RunRecords /\ pub \in PublishRecords
  BY <1>1, <1>2 DEF Init, RunRecords, PublishRecords, RunStatuses, PubStatuses
<1>4. att \in [Attempts -> AttemptStates] /\ \A a \in Attempts : att[a].pc \notin Working
  BY IdleType DEF Init
<1>5. wf \in [Workflows -> WorkflowStates] /\ wf[Main].rank \in Ranks
  BY <1>1 DEF Init, WorkflowStates, Phases
<1> QED
  BY <1>3, <1>4, <1>5 DEF Init, TypeInv, TypeOK, HasRank

LEMMA TypeStep == TypeInv /\ [Next]_vars => TypeInv'
<1> SUFFICES ASSUME TypeOK, HasRank, [Next]_vars PROVE TypeOK' /\ HasRank'
  BY DEF TypeInv
<1>1. CASE UNCHANGED vars
  BY <1>1 DEF vars, TypeOK, HasRank
<1>2. CASE Preparing
  BY <1>2, PreparingType
<1>3. CASE \E w \in Workflows : Scheduling(w)
  BY <1>3, SchedulingType
<1>4. CASE \E w \in Retries : RequestRetry(w)
  BY <1>4, SchedulingType DEF Workflows
<1>5. ASSUME NEW a \in Attempts, Publishing(a) \/ Crash(a) PROVE TypeOK' /\ HasRank'
  BY <1>5, AdmissionType, ProductType, ListingType, EndingType DEF Publishing
<1>6. CASE \E r \in inflight : ExecuteCreate(r)
  BY <1>6, ExecuteType
<1> QED
  BY <1>1, <1>2, <1>3, <1>4, <1>5, <1>6 DEF Next, Ended

(* Every reachable state is well typed: no handler stores a status, a rank  *)
(* or an identifier its record has no place for.                            *)
THEOREM TypeCorrect == Spec => []TypeOK
<1>1. TypeInv => TypeOK
  BY DEF TypeInv
<1> QED
  BY <1>1, TypeInit, TypeStep, PTL DEF Spec

-----------------------------------------------------------------------------
(* Creates are never repeated, as long as one attempt runs at a time. *)

Alone == \A a, b \in Attempts : att[a].pc # "idle" /\ att[b].pc # "idle" => a = b

NoProduct == products = <<>> /\ InFlight("product") = {}
NoListing == listings = <<>> /\ InFlight("listing") = {}

(* What an attempt may rely on at each of its steps. *)
Knows(a) ==
    /\ att[a].pc \in {"intend", "send", "rejected"} => NoProduct
    /\ att[a].pc \in {"send", "creating"} => pub.prog.intent
    /\ att[a].pc = "creating" => \A r \in inflight : r.n = att[a].req => r.kind = "product"
    /\ att[a].pc \in {"update", "stamp", "save"} => att[a].product # None
    /\ att[a].pc \in {"ready", "find"} => att[a].prog.draft = pub.prog.draft
    /\ att[a].pc \in {"markDraft", "sendDraft"} => NoListing
    /\ att[a].pc = "sendDraft" => pub.prog.draft

(* Everything the remote shops hold, or may still create, is known to the   *)
(* checkpoint; the three invariants follow.                                 *)
RemoteInv ==
    /\ OneProduct /\ OneListing
    /\ NoProduct \/ pub.prog.intent \/ pub.product # None
    /\ NoListing \/ pub.prog.draft
    /\ \A r \in inflight : r.n <= sent

CreateInv == RemoteInv /\ \A a \in Attempts : Knows(a)

LEMMA IdleKnows == ASSUME NEW a \in Attempts, att[a].pc = "idle" PROVE Knows(a)
BY DEF Knows

(* A step of an attempt that creates nothing and keeps the checkpoint. *)
LEMMA QuietStep ==
    ASSUME TypeOK, TypeOK', CreateInv, Alone, NEW a \in Attempts, att[a].pc # "idle",
           \A b \in Attempts : b # a => att'[b] = att[b],
           Len(products') = Len(products), Len(listings') = Len(listings),
           inflight' = inflight, sent' = sent,
           pub'.prog.intent = pub.prog.intent, pub'.prog.draft = pub.prog.draft,
           pub.product # None => pub'.product # None,
           Knows(a)'
    PROVE  CreateInv'
<1>1. (products' = <<>>) = (products = <<>>) /\ (listings' = <<>>) = (listings = <<>>)
  BY DEF TypeOK
<1>2. RemoteInv'
  BY <1>1 DEF CreateInv, RemoteInv, OneProduct, OneListing, AtMostOne, NoProduct, NoListing, InFlight
<1>3. ASSUME NEW b \in Attempts, b # a PROVE Knows(b)'
  BY <1>3, IdleKnows DEF Alone, Knows
<1> QED
  BY <1>2, <1>3 DEF CreateInv

(* The attempt changes its own state only. *)
LEMMA OwnState ==
    ASSUME TypeOK, NEW a \in Attempts, NEW y, att' = [att EXCEPT ![a] = y]
    PROVE  att'[a] = y /\ \A b \in Attempts : b # a => att'[b] = att[b]
BY DEF TypeOK

(* Labels whose code relies on nothing but its own checks. *)
Careless == {"idle", "retryBegin", "begin", "refresh", "upload", "reserve", "reconcile",
             "drafting", "record", "fill", "activate", "link", "unlink", "verify",
             "finish", "failing", "recording", "done"}

LEMMA CarelessKnows ==
    ASSUME NEW a \in Attempts, att[a].pc \in Careless PROVE Knows(a)
BY DEF Knows, Careless

LEMMA GotoCareless ==
    ASSUME TypeOK, TypeOK', CreateInv, Alone, NEW a \in Attempts, att[a].pc # "idle",
           Len(products') = Len(products), Len(listings') = Len(listings),
           inflight' = inflight, sent' = sent,
           pub'.prog.intent = pub.prog.intent, pub'.prog.draft = pub.prog.draft,
           pub.product # None => pub'.product # None,
           NEW y, att' = [att EXCEPT ![a] = y], y.pc \in Careless
    PROVE  CreateInv'
<1>1. att'[a] = y /\ \A b \in Attempts : b # a => att'[b] = att[b]
  BY OwnState
<1>2. Knows(a)'
  BY <1>1 DEF Knows, Careless
<1> QED
  BY <1>1, <1>2, QuietStep

LEMMA ErrorPc ==
    ASSUME NEW a \in Attempts, TypeOK
    PROVE  /\ \A r : Raise(att[a], r).pc \in Careless /\ Done(att[a], r).pc \in Careless
           /\ \A label : [att[a] EXCEPT !.pc = label].pc = label
BY DEF Raise, Done, Careless, TypeOK, AttemptStates

LEMMA FailsCareless ==
    ASSUME TypeOK, NEW a \in Attempts, Fails(a)
    PROVE  \E y : att' = [att EXCEPT ![a] = y] /\ y.pc \in Careless
<1>1. CASE att' = [att EXCEPT ![a] = Raise(@, "error")]
  BY <1>1, ErrorPc
<1>2. CASE att' = [att EXCEPT ![a].pc = "failing"]
  <2>1. [att[a] EXCEPT !.pc = "failing"].pc \in Careless
    BY ErrorPc DEF Careless
  <2> QED
    BY <1>2, <2>1
<1> QED
  BY <1>1, <1>2 DEF Fails

(* Steps that end where the code relies on nothing. *)
Harmless(a) ==
    \/ Begin(a) \/ Unchanged(a) \/ Drift(a) \/ RefreshFails(a) \/ Upload(a) \/ UploadFails(a)
    \/ CreateAmbiguous(a) \/ ReconcileFails(a) \/ NotReady(a) \/ DraftFails(a)
    \/ (\E l \in DOMAIN listings : DraftCreated(a, l)) \/ RecordListing(a)
    \/ Filled(a) \/ FillFails(a) \/ Activate(a) \/ Link(a) \/ Deactivate(a) \/ Verify(a)
    \/ Finish(a) \/ HandleError(a) \/ RetryBegin(a) \/ RecordFailure(a) \/ Report(a) \/ Crash(a)

LEMMA HarmlessAttempt ==
    ASSUME TypeOK, NEW a \in Attempts, Harmless(a)
    PROVE  /\ att[a].pc # "idle"
           /\ \E y : att' = [att EXCEPT ![a] = y] /\ y.pc \in Careless
<1> DEFINE Ok == \E y : att' = [att EXCEPT ![a] = y] /\ y.pc \in Careless
<1>0. att[a] \in AttemptStates
  BY DEF TypeOK
<1>g. ASSUME NEW label \in Careless, Goto(a, label) PROVE Ok
  <2>1. [att[a] EXCEPT !.pc = label].pc \in Careless
    BY ErrorPc
  <2> QED
    BY <1>g, <2>1 DEF Goto
<1>f. Fails(a) => Ok
  BY FailsCareless
<1>r. \A r : att' = [att EXCEPT ![a] = Raise(@, r)] \/ att' = [att EXCEPT ![a] = Done(@, r)] => Ok
  BY ErrorPc
<1>i. att' = [att EXCEPT ![a] = IdleAttempt] => Ok
  <2>1. IdleAttempt.pc \in Careless
    BY DEF IdleAttempt, Careless
  <2> QED
    BY <2>1
<1>pc. att[a].pc # "idle"
  BY DEF Harmless, Begin, Unchanged, Drift, RefreshFails, Upload, UploadFails, CreateAmbiguous,
     ReconcileFails, NotReady, DraftFails, DraftCreated, RecordListing, Filled, FillFails,
     Activate, Link, Deactivate, Verify, Finish, HandleError, RetryBegin, RecordFailure,
     Report, Crash, At
<1> SUFFICES Ok
  BY <1>pc
<1> HIDE DEF Ok
<1>1. CASE Begin(a)
  <2> DEFINE y == [att[a] EXCEPT !.pc = "refresh", !.rank = run.selected,
                       !.uploads = pub.uploads, !.first = pub.first, !.product = pub.product]
  <2>1. y.pc \in Careless
    BY <1>0 DEF AttemptStates, Careless
  <2>2. att' = [att EXCEPT ![a] = y] => Ok
    <3> HIDE DEF y
    <3> QED
      BY <2>1 DEF Ok
  <2>3. \/ \E r : att' = [att EXCEPT ![a] = Done(@, r)] \/ att' = [att EXCEPT ![a] = Raise(@, r)]
        \/ att' = [att EXCEPT ![a] = y]
    <3>1. CASE run.status = "published" /\ pub.status = "succeeded"
      BY <1>1, <3>1 DEF Begin
    <3>2. CASE /\ ~(run.status = "published" /\ pub.status = "succeeded")
               /\ run.status # "publishing" \/ run.selected = None \/ run.package # run.selected
      BY <1>1, <3>2 DEF Begin
    <3>3. CASE /\ ~(run.status = "published" /\ pub.status = "succeeded")
               /\ ~(run.status # "publishing" \/ run.selected = None \/ run.package # run.selected)
      BY <1>1, <3>3 DEF Begin
    <3> QED
      BY <3>1, <3>2, <3>3
  <2> QED
    BY <2>2, <2>3, <1>r
<1>2. CASE Unchanged(a) \/ UploadFails(a) \/ CreateAmbiguous(a) \/ ReconcileFails(a) \/ NotReady(a)
  BY <1>2, <1>g, <1>f DEF Unchanged, UploadFails, CreateAmbiguous, ReconcileFails, NotReady, Careless
<1>3. CASE Drift(a)
  BY <1>3, <1>r DEF Drift
<1>4. CASE RefreshFails(a)
  BY <1>4, <1>r DEF RefreshFails
<1>5. CASE Upload(a)
  <2> DEFINE sig == SurfaceOf[att[a].rank]
             art == IF att[a].uploads[sig] # None THEN att[a].uploads[sig] ELSE att[a].rank
             y == [att[a] EXCEPT !.pc = "reserve", !.uploads[sig] = art,
                      !.first = IF att[a].first = None THEN art ELSE att[a].first]
  <2>1. att' = [att EXCEPT ![a] = y]
    BY <1>5, Zenon DEF Upload
  <2>2. y.pc \in Careless
    BY <1>0 DEF AttemptStates, Careless
  <2> HIDE DEF y
  <2> QED
    BY <2>1, <2>2 DEF Ok
<1>6. CASE DraftFails(a) \/ RecordListing(a) \/ Filled(a) \/ FillFails(a) \/ Activate(a)
  BY <1>6, <1>g, <1>f DEF DraftFails, RecordListing, Filled, FillFails, Activate, Careless
<1>7. CASE Link(a) \/ Deactivate(a) \/ Verify(a)
  BY <1>7, <1>g, <1>f DEF Link, Deactivate, Verify, Careless
<1>8. CASE \E l \in DOMAIN listings : DraftCreated(a, l)
  <2> PICK l \in DOMAIN listings : DraftCreated(a, l)
    BY <1>8
  <2> DEFINE y == [att[a] EXCEPT !.pc = "record", !.prog.listing = l, !.prog.owned = TRUE]
  <2>1. att' = [att EXCEPT ![a] = y]
    BY Zenon DEF DraftCreated
  <2>2. y.pc \in Careless
    BY <1>0 DEF AttemptStates, Careless
  <2> HIDE DEF y
  <2> QED
    BY <2>1, <2>2 DEF Ok
<1>9. CASE Finish(a)
  BY <1>9, <1>r DEF Finish
<1>10. CASE HandleError(a)
  BY <1>10, <1>r DEF HandleError
<1>11. CASE RetryBegin(a)
  BY <1>11, <1>r, <1>g DEF RetryBegin, Careless
<1>12. CASE RecordFailure(a)
  BY <1>12, <1>g DEF RecordFailure, Careless
<1>13. CASE Report(a) \/ Crash(a)
  BY <1>13, <1>i DEF Report, Crash
<1> QED
  BY <1>1, <1>2, <1>3, <1>4, <1>5, <1>6, <1>7, <1>8, <1>9, <1>10, <1>11, <1>12, <1>13
     DEF Harmless

LEMMA HarmlessRemote ==
    ASSUME TypeOK, NEW a \in Attempts, Harmless(a)
    PROVE  /\ Len(products') = Len(products) /\ Len(listings') = Len(listings)
           /\ inflight' = inflight /\ sent' = sent
           /\ pub'.prog.intent = pub.prog.intent /\ pub'.prog.draft = pub.prog.draft
           /\ pub'.product = pub.product
<1>1. CASE Activate(a) \/ Deactivate(a)
  BY <1>1 DEF Activate, Deactivate, SetState, TypeOK
<1>2. CASE Link(a)
  BY <1>2 DEF Link, TypeOK
<1>3. CASE Finish(a) \/ HandleError(a) \/ RecordFailure(a)
  <2>1. \A st : /\ [pub EXCEPT !.status = st].prog = pub.prog
                /\ [pub EXCEPT !.status = st].product = pub.product
    BY DEF TypeOK, PublishRecords
  <2> QED
    BY <1>3, <2>1 DEF Finish, HandleError, RecordFailure, remote
<1>4. CASE RecordListing(a)
  BY <1>4 DEF RecordListing, remote, TypeOK, PublishRecords, Progress
<1>5. CASE \/ Begin(a) \/ Unchanged(a) \/ Drift(a) \/ RefreshFails(a) \/ Upload(a)
           \/ UploadFails(a) \/ CreateAmbiguous(a) \/ ReconcileFails(a) \/ NotReady(a)
           \/ DraftFails(a) \/ (\E l \in DOMAIN listings : DraftCreated(a, l))
           \/ Filled(a) \/ FillFails(a) \/ Verify(a) \/ RetryBegin(a) \/ Report(a) \/ Crash(a)
  BY <1>5 DEF Begin, Unchanged, Drift, RefreshFails, Upload, UploadFails, CreateAmbiguous,
     ReconcileFails, NotReady, DraftFails, DraftCreated, Filled, FillFails, Verify,
     RetryBegin, Report, Crash, remote
<1> QED
  BY <1>1, <1>2, <1>3, <1>4, <1>5 DEF Harmless

LEMMA HarmlessStep ==
    ASSUME TypeOK, TypeOK', CreateInv, Alone, NEW a \in Attempts, Harmless(a)
    PROVE  CreateInv'
BY HarmlessAttempt, HarmlessRemote, GotoCareless

(* The steps a create depends on. *)
LEMMA ProductStep ==
    ASSUME TypeOK, TypeOK', CreateInv, Alone, NEW a \in Attempts,
           \/ Reserve(a) \/ UpdateProduct(a) \/ StampFingerprint(a) \/ RecordCreateIntent(a)
           \/ SendCreate(a) \/ (\E p \in DOMAIN products : CreateAccepted(a, p))
           \/ CreateRejected(a) \/ ClearCreateIntent(a) \/ Reconcile(a) \/ SaveProduct(a)
    PROVE  CreateInv'
<1>0. /\ att[a] \in AttemptStates /\ pub \in PublishRecords /\ pub.prog \in Progress
      /\ sent \in Nat /\ inflight \subseteq Requests /\ RemoteInv /\ Knows(a)
  BY DEF TypeOK, CreateInv, PublishRecords
<1>pc. att[a].pc # "idle"
  BY DEF Reserve, UpdateProduct, StampFingerprint, RecordCreateIntent, SendCreate,
     CreateAccepted, CreateRejected, ClearCreateIntent, Reconcile, SaveProduct, At
<1>own. ASSUME NEW y, att' = [att EXCEPT ![a] = y]
        PROVE  att'[a] = y /\ \A b \in Attempts : b # a => att'[b] = att[b]
  BY <1>own, OwnState
<1>others. ASSUME NEW b \in Attempts, b # a, att'[b] = att[b] PROVE Knows(b)'
  BY <1>others, <1>pc, IdleKnows DEF Alone, Knows
<1>1. CASE Reserve(a)
  <2>1. CASE pub.status = "succeeded"
    BY <1>1, <1>pc, <2>1, ErrorPc, GotoCareless DEF Reserve, remote
  <2>2. CASE pub.status # "succeeded"
    <3> DEFINE product == IF pub.product # None THEN pub.product ELSE att[a].product
               y == [att[a] EXCEPT !.pc = Branch(a, product), !.product = product,
                                   !.prog = pub.prog]
    <3>1. att' = [att EXCEPT ![a] = y]
      BY <1>1, <2>2, Zenon DEF Reserve
    <3>2. /\ y.pc = Branch(a, product) /\ y.product = product /\ y.prog = pub.prog
      BY <1>0 DEF AttemptStates
    <3>3. /\ Branch(a, product) \in {"update", "save", "reconcile", "intend"}
          /\ Branch(a, product) \in {"update", "save"} => product # None
          /\ Branch(a, product) = "intend" => pub.product = None /\ ~pub.prog.intent
      BY DEF Branch
    <3>4. /\ pub'.prog = pub.prog /\ pub'.product = pub.product
          /\ UNCHANGED <<products, listings, inflight, sent>>
      BY <1>0, <1>1, <2>2 DEF Reserve, remote, PublishRecords
    <3> HIDE DEF product, y
    <3>5. att'[a] = y /\ \A b \in Attempts : b # a => att'[b] = att[b]
      BY <3>1, <1>own
    <3>6. Knows(a)'
      <4>1. Branch(a, product) = "intend" => NoProduct'
        BY <1>0, <3>3, <3>4 DEF RemoteInv, NoProduct, InFlight
      <4> QED
        BY <3>2, <3>3, <3>5, <4>1 DEF Knows
    <3> QED
      BY <1>pc, <3>4, <3>5, <3>6, QuietStep
  <2> QED
    BY <2>1, <2>2
<1>2. CASE UpdateProduct(a)
  <2>1. Len(products') = Len(products) /\ UNCHANGED <<listings, inflight, sent, pub>>
    BY <1>2 DEF UpdateProduct, TypeOK
  <2>2. CASE Fails(a)
    BY <1>pc, <2>1, <2>2, FailsCareless, GotoCareless
  <2>3. CASE Goto(a, "stamp")
    <3>1. att'[a] = [att[a] EXCEPT !.pc = "stamp"] /\ \A b \in Attempts : b # a => att'[b] = att[b]
      BY <2>3, <1>own DEF Goto
    <3>2. att[a].product # None
      BY <1>0, <1>2 DEF UpdateProduct, At, Knows
    <3>3. Knows(a)'
      BY <1>0, <3>1, <3>2 DEF Knows, AttemptStates
    <3> QED
      BY <1>pc, <2>1, <3>1, <3>3, QuietStep
  <2> QED
    BY <1>2, <2>2, <2>3 DEF UpdateProduct
<1>3. CASE StampFingerprint(a)
  <2>1. att'[a] = [att[a] EXCEPT !.pc = "save"] /\ \A b \in Attempts : b # a => att'[b] = att[b]
    BY <1>3, <1>own DEF StampFingerprint, Goto
  <2>2. /\ UNCHANGED <<products, listings, inflight, sent>>
        /\ pub'.prog.intent = pub.prog.intent /\ pub'.prog.draft = pub.prog.draft
        /\ pub'.product = pub.product
    BY <1>0, <1>3 DEF StampFingerprint, remote, PublishRecords, Progress
  <2>3. Knows(a)'
    BY <1>0, <1>3, <2>1 DEF Knows, AttemptStates, StampFingerprint, At
  <2> QED
    BY <1>pc, <2>1, <2>2, <2>3, QuietStep
<1>4. CASE RecordCreateIntent(a)
  <2>1. att'[a] = [att[a] EXCEPT !.pc = "send"] /\ \A b \in Attempts : b # a => att'[b] = att[b]
    BY <1>4, <1>own DEF RecordCreateIntent, Goto
  <2>2. /\ UNCHANGED <<products, listings, inflight, sent>>
        /\ pub'.prog.intent /\ pub'.prog.draft = pub.prog.draft
        /\ pub'.product = pub.product
    BY <1>0, <1>4 DEF RecordCreateIntent, remote, PublishRecords, Progress
  <2>3. NoProduct'
    BY <1>0, <1>4, <2>2 DEF RecordCreateIntent, Knows, At, NoProduct, InFlight
  <2>4. Knows(a)'
    BY <1>0, <2>1, <2>2, <2>3 DEF Knows, AttemptStates
  <2>5. RemoteInv'
    BY <1>0, <2>2, <2>3 DEF RemoteInv, OneProduct, OneListing, AtMostOne, InFlight, NoListing
  <2> QED
    BY <2>1, <2>4, <2>5, <1>others DEF CreateInv
<1>5. CASE SendCreate(a)
  <2> DEFINE r == [kind |-> "product", n |-> sent + 1, title |-> att[a].rank, art |-> Art(a)]
             y == [att[a] EXCEPT !.pc = "creating", !.req = sent + 1]
  <2>1. att' = [att EXCEPT ![a] = y] /\ y.pc = "creating" /\ y.req = sent + 1
    <3>1. att' = [att EXCEPT ![a] = y]
      BY <1>5, Zenon DEF SendCreate, Send
    <3> QED
      BY <1>0, <3>1 DEF AttemptStates
  <2>2. /\ inflight' = inflight \cup {r} /\ sent' = sent + 1 /\ r.kind = "product"
        /\ r.n = sent + 1 /\ UNCHANGED <<products, listings, pub>>
    BY <1>5 DEF SendCreate, Send
  <2>3. NoProduct /\ pub.prog.intent
    BY <1>0, <1>5 DEF SendCreate, At, Knows
  <2> HIDE DEF r, y
  <2>4. att'[a] = y /\ \A b \in Attempts : b # a => att'[b] = att[b]
    BY <2>1, <1>own
  <2>5. InFlight("product")' = {r} /\ InFlight("listing")' = InFlight("listing")
    BY <2>2, <2>3 DEF InFlight, NoProduct
  <2>6. \A q \in inflight' : q.n <= sent' /\ (q.n = sent + 1 => q.kind = "product")
    BY <1>0, <2>2 DEF RemoteInv, Requests
  <2>7. RemoteInv'
    <3>1. OneProduct' /\ OneListing'
      BY <1>0, <2>2, <2>3, <2>5 DEF RemoteInv, OneProduct, OneListing, AtMostOne, NoProduct
    <3> QED
      BY <1>0, <2>2, <2>3, <2>5, <2>6, <3>1 DEF RemoteInv, NoListing
  <2>8. Knows(a)'
    BY <2>1, <2>2, <2>3, <2>4, <2>6 DEF Knows
  <2> QED
    BY <2>4, <2>7, <2>8, <1>others DEF CreateInv
<1>6. CASE \E p \in DOMAIN products : CreateAccepted(a, p)
  <2> PICK p \in DOMAIN products : CreateAccepted(a, p)
    BY <1>6
  <2>1. p # None
    BY DEF TypeOK
  <2>2. att'[a] = [att[a] EXCEPT !.pc = "save", !.product = p]
        /\ \A b \in Attempts : b # a => att'[b] = att[b]
    BY <1>own DEF CreateAccepted
  <2>3. Knows(a)'
    BY <1>0, <2>1, <2>2 DEF Knows, AttemptStates
  <2> QED
    BY <1>pc, <2>2, <2>3, QuietStep DEF CreateAccepted, remote
<1>7. CASE CreateRejected(a)
  <2>1. att'[a] = [att[a] EXCEPT !.pc = "rejected"] /\ \A b \in Attempts : b # a => att'[b] = att[b]
    BY <1>7, <1>own DEF CreateRejected, Goto
  <2> PICK r \in inflight : r.n = att[a].req /\ inflight' = inflight \ {r}
    BY <1>7 DEF CreateRejected
  <2>2. r.kind = "product"
    BY <1>0, <1>7 DEF CreateRejected, At, Knows
  <2>3. UNCHANGED <<pub, products, listings, sent>>
    BY <1>7 DEF CreateRejected
  <2>4. NoProduct'
    BY <1>0, <2>2, <2>3 DEF RemoteInv, OneProduct, AtMostOne, NoProduct, InFlight
  <2>5. Knows(a)'
    BY <1>0, <2>1, <2>4 DEF Knows, AttemptStates
  <2>6. InFlight("listing")' = InFlight("listing")
    BY <2>2 DEF InFlight
  <2>7. RemoteInv'
    <3>1. OneProduct' /\ OneListing'
      BY <1>0, <2>3, <2>4, <2>6 DEF RemoteInv, OneProduct, OneListing, AtMostOne, NoProduct
    <3> QED
      BY <1>0, <2>3, <2>4, <2>6, <3>1 DEF RemoteInv, NoListing
  <2> QED
    BY <2>1, <2>5, <2>7, <1>others DEF CreateInv
<1>8. CASE ClearCreateIntent(a)
  <2>1. PICK y : att' = [att EXCEPT ![a] = y] /\ y.pc \in Careless
    BY <1>8, ErrorPc DEF ClearCreateIntent
  <2>2. att'[a] = y /\ \A b \in Attempts : b # a => att'[b] = att[b]
    BY <2>1, <1>own
  <2>3. /\ UNCHANGED <<products, listings, inflight, sent>>
        /\ pub'.prog.draft = pub.prog.draft /\ pub'.product = pub.product
    BY <1>0, <1>8 DEF ClearCreateIntent, remote, PublishRecords, Progress
  <2>4. NoProduct'
    BY <1>0, <1>8, <2>3 DEF ClearCreateIntent, At, Knows, NoProduct, InFlight
  <2>5. RemoteInv'
    BY <1>0, <2>3, <2>4 DEF RemoteInv, OneProduct, OneListing, AtMostOne, InFlight, NoListing
  <2>6. Knows(a)'
    BY <2>1, <2>2 DEF Knows, Careless
  <2> QED
    BY <2>2, <2>5, <2>6, <1>others DEF CreateInv
<1>9. CASE Reconcile(a)
  <2>1. CASE Cardinality(Matching(a)) = 1
    <3> PICK p \in Matching(a) : att' = [att EXCEPT ![a] = [@ EXCEPT !.pc = "save", !.product = p]]
      BY <1>9, <2>1 DEF Reconcile
    <3>1. p \in Nat /\ p # None
      BY DEF Matching, TypeOK
    <3> DEFINE y == [att[a] EXCEPT !.pc = "save", !.product = p]
    <3>2. y.pc = "save" /\ y.product # None
      BY <1>0, <3>1 DEF AttemptStates
    <3>3. att' = [att EXCEPT ![a] = y]
      BY Zenon
    <3> HIDE DEF y
    <3>5. att'[a] = y /\ \A b \in Attempts : b # a => att'[b] = att[b]
      BY <3>3, <1>own
    <3>6. Knows(a)'
      BY <3>2, <3>5 DEF Knows
    <3>4. UNCHANGED <<products, listings, inflight, sent, pub>>
      BY <1>9, <2>1 DEF Reconcile, remote
    <3> QED
      BY <1>pc, <3>4, <3>5, <3>6, QuietStep
  <2>2. CASE Cardinality(Matching(a)) # 1
    <3>1. /\ UNCHANGED <<products, listings, inflight, sent>>
          /\ pub'.prog = pub.prog /\ pub'.product = pub.product
      BY <1>0, <1>9, <2>2 DEF Reconcile, remote, PublishRecords
    <3>2. \E y : att' = [att EXCEPT ![a] = y] /\ y.pc \in Careless
      BY <1>9, <2>2, ErrorPc DEF Reconcile
    <3> QED
      BY <1>pc, <3>1, <3>2, GotoCareless
  <2> QED
    BY <2>1, <2>2
<1>10. CASE SaveProduct(a)
  <2>1. att[a].product # None
    BY <1>0, <1>10 DEF SaveProduct, At, Knows
  <2>2. /\ UNCHANGED <<products, listings, inflight, sent>>
        /\ pub'.product # None
        /\ pub'.prog.intent = pub.prog.intent /\ pub'.prog.draft = pub.prog.draft
    BY <1>0, <1>10, <2>1 DEF SaveProduct, remote, PublishRecords, Progress
  <2>3. att'[a] = [att[a] EXCEPT !.pc = "ready", !.prog = pub'.prog]
        /\ \A b \in Attempts : b # a => att'[b] = att[b]
    BY <1>10, <1>own DEF SaveProduct
  <2>4. Knows(a)'
    BY <1>0, <2>3 DEF Knows, AttemptStates
  <2> QED
    BY <1>pc, <2>2, <2>3, <2>4, QuietStep
<1> QED
  BY <1>1, <1>2, <1>3, <1>4, <1>5, <1>6, <1>7, <1>8, <1>9, <1>10

LEMMA ListingStep ==
    ASSUME TypeOK, TypeOK', CreateInv, Alone, NEW a \in Attempts,
           DraftReady(a) \/ FindListing(a) \/ RecordDraftIntent(a) \/ SendDraft(a)
    PROVE  CreateInv'
<1>0. /\ att[a] \in AttemptStates /\ pub \in PublishRecords /\ pub.prog \in Progress
      /\ sent \in Nat /\ inflight \subseteq Requests /\ RemoteInv /\ Knows(a)
  BY DEF TypeOK, CreateInv, PublishRecords
<1>pc. att[a].pc # "idle"
  BY DEF DraftReady, FindListing, RecordDraftIntent, SendDraft, At
<1>own. ASSUME NEW y, att' = [att EXCEPT ![a] = y]
        PROVE  att'[a] = y /\ \A b \in Attempts : b # a => att'[b] = att[b]
  BY <1>own, OwnState
<1>others. ASSUME NEW b \in Attempts, b # a, att'[b] = att[b] PROVE Knows(b)'
  BY <1>others, <1>pc, IdleKnows DEF Alone, Knows
<1>1. CASE DraftReady(a)
  <2>1. att'[a] = [att[a] EXCEPT !.pc = "find"] /\ \A b \in Attempts : b # a => att'[b] = att[b]
    BY <1>1, <1>own DEF DraftReady, Goto
  <2>2. Knows(a)'
    BY <1>0, <1>1, <2>1 DEF Knows, AttemptStates, DraftReady, At
  <2> QED
    BY <1>1, <1>pc, <2>1, <2>2, QuietStep DEF DraftReady, remote
<1>2. CASE FindListing(a)
  <2>0. UNCHANGED <<products, listings, inflight, sent, pub>>
    BY <1>2 DEF FindListing, remote
  <2>1. CASE ~att[a].prog.draft /\ Goto(a, "markDraft")
    <3>1. att'[a] = [att[a] EXCEPT !.pc = "markDraft"] /\ \A b \in Attempts : b # a => att'[b] = att[b]
      BY <2>1, <1>own DEF Goto
    <3>2. NoListing'
      BY <1>0, <1>2, <2>0, <2>1 DEF FindListing, At, Knows, RemoteInv, NoListing, InFlight
    <3>3. Knows(a)'
      BY <1>0, <3>1, <3>2 DEF Knows, AttemptStates
    <3> QED
      BY <1>pc, <2>0, <3>1, <3>3, QuietStep
  <2>2. CASE \E y : att' = [att EXCEPT ![a] = y] /\ y.pc \in Careless
    BY <1>pc, <2>0, <2>2, GotoCareless
  <2>3. \/ ~att[a].prog.draft /\ Goto(a, "markDraft")
        \/ Goto(a, "fill") \/ Goto(a, "failing")
        \/ \E f : att' = [att EXCEPT ![a] = [@ EXCEPT !.pc = "record", !.prog.listing = f]]
    BY <1>2, Zenon DEF FindListing
  <2>4. ASSUME NEW label \in Careless, Goto(a, label)
        PROVE  \E y : att' = [att EXCEPT ![a] = y] /\ y.pc \in Careless
    <3>1. [att[a] EXCEPT !.pc = label].pc \in Careless
      BY ErrorPc
    <3> QED
      BY <2>4, <3>1 DEF Goto
  <2>5. ASSUME NEW f, att' = [att EXCEPT ![a] = [@ EXCEPT !.pc = "record", !.prog.listing = f]]
        PROVE  \E y : att' = [att EXCEPT ![a] = y] /\ y.pc \in Careless
    <3> DEFINE y == [att[a] EXCEPT !.pc = "record", !.prog.listing = f]
    <3>1. y.pc \in Careless
      BY <1>0 DEF AttemptStates, Careless
    <3>2. att' = [att EXCEPT ![a] = y]
      BY <2>5, Zenon
    <3> HIDE DEF y
    <3> QED
      BY <3>1, <3>2
  <2> QED
    BY <2>1, <2>2, <2>3, <2>4, <2>5 DEF Careless
<1>3. CASE RecordDraftIntent(a)
  <2> DEFINE y == [att[a] EXCEPT !.pc = "sendDraft", !.prog.draft = TRUE]
  <2>1. att' = [att EXCEPT ![a] = y]
    BY <1>3, Zenon DEF RecordDraftIntent
  <2>2. y.pc = "sendDraft"
    BY <1>0 DEF AttemptStates
  <2> HIDE DEF y
  <2>3. att'[a] = y /\ \A b \in Attempts : b # a => att'[b] = att[b]
    BY <2>1, <1>own
  <2>4. /\ UNCHANGED <<products, listings, inflight, sent>>
        /\ pub'.prog.draft /\ pub'.prog.intent = pub.prog.intent
        /\ pub'.product = pub.product
    BY <1>0, <1>3 DEF RecordDraftIntent, remote, PublishRecords, Progress
  <2>5. NoListing'
    BY <1>0, <1>3, <2>4 DEF RecordDraftIntent, Knows, At, NoListing, InFlight
  <2>6. Knows(a)'
    BY <2>2, <2>3, <2>4, <2>5 DEF Knows
  <2>7. RemoteInv'
    BY <1>0, <2>4, <2>5 DEF RemoteInv, OneProduct, OneListing, AtMostOne, InFlight, NoProduct
  <2> QED
    BY <2>3, <2>6, <2>7, <1>others DEF CreateInv
<1>4. CASE SendDraft(a)
  <2> DEFINE r == [kind |-> "listing", n |-> sent + 1, title |-> att[a].rank, art |-> None]
             y == [att[a] EXCEPT !.pc = "drafting", !.req = sent + 1]
  <2>1. att' = [att EXCEPT ![a] = y] /\ y.pc = "drafting"
    <3>1. att' = [att EXCEPT ![a] = y]
      BY <1>4, Zenon DEF SendDraft, Send
    <3> QED
      BY <1>0, <3>1 DEF AttemptStates
  <2>2. /\ inflight' = inflight \cup {r} /\ sent' = sent + 1 /\ r.kind = "listing"
        /\ r.n = sent + 1 /\ UNCHANGED <<products, listings, pub>>
    BY <1>4 DEF SendDraft, Send
  <2>3. NoListing /\ pub.prog.draft
    BY <1>0, <1>4 DEF SendDraft, At, Knows
  <2> HIDE DEF r, y
  <2>4. att'[a] = y /\ \A b \in Attempts : b # a => att'[b] = att[b]
    BY <2>1, <1>own
  <2>5. InFlight("listing")' = {r} /\ InFlight("product")' = InFlight("product")
    BY <2>2, <2>3 DEF InFlight, NoListing
  <2>6. \A q \in inflight' : q.n <= sent'
    BY <1>0, <2>2 DEF RemoteInv, Requests
  <2>7. RemoteInv'
    <3>1. OneProduct' /\ OneListing'
      BY <1>0, <2>2, <2>3, <2>5 DEF RemoteInv, OneProduct, OneListing, AtMostOne, NoListing
    <3> QED
      BY <1>0, <2>2, <2>3, <2>5, <2>6, <3>1 DEF RemoteInv, NoProduct
  <2>8. Knows(a)'
    BY <2>1, <2>4 DEF Knows
  <2> QED
    BY <2>4, <2>7, <2>8, <1>others DEF CreateInv
<1> QED
  BY <1>1, <1>2, <1>3, <1>4

-----------------------------------------------------------------------------
LEMMA CreateInit == Init => CreateInv
<1> SUFFICES ASSUME Init PROVE CreateInv
  OBVIOUS
<1>1. RemoteInv
  BY DEF Init, RemoteInv, OneProduct, OneListing, AtMostOne, NoProduct, NoListing, InFlight
<1>2. \A a \in Attempts : att[a].pc = "idle"
  BY DEF Init, IdleAttempt
<1> QED
  BY <1>1, <1>2, IdleKnows DEF CreateInv

(* The workflows and the remote services change nothing an attempt relies on. *)
LEMMA EnvironmentStep ==
    ASSUME TypeOK, TypeOK', CreateInv,
           \/ Preparing \/ (\E w \in Workflows : Scheduling(w))
           \/ (\E w \in Retries : RequestRetry(w)) \/ UNCHANGED vars
    PROVE  CreateInv'
<1>1. UNCHANGED <<pub, products, listings, inflight, sent>>
  BY DEF Preparing, BeginPrepare, Approve, RejectInPreparation, SkipIneligible, PreparationFails,
     FinishNoQualified, MarkFailed, Scheduling, RequestRetry, Start, Expire,
     ReadRetryStatus, FinishRetry, remote, vars
<1>2. RemoteInv'
  BY <1>1 DEF CreateInv, RemoteInv, OneProduct, OneListing, AtMostOne, NoProduct, NoListing, InFlight
<1>3. ASSUME NEW b \in Attempts PROVE Knows(b)'
  <2>1. CASE att'[b] = att[b]
    BY <1>1, <2>1 DEF CreateInv, Knows, NoProduct, NoListing, InFlight
  <2>2. CASE \E w \in Workflows, a \in Attempts : Start(w, a)
    <3> PICK w \in Workflows, a \in Attempts : Start(w, a)
      BY <2>2
    <3> DEFINE y == [IdleAttempt EXCEPT !.wf = w,
                        !.pc = IF w = Main THEN "begin" ELSE "retryBegin"]
    <3>1. y.pc \in Careless
      BY DEF IdleAttempt, Careless
    <3>2. att' = [att EXCEPT ![a] = y]
      BY Zenon DEF Start
    <3> HIDE DEF y
    <3>3. att'[a] = y /\ (b # a => att'[b] = att[b])
      BY <3>2, OwnState
    <3> QED
      BY <2>1, <3>1, <3>3 DEF Knows, Careless
  <2> QED
    BY <2>1, <2>2 DEF Preparing, BeginPrepare, Approve, RejectInPreparation, SkipIneligible,
       PreparationFails, FinishNoQualified, MarkFailed, Scheduling, RequestRetry, Expire,
       ReadRetryStatus, FinishRetry, vars
<1> QED
  BY <1>2, <1>3 DEF CreateInv

LEMMA ExecuteStep ==
    ASSUME TypeOK, CreateInv, NEW r \in inflight, ExecuteCreate(r)
    PROVE  CreateInv'
<1>0. RemoteInv /\ r.kind \in {"product", "listing"}
  BY DEF CreateInv, TypeOK, Requests
<1>1. /\ inflight' = inflight \ {r} /\ UNCHANGED <<pub, sent, att>>
  BY DEF ExecuteCreate
<1>2. CASE r.kind = "product"
  <2>1. /\ Len(products') = Len(products) + 1 /\ products' # <<>> /\ listings' = listings
    BY <1>2 DEF ExecuteCreate, TypeOK
  <2>2. products = <<>>
    BY <1>0, <1>2 DEF RemoteInv, OneProduct, AtMostOne, InFlight
  <2>3. InFlight("product")' = {} /\ InFlight("listing")' = InFlight("listing")
    BY <1>0, <1>1, <1>2 DEF RemoteInv, OneProduct, AtMostOne, InFlight
  <2>4. ~NoProduct /\ (NoListing' <=> NoListing)
    BY <1>2, <2>1, <2>3 DEF NoProduct, NoListing, InFlight
  <2>5. RemoteInv'
    <3>1. OneProduct' /\ OneListing'
      BY <1>0, <2>1, <2>2, <2>3 DEF RemoteInv, OneProduct, OneListing, AtMostOne
    <3> QED
      BY <1>0, <1>1, <2>4, <3>1 DEF RemoteInv
  <2>6. \A a \in Attempts : Knows(a)'
    BY <1>1, <2>4 DEF CreateInv, Knows
  <2> QED
    BY <2>5, <2>6 DEF CreateInv
<1>3. CASE r.kind = "listing"
  <2>1. /\ Len(listings') = Len(listings) + 1 /\ listings' # <<>> /\ products' = products
    BY <1>3 DEF ExecuteCreate, TypeOK
  <2>2. listings = <<>>
    BY <1>0, <1>3 DEF RemoteInv, OneListing, AtMostOne, InFlight
  <2>3. InFlight("listing")' = {} /\ InFlight("product")' = InFlight("product")
    BY <1>0, <1>1, <1>3 DEF RemoteInv, OneListing, AtMostOne, InFlight
  <2>4. ~NoListing /\ (NoProduct' <=> NoProduct)
    BY <1>3, <2>1, <2>3 DEF NoProduct, NoListing, InFlight
  <2>5. RemoteInv'
    <3>1. OneProduct' /\ OneListing'
      BY <1>0, <2>1, <2>2, <2>3 DEF RemoteInv, OneProduct, OneListing, AtMostOne
    <3> QED
      BY <1>0, <1>1, <2>4, <3>1 DEF RemoteInv
  <2>6. \A a \in Attempts : Knows(a)'
    BY <1>1, <2>4 DEF CreateInv, Knows
  <2> QED
    BY <2>5, <2>6 DEF CreateInv
<1> QED
  BY <1>0, <1>2, <1>3

LEMMA CreateStep == TypeOK /\ TypeOK' /\ Alone /\ CreateInv /\ [Next]_vars => CreateInv'
<1> SUFFICES ASSUME TypeOK, TypeOK', Alone, CreateInv, [Next]_vars PROVE CreateInv'
  OBVIOUS
<1>1. ASSUME NEW a \in Attempts, Publishing(a) \/ Crash(a) PROVE CreateInv'
  BY <1>1, HarmlessStep, ProductStep, ListingStep DEF Publishing, Harmless
<1>2. CASE \E r \in inflight : ExecuteCreate(r)
  BY <1>2, ExecuteStep
<1> QED
  BY <1>1, <1>2, EnvironmentStep DEF Next, Ended

LEMMA CreateImplies == TypeOK /\ CreateInv => OneProduct /\ OneListing /\ NothingForgotten
BY DEF CreateInv, RemoteInv, NothingForgotten, NoProduct, NoListing

-----------------------------------------------------------------------------
(* When is one attempt alone?  Temporal starts an attempt of a workflow      *)
(* only after the previous one of that workflow is gone.                     *)

Awaited ==
    /\ wf[Main].phase # "publish" => wf[Main].cur = None
    /\ \A a \in Attempts : att[a].pc # "idle" => wf[Main].cur = a

OneWorkflow == Retries = {}
OneAttempt == \A a, b \in Attempts : a = b

LEMMA AwaitedInit == Init => Awaited
BY DEF Init, Awaited, IdleAttempt, Workflows

LEMMA AwaitedAlone == Awaited => Alone
BY DEF Awaited, Alone

LEMMA ClearsCurrent ==
    ASSUME TypeOK, NEW w \in Workflows
    PROVE  /\ \A last : GiveUp(wf[w], last).cur = None
           /\ NextRank(wf[w]).cur = None
           /\ \A r : Outcome(w, wf[w], r).cur = None
<1>0. wf[w] \in WorkflowStates
  BY DEF TypeOK
<1>1. \A last : GiveUp(wf[w], last).cur = None
  BY <1>0 DEF GiveUp, WorkflowStates
<1>2. NextRank(wf[w]).cur = None
  BY <1>0 DEF NextRank, WorkflowStates
<1>3. ASSUME NEW r PROVE Outcome(w, wf[w], r).cur = None
  BY <1>0, <1>1, <1>2 DEF Outcome, WorkflowStates
<1> QED
  BY <1>1, <1>2, <1>3

(* A step of an attempt leaves the other attempts alone. *)
LEMMA OtherAttempts ==
    ASSUME TypeOK, NEW a \in Attempts, Publishing(a) \/ Crash(a)
    PROVE  att[a].pc # "idle" /\ \A b \in Attempts : b # a => att'[b] = att[b]
<1>1. CASE Harmless(a)
  BY <1>1, HarmlessAttempt, OwnState
<1>2. CASE \/ UpdateProduct(a) \/ StampFingerprint(a) \/ RecordCreateIntent(a)
           \/ CreateRejected(a) \/ DraftReady(a)
  BY <1>2 DEF UpdateProduct, StampFingerprint, RecordCreateIntent, CreateRejected, DraftReady,
     Fails, Goto, At, TypeOK
<1>3. CASE \/ Reserve(a) \/ ClearCreateIntent(a) \/ SaveProduct(a) \/ RecordDraftIntent(a)
           \/ (\E p \in DOMAIN products : CreateAccepted(a, p))
  BY <1>3 DEF Reserve, ClearCreateIntent, SaveProduct, RecordDraftIntent, CreateAccepted, At, TypeOK
<1>4. CASE SendCreate(a) \/ SendDraft(a) \/ Reconcile(a) \/ FindListing(a)
  BY <1>4 DEF SendCreate, SendDraft, Reconcile, FindListing, Send, Goto, At, TypeOK
<1> QED
  BY <1>1, <1>2, <1>3, <1>4 DEF Publishing, Harmless

LEMMA AwaitedStep ==
    ASSUME OneWorkflow, TypeOK, Awaited, [Next]_vars
    PROVE  Awaited'
<1> USE ConstantsAssumption
<1>m. /\ Workflows = {Main} /\ wf \in [Workflows -> WorkflowStates]
      /\ att \in [Attempts -> AttemptStates]
  BY DEF Workflows, TypeOK, OneWorkflow
<1>1. CASE UNCHANGED <<wf, att>>
  BY <1>1 DEF Awaited
<1>2. CASE Preparing
  <2>1. wf[Main].cur = None /\ att' = att
    BY <1>2 DEF Awaited, Preparing, BeginPrepare, Approve, RejectInPreparation, SkipIneligible,
       PreparationFails, FinishNoQualified, MarkFailed
  <2>2. wf'[Main].cur = None
    <3>1. NextRank(wf[Main]).cur = None
      BY <1>m, ClearsCurrent
    <3>2. wf[Main] \in WorkflowStates
      BY <1>m
    <3>3. CASE RejectInPreparation \/ SkipIneligible
      BY <1>m, <3>1, <3>3 DEF RejectInPreparation, SkipIneligible
    <3>4. CASE BeginPrepare \/ PreparationFails
      BY <1>m, <2>1, <3>2, <3>4 DEF BeginPrepare, PreparationFails, WorkflowStates
    <3>5. CASE Approve
      BY <1>m, <2>1, <3>2, <3>5 DEF Approve, WorkflowStates
    <3>6. CASE FinishNoQualified
      BY <1>m, <2>1, <3>2, <3>6 DEF FinishNoQualified, WorkflowStates
    <3>7. CASE MarkFailed
      BY <1>m, <2>1, <3>2, <3>7 DEF MarkFailed, WorkflowStates
    <3> QED
      BY <1>2, <3>3, <3>4, <3>5, <3>6, <3>7 DEF Preparing
  <2> QED
    BY <2>1, <2>2 DEF Awaited
<1>3. ASSUME NEW a \in Attempts, Start(Main, a) PROVE Awaited'
  <2> DEFINE v == [wf[Main] EXCEPT !.cur = a, !.tries = wf[Main].tries + 1]
  <2>1. wf' = [wf EXCEPT ![Main] = v]
    BY <1>3, Zenon DEF Start
  <2>2. v.cur = a /\ v.phase = "publish"
    BY <1>m, <1>3 DEF WorkflowStates, Start
  <2> HIDE DEF v
  <2>3. wf'[Main].cur = a /\ wf'[Main].phase = "publish"
    BY <1>m, <2>1, <2>2
  <2>4. \A b \in Attempts : b # a => att'[b] = att[b] /\ att[b].pc = "idle"
    BY <1>m, <1>3 DEF Start, Awaited, ConstantsAssumption
  <2> QED
    BY <2>3, <2>4 DEF Awaited
<1>4. CASE Expire(Main)
  <2>1. GiveUp(wf[Main], FALSE).cur = None
    BY <1>m, ClearsCurrent
  <2>2. wf'[Main].cur = None /\ att' = att
    BY <1>m, <1>4, <2>1 DEF Expire
  <2>3. \A a \in Attempts : att[a].pc = "idle"
    BY <1>4 DEF Expire, At, Awaited
  <2> QED
    BY <2>2, <2>3 DEF Awaited
<1>5. CASE ReadRetryStatus(Main) \/ FinishRetry(Main)
  <2>1. wf[Main].cur = None /\ att' = att
    BY <1>5 DEF Awaited, ReadRetryStatus, FinishRetry
  <2>2. wf'[Main].cur = None
    <3>1. CASE ReadRetryStatus(Main)
      BY <1>m, <2>1, <3>1 DEF ReadRetryStatus, WorkflowStates
    <3>2. CASE FinishRetry(Main)
      BY <1>m, <2>1, <3>2 DEF FinishRetry, WorkflowStates
    <3> QED
      BY <1>5, <3>1, <3>2
  <2> QED
    BY <2>1, <2>2 DEF Awaited
<1>6. ASSUME NEW a \in Attempts, Report(a) PROVE Awaited'
  <2>1. att[a].wf = Main /\ wf[Main].cur = a
    BY <1>m, <1>6 DEF AttemptStates, Report, At, Awaited
  <2>2. \A b \in Attempts : b # a => att[b].pc = "idle"
    BY <2>1 DEF Awaited
  <2>3. \A b \in Attempts : att'[b].pc = "idle"
    BY <1>m, <1>6, <2>2 DEF Report, IdleAttempt
  <2>4. Outcome(Main, wf[Main], att[a].res).cur = None
    BY <1>m, ClearsCurrent
  <2>5. wf'[Main].cur = None
    BY <1>m, <1>6, <2>1, <2>4 DEF Report
  <2> QED
    BY <2>3, <2>5 DEF Awaited
<1>7. ASSUME NEW a \in Attempts, Publishing(a) \/ Crash(a), wf' = wf PROVE Awaited'
  BY <1>7, OtherAttempts DEF Awaited
<1>8. ASSUME NEW a \in Attempts, Publishing(a) \/ Crash(a) PROVE Report(a) \/ wf' = wf
  BY <1>8 DEF Publishing, Begin, Unchanged, Drift, RefreshFails, Upload, UploadFails,
     Reserve, UpdateProduct, StampFingerprint, RecordCreateIntent, SendCreate,
     CreateAccepted, CreateRejected, ClearCreateIntent, CreateAmbiguous, Reconcile,
     ReconcileFails, SaveProduct, DraftReady, NotReady, FindListing, RecordDraftIntent,
     SendDraft, DraftCreated, DraftFails, RecordListing, Filled, FillFails, Activate,
     Link, Deactivate, Verify, Finish, HandleError, RetryBegin, RecordFailure, Send, Crash
<1>9. (\E r \in inflight : ExecuteCreate(r)) => UNCHANGED <<wf, att>>
  BY DEF ExecuteCreate
<1> QED
  BY <1>m, <1>1, <1>2, <1>3, <1>4, <1>5, <1>6, <1>7, <1>8, <1>9
     DEF Next, Scheduling, Ended, vars, OneWorkflow

(* Without operator retries, and whatever the number of opportunities,      *)
(* attempts and crashes: the run creates at most one product and at most    *)
(* one draft, and both are known to the checkpoint before they can exist.   *)
THEOREM CreateOnceInWorkflow ==
    ASSUME OneWorkflow
    PROVE  Spec => [](OneProduct /\ OneListing /\ NothingForgotten)
<1> DEFINE I == TypeInv /\ Awaited /\ CreateInv
<1>1. Init => I
  BY TypeInit, AwaitedInit, CreateInit
<1>2. I /\ [Next]_vars => I'
  <2> SUFFICES ASSUME I, [Next]_vars PROVE I'
    OBVIOUS
  <2>1. TypeInv' /\ TypeOK /\ TypeOK'
    BY TypeStep DEF TypeInv
  <2>2. Awaited'
    BY <2>1, AwaitedStep
  <2>3. CreateInv'
    BY <2>1, AwaitedAlone, CreateStep
  <2> QED
    BY <2>1, <2>2, <2>3
<1>3. I => OneProduct /\ OneListing /\ NothingForgotten
  BY CreateImplies DEF TypeInv
<1> QED
  BY <1>1, <1>2, <1>3, PTL DEF Spec

(* The same with any number of operator retries, when the worker executes   *)
(* one publication activity of the run at a time.                           *)
THEOREM CreateOnceSerially ==
    ASSUME OneAttempt
    PROVE  Spec => [](OneProduct /\ OneListing /\ NothingForgotten)
<1> DEFINE I == TypeInv /\ CreateInv
<1>1. Init => I
  BY TypeInit, CreateInit
<1>2. I /\ [Next]_vars => I'
  <2> SUFFICES ASSUME I, [Next]_vars PROVE I'
    OBVIOUS
  <2>1. TypeInv' /\ TypeOK /\ TypeOK'
    BY TypeStep DEF TypeInv
  <2>2. Alone
    BY DEF OneAttempt, Alone
  <2>3. CreateInv'
    BY <2>1, <2>2, CreateStep
  <2> QED
    BY <2>1, <2>3
<1>3. I => OneProduct /\ OneListing /\ NothingForgotten
  BY CreateImplies DEF TypeInv
<1> QED
  BY <1>1, <1>2, <1>3, PTL DEF Spec

-----------------------------------------------------------------------------
(* A success is final.  Nobody works on a publication that succeeded, and    *)
(* whoever says that it did is right.                                        *)

Recorded ==
    /\ \A a \in Attempts : att[a].pc \in Working => pub.status # "succeeded"
    /\ \A a \in Attempts : att[a].pc = "done" /\ att[a].res = "succeeded" => pub.status = "succeeded"
    /\ \A a \in Attempts : att[a].pc = "recording" => att[a].res # "succeeded"
    /\ \A w \in Workflows : wf[w].seen = "succeeded" => pub.status = "succeeded"

(* The status of the publication once a step of an attempt is over, and where the attempt is then. *)
Truthful(y) ==
    /\ y.pc \in Working => pub'.status # "succeeded"
    /\ y.pc = "done" /\ y.res = "succeeded" => pub'.status = "succeeded"
    /\ y.pc = "recording" => y.res # "succeeded"

(* A step does not take back a success. *)
Final == pub.status = "succeeded" => pub'.status = "succeeded"

(* An attempt that fails, or moves on, says nothing of a success. *)
LEMMA FailsTruthful ==
    ASSUME TypeOK, NEW a \in Attempts, att[a].pc \in Working, Fails(a),
           pub.status # "succeeded", pub'.status # "succeeded"
    PROVE  \E y : att' = [att EXCEPT ![a] = y] /\ Truthful(y)
<1>0. att[a] \in AttemptStates
  BY DEF TypeOK
<1>1. CASE att' = [att EXCEPT ![a] = Raise(@, "error")]
  <2>1. Raise(att[a], "error").res = "error"
    BY <1>0 DEF Raise, AttemptStates
  <2>2. Truthful(Raise(att[a], "error"))
    BY <2>1 DEF Truthful
  <2> QED
    BY <1>1, <2>2
<1>2. CASE att' = [att EXCEPT ![a].pc = "failing"]
  <2>1. [att[a] EXCEPT !.pc = "failing"].pc = "failing"
    BY <1>0 DEF AttemptStates
  <2>2. Truthful([att[a] EXCEPT !.pc = "failing"])
    BY <2>1 DEF Truthful
  <2> QED
    BY <1>2, <2>2
<1> QED
  BY <1>1, <1>2 DEF Fails

(* An attempt that moves on to another label. *)
LEMMA GotoTruthful ==
    ASSUME TypeOK, NEW a \in Attempts, NEW label, Goto(a, label), pub'.status # "succeeded", label \notin {"done", "recording"}
    PROVE  \E y : att' = [att EXCEPT ![a] = y] /\ Truthful(y)
<1>0. att[a] \in AttemptStates
  BY DEF TypeOK
<1>1. [att[a] EXCEPT !.pc = label].pc = label
  BY <1>0 DEF AttemptStates
<1>2. Truthful([att[a] EXCEPT !.pc = label])
  BY <1>1 DEF Truthful
<1> QED
  BY <1>2 DEF Goto

(* An attempt that raises an error. *)
LEMMA RaiseTruthful ==
    ASSUME TypeOK, NEW a \in Attempts, NEW r \in {"error", "fatal"}
    PROVE  Truthful(Raise(att[a], r))
<1>0. att[a] \in AttemptStates
  BY DEF TypeOK
<1>1. Raise(att[a], r).res = r /\ Raise(att[a], r).pc \notin Working
  BY <1>0 DEF Raise, AttemptStates, Working, PCs
<1> QED
  BY <1>1 DEF Truthful

(* An attempt that returns a result other than success. *)
LEMMA DoneTruthful ==
    ASSUME TypeOK, NEW a \in Attempts, NEW r, r = "succeeded" => pub'.status = "succeeded"
    PROVE  Truthful(Done(att[a], r))
<1>0. att[a] \in AttemptStates
  BY DEF TypeOK
<1>1. Done(att[a], r).res = r /\ Done(att[a], r).pc = "done" /\ "done" \notin Working
  BY <1>0 DEF Done, AttemptStates, Working, PCs
<1> QED
  BY <1>1 DEF Truthful

(* Steps of an attempt that leave the publication record alone. *)
Silent(a) ==
    \/ Unchanged(a) \/ Drift(a) \/ RefreshFails(a) \/ UploadFails(a) \/ Upload(a)
    \/ UpdateProduct(a) \/ SendCreate(a) \/ (\E p \in DOMAIN products : CreateAccepted(a, p))
    \/ CreateRejected(a) \/ CreateAmbiguous(a) \/ ReconcileFails(a) \/ DraftReady(a) \/ NotReady(a)
    \/ FindListing(a) \/ SendDraft(a) \/ (\E l \in DOMAIN listings : DraftCreated(a, l))
    \/ DraftFails(a) \/ Filled(a) \/ FillFails(a) \/ Activate(a) \/ Link(a) \/ Deactivate(a) \/ Verify(a)

(* Steps that write it, without a word of its success. *)
Writes(a) ==
    \/ Reserve(a) \/ StampFingerprint(a) \/ RecordCreateIntent(a) \/ ClearCreateIntent(a)
    \/ Reconcile(a) \/ SaveProduct(a) \/ RecordDraftIntent(a) \/ RecordListing(a) \/ HandleError(a)

(* Whatever is not one of the two is an end, or the admission. *)
Closes(a) == Begin(a) \/ Finish(a) \/ RetryBegin(a) \/ RecordFailure(a) \/ Report(a) \/ Crash(a)

(* What Silent steps are: an attempt at work, and no record written. *)
LEMMA SilentWorks ==
    ASSUME NEW a \in Attempts, Silent(a)
    PROVE  att[a].pc \in Working /\ pub' = pub /\ wf' = wf
BY DEF Silent, Unchanged, Drift, RefreshFails, UploadFails, Upload, UpdateProduct, SendCreate,
   CreateAccepted, CreateRejected, CreateAmbiguous, ReconcileFails, DraftReady, NotReady, FindListing,
   SendDraft, DraftCreated, DraftFails, Filled, FillFails, Activate, Link, Deactivate, Verify, Send,
   At, Working, PCs

(* A step that writes no record leaves its attempt truthful. *)
LEMMA SilentTruthful ==
    ASSUME TypeOK, Recorded, NEW a \in Attempts, Silent(a)
    PROVE  \E y : att' = [att EXCEPT ![a] = y] /\ Truthful(y)
<1> DEFINE Ok == \E y : att' = [att EXCEPT ![a] = y] /\ Truthful(y)
<1>0. att[a] \in AttemptStates /\ att[a].pc \in Working /\ pub' = pub /\ pub.status # "succeeded"
  BY SilentWorks DEF TypeOK, Recorded
<1>g. \A label : Goto(a, label) /\ label \notin {"done", "recording"} => Ok
  BY <1>0, GotoTruthful
<1>f. Fails(a) => Ok
  BY <1>0, FailsTruthful
<1>n. ASSUME NEW y, att' = [att EXCEPT ![a] = y], y.pc \notin {"done", "recording"} PROVE Ok
  BY <1>0, <1>n DEF Truthful
<1> SUFFICES Ok
  OBVIOUS
<1> HIDE DEF Ok
<1>1. CASE \/ Unchanged(a) \/ UploadFails(a) \/ UpdateProduct(a) \/ CreateRejected(a)
           \/ CreateAmbiguous(a) \/ ReconcileFails(a) \/ DraftReady(a) \/ NotReady(a)
  BY <1>1, <1>g, <1>f DEF Unchanged, UploadFails, UpdateProduct, CreateRejected, CreateAmbiguous,
     ReconcileFails, DraftReady, NotReady
<1>2. CASE DraftFails(a) \/ Filled(a) \/ FillFails(a) \/ Activate(a) \/ Link(a) \/ Deactivate(a) \/ Verify(a)
  BY <1>2, <1>g, <1>f DEF DraftFails, Filled, FillFails, Activate, Link, Deactivate, Verify
<1>3. CASE Drift(a)
  <2>1. Truthful(Done(att[a], "hard_gate_failed")) /\ Truthful(Raise(att[a], "error"))
    BY DoneTruthful, RaiseTruthful
  <2> QED
    BY <1>3, <2>1 DEF Drift, Ok
<1>4. CASE RefreshFails(a)
  <2>1. Truthful(Raise(att[a], "error"))
    BY RaiseTruthful
  <2> QED
    BY <1>4, <2>1 DEF RefreshFails, Ok
<1>5. CASE Upload(a)
  <2> DEFINE sig == SurfaceOf[att[a].rank]
             art == IF att[a].uploads[sig] # None THEN att[a].uploads[sig] ELSE att[a].rank
             y == [att[a] EXCEPT !.pc = "reserve", !.uploads[sig] = art,
                      !.first = IF att[a].first = None THEN art ELSE att[a].first]
  <2>1. att' = [att EXCEPT ![a] = y]
    BY <1>5, Zenon DEF Upload
  <2>2. y.pc = "reserve"
    BY <1>0 DEF AttemptStates
  <2> HIDE DEF y
  <2> QED
    BY <2>1, <2>2, <1>n
<1>6. CASE SendCreate(a) \/ SendDraft(a)
  <2>1. PICK label \in {"creating", "drafting"} :
            att' = [att EXCEPT ![a] = [@ EXCEPT !.pc = label, !.req = sent + 1]]
    BY <1>6 DEF SendCreate, SendDraft, Send
  <2> DEFINE y == [att[a] EXCEPT !.pc = label, !.req = sent + 1]
  <2>2. att' = [att EXCEPT ![a] = y]
    BY <2>1, Zenon
  <2>3. y.pc = label
    BY <1>0 DEF AttemptStates
  <2> HIDE DEF y
  <2> QED
    BY <2>2, <2>3, <1>n
<1>7. CASE \E p \in DOMAIN products : CreateAccepted(a, p)
  <2> PICK p \in DOMAIN products : CreateAccepted(a, p)
    BY <1>7
  <2> DEFINE y == [att[a] EXCEPT !.pc = "save", !.product = p]
  <2>1. att' = [att EXCEPT ![a] = y]
    BY Zenon DEF CreateAccepted
  <2>2. y.pc = "save"
    BY <1>0 DEF AttemptStates
  <2> HIDE DEF y
  <2> QED
    BY <2>1, <2>2, <1>n
<1>8. CASE \E l \in DOMAIN listings : DraftCreated(a, l)
  <2> PICK l \in DOMAIN listings : DraftCreated(a, l)
    BY <1>8
  <2> DEFINE y == [att[a] EXCEPT !.pc = "record", !.prog.listing = l, !.prog.owned = TRUE]
  <2>1. att' = [att EXCEPT ![a] = y]
    BY Zenon DEF DraftCreated
  <2>2. y.pc = "record"
    BY <1>0 DEF AttemptStates
  <2> HIDE DEF y
  <2> QED
    BY <2>1, <2>2, <1>n
<1>9. CASE FindListing(a)
  <2>1. CASE \E f \in Titled(att[a].rank) : att' = [att EXCEPT ![a] = [@ EXCEPT !.pc = "record", !.prog.listing = f]]
    <3> PICK f : att' = [att EXCEPT ![a] = [@ EXCEPT !.pc = "record", !.prog.listing = f]]
      BY <2>1
    <3> DEFINE y == [att[a] EXCEPT !.pc = "record", !.prog.listing = f]
    <3>1. att' = [att EXCEPT ![a] = y]
      BY Zenon
    <3>2. y.pc = "record"
      BY <1>0 DEF AttemptStates
    <3> HIDE DEF y
    <3> QED
      BY <3>1, <3>2, <1>n
  <2>2. CASE Goto(a, "fill") \/ Goto(a, "markDraft") \/ Goto(a, "failing")
    BY <2>2, <1>g
  <2> QED
    BY <1>9, <2>1, <2>2 DEF FindListing
<1> QED
  BY <1>1, <1>2, <1>3, <1>4, <1>5, <1>6, <1>7, <1>8, <1>9 DEF Silent

(* What Writes steps are: an attempt at work. *)
LEMMA WritesWorks ==
    ASSUME TypeOK, Recorded, NEW a \in Attempts, Writes(a)
    PROVE  att[a].pc \in Working /\ pub.status # "succeeded" /\ pub'.status # "succeeded" /\ wf' = wf
<1>1. att[a].pc \in Working /\ wf' = wf
  BY DEF Writes, Reserve, StampFingerprint, RecordCreateIntent, ClearCreateIntent, Reconcile,
     SaveProduct, RecordDraftIntent, RecordListing, HandleError, At, Working, PCs
<1>2. pub.status # "succeeded" /\ pub \in PublishRecords
  BY <1>1 DEF Recorded, TypeOK
<1> SUFFICES pub'.status # "succeeded"
  BY <1>1, <1>2
<1>3. CASE Reserve(a) \/ Reconcile(a)
  BY <1>2, <1>3 DEF Reserve, Reconcile, PublishRecords
<1>4. CASE SaveProduct(a)
  BY <1>2, <1>4 DEF SaveProduct, PublishRecords
<1>5. CASE HandleError(a)
  BY <1>2, <1>5 DEF HandleError, PublishRecords
<1>6. CASE StampFingerprint(a) \/ RecordCreateIntent(a) \/ ClearCreateIntent(a)
  BY <1>2, <1>6 DEF StampFingerprint, RecordCreateIntent, ClearCreateIntent, PublishRecords
<1>7. CASE RecordDraftIntent(a) \/ RecordListing(a)
  BY <1>2, <1>7 DEF RecordDraftIntent, RecordListing, PublishRecords
<1> QED
  BY <1>1, <1>2, <1>3, <1>4, <1>5, <1>6, <1>7 DEF Writes

(* A step that writes the record before the success leaves its attempt truthful. *)
LEMMA WritesTruthful ==
    ASSUME TypeOK, Recorded, NEW a \in Attempts, Writes(a)
    PROVE  \E y : att' = [att EXCEPT ![a] = y] /\ Truthful(y)
<1> DEFINE Ok == \E y : att' = [att EXCEPT ![a] = y] /\ Truthful(y)
<1>0. att[a] \in AttemptStates /\ pub'.status # "succeeded"
  BY WritesWorks DEF TypeOK
<1>g. \A label : Goto(a, label) /\ label \notin {"done", "recording"} => Ok
  BY <1>0, GotoTruthful
<1>n. ASSUME NEW y, att' = [att EXCEPT ![a] = y], y.pc \notin {"done", "recording"} PROVE Ok
  BY <1>0, <1>n DEF Truthful
<1>r. Truthful(Done(att[a], "reconciliation_required")) /\ Truthful(Raise(att[a], "error"))
  BY DoneTruthful, RaiseTruthful
<1> SUFFICES Ok
  OBVIOUS
<1>1. CASE StampFingerprint(a) \/ RecordCreateIntent(a) \/ RecordListing(a)
  <2> HIDE DEF Ok
  <2> QED
    BY <1>1, <1>g DEF StampFingerprint, RecordCreateIntent, RecordListing
<1>2. CASE ClearCreateIntent(a) \/ HandleError(a)
  BY <1>2, <1>r DEF ClearCreateIntent, HandleError
<1>3. CASE Reserve(a)
  <2>1. pub.status # "succeeded"
    BY <1>3, WritesWorks
  <2> DEFINE product == IF pub.product # None THEN pub.product ELSE att[a].product
             y == [att[a] EXCEPT !.pc = Branch(a, product), !.product = product, !.prog = pub.prog]
  <2>2. att' = [att EXCEPT ![a] = y]
    BY <1>3, <2>1, Zenon DEF Reserve
  <2>3. y.pc \notin {"done", "recording"}
    BY <1>0 DEF AttemptStates, Branch
  <2> HIDE DEF y, Ok
  <2> QED
    BY <2>2, <2>3, <1>n
<1>4. CASE Reconcile(a)
  <2>1. CASE Cardinality(Matching(a)) = 1
    <3> PICK p \in Matching(a) : att' = [att EXCEPT ![a] = [@ EXCEPT !.pc = "save", !.product = p]]
      BY <1>4, <2>1 DEF Reconcile
    <3> DEFINE y == [att[a] EXCEPT !.pc = "save", !.product = p]
    <3>1. att' = [att EXCEPT ![a] = y]
      BY Zenon
    <3>2. y.pc = "save"
      BY <1>0 DEF AttemptStates
    <3> HIDE DEF y, Ok
    <3> QED
      BY <3>1, <3>2, <1>n
  <2>2. CASE Cardinality(Matching(a)) # 1
    BY <1>4, <2>2, <1>r DEF Reconcile
  <2> QED
    BY <2>1, <2>2
<1>5. CASE SaveProduct(a)
  <2> PICK q : q = pub'.prog
    OBVIOUS
  <2> DEFINE y == [att[a] EXCEPT !.pc = "ready", !.prog = q]
  <2>1. att' = [att EXCEPT ![a] = y]
    BY <1>5, Zenon DEF SaveProduct
  <2>2. y.pc = "ready"
    BY <1>0 DEF AttemptStates
  <2> HIDE DEF y, Ok
  <2> QED
    BY <2>1, <2>2, <1>n
<1>6. CASE RecordDraftIntent(a)
  <2> DEFINE y == [att[a] EXCEPT !.pc = "sendDraft", !.prog.draft = TRUE]
  <2>1. att' = [att EXCEPT ![a] = y]
    BY <1>6, Zenon DEF RecordDraftIntent
  <2>2. y.pc = "sendDraft"
    BY <1>0 DEF AttemptStates
  <2> HIDE DEF y, Ok
  <2> QED
    BY <2>1, <2>2, <1>n
<1> QED
  BY <1>1, <1>2, <1>3, <1>4, <1>5, <1>6 DEF Writes

(* So does a step that begins, ends or reports an attempt. *)
LEMMA ClosesTruthful ==
    ASSUME TypeOK, Recorded, NEW a \in Attempts, Closes(a)
    PROVE  Final /\ \E y : att' = [att EXCEPT ![a] = y] /\ Truthful(y)
<1> DEFINE Ok == \E y : att' = [att EXCEPT ![a] = y] /\ Truthful(y)
<1>0. att[a] \in AttemptStates /\ pub \in PublishRecords
  BY DEF TypeOK
<1>1. CASE Begin(a)
  <2>1. pub' = pub
    BY <1>1 DEF Begin
  <2> DEFINE y == [att[a] EXCEPT !.pc = "refresh", !.rank = run.selected,
                       !.uploads = pub.uploads, !.first = pub.first, !.product = pub.product]
  <2>2. y.pc = "refresh"
    BY <1>0 DEF AttemptStates
  <2>3. CASE pub.status = "succeeded" /\ att' = [att EXCEPT ![a] = Done(@, "succeeded")]
    <3>1. Truthful(Done(att[a], "succeeded"))
      BY <2>1, <2>3, DoneTruthful
    <3> QED
      BY <2>1, <2>3, <3>1 DEF Final
  <2>4. CASE att' = [att EXCEPT ![a] = Raise(@, "fatal")]
    <3>1. Truthful(Raise(att[a], "fatal"))
      BY RaiseTruthful
    <3> QED
      BY <2>1, <2>4, <3>1 DEF Final
  <2>5. CASE pub.status # "succeeded" /\ att' = [att EXCEPT ![a] = y]
    <3> HIDE DEF y
    <3>1. Truthful(y)
      BY <2>1, <2>2, <2>5 DEF Truthful
    <3> QED
      BY <2>1, <2>5, <3>1 DEF Final
  <2>6. \/ pub.status = "succeeded" /\ att' = [att EXCEPT ![a] = Done(@, "succeeded")]
        \/ att' = [att EXCEPT ![a] = Raise(@, "fatal")]
        \/ pub.status # "succeeded" /\ att' = [att EXCEPT ![a] = y]
    <3>1. CASE run.status = "published" /\ pub.status = "succeeded"
      BY <1>1, <3>1 DEF Begin
    <3>2. CASE /\ ~(run.status = "published" /\ pub.status = "succeeded")
               /\ run.status # "publishing" \/ run.selected = None \/ run.package # run.selected
      BY <1>1, <3>2 DEF Begin
    <3>3. CASE /\ ~(run.status = "published" /\ pub.status = "succeeded")
               /\ ~(run.status # "publishing" \/ run.selected = None \/ run.package # run.selected)
      BY <1>1, <3>3 DEF Begin
    <3> QED
      BY <3>1, <3>2, <3>3
  <2> QED
    BY <2>3, <2>4, <2>5, <2>6
<1>2. CASE Finish(a)
  <2>1. pub'.status = "succeeded"
    BY <1>0, <1>2 DEF Finish, PublishRecords
  <2>2. Truthful(Done(att[a], "succeeded"))
    BY <2>1, DoneTruthful
  <2> QED
    BY <1>2, <2>1, <2>2 DEF Finish, Final
<1>3. CASE RetryBegin(a)
  <2>1. Truthful(Raise(att[a], "error"))
    BY RaiseTruthful
  <2>2. [att[a] EXCEPT !.pc = "begin"].pc = "begin"
    BY <1>0 DEF AttemptStates
  <2>3. Truthful([att[a] EXCEPT !.pc = "begin"])
    BY <2>2 DEF Truthful, Working
  <2> QED
    BY <1>3, <2>1, <2>3 DEF RetryBegin, Goto, Final
<1>4. CASE RecordFailure(a)
  <2>1. Final
    BY <1>0, <1>4 DEF RecordFailure, Final
  <2> DEFINE y == [att[a] EXCEPT !.pc = "done"]
  <2>2. att' = [att EXCEPT ![a] = y] /\ y.pc = "done" /\ y.res = att[a].res
    BY <1>0, <1>4 DEF RecordFailure, Goto, AttemptStates
  <2>3. att[a].res # "succeeded"
    BY <1>4 DEF RecordFailure, At, Recorded
  <2> HIDE DEF y
  <2> QED
    BY <2>1, <2>2, <2>3 DEF Truthful, Working
<1>5. CASE Report(a) \/ Crash(a)
  <2>1. Truthful(IdleAttempt)
    BY DEF Truthful, IdleAttempt, Working
  <2> QED
    BY <1>5, <2>1 DEF Report, Crash, Final
<1> QED
  BY <1>1, <1>2, <1>3, <1>4, <1>5 DEF Closes

(* Workflows and shops leave publication records alone; a workflow starts an *)
(* attempt where it knows nothing.                                           *)
LEMMA OutsideFinal ==
    ASSUME TypeOK, NEW w \in Workflows,
           Preparing \/ Scheduling(w) \/ RequestRetry(w)
    PROVE  /\ UNCHANGED <<pub, products, listings, inflight, sent>>
           /\ \A b \in Attempts : \/ att'[b] = att[b]
                                  \/ att'[b].pc \in {"begin", "retryBegin"}
<1>1. UNCHANGED <<pub, products, listings, inflight, sent>>
  BY DEF Preparing, BeginPrepare, Approve, RejectInPreparation, SkipIneligible, PreparationFails,
     FinishNoQualified, MarkFailed, Scheduling, RequestRetry, Start, Expire, ReadRetryStatus,
     FinishRetry, remote
<1>2. ASSUME NEW a \in Attempts, Start(w, a), NEW b \in Attempts
      PROVE  att'[b] = att[b] \/ att'[b].pc \in {"begin", "retryBegin"}
  <2> DEFINE y == [IdleAttempt EXCEPT !.wf = w, !.pc = IF w = Main THEN "begin" ELSE "retryBegin"]
  <2>1. att' = [att EXCEPT ![a] = y]
    BY <1>2, Zenon DEF Start
  <2>2. y.pc \in {"begin", "retryBegin"}
    BY DEF IdleAttempt
  <2> HIDE DEF y
  <2> QED
    BY <2>1, <2>2, OwnState
<1>3. (\E a \in Attempts : Start(w, a)) \/ att' = att
  BY DEF Preparing, BeginPrepare, Approve, RejectInPreparation, SkipIneligible, PreparationFails,
     FinishNoQualified, MarkFailed, Scheduling, RequestRetry, Expire, ReadRetryStatus, FinishRetry
<1> QED
  BY <1>1, <1>2, <1>3

(* What the workflows know of the publication: what finish_retry has read,   *)
(* and the result the main workflow returns.                                 *)
LEMMA ReadsTrue ==
    ASSUME TypeOK, Recorded, PublishedIsRecorded, NEW w \in Workflows,
           Preparing \/ Scheduling(w) \/ RequestRetry(w)
    PROVE  /\ \A v \in Workflows : wf'[v].seen = "succeeded" => pub.status = "succeeded"
           /\ run'.status = "published" \/ wf'[Main].result = "published" => pub.status = "succeeded"
<1> USE ConstantsAssumption
<1>0. /\ wf \in [Workflows -> WorkflowStates] /\ run \in RunRecords /\ pub \in PublishRecords
      /\ Main \in Workflows /\ w \in Workflows
  BY DEF TypeOK, Workflows
<1>v. ASSUME NEW v \in Workflows, NEW f, wf' = [wf EXCEPT ![v] = f],
             f.seen = "succeeded" => pub.status = "succeeded",
             f.result = "published" => f.result = wf[v].result \/ pub.status = "succeeded",
             run'.status = "published" => run.status = "published" \/ pub.status = "succeeded"
      PROVE  /\ \A u \in Workflows : wf'[u].seen = "succeeded" => pub.status = "succeeded"
             /\ run'.status = "published" \/ wf'[Main].result = "published" => pub.status = "succeeded"
  <2>1. \A u \in Workflows : wf'[u] = IF u = v THEN f ELSE wf[u]
    BY <1>0, <1>v
  <2>2. \A u \in Workflows : wf[u].seen = "succeeded" => pub.status = "succeeded"
    BY DEF Recorded
  <2>3. run.status = "published" \/ wf[Main].result = "published" => pub.status = "succeeded"
    BY DEF PublishedIsRecorded
  <2> QED
    BY <1>0, <1>v, <2>1, <2>2, <2>3
<1>s. \A v \in Workflows : wf[v].seen = "succeeded" => pub.status = "succeeded"
  BY DEF Recorded
<1>r. \A st : st # "published" => [run EXCEPT !.status = st].status # "published"
  BY <1>0 DEF RunRecords
<1>n. ASSUME NEW v \in Workflows
      PROVE  /\ NextRank(wf[v]).seen = wf[v].seen /\ NextRank(wf[v]).result = wf[v].result
             /\ GiveUp(wf[v], FALSE).seen = wf[v].seen
             /\ GiveUp(wf[v], FALSE).result \in {wf[v].result, "failed"}
  BY <1>0 DEF NextRank, GiveUp, WorkflowStates
<1>1. CASE BeginPrepare
  <2>1. run'.status # "published"
    BY <1>0, <1>1 DEF BeginPrepare, RunRecords
  <2> DEFINE f == [wf[Main] EXCEPT !.phase = "preparing"]
  <2>2. wf' = [wf EXCEPT ![Main] = f] /\ f.seen = wf[Main].seen /\ f.result = wf[Main].result
    BY <1>0, <1>1 DEF BeginPrepare, WorkflowStates
  <2> HIDE DEF f
  <2> QED
    BY <1>0, <1>s, <2>1, <2>2, <1>v
<1>2. CASE Approve
  <2>1. run'.status # "published"
    BY <1>0, <1>2 DEF Approve, RunRecords
  <2> DEFINE f == [wf[Main] EXCEPT !.phase = "publish", !.tries = 0]
  <2>2. wf' = [wf EXCEPT ![Main] = f] /\ f.seen = wf[Main].seen /\ f.result = wf[Main].result
    BY <1>0, <1>2 DEF Approve, WorkflowStates
  <2> HIDE DEF f
  <2> QED
    BY <1>0, <1>s, <2>1, <2>2, <1>v
<1>3. CASE RejectInPreparation \/ SkipIneligible
  <2>1. run'.status = "published" => run.status = "published"
    BY <1>0, <1>3 DEF RejectInPreparation, SkipIneligible, Rejecting, RunRecords
  <2>2. wf' = [wf EXCEPT ![Main] = NextRank(wf[Main])]
    BY <1>3 DEF RejectInPreparation, SkipIneligible
  <2> QED
    BY <1>0, <1>s, <1>n, <2>1, <2>2, <1>v
<1>4. CASE PreparationFails \/ RequestRetry(w)
  <2> DEFINE f(v, ph) == [wf[v] EXCEPT !.phase = ph]
  <2>1. PICK v \in Workflows, ph \in {"markFailed", "publish"} : wf' = [wf EXCEPT ![v] = f(v, ph)]
    BY <1>0, <1>4 DEF PreparationFails, RequestRetry
  <2>2. f(v, ph).seen = wf[v].seen /\ f(v, ph).result = wf[v].result
    BY <1>0 DEF WorkflowStates
  <2>3. run' = run
    BY <1>4 DEF PreparationFails, RequestRetry
  <2> HIDE DEF f
  <2> QED
    BY <1>s, <2>1, <2>2, <2>3, <1>v
<1>5. CASE FinishNoQualified \/ MarkFailed
  <2>1. run'.status # "published"
    BY <1>5, <1>r DEF FinishNoQualified, MarkFailed
  <2> DEFINE f(r) == [wf[Main] EXCEPT !.phase = "ended", !.result = r]
  <2>2. PICK r \in {"failed", "no_qualified_opportunity"} : wf' = [wf EXCEPT ![Main] = f(r)]
    BY <1>5 DEF FinishNoQualified, MarkFailed
  <2>3. f(r).seen = wf[Main].seen /\ f(r).result # "published"
    BY <1>0 DEF WorkflowStates
  <2> HIDE DEF f
  <2> QED
    BY <1>0, <1>s, <2>1, <2>2, <2>3, <1>v
<1>6. ASSUME NEW a \in Attempts, Start(w, a)
      PROVE  /\ \A v \in Workflows : wf'[v].seen = "succeeded" => pub.status = "succeeded"
             /\ run'.status = "published" \/ wf'[Main].result = "published" => pub.status = "succeeded"
  <2> DEFINE f == [wf[w] EXCEPT !.cur = a, !.tries = wf[w].tries + 1]
  <2>1. wf' = [wf EXCEPT ![w] = f] /\ run' = run
    BY <1>6, Zenon DEF Start
  <2>2. f.seen = wf[w].seen /\ f.result = wf[w].result
    BY <1>0 DEF WorkflowStates
  <2> HIDE DEF f
  <2> QED
    BY <1>0, <1>s, <2>1, <2>2, <1>v
<1>7. CASE Expire(w)
  BY <1>0, <1>s, <1>n, <1>7, <1>v DEF Expire
<1>8. CASE ReadRetryStatus(w)
  <2> DEFINE f == [wf[w] EXCEPT !.phase = "finishing", !.seen = pub.status]
  <2>1. wf' = [wf EXCEPT ![w] = f] /\ run' = run
    BY <1>8 DEF ReadRetryStatus
  <2>2. f.seen = pub.status /\ f.result = wf[w].result
    BY <1>0 DEF WorkflowStates
  <2> HIDE DEF f
  <2> QED
    BY <1>0, <2>1, <2>2, <1>v
<1>9. CASE FinishRetry(w)
  <2> DEFINE f == [wf[w] EXCEPT !.phase = "ended", !.result = wf[w].seen]
  <2>1. wf' = [wf EXCEPT ![w] = f]
    BY <1>9 DEF FinishRetry
  <2>2. f.seen = wf[w].seen /\ f.result # "published"
    BY <1>0 DEF WorkflowStates, PubStatuses
  <2>3. run'.status = "published" => wf[w].seen = "succeeded"
    BY <1>0, <1>9 DEF FinishRetry, RunRecords
  <2> HIDE DEF f
  <2> QED
    BY <1>0, <1>s, <2>1, <2>2, <2>3, <1>v
<1> QED
  BY <1>1, <1>2, <1>3, <1>4, <1>5, <1>6, <1>7, <1>8, <1>9 DEF Preparing, Scheduling

(* A step of an attempt: the others are idle. *)
LEMMA AttemptRecorded ==
    ASSUME TypeOK, TypeOK', Alone, Recorded, PublishedIsRecorded, NEW a \in Attempts,
           Publishing(a) \/ Crash(a)
    PROVE  Recorded' /\ PublishedIsRecorded' /\ Final
<1>0. Silent(a) \/ Writes(a) \/ Closes(a)
  BY DEF Publishing, Silent, Writes, Closes
<1>1. Final /\ \E y : att' = [att EXCEPT ![a] = y] /\ Truthful(y)
  <2>1. CASE Silent(a)
    BY <2>1, SilentTruthful, SilentWorks DEF Final
  <2>2. CASE Writes(a)
    BY <2>2, WritesTruthful, WritesWorks DEF Final
  <2>3. CASE Closes(a)
    BY <2>3, ClosesTruthful
  <2> QED
    BY <1>0, <2>1, <2>2, <2>3
<1>2. PICK y : att' = [att EXCEPT ![a] = y] /\ Truthful(y)
  BY <1>1
<1>3. att'[a] = y /\ att[a].pc # "idle" /\ \A b \in Attempts : b # a => att'[b] = att[b]
  BY <1>2, OwnState, OtherAttempts
<1>4. ASSUME NEW b \in Attempts PROVE Truthful(att'[b])
  <2>1. CASE b = a
    BY <1>2, <1>3, <2>1
  <2>2. CASE b # a
    <3>1. att'[b].pc = "idle"
      BY <1>3, <2>2 DEF Alone
    <3> QED
      BY <3>1 DEF Truthful, Working
  <2> QED
    BY <2>1, <2>2
<1>5. /\ \A w \in Workflows : wf'[w].seen = "succeeded" => pub'.status = "succeeded"
      /\ PublishedIsRecorded'
  <2>1. /\ wf \in [Workflows -> WorkflowStates] /\ Main \in Workflows /\ run \in RunRecords
        /\ att[a] \in AttemptStates /\ pub \in PublishRecords
    BY DEF TypeOK, Workflows
  <2>2. CASE Report(a)
    <3>1. PICK w \in Workflows : w = att[a].wf
      BY <2>1 DEF AttemptStates
    <3>2. att[a].res = "succeeded" => pub.status = "succeeded"
      BY <2>2 DEF Report, At, Recorded
    <3>3. UNCHANGED <<run, pub>>
      BY <2>2 DEF Report
    <3> DEFINE f == Outcome(w, wf[w], att[a].res)
    <3>4. f.seen = wf[w].seen /\ (f.result = "published" => f.result = wf[w].result \/ att[a].res = "succeeded")
      BY <2>1 DEF Outcome, GiveUp, NextRank, WorkflowStates
    <3>5. wf' = wf \/ wf' = [wf EXCEPT ![w] = f]
      BY <2>2, <3>1 DEF Report
    <3> HIDE DEF f
    <3> QED
      BY <2>1, <3>2, <3>3, <3>4, <3>5 DEF Recorded, PublishedIsRecorded
  <2>3. CASE ~Report(a)
    <3>1. wf' = wf
      BY <2>3, <1>0, SilentWorks, WritesWorks DEF Closes, Begin, Finish, RetryBegin, RecordFailure, Crash
    <3>2. run'.status = "published" => run.status = "published" \/ Finish(a)
      <4>1. CASE Silent(a)
        BY <2>1, <4>1 DEF Silent, Unchanged, Drift, RefreshFails, UploadFails, Upload, UpdateProduct,
           SendCreate, CreateAccepted, CreateRejected, CreateAmbiguous, ReconcileFails, DraftReady,
           NotReady, FindListing, SendDraft, DraftCreated, DraftFails, Filled, FillFails, Activate,
           Link, Deactivate, Verify, Send, Rejecting, RunRecords
      <4>2. CASE Writes(a)
        BY <2>1, <4>2 DEF Writes, Reserve, StampFingerprint, RecordCreateIntent, ClearCreateIntent,
           Reconcile, SaveProduct, RecordDraftIntent, RecordListing, HandleError, RunRecords
      <4>3. CASE Closes(a)
        BY <2>1, <4>3 DEF Closes, Begin, RetryBegin, RecordFailure, Report, Crash, RunRecords
      <4> QED
        BY <1>0, <4>1, <4>2, <4>3
    <3>3. Finish(a) => pub'.status = "succeeded"
      BY <2>1 DEF Finish, PublishRecords
    <3> QED
      BY <1>1, <3>1, <3>2, <3>3 DEF Recorded, PublishedIsRecorded, Final
  <2> QED
    BY <2>2, <2>3
<1> QED
  BY <1>1, <1>4, <1>5 DEF Truthful, Recorded

(* Every step keeps what is recorded true, and final. *)
LEMMA RecordedStep ==
    ASSUME TypeOK, TypeOK', Alone, Recorded, PublishedIsRecorded, [Next]_vars
    PROVE  Recorded' /\ PublishedIsRecorded' /\ Final
<1>1. ASSUME NEW w \in Workflows, Preparing \/ Scheduling(w) \/ RequestRetry(w)
      PROVE  Recorded' /\ PublishedIsRecorded' /\ Final
  <2>1. /\ pub' = pub
        /\ \A b \in Attempts : att'[b] = att[b] \/ att'[b].pc \in {"begin", "retryBegin"}
    BY <1>1, OutsideFinal
  <2>2. /\ \A v \in Workflows : wf'[v].seen = "succeeded" => pub.status = "succeeded"
        /\ run'.status = "published" \/ wf'[Main].result = "published" => pub.status = "succeeded"
    BY <1>1, ReadsTrue
  <2> QED
    BY <2>1, <2>2 DEF Recorded, PublishedIsRecorded, Final, Working
<1>2. ASSUME NEW r \in inflight, ExecuteCreate(r) PROVE Recorded' /\ PublishedIsRecorded' /\ Final
  BY <1>2 DEF ExecuteCreate, Recorded, PublishedIsRecorded, Final
<1>3. CASE UNCHANGED vars
  BY <1>3 DEF vars, Recorded, PublishedIsRecorded, Final
<1>4. Main \in Workflows /\ Retries \subseteq Workflows
  BY DEF Workflows
<1> QED
  BY <1>1, <1>2, <1>3, <1>4, AttemptRecorded DEF Next, Ended

(* Nothing is recorded at first. *)
LEMMA RecordedInit == Init => Recorded /\ PublishedIsRecorded
  BY DEF Init, Recorded, PublishedIsRecorded, Working, IdleAttempt, Workflows

-----------------------------------------------------------------------------
(* What a success says of the shops.                                         *)

(* The workflow that an attempt works for waits for it. *)
Assigned ==
    /\ \A a \in Attempts : att[a].pc # "idle" => wf[att[a].wf].cur = a
    /\ \A w \in Workflows : wf[w].cur # None => wf[w].phase = "publish"

(* Nothing is selected but the opportunity the main workflow is at, and that *)
(* is not a rejected one.                                                    *)
Chosen ==
    /\ run.selected \in {None, wf[Main].rank}
    /\ run.selected \notin run.rejected
    /\ \A r \in run.rejected : r <= wf[Main].rank
    /\ wf[Main].phase \in {"prepare", "preparing"} => wf[Main].rank \notin run.rejected
    /\ wf[Main].phase \in {"prepare", "exhausted"} => run.selected = None
    /\ wf[Main].phase = "preparing" => run.package = None
    /\ pub.prog.fp[1] <= wf[Main].rank

(* Each surface of an opportunity holds its own artwork, or none yet. *)
OwnArt(uploads) == \A r \in Ranks : uploads[SurfaceOf[r]] \in {None, r}

(* The shops hold what somebody asked for, and the record points into them. *)
World ==
    /\ OwnArt(pub.uploads)
    /\ pub.product # None => pub.product \in DOMAIN products
    /\ pub.prog.listing # None => pub.prog.listing \in DOMAIN listings
    /\ \A p \in DOMAIN products : products[p].art = products[p].title /\ products[p].req <= sent
    /\ \A r \in inflight : r.n <= sent /\ (r.kind = "product" => r.art = r.title)
    /\ pub.product # None /\ pub.prog.fp[1] = wf[Main].rank =>
            products[pub.product].title = wf[Main].rank

(* What an attempt knows, at each of its steps. *)
Releasing == {"ready", "find", "markDraft", "sendDraft", "drafting", "record", "fill",
              "activate", "link", "unlink", "verify", "finish"}
Listed == {"fill", "activate", "link", "unlink", "verify", "finish"}
(* The attempt works for the opportunity that is selected and packaged. *)
Current(x) == x.pc \in Working => x.rank = run.selected /\ run.package = run.selected
(* What it uploaded is the artwork of that opportunity. *)
OwnUploads(x) ==
    /\ x.pc \in Working => OwnArt(x.uploads)
    /\ x.pc \in Working \ {"refresh", "upload", "failing"} => x.uploads[SurfaceOf[x.rank]] = x.rank
(* Its product is the recorded one, and shows the package once it was written. *)
OwnProduct(x) ==
    /\ x.pc \in {"refresh", "upload", "reserve", "update", "stamp"} \cup Releasing => x.product = pub.product
    /\ x.pc \in {"update", "stamp", "save"} \cup Releasing => x.product \in DOMAIN products
    /\ x.pc \in {"stamp", "save"} \cup Releasing => products[x.product].title = x.rank
    /\ x.pc = "creating" => /\ \A r \in inflight : r.n = x.req => r.title = x.rank
                            /\ \A p \in DOMAIN products : products[p].req = x.req => products[p].title = x.rank
(* Its listing is the recorded one, linked and active once that was verified. *)
OwnListing(x) ==
    /\ x.pc \in {"ready", "find"} => x.prog = pub.prog
    /\ x.pc \in {"record"} \cup Listed => x.prog.listing \in DOMAIN listings
    /\ x.pc \in Listed => x.prog.listing = pub.prog.listing
    /\ x.pc = "finish" => /\ products[x.product].link = x.prog.listing
                          /\ listings[x.prog.listing].state = "active"
                          /\ listings[x.prog.listing].title = x.rank
(* Only an attempt of the main workflow reports a rejected opportunity. *)
GaveUp(x) ==
    /\ x.pc = "done" /\ x.res = "hard_gate_failed" => run.selected = None /\ x.wf = Main
    /\ x.pc = "recording" => x.res # "hard_gate_failed"
(* All of it. *)
Sound(x) == Current(x) /\ OwnUploads(x) /\ OwnProduct(x) /\ OwnListing(x) /\ GaveUp(x)

(* The inductive strengthening of SucceededIsLive. *)
LiveInv ==
    /\ Assigned /\ Chosen /\ World /\ SucceededIsLive
    /\ \A a \in Attempts : Sound(att[a])

(* No two opportunities of the run print on the same surface. *)
OwnSurfaces == \A r, q \in Ranks : SurfaceOf[r] = SurfaceOf[q] => r = q

(* Labels at which an attempt knows nothing. *)
Resting == PCs \ Working
(* Whoever knows nothing is sound. *)
LEMMA RestingSound ==
    ASSUME NEW x, x.pc \in Resting, x.pc \in {"done", "recording"} => x.res # "hard_gate_failed"
    PROVE  Sound(x)
BY DEF Resting, Sound, Current, OwnUploads, OwnProduct, OwnListing, GaveUp, Releasing, Listed, Working, PCs

-----------------------------------------------------------------------------
(* The workflows an attempt belongs to. *)

(* A step of a workflow keeps attempts assigned. *)
LEMMA AssignedWorkflows ==
    ASSUME TypeOK, Assigned, NEW w \in Workflows, Preparing \/ Scheduling(w) \/ RequestRetry(w)
    PROVE  Assigned'
<1> USE ConstantsAssumption
<1>0. /\ wf \in [Workflows -> WorkflowStates] /\ att \in [Attempts -> AttemptStates]
      /\ Main \in Workflows /\ \A b \in Attempts : att[b].wf \in Workflows
  BY DEF TypeOK, Workflows, AttemptStates
<1>v. ASSUME NEW v \in Workflows, NEW f, wf' = [wf EXCEPT ![v] = f], att' = att,
             wf[v].cur = None \/ att[wf[v].cur].pc = "idle", f.cur = None
      PROVE  Assigned'
  <2>1. \A u \in Workflows : wf'[u] = IF u = v THEN f ELSE wf[u]
    BY <1>0, <1>v
  <2>2. ASSUME NEW b \in Attempts, att[b].pc # "idle" PROVE wf'[att[b].wf].cur = b
    <3>1. wf[att[b].wf].cur = b /\ b # None /\ att[b].wf # v
      BY <1>v, <2>2 DEF Assigned
    <3> QED
      BY <1>0, <2>1, <3>1
  <2> QED
    BY <1>v, <2>1, <2>2 DEF Assigned
<1>c. \A v \in Workflows : wf[v].phase # "publish" => wf[v].cur = None
  BY DEF Assigned
<1>n. ASSUME NEW v \in Workflows PROVE GiveUp(wf[v], FALSE).cur = None /\ NextRank(wf[v]).cur = None
  BY ClearsCurrent
<1>1. CASE BeginPrepare \/ PreparationFails
  <2> DEFINE f(ph) == [wf[Main] EXCEPT !.phase = ph]
  <2>1. PICK ph : wf' = [wf EXCEPT ![Main] = f(ph)]
    BY <1>1 DEF BeginPrepare, PreparationFails
  <2>2. f(ph).cur = wf[Main].cur
    BY <1>0 DEF WorkflowStates
  <2>3. wf[Main].cur = None /\ att' = att
    BY <1>1, <1>0, <1>c DEF BeginPrepare, PreparationFails
  <2> HIDE DEF f
  <2> QED
    BY <1>0, <1>v, <2>1, <2>2, <2>3
<1>2. CASE Approve
  <2> DEFINE f == [wf[Main] EXCEPT !.phase = "publish", !.tries = 0]
  <2>1. wf' = [wf EXCEPT ![Main] = f] /\ f.cur = wf[Main].cur
    BY <1>0, <1>2 DEF Approve, WorkflowStates
  <2>2. wf[Main].cur = None /\ att' = att
    BY <1>2, <1>0, <1>c DEF Approve
  <2> HIDE DEF f
  <2> QED
    BY <1>0, <1>v, <2>1, <2>2
<1>3. CASE RejectInPreparation \/ SkipIneligible
  <2>1. wf[Main].cur = None /\ att' = att /\ wf' = [wf EXCEPT ![Main] = NextRank(wf[Main])]
    BY <1>3, <1>0, <1>c DEF RejectInPreparation, SkipIneligible
  <2> QED
    BY <1>0, <1>v, <1>n, <2>1
<1>4. CASE FinishNoQualified \/ MarkFailed
  <2> DEFINE f(r) == [wf[Main] EXCEPT !.phase = "ended", !.result = r]
  <2>1. PICK r : wf' = [wf EXCEPT ![Main] = f(r)]
    BY <1>4 DEF FinishNoQualified, MarkFailed
  <2>2. f(r).cur = wf[Main].cur
    BY <1>0 DEF WorkflowStates
  <2>3. wf[Main].cur = None /\ att' = att
    BY <1>4, <1>0, <1>c DEF FinishNoQualified, MarkFailed
  <2> HIDE DEF f
  <2> QED
    BY <1>0, <1>v, <2>1, <2>2, <2>3
<1>5. ASSUME NEW a \in Attempts, Start(w, a) PROVE Assigned'
  <2> DEFINE f == [wf[w] EXCEPT !.cur = a, !.tries = wf[w].tries + 1]
             y == [IdleAttempt EXCEPT !.wf = w, !.pc = IF w = Main THEN "begin" ELSE "retryBegin"]
  <2>1. wf' = [wf EXCEPT ![w] = f] /\ att' = [att EXCEPT ![a] = y]
    BY <1>5, Zenon DEF Start
  <2>2. f.cur = a /\ f.phase = "publish"
    BY <1>0, <1>5 DEF WorkflowStates, Start
  <2>3. y.wf = w
    BY DEF IdleAttempt
  <2> HIDE DEF f, y
  <2>4. \A u \in Workflows : wf'[u] = IF u = w THEN f ELSE wf[u]
    BY <1>0, <2>1
  <2>5. \A b \in Attempts : att'[b] = IF b = a THEN y ELSE att[b]
    BY <1>0, <2>1
  <2>6. wf[w].cur = None /\ \A b \in Attempts : b # None
    BY <1>5 DEF Start
  <2>7. ASSUME NEW b \in Attempts, att'[b].pc # "idle" PROVE wf'[att'[b].wf].cur = b
    <3>1. CASE b = a
      BY <2>2, <2>3, <2>4, <2>5, <3>1
    <3>2. CASE b # a
      BY <1>0, <2>4, <2>5, <2>6, <2>7, <3>2 DEF Assigned
    <3> QED
      BY <3>1, <3>2
  <2> QED
    BY <2>2, <2>4, <2>7 DEF Assigned
<1>6. CASE Expire(w)
  BY <1>6, <1>v, <1>n DEF Expire, At
<1>7. CASE ReadRetryStatus(w)
  <2> DEFINE f == [wf[w] EXCEPT !.phase = "finishing", !.seen = pub.status]
  <2>1. wf' = [wf EXCEPT ![w] = f] /\ att' = att /\ wf[w].cur = None
    BY <1>c, <1>7 DEF ReadRetryStatus
  <2>2. f.cur = wf[w].cur
    BY <1>0 DEF WorkflowStates
  <2> HIDE DEF f
  <2> QED
    BY <1>v, <2>1, <2>2
<1>8. CASE FinishRetry(w)
  <2> DEFINE f == [wf[w] EXCEPT !.phase = "ended", !.result = wf[w].seen]
  <2>1. wf' = [wf EXCEPT ![w] = f] /\ att' = att /\ wf[w].cur = None
    BY <1>c, <1>8 DEF FinishRetry
  <2>2. f.cur = wf[w].cur
    BY <1>0 DEF WorkflowStates
  <2> HIDE DEF f
  <2> QED
    BY <1>v, <2>1, <2>2
<1>9. CASE RequestRetry(w)
  <2> DEFINE f == [wf[w] EXCEPT !.phase = "publish"]
  <2>1. wf' = [wf EXCEPT ![w] = f] /\ att' = att /\ wf[w].cur = None
    BY <1>c, <1>9 DEF RequestRetry
  <2>2. f.cur = wf[w].cur
    BY <1>0 DEF WorkflowStates
  <2> HIDE DEF f
  <2> QED
    BY <1>v, <2>1, <2>2
<1> QED
  BY <1>1, <1>2, <1>3, <1>4, <1>5, <1>6, <1>7, <1>8, <1>9 DEF Preparing, Scheduling

(* A step of an attempt keeps its workflow, until the attempt is over. *)
LEMMA KeepsWorkflow ==
    ASSUME TypeOK, NEW a \in Attempts, Publishing(a) \/ Crash(a)
    PROVE  att'[a].wf = att[a].wf \/ att'[a].pc = "idle"
<1>0. att \in [Attempts -> AttemptStates] /\ att[a] \in AttemptStates
  BY DEF TypeOK
<1>f. Fails(a) => att'[a].wf = att[a].wf
  BY <1>0 DEF Fails, Raise, AttemptStates
<1>g. \A label : Goto(a, label) => att'[a].wf = att[a].wf
  BY <1>0 DEF Goto, AttemptStates
<1>r. \A r : /\ Raise(att[a], r).wf = att[a].wf
             /\ Done(att[a], r).wf = att[a].wf
  BY <1>0 DEF Raise, Done, AttemptStates
<1>1. CASE \/ Unchanged(a) \/ UploadFails(a) \/ UpdateProduct(a) \/ CreateRejected(a)
           \/ CreateAmbiguous(a) \/ ReconcileFails(a) \/ DraftReady(a) \/ NotReady(a)
           \/ DraftFails(a) \/ Filled(a) \/ FillFails(a) \/ Activate(a) \/ Link(a)
           \/ Deactivate(a) \/ Verify(a)
  BY <1>1, <1>f, <1>g DEF Unchanged, UploadFails, UpdateProduct, CreateRejected, CreateAmbiguous,
     ReconcileFails, DraftReady, NotReady, DraftFails, Filled, FillFails, Activate, Link, Deactivate, Verify
<1>2. CASE StampFingerprint(a) \/ RecordCreateIntent(a) \/ RecordListing(a) \/ RecordFailure(a)
  BY <1>2, <1>g DEF StampFingerprint, RecordCreateIntent, RecordListing, RecordFailure
<1>3. CASE Drift(a) \/ RefreshFails(a) \/ ClearCreateIntent(a) \/ HandleError(a) \/ Finish(a)
  <2>1. \E r : att' = [att EXCEPT ![a] = Raise(@, r)] \/ att' = [att EXCEPT ![a] = Done(@, r)]
    BY <1>3 DEF Drift, RefreshFails, ClearCreateIntent, HandleError, Finish
  <2> QED
    BY <1>0, <1>r, <2>1
<1>4. CASE RetryBegin(a)
  BY <1>0, <1>4, <1>r, <1>g DEF RetryBegin
<1>5. CASE Report(a) \/ Crash(a)
  BY <1>0, <1>5 DEF Report, Crash, IdleAttempt
<1>6. CASE Begin(a)
  <2> DEFINE y == [att[a] EXCEPT !.pc = "refresh", !.rank = run.selected,
                       !.uploads = pub.uploads, !.first = pub.first, !.product = pub.product]
  <2>1. y.wf = att[a].wf
    BY <1>0 DEF AttemptStates
  <2>2. att' = [att EXCEPT ![a] = y] => att'[a].wf = att[a].wf
    <3> HIDE DEF y
    <3> QED
      BY <1>0, <2>1
  <2>3. \/ \E r : att' = [att EXCEPT ![a] = Done(@, r)] \/ att' = [att EXCEPT ![a] = Raise(@, r)]
        \/ att' = [att EXCEPT ![a] = y]
    <3>1. CASE run.status = "published" /\ pub.status = "succeeded"
      BY <1>6, <3>1 DEF Begin
    <3>2. CASE /\ ~(run.status = "published" /\ pub.status = "succeeded")
               /\ run.status # "publishing" \/ run.selected = None \/ run.package # run.selected
      BY <1>6, <3>2 DEF Begin
    <3>3. CASE /\ ~(run.status = "published" /\ pub.status = "succeeded")
               /\ ~(run.status # "publishing" \/ run.selected = None \/ run.package # run.selected)
      BY <1>6, <3>3 DEF Begin
    <3> QED
      BY <3>1, <3>2, <3>3
  <2> HIDE DEF y
  <2> QED
    BY <1>0, <1>r, <2>2, <2>3
<1>11. CASE Upload(a)
  <2> DEFINE sig == SurfaceOf[att[a].rank]
             art == IF att[a].uploads[sig] # None THEN att[a].uploads[sig] ELSE att[a].rank
             y == [att[a] EXCEPT !.pc = "reserve", !.uploads[sig] = art,
                      !.first = IF att[a].first = None THEN art ELSE att[a].first]
  <2>1. att' = [att EXCEPT ![a] = y]
    BY <1>11, Zenon DEF Upload
  <2>2. y.wf = att[a].wf
    BY <1>0 DEF AttemptStates
  <2> HIDE DEF y
  <2> QED
    BY <1>0, <2>1, <2>2
<1>12. CASE Reserve(a)
  <2>1. CASE pub.status = "succeeded"
    BY <1>0, <1>12, <1>r, <2>1 DEF Reserve
  <2>2. CASE pub.status # "succeeded"
    BY <1>0, <1>12, <2>2 DEF Reserve, AttemptStates
  <2> QED
    BY <2>1, <2>2
<1>7. CASE SendCreate(a) \/ SendDraft(a) \/ SaveProduct(a) \/ RecordDraftIntent(a)
  BY <1>0, <1>7, ZenonT(30) DEF SendCreate, SendDraft, Send, SaveProduct, RecordDraftIntent, AttemptStates
<1>8. CASE (\E p \in DOMAIN products : CreateAccepted(a, p)) \/ (\E l \in DOMAIN listings : DraftCreated(a, l))
  BY <1>0, <1>8 DEF CreateAccepted, DraftCreated, AttemptStates
<1>9. CASE Reconcile(a)
  BY <1>0, <1>9, <1>r DEF Reconcile, AttemptStates
<1>10. CASE FindListing(a)
  BY <1>0, <1>10, <1>g DEF FindListing, AttemptStates
<1> QED
  BY <1>1, <1>2, <1>3, <1>4, <1>5, <1>6, <1>7, <1>8, <1>9, <1>10, <1>11, <1>12
     DEF Publishing

(* A step of an attempt keeps attempts assigned. *)
LEMMA AssignedAttempt ==
    ASSUME TypeOK, Assigned, NEW a \in Attempts, Publishing(a) \/ Crash(a)
    PROVE  Assigned'
<1>0. /\ wf \in [Workflows -> WorkflowStates] /\ att \in [Attempts -> AttemptStates]
      /\ \A b \in Attempts : att[b].wf \in Workflows
      /\ att[a].pc # "idle" /\ \A b \in Attempts : b # a => att'[b] = att[b]
  BY OtherAttempts DEF TypeOK, AttemptStates
<1>1. CASE Report(a)
  <2>1. PICK w \in Workflows : w = att[a].wf
    BY <1>0
  <2>2. wf[w].cur = a
    BY <1>0, <2>1 DEF Assigned
  <2>3. att'[a].pc = "idle"
    BY <1>0, <1>1 DEF Report, IdleAttempt
  <2> DEFINE f == Outcome(w, wf[w], att[a].res)
  <2>4. wf' = [wf EXCEPT ![w] = f] /\ f.cur = None
    BY <1>1, <2>1, <2>2, ClearsCurrent DEF Report
  <2> HIDE DEF f
  <2>5. \A u \in Workflows : wf'[u] = IF u = w THEN f ELSE wf[u]
    BY <1>0, <2>4
  <2>6. ASSUME NEW b \in Attempts, att'[b].pc # "idle" PROVE wf'[att'[b].wf].cur = b
    <3>1. b # a /\ att'[b] = att[b] /\ wf[att[b].wf].cur = b
      BY <1>0, <2>3, <2>6 DEF Assigned
    <3> QED
      BY <1>0, <2>2, <2>5, <3>1
  <2> QED
    BY <2>4, <2>5, <2>6 DEF Assigned
<1>2. CASE ~Report(a)
  <2>1. wf' = wf
    <3>1. Silent(a) \/ Writes(a) \/ Closes(a)
      BY DEF Publishing, Silent, Writes, Closes
    <3>2. Writes(a) => wf' = wf
      BY DEF Writes, Reserve, StampFingerprint, RecordCreateIntent, ClearCreateIntent, Reconcile,
         SaveProduct, RecordDraftIntent, RecordListing, HandleError
    <3> QED
      BY <1>2, <3>1, <3>2, SilentWorks DEF Closes, Begin, Finish, RetryBegin, RecordFailure, Crash
  <2>2. \A b \in Attempts : att'[b].pc # "idle" => att'[b].wf = att[b].wf /\ att[b].pc # "idle"
    BY <1>0, KeepsWorkflow
  <2> QED
    BY <2>1, <2>2 DEF Assigned
<1> QED
  BY <1>1, <1>2

-----------------------------------------------------------------------------
(* Steps that leave the selection and the shops alone. *)

(* What is in a shop is one of its products or listings. *)
LEMMA ProductOf == ASSUME NEW S, NEW s \in Seq(S), NEW i \in DOMAIN s PROVE s[i] \in S
OBVIOUS

(* Where the attempts are afterwards: at the same place, or at rest. *)
Rests(y) == y.pc \in Resting /\ (y.pc \in {"done", "recording"} => y.res # "hard_gate_failed")

(* Nothing that matters changes, and attempts at most come to rest. *)
LEMMA QuietLive ==
    ASSUME LiveInv, Assigned', UNCHANGED <<products, listings, inflight, sent>>,
           run'.selected = run.selected, run'.package = run.package, run'.rejected = run.rejected,
           pub'.uploads = pub.uploads, pub'.product = pub.product, pub'.prog = pub.prog,
           pub'.status = "succeeded" => pub.status = "succeeded",
           wf'[Main].rank = wf[Main].rank,
           wf'[Main].phase \in {"prepare", "preparing", "exhausted"} => wf'[Main].phase = wf[Main].phase,
           \A b \in Attempts : att'[b] = att[b] \/ Rests(att'[b])
    PROVE  LiveInv'
<1>1. Chosen'
  BY DEF LiveInv, Chosen
<1>2. World'
  BY DEF LiveInv, World, OwnArt
<1>3. SucceededIsLive'
  BY DEF LiveInv, SucceededIsLive
<1>4. ASSUME NEW b \in Attempts PROVE Sound(att[b])'
  <2>1. CASE Rests(att'[b])
    BY <2>1 DEF Rests, Resting, Sound, Current, OwnUploads, OwnProduct, OwnListing, GaveUp,
       Releasing, Listed, Working, PCs
  <2>2. CASE att'[b] = att[b]
    <3>1. Sound(att[b])
      BY DEF LiveInv
    <3> QED
      BY <2>2, <3>1 DEF Sound, Current, OwnUploads, OwnArt, OwnProduct, OwnListing, GaveUp
  <2> QED
    BY <2>1, <2>2
<1> QED
  BY <1>1, <1>2, <1>3, <1>4 DEF LiveInv

(* While the main workflow looks for an opportunity nobody publishes. *)
Looking == wf[Main].phase \in {"prepare", "preparing", "exhausted"}
(* Nobody is at work then, and no success is recorded. *)
LEMMA NobodyPublishes ==
    ASSUME TypeOK, HasRank, LiveInv, Looking
    PROVE  /\ pub.status # "succeeded"
           /\ \A b \in Attempts : Rests(att[b])
<1> USE ConstantsAssumption
<1>1. run.selected = None \/ run.package = None
  BY DEF LiveInv, Chosen, Looking
<1>2. pub.status # "succeeded"
  <2> SUFFICES ASSUME pub.status = "succeeded" PROVE FALSE
    OBVIOUS
  <2>1. PICK p \in DOMAIN products : products[p].title = run.selected /\ run.selected = run.package
    BY DEF LiveInv, SucceededIsLive
  <2>2. products[p].title \in Ranks
    <3>1. products[p] \in Products
      BY ProductOf DEF TypeOK
    <3> QED
      BY <3>1 DEF Products
  <2> QED
    BY <1>1, <2>1, <2>2 DEF Ranks
<1>3. ASSUME NEW b \in Attempts PROVE Rests(att[b])
  <2>0. Sound(att[b]) /\ att[b] \in AttemptStates
    BY DEF LiveInv, TypeOK
  <2>1. att[b].pc \notin Working
    <3> SUFFICES ASSUME att[b].pc \in Working PROVE FALSE
      OBVIOUS
    <3>1. att[b].rank \in Ranks /\ att[b].rank = run.selected /\ run.package = run.selected
      BY <2>0 DEF HasRank, Sound, Current
    <3> QED
      BY <1>1, <3>1 DEF Ranks
  <2>2. ~(att[b].pc = "done" /\ att[b].res = "hard_gate_failed")
    <3> SUFFICES ASSUME att[b].pc = "done", att[b].res = "hard_gate_failed" PROVE FALSE
      OBVIOUS
    <3>1. att[b].wf = Main
      BY <2>0 DEF Sound, GaveUp
    <3>2. wf[Main].cur = b /\ b # None
      BY <3>1 DEF LiveInv, Assigned, ConstantsAssumption
    <3>3. wf[Main].phase = "publish"
      BY <3>2 DEF LiveInv, Assigned, Workflows
    <3> QED
      BY <3>3 DEF Looking
  <2> QED
    BY <2>0, <2>1, <2>2 DEF Rests, Resting, AttemptStates, Sound, GaveUp
<1> QED
  BY <1>2, <1>3

(* Steps that select another opportunity: nobody publishes. *)
LEMMA SelectLive ==
    ASSUME TypeOK, LiveInv, Assigned', Chosen', UNCHANGED <<pub, products, listings, inflight, sent>>,
           wf'[Main].rank \in Int, wf[Main].rank \in Int, wf'[Main].rank >= wf[Main].rank,
           pub.status # "succeeded", \A b \in Attempts : Rests(att'[b])
    PROVE  LiveInv'
<1>1. World'
  <2>1. pub.prog.fp[1] \in Int /\ pub.prog.fp[1] <= wf[Main].rank
    <3>1. pub.prog.fp \in Fingerprint
      BY DEF TypeOK, PublishRecords, Progress
    <3> QED
      BY <3>1, ConstantsAssumption DEF LiveInv, Chosen, Fingerprint, Ranks, ConstantsAssumption
  <2>2. pub.prog.fp[1] = wf'[Main].rank => wf'[Main].rank = wf[Main].rank
    BY <2>1
  <2> QED
    BY <2>2 DEF LiveInv, World, OwnArt
<1>2. SucceededIsLive'
  BY DEF SucceededIsLive
<1>3. \A b \in Attempts : Sound(att[b])'
  BY DEF Rests, Resting, Sound, Current, OwnUploads, OwnProduct, OwnListing, GaveUp,
     Releasing, Listed, Working, PCs
<1> QED
  BY <1>1, <1>2, <1>3 DEF LiveInv

(* The main workflow goes on to the next opportunity. *)
LEMMA NextRankChosen ==
    ASSUME TypeOK, HasRank, Chosen, run' \in RunRecords,
           run'.selected = None, run'.rejected \subseteq run.rejected \cup {wf[Main].rank},
           wf'[Main] = NextRank(wf[Main]), pub' = pub
    PROVE  Chosen' /\ wf'[Main].rank \in Int /\ wf'[Main].rank >= wf[Main].rank
<1>0. /\ wf[Main] \in WorkflowStates /\ wf[Main].rank \in Int /\ run.rejected \subseteq Int
      /\ pub.prog.fp[1] \in Int /\ NumRanks \in Int
  <2>1. pub.prog.fp \in Fingerprint
    BY DEF TypeOK, PublishRecords, Progress
  <2> QED
    BY <2>1, ConstantsAssumption DEF TypeOK, HasRank, Ranks, Workflows, RunRecords, Fingerprint, ConstantsAssumption
<1>1. None \notin run'.rejected
  BY DEF RunRecords, Ranks
<1>2. CASE wf[Main].rank < NumRanks
  <2>1. wf'[Main].rank = wf[Main].rank + 1 /\ wf'[Main].phase = "prepare"
    BY <1>0, <1>2 DEF NextRank, WorkflowStates
  <2> QED
    BY <1>0, <1>1, <2>1 DEF Chosen
<1>3. CASE ~(wf[Main].rank < NumRanks)
  <2>1. wf'[Main].rank = wf[Main].rank /\ wf'[Main].phase = "exhausted"
    BY <1>0, <1>3 DEF NextRank, WorkflowStates
  <2> QED
    BY <1>0, <1>1, <2>1 DEF Chosen
<1> QED
  BY <1>2, <1>3

(* The preparation of an opportunity. *)
LEMMA PreparingLive ==
    ASSUME TypeOK, TypeOK', HasRank, LiveInv, Preparing
    PROVE  LiveInv'
<1> USE ConstantsAssumption
<1>0. /\ wf[Main] \in WorkflowStates /\ wf \in [Workflows -> WorkflowStates] /\ Main \in Workflows
      /\ run \in RunRecords /\ run' \in RunRecords /\ wf[Main].rank \in Ranks /\ wf[Main].rank \in Int
      /\ Chosen
  BY DEF TypeOK, HasRank, Workflows, LiveInv, Ranks
<1>1. Assigned' /\ UNCHANGED <<pub, products, listings, inflight, sent>> /\ att' = att
  <2>1. att' = att
    BY DEF Preparing, BeginPrepare, Approve, RejectInPreparation, SkipIneligible, PreparationFails,
       FinishNoQualified, MarkFailed
  <2> QED
    BY <1>0, <2>1, AssignedWorkflows, OutsideFinal DEF LiveInv
<1>2. Looking => pub.status # "succeeded" /\ \A b \in Attempts : Rests(att'[b])
  BY <1>1, NobodyPublishes
<1>3. CASE BeginPrepare
  <2>1. Looking /\ run.selected = None
    BY <1>0, <1>3 DEF BeginPrepare, Looking, Chosen
  <2>2. wf'[Main].rank = wf[Main].rank /\ wf'[Main].phase = "preparing"
    BY <1>0, <1>3 DEF BeginPrepare, WorkflowStates
  <2>3. run'.selected = wf[Main].rank /\ run'.package = None /\ run'.rejected = run.rejected
    BY <1>0, <1>3, <2>1 DEF BeginPrepare, RunRecords, Ranks
  <2>4. Chosen'
    BY <1>0, <1>1, <1>3, <2>2, <2>3 DEF Chosen, BeginPrepare
  <2> QED
    BY <1>0, <1>1, <1>2, <2>1, <2>2, <2>4, SelectLive
<1>4. CASE Approve
  <2>1. Looking
    BY <1>4 DEF Approve, Looking
  <2>2. wf'[Main].rank = wf[Main].rank /\ wf'[Main].phase = "publish"
    BY <1>0, <1>4 DEF Approve, WorkflowStates
  <2>3. run'.selected = wf[Main].rank /\ run'.rejected = run.rejected
    BY <1>0, <1>4 DEF Approve, RunRecords
  <2>4. Chosen'
    BY <1>0, <1>1, <1>4, <2>2, <2>3 DEF Chosen, Approve
  <2> QED
    BY <1>0, <1>1, <1>2, <2>1, <2>2, <2>4, SelectLive
<1>5. CASE RejectInPreparation \/ SkipIneligible
  <2>1. Looking
    BY <1>5 DEF RejectInPreparation, SkipIneligible, Looking
  <2>2. wf'[Main] = NextRank(wf[Main])
    BY <1>0, <1>5 DEF RejectInPreparation, SkipIneligible
  <2>3. run'.selected = None /\ run'.rejected \subseteq run.rejected \cup {wf[Main].rank}
    <3>1. CASE RejectInPreparation
      BY <1>0, <3>1 DEF RejectInPreparation, Rejecting, RunRecords, Chosen
    <3>2. CASE SkipIneligible
      BY <1>0, <3>2 DEF SkipIneligible, Chosen
    <3> QED
      BY <1>5, <3>1, <3>2
  <2>4. Chosen' /\ wf'[Main].rank \in Int /\ wf'[Main].rank >= wf[Main].rank
    BY <1>0, <1>1, <2>2, <2>3, NextRankChosen
  <2> QED
    BY <1>0, <1>1, <1>2, <2>1, <2>4, SelectLive
<1>6. CASE PreparationFails \/ FinishNoQualified \/ MarkFailed
  <2>1. /\ run'.selected = run.selected /\ run'.package = run.package /\ run'.rejected = run.rejected
    BY <1>0, <1>6 DEF PreparationFails, FinishNoQualified, MarkFailed, RunRecords
  <2>2. wf'[Main].rank = wf[Main].rank /\ wf'[Main].phase \in {"markFailed", "ended"}
    <3>1. CASE PreparationFails
      BY <1>0, <3>1 DEF PreparationFails, WorkflowStates
    <3>2. CASE FinishNoQualified
      BY <1>0, <3>2 DEF FinishNoQualified, WorkflowStates
    <3>3. CASE MarkFailed
      BY <1>0, <3>3 DEF MarkFailed, WorkflowStates
    <3> QED
      BY <1>6, <3>1, <3>2, <3>3
  <2> QED
    BY <1>1, <2>1, <2>2, QuietLive
<1> QED
  BY <1>3, <1>4, <1>5, <1>6 DEF Preparing

(* Starts, timeouts and ends of workflows. *)
LEMMA SchedulingLive ==
    ASSUME TypeOK, LiveInv, NEW w \in Workflows, Scheduling(w) \/ (w \in Retries /\ RequestRetry(w))
    PROVE  LiveInv'
<1> USE ConstantsAssumption
<1>0. /\ wf[w] \in WorkflowStates /\ wf \in [Workflows -> WorkflowStates] /\ Main \in Workflows
      /\ run \in RunRecords
  BY DEF TypeOK, Workflows
<1>1. Assigned' /\ UNCHANGED <<pub, products, listings, inflight, sent>>
  BY AssignedWorkflows, OutsideFinal DEF LiveInv
<1>2. run'.selected = run.selected /\ run'.package = run.package /\ run'.rejected = run.rejected
  BY <1>0 DEF Scheduling, RequestRetry, Start, Expire, ReadRetryStatus, FinishRetry, RunRecords
<1>3. \A b \in Attempts : att'[b] = att[b] \/ Rests(att'[b])
  <2>1. \A b \in Attempts : att'[b] = att[b] \/ att'[b].pc \in {"begin", "retryBegin"}
    BY OutsideFinal
  <2> QED
    BY <2>1 DEF Rests, Resting, PCs, Working
<1>v. ASSUME NEW f, wf' = [wf EXCEPT ![w] = f], f.rank = wf[w].rank,
             w = Main => (f.phase \in {"prepare", "preparing", "exhausted"} => f.phase = wf[w].phase)
      PROVE  LiveInv'
  <2>1. wf'[Main] = IF w = Main THEN f ELSE wf[Main]
    BY <1>0, <1>v
  <2>2. wf'[Main].rank = wf[Main].rank
    BY <1>v, <2>1
  <2>3. wf'[Main].phase \in {"prepare", "preparing", "exhausted"} => wf'[Main].phase = wf[Main].phase
    BY <1>v, <2>1
  <2> QED
    BY <1>1, <1>2, <1>3, <2>2, <2>3, QuietLive
<1>4. ASSUME NEW a \in Attempts, Start(w, a) PROVE LiveInv'
  <2> DEFINE f == [wf[w] EXCEPT !.cur = a, !.tries = wf[w].tries + 1]
  <2>1. wf' = [wf EXCEPT ![w] = f]
    BY <1>4, Zenon DEF Start
  <2>2. f.rank = wf[w].rank /\ f.phase = wf[w].phase
    BY <1>0 DEF WorkflowStates
  <2> HIDE DEF f
  <2> QED
    BY <2>1, <2>2, <1>v
<1>5. CASE Expire(w)
  <2>1. GiveUp(wf[w], FALSE).rank = wf[w].rank
        /\ GiveUp(wf[w], FALSE).phase \in {wf[w].phase, "markFailed", "ended"}
    BY <1>0 DEF GiveUp, WorkflowStates
  <2> QED
    BY <1>5, <1>v, <2>1 DEF Expire
<1>6. CASE ReadRetryStatus(w)
  <2> DEFINE f == [wf[w] EXCEPT !.phase = "finishing", !.seen = pub.status]
  <2>1. wf' = [wf EXCEPT ![w] = f] /\ f.rank = wf[w].rank /\ f.phase = "finishing"
    BY <1>0, <1>6 DEF ReadRetryStatus, WorkflowStates
  <2> HIDE DEF f
  <2> QED
    BY <2>1, <1>v
<1>7. CASE FinishRetry(w)
  <2> DEFINE f == [wf[w] EXCEPT !.phase = "ended", !.result = wf[w].seen]
  <2>1. wf' = [wf EXCEPT ![w] = f] /\ f.rank = wf[w].rank /\ f.phase = "ended"
    BY <1>0, <1>7 DEF FinishRetry, WorkflowStates
  <2> HIDE DEF f
  <2> QED
    BY <2>1, <1>v
<1>8. CASE w \in Retries /\ RequestRetry(w)
  <2> DEFINE f == [wf[w] EXCEPT !.phase = "publish"]
  <2>1. wf' = [wf EXCEPT ![w] = f] /\ f.rank = wf[w].rank /\ f.phase = "publish"
    BY <1>0, <1>8 DEF RequestRetry, WorkflowStates
  <2> HIDE DEF f
  <2> QED
    BY <2>1, <1>v
<1> QED
  BY <1>4, <1>5, <1>6, <1>7, <1>8 DEF Scheduling

-----------------------------------------------------------------------------
(* Steps of an attempt that works. *)

(* What an attempt at work may take for granted. *)
LEMMA WorkerKnows ==
    ASSUME TypeOK, HasRank, Recorded, LiveInv, NEW a \in Attempts, att[a].pc \in Working
    PROVE  /\ att[a] \in AttemptStates /\ pub \in PublishRecords /\ pub.prog \in Progress
           /\ att[a].rank \in Ranks /\ att[a].rank = wf[Main].rank
           /\ att[a].rank = run.selected /\ att[a].rank = run.package
           /\ SurfaceOf[att[a].rank] \in Signatures
           /\ att[a].uploads \in Uploads /\ OwnArt(att[a].uploads)
           /\ Sound(att[a]) /\ World /\ pub.status # "succeeded" /\ ~Looking
<1> USE ConstantsAssumption
<1>1. /\ att[a] \in AttemptStates /\ pub \in PublishRecords /\ att[a].rank \in Ranks /\ Sound(att[a])
      /\ pub.status # "succeeded" /\ World
  BY DEF TypeOK, HasRank, LiveInv, Recorded
<1>2. att[a].rank = run.selected /\ att[a].rank = run.package /\ OwnArt(att[a].uploads)
  BY <1>1 DEF Sound, Current, OwnUploads
<1>3. att[a].rank = wf[Main].rank
  BY <1>1, <1>2 DEF LiveInv, Chosen, Ranks
<1>4. ~Looking
  BY NobodyPublishes DEF Rests, Resting
<1> QED
  BY <1>1, <1>2, <1>3, <1>4 DEF AttemptStates, PublishRecords, ConstantsAssumption

(* A step of an attempt at work, the selection unchanged. *)
LEMMA WorkLive ==
    ASSUME TypeOK, LiveInv, Assigned', Alone, NEW a \in Attempts, att[a].pc # "idle",
           NEW y, att' = [att EXCEPT ![a] = y], Sound(y)', World',
           pub'.prog.fp[1] <= wf[Main].rank, run' = run, wf' = wf, pub'.status # "succeeded"
    PROVE  LiveInv'
<1>1. Chosen' /\ SucceededIsLive'
  BY DEF LiveInv, Chosen, SucceededIsLive
<1>2. att'[a] = y /\ \A b \in Attempts : b # a => att'[b] = att[b]
  BY OwnState
<1>3. ASSUME NEW b \in Attempts PROVE Sound(att[b])'
  <2>1. CASE b = a
    BY <1>2, <2>1
  <2>2. CASE b # a
    <3>1. att'[b].pc = "idle"
      BY <1>2, <2>2 DEF Alone
    <3> QED
      BY <3>1 DEF Sound, Current, OwnUploads, OwnProduct, OwnListing, GaveUp, Releasing, Listed, Working
  <2> QED
    BY <2>1, <2>2
<1> QED
  BY <1>1, <1>3 DEF LiveInv

(* The attempt failed: it is at rest, or about to handle the error. *)
Fallen(x, y) == Rests(y) \/ (y.pc = "failing" /\ y.rank = x.rank /\ y.uploads = x.uploads)
(* A remote call that fails makes its attempt fall. *)
LEMMA FailsFallen ==
    ASSUME TypeOK, NEW a \in Attempts, Fails(a)
    PROVE  \E y : att' = [att EXCEPT ![a] = y] /\ Fallen(att[a], y)
<1>0. att[a] \in AttemptStates
  BY DEF TypeOK
<1>1. CASE att' = [att EXCEPT ![a] = Raise(@, "error")]
  <2>1. Rests(Raise(att[a], "error"))
    BY <1>0 DEF Rests, Resting, Raise, AttemptStates, PCs, Working
  <2> QED
    BY <1>1, <2>1 DEF Fallen
<1>2. CASE att' = [att EXCEPT ![a].pc = "failing"]
  <2>1. Fallen(att[a], [att[a] EXCEPT !.pc = "failing"])
    BY <1>0 DEF Fallen, AttemptStates
  <2> QED
    BY <1>2, <2>1
<1> QED
  BY <1>1, <1>2 DEF Fails

(* A step in which the attempt falls. *)
LEMMA FallenLive ==
    ASSUME TypeOK, HasRank, Recorded, LiveInv, Assigned', Alone, NEW a \in Attempts, att[a].pc \in Working,
           NEW y, att' = [att EXCEPT ![a] = y], Fallen(att[a], y), World',
           pub'.prog.fp = pub.prog.fp, run' = run, wf' = wf, pub'.status # "succeeded"
    PROVE  LiveInv'
<1>0. Current(att[a]) /\ OwnArt(att[a].uploads) /\ att[a].pc # "idle" /\ pub.prog.fp[1] <= wf[Main].rank
  BY WorkerKnows DEF Sound, Working, LiveInv, Chosen
<1>1. Sound(y)'
  <2>1. CASE Rests(y)
    BY <2>1 DEF Rests, Resting, Sound, Current, OwnUploads, OwnProduct, OwnListing, GaveUp,
       Releasing, Listed, Working, PCs
  <2>2. CASE y.pc = "failing" /\ y.rank = att[a].rank /\ y.uploads = att[a].uploads
    <3>1. Current(y)' /\ OwnUploads(y)'
      BY <1>0, <2>2 DEF Current, OwnUploads, OwnArt, Working
    <3> QED
      BY <2>2, <3>1 DEF Sound, OwnProduct, OwnListing, GaveUp, Releasing, Listed
  <2> QED
    BY <2>1, <2>2 DEF Fallen
<1> QED
  BY <1>0, <1>1, WorkLive

(* The shops and the records stay as they are. *)
LEMMA MoveLive ==
    ASSUME TypeOK, LiveInv, Assigned', Alone, Recorded, NEW a \in Attempts, att[a].pc \in Working,
           NEW y, att' = [att EXCEPT ![a] = y], Sound(y),
           UNCHANGED <<run, pub, products, listings, inflight, sent, wf>>
    PROVE  LiveInv'
<1>1. Sound(y)'
  BY DEF Sound, Current, OwnUploads, OwnArt, OwnProduct, OwnListing, GaveUp
<1>2. World'
  BY DEF LiveInv, World, OwnArt
<1>3. pub'.prog.fp[1] <= wf[Main].rank /\ att[a].pc # "idle" /\ pub'.status # "succeeded"
  BY DEF LiveInv, Chosen, Working, Recorded
<1> QED
  BY <1>1, <1>2, <1>3, WorkLive

(* The attempt moves on to another label. *)
LEMMA GotoLive ==
    ASSUME TypeOK, LiveInv, Assigned', Alone, Recorded, NEW a \in Attempts, att[a].pc \in Working,
           NEW label, Goto(a, label), Sound([att[a] EXCEPT !.pc = label]),
           UNCHANGED <<run, pub, products, listings, inflight, sent, wf>>
    PROVE  LiveInv'
<1>1. PICK y : y = [att[a] EXCEPT !.pc = label]
  OBVIOUS
<1>2. att' = [att EXCEPT ![a] = y] /\ Sound(y)
  BY <1>1 DEF Goto
<1> QED
  BY <1>2, MoveLive

(* A remote call fails and has changed nothing. *)
LEMMA FailsLive ==
    ASSUME TypeOK, HasRank, LiveInv, Assigned', Alone, Recorded, NEW a \in Attempts, att[a].pc \in Working,
           Fails(a), UNCHANGED <<run, pub, products, listings, inflight, sent, wf>>
    PROVE  LiveInv'
<1>1. PICK y : att' = [att EXCEPT ![a] = y] /\ Fallen(att[a], y)
  BY FailsFallen
<1>2. World'
  BY DEF LiveInv, World, OwnArt
<1>3. pub'.status # "succeeded"
  BY DEF Recorded
<1> QED
  BY <1>1, <1>2, <1>3, FallenLive

(* Moves of an attempt that change no record and no shop. *)
LEMMA PlainMoves ==
    ASSUME TypeOK, HasRank, LiveInv, Assigned', Alone, Recorded, NEW a \in Attempts,
           \/ Unchanged(a) \/ RefreshFails(a) \/ UploadFails(a) \/ CreateAmbiguous(a) \/ ReconcileFails(a)
           \/ DraftReady(a) \/ NotReady(a) \/ DraftFails(a) \/ Filled(a) \/ FillFails(a) \/ Verify(a)
    PROVE  LiveInv'
<1>1. att[a].pc \in Working /\ UNCHANGED <<run, pub, products, listings, inflight, sent, wf>>
  BY DEF Unchanged, RefreshFails, UploadFails, CreateAmbiguous, ReconcileFails, DraftReady, NotReady,
     DraftFails, Filled, FillFails, Verify, At, Working, PCs, remote
<1>2. att[a] \in AttemptStates /\ Sound(att[a])
  BY <1>1, WorkerKnows
<1>3. Fails(a) => LiveInv'
  BY <1>1, FailsLive
<1>4. \A label : Goto(a, label) /\ Sound([att[a] EXCEPT !.pc = label]) => LiveInv'
  BY <1>1, GotoLive
<1>5. ASSUME NEW label
      PROVE  /\ [att[a] EXCEPT !.pc = label].pc = label
             /\ [att[a] EXCEPT !.pc = label].rank = att[a].rank
             /\ [att[a] EXCEPT !.pc = label].uploads = att[a].uploads
             /\ [att[a] EXCEPT !.pc = label].product = att[a].product
             /\ [att[a] EXCEPT !.pc = label].prog = att[a].prog
  BY <1>2 DEF AttemptStates
<1>6. Sound([att[a] EXCEPT !.pc = "failing"])
  <2>1. PICK y : y = [att[a] EXCEPT !.pc = "failing"]
    OBVIOUS
  <2>2. y.pc = "failing" /\ y.rank = att[a].rank /\ y.uploads = att[a].uploads
    BY <1>5, <2>1
  <2>3. Sound(y)
    BY <1>1, <1>2, <2>2 DEF Sound, Current, OwnUploads, OwnProduct, OwnListing, GaveUp, Releasing, Listed, Working, PCs
  <2> QED
    BY <2>1, <2>3
<1>7. CASE Unchanged(a)
  <2>1. PICK y : y = [att[a] EXCEPT !.pc = "upload"]
    OBVIOUS
  <2>2. y.pc = "upload" /\ y.rank = att[a].rank /\ y.uploads = att[a].uploads /\ y.product = att[a].product
    BY <1>5, <2>1
  <2>3. Sound(y)
    BY <1>1, <1>2, <1>7, <2>2 DEF Unchanged, At, Sound, Current, OwnUploads, OwnProduct, OwnListing, GaveUp,
       Releasing, Listed, Working, PCs
  <2> QED
    BY <1>4, <1>7, <2>1, <2>3 DEF Unchanged
<1>8. CASE RefreshFails(a)
  <2>1. PICK y : y = Raise(att[a], "error")
    OBVIOUS
  <2>2. Rests(y) /\ att' = [att EXCEPT ![a] = y]
    BY <1>2, <1>8, <2>1 DEF RefreshFails, Rests, Resting, Raise, AttemptStates, PCs, Working
  <2>3. Sound(y)
    BY <2>2, RestingSound DEF Rests
  <2> QED
    BY <1>1, <2>2, <2>3, MoveLive
<1>9. CASE CreateAmbiguous(a)
  <2>1. PICK y : y = [att[a] EXCEPT !.pc = "reconcile"]
    OBVIOUS
  <2>2. y.pc = "reconcile" /\ y.rank = att[a].rank /\ y.uploads = att[a].uploads
    BY <1>5, <2>1
  <2>3. Sound(y)
    BY <1>1, <1>2, <1>9, <2>2 DEF CreateAmbiguous, At, Sound, Current, OwnUploads, OwnProduct, OwnListing, GaveUp,
       Releasing, Listed, Working, PCs
  <2> QED
    BY <1>4, <1>6, <1>9, <2>1, <2>3 DEF CreateAmbiguous
<1>10. CASE DraftReady(a)
  <2>1. PICK y : y = [att[a] EXCEPT !.pc = "find"]
    OBVIOUS
  <2>2. y.pc = "find" /\ y.rank = att[a].rank /\ y.uploads = att[a].uploads
        /\ y.product = att[a].product /\ y.prog = att[a].prog
    BY <1>5, <2>1
  <2>3. Sound(y)
    BY <1>1, <1>2, <1>10, <2>2 DEF DraftReady, At, Sound, Current, OwnUploads, OwnProduct, OwnListing, GaveUp,
       Releasing, Listed, Working, PCs
  <2> QED
    BY <1>4, <1>10, <2>1, <2>3 DEF DraftReady
<1>11. CASE Filled(a)
  <2>1. PICK y : y = [att[a] EXCEPT !.pc = "activate"]
    OBVIOUS
  <2>2. y.pc = "activate" /\ y.rank = att[a].rank /\ y.uploads = att[a].uploads
        /\ y.product = att[a].product /\ y.prog = att[a].prog
    BY <1>5, <2>1
  <2>3. Sound(y)
    BY <1>1, <1>2, <1>11, <2>2 DEF Filled, At, Sound, Current, OwnUploads, OwnProduct, OwnListing, GaveUp,
       Releasing, Listed, Working, PCs
  <2> QED
    BY <1>4, <1>11, <2>1, <2>3 DEF Filled
<1>12. CASE Verify(a)
  <2>1. PICK y : y = [att[a] EXCEPT !.pc = "finish"]
    OBVIOUS
  <2>2. y.pc = "finish" /\ y.rank = att[a].rank /\ y.uploads = att[a].uploads
        /\ y.product = att[a].product /\ y.prog = att[a].prog
    BY <1>5, <2>1
  <2>3. CASE /\ products[att[a].product].link = att[a].prog.listing
             /\ listings[att[a].prog.listing].state = "active"
             /\ listings[att[a].prog.listing].title = att[a].rank
             /\ Goto(a, "finish")
    <3>1. Sound(y)
      BY <1>1, <1>2, <1>12, <2>2, <2>3 DEF Verify, At, Sound, Current, OwnUploads, OwnProduct, OwnListing, GaveUp,
         Releasing, Listed, Working, PCs
    <3> QED
      BY <1>4, <2>1, <2>3, <3>1
  <2> QED
    BY <1>3, <1>12, <2>3 DEF Verify
<1> QED
  BY <1>3, <1>4, <1>6, <1>7, <1>8, <1>9, <1>10, <1>11, <1>12
     DEF UploadFails, ReconcileFails, NotReady, DraftFails, FillFails

(* Admission: the attempt takes its snapshot of the selection and the record. *)
LEMMA BeginLive ==
    ASSUME TypeOK, HasRank, LiveInv, Assigned', Alone, Recorded, NEW a \in Attempts, Begin(a)
    PROVE  LiveInv'
<1>0. /\ att[a] \in AttemptStates /\ UNCHANGED <<run, pub, products, listings, inflight, sent, wf>>
      /\ att[a].pc # "idle"
  BY DEF TypeOK, Begin, At, remote
<1>1. PICK y : y = [att[a] EXCEPT !.pc = "refresh", !.rank = run.selected,
                       !.uploads = pub.uploads, !.first = pub.first, !.product = pub.product]
  OBVIOUS
<1>2. y.pc = "refresh" /\ y.rank = run.selected /\ y.uploads = pub.uploads /\ y.product = pub.product
  BY <1>0, <1>1 DEF AttemptStates
<1>3. ASSUME NEW z, att' = [att EXCEPT ![a] = z], Rests(z) PROVE LiveInv'
  <2>1. \A b \in Attempts : att'[b] = att[b] \/ Rests(att'[b])
    BY <1>3, OwnState
  <2> QED
    BY <1>0, <2>1, QuietLive
<1>4. \A r : /\ Rests(Raise(att[a], "fatal")) /\ Rests(Done(att[a], "succeeded"))
  BY <1>0 DEF Rests, Resting, Raise, Done, AttemptStates, PCs, Working
<1>5. CASE run.status = "published" /\ pub.status = "succeeded"
  BY <1>3, <1>4, <1>5 DEF Begin
<1>6. CASE /\ ~(run.status = "published" /\ pub.status = "succeeded")
           /\ run.status # "publishing" \/ run.selected = None \/ run.package # run.selected
  BY <1>3, <1>4, <1>6 DEF Begin
<1>7. CASE /\ ~(run.status = "published" /\ pub.status = "succeeded")
           /\ ~(run.status # "publishing" \/ run.selected = None \/ run.package # run.selected)
           /\ pub.status = "succeeded"
  BY <1>3, <1>4, <1>7 DEF Begin
<1>8. CASE /\ pub.status # "succeeded"
           /\ ~(run.status # "publishing" \/ run.selected = None \/ run.package # run.selected)
  <2>1. att' = [att EXCEPT ![a] = y]
    BY <1>1, <1>8 DEF Begin
  <2>2. OwnArt(pub.uploads)
    BY DEF LiveInv, World
  <2>3. Sound(y)
    BY <1>2, <1>8, <2>2 DEF Sound, Current, OwnUploads, OwnProduct, OwnListing, GaveUp, Releasing, Listed, Working
  <2>4. Sound(y)'
    BY <1>0, <2>3 DEF Sound, Current, OwnUploads, OwnArt, OwnProduct, OwnListing, GaveUp
  <2>5. World'
    BY <1>0 DEF LiveInv, World, OwnArt
  <2>6. pub'.prog.fp[1] <= wf[Main].rank /\ pub'.status # "succeeded"
    BY <1>0, <1>8 DEF LiveInv, Chosen
  <2> QED
    BY <1>0, <2>1, <2>4, <2>5, <2>6, WorkLive
<1> QED
  BY <1>5, <1>6, <1>7, <1>8

(* The ends of an attempt. *)
LEMMA RestingLive ==
    ASSUME TypeOK, HasRank, LiveInv, Assigned', Alone, Recorded, NEW a \in Attempts,
           RetryBegin(a) \/ RecordFailure(a) \/ HandleError(a) \/ Crash(a)
    PROVE  LiveInv'
<1>0. /\ att[a] \in AttemptStates /\ run \in RunRecords /\ pub \in PublishRecords
      /\ UNCHANGED <<products, listings, inflight, sent, wf>>
  BY DEF TypeOK, RetryBegin, RecordFailure, HandleError, Crash, remote
<1>1. /\ run'.selected = run.selected /\ run'.package = run.package /\ run'.rejected = run.rejected
      /\ pub'.uploads = pub.uploads /\ pub'.product = pub.product /\ pub'.prog = pub.prog
  BY <1>0 DEF RetryBegin, RecordFailure, HandleError, Crash, RunRecords, PublishRecords
<1>2. pub'.status = "succeeded" => pub.status = "succeeded"
  BY <1>0 DEF RetryBegin, RecordFailure, HandleError, Crash, PublishRecords
<1>3. ASSUME NEW z, att' = [att EXCEPT ![a] = z], Rests(z) PROVE LiveInv'
  <2>1. \A b \in Attempts : att'[b] = att[b] \/ Rests(att'[b])
    BY <1>3, OwnState
  <2> QED
    BY <1>0, <1>1, <1>2, <2>1, QuietLive
<1>4. /\ Rests(Raise(att[a], "error")) /\ Rests(Done(att[a], "reconciliation_required"))
      /\ Rests([att[a] EXCEPT !.pc = "begin"]) /\ Rests(IdleAttempt)
  BY <1>0 DEF Rests, Resting, Raise, Done, AttemptStates, PCs, Working, IdleAttempt
<1>5. CASE RetryBegin(a)
  BY <1>3, <1>4, <1>5 DEF RetryBegin, Goto
<1>6. CASE HandleError(a) \/ Crash(a)
  BY <1>3, <1>4, <1>6 DEF HandleError, Crash
<1>7. CASE RecordFailure(a)
  <2>1. PICK z : z = [att[a] EXCEPT !.pc = "done"]
    OBVIOUS
  <2>2. att' = [att EXCEPT ![a] = z]
    BY <1>7, <2>1 DEF RecordFailure, Goto
  <2>3. att[a].res # "hard_gate_failed"
    BY <1>7 DEF RecordFailure, At, LiveInv, Sound, GaveUp
  <2>4. z.pc = "done" /\ z.res = att[a].res
    BY <1>0, <2>1 DEF AttemptStates
  <2>5. Rests(z)
    BY <2>3, <2>4 DEF Rests, Resting, PCs, Working
  <2> QED
    BY <1>3, <2>2, <2>5
<1> QED
  BY <1>5, <1>6, <1>7

(* What the main workflow does with the result of its attempt. *)
LEMMA ReportLive ==
    ASSUME TypeOK, TypeOK', HasRank, LiveInv, Assigned', Alone, Recorded, NEW a \in Attempts, Report(a)
    PROVE  LiveInv'
<1> USE ConstantsAssumption
<1>0. /\ att[a] \in AttemptStates /\ run \in RunRecords /\ wf \in [Workflows -> WorkflowStates]
      /\ Main \in Workflows /\ UNCHANGED <<run, pub, products, listings, inflight, sent>>
      /\ att[a].pc = "done" /\ att[a].wf \in Workflows /\ wf[Main].rank \in Int
  BY DEF TypeOK, Report, At, remote, Workflows, AttemptStates, HasRank, Ranks
<1>1. Rests(IdleAttempt)
  BY DEF Rests, Resting, PCs, Working, IdleAttempt
<1>2. \A b \in Attempts : /\ att'[b] = att[b] \/ Rests(att'[b])
                          /\ Rests(att'[b])
  <2>1. att'[a] = IdleAttempt /\ \A b \in Attempts : b # a => att'[b] = att[b] /\ att[b].pc = "idle"
    BY <1>0, OwnState, ZenonT(30) DEF Report, Alone
  <2> QED
    BY <1>1, <2>1 DEF Rests, Resting, PCs, Working
<1>3. wf[att[a].wf].cur = a
  BY <1>0 DEF LiveInv, Assigned
<1>4. CASE att[a].wf = Main /\ att[a].res = "hard_gate_failed"
  <2>1. run.selected = None
    BY <1>0, <1>4 DEF LiveInv, Sound, GaveUp
  <2>2. wf'[Main] = NextRank(wf[Main])
    BY <1>0, <1>3, <1>4 DEF Report, Outcome
  <2>3. pub.status # "succeeded"
    <3> SUFFICES ASSUME pub.status = "succeeded" PROVE FALSE
      OBVIOUS
    <3>1. PICK p \in DOMAIN products : products[p].title = run.selected
      BY DEF LiveInv, SucceededIsLive
    <3>2. products[p] \in Products
      BY ProductOf DEF TypeOK
    <3> QED
      BY <2>1, <3>1, <3>2 DEF Products, Ranks
  <2>4. Chosen' /\ wf'[Main].rank \in Int /\ wf'[Main].rank >= wf[Main].rank
    BY <1>0, <2>1, <2>2, NextRankChosen DEF LiveInv
  <2> QED
    BY <1>0, <1>2, <2>3, <2>4, SelectLive
<1>5. CASE ~(att[a].wf = Main /\ att[a].res = "hard_gate_failed")
  <2>1. PICK w \in Workflows : w = att[a].wf
    BY <1>0
  <2>2. PICK f : f = Outcome(w, wf[w], att[a].res)
    OBVIOUS
  <2>3. w = Main => f.rank = wf[w].rank /\ f.phase \in {wf[w].phase, "markFailed", "ended"}
    <3>1. CASE att[a].res \in {"error", "fatal"}
      BY <1>0, <2>2, <3>1 DEF Outcome, GiveUp, WorkflowStates
    <3>2. CASE att[a].res \notin {"error", "fatal"}
      BY <1>0, <1>5, <2>1, <2>2, <3>2 DEF Outcome, WorkflowStates
    <3> QED
      BY <3>1, <3>2
  <2>4. wf' = [wf EXCEPT ![w] = f]
    BY <1>3, <2>1, <2>2 DEF Report
  <2>5. wf'[Main].rank = wf[Main].rank /\ wf'[Main].phase \in {wf[Main].phase, "markFailed", "ended"}
    BY <1>0, <2>3, <2>4
  <2> QED
    BY <1>0, <1>2, <2>5, QuietLive
<1> QED
  BY <1>4, <1>5

(* The opportunity drifted: it is rejected. *)
LEMMA DriftLive ==
    ASSUME TypeOK, TypeOK', HasRank, LiveInv, Assigned', Alone, Recorded, NEW a \in Attempts, Drift(a)
    PROVE  LiveInv'
<1>0. /\ att[a].pc \in Working /\ att[a].pc # "idle" /\ run \in RunRecords /\ run' \in RunRecords
      /\ UNCHANGED <<pub, products, listings, inflight, sent, wf>>
  BY DEF TypeOK, Drift, At, Working, PCs, remote
<1>1. /\ att[a] \in AttemptStates /\ att[a].rank \in Ranks /\ att[a].rank = wf[Main].rank
      /\ att[a].rank = run.selected /\ pub.status # "succeeded" /\ ~Looking
  BY <1>0, WorkerKnows
<1>2. run'.selected = None /\ run'.rejected = run.rejected \cup {att[a].rank}
  BY <1>0, <1>1 DEF Drift, Rejecting, RunRecords
<1>3. Chosen'
  <2>1. None \notin run'.rejected
    BY <1>0 DEF RunRecords, Ranks
  <2> QED
    BY <1>0, <1>1, <1>2, <2>1 DEF LiveInv, Chosen, Looking, Ranks
<1>4. World' /\ SucceededIsLive'
  BY <1>0, <1>1 DEF LiveInv, World, OwnArt, SucceededIsLive
<1>5. PICK y : /\ att' = [att EXCEPT ![a] = y]
               /\ \/ att[a].wf = Main /\ y = Done(att[a], "hard_gate_failed")
                  \/ att[a].wf # Main /\ y = Raise(att[a], "error")
  BY DEF Drift
<1>6. y.pc \in Resting /\ (Rests(y) \/ (y.pc = "done" /\ y.wf = Main))
  BY <1>1, <1>5 DEF Done, Raise, Rests, Resting, AttemptStates, PCs, Working
<1>7. Sound(y)'
  BY <1>2, <1>6 DEF Rests, Resting, Sound, Current, OwnUploads, OwnProduct, OwnListing, GaveUp,
     Releasing, Listed, Working, PCs
<1>8. \A b \in Attempts : Sound(att[b])'
  <2>0. att'[a] = y /\ \A b \in Attempts : b # a => att'[b] = att[b]
    BY <1>5, OwnState
  <2>1. att'[a] = y /\ \A b \in Attempts : b # a => att'[b].pc = "idle"
    BY <1>0, <2>0 DEF Alone
  <2>2. ASSUME NEW b \in Attempts, b # a PROVE Sound(att[b])'
    BY <2>1, <2>2 DEF Sound, Current, OwnUploads, OwnProduct, OwnListing, GaveUp, Releasing, Listed, Working
  <2> QED
    BY <1>7, <2>1, <2>2
<1> QED
  BY <1>3, <1>4, <1>8 DEF LiveInv

(* Success: what the attempt has verified is what the record says. *)
LEMMA FinishLive ==
    ASSUME TypeOK, TypeOK', HasRank, LiveInv, Assigned', Alone, Recorded, NEW a \in Attempts, Finish(a)
    PROVE  LiveInv'
<1>0. /\ att[a].pc = "finish" /\ att[a].pc \in Working /\ run \in RunRecords /\ pub \in PublishRecords
      /\ UNCHANGED <<products, listings, inflight, sent, wf>>
  BY DEF TypeOK, Finish, At, Working, PCs, remote
<1>1. /\ att[a] \in AttemptStates /\ att[a].rank \in Ranks
      /\ att[a].rank = run.selected /\ att[a].rank = run.package /\ Sound(att[a]) /\ World
  BY <1>0, WorkerKnows
<1>2. /\ run'.selected = run.selected /\ run'.package = run.package /\ run'.rejected = run.rejected
      /\ pub'.uploads = pub.uploads /\ pub'.product = pub.product /\ pub'.prog = pub.prog
  BY <1>0 DEF Finish, RunRecords, PublishRecords
<1>3. Chosen' /\ World'
  BY <1>0, <1>2 DEF LiveInv, Chosen, World, OwnArt
<1>4. SucceededIsLive'
  <2>1. /\ att[a].product = pub.product /\ att[a].product \in DOMAIN products
        /\ products[att[a].product].title = att[a].rank
        /\ products[att[a].product].art = att[a].rank
    BY <1>0, <1>1 DEF Sound, OwnProduct, Releasing, World
  <2>2. /\ att[a].prog.listing = pub.prog.listing /\ att[a].prog.listing \in DOMAIN listings
        /\ products[att[a].product].link = att[a].prog.listing
        /\ listings[att[a].prog.listing].state = "active"
        /\ listings[att[a].prog.listing].title = att[a].rank
    BY <1>0, <1>1 DEF Sound, OwnListing, Listed
  <2>3. run.selected \notin run.rejected
    BY DEF LiveInv, Chosen
  <2> QED
    BY <1>0, <1>1, <1>2, <2>1, <2>2, <2>3 DEF SucceededIsLive
<1>5. Rests(Done(att[a], "succeeded"))
  BY <1>1 DEF Done, Rests, Resting, AttemptStates, PCs, Working
<1>6. ASSUME NEW b \in Attempts PROVE Sound(att[b])'
  <2>1. Rests(att'[b])
    <3>1. att'[a] = Done(att[a], "succeeded") /\ (b # a => att'[b] = att[b])
      BY OwnState DEF Finish
    <3>2. b # a => att[b].pc = "idle"
      BY <1>0 DEF Alone
    <3> QED
      BY <1>5, <3>1, <3>2 DEF Rests, Resting, PCs, Working
  <2> QED
    BY <2>1 DEF Rests, Resting, Sound, Current, OwnUploads, OwnProduct, OwnListing, GaveUp,
       Releasing, Listed, Working, PCs
<1> QED
  BY <1>3, <1>4, <1>6 DEF LiveInv

(* The other workflows of the shops: a request arrives. *)
LEMMA ExecuteLive ==
    ASSUME TypeOK, HasRank, LiveInv, NEW r \in inflight, ExecuteCreate(r)
    PROVE  LiveInv'
<1>0. /\ UNCHANGED <<run, pub, sent, att, wf>> /\ inflight' = inflight \ {r}
      /\ products \in Seq(Products) /\ listings \in Seq(Listings) /\ World
  BY DEF ExecuteCreate, TypeOK, LiveInv
<1>1. PICK q : q = [title |-> r.title, art |-> r.art, link |-> None, req |-> r.n]
  OBVIOUS
<1>2. /\ products' = products \/ (r.kind = "product" /\ products' = Append(products, q))
      /\ q.title = r.title /\ q.art = r.art /\ q.req = r.n
  BY <1>1 DEF ExecuteCreate
<1>3. /\ DOMAIN products \subseteq DOMAIN products'
      /\ \A p \in DOMAIN products : products'[p] = products[p]
      /\ \A p \in DOMAIN products' : p \in DOMAIN products \/ (r.kind = "product" /\ products'[p] = q)
  BY <1>0, <1>2
<1>4. /\ DOMAIN listings \subseteq DOMAIN listings'
      /\ \A l \in DOMAIN listings : listings'[l] = listings[l]
  <2>1. PICK f : f = [title |-> r.title, state |-> "draft", req |-> r.n]
    OBVIOUS
  <2>2. listings' = listings \/ listings' = Append(listings, f)
    BY <2>1 DEF ExecuteCreate
  <2> QED
    BY <1>0, <2>2
<1>5. Assigned' /\ Chosen'
  BY <1>0 DEF LiveInv, Assigned, Chosen
<1>6. World'
  BY <1>0, <1>2, <1>3, <1>4 DEF World, OwnArt
<1>7. SucceededIsLive'
  BY <1>0, <1>3, <1>4 DEF LiveInv, SucceededIsLive
<1>8. ASSUME NEW b \in Attempts PROVE Sound(att[b])'
  <2>1. Sound(att[b])
    BY DEF LiveInv
  <2>2. Current(att[b])' /\ OwnUploads(att[b])' /\ GaveUp(att[b])'
    BY <1>0, <2>1 DEF Sound, Current, OwnUploads, OwnArt, GaveUp
  <2>3. OwnProduct(att[b])'
    BY <1>0, <1>2, <1>3, <2>1 DEF Sound, OwnProduct, Releasing
  <2>4. OwnListing(att[b])'
    <3>1. att[b].pc = "finish" => att[b].product \in DOMAIN products
      BY <2>1 DEF Sound, OwnProduct, Releasing
    <3> QED
      BY <1>0, <1>3, <1>4, <2>1, <3>1 DEF Sound, OwnListing, Listed
  <2> QED
    BY <2>2, <2>3, <2>4 DEF Sound
<1> QED
  BY <1>5, <1>6, <1>7, <1>8 DEF LiveInv

-----------------------------------------------------------------------------
(* Steps of an attempt that write its record or change the shops. *)

(* What the record holds about the product stays, and so do the shops. *)
LEMMA NotedWorld ==
    ASSUME LiveInv, UNCHANGED <<run, products, listings, inflight, sent, wf>>,
           pub'.uploads = pub.uploads, pub'.product = pub.product, pub'.prog.fp = pub.prog.fp,
           pub'.prog.listing = pub.prog.listing \/ pub'.prog.listing \in DOMAIN listings
    PROVE  World' /\ pub'.prog.fp[1] <= wf[Main].rank
BY DEF LiveInv, World, OwnArt, Chosen

(* The artwork of the attempt's opportunity is uploaded for its own surface. *)
LEMMA UploadLive ==
    ASSUME OwnSurfaces, TypeOK, HasRank, LiveInv, Assigned', Alone, Recorded, NEW a \in Attempts, Upload(a)
    PROVE  LiveInv'
<1> USE ConstantsAssumption
<1> DEFINE sig == SurfaceOf[att[a].rank]
           art == IF att[a].uploads[sig] # None THEN att[a].uploads[sig] ELSE att[a].rank
<1>0. att[a].pc = "upload" /\ att[a].pc \in Working
      /\ UNCHANGED <<run, pub, products, listings, inflight, sent, wf>>
  BY DEF Upload, At, Working, PCs, remote
<1>1. /\ att[a] \in AttemptStates /\ att[a].rank \in Ranks /\ sig \in Signatures
      /\ att[a].uploads \in [Signatures -> Ranks \cup {None}]
      /\ OwnArt(att[a].uploads) /\ Sound(att[a])
  BY <1>0, WorkerKnows DEF Uploads
<1>2. art = att[a].rank
  BY <1>1 DEF OwnArt
<1>3. PICK y : y = [att[a] EXCEPT !.pc = "reserve", !.uploads[sig] = art,
                        !.first = IF att[a].first = None THEN art ELSE att[a].first]
  OBVIOUS
<1>4. att' = [att EXCEPT ![a] = y]
  BY <1>3, Zenon DEF Upload
<1>5. /\ y.pc = "reserve" /\ y.rank = att[a].rank /\ y.product = att[a].product
      /\ y.uploads = [att[a].uploads EXCEPT ![sig] = art]
  BY <1>1, <1>3 DEF AttemptStates
<1> HIDE DEF sig, art
<1>6. OwnArt(y.uploads) /\ y.uploads[sig] = y.rank
  <2>1. ASSUME NEW r \in Ranks PROVE y.uploads[SurfaceOf[r]] \in {None, r}
    <3>1. CASE r = att[a].rank
      BY <1>1, <1>2, <1>5, <3>1 DEF sig
    <3>2. CASE r # att[a].rank
      <4>1. SurfaceOf[r] # sig /\ SurfaceOf[r] \in Signatures
        BY <1>1, <3>2 DEF OwnSurfaces, sig, ConstantsAssumption
      <4>2. y.uploads[SurfaceOf[r]] = att[a].uploads[SurfaceOf[r]]
        BY <1>1, <1>5, <4>1
      <4> QED
        BY <1>1, <4>2 DEF OwnArt
    <3> QED
      BY <3>1, <3>2
  <2> QED
    BY <1>1, <1>2, <1>5, <2>1 DEF OwnArt
<1>7. Sound(y)
  BY <1>0, <1>1, <1>5, <1>6 DEF Sound, Current, OwnUploads, OwnProduct, OwnListing, GaveUp, Releasing,
     Listed, Working, PCs, sig
<1> QED
  BY <1>0, <1>4, <1>7, MoveLive

(* The branch decided under the row lock fits what the record says. *)
LEMMA ReserveLive ==
    ASSUME TypeOK, HasRank, LiveInv, Assigned', Alone, Recorded, NEW a \in Attempts, Reserve(a)
    PROVE  LiveInv'
<1>0. /\ att[a].pc = "reserve" /\ att[a].pc \in Working /\ att[a].pc # "idle"
      /\ UNCHANGED <<run, products, listings, inflight, sent, wf>>
  BY DEF Reserve, At, Working, PCs, remote
<1>1. /\ att[a] \in AttemptStates /\ pub \in PublishRecords /\ pub.status # "succeeded"
      /\ att[a].rank = wf[Main].rank /\ Sound(att[a]) /\ World /\ OwnArt(att[a].uploads)
  BY <1>0, WorkerKnows
<1>2. att[a].product = pub.product
  BY <1>0, <1>1 DEF Sound, OwnProduct
<1>3. PICK y : y = [att[a] EXCEPT !.pc = Branch(a, pub.product), !.product = pub.product, !.prog = pub.prog]
  OBVIOUS
<1>4. att' = [att EXCEPT ![a] = y]
  <2>1. (IF pub.product # None THEN pub.product ELSE att[a].product) = pub.product
    BY <1>2
  <2> QED
    BY <1>1, <1>3, <2>1 DEF Reserve
<1>5. /\ y.pc = Branch(a, pub.product) /\ y.rank = att[a].rank /\ y.product = pub.product
      /\ y.uploads = att[a].uploads
  BY <1>1, <1>3 DEF AttemptStates
<1>6. /\ pub'.uploads = att[a].uploads /\ pub'.product = pub.product /\ pub'.prog = pub.prog
      /\ pub'.status = "creating"
  BY <1>1 DEF Reserve, PublishRecords
<1>7. y.pc = "save" => /\ pub.product \in DOMAIN products
                       /\ products[pub.product].title = att[a].rank
  <2>1. y.pc = "save" => pub.product # None /\ pub.prog.fp = Fp(a)
    BY <1>5 DEF Branch
  <2>2. Fp(a)[1] = att[a].rank
    BY DEF Fp
  <2> QED
    BY <1>1, <2>1, <2>2 DEF World
<1>8. y.pc = "update" => pub.product \in DOMAIN products
  BY <1>1, <1>5 DEF Branch, World
<1>9. y.pc \in {"update", "save", "reconcile", "intend"}
  BY <1>5 DEF Branch
<1>10. Sound(y)'
  <2>1. Current(y)' /\ OwnUploads(y)'
    BY <1>0, <1>1, <1>5, <1>9 DEF Sound, Current, OwnUploads, OwnArt, Working, PCs
  <2>2. OwnProduct(y)'
    BY <1>0, <1>5, <1>6, <1>7, <1>8, <1>9 DEF OwnProduct, Releasing
  <2> QED
    BY <1>9, <2>1, <2>2 DEF Sound, OwnListing, GaveUp, Listed
<1>11. World'
  BY <1>0, <1>1, <1>6 DEF World, OwnArt
<1> QED
  BY <1>0, <1>4, <1>6, <1>10, <1>11, WorkLive DEF LiveInv, Chosen

(* Checkpoints that say nothing about the product. *)
LEMMA IntentLive ==
    ASSUME TypeOK, HasRank, LiveInv, Assigned', Alone, Recorded, NEW a \in Attempts,
           RecordCreateIntent(a) \/ RecordDraftIntent(a) \/ ClearCreateIntent(a)
    PROVE  LiveInv'
<1>0. /\ att[a].pc \in Working /\ att[a].pc # "idle"
      /\ UNCHANGED <<run, products, listings, inflight, sent, wf>>
  BY DEF RecordCreateIntent, RecordDraftIntent, ClearCreateIntent, At, Working, PCs, remote
<1>1. /\ att[a] \in AttemptStates /\ pub \in PublishRecords /\ pub.prog \in Progress
      /\ pub.status # "succeeded" /\ Sound(att[a])
  BY <1>0, WorkerKnows
<1>2. /\ pub'.uploads = pub.uploads /\ pub'.product = pub.product /\ pub'.prog.fp = pub.prog.fp
      /\ pub'.prog.listing = pub.prog.listing /\ pub'.status = pub.status
  BY <1>1 DEF RecordCreateIntent, RecordDraftIntent, ClearCreateIntent, PublishRecords, Progress
<1>3. World' /\ pub'.prog.fp[1] <= wf[Main].rank
  BY <1>0, <1>2, NotedWorld
<1>4. CASE RecordCreateIntent(a)
  <2>1. PICK y : y = [att[a] EXCEPT !.pc = "send"]
    OBVIOUS
  <2>2. att' = [att EXCEPT ![a] = y]
    BY <1>4, <2>1 DEF RecordCreateIntent, Goto
  <2>3. y.pc = "send" /\ y.rank = att[a].rank /\ y.uploads = att[a].uploads
    BY <1>1, <2>1 DEF AttemptStates
  <2>4. att[a].pc = "intend"
    BY <1>4 DEF RecordCreateIntent, At
  <2>5. Sound(y)'
    BY <1>0, <1>1, <2>3, <2>4 DEF Sound, Current, OwnUploads, OwnArt, OwnProduct, OwnListing, GaveUp,
       Releasing, Listed, Working, PCs
  <2> QED
    BY <1>0, <1>1, <1>2, <1>3, <2>2, <2>5, WorkLive
<1>5. CASE RecordDraftIntent(a)
  <2>1. PICK y : y = [att[a] EXCEPT !.pc = "sendDraft", !.prog.draft = TRUE]
    OBVIOUS
  <2>2. att' = [att EXCEPT ![a] = y]
    BY <1>5, <2>1 DEF RecordDraftIntent
  <2>3. /\ y.pc = "sendDraft" /\ y.rank = att[a].rank /\ y.uploads = att[a].uploads
        /\ y.product = att[a].product
    BY <1>1, <2>1 DEF AttemptStates
  <2>4. att[a].pc = "markDraft"
    BY <1>5 DEF RecordDraftIntent, At
  <2>5. OwnProduct(att[a]) /\ Current(att[a]) /\ OwnUploads(att[a])
    BY <1>1 DEF Sound
  <2>6. OwnProduct(y)'
    BY <1>0, <1>2, <2>3, <2>4, <2>5 DEF OwnProduct, Releasing
  <2>7. Current(y)' /\ OwnUploads(y)'
    BY <1>0, <2>3, <2>4, <2>5 DEF Current, OwnUploads, OwnArt, Working, PCs
  <2>8. Sound(y)'
    BY <2>3, <2>6, <2>7 DEF Sound, OwnListing, GaveUp, Listed
  <2> QED
    BY <1>0, <1>1, <1>2, <1>3, <2>2, <2>8, WorkLive
<1>6. CASE ClearCreateIntent(a)
  <2>1. PICK y : y = Raise(att[a], "error")
    OBVIOUS
  <2>2. att' = [att EXCEPT ![a] = y]
    BY <1>6, <2>1 DEF ClearCreateIntent
  <2>3. Fallen(att[a], y)
    BY <1>1, <2>1 DEF Fallen, Rests, Resting, Raise, AttemptStates, PCs, Working
  <2> QED
    BY <1>0, <1>1, <1>2, <1>3, <2>2, <2>3, FallenLive
<1> QED
  BY <1>4, <1>5, <1>6

(* The product the record names takes the title and artwork of the package. *)
LEMMA UpdateLive ==
    ASSUME TypeOK, HasRank, LiveInv, Assigned', Alone, Recorded, NEW a \in Attempts, UpdateProduct(a)
    PROVE  LiveInv'
<1>0. /\ att[a].pc = "update" /\ att[a].pc \in Working /\ att[a].pc # "idle"
      /\ UNCHANGED <<run, pub, listings, inflight, sent, wf>> /\ products \in Seq(Products)
  BY DEF UpdateProduct, At, Working, PCs, TypeOK
<1>1. /\ att[a] \in AttemptStates /\ pub.status # "succeeded" /\ Sound(att[a]) /\ World
      /\ att[a].rank = wf[Main].rank
  BY <1>0, WorkerKnows
<1>2. /\ att[a].product = pub.product /\ att[a].product \in DOMAIN products
      /\ Current(att[a]) /\ OwnUploads(att[a])
  BY <1>0, <1>1 DEF Sound, OwnProduct
<1>3. Art(a) = att[a].rank
  BY <1>0, <1>2 DEF OwnUploads, Art, Working, PCs
<1>4. CASE UNCHANGED products /\ Fails(a)
  BY <1>0, <1>4, FailsLive
<1>5. CASE /\ products' = [products EXCEPT ![att[a].product] = [@ EXCEPT !.title = att[a].rank, !.art = Art(a)]]
           /\ Goto(a, "stamp") \/ Fails(a)
  <2>1. PICK q : q = [products[att[a].product] EXCEPT !.title = att[a].rank, !.art = Art(a)]
    OBVIOUS
  <2>2. products' = [products EXCEPT ![att[a].product] = q]
    BY <1>5, <2>1
  <2>3. q.title = att[a].rank /\ q.art = att[a].rank /\ q.req = products[att[a].product].req
    <3>1. products[att[a].product] \in Products
      BY <1>0, <1>2, ProductOf
    <3> QED
      BY <1>3, <2>1, <3>1 DEF Products
  <2>4. /\ DOMAIN products' = DOMAIN products
        /\ \A p \in DOMAIN products : products'[p] = IF p = att[a].product THEN q ELSE products[p]
    BY <1>0, <2>2
  <2>5. World'
    <3>1. \A p \in DOMAIN products' : products'[p].art = products'[p].title /\ products'[p].req <= sent
      BY <1>1, <1>2, <2>3, <2>4 DEF World
    <3>2. products'[pub.product].title = wf[Main].rank
      BY <1>1, <1>2, <2>3, <2>4
    <3> QED
      BY <1>0, <1>1, <2>4, <3>1, <3>2 DEF World, OwnArt
  <2>6. CASE Fails(a)
    <3>1. PICK y : att' = [att EXCEPT ![a] = y] /\ Fallen(att[a], y)
      BY <2>6, FailsFallen
    <3> QED
      BY <1>0, <1>1, <2>5, <3>1, FallenLive
  <2>7. CASE Goto(a, "stamp")
    <3>1. PICK y : y = [att[a] EXCEPT !.pc = "stamp"]
      OBVIOUS
    <3>2. att' = [att EXCEPT ![a] = y]
      BY <2>7, <3>1 DEF Goto
    <3>3. /\ y.pc = "stamp" /\ y.rank = att[a].rank /\ y.product = att[a].product
          /\ y.uploads = att[a].uploads
      BY <1>1, <3>1 DEF AttemptStates
    <3>4. OwnProduct(y)'
      BY <1>0, <1>2, <2>3, <2>4, <3>3 DEF OwnProduct, Releasing
    <3>5. Current(y)' /\ OwnUploads(y)'
      BY <1>0, <1>2, <3>3 DEF Current, OwnUploads, OwnArt, Working, PCs
    <3>6. Sound(y)'
      BY <3>3, <3>4, <3>5 DEF Sound, OwnListing, GaveUp, Listed
    <3>7. pub'.prog.fp[1] <= wf[Main].rank /\ pub'.status # "succeeded"
      BY <1>0, <1>1 DEF LiveInv, Chosen
    <3> QED
      BY <1>0, <2>5, <3>2, <3>6, <3>7, WorkLive
  <2> QED
    BY <1>5, <2>6, <2>7
<1> QED
  BY <1>4, <1>5 DEF UpdateProduct

(* The record takes the fingerprint of what the product shows now. *)
LEMMA StampLive ==
    ASSUME TypeOK, HasRank, LiveInv, Assigned', Alone, Recorded, NEW a \in Attempts,
           StampFingerprint(a) \/ SaveProduct(a)
    PROVE  LiveInv'
<1> USE ConstantsAssumption
<1>0. /\ att[a].pc \in {"stamp", "save"} /\ att[a].pc \in Working /\ att[a].pc # "idle"
      /\ UNCHANGED <<run, products, listings, inflight, sent, wf>>
  BY DEF StampFingerprint, SaveProduct, At, Working, PCs, remote
<1>1. /\ att[a] \in AttemptStates /\ pub \in PublishRecords /\ pub.prog \in Progress
      /\ pub.status # "succeeded" /\ Sound(att[a]) /\ World
      /\ att[a].rank = wf[Main].rank /\ att[a].rank \in Ranks
  BY <1>0, WorkerKnows
<1>2. /\ att[a].product \in DOMAIN products /\ products[att[a].product].title = att[a].rank
      /\ Current(att[a]) /\ OwnUploads(att[a])
  BY <1>0, <1>1 DEF Sound, OwnProduct
<1>3. Fp(a)[1] = att[a].rank
  BY DEF Fp
<1>4. /\ pub'.uploads = pub.uploads /\ pub'.prog.fp = Fp(a) /\ pub'.prog.listing = pub.prog.listing
      /\ pub'.product = att[a].product /\ pub'.status # "succeeded"
  <2>1. CASE StampFingerprint(a)
    <3>1. att[a].product = pub.product
      BY <1>1, <2>1 DEF StampFingerprint, At, Sound, OwnProduct
    <3> QED
      BY <1>1, <2>1, <3>1 DEF StampFingerprint, PublishRecords, Progress
  <2>2. CASE SaveProduct(a)
    BY <1>1, <2>2 DEF SaveProduct, PublishRecords, Progress
  <2> QED
    BY <2>1, <2>2
<1>5. World'
  BY <1>0, <1>1, <1>2, <1>4 DEF World, OwnArt
<1>6. pub'.prog.fp[1] <= wf[Main].rank
  BY <1>1, <1>3, <1>4 DEF Ranks
<1>7. PICK y : /\ att' = [att EXCEPT ![a] = y]
               /\ y.rank = att[a].rank /\ y.uploads = att[a].uploads /\ y.product = att[a].product
               /\ y.pc \in {"save", "ready"} /\ (y.pc = "ready" => y.prog = pub'.prog)
  <2>1. CASE StampFingerprint(a)
    <3>1. PICK y : y = [att[a] EXCEPT !.pc = "save"]
      OBVIOUS
    <3>2. att' = [att EXCEPT ![a] = y]
      BY <2>1, <3>1 DEF StampFingerprint, Goto
    <3>3. /\ y.pc = "save" /\ y.rank = att[a].rank /\ y.uploads = att[a].uploads
          /\ y.product = att[a].product
      BY <1>1, <3>1 DEF AttemptStates
    <3> QED
      BY <3>2, <3>3
  <2>2. CASE SaveProduct(a)
    <3>1. PICK y : y = [att[a] EXCEPT !.pc = "ready", !.prog = pub'.prog]
      OBVIOUS
    <3>2. att' = [att EXCEPT ![a] = y]
      BY <2>2, <3>1 DEF SaveProduct
    <3>3. /\ y.pc = "ready" /\ y.rank = att[a].rank /\ y.uploads = att[a].uploads
          /\ y.product = att[a].product /\ y.prog = pub'.prog
      BY <1>1, <3>1 DEF AttemptStates
    <3> QED
      BY <3>2, <3>3
  <2> QED
    BY <2>1, <2>2
<1>8. OwnProduct(y)'
  BY <1>0, <1>2, <1>4, <1>7 DEF OwnProduct, Releasing
<1>9. Current(y)' /\ OwnUploads(y)'
  BY <1>0, <1>2, <1>7 DEF Current, OwnUploads, OwnArt, Working, PCs
<1>10. Sound(y)'
  BY <1>7, <1>8, <1>9 DEF Sound, OwnListing, GaveUp, Listed
<1> QED
  BY <1>0, <1>4, <1>5, <1>6, <1>7, <1>10, WorkLive

(* A create is sent: the shop will hold what it asks for. *)
LEMMA SendLive ==
    ASSUME TypeOK, HasRank, LiveInv, Assigned', Alone, Recorded, NEW a \in Attempts,
           SendCreate(a) \/ SendDraft(a)
    PROVE  LiveInv'
<1>0. /\ att[a].pc \in {"send", "sendDraft"} /\ att[a].pc \in Working /\ att[a].pc # "idle"
      /\ UNCHANGED <<run, pub, products, listings, wf>> /\ sent' = sent + 1 /\ sent \in Nat
      /\ products \in Seq(Products) /\ inflight \in SUBSET Requests
  BY DEF SendCreate, SendDraft, Send, At, Working, PCs, TypeOK
<1>1. /\ att[a] \in AttemptStates /\ pub.status # "succeeded" /\ Sound(att[a]) /\ World
  BY <1>0, WorkerKnows
<1>2. Current(att[a]) /\ OwnUploads(att[a]) /\ OwnProduct(att[a])
  BY <1>1 DEF Sound
<1>3. Art(a) = att[a].rank
  BY <1>0, <1>2 DEF OwnUploads, Art, Working, PCs
<1>4. PICK q : /\ inflight' = inflight \cup {q} /\ q.n = sent + 1 /\ q.title = att[a].rank
               /\ (q.kind = "product" => q.art = q.title)
  <2>1. CASE SendCreate(a)
    <3>1. PICK q : q = [kind |-> "product", n |-> sent + 1, title |-> att[a].rank, art |-> Art(a)]
      OBVIOUS
    <3>2. inflight' = inflight \cup {q}
      BY <2>1, <3>1 DEF SendCreate, Send
    <3>3. q.kind = "product" /\ q.n = sent + 1 /\ q.title = att[a].rank /\ q.art = Art(a)
      BY <3>1
    <3> QED
      BY <1>3, <3>2, <3>3
  <2>2. CASE SendDraft(a)
    <3>1. PICK q : q = [kind |-> "listing", n |-> sent + 1, title |-> att[a].rank, art |-> None]
      OBVIOUS
    <3>2. inflight' = inflight \cup {q}
      BY <2>2, <3>1 DEF SendDraft, Send
    <3>3. q.kind = "listing" /\ q.n = sent + 1 /\ q.title = att[a].rank /\ q.art = None
      BY <3>1
    <3> QED
      BY <1>3, <3>2, <3>3
  <2> QED
    BY <2>1, <2>2
<1>5. /\ \A p \in DOMAIN products : products[p].req \in Nat /\ products[p].req <= sent
      /\ \A r \in inflight : r.n \in Nat /\ r.n <= sent
  <2>1. \A p \in DOMAIN products : products[p] \in Products
    BY <1>0, ProductOf
  <2> QED
    BY <1>0, <1>1, <2>1 DEF World, Products, Requests
<1>6. World'
  BY <1>0, <1>1, <1>4, <1>5 DEF World, OwnArt
<1>7. PICK y : /\ att' = [att EXCEPT ![a] = y] /\ y.pc \in {"creating", "drafting"}
               /\ (y.pc = "drafting" => att[a].pc = "sendDraft")
               /\ y.rank = att[a].rank /\ y.uploads = att[a].uploads /\ y.product = att[a].product
               /\ y.req = sent + 1
  <2>1. CASE SendCreate(a)
    <3>1. PICK y : y = [att[a] EXCEPT !.pc = "creating", !.req = sent + 1]
      OBVIOUS
    <3>2. att' = [att EXCEPT ![a] = y]
      BY <2>1, <3>1 DEF SendCreate, Send
    <3>4. /\ y.pc = "creating" /\ y.rank = att[a].rank /\ y.uploads = att[a].uploads
          /\ y.product = att[a].product /\ y.req = sent + 1
      BY <1>1, <3>1 DEF AttemptStates
    <3> QED
      BY <3>2, <3>4
  <2>2. CASE SendDraft(a)
    <3>1. PICK y : y = [att[a] EXCEPT !.pc = "drafting", !.req = sent + 1]
      OBVIOUS
    <3>2. att' = [att EXCEPT ![a] = y]
      BY <2>2, <3>1 DEF SendDraft, Send
    <3>3. att[a].pc = "sendDraft"
      BY <2>2 DEF SendDraft, At
    <3>4. /\ y.pc = "drafting" /\ y.rank = att[a].rank /\ y.uploads = att[a].uploads
          /\ y.product = att[a].product /\ y.req = sent + 1
      BY <1>1, <3>1 DEF AttemptStates
    <3> QED
      BY <3>2, <3>3, <3>4
  <2> QED
    BY <2>1, <2>2
<1>8. OwnProduct(y)'
  <2>1. \A r \in inflight' : r.n = y.req => r.title = y.rank
    BY <1>0, <1>4, <1>5, <1>7
  <2>2. \A p \in DOMAIN products' : products'[p].req = y.req => products'[p].title = y.rank
    BY <1>0, <1>5, <1>7
  <2> QED
    BY <1>0, <1>2, <1>7, <2>1, <2>2 DEF OwnProduct, Releasing
<1>9. Current(y)' /\ OwnUploads(y)'
  BY <1>0, <1>2, <1>7 DEF Current, OwnUploads, OwnArt, Working, PCs
<1>10. Sound(y)'
  BY <1>7, <1>8, <1>9 DEF Sound, OwnListing, GaveUp, Listed
<1>11. pub'.prog.fp[1] <= wf[Main].rank /\ pub'.status # "succeeded"
  BY <1>0, <1>1 DEF LiveInv, Chosen
<1> QED
  BY <1>0, <1>6, <1>7, <1>10, <1>11, WorkLive

(* The answer to a create, or what a search finds instead of it. *)
LEMMA CreatedLive ==
    ASSUME TypeOK, HasRank, LiveInv, Assigned', Alone, Recorded, NEW a \in Attempts,
           (\E p \in DOMAIN products : CreateAccepted(a, p)) \/ CreateRejected(a) \/ Reconcile(a)
    PROVE  LiveInv'
<1>0. /\ att[a].pc \in {"creating", "reconcile"} /\ att[a].pc \in Working /\ att[a].pc # "idle"
      /\ UNCHANGED <<run, products, listings, sent, wf>>
  BY DEF CreateAccepted, CreateRejected, Reconcile, At, Working, PCs, remote
<1>1. /\ att[a] \in AttemptStates /\ pub \in PublishRecords /\ pub.status # "succeeded"
      /\ Sound(att[a]) /\ World
  BY <1>0, WorkerKnows
<1>2. Current(att[a]) /\ OwnUploads(att[a]) /\ OwnProduct(att[a])
  BY <1>1 DEF Sound
<1>3. ASSUME NEW p \in DOMAIN products, products[p].title = att[a].rank, UNCHANGED <<pub, inflight>>,
             att' = [att EXCEPT ![a] = [@ EXCEPT !.pc = "save", !.product = p]]
      PROVE  LiveInv'
  <2>1. PICK y : y = [att[a] EXCEPT !.pc = "save", !.product = p]
    OBVIOUS
  <2>2. att' = [att EXCEPT ![a] = y]
    BY <1>3, <2>1
  <2>3. y.pc = "save" /\ y.rank = att[a].rank /\ y.uploads = att[a].uploads /\ y.product = p
    BY <1>1, <2>1 DEF AttemptStates
  <2>4. Sound(y)
    BY <1>0, <1>2, <1>3, <2>3 DEF Sound, Current, OwnUploads, OwnProduct, OwnListing, GaveUp,
       Releasing, Listed, Working, PCs
  <2> QED
    BY <1>0, <1>3, <2>2, <2>4, MoveLive
<1>4. ASSUME NEW p \in DOMAIN products, CreateAccepted(a, p) PROVE LiveInv'
  <2>1. products[p].title = att[a].rank
    BY <1>2, <1>4 DEF CreateAccepted, At, OwnProduct
  <2> QED
    BY <1>3, <1>4, <2>1 DEF CreateAccepted, remote
<1>5. CASE CreateRejected(a)
  <2>1. PICK y : y = [att[a] EXCEPT !.pc = "rejected"]
    OBVIOUS
  <2>2. att' = [att EXCEPT ![a] = y] /\ pub' = pub /\ inflight' \subseteq inflight
    BY <1>5, <2>1 DEF CreateRejected, Goto
  <2>3. y.pc = "rejected" /\ y.rank = att[a].rank /\ y.uploads = att[a].uploads
    BY <1>1, <2>1 DEF AttemptStates
  <2>4. att[a].pc = "creating"
    BY <1>5 DEF CreateRejected, At
  <2>5. Sound(y)'
    BY <1>0, <1>2, <2>2, <2>3, <2>4 DEF Sound, Current, OwnUploads, OwnArt, OwnProduct, OwnListing,
       GaveUp, Releasing, Listed, Working, PCs
  <2>6. World'
    BY <1>0, <1>1, <2>2 DEF World, OwnArt
  <2>7. pub'.prog.fp[1] <= wf[Main].rank /\ pub'.status # "succeeded"
    BY <1>1, <2>2 DEF LiveInv, Chosen
  <2> QED
    BY <1>0, <2>2, <2>5, <2>6, <2>7, WorkLive
<1>6. CASE Reconcile(a)
  <2>1. CASE Cardinality(Matching(a)) = 1
    <3>1. PICK p \in Matching(a) : att' = [att EXCEPT ![a] = [@ EXCEPT !.pc = "save", !.product = p]]
      BY <1>6, <2>1 DEF Reconcile
    <3>2. p \in DOMAIN products /\ products[p].title = att[a].rank
      BY <3>1 DEF Matching
    <3>3. UNCHANGED <<pub, inflight>>
      BY <1>6, <2>1 DEF Reconcile, remote
    <3> QED
      BY <1>3, <3>1, <3>2, <3>3
  <2>2. CASE Cardinality(Matching(a)) # 1
    <3>1. PICK y : y = Done(att[a], "reconciliation_required")
      OBVIOUS
    <3>2. att' = [att EXCEPT ![a] = y] /\ inflight' = inflight
      BY <1>6, <2>2, <3>1 DEF Reconcile, remote
    <3>3. Fallen(att[a], y)
      BY <1>1, <3>1 DEF Fallen, Rests, Resting, Done, AttemptStates, PCs, Working
    <3>4. /\ pub'.uploads = pub.uploads /\ pub'.product = pub.product /\ pub'.prog = pub.prog
          /\ pub'.status # "succeeded"
      BY <1>1, <1>6, <2>2 DEF Reconcile, PublishRecords
    <3>5. World'
      BY <1>0, <3>2, <3>4, NotedWorld
    <3> QED
      BY <1>0, <3>2, <3>3, <3>4, <3>5, FallenLive
  <2> QED
    BY <2>1, <2>2
<1> QED
  BY <1>4, <1>5, <1>6

-----------------------------------------------------------------------------
(* The listing. *)

(* What an attempt keeps of its product while it works on the listing. *)
LEMMA KeepsProduct ==
    ASSUME NEW x, NEW y, x.pc \in Releasing, y.pc \in Releasing, Sound(x), run' = run,
           pub'.product = pub.product, y.rank = x.rank, y.uploads = x.uploads, y.product = x.product,
           DOMAIN products' = DOMAIN products,
           \A p \in DOMAIN products : products'[p].title = products[p].title
    PROVE  Current(y)' /\ OwnUploads(y)' /\ OwnProduct(y)'
<1>1. Current(x) /\ OwnUploads(x) /\ OwnProduct(x)
  BY DEF Sound
<1>2. Current(y)' /\ OwnUploads(y)'
  BY <1>1 DEF Current, OwnUploads, OwnArt, Releasing, Working, PCs
<1>3. OwnProduct(y)'
  BY <1>1 DEF OwnProduct, Releasing
<1> QED
  BY <1>2, <1>3

(* The listing is the recorded one, the one the search found, or a new one. *)
LEMMA FoundLive ==
    ASSUME TypeOK, HasRank, LiveInv, Assigned', Alone, Recorded, NEW a \in Attempts,
           FindListing(a) \/ (\E l \in DOMAIN listings : DraftCreated(a, l))
    PROVE  LiveInv'
<1>0. /\ att[a].pc \in {"find", "drafting"} /\ att[a].pc \in Releasing /\ att[a].pc \in Working
      /\ UNCHANGED <<run, pub, products, listings, inflight, sent, wf>>
  BY DEF FindListing, DraftCreated, At, Releasing, Working, PCs, remote
<1>1. att[a] \in AttemptStates /\ att[a].prog \in Progress /\ Sound(att[a]) /\ World
  BY <1>0, WorkerKnows DEF AttemptStates
<1>2. OwnListing(att[a]) /\ Current(att[a]) /\ OwnUploads(att[a]) /\ OwnProduct(att[a])
  BY <1>1 DEF Sound
<1>3. ASSUME NEW y, att' = [att EXCEPT ![a] = y], y.pc \in {"fill", "record", "markDraft"},
             y.rank = att[a].rank, y.uploads = att[a].uploads, y.product = att[a].product,
             y.pc \in {"fill", "record"} => y.prog.listing \in DOMAIN listings,
             y.pc = "fill" => y.prog.listing = pub.prog.listing
      PROVE  LiveInv'
  <2>1. Current(y) /\ OwnUploads(y) /\ OwnProduct(y)
    BY <1>0, <1>2, <1>3 DEF Current, OwnUploads, OwnProduct, Releasing, Working, PCs
  <2>2. Sound(y)
    BY <1>3, <2>1 DEF Sound, OwnListing, GaveUp, Listed
  <2> QED
    BY <1>0, <1>3, <2>2, MoveLive
<1>4. ASSUME NEW l \in DOMAIN listings, DraftCreated(a, l) PROVE LiveInv'
  <2>1. PICK y : y = [att[a] EXCEPT !.pc = "record", !.prog.listing = l, !.prog.owned = TRUE]
    OBVIOUS
  <2>2. att' = [att EXCEPT ![a] = y]
    BY <1>4, <2>1 DEF DraftCreated
  <2>3. /\ y.pc = "record" /\ y.rank = att[a].rank /\ y.uploads = att[a].uploads
        /\ y.product = att[a].product /\ y.prog.listing = l
    BY <1>1, <2>1 DEF AttemptStates, Progress
  <2> QED
    BY <1>3, <2>2, <2>3
<1>5. CASE FindListing(a)
  <2>0. att[a].prog = pub.prog
    BY <1>2, <1>5 DEF FindListing, At, OwnListing
  <2>1. ASSUME NEW label, label \in {"fill", "markDraft"}, Goto(a, label),
               label = "fill" => att[a].prog.listing \in DOMAIN listings
        PROVE  LiveInv'
    <3>1. PICK y : y = [att[a] EXCEPT !.pc = label]
      OBVIOUS
    <3>2. att' = [att EXCEPT ![a] = y]
      BY <2>1, <3>1 DEF Goto
    <3>3. /\ y.pc = label /\ y.rank = att[a].rank /\ y.uploads = att[a].uploads
          /\ y.product = att[a].product /\ y.prog = att[a].prog
      BY <1>1, <3>1 DEF AttemptStates
    <3> QED
      BY <1>3, <2>0, <2>1, <3>2, <3>3
  <2>2. CASE att[a].prog.listing # None /\ Goto(a, "fill")
    BY <1>1, <2>0, <2>1, <2>2 DEF World
  <2>3. CASE Goto(a, "markDraft")
    BY <2>1, <2>3
  <2>4. CASE Goto(a, "failing")
    BY <1>0, <2>4, FailsLive DEF Fails, Goto
  <2>5. ASSUME NEW f \in Titled(att[a].rank),
               att' = [att EXCEPT ![a] = [@ EXCEPT !.pc = "record", !.prog.listing = f]]
        PROVE  LiveInv'
    <3>1. PICK y : y = [att[a] EXCEPT !.pc = "record", !.prog.listing = f]
      OBVIOUS
    <3>2. att' = [att EXCEPT ![a] = y]
      BY <2>5, <3>1
    <3>3. /\ y.pc = "record" /\ y.rank = att[a].rank /\ y.uploads = att[a].uploads
          /\ y.product = att[a].product /\ y.prog.listing = f
      BY <1>1, <3>1 DEF AttemptStates, Progress
    <3>4. f \in DOMAIN listings
      BY DEF Titled
    <3> QED
      BY <1>3, <3>2, <3>3, <3>4
  <2>6. \/ att[a].prog.listing # None /\ Goto(a, "fill")
        \/ \E f \in Titled(att[a].rank) :
              att' = [att EXCEPT ![a] = [@ EXCEPT !.pc = "record", !.prog.listing = f]]
        \/ Goto(a, "markDraft") \/ Goto(a, "failing")
    BY <1>5 DEF FindListing
  <2> QED
    BY <2>2, <2>3, <2>4, <2>5, <2>6
<1> QED
  BY <1>4, <1>5

(* The listing is recorded before it is filled. *)
LEMMA RecordLive ==
    ASSUME TypeOK, HasRank, LiveInv, Assigned', Alone, Recorded, NEW a \in Attempts, RecordListing(a)
    PROVE  LiveInv'
<1>0. /\ att[a].pc = "record" /\ att[a].pc \in Releasing /\ att[a].pc \in Working /\ att[a].pc # "idle"
      /\ UNCHANGED <<run, products, listings, inflight, sent, wf>>
  BY DEF RecordListing, At, Releasing, Working, PCs, remote
<1>1. /\ att[a] \in AttemptStates /\ pub \in PublishRecords /\ pub.prog \in Progress
      /\ Sound(att[a]) /\ pub.status # "succeeded"
  BY <1>0, WorkerKnows
<1>2. att[a].prog.listing \in DOMAIN listings
  BY <1>0, <1>1 DEF Sound, OwnListing
<1>3. /\ pub'.uploads = pub.uploads /\ pub'.product = pub.product /\ pub'.prog.fp = pub.prog.fp
      /\ pub'.prog.listing = att[a].prog.listing /\ pub'.status = pub.status
  BY <1>1 DEF RecordListing, PublishRecords, Progress
<1>4. World' /\ pub'.prog.fp[1] <= wf[Main].rank
  BY <1>0, <1>2, <1>3, NotedWorld
<1>5. PICK y : y = [att[a] EXCEPT !.pc = "fill"]
  OBVIOUS
<1>6. att' = [att EXCEPT ![a] = y]
  BY <1>5 DEF RecordListing, Goto
<1>7. /\ y.pc = "fill" /\ y.rank = att[a].rank /\ y.uploads = att[a].uploads
      /\ y.product = att[a].product /\ y.prog = att[a].prog
  BY <1>1, <1>5 DEF AttemptStates
<1>8. Current(y)' /\ OwnUploads(y)' /\ OwnProduct(y)'
  BY <1>0, <1>1, <1>3, <1>7, KeepsProduct DEF Releasing
<1>9. OwnListing(y)'
  BY <1>0, <1>2, <1>3, <1>7 DEF OwnListing, Listed
<1>10. Sound(y)'
  BY <1>7, <1>8, <1>9 DEF Sound, GaveUp
<1> QED
  BY <1>0, <1>1, <1>3, <1>4, <1>6, <1>10, WorkLive

(* The listing is activated or deactivated, the product is linked. *)
LEMMA SellLive ==
    ASSUME TypeOK, HasRank, LiveInv, Assigned', Alone, Recorded, NEW a \in Attempts,
           Activate(a) \/ Link(a) \/ Deactivate(a)
    PROVE  LiveInv'
<1>0. /\ att[a].pc \in {"activate", "link", "unlink"} /\ att[a].pc \in Releasing
      /\ att[a].pc \in Working /\ att[a].pc # "idle"
      /\ UNCHANGED <<run, pub, inflight, sent, wf>>
      /\ products \in Seq(Products) /\ listings \in Seq(Listings)
  BY DEF Activate, Link, Deactivate, At, Releasing, Working, PCs, TypeOK
<1>1. att[a] \in AttemptStates /\ Sound(att[a]) /\ World /\ pub.status # "succeeded"
  BY <1>0, WorkerKnows
<1>2. /\ att[a].product \in DOMAIN products /\ att[a].prog.listing \in DOMAIN listings
      /\ att[a].prog.listing = pub.prog.listing
  BY <1>0, <1>1 DEF Sound, OwnProduct, OwnListing, Listed
<1>3. DOMAIN listings' = DOMAIN listings
  <2>1. ASSUME NEW s, SetState(att[a].prog.listing, s) PROVE DOMAIN listings' = DOMAIN listings
    BY <1>0, <2>1 DEF SetState
  <2> QED
    BY <2>1 DEF Activate, Link, Deactivate
<1>4. /\ DOMAIN products' = DOMAIN products
      /\ \A p \in DOMAIN products : /\ products'[p].title = products[p].title
                                   /\ products'[p].art = products[p].art
                                   /\ products'[p].req = products[p].req
  <2>1. CASE products' = products
    BY <2>1
  <2>2. CASE products' # products
    <3>1. PICK q : q = [products[att[a].product] EXCEPT !.link = att[a].prog.listing]
      OBVIOUS
    <3>2. products' = [products EXCEPT ![att[a].product] = q]
      BY <2>2, <3>1 DEF Link, Activate, Deactivate
    <3>3. products[att[a].product] \in Products
      BY <1>0, <1>2, ProductOf
    <3>4. /\ q.title = products[att[a].product].title /\ q.art = products[att[a].product].art
          /\ q.req = products[att[a].product].req
      BY <3>1, <3>3 DEF Products
    <3> QED
      BY <1>0, <3>2, <3>4
  <2> QED
    BY <2>1, <2>2
<1>5. World' /\ pub'.prog.fp[1] <= wf[Main].rank /\ pub'.status # "succeeded"
  BY <1>0, <1>1, <1>3, <1>4 DEF World, OwnArt, LiveInv, Chosen
<1>6. CASE Fails(a)
  <2>1. PICK y : att' = [att EXCEPT ![a] = y] /\ Fallen(att[a], y)
    BY <1>6, FailsFallen
  <2> QED
    BY <1>0, <1>5, <2>1, FallenLive
<1>7. ASSUME NEW label, Goto(a, label), label \in {"link", "unlink", "verify"} PROVE LiveInv'
  <2>1. PICK y : y = [att[a] EXCEPT !.pc = label]
    OBVIOUS
  <2>2. att' = [att EXCEPT ![a] = y]
    BY <1>7, <2>1 DEF Goto
  <2>3. /\ y.pc = label /\ y.rank = att[a].rank /\ y.uploads = att[a].uploads
        /\ y.product = att[a].product /\ y.prog = att[a].prog
    BY <1>1, <2>1 DEF AttemptStates
  <2>4. Current(y)' /\ OwnUploads(y)' /\ OwnProduct(y)'
    BY <1>0, <1>1, <1>4, <1>7, <2>3, KeepsProduct DEF Releasing
  <2>5. OwnListing(y)'
    BY <1>0, <1>2, <1>3, <1>7, <2>3 DEF OwnListing, Listed
  <2>6. Sound(y)'
    BY <1>7, <2>3, <2>4, <2>5 DEF Sound, GaveUp
  <2> QED
    BY <1>0, <1>5, <2>2, <2>6, WorkLive
<1>8. Fails(a) \/ Goto(a, "link") \/ Goto(a, "unlink") \/ Goto(a, "verify")
  <2>1. Goto(a, "failing") => Fails(a)
    BY DEF Goto, Fails
  <2> QED
    BY <2>1 DEF Activate, Link, Deactivate
<1> QED
  BY <1>6, <1>7, <1>8

-----------------------------------------------------------------------------
(* Every step keeps the invariant. *)

(* Every step of an attempt. *)
LEMMA AttemptLive ==
    ASSUME OwnSurfaces, TypeOK, TypeOK', HasRank, LiveInv, Assigned', Alone, Recorded, NEW a \in Attempts,
           Publishing(a) \/ Crash(a)
    PROVE  LiveInv'
<1>1. CASE \/ Unchanged(a) \/ RefreshFails(a) \/ UploadFails(a) \/ CreateAmbiguous(a) \/ ReconcileFails(a)
           \/ DraftReady(a) \/ NotReady(a) \/ DraftFails(a) \/ Filled(a) \/ FillFails(a) \/ Verify(a)
  BY <1>1, PlainMoves
<1>2. CASE RetryBegin(a) \/ RecordFailure(a) \/ HandleError(a) \/ Crash(a)
  BY <1>2, RestingLive
<1>3. CASE Begin(a) \/ Report(a) \/ Drift(a) \/ Finish(a)
  BY <1>3, BeginLive, ReportLive, DriftLive, FinishLive
<1>4. CASE Upload(a) \/ Reserve(a) \/ UpdateProduct(a)
  BY <1>4, UploadLive, ReserveLive, UpdateLive
<1>5. CASE RecordCreateIntent(a) \/ RecordDraftIntent(a) \/ ClearCreateIntent(a)
  BY <1>5, IntentLive
<1>6. CASE \/ StampFingerprint(a) \/ SaveProduct(a) \/ SendCreate(a) \/ SendDraft(a)
  BY <1>6, StampLive, SendLive
<1>7. CASE (\E p \in DOMAIN products : CreateAccepted(a, p)) \/ CreateRejected(a) \/ Reconcile(a)
  BY <1>7, CreatedLive
<1>8. CASE FindListing(a) \/ (\E l \in DOMAIN listings : DraftCreated(a, l))
  BY <1>8, FoundLive
<1>9. CASE RecordListing(a) \/ Activate(a) \/ Link(a) \/ Deactivate(a)
  BY <1>9, RecordLive, SellLive
<1> QED
  BY <1>1, <1>2, <1>3, <1>4, <1>5, <1>6, <1>7, <1>8, <1>9 DEF Publishing

(* Every step of the specification. *)
LEMMA LiveStep ==
    ASSUME OwnSurfaces, TypeInv, TypeOK', Alone, Recorded, LiveInv, [Next]_vars
    PROVE  LiveInv'
<1>0. TypeOK /\ HasRank /\ Assigned
  BY DEF TypeInv, LiveInv
<1>1. CASE Preparing
  BY <1>0, <1>1, PreparingLive
<1>2. CASE \/ \E w \in Workflows : Scheduling(w)
           \/ \E w \in Retries : RequestRetry(w)
  <2>1. \A w \in Retries : w \in Workflows
    BY DEF Workflows
  <2> QED
    BY <1>0, <1>2, <2>1, SchedulingLive
<1>3. CASE \E a \in Attempts : Publishing(a) \/ Crash(a)
  BY <1>0, <1>3, AssignedAttempt, AttemptLive
<1>4. CASE \E r \in inflight : ExecuteCreate(r)
  BY <1>0, <1>4, ExecuteLive
<1>5. CASE UNCHANGED vars
  BY <1>5 DEF vars, LiveInv, Assigned, Chosen, World, OwnArt, SucceededIsLive, Sound, Current, OwnUploads,
     OwnProduct, OwnListing, GaveUp
<1> QED
  BY <1>1, <1>2, <1>3, <1>4, <1>5 DEF Next, Ended

(* The invariant holds at first. *)
LEMMA LiveInit == Init => LiveInv
<1> USE ConstantsAssumption
<1> SUFFICES ASSUME Init PROVE LiveInv
  OBVIOUS
<1>1. Main \in Workflows /\ wf[Main].rank = 1 /\ wf[Main].phase = "prepare" /\ 1 \in Ranks
  BY DEF Init, Workflows, Ranks
<1>2. Assigned
  BY DEF Init, Assigned, IdleAttempt
<1>3. Chosen
  BY <1>1 DEF Init, Chosen, NoProgress, NoFingerprint
<1>4. World /\ SucceededIsLive
  BY <1>1 DEF Init, World, OwnArt, NoUploads, NoProgress, SucceededIsLive
<1>5. \A a \in Attempts : Sound(att[a])
  BY RestingSound DEF Init, IdleAttempt, Resting, PCs, Working
<1> QED
  BY <1>2, <1>3, <1>4, <1>5 DEF LiveInv

-----------------------------------------------------------------------------
(* The run has one workflow, or its worker executes one activity at a time. *)
Serial == OneWorkflow \/ OneAttempt
(* What holds then in every state. *)
SerialInv == TypeInv /\ (OneWorkflow => Awaited) /\ Recorded /\ PublishedIsRecorded

(* It holds at first. *)
LEMMA SerialInit == Init => SerialInv
BY TypeInit, AwaitedInit, RecordedInit DEF SerialInv

(* Every step keeps it, and takes back no success. *)
LEMMA SerialStep ==
    ASSUME Serial, SerialInv, [Next]_vars
    PROVE  SerialInv' /\ Final /\ TypeOK' /\ Alone
<1>1. TypeInv' /\ TypeOK /\ TypeOK'
  BY TypeStep DEF TypeInv, SerialInv
<1>2. OneWorkflow => Awaited'
  BY <1>1, AwaitedStep DEF SerialInv
<1>3. Alone
  BY AwaitedAlone DEF Serial, SerialInv, OneAttempt, Alone
<1>4. Recorded' /\ PublishedIsRecorded' /\ Final
  BY <1>1, <1>3, RecordedStep DEF SerialInv
<1> QED
  BY <1>1, <1>2, <1>3, <1>4 DEF SerialInv

(* A product or listing that exists, or whose create may still be executed, *)
(* is known to the checkpoint the next attempt starts from.                 *)
THEOREM NothingIsForgotten ==
    ASSUME Serial
    PROVE  Spec => []NothingForgotten
<1>1. CASE OneWorkflow
  <2>1. Spec => [](OneProduct /\ OneListing /\ NothingForgotten)
    BY <1>1, CreateOnceInWorkflow
  <2> QED
    BY <2>1, PTL
<1>2. CASE OneAttempt
  <2>1. Spec => [](OneProduct /\ OneListing /\ NothingForgotten)
    BY <1>2, CreateOnceSerially
  <2> QED
    BY <2>1, PTL
<1> QED
  BY <1>1, <1>2 DEF Serial

(* Whatever crashes, times out or is reported late: a run, or its main      *)
(* workflow, is published only when the publication record says that the    *)
(* publication succeeded (finish_retry, publish_catalog_run).               *)
THEOREM PublishedOnlyIfRecorded ==
    ASSUME Serial
    PROVE  Spec => []PublishedIsRecorded
<1>1. SerialInv /\ [Next]_vars => SerialInv'
  BY SerialStep
<1>2. SerialInv => PublishedIsRecorded
  BY DEF SerialInv
<1> QED
  BY <1>1, <1>2, SerialInit, PTL DEF Spec

(* No failure that is recorded late, no retry and no replay takes back a    *)
(* success (record_publish_failure, publish_catalog_run).                   *)
THEOREM SuccessIsFinal ==
    ASSUME Serial
    PROVE  Spec => SucceededFinal
<1>1. SerialInv /\ [Next]_vars => SerialInv'
  BY SerialStep
<1>2. SerialInv /\ [Next]_vars => [pub.status = "succeeded" => pub'.status = "succeeded"]_vars
  BY SerialStep DEF Final
<1> QED
  BY <1>1, <1>2, SerialInit, PTL DEF Spec, SucceededFinal

(* When the opportunities of the run print on surfaces of their own, a      *)
(* success names the product and the active listing of the opportunity that *)
(* is selected, approved and not rejected, with its title and its artwork   *)
(* on them, whatever the attempts before it left behind.                    *)
THEOREM SuccessIsLive ==
    ASSUME Serial, OwnSurfaces
    PROVE  Spec => []SucceededIsLive
<1> DEFINE I == SerialInv /\ LiveInv
<1>1. Init => I
  BY SerialInit, LiveInit
<1>2. I /\ [Next]_vars => I'
  <2> SUFFICES ASSUME I, [Next]_vars PROVE I'
    OBVIOUS
  <2>1. SerialInv' /\ TypeOK' /\ Alone
    BY SerialStep
  <2>2. LiveInv'
    BY <2>1, LiveStep DEF SerialInv
  <2> QED
    BY <2>1, <2>2
<1>3. I => SucceededIsLive
  BY DEF LiveInv
<1> QED
  BY <1>1, <1>2, <1>3, PTL DEF Spec
=============================================================================
