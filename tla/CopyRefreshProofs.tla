------------------------- MODULE CopyRefreshProofs -------------------------
(* Theorems about CopyRefresh, for every number of runs, texts, processes, *)
(* batches, versions, faults and edits.  Where the operator prepares and   *)
(* retries only when no process is at work (Patient), unfinished batches   *)
(* share no run and each has one process at most, so what a process reads  *)
(* of its items stays true until it is done with them.                     *)
EXTENDS CopyRefresh, LeastElements, TLAPS

USE ConstantsAssumption DEF ConstantsAssumption

-----------------------------------------------------------------------------
(* The inductive invariant *)

PrepSteps == {"idle", "choose", "load", "loop", "draft", "save", "again"}
ItemSteps == {"look", "printify", "confirm_printify", "etsy", "confirm_etsy", "verify", "commit"}
ApplySteps == ItemSteps \cup {"idle", "begin", "loop", "again"}
Drafting == {"draft", "save"}
Preparing == {"loop"} \cup Drafting
Writing == ItemSteps \ {"look"}
Stepping == {"loop"} \cup ItemSteps

Processes(steps) ==
    [at : steps, batch : 0..MaxBatches, todo : SUBSET Runs, run : Runs \cup {"none"},
     source : ItemRecords,
     seen : [copy : [Sides -> Copy \cup {"none"}], shape : {"none", "as_published", "changed", "gone"}],
     tries : 0..MaxTries]

(* What each process holds at each of its steps. *)
PrepHolds(p) ==
    /\ p.at \in {"load"} \cup Preparing => p.batch \in Batches
    /\ p.at \in Drafting => /\ p.run \in Runs
                            /\ p.seen.copy \in [Sides -> Copy]
                            /\ p.seen.shape \in {"as_published", "changed"}
    /\ p.at = "save" => p.source.draft \in Texts
    /\ p.at = "again" => p.tries < MaxTries
ApplyHolds(p) ==
    /\ p.at # "idle" => p.batch \in Batches
    /\ p.at \in Stepping => batch[p.batch].approved /\ p.todo \subseteq batch[p.batch].targets
    /\ p.at \in ItemSteps => p.run \in p.todo /\ p.source.after \in Texts
    /\ p.at = "again" => p.tries < MaxTries

(* The records of both shops, of the batches and of the items. *)
Stored ==
    /\ batch \in [Batches -> BatchRecords]
    /\ item \in [Batches -> [Runs -> ItemRecords]]
    /\ live \in [Runs -> Listings]
    /\ approved \in [Batches -> [Runs -> Texts \cup {"none"}]]
    /\ kept \subseteq Runs \X Sides
    /\ faults \in 0..MaxFaults /\ edits \in 0..MaxEdits
    /\ page \in [batch : 0..MaxBatches, version : 1..MaxVersion,
                 digest : [Runs -> Texts \cup {"none"}], texts : [Runs -> Texts \cup {"none"}]]
    /\ \A b \in Batches : batch[b].approved =>
            batch[b].status # "absent" /\ \A r \in batch[b].targets : item[b][r].after \in Texts

TypeInv ==
    /\ Stored
    /\ prep \in [Preparers -> Processes(PrepSteps)]
    /\ apply \in [Appliers -> Processes(ApplySteps)]
    /\ \A p \in Preparers : PrepHolds(prep[p])
    /\ \A a \in Appliers : ApplyHolds(apply[a])

(* The batches are created in order, and one that shares a run with an       *)
(* earlier one only when that one is applied.                                *)
Succession ==
    /\ \A b \in Batches : batch[b].status = "absent" =>
            /\ batch[b].targets = {} /\ item[b] = [r \in Runs |-> NewItem]
            /\ \A c \in Batches : b < c => batch[c].status = "absent"
    /\ \A b, c \in Batches : b < c /\ batch[b].targets \cap batch[c].targets # {} =>
            batch[b].status = "applied"

(* What the status of a batch says of its approval, its digest and its items. *)
Reviewed ==
    /\ \A b \in Batches : batch[b].approved <=> batch[b].status \notin {"absent", "preparing", "pending_review"}
    /\ \A b \in Batches : IF batch[b].approved
                          THEN \A r \in batch[b].targets : item[b][r].after = approved[b][r]
                          ELSE approved[b] = NoTexts
    /\ \A b \in Batches : batch[b].status = "pending_review" =>
            batch[b].digest = Digest(item[b], batch[b].targets)
    /\ \A b \in Batches, r \in Runs : item[b][r].status = "applied" =>
            batch[b].approved /\ r \in batch[b].targets
    /\ page.batch # 0 => page.texts = page.digest

(* One preparation works at a time, on a batch that nobody has reviewed.      *)
OnePreparation ==
    /\ \A p, q \in Preparers : prep[p].at # "idle" /\ prep[q].at # "idle" => p = q
    /\ \A p \in Preparers : prep[p].at \in Preparing =>
            batch[prep[p].batch].status = "preparing" /\ prep[p].todo \subseteq batch[prep[p].batch].targets
    /\ \A p \in Preparers : prep[p].at \in Drafting => prep[p].run \in prep[p].todo
    /\ \A p \in Preparers : prep[p].at = "choose" => prep[p].todo \in {Runs} \cup {{r} : r \in Runs}

(* Each application works on a batch of its own, and what it has read of the  *)
(* item it works on is still true.                                            *)
Agrees(p) ==
    /\ p.at # "idle" => batch[p.batch].status = "applying"
    /\ p.at \in Stepping => \A r \in p.todo : item[p.batch][r].status # "applied"
    /\ p.at \in ItemSteps => /\ p.source.before = item[p.batch][p.run].before
                             /\ p.source.after = item[p.batch][p.run].after
    /\ p.at \in Writing => \A s \in Sides : <<p.run, s>> \notin kept
    /\ p.at = "commit" => \A s \in Sides : live[p.run].copy[s] \in {p.source.after, "foreign"}
OwnApplication ==
    /\ \A a, b \in Appliers : a # b /\ apply[a].at # "idle" /\ apply[b].at # "idle" =>
            apply[a].batch # apply[b].batch
    /\ \A a \in Appliers : Agrees(apply[a])

(* What holds of the listings while a batch is not finished: an applied text  *)
(* stays until others change it, and a text of others that its preparation    *)
(* has read is not one that an application could miss.                        *)
Shops ==
    \A b \in Batches : batch[b].status \in Unfinished => \A r \in batch[b].targets, s \in Sides :
        /\ item[b][r].status = "applied" => live[r].copy[s] \in {item[b][r].after, "foreign"}
        /\ item[b][r].before[s] = "foreign" => <<r, s>> \notin kept

RefreshInv ==
    /\ Succession /\ Reviewed /\ OnePreparation /\ OwnApplication /\ Shops
    /\ AppliedAsApproved /\ EffectiveIsLive /\ OthersAreRespected

-----------------------------------------------------------------------------
(* Facts about the helpers *)

(* An idle process is one, whatever the steps of the process are. *)
LEMMA IdleType ==
    ASSUME NEW steps, "idle" \in steps
    PROVE  /\ Idle \in Processes(steps) /\ Idle.at = "idle"
           /\ \A q \in steps, b \in 0..MaxBatches, t \in SUBSET Runs, n \in 0..MaxTries :
                /\ [Idle EXCEPT !.at = q, !.batch = b, !.todo = t, !.tries = n] \in Processes(steps)
                /\ [Idle EXCEPT !.at = q, !.batch = b, !.todo = t, !.tries = n].at = q
  <1>1. NewItem \in ItemRecords
    BY DEF NewItem, ItemRecords
  <1>2. [copy |-> [s \in Sides |-> "none"], shape |-> "none"]
            \in [copy : [Sides -> Copy \cup {"none"}], shape : {"none", "as_published", "changed", "gone"}]
    OBVIOUS
  <1>3. Idle \in Processes(steps) /\ Idle.at = "idle"
    BY <1>1, <1>2 DEF Idle, Processes
  <1>4. ASSUME NEW q \in steps, NEW b \in 0..MaxBatches, NEW t \in SUBSET Runs, NEW n \in 0..MaxTries
        PROVE  /\ [Idle EXCEPT !.at = q, !.batch = b, !.todo = t, !.tries = n] \in Processes(steps)
               /\ [Idle EXCEPT !.at = q, !.batch = b, !.todo = t, !.tries = n].at = q
    BY <1>3 DEF Processes
  <1>. QED BY <1>3, <1>4

(* The types that TypeOK names follow. *)
LEMMA TypeInvType == TypeInv => TypeOK
  BY DEF TypeInv, TypeOK, Stored, Processes, PrepSteps, ApplySteps, ItemSteps

(* A digest is a text, or none, for each run. *)
LEMMA DigestType ==
    ASSUME NEW items \in [Runs -> ItemRecords], NEW targets
    PROVE  Digest(items, targets) \in [Runs -> Texts \cup {"none"}]
  BY DEF Digest, ItemRecords

(* What an approved batch never loses. *)
Stays == \A b \in Batches : batch[b].approved =>
            batch'[b].approved /\ batch'[b].targets = batch[b].targets

(* A step of one preparation, or of one application, that leaves typed       *)
(* records and a typed process.                                              *)
LEMMA PrepMoves ==
    ASSUME TypeInv, NEW p \in Preparers, NEW q \in Processes(PrepSteps), PrepHolds(q),
           prep' = [prep EXCEPT ![p] = q], apply' = apply, Stored', Stays
    PROVE  TypeInv'
  <1>1. prep' \in [Preparers -> Processes(PrepSteps)]
    BY DEF TypeInv
  <1>2. \A r \in Preparers : PrepHolds(prep[r])'
    BY DEF TypeInv, PrepHolds
  <1>3. \A a \in Appliers : ApplyHolds(apply[a])'
    <2>. TAKE a \in Appliers
    <2>1. ApplyHolds(apply[a]) /\ apply'[a] = apply[a]
      BY DEF TypeInv
    <2>2. apply[a].at # "idle" => apply[a].batch \in Batches
      BY <2>1 DEF ApplyHolds
    <2>3. apply[a].at \in Stepping => apply[a].at # "idle"
      BY DEF Stepping, ItemSteps
    <2>. QED BY <2>1, <2>2, <2>3 DEF ApplyHolds, Stays
  <1>. QED BY <1>1, <1>2, <1>3 DEF TypeInv

(* The same when an application moves: its own new state is all there is to type. *)
LEMMA ApplyMoves ==
    ASSUME TypeInv, NEW a \in Appliers, apply' \in [Appliers -> Processes(ApplySteps)],
           \A b \in Appliers : b # a => apply'[b] = apply[b],
           ApplyHolds(apply[a])', prep' = prep, Stored', Stays
    PROVE  TypeInv'
  <1>1. \A r \in Preparers : PrepHolds(prep[r])'
    BY DEF TypeInv, PrepHolds
  <1>2. \A b \in Appliers : ApplyHolds(apply[b])'
    <2>. TAKE b \in Appliers
    <2>0. CASE b = a
      BY <2>0
    <2>1. CASE b # a
      <3>1. ApplyHolds(apply[b]) /\ apply'[b] = apply[b]
        BY <2>1 DEF TypeInv
      <3>2. apply[b].at # "idle" => apply[b].batch \in Batches
        BY <3>1 DEF ApplyHolds
      <3>3. apply[b].at \in Stepping => apply[b].at # "idle"
        BY DEF Stepping, ItemSteps
      <3>. QED BY <3>1, <3>2, <3>3 DEF ApplyHolds, Stays
    <2>. QED BY <2>0, <2>1
  <1>. QED BY <1>1, <1>2 DEF TypeInv

(* Records that a step does not touch keep their types. *)
LEMMA StoredSame ==
    ASSUME TypeInv,
           UNCHANGED <<batch, item, live, page, approved, kept>>, faults' \in 0..MaxFaults, edits' = edits
    PROVE  Stored' /\ Stays
  BY DEF TypeInv, Stored, Stays

(* A step that writes an item of one batch keeps the types, and a proposed   *)
(* text stays one.                                                           *)
LEMMA StoredItem ==
    ASSUME TypeInv, NEW b \in Batches, NEW r \in Runs, NEW i \in ItemRecords,
           i.after \in Texts \/ i.after = item[b][r].after,
           item' = [item EXCEPT ![b][r] = i], kept' \subseteq kept, faults' \in 0..MaxFaults,
           UNCHANGED <<batch, live, page, approved, edits>>
    PROVE  Stored' /\ Stays
  <1>1. item' \in [Batches -> [Runs -> ItemRecords]]
    BY DEF TypeInv, Stored
  <1>2. \A c \in Batches, s \in Runs : item[c][s].after \in Texts => item'[c][s].after \in Texts
    <2>. TAKE c \in Batches, s \in Runs
    <2>1. item[c] \in [Runs -> ItemRecords] /\ item \in [Batches -> [Runs -> ItemRecords]]
      BY DEF TypeInv, Stored
    <2>2. item'[c][s] = IF c = b /\ s = r THEN i ELSE item[c][s]
      BY <2>1
    <2>. QED BY <2>2
  <1>3. \A c \in Batches : batch[c].targets \subseteq Runs
    BY DEF TypeInv, Stored, BatchRecords
  <1>4. \A c \in Batches : batch[c].approved =>
            batch[c].status # "absent" /\ \A s \in batch[c].targets : item'[c][s].after \in Texts
    BY <1>2, <1>3 DEF TypeInv, Stored
  <1>. QED BY <1>1, <1>4 DEF TypeInv, Stored, Stays

(* A batch that does not exist yet is the earliest one there is. *)
LEMMA NextBatch ==
    ASSUME NEW b, b = Min({c \in Batches : batch[c].status = "absent"} \cup {MaxBatches + 1}), b \in Batches
    PROVE  batch[b].status = "absent" /\ \A c \in Batches : c < b => batch[c].status # "absent"
  <1>. DEFINE S == {c \in Batches : batch[c].status = "absent"} \cup {MaxBatches + 1}
  <1>0. MaxBatches \in Nat
    OBVIOUS
  <1>1. S \subseteq Nat /\ S # {}
    BY <1>0 DEF Batches
  <1>2. \E m \in S : \A n \in S : m <= n
    <2>. HIDE DEF S
    <2>. QED BY <1>1, LeastNatural
  <1>3. b \in S /\ \A n \in S : b <= n
    BY <1>2 DEF Min
  <1>4. b # MaxBatches + 1
    BY <1>0 DEF Batches
  <1>5. batch[b].status = "absent" /\ \A c \in Batches : batch[c].status = "absent" => b <= c
    BY <1>3, <1>4
  <1>6. \A c \in Batches : c < b => ~ (b <= c)
    BY <1>0 DEF Batches
  <1>. QED BY <1>5, <1>6

(* The last one of a set of batches. *)
LEMMA LastBatch ==
    ASSUME NEW S, S \subseteq Batches, S # {}
    PROVE  Max(S) \in S /\ \A c \in S : c <= Max(S)
  <1>1. S \subseteq Nat /\ MaxBatches \in Nat /\ \A c \in S : c <= MaxBatches
    BY DEF Batches
  <1>2. \E m \in S : \A n \in S : n <= m
    BY <1>1, GreatestNatural
  <1>. QED BY <1>1, <1>2 DEF Max

-----------------------------------------------------------------------------
(* Type correctness, whether or not the operator waits *)

Preparation(p) ==
    \/ Prepare(p) \/ Choose(p) \/ Load(p) \/ Inspect(p) \/ Draft(p) \/ Save(p) \/ Complete(p)
    \/ PrepareFails(p) \/ PrepareAgain(p)
Application(a) ==
    \/ Begin(a) \/ Take(a) \/ Look(a) \/ UpdatePrintify(a) \/ ConfirmPrintify(a) \/ UpdateEtsy(a)
    \/ ConfirmEtsy(a) \/ ReadBack(a) \/ Commit(a) \/ Conclude(a)
    \/ RequestFails(a) \/ ApplyDies(a) \/ ApplyAgain(a)

(* Every step of a preparation keeps the types. *)
LEMMA PreparationType ==
    ASSUME TypeInv, NEW p \in Preparers, Preparation(p)
    PROVE  TypeInv'
  <1>. DEFINE me == prep[p]
  <1>0. /\ Stored /\ me \in Processes(PrepSteps) /\ PrepHolds(me) /\ Idle \in Processes(PrepSteps)
        /\ Idle.at = "idle" /\ MaxTries \in Nat \ {0}
    BY IdleType DEF TypeInv, PrepSteps
  <1>i. PrepHolds(Idle)
    BY <1>0 DEF PrepHolds, Preparing, Drafting
  <1>1. CASE Prepare(p)
    <2>1. PICK scope \in {Runs} \cup {{r} : r \in Runs} :
            prep' = [prep EXCEPT ![p] = [Idle EXCEPT !.at = "choose", !.todo = scope,
                                           !.tries = IF scope = Runs THEN 1 ELSE MaxTries]]
      BY <1>1 DEF Prepare
    <2>. DEFINE n == IF scope = Runs THEN 1 ELSE MaxTries
                q == [Idle EXCEPT !.at = "choose", !.todo = scope, !.tries = n]
    <2>a. scope \in SUBSET Runs /\ n \in 0..MaxTries
      BY <1>0
    <2>b. prep' = [prep EXCEPT ![p] = q]
      BY <2>1
    <2>. HIDE DEF n
    <2>2. q \in Processes(PrepSteps) /\ q.at = "choose"
      BY <1>0, <2>a DEF Processes, PrepSteps
    <2>3. apply' = apply /\ UNCHANGED <<batch, item, live, page, approved, kept>> /\ edits' = edits
          /\ faults' = faults
      BY <1>1 DEF Prepare
    <2>4. faults' \in 0..MaxFaults
      BY <1>0, <2>3 DEF Stored
    <2>. HIDE DEF q
    <2>6. PrepHolds(q)
      BY <2>2 DEF PrepHolds, Preparing, Drafting
    <2>. QED BY <2>b, <2>2, <2>3, <2>4, <2>6, StoredSame, PrepMoves
  <1>2. CASE Choose(p)
    <2>. DEFINE active == Active(me.todo)
                b == IF active # {} THEN Max(active)
                     ELSE Min({c \in Batches : batch[c].status = "absent"} \cup {MaxBatches + 1})
                q == [me EXCEPT !.at = "load", !.batch = b]
                n == [batch EXCEPT ![b].status = "preparing", ![b].targets = me.todo]
    <2>1. /\ b \in Batches /\ prep' = [prep EXCEPT ![p] = q] /\ apply' = apply
          /\ batch' = IF active # {} THEN batch ELSE n
          /\ UNCHANGED <<item, live, apply, page, approved, kept, faults, edits>>
      BY <1>2 DEF Choose
    <2>2. active = {} => batch[b].status = "absent"
      <3>. HIDE DEF active
      <3>. QED BY <2>1, NextBatch
    <2>3. me.todo \subseteq Runs
      BY <1>0 DEF Processes
    <2>. HIDE DEF active, b
    <2>a. b \in 0..MaxBatches
      BY <2>1 DEF Batches
    <2>4. q \in Processes(PrepSteps) /\ q.at = "load" /\ q.batch \in Batches
      BY <1>0, <2>1, <2>a DEF Processes, PrepSteps
    <2>5. Stored' /\ Stays
      <3>1. CASE active # {}
        BY <1>0, <2>1, <3>1 DEF Stored, Stays
      <3>2. CASE active = {}
        <4>1. batch' = n /\ ~ batch[b].approved
          BY <1>0, <2>1, <2>2, <3>2 DEF Stored
        <4>a. batch[b] \in BatchRecords
          BY <1>0, <2>1 DEF Stored
        <4>b. [batch[b] EXCEPT !.status = "preparing", !.targets = me.todo] \in BatchRecords
          BY <2>3, <4>a DEF BatchRecords
        <4>c. n = [batch EXCEPT ![b] = [batch[b] EXCEPT !.status = "preparing", !.targets = me.todo]]
          BY <1>0, <2>1 DEF Stored
        <4>2. n \in [Batches -> BatchRecords]
          BY <1>0, <2>1, <4>b, <4>c DEF Stored
        <4>3. \A c \in Batches : /\ n[c].approved = batch[c].approved
                                 /\ c # b => n[c] = batch[c]
          BY <1>0, <2>1 DEF Stored, BatchRecords
        <4>. HIDE DEF n
        <4>. QED BY <1>0, <2>1, <4>1, <4>2, <4>3, ZenonT(30) DEF Stored, Stays
      <3>. QED BY <3>1, <3>2
    <2>. HIDE DEF q
    <2>6. PrepHolds(q)
      BY <2>4 DEF PrepHolds, Preparing, Drafting
    <2>. QED BY <2>1, <2>4, <2>5, <2>6, PrepMoves
  <1>3. CASE Load(p)
    <2>. DEFINE t == {r \in batch[me.batch].targets : item[me.batch][r].status # "pending_review"}
                q == [me EXCEPT !.at = "loop", !.todo = t]
    <2>1. /\ prep' = [prep EXCEPT ![p] = Idle] \/ prep' = [prep EXCEPT ![p] = q]
          /\ me.at = "load" /\ UNCHANGED <<batch, item, live, apply, page, approved, kept, faults, edits>>
      BY <1>3 DEF Load
    <2>2. me.batch \in Batches
      BY <1>0, <2>1 DEF PrepHolds
    <2>3. t \subseteq Runs
      BY <1>0, <2>2 DEF Stored, BatchRecords
    <2>. HIDE DEF t
    <2>4. q \in Processes(PrepSteps) /\ q.at = "loop" /\ q.batch = me.batch
      BY <1>0, <2>3 DEF Processes, PrepSteps
    <2>. HIDE DEF q
    <2>5. PrepHolds(q)
      BY <2>2, <2>4 DEF PrepHolds, Preparing, Drafting
    <2>6. faults' \in 0..MaxFaults
      BY <1>0, <2>1 DEF Stored
    <2>. QED BY <1>0, <1>i, <2>1, <2>4, <2>5, <2>6, StoredSame, PrepMoves
  <1>4. CASE Inspect(p)
    <2>1. PICK r \in me.todo :
            /\ live[r].shape # "gone"
            /\ prep' = [prep EXCEPT ![p] = [@ EXCEPT !.at = "draft", !.run = r, !.seen = live[r],
                                           !.source = item[me.batch][r]]]
      BY <1>4 DEF Inspect
    <2>. DEFINE q == [me EXCEPT !.at = "draft", !.run = r, !.seen = live[r], !.source = item[me.batch][r]]
    <2>2. me.at = "loop" /\ UNCHANGED <<batch, item, live, apply, page, approved, kept, faults, edits>>
      BY <1>4 DEF Inspect
    <2>3. me.batch \in Batches /\ r \in Runs
      BY <1>0, <2>2 DEF PrepHolds, Preparing, Processes
    <2>4. live[r] \in Listings /\ item[me.batch][r] \in ItemRecords
      BY <1>0, <2>3 DEF Stored
    <2>5. live[r].copy \in [Sides -> Copy] /\ live[r].shape \in {"as_published", "changed"}
      BY <2>1, <2>4 DEF Listings
    <2>6. live[r] \in [copy : [Sides -> Copy \cup {"none"}], shape : {"none", "as_published", "changed", "gone"}]
      BY <2>4 DEF Listings
    <2>7. q \in Processes(PrepSteps) /\ q.at = "draft" /\ q.batch = me.batch /\ q.run = r /\ q.seen = live[r]
      BY <1>0, <2>3, <2>4, <2>6 DEF Processes, PrepSteps
    <2>8. prep' = [prep EXCEPT ![p] = q]
      BY <2>1
    <2>. HIDE DEF q
    <2>9. PrepHolds(q)
      BY <2>3, <2>5, <2>7 DEF PrepHolds, Preparing, Drafting
    <2>10. faults' \in 0..MaxFaults
      BY <1>0, <2>2 DEF Stored
    <2>. QED BY <2>2, <2>7, <2>8, <2>9, <2>10, StoredSame, PrepMoves
  <1>5. CASE Draft(p)
    <2>0. me.at = "draft" /\ me.source \in ItemRecords /\ me.batch \in Batches /\ me.run \in Runs
      BY <1>0, <1>5 DEF Draft, PrepHolds, Preparing, Drafting, Processes
    <2>1. PICK t \in Texts :
            /\ prep' = [prep EXCEPT ![p] = [@ EXCEPT !.at = "save", !.source.draft = t]]
            /\ item' = [item EXCEPT ![me.batch][me.run].draft = t]
      BY <1>5, <2>0 DEF Draft, ItemRecords
    <2>. DEFINE q == [me EXCEPT !.at = "save", !.source.draft = t]
                i == [item[me.batch][me.run] EXCEPT !.draft = t]
    <2>2. UNCHANGED <<batch, live, apply, page, approved, kept, faults, edits>> /\ faults' \in 0..MaxFaults
      BY <1>0, <1>5 DEF Draft, Stored
    <2>3. q \in Processes(PrepSteps)
      BY <1>0, <2>0 DEF Processes, PrepSteps, ItemRecords
    <2>4. /\ q.at = "save" /\ q.batch = me.batch /\ q.run = me.run /\ q.seen = me.seen
          /\ q.source.draft = t
      BY <1>0, <2>0 DEF Processes, ItemRecords
    <2>a. item[me.batch][me.run] \in ItemRecords
      BY <1>0, <2>0 DEF Stored
    <2>5. i \in ItemRecords /\ i.after = item[me.batch][me.run].after
      BY <2>a DEF ItemRecords
    <2>6. item' = [item EXCEPT ![me.batch][me.run] = i] /\ prep' = [prep EXCEPT ![p] = q]
      BY <2>1
    <2>. HIDE DEF q, i
    <2>7. PrepHolds(q)
      BY <1>0, <2>0, <2>4 DEF PrepHolds, Preparing, Drafting
    <2>. QED BY <2>0, <2>2, <2>3, <2>5, <2>6, <2>7, StoredItem, PrepMoves
  <1>6. CASE Save(p)
    <2>0. /\ me.at = "save" /\ me.source.draft \in Texts /\ me.batch \in Batches /\ me.run \in Runs
          /\ me.seen.copy \in [Sides -> Copy] /\ me.seen.shape \in {"as_published", "changed"}
      BY <1>0, <1>6 DEF Save, PrepHolds, Preparing, Drafting
    <2>. DEFINE i == [item[me.batch][me.run] EXCEPT !.before = me.seen.copy, !.after = me.source.draft,
                                          !.baseline = me.seen.shape, !.status = "pending_review"]
                q == [Idle EXCEPT !.at = "loop", !.batch = me.batch, !.todo = me.todo \ {me.run},
                                  !.tries = me.tries]
    <2>1. /\ item' = [item EXCEPT ![me.batch][me.run] = i]
          /\ kept' \subseteq kept /\ prep' = [prep EXCEPT ![p] = q]
          /\ UNCHANGED <<batch, live, apply, page, approved, faults, edits>>
      BY <1>6 DEF Save
    <2>a. item[me.batch][me.run] \in ItemRecords
      BY <1>0, <2>0 DEF Stored
    <2>b. me.seen.copy \in [Sides -> Copy \cup {"none"}]
      BY <2>0
    <2>2. i \in ItemRecords /\ i.after \in Texts
      BY <2>0, <2>a, <2>b DEF ItemRecords
    <2>3. me.todo \ {me.run} \subseteq Runs /\ me.tries \in 0..MaxTries
      BY <1>0 DEF Processes
    <2>4. q \in Processes(PrepSteps) /\ q.at = "loop" /\ q.batch = me.batch
      BY <1>0, <2>0, <2>3 DEF Processes, PrepSteps, Batches
    <2>5. faults' \in 0..MaxFaults
      BY <1>0, <2>1 DEF Stored
    <2>. HIDE DEF q, i
    <2>6. PrepHolds(q)
      BY <2>0, <2>4 DEF PrepHolds, Preparing, Drafting
    <2>. QED BY <2>0, <2>1, <2>2, <2>4, <2>5, <2>6, StoredItem, PrepMoves
  <1>7. CASE Complete(p)
    <2>. DEFINE n == [batch EXCEPT ![me.batch] = [@ EXCEPT
                        !.digest = Digest(item[me.batch], batch[me.batch].targets), !.status = "pending_review"]]
                q == [me EXCEPT !.at = "again"]
    <2>1. /\ me.at = "loop" /\ batch' \in {batch, n}
          /\ \/ prep' = [prep EXCEPT ![p] = Idle]
             \/ me.tries < MaxTries /\ prep' = [prep EXCEPT ![p] = q]
          /\ UNCHANGED <<item, live, apply, page, approved, kept, faults, edits>>
      BY <1>7 DEF Complete
    <2>2. me.batch \in Batches
      BY <1>0, <2>1 DEF PrepHolds, Preparing
    <2>3. Digest(item[me.batch], batch[me.batch].targets) \in [Runs -> Texts \cup {"none"}]
      BY <1>0, <2>2, DigestType DEF Stored
    <2>a. batch[me.batch] \in BatchRecords
      BY <1>0, <2>2 DEF Stored
    <2>b. [batch[me.batch] EXCEPT !.digest = Digest(item[me.batch], batch[me.batch].targets),
                                  !.status = "pending_review"] \in BatchRecords
      BY <2>3, <2>a DEF BatchRecords
    <2>4. n \in [Batches -> BatchRecords]
      BY <1>0, <2>2, <2>b DEF Stored
    <2>5. \A c \in Batches : /\ n[c].approved = batch[c].approved /\ n[c].targets = batch[c].targets
                             /\ n[c].status \in {batch[c].status, "pending_review"}
      BY <1>0, <2>2 DEF Stored, BatchRecords
    <2>. HIDE DEF n
    <2>6. Stored' /\ Stays
      BY <1>0, <2>1, <2>4, <2>5 DEF Stored, Stays
    <2>7. q \in Processes(PrepSteps) /\ q.at = "again" /\ q.tries = me.tries
      BY <1>0 DEF Processes, PrepSteps
    <2>. HIDE DEF q
    <2>8. me.tries < MaxTries => PrepHolds(q)
      BY <2>7 DEF PrepHolds, Preparing, Drafting
    <2>. QED BY <1>0, <1>i, <2>1, <2>6, <2>7, <2>8, PrepMoves
  <1>8. CASE PrepareFails(p)
    <2>. DEFINE q == [me EXCEPT !.at = "again"]
    <2>1. /\ \/ prep' = [prep EXCEPT ![p] = Idle]
             \/ me.tries < MaxTries /\ prep' = [prep EXCEPT ![p] = q]
          /\ \/ faults' = faults
             \/ faults < MaxFaults /\ faults' = faults + 1
          /\ UNCHANGED <<batch, item, live, apply, page, approved, kept, edits>>
      BY <1>8 DEF PrepareFails
    <2>a. faults' \in 0..MaxFaults
      BY <1>0, <2>1 DEF Stored
    <2>2. q \in Processes(PrepSteps) /\ q.at = "again" /\ q.tries = me.tries
      BY <1>0 DEF Processes, PrepSteps
    <2>. HIDE DEF q
    <2>3. me.tries < MaxTries => PrepHolds(q)
      BY <2>2 DEF PrepHolds, Preparing, Drafting
    <2>. QED BY <1>0, <1>i, <2>1, <2>a, <2>2, <2>3, StoredSame, PrepMoves
  <1>9. CASE PrepareAgain(p)
    <2>. DEFINE q == [Idle EXCEPT !.at = "choose", !.todo = Runs, !.tries = me.tries + 1]
    <2>1. /\ me.at = "again" /\ prep' = [prep EXCEPT ![p] = q] /\ faults' \in 0..MaxFaults
          /\ UNCHANGED <<batch, item, live, apply, page, approved, kept, edits>>
      BY <1>0, <1>9 DEF PrepareAgain, Stored
    <2>2. me.tries + 1 \in 0..MaxTries
      BY <1>0, <2>1 DEF PrepHolds, Processes
    <2>3. q \in Processes(PrepSteps) /\ q.at = "choose"
      BY <1>0, <2>2 DEF Processes, PrepSteps
    <2>. HIDE DEF q
    <2>4. PrepHolds(q)
      BY <2>3 DEF PrepHolds, Preparing, Drafting
    <2>. QED BY <2>1, <2>3, <2>4, StoredSame, PrepMoves
  <1>. QED BY <1>1, <1>2, <1>3, <1>4, <1>5, <1>6, <1>7, <1>8, <1>9 DEF Preparation

(* A step of an application that writes the status of an item at most, and   *)
(* goes on to a process q that agrees with the records.                      *)
LEMMA ApplyStep ==
    ASSUME TypeInv, NEW a \in Appliers, NEW q \in Processes(ApplySteps), apply' = [apply EXCEPT ![a] = q],
           ApplyHolds(q), prep' = prep, Stored', Stays, ApplyHolds(q) => ApplyHolds(apply[a])'
    PROVE  TypeInv'
  <1>1. apply' \in [Appliers -> Processes(ApplySteps)] /\ \A b \in Appliers : b # a => apply'[b] = apply[b]
    BY DEF TypeInv
  <1>. QED BY <1>1, ApplyMoves

(* What an application holds at its next step it holds of the new records,   *)
(* which lose no approval.                                                   *)
LEMMA HoldsOn ==
    ASSUME NEW a \in Appliers, Stays, ApplyHolds(apply'[a])
    PROVE  ApplyHolds(apply[a])'
  BY DEF ApplyHolds, Stays, Stepping, ItemSteps

(* Every step of an application keeps the types. *)
LEMMA ApplicationType ==
    ASSUME TypeInv, NEW a \in Appliers, Application(a)
    PROVE  TypeInv'
  <1>. DEFINE me == apply[a]
              b == me.batch
              next == [Idle EXCEPT !.at = "loop", !.batch = b, !.tries = me.tries, !.todo = me.todo \ {me.run}]
  <1>0. /\ Stored /\ me \in Processes(ApplySteps) /\ ApplyHolds(me) /\ Idle \in Processes(ApplySteps)
        /\ Idle.at = "idle" /\ MaxTries \in Nat \ {0}
    BY IdleType DEF TypeInv, ApplySteps
  <1>i. ApplyHolds(Idle)
    BY <1>0 DEF ApplyHolds, Stepping, ItemSteps
  <1>m. me.at # "idle" => b \in Batches
    BY <1>0 DEF ApplyHolds
  <1>p. ASSUME NEW q \in Processes(ApplySteps), apply' = [apply EXCEPT ![a] = q], ApplyHolds(q),
               prep' = prep, Stored', Stays
        PROVE  TypeInv'
    <2>1. apply'[a] = q
      BY <1>p DEF TypeInv
    <2>2. ApplyHolds(apply'[a])
      BY <1>p, <2>1
    <2>. QED BY <1>p, <2>2, HoldsOn, ApplyStep
  <1>n. me.at \in ItemSteps =>
            /\ b \in Batches /\ me.run \in Runs
            /\ next \in Processes(ApplySteps) /\ ApplyHolds(next)
    <2>. SUFFICES ASSUME me.at \in ItemSteps
                  PROVE  /\ b \in Batches /\ me.run \in Runs
                         /\ next \in Processes(ApplySteps) /\ ApplyHolds(next)
      OBVIOUS
    <2>1. /\ b \in 0..MaxBatches /\ me.tries \in 0..MaxTries /\ me.todo \subseteq Runs
          /\ b \in Batches /\ me.run \in me.todo /\ batch[b].approved /\ me.todo \subseteq batch[b].targets
      BY <1>0 DEF ApplyHolds, Stepping, ItemSteps, Processes
    <2>2. next \in Processes(ApplySteps) /\ next.at = "loop" /\ next.batch = b /\ next.todo = me.todo \ {me.run}
      BY <1>0, <2>1 DEF Processes, ApplySteps
    <2>. HIDE DEF next
    <2>3. ApplyHolds(next)
      BY <2>1, <2>2 DEF ApplyHolds, Stepping, ItemSteps
    <2>. QED BY <2>1, <2>2, <2>3
  <1>s. ASSUME NEW status \in {"applied", "verification_required"}, me.at \in ItemSteps,
               item' = [item EXCEPT ![b][me.run].status = status], faults' \in 0..MaxFaults,
               UNCHANGED <<batch, live, page, approved, kept, edits>>
        PROVE  Stored' /\ Stays
    <2>. DEFINE i == [item[b][me.run] EXCEPT !.status = status]
    <2>1. item[b][me.run] \in ItemRecords
      BY <1>0, <1>n, <1>s DEF Stored
    <2>2. i \in ItemRecords /\ i.after = item[b][me.run].after
      BY <2>1 DEF ItemRecords
    <2>3. item' = [item EXCEPT ![b][me.run] = i] /\ kept' \subseteq kept
      BY <1>s
    <2>. HIDE DEF i
    <2>. QED BY <1>s, <1>n, <2>2, <2>3, StoredItem
  <1>f. ASSUME me.at \in ItemSteps, ItemFails(a), faults' \in 0..MaxFaults, prep' = prep,
               UNCHANGED <<batch, live, page, approved, kept, edits>>
        PROVE  TypeInv'
    <2>1. item' = [item EXCEPT ![b][me.run].status = "verification_required"]
          /\ apply' = [apply EXCEPT ![a] = next]
      BY <1>f DEF ItemFails
    <2>. HIDE DEF next
    <2>2. Stored' /\ Stays
      BY <1>f, <1>s, <2>1
    <2>. QED BY <1>f, <1>n, <1>p, <2>1, <2>2
  <1>g. ASSUME NEW at \in ItemSteps, me.at \in ItemSteps
        PROVE  [me EXCEPT !.at = at] \in Processes(ApplySteps) /\ ApplyHolds([me EXCEPT !.at = at])
    <2>. DEFINE q == [me EXCEPT !.at = at]
    <2>1. /\ q \in Processes(ApplySteps) /\ q.at \in ItemSteps /\ q.batch = b /\ q.todo = me.todo
          /\ q.run = me.run /\ q.source = me.source
      BY <1>0, <1>g DEF Processes, ApplySteps
    <2>. HIDE DEF q
    <2>2. ApplyHolds(q)
      BY <1>0, <1>g, <2>1 DEF ApplyHolds, Stepping, ItemSteps
    <2>. QED BY <2>1, <2>2 DEF q
  <1>h. ASSUME NEW at \in ItemSteps, me.at \in ItemSteps, apply' = [apply EXCEPT ![a] = [@ EXCEPT !.at = at]],
               Stored', Stays, prep' = prep
        PROVE  TypeInv'
    <2>1. apply' = [apply EXCEPT ![a] = [me EXCEPT !.at = at]]
      BY <1>h
    <2>. QED BY <1>g, <1>h, <1>p, <2>1
  <1>k. UNCHANGED faults => faults' \in 0..MaxFaults
    BY <1>0 DEF Stored
  <1>1. CASE Begin(a)
    <2>. DEFINE t == {r \in batch[b].targets : item[b][r].status # "applied"}
                q == [me EXCEPT !.at = "loop", !.todo = t]
    <2>1. /\ \/ apply' = [apply EXCEPT ![a] = Idle]
             \/ apply' = [apply EXCEPT ![a] = q] /\ batch[b].approved
          /\ me.at = "begin" /\ UNCHANGED <<batch, item, live, prep, page, approved, kept, faults, edits>>
      BY <1>1 DEF Begin
    <2>2. t \subseteq batch[b].targets /\ t \subseteq Runs /\ b \in Batches
      BY <1>0, <1>m, <2>1 DEF Stored, BatchRecords
    <2>. HIDE DEF t
    <2>3. q \in Processes(ApplySteps) /\ q.at = "loop" /\ q.todo = t /\ q.batch = b
      BY <1>0, <2>2 DEF Processes, ApplySteps
    <2>. HIDE DEF q
    <2>4. batch[b].approved => ApplyHolds(q)
      BY <2>2, <2>3 DEF ApplyHolds, Stepping, ItemSteps
    <2>. QED BY <1>0, <1>i, <1>k, <1>p, <2>1, <2>3, <2>4, StoredSame
  <1>2. CASE Take(a)
    <2>1. PICK r \in me.todo :
            apply' = [apply EXCEPT ![a] = [@ EXCEPT !.at = "look", !.run = r, !.source = item[b][r]]]
      BY <1>2 DEF Take
    <2>. DEFINE q == [me EXCEPT !.at = "look", !.run = r, !.source = item[b][r]]
    <2>2. me.at = "loop" /\ UNCHANGED <<batch, item, live, prep, page, approved, kept, faults, edits>>
      BY <1>2 DEF Take
    <2>3. b \in Batches /\ batch[b].approved /\ me.todo \subseteq batch[b].targets /\ me.todo \subseteq Runs
      BY <1>0, <2>2 DEF ApplyHolds, Stepping, Processes
    <2>4. item[b][r] \in ItemRecords /\ item[b][r].after \in Texts
      BY <1>0, <2>3 DEF Stored
    <2>5. /\ q \in Processes(ApplySteps) /\ q.at = "look" /\ q.run = r /\ q.todo = me.todo /\ q.batch = b
          /\ q.source = item[b][r]
      BY <1>0, <2>3, <2>4 DEF Processes, ApplySteps, ItemSteps
    <2>6. apply' = [apply EXCEPT ![a] = q]
      BY <2>1
    <2>. HIDE DEF q
    <2>7. ApplyHolds(q)
      BY <2>3, <2>4, <2>5 DEF ApplyHolds, Stepping, ItemSteps
    <2>. QED BY <1>k, <1>p, <2>2, <2>5, <2>6, <2>7, StoredSame
  <1>3. CASE Look(a)
    <2>. DEFINE q == [me EXCEPT !.at = "printify", !.seen = live[me.run]]
    <2>1. /\ me.at \in ItemSteps /\ UNCHANGED <<batch, live, prep, page, approved, kept, faults, edits>>
          /\ \/ apply' = [apply EXCEPT ![a] = q] /\ item' = item
             \/ ItemFails(a)
      BY <1>3 DEF Look, ItemSteps
    <2>2. live[me.run] \in Listings
      BY <1>0, <1>n, <2>1 DEF Stored
    <2>3. live[me.run] \in [copy : [Sides -> Copy \cup {"none"}], shape : {"none", "as_published", "changed", "gone"}]
      BY <2>2 DEF Listings
    <2>4. /\ q \in Processes(ApplySteps) /\ q.at \in ItemSteps /\ q.batch = b /\ q.todo = me.todo
          /\ q.run = me.run /\ q.source = me.source
      BY <1>0, <2>3 DEF Processes, ApplySteps, ItemSteps
    <2>. HIDE DEF q, next
    <2>5. ApplyHolds(q)
      BY <1>0, <2>1, <2>4 DEF ApplyHolds, Stepping, ItemSteps
    <2>. QED BY <1>f, <1>k, <1>p, <2>1, <2>4, <2>5, StoredSame
  <1>4. ASSUME NEW s \in Sides, NEW at \in ItemSteps, Update(a, s, at)
        PROVE  TypeInv'
    <2>1. /\ me.at = s /\ apply' = [apply EXCEPT ![a] = [@ EXCEPT !.at = at]]
          /\ live' \in {live, [live EXCEPT ![me.run].copy[s] = me.source.after]}
          /\ UNCHANGED <<batch, item, prep, page, approved, kept, faults, edits>>
      BY <1>4 DEF Update
    <2>2. me.at \in ItemSteps /\ me.source.after \in Texts /\ me.run \in Runs
      BY <1>0, <1>n, <2>1 DEF ApplyHolds, ItemSteps, Sides
    <2>3. [live EXCEPT ![me.run].copy[s] = me.source.after] \in [Runs -> Listings]
      <3>1. live[me.run] \in Listings
        BY <1>0, <2>2 DEF Stored
      <3>2. [live[me.run].copy EXCEPT ![s] = me.source.after] \in [Sides -> Copy]
        BY <2>2, <3>1 DEF Listings, Copy
      <3>3. [live[me.run] EXCEPT !.copy = [live[me.run].copy EXCEPT ![s] = me.source.after]] \in Listings
        BY <3>1, <3>2 DEF Listings
      <3>4. [live EXCEPT ![me.run].copy[s] = me.source.after]
                = [live EXCEPT ![me.run] = [live[me.run] EXCEPT !.copy = [live[me.run].copy EXCEPT ![s] = me.source.after]]]
        OBVIOUS
      <3>. QED BY <1>0, <3>3, <3>4 DEF Stored
    <2>4. Stored' /\ Stays
      BY <1>0, <2>1, <2>3 DEF Stored, Stays
    <2>. QED BY <1>h, <2>1, <2>2, <2>4
  <1>5. ASSUME NEW s \in Sides, NEW here \in ItemSteps, NEW at \in ItemSteps, Confirm(a, s, here, at)
        PROVE  TypeInv'
    <2>1. /\ me.at = here /\ UNCHANGED <<batch, live, prep, page, approved, kept, faults, edits>>
          /\ \/ apply' = [apply EXCEPT ![a] = [@ EXCEPT !.at = at]] /\ item' = item
             \/ ItemFails(a)
      BY <1>5 DEF Confirm
    <2>. HIDE DEF next
    <2>. QED BY <1>f, <1>h, <1>k, <2>1, StoredSame
  <1>6. CASE UpdatePrintify(a) \/ UpdateEtsy(a)
    BY <1>4, <1>6 DEF UpdatePrintify, UpdateEtsy, Sides, ItemSteps
  <1>7. CASE ConfirmPrintify(a) \/ ConfirmEtsy(a)
    BY <1>5, <1>7 DEF ConfirmPrintify, ConfirmEtsy, Sides, ItemSteps
  <1>8. CASE ReadBack(a)
    <2>1. /\ me.at \in ItemSteps /\ UNCHANGED <<batch, live, prep, page, approved, kept, faults, edits>>
          /\ \/ apply' = [apply EXCEPT ![a] = [@ EXCEPT !.at = "commit"]] /\ item' = item
             \/ ItemFails(a)
      BY <1>8 DEF ReadBack, ItemSteps
    <2>2. "commit" \in ItemSteps
      BY DEF ItemSteps
    <2>. HIDE DEF next
    <2>. QED BY <1>f, <1>h, <1>k, <2>1, <2>2, StoredSame
  <1>9. CASE Commit(a)
    <2>1. /\ me.at \in ItemSteps /\ UNCHANGED <<batch, live, prep, page, approved, kept, faults, edits>>
          /\ item' = [item EXCEPT ![b][me.run].status = "applied"]
          /\ apply' = [apply EXCEPT ![a] = next]
      BY <1>9 DEF Commit, ItemSteps
    <2>. HIDE DEF next
    <2>2. Stored' /\ Stays
      BY <1>s, <1>k, <2>1
    <2>. QED BY <1>n, <1>p, <2>1, <2>2
  <1>10. CASE Conclude(a)
    <2>1. /\ me.at = "loop" /\ apply' = [apply EXCEPT ![a] = Idle]
          /\ batch' = [batch EXCEPT ![b].status = Outcome(b)]
          /\ UNCHANGED <<item, live, prep, page, approved, kept, faults, edits>>
      BY <1>10 DEF Conclude
    <2>2. b \in Batches /\ Outcome(b) \in {"applied", "verification_required"}
      BY <1>m, <2>1 DEF Outcome
    <2>3. batch[b] \in BatchRecords
      BY <1>0, <2>2 DEF Stored
    <2>4. [batch[b] EXCEPT !.status = Outcome(b)] \in BatchRecords
      BY <2>2, <2>3 DEF BatchRecords
    <2>5. batch' \in [Batches -> BatchRecords]
      BY <1>0, <2>1, <2>4 DEF Stored
    <2>6. \A c \in Batches : /\ batch'[c].approved = batch[c].approved /\ batch'[c].targets = batch[c].targets
                             /\ batch'[c].status \in {batch[c].status, "applied", "verification_required"}
      BY <1>0, <2>1, <2>2 DEF Stored, BatchRecords
    <2>7. Stored' /\ Stays
      BY <1>0, <2>1, <2>5, <2>6 DEF Stored, Stays
    <2>. QED BY <1>0, <1>i, <1>p, <2>1, <2>7
  <1>11. CASE RequestFails(a)
    <2>1. /\ me.at \in ItemSteps /\ ItemFails(a)
          /\ faults < MaxFaults /\ faults' = faults + 1
          /\ UNCHANGED <<batch, live, prep, page, approved, kept, edits>>
      BY <1>11 DEF RequestFails, ItemSteps
    <2>2. faults' \in 0..MaxFaults
      BY <1>0, <2>1 DEF Stored
    <2>. HIDE DEF next
    <2>. QED BY <1>f, <2>1, <2>2
  <1>12. CASE ApplyDies(a)
    <2>. DEFINE q == [Idle EXCEPT !.at = "again", !.batch = b, !.tries = me.tries]
    <2>1. /\ me.at # "idle" /\ faults < MaxFaults /\ faults' = faults + 1
          /\ \/ apply' = [apply EXCEPT ![a] = q] /\ me.tries < MaxTries
             \/ apply' = [apply EXCEPT ![a] = Idle]
          /\ UNCHANGED <<batch, item, live, prep, page, approved, kept, edits>>
      BY <1>12 DEF ApplyDies
    <2>2. faults' \in 0..MaxFaults
      BY <1>0, <2>1 DEF Stored
    <2>3. b \in 0..MaxBatches /\ me.tries \in 0..MaxTries
      BY <1>0 DEF Processes
    <2>4. q \in Processes(ApplySteps) /\ q.at = "again" /\ q.batch = b /\ q.tries = me.tries
      BY <1>0, <2>3 DEF Processes, ApplySteps
    <2>. HIDE DEF q
    <2>5. me.tries < MaxTries => ApplyHolds(q)
      BY <1>m, <2>1, <2>4 DEF ApplyHolds, Stepping, ItemSteps
    <2>. QED BY <1>0, <1>i, <1>p, <2>1, <2>2, <2>4, <2>5, StoredSame
  <1>13. CASE ApplyAgain(a)
    <2>. DEFINE q == [me EXCEPT !.at = "begin", !.tries = me.tries + 1]
    <2>1. /\ me.at = "again" /\ apply' = [apply EXCEPT ![a] = q]
          /\ UNCHANGED <<batch, item, live, prep, page, approved, kept, faults, edits>>
      BY <1>13 DEF ApplyAgain
    <2>2. me.tries + 1 \in 0..MaxTries
      BY <1>0, <2>1 DEF ApplyHolds, Processes
    <2>3. q \in Processes(ApplySteps) /\ q.at = "begin" /\ q.batch = b
      BY <1>0, <2>2 DEF Processes, ApplySteps
    <2>. HIDE DEF q
    <2>4. ApplyHolds(q)
      BY <1>m, <2>1, <2>3 DEF ApplyHolds, Stepping, ItemSteps
    <2>. QED BY <1>k, <1>p, <2>1, <2>3, <2>4, StoredSame
  <1>. QED BY <1>1, <1>2, <1>3, <1>6, <1>7, <1>8, <1>9, <1>10, <1>11, <1>12, <1>13 DEF Application

(* Starting a workflow of a batch, or dying before it starts, keeps the types. *)
LEMMA LaunchType ==
    ASSUME TypeInv, NEW b \in Batches, Launch(b), faults' \in 0..MaxFaults => Stored', Stays, prep' = prep
    PROVE  TypeInv'
  <1>0. Stored'
    BY DEF Launch, TypeInv, Stored
  <1>1. CASE apply' = apply
    <2>1. \A p \in Preparers : PrepHolds(prep[p])'
      BY DEF TypeInv, PrepHolds
    <2>2. \A a \in Appliers : ApplyHolds(apply[a])'
      <3>. TAKE a \in Appliers
      <3>1. ApplyHolds(apply[a]) /\ apply'[a] = apply[a]
        BY <1>1 DEF TypeInv
      <3>2. apply[a].at # "idle" => apply[a].batch \in Batches
        BY <3>1 DEF ApplyHolds
      <3>3. apply[a].at \in Stepping => apply[a].at # "idle"
        BY DEF Stepping, ItemSteps
      <3>. QED BY <3>1, <3>2, <3>3 DEF ApplyHolds, Stays
    <2>. QED BY <1>0, <1>1, <2>1, <2>2 DEF TypeInv
  <1>2. CASE \E a \in Free : apply' = [apply EXCEPT ![a] = Started(a, b)]
    <2>1. PICK a \in Free : apply' = [apply EXCEPT ![a] = Started(a, b)]
      BY <1>2
    <2>. DEFINE q == Started(a, b)
    <2>a. {"idle", "begin"} \subseteq ApplySteps
      BY DEF ApplySteps
    <2>b. MaxBatches \in Nat /\ 1 \in 0..MaxTries
      OBVIOUS
    <2>c. b \in 0..MaxBatches
      BY <2>b DEF Batches
    <2>2. a \in Appliers /\ Idle \in Processes(ApplySteps)
      BY <2>a, IdleType DEF Free
    <2>3. q \in Processes(ApplySteps) /\ q.at = "begin" /\ q.batch = b
      BY <2>a, <2>b, <2>c, <2>2 DEF Started, Processes
    <2>. HIDE DEF q
    <2>4. ApplyHolds(q)
      BY <2>3 DEF ApplyHolds, Stepping, ItemSteps
    <2>5. apply'[a] = q
      BY <2>1, <2>2 DEF TypeInv, q
    <2>6. apply' = [apply EXCEPT ![a] = q]
      BY <2>1 DEF q
    <2>. QED BY <1>0, <2>2, <2>3, <2>4, <2>5, <2>6, HoldsOn, ApplyStep
  <1>. QED BY <1>1, <1>2 DEF Launch

(* A step that starts no process keeps the types if its records have them. *)
LEMMA IdleStep ==
    ASSUME TypeInv, Stored', Stays, prep' = prep, apply' = apply
    PROVE  TypeInv'
  <1>1. \A p \in Preparers : PrepHolds(prep[p])'
    BY DEF TypeInv, PrepHolds
  <1>2. \A a \in Appliers : ApplyHolds(apply[a])'
    <2>. TAKE a \in Appliers
    <2>1. ApplyHolds(apply[a]) /\ apply'[a] = apply[a]
      BY DEF TypeInv
    <2>2. apply[a].at # "idle" => apply[a].batch \in Batches
      BY <2>1 DEF ApplyHolds
    <2>3. apply[a].at \in Stepping => apply[a].at # "idle"
      BY DEF Stepping, ItemSteps
    <2>. QED BY <2>1, <2>2, <2>3 DEF ApplyHolds, Stays
  <1>. QED BY <1>1, <1>2 DEF TypeInv

(* Setting the status of items of a batch keeps their types and their texts. *)
LEMMA ItemStatus ==
    ASSUME Stored, NEW b \in Batches, NEW status \in {"applying", "verification_required"}, NEW S,
           item' = [item EXCEPT ![b] = [r \in Runs |-> IF r \in S THEN [item[b][r] EXCEPT !.status = status]
                                                       ELSE item[b][r]]]
    PROVE  /\ item' \in [Batches -> [Runs -> ItemRecords]]
           /\ \A c \in Batches, r \in Runs :
                /\ item'[c][r].after = item[c][r].after /\ item'[c][r].before = item[c][r].before
                /\ item'[c][r].status = IF c = b /\ r \in S THEN status ELSE item[c][r].status
                /\ c # b => item'[c] = item[c]
  <1>. DEFINE n == [r \in Runs |-> IF r \in S THEN [item[b][r] EXCEPT !.status = status] ELSE item[b][r]]
  <1>1. \A c \in Batches, r \in Runs : item[c][r] \in ItemRecords
    BY DEF Stored
  <1>2. \A r \in Runs : [item[b][r] EXCEPT !.status = status] \in ItemRecords
    BY <1>1 DEF ItemRecords
  <1>3. n \in [Runs -> ItemRecords]
    BY <1>1, <1>2
  <1>4. \A r \in Runs : /\ n[r].after = item[b][r].after /\ n[r].before = item[b][r].before
                        /\ n[r].status = IF r \in S THEN status ELSE item[b][r].status
    BY <1>1 DEF ItemRecords
  <1>5. item' = [item EXCEPT ![b] = n]
    OBVIOUS
  <1>a. item \in [Batches -> [Runs -> ItemRecords]]
    BY DEF Stored
  <1>. HIDE DEF n
  <1>6. item' \in [Batches -> [Runs -> ItemRecords]] /\ item'[b] = n
        /\ \A c \in Batches : c # b => item'[c] = item[c]
    BY <1>3, <1>5, <1>a
  <1>. QED BY <1>4, <1>6

(* What the operator does keeps the types. *)
LEMMA OperatorType ==
    ASSUME TypeInv, Review \/ Edit \/ Approve \/ Retry
    PROVE  TypeInv'
  <1>0. /\ Stored /\ MaxVersion \in Nat \ {0}
        /\ \A c \in Batches : batch[c] \in BatchRecords
    BY DEF TypeInv, Stored
  <1>1. CASE Review
    <2>1. PICK b \in Batches :
            page' = [batch |-> b, version |-> batch[b].version, digest |-> batch[b].digest,
                     texts |-> Digest(item[b], batch[b].targets)]
      BY <1>1 DEF Review
    <2>2. UNCHANGED <<batch, item, live, prep, apply, approved, kept, faults, edits>>
      BY <1>1 DEF Review
    <2>3. /\ Digest(item[b], batch[b].targets) \in [Runs -> Texts \cup {"none"}]
          /\ batch[b].digest \in [Runs -> Texts \cup {"none"}] /\ batch[b].version \in 1..MaxVersion
      BY <1>0, DigestType DEF Stored, BatchRecords
    <2>b. b \in 0..MaxBatches
      BY DEF Batches
    <2>4. page' \in [batch : 0..MaxBatches, version : 1..MaxVersion,
                 digest : [Runs -> Texts \cup {"none"}], texts : [Runs -> Texts \cup {"none"}]]
      BY <2>1, <2>3, <2>b
    <2>5. Stored' /\ Stays
      BY <1>0, <2>2, <2>4 DEF Stored, Stays
    <2>. QED BY <2>2, <2>5, IdleStep
  <1>2. CASE Edit
    <2>. DEFINE b == page.batch
    <2>0. b \in Batches /\ batch[b].version < MaxVersion
      BY <1>0, <1>2 DEF Edit, Stored, Batches
    <2>1. PICK r \in batch[b].targets \cap Edited, t \in Texts :
            /\ item' = [item EXCEPT ![b][r].after = t]
            /\ batch' = [batch EXCEPT ![b] = [@ EXCEPT !.version = batch[b].version + 1,
                                               !.digest = Digest(item'[b], batch[b].targets)]]
      BY <1>2 DEF Edit
    <2>2. UNCHANGED <<live, prep, apply, page, approved, kept, faults, edits>>
      BY <1>2 DEF Edit
    <2>3. item[b][r] \in ItemRecords
      BY <1>0, <2>0 DEF Stored
    <2>4. [item[b][r] EXCEPT !.after = t] \in ItemRecords
      BY <2>3 DEF ItemRecords
    <2>5. item' \in [Batches -> [Runs -> ItemRecords]]
      BY <1>0, <2>0, <2>1, <2>4 DEF Stored
    <2>6. \A c \in Batches, s \in Runs : item[c][s].after \in Texts => item'[c][s].after \in Texts
      <3>. TAKE c \in Batches, s \in Runs
      <3>1. item[c] \in [Runs -> ItemRecords] /\ item \in [Batches -> [Runs -> ItemRecords]]
        BY <1>0 DEF Stored
      <3>2. item'[c][s] = IF c = b /\ s = r THEN [item[b][r] EXCEPT !.after = t] ELSE item[c][s]
        BY <2>1, <3>1
      <3>3. [item[b][r] EXCEPT !.after = t].after = t
        BY <2>3 DEF ItemRecords
      <3>. QED BY <3>2, <3>3
    <2>. DEFINE n == [batch[b] EXCEPT !.version = batch[b].version + 1,
                                      !.digest = Digest(item'[b], batch[b].targets)]
    <2>7. n \in BatchRecords /\ n.approved = batch[b].approved /\ n.targets = batch[b].targets
          /\ n.status = batch[b].status
      <3>1. Digest(item'[b], batch[b].targets) \in [Runs -> Texts \cup {"none"}]
        BY <2>0, <2>5, DigestType
      <3>2. batch[b] \in BatchRecords /\ batch[b].version + 1 \in 1..MaxVersion
        BY <1>0, <2>0 DEF BatchRecords
      <3>. QED BY <3>1, <3>2 DEF BatchRecords
    <2>8. batch' = [batch EXCEPT ![b] = n]
      BY <2>1
    <2>. HIDE DEF n
    <2>9. batch' \in [Batches -> BatchRecords]
          /\ \A c \in Batches : /\ batch'[c].approved = batch[c].approved
                                /\ batch'[c].targets = batch[c].targets
                                /\ batch'[c].status = batch[c].status
      BY <1>0, <2>0, <2>7, <2>8 DEF Stored
    <2>10. \A c \in Batches : batch[c].targets \subseteq Runs
      BY <1>0 DEF BatchRecords
    <2>11. Stored' /\ Stays
      BY <1>0, <2>2, <2>5, <2>6, <2>9, <2>10 DEF Stored, Stays
    <2>. QED BY <2>2, <2>11, IdleStep
  <1>3. CASE Approve
    <2>. DEFINE b == page.batch
                n == [batch[b] EXCEPT !.status = "applying", !.approved = TRUE]
    <2>0. b \in Batches /\ batch[b].targets \subseteq Runs
      BY <1>0, <1>3 DEF Approve, Stored, Batches, BatchRecords
    <2>1. /\ \A r \in batch[b].targets : item[b][r].after # "none"
          /\ batch' = [batch EXCEPT ![b] = n]
          /\ item' = [item EXCEPT ![b] = [r \in Runs |-> IF r \in batch[b].targets
                                          THEN [item[b][r] EXCEPT !.status = "applying"] ELSE item[b][r]]]
          /\ approved' = [approved EXCEPT ![b] = page.texts]
          /\ page' = Closed /\ Launch(b)
          /\ UNCHANGED <<live, prep, kept, edits>>
      BY <1>3 DEF Approve
    <2>2. /\ item' \in [Batches -> [Runs -> ItemRecords]]
          /\ \A c \in Batches, r \in Runs : item'[c][r].after = item[c][r].after
      BY <1>0, <2>0, <2>1, ItemStatus, ZenonT(30)
    <2>3. n \in BatchRecords /\ n.targets = batch[b].targets /\ n.approved /\ n.status = "applying"
      BY <1>0, <2>0 DEF BatchRecords
    <2>. HIDE DEF n
    <2>4. /\ batch' \in [Batches -> BatchRecords] /\ batch'[b] = n
          /\ \A c \in Batches : c # b => batch'[c] = batch[c]
      BY <1>0, <2>0, <2>1, <2>3 DEF Stored
    <2>5. approved' \in [Batches -> [Runs -> Texts \cup {"none"}]]
      BY <1>0, <2>0, <2>1 DEF Stored
    <2>6. page' \in [batch : 0..MaxBatches, version : 1..MaxVersion,
                 digest : [Runs -> Texts \cup {"none"}], texts : [Runs -> Texts \cup {"none"}]]
      BY <1>0, <2>1 DEF Closed, NoTexts
    <2>7. \A r \in batch[b].targets : item[b][r].after \in Texts
      <3>1. \A r \in Runs : item[b][r].after \in Texts \cup {"none"}
        BY <1>0, <2>0 DEF Stored, ItemRecords
      <3>. QED BY <2>0, <2>1, <3>1
    <2>8. \A c \in Batches : batch[c].targets \subseteq Runs
      BY <1>0 DEF BatchRecords
    <2>9. Stays /\ (faults' \in 0..MaxFaults => Stored')
      BY <1>0, <2>1, <2>2, <2>3, <2>4, <2>5, <2>6, <2>7, <2>8 DEF Stored, Stays
    <2>. QED BY <2>0, <2>1, <2>9, LaunchType
  <1>4. CASE Retry
    <2>1. PICK b \in Batches :
            /\ batch[b].approved /\ batch' = [batch EXCEPT ![b].status = "applying"]
            /\ item' = [item EXCEPT ![b] = [r \in Runs |-> IF item[b][r].status = "verification_required"
                                       THEN [item[b][r] EXCEPT !.status = "applying"] ELSE item[b][r]]]
            /\ Launch(b)
            /\ UNCHANGED <<live, prep, page, approved, kept, edits>>
      BY <1>4 DEF Retry
    <2>a. item' = [item EXCEPT ![b] = [r \in Runs |-> IF r \in {s \in Runs : item[b][s].status = "verification_required"}
                                       THEN [item[b][r] EXCEPT !.status = "applying"] ELSE item[b][r]]]
      BY <2>1
    <2>2. /\ item' \in [Batches -> [Runs -> ItemRecords]]
          /\ \A c \in Batches, r \in Runs : item'[c][r].after = item[c][r].after
      BY <1>0, <2>a, ItemStatus, ZenonT(30)
    <2>. DEFINE n == [batch[b] EXCEPT !.status = "applying"]
    <2>3. n \in BatchRecords /\ n.targets = batch[b].targets /\ n.approved = batch[b].approved
          /\ n.status = "applying"
      BY <1>0 DEF BatchRecords
    <2>4. batch' = [batch EXCEPT ![b] = n]
      BY <2>1
    <2>. HIDE DEF n
    <2>5. /\ batch' \in [Batches -> BatchRecords] /\ batch'[b] = n
          /\ \A c \in Batches : c # b => batch'[c] = batch[c]
      BY <1>0, <2>3, <2>4 DEF Stored
    <2>6. \A c \in Batches : batch[c].targets \subseteq Runs
      BY <1>0 DEF BatchRecords
    <2>7. Stays /\ (faults' \in 0..MaxFaults => Stored')
      BY <1>0, <2>1, <2>2, <2>3, <2>5, <2>6 DEF Stored, Stays
    <2>. QED BY <2>1, <2>7, LaunchType
  <1>. QED BY <1>1, <1>2, <1>3, <1>4

(* What others do in the shops keeps the types. *)
LEMMA OtherEditType ==
    ASSUME TypeInv, OtherEdit
    PROVE  TypeInv'
  <1>0. Stored
    BY DEF TypeInv
  <1>1. /\ edits < MaxEdits /\ edits' = edits + 1
        /\ UNCHANGED <<batch, item, prep, apply, page, approved, faults>>
    BY DEF OtherEdit
  <1>2. PICK r \in Edited :
         \/ \E s \in Sides :
              /\ live' = [live EXCEPT ![r].copy[s] = "foreign"]
              /\ kept' \in {kept, kept \cup {<<r, s>>}}
         \/ \E shape \in {"changed", "gone"} :
              live' = [live EXCEPT ![r].shape = shape] /\ kept' = kept
    BY DEF OtherEdit
  <1>3. r \in Runs /\ live[r] \in Listings
    BY <1>0 DEF Stored
  <1>4. \A s \in Sides : [live EXCEPT ![r].copy[s] = "foreign"] \in [Runs -> Listings]
    <2>. TAKE s \in Sides
    <2>1. [live[r].copy EXCEPT ![s] = "foreign"] \in [Sides -> Copy]
      BY <1>3 DEF Listings, Copy
    <2>2. [live[r] EXCEPT !.copy = [live[r].copy EXCEPT ![s] = "foreign"]] \in Listings
      BY <1>3, <2>1 DEF Listings
    <2>. QED BY <1>0, <2>2 DEF Stored
  <1>5. \A shape \in {"changed", "gone"} : [live EXCEPT ![r].shape = shape] \in [Runs -> Listings]
    <2>. TAKE shape \in {"changed", "gone"}
    <2>1. [live[r] EXCEPT !.shape = shape] \in Listings
      BY <1>3 DEF Listings
    <2>. QED BY <1>0, <2>1 DEF Stored
  <1>a. kept \subseteq Runs \X Sides
    BY <1>0 DEF Stored
  <1>6. live' \in [Runs -> Listings] /\ kept' \subseteq Runs \X Sides
    <2>1. CASE \E s \in Sides :
              /\ live' = [live EXCEPT ![r].copy[s] = "foreign"]
              /\ kept' \in {kept, kept \cup {<<r, s>>}}
      BY <1>3, <1>4, <1>a, <2>1
    <2>2. CASE \E shape \in {"changed", "gone"} :
              live' = [live EXCEPT ![r].shape = shape] /\ kept' = kept
      BY <1>5, <1>a, <2>2
    <2>. QED BY <1>2, <2>1, <2>2
  <1>7. edits' \in 0..MaxEdits
    BY <1>0, <1>1 DEF Stored
  <1>8. Stored' /\ Stays
    BY <1>0, <1>1, <1>6, <1>7 DEF Stored, Stays
  <1>. QED BY <1>1, <1>8, IdleStep

(* The initial states are well typed. *)
LEMMA InitType == Init => TypeInv
  <1>. SUFFICES ASSUME Init PROVE TypeInv
    OBVIOUS
  <1>0. /\ Idle \in Processes(PrepSteps) /\ Idle \in Processes(ApplySteps) /\ Idle.at = "idle"
        /\ {MaxBatches, MaxVersion, MaxTries} \subseteq Nat \ {0} /\ MaxFaults \in Nat /\ MaxEdits \in Nat
    BY IdleType DEF PrepSteps, ApplySteps
  <1>1. NoTexts \in [Runs -> Texts \cup {"none"}] /\ NewItem \in ItemRecords
    BY DEF NoTexts, NewItem, ItemRecords
  <1>2. PrepHolds(Idle) /\ ApplyHolds(Idle)
    BY <1>0 DEF PrepHolds, ApplyHolds, Preparing, Drafting, Stepping, ItemSteps
  <1>3. prep \in [Preparers -> Processes(PrepSteps)] /\ apply \in [Appliers -> Processes(ApplySteps)]
        /\ (\A p \in Preparers : PrepHolds(prep[p])) /\ \A a \in Appliers : ApplyHolds(apply[a])
    BY <1>0, <1>2 DEF Init
  <1>4. /\ batch \in [Batches -> BatchRecords]
        /\ \A b \in Batches : ~batch[b].approved
    BY <1>0, <1>1 DEF Init, BatchRecords
  <1>5. live \in [Runs -> Listings]
    BY DEF Init, Listings, Copy
  <1>6. page \in [batch : 0..MaxBatches, version : 1..MaxVersion,
                 digest : [Runs -> Texts \cup {"none"}], texts : [Runs -> Texts \cup {"none"}]]
    BY <1>0, <1>1 DEF Init, Closed
  <1>a. /\ item \in [Batches -> [Runs -> ItemRecords]]
        /\ approved \in [Batches -> [Runs -> Texts \cup {"none"}]]
        /\ kept \subseteq Runs \X Sides
    BY <1>1 DEF Init
  <1>b. faults \in 0..MaxFaults /\ edits \in 0..MaxEdits
    BY <1>0 DEF Init
  <1>7. Stored
    BY <1>4, <1>5, <1>6, <1>a, <1>b DEF Stored
  <1>. QED BY <1>3, <1>7 DEF TypeInv

(* Every step, stuttering included, keeps the state well typed. *)
LEMMA NextType == TypeInv /\ [Next]_vars => TypeInv'
  <1>. SUFFICES ASSUME TypeInv, [Next]_vars PROVE TypeInv'
    OBVIOUS
  <1>1. CASE Next
    BY <1>1, PreparationType, OperatorType, ApplicationType, OtherEditType DEF Next, Preparation, Application
  <1>2. CASE UNCHANGED vars
    <2>1. Stored' /\ Stays
      BY <1>2 DEF vars, TypeInv, Stored, Stays
    <2>. QED BY <1>2, <2>1, IdleStep DEF vars
  <1>. QED BY <1>1, <1>2

(* Batches, items, shops, processes and the page hold what the code can name, *)
(* whether or not the operator waits for the processes at work.               *)
THEOREM TypeCorrect == Spec => []TypeOK
  BY InitType, NextType, TypeInvType, PTL DEF Spec

-----------------------------------------------------------------------------
(* Facts about the invariant *)

(* Unfinished batches share no run. *)
LEMMA Disjoint ==
    ASSUME Succession, NEW b \in Batches, NEW c \in Batches, NEW r,
           r \in batch[b].targets, r \in batch[c].targets,
           batch[b].status \in Unfinished, batch[c].status \in Unfinished
    PROVE  b = c
  <1>1. b < c \/ c < b \/ b = c
    BY DEF Batches
  <1>. QED BY <1>1 DEF Succession, Unfinished

(* The effective text is that of an unfinished batch which has applied one. *)
LEMMA EffectiveLast ==
    ASSUME Succession, Reviewed, NEW b \in Batches, NEW r \in Runs,
           r \in batch[b].targets, batch[b].status \in Unfinished, item[b][r].status = "applied"
    PROVE  Effective(r) = item[b][r].after
  <1>. DEFINE done == {c \in Batches : item[c][r].status = "applied"}
  <1>1. done \subseteq Batches /\ b \in done
    OBVIOUS
  <1>2. \A c \in done : r \in batch[c].targets
    BY DEF Reviewed
  <1>3. \A c \in done : ~ (b < c)
    BY <1>1, <1>2 DEF Succession, Unfinished
  <1>4. Effective(r) = item[Max(done)][r].after
    BY <1>1 DEF Effective
  <1>. HIDE DEF done
  <1>5. Max(done) \in done /\ b <= Max(done)
    BY <1>1, LastBatch
  <1>6. Max(done) = b
    <2>a. \A c \in Batches : c \in Nat
      BY DEF Batches
    <2>1. b \in Nat /\ Max(done) \in Nat
      BY <1>1, <1>5, <2>a
    <2>. QED BY <1>3, <1>5, <2>1
  <1>. QED BY <1>4, <1>6

(* The effective text stays while no item is applied and no applied one edited. *)
LEMMA EffectiveSame ==
    ASSUME NEW r \in Runs,
           \A b \in Batches : /\ (item[b][r].status = "applied") <=> (item'[b][r].status = "applied")
                              /\ item[b][r].status = "applied" => item'[b][r].after = item[b][r].after
    PROVE  Effective(r)' = Effective(r)
  <1>. DEFINE done == {c \in Batches : item[c][r].status = "applied"}
  <1>1. done' = done
    OBVIOUS
  <1>2. CASE done = {}
    BY <1>1, <1>2 DEF Effective
  <1>3. CASE done # {}
    <2>1. Max(done) \in done
      <3>1. done \subseteq Batches
        OBVIOUS
      <3>. HIDE DEF done
      <3>. QED BY <1>3, <3>1, LastBatch
    <2>2. item'[Max(done)][r].after = item[Max(done)][r].after
      BY <2>1
    <2>3. Effective(r) = item[Max(done)][r].after
      BY <1>3 DEF Effective
    <2>4. Effective(r)' = item'[Max(done')][r].after
      BY <1>1, <1>3 DEF Effective
    <2>. HIDE DEF done
    <2>. QED BY <1>1, <2>2, <2>3, <2>4
  <1>. QED BY <1>2, <1>3

(* A step that keeps a run open, or leaves its effective text and its        *)
(* listing but for what others write, keeps EffectiveIsLive.                 *)
LEMMA EffectiveKept ==
    ASSUME EffectiveIsLive,
           \A r \in Runs, s \in Sides :
              \/ Open(r)'
              \/ /\ ~Open(r) /\ Effective(r)' = Effective(r)
                 /\ live'[r].copy[s] \in {live[r].copy[s], "foreign"}
    PROVE  EffectiveIsLive'
  BY DEF EffectiveIsLive

(* A run of an open batch is open; it is after a step that leaves its batch so. *)
LEMMA StaysOpen ==
    ASSUME NEW r, Open(r),
           \A b \in Batches : batch[b].status \in {"applying", "verification_required"} =>
                /\ batch'[b].status \in {"applying", "verification_required"}
                /\ batch'[b].targets = batch[b].targets
    PROVE  Open(r)'
  BY DEF Open

(* A preparation moves on. *)
LEMMA PreparationMoves ==
    ASSUME OnePreparation, NEW p \in Preparers, NEW q, prep' = [prep EXCEPT ![p] = q], prep \in [Preparers -> Processes(PrepSteps)],
           prep[p].at # "idle" \/ \A r \in Preparers : prep[r].at = "idle",
           q.at \in Preparing => batch'[q.batch].status = "preparing" /\ q.todo \subseteq batch'[q.batch].targets,
           q.at \in Drafting => q.run \in q.todo,
           q.at = "choose" => q.todo \in {Runs} \cup {{r} : r \in Runs}
    PROVE  OnePreparation'
  <1>1. \A r \in Preparers : r # p => prep'[r] = prep[r] /\ prep[r].at = "idle"
    BY DEF OnePreparation
  <1>2. prep'[p] = q
    OBVIOUS
  <1>. QED BY <1>1, <1>2 DEF OnePreparation, Preparing, Drafting

(* Nobody else changes a batch that is being prepared. *)
LEMMA PreparationSame ==
    ASSUME TypeInv, OnePreparation, prep' = prep,
           \A b \in Batches : batch[b].status = "preparing" =>
                batch'[b].status = "preparing" /\ batch'[b].targets = batch[b].targets
    PROVE  OnePreparation'
  <1>1. \A p \in Preparers : prep[p].at \in Preparing => prep[p].batch \in Batches
    BY DEF TypeInv, PrepHolds
  <1>. QED BY <1>1 DEF OnePreparation

(* What a step of somebody else leaves of an application's batch and item. *)
Undisturbed(a) ==
    LET b == apply[a].batch  r == apply[a].run IN
      apply[a].at # "idle" =>
        /\ batch'[b].status = batch[b].status /\ item'[b] = item[b]
        /\ apply[a].at \in Writing => \A s \in Sides : <<r, s>> \in kept' => <<r, s>> \in kept
        /\ apply[a].at = "commit" => \A s \in Sides : live'[r].copy[s] \in {live[r].copy[s], "foreign"}

(* An application that does not move still agrees with its item while that is undisturbed. *)
LEMMA UndisturbedAgrees ==
    ASSUME NEW a \in Appliers, Agrees(apply[a]), apply'[a] = apply[a], Undisturbed(a)
    PROVE  Agrees(apply[a])'
  <1>1. apply[a].at \in Stepping \/ apply[a].at \in ItemSteps \/ apply[a].at \in Writing \/ apply[a].at = "commit"
            => apply[a].at # "idle"
    BY DEF Stepping, Writing, ItemSteps
  <1>. QED BY <1>1 DEF Agrees, Undisturbed

(* When one application moves, the others keep their own batches and what they know
   if it leaves them undisturbed and its own batch is nobody else's. *)
LEMMA ApplicationMoves ==
    ASSUME OwnApplication, NEW a \in Appliers,
           \A b \in Appliers : b # a => apply'[b] = apply[b] /\ Undisturbed(b),
           \/ apply'[a].at = "idle"
           \/ \A b \in Appliers : b # a /\ apply[b].at # "idle" => apply[b].batch # apply'[a].batch,
           Agrees(apply[a])'
    PROVE  OwnApplication'
  <1>1. \A b \in Appliers : Agrees(apply[b])'
    BY UndisturbedAgrees DEF OwnApplication
  <1>2. \A b, c \in Appliers : b # c /\ apply'[b].at # "idle" /\ apply'[c].at # "idle" =>
            apply'[b].batch # apply'[c].batch
    BY DEF OwnApplication
  <1>. QED BY <1>1, <1>2 DEF OwnApplication

(* The same when no application moves. *)
LEMMA ApplicationSame ==
    ASSUME OwnApplication, apply' = apply, \A a \in Appliers : Undisturbed(a)
    PROVE  OwnApplication'
  <1>1. \A b \in Appliers : Agrees(apply[b])'
    BY UndisturbedAgrees DEF OwnApplication
  <1>. QED BY <1>1 DEF OwnApplication

(* The run that an application works on is one of its batch, which nobody    *)
(* else has in an unfinished one.                                            *)
LEMMA WorksOn ==
    ASSUME TypeInv, OwnApplication, NEW a \in Appliers, apply[a].at # "idle"
    PROVE  /\ apply[a].batch \in Batches /\ batch[apply[a].batch].status = "applying"
           /\ apply[a].at \in Stepping => apply[a].todo \subseteq batch[apply[a].batch].targets
           /\ apply[a].at \in ItemSteps => apply[a].run \in batch[apply[a].batch].targets
                                           /\ apply[a].run \in apply[a].todo /\ apply[a].run \in Runs
                                           /\ apply[a].source.after \in Texts
                                           /\ item[apply[a].batch][apply[a].run].status # "applied"
  <1>1. ApplyHolds(apply[a]) /\ Agrees(apply[a]) /\ apply[a] \in Processes(ApplySteps)
    BY DEF TypeInv, OwnApplication
  <1>2. apply[a].todo \subseteq Runs
    BY <1>1 DEF Processes
  <1>. QED BY <1>1, <1>2 DEF ApplyHolds, Agrees, Stepping, ItemSteps

(* A step that changes nothing but preparations, or nothing but applications. *)
LEMMA PreparationOnly ==
    ASSUME RefreshInv, OnePreparation',
           UNCHANGED <<batch, item, live, apply, page, approved, kept>>
    PROVE  RefreshInv'
  <1>1. Succession' /\ Reviewed'
    BY DEF RefreshInv, Succession, Reviewed, Digest
  <1>2. Shops' /\ AppliedAsApproved' /\ OthersAreRespected'
    BY DEF RefreshInv, Shops, AppliedAsApproved, OthersAreRespected
  <1>3. \A r \in Runs : (Open(r)' <=> Open(r)) /\ Effective(r)' = Effective(r)
    BY DEF Open, Effective
  <1>4. EffectiveIsLive'
    BY <1>3 DEF RefreshInv, EffectiveIsLive
  <1>5. OwnApplication'
    BY DEF RefreshInv, OwnApplication, Agrees
  <1>. QED BY <1>1, <1>2, <1>4, <1>5 DEF RefreshInv

(* A step of an application that changes nothing but its own state. *)
LEMMA ApplicationOnly ==
    ASSUME RefreshInv, OwnApplication',
           UNCHANGED <<batch, item, live, prep, page, approved, kept>>
    PROVE  RefreshInv'
  <1>1. Succession' /\ Reviewed'
    BY DEF RefreshInv, Succession, Reviewed, Digest
  <1>2. Shops' /\ AppliedAsApproved' /\ OthersAreRespected'
    BY DEF RefreshInv, Shops, AppliedAsApproved, OthersAreRespected
  <1>3. \A r \in Runs : (Open(r)' <=> Open(r)) /\ Effective(r)' = Effective(r)
    BY DEF Open, Effective
  <1>4. EffectiveIsLive'
    BY <1>3 DEF RefreshInv, EffectiveIsLive
  <1>5. OnePreparation'
    BY DEF RefreshInv, OnePreparation
  <1>. QED BY <1>1, <1>2, <1>4, <1>5 DEF RefreshInv

(* Others are undisturbed by a step that changes no record they read. *)
LEMMA Undisturbing ==
    ASSUME UNCHANGED <<batch, item, live, kept>>, NEW a \in Appliers
    PROVE  Undisturbed(a)
  BY DEF Undisturbed

-----------------------------------------------------------------------------
(* Every step of a preparation keeps the invariant *)

(* Writing an item of the batch that is being prepared. *)
LEMMA PreparingItem ==
    ASSUME TypeInv, RefreshInv, OnePreparation', NEW b \in Batches, batch[b].status = "preparing",
           NEW r \in batch[b].targets, NEW i, i.status # "applied",
           item' = [item EXCEPT ![b][r] = i], kept' \subseteq kept,
           \A s \in Sides : i.before[s] = "foreign" => <<r, s>> \notin kept',
           UNCHANGED <<batch, live, apply, page, approved>>,
           i.before = item[b][r].before \/ i.before \in [Sides -> Copy]
    PROVE  RefreshInv'
  <1>0. /\ Succession /\ Reviewed /\ OwnApplication /\ Shops /\ Stored /\ ~batch[b].approved
        /\ r \in Runs /\ item \in [Batches -> [Runs -> ItemRecords]]
    BY DEF RefreshInv, Reviewed, TypeInv, Stored, BatchRecords
  <1>1. /\ \A c \in Batches : c # b => item'[c] = item[c]
        /\ \A s \in Runs : item'[b][s] = IF s = r THEN i ELSE item[b][s]
    <2>1. item[b] \in [Runs -> ItemRecords]
      BY <1>0
    <2>. QED BY <1>0, <2>1
  <1>2. \A s \in Runs : item[b][s].status # "applied" /\ item'[b][s].status # "applied"
    BY <1>0, <1>1 DEF Reviewed
  <1>3. Succession'
    BY <1>0, <1>1 DEF Succession
  <1>4. Reviewed'
    <2>1. \A c \in Batches : c # b => (/\ batch[c].approved => \A s \in batch[c].targets : item'[c][s].after = approved[c][s]
                                      /\ batch[c].status = "pending_review" =>
                                            batch[c].digest = Digest(item'[c], batch[c].targets))
      BY <1>0, <1>1 DEF Reviewed
    <2>2. \A c \in Batches, s \in Runs : item'[c][s].status = "applied" => batch[c].approved /\ s \in batch[c].targets
      BY <1>0, <1>1, <1>2 DEF Reviewed
    <2>. QED BY <1>0, <2>1, <2>2 DEF Reviewed, Digest
  <1>5. OwnApplication'
    <2>1. \A a \in Appliers : Undisturbed(a)
      <3>. TAKE a \in Appliers
      <3>. SUFFICES ASSUME apply[a].at # "idle" PROVE Undisturbed(a)
        BY DEF Undisturbed
      <3>1. apply[a].batch \in Batches /\ batch[apply[a].batch].status = "applying"
        BY <1>0, WorksOn
      <3>2. apply[a].batch # b
        BY <3>1
      <3>. QED BY <1>1, <3>1, <3>2 DEF Undisturbed
    <2>. QED BY <1>0, <2>1, ApplicationSame
  <1>6. Shops'
    <2>. SUFFICES ASSUME NEW c \in Batches, batch[c].status \in Unfinished, NEW t \in batch[c].targets, NEW s \in Sides
                  PROVE  /\ item'[c][t].status = "applied" => live[t].copy[s] \in {item'[c][t].after, "foreign"}
                         /\ item'[c][t].before[s] = "foreign" => <<t, s>> \notin kept'
      BY DEF Shops
    <2>0. t \in Runs
      BY <1>0 DEF Stored, BatchRecords
    <2>1. CASE c # b \/ t # r
      BY <1>0, <1>1, <2>0, <2>1 DEF Shops
    <2>2. CASE c = b /\ t = r
      BY <1>1, <2>0, <2>2
    <2>. QED BY <2>1, <2>2
  <1>7. AppliedAsApproved' /\ OthersAreRespected'
    BY DEF RefreshInv, AppliedAsApproved, OthersAreRespected
  <1>8. EffectiveIsLive'
    <2>1. \A s \in Runs : Effective(s)' = Effective(s)
      <3>. TAKE s \in Runs
      <3>1. \A c \in Batches : /\ (item[c][s].status = "applied") <=> (item'[c][s].status = "applied")
                               /\ item[c][s].status = "applied" => item'[c][s].after = item[c][s].after
        BY <1>1, <1>2
      <3>. QED BY <3>1, EffectiveSame
    <2>2. \A s \in Runs : Open(s)' <=> Open(s)
      BY DEF Open
    <2>. QED BY <2>1, <2>2 DEF RefreshInv, EffectiveIsLive
  <1>. QED BY <1>3, <1>4, <1>5, <1>6, <1>7, <1>8 DEF RefreshInv

(* A new batch, of runs that no unfinished one has. *)
LEMMA NewBatch ==
    ASSUME TypeInv, RefreshInv, OnePreparation', NEW b \in Batches, batch[b].status = "absent",
           \A c \in Batches : c < b => batch[c].status # "absent",
           NEW runs \in SUBSET Runs,
           \A c \in Batches : batch[c].targets \cap runs # {} => batch[c].status \notin Unfinished,
           batch' = [batch EXCEPT ![b].status = "preparing", ![b].targets = runs],
           UNCHANGED <<item, live, apply, page, approved, kept>>
    PROVE  RefreshInv'
  <1>0. /\ Succession /\ Reviewed /\ OwnApplication /\ Shops /\ Stored /\ ~batch[b].approved
        /\ item[b] = [r \in Runs |-> NewItem] /\ batch[b] \in BatchRecords
    BY DEF RefreshInv, Reviewed, TypeInv, Stored, Succession
  <1>1. /\ \A c \in Batches : c # b => batch'[c] = batch[c]
        /\ batch'[b].status = "preparing" /\ batch'[b].targets = runs
        /\ batch'[b].approved = batch[b].approved /\ batch'[b].digest = batch[b].digest
    BY <1>0 DEF Stored, BatchRecords
  <1>2. Succession'
    <2>1. ASSUME NEW c \in Batches, batch'[c].status = "absent"
          PROVE  /\ batch'[c].targets = {} /\ item'[c] = [r \in Runs |-> NewItem]
                 /\ \A d \in Batches : c < d => batch'[d].status = "absent"
      <3>1. c # b /\ batch[c].status = "absent"
        BY <1>1, <2>1
      <3>2. b < c
        <4>1. \A d \in Batches : d \in Nat
          BY DEF Batches
        <4>. QED BY <3>1, <4>1
      <3>3. \A d \in Batches : c < d => d # b
        <4>1. \A d \in Batches : d \in Nat
          BY DEF Batches
        <4>. QED BY <3>2, <4>1
      <3>. QED BY <1>0, <1>1, <3>1, <3>3, ZenonT(30) DEF Succession
    <2>2. ASSUME NEW c \in Batches, NEW d \in Batches, c < d, batch'[c].targets \cap batch'[d].targets # {}
          PROVE  batch'[c].status = "applied"
      <3>1. CASE c # b /\ d # b
        BY <1>0, <1>1, <2>2, <3>1 DEF Succession
      <3>2. CASE d = b
        <4>1. c # b /\ batch[c].targets \cap runs # {} /\ batch[c].status # "absent"
          <5>1. \A e \in Batches : e \in Nat
            BY DEF Batches
          <5>. QED BY <1>1, <2>2, <3>2, <5>1
        <4>3. batch[c].status = "applied"
          <5>1. batch[c] \in BatchRecords
            BY <1>0 DEF Stored
          <5>. QED BY <4>1, <5>1 DEF BatchRecords, Unfinished
        <4>. QED BY <1>1, <4>1, <4>3
      <3>3. CASE c = b
        <4>1. batch[d].status = "absent" /\ batch[d].targets = {}
          BY <1>0, <2>2, <3>3 DEF Succession
        <4>2. d # b
          <5>1. \A e \in Batches : e \in Nat
            BY DEF Batches
          <5>. QED BY <2>2, <3>3, <5>1
        <4>. QED BY <1>1, <2>2, <4>1, <4>2
      <3>. QED BY <3>1, <3>2, <3>3
    <2>. QED BY <2>1, <2>2 DEF Succession
  <1>3. Reviewed'
    <2>1. \A c \in Batches : batch'[c].approved <=> batch'[c].status \notin {"absent", "preparing", "pending_review"}
      BY <1>0, <1>1 DEF Reviewed
    <2>2. \A c \in Batches : IF batch'[c].approved
                             THEN \A r \in batch'[c].targets : item[c][r].after = approved[c][r]
                             ELSE approved[c] = NoTexts
      BY <1>0, <1>1 DEF Reviewed
    <2>3. ASSUME NEW c \in Batches, batch'[c].status = "pending_review"
          PROVE  batch'[c].digest = Digest(item'[c], batch'[c].targets)
      <3>1. c # b /\ batch'[c] = batch[c] /\ item'[c] = item[c]
        BY <1>1, <2>3
      <3>2. batch[c].digest = Digest(item[c], batch[c].targets)
        BY <1>0, <2>3, <3>1 DEF Reviewed
      <3>. QED BY <3>1, <3>2
    <2>4. \A c \in Batches, r \in Runs : item[c][r].status = "applied" =>
                batch'[c].approved /\ r \in batch'[c].targets
      BY <1>0, <1>1 DEF Reviewed
    <2>5. page.batch # 0 => page.texts = page.digest
      BY <1>0 DEF Reviewed
    <2>. QED BY <2>1, <2>2, <2>3, <2>4, <2>5 DEF Reviewed, Digest, NoTexts
  <1>4. OwnApplication'
    <2>1. \A a \in Appliers : Undisturbed(a)
      <3>. TAKE a \in Appliers
      <3>. SUFFICES ASSUME apply[a].at # "idle" PROVE Undisturbed(a)
        BY DEF Undisturbed
      <3>1. apply[a].batch \in Batches /\ apply[a].batch # b
        BY <1>0, WorksOn
      <3>. QED BY <1>1, <3>1 DEF Undisturbed
    <2>. QED BY <1>0, <2>1, ApplicationSame
  <1>5. Shops'
    <2>. SUFFICES ASSUME NEW c \in Batches, batch'[c].status \in Unfinished, NEW t \in batch'[c].targets, NEW s \in Sides
                  PROVE  /\ item[c][t].status = "applied" => live[t].copy[s] \in {item[c][t].after, "foreign"}
                         /\ item[c][t].before[s] = "foreign" => <<t, s>> \notin kept
      BY DEF Shops
    <2>1. CASE c # b
      BY <1>0, <1>1, <2>1 DEF Shops
    <2>2. CASE c = b
      BY <1>0, <1>1, <2>2 DEF NewItem
    <2>. QED BY <2>1, <2>2
  <1>6. AppliedAsApproved' /\ OthersAreRespected'
    BY DEF RefreshInv, AppliedAsApproved, OthersAreRespected
  <1>7. EffectiveIsLive'
    <2>1. \A s \in Runs : Effective(s)' = Effective(s)
      BY DEF Effective
    <2>2. \A s \in Runs : Open(s)' <=> Open(s)
      BY <1>1 DEF Open
    <2>. QED BY <2>1, <2>2 DEF RefreshInv, EffectiveIsLive
  <1>. QED BY <1>2, <1>3, <1>4, <1>5, <1>6, <1>7 DEF RefreshInv

(* The prepared batch is ready for review. *)
LEMMA Completing ==
    ASSUME TypeInv, RefreshInv, OnePreparation', NEW b \in Batches, batch[b].status = "preparing",
           batch' = [batch EXCEPT ![b] = [@ EXCEPT !.digest = Digest(item[b], batch[b].targets),
                                                   !.status = "pending_review"]],
           UNCHANGED <<item, live, apply, page, approved, kept>>
    PROVE  RefreshInv'
  <1>0. /\ Succession /\ Reviewed /\ OwnApplication /\ Shops /\ Stored /\ ~batch[b].approved
        /\ batch[b] \in BatchRecords
    BY DEF RefreshInv, Reviewed, TypeInv, Stored
  <1>1. /\ \A c \in Batches : c # b => batch'[c] = batch[c]
        /\ batch'[b].status = "pending_review" /\ batch'[b].targets = batch[b].targets
        /\ batch'[b].approved = batch[b].approved /\ batch'[b].digest = Digest(item[b], batch[b].targets)
    BY <1>0 DEF Stored, BatchRecords
  <1>2. Succession'
    <2>1. \A c \in Batches : /\ batch'[c].targets = batch[c].targets
                             /\ (batch'[c].status = "absent") <=> (batch[c].status = "absent")
                             /\ batch[c].status = "applied" => batch'[c].status = "applied"
      BY <1>1
    <2>. QED BY <1>0, <2>1 DEF Succession
  <1>3. Reviewed'
    BY <1>0, <1>1 DEF Reviewed, Digest
  <1>4. OwnApplication'
    <2>1. \A a \in Appliers : Undisturbed(a)
      <3>. TAKE a \in Appliers
      <3>. SUFFICES ASSUME apply[a].at # "idle" PROVE Undisturbed(a)
        BY DEF Undisturbed
      <3>1. apply[a].batch \in Batches /\ apply[a].batch # b
        BY <1>0, WorksOn
      <3>. QED BY <1>1, <3>1 DEF Undisturbed
    <2>. QED BY <1>0, <2>1, ApplicationSame
  <1>5. Shops'
    <2>1. \A c \in Batches : /\ batch'[c].targets = batch[c].targets
                             /\ batch'[c].status \in Unfinished => batch[c].status \in Unfinished
      BY <1>1 DEF Unfinished
    <2>. QED BY <1>0, <2>1 DEF Shops
  <1>6. AppliedAsApproved' /\ OthersAreRespected'
    BY DEF RefreshInv, AppliedAsApproved, OthersAreRespected
  <1>7. EffectiveIsLive'
    <2>1. \A s \in Runs : Effective(s)' = Effective(s)
      BY DEF Effective
    <2>2. \A s \in Runs : Open(s)' <=> Open(s)
      BY <1>1 DEF Open
    <2>. QED BY <2>1, <2>2 DEF RefreshInv, EffectiveIsLive
  <1>. QED BY <1>2, <1>3, <1>4, <1>5, <1>6, <1>7 DEF RefreshInv

(* Every step of a preparation keeps the invariant: only one is at work, on a   *)
(* batch that nobody has reviewed.                                           *)
LEMMA PreparationKeeps ==
    ASSUME TypeInv, RefreshInv, Patient, NEW p \in Preparers, Preparation(p)
    PROVE  RefreshInv'
  <1>. DEFINE me == prep[p]
              b == me.batch
  <1>0. /\ OnePreparation /\ Succession /\ Reviewed /\ Stored /\ prep \in [Preparers -> Processes(PrepSteps)]
        /\ me \in Processes(PrepSteps) /\ PrepHolds(me) /\ Idle \in Processes(PrepSteps) /\ Idle.at = "idle"
    BY IdleType DEF RefreshInv, TypeInv, PrepSteps
  <1>r. /\ me.at \in Preparing => /\ b \in Batches /\ batch[b].status = "preparing"
                                  /\ me.todo \subseteq batch[b].targets
        /\ me.at \in Drafting => me.run \in me.todo /\ me.run \in batch[b].targets
    BY <1>0 DEF OnePreparation, PrepHolds, Preparing, Drafting
  <1>e. ASSUME NEW q, prep' = [prep EXCEPT ![p] = q], batch' = batch, me.at # "idle",
               \/ q.at \in {"idle", "load", "again"}
               \/ q.at = "choose" /\ q.todo \in {Runs} \cup {{r} : r \in Runs}
        PROVE  OnePreparation'
    BY <1>0, <1>e, PreparationMoves DEF Preparing, Drafting
  <1>1. CASE Prepare(p)
    <2>1. PICK scope \in {Runs} \cup {{r} : r \in Runs} :
            prep' = [prep EXCEPT ![p] = [Idle EXCEPT !.at = "choose", !.todo = scope,
                                           !.tries = IF scope = Runs THEN 1 ELSE MaxTries]]
      BY <1>1 DEF Prepare
    <2>. DEFINE q == [Idle EXCEPT !.at = "choose", !.todo = scope,
                                  !.tries = IF scope = Runs THEN 1 ELSE MaxTries]
    <2>2. UNCHANGED <<batch, item, live, apply, page, approved, kept>> /\ Working = {}
      BY <1>1 DEF Prepare
    <2>3. \A r \in Preparers : prep[r].at = "idle"
      BY <2>2 DEF Working
    <2>4. q.at = "choose" /\ q.todo = scope
      BY <1>0 DEF Processes
    <2>5. prep' = [prep EXCEPT ![p] = q]
      BY <2>1
    <2>. HIDE DEF q
    <2>6. OnePreparation'
      BY <1>0, <2>3, <2>4, <2>5, PreparationMoves DEF Preparing, Drafting
    <2>. QED BY <2>2, <2>6, PreparationOnly
  <1>2. CASE Choose(p)
    <2>. DEFINE active == Active(me.todo)
                c == IF active # {} THEN Max(active)
                     ELSE Min({d \in Batches : batch[d].status = "absent"} \cup {MaxBatches + 1})
                q == [me EXCEPT !.at = "load", !.batch = c]
    <2>1. /\ me.at = "choose" /\ c \in Batches /\ prep' = [prep EXCEPT ![p] = q]
          /\ batch' = IF active # {} THEN batch
                      ELSE [batch EXCEPT ![c].status = "preparing", ![c].targets = me.todo]
          /\ UNCHANGED <<item, live, apply, page, approved, kept>>
      BY <1>2 DEF Choose
    <2>2. active = {} => batch[c].status = "absent" /\ \A d \in Batches : d < c => batch[d].status # "absent"
      <3>. HIDE DEF active
      <3>. QED BY <2>1, NextBatch
    <2>3. me.todo \subseteq Runs /\ me.todo \in {Runs} \cup {{r} : r \in Runs}
      BY <1>0, <2>1 DEF OnePreparation
    <2>4. active = {} => \A d \in Batches : batch[d].targets \cap me.todo # {} => batch[d].status \notin Unfinished
      BY <2>3 DEF Active
    <2>5. q.at = "load"
      BY <1>0 DEF Processes
    <2>. HIDE DEF active, c, q
    <2>6. OnePreparation'
      BY <1>0, <2>1, <2>5, PreparationMoves DEF Preparing, Drafting
    <2>7. CASE active # {}
      BY <2>1, <2>6, <2>7, PreparationOnly
    <2>8. CASE active = {}
      BY <2>1, <2>2, <2>3, <2>4, <2>6, <2>8, NewBatch
    <2>. QED BY <2>7, <2>8
  <1>3. CASE Load(p)
    <2>. DEFINE t == {r \in batch[b].targets : item[b][r].status # "pending_review"}
                q == [me EXCEPT !.at = "loop", !.todo = t]
    <2>1. /\ me.at = "load" /\ UNCHANGED <<batch, item, live, apply, page, approved, kept>>
          /\ \/ prep' = [prep EXCEPT ![p] = Idle]
             \/ prep' = [prep EXCEPT ![p] = q] /\ batch[b].status = "preparing"
      BY <1>3 DEF Load
    <2>2. t \subseteq batch[b].targets
      OBVIOUS
    <2>. HIDE DEF t
    <2>3. q.at = "loop" /\ q.todo = t /\ q.batch = b
      BY <1>0 DEF Processes
    <2>. HIDE DEF q
    <2>4. CASE prep' = [prep EXCEPT ![p] = Idle]
      BY <1>0, <1>e, <2>1, <2>4, PreparationOnly
    <2>5. CASE prep' = [prep EXCEPT ![p] = q] /\ batch[b].status = "preparing"
      <3>1. OnePreparation'
        BY <1>0, <2>1, <2>2, <2>3, <2>5, PreparationMoves DEF Drafting
      <3>. QED BY <2>1, <3>1, PreparationOnly
    <2>. QED BY <2>1, <2>4, <2>5
  <1>4. CASE Inspect(p)
    <2>1. PICK r \in me.todo :
            prep' = [prep EXCEPT ![p] = [@ EXCEPT !.at = "draft", !.run = r, !.seen = live[r],
                                           !.source = item[b][r]]]
      BY <1>4 DEF Inspect
    <2>. DEFINE q == [me EXCEPT !.at = "draft", !.run = r, !.seen = live[r], !.source = item[b][r]]
    <2>2. me.at = "loop" /\ UNCHANGED <<batch, item, live, apply, page, approved, kept>>
      BY <1>4 DEF Inspect
    <2>3. q.at = "draft" /\ q.batch = b /\ q.run = r /\ q.todo = me.todo
      BY <1>0 DEF Processes
    <2>4. prep' = [prep EXCEPT ![p] = q]
      BY <2>1
    <2>. HIDE DEF q
    <2>5. batch[b].status = "preparing" /\ me.todo \subseteq batch[b].targets
      BY <1>r, <2>2 DEF Preparing
    <2>6. OnePreparation'
      BY <1>0, <2>2, <2>3, <2>4, <2>5, PreparationMoves
    <2>. QED BY <2>2, <2>6, PreparationOnly
  <1>5. CASE Draft(p)
    <2>0. /\ me.at = "draft" /\ b \in Batches /\ batch[b].status = "preparing" /\ me.run \in me.todo
          /\ me.run \in batch[b].targets /\ me.todo \subseteq batch[b].targets
          /\ me.run \in Runs /\ ~batch[b].approved
      BY <1>0, <1>5, <1>r DEF Draft, Preparing, Drafting, Reviewed, PrepHolds
    <2>1. PICK t :
            /\ prep' = [prep EXCEPT ![p] = [@ EXCEPT !.at = "save", !.source.draft = t]]
            /\ item' = [item EXCEPT ![b][me.run].draft = t]
      BY <1>5 DEF Draft
    <2>. DEFINE q == [me EXCEPT !.at = "save", !.source.draft = t]
                i == [item[b][me.run] EXCEPT !.draft = t]
    <2>2. UNCHANGED <<batch, live, apply, page, approved, kept>>
      BY <1>5 DEF Draft
    <2>3. /\ q.at = "save" /\ q.batch = b /\ q.run = me.run /\ q.todo = me.todo
      BY <1>0 DEF Processes
    <2>4. item[b][me.run] \in ItemRecords /\ item[b][me.run].status # "applied"
      BY <1>0, <2>0 DEF Stored, Reviewed
    <2>5. i.before = item[b][me.run].before /\ i.status # "applied"
      BY <2>4 DEF ItemRecords
    <2>6. item' = [item EXCEPT ![b][me.run] = i] /\ prep' = [prep EXCEPT ![p] = q]
      BY <2>1
    <2>. HIDE DEF q, i
    <2>7. OnePreparation'
      BY <1>0, <2>0, <2>2, <2>3, <2>6, PreparationMoves
    <2>8. \A s \in Sides : i.before[s] = "foreign" => <<me.run, s>> \notin kept'
      BY <2>0, <2>2, <2>5 DEF RefreshInv, Shops, Unfinished
    <2>. QED BY <2>0, <2>2, <2>5, <2>6, <2>7, <2>8, PreparingItem
  <1>6. CASE Save(p)
    <2>0. /\ me.at = "save" /\ b \in Batches /\ batch[b].status = "preparing" /\ me.run \in me.todo
          /\ me.run \in batch[b].targets /\ me.todo \subseteq batch[b].targets
          /\ me.run \in Runs /\ me.seen.copy \in [Sides -> Copy]
      BY <1>0, <1>6, <1>r DEF Save, Preparing, Drafting, PrepHolds
    <2>. DEFINE i == [item[b][me.run] EXCEPT !.before = me.seen.copy, !.after = me.source.draft,
                                          !.baseline = me.seen.shape, !.status = "pending_review"]
                q == [Idle EXCEPT !.at = "loop", !.batch = b, !.todo = me.todo \ {me.run}, !.tries = me.tries]
    <2>1. /\ item' = [item EXCEPT ![b][me.run] = i]
          /\ kept' = {k \in kept : k[1] # me.run \/ me.seen.copy[k[2]] # "foreign"}
          /\ prep' = [prep EXCEPT ![p] = q]
          /\ UNCHANGED <<batch, live, apply, page, approved>>
      BY <1>6 DEF Save
    <2>2. item[b][me.run] \in ItemRecords
      BY <1>0, <2>0 DEF Stored
    <2>3. i.before = me.seen.copy /\ i.status # "applied"
      BY <2>2 DEF ItemRecords
    <2>4. q.at = "loop" /\ q.batch = b /\ q.todo = me.todo \ {me.run}
      BY <1>0 DEF Processes
    <2>. HIDE DEF q, i
    <2>5. OnePreparation'
      BY <1>0, <2>0, <2>1, <2>4, PreparationMoves DEF Drafting
    <2>6. kept' \subseteq kept /\ \A s \in Sides : i.before[s] = "foreign" => <<me.run, s>> \notin kept'
      BY <2>1, <2>3
    <2>. QED BY <2>0, <2>1, <2>3, <2>5, <2>6, PreparingItem
  <1>7. CASE Complete(p)
    <2>. DEFINE q == [me EXCEPT !.at = "again"]
    <2>0. me.at = "loop" /\ b \in Batches /\ batch[b].status = "preparing"
      BY <1>7, <1>r DEF Complete, Preparing
    <2>1. /\ UNCHANGED <<item, live, apply, page, approved, kept>>
          /\ \/ /\ batch' = [batch EXCEPT ![b] = [@ EXCEPT !.digest = Digest(item[b], batch[b].targets),
                                                         !.status = "pending_review"]]
                /\ prep' = [prep EXCEPT ![p] = Idle]
             \/ batch' = batch /\ (prep' = [prep EXCEPT ![p] = q] \/ prep' = [prep EXCEPT ![p] = Idle])
      BY <1>7 DEF Complete
    <2>2. q.at = "again"
      BY <1>0 DEF Processes
    <2>. HIDE DEF q
    <2>3. CASE batch' = batch
      <3>1. OnePreparation'
        BY <1>0, <1>e, <2>0, <2>1, <2>2, <2>3
      <3>. QED BY <2>1, <2>3, <3>1, PreparationOnly
    <2>4. CASE /\ batch' = [batch EXCEPT ![b] = [@ EXCEPT !.digest = Digest(item[b], batch[b].targets),
                                                         !.status = "pending_review"]]
               /\ prep' = [prep EXCEPT ![p] = Idle]
      <3>1. OnePreparation'
        BY <1>0, <2>0, <2>4, PreparationMoves DEF Preparing, Drafting
      <3>. QED BY <2>0, <2>1, <2>4, <3>1, Completing
    <2>. QED BY <2>1, <2>3, <2>4
  <1>8. CASE PrepareFails(p)
    <2>. DEFINE q == [me EXCEPT !.at = "again"]
    <2>1. prep' = [prep EXCEPT ![p] = q] \/ prep' = [prep EXCEPT ![p] = Idle]
      BY <1>8 DEF PrepareFails
    <2>2. me.at # "idle" /\ UNCHANGED <<batch, item, live, apply, page, approved, kept>>
      BY <1>8 DEF PrepareFails
    <2>3. q.at = "again"
      BY <1>0 DEF Processes
    <2>. HIDE DEF q
    <2>4. OnePreparation'
      BY <1>0, <1>e, <2>1, <2>2, <2>3
    <2>. QED BY <2>2, <2>4, PreparationOnly
  <1>9. CASE PrepareAgain(p)
    <2>. DEFINE q == [Idle EXCEPT !.at = "choose", !.todo = Runs, !.tries = me.tries + 1]
    <2>1. /\ me.at = "again" /\ prep' = [prep EXCEPT ![p] = q]
          /\ UNCHANGED <<batch, item, live, apply, page, approved, kept>>
      BY <1>9 DEF PrepareAgain
    <2>2. q.at = "choose" /\ q.todo = Runs
      BY <1>0 DEF Processes
    <2>. HIDE DEF q
    <2>3. OnePreparation'
      BY <1>0, <1>e, <2>1, <2>2
    <2>. QED BY <2>1, <2>3, PreparationOnly
  <1>. QED BY <1>1, <1>2, <1>3, <1>4, <1>5, <1>6, <1>7, <1>8, <1>9 DEF Preparation

-----------------------------------------------------------------------------
(* Every step of an application keeps the invariant *)

(* An application that goes on in its batch without writing a record. *)
LEMMA OwnMove ==
    ASSUME TypeInv, RefreshInv, NEW a \in Appliers, apply[a].at # "idle", NEW q,
           apply' = [apply EXCEPT ![a] = q], UNCHANGED <<batch, item, live, prep, page, approved, kept>>,
           q.at = "idle" \/ q.batch = apply[a].batch, Agrees(q)
    PROVE  RefreshInv'
  <1>1. OwnApplication /\ apply'[a] = q /\ \A b \in Appliers : b # a => apply'[b] = apply[b]
    BY DEF RefreshInv, TypeInv
  <1>2. Agrees(apply[a])'
    BY <1>1 DEF Agrees
  <1>3. \A b \in Appliers : b # a /\ apply[b].at # "idle" => apply[b].batch # apply[a].batch
    BY <1>1 DEF OwnApplication
  <1>4. \A b \in Appliers : Undisturbed(b)
    BY Undisturbing
  <1>5. OwnApplication'
    BY <1>1, <1>2, <1>3, <1>4, ApplicationMoves
  <1>. QED BY <1>5, ApplicationOnly

(* Writing the status of an item: nothing but the status changes. *)
LEMMA StatusOnly ==
    ASSUME Stored, NEW b \in Batches, NEW t \in Runs, NEW status,
           item' = [item EXCEPT ![b][t].status = status]
    PROVE  /\ \A c \in Batches : c # b => item'[c] = item[c]
           /\ \A r \in Runs : r # t => item'[b][r] = item[b][r]
           /\ item'[b][t].status = status
           /\ item'[b][t].after = item[b][t].after
           /\ item'[b][t].before = item[b][t].before
  <1>. DEFINE i == [item[b][t] EXCEPT !.status = status]
              n == [item[b] EXCEPT ![t] = i]
  <1>1. item \in [Batches -> [Runs -> ItemRecords]] /\ item[b] \in [Runs -> ItemRecords]
        /\ item[b][t] \in ItemRecords
    BY DEF Stored
  <1>2. i.status = status /\ i.after = item[b][t].after /\ i.before = item[b][t].before
    BY <1>1 DEF ItemRecords
  <1>3. item' = [item EXCEPT ![b] = n]
    OBVIOUS
  <1>4. n[t] = i /\ \A r \in Runs : r # t => n[r] = item[b][r]
    BY <1>1
  <1>. HIDE DEF n
  <1>5. item'[b] = n /\ \A c \in Batches : c # b => item'[c] = item[c]
    BY <1>1, <1>3
  <1>. HIDE DEF i
  <1>. QED BY <1>2, <1>4, <1>5

(* Recording the outcome of an item of an open batch: applied only where the *)
(* shops show its text.                                                      *)
LEMMA OutcomeKeeps ==
    ASSUME TypeInv, RefreshInv, NEW b \in Batches, batch[b].status = "applying",
           NEW t \in batch[b].targets, item[b][t].status # "applied",
           NEW status \in {"applied", "verification_required"},
           status = "applied" => \A s \in Sides : live[t].copy[s] \in {item[b][t].after, "foreign"},
           item' = [item EXCEPT ![b][t].status = status],
           UNCHANGED <<batch, live, prep, page, approved, kept>>, OwnApplication'
    PROVE  RefreshInv'
  <1>0. /\ Succession /\ Reviewed /\ OnePreparation /\ Shops /\ Stored
        /\ batch[b].approved /\ t \in Runs
    BY DEF RefreshInv, Reviewed, TypeInv, Stored, BatchRecords
  <1>1. /\ \A c \in Batches : c # b => item'[c] = item[c]
        /\ \A r \in Runs : r # t => item'[b][r] = item[b][r]
        /\ item'[b][t].status = status
        /\ item'[b][t].after = item[b][t].after
        /\ item'[b][t].before = item[b][t].before
    BY <1>0, StatusOnly
  <1>2. \A c \in Batches, r \in Runs : /\ item'[c][r].after = item[c][r].after
                                       /\ item'[c][r].before = item[c][r].before
                                       /\ c # b \/ r # t => item'[c][r].status = item[c][r].status
    BY <1>1
  <1>3. Succession'
    BY <1>0, <1>1 DEF Succession
  <1>4. Reviewed'
    <2>1. \A c \in Batches : batch[c].targets \subseteq Runs
      BY <1>0 DEF Stored, BatchRecords
    <2>2. ASSUME NEW c \in Batches, batch[c].status = "pending_review"
          PROVE  batch[c].digest = Digest(item'[c], batch[c].targets)
      BY <1>0, <1>1, <2>2 DEF Reviewed
    <2>3. \A c \in Batches : IF batch[c].approved
                             THEN \A r \in batch[c].targets : item'[c][r].after = approved[c][r]
                             ELSE approved[c] = NoTexts
      BY <1>0, <1>2, <2>1 DEF Reviewed
    <2>4. \A c \in Batches, r \in Runs : item'[c][r].status = "applied" => batch[c].approved /\ r \in batch[c].targets
      BY <1>0, <1>2 DEF Reviewed
    <2>. QED BY <1>0, <2>2, <2>3, <2>4 DEF Reviewed, Digest, NoTexts
  <1>5. OnePreparation'
    BY <1>0 DEF OnePreparation
  <1>7. Shops'
    <2>. SUFFICES ASSUME NEW c \in Batches, batch[c].status \in Unfinished, NEW r \in batch[c].targets, NEW s \in Sides
                  PROVE  /\ item'[c][r].status = "applied" => live[r].copy[s] \in {item'[c][r].after, "foreign"}
                         /\ item'[c][r].before[s] = "foreign" => <<r, s>> \notin kept
      BY DEF Shops
    <2>0. r \in Runs
      BY <1>0 DEF Stored, BatchRecords
    <2>1. CASE c # b \/ r # t
      BY <1>0, <1>2, <2>0, <2>1 DEF Shops
    <2>2. CASE c = b /\ r = t
      <3>1. item'[c][r].before[s] = "foreign" => <<r, s>> \notin kept
        BY <1>0, <1>2, <2>0, <2>2 DEF Shops
      <3>. QED BY <1>1, <2>2, <3>1
    <2>. QED BY <2>1, <2>2
  <1>8. AppliedAsApproved' /\ OthersAreRespected'
    BY DEF RefreshInv, AppliedAsApproved, OthersAreRespected
  <1>9. EffectiveIsLive'
    <2>1. \A r \in Runs : Open(r)' <=> Open(r)
      BY DEF Open
    <2>2. Open(t)
      BY <1>0 DEF Open
    <2>3. \A r \in Runs : r # t => Effective(r)' = Effective(r)
      <3>. SUFFICES ASSUME NEW r \in Runs, r # t PROVE Effective(r)' = Effective(r)
        OBVIOUS
      <3>. QED BY <1>2, EffectiveSame
    <2>. QED BY <2>1, <2>2, <2>3 DEF RefreshInv, EffectiveIsLive
  <1>. QED BY <1>3, <1>4, <1>5, <1>7, <1>8, <1>9 DEF RefreshInv

(* An application records the outcome of an item and goes on to the next. *)
LEMMA ItemEnds ==
    ASSUME TypeInv, RefreshInv, NEW a \in Appliers, apply[a].at \in ItemSteps,
           NEW status \in {"applied", "verification_required"}, status = "applied" => apply[a].at = "commit",
           item' = [item EXCEPT ![apply[a].batch][apply[a].run].status = status],
           apply' = [apply EXCEPT ![a] = [Idle EXCEPT !.at = "loop", !.batch = apply[a].batch,
                                            !.tries = apply[a].tries, !.todo = apply[a].todo \ {apply[a].run}]],
           UNCHANGED <<batch, live, prep, page, approved, kept>>
    PROVE  RefreshInv'
  <1>. DEFINE me == apply[a]
              q == [Idle EXCEPT !.at = "loop", !.batch = me.batch, !.tries = me.tries, !.todo = me.todo \ {me.run}]
  <1>0. OwnApplication /\ Stored /\ Agrees(me) /\ me.at # "idle" /\ me.at \in Stepping
    BY DEF RefreshInv, OwnApplication, TypeInv, Stepping, ItemSteps
  <1>1. PICK b \in Batches, t \in Runs : b = me.batch /\ t = me.run
    BY <1>0, WorksOn
  <1>2. /\ t \in batch[b].targets /\ batch[b].status = "applying" /\ item[b][t].status # "applied"
        /\ me.todo \subseteq batch[b].targets
    BY <1>0, <1>1, WorksOn
  <1>3. \A r \in me.todo : r \in Runs /\ item[b][r].status # "applied"
    BY <1>0, <1>1, <1>2 DEF Agrees, Stored, BatchRecords
  <1>4. status = "applied" => \A s \in Sides : live[t].copy[s] \in {item[b][t].after, "foreign"}
    BY <1>0, <1>1 DEF Agrees, ItemSteps
  <1>5. q.at = "loop" /\ q.batch = b /\ q.todo = me.todo \ {t}
    <2>1. Idle \in Processes(ApplySteps)
      BY IdleType DEF ApplySteps
    <2>. QED BY <1>1, <2>1 DEF Processes
  <1>6. apply' = [apply EXCEPT ![a] = q] /\ item' = [item EXCEPT ![b][t].status = status]
    BY <1>1
  <1>. HIDE DEF q
  <1>7. apply'[a] = q /\ \A d \in Appliers : d # a => apply'[d] = apply[d]
    BY <1>6 DEF TypeInv
  <1>8. /\ \A c \in Batches : c # b => item'[c] = item[c]
        /\ \A r \in Runs : r # t => item'[b][r] = item[b][r]
    <2>1. Stored /\ item' = [item EXCEPT ![b][t].status = status]
      BY <1>0, <1>6
    <2>. HIDE DEF me
    <2>. QED BY ONLY <2>1, StatusOnly
  <1>9. Agrees(apply[a])'
    <2>1. \A r \in q.todo : item'[b][r].status # "applied"
      BY <1>3, <1>5, <1>8
    <2>2. batch'[b].status = "applying"
      BY <1>2
    <2>. QED BY <1>5, <1>7, <2>1, <2>2 DEF Agrees, ItemSteps, Writing
  <1>10. ASSUME NEW d \in Appliers, d # a
         PROVE  Undisturbed(d) /\ (apply[d].at # "idle" => apply[d].batch # b)
    <2>1. apply[d].at # "idle" => apply[d].batch \in Batches /\ apply[d].batch # b
      BY <1>0, <1>1, <1>10, WorksOn DEF OwnApplication
    <2>. QED BY <1>8, <2>1 DEF Undisturbed
  <1>11. OwnApplication'
    <2>1. \A d \in Appliers : d # a /\ apply[d].at # "idle" => apply[d].batch # apply'[a].batch
      BY <1>5, <1>7, <1>10
    <2>. HIDE DEF me
    <2>. QED BY <1>0, <1>7, <1>9, <1>10, <2>1, ApplicationMoves
  <1>. QED BY <1>2, <1>4, <1>6, <1>11, OutcomeKeeps

(* Writing the approved text to one side of a listing. *)
LEMMA UpdateKeeps ==
    ASSUME TypeInv, RefreshInv, NEW a \in Appliers, NEW s \in Sides,
           NEW at \in {"confirm_printify", "confirm_etsy"}, Update(a, s, at)
    PROVE  RefreshInv'
  <1>. DEFINE me == apply[a]
              q == [me EXCEPT !.at = at]
  <1>0. /\ OwnApplication /\ Stored /\ Agrees(me) /\ me.at = s /\ me.at # "idle" /\ me.at \in ItemSteps
        /\ me.at \in Stepping /\ me.at \in Writing /\ Succession /\ Reviewed /\ Shops
        /\ me \in Processes(ApplySteps)
    BY DEF RefreshInv, OwnApplication, TypeInv, Update, Sides, Writing, Stepping, ItemSteps
  <1>1. PICK b \in Batches, t \in Runs : b = me.batch /\ t = me.run
    BY <1>0, WorksOn
  <1>2. /\ t \in batch[b].targets /\ batch[b].status = "applying" /\ item[b][t].status # "applied"
        /\ me.todo \subseteq batch[b].targets /\ me.source.after \in Texts /\ t \in me.todo
        /\ me.source.after = item[b][t].after /\ \A e \in Sides : <<t, e>> \notin kept
    BY <1>0, <1>1, WorksOn DEF Agrees
  <1>3. /\ apply' = [apply EXCEPT ![a] = q] /\ UNCHANGED <<batch, item, prep, page, approved, kept>>
        /\ live' \in {live, [live EXCEPT ![t].copy[s] = me.source.after]}
    BY <1>1 DEF Update
  <1>4. /\ q.at = at /\ q.batch = b /\ q.run = t /\ q.todo = me.todo /\ q.source = me.source
    BY <1>0, <1>1 DEF Processes
  <1>. HIDE DEF q
  <1>5. /\ \A r \in Runs : r # t => live'[r] = live[r]
        /\ \A e \in Sides : live'[t].copy[e] \in {live[t].copy[e], me.source.after}
    <2>1. live \in [Runs -> Listings] /\ live[t] \in Listings
      BY <1>0 DEF Stored
    <2>. HIDE DEF me
    <2>. QED BY <1>3, <2>1 DEF Listings
  <1>6. apply'[a] = q /\ \A d \in Appliers : d # a => apply'[d] = apply[d]
    BY <1>3 DEF TypeInv
  <1>7. Agrees(apply[a])'
    <2>1. /\ batch'[b].status = "applying" /\ \A r \in q.todo : item'[b][r].status # "applied"
          /\ q.source.before = item'[b][t].before /\ q.source.after = item'[b][t].after
          /\ \A e \in Sides : <<t, e>> \notin kept'
      BY <1>0, <1>1, <1>2, <1>3, <1>4 DEF Agrees
    <2>. QED BY <1>4, <1>6, <2>1 DEF Agrees
  <1>8. ASSUME NEW d \in Appliers, d # a
        PROVE  Undisturbed(d) /\ (apply[d].at # "idle" => apply[d].batch # b)
    <2>1. apply[d].at # "idle" => /\ apply[d].batch \in Batches /\ apply[d].batch # b
                                  /\ batch[apply[d].batch].status = "applying"
      BY <1>0, <1>1, <1>8, WorksOn DEF OwnApplication
    <2>2. apply[d].at = "commit" => apply[d].run \in Runs /\ apply[d].run # t
      <3>1. SUFFICES ASSUME apply[d].at = "commit" PROVE apply[d].run \in Runs /\ apply[d].run # t
        OBVIOUS
      <3>2. apply[d].run \in Runs /\ apply[d].run \in batch[apply[d].batch].targets
        BY <1>0, <3>1, WorksOn DEF ItemSteps
      <3>. QED BY <1>0, <1>2, <2>1, <3>1, <3>2, Disjoint DEF Unfinished
    <2>. QED BY <1>3, <1>5, <2>1, <2>2 DEF Undisturbed
  <1>9. OwnApplication'
    <2>1. \A d \in Appliers : d # a /\ apply[d].at # "idle" => apply[d].batch # apply'[a].batch
      BY <1>4, <1>6, <1>8
    <2>. HIDE DEF me
    <2>. QED BY <1>0, <1>6, <1>7, <1>8, <2>1, ApplicationMoves
  <1>10. Succession' /\ Reviewed'
    BY <1>0, <1>3 DEF Succession, Reviewed, Digest
  <1>11. OnePreparation'
    BY <1>3 DEF RefreshInv, OnePreparation
  <1>12. Shops'
    <2>. SUFFICES ASSUME NEW c \in Batches, batch[c].status \in Unfinished, NEW r \in batch[c].targets, NEW e \in Sides
                  PROVE  /\ item[c][r].status = "applied" => live'[r].copy[e] \in {item[c][r].after, "foreign"}
                         /\ item[c][r].before[e] = "foreign" => <<r, e>> \notin kept
      BY <1>3 DEF Shops
    <2>1. r \in Runs
      BY <1>0 DEF Stored, BatchRecords
    <2>2. CASE r # t
      BY <1>0, <1>5, <2>1, <2>2 DEF Shops
    <2>3. CASE r = t
      <3>1. c = b
        BY <1>0, <1>2, <2>3, Disjoint DEF Unfinished
      <3>. QED BY <1>2, <2>3, <3>1
    <2>. QED BY <2>2, <2>3
  <1>13. AppliedAsApproved'
    <2>1. me.source.after = approved[b][t]
      BY <1>0, <1>2 DEF Reviewed
    <2>2. AppliedAsApproved
      BY DEF RefreshInv
    <2>. QED BY <1>3, <1>5, <2>1, <2>2 DEF AppliedAsApproved
  <1>14. OthersAreRespected'
    <2>1. \A k \in kept : k[1] \in Runs /\ k[2] \in Sides /\ k = <<k[1], k[2]>>
      BY <1>0 DEF Stored
    <2>2. \A k \in kept : k[1] # t
      BY <1>2, <2>1
    <2>. QED BY <1>3, <1>5, <2>1, <2>2 DEF RefreshInv, OthersAreRespected
  <1>15. EffectiveIsLive'
    <2>1. \A r \in Runs : (Open(r)' <=> Open(r)) /\ Effective(r)' = Effective(r)
      BY <1>3 DEF Open, Effective
    <2>2. Open(t)
      BY <1>2 DEF Open
    <2>. QED BY <1>5, <2>1, <2>2 DEF RefreshInv, EffectiveIsLive
  <1>. QED BY <1>9, <1>10, <1>11, <1>12, <1>13, <1>14, <1>15 DEF RefreshInv

(* The end of an application closes its batch only if all its items are applied. *)
LEMMA ConcludeKeeps ==
    ASSUME TypeInv, RefreshInv, NEW a \in Appliers, Conclude(a)
    PROVE  RefreshInv'
  <1>. DEFINE me == apply[a]
  <1>0. /\ OwnApplication /\ Stored /\ me.at = "loop" /\ me.at # "idle" /\ Succession /\ Reviewed /\ Shops
        /\ Idle.at = "idle"
    BY IdleType DEF RefreshInv, OwnApplication, TypeInv, Conclude, ApplySteps
  <1>1. PICK b \in Batches : b = me.batch /\ batch[b].status = "applying"
    BY <1>0, WorksOn
  <1>2. /\ batch' = [batch EXCEPT ![b].status = Outcome(b)] /\ apply' = [apply EXCEPT ![a] = Idle]
        /\ UNCHANGED <<item, live, prep, page, approved, kept>>
    BY <1>1 DEF Conclude
  <1>3. Outcome(b) \in {"applied", "verification_required"}
        /\ (Outcome(b) = "applied" => \A r \in batch[b].targets : item[b][r].status = "applied")
    BY DEF Outcome
  <1>4. /\ \A c \in Batches : c # b => batch'[c] = batch[c]
        /\ batch'[b].status = Outcome(b) /\ batch'[b].targets = batch[b].targets
        /\ batch'[b].approved = batch[b].approved /\ batch'[b].digest = batch[b].digest
    <2>1. batch[b] \in BatchRecords /\ batch \in [Batches -> BatchRecords]
      BY <1>0 DEF Stored
    <2>. QED BY <1>2, <2>1 DEF BatchRecords
  <1>5. \A c \in Batches : /\ batch'[c].targets = batch[c].targets
                           /\ batch'[c].approved = batch[c].approved
                           /\ batch[c].status = "applied" => batch'[c].status = "applied"
                           /\ (batch'[c].status = "absent") <=> (batch[c].status = "absent")
    BY <1>1, <1>3, <1>4
  <1>6. Succession'
    BY <1>0, <1>2, <1>5 DEF Succession
  <1>7. Reviewed'
    <2>1. ASSUME NEW c \in Batches, batch'[c].status = "pending_review"
          PROVE  batch'[c].digest = Digest(item'[c], batch'[c].targets)
      <3>1. c # b /\ batch'[c] = batch[c] /\ item'[c] = item[c]
        BY <1>2, <1>3, <1>4, <2>1
      <3>2. batch[c].digest = Digest(item[c], batch[c].targets)
        BY <1>0, <2>1, <3>1 DEF Reviewed
      <3>. QED BY <3>1, <3>2
    <2>2. \A c \in Batches : batch'[c].approved <=> batch'[c].status \notin {"absent", "preparing", "pending_review"}
      BY <1>0, <1>1, <1>3, <1>4 DEF Reviewed
    <2>3. \A c \in Batches : IF batch'[c].approved
                             THEN \A r \in batch'[c].targets : item[c][r].after = approved[c][r]
                             ELSE approved[c] = NoTexts
      BY <1>0, <1>5 DEF Reviewed
    <2>4. \A c \in Batches, r \in Runs : item[c][r].status = "applied" => batch'[c].approved /\ r \in batch'[c].targets
      BY <1>0, <1>5 DEF Reviewed
    <2>. QED BY <1>0, <1>2, <2>1, <2>2, <2>3, <2>4 DEF Reviewed, NoTexts, Digest
  <1>8. OnePreparation'
    BY <1>1, <1>2, <1>4, PreparationSame DEF RefreshInv
  <1>9. OwnApplication'
    <2>1. apply'[a] = Idle /\ \A d \in Appliers : d # a => apply'[d] = apply[d]
      BY <1>2 DEF TypeInv
    <2>2. Agrees(apply[a])'
      BY <1>0, <2>1 DEF Agrees, Stepping, Writing, ItemSteps
    <2>3. ASSUME NEW d \in Appliers, d # a
          PROVE  Undisturbed(d)
      <3>1. apply[d].at # "idle" => apply[d].batch \in Batches /\ apply[d].batch # b
        BY <1>0, <1>1, <2>3, WorksOn DEF OwnApplication
      <3>. QED BY <1>2, <1>4, <3>1 DEF Undisturbed
    <2>. HIDE DEF me
    <2>. QED BY <1>0, <2>1, <2>2, <2>3, ApplicationMoves
  <1>10. Shops'
    <2>1. \A c \in Batches : batch'[c].status \in Unfinished => batch[c].status \in Unfinished
      BY <1>1, <1>4 DEF Unfinished
    <2>. QED BY <1>0, <1>2, <1>5, <2>1 DEF Shops
  <1>11. AppliedAsApproved' /\ OthersAreRespected'
    BY <1>2 DEF RefreshInv, AppliedAsApproved, OthersAreRespected
  <1>12. EffectiveIsLive'
    <2>. SUFFICES ASSUME NEW r \in Runs, NEW s \in Sides
                  PROVE  Open(r)' \/ live[r].copy[s] \in {Effective(r), "foreign"}
      BY <1>2 DEF EffectiveIsLive, Effective
    <2>1. CASE r \in batch[b].targets /\ Outcome(b) = "applied"
      <3>1. item[b][r].status = "applied"
        BY <1>3, <2>1
      <3>2. Effective(r) = item[b][r].after
        BY <1>0, <1>1, <2>1, <3>1, EffectiveLast DEF Unfinished
      <3>3. live[r].copy[s] \in {item[b][r].after, "foreign"}
        BY <1>0, <1>1, <2>1, <3>1 DEF Shops, Unfinished
      <3>. QED BY <3>2, <3>3
    <2>2. CASE r \in batch[b].targets /\ Outcome(b) = "verification_required"
      BY <1>4, <2>2 DEF Open
    <2>3. CASE r \notin batch[b].targets
      <3>1. Open(r) => Open(r)'
        BY <1>4, <2>3 DEF Open
      <3>. QED BY <3>1 DEF RefreshInv, EffectiveIsLive
    <2>. QED BY <1>3, <2>1, <2>2, <2>3
  <1>. QED BY <1>6, <1>7, <1>8, <1>9, <1>10, <1>11, <1>12 DEF RefreshInv

(* Every step of an application keeps the invariant. *)
LEMMA ApplicationKeeps ==
    ASSUME TypeInv, RefreshInv, NEW a \in Appliers, Application(a)
    PROVE  RefreshInv'
  <1>. DEFINE me == apply[a]
              b == me.batch
  <1>0. /\ OwnApplication /\ Stored /\ Agrees(me) /\ me \in Processes(ApplySteps) /\ Shops
        /\ Idle \in Processes(ApplySteps) /\ Idle.at = "idle"
    BY IdleType DEF RefreshInv, OwnApplication, TypeInv, ApplySteps
  <1>w. me.at # "idle" => b \in Batches /\ batch[b].status = "applying"
    BY <1>0, WorksOn
  <1>i. Agrees(Idle)
    BY <1>0 DEF Agrees, Stepping, Writing, ItemSteps
  <1>f. ASSUME ItemFails(a), me.at \in ItemSteps, UNCHANGED <<batch, live, prep, page, approved, kept>>
        PROVE  RefreshInv'
    BY <1>f, ItemEnds DEF ItemFails
  <1>g. ASSUME NEW at \in ItemSteps, me.at \in ItemSteps, at \in Writing => me.at \in Writing,
               at = "commit" => \A s \in Sides : live[me.run].copy[s] \in {me.source.after, "foreign"},
               apply' = [apply EXCEPT ![a] = [@ EXCEPT !.at = at]],
               UNCHANGED <<batch, item, live, prep, page, approved, kept>>
        PROVE  RefreshInv'
    <2>. DEFINE q == [me EXCEPT !.at = at]
    <2>1. q.at = at /\ q.batch = b /\ q.todo = me.todo /\ q.run = me.run /\ q.source = me.source
      BY <1>0 DEF Processes
    <2>2. apply' = [apply EXCEPT ![a] = q] /\ me.at # "idle" /\ me.at \in Stepping
      BY <1>g DEF ItemSteps, Stepping
    <2>. HIDE DEF q
    <2>3. Agrees(q)
      BY <1>0, <1>g, <2>1, <2>2 DEF Agrees
    <2>. QED BY <1>g, <2>1, <2>2, <2>3, OwnMove
  <1>1. CASE Begin(a)
    <2>. DEFINE t == {r \in batch[b].targets : item[b][r].status # "applied"}
                q == [me EXCEPT !.at = "loop", !.todo = t]
    <2>1. /\ me.at = "begin" /\ UNCHANGED <<batch, item, live, prep, page, approved, kept>>
          /\ apply' \in {[apply EXCEPT ![a] = Idle], [apply EXCEPT ![a] = q]}
      BY <1>1 DEF Begin
    <2>2. \A r \in t : item[b][r].status # "applied"
      OBVIOUS
    <2>. HIDE DEF t
    <2>3. q.at = "loop" /\ q.todo = t /\ q.batch = b
      BY <1>0 DEF Processes
    <2>. HIDE DEF q
    <2>4. Agrees(q)
      BY <1>w, <2>1, <2>2, <2>3 DEF Agrees, Writing, ItemSteps
    <2>. QED BY <1>0, <1>i, <2>1, <2>3, <2>4, OwnMove
  <1>2. CASE Take(a)
    <2>1. PICK r \in me.todo :
            apply' = [apply EXCEPT ![a] = [@ EXCEPT !.at = "look", !.run = r, !.source = item[b][r]]]
      BY <1>2 DEF Take
    <2>. DEFINE q == [me EXCEPT !.at = "look", !.run = r, !.source = item[b][r]]
    <2>2. me.at = "loop" /\ UNCHANGED <<batch, item, live, prep, page, approved, kept>>
      BY <1>2 DEF Take
    <2>3. q.at = "look" /\ q.run = r /\ q.todo = me.todo /\ q.batch = b /\ q.source = item[b][r]
      BY <1>0 DEF Processes
    <2>4. apply' = [apply EXCEPT ![a] = q]
      BY <2>1
    <2>. HIDE DEF q
    <2>5. Agrees(q)
      BY <1>0, <2>2, <2>3 DEF Agrees, Stepping, Writing, ItemSteps
    <2>. QED BY <2>2, <2>3, <2>4, <2>5, OwnMove
  <1>3. CASE Look(a)
    <2>. DEFINE q == [me EXCEPT !.at = "printify", !.seen = live[me.run]]
    <2>1. /\ me.at = "look" /\ UNCHANGED <<batch, live, prep, page, approved, kept>>
          /\ \/ Untouched(me.run, me.source) /\ apply' = [apply EXCEPT ![a] = q] /\ item' = item
             \/ ItemFails(a)
      BY <1>3 DEF Look
    <2>2. me.at \in ItemSteps /\ me.at # "idle" /\ me.at \in Stepping
      BY <2>1 DEF ItemSteps, Stepping
    <2>3. CASE Untouched(me.run, me.source) /\ apply' = [apply EXCEPT ![a] = q] /\ item' = item
      <3>1. q.at = "printify" /\ q.run = me.run /\ q.todo = me.todo /\ q.batch = b /\ q.source = me.source
        BY <1>0 DEF Processes
      <3>. HIDE DEF q
      <3>2. /\ me.run \in batch[b].targets /\ b \in Batches /\ batch[b].status \in Unfinished
            /\ me.source.after \in Texts /\ me.source.before = item[b][me.run].before
        BY <1>0, <1>w, <2>2, WorksOn DEF Agrees, Unfinished
      <3>3. ASSUME NEW s \in Sides, <<me.run, s>> \in kept
            PROVE  FALSE
        <4>1. live[me.run].copy[s] = "foreign"
          BY <3>3 DEF RefreshInv, OthersAreRespected
        <4>2. me.source.before[s] = "foreign"
          BY <2>3, <3>2, <4>1 DEF Untouched
        <4>. QED BY <1>0, <3>2, <3>3, <4>2 DEF Shops
      <3>4. Agrees(q)
        BY <1>0, <2>2, <3>1, <3>3 DEF Agrees
      <3>. QED BY <2>1, <2>2, <2>3, <3>1, <3>4, OwnMove
    <2>. QED BY <1>f, <2>1, <2>2, <2>3
  <1>4. CASE UpdatePrintify(a) \/ UpdateEtsy(a)
    BY <1>4, UpdateKeeps DEF UpdatePrintify, UpdateEtsy, Sides
  <1>5. ASSUME NEW s \in Sides, NEW here \in Writing, NEW at \in Writing \ {"commit"}, Confirm(a, s, here, at)
        PROVE  RefreshInv'
    <2>1. /\ me.at = here /\ UNCHANGED <<batch, live, prep, page, approved, kept>>
          /\ \/ apply' = [apply EXCEPT ![a] = [@ EXCEPT !.at = at]] /\ item' = item
             \/ ItemFails(a)
      BY <1>5 DEF Confirm
    <2>2. at \in ItemSteps /\ me.at \in ItemSteps /\ me.at \in Writing /\ at # "commit"
      BY <1>5, <2>1 DEF Writing
    <2>. QED BY <1>f, <1>g, <2>1, <2>2
  <1>6. CASE ConfirmPrintify(a) \/ ConfirmEtsy(a)
    BY <1>5, <1>6 DEF ConfirmPrintify, ConfirmEtsy, Sides, Writing, ItemSteps
  <1>7. CASE ReadBack(a)
    <2>1. /\ me.at = "verify" /\ UNCHANGED <<batch, live, prep, page, approved, kept>>
          /\ \/ /\ Shown(me.run, me.source) /\ item' = item
                /\ apply' = [apply EXCEPT ![a] = [@ EXCEPT !.at = "commit"]]
             \/ ItemFails(a)
      BY <1>7 DEF ReadBack
    <2>2. "commit" \in ItemSteps /\ me.at \in ItemSteps /\ me.at \in Writing
      BY <2>1 DEF Writing, ItemSteps
    <2>3. Shown(me.run, me.source) => \A s \in Sides : live[me.run].copy[s] \in {me.source.after, "foreign"}
      BY DEF Shown
    <2>. QED BY <1>f, <1>g, <2>1, <2>2, <2>3
  <1>8. CASE Commit(a)
    <2>1. me.at = "commit" /\ me.at \in ItemSteps
      BY <1>8 DEF Commit, ItemSteps
    <2>. QED BY <1>8, <2>1, ItemEnds DEF Commit
  <1>9. CASE Conclude(a)
    BY <1>9, ConcludeKeeps
  <1>10. CASE RequestFails(a)
    <2>1. me.at \in ItemSteps /\ ItemFails(a) /\ UNCHANGED <<batch, live, prep, page, approved, kept>>
      BY <1>10 DEF RequestFails, ItemSteps
    <2>. QED BY <1>f, <2>1
  <1>11. CASE ApplyDies(a)
    <2>. DEFINE q == [Idle EXCEPT !.at = "again", !.batch = b, !.tries = me.tries]
    <2>1. /\ me.at # "idle" /\ UNCHANGED <<batch, item, live, prep, page, approved, kept>>
          /\ apply' \in {[apply EXCEPT ![a] = Idle], [apply EXCEPT ![a] = q]}
      BY <1>11 DEF ApplyDies
    <2>2. q.at = "again" /\ q.batch = b
      BY <1>0 DEF Processes
    <2>. HIDE DEF q
    <2>3. Agrees(q)
      BY <1>w, <2>1, <2>2 DEF Agrees, Stepping, Writing, ItemSteps
    <2>. QED BY <1>0, <1>i, <2>1, <2>2, <2>3, OwnMove
  <1>12. CASE ApplyAgain(a)
    <2>. DEFINE q == [me EXCEPT !.at = "begin", !.tries = me.tries + 1]
    <2>1. /\ me.at = "again" /\ UNCHANGED <<batch, item, live, prep, page, approved, kept>>
          /\ apply' = [apply EXCEPT ![a] = q]
      BY <1>12 DEF ApplyAgain
    <2>2. q.at = "begin" /\ q.batch = b
      BY <1>0 DEF Processes
    <2>. HIDE DEF q
    <2>3. Agrees(q)
      BY <1>w, <2>1, <2>2 DEF Agrees, Stepping, Writing, ItemSteps
    <2>. QED BY <2>1, <2>2, <2>3, OwnMove
  <1>. QED BY <1>1, <1>2, <1>3, <1>4, <1>6, <1>7, <1>8, <1>9, <1>10, <1>11, <1>12 DEF Application

-----------------------------------------------------------------------------
(* What the operator and others do keeps the invariant *)

(* A started application is the only one of its batch. *)
LEMMA LaunchKeeps ==
    ASSUME TypeInv, RefreshInv, NEW b \in Batches, Launch(b),
           \A a \in Appliers : apply[a].at # "idle" => apply[a].batch # b,
           batch'[b].status = "applying", \A a \in Appliers : Undisturbed(a)
    PROVE  OwnApplication'
  <1>0. OwnApplication /\ Idle \in Processes(ApplySteps)
    BY IdleType DEF RefreshInv, ApplySteps
  <1>1. CASE apply' = apply
    BY <1>0, <1>1, ApplicationSame
  <1>2. CASE \E a \in Free : apply' = [apply EXCEPT ![a] = Started(a, b)]
    <2>1. PICK a \in Free : apply' = [apply EXCEPT ![a] = Started(a, b)]
      BY <1>2
    <2>2. a \in Appliers
      BY DEF Free
    <2>. DEFINE q == Started(a, b)
    <2>3. q.at = "begin" /\ q.batch = b
      BY <1>0 DEF Started, Processes
    <2>4. apply'[a] = q /\ \A d \in Appliers : d # a => apply'[d] = apply[d]
      BY <2>1, <2>2 DEF TypeInv
    <2>. HIDE DEF q
    <2>5. Agrees(apply[a])'
      BY <2>3, <2>4 DEF Agrees, Stepping, Writing, ItemSteps
    <2>6. \A d \in Appliers : d # a /\ apply[d].at # "idle" => apply[d].batch # apply'[a].batch
      BY <2>3, <2>4
    <2>. QED BY <1>0, <2>2, <2>4, <2>5, <2>6, ApplicationMoves
  <1>. QED BY <1>1, <1>2 DEF Launch

(* The page shows the texts that the digest of the batch names. *)
LEMMA ReviewKeeps ==
    ASSUME TypeInv, RefreshInv, Review
    PROVE  RefreshInv'
  <1>1. PICK b \in Batches :
          /\ batch[b].status = "pending_review"
          /\ page' = [batch |-> b, version |-> batch[b].version, digest |-> batch[b].digest,
                      texts |-> Digest(item[b], batch[b].targets)]
          /\ UNCHANGED <<batch, item, live, prep, apply, approved, kept>>
    BY DEF Review
  <1>2. Reviewed'
    <2>1. page'.texts = page'.digest
      BY <1>1 DEF RefreshInv, Reviewed
    <2>. QED BY <1>1, <2>1 DEF RefreshInv, Reviewed, Digest
  <1>3. Succession' /\ OnePreparation' /\ OwnApplication' /\ Shops'
    BY <1>1, SMTT(20) DEF RefreshInv, Succession, OnePreparation, OwnApplication, Agrees, Shops
  <1>4. AppliedAsApproved' /\ OthersAreRespected'
    BY <1>1 DEF RefreshInv, AppliedAsApproved, OthersAreRespected
  <1>5. \A r \in Runs : (Open(r)' <=> Open(r)) /\ Effective(r)' = Effective(r)
    BY <1>1 DEF Open, Effective
  <1>6. EffectiveIsLive'
    BY <1>1, <1>5 DEF RefreshInv, EffectiveIsLive
  <1>. QED BY <1>2, <1>3, <1>4, <1>6 DEF RefreshInv

(* An edit changes a batch that is not approved. *)
LEMMA EditKeeps ==
    ASSUME TypeInv, RefreshInv, Edit
    PROVE  RefreshInv'
  <1>0. Stored /\ Succession /\ Reviewed /\ OnePreparation /\ OwnApplication /\ Shops
    BY DEF RefreshInv, TypeInv
  <1>1. PICK b \in Batches : b = page.batch /\ batch[b].status = "pending_review"
    BY <1>0 DEF Edit, Stored, Batches
  <1>2. PICK t \in batch[b].targets, u \in Texts :
            /\ item' = [item EXCEPT ![b][t].after = u]
            /\ batch' = [batch EXCEPT ![b] = [@ EXCEPT !.version = batch[b].version + 1,
                                               !.digest = Digest(item'[b], batch[b].targets)]]
    BY <1>1 DEF Edit
  <1>3. UNCHANGED <<live, prep, apply, page, approved, kept>>
    BY DEF Edit
  <1>4. ~batch[b].approved /\ batch[b] \in BatchRecords /\ t \in Runs
        /\ item \in [Batches -> [Runs -> ItemRecords]]
    BY <1>0, <1>1 DEF Reviewed, Stored, BatchRecords
  <1>5. /\ \A c \in Batches : c # b => item'[c] = item[c] /\ batch'[c] = batch[c]
        /\ \A r \in Runs : /\ item'[b][r].status = item[b][r].status
                           /\ item'[b][r].before = item[b][r].before
    <2>1. item[b] \in [Runs -> ItemRecords] /\ item[b][t] \in ItemRecords
      BY <1>4
    <2>. DEFINE i == [item[b][t] EXCEPT !.after = u]
                n == [item[b] EXCEPT ![t] = i]
    <2>2. i.status = item[b][t].status /\ i.before = item[b][t].before
      BY <2>1 DEF ItemRecords
    <2>3. item' = [item EXCEPT ![b] = n]
      BY <1>2
    <2>4. n[t] = i /\ \A r \in Runs : r # t => n[r] = item[b][r]
      BY <1>4, <2>1
    <2>. HIDE DEF n
    <2>5. item'[b] = n /\ \A c \in Batches : c # b => item'[c] = item[c]
      BY <1>4, <2>3
    <2>6. \A c \in Batches : c # b => batch'[c] = batch[c]
      BY <1>0, <1>2 DEF Stored
    <2>. HIDE DEF i
    <2>. QED BY <2>2, <2>4, <2>5, <2>6
  <1>6. /\ batch'[b].status = batch[b].status /\ batch'[b].targets = batch[b].targets
        /\ batch'[b].approved = batch[b].approved
        /\ batch'[b].digest = Digest(item'[b], batch[b].targets)
    <2>. DEFINE d == Digest(item'[b], batch[b].targets)
    <2>1. batch' = [batch EXCEPT ![b] = [batch[b] EXCEPT !.version = batch[b].version + 1, !.digest = d]]
      BY <1>2
    <2>. HIDE DEF d
    <2>2. batch'[b] = [batch[b] EXCEPT !.version = batch[b].version + 1, !.digest = d]
      BY <1>0, <2>1 DEF Stored
    <2>. QED BY <1>4, <2>2 DEF BatchRecords, d
  <1>7. \A c \in Batches : /\ batch'[c].status = batch[c].status /\ batch'[c].targets = batch[c].targets
                           /\ batch'[c].approved = batch[c].approved
    BY <1>5, <1>6
  <1>8. \A r \in Runs : item[b][r].status # "applied" /\ item'[b][r].status # "applied"
    BY <1>0, <1>4, <1>5 DEF Reviewed
  <1>9. Succession'
    BY <1>0, <1>1, <1>5, <1>7 DEF Succession
  <1>10. Reviewed'
    <2>1. ASSUME NEW c \in Batches, batch'[c].status = "pending_review"
          PROVE  batch'[c].digest = Digest(item'[c], batch'[c].targets)
      <3>1. CASE c = b
        BY <1>6, <3>1
      <3>2. CASE c # b
        <4>1. batch'[c] = batch[c] /\ item'[c] = item[c]
          BY <1>5, <3>2
        <4>2. batch[c].digest = Digest(item[c], batch[c].targets)
          BY <1>0, <2>1, <4>1 DEF Reviewed
        <4>. QED BY <4>1, <4>2
      <3>. QED BY <3>1, <3>2
    <2>2. \A c \in Batches : batch'[c].approved <=> batch'[c].status \notin {"absent", "preparing", "pending_review"}
      BY <1>0, <1>7 DEF Reviewed
    <2>3. ASSUME NEW c \in Batches
          PROVE  IF batch'[c].approved THEN \A r \in batch'[c].targets : item'[c][r].after = approved[c][r]
                 ELSE approved[c] = NoTexts
      <3>1. CASE c = b
        BY <1>0, <1>4, <1>6, <3>1 DEF Reviewed
      <3>2. CASE c # b
        BY <1>0, <1>5, <3>2 DEF Reviewed
      <3>. QED BY <3>1, <3>2
    <2>4. \A c \in Batches, r \in Runs : item'[c][r].status = "applied" => batch'[c].approved /\ r \in batch'[c].targets
      BY <1>0, <1>5, <1>7, <1>8 DEF Reviewed
    <2>. QED BY <1>0, <1>3, <2>1, <2>2, <2>3, <2>4 DEF Reviewed, NoTexts, Digest
  <1>11. OnePreparation'
    BY <1>0, <1>3, <1>7, PreparationSame
  <1>12. OwnApplication'
    <2>1. \A a \in Appliers : Undisturbed(a)
      <3>. SUFFICES ASSUME NEW a \in Appliers, apply[a].at # "idle" PROVE Undisturbed(a)
        BY DEF Undisturbed
      <3>1. apply[a].batch \in Batches /\ apply[a].batch # b
        BY <1>0, <1>1, WorksOn
      <3>. QED BY <1>3, <1>5, <3>1 DEF Undisturbed
    <2>. QED BY <1>0, <1>3, <2>1, ApplicationSame
  <1>13. Shops'
    <2>. SUFFICES ASSUME NEW c \in Batches, batch[c].status \in Unfinished, NEW r \in batch[c].targets, NEW s \in Sides
                  PROVE  /\ item'[c][r].status = "applied" => live[r].copy[s] \in {item'[c][r].after, "foreign"}
                         /\ item'[c][r].before[s] = "foreign" => <<r, s>> \notin kept
      BY <1>3, <1>7 DEF Shops
    <2>1. r \in Runs
      BY <1>0 DEF Stored, BatchRecords
    <2>2. CASE c = b
      BY <1>0, <1>5, <1>8, <2>1, <2>2 DEF Shops
    <2>3. CASE c # b
      BY <1>0, <1>5, <2>3 DEF Shops
    <2>. QED BY <2>2, <2>3
  <1>14. AppliedAsApproved' /\ OthersAreRespected'
    BY <1>3 DEF RefreshInv, AppliedAsApproved, OthersAreRespected
  <1>15. EffectiveIsLive'
    <2>1. \A r \in Runs : Open(r)' <=> Open(r)
      BY <1>7 DEF Open
    <2>2. \A r \in Runs : Effective(r)' = Effective(r)
      <3>. TAKE r \in Runs
      <3>1. \A c \in Batches : /\ (item[c][r].status = "applied") <=> (item'[c][r].status = "applied")
                               /\ item[c][r].status = "applied" => item'[c][r].after = item[c][r].after
        BY <1>5, <1>8
      <3>. QED BY <3>1, EffectiveSame
    <2>. QED BY <1>3, <2>1, <2>2 DEF RefreshInv, EffectiveIsLive
  <1>. QED BY <1>9, <1>10, <1>11, <1>12, <1>13, <1>14, <1>15 DEF RefreshInv

(* Opening a batch for application, with the approved texts: its runs are    *)
(* open from then on.                                                        *)
LEMMA OpeningKeeps ==
    ASSUME TypeInv, RefreshInv, Stored', OwnApplication', NEW b \in Batches,
           batch[b].status \in {"pending_review", "applying", "verification_required"},
           batch'[b].status = "applying", batch'[b].targets = batch[b].targets, batch'[b].approved,
           \A c \in Batches : c # b => batch'[c] = batch[c] /\ item'[c] = item[c] /\ approved'[c] = approved[c],
           \A r \in Runs : /\ item'[b][r].after = item[b][r].after /\ item'[b][r].before = item[b][r].before
                           /\ (item'[b][r].status = "applied") <=> (item[b][r].status = "applied"),
           \A r \in batch[b].targets : approved'[b][r] = item[b][r].after,
           \A r \in Runs : approved'[b][r] = approved[b][r] \/ approved[b][r] = "none",
           page' = page \/ page'.batch = 0,
           UNCHANGED <<live, prep, kept>>
    PROVE  RefreshInv'
  <1>0. Stored /\ Succession /\ Reviewed /\ OnePreparation /\ Shops /\ \A c \in Batches : batch[c].targets \subseteq Runs
    BY DEF RefreshInv, TypeInv, Stored, BatchRecords
  <1>1. \A c \in Batches : /\ batch'[c].targets = batch[c].targets
                           /\ batch[c].status = "applied" => batch'[c].status = "applied"
                           /\ (batch'[c].status = "absent") <=> (batch[c].status = "absent")
                           /\ (batch'[c].status \in Unfinished) <=> (batch[c].status \in Unfinished)
    BY DEF Unfinished
  <1>2. Succession'
    <2>1. \A c \in Batches : batch'[c].status = "absent" => item'[c] = item[c]
      OBVIOUS
    <2>. QED BY <1>0, <1>1, <2>1 DEF Succession
  <1>3. Reviewed'
    <2>1. ASSUME NEW c \in Batches, batch'[c].status = "pending_review"
          PROVE  batch'[c].digest = Digest(item'[c], batch'[c].targets)
      <3>1. c # b
        BY <2>1
      <3>2. batch[c].digest = Digest(item[c], batch[c].targets) /\ batch'[c] = batch[c] /\ item'[c] = item[c]
        BY <1>0, <2>1, <3>1 DEF Reviewed
      <3>. QED BY <3>2
    <2>2. \A c \in Batches : batch'[c].approved <=> batch'[c].status \notin {"absent", "preparing", "pending_review"}
      <3>1. batch'[b] \in BatchRecords
        BY DEF Stored
      <3>. QED BY <1>0, <3>1 DEF Reviewed, BatchRecords
    <2>3. ASSUME NEW c \in Batches
          PROVE  IF batch'[c].approved THEN \A r \in batch'[c].targets : item'[c][r].after = approved'[c][r]
                 ELSE approved'[c] = NoTexts
      <3>1. CASE c = b
        BY <1>0, <3>1
      <3>2. CASE c # b
        BY <1>0, <3>2 DEF Reviewed
      <3>. QED BY <3>1, <3>2
    <2>4. ASSUME NEW c \in Batches, NEW r \in Runs, item'[c][r].status = "applied"
          PROVE  batch'[c].approved /\ r \in batch'[c].targets
      <3>1. item[c][r].status = "applied"
        BY <2>4
      <3>2. batch[c].approved /\ r \in batch[c].targets
        BY <1>0, <3>1 DEF Reviewed
      <3>. QED BY <1>1, <3>2
    <2>5. page'.batch # 0 => page'.texts = page'.digest
      BY <1>0 DEF Reviewed
    <2>. QED BY <2>1, <2>2, <2>3, <2>4, <2>5 DEF Reviewed, NoTexts, Digest
  <1>4. OnePreparation'
    <2>1. \A c \in Batches : batch[c].status = "preparing" =>
                batch'[c].status = "preparing" /\ batch'[c].targets = batch[c].targets
      OBVIOUS
    <2>. QED BY <1>0, <2>1, PreparationSame
  <1>5. Shops'
    <2>. SUFFICES ASSUME NEW c \in Batches, batch'[c].status \in Unfinished, NEW r \in batch'[c].targets, NEW s \in Sides
                  PROVE  /\ item'[c][r].status = "applied" => live[r].copy[s] \in {item'[c][r].after, "foreign"}
                         /\ item'[c][r].before[s] = "foreign" => <<r, s>> \notin kept
      BY DEF Shops
    <2>1. batch[c].status \in Unfinished /\ r \in batch[c].targets /\ r \in Runs
      BY <1>0, <1>1
    <2>2. (item[c][r].status = "applied" => live[r].copy[s] \in {item[c][r].after, "foreign"})
          /\ (item[c][r].before[s] = "foreign" => <<r, s>> \notin kept)
      BY <1>0, <2>1 DEF Shops
    <2>. QED BY <2>1, <2>2
  <1>6. AppliedAsApproved'
    <2>. SUFFICES ASSUME NEW r \in Runs, NEW s \in Sides
                  PROVE  live[r].copy[s] \in {"old", "foreign"} \cup {approved'[c][r] : c \in Batches}
      BY DEF AppliedAsApproved
    <2>1. live[r].copy[s] \in {"old", "foreign"} \cup {approved[c][r] : c \in Batches}
      BY DEF RefreshInv, AppliedAsApproved
    <2>2. live[r].copy[s] # "none"
      <3>1. live[r] \in Listings /\ "none" \notin Copy
        BY <1>0 DEF Stored, Copy
      <3>. QED BY <3>1 DEF Listings
    <2>3. \A c \in Batches : approved[c][r] # "none" => approved'[c][r] = approved[c][r]
      OBVIOUS
    <2>. QED BY <2>1, <2>2, <2>3
  <1>7. OthersAreRespected'
    BY DEF RefreshInv, OthersAreRespected
  <1>8. EffectiveIsLive'
    <2>1. \A r \in Runs : Open(r) => Open(r)'
      <3>. SUFFICES ASSUME NEW r \in Runs, Open(r) PROVE Open(r)'
        OBVIOUS
      <3>1. PICK c \in Batches : r \in batch[c].targets /\ batch[c].status \in {"applying", "verification_required"}
        BY DEF Open
      <3>2. batch'[c].status \in {"applying", "verification_required"}
        BY <3>1
      <3>. QED BY <1>1, <3>1, <3>2 DEF Open
    <2>2. \A r \in Runs : Effective(r)' = Effective(r)
      <3>. TAKE r \in Runs
      <3>1. \A c \in Batches : /\ (item[c][r].status = "applied") <=> (item'[c][r].status = "applied")
                               /\ item[c][r].status = "applied" => item'[c][r].after = item[c][r].after
        OBVIOUS
      <3>. QED BY <3>1, EffectiveSame
    <2>. QED BY <2>1, <2>2 DEF RefreshInv, EffectiveIsLive
  <1>. QED BY <1>2, <1>3, <1>4, <1>5, <1>6, <1>7, <1>8 DEF RefreshInv

(* An approval of the page is one of the texts that the batch holds. *)
LEMMA ApproveKeeps ==
    ASSUME TypeInv, TypeInv', RefreshInv, Approve
    PROVE  RefreshInv'
  <1>0. Stored /\ Stored' /\ Reviewed /\ OwnApplication
    BY DEF RefreshInv, TypeInv
  <1>1. PICK b \in Batches : b = page.batch
    BY <1>0 DEF Approve, Stored, Batches
  <1>. DEFINE n == [batch[b] EXCEPT !.status = "applying", !.approved = TRUE]
  <1>2. /\ batch[b].status = "pending_review" /\ page.batch # 0 /\ batch[b].digest = page.digest
        /\ \A r \in batch[b].targets : item[b][r].status = "pending_review"
        /\ batch' = [batch EXCEPT ![b] = n]
        /\ item' = [item EXCEPT ![b] = [r \in Runs |-> IF r \in batch[b].targets
                                          THEN [item[b][r] EXCEPT !.status = "applying"] ELSE item[b][r]]]
        /\ approved' = [approved EXCEPT ![b] = page.texts]
        /\ page' = Closed /\ Launch(b)
        /\ UNCHANGED <<live, prep, kept>>
    BY <1>1 DEF Approve, Matches
  <1>3. /\ \A c \in Batches, r \in Runs :
            /\ item'[c][r].after = item[c][r].after /\ item'[c][r].before = item[c][r].before
            /\ item'[c][r].status = IF c = b /\ r \in batch[b].targets THEN "applying" ELSE item[c][r].status
            /\ c # b => item'[c] = item[c]
    BY <1>0, <1>2, ItemStatus
  <1>r. Runs # {}
    OBVIOUS
  <1>4. \A c \in Batches : c # b => item'[c] = item[c]
    BY <1>3, <1>r
  <1>5. n.targets = batch[b].targets /\ n.approved /\ n.status = "applying"
    BY <1>0 DEF Stored, BatchRecords
  <1>. HIDE DEF n
  <1>6. batch'[b] = n /\ \A c \in Batches : c # b => batch'[c] = batch[c] /\ approved'[c] = approved[c]
    BY <1>0, <1>2 DEF Stored
  <1>7. \A r \in batch[b].targets : approved'[b][r] = item[b][r].after
    <2>1. approved'[b] = Digest(item[b], batch[b].targets)
      BY <1>0, <1>1, <1>2 DEF Reviewed, Stored
    <2>2. batch[b].targets \subseteq Runs
      BY <1>0 DEF Stored, BatchRecords
    <2>. QED BY <2>1, <2>2 DEF Digest
  <1>8. \A r \in Runs : approved[b][r] = "none"
    BY <1>0, <1>2 DEF Reviewed, NoTexts
  <1>9. \A r \in Runs : (item'[b][r].status = "applied") <=> (item[b][r].status = "applied")
    BY <1>2, <1>3
  <1>10. OwnApplication'
    <2>1. \A a \in Appliers : apply[a].at # "idle" => apply[a].batch \in Batches /\ apply[a].batch # b
      BY <1>0, <1>2, WorksOn
    <2>2. \A a \in Appliers : Undisturbed(a)
      BY <1>2, <1>4, <1>6, <2>1 DEF Undisturbed
    <2>. QED BY <1>2, <1>5, <1>6, <2>1, <2>2, LaunchKeeps
  <1>11. page'.batch = 0
    BY <1>2 DEF Closed
  <1>. QED BY <1>0, <1>2, <1>3, <1>4, <1>5, <1>6, <1>7, <1>8, <1>9, <1>10, <1>11, OpeningKeeps

(* A retry goes on with the approved texts, when nobody else is at work. *)
LEMMA RetryKeeps ==
    ASSUME TypeInv, TypeInv', RefreshInv, Patient, Retry
    PROVE  RefreshInv'
  <1>0. Stored /\ Stored' /\ Reviewed /\ OwnApplication
    BY DEF RefreshInv, TypeInv
  <1>1. PICK b \in Batches :
            /\ batch[b].status \in {"verification_required", "applying"} /\ batch[b].approved
            /\ Working = {}
            /\ batch' = [batch EXCEPT ![b].status = "applying"]
            /\ item' = [item EXCEPT ![b] = [r \in Runs |-> IF item[b][r].status = "verification_required"
                                       THEN [item[b][r] EXCEPT !.status = "applying"] ELSE item[b][r]]]
            /\ Launch(b)
            /\ UNCHANGED <<live, prep, page, approved, kept>>
    BY DEF Retry
  <1>. DEFINE S == {s \in Runs : item[b][s].status = "verification_required"}
              n == [batch[b] EXCEPT !.status = "applying"]
  <1>2. /\ item' = [item EXCEPT ![b] = [r \in Runs |-> IF r \in S
                                       THEN [item[b][r] EXCEPT !.status = "applying"] ELSE item[b][r]]]
        /\ batch' = [batch EXCEPT ![b] = n]
    BY <1>1
  <1>3. /\ \A c \in Batches, r \in Runs :
            /\ item'[c][r].after = item[c][r].after /\ item'[c][r].before = item[c][r].before
            /\ item'[c][r].status = IF c = b /\ r \in S THEN "applying" ELSE item[c][r].status
            /\ c # b => item'[c] = item[c]
    <2>. HIDE DEF S
    <2>. QED BY <1>0, <1>2, ItemStatus
  <1>r. Runs # {}
    OBVIOUS
  <1>4. \A c \in Batches : c # b => item'[c] = item[c]
    BY <1>3, <1>r
  <1>5. n.targets = batch[b].targets /\ n.approved = batch[b].approved /\ n.status = "applying"
    BY <1>0 DEF Stored, BatchRecords
  <1>. HIDE DEF n
  <1>6. batch'[b] = n /\ \A c \in Batches : c # b => batch'[c] = batch[c] /\ approved'[c] = approved[c]
    BY <1>0, <1>1, <1>2 DEF Stored
  <1>7. \A r \in batch[b].targets : approved'[b][r] = item[b][r].after
    BY <1>0, <1>1 DEF Reviewed
  <1>9. \A r \in Runs : (item'[b][r].status = "applied") <=> (item[b][r].status = "applied")
    BY <1>3
  <1>10. OwnApplication'
    <2>1. \A a \in Appliers : apply[a].at = "idle"
      BY <1>1 DEF Working
    <2>2. \A a \in Appliers : Undisturbed(a)
      BY <2>1 DEF Undisturbed
    <2>. QED BY <1>1, <1>5, <1>6, <2>1, <2>2, LaunchKeeps
  <1>. QED BY <1>0, <1>1, <1>3, <1>4, <1>5, <1>6, <1>7, <1>9, <1>10, OpeningKeeps

(* Others write their own texts, and where an application or a preparation   *)
(* could have missed one it is not counted.                                  *)
LEMMA OtherEditKeeps ==
    ASSUME TypeInv, RefreshInv, OtherEdit
    PROVE  RefreshInv'
  <1>0. Stored /\ Succession /\ Reviewed /\ OnePreparation /\ OwnApplication /\ Shops
    BY DEF RefreshInv, TypeInv
  <1>1. UNCHANGED <<batch, item, prep, apply, page, approved>>
    BY DEF OtherEdit
  <1>2. /\ \A r \in Runs, s \in Sides : live'[r].copy[s] \in {live[r].copy[s], "foreign"}
        /\ \A r \in Runs, s \in Sides : <<r, s>> \in kept' /\ <<r, s>> \notin kept =>
              /\ live'[r].copy[s] = "foreign" /\ ~Known(r, s)
              /\ \A a \in Appliers : ~ (apply[a].run = r /\ apply[a].at # "look")
        /\ kept' \subseteq Runs \X Sides
    <2>0. live \in [Runs -> Listings] /\ kept \subseteq Runs \X Sides
      BY <1>0 DEF Stored
    <2>1. PICK t \in Edited :
           \/ \E s \in Sides :
                /\ live' = [live EXCEPT ![t].copy[s] = "foreign"]
                /\ kept' = IF Known(t, s) \/ \E a \in Appliers : apply[a].run = t /\ apply[a].at # "look"
                           THEN kept ELSE kept \cup {<<t, s>>}
           \/ \E shape \in {"changed", "gone"} :
                live' = [live EXCEPT ![t].shape = shape] /\ kept' = kept
      BY DEF OtherEdit
    <2>2. t \in Runs /\ live[t] \in Listings
      BY <2>0
    <2>3. CASE \E s \in Sides :
                /\ live' = [live EXCEPT ![t].copy[s] = "foreign"]
                /\ kept' = IF Known(t, s) \/ \E a \in Appliers : apply[a].run = t /\ apply[a].at # "look"
                           THEN kept ELSE kept \cup {<<t, s>>}
      <3>1. PICK s \in Sides :
                /\ live' = [live EXCEPT ![t].copy[s] = "foreign"]
                /\ kept' = IF Known(t, s) \/ \E a \in Appliers : apply[a].run = t /\ apply[a].at # "look"
                           THEN kept ELSE kept \cup {<<t, s>>}
        BY <2>3
      <3>2. /\ \A r \in Runs : r # t => live'[r] = live[r]
            /\ live'[t].copy[s] = "foreign" /\ \A e \in Sides : live'[t].copy[e] \in {live[t].copy[e], "foreign"}
        BY <2>0, <2>2, <3>1 DEF Listings
      <3>3. \A r \in Runs, e \in Sides : <<r, e>> \in kept' /\ <<r, e>> \notin kept =>
                /\ r = t /\ e = s /\ ~Known(t, s)
                /\ ~ \E a \in Appliers : apply[a].run = t /\ apply[a].at # "look"
        BY <3>1
      <3>4. kept' \subseteq Runs \X Sides
        BY <2>0, <2>2, <3>1
      <3>. QED BY <3>2, <3>3, <3>4
    <2>4. CASE \E shape \in {"changed", "gone"} : live' = [live EXCEPT ![t].shape = shape] /\ kept' = kept
      <3>1. PICK shape \in {"changed", "gone"} : live' = [live EXCEPT ![t].shape = shape] /\ kept' = kept
        BY <2>4
      <3>2. \A r \in Runs : live'[r].copy = live[r].copy
        BY <2>0, <2>2, <3>1 DEF Listings
      <3>. QED BY <2>0, <3>1, <3>2
    <2>. QED BY <2>1, <2>3, <2>4
  <1>3. Succession' /\ Reviewed' /\ OnePreparation'
    BY <1>0, <1>1 DEF Succession, Reviewed, OnePreparation, Digest
  <1>4. OwnApplication'
    <2>1. ASSUME NEW a \in Appliers
          PROVE  Undisturbed(a)
      <3>1. apply[a].at \in Writing => apply[a].run \in Runs /\ apply[a].at # "look"
        BY <1>0, WorksOn DEF Writing, ItemSteps
      <3>2. apply[a].at = "commit" => apply[a].at \in Writing
        BY DEF Writing, ItemSteps
      <3>. QED BY <1>1, <1>2, <3>1, <3>2 DEF Undisturbed
    <2>. QED BY <1>0, <1>1, <2>1, ApplicationSame
  <1>5. Shops'
    <2>. SUFFICES ASSUME NEW c \in Batches, batch[c].status \in Unfinished, NEW r \in batch[c].targets, NEW s \in Sides
                  PROVE  /\ item[c][r].status = "applied" => live'[r].copy[s] \in {item[c][r].after, "foreign"}
                         /\ item[c][r].before[s] = "foreign" => <<r, s>> \notin kept'
      BY <1>1 DEF Shops
    <2>1. r \in Runs
      BY <1>0 DEF Stored, BatchRecords
    <2>2. item[c][r].before[s] = "foreign" => Known(r, s)
      BY DEF Known
    <2>3. /\ item[c][r].status = "applied" => live[r].copy[s] \in {item[c][r].after, "foreign"}
          /\ item[c][r].before[s] = "foreign" => <<r, s>> \notin kept
      BY <1>0 DEF Shops
    <2>4. live'[r].copy[s] \in {live[r].copy[s], "foreign"}
      BY <1>2, <2>1
    <2>5. <<r, s>> \in kept' /\ <<r, s>> \notin kept => ~Known(r, s)
      BY <1>2, <2>1
    <2>. QED BY <2>2, <2>3, <2>4, <2>5
  <1>6. AppliedAsApproved'
    BY <1>1, <1>2 DEF RefreshInv, AppliedAsApproved
  <1>7. OthersAreRespected'
    <2>. SUFFICES ASSUME NEW k \in kept' PROVE live'[k[1]].copy[k[2]] = "foreign"
      BY DEF OthersAreRespected
    <2>1. k[1] \in Runs /\ k[2] \in Sides /\ k = <<k[1], k[2]>>
      BY <1>2
    <2>2. k \in kept => live[k[1]].copy[k[2]] = "foreign"
      BY DEF RefreshInv, OthersAreRespected
    <2>3. live'[k[1]].copy[k[2]] \in {live[k[1]].copy[k[2]], "foreign"}
      BY <1>2, <2>1
    <2>4. k \notin kept => live'[k[1]].copy[k[2]] = "foreign"
      BY <1>2, <2>1
    <2>. QED BY <2>2, <2>3, <2>4
  <1>8. EffectiveIsLive'
    <2>1. \A r \in Runs : (Open(r)' <=> Open(r)) /\ Effective(r)' = Effective(r)
      BY <1>1 DEF Open, Effective
    <2>. QED BY <1>2, <2>1 DEF RefreshInv, EffectiveIsLive
  <1>. QED BY <1>3, <1>4, <1>5, <1>6, <1>7, <1>8 DEF RefreshInv

-----------------------------------------------------------------------------
(* The theorems *)

LEMMA InitInv == Init => RefreshInv
  <1>. SUFFICES ASSUME Init PROVE RefreshInv
    OBVIOUS
  <1>0. Idle.at = "idle" /\ \A p \in Preparers : prep[p] = Idle
    BY IdleType DEF Init, PrepSteps
  <1>a. \A a \in Appliers : apply[a] = Idle
    BY DEF Init
  <1>1. Succession
    BY DEF Init, Succession
  <1>2. Reviewed
    BY DEF Init, Reviewed, NewItem, Closed, NoTexts
  <1>3. OnePreparation
    BY <1>0 DEF OnePreparation, Preparing, Drafting
  <1>4. OwnApplication
    BY <1>0, <1>a DEF OwnApplication, Agrees, Stepping, Writing, ItemSteps
  <1>5. Shops
    BY DEF Init, Shops
  <1>6. AppliedAsApproved /\ OthersAreRespected
    BY DEF Init, AppliedAsApproved, OthersAreRespected
  <1>7. EffectiveIsLive
    <2>1. \A r \in Runs : Effective(r) = "old"
      BY DEF Init, Effective, NewItem
    <2>. QED BY <2>1 DEF Init, EffectiveIsLive
  <1>. QED BY <1>1, <1>2, <1>3, <1>4, <1>5, <1>6, <1>7 DEF RefreshInv

(* Every step of a patient operator keeps the invariant. *)
LEMMA NextInv ==
    ASSUME Patient
    PROVE  TypeInv /\ TypeInv' /\ RefreshInv /\ [Next]_vars => RefreshInv'
  <1>. SUFFICES ASSUME TypeInv, TypeInv', RefreshInv, [Next]_vars PROVE RefreshInv'
    OBVIOUS
  <1>1. CASE Next
    BY <1>1, PreparationKeeps, ReviewKeeps, EditKeeps, ApproveKeeps, RetryKeeps, ApplicationKeeps, OtherEditKeeps
       DEF Next, Preparation, Application
  <1>2. CASE UNCHANGED vars
    <2>1. OnePreparation'
      BY <1>2 DEF vars, RefreshInv, OnePreparation
    <2>. QED BY <1>2, <2>1, PreparationOnly DEF vars
  <1>. QED BY <1>1, <1>2

(* Where the operator prepares and retries only when no process is at work,  *)
(* one preparation works at a time, unfinished batches share no run, and     *)
(* what a process has read of its item stays true (prepare_copy_refresh,     *)
(* apply_copy_refresh).                                                      *)
THEOREM RefreshInvariant == ASSUME Patient PROVE Spec => [](TypeInv /\ RefreshInv)
  <1>1. Init => TypeInv /\ RefreshInv
    BY InitType, InitInv
  <1>2. TypeInv /\ RefreshInv /\ [Next]_vars => (TypeInv /\ RefreshInv)'
    BY NextType, NextInv
  <1>. QED BY <1>1, <1>2, PTL DEF Spec

(* No text reaches a shop but the one that was there, one that somebody else *)
(* wrote and one that the operator saw when they approved the batch          *)
(* (approve_copy_refresh_batch, _apply_item).                                *)
THEOREM OnlyApprovedTexts == ASSUME Patient PROVE Spec => []AppliedAsApproved
  <1>1. TypeInv /\ RefreshInv => AppliedAsApproved
    BY DEF RefreshInv
  <1>. QED BY <1>1, RefreshInvariant, PTL

(* The text of the newest applied item is the live one, unless others edited *)
(* it or an approved batch is still open (effective_approved_listing).       *)
THEOREM EffectiveTextIsLive == ASSUME Patient PROVE Spec => []EffectiveIsLive
  <1>1. TypeInv /\ RefreshInv => EffectiveIsLive
    BY DEF RefreshInv
  <1>. QED BY <1>1, RefreshInvariant, PTL

(* A text that somebody else wrote between the preparation and the           *)
(* application of an item is not overwritten (the comparison with before in  *)
(* _apply_item).                                                             *)
THEOREM TextsOfOthersStay == ASSUME Patient PROVE Spec => []OthersAreRespected
  <1>1. TypeInv /\ RefreshInv => OthersAreRespected
    BY DEF RefreshInv
  <1>. QED BY <1>1, RefreshInvariant, PTL
=============================================================================
