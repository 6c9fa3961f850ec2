------------------------ MODULE MerchWorkflowProofs ------------------------
(***************************************************************************)
(* Theorems about MerchWorkflow, for any channels, candidates, modes,      *)
(* workflows and bounds on revisions, rewrites, attempts, versions,        *)
(* requests and faults.                                                    *)
(***************************************************************************)
EXTENDS MerchWorkflow, LeastElements, TLAPS

(* A workflow in a state it can be in: attempts are left to the activity it *)
(* is in, and the second changed catalog ended it.                          *)
Flows == {f \in WorkflowStates : /\ f.tries < MaxAttempts
                                 /\ f.reapprovals = 2 => f.stage \in {"fail", "closed", "stuck"}}

(* A workflow that is over is closed or stuck. *)
USE DEF Over

(* Artwork after which another revision may follow leaves room for it. *)
Room(arts) == Undrawn(arts) => Len(arts) < MaxRevisions
Works == {x \in Revisions : Room(x)}

(* What an attempt refers to exists. *)
Fits(a) ==
    /\ a.kind = "generate" /\ a.step \in {"brief", "artwork", "hold", "list", "store"}
           => a.version \in Versions
    /\ a.kind = "rewrite" /\ a.step = "answer" => a.entry \in 1..Len(attempts)
    /\ Room(a.arts)

(* An entry of the audit trail. *)
Audit == [from: Versions, outcome: Outcomes]

(* The inductive strengthening of TypeOK. *)
TypeInv ==
    /\ TypeOK
    /\ wf \in [Workflows -> Flows]
    /\ artifacts \in [Versions -> Works]
    /\ Len(attempts) <= MaxRewrites
    /\ \A s \in Slots : Fits(att[s])


-----------------------------------------------------------------------------
(* Sequences, and records that keep their types. *)

(* What a sequence of members of a set is as a function, and back. *)
LEMMA Entries ==
    ASSUME NEW S, NEW q \in Seq(S)
    PROVE  /\ Len(q) \in Nat /\ DOMAIN q = 1..Len(q) /\ q \in [1..Len(q) -> S]
           /\ \A i \in 1..Len(q) : q[i] \in S
OBVIOUS

LEMMA Sequenced ==
    ASSUME NEW S, NEW n \in Nat, NEW q \in [1..n -> S]
    PROVE  q \in Seq(S) /\ Len(q) = n
OBVIOUS

(* The bounds are natural numbers. *)
LEMMA Bounds ==
    /\ MaxVersion \in Nat /\ MaxVersion >= 1 /\ MaxRevisions \in Nat /\ MaxRevisions >= 1
    /\ MaxAttempts \in Nat /\ MaxAttempts >= 1 /\ MaxWorkflows \in Nat /\ MaxWorkflows >= 1
    /\ NumCandidates \in Nat /\ MaxRewrites \in Nat
    /\ MaxActs \in Nat /\ MaxShifts \in Nat /\ MaxFaults \in Nat
BY ConstantsAssumption

(* The revisions of a version are a sequence of bounded length. *)
LEMMA RevisionSeq ==
    ASSUME NEW x
    PROVE  x \in Revisions <=> x \in Seq(Verdicts \cup {"source"}) /\ Len(x) <= MaxRevisions
<1>1. ASSUME x \in Revisions PROVE x \in Seq(Verdicts \cup {"source"}) /\ Len(x) <= MaxRevisions
  <2>1. PICK n \in 0..MaxRevisions : x \in [1..n -> Verdicts \cup {"source"}]
    BY <1>1 DEF Revisions
  <2> QED
    BY <2>1, Bounds
<1>2. ASSUME x \in Seq(Verdicts \cup {"source"}), Len(x) <= MaxRevisions PROVE x \in Revisions
  <2>1. Len(x) \in 0..MaxRevisions /\ x \in [1..Len(x) -> Verdicts \cup {"source"}]
    BY <1>2, Bounds
  <2> QED
    BY <2>1 DEF Revisions
<1> QED
  BY <1>1, <1>2

(* No artwork yet. *)
LEMMA NoWork == <<>> \in Works /\ <<>> \in Revisions /\ Room(<<>>)
<1>1. <<>> \in Seq(Verdicts \cup {"source"}) /\ Len(<<>>) = 0
  OBVIOUS
<1>2. <<>> \in Revisions
  <2>1. PICK e : e = <<>>
    OBVIOUS
  <2>2. e \in Seq(Verdicts \cup {"source"}) /\ Len(e) <= MaxRevisions
    BY <1>1, <2>1, Bounds
  <2>3. e \in Revisions
    BY <2>2, RevisionSeq
  <2> QED
    BY <2>1, <2>3
<1>3. Room(<<>>)
  BY <1>1, Bounds DEF Room
<1> QED
  BY <1>2, <1>3 DEF Works

(* Nobody has sent a signal. *)
LEMMA NoSignalType == NoSignal \in Signals /\ NoBrief \in Briefs /\ NoQuotes \in Quotes
BY Bounds DEF NoSignal, Signals, NoBrief, Briefs, Origins, NoQuotes, Quotes, NoPackage, Packages

(* An attempt that has nothing to do. *)
LEMMA IdleType == Idle \in AttemptStates /\ Fits(Idle)
BY NoWork, NoSignalType, Bounds DEF Idle, AttemptStates, Activities, Steps, Fits

(* A workflow that was not started. *)
LEMMA UnbornType == Unborn \in Flows
BY NoSignalType, Bounds DEF Unborn, Flows, WorkflowStates, Stages, PublishStatuses

(* What a workflow waits for, at its start. *)
LEMMA WantedType ==
    ASSUME NEW f \in Flows
    PROVE  Wanted(f) \in AttemptStates /\ Fits(Wanted(f))
<1>1. f.stage \in Stages /\ f.regenerate \in BOOLEAN /\ f.preserve \in BOOLEAN /\ f.current \in Signals
  BY DEF Flows, WorkflowStates
<1>2. CASE f.stage \notin Activities
  BY <1>2, IdleType DEF Wanted
<1>3. CASE f.stage \in Activities
  <2>1. PICK y : y = [Idle EXCEPT !.kind = f.stage, !.regenerate = f.regenerate,
                                  !.preserve = f.preserve, !.signal = f.current]
    OBVIOUS
  <2>2. y \in AttemptStates /\ y.step = "start" /\ y.arts = <<>>
    BY <1>1, <1>3, <2>1, IdleType DEF AttemptStates, Idle
  <2>3. Fits(y)
    BY <2>2, NoWork DEF Fits
  <2> QED
    BY <1>3, <2>1, <2>2, <2>3 DEF Wanted
<1> QED
  BY <1>2, <1>3

(* A run that changes its status. *)
LEMMA StatusType ==
    ASSUME NEW r \in Runs, NEW s \in Statuses
    PROVE  Status(r, s) \in Runs
BY DEF Status, Runs

(* A run that drops what belongs to an earlier version. *)
LEMMA ClearedType ==
    ASSUME NEW r \in Runs, r.version < MaxVersion
    PROVE  Cleared(r) \in Runs
<1>1. r.version + 1 \in Versions
  BY Bounds DEF Runs, Versions
<1>2. 0 \in 0..MaxVersion
  BY Bounds
<1> QED
  BY <1>1, <1>2, NoSignalType DEF Cleared, Runs

(* A workflow that goes to another stage begins its tries anew. *)
LEMMA MovedType ==
    ASSUME NEW f \in Flows, NEW stage \in Stages,
           f.stage \notin {"fail", "closed", "stuck"} \/ stage \in {"fail", "closed", "stuck"}
    PROVE  [f EXCEPT !.stage = stage, !.tries = 0] \in Flows
<1>1. PICK g : g = [f EXCEPT !.stage = stage, !.tries = 0]
  OBVIOUS
<1>2. f \in WorkflowStates /\ (f.reapprovals = 2 => f.stage \in {"fail", "closed", "stuck"}) /\ 0 \in 0..MaxAttempts
  BY Bounds DEF Flows
<1>3. g \in WorkflowStates /\ g.stage = stage /\ g.tries = 0 /\ g.reapprovals = f.reapprovals
  BY <1>1, <1>2 DEF WorkflowStates
<1>4. g \in Flows
  BY <1>2, <1>3, Bounds DEF Flows
<1> QED
  BY <1>1, <1>4

(* The tries of an activity are counted up to its limit. *)
LEMMA AgainType ==
    ASSUME TypeInv, NEW w \in Workflows
    PROVE  {Failed(w), Invalidated(w), Again(w)} \subseteq Flows
<1>1. wf[w] \in Flows /\ wf[w] \in WorkflowStates
  BY DEF TypeInv, Flows
<1>2. Failed(w) \in Flows
  BY <1>1, MovedType DEF Failed, Stages, Activities
<1>4. Invalidated(w) \in Flows
  <2>1. PICK g : g = [Failed(w) EXCEPT !.invalid = TRUE]
    OBVIOUS
  <2>2. /\ g \in WorkflowStates /\ g.tries = Failed(w).tries /\ g.stage = Failed(w).stage
        /\ g.reapprovals = Failed(w).reapprovals
    BY <1>2, <2>1 DEF Flows, WorkflowStates
  <2> QED
    BY <1>2, <2>1, <2>2 DEF Flows, Invalidated
<1>3. CASE wf[w].stage \in Limited /\ wf[w].tries + 1 # MaxAttempts
  <2>1. wf[w].tries + 1 \in 0..MaxAttempts /\ wf[w].tries + 1 < MaxAttempts
    BY <1>1, <1>3, Bounds DEF Flows, WorkflowStates
  <2>2. wf[w].reapprovals = 2 => wf[w].stage \in {"fail", "closed", "stuck"}
    BY <1>1 DEF Flows
  <2>3. PICK g : g = [wf[w] EXCEPT !.tries = wf[w].tries + 1]
    OBVIOUS
  <2>4. g \in WorkflowStates /\ g.tries = wf[w].tries + 1 /\ g.stage = wf[w].stage
        /\ g.reapprovals = wf[w].reapprovals
    BY <1>1, <2>1, <2>3 DEF WorkflowStates
  <2>5. g \in Flows
    BY <2>1, <2>2, <2>4 DEF Flows
  <2> QED
    BY <1>2, <1>3, <1>4, <2>3, <2>5 DEF Again
<1> QED
  BY <1>1, <1>2, <1>3, <1>4 DEF Again

-----------------------------------------------------------------------------
(* What attempts and workflows do in common. *)

(* The records of the run, and the budget, are what they were. *)
RestOK ==
    /\ run \in Runs /\ artifacts \in [Versions -> Works]
    /\ attempts \in Seq(Audit) /\ Len(attempts) <= MaxRewrites
    /\ publishes \in [Channels -> PublishStatuses]
    /\ retry \in [Channels -> [step: {"idle", "publish", "count", "write"}, seen: SUBSET PublishStatuses]]
    /\ template \in Templates /\ market \in Markets /\ mode \in Modes
    /\ budget \in [acts: 0..MaxActs, shifts: 0..MaxShifts, faults: 0..MaxFaults]
FlowOK == wf \in [Workflows -> Flows]
SlotOK == att \in [Slots -> AttemptStates] /\ \A s \in Slots : Fits(att[s])

LEMMA TypeParts == TypeInv <=> RestOK /\ FlowOK /\ SlotOK
<1>1. Flows \subseteq WorkflowStates /\ Works \subseteq Revisions
  BY DEF Flows, Works
<1>2. FlowOK => wf \in [Workflows -> WorkflowStates]
  BY <1>1 DEF FlowOK
<1>3. artifacts \in [Versions -> Works] => artifacts \in [Versions -> Revisions]
  BY <1>1
<1> QED
  BY <1>2, <1>3 DEF TypeInv, TypeOK, RestOK, FlowOK, SlotOK, Audit

(* An attempt goes on: what the others refer to stays. *)
LEMMA SlotStep ==
    ASSUME SlotOK, NEW s \in Slots, NEW y \in AttemptStates, Fits(y)',
           att' = [att EXCEPT ![s] = y],
           \A i \in 1..Len(attempts) : i \in 1..Len(attempts')
    PROVE  SlotOK'
<1>1. att \in [Slots -> AttemptStates] /\ (\A u \in Slots : Fits(att[u]))
  BY DEF SlotOK
<1>2. att' \in [Slots -> AttemptStates]
  BY <1>1
<1>3. \A u \in Slots : att'[u] = IF u = s THEN y ELSE att[u]
  BY <1>1
<1>4. ASSUME NEW u \in Slots PROVE Fits(att[u])'
  <2>1. CASE u = s
    BY <1>3, <2>1 DEF Fits
  <2>2. CASE u # s
    BY <1>1, <1>3, <2>2 DEF Fits
  <2> QED
    BY <2>1, <2>2
<1> QED
  BY <1>2, <1>4 DEF SlotOK

(* No attempt moves. *)
LEMMA SlotSame ==
    ASSUME SlotOK, att' = att, \A i \in 1..Len(attempts) : i \in 1..Len(attempts')
    PROVE  SlotOK'
BY DEF SlotOK, Fits

(* An attempt goes to its next step. *)
LEMMA GotoType ==
    ASSUME SlotOK, NEW s \in Slots, NEW step \in Steps, Goto(s, step), attempts' = attempts \/ Len(attempts') = Len(attempts),
           att[s].kind = "rewrite" => step # "answer",
           att[s].kind = "generate" => att[s].version \in Versions
    PROVE  SlotOK'
<1>1. PICK y : y = [att[s] EXCEPT !.step = step]
  OBVIOUS
<1>2. att[s] \in AttemptStates /\ Fits(att[s])
  BY DEF SlotOK
<1>3. /\ y \in AttemptStates /\ y.kind = att[s].kind /\ y.step = step /\ y.arts = att[s].arts
      /\ y.version = att[s].version
  BY <1>1, <1>2 DEF AttemptStates
<1>4. Fits(y)'
  BY <1>2, <1>3 DEF Fits
<1>5. att' = [att EXCEPT ![s] = y]
  BY <1>1 DEF Goto
<1> QED
  BY <1>3, <1>4, <1>5, SlotStep

(* An attempt has an answer. *)
LEMMA ReturnType ==
    ASSUME SlotOK, NEW s \in Slots, NEW ok \in BOOLEAN, NEW signal \in Signals, Return(s, ok, signal),
           attempts' = attempts \/ Len(attempts') = Len(attempts)
    PROVE  SlotOK'
<1>1. PICK y : y = IF s = Late THEN Idle ELSE [att[s] EXCEPT !.step = "done", !.ok = ok, !.signal = signal]
  OBVIOUS
<1>2. att[s] \in AttemptStates /\ Fits(att[s])
  BY DEF SlotOK
<1>3. CASE s # Late
  <2>1. y \in AttemptStates /\ y.step = "done" /\ y.arts = att[s].arts
    BY <1>1, <1>2, <1>3 DEF AttemptStates, Steps
  <2>2. Fits(y)'
    BY <1>2, <2>1 DEF Fits
  <2>3. att' = [att EXCEPT ![s] = y]
    BY <1>1 DEF Return
  <2> QED
    BY <2>1, <2>2, <2>3, SlotStep
<1>4. CASE s = Late
  <2>1. y \in AttemptStates /\ Fits(y)'
    BY <1>1, <1>4, IdleType DEF Fits, Idle
  <2>2. att' = [att EXCEPT ![s] = y]
    BY <1>1 DEF Return
  <2> QED
    BY <2>1, <2>2, SlotStep
<1> QED
  BY <1>3, <1>4

(* The same without a signal. *)
LEMMA AnswerType ==
    ASSUME SlotOK, NEW s \in Slots, NEW ok \in BOOLEAN, Answer(s, ok),
           attempts' = attempts \/ Len(attempts') = Len(attempts)
    PROVE  SlotOK'
BY NoSignalType, ReturnType DEF Answer

(* A workflow enters a state, and asks for the attempt it needs. *)
LEMMA EnterType ==
    ASSUME FlowOK, SlotOK, NEW w \in Workflows, NEW f \in Flows, Enter(w, f),
           attempts' = attempts \/ Len(attempts') = Len(attempts)
    PROVE  FlowOK' /\ SlotOK'
<1>1. w \in Slots /\ Wanted(f) \in AttemptStates /\ Fits(Wanted(f))
  BY WantedType DEF Slots
<1>2. PICK y : y = Wanted(f)
  OBVIOUS
<1>3. Fits(y)'
  BY <1>1, <1>2 DEF Fits
<1>4. att' = [att EXCEPT ![w] = y] /\ wf' = [wf EXCEPT ![w] = f]
  BY <1>2 DEF Enter
<1>5. SlotOK'
  BY <1>1, <1>2, <1>3, <1>4, SlotStep
<1>6. FlowOK'
  BY <1>4 DEF FlowOK
<1> QED
  BY <1>5, <1>6

(* An attempt fails. *)
LEMMA RaiseType ==
    ASSUME TypeInv, NEW s \in Slots, NEW final \in BOOLEAN, Raise(s, final),
           attempts' = attempts \/ Len(attempts') = Len(attempts)
    PROVE  FlowOK' /\ SlotOK'
<1>0. FlowOK /\ SlotOK
  BY TypeParts
<1>1. CASE s = Late
  <2>1. att' = [att EXCEPT ![s] = Idle] /\ wf' = wf /\ Fits(Idle)'
    BY <1>1, IdleType DEF Raise, Fits, Idle
  <2>2. PICK y : y = Idle
    OBVIOUS
  <2>3. SlotOK'
    BY <1>0, <2>1, IdleType, SlotStep
  <2> QED
    BY <1>0, <2>1, <2>3 DEF FlowOK
<1>2. CASE s # Late
  <2>1. s \in Workflows
    BY <1>2 DEF Slots
  <2>2. \E f \in Flows : Enter(s, f)
    BY <1>2, <2>1, AgainType DEF Raise
  <2> QED
    BY <1>0, <2>1, <2>2, EnterType
<1> QED
  BY <1>1, <1>2

(* The parts of the type invariant hold in the next state. *)
LEMMA TypeNext ==
    ASSUME RestOK', FlowOK', SlotOK'
    PROVE  TypeInv'
<1>1. Flows \subseteq WorkflowStates /\ Works \subseteq Revisions
  BY DEF Flows, Works
<1>2. wf' \in [Workflows -> WorkflowStates]
  BY <1>1 DEF FlowOK
<1>3. artifacts' \in [Versions -> Revisions]
  BY <1>1 DEF RestOK
<1> QED
  BY <1>2, <1>3 DEF TypeInv, TypeOK, RestOK, FlowOK, SlotOK, Audit

(* An attempt that only writes the run record. *)
LEMMA RunStep ==
    ASSUME TypeInv, run' \in Runs, SlotOK', UNCHANGED <<wf, others>>
    PROVE  TypeInv'
<1>1. RestOK /\ FlowOK
  BY TypeParts
<1>2. RestOK'
  BY <1>1 DEF RestOK, others, world
<1>3. FlowOK'
  BY <1>1 DEF FlowOK
<1> QED
  BY <1>2, <1>3, TypeNext

(* A workflow that goes on with what its activity answered. *)
LEMMA FlowStep ==
    ASSUME TypeInv, NEW w \in Workflows, NEW f \in Flows, Enter(w, f), UNCHANGED steps
    PROVE  TypeInv'
<1>1. RestOK /\ FlowOK /\ SlotOK
  BY TypeParts
<1>2. RestOK'
  BY <1>1 DEF RestOK, steps, world
<1>3. FlowOK' /\ SlotOK'
  BY <1>1, EnterType DEF steps
<1> QED
  BY <1>2, <1>3, TypeNext

(* What is at hand of an attempt. *)
LEMMA SlotType ==
    ASSUME TypeInv, NEW s \in Slots
    PROVE  /\ att[s] \in AttemptStates /\ Fits(att[s])
           /\ att[s].arts \in Works
           /\ RestOK /\ FlowOK /\ SlotOK
           /\ (s # Late => s \in Workflows)
<1>1. RestOK /\ FlowOK /\ SlotOK
  BY TypeParts
<1>2. att[s] \in AttemptStates /\ Fits(att[s])
  BY <1>1 DEF SlotOK
<1>3. att[s].arts \in Works
  BY <1>2 DEF Works, Fits, AttemptStates
<1> QED
  BY <1>1, <1>2, <1>3 DEF Slots

-----------------------------------------------------------------------------
(* Research and selection keep the types. *)

LEMMA ResearchType == ASSUME TypeInv, NEW s \in Slots, Research(s) PROVE TypeInv'
<1>0. att[s] \in AttemptStates /\ RestOK /\ SlotOK /\ run \in Runs /\ att[s].kind = "research"
  BY SlotType DEF Research, At, RestOK
<1>a. UNCHANGED <<wf, others>> /\ attempts' = attempts
  BY DEF Research, others
<1>1. CASE run.researched
  <2>1. SlotOK' /\ run' = run
    BY <1>0, <1>a, <1>1, AnswerType DEF Research
  <2> QED
    BY <1>0, <1>a, <2>1, RunStep
<1>2. CASE ~run.researched
  <2>1. Goto(s, "answer") /\ run' = Status(run, "working")
    BY <1>2 DEF Research
  <2>2. SlotOK'
    BY <1>0, <1>a, <2>1, GotoType DEF Steps
  <2>3. run' \in Runs
    BY <1>0, <2>1, StatusType DEF Statuses
  <2> QED
    BY <1>a, <2>2, <2>3, RunStep
<1> QED
  BY <1>1, <1>2

LEMMA StoreResearchType == ASSUME TypeInv, NEW s \in Slots, StoreResearch(s) PROVE TypeInv'
<1>0. SlotOK /\ run \in Runs /\ UNCHANGED <<wf, others>> /\ attempts' = attempts
  BY SlotType DEF StoreResearch, RestOK, others
<1>1. run' \in Runs
  BY <1>0 DEF StoreResearch, Runs
<1>2. SlotOK'
  BY <1>0, AnswerType DEF StoreResearch
<1> QED
  BY <1>0, <1>1, <1>2, RunStep

LEMMA ScreenType == ASSUME TypeInv, NEW s \in Slots, Screen(s) PROVE TypeInv'
<1>0. att[s] \in AttemptStates /\ RestOK /\ SlotOK /\ run \in Runs /\ att[s].kind = "screen"
  BY SlotType DEF Screen, At, RestOK
<1>a. UNCHANGED <<wf, others>> /\ attempts' = attempts
  BY DEF Screen, others
<1>1. CASE Answer(s, TRUE) /\ UNCHANGED run
  <2>1. SlotOK' /\ run' = run
    BY <1>0, <1>a, <1>1, AnswerType
  <2> QED
    BY <1>0, <1>a, <2>1, RunStep
<1>2. CASE run' = Status(run, "no_safe_candidate") /\ Answer(s, FALSE)
  <2>1. SlotOK'
    BY <1>0, <1>a, <1>2, AnswerType
  <2>2. run' \in Runs
    BY <1>0, <1>2, StatusType DEF Statuses, Rest
  <2> QED
    BY <1>0, <1>a, <2>1, <2>2, RunStep
<1>3. CASE run' = Status(run, "working") /\ Goto(s, "answer")
  <2>2. SlotOK'
    BY <1>0, <1>a, <1>3, GotoType DEF Steps
  <2>3. run' \in Runs
    BY <1>0, <1>3, StatusType DEF Statuses
  <2> QED
    BY <1>a, <2>2, <2>3, RunStep
<1> QED
  BY <1>1, <1>2, <1>3 DEF Screen

LEMMA BlockType == ASSUME TypeInv, NEW s \in Slots, Block(s) PROVE TypeInv'
<1>0. att[s] \in AttemptStates /\ RestOK /\ SlotOK /\ run \in Runs /\ att[s].kind = "screen"
  BY SlotType DEF Block, At, RestOK
<1>a. UNCHANGED <<wf, others>> /\ attempts' = attempts
  BY DEF Block, others
<1>1. run' \in Runs
  <2>1. run.blocked + 1 \in 0..NumCandidates
    BY <1>0, Bounds DEF Block, Runs
  <2>2. run' = [run EXCEPT !.blocked = run.blocked + 1]
    BY DEF Block
  <2> QED
    BY <1>0, <2>1, <2>2 DEF Runs
<1>2. SlotOK'
  <2>1. CASE Goto(s, "hold")
    BY <1>0, <1>a, <2>1, GotoType DEF Steps
  <2>2. CASE UNCHANGED att
    BY <1>0, <1>a, <2>2, SlotSame
  <2> QED
    BY <2>1, <2>2 DEF Block
<1> QED
  BY <1>a, <1>1, <1>2, RunStep

LEMMA NoneSafeType == ASSUME TypeInv, NEW s \in Slots, NoneSafe(s) PROVE TypeInv'
<1>0. SlotOK /\ run \in Runs /\ UNCHANGED <<wf, others>> /\ attempts' = attempts
  BY SlotType DEF NoneSafe, RestOK, others
<1>1. run' \in Runs
  BY <1>0, StatusType DEF NoneSafe, Statuses, Rest
<1>2. SlotOK'
  BY <1>0, AnswerType DEF NoneSafe
<1> QED
  BY <1>0, <1>1, <1>2, RunStep

LEMMA SelectType == ASSUME TypeInv, NEW s \in Slots, Select(s) PROVE TypeInv'
<1>0. SlotOK /\ run \in Runs /\ UNCHANGED <<wf, others>> /\ attempts' = attempts
  BY SlotType DEF Select, RestOK, others
<1>1. run' \in Runs
  BY <1>0 DEF Select, Runs
<1>2. SlotOK'
  BY <1>0, AnswerType DEF Select
<1> QED
  BY <1>0, <1>1, <1>2, RunStep

-----------------------------------------------------------------------------
(* generate_package_run keeps the types. *)

LEMMA RevisedType ==
    ASSUME NEW r \in Runs, NEW a \in AttemptStates, r.version < MaxVersion
    PROVE  Revised(r, a) \in Runs
<1>1. Cleared(r) \in Runs
  BY ClearedType
<1>2. \A b \in Briefs : [Cleared(r) EXCEPT !.snapshot = "none", !.brief = b] \in Runs
  BY <1>1 DEF Runs
<1>3. (IF a.preserve THEN Cleared(r).brief ELSE NoBrief) \in Briefs
  BY <1>1, NoSignalType DEF Runs
<1> QED
  BY <1>2, <1>3 DEF Revised

LEMMA GenerateType == ASSUME TypeInv, NEW s \in Slots, Generate(s) PROVE TypeInv'
<1>0. att[s] \in AttemptStates /\ SlotOK /\ run \in Runs /\ artifacts \in [Versions -> Works]
      /\ template \in Templates
  BY SlotType DEF RestOK
<1>a. UNCHANGED <<wf, others>> /\ attempts' = attempts
  BY DEF Generate, others
<1>1. run' \in Runs
  BY <1>0, RevisedType, StatusType DEF Generate, Statuses
<1>2. PICK y : y = [att[s] EXCEPT
                        !.step = "brief", !.version = run'.version, !.brief = run'.brief,
                        !.template = IF run'.snapshot = "none" THEN template
                                     ELSE run'.snapshot,
                        !.listings = run'.listings, !.arts = artifacts[run'.version]]
  OBVIOUS
<1>3. /\ run'.version \in Versions /\ run'.version \in 0..MaxVersion
      /\ run'.brief \in Briefs /\ run'.snapshot \in Templates \cup {"none"}
      /\ run'.listings \in 0..MaxVersion
  BY <1>1, Bounds DEF Runs, Versions
<1>4. artifacts[run'.version] \in Revisions /\ Room(artifacts[run'.version])
  BY <1>0, <1>3 DEF Works
<1>5. /\ y \in AttemptStates /\ y.kind = att[s].kind /\ y.step = "brief" /\ y.version = run'.version
      /\ y.arts = artifacts[run'.version]
  <2>1. (IF run'.snapshot = "none" THEN template ELSE run'.snapshot) \in Templates \cup {"none"}
    BY <1>0, <1>3
  <2> QED
    BY <1>0, <1>2, <1>3, <1>4, <2>1 DEF AttemptStates, Steps
<1>6. Fits(y)'
  BY <1>3, <1>4, <1>5 DEF Fits
<1>7. att' = [att EXCEPT ![s] = y]
  BY <1>2 DEF Generate
<1>8. SlotOK'
  BY <1>0, <1>a, <1>5, <1>6, <1>7, SlotStep
<1> QED
  BY <1>a, <1>1, <1>8, RunStep

LEMMA WriteBriefType == ASSUME TypeInv, NEW s \in Slots, WriteBrief(s) PROVE TypeInv'
<1>0. att[s] \in AttemptStates /\ Fits(att[s]) /\ SlotOK /\ run \in Runs
  BY SlotType DEF RestOK
<1>a. UNCHANGED <<wf, others>> /\ attempts' = attempts
  BY DEF WriteBrief, others
<1>1. att[s].kind = "generate" /\ att[s].version \in Versions
  BY <1>0 DEF WriteBrief, At, Fits
<1>2. PICK b : b = IF att[s].brief = NoBrief THEN [by |-> "creative", version |-> att[s].version]
                   ELSE att[s].brief
  OBVIOUS
<1>3. b \in Briefs
  BY <1>0, <1>1, <1>2, Bounds DEF Briefs, AttemptStates, Origins, Versions
<1>4. run' \in Runs
  BY <1>0, <1>2, <1>3 DEF WriteBrief, Runs
<1>5. PICK y : y = [att[s] EXCEPT !.brief = b, !.step = "artwork"]
  OBVIOUS
<1>6. /\ y \in AttemptStates /\ y.kind = att[s].kind /\ y.version = att[s].version
      /\ y.arts = att[s].arts
  BY <1>0, <1>3, <1>5 DEF AttemptStates, Steps
<1>7. Fits(y)'
  BY <1>0, <1>1, <1>6 DEF Fits
<1>8. att' = [att EXCEPT ![s] = y]
  BY <1>2, <1>5 DEF WriteBrief
<1>9. SlotOK'
  BY <1>0, <1>a, <1>6, <1>7, <1>8, SlotStep
<1> QED
  BY <1>a, <1>4, <1>9, RunStep

(* Drawing an image leaves room for what its checks say. *)
LEMMA DrawnWork ==
    ASSUME NEW arts \in Works, Undrawn(arts)
    PROVE  Append(arts, "source") \in Works
<1>1. arts \in Seq(Verdicts \cup {"source"}) /\ Len(arts) < MaxRevisions
  BY RevisionSeq DEF Works, Room
<1>2. PICK x : x = Append(arts, "source")
  OBVIOUS
<1>3. /\ x \in Seq(Verdicts \cup {"source"}) /\ Len(x) <= MaxRevisions
      /\ Len(x) \in DOMAIN x /\ x[Len(x)] = "source"
  BY <1>1, <1>2, Bounds
<1>4. x \in Revisions
  BY <1>3, RevisionSeq
<1>5. ~Undrawn(x)
  BY <1>3 DEF Undrawn
<1> QED
  BY <1>2, <1>4, <1>5 DEF Works, Room

(* What is to be repaired leaves room for another revision. *)
LEMMA PreparedWork ==
    ASSUME NEW arts \in Works, arts # <<>>, NEW verdict \in Verdicts,
           verdict = "fixable" => Len(arts) < MaxRevisions
    PROVE  [arts EXCEPT ![Len(arts)] = verdict] \in Works
<1>1. arts \in Seq(Verdicts \cup {"source"}) /\ Len(arts) <= MaxRevisions
  BY RevisionSeq DEF Works
<1>2. PICK x : x = [arts EXCEPT ![Len(arts)] = verdict]
  OBVIOUS
<1>3. /\ x \in Seq(Verdicts \cup {"source"}) /\ Len(x) = Len(arts)
      /\ Len(x) \in DOMAIN x /\ x[Len(x)] = verdict
  BY <1>1, <1>2
<1>4. x \in Revisions
  BY <1>1, <1>3, RevisionSeq
<1>5. Undrawn(x) => verdict = "fixable"
  BY <1>3 DEF Undrawn
<1>6. Room(x)
  BY <1>3, <1>5 DEF Room
<1> QED
  BY <1>2, <1>4, <1>6 DEF Works

(* What was made is saved, or was saved by another attempt. *)
LEMMA SaveType ==
    ASSUME TypeInv, NEW s \in Slots, NEW arts \in Works, At(s, "generate", "artwork"),
           Save(s, arts), attempts' = attempts
    PROVE  artifacts' \in [Versions -> Works] /\ FlowOK' /\ SlotOK'
<1>0. /\ att[s] \in AttemptStates /\ Fits(att[s]) /\ SlotOK /\ FlowOK
      /\ artifacts \in [Versions -> Works] /\ att[s].kind = "generate"
  BY SlotType DEF RestOK, At
<1>1. att[s].version \in Versions
  BY <1>0 DEF At, Fits
<1>2. CASE artifacts[att[s].version] = att[s].arts
  <2>1. artifacts' = [artifacts EXCEPT ![att[s].version] = arts] /\ wf' = wf
    BY <1>2 DEF Save
  <2>2. PICK y : y = [att[s] EXCEPT !.arts = arts]
    OBVIOUS
  <2>3. arts \in Revisions /\ Room(arts)
    BY DEF Works
  <2>4. /\ y \in AttemptStates /\ y.kind = "generate" /\ y.version = att[s].version
        /\ y.arts = arts
    BY <1>0, <2>2, <2>3 DEF AttemptStates
  <2>5. Fits(y)'
    BY <1>1, <2>3, <2>4 DEF Fits
  <2>6. att' = [att EXCEPT ![s] = y]
    BY <1>2, <2>2 DEF Save
  <2>7. SlotOK'
    BY <1>0, <2>4, <2>5, <2>6, SlotStep
  <2>8. FlowOK'
    BY <1>0, <2>1 DEF FlowOK
  <2>9. artifacts' \in [Versions -> Works]
    BY <1>0, <2>1
  <2> QED
    BY <2>7, <2>8, <2>9
<1>3. CASE artifacts[att[s].version] # att[s].arts
  <2>1. Raise(s, FALSE) /\ artifacts' = artifacts
    BY <1>3 DEF Save
  <2>2. FlowOK' /\ SlotOK'
    BY <2>1, RaiseType
  <2> QED
    BY <1>0, <2>1, <2>2
<1> QED
  BY <1>2, <1>3

LEMMA DrawType == ASSUME TypeInv, NEW s \in Slots, Draw(s) PROVE TypeInv'
<1>0. att[s].arts \in Works /\ RestOK
  BY SlotType
<1>1. UNCHANGED <<run, attempts, publishes, world>> /\ attempts' = attempts
      /\ Save(s, Append(att[s].arts, "source")) /\ Undrawn(att[s].arts)
      /\ At(s, "generate", "artwork")
  BY DEF Draw
<1>2. artifacts' \in [Versions -> Works] /\ FlowOK' /\ SlotOK'
  BY <1>0, <1>1, DrawnWork, SaveType
<1>3. RestOK'
  BY <1>0, <1>1, <1>2 DEF RestOK, world
<1> QED
  BY <1>2, <1>3, TypeNext

LEMMA PrepareType == ASSUME TypeInv, NEW s \in Slots, Prepare(s) PROVE TypeInv'
<1>0. att[s].arts \in Works /\ RestOK /\ run \in Runs
  BY SlotType DEF RestOK
<1>1. UNCHANGED <<attempts, publishes, world>> /\ attempts' = attempts /\ att[s].arts # <<>>
      /\ At(s, "generate", "artwork") /\ run' = Status(run, "working")
  BY DEF Prepare
<1>2. PICK verdict \in Verdicts :
           /\ verdict = "fixable" => Len(att[s].arts) < MaxRevisions
           /\ Save(s, [att[s].arts EXCEPT ![Len(att[s].arts)] = verdict])
  BY DEF Prepare
<1>3. artifacts' \in [Versions -> Works] /\ FlowOK' /\ SlotOK'
  BY <1>0, <1>1, <1>2, PreparedWork, SaveType
<1>4. run' \in Runs
  BY <1>0, <1>1, StatusType DEF Statuses
<1>5. RestOK'
  BY <1>0, <1>1, <1>3, <1>4 DEF RestOK, world
<1> QED
  BY <1>3, <1>5, TypeNext

LEMMA SettleType == ASSUME TypeInv, NEW s \in Slots, Settle(s) PROVE TypeInv'
<1>0. /\ att[s] \in AttemptStates /\ SlotOK /\ run \in Runs /\ att[s].kind = "generate"
      /\ Fits(att[s]) /\ att[s].step = "artwork"
  BY SlotType DEF RestOK, Settle, At
<1>a. UNCHANGED <<wf, others>> /\ attempts' = attempts
  BY DEF Settle, others
<1>1. PICK passed \in BOOLEAN : passed <=> att[s].arts[Len(att[s].arts)] = "passed"
  OBVIOUS
<1>2. run' = [run EXCEPT !.passed = passed]
  BY <1>1 DEF Settle
<1>3. run' \in Runs
  BY <1>0, <1>2 DEF Runs
<1>4. \E step \in {"list", "hold"} : Goto(s, step)
  BY DEF Settle
<1>5. SlotOK'
  BY <1>0, <1>a, <1>4, GotoType DEF Steps, Fits
<1> QED
  BY <1>a, <1>3, <1>5, RunStep

LEMMA HoldForBriefType == ASSUME TypeInv, NEW s \in Slots, HoldForBrief(s) PROVE TypeInv'
<1>0. SlotOK /\ run \in Runs /\ UNCHANGED <<wf, others>> /\ attempts' = attempts
  BY SlotType DEF HoldForBrief, RestOK, others
<1>1. run' \in Runs
  BY <1>0, StatusType DEF HoldForBrief, Statuses
<1>2. SlotOK'
  BY <1>0, AnswerType DEF HoldForBrief
<1> QED
  BY <1>0, <1>1, <1>2, RunStep

LEMMA WriteListingsType == ASSUME TypeInv, NEW s \in Slots, WriteListings(s) PROVE TypeInv'
<1>0. /\ att[s] \in AttemptStates /\ SlotOK /\ run \in Runs /\ att[s].kind = "generate"
      /\ Fits(att[s]) /\ att[s].step = "list"
  BY SlotType DEF RestOK, WriteListings, At
<1>a. UNCHANGED <<wf, others>> /\ attempts' = attempts
  BY DEF WriteListings, others
<1>b. att[s].version \in Versions
  BY <1>0 DEF Fits
<1>1. CASE att[s].listings # 0
  <2>1. Goto(s, "store") /\ run' = run
    BY <1>1 DEF WriteListings
  <2>2. SlotOK'
    BY <1>0, <1>a, <1>b, <2>1, GotoType DEF Steps
  <2> QED
    BY <1>0, <1>a, <2>1, <2>2, RunStep
<1>2. CASE att[s].listings = 0
  <2>1. run' = [Status(run, "working") EXCEPT !.listings = att[s].version]
    BY <1>2 DEF WriteListings
  <2>2. Status(run, "working") \in Runs
    BY <1>0, StatusType DEF Statuses
  <2>3. att[s].version \in 0..MaxVersion
    BY <1>b DEF Versions
  <2>4. run' \in Runs
    BY <2>1, <2>2, <2>3 DEF Runs
  <2>5. PICK y : y = [att[s] EXCEPT !.step = "store", !.listings = att[s].version]
    OBVIOUS
  <2>6. /\ y \in AttemptStates /\ y.kind = att[s].kind /\ y.version = att[s].version
        /\ y.arts = att[s].arts
    BY <1>0, <2>3, <2>5 DEF AttemptStates, Steps
  <2>7. Fits(y)'
    BY <1>0, <1>b, <2>6 DEF Fits
  <2>8. att' = [att EXCEPT ![s] = y]
    BY <1>2, <2>5 DEF WriteListings
  <2>9. SlotOK'
    BY <1>0, <1>a, <2>6, <2>7, <2>8, SlotStep
  <2> QED
    BY <1>a, <2>4, <2>9, RunStep
<1> QED
  BY <1>1, <1>2

LEMMA StorePackageType == ASSUME TypeInv, NEW s \in Slots, StorePackage(s) PROVE TypeInv'
<1>0. SlotOK /\ run \in Runs /\ UNCHANGED <<wf, others>> /\ attempts' = attempts
      /\ att[s] \in AttemptStates
  BY SlotType DEF StorePackage, RestOK, others
<1>1. run' \in Runs
  <2>1. Status(run, "awaiting_approval") \in Runs
    BY <1>0, StatusType DEF Statuses
  <2>2. /\ att[s].brief \in Briefs /\ att[s].listings \in 0..MaxVersion
        /\ att[s].template \in Templates \cup {"none"}
    BY <1>0 DEF AttemptStates
  <2>3. [at |-> att[s].template, edited |-> FALSE] \in Quotes
    BY <2>2 DEF Quotes
  <2> QED
    BY <2>1, <2>2, <2>3 DEF StorePackage, Runs
<1>2. SlotOK'
  BY <1>0, AnswerType DEF StorePackage
<1> QED
  BY <1>0, <1>1, <1>2, RunStep

-----------------------------------------------------------------------------
(* rewrite_failed_brief_run keeps the types. *)

(* Rewrite attempts are counted. *)
LEMMA UsedType ==
    ASSUME TypeInv
    PROVE  /\ IsFiniteSet(Accepted) /\ Cardinality(Accepted) \in Nat
           /\ Used \in Nat /\ Len(attempts) \in Nat /\ Len(attempts) <= Used
           /\ attempts \in Seq(Audit)
<1>1. RestOK
  BY TypeParts
<1>2. attempts \in Seq(Audit) /\ run.version \in Nat
  BY <1>1, Bounds DEF RestOK, Runs, Versions
<1>3. IsFiniteSet(1..Len(attempts)) /\ Accepted \subseteq 1..Len(attempts)
  <2>1. Len(attempts) \in Int /\ DOMAIN attempts = 1..Len(attempts)
    BY <1>2, Entries
  <2>2. IsFiniteSet(1..Len(attempts))
    BY <2>1, FS_Interval
  <2> QED
    BY <2>1, <2>2 DEF Accepted
<1>4. IsFiniteSet(Accepted) /\ Cardinality(Accepted) \in Nat
  BY <1>3, FS_Subset, FS_CardinalityType
<1>5. PICK n \in Nat : n = Cardinality(Accepted)
  BY <1>4
<1>6. Used = (IF run.version - 1 - n > 0 THEN run.version - 1 - n ELSE 0) + Len(attempts)
  BY <1>5 DEF Used
<1>7. Used \in Nat /\ Len(attempts) \in Nat /\ Len(attempts) <= Used
  BY <1>2, <1>5, <1>6
<1> QED
  BY <1>2, <1>4, <1>7

(* Attempts without an answer are closed; there are as many as before. *)
LEMMA InterruptedType ==
    ASSUME TypeInv
    PROVE  /\ Interrupted \in Seq(Audit)
           /\ Len(Interrupted) = Len(attempts)
           /\ \A i \in 1..Len(attempts) :
                 /\ Interrupted[i].from = attempts[i].from
                 /\ Interrupted[i].outcome = "accepted" <=> attempts[i].outcome = "accepted"
                 /\ Interrupted[i] \in Audit
<1>1. attempts \in Seq(Audit)
  BY UsedType
<1>2. \A i \in 1..Len(attempts) :
         attempts[i] \in Audit
  BY <1>1, Entries
<1>3. PICK e : e = Interrupted
  OBVIOUS
<1>4. e = [i \in 1..Len(attempts) |->
               IF attempts[i].outcome = "started" THEN [attempts[i] EXCEPT !.outcome = "interrupted"]
               ELSE attempts[i]]
  BY <1>1, <1>3, Entries DEF Interrupted
<1>5. \A i \in 1..Len(attempts) :
         /\ e[i] \in Audit
         /\ e[i].from = attempts[i].from
         /\ e[i].outcome = "accepted" <=> attempts[i].outcome = "accepted"
  <2>1. TAKE i \in 1..Len(attempts)
  <2>2. CASE attempts[i].outcome = "started"
    <3>1. e[i] = [attempts[i] EXCEPT !.outcome = "interrupted"]
      BY <1>4, <2>2
    <3> QED
      BY <1>2, <2>2, <3>1 DEF Outcomes, Audit
  <2>3. CASE attempts[i].outcome # "started"
    <3>1. e[i] = attempts[i]
      BY <1>4, <2>3
    <3> QED
      BY <1>2, <3>1
  <2> QED
    BY <2>2, <2>3
<1>6. e \in [1..Len(attempts) -> Audit]
  BY <1>4, <1>5
<1>7. Len(attempts) \in Nat
  BY <1>1
<1>8. e \in Seq(Audit) /\ Len(e) = Len(attempts)
  BY <1>6, <1>7, Sequenced
<1> QED
  BY <1>3, <1>5, <1>8

(* The outcome of one attempt changes. *)
LEMMA MarkType ==
    ASSUME TypeInv, NEW s \in Slots, At(s, "rewrite", "answer"), NEW outcome \in Outcomes,
           Mark(s, outcome)
    PROVE  /\ attempts' \in Seq(Audit)
           /\ Len(attempts') = Len(attempts) /\ Len(attempts) \in Nat
           /\ att[s].entry \in 1..Len(attempts)
           /\ \A i \in 1..Len(attempts) : attempts'[i] =
                 IF i = att[s].entry THEN [attempts[i] EXCEPT !.outcome = outcome] ELSE attempts[i]
<1>1. attempts \in Seq(Audit) /\ Len(attempts) \in Nat
  BY UsedType
<1>2. att[s].entry \in 1..Len(attempts)
  BY SlotType DEF At, Fits
<1>3. PICK x : x = [attempts[att[s].entry] EXCEPT !.outcome = outcome]
  OBVIOUS
<1>4. attempts[att[s].entry] \in Audit
  BY <1>1, <1>2, Entries
<1>5. x \in Audit
  BY <1>3, <1>4 DEF Audit
<1>6. attempts' = [attempts EXCEPT ![att[s].entry] = x]
  BY <1>3 DEF Mark
<1>7. attempts' \in Seq(Audit) /\ Len(attempts') = Len(attempts)
  BY <1>1, <1>2, <1>5, <1>6
<1>8. \A i \in 1..Len(attempts) : attempts'[i] = IF i = att[s].entry THEN x ELSE attempts[i]
  BY <1>1, <1>2, <1>6
<1> QED
  BY <1>1, <1>2, <1>3, <1>7, <1>8

(* A step that writes the run and the audit trail, and whose attempt goes on. *)
LEMMA TrailStep ==
    ASSUME TypeInv, run' \in Runs, SlotOK',
           attempts' \in Seq(Audit), Len(attempts') <= MaxRewrites,
           UNCHANGED <<wf, artifacts, publishes, world>>
    PROVE  TypeInv'
<1>1. RestOK /\ FlowOK
  BY TypeParts
<1>2. RestOK'
  BY <1>1 DEF RestOK, world
<1>3. FlowOK'
  BY <1>1 DEF FlowOK
<1> QED
  BY <1>2, <1>3, TypeNext

LEMMA RewriteNothingType == ASSUME TypeInv, NEW s \in Slots, RewriteNothing(s) PROVE TypeInv'
<1>0. SlotOK /\ run \in Runs /\ UNCHANGED <<wf, others>> /\ attempts' = attempts /\ run' = run
  BY SlotType DEF RewriteNothing, RestOK, others
<1>1. PICK ok \in BOOLEAN : ok = (run.status = "pending") /\ Answer(s, ok)
  BY DEF RewriteNothing
<1>2. SlotOK'
  BY <1>0, <1>1, AnswerType
<1> QED
  BY <1>0, <1>2, RunStep

LEMMA FallBackType == ASSUME TypeInv, NEW s \in Slots, FallBack(s) PROVE TypeInv'
<1>0. SlotOK /\ run \in Runs /\ Len(attempts) <= MaxRewrites
  BY SlotType DEF RestOK
<1>1. attempts' \in Seq(Audit) /\ Len(attempts') = Len(attempts)
  BY InterruptedType DEF FallBack
<1>2. SlotOK'
  BY <1>0, <1>1, AnswerType DEF FallBack
<1>3. run' \in Runs
  <2>1. Cleared(run) \in Runs
    BY <1>0, ClearedType DEF FallBack
  <2>2. [by |-> "fallback", version |-> run.version] \in Briefs
    BY <1>0, Bounds DEF Runs, Versions, Briefs, Origins
  <2> QED
    BY <2>1, <2>2 DEF FallBack, Runs, Statuses
<1> QED
  BY <1>0, <1>1, <1>2, <1>3, TrailStep DEF FallBack

LEMMA GiveUpType == ASSUME TypeInv, NEW s \in Slots, GiveUp(s) PROVE TypeInv'
<1>0. SlotOK /\ run \in Runs /\ Len(attempts) <= MaxRewrites
  BY SlotType DEF RestOK
<1>1. attempts' \in Seq(Audit) /\ Len(attempts') = Len(attempts)
  BY InterruptedType DEF GiveUp
<1>2. SlotOK'
  BY <1>0, <1>1, AnswerType DEF GiveUp
<1>3. run' \in Runs
  BY <1>0, StatusType DEF GiveUp, Statuses
<1> QED
  BY <1>0, <1>1, <1>2, <1>3, TrailStep DEF GiveUp

(* The trail after a new attempt. *)
LEMMA ReservedType ==
    ASSUME TypeInv, NEW s \in Slots, ReserveRewrite(s)
    PROVE  /\ attempts' \in Seq(Audit)
           /\ Len(attempts') = Len(attempts) + 1 /\ Len(attempts) \in Nat
           /\ Len(attempts') <= MaxRewrites
           /\ \A i \in 1..Len(attempts) : attempts'[i] = Interrupted[i]
           /\ attempts'[Len(attempts')] = [from |-> run.version, outcome |-> "started"]
<1>1. Len(attempts) \in Nat /\ Used \in Nat /\ Len(attempts) <= Used /\ Used < MaxRewrites
  BY UsedType DEF ReserveRewrite
<1>2. PICK e : e = Interrupted
  OBVIOUS
<1>3. e \in Seq(Audit) /\ Len(e) = Len(attempts)
  BY <1>2, InterruptedType
<1>4. PICK x : x = [from |-> run.version, outcome |-> "started"]
  OBVIOUS
<1>5. x \in Audit
  <2>1. run \in Runs
    BY SlotType DEF RestOK
  <2> QED
    BY <1>4, <2>1 DEF Runs, Outcomes, Audit
<1>6. attempts' = Append(e, x)
  BY <1>2, <1>4 DEF ReserveRewrite
<1>7. /\ attempts' \in Seq(Audit)
      /\ Len(attempts') = Len(attempts) + 1
      /\ \A i \in 1..Len(attempts) : attempts'[i] = e[i]
      /\ attempts'[Len(attempts')] = x
  BY <1>1, <1>3, <1>5, <1>6
<1>8. Len(attempts') <= MaxRewrites
  BY <1>1, <1>7, Bounds
<1> QED
  BY <1>1, <1>2, <1>4, <1>7, <1>8

LEMMA ReserveRewriteType == ASSUME TypeInv, NEW s \in Slots, ReserveRewrite(s) PROVE TypeInv'
<1>0. SlotOK /\ run \in Runs /\ att[s] \in AttemptStates /\ Fits(att[s])
      /\ att[s].kind = "rewrite"
  BY SlotType DEF RestOK, ReserveRewrite, At
<1>1. /\ attempts' \in Seq(Audit)
      /\ Len(attempts') = Len(attempts) + 1 /\ Len(attempts) \in Nat
      /\ Len(attempts') <= MaxRewrites
  BY ReservedType
<1>2. PICK y : y = [att[s] EXCEPT !.step = "answer", !.version = run.version,
                                  !.brief = run.brief, !.entry = Len(attempts')]
  OBVIOUS
<1>3. /\ run.version \in 0..MaxVersion /\ run.brief \in Briefs
      /\ Len(attempts') \in 0..MaxRewrites
  BY <1>0, <1>1, Bounds DEF Runs, Versions
<1>4. /\ y \in AttemptStates /\ y.kind = "rewrite" /\ y.entry = Len(attempts')
      /\ y.arts = att[s].arts
  BY <1>0, <1>2, <1>3 DEF AttemptStates, Steps
<1>5. Fits(y)'
  BY <1>0, <1>1, <1>4 DEF Fits
<1>6. att' = [att EXCEPT ![s] = y]
  BY <1>2 DEF ReserveRewrite
<1>7. \A i \in 1..Len(attempts) : i \in 1..Len(attempts')
  BY <1>1
<1>8. SlotOK'
  BY <1>0, <1>4, <1>5, <1>6, <1>7, SlotStep
<1> QED
  BY <1>0, <1>1, <1>8, TrailStep DEF ReserveRewrite

LEMMA RewriteSupersededType == ASSUME TypeInv, NEW s \in Slots, RewriteSuperseded(s) PROVE TypeInv'
<1>0. SlotOK /\ run \in Runs /\ run' = run /\ Len(attempts) <= MaxRewrites
  BY SlotType DEF RestOK, RewriteSuperseded
<1>1. attempts' \in Seq(Audit) /\ Len(attempts') = Len(attempts)
  BY MarkType DEF RewriteSuperseded, Outcomes
<1>2. PICK ok \in BOOLEAN : ok = (run.status = "pending") /\ Answer(s, ok)
  BY DEF RewriteSuperseded
<1>3. SlotOK'
  BY <1>0, <1>1, <1>2, AnswerType
<1> QED
  BY <1>0, <1>1, <1>3, TrailStep DEF RewriteSuperseded

LEMMA RewriteRejectedType == ASSUME TypeInv, NEW s \in Slots, RewriteRejected(s) PROVE TypeInv'
<1>0. SlotOK /\ run \in Runs /\ run' = run /\ Len(attempts) <= MaxRewrites
      /\ att[s].kind = "rewrite"
  BY SlotType DEF RestOK, RewriteRejected, At
<1>1. attempts' \in Seq(Audit) /\ Len(attempts') = Len(attempts)
  BY MarkType DEF RewriteRejected, Outcomes
<1>2. Goto(s, "start")
  BY DEF RewriteRejected
<1>3. SlotOK'
  BY <1>0, <1>1, <1>2, GotoType DEF Steps
<1> QED
  BY <1>0, <1>1, <1>3, TrailStep DEF RewriteRejected

LEMMA RewriteAcceptedType == ASSUME TypeInv, NEW s \in Slots, RewriteAccepted(s) PROVE TypeInv'
<1>0. SlotOK /\ run \in Runs /\ Len(attempts) <= MaxRewrites
  BY SlotType DEF RestOK
<1>1. attempts' \in Seq(Audit) /\ Len(attempts') = Len(attempts)
  BY MarkType DEF RewriteAccepted, Outcomes
<1>2. SlotOK'
  BY <1>0, <1>1, AnswerType DEF RewriteAccepted
<1>3. run' \in Runs
  <2>1. Cleared(run) \in Runs
    BY <1>0, ClearedType DEF RewriteAccepted
  <2>2. [by |-> "rewrite", version |-> run.version] \in Briefs
    BY <1>0, Bounds DEF Runs, Versions, Briefs, Origins
  <2> QED
    BY <2>1, <2>2 DEF RewriteAccepted, Runs, Statuses
<1> QED
  BY <1>0, <1>1, <1>2, <1>3, TrailStep DEF RewriteAccepted

-----------------------------------------------------------------------------
(* Faults keep the types. *)

(* What happens is counted up to its bound. *)
Budgets == [acts: 0..MaxActs, shifts: 0..MaxShifts, faults: 0..MaxFaults]

LEMMA SpendType ==
    ASSUME TypeInv, Spend("acts", MaxActs) \/ Spend("shifts", MaxShifts) \/ Spend("faults", MaxFaults)
    PROVE  budget' \in Budgets
<1>1. budget \in Budgets
  BY TypeParts DEF RestOK, Budgets
<1>2. CASE Spend("acts", MaxActs)
  <2>1. budget' = [budget EXCEPT !["acts"] = budget["acts"] + 1] /\ budget.acts < MaxActs
    BY <1>2 DEF Spend
  <2> QED
    BY <1>1, <2>1, Bounds DEF Budgets
<1>3. CASE Spend("shifts", MaxShifts)
  <2>1. budget' = [budget EXCEPT !["shifts"] = budget["shifts"] + 1] /\ budget.shifts < MaxShifts
    BY <1>3 DEF Spend
  <2> QED
    BY <1>1, <2>1, Bounds DEF Budgets
<1>4. CASE Spend("faults", MaxFaults)
  <2>1. budget' = [budget EXCEPT !["faults"] = budget["faults"] + 1] /\ budget.faults < MaxFaults
    BY <1>4 DEF Spend
  <2> QED
    BY <1>1, <2>1, Bounds DEF Budgets
<1> QED
  BY <1>2, <1>3, <1>4

(* Steps that count an event. *)
LEMMA EventStep ==
    ASSUME TypeInv, budget' \in Budgets, run' \in Runs, FlowOK', SlotOK',
           attempts' \in Seq(Audit), Len(attempts') <= MaxRewrites,
           UNCHANGED <<artifacts, publishes, retry, template, market, mode>>
    PROVE  TypeInv'
<1>1. RestOK
  BY TypeParts
<1>2. RestOK'
  BY <1>1 DEF RestOK, Budgets
<1> QED
  BY <1>2, TypeNext

LEMMA ProviderErrorType == ASSUME TypeInv, NEW s \in Slots, ProviderError(s) PROVE TypeInv'
<1>0. /\ run \in Runs /\ run' = run /\ Len(attempts) <= MaxRewrites /\ attempts \in Seq(Audit)
      /\ UNCHANGED <<artifacts, publishes, retry, template, market, mode>>
  BY SlotType DEF RestOK, ProviderError
<1>1. attempts' \in Seq(Audit) /\ Len(attempts') = Len(attempts)
  BY <1>0, MarkType DEF ProviderError, Outcomes
<1>2. FlowOK' /\ SlotOK'
  BY <1>1, RaiseType DEF ProviderError
<1>3. budget' \in Budgets
  BY SpendType DEF ProviderError
<1> QED
  BY <1>0, <1>1, <1>2, <1>3, EventStep

LEMMA RefusedType == ASSUME TypeInv, NEW s \in Slots, Refused(s) PROVE TypeInv'
<1>0. /\ run \in Runs /\ run' = run /\ Len(attempts) <= MaxRewrites /\ attempts \in Seq(Audit)
      /\ UNCHANGED <<artifacts, publishes, retry, template, market, mode>>
      /\ attempts' = attempts
  BY SlotType DEF RestOK, Refused
<1>2. FlowOK' /\ SlotOK'
  BY <1>0, RaiseType DEF Refused
<1>3. budget' \in Budgets
  BY SpendType DEF Refused
<1> QED
  BY <1>0, <1>2, <1>3, EventStep

LEMMA CutOffType == ASSUME TypeInv, NEW w \in Workflows, CutOff(w) PROVE TypeInv'
<1>0. /\ run \in Runs /\ run' = run /\ Len(attempts) <= MaxRewrites /\ attempts \in Seq(Audit)
      /\ UNCHANGED <<artifacts, publishes, retry, template, market, mode>>
      /\ attempts' = attempts /\ FlowOK /\ SlotOK
  BY TypeParts DEF RestOK, CutOff
<1>1. Enter(w, Again(w)) /\ Again(w) \in Flows
  BY AgainType DEF CutOff
<1>2. FlowOK' /\ SlotOK'
  BY <1>0, <1>1, EnterType
<1>3. budget' \in Budgets
  BY SpendType DEF CutOff
<1> QED
  BY <1>0, <1>2, <1>3, EventStep

LEMMA TimeOutType == ASSUME TypeInv, NEW w \in Workflows, TimeOut(w) PROVE TypeInv'
<1>0. /\ run \in Runs /\ run' = run /\ Len(attempts) <= MaxRewrites /\ attempts \in Seq(Audit)
      /\ UNCHANGED <<artifacts, publishes, retry, template, market, mode>>
      /\ attempts' = attempts /\ FlowOK /\ SlotOK
  BY TypeParts DEF RestOK, TimeOut
<1>1. Again(w) \in Flows /\ wf' = [wf EXCEPT ![w] = Again(w)]
  BY AgainType DEF TimeOut
<1>2. FlowOK'
  BY <1>0, <1>1 DEF FlowOK
<1>3. PICK y : y = Wanted(Again(w))
  OBVIOUS
<1>4. y \in AttemptStates /\ Fits(y)
  BY <1>1, <1>3, WantedType
<1>5. PICK x : x = att[w]
  OBVIOUS
<1>6. w \in Slots /\ x \in AttemptStates /\ Fits(x) /\ Late \in Slots /\ Late # w
  BY <1>0, <1>5, Bounds DEF SlotOK, Slots, Workflows, Late
<1>7. att' = [att EXCEPT ![Late] = x, ![w] = y]
  BY <1>3, <1>5 DEF TimeOut
<1>8. att \in [Slots -> AttemptStates]
  BY <1>0 DEF SlotOK
<1>9. /\ att' \in [Slots -> AttemptStates]
      /\ \A u \in Slots : att'[u] = IF u = w THEN y ELSE IF u = Late THEN x ELSE att[u]
  BY <1>4, <1>6, <1>7, <1>8
<1>10. ASSUME NEW u \in Slots PROVE Fits(att[u])'
  <2>1. CASE u = w
    BY <1>0, <1>4, <1>9, <2>1 DEF Fits
  <2>2. CASE u # w /\ u = Late
    BY <1>0, <1>6, <1>9, <2>2 DEF Fits
  <2>3. CASE u # w /\ u # Late
    BY <1>0, <1>9, <2>3 DEF Fits, SlotOK
  <2> QED
    BY <2>1, <2>2, <2>3
<1>11. SlotOK'
  BY <1>9, <1>10 DEF SlotOK
<1>12. budget' \in Budgets
  BY SpendType DEF TimeOut
<1> QED
  BY <1>0, <1>2, <1>11, <1>12, EventStep

LEMMA ShiftType == ASSUME TypeInv, Shift PROVE TypeInv'
<1>1. RestOK /\ FlowOK /\ SlotOK
  BY TypeParts
<1>2. UNCHANGED <<run, wf, att, artifacts, attempts, publishes, retry, mode>>
  BY DEF Shift
<1>3. template' \in Templates /\ market' \in Markets
  BY <1>1 DEF Shift, RestOK
<1>4. budget' \in Budgets
  BY SpendType DEF Shift
<1>5. RestOK'
  BY <1>1, <1>2, <1>3, <1>4 DEF RestOK, Budgets
<1>6. FlowOK'
  BY <1>1, <1>2 DEF FlowOK
<1>7. SlotOK'
  BY <1>1, <1>2, SlotSame
<1> QED
  BY <1>5, <1>6, <1>7, TypeNext

-----------------------------------------------------------------------------
(* Approval and release keep the types. *)

(* The greatest of a bounded set of numbers. *)
LEMMA NewestType ==
    ASSUME NEW b \in Nat, NEW S, S \subseteq 1..b, S # {}
    PROVE  Newest(S) \in S /\ \A i \in S : i <= Newest(S)
<1>0. S \subseteq Nat /\ \A i \in S : i <= b
  OBVIOUS
<1>1. \E m \in S : \A i \in S : i <= m
  BY <1>0, GreatestNatural
<1> QED
  BY <1>1 DEF Newest

(* The revisions that were prepared, and the image that is published. *)
LEMMA ArtworkType ==
    ASSUME TypeInv, NEW version \in Versions
    PROVE  /\ Artwork(version) \in [version: 0..MaxVersion, revision: 0..MaxRevisions]
           /\ \A v \in Versions : Production(v) \subseteq 1..Len(artifacts[v])
<1>1. artifacts \in [Versions -> Works]
  BY TypeParts DEF RestOK
<1>2. ASSUME NEW v \in Versions
      PROVE  /\ Len(artifacts[v]) \in Nat /\ Len(artifacts[v]) <= MaxRevisions
             /\ Production(v) \subseteq 1..Len(artifacts[v])
  <2>1. artifacts[v] \in Seq(Verdicts \cup {"source"}) /\ Len(artifacts[v]) <= MaxRevisions
    BY <1>1, RevisionSeq DEF Works
  <2> QED
    BY <2>1, Entries DEF Production
<1>3. PICK made : made = {v \in 1..version : Production(v) # {}}
  OBVIOUS
<1>4. version \in Nat /\ 1..version \subseteq Versions
  BY Bounds DEF Versions
<1>5. CASE made = {}
  BY <1>2, <1>3, <1>5, Bounds DEF Artwork, NoPackage
<1>6. CASE made # {}
  <2>1. Newest(made) \in made
    BY <1>3, <1>4, <1>6, NewestType
  <2>2. PICK v \in Versions : v = Newest(made) /\ Production(v) # {}
    BY <1>3, <1>4, <2>1
  <2>3. Newest(Production(v)) \in Production(v)
    BY <1>2, <2>2, NewestType
  <2>4. PICK i \in 1..Len(artifacts[v]) : i = Newest(Production(v))
    BY <1>2, <2>3
  <2>5. Artwork(version) = [version |-> v, revision |-> i]
    BY <1>3, <1>6, <2>2, <2>4 DEF Artwork
  <2>6. v \in 0..MaxVersion /\ i \in 0..MaxRevisions
    BY <1>2, <2>4, Bounds DEF Versions
  <2> QED
    BY <1>2, <2>5, <2>6
<1> QED
  BY <1>2, <1>5, <1>6

(* A signal says what its author looked at. *)
LEMMA SignalType ==
    ASSUME TypeInv, NEW actor \in {"admin", "system"}, NEW channels \in SUBSET Channels
    PROVE  Signal(actor, channels) \in Signals
<1>1. run \in Runs
  BY TypeParts DEF RestOK
<1>2. run.version \in Versions /\ run.version \in 0..MaxVersion
  BY <1>1, Bounds DEF Runs, Versions
<1>3. Package \in Packages
  BY <1>1, <1>2, ArtworkType DEF Package, Packages, Runs
<1> QED
  BY <1>2, <1>3 DEF Signal, Signals

LEMMA AutomaticType == ASSUME TypeInv, NEW s \in Slots, Automatic(s) PROVE TypeInv'
<1>0. SlotOK /\ RestOK /\ FlowOK /\ UNCHANGED <<run, others>> /\ attempts' = attempts
  BY SlotType DEF Automatic, others
<1>1. RestOK'
  BY <1>0 DEF RestOK, others, world
<1>2. CASE Answer(s, TRUE) /\ UNCHANGED wf
  <2>1. SlotOK' /\ FlowOK'
    BY <1>0, <1>2, AnswerType DEF FlowOK
  <2> QED
    BY <1>1, <2>1, TypeNext
<1>3. CASE Raise(s, TRUE)
  <2>1. SlotOK' /\ FlowOK'
    BY <1>0, <1>3, RaiseType
  <2> QED
    BY <1>1, <2>1, TypeNext
<1>4. CASE Return(s, TRUE, Signal("system", Channels)) /\ UNCHANGED wf
  <2>1. Signal("system", Channels) \in Signals
    BY SignalType
  <2>2. SlotOK' /\ FlowOK'
    BY <1>0, <1>4, <2>1, ReturnType DEF FlowOK
  <2> QED
    BY <1>1, <2>2, TypeNext
<1> QED
  BY <1>2, <1>3, <1>4 DEF Automatic

LEMMA RecordApprovalType == ASSUME TypeInv, NEW s \in Slots, RecordApproval(s) PROVE TypeInv'
<1>0. SlotOK /\ run \in Runs /\ UNCHANGED <<wf, others>> /\ attempts' = attempts
  BY SlotType DEF RecordApproval, RestOK, others
<1>1. PICK ok \in BOOLEAN : (ok <=> Acceptable(att[s].signal)) /\ Answer(s, ok)
  BY DEF RecordApproval, Acceptable
<1>2. SlotOK'
  BY <1>0, <1>1, AnswerType
<1>3. CASE Acceptable(att[s].signal)
  <2>1. run.version = att[s].signal.version
    BY <1>3 DEF Acceptable
  <2>2. run' = [Status(run, "publishing") EXCEPT
                   !.approvals = @ \cup {[version |-> att[s].signal.version, decision |-> "approved"]}]
    BY <1>3 DEF RecordApproval
  <2>3. Status(run, "publishing") \in Runs
    BY <1>0, StatusType DEF Statuses
  <2>4. [version |-> att[s].signal.version, decision |-> "approved"]
            \in [version: Versions, decision: {"approved", "rejected"}]
    BY <1>0, <2>1 DEF Runs
  <2>5. run' \in Runs
    BY <2>2, <2>3, <2>4 DEF Runs
  <2> QED
    BY <1>0, <1>2, <2>5, RunStep
<1>4. CASE ~Acceptable(att[s].signal)
  <2>1. run' = run
    BY <1>4 DEF RecordApproval
  <2> QED
    BY <1>0, <1>2, <2>1, RunStep
<1> QED
  BY <1>3, <1>4

LEMMA ReadApprovedType == ASSUME TypeInv, NEW s \in Slots, ReadApproved(s) PROVE TypeInv'
<1>0. SlotOK /\ RestOK /\ FlowOK /\ UNCHANGED <<run, others>> /\ attempts' = attempts
      /\ att[s] \in AttemptStates /\ Fits(att[s]) /\ att[s].kind = "revalidate"
  BY SlotType DEF ReadApproved, others, At
<1>1. RestOK'
  BY <1>0 DEF RestOK, others, world
<1>2. CASE Raise(s, TRUE)
  <2>1. SlotOK' /\ FlowOK'
    BY <1>0, <1>2, RaiseType
  <2> QED
    BY <1>1, <2>1, TypeNext
<1>3. CASE ~Raise(s, TRUE)
  <2>1. PICK y : y = [att[s] EXCEPT !.step = "answer", !.template = template]
    OBVIOUS
  <2>2. y \in AttemptStates /\ y.kind = "revalidate" /\ y.arts = att[s].arts
    BY <1>0, <2>1 DEF AttemptStates, Steps, RestOK
  <2>3. Fits(y)'
    BY <1>0, <2>2 DEF Fits
  <2>4. att' = [att EXCEPT ![s] = y] /\ wf' = wf
    BY <1>3, <2>1 DEF ReadApproved
  <2>5. SlotOK'
    BY <1>0, <2>2, <2>3, <2>4, SlotStep
  <2>6. FlowOK'
    BY <1>0, <2>4 DEF FlowOK
  <2> QED
    BY <1>1, <2>5, <2>6, TypeNext
<1> QED
  BY <1>2, <1>3

LEMMA StillValidType == ASSUME TypeInv, NEW s \in Slots, StillValid(s) PROVE TypeInv'
<1>0. SlotOK /\ run \in Runs /\ run' = run /\ UNCHANGED <<wf, others>> /\ attempts' = attempts
  BY SlotType DEF StillValid, RestOK, others
<1>1. SlotOK'
  BY <1>0, AnswerType DEF StillValid
<1> QED
  BY <1>0, <1>1, RunStep

(* A package with new prices. *)
LEMMA RepricedType ==
    ASSUME NEW r \in Runs, NEW quotes \in Quotes, r.version < MaxVersion
    PROVE  Repriced(r, quotes) \in Runs
<1>1. r.version + 1 \in Versions
  BY Bounds DEF Runs, Versions
<1>2. Repriced(r, quotes) =
        [r EXCEPT !.version = r.version + 1, !.quotes = quotes, !.status = "awaiting_approval",
                  !.ready = FALSE]
  BY DEF Repriced
<1> QED
  BY <1>1, <1>2 DEF Runs, Statuses

LEMMA RepriceType == ASSUME TypeInv, NEW s \in Slots, Reprice(s) PROVE TypeInv'
<1>0. SlotOK /\ RestOK /\ FlowOK /\ run \in Runs /\ template \in Templates
      /\ UNCHANGED <<wf, artifacts, attempts, publishes, retry, market, mode, budget>>
  BY SlotType DEF Reprice, RestOK
<1>1. market \in Templates /\ run.version < MaxVersion
  BY DEF Reprice
<1>2. [at |-> market, edited |-> FALSE] \in Quotes
  BY <1>1 DEF Quotes
<1>3. run' \in Runs
  <2>1. Repriced(run, NoQuotes) \in Runs
    BY <1>0, <1>1, RepricedType, NoSignalType
  <2>2. Repriced(run, [at |-> market, edited |-> FALSE]) \in Runs
    BY <1>0, <1>1, <1>2, RepricedType
  <2>3. CASE Reshaped(market) # Reshaped(run.snapshot)
    BY <1>1, <2>1, <2>3 DEF Reprice, Runs
  <2>4. CASE ~(Reshaped(market) # Reshaped(run.snapshot))
    BY <1>1, <2>2, <2>4 DEF Reprice, Runs
  <2> QED
    BY <2>3, <2>4
<1>4. template' \in Templates
  BY <1>0, <1>1 DEF Reprice, Adopt
<1>5. SlotOK'
  BY <1>0, AnswerType DEF Reprice
<1>6. RestOK'
  BY <1>0, <1>3, <1>4 DEF RestOK
<1>7. FlowOK'
  BY <1>0 DEF FlowOK
<1> QED
  BY <1>5, <1>6, <1>7, TypeNext

LEMMA UnavailableType == ASSUME TypeInv, NEW s \in Slots, Unavailable(s) PROVE TypeInv'
<1>0. SlotOK /\ RestOK /\ FlowOK /\ run \in Runs /\ UNCHANGED others /\ attempts' = attempts
      /\ run.version < MaxVersion
  BY SlotType DEF Unavailable, RestOK, others
<1>1. CASE run' = [Repriced(run, NoQuotes) EXCEPT !.passed = FALSE] /\ Answer(s, FALSE) /\ wf' = wf
  <2>1. run' \in Runs
    BY <1>0, <1>1, RepricedType, NoSignalType DEF Runs
  <2>2. SlotOK'
    BY <1>0, <1>1, AnswerType
  <2> QED
    BY <1>0, <1>1, <2>1, <2>2, RunStep
<1>2. CASE Raise(s, TRUE) /\ run' = run
  <2>1. RestOK'
    BY <1>0, <1>2 DEF RestOK, others, world
  <2>2. SlotOK' /\ FlowOK'
    BY <1>0, <1>2, RaiseType
  <2> QED
    BY <2>1, <2>2, TypeNext
<1> QED
  BY <1>1, <1>2 DEF Unavailable

LEMMA FinishType == ASSUME TypeInv, NEW s \in Slots, Finish(s) PROVE TypeInv'
<1>0. SlotOK /\ run \in Runs /\ UNCHANGED <<wf, others>> /\ attempts' = attempts
  BY SlotType DEF Finish, RestOK, others
<1>1. \A results : Summary(results) \in Statuses
  BY DEF Summary, Statuses, Rest
<1>2. run' \in Runs
  BY <1>0, <1>1, StatusType DEF Finish
<1>3. SlotOK'
  BY <1>0, AnswerType DEF Finish
<1> QED
  BY <1>0, <1>2, <1>3, RunStep

LEMMA MarkCancelledType == ASSUME TypeInv, NEW s \in Slots, MarkCancelled(s) PROVE TypeInv'
<1>0. SlotOK /\ run \in Runs /\ UNCHANGED <<wf, others>> /\ attempts' = attempts
  BY SlotType DEF MarkCancelled, RestOK, others
<1>1. run' \in Runs
  BY <1>0, StatusType DEF MarkCancelled, Statuses, Rest
<1>2. SlotOK'
  BY <1>0, AnswerType DEF MarkCancelled
<1> QED
  BY <1>0, <1>1, <1>2, RunStep

LEMMA RecordRejectionType == ASSUME TypeInv, NEW s \in Slots, RecordRejection(s) PROVE TypeInv'
<1>0. SlotOK /\ run \in Runs /\ UNCHANGED <<wf, others>> /\ attempts' = attempts
  BY SlotType DEF RecordRejection, RestOK, others
<1>1. Status(run, "rejected") \in Runs
  BY <1>0, StatusType DEF Statuses, Rest
<1>2. [version |-> run.version, decision |-> "rejected"]
          \in [version: Versions, decision: {"approved", "rejected"}]
  BY <1>0 DEF Runs
<1>3. run' \in Runs
  BY <1>1, <1>2 DEF RecordRejection, Runs
<1>4. SlotOK'
  BY <1>0, AnswerType DEF RecordRejection
<1> QED
  BY <1>0, <1>3, <1>4, RunStep

LEMMA MarkFailedType == ASSUME TypeInv, NEW s \in Slots, MarkFailed(s) PROVE TypeInv'
<1>0. SlotOK /\ run \in Runs /\ UNCHANGED <<wf, others>> /\ attempts' = attempts
  BY SlotType DEF MarkFailed, RestOK, others
<1>1. run' \in Runs
  BY <1>0, StatusType DEF MarkFailed, Statuses
<1>2. SlotOK'
  BY <1>0, AnswerType DEF MarkFailed
<1> QED
  BY <1>0, <1>1, <1>2, RunStep

-----------------------------------------------------------------------------
(* The workflow keeps the types. *)

LEMMA ToType ==
    ASSUME TypeInv, NEW w \in Workflows, NEW stage \in Stages, To(w, stage), UNCHANGED steps,
           wf[w].stage \notin {"fail", "closed", "stuck"} \/ stage \in {"fail", "closed", "stuck"}
    PROVE  TypeInv'
<1>1. wf[w] \in Flows
  BY DEF TypeInv
<1>2. [wf[w] EXCEPT !.stage = stage, !.tries = 0] \in Flows
  BY <1>1, MovedType
<1> QED
  BY <1>2, FlowStep DEF To

(* A workflow that goes on with other answers and intentions. *)
LEMMA FlowType ==
    ASSUME NEW f \in Flows, f.stage \notin {"fail", "closed", "stuck"}
    PROVE  /\ f \in WorkflowStates /\ f.reapprovals # 2
           /\ \A g \in WorkflowStates :
                 g.tries \in {0, f.tries} /\ g.reapprovals = f.reapprovals => g \in Flows
<1>1. f \in WorkflowStates /\ f.reapprovals # 2 /\ f.tries < MaxAttempts
  BY DEF Flows
<1>2. ASSUME NEW g \in WorkflowStates, g.tries \in {0, f.tries}, g.reapprovals = f.reapprovals
      PROVE  g \in Flows
  <2>1. g.tries < MaxAttempts
    BY <1>1, <1>2, Bounds
  <2> QED
    BY <1>1, <1>2, <2>1 DEF Flows
<1> QED
  BY <1>1, <1>2

LEMMA GenerationType ==
    ASSUME NEW f \in Flows, f.stage \notin {"fail", "closed", "stuck"},
           NEW regenerate \in BOOLEAN, NEW preserve \in BOOLEAN
    PROVE  Generation(f, regenerate, preserve) \in Flows
<1>1. f \in WorkflowStates
  BY DEF Flows
<1>2. PICK g : g = Generation(f, regenerate, preserve)
  OBVIOUS
<1>3. "generate" \in Stages /\ 0 \in 0..MaxAttempts
  BY Bounds DEF Stages, Activities
<1>4. g \in WorkflowStates /\ g.tries = 0 /\ g.reapprovals = f.reapprovals
  BY <1>1, <1>2, <1>3 DEF Generation, WorkflowStates
<1> QED
  BY <1>2, <1>4, FlowType

LEMMA AfterScreenType == ASSUME TypeInv, NEW w \in Workflows, AfterScreen(w) PROVE TypeInv'
<1>1. wf[w] \in Flows /\ wf[w].stage = "screen" /\ UNCHANGED steps
  BY DEF TypeInv, AfterScreen, Heard
<1>2. Generation(wf[w], FALSE, TRUE) \in Flows
  BY <1>1, GenerationType
<1>3. [wf[w] EXCEPT !.stage = "closed"] \in Flows
  BY <1>1 DEF Flows, WorkflowStates, Stages
<1>4. \E f \in Flows : Enter(w, f)
  BY <1>2, <1>3 DEF AfterScreen
<1> QED
  BY <1>1, <1>4, FlowStep

LEMMA AfterRewriteType == ASSUME TypeInv, NEW w \in Workflows, AfterRewrite(w) PROVE TypeInv'
<1>1. wf[w] \in Flows /\ wf[w].stage = "rewrite" /\ UNCHANGED steps
  BY DEF TypeInv, AfterRewrite, Heard
<1>2. Generation(wf[w], FALSE, TRUE) \in Flows
  BY <1>1, GenerationType
<1>3. [wf[w] EXCEPT !.stage = "closed"] \in Flows
  BY <1>1 DEF Flows, WorkflowStates, Stages
<1>4. \E f \in Flows : Enter(w, f)
  BY <1>2, <1>3 DEF AfterRewrite
<1> QED
  BY <1>1, <1>4, FlowStep

LEMMA AfterAutomaticType == ASSUME TypeInv, NEW w \in Workflows, AfterAutomatic(w) PROVE TypeInv'
<1>1. wf[w] \in Flows /\ wf[w].stage = "automatic" /\ UNCHANGED steps
  BY DEF TypeInv, AfterAutomatic, Heard
<1>2. att[w].signal \in Signals
  BY SlotType DEF Slots, AttemptStates
<1>3. wf[w] \in WorkflowStates
  BY <1>1 DEF Flows
<1>4. PICK g : g = [wf[w] EXCEPT !.stage = "wait", !.tries = 0,
                                 !.approval = IF @ = NoSignal THEN att[w].signal ELSE @]
  OBVIOUS
<1>5. g \in WorkflowStates /\ g.tries = 0 /\ g.reapprovals = wf[w].reapprovals
  <2>1. "wait" \in Stages /\ 0 \in 0..MaxAttempts
        /\ (IF wf[w].approval = NoSignal THEN att[w].signal ELSE wf[w].approval) \in Signals
    BY <1>2, <1>3, Bounds DEF Stages, WorkflowStates
  <2> QED
    BY <1>3, <1>4, <2>1 DEF WorkflowStates
<1>6. g \in Flows
  BY <1>1, <1>5, FlowType
<1>7. Enter(w, g)
  BY <1>4 DEF AfterAutomatic
<1> QED
  BY <1>1, <1>6, <1>7, FlowStep

LEMMA TakeRegenerateType == ASSUME TypeInv, NEW w \in Workflows, TakeRegenerate(w) PROVE TypeInv'
<1>1. wf[w] \in Flows /\ wf[w].stage = "wait" /\ UNCHANGED steps
  BY DEF TypeInv, TakeRegenerate
<1>2. PICK f : f = [wf[w] EXCEPT !.again = FALSE]
  OBVIOUS
<1>3. wf[w] \in WorkflowStates
  BY <1>1 DEF Flows
<1>4. f \in WorkflowStates /\ f.stage = "wait" /\ f.tries = wf[w].tries
      /\ f.reapprovals = wf[w].reapprovals
  BY <1>1, <1>2, <1>3 DEF WorkflowStates
<1>5. f \in Flows
  BY <1>1, <1>4, FlowType
<1>6. Generation(f, TRUE, FALSE) \in Flows
  BY <1>4, <1>5, GenerationType
<1>7. Enter(w, Generation(f, TRUE, FALSE))
  BY <1>2 DEF TakeRegenerate
<1> QED
  BY <1>1, <1>6, <1>7, FlowStep

LEMMA TakeApprovalType == ASSUME TypeInv, NEW w \in Workflows, TakeApproval(w) PROVE TypeInv'
<1>1. wf[w] \in Flows /\ wf[w].stage = "wait" /\ UNCHANGED steps
  BY DEF TypeInv, TakeApproval
<1>2. PICK f : f = [wf[w] EXCEPT !.stage = "record", !.current = wf[w].approval,
                                 !.approval = NoSignal]
  OBVIOUS
<1>3. wf[w] \in WorkflowStates
  BY <1>1 DEF Flows
<1>4. f \in WorkflowStates /\ f.tries = wf[w].tries /\ f.reapprovals = wf[w].reapprovals
  BY <1>2, <1>3, NoSignalType DEF WorkflowStates, Stages, Activities
<1>5. f \in Flows
  BY <1>1, <1>4, FlowType
<1>7. Enter(w, f)
  BY <1>2 DEF TakeApproval
<1> QED
  BY <1>1, <1>5, <1>7, FlowStep

LEMMA AfterRecordType == ASSUME TypeInv, NEW w \in Workflows, AfterRecord(w) PROVE TypeInv'
<1>1. wf[w].stage = "record" /\ UNCHANGED steps
  BY DEF AfterRecord, Heard
<1>2. CASE To(w, "revalidate")
  BY <1>1, <1>2, ToType DEF Stages, Activities
<1>3. CASE To(w, "wait")
  BY <1>1, <1>3, ToType DEF Stages
<1>4. CASE Enter(w, Invalidated(w))
  BY <1>1, <1>4, AgainType, FlowStep
<1> QED
  BY <1>2, <1>3, <1>4 DEF AfterRecord

LEMMA AfterRevalidateType == ASSUME TypeInv, NEW w \in Workflows, AfterRevalidate(w) PROVE TypeInv'
<1>1. wf[w].stage = "revalidate" /\ UNCHANGED steps /\ wf[w] \in Flows
  BY DEF AfterRevalidate, Heard, TypeInv
<1>2. CASE To(w, "publish")
  BY <1>1, <1>2, ToType DEF Stages, Activities
<1>3. CASE To(w, "wait")
  BY <1>1, <1>3, ToType DEF Stages
<1>a. wf[w] \in WorkflowStates /\ wf[w].reapprovals \in 0..2 /\ wf[w].reapprovals # 2
  BY <1>1, FlowType DEF WorkflowStates
<1>4. CASE Enter(w, [Invalidated(w) EXCEPT !.reapprovals = 2])
  <2>1. PICK g : g = [Invalidated(w) EXCEPT !.reapprovals = 2]
    OBVIOUS
  <2>2. /\ Invalidated(w) \in WorkflowStates /\ Invalidated(w).stage = "fail"
        /\ Invalidated(w).tries < MaxAttempts
    BY <1>a, AgainType DEF Invalidated, Failed, Flows, WorkflowStates
  <2>3. g \in WorkflowStates /\ g.stage = "fail" /\ g.tries < MaxAttempts
    BY <2>1, <2>2 DEF WorkflowStates
  <2>4. g \in Flows
    BY <2>3 DEF Flows
  <2> QED
    BY <1>1, <1>4, <2>1, <2>4, FlowStep
<1>5. CASE /\ wf[w].reapprovals # 1
           /\ Enter(w, [wf[w] EXCEPT !.stage = "reapprove", !.tries = 0, !.reapprovals = @ + 1])
  <2>1. PICK g : g = [wf[w] EXCEPT !.stage = "reapprove", !.tries = 0,
                                   !.reapprovals = wf[w].reapprovals + 1]
    OBVIOUS
  <2>2. wf[w].reapprovals + 1 = 1
    BY <1>a, <1>5
  <2>a. "reapprove" \in Stages /\ 0 \in 0..MaxAttempts /\ wf[w].reapprovals + 1 \in 0..2
    BY <2>2, Bounds DEF Stages, Activities
  <2>3. g \in WorkflowStates /\ g.tries = 0 /\ g.reapprovals = 1
    BY <1>a, <2>1, <2>2, <2>a DEF WorkflowStates
  <2>4. g \in Flows
    BY <2>3, Bounds DEF Flows
  <2>5. Enter(w, g)
    BY <1>5, <2>1
  <2> QED
    BY <1>1, <2>4, <2>5, FlowStep
<1> QED
  BY <1>2, <1>3, <1>4, <1>5 DEF AfterRevalidate

LEMMA AfterReapproveType == ASSUME TypeInv, NEW w \in Workflows, AfterReapprove(w) PROVE TypeInv'
<1>1. wf[w] \in Flows /\ wf[w].stage = "reapprove" /\ UNCHANGED steps
  BY DEF TypeInv, AfterReapprove, Heard
<1>2. att[w].signal \in Signals
  BY SlotType DEF Slots, AttemptStates
<1>3. wf[w] \in WorkflowStates
  BY <1>1 DEF Flows
<1>4. PICK g : g = [wf[w] EXCEPT !.stage = "wait", !.tries = 0, !.approval = att[w].signal]
  OBVIOUS
<1>a. "wait" \in Stages /\ 0 \in 0..MaxAttempts
  BY Bounds DEF Stages
<1>5. g \in WorkflowStates /\ g.tries = 0 /\ g.reapprovals = wf[w].reapprovals
  BY <1>2, <1>3, <1>4, <1>a DEF WorkflowStates
<1>6. g \in Flows
  BY <1>1, <1>5, FlowType
<1>7. \E f \in Flows : Enter(w, f)
  BY <1>4, <1>6, AgainType DEF AfterReapprove
<1> QED
  BY <1>1, <1>7, FlowStep

(* Published: the record of a channel keeps its type. *)
LEMMA PublishedType ==
    ASSUME TypeInv, NEW c \in Channels, NEW result \in PublishStatuses, Published(c, result)
    PROVE  publishes' \in [Channels -> PublishStatuses] /\ publishes'[c] \in PublishStatuses
<1>1. publishes \in [Channels -> PublishStatuses]
  BY TypeParts DEF RestOK
<1> QED
  BY <1>1 DEF Published

LEMMA PublishType ==
    ASSUME TypeInv, NEW w \in Workflows, NEW c \in Channels, Publish(w, c)
    PROVE  TypeInv'
<1>0. RestOK /\ FlowOK /\ SlotOK /\ wf[w] \in Flows /\ wf[w].stage = "publish"
      /\ UNCHANGED <<run, att, artifacts, attempts, world>>
  BY TypeParts DEF TypeInv, Publish
<1>1. PICK result \in PublishStatuses : /\ Published(c, result)
                                        /\ wf' = [wf EXCEPT ![w].results[c] = publishes'[c]]
  BY DEF Publish
<1>2. publishes' \in [Channels -> PublishStatuses] /\ publishes'[c] \in PublishStatuses
  BY <1>1, PublishedType
<1>3. PICK g : g = [wf[w] EXCEPT !.results[c] = publishes'[c]]
  OBVIOUS
<1>4. wf[w] \in WorkflowStates
  BY <1>0 DEF Flows
<1>5. g \in WorkflowStates /\ g.tries = wf[w].tries /\ g.reapprovals = wf[w].reapprovals
  BY <1>2, <1>3, <1>4 DEF WorkflowStates
<1>6. g \in Flows
  BY <1>0, <1>5, FlowType
<1>7. wf' = [wf EXCEPT ![w] = g]
  BY <1>1, <1>3
<1>8. FlowOK'
  BY <1>0, <1>6, <1>7 DEF FlowOK
<1>9. RestOK'
  BY <1>0, <1>2 DEF RestOK, world
<1>10. SlotOK'
  BY <1>0, SlotSame
<1> QED
  BY <1>8, <1>9, <1>10, TypeNext

LEMMA WorkflowType == ASSUME TypeInv, NEW w \in Workflows, Flow(w) PROVE TypeInv'
<1>1. CASE AfterResearch(w)
  BY <1>1, ToType DEF AfterResearch, Heard, Stages, Activities
<1>2. CASE AfterGenerate(w)
  <2>1. CASE att[w].ok
    BY <1>2, <2>1, ToType DEF AfterGenerate, Heard, Stages, Activities
  <2>2. CASE ~att[w].ok
    BY <1>2, <2>2, ToType DEF AfterGenerate, Heard, Stages, Activities
  <2> QED
    BY <2>1, <2>2
<1>3. CASE TakeCancel(w)
  BY <1>3, ToType DEF TakeCancel, Stages, Activities
<1>4. CASE TakeReject(w)
  BY <1>4, ToType DEF TakeReject, Stages, Activities
<1>5. CASE AfterPublish(w)
  BY <1>5, ToType DEF AfterPublish, Stages, Activities
<1>6. CASE Close(w)
  <2>1. PICK stage \in Over : To(w, stage) /\ UNCHANGED steps
    BY <1>6 DEF Close
  <2> QED
    BY <2>1, ToType DEF Stages
<1>7. CASE \E c \in Channels : Publish(w, c)
  BY <1>7, PublishType
<1> QED
  BY <1>1, <1>2, <1>3, <1>4, <1>5, <1>6, <1>7, AfterScreenType, AfterRewriteType,
     AfterAutomaticType, TakeRegenerateType, TakeApprovalType, AfterRecordType,
     AfterRevalidateType, AfterReapproveType DEF Flow

-----------------------------------------------------------------------------
(* The operator and the retry workflows keep the types. *)

(* A request that changes what the run's workflow was told. *)
LEMMA TellType ==
    ASSUME TypeInv, NEW f \in WorkflowStates, Tell(f), f.stage = wf[run.workflow].stage,
           f.tries = wf[run.workflow].tries, f.reapprovals = wf[run.workflow].reapprovals
    PROVE  TypeInv'
<1>0. /\ run \in Runs /\ run' = run /\ Len(attempts) <= MaxRewrites /\ attempts \in Seq(Audit)
      /\ UNCHANGED <<artifacts, publishes, retry, template, market, mode>>
      /\ attempts' = attempts /\ FlowOK /\ SlotOK /\ att' = att
  BY TypeParts DEF RestOK, Tell
<1>1. f \in Flows
  <2>1. wf[run.workflow] \in Flows
    BY <1>0 DEF FlowOK, Runs
  <2> QED
    BY <2>1 DEF Flows
<1>2. FlowOK'
  BY <1>0, <1>1 DEF FlowOK, Tell
<1>3. SlotOK'
  BY <1>0, SlotSame
<1>4. budget' \in Budgets
  BY SpendType DEF Tell, Act
<1> QED
  BY <1>0, <1>2, <1>3, <1>4, EventStep

LEMMA ToldType == ASSUME TypeInv, Approve \/ Reject \/ Regenerate \/ Cancel PROVE TypeInv'
<1>0. wf[run.workflow] \in WorkflowStates
  BY TypeParts DEF RestOK, Runs, FlowOK, Flows
<1>1. CASE Approve
  <2>1. PICK channels \in SUBSET Channels :
               Tell([wf[run.workflow] EXCEPT !.approval = Signal("admin", channels)])
    BY <1>1 DEF Approve
  <2>2. Signal("admin", channels) \in Signals
    BY SignalType
  <2>3. PICK f : f = [wf[run.workflow] EXCEPT !.approval = Signal("admin", channels)]
    OBVIOUS
  <2>4. /\ f \in WorkflowStates /\ f.stage = wf[run.workflow].stage
        /\ f.tries = wf[run.workflow].tries /\ f.reapprovals = wf[run.workflow].reapprovals
    BY <1>0, <2>2, <2>3 DEF WorkflowStates
  <2> QED
    BY <2>1, <2>3, <2>4, TellType
<1>2. CASE Reject
  <2>3. PICK f : f = [wf[run.workflow] EXCEPT !.rejected = TRUE]
    OBVIOUS
  <2>4. /\ f \in WorkflowStates /\ f.stage = wf[run.workflow].stage
        /\ f.tries = wf[run.workflow].tries /\ f.reapprovals = wf[run.workflow].reapprovals
    BY <1>0, <2>3 DEF WorkflowStates
  <2> QED
    BY <1>2, <2>3, <2>4, TellType DEF Reject
<1>3. CASE Regenerate
  <2>3. PICK f : f = [wf[run.workflow] EXCEPT !.again = TRUE]
    OBVIOUS
  <2>4. /\ f \in WorkflowStates /\ f.stage = wf[run.workflow].stage
        /\ f.tries = wf[run.workflow].tries /\ f.reapprovals = wf[run.workflow].reapprovals
    BY <1>0, <2>3 DEF WorkflowStates
  <2> QED
    BY <1>3, <2>3, <2>4, TellType DEF Regenerate
<1>4. CASE Cancel
  <2>3. PICK f : f = [wf[run.workflow] EXCEPT !.cancelled = TRUE]
    OBVIOUS
  <2>4. /\ f \in WorkflowStates /\ f.stage = wf[run.workflow].stage
        /\ f.tries = wf[run.workflow].tries /\ f.reapprovals = wf[run.workflow].reapprovals
    BY <1>0, <2>3 DEF WorkflowStates
  <2> QED
    BY <1>4, <2>3, <2>4, TellType DEF Cancel
<1> QED
  BY <1>1, <1>2, <1>3, <1>4

LEMMA EditType == ASSUME TypeInv, Edit PROVE TypeInv'
<1>0. /\ run \in Runs /\ Len(attempts) <= MaxRewrites /\ attempts \in Seq(Audit)
      /\ UNCHANGED <<artifacts, publishes, retry, template, market, mode>>
      /\ attempts' = attempts /\ FlowOK /\ SlotOK /\ att' = att /\ wf' = wf
      /\ run.version < MaxVersion
  BY TypeParts DEF RestOK, Edit
<1>1. PICK v : v = run.version + 1
  OBVIOUS
<1>2. v \in Versions /\ v \in 0..MaxVersion
  BY <1>0, <1>1, Bounds DEF Runs, Versions
<1>3. PICK q : q = [run.quotes EXCEPT !.edited = TRUE]
  OBVIOUS
<1>4. q \in Quotes
  BY <1>0, <1>3 DEF Runs, Quotes
<1>5. run' = [run EXCEPT !.version = v, !.listings = v, !.quotes = q]
  BY <1>1, <1>3 DEF Edit
<1>6. run' \in Runs
  BY <1>0, <1>2, <1>4, <1>5 DEF Runs
<1>7. FlowOK' /\ SlotOK'
  BY <1>0, SlotSame DEF FlowOK
<1>8. budget' \in Budgets
  BY SpendType DEF Edit, Act
<1> QED
  BY <1>0, <1>6, <1>7, <1>8, EventStep

(* A new workflow takes the run over. *)
LEMMA RestartType ==
    ASSUME TypeInv, NEW r \in Runs, r.workflow = run.workflow, NEW f \in Flows, Restart(r, f)
    PROVE  TypeInv'
<1>0. /\ run \in Runs /\ Len(attempts) <= MaxRewrites /\ attempts \in Seq(Audit)
      /\ UNCHANGED <<artifacts, publishes, retry, template, market, mode>>
      /\ attempts' = attempts /\ FlowOK /\ SlotOK /\ run.workflow < MaxWorkflows
      /\ Enter(run.workflow + 1, f)
  BY TypeParts DEF RestOK, Restart
<1>1. PICK w : w = run.workflow + 1
  OBVIOUS
<1>2. w \in Workflows
  BY <1>0, <1>1, Bounds DEF Runs, Workflows
<1>3. run' = [Status(r, "pending") EXCEPT !.workflow = w]
  <2>1. Status(r, "pending").workflow = run.workflow
    BY DEF Status, Runs
  <2> QED
    BY <1>1, <2>1 DEF Restart
<1>4. run' \in Runs
  BY <1>2, <1>3, StatusType DEF Runs, Statuses
<1>5. FlowOK' /\ SlotOK'
  BY <1>0, <1>1, <1>2, EnterType
<1>6. budget' \in Budgets
  BY SpendType DEF Restart, Act
<1> QED
  BY <1>0, <1>4, <1>5, <1>6, EventStep

LEMMA ResumeResearchedType == ASSUME TypeInv, ResumeResearched PROVE TypeInv'
<1>1. run \in Runs
  BY TypeParts DEF RestOK
<1>2. PICK r : r = [run EXCEPT !.selected = FALSE, !.brief = NoBrief, !.passed = FALSE,
                               !.listings = 0, !.quotes = NoQuotes]
  OBVIOUS
<1>a. 0 \in 0..MaxVersion
  BY Bounds
<1>3. r \in Runs /\ r.workflow = run.workflow
  BY <1>1, <1>2, <1>a, NoSignalType DEF Runs
<1>4. PICK f : f = [Unborn EXCEPT !.stage = "screen"]
  OBVIOUS
<1>5. f \in Flows
  BY <1>4, UnbornType DEF Flows, WorkflowStates, Stages, Activities, Unborn
<1> QED
  BY <1>2, <1>3, <1>4, <1>5, RestartType DEF ResumeResearched

LEMMA RetryArtworkType == ASSUME TypeInv, RetryArtwork PROVE TypeInv'
<1>1. run \in Runs
  BY TypeParts DEF RestOK
<1>2. PICK revised \in BOOLEAN :
         Restart(IF revised
                 THEN [run EXCEPT !.brief = [by |-> "operator", version |-> run.version]]
                 ELSE run,
                 Generation([Unborn EXCEPT !.reuse = TRUE], TRUE, revised))
  BY DEF RetryArtwork
<1>3. PICK r : r = IF revised
                   THEN [run EXCEPT !.brief = [by |-> "operator", version |-> run.version]]
                   ELSE run
  OBVIOUS
<1>4. [by |-> "operator", version |-> run.version] \in Briefs
  BY <1>1, Bounds DEF Runs, Versions, Briefs, Origins
<1>5. r \in Runs /\ r.workflow = run.workflow
  BY <1>1, <1>3, <1>4 DEF Runs
<1>6. PICK f : f = [Unborn EXCEPT !.reuse = TRUE]
  OBVIOUS
<1>7. f \in Flows /\ f.stage = "unborn"
  BY <1>6, UnbornType DEF Flows, WorkflowStates, Unborn
<1>8. Generation(f, TRUE, revised) \in Flows
  BY <1>7, GenerationType
<1> QED
  BY <1>2, <1>3, <1>5, <1>6, <1>8, RestartType

(* A step of a channel's retry workflow. *)
Retries == [step: {"idle", "publish", "count", "write"}, seen: SUBSET PublishStatuses]

LEMMA RetryStep ==
    ASSUME TypeInv, run' \in Runs, NEW c \in Channels, NEW r \in Retries,
           retry' = [retry EXCEPT ![c] = r], publishes' \in [Channels -> PublishStatuses],
           UNCHANGED <<wf, att, artifacts, attempts, template, market, mode>>,
           budget' \in Budgets
    PROVE  TypeInv'
<1>1. RestOK /\ FlowOK /\ SlotOK
  BY TypeParts
<1>2. retry' \in [Channels -> Retries]
  BY <1>1 DEF RestOK, Retries
<1>3. RestOK'
  BY <1>1, <1>2 DEF RestOK, Retries, Budgets
<1>4. FlowOK' /\ SlotOK'
  BY <1>1, SlotSame DEF FlowOK
<1> QED
  BY <1>3, <1>4, TypeNext

LEMMA RetryingType ==
    ASSUME TypeInv, NEW c \in Channels, RetryChannel(c) \/ Retrying(c)
    PROVE  TypeInv'
<1>0. /\ run \in Runs /\ publishes \in [Channels -> PublishStatuses]
      /\ retry[c] \in Retries /\ budget \in Budgets
  BY TypeParts DEF RestOK, Retries, Budgets
<1>1. CASE RetryChannel(c)
  <2>1. PICK r : r = [retry[c] EXCEPT !.step = "publish"]
    OBVIOUS
  <2>2. r \in Retries
    BY <1>0, <2>1 DEF Retries
  <2>3. retry' = [retry EXCEPT ![c] = r] /\ UNCHANGED <<wf, att, artifacts, attempts, template, market, mode>>
        /\ run' = run /\ publishes' = publishes
    BY <1>1, <2>1 DEF RetryChannel
  <2>4. budget' \in Budgets
    BY <1>1, SpendType DEF RetryChannel, Act
  <2> QED
    BY <1>0, <2>2, <2>3, <2>4, RetryStep
<1>2. CASE RetryPublish(c)
  <2>1. PICK result \in PublishStatuses :
           /\ Published(c, result)
           /\ retry' = [retry EXCEPT ![c].step = IF result = "failed" THEN "idle" ELSE "count"]
    BY <1>2 DEF RetryPublish
  <2>2. publishes' \in [Channels -> PublishStatuses]
    BY <2>1, PublishedType
  <2>3. PICK r : r = [retry[c] EXCEPT !.step = IF result = "failed" THEN "idle" ELSE "count"]
    OBVIOUS
  <2>4. r \in Retries
    BY <1>0, <2>3 DEF Retries
  <2>5. retry' = [retry EXCEPT ![c] = r] /\ UNCHANGED <<wf, att, artifacts, attempts, template, market, mode>>
        /\ run' = run /\ budget' = budget
    BY <1>2, <2>1, <2>3 DEF RetryPublish
  <2> QED
    BY <1>0, <2>2, <2>4, <2>5, RetryStep
<1>3. CASE CountRetry(c)
  <2>1. PICK r : r = [step |-> "write", seen |-> {publishes[d] : d \in Channels} \ {"none"}]
    OBVIOUS
  <2>2. r \in Retries
    BY <1>0, <2>1 DEF Retries
  <2>3. retry' = [retry EXCEPT ![c] = r] /\ UNCHANGED <<wf, att, artifacts, attempts, template, market, mode>>
        /\ run' = run /\ budget' = budget /\ publishes' = publishes
    BY <1>3, <2>1 DEF CountRetry
  <2> QED
    BY <1>0, <2>2, <2>3, RetryStep
<1>4. CASE FinishRetry(c)
  <2>1. PICK r : r = [step |-> "idle", seen |-> {}]
    OBVIOUS
  <2>2. r \in Retries
    BY <2>1 DEF Retries
  <2>3. retry' = [retry EXCEPT ![c] = r] /\ UNCHANGED <<wf, att, artifacts, attempts, template, market, mode>>
        /\ budget' = budget /\ publishes' = publishes
    BY <1>4, <2>1 DEF FinishRetry
  <2>4. \A results : Summary(results) \in Statuses
    BY DEF Summary, Statuses, Rest
  <2>5. run' \in Runs
    BY <1>0, <1>4, <2>4, StatusType DEF FinishRetry
  <2> QED
    BY <1>0, <2>2, <2>3, <2>5, RetryStep
<1> QED
  BY <1>1, <1>2, <1>3, <1>4 DEF Retrying

-----------------------------------------------------------------------------
(* Types are kept. *)

LEMMA AttemptType == ASSUME TypeInv, NEW s \in Slots, Attempt(s) PROVE TypeInv'
BY ResearchType, StoreResearchType, ScreenType, BlockType, NoneSafeType, SelectType,
   GenerateType, WriteBriefType, DrawType, PrepareType, SettleType, HoldForBriefType,
   WriteListingsType, StorePackageType, RewriteNothingType, FallBackType, GiveUpType,
   ReserveRewriteType, RewriteSupersededType, RewriteRejectedType, RewriteAcceptedType,
   AutomaticType, RecordApprovalType, ReadApprovedType, StillValidType, RepriceType,
   UnavailableType, FinishType, MarkCancelledType, RecordRejectionType, MarkFailedType
   DEF Attempt

LEMMA InitType == Init => TypeInv
<1> SUFFICES ASSUME Init PROVE TypeInv
  OBVIOUS
<1>1. run \in Runs
  BY NoSignalType, Bounds DEF Init, Runs, Statuses, Versions, Workflows
<1>2. attempts \in Seq(Audit) /\ Len(attempts) = 0 /\ Len(attempts) <= MaxRewrites
  BY Bounds DEF Init
<1>3. artifacts \in [Versions -> Works]
  BY NoWork DEF Init
<1>4. /\ publishes \in [Channels -> PublishStatuses] /\ retry \in [Channels -> Retries]
      /\ template \in Templates /\ market \in Markets /\ mode \in Modes
  BY DEF Init, PublishStatuses, Retries, Templates, Markets
<1>5. budget \in Budgets
  BY Bounds DEF Init, Budgets
<1>6. RestOK
  BY <1>1, <1>2, <1>3, <1>4, <1>5 DEF RestOK, Retries, Budgets
<1>7. FlowOK
  <2>1. PICK f : f = [Unborn EXCEPT !.stage = "research"]
    OBVIOUS
  <2>2. f \in Flows
    BY <2>1, UnbornType DEF Flows, WorkflowStates, Stages, Activities, Unborn
  <2>3. wf = [w \in Workflows |-> IF w = 1 THEN f ELSE Unborn]
    BY <2>1 DEF Init
  <2> QED
    BY <2>2, <2>3, UnbornType DEF FlowOK
<1>8. SlotOK
  <2>1. PICK a : a = [Idle EXCEPT !.kind = "research"]
    OBVIOUS
  <2>2. a \in AttemptStates /\ a.kind = "research" /\ a.arts = <<>>
    BY <2>1, IdleType DEF AttemptStates, Activities, Idle
  <2>3. Fits(a)
    BY <2>2, NoWork DEF Fits
  <2>4. att = [s \in Slots |-> IF s = 1 THEN a ELSE Idle]
    BY <2>1 DEF Init
  <2>5. att \in [Slots -> AttemptStates]
    BY <2>2, <2>4, IdleType
  <2>6. \A s \in Slots : Fits(att[s])
    BY <2>3, <2>4, IdleType
  <2> QED
    BY <2>5, <2>6 DEF SlotOK
<1> QED
  BY <1>6, <1>7, <1>8, TypeParts

LEMMA NextType == TypeInv /\ [Next]_vars => TypeInv'
<1> SUFFICES ASSUME TypeInv, [Next]_vars PROVE TypeInv'
  OBVIOUS
<1>1. CASE \E s \in Slots : Attempt(s) \/ ProviderError(s) \/ Refused(s)
  BY <1>1, AttemptType, ProviderErrorType, RefusedType
<1>2. CASE \E w \in Workflows : Flow(w) \/ CutOff(w) \/ TimeOut(w)
  BY <1>2, WorkflowType, CutOffType, TimeOutType
<1>3. CASE \E c \in Channels : Retrying(c)
  BY <1>3, RetryingType
<1>4. CASE Operator
  BY <1>4, ToldType, EditType, ResumeResearchedType, RetryArtworkType, RetryingType DEF Operator
<1>5. CASE Shift
  BY <1>5, ShiftType
<1>6. CASE UNCHANGED vars
  <2>1. RestOK /\ FlowOK /\ SlotOK
    BY TypeParts
  <2>2. RestOK' /\ FlowOK'
    BY <1>6, <2>1 DEF vars, RestOK, FlowOK
  <2>3. SlotOK'
    BY <1>6, <2>1, SlotSame DEF vars
  <2> QED
    BY <2>2, <2>3, TypeNext
<1> QED
  BY <1>1, <1>2, <1>3, <1>4, <1>5, <1>6 DEF Next

(* Every variable has its type, a saved image that is to be repaired leaves  *)
(* room for another revision, and every rewrite under way has its entry in   *)
(* the audit trail, which has at most max_brief_rewrites entries             *)
(* (rewrite_failed_brief_run, generate_package_run).                         *)
THEOREM TypeInvariant == Spec => []TypeInv
<1> QED
  BY InitType, NextType, PTL DEF Spec

(* Every variable of a run has its type. *)
THEOREM TypeCorrect == Spec => []TypeOK
<1>1. TypeInv => TypeOK
  BY DEF TypeInv
<1> QED
  BY <1>1, TypeInvariant, PTL

-----------------------------------------------------------------------------
(* Briefs are rewritten once per version, and a bounded number of times. *)

(* No version was left without its rewrite, no rewrite is of a version to    *)
(* come, and an answer under way is of the version its entry names.          *)
Asking(a) == a.kind = "rewrite" /\ a.step = "answer"
RewriteInv ==
    /\ \A i \in 1..Len(attempts) :
           /\ attempts[i].from <= run.version
           /\ attempts[i].outcome = "accepted" => attempts[i].from < run.version
    /\ \A s \in Slots : Asking(att[s]) => attempts[att[s].entry].from = att[s].version
    /\ \A i, j \in 1..Len(attempts) :
           /\ attempts[i].outcome = "accepted" /\ attempts[j].outcome = "accepted"
           /\ attempts[i].from = attempts[j].from
           => i = j

(* What holds of attempts at the start holds of them for ever. *)
Calmed == \A s \in Slots : att'[s] = att[s] \/ ~Asking(att[s])'

(* An audit trail that is as it was, but for outcomes that are no rewrite. *)
Kept ==
    /\ Len(attempts') = Len(attempts)
    /\ \A i \in 1..Len(attempts) :
           /\ attempts'[i].from = attempts[i].from
           /\ attempts'[i].outcome = "accepted" => attempts[i].outcome = "accepted"

(* Versions only grow. *)
Later == run'.version \in Nat /\ run'.version >= run.version

LEMMA KeptInv ==
    ASSUME TypeInv, RewriteInv, Later, Kept, Calmed
    PROVE  RewriteInv'
<1>1. /\ attempts \in Seq(Audit) /\ Len(attempts) \in Nat /\ run.version \in Nat
      /\ \A i \in 1..Len(attempts) : attempts[i].from \in Nat
  <2>1. attempts \in Seq(Audit) /\ run \in Runs
    BY TypeParts DEF RestOK
  <2>2. \A i \in 1..Len(attempts) : attempts[i] \in Audit
    BY <2>1, Entries
  <2> QED
    BY <2>1, <2>2, Entries DEF Runs, Audit, Versions
<1>2. 1..Len(attempts') = 1..Len(attempts)
  BY DEF Kept
<1>3. ASSUME NEW i \in 1..Len(attempts')
      PROVE  /\ attempts'[i].from <= run'.version
             /\ attempts'[i].outcome = "accepted" => attempts'[i].from < run'.version
  <2>1. i \in 1..Len(attempts) /\ attempts[i].from \in Nat
    BY <1>1, <1>2, <1>3
  <2>2. /\ attempts[i].from <= run.version
        /\ attempts[i].outcome = "accepted" => attempts[i].from < run.version
    BY <2>1 DEF RewriteInv
  <2>3. /\ attempts'[i].from = attempts[i].from
        /\ attempts'[i].outcome = "accepted" => attempts[i].outcome = "accepted"
    BY <2>1 DEF Kept
  <2> QED
    BY <1>1, <2>1, <2>2, <2>3 DEF Later
<1>4. ASSUME NEW s \in Slots, Asking(att[s])'
      PROVE  (attempts[att[s].entry].from = att[s].version)'
  <2>1. att'[s] = att[s] /\ Asking(att[s])
    BY <1>4 DEF Calmed, Asking
  <2>2. attempts[att[s].entry].from = att[s].version
    BY <2>1 DEF RewriteInv
  <2>3. att[s].entry \in 1..Len(attempts)
    BY <2>1, SlotType DEF Fits, Asking
  <2>4. attempts'[att[s].entry].from = attempts[att[s].entry].from
    BY <2>3 DEF Kept
  <2> QED
    BY <2>1, <2>2, <2>4
<1>5. ASSUME NEW i \in 1..Len(attempts'), NEW j \in 1..Len(attempts'),
             attempts'[i].outcome = "accepted", attempts'[j].outcome = "accepted",
             attempts'[i].from = attempts'[j].from
      PROVE  i = j
  <2>1. i \in 1..Len(attempts) /\ j \in 1..Len(attempts)
    BY <1>2, <1>5
  <2>2. /\ attempts[i].outcome = "accepted" /\ attempts[j].outcome = "accepted"
        /\ attempts[i].from = attempts[j].from
    BY <1>5, <2>1 DEF Kept
  <2> QED
    BY <2>1, <2>2 DEF RewriteInv
<1> QED
  BY <1>3, <1>4, <1>5 DEF RewriteInv

(* Steps of an attempt or a workflow after which nobody new is asking. *)
LEMMA GotoCalm ==
    ASSUME TypeInv, NEW s \in Slots, NEW step, Goto(s, step),
           step # "answer" \/ att[s].kind # "rewrite"
    PROVE  Calmed
<1>1. att \in [Slots -> AttemptStates]
  BY TypeParts DEF SlotOK
<1>2. att[s] \in AttemptStates
  BY <1>1
<1>3. PICK y : y = [att[s] EXCEPT !.step = step]
  OBVIOUS
<1>4. y.kind = att[s].kind /\ y.step = step
  BY <1>2, <1>3 DEF AttemptStates
<1>5. \A u \in Slots : att'[u] = IF u = s THEN y ELSE att[u]
  BY <1>1, <1>3 DEF Goto
<1> QED
  BY <1>4, <1>5 DEF Calmed, Asking

LEMMA ReturnCalm ==
    ASSUME TypeInv, NEW s \in Slots, NEW ok, NEW signal, Return(s, ok, signal)
    PROVE  Calmed
<1>1. att \in [Slots -> AttemptStates]
  BY TypeParts DEF SlotOK
<1>2. att[s] \in AttemptStates
  BY <1>1
<1>3. PICK y : y = IF s = Late THEN Idle
                   ELSE [att[s] EXCEPT !.step = "done", !.ok = ok, !.signal = signal]
  OBVIOUS
<1>4. y.step # "answer"
  BY <1>2, <1>3 DEF AttemptStates, Idle
<1>5. \A u \in Slots : att'[u] = IF u = s THEN y ELSE att[u]
  BY <1>1, <1>3 DEF Return
<1> QED
  BY <1>4, <1>5 DEF Calmed, Asking

LEMMA AnswerCalm == ASSUME TypeInv, NEW s \in Slots, NEW ok, Answer(s, ok) PROVE Calmed
BY ReturnCalm DEF Answer

LEMMA EnterCalm ==
    ASSUME TypeInv, NEW w \in Workflows, NEW f, Enter(w, f)
    PROVE  Calmed
<1>1. att \in [Slots -> AttemptStates]
  BY TypeParts DEF SlotOK
<1>2. PICK y : y = Wanted(f)
  OBVIOUS
<1>3. y.step # "answer"
  BY <1>2 DEF Wanted, Idle
<1>4. \A u \in Slots : att'[u] = IF u = w THEN y ELSE att[u]
  BY <1>1, <1>2 DEF Enter
<1> QED
  BY <1>3, <1>4 DEF Calmed, Asking

LEMMA RaiseCalm == ASSUME TypeInv, NEW s \in Slots, NEW final, Raise(s, final) PROVE Calmed
<1>1. CASE s = Late
  <2>1. att \in [Slots -> AttemptStates]
    BY TypeParts DEF SlotOK
  <2>2. \A u \in Slots : att'[u] = IF u = s THEN Idle ELSE att[u]
    BY <1>1, <2>1 DEF Raise
  <2> QED
    BY <2>2 DEF Calmed, Asking, Idle
<1>2. CASE s # Late
  <2>1. s \in Workflows
    BY <1>2 DEF Slots
  <2>2. \E f : Enter(s, f)
    BY <1>2 DEF Raise
  <2> QED
    BY <2>1, <2>2, EnterCalm
<1> QED
  BY <1>1, <1>2

LEMMA SaveCalm ==
    ASSUME TypeInv, NEW s \in Slots, NEW arts, At(s, "generate", "artwork"), Save(s, arts)
    PROVE  Calmed
<1>1. att \in [Slots -> AttemptStates]
  BY TypeParts DEF SlotOK
<1>2. CASE att' = [att EXCEPT ![s].arts = arts]
  <2>1. att[s] \in AttemptStates
    BY <1>1
  <2>2. PICK y : y = [att[s] EXCEPT !.arts = arts]
    OBVIOUS
  <2>3. y.kind = "generate"
    BY <2>1, <2>2 DEF AttemptStates, At
  <2>4. \A u \in Slots : att'[u] = IF u = s THEN y ELSE att[u]
    BY <1>1, <1>2, <2>2
  <2> QED
    BY <2>3, <2>4 DEF Calmed, Asking
<1>3. CASE Raise(s, FALSE)
  BY <1>3, RaiseCalm
<1> QED
  BY <1>2, <1>3 DEF Save

(* The version of a run, through the changes of its record. *)
LEMMA VersionKept ==
    ASSUME NEW r \in Runs
    PROVE  /\ r.version \in Nat
           /\ \A s : Status(r, s).version = r.version
           /\ Cleared(r).version = r.version + 1
           /\ \A q : Repriced(r, q).version = r.version + 1
BY DEF Status, Cleared, Repriced, Runs, Versions

(* Steps that leave the audit trail alone. *)
LEMMA SameTrail ==
    ASSUME TypeInv, RewriteInv, Later, attempts' = attempts, Calmed
    PROVE  RewriteInv'
BY KeptInv DEF Kept

LEMMA SameVersion ==
    ASSUME TypeInv, RewriteInv, run'.version = run.version, attempts' = attempts, Calmed
    PROVE  RewriteInv'
<1>1. run.version \in Nat
  BY TypeParts, VersionKept DEF RestOK
<1> QED
  BY <1>1, SameTrail DEF Later

LEMMA GenerationKeeps ==
    ASSUME TypeInv, RewriteInv, NEW s \in Slots,
           \/ Research(s) \/ StoreResearch(s) \/ Screen(s) \/ Block(s) \/ NoneSafe(s)
           \/ Select(s) \/ Generate(s) \/ WriteBrief(s) \/ Draw(s) \/ Prepare(s) \/ Settle(s)
           \/ HoldForBrief(s) \/ WriteListings(s) \/ StorePackage(s)
    PROVE  RewriteInv'
<1>0. run \in Runs /\ att \in [Slots -> AttemptStates] /\ att[s] \in AttemptStates
  BY TypeParts DEF RestOK, SlotOK
<1>1. CASE Research(s)
  <2>1. Calmed
    BY <1>1, AnswerCalm, GotoCalm DEF Research, At
  <2> QED
    BY <1>0, <1>1, <2>1, SameVersion, VersionKept DEF Research, others
<1>2. CASE StoreResearch(s)
  <2>1. Calmed
    BY <1>2, AnswerCalm DEF StoreResearch
  <2>2. run'.version = run.version
    BY <1>0, <1>2 DEF StoreResearch, Runs
  <2> QED
    BY <1>2, <2>1, <2>2, SameVersion DEF StoreResearch, others
<1>3. CASE Screen(s)
  <2>1. Calmed
    BY <1>3, AnswerCalm, GotoCalm DEF Screen, At
  <2>2. run'.version = run.version
    BY <1>0, <1>3, VersionKept DEF Screen
  <2> QED
    BY <1>3, <2>1, <2>2, SameVersion DEF Screen, others
<1>4. CASE Block(s)
  <2>1. Calmed
    BY <1>4, GotoCalm DEF Block, At, Calmed
  <2>2. run'.version = run.version
    BY <1>0, <1>4 DEF Block, Runs
  <2> QED
    BY <1>4, <2>1, <2>2, SameVersion DEF Block, others
<1>5. CASE NoneSafe(s)
  <2>1. Calmed
    BY <1>5, AnswerCalm DEF NoneSafe
  <2> QED
    BY <1>0, <1>5, <2>1, SameVersion, VersionKept DEF NoneSafe, others
<1>6. CASE Select(s)
  <2>1. Calmed
    BY <1>6, AnswerCalm DEF Select
  <2>2. run'.version = run.version
    BY <1>0, <1>6 DEF Select, Runs
  <2> QED
    BY <1>6, <2>1, <2>2, SameVersion DEF Select, others
<1>7. CASE Generate(s)
  <2>1. Calmed
    <3>1. PICK y : y = [att[s] EXCEPT
                        !.step = "brief", !.version = run'.version, !.brief = run'.brief,
                        !.template = IF run'.snapshot = "none" THEN template
                                     ELSE run'.snapshot,
                        !.listings = run'.listings, !.arts = artifacts[run'.version]]
      OBVIOUS
    <3>2. y.step = "brief"
      BY <1>0, <3>1 DEF AttemptStates
    <3>3. \A u \in Slots : att'[u] = IF u = s THEN y ELSE att[u]
      BY <1>0, <1>7, <3>1 DEF Generate
    <3> QED
      BY <3>2, <3>3 DEF Calmed, Asking
  <2>2. Later
    <3>1. PICK r : r = Revised(run, att[s])
      OBVIOUS
    <3>2. r \in Runs
      BY <1>0, <1>7, <3>1, RevisedType DEF Generate
    <3>3. CASE r = run
      BY <1>0, <1>7, <3>1, <3>3, VersionKept DEF Generate, Later
    <3>4. CASE \E b : r = [Cleared(run) EXCEPT !.snapshot = "none", !.brief = b]
      <4>1. Cleared(run) \in Runs
        BY <1>0, <1>7, ClearedType DEF Generate
      <4>2. r.version = run.version + 1
        BY <1>0, <3>4, <4>1, VersionKept DEF Runs
      <4>3. run.version \in Nat /\ run'.version = r.version
        BY <1>0, <1>7, <3>1, <3>2, VersionKept DEF Generate
      <4> QED
        BY <4>2, <4>3 DEF Later
    <3> QED
      BY <3>1, <3>3, <3>4 DEF Revised
  <2> QED
    BY <1>7, <2>1, <2>2, SameTrail DEF Generate, others
<1>8. CASE WriteBrief(s)
  <2>1. Calmed
    <3>1. PICK y : y = [att[s] EXCEPT
                          !.brief = IF att[s].brief = NoBrief
                                    THEN [by |-> "creative", version |-> att[s].version]
                                    ELSE att[s].brief,
                          !.step = "artwork"]
      OBVIOUS
    <3>2. y.step = "artwork"
      BY <1>0, <3>1 DEF AttemptStates
    <3>3. \A u \in Slots : att'[u] = IF u = s THEN y ELSE att[u]
      BY <1>0, <1>8, <3>1 DEF WriteBrief
    <3> QED
      BY <3>2, <3>3 DEF Calmed, Asking
  <2>2. run'.version = run.version
    BY <1>0, <1>8 DEF WriteBrief, Runs
  <2> QED
    BY <1>8, <2>1, <2>2, SameVersion DEF WriteBrief, others
<1>9. CASE Draw(s)
  <2>1. Calmed
    BY <1>9, SaveCalm DEF Draw
  <2> QED
    BY <1>9, <2>1, SameVersion DEF Draw
<1>10. CASE Prepare(s)
  <2>1. Calmed
    BY <1>10, SaveCalm DEF Prepare
  <2> QED
    BY <1>0, <1>10, <2>1, SameVersion, VersionKept DEF Prepare
<1>11. CASE Settle(s)
  <2>1. Calmed
    BY <1>11, GotoCalm DEF Settle
  <2>2. run'.version = run.version
    BY <1>0, <1>11 DEF Settle, Runs
  <2> QED
    BY <1>11, <2>1, <2>2, SameVersion DEF Settle, others
<1>12. CASE HoldForBrief(s)
  <2>1. Calmed
    BY <1>12, AnswerCalm DEF HoldForBrief
  <2> QED
    BY <1>0, <1>12, <2>1, SameVersion, VersionKept DEF HoldForBrief, others
<1>13. CASE WriteListings(s)
  <2>1. Calmed
    <3>1. CASE Goto(s, "store")
      BY <3>1, GotoCalm
    <3>2. CASE att' = [att EXCEPT ![s] = [@ EXCEPT !.step = "store", !.listings = att[s].version]]
      <4>1. PICK y : y = [att[s] EXCEPT !.step = "store", !.listings = att[s].version]
        OBVIOUS
      <4>2. y.step = "store"
        BY <1>0, <4>1 DEF AttemptStates
      <4>3. \A u \in Slots : att'[u] = IF u = s THEN y ELSE att[u]
        BY <1>0, <3>2, <4>1
      <4> QED
        BY <4>2, <4>3 DEF Calmed, Asking
    <3> QED
      BY <1>13, <3>1, <3>2 DEF WriteListings
  <2>2. run'.version = run.version
    <3>1. Status(run, "working") \in Runs
      BY <1>0, StatusType DEF Statuses
    <3> QED
      BY <1>0, <1>13, <3>1, VersionKept DEF WriteListings, Runs
  <2> QED
    BY <1>13, <2>1, <2>2, SameVersion DEF WriteListings, others
<1>14. CASE StorePackage(s)
  <2>1. Calmed
    BY <1>14, AnswerCalm DEF StorePackage
  <2>2. run'.version = run.version
    <3>1. Status(run, "awaiting_approval") \in Runs
      BY <1>0, StatusType DEF Statuses
    <3> QED
      BY <1>0, <1>14, <3>1, VersionKept DEF StorePackage, Runs
  <2> QED
    BY <1>14, <2>1, <2>2, SameVersion DEF StorePackage, others
<1> QED
  BY <1>1, <1>2, <1>3, <1>4, <1>5, <1>6, <1>7, <1>8, <1>9, <1>10, <1>11, <1>12, <1>13, <1>14

(* Closing entries makes no rewrite of them. *)
LEMMA InterruptedKept == ASSUME TypeInv, attempts' = Interrupted PROVE Kept
BY InterruptedType DEF Kept

LEMMA MarkKept ==
    ASSUME TypeInv, NEW s \in Slots, At(s, "rewrite", "answer"),
           NEW outcome \in Outcomes \ {"accepted"}, Mark(s, outcome)
    PROVE  Kept
<1>1. /\ Len(attempts') = Len(attempts)
      /\ \A i \in 1..Len(attempts) : attempts'[i] =
                 IF i = att[s].entry THEN [attempts[i] EXCEPT !.outcome = outcome] ELSE attempts[i]
  BY MarkType
<1>2. \A i \in 1..Len(attempts) : attempts[i] \in Audit
  BY UsedType, Entries
<1>3. ASSUME NEW i \in 1..Len(attempts)
      PROVE  /\ attempts'[i].from = attempts[i].from
             /\ attempts'[i].outcome = "accepted" => attempts[i].outcome = "accepted"
  <2>1. attempts[i] \in Audit
    BY <1>2
  <2>2. CASE i = att[s].entry
    <3>1. attempts'[i] = [attempts[i] EXCEPT !.outcome = outcome]
      BY <1>1, <2>2
    <3> QED
      BY <2>1, <3>1 DEF Audit
  <2>3. CASE i # att[s].entry
    BY <1>1, <2>3
  <2> QED
    BY <2>2, <2>3
<1> QED
  BY <1>1, <1>3 DEF Kept

(* A new entry is of the present version. *)
LEMMA ReserveKeeps ==
    ASSUME TypeInv, RewriteInv, NEW s \in Slots, ReserveRewrite(s)
    PROVE  RewriteInv'
<1>0. /\ run \in Runs /\ att \in [Slots -> AttemptStates] /\ att[s] \in AttemptStates
      /\ run' = run /\ run.version \in Nat
  BY TypeParts, VersionKept DEF RestOK, SlotOK, ReserveRewrite
<1>1. /\ Len(attempts') = Len(attempts) + 1 /\ Len(attempts) \in Nat
      /\ \A i \in 1..Len(attempts) : attempts'[i] = Interrupted[i]
      /\ attempts'[Len(attempts')] = [from |-> run.version, outcome |-> "started"]
  BY ReservedType
<1>2. \A i \in 1..Len(attempts) :
          /\ attempts'[i].from = attempts[i].from
          /\ attempts'[i].outcome = "accepted" <=> attempts[i].outcome = "accepted"
  BY <1>1, InterruptedType
<1>3. PICK n : n = Len(attempts')
  OBVIOUS
<1>4. attempts'[n].from = run.version /\ attempts'[n].outcome # "accepted"
      /\ 1..n = 1..Len(attempts) \cup {n}
  BY <1>1, <1>3
<1>5. ASSUME NEW i \in 1..Len(attempts')
      PROVE  /\ attempts'[i].from <= run'.version
             /\ attempts'[i].outcome = "accepted" => attempts'[i].from < run'.version
  <2>1. CASE i = n
    BY <1>0, <1>4, <2>1
  <2>2. CASE i \in 1..Len(attempts)
    BY <1>0, <1>2, <2>2 DEF RewriteInv
  <2> QED
    BY <1>3, <1>4, <2>1, <2>2
<1>6. ASSUME NEW u \in Slots, Asking(att[u])'
      PROVE  (attempts[att[u].entry].from = att[u].version)'
  <2>1. CASE u = s
    <3>1. PICK y : y = [att[s] EXCEPT !.step = "answer", !.version = run.version,
                                      !.brief = run.brief, !.entry = n]
      OBVIOUS
    <3>2. y.version = run.version /\ y.entry = n
      BY <1>0, <3>1 DEF AttemptStates
    <3>3. att'[u] = y
      BY <1>0, <1>3, <2>1, <3>1 DEF ReserveRewrite
    <3> QED
      BY <1>4, <3>2, <3>3
  <2>2. CASE u # s
    <3>1. att'[u] = att[u]
      BY <1>0, <2>2 DEF ReserveRewrite
    <3>2. Asking(att[u])
      BY <1>6, <3>1 DEF Asking
    <3>3. att[u].entry \in 1..Len(attempts)
      BY <3>2, SlotType DEF Fits, Asking
    <3>4. attempts[att[u].entry].from = att[u].version
      BY <3>2 DEF RewriteInv
    <3> QED
      BY <1>2, <3>1, <3>3, <3>4
  <2> QED
    BY <2>1, <2>2
<1>7. ASSUME NEW i \in 1..Len(attempts'), NEW j \in 1..Len(attempts'),
             attempts'[i].outcome = "accepted", attempts'[j].outcome = "accepted",
             attempts'[i].from = attempts'[j].from
      PROVE  i = j
  <2>1. i \in 1..Len(attempts) /\ j \in 1..Len(attempts)
    BY <1>3, <1>4, <1>7
  <2>2. /\ attempts[i].outcome = "accepted" /\ attempts[j].outcome = "accepted"
        /\ attempts[i].from = attempts[j].from
    BY <1>2, <1>7, <2>1
  <2> QED
    BY <2>1, <2>2 DEF RewriteInv
<1> QED
  BY <1>5, <1>6, <1>7 DEF RewriteInv

(* A rewrite is accepted for the version it was asked for, which nothing     *)
(* else has left.                                                            *)
LEMMA AcceptKeeps ==
    ASSUME TypeInv, RewriteInv, NEW s \in Slots, RewriteAccepted(s)
    PROVE  RewriteInv'
<1>0. /\ run \in Runs /\ att \in [Slots -> AttemptStates] /\ att[s] \in AttemptStates
      /\ run.version \in Nat /\ At(s, "rewrite", "answer") /\ Mark(s, "accepted")
  BY TypeParts, VersionKept DEF RestOK, SlotOK, RewriteAccepted
<1>1. PICK k : k = att[s].entry
  OBVIOUS
<1>2. /\ Len(attempts') = Len(attempts) /\ Len(attempts) \in Nat
      /\ k \in 1..Len(attempts)
      /\ \A i \in 1..Len(attempts) : attempts'[i] =
                 IF i = k THEN [attempts[i] EXCEPT !.outcome = "accepted"] ELSE attempts[i]
  BY <1>0, <1>1, MarkType DEF Outcomes
<1>3. \A i \in 1..Len(attempts) : attempts[i] \in Audit
  BY UsedType, Entries
<1>4. attempts[k].from = run.version
  BY <1>0, <1>1 DEF RewriteAccepted, Superseded, RewriteInv, Asking, At
<1>5. attempts'[k].from = run.version
  <2>1. attempts'[k] = [attempts[k] EXCEPT !.outcome = "accepted"] /\ attempts[k] \in Audit
    BY <1>2, <1>3
  <2> QED
    BY <1>4, <2>1 DEF Audit
<1>6. \A i \in 1..Len(attempts) : i # k => attempts'[i] = attempts[i]
  BY <1>2
<1>7. run'.version = run.version + 1
  <2>1. Cleared(run) \in Runs
    BY <1>0, ClearedType DEF RewriteAccepted
  <2> QED
    BY <1>0, <2>1, VersionKept DEF RewriteAccepted, Runs
<1>8. \A i \in 1..Len(attempts) : attempts[i].from \in Nat
  BY <1>3 DEF Audit, Versions
<1>9. ASSUME NEW i \in 1..Len(attempts')
      PROVE  /\ attempts'[i].from <= run'.version
             /\ attempts'[i].outcome = "accepted" => attempts'[i].from < run'.version
  <2>1. CASE i = k
    BY <1>0, <1>5, <1>7, <2>1
  <2>2. CASE i # k
    BY <1>0, <1>2, <1>6, <1>7, <1>8, <2>2 DEF RewriteInv
  <2> QED
    BY <2>1, <2>2
<1>10. Calmed
  BY AnswerCalm DEF RewriteAccepted
<1>11. ASSUME NEW u \in Slots, Asking(att[u])'
       PROVE  (attempts[att[u].entry].from = att[u].version)'
  <2>1. att'[u] = att[u] /\ Asking(att[u])
    BY <1>10, <1>11 DEF Calmed, Asking
  <2>2. attempts[att[u].entry].from = att[u].version /\ att[u].entry \in 1..Len(attempts)
    BY <2>1, SlotType DEF RewriteInv, Fits, Asking
  <2>3. attempts'[att[u].entry].from = attempts[att[u].entry].from
    BY <1>4, <1>5, <1>6, <2>2
  <2> QED
    BY <2>1, <2>2, <2>3
<1>12. ASSUME NEW i \in 1..Len(attempts'), NEW j \in 1..Len(attempts'),
              attempts'[i].outcome = "accepted", attempts'[j].outcome = "accepted",
              attempts'[i].from = attempts'[j].from
       PROVE  i = j
  <2>1. CASE i # k /\ j # k
    BY <1>2, <1>6, <1>12, <2>1 DEF RewriteInv
  <2>2. ASSUME NEW l \in 1..Len(attempts'), l # k, attempts'[l].outcome = "accepted"
        PROVE  attempts'[l].from # run.version
    <3>1. l \in 1..Len(attempts) /\ attempts'[l] = attempts[l]
      BY <1>2, <1>6, <2>2
    <3> QED
      BY <1>0, <1>8, <2>2, <3>1 DEF RewriteInv
  <2> QED
    BY <1>5, <1>12, <2>1, <2>2
<1> QED
  BY <1>9, <1>11, <1>12 DEF RewriteInv

LEMMA RewritingKeeps ==
    ASSUME TypeInv, RewriteInv, NEW s \in Slots,
           \/ RewriteNothing(s) \/ FallBack(s) \/ GiveUp(s) \/ ReserveRewrite(s)
           \/ RewriteSuperseded(s) \/ RewriteRejected(s) \/ RewriteAccepted(s)
           \/ ProviderError(s) \/ Refused(s)
    PROVE  RewriteInv'
<1>0. run \in Runs /\ run.version \in Nat
  BY TypeParts, VersionKept DEF RestOK
<1>1. CASE RewriteNothing(s)
  <2>1. Calmed
    BY <1>1, AnswerCalm DEF RewriteNothing
  <2> QED
    BY <1>1, <2>1, SameVersion DEF RewriteNothing, others
<1>2. CASE FallBack(s)
  <2>1. Calmed /\ Kept
    BY <1>2, AnswerCalm, InterruptedKept DEF FallBack
  <2>2. Later
    <3>1. Cleared(run) \in Runs
      BY <1>0, <1>2, ClearedType DEF FallBack
    <3>2. run'.version = run.version + 1
      BY <1>0, <1>2, <3>1, VersionKept DEF FallBack, Runs
    <3> QED
      BY <1>0, <3>2 DEF Later
  <2> QED
    BY <2>1, <2>2, KeptInv
<1>3. CASE GiveUp(s)
  <2>1. Calmed /\ Kept
    BY <1>3, AnswerCalm, InterruptedKept DEF GiveUp
  <2>2. Later
    BY <1>0, <1>3, VersionKept DEF GiveUp, Later
  <2> QED
    BY <2>1, <2>2, KeptInv
<1>4. CASE RewriteSuperseded(s)
  <2>1. Calmed /\ Kept
    BY <1>4, AnswerCalm, MarkKept DEF RewriteSuperseded, Outcomes
  <2>2. Later
    BY <1>0, <1>4 DEF RewriteSuperseded, Later
  <2> QED
    BY <2>1, <2>2, KeptInv
<1>5. CASE RewriteRejected(s)
  <2>1. Calmed /\ Kept
    BY <1>5, GotoCalm, MarkKept DEF RewriteRejected, Outcomes
  <2>2. Later
    BY <1>0, <1>5 DEF RewriteRejected, Later
  <2> QED
    BY <2>1, <2>2, KeptInv
<1>6. CASE ProviderError(s)
  <2>1. Calmed
    BY <1>6, RaiseCalm DEF ProviderError
  <2>2. Kept
    BY <1>6, MarkKept DEF ProviderError, Kept, Outcomes
  <2>3. Later
    BY <1>0, <1>6 DEF ProviderError, Later
  <2> QED
    BY <2>1, <2>2, <2>3, KeptInv
<1>7. CASE Refused(s)
  <2>1. Calmed
    BY <1>7, RaiseCalm DEF Refused
  <2> QED
    BY <1>7, <2>1, SameVersion DEF Refused
<1> QED
  BY <1>1, <1>2, <1>3, <1>4, <1>5, <1>6, <1>7, ReserveKeeps, AcceptKeeps

LEMMA ReleaseKeeps ==
    ASSUME TypeInv, RewriteInv, NEW s \in Slots,
           \/ Automatic(s) \/ RecordApproval(s) \/ ReadApproved(s) \/ StillValid(s)
           \/ Reprice(s) \/ Unavailable(s) \/ Finish(s) \/ MarkCancelled(s)
           \/ RecordRejection(s) \/ MarkFailed(s)
    PROVE  RewriteInv'
<1>0. /\ run \in Runs /\ run.version \in Nat /\ att \in [Slots -> AttemptStates]
      /\ att[s] \in AttemptStates
  BY TypeParts, VersionKept DEF RestOK, SlotOK
<1>1. CASE Automatic(s)
  <2>1. Calmed
    BY <1>1, AnswerCalm, RaiseCalm, ReturnCalm DEF Automatic
  <2> QED
    BY <1>1, <2>1, SameVersion DEF Automatic, others
<1>2. CASE RecordApproval(s)
  <2>1. Calmed
    BY <1>2, AnswerCalm DEF RecordApproval
  <2>2. run'.version = run.version
    <3>1. Status(run, "publishing") \in Runs
      BY <1>0, StatusType DEF Statuses
    <3>2. CASE run' = run
      BY <3>2
    <3>3. CASE run' # run
      <4>1. run' = [Status(run, "publishing") EXCEPT
                       !.approvals = @ \cup {[version |-> att[s].signal.version,
                                              decision |-> "approved"]}]
        BY <1>2, <3>3 DEF RecordApproval
      <4> QED
        BY <1>0, <3>1, <4>1, VersionKept DEF Runs
    <3> QED
      BY <3>2, <3>3
  <2> QED
    BY <1>2, <2>1, <2>2, SameVersion DEF RecordApproval, others
<1>3. CASE ReadApproved(s)
  <2>1. Calmed
    <3>1. CASE Raise(s, TRUE)
      BY <3>1, RaiseCalm
    <3>2. CASE att' = [att EXCEPT ![s] = [@ EXCEPT !.step = "answer", !.template = template]]
      <4>1. PICK y : y = [att[s] EXCEPT !.step = "answer", !.template = template]
        OBVIOUS
      <4>2. y.kind = "revalidate"
        BY <1>0, <1>3, <4>1 DEF AttemptStates, ReadApproved, At
      <4>3. \A u \in Slots : att'[u] = IF u = s THEN y ELSE att[u]
        BY <1>0, <3>2, <4>1
      <4> QED
        BY <4>2, <4>3 DEF Calmed, Asking
    <3> QED
      BY <1>3, <3>1, <3>2 DEF ReadApproved
  <2> QED
    BY <1>3, <2>1, SameVersion DEF ReadApproved, others
<1>4. CASE StillValid(s)
  <2>1. Calmed
    BY <1>4, AnswerCalm DEF StillValid
  <2> QED
    BY <1>4, <2>1, SameVersion DEF StillValid, others
<1>5. CASE Reprice(s)
  <2>1. Calmed
    BY <1>5, AnswerCalm DEF Reprice
  <2>2. market \in Templates /\ run.version < MaxVersion
    BY <1>5 DEF Reprice
  <2>3. Repriced(run, NoQuotes) \in Runs
        /\ Repriced(run, [at |-> market, edited |-> FALSE]) \in Runs
    BY <1>0, <2>2, RepricedType, NoSignalType DEF Quotes
  <2>4. run'.version = run.version + 1
    <3>1. CASE run' = [Repriced(run, NoQuotes) EXCEPT !.snapshot = market, !.passed = FALSE]
      BY <1>0, <2>3, <3>1, VersionKept DEF Runs
    <3>2. CASE run' = [Repriced(run, [at |-> market, edited |-> FALSE]) EXCEPT !.snapshot = market]
      BY <1>0, <2>3, <3>2, VersionKept DEF Runs
    <3> QED
      BY <1>5, <3>1, <3>2 DEF Reprice
  <2>5. Later
    BY <1>0, <2>4 DEF Later
  <2> QED
    BY <1>5, <2>1, <2>5, SameTrail DEF Reprice
<1>6. CASE Unavailable(s)
  <2>1. Calmed
    BY <1>6, AnswerCalm, RaiseCalm DEF Unavailable
  <2>2. Repriced(run, NoQuotes) \in Runs
    BY <1>0, <1>6, RepricedType, NoSignalType DEF Unavailable
  <2>3. CASE run' = [Repriced(run, NoQuotes) EXCEPT !.passed = FALSE]
    <3>1. run'.version = run.version + 1
      BY <1>0, <2>2, <2>3, VersionKept DEF Runs
    <3>2. Later
      BY <1>0, <3>1 DEF Later
    <3> QED
      BY <1>6, <2>1, <3>2, SameTrail DEF Unavailable, others
  <2>4. CASE run' = run
    BY <1>6, <2>1, <2>4, SameVersion DEF Unavailable, others
  <2> QED
    BY <1>6, <2>3, <2>4 DEF Unavailable
<1>7. CASE Finish(s)
  <2>1. Calmed
    BY <1>7, AnswerCalm DEF Finish
  <2> QED
    BY <1>0, <1>7, <2>1, SameVersion, VersionKept DEF Finish, others
<1>8. CASE MarkCancelled(s)
  <2>1. Calmed
    BY <1>8, AnswerCalm DEF MarkCancelled
  <2> QED
    BY <1>0, <1>8, <2>1, SameVersion, VersionKept DEF MarkCancelled, others
<1>9. CASE RecordRejection(s)
  <2>1. Calmed
    BY <1>9, AnswerCalm DEF RecordRejection
  <2>2. Status(run, "rejected") \in Runs
    BY <1>0, StatusType DEF Statuses, Rest
  <2>3. run'.version = run.version
    BY <1>0, <1>9, <2>2, VersionKept DEF RecordRejection, Runs
  <2> QED
    BY <1>9, <2>1, <2>3, SameVersion DEF RecordRejection, others
<1>10. CASE MarkFailed(s)
  <2>1. Calmed
    BY <1>10, AnswerCalm DEF MarkFailed
  <2> QED
    BY <1>0, <1>10, <2>1, SameVersion, VersionKept DEF MarkFailed, others
<1> QED
  BY <1>1, <1>2, <1>3, <1>4, <1>5, <1>6, <1>7, <1>8, <1>9, <1>10

LEMMA FlowKeeps ==
    ASSUME TypeInv, RewriteInv, NEW w \in Workflows, Flow(w)
    PROVE  RewriteInv'
<1>1. CASE \E f : Enter(w, f) /\ UNCHANGED steps
  <2>1. Calmed
    BY <1>1, EnterCalm
  <2> QED
    BY <1>1, <2>1, SameVersion DEF steps
<1>2. CASE \E c \in Channels : Publish(w, c)
  <2>1. att' = att /\ run' = run /\ attempts' = attempts
    BY <1>2 DEF Publish
  <2>2. Calmed
    BY <2>1 DEF Calmed
  <2> QED
    BY <2>1, <2>2, SameVersion
<1>3. \A stage : To(w, stage) => \E f : Enter(w, f)
  BY DEF To
<1> QED
  BY <1>1, <1>2, <1>3
     DEF Flow, AfterResearch, AfterScreen, AfterGenerate, AfterRewrite, AfterAutomatic, TakeCancel,
         TakeReject, TakeRegenerate, TakeApproval, AfterRecord, AfterRevalidate, AfterReapprove,
         AfterPublish, Close

(* A late attempt is still the one of its entry. *)
LEMMA FaultKeeps ==
    ASSUME TypeInv, RewriteInv, NEW w \in Workflows, CutOff(w) \/ TimeOut(w)
    PROVE  RewriteInv'
<1>1. CASE CutOff(w)
  <2>1. Calmed
    BY <1>1, EnterCalm DEF CutOff
  <2> QED
    BY <1>1, <2>1, SameVersion DEF CutOff
<1>2. CASE TimeOut(w)
  <2>0. att \in [Slots -> AttemptStates] /\ run' = run /\ attempts' = attempts
        /\ w \in Slots
    BY <1>2, TypeParts DEF SlotOK, TimeOut, Slots
  <2>1. PICK y : y = Wanted(Again(w))
    OBVIOUS
  <2>2. y.step # "answer"
    BY <2>1 DEF Wanted, Idle
  <2>3. PICK x : x = att[w]
    OBVIOUS
  <2>4. \A u \in Slots : att'[u] = IF u = w THEN y ELSE IF u = Late THEN x ELSE att[u]
    BY <1>2, <2>0, <2>1, <2>3 DEF TimeOut
  <2>5. ASSUME NEW u \in Slots, Asking(att[u])'
        PROVE  (attempts[att[u].entry].from = att[u].version)'
    <3>1. PICK v \in Slots : att'[u] = att[v]
      BY <2>0, <2>2, <2>3, <2>4, <2>5 DEF Asking
    <3>2. Asking(att[v])
      BY <2>5, <3>1 DEF Asking
    <3> QED
      BY <2>0, <3>1, <3>2 DEF RewriteInv
  <2>6. \A i \in 1..Len(attempts') :
           /\ attempts'[i].from <= run'.version
           /\ attempts'[i].outcome = "accepted" => attempts'[i].from < run'.version
    BY <2>0 DEF RewriteInv
  <2>7. \A i, j \in 1..Len(attempts') :
           /\ attempts'[i].outcome = "accepted" /\ attempts'[j].outcome = "accepted"
           /\ attempts'[i].from = attempts'[j].from
           => i = j
    BY <2>0 DEF RewriteInv
  <2> QED
    BY <2>5, <2>6, <2>7 DEF RewriteInv
<1> QED
  BY <1>1, <1>2

LEMMA OperatorKeeps ==
    ASSUME TypeInv, RewriteInv, Operator
    PROVE  RewriteInv'
<1>0. run \in Runs /\ run.version \in Nat
  BY TypeParts, VersionKept DEF RestOK
<1>1. CASE \E f : Tell(f)
  BY <1>1, SameVersion DEF Tell, Calmed
<1>2. CASE Edit
  <2>1. run'.version = run.version + 1
    BY <1>0, <1>2 DEF Edit, Runs
  <2>2. Later
    BY <1>0, <2>1 DEF Later
  <2>3. attempts' = attempts /\ Calmed
    BY <1>2 DEF Edit, Calmed
  <2> QED
    BY <2>2, <2>3, SameTrail
<1>3. ASSUME NEW r \in Runs, NEW f, r.version = run.version, Restart(r, f) PROVE RewriteInv'
  <2>1. run.workflow + 1 \in Workflows
    BY <1>0, <1>3, Bounds DEF Restart, Runs, Workflows
  <2>2. Calmed
    BY <1>3, <2>1, EnterCalm DEF Restart
  <2>3. Status(r, "pending") \in Runs
    BY <1>3, StatusType DEF Statuses
  <2>4. run'.version = run.version
    BY <1>3, <2>3, VersionKept DEF Restart, Runs
  <2> QED
    BY <1>3, <2>2, <2>4, SameVersion DEF Restart
<1>4. CASE ResumeResearched
  <2>1. PICK r : r = [run EXCEPT !.selected = FALSE, !.brief = NoBrief, !.passed = FALSE,
                                 !.listings = 0, !.quotes = NoQuotes]
    OBVIOUS
  <2>2. 0 \in 0..MaxVersion
    BY Bounds
  <2>3. r \in Runs /\ r.version = run.version
    BY <1>0, <2>1, <2>2, NoSignalType DEF Runs
  <2> QED
    BY <1>3, <1>4, <2>1, <2>3 DEF ResumeResearched
<1>5. CASE RetryArtwork
  <2>1. PICK r : /\ \/ r = run
                    \/ r = [run EXCEPT !.brief = [by |-> "operator", version |-> run.version]]
                 /\ \E f : Restart(r, f)
    BY <1>5 DEF RetryArtwork
  <2>2. [by |-> "operator", version |-> run.version] \in Briefs
    BY <1>0, Bounds DEF Runs, Versions, Briefs, Origins
  <2>3. r \in Runs /\ r.version = run.version
    BY <1>0, <2>1, <2>2 DEF Runs
  <2> QED
    BY <1>3, <2>1, <2>3
<1>6. CASE \E c \in Channels : RetryChannel(c)
  BY <1>6, SameVersion DEF RetryChannel, Calmed
<1> QED
  BY <1>1, <1>2, <1>4, <1>5, <1>6 DEF Operator, Approve, Reject, Regenerate, Cancel

LEMMA NextRewrites ==
    TypeInv /\ RewriteInv /\ [Next]_vars => RewriteInv'
<1> SUFFICES ASSUME TypeInv, RewriteInv, [Next]_vars PROVE RewriteInv'
  OBVIOUS
<1>1. CASE \E s \in Slots : Attempt(s) \/ ProviderError(s) \/ Refused(s)
  BY <1>1, GenerationKeeps, RewritingKeeps, ReleaseKeeps DEF Attempt
<1>2. CASE \E w \in Workflows : Flow(w) \/ CutOff(w) \/ TimeOut(w)
  BY <1>2, FlowKeeps, FaultKeeps
<1>3. CASE \E c \in Channels : Retrying(c)
  <2>1. PICK c \in Channels : Retrying(c)
    BY <1>3
  <2>2. run \in Runs
    BY TypeParts DEF RestOK
  <2>3. run'.version = run.version /\ attempts' = attempts /\ Calmed
    BY <2>1, <2>2, VersionKept DEF Retrying, RetryPublish, CountRetry, FinishRetry, Calmed
  <2> QED
    BY <2>3, SameVersion
<1>4. CASE Operator
  BY <1>4, OperatorKeeps
<1>5. CASE Shift
  BY <1>5, SameVersion DEF Shift, Calmed
<1>6. CASE UNCHANGED vars
  BY <1>6, SameVersion DEF vars, Calmed
<1> QED
  BY <1>1, <1>2, <1>3, <1>4, <1>5, <1>6 DEF Next

LEMMA InitRewrites == Init => RewriteInv
<1> SUFFICES ASSUME Init PROVE RewriteInv
  OBVIOUS
<1>1. 1..Len(attempts) = {}
  BY DEF Init
<1>2. \A s \in Slots : ~Asking(att[s])
  BY DEF Init, Asking, Idle
<1> QED
  BY <1>1, <1>2 DEF RewriteInv

(* The model is asked for at most max_brief_rewrites briefs, rejected,       *)
(* interrupted and overtaken attempts included, and no version is rewritten  *)
(* twice: an answer that comes after its version was left, or after its      *)
(* attempt was closed, is not accepted (rewrite_failed_brief_run).           *)
THEOREM RewritesAreBounded == Spec => []RewriteBudget
<1>1. Init => TypeInv /\ RewriteInv
  BY InitType, InitRewrites
<1>2. TypeInv /\ RewriteInv /\ [Next]_vars => (TypeInv /\ RewriteInv)'
  BY NextType, NextRewrites
<1>3. TypeInv /\ RewriteInv => RewriteBudget
  <2> SUFFICES ASSUME TypeInv, RewriteInv PROVE RewriteBudget
    OBVIOUS
  <2>1. DOMAIN attempts = 1..Len(attempts) /\ Len(attempts) <= MaxRewrites
    BY TypeParts, UsedType, Entries DEF RestOK
  <2> QED
    BY <2>1 DEF RewriteInv, RewriteBudget, Accepted
<1> QED
  BY <1>1, <1>2, <1>3, PTL DEF Spec

-----------------------------------------------------------------------------
(* One workflow at a time.  Where the operator sends requests only when the  *)
(* run's workflow waits or has ended, and the only activity that is answered *)
(* after its timeout is the one whose code speaks of it                      *)
(* (rewrite_failed_brief_run), the run's own workflow is the only one under  *)
(* way, and the status of the run says what it is doing.                     *)

Patient == ~Eager /\ Slow \subseteq {"rewrite"}

Present == wf[run.workflow]
Doing == att[run.workflow]

(* Workflows wait for their own activities, and none but the run's goes on. *)
Alone ==
    /\ \A w \in Workflows :
           /\ att[w].kind = IF wf[w].stage \in Activities THEN wf[w].stage ELSE "idle"
           /\ w # run.workflow => wf[w].stage \in {"unborn", "closed", "stuck"}
    /\ att[Late].kind \in {"idle", "rewrite"}

(* What the status of a run may be at each stage of its workflow. *)
Ended == {"published", "partially_published", "verification_required", "failed"}
Stands(r, f, a) ==
    /\ f.stage = "research" => r.status \in {"pending", "working"}
    /\ f.stage = "screen" =>
           /\ r.status \in {"pending", "working", "no_safe_candidate"}
           /\ r.status = "no_safe_candidate" => ~r.selected
           /\ a.step \in {"answer", "hold"} => r.status = "working" /\ ~r.selected
           /\ a.step = "done" => (a.ok <=> r.status # "no_safe_candidate")
    /\ f.stage = "generate" =>
           /\ r.status \in {"pending", "working", "awaiting_approval", "awaiting_brief_revision"}
           /\ a.step \notin {"start", "done"} => r.status = "working"
           /\ a.step = "done" /\ a.ok => r.status = "awaiting_approval"
           /\ a.step = "done" /\ ~a.ok => r.status \in {"pending", "awaiting_brief_revision"}
    /\ f.stage = "generate" /\ a.step = "start" => a.regenerate = f.regenerate
    /\ f.stage = "rewrite" =>
           /\ r.status \in {"pending", "awaiting_brief_revision"}
           /\ a.step = "done" /\ a.ok => r.status = "pending"
    /\ f.stage \in {"automatic", "reapprove"} => r.status = "awaiting_approval"
    /\ f.stage \in {"wait", "record", "revalidate"} => r.status \in {"awaiting_approval", "publishing"}
    /\ f.stage = "record" /\ a.step = "done" /\ a.ok => r.status = "publishing"
    /\ f.stage = "revalidate" =>
           /\ a.step = "answer" => r.status = "publishing"
           /\ a.step = "done" => (a.ok <=> r.status = "publishing")
    /\ f.stage = "publish" => r.status = "publishing"
    /\ f.stage = "finish" =>
           /\ r.status \in Ended \cup {"publishing"}
           /\ a.step = "done" => r.status \in Ended
    /\ f.stage = "cancel" =>
           /\ r.status \in {"awaiting_approval", "publishing", "cancelled"}
           /\ a.step = "done" => r.status = "cancelled"
    /\ f.stage = "reject" =>
           /\ r.status \in {"awaiting_approval", "publishing", "rejected"}
           /\ a.step = "done" => r.status = "rejected"
    /\ f.stage = "fail" =>
           /\ r.status \notin {"published", "partially_published", "verification_required",
                               "cancelled", "rejected"}
           /\ a.step = "done" => r.status \in {"failed", "pending", "awaiting_brief_revision"}
    /\ f.stage \in {"closed", "stuck"} => r.status \notin {"working", "awaiting_approval", "publishing"}
    /\ f.stage # "unborn"
    /\ f.stage \notin {"wait", "cancel", "reject", "closed", "stuck"} => ~f.again
    /\ f.stage = "wait" /\ r.status = "publishing" => ~f.again
    /\ r.status = "publishing" \/ f.stage \in {"publish", "finish"} => r.approvals # {}

(* A channel is retried when its run was published, one at a time. *)
Retried ==
    \A c \in Channels : retry[c].step # "idle" =>
        /\ Present.stage \in {"closed", "stuck"}
        /\ run.status \in {"partially_published", "failed", "verification_required"}
        /\ publishes[c] # "none"
        /\ \A d \in Channels : d # c => retry[d].step = "idle"

Stand == Alone /\ Stands(run, Present, Doing) /\ Retried

(* An attempt that works on the artwork of a version, a workflow about to    *)
(* begin another version, and one whose package is still being made.         *)
Deep(a) == a.kind = "generate" /\ a.step \in {"brief", "artwork", "hold", "list", "store"}
Redo(r, f, a) ==
    /\ f.stage = "generate" /\ a.step = "start" /\ f.regenerate
    /\ r.status \in {"pending", "awaiting_approval"}
Drawing(r, f, a) ==
    f.stage \in {"research", "screen", "rewrite", "generate"} /\ ~Redo(r, f, a)

(* Artwork that passed QA, and that no later version replaces. *)
Finished(arts) == arts # <<>> /\ arts[Len(arts)] = "passed"
Shown ==
    \E v \in Versions :
        Finished(artifacts[v]) /\ \A u \in Versions : u > v => Production(u) = {}

(* What has been drawn is of the versions so far, a passed run shows artwork *)
(* that passed, and an attempt goes on with what it read.                    *)
Drawn ==
    /\ \A v \in Versions : v > run.version => artifacts[v] = <<>>
    /\ run.passed => Shown
    /\ Drawing(run, Present, Doing) /\ run.passed => Finished(artifacts[run.version])
    /\ Deep(Doing) => /\ Doing.version = run.version /\ Doing.arts = artifacts[run.version]
                      /\ Doing.step \in {"list", "store"} => run.passed

(* An approval of the present version is of the package as it is. *)
Reads(sig, version, package, drawing) ==
    /\ sig.version <= version
    /\ sig.version = version => sig.package = package /\ ~drawing
Releasing(r, f) == r.status = "publishing" \/ f.stage \in {"publish", "finish"}
Approved(r) == [version |-> r.version, decision |-> "approved"] \in r.approvals
Signed ==
    /\ \A sig \in {Present.approval, Present.current, Doing.signal} :
           Reads(sig, run.version, Package, Drawing(run, Present, Doing))
    /\ \/ Present.stage \in {"record", "revalidate"}
       \/ Present.stage = "wait" /\ run.status = "publishing"
       => Present.approval = NoSignal
    /\ Present.stage = "record" /\ Doing.step = "start" => Doing.signal = Present.current
    /\ Releasing(run, Present) =>
           /\ Present.current.version = run.version /\ Present.current.channels # {}
           /\ Approved(run) /\ run.passed

(* What was published, what its workflow knows of it, and what the run says. *)
Sold ==
    /\ \A c \in Channels : publishes[c] # "none" =>
           Present.stage \in {"publish", "finish", "closed", "stuck"} /\ Approved(run) /\ run.passed
    /\ Present.stage \notin {"closed", "stuck"} =>
           \A c \in Channels : Present.results[c] # "none" => publishes[c] = Present.results[c]
    /\ Present.stage = "finish" =>
           /\ \A c \in Present.current.channels : Present.results[c] # "none"
           /\ run.status # "publishing" =>
                  run.status = Summary({Present.results[c] : c \in Present.current.channels})
    /\ run.status \in {"published", "partially_published", "verification_required"} =>
           \E c \in Channels : publishes[c] # "none"
    /\ run.status = "published" => \E c \in Channels : publishes[c] = "succeeded"
    /\ \A c \in Channels : retry[c].step = "write" /\ "succeeded" \in retry[c].seen =>
           \E d \in Channels : publishes[d] = "succeeded"

ReleaseInv == Stand /\ Drawn /\ Signed /\ Sold

-----------------------------------------------------------------------------
(* What a step of an attempt or of a workflow leaves of the others. *)

(* The workflow of the run, and its attempt, have their types. *)
LEMMA PresentType ==
    ASSUME TypeInv
    PROVE  /\ run \in Runs /\ run.workflow \in Workflows /\ run.workflow \in Slots
           /\ run.workflow # Late /\ Late \in Slots /\ Late \notin Workflows
           /\ Present \in Flows /\ Present \in WorkflowStates
           /\ Doing \in AttemptStates
           /\ att \in [Slots -> AttemptStates] /\ wf \in [Workflows -> Flows]
<1>1. run \in Runs /\ att \in [Slots -> AttemptStates] /\ wf \in [Workflows -> Flows]
  BY TypeParts DEF RestOK, SlotOK, FlowOK
<1>2. run.workflow \in Workflows /\ run.workflow # Late /\ Late \notin Workflows
  BY <1>1, Bounds DEF Runs, Workflows, Late
<1> QED
  BY <1>1, <1>2 DEF Present, Doing, Flows, Slots

(* The attempt of the run's workflow goes on. *)
LEMMA OwnStep ==
    ASSUME TypeInv, Alone, NEW y, y.kind = Doing.kind, att' = [att EXCEPT ![run.workflow] = y],
           wf' = wf, run'.workflow = run.workflow
    PROVE  Alone' /\ Present' = Present /\ Doing' = y
<1>1. /\ run.workflow \in Slots /\ run.workflow # Late /\ att \in [Slots -> AttemptStates]
      /\ Late \in Slots /\ Workflows \subseteq Slots
  BY PresentType DEF Slots
<1>2. \A u \in Slots : att'[u] = IF u = run.workflow THEN y ELSE att[u]
  BY <1>1
<1>3. Present' = Present /\ Doing' = y
  BY <1>1, <1>2 DEF Present, Doing
<1>4. Alone'
  BY <1>1, <1>2 DEF Alone, Doing
<1> QED
  BY <1>3, <1>4

(* The late attempt goes on, or ends. *)
LEMMA LateStep ==
    ASSUME TypeInv, Alone, NEW y, y.kind = "idle" \/ y.kind = "rewrite",
           att' = [att EXCEPT ![Late] = y],
           wf' = wf, run'.workflow = run.workflow
    PROVE  Alone' /\ Present' = Present /\ Doing' = Doing
<1>1. /\ run.workflow \in Slots /\ run.workflow # Late /\ att \in [Slots -> AttemptStates]
      /\ Late \in Slots /\ Workflows \subseteq Slots /\ Late \notin Workflows
  BY PresentType DEF Slots
<1>2. \A u \in Slots : att'[u] = IF u = Late THEN y ELSE att[u]
  BY <1>1
<1>3. Present' = Present /\ Doing' = Doing
  BY <1>1, <1>2 DEF Present, Doing
<1>4. Alone'
  BY <1>1, <1>2 DEF Alone
<1> QED
  BY <1>3, <1>4

(* What an attempt is when it is asked for. *)
LEMMA WantedView ==
    ASSUME NEW f \in Flows
    PROVE  /\ Wanted(f).kind = IF f.stage \in Activities THEN f.stage ELSE "idle"
           /\ Wanted(f).step = "start" /\ Wanted(f).ok = FALSE
           /\ Wanted(f).signal \in {f.current, NoSignal}
           /\ f.stage \in Activities => /\ Wanted(f).signal = f.current
                                        /\ Wanted(f).regenerate = f.regenerate
BY DEF Wanted, Idle

(* The run's workflow enters a state. *)
LEMMA EnterStep ==
    ASSUME TypeInv, Alone, NEW w \in Workflows, w = run'.workflow, NEW f \in Flows, Enter(w, f),
           w = run.workflow \/ Present.stage \in {"unborn", "closed", "stuck"}
    PROVE  Alone' /\ Present' = f /\ Doing' = Wanted(f)
<1>1. /\ run.workflow \in Slots /\ run.workflow # Late /\ att \in [Slots -> AttemptStates]
      /\ Late \in Slots /\ Workflows \subseteq Slots /\ Late \notin Workflows
      /\ wf \in [Workflows -> Flows]
  BY PresentType DEF Slots
<1>2. PICK y : y = Wanted(f) /\ y.kind = IF f.stage \in Activities THEN f.stage ELSE "idle"
  BY WantedView
<1>3. /\ \A u \in Slots : att'[u] = IF u = w THEN y ELSE att[u]
      /\ \A u \in Workflows : wf'[u] = IF u = w THEN f ELSE wf[u]
  BY <1>1, <1>2 DEF Enter
<1>4. Present' = f /\ Doing' = y
  BY <1>1, <1>3 DEF Present, Doing
<1>5. Alone'
  <2>1. att'[Late].kind \in {"idle", "rewrite"}
    BY <1>1, <1>3 DEF Alone
  <2>2. ASSUME NEW u \in Workflows
        PROVE  /\ att'[u].kind = IF wf'[u].stage \in Activities THEN wf'[u].stage ELSE "idle"
               /\ u # run'.workflow => wf'[u].stage \in {"unborn", "closed", "stuck"}
    <3>1. CASE u = w
      BY <1>1, <1>2, <1>3, <3>1
    <3>2. CASE u # w
      BY <1>1, <1>3, <3>2 DEF Alone, Present
    <3> QED
      BY <3>1, <3>2
  <2> QED
    BY <2>1, <2>2 DEF Alone
<1> QED
  BY <1>2, <1>4, <1>5

(* Only the run's own attempts do anything, and the late rewrite. *)
LEMMA Actors ==
    ASSUME TypeInv, Alone, NEW s \in Slots, att[s].kind # "idle"
    PROVE  s = run.workflow \/ (s = Late /\ att[s].kind = "rewrite")
BY PresentType DEF Alone, Slots, Activities

(* A workflow that does anything is the run's own. *)
LEMMA OwnFlow ==
    ASSUME TypeInv, Alone, NEW w \in Workflows, wf[w].stage \notin {"unborn", "closed", "stuck"}
    PROVE  w = run.workflow
BY DEF Alone

(* The answer of an attempt. *)
LEMMA ReturnView ==
    ASSUME TypeInv, Alone, NEW ok, NEW signal, Return(run.workflow, ok, signal),
           wf' = wf, run'.workflow = run.workflow
    PROVE  /\ Alone' /\ Present' = Present
           /\ Doing' = [Doing EXCEPT !.step = "done", !.ok = ok, !.signal = signal]
           /\ Doing'.kind = Doing.kind /\ Doing'.step = "done" /\ Doing'.ok = ok
           /\ Doing'.signal = signal
<1>1. PICK y : y = [Doing EXCEPT !.step = "done", !.ok = ok, !.signal = signal]
  OBVIOUS
<1>2. y.kind = Doing.kind /\ y.step = "done" /\ y.ok = ok /\ y.signal = signal
  BY <1>1, PresentType DEF AttemptStates
<1>3. att' = [att EXCEPT ![run.workflow] = y]
  BY <1>1, PresentType DEF Return, Doing
<1> QED
  BY <1>1, <1>2, <1>3, OwnStep

LEMMA AnswerView ==
    ASSUME TypeInv, Alone, NEW ok, Answer(run.workflow, ok),
           wf' = wf, run'.workflow = run.workflow
    PROVE  /\ Alone' /\ Present' = Present
           /\ Doing'.kind = Doing.kind /\ Doing'.step = "done" /\ Doing'.ok = ok
           /\ Doing'.signal = NoSignal
BY ReturnView DEF Answer

(* The next step of an attempt. *)
LEMMA GotoView ==
    ASSUME TypeInv, Alone, NEW step, Goto(run.workflow, step),
           wf' = wf, run'.workflow = run.workflow
    PROVE  /\ Alone' /\ Present' = Present
           /\ Doing' = [Doing EXCEPT !.step = step]
           /\ Doing'.kind = Doing.kind /\ Doing'.step = step
           /\ Doing'.ok = Doing.ok /\ Doing'.signal = Doing.signal
           /\ Doing'.version = Doing.version /\ Doing'.arts = Doing.arts
<1>1. PICK y : y = [Doing EXCEPT !.step = step]
  OBVIOUS
<1>2. /\ y.kind = Doing.kind /\ y.step = step /\ y.ok = Doing.ok /\ y.signal = Doing.signal
      /\ y.version = Doing.version /\ y.arts = Doing.arts
  BY <1>1, PresentType DEF AttemptStates
<1>3. att' = [att EXCEPT ![run.workflow] = y]
  BY <1>1 DEF Goto, Doing
<1> QED
  BY <1>1, <1>2, <1>3, OwnStep

(* The run's workflow goes on, and asks for an attempt. *)
LEMMA EnterView ==
    ASSUME TypeInv, Alone, NEW f \in Flows, Enter(run.workflow, f), run'.workflow = run.workflow
    PROVE  /\ Alone' /\ Present' = f
           /\ Doing'.kind = IF f.stage \in Activities THEN f.stage ELSE "idle"
           /\ Doing'.step = "start" /\ Doing'.ok = FALSE
           /\ Doing'.signal \in {f.current, NoSignal}
           /\ f.stage \in Activities => /\ Doing'.signal = f.current
                                        /\ Doing'.regenerate = f.regenerate
<1>1. run.workflow \in Workflows
  BY PresentType
<1>2. Alone' /\ Present' = f /\ Doing' = Wanted(f)
  BY <1>1, EnterStep
<1> QED
  BY <1>2, WantedView

(* The attempt is repeated, or its workflow fails. *)
LEMMA AgainView ==
    ASSUME TypeInv, NEW w \in Workflows
    PROVE  /\ Failed(w) \in Flows /\ Again(w) \in Flows
           /\ \A f \in {Failed(w), Again(w)} :
                  /\ f.stage = wf[w].stage \/ f.stage = "fail"
                  /\ f.again = wf[w].again /\ f.approval = wf[w].approval
                  /\ f.current = wf[w].current /\ f.results = wf[w].results
                  /\ f.regenerate = wf[w].regenerate
           /\ Failed(w).stage = "fail"
           /\ wf[w].stage \notin Limited => Again(w) = wf[w]
<1>1. wf[w] \in WorkflowStates
  BY DEF TypeInv, Flows
<1>2. \A g \in {Failed(w), wf[w], [wf[w] EXCEPT !.tries = wf[w].tries + 1]} :
          /\ g.stage = wf[w].stage \/ g.stage = "fail"
          /\ g.again = wf[w].again /\ g.approval = wf[w].approval
          /\ g.current = wf[w].current /\ g.results = wf[w].results
          /\ g.regenerate = wf[w].regenerate
  BY <1>1 DEF Failed, WorkflowStates
<1>3. Again(w) \in {Failed(w), wf[w], [wf[w] EXCEPT !.tries = wf[w].tries + 1]}
  BY DEF Again
<1>4. wf[w].stage \notin Limited => Again(w) = wf[w]
  BY DEF Again
<1>5. Failed(w).stage = "fail"
  BY <1>1 DEF Failed, WorkflowStates
<1> QED
  BY <1>2, <1>3, <1>4, <1>5, AgainType

-----------------------------------------------------------------------------
(* What a step that leaves most things alone preserves. *)

(* The workflow's own attempt, at any activity but a rewrite. *)
LEMMA Acting ==
    ASSUME TypeInv, Alone, NEW s \in Slots, att[s].kind \in Activities, att[s].kind # "rewrite"
    PROVE  /\ s = run.workflow /\ s # Late /\ Doing = att[s]
           /\ Present.stage = att[s].kind /\ Doing.kind = att[s].kind
<1>1. s = run.workflow
  BY Actors DEF Activities
<1> QED
  BY <1>1, PresentType DEF Alone, Present, Doing, Activities

LEMMA StatusView ==
    ASSUME NEW r \in Runs, NEW x
    PROVE  /\ Status(r, x).status = x /\ Status(r, x).version = r.version
           /\ Status(r, x).passed = r.passed /\ Status(r, x).listings = r.listings
           /\ Status(r, x).quotes = r.quotes /\ Status(r, x).approvals = r.approvals
           /\ Status(r, x).selected = r.selected /\ Status(r, x).workflow = r.workflow
BY DEF Status, Runs

LEMMA PackageSame ==
    ASSUME artifacts' = artifacts, run'.version = run.version, run'.listings = run.listings,
           run'.quotes = run.quotes
    PROVE  Package' = Package
BY DEF Package, Artwork, Production

LEMMA NotSold ==
    ASSUME Sold, Present.stage \notin {"publish", "finish", "closed", "stuck"}
    PROVE  \A c \in Channels : publishes[c] = "none"
BY DEF Sold

LEMMA NotRetried ==
    ASSUME TypeInv, Retried, Present.stage \notin {"closed", "stuck"} \/ \A c \in Channels : publishes[c] = "none"
    PROVE  \A c \in Channels : retry[c].step = "idle"
BY DEF Retried

(* Before anything is published. *)
LEMMA Unsold ==
    ASSUME Sold, Retried, \A c \in Channels : publishes[c] = "none",
           publishes' = publishes, retry' = retry, Present'.stage # "finish",
           run'.status \notin {"published", "partially_published", "verification_required"},
           \/ Present'.stage \in {"closed", "stuck"}
           \/ Present.stage \notin {"closed", "stuck"} /\ Present'.results = Present.results
           \/ \A c \in Channels : Present'.results[c] = "none"
    PROVE  Sold' /\ Retried'
<1>1. \A c \in Channels : retry[c].step = "idle"
  BY DEF Retried
<1>2. Retried'
  BY <1>1 DEF Retried
<1>3. Sold'
  BY <1>1 DEF Sold
<1> QED
  BY <1>2, <1>3

LEMMA DrawnSame ==
    ASSUME Drawn, run'.version = run.version, run'.passed => run.passed,
           artifacts' = artifacts,
           Drawing(run', Present', Doing') /\ run'.passed => Drawing(run, Present, Doing),
           Deep(Doing') => /\ Deep(Doing) /\ Doing'.version = Doing.version
                           /\ Doing'.arts = Doing.arts
                           /\ Doing'.step \in {"list", "store"} =>
                                  Doing.step \in {"list", "store"} /\ run'.passed = run.passed
    PROVE  Drawn'
<1>1. Shown' <=> Shown
  BY DEF Shown, Production
<1> QED
  BY <1>1 DEF Drawn

(* The next version begins, without artwork of its own. *)
LEMMA DrawnMoved ==
    ASSUME TypeInv, Drawn, run'.version = run.version + 1, run'.passed => run.passed,
           artifacts' = artifacts, ~Deep(Doing'),
           run'.passed => ~Drawing(run', Present', Doing')
    PROVE  Drawn'
<1>1. Shown' <=> Shown
  BY DEF Shown, Production
<1>2. ASSUME NEW v \in Versions, v > run'.version PROVE artifacts'[v] = <<>>
  <2>1. run.version \in Nat /\ v \in Nat
    BY PresentType, Bounds DEF Runs, Versions
  <2>2. v > run.version
    BY <1>2, <2>1
  <2> QED
    BY <2>2 DEF Drawn
<1> QED
  BY <1>1, <1>2 DEF Drawn

LEMMA VersionNat ==
    ASSUME TypeInv
    PROVE  /\ run.version \in Nat /\ run.version >= 1 /\ run.version \in Versions
           /\ NoSignal.version = 0
           /\ \A sig \in {Present.approval, Present.current, Doing.signal} : sig.version \in Nat
<1>1. /\ run.version \in Versions
      /\ \A sig \in {Present.approval, Present.current, Doing.signal} : sig \in Signals
  BY PresentType DEF Runs, WorkflowStates, AttemptStates
<1>2. \A sig \in Signals : sig.version \in Nat
  BY Bounds DEF Signals
<1>3. NoSignal.version = 0
  BY DEF NoSignal
<1> QED
  BY <1>1, <1>2, <1>3, Bounds DEF Versions

LEMMA SignedSame ==
    ASSUME TypeInv, Signed, Package' = Package, run'.version = run.version,
           run.approvals \subseteq run'.approvals,
           {Present'.approval, Present'.current, Doing'.signal}
               \subseteq {NoSignal, Present.approval, Present.current, Doing.signal},
           Drawing(run', Present', Doing') => Drawing(run, Present, Doing),
           \/ Present'.stage \in {"record", "revalidate"}
           \/ Present'.stage = "wait" /\ run'.status = "publishing"
           => Present'.approval = NoSignal,
           Present'.stage = "record" /\ Doing'.step = "start" => Doing'.signal = Present'.current,
           Releasing(run', Present') =>
               /\ Releasing(run, Present) /\ Present'.current = Present.current
               /\ run'.passed = run.passed
    PROVE  Signed'
<1>1. ASSUME NEW sig \in {NoSignal, Present.approval, Present.current, Doing.signal}
      PROVE  Reads(sig, run'.version, Package', Drawing(run', Present', Doing'))
  <2>1. CASE sig = NoSignal
    BY <2>1, VersionNat DEF Reads
  <2>2. CASE sig # NoSignal
    BY <1>1, <2>2 DEF Signed, Reads
  <2> QED
    BY <2>1, <2>2
<1>2. \A sig \in {Present'.approval, Present'.current, Doing'.signal} :
          Reads(sig, run'.version, Package', Drawing(run', Present', Doing'))
  BY <1>1
<1>3. Releasing(run', Present') =>
           /\ Present'.current.version = run'.version /\ Present'.current.channels # {}
           /\ Approved(run') /\ run'.passed
  BY DEF Signed, Approved
<1> QED
  BY <1>2, <1>3 DEF Signed

(* Approvals of earlier versions say nothing of the next one. *)
LEMMA SignedMoved ==
    ASSUME TypeInv, Signed, run'.version = run.version + 1, ~Releasing(run', Present'),
           {Present'.approval, Present'.current, Doing'.signal}
               \subseteq {NoSignal, Present.approval, Present.current, Doing.signal},
           Present'.stage \in {"record", "revalidate"} => Present'.approval = NoSignal,
           Present'.stage = "record" /\ Doing'.step = "start" => Doing'.signal = Present'.current
    PROVE  Signed'
<1>1. ASSUME NEW sig \in {NoSignal, Present.approval, Present.current, Doing.signal}
      PROVE  Reads(sig, run'.version, Package', Drawing(run', Present', Doing'))
  <2>1. sig.version \in Nat /\ sig.version <= run.version /\ run.version \in Nat
    <3>1. CASE sig = NoSignal
      BY <3>1, VersionNat
    <3>2. CASE sig # NoSignal
      BY <1>1, <3>2, VersionNat DEF Signed, Reads
    <3> QED
      BY <3>1, <3>2
  <2>2. sig.version < run'.version
    BY <2>1
  <2> QED
    BY <2>1, <2>2 DEF Reads
<1>2. \A sig \in {Present'.approval, Present'.current, Doing'.signal} :
          Reads(sig, run'.version, Package', Drawing(run', Present', Doing'))
  BY <1>1
<1>3. run'.status # "publishing"
  BY DEF Releasing
<1> QED
  BY <1>2, <1>3 DEF Signed

(* A step that changes at most the status, before anything is published. *)
Untouched ==
    /\ run'.version = run.version /\ run'.passed = run.passed
    /\ run'.listings = run.listings /\ run'.quotes = run.quotes
    /\ run.approvals \subseteq run'.approvals
    /\ artifacts' = artifacts /\ publishes' = publishes /\ retry' = retry

Closing(status) == status \in {"published", "partially_published", "verification_required"}

LEMMA Quietly ==
    ASSUME TypeInv, ReleaseInv, Alone', Stands(run', Present', Doing'), Untouched,
           ~Deep(Doing'),
           Drawing(run', Present', Doing') => Drawing(run, Present, Doing),
           {Present'.approval, Present'.current, Doing'.signal}
               \subseteq {NoSignal, Present.approval, Present.current, Doing.signal},
           \/ Present'.stage \in {"record", "revalidate"}
           \/ Present'.stage = "wait" /\ run'.status = "publishing"
           => Present'.approval = NoSignal,
           Present'.stage = "record" /\ Doing'.step = "start" => Doing'.signal = Present'.current,
           Releasing(run', Present') =>
               Releasing(run, Present) /\ Present'.current = Present.current,
           \A c \in Channels : publishes[c] = "none",
           Present'.stage # "finish", ~Closing(run'.status),
           \/ Present'.stage \in {"closed", "stuck"}
           \/ Present.stage \notin {"closed", "stuck"} /\ Present'.results = Present.results
           \/ \A c \in Channels : Present'.results[c] = "none"
    PROVE  ReleaseInv'
<1>1. Sold' /\ Retried'
  BY Unsold DEF ReleaseInv, Stand, Untouched, Closing
<1>2. Package' = Package
  BY PackageSame DEF Untouched
<1>3. Signed'
  BY <1>2, SignedSame DEF ReleaseInv, Untouched
<1>4. Drawn'
  BY DrawnSame DEF ReleaseInv, Untouched
<1> QED
  BY <1>1, <1>3, <1>4 DEF ReleaseInv, Stand

(* A step of the run's own attempt of this kind. *)
LEMMA OwnQuietly ==
    ASSUME TypeInv, ReleaseInv, Alone', Stands(run', Present', Doing'), Untouched,
           Present' = Present, Present.stage \notin {"publish", "finish", "closed", "stuck"},
           Present.stage = "generate" => Doing.step # "start",
           ~Deep(Doing'), Doing'.signal \in {NoSignal, Doing.signal},
           Present.stage = "record" => Doing'.step # "start",
           run'.status = "publishing" => run.status = "publishing", ~Closing(run'.status)
    PROVE  ReleaseInv'
<1>1. \A c \in Channels : publishes[c] = "none"
  BY NotSold DEF ReleaseInv
<1>2. Drawing(run', Present', Doing') => Drawing(run, Present, Doing)
  BY DEF Drawing, Redo
<1>3. Releasing(run', Present') => Releasing(run, Present)
  BY DEF Releasing
<1>4. \/ Present'.stage \in {"record", "revalidate"}
      \/ Present'.stage = "wait" /\ run'.status = "publishing"
      => Present'.approval = NoSignal
  BY DEF ReleaseInv, Signed
<1> QED
  BY <1>1, <1>2, <1>3, <1>4, Quietly

(* An own attempt's answer, with a new status or none. *)
LEMMA AnswerQuietly ==
    ASSUME TypeInv, ReleaseInv, NEW ok, Answer(run.workflow, ok), wf' = wf,
           run'.workflow = run.workflow,
           Present.stage \notin {"publish", "finish", "closed", "stuck"},
           Present.stage = "generate" => Doing.step # "start",
           Untouched, run'.status = "publishing" => run.status = "publishing",
           ~Closing(run'.status),
           ASSUME NEW a, a.step = "done", a.ok = ok PROVE Stands(run', Present, a)
    PROVE  ReleaseInv'
<1>1. /\ Alone' /\ Present' = Present /\ Doing'.kind = Doing.kind /\ Doing'.step = "done"
      /\ Doing'.ok = ok /\ Doing'.signal = NoSignal
  BY AnswerView DEF ReleaseInv, Stand
<1>2. Stands(run', Present', Doing')
  <2>1. PICK a : a = Doing'
    OBVIOUS
  <2> QED
    BY <1>1, <2>1
<1>3. ~Deep(Doing')
  BY <1>1 DEF Deep
<1> QED
  BY <1>1, <1>2, <1>3, OwnQuietly

-----------------------------------------------------------------------------
(* Research and selection. *)

LEMMA ResearchReleases ==
    ASSUME TypeInv, ReleaseInv, NEW s \in Slots, Research(s) PROVE ReleaseInv'
<1>1. /\ s = run.workflow /\ Doing = att[s] /\ Present.stage = "research"
      /\ Doing.kind = "research" /\ Doing.step = "start"
  BY Acting DEF Research, At, ReleaseInv, Stand, Activities
<1>2. /\ wf' = wf /\ artifacts' = artifacts /\ publishes' = publishes /\ retry' = retry
      /\ run \in Runs
  BY PresentType DEF Research, others, world
<1>3. CASE run' = run /\ Answer(s, TRUE)
  <2>1. Untouched
    BY <1>2, <1>3 DEF Untouched
  <2>2. ASSUME NEW a, a.step = "done" PROVE Stands(run', Present, a)
    BY <1>1, <1>3, <2>2 DEF ReleaseInv, Stand, Stands
  <2>3. run.status \notin {"publishing", "published", "partially_published", "verification_required"}
    BY <1>1 DEF ReleaseInv, Stand, Stands
  <2> QED
    BY <1>1, <1>2, <1>3, <2>1, <2>2, <2>3, AnswerQuietly DEF Closing
<1>4. CASE run' = Status(run, "working") /\ Goto(s, "answer")
  <2>1. run'.status = "working" /\ run'.workflow = run.workflow /\ Untouched
    BY <1>2, <1>4, StatusView DEF Untouched
  <2>2. /\ Alone' /\ Present' = Present /\ Doing'.step = "answer" /\ Doing'.signal = Doing.signal
        /\ Doing'.kind = "research"
    BY <1>1, <1>2, <1>4, <2>1, GotoView DEF ReleaseInv, Stand
  <2>3. Stands(run', Present', Doing')
    BY <1>1, <2>1, <2>2 DEF ReleaseInv, Stand, Stands
  <2> QED
    BY <1>1, <2>1, <2>2, <2>3, OwnQuietly DEF Closing, Deep
<1> QED
  BY <1>3, <1>4 DEF Research

LEMMA StoreResearchReleases ==
    ASSUME TypeInv, ReleaseInv, NEW s \in Slots, StoreResearch(s) PROVE ReleaseInv'
<1>1. /\ s = run.workflow /\ Doing = att[s] /\ Present.stage = "research"
      /\ Doing.kind = "research" /\ Doing.step = "answer"
  BY Acting DEF StoreResearch, At, ReleaseInv, Stand, Activities
<1>2. /\ wf' = wf /\ artifacts' = artifacts /\ publishes' = publishes /\ retry' = retry
      /\ run \in Runs /\ run' = [run EXCEPT !.researched = TRUE] /\ Answer(s, TRUE)
  BY PresentType DEF StoreResearch, others, world
<1>3. Untouched /\ run'.status = run.status /\ run'.workflow = run.workflow
  BY <1>2 DEF Untouched, Runs
<1>4. ASSUME NEW a, a.step = "done" PROVE Stands(run', Present, a)
  BY <1>1, <1>3, <1>4 DEF ReleaseInv, Stand, Stands
<1>5. run.status \in {"pending", "working"}
  BY <1>1 DEF ReleaseInv, Stand, Stands
<1> QED
  BY <1>1, <1>2, <1>3, <1>4, <1>5, AnswerQuietly DEF Closing

LEMMA ScreenReleases ==
    ASSUME TypeInv, ReleaseInv, NEW s \in Slots, Screen(s) PROVE ReleaseInv'
<1>1. /\ s = run.workflow /\ Doing = att[s] /\ Present.stage = "screen"
      /\ Doing.kind = "screen" /\ Doing.step = "start"
  BY Acting DEF Screen, At, ReleaseInv, Stand, Activities
<1>2. /\ wf' = wf /\ artifacts' = artifacts /\ publishes' = publishes /\ retry' = retry
      /\ run \in Runs
  BY PresentType DEF Screen, others, world
<1>3. CASE run.selected /\ run' = run /\ Answer(s, TRUE)
  <2>1. Untouched
    BY <1>2, <1>3 DEF Untouched
  <2>2. run.status \in {"pending", "working"}
    BY <1>1, <1>3 DEF ReleaseInv, Stand, Stands
  <2>3. ASSUME NEW a, a.step = "done", a.ok = TRUE PROVE Stands(run', Present, a)
    BY <1>1, <1>3, <2>2, <2>3 DEF ReleaseInv, Stand, Stands
  <2> QED
    BY <1>1, <1>2, <1>3, <2>1, <2>2, <2>3, AnswerQuietly DEF Closing
<1>4. CASE ~run.selected /\ run' = Status(run, "no_safe_candidate") /\ Answer(s, FALSE)
  <2>1. /\ run'.status = "no_safe_candidate" /\ run'.workflow = run.workflow /\ Untouched
        /\ run'.selected = run.selected
    BY <1>2, <1>4, StatusView DEF Untouched
  <2>2. ASSUME NEW a, a.step = "done", a.ok = FALSE PROVE Stands(run', Present, a)
    BY <1>1, <1>4, <2>1, <2>2 DEF ReleaseInv, Stand, Stands
  <2> QED
    BY <1>1, <1>2, <1>4, <2>1, <2>2, AnswerQuietly DEF Closing
<1>5. CASE ~run.selected /\ run' = Status(run, "working") /\ Goto(s, "answer")
  <2>1. /\ run'.status = "working" /\ run'.workflow = run.workflow /\ Untouched
        /\ run'.selected = run.selected
    BY <1>2, <1>5, StatusView DEF Untouched
  <2>2. /\ Alone' /\ Present' = Present /\ Doing'.step = "answer" /\ Doing'.signal = Doing.signal
        /\ Doing'.kind = "screen"
    BY <1>1, <1>2, <1>5, <2>1, GotoView DEF ReleaseInv, Stand
  <2>3. Stands(run', Present', Doing')
    BY <1>1, <1>5, <2>1, <2>2 DEF ReleaseInv, Stand, Stands
  <2> QED
    BY <1>1, <2>1, <2>2, <2>3, OwnQuietly DEF Closing, Deep
<1> QED
  BY <1>3, <1>4, <1>5 DEF Screen

LEMMA BlockReleases ==
    ASSUME TypeInv, ReleaseInv, NEW s \in Slots, Block(s) PROVE ReleaseInv'
<1>1. /\ s = run.workflow /\ Doing = att[s] /\ Present.stage = "screen"
      /\ Doing.kind = "screen" /\ Doing.step = "answer"
  BY Acting DEF Block, At, ReleaseInv, Stand, Activities
<1>2. /\ wf' = wf /\ artifacts' = artifacts /\ publishes' = publishes /\ retry' = retry
      /\ run \in Runs /\ run' = [run EXCEPT !.blocked = run.blocked + 1]
      /\ Goto(s, "hold") \/ att' = att
  BY PresentType DEF Block, others, world
<1>3. /\ Untouched /\ run'.status = run.status /\ run'.workflow = run.workflow
      /\ run'.selected = run.selected
  BY <1>2 DEF Untouched, Runs
<1>4. /\ Alone' /\ Present' = Present /\ Doing'.step \in {"hold", "answer"}
      /\ Doing'.signal = Doing.signal /\ Doing'.kind = "screen"
  <2>1. CASE Goto(s, "hold")
    BY <1>1, <1>2, <1>3, <2>1, GotoView DEF ReleaseInv, Stand
  <2>2. CASE att' = att
    BY <1>1, <1>2, <1>3, <2>2 DEF ReleaseInv, Stand, Alone, Present, Doing
  <2> QED
    BY <1>2, <2>1, <2>2
<1>5. run.status = "working" /\ ~run.selected
  BY <1>1 DEF ReleaseInv, Stand, Stands
<1>6. Stands(run', Present', Doing')
  BY <1>1, <1>3, <1>4, <1>5 DEF ReleaseInv, Stand, Stands
<1> QED
  BY <1>1, <1>3, <1>4, <1>5, <1>6, OwnQuietly DEF Closing, Deep

LEMMA NoneSafeReleases ==
    ASSUME TypeInv, ReleaseInv, NEW s \in Slots, NoneSafe(s) PROVE ReleaseInv'
<1>1. /\ s = run.workflow /\ Doing = att[s] /\ Present.stage = "screen"
      /\ Doing.kind = "screen" /\ Doing.step = "hold"
  BY Acting DEF NoneSafe, At, ReleaseInv, Stand, Activities
<1>2. /\ wf' = wf /\ artifacts' = artifacts /\ publishes' = publishes /\ retry' = retry
      /\ run \in Runs /\ run' = Status(run, "no_safe_candidate") /\ Answer(s, FALSE)
  BY PresentType DEF NoneSafe, others, world
<1>3. /\ run'.status = "no_safe_candidate" /\ run'.workflow = run.workflow /\ Untouched
      /\ run'.selected = run.selected
  BY <1>2, StatusView DEF Untouched
<1>4. ASSUME NEW a, a.step = "done", a.ok = FALSE PROVE Stands(run', Present, a)
  BY <1>1, <1>3, <1>4 DEF ReleaseInv, Stand, Stands
<1> QED
  BY <1>1, <1>2, <1>3, <1>4, AnswerQuietly DEF Closing

LEMMA SelectReleases ==
    ASSUME TypeInv, ReleaseInv, NEW s \in Slots, Select(s) PROVE ReleaseInv'
<1>1. /\ s = run.workflow /\ Doing = att[s] /\ Present.stage = "screen"
      /\ Doing.kind = "screen" /\ Doing.step = "answer"
  BY Acting DEF Select, At, ReleaseInv, Stand, Activities
<1>2. /\ wf' = wf /\ artifacts' = artifacts /\ publishes' = publishes /\ retry' = retry
      /\ run \in Runs /\ run' = [run EXCEPT !.selected = TRUE] /\ Answer(s, TRUE)
  BY PresentType DEF Select, others, world
<1>3. Untouched /\ run'.status = run.status /\ run'.workflow = run.workflow
  BY <1>2 DEF Untouched, Runs
<1>4. run.status = "working"
  BY <1>1 DEF ReleaseInv, Stand, Stands
<1>5. ASSUME NEW a, a.step = "done", a.ok = TRUE PROVE Stands(run', Present, a)
  BY <1>1, <1>3, <1>4, <1>5 DEF ReleaseInv, Stand, Stands
<1> QED
  BY <1>1, <1>2, <1>3, <1>4, <1>5, AnswerQuietly DEF Closing

-----------------------------------------------------------------------------
(* Ends. *)

LEMMA HoldForBriefReleases ==
    ASSUME TypeInv, ReleaseInv, NEW s \in Slots, HoldForBrief(s) PROVE ReleaseInv'
<1>1. /\ s = run.workflow /\ Doing = att[s] /\ Present.stage = "generate"
      /\ Doing.kind = "generate" /\ Doing.step = "hold"
  BY Acting DEF HoldForBrief, At, ReleaseInv, Stand, Activities
<1>2. /\ wf' = wf /\ artifacts' = artifacts /\ publishes' = publishes /\ retry' = retry
      /\ run \in Runs /\ run' = Status(run, "awaiting_brief_revision") /\ Answer(s, FALSE)
  BY PresentType DEF HoldForBrief, others, world
<1>3. /\ run'.status = "awaiting_brief_revision" /\ run'.workflow = run.workflow /\ Untouched
  BY <1>2, StatusView DEF Untouched
<1>4. ASSUME NEW a, a.step = "done", a.ok = FALSE PROVE Stands(run', Present, a)
  BY <1>1, <1>3, <1>4 DEF ReleaseInv, Stand, Stands
<1> QED
  BY <1>1, <1>2, <1>3, <1>4, AnswerQuietly DEF Closing

LEMMA MarkCancelledReleases ==
    ASSUME TypeInv, ReleaseInv, NEW s \in Slots, MarkCancelled(s) PROVE ReleaseInv'
<1>1. /\ s = run.workflow /\ Doing = att[s] /\ Present.stage = "cancel"
      /\ Doing.kind = "cancel" /\ Doing.step = "start"
  BY Acting DEF MarkCancelled, At, ReleaseInv, Stand, Activities
<1>2. /\ wf' = wf /\ artifacts' = artifacts /\ publishes' = publishes /\ retry' = retry
      /\ run \in Runs /\ run' = Status(run, "cancelled") /\ Answer(s, TRUE)
  BY PresentType DEF MarkCancelled, others, world
<1>3. run'.status = "cancelled" /\ run'.workflow = run.workflow /\ Untouched
  BY <1>2, StatusView DEF Untouched
<1>4. ASSUME NEW a, a.step = "done" PROVE Stands(run', Present, a)
  BY <1>1, <1>3, <1>4 DEF ReleaseInv, Stand, Stands
<1> QED
  BY <1>1, <1>2, <1>3, <1>4, AnswerQuietly DEF Closing

LEMMA RecordRejectionReleases ==
    ASSUME TypeInv, ReleaseInv, NEW s \in Slots, RecordRejection(s) PROVE ReleaseInv'
<1>1. /\ s = run.workflow /\ Doing = att[s] /\ Present.stage = "reject"
      /\ Doing.kind = "reject" /\ Doing.step = "start"
  BY Acting DEF RecordRejection, At, ReleaseInv, Stand, Activities
<1>2. /\ wf' = wf /\ artifacts' = artifacts /\ publishes' = publishes /\ retry' = retry
      /\ run \in Runs /\ Answer(s, TRUE)
      /\ run' = [Status(run, "rejected") EXCEPT
                    !.approvals = Status(run, "rejected").approvals
                        \cup {[version |-> run.version, decision |-> "rejected"]}]
  BY PresentType DEF RecordRejection, others, world
<1>3. run'.status = "rejected" /\ run'.workflow = run.workflow /\ Untouched
  <2>1. PICK r : r = Status(run, "rejected") /\ r \in Runs
    BY <1>2, StatusType DEF Statuses, Rest
  <2>2. /\ r.status = "rejected" /\ r.version = run.version /\ r.passed = run.passed
        /\ r.listings = run.listings /\ r.quotes = run.quotes /\ r.approvals = run.approvals
        /\ r.workflow = run.workflow
    BY <1>2, <2>1, StatusView
  <2> QED
    BY <1>2, <2>1, <2>2 DEF Untouched, Runs
<1>4. ASSUME NEW a, a.step = "done" PROVE Stands(run', Present, a)
  BY <1>1, <1>3, <1>4 DEF ReleaseInv, Stand, Stands
<1> QED
  BY <1>1, <1>2, <1>3, <1>4, AnswerQuietly DEF Closing

LEMMA MarkFailedReleases ==
    ASSUME TypeInv, ReleaseInv, NEW s \in Slots, MarkFailed(s) PROVE ReleaseInv'
<1>1. /\ s = run.workflow /\ Doing = att[s] /\ Present.stage = "fail"
      /\ Doing.kind = "fail" /\ Doing.step = "start"
  BY Acting DEF MarkFailed, At, ReleaseInv, Stand, Activities
<1>2. /\ wf' = wf /\ artifacts' = artifacts /\ publishes' = publishes /\ retry' = retry
      /\ run \in Runs /\ run' = Status(run, "failed") /\ Answer(s, TRUE)
  BY PresentType DEF MarkFailed, others, world
<1>3. run'.status = "failed" /\ run'.workflow = run.workflow /\ Untouched
  BY <1>2, StatusView DEF Untouched
<1>4. ASSUME NEW a, a.step = "done" PROVE Stands(run', Present, a)
  BY <1>1, <1>3, <1>4 DEF ReleaseInv, Stand, Stands
<1> QED
  BY <1>1, <1>2, <1>3, <1>4, AnswerQuietly DEF Closing

-----------------------------------------------------------------------------
(* Faults, and approvals. *)

(* The attempt is repeated or given up. *)
LEMMA RepeatReleases ==
    ASSUME TypeInv, ReleaseInv, NEW f \in {Failed(run.workflow), Again(run.workflow)},
           Enter(run.workflow, f), run' = run, artifacts' = artifacts,
           publishes' = publishes, retry' = retry,
           Present.stage \in Activities \ {"publish", "finish"},
           f = Failed(run.workflow) => Present.stage \in Limited
    PROVE  ReleaseInv'
<1>1. run.workflow \in Workflows /\ Present \in WorkflowStates
  BY PresentType
<1>2. PICK g : g = f
  OBVIOUS
<1>3. /\ g.stage = Present.stage \/ (g.stage = "fail" /\ Present.stage \in Limited)
      /\ g.again = Present.again /\ g.approval = Present.approval
      /\ g.current = Present.current /\ g.results = Present.results
      /\ g.regenerate = Present.regenerate
  <2>1. Present.stage \notin Limited => f = Present
    BY <1>1, AgainView DEF Present
  <2> QED
    BY <1>1, <1>2, <2>1, AgainView DEF Present
<1>4. /\ g \in Flows /\ g.stage \in Activities
      /\ g.stage \notin {"unborn", "closed", "stuck", "publish", "finish", "wait"}
  BY <1>1, <1>2, <1>3, AgainView DEF Activities
<1>5. /\ Alone' /\ Present' = g /\ Doing'.step = "start" /\ Doing'.signal = g.current
      /\ Doing'.kind = g.stage /\ Doing'.regenerate = g.regenerate
  BY <1>2, <1>4, EnterView DEF ReleaseInv, Stand
<1>6. Stands(run', Present', Doing')
  BY <1>3, <1>4, <1>5 DEF ReleaseInv, Stand, Stands, Limited, Activities
<1>7. ~Deep(Doing') /\ Untouched
  BY <1>5 DEF Deep, Untouched
<1>8. Drawing(run', Present', Doing') => Drawing(run, Present, Doing)
  BY <1>3, <1>5 DEF Drawing, Redo
<1>9. /\ \A c \in Channels : publishes[c] = "none"
      /\ ~Closing(run'.status)
  <2>1. Present.stage \notin {"closed", "stuck", "publish", "finish"}
    BY DEF Activities
  <2> QED
    BY <2>1, NotSold DEF ReleaseInv, Sold, Closing
<1>10. Releasing(run', Present') =>
           Releasing(run, Present) /\ Present'.current = Present.current
  BY <1>3, <1>4, <1>5 DEF Releasing
<1>11. Present'.stage \in {"record", "revalidate"} => Present'.approval = NoSignal
  BY <1>3, <1>5 DEF ReleaseInv, Signed
<1>12. Present.stage \notin {"closed", "stuck"}
  BY DEF Activities
<1> HIDE DEF ReleaseInv
<1> QED
  BY <1>3, <1>4, <1>5, <1>6, <1>7, <1>8, <1>9, <1>10, <1>11, <1>12, Quietly

LEMMA RaiseReleases ==
    ASSUME TypeInv, ReleaseInv, NEW final, Raise(run.workflow, final), run' = run,
           artifacts' = artifacts, publishes' = publishes, retry' = retry,
           Present.stage \in Limited
    PROVE  ReleaseInv'
<1>1. run.workflow # Late /\ Present.stage \in Activities \ {"publish", "finish"}
  BY PresentType DEF Limited
<1>2. \/ Enter(run.workflow, Failed(run.workflow))
      \/ Enter(run.workflow, Again(run.workflow))
  BY <1>1 DEF Raise
<1> QED
  BY <1>1, <1>2, RepeatReleases

LEMMA SignalView ==
    ASSUME NEW actor, NEW channels
    PROVE  /\ Signal(actor, channels).actor = actor
           /\ Signal(actor, channels).version = run.version
           /\ Signal(actor, channels).channels = channels
           /\ Signal(actor, channels).package = Package
BY DEF Signal

LEMMA AutomaticReleases ==
    ASSUME TypeInv, ReleaseInv, NEW s \in Slots, Automatic(s) PROVE ReleaseInv'
<1>1. /\ s = run.workflow /\ Doing = att[s] /\ Present.stage \in {"automatic", "reapprove"}
      /\ Doing.step = "start"
  BY Acting DEF Automatic, ReleaseInv, Stand, Activities
<1>2. /\ artifacts' = artifacts /\ publishes' = publishes /\ retry' = retry /\ run' = run
      /\ Untouched
  BY DEF Automatic, others, world, Untouched
<1>3. run.status = "awaiting_approval"
  BY <1>1 DEF ReleaseInv, Stand, Stands
<1>4. ASSUME NEW a, a.step = "done" PROVE Stands(run', Present, a)
  BY <1>1, <1>2, <1>3, <1>4 DEF ReleaseInv, Stand, Stands
<1>5. CASE Answer(s, TRUE) /\ wf' = wf
  BY <1>1, <1>2, <1>3, <1>4, <1>5, AnswerQuietly DEF Closing
<1>6. CASE Raise(s, TRUE)
  BY <1>1, <1>2, <1>6, RaiseReleases DEF Limited, Activities
<1>7. CASE Return(s, TRUE, Signal("system", Channels)) /\ wf' = wf
  <2>1. PICK sig : sig = Signal("system", Channels)
    OBVIOUS
  <2>2. sig.version = run.version /\ sig.package = Package
    BY <2>1, SignalView
  <2>3. /\ Alone' /\ Present' = Present /\ Doing'.step = "done" /\ Doing'.signal = sig
    BY <1>1, <1>2, <1>7, <2>1, ReturnView DEF ReleaseInv, Stand
  <2>4. PICK a : a = Doing'
    OBVIOUS
  <2>5. Stands(run', Present', Doing')
    BY <1>4, <2>3, <2>4
  <2>6. ~Drawing(run', Present', Doing') /\ ~Deep(Doing') /\ Package' = Package
    BY <1>1, <1>2, <2>3, PackageSame DEF Drawing, Deep
  <2>7. \A c \in Channels : publishes[c] = "none"
    BY <1>1, NotSold DEF ReleaseInv
  <2>8. Sold' /\ Retried'
    BY <1>1, <1>2, <1>3, <2>3, <2>7, Unsold DEF ReleaseInv, Stand
  <2>9. Drawn'
    BY <1>2, <2>6, DrawnSame DEF ReleaseInv
  <2>10. Signed'
    <3>1. run.version \in Nat
      BY VersionNat
    <3>2. Reads(sig, run'.version, Package', Drawing(run', Present', Doing'))
      BY <1>2, <2>2, <2>6, <3>1 DEF Reads
    <3>3. \A x \in {Present.approval, Present.current} :
              Reads(x, run'.version, Package', Drawing(run', Present', Doing'))
      BY <1>2, <2>6 DEF ReleaseInv, Signed, Reads
    <3>4. ~Releasing(run', Present')
      BY <1>1, <1>2, <1>3, <2>3 DEF Releasing
    <3> QED
      BY <1>1, <2>3, <3>2, <3>3, <3>4 DEF Signed
  <2> QED
    BY <2>3, <2>5, <2>8, <2>9, <2>10 DEF ReleaseInv, Stand
<1> QED
  BY <1>5, <1>6, <1>7 DEF Automatic

LEMMA RecordApprovalReleases ==
    ASSUME TypeInv, ReleaseInv, NEW s \in Slots, RecordApproval(s) PROVE ReleaseInv'
<1>1. /\ s = run.workflow /\ Doing = att[s] /\ Present.stage = "record"
      /\ Doing.kind = "record" /\ Doing.step = "start"
  BY Acting DEF RecordApproval, At, ReleaseInv, Stand, Activities
<1>2. /\ wf' = wf /\ artifacts' = artifacts /\ publishes' = publishes /\ retry' = retry
      /\ run \in Runs
  BY PresentType DEF RecordApproval, others, world
<1>3. CASE ~Acceptable(Doing.signal)
  <2>1. run' = run /\ Answer(s, FALSE) /\ Untouched
    <3>1. ~Acceptable(att[s].signal) /\ Acceptable(att[s].signal) = FALSE
      BY <1>1, <1>3
    <3>2. run' = run
      BY <3>1 DEF RecordApproval
    <3>3. Answer(s, Acceptable(att[s].signal))
      BY DEF RecordApproval
    <3>4. Answer(s, FALSE)
      BY <3>1, <3>3
    <3> QED
      BY <1>2, <3>2, <3>4 DEF Untouched
  <2>2. ASSUME NEW a, a.step = "done", a.ok = FALSE PROVE Stands(run', Present, a)
    BY <1>1, <2>1, <2>2 DEF ReleaseInv, Stand, Stands
  <2>3. run.status \in {"awaiting_approval", "publishing"}
    BY <1>1 DEF ReleaseInv, Stand, Stands
  <2> QED
    BY <1>1, <1>2, <2>1, <2>2, <2>3, AnswerQuietly DEF Closing
<1>4. CASE Acceptable(Doing.signal)
  <2>1. /\ Answer(s, TRUE)
        /\ run' = [Status(run, "publishing") EXCEPT
                      !.approvals = Status(run, "publishing").approvals
                          \cup {[version |-> Doing.signal.version, decision |-> "approved"]}]
    BY <1>1, <1>4 DEF RecordApproval, Answer, Return
  <2>2. /\ run'.status = "publishing" /\ run'.workflow = run.workflow /\ Untouched
        /\ [version |-> Doing.signal.version, decision |-> "approved"] \in run'.approvals
    <3>1. PICK r : r = Status(run, "publishing") /\ r \in Runs
      BY <1>2, StatusType DEF Statuses, Rest
    <3>2. /\ r.status = "publishing" /\ r.version = run.version /\ r.passed = run.passed
          /\ r.listings = run.listings /\ r.quotes = run.quotes /\ r.approvals = run.approvals
          /\ r.workflow = run.workflow
      BY <1>2, <3>1, StatusView
    <3> QED
      BY <1>2, <2>1, <3>1, <3>2 DEF Untouched, Runs
  <2>3. /\ Alone' /\ Present' = Present /\ Doing'.step = "done" /\ Doing'.ok = TRUE
        /\ Doing'.signal = NoSignal
    BY <1>1, <1>2, <2>1, <2>2, AnswerView DEF ReleaseInv, Stand
  <2>4. Stands(run', Present', Doing')
    BY <1>1, <2>2, <2>3 DEF ReleaseInv, Stand, Stands
  <2>5. ~Drawing(run', Present', Doing') /\ ~Deep(Doing') /\ Package' = Package
    BY <1>1, <1>2, <2>2, <2>3, PackageSame DEF Drawing, Deep, Untouched
  <2>6. \A c \in Channels : publishes[c] = "none"
    BY <1>1, NotSold DEF ReleaseInv
  <2>7. Sold' /\ Retried'
    BY <1>1, <1>2, <2>2, <2>3, <2>6, Unsold DEF ReleaseInv, Stand
  <2>8. Drawn'
    BY <1>2, <2>2, <2>5, DrawnSame DEF ReleaseInv, Untouched
  <2>9. Signed'
    <3>1. Doing.signal = Present.current /\ Present.approval = NoSignal
      BY <1>1 DEF ReleaseInv, Signed
    <3>2. /\ Present.current.version = run'.version /\ Present.current.channels # {}
          /\ run'.passed /\ Approved(run')
      BY <1>4, <2>2, <3>1 DEF Acceptable, Untouched, Approved
    <3>3. \A x \in {Present.approval, Present.current} :
              Reads(x, run'.version, Package', Drawing(run', Present', Doing'))
      BY <2>2, <2>5 DEF ReleaseInv, Signed, Reads, Untouched
    <3>4. Doing'.signal = Present.approval
      BY <2>3, <3>1
    <3> QED
      BY <1>1, <2>3, <3>1, <3>2, <3>3, <3>4 DEF Signed
  <2> QED
    BY <2>3, <2>4, <2>7, <2>8, <2>9 DEF ReleaseInv, Stand
<1> QED
  BY <1>3, <1>4

LEMMA ReadApprovedReleases ==
    ASSUME TypeInv, ReleaseInv, NEW s \in Slots, ReadApproved(s) PROVE ReleaseInv'
<1>1. /\ s = run.workflow /\ Doing = att[s] /\ Present.stage = "revalidate"
      /\ Doing.kind = "revalidate" /\ Doing.step = "start"
  BY Acting DEF ReadApproved, At, ReleaseInv, Stand, Activities
<1>2. /\ artifacts' = artifacts /\ publishes' = publishes /\ retry' = retry /\ run' = run
      /\ Untouched
  BY DEF ReadApproved, others, world, Untouched
<1>3. CASE Raise(s, TRUE)
  BY <1>1, <1>2, <1>3, RaiseReleases DEF Limited, Activities
<1>4. CASE run.status = "publishing" /\ wf' = wf
          /\ att' = [att EXCEPT ![s] = [att[s] EXCEPT !.step = "answer", !.template = template]]
  <2>1. PICK y : y = [Doing EXCEPT !.step = "answer", !.template = template]
    OBVIOUS
  <2>2. y.kind = Doing.kind /\ y.step = "answer" /\ y.signal = Doing.signal
    BY <2>1, PresentType DEF AttemptStates
  <2>3. att' = [att EXCEPT ![run.workflow] = y]
    BY <1>1, <1>4, <2>1
  <2>4. /\ Alone' /\ Present' = Present /\ Doing' = y
    BY <1>2, <1>4, <2>2, <2>3, OwnStep DEF ReleaseInv, Stand
  <2>5. Stands(run', Present', Doing')
    BY <1>1, <1>2, <1>4, <2>2, <2>4 DEF ReleaseInv, Stand, Stands
  <2> QED
    BY <1>1, <1>2, <1>4, <2>2, <2>4, <2>5, OwnQuietly DEF Closing, Deep
<1> QED
  BY <1>3, <1>4 DEF ReadApproved

LEMMA StillValidReleases ==
    ASSUME TypeInv, ReleaseInv, NEW s \in Slots, StillValid(s) PROVE ReleaseInv'
<1>1. /\ s = run.workflow /\ Doing = att[s] /\ Present.stage = "revalidate"
      /\ Doing.kind = "revalidate" /\ Doing.step = "answer"
  BY Acting DEF StillValid, At, ReleaseInv, Stand, Activities
<1>2. /\ wf' = wf /\ artifacts' = artifacts /\ publishes' = publishes /\ retry' = retry
      /\ run' = run /\ Answer(s, TRUE) /\ Untouched
  BY DEF StillValid, others, world, Untouched
<1>3. run.status = "publishing"
  BY <1>1 DEF ReleaseInv, Stand, Stands
<1>4. ASSUME NEW a, a.step = "done", a.ok = TRUE PROVE Stands(run', Present, a)
  BY <1>1, <1>2, <1>3, <1>4 DEF ReleaseInv, Stand, Stands
<1> QED
  BY <1>1, <1>2, <1>3, <1>4, AnswerQuietly DEF Closing

(* The version moves on while its approval is revalidated. *)
LEMMA RepriceMoves ==
    ASSUME TypeInv, ReleaseInv, Present.stage = "revalidate", Answer(run.workflow, FALSE),
           wf' = wf, run'.workflow = run.workflow, run'.version = run.version + 1,
           run'.status = "awaiting_approval", run'.passed => run.passed,
           artifacts' = artifacts, publishes' = publishes, retry' = retry
    PROVE  ReleaseInv'
<1>1. /\ Alone' /\ Present' = Present /\ Doing'.step = "done" /\ Doing'.ok = FALSE
      /\ Doing'.signal = NoSignal
  BY AnswerView DEF ReleaseInv, Stand
<1>2. Stands(run', Present', Doing')
  BY <1>1 DEF ReleaseInv, Stand, Stands
<1>3. ~Drawing(run', Present', Doing') /\ ~Deep(Doing') /\ ~Releasing(run', Present')
  BY <1>1 DEF Drawing, Deep, Releasing
<1>4. \A c \in Channels : publishes[c] = "none"
  BY NotSold DEF ReleaseInv
<1>5. Sold' /\ Retried'
  BY <1>1, <1>4, Unsold DEF ReleaseInv, Stand
<1>6. Drawn'
  BY <1>3, DrawnMoved DEF ReleaseInv
<1>7. Signed'
  <2>1. Present.approval = NoSignal
    BY DEF ReleaseInv, Signed
  <2> QED
    BY <1>1, <1>3, <2>1, SignedMoved DEF ReleaseInv
<1> QED
  BY <1>1, <1>2, <1>5, <1>6, <1>7 DEF ReleaseInv, Stand

LEMMA RepricedView ==
    ASSUME NEW r \in Runs, NEW q
    PROVE  /\ DOMAIN Repriced(r, q) = DOMAIN r
           /\ Repriced(r, q).version = r.version + 1
           /\ Repriced(r, q).status = "awaiting_approval"
           /\ Repriced(r, q).passed = r.passed /\ Repriced(r, q).workflow = r.workflow
           /\ {"version", "status", "passed", "workflow", "snapshot"} \subseteq DOMAIN r
BY DEF Repriced, Runs

LEMMA RepriceReleases ==
    ASSUME TypeInv, ReleaseInv, NEW s \in Slots, Reprice(s) PROVE ReleaseInv'
<1>1. /\ s = run.workflow /\ Doing = att[s] /\ Present.stage = "revalidate"
  BY Acting DEF Reprice, At, ReleaseInv, Stand, Activities
<1>2. /\ wf' = wf /\ artifacts' = artifacts /\ publishes' = publishes /\ retry' = retry
      /\ run \in Runs /\ Answer(s, FALSE)
  BY PresentType DEF Reprice
<1>3. \/ run' = [[Repriced(run, NoQuotes) EXCEPT !.snapshot = market] EXCEPT !.passed = FALSE]
      \/ run' = [Repriced(run, [at |-> market, edited |-> FALSE]) EXCEPT !.snapshot = market]
  BY DEF Reprice
<1>4. /\ run'.workflow = run.workflow /\ run'.version = run.version + 1
      /\ run'.status = "awaiting_approval"
      /\ run'.passed => run.passed
  <2>1. PICK q : \/ run' = [[Repriced(run, q) EXCEPT !.snapshot = market] EXCEPT !.passed = FALSE]
                 \/ run' = [Repriced(run, q) EXCEPT !.snapshot = market]
    BY <1>3
  <2>2. PICK r : r = Repriced(run, q)
    OBVIOUS
  <2>3. /\ r.version = run.version + 1 /\ r.status = "awaiting_approval"
        /\ r.passed = run.passed /\ r.workflow = run.workflow
        /\ {"version", "status", "passed", "workflow", "snapshot"} \subseteq DOMAIN r
    BY <1>2, <2>2, RepricedView
  <2> QED
    BY <2>1, <2>2, <2>3
<1> QED
  BY <1>1, <1>2, <1>4, RepriceMoves

LEMMA UnavailableReleases ==
    ASSUME TypeInv, ReleaseInv, NEW s \in Slots, Unavailable(s) PROVE ReleaseInv'
<1>1. /\ s = run.workflow /\ Doing = att[s] /\ Present.stage = "revalidate"
  BY Acting DEF Unavailable, At, ReleaseInv, Stand, Activities
<1>2. /\ artifacts' = artifacts /\ publishes' = publishes /\ retry' = retry /\ run \in Runs
  BY PresentType DEF Unavailable, others, world
<1>3. CASE /\ run' = [Repriced(run, NoQuotes) EXCEPT !.passed = FALSE]
           /\ Answer(s, FALSE) /\ wf' = wf
  <2>1. /\ run'.workflow = run.workflow /\ run'.version = run.version + 1
        /\ run'.status = "awaiting_approval" /\ run'.passed = FALSE
    <3>1. PICK r : r = Repriced(run, NoQuotes)
      OBVIOUS
    <3>2. /\ run' = [r EXCEPT !.passed = FALSE] /\ r.version = run.version + 1
          /\ r.status = "awaiting_approval" /\ r.workflow = run.workflow
          /\ {"version", "status", "passed", "workflow", "snapshot"} \subseteq DOMAIN r
      BY <1>2, <1>3, <3>1, RepricedView
    <3> QED
      BY <3>2
  <2> QED
    BY <1>1, <1>2, <1>3, <2>1, RepriceMoves
<1>4. CASE Raise(s, TRUE) /\ run' = run
  BY <1>1, <1>2, <1>4, RaiseReleases DEF Limited, Activities
<1> QED
  BY <1>3, <1>4 DEF Unavailable

(* What a run is called by its results. *)
LEMMA SummaryView ==
    ASSUME NEW results
    PROVE  /\ Summary(results) \in {"published", "verification_required",
                                    "partially_published", "failed"}
           /\ Summary(results) = "published" => results = {"succeeded"}
           /\ Summary(results) = "partially_published" => "succeeded" \in results
BY DEF Summary

(* The channels of a release. *)
LEMMA ReleaseChannels ==
    ASSUME TypeInv
    PROVE  Present.current.channels \subseteq Channels
BY PresentType DEF WorkflowStates, Signals

LEMMA FinishReleases ==
    ASSUME TypeInv, ReleaseInv, NEW s \in Slots, Finish(s) PROVE ReleaseInv'
<1>1. /\ s = run.workflow /\ Doing = att[s] /\ Present.stage = "finish"
      /\ Doing.kind = "finish" /\ Doing.step = "start"
  BY Acting DEF Finish, At, ReleaseInv, Stand, Activities
<1>2. PICK results : results = {Present.results[c] : c \in Present.current.channels}
  OBVIOUS
<1>3. /\ wf' = wf /\ artifacts' = artifacts /\ publishes' = publishes /\ retry' = retry
      /\ run \in Runs /\ run' = Status(run, Summary(results)) /\ Answer(s, TRUE)
  BY <1>1, <1>2, PresentType DEF Finish, others, world, Present
<1>4. /\ run'.status = Summary(results) /\ run'.workflow = run.workflow /\ Untouched
      /\ run'.approvals = run.approvals
  BY <1>3, StatusView DEF Untouched
<1>5. /\ run'.status \in {"published", "verification_required", "partially_published", "failed"}
      /\ run'.status = "published" => results = {"succeeded"}
  BY <1>4, SummaryView
<1>6. /\ Alone' /\ Present' = Present /\ Doing'.step = "done" /\ Doing'.ok = TRUE
      /\ Doing'.signal = NoSignal
  BY <1>1, <1>3, <1>4, AnswerView DEF ReleaseInv, Stand
<1>7. Stands(run', Present', Doing')
  BY <1>1, <1>4, <1>5, <1>6 DEF ReleaseInv, Stand, Stands, Ended
<1>8. Signed'
  <2>1. Package' = Package /\ ~Drawing(run', Present', Doing')
    BY <1>1, <1>4, <1>6, PackageSame DEF Untouched, Drawing
  <2>2. Releasing(run, Present)
    BY <1>1 DEF Releasing
  <2> QED
    BY <1>1, <1>4, <1>6, <2>1, <2>2, SignedSame DEF ReleaseInv, Untouched
<1>9. Drawn'
  BY <1>1, <1>4, <1>6, DrawnSame DEF ReleaseInv, Untouched, Drawing, Deep
<1>10. Retried'
  BY <1>1, <1>4, NotRetried DEF ReleaseInv, Stand, Untouched, Retried
<1>11. Sold'
  <2>1. PICK c \in Channels : c \in Present.current.channels
    BY <1>1, ReleaseChannels DEF ReleaseInv, Signed, Releasing
  <2>2. Present.results[c] \in results /\ Present.results[c] # "none"
        /\ publishes[c] = Present.results[c]
    BY <1>1, <1>2, <2>1 DEF ReleaseInv, Sold
  <2>3. publishes'[c] # "none" /\ (run'.status = "published" => publishes'[c] = "succeeded")
    BY <1>3, <1>5, <2>2
  <2>4. Approved(run') /\ run'.passed
    BY <1>1, <1>4 DEF ReleaseInv, Signed, Releasing, Approved, Untouched
  <2>5. results = {Present'.results[d] : d \in Present'.current.channels}
    BY <1>2, <1>6
  <2> QED
    BY <1>1, <1>3, <1>4, <1>6, <2>1, <2>3, <2>4, <2>5 DEF ReleaseInv, Sold
<1> QED
  BY <1>6, <1>7, <1>8, <1>9, <1>10, <1>11 DEF ReleaseInv, Stand

-----------------------------------------------------------------------------
(* Generation. *)

(* A package that is being made has not been approved. *)
LEMMA DrawingSigned ==
    ASSUME TypeInv, Signed, Drawing(run, Present, Doing), run'.version = run.version,
           Present'.stage \notin {"wait", "record", "revalidate"}, ~Releasing(run', Present'),
           {Present'.approval, Present'.current, Doing'.signal}
               \subseteq {NoSignal, Present.approval, Present.current, Doing.signal}
    PROVE  Signed'
<1>1. ASSUME NEW sig \in {NoSignal, Present.approval, Present.current, Doing.signal}
      PROVE  Reads(sig, run'.version, Package', Drawing(run', Present', Doing'))
  <2>1. CASE sig = NoSignal
    BY <2>1, VersionNat DEF Reads
  <2>2. CASE sig # NoSignal
    BY <1>1, <2>2 DEF Signed, Reads
  <2> QED
    BY <2>1, <2>2
<1>2. \A sig \in {Present'.approval, Present'.current, Doing'.signal} :
          Reads(sig, run'.version, Package', Drawing(run', Present', Doing'))
  BY <1>1
<1> QED
  BY <1>2 DEF Signed

LEMMA Deeply ==
    ASSUME TypeInv, ReleaseInv, Present.stage = "generate", Drawing(run, Present, Doing),
           Alone', Present' = Present, Doing'.signal \in {NoSignal, Doing.signal},
           run'.version = run.version, publishes' = publishes, retry' = retry,
           Stands(run', Present', Doing'), Drawn'
    PROVE  ReleaseInv'
<1>1. run'.status \notin {"publishing", "published", "partially_published", "verification_required"}
  BY DEF Stands
<1>2. \A c \in Channels : publishes[c] = "none"
  BY NotSold DEF ReleaseInv
<1>3. Sold' /\ Retried'
  BY <1>1, <1>2, Unsold DEF ReleaseInv, Stand
<1>4. ~Releasing(run', Present')
  BY <1>1 DEF Releasing
<1>5. Signed'
  BY <1>4, DrawingSigned DEF ReleaseInv
<1> QED
  BY <1>3, <1>5 DEF ReleaseInv, Stand

LEMMA RevisedView ==
    ASSUME NEW r \in Runs, NEW a
    PROVE  LET y == Revised(r, a)
           IN /\ y.status = r.status /\ y.approvals = r.approvals /\ y.workflow = r.workflow
              /\ a.regenerate /\ r.status \in {"pending", "awaiting_approval"} =>
                     y.version = r.version + 1 /\ y.passed = FALSE
              /\ ~(a.regenerate /\ r.status \in {"pending", "awaiting_approval"}) => y = r
<1>1. PICK c : c = Cleared(r)
  OBVIOUS
<1>2. /\ c.version = r.version + 1 /\ c.passed = FALSE /\ c.status = r.status
      /\ c.approvals = r.approvals /\ c.workflow = r.workflow /\ DOMAIN c = DOMAIN r
      /\ {"version", "passed", "status", "approvals", "workflow", "snapshot", "brief"} \subseteq DOMAIN r
  BY <1>1 DEF Cleared, Runs
<1>3. PICK b : b = IF a.preserve THEN c.brief ELSE NoBrief
  OBVIOUS
<1>4. Revised(r, a) = IF a.regenerate /\ r.status \in {"pending", "awaiting_approval"}
                      THEN [[c EXCEPT !.snapshot = "none"] EXCEPT !.brief = b] ELSE r
  BY <1>1, <1>2, <1>3 DEF Revised
<1> QED
  BY <1>2, <1>4

LEMMA GenerateReleases ==
    ASSUME TypeInv, ReleaseInv, NEW s \in Slots, Generate(s) PROVE ReleaseInv'
<1>1. /\ s = run.workflow /\ Doing = att[s] /\ Present.stage = "generate"
      /\ Doing.kind = "generate" /\ Doing.step = "start"
  BY Acting DEF Generate, At, ReleaseInv, Stand, Activities
<1>2. /\ wf' = wf /\ artifacts' = artifacts /\ publishes' = publishes /\ retry' = retry
      /\ run \in Runs /\ run' = Status(Revised(run, Doing), "working")
      /\ run.version \in Nat
  BY <1>1, PresentType, VersionNat DEF Generate, others, world
<1>3. PICK again \in BOOLEAN : again <=> Redo(run, Present, Doing)
  BY DEF Redo
<1>4. Doing.regenerate = Present.regenerate
  BY <1>1 DEF ReleaseInv, Stand, Stands
<1>5. /\ run'.status = "working" /\ run'.workflow = run.workflow
      /\ run'.approvals = run.approvals
      /\ again => run'.version = run.version + 1 /\ run'.passed = FALSE
      /\ ~again => run'.version = run.version /\ run'.passed = run.passed
  <2>1. PICK r : r = Revised(run, Doing)
    OBVIOUS
  <2>2. /\ r.approvals = run.approvals /\ r.workflow = run.workflow
        /\ again => r.version = run.version + 1 /\ r.passed = FALSE
        /\ ~again => r = run
    <3>1. again <=> Doing.regenerate /\ run.status \in {"pending", "awaiting_approval"}
      BY <1>1, <1>3, <1>4 DEF Redo
    <3> QED
      BY <1>2, <2>1, <3>1, RevisedView
  <2>3. r \in Runs /\ run' = Status(r, "working")
    BY <1>1, <1>2, <2>1, PresentType, RevisedType DEF Generate
  <2>4. /\ run'.status = "working" /\ run'.workflow = r.workflow
        /\ run'.approvals = r.approvals /\ run'.version = r.version
        /\ run'.passed = r.passed
    BY <2>3, StatusView
  <2> QED
    BY <2>2, <2>4
<1>6. PICK y : y = [Doing EXCEPT !.step = "brief", !.version = run'.version, !.brief = run'.brief,
                                 !.template = IF run'.snapshot = "none" THEN template
                                              ELSE run'.snapshot,
                                 !.listings = run'.listings, !.arts = artifacts[run'.version]]
  OBVIOUS
<1>7. /\ y.kind = "generate" /\ y.step = "brief" /\ y.version = run'.version
      /\ y.arts = artifacts[run'.version] /\ y.signal = Doing.signal
  BY <1>1, <1>6, PresentType DEF AttemptStates
<1>8. att' = [att EXCEPT ![run.workflow] = y]
  BY <1>1, <1>6 DEF Generate
<1>9. Alone' /\ Present' = Present /\ Doing' = y
  BY <1>1, <1>2, <1>5, <1>7, <1>8, OwnStep DEF ReleaseInv, Stand
<1>10. Stands(run', Present', Doing')
  BY <1>1, <1>5, <1>7, <1>9 DEF ReleaseInv, Stand, Stands
<1>11. CASE ~again
  <2>1. Drawing(run, Present, Doing)
    BY <1>1, <1>3, <1>11 DEF Drawing
  <2>2. Drawn'
    <3>1. Shown' <=> Shown
      BY <1>2 DEF Shown, Production
    <3> QED
      BY <1>2, <1>5, <1>7, <1>9, <1>11, <2>1, <3>1 DEF ReleaseInv, Drawn
  <2> QED
    BY <1>1, <1>2, <1>5, <1>7, <1>9, <1>10, <1>11, <2>1, <2>2, Deeply
<1>12. CASE again
  <2>1. Drawn'
    <3>1. ASSUME NEW v \in Versions, v > run'.version PROVE artifacts'[v] = <<>>
      <4>1. v > run.version
        BY <1>2, <1>5, <1>12, <3>1, Bounds DEF Versions
      <4> QED
        BY <1>2, <4>1 DEF ReleaseInv, Drawn
    <3> QED
      BY <1>2, <1>5, <1>7, <1>9, <1>12, <3>1 DEF Drawn
  <2>2. \A c \in Channels : publishes[c] = "none"
    BY <1>1, NotSold DEF ReleaseInv
  <2>3. Sold' /\ Retried'
    BY <1>1, <1>2, <1>5, <1>9, <2>2, Unsold DEF ReleaseInv, Stand
  <2>4. Signed'
    BY <1>1, <1>5, <1>7, <1>9, <1>12, SignedMoved DEF ReleaseInv, Releasing
  <2> QED
    BY <1>9, <1>10, <2>1, <2>3, <2>4 DEF ReleaseInv, Stand
<1> QED
  BY <1>11, <1>12

LEMMA WriteBriefReleases ==
    ASSUME TypeInv, ReleaseInv, NEW s \in Slots, WriteBrief(s) PROVE ReleaseInv'
<1>1. /\ s = run.workflow /\ Doing = att[s] /\ Present.stage = "generate"
      /\ Doing.kind = "generate" /\ Doing.step = "brief"
  BY Acting DEF WriteBrief, At, ReleaseInv, Stand, Activities
<1>2. /\ wf' = wf /\ artifacts' = artifacts /\ publishes' = publishes /\ retry' = retry
      /\ run \in Runs
  BY PresentType DEF WriteBrief, others, world
<1>3. PICK b : /\ att' = [att EXCEPT ![run.workflow] = [Doing EXCEPT !.brief = b, !.step = "artwork"]]
               /\ run' = run \/ run' = [run EXCEPT !.brief = b]
  BY <1>1 DEF WriteBrief
<1>4. /\ run'.status = run.status /\ run'.workflow = run.workflow /\ run'.version = run.version
      /\ run'.passed = run.passed /\ run'.approvals = run.approvals
  BY <1>2, <1>3 DEF Runs
<1>5. PICK y : y = [Doing EXCEPT !.brief = b, !.step = "artwork"]
  OBVIOUS
<1>6. /\ y.kind = "generate" /\ y.step = "artwork" /\ y.version = Doing.version
      /\ y.arts = Doing.arts /\ y.signal = Doing.signal
  BY <1>1, <1>5, PresentType DEF AttemptStates
<1>7. Alone' /\ Present' = Present /\ Doing' = y
  <2>1. att' = [att EXCEPT ![run.workflow] = y]
    BY <1>3, <1>5
  <2> QED
    BY <1>1, <1>2, <1>4, <1>6, <2>1, OwnStep DEF ReleaseInv, Stand
<1>8. Stands(run', Present', Doing')
  BY <1>1, <1>4, <1>6, <1>7 DEF ReleaseInv, Stand, Stands
<1>9. Drawing(run, Present, Doing) /\ Deep(Doing)
  BY <1>1 DEF Drawing, Redo, Deep
<1>10. Drawn'
  BY <1>2, <1>4, <1>6, <1>7, <1>9, DrawnSame DEF ReleaseInv
<1> QED
  BY <1>1, <1>2, <1>4, <1>6, <1>7, <1>8, <1>9, <1>10, Deeply

(* The artwork of a version that has passed is decided. *)
LEMMA SaveReleases ==
    ASSUME TypeInv, ReleaseInv, NEW s \in Slots, At(s, "generate", "artwork"),
           ~Decided(att[s].arts), NEW arts, Save(s, arts), run'.version = run.version,
           run'.workflow = run.workflow, run'.status = "working", run'.passed = run.passed,
           publishes' = publishes, retry' = retry
    PROVE  ReleaseInv'
<1>1. /\ s = run.workflow /\ Doing = att[s] /\ Present.stage = "generate"
      /\ Doing.kind = "generate" /\ Doing.step = "artwork"
  BY Acting DEF At, ReleaseInv, Stand, Activities
<1>2. Drawing(run, Present, Doing) /\ Deep(Doing)
  BY <1>1 DEF Drawing, Redo, Deep
<1>3. Doing.version = run.version /\ Doing.arts = artifacts[run.version]
  BY <1>2 DEF ReleaseInv, Drawn
<1>4. PICK y : y = [Doing EXCEPT !.arts = arts]
  OBVIOUS
<1>5. /\ y.kind = "generate" /\ y.step = "artwork" /\ y.version = run.version
      /\ y.arts = arts /\ y.signal = Doing.signal
  BY <1>1, <1>3, <1>4, PresentType DEF AttemptStates
<1>6. /\ artifacts' = [artifacts EXCEPT ![run.version] = arts] /\ wf' = wf
      /\ att' = [att EXCEPT ![run.workflow] = y]
  BY <1>1, <1>3, <1>4 DEF Save
<1>7. Alone' /\ Present' = Present /\ Doing' = y
  BY <1>1, <1>5, <1>6, OwnStep DEF ReleaseInv, Stand
<1>8. Stands(run', Present', Doing')
  BY <1>1, <1>5, <1>7 DEF ReleaseInv, Stand, Stands
<1>9. ~run.passed
  <2>1. run.passed => Finished(artifacts[run.version])
    BY <1>2 DEF ReleaseInv, Drawn
  <2> QED
    BY <1>1, <1>3, <2>1 DEF Finished, Decided
<1>10. Drawn'
  <2>1. /\ run.version \in Versions /\ artifacts \in [Versions -> Works]
        /\ \A v \in Versions : v > run.version => v # run.version
    BY VersionNat, Bounds DEF TypeInv, Versions
  <2>2. \A v \in Versions : artifacts'[v] = IF v = run.version THEN arts ELSE artifacts[v]
    BY <1>6, <2>1
  <2>3. \A v \in Versions : v > run'.version => artifacts'[v] = <<>>
    BY <2>1, <2>2 DEF ReleaseInv, Drawn
  <2> QED
    BY <1>5, <1>7, <1>9, <2>1, <2>2, <2>3 DEF Drawn
<1> QED
  BY <1>1, <1>2, <1>5, <1>7, <1>8, <1>10, Deeply

LEMMA DrawReleases ==
    ASSUME TypeInv, ReleaseInv, NEW s \in Slots, Draw(s) PROVE ReleaseInv'
<1>1. /\ s = run.workflow /\ Present.stage = "generate" /\ Doing.step = "artwork"
  BY Acting DEF Draw, At, ReleaseInv, Stand, Activities
<1>2. run.status = "working"
  BY <1>1 DEF ReleaseInv, Stand, Stands
<1> QED
  BY <1>2, SaveReleases DEF Draw, world

LEMMA PrepareReleases ==
    ASSUME TypeInv, ReleaseInv, NEW s \in Slots, Prepare(s) PROVE ReleaseInv'
<1>1. run \in Runs /\ run' = Status(run, "working")
  BY PresentType DEF Prepare
<1>2. /\ run'.version = run.version /\ run'.workflow = run.workflow
      /\ run'.status = "working" /\ run'.passed = run.passed
  BY <1>1, StatusView
<1>3. PICK arts : Save(s, arts)
  BY DEF Prepare
<1> QED
  BY <1>2, <1>3, SaveReleases DEF Prepare, world

LEMMA SettleReleases ==
    ASSUME TypeInv, ReleaseInv, NEW s \in Slots, Settle(s) PROVE ReleaseInv'
<1>1. /\ s = run.workflow /\ Doing = att[s] /\ Present.stage = "generate"
      /\ Doing.kind = "generate" /\ Doing.step = "artwork" /\ Decided(Doing.arts)
  BY Acting DEF Settle, At, ReleaseInv, Stand, Activities
<1>2. PICK passed \in BOOLEAN : passed <=> Doing.arts[Len(Doing.arts)] = "passed"
  OBVIOUS
<1>3. /\ wf' = wf /\ artifacts' = artifacts /\ publishes' = publishes /\ retry' = retry
      /\ run \in Runs /\ run' = [run EXCEPT !.passed = (Doing.arts[Len(Doing.arts)] = "passed")]
      /\ passed => Goto(s, "list")
      /\ ~passed => Goto(s, "hold")
  BY <1>1, <1>2, PresentType DEF Settle, others, world
<1>4. /\ run'.version = run.version /\ run'.workflow = run.workflow
      /\ run'.status = run.status /\ run'.approvals = run.approvals
      /\ run'.passed <=> passed
  BY <1>2, <1>3 DEF Runs
<1>5. /\ Alone' /\ Present' = Present /\ Doing'.kind = "generate"
      /\ Doing'.signal = Doing.signal /\ Doing'.version = Doing.version
      /\ Doing'.arts = Doing.arts /\ Doing'.step \in {"list", "hold"}
      /\ Doing'.step = "list" => passed
  <2>1. CASE passed
    BY <1>1, <1>3, <1>4, <2>1, GotoView DEF ReleaseInv, Stand
  <2>2. CASE ~passed
    BY <1>1, <1>3, <1>4, <2>2, GotoView DEF ReleaseInv, Stand
  <2> QED
    BY <2>1, <2>2
<1>6. Drawing(run, Present, Doing) /\ Deep(Doing)
  BY <1>1 DEF Drawing, Redo, Deep
<1>7. Stands(run', Present', Doing')
  BY <1>1, <1>4, <1>5 DEF ReleaseInv, Stand, Stands
<1>8. Doing.version = run.version /\ Doing.arts = artifacts[run.version]
  BY <1>6 DEF ReleaseInv, Drawn
<1>9. passed => Finished(artifacts[run.version])
  BY <1>1, <1>2, <1>8 DEF Decided, Finished
<1>10. passed => Shown'
  <2>1. SUFFICES ASSUME passed PROVE Shown'
    OBVIOUS
  <2>2. ASSUME NEW u \in Versions, u > run.version PROVE Production(u)' = {}
    BY <1>3, <2>2 DEF ReleaseInv, Drawn, Production
  <2>3. run.version \in Versions
    BY VersionNat
  <2> QED
    BY <1>3, <1>9, <2>1, <2>2, <2>3 DEF Shown
<1>11. Drawn'
  BY <1>3, <1>4, <1>5, <1>8, <1>9, <1>10 DEF ReleaseInv, Drawn
<1> QED
  BY <1>1, <1>3, <1>4, <1>5, <1>6, <1>7, <1>11, Deeply

LEMMA WriteListingsReleases ==
    ASSUME TypeInv, ReleaseInv, NEW s \in Slots, WriteListings(s) PROVE ReleaseInv'
<1>1. /\ s = run.workflow /\ Doing = att[s] /\ Present.stage = "generate"
      /\ Doing.kind = "generate" /\ Doing.step = "list"
  BY Acting DEF WriteListings, At, ReleaseInv, Stand, Activities
<1>2. /\ wf' = wf /\ artifacts' = artifacts /\ publishes' = publishes /\ retry' = retry
      /\ run \in Runs
  BY PresentType DEF WriteListings, others, world
<1>3. run.status = "working"
  BY <1>1 DEF ReleaseInv, Stand, Stands
<1>4. /\ run'.status = "working" /\ run'.workflow = run.workflow /\ run'.version = run.version
      /\ run'.passed = run.passed /\ run'.approvals = run.approvals
  <2>1. CASE run' = run
    BY <1>3, <2>1
  <2>2. CASE run' = [Status(run, "working") EXCEPT !.listings = Doing.version]
    <3>1. PICK r : r = Status(run, "working")
      OBVIOUS
    <3>2. /\ r.status = "working" /\ r.workflow = run.workflow /\ r.version = run.version
          /\ r.passed = run.passed /\ r.approvals = run.approvals
      BY <1>2, <3>1, StatusView
    <3>3. r \in Runs
      BY <1>2, <3>1, StatusType DEF Statuses, Rest
    <3> QED
      BY <2>2, <3>1, <3>2, <3>3 DEF Runs
  <2> QED
    BY <1>1, <2>1, <2>2 DEF WriteListings
<1>5. PICK y : /\ att' = [att EXCEPT ![run.workflow] = y]
               /\ \/ y = [Doing EXCEPT !.step = "store"]
                  \/ y = [Doing EXCEPT !.step = "store", !.listings = Doing.version]
  BY <1>1 DEF WriteListings, Goto
<1>6. /\ y.kind = "generate" /\ y.step = "store" /\ y.version = Doing.version
      /\ y.arts = Doing.arts /\ y.signal = Doing.signal
  BY <1>1, <1>5, PresentType DEF AttemptStates
<1>7. Alone' /\ Present' = Present /\ Doing' = y
  <2>1. att' = [att EXCEPT ![run.workflow] = y]
    BY <1>5
  <2> QED
    BY <1>1, <1>2, <1>4, <1>6, <2>1, OwnStep DEF ReleaseInv, Stand
<1>8. Stands(run', Present', Doing')
  BY <1>1, <1>4, <1>6, <1>7 DEF ReleaseInv, Stand, Stands
<1>9. Drawing(run, Present, Doing) /\ Deep(Doing)
  BY <1>1 DEF Drawing, Redo, Deep
<1>10. Drawn'
  BY <1>1, <1>2, <1>4, <1>6, <1>7, <1>9, DrawnSame DEF ReleaseInv
<1> QED
  BY <1>1, <1>2, <1>4, <1>6, <1>7, <1>8, <1>9, <1>10, Deeply

LEMMA StorePackageReleases ==
    ASSUME TypeInv, ReleaseInv, NEW s \in Slots, StorePackage(s) PROVE ReleaseInv'
<1>1. /\ s = run.workflow /\ Doing = att[s] /\ Present.stage = "generate"
      /\ Doing.kind = "generate" /\ Doing.step = "store"
  BY Acting DEF StorePackage, At, ReleaseInv, Stand, Activities
<1>2. /\ wf' = wf /\ artifacts' = artifacts /\ publishes' = publishes /\ retry' = retry
      /\ run \in Runs /\ Answer(s, TRUE)
  BY PresentType DEF StorePackage, others, world
<1>3. PICK r : r = Status(run, "awaiting_approval")
  OBVIOUS
<1>4. /\ r.status = "awaiting_approval" /\ r.workflow = run.workflow /\ r.version = run.version
      /\ r.approvals = run.approvals
  BY <1>2, <1>3, StatusView
<1>5. r \in Runs
  BY <1>2, <1>3, StatusType DEF Statuses, Rest
<1>6. PICK q : run' = [r EXCEPT !.brief = Doing.brief, !.passed = TRUE,
                                !.listings = Doing.listings, !.quotes = q,
                                !.snapshot = Doing.template]
  BY <1>1, <1>3 DEF StorePackage
<1>7. /\ run'.status = "awaiting_approval" /\ run'.workflow = run.workflow
      /\ run'.version = run.version
  BY <1>4, <1>5, <1>6 DEF Runs
<1>8. /\ Alone' /\ Present' = Present /\ Doing'.kind = "generate" /\ Doing'.step = "done"
      /\ Doing'.ok = TRUE /\ Doing'.signal = NoSignal
  BY <1>1, <1>2, <1>7, AnswerView DEF ReleaseInv, Stand
<1>9. Stands(run', Present', Doing')
  BY <1>1, <1>7, <1>8 DEF ReleaseInv, Stand, Stands
<1>10. Drawing(run, Present, Doing) /\ Deep(Doing) /\ ~Deep(Doing')
  BY <1>1, <1>8 DEF Drawing, Redo, Deep
<1>11. run.passed
  BY <1>1, <1>10 DEF ReleaseInv, Drawn
<1>12. Drawn'
  BY <1>2, <1>7, <1>10, <1>11, DrawnSame DEF ReleaseInv
<1> QED
  BY <1>1, <1>2, <1>7, <1>8, <1>9, <1>10, <1>12, Deeply

-----------------------------------------------------------------------------
(* Rewrites, in time or late. *)

(* Nothing that matters changes. *)
LEMMA SameReleases ==
    ASSUME TypeInv, ReleaseInv, Alone', Present' = Present, Doing' = Doing, run' = run,
           artifacts' = artifacts, publishes' = publishes, retry' = retry
    PROVE  ReleaseInv'
<1>1. Package' = Package /\ (Shown' <=> Shown)
  BY DEF Package, Artwork, Production, Shown
<1>2. Stands(run', Present', Doing') /\ Retried'
  BY DEF ReleaseInv, Stand, Retried
<1>3. Drawn'
  BY <1>1 DEF ReleaseInv, Drawn
<1>4. Signed'
  BY <1>1 DEF ReleaseInv, Signed
<1>5. Sold'
  BY DEF ReleaseInv, Sold
<1> QED
  BY <1>2, <1>3, <1>4, <1>5 DEF ReleaseInv, Stand

(* A step of an attempt that rewrites a brief. *)
LEMMA RewriteStep ==
    ASSUME TypeInv, Alone, NEW s \in Slots, att[s].kind = "rewrite", wf' = wf,
           run'.workflow = run.workflow, NEW y, att' = [att EXCEPT ![s] = y],
           y.kind = "rewrite" \/ (s = Late /\ y.kind = "idle")
    PROVE  /\ Alone' /\ Present' = Present
           /\ \/ s = Late /\ Doing' = Doing
              \/ s = run.workflow /\ Present.stage = "rewrite" /\ Doing = att[s] /\ Doing' = y
<1>1. CASE s = Late
  <2>1. att' = [att EXCEPT ![Late] = y] /\ (y.kind = "idle" \/ y.kind = "rewrite")
    BY <1>1
  <2>2. Alone' /\ Present' = Present /\ Doing' = Doing
    BY <2>1, LateStep
  <2> QED
    BY <1>1, <2>2
<1>2. CASE s # Late
  <2>1. s = run.workflow
    BY <1>2, Actors
  <2>2. Present.stage = "rewrite" /\ Doing = att[s]
    BY <2>1, PresentType DEF Alone, Present, Doing, Activities
  <2> QED
    BY <1>2, <2>1, <2>2, OwnStep
<1> QED
  BY <1>1, <1>2

LEMMA RewriteAnswer ==
    ASSUME TypeInv, Alone, NEW s \in Slots, att[s].kind = "rewrite", wf' = wf,
           run'.workflow = run.workflow, NEW ok, Answer(s, ok)
    PROVE  /\ Alone' /\ Present' = Present
           /\ \/ s = Late /\ Doing' = Doing
              \/ /\ s = run.workflow /\ Present.stage = "rewrite" /\ Doing = att[s]
                 /\ Doing'.kind = "rewrite" /\ Doing'.step = "done" /\ Doing'.ok = ok
                 /\ Doing'.signal = NoSignal
<1>1. PICK y : y = IF s = Late THEN Idle
                   ELSE [att[s] EXCEPT !.step = "done", !.ok = ok, !.signal = NoSignal]
  OBVIOUS
<1>2. att' = [att EXCEPT ![s] = y]
  BY <1>1 DEF Answer, Return
<1>3. /\ s = Late => y.kind = "idle"
      /\ s # Late => /\ y.kind = "rewrite" /\ y.step = "done" /\ y.ok = ok
                     /\ y.signal = NoSignal
  BY <1>1, SlotType DEF Idle, AttemptStates
<1>4. run.workflow # Late
  BY PresentType
<1> QED
  BY <1>2, <1>3, <1>4, RewriteStep

(* A run that may be rewritten has not been released. *)
LEMMA PausedView ==
    ASSUME TypeInv, ReleaseInv, Paused(run), Unreviewed(run)
    PROVE  /\ Present.stage \in {"generate", "rewrite", "fail", "closed", "stuck"}
           /\ Present.stage = "generate" =>
                  Doing.step = "start" \/ (Doing.step = "done" /\ ~Doing.ok)
           /\ Present.stage = "rewrite" /\ Doing.step = "done" => ~Doing.ok
           /\ Doing.kind = IF Present.stage \in Activities THEN Present.stage ELSE "idle"
           /\ ~Deep(Doing) /\ ~run.passed
           /\ \A c \in Channels : publishes[c] = "none"
<1>1. ~run.passed /\ \A c \in Channels : publishes[c] = "none"
  BY DEF Unreviewed
<1>2. Present.stage # "finish"
  BY <1>1 DEF ReleaseInv, Signed, Releasing
<1>3. Doing.kind = IF Present.stage \in Activities THEN Present.stage ELSE "idle"
  BY PresentType DEF ReleaseInv, Stand, Alone, Present, Doing
<1>4. /\ Present.stage \in {"generate", "rewrite", "fail", "closed", "stuck"}
      /\ Present.stage = "generate" =>
             Doing.step = "start" \/ (Doing.step = "done" /\ ~Doing.ok)
      /\ Present.stage = "rewrite" /\ Doing.step = "done" => ~Doing.ok
  <2>1. Present.stage \in Stages
    BY PresentType DEF WorkflowStates
  <2>2. run.status \in {"failed", "awaiting_brief_revision"}
    BY DEF Paused
  <2> QED
    BY <1>2, <2>1, <2>2 DEF ReleaseInv, Stand, Stands, Stages, Activities
<1>5. ~Deep(Doing)
  BY <1>3, <1>4 DEF Deep, Activities
<1> QED
  BY <1>1, <1>3, <1>4, <1>5

(* The run is left as it is. *)
LEMMA RewriteSame ==
    ASSUME TypeInv, ReleaseInv, run' = run, artifacts' = artifacts,
           publishes' = publishes, retry' = retry, Alone', Present' = Present,
           \/ Doing' = Doing
           \/ /\ Present.stage = "rewrite" /\ Doing'.kind = "rewrite"
              /\ Doing'.signal \in {NoSignal, Doing.signal}
              /\ Doing'.step = "done" /\ Doing'.ok => run.status = "pending"
    PROVE  ReleaseInv'
<1>1. CASE Doing' = Doing
  BY <1>1, SameReleases
<1>2. CASE /\ Present.stage = "rewrite" /\ Doing'.kind = "rewrite"
           /\ Doing'.signal \in {NoSignal, Doing.signal}
           /\ Doing'.step = "done" /\ Doing'.ok => run.status = "pending"
  <2>1. Stands(run', Present', Doing')
    BY <1>2 DEF ReleaseInv, Stand, Stands
  <2>2. run.status \in {"pending", "awaiting_brief_revision"}
    BY <1>2 DEF ReleaseInv, Stand, Stands
  <2>3. ~Deep(Doing') /\ Untouched
    BY <1>2 DEF Deep, Untouched
  <2> QED
    BY <1>2, <2>1, <2>2, <2>3, OwnQuietly DEF Closing
<1> QED
  BY <1>1, <1>2

(* The run moves on to the version of another brief. *)
LEMMA RewriteMoves ==
    ASSUME TypeInv, ReleaseInv, Paused(run), Unreviewed(run), run'.version = run.version + 1,
           run'.status = "pending", run'.passed = FALSE, artifacts' = artifacts,
           publishes' = publishes, retry' = retry, Alone', Present' = Present,
           \/ Doing' = Doing
           \/ Present.stage = "rewrite" /\ Doing'.kind = "rewrite" /\ Doing'.signal = NoSignal
    PROVE  ReleaseInv'
<1>1. Stands(run', Present', Doing')
  BY PausedView DEF ReleaseInv, Stand, Stands
<1>2. ~Deep(Doing')
  BY PausedView DEF Deep
<1>3. Drawn'
  BY <1>2, DrawnMoved DEF ReleaseInv
<1>4. ~Releasing(run', Present') /\ Present'.stage \notin {"record", "revalidate"}
  BY PausedView DEF Releasing
<1>5. Signed'
  BY <1>4, SignedMoved DEF ReleaseInv
<1>6. Sold' /\ Retried'
  BY PausedView, Unsold DEF ReleaseInv, Stand
<1> QED
  BY <1>1, <1>3, <1>5, <1>6 DEF ReleaseInv, Stand

LEMMA GiveUpReleases ==
    ASSUME TypeInv, ReleaseInv, NEW s \in Slots, GiveUp(s) PROVE ReleaseInv'
<1>1. /\ att[s].kind = "rewrite" /\ wf' = wf /\ artifacts' = artifacts
      /\ publishes' = publishes /\ retry' = retry /\ run \in Runs
      /\ run' = Status(run, "awaiting_brief_revision") /\ Answer(s, FALSE)
      /\ Paused(run) /\ Unreviewed(run)
  BY PresentType DEF GiveUp, At, world, Rewritable
<1>2. /\ run'.status = "awaiting_brief_revision" /\ run'.workflow = run.workflow /\ Untouched
  BY <1>1, StatusView DEF Untouched
<1>3. /\ Alone' /\ Present' = Present
      /\ \/ Doing' = Doing
         \/ /\ Present.stage = "rewrite" /\ Doing'.kind = "rewrite" /\ Doing'.step = "done"
            /\ Doing'.ok = FALSE /\ Doing'.signal = NoSignal
  BY <1>1, <1>2, RewriteAnswer DEF ReleaseInv, Stand
<1>4. Stands(run', Present', Doing')
  BY <1>1, <1>2, <1>3, PausedView DEF ReleaseInv, Stand, Stands
<1>5. ~Deep(Doing')
  BY <1>1, <1>3, PausedView DEF Deep
<1>6. Drawing(run', Present', Doing') => Drawing(run, Present, Doing)
  BY <1>1, <1>3 DEF Drawing, Redo, Paused
<1> QED
  BY <1>1, <1>2, <1>3, <1>4, <1>5, <1>6, PausedView, Quietly DEF Closing, Releasing

LEMMA RewriteNothingReleases ==
    ASSUME TypeInv, ReleaseInv, NEW s \in Slots, RewriteNothing(s) PROVE ReleaseInv'
<1>1. PICK ok \in BOOLEAN : ok <=> run.status = "pending"
  OBVIOUS
<1>2. (run.status = "pending") = ok
  BY <1>1
<1>3. /\ att[s].kind = "rewrite" /\ wf' = wf /\ artifacts' = artifacts
      /\ publishes' = publishes /\ retry' = retry /\ run' = run
      /\ Answer(s, ok)
  BY <1>2 DEF RewriteNothing, At, others, world
<1>4. /\ Alone' /\ Present' = Present
      /\ \/ Doing' = Doing
         \/ /\ Present.stage = "rewrite" /\ Doing'.kind = "rewrite" /\ Doing'.step = "done"
            /\ Doing'.ok = ok /\ Doing'.signal = NoSignal
  BY <1>3, RewriteAnswer DEF ReleaseInv, Stand
<1> QED
  BY <1>1, <1>3, <1>4, RewriteSame

LEMMA RewriteSupersededReleases ==
    ASSUME TypeInv, ReleaseInv, NEW s \in Slots, RewriteSuperseded(s) PROVE ReleaseInv'
<1>1. PICK ok \in BOOLEAN : ok <=> run.status = "pending"
  OBVIOUS
<1>2. (run.status = "pending") = ok
  BY <1>1
<1>3. /\ att[s].kind = "rewrite" /\ wf' = wf /\ artifacts' = artifacts
      /\ publishes' = publishes /\ retry' = retry /\ run' = run
      /\ Answer(s, ok)
  BY <1>2 DEF RewriteSuperseded, At, world
<1>4. /\ Alone' /\ Present' = Present
      /\ \/ Doing' = Doing
         \/ /\ Present.stage = "rewrite" /\ Doing'.kind = "rewrite" /\ Doing'.step = "done"
            /\ Doing'.ok = ok /\ Doing'.signal = NoSignal
  BY <1>3, RewriteAnswer DEF ReleaseInv, Stand
<1> QED
  BY <1>1, <1>3, <1>4, RewriteSame

LEMMA FallBackReleases ==
    ASSUME TypeInv, ReleaseInv, NEW s \in Slots, FallBack(s) PROVE ReleaseInv'
<1>1. /\ att[s].kind = "rewrite" /\ wf' = wf /\ artifacts' = artifacts
      /\ publishes' = publishes /\ retry' = retry /\ run \in Runs /\ Answer(s, TRUE)
      /\ Paused(run) /\ Unreviewed(run)
  BY PresentType DEF FallBack, At, world, Rewritable
<1>2. PICK c : c = Cleared(run)
  OBVIOUS
<1>3. c.version = run.version + 1 /\ c.passed = FALSE /\ c.workflow = run.workflow /\ DOMAIN c = DOMAIN run
  BY <1>1, <1>2 DEF Cleared, Runs
<1>4. PICK b : run' = [c EXCEPT !.brief = b, !.status = "pending", !.fallback = TRUE]
  BY <1>2 DEF FallBack
<1>5. /\ run'.version = run.version + 1 /\ run'.passed = FALSE /\ run'.status = "pending"
      /\ run'.workflow = run.workflow
  BY <1>1, <1>3, <1>4 DEF Runs
<1>6. /\ Alone' /\ Present' = Present
      /\ \/ Doing' = Doing
         \/ Present.stage = "rewrite" /\ Doing'.kind = "rewrite" /\ Doing'.signal = NoSignal
  BY <1>1, <1>5, RewriteAnswer DEF ReleaseInv, Stand
<1> QED
  BY <1>1, <1>5, <1>6, RewriteMoves

LEMMA RewriteAcceptedReleases ==
    ASSUME TypeInv, ReleaseInv, NEW s \in Slots, RewriteAccepted(s) PROVE ReleaseInv'
<1>1. /\ att[s].kind = "rewrite" /\ wf' = wf /\ artifacts' = artifacts
      /\ publishes' = publishes /\ retry' = retry /\ run \in Runs /\ Answer(s, TRUE)
      /\ Paused(run) /\ Unreviewed(run)
  BY PresentType DEF RewriteAccepted, At, world, Superseded
<1>2. PICK c : c = Cleared(run)
  OBVIOUS
<1>3. c.version = run.version + 1 /\ c.passed = FALSE /\ c.workflow = run.workflow /\ DOMAIN c = DOMAIN run
  BY <1>1, <1>2 DEF Cleared, Runs
<1>4. PICK b : run' = [c EXCEPT !.brief = b, !.status = "pending", !.ready = TRUE]
  BY <1>2 DEF RewriteAccepted
<1>5. /\ run'.version = run.version + 1 /\ run'.passed = FALSE /\ run'.status = "pending"
      /\ run'.workflow = run.workflow
  BY <1>1, <1>3, <1>4 DEF Runs
<1>6. /\ Alone' /\ Present' = Present
      /\ \/ Doing' = Doing
         \/ Present.stage = "rewrite" /\ Doing'.kind = "rewrite" /\ Doing'.signal = NoSignal
  BY <1>1, <1>5, RewriteAnswer DEF ReleaseInv, Stand
<1> QED
  BY <1>1, <1>5, <1>6, RewriteMoves

LEMMA ReserveRewriteReleases ==
    ASSUME TypeInv, ReleaseInv, NEW s \in Slots, ReserveRewrite(s) PROVE ReleaseInv'
<1>1. /\ att[s].kind = "rewrite" /\ wf' = wf /\ artifacts' = artifacts
      /\ publishes' = publishes /\ retry' = retry /\ run' = run
  BY DEF ReserveRewrite, At, world
<1>2. PICK y : y = [att[s] EXCEPT !.step = "answer", !.version = run.version,
                                  !.brief = run.brief, !.entry = Len(attempts')]
  OBVIOUS
<1>3. y.kind = "rewrite" /\ y.step = "answer" /\ y.signal = att[s].signal
  BY <1>1, <1>2, SlotType DEF AttemptStates
<1>4. att' = [att EXCEPT ![s] = y]
  BY <1>2 DEF ReserveRewrite
<1>5. /\ Alone' /\ Present' = Present
      /\ \/ Doing' = Doing
         \/ Present.stage = "rewrite" /\ Doing = att[s] /\ Doing' = y
  BY <1>1, <1>3, <1>4, RewriteStep DEF ReleaseInv, Stand
<1> QED
  BY <1>1, <1>3, <1>5, RewriteSame

LEMMA RewriteRejectedReleases ==
    ASSUME TypeInv, ReleaseInv, NEW s \in Slots, RewriteRejected(s) PROVE ReleaseInv'
<1>1. /\ att[s].kind = "rewrite" /\ wf' = wf /\ artifacts' = artifacts
      /\ publishes' = publishes /\ retry' = retry /\ run' = run /\ Goto(s, "start")
  BY DEF RewriteRejected, At, world
<1>2. PICK y : y = [att[s] EXCEPT !.step = "start"]
  OBVIOUS
<1>3. y.kind = "rewrite" /\ y.step = "start" /\ y.signal = att[s].signal
  BY <1>1, <1>2, SlotType DEF AttemptStates
<1>4. att' = [att EXCEPT ![s] = y]
  BY <1>1, <1>2 DEF Goto
<1>5. /\ Alone' /\ Present' = Present
      /\ \/ Doing' = Doing
         \/ Present.stage = "rewrite" /\ Doing = att[s] /\ Doing' = y
  BY <1>1, <1>3, <1>4, RewriteStep DEF ReleaseInv, Stand
<1> QED
  BY <1>1, <1>3, <1>5, RewriteSame

LEMMA ProviderErrorReleases ==
    ASSUME TypeInv, ReleaseInv, NEW s \in Slots, ProviderError(s) PROVE ReleaseInv'
<1>1. /\ att[s].kind = "rewrite" /\ artifacts' = artifacts
      /\ publishes' = publishes /\ retry' = retry /\ run' = run
  BY DEF ProviderError, At
<1>2. PICK final : Raise(s, final)
  BY DEF ProviderError
<1>3. CASE s = Late
  <2>1. att' = [att EXCEPT ![Late] = Idle] /\ wf' = wf
    BY <1>2, <1>3 DEF Raise
  <2>2. Alone' /\ Present' = Present /\ Doing' = Doing
    BY <1>1, <2>1, LateStep DEF ReleaseInv, Stand, Idle
  <2> QED
    BY <1>1, <2>2, SameReleases
<1>4. CASE s # Late
  <2>1. s = run.workflow
    BY <1>1, <1>4, Actors DEF ReleaseInv, Stand
  <2>2. Present.stage = "rewrite"
    BY <1>1, <2>1, PresentType DEF ReleaseInv, Stand, Alone, Present, Activities
  <2> QED
    BY <1>1, <1>2, <2>1, <2>2, RaiseReleases DEF Limited, Activities
<1> QED
  BY <1>3, <1>4

LEMMA RefusedReleases ==
    ASSUME TypeInv, ReleaseInv, NEW s \in Slots, Refused(s) PROVE ReleaseInv'
<1>1. s = run.workflow /\ Present.stage \in {"research", "screen", "generate"}
  BY Acting DEF Refused, ReleaseInv, Stand, Activities
<1>2. /\ Raise(s, TRUE) /\ artifacts' = artifacts
      /\ publishes' = publishes /\ retry' = retry /\ run' = run
  BY DEF Refused
<1> QED
  BY <1>1, <1>2, RaiseReleases DEF Limited, Activities

(* What an attempt does. *)
LEMMA AttemptReleases ==
    ASSUME TypeInv, ReleaseInv, NEW s \in Slots, Attempt(s) PROVE ReleaseInv'
BY ResearchReleases, StoreResearchReleases, ScreenReleases, BlockReleases, NoneSafeReleases,
   SelectReleases, GenerateReleases, WriteBriefReleases, DrawReleases, PrepareReleases,
   SettleReleases, HoldForBriefReleases, WriteListingsReleases, StorePackageReleases,
   RewriteNothingReleases, FallBackReleases, GiveUpReleases, ReserveRewriteReleases,
   RewriteSupersededReleases, RewriteRejectedReleases, RewriteAcceptedReleases,
   AutomaticReleases, RecordApprovalReleases, ReadApprovedReleases, StillValidReleases,
   RepriceReleases, UnavailableReleases, FinishReleases, MarkCancelledReleases,
   RecordRejectionReleases, MarkFailedReleases
   DEF Attempt

-----------------------------------------------------------------------------
(* What the workflow does next. *)

LEMMA FlowView ==
    ASSUME TypeInv, ReleaseInv, NEW w \in Workflows, wf[w].stage \notin {"unborn", "closed", "stuck"}
    PROVE  /\ w = run.workflow /\ wf[w] = Present /\ att[w] = Doing
           /\ Present \in WorkflowStates /\ run \in Runs
BY OwnFlow, PresentType DEF ReleaseInv, Stand, Present, Doing

(* Another stage of a workflow. *)
LEMMA StageView ==
    ASSUME NEW g \in WorkflowStates, NEW stage
    PROVE  LET f == [g EXCEPT !.stage = stage, !.tries = 0]
           IN /\ f.stage = stage /\ f.again = g.again /\ f.approval = g.approval
              /\ f.current = g.current /\ f.results = g.results
              /\ f.regenerate = g.regenerate
BY DEF WorkflowStates

(* The workflow enters a state without touching anything else. *)
LEMMA Enters ==
    ASSUME TypeInv, TypeInv', ReleaseInv, NEW f, Enter(run.workflow, f), run' = run,
           artifacts' = artifacts,
           {f.approval, f.current} \subseteq
               {NoSignal, Present.approval, Present.current, Doing.signal},
           f.stage \in {"research", "screen", "rewrite", "generate"} =>
               \/ Drawing(run, Present, Doing)
               \/ /\ f.stage = "generate" /\ f.regenerate
                  /\ run.status \in {"pending", "awaiting_approval"},
           \/ f.stage \in {"record", "revalidate"}
           \/ f.stage = "wait" /\ run.status = "publishing"
           => f.approval = NoSignal,
           Releasing(run, f) => Releasing(run, Present) /\ f.current = Present.current,
           ASSUME NEW a, a.step = "start", a.regenerate = f.regenerate PROVE Stands(run, f, a)
    PROVE  /\ Alone' /\ Present' = f /\ Stands(run', Present', Doing') /\ Drawn' /\ Signed'
<1>1. f \in Flows
  <2>1. wf' = [wf EXCEPT ![run.workflow] = f] /\ wf' \in [Workflows -> Flows]
    BY DEF Enter, TypeInv
  <2> QED
    BY <2>1, PresentType
<1>2. /\ Alone' /\ Present' = f /\ Doing'.step = "start"
      /\ Doing'.kind = IF f.stage \in Activities THEN f.stage ELSE "idle"
      /\ Doing'.signal \in {f.current, NoSignal}
      /\ f.stage \in Activities => /\ Doing'.signal = f.current
                                   /\ Doing'.regenerate = f.regenerate
  BY <1>1, EnterView DEF ReleaseInv, Stand
<1>3. Stands(run', Present', Doing')
  <2>1. PICK a : a = Doing'
    OBVIOUS
  <2>2. CASE f.stage \in Activities
    BY <1>2, <2>1, <2>2
  <2>3. CASE f.stage \notin Activities
    <3>1. PICK b : b = [step |-> "start", regenerate |-> f.regenerate]
      OBVIOUS
    <3>2. Stands(run, f, b)
      BY <3>1
    <3>3. f.stage \in {"unborn", "wait", "closed", "stuck"}
      BY <1>1, <2>3 DEF Flows, WorkflowStates, Stages
    <3> QED
      BY <1>2, <3>2, <3>3 DEF Stands
  <2> QED
    BY <2>2, <2>3
<1>4. Drawing(run', Present', Doing') => Drawing(run, Present, Doing)
  BY <1>2 DEF Drawing, Redo, Activities
<1>5. ~Deep(Doing')
  BY <1>2 DEF Deep
<1>6. Drawn'
  BY <1>4, <1>5, DrawnSame DEF ReleaseInv
<1>7. Package' = Package
  BY PackageSame
<1>8. Signed'
  <2>1. f.stage = "record" => Doing'.signal = f.current
    BY <1>2 DEF Activities
  <2> QED
    BY <1>2, <1>4, <1>7, <2>1, SignedSame DEF ReleaseInv
<1> QED
  BY <1>2, <1>3, <1>6, <1>8

(* Before anything is published. *)
LEMMA EntersEarly ==
    ASSUME TypeInv, TypeInv', ReleaseInv, NEW f, Enter(run.workflow, f), run' = run,
           artifacts' = artifacts, publishes' = publishes, retry' = retry,
           Present.stage \notin {"publish", "finish", "closed", "stuck"}, f.stage # "finish",
           f.results = Present.results,
           {f.approval, f.current} \subseteq
               {NoSignal, Present.approval, Present.current, Doing.signal},
           f.stage \in {"research", "screen", "rewrite", "generate"} =>
               \/ Drawing(run, Present, Doing)
               \/ /\ f.stage = "generate" /\ f.regenerate
                  /\ run.status \in {"pending", "awaiting_approval"},
           \/ f.stage \in {"record", "revalidate"}
           \/ f.stage = "wait" /\ run.status = "publishing"
           => f.approval = NoSignal,
           Releasing(run, f) => Releasing(run, Present) /\ f.current = Present.current,
           ASSUME NEW a, a.step = "start", a.regenerate = f.regenerate PROVE Stands(run, f, a)
    PROVE  ReleaseInv'
<1>1. /\ Alone' /\ Present' = f /\ Stands(run', Present', Doing') /\ Drawn' /\ Signed'
  BY Enters
<1>2. \A c \in Channels : publishes[c] = "none"
  BY NotSold DEF ReleaseInv
<1>3. run.status \notin {"published", "partially_published", "verification_required"}
  BY <1>2 DEF ReleaseInv, Sold
<1>4. Sold' /\ Retried'
  BY <1>1, <1>2, <1>3, Unsold DEF ReleaseInv, Stand
<1> QED
  BY <1>1, <1>4 DEF ReleaseInv, Stand

LEMMA AfterResearchReleases ==
    ASSUME TypeInv, TypeInv', ReleaseInv, NEW w \in Workflows, AfterResearch(w)
    PROVE  ReleaseInv'
<1>1. /\ w = run.workflow /\ Present = wf[w] /\ Present \in WorkflowStates
      /\ Present.stage = "research" /\ Doing.step = "done"
  BY FlowView DEF AfterResearch, Heard
<1>2. PICK f : f = [Present EXCEPT !.stage = "screen", !.tries = 0]
  OBVIOUS
<1>3. /\ f.stage = "screen" /\ f.again = Present.again /\ f.approval = Present.approval
      /\ f.current = Present.current /\ f.results = Present.results
  BY <1>1, <1>2, StageView
<1>4. /\ Enter(run.workflow, f) /\ run' = run /\ artifacts' = artifacts
      /\ publishes' = publishes /\ retry' = retry
  BY <1>1, <1>2 DEF AfterResearch, To, steps, world
<1>5. ASSUME NEW a, a.step = "start", a.regenerate = f.regenerate PROVE Stands(run, f, a)
  BY <1>1, <1>3, <1>5 DEF ReleaseInv, Stand, Stands
<1>6. Drawing(run, Present, Doing) /\ ~Releasing(run, f)
  BY <1>1, <1>3 DEF Drawing, Redo, Releasing, ReleaseInv, Stand, Stands
<1> QED
  BY <1>1, <1>3, <1>4, <1>5, <1>6, EntersEarly

(* A package is generated as it was left. *)
LEMMA GenerationView ==
    ASSUME NEW g \in WorkflowStates, NEW regenerate, NEW preserve
    PROVE  LET f == Generation(g, regenerate, preserve)
           IN /\ f.stage = "generate" /\ f.again = g.again /\ f.approval = g.approval
              /\ f.current = g.current /\ f.results = g.results
              /\ f.regenerate = regenerate
BY DEF Generation, WorkflowStates

LEMMA AfterScreenReleases ==
    ASSUME TypeInv, TypeInv', ReleaseInv, NEW w \in Workflows, AfterScreen(w)
    PROVE  ReleaseInv'
<1>1. /\ w = run.workflow /\ Present = wf[w] /\ Doing = att[w] /\ Present \in WorkflowStates
      /\ Present.stage = "screen" /\ Doing.step = "done"
  BY FlowView DEF AfterScreen, Heard
<1>2. PICK f : f = IF Doing.ok THEN Generation(Present, FALSE, TRUE)
                   ELSE [Present EXCEPT !.stage = "closed"]
  OBVIOUS
<1>3. /\ f.again = Present.again /\ f.approval = Present.approval
      /\ f.current = Present.current /\ f.results = Present.results
      /\ f.stage = IF Doing.ok THEN "generate" ELSE "closed"
  <2>1. CASE Doing.ok
    BY <1>1, <1>2, <2>1 DEF Generation, WorkflowStates
  <2>2. CASE ~Doing.ok
    BY <1>1, <1>2, <2>2 DEF WorkflowStates
  <2> QED
    BY <2>1, <2>2
<1>4. /\ Enter(run.workflow, f) /\ run' = run /\ artifacts' = artifacts
      /\ publishes' = publishes /\ retry' = retry
  BY <1>1, <1>2 DEF AfterScreen, steps, world
<1>5. ASSUME NEW a, a.step = "start", a.regenerate = f.regenerate PROVE Stands(run, f, a)
  BY <1>1, <1>3, <1>5 DEF ReleaseInv, Stand, Stands
<1>6. Drawing(run, Present, Doing) /\ ~Releasing(run, f)
  BY <1>1, <1>3 DEF Drawing, Redo, Releasing, ReleaseInv, Stand, Stands
<1> QED
  BY <1>1, <1>3, <1>4, <1>5, <1>6, EntersEarly

LEMMA AfterGenerateReleases ==
    ASSUME TypeInv, TypeInv', ReleaseInv, NEW w \in Workflows, AfterGenerate(w)
    PROVE  ReleaseInv'
<1>1. /\ w = run.workflow /\ Present = wf[w] /\ Doing = att[w] /\ Present \in WorkflowStates
      /\ Present.stage = "generate" /\ Doing.step = "done"
  BY FlowView DEF AfterGenerate, Heard
<1>2. PICK stage : stage = IF Doing.ok THEN "automatic" ELSE "rewrite"
  OBVIOUS
<1>3. PICK f : f = [Present EXCEPT !.stage = stage, !.tries = 0]
  OBVIOUS
<1>4. /\ f.again = Present.again /\ f.approval = Present.approval
      /\ f.current = Present.current /\ f.results = Present.results /\ f.stage = stage
  BY <1>1, <1>3, StageView
<1>5. /\ Enter(run.workflow, f) /\ run' = run /\ artifacts' = artifacts
      /\ publishes' = publishes /\ retry' = retry
  BY <1>1, <1>2, <1>3 DEF AfterGenerate, To, steps, world
<1>6. ASSUME NEW a, a.step = "start", a.regenerate = f.regenerate PROVE Stands(run, f, a)
  BY <1>1, <1>2, <1>4, <1>6 DEF ReleaseInv, Stand, Stands
<1>7. Drawing(run, Present, Doing) /\ ~Releasing(run, f)
  BY <1>1, <1>2, <1>4 DEF Drawing, Redo, Releasing, ReleaseInv, Stand, Stands
<1>8. f.stage = "automatic" \/ f.stage = "rewrite"
  BY <1>2, <1>4
<1>9. {f.approval, f.current} \subseteq
          {NoSignal, Present.approval, Present.current, Doing.signal}
  BY <1>4
<1> QED
  BY <1>1, <1>4, <1>5, <1>6, <1>7, <1>8, <1>9, EntersEarly

LEMMA AfterRewriteReleases ==
    ASSUME TypeInv, TypeInv', ReleaseInv, NEW w \in Workflows, AfterRewrite(w)
    PROVE  ReleaseInv'
<1>1. /\ w = run.workflow /\ Present = wf[w] /\ Doing = att[w] /\ Present \in WorkflowStates
      /\ Present.stage = "rewrite" /\ Doing.step = "done"
  BY FlowView DEF AfterRewrite, Heard
<1>2. PICK f : f = IF Doing.ok THEN Generation(Present, FALSE, TRUE)
                   ELSE [Present EXCEPT !.stage = "closed"]
  OBVIOUS
<1>3. /\ f.again = Present.again /\ f.approval = Present.approval
      /\ f.current = Present.current /\ f.results = Present.results
      /\ f.stage = IF Doing.ok THEN "generate" ELSE "closed"
  <2>1. CASE Doing.ok
    BY <1>1, <1>2, <2>1 DEF Generation, WorkflowStates
  <2>2. CASE ~Doing.ok
    BY <1>1, <1>2, <2>2 DEF WorkflowStates
  <2> QED
    BY <2>1, <2>2
<1>4. /\ Enter(run.workflow, f) /\ run' = run /\ artifacts' = artifacts
      /\ publishes' = publishes /\ retry' = retry
  BY <1>1, <1>2 DEF AfterRewrite, steps, world
<1>5. ASSUME NEW a, a.step = "start", a.regenerate = f.regenerate PROVE Stands(run, f, a)
  BY <1>1, <1>3, <1>5 DEF ReleaseInv, Stand, Stands
<1>6. Drawing(run, Present, Doing) /\ ~Releasing(run, f)
  BY <1>1, <1>3 DEF Drawing, Redo, Releasing, ReleaseInv, Stand, Stands
<1> QED
  BY <1>1, <1>3, <1>4, <1>5, <1>6, EntersEarly

LEMMA AfterAutomaticReleases ==
    ASSUME TypeInv, TypeInv', ReleaseInv, NEW w \in Workflows, AfterAutomatic(w)
    PROVE  ReleaseInv'
<1>1. /\ w = run.workflow /\ Present = wf[w] /\ Doing = att[w] /\ Present \in WorkflowStates
      /\ Present.stage = "automatic" /\ Doing.step = "done"
  BY FlowView DEF AfterAutomatic, Heard
<1>2. PICK sig : sig = IF Present.approval = NoSignal THEN Doing.signal ELSE Present.approval
  OBVIOUS
<1>3. PICK f : f = [Present EXCEPT !.stage = "wait", !.tries = 0, !.approval = sig]
  OBVIOUS
<1>4. /\ f.again = Present.again /\ f.approval = sig
      /\ f.current = Present.current /\ f.results = Present.results /\ f.stage = "wait"
  BY <1>1, <1>3 DEF WorkflowStates
<1>5. /\ Enter(run.workflow, f) /\ run' = run /\ artifacts' = artifacts
      /\ publishes' = publishes /\ retry' = retry
  BY <1>1, <1>2, <1>3 DEF AfterAutomatic, steps, world
<1>6. ASSUME NEW a, a.step = "start", a.regenerate = f.regenerate PROVE Stands(run, f, a)
  BY <1>1, <1>4, <1>6 DEF ReleaseInv, Stand, Stands
<1>7. run.status = "awaiting_approval" /\ ~Releasing(run, f)
  BY <1>1, <1>4 DEF Releasing, ReleaseInv, Stand, Stands
<1>8. {f.approval, f.current} \subseteq
          {NoSignal, Present.approval, Present.current, Doing.signal}
  BY <1>2, <1>4
<1> QED
  BY <1>1, <1>4, <1>5, <1>6, <1>7, <1>8, EntersEarly

LEMMA TakeEndReleases ==
    ASSUME TypeInv, TypeInv', ReleaseInv, NEW w \in Workflows, TakeCancel(w) \/ TakeReject(w)
    PROVE  ReleaseInv'
<1>1. PICK stage \in {"cancel", "reject"} : wf[w].stage = "wait" /\ To(w, stage) /\ UNCHANGED steps
  BY DEF TakeCancel, TakeReject
<1>2. /\ w = run.workflow /\ Present = wf[w] /\ Doing = att[w] /\ Present \in WorkflowStates
      /\ Present.stage = "wait"
  BY <1>1, FlowView
<1>3. PICK f : f = [Present EXCEPT !.stage = stage, !.tries = 0]
  OBVIOUS
<1>4. /\ f.again = Present.again /\ f.approval = Present.approval
      /\ f.current = Present.current /\ f.results = Present.results /\ f.stage = stage
  BY <1>2, <1>3, StageView
<1>5. /\ Enter(run.workflow, f) /\ run' = run /\ artifacts' = artifacts
      /\ publishes' = publishes /\ retry' = retry
  BY <1>1, <1>2, <1>3 DEF To, steps, world
<1>6. ASSUME NEW a, a.step = "start", a.regenerate = f.regenerate PROVE Stands(run, f, a)
  BY <1>1, <1>2, <1>4, <1>6 DEF ReleaseInv, Stand, Stands
<1>7. Releasing(run, f) => Releasing(run, Present)
  BY <1>1, <1>4 DEF Releasing
<1> QED
  BY <1>1, <1>2, <1>4, <1>5, <1>6, <1>7, EntersEarly

LEMMA TakeRegenerateReleases ==
    ASSUME TypeInv, TypeInv', ReleaseInv, NEW w \in Workflows, TakeRegenerate(w)
    PROVE  ReleaseInv'
<1>1. /\ w = run.workflow /\ Present = wf[w] /\ Doing = att[w] /\ Present \in WorkflowStates
      /\ Present.stage = "wait" /\ Present.again
  BY FlowView DEF TakeRegenerate
<1>2. PICK f : f = Generation([Present EXCEPT !.again = FALSE], TRUE, FALSE)
  OBVIOUS
<1>3. /\ f.again = FALSE /\ f.approval = Present.approval /\ f.regenerate = TRUE
      /\ f.current = Present.current /\ f.results = Present.results /\ f.stage = "generate"
  BY <1>1, <1>2 DEF Generation, WorkflowStates
<1>4. /\ Enter(run.workflow, f) /\ run' = run /\ artifacts' = artifacts
      /\ publishes' = publishes /\ retry' = retry
  BY <1>1, <1>2 DEF TakeRegenerate, steps, world
<1>5. run.status = "awaiting_approval"
  BY <1>1 DEF ReleaseInv, Stand, Stands
<1>6. ASSUME NEW a, a.step = "start", a.regenerate = f.regenerate PROVE Stands(run, f, a)
  BY <1>1, <1>3, <1>5, <1>6 DEF Stands
<1>7. ~Releasing(run, f)
  BY <1>3, <1>5 DEF Releasing
<1> QED
  BY <1>1, <1>3, <1>4, <1>5, <1>6, <1>7, EntersEarly

LEMMA TakeApprovalReleases ==
    ASSUME TypeInv, TypeInv', ReleaseInv, NEW w \in Workflows, TakeApproval(w)
    PROVE  ReleaseInv'
<1>1. /\ w = run.workflow /\ Present = wf[w] /\ Doing = att[w] /\ Present \in WorkflowStates
      /\ Present.stage = "wait" /\ ~Present.again /\ Present.approval # NoSignal
  BY FlowView DEF TakeApproval
<1>2. PICK f : f = [Present EXCEPT !.stage = "record", !.current = Present.approval,
                                   !.approval = NoSignal]
  OBVIOUS
<1>3. /\ f.again = Present.again /\ f.approval = NoSignal
      /\ f.current = Present.approval /\ f.results = Present.results /\ f.stage = "record"
  BY <1>1, <1>2 DEF WorkflowStates
<1>4. /\ Enter(run.workflow, f) /\ run' = run /\ artifacts' = artifacts
      /\ publishes' = publishes /\ retry' = retry
  BY <1>1, <1>2 DEF TakeApproval, steps, world
<1>5. run.status = "awaiting_approval"
  BY <1>1 DEF ReleaseInv, Stand, Stands, Signed
<1>6. ASSUME NEW a, a.step = "start", a.regenerate = f.regenerate PROVE Stands(run, f, a)
  BY <1>1, <1>3, <1>5, <1>6 DEF Stands
<1>7. ~Releasing(run, f)
  BY <1>3, <1>5 DEF Releasing
<1> QED
  BY <1>1, <1>3, <1>4, <1>5, <1>6, <1>7, EntersEarly

LEMMA AfterRecordReleases ==
    ASSUME TypeInv, TypeInv', ReleaseInv, NEW w \in Workflows, AfterRecord(w)
    PROVE  ReleaseInv'
<1>1. /\ w = run.workflow /\ Present = wf[w] /\ Doing = att[w] /\ Present \in WorkflowStates
      /\ Present.stage = "record" /\ Doing.step = "done"
  BY FlowView DEF AfterRecord, Heard
<1>2. PICK f : /\ Enter(w, f)
               /\ \/ Doing.ok /\ f = [Present EXCEPT !.stage = "revalidate", !.tries = 0]
                  \/ ~Doing.ok /\ f = [Present EXCEPT !.stage = "wait", !.tries = 0]
                  \/ /\ ~Doing.ok
                     /\ f = [[Present EXCEPT !.stage = "fail", !.tries = 0]
                                 EXCEPT !.invalid = TRUE]
  BY <1>1 DEF AfterRecord, To, Failed, Invalidated
<1>4. /\ f.again = Present.again /\ f.approval = Present.approval
      /\ f.current = Present.current /\ f.results = Present.results
      /\ f.stage \in {"revalidate", "fail", "wait"}
      /\ f.stage = "revalidate" <=> Doing.ok
  <2>1. CASE Doing.ok /\ f = [Present EXCEPT !.stage = "revalidate", !.tries = 0]
    BY <1>1, <2>1 DEF WorkflowStates
  <2>2. CASE ~Doing.ok /\ f = [Present EXCEPT !.stage = "wait", !.tries = 0]
    BY <1>1, <2>2 DEF WorkflowStates
  <2>3. CASE /\ ~Doing.ok
             /\ f = [[Present EXCEPT !.stage = "fail", !.tries = 0] EXCEPT !.invalid = TRUE]
    BY <1>1, <2>3 DEF WorkflowStates
  <2> QED
    BY <1>2, <2>1, <2>2, <2>3
<1>5. /\ Enter(run.workflow, f) /\ run' = run /\ artifacts' = artifacts
      /\ publishes' = publishes /\ retry' = retry
  BY <1>1, <1>2 DEF AfterRecord, steps, world
<1>6. ASSUME NEW a, a.step = "start", a.regenerate = f.regenerate PROVE Stands(run, f, a)
  BY <1>1, <1>4, <1>6 DEF ReleaseInv, Stand, Stands
<1>7. Present.approval = NoSignal
  BY <1>1 DEF ReleaseInv, Signed
<1>8. Releasing(run, f) => Releasing(run, Present)
  BY <1>4 DEF Releasing
<1>10. {f.approval, f.current} \subseteq
           {NoSignal, Present.approval, Present.current, Doing.signal}
  BY <1>4
<1> QED
  BY <1>1, <1>4, <1>5, <1>6, <1>7, <1>8, <1>10, EntersEarly

LEMMA AfterRevalidateReleases ==
    ASSUME TypeInv, TypeInv', ReleaseInv, NEW w \in Workflows, AfterRevalidate(w)
    PROVE  ReleaseInv'
<1>1. /\ w = run.workflow /\ Present = wf[w] /\ Doing = att[w] /\ Present \in WorkflowStates
      /\ Present.stage = "revalidate" /\ Doing.step = "done"
  BY FlowView DEF AfterRevalidate, Heard
<1>2. PICK f : /\ Enter(w, f)
               /\ \/ Doing.ok /\ f = [Present EXCEPT !.stage = "publish", !.tries = 0]
                  \/ ~Doing.ok /\ f = [Present EXCEPT !.stage = "wait", !.tries = 0]
                  \/ /\ ~Doing.ok
                     /\ f = [[[Present EXCEPT !.stage = "fail", !.tries = 0]
                                 EXCEPT !.invalid = TRUE] EXCEPT !.reapprovals = 2]
                  \/ /\ ~Doing.ok
                     /\ f = [Present EXCEPT !.stage = "reapprove", !.tries = 0,
                                            !.reapprovals = Present.reapprovals + 1]
  BY <1>1 DEF AfterRevalidate, To, Failed, Invalidated
<1>3. /\ f.again = Present.again /\ f.approval = Present.approval
      /\ f.current = Present.current /\ f.results = Present.results
      /\ f.stage \in {"publish", "wait", "fail", "reapprove"}
      /\ f.stage = "publish" <=> Doing.ok
  <2>1. CASE Doing.ok /\ f = [Present EXCEPT !.stage = "publish", !.tries = 0]
    BY <1>1, <2>1 DEF WorkflowStates
  <2>2. CASE ~Doing.ok /\ f = [Present EXCEPT !.stage = "wait", !.tries = 0]
    BY <1>1, <2>2 DEF WorkflowStates
  <2>3. CASE /\ ~Doing.ok
             /\ f = [[[Present EXCEPT !.stage = "fail", !.tries = 0]
                         EXCEPT !.invalid = TRUE] EXCEPT !.reapprovals = 2]
    BY <1>1, <2>3 DEF WorkflowStates
  <2>4. CASE /\ ~Doing.ok
             /\ f = [Present EXCEPT !.stage = "reapprove", !.tries = 0,
                                    !.reapprovals = Present.reapprovals + 1]
    BY <1>1, <2>4 DEF WorkflowStates
  <2> QED
    BY <1>2, <2>1, <2>2, <2>3, <2>4
<1>4. /\ Enter(run.workflow, f) /\ run' = run /\ artifacts' = artifacts
      /\ publishes' = publishes /\ retry' = retry
  BY <1>1, <1>2 DEF AfterRevalidate, steps, world
<1>5. /\ Doing.ok => run.status = "publishing"
      /\ ~Doing.ok => run.status = "awaiting_approval"
  BY <1>1 DEF ReleaseInv, Stand, Stands
<1>6. ASSUME NEW a, a.step = "start", a.regenerate = f.regenerate PROVE Stands(run, f, a)
  BY <1>1, <1>3, <1>5, <1>6 DEF ReleaseInv, Stand, Stands
<1>7. Present.approval = NoSignal
  BY <1>1 DEF ReleaseInv, Signed
<1>8. Releasing(run, f) => Releasing(run, Present)
  BY <1>3, <1>5 DEF Releasing
<1> QED
  BY <1>1, <1>3, <1>4, <1>6, <1>7, <1>8, EntersEarly

LEMMA AfterReapproveReleases ==
    ASSUME TypeInv, TypeInv', ReleaseInv, NEW w \in Workflows, AfterReapprove(w)
    PROVE  ReleaseInv'
<1>1. /\ w = run.workflow /\ Present = wf[w] /\ Doing = att[w] /\ Present \in WorkflowStates
      /\ Present.stage = "reapprove" /\ Doing.step = "done"
  BY FlowView DEF AfterReapprove, Heard
<1>2. PICK f : /\ Enter(w, f)
               /\ \/ f = [[Present EXCEPT !.stage = "fail", !.tries = 0] EXCEPT !.invalid = TRUE]
                  \/ f = [Present EXCEPT !.stage = "wait", !.tries = 0, !.approval = Doing.signal]
  BY <1>1 DEF AfterReapprove, Failed, Invalidated
<1>3. /\ f.again = Present.again /\ f.approval \in {Present.approval, Doing.signal}
      /\ f.current = Present.current /\ f.results = Present.results
      /\ f.stage \in {"wait", "fail"}
  BY <1>1, <1>2 DEF WorkflowStates
<1>4. /\ Enter(run.workflow, f) /\ run' = run /\ artifacts' = artifacts
      /\ publishes' = publishes /\ retry' = retry
  BY <1>1, <1>2 DEF AfterReapprove, steps, world
<1>5. run.status = "awaiting_approval"
  BY <1>1 DEF ReleaseInv, Stand, Stands
<1>6. ASSUME NEW a, a.step = "start", a.regenerate = f.regenerate PROVE Stands(run, f, a)
  BY <1>1, <1>3, <1>5, <1>6 DEF ReleaseInv, Stand, Stands
<1>7. ~Releasing(run, f)
  BY <1>3, <1>5 DEF Releasing
<1>8. {f.approval, f.current} \subseteq
          {NoSignal, Present.approval, Present.current, Doing.signal}
  BY <1>3
<1> QED
  BY <1>1, <1>3, <1>4, <1>5, <1>6, <1>7, <1>8, EntersEarly

(* Leaving the release: what was sold stays known. *)
LEMMA AfterPublishReleases ==
    ASSUME TypeInv, TypeInv', ReleaseInv, NEW w \in Workflows, AfterPublish(w)
    PROVE  ReleaseInv'
<1>1. /\ w = run.workflow /\ Present = wf[w] /\ Doing = att[w] /\ Present \in WorkflowStates
      /\ Present.stage = "publish"
      /\ \A c \in Present.current.channels : Present.results[c] # "none"
  BY FlowView DEF AfterPublish
<1>2. PICK f : f = [Present EXCEPT !.stage = "finish", !.tries = 0]
  OBVIOUS
<1>3. /\ f.again = Present.again /\ f.approval = Present.approval
      /\ f.current = Present.current /\ f.results = Present.results /\ f.stage = "finish"
  BY <1>1, <1>2, StageView
<1>4. /\ Enter(run.workflow, f) /\ run' = run /\ artifacts' = artifacts
      /\ publishes' = publishes /\ retry' = retry
  BY <1>1, <1>2 DEF AfterPublish, To, steps, world
<1>5. run.status = "publishing"
  BY <1>1 DEF ReleaseInv, Stand, Stands
<1>6. ASSUME NEW a, a.step = "start", a.regenerate = f.regenerate PROVE Stands(run, f, a)
  BY <1>1, <1>3, <1>5, <1>6 DEF ReleaseInv, Stand, Stands
<1>7. Releasing(run, Present)
  BY <1>1 DEF Releasing
<1>8. /\ Alone' /\ Present' = f /\ Stands(run', Present', Doing') /\ Drawn' /\ Signed'
  BY <1>1, <1>3, <1>4, <1>5, <1>6, <1>7, Enters
<1>9. \A c \in Channels : retry[c].step = "idle"
  BY <1>1, NotRetried DEF ReleaseInv, Stand
<1>10. Retried'
  BY <1>4, <1>9 DEF Retried
<1>11. Sold'
  BY <1>1, <1>3, <1>4, <1>5, <1>8, <1>9 DEF ReleaseInv, Sold, Approved
<1> QED
  BY <1>8, <1>10, <1>11 DEF ReleaseInv, Stand

LEMMA CloseReleases ==
    ASSUME TypeInv, TypeInv', ReleaseInv, NEW w \in Workflows, Close(w)
    PROVE  ReleaseInv'
<1>1. /\ w = run.workflow /\ Present = wf[w] /\ Doing = att[w] /\ Present \in WorkflowStates
      /\ Present.stage \in {"finish", "cancel", "reject", "fail"} /\ Doing.step = "done"
  BY FlowView DEF Close
<1>2. PICK f : /\ Enter(w, f) /\ UNCHANGED steps
               /\ \/ f = [Present EXCEPT !.stage = "closed", !.tries = 0]
                  \/ f = [Present EXCEPT !.stage = "stuck", !.tries = 0]
  BY <1>1 DEF Close, To
<1>3. /\ f.again = Present.again /\ f.approval = Present.approval
      /\ f.current = Present.current /\ f.results = Present.results
      /\ f.stage \in {"closed", "stuck"}
  <2>1. CASE f = [Present EXCEPT !.stage = "closed", !.tries = 0]
    BY <1>1, <2>1, StageView
  <2>2. CASE f = [Present EXCEPT !.stage = "stuck", !.tries = 0]
    BY <1>1, <2>2, StageView
  <2> QED
    BY <1>2, <2>1, <2>2
<1>4. /\ Enter(run.workflow, f) /\ run' = run /\ artifacts' = artifacts
      /\ publishes' = publishes /\ retry' = retry
  BY <1>1, <1>2 DEF steps, world
<1>5. run.status \notin {"working", "awaiting_approval", "publishing"}
  BY <1>1 DEF ReleaseInv, Stand, Stands, Ended
<1>6. ASSUME NEW a, a.step = "start", a.regenerate = f.regenerate PROVE Stands(run, f, a)
  BY <1>1, <1>3, <1>5, <1>6 DEF Stands
<1>7. ~Releasing(run, f)
  BY <1>3, <1>5 DEF Releasing
<1>8. /\ Alone' /\ Present' = f /\ Stands(run', Present', Doing') /\ Drawn' /\ Signed'
  BY <1>1, <1>3, <1>4, <1>5, <1>6, <1>7, Enters
<1>9. \A c \in Channels : retry[c].step = "idle"
  BY <1>1, NotRetried DEF ReleaseInv, Stand
<1>10. Retried'
  BY <1>4, <1>9 DEF Retried
<1>11. Sold'
  BY <1>1, <1>3, <1>4, <1>8, <1>9 DEF ReleaseInv, Sold, Approved
<1> QED
  BY <1>8, <1>10, <1>11 DEF ReleaseInv, Stand

(* A channel is published; what was published before stays. *)
LEMMA PublishReleases ==
    ASSUME TypeInv, TypeInv', ReleaseInv, NEW w \in Workflows, NEW c \in Channels, Publish(w, c)
    PROVE  ReleaseInv'
<1>1. /\ w = run.workflow /\ Present = wf[w] /\ Doing = att[w] /\ Present \in WorkflowStates
      /\ Present.stage = "publish" /\ w \in Workflows
      /\ c \in Present.current.channels /\ Present.results[c] = "none"
  BY FlowView DEF Publish
<1>2. PICK result \in PublishStatuses \ {"none"} :
          Published(c, result) /\ wf' = [wf EXCEPT ![w].results[c] = publishes'[c]]
  BY DEF Publish
<1>3. /\ run' = run /\ att' = att /\ artifacts' = artifacts /\ retry' = retry
  BY DEF Publish, world
<1>4. PICK f : f = [Present EXCEPT !.results[c] = publishes'[c]]
  OBVIOUS
<1>5. /\ f.stage = "publish" /\ f.again = Present.again /\ f.approval = Present.approval
      /\ f.current = Present.current /\ f.regenerate = Present.regenerate
      /\ f.results = [Present.results EXCEPT ![c] = publishes'[c]]
  BY <1>1, <1>4 DEF WorkflowStates
<1>6. wf' = [wf EXCEPT ![run.workflow] = f]
  BY <1>1, <1>2, <1>4
<1>7. Present' = f /\ Doing' = Doing
  BY <1>1, <1>3, <1>6, PresentType DEF Present, Doing
<1>8. Alone'
  <2>1. \A v \in Workflows : wf'[v].stage = wf[v].stage
    BY <1>1, <1>5, <1>6, PresentType
  <2> QED
    BY <1>3, <2>1 DEF ReleaseInv, Stand, Alone
<1>9. Stands(run', Present', Doing')
  BY <1>1, <1>3, <1>5, <1>7 DEF ReleaseInv, Stand, Stands
<1>10. \A d \in Channels : retry[d].step = "idle"
  BY <1>1, NotRetried DEF ReleaseInv, Stand
<1>11. Retried'
  BY <1>3, <1>10 DEF Retried
<1>12. ~Drawing(run', Present', Doing') /\ ~Deep(Doing')
  <2>1. Doing.kind = "publish"
    BY <1>1 DEF ReleaseInv, Stand, Alone, Activities
  <2> QED
    BY <1>5, <1>7, <2>1 DEF Drawing, Deep
<1>13. Drawn'
  BY <1>3, <1>12, DrawnSame DEF ReleaseInv
<1>14. Package' = Package
  BY <1>3, PackageSame
<1>15. Signed'
  <2>1. Releasing(run, Present)
    BY <1>1 DEF Releasing
  <2>2. run.status = "publishing"
    BY <1>1 DEF ReleaseInv, Stand, Stands
  <2> QED
    BY <1>1, <1>3, <1>5, <1>7, <1>12, <1>14, <2>1, SignedSame DEF ReleaseInv
<1>16. /\ publishes \in [Channels -> PublishStatuses]
       /\ Present.results \in [Channels -> PublishStatuses]
  BY <1>1 DEF TypeInv, TypeOK, WorkflowStates
<1>17. /\ publishes'[c] # "none" /\ f.results[c] = publishes'[c]
       /\ publishes[c] = "succeeded" => publishes'[c] = "succeeded"
       /\ \A d \in Channels : d # c => /\ publishes'[d] = publishes[d]
                                       /\ f.results[d] = Present.results[d]
  BY <1>2, <1>5, <1>16 DEF Published, PublishStatuses
<1>18. Sold'
  <2>1. run.status = "publishing" /\ Approved(run) /\ run.passed
    BY <1>1 DEF ReleaseInv, Stand, Stands, Signed, Releasing
  <2>2. \A d \in Channels : Present'.results[d] # "none" => publishes'[d] = Present'.results[d]
    BY <1>1, <1>7, <1>17 DEF ReleaseInv, Sold
  <2> QED
    BY <1>3, <1>5, <1>7, <1>10, <2>1, <2>2 DEF Sold, Approved
<1> QED
  BY <1>8, <1>9, <1>11, <1>13, <1>15, <1>18 DEF ReleaseInv, Stand

(* What a workflow does. *)
LEMMA FlowReleases ==
    ASSUME TypeInv, TypeInv', ReleaseInv, NEW w \in Workflows, Flow(w) PROVE ReleaseInv'
BY AfterResearchReleases, AfterScreenReleases, AfterGenerateReleases, AfterRewriteReleases,
   AfterAutomaticReleases, TakeEndReleases, TakeRegenerateReleases, TakeApprovalReleases,
   AfterRecordReleases, AfterRevalidateReleases, AfterReapproveReleases,
   AfterPublishReleases, CloseReleases, PublishReleases
   DEF Flow

-----------------------------------------------------------------------------
(* Attempts that are cut off or given up, and a world that changes. *)

(* An activity without a limit is begun again as it was. *)
LEMMA RestartReleases ==
    ASSUME TypeInv, TypeInv', ReleaseInv, Enter(run.workflow, Present), run' = run,
           artifacts' = artifacts, publishes' = publishes, retry' = retry,
           Present.stage \in {"record", "finish", "cancel", "reject", "fail"}
    PROVE  ReleaseInv'
<1>1. PICK f : f = Present
  OBVIOUS
<1>2. ASSUME NEW a, a.step = "start", a.regenerate = f.regenerate PROVE Stands(run, f, a)
  BY <1>1, <1>2 DEF ReleaseInv, Stand, Stands
<1>3. f.stage = "record" => f.approval = NoSignal
  BY <1>1 DEF ReleaseInv, Signed
<1>4. /\ Alone' /\ Present' = f /\ Stands(run', Present', Doing') /\ Drawn' /\ Signed'
  <2>1. Enter(run.workflow, f)
    BY <1>1
  <2> QED
    BY <1>1, <1>2, <1>3, <2>1, Enters
<1>5. \A c \in Channels : retry[c].step = "idle"
  BY NotRetried DEF ReleaseInv, Stand
<1>6. Retried'
  BY <1>5 DEF Retried
<1>7. Sold'
  BY <1>1, <1>4, <1>5 DEF ReleaseInv, Sold, Approved
<1> QED
  BY <1>4, <1>6, <1>7 DEF ReleaseInv, Stand

LEMMA CutOffReleases ==
    ASSUME TypeInv, TypeInv', ReleaseInv, NEW w \in Workflows, CutOff(w)
    PROVE  ReleaseInv'
<1>1. /\ att[w].kind \in Activities \ {"publish"} /\ wf[w].stage = att[w].kind
      /\ wf[w].stage \notin {"unborn", "closed", "stuck"}
  <2>1. att[w].kind = IF wf[w].stage \in Activities THEN wf[w].stage ELSE "idle"
    BY DEF ReleaseInv, Stand, Alone
  <2>2. att[w].kind \notin {"idle", "publish"}
    BY DEF CutOff
  <2> QED
    BY <2>1, <2>2 DEF Activities
<1>2. w = run.workflow /\ wf[w] = Present
  BY <1>1, FlowView
<1>3. /\ Enter(run.workflow, Again(run.workflow)) /\ run' = run /\ artifacts' = artifacts
      /\ publishes' = publishes /\ retry' = retry
  BY <1>2 DEF CutOff
<1>4. CASE Present.stage \in Limited
  BY <1>1, <1>2, <1>3, <1>4, RepeatReleases DEF Limited
<1>5. CASE Present.stage \notin Limited
  <2>1. Again(run.workflow) = Present
    BY <1>2, <1>5, AgainView
  <2>2. Present.stage \in {"record", "finish", "cancel", "reject", "fail"}
    BY <1>1, <1>2, <1>5 DEF Limited, Activities
  <2> QED
    BY <1>3, <2>1, <2>2, RestartReleases
<1> QED
  BY <1>4, <1>5

(* A rewrite may go on after its timeout. *)
LEMMA TimeOutReleases ==
    ASSUME Patient, TypeInv, TypeInv', ReleaseInv, NEW w \in Workflows, TimeOut(w)
    PROVE  ReleaseInv'
<1>1. /\ att[w].kind = "rewrite" /\ wf[w].stage = "rewrite"
  <2>1. att[w].kind = IF wf[w].stage \in Activities THEN wf[w].stage ELSE "idle"
    BY DEF ReleaseInv, Stand, Alone
  <2>2. att[w].kind = "rewrite"
    BY DEF TimeOut, Patient
  <2> QED
    BY <2>1, <2>2 DEF Activities
<1>2. w = run.workflow /\ wf[w] = Present /\ att[w] = Doing /\ w # Late
  BY <1>1, FlowView, PresentType
<1>3. PICK f : f = Again(w)
  OBVIOUS
<1>4. /\ f \in Flows /\ f.stage \in {"rewrite", "fail"} /\ f.again = Present.again
      /\ f.approval = Present.approval /\ f.current = Present.current
      /\ f.results = Present.results /\ f.regenerate = Present.regenerate
  BY <1>1, <1>2, <1>3, AgainView
<1>5. /\ wf' = [wf EXCEPT ![w] = f] /\ att' = [att EXCEPT ![Late] = Doing, ![w] = Wanted(f)]
      /\ run' = run /\ artifacts' = artifacts /\ publishes' = publishes /\ retry' = retry
  BY <1>2, <1>3 DEF TimeOut
<1>6. /\ Present' = f /\ Doing' = Wanted(f)
  BY <1>2, <1>5, PresentType DEF Present, Doing
<1>7. /\ Wanted(f).kind = f.stage /\ Wanted(f).step = "start" /\ Wanted(f).signal = f.current
      /\ Wanted(f).ok = FALSE
  BY <1>4, WantedView DEF Activities
<1>8. Alone'
  <2>1. \A v \in Workflows : v # w => wf'[v] = wf[v] /\ att'[v] = att[v]
    <3>1. \A v \in Workflows : v \in Slots /\ v # Late
      BY PresentType DEF Slots
    <3>2. \A v \in Slots : v # w /\ v # Late => att'[v] = att[v]
      BY <1>5, PresentType
    <3> QED
      BY <1>5, <3>1, <3>2, PresentType
  <2>2. wf'[w] = f /\ att'[w] = Wanted(f) /\ att'[Late] = Doing
    BY <1>2, <1>5, PresentType
  <2>3. \A v \in Workflows : att'[v].kind = IF wf'[v].stage \in Activities THEN wf'[v].stage
                                            ELSE "idle"
    BY <1>4, <1>7, <2>1, <2>2 DEF ReleaseInv, Stand, Alone, Activities
  <2>4. \A v \in Workflows : v # run'.workflow => wf'[v].stage \in {"unborn", "closed", "stuck"}
    BY <1>2, <1>5, <2>1 DEF ReleaseInv, Stand, Alone
  <2> QED
    BY <1>1, <1>2, <2>2, <2>3, <2>4 DEF Alone
<1>9. Stands(run', Present', Doing')
  BY <1>1, <1>2, <1>4, <1>5, <1>6, <1>7 DEF ReleaseInv, Stand, Stands
<1>10. ~Deep(Doing') /\ Untouched
  BY <1>4, <1>5, <1>6, <1>7 DEF Deep, Untouched
<1>11. Drawing(run, Present, Doing)
  BY <1>1, <1>2 DEF Drawing, Redo
<1>12. \A c \in Channels : publishes[c] = "none"
  BY <1>1, <1>2, NotSold DEF ReleaseInv
<1>13. run.status \in {"pending", "awaiting_brief_revision"}
  BY <1>1, <1>2 DEF ReleaseInv, Stand, Stands
<1>14. ~Releasing(run', Present') /\ ~Closing(run'.status)
  BY <1>4, <1>5, <1>6, <1>13 DEF Releasing, Closing
<1> QED
  BY <1>1, <1>2, <1>4, <1>6, <1>7, <1>8, <1>9, <1>10, <1>11, <1>12, <1>14, Quietly

LEMMA ShiftReleases ==
    ASSUME TypeInv, ReleaseInv, Shift PROVE ReleaseInv'
<1>1. /\ run' = run /\ wf' = wf /\ att' = att /\ artifacts' = artifacts
      /\ publishes' = publishes /\ retry' = retry
  BY DEF Shift
<1>2. Present' = Present /\ Doing' = Doing /\ Alone'
  BY <1>1 DEF Present, Doing, Alone, ReleaseInv, Stand
<1> QED
  BY <1>1, <1>2, SameReleases

-----------------------------------------------------------------------------
(* What the operator does. *)

(* A patient operator finds the workflow waiting, or closed, and no retry. *)
LEMMA Calmly ==
    ASSUME Patient, TypeInv, Calm
    PROVE  /\ Present.stage \in {"wait", "closed", "stuck"}
           /\ \A c \in Channels : retry[c].step = "idle"
BY DEF Patient, Calm, Present

(* A waiting workflow is told something. *)
LEMMA TellReleases ==
    ASSUME Patient, TypeInv, TypeInv', ReleaseInv, NEW f, Tell(f), f.stage = Present.stage,
           f.current = Present.current, f.results = Present.results,
           f.again = Present.again \/ run.status = "awaiting_approval",
           \/ f.approval = Present.approval
           \/ /\ run.status = "awaiting_approval"
              /\ f.approval.version = run.version /\ f.approval.package = Package
    PROVE  ReleaseInv'
<1>1. /\ wf' = [wf EXCEPT ![run.workflow] = f] /\ run' = run /\ att' = att
      /\ artifacts' = artifacts /\ publishes' = publishes /\ retry' = retry
  BY DEF Tell
<1>2. Present.stage \in {"wait", "stuck"} /\ \A c \in Channels : retry[c].step = "idle"
  BY Calmly DEF Tell, Present
<1>3. Present' = f /\ Doing' = Doing
  BY <1>1, PresentType DEF Present, Doing
<1>4. Alone'
  <2>1. \A w \in Workflows : wf'[w].stage = wf[w].stage
    BY <1>1, <1>3, PresentType DEF Present
  <2> QED
    BY <1>1, <2>1 DEF ReleaseInv, Stand, Alone
<1>5. Stands(run', Present', Doing')
  BY <1>1, <1>2, <1>3 DEF ReleaseInv, Stand, Stands
<1>6. Retried'
  BY <1>1, <1>2 DEF Retried
<1>7. Doing.kind = "idle"
  BY <1>2, PresentType DEF ReleaseInv, Stand, Alone, Present, Doing, Activities
<1>8. ~Drawing(run', Present', Doing') /\ ~Deep(Doing')
  BY <1>2, <1>3, <1>7 DEF Drawing, Deep
<1>9. Drawn'
  BY <1>1, <1>8, DrawnSame DEF ReleaseInv
<1>10. Package' = Package
  BY <1>1, PackageSame
<1>11. Signed'
  <2>1. \A sig \in {Present'.approval, Present'.current, Doing'.signal} :
            Reads(sig, run'.version, Package', Drawing(run', Present', Doing'))
    <3>1. \A sig \in {Present.approval, Present.current, Doing.signal} :
              /\ sig.version <= run.version
              /\ sig.version = run.version => sig.package = Package
      BY DEF ReleaseInv, Signed, Reads
    <3>2. run.version <= run.version
      BY VersionNat
    <3> QED
      BY <1>1, <1>3, <1>8, <1>10, <3>1, <3>2 DEF Reads
  <2>2. Present'.stage = "wait" /\ run'.status = "publishing" => Present'.approval = NoSignal
    BY <1>1, <1>2, <1>3 DEF ReleaseInv, Signed
  <2>3. Releasing(run', Present') =>
            /\ Present'.current.version = run'.version /\ Present'.current.channels # {}
            /\ Approved(run') /\ run'.passed
    BY <1>1, <1>2, <1>3 DEF ReleaseInv, Signed, Releasing
  <2> QED
    BY <1>2, <1>3, <2>1, <2>2, <2>3 DEF Signed
<1>12. Sold'
  BY <1>1, <1>2, <1>3 DEF ReleaseInv, Sold, Approved
<1> QED
  BY <1>4, <1>5, <1>6, <1>9, <1>11, <1>12 DEF ReleaseInv, Stand

LEMMA ApproveReleases ==
    ASSUME Patient, TypeInv, TypeInv', ReleaseInv, Approve PROVE ReleaseInv'
<1>1. PICK channels : Tell([Present EXCEPT !.approval = Signal("admin", channels)])
  BY DEF Approve, Present
<1>2. PICK sig : sig = Signal("admin", channels)
  OBVIOUS
<1>3. sig.version = run.version /\ sig.package = Package
  BY <1>2, SignalView
<1>4. PICK f : f = [Present EXCEPT !.approval = sig]
  OBVIOUS
<1>5. /\ f.stage = Present.stage /\ f.current = Present.current /\ f.results = Present.results
      /\ f.again = Present.again /\ f.approval = sig
  BY <1>4, PresentType DEF WorkflowStates
<1>6. Tell(f) /\ run.status = "awaiting_approval"
  BY <1>1, <1>2, <1>4 DEF Approve
<1> QED
  BY <1>3, <1>5, <1>6, TellReleases

LEMMA TellOffReleases ==
    ASSUME Patient, TypeInv, TypeInv', ReleaseInv, Reject \/ Regenerate \/ Cancel
    PROVE  ReleaseInv'
<1>1. PICK f :
          /\ Tell(f)
          /\ \/ f = [Present EXCEPT !.rejected = TRUE]
             \/ f = [Present EXCEPT !.again = TRUE] /\ run.status = "awaiting_approval"
             \/ f = [Present EXCEPT !.cancelled = TRUE]
  BY DEF Reject, Regenerate, Cancel, Present
<1>2. /\ f.stage = Present.stage /\ f.current = Present.current /\ f.results = Present.results
      /\ f.again = Present.again \/ run.status = "awaiting_approval"
      /\ f.approval = Present.approval
  BY <1>1, PresentType DEF WorkflowStates
<1> QED
  BY <1>1, <1>2, TellReleases

LEMMA EditReleases ==
    ASSUME Patient, TypeInv, TypeInv', ReleaseInv, Edit PROVE ReleaseInv'
<1>1. /\ wf' = wf /\ att' = att /\ artifacts' = artifacts /\ publishes' = publishes
      /\ retry' = retry /\ run.status = "awaiting_approval"
  BY DEF Edit
<1>2. /\ run'.version = run.version + 1 /\ run'.status = "awaiting_approval"
      /\ run'.passed = run.passed /\ run'.workflow = run.workflow
      /\ run'.approvals = run.approvals
  BY <1>1, PresentType DEF Edit, Runs
<1>3. Present' = Present /\ Doing' = Doing /\ Alone'
  BY <1>1, <1>2 DEF Present, Doing, ReleaseInv, Stand, Alone
<1>4. Present.stage \in {"wait", "closed", "stuck"} /\ \A c \in Channels : retry[c].step = "idle"
  BY Calmly DEF Edit
<1>5. Present.stage = "wait"
  BY <1>1, <1>4 DEF ReleaseInv, Stand, Stands
<1>6. Stands(run', Present', Doing')
  BY <1>2, <1>3, <1>5, <1>1 DEF ReleaseInv, Stand, Stands
<1>7. Retried'
  BY <1>1, <1>4 DEF Retried
<1>8. Doing.kind = "idle"
  BY <1>5, PresentType DEF ReleaseInv, Stand, Alone, Present, Doing, Activities
<1>9. ~Drawing(run', Present', Doing') /\ ~Deep(Doing')
  BY <1>3, <1>5, <1>8 DEF Drawing, Deep
<1>10. Drawn'
  BY <1>1, <1>2, <1>9, DrawnMoved DEF ReleaseInv
<1>11. ~Releasing(run', Present')
  BY <1>2, <1>3, <1>5 DEF Releasing
<1>12. Signed'
  BY <1>2, <1>3, <1>5, <1>11, SignedMoved DEF ReleaseInv
<1>13. \A c \in Channels : publishes[c] = "none"
  BY <1>5, NotSold DEF ReleaseInv
<1>14. Sold'
  BY <1>1, <1>2, <1>3, <1>4, <1>5, <1>13, Unsold DEF ReleaseInv, Stand
<1> QED
  BY <1>3, <1>6, <1>7, <1>10, <1>12, <1>14 DEF ReleaseInv, Stand

(* A run begins again with a workflow of its own. *)
LEMMA AfreshReleases ==
    ASSUME TypeInv, TypeInv', ReleaseInv, NEW f, Enter(run.workflow + 1, f),
           Present.stage \in {"closed", "stuck"}, run.workflow < MaxWorkflows,
           run'.workflow = run.workflow + 1, run'.version = run.version,
           run'.status = "pending", run'.passed = FALSE,
           artifacts' = artifacts, publishes' = publishes, retry' = retry,
           \A c \in Channels : publishes[c] = "none" /\ f.results[c] = "none",
           f.stage = "screen" \/ f.stage = "generate",
           f.approval = NoSignal, f.current = NoSignal, f.again = FALSE
    PROVE  ReleaseInv'
<1>1. PICK w \in Workflows : w = run.workflow + 1
  BY Bounds, PresentType DEF Workflows
<1>2. f \in Flows
  <2>1. wf' = [wf EXCEPT ![w] = f] /\ wf' \in [Workflows -> Flows]
    BY <1>1 DEF Enter, TypeInv
  <2> QED
    BY <1>1, <2>1, PresentType
<1>3. Alone' /\ Present' = f /\ Doing' = Wanted(f)
  BY <1>1, <1>2, EnterStep DEF ReleaseInv, Stand
<1>4. /\ Doing'.step = "start" /\ Doing'.signal = NoSignal
      /\ Doing'.regenerate = f.regenerate
  BY <1>2, <1>3, WantedView DEF Activities
<1>5. Stands(run', Present', Doing')
  BY <1>3, <1>4 DEF Stands
<1>6. ~Deep(Doing')
  BY <1>4 DEF Deep
<1>7. Drawn'
  BY <1>6, DrawnSame DEF ReleaseInv
<1>8. Signed'
  <2>1. \A sig \in {Present'.approval, Present'.current, Doing'.signal} :
            Reads(sig, run'.version, Package', Drawing(run', Present', Doing'))
    <3>1. 0 <= run.version /\ 0 # run.version /\ NoSignal.version = 0
      BY VersionNat
    <3> QED
      BY <1>3, <1>4, <3>1 DEF Reads
  <2>2. ~Releasing(run', Present')
    BY <1>3 DEF Releasing
  <2> QED
    BY <1>3, <2>1, <2>2 DEF Signed
<1>9. Sold' /\ Retried'
  BY <1>3, Unsold DEF ReleaseInv, Stand
<1> QED
  BY <1>3, <1>5, <1>7, <1>8, <1>9 DEF ReleaseInv, Stand

LEMMA ResumeResearchedReleases ==
    ASSUME Patient, TypeInv, TypeInv', ReleaseInv, ResumeResearched PROVE ReleaseInv'
<1>1. PICK f : f = [Unborn EXCEPT !.stage = "screen"]
  OBVIOUS
<1>2. /\ f.stage = "screen" /\ f.approval = NoSignal /\ f.current = NoSignal
      /\ f.again = FALSE /\ \A c \in Channels : f.results[c] = "none"
  BY <1>1 DEF Unborn
<1>3. PICK r \in Runs : r = [run EXCEPT !.selected = FALSE, !.brief = NoBrief, !.passed = FALSE,
                                        !.listings = 0, !.quotes = NoQuotes]
  <2>1. run \in Runs
    BY PresentType
  <2>2. NoBrief \in Briefs /\ NoQuotes \in Quotes /\ 0 \in 0..MaxVersion
    BY Bounds DEF NoBrief, Briefs, Origins, NoQuotes, Quotes
  <2> QED
    BY <2>1, <2>2 DEF Runs
<1>4. /\ r.passed = FALSE /\ r.version = run.version /\ r.workflow = run.workflow
  BY <1>3, PresentType DEF Runs
<1>5. /\ Restart(r, f) /\ run.status = "failed"
      /\ \A c \in Channels : publishes[c] = "none"
  BY <1>1, <1>3 DEF ResumeResearched
<1>6. /\ run'.workflow = run.workflow + 1 /\ run'.version = run.version
      /\ run'.status = "pending" /\ run'.passed = FALSE
  <2>1. run' = [r EXCEPT !.status = "pending", !.ready = FALSE, !.workflow = r.workflow + 1]
    BY <1>5 DEF Restart, Status
  <2> QED
    BY <1>4, <2>1 DEF Runs
<1>7. /\ Enter(run.workflow + 1, f) /\ run.workflow < MaxWorkflows
      /\ artifacts' = artifacts /\ publishes' = publishes /\ retry' = retry
  BY <1>5 DEF Restart
<1>8. Present.stage \in {"closed", "stuck"}
  <2>1. Present.stage \in {"wait", "closed", "stuck"}
    BY <1>5, Calmly DEF Restart
  <2> QED
    BY <1>5, <2>1 DEF ReleaseInv, Stand, Stands
<1> QED
  BY <1>2, <1>5, <1>6, <1>7, <1>8, AfreshReleases

LEMMA RetryArtworkReleases ==
    ASSUME Patient, TypeInv, TypeInv', ReleaseInv, RetryArtwork PROVE ReleaseInv'
<1>1. PICK revised \in BOOLEAN :
          Restart(IF revised
                  THEN [run EXCEPT !.brief = [by |-> "operator", version |-> run.version]]
                  ELSE run,
                  Generation([Unborn EXCEPT !.reuse = TRUE], TRUE, revised))
  BY DEF RetryArtwork
<1>2. PICK f : f = Generation([Unborn EXCEPT !.reuse = TRUE], TRUE, revised)
  OBVIOUS
<1>3. /\ f.stage = "generate" /\ f.approval = NoSignal /\ f.current = NoSignal
      /\ f.again = FALSE /\ \A c \in Channels : f.results[c] = "none"
  BY <1>2 DEF Unborn, Generation
<1>4. PICK r : r = IF revised
                   THEN [run EXCEPT !.brief = [by |-> "operator", version |-> run.version]]
                   ELSE run
  OBVIOUS
<1>5. /\ DOMAIN r = DOMAIN run /\ r.passed = run.passed /\ r.version = run.version
      /\ r.workflow = run.workflow
      /\ {"status", "ready", "workflow", "passed", "version"} \subseteq DOMAIN run
  <2>1. CASE revised
    BY <1>4, <2>1, PresentType DEF Runs
  <2>2. CASE ~revised
    BY <1>4, <2>2, PresentType DEF Runs
  <2> QED
    BY <2>1, <2>2
<1>6. /\ Restart(r, f) /\ Paused(run) /\ ~run.passed
      /\ \A c \in Channels : publishes[c] = "none"
  <2>1. Unreviewed(run) /\ Paused(run)
    BY DEF RetryArtwork
  <2> QED
    BY <1>1, <1>2, <1>4, <2>1 DEF Unreviewed
<1>7. /\ run'.workflow = run.workflow + 1 /\ run'.version = run.version
      /\ run'.status = "pending" /\ run'.passed = run.passed
  <2>1. run' = [r EXCEPT !.status = "pending", !.ready = FALSE, !.workflow = r.workflow + 1]
    BY <1>6 DEF Restart, Status
  <2> QED
    BY <1>5, <2>1
<1>8. run'.passed = FALSE
  BY <1>6, <1>7, PresentType DEF Runs
<1>9. /\ Enter(run.workflow + 1, f) /\ run.workflow < MaxWorkflows
      /\ artifacts' = artifacts /\ publishes' = publishes /\ retry' = retry
  BY <1>6 DEF Restart
<1>10. Present.stage \in {"closed", "stuck"}
  <2>1. Present.stage \in {"wait", "closed", "stuck"}
    BY <1>6, Calmly DEF Restart
  <2>2. run.status \in {"failed", "awaiting_brief_revision"}
    BY <1>6 DEF Paused
  <2> QED
    BY <2>1, <2>2 DEF ReleaseInv, Stand, Stands
<1> QED
  BY <1>3, <1>6, <1>7, <1>8, <1>9, <1>10, AfreshReleases

(* A run nobody works on: only what was sold may change. *)
LEMMA ClosedReleases ==
    ASSUME TypeInv, ReleaseInv, Present.stage \in {"closed", "stuck"}, wf' = wf, att' = att,
           artifacts' = artifacts, run'.workflow = run.workflow, run'.version = run.version,
           run'.passed = run.passed, run'.listings = run.listings, run'.quotes = run.quotes,
           run'.approvals = run.approvals, run'.status = run.status \/ run'.status \in Ended,
           Sold', Retried'
    PROVE  ReleaseInv'
<1>1. Present' = Present /\ Doing' = Doing /\ Alone'
  BY DEF Present, Doing, ReleaseInv, Stand, Alone
<1>2. Stands(run', Present', Doing')
  BY <1>1 DEF ReleaseInv, Stand, Stands, Ended
<1>3. ~Drawing(run', Present', Doing') /\ ~Deep(Doing')
  <2>1. Doing.kind = "idle"
    BY PresentType DEF ReleaseInv, Stand, Alone, Present, Doing, Activities
  <2> QED
    BY <1>1, <2>1 DEF Drawing, Deep
<1>4. Drawn'
  BY <1>3, DrawnSame DEF ReleaseInv
<1>5. Package' = Package
  BY PackageSame
<1>6. ~Releasing(run', Present')
  BY <1>1, <1>2 DEF Releasing, Stands
<1>7. Signed'
  BY <1>1, <1>3, <1>5, <1>6, SignedSame DEF ReleaseInv
<1> QED
  BY <1>1, <1>2, <1>4, <1>7 DEF ReleaseInv, Stand

LEMMA RetryChannelReleases ==
    ASSUME Patient, TypeInv, TypeInv', ReleaseInv, NEW c \in Channels, RetryChannel(c)
    PROVE  ReleaseInv'
<1>1. /\ run' = run /\ wf' = wf /\ att' = att /\ artifacts' = artifacts
      /\ publishes' = publishes /\ retry' = [retry EXCEPT ![c].step = "publish"]
      /\ run.status \in {"partially_published", "failed", "verification_required"}
      /\ publishes[c] # "none"
  BY DEF RetryChannel
<1>2. Present.stage \in {"wait", "closed", "stuck"} /\ \A d \in Channels : retry[d].step = "idle"
  BY Calmly DEF RetryChannel
<1>3. Present.stage \in {"closed", "stuck"}
  BY <1>1, <1>2 DEF ReleaseInv, Stand, Stands
<1>4. Present' = Present
  BY <1>1 DEF Present
<1>5. \A d \in Channels : retry'[d].step = IF d = c THEN "publish" ELSE "idle"
  <2>1. retry \in [Channels -> [step: {"idle", "publish", "count", "write"},
                                seen: SUBSET PublishStatuses]]
    BY DEF TypeInv, TypeOK
  <2> QED
    BY <1>1, <1>2, <2>1
<1>6. Retried'
  BY <1>1, <1>3, <1>4, <1>5 DEF Retried
<1>7. Sold'
  BY <1>1, <1>3, <1>4, <1>5 DEF ReleaseInv, Sold, Approved
<1> QED
  BY <1>1, <1>3, <1>6, <1>7, ClosedReleases

LEMMA RetryingView ==
    ASSUME ReleaseInv, NEW c \in Channels, retry[c].step # "idle"
    PROVE  /\ Present.stage \in {"closed", "stuck"}
           /\ run.status \in {"partially_published", "failed", "verification_required"}
           /\ publishes[c] # "none" /\ Approved(run) /\ run.passed
           /\ \A d \in Channels : d # c => retry[d].step = "idle"
BY DEF ReleaseInv, Stand, Retried, Sold

LEMMA RetryPublishReleases ==
    ASSUME TypeInv, TypeInv', ReleaseInv, NEW c \in Channels, RetryPublish(c)
    PROVE  ReleaseInv'
<1>1. PICK result \in PublishStatuses \ {"none"} :
          /\ Published(c, result)
          /\ retry' = [retry EXCEPT ![c].step = IF result = "failed" THEN "idle" ELSE "count"]
  BY DEF RetryPublish
<1>2. /\ run' = run /\ wf' = wf /\ att' = att /\ artifacts' = artifacts
      /\ retry[c].step = "publish"
  BY DEF RetryPublish
<1>3. /\ Present.stage \in {"closed", "stuck"}
      /\ run.status \in {"partially_published", "failed", "verification_required"}
      /\ publishes[c] # "none" /\ Approved(run) /\ run.passed
      /\ \A d \in Channels : d # c => retry[d].step = "idle"
  BY <1>2, RetryingView
<1>4. Present' = Present
  BY <1>2 DEF Present
<1>5. /\ publishes'[c] # "none"
      /\ \A d \in Channels : d # c => publishes'[d] = publishes[d]
  BY <1>1 DEF Published, TypeInv, TypeOK
<1>6. /\ retry'[c].step \in {"idle", "count"}
      /\ \A d \in Channels : d # c => retry'[d] = retry[d]
  <2>1. retry \in [Channels -> [step: {"idle", "publish", "count", "write"},
                                seen: SUBSET PublishStatuses]]
    BY DEF TypeInv, TypeOK
  <2> QED
    BY <1>1, <2>1
<1>7. Retried'
  BY <1>2, <1>3, <1>4, <1>5, <1>6 DEF Retried
<1>8. Sold'
  BY <1>2, <1>3, <1>4, <1>5, <1>6 DEF Sold, Approved
<1> QED
  BY <1>2, <1>3, <1>7, <1>8, ClosedReleases

LEMMA CountRetryReleases ==
    ASSUME TypeInv, TypeInv', ReleaseInv, NEW c \in Channels, CountRetry(c)
    PROVE  ReleaseInv'
<1>1. /\ retry' = [retry EXCEPT ![c] =
                      [step |-> "write", seen |-> {publishes[d] : d \in Channels} \ {"none"}]]
      /\ run' = run /\ wf' = wf /\ att' = att /\ artifacts' = artifacts
      /\ publishes' = publishes /\ retry[c].step = "count"
  BY DEF CountRetry
<1>2. /\ Present.stage \in {"closed", "stuck"}
      /\ run.status \in {"partially_published", "failed", "verification_required"}
      /\ publishes[c] # "none" /\ Approved(run) /\ run.passed
      /\ \A d \in Channels : d # c => retry[d].step = "idle"
  BY <1>1, RetryingView
<1>3. Present' = Present
  BY <1>1 DEF Present
<1>4. /\ retry'[c].seen = {publishes[d] : d \in Channels} \ {"none"}
      /\ \A d \in Channels : d # c => retry'[d] = retry[d]
  BY <1>1 DEF TypeInv, TypeOK
<1>5. Retried'
  BY <1>1, <1>2, <1>3, <1>4 DEF Retried
<1>6. Sold'
  BY <1>1, <1>2, <1>3, <1>4 DEF Sold, Approved, ReleaseInv
<1> QED
  BY <1>1, <1>2, <1>5, <1>6, ClosedReleases

LEMMA FinishRetryReleases ==
    ASSUME TypeInv, TypeInv', ReleaseInv, NEW c \in Channels, FinishRetry(c)
    PROVE  ReleaseInv'
<1>1. /\ run' = Status(run, Summary(retry[c].seen)) /\ retry[c].step = "write"
      /\ retry' = [retry EXCEPT ![c] = [step |-> "idle", seen |-> {}]]
      /\ wf' = wf /\ att' = att /\ artifacts' = artifacts /\ publishes' = publishes
  BY DEF FinishRetry
<1>2. /\ Present.stage \in {"closed", "stuck"}
      /\ publishes[c] # "none" /\ Approved(run) /\ run.passed
      /\ \A d \in Channels : d # c => retry[d].step = "idle"
  BY <1>1, RetryingView
<1>3. /\ run'.status = Summary(retry[c].seen) /\ run'.version = run.version
      /\ run'.passed = run.passed /\ run'.listings = run.listings
      /\ run'.quotes = run.quotes /\ run'.approvals = run.approvals
      /\ run'.workflow = run.workflow
  BY <1>1, PresentType, StatusView
<1>4. /\ run'.status \in Ended
      /\ run'.status = "published" => \E d \in Channels : publishes[d] = "succeeded"
  <2>1. /\ run'.status \in Ended
        /\ run'.status = "published" => retry[c].seen = {"succeeded"}
    BY <1>3, SummaryView DEF Ended
  <2> QED
    BY <1>1, <2>1 DEF ReleaseInv, Sold
<1>5. Present' = Present
  BY <1>1, <1>3 DEF Present
<1>6. \A d \in Channels : retry'[d].step = "idle"
  BY <1>1, <1>2 DEF TypeInv, TypeOK
<1>7. Retried'
  BY <1>6 DEF Retried
<1>8. Sold'
  BY <1>1, <1>2, <1>3, <1>4, <1>5, <1>6 DEF Sold, Approved
<1> QED
  BY <1>1, <1>2, <1>3, <1>4, <1>7, <1>8, ClosedReleases

-----------------------------------------------------------------------------
(* Every step, and what it means for a run that is released. *)

LEMMA InitReleases == ASSUME Init PROVE ReleaseInv
<1>1. /\ run.workflow = 1 /\ run.version = 1 /\ run.status = "pending" /\ run.passed = FALSE
      /\ \A v \in Versions : artifacts[v] = <<>>
      /\ \A c \in Channels : publishes[c] = "none" /\ retry[c].step = "idle"
  BY DEF Init
<1>2. 1 \in Workflows /\ 1 \in Slots /\ Late \in Slots /\ Late # 1 /\ Late \notin Workflows
      /\ Workflows \subseteq Slots
  BY Bounds DEF Workflows, Slots, Late
<1>3. /\ \A w \in Workflows : wf[w] = IF w = 1 THEN [Unborn EXCEPT !.stage = "research"]
                                      ELSE Unborn
      /\ \A s \in Slots : att[s] = IF s = 1 THEN [Idle EXCEPT !.kind = "research"] ELSE Idle
  BY DEF Init
<1>4. /\ Present.stage = "research" /\ Present.again = FALSE
      /\ Present.approval = NoSignal /\ Present.current = NoSignal
      /\ Doing.kind = "research" /\ Doing.step = "start" /\ Doing.signal = NoSignal
      /\ \A c \in Channels : Present.results[c] = "none"
  BY <1>1, <1>2, <1>3 DEF Present, Doing, Unborn, Idle
<1>5. Alone
  <2>1. ASSUME NEW w \in Workflows
        PROVE  /\ att[w].kind = IF wf[w].stage \in Activities THEN wf[w].stage ELSE "idle"
               /\ w # run.workflow => wf[w].stage \in {"unborn", "closed", "stuck"}
    <3>1. CASE w = 1
      BY <1>1, <1>2, <1>4, <3>1 DEF Present, Doing, Activities
    <3>2. CASE w # 1
      BY <1>1, <1>2, <1>3, <3>2 DEF Unborn, Idle, Activities
    <3> QED
      BY <3>1, <3>2
  <2>2. att[Late].kind = "idle"
    BY <1>2, <1>3 DEF Idle
  <2> QED
    BY <2>1, <2>2 DEF Alone
<1>6. Stands(run, Present, Doing)
  BY <1>1, <1>4 DEF Stands
<1>7. Retried /\ Sold
  BY <1>1, <1>4 DEF Retried, Sold
<1>8. Drawn
  BY <1>1, <1>4 DEF Drawn, Deep
<1>9. Signed
  <2>1. NoSignal.version = 0
    BY DEF NoSignal
  <2> QED
    BY <1>1, <1>4, <2>1 DEF Signed, Reads, Releasing
<1> QED
  BY <1>5, <1>6, <1>7, <1>8, <1>9 DEF ReleaseInv, Stand

LEMMA StillReleases ==
    ASSUME TypeInv, ReleaseInv, UNCHANGED vars PROVE ReleaseInv'
<1>1. /\ run' = run /\ wf' = wf /\ att' = att /\ artifacts' = artifacts
      /\ publishes' = publishes /\ retry' = retry
  BY DEF vars
<1>2. Present' = Present /\ Doing' = Doing /\ Alone'
  BY <1>1 DEF Present, Doing, Alone, ReleaseInv, Stand
<1> QED
  BY <1>1, <1>2, SameReleases

LEMMA NextReleases ==
    ASSUME Patient, TypeInv, ReleaseInv, [Next]_vars PROVE ReleaseInv'
<1>1. TypeInv'
  BY NextType
<1>2. ASSUME NEW s \in Slots, Attempt(s) \/ ProviderError(s) \/ Refused(s) PROVE ReleaseInv'
  BY <1>2, AttemptReleases, ProviderErrorReleases, RefusedReleases
<1>3. ASSUME NEW w \in Workflows, Flow(w) \/ CutOff(w) \/ TimeOut(w) PROVE ReleaseInv'
  BY <1>1, <1>3, FlowReleases, CutOffReleases, TimeOutReleases
<1>4. ASSUME NEW c \in Channels, Retrying(c) PROVE ReleaseInv'
  BY <1>1, <1>4, RetryPublishReleases, CountRetryReleases, FinishRetryReleases DEF Retrying
<1>5. ASSUME Operator PROVE ReleaseInv'
  BY <1>1, <1>5, ApproveReleases, TellOffReleases, EditReleases, ResumeResearchedReleases,
     RetryArtworkReleases, RetryChannelReleases
     DEF Operator
<1> QED
  BY <1>2, <1>3, <1>4, <1>5, ShiftReleases, StillReleases DEF Next

(* The newest of some numbers. *)
LEMMA NewestIs ==
    ASSUME NEW S, S \subseteq Nat, NEW m \in S, \A j \in S : j <= m
    PROVE  Newest(S) = m
<1>1. \E i \in S : \A j \in S : j <= i
  OBVIOUS
<1>2. Newest(S) \in S /\ \A j \in S : j <= Newest(S)
  BY <1>1 DEF Newest
<1>3. PICK k \in Nat : k = Newest(S) /\ k <= m /\ m <= k
  BY <1>2
<1> QED
  BY <1>3

(* Where finished artwork is shown, it is what a channel is given. *)
LEMMA ShownIsTaken ==
    ASSUME TypeInv, Drawn, Shown
    PROVE  artifacts[Package.art.version][Package.art.revision] = "passed"
<1>1. PICK v \in Versions : /\ Finished(artifacts[v])
                            /\ \A u \in Versions : u > v => Production(u) = {}
  BY DEF Shown
<1>2. /\ artifacts[v] \in Seq(Verdicts \cup {"source"})
      /\ run.version \in Nat /\ run.version \in Versions /\ MaxVersion \in Nat
  BY RevisionSeq, VersionNat, Bounds DEF TypeInv, TypeOK
<1>3. PICK n : n = Len(artifacts[v])
  OBVIOUS
<1>4. /\ n \in Nat /\ n >= 1 /\ DOMAIN artifacts[v] = 1..n
      /\ artifacts[v][n] = "passed"
  BY <1>1, <1>2, <1>3 DEF Finished
<1>5. v \in 1..run.version
  <2>1. ~(v > run.version)
    BY <1>1 DEF Drawn, Finished
  <2> QED
    BY <1>2, <2>1 DEF Versions
<1>6. n \in Production(v) /\ Production(v) \subseteq 1..n
  BY <1>4 DEF Production
<1>7. Newest(Production(v)) = n
  BY <1>4, <1>6, NewestIs
<1>8. PICK made : made = {u \in 1..run.version : Production(u) # {}}
  OBVIOUS
<1>9. v \in made /\ made \subseteq Nat /\ \A u \in made : u <= v
  BY <1>1, <1>2, <1>5, <1>6, <1>8 DEF Versions
<1>10. Newest(made) = v
  BY <1>9, NewestIs
<1>11. Artwork(run.version) = [version |-> v, revision |-> n]
  BY <1>7, <1>8, <1>9, <1>10 DEF Artwork
<1> QED
  BY <1>4, <1>11 DEF Package

(* While a workflow releases a run, its package is what the author of the    *)
(* approval looked at: the signal is of the version it was recorded for, and *)
(* whatever changes artwork, copy or prices begins another version           *)
(* (record_approval, begin_revision, update_package, reprice_package).       *)
THEOREM ReleasesAreReviewed == ASSUME Patient PROVE Spec => []ReleasedAsReviewed
<1>1. Init => TypeInv /\ ReleaseInv
  BY InitType, InitReleases
<1>2. TypeInv /\ ReleaseInv /\ [Next]_vars => (TypeInv /\ ReleaseInv)'
  BY NextType, NextReleases
<1>3. TypeInv /\ ReleaseInv => ReleasedAsReviewed
  <2> SUFFICES ASSUME TypeInv, ReleaseInv,
                      NEW w \in Workflows, wf[w].stage \in {"publish", "finish"}
               PROVE  Package = wf[w].current.package
    BY DEF ReleasedAsReviewed
  <2>1. wf[w] = Present
    BY FlowView
  <2>2. Present.current.version = run.version
    BY <2>1 DEF ReleaseInv, Signed, Releasing
  <2> QED
    BY <2>1, <2>2 DEF ReleaseInv, Signed, Reads
<1> QED
  BY <1>1, <1>2, <1>3, PTL DEF Spec

(* A run is only published with artwork that passed QA, under an approval of *)
(* its present version, and called published only where a channel succeeded  *)
(* (record_approval, publish_channel_run, finish_publishing, finish_retry).  *)
THEOREM ReleasesAreApproved == ASSUME Patient PROVE Spec => []ReleasedAsApproved
<1>1. Init => TypeInv /\ ReleaseInv
  BY InitType, InitReleases
<1>2. TypeInv /\ ReleaseInv /\ [Next]_vars => (TypeInv /\ ReleaseInv)'
  BY NextType, NextReleases
<1>3. TypeInv /\ ReleaseInv => ReleasedAsApproved
  <2> SUFFICES ASSUME TypeInv, ReleaseInv,
                      run.status \in {"publishing", "published", "partially_published",
                                      "verification_required"}
               PROVE  /\ [version |-> run.version, decision |-> "approved"] \in run.approvals
                      /\ artifacts[Package.art.version][Package.art.revision] = "passed"
                      /\ run.status = "published" => \E c \in Channels : publishes[c] = "succeeded"
    BY DEF ReleasedAsApproved
  <2>1. Approved(run) /\ run.passed
    <3>1. CASE run.status = "publishing"
      BY <3>1 DEF ReleaseInv, Signed, Releasing
    <3>2. CASE run.status # "publishing"
      BY <3>2 DEF ReleaseInv, Sold
    <3> QED
      BY <3>1, <3>2
  <2>2. artifacts[Package.art.version][Package.art.revision] = "passed"
    BY <2>1, ShownIsTaken DEF ReleaseInv, Drawn
  <2> QED
    BY <2>1, <2>2 DEF ReleaseInv, Sold, Approved
<1> QED
  BY <1>1, <1>2, <1>3, PTL DEF Spec

(* A run that is worked on, reviewed or released has a workflow that serves  *)
(* it, whatever attempt is cut off, refused or answered late                 *)
(* (MerchWorkflow.run, rewrite_failed_brief_run).                            *)
THEOREM NoRunIsOrphaned == ASSUME Patient PROVE Spec => []NoOrphan
<1>1. Init => TypeInv /\ ReleaseInv
  BY InitType, InitReleases
<1>2. TypeInv /\ ReleaseInv /\ [Next]_vars => (TypeInv /\ ReleaseInv)'
  BY NextType, NextReleases
<1>3. ReleaseInv => NoOrphan
  BY DEF ReleaseInv, Stand, Stands, Present, NoOrphan
<1> QED
  BY <1>1, <1>2, <1>3, PTL DEF Spec

(* What the workflow of a run at rest may still be doing. *)
LEMMA RestView ==
    ASSUME TypeInv, ReleaseInv, run.status \in {"published", "rejected", "cancelled"}
    PROVE  /\ Present.stage \in {"finish", "cancel", "reject", "closed", "stuck"}
           /\ Present.stage = "finish" => run.status = "published"
           /\ Present.stage = "cancel" => run.status = "cancelled"
           /\ Present.stage = "reject" => run.status = "rejected"
           /\ ~Paused(run) /\ \A c \in Channels : retry[c].step = "idle"
<1>1. Present.stage \in Stages
  BY PresentType DEF WorkflowStates
<1>2. /\ Present.stage \in {"finish", "cancel", "reject", "closed", "stuck"}
      /\ Present.stage = "finish" => run.status = "published"
      /\ Present.stage = "cancel" => run.status = "cancelled"
      /\ Present.stage = "reject" => run.status = "rejected"
  BY <1>1 DEF ReleaseInv, Stand, Stands, Stages, Activities, Ended
<1> QED
  BY <1>2 DEF ReleaseInv, Stand, Retried, Paused

LEMMA RestAttempt ==
    ASSUME TypeInv, ReleaseInv, run.status \in {"published", "rejected", "cancelled"},
           NEW s \in Slots, Attempt(s)
    PROVE  run'.status = run.status
<1>1. CASE att[s].kind = "rewrite"
  <2>1. ~Rewritable
    BY RestView DEF Rewritable
  <2>2. RewriteNothing(s) \/ RewriteSuperseded(s) \/ RewriteRejected(s)
        \/ (att[s].step = "answer" /\ ~Superseded(att[s]))
    BY <1>1, <2>1 DEF Attempt, At, Research, StoreResearch, Screen, Block, NoneSafe, Select,
       Generate, WriteBrief, Draw, Prepare, Settle, HoldForBrief, WriteListings, StorePackage,
       FallBack, GiveUp, ReserveRewrite, RewriteAccepted, Automatic, RecordApproval,
       ReadApproved, StillValid, Reprice, Unavailable, Finish, MarkCancelled,
       RecordRejection, MarkFailed
  <2>3. ~(att[s].step = "answer" /\ ~Superseded(att[s]))
    BY RestView DEF Superseded
  <2> QED
    BY <2>2, <2>3 DEF RewriteNothing, RewriteSuperseded, RewriteRejected
<1>2. CASE att[s].kind # "rewrite"
  <2>1. att[s].kind \in Activities
    BY DEF Attempt, At, Research, StoreResearch, Screen, Block, NoneSafe, Select,
       Generate, WriteBrief, Draw, Prepare, Settle, HoldForBrief, WriteListings, StorePackage,
       RewriteNothing, RewriteSuperseded, RewriteRejected,
       FallBack, GiveUp, ReserveRewrite, RewriteAccepted, Automatic, RecordApproval,
       ReadApproved, StillValid, Reprice, Unavailable, Finish, MarkCancelled,
       RecordRejection, MarkFailed, Activities
  <2>2. /\ s = run.workflow /\ Present.stage = att[s].kind
        /\ att[s].kind \in {"finish", "cancel", "reject"}
    BY <1>2, <2>1, Acting, RestView DEF ReleaseInv, Stand, Activities
  <2>3. Finish(s) \/ MarkCancelled(s) \/ RecordRejection(s)
    BY <2>2 DEF Attempt, At, Research, StoreResearch, Screen, Block, NoneSafe, Select,
       Generate, WriteBrief, Draw, Prepare, Settle, HoldForBrief, WriteListings, StorePackage,
       RewriteNothing, RewriteSuperseded, RewriteRejected,
       FallBack, GiveUp, ReserveRewrite, RewriteAccepted, Automatic, RecordApproval,
       ReadApproved, StillValid, Reprice, Unavailable, MarkFailed
  <2>4. CASE Finish(s)
    <3>1. run.status = "published" /\ Present.stage = "finish"
      BY <2>2, <2>4, RestView DEF Finish, At
    <3>2. run.status = Summary({Present.results[c] : c \in Present.current.channels})
      BY <3>1 DEF ReleaseInv, Sold
    <3> QED
      BY <2>2, <2>4, <3>2, StatusView, PresentType DEF Finish, Present
  <2>5. CASE MarkCancelled(s)
    BY <2>2, <2>5, RestView, StatusView, PresentType DEF MarkCancelled, At
  <2>6. CASE RecordRejection(s)
    <3>1. run.status = "rejected"
      BY <2>2, <2>6, RestView DEF RecordRejection, At
    <3>2. run'.status = "rejected"
      BY <2>6, PresentType DEF RecordRejection, Status, Runs
    <3> QED
      BY <3>1, <3>2
  <2> QED
    BY <2>3, <2>4, <2>5, <2>6
<1> QED
  BY <1>1, <1>2

LEMMA RestStep ==
    ASSUME Patient, TypeInv, ReleaseInv, run.status \in {"published", "rejected", "cancelled"},
           [Next]_vars
    PROVE  run'.status = run.status
<1>1. CASE UNCHANGED vars
  BY <1>1 DEF vars
<1>2. ASSUME NEW s \in Slots, Attempt(s) \/ ProviderError(s) \/ Refused(s)
      PROVE  run'.status = run.status
  BY <1>2, RestAttempt DEF ProviderError, Refused
<1>3. ASSUME NEW w \in Workflows, Flow(w) \/ CutOff(w) \/ TimeOut(w)
      PROVE  run' = run
  BY <1>3 DEF Flow, CutOff, TimeOut, AfterResearch, AfterScreen, AfterGenerate, AfterRewrite,
     AfterAutomatic, TakeCancel, TakeReject, TakeRegenerate, TakeApproval, AfterRecord,
     AfterRevalidate, AfterReapprove, AfterPublish, Close, Publish, steps
<1>4. ASSUME NEW c \in Channels, Retrying(c) PROVE run'.status = run.status
  BY <1>4, RestView DEF Retrying, RetryPublish, CountRetry, FinishRetry
<1>5. ASSUME Operator PROVE run'.status = run.status
  <2>1. ~ResumeResearched /\ ~RetryArtwork /\ ~Edit
    BY RestView DEF ResumeResearched, RetryArtwork, Edit
  <2> QED
    BY <1>5, <2>1 DEF Operator, Approve, Reject, Regenerate, Cancel, Tell, RetryChannel
<1>6. ASSUME Shift PROVE run' = run
  BY <1>6 DEF Shift
<1> QED
  BY <1>1, <1>2, <1>3, <1>4, <1>5, <1>6 DEF Next

(* Published, rejected and cancelled runs stay what they are: no repeated    *)
(* attempt, late answer or retry changes their status (mark_failed,          *)
(* finish_publishing, finish_retry).                                         *)
THEOREM RestStays == ASSUME Patient PROVE Spec => RestIsFinal
<1>1. Init => TypeInv /\ ReleaseInv
  BY InitType, InitReleases
<1>2. TypeInv /\ ReleaseInv /\ [Next]_vars => (TypeInv /\ ReleaseInv)'
  BY NextType, NextReleases
<1>3. TypeInv /\ ReleaseInv /\ [Next]_vars =>
          [run.status \in Rest \ {"no_safe_candidate"} => run'.status = run.status]_vars
  BY RestStep DEF Rest
<1> QED
  BY <1>1, <1>2, <1>3, PTL DEF Spec, RestIsFinal
=============================================================================
