-------------------------- MODULE CatalogSnapshot --------------------------
(***************************************************************************)
(* What a catalog refresh promises (docs/catalog-v2.md, Bootstrap and      *)
(* health checks), without workflows, crashes, leases or cursors: it takes *)
(* a snapshot of the offerings to visit, visits each of them, and only     *)
(* then retires the active products it has no reason to keep.              *)
(***************************************************************************)
EXTENDS Naturals

CONSTANT Pairs     \* blueprint/provider offerings

VARIABLES
    active,        \* products the catalog offers to research
    open,          \* a snapshot has been taken and not yet completed
    todo,          \* offerings of the snapshot that are still to be visited
    keep           \* products the completion will not retire

snapshotVars == <<active, open, todo, keep>>

Init ==
    /\ active \in SUBSET Pairs
    /\ open = FALSE /\ todo = {} /\ keep = {}

(* The discovery manifest, and what could not be read and is preserved. *)
Take ==
    /\ ~open /\ open' = TRUE
    /\ todo' \in (SUBSET Pairs) \ {{}}
    /\ keep' \in SUBSET Pairs
    /\ UNCHANGED active

(* A batch: what Printify still offers becomes active, the rest inactive. *)
Visit ==
    LET batch == todo \ todo' IN
    /\ open /\ todo' \subseteq todo /\ batch # {}
    /\ \E found \in SUBSET batch :
          /\ keep' = keep \cup found
          /\ active' = (active \ batch) \cup found
    /\ UNCHANGED open

Complete ==
    /\ open /\ todo = {}
    /\ active' = active \cap keep
    /\ open' = FALSE /\ todo' = {} /\ keep' = {}

(* A run refreshes one product; an operator recovers missing products. *)
Single == \E p \in Pairs : active' \in {active \cup {p}, active \ {p}}
Recover == active \subseteq active' /\ active' \subseteq Pairs

Next ==
    \/ Take \/ Visit \/ Complete
    \/ (Single \/ Recover) /\ UNCHANGED <<open, todo, keep>>

Spec == Init /\ [][Next]_snapshotVars
=============================================================================
