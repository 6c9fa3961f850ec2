----------------------- MODULE MCArtworkReplacement -----------------------
(* Instances of ArtworkReplacement for TLC. *)
EXTENDS ArtworkReplacement, TLC

CONSTANTS o1, o2

Symmetry == Permutations({o1, o2})
=============================================================================
