---- MODULE MCCopyRefresh ----
(* Instances of CopyRefresh for TLC. *)
EXTENDS CopyRefresh, TLC
CONSTANTS r1, r2, t1, t2
Symmetric == Permutations({t1, t2})
====
