------------------------- MODULE MCCatalogRefresh -------------------------
(* Instances of CatalogRefresh for TLC. *)
EXTENDS CatalogRefresh, TLC

CONSTANTS b1, b2, p1, p2

(* Two providers offer the first blueprint, one of them the second.         *)
ThreeBlueprints == 1 :> b1 @@ 2 :> b1 @@ 3 :> b2
ThreeProviders == 1 :> p1 @@ 2 :> p2 @@ 3 :> p1
=============================================================================
