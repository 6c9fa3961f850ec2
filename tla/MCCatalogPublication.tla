----------------------- MODULE MCCatalogPublication -----------------------
(* Instances of CatalogPublication for TLC. *)
EXTENDS CatalogPublication, TLC

CONSTANTS s1, s2

(* Every ranked opportunity prints on a surface of its own. *)
OwnSurface == 1 :> s1 @@ 2 :> s2
(* Both ranked opportunities print on the same blueprint and provider. *)
SharedSurface == 1 :> s1 @@ 2 :> s1
OneSurface == 1 :> s1
=============================================================================
