------------------------------- MODULE MCCatalog -------------------------------
(* Small instances of CatalogCache: two requests at a time.                   *)
EXTENDS CatalogCache, TLC

\* Sound where no liveness is checked.
Symmetry == Permutations(Requests) \cup Permutations(Accounts)
================================================================================
