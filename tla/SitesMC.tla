------------------------------ MODULE SitesMC ------------------------------
(***************************************************************************)
(* Instances of Sites for TLC.                                             *)
(***************************************************************************)
EXTENDS Sites, TLC

Symmetry == Permutations(Requests) \cup Permutations(Sites) \cup Permutations(Slugs)
=============================================================================
