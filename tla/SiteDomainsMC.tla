--------------------------- MODULE SiteDomainsMC ---------------------------
(***************************************************************************)
(* Instances of SiteDomains for TLC.                                       *)
(***************************************************************************)
EXTENDS SiteDomains, TLC

CONSTANTS s1, s2, apex, www, other, r1, r2

WwwOf == [d \in {apex} |-> www]

Symmetry == Permutations(Requests) \cup Permutations(Sites)
=============================================================================
