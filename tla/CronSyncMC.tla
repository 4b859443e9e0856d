---------------------------- MODULE CronSyncMC ------------------------------
(***************************************************************************)
(* Instances of CronSync for TLC.                                          *)
(***************************************************************************)
EXTENDS CronSync, TLC

Symmetry == Permutations(Jobs) \cup Permutations(Commands) \cup Permutations(CronRequests)
=============================================================================
