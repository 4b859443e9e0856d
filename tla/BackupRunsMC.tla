---------------------------- MODULE BackupRunsMC ----------------------------
(***************************************************************************)
(* Instances of BackupRuns for TLC.                                        *)
(***************************************************************************)
EXTENDS BackupRuns, TLC

\* Users and uuids are interchangeable: nothing orders or names them.
Symmetry == Permutations(Users) \cup Permutations(JobIds)
=============================================================================
