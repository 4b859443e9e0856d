-------------------------- MODULE BackupPipelineMC --------------------------
(***************************************************************************)
(* Instances of BackupPipeline for TLC.                                    *)
(***************************************************************************)
EXTENDS BackupPipeline, TLC

CONSTANTS s1, d1, d2

TwoSelections == {{s1, d2}, {d1}}

Symmetry == Permutations(Jobs)
=============================================================================
