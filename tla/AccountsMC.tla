---------------------------- MODULE AccountsMC ------------------------------
(***************************************************************************)
(* Instances of Accounts for TLC.                                          *)
(***************************************************************************)
EXTENDS Accounts, TLC

CONSTANTS u1, d1, k1

OneUser == [o \in Databases \cup Keys |-> u1]

\* What is created has the default value and may be given another, and that one back.
DefaultFirst == {op \in Op : op.kind = "create" => op.value = Default}

\* The deletion that takes all with it, and one that writes the key file back.
TwoDeletions == {[kind |-> "delete", on |-> o, value |-> Default] : o \in {u1, k1}}

Symmetry == Permutations(Requests)
=============================================================================
