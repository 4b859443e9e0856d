--------------------------- MODULE AgentConfigMC ---------------------------
(***************************************************************************)
(* Two ports for SSH.  The main file says how to log in before it includes *)
(* the others; or includes none, where both name a port.  The panel's port *)
(* and one other for the firewall.                                         *)
(***************************************************************************)
EXTENDS AgentConfig, TLC

File(included, port, password) ==
    [include |-> included, port |-> port, password |-> password]

MCRequests == {[port |-> 22, password |-> "yes"], [port |-> 2222, password |-> "no"]}

MCFiles ==
    {[main |-> File("late", NoPort, "yes"), vendor |-> File("no", NoPort, "unset"),
      litecp |-> File("no", 2222, "yes")],
     [main |-> File("no", 22, "unset"), vendor |-> File("no", 2222, "unset"),
      litecp |-> Empty]}

Symmetry == Permutations(Slots)
=============================================================================
