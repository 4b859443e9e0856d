---------------------------- MODULE AgentConfig ----------------------------
(***************************************************************************)
(* The agent's configuration handlers together: SSH, firewall and update.  *)
(* The panel calls them one at a time, and goes on to the next call when   *)
(* an answer is late, so that two of them may run; and the end of the      *)
(* agent, killed, restarted by an update or gone with the machine, is the  *)
(* end of all of them.                                                     *)
(***************************************************************************)
EXTENDS SshConfig, Firewall

VARIABLES dest, bak, tmp, runs, upJob, upLapped, astray

Update == INSTANCE SelfUpdate

updateVars == <<dest, bak, tmp, runs, upJob, upLapped, astray>>

vars == <<bounds, sshVars, fwVars, updateVars>>

TypeOK == BoundsOK /\ SshTypeOK /\ FwTypeOK /\ Update!UpTypeOK

Init == BoundsInit /\ SshInit /\ FwInit /\ Update!UpInit

\* A connection is free, and there is a panel to make a call, and an agent.
Callable(s) ==
    /\ sshJob[s] = Idle /\ fwJob[s] = Idle /\ upJob[s] = Idle
    /\ \A p \in Update!Names : runs[p] # Update!Absent

CallSsh ==
    /\ \E s \in Slots, cfg \in SshRequests : Callable(s) /\ SetSSHConfig(s, cfg)
    /\ UNCHANGED <<fwVars, updateVars>>

CallFirewall ==
    /\ \E s \in Slots, operation \in Operations, port \in FirewallPorts,
          version \in Versions :
          Callable(s) /\ FirewallCall(s, operation, port, version)
    /\ UNCHANGED <<sshVars, updateVars>>

CallUpdate ==
    /\ \E s \in Slots : Callable(s) /\ Update!SystemUpdate(s)
    /\ UNCHANGED <<sshVars, fwVars>>

SshWorks == (\E s \in Slots : SshStep(s)) /\ UNCHANGED <<fwVars, updateVars>>
FirewallWorks == (\E s \in Slots : FwStep(s)) /\ UNCHANGED <<sshVars, updateVars>>
UpdateWorks == (\E s \in Slots : Update!UpStep(s)) /\ UNCHANGED <<sshVars, fwVars>>

SshdReads == SshdRereads /\ UNCHANGED <<fwVars, updateVars>>

UpdateEnds == (\E s \in Slots : Update!RestartAgent(s)) /\ SshKilled /\ FwKilled

AgentKilled == SshKilled /\ FwKilled /\ Update!UpKilled

Reboot == SshRebooted /\ FwRebooted /\ Update!UpBooted

PanelStarted == Update!PanelStartedByHand /\ UNCHANGED <<sshVars, fwVars>>

Next ==
    \/ CallSsh \/ CallFirewall \/ CallUpdate
    \/ SshWorks \/ SshdReads \/ FirewallWorks \/ UpdateWorks
    \/ UpdateEnds \/ AgentKilled \/ Reboot \/ PanelStarted

Spec == Init /\ [][Next]_vars

NoProgramLost == Update!NoProgramLost
PanelAndAgentMatch == Update!PanelAndAgentMatch
=============================================================================
