------------------------------ MODULE Firewall ------------------------------
(***************************************************************************)
(* The firewall handlers of the agent (internal/agent/handlers.go).  Each  *)
(* is a sequence of firewall-cmd commands on the permanent rules that ends *)
(* with a reload, which makes them the rules in force; it stops at the     *)
(* first command that fails, and takes nothing back.                       *)
(***************************************************************************)
EXTENDS AgentHandlers, Sequences, FiniteSets

CONSTANTS
    FirewallPorts,  \* the ports rules are made for
    PanelPort,      \* controlPanelPort
    Versions        \* the values of ip_version in requests

ASSUME FirewallAssumption ==
    /\ PanelPort \in FirewallPorts
    /\ Versions \subseteq {"ipv4", "ipv6", "both"}

VARIABLES
    permanent,  \* the permanent rules
    runtime,    \* the rules in force, or Stopped
    fwJob,      \* the handlers under way
    panelHalf   \* history: a handler for the panel's port stopped half way, or
                \*   handlers for any ports ran beside each other or were killed,
                \*   and none has opened the panel's port on its own since

fwVars == <<permanent, runtime, fwJob, panelHalf>>

\* An open port is a rule of the zone, for every address family; the others
\* are rich rules for one.
Families == {"ipv4", "ipv6"}
Open(port) == <<"port", port, "any">>
Rules == {Open(p) : p \in FirewallPorts} \cup ({"accept", "reject"} \X FirewallPorts \X Families)

Stopped == {"stopped"}

FamilySeq(version) == IF version = "both" THEN <<"ipv4", "ipv6">> ELSE <<version>>
FamilySet(version) == IF version = "both" THEN Families ELSE {version}

\* A reject comes before what accepts, whether in a rich rule or by the port.
Permits(rules, port, family) ==
    /\ <<"reject", port, family>> \notin rules
    /\ Open(port) \in rules \/ <<"accept", port, family>> \in rules

Commands == {<<"start">>, <<"stop">>, <<"reload">>} \cup ({"add", "remove"} \X Rules)
Operations == {"enable", "disable", "allow", "deny", "delete"}

FwTypeOK ==
    /\ permanent \subseteq Rules
    /\ runtime = Stopped \/ runtime \subseteq Rules
    /\ \A s \in Slots : fwJob[s] = Idle \/
        /\ fwJob[s].stage \in Operations
        /\ fwJob[s].port \in FirewallPorts
        /\ fwJob[s].version \in Versions \cup {"both"}
        /\ \A i \in DOMAIN fwJob[s].todo : fwJob[s].todo[i] \in Commands
        /\ fwJob[s].lapped \in BOOLEAN
    /\ panelHalf \in BOOLEAN

\* As the installer leaves it.
FwInit ==
    /\ permanent = {Open(PanelPort)}
    /\ runtime = permanent
    /\ fwJob = [s \in Slots |-> Idle]
    /\ panelHalf = FALSE

Each(verb, kind, port, version) ==
    [i \in DOMAIN FamilySeq(version) |-> <<verb, <<kind, port, FamilySeq(version)[i]>>>>]
-----------------------------------------------------------------------------
(***************************************************************************)
(* The commands of each handler; all of them start firewalld if it does    *)
(* not run.  The services http and https, which nothing removes, are left  *)
(* out, and so is the protocol, of which a rule for another one is a rule  *)
(* for another port.                                                       *)
(***************************************************************************)
\* InstallFirewall, and SetFirewallEnabled with true.
EnsureBaselineRules == << <<"start">>, <<"add", Open(PanelPort)>>, <<"reload">> >>

\* Mutant: the rules for one family are left when the port is opened for both.
AllowKeepsRejects(port, version) ==
    << <<"start">> >>
    \o (IF version = "both"
          THEN Each("remove", "accept", port, "both") \o << <<"add", Open(port)>> >>
          ELSE << <<"remove", Open(port)>> >> \o Each("add", "accept", port, version))
    \o << <<"reload">> >>

Allow(port, version) ==
    << <<"start">> >>
    \o Each("remove", "reject", port, version)
    \o (IF version = "both"
          THEN Each("remove", "accept", port, "both") \o << <<"add", Open(port)>> >>
          ELSE << <<"remove", Open(port)>> >> \o Each("add", "accept", port, version))
    \o << <<"reload">> >>

CloseForBoth(port, version) ==
    IF version = "both" THEN << <<"remove", Open(port)>> >> ELSE <<>>

Deny(port, version) ==
    << <<"start">> >> \o CloseForBoth(port, version)
    \o Each("remove", "accept", port, version)
    \o Each("add", "reject", port, version) \o << <<"reload">> >>

Delete(port, version) ==
    << <<"start">> >> \o CloseForBoth(port, version)
    \o Each("remove", "accept", port, version)
    \o Each("remove", "reject", port, version) \o << <<"reload">> >>

Todo(operation, port, version) ==
    CASE operation = "enable" -> EnsureBaselineRules
      [] operation = "disable" -> << <<"stop">> >>
      [] operation = "allow" -> Allow(port, version)
      [] operation = "deny" -> Deny(port, version)
      [] operation = "delete" -> Delete(port, version)

FwQuiet == \A s \in Slots : fwJob[s] = Idle

\* Mutant: the panel's port is not protected.
AnyPort(operation, port) == TRUE

\* Deny and Delete refuse the panel's port; the switch has no port.
Permissible(operation, port) ==
    \/ operation = "allow"
    \/ operation \in {"deny", "delete"} /\ port # PanelPort
    \/ operation \in {"enable", "disable"} /\ port = PanelPort

FirewallCall(s, operation, port, version) ==
    /\ Calling
    /\ Permissible(operation, port)
    /\ operation \in {"enable", "disable"} => version = "both"
    /\ fwJob' = [t \in Slots |->
          IF t = s THEN [stage |-> operation, port |-> port, version |-> version,
                         todo |-> Todo(operation, port, version), lapped |-> ~FwQuiet]
          ELSE IF fwJob[t] = Idle THEN Idle
          ELSE [fwJob[t] EXCEPT !.lapped = TRUE]]
    /\ panelHalf' = (panelHalf \/ ~FwQuiet)
    /\ UNCHANGED <<permanent, runtime>>
-----------------------------------------------------------------------------
(***************************************************************************)
(* The commands.  A rule can be added twice and removed when it is not     *)
(* there: the handlers take these answers of firewall-cmd for success.     *)
(***************************************************************************)
Running == runtime # Stopped
Next1(s) == Head(fwJob[s].todo)

Start == runtime' = (IF Running THEN runtime ELSE permanent) /\ UNCHANGED permanent
Stop == runtime' = Stopped /\ UNCHANGED permanent
Reload == runtime' = (IF Running THEN permanent ELSE Stopped) /\ UNCHANGED permanent
Change(verb, rule) ==
    /\ Running
    /\ permanent' = IF verb = "add" THEN permanent \cup {rule} ELSE permanent \ {rule}
    /\ UNCHANGED runtime

RunCommand(s) ==
    /\ fwJob[s] # Idle
    /\ Working
    /\ CASE Next1(s) = <<"start">> -> Start
         [] Next1(s) = <<"stop">> -> Stop
         [] Next1(s) = <<"reload">> -> Reload
         [] OTHER -> Change(Next1(s)[1], Next1(s)[2])
    /\ LET rest == Tail(fwJob[s].todo)
           opens == fwJob[s].stage \in {"enable", "allow"} /\ fwJob[s].port = PanelPort
       IN  /\ fwJob' = [fwJob EXCEPT ![s] =
                 IF rest = <<>> THEN Idle ELSE [@ EXCEPT !.todo = rest]]
           /\ panelHalf' = (panelHalf /\ ~(rest = <<>> /\ opens /\ ~fwJob[s].lapped))

\* A command is refused, by a daemon that has been stopped in between too.
CommandFails(s) ==
    /\ fwJob[s] # Idle
    /\ \/ Failing
       \/ Working /\ ~Running /\ Next1(s)[1] \in {"add", "remove"}
    /\ fwJob' = [fwJob EXCEPT ![s] = Idle]
    /\ panelHalf' = (panelHalf \/ fwJob[s].port = PanelPort)
    /\ UNCHANGED <<permanent, runtime>>

FwStep(s) == RunCommand(s) \/ CommandFails(s)

FwKilled ==
    /\ fwJob' = [s \in Slots |-> Idle]
    /\ panelHalf' = (panelHalf \/ ~FwQuiet)
    /\ UNCHANGED <<permanent, runtime>>
\* firewalld is started at boot when it ran: the handlers that start and stop it
\* enable and disable it too.
FwRebooted ==
    /\ fwJob' = [s \in Slots |-> Idle]
    /\ panelHalf' = (panelHalf \/ ~FwQuiet)
    /\ runtime' = IF Running THEN permanent ELSE Stopped
    /\ UNCHANGED permanent
-----------------------------------------------------------------------------
\* While firewalld runs, the panel is reached by one address family at least,
\* whatever was allowed, denied and deleted for whichever families, and whatever
\* failed for other ports; but allowing the panel's port for one family closes
\* it for the other, and half of that closes it for both.  Nothing is claimed
\* once handlers have overlapped or been killed, for whatever port, until the
\* panel's is opened again.
PanelReachable ==
    Running /\ ~panelHalf => \E f \in Families : Permits(runtime, PanelPort, f)

Succeeded(s) == Answered(fwJob, s) /\ Len(fwJob[s].todo) = 1 /\ faults' = faults

\* When a handler succeeds, the rules in force say what it was asked for, over
\* whatever earlier handlers left, finished or not: every family it named is let
\* in after Allow, kept out after Deny, and has no rich rule after Delete.
AnswerIsInForce ==
    [][\A s \in Slots :
          LET job == fwJob[s]
          IN  Succeeded(s) /\ ~job.lapped /\ runtime' # Stopped =>
                \A f \in FamilySet(job.version) :
                   /\ job.stage \in {"allow", "enable"}
                        => Permits(runtime', job.port, f)
                   /\ job.stage = "deny" => ~Permits(runtime', job.port, f)
                   /\ job.stage = "delete" =>
                        runtime' \cap ({"accept", "reject"} \X {job.port} \X {f}) = {}
      ]_fwVars
=============================================================================
