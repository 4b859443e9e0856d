----------------------------- MODULE SelfUpdate -----------------------------
(***************************************************************************)
(* system.update (internal/agent/handlers.go): the agent downloads both    *)
(* programs, stops the panel, replaces the one and then the other, and     *)
(* starts the panel and restarts itself.  A handler may find another one   *)
(* at the same files: both use one directory for what they download.       *)
(***************************************************************************)
EXTENDS AgentHandlers, Sequences

VARIABLES
    dest,    \* the installed programs
    bak,     \* their backups
    tmp,     \* the downloads
    runs,    \* the programs that run
    upJob,   \* the handlers under way
    upLapped,\* history: two updates have overlapped
    astray   \* history: the panel was started from outside, by hand or at
             \*   boot, when the installed programs and the agent were not of
             \*   one version, or the service manager refused to stop it or to
             \*   restart the agent; and since then it was not stopped, nor
             \*   were both started anew

upVars == <<dest, bak, tmp, runs, upJob, upLapped, astray>>

Programs == <<"panel", "agent">>
Names == {Programs[i] : i \in DOMAIN Programs}

Absent == <<"absent">>
Old == <<"old">>
New == <<"new">>
Torn == <<"torn">>
Part(s) == <<"part", s>>  \* being written by the handler in slot s
Contents == {Absent, Old, New, Torn} \cup {Part(s) : s \in Slots}

UpStages == {"deps", "clear", "fetch", "fetching", "stop", "backup", "install",
             "restore", "drop", "start", "restart"}

UpTypeOK ==
    /\ {dest, bak, tmp} \subseteq [Names -> Contents]
    /\ runs \in [Names -> {Absent, Old, New}]
    /\ upJob \in [Slots -> {Idle} \cup [stage : UpStages, program : DOMAIN Programs]]
    /\ upLapped \in BOOLEAN
    /\ astray \in BOOLEAN

UpInit ==
    /\ dest = [p \in Names |-> Old]
    /\ bak = [p \in Names |-> Absent]
    /\ tmp = [p \in Names |-> Absent]
    /\ runs = dest
    /\ upJob = [s \in Slots |-> Idle]
    /\ upLapped = FALSE
    /\ astray = FALSE

UpAt(s, stage) == upJob[s].stage = stage
Program(s) == Programs[upJob[s].program]
UpQuiet == \A s \in Slots : upJob[s] = Idle

UpGoes(s, record) == upJob' = [upJob EXCEPT ![s] = record]
Onto(s, stage) == UpGoes(s, [upJob[s] EXCEPT !.stage = stage])

\* The loops over both programs: the first stage again, or on.
Further(s, again, on) ==
    UpGoes(s, IF upJob[s].program = Len(Programs) THEN [stage |-> on, program |-> 1]
              ELSE [stage |-> again, program |-> upJob[s].program + 1])

Put(file, p, content) == [file EXCEPT ![p] = content]
NoFiles == [p \in Names |-> Absent]

\* What was being written in slot s stays as it is, wherever it is by now.
Cut(file, slots) ==
    [p \in Names |-> IF file[p] \in {Part(s) : s \in slots} THEN Torn ELSE file[p]]

Runnable(content) == IF content \in {Old, New} THEN content ELSE Absent
-----------------------------------------------------------------------------
(***************************************************************************)
(* handleSystemUpdate, up to the downloads.                                *)
(***************************************************************************)
SystemUpdate(s) ==
    /\ Calling
    /\ UpGoes(s, [stage |-> "deps", program |-> 1])
    /\ upLapped' = (upLapped \/ ~UpQuiet)
    /\ UNCHANGED <<dest, bak, tmp, runs, astray>>

\* installMissingBackupDependencies.
InstallDependencies(s) ==
    /\ UpAt(s, "deps")
    /\ \/ Working /\ Onto(s, "clear")
       \/ Failing /\ UpGoes(s, Idle)
    /\ UNCHANGED <<dest, bak, tmp, runs, upLapped, astray>>

ClearDownloads(s) ==
    /\ UpAt(s, "clear")
    /\ Working
    /\ tmp' = NoFiles
    /\ Onto(s, "fetch")
    /\ UNCHANGED <<dest, bak, runs, upLapped, astray>>

\* curl writes into the file of that name, also when another handler is.
Fetch(s) ==
    /\ UpAt(s, "fetch")
    /\ Working
    /\ tmp' = Put(tmp, Program(s), Part(s))
    /\ Onto(s, "fetching")
    /\ UNCHANGED <<dest, bak, runs, upLapped, astray>>

\* The file is complete, also when it has been moved in the meantime.
Fetched(s) ==
    LET whole(file) == [p \in Names |-> IF file[p] = Part(s) THEN New ELSE file[p]] IN
    /\ UpAt(s, "fetching")
    /\ Working
    /\ tmp' = whole(tmp)
    /\ dest' = whole(dest)
    /\ bak' = whole(bak)
    /\ Further(s, "fetch", "stop")
    /\ UNCHANGED <<runs, upLapped, astray>>

FetchFails(s) ==
    /\ UpAt(s, "fetching")
    /\ Failing
    /\ tmp' = NoFiles
    /\ dest' = Cut(dest, {s})
    /\ bak' = Cut(bak, {s})
    /\ UpGoes(s, Idle)
    /\ UNCHANGED <<runs, upLapped, astray>>
-----------------------------------------------------------------------------
(***************************************************************************)
(* handleSystemUpdate, from the stop of the panel on.                      *)
(***************************************************************************)
\* The outcome of the stop is not looked at.
StopPanel(s) ==
    /\ UpAt(s, "stop")
    /\ \/ Working /\ runs' = Put(runs, "panel", Absent) /\ astray' = FALSE
       \/ Failing /\ astray' = TRUE /\ UNCHANGED runs
    /\ Onto(s, "backup")
    /\ UNCHANGED <<dest, bak, tmp, upLapped>>

\* A rename that fails, because there is nothing to rename, changes nothing.
Renamed(from, to, p) ==
    IF from[p] = Absent THEN [from |-> from, to |-> to]
    ELSE [from |-> Put(from, p, Absent), to |-> Put(to, p, from[p])]

\* Mutant: the program is removed instead of being kept as a backup.
BackUpByRemoval(s) ==
    /\ UpAt(s, "backup")
    /\ Working
    /\ dest' = Put(dest, Program(s), Absent)
    /\ Onto(s, "install")
    /\ UNCHANGED <<bak, tmp, runs, upLapped, astray>>

BackUp(s) ==
    LET moved == Renamed(dest, bak, Program(s)) IN
    /\ UpAt(s, "backup")
    /\ \/ Working /\ dest' = moved.from /\ bak' = moved.to
       \/ Failing /\ UNCHANGED <<dest, bak>>
    /\ Onto(s, "install")
    /\ UNCHANGED <<tmp, runs, upLapped, astray>>

Install(s) ==
    LET moved == Renamed(tmp, dest, Program(s)) IN
    /\ UpAt(s, "install")
    /\ \/ /\ Working
          /\ tmp[Program(s)] # Absent
          /\ tmp' = moved.from
          /\ dest' = moved.to
          /\ Onto(s, "drop")
       \/ /\ IF tmp[Program(s)] = Absent THEN Working ELSE Failing
          /\ Onto(s, "restore")
          /\ UNCHANGED <<tmp, dest>>
    /\ UNCHANGED <<bak, runs, upLapped, astray>>

\* Mutant: the panel is started again when an update fails.
RestoreAndStart(s) ==
    LET moved == Renamed(bak, dest, Program(s)) IN
    /\ UpAt(s, "restore")
    /\ Working
    /\ bak' = moved.from
    /\ dest' = moved.to
    /\ tmp' = NoFiles
    /\ runs' = Put(runs, "panel", Runnable(moved.to["panel"]))
    /\ UpGoes(s, Idle)
    /\ UNCHANGED <<upLapped, astray>>

\* The backup of this program comes back, not that of the one before it; the
\* panel stays stopped.
Restore(s) ==
    LET moved == Renamed(bak, dest, Program(s)) IN
    /\ UpAt(s, "restore")
    /\ \/ Working /\ bak' = moved.from /\ dest' = moved.to
       \/ Failing /\ UNCHANGED <<bak, dest>>
    /\ tmp' = NoFiles
    /\ UpGoes(s, Idle)
    /\ UNCHANGED <<runs, upLapped, astray>>

DropBackup(s) ==
    /\ UpAt(s, "drop")
    /\ Working
    /\ bak' = Put(bak, Program(s), Absent)
    /\ Further(s, "backup", "start")
    /\ UNCHANGED <<dest, tmp, runs, upLapped, astray>>

\* RemoveAll, runStartupMigrations, and systemctl start, which starts no second
\* panel; its outcome is not looked at.
StartPanel(s) ==
    /\ UpAt(s, "start")
    /\ tmp' = NoFiles
    /\ \/ /\ Working
          /\ runs' = IF runs["panel"] = Absent
                       THEN Put(runs, "panel", Runnable(dest["panel"])) ELSE runs
       \/ Failing /\ UNCHANGED runs
    /\ Onto(s, "restart")
    /\ UNCHANGED <<dest, bak, upLapped, astray>>

\* The service manager starts the agent that is installed, whatever ran in the
\* old one being gone; and the panel, which requires the agent (install.sh), is
\* restarted with it when it runs.
PanelAnew == IF runs["panel"] = Absent THEN Absent ELSE Runnable(dest["panel"])

AgentStarts(panel) ==
    /\ dest' = Cut(dest, Slots)
    /\ bak' = Cut(bak, Slots)
    /\ tmp' = Cut(tmp, Slots)
    /\ runs' = [p \in Names |-> IF p = "panel" THEN panel ELSE Runnable(dest[p])]
    /\ upJob' = [s \in Slots |-> Idle]
    /\ UNCHANGED upLapped

RestartAgent(s) ==
    /\ UpAt(s, "restart")
    /\ Booting
    /\ AgentStarts(PanelAnew)
    /\ astray' = FALSE

\* The outcome of the restart is not looked at: when it is refused the agent that
\* was replaced goes on, and answers that the update is done.
RestartAgentFails(s) ==
    /\ UpAt(s, "restart")
    /\ Failing
    /\ UpGoes(s, Idle)
    /\ astray' = TRUE
    /\ UNCHANGED <<dest, bak, tmp, runs, upLapped>>

\* The agent dies, and is started again; the panel with it or not.
UpKilled ==
    /\ Room
    /\ Booting
    /\ runs["agent"] # Absent
    /\ \E panel \in {runs["panel"], PanelAnew} : AgentStarts(panel)
    /\ UNCHANGED astray

Unequal(panel, agent) == panel # agent \/ panel # dest["agent"]

\* The machine is started again, and with it both programs, which are enabled.
UpBooted ==
    /\ Room
    /\ Booting
    /\ AgentStarts(Runnable(dest["panel"]))
    /\ astray' = Unequal(dest["panel"], dest["agent"])

\* The administrator starts the panel, after an update that did not go through.
PanelStartedByHand ==
    /\ Working
    /\ UpQuiet
    /\ runs["panel"] = Absent
    /\ Runnable(dest["panel"]) # Absent
    /\ runs' = Put(runs, "panel", dest["panel"])
    /\ astray' = Unequal(dest["panel"], runs["agent"])
    /\ UNCHANGED <<dest, bak, tmp, upJob, upLapped>>

UpStep(s) ==
    \/ InstallDependencies(s) \/ ClearDownloads(s) \/ Fetch(s) \/ Fetched(s)
    \/ FetchFails(s) \/ StopPanel(s) \/ BackUp(s) \/ Install(s) \/ Restore(s)
    \/ DropBackup(s) \/ StartPanel(s) \/ RestartAgentFails(s)
-----------------------------------------------------------------------------
\* Wherever an update stops, whatever has failed in it and in earlier ones, each
\* program is there, complete, under its own name or as its backup.  Not when
\* two updates overlap: the one removes the backup the other one has just made.
NoProgramLost ==
    ~upLapped => \A p \in Names : {dest[p], bak[p]} \cap {Old, New} # {}

\* While no update is under way the panel speaks to an agent of its own version, and
\* both are the ones installed, whatever has failed, died and been started in updates
\* before: an update that has replaced one program only leaves the panel stopped, and
\* one that goes through starts both.  Not when the service manager refused, an
\* outcome the agent ignores, nor when the panel was started from outside, by hand or
\* at boot, over programs of which one only had been replaced.
PanelAndAgentMatch ==
    UpQuiet /\ ~upLapped /\ ~astray /\ runs["panel"] # Absent =>
        \A p \in Names : runs[p] = runs["panel"] /\ dest[p] = runs["panel"]
=============================================================================
