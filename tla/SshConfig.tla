----------------------------- MODULE SshConfig -----------------------------
(***************************************************************************)
(* ssh.setConfig (internal/agent/handlers.go): the handler changes up to   *)
(* three files of the SSH daemon, lets the daemon check them, restarts it, *)
(* and puts the files back when something fails.  A file is the directives *)
(* it holds; one with none says what a missing one says.                   *)
(***************************************************************************)
EXTENDS AgentHandlers, Sequences, FiniteSets

CONSTANTS
    SshPorts,     \* the ports the daemon may be told to listen on
    DefaultPort,  \* the one it listens on when no file names one
    SshRequests,  \* the settings asked for
    SshFiles      \* the contents the files may have at first

NoPort == 0

\* The main file; a file of the distribution under sshd_config.d, which sorts
\* before the panel's; and the panel's drop-in, litecp.conf.
Names == {"main", "vendor", "litecp"}

\* How the main file includes the others: not at all, before its own directives or
\* after them, or only one file of their directory, not the panel's.
Includes == {"no", "first", "late", "other"}

Directives ==
    [include : Includes, port : SshPorts \cup {NoPort}, password : {"yes", "no", "unset"}]

ASSUME SshAssumption ==
    /\ SshPorts \subseteq Nat \ {NoPort} /\ DefaultPort \in SshPorts
    /\ SshRequests \subseteq [port : SshPorts, password : {"yes", "no"}]
    /\ SshFiles \subseteq [Names -> Directives]

VARIABLES
    files,    \* the configuration files
    served,   \* what the running daemon does, or Down
    sighup,   \* it was told to read the files again, and has not done so yet
    sshJob,   \* the handlers under way
    sshDirty  \* history: a handler was killed or has left the files half
              \*   changed, or the daemon has read them while one was under
              \*   way, and none has succeeded on its own since

sshVars == <<files, served, sighup, sshJob, sshDirty>>

Down == [ports |-> {}, password |-> "down"]

Empty == [include |-> "no", port |-> NoPort, password |-> "unset"]

DropIn(cfg) == [include |-> "no", port |-> cfg.port, password |-> cfg.password]

\* What sshd makes of the files: it reads those that are included where they are
\* included, listens on every Port, and heeds the first word about passwords.
Read(fs) ==
    CASE fs["main"].include = "no" -> <<"main">>
      [] fs["main"].include = "first" -> <<"vendor", "litecp", "main">>
      [] fs["main"].include = "late" -> <<"main", "vendor", "litecp">>
      [] fs["main"].include = "other" -> <<"vendor", "main">>

Named(fs) == {fs[Read(fs)[i]].port : i \in DOMAIN Read(fs)} \ {NoPort}
Saying(fs) == {i \in DOMAIN Read(fs) : fs[Read(fs)[i]].password # "unset"}
FirstSaying(fs) == CHOOSE i \in Saying(fs) : \A k \in Saying(fs) : i <= k

Effective(fs) ==
    [ports |-> IF Named(fs) = {} THEN {DefaultPort} ELSE Named(fs),
     password |-> IF Saying(fs) = {} THEN "yes" ELSE fs[Read(fs)[FirstSaying(fs)]].password]

Stages == {"include", "dropin", "ports", "check", "restart", "undo"}

SshTypeOK ==
    /\ files \in [Names -> Directives]
    /\ served.ports \subseteq SshPorts
    /\ sighup \in BOOLEAN
    /\ \A s \in Slots : sshJob[s] = Idle \/
        /\ sshJob[s].stage \in Stages
        /\ sshJob[s].cfg \in SshRequests
        /\ sshJob[s].before \in [Names -> Directives]
        /\ sshJob[s].spoiled \in BOOLEAN
        /\ \A back \in {sshJob[s].main, sshJob[s].undo} :
              \A i \in DOMAIN back : back[i] \in Names \X Directives
    /\ sshDirty \in BOOLEAN

SshInit ==
    /\ files \in SshFiles
    /\ served = Effective(files)
    /\ sighup = FALSE
    /\ sshJob = [s \in Slots |-> Idle]
    /\ sshDirty = FALSE

At(s, stage) == sshJob[s].stage = stage
SshQuiet == \A s \in Slots : sshJob[s] = Idle

Goes(s, record) == sshJob' = [sshJob EXCEPT ![s] = record]
Stores(name, content) == files' = [files EXCEPT ![name] = content]

\* A write fails before or after the file was truncated.
Tears(name) == Failing /\ (UNCHANGED files \/ Stores(name, Empty))

SshFails(s) ==
    /\ Goes(s, Idle)
    /\ sshDirty' = (sshDirty \/ sshJob[s].spoiled)
-----------------------------------------------------------------------------
(***************************************************************************)
(* handleSetSSHConfig.  What it has to put back is a sequence of files and *)
(* contents: "main" for the include, "undo" for what comes before that.    *)
(* "before" is history, but for the drop-in, which is previousContent, and *)
(* "spoiled": another handler for SSH ran beside this one, or a write went *)
(* wrong that it does not undo.                                            *)
(***************************************************************************)
SetSSHConfig(s, cfg) ==
    /\ Calling
    /\ sshJob' = [t \in Slots |->
          IF t = s THEN [stage |-> "include", cfg |-> cfg, before |-> files,
                         main |-> <<>>, undo |-> <<>>, spoiled |-> ~SshQuiet]
          ELSE IF sshJob[t] = Idle THEN Idle
          ELSE [sshJob[t] EXCEPT !.spoiled = TRUE]]
    /\ UNCHANGED <<files, served, sighup, sshDirty>>

\* The given files with what they hold now, to be put back by restoreSSHFiles.
Back(names) == [i \in 1..Cardinality(names) |->
    LET name == IF i = 1 /\ "main" \in names THEN "main" ELSE "vendor"
    IN  <<name, files[name]>>]

Included == files["main"].include # "no"

\* ensureSSHDropInInclude: an Include of that directory will do, wherever it is and
\* whatever it names there.  Its own write is not undone when it fails.
EnsureInclude(s) ==
    /\ At(s, "include")
    /\ \/ /\ Working
          /\ Stores("main", [files["main"] EXCEPT !.include = IF Included THEN @ ELSE "first"])
          /\ Goes(s, [sshJob[s] EXCEPT !.stage = "dropin",
                !.main = IF Included THEN <<>> ELSE Back({"main"})])
          /\ UNCHANGED sshDirty
       \/ /\ ~Included
          /\ Tears("main")
          /\ Goes(s, Idle)
          /\ sshDirty' = (sshDirty \/ files' # files)
    /\ UNCHANGED <<served, sighup>>

UndoDropIn(s) == <<<<"litecp", sshJob[s].before["litecp"]>>>>

\* A write of the drop-in that fails is not undone, that of the include is.
WriteDropIn(s) ==
    /\ At(s, "dropin")
    /\ \/ /\ Working
          /\ Stores("litecp", DropIn(sshJob[s].cfg))
          /\ Goes(s, [sshJob[s] EXCEPT !.stage = "ports"])
       \/ /\ Tears("litecp")
          /\ Goes(s, [sshJob[s] EXCEPT !.stage = "undo", !.undo = sshJob[s].main,
                        !.spoiled = @ \/ files' # files])
    /\ UNCHANGED <<served, sighup, sshDirty>>

Conflicting(port) == {n \in {"main", "vendor"} : files[n].port \notin {NoPort, port}}
Commented(names) ==
    [n \in Names |-> IF n \in names THEN [files[n] EXCEPT !.port = NoPort] ELSE files[n]]

\* Mutant: only the main file is searched for other ports.
DisableMainPort(s) ==
    LET conflicting == Conflicting(sshJob[s].cfg.port) \ {"vendor"} IN
    /\ At(s, "ports")
    /\ Working
    /\ files' = Commented(conflicting)
    /\ Goes(s, [sshJob[s] EXCEPT !.stage = "check", !.undo = Back(conflicting)])
    /\ UNCHANGED <<served, sighup, sshDirty>>

\* disableConflictingSSHPortDirectives: a failed write is undone at once, with
\* those before it.
DisableConflictingPorts(s) ==
    LET conflicting == Conflicting(sshJob[s].cfg.port) IN
    /\ At(s, "ports")
    /\ \/ /\ Working
          /\ files' = Commented(conflicting)
          /\ Goes(s, [sshJob[s] EXCEPT !.stage = "check", !.undo = Back(conflicting)])
       \/ \E n \in conflicting :
            LET done == IF n = "vendor" THEN conflicting \ {n} ELSE {} IN
            /\ Failing
            /\ files' \in {Commented(done), [Commented(done) EXCEPT ![n] = Empty]}
            /\ Goes(s, [sshJob[s] EXCEPT !.stage = "undo",
                          !.undo = Back(done \cup {n}) \o sshJob[s].main \o UndoDropIn(s)])
    /\ UNCHANGED <<served, sighup, sshDirty>>

\* Mutant: the main file is put back before the files that held other ports.
UndoMainFirst(s) == sshJob[s].main \o sshJob[s].undo \o UndoDropIn(s)

UndoAll(s) == sshJob[s].undo \o sshJob[s].main \o UndoDropIn(s)

\* The daemon's binary is looked for, and checks the files with -t.
Validate(s) ==
    /\ At(s, "check")
    /\ \/ Working /\ Goes(s, [sshJob[s] EXCEPT !.stage = "restart"])
       \/ /\ Failing
          /\ Goes(s, [sshJob[s] EXCEPT !.stage = "undo", !.undo = UndoAll(s)])
    /\ UNCHANGED <<files, served, sighup, sshDirty>>

\* The service manager restarts the daemon, which then serves what the files say; or,
\* when it runs, signals it to read them again and does not wait for that; or fails,
\* leaving it as it was, or down.
Restarts == served' = Effective(files) /\ sighup' = FALSE
Signals == served # Down /\ sighup' = TRUE /\ UNCHANGED served
RestartFails == UNCHANGED <<served, sighup>> \/ (served' = Down /\ sighup' = FALSE)

\* Mutant: the files stay when the daemon cannot be restarted.
RestartAndLeave(s) ==
    /\ At(s, "restart")
    /\ \/ /\ Working
          /\ Restarts \/ Signals
          /\ sshDirty' = IF sshJob[s].spoiled THEN sshDirty ELSE FALSE
       \/ Failing /\ RestartFails /\ UNCHANGED sshDirty
    /\ Goes(s, Idle)
    /\ UNCHANGED files

\* There is no second restart once the files are back.
RestartSSHService(s) ==
    /\ At(s, "restart")
    /\ \/ /\ Working
          /\ Restarts \/ Signals
          /\ sshDirty' = IF sshJob[s].spoiled THEN sshDirty ELSE FALSE
          /\ Goes(s, Idle)
       \/ /\ Failing
          /\ RestartFails
          /\ Goes(s, [sshJob[s] EXCEPT !.stage = "undo", !.undo = UndoAll(s)])
          /\ UNCHANGED sshDirty
    /\ UNCHANGED files

\* The errors of writing the files back are ignored.
Undo(s) ==
    /\ At(s, "undo")
    /\ IF sshJob[s].undo = <<>>
         THEN Working /\ SshFails(s) /\ UNCHANGED files
         ELSE LET back == Head(sshJob[s].undo)
                  rest == [sshJob[s] EXCEPT !.undo = Tail(@)]
              IN  /\ \/ Working /\ Stores(back[1], back[2]) /\ Goes(s, rest)
                     \/ Tears(back[1]) /\ Goes(s, [rest EXCEPT !.spoiled = TRUE])
                  /\ UNCHANGED sshDirty
    /\ UNCHANGED <<served, sighup>>

SshStep(s) ==
    \/ EnsureInclude(s) \/ WriteDropIn(s) \/ DisableConflictingPorts(s)
    \/ Validate(s) \/ RestartSSHService(s) \/ Undo(s)

SshKilled ==
    /\ sshJob' = [s \in Slots |-> Idle]
    /\ sshDirty' = (sshDirty \/ ~SshQuiet)
    /\ UNCHANGED <<files, served, sighup>>

\* The daemon that was signalled reads the files, which the next handler may be
\* changing, and ends when it cannot have the port, which its check does not try.
SshdRereads ==
    /\ sighup
    /\ \/ Working /\ served' = Effective(files)
       \/ Failing /\ served' = Down
    /\ sighup' = FALSE
    /\ sshDirty' = (sshDirty \/ ~SshQuiet)
    /\ UNCHANGED <<files, sshJob>>

\* The daemon is started at boot, and reads what is there.
SshRebooted ==
    /\ sshJob' = [s \in Slots |-> Idle]
    /\ served' \in {Effective(files), Down}
    /\ sighup' = FALSE
    /\ sshDirty' = FALSE
    /\ UNCHANGED files
-----------------------------------------------------------------------------
\* A call that is refused leaves every file as it found it, whichever step it stopped
\* at: three files are changed, two of them maybe twice, and put back from readings
\* taken at different times.  When a call succeeds and sshd reads the panel's file, the
\* files together make it listen on the port named and on no other, and take passwords
\* as asked unless a file it reads before says something about them.  Not so when a
\* write went wrong that the handler does not undo, or when another handler ran beside
\* it; and an Include that leaves the panel's file out is taken for one of it.
AllOrNothing ==
    [][\A s \in Slots : Answered(sshJob, s) /\ ~sshJob[s].spoiled =>
          /\ At(s, "undo") => files' = sshJob[s].before
          /\ At(s, "restart") => \A i \in DOMAIN Read(files') : Read(files')[i] = "litecp" =>
               /\ Effective(files').ports = {sshJob[s].cfg.port}
               /\ (\A k \in 1..(i - 1) : files'[Read(files')[k]].password = "unset")
                    => Effective(files').password = sshJob[s].cfg.password]_sshVars

\* Between calls the daemon does what its files say, once it has read them, or is
\* down because it could not be restarted or have its port; what it would do after a
\* reboot is then what it does now.  Not after a handler that was killed or could not
\* put the files back, nor when the daemon has read them while one was under way.
ServedIsFiles ==
    SshQuiet /\ ~sshDirty /\ ~sighup => served \in {Effective(files), Down}
=============================================================================
