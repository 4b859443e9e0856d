----------------------------- MODULE BackupRuns -----------------------------
(***************************************************************************)
(* The life of a backup job in LiteCP (internal/api/backups.go): the       *)
(* configuration row of each user, the claim a run takes on it, the job    *)
(* rows of backup_jobs, the goroutines that do the work behind the worker  *)
(* semaphore, the scheduler's poll, and what user deletion and a restart   *)
(* of the panel do to all of them.                                         *)
(*                                                                         *)
(* Every SQLite transaction is one step: the connection pool has size one  *)
(* (internal/database/database.go), so transactions do not interleave.     *)
(* What happens between two transactions of a handler does interleave.     *)
(***************************************************************************)
EXTENDS Integers, FiniteSets

CONSTANTS
    Users,        \* system users
    Deletable,    \* bound: the users an administrator may delete
    JobIds,       \* the uuids the panel may ever draw
    NoJob,        \* the empty running_job_id
    Periods,      \* cron schedules, each as its period; 0 is one that never fires
    OtherKinds,   \* job types that take no claim: restores, snapshot deletion
    Workers,      \* capacity of the channel s.sem
    StaleAfter,   \* backupRunStaleAfter
    PollLimit,    \* LIMIT of the scheduler's query
    MaxTime,      \* bound: the last instant
    MaxCrashes,   \* bound: restarts of the panel
    MaxSaves,     \* bound: SaveConfig requests in flight
    DbFaults,     \* may the final transaction of a run fail to begin?
    Hangs         \* may a command of a run hang?

BackupKinds == {"scheduled", "manual"}

ASSUME ConstantsAssumption ==
    /\ Deletable \subseteq Users
    /\ NoJob \notin JobIds
    /\ Periods \subseteq Nat
    /\ OtherKinds \cap BackupKinds = {}
    /\ Workers \in Nat \ {0}
    /\ StaleAfter \in Nat \ {0}
    /\ PollLimit \in Nat \ {0}
    /\ MaxTime \in Nat
    /\ MaxCrashes \in Nat
    /\ MaxSaves \in Nat
    /\ DbFaults \in BOOLEAN /\ Hangs \in BOOLEAN

VARIABLES
    now,          \* the clock
    crashes,      \* restarts so far
    users,        \* usernames with a row in the table users
    homes,        \* usernames with a system account
    configured,   \* usernames with a row in backup_configs
    config,       \* the backup_configs rows
    issued,       \* uuids drawn so far
    rows,         \* ids with a row in backup_jobs
    job,          \* the backup_jobs rows; a goroutine keeps its id and user after its row is gone
    worker,       \* the goroutine of each job
    saves,        \* SaveConfig requests between their read and their upsert
    polled,       \* due usernames the scheduler has read and not yet triggered
    abandoned     \* history: jobs whose goroutine ended without writing the row

vars == <<now, crashes, users, homes, configured, config, issued, rows, job,
          worker, saves, polled, abandoned>>

userVars == <<users, homes>>
-----------------------------------------------------------------------------
NoTime   == -1    \* SQL NULL
ZeroTime == 0     \* the zero time.Time, before every instant of the clock

Times       == Nat \cup {NoTime}
JobStatus   == {"running", "success", "failed"}
JobKinds    == BackupKinds \cup OtherKinds
WorkerStage == {"none", "queued", "working", "hung"}

ConfigRow == [enabled : BOOLEAN, period : Periods, password : BOOLEAN,
              running : JobIds \cup {NoJob}, started : Times,
              nextRun : Times, lastStatus : JobStatus \cup {"idle"}]
JobRow    == [user : Users, kind : JobKinds, status : JobStatus, started : Nat]
Save      == [user : Users, enabled : BOOLEAN, period : Periods, password : BOOLEAN]

\* nextRunAt: the first firing of the schedule after `from`, and the zero time
\* for a schedule that parses but never fires (cron's Schedule.Next).
NextRunAt(period, from) ==
    IF period = 0 THEN ZeroTime ELSE ((from \div period) + 1) * period

NextRunOf(enabled, period) == IF enabled THEN NextRunAt(period, now) ELSE NoTime

\* Mutant: the window ends one instant early.
ClaimedRecentlyShort(u) ==
    /\ config[u].running # NoJob
    /\ config[u].started # NoTime
    /\ now + 1 < config[u].started + StaleAfter

\* The claim of another run on u's row is still young.
ClaimedRecently(u) ==
    /\ config[u].running # NoJob
    /\ config[u].started # NoTime
    /\ now < config[u].started + StaleAfter

Running(j) == worker[j] \in {"working", "hung"}
Working == {j \in JobIds : Running(j)}

Due == {u \in configured : /\ config[u].enabled
                           /\ config[u].nextRun # NoTime
                           /\ config[u].nextRun <= now}

TypeOK ==
    /\ now \in Nat
    /\ crashes \in Nat
    /\ users \subseteq Users
    /\ homes \subseteq Users
    /\ configured \subseteq Users
    /\ config \in [configured -> ConfigRow]
    /\ issued \subseteq JobIds
    /\ rows \subseteq issued
    /\ job \in [issued -> JobRow]
    /\ worker \in [JobIds -> WorkerStage]
    /\ saves \subseteq Save
    /\ polled \subseteq Users
    /\ abandoned \subseteq issued

Init ==
    /\ now = 1
    /\ crashes = 0
    /\ users = Users
    /\ homes = Users
    /\ configured = {}
    /\ config = [u \in {} |-> NoJob]
    /\ issued = {}
    /\ rows = {}
    /\ job = [j \in {} |-> NoJob]
    /\ worker = [j \in JobIds |-> "none"]
    /\ saves = {}
    /\ polled = {}
    /\ abandoned = {}
-----------------------------------------------------------------------------
(***************************************************************************)
(* SaveConfig.  The request is validated against the row it read, then the *)
(* connection is tested, then the row is upserted.  The upsert leaves      *)
(* running_job_id, running_started_at and last_status alone.               *)
(***************************************************************************)
BeginSave(u, enabled, period, newPassword) ==
    LET password == newPassword \/ (u \in configured /\ config[u].password)
    IN  /\ u \in users
        /\ Cardinality(saves) < MaxSaves
        /\ enabled => password
        /\ saves' = saves \cup {[user |-> u, enabled |-> enabled,
                                 period |-> period, password |-> password]}
        /\ UNCHANGED <<now, crashes, userVars, configured, config, issued, rows,
                       job, worker, polled, abandoned>>

SavedRow(s) ==
    LET old == IF s.user \in configured
                 THEN config[s.user]
                 ELSE [running |-> NoJob, started |-> NoTime, lastStatus |-> "idle"]
    IN  [enabled |-> s.enabled, period |-> s.period, password |-> s.password,
         running |-> old.running, started |-> old.started,
         nextRun |-> NextRunOf(s.enabled, s.period), lastStatus |-> old.lastStatus]

StoreConfig(s) ==
    /\ s \in saves
    /\ s.user \in users
    /\ configured' = configured \cup {s.user}
    /\ config' = [u \in configured' |-> IF u = s.user THEN SavedRow(s) ELSE config[u]]
    /\ saves' = saves \ {s}
    /\ UNCHANGED <<now, crashes, userVars, issued, rows, job, worker, polled,
                   abandoned>>

\* The connection test failed, or the foreign key did: the user is gone.
RejectSave(s) ==
    /\ s \in saves
    /\ saves' = saves \ {s}
    /\ UNCHANGED <<now, crashes, userVars, configured, config, issued, rows, job,
                   worker, polled, abandoned>>
-----------------------------------------------------------------------------
(***************************************************************************)
(* claimBackupRun and the goroutine triggerBackup starts behind it.        *)
(***************************************************************************)
NewJob(j, u, kind) ==
    /\ j \in JobIds \ issued
    /\ issued' = issued \cup {j}
    /\ rows' = rows \cup {j}
    /\ job' = [i \in issued' |->
                 IF i = j THEN [user |-> u, kind |-> kind, status |-> "running",
                                started |-> now]
                          ELSE job[i]]


Claimable(u, allowDisabled) ==
    /\ u \in configured
    /\ config[u].password
    /\ allowDisabled \/ config[u].enabled
    /\ ~ClaimedRecently(u)

ClaimedRow(row, j) ==
    [row EXCEPT !.running = j, !.started = now, !.lastStatus = "running"]

TriggerBackup(u, kind, allowDisabled) ==
    \E j \in JobIds :
        /\ Claimable(u, allowDisabled)
        /\ NewJob(j, u, kind)
        /\ config' = [config EXCEPT ![u] = ClaimedRow(@, j)]
        /\ worker' = [worker EXCEPT ![j] = "queued"]
        /\ UNCHANGED <<now, crashes, userVars, configured, saves, abandoned>>

RunNow(u) == TriggerBackup(u, "manual", TRUE) /\ UNCHANGED polled

\* runDueBackups reads at most PollLimit due users, the longest overdue first ...
FirstDue(S) ==
    /\ S \subseteq Due
    /\ Cardinality(S) <= PollLimit
    /\ S # Due => Cardinality(S) = PollLimit
    /\ \A u \in S, v \in Due \ S : config[u].nextRun <= config[v].nextRun

PollDue ==
    /\ polled = {}
    /\ Due # {}
    /\ \E S \in SUBSET Due : FirstDue(S) /\ polled' = S
    /\ UNCHANGED <<now, crashes, userVars, configured, config, issued, rows, job,
                   worker, saves, abandoned>>

\* ... and then triggers them one by one; a refused claim is only logged.
TriggerScheduled(u) ==
    /\ u \in polled
    /\ polled' = polled \ {u}
    /\ TriggerBackup(u, "scheduled", FALSE)

SkipScheduled(u) ==
    /\ u \in polled
    /\ ~Claimable(u, FALSE)
    /\ polled' = polled \ {u}
    /\ UNCHANGED <<now, crashes, userVars, configured, config, issued, rows, job,
                   worker, saves, abandoned>>
-----------------------------------------------------------------------------
(***************************************************************************)
(* RestoreSite, RestoreDatabase and DeleteSnapshot: a job row and a        *)
(* goroutine, no claim.  The restores insert their row before they look    *)
(* the system account up.                                                  *)
(***************************************************************************)
StartOther(u, kind) ==
    \E j \in JobIds :
        /\ u \in configured
        /\ config[u].password
        /\ u \in homes
        /\ NewJob(j, u, kind)
        /\ worker' = [worker EXCEPT ![j] = "queued"]
        /\ UNCHANGED <<now, crashes, userVars, configured, config, saves, polled,
                       abandoned>>

RestoreWithoutHome(u, kind) ==
    \E j \in JobIds :
        /\ kind # "delete_snapshot"
        /\ u \in configured
        /\ config[u].password
        /\ u \notin homes
        /\ NewJob(j, u, kind)
        /\ abandoned' = abandoned \cup {j}
        /\ UNCHANGED <<now, crashes, userVars, configured, config, worker, saves,
                       polled>>

\* s.sem <- struct{}{}
AcquireWorker(j) ==
    /\ worker[j] = "queued"
    /\ Cardinality(Working) < Workers
    /\ worker' = [worker EXCEPT ![j] = "working"]
    /\ UNCHANGED <<now, crashes, userVars, configured, config, issued, rows, job,
                   saves, polled, abandoned>>

\* A command does not return.  The timeout of a backup kills bash and no more, and
\* CombinedOutput goes on waiting for the pipe that a child of it holds open.
Hang(j) ==
    /\ Hangs
    /\ worker[j] = "working"
    /\ worker' = [worker EXCEPT ![j] = "hung"]
    /\ UNCHANGED <<now, crashes, userVars, configured, config, issued, rows, job,
                   saves, polled, abandoned>>

SetStatus(j, status) ==
    job' = IF j \in rows THEN [job EXCEPT ![j].status = status] ELSE job

\* Mutant: the next run is set for a schedule that was disabled meanwhile.
ReleasedRowAlwaysNext(row, status) ==
    [row EXCEPT !.running = NoJob, !.started = NoTime, !.lastStatus = status,
                !.nextRun = NextRunAt(row.period, now)]

\* finishBackupRun: the job row by its id, the configuration only while it
\* still names this job, with the schedule as it is now.
ReleasedRow(row, status) ==
    [row EXCEPT !.running = NoJob, !.started = NoTime, !.lastStatus = status,
                !.nextRun = NextRunOf(row.enabled, row.period)]

\* Mutant: the configuration is released by username alone.
FinishBackupByUsername(j, status) ==
    LET u == job[j].user
    IN  /\ Running(j)
        /\ job[j].kind \in BackupKinds
        /\ SetStatus(j, status)
        /\ config' = IF u \in configured
                       THEN [config EXCEPT ![u] = ReleasedRow(@, status)]
                       ELSE config
        /\ worker' = [worker EXCEPT ![j] = "none"]
        /\ UNCHANGED <<now, crashes, userVars, configured, issued, rows, saves,
                       polled, abandoned>>

\* Mutant: a superseded run returns before it writes its row.
FinishBackupIfCurrent(j, status) ==
    LET u == job[j].user
        current == u \in configured /\ config[u].running = j
    IN  /\ Running(j)
        /\ job[j].kind \in BackupKinds
        /\ IF current THEN SetStatus(j, status) ELSE UNCHANGED job
        /\ config' = IF current
                       THEN [config EXCEPT ![u] = ReleasedRow(@, status)]
                       ELSE config
        /\ worker' = [worker EXCEPT ![j] = "none"]
        /\ UNCHANGED <<now, crashes, userVars, configured, issued, rows, saves,
                       polled, abandoned>>

FinishBackup(j, status) ==
    LET u == job[j].user
    IN  /\ Running(j)
        /\ job[j].kind \in BackupKinds
        /\ SetStatus(j, status)
        /\ config' = IF u \in configured /\ config[u].running = j
                       THEN [config EXCEPT ![u] = ReleasedRow(@, status)]
                       ELSE config
        /\ worker' = [worker EXCEPT ![j] = "none"]
        /\ UNCHANGED <<now, crashes, userVars, configured, issued, rows, saves,
                       polled, abandoned>>

\* Mutant: an early return of the goroutine leaves the row as it is.
FinishOtherSilently(j, status) ==
    /\ Running(j)
    /\ job[j].kind \in OtherKinds
    /\ worker' = [worker EXCEPT ![j] = "none"]
    /\ UNCHANGED <<now, crashes, userVars, configured, config, issued, rows, job,
                   saves, polled, abandoned>>

\* finishJob
FinishOther(j, status) ==
    /\ Running(j)
    /\ job[j].kind \in OtherKinds
    /\ SetStatus(j, status)
    /\ worker' = [worker EXCEPT ![j] = "none"]
    /\ UNCHANGED <<now, crashes, userVars, configured, config, issued, rows, saves,
                   polled, abandoned>>

\* The transaction of finishBackupRun cannot begin, or the update of finishJob
\* fails: logged or ignored, and the goroutine ends.
LoseFinish(j) ==
    /\ DbFaults
    /\ Running(j)
    /\ worker' = [worker EXCEPT ![j] = "none"]
    /\ abandoned' = abandoned \cup {j}
    /\ UNCHANGED <<now, crashes, userVars, configured, config, issued, rows, job,
                   saves, polled>>
-----------------------------------------------------------------------------
(***************************************************************************)
(* UserService: Delete removes the system account, then the row of users,  *)
(* which takes the configuration and the job rows with it (ON DELETE       *)
(* CASCADE).  Goroutines are not told.                                     *)
(***************************************************************************)
DeleteAccount(u) ==
    /\ u \in homes \cap Deletable
    /\ homes' = homes \ {u}
    /\ UNCHANGED <<now, crashes, users, configured, config, issued, rows, job,
                   worker, saves, polled, abandoned>>

\* Mutant: backup_configs does not cascade with users.
DeleteUserRowKeepConfig(u) ==
    /\ u \in users \ homes
    /\ users' = users \ {u}
    /\ rows' = {j \in rows : job[j].user # u}
    /\ UNCHANGED <<now, crashes, homes, configured, config, issued, job, worker,
                   saves, polled, abandoned>>

DeleteUserRow(u) ==
    /\ u \in users \ homes
    /\ users' = users \ {u}
    /\ configured' = configured \ {u}
    /\ config' = [v \in configured' |-> config[v]]
    /\ rows' = {j \in rows : job[j].user # u}
    /\ UNCHANGED <<now, crashes, homes, issued, job, worker, saves, polled,
                   abandoned>>

CreateUser(u) ==
    /\ u \notin users \cup homes
    /\ users' = users \cup {u}
    /\ homes' = homes \cup {u}
    /\ UNCHANGED <<now, crashes, configured, config, issued, rows, job, worker,
                   saves, polled, abandoned>>

\* The panel stops (main waits for no goroutine) and starts again (nothing
\* repairs the rows).
Restart ==
    /\ crashes < MaxCrashes
    /\ crashes' = crashes + 1
    /\ worker' = [j \in JobIds |-> "none"]
    /\ abandoned' = abandoned \cup {j \in issued : worker[j] # "none"}
    /\ saves' = {}
    /\ polled' = {}
    /\ UNCHANGED <<now, userVars, configured, config, issued, rows, job>>

Tick ==
    /\ now < MaxTime
    /\ now' = now + 1
    /\ UNCHANGED <<crashes, userVars, configured, config, issued, rows, job, worker,
                   saves, polled, abandoned>>
-----------------------------------------------------------------------------
Next ==
    \/ \E u \in Users :
         \/ \E enabled, newPassword \in BOOLEAN, period \in Periods :
              BeginSave(u, enabled, period, newPassword)
         \/ RunNow(u)
         \/ TriggerScheduled(u)
         \/ SkipScheduled(u)
         \/ \E kind \in OtherKinds : StartOther(u, kind) \/ RestoreWithoutHome(u, kind)
         \/ DeleteAccount(u)
         \/ DeleteUserRow(u)
         \/ CreateUser(u)
    \/ \E s \in saves : StoreConfig(s) \/ RejectSave(s)
    \/ PollDue
    \/ \E j \in issued :
         \/ AcquireWorker(j)
         \/ Hang(j)
         \/ \E status \in {"success", "failed"} :
              FinishBackup(j, status) \/ FinishOther(j, status)
         \/ LoseFinish(j)
    \/ Restart
    \/ Tick

Spec == Init /\ [][Next]_vars

(***************************************************************************)
(* Fairness: the process goes on running, goroutines waiting on a channel  *)
(* are served in order (strong fairness per job), the commands of a backup *)
(* return, on the timeout of six hours at the latest, unless they hang,    *)
(* the ticker polls.  Nothing is assumed of hung commands, of users, of    *)
(* other jobs (they run without a timeout) or of the clock.                *)
(***************************************************************************)
Fairness ==
    /\ \A j \in JobIds :
         /\ SF_vars(j \in issued /\ AcquireWorker(j))
         /\ WF_vars(\E status \in {"success", "failed"} :
                      j \in issued /\ worker[j] = "working" /\ FinishBackup(j, status))
    /\ WF_vars(PollDue)
    /\ \A u \in Users : WF_vars(TriggerScheduled(u) \/ SkipScheduled(u))

FairSpec == Spec /\ Fairness
-----------------------------------------------------------------------------
(***************************************************************************)
(* Properties.                                                             *)
(***************************************************************************)
\* A run that still matters: its row exists and its goroutine is alive.
LiveBackup(j) ==
    /\ j \in rows
    /\ job[j].kind \in BackupKinds
    /\ worker[j] # "none"

\* Two live backups of one user overlap only if the later one took over a claim
\* that was at least StaleAfter old (claimBackupRun's "backup already running"),
\* whatever was saved, deleted, re-created or restarted in between.
NoOverlapUnlessStale ==
    \A i, j \in issued :
        (i # j /\ LiveBackup(i) /\ LiveBackup(j) /\ job[i].user = job[j].user)
            => \/ job[i].started + StaleAfter <= job[j].started
               \/ job[j].started + StaleAfter <= job[i].started

\* running_job_id of a configuration names an existing, unfinished backup row of
\* the same user, and running_started_at is the instant that job started: a
\* user who is shown "running" has a job to look at, through any cascade.
ClaimNamesRunningJob ==
    \A u \in configured :
        LET j == config[u].running
        IN  j # NoJob =>
              /\ j \in rows
              /\ job[j].user = u
              /\ job[j].kind \in BackupKinds
              /\ job[j].status = "running"
              /\ config[u].started = job[j].started
              /\ config[u].lastStatus = "running"

\* next_run_at is set exactly while the schedule is enabled, although SaveConfig
\* and finishBackupRun both write it, in either order; and an enabled schedule
\* has the password its runs need.
ScheduledIffEnabled ==
    \A u \in configured :
        /\ config[u].enabled <=> config[u].nextRun # NoTime
        /\ config[u].enabled => config[u].password

\* A row of backup_jobs says "running" only while a goroutine is there to finish
\* it; the exceptions are the jobs a restart, a failed final transaction or a
\* restore without a system account has abandoned.
RunningRowHasWorker ==
    \A j \in rows : job[j].status = "running" => worker[j] # "none" \/ j \in abandoned

\* A step takes a claim off a configuration that stays only by finishing the very
\* job that holds it, or after StaleAfter: the finish of a superseded run never
\* releases its successor's claim.
ClaimKept ==
    [][\A u \in configured \cap configured' :
          LET j == config[u].running
          IN  (j # NoJob /\ config'[u].running # j)
                => \/ job'[j].status # "running"
                   \/ config[u].started + StaleAfter <= now]_vars

Life(j) ==
    IF j \notin issued THEN "unborn" ELSE IF j \in rows THEN job[j].status ELSE "gone"

Holder(u) == IF u \in configured THEN config[u].running ELSE NoJob
Since(u) == IF Holder(u) = NoJob THEN 0 ELSE config[u].started

Lease == INSTANCE BackupLease WITH
    Jobs   <- JobIds,
    life   <- [j \in JobIds |-> Life(j)],
    holder <- [u \in Users |-> Holder(u)],
    since  <- [u \in Users |-> Since(u)]

\* Through every save, late finish, deletion and restart, running_job_id is a lease, which
\* its holder's end or cascade gives up and nothing else, and a job that has ended keeps
\* its outcome: no goroutine that has outlived its claim or its row writes again.
ImplementsLease == Lease!Spec

\* Jobs that keep their slot for as long as they like.
Unbounded ==
    {j \in issued : Running(j) /\ (worker[j] = "hung" \/ job[j].kind \in OtherKinds)}

\* While the panel stays up, a claimed backup ends (its row no longer says "running",
\* or is gone with its user), unless it hangs itself, or jobs that hang or have no
\* timeout hold every slot for good.
BackupEnds ==
    \A j \in JobIds :
        []<>(worker[j] # "hung" /\ Cardinality(Unbounded) < Workers) =>
            ((j \in rows /\ job[j].kind \in BackupKinds)
                ~> (j \notin rows \/ job[j].status # "running"))

=============================================================================
