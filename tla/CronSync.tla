------------------------------ MODULE CronSync ------------------------------
(***************************************************************************)
(* The cron jobs of one user: internal/api/cron.go writes a row, then      *)
(* reads all rows of the user and has the agent install them as the        *)
(* crontab (handleSyncCronJobs).  Two requests may list and install in     *)
(* different orders, and a call to the agent that has failed may still be  *)
(* carried out (AgentCall).                                                *)
(***************************************************************************)
EXTENDS Naturals, FiniteSets

CONSTANTS
    Jobs,          \* the uuids Create draws
    Commands,      \* what a job runs, and when
    CronRequests,  \* requests served at the same time
    MayFail        \* whether calls to the agent fail and the panel restarts

ASSUME CronAssumption == MayFail \in BOOLEAN

VARIABLES
    rows,        \* cron_jobs, by id
    created,     \* uuids used so far
    crontab,     \* the lines of the system crontab
    cronReq,     \* the requests under way
    orphans,     \* crontabs the agent may still install for calls that failed
    dirty        \* history: a request has been disturbed since the last that
                 \*   ran by itself and succeeded

cronVars == <<rows, created, crontab, cronReq, orphans, dirty>>

CronRow == [command : Commands, enabled : BOOLEAN]
Line == [job : Jobs, command : Commands]
CronIdle == [stage |-> "idle"]

\* A request between two of its steps: the row it is about to write, the crontab
\* it has read.  alone says that no other request has been under way beside it.
CronRequest ==
    {CronIdle}
    \cup [stage : {"found"}, job : Jobs, alone : BOOLEAN]
    \cup [stage : {"written"}, alone : BOOLEAN]
    \cup [stage : {"listed"}, lines : SUBSET Line, alone : BOOLEAN]

CronTypeOK ==
    /\ DOMAIN rows \subseteq created /\ \A j \in DOMAIN rows : rows[j] \in CronRow
    /\ created \subseteq Jobs
    /\ crontab \subseteq Line
    /\ cronReq \in [CronRequests -> CronRequest]
    /\ orphans \subseteq SUBSET Line
    /\ dirty \in BOOLEAN

CronInit ==
    /\ rows = <<>>
    /\ created = {}
    /\ crontab = {}
    /\ cronReq = [r \in CronRequests |-> CronIdle]
    /\ orphans = {}
    /\ dirty = FALSE

Busy == {r \in CronRequests : cronReq[r] # CronIdle}

\* What ListCronJobs and the agent's loop over it make of the rows.
Enabled == {[job |-> j, command |-> rows[j].command] : j \in {i \in DOMAIN rows : rows[i].enabled}}

With(j, row) == [i \in DOMAIN rows \cup {j} |-> IF i = j THEN row ELSE rows[i]]

\* A request starts: none that is under way is alone any more.
Start(r, record) ==
    cronReq' = [q \in CronRequests |->
              IF q = r THEN record
              ELSE IF cronReq[q] = CronIdle THEN CronIdle
              ELSE [cronReq[q] EXCEPT !.alone = FALSE]]

CronBecomes(r, record) == cronReq' = [cronReq EXCEPT ![r] = record]
Written(r) == [stage |-> "written", alone |-> cronReq[r].alone]
-----------------------------------------------------------------------------
Create(r, j, command) ==
    /\ cronReq[r] = CronIdle
    /\ j \notin created
    /\ created' = created \cup {j}
    /\ rows' = With(j, [command |-> command, enabled |-> TRUE])
    /\ Start(r, [stage |-> "written", alone |-> Busy = {}])
    /\ UNCHANGED <<crontab, orphans, dirty>>

\* Update, Toggle and Delete: the row is there, and it is the caller's.
Find(r, j) ==
    /\ cronReq[r] = CronIdle
    /\ j \in DOMAIN rows
    /\ Start(r, [stage |-> "found", job |-> j, alone |-> Busy = {}])
    /\ UNCHANGED <<rows, created, crontab, orphans, dirty>>

\* Mutant: an update of a job that has been deleted inserts it again.
UpdateOrInsert(r, row) ==
    /\ cronReq[r].stage = "found"
    /\ rows' = With(cronReq[r].job, row)
    /\ CronBecomes(r, Written(r))
    /\ UNCHANGED <<created, crontab, orphans, dirty>>

\* The statements that follow touch no row when the job has been deleted since.
Update(r, row) ==
    /\ cronReq[r].stage = "found"
    /\ rows' = IF cronReq[r].job \in DOMAIN rows THEN With(cronReq[r].job, row) ELSE rows
    /\ CronBecomes(r, Written(r))
    /\ UNCHANGED <<created, crontab, orphans, dirty>>

Toggle(r, enabled) ==
    /\ cronReq[r].stage = "found"
    /\ rows' = IF cronReq[r].job \in DOMAIN rows
                 THEN [rows EXCEPT ![cronReq[r].job].enabled = enabled] ELSE rows
    /\ CronBecomes(r, Written(r))
    /\ UNCHANGED <<created, crontab, orphans, dirty>>

\* Mutant: the crontab is left as it was when a job is deleted.
DeleteUnsynced(r) ==
    /\ cronReq[r].stage = "found"
    /\ rows' = [j \in DOMAIN rows \ {cronReq[r].job} |-> rows[j]]
    /\ CronBecomes(r, CronIdle)
    /\ UNCHANGED <<created, crontab, orphans, dirty>>

Delete(r) ==
    /\ cronReq[r].stage = "found"
    /\ rows' = [j \in DOMAIN rows \ {cronReq[r].job} |-> rows[j]]
    /\ CronBecomes(r, Written(r))
    /\ UNCHANGED <<created, crontab, orphans, dirty>>

\* The client leaves before the statement runs.
Abandon(r) ==
    /\ cronReq[r].stage = "found"
    /\ CronBecomes(r, CronIdle)
    /\ UNCHANGED <<rows, created, crontab, orphans, dirty>>
-----------------------------------------------------------------------------
(***************************************************************************)
(* syncCronJobs.                                                           *)
(***************************************************************************)
List(r) ==
    /\ cronReq[r].stage = "written"
    /\ CronBecomes(r, [stage |-> "listed", lines |-> Enabled, alone |-> cronReq[r].alone])
    /\ UNCHANGED <<rows, created, crontab, orphans, dirty>>

\* The client has left, and with it the context of the request.
ListFails(r) ==
    /\ MayFail
    /\ cronReq[r].stage = "written"
    /\ dirty' = TRUE
    /\ CronBecomes(r, CronIdle)
    /\ UNCHANGED <<rows, created, crontab, orphans>>

\* A request that ran by itself, with no install left over, sets things right.
Install(r) ==
    /\ cronReq[r].stage = "listed"
    /\ crontab' = cronReq[r].lines
    /\ dirty' = ~(cronReq[r].alone /\ orphans = {})
    /\ CronBecomes(r, CronIdle)
    /\ UNCHANGED <<rows, created, orphans>>

\* The call fails: refused by the agent, or given up on and carried out later.
InstallFails(r) ==
    /\ MayFail
    /\ cronReq[r].stage = "listed"
    /\ orphans' \in {orphans, orphans \cup {cronReq[r].lines}}
    /\ dirty' = TRUE
    /\ CronBecomes(r, CronIdle)
    /\ UNCHANGED <<rows, created, crontab>>

InstallLate(lines) ==
    /\ lines \in orphans
    /\ crontab' = lines
    /\ orphans' = orphans \ {lines}
    /\ dirty' = TRUE
    /\ UNCHANGED <<rows, created, cronReq>>

\* The panel stops: requests end where they are, what they had sent may still run.
Restart ==
    /\ MayFail
    /\ Busy # {}
    /\ \E sent \in SUBSET {cronReq[r].lines : r \in {q \in Busy : cronReq[q].stage = "listed"}} :
         orphans' = orphans \cup sent
    /\ cronReq' = [r \in CronRequests |-> CronIdle]
    /\ dirty' = TRUE
    /\ UNCHANGED <<rows, created, crontab>>
-----------------------------------------------------------------------------
CronNext ==
    \/ \E r \in CronRequests :
         \/ \E j \in Jobs : Find(r, j) \/ \E command \in Commands : Create(r, j, command)
         \/ \E row \in CronRow : Update(r, row)
         \/ \E enabled \in BOOLEAN : Toggle(r, enabled)
         \/ Abandon(r) \/ Delete(r) \/ List(r) \/ ListFails(r)
         \/ Install(r) \/ InstallFails(r)
    \/ \E lines \in orphans : InstallLate(lines)
    \/ Restart

CronSpec == CronInit /\ [][CronNext]_cronVars
-----------------------------------------------------------------------------
(***************************************************************************)
(* Properties.                                                             *)
(***************************************************************************)
\* What syncCronJobs is for, by its comment: once no request is under way the crontab
\* holds the enabled jobs.  It does if the last request ran by itself, succeeded and
\* left no failed call behind; one such request puts right whatever went wrong before,
\* because every request installs all rows.
SyncedUnlessDisturbed == (Busy = {} /\ ~dirty) => crontab = Enabled

\* No request brings a deleted job back, although Update writes all columns of a
\* row it has read earlier.
DeletedStaysDeleted ==
    [][\A j \in created \ DOMAIN rows : j \notin DOMAIN rows']_cronVars
=============================================================================
