-------------------------- MODULE BackupRuns_proofs --------------------------
(***************************************************************************)
(* Theorems about BackupRuns for every number of users, jobs, workers and  *)
(* restarts, every schedule and every staleness window.                    *)
(***************************************************************************)
EXTENDS BackupRuns, TLAPS

USE ConstantsAssumption

\* Goroutines belong to uuids that were drawn.
WorkersIssued == \A j \in JobIds : worker[j] # "none" => j \in issued

\* A job row has a configuration beside it: both go with the user.
RowsConfigured == \A j \in rows : job[j].user \in configured

\* A live backup that does not hold its user's claim lost it by staleness.
TakenOverWhenStale ==
    \A j \in issued :
        LiveBackup(j) => \/ config[job[j].user].running = j
                         \/ job[j].started + StaleAfter <= now

\* A request in flight was validated.
SavesValid == \A s \in saves : s.enabled => s.password

\* The inductive invariant behind the safety theorems.
IInv ==
    /\ TypeOK
    /\ WorkersIssued
    /\ RowsConfigured
    /\ ClaimNamesRunningJob
    /\ TakenOverWhenStale
    /\ NoOverlapUnlessStale
-----------------------------------------------------------------------------
\* The next run of a schedule is an instant, never NULL.
LEMMA NextRunAtType ==
    ASSUME NEW period \in Periods, NEW from \in Nat
    PROVE  NextRunAt(period, from) \in Nat
<1>1. CASE period = 0
  BY <1>1 DEF NextRunAt, ZeroTime
<1>2. CASE period # 0
  <2>1. period \in Nat /\ period > 0
    BY <1>2
  <2>2. (from \div period) + 1 \in Nat
    BY <2>1
  <2>3. \A a, b \in Nat : a * b \in Nat
    OBVIOUS
  <2> QED
    BY <1>2, <2>1, <2>2, <2>3 DEF NextRunAt
<1> QED
  BY <1>1, <1>2

LEMMA NextRunOfType ==
    ASSUME TypeOK, NEW enabled \in BOOLEAN, NEW period \in Periods
    PROVE  /\ NextRunOf(enabled, period) \in Times
           /\ enabled <=> NextRunOf(enabled, period) # NoTime
<1>1. NextRunAt(period, now) \in Nat
  BY NextRunAtType DEF TypeOK
<1> QED
  BY <1>1 DEF NextRunOf, Times, NoTime

\* claimBackupRun leaves a well-formed row that names the new job.
LEMMA ClaimedRowType ==
    ASSUME TypeOK, NEW row \in ConfigRow, NEW j \in JobIds
    PROVE  /\ ClaimedRow(row, j) \in ConfigRow
           /\ ClaimedRow(row, j).running = j
           /\ ClaimedRow(row, j).started = now
           /\ ClaimedRow(row, j).lastStatus = "running"
           /\ ClaimedRow(row, j).enabled = row.enabled
           /\ ClaimedRow(row, j).password = row.password
           /\ ClaimedRow(row, j).nextRun = row.nextRun
  BY DEF ClaimedRow, ConfigRow, JobStatus, Times, TypeOK

\* finishBackupRun leaves a well-formed row that holds no claim.
LEMMA ReleasedRowType ==
    ASSUME TypeOK, NEW row \in ConfigRow, NEW status \in {"success", "failed"}
    PROVE  /\ ReleasedRow(row, status) \in ConfigRow
           /\ ReleasedRow(row, status).running = NoJob
           /\ ReleasedRow(row, status).enabled = row.enabled
           /\ ReleasedRow(row, status).password = row.password
           /\ ReleasedRow(row, status).nextRun = NextRunOf(row.enabled, row.period)
<1>1. NextRunOf(row.enabled, row.period) \in Times
  BY NextRunOfType DEF ConfigRow
<1> QED
  BY <1>1 DEF ReleasedRow, ConfigRow, JobStatus, Times, NoTime

\* The row SaveConfig stores is well-formed and keeps the claim.
LEMMA SavedRowType ==
    ASSUME TypeOK, NEW s \in saves
    PROVE  /\ SavedRow(s) \in ConfigRow
           /\ s.user \in Users
           /\ s.user \in configured => /\ SavedRow(s).running = config[s.user].running
                                       /\ SavedRow(s).started = config[s.user].started
                                       /\ SavedRow(s).lastStatus = config[s.user].lastStatus
           /\ s.user \notin configured => SavedRow(s).running = NoJob
           /\ SavedRow(s).enabled = s.enabled
           /\ SavedRow(s).password = s.password
           /\ SavedRow(s).nextRun = NextRunOf(s.enabled, s.period)
<1>1. s \in Save
  BY DEF TypeOK
<1>2. NextRunOf(s.enabled, s.period) \in Times
  BY <1>1, NextRunOfType DEF Save
<1>3. CASE s.user \in configured
  <2>1. config[s.user] \in ConfigRow
    BY <1>3 DEF TypeOK
  <2> QED
    BY <1>1, <1>2, <1>3, <2>1 DEF SavedRow, ConfigRow, Save, Times
<1>4. CASE s.user \notin configured
  BY <1>1, <1>2, <1>4 DEF SavedRow, ConfigRow, Save, Times, NoTime
<1> QED
  BY <1>3, <1>4
-----------------------------------------------------------------------------
LEMMA TypeInit == Init => TypeOK
  BY DEF Init, TypeOK, WorkerStage, Save

\* Every step of the panel, the users and the clock keeps the types.
LEMMA TypeStep == TypeOK /\ [Next]_vars => TypeOK'
<1> SUFFICES ASSUME TypeOK, [Next]_vars
             PROVE  TypeOK'
  OBVIOUS
<1>1. ASSUME NEW u \in Users, NEW enabled \in BOOLEAN, NEW newPassword \in BOOLEAN,
             NEW period \in Periods, BeginSave(u, enabled, period, newPassword)
      PROVE  TypeOK'
  <2> DEFINE pw == newPassword \/ (u \in configured /\ config[u].password)
  <2>1. pw \in BOOLEAN
    OBVIOUS
  <2>2. [user |-> u, enabled |-> enabled, period |-> period, password |-> pw] \in Save
    BY <2>1 DEF Save
  <2> QED
    BY <1>1, <2>2 DEF BeginSave, TypeOK, userVars
<1>2. ASSUME NEW s \in saves, StoreConfig(s)
      PROVE  TypeOK'
  BY <1>2, SavedRowType DEF StoreConfig, TypeOK, userVars
<1>3. ASSUME NEW s \in saves, RejectSave(s)
      PROVE  TypeOK'
  BY <1>3 DEF RejectSave, TypeOK, userVars
<1>4. ASSUME NEW j \in JobIds, NEW u \in Users, NEW kind \in JobKinds, NewJob(j, u, kind)
      PROVE  /\ issued' \subseteq JobIds
             /\ rows \subseteq issued => rows' \subseteq issued'
             /\ job' \in [issued' -> JobRow]
             /\ issued \subseteq issued'
  <2>1. [user |-> u, kind |-> kind, status |-> "running", started |-> now] \in JobRow
    BY DEF JobRow, JobStatus, TypeOK
  <2> QED
    BY <1>4, <2>1 DEF NewJob, TypeOK
<1>5. ASSUME NEW u \in Users, NEW kind \in BackupKinds, NEW allowed \in BOOLEAN,
             TriggerBackup(u, kind, allowed), polled' \subseteq polled
      PROVE  TypeOK'
  <2>1. PICK j \in JobIds :
          /\ Claimable(u, allowed)
          /\ NewJob(j, u, kind)
          /\ config' = [config EXCEPT ![u] = ClaimedRow(@, j)]
          /\ worker' = [worker EXCEPT ![j] = "queued"]
          /\ UNCHANGED <<now, crashes, userVars, configured, saves, abandoned>>
    BY <1>5 DEF TriggerBackup
  <2>2. config' \in [configured -> ConfigRow]
    BY <2>1, ClaimedRowType DEF TypeOK, Claimable
  <2>3. worker' \in [JobIds -> WorkerStage]
    BY <2>1 DEF TypeOK, WorkerStage
  <2> QED
    BY <1>4, <1>5, <2>1, <2>2, <2>3 DEF TypeOK, userVars, JobKinds
<1>6. ASSUME NEW u \in Users, RunNow(u)
      PROVE  TypeOK'
  BY <1>5, <1>6 DEF RunNow, BackupKinds
<1>7. ASSUME NEW u \in Users, TriggerScheduled(u)
      PROVE  TypeOK'
  BY <1>5, <1>7 DEF TriggerScheduled, BackupKinds
<1>8. ASSUME NEW u \in Users, SkipScheduled(u)
      PROVE  TypeOK'
  BY <1>8 DEF SkipScheduled, TypeOK, userVars
<1>9. CASE PollDue
  BY <1>9 DEF PollDue, Due, TypeOK, userVars
<1>10. ASSUME NEW u \in Users, NEW kind \in OtherKinds, StartOther(u, kind)
       PROVE  TypeOK'
  BY <1>4, <1>10 DEF StartOther, TypeOK, userVars, WorkerStage, JobKinds
<1>11. ASSUME NEW u \in Users, NEW kind \in OtherKinds, RestoreWithoutHome(u, kind)
       PROVE  TypeOK'
  <2>1. PICK j \in JobIds : /\ NewJob(j, u, kind)
                            /\ abandoned' = abandoned \cup {j}
                            /\ UNCHANGED <<now, crashes, userVars, configured, config,
                                           worker, saves, polled>>
    BY <1>11 DEF RestoreWithoutHome
  <2>2. j \in issued'
    BY <2>1 DEF NewJob
  <2> QED
    BY <1>4, <2>1, <2>2 DEF TypeOK, userVars, JobKinds
<1>12. ASSUME NEW j \in issued, AcquireWorker(j) \/ Hang(j)
       PROVE  TypeOK'
  BY <1>12 DEF AcquireWorker, Hang, TypeOK, userVars, WorkerStage
<1>13. ASSUME NEW j \in issued, NEW status \in {"success", "failed"}, SetStatus(j, status)
       PROVE  job' \in [issued -> JobRow]
  BY <1>13 DEF SetStatus, TypeOK, JobRow, JobStatus
<1>14. ASSUME NEW j \in issued, NEW status \in {"success", "failed"},
              FinishBackup(j, status)
       PROVE  TypeOK'
  <2>1. config' \in [configured -> ConfigRow]
    <3>1. CASE job[j].user \in configured /\ config[job[j].user].running = j
      BY <1>14, <3>1, ReleasedRowType DEF FinishBackup, TypeOK
    <3>2. CASE ~(job[j].user \in configured /\ config[job[j].user].running = j)
      BY <1>14, <3>2 DEF FinishBackup, TypeOK
    <3> QED
      BY <3>1, <3>2
  <2>2. job' \in [issued -> JobRow]
    BY <1>13, <1>14 DEF FinishBackup
  <2> QED
    BY <1>14, <2>1, <2>2 DEF FinishBackup, TypeOK, userVars, WorkerStage
<1>15. ASSUME NEW j \in issued, NEW status \in {"success", "failed"},
              FinishOther(j, status)
       PROVE  TypeOK'
  BY <1>13, <1>15 DEF FinishOther, TypeOK, userVars, WorkerStage
<1>16. ASSUME NEW j \in issued, LoseFinish(j)
       PROVE  TypeOK'
  BY <1>16 DEF LoseFinish, TypeOK, userVars, WorkerStage
<1>17. ASSUME NEW u \in Users, DeleteAccount(u)
       PROVE  TypeOK'
  BY <1>17 DEF DeleteAccount, TypeOK
<1>18. ASSUME NEW u \in Users, DeleteUserRow(u)
       PROVE  TypeOK'
  BY <1>18 DEF DeleteUserRow, TypeOK
<1>19. ASSUME NEW u \in Users, CreateUser(u)
       PROVE  TypeOK'
  BY <1>19 DEF CreateUser, TypeOK
<1>20. CASE Restart
  BY <1>20 DEF Restart, TypeOK, userVars, WorkerStage
<1>21. CASE Tick
  BY <1>21 DEF Tick, TypeOK, userVars
<1>22. CASE UNCHANGED vars
  BY <1>22 DEF vars, TypeOK, userVars
<1> QED
  BY <1>1, <1>2, <1>3, <1>6, <1>7, <1>8, <1>9, <1>10, <1>11, <1>12, <1>14, <1>15,
     <1>16, <1>17, <1>18, <1>19, <1>20, <1>21, <1>22 DEF Next

\* The types hold in every reachable state.
THEOREM TypeCorrect == Spec => []TypeOK
<1> QED
  BY TypeInit, TypeStep, PTL DEF Spec
-----------------------------------------------------------------------------
LEMMA IInvInit == Init => IInv
  BY TypeInit DEF Init, IInv, WorkersIssued, RowsConfigured, ClaimNamesRunningJob,
     TakenOverWhenStale, NoOverlapUnlessStale

\* Starting a job only adds a fresh row.
LEMMA NewJobFacts ==
    ASSUME TypeOK, NEW j \in JobIds, NEW u \in Users, NEW kind \in JobKinds,
           NewJob(j, u, kind)
    PROVE  /\ j \notin issued
           /\ rows' = rows \cup {j}
           /\ issued' = issued \cup {j}
           /\ job'[j] = [user |-> u, kind |-> kind, status |-> "running", started |-> now]
           /\ \A i \in issued : job'[i] = job[i]
  BY DEF NewJob

\* Writing a status touches nothing else of any row.
LEMMA SetStatusFacts ==
    ASSUME TypeOK, NEW j \in issued, NEW status, SetStatus(j, status)
    PROVE  \A i \in issued : /\ job'[i].user = job[i].user
                             /\ job'[i].kind = job[i].kind
                             /\ job'[i].started = job[i].started
                             /\ i # j => job'[i] = job[i]
  BY DEF SetStatus, TypeOK, JobRow

\* A step that changes neither rows, jobs nor configurations, and starts no
\* goroutine, keeps the invariant; the clock may advance.
LEMMA IInvQuiet ==
    ASSUME IInv, TypeOK', UNCHANGED <<configured, config, issued, rows, job>>,
           now <= now',
           \A j \in JobIds : worker'[j] # "none" => worker[j] # "none"
    PROVE  IInv'
<1>1. WorkersIssued'
  BY DEF IInv, WorkersIssued
<1>2. RowsConfigured' /\ ClaimNamesRunningJob'
  BY DEF IInv, RowsConfigured, ClaimNamesRunningJob
<1>3. \A j \in issued : LiveBackup(j)' => LiveBackup(j)
  BY DEF IInv, LiveBackup, TypeOK
<1>4. TakenOverWhenStale'
  <2> SUFFICES ASSUME NEW j \in issued, LiveBackup(j)'
               PROVE  \/ config[job[j].user].running = j
                      \/ job[j].started + StaleAfter <= now'
    BY DEF TakenOverWhenStale
  <2>1. \/ config[job[j].user].running = j
        \/ job[j].started + StaleAfter <= now
    BY <1>3 DEF IInv, TakenOverWhenStale
  <2> QED
    BY <2>1 DEF IInv, TypeOK, JobRow
<1>5. NoOverlapUnlessStale'
  BY <1>3 DEF IInv, NoOverlapUnlessStale
<1> QED
  BY <1>1, <1>2, <1>4, <1>5 DEF IInv

\* A claim: the job it displaces, if any, is stale.
LEMMA IInvTrigger ==
    ASSUME IInv, TypeOK', NEW u \in Users, NEW kind \in BackupKinds,
           NEW allowed \in BOOLEAN, TriggerBackup(u, kind, allowed)
    PROVE  IInv'
<1>1. PICK j \in JobIds :
        /\ Claimable(u, allowed)
        /\ NewJob(j, u, kind)
        /\ config' = [config EXCEPT ![u] = ClaimedRow(@, j)]
        /\ worker' = [worker EXCEPT ![j] = "queued"]
        /\ UNCHANGED <<now, crashes, userVars, configured, saves, abandoned>>
  BY DEF TriggerBackup
<1>2. TypeOK
  BY DEF IInv
<1>3. /\ j \notin issued
      /\ rows' = rows \cup {j}
      /\ issued' = issued \cup {j}
      /\ job'[j] = [user |-> u, kind |-> kind, status |-> "running", started |-> now]
      /\ \A i \in issued : job'[i] = job[i]
  BY <1>1, <1>2, NewJobFacts DEF JobKinds
<1>4. u \in configured /\ config[u] \in ConfigRow
  BY <1>1, <1>2 DEF Claimable, TypeOK
<1>5. /\ config'[u].running = j
      /\ config'[u].started = now
      /\ config'[u].lastStatus = "running"
      /\ \A v \in configured : v # u => config'[v] = config[v]
  BY <1>1, <1>2, <1>4, ClaimedRowType DEF TypeOK
<1>6. rows \subseteq issued /\ now \in Nat /\ StaleAfter \in Nat
  BY <1>2 DEF TypeOK
<1>7. WorkersIssued'
  BY <1>1, <1>2, <1>3 DEF IInv, WorkersIssued, TypeOK
<1>8. RowsConfigured'
  BY <1>1, <1>3, <1>4, <1>6 DEF IInv, RowsConfigured
<1>9. ClaimNamesRunningJob'
  <2> SUFFICES ASSUME NEW v \in configured, config'[v].running # NoJob
               PROVE  LET i == config'[v].running
                      IN  /\ i \in rows'
                          /\ job'[i].user = v
                          /\ job'[i].kind \in BackupKinds
                          /\ job'[i].status = "running"
                          /\ config'[v].started = job'[i].started
                          /\ config'[v].lastStatus = "running"
    BY <1>1 DEF ClaimNamesRunningJob
  <2>1. CASE v = u
    BY <1>3, <1>5, <2>1
  <2>2. CASE v # u
    BY <1>3, <1>5, <1>6, <2>2 DEF IInv, ClaimNamesRunningJob
  <2> QED
    BY <2>1, <2>2
<1>10. \A i \in issued : LiveBackup(i)' => LiveBackup(i)
  BY <1>1, <1>2, <1>3 DEF LiveBackup, TypeOK
<1>11. \A i \in issued : (LiveBackup(i) /\ job[i].user = u)
                            => job[i].started + StaleAfter <= now
  <2> SUFFICES ASSUME NEW i \in issued, LiveBackup(i), job[i].user = u
               PROVE  job[i].started + StaleAfter <= now
    OBVIOUS
  <2>1. CASE config[u].running = i
    <3>1. config[u].started = job[i].started /\ config[u].running # NoJob
      BY <1>2, <1>4, <2>1 DEF IInv, ClaimNamesRunningJob, TypeOK
    <3>2. job[i].started \in Nat
      BY <1>2 DEF TypeOK, JobRow
    <3>3. ~ClaimedRecently(u)
      BY <1>1 DEF Claimable
    <3> QED
      BY <1>6, <3>1, <3>2, <3>3 DEF ClaimedRecently, NoTime
  <2>2. CASE config[u].running # i
    BY <2>2 DEF IInv, TakenOverWhenStale
  <2> QED
    BY <2>1, <2>2
<1>12. TakenOverWhenStale'
  <2> SUFFICES ASSUME NEW i \in issued', LiveBackup(i)'
               PROVE  \/ config'[job'[i].user].running = i
                      \/ job'[i].started + StaleAfter <= now
    BY <1>1 DEF TakenOverWhenStale
  <2>1. CASE i = j
    BY <1>3, <1>5, <2>1
  <2>2. CASE i # j
    <3>1. i \in issued /\ LiveBackup(i) /\ job'[i] = job[i]
      BY <1>3, <1>10, <2>2
    <3>2. job[i].user \in configured
      BY <3>1 DEF IInv, RowsConfigured, LiveBackup
    <3> QED
      BY <1>5, <1>11, <3>1, <3>2 DEF IInv, TakenOverWhenStale
  <2> QED
    BY <2>1, <2>2
<1>13. NoOverlapUnlessStale'
  <2> SUFFICES ASSUME NEW i \in issued', NEW k \in issued', i # k,
                      LiveBackup(i)', LiveBackup(k)', job'[i].user = job'[k].user
               PROVE  \/ job'[i].started + StaleAfter <= job'[k].started
                      \/ job'[k].started + StaleAfter <= job'[i].started
    BY DEF NoOverlapUnlessStale
  <2>1. CASE i = j
    BY <1>3, <1>10, <1>11, <2>1
  <2>2. CASE k = j
    BY <1>3, <1>10, <1>11, <2>2
  <2>3. CASE i # j /\ k # j
    BY <1>3, <1>10, <2>3 DEF IInv, NoOverlapUnlessStale
  <2> QED
    BY <2>1, <2>2, <2>3
<1> QED
  BY <1>7, <1>8, <1>9, <1>12, <1>13 DEF IInv

\* A job that takes no claim.
LEMMA IInvNewOther ==
    ASSUME IInv, TypeOK', NEW j \in JobIds, NEW u \in Users, NEW kind \in OtherKinds,
           NewJob(j, u, kind), u \in configured,
           UNCHANGED <<now, configured, config>>,
           worker' \in {worker, [worker EXCEPT ![j] = "queued"]}
    PROVE  IInv'
<1>1. TypeOK
  BY DEF IInv
<1>2. /\ j \notin issued
      /\ rows' = rows \cup {j}
      /\ issued' = issued \cup {j}
      /\ job'[j] = [user |-> u, kind |-> kind, status |-> "running", started |-> now]
      /\ \A i \in issued : job'[i] = job[i]
  BY <1>1, NewJobFacts DEF JobKinds
<1>3. \A i \in issued : i # j /\ (LiveBackup(i)' => LiveBackup(i))
  BY <1>1, <1>2 DEF LiveBackup, TypeOK
<1>4. ~LiveBackup(j)'
  BY <1>2 DEF LiveBackup
<1>5. rows \subseteq issued
  BY <1>1 DEF TypeOK
<1>6. WorkersIssued'
  BY <1>1, <1>2 DEF IInv, WorkersIssued, TypeOK
<1>7. RowsConfigured'
  BY <1>2, <1>5 DEF IInv, RowsConfigured
<1>8. ClaimNamesRunningJob'
  BY <1>2, <1>5 DEF IInv, ClaimNamesRunningJob
<1>9. TakenOverWhenStale'
  BY <1>2, <1>3, <1>4 DEF IInv, TakenOverWhenStale
<1>10. NoOverlapUnlessStale'
  BY <1>2, <1>3, <1>4 DEF IInv, NoOverlapUnlessStale
<1> QED
  BY <1>6, <1>7, <1>8, <1>9, <1>10 DEF IInv

\* SaveConfig's upsert moves no claim.
LEMMA IInvStore ==
    ASSUME IInv, TypeOK', NEW s \in saves, StoreConfig(s)
    PROVE  IInv'
<1>1. TypeOK
  BY DEF IInv
<1>2. /\ configured' = configured \cup {s.user}
      /\ \A v \in configured' : v # s.user => config'[v] = config[v]
      /\ config'[s.user] = SavedRow(s)
      /\ UNCHANGED <<now, issued, rows, job, worker>>
  BY DEF StoreConfig
<1>3. /\ s.user \in configured => /\ SavedRow(s).running = config[s.user].running
                                  /\ SavedRow(s).started = config[s.user].started
                                  /\ SavedRow(s).lastStatus = config[s.user].lastStatus
      /\ s.user \notin configured => SavedRow(s).running = NoJob
  BY <1>1, SavedRowType
<1>4. \A v \in configured : config'[v].running = config[v].running
                            /\ config'[v].started = config[v].started
                            /\ config'[v].lastStatus = config[v].lastStatus
  BY <1>2, <1>3
<1>5. WorkersIssued' /\ RowsConfigured'
  BY <1>2 DEF IInv, WorkersIssued, RowsConfigured
<1>6. ClaimNamesRunningJob'
  BY <1>2, <1>3, <1>4 DEF IInv, ClaimNamesRunningJob
<1>7. \A j \in issued : LiveBackup(j)' => LiveBackup(j) /\ job[j].user \in configured
  BY <1>2 DEF IInv, LiveBackup, RowsConfigured
<1>8. TakenOverWhenStale'
  BY <1>2, <1>4, <1>7 DEF IInv, TakenOverWhenStale
<1>9. NoOverlapUnlessStale'
  BY <1>2, <1>7 DEF IInv, NoOverlapUnlessStale
<1> QED
  BY <1>5, <1>6, <1>8, <1>9 DEF IInv

\* The end of a backup releases its own claim and no other.
LEMMA IInvFinishBackup ==
    ASSUME IInv, TypeOK', NEW j \in issued, NEW status \in {"success", "failed"},
           FinishBackup(j, status)
    PROVE  IInv'
<1> DEFINE u == job[j].user
<1>1. TypeOK
  BY DEF IInv
<1>2. /\ \A v \in configured : v # u => config'[v] = config[v]
      /\ (u \in configured /\ config[u].running = j) => config'[u].running = NoJob
      /\ (u \in configured /\ config[u].running # j) => config'[u] = config[u]
  <2>1. CASE u \in configured /\ config[u].running = j
    <3>1. config[u] \in ConfigRow
      BY <1>1, <2>1 DEF TypeOK
    <3>2. config' = [config EXCEPT ![u] = ReleasedRow(config[u], status)]
      BY <2>1 DEF FinishBackup
    <3>3. ReleasedRow(config[u], status).running = NoJob
      BY <1>1, <3>1, ReleasedRowType
    <3>4. config'[u].running = NoJob
      BY <1>1, <2>1, <3>2, <3>3 DEF TypeOK
    <3>5. \A v \in configured : v # u => config'[v] = config[v]
      BY <1>1, <3>2 DEF TypeOK
    <3> QED
      BY <2>1, <3>4, <3>5
  <2>2. CASE ~(u \in configured /\ config[u].running = j)
    BY <2>2 DEF FinishBackup
  <2> QED
    BY <2>1, <2>2
<1>3. \A i \in issued : /\ job'[i].user = job[i].user
                        /\ job'[i].kind = job[i].kind
                        /\ job'[i].started = job[i].started
                        /\ i # j => job'[i] = job[i]
  BY <1>1, SetStatusFacts DEF FinishBackup
<1>4. /\ UNCHANGED <<now, configured, issued, rows>>
      /\ worker' = [worker EXCEPT ![j] = "none"]
  BY DEF FinishBackup
<1>5. \A i \in issued : LiveBackup(i)' => LiveBackup(i) /\ i # j
  BY <1>1, <1>3, <1>4 DEF LiveBackup, TypeOK
<1>6. WorkersIssued'
  BY <1>1, <1>4 DEF IInv, WorkersIssued, TypeOK
<1>7. RowsConfigured'
  BY <1>1, <1>3, <1>4 DEF IInv, RowsConfigured, TypeOK
<1>8. ClaimNamesRunningJob'
  <2> SUFFICES ASSUME NEW v \in configured, config'[v].running # NoJob
               PROVE  LET i == config'[v].running
                      IN  /\ i \in rows
                          /\ job'[i].user = v
                          /\ job'[i].kind \in BackupKinds
                          /\ job'[i].status = "running"
                          /\ config'[v].started = job'[i].started
                          /\ config'[v].lastStatus = "running"
    BY <1>4 DEF ClaimNamesRunningJob
  <2>1. config'[v] = config[v]
    BY <1>2
  <2>2. LET i == config[v].running
        IN  /\ i \in rows
            /\ job[i].user = v
            /\ job[i].kind \in BackupKinds
            /\ job[i].status = "running"
            /\ config[v].started = job[i].started
            /\ config[v].lastStatus = "running"
    BY <2>1 DEF IInv, ClaimNamesRunningJob
  <2>3. config[v].running # j
    BY <1>2, <2>1, <2>2
  <2> QED
    BY <1>1, <1>3, <2>1, <2>2, <2>3 DEF TypeOK
<1>9. \A i \in issued : (LiveBackup(i) /\ i # j /\ config[job[i].user].running = i)
                           => config'[job[i].user] = config[job[i].user]
  BY <1>2 DEF IInv, LiveBackup, RowsConfigured
<1>10. TakenOverWhenStale'
  BY <1>3, <1>4, <1>5, <1>9 DEF IInv, TakenOverWhenStale
<1>11. NoOverlapUnlessStale'
  BY <1>3, <1>4, <1>5 DEF IInv, NoOverlapUnlessStale
<1> QED
  BY <1>6, <1>7, <1>8, <1>10, <1>11 DEF IInv

LEMMA IInvFinishOther ==
    ASSUME IInv, TypeOK', NEW j \in issued, NEW status \in {"success", "failed"},
           FinishOther(j, status)
    PROVE  IInv'
<1>1. TypeOK
  BY DEF IInv
<1>2. \A i \in issued : /\ job'[i].user = job[i].user
                        /\ job'[i].kind = job[i].kind
                        /\ job'[i].started = job[i].started
                        /\ i # j => job'[i] = job[i]
  BY <1>1, SetStatusFacts DEF FinishOther
<1>3. /\ UNCHANGED <<now, configured, config, issued, rows>>
      /\ worker' = [worker EXCEPT ![j] = "none"]
      /\ job[j].kind \notin BackupKinds
  BY DEF FinishOther
<1>4. \A i \in issued : LiveBackup(i)' => LiveBackup(i)
  BY <1>1, <1>2, <1>3 DEF LiveBackup, TypeOK
<1>5. WorkersIssued'
  BY <1>1, <1>3 DEF IInv, WorkersIssued, TypeOK
<1>6. RowsConfigured'
  BY <1>1, <1>2, <1>3 DEF IInv, RowsConfigured, TypeOK
<1>7. ClaimNamesRunningJob'
  BY <1>1, <1>2, <1>3 DEF IInv, ClaimNamesRunningJob, TypeOK
<1>8. TakenOverWhenStale'
  BY <1>2, <1>3, <1>4 DEF IInv, TakenOverWhenStale
<1>9. NoOverlapUnlessStale'
  BY <1>2, <1>3, <1>4 DEF IInv, NoOverlapUnlessStale
<1> QED
  BY <1>5, <1>6, <1>7, <1>8, <1>9 DEF IInv

\* The cascade of a deleted user takes its configuration and its rows together.
LEMMA IInvDeleteUserRow ==
    ASSUME IInv, TypeOK', NEW u \in Users, DeleteUserRow(u)
    PROVE  IInv'
<1>1. TypeOK
  BY DEF IInv
<1>2. /\ configured' = configured \ {u}
      /\ \A v \in configured' : config'[v] = config[v]
      /\ rows' = {j \in rows : job[j].user # u}
      /\ UNCHANGED <<now, issued, job, worker>>
  BY DEF DeleteUserRow
<1>3. \A j \in issued : LiveBackup(j)' => LiveBackup(j) /\ job[j].user \in configured'
  BY <1>2 DEF IInv, LiveBackup, RowsConfigured
<1>4. WorkersIssued'
  BY <1>2 DEF IInv, WorkersIssued
<1>5. RowsConfigured'
  BY <1>2 DEF IInv, RowsConfigured
<1>6. ClaimNamesRunningJob'
  BY <1>2 DEF IInv, ClaimNamesRunningJob
<1>7. TakenOverWhenStale'
  BY <1>2, <1>3 DEF IInv, TakenOverWhenStale
<1>8. NoOverlapUnlessStale'
  BY <1>2, <1>3 DEF IInv, NoOverlapUnlessStale
<1> QED
  BY <1>4, <1>5, <1>6, <1>7, <1>8 DEF IInv
-----------------------------------------------------------------------------
LEMMA IInvStep == IInv /\ [Next]_vars => IInv'
<1> SUFFICES ASSUME IInv, [Next]_vars
             PROVE  IInv'
  OBVIOUS
<1>1. TypeOK /\ TypeOK'
  BY TypeStep DEF IInv
<1>2. ASSUME NEW u \in Users, NEW enabled \in BOOLEAN, NEW newPassword \in BOOLEAN,
             NEW period \in Periods, BeginSave(u, enabled, period, newPassword)
      PROVE  IInv'
  BY <1>1, <1>2, IInvQuiet DEF BeginSave, TypeOK
<1>3. ASSUME NEW s \in saves, StoreConfig(s)
      PROVE  IInv'
  BY <1>1, <1>3, IInvStore
<1>4. ASSUME NEW s \in saves, RejectSave(s)
      PROVE  IInv'
  BY <1>1, <1>4, IInvQuiet DEF RejectSave, TypeOK
<1>5. ASSUME NEW u \in Users, RunNow(u)
      PROVE  IInv'
  BY <1>1, <1>5, IInvTrigger DEF RunNow, BackupKinds
<1>6. ASSUME NEW u \in Users, TriggerScheduled(u)
      PROVE  IInv'
  BY <1>1, <1>6, IInvTrigger DEF TriggerScheduled, BackupKinds
<1>7. ASSUME NEW u \in Users, SkipScheduled(u)
      PROVE  IInv'
  BY <1>1, <1>7, IInvQuiet DEF SkipScheduled, TypeOK
<1>8. CASE PollDue
  BY <1>1, <1>8, IInvQuiet DEF PollDue, TypeOK
<1>9. ASSUME NEW u \in Users, NEW kind \in OtherKinds, StartOther(u, kind)
      PROVE  IInv'
  BY <1>1, <1>9, IInvNewOther DEF StartOther
<1>10. ASSUME NEW u \in Users, NEW kind \in OtherKinds, RestoreWithoutHome(u, kind)
       PROVE  IInv'
  BY <1>1, <1>10, IInvNewOther DEF RestoreWithoutHome
<1>11. ASSUME NEW j \in issued, AcquireWorker(j) \/ Hang(j)
       PROVE  IInv'
  BY <1>1, <1>11, IInvQuiet DEF AcquireWorker, Hang, TypeOK
<1>12. ASSUME NEW j \in issued, NEW status \in {"success", "failed"},
              FinishBackup(j, status)
       PROVE  IInv'
  BY <1>1, <1>12, IInvFinishBackup
<1>13. ASSUME NEW j \in issued, NEW status \in {"success", "failed"},
              FinishOther(j, status)
       PROVE  IInv'
  BY <1>1, <1>13, IInvFinishOther
<1>14. ASSUME NEW j \in issued, LoseFinish(j)
       PROVE  IInv'
  BY <1>1, <1>14, IInvQuiet DEF LoseFinish, TypeOK
<1>15. ASSUME NEW u \in Users, DeleteAccount(u)
       PROVE  IInv'
  BY <1>1, <1>15, IInvQuiet DEF DeleteAccount, TypeOK
<1>16. ASSUME NEW u \in Users, DeleteUserRow(u)
       PROVE  IInv'
  BY <1>1, <1>16, IInvDeleteUserRow
<1>17. ASSUME NEW u \in Users, CreateUser(u)
       PROVE  IInv'
  BY <1>1, <1>17, IInvQuiet DEF CreateUser, TypeOK
<1>18. CASE Restart
  BY <1>1, <1>18, IInvQuiet DEF Restart, TypeOK
<1>19. CASE Tick
  BY <1>1, <1>19, IInvQuiet DEF Tick, TypeOK
<1>20. CASE UNCHANGED vars
  BY <1>1, <1>20, IInvQuiet DEF vars, TypeOK
<1> QED
  BY <1>2, <1>3, <1>4, <1>5, <1>6, <1>7, <1>8, <1>9, <1>10, <1>11, <1>12, <1>13,
     <1>14, <1>15, <1>16, <1>17, <1>18, <1>19, <1>20 DEF Next

LEMMA IInvHolds == Spec => []IInv
<1> QED
  BY IInvInit, IInvStep, PTL DEF Spec

\* Two live backups of one user are at least StaleAfter apart: the claim is a
\* lease, not a lock, and nothing shorter than the lease breaks it.
THEOREM OverlapOnlyWhenStale == Spec => []NoOverlapUnlessStale
<1>1. IInv => NoOverlapUnlessStale
  BY DEF IInv
<1> QED
  BY <1>1, IInvHolds, PTL

\* A claim always names an existing, unfinished backup of its own user.
THEOREM ClaimSound == Spec => []ClaimNamesRunningJob
<1>1. IInv => ClaimNamesRunningJob
  BY DEF IInv
<1> QED
  BY <1>1, IInvHolds, PTL
-----------------------------------------------------------------------------
\* Claiming and releasing write no enabled flag; saving and releasing compute the
\* next run from the flag they store.
LEMMA ScheduleStep ==
    ASSUME TypeOK, SavesValid, ScheduledIffEnabled, [Next]_vars
    PROVE  SavesValid' /\ ScheduledIffEnabled'
<1>1. ASSUME UNCHANGED <<configured, config>>
      PROVE  ScheduledIffEnabled'
  BY <1>1 DEF ScheduledIffEnabled
<1>2. ASSUME saves' \subseteq saves
      PROVE  SavesValid'
  BY <1>2 DEF SavesValid
<1>3. ASSUME NEW u \in Users, NEW enabled \in BOOLEAN, NEW newPassword \in BOOLEAN,
             NEW period \in Periods, BeginSave(u, enabled, period, newPassword)
      PROVE  SavesValid' /\ ScheduledIffEnabled'
  <2>1. ScheduledIffEnabled'
    BY <1>1, <1>3 DEF BeginSave
  <2>2. SavesValid'
    <3> DEFINE pw == newPassword \/ (u \in configured /\ config[u].password)
    <3>1. /\ enabled => pw
          /\ saves' = saves \cup {[user |-> u, enabled |-> enabled,
                                   period |-> period, password |-> pw]}
      BY <1>3 DEF BeginSave
    <3> HIDE DEF pw
    <3> QED
      BY <3>1 DEF SavesValid
  <2> QED
    BY <2>1, <2>2
<1>4. ASSUME NEW s \in saves, StoreConfig(s)
      PROVE  SavesValid' /\ ScheduledIffEnabled'
  <2>1. s \in Save
    BY DEF TypeOK
  <2>2. /\ SavedRow(s).enabled = s.enabled
        /\ SavedRow(s).password = s.password
        /\ SavedRow(s).nextRun = NextRunOf(s.enabled, s.period)
    BY SavedRowType
  <2>3. s.enabled <=> NextRunOf(s.enabled, s.period) # NoTime
    BY <2>1, NextRunOfType DEF Save
  <2>4. s.enabled => s.password
    BY DEF SavesValid
  <2>5. /\ configured' = configured \cup {s.user}
        /\ config'[s.user] = SavedRow(s)
        /\ \A v \in configured' : v # s.user => config'[v] = config[v]
    BY <1>4 DEF StoreConfig
  <2>6. ScheduledIffEnabled'
    <3> SUFFICES ASSUME NEW v \in configured'
                 PROVE  /\ config'[v].enabled <=> config'[v].nextRun # NoTime
                        /\ config'[v].enabled => config'[v].password
      BY DEF ScheduledIffEnabled
    <3>1. CASE v = s.user
      BY <2>2, <2>3, <2>4, <2>5, <3>1
    <3>2. CASE v # s.user
      BY <2>5, <3>2 DEF ScheduledIffEnabled
    <3> QED
      BY <3>1, <3>2
  <2> QED
    BY <1>2, <1>4, <2>6 DEF StoreConfig
<1>5. ASSUME NEW u \in Users, NEW kind \in BackupKinds, NEW allowed \in BOOLEAN,
             TriggerBackup(u, kind, allowed)
      PROVE  SavesValid' /\ ScheduledIffEnabled'
  <2>1. PICK j \in JobIds : /\ u \in configured
                            /\ config' = [config EXCEPT ![u] = ClaimedRow(@, j)]
                            /\ UNCHANGED <<configured, saves>>
    BY <1>5 DEF TriggerBackup, Claimable
  <2>2. /\ config'[u].enabled = config[u].enabled
        /\ config'[u].password = config[u].password
        /\ config'[u].nextRun = config[u].nextRun
        /\ \A v \in configured : v # u => config'[v] = config[v]
    BY <2>1, ClaimedRowType DEF TypeOK
  <2>3. ScheduledIffEnabled'
    BY <2>1, <2>2 DEF ScheduledIffEnabled
  <2> QED
    BY <1>2, <2>1, <2>3
<1>6. ASSUME NEW j \in issued, NEW status \in {"success", "failed"},
             FinishBackup(j, status)
      PROVE  SavesValid' /\ ScheduledIffEnabled'
  <2> DEFINE u == job[j].user
  <2>1. CASE u \in configured /\ config[u].running = j
    <3>1. config[u] \in ConfigRow
      BY <2>1 DEF TypeOK
    <3>2. config' = [config EXCEPT ![u] = ReleasedRow(config[u], status)]
      BY <1>6, <2>1 DEF FinishBackup
    <3>3. /\ config'[u] = ReleasedRow(config[u], status)
          /\ \A v \in configured : v # u => config'[v] = config[v]
      BY <2>1, <3>2 DEF TypeOK
    <3>4. /\ ReleasedRow(config[u], status).enabled = config[u].enabled
          /\ ReleasedRow(config[u], status).password = config[u].password
          /\ ReleasedRow(config[u], status).nextRun
               = NextRunOf(config[u].enabled, config[u].period)
      BY <3>1, ReleasedRowType
    <3>5. config[u].enabled <=> NextRunOf(config[u].enabled, config[u].period) # NoTime
      BY <3>1, NextRunOfType DEF ConfigRow
    <3>6. configured' = configured /\ saves' = saves
      BY <1>6 DEF FinishBackup
    <3>7. ScheduledIffEnabled'
      <4> SUFFICES ASSUME NEW v \in configured
                   PROVE  /\ config'[v].enabled <=> config'[v].nextRun # NoTime
                          /\ config'[v].enabled => config'[v].password
        BY <3>6 DEF ScheduledIffEnabled
      <4>1. CASE v = u
        BY <3>3, <3>4, <3>5, <4>1 DEF ScheduledIffEnabled
      <4>2. CASE v # u
        BY <3>3, <4>2 DEF ScheduledIffEnabled
      <4> QED
        BY <4>1, <4>2
    <3> QED
      BY <1>2, <3>6, <3>7
  <2>2. CASE ~(u \in configured /\ config[u].running = j)
    BY <1>1, <1>2, <1>6, <2>2 DEF FinishBackup
  <2> QED
    BY <2>1, <2>2
<1>7. ASSUME NEW u \in Users, DeleteUserRow(u)
      PROVE  SavesValid' /\ ScheduledIffEnabled'
  BY <1>2, <1>7 DEF DeleteUserRow, ScheduledIffEnabled
<1>8. ASSUME NEW u \in Users,
             \/ RunNow(u) \/ TriggerScheduled(u) \/ SkipScheduled(u)
             \/ \E kind \in OtherKinds : StartOther(u, kind) \/ RestoreWithoutHome(u, kind)
             \/ DeleteAccount(u) \/ CreateUser(u)
      PROVE  SavesValid' /\ ScheduledIffEnabled'
  BY <1>1, <1>2, <1>5, <1>8
     DEF RunNow, TriggerScheduled, BackupKinds, SkipScheduled, StartOther,
         RestoreWithoutHome, DeleteAccount, CreateUser
<1>9. ASSUME NEW s \in saves, RejectSave(s)
      PROVE  SavesValid' /\ ScheduledIffEnabled'
  BY <1>1, <1>2, <1>9 DEF RejectSave
<1>10. ASSUME NEW j \in issued, NEW status \in {"success", "failed"},
              AcquireWorker(j) \/ Hang(j) \/ FinishOther(j, status) \/ LoseFinish(j)
       PROVE  SavesValid' /\ ScheduledIffEnabled'
  BY <1>1, <1>2, <1>10 DEF AcquireWorker, Hang, FinishOther, LoseFinish
<1>11. CASE PollDue \/ Restart \/ Tick \/ UNCHANGED vars
  BY <1>1, <1>2, <1>11 DEF PollDue, Restart, Tick, vars
<1> QED
  BY <1>3, <1>4, <1>6, <1>7, <1>8, <1>9, <1>10, <1>11 DEF Next

\* next_run_at is set exactly for enabled schedules, and enabled ones can run.
THEOREM ScheduleSound == Spec => []ScheduledIffEnabled
<1>1. Init => TypeOK /\ SavesValid /\ ScheduledIffEnabled
  BY TypeInit DEF Init, SavesValid, ScheduledIffEnabled
<1>2. TypeOK /\ SavesValid /\ ScheduledIffEnabled /\ [Next]_vars
        => (TypeOK /\ SavesValid /\ ScheduledIffEnabled)'
  BY TypeStep, ScheduleStep
<1> QED
  BY <1>1, <1>2, PTL DEF Spec
-----------------------------------------------------------------------------
\* What one step may do to the claim of a configuration that stays.
ClaimKeptStep ==
    \A u \in configured \cap configured' :
        LET j == config[u].running
        IN  (j # NoJob /\ config'[u].running # j)
              => \/ job'[j].status # "running"
                 \/ config[u].started + StaleAfter <= now

LEMMA ClaimKeptTrigger ==
    ASSUME IInv, NEW w \in Users, NEW kind \in BackupKinds, NEW allowed \in BOOLEAN,
           TriggerBackup(w, kind, allowed)
    PROVE  ClaimKeptStep
<1>1. TypeOK
  BY DEF IInv
<1>2. PICK j \in JobIds : /\ Claimable(w, allowed)
                          /\ config' = [config EXCEPT ![w] = ClaimedRow(@, j)]
  BY DEF TriggerBackup
<1> SUFFICES ASSUME NEW u \in configured, config[u].running # NoJob,
                    config'[u].running # config[u].running
             PROVE  config[u].started + StaleAfter <= now
  BY DEF ClaimKeptStep
<1>3. u = w
  BY <1>1, <1>2 DEF TypeOK
<1>4. config[u].started \in Nat
  BY <1>1 DEF IInv, ClaimNamesRunningJob, TypeOK, JobRow
<1>5. ~ClaimedRecently(u)
  BY <1>2, <1>3 DEF Claimable
<1>6. now \in Nat /\ StaleAfter \in Nat
  BY <1>1 DEF TypeOK
<1> QED
  BY <1>4, <1>5, <1>6 DEF ClaimedRecently, NoTime

LEMMA ClaimKeptNext == IInv /\ [Next]_vars => ClaimKeptStep
<1> SUFFICES ASSUME IInv, [Next]_vars
             PROVE  ClaimKeptStep
  OBVIOUS
<1>1. TypeOK
  BY DEF IInv
<1>2. ASSUME \A u \in configured \cap configured' : config'[u].running = config[u].running
      PROVE  ClaimKeptStep
  BY <1>2 DEF ClaimKeptStep
<1>3. ASSUME NEW s \in saves, StoreConfig(s)
      PROVE  ClaimKeptStep
  <2>1. s.user \in configured => SavedRow(s).running = config[s.user].running
    BY <1>1, SavedRowType
  <2>2. \A u \in configured : config'[u] = IF u = s.user THEN SavedRow(s) ELSE config[u]
    BY <1>3 DEF StoreConfig
  <2> QED
    BY <1>2, <2>1, <2>2
<1>4. ASSUME NEW u \in Users, RunNow(u) \/ TriggerScheduled(u)
      PROVE  ClaimKeptStep
  BY <1>4, ClaimKeptTrigger DEF RunNow, TriggerScheduled, BackupKinds
<1>5. ASSUME NEW j \in issued, NEW status \in {"success", "failed"},
             FinishBackup(j, status)
      PROVE  ClaimKeptStep
  <2> SUFFICES ASSUME NEW u \in configured, config[u].running # NoJob,
                      config'[u].running # config[u].running
               PROVE  job'[config[u].running].status # "running"
    BY DEF ClaimKeptStep
  <2>1. config[u].running = j
    <3>1. CASE u = job[j].user
      BY <1>5, <3>1 DEF FinishBackup
    <3>2. CASE u # job[j].user
      BY <1>1, <1>5, <3>2 DEF FinishBackup, TypeOK
    <3> QED
      BY <3>1, <3>2
  <2>2. j \in rows
    BY <2>1 DEF IInv, ClaimNamesRunningJob
  <2> QED
    BY <1>1, <1>5, <2>1, <2>2 DEF FinishBackup, SetStatus, TypeOK, JobRow
<1>6. ASSUME NEW u \in Users, DeleteUserRow(u)
      PROVE  ClaimKeptStep
  BY <1>2, <1>6 DEF DeleteUserRow
<1>7. ASSUME UNCHANGED config
      PROVE  ClaimKeptStep
  BY <1>2, <1>7
<1>8. ASSUME NEW u \in Users,
             \/ \E enabled, newPassword \in BOOLEAN, period \in Periods :
                  BeginSave(u, enabled, period, newPassword)
             \/ SkipScheduled(u)
             \/ \E kind \in OtherKinds : StartOther(u, kind) \/ RestoreWithoutHome(u, kind)
             \/ DeleteAccount(u) \/ CreateUser(u)
      PROVE  ClaimKeptStep
  BY <1>7, <1>8 DEF BeginSave, SkipScheduled, StartOther, RestoreWithoutHome,
     DeleteAccount, CreateUser
<1>9. ASSUME NEW j \in issued, NEW status \in {"success", "failed"},
             AcquireWorker(j) \/ Hang(j) \/ FinishOther(j, status) \/ LoseFinish(j)
      PROVE  ClaimKeptStep
  BY <1>7, <1>9 DEF AcquireWorker, Hang, FinishOther, LoseFinish
<1>10. ASSUME NEW s \in saves, RejectSave(s)
       PROVE  ClaimKeptStep
  BY <1>7, <1>10 DEF RejectSave
<1>11. CASE PollDue \/ Restart \/ Tick \/ UNCHANGED vars
  BY <1>7, <1>11 DEF PollDue, Restart, Tick, vars
<1> QED
  BY <1>3, <1>4, <1>5, <1>6, <1>8, <1>9, <1>10, <1>11 DEF Next

\* The finish of a superseded run never releases its successor's claim, and no
\* save, poll, deletion elsewhere or restart releases any.
THEOREM ClaimIsKept == Spec => ClaimKept
<1>1. IInv /\ [Next]_vars => [ClaimKeptStep]_vars
  BY ClaimKeptNext
<1>2. Spec => [][ClaimKeptStep]_vars
  BY <1>1, IInvHolds, PTL DEF Spec
<1> QED
  BY <1>2 DEF ClaimKept, ClaimKeptStep
-----------------------------------------------------------------------------
(***************************************************************************)
(* A running row has a goroutine behind it.                                *)
(***************************************************************************)
\* A new row begins with a goroutine, or as one that a restore has given up on.
LEMMA WorkerNew ==
    ASSUME TypeOK, RunningRowHasWorker, NEW j \in JobIds, NEW u \in Users, NEW kind \in JobKinds,
           NewJob(j, u, kind),
           \/ worker' = [worker EXCEPT ![j] = "queued"] /\ UNCHANGED abandoned
           \/ UNCHANGED worker /\ abandoned' = abandoned \cup {j}
    PROVE  RunningRowHasWorker'
<1> SUFFICES ASSUME NEW i \in rows', job'[i].status = "running"
             PROVE  worker'[i] # "none" \/ i \in abandoned'
  BY DEF RunningRowHasWorker
<1>1. CASE i = j
  BY <1>1 DEF TypeOK
<1>2. CASE i # j
  <2>1. i \in rows /\ i \in issued /\ i \in JobIds /\ job'[i] = job[i]
    BY <1>2 DEF NewJob, TypeOK
  <2>2. worker'[i] = worker[i] /\ (i \in abandoned => i \in abandoned')
    BY <1>2, <2>1 DEF TypeOK
  <2>3. QED
    BY <2>1, <2>2 DEF RunningRowHasWorker
<1>3. QED
  BY <1>1, <1>2

\* A goroutine writes its row before it ends.
LEMMA WorkerFinish ==
    ASSUME TypeOK, RunningRowHasWorker, NEW j \in issued, NEW status \in {"success", "failed"},
           SetStatus(j, status), worker' = [worker EXCEPT ![j] = "none"], UNCHANGED <<rows, abandoned>>
    PROVE  RunningRowHasWorker'
<1> SUFFICES ASSUME NEW i \in rows, job'[i].status = "running"
             PROVE  worker'[i] # "none" \/ i \in abandoned
  BY DEF RunningRowHasWorker
<1>1. i \in issued /\ i \in JobIds
  BY DEF TypeOK
<1>2. i # j
  BY <1>1 DEF SetStatus, TypeOK, JobRow
<1>3. job'[i] = job[i] /\ worker'[i] = worker[i]
  BY <1>1, <1>2 DEF SetStatus, TypeOK
<1>4. QED
  BY <1>3 DEF RunningRowHasWorker

LEMMA WorkerStep == TypeOK /\ RunningRowHasWorker /\ [Next]_vars => RunningRowHasWorker'
<1> SUFFICES ASSUME TypeOK, RunningRowHasWorker, [Next]_vars
             PROVE  RunningRowHasWorker'
  OBVIOUS
<1>1. ASSUME rows' \subseteq rows, UNCHANGED job,
             \A j \in rows : worker[j] # "none" \/ j \in abandoned =>
                               worker'[j] # "none" \/ j \in abandoned'
      PROVE  RunningRowHasWorker'
  BY <1>1 DEF RunningRowHasWorker
<1>2. ASSUME NEW u \in Users, RunNow(u) \/ TriggerScheduled(u)
      PROVE  RunningRowHasWorker'
  <2>1. PICK kind \in BackupKinds, allowed \in BOOLEAN : TriggerBackup(u, kind, allowed)
    BY <1>2 DEF RunNow, TriggerScheduled, BackupKinds
  <2>2. PICK j \in JobIds :
          /\ NewJob(j, u, kind)
          /\ worker' = [worker EXCEPT ![j] = "queued"] /\ UNCHANGED abandoned
    BY <2>1 DEF TriggerBackup
  <2>3. QED
    BY <2>2, WorkerNew DEF JobKinds
<1>3. ASSUME NEW u \in Users, NEW kind \in OtherKinds, StartOther(u, kind)
      PROVE  RunningRowHasWorker'
  BY <1>3, WorkerNew DEF StartOther, JobKinds
<1>4. ASSUME NEW u \in Users, NEW kind \in OtherKinds, RestoreWithoutHome(u, kind)
      PROVE  RunningRowHasWorker'
  BY <1>4, WorkerNew DEF RestoreWithoutHome, JobKinds
<1>5. ASSUME NEW j \in issued, NEW status \in {"success", "failed"},
             FinishBackup(j, status) \/ FinishOther(j, status)
      PROVE  RunningRowHasWorker'
  BY <1>5, WorkerFinish DEF FinishBackup, FinishOther
<1>6. ASSUME NEW j \in issued, AcquireWorker(j) \/ Hang(j) \/ LoseFinish(j)
      PROVE  RunningRowHasWorker'
  BY <1>1, <1>6 DEF AcquireWorker, Hang, LoseFinish, TypeOK
<1>7. CASE Restart
  <2>1. \A j \in rows : j \in issued
    BY DEF TypeOK
  <2>2. QED
    BY <1>1, <1>7, <2>1 DEF Restart
<1>8. ASSUME NEW u \in Users,
             \/ \E enabled, newPassword \in BOOLEAN, period \in Periods :
                  BeginSave(u, enabled, period, newPassword)
             \/ SkipScheduled(u) \/ DeleteAccount(u) \/ DeleteUserRow(u) \/ CreateUser(u)
      PROVE  RunningRowHasWorker'
  BY <1>1, <1>8 DEF BeginSave, SkipScheduled, DeleteAccount, DeleteUserRow, CreateUser
<1>9. ASSUME NEW s \in saves, StoreConfig(s) \/ RejectSave(s)
      PROVE  RunningRowHasWorker'
  BY <1>1, <1>9 DEF StoreConfig, RejectSave
<1>10. CASE PollDue \/ Tick \/ UNCHANGED vars
  BY <1>1, <1>10 DEF PollDue, Tick, vars
<1>11. QED
  BY <1>2, <1>3, <1>4, <1>5, <1>6, <1>7, <1>8, <1>9, <1>10 DEF Next

\* A job that is shown as running has its goroutine, queued or at work, unless a restart,
\* a lost final transaction or a restore without a system account has abandoned the row:
\* no other way out of the goroutine leaves the row unfinished.
THEOREM RunningIsWorked == Spec => []RunningRowHasWorker
<1>1. Init => RunningRowHasWorker
  BY DEF Init, RunningRowHasWorker
<1>2. Spec => []TypeOK
  BY TypeCorrect
<1>3. QED
  BY <1>1, <1>2, WorkerStep, PTL DEF Spec
-----------------------------------------------------------------------------
(***************************************************************************)
(* Refinement: each step is a step of BackupLease, or leaves what is seen  *)
(* of jobs and leases as it is.                                            *)
(***************************************************************************)
\* A goroutine that is there has not written the outcome of its job.
Unfinished == \A j \in issued : worker[j] # "none" => job[j].status = "running"

Lives == [j \in JobIds |-> Life(j)]
Holders == [u \in Users |-> Holder(u)]
Sinces == [u \in Users |-> Since(u)]
LeaseVars == <<now, Lives, Holders, Sinces>>

SameLives == \A j \in JobIds : Life(j)' = Life(j)
SameLeases == \A u \in Users : Holder(u)' = Holder(u) /\ Since(u)' = Since(u)

LEMMA LeaseStutter ==
    ASSUME SameLives, SameLeases, UNCHANGED now
    PROVE  LeaseVars' = LeaseVars
  BY DEF SameLives, SameLeases, LeaseVars, Lives, Holders, Sinces

\* The configurations that stay have the claims they had.
LEMMA LeasesSame ==
    ASSUME UNCHANGED <<configured, config>>
    PROVE  SameLeases
  BY DEF SameLeases, Holder, Since

LEMMA LivesSame ==
    ASSUME UNCHANGED <<issued, rows, job>>
    PROVE  SameLives
  BY DEF SameLives, Life

LEMMA NewRuns ==
    ASSUME TypeOK, NEW j \in JobIds, NEW u \in Users, NEW kind \in JobKinds, NewJob(j, u, kind)
    PROVE  /\ j \notin issued /\ rows' = rows \cup {j} /\ issued' = issued \cup {j}
           /\ job'[j].status = "running"
           /\ \A i \in issued : job'[i] = job[i]
<1>1. job'[j] = [user |-> u, kind |-> kind, status |-> "running", started |-> now]
  BY NewJobFacts
<1>2. job'[j].status = "running"
  BY <1>1
<1>3. QED
  BY <1>2, NewJobFacts

\* A new row makes its job run.
LEMMA LifeStarts ==
    ASSUME TypeOK, NEW j \in JobIds, NEW u \in Users, NEW kind \in JobKinds, NewJob(j, u, kind)
    PROVE  Life(j) = "unborn" /\ Lives' = [Lives EXCEPT ![j] = "running"]
<1>1. /\ j \notin issued /\ rows' = rows \cup {j} /\ issued' = issued \cup {j}
      /\ job'[j].status = "running"
      /\ \A i \in issued : job'[i] = job[i]
  BY NewRuns
<1>2. rows \subseteq issued
  BY DEF TypeOK
<1>3. Life(j)' = "running"
  BY <1>1 DEF Life
<1>4. \A i \in JobIds \ {j} : Life(i)' = Life(i)
  BY <1>1, <1>2 DEF Life
<1>5. QED
  BY <1>1, <1>3, <1>4 DEF Life, Lives

\* The goroutine of a job whose row is there gives it its outcome, once.
LEMMA LifeEnds ==
    ASSUME TypeOK, Unfinished, NEW j \in issued, NEW status \in {"success", "failed"},
           Running(j), SetStatus(j, status), UNCHANGED <<issued, rows>>
    PROVE  \/ j \notin rows /\ SameLives
           \/ j \in rows /\ Life(j) = "running" /\ Lives' = [Lives EXCEPT ![j] = status]
<1>1. CASE j \notin rows
  BY <1>1, LivesSame DEF SetStatus
<1>2. CASE j \in rows
  <2>1. Life(j) = "running" /\ j \in JobIds
    BY <1>2 DEF Running, Life, Unfinished, TypeOK
  <2>2. job'[j].status = status /\ \A i \in issued \ {j} : job'[i] = job[i]
    BY <1>2 DEF SetStatus, TypeOK, JobRow
  <2>3. Life(j)' = status /\ \A i \in JobIds \ {j} : Life(i)' = Life(i)
    BY <1>2, <2>2 DEF Life, TypeOK
  <2>4. QED
    BY <1>2, <2>1, <2>3 DEF Lives
<1>3. QED
  BY <1>1, <1>2

\* The leases of users whose holders have not ended stay as they are.
LEMMA LeaseGivenUp ==
    ASSUME NEW ended,
           \A u \in Users : Holder(u) \in ended => Holder(u)' = NoJob,
           \A u \in Users : Holder(u) \notin ended =>
                               Holder(u)' = Holder(u) /\ Since(u)' = Since(u)
    PROVE  Lease!GiveUp(ended)
<1>1. \A u \in Users : Holder(u) \in ended => Since(u)' = 0
  BY DEF Since
<1>2. QED
  BY <1>1 DEF Lease!GiveUp

LEMMA TriggerRefines ==
    ASSUME IInv, NEW u \in Users, NEW kind \in BackupKinds, NEW allowed \in BOOLEAN,
           TriggerBackup(u, kind, allowed)
    PROVE  Lease!Next
<1>1. TypeOK
  BY DEF IInv
<1>2. PICK j \in JobIds :
        /\ Claimable(u, allowed)
        /\ NewJob(j, u, kind)
        /\ config' = [config EXCEPT ![u] = ClaimedRow(@, j)]
        /\ UNCHANGED <<now, configured>>
  BY DEF TriggerBackup
<1>3. Life(j) = "unborn" /\ Lives' = [Lives EXCEPT ![j] = "running"]
  BY <1>1, <1>2, LifeStarts DEF JobKinds
<1>4. u \in configured /\ config[u] \in ConfigRow /\ now \in Nat /\ j # NoJob
  BY <1>1, <1>2 DEF Claimable, TypeOK
<1>5. /\ config'[u].running = j /\ config'[u].started = now
      /\ \A v \in configured \ {u} : config'[v] = config[v]
  BY <1>1, <1>2, <1>4, ClaimedRowType DEF TypeOK
<1>6. Holders' = [Holders EXCEPT ![u] = j]
  <2>1. Holder(u)' = j
    BY <1>2, <1>4, <1>5 DEF Holder
  <2>2. \A v \in Users \ {u} : Holder(v)' = Holder(v)
    BY <1>2, <1>5 DEF Holder
  <2>3. QED
    BY <2>1, <2>2 DEF Holders
<1>7. Sinces' = [Sinces EXCEPT ![u] = now]
  <2>1. Since(u)' = now
    BY <1>2, <1>4, <1>5 DEF Since, Holder
  <2>2. \A v \in Users \ {u} : Since(v)' = Since(v)
    BY <1>2, <1>5 DEF Since, Holder
  <2>3. QED
    BY <2>1, <2>2 DEF Sinces
<1>8. Holder(u) = NoJob \/ Since(u) + StaleAfter <= now
  <2>1. CASE config[u].running # NoJob
    <3>1. config[u].started \in Nat
      BY <1>1, <1>4, <2>1 DEF IInv, ClaimNamesRunningJob, TypeOK, JobRow
    <3>2. ~ClaimedRecently(u)
      BY <1>2 DEF Claimable
    <3>3. config[u].started + StaleAfter <= now
      BY <2>1, <3>1, <3>2, <1>4 DEF ClaimedRecently, NoTime
    <3>4. QED
      BY <2>1, <3>3, <1>4 DEF Since, Holder
  <2>2. QED
    BY <2>1, <1>4 DEF Holder
<1>9. Lease!StartBackup(u, j)
  BY <1>2, <1>3, <1>6, <1>7, <1>8 DEF Lease!StartBackup, Lives, Holders, Sinces
<1>10. QED
  BY <1>9 DEF Lease!Next

LEMMA NewOtherRefines ==
    ASSUME TypeOK, NEW u \in Users, NEW kind \in OtherKinds, NEW j \in JobIds,
           NewJob(j, u, kind), UNCHANGED <<now, configured, config>>
    PROVE  Lease!Next
<1>1. Life(j) = "unborn" /\ Lives' = [Lives EXCEPT ![j] = "running"]
  BY LifeStarts DEF JobKinds
<1>2. Holders' = Holders /\ Sinces' = Sinces
  BY LeasesSame DEF SameLeases, Holders, Sinces
<1>3. Lease!Start(j)
  BY <1>1, <1>2 DEF Lease!Start, Lives, Holders, Sinces
<1>4. QED
  BY <1>3 DEF Lease!Next

\* The claim a job holds, if it holds one, is its user's.
LEMMA HolderOf ==
    ASSUME IInv, NEW u \in Users, NEW j \in JobIds, Holder(u) = j
    PROVE  /\ u \in configured /\ config[u].running = j
           /\ j \in rows /\ job[j].user = u /\ job[j].kind \in BackupKinds
  BY DEF Holder, IInv, ClaimNamesRunningJob

LEMMA FinishBackupRefines ==
    ASSUME IInv, Unfinished, NEW j \in issued, NEW status \in {"success", "failed"},
           FinishBackup(j, status)
    PROVE  Lease!Next \/ LeaseVars' = LeaseVars
<1>1. TypeOK /\ j \in JobIds
  BY DEF IInv, TypeOK
<1>2. PICK u : u = job[j].user
  OBVIOUS
<1>3. /\ Running(j) /\ SetStatus(j, status)
      /\ UNCHANGED <<now, configured, issued, rows>>
      /\ config' = IF u \in configured /\ config[u].running = j
                     THEN [config EXCEPT ![u] = ReleasedRow(@, status)] ELSE config
  BY <1>2 DEF FinishBackup
<1>4. CASE j \notin rows
  <2>1. ~(u \in configured /\ config[u].running = j)
    BY <1>1, <1>4 DEF IInv, ClaimNamesRunningJob
  <2>2. SameLeases
    BY <1>3, <2>1, LeasesSame
  <2>3. SameLives
    BY <1>1, <1>3, <1>4, LifeEnds
  <2>4. QED
    BY <1>3, <2>2, <2>3, LeaseStutter
<1>5. CASE j \in rows
  <2>1. Life(j) = "running" /\ Lives' = [Lives EXCEPT ![j] = status]
    BY <1>1, <1>3, <1>5, LifeEnds
  <2>2. ASSUME NEW v \in Users, Holder(v) = j PROVE Holder(v)' = NoJob
    <3>1. v \in configured /\ config[v].running = j /\ v = u
      BY <1>1, <1>2, <2>2, HolderOf
    <3>2. config[v] \in ConfigRow
      BY <1>1, <3>1 DEF TypeOK
    <3>3. config' = [config EXCEPT ![v] = ReleasedRow(config[v], status)]
      BY <1>3, <3>1
    <3>4. config'[v] = ReleasedRow(config[v], status)
      BY <1>1, <3>1, <3>3 DEF TypeOK
    <3>5. ReleasedRow(config[v], status).running = NoJob
      BY <1>1, <3>2, ReleasedRowType
    <3>6. QED
      BY <1>3, <3>1, <3>4, <3>5 DEF Holder
  <2>3. ASSUME NEW v \in Users, Holder(v) # j
        PROVE  Holder(v)' = Holder(v) /\ Since(v)' = Since(v)
    <3>1. v \in configured => config'[v] = config[v]
      BY <1>1, <1>3, <2>3 DEF TypeOK, Holder
    <3>2. QED
      BY <1>3, <3>1 DEF Holder, Since
  <2>4. Lease!GiveUp({j})
    BY <2>2, <2>3, LeaseGivenUp
  <2>5. Lease!End(j, status)
    BY <1>3, <2>1, <2>4, <1>1 DEF Lease!End, Lives
  <2>6. QED
    BY <1>1, <2>5 DEF Lease!Next, Lease!Outcomes
<1>6. QED
  BY <1>4, <1>5

LEMMA FinishOtherRefines ==
    ASSUME IInv, Unfinished, NEW j \in issued, NEW status \in {"success", "failed"},
           FinishOther(j, status)
    PROVE  Lease!Next \/ LeaseVars' = LeaseVars
<1>1. TypeOK /\ j \in JobIds
  BY DEF IInv, TypeOK
<1>2. /\ Running(j) /\ job[j].kind \in OtherKinds /\ SetStatus(j, status)
      /\ UNCHANGED <<now, configured, config, issued, rows>>
  BY DEF FinishOther
<1>3. SameLeases
  BY <1>2, LeasesSame
<1>4. CASE j \notin rows
  BY <1>1, <1>2, <1>3, <1>4, LifeEnds, LeaseStutter
<1>5. CASE j \in rows
  <2>1. Life(j) = "running" /\ Lives' = [Lives EXCEPT ![j] = status]
    BY <1>1, <1>2, <1>5, LifeEnds
  <2>2. \A v \in Users : Holder(v) # j
    BY <1>1, <1>2, HolderOf, ConstantsAssumption
  <2>3. Lease!GiveUp({j})
    BY <2>2, <1>3, LeaseGivenUp DEF SameLeases
  <2>4. Lease!End(j, status)
    BY <1>1, <1>2, <2>1, <2>3 DEF Lease!End, Lives
  <2>5. QED
    BY <1>1, <2>4 DEF Lease!Next, Lease!Outcomes
<1>6. QED
  BY <1>4, <1>5

\* The cascade takes the rows and the lease of a user together.
LEMMA DeleteUserRowRefines ==
    ASSUME IInv, NEW u \in Users, DeleteUserRow(u)
    PROVE  Lease!Next
<1>1. TypeOK
  BY DEF IInv
<1>2. PICK gone : gone = {j \in rows : job[j].user = u}
  OBVIOUS
<1>3. /\ configured' = configured \ {u}
      /\ \A v \in configured' : config'[v] = config[v]
      /\ rows' = rows \ gone
      /\ UNCHANGED <<now, issued, job>>
  BY <1>2 DEF DeleteUserRow
<1>4. gone \subseteq JobIds /\ gone \subseteq rows /\ rows \subseteq issued /\ NoJob \notin gone
  BY <1>1, <1>2 DEF TypeOK
<1>5. \A j \in gone : Life(j) \in {"running", "success", "failed"}
  BY <1>1, <1>4 DEF Life, TypeOK, JobRow, JobStatus
<1>6. \A j \in JobIds : Life(j)' = IF j \in gone THEN "gone" ELSE Life(j)
  BY <1>3, <1>4 DEF Life
<1>7. ASSUME NEW v \in Users, Holder(v) \in gone PROVE Holder(v)' = NoJob
  <2>1. v = u
    BY <1>2, <1>4, <1>7, HolderOf
  <2>2. QED
    BY <1>3, <2>1 DEF Holder
<1>8. ASSUME NEW v \in Users, Holder(v) \notin gone
      PROVE  Holder(v)' = Holder(v) /\ Since(v)' = Since(v)
  <2>1. CASE v # u
    BY <1>3, <2>1 DEF Holder, Since
  <2>2. CASE v = u
    <3>1. Holder(v) = NoJob
      <4>1. SUFFICES ASSUME Holder(v) # NoJob PROVE FALSE
        OBVIOUS
      <4>2. Holder(v) \in JobIds
        BY <1>1, <4>1 DEF TypeOK, ConfigRow, Holder
      <4>3. Holder(v) \in rows /\ job[Holder(v)].user = u
        BY <4>2, <2>2, HolderOf
      <4>4. QED
        BY <1>2, <1>8, <4>3
    <3>2. Holder(v)' = NoJob
      BY <1>3, <2>2 DEF Holder
    <3>3. QED
      BY <3>1, <3>2 DEF Since
  <2>3. QED
    BY <2>1, <2>2
<1>9. Lease!GiveUp(gone)
  BY <1>7, <1>8, LeaseGivenUp
<1>10. Lease!Vanish(gone)
  BY <1>3, <1>4, <1>5, <1>6, <1>9 DEF Lease!Vanish, Lease!Outcomes
<1>11. QED
  BY <1>4, <1>10 DEF Lease!Next

LEMMA StoreRefines ==
    ASSUME TypeOK, NEW s \in saves, StoreConfig(s)
    PROVE  LeaseVars' = LeaseVars
<1>1. /\ configured' = configured \cup {s.user}
      /\ \A v \in configured' : v # s.user => config'[v] = config[v]
      /\ config'[s.user] = SavedRow(s)
      /\ UNCHANGED <<now, issued, rows, job>>
  BY DEF StoreConfig
<1>2. /\ s.user \in configured => /\ SavedRow(s).running = config[s.user].running
                                  /\ SavedRow(s).started = config[s.user].started
      /\ s.user \notin configured => SavedRow(s).running = NoJob
  BY SavedRowType
<1>3. ASSUME NEW v \in Users PROVE Holder(v)' = Holder(v) /\ Since(v)' = Since(v)
  <2>1. CASE v = s.user
    BY <1>1, <1>2, <2>1 DEF Holder, Since
  <2>2. CASE v # s.user
    BY <1>1, <2>2 DEF Holder, Since
  <2>3. QED
    BY <2>1, <2>2
<1>4. QED
  BY <1>1, <1>3, LivesSame, LeaseStutter DEF SameLeases

LEMMA NextRefines ==
    ASSUME IInv, Unfinished, [Next]_vars
    PROVE  Lease!Next \/ LeaseVars' = LeaseVars
<1> DEFINE Goal == Lease!Next \/ LeaseVars' = LeaseVars
<1>1. TypeOK
  BY DEF IInv
<1>2. ASSUME UNCHANGED <<now, configured, config, issued, rows, job>> PROVE Goal
  BY <1>2, LeasesSame, LivesSame, LeaseStutter
<1>3. ASSUME NEW u \in Users, RunNow(u) \/ TriggerScheduled(u) PROVE Goal
  BY <1>3, TriggerRefines DEF RunNow, TriggerScheduled, BackupKinds
<1>4. ASSUME NEW u \in Users, NEW kind \in OtherKinds,
             StartOther(u, kind) \/ RestoreWithoutHome(u, kind)
      PROVE  Goal
  BY <1>1, <1>4, NewOtherRefines DEF StartOther, RestoreWithoutHome
<1>5. ASSUME NEW s \in saves, StoreConfig(s) \/ RejectSave(s) PROVE Goal
  BY <1>1, <1>2, <1>5, StoreRefines DEF RejectSave
<1>6. ASSUME NEW j \in issued, NEW status \in {"success", "failed"},
             \/ FinishBackup(j, status) \/ FinishOther(j, status)
             \/ AcquireWorker(j) \/ Hang(j) \/ LoseFinish(j)
      PROVE  Goal
  BY <1>2, <1>6, FinishBackupRefines, FinishOtherRefines DEF AcquireWorker, Hang, LoseFinish
<1>7. ASSUME NEW u \in Users, DeleteUserRow(u) PROVE Goal
  BY <1>7, DeleteUserRowRefines
<1>8. ASSUME NEW u \in Users,
             \/ \E enabled, newPassword \in BOOLEAN, period \in Periods :
                  BeginSave(u, enabled, period, newPassword)
             \/ SkipScheduled(u) \/ DeleteAccount(u) \/ CreateUser(u)
      PROVE  Goal
  BY <1>2, <1>8 DEF BeginSave, SkipScheduled, DeleteAccount, CreateUser
<1>9. CASE PollDue \/ Restart \/ UNCHANGED vars
  BY <1>2, <1>9 DEF PollDue, Restart, vars
<1>10. CASE Tick
  <2>1. Holders' = Holders /\ Sinces' = Sinces /\ Lives' = Lives /\ now' = now + 1
    BY <1>10, LeasesSame, LivesSame
       DEF Tick, SameLeases, SameLives, Holders, Sinces, Lives
  <2>2. Lease!Tick
    BY <2>1 DEF Lease!Tick, Holders, Sinces, Lives
  <2>3. QED
    BY <2>2 DEF Lease!Next
<1>11. QED
  BY <1>3, <1>4, <1>5, <1>6, <1>7, <1>8, <1>9, <1>10 DEF Next

LEMMA UnfinishedStep == TypeOK /\ Unfinished /\ [Next]_vars => Unfinished'
<1> SUFFICES ASSUME TypeOK, Unfinished, [Next]_vars PROVE Unfinished'
  OBVIOUS
<1>1. ASSUME UNCHANGED <<issued, job>>,
             \A j \in issued : worker'[j] # "none" => worker[j] # "none"
      PROVE  Unfinished'
  BY <1>1 DEF Unfinished
<1>2. ASSUME NEW j \in JobIds, NEW u \in Users, NEW kind \in JobKinds, NewJob(j, u, kind),
             worker' \in {worker, [worker EXCEPT ![j] = "queued"]}
      PROVE  Unfinished'
  <2>1. /\ issued' = issued \cup {j} /\ job'[j].status = "running"
        /\ \A i \in issued : job'[i] = job[i]
    BY <1>2, NewRuns
  <2>2. \A i \in issued : i # j => worker'[i] = worker[i]
    BY <1>2 DEF TypeOK
  <2>3. QED
    BY <2>1, <2>2 DEF Unfinished
<1>3. ASSUME NEW j \in issued, NEW status, SetStatus(j, status),
             worker' = [worker EXCEPT ![j] = "none"], UNCHANGED issued
      PROVE  Unfinished'
  <2>1. worker'[j] = "none" /\ \A i \in issued : i # j => worker'[i] = worker[i]
    BY <1>3 DEF TypeOK
  <2>2. \A i \in issued : i # j => job'[i] = job[i]
    BY <1>3, SetStatusFacts
  <2>3. QED
    BY <1>3, <2>1, <2>2 DEF Unfinished
<1>4. ASSUME NEW u \in Users,
             \/ RunNow(u) \/ TriggerScheduled(u)
             \/ \E kind \in OtherKinds : StartOther(u, kind) \/ RestoreWithoutHome(u, kind)
      PROVE  Unfinished'
  BY <1>2, <1>4 DEF RunNow, TriggerScheduled, TriggerBackup, StartOther, RestoreWithoutHome,
                    JobKinds, BackupKinds
<1>5. ASSUME NEW j \in issued, NEW status \in {"success", "failed"},
             FinishBackup(j, status) \/ FinishOther(j, status)
      PROVE  Unfinished'
  BY <1>3, <1>5 DEF FinishBackup, FinishOther
<1>6. ASSUME NEW j \in issued, AcquireWorker(j) \/ Hang(j) \/ LoseFinish(j) PROVE Unfinished'
  BY <1>1, <1>6 DEF AcquireWorker, Hang, LoseFinish, TypeOK
<1>7. ASSUME NEW u \in Users,
             \/ \E enabled, newPassword \in BOOLEAN, period \in Periods :
                  BeginSave(u, enabled, period, newPassword)
             \/ SkipScheduled(u) \/ DeleteAccount(u) \/ DeleteUserRow(u) \/ CreateUser(u)
      PROVE  Unfinished'
  BY <1>1, <1>7 DEF BeginSave, SkipScheduled, DeleteAccount, DeleteUserRow, CreateUser
<1>8. ASSUME NEW s \in saves, StoreConfig(s) \/ RejectSave(s) PROVE Unfinished'
  BY <1>1, <1>8 DEF StoreConfig, RejectSave
<1>9. CASE PollDue \/ Restart \/ Tick \/ UNCHANGED vars
  BY <1>1, <1>9 DEF PollDue, Restart, Tick, vars, TypeOK
<1>10. QED
  BY <1>4, <1>5, <1>6, <1>7, <1>8, <1>9 DEF Next

LEMMA LeaseInit == Init => Lease!Init /\ Unfinished
  BY DEF Init, Lease!Init, Unfinished, Life, Holder, Since

\* What is seen of jobs and claims is a lease, whatever is saved, deleted, late, lost or
\* restarted: every step of the panel is a step of BackupLease or nothing anyone sees.
THEOREM Implementation == Spec => ImplementsLease
<1>1. IInv /\ Unfinished /\ [Next]_vars => [Lease!Next]_LeaseVars
  BY NextRefines
<1>2. IInv => TypeOK
  BY DEF IInv
<1>3. QED
  BY LeaseInit, IInvHolds, UnfinishedStep, <1>1, <1>2, PTL
     DEF Spec, ImplementsLease, Lease!Spec, LeaseVars, Lives, Holders, Sinces
=============================================================================
