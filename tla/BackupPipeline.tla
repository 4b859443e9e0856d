--------------------------- MODULE BackupPipeline ---------------------------
(***************************************************************************)
(* What a backup, a restore and an export of one user do with the data     *)
(* (internal/api/backups.go).  A backup dumps the databases into a         *)
(* directory, writes a manifest beside them and has restic store both with *)
(* the sites; a restore fetches one item of a snapshot and loads it over   *)
(* what is there.  The jobs of a user share the dump directory, the        *)
(* manifest, the repository and the live data, and only the worker slots   *)
(* and the claim on the configuration (BackupRuns) keep them apart.        *)
(*                                                                         *)
(* restic locks its repository, so that a command is one step for the      *)
(* others; a command that finds it locked is retried after `restic unlock` *)
(* and fails when that does not help (runWithResticLockRecovery).  Reading *)
(* and writing the live data takes two steps.  What users write meanwhile  *)
(* is left out: mysqldump reads in one transaction, and what restic makes  *)
(* of a file that changes is not up to this code.                          *)
(***************************************************************************)
EXTENDS Naturals, FiniteSets

CONSTANTS
    Sites, Dbs,      \* what a user has; an item is one or the other
    Selections,      \* what configurations leave of them to back up
    Restored,        \* bound: the items that are ever restored
    Whole,           \* the content of an item at one time, whichever
    Torn,            \* a mixture of contents
    Partial,         \* a dump file that ends early
    Absent,          \* no file
    Jobs,            \* goroutines at the same time
    Workers,         \* capacity of the channel s.sem
    KeepLasts,       \* keep_last of the configuration: the user may change it between runs
    MaxSnapshots,    \* bound: snapshots ever stored
    MayTakeOver,     \* whether a claim may grow stale while its run goes on
    MayFail          \* whether commands fail and the panel may restart

Items == Sites \cup Dbs
Live == {Whole, Torn}
File == Live \cup {Partial, Absent}
Ids == 1 .. MaxSnapshots

ASSUME ConstantsAssumption ==
    /\ Sites \cap Dbs = {}
    /\ Selections \subseteq SUBSET Items /\ Restored \subseteq Items
    /\ Whole \notin {Torn, Partial, Absent} /\ Torn \notin {Partial, Absent} /\ Partial # Absent
    /\ IsFiniteSet(Jobs)
    /\ Workers \in Nat \ {0} /\ KeepLasts \subseteq Nat \ {0} /\ MaxSnapshots \in Nat
    /\ MayTakeOver \in BOOLEAN /\ MayFail \in BOOLEAN

VARIABLES
    live,        \* the sites and databases as they are
    dumps,       \* the files of mysql-dumps
    manifest,    \* the items manifest.json lists, none before it is written
    stored,      \* how many snapshots restic ever stored: the id of the last
    snap,        \* the snapshots it has
    job,         \* the goroutines
    exportSlot,  \* s.exportSem is taken
    workdirs,    \* downloads/<uuid>, by the export that has made it since the panel started
    left,        \* there is one of an earlier start, which nothing will remove
    spoilt       \* history: items whose loading has been broken off, met another loading
                 \*   or a backup, left newer tables in place, or has taken from a
                 \*   snapshot what restic could not read or runs that met had mixed

vars == <<live, dumps, manifest, stored, snap, job, exportSlot, workdirs, left, spoilt>>

Idle == [kind |-> "none", stage |-> "idle"]

\* todo: the databases not yet dumped.  seen: what there was when the dump or the
\* reading under way began.  own: the snapshot the run has stored; lost: DeleteSnapshot has
\* removed it.  met: another run of the user went on beside it.
Backup == [kind : {"backup"},
           stage : {"queued", "clean", "dump", "dumping", "read", "reading", "forget", "name", "success"},
           items : SUBSET Items, todo : SUBSET Dbs, seen : [Items -> File],
           own : {0} \cup Ids, named : {0} \cup Ids, lost : BOOLEAN, met : BOOLEAN]
Restore == [kind : {"restore"}, stage : {"queued", "fetch", "load", "loading"},
            item : Items, id : Ids, got : File, met : BOOLEAN, mixed : BOOLEAN]
Delete == [kind : {"delete"}, stage : {"queued", "forget"}, id : Ids]
Export == [kind : {"export"}, stage : {"work", "zip", "served"}, id : Ids, found : BOOLEAN]

\* took: what its run backed up.  unread: the sites of which restic told that it could not
\* read some file.
Snapshot == [manifest : SUBSET Items, content : [Items -> File], took : SUBSET Items,
             unread : SUBSET Sites, met : BOOLEAN]
Gone == [manifest |-> {}, content |-> [i \in Items |-> Absent], took |-> {}, unread |-> {},
         met |-> FALSE]
repo == {id \in 1 .. stored : snap[id] # Gone}

TypeOK ==
    /\ live \in [Items -> Live]
    /\ dumps \in [Dbs -> File]
    /\ manifest \subseteq Items
    /\ stored \in {0} \cup Ids
    /\ snap \in [Ids -> Snapshot]
    /\ job \in [Jobs -> {Idle} \cup Backup \cup Restore \cup Delete \cup Export]
    /\ exportSlot \in BOOLEAN
    /\ workdirs \subseteq Jobs /\ left \in BOOLEAN
    /\ spoilt \subseteq Items

Init ==
    /\ live = [i \in Items |-> Whole]
    /\ dumps = [d \in Dbs |-> Absent]
    /\ manifest = {}
    /\ stored = 0
    /\ snap = [id \in Ids |-> Gone]
    /\ job = [j \in Jobs |-> Idle]
    /\ exportSlot = FALSE /\ workdirs = {} /\ left = FALSE
    /\ spoilt = {}

At(j, kind, stage) == job[j].kind = kind /\ job[j].stage = stage
Becomes(j, record) == job' = [job EXCEPT ![j] = record]
ToStage(j, stage) == job' = [job EXCEPT ![j].stage = stage]

Runs == {j \in Jobs : job[j].kind = "backup"}
Reading(i) == {j \in Runs : job[j].stage \notin {"queued", "success"} /\ i \in job[j].items}
Loading(i) == {j \in Jobs : At(j, "restore", "loading") /\ job[j].item = i}
Working == {j \in Jobs : job[j].kind \in {"backup", "restore", "delete"} /\ job[j].stage # "queued"}

files == <<live, dumps, manifest>>
restic == <<stored, snap>>
exports == <<exportSlot, workdirs, left>>
-----------------------------------------------------------------------------
(***************************************************************************)
(* Jobs begin, and wait for a worker slot.                                 *)
(***************************************************************************)
\* claimBackupRun has answered with the configuration, so with what it excludes.  A
\* claim older than a day is taken over, whether or not its run has ended.
TriggerBackup(j, items) ==
    /\ job[j] = Idle
    /\ stored + Cardinality(Runs) < MaxSnapshots
    /\ Runs = {} \/ MayTakeOver
    /\ job' = [k \in Jobs |->
         IF k = j THEN [kind |-> "backup", stage |-> "queued", items |-> items, todo |-> items \cap Dbs,
                        seen |-> [i \in Items |-> Absent], own |-> 0, named |-> 0, lost |-> FALSE, met |-> Runs # {}]
         ELSE IF k \in Runs THEN [job[k] EXCEPT !.met = TRUE] ELSE job[k]]
    /\ UNCHANGED <<files, restic, exports, spoilt>>

\* RestoreSite and RestoreDatabase; the snapshot is one the user has been shown.
TriggerRestore(j, i, id) ==
    /\ job[j] = Idle
    /\ id \in repo
    /\ Becomes(j, [kind |-> "restore", stage |-> "queued", item |-> i, id |-> id,
                   got |-> Absent, met |-> FALSE, mixed |-> FALSE])
    /\ UNCHANGED <<files, restic, exports, spoilt>>

TriggerDelete(j, id) ==
    /\ job[j] = Idle
    /\ id \in repo
    /\ Becomes(j, [kind |-> "delete", stage |-> "queued", id |-> id])
    /\ UNCHANGED <<files, restic, exports, spoilt>>

AcquireWorker(j) ==
    /\ job[j].stage = "queued"
    /\ Cardinality(Working) < Workers
    /\ ToStage(j, CASE job[j].kind = "backup" -> "clean"
                    [] job[j].kind = "restore" -> "fetch"
                    [] job[j].kind = "delete" -> "forget")
    /\ spoilt' = spoilt \cup
         (IF job[j].kind = "backup" THEN {i \in job[j].items : Loading(i) # {}} ELSE {})
    /\ UNCHANGED <<files, restic, exports>>

\* finishBackupRun writes the row; slot and claim are free.
Finish(j) ==
    /\ At(j, "backup", "success")
    /\ Becomes(j, Idle)
    /\ UNCHANGED <<files, restic, exports, spoilt>>

\* A command fails, or finds the repository locked before and after the unlock; so ends
\* the job.
CommandFails(j) ==
    /\ MayFail
    /\ j \in Working /\ ~At(j, "restore", "loading") /\ ~At(j, "backup", "success")
    /\ Becomes(j, Idle)
    /\ UNCHANGED <<files, restic, exports, spoilt>>
-----------------------------------------------------------------------------
(***************************************************************************)
(* runBackup.  It may fail at every step, and leaves the dumps and the     *)
(* manifest as they are then.                                              *)
(***************************************************************************)
\* Mutant: the dumps of earlier runs stay.
CleanNothing(j) ==
    /\ At(j, "backup", "clean")
    /\ IF job[j].items = {} THEN Becomes(j, Idle) ELSE ToStage(j, "dump")
    /\ UNCHANGED <<live, dumps, manifest, restic, exports, spoilt>>

\* Old dumps are deleted, the rows listed; with nothing to back up the run ends here.
CleanDumps(j) ==
    /\ At(j, "backup", "clean")
    /\ dumps' = [d \in Dbs |-> Absent]
    /\ IF job[j].items = {} THEN Becomes(j, Idle) ELSE ToStage(j, "dump")
    /\ UNCHANGED <<live, manifest, restic, exports, spoilt>>

\* mysqldump | gzip > file: the file is there before the dump.
BeginDump(j, d) ==
    /\ At(j, "backup", "dump")
    /\ d \in job[j].todo
    /\ dumps' = [dumps EXCEPT ![d] = Partial]
    /\ Becomes(j, [job[j] EXCEPT !.stage = "dumping", !.seen = [job[j].seen EXCEPT ![d] = live[d]]])
    /\ UNCHANGED <<live, manifest, restic, exports, spoilt>>

Dumped(j) == {d \in job[j].todo : job[j].seen[d] # Absent}

\* Mutant: without pipefail a dump that fails passes for one that is done.
EndDumpUnchecked(j) ==
    /\ At(j, "backup", "dumping")
    /\ \E d \in Dumped(j) :
         /\ dumps' \in {[dumps EXCEPT ![d] = job[j].seen[d]], dumps}
         /\ Becomes(j, [job[j] EXCEPT !.stage = "dump", !.todo = @ \ {d},
                                      !.seen = [job[j].seen EXCEPT ![d] = Absent]])
    /\ UNCHANGED <<live, manifest, restic, exports, spoilt>>

\* --single-transaction: the dump shows the database as it was when it began, unless a
\* restore drops the tables meanwhile.  Two dumps into one file spoil it.
EndDump(j) ==
    /\ At(j, "backup", "dumping")
    /\ \E d \in Dumped(j) :
         /\ dumps' = [dumps EXCEPT ![d] =
              IF dumps[d] # Partial \/ \E k \in Jobs \ {j} : At(k, "backup", "dumping") THEN Partial
              ELSE IF live[d] = Torn THEN Torn ELSE job[j].seen[d]]
         /\ Becomes(j, [job[j] EXCEPT !.stage = "dump", !.todo = @ \ {d},
                                      !.seen = [job[j].seen EXCEPT ![d] = Absent]])
    /\ UNCHANGED <<live, manifest, restic, exports, spoilt>>

WriteManifest(j) ==
    /\ At(j, "backup", "dump")
    /\ job[j].todo = {}
    /\ manifest' = job[j].items
    /\ ToStage(j, "read")
    /\ UNCHANGED <<live, dumps, restic, exports, spoilt>>

\* The paths given to restic: the sites, and the whole dump directory when the run has
\* dumped anything.
Paths(j) == [i \in Items |->
    IF i \in Sites THEN IF i \in job[j].items THEN live[i] ELSE Absent
    ELSE IF job[j].items \cap Dbs # {} THEN dumps[i] ELSE Absent]

\* restic init, if there is no repository yet, and restic backup, which begins to read.
BeginBackup(j) ==
    /\ At(j, "backup", "read")
    /\ Becomes(j, [job[j] EXCEPT !.stage = "reading", !.seen = Paths(j)])
    /\ UNCHANGED <<files, restic, exports, spoilt>>

\* What has changed meanwhile is stored half old, half new.
Store(j, unread, missing) ==
    LET seen == job[j].seen IN
    /\ stored' = stored + 1
    /\ snap' = [snap EXCEPT ![stored'] =
         [manifest |-> manifest, met |-> job[j].met, took |-> job[j].items, unread |-> unread,
          content |-> [i \in Items |-> IF i \in missing THEN Absent
                                       ELSE IF Paths(j)[i] = seen[i] /\ i \notin unread THEN seen[i]
                                       ELSE IF i \in Sites THEN Torn ELSE Partial]]]
    /\ UNCHANGED <<files, exports, spoilt>>

EndBackup(j) ==
    /\ At(j, "backup", "reading")
    /\ Store(j, {}, {})
    /\ Becomes(j, [job[j] EXCEPT !.stage = "forget", !.own = stored', !.seen = [i \in Items |-> Absent]])

\* Exit status 3: some files of the sites could not be read, or a site is not there at all;
\* restic stores the rest.  Or the timeout comes when restic has stored all.  The run fails,
\* and the snapshot stays.
EndBackupFails(j) ==
    /\ MayFail
    /\ At(j, "backup", "reading")
    /\ \E unread \in SUBSET (job[j].items \cap Sites) :
         \E missing \in SUBSET unread : Store(j, unread, missing)
    /\ Becomes(j, Idle)

\* Mutant: the oldest snapshots are kept.
ForgetNewest(j) ==
    /\ At(j, "backup", "forget")
    /\ \E keep \in KeepLasts : snap' =
         [id \in Ids |-> IF Cardinality({n \in repo : n < id}) < keep THEN snap[id] ELSE Gone]
    /\ ToStage(j, "name")
    /\ UNCHANGED <<files, stored, exports, spoilt>>

\* restic forget --keep-last, and restic prune once a day, which changes nothing here.
Forget(j) ==
    /\ At(j, "backup", "forget")
    /\ \E keep \in KeepLasts : snap' =
         [id \in Ids |-> IF Cardinality({n \in repo : n > id}) < keep THEN snap[id] ELSE Gone]
    /\ ToStage(j, "name")
    /\ UNCHANGED <<files, stored, exports, spoilt>>

\* What restic groups snapshots by: the paths of the run that stored them (all have one
\* host).
PathSet(id) == [sites |-> snap[id].took \cap Sites, dumps |-> snap[id].took \cap Dbs # {}]

\* `restic snapshots --latest 1` lists the latest one of every set of paths.
Latest == {id \in repo : \A n \in repo : PathSet(n) = PathSet(id) => n <= id}

\* parseSnapshotIDFromBackupOutput.  Output it finds no id in makes runBackup ask for the
\* latest snapshot, and take the first of the list.
NameSnapshot(j) ==
    /\ At(j, "backup", "name")
    /\ \E id \in {0, job[j].own} \cup Latest :
         Becomes(j, [job[j] EXCEPT !.stage = "success", !.named = id])
    /\ UNCHANGED <<files, restic, exports, spoilt>>
-----------------------------------------------------------------------------
(***************************************************************************)
(* RestoreSite, RestoreDatabase, DeleteSnapshot.                           *)
(***************************************************************************)
\* loadSnapshotManifest, the path it lists for the item, and restic restore into a
\* directory of the job's own.
Fetch(j) ==
    LET id == job[j].id  i == job[j].item IN
    /\ At(j, "restore", "fetch")
    /\ IF id \in repo /\ i \in snap[id].manifest /\ snap[id].content[i] # Absent
         THEN Becomes(j, [job[j] EXCEPT !.stage = "load", !.got = snap[id].content[i],
                                             !.mixed = snap[id].met \/ i \in snap[id].unread])
         ELSE Becomes(j, Idle)
    /\ UNCHANGED <<files, restic, exports, spoilt>>

\* rsync --delete over the site, gunzip | mysql into the database.
BeginLoad(j) ==
    LET i == job[j].item IN
    /\ At(j, "restore", "load")
    /\ live' = [live EXCEPT ![i] = Torn]
    /\ job' = [k \in Jobs |->
         IF k = j THEN [job[k] EXCEPT !.stage = "loading", !.met = Loading(i) # {}]
         ELSE IF k \in Loading(i) THEN [job[k] EXCEPT !.met = TRUE] ELSE job[k]]
    /\ spoilt' = IF Loading(i) \cup Reading(i) # {} \/ job[j].mixed
                   THEN spoilt \cup {i} ELSE spoilt
    /\ UNCHANGED <<dumps, manifest, restic, exports>>

\* Mutant: without pipefail a dump that ends early is loaded as far as it goes.
EndLoadUnchecked(j) ==
    LET i == job[j].item IN
    /\ At(j, "restore", "loading")
    /\ live' = [live EXCEPT ![i] = IF job[j].met THEN Torn ELSE job[j].got]
    /\ Becomes(j, Idle)
    /\ UNCHANGED <<dumps, manifest, restic, exports, spoilt>>

\* Success; not for a dump that ends early, which gunzip notices.  rsync deletes what the
\* snapshot does not have; a dump drops the tables it holds, but none that is newer.
EndLoad(j) ==
    LET i == job[j].item IN
    /\ At(j, "restore", "loading")
    /\ job[j].got # Partial
    /\ \E newer \in BOOLEAN :
         /\ newer => i \in Dbs
         /\ live' = [live EXCEPT ![i] = IF job[j].met \/ newer THEN Torn ELSE job[j].got]
         /\ spoilt' = IF newer THEN spoilt \cup {i} ELSE spoilt
    /\ Becomes(j, Idle)
    /\ UNCHANGED <<dumps, manifest, restic, exports>>

\* A command fails, or gunzip finds that the dump ends early: what was there is half gone, and
\* only the first is nobody's fault.
LoadFails(j) ==
    /\ At(j, "restore", "loading")
    /\ \/ MayFail /\ spoilt' = spoilt \cup {job[j].item}
       \/ job[j].got = Partial /\ UNCHANGED spoilt
    /\ Becomes(j, Idle)
    /\ UNCHANGED <<files, restic, exports>>

DeleteSnapshot(j) ==
    /\ At(j, "delete", "forget")
    /\ snap' = [snap EXCEPT ![job[j].id] = Gone]
    /\ job' = [k \in Jobs |->
         IF k = j THEN Idle
         ELSE IF job[k].kind = "backup" /\ job[k].own = job[j].id THEN [job[k] EXCEPT !.lost = TRUE]
         ELSE job[k]]
    /\ UNCHANGED <<files, stored, exports, spoilt>>
-----------------------------------------------------------------------------
(***************************************************************************)
(* CreateSnapshotZip, and the handler that serves the file.                *)
(***************************************************************************)
BeginExport(j, id) ==
    /\ job[j] = Idle
    /\ id \in repo
    /\ ~exportSlot
    /\ exportSlot' = TRUE
    /\ workdirs' = workdirs \cup {j} /\ UNCHANGED left
    /\ Becomes(j, [kind |-> "export", stage |-> "work", id |-> id, found |-> FALSE])
    /\ UNCHANGED <<files, restic, spoilt>>

\* The deferred functions: the slot is free again, and the directory removed.
EndExport(j) ==
    /\ exportSlot' = FALSE
    /\ workdirs' = workdirs \ {j} /\ UNCHANGED left
    /\ Becomes(j, Idle)

\* The sources of the archive, from the manifest.
SourcesFound(id) == \A i \in snap[id].manifest : snap[id].content[i] # Absent

\* restic restore --include of every path in the manifest; a path the snapshot does not
\* have is not restored, and not an error.  Each is looked for in what was restored.
FetchExport(j) ==
    LET id == job[j].id IN
    /\ At(j, "export", "work")
    /\ id \in repo
    /\ Becomes(j, [job[j] EXCEPT !.stage = "zip", !.found = SourcesFound(id)])
    /\ UNCHANGED <<files, restic, exports, spoilt>>

\* The slot is free before the file is served.  What is served is not followed further: nobody
\* looks at the error of closing the archive, and it may have lost its end.
Zip(j) ==
    /\ At(j, "export", "zip")
    /\ job[j].found
    /\ exportSlot' = FALSE
    /\ ToStage(j, "served")
    /\ UNCHANGED <<files, restic, workdirs, left, spoilt>>

\* Mutant: an export that fails keeps the slot.
ExportFailsKeepsSlot(j) ==
    /\ job[j].kind = "export" /\ job[j].stage \in {"work", "zip"}
    /\ workdirs' = workdirs \ {j}
    /\ Becomes(j, Idle)
    /\ UNCHANGED <<files, restic, exportSlot, left, spoilt>>

\* An error at any step: a snapshot that is gone, a command, the disk, the client.
ExportFails(j) ==
    /\ job[j].kind = "export" /\ job[j].stage \in {"work", "zip"}
    /\ EndExport(j)
    /\ UNCHANGED <<files, restic, spoilt>>

\* The handler removes the directory when it has served the file, or failed to.
Served(j) ==
    /\ At(j, "export", "served")
    /\ workdirs' = workdirs \ {j}
    /\ Becomes(j, Idle)
    /\ UNCHANGED <<files, restic, exportSlot, left, spoilt>>
-----------------------------------------------------------------------------
\* The panel stops and starts: its goroutines and their commands are gone, their files
\* stay.
Restart ==
    /\ MayFail
    /\ job' = [j \in Jobs |-> Idle]
    /\ exportSlot' = FALSE /\ workdirs' = {} /\ left' = (left \/ workdirs # {})
    /\ spoilt' = spoilt \cup {i \in Items : Loading(i) # {}}
    /\ UNCHANGED <<files, restic>>

Next ==
    \/ \E j \in Jobs :
         \/ \E items \in Selections : TriggerBackup(j, items)
         \/ \E id \in Ids : \/ \E i \in Restored : TriggerRestore(j, i, id)
                            \/ TriggerDelete(j, id) \/ BeginExport(j, id)
         \/ AcquireWorker(j) \/ Finish(j) \/ CommandFails(j)
         \/ CleanDumps(j) \/ (\E d \in Dbs : BeginDump(j, d)) \/ EndDump(j) \/ WriteManifest(j)
         \/ BeginBackup(j) \/ EndBackup(j) \/ EndBackupFails(j) \/ Forget(j) \/ NameSnapshot(j)
         \/ Fetch(j) \/ BeginLoad(j) \/ EndLoad(j) \/ LoadFails(j) \/ DeleteSnapshot(j)
         \/ FetchExport(j) \/ Zip(j) \/ ExportFails(j) \/ Served(j)
    \/ Restart

Spec == Init /\ [][Next]_vars
-----------------------------------------------------------------------------
(***************************************************************************)
(* Properties.                                                             *)
(***************************************************************************)
\* A snapshot holds what its manifest lists, whole, and no dump besides, whatever earlier
\* runs left in the directory, and also when its run failed after it was stored: unless its
\* run met another, or the item was being loaded, or had been damaged by a loading, when it
\* was read, and but for the sites restic could not read.
SnapshotsHoldManifest ==
    \A id \in repo : ~snap[id].met =>
        LET held == {i \in Items : snap[id].content[i] # Absent} IN
        /\ held \cup snap[id].unread = snap[id].manifest
        /\ \A i \in snap[id].manifest \ (spoilt \cup snap[id].unread) : snap[id].content[i] = Whole

\* A run that reports success has its snapshot in the repository, with all of every site,
\* whatever retention has removed.  Its row names no other, but one of a run that backed up
\* other sites, or no databases where this one did: unless it met another run or
\* DeleteSnapshot took its own away.
SuccessHasSnapshot ==
    \A j \in Jobs :
        LET own == job[j].own  named == job[j].named IN
        (At(j, "backup", "success") /\ ~job[j].met /\ ~job[j].lost) =>
            /\ own \in repo /\ snap[own].unread = {}
            /\ named \in repo \ {own} => PathSet(named) # PathSet(own)

\* A site or database that is not being loaded is as users left it, or whole as it was at
\* some earlier time: backups, exports and restores that come to nothing leave it alone, a
\* restore that reports success has put all of it back, and none is given a dump that ends
\* early.  The exceptions are those of spoilt.
LiveIsWhole ==
    \A i \in Items \ spoilt : live[i] = Whole \/ Loading(i) # {}

\* The export slot is taken, and a directory of this start of the panel kept, only while an
\* export is under way: no failure shuts out later exports or fills the disk, but a stop of
\* the panel, which leaves what was under way for ever (left).
ExportsCleanUp ==
    /\ exportSlot => \E j \in Jobs : job[j].kind = "export" /\ job[j].stage # "served"
    /\ \A j \in workdirs : job[j].kind = "export"
=============================================================================
