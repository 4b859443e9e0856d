------------------------ MODULE BackupPipeline_proofs ------------------------
(***************************************************************************)
(* Proofs about BackupPipeline, for any sites, databases, selections,      *)
(* workers, snapshots to keep, and jobs.                                   *)
(***************************************************************************)
EXTENDS BackupPipeline, FiniteSetTheorems, TLAPS

\* Runs that have yet to store their snapshot: there is an id left for each.
Pending == {j \in Runs : job[j].stage \notin {"forget", "name", "success"}}
Counted == stored + Cardinality(Pending) <= MaxSnapshots

Busy == {"dump", "dumping", "read", "reading"}
Stored == {"forget", "name", "success"}

\* The dumps of a run that is alone: of what it backs up, whole unless spoilt.
Dumps(j) == \A d \in Dbs :
    /\ d \notin job[j].items => dumps[d] = Absent
    /\ d \in job[j].items \ job[j].todo => dumps[d] # Absent /\ (d \in spoilt \/ dumps[d] = Whole)

\* The dump under way has made its file, and saw the database as it was.
UnderWay(j) == \A d \in job[j].todo : job[j].seen[d] # Absent =>
    dumps[d] = Partial /\ (d \in spoilt \/ job[j].seen[d] = Whole)

\* restic sees what the run backs up, and nothing besides.
Seen(j) == \A i \in Items :
    /\ job[j].seen[i] # Absent <=> i \in job[j].items
    /\ i \in job[j].items => i \in spoilt \/ job[j].seen[i] = Whole

\* While a run is alone its snapshot is the newest, and restic has read all of its sites.
Newest(j) == /\ job[j].own \in repo /\ \A n \in repo : n <= job[j].own
             /\ snap[job[j].own].unread = {}

\* A snapshot the row of a run names, if not its own, has other paths.
Other(named, own) == named \in repo \ {own} => PathSet(named) # PathSet(own)

Alone(j) ==
    LET q == job[j] IN
    /\ Runs = {j}
    /\ q.stage \in Busy => Dumps(j)
    /\ q.stage \in {"dump", "dumping"} => UnderWay(j)
    /\ q.stage \in {"read", "reading"} => manifest = q.items /\ q.todo = {}
    /\ q.stage = "reading" => Seen(j)
    /\ q.stage \in Stored /\ ~q.lost => Newest(j)
    /\ q.stage = "success" /\ ~q.lost => Other(q.named, q.own)

Run(j) ==
    LET q == job[j] IN q.kind = "backup" =>
    /\ q.todo \subseteq q.items
    /\ q.stage \in {"queued", "clean"} => q.todo = q.items \cap Dbs /\ \A i \in Items : q.seen[i] = Absent
    /\ q.stage \in Busy => q.items # {}
    /\ q.stage # "success" => q.named = 0
    /\ ~q.met => Alone(j)

\* A restore loads a whole item, or one that counts as spoilt.
Load(j) ==
    LET q == job[j] IN q.kind = "restore" =>
    /\ q.stage \in {"load", "loading"} => q.got # Absent
    /\ q.stage = "load" => q.mixed \/ q.item \in spoilt \/ q.got = Whole
    /\ q.stage = "loading" => q.item \in spoilt \/ (q.got = Whole /\ ~q.met)

\* No run reads an item while it is being loaded, unless it counts as spoilt.
Unread == \A i \in Items \ spoilt : Reading(i) = {} \/ Loading(i) = {}

IInv ==
    /\ TypeOK
    /\ Counted
    /\ \A j \in Jobs : Run(j) /\ Load(j)
    /\ LiveIsWhole
    /\ Unread
    /\ SnapshotsHoldManifest
    /\ ExportsCleanUp
-----------------------------------------------------------------------------
LEMMA Distinct ==
    /\ Whole # Torn /\ Whole # Partial /\ Whole # Absent
    /\ Torn # Partial /\ Torn # Absent /\ Partial # Absent
  BY ConstantsAssumption

LEMMA SitesAndDbs == Sites \cap Dbs = {} /\ Items = Sites \cup Dbs
  BY ConstantsAssumption DEF Items

\* What the kind of a job says of its record.
LEMMA Kinds ==
    ASSUME TypeOK, NEW j \in Jobs
    PROVE  /\ job[j].kind = "backup" => job[j] \in Backup
           /\ job[j].kind = "restore" => job[j] \in Restore
           /\ job[j].kind = "delete" => job[j] \in Delete
           /\ job[j].kind = "export" => job[j] \in Export
           /\ job[j].stage = "idle" => job[j] = Idle
           /\ job[j].kind \in {"none", "backup", "restore", "delete", "export"}
<1>1. job[j] \in {Idle} \cup Backup \cup Restore \cup Delete \cup Export
  BY DEF TypeOK
<1>2. CASE job[j] = Idle
  BY <1>2 DEF Idle
<1>3. CASE job[j] \in Backup
  BY <1>3 DEF Backup
<1>4. CASE job[j] \in Restore
  BY <1>4 DEF Restore
<1>5. CASE job[j] \in Delete
  BY <1>5 DEF Delete
<1>6. CASE job[j] \in Export
  BY <1>6 DEF Export
<1>7. QED
  BY <1>1, <1>2, <1>3, <1>4, <1>5, <1>6

LEMMA InitIInv == Init => IInv
<1> SUFFICES ASSUME Init PROVE IInv
  OBVIOUS
<1>1. TypeOK
  <2>1. snap \in [Ids -> Snapshot]
    BY DEF Init, Gone, Snapshot, File
  <2>2. live \in [Items -> Live] /\ dumps \in [Dbs -> File]
    BY DEF Init, Live, File
  <2>3. QED
    BY <2>1, <2>2 DEF Init, TypeOK
<1>2. \A j \in Jobs : job[j].kind = "none" /\ job[j].stage = "idle"
  BY DEF Init, Idle
<1>3. Runs = {} /\ \A i \in Items : Loading(i) = {} /\ Reading(i) = {}
  BY <1>2 DEF Runs, Loading, Reading, At
<1>4. Counted
  <2>1. Pending = {}
    BY <1>3 DEF Pending
  <2>2. QED
    BY <2>1, FS_EmptySet, ConstantsAssumption DEF Counted, Init
<1>5. \A j \in Jobs : Run(j) /\ Load(j)
  BY <1>2 DEF Run, Load, At
<1>6. LiveIsWhole /\ Unread
  BY <1>3 DEF LiveIsWhole, Unread, Init
<1>7. SnapshotsHoldManifest
  BY DEF SnapshotsHoldManifest, repo, Init
<1>8. ExportsCleanUp
  BY DEF ExportsCleanUp, Init
<1>9. QED
  BY <1>1, <1>4, <1>5, <1>6, <1>7, <1>8 DEF IInv
-----------------------------------------------------------------------------
(***************************************************************************)
(* Counting the snapshots to come.                                         *)
(***************************************************************************)
LEMMA PendingFinite == IsFiniteSet(Pending) /\ IsFiniteSet(Runs)
                       /\ Cardinality(Pending) \in Nat /\ Cardinality(Runs) \in Nat
<1>1. Pending \subseteq Jobs /\ Runs \subseteq Jobs
  BY DEF Pending, Runs
<1>2. QED
  BY <1>1, ConstantsAssumption, FS_Subset, FS_CardinalityType

LEMMA CountedKept ==
    ASSUME TypeOK, Counted, UNCHANGED stored, Pending' \subseteq Pending
    PROVE  Counted'
<1>1. Cardinality(Pending') \in Nat /\ Cardinality(Pending') <= Cardinality(Pending)
  BY PendingFinite, FS_Subset, FS_CardinalityType
<1>2. QED
  BY <1>1, PendingFinite, ConstantsAssumption DEF Counted, TypeOK, Ids

LEMMA StoredIsNat == ASSUME TypeOK PROVE stored \in Nat /\ MaxSnapshots \in Nat
  BY ConstantsAssumption DEF TypeOK, Ids
-----------------------------------------------------------------------------
(***************************************************************************)
(* Types.                                                                  *)
(***************************************************************************)
Records == {Idle} \cup Backup \cup Restore \cup Delete \cup Export

LEMMA JobTyped ==
    ASSUME TypeOK, NEW j \in Jobs, NEW r \in Records, Becomes(j, r)
    PROVE  job' \in [Jobs -> Records] /\ job'[j] = r /\ \A k \in Jobs \ {j} : job'[k] = job[k]
  BY DEF TypeOK, Becomes, Records

LEMMA StageTyped ==
    ASSUME TypeOK, NEW j \in Jobs, NEW s, ToStage(j, s), [job[j] EXCEPT !.stage = s] \in Records
    PROVE  /\ job' \in [Jobs -> Records]
           /\ job'[j] = [job[j] EXCEPT !.stage = s]
           /\ \A k \in Jobs \ {j} : job'[k] = job[k]
<1> DEFINE r == [job[j] EXCEPT !.stage = s]
<1>1. job' = [job EXCEPT ![j] = r]
  BY DEF ToStage
<1>2. job \in [Jobs -> Records]
  BY DEF TypeOK, Records
<1> HIDE DEF r
<1>3. job' \in [Jobs -> Records] /\ job'[j] = r /\ \A k \in Jobs \ {j} : job'[k] = job[k]
  BY <1>1, <1>2 DEF r
<1>4. QED
  BY <1>3 DEF r

LEMMA FileTyped ==
    /\ Whole \in File /\ Torn \in File /\ Partial \in File /\ Absent \in File
    /\ Whole \in Live /\ Torn \in Live /\ Live \subseteq File
    /\ \A f \in File : f \notin {Partial, Absent} => f \in Live
  BY DEF File, Live

LEMMA GoneTyped == Gone \in Snapshot
  BY FileTyped DEF Gone, Snapshot
-----------------------------------------------------------------------------
(***************************************************************************)
(* A step of one job leaves the others as they are.                        *)
(***************************************************************************)
\* The job that moves is no run, and leaves the dumps and the snapshots alone; or it is a
\* run, and then any other has met it.
Aside(j) ==
    \/ job[j].kind = "backup"
    \/ job'[j].kind # "backup" /\ UNCHANGED <<dumps, manifest, stored, snap>>

LEMMA OthersKept ==
    ASSUME IInv, TypeOK', NEW j \in Jobs, \A k \in Jobs \ {j} : job'[k] = job[k],
           spoilt \subseteq spoilt', Aside(j), NEW k \in Jobs \ {j}
    PROVE  (Run(k) /\ Load(k))'
<1>1. Run(k) /\ Load(k) /\ job'[k] = job[k]
  BY DEF IInv
<1>2. Load(k)'
  BY <1>1 DEF Load, At
<1>3. CASE job[k].kind # "backup"
  BY <1>1, <1>2, <1>3 DEF Run
<1>4. CASE job[k].kind = "backup" /\ job[j].kind = "backup"
  <2>1. Runs # {k}
    BY <1>4 DEF Runs
  <2>2. job[k].met
    BY <1>1, <1>4, <2>1 DEF Run, Alone
  <2>3. Run(k)'
    BY <1>1, <2>2 DEF Run
  <2>4. QED
    BY <1>2, <2>3
<1>5. CASE job[k].kind = "backup" /\ job[j].kind # "backup"
  <2>1. job'[j].kind # "backup" /\ UNCHANGED <<dumps, manifest, stored, snap>>
    BY <1>5 DEF Aside
  <2>2. Runs' = Runs
    BY <2>1, <1>5 DEF Runs
  <2>3. repo' = repo
    BY <2>1 DEF repo
  <2>4. ~job[k].met => Alone(k)'
    <3> SUFFICES ASSUME ~job[k].met PROVE Alone(k)'
      OBVIOUS
    <3>1. Alone(k)
      BY <1>1, <1>5 DEF Run
    <3>2. Dumps(k) => Dumps(k)'
      BY <1>1, <2>1 DEF Dumps
    <3>3. UnderWay(k) => UnderWay(k)'
      BY <1>1, <2>1 DEF UnderWay
    <3>4. Seen(k) => Seen(k)'
      BY <1>1 DEF Seen
    <3>5. Newest(k) => Newest(k)'
      BY <1>1, <2>1, <2>3 DEF Newest
    <3>6. \A n, m : Other(n, m) => Other(n, m)'
      BY <2>1, <2>3 DEF Other, PathSet
    <3>7. QED
      BY <1>1, <2>1, <2>2, <3>1, <3>2, <3>3, <3>4, <3>5, <3>6 DEF Alone
  <2>5. Run(k)'
    BY <1>1, <2>4 DEF Run
  <2>6. QED
    BY <1>2, <2>5
<1>6. QED
  BY <1>3, <1>4, <1>5

LEMMA JobsKept ==
    ASSUME IInv, TypeOK', NEW j \in Jobs, \A k \in Jobs \ {j} : job'[k] = job[k],
           spoilt \subseteq spoilt', Aside(j), (Run(j) /\ Load(j))'
    PROVE  \A k \in Jobs : (Run(k) /\ Load(k))'
<1> TAKE k \in Jobs
<1>1. CASE k = j
  BY <1>1
<1>2. CASE k # j
  BY <1>2, OthersKept
<1>3. QED
  BY <1>1, <1>2

\* The id that is left for the run that moves stays left.
LEMMA PendingKept ==
    ASSUME IInv, NEW j \in Jobs, \A k \in Jobs \ {j} : job'[k] = job[k],
           (j \in Pending)' => j \in Pending, UNCHANGED stored
    PROVE  Counted'
<1>1. Pending' \subseteq Pending
  BY DEF Pending, Runs
<1>2. QED
  BY <1>1, CountedKept DEF IInv

\* No item is read or loaded that was not.
LEMMA ItemsKept ==
    ASSUME IInv, NEW j \in Jobs, \A k \in Jobs \ {j} : job'[k] = job[k],
           spoilt \subseteq spoilt', UNCHANGED live,
           \A i \in Items : (j \in Reading(i))' => j \in Reading(i) \/ i \in spoilt' \/ Loading(i) = {},
           \A i \in Items : (j \in Loading(i))' => j \in Loading(i),
           \A i \in Items : j \in Loading(i) => (j \in Loading(i))' \/ i \in spoilt'
    PROVE  (LiveIsWhole /\ Unread)'
<1>1. \A i \in Items : Loading(i)' \subseteq Loading(i)
  BY DEF Loading, At
<1>2. \A i \in Items \ spoilt' : Loading(i) \subseteq Loading(i)'
  BY DEF Loading, At
<1>3. \A i \in Items \ spoilt' : Reading(i)' \subseteq Reading(i) \/ Loading(i) = {}
  BY DEF Reading, Runs
<1>4. QED
  BY <1>1, <1>2, <1>3 DEF IInv, LiveIsWhole, Unread

LEMMA SnapshotsKept ==
    ASSUME IInv, spoilt \subseteq spoilt', UNCHANGED restic
    PROVE  SnapshotsHoldManifest'
<1>1. repo' = repo /\ UNCHANGED snap
  BY DEF repo, restic
<1>2. QED
  BY <1>1 DEF IInv, SnapshotsHoldManifest

LEMMA ExportsKept ==
    ASSUME IInv, NEW j \in Jobs, \A k \in Jobs \ {j} : job'[k] = job[k], UNCHANGED exports,
           job[j].kind = "export" => job'[j].kind = "export" /\ (job'[j].stage = "served" => job[j].stage = "served")
    PROVE  ExportsCleanUp'
<1>1. exportSlot' = exportSlot /\ workdirs' = workdirs /\ workdirs \subseteq Jobs
  BY DEF exports, IInv, TypeOK
<1>2. \A k \in Jobs : job[k].kind = "export" =>
        job'[k].kind = "export" /\ (job'[k].stage = "served" => job[k].stage = "served")
  OBVIOUS
<1>3. QED
  BY <1>1, <1>2 DEF IInv, ExportsCleanUp

\* The three together, for a step that leaves the live data, the snapshots and the slot alone.
LEMMA Kept ==
    ASSUME IInv, NEW j \in Jobs, NEW r \in Records,
           job' \in [Jobs -> Records], job'[j] = r, \A k \in Jobs \ {j} : job'[k] = job[k],
           UNCHANGED <<live, restic, exports>>,
           dumps' \in [Dbs -> File], manifest' \subseteq Items, spoilt' \subseteq Items,
           spoilt \subseteq spoilt', Aside(j), (Run(j) /\ Load(j))',
           (j \in Pending)' => j \in Pending,
           \A i \in Items : (j \in Reading(i))' => j \in Reading(i) \/ i \in spoilt' \/ Loading(i) = {},
           \A i \in Items : (j \in Loading(i))' => j \in Loading(i),
           \A i \in Items : j \in Loading(i) => (j \in Loading(i))' \/ i \in spoilt',
           job[j].kind = "export" => r.kind = "export" /\ (r.stage = "served" => job[j].stage = "served")
    PROVE  IInv'
<1>1. TypeOK'
  BY DEF IInv, TypeOK, Records, restic, exports
<1>2. (\A k \in Jobs : Run(k) /\ Load(k))'
  BY <1>1, JobsKept
<1>3. Counted'
  BY PendingKept DEF restic
<1>4. (LiveIsWhole /\ Unread)'
  BY ItemsKept
<1>5. SnapshotsHoldManifest'
  BY SnapshotsKept
<1>6. ExportsCleanUp'
  BY ExportsKept
<1>7. QED
  BY <1>1, <1>2, <1>3, <1>4, <1>5, <1>6 DEF IInv

LEMMA IdleTyped == Idle \in Records /\ Idle.kind = "none" /\ Idle.stage = "idle"
  BY DEF Idle, Records

\* A job that loads nothing ends, and leaves everything as it is.
LEMMA Ended ==
    ASSUME IInv, NEW j \in Jobs, Becomes(j, Idle), job[j].kind # "export",
           \A i \in Items : j \in Loading(i) => i \in spoilt',
           dumps' \in [Dbs -> File], job[j].kind = "backup" \/ UNCHANGED dumps,
           UNCHANGED <<live, manifest, restic, exports>>, spoilt \subseteq spoilt', spoilt' \subseteq Items
    PROVE  IInv'
<1> USE IdleTyped
<1>1. TypeOK /\ manifest \subseteq Items
  BY DEF IInv, TypeOK
<1>2. job' \in [Jobs -> Records] /\ job'[j] = Idle /\ \A k \in Jobs \ {j} : job'[k] = job[k]
  BY <1>1, JobTyped
<1>3. (Run(j) /\ Load(j))'
  BY <1>2 DEF Run, Load, At
<1>4. Aside(j)
  BY <1>2 DEF Aside, restic
<1>5. (\A i \in Items : (j \notin Reading(i) /\ j \notin Loading(i))') /\ (j \notin Pending)'
  BY <1>2 DEF Reading, Loading, Pending, Runs, At
<1>6. /\ \A i \in Items : (j \in Reading(i))' => j \in Reading(i) \/ i \in spoilt' \/ Loading(i) = {}
      /\ \A i \in Items : (j \in Loading(i))' => j \in Loading(i)
      /\ \A i \in Items : j \in Loading(i) => (j \in Loading(i))' \/ i \in spoilt'
      /\ (j \in Pending)' => j \in Pending
  BY <1>5
<1>7. UNCHANGED <<live, restic, exports>> /\ manifest' \subseteq Items
  BY <1>1
<1> DEFINE r == Idle
<1>8. r \in Records /\ job'[j] = r
  BY <1>2
<1> HIDE DEF r
<1>9. QED
  BY <1>2, <1>3, <1>4, <1>6, <1>7, <1>8, Kept

LEMMA FinishKeeps ==
    ASSUME IInv, NEW j \in Jobs, Finish(j)
    PROVE  IInv'
<1>1. dumps \in [Dbs -> File] /\ spoilt \subseteq Items
  BY DEF IInv, TypeOK
<1>2. \A i \in Items : j \notin Loading(i)
  BY DEF Finish, At, Loading
<1>3. QED
  BY <1>1, <1>2, Ended DEF Finish, At, files

LEMMA CommandFailsKeeps ==
    ASSUME IInv, NEW j \in Jobs, CommandFails(j)
    PROVE  IInv'
<1>1. dumps \in [Dbs -> File] /\ spoilt \subseteq Items
  BY DEF IInv, TypeOK
<1>2. (\A i \in Items : j \notin Loading(i)) /\ job[j].kind # "export"
  BY DEF CommandFails, At, Loading, Working
<1>3. QED
  BY <1>1, <1>2, Ended DEF CommandFails, files

LEMMA LoadFailsKeeps ==
    ASSUME IInv, NEW j \in Jobs, LoadFails(j)
    PROVE  IInv'
<1>1. TypeOK /\ dumps \in [Dbs -> File] /\ spoilt \subseteq Items
  BY DEF IInv, TypeOK
<1>2. job[j].kind = "restore" /\ job[j].item \in Items
  BY <1>1, Kinds DEF LoadFails, At, Restore
<1>3. job[j].item \in spoilt' /\ spoilt \subseteq spoilt' /\ spoilt' \subseteq Items
  <2>1. CASE job[j].got = Partial /\ UNCHANGED spoilt
    <3>1. Load(j) /\ job[j].stage = "loading"
      BY DEF IInv, LoadFails, At
    <3>2. QED
      BY <1>1, <1>2, <2>1, <3>1, Distinct DEF Load
  <2>2. CASE spoilt' = spoilt \cup {job[j].item}
    BY <1>1, <1>2, <2>2
  <2>3. QED
    BY <2>1, <2>2 DEF LoadFails
<1>4. \A i \in Items : j \in Loading(i) => i \in spoilt'
  BY <1>3 DEF Loading
<1>5. QED
  BY <1>1, <1>2, <1>3, <1>4, Ended DEF LoadFails, files

-----------------------------------------------------------------------------
(***************************************************************************)
(* Jobs begin.                                                             *)
(***************************************************************************)
\* A job that is no run and no export begins, with nothing fetched.
LEMMA Begun ==
    ASSUME IInv, NEW j \in Jobs, NEW r \in Restore \cup Delete, Becomes(j, r), r.stage = "queued",
           job[j] = Idle, UNCHANGED <<files, restic, exports, spoilt>>
    PROVE  IInv'
<1> USE IdleTyped
<1>1. TypeOK /\ manifest \subseteq Items /\ spoilt \subseteq Items /\ dumps \in [Dbs -> File]
  BY DEF IInv, TypeOK
<1>2. r \in Records /\ r.kind \in {"restore", "delete"}
  BY DEF Records, Restore, Delete
<1>3. job' \in [Jobs -> Records] /\ job'[j] = r /\ \A k \in Jobs \ {j} : job'[k] = job[k]
  BY <1>1, <1>2, JobTyped
<1>4. (Run(j) /\ Load(j))'
  BY <1>2, <1>3 DEF Run, Load, At
<1>5. Aside(j)
  BY <1>2, <1>3 DEF Aside, restic, files
<1>6. /\ \A i \in Items : (j \notin Reading(i) /\ j \notin Loading(i))' /\ j \notin Loading(i)
      /\ (j \notin Pending)'
  BY <1>2, <1>3 DEF Reading, Loading, Pending, Runs, At
<1>7. UNCHANGED <<live, dumps, manifest>>
  BY DEF files
<1>8. QED
  BY <1>1, <1>2, <1>3, <1>4, <1>5, <1>6, <1>7, Kept

LEMMA TriggerRestoreKeeps ==
    ASSUME IInv, NEW j \in Jobs, NEW i \in Restored, NEW id \in Ids, TriggerRestore(j, i, id)
    PROVE  IInv'
<1> DEFINE r == [kind |-> "restore", stage |-> "queued", item |-> i, id |-> id,
                 got |-> Absent, met |-> FALSE, mixed |-> FALSE]
<1>1. r \in Restore /\ r.stage = "queued"
  BY FileTyped, ConstantsAssumption DEF Restore
<1>2. Becomes(j, r) /\ job[j] = Idle /\ UNCHANGED <<files, restic, exports, spoilt>>
  BY DEF TriggerRestore
<1> HIDE DEF r
<1>3. QED
  BY <1>1, <1>2, Begun

LEMMA TriggerDeleteKeeps ==
    ASSUME IInv, NEW j \in Jobs, NEW id \in Ids, TriggerDelete(j, id)
    PROVE  IInv'
<1> DEFINE r == [kind |-> "delete", stage |-> "queued", id |-> id]
<1>1. r \in Delete /\ r.stage = "queued"
  BY DEF Delete
<1>2. Becomes(j, r) /\ job[j] = Idle /\ UNCHANGED <<files, restic, exports, spoilt>>
  BY DEF TriggerDelete
<1> HIDE DEF r
<1>3. QED
  BY <1>1, <1>2, Begun

-----------------------------------------------------------------------------
(***************************************************************************)
(* A run moves on.                                                         *)
(***************************************************************************)
LEMMA RunMoves ==
    ASSUME IInv, NEW j \in Jobs, job[j].kind = "backup", NEW r \in Backup, Becomes(j, r),
           r.items = job[j].items, job[j].stage \notin {"queued", "success"},
           job[j].stage \in Stored => r.stage \in Stored,
           UNCHANGED <<live, restic, exports, spoilt>>,
           dumps' \in [Dbs -> File], manifest' \subseteq Items, Run(j)'
    PROVE  IInv'
<1>1. TypeOK /\ spoilt \subseteq Items
  BY DEF IInv, TypeOK
<1>2. r \in Records /\ r.kind = "backup"
  BY DEF Records, Backup
<1>3. job' \in [Jobs -> Records] /\ job'[j] = r /\ \A k \in Jobs \ {j} : job'[k] = job[k]
  BY <1>1, <1>2, JobTyped
<1>4. (Run(j) /\ Load(j))'
  BY <1>2, <1>3 DEF Load, At
<1>5. Aside(j)
  BY DEF Aside
<1>6. \A i \in Items : j \notin Loading(i) /\ (j \notin Loading(i))'
  BY <1>2, <1>3 DEF Loading, At
<1>7. \A i \in Items : (j \in Reading(i))' => j \in Reading(i)
  BY <1>3 DEF Reading, Runs
<1>8. (j \in Pending)' => j \in Pending
  BY <1>3 DEF Pending, Runs, Stored
<1>9. spoilt \subseteq spoilt' /\ spoilt' \subseteq Items /\ UNCHANGED <<live, restic, exports>>
  BY <1>1
<1>10. /\ \A i \in Items : (j \in Reading(i))' => j \in Reading(i) \/ i \in spoilt' \/ Loading(i) = {}
       /\ \A i \in Items : (j \in Loading(i))' => j \in Loading(i)
       /\ \A i \in Items : j \in Loading(i) => (j \in Loading(i))' \/ i \in spoilt'
  BY <1>6, <1>7
<1>11. QED
  BY <1>2, <1>3, <1>4, <1>5, <1>8, <1>9, <1>10, Kept

\* What a run knows of itself, and that it is still alone if no other has met it.
LEMMA RunKnown ==
    ASSUME IInv, NEW j \in Jobs, job[j].kind = "backup"
    PROVE  TypeOK /\ job[j] \in Backup /\ Run(j) /\ (~job[j].met => Alone(j))
  BY Kinds DEF IInv, Run

\* A run that changes no field but its stage and others named has the same company.
LEMMA RunsKept ==
    ASSUME NEW j \in Jobs, job[j].kind = "backup", job'[j].kind = "backup",
           \A k \in Jobs \ {j} : job'[k] = job[k]
    PROVE  Runs' = Runs
  BY DEF Runs

LEMMA CleanDumpsKeeps ==
    ASSUME IInv, NEW j \in Jobs, CleanDumps(j)
    PROVE  IInv'
<1>1. job[j].kind = "backup" /\ job[j].stage = "clean"
  BY DEF CleanDumps, At
<1>2. TypeOK /\ job[j] \in Backup /\ Run(j) /\ (~job[j].met => Alone(j))
  BY <1>1, RunKnown
<1>3. UNCHANGED <<live, manifest, restic, exports, spoilt>> /\ dumps' = [d \in Dbs |-> Absent]
  BY DEF CleanDumps
<1>4. dumps' \in [Dbs -> File] /\ manifest' \subseteq Items /\ spoilt \subseteq Items
  BY <1>2, <1>3, FileTyped DEF TypeOK
<1>5. CASE job[j].items = {}
  <2>1. Becomes(j, Idle)
    BY <1>5 DEF CleanDumps
  <2>2. \A i \in Items : j \notin Loading(i)
    BY <1>1 DEF Loading, At
  <2>3. QED
    BY <1>1, <1>3, <1>4, <2>1, <2>2, Ended
<1>6. CASE job[j].items # {}
  <2> DEFINE r == [job[j] EXCEPT !.stage = "dump"]
  <2>1. ToStage(j, "dump") /\ Becomes(j, r)
    BY <1>6 DEF CleanDumps, ToStage, Becomes
  <2>2. r \in Backup /\ r.stage = "dump" /\ r.items = job[j].items /\ r.todo = job[j].todo
        /\ r.seen = job[j].seen /\ r.met = job[j].met /\ r.named = job[j].named /\ r.kind = "backup"
    BY <1>2 DEF Backup
  <2> HIDE DEF r
  <2>3. r \in Records
    BY <2>2 DEF Records
  <2>4. job'[j] = r /\ \A k \in Jobs \ {j} : job'[k] = job[k]
    BY <1>2, <2>1, <2>3, JobTyped
  <2>5. Runs' = Runs
    BY <1>1, <2>2, <2>4, RunsKept
  <2>6. r.todo = r.items \cap Dbs /\ (\A i \in Items : r.seen[i] = Absent) /\ r.named = 0
    BY <1>1, <1>2, <2>2 DEF Run
  <2>7. Dumps(j)'
    BY <1>3, <2>4, <2>6 DEF Dumps
  <2>8. UnderWay(j)'
    BY <2>4, <2>6, SitesAndDbs DEF UnderWay
  <2>9. ~r.met => Alone(j)'
    BY <1>2, <2>2, <2>4, <2>5, <2>7, <2>8 DEF Alone, Busy, Stored
  <2>10. Run(j)'
    BY <1>6, <2>2, <2>4, <2>6, <2>9 DEF Run, Busy
  <2>11. QED
    BY <1>1, <1>3, <1>4, <2>1, <2>2, <2>10, RunMoves DEF Stored
<1>7. QED
  BY <1>5, <1>6

LEMMA BeginDumpKeeps ==
    ASSUME IInv, NEW j \in Jobs, NEW d \in Dbs, BeginDump(j, d)
    PROVE  IInv'
<1>1. job[j].kind = "backup" /\ job[j].stage = "dump" /\ d \in job[j].todo
  BY DEF BeginDump, At
<1>2. TypeOK /\ job[j] \in Backup /\ Run(j) /\ (~job[j].met => Alone(j))
  BY <1>1, RunKnown
<1>3. UNCHANGED <<live, manifest, restic, exports, spoilt>> /\ dumps' = [dumps EXCEPT ![d] = Partial]
  BY DEF BeginDump
<1>4. dumps' \in [Dbs -> File] /\ manifest' \subseteq Items
  BY <1>2, <1>3, FileTyped DEF TypeOK
<1>5. dumps'[d] = Partial /\ \A e \in Dbs \ {d} : dumps'[e] = dumps[e]
  BY <1>2, <1>3 DEF TypeOK
<1> DEFINE seen == [job[j].seen EXCEPT ![d] = live[d]]
           r == [job[j] EXCEPT !.stage = "dumping", !.seen = [job[j].seen EXCEPT ![d] = live[d]]]
<1>6. seen \in [Items -> File] /\ seen[d] = live[d] /\ \A i \in Items \ {d} : seen[i] = job[j].seen[i]
  BY <1>2, FileTyped, SitesAndDbs DEF Backup, TypeOK
<1>7. r \in Backup /\ r.stage = "dumping" /\ r.items = job[j].items /\ r.todo = job[j].todo
      /\ r.seen = seen /\ r.met = job[j].met /\ r.named = job[j].named /\ r.kind = "backup"
  BY <1>2, <1>6 DEF Backup
<1>8. Becomes(j, r)
  BY DEF BeginDump
<1> HIDE DEF seen, r
<1>9. r \in Records
  BY <1>7 DEF Records
<1>10. job'[j] = r /\ \A k \in Jobs \ {j} : job'[k] = job[k]
  BY <1>2, <1>8, <1>9, JobTyped
<1>11. Runs' = Runs
  BY <1>1, <1>7, <1>10, RunsKept
<1>12. j \in Reading(d) \/ d \notin job[j].items
  BY <1>1 DEF Reading, Runs
<1>13. d \in spoilt \/ live[d] = Whole
  BY <1>1, <1>2, <1>12, SitesAndDbs DEF IInv, LiveIsWhole, Unread, Run
<1>14. ~r.met => Alone(j)'
  <2> SUFFICES ASSUME ~r.met PROVE Alone(j)'
    OBVIOUS
  <2>1. Alone(j) /\ Dumps(j) /\ UnderWay(j)
    BY <1>1, <1>2, <1>7 DEF Alone, Busy
  <2>2. d \in job[j].items
    BY <1>1, <1>2 DEF Run
  <2>3. Dumps(j)'
    BY <1>1, <1>3, <1>5, <1>7, <1>10, <2>1, <2>2 DEF Dumps
  <2>4. UnderWay(j)'
    BY <1>2, <1>3, <1>5, <1>6, <1>7, <1>10, <1>13, <2>1, SitesAndDbs DEF UnderWay, Backup
  <2>5. QED
    BY <1>7, <1>10, <1>11, <2>1, <2>3, <2>4 DEF Alone, Stored
<1>15. Run(j)'
  BY <1>1, <1>2, <1>7, <1>10, <1>14 DEF Run, Busy
<1>16. QED
  BY <1>1, <1>3, <1>4, <1>7, <1>8, <1>15, RunMoves DEF Stored

LEMMA EndDumpKeeps ==
    ASSUME IInv, NEW j \in Jobs, EndDump(j)
    PROVE  IInv'
<1>1. job[j].kind = "backup" /\ job[j].stage = "dumping"
  BY DEF EndDump, At
<1>2. TypeOK /\ job[j] \in Backup /\ Run(j) /\ (~job[j].met => Alone(j))
  BY <1>1, RunKnown
<1>3. PICK d \in Dumped(j) :
        /\ dumps' = [dumps EXCEPT ![d] =
             IF dumps[d] # Partial \/ \E k \in Jobs \ {j} : At(k, "backup", "dumping") THEN Partial
             ELSE IF live[d] = Torn THEN Torn ELSE job[j].seen[d]]
        /\ Becomes(j, [job[j] EXCEPT !.stage = "dump", !.todo = @ \ {d},
                                     !.seen = [job[j].seen EXCEPT ![d] = Absent]])
  BY DEF EndDump
<1>4. d \in job[j].todo /\ job[j].seen[d] # Absent /\ d \in Dbs /\ d \in Items
  BY <1>2, SitesAndDbs DEF Dumped, Backup
<1>5. UNCHANGED <<live, manifest, restic, exports, spoilt>>
  BY DEF EndDump
<1> DEFINE file == IF dumps[d] # Partial \/ \E k \in Jobs \ {j} : At(k, "backup", "dumping") THEN Partial
                   ELSE IF live[d] = Torn THEN Torn ELSE job[j].seen[d]
           seen == [job[j].seen EXCEPT ![d] = Absent]
           r == [job[j] EXCEPT !.stage = "dump", !.todo = job[j].todo \ {d}, !.seen = seen]
<1>6. file \in File
  BY <1>2, <1>4, FileTyped DEF Backup
<1>7. job[j].seen[d] = Whole /\ live[d] # Torn /\ dumps[d] = Partial
        /\ ~(\E k \in Jobs \ {j} : At(k, "backup", "dumping")) => file = Whole
  OBVIOUS
<1>8. ~(\E k \in Jobs \ {j} : At(k, "backup", "dumping")) /\ dumps[d] = Partial => file # Absent
  BY <1>4, Distinct
<1>9. dumps' = [dumps EXCEPT ![d] = file]
  BY <1>3
<1> HIDE DEF file
<1>10. dumps' \in [Dbs -> File] /\ manifest' \subseteq Items
  BY <1>2, <1>5, <1>6, <1>9 DEF TypeOK
<1>11. dumps'[d] = file /\ \A e \in Dbs \ {d} : dumps'[e] = dumps[e]
  BY <1>2, <1>4, <1>9 DEF TypeOK
<1>12. seen \in [Items -> File] /\ seen[d] = Absent /\ \A i \in Items \ {d} : seen[i] = job[j].seen[i]
  BY <1>2, <1>4, FileTyped DEF Backup
<1>13. Becomes(j, r)
  BY <1>3
<1> HIDE DEF seen
<1>14. r \in Backup /\ r.stage = "dump" /\ r.items = job[j].items /\ r.todo = job[j].todo \ {d}
       /\ r.seen = seen /\ r.met = job[j].met /\ r.named = job[j].named /\ r.kind = "backup"
  BY <1>2, <1>12 DEF Backup
<1> HIDE DEF r
<1>15. r \in Records
  BY <1>14 DEF Records
<1>16. job'[j] = r /\ \A k \in Jobs \ {j} : job'[k] = job[k]
  BY <1>2, <1>13, <1>15, JobTyped
<1>17. Runs' = Runs
  BY <1>1, <1>14, <1>16, RunsKept
<1>18. d \in job[j].items
  BY <1>1, <1>2, <1>4 DEF Run
<1>19. d \in spoilt \/ live[d] = Whole
  <2>1. j \in Reading(d)
    BY <1>1, <1>18 DEF Reading, Runs
  <2>2. QED
    BY <1>4, <2>1 DEF IInv, LiveIsWhole, Unread
<1>20. ~r.met => Alone(j)'
  <2> SUFFICES ASSUME ~r.met PROVE Alone(j)'
    OBVIOUS
  <2>1. Alone(j) /\ Dumps(j) /\ UnderWay(j) /\ Runs = {j}
    BY <1>1, <1>2, <1>14 DEF Alone, Busy
  <2>2. ~(\E k \in Jobs \ {j} : At(k, "backup", "dumping"))
    BY <2>1 DEF Runs, At
  <2>3. dumps[d] = Partial /\ (d \in spoilt \/ job[j].seen[d] = Whole)
    BY <1>4, <2>1 DEF UnderWay
  <2>4. file # Absent /\ (d \in spoilt \/ file = Whole)
    BY <1>7, <1>8, <1>19, <2>2, <2>3, Distinct
  <2>5. Dumps(j)'
    BY <1>4, <1>5, <1>11, <1>14, <1>16, <1>18, <2>1, <2>4 DEF Dumps
  <2>6. UnderWay(j)'
    BY <1>2, <1>4, <1>5, <1>11, <1>12, <1>14, <1>16, <2>1, SitesAndDbs DEF UnderWay, Backup
  <2>7. QED
    BY <1>14, <1>16, <1>17, <2>1, <2>5, <2>6 DEF Alone, Stored
<1>21. Run(j)'
  BY <1>1, <1>2, <1>14, <1>16, <1>20 DEF Run, Busy
<1>22. QED
  BY <1>1, <1>5, <1>10, <1>13, <1>14, <1>21, RunMoves DEF Stored

LEMMA WriteManifestKeeps ==
    ASSUME IInv, NEW j \in Jobs, WriteManifest(j)
    PROVE  IInv'
<1>1. job[j].kind = "backup" /\ job[j].stage = "dump" /\ job[j].todo = {}
  BY DEF WriteManifest, At
<1>2. TypeOK /\ job[j] \in Backup /\ Run(j) /\ (~job[j].met => Alone(j))
  BY <1>1, RunKnown
<1>3. UNCHANGED <<live, dumps, restic, exports, spoilt>> /\ manifest' = job[j].items
  BY DEF WriteManifest
<1>4. dumps' \in [Dbs -> File] /\ manifest' \subseteq Items
  BY <1>2, <1>3 DEF TypeOK, Backup
<1> DEFINE r == [job[j] EXCEPT !.stage = "read"]
<1>5. r \in Backup /\ r.stage = "read" /\ r.items = job[j].items /\ r.todo = {}
      /\ r.seen = job[j].seen /\ r.met = job[j].met /\ r.named = job[j].named /\ r.kind = "backup"
  BY <1>1, <1>2 DEF Backup
<1>6. Becomes(j, r)
  BY DEF WriteManifest, ToStage, Becomes
<1> HIDE DEF r
<1>7. r \in Records
  BY <1>5 DEF Records
<1>8. job'[j] = r /\ \A k \in Jobs \ {j} : job'[k] = job[k]
  BY <1>2, <1>6, <1>7, JobTyped
<1>9. Runs' = Runs
  BY <1>1, <1>5, <1>8, RunsKept
<1>10. ~r.met => Alone(j)'
  <2> SUFFICES ASSUME ~r.met PROVE Alone(j)'
    OBVIOUS
  <2>1. Alone(j) /\ Dumps(j)
    BY <1>1, <1>2, <1>5 DEF Alone, Busy
  <2>2. Dumps(j)'
    BY <1>1, <1>3, <1>5, <1>8, <2>1 DEF Dumps
  <2>3. QED
    BY <1>3, <1>5, <1>8, <1>9, <2>1, <2>2 DEF Alone, Stored
<1>11. Run(j)'
  BY <1>1, <1>2, <1>5, <1>8, <1>10 DEF Run, Busy
<1>12. QED
  BY <1>1, <1>3, <1>4, <1>5, <1>6, <1>11, RunMoves DEF Stored

\* What restic is given when a run is alone with its dumps: what the run backs up, whole
\* unless spoilt.
LEMMA PathsWhole ==
    ASSUME IInv, NEW j \in Jobs, job[j].kind = "backup", job[j].stage \in {"read", "reading"},
           ~job[j].met, NEW i \in Items
    PROVE  /\ i \notin job[j].items => Paths(j)[i] = Absent
           /\ i \in job[j].items => Paths(j)[i] # Absent /\ (i \in spoilt \/ Paths(j)[i] = Whole)
<1>1. TypeOK /\ job[j] \in Backup /\ Alone(j)
  BY RunKnown
<1>2. Dumps(j) /\ job[j].todo = {}
  BY <1>1 DEF Alone, Busy
<1>3. live[i] \in Live /\ Absent \notin Live
  BY <1>1, Distinct DEF TypeOK, Live
<1>4. i \in job[j].items => i \in spoilt \/ live[i] = Whole
  <2>1. i \in job[j].items => j \in Reading(i)
    BY DEF Reading, Runs
  <2>2. QED
    BY <2>1 DEF IInv, LiveIsWhole, Unread
<1>5. CASE i \in Sites
  BY <1>3, <1>4, <1>5 DEF Paths
<1>6. CASE i \notin Sites
  <2>1. i \in Dbs
    BY <1>6, SitesAndDbs
  <2>2. Paths(j)[i] = IF job[j].items \cap Dbs # {} THEN dumps[i] ELSE Absent
    BY <1>6 DEF Paths
  <2>3. QED
    BY <1>2, <2>1, <2>2 DEF Dumps
<1>7. QED
  BY <1>5, <1>6

LEMMA PathsTyped ==
    ASSUME TypeOK, NEW j \in Jobs
    PROVE  Paths(j) \in [Items -> File]
<1>1. \A i \in Items : i \notin Sites => i \in Dbs
  BY SitesAndDbs
<1>2. QED
  BY <1>1, FileTyped DEF TypeOK, Paths

LEMMA BeginBackupKeeps ==
    ASSUME IInv, NEW j \in Jobs, BeginBackup(j)
    PROVE  IInv'
<1>1. job[j].kind = "backup" /\ job[j].stage = "read"
  BY DEF BeginBackup, At
<1>2. TypeOK /\ job[j] \in Backup /\ Run(j) /\ (~job[j].met => Alone(j))
  BY <1>1, RunKnown
<1>3. UNCHANGED <<live, dumps, manifest, restic, exports, spoilt>>
  BY DEF BeginBackup, files
<1>4. dumps' \in [Dbs -> File] /\ manifest' \subseteq Items
  BY <1>2, <1>3 DEF TypeOK
<1> DEFINE r == [job[j] EXCEPT !.stage = "reading", !.seen = Paths(j)]
<1>5. r \in Backup /\ r.stage = "reading" /\ r.items = job[j].items /\ r.todo = job[j].todo
      /\ r.seen = Paths(j) /\ r.met = job[j].met /\ r.named = job[j].named /\ r.kind = "backup"
  BY <1>1, <1>2, PathsTyped DEF Backup
<1>6. Becomes(j, r)
  BY DEF BeginBackup
<1> HIDE DEF r
<1>7. r \in Records
  BY <1>5 DEF Records
<1>8. job'[j] = r /\ \A k \in Jobs \ {j} : job'[k] = job[k]
  BY <1>2, <1>6, <1>7, JobTyped
<1>9. Runs' = Runs
  BY <1>1, <1>5, <1>8, RunsKept
<1>10. ~r.met => Alone(j)'
  <2> SUFFICES ASSUME ~r.met PROVE Alone(j)'
    OBVIOUS
  <2>1. Alone(j) /\ Dumps(j)
    BY <1>1, <1>2, <1>5 DEF Alone, Busy
  <2>2. Dumps(j)'
    BY <1>3, <1>5, <1>8, <2>1 DEF Dumps
  <2>3. \A i \in Items : (Paths(j)[i] # Absent <=> i \in job[j].items)
                       /\ (i \in job[j].items => i \in spoilt \/ Paths(j)[i] = Whole)
    BY <1>1, <1>5, PathsWhole
  <2>4. Seen(j)'
    BY <1>3, <1>5, <1>8, <2>3 DEF Seen
  <2>5. QED
    BY <1>1, <1>3, <1>5, <1>8, <1>9, <2>1, <2>2, <2>4 DEF Alone, Stored
<1>11. Run(j)'
  BY <1>1, <1>2, <1>5, <1>8, <1>10 DEF Run, Busy
<1>12. QED
  BY <1>1, <1>3, <1>4, <1>5, <1>6, <1>11, RunMoves DEF Stored

LEMMA NameSnapshotKeeps ==
    ASSUME IInv, NEW j \in Jobs, NameSnapshot(j)
    PROVE  IInv'
<1>1. job[j].kind = "backup" /\ job[j].stage = "name"
  BY DEF NameSnapshot, At
<1>2. TypeOK /\ job[j] \in Backup /\ Run(j) /\ (~job[j].met => Alone(j)) /\ job[j].own \in {0} \cup Ids
  BY <1>1, RunKnown DEF Backup
<1>3. UNCHANGED <<live, dumps, manifest, restic, exports, spoilt>>
  BY DEF NameSnapshot, files
<1>4. dumps' \in [Dbs -> File] /\ manifest' \subseteq Items
  BY <1>2, <1>3 DEF TypeOK
<1>5. PICK n \in {0, job[j].own} \cup Latest :
        Becomes(j, [job[j] EXCEPT !.stage = "success", !.named = n])
  BY DEF NameSnapshot
<1>15. n \in {0} \cup Ids
  <2>1. repo \subseteq Ids
    BY <1>2, StoredIsNat DEF repo, TypeOK, Ids
  <2>2. QED
    BY <1>2, <2>1 DEF Latest
<1> DEFINE r == [job[j] EXCEPT !.stage = "success", !.named = n]
<1>6. r \in Backup /\ r.stage = "success" /\ r.items = job[j].items /\ r.todo = job[j].todo
      /\ r.seen = job[j].seen /\ r.named = n /\ r.own = job[j].own /\ r.kind = "backup"
  BY <1>1, <1>2, <1>15 DEF Backup
<1>7. (r.met <=> job[j].met) /\ (r.lost <=> job[j].lost)
  BY <1>2 DEF Backup
<1>8. Becomes(j, r)
  BY <1>5
<1> HIDE DEF r
<1>9. r \in Records
  BY <1>6 DEF Records
<1>10. job'[j] = r /\ \A k \in Jobs \ {j} : job'[k] = job[k]
  BY <1>2, <1>8, <1>9, JobTyped
<1>11. Runs' = Runs /\ repo' = repo
  BY <1>1, <1>3, <1>6, <1>10, RunsKept DEF repo, restic
<1>12. ~r.met => Alone(j)'
  <2> SUFFICES ASSUME ~r.met PROVE Alone(j)'
    OBVIOUS
  <2>1. Alone(j)
    BY <1>2, <1>7
  <2>2. ~job[j].lost => Newest(j)
    BY <1>1, <2>1 DEF Alone, Stored
  <2>3. Newest(j) => Newest(j)'
    BY <1>3, <1>6, <1>10, <1>11 DEF Newest, restic
  <2>4. Newest(j) => Other(n, job[j].own)'
    <3> SUFFICES ASSUME Newest(j), n \in repo, n # job[j].own, PathSet(n) = PathSet(job[j].own)
                 PROVE  FALSE
      BY <1>3, <1>6, <1>10, <1>11 DEF Other, PathSet, restic
    <3>1. repo \subseteq Nat /\ 0 \notin repo
      BY <1>2, StoredIsNat DEF repo
    <3>2. n \in Latest
      BY <1>5, <3>1
    <3>3. n <= job[j].own /\ job[j].own <= n /\ n \in Nat /\ job[j].own \in Nat
      BY <3>1, <3>2 DEF Latest, Newest
    <3>4. QED
      BY <3>3
  <2>5. QED
    BY <1>6, <1>7, <1>10, <1>11, <2>1, <2>2, <2>3, <2>4 DEF Alone, Busy
<1>13. Run(j)'
  <2>1. job[j].todo \subseteq job[j].items
    BY <1>1, <1>2 DEF Run
  <2>2. ~job'[j].met => Alone(j)'
    BY <1>10, <1>12
  <2>3. QED
    BY <1>6, <1>10, <2>1, <2>2 DEF Run, Busy
<1>14. QED
  BY <1>1, <1>3, <1>4, <1>6, <1>8, <1>13, RunMoves DEF Stored

-----------------------------------------------------------------------------
(***************************************************************************)
(* A job gets its slot.                                                    *)
(***************************************************************************)
LEMMA AcquireWorkerKeeps ==
    ASSUME IInv, NEW j \in Jobs, AcquireWorker(j)
    PROVE  IInv'
<1>1. job[j].stage = "queued"
  BY DEF AcquireWorker
<1>2. TypeOK /\ spoilt \subseteq Items /\ Run(j) /\ Load(j)
  BY DEF IInv, TypeOK
<1>3. UNCHANGED <<live, dumps, manifest, restic, exports>>
  BY DEF AcquireWorker, files
<1>4. UNCHANGED <<dumps, manifest, stored, snap>> /\ UNCHANGED <<live, restic, exports>>
  BY <1>3 DEF restic
<1>5. dumps' \in [Dbs -> File] /\ manifest' \subseteq Items
  BY <1>2, <1>3 DEF TypeOK
<1>6. job[j].kind \in {"backup", "restore", "delete"}
  <2>1. job[j].kind # "export"
    BY <1>1, <1>2, Kinds DEF Export
  <2>2. job[j] # Idle
    BY <1>1 DEF Idle
  <2>3. job[j] \in {Idle} \cup Backup \cup Restore \cup Delete \cup Export
    BY <1>2 DEF TypeOK
  <2>4. QED
    BY <2>1, <2>2, <2>3 DEF Backup, Restore, Delete, Export
<1>7. CASE job[j].kind = "backup"
  <2>1. job[j] \in Backup
    BY <1>2, <1>7, Kinds
  <2> DEFINE r == [job[j] EXCEPT !.stage = "clean"]
  <2>2. r \in Backup /\ r.stage = "clean" /\ r.items = job[j].items /\ r.todo = job[j].todo
        /\ r.seen = job[j].seen /\ r.met = job[j].met /\ r.named = job[j].named /\ r.kind = "backup"
    BY <2>1 DEF Backup
  <2>3. Becomes(j, r)
    BY <1>7 DEF AcquireWorker, ToStage, Becomes
  <2> HIDE DEF r
  <2>4. r \in Records
    BY <2>2 DEF Records
  <2>5. job' \in [Jobs -> Records] /\ job'[j] = r /\ \A k \in Jobs \ {j} : job'[k] = job[k]
    BY <1>2, <2>3, <2>4, JobTyped
  <2>6. spoilt' = spoilt \cup {i \in job[j].items : Loading(i) # {}} /\ job[j].items \subseteq Items
    BY <1>7, <2>1 DEF AcquireWorker, Backup
  <2>7. spoilt \subseteq spoilt' /\ spoilt' \subseteq Items
    BY <1>2, <2>6
  <2>8. Runs' = Runs
    BY <1>7, <2>2, <2>5, RunsKept
  <2>9. ~r.met => Alone(j)'
    BY <1>1, <1>2, <1>7, <2>2, <2>5, <2>8 DEF Run, Alone, Busy, Stored
  <2>10. (Run(j) /\ Load(j))'
    BY <1>1, <1>2, <1>7, <2>2, <2>5, <2>9 DEF Run, Busy, Load, At
  <2>11. \A i \in Items : j \notin Loading(i) /\ (j \notin Loading(i))'
    BY <1>7, <2>2, <2>5 DEF Loading, At
  <2>12. \A i \in Items : (j \in Reading(i))' => i \in spoilt' \/ Loading(i) = {}
    BY <2>2, <2>5, <2>6 DEF Reading
  <2>13. j \in Pending
    BY <1>1, <1>7 DEF Pending, Runs
  <2>14. Aside(j)
    BY <1>7 DEF Aside
  <2>15. /\ \A i \in Items : (j \in Reading(i))' => j \in Reading(i) \/ i \in spoilt' \/ Loading(i) = {}
         /\ \A i \in Items : (j \in Loading(i))' => j \in Loading(i)
         /\ \A i \in Items : j \in Loading(i) => (j \in Loading(i))' \/ i \in spoilt'
    BY <2>11, <2>12
  <2>16. QED
    BY <1>4, <1>5, <1>7, <2>4, <2>5, <2>7, <2>10, <2>13, <2>14, <2>15, Kept
<1>8. CASE job[j].kind \in {"restore", "delete"}
  <2> DEFINE s == IF job[j].kind = "restore" THEN "fetch" ELSE "forget"
             r == [job[j] EXCEPT !.stage = s]
  <2>1. r \in Restore \cup Delete /\ r.kind = job[j].kind /\ r.stage = s
    <3>1. CASE job[j].kind = "restore"
      <4>1. job[j] \in Restore
        BY <1>2, <3>1, Kinds
      <4>2. QED
        BY <3>1, <4>1 DEF Restore
    <3>2. CASE job[j].kind = "delete"
      <4>1. job[j] \in Delete
        BY <1>2, <3>2, Kinds
      <4>2. QED
        BY <3>2, <4>1 DEF Delete
    <3>3. QED
      BY <1>8, <3>1, <3>2
  <2>2. Becomes(j, r)
    BY <1>8 DEF AcquireWorker, ToStage, Becomes
  <2>3. s \in {"fetch", "forget"}
    OBVIOUS
  <2> HIDE DEF r, s
  <2>4. r \in Records
    BY <2>1 DEF Records
  <2>5. job' \in [Jobs -> Records] /\ job'[j] = r /\ \A k \in Jobs \ {j} : job'[k] = job[k]
    BY <1>2, <2>2, <2>4, JobTyped
  <2>6. spoilt' = spoilt
    BY <1>8 DEF AcquireWorker
  <2>7. (Run(j) /\ Load(j))'
    BY <1>8, <2>1, <2>3, <2>5 DEF Run, Load, At
  <2>8. \A i \in Items : j \notin Loading(i) /\ (j \notin Loading(i) /\ j \notin Reading(i))'
    BY <1>1, <1>8, <2>1, <2>3, <2>5 DEF Loading, Reading, Runs, At
  <2>9. (j \notin Pending)'
    BY <1>8, <2>1, <2>5 DEF Pending, Runs
  <2>10. Aside(j)
    BY <1>4, <1>8, <2>1, <2>5 DEF Aside
  <2>11. /\ \A i \in Items : (j \in Reading(i))' => j \in Reading(i) \/ i \in spoilt' \/ Loading(i) = {}
         /\ \A i \in Items : (j \in Loading(i))' => j \in Loading(i)
         /\ \A i \in Items : j \in Loading(i) => (j \in Loading(i))' \/ i \in spoilt'
    BY <2>8
  <2>12. spoilt \subseteq spoilt' /\ spoilt' \subseteq Items /\ job[j].kind # "export"
    BY <1>2, <1>8, <2>6
  <2>13. QED
    BY <1>4, <1>5, <2>4, <2>5, <2>7, <2>9, <2>10, <2>11, <2>12, Kept
<1>9. QED
  BY <1>6, <1>7, <1>8

-----------------------------------------------------------------------------
(***************************************************************************)
(* restic stores a snapshot, and forgets others.                           *)
(***************************************************************************)
\* An item of the snapshot that Store stores.
Content(j, unread, missing) ==
    [i \in Items |-> IF i \in missing THEN Absent
                     ELSE IF Paths(j)[i] = job[j].seen[i] /\ i \notin unread THEN job[j].seen[i]
                     ELSE IF i \in Sites THEN Torn ELSE Partial]

\* The snapshot holds what its manifest lists, but for the sites restic could not read, also
\* when the run fails; no other changes.
LEMMA StoreHolds ==
    ASSUME IInv, NEW j \in Jobs, job[j].kind = "backup", job[j].stage = "reading",
           NEW unread \in SUBSET (job[j].items \cap Sites), NEW missing \in SUBSET unread,
           Store(j, unread, missing)
    PROVE  /\ UNCHANGED <<live, dumps, manifest, exports, spoilt>>
           /\ stored \in Nat /\ stored' = stored + 1 /\ stored' \in Ids
           /\ snap' \in [Ids -> Snapshot] /\ snap'[stored'].unread = unread
           /\ \A n \in repo' : n # stored' => n \in repo /\ snap'[n] = snap[n]
           /\ repo' \subseteq 1 .. stored'
           /\ ~job[j].met => stored' \in repo'
           /\ SnapshotsHoldManifest'
<1> DEFINE content == Content(j, unread, missing)
           s == [manifest |-> manifest, met |-> job[j].met, took |-> job[j].items, unread |-> unread,
                 content |-> content]
<1>1. TypeOK /\ job[j] \in Backup /\ Run(j) /\ (~job[j].met => Alone(j)) /\ Counted
  BY RunKnown DEF IInv
<1>2. UNCHANGED <<live, dumps, manifest, exports, spoilt>> /\ stored' = stored + 1
  BY DEF Store, files
<1>3. content \in [Items -> File]
  BY <1>1, FileTyped DEF Content, Backup
<1>4. /\ s \in Snapshot /\ s.manifest = manifest /\ (s.met <=> job[j].met)
      /\ s.content = content /\ s.unread = unread
  BY <1>1, <1>3 DEF Snapshot, TypeOK, Backup
<1>5. stored \in Nat /\ MaxSnapshots \in Nat
  BY <1>1, StoredIsNat
<1>6. Cardinality(Pending) \in Nat /\ Cardinality(Pending) > 0
  <2>1. j \in Pending
    BY DEF Pending, Runs
  <2>2. QED
    BY <2>1, PendingFinite, FS_RemoveElement, FS_EmptySet
<1>7. stored + 1 \in Ids
  BY <1>1, <1>5, <1>6 DEF Counted, Ids
<1>8. snap' = [snap EXCEPT ![stored + 1] = s]
  BY <1>2 DEF Store, Content
<1> HIDE DEF s
<1>9. snap' \in [Ids -> Snapshot] /\ snap'[stored + 1] = s /\ \A n \in Ids \ {stored + 1} : snap'[n] = snap[n]
  BY <1>1, <1>4, <1>7, <1>8 DEF TypeOK
<1>10. repo' \subseteq 1 .. (stored + 1) /\ \A n \in repo' : n # stored + 1 => n \in repo /\ snap'[n] = snap[n]
  BY <1>1, <1>2, <1>5, <1>7, <1>9 DEF repo, TypeOK, Ids
<1>11. ~job[j].met => (\A i \in Items : s.content[i] # Absent \/ i \in s.unread <=> i \in s.manifest)
                     /\ (\A i \in s.manifest \ (spoilt \cup s.unread) : s.content[i] = Whole)
                     /\ s.manifest # {}
  <2> SUFFICES ASSUME ~job[j].met
               PROVE  /\ \A i \in Items : content[i] # Absent \/ i \in unread <=> i \in manifest
                      /\ \A i \in manifest \ (spoilt \cup unread) : content[i] = Whole
                      /\ manifest # {}
    BY <1>4
  <2>1. Seen(j) /\ manifest = job[j].items /\ job[j].items # {}
    BY <1>1 DEF Alone, Run, Busy
  <2>2. \A i \in Items : (i \notin job[j].items => Paths(j)[i] = Absent)
                       /\ (i \in job[j].items => Paths(j)[i] # Absent /\ (i \in spoilt \/ Paths(j)[i] = Whole))
    BY PathsWhole
  <2>3. ASSUME NEW i \in Items, i \notin job[j].items PROVE content[i] = Absent /\ i \notin unread
    BY <2>1, <2>2, <2>3 DEF Seen, Content
  <2>4. ASSUME NEW i \in Items, i \in job[j].items, i \notin unread
        PROVE  content[i] # Absent /\ (i \in spoilt \/ content[i] = Whole)
    BY <2>1, <2>2, <2>4, Distinct DEF Seen, Content
  <2>5. manifest \subseteq Items
    BY <1>1 DEF TypeOK
  <2>6. QED
    BY <2>1, <2>3, <2>4, <2>5
<1>12. SnapshotsHoldManifest'
  <2> SUFFICES ASSUME NEW n \in repo', ~snap'[n].met
               PROVE  /\ {i \in Items : snap'[n].content[i] # Absent} \cup snap'[n].unread = snap'[n].manifest
                      /\ \A i \in snap'[n].manifest \ (spoilt' \cup snap'[n].unread) :
                           snap'[n].content[i] = Whole
    BY DEF SnapshotsHoldManifest
  <2>1. CASE n = stored + 1
    <3>1. snap'[n] = s /\ ~job[j].met /\ s.manifest \subseteq Items
      BY <1>1, <1>4, <1>9, <2>1 DEF TypeOK
    <3>2. s.unread \subseteq Items
      BY <1>4, SitesAndDbs
    <3>3. {i \in Items : s.content[i] # Absent} \cup s.unread = s.manifest
      BY <1>11, <3>1, <3>2
    <3>4. QED
      BY <1>2, <1>11, <3>1, <3>3
  <2>2. CASE n # stored + 1
    BY <1>2, <1>10, <2>2 DEF IInv, SnapshotsHoldManifest
  <2>3. QED
    BY <2>1, <2>2
<1>13. ~job[j].met => stored + 1 \in repo'
  <2> SUFFICES ASSUME ~job[j].met PROVE stored + 1 \in repo'
    OBVIOUS
  <2>1. s # Gone
    BY <1>4, <1>11 DEF Gone
  <2>2. QED
    BY <1>2, <1>5, <1>9, <2>1 DEF repo
<1>14. QED
  BY <1>2, <1>4, <1>5, <1>7, <1>9, <1>10, <1>12, <1>13

\* The run that stores has one snapshot less to store; the rest is as for any step.
LEMMA StoreKeeps ==
    ASSUME IInv, NEW j \in Jobs, job[j].kind = "backup", job[j].stage = "reading",
           NEW unread \in SUBSET (job[j].items \cap Sites), NEW missing \in SUBSET unread,
           Store(j, unread, missing), NEW r \in Records, Becomes(j, r),
           r.kind = "backup" => r.stage = "forget" /\ r.items = job[j].items,
           r.kind \in {"none", "backup"}, Run(j)'
    PROVE  IInv'
<1>1. TypeOK /\ Counted /\ j \in Pending
  BY DEF IInv, Pending, Runs
<1>2. /\ UNCHANGED <<live, dumps, manifest, exports, spoilt>>
      /\ stored \in Nat /\ stored' = stored + 1 /\ stored' \in Ids /\ snap' \in [Ids -> Snapshot]
      /\ SnapshotsHoldManifest'
  BY StoreHolds
<1>3. job' \in [Jobs -> Records] /\ job'[j] = r /\ \A k \in Jobs \ {j} : job'[k] = job[k]
  BY <1>1, JobTyped
<1>4. TypeOK'
  BY <1>1, <1>2, <1>3 DEF TypeOK, Records, exports
<1>5. Load(j)'
  BY <1>3 DEF Load
<1>6. (\A k \in Jobs : Run(k) /\ Load(k))'
  BY <1>2, <1>3, <1>4, <1>5, JobsKept DEF Aside
<1>7. Counted'
  <2>1. Pending' = Pending \ {j}
    BY <1>3 DEF Pending, Runs
  <2>2. /\ Cardinality(Pending \ {j}) = Cardinality(Pending) - 1
        /\ Cardinality(Pending) \in Nat
    BY <1>1, PendingFinite, FS_RemoveElement
  <2>3. QED
    BY <1>1, <1>2, <2>1, <2>2, StoredIsNat DEF Counted
<1>8. (LiveIsWhole /\ Unread)'
  <2>1. \A i \in Items : j \notin Loading(i) /\ (j \notin Loading(i))'
    BY <1>3 DEF Loading, At
  <2>2. \A i \in Items : (j \in Reading(i))' => j \in Reading(i)
    BY <1>3 DEF Reading, Runs
  <2>3. UNCHANGED live /\ spoilt \subseteq spoilt'
    BY <1>2
  <2>4. \A k \in Jobs \ {j} : job'[k] = job[k]
    BY <1>3
  <2>5. QED
    BY <2>1, <2>2, <2>3, <2>4, ItemsKept
<1>9. ExportsCleanUp'
  BY <1>2, <1>3, ExportsKept
<1>10. QED
  BY <1>2, <1>4, <1>6, <1>7, <1>8, <1>9 DEF IInv

LEMMA EndBackupKeeps ==
    ASSUME IInv, NEW j \in Jobs, EndBackup(j)
    PROVE  IInv'
<1> DEFINE none == [i \in Items |-> Absent]
           r == [job[j] EXCEPT !.stage = "forget", !.own = stored', !.seen = none]
<1>1. job[j].kind = "backup" /\ job[j].stage = "reading" /\ Store(j, {}, {}) /\ Becomes(j, r)
  BY DEF EndBackup, At
<1>2. TypeOK /\ job[j] \in Backup /\ Run(j) /\ (~job[j].met => Alone(j))
  BY <1>1, RunKnown
<1>3. PICK all \in SUBSET (job[j].items \cap Sites) :
        all = {} /\ all \in SUBSET all /\ Store(j, all, all)
  BY <1>1
<1>4. /\ stored' \in Nat /\ stored' \in Ids /\ snap'[stored'].unread = {}
      /\ repo' \subseteq 1 .. stored' /\ (~job[j].met => stored' \in repo')
      /\ UNCHANGED <<live, dumps, manifest, exports, spoilt>>
  <2>1. job[j].kind = "backup" /\ job[j].stage = "reading" /\ Store(j, all, all)
    BY <1>1, <1>3
  <2>2. all \in SUBSET (job[j].items \cap Sites) /\ all \in SUBSET all
    BY <1>3
  <2>3. /\ UNCHANGED <<live, dumps, manifest, exports, spoilt>>
        /\ stored \in Nat /\ stored' = stored + 1 /\ stored' \in Ids
        /\ snap'[stored'].unread = all
        /\ repo' \subseteq 1 .. stored'
        /\ ~job[j].met => stored' \in repo'
    BY <2>1, <2>2, StoreHolds
  <2>4. QED
    BY <1>3, <2>3
<1>5. none \in [Items -> File]
  BY FileTyped
<1> HIDE DEF none
<1>6. r \in Backup /\ r.stage = "forget" /\ r.items = job[j].items /\ r.todo = job[j].todo
      /\ r.own = stored' /\ r.named = job[j].named /\ r.kind = "backup"
  BY <1>1, <1>2, <1>4, <1>5 DEF Backup
<1>7. r.met <=> job[j].met
  BY <1>2 DEF Backup
<1> HIDE DEF r
<1>8. r \in Records
  BY <1>6 DEF Records
<1>9. job'[j] = r /\ \A k \in Jobs \ {j} : job'[k] = job[k]
  BY <1>1, <1>2, <1>8, JobTyped
<1>10. ~r.met => Newest(j)'
  BY <1>4, <1>6, <1>7, <1>9 DEF Newest
<1>11. Runs' = Runs
  BY <1>1, <1>6, <1>9, RunsKept
<1>12. ~r.met => Alone(j)'
  BY <1>2, <1>6, <1>7, <1>9, <1>10, <1>11 DEF Alone, Busy
<1>13. Run(j)'
  <2>1. job[j].todo \subseteq job[j].items /\ job[j].named = 0
    BY <1>1, <1>2 DEF Run
  <2>2. ~job'[j].met => Alone(j)'
    BY <1>9, <1>12
  <2>3. QED
    BY <1>6, <1>9, <2>1, <2>2 DEF Run, Busy
<1>14. QED
  BY <1>1, <1>3, <1>6, <1>8, <1>13, StoreKeeps

LEMMA EndBackupFailsKeeps ==
    ASSUME IInv, NEW j \in Jobs, EndBackupFails(j)
    PROVE  IInv'
<1>1. job[j].kind = "backup" /\ job[j].stage = "reading" /\ Becomes(j, Idle)
  BY DEF EndBackupFails, At
<1>2. PICK unread \in SUBSET (job[j].items \cap Sites) :
        \E missing \in SUBSET unread : Store(j, unread, missing)
  BY DEF EndBackupFails
<1>7. PICK missing \in SUBSET unread : Store(j, unread, missing)
  BY <1>2
<1> DEFINE r == Idle
<1>3. r \in Records /\ r.kind = "none" /\ Becomes(j, r)
  BY <1>1, IdleTyped
<1> HIDE DEF r
<1>4. TypeOK /\ job'[j] = r
  BY <1>3, JobTyped DEF IInv
<1>5. Run(j)'
  BY <1>3, <1>4 DEF Run
<1>6. QED
  BY <1>1, <1>3, <1>5, <1>7, StoreKeeps

LEMMA ForgetKeeps ==
    ASSUME IInv, NEW j \in Jobs, Forget(j)
    PROVE  IInv'
<1>1. job[j].kind = "backup" /\ job[j].stage = "forget"
  BY DEF Forget, At
<1>2. TypeOK /\ job[j] \in Backup /\ Run(j) /\ (~job[j].met => Alone(j))
  BY <1>1, RunKnown
<1>3. UNCHANGED <<live, dumps, manifest, stored, exports, spoilt>>
  BY DEF Forget, files
<1>4. PICK keep \in KeepLasts :
        snap' = [id \in Ids |-> IF Cardinality({n \in repo : n > id}) < keep THEN snap[id] ELSE Gone]
  BY DEF Forget
<1>5. snap' \in [Ids -> Snapshot] /\ \A id \in Ids : snap'[id] \in {snap[id], Gone}
  BY <1>2, <1>4, GoneTyped DEF TypeOK
<1>6. repo \subseteq Ids /\ repo' \subseteq repo /\ \A n \in repo' : snap'[n] = snap[n]
  BY <1>2, <1>3, <1>5, StoredIsNat DEF repo, TypeOK, Ids
<1> DEFINE r == [job[j] EXCEPT !.stage = "name"]
<1>7. r \in Backup /\ r.stage = "name" /\ r.items = job[j].items /\ r.todo = job[j].todo
      /\ r.own = job[j].own /\ r.named = job[j].named /\ r.kind = "backup"
  BY <1>1, <1>2 DEF Backup
<1>8. (r.met <=> job[j].met) /\ (r.lost <=> job[j].lost)
  BY <1>2 DEF Backup
<1>9. Becomes(j, r)
  BY DEF Forget, ToStage, Becomes
<1> HIDE DEF r
<1>10. r \in Records
  BY <1>7 DEF Records
<1>11. job' \in [Jobs -> Records] /\ job'[j] = r /\ \A k \in Jobs \ {j} : job'[k] = job[k]
  BY <1>2, <1>9, <1>10, JobTyped
<1>12. TypeOK'
  BY <1>2, <1>3, <1>5, <1>11 DEF TypeOK, Records, exports
<1>13. Newest(j) => Newest(j)'
  <2> SUFFICES ASSUME Newest(j) PROVE Newest(j)'
    OBVIOUS
  <2>1. {n \in repo : n > job[j].own} = {}
    <3>1. repo \subseteq Nat
      BY <1>2, StoredIsNat DEF repo
    <3>2. job[j].own \in Nat /\ \A n \in repo : n <= job[j].own
      BY <3>1 DEF Newest
    <3>3. \A n \in repo : ~(n > job[j].own)
      BY <3>1, <3>2
    <3>4. QED
      BY <3>3
  <2>2. job[j].own \in Ids /\ snap'[job[j].own] = snap[job[j].own]
    BY <1>4, <1>6, <2>1, FS_EmptySet, ConstantsAssumption DEF Newest
  <2>3. job[j].own \in repo'
    BY <1>3, <2>2 DEF Newest, repo
  <2>4. QED
    BY <1>6, <1>7, <1>11, <2>2, <2>3 DEF Newest
<1>14. Runs' = Runs
  BY <1>1, <1>7, <1>11, RunsKept
<1>15. ~r.met => Alone(j)'
  <2> SUFFICES ASSUME ~r.met PROVE Alone(j)'
    OBVIOUS
  <2>1. Alone(j)
    BY <1>2, <1>8
  <2>2. ~job[j].lost => Newest(j)
    BY <1>1, <2>1 DEF Alone, Stored
  <2>3. QED
    BY <1>7, <1>8, <1>11, <1>13, <1>14, <2>1, <2>2 DEF Alone, Busy
<1>16. Run(j)'
  <2>1. job[j].todo \subseteq job[j].items /\ job[j].named = 0
    BY <1>1, <1>2 DEF Run
  <2>2. ~job'[j].met => Alone(j)'
    BY <1>11, <1>15
  <2>3. QED
    BY <1>7, <1>11, <2>1, <2>2 DEF Run, Busy
<1>17. (Load(j))'
  BY <1>7, <1>11 DEF Load, At
<1>18. (\A k \in Jobs : Run(k) /\ Load(k))'
  BY <1>1, <1>3, <1>11, <1>12, <1>16, <1>17, JobsKept DEF Aside
<1>19. Counted'
  <2>1. (j \notin Pending)'
    BY <1>7, <1>11 DEF Pending
  <2>2. QED
    BY <1>3, <1>11, <2>1, PendingKept
<1>20. (LiveIsWhole /\ Unread)'
  <2>1. \A i \in Items : j \notin Loading(i) /\ (j \notin Loading(i))'
    BY <1>1, <1>7, <1>11 DEF Loading, At
  <2>2. \A i \in Items : (j \in Reading(i))' => j \in Reading(i)
    BY <1>1, <1>7, <1>11 DEF Reading, Runs
  <2>3. UNCHANGED live /\ spoilt \subseteq spoilt'
    BY <1>3
  <2>4. \A k \in Jobs \ {j} : job'[k] = job[k]
    BY <1>11
  <2>5. QED
    BY <2>1, <2>2, <2>3, <2>4, ItemsKept
<1>21. SnapshotsHoldManifest'
  BY <1>3, <1>6 DEF IInv, SnapshotsHoldManifest
<1>22. ExportsCleanUp'
  BY <1>1, <1>3, <1>11, ExportsKept
<1>23. QED
  BY <1>12, <1>18, <1>19, <1>20, <1>21, <1>22 DEF IInv

-----------------------------------------------------------------------------
(***************************************************************************)
(* Restoring.                                                              *)
(***************************************************************************)
LEMMA RestoreKnown ==
    ASSUME IInv, NEW j \in Jobs, job[j].kind = "restore"
    PROVE  TypeOK /\ job[j] \in Restore /\ Load(j) /\ job[j].item \in Items
<1>1. TypeOK /\ Load(j)
  BY DEF IInv
<1>2. job[j] \in Restore
  BY <1>1, Kinds
<1>3. QED
  BY <1>1, <1>2 DEF Restore

LEMMA FetchKeeps ==
    ASSUME IInv, NEW j \in Jobs, Fetch(j)
    PROVE  IInv'
<1> DEFINE id == job[j].id
           i == job[j].item
<1>1. job[j].kind = "restore" /\ job[j].stage = "fetch"
  BY DEF Fetch, At
<1>2. TypeOK /\ job[j] \in Restore /\ i \in Items /\ id \in Ids
  BY <1>1, RestoreKnown DEF Restore
<1>3. UNCHANGED <<live, dumps, manifest, restic, exports, spoilt>>
  BY DEF Fetch, files
<1>4. dumps' \in [Dbs -> File] /\ manifest' \subseteq Items /\ spoilt \subseteq Items
  BY <1>2, <1>3 DEF TypeOK
<1>5. \A e \in Items : j \notin Loading(e)
  BY <1>1 DEF Loading, At
<1>6. CASE ~(id \in repo /\ i \in snap[id].manifest /\ snap[id].content[i] # Absent)
  <2>1. Becomes(j, Idle)
    BY <1>6 DEF Fetch
  <2>2. QED
    BY <1>1, <1>3, <1>4, <1>5, <2>1, Ended
<1>7. CASE id \in repo /\ i \in snap[id].manifest /\ snap[id].content[i] # Absent
  <2> DEFINE r == [job[j] EXCEPT !.stage = "load", !.got = snap[id].content[i],
                            !.mixed = snap[id].met \/ i \in snap[id].unread]
  <2>1. Becomes(j, r)
    BY <1>7 DEF Fetch
  <2>2. snap[id] \in Snapshot
    BY <1>2 DEF TypeOK
  <2>3. snap[id].met \/ i \in snap[id].unread \/ i \in spoilt \/ snap[id].content[i] = Whole
    BY <1>7 DEF IInv, SnapshotsHoldManifest
  <2>4. r \in Restore /\ r.kind = "restore" /\ r.stage = "load" /\ r.item = i /\ r.got = snap[id].content[i]
    BY <1>2, <2>2 DEF Restore, Snapshot
  <2>5. r.mixed <=> snap[id].met \/ i \in snap[id].unread
    BY <1>2, <2>2 DEF Restore, Snapshot
  <2> HIDE DEF r
  <2>6. r \in Records
    BY <2>4 DEF Records
  <2>7. job' \in [Jobs -> Records] /\ job'[j] = r /\ \A k \in Jobs \ {j} : job'[k] = job[k]
    BY <1>2, <2>1, <2>6, JobTyped
  <2>8. Load(j)'
    <3>1. r.mixed \/ r.item \in spoilt' \/ r.got = Whole
      BY <1>3, <2>3, <2>4, <2>5
    <3>2. QED
      BY <1>7, <2>4, <2>7, <3>1 DEF Load
  <2>9. (Run(j) /\ Load(j))'
    BY <2>4, <2>7, <2>8 DEF Run, At
  <2>10. \A e \in Items : (j \notin Loading(e) /\ j \notin Reading(e))'
    BY <2>4, <2>7 DEF Loading, Reading, Runs, At
  <2>11. (j \notin Pending)'
    BY <2>4, <2>7 DEF Pending, Runs
  <2>12. Aside(j)
    BY <1>3, <2>4, <2>7 DEF Aside, restic
  <2>13. /\ \A e \in Items : (j \in Reading(e))' => j \in Reading(e) \/ e \in spoilt' \/ Loading(e) = {}
         /\ \A e \in Items : (j \in Loading(e))' => j \in Loading(e)
         /\ \A e \in Items : j \in Loading(e) => (j \in Loading(e))' \/ e \in spoilt'
    BY <1>5, <2>10
  <2>14. spoilt \subseteq spoilt' /\ spoilt' \subseteq Items /\ job[j].kind # "export"
         /\ UNCHANGED <<live, restic, exports>>
    BY <1>1, <1>3, <1>4
  <2>15. QED
    BY <1>4, <2>6, <2>7, <2>9, <2>11, <2>12, <2>13, <2>14, Kept
<1>8. QED
  BY <1>6, <1>7

\* Whoever loads the item too is marked, and the item counts as spoilt.
LEMMA BeginLoadKeeps ==
    ASSUME IInv, NEW j \in Jobs, BeginLoad(j)
    PROVE  IInv'
<1>1. job[j].kind = "restore" /\ job[j].stage = "load"
  BY DEF BeginLoad, At
<1>2. PICK i \in Items : TypeOK /\ job[j] \in Restore /\ i = job[j].item /\ Load(j)
  BY <1>1, RestoreKnown
<1>3. UNCHANGED <<dumps, manifest, stored, snap, exportSlot, workdirs, left>>
  BY DEF BeginLoad, restic, exports
<1>4. spoilt \subseteq spoilt' /\ spoilt' \subseteq spoilt \cup {i} /\ spoilt' \subseteq Items
      /\ (Loading(i) \cup Reading(i) # {} \/ job[j].mixed => i \in spoilt')
  BY <1>2 DEF BeginLoad, TypeOK
<1>5. live' = [live EXCEPT ![i] = Torn]
  BY <1>2 DEF BeginLoad
<1>6. live' \in [Items -> Live] /\ \A e \in Items \ {i} : live'[e] = live[e]
  BY <1>2, <1>5, FileTyped DEF TypeOK
<1> DEFINE r == [job[j] EXCEPT !.stage = "loading", !.met = Loading(i) # {}]
<1>7. r \in Restore /\ r.kind = "restore" /\ r.stage = "loading" /\ r.item = i /\ r.got = job[j].got
  BY <1>2 DEF Restore
<1>8. r.met <=> Loading(i) # {}
  BY <1>2 DEF Restore
<1>9. \A k \in Loading(i) : job[k] \in Restore /\ job[k].kind = "restore" /\ k # j
        /\ job[k].stage = "loading" /\ job[k].item = i /\ k \in Jobs
  BY <1>1, <1>2, Kinds DEF Loading, At
<1>10. job' = [k \in Jobs |->
         IF k = j THEN r
         ELSE IF k \in Loading(i) THEN [job[k] EXCEPT !.met = TRUE] ELSE job[k]]
  BY <1>2 DEF BeginLoad
<1> HIDE DEF r
<1>11. job'[j] = r /\ \A k \in Jobs \ {j} : k \notin Loading(i) => job'[k] = job[k]
  BY <1>10
<1>12. \A k \in Loading(i) : job'[k] = [job[k] EXCEPT !.met = TRUE]
  BY <1>9, <1>10
<1>13. \A k \in Loading(i) : job'[k] \in Restore /\ job'[k].kind = "restore" /\ job'[k].stage = "loading"
         /\ job'[k].item = i /\ job'[k].got = job[k].got
  BY <1>9, <1>12 DEF Restore
<1>14. job' \in [Jobs -> Records]
  <2>1. \A k \in Jobs : job'[k] \in Records
    BY <1>2, <1>7, <1>11, <1>13 DEF Records, TypeOK
  <2>2. QED
    BY <1>10, <2>1
<1>15. TypeOK'
  BY <1>2, <1>3, <1>4, <1>6, <1>14 DEF TypeOK, Records
<1>16. \A k \in Jobs : job[k].kind # "restore" => job'[k] = job[k]
  BY <1>1, <1>9, <1>11
<1>17. \A k \in Jobs : job[k].kind = "restore" => job'[k].kind = "restore"
  BY <1>7, <1>9, <1>11, <1>13
<1>18. Runs' = Runs /\ Pending' = Pending /\ \A e \in Items : Reading(e)' = Reading(e)
  BY <1>16, <1>17 DEF Runs, Pending, Reading
<1>19. Loading(i)' = Loading(i) \cup {j} /\ \A e \in Items \ {i} : Loading(e)' = Loading(e)
  <2>1. \A k \in Jobs \ {j} : \A e \in Items : k \in Loading(e)' <=> k \in Loading(e)
    BY <1>9, <1>11, <1>13 DEF Loading, At
  <2>2. \A e \in Items : j \in Loading(e)' <=> e = i
    BY <1>7, <1>11 DEF Loading, At
  <2>3. \A e \in Items : j \notin Loading(e)
    BY <1>1 DEF Loading, At
  <2>4. \A e \in Items : Loading(e) \subseteq Jobs /\ Loading(e)' \subseteq Jobs
    BY DEF Loading
  <2>5. QED
    BY <1>2, <2>1, <2>2, <2>3, <2>4
<1>20. repo' = repo
  BY <1>3 DEF repo
<1>21. \A k \in Jobs : (Run(k) /\ Load(k))'
  <2> TAKE k \in Jobs
  <2>1. Run(k) /\ Load(k)
    BY DEF IInv
  <2>2. Run(k)'
    <3>1. CASE job[k].kind = "backup"
      <4>1. job'[k] = job[k]
        BY <1>16, <3>1
      <4>2. Dumps(k) => Dumps(k)'
        BY <1>3, <1>4, <4>1 DEF Dumps
      <4>3. UnderWay(k) => UnderWay(k)'
        BY <1>3, <1>4, <4>1 DEF UnderWay
      <4>4. Seen(k) => Seen(k)'
        BY <1>4, <4>1 DEF Seen
      <4>5. (Newest(k) => Newest(k)') /\ \A n, m : Other(n, m) => Other(n, m)'
        BY <1>3, <1>20, <4>1 DEF Newest, Other, PathSet
      <4>6. Alone(k) => Alone(k)'
        BY <1>3, <1>18, <4>1, <4>2, <4>3, <4>4, <4>5 DEF Alone
      <4>7. QED
        BY <2>1, <4>1, <4>6 DEF Run
    <3>2. CASE job[k].kind # "backup"
      <4>1. job'[k].kind # "backup"
        BY <1>7, <1>9, <1>11, <1>13, <3>2
      <4>2. QED
        BY <4>1 DEF Run
    <3>3. QED
      BY <3>1, <3>2
  <2>3. Load(k)'
    <3>1. CASE k = j
      <4>1. r.got # Absent
        BY <1>1, <1>2, <1>7 DEF Load
      <4>2. r.item \in spoilt' \/ (r.got = Whole /\ ~r.met)
        BY <1>1, <1>2, <1>4, <1>7, <1>8 DEF Load
      <4>3. QED
        BY <1>7, <1>11, <3>1, <4>1, <4>2 DEF Load
    <3>2. CASE k \in Loading(i)
      <4>1. i \in spoilt' /\ job[k].got # Absent
        BY <1>4, <1>9, <2>1, <3>2 DEF Load
      <4>2. QED
        BY <1>13, <3>2, <4>1 DEF Load
    <3>3. CASE k # j /\ k \notin Loading(i)
      BY <1>4, <1>11, <2>1, <3>3 DEF Load
    <3>4. QED
      BY <3>1, <3>2, <3>3
  <2>4. QED
    BY <2>2, <2>3
<1>22. Counted'
  BY <1>3, <1>18 DEF IInv, Counted
<1>23. LiveIsWhole'
  BY <1>4, <1>6, <1>19 DEF IInv, LiveIsWhole
<1>24. Unread'
  <2>1. i \notin spoilt' => Reading(i)' = {}
    BY <1>2, <1>4, <1>18
  <2>2. QED
    BY <1>4, <1>18, <1>19, <2>1 DEF IInv, Unread
<1>25. SnapshotsHoldManifest'
  BY <1>3, <1>4, <1>20 DEF IInv, SnapshotsHoldManifest
<1>26. ExportsCleanUp'
  <2>1. \A k \in Jobs : job[k].kind = "export" => job'[k] = job[k]
    BY <1>16
  <2>2. workdirs \subseteq Jobs
    BY <1>2 DEF TypeOK
  <2>3. QED
    BY <1>3, <2>1, <2>2 DEF IInv, ExportsCleanUp
<1>27. QED
  BY <1>15, <1>21, <1>22, <1>23, <1>24, <1>25, <1>26 DEF IInv

LEMMA EndLoadKeeps ==
    ASSUME IInv, NEW j \in Jobs, EndLoad(j)
    PROVE  IInv'
<1>21. PICK newer \in BOOLEAN :
         /\ live' = [live EXCEPT ![job[j].item] = IF job[j].met \/ newer THEN Torn ELSE job[j].got]
         /\ spoilt' = IF newer THEN spoilt \cup {job[j].item} ELSE spoilt
  BY DEF EndLoad
<1> DEFINE i == job[j].item
           loaded == IF job[j].met \/ newer THEN Torn ELSE job[j].got
<1>1. job[j].kind = "restore" /\ job[j].stage = "loading" /\ job[j].got # Partial
  BY DEF EndLoad, At
<1>2. TypeOK /\ job[j] \in Restore /\ i \in Items /\ Load(j)
  BY <1>1, RestoreKnown
<1>3. UNCHANGED <<dumps, manifest, stored, snap, restic, exportSlot, workdirs, left, exports>>
      /\ Becomes(j, Idle) /\ live' = [live EXCEPT ![i] = loaded]
  BY <1>21 DEF EndLoad, restic, exports
<1>22. spoilt \subseteq spoilt' /\ spoilt' \subseteq Items /\ (newer => i \in spoilt')
  BY <1>2, <1>21 DEF TypeOK
<1>4. job[j].got \in File /\ job[j].got # Absent
  BY <1>1, <1>2 DEF Load, Restore
<1>5. loaded \in Live
  BY <1>1, <1>4, FileTyped
<1>6. i \in spoilt' \/ loaded = Whole
  BY <1>1, <1>2, <1>22 DEF Load
<1> HIDE DEF loaded
<1>7. live' \in [Items -> Live] /\ live'[i] = loaded /\ \A e \in Items \ {i} : live'[e] = live[e]
  BY <1>2, <1>3, <1>5 DEF TypeOK
<1>8. job' \in [Jobs -> Records] /\ job'[j] = Idle /\ \A k \in Jobs \ {j} : job'[k] = job[k]
  BY <1>2, <1>3, IdleTyped, JobTyped
<1>9. TypeOK'
  BY <1>2, <1>3, <1>7, <1>8, <1>22 DEF TypeOK, Records
<1>10. (Run(j) /\ Load(j))' /\ Aside(j)
  BY <1>3, <1>8, IdleTyped DEF Run, Load, At, Aside
<1>11. (\A k \in Jobs : Run(k) /\ Load(k))'
  BY <1>8, <1>9, <1>10, <1>22, JobsKept
<1>12. (j \notin Pending)'
  BY <1>8, IdleTyped DEF Pending, Runs
<1>13. Counted'
  BY <1>3, <1>8, <1>12, PendingKept
<1>14. \A e \in Items : Loading(e)' = Loading(e) \ {j} /\ Reading(e)' = Reading(e)
  BY <1>1, <1>8, IdleTyped DEF Loading, Reading, Runs, At
<1>15. \A e \in Items \ {i} : j \notin Loading(e)
  BY DEF Loading
<1>16. LiveIsWhole'
  BY <1>6, <1>7, <1>14, <1>15, <1>22 DEF IInv, LiveIsWhole
<1>17. Unread'
  BY <1>14, <1>22 DEF IInv, Unread
<1>18. SnapshotsHoldManifest'
  BY <1>3, <1>22, SnapshotsKept
<1>19. ExportsCleanUp'
  BY <1>1, <1>3, <1>8, ExportsKept
<1>20. QED
  BY <1>9, <1>11, <1>13, <1>16, <1>17, <1>18, <1>19 DEF IInv

-----------------------------------------------------------------------------
(***************************************************************************)
(* A snapshot is deleted; whoever has stored it knows it as lost.          *)
(***************************************************************************)
LEMMA DeleteSnapshotKeeps ==
    ASSUME IInv, NEW j \in Jobs, DeleteSnapshot(j)
    PROVE  IInv'
<1>1. job[j].kind = "delete" /\ job[j].stage = "forget"
  BY DEF DeleteSnapshot, At
<1>2. TypeOK /\ job[j] \in Delete
  BY <1>1, Kinds DEF IInv
<1>3. PICK id \in Ids : id = job[j].id
  BY <1>2 DEF Delete
<1>4. UNCHANGED <<live, dumps, manifest, stored, exports, spoilt>> /\ snap' = [snap EXCEPT ![id] = Gone]
  BY <1>3 DEF DeleteSnapshot, files
<1>5. snap' \in [Ids -> Snapshot] /\ snap'[id] = Gone /\ \A n \in Ids \ {id} : snap'[n] = snap[n]
  BY <1>2, <1>4, GoneTyped DEF TypeOK
<1>6. repo' = repo \ {id} /\ repo \subseteq Ids /\ \A n \in repo' : snap'[n] = snap[n]
  BY <1>2, <1>4, <1>5, StoredIsNat DEF repo, TypeOK, Ids
<1> DEFINE Losing(k) == job[k].kind = "backup" /\ job[k].own = id
<1>7. job' = [k \in Jobs |-> IF k = j THEN Idle
                            ELSE IF Losing(k) THEN [job[k] EXCEPT !.lost = TRUE] ELSE job[k]]
  BY <1>3 DEF DeleteSnapshot
<1>8. \A k \in Jobs : Losing(k) => k # j /\ job[k] \in Backup
  BY <1>1, <1>2, Kinds
<1>9. job'[j] = Idle /\ \A k \in Jobs \ {j} : ~Losing(k) => job'[k] = job[k]
  BY <1>7
<1>10. \A k \in Jobs : Losing(k) => job'[k] = [job[k] EXCEPT !.lost = TRUE]
  BY <1>7, <1>8
<1>11. \A k \in Jobs : Losing(k) => /\ job'[k] \in Backup /\ job'[k].kind = "backup" /\ job'[k].lost
                                  /\ job'[k].stage = job[k].stage /\ job'[k].items = job[k].items
                                  /\ job'[k].todo = job[k].todo /\ job'[k].seen = job[k].seen
                                  /\ job'[k].named = job[k].named /\ (job'[k].met <=> job[k].met)
  <2> SUFFICES ASSUME NEW k \in Jobs, Losing(k)
               PROVE  /\ job'[k] \in Backup /\ job'[k].kind = "backup" /\ job'[k].lost
                      /\ job'[k].stage = job[k].stage /\ job'[k].items = job[k].items
                      /\ job'[k].todo = job[k].todo /\ job'[k].seen = job[k].seen
                      /\ job'[k].named = job[k].named /\ (job'[k].met <=> job[k].met)
    OBVIOUS
  <2>1. job[k] \in Backup /\ job'[k] = [job[k] EXCEPT !.lost = TRUE]
    BY <1>8, <1>10
  <2>2. job'[k] \in Backup /\ job'[k].kind = "backup"
    BY <2>1 DEF Backup
  <2>3. /\ job'[k].stage = job[k].stage /\ job'[k].items = job[k].items /\ job'[k].todo = job[k].todo
        /\ job'[k].seen = job[k].seen /\ job'[k].named = job[k].named
    BY <2>1 DEF Backup
  <2>4. job'[k].lost
    BY <2>1 DEF Backup
  <2>5. job'[k].met = job[k].met
    BY <2>1 DEF Backup
  <2>6. QED
    BY <2>2, <2>3, <2>4, <2>5
<1>12. job' \in [Jobs -> Records]
  <2>1. \A k \in Jobs : job'[k] \in Records
    BY <1>2, <1>9, <1>11, IdleTyped DEF Records, TypeOK
  <2>2. QED
    BY <1>7, <2>1
<1>13. TypeOK'
  BY <1>2, <1>4, <1>5, <1>12 DEF TypeOK, Records, exports
<1>14. Runs' = Runs /\ Pending' = Pending
  BY <1>1, <1>9, <1>11, IdleTyped DEF Runs, Pending
<1>15. \A e \in Items : Reading(e)' = Reading(e) /\ Loading(e)' = Loading(e)
  <2>1. \A e \in Items : \A k \in Jobs : (k \in Reading(e))' <=> k \in Reading(e)
    BY <1>1, <1>9, <1>11, IdleTyped DEF Reading, Runs
  <2>2. \A e \in Items : \A k \in Jobs : (k \in Loading(e))' <=> k \in Loading(e)
    BY <1>1, <1>9, <1>11, IdleTyped DEF Loading, At
  <2>3. \A e \in Items : Reading(e) \subseteq Jobs /\ Loading(e) \subseteq Jobs
                       /\ Reading(e)' \subseteq Jobs /\ Loading(e)' \subseteq Jobs
    BY DEF Reading, Runs, Loading
  <2>4. QED
    BY <2>1, <2>2, <2>3
<1> HIDE DEF Losing
<1>16. \A k \in Jobs : (Run(k) /\ Load(k))'
  <2> TAKE k \in Jobs
  <2>1. Run(k) /\ Load(k)
    BY DEF IInv
  <2>2. CASE k = j
    BY <1>9, <2>2, IdleTyped DEF Run, Load, At
  <2>3. CASE k # j /\ ~Losing(k)
    <3>1. job'[k] = job[k] /\ spoilt' = spoilt
      BY <1>4, <1>9, <2>3
    <3>2. Load(k)'
      BY <2>1, <3>1 DEF Load, At
    <3>3. job[k].kind = "backup" => (Alone(k) => Alone(k)')
      <4> SUFFICES ASSUME job[k].kind = "backup", Alone(k) PROVE Alone(k)'
        OBVIOUS
      <4>1. job[k].own # id
        BY <2>3 DEF Losing
      <4>2. /\ Newest(k) => Newest(k)'
            /\ Newest(k) /\ Other(job[k].named, job[k].own) => Other(job[k].named, job[k].own)'
        BY <1>6, <3>1, <4>1 DEF Newest, Other, PathSet
      <4>3. Dumps(k) => Dumps(k)'
        BY <1>4, <3>1 DEF Dumps
      <4>4. UnderWay(k) => UnderWay(k)'
        BY <1>4, <3>1 DEF UnderWay
      <4>5. Seen(k) => Seen(k)'
        BY <3>1 DEF Seen
      <4>6. QED
        BY <1>4, <1>14, <3>1, <4>2, <4>3, <4>4, <4>5 DEF Alone, Stored
    <3>4. Run(k)'
      BY <2>1, <3>1, <3>3 DEF Run
    <3>5. QED
      BY <3>2, <3>4
  <2>4. CASE Losing(k)
    <3>1. job[k].kind = "backup" /\ job'[k].kind = "backup" /\ job'[k].lost
          /\ job'[k].stage = job[k].stage /\ job'[k].items = job[k].items
          /\ job'[k].todo = job[k].todo /\ job'[k].seen = job[k].seen
          /\ job'[k].named = job[k].named /\ (job'[k].met <=> job[k].met)
      BY <1>11, <2>4 DEF Losing
    <3>2. Load(k)'
      BY <3>1 DEF Load, At
    <3>3. Alone(k) => Alone(k)'
      <4>1. Dumps(k) => Dumps(k)'
        BY <1>4, <3>1 DEF Dumps
      <4>2. UnderWay(k) => UnderWay(k)'
        BY <1>4, <3>1 DEF UnderWay
      <4>3. Seen(k) => Seen(k)'
        BY <1>4, <3>1 DEF Seen
      <4>4. QED
        BY <1>4, <1>14, <3>1, <4>1, <4>2, <4>3 DEF Alone
    <3>4. ~job'[k].met => Alone(k)'
      BY <2>1, <3>1, <3>3 DEF Run
    <3>5. Run(k)'
      BY <2>1, <3>1, <3>4 DEF Run
    <3>6. QED
      BY <3>2, <3>5
  <2>5. QED
    BY <2>2, <2>3, <2>4
<1>17. Counted'
  BY <1>4, <1>14 DEF IInv, Counted
<1>18. (LiveIsWhole /\ Unread)'
  BY <1>4, <1>15 DEF IInv, LiveIsWhole, Unread
<1>19. SnapshotsHoldManifest'
  BY <1>4, <1>6 DEF IInv, SnapshotsHoldManifest
<1>20. ExportsCleanUp'
  <2>1. \A k \in Jobs : job[k].kind = "export" => job'[k] = job[k]
    BY <1>1, <1>9 DEF Losing
  <2>2. workdirs \subseteq Jobs
    BY <1>2 DEF TypeOK
  <2>3. QED
    BY <1>4, <2>1, <2>2 DEF IInv, ExportsCleanUp, exports
<1>21. QED
  BY <1>13, <1>16, <1>17, <1>18, <1>19, <1>20 DEF IInv

-----------------------------------------------------------------------------
(***************************************************************************)
(* A run begins; every run there is has met it.                            *)
(***************************************************************************)
LEMMA TriggerBackupKeeps ==
    ASSUME IInv, NEW j \in Jobs, NEW items \in Selections, TriggerBackup(j, items)
    PROVE  IInv'
<1> DEFINE r == [kind |-> "backup", stage |-> "queued", items |-> items, todo |-> items \cap Dbs,
                 seen |-> [i \in Items |-> Absent], own |-> 0, named |-> 0, lost |-> FALSE, met |-> Runs # {}]
<1>1. job[j] = Idle /\ stored + Cardinality(Runs) < MaxSnapshots
      /\ UNCHANGED <<live, dumps, manifest, stored, snap, restic, exportSlot, workdirs, left, spoilt>>
  BY DEF TriggerBackup, files, restic, exports
<1>2. TypeOK /\ stored \in Nat /\ items \in SUBSET Items
  BY StoredIsNat, ConstantsAssumption DEF IInv
<1>3. r \in Backup /\ r.kind = "backup" /\ r.stage = "queued" /\ r.items = items
      /\ r.todo = items \cap Dbs /\ (\A i \in Items : r.seen[i] = Absent) /\ r.named = 0
  BY <1>2, FileTyped DEF Backup
<1>4. r.met <=> Runs # {}
  OBVIOUS
<1>5. job' = [k \in Jobs |-> IF k = j THEN r ELSE IF k \in Runs THEN [job[k] EXCEPT !.met = TRUE] ELSE job[k]]
  BY DEF TriggerBackup
<1> HIDE DEF r
<1>6. \A k \in Runs : k \in Jobs /\ k # j /\ job[k] \in Backup /\ job[k].kind = "backup"
  BY <1>1, <1>2, Kinds, IdleTyped DEF Runs
<1>7. job'[j] = r /\ \A k \in Jobs \ {j} : k \notin Runs => job'[k] = job[k]
  BY <1>5
<1>8. \A k \in Runs : job'[k] = [job[k] EXCEPT !.met = TRUE]
  BY <1>5, <1>6
<1>9. \A k \in Runs : /\ job'[k] \in Backup /\ job'[k].kind = "backup" /\ job'[k].met
                     /\ job'[k].stage = job[k].stage /\ job'[k].items = job[k].items
                     /\ job'[k].todo = job[k].todo /\ job'[k].seen = job[k].seen
                     /\ job'[k].named = job[k].named
  <2> SUFFICES ASSUME NEW k \in Runs
               PROVE  /\ job'[k] \in Backup /\ job'[k].kind = "backup" /\ job'[k].met
                      /\ job'[k].stage = job[k].stage /\ job'[k].items = job[k].items
                      /\ job'[k].todo = job[k].todo /\ job'[k].seen = job[k].seen
                      /\ job'[k].named = job[k].named
    OBVIOUS
  <2>1. job[k] \in Backup /\ job'[k] = [job[k] EXCEPT !.met = TRUE]
    BY <1>6, <1>8
  <2>2. job'[k] \in Backup /\ job'[k].kind = "backup"
    BY <2>1 DEF Backup
  <2>3. /\ job'[k].stage = job[k].stage /\ job'[k].items = job[k].items /\ job'[k].todo = job[k].todo
        /\ job'[k].seen = job[k].seen /\ job'[k].named = job[k].named
    BY <2>1 DEF Backup
  <2>4. job'[k].met
    BY <2>1 DEF Backup
  <2>5. QED
    BY <2>2, <2>3, <2>4
<1>10. job' \in [Jobs -> Records]
  <2>1. \A k \in Jobs : job'[k] \in Records
    BY <1>2, <1>3, <1>7, <1>9 DEF Records, TypeOK
  <2>2. QED
    BY <1>5, <2>1
<1>11. TypeOK'
  BY <1>1, <1>2, <1>10 DEF TypeOK, Records
<1>12. Runs' = Runs \cup {j}
  BY <1>3, <1>7, <1>9 DEF Runs
<1>13. Pending' \subseteq Pending \cup {j} /\ Pending \subseteq Runs
  BY <1>7, <1>9 DEF Pending, Runs
<1>14. \A e \in Items : Loading(e)' = Loading(e) /\ Reading(e)' = Reading(e)
  <2>1. \A e \in Items : \A k \in Jobs : (k \in Loading(e))' <=> k \in Loading(e)
    BY <1>1, <1>3, <1>6, <1>7, <1>9, IdleTyped DEF Loading, At
  <2>2. \A e \in Items : \A k \in Jobs : (k \in Reading(e))' <=> k \in Reading(e)
    BY <1>1, <1>3, <1>6, <1>7, <1>9, IdleTyped DEF Reading, Runs
  <2>3. \A e \in Items : Reading(e) \subseteq Jobs /\ Loading(e) \subseteq Jobs
                       /\ Reading(e)' \subseteq Jobs /\ Loading(e)' \subseteq Jobs
    BY DEF Reading, Runs, Loading
  <2>4. QED
    BY <2>1, <2>2, <2>3
<1>15. \A k \in Jobs : (Run(k) /\ Load(k))'
  <2> TAKE k \in Jobs
  <2>1. Run(k) /\ Load(k)
    BY DEF IInv
  <2>2. CASE k = j
    <3>1. Alone(j)' \/ r.met
      <4>1. CASE Runs = {}
        BY <1>3, <1>7, <1>12, <4>1 DEF Alone, Busy, Stored
      <4>2. CASE Runs # {}
        BY <1>4, <4>2
      <4>3. QED
        BY <4>1, <4>2
    <3>2. Run(j)'
      BY <1>3, <1>7, <3>1 DEF Run, Busy
    <3>3. Load(j)'
      BY <1>3, <1>7 DEF Load, At
    <3>4. QED
      BY <2>2, <3>2, <3>3
  <2>3. CASE k \in Runs
    <3>1. Run(k)'
      BY <1>6, <1>9, <2>1, <2>3 DEF Run
    <3>2. Load(k)'
      BY <1>9, <2>3 DEF Load, At
    <3>3. QED
      BY <3>1, <3>2
  <2>4. CASE k # j /\ k \notin Runs
    <3>1. job'[k] = job[k] /\ job[k].kind # "backup"
      BY <1>7, <2>4 DEF Runs
    <3>2. QED
      BY <1>1, <2>1, <3>1 DEF Run, Load, At
  <2>5. QED
    BY <2>2, <2>3, <2>4
<1>16. Counted'
  <2>1. j \notin Runs /\ IsFiniteSet(Runs)
    BY <1>6, PendingFinite
  <2>2. IsFiniteSet(Runs \cup {j}) /\ Cardinality(Runs \cup {j}) = Cardinality(Runs) + 1
    BY <2>1, FS_AddElement
  <2>3. Pending' \subseteq Runs \cup {j}
    BY <1>13
  <2>4. Cardinality(Pending') <= Cardinality(Runs) + 1 /\ Cardinality(Pending') \in Nat
    BY <2>2, <2>3, FS_Subset, FS_CardinalityType
  <2>5. QED
    BY <1>1, <1>2, <2>4, PendingFinite, ConstantsAssumption DEF Counted
<1>17. (LiveIsWhole /\ Unread)'
  BY <1>1, <1>14 DEF IInv, LiveIsWhole, Unread
<1>18. SnapshotsHoldManifest'
  BY <1>1, SnapshotsKept
<1>19. ExportsCleanUp'
  <2>1. \A k \in Jobs : job[k].kind = "export" => job'[k] = job[k]
    BY <1>1, <1>6, <1>7, IdleTyped
  <2>2. workdirs \subseteq Jobs
    BY <1>2 DEF TypeOK
  <2>3. QED
    BY <1>1, <2>1, <2>2 DEF IInv, ExportsCleanUp
<1>20. QED
  BY <1>11, <1>15, <1>16, <1>17, <1>18, <1>19 DEF IInv

-----------------------------------------------------------------------------
(***************************************************************************)
(* Exporting.                                                              *)
(***************************************************************************)
LEMMA ExportMoves ==
    ASSUME IInv, NEW j \in Jobs, NEW r \in {Idle} \cup Export, Becomes(j, r),
           job[j].kind \in {"none", "export"}, UNCHANGED <<files, restic, spoilt>>,
           exportSlot' \in BOOLEAN, workdirs' \subseteq Jobs, UNCHANGED left,
           exportSlot' => \E k \in Jobs : job'[k].kind = "export" /\ job'[k].stage # "served",
           \A k \in workdirs' : job'[k].kind = "export"
    PROVE  IInv'
<1>1. TypeOK /\ spoilt \subseteq Items
  BY DEF IInv, TypeOK
<1>2. r \in Records /\ r.kind \in {"none", "export"}
  BY IdleTyped DEF Records, Export
<1>3. job' \in [Jobs -> Records] /\ job'[j] = r /\ \A k \in Jobs \ {j} : job'[k] = job[k]
  BY <1>1, <1>2, JobTyped
<1>4. UNCHANGED <<live, dumps, manifest, stored, snap, spoilt>>
  BY DEF files, restic
<1>5. TypeOK'
  BY <1>1, <1>3, <1>4 DEF TypeOK, Records
<1>6. (Run(j) /\ Load(j))' /\ Aside(j)
  BY <1>2, <1>3, <1>4 DEF Run, Load, At, Aside
<1>7. (\A k \in Jobs : Run(k) /\ Load(k))'
  BY <1>3, <1>4, <1>5, <1>6, JobsKept
<1>8. (j \notin Pending)'
  BY <1>2, <1>3 DEF Pending, Runs
<1>9. Counted'
  BY <1>3, <1>4, <1>8, PendingKept
<1>10. (LiveIsWhole /\ Unread)'
  <2>1. \A i \in Items : j \notin Loading(i) /\ (j \notin Loading(i))'
    BY <1>2, <1>3 DEF Loading, At
  <2>2. \A i \in Items : (j \notin Reading(i))'
    BY <1>2, <1>3 DEF Reading, Runs
  <2>3. UNCHANGED live /\ spoilt \subseteq spoilt'
    BY <1>4
  <2>4. \A k \in Jobs \ {j} : job'[k] = job[k]
    BY <1>3
  <2>5. QED
    BY <2>1, <2>2, <2>3, <2>4, ItemsKept
<1>11. SnapshotsHoldManifest'
  BY <1>4, SnapshotsKept
<1>12. ExportsCleanUp'
  BY DEF ExportsCleanUp
<1>13. QED
  BY <1>5, <1>7, <1>9, <1>10, <1>11, <1>12 DEF IInv

LEMMA ExportKnown ==
    ASSUME IInv, NEW j \in Jobs
    PROVE  /\ TypeOK /\ exportSlot \in BOOLEAN /\ workdirs \subseteq Jobs
           /\ job[j].kind = "export" => job[j] \in Export
           /\ exportSlot => \E k \in Jobs : job[k].kind = "export" /\ job[k].stage # "served"
           /\ \A k \in workdirs : job[k].kind = "export"
  BY Kinds DEF IInv, TypeOK, ExportsCleanUp

LEMMA BeginExportKeeps ==
    ASSUME IInv, NEW j \in Jobs, NEW id \in Ids, BeginExport(j, id)
    PROVE  IInv'
<1> DEFINE r == [kind |-> "export", stage |-> "work", id |-> id, found |-> FALSE]
<1>1. job[j] = Idle /\ exportSlot' = TRUE /\ workdirs' = workdirs \cup {j} /\ Becomes(j, r)
      /\ UNCHANGED <<files, restic, left, spoilt>>
  BY DEF BeginExport
<1>3. r \in Export /\ r.kind = "export" /\ r.stage = "work"
  BY DEF Export
<1> HIDE DEF r
<1>4. TypeOK /\ workdirs \subseteq Jobs /\ \A k \in workdirs : job[k].kind = "export"
  BY ExportKnown
<1>5. job'[j] = r /\ \A k \in Jobs \ {j} : job'[k] = job[k]
  BY <1>1, <1>3, <1>4, JobTyped DEF Records
<1>6. workdirs' \subseteq Jobs /\ \A k \in workdirs' : job'[k].kind = "export"
  BY <1>1, <1>3, <1>4, <1>5
<1>7. \E k \in Jobs : job'[k].kind = "export" /\ job'[k].stage # "served"
  BY <1>3, <1>5
<1>8. QED
  BY <1>1, <1>3, <1>6, <1>7, IdleTyped, ExportMoves

LEMMA FetchExportKeeps ==
    ASSUME IInv, NEW j \in Jobs, FetchExport(j)
    PROVE  IInv'
<1> DEFINE found == SourcesFound(job[j].id)
           r == [job[j] EXCEPT !.stage = "zip", !.found = found]
<1>1. job[j].kind = "export" /\ job[j].stage = "work" /\ Becomes(j, r)
      /\ UNCHANGED <<files, restic, exports, spoilt>>
  BY DEF FetchExport, At
<1>2. TypeOK /\ job[j] \in Export /\ exportSlot \in BOOLEAN /\ workdirs \subseteq Jobs
  BY <1>1, ExportKnown
<1>3. found \in BOOLEAN
  BY DEF SourcesFound
<1> HIDE DEF found
<1>4. r \in Export /\ r.kind = "export" /\ r.stage = "zip"
  BY <1>2, <1>3 DEF Export
<1> HIDE DEF r
<1>5. job'[j] = r /\ \A k \in Jobs \ {j} : job'[k] = job[k]
  BY <1>1, <1>2, <1>4, JobTyped DEF Records
<1>6. UNCHANGED <<exportSlot, workdirs, left>>
  BY <1>1 DEF exports
<1>7. \A k \in workdirs' : job'[k].kind = "export"
  BY <1>2, <1>4, <1>5, <1>6, ExportKnown
<1>8. exportSlot' => \E k \in Jobs : job'[k].kind = "export" /\ job'[k].stage # "served"
  BY <1>4, <1>5
<1>9. QED
  BY <1>1, <1>2, <1>4, <1>6, <1>7, <1>8, ExportMoves

LEMMA ZipKeeps ==
    ASSUME IInv, NEW j \in Jobs, Zip(j)
    PROVE  IInv'
<1> DEFINE r == [job[j] EXCEPT !.stage = "served"]
<1>1. job[j].kind = "export" /\ Becomes(j, r)
      /\ exportSlot' = FALSE /\ UNCHANGED <<files, restic, workdirs, left, spoilt>>
  BY DEF Zip, At, ToStage, Becomes
<1>2. TypeOK /\ job[j] \in Export /\ workdirs \subseteq Jobs
  BY <1>1, ExportKnown
<1>3. r \in Export /\ r.kind = "export"
  BY <1>2 DEF Export
<1> HIDE DEF r
<1>4. job'[j] = r /\ \A k \in Jobs \ {j} : job'[k] = job[k]
  BY <1>1, <1>2, <1>3, JobTyped DEF Records
<1>5. \A k \in workdirs' : job'[k].kind = "export"
  BY <1>1, <1>2, <1>3, <1>4, ExportKnown
<1>6. QED
  BY <1>1, <1>2, <1>3, <1>5, ExportMoves

\* An export that ends leaves no directory; the slot is free, or another has it.
LEMMA ExportEnds ==
    ASSUME IInv, NEW j \in Jobs, job[j].kind = "export", Becomes(j, Idle), workdirs' = workdirs \ {j},
           UNCHANGED <<files, restic, left, spoilt>>,
           exportSlot' = FALSE \/ (exportSlot' = exportSlot /\ job[j].stage = "served")
    PROVE  IInv'
<1>1. TypeOK /\ exportSlot \in BOOLEAN /\ workdirs \subseteq Jobs /\ \A k \in workdirs : job[k].kind = "export"
  BY ExportKnown
<1>2. job'[j] = Idle /\ \A k \in Jobs \ {j} : job'[k] = job[k]
  BY <1>1, IdleTyped, JobTyped
<1>3. exportSlot' => \E k \in Jobs : job'[k].kind = "export" /\ job'[k].stage # "served"
  <2> SUFFICES ASSUME exportSlot'
               PROVE  \E k \in Jobs : job'[k].kind = "export" /\ job'[k].stage # "served"
    OBVIOUS
  <2>1. exportSlot /\ job[j].stage = "served"
    OBVIOUS
  <2>2. PICK k \in Jobs : job[k].kind = "export" /\ job[k].stage # "served"
    BY <2>1, ExportKnown
  <2>3. QED
    BY <1>2, <2>1, <2>2
<1>4. workdirs' \subseteq Jobs /\ \A k \in workdirs' : job'[k].kind = "export"
  BY <1>1, <1>2
<1>5. exportSlot' \in BOOLEAN
  BY <1>1
<1>6. QED
  BY <1>3, <1>4, <1>5, IdleTyped, ExportMoves

LEMMA ExportFailsKeeps ==
    ASSUME IInv, NEW j \in Jobs, ExportFails(j)
    PROVE  IInv'
  BY ExportEnds DEF ExportFails, EndExport

LEMMA ServedKeeps ==
    ASSUME IInv, NEW j \in Jobs, Served(j)
    PROVE  IInv'
  BY ExportEnds DEF Served, At

-----------------------------------------------------------------------------
\* What the goroutines were loading counts as spoilt, so that what is left is whole.
LEMMA RestartKeeps ==
    ASSUME IInv, Restart
    PROVE  IInv'
<1>1. TypeOK
  BY DEF IInv
<1>2. UNCHANGED <<live, dumps, manifest, stored, snap, restic>> /\ exportSlot' = FALSE /\ workdirs' = {}
      /\ left' \in BOOLEAN /\ spoilt' = spoilt \cup {i \in Items : Loading(i) # {}}
  BY <1>1 DEF Restart, TypeOK, files, restic
<1>3. \A j \in Jobs : job'[j] = Idle
  BY DEF Restart
<1>4. job' \in [Jobs -> Records]
  BY IdleTyped DEF Restart
<1>5. TypeOK'
  BY <1>1, <1>2, <1>4 DEF TypeOK, Records
<1>6. Runs' = {} /\ Pending' = {} /\ \A i \in Items : Reading(i)' = {} /\ Loading(i)' = {}
  BY <1>3, IdleTyped DEF Runs, Pending, Reading, Loading, At
<1>7. (\A j \in Jobs : Run(j) /\ Load(j))'
  BY <1>3, IdleTyped DEF Run, Load, At
<1>8. Counted'
  <2>1. Pending' \subseteq Pending
    BY <1>6
  <2>2. QED
    BY <1>1, <1>2, <2>1, CountedKept DEF IInv
<1>9. (LiveIsWhole /\ Unread)'
  BY <1>2, <1>6 DEF IInv, LiveIsWhole, Unread
<1>10. SnapshotsHoldManifest'
  BY <1>2, SnapshotsKept
<1>11. ExportsCleanUp'
  BY <1>2 DEF ExportsCleanUp
<1>12. QED
  BY <1>5, <1>7, <1>8, <1>9, <1>10, <1>11 DEF IInv

LEMMA StutterKeeps ==
    ASSUME IInv, UNCHANGED vars
    PROVE  IInv'
<1>1. UNCHANGED <<live, dumps, manifest, stored, snap, job, exportSlot, workdirs, left, spoilt>>
  BY DEF vars
<1>2. Runs' = Runs /\ Pending' = Pending /\ repo' = repo
      /\ \A i \in Items : Reading(i)' = Reading(i) /\ Loading(i)' = Loading(i)
  BY <1>1 DEF Runs, Pending, repo, Reading, Loading, At
<1>3. TypeOK' /\ Counted' /\ ExportsCleanUp'
  BY <1>1, <1>2 DEF IInv, TypeOK, Counted, ExportsCleanUp
<1>4. (LiveIsWhole /\ Unread /\ SnapshotsHoldManifest)'
  BY <1>1, <1>2 DEF IInv, LiveIsWhole, Unread, SnapshotsHoldManifest
<1>5. \A j \in Jobs : Alone(j) => Alone(j)'
  BY <1>1, <1>2 DEF Alone, Dumps, UnderWay, Seen, Newest, Other, PathSet
<1>6. (\A j \in Jobs : Run(j) /\ Load(j))'
  BY <1>1, <1>5 DEF IInv, Run, Load, At
<1>7. QED
  BY <1>3, <1>4, <1>6 DEF IInv

LEMMA NextIInv == IInv /\ [Next]_vars => IInv'
<1> SUFFICES ASSUME IInv, [Next]_vars PROVE IInv'
  OBVIOUS
<1>1. CASE UNCHANGED vars
  BY <1>1, StutterKeeps
<1>2. CASE Restart
  BY <1>2, RestartKeeps
<1>3. ASSUME NEW j \in Jobs, NEW items \in Selections, TriggerBackup(j, items) PROVE IInv'
  BY <1>3, TriggerBackupKeeps
<1>4. ASSUME NEW j \in Jobs, NEW id \in Ids, NEW i \in Restored, TriggerRestore(j, i, id) PROVE IInv'
  BY <1>4, TriggerRestoreKeeps
<1>5. ASSUME NEW j \in Jobs, NEW id \in Ids, TriggerDelete(j, id) \/ BeginExport(j, id) PROVE IInv'
  BY <1>5, TriggerDeleteKeeps, BeginExportKeeps
<1>6. ASSUME NEW j \in Jobs, AcquireWorker(j) \/ Finish(j) \/ CommandFails(j) PROVE IInv'
  BY <1>6, AcquireWorkerKeeps, FinishKeeps, CommandFailsKeeps
<1>7. ASSUME NEW j \in Jobs, CleanDumps(j) \/ (\E d \in Dbs : BeginDump(j, d)) \/ EndDump(j) \/ WriteManifest(j)
      PROVE  IInv'
  BY <1>7, CleanDumpsKeeps, BeginDumpKeeps, EndDumpKeeps, WriteManifestKeeps
<1>8. ASSUME NEW j \in Jobs, BeginBackup(j) \/ EndBackup(j) \/ EndBackupFails(j) \/ Forget(j) \/ NameSnapshot(j)
      PROVE  IInv'
  BY <1>8, BeginBackupKeeps, EndBackupKeeps, EndBackupFailsKeeps, ForgetKeeps, NameSnapshotKeeps
<1>9. ASSUME NEW j \in Jobs, Fetch(j) \/ BeginLoad(j) \/ EndLoad(j) \/ LoadFails(j) \/ DeleteSnapshot(j)
      PROVE  IInv'
  BY <1>9, FetchKeeps, BeginLoadKeeps, EndLoadKeeps, LoadFailsKeeps, DeleteSnapshotKeeps
<1>10. ASSUME NEW j \in Jobs, FetchExport(j) \/ Zip(j) \/ ExportFails(j) \/ Served(j) PROVE IInv'
  BY <1>10, FetchExportKeeps, ZipKeeps, ExportFailsKeeps, ServedKeeps
<1>11. QED
  BY <1>1, <1>2, <1>3, <1>4, <1>5, <1>6, <1>7, <1>8, <1>9, <1>10 DEF Next

LEMMA Inductive == Spec => []IInv
  BY InitIInv, NextIInv, PTL DEF Spec
-----------------------------------------------------------------------------
\* The records are of their kinds, with the fields each stage needs, whatever jobs begin
\* and end in between.
THEOREM TypeCorrect == Spec => []TypeOK
<1>1. IInv => TypeOK
  BY DEF IInv
<1>2. QED
  BY <1>1, Inductive, PTL

\* Backups and restores of any number, with failures, deletions and restarts in between,
\* leave no snapshot that lacks what its manifest lists, or holds a dump besides: not even
\* a snapshot restic has stored in a run that fails, but for the sites it could not read.
THEOREM ManifestsAreTrue == Spec => []SnapshotsHoldManifest
<1>1. IInv => SnapshotsHoldManifest
  BY DEF IInv
<1>2. QED
  BY <1>1, Inductive, PTL

\* Retention never takes the snapshot of the run that asks for it, whatever it keeps: it is
\* the newest there is until the run ends.  So the latest one of its paths is no other.
THEOREM SuccessIsStored == Spec => []SuccessHasSnapshot
<1>1. IInv => SuccessHasSnapshot
  <2> SUFFICES ASSUME IInv, NEW j \in Jobs, At(j, "backup", "success"), ~job[j].met, ~job[j].lost
               PROVE  /\ job[j].own \in repo /\ snap[job[j].own].unread = {}
                      /\ Other(job[j].named, job[j].own)
    BY DEF SuccessHasSnapshot, Other
  <2>1. Alone(j) /\ job[j].stage = "success"
    BY RunKnown DEF At
  <2>2. QED
    BY <2>1 DEF Alone, Stored, Newest
<1>2. QED
  BY <1>1, Inductive, PTL

\* Nothing but a loading touches the live data, and what a loading that reports success puts
\* there is whole, since the snapshot it comes from was.
THEOREM LiveStaysWhole == Spec => []LiveIsWhole
<1>1. IInv => LiveIsWhole
  BY DEF IInv
<1>2. QED
  BY <1>1, Inductive, PTL

\* However exports end but by a stop of the panel, the slot and the directories go with them.
THEOREM NothingIsLeft == Spec => []ExportsCleanUp
<1>1. IInv => ExportsCleanUp
  BY DEF IInv
<1>2. QED
  BY <1>1, Inductive, PTL
=============================================================================
