-------------------------- MODULE AgentConfig_proofs --------------------------
(***************************************************************************)
(* Proofs about AgentConfig, for any number of connections and any bounds  *)
(* on calls and failures: the update of the programs, then SSH, then the   *)
(* firewall, each with an invariant of its own that the other two leave    *)
(* alone.                                                                  *)
(***************************************************************************)
EXTENDS AgentConfig, FiniteSetTheorems, TLAPS

Absent == Update!Absent
Old == Update!Old
New == Update!New
Binaries == Update!Names

\* Both programs run, and are installed, in one version.
Match == \A p \in Binaries : runs[p] = runs["panel"] /\ dest[p] = runs["panel"]
Aligned == (~astray /\ runs["panel"] # Absent) => Match

\* Neither of the two files is torn, and one of them is there.
Whole ==
    /\ \A p \in Binaries : {dest[p], bak[p]} \subseteq {Absent, Old, New}
    /\ \A p \in Binaries : dest[p] # Absent \/ bak[p] # Absent

Replacing == {"backup", "install", "restore", "drop"}

\* How far an update has got: the downloads are complete before the panel stops, the
\* panel is replaced before the agent, and starts when both are.
Progress(s) ==
    LET stage == upJob[s].stage IN
    /\ stage = "fetch" => \A p \in Binaries : tmp[p] \in {New, Absent}
    /\ stage = "fetching" => \A p \in Binaries : tmp[p] \in {New, Absent, Update!Part(s)}
    /\ stage \in {"stop", "start", "restart"} \cup Replacing =>
         \A p \in Binaries : tmp[p] \in {New, Absent}
    /\ stage = "stop" => upJob[s].program = 1
    /\ stage = "drop" => dest[Update!Program(s)] = New
    /\ stage \in Replacing /\ upJob[s].program = 2 => dest["panel"] = New
    /\ stage \in {"start", "restart"} => \A p \in Binaries : dest[p] = New
    /\ stage \in {"start"} \cup Replacing /\ ~astray => runs["panel"] = Absent
    /\ stage = "restart" /\ ~astray => runs["panel"] \in {Absent, New}
    /\ stage \in {"deps", "clear", "fetch", "fetching", "stop"} => Aligned

Sound ==
    /\ \A s, t \in Slots : upJob[s] # Idle /\ upJob[t] # Idle => s = t
    /\ Whole
    /\ \A s \in Slots : Progress(s)
    /\ (\A s \in Slots : upJob[s] = Idle) => Aligned

IInv == Update!UpTypeOK /\ (~upLapped => Sound)
-----------------------------------------------------------------------------
LEMMA IdleIsIdle == Update!Idle = Idle
  BY DEF Update!Idle, Idle

LEMMA NamesAre == Binaries = {"panel", "agent"}
  BY DEF Binaries, Update!Names, Update!Programs

LEMMA Differ ==
    /\ Absent # Old /\ Absent # New /\ Old # New
    /\ Update!Torn \notin {Absent, Old, New}
    /\ \A s : Update!Part(s) \notin {Absent, Old, New, Update!Torn}
  BY DEF Absent, Old, New, Update!Absent, Update!Old, Update!New, Update!Torn, Update!Part

LEMMA ContentsAre ==
    /\ {Absent, Old, New, Update!Torn} \subseteq Update!Contents
    /\ \A s \in Slots : Update!Part(s) \in Update!Contents
  BY DEF Absent, Old, New, Update!Contents

Job == [stage : Update!UpStages, program : {1, 2}]

LEMMA ProgramsAre == DOMAIN Update!Programs = {1, 2} /\ Len(Update!Programs) = 2
  BY DEF Update!Programs

\* The types, with the short names.
LEMMA Types ==
    Update!UpTypeOK <=>
        /\ dest \in [Binaries -> Update!Contents] /\ bak \in [Binaries -> Update!Contents]
        /\ tmp \in [Binaries -> Update!Contents]
        /\ runs \in [Binaries -> {Absent, Old, New}]
        /\ upJob \in [Slots -> {Idle} \cup Job]
        /\ upLapped \in BOOLEAN /\ astray \in BOOLEAN
  BY IdleIsIdle, ProgramsAre DEF Update!UpTypeOK, Job, Binaries, Absent, Old, New

LEMMA TypesNext ==
    (Update!UpTypeOK)' <=>
        /\ dest' \in [Binaries -> Update!Contents] /\ bak' \in [Binaries -> Update!Contents]
        /\ tmp' \in [Binaries -> Update!Contents]
        /\ runs' \in [Binaries -> {Absent, Old, New}]
        /\ upJob' \in [Slots -> {Idle} \cup Job]
        /\ upLapped' \in BOOLEAN /\ astray' \in BOOLEAN
  BY IdleIsIdle, ProgramsAre DEF Update!UpTypeOK, Job, Binaries, Absent, Old, New

LEMMA Jobs ==
    ASSUME Update!UpTypeOK, NEW s \in Slots
    PROVE  /\ upJob[s] = Idle <=> upJob[s].stage = "idle"
           /\ upJob[s] # Idle => upJob[s] \in Job
<1>1. upJob[s] \in {Idle} \cup Job
  BY Types
<1>2. \A j \in Job : j.stage # "idle"
  BY DEF Job, Update!UpStages
<1>3. Idle.stage = "idle"
  BY DEF Idle
<1>4. QED
  BY <1>1, <1>2, <1>3

LEMMA ProgramNamed ==
    ASSUME Update!UpTypeOK, NEW s \in Slots, upJob[s] # Idle
    PROVE  /\ Update!Program(s) \in Binaries
           /\ upJob[s].program = 1 => Update!Program(s) = "panel"
           /\ upJob[s].program = 2 => Update!Program(s) = "agent"
<1>1. upJob[s].program \in {1, 2}
  <2>1. upJob[s] \in Job
    BY Jobs
  <2>2. QED
    BY <2>1 DEF Job
<1>2. Update!Programs[1] = "panel" /\ Update!Programs[2] = "agent"
  BY DEF Update!Programs
<1>3. QED
  BY <1>1, <1>2, NamesAre DEF Update!Program

LEMMA InitIInv == Init => IInv
<1> SUFFICES ASSUME Init PROVE IInv
  OBVIOUS
<1>1. /\ dest = [p \in Binaries |-> Old] /\ bak = [p \in Binaries |-> Absent]
      /\ tmp = [p \in Binaries |-> Absent] /\ runs = dest
      /\ upJob = [s \in Slots |-> Idle] /\ upLapped = FALSE /\ astray = FALSE
  BY IdleIsIdle DEF Init, Update!UpInit, Binaries, Old, Absent
<1>2. Update!UpTypeOK
  BY <1>1, Types, ContentsAre
<1>3. Whole
  BY <1>1, Differ DEF Whole
<1>4. Aligned
  BY <1>1, NamesAre DEF Aligned, Match
<1>5. \A s \in Slots : Progress(s)
  BY <1>1 DEF Progress, Replacing, Idle
<1>6. QED
  BY <1>1, <1>2, <1>3, <1>4, <1>5 DEF IInv, Sound
-----------------------------------------------------------------------------
(***************************************************************************)
(* The jobs after a step of one.                                           *)
(***************************************************************************)
Moves(s) ==
    /\ upJob' \in [Slots -> {Idle} \cup Job]
    /\ \A t \in Slots \ {s} : upJob'[t] = upJob[t]

LEMMA JobGoes ==
    ASSUME Update!UpTypeOK, NEW s \in Slots, NEW record \in {Idle} \cup Job,
           Update!UpGoes(s, record)
    PROVE  Moves(s) /\ upJob'[s] = record
  BY Types DEF Update!UpGoes, Moves

LEMMA GoesOnto ==
    ASSUME Update!UpTypeOK, NEW s \in Slots, upJob[s] # Idle, NEW stage \in Update!UpStages,
           Update!Onto(s, stage)
    PROVE  /\ Moves(s) /\ upJob'[s] \in Job
           /\ upJob'[s].stage = stage /\ upJob'[s].program = upJob[s].program
<1> DEFINE record == [upJob[s] EXCEPT !.stage = stage]
<1>1. upJob[s] \in Job
  BY Jobs
<1>2. record \in Job /\ record.stage = stage /\ record.program = upJob[s].program
  BY <1>1 DEF Job
<1>3. Update!UpGoes(s, record)
  BY DEF Update!Onto
<1>4. QED
  BY <1>2, <1>3, JobGoes

LEMMA GoesFurther ==
    ASSUME Update!UpTypeOK, NEW s \in Slots, upJob[s] # Idle,
           NEW again \in Update!UpStages, NEW on \in Update!UpStages,
           Update!Further(s, again, on)
    PROVE  /\ Moves(s) /\ upJob'[s] \in Job
           /\ upJob[s].program = 1 => upJob'[s].stage = again /\ upJob'[s].program = 2
           /\ upJob[s].program = 2 => upJob'[s].stage = on /\ upJob'[s].program = 1
           /\ upJob[s].program \in {1, 2}
<1> DEFINE record == IF upJob[s].program = 2 THEN [stage |-> on, program |-> 1]
                     ELSE [stage |-> again, program |-> upJob[s].program + 1]
<1>1. upJob[s] \in Job
  BY Jobs
<1>2. upJob[s].program \in {1, 2}
  BY <1>1 DEF Job
<1>3. record \in Job
  BY <1>2 DEF Job
<1>4. Update!UpGoes(s, record)
  BY ProgramsAre DEF Update!Further
<1>5. Moves(s) /\ upJob'[s] = record
  BY <1>3, <1>4, JobGoes
<1>6. QED
  BY <1>2, <1>3, <1>5

\* The one update goes on.
LEMMA SoundOn ==
    ASSUME Update!UpTypeOK, Sound, NEW s \in Slots, upJob[s] # Idle,
           Moves(s), upJob'[s] # Idle, Whole', Progress(s)'
    PROVE  Sound'
<1>1. \A t \in Slots \ {s} : upJob'[t] = Idle
  BY DEF Sound, Moves
<1>2. ASSUME NEW t \in Slots, t # s PROVE Progress(t)'
  <2>1. upJob'[t].stage = "idle"
    BY <1>1, <1>2 DEF Idle
  <2>2. QED
    BY <2>1 DEF Progress, Replacing
<1>3. QED
  BY <1>1, <1>2 DEF Sound

\* The one update ends.
LEMMA SoundHome ==
    ASSUME Update!UpTypeOK, Sound, NEW s \in Slots, upJob[s] # Idle,
           Moves(s), upJob'[s] = Idle, Whole', Aligned'
    PROVE  Sound'
<1>1. \A t \in Slots : upJob'[t] = Idle
  BY DEF Sound, Moves
<1>2. ASSUME NEW t \in Slots PROVE Progress(t)'
  <2>1. upJob'[t].stage = "idle"
    BY <1>1 DEF Idle
  <2>2. QED
    BY <2>1 DEF Progress, Replacing
<1>3. QED
  BY <1>1, <1>2 DEF Sound

\* A file that is written by nobody, or by a handler that has been cut.
LEMMA CutTyped ==
    ASSUME NEW file \in [Binaries -> Update!Contents], NEW slots
    PROVE  /\ Update!Cut(file, slots) \in [Binaries -> Update!Contents]
           /\ \A p \in Binaries : file[p] \in {Absent, Old, New} =>
                Update!Cut(file, slots)[p] = file[p]
<1>1. ASSUME NEW p \in Binaries, file[p] \in {Absent, Old, New}
      PROVE  file[p] \notin {Update!Part(s) : s \in slots}
  BY <1>1, Differ
<1>2. QED
  BY <1>1, ContentsAre DEF Update!Cut, Binaries

LEMMA WholeFiles ==
    ASSUME Whole, NEW p \in Binaries
    PROVE  dest[p] \in {Absent, Old, New} /\ bak[p] \in {Absent, Old, New}
  BY DEF Whole
-----------------------------------------------------------------------------
(***************************************************************************)
(* Up to the downloads.                                                    *)
(***************************************************************************)
LEMMA SystemUpdateKeeps ==
    ASSUME IInv, NEW s \in Slots, upJob[s] = Idle, Update!SystemUpdate(s) PROVE IInv'
<1> DEFINE record == [stage |-> "deps", program |-> 1]
<1>1. /\ Update!UpTypeOK /\ Update!UpGoes(s, record)
      /\ upLapped' = (upLapped \/ ~Update!UpQuiet)
      /\ UNCHANGED <<dest, bak, tmp, runs, astray>>
  BY DEF IInv, Update!SystemUpdate
<1>2. record \in Job
  BY DEF Job, Update!UpStages
<1>3. Moves(s) /\ upJob'[s] = record
  BY <1>1, <1>2, JobGoes
<1>4. Update!UpTypeOK'
  <2>1. upLapped' \in BOOLEAN
    BY <1>1
  <2>2. QED
    BY <1>1, <1>3, <2>1, Types, TypesNext DEF Moves
<1>5. ASSUME ~upLapped' PROVE Sound'
  <2>1. ~upLapped /\ \A t \in Slots : upJob[t] = Idle
    BY <1>1, <1>5, IdleIsIdle DEF Update!UpQuiet
  <2>2. Whole /\ Aligned
    BY <2>1 DEF IInv, Sound
  <2>3. Whole' /\ Aligned'
    BY <1>1, <2>2 DEF Whole, Aligned, Match
  <2>4. \A t \in Slots \ {s} : upJob'[t] = Idle
    BY <1>3, <2>1 DEF Moves
  <2>5. \A t \in Slots : Progress(t)'
    BY <1>3, <2>3, <2>4 DEF Progress, Replacing, Idle
  <2>6. upJob'[s] # Idle
    BY <1>3 DEF Idle
  <2>7. QED
    BY <2>3, <2>4, <2>5, <2>6 DEF Sound
<1>6. QED
  BY <1>4, <1>5 DEF IInv

\* The types after a step that changes none of the files.
LEMMA SameFiles ==
    ASSUME Update!UpTypeOK, NEW s \in Slots, Moves(s), UNCHANGED <<dest, bak, upLapped>>,
           astray' \in BOOLEAN, tmp' \in [Binaries -> Update!Contents],
           runs' \in [Binaries -> {Absent, Old, New}]
    PROVE  (Update!UpTypeOK)' /\ (Whole => Whole')
<1>1. (Update!UpTypeOK)'
  BY Types, TypesNext DEF Moves
<1>2. Whole => Whole'
  BY DEF Whole
<1>3. QED
  BY <1>1, <1>2

LEMMA InstallDependenciesKeeps ==
    ASSUME IInv, NEW s \in Slots, Update!InstallDependencies(s) PROVE IInv'
<1>1. /\ Update!UpTypeOK /\ upJob[s].stage = "deps"
      /\ Update!Onto(s, "clear") \/ Update!UpGoes(s, Idle)
      /\ UNCHANGED <<dest, bak, tmp, runs, upLapped, astray>>
  BY IdleIsIdle DEF IInv, Update!InstallDependencies, Update!UpAt
<1>2. upJob[s] # Idle
  BY <1>1 DEF Idle
<1>3. Moves(s) /\ (upJob'[s] = Idle \/ (upJob'[s] \in Job /\ upJob'[s].stage = "clear"))
  BY <1>1, <1>2, JobGoes, GoesOnto DEF Update!UpStages
<1>4. (Update!UpTypeOK)' /\ (Whole => Whole')
  BY <1>1, <1>3, Types, SameFiles
<1>5. ASSUME ~upLapped PROVE Sound'
  <2>1. Sound /\ Whole /\ Aligned
    BY <1>1, <1>5 DEF IInv, Sound, Progress
  <2>2. Whole' /\ Aligned'
    BY <1>1, <1>4, <2>1 DEF Aligned, Match
  <2>3. CASE upJob'[s] = Idle
    BY <1>1, <1>2, <1>3, <2>1, <2>2, <2>3, SoundHome
  <2>4. CASE upJob'[s] \in Job /\ upJob'[s].stage = "clear"
    <3>1. Progress(s)'
      BY <2>2, <2>4 DEF Progress, Replacing
    <3>2. upJob'[s] # Idle
      BY <2>4 DEF Idle
    <3>3. QED
      BY <1>1, <1>2, <1>3, <2>1, <2>2, <3>1, <3>2, SoundOn
  <2>5. QED
    BY <1>3, <2>3, <2>4
<1>6. QED
  BY <1>1, <1>4, <1>5 DEF IInv

LEMMA ClearDownloadsKeeps ==
    ASSUME IInv, NEW s \in Slots, Update!ClearDownloads(s) PROVE IInv'
<1>1. /\ Update!UpTypeOK /\ upJob[s].stage = "clear" /\ Update!Onto(s, "fetch")
      /\ tmp' = [p \in Binaries |-> Absent]
      /\ UNCHANGED <<dest, bak, runs, upLapped, astray>>
  BY DEF IInv, Update!ClearDownloads, Update!UpAt, Update!NoFiles, Binaries, Absent
<1>2. upJob[s] # Idle
  BY <1>1 DEF Idle
<1>3. Moves(s) /\ upJob'[s] \in Job /\ upJob'[s].stage = "fetch"
  BY <1>1, <1>2, GoesOnto DEF Update!UpStages
<1>4. (Update!UpTypeOK)' /\ (Whole => Whole')
  BY <1>1, <1>3, Types, ContentsAre, SameFiles
<1>5. ASSUME ~upLapped PROVE Sound'
  <2>1. Sound /\ Whole /\ Aligned
    BY <1>1, <1>5 DEF IInv, Sound, Progress
  <2>2. Whole' /\ Aligned'
    BY <1>1, <1>4, <2>1 DEF Aligned, Match
  <2>3. Progress(s)'
    BY <1>1, <1>3, <2>2 DEF Progress, Replacing
  <2>4. upJob'[s] # Idle
    BY <1>3 DEF Idle
  <2>5. QED
    BY <1>1, <1>2, <1>3, <2>1, <2>2, <2>3, <2>4, SoundOn
<1>6. QED
  BY <1>1, <1>4, <1>5 DEF IInv

LEMMA FetchKeeps ==
    ASSUME IInv, NEW s \in Slots, Update!Fetch(s) PROVE IInv'
<1> DEFINE program == Update!Program(s)
<1>1. /\ Update!UpTypeOK /\ upJob[s].stage = "fetch" /\ Update!Onto(s, "fetching")
      /\ tmp' = [tmp EXCEPT ![program] = Update!Part(s)]
      /\ UNCHANGED <<dest, bak, runs, upLapped, astray>>
  BY DEF IInv, Update!Fetch, Update!UpAt, Update!Put
<1>2. upJob[s] # Idle
  BY <1>1 DEF Idle
<1>3. Moves(s) /\ upJob'[s] \in Job /\ upJob'[s].stage = "fetching"
  BY <1>1, <1>2, GoesOnto DEF Update!UpStages
<1>4. (Update!UpTypeOK)' /\ (Whole => Whole')
  BY <1>1, <1>2, <1>3, Types, ContentsAre, SameFiles
<1>5. ASSUME ~upLapped PROVE Sound'
  <2>1. Sound /\ Whole /\ Aligned /\ \A p \in Binaries : tmp[p] \in {New, Absent}
    BY <1>1, <1>5 DEF IInv, Sound, Progress
  <2>2. Whole' /\ Aligned'
    BY <1>1, <1>4, <2>1 DEF Aligned, Match
  <2>3. \A p \in Binaries : tmp'[p] \in {New, Absent, Update!Part(s)}
    BY <1>1, <2>1, Types
  <2>4. Progress(s)'
    BY <1>3, <2>2, <2>3 DEF Progress, Replacing, Update!Part
  <2>5. upJob'[s] # Idle
    BY <1>3 DEF Idle
  <2>6. QED
    BY <1>1, <1>2, <1>3, <2>1, <2>2, <2>4, <2>5, SoundOn
<1>6. QED
  BY <1>1, <1>4, <1>5 DEF IInv

LEMMA FetchedKeeps ==
    ASSUME IInv, NEW s \in Slots, Update!Fetched(s) PROVE IInv'
<1> DEFINE whole(file) == [p \in Binaries |-> IF file[p] = Update!Part(s) THEN New ELSE file[p]]
<1>1. /\ Update!UpTypeOK /\ upJob[s].stage = "fetching" /\ Update!Further(s, "fetch", "stop")
      /\ tmp' = whole(tmp) /\ dest' = whole(dest) /\ bak' = whole(bak)
      /\ UNCHANGED <<runs, upLapped, astray>>
  BY DEF IInv, Update!Fetched, Update!UpAt, Binaries, New
<1>2. upJob[s] # Idle
  BY <1>1 DEF Idle
<1>3. /\ Moves(s) /\ upJob'[s] \in Job /\ upJob'[s].stage \in {"fetch", "stop"}
      /\ upJob'[s].stage = "stop" => upJob'[s].program = 1
  BY <1>1, <1>2, GoesFurther DEF Update!UpStages
<1>4. (Update!UpTypeOK)'
  BY <1>1, <1>3, Types, TypesNext, ContentsAre DEF Moves
<1>5. ASSUME ~upLapped PROVE Sound'
  <2>1. /\ Sound /\ Whole /\ Aligned
        /\ \A p \in Binaries : tmp[p] \in {New, Absent, Update!Part(s)}
    BY <1>1, <1>5 DEF IInv, Sound, Progress
  <2>2. \A p \in Binaries : dest'[p] = dest[p] /\ bak'[p] = bak[p]
    BY <1>1, <2>1, WholeFiles, Differ
  <2>3. Whole' /\ Aligned'
    BY <1>1, <2>1, <2>2 DEF Whole, Aligned, Match
  <2>4. \A p \in Binaries : tmp'[p] \in {New, Absent}
    BY <1>1, <2>1
  <2>5. Progress(s)'
    BY <1>3, <2>3, <2>4 DEF Progress, Replacing
  <2>6. upJob'[s] # Idle
    BY <1>3 DEF Idle
  <2>7. QED
    BY <1>1, <1>2, <1>3, <2>1, <2>3, <2>5, <2>6, SoundOn
<1>6. QED
  BY <1>1, <1>4, <1>5 DEF IInv

LEMMA FetchFailsKeeps ==
    ASSUME IInv, NEW s \in Slots, Update!FetchFails(s) PROVE IInv'
<1>1. /\ Update!UpTypeOK /\ upJob[s].stage = "fetching" /\ Update!UpGoes(s, Idle)
      /\ tmp' = [p \in Binaries |-> Absent]
      /\ dest' = Update!Cut(dest, {s}) /\ bak' = Update!Cut(bak, {s})
      /\ UNCHANGED <<runs, upLapped, astray>>
  BY IdleIsIdle DEF IInv, Update!FetchFails, Update!UpAt, Update!NoFiles, Binaries, Absent
<1>2. upJob[s] # Idle
  BY <1>1 DEF Idle
<1>3. Moves(s) /\ upJob'[s] = Idle
  BY <1>1, JobGoes
<1>4. (Update!UpTypeOK)'
  BY <1>1, <1>3, Types, TypesNext, ContentsAre, CutTyped DEF Moves
<1>5. ASSUME ~upLapped PROVE Sound'
  <2>1. Sound /\ Whole /\ Aligned
    BY <1>1, <1>5 DEF IInv, Sound, Progress
  <2>2. \A p \in Binaries : dest'[p] = dest[p] /\ bak'[p] = bak[p]
    BY <1>1, <2>1, WholeFiles, Types, CutTyped
  <2>3. Whole' /\ Aligned'
    BY <1>1, <2>1, <2>2 DEF Whole, Aligned, Match
  <2>4. QED
    BY <1>1, <1>2, <1>3, <2>1, <2>3, SoundHome
<1>6. QED
  BY <1>1, <1>4, <1>5 DEF IInv
-----------------------------------------------------------------------------
(***************************************************************************)
(* From the stop of the panel on.                                          *)
(***************************************************************************)
LEMMA StopPanelKeeps ==
    ASSUME IInv, NEW s \in Slots, Update!StopPanel(s) PROVE IInv'
<1>1. /\ Update!UpTypeOK /\ upJob[s].stage = "stop" /\ Update!Onto(s, "backup")
      /\ \/ runs' = [runs EXCEPT !["panel"] = Absent] /\ astray' = FALSE
         \/ astray' = TRUE /\ UNCHANGED runs
      /\ UNCHANGED <<dest, bak, tmp, upLapped>>
  BY DEF IInv, Update!StopPanel, Update!UpAt, Update!Put, Absent
<1>2. upJob[s] # Idle
  BY <1>1 DEF Idle
<1>3. /\ Moves(s) /\ upJob'[s] \in Job /\ upJob'[s].stage = "backup"
      /\ upJob'[s].program = upJob[s].program
  BY <1>1, <1>2, GoesOnto DEF Update!UpStages
<1>4. runs' \in [Binaries -> {Absent, Old, New}] /\ astray' \in BOOLEAN
  BY <1>1, Types
<1>5. (Update!UpTypeOK)' /\ (Whole => Whole')
  BY <1>1, <1>3, <1>4, Types, SameFiles
<1>6. ASSUME ~upLapped PROVE Sound'
  <2>1. /\ Sound /\ Whole /\ upJob[s].program = 1
        /\ \A p \in Binaries : tmp[p] \in {New, Absent}
    BY <1>1, <1>6 DEF IInv, Sound, Progress
  <2>2. ~astray' => runs'["panel"] = Absent
    BY <1>1, Types, NamesAre
  <2>3. Progress(s)'
    BY <1>1, <1>3, <2>1, <2>2 DEF Progress, Replacing
  <2>4. upJob'[s] # Idle
    BY <1>3 DEF Idle
  <2>5. QED
    BY <1>1, <1>2, <1>3, <1>5, <2>1, <2>3, <2>4, SoundOn
<1>7. QED
  BY <1>1, <1>5, <1>6 DEF IInv

\* What a rename makes of its two files.
LEMMA Moved ==
    ASSUME NEW from \in [Binaries -> Update!Contents], NEW to \in [Binaries -> Update!Contents],
           NEW p \in Binaries
    PROVE  LET moved == Update!Renamed(from, to, p)
           IN  /\ moved.from \in [Binaries -> Update!Contents]
               /\ moved.to \in [Binaries -> Update!Contents]
               /\ \A q \in Binaries \ {p} : moved.from[q] = from[q] /\ moved.to[q] = to[q]
               /\ from[p] = Absent => moved.from[p] = Absent /\ moved.to[p] = to[p]
               /\ from[p] # Absent => moved.from[p] = Absent /\ moved.to[p] = from[p]
<1>1. CASE from[p] = Absent
  <2>1. Update!Renamed(from, to, p) = [from |-> from, to |-> to]
    BY <1>1 DEF Update!Renamed, Absent
  <2>2. QED
    BY <1>1, <2>1
<1>2. CASE from[p] # Absent
  <2> DEFINE f == [from EXCEPT ![p] = Absent]
             t == [to EXCEPT ![p] = from[p]]
  <2>1. Update!Renamed(from, to, p) = [from |-> f, to |-> t]
    BY <1>2 DEF Update!Renamed, Update!Put, Absent
  <2>2. /\ f \in [Binaries -> Update!Contents] /\ t \in [Binaries -> Update!Contents]
        /\ \A q \in Binaries \ {p} : f[q] = from[q] /\ t[q] = to[q]
        /\ f[p] = Absent /\ t[p] = from[p]
    BY ContentsAre
  <2> HIDE DEF f, t
  <2>3. QED
    BY <1>2, <2>1, <2>2
<1>3. QED
  BY <1>1, <1>2

LEMMA BackUpKeeps ==
    ASSUME IInv, NEW s \in Slots, Update!BackUp(s) PROVE IInv'
<1> DEFINE p == Update!Program(s)
           moved == Update!Renamed(dest, bak, p)
<1>1. /\ Update!UpTypeOK /\ upJob[s].stage = "backup" /\ Update!Onto(s, "install")
      /\ (dest' = moved.from /\ bak' = moved.to) \/ UNCHANGED <<dest, bak>>
      /\ UNCHANGED <<tmp, runs, upLapped, astray>>
  BY DEF IInv, Update!BackUp, Update!UpAt
<1>2. upJob[s] # Idle
  BY <1>1 DEF Idle
<1>3. /\ Moves(s) /\ upJob'[s] \in Job /\ upJob'[s].stage = "install"
      /\ upJob'[s].program = upJob[s].program
  BY <1>1, <1>2, GoesOnto DEF Update!UpStages
<1>4. p \in Binaries /\ (upJob[s].program = 2 => p = "agent")
  BY <1>1, <1>2, ProgramNamed
<1>5. /\ dest' \in [Binaries -> Update!Contents] /\ bak' \in [Binaries -> Update!Contents]
      /\ \A q \in Binaries :
           \/ (dest'[q] = dest[q] /\ bak'[q] = bak[q])
           \/ (q = p /\ dest[q] # Absent /\ dest'[q] = Absent /\ bak'[q] = dest[q])
  BY <1>1, <1>4, Types, Moved
<1>6. (Update!UpTypeOK)'
  BY <1>1, <1>3, <1>5, Types, TypesNext DEF Moves
<1>7. ASSUME ~upLapped PROVE Sound'
  <2>1. /\ Sound /\ Whole /\ \A q \in Binaries : tmp[q] \in {New, Absent}
        /\ upJob[s].program = 2 => dest["panel"] = New
        /\ ~astray => runs["panel"] = Absent
    BY <1>1, <1>7 DEF IInv, Sound, Progress, Replacing
  <2>2. Whole'
    BY <1>5, <2>1 DEF Whole
  <2>3. upJob[s].program = 2 => dest'["panel"] = New
    BY <1>4, <1>5, <2>1, NamesAre
  <2>4. Progress(s)'
    BY <1>1, <1>3, <2>1, <2>3 DEF Progress, Replacing
  <2>5. upJob'[s] # Idle
    BY <1>3 DEF Idle
  <2>6. QED
    BY <1>1, <1>2, <1>3, <2>1, <2>2, <2>4, <2>5, SoundOn
<1>8. QED
  BY <1>1, <1>6, <1>7 DEF IInv

LEMMA InstallKeeps ==
    ASSUME IInv, NEW s \in Slots, Update!Install(s) PROVE IInv'
<1> DEFINE p == Update!Program(s)
           moved == Update!Renamed(tmp, dest, p)
<1>1. /\ Update!UpTypeOK /\ upJob[s].stage = "install"
      /\ UNCHANGED <<bak, runs, upLapped, astray>>
      /\ \/ /\ tmp[p] # Absent /\ tmp' = moved.from /\ dest' = moved.to
            /\ Update!Onto(s, "drop")
         \/ UNCHANGED <<tmp, dest>> /\ Update!Onto(s, "restore")
  BY DEF IInv, Update!Install, Update!UpAt, Absent
<1>2. upJob[s] # Idle
  BY <1>1 DEF Idle
<1>3. /\ Moves(s) /\ upJob'[s] \in Job /\ upJob'[s].stage \in {"drop", "restore"}
      /\ upJob'[s].program = upJob[s].program
  BY <1>1, <1>2, GoesOnto DEF Update!UpStages
<1>4. p \in Binaries /\ (upJob[s].program = 2 => p = "agent")
  BY <1>1, <1>2, ProgramNamed
<1>5. /\ dest' \in [Binaries -> Update!Contents] /\ tmp' \in [Binaries -> Update!Contents]
      /\ \A q \in Binaries :
           \/ (dest'[q] = dest[q] /\ tmp'[q] = tmp[q])
           \/ (q = p /\ tmp[q] # Absent /\ tmp'[q] = Absent /\ dest'[q] = tmp[q])
      /\ upJob'[s].stage = "drop" => tmp[p] # Absent /\ dest'[p] = tmp[p]
  <2>1. CASE tmp[p] # Absent /\ tmp' = moved.from /\ dest' = moved.to
    <3>1. /\ moved.from \in [Binaries -> Update!Contents]
          /\ moved.to \in [Binaries -> Update!Contents]
          /\ \A q \in Binaries \ {p} : moved.from[q] = tmp[q] /\ moved.to[q] = dest[q]
          /\ moved.from[p] = Absent /\ moved.to[p] = tmp[p]
      BY <1>1, <1>4, <2>1, Types, Moved
    <3> HIDE DEF moved
    <3>2. QED
      BY <2>1, <3>1
  <2>2. CASE UNCHANGED <<tmp, dest>> /\ Update!Onto(s, "restore")
    <3>1. upJob'[s].stage = "restore"
      BY <1>1, <1>2, <2>2, GoesOnto DEF Update!UpStages
    <3>2. QED
      BY <1>1, <2>2, <3>1, Types
  <2>3. QED
    BY <1>1, <2>1, <2>2
<1>6. (Update!UpTypeOK)'
  BY <1>1, <1>3, <1>5, Types, TypesNext DEF Moves
<1>7. ASSUME ~upLapped PROVE Sound'
  <2>1. /\ Sound /\ Whole /\ \A q \in Binaries : tmp[q] \in {New, Absent}
        /\ upJob[s].program = 2 => dest["panel"] = New
        /\ ~astray => runs["panel"] = Absent
    BY <1>1, <1>7 DEF IInv, Sound, Progress, Replacing
  <2>2. Whole'
    BY <1>1, <1>5, <2>1 DEF Whole
  <2>3. upJob[s].program = 2 => dest'["panel"] = New
    BY <1>4, <1>5, <2>1, NamesAre
  <2>4. upJob'[s].stage = "drop" => dest'[p] = New
    BY <1>4, <1>5, <2>1
  <2>5. Update!Program(s)' = p
    BY <1>3 DEF Update!Program
  <2>6. \A q \in Binaries : tmp'[q] \in {New, Absent}
    BY <1>5, <2>1
  <2>7. Progress(s)'
    BY <1>1, <1>3, <2>1, <2>3, <2>4, <2>5, <2>6 DEF Progress, Replacing
  <2>8. upJob'[s] # Idle
    BY <1>3 DEF Idle
  <2>9. QED
    BY <1>1, <1>2, <1>3, <2>1, <2>2, <2>7, <2>8, SoundOn
<1>8. QED
  BY <1>1, <1>6, <1>7 DEF IInv

\* The panel stays stopped.
LEMMA RestoreKeeps ==
    ASSUME IInv, NEW s \in Slots, Update!Restore(s) PROVE IInv'
<1> DEFINE p == Update!Program(s)
           moved == Update!Renamed(bak, dest, p)
<1>1. /\ Update!UpTypeOK /\ upJob[s].stage = "restore" /\ Update!UpGoes(s, Idle)
      /\ (bak' = moved.from /\ dest' = moved.to) \/ UNCHANGED <<bak, dest>>
      /\ tmp' = [q \in Binaries |-> Absent]
      /\ UNCHANGED <<runs, upLapped, astray>>
  BY IdleIsIdle DEF IInv, Update!Restore, Update!UpAt, Update!NoFiles, Binaries, Absent
<1>2. upJob[s] # Idle
  BY <1>1 DEF Idle
<1>3. Moves(s) /\ upJob'[s] = Idle
  BY <1>1, JobGoes
<1>4. p \in Binaries
  BY <1>1, <1>2, ProgramNamed
<1>5. /\ dest' \in [Binaries -> Update!Contents] /\ bak' \in [Binaries -> Update!Contents]
      /\ \A q \in Binaries :
           \/ (dest'[q] = dest[q] /\ bak'[q] = bak[q])
           \/ (q = p /\ bak[q] # Absent /\ bak'[q] = Absent /\ dest'[q] = bak[q])
  <2>1. /\ moved.from \in [Binaries -> Update!Contents]
        /\ moved.to \in [Binaries -> Update!Contents]
        /\ \A q \in Binaries \ {p} : moved.from[q] = bak[q] /\ moved.to[q] = dest[q]
        /\ bak[p] = Absent => moved.from[p] = Absent /\ moved.to[p] = dest[p]
        /\ bak[p] # Absent => moved.from[p] = Absent /\ moved.to[p] = bak[p]
    BY <1>1, <1>4, Types, Moved
  <2>2. dest \in [Binaries -> Update!Contents] /\ bak \in [Binaries -> Update!Contents]
    BY <1>1, Types
  <2> HIDE DEF moved
  <2>3. QED
    BY <1>1, <2>1, <2>2
<1>6. (Update!UpTypeOK)'
  BY <1>1, <1>3, <1>5, Types, TypesNext, ContentsAre DEF Moves
<1>7. ASSUME ~upLapped PROVE Sound'
  <2>1. Sound /\ Whole /\ (~astray => runs["panel"] = Absent)
    BY <1>1, <1>7 DEF IInv, Sound, Progress, Replacing
  <2>2. Whole'
    BY <1>5, <2>1 DEF Whole
  <2>3. Aligned'
    BY <1>1, <2>1 DEF Aligned
  <2>4. QED
    BY <1>1, <1>2, <1>3, <2>1, <2>2, <2>3, SoundHome
<1>8. QED
  BY <1>1, <1>6, <1>7 DEF IInv

LEMMA DropBackupKeeps ==
    ASSUME IInv, NEW s \in Slots, Update!DropBackup(s) PROVE IInv'
<1> DEFINE p == Update!Program(s)
<1>1. /\ Update!UpTypeOK /\ upJob[s].stage = "drop" /\ Update!Further(s, "backup", "start")
      /\ bak' = [bak EXCEPT ![p] = Absent]
      /\ UNCHANGED <<dest, tmp, runs, upLapped, astray>>
  BY DEF IInv, Update!DropBackup, Update!UpAt, Update!Put, Absent
<1>2. upJob[s] # Idle
  BY <1>1 DEF Idle
<1>3. /\ Moves(s) /\ upJob'[s] \in Job /\ upJob[s].program \in {1, 2}
      /\ upJob[s].program = 1 => upJob'[s].stage = "backup" /\ upJob'[s].program = 2
      /\ upJob[s].program = 2 => upJob'[s].stage = "start" /\ upJob'[s].program = 1
  BY <1>1, <1>2, GoesFurther DEF Update!UpStages
<1>4. /\ p \in Binaries
      /\ upJob[s].program = 1 => p = "panel"
      /\ upJob[s].program = 2 => p = "agent"
  BY <1>1, <1>2, ProgramNamed
<1>5. bak' \in [Binaries -> Update!Contents] /\ \A q \in Binaries \ {p} : bak'[q] = bak[q]
      /\ bak'[p] = Absent
  BY <1>1, <1>4, Types, ContentsAre
<1>6. (Update!UpTypeOK)'
  BY <1>1, <1>3, <1>5, Types, TypesNext DEF Moves
<1>7. ASSUME ~upLapped PROVE Sound'
  <2>1. /\ Sound /\ Whole /\ dest[p] = New /\ \A q \in Binaries : tmp[q] \in {New, Absent}
        /\ upJob[s].program = 2 => dest["panel"] = New
        /\ ~astray => runs["panel"] = Absent
    BY <1>1, <1>7 DEF IInv, Sound, Progress, Replacing
  <2>2. Whole'
    BY <1>1, <1>4, <1>5, <2>1, Differ DEF Whole
  <2>3. CASE upJob[s].program = 1
    <3>1. Progress(s)'
      BY <1>1, <1>3, <1>4, <2>1, <2>3 DEF Progress, Replacing
    <3>2. QED
      BY <1>1, <1>2, <1>3, <2>1, <2>2, <2>3, <3>1, SoundOn DEF Idle
  <2>4. CASE upJob[s].program = 2
    <3>1. \A q \in Binaries : dest[q] = New
      BY <1>4, <2>1, <2>4, NamesAre
    <3>2. Progress(s)'
      BY <1>1, <1>3, <2>1, <2>4, <3>1 DEF Progress, Replacing
    <3>3. QED
      BY <1>1, <1>2, <1>3, <2>1, <2>2, <2>4, <3>2, SoundOn DEF Idle
  <2>5. QED
    BY <1>3, <2>3, <2>4
<1>8. QED
  BY <1>1, <1>6, <1>7 DEF IInv

LEMMA RunnableIs ==
    /\ \A content : Update!Runnable(content) \in {Absent, Old, New}
    /\ \A content \in {Absent, Old, New} : Update!Runnable(content) = content
  BY DEF Update!Runnable, Absent, Old, New

LEMMA StartPanelKeeps ==
    ASSUME IInv, NEW s \in Slots, Update!StartPanel(s) PROVE IInv'
<1> DEFINE started == [runs EXCEPT !["panel"] = Update!Runnable(dest["panel"])]
<1>1. /\ Update!UpTypeOK /\ upJob[s].stage = "start" /\ Update!Onto(s, "restart")
      /\ tmp' = [q \in Binaries |-> Absent]
      /\ (runs["panel"] = Absent /\ runs' = started) \/ UNCHANGED runs
      /\ UNCHANGED <<dest, bak, upLapped, astray>>
  BY DEF IInv, Update!StartPanel, Update!UpAt, Update!Put, Update!NoFiles, Binaries, Absent
<1>2. upJob[s] # Idle
  BY <1>1 DEF Idle
<1>3. Moves(s) /\ upJob'[s] \in Job /\ upJob'[s].stage = "restart"
  BY <1>1, <1>2, GoesOnto DEF Update!UpStages
<1>4. /\ runs' \in [Binaries -> {Absent, Old, New}]
      /\ runs'["panel"] \in {runs["panel"], Update!Runnable(dest["panel"])}
  BY <1>1, Types, NamesAre, RunnableIs
<1>5. (Update!UpTypeOK)' /\ (Whole => Whole')
  BY <1>1, <1>3, <1>4, Types, ContentsAre, SameFiles
<1>6. ASSUME ~upLapped PROVE Sound'
  <2>1. /\ Sound /\ Whole /\ \A q \in Binaries : dest[q] = New
        /\ ~astray => runs["panel"] = Absent
    BY <1>1, <1>6 DEF IInv, Sound, Progress, Replacing
  <2>2. ~astray => runs'["panel"] \in {Absent, New}
    BY <1>4, <2>1, NamesAre, RunnableIs
  <2>3. Progress(s)'
    BY <1>1, <1>3, <2>1, <2>2 DEF Progress, Replacing
  <2>4. upJob'[s] # Idle
    BY <1>3 DEF Idle
  <2>5. QED
    BY <1>1, <1>2, <1>3, <1>5, <2>1, <2>3, <2>4, SoundOn
<1>7. QED
  BY <1>1, <1>5, <1>6 DEF IInv
\* The agent that was replaced goes on, with a panel of whatever version.
LEMMA RestartAgentFailsKeeps ==
    ASSUME IInv, NEW s \in Slots, Update!RestartAgentFails(s) PROVE IInv'
<1>1. /\ Update!UpTypeOK /\ upJob[s].stage = "restart" /\ Update!UpGoes(s, Idle)
      /\ astray' = TRUE /\ UNCHANGED <<dest, bak, tmp, runs, upLapped>>
  BY IdleIsIdle DEF IInv, Update!RestartAgentFails, Update!UpAt
<1>2. upJob[s] # Idle
  BY <1>1 DEF Idle
<1>3. Moves(s) /\ upJob'[s] = Idle
  BY <1>1, JobGoes
<1>4. (Update!UpTypeOK)' /\ (Whole => Whole')
  BY <1>1, <1>3, Types, SameFiles
<1>5. ASSUME ~upLapped PROVE Sound'
  <2>1. Sound /\ Whole
    BY <1>5 DEF IInv, Sound
  <2>2. Aligned'
    BY <1>1 DEF Aligned
  <2>3. QED
    BY <1>1, <1>2, <1>3, <1>4, <2>1, <2>2, SoundHome
<1>6. QED
  BY <1>1, <1>4, <1>5 DEF IInv
-----------------------------------------------------------------------------
(***************************************************************************)
(* A new agent, and a panel started from outside.                          *)
(***************************************************************************)
LEMMA PanelAnewIs ==
    ASSUME Update!UpTypeOK, Whole
    PROVE  /\ Update!PanelAnew \in {Absent, Old, New}
           /\ Update!PanelAnew # Absent => Update!PanelAnew = dest["panel"]
           /\ runs["panel"] = Absent => Update!PanelAnew = Absent
<1>1. Update!PanelAnew = IF runs["panel"] = Absent THEN Absent ELSE dest["panel"]
  BY WholeFiles, NamesAre, RunnableIs DEF Update!PanelAnew, Absent
<1>2. dest["panel"] \in {Absent, Old, New}
  BY WholeFiles, NamesAre
<1>3. QED
  BY <1>1, <1>2

LEMMA PanelAnewTyped == Update!PanelAnew \in {Absent, Old, New}
  BY RunnableIs DEF Update!PanelAnew, Absent

\* The new agent is the one installed; with a panel of that version the two match.
LEMMA AgentStartsKeeps ==
    ASSUME IInv, NEW panel \in {Absent, Old, New}, Update!AgentStarts(panel),
           astray' \in BOOLEAN,
           (~upLapped /\ ~astray' /\ panel # Absent) => \A p \in Binaries : dest[p] = panel
    PROVE  IInv'
<1>1. /\ Update!UpTypeOK /\ UNCHANGED upLapped
      /\ dest' = Update!Cut(dest, Slots) /\ bak' = Update!Cut(bak, Slots)
      /\ tmp' = Update!Cut(tmp, Slots)
      /\ runs' = [p \in Binaries |-> IF p = "panel" THEN panel ELSE Update!Runnable(dest[p])]
      /\ upJob' = [s \in Slots |-> Idle]
  BY IdleIsIdle DEF IInv, Update!AgentStarts, Binaries
<1>2. /\ runs' \in [Binaries -> {Absent, Old, New}]
      /\ runs'["panel"] = panel /\ runs'["agent"] = Update!Runnable(dest["agent"])
  BY <1>1, NamesAre, RunnableIs
<1>3. (Update!UpTypeOK)'
  BY <1>1, <1>2, Types, TypesNext, CutTyped
<1>4. ASSUME ~upLapped PROVE Sound'
  <2>1. Whole
    BY <1>4 DEF IInv, Sound
  <2>2. \A p \in Binaries : dest'[p] = dest[p] /\ bak'[p] = bak[p]
    BY <1>1, <2>1, WholeFiles, Types, CutTyped
  <2>3. Whole'
    BY <2>1, <2>2 DEF Whole
  <2>4. Aligned'
    <3> SUFFICES ASSUME ~astray', runs'["panel"] # Absent PROVE Match'
      BY DEF Aligned
    <3>1. \A p \in Binaries : dest'[p] = panel
      BY <1>2, <1>4, <2>2
    <3>2. runs'["agent"] = panel
      BY <1>2, <2>1, <2>2, <3>1, WholeFiles, NamesAre, RunnableIs
    <3>3. QED
      BY <1>2, <3>1, <3>2, NamesAre DEF Match
  <2>5. \A s \in Slots : upJob'[s] = Idle /\ upJob'[s].stage = "idle"
    BY <1>1 DEF Idle
  <2>6. \A s \in Slots : Progress(s)'
    BY <2>5 DEF Progress, Replacing
  <2>7. QED
    BY <2>3, <2>4, <2>5, <2>6 DEF Sound
<1>5. QED
  BY <1>1, <1>3, <1>4 DEF IInv

LEMMA RestartAgentKeeps ==
    ASSUME IInv, NEW s \in Slots, Update!RestartAgent(s) PROVE IInv'
<1> DEFINE panel == Update!PanelAnew
<1>1. /\ Update!UpTypeOK /\ upJob[s].stage = "restart" /\ Update!AgentStarts(panel)
      /\ astray' = FALSE
  BY DEF IInv, Update!RestartAgent, Update!UpAt
<1>2. ASSUME ~upLapped, panel # Absent
      PROVE  \A p \in Binaries : dest[p] = panel
  <2>1. Whole /\ \A p \in Binaries : dest[p] = New
    BY <1>1, <1>2 DEF IInv, Sound, Progress, Replacing
  <2>2. panel = New
    BY <1>1, <1>2, <2>1, PanelAnewIs, NamesAre
  <2>3. QED
    BY <2>1, <2>2
<1>3. panel \in {Absent, Old, New}
  BY PanelAnewTyped
<1> HIDE DEF panel
<1>4. QED
  BY <1>1, <1>2, <1>3, AgentStartsKeeps

\* While the panel runs and is not astray, both programs installed are of its version.
LEMMA DestMatches ==
    ASSUME IInv, ~upLapped, ~astray, runs["panel"] # Absent
    PROVE  Whole /\ \A p \in Binaries : dest[p] = runs["panel"]
<1>1. Update!UpTypeOK /\ Sound /\ Whole
  BY DEF IInv, Sound
<1>2. CASE \A s \in Slots : upJob[s] = Idle
  BY <1>1, <1>2 DEF Sound, Aligned, Match
<1>3. CASE \E s \in Slots : upJob[s] # Idle
  <2>1. PICK s \in Slots : upJob[s] # Idle
    BY <1>3
  <2>2. Progress(s) /\ upJob[s].stage \in Update!UpStages
    <3>1. upJob[s] \in Job
      BY <1>1, <2>1, Jobs
    <3>2. QED
      BY <1>1, <3>1 DEF Sound, Job
  <2>3. CASE upJob[s].stage \in {"deps", "clear", "fetch", "fetching", "stop"}
    BY <1>1, <2>2, <2>3 DEF Progress, Aligned, Match
  <2>4. CASE upJob[s].stage = "restart"
    BY <1>1, <2>2, <2>4 DEF Progress
  <2>5. CASE upJob[s].stage \in {"start"} \cup Replacing
    BY <2>2, <2>5 DEF Progress
  <2>6. QED
    BY <2>2, <2>3, <2>4, <2>5 DEF Update!UpStages, Replacing
<1>4. QED
  BY <1>2, <1>3

LEMMA UpKilledKeeps ==
    ASSUME IInv, Update!UpKilled PROVE IInv'
<1>1. /\ Update!UpTypeOK /\ UNCHANGED astray
      /\ \E panel \in {runs["panel"], Update!PanelAnew} : Update!AgentStarts(panel)
  BY DEF IInv, Update!UpKilled
<1>2. PICK panel \in {runs["panel"], Update!PanelAnew} : Update!AgentStarts(panel)
  BY <1>1
<1>3. astray' \in BOOLEAN /\ panel \in {Absent, Old, New}
  BY <1>1, <1>2, Types, NamesAre, PanelAnewTyped
<1>4. ASSUME ~upLapped, ~astray, panel # Absent
      PROVE  \A p \in Binaries : dest[p] = panel
  <2>1. Whole
    BY <1>4 DEF IInv, Sound
  <2>2. runs["panel"] # Absent
    BY <1>1, <1>2, <1>4, <2>1, PanelAnewIs
  <2>3. \A p \in Binaries : dest[p] = runs["panel"]
    BY <1>4, <2>2, DestMatches
  <2>4. panel = runs["panel"]
    BY <1>1, <1>2, <1>4, <2>1, <2>3, PanelAnewIs, NamesAre
  <2>5. QED
    BY <2>3, <2>4
<1>5. QED
  BY <1>1, <1>2, <1>3, <1>4, AgentStartsKeeps

\* After a boot the panel is the one installed; astray unless the agent is, too.
LEMMA UpBootedKeeps ==
    ASSUME IInv, Update!UpBooted PROVE IInv'
<1> DEFINE panel == Update!Runnable(dest["panel"])
<1>1. /\ Update!AgentStarts(panel) /\ panel \in {Absent, Old, New}
      /\ astray' = (dest["panel"] # dest["agent"])
  BY RunnableIs DEF Update!UpBooted, Update!Unequal
<1>2. ASSUME ~upLapped, ~astray', panel # Absent
      PROVE  \A p \in Binaries : dest[p] = panel
  <2>1. panel = dest["panel"]
    BY <1>2, WholeFiles, NamesAre, RunnableIs DEF IInv, Sound
  <2>2. QED
    BY <1>1, <1>2, <2>1, NamesAre
<1>3. astray' \in BOOLEAN
  BY <1>1
<1> HIDE DEF panel
<1>4. QED
  BY <1>1, <1>2, <1>3, AgentStartsKeeps

LEMMA PanelStartedByHandKeeps ==
    ASSUME IInv, Update!PanelStartedByHand PROVE IInv'
<1>1. /\ Update!UpTypeOK /\ \A s \in Slots : upJob[s] = Idle
      /\ runs' = [runs EXCEPT !["panel"] = dest["panel"]]
      /\ Update!Runnable(dest["panel"]) # Absent
      /\ astray' = (dest["panel"] # runs["agent"] \/ dest["panel"] # dest["agent"])
      /\ UNCHANGED <<dest, bak, tmp, upJob, upLapped>>
  BY IdleIsIdle DEF IInv, Update!PanelStartedByHand, Update!UpQuiet, Update!Unequal, Update!Put,
                    Absent
<1>2. dest["panel"] \in {Absent, Old, New}
  BY <1>1 DEF Update!Runnable, Absent, Old, New
<1>3. (Update!UpTypeOK)'
  <2>1. runs' \in [Binaries -> {Absent, Old, New}] /\ astray' \in BOOLEAN
    BY <1>1, <1>2, Types
  <2>2. QED
    BY <1>1, <2>1, Types, TypesNext
<1>4. ASSUME ~upLapped PROVE Sound'
  <2>1. Whole' /\ Aligned'
    <3>1. Whole'
      BY <1>1, <1>4 DEF IInv, Sound, Whole
    <3>2. runs'["panel"] = dest["panel"] /\ runs'["agent"] = runs["agent"]
      BY <1>1, Types, NamesAre
    <3>3. ~astray' => Match'
      BY <1>1, <3>2, NamesAre DEF Match
    <3>4. QED
      BY <3>1, <3>3 DEF Aligned
  <2>2. \A s \in Slots : Progress(s)'
    BY <1>1 DEF Progress, Replacing, Idle
  <2>3. QED
    BY <1>1, <2>1, <2>2 DEF Sound
<1>5. QED
  BY <1>1, <1>3, <1>4 DEF IInv
-----------------------------------------------------------------------------
(***************************************************************************)
(* Every step, and the theorems.                                           *)
(***************************************************************************)
LEMMA Unchanged == ASSUME IInv, UNCHANGED updateVars PROVE IInv'
<1> USE DEF updateVars
<1>1. (Update!UpTypeOK)'
  BY Types, TypesNext DEF IInv
<1>2. Sound => Sound'
  BY DEF Sound, Whole, Progress, Aligned, Match, Update!Program
<1>3. QED
  BY <1>1, <1>2 DEF IInv

LEMMA UpdateWorksKeeps ==
    ASSUME IInv, NEW s \in Slots, Update!UpStep(s) PROVE IInv'
  BY InstallDependenciesKeeps, ClearDownloadsKeeps, FetchKeeps, FetchedKeeps, FetchFailsKeeps,
     StopPanelKeeps, BackUpKeeps, InstallKeeps, RestoreKeeps, DropBackupKeeps, StartPanelKeeps,
     RestartAgentFailsKeeps DEF Update!UpStep

LEMMA NextIInv == ASSUME IInv, [Next]_vars PROVE IInv'
<1>1. CASE CallSsh \/ CallFirewall \/ SshWorks \/ SshdReads \/ FirewallWorks \/ UNCHANGED vars
  <2>1. UNCHANGED updateVars
    BY <1>1 DEF CallSsh, CallFirewall, SshWorks, SshdReads, FirewallWorks, vars
  <2>2. QED
    BY <2>1, Unchanged
<1>2. CASE CallUpdate
  BY <1>2, SystemUpdateKeeps DEF CallUpdate, Callable
<1>3. CASE UpdateWorks
  BY <1>3, UpdateWorksKeeps DEF UpdateWorks
<1>4. CASE UpdateEnds
  BY <1>4, RestartAgentKeeps DEF UpdateEnds
<1>5. CASE AgentKilled
  BY <1>5, UpKilledKeeps DEF AgentKilled
<1>6. CASE Reboot
  BY <1>6, UpBootedKeeps DEF Reboot
<1>7. CASE PanelStarted
  BY <1>7, PanelStartedByHandKeeps DEF PanelStarted
<1>8. QED
  BY <1>1, <1>2, <1>3, <1>4, <1>5, <1>6, <1>7 DEF Next

LEMMA Inductive == Spec => []IInv
<1>1. Init => IInv
  BY InitIInv
<1>2. IInv /\ [Next]_vars => IInv'
  BY NextIInv
<1>3. QED
  BY <1>1, <1>2, PTL DEF Spec

\* Wherever updates stop, and whatever fails in them, each program is there, complete,
\* under its own name or as its backup, unless two updates have overlapped.
THEOREM ProgramsSurvive == Spec => []NoProgramLost
<1>1. ASSUME IInv, ~upLapped, NEW p \in Binaries
      PROVE  {dest[p], bak[p]} \cap {Old, New} # {}
  BY <1>1 DEF IInv, Sound, Whole
<1>2. IInv => NoProgramLost
  BY <1>1 DEF NoProgramLost, Update!NoProgramLost, Binaries, Old, New
<1>3. QED
  BY <1>2, Inductive, PTL

\* While no update is under way the panel speaks to an agent of its version, and both
\* are the installed ones, with the same exception, and unless the service manager has
\* refused or the panel was started from outside over programs of two versions.
THEOREM VersionsMatch == Spec => []PanelAndAgentMatch
<1>1. ASSUME IInv, Update!UpQuiet, ~upLapped, ~astray, runs["panel"] # Absent PROVE Match
  BY <1>1, IdleIsIdle DEF IInv, Sound, Aligned, Update!UpQuiet
<1>2. IInv => PanelAndAgentMatch
  BY <1>1 DEF PanelAndAgentMatch, Update!PanelAndAgentMatch, Match, Binaries, Absent
<1>3. QED
  BY <1>2, Inductive, PTL
-----------------------------------------------------------------------------
(***************************************************************************)
(* SSH: what is written back, in order, as what it makes of the files.     *)
(***************************************************************************)
Entries == Names \X Directives

\* The last entry about a file gives it this content; or there is none.
Settles(undo, n, content) ==
    \E i \in 1..Len(undo) :
        /\ undo[i] = <<n, content>>
        /\ \A k \in 1..Len(undo) : k > i => undo[k][1] # n
Untouched(undo, n) == \A k \in 1..Len(undo) : undo[k][1] # n

Restores(undo, fs, old) ==
    \A n \in Names : Settles(undo, n, old[n]) \/ (Untouched(undo, n) /\ fs[n] = old[n])

LEMMA SettlesLast ==
    ASSUME NEW u \in Seq(Entries), NEW v \in Seq(Entries), NEW n \in Names, NEW c, Settles(v, n, c)
    PROVE  Settles(u \o v, n, c)
<1>1. PICK i \in 1..Len(v) : v[i] = <<n, c>> /\ \A k \in 1..Len(v) : k > i => v[k][1] # n
  BY DEF Settles
<1>2. Len(u) + i \in 1..Len(u \o v) /\ (u \o v)[Len(u) + i] = <<n, c>>
  BY <1>1
<1>3. ASSUME NEW k \in 1..Len(u \o v), k > Len(u) + i PROVE (u \o v)[k][1] # n
  <2>1. k - Len(u) \in 1..Len(v) /\ k - Len(u) > i /\ (u \o v)[k] = v[k - Len(u)]
    BY <1>3
  <2>2. QED
    BY <1>1, <2>1
<1>4. QED
  BY <1>2, <1>3 DEF Settles

LEMMA SettlesBefore ==
    ASSUME NEW u \in Seq(Entries), NEW v \in Seq(Entries), NEW n \in Names, NEW c,
           Settles(u, n, c), Untouched(v, n)
    PROVE  Settles(u \o v, n, c)
<1>1. PICK i \in 1..Len(u) : u[i] = <<n, c>> /\ \A k \in 1..Len(u) : k > i => u[k][1] # n
  BY DEF Settles
<1>2. i \in 1..Len(u \o v) /\ (u \o v)[i] = <<n, c>>
  BY <1>1
<1>3. ASSUME NEW k \in 1..Len(u \o v), k > i PROVE (u \o v)[k][1] # n
  <2>1. CASE k <= Len(u)
    BY <1>1, <1>3, <2>1
  <2>2. CASE k > Len(u)
    <3>1. k - Len(u) \in 1..Len(v) /\ (u \o v)[k] = v[k - Len(u)]
      BY <2>2
    <3>2. QED
      BY <3>1 DEF Untouched
  <2>3. QED
    BY <2>1, <2>2
<1>4. QED
  BY <1>2, <1>3 DEF Settles

LEMMA UntouchedBoth ==
    ASSUME NEW u \in Seq(Entries), NEW v \in Seq(Entries), NEW n \in Names, Untouched(u, n), Untouched(v, n)
    PROVE  Untouched(u \o v, n)
<1> SUFFICES ASSUME NEW k \in 1..Len(u \o v) PROVE (u \o v)[k][1] # n
  BY DEF Untouched
<1>1. CASE k <= Len(u)
  BY <1>1 DEF Untouched
<1>2. CASE k > Len(u)
  <2>1. k - Len(u) \in 1..Len(v) /\ (u \o v)[k] = v[k - Len(u)]
    BY <1>2
  <2>2. QED
    BY <2>1 DEF Untouched
<1>3. QED
  BY <1>1, <1>2

LEMMA OneEntry ==
    ASSUME NEW n \in Names, NEW c \in Directives
    PROVE  /\ <<<<n, c>>>> \in Seq(Entries) /\ Settles(<<<<n, c>>>>, n, c)
           /\ \A m \in Names \ {n} : Untouched(<<<<n, c>>>>, m)
  BY DEF Entries, Settles, Untouched

\* Writing one entry back leaves the rest to do.
LEMMA RestoresOn ==
    ASSUME NEW undo \in Seq(Entries), undo # <<>>, NEW fs \in [Names -> Directives], NEW old,
           Restores(undo, fs, old)
    PROVE  Restores(Tail(undo), [fs EXCEPT ![Head(undo)[1]] = Head(undo)[2]], old)
<1> DEFINE rest == Tail(undo)
           fsn == [fs EXCEPT ![Head(undo)[1]] = Head(undo)[2]]
<1>1. /\ Head(undo) = undo[1] /\ undo[1] \in Entries
      /\ Len(rest) = Len(undo) - 1 /\ \A k \in 1..Len(rest) : rest[k] = undo[k + 1]
  OBVIOUS
<1>2. \A n \in Names : fsn[n] = IF n = undo[1][1] THEN undo[1][2] ELSE fs[n]
  BY <1>1 DEF Entries
<1> HIDE DEF rest, fsn
<1>3. ASSUME NEW n \in Names PROVE Settles(rest, n, old[n]) \/ (Untouched(rest, n) /\ fsn[n] = old[n])
  <2>1. CASE Untouched(undo, n) /\ fs[n] = old[n]
    <3>1. Untouched(rest, n)
      BY <1>1, <2>1 DEF Untouched
    <3>2. undo[1][1] # n
      BY <1>1, <2>1 DEF Untouched
    <3>3. QED
      BY <1>2, <2>1, <3>1, <3>2
  <2>2. CASE Settles(undo, n, old[n])
    <3>1. PICK i \in 1..Len(undo) : undo[i] = <<n, old[n]>> /\ \A k \in 1..Len(undo) : k > i => undo[k][1] # n
      BY <2>2 DEF Settles
    <3>2. CASE i = 1
      <4>1. Untouched(rest, n)
        BY <1>1, <3>1, <3>2 DEF Untouched
      <4>2. fsn[n] = old[n]
        BY <1>2, <3>1, <3>2
      <4>3. QED
        BY <4>1, <4>2
    <3>3. CASE i > 1
      <4>1. i - 1 \in 1..Len(rest) /\ rest[i - 1] = <<n, old[n]>>
        BY <1>1, <3>1, <3>3
      <4>2. \A k \in 1..Len(rest) : k > i - 1 => rest[k][1] # n
        BY <1>1, <3>1
      <4>3. QED
        BY <4>1, <4>2 DEF Settles
    <3>4. QED
      BY <3>2, <3>3
  <2>3. QED
    BY <2>1, <2>2 DEF Restores
<1>4. QED
  BY <1>3 DEF Restores, rest, fsn

\* The contents read before files are changed.
LEMMA BackIs ==
    ASSUME files \in [Names -> Directives], NEW names \in SUBSET {"main", "vendor"}
    PROVE  /\ Back(names) \in Seq(Entries)
           /\ \A n \in names : Settles(Back(names), n, files[n])
           /\ \A n \in Names \ names : Untouched(Back(names), n)
<1>1. {"main", "vendor"} \subseteq Names /\ "main" # "vendor"
  BY DEF Names
<1>2. CASE names = {}
  <2>1. Cardinality(names) = 0
    BY <1>2, FS_EmptySet
  <2>2. Back(names) = <<>>
    BY <2>1 DEF Back
  <2>3. <<>> \in Seq(Entries) /\ \A n : Untouched(<<>>, n)
    BY DEF Untouched
  <2>4. QED
    BY <1>2, <2>2, <2>3
<1>3. CASE names = {"main"}
  <2>1. Cardinality(names) = 1
    BY <1>3, FS_Singleton
  <2>2. PICK c \in Directives : c = files["main"]
    BY <1>1
  <2>3. Back(names) = <<<<"main", c>>>>
    BY <1>3, <2>1, <2>2 DEF Back
  <2>4. /\ <<<<"main", c>>>> \in Seq(Entries) /\ Settles(<<<<"main", c>>>>, "main", c)
        /\ \A m \in Names \ {"main"} : Untouched(<<<<"main", c>>>>, m)
    BY <1>1, OneEntry
  <2>5. PICK b : b = Back(names)
    OBVIOUS
  <2>6. /\ b \in Seq(Entries) /\ Settles(b, "main", c)
        /\ \A m \in Names \ {"main"} : Untouched(b, m)
    BY <2>3, <2>4, <2>5
  <2>7. names = {"main"}
    BY <1>3
  <2>8. QED
    BY <2>2, <2>5, <2>6, <2>7
<1>4. CASE names = {"vendor"}
  <2>1. Cardinality(names) = 1
    BY <1>4, FS_Singleton
  <2>2. PICK c \in Directives : c = files["vendor"]
    BY <1>1
  <2>3. Back(names) = <<<<"vendor", c>>>>
    BY <1>1, <1>4, <2>1, <2>2 DEF Back
  <2>4. /\ <<<<"vendor", c>>>> \in Seq(Entries) /\ Settles(<<<<"vendor", c>>>>, "vendor", c)
        /\ \A m \in Names \ {"vendor"} : Untouched(<<<<"vendor", c>>>>, m)
    BY <1>1, OneEntry
  <2>5. PICK b : b = Back(names)
    OBVIOUS
  <2>6. /\ b \in Seq(Entries) /\ Settles(b, "vendor", c)
        /\ \A m \in Names \ {"vendor"} : Untouched(b, m)
    BY <2>3, <2>4, <2>5
  <2>7. names = {"vendor"}
    BY <1>4
  <2>8. QED
    BY <2>2, <2>5, <2>6, <2>7
<1>5. CASE names = {"main", "vendor"}
  <2>1. Cardinality(names) = 2
    <3>1. IsFiniteSet({"main"}) /\ Cardinality({"main"}) = 1
      BY FS_Singleton
    <3>2. Cardinality({"main"} \cup {"vendor"}) = 2
      BY <1>1, <3>1, FS_AddElement
    <3>3. {"main"} \cup {"vendor"} = names
      BY <1>5
    <3>4. QED
      BY <3>2, <3>3
  <2>2. Back(names) = <<<<"main", files["main"]>>, <<"vendor", files["vendor"]>>>>
    BY <1>5, <2>1 DEF Back
  <2>3. PICK b : b = Back(names)
    OBVIOUS
  <2>4. Len(b) = 2 /\ b[1] = <<"main", files["main"]>> /\ b[2] = <<"vendor", files["vendor"]>>
    BY <2>2, <2>3
  <2>5. b \in Seq(Entries)
    BY <1>1, <2>2, <2>3 DEF Entries
  <2>6. Settles(b, "main", files["main"]) /\ Settles(b, "vendor", files["vendor"])
    BY <1>1, <2>4 DEF Settles
  <2>7. \A n \in Names \ names : Untouched(b, n)
    BY <1>5, <2>4 DEF Untouched
  <2>8. QED
    BY <1>5, <2>3, <2>5, <2>6, <2>7
<1>6. QED
  BY <1>2, <1>3, <1>4, <1>5
-----------------------------------------------------------------------------
(***************************************************************************)
(* SSH: what a handler beside which no other has run has done so far.      *)
(***************************************************************************)
SshJob ==
    [stage : Stages, cfg : SshRequests, before : [Names -> Directives],
     main : Seq(Entries), undo : Seq(Entries), spoiled : BOOLEAN]

SshTyped ==
    /\ files \in [Names -> Directives]
    /\ served.ports \subseteq SshPorts
    /\ sighup \in BOOLEAN
    /\ sshJob \in [Slots -> {Idle} \cup SshJob]
    /\ sshDirty \in BOOLEAN

Alone(s) == \A t \in Slots \ {s} : sshJob[t] = Idle

\* The include is there, and what it was before is in main.
HasInclude(s) ==
    LET old == sshJob[s].before IN
    /\ files["main"].include # "no" /\ files["vendor"] = old["vendor"]
    /\ \/ sshJob[s].main = <<>> /\ files["main"] = old["main"]
       \/ sshJob[s].main = << <<"main", old["main"]>> >>

\* The panel's file says what was asked for, and no other names another port.
Configured(s) ==
    LET cfg == sshJob[s].cfg IN
    /\ files["litecp"] = DropIn(cfg) /\ files["main"].include # "no"
    /\ {files["main"].port, files["vendor"].port} \subseteq {NoPort, cfg.port}

Done(s) ==
    LET old == sshJob[s].before IN
    /\ At(s, "include") => files = old
    /\ At(s, "dropin") => HasInclude(s) /\ files["litecp"] = old["litecp"]
    /\ At(s, "ports") => HasInclude(s) /\ files["litecp"] = DropIn(sshJob[s].cfg)
    /\ At(s, "check") \/ At(s, "restart") =>
         Configured(s) /\ Restores(sshJob[s].undo \o sshJob[s].main \o UndoDropIn(s), files, old)
    /\ At(s, "undo") => Restores(sshJob[s].undo, files, old)

\* The daemon does what these files say, or has yet to read the ones there are.
ServedBy(fs) == sighup \/ served \in {Effective(fs), Down}

SshSound(s) ==
    sshJob[s] # Idle /\ ~sshJob[s].spoiled =>
        Alone(s) /\ Done(s) /\ (~sshDirty => ServedBy(sshJob[s].before))

\* Somebody has yet to restart the daemon, or to put the files back.
Pending == \E s \in Slots : sshJob[s] # Idle /\ ~At(s, "include")

SshIInv ==
    /\ SshTyped
    /\ \A s \in Slots : SshSound(s)
    /\ ~sshDirty => ServedBy(files) \/ Pending
-----------------------------------------------------------------------------
LEMMA SshIdle == Idle \notin SshJob /\ Idle.stage = "idle" /\ "idle" \notin Stages
<1>1. \A j \in SshJob : j.stage \in Stages
  BY DEF SshJob
<1>2. Idle.stage = "idle" /\ "idle" \notin Stages
  BY DEF Idle, Stages
<1>3. QED
  BY <1>1, <1>2

LEMMA SshJobs ==
    ASSUME SshTyped, NEW s \in Slots
    PROVE  /\ sshJob[s] # Idle => sshJob[s] \in SshJob
           /\ sshJob[s].stage \in Stages => sshJob[s] # Idle
  BY SshIdle DEF SshTyped

LEMMA EffectiveTyped ==
    ASSUME NEW fs \in [Names -> Directives]
    PROVE  Effective(fs).ports \subseteq SshPorts
<1>1. \A i \in DOMAIN Read(fs) : Read(fs)[i] \in Names
  <2>1. fs["main"].include \in Includes
    BY DEF Names, Directives
  <2>2. Read(fs) \in {<<"main">>, <<"vendor", "litecp", "main">>, <<"main", "vendor", "litecp">>,
                      <<"vendor", "main">>}
    BY <2>1 DEF Read, Includes
  <2>3. QED
    BY <2>2 DEF Names
<1>2. Named(fs) \subseteq SshPorts
  BY <1>1 DEF Named, Directives
<1>3. QED
  BY <1>2, SshAssumption DEF Effective

LEMMA SshInitIInv == SshInit => SshIInv
<1> SUFFICES ASSUME SshInit PROVE SshIInv
  OBVIOUS
<1>1. files \in [Names -> Directives] /\ served = Effective(files) /\ sshDirty = FALSE
      /\ sighup = FALSE /\ sshJob = [s \in Slots |-> Idle]
  BY SshAssumption DEF SshInit
<1>2. SshTyped
  BY <1>1, EffectiveTyped DEF SshTyped
<1>3. QED
  BY <1>1, <1>2 DEF SshIInv, SshSound, ServedBy

\* A handler goes on.
LEMMA SshGoesOn ==
    ASSUME SshIInv, NEW s \in Slots, sshJob[s] # Idle, NEW q \in SshJob, Goes(s, q),
           files' \in [Names -> Directives], served'.ports \subseteq SshPorts, UNCHANGED sshDirty,
           q.before = sshJob[s].before, q.stage # "include",
           UNCHANGED <<served, sighup>> \/ (served' = Down /\ sighup' = FALSE),
           ~q.spoiled => ~sshJob[s].spoiled /\ Done(s)'
    PROVE  SshIInv'
<1>1. sshJob \in [Slots -> {Idle} \cup SshJob] /\ {sshDirty, sighup} \subseteq BOOLEAN
  BY DEF SshIInv, SshTyped
<1>2. /\ sshJob' \in [Slots -> {Idle} \cup SshJob] /\ sshJob'[s] = q
      /\ \A t \in Slots \ {s} : sshJob'[t] = sshJob[t]
  BY <1>1 DEF Goes
<1>3. SshTyped'
  <2>1. {sshDirty', sighup'} \subseteq BOOLEAN
    BY <1>1
  <2>2. QED
    BY <1>2, <2>1 DEF SshTyped
<1>4. q # Idle
  BY SshIdle
<1>5. ASSUME NEW t \in Slots, sshJob'[t] # Idle, ~sshJob'[t].spoiled
      PROVE  (Alone(t) /\ Done(t) /\ (~sshDirty => ServedBy(sshJob[t].before)))'
  <2>1. CASE t = s
    <3>1. ~sshJob[s].spoiled /\ Done(s)' /\ Alone(s) /\ (~sshDirty => ServedBy(sshJob[s].before))
      BY <1>2, <1>5, <2>1 DEF SshIInv, SshSound
    <3>2. Done(t)'
      BY <2>1, <3>1 DEF Done, HasInclude, Configured, UndoDropIn, At
    <3>3. Alone(t)'
      BY <1>2, <2>1, <3>1 DEF Alone
    <3>4. (~sshDirty => ServedBy(sshJob[t].before))'
      BY <1>2, <2>1, <3>1 DEF ServedBy
    <3>5. QED
      BY <3>2, <3>3, <3>4
  <2>2. CASE t # s
    <3>1. Alone(t)
      BY <1>2, <1>5, <2>2 DEF SshIInv, SshSound
    <3>2. QED
      BY <2>2, <3>1 DEF Alone
  <2>3. QED
    BY <2>1, <2>2
<1>6. Pending'
  BY <1>2, <1>4 DEF Pending, At
<1>7. QED
  BY <1>3, <1>5, <1>6 DEF SshIInv, SshSound

\* A handler ends.
LEMMA SshEnds ==
    ASSUME SshIInv, NEW s \in Slots, sshJob[s] # Idle, Goes(s, Idle),
           files' \in [Names -> Directives], served'.ports \subseteq SshPorts,
           sighup' \in BOOLEAN, sshDirty' \in BOOLEAN,
           ~sshDirty' => ServedBy(files)' \/ (Pending')
    PROVE  SshIInv'
<1>1. sshJob \in [Slots -> {Idle} \cup SshJob]
  BY DEF SshIInv, SshTyped
<1>2. /\ sshJob' \in [Slots -> {Idle} \cup SshJob] /\ sshJob'[s] = Idle
      /\ \A t \in Slots \ {s} : sshJob'[t] = sshJob[t]
  BY <1>1 DEF Goes
<1>3. ASSUME NEW t \in Slots, sshJob'[t] # Idle PROVE sshJob'[t].spoiled
  <2>1. t # s /\ sshJob[t] # Idle /\ ~Alone(t)
    BY <1>2, <1>3 DEF Alone
  <2>2. QED
    BY <1>2, <2>1 DEF SshIInv, SshSound
<1>4. QED
  BY <1>2, <1>3 DEF SshIInv, SshSound, SshTyped

LEMMA SetSSHConfigKeeps ==
    ASSUME SshIInv, NEW s \in Slots, NEW cfg \in SshRequests, sshJob[s] = Idle, SetSSHConfig(s, cfg)
    PROVE  SshIInv'
<1> DEFINE q == [stage |-> "include", cfg |-> cfg, before |-> files,
                 main |-> <<>>, undo |-> <<>>, spoiled |-> ~SshQuiet]
<1>1. files \in [Names -> Directives] /\ sshJob \in [Slots -> {Idle} \cup SshJob] /\ UNCHANGED <<files, served, sighup, sshDirty>>
  BY DEF SshIInv, SshTyped, SetSSHConfig
<1>2. q \in SshJob /\ q.stage = "include" /\ q.before = files /\ (q.spoiled <=> ~SshQuiet)
  <2>1. SshQuiet \in BOOLEAN /\ <<>> \in Seq(Entries)
    BY DEF SshQuiet
  <2>2. QED
    BY <1>1, <2>1 DEF SshJob, Stages
<1>3. sshJob' = [t \in Slots |->
        IF t = s THEN q
        ELSE IF sshJob[t] = Idle THEN Idle
        ELSE [sshJob[t] EXCEPT !.spoiled = TRUE]]
  BY DEF SetSSHConfig
<1> HIDE DEF q
<1>4. ASSUME NEW t \in Slots, t # s
      PROVE  /\ sshJob'[t] \in {Idle} \cup SshJob
             /\ sshJob[t] = Idle => sshJob'[t] = Idle
             /\ sshJob[t] # Idle => sshJob'[t] # Idle /\ sshJob'[t].spoiled /\ sshJob'[t].stage = sshJob[t].stage
  <2>1. CASE sshJob[t] = Idle
    BY <1>3, <1>4, <2>1
  <2>2. CASE sshJob[t] # Idle
    <3>1. PICK m \in SshJob : m = sshJob[t]
      BY <1>1, <2>2
    <3>2. [m EXCEPT !.spoiled = TRUE] \in SshJob /\ [m EXCEPT !.spoiled = TRUE].spoiled = TRUE
          /\ [m EXCEPT !.spoiled = TRUE].stage = m.stage
      BY <3>1 DEF SshJob
    <3>3. sshJob'[t] = [m EXCEPT !.spoiled = TRUE]
      BY <1>3, <1>4, <2>2, <3>1
    <3>4. QED
      BY <2>2, <3>1, <3>2, <3>3, SshIdle
  <2>3. QED
    BY <2>1, <2>2
<1>5. sshJob'[s] = q /\ sshJob' \in [Slots -> {Idle} \cup SshJob]
  BY <1>2, <1>3, <1>4
<1>6. SshTyped'
  BY <1>1, <1>5 DEF SshIInv, SshTyped
<1>7. SshQuiet /\ ~sshDirty => ServedBy(files)
  BY DEF SshIInv, Pending, SshQuiet
<1>8. ASSUME NEW t \in Slots, sshJob'[t] # Idle, ~sshJob'[t].spoiled
      PROVE  (Alone(t) /\ Done(t) /\ (~sshDirty => ServedBy(sshJob[t].before)))'
  <2>1. t = s /\ SshQuiet
    BY <1>2, <1>4, <1>5, <1>8
  <2>2. Alone(t)'
    BY <1>4, <2>1 DEF Alone, SshQuiet
  <2>3. Done(t)'
    BY <1>1, <1>2, <1>5, <2>1 DEF Done, At
  <2>4. (~sshDirty => ServedBy(sshJob[t].before))'
    BY <1>1, <1>2, <1>5, <1>7, <2>1 DEF ServedBy
  <2>5. QED
    BY <2>2, <2>3, <2>4
<1>9. (~sshDirty => ServedBy(files) \/ Pending)'
  <2>1. Pending => Pending'
    BY <1>4 DEF Pending, At
  <2>2. QED
    BY <1>1, <2>1 DEF SshIInv, ServedBy
<1>10. QED
  BY <1>6, <1>8, <1>9 DEF SshIInv, SshSound

LEMMA JobFields ==
    ASSUME NEW q \in SshJob
    PROVE  /\ q.stage \in Stages /\ q.cfg \in SshRequests /\ q.before \in [Names -> Directives]
           /\ q.main \in Seq(Entries) /\ q.undo \in Seq(Entries) /\ q.spoiled \in BOOLEAN
  BY DEF SshJob

LEMMA FilesStored ==
    ASSUME files \in [Names -> Directives], NEW n \in Names, NEW c \in Directives, Stores(n, c)
    PROVE  /\ files' \in [Names -> Directives] /\ files'[n] = c
           /\ \A m \in Names \ {n} : files'[m] = files[m]
  BY DEF Stores

LEMMA EmptyIs == Empty \in Directives
  BY DEF Empty, Directives, Includes

LEMMA FilesTorn ==
    ASSUME files \in [Names -> Directives], NEW n \in Names, Tears(n)
    PROVE  files' \in [Names -> Directives]
  BY EmptyIs, FilesStored DEF Tears

\* How a job is found at each stage.
LEMMA AtStage ==
    ASSUME SshIInv, NEW s \in Slots, sshJob[s].stage \in Stages
    PROVE  /\ sshJob[s] # Idle /\ sshJob[s] \in SshJob
           /\ files \in [Names -> Directives] /\ served.ports \subseteq SshPorts
           /\ sshDirty \in BOOLEAN /\ sighup \in BOOLEAN
           /\ ~sshJob[s].spoiled => Done(s) /\ Alone(s) /\ (~sshDirty => ServedBy(sshJob[s].before))
  BY SshJobs DEF SshIInv, SshTyped, SshSound

LEMMA EnsureIncludeKeeps ==
    ASSUME SshIInv, NEW s \in Slots, EnsureInclude(s)
    PROVE  SshIInv'
<1>1. At(s, "include") /\ UNCHANGED <<served, sighup>> /\ "include" \in Stages
  BY DEF EnsureInclude, Stages
<1>2. PICK q \in SshJob : q = sshJob[s]
  BY <1>1, AtStage DEF At
<1>3. /\ sshJob[s] # Idle /\ files \in [Names -> Directives] /\ served.ports \subseteq SshPorts
      /\ sshDirty \in BOOLEAN /\ sighup \in BOOLEAN
      /\ ~q.spoiled => Done(s) /\ Alone(s)
  BY <1>1, <1>2, AtStage DEF At
<1>4. "main" \in Names /\ "vendor" \in Names /\ "litecp" \in Names
  BY DEF Names
<1>5. CASE /\ Working
           /\ Stores("main", [files["main"] EXCEPT !.include = IF Included THEN @ ELSE "first"])
           /\ Goes(s, [sshJob[s] EXCEPT !.stage = "dropin",
                 !.main = IF Included THEN <<>> ELSE Back({"main"})])
           /\ UNCHANGED sshDirty
  <2>1. PICK c \in Directives : c = files["main"]
    BY <1>3, <1>4
  <2>2. PICK d \in Directives :
          /\ d = [c EXCEPT !.include = IF Included THEN @ ELSE "first"]
          /\ d.include # "no" /\ (Included => d = c)
    <3> DEFINE word == IF Included THEN c.include ELSE "first"
    <3>1. word \in Includes /\ word # "no" /\ (Included => word = c.include)
      BY <2>1 DEF Directives, Includes, Included
    <3> HIDE DEF word
    <3>2. [c EXCEPT !.include = word] \in Directives /\ [c EXCEPT !.include = word].include = word
      BY <3>1 DEF Directives
    <3>3. word = c.include => [c EXCEPT !.include = word] = c
      BY DEF Directives
    <3>4. [c EXCEPT !.include = word] = [c EXCEPT !.include = IF Included THEN @ ELSE "first"]
      BY DEF word, Directives
    <3>5. QED
      BY <3>1, <3>2, <3>3, <3>4
  <2>3. /\ files' \in [Names -> Directives] /\ files'["main"] = d
        /\ \A m \in Names \ {"main"} : files'[m] = files[m]
    BY <1>3, <1>4, <1>5, <2>1, <2>2, FilesStored
  <2>4. PICK main \in Seq(Entries) :
          /\ main = IF Included THEN <<>> ELSE Back({"main"})
          /\ main = IF Included THEN <<>> ELSE << <<"main", c>> >>
    <3>1. Back({"main"}) = << <<"main", c>> >>
      <4>1. Cardinality({"main"}) = 1
        BY FS_Singleton
      <4>2. QED
        BY <2>1, <4>1 DEF Back
    <3>2. << <<"main", c>> >> \in Seq(Entries) /\ <<>> \in Seq(Entries)
      <4>1. << <<"main", c>> >> \in Seq(Entries)
        BY <1>4, OneEntry
      <4>2. QED
        BY <4>1
    <3>3. QED
      BY <2>1, <3>1, <3>2
  <2>5. PICK m : m = [q EXCEPT !.stage = "dropin", !.main = main]
    OBVIOUS
  <2>6. m \in SshJob /\ m.stage = "dropin" /\ m.main = main /\ (m.spoiled <=> q.spoiled) /\ m.before = q.before
    BY <2>5 DEF SshJob, Stages
  <2>7. Goes(s, m)
    BY <1>2, <1>5, <2>4, <2>5
  <2>8. sshJob'[s] = m
    BY <2>7 DEF Goes, SshIInv, SshTyped
  <2>9. ~m.spoiled => ~q.spoiled /\ Done(s)'
    <3> SUFFICES ASSUME ~m.spoiled PROVE ~q.spoiled /\ Done(s)'
      OBVIOUS
    <3>1. ~q.spoiled /\ files = q.before
      BY <1>1, <1>2, <1>3, <2>6 DEF Done
    <3>2. HasInclude(s)' /\ files'["litecp"] = m.before["litecp"]
      BY <1>4, <2>1, <2>2, <2>3, <2>4, <2>6, <2>8, <3>1 DEF HasInclude
    <3>3. QED
      BY <2>6, <2>8, <3>1, <3>2 DEF Done, At
  <2>10. QED
    BY <1>1, <1>2, <1>3, <1>5, <2>3, <2>6, <2>7, <2>9, SshGoesOn
<1>6. CASE /\ ~Included
           /\ Tears("main")
           /\ Goes(s, Idle)
           /\ sshDirty' = (sshDirty \/ files' # files)
  <2>1. files' \in [Names -> Directives]
    BY <1>3, <1>4, <1>6, FilesTorn
  <2>2. ~sshDirty' => ServedBy(files)' \/ (Pending')
    <3> SUFFICES ASSUME ~sshDirty' PROVE ServedBy(files)' \/ (Pending')
      OBVIOUS
    <3>1. files' = files /\ ~sshDirty
      BY <1>6
    <3>2. CASE ServedBy(files)
      BY <1>1, <3>1, <3>2 DEF ServedBy
    <3>3. CASE Pending
      <4>1. PICK t \in Slots : sshJob[t] # Idle /\ ~At(t, "include")
        BY <3>3 DEF Pending
      <4>2. t # s
        BY <1>1, <4>1
      <4>3. sshJob'[t] = sshJob[t]
        BY <1>6, <4>2 DEF Goes, SshIInv, SshTyped
      <4>4. QED
        BY <4>1, <4>3 DEF Pending, At
    <3>4. QED
      BY <3>1, <3>2, <3>3 DEF SshIInv
  <2>3. sshDirty' \in BOOLEAN
    BY <1>3, <1>6
  <2>4. QED
    BY <1>1, <1>3, <1>6, <2>1, <2>2, <2>3, SshEnds
<1>7. QED
  BY <1>5, <1>6 DEF EnsureInclude

LEMMA MainRestores ==
    ASSUME NEW s \in Slots, NEW old \in [Names -> Directives], old = sshJob[s].before,
           HasInclude(s), files["litecp"] = old["litecp"]
    PROVE  Restores(sshJob[s].main, files, old)
<1>1. "main" \in Names /\ \A n \in Names : n = "main" \/ n = "vendor" \/ n = "litecp"
  BY DEF Names
<1>2. CASE sshJob[s].main = <<>> /\ files["main"] = old["main"]
  <2>1. \A n : Untouched(<<>>, n)
    BY DEF Untouched
  <2>2. QED
    BY <1>1, <1>2, <2>1 DEF Restores, HasInclude
<1>3. CASE sshJob[s].main = << <<"main", old["main"]>> >>
  <2>1. PICK c \in Directives : c = old["main"]
    BY <1>1
  <2>2. PICK u : u = << <<"main", c>> >>
    OBVIOUS
  <2>3. Settles(u, "main", c) /\ \A m \in Names \ {"main"} : Untouched(u, m)
    BY <1>1, <2>2, OneEntry
  <2>4. QED
    BY <1>1, <1>3, <2>1, <2>2, <2>3 DEF Restores, HasInclude
<1>4. QED
  BY <1>2, <1>3 DEF HasInclude

LEMMA WriteDropInKeeps ==
    ASSUME SshIInv, NEW s \in Slots, WriteDropIn(s)
    PROVE  SshIInv'
<1>1. At(s, "dropin") /\ UNCHANGED <<served, sighup, sshDirty>> /\ "dropin" \in Stages /\ {"ports", "undo"} \subseteq Stages
  BY DEF WriteDropIn, Stages
<1>2. PICK q \in SshJob : q = sshJob[s]
  BY <1>1, AtStage DEF At
<1>3. /\ sshJob[s] # Idle /\ files \in [Names -> Directives] /\ served.ports \subseteq SshPorts
      /\ ~q.spoiled => HasInclude(s) /\ files["litecp"] = q.before["litecp"]
  BY <1>1, <1>2, AtStage DEF At, Done
<1>4. "main" \in Names /\ "vendor" \in Names /\ "litecp" \in Names
  BY DEF Names
<1>5. /\ q.before \in [Names -> Directives] /\ q.main \in Seq(Entries) /\ q.undo \in Seq(Entries)
      /\ q.spoiled \in BOOLEAN /\ q.cfg \in SshRequests
  BY JobFields
<1>6. CASE Stores("litecp", DropIn(q.cfg)) /\ Goes(s, [q EXCEPT !.stage = "ports"])
  <2>1. DropIn(q.cfg) \in Directives
    BY <1>5, SshAssumption DEF DropIn, Directives, Includes
  <2>2. /\ files' \in [Names -> Directives] /\ files'["litecp"] = DropIn(q.cfg)
        /\ \A m \in Names \ {"litecp"} : files'[m] = files[m]
    BY <1>3, <1>4, <1>6, <2>1, FilesStored
  <2>3. PICK m : m = [q EXCEPT !.stage = "ports"]
    OBVIOUS
  <2>4. /\ m \in SshJob /\ m.stage = "ports" /\ m.main = q.main /\ (m.spoiled <=> q.spoiled)
        /\ m.before = q.before /\ m.cfg = q.cfg
    BY <1>1, <2>3 DEF SshJob
  <2>5. sshJob'[s] = m
    BY <1>6, <2>3 DEF Goes, SshIInv, SshTyped
  <2>6. ~m.spoiled => ~q.spoiled /\ Done(s)'
    <3> SUFFICES ASSUME ~m.spoiled PROVE ~q.spoiled /\ Done(s)'
      OBVIOUS
    <3>1. ~q.spoiled /\ HasInclude(s)
      BY <1>3, <2>4
    <3>2. HasInclude(s)'
      BY <1>2, <1>4, <2>2, <2>4, <2>5, <3>1 DEF HasInclude
    <3>3. QED
      BY <2>2, <2>4, <2>5, <3>1, <3>2 DEF Done, At
  <2>7. QED
    BY <1>1, <1>2, <1>3, <1>6, <2>2, <2>3, <2>4, <2>6, SshGoesOn
<1>7. CASE Tears("litecp") /\ Goes(s, [q EXCEPT !.stage = "undo", !.undo = q.main, !.spoiled = q.spoiled \/ files' # files])
  <2>1. files' \in [Names -> Directives]
    BY <1>3, <1>4, <1>7, FilesTorn
  <2>2. PICK torn \in BOOLEAN : torn = (q.spoiled \/ files' # files)
    OBVIOUS
  <2>3. PICK m : m = [q EXCEPT !.stage = "undo", !.undo = q.main, !.spoiled = torn]
    OBVIOUS
  <2>4. /\ m \in SshJob /\ m.stage = "undo" /\ m.undo = q.main /\ (m.spoiled <=> torn)
        /\ m.before = q.before /\ m.cfg = q.cfg
    BY <1>1, <1>5, <2>3 DEF SshJob
  <2>5. Goes(s, m)
    BY <1>7, <2>2, <2>3
  <2>6. sshJob'[s] = m
    BY <2>5 DEF Goes, SshIInv, SshTyped
  <2>7. ~m.spoiled => ~q.spoiled /\ Done(s)'
    <3> SUFFICES ASSUME ~m.spoiled PROVE ~q.spoiled /\ Done(s)'
      OBVIOUS
    <3>1. ~q.spoiled /\ files' = files
      BY <2>2, <2>4
    <3>2. PICK old \in [Names -> Directives] : old = q.before
      BY <1>5
    <3>3. Restores(q.main, files, old)
      BY <1>2, <1>3, <3>1, <3>2, MainRestores
    <3>4. QED
      BY <2>4, <2>6, <3>1, <3>2, <3>3 DEF Done, At
  <2>8. QED
    BY <1>1, <1>2, <1>3, <2>1, <2>4, <2>5, <2>7, SshGoesOn
<1>8. QED
  BY <1>2, <1>6, <1>7 DEF WriteDropIn

\* What was read before the ports were touched brings back what was there before the
\* handler, however far it has got with them.
LEMMA PutBack ==
    ASSUME NEW s \in Slots, files \in [Names -> Directives], files' \in [Names -> Directives],
           NEW q \in SshJob, q = sshJob[s], HasInclude(s),
           NEW names \in SUBSET {"main", "vendor"},
           \A m \in {"main", "vendor"} \ names : files'[m] = files[m]
    PROVE  /\ Back(names) \o q.main \o UndoDropIn(s) \in Seq(Entries)
           /\ Restores(Back(names) \o q.main \o UndoDropIn(s), files', q.before)
<1>1. "main" \in Names /\ "vendor" \in Names /\ "litecp" \in Names
      /\ \A n \in Names : n = "main" \/ n = "vendor" \/ n = "litecp"
  BY DEF Names
<1>2. PICK old \in [Names -> Directives] : old = q.before
  BY JobFields
<1>3. PICK b \in Seq(Entries) : b = Back(names)
  BY BackIs
<1>4. PICK v \in Seq(Entries) : v = q.main
  BY JobFields
<1>5. PICK d \in Seq(Entries) :
        d = UndoDropIn(s) /\ Settles(d, "litecp", old["litecp"]) /\ \A m \in Names \ {"litecp"} : Untouched(d, m)
  <2>1. PICK c \in Directives : c = old["litecp"]
    BY <1>1
  <2>2. UndoDropIn(s) = << <<"litecp", c>> >>
    BY <1>2, <2>1 DEF UndoDropIn
  <2>3. QED
    BY <1>1, <2>1, <2>2, OneEntry
<1>6. /\ \A n \in names : Settles(b, n, files[n])
      /\ \A n \in Names \ names : Untouched(b, n)
  BY <1>3, BackIs
<1>7. \/ v = <<>> /\ files["main"] = old["main"]
      \/ v = << <<"main", old["main"]>> >>
  BY <1>2, <1>4 DEF HasInclude
<1>8. \A n \in Names \ {"main"} : Untouched(v, n)
  BY <1>1, <1>7 DEF Untouched
<1>9. \/ Settles(v, "main", old["main"])
      \/ Untouched(v, "main") /\ files["main"] = old["main"]
  <2>1. CASE v = <<>> /\ files["main"] = old["main"]
    BY <2>1 DEF Untouched
  <2>2. CASE v = << <<"main", old["main"]>> >>
    BY <2>2 DEF Settles
  <2>3. QED
    BY <1>7, <2>1, <2>2
<1>10. PICK w \in Seq(Entries) : w = b \o v
  <2>1. b \o v \in Seq(Entries)
    OBVIOUS
  <2>2. QED
    BY <2>1
<1>11. Settles(w, "main", old["main"]) \/ (Untouched(w, "main") /\ files'["main"] = old["main"])
  <2>1. CASE Settles(v, "main", old["main"])
    BY <1>1, <1>10, <2>1, SettlesLast
  <2>2. CASE Untouched(v, "main") /\ files["main"] = old["main"] /\ "main" \in names
    BY <1>1, <1>6, <1>10, <2>2, SettlesBefore
  <2>3. CASE Untouched(v, "main") /\ files["main"] = old["main"] /\ "main" \notin names
    BY <1>1, <1>6, <1>10, <2>3, UntouchedBoth
  <2>4. QED
    BY <1>9, <2>1, <2>2, <2>3
<1>12. Settles(w, "vendor", old["vendor"]) \/ (Untouched(w, "vendor") /\ files'["vendor"] = old["vendor"])
  <2>1. files["vendor"] = old["vendor"] /\ Untouched(v, "vendor")
    BY <1>1, <1>2, <1>8 DEF HasInclude
  <2>2. CASE "vendor" \in names
    BY <1>1, <1>6, <1>10, <2>1, <2>2, SettlesBefore
  <2>3. CASE "vendor" \notin names
    BY <1>1, <1>6, <1>10, <2>1, <2>3, UntouchedBoth
  <2>4. QED
    BY <2>2, <2>3
<1>13. b \o v \o d \in Seq(Entries) /\ b \o v \o d = w \o d
  BY <1>10
<1>14. Settles(w \o d, "litecp", old["litecp"])
  BY <1>1, <1>5, SettlesLast
<1>15. ASSUME NEW n \in {"main", "vendor"}
       PROVE  Settles(w \o d, n, old[n]) \/ (Untouched(w \o d, n) /\ files'[n] = old[n])
  <2>1. n \in Names /\ Untouched(d, n)
    BY <1>1, <1>5
  <2>2. Settles(w, n, old[n]) \/ (Untouched(w, n) /\ files'[n] = old[n])
    BY <1>11, <1>12
  <2>3. QED
    BY <2>1, <2>2, SettlesBefore, UntouchedBoth
<1>16. Restores(w \o d, files', old)
  BY <1>1, <1>14, <1>15 DEF Restores
<1>17. QED
  BY <1>2, <1>3, <1>4, <1>5, <1>13, <1>16

LEMMA CommentedOut ==
    ASSUME files \in [Names -> Directives], NEW names \in SUBSET {"main", "vendor"}
    PROVE  /\ Commented(names) \in [Names -> Directives]
           /\ \A n \in Names \ names : Commented(names)[n] = files[n]
           /\ \A n \in names : Commented(names)[n].port = NoPort /\ Commented(names)[n].include = files[n].include
<1>1. names \subseteq Names
  BY DEF Names
<1>2. ASSUME NEW n \in Names
      PROVE  LET c == [files[n] EXCEPT !.port = NoPort] IN
             c \in Directives /\ c.port = NoPort /\ c.include = files[n].include
  BY DEF Directives
<1>3. QED
  BY <1>1, <1>2 DEF Commented

LEMMA DisableConflictingPortsKeeps ==
    ASSUME SshIInv, NEW s \in Slots, DisableConflictingPorts(s)
    PROVE  SshIInv'
<1>1. At(s, "ports") /\ UNCHANGED <<served, sighup, sshDirty>> /\ {"ports", "check", "undo"} \subseteq Stages
  BY DEF DisableConflictingPorts, Stages
<1>2. PICK q \in SshJob : q = sshJob[s]
  BY <1>1, AtStage DEF At
<1>3. /\ sshJob[s] # Idle /\ files \in [Names -> Directives] /\ served.ports \subseteq SshPorts
      /\ ~q.spoiled => HasInclude(s) /\ files["litecp"] = DropIn(q.cfg)
  BY <1>1, <1>2, AtStage DEF At, Done
<1>4. "main" \in Names /\ "vendor" \in Names /\ "litecp" \in Names /\ "litecp" \notin {"main", "vendor"}
  BY DEF Names
<1>5. /\ q.before \in [Names -> Directives] /\ q.main \in Seq(Entries) /\ q.undo \in Seq(Entries)
      /\ q.spoiled \in BOOLEAN /\ q.cfg \in SshRequests
  BY JobFields
<1>6. PICK conflicting \in SUBSET {"main", "vendor"} : conflicting = Conflicting(q.cfg.port)
  BY DEF Conflicting
<1>7. CASE files' = Commented(conflicting) /\ Goes(s, [q EXCEPT !.stage = "check", !.undo = Back(conflicting)])
  <2>1. PICK undo \in Seq(Entries) : undo = Back(conflicting)
    BY <1>3, BackIs
  <2>2. PICK m : m = [q EXCEPT !.stage = "check", !.undo = undo]
    OBVIOUS
  <2>3. /\ m \in SshJob /\ m.stage = "check" /\ m.undo = undo /\ m.main = q.main
        /\ (m.spoiled <=> q.spoiled) /\ m.before = q.before /\ m.cfg = q.cfg
    BY <1>1, <1>5, <2>2 DEF SshJob
  <2>4. Goes(s, m)
    BY <1>7, <2>1, <2>2
  <2>5. sshJob'[s] = m
    BY <2>4 DEF Goes, SshIInv, SshTyped
  <2>6. /\ files' \in [Names -> Directives]
        /\ \A n \in Names \ conflicting : files'[n] = files[n]
        /\ \A n \in conflicting : files'[n].port = NoPort /\ files'[n].include = files[n].include
    BY <1>3, <1>7, CommentedOut
  <2>7. ~m.spoiled => ~q.spoiled /\ Done(s)'
    <3> SUFFICES ASSUME ~m.spoiled PROVE ~q.spoiled /\ Done(s)'
      OBVIOUS
    <3>1. ~q.spoiled /\ HasInclude(s) /\ files["litecp"] = DropIn(q.cfg)
      BY <1>3, <2>3
    <3>2. Restores(Back(conflicting) \o q.main \o UndoDropIn(s), files', q.before)
      BY <1>2, <1>3, <1>4, <2>6, <3>1, PutBack
    <3>3. UndoDropIn(s)' = UndoDropIn(s)
      BY <1>2, <2>3, <2>5 DEF UndoDropIn
    <3>4. Configured(s)'
      <4>1. files'["litecp"] = DropIn(q.cfg) /\ files'["main"].include # "no"
        BY <1>4, <2>6, <3>1 DEF HasInclude
      <4>2. {files'["main"].port, files'["vendor"].port} \subseteq {NoPort, q.cfg.port}
        BY <1>4, <1>6, <2>6 DEF Conflicting
      <4>3. QED
        BY <2>3, <2>5, <4>1, <4>2 DEF Configured
    <3>5. QED
      BY <2>1, <2>3, <2>5, <3>1, <3>2, <3>3, <3>4 DEF Done, At
  <2>8. QED
    BY <1>1, <1>2, <1>3, <2>3, <2>4, <2>6, <2>7, SshGoesOn
<1>8. ASSUME NEW n \in conflicting, NEW done,
             done = (IF n = "vendor" THEN conflicting \ {n} ELSE {}),
             files' \in {Commented(done), [Commented(done) EXCEPT ![n] = Empty]},
             Goes(s, [q EXCEPT !.stage = "undo", !.undo = Back(done \cup {n}) \o q.main \o UndoDropIn(s)])
      PROVE  SshIInv'
  <2>1. PICK names \in SUBSET {"main", "vendor"} : names = done \cup {n}
    BY <1>8
  <2>2. done \in SUBSET {"main", "vendor"} /\ n \in Names
    BY <1>4, <1>8
  <2>3. files' \in [Names -> Directives] /\ \A k \in Names \ names : files'[k] = files[k]
    BY <1>3, <1>8, <2>1, <2>2, CommentedOut, EmptyIs
  <2>4. PICK undo : undo = Back(names) \o q.main \o UndoDropIn(s)
    OBVIOUS
  <2>5. undo \in Seq(Entries)
    <3>1. PICK d \in Directives : d = q.before["litecp"]
      BY <1>4, <1>5
    <3>2. UndoDropIn(s) \in Seq(Entries)
      BY <1>2, <1>4, <3>1, OneEntry DEF UndoDropIn
    <3>3. Back(names) \in Seq(Entries)
      BY <1>3, BackIs
    <3>4. QED
      BY <1>5, <2>4, <3>2, <3>3
  <2>6. PICK m : m = [q EXCEPT !.stage = "undo", !.undo = undo]
    OBVIOUS
  <2>7. /\ m \in SshJob /\ m.stage = "undo" /\ m.undo = undo /\ (m.spoiled <=> q.spoiled) /\ m.before = q.before
    BY <1>1, <2>5, <2>6 DEF SshJob
  <2>8. Goes(s, m)
    BY <1>8, <2>1, <2>4, <2>6
  <2>9. sshJob'[s] = m
    BY <2>8 DEF Goes, SshIInv, SshTyped
  <2>10. ~m.spoiled => ~q.spoiled /\ Done(s)'
    <3> SUFFICES ASSUME ~m.spoiled PROVE ~q.spoiled /\ Done(s)'
      OBVIOUS
    <3>1. ~q.spoiled /\ HasInclude(s)
      BY <1>3, <2>7
    <3>2. Restores(undo, files', q.before)
      BY <1>2, <1>3, <1>4, <2>3, <2>4, <3>1, PutBack
    <3>3. QED
      BY <2>7, <2>9, <3>1, <3>2 DEF Done, At
  <2>11. QED
    BY <1>1, <1>2, <1>3, <2>3, <2>7, <2>8, <2>10, SshGoesOn
<1>9. QED
  BY <1>2, <1>6, <1>7, <1>8 DEF DisableConflictingPorts

LEMMA UndoAllTyped ==
    ASSUME NEW s \in Slots, NEW q \in SshJob, q = sshJob[s]
    PROVE  UndoAll(s) \in Seq(Entries)
<1>1. q.before \in [Names -> Directives] /\ q.main \in Seq(Entries) /\ q.undo \in Seq(Entries) /\ "litecp" \in Names
  BY JobFields DEF Names
<1>2. PICK d \in Directives : d = q.before["litecp"]
  BY <1>1
<1>3. UndoDropIn(s) \in Seq(Entries)
  BY <1>1, <1>2, OneEntry DEF UndoDropIn
<1>4. QED
  BY <1>1, <1>3 DEF UndoAll

\* The check or the restart has failed.
LEMMA TurnsBack ==
    ASSUME SshIInv, NEW s \in Slots, At(s, "check") \/ At(s, "restart"),
           Goes(s, [sshJob[s] EXCEPT !.stage = "undo", !.undo = UndoAll(s)]),
           UNCHANGED <<files, sshDirty>>, RestartFails
    PROVE  SshIInv'
<1>1. {"check", "restart", "undo"} \subseteq Stages
  BY DEF Stages
<1>2. PICK q \in SshJob : q = sshJob[s]
  BY <1>1, AtStage DEF At
<1>3. /\ sshJob[s] # Idle /\ files \in [Names -> Directives] /\ served.ports \subseteq SshPorts
      /\ ~q.spoiled => Restores(q.undo \o q.main \o UndoDropIn(s), files, q.before)
  BY <1>1, <1>2, AtStage DEF At, Done
<1>4. PICK undo \in Seq(Entries) : undo = UndoAll(s)
  BY <1>2, UndoAllTyped
<1>5. PICK m : m = [q EXCEPT !.stage = "undo", !.undo = undo]
  OBVIOUS
<1>6. /\ m \in SshJob /\ m.stage = "undo" /\ m.undo = undo /\ (m.spoiled <=> q.spoiled) /\ m.before = q.before
  BY <1>1, <1>5 DEF SshJob
<1>7. Goes(s, m) /\ sshJob'[s] = m
  BY <1>2, <1>4, <1>5 DEF Goes, SshIInv, SshTyped
<1>8. ~m.spoiled => ~q.spoiled /\ Done(s)'
  BY <1>2, <1>3, <1>4, <1>6, <1>7 DEF Done, At, UndoAll
<1>9. /\ served'.ports \subseteq SshPorts
      /\ UNCHANGED <<served, sighup>> \/ (served' = Down /\ sighup' = FALSE)
  BY <1>3 DEF RestartFails, Down
<1>10. QED
  BY <1>2, <1>3, <1>6, <1>7, <1>8, <1>9, SshGoesOn

LEMMA ValidateKeeps ==
    ASSUME SshIInv, NEW s \in Slots, Validate(s)
    PROVE  SshIInv'
<1>1. At(s, "check") /\ UNCHANGED <<files, served, sighup, sshDirty>> /\ {"check", "restart"} \subseteq Stages
  BY DEF Validate, Stages
<1>2. PICK q \in SshJob : q = sshJob[s]
  BY <1>1, AtStage DEF At
<1>3. CASE Goes(s, [q EXCEPT !.stage = "restart"])
  <2>1. PICK m : m = [q EXCEPT !.stage = "restart"]
    OBVIOUS
  <2>2. /\ m \in SshJob /\ m.stage = "restart" /\ m.undo = q.undo /\ m.main = q.main
        /\ (m.spoiled <=> q.spoiled) /\ m.before = q.before /\ m.cfg = q.cfg
    BY <1>1, <2>1 DEF SshJob
  <2>3. Goes(s, m) /\ sshJob'[s] = m
    BY <1>3, <2>1 DEF Goes, SshIInv, SshTyped
  <2>4. /\ sshJob[s] # Idle /\ files \in [Names -> Directives] /\ served.ports \subseteq SshPorts
        /\ ~q.spoiled => Configured(s) /\ Restores(q.undo \o q.main \o UndoDropIn(s), files, q.before)
    BY <1>1, <1>2, AtStage DEF At, Done
  <2>5. ~m.spoiled => ~q.spoiled /\ Done(s)'
    <3>1. Configured(s) => Configured(s)'
      BY <1>1, <1>2, <2>2, <2>3 DEF Configured
    <3>2. UndoDropIn(s)' = UndoDropIn(s)
      BY <1>2, <2>2, <2>3 DEF UndoDropIn
    <3>3. QED
      BY <1>1, <2>2, <2>3, <2>4, <3>1, <3>2 DEF Done, At
  <2>6. QED
    BY <1>1, <1>2, <2>2, <2>3, <2>4, <2>5, SshGoesOn
<1>4. QED
  BY <1>1, <1>2, <1>3, TurnsBack DEF Validate, RestartFails

LEMMA RestartSSHServiceKeeps ==
    ASSUME SshIInv, NEW s \in Slots, RestartSSHService(s)
    PROVE  SshIInv'
<1>1. At(s, "restart") /\ UNCHANGED files /\ "restart" \in Stages
  BY DEF RestartSSHService, Stages
<1>2. sshJob[s] # Idle /\ files \in [Names -> Directives] /\ sshDirty \in BOOLEAN
      /\ served.ports \subseteq SshPorts
  BY <1>1, AtStage DEF At
<1>3. CASE /\ Restarts \/ Signals
           /\ sshDirty' = IF sshJob[s].spoiled THEN sshDirty ELSE FALSE
           /\ Goes(s, Idle)
  <2>1. served'.ports \subseteq SshPorts /\ sshDirty' \in BOOLEAN
    BY <1>2, <1>3, EffectiveTyped DEF Restarts, Signals
  <2>2. ServedBy(files)' /\ sighup' \in BOOLEAN
    BY <1>1, <1>3 DEF ServedBy, Restarts, Signals
  <2>3. QED
    BY <1>1, <1>2, <1>3, <2>1, <2>2, SshEnds
<1>4. QED
  BY <1>1, <1>3, TurnsBack DEF RestartSSHService

LEMMA NothingLeft ==
    ASSUME files \in [Names -> Directives], NEW old \in [Names -> Directives], Restores(<<>>, files, old)
    PROVE  files = old
<1>1. \A n \in Names : ~Settles(<<>>, n, old[n])
  BY DEF Settles
<1>2. \A n \in Names : files[n] = old[n]
  BY <1>1 DEF Restores
<1>3. QED
  BY <1>2

LEMMA UndoKeeps ==
    ASSUME SshIInv, NEW s \in Slots, Undo(s)
    PROVE  SshIInv'
<1>1. At(s, "undo") /\ UNCHANGED <<served, sighup>> /\ "undo" \in Stages /\ "undo" # "include"
  BY DEF Undo, Stages
<1>2. PICK q \in SshJob : q = sshJob[s]
  BY <1>1, AtStage DEF At
<1>3. /\ sshJob[s] # Idle /\ files \in [Names -> Directives] /\ served.ports \subseteq SshPorts
      /\ sshDirty \in BOOLEAN /\ sighup \in BOOLEAN /\ q.stage = "undo"
      /\ ~q.spoiled => Restores(q.undo, files, q.before) /\ (~sshDirty => ServedBy(q.before))
  BY <1>1, <1>2, AtStage DEF At, Done
<1>4. q.before \in [Names -> Directives] /\ q.undo \in Seq(Entries) /\ q.spoiled \in BOOLEAN
  BY JobFields
<1>5. CASE q.undo = <<>>
  <2>1. Goes(s, Idle) /\ sshDirty' = (sshDirty \/ q.spoiled) /\ UNCHANGED files
    BY <1>2, <1>5 DEF Undo, SshFails
  <2>2. ~sshDirty' => ServedBy(files)'
    <3>1. ~q.spoiled => files = q.before
      BY <1>3, <1>4, <1>5, NothingLeft
    <3>2. ServedBy(files)' <=> ServedBy(files)
      BY <1>1, <2>1 DEF ServedBy
    <3>3. QED
      BY <1>3, <2>1, <3>1, <3>2
  <2>3. QED
    BY <1>1, <1>3, <1>4, <2>1, <2>2, SshEnds
<1>6. CASE q.undo # <<>>
  <2>1. PICK back \in Entries : back = Head(q.undo)
    BY <1>4, <1>6
  <2>2. PICK rest \in Seq(Entries) : rest = Tail(q.undo)
    <3>1. Tail(q.undo) \in Seq(Entries)
      BY <1>4, <1>6
    <3>2. QED
      BY <3>1
  <2>3. back[1] \in Names /\ back[2] \in Directives
    BY DEF Entries
  <2>4. UNCHANGED sshDirty
    BY <1>2, <1>6 DEF Undo
  <2>5. CASE Stores(back[1], back[2]) /\ Goes(s, [q EXCEPT !.undo = Tail(@)])
    <3>1. PICK m : m = [q EXCEPT !.undo = rest]
      OBVIOUS
    <3>2. m \in SshJob /\ m.stage = "undo" /\ m.undo = rest /\ (m.spoiled <=> q.spoiled) /\ m.before = q.before
      BY <1>3, <3>1 DEF SshJob
    <3>3. [q EXCEPT !.undo = Tail(@)] = m
      BY <2>2, <3>1 DEF SshJob
    <3>4. Goes(s, m)
      BY <2>5, <3>3
    <3>5. sshJob'[s] = m
      BY <3>4 DEF Goes, SshIInv, SshTyped
    <3>6. files' \in [Names -> Directives] /\ files' = [files EXCEPT ![Head(q.undo)[1]] = Head(q.undo)[2]]
      BY <1>3, <2>1, <2>3, <2>5, FilesStored DEF Stores
    <3>7. ~m.spoiled => ~q.spoiled /\ Done(s)'
      <4> SUFFICES ASSUME ~m.spoiled PROVE ~q.spoiled /\ Done(s)'
        OBVIOUS
      <4>1. ~q.spoiled /\ Restores(q.undo, files, q.before)
        BY <1>3, <3>2
      <4>2. Restores(rest, files', q.before)
        BY <1>3, <1>4, <1>6, <2>2, <3>6, <4>1, RestoresOn
      <4>3. QED
        BY <3>2, <3>5, <4>1, <4>2 DEF Done, At
    <3>8. QED
      BY <1>1, <1>2, <1>3, <2>4, <3>2, <3>4, <3>6, <3>7, SshGoesOn
  <2>6. CASE Tears(back[1]) /\ Goes(s, [[q EXCEPT !.undo = Tail(@)] EXCEPT !.spoiled = TRUE])
    <3>1. PICK m : m = [[q EXCEPT !.undo = rest] EXCEPT !.spoiled = TRUE]
      OBVIOUS
    <3>2. m \in SshJob /\ m.stage = "undo" /\ m.spoiled = TRUE /\ m.before = q.before
      BY <1>3, <3>1 DEF SshJob
    <3>3. [[q EXCEPT !.undo = Tail(@)] EXCEPT !.spoiled = TRUE] = m
      BY <2>2, <3>1 DEF SshJob
    <3>4. Goes(s, m)
      BY <2>6, <3>3
    <3>5. files' \in [Names -> Directives]
      BY <1>3, <2>3, <2>6, FilesTorn
    <3>6. QED
      BY <1>1, <1>2, <1>3, <2>4, <3>2, <3>4, <3>5, SshGoesOn
  <2>7. QED
    BY <1>2, <1>6, <2>1, <2>5, <2>6 DEF Undo
<1>7. QED
  BY <1>5, <1>6

LEMMA SshKilledKeeps == ASSUME SshIInv, SshKilled PROVE SshIInv'
<1>1. /\ \A s \in Slots : sshJob'[s] = Idle
      /\ sshJob' \in [Slots -> {Idle} \cup SshJob]
      /\ sshDirty' = (sshDirty \/ ~SshQuiet) /\ UNCHANGED <<files, served, sighup>>
  BY DEF SshKilled
<1>2. SshTyped'
  BY <1>1 DEF SshTyped, SshIInv
<1>3. ~sshDirty' => ServedBy(files)'
  <2>1. SshQuiet => ~Pending
    BY DEF SshQuiet, Pending
  <2>2. ServedBy(files)' <=> ServedBy(files)
    BY <1>1 DEF ServedBy
  <2>3. QED
    BY <1>1, <2>1, <2>2 DEF SshIInv
<1>4. QED
  BY <1>1, <1>2, <1>3 DEF SshIInv, SshSound

\* The daemon reads what the files say when no handler is under way; or is dirty.
LEMMA SshdRereadsKeeps == ASSUME SshIInv, SshdRereads PROVE SshIInv'
<1>1. /\ sshDirty' = (sshDirty \/ ~SshQuiet) /\ UNCHANGED <<files, sshJob>>
      /\ served' \in {Effective(files), Down} /\ sighup' = FALSE
  BY DEF SshdRereads
<1>2. SshTyped'
  <2>1. served'.ports \subseteq SshPorts
    BY <1>1, EffectiveTyped DEF SshIInv, SshTyped, Down
  <2>2. QED
    BY <1>1, <2>1 DEF SshIInv, SshTyped
<1>3. ServedBy(files)'
  BY <1>1 DEF ServedBy
<1>4. ASSUME NEW s \in Slots, sshJob[s] # Idle, ~sshJob[s].spoiled PROVE SshSound(s)'
  <2>1. Alone(s) /\ Done(s)
    BY <1>4 DEF SshIInv, SshSound
  <2>2. Alone(s)' /\ Done(s)'
    <3>1. HasInclude(s)' = HasInclude(s) /\ Configured(s)' = Configured(s) /\ UndoDropIn(s)' = UndoDropIn(s)
      BY <1>1 DEF HasInclude, Configured, UndoDropIn
    <3>2. QED
      BY <1>1, <2>1, <3>1 DEF Done, At, Alone
  <2>3. sshDirty'
    BY <1>1, <1>4 DEF SshQuiet
  <2>4. QED
    BY <2>2, <2>3 DEF SshSound
<1>5. \A s \in Slots : SshSound(s)'
  BY <1>1, <1>4 DEF SshSound
<1>6. QED
  BY <1>2, <1>3, <1>5 DEF SshIInv

LEMMA SshRebootedKeeps == ASSUME SshIInv, SshRebooted PROVE SshIInv'
<1>1. /\ \A s \in Slots : sshJob'[s] = Idle
      /\ sshJob' \in [Slots -> {Idle} \cup SshJob]
      /\ served' \in {Effective(files), Down} /\ sighup' = FALSE /\ sshDirty' = FALSE
      /\ UNCHANGED files
  BY DEF SshRebooted
<1>2. SshTyped'
  <2>1. served'.ports \subseteq SshPorts
    BY <1>1, EffectiveTyped DEF SshIInv, SshTyped, Down
  <2>2. QED
    BY <1>1, <2>1 DEF SshIInv, SshTyped
<1>3. ServedBy(files)'
  BY <1>1 DEF ServedBy
<1>4. QED
  BY <1>1, <1>2, <1>3 DEF SshIInv, SshSound

LEMMA SshStays == ASSUME SshIInv, UNCHANGED sshVars PROVE SshIInv'
<1> USE DEF sshVars
<1>1. SshTyped' /\ (~sshDirty => ServedBy(files) \/ Pending)'
  BY DEF SshIInv, SshTyped, ServedBy, Pending, At
<1>2. ASSUME NEW s \in Slots PROVE SshSound(s)'
  <2>1. /\ Alone(s) => Alone(s)'
        /\ ServedBy(sshJob[s].before) => ServedBy(sshJob[s].before)'
    BY DEF Alone, ServedBy
  <2>2. Done(s) => Done(s)'
    <3>1. HasInclude(s)' = HasInclude(s) /\ Configured(s)' = Configured(s) /\ UndoDropIn(s)' = UndoDropIn(s)
      BY DEF HasInclude, Configured, UndoDropIn
    <3>2. QED
      BY <3>1 DEF Done, At
  <2>3. QED
    BY <2>1, <2>2 DEF SshIInv, SshSound
<1>3. QED
  BY <1>1, <1>2 DEF SshIInv

LEMMA SshStepKeeps ==
    ASSUME SshIInv, NEW s \in Slots, SshStep(s) PROVE SshIInv'
  BY EnsureIncludeKeeps, WriteDropInKeeps, DisableConflictingPortsKeeps, ValidateKeeps,
     RestartSSHServiceKeeps, UndoKeeps DEF SshStep

\* A file of the panel that is read, with no other port beside it, decides.
LEMMA ConfiguredServes ==
    ASSUME NEW fs \in [Names -> Directives], NEW c \in SshRequests,
           fs["litecp"] = DropIn(c),
           {fs["main"].port, fs["vendor"].port} \subseteq {NoPort, c.port},
           NEW i \in DOMAIN Read(fs), Read(fs)[i] = "litecp"
    PROVE  /\ Effective(fs).ports = {c.port}
           /\ (\A k \in 1..(i - 1) : fs[Read(fs)[k]].password = "unset")
                => Effective(fs).password = c.password
<1>1. c.port \in SshPorts /\ c.port # NoPort /\ c.password \in {"yes", "no"}
  BY SshAssumption DEF Directives
<1>2. fs["litecp"].port = c.port /\ fs["litecp"].password = c.password
  BY DEF DropIn
<1>3. PICK r : /\ r = Read(fs)
               /\ r \in {<<"main">>, <<"vendor", "litecp", "main">>, <<"main", "vendor", "litecp">>,
                         <<"vendor", "main">>}
  <2>1. fs["main"].include \in Includes
    BY DEF Names, Directives
  <2>2. QED
    BY <2>1 DEF Read, Includes
<1>4. DOMAIN r \subseteq 1..3 /\ i \in DOMAIN r /\ r[i] = "litecp"
      /\ \A k \in DOMAIN r : r[k] \in {"main", "vendor", "litecp"}
      /\ 1..(i - 1) \subseteq DOMAIN r
  BY <1>3
<1>5. Named(fs) = {c.port}
  <2>1. \A k \in DOMAIN r : fs[r[k]].port \in {NoPort, c.port}
    BY <1>2, <1>4
  <2>2. fs[r[i]].port = c.port
    BY <1>2, <1>4
  <2>3. Named(fs) = {fs[r[k]].port : k \in DOMAIN r} \ {NoPort}
    BY <1>3 DEF Named
  <2>4. QED
    BY <1>1, <1>4, <2>1, <2>2, <2>3
<1>6. ASSUME \A k \in 1..(i - 1) : fs[r[k]].password = "unset"
      PROVE  Saying(fs) # {} /\ FirstSaying(fs) = i
  <2>1. Saying(fs) = {k \in DOMAIN r : fs[r[k]].password # "unset"}
    BY <1>3 DEF Saying
  <2>2. i \in Saying(fs) /\ i \in Int /\ Saying(fs) \subseteq 1..3
    BY <1>1, <1>2, <1>4, <2>1
  <2>3. \A k \in Saying(fs) : i <= k
    BY <1>6, <2>1, <2>2
  <2>4. \A k \in Saying(fs) : (\A l \in Saying(fs) : k <= l) => k = i
    BY <2>2, <2>3
  <2>5. FirstSaying(fs) \in Saying(fs) /\ \A k \in Saying(fs) : FirstSaying(fs) <= k
    BY <2>2, <2>3 DEF FirstSaying
  <2>6. QED
    BY <2>2, <2>4, <2>5
<1>7. ASSUME \A k \in 1..(i - 1) : fs[r[k]].password = "unset"
      PROVE  Saying(fs) # {} /\ fs[Read(fs)[FirstSaying(fs)]].password = c.password
  BY <1>2, <1>3, <1>4, <1>6, <1>7
<1>8. QED
  BY <1>3, <1>5, <1>7 DEF Effective

\* Who answers, and what then.
LEMMA OthersGoOn ==
    ASSUME SshTyped, NEW s \in Slots, NEW t \in Slots, s # t, SshStep(t)
    PROVE  sshJob'[s] = sshJob[s]
  BY DEF SshStep, EnsureInclude, WriteDropIn, DisableConflictingPorts, Validate, RestartSSHService,
         Undo, SshFails, Goes, SshTyped

LEMMA UndoAnswers ==
    ASSUME SshIInv, NEW s \in Slots, At(s, "undo"), ~sshJob[s].spoiled, SshStep(s), sshJob'[s] = Idle
    PROVE  files' = sshJob[s].before
<1>1. Undo(s)
  BY DEF SshStep, EnsureInclude, WriteDropIn, DisableConflictingPorts, Validate, RestartSSHService, At
<1>2. PICK q \in SshJob : q = sshJob[s]
  BY AtStage DEF At, Stages
<1>3. files \in [Names -> Directives] /\ Restores(q.undo, files, q.before)
  BY <1>2, AtStage DEF At, Stages, Done
<1>4. q.before \in [Names -> Directives] /\ q.undo \in Seq(Entries)
  BY JobFields
<1>5. CASE q.undo = <<>>
  <2>1. files = q.before
    BY <1>3, <1>4, <1>5, NothingLeft
  <2>2. QED
    BY <1>1, <1>2, <1>5, <2>1 DEF Undo
<1>6. CASE q.undo # <<>>
  <2>1. PICK rest \in Seq(Entries) : rest = Tail(q.undo)
    <3>1. Tail(q.undo) \in Seq(Entries)
      BY <1>4, <1>6
    <3>2. QED
      BY <3>1
  <2>2. /\ [q EXCEPT !.undo = Tail(@)] \in SshJob
        /\ [[q EXCEPT !.undo = Tail(@)] EXCEPT !.spoiled = TRUE] \in SshJob
    BY <2>1 DEF SshJob
  <2>3. sshJob'[s] \in SshJob
    BY <1>1, <1>2, <1>6, <2>2 DEF Undo, Goes, SshIInv, SshTyped
  <2>4. QED
    BY <2>3, SshIdle
<1>7. QED
  BY <1>5, <1>6

LEMMA RestartAnswers ==
    ASSUME SshIInv, NEW s \in Slots, At(s, "restart"), ~sshJob[s].spoiled, SshStep(s), sshJob'[s] = Idle,
           NEW i \in DOMAIN Read(files'), Read(files')[i] = "litecp"
    PROVE  /\ Effective(files').ports = {sshJob[s].cfg.port}
           /\ (\A k \in 1..(i - 1) : files'[Read(files')[k]].password = "unset")
                => Effective(files').password = sshJob[s].cfg.password
<1>1. RestartSSHService(s)
  BY DEF SshStep, EnsureInclude, WriteDropIn, DisableConflictingPorts, Validate, Undo, At
<1>2. PICK q \in SshJob : q = sshJob[s]
  BY AtStage DEF At, Stages
<1>3. files \in [Names -> Directives] /\ Configured(s)
  BY <1>2, AtStage DEF At, Stages, Done
<1>4. q.cfg \in SshRequests
  BY JobFields
<1>5. files' = files
  BY <1>1 DEF RestartSSHService
<1>6. PICK fs \in [Names -> Directives] : fs = files /\ fs = files'
  BY <1>3, <1>5
<1>7. fs["litecp"] = DropIn(q.cfg) /\ {fs["main"].port, fs["vendor"].port} \subseteq {NoPort, q.cfg.port}
  BY <1>2, <1>3, <1>6 DEF Configured
<1>8. QED
  BY <1>2, <1>4, <1>6, <1>7, ConfiguredServes
-----------------------------------------------------------------------------
(***************************************************************************)
(* Firewall: what the rest of a handler's commands makes of a rule.        *)
(***************************************************************************)
Never(todo, command) == \A k \in 1..Len(todo) : todo[k] # command

\* The one command comes, and the other does not come after it.
Decides(todo, command, other) ==
    \E i \in 1..Len(todo) :
        /\ todo[i] = command
        /\ \A k \in 1..Len(todo) : k > i => todo[k] # other

WillBe(rules, todo, rule) ==
    \/ Decides(todo, <<"add", rule>>, <<"remove", rule>>)
    \/ rule \in rules /\ Never(todo, <<"remove", rule>>)
WontBe(rules, todo, rule) ==
    \/ Decides(todo, <<"remove", rule>>, <<"add", rule>>)
    \/ rule \notin rules /\ Never(todo, <<"add", rule>>)

\* When all of it is done, the permanent rules say what was asked for.
Promise(job, rules) ==
    \A f \in FamilySet(job.version) :
        LET accept == <<"accept", job.port, f>>
            reject == <<"reject", job.port, f>>
        IN  /\ job.stage \in {"allow", "enable"} =>
                 /\ WontBe(rules, job.todo, reject)
                 /\ WillBe(rules, job.todo, Open(job.port)) \/ WillBe(rules, job.todo, accept)
            /\ job.stage = "deny" => WillBe(rules, job.todo, reject)
            /\ job.stage = "delete" =>
                 WontBe(rules, job.todo, accept) /\ WontBe(rules, job.todo, reject)

FwJob ==
    [stage : Operations, port : FirewallPorts, version : Versions \cup {"both"},
     todo : Seq(Commands), lapped : BOOLEAN]

\* The commands a handler for a port gives.
Own(port) ==
    {<<"start">>, <<"stop">>, <<"reload">>}
    \cup ({"add", "remove"} \X {r \in Rules : r[2] = port})

PanelRejects == {"reject"} \X {PanelPort} \X Families

Listed(job) ==
    /\ job.todo # <<>>
    /\ job.stage = "disable" => job.todo = << <<"stop">> >>
    /\ job.stage # "disable" => job.todo[Len(job.todo)] = <<"reload">>
    /\ job.stage \in {"deny", "delete"} => job.port # PanelPort
    /\ \A i \in 1..Len(job.todo) : job.todo[i] \in Own(job.port)
    /\ \A r \in PanelRejects : Never(job.todo, <<"add", r>>)
    /\ \A i \in 2..Len(job.todo) : job.todo[i] # <<"start">>
    /\ \A i \in 1..Len(job.todo) : i < Len(job.todo) => job.todo[i] # <<"reload">>

FwAlone(s) == \A t \in Slots \ {s} : fwJob[t] = Idle

FwTyped ==
    /\ permanent \subseteq Rules
    /\ runtime = Stopped \/ runtime \subseteq Rules
    /\ fwJob \in [Slots -> {Idle} \cup FwJob]
    /\ panelHalf \in BOOLEAN

FwSound(s) ==
    fwJob[s] # Idle =>
        /\ Listed(fwJob[s])
        /\ fwJob[s].lapped => panelHalf
        /\ ~fwJob[s].lapped => FwAlone(s) /\ Promise(fwJob[s], permanent)

Reach(rules) ==
    Open(PanelPort) \in rules \/ \E f \in Families : <<"accept", PanelPort, f>> \in rules

\* A handler that opens the panel's port is past the start of firewalld.
Opening ==
    \E s \in Slots :
        /\ fwJob[s] # Idle /\ fwJob[s].port = PanelPort
        /\ fwJob[s].stage \in {"allow", "enable"}
        /\ Never(fwJob[s].todo, <<"start">>)

FwIInv ==
    /\ FwTyped
    /\ \A s \in Slots : FwSound(s)
    /\ permanent \cap PanelRejects = {}
    /\ Running => runtime \cap PanelRejects = {}
    /\ ~panelHalf => (Running => Reach(runtime)) /\ (Reach(permanent) \/ Opening)
-----------------------------------------------------------------------------
LEMMA FwIdle == Idle \notin FwJob /\ Idle.stage = "idle" /\ "idle" \notin Operations
<1>1. \A j \in FwJob : j.stage \in Operations
  BY DEF FwJob
<1>2. Idle.stage = "idle" /\ "idle" \notin Operations
  BY DEF Idle, Operations
<1>3. QED
  BY <1>1, <1>2

LEMMA FwJobFields ==
    ASSUME NEW q \in FwJob
    PROVE  /\ q.stage \in Operations /\ q.port \in FirewallPorts /\ q.version \in Versions \cup {"both"}
           /\ q.todo \in Seq(Commands) /\ q.lapped \in BOOLEAN
  BY DEF FwJob

LEMMA VersionsAre ==
    ASSUME NEW v \in Versions \cup {"both"}
    PROVE  /\ v = "both" \/ v \in Families
           /\ FamilySet(v) \subseteq Families /\ FamilySet(v) # {}
  BY FirewallAssumption DEF FamilySet, Families

LEMMA RulesAre ==
    ASSUME NEW p \in FirewallPorts
    PROVE  /\ Open(p) \in Rules /\ Open(p)[2] = p
           /\ \A f \in Families, kind \in {"accept", "reject"} :
                <<kind, p, f>> \in Rules /\ <<kind, p, f>>[2] = p
  BY DEF Rules, Open

\* A command is one of three words, or it changes a rule.
LEMMA CommandsAre ==
    ASSUME NEW c \in Commands
    PROVE  /\ c \in {<<"start">>, <<"stop">>, <<"reload">>} \/ c \in {"add", "remove"} \X Rules
           /\ c \in {"add", "remove"} \X Rules => c \notin {<<"start">>, <<"stop">>, <<"reload">>}
           /\ c[1] \in {"add", "remove"} <=> c \in {"add", "remove"} \X Rules
<1>1. \A d \in {"add", "remove"} \X Rules : d[1] \in {"add", "remove"}
  OBVIOUS
<1>2. <<"start">>[1] = "start" /\ <<"stop">>[1] = "stop" /\ <<"reload">>[1] = "reload"
  OBVIOUS
<1>3. QED
  BY <1>1, <1>2 DEF Commands

LEMMA FwInitIInv == FwInit => FwIInv
<1> SUFFICES ASSUME FwInit PROVE FwIInv
  OBVIOUS
<1>1. /\ permanent = {Open(PanelPort)} /\ runtime = permanent /\ panelHalf = FALSE
      /\ fwJob = [s \in Slots |-> Idle]
  BY DEF FwInit
<1>2. Open(PanelPort) \in Rules
  BY FirewallAssumption, RulesAre
<1>3. Open(PanelPort) \notin PanelRejects
  BY DEF Open, PanelRejects
<1>4. FwTyped
  BY <1>1, <1>2 DEF FwTyped
<1>5. QED
  BY <1>1, <1>3, <1>4 DEF FwIInv, FwSound, Reach
-----------------------------------------------------------------------------
\* One command less.
LEMMA NeverOn ==
    ASSUME NEW todo \in Seq(Commands), todo # <<>>, NEW c, Never(todo, c)
    PROVE  Never(Tail(todo), c)
<1>1. Len(Tail(todo)) = Len(todo) - 1 /\ \A k \in 1..Len(Tail(todo)) : Tail(todo)[k] = todo[k + 1]
  OBVIOUS
<1>2. QED
  BY <1>1 DEF Never

LEMMA DecidesOn ==
    ASSUME NEW todo \in Seq(Commands), todo # <<>>, NEW c, NEW d, Decides(todo, c, d)
    PROVE  Decides(Tail(todo), c, d) \/ (todo[1] = c /\ Never(Tail(todo), d))
<1> DEFINE rest == Tail(todo)
<1>1. Len(rest) = Len(todo) - 1 /\ \A k \in 1..Len(rest) : rest[k] = todo[k + 1]
  OBVIOUS
<1> HIDE DEF rest
<1>2. PICK i \in 1..Len(todo) : todo[i] = c /\ \A k \in 1..Len(todo) : k > i => todo[k] # d
  BY DEF Decides
<1>3. CASE i = 1
  BY <1>1, <1>2, <1>3 DEF Never, rest
<1>4. CASE i > 1
  <2>1. i - 1 \in 1..Len(rest) /\ rest[i - 1] = c
    BY <1>1, <1>2, <1>4
  <2>2. \A k \in 1..Len(rest) : k > i - 1 => rest[k] # d
    BY <1>1, <1>2
  <2>3. QED
    BY <2>1, <2>2 DEF Decides, rest
<1>5. QED
  BY <1>3, <1>4

\* What a command makes of the permanent rules.
After(rules, c) ==
    IF c[1] = "add" THEN rules \cup {c[2]}
    ELSE IF c[1] = "remove" THEN rules \ {c[2]} ELSE rules

LEMMA WillBeOn ==
    ASSUME NEW todo \in Seq(Commands), todo # <<>>, NEW rules, NEW rule, WillBe(rules, todo, rule)
    PROVE  WillBe(After(rules, todo[1]), Tail(todo), rule)
<1>1. todo[1] \in Commands /\ 1 \in 1..Len(todo)
  OBVIOUS
<1>2. CASE Decides(todo, <<"add", rule>>, <<"remove", rule>>)
  <2>1. CASE Decides(Tail(todo), <<"add", rule>>, <<"remove", rule>>)
    BY <2>1 DEF WillBe
  <2>2. CASE todo[1] = <<"add", rule>> /\ Never(Tail(todo), <<"remove", rule>>)
    BY <2>2 DEF WillBe, After
  <2>3. QED
    BY <1>2, <2>1, <2>2, DecidesOn
<1>3. CASE rule \in rules /\ Never(todo, <<"remove", rule>>)
  <2>1. Never(Tail(todo), <<"remove", rule>>) /\ todo[1] # <<"remove", rule>>
    BY <1>1, <1>3, NeverOn DEF Never
  <2>2. todo[1][1] = "remove" => todo[1][2] # rule
    <3>1. CASE todo[1] \in {"add", "remove"} \X Rules
      BY <2>1, <3>1
    <3>2. QED
      BY <1>1, <3>1, CommandsAre
  <2>3. rule \in After(rules, todo[1])
    BY <1>3, <2>2 DEF After
  <2>4. QED
    BY <2>1, <2>3 DEF WillBe
<1>4. QED
  BY <1>2, <1>3 DEF WillBe

LEMMA WontBeOn ==
    ASSUME NEW todo \in Seq(Commands), todo # <<>>, NEW rules, NEW rule, WontBe(rules, todo, rule)
    PROVE  WontBe(After(rules, todo[1]), Tail(todo), rule)
<1>1. todo[1] \in Commands /\ 1 \in 1..Len(todo)
  OBVIOUS
<1>2. CASE Decides(todo, <<"remove", rule>>, <<"add", rule>>)
  <2>1. CASE Decides(Tail(todo), <<"remove", rule>>, <<"add", rule>>)
    BY <2>1 DEF WontBe
  <2>2. CASE todo[1] = <<"remove", rule>> /\ Never(Tail(todo), <<"add", rule>>)
    BY <2>2 DEF WontBe, After
  <2>3. QED
    BY <1>2, <2>1, <2>2, DecidesOn
<1>3. CASE rule \notin rules /\ Never(todo, <<"add", rule>>)
  <2>1. Never(Tail(todo), <<"add", rule>>) /\ todo[1] # <<"add", rule>>
    BY <1>1, <1>3, NeverOn DEF Never
  <2>2. todo[1][1] = "add" => todo[1][2] # rule
    <3>1. CASE todo[1] \in {"add", "remove"} \X Rules
      BY <2>1, <3>1
    <3>2. QED
      BY <1>1, <3>1, CommandsAre
  <2>3. rule \notin After(rules, todo[1])
    BY <1>3, <2>2 DEF After
  <2>4. QED
    BY <2>1, <2>3 DEF WontBe
<1>4. QED
  BY <1>2, <1>3 DEF WontBe

LEMMA PromiseOn ==
    ASSUME NEW q \in FwJob, q.todo # <<>>, NEW rules, Promise(q, rules), NEW m,
           m.stage = q.stage, m.port = q.port, m.version = q.version, m.todo = Tail(q.todo)
    PROVE  Promise(m, After(rules, q.todo[1]))
<1>1. q.todo \in Seq(Commands)
  BY FwJobFields
<1>2. \A r : /\ WillBe(rules, q.todo, r) => WillBe(After(rules, q.todo[1]), m.todo, r)
             /\ WontBe(rules, q.todo, r) => WontBe(After(rules, q.todo[1]), m.todo, r)
  BY <1>1, WillBeOn, WontBeOn
<1>3. QED
  BY <1>2 DEF Promise

LEMMA ListedOn ==
    ASSUME NEW q \in FwJob, Listed(q), NEW m, Tail(q.todo) # <<>>,
           m.stage = q.stage, m.port = q.port, m.todo = Tail(q.todo)
    PROVE  Listed(m) /\ Never(m.todo, <<"start">>)
<1>1. PICK todo \in Seq(Commands) : todo = q.todo
  BY FwJobFields
<1>2. /\ Len(m.todo) = Len(todo) - 1 /\ Len(todo) >= 2
      /\ \A k \in 1..Len(m.todo) : m.todo[k] = todo[k + 1]
  <2>1. Len(Tail(todo)) = Len(todo) - 1 /\ \A k \in 1..Len(Tail(todo)) : Tail(todo)[k] = todo[k + 1]
    BY <1>1 DEF Listed
  <2>2. Len(todo) >= 2
    BY <1>1 DEF Listed
  <2>3. QED
    BY <1>1, <2>1, <2>2
<1>3. m.stage # "disable"
  <2>1. Len(<< <<"stop">> >>) = 1
    OBVIOUS
  <2>2. QED
    BY <1>1, <1>2, <2>1 DEF Listed
<1>4. m.todo[Len(m.todo)] = <<"reload">>
  BY <1>1, <1>2, <1>3 DEF Listed
<1>5. Never(m.todo, <<"start">>)
  BY <1>1, <1>2 DEF Listed, Never
<1>6. \A r \in PanelRejects : Never(m.todo, <<"add", r>>)
  BY <1>1, <1>2 DEF Listed, Never
<1>7. \A i \in 1..Len(m.todo) : m.todo[i] \in Own(m.port)
  BY <1>1, <1>2 DEF Listed
<1>8. \A i \in 2..Len(m.todo) : m.todo[i] # <<"start">>
  BY <1>2, <1>5 DEF Never
<1>9. m.todo # <<>> /\ (m.stage \in {"deny", "delete"} => m.port # PanelPort)
  BY DEF Listed
<1>10. \A i \in 1..Len(m.todo) : i < Len(m.todo) => m.todo[i] # <<"reload">>
  BY <1>1, <1>2 DEF Listed
<1>11. QED
  BY <1>3, <1>4, <1>5, <1>6, <1>7, <1>8, <1>9, <1>10 DEF Listed

(***************************************************************************)
(* The commands of the handlers, one after the other.                      *)
(***************************************************************************)
Four(t, a, b, c, d) == Len(t) = 4 /\ t[1] = a /\ t[2] = b /\ t[3] = c /\ t[4] = d
Five(t, a, b, c, d, e) ==
    Len(t) = 5 /\ t[1] = a /\ t[2] = b /\ t[3] = c /\ t[4] = d /\ t[5] = e
Seven(t, a, b, c, d, e, f, g) ==
    Len(t) = 7 /\ t[1] = a /\ t[2] = b /\ t[3] = c /\ t[4] = d /\ t[5] = e /\ t[6] = f /\ t[7] = g

LEMMA EachIs ==
    ASSUME NEW verb, NEW kind, NEW p
    PROVE  /\ Each(verb, kind, p, "both") = << <<verb, <<kind, p, "ipv4">>>>, <<verb, <<kind, p, "ipv6">>>> >>
           /\ \A f \in Families : Each(verb, kind, p, f) = << <<verb, <<kind, p, f>>>> >>
           /\ "both" \notin Families
  BY DEF Each, FamilySeq, Families

LEMMA OwnAre ==
    ASSUME NEW p \in FirewallPorts
    PROVE  /\ <<"start">> \in Own(p) /\ <<"stop">> \in Own(p) /\ <<"reload">> \in Own(p)
           /\ \A verb \in {"add", "remove"} :
                /\ <<verb, Open(p)>> \in Own(p)
                /\ \A kind \in {"accept", "reject"}, f \in Families : <<verb, <<kind, p, f>>>> \in Own(p)
           /\ Own(p) \subseteq Commands
  BY RulesAre DEF Own, Commands

LEMMA AllowIs ==
    ASSUME NEW p \in FirewallPorts
    PROVE  /\ Allow(p, "both") \in Seq(Own(p))
           /\ Seven(Allow(p, "both"), <<"start">>,
                    <<"remove", <<"reject", p, "ipv4">>>>, <<"remove", <<"reject", p, "ipv6">>>>,
                    <<"remove", <<"accept", p, "ipv4">>>>, <<"remove", <<"accept", p, "ipv6">>>>,
                    <<"add", Open(p)>>, <<"reload">>)
           /\ \A f \in Families :
                /\ Allow(p, f) \in Seq(Own(p))
                /\ Five(Allow(p, f), <<"start">>, <<"remove", <<"reject", p, f>>>>, <<"remove", Open(p)>>,
                        <<"add", <<"accept", p, f>>>>, <<"reload">>)
<1>1. PICK c \in Own(p), l \in Own(p), r4 \in Own(p), r6 \in Own(p), a4 \in Own(p), a6 \in Own(p), o \in Own(p) :
        /\ c = <<"start">> /\ l = <<"reload">> /\ o = <<"add", Open(p)>>
        /\ r4 = <<"remove", <<"reject", p, "ipv4">>>> /\ r6 = <<"remove", <<"reject", p, "ipv6">>>>
        /\ a4 = <<"remove", <<"accept", p, "ipv4">>>> /\ a6 = <<"remove", <<"accept", p, "ipv6">>>>
  BY OwnAre DEF Families
<1>2. Allow(p, "both") = <<c>> \o <<r4, r6>> \o (<<a4, a6>> \o <<o>>) \o <<l>>
  BY <1>1, EachIs DEF Allow
<1>3. <<c>> \o <<r4, r6>> \o (<<a4, a6>> \o <<o>>) \o <<l>> \in Seq(Own(p))
  OBVIOUS
<1>4. Seven(<<c>> \o <<r4, r6>> \o (<<a4, a6>> \o <<o>>) \o <<l>>, c, r4, r6, a4, a6, o, l)
  BY DEF Seven
<1>5. ASSUME NEW f \in Families
      PROVE  /\ Allow(p, f) \in Seq(Own(p))
             /\ Five(Allow(p, f), <<"start">>, <<"remove", <<"reject", p, f>>>>, <<"remove", Open(p)>>,
                     <<"add", <<"accept", p, f>>>>, <<"reload">>)
  <2>1. PICK rj \in Own(p), cl \in Own(p), ac \in Own(p) :
          /\ rj = <<"remove", <<"reject", p, f>>>> /\ cl = <<"remove", Open(p)>>
          /\ ac = <<"add", <<"accept", p, f>>>>
    BY OwnAre
  <2>2. Allow(p, f) = <<c>> \o <<rj>> \o (<<cl>> \o <<ac>>) \o <<l>>
    BY <1>1, <2>1, EachIs DEF Allow
  <2>3. <<c>> \o <<rj>> \o (<<cl>> \o <<ac>>) \o <<l>> \in Seq(Own(p))
    OBVIOUS
  <2>4. Five(<<c>> \o <<rj>> \o (<<cl>> \o <<ac>>) \o <<l>>, c, rj, cl, ac, l)
    BY DEF Five
  <2>5. QED
    BY <1>1, <2>1, <2>2, <2>3, <2>4
<1>6. QED
  BY <1>1, <1>2, <1>3, <1>4, <1>5

LEMMA DenyIs ==
    ASSUME NEW p \in FirewallPorts
    PROVE  /\ Deny(p, "both") \in Seq(Own(p))
           /\ Seven(Deny(p, "both"), <<"start">>, <<"remove", Open(p)>>,
                    <<"remove", <<"accept", p, "ipv4">>>>, <<"remove", <<"accept", p, "ipv6">>>>,
                    <<"add", <<"reject", p, "ipv4">>>>, <<"add", <<"reject", p, "ipv6">>>>, <<"reload">>)
           /\ \A f \in Families :
                /\ Deny(p, f) \in Seq(Own(p))
                /\ Four(Deny(p, f), <<"start">>, <<"remove", <<"accept", p, f>>>>,
                        <<"add", <<"reject", p, f>>>>, <<"reload">>)
<1>1. PICK c \in Own(p), l \in Own(p), r4 \in Own(p), r6 \in Own(p), a4 \in Own(p), a6 \in Own(p), o \in Own(p) :
        /\ c = <<"start">> /\ l = <<"reload">> /\ o = <<"remove", Open(p)>>
        /\ r4 = <<"add", <<"reject", p, "ipv4">>>> /\ r6 = <<"add", <<"reject", p, "ipv6">>>>
        /\ a4 = <<"remove", <<"accept", p, "ipv4">>>> /\ a6 = <<"remove", <<"accept", p, "ipv6">>>>
  BY OwnAre DEF Families
<1>2. Deny(p, "both") = <<c>> \o <<o>> \o <<a4, a6>> \o <<r4, r6>> \o <<l>>
  BY <1>1, EachIs DEF Deny, CloseForBoth
<1>3. <<c>> \o <<o>> \o <<a4, a6>> \o <<r4, r6>> \o <<l>> \in Seq(Own(p))
  OBVIOUS
<1>4. Seven(<<c>> \o <<o>> \o <<a4, a6>> \o <<r4, r6>> \o <<l>>, c, o, a4, a6, r4, r6, l)
  BY DEF Seven
<1>5. ASSUME NEW f \in Families
      PROVE  /\ Deny(p, f) \in Seq(Own(p))
             /\ Four(Deny(p, f), <<"start">>, <<"remove", <<"accept", p, f>>>>,
                     <<"add", <<"reject", p, f>>>>, <<"reload">>)
  <2>1. PICK ac \in Own(p), rj \in Own(p) :
          ac = <<"remove", <<"accept", p, f>>>> /\ rj = <<"add", <<"reject", p, f>>>>
    BY OwnAre
  <2>2. Deny(p, f) = <<c>> \o <<>> \o <<ac>> \o <<rj>> \o <<l>>
    BY <1>1, <2>1, EachIs DEF Deny, CloseForBoth
  <2>3. <<c>> \o <<>> \o <<ac>> \o <<rj>> \o <<l>> \in Seq(Own(p))
    OBVIOUS
  <2>4. Four(<<c>> \o <<>> \o <<ac>> \o <<rj>> \o <<l>>, c, ac, rj, l)
    BY DEF Four
  <2>5. QED
    BY <1>1, <2>1, <2>2, <2>3, <2>4
<1>6. QED
  BY <1>1, <1>2, <1>3, <1>4, <1>5

LEMMA DeleteIs ==
    ASSUME NEW p \in FirewallPorts
    PROVE  /\ Delete(p, "both") \in Seq(Own(p))
           /\ Seven(Delete(p, "both"), <<"start">>, <<"remove", Open(p)>>,
                    <<"remove", <<"accept", p, "ipv4">>>>, <<"remove", <<"accept", p, "ipv6">>>>,
                    <<"remove", <<"reject", p, "ipv4">>>>, <<"remove", <<"reject", p, "ipv6">>>>, <<"reload">>)
           /\ \A f \in Families :
                /\ Delete(p, f) \in Seq(Own(p))
                /\ Four(Delete(p, f), <<"start">>, <<"remove", <<"accept", p, f>>>>,
                        <<"remove", <<"reject", p, f>>>>, <<"reload">>)
<1>1. PICK c \in Own(p), l \in Own(p), r4 \in Own(p), r6 \in Own(p), a4 \in Own(p), a6 \in Own(p), o \in Own(p) :
        /\ c = <<"start">> /\ l = <<"reload">> /\ o = <<"remove", Open(p)>>
        /\ r4 = <<"remove", <<"reject", p, "ipv4">>>> /\ r6 = <<"remove", <<"reject", p, "ipv6">>>>
        /\ a4 = <<"remove", <<"accept", p, "ipv4">>>> /\ a6 = <<"remove", <<"accept", p, "ipv6">>>>
  BY OwnAre DEF Families
<1>2. Delete(p, "both") = <<c>> \o <<o>> \o <<a4, a6>> \o <<r4, r6>> \o <<l>>
  BY <1>1, EachIs DEF Delete, CloseForBoth
<1>3. <<c>> \o <<o>> \o <<a4, a6>> \o <<r4, r6>> \o <<l>> \in Seq(Own(p))
  OBVIOUS
<1>4. Seven(<<c>> \o <<o>> \o <<a4, a6>> \o <<r4, r6>> \o <<l>>, c, o, a4, a6, r4, r6, l)
  BY DEF Seven
<1>5. ASSUME NEW f \in Families
      PROVE  /\ Delete(p, f) \in Seq(Own(p))
             /\ Four(Delete(p, f), <<"start">>, <<"remove", <<"accept", p, f>>>>,
                     <<"remove", <<"reject", p, f>>>>, <<"reload">>)
  <2>1. PICK ac \in Own(p), rj \in Own(p) :
          ac = <<"remove", <<"accept", p, f>>>> /\ rj = <<"remove", <<"reject", p, f>>>>
    BY OwnAre
  <2>2. Delete(p, f) = <<c>> \o <<>> \o <<ac>> \o <<rj>> \o <<l>>
    BY <1>1, <2>1, EachIs DEF Delete, CloseForBoth
  <2>3. <<c>> \o <<>> \o <<ac>> \o <<rj>> \o <<l>> \in Seq(Own(p))
    OBVIOUS
  <2>4. Four(<<c>> \o <<>> \o <<ac>> \o <<rj>> \o <<l>>, c, ac, rj, l)
    BY DEF Four
  <2>5. QED
    BY <1>1, <2>1, <2>2, <2>3, <2>4
<1>6. QED
  BY <1>1, <1>2, <1>3, <1>4, <1>5

LEMMA WordsDiffer ==
    /\ \A verb, r : <<verb, r>> \notin {<<"start">>, <<"stop">>, <<"reload">>}
    /\ <<"start">> # <<"reload">> /\ <<"stop">> # <<"reload">> /\ <<"start">> # <<"stop">>
    /\ \A r, q : <<"add", r>> # <<"remove", q>>
    /\ \A r, q : <<"add", r>> = <<"add", q>> => r = q
<1>1. \A verb, r : Len(<<verb, r>>) = 2
  OBVIOUS
<1>2. Len(<<"start">>) = 1 /\ Len(<<"stop">>) = 1 /\ Len(<<"reload">>) = 1
  OBVIOUS
<1>3. QED
  BY <1>1, <1>2

LEMMA RejectsAre ==
    /\ \A r \in PanelRejects : r[1] = "reject" /\ r[2] = PanelPort
    /\ \A p, f : Open(p)[1] = "port" /\ <<"accept", p, f>>[1] = "accept" /\ <<"reject", p, f>>[2] = p
  BY DEF PanelRejects, Open

\* A list of commands that starts and ends as the handlers' lists do.
LEMMA ListedWhen ==
    ASSUME NEW p \in FirewallPorts, NEW job, NEW t \in Seq(Own(p)), job.todo = t, job.port = p,
           job.stage # "disable", job.stage \in {"deny", "delete"} => p # PanelPort,
           Len(t) >= 2, t[Len(t)] = <<"reload">>,
           \A i \in 2..Len(t) : t[i] # <<"start">>,
           \A i \in 1..Len(t) : i < Len(t) => t[i] # <<"reload">>,
           \A i \in 1..Len(t) : \A r \in PanelRejects : t[i] # <<"add", r>>
    PROVE  Listed(job)
  BY DEF Listed, Never

LEMMA AllowKept ==
    ASSUME NEW p \in FirewallPorts, NEW v \in Versions \cup {"both"}, NEW job, NEW rules,
           job.stage = "allow", job.port = p, job.version = v, job.todo = Allow(p, v)
    PROVE  Listed(job) /\ Promise(job, rules)
<1>1. CASE v = "both"
  <2>1. PICK t \in Seq(Own(p)) :
          /\ t = job.todo
          /\ Seven(t, <<"start">>,
                <<"remove", <<"reject", p, "ipv4">>>>, <<"remove", <<"reject", p, "ipv6">>>>,
                <<"remove", <<"accept", p, "ipv4">>>>, <<"remove", <<"accept", p, "ipv6">>>>,
                <<"add", Open(p)>>, <<"reload">>)
    BY <1>1, AllowIs
  <2>2. Len(t) = 7 /\ 1..Len(t) = {1, 2, 3, 4, 5, 6, 7} /\ 2..Len(t) = {2, 3, 4, 5, 6, 7}
    BY <2>1 DEF Seven
  <2>3. /\ \A i \in 2..Len(t) : t[i] # <<"start">>
        /\ \A i \in 1..Len(t) : i < Len(t) => t[i] # <<"reload">>
    BY <2>1, <2>2, WordsDiffer DEF Seven
  <2>4. ASSUME NEW i \in 1..Len(t), NEW r \in PanelRejects PROVE t[i] # <<"add", r>>
    BY <2>1, <2>2, WordsDiffer, RejectsAre DEF Seven
  <2>5. Listed(job)
    <3>1. Len(t) >= 2 /\ t[Len(t)] = <<"reload">>
      BY <2>1, <2>2 DEF Seven
    <3>2. job.stage # "disable" /\ (job.stage \in {"deny", "delete"} => p # PanelPort)
      OBVIOUS
    <3>3. \A i \in 1..Len(t) : \A r \in PanelRejects : t[i] # <<"add", r>>
      BY <2>4
    <3>4. QED
      BY <2>1, <2>3, <3>1, <3>2, <3>3, ListedWhen
  <2>6. ASSUME NEW f \in Families
        PROVE  WontBe(rules, t, <<"reject", p, f>>) /\ WillBe(rules, t, Open(p))
    <3>1. \A k \in 1..Len(t) : t[k] # <<"add", <<"reject", p, f>>>>
      <4>1. Open(p) # <<"reject", p, f>>
        BY DEF Open
      <4>2. QED
        BY <2>1, <2>2, <4>1, WordsDiffer DEF Seven
    <3>2. f = "ipv4" \/ f = "ipv6"
      BY DEF Families
    <3>3. Decides(t, <<"remove", <<"reject", p, f>>>>, <<"add", <<"reject", p, f>>>>)
      BY <2>1, <2>2, <3>1, <3>2 DEF Decides, Seven
    <3>4. Decides(t, <<"add", Open(p)>>, <<"remove", Open(p)>>)
      <4>1. \A k \in 1..Len(t) : k > 6 => t[k] # <<"remove", Open(p)>>
        BY <2>1, <2>2, WordsDiffer DEF Seven
      <4>2. QED
        BY <2>1, <2>2, <4>1 DEF Decides, Seven
    <3>5. QED
      BY <3>3, <3>4 DEF WontBe, WillBe
  <2>7. FamilySet(v) \subseteq Families
    BY VersionsAre
  <2>8. QED
    BY <2>1, <2>5, <2>6, <2>7 DEF Promise
<1>2. CASE v \in Families
  <2>1. PICK t \in Seq(Own(p)) :
          /\ t = job.todo
          /\ Five(t, <<"start">>, <<"remove", <<"reject", p, v>>>>, <<"remove", Open(p)>>,
                <<"add", <<"accept", p, v>>>>, <<"reload">>)
    BY <1>2, AllowIs
  <2>2. Len(t) = 5 /\ 1..Len(t) = {1, 2, 3, 4, 5} /\ 2..Len(t) = {2, 3, 4, 5}
    BY <2>1 DEF Five
  <2>3. /\ \A i \in 2..Len(t) : t[i] # <<"start">>
        /\ \A i \in 1..Len(t) : i < Len(t) => t[i] # <<"reload">>
    BY <2>1, <2>2, WordsDiffer DEF Five
  <2>4. ASSUME NEW i \in 1..Len(t), NEW r \in PanelRejects PROVE t[i] # <<"add", r>>
    BY <2>1, <2>2, WordsDiffer, RejectsAre DEF Five
  <2>5. Listed(job)
    <3>1. Len(t) >= 2 /\ t[Len(t)] = <<"reload">>
      BY <2>1, <2>2 DEF Five
    <3>2. job.stage # "disable" /\ (job.stage \in {"deny", "delete"} => p # PanelPort)
      OBVIOUS
    <3>3. \A i \in 1..Len(t) : \A r \in PanelRejects : t[i] # <<"add", r>>
      BY <2>4
    <3>4. QED
      BY <2>1, <2>3, <3>1, <3>2, <3>3, ListedWhen
  <2>6. WontBe(rules, t, <<"reject", p, v>>) /\ WillBe(rules, t, <<"accept", p, v>>)
    <3>1. \A k \in 1..Len(t) : t[k] # <<"add", <<"reject", p, v>>>>
      <4>1. <<"accept", p, v>> # <<"reject", p, v>>
        OBVIOUS
      <4>2. QED
        BY <2>1, <2>2, <4>1, WordsDiffer DEF Five
    <3>2. Decides(t, <<"remove", <<"reject", p, v>>>>, <<"add", <<"reject", p, v>>>>)
      BY <2>1, <2>2, <3>1 DEF Decides, Five
    <3>3. Decides(t, <<"add", <<"accept", p, v>>>>, <<"remove", <<"accept", p, v>>>>)
      <4>1. \A k \in 1..Len(t) : k > 4 => t[k] # <<"remove", <<"accept", p, v>>>>
        BY <2>1, <2>2, WordsDiffer DEF Five
      <4>2. QED
        BY <2>1, <2>2, <4>1 DEF Decides, Five
    <3>4. QED
      BY <3>2, <3>3 DEF WontBe, WillBe
  <2>7. FamilySet(v) = {v}
    BY <1>2, EachIs DEF FamilySet
  <2>8. QED
    BY <2>1, <2>5, <2>6, <2>7 DEF Promise
<1>3. QED
  BY <1>1, <1>2, VersionsAre

LEMMA DenyKept ==
    ASSUME NEW p \in FirewallPorts, NEW v \in Versions \cup {"both"}, NEW job, NEW rules, p # PanelPort,
           job.stage = "deny", job.port = p, job.version = v, job.todo = Deny(p, v)
    PROVE  Listed(job) /\ Promise(job, rules)
<1>1. CASE v = "both"
  <2>1. PICK t \in Seq(Own(p)) :
          /\ t = job.todo
          /\ Seven(t, <<"start">>, <<"remove", Open(p)>>,
                <<"remove", <<"accept", p, "ipv4">>>>, <<"remove", <<"accept", p, "ipv6">>>>,
                <<"add", <<"reject", p, "ipv4">>>>, <<"add", <<"reject", p, "ipv6">>>>, <<"reload">>)
    BY <1>1, DenyIs
  <2>2. Len(t) = 7 /\ 1..Len(t) = {1, 2, 3, 4, 5, 6, 7} /\ 2..Len(t) = {2, 3, 4, 5, 6, 7}
    BY <2>1 DEF Seven
  <2>3. /\ \A i \in 2..Len(t) : t[i] # <<"start">>
        /\ \A i \in 1..Len(t) : i < Len(t) => t[i] # <<"reload">>
    BY <2>1, <2>2, WordsDiffer DEF Seven
  <2>4. ASSUME NEW i \in 1..Len(t), NEW r \in PanelRejects PROVE t[i] # <<"add", r>>
    BY <2>1, <2>2, WordsDiffer, RejectsAre DEF Seven
  <2>5. Listed(job)
    <3>1. Len(t) >= 2 /\ t[Len(t)] = <<"reload">>
      BY <2>1, <2>2 DEF Seven
    <3>2. job.stage # "disable" /\ (job.stage \in {"deny", "delete"} => p # PanelPort)
      OBVIOUS
    <3>3. \A i \in 1..Len(t) : \A r \in PanelRejects : t[i] # <<"add", r>>
      BY <2>4
    <3>4. QED
      BY <2>1, <2>3, <3>1, <3>2, <3>3, ListedWhen
  <2>6. ASSUME NEW f \in Families PROVE WillBe(rules, t, <<"reject", p, f>>)
    <3>1. f = "ipv4" \/ f = "ipv6"
      BY DEF Families
    <3>2. \A k \in 1..Len(t) : k > 4 => t[k] # <<"remove", <<"reject", p, f>>>>
      BY <2>1, <2>2, WordsDiffer DEF Seven
    <3>3. Decides(t, <<"add", <<"reject", p, f>>>>, <<"remove", <<"reject", p, f>>>>)
      BY <2>1, <2>2, <3>1, <3>2 DEF Decides, Seven
    <3>4. QED
      BY <3>3 DEF WillBe
  <2>7. FamilySet(v) \subseteq Families
    BY VersionsAre
  <2>8. QED
    BY <2>1, <2>5, <2>6, <2>7 DEF Promise
<1>2. CASE v \in Families
  <2>1. PICK t \in Seq(Own(p)) :
          /\ t = job.todo
          /\ Four(t, <<"start">>, <<"remove", <<"accept", p, v>>>>, <<"add", <<"reject", p, v>>>>, <<"reload">>)
    BY <1>2, DenyIs
  <2>2. Len(t) = 4 /\ 1..Len(t) = {1, 2, 3, 4} /\ 2..Len(t) = {2, 3, 4}
    BY <2>1 DEF Four
  <2>3. /\ \A i \in 2..Len(t) : t[i] # <<"start">>
        /\ \A i \in 1..Len(t) : i < Len(t) => t[i] # <<"reload">>
    BY <2>1, <2>2, WordsDiffer DEF Four
  <2>4. ASSUME NEW i \in 1..Len(t), NEW r \in PanelRejects PROVE t[i] # <<"add", r>>
    BY <2>1, <2>2, WordsDiffer, RejectsAre DEF Four
  <2>5. Listed(job)
    <3>1. Len(t) >= 2 /\ t[Len(t)] = <<"reload">>
      BY <2>1, <2>2 DEF Four
    <3>2. job.stage # "disable" /\ (job.stage \in {"deny", "delete"} => p # PanelPort)
      OBVIOUS
    <3>3. \A i \in 1..Len(t) : \A r \in PanelRejects : t[i] # <<"add", r>>
      BY <2>4
    <3>4. QED
      BY <2>1, <2>3, <3>1, <3>2, <3>3, ListedWhen
  <2>6. WillBe(rules, t, <<"reject", p, v>>)
    <3>1. \A k \in 1..Len(t) : k > 3 => t[k] # <<"remove", <<"reject", p, v>>>>
      BY <2>1, <2>2, WordsDiffer DEF Four
    <3>2. QED
      BY <2>1, <2>2, <3>1 DEF Decides, WillBe, Four
  <2>7. FamilySet(v) = {v}
    BY <1>2, EachIs DEF FamilySet
  <2>8. QED
    BY <2>1, <2>5, <2>6, <2>7 DEF Promise
<1>3. QED
  BY <1>1, <1>2, VersionsAre

LEMMA DeleteKept ==
    ASSUME NEW p \in FirewallPorts, NEW v \in Versions \cup {"both"}, NEW job, NEW rules, p # PanelPort,
           job.stage = "delete", job.port = p, job.version = v, job.todo = Delete(p, v)
    PROVE  Listed(job) /\ Promise(job, rules)
<1>1. CASE v = "both"
  <2>1. PICK t \in Seq(Own(p)) :
          /\ t = job.todo
          /\ Seven(t, <<"start">>, <<"remove", Open(p)>>,
                <<"remove", <<"accept", p, "ipv4">>>>, <<"remove", <<"accept", p, "ipv6">>>>,
                <<"remove", <<"reject", p, "ipv4">>>>, <<"remove", <<"reject", p, "ipv6">>>>, <<"reload">>)
    BY <1>1, DeleteIs
  <2>2. Len(t) = 7 /\ 1..Len(t) = {1, 2, 3, 4, 5, 6, 7} /\ 2..Len(t) = {2, 3, 4, 5, 6, 7}
    BY <2>1 DEF Seven
  <2>3. /\ \A i \in 2..Len(t) : t[i] # <<"start">>
        /\ \A i \in 1..Len(t) : i < Len(t) => t[i] # <<"reload">>
    BY <2>1, <2>2, WordsDiffer DEF Seven
  <2>4. \A i \in 1..Len(t) : \A r : t[i] # <<"add", r>>
    BY <2>1, <2>2, WordsDiffer DEF Seven
  <2>5. Listed(job)
    <3>1. Len(t) >= 2 /\ t[Len(t)] = <<"reload">>
      BY <2>1, <2>2 DEF Seven
    <3>2. job.stage # "disable" /\ (job.stage \in {"deny", "delete"} => p # PanelPort)
      OBVIOUS
    <3>3. \A i \in 1..Len(t) : \A r \in PanelRejects : t[i] # <<"add", r>>
      BY <2>4
    <3>4. QED
      BY <2>1, <2>3, <3>1, <3>2, <3>3, ListedWhen
  <2>6. ASSUME NEW f \in Families
        PROVE  WontBe(rules, t, <<"accept", p, f>>) /\ WontBe(rules, t, <<"reject", p, f>>)
    <3>1. f = "ipv4" \/ f = "ipv6"
      BY DEF Families
    <3>2. /\ Decides(t, <<"remove", <<"accept", p, f>>>>, <<"add", <<"accept", p, f>>>>)
          /\ Decides(t, <<"remove", <<"reject", p, f>>>>, <<"add", <<"reject", p, f>>>>)
      BY <2>1, <2>2, <2>4, <3>1 DEF Decides, Seven
    <3>3. QED
      BY <3>2 DEF WontBe
  <2>7. FamilySet(v) \subseteq Families
    BY VersionsAre
  <2>8. QED
    BY <2>1, <2>5, <2>6, <2>7 DEF Promise
<1>2. CASE v \in Families
  <2>1. PICK t \in Seq(Own(p)) :
          /\ t = job.todo
          /\ Four(t, <<"start">>, <<"remove", <<"accept", p, v>>>>, <<"remove", <<"reject", p, v>>>>, <<"reload">>)
    BY <1>2, DeleteIs
  <2>2. Len(t) = 4 /\ 1..Len(t) = {1, 2, 3, 4} /\ 2..Len(t) = {2, 3, 4}
    BY <2>1 DEF Four
  <2>3. /\ \A i \in 2..Len(t) : t[i] # <<"start">>
        /\ \A i \in 1..Len(t) : i < Len(t) => t[i] # <<"reload">>
    BY <2>1, <2>2, WordsDiffer DEF Four
  <2>4. \A i \in 1..Len(t) : \A r : t[i] # <<"add", r>>
    BY <2>1, <2>2, WordsDiffer DEF Four
  <2>5. Listed(job)
    <3>1. Len(t) >= 2 /\ t[Len(t)] = <<"reload">>
      BY <2>1, <2>2 DEF Four
    <3>2. job.stage # "disable" /\ (job.stage \in {"deny", "delete"} => p # PanelPort)
      OBVIOUS
    <3>3. \A i \in 1..Len(t) : \A r \in PanelRejects : t[i] # <<"add", r>>
      BY <2>4
    <3>4. QED
      BY <2>1, <2>3, <3>1, <3>2, <3>3, ListedWhen
  <2>6. WontBe(rules, t, <<"accept", p, v>>) /\ WontBe(rules, t, <<"reject", p, v>>)
    BY <2>1, <2>2, <2>4 DEF Decides, WontBe, Four
  <2>7. FamilySet(v) = {v}
    BY <1>2, EachIs DEF FamilySet
  <2>8. QED
    BY <2>1, <2>5, <2>6, <2>7 DEF Promise
<1>3. QED
  BY <1>1, <1>2, VersionsAre

LEMMA SwitchKept ==
    ASSUME NEW job, NEW rules, rules \cap PanelRejects = {}, job.port = PanelPort, job.version = "both",
           \/ job.stage = "enable" /\ job.todo = EnsureBaselineRules
           \/ job.stage = "disable" /\ job.todo = << <<"stop">> >>
    PROVE  job.todo \in Seq(Own(PanelPort)) /\ Listed(job) /\ Promise(job, rules)
<1>1. CASE job.stage = "disable" /\ job.todo = << <<"stop">> >>
  <2>1. PICK c \in Own(PanelPort) : c = <<"stop">>
    BY FirewallAssumption, OwnAre
  <2>2. <<c>> \in Seq(Own(PanelPort)) /\ Len(<<c>>) = 1 /\ <<c>>[1] = c
    OBVIOUS
  <2>3. \A i \in 1..Len(<<c>>) : i = 1
    BY <2>2
  <2>4. Listed(job)
    BY <1>1, <2>1, <2>2, <2>3, WordsDiffer DEF Listed, Never
  <2>5. QED
    BY <1>1, <2>1, <2>2, <2>4 DEF Promise
<1>2. CASE job.stage = "enable" /\ job.todo = EnsureBaselineRules
  <2>1. PICK c \in Own(PanelPort), o \in Own(PanelPort), l \in Own(PanelPort) :
          c = <<"start">> /\ o = <<"add", Open(PanelPort)>> /\ l = <<"reload">>
    BY FirewallAssumption, OwnAre
  <2>2. PICK t \in Seq(Own(PanelPort)) : t = <<c, o, l>>
    <3>1. <<c, o, l>> \in Seq(Own(PanelPort))
      OBVIOUS
    <3>2. QED
      BY <3>1
  <2>3. Len(t) = 3 /\ t[1] = c /\ t[2] = o /\ t[3] = l /\ t = job.todo
    BY <1>2, <2>1, <2>2 DEF EnsureBaselineRules
  <2>4. 1..Len(t) = {1, 2, 3} /\ 2..Len(t) = {2, 3}
    BY <2>3
  <2>5. /\ \A i \in 2..Len(t) : t[i] # <<"start">>
        /\ \A i \in 1..Len(t) : i < Len(t) => t[i] # <<"reload">>
    BY <2>1, <2>3, <2>4, WordsDiffer
  <2>6. \A f : \A i \in 1..Len(t) : t[i] # <<"add", <<"reject", PanelPort, f>>>>
    <3>1. \A f : Open(PanelPort) # <<"reject", PanelPort, f>>
      BY DEF Open
    <3>2. QED
      BY <2>1, <2>3, <2>4, <3>1, WordsDiffer
  <2>7. ASSUME NEW i \in 1..Len(t), NEW r \in PanelRejects PROVE t[i] # <<"add", r>>
    BY <2>1, <2>3, <2>4, WordsDiffer, RejectsAre
  <2>8. Listed(job)
    <3>1. Len(t) >= 2 /\ t[Len(t)] = <<"reload">>
      BY <2>1, <2>3
    <3>2. job.stage # "disable" /\ job.stage \notin {"deny", "delete"} /\ PanelPort \in FirewallPorts
      BY <1>2, FirewallAssumption
    <3>3. \A i \in 1..Len(t) : \A r \in PanelRejects : t[i] # <<"add", r>>
      BY <2>7
    <3>4. QED
      BY <2>3, <2>5, <3>1, <3>2, <3>3, ListedWhen
  <2>9. ASSUME NEW f \in Families
        PROVE  WontBe(rules, t, <<"reject", PanelPort, f>>) /\ WillBe(rules, t, Open(PanelPort))
    <3>1. <<"reject", PanelPort, f>> \notin rules
      BY DEF PanelRejects
    <3>2. \A k \in 1..Len(t) : k > 2 => t[k] # <<"remove", Open(PanelPort)>>
      BY <2>1, <2>3, <2>4, WordsDiffer
    <3>3. Decides(t, <<"add", Open(PanelPort)>>, <<"remove", Open(PanelPort)>>)
      BY <2>1, <2>3, <2>4, <3>2 DEF Decides
    <3>4. QED
      BY <2>6, <3>1, <3>3 DEF WontBe, WillBe, Never
  <2>10. FamilySet("both") \subseteq Families
    BY VersionsAre
  <2>11. QED
    BY <1>2, <2>2, <2>3, <2>8, <2>9, <2>10 DEF Promise
<1>3. QED
  BY <1>1, <1>2

LEMMA TodoKept ==
    ASSUME NEW operation \in Operations, NEW port \in FirewallPorts, NEW version \in Versions \cup {"both"},
           Permissible(operation, port), operation \in {"enable", "disable"} => version = "both",
           NEW job, job.stage = operation, job.port = port, job.version = version,
           job.todo = Todo(operation, port, version), permanent \cap PanelRejects = {}
    PROVE  job.todo \in Seq(Commands) /\ Listed(job) /\ Promise(job, permanent)
<1>1. \A t \in Seq(Own(port)) : t \in Seq(Commands)
  <2>1. Own(port) \subseteq Commands
    BY OwnAre
  <2>2. QED
    BY <2>1
<1>2. version = "both" \/ version \in Families
  BY VersionsAre
<1>3. CASE operation = "allow"
  <2>1. job.todo = Allow(port, version)
    BY <1>3 DEF Todo
  <2>2. job.todo \in Seq(Own(port))
    BY <1>2, <2>1, AllowIs
  <2>3. Listed(job) /\ Promise(job, permanent)
    BY <1>3, <2>1, AllowKept
  <2>4. QED
    BY <1>1, <2>2, <2>3
<1>4. CASE operation = "deny"
  <2>1. job.todo = Deny(port, version) /\ port # PanelPort
    BY <1>4 DEF Todo, Permissible
  <2>2. job.todo \in Seq(Own(port))
    BY <1>2, <2>1, DenyIs
  <2>3. Listed(job) /\ Promise(job, permanent)
    BY <1>4, <2>1, DenyKept
  <2>4. QED
    BY <1>1, <2>2, <2>3
<1>5. CASE operation = "delete"
  <2>1. job.todo = Delete(port, version) /\ port # PanelPort
    BY <1>5 DEF Todo, Permissible
  <2>2. job.todo \in Seq(Own(port))
    BY <1>2, <2>1, DeleteIs
  <2>3. Listed(job) /\ Promise(job, permanent)
    BY <1>5, <2>1, DeleteKept
  <2>4. QED
    BY <1>1, <2>2, <2>3
<1>6. CASE operation \in {"enable", "disable"}
  <2>1. /\ port = PanelPort /\ version = "both"
        /\ operation = "enable" => job.todo = EnsureBaselineRules
        /\ operation = "disable" => job.todo = << <<"stop">> >>
    BY <1>6 DEF Todo, Permissible
  <2>2. job.todo \in Seq(Own(PanelPort)) /\ Listed(job) /\ Promise(job, permanent)
    BY <1>6, <2>1, SwitchKept
  <2>3. QED
    BY <1>1, <2>1, <2>2
<1>7. QED
  BY <1>3, <1>4, <1>5, <1>6 DEF Operations

LEMMA FirewallCallKeeps ==
    ASSUME FwIInv, NEW s \in Slots, NEW operation \in Operations, NEW port \in FirewallPorts,
           NEW version \in Versions, fwJob[s] = Idle, FirewallCall(s, operation, port, version)
    PROVE  FwIInv'
<1> DEFINE q == [stage |-> operation, port |-> port, version |-> version,
                 todo |-> Todo(operation, port, version), lapped |-> ~FwQuiet]
<1>1. /\ Permissible(operation, port)
      /\ operation \in {"enable", "disable"} => version = "both"
      /\ panelHalf' = (panelHalf \/ ~FwQuiet) /\ UNCHANGED <<permanent, runtime>>
  BY DEF FirewallCall
<1>2. /\ permanent \subseteq Rules /\ fwJob \in [Slots -> {Idle} \cup FwJob]
      /\ panelHalf \in BOOLEAN /\ permanent \cap PanelRejects = {}
  BY DEF FwIInv, FwTyped
<1>3. FwQuiet \in BOOLEAN
  BY DEF FwQuiet
<1>4. fwJob' = [t \in Slots |->
        IF t = s THEN q
        ELSE IF fwJob[t] = Idle THEN Idle
        ELSE [fwJob[t] EXCEPT !.lapped = TRUE]]
  BY DEF FirewallCall
<1>5. PICK todo : todo = Todo(operation, port, version)
  OBVIOUS
<1>6. /\ q.stage = operation /\ q.port = port /\ q.version = version /\ q.todo = todo
      /\ q.lapped = ~FwQuiet
  BY <1>5
<1>7. q.todo \in Seq(Commands) /\ Listed(q) /\ Promise(q, permanent)
  <2>1. q.todo = Todo(operation, port, version) /\ version \in Versions \cup {"both"}
    BY <1>5, <1>6
  <2> HIDE DEF q
  <2>2. QED
    BY <1>1, <1>2, <1>6, <2>1, TodoKept
<1>8. q \in FwJob
  <2>1. todo \in Seq(Commands)
    BY <1>6, <1>7
  <2>2. q = [stage |-> operation, port |-> port, version |-> version, todo |-> todo, lapped |-> ~FwQuiet]
    BY <1>5
  <2>3. QED
    BY <1>3, <2>1, <2>2 DEF FwJob
<1> HIDE DEF q
<1>9. ASSUME NEW t \in Slots, t # s
      PROVE  /\ fwJob'[t] \in {Idle} \cup FwJob
             /\ fwJob[t] = Idle => fwJob'[t] = Idle
             /\ fwJob[t] # Idle => Listed(fwJob'[t]) /\ fwJob'[t].lapped = TRUE
  <2>1. CASE fwJob[t] = Idle
    BY <1>4, <1>9, <2>1
  <2>2. CASE fwJob[t] # Idle
    <3>1. PICK m \in FwJob : m = fwJob[t]
      BY <1>2, <2>2
    <3>2. PICK n : n = [m EXCEPT !.lapped = TRUE]
      OBVIOUS
    <3>3. /\ n \in FwJob /\ n.lapped = TRUE /\ n.todo = m.todo /\ n.port = m.port /\ n.stage = m.stage
      BY <3>2 DEF FwJob
    <3>4. Listed(m)
      BY <2>2, <3>1 DEF FwIInv, FwSound
    <3>5. Listed(n)
      BY <3>3, <3>4 DEF Listed
    <3>6. fwJob'[t] = n
      BY <1>4, <1>9, <2>2, <3>1, <3>2
    <3>7. QED
      BY <2>2, <3>3, <3>5, <3>6
  <2>3. QED
    BY <2>1, <2>2
<1>10. fwJob'[s] = q /\ fwJob' \in [Slots -> {Idle} \cup FwJob]
  BY <1>4, <1>8, <1>9
<1>11. FwTyped'
  BY <1>1, <1>2, <1>10 DEF FwIInv, FwTyped
<1>12. ASSUME NEW t \in Slots PROVE FwSound(t)'
  <2>1. CASE t = s
    <3>1. q.lapped => panelHalf'
      BY <1>1, <1>3, <1>6
    <3>2. ~q.lapped => FwAlone(s)'
      BY <1>3, <1>6, <1>9 DEF FwQuiet, FwAlone
    <3>3. QED
      BY <1>1, <1>7, <1>10, <2>1, <3>1, <3>2 DEF FwSound
  <2>2. CASE t # s
    BY <1>1, <1>9, <2>2 DEF FwSound, FwQuiet
  <2>3. QED
    BY <2>1, <2>2
<1>13. ASSUME ~panelHalf' PROVE (Running => Reach(runtime)) /\ Reach(permanent)
  <2>1. FwQuiet /\ ~panelHalf
    BY <1>1, <1>13
  <2>2. ~Opening
    BY <2>1 DEF FwQuiet, Opening
  <2>3. QED
    BY <2>1, <2>2 DEF FwIInv
<1>14. QED
  BY <1>1, <1>2, <1>11, <1>12, <1>13 DEF FwIInv, Running

\* A handler ends, other than by doing the last of its commands.
LEMMA FwEnds ==
    ASSUME FwIInv, UNCHANGED <<permanent, runtime>>, fwJob' \in [Slots -> {Idle} \cup FwJob],
           \A t \in Slots : fwJob'[t] \in {fwJob[t], Idle},
           panelHalf' \in BOOLEAN, panelHalf => panelHalf',
           ~panelHalf' => \A t \in Slots : fwJob[t] # Idle /\ fwJob[t].port = PanelPort => fwJob'[t] = fwJob[t]
    PROVE  FwIInv'
<1>1. FwTyped'
  BY DEF FwIInv, FwTyped
<1>2. ASSUME NEW t \in Slots PROVE FwSound(t)'
  <2>1. fwJob'[t] # Idle => fwJob'[t] = fwJob[t] /\ fwJob[t] # Idle
    OBVIOUS
  <2>2. FwAlone(t) => FwAlone(t)'
    BY DEF FwAlone
  <2>3. QED
    BY <2>1, <2>2 DEF FwIInv, FwSound
<1>3. ~panelHalf' => (Opening => Opening')
  BY DEF Opening
<1>4. QED
  BY <1>1, <1>2, <1>3 DEF FwIInv, Running

LEMMA CommandFailsKeeps ==
    ASSUME FwIInv, NEW s \in Slots, CommandFails(s) PROVE FwIInv'
<1>1. /\ fwJob' = [fwJob EXCEPT ![s] = Idle] /\ panelHalf' = (panelHalf \/ fwJob[s].port = PanelPort)
      /\ UNCHANGED <<permanent, runtime>>
  BY DEF CommandFails
<1>2. fwJob \in [Slots -> {Idle} \cup FwJob]
  BY DEF FwIInv, FwTyped
<1>3. /\ fwJob' \in [Slots -> {Idle} \cup FwJob] /\ fwJob'[s] = Idle
      /\ \A t \in Slots \ {s} : fwJob'[t] = fwJob[t]
  BY <1>1, <1>2
<1>4. QED
  BY <1>1, <1>3, FwEnds

LEMMA FwKilledKeeps == ASSUME FwIInv, FwKilled PROVE FwIInv'
<1>1. /\ fwJob' = [s \in Slots |-> Idle] /\ panelHalf' = (panelHalf \/ ~FwQuiet)
      /\ UNCHANGED <<permanent, runtime>>
  BY DEF FwKilled
<1>2. fwJob' \in [Slots -> {Idle} \cup FwJob] /\ \A t \in Slots : fwJob'[t] = Idle
  BY <1>1
<1>3. QED
  BY <1>1, <1>2, FwEnds DEF FwQuiet

\* What was permanent before the boot is in force after it.
LEMMA FwRebootedKeeps == ASSUME FwIInv, FwRebooted PROVE FwIInv'
<1>1. /\ \A s \in Slots : fwJob'[s] = Idle
      /\ fwJob' \in [Slots -> {Idle} \cup FwJob] /\ panelHalf' = (panelHalf \/ ~FwQuiet)
      /\ runtime' = IF Running THEN permanent ELSE Stopped
      /\ UNCHANGED permanent
  BY DEF FwRebooted
<1>2. FwTyped'
  BY <1>1 DEF FwIInv, FwTyped
<1>3. Running' => Running /\ runtime' = permanent
  BY <1>1 DEF Running
<1>4. ~panelHalf' => ~panelHalf /\ Reach(permanent)
  BY <1>1 DEF FwIInv, FwQuiet, Opening
<1>5. Reach(permanent)' <=> Reach(permanent)
  BY <1>1 DEF Reach
<1>6. Running' => Reach(runtime)' = Reach(permanent)
  BY <1>3 DEF Reach
<1>7. QED
  BY <1>1, <1>2, <1>3, <1>4, <1>5, <1>6 DEF FwIInv, FwSound

LEMMA FwStays == ASSUME FwIInv, UNCHANGED fwVars PROVE FwIInv'
<1>1. UNCHANGED <<permanent, runtime, fwJob, panelHalf>>
  BY DEF fwVars
<1>2. fwJob' \in [Slots -> {Idle} \cup FwJob] /\ panelHalf' \in BOOLEAN
  BY <1>1 DEF FwIInv, FwTyped
<1>3. QED
  BY <1>1, <1>2, FwEnds

\* Nothing is left of a promise but what the rules say.
LEMMA PromiseKept ==
    ASSUME NEW m, m.todo = <<>>, NEW rules, Promise(m, rules), NEW f \in FamilySet(m.version)
    PROVE  /\ m.stage \in {"allow", "enable"} =>
                /\ <<"reject", m.port, f>> \notin rules
                /\ Open(m.port) \in rules \/ <<"accept", m.port, f>> \in rules
           /\ m.stage = "deny" => <<"reject", m.port, f>> \in rules
           /\ m.stage = "delete" =>
                <<"accept", m.port, f>> \notin rules /\ <<"reject", m.port, f>> \notin rules
<1>1. \A c, d : ~Decides(<<>>, c, d)
  BY DEF Decides
<1>2. \A r : (WillBe(rules, m.todo, r) => r \in rules) /\ (WontBe(rules, m.todo, r) => r \notin rules)
  BY <1>1 DEF WillBe, WontBe
<1>3. QED
  BY <1>2 DEF Promise

LEMMA LastCommand ==
    ASSUME NEW q \in FwJob, Listed(q), Tail(q.todo) = <<>>
    PROVE  /\ q.stage # "disable" => q.todo[1] = <<"reload">>
           /\ q.stage = "disable" => q.todo[1] = <<"stop">>
           /\ Len(q.todo) = 1
<1>1. PICK todo \in Seq(Commands) : todo = q.todo /\ todo # <<>>
  BY FwJobFields DEF Listed
<1>2. Len(todo) = 1
  <2>1. Len(Tail(todo)) = Len(todo) - 1 /\ Len(todo) \in Nat
    BY <1>1
  <2>2. Len(Tail(todo)) = 0
    BY <1>1
  <2>3. QED
    BY <2>1, <2>2
<1>3. QED
  BY <1>1, <1>2 DEF Listed

\* What a command does to the rules.
LEMMA CommandDone ==
    ASSUME FwIInv, NEW s \in Slots, RunCommand(s), NEW q \in FwJob, q = fwJob[s], NEW c, c = q.todo[1]
    PROVE  /\ c \in Commands /\ c \in Own(q.port) /\ \A r \in PanelRejects : c # <<"add", r>>
           /\ permanent' = After(permanent, c)
           /\ runtime' \in {runtime, permanent', Stopped}
           /\ c \in {"add", "remove"} \X Rules => runtime' = runtime
           /\ c = <<"start">> => runtime' = (IF Running THEN runtime ELSE permanent')
           /\ c = <<"stop">> => runtime' = Stopped
           /\ c = <<"reload">> => runtime' = (IF Running THEN permanent' ELSE Stopped)
           /\ c \notin {"add", "remove"} \X Rules => permanent' = permanent
<1>1. fwJob[s] # Idle /\ Listed(q)
  BY DEF RunCommand, FwIInv, FwSound
<1>2. PICK todo \in Seq(Commands) : todo = q.todo /\ todo # <<>>
  BY <1>1, FwJobFields DEF Listed
<1>3. Next1(s) = c /\ c \in Commands /\ 1 \in 1..Len(todo)
  BY <1>2 DEF Next1
<1>4. c \in Own(q.port) /\ \A r \in PanelRejects : c # <<"add", r>>
  BY <1>1, <1>2, <1>3 DEF Listed, Never
<1>5. <<"start">> # <<"stop">> /\ <<"start">> # <<"reload">> /\ <<"stop">> # <<"reload">>
  BY WordsDiffer
<1>6. /\ c = <<"start">> => Start
      /\ c = <<"stop">> => Stop
      /\ c = <<"reload">> => Reload
      /\ c \notin {<<"start">>, <<"stop">>, <<"reload">>} => Change(c[1], c[2])
  BY <1>3, <1>5 DEF RunCommand
<1>7. CASE c \in {"add", "remove"} \X Rules
  <2>1. Change(c[1], c[2]) /\ c[1] \in {"add", "remove"}
    BY <1>3, <1>6, <1>7, CommandsAre
  <2>2. permanent' = After(permanent, c) /\ runtime' = runtime
    BY <2>1 DEF Change, After
  <2>3. c \notin {<<"start">>, <<"stop">>, <<"reload">>}
    BY <1>3, <1>7, CommandsAre
  <2>4. QED
    BY <1>3, <1>4, <1>7, <2>2, <2>3
<1>8. CASE c \notin {"add", "remove"} \X Rules
  <2>1. c[1] \notin {"add", "remove"} /\ c \in {<<"start">>, <<"stop">>, <<"reload">>}
    BY <1>3, <1>8, CommandsAre
  <2>2. After(permanent, c) = permanent /\ permanent' = permanent
    BY <1>6, <2>1 DEF After, Start, Stop, Reload
  <2>3. QED
    BY <1>3, <1>4, <1>5, <1>6, <1>8, <2>1, <2>2 DEF Start, Stop, Reload, Running
<1>9. QED
  BY <1>7, <1>8

LEMMA RunCommandKeeps ==
    ASSUME FwIInv, NEW s \in Slots, RunCommand(s) PROVE FwIInv'
<1>1. /\ permanent \subseteq Rules /\ fwJob \in [Slots -> {Idle} \cup FwJob]
      /\ panelHalf \in BOOLEAN /\ permanent \cap PanelRejects = {}
      /\ runtime = Stopped \/ runtime \subseteq Rules
  BY DEF FwIInv, FwTyped
<1>2. PICK q \in FwJob : q = fwJob[s]
  BY <1>1 DEF RunCommand
<1>3. fwJob[s] # Idle /\ Listed(q) /\ q.lapped \in BOOLEAN /\ (q.lapped => panelHalf)
      /\ (~q.lapped => FwAlone(s) /\ Promise(q, permanent))
  BY <1>2, FwJobFields DEF RunCommand, FwIInv, FwSound
<1>4. PICK c : c = q.todo[1]
  OBVIOUS
<1>5. q.todo \in Seq(Commands) /\ q.todo # <<>>
  BY <1>3, FwJobFields DEF Listed
<1>6. PICK rest \in Seq(Commands) : rest = Tail(q.todo)
  <2>1. Tail(q.todo) \in Seq(Commands)
    BY <1>5
  <2>2. QED
    BY <2>1
<1>7. PICK m : m = [q EXCEPT !.todo = rest]
  OBVIOUS
<1>8. /\ m \in FwJob /\ m.stage = q.stage /\ m.port = q.port /\ m.version = q.version
      /\ m.todo = rest /\ m.lapped = q.lapped
  BY <1>7 DEF FwJob
<1>9. /\ c \in Commands /\ c \in Own(q.port) /\ \A r \in PanelRejects : c # <<"add", r>>
      /\ permanent' = After(permanent, c)
      /\ runtime' \in {runtime, permanent', Stopped}
      /\ c \in {"add", "remove"} \X Rules => runtime' = runtime
      /\ c = <<"start">> => runtime' = (IF Running THEN runtime ELSE permanent')
      /\ c = <<"reload">> => runtime' = (IF Running THEN permanent' ELSE Stopped)
      /\ c \notin {"add", "remove"} \X Rules => permanent' = permanent
  BY <1>2, <1>4, CommandDone
<1>10. /\ fwJob' = [fwJob EXCEPT ![s] = IF rest = <<>> THEN Idle ELSE m]
       /\ panelHalf' = (panelHalf /\ ~(/\ rest = <<>> /\ q.stage \in {"enable", "allow"}
                                       /\ q.port = PanelPort /\ ~q.lapped))
  BY <1>2, <1>6, <1>7 DEF RunCommand
<1>11. /\ fwJob' \in [Slots -> {Idle} \cup FwJob] /\ \A t \in Slots \ {s} : fwJob'[t] = fwJob[t]
       /\ rest = <<>> => fwJob'[s] = Idle
       /\ rest # <<>> => fwJob'[s] = m
  BY <1>1, <1>8, <1>10
<1>12. permanent' \subseteq Rules /\ permanent' \cap PanelRejects = {}
  <2>1. CASE c \in {"add", "remove"} \X Rules
    <3>1. c[1] \in {"add", "remove"} /\ c[2] \in Rules /\ c = <<c[1], c[2]>>
      BY <2>1
    <3>2. QED
      BY <1>1, <1>9, <3>1 DEF After
  <2>2. QED
    BY <1>1, <1>9, <2>1
<1>13. FwTyped'
  BY <1>1, <1>9, <1>10, <1>11, <1>12 DEF FwTyped
<1>14. Running' => runtime' \cap PanelRejects = {}
  BY <1>9, <1>12 DEF FwIInv, Running
<1>15. rest # <<>> => Listed(m) /\ Never(m.todo, <<"start">>)
  BY <1>3, <1>6, <1>8, ListedOn
<1>16. ~q.lapped => Promise(m, permanent')
  BY <1>3, <1>4, <1>5, <1>6, <1>8, <1>9, PromiseOn
<1>17. ASSUME NEW t \in Slots PROVE FwSound(t)'
  <2>1. CASE t = s /\ rest # <<>>
    <3>1. ~q.lapped => FwAlone(s)'
      BY <1>3, <1>11 DEF FwAlone
    <3>2. q.lapped => panelHalf'
      BY <1>3, <1>10
    <3>3. fwJob'[t] = m
      BY <1>11, <2>1
    <3>4. QED
      BY <1>8, <1>15, <1>16, <2>1, <3>1, <3>2, <3>3 DEF FwSound
  <2>2. CASE t = s /\ rest = <<>>
    BY <1>11, <2>2 DEF FwSound
  <2>3. CASE t # s
    <3>1. fwJob'[t] = fwJob[t]
      BY <1>11, <2>3
    <3>2. fwJob[t] # Idle => Listed(fwJob[t]) /\ fwJob[t].lapped /\ q.lapped /\ panelHalf
      BY <1>2, <1>3, <2>3 DEF FwIInv, FwSound, FwAlone
    <3>3. QED
      BY <1>10, <3>1, <3>2 DEF FwSound
  <2>4. QED
    BY <2>1, <2>2, <2>3
\* Once the last command of a handler that opens the panel's port is done, it is open.
<1>18. ASSUME ~q.lapped, rest = <<>>, q.port = PanelPort, q.stage \in {"allow", "enable"}
       PROVE  Reach(permanent')
  <2>1. PICK f \in FamilySet(m.version) : f \in Families
    BY <1>8, VersionsAre, FwJobFields
  <2>2. Open(PanelPort) \in permanent' \/ <<"accept", PanelPort, f>> \in permanent'
    BY <1>8, <1>16, <1>18, <2>1, PromiseKept
  <2>3. QED
    BY <2>1, <2>2 DEF Reach
<1>19. ASSUME ~panelHalf' PROVE ((Running => Reach(runtime)) /\ (Reach(permanent) \/ Opening))'
  <2>1. CASE panelHalf
    <3>1. rest = <<>> /\ q.stage \in {"allow", "enable"} /\ q.port = PanelPort /\ ~q.lapped
      BY <1>10, <1>19, <2>1
    <3>2. c = <<"reload">>
      BY <1>3, <1>4, <1>6, <3>1, LastCommand
    <3>3. runtime' \in {permanent', Stopped}
      BY <1>9, <3>2
    <3>4. QED
      BY <1>18, <3>1, <3>3 DEF Running
  <2>2. CASE ~panelHalf
    <3>1. /\ ~q.lapped /\ FwAlone(s) /\ (Running => Reach(runtime))
          /\ Reach(permanent) \/ Opening
      BY <1>3, <2>2 DEF FwIInv
    <3>2. Opening => q.port = PanelPort /\ q.stage \in {"allow", "enable"} /\ Never(q.todo, <<"start">>)
      BY <1>2, <3>1 DEF Opening, FwAlone
    <3>3. /\ q.port = PanelPort /\ q.stage \in {"allow", "enable"} /\ rest # <<>> => Opening'
      BY <1>8, <1>11, <1>15, FwIdle DEF Opening
    <3>4. (Reach(permanent) \/ Opening)'
      <4>1. CASE Opening
        BY <1>18, <3>1, <3>2, <3>3, <4>1
      <4>2. CASE Reach(permanent) /\ c \notin {"add", "remove"} \X Rules
        BY <1>9, <4>2
      <4>3. CASE Reach(permanent) /\ c \in {"add", "remove"} \X Rules /\ q.port = PanelPort
        <5>1. c \notin {<<"start">>, <<"stop">>, <<"reload">>}
          BY <1>9, <4>3, CommandsAre
        <5>2. rest # <<>>
          BY <1>3, <1>4, <1>6, <5>1, LastCommand
        <5>3. q.stage \in {"allow", "enable"}
          <6>1. q.stage # "disable"
            <7>1. << <<"stop">> >>[1] = <<"stop">>
              OBVIOUS
            <7>2. QED
              BY <1>3, <1>4, <5>1, <7>1 DEF Listed
          <6>2. QED
            BY <1>3, <4>3, <6>1, FwJobFields DEF Listed, Operations
        <5>4. QED
          BY <3>3, <4>3, <5>2, <5>3
      <4>4. CASE Reach(permanent) /\ c \in {"add", "remove"} \X Rules /\ q.port # PanelPort
        <5>1. c[2][2] = q.port /\ c[2][2] # PanelPort
          <6>1. c \notin {<<"start">>, <<"stop">>, <<"reload">>}
            BY <1>9, <4>4, CommandsAre
          <6>2. QED
            BY <1>9, <4>4, <6>1 DEF Own
        <5>2. Open(PanelPort) # c[2] /\ \A f \in Families : <<"accept", PanelPort, f>> # c[2]
          BY <5>1, RulesAre, FirewallAssumption
        <5>3. \A r : r # c[2] /\ r \in permanent => r \in permanent'
          BY <1>9 DEF After
        <5>4. QED
          BY <4>4, <5>2, <5>3 DEF Reach
      <4>5. QED
        BY <3>1, <4>1, <4>2, <4>3, <4>4
    <3>5. Running' => Reach(runtime')
      <4>1. CASE c = <<"start">>
        <5>1. ~Never(q.todo, <<"start">>)
          <6>1. 1 \in 1..Len(q.todo)
            BY <1>5
          <6>2. QED
            BY <1>4, <4>1, <6>1 DEF Never
        <5>2. Reach(permanent)
          BY <3>1, <3>2, <5>1
        <5>3. permanent' = permanent
          BY <1>9, <4>1, CommandsAre
        <5>4. QED
          BY <1>9, <3>1, <4>1, <5>2, <5>3
      <4>2. CASE c = <<"reload">>
        <5>1. rest = <<>>
          <6>1. 1 \in 1..Len(q.todo)
            BY <1>5
          <6>2. ~(1 < Len(q.todo))
            BY <1>3, <1>4, <4>2, <6>1 DEF Listed
          <6>3. Len(q.todo) = 1
            <7>1. PICK n \in Nat : n = Len(q.todo)
              BY <1>5
            <7>2. n >= 1 /\ ~(1 < n)
              BY <6>1, <6>2, <7>1
            <7>3. n = 1
              BY <7>2
            <7>4. QED
              BY <7>1, <7>3
          <6>4. Len(rest) = 0
            BY <1>5, <1>6, <6>3
          <6>5. QED
            BY <1>6, <6>4
        <5>2. Opening => Reach(permanent')
          BY <1>18, <3>1, <3>2, <5>1
        <5>3. permanent' = permanent
          BY <1>9, <4>2, CommandsAre
        <5>4. QED
          BY <1>9, <3>1, <4>2, <5>2, <5>3 DEF Running
      <4>3. CASE c = <<"stop">>
        BY <1>2, <1>4, <4>3, CommandDone DEF Running
      <4>4. CASE c \in {"add", "remove"} \X Rules
        BY <1>9, <3>1, <4>4 DEF Running
      <4>5. QED
        BY <1>9, <4>1, <4>2, <4>3, <4>4, CommandsAre
    <3>6. QED
      BY <3>4, <3>5
  <2>3. QED
    BY <1>1, <2>1, <2>2
<1>20. QED
  BY <1>12, <1>13, <1>14, <1>17, <1>19 DEF FwIInv

LEMMA FwStepKeeps ==
    ASSUME FwIInv, NEW s \in Slots, FwStep(s) PROVE FwIInv'
  BY RunCommandKeeps, CommandFailsKeeps DEF FwStep

\* Who answers, and what then.
LEMMA CommandAnswers ==
    ASSUME FwIInv, NEW s \in Slots, FwStep(s), fwJob[s] # Idle, fwJob'[s] = Idle,
           Len(fwJob[s].todo) = 1, faults \in Nat, faults' = faults,
           ~fwJob[s].lapped, runtime' # Stopped,
           NEW f \in FamilySet(fwJob[s].version)
    PROVE  /\ fwJob[s].stage \in {"allow", "enable"} => Permits(runtime', fwJob[s].port, f)
           /\ fwJob[s].stage = "deny" => ~Permits(runtime', fwJob[s].port, f)
           /\ fwJob[s].stage = "delete" =>
                runtime' \cap ({"accept", "reject"} \X {fwJob[s].port} \X {f}) = {}
<1>1. PICK q \in FwJob : q = fwJob[s]
  BY DEF FwIInv, FwTyped
<1>2. Listed(q) /\ Promise(q, permanent)
  BY <1>1 DEF FwIInv, FwSound
<1>3. PICK todo \in Seq(Commands) : todo = q.todo /\ Len(todo) = 1 /\ todo # <<>> /\ Tail(todo) = <<>>
  BY <1>1, <1>2, FwJobFields DEF Listed
<1>4. PICK c : c = todo[1]
  OBVIOUS
<1>5. c = <<"reload">> \/ c = <<"stop">>
  BY <1>2, <1>3, <1>4, LastCommand
<1>6. RunCommand(s)
  <2>1. Next1(s) = c
    BY <1>1, <1>3, <1>4 DEF Next1
  <2>2. c[1] \notin {"add", "remove"}
    BY <1>5
  <2>3. faults + 1 # faults
    OBVIOUS
  <2>4. ~CommandFails(s)
    BY <2>1, <2>2, <2>3 DEF CommandFails, Failing
  <2>5. QED
    BY <2>4 DEF FwStep
<1>7. runtime' = permanent' /\ permanent' = After(permanent, c)
  BY <1>1, <1>3, <1>4, <1>5, <1>6, CommandDone
<1>8. PICK m : m = [q EXCEPT !.todo = <<>>]
  OBVIOUS
<1>9. m.stage = q.stage /\ m.port = q.port /\ m.version = q.version /\ m.todo = <<>>
  BY <1>8 DEF FwJob
<1>10. Promise(m, permanent')
  BY <1>2, <1>3, <1>4, <1>7, <1>9, PromiseOn
<1>11. /\ q.stage \in {"allow", "enable"} =>
             /\ <<"reject", q.port, f>> \notin permanent'
             /\ Open(q.port) \in permanent' \/ <<"accept", q.port, f>> \in permanent'
       /\ q.stage = "deny" => <<"reject", q.port, f>> \in permanent'
       /\ q.stage = "delete" =>
            <<"accept", q.port, f>> \notin permanent' /\ <<"reject", q.port, f>> \notin permanent'
  BY <1>1, <1>9, <1>10, PromiseKept
<1>12. QED
  BY <1>1, <1>7, <1>11 DEF Permits
-----------------------------------------------------------------------------
(***************************************************************************)
(* Every step of all of them, and the theorems about SSH and the firewall. *)
(***************************************************************************)
LEMMA BoundsAtFirst == Init => BoundsOK
  BY BoundsAssumption DEF Init, BoundsInit, BoundsOK

\* The bounds are the same in the module of the update.
LEMMA UpdateBounds ==
    /\ Update!Calling <=> Calling
    /\ Update!Working <=> Working
    /\ Update!Failing <=> Failing
    /\ Update!Booting <=> Booting
  BY DEF Update!Calling, Update!Working, Update!Failing, Update!Booting, Update!Room, Update!bounds,
         Calling, Working, Failing, Booting, Room, bounds

LEMMA BoundsStep ==
    ASSUME BoundsOK, Calling \/ Working \/ Failing \/ Booting
    PROVE  BoundsOK'
<1>1. calls \in Nat /\ calls <= MaxCalls /\ faults \in Nat /\ boots \in Nat /\ MaxCalls \in Nat /\ MaxEvents \in Nat
  BY BoundsAssumption DEF BoundsOK
<1>2. CASE Calling
  BY <1>1, <1>2 DEF BoundsOK, Calling, Room
<1>3. CASE Failing
  BY <1>1, <1>3 DEF BoundsOK, Failing, Room
<1>4. CASE Working \/ Booting
  BY <1>1, <1>4 DEF BoundsOK, Working, Booting, bounds
<1>5. QED
  BY <1>2, <1>3, <1>4

LEMMA SshStepBounds ==
    ASSUME NEW s \in Slots, SshStep(s) PROVE Working \/ Failing
  BY DEF SshStep, EnsureInclude, WriteDropIn, DisableConflictingPorts, Validate, RestartSSHService, Undo, Tears

LEMMA FwStepBounds ==
    ASSUME NEW s \in Slots, FwStep(s) PROVE Working \/ Failing
  BY DEF FwStep, RunCommand, CommandFails

LEMMA UpStepBounds ==
    ASSUME NEW s \in Slots, Update!UpStep(s) PROVE Working \/ Failing
  BY UpdateBounds
     DEF Update!UpStep, Update!InstallDependencies, Update!ClearDownloads, Update!Fetch, Update!Fetched,
         Update!FetchFails, Update!StopPanel, Update!BackUp, Update!Install, Update!Restore,
         Update!DropBackup, Update!StartPanel, Update!RestartAgentFails

LEMMA NextBounds == ASSUME BoundsOK, [Next]_vars PROVE BoundsOK'
<1>1. CASE CallSsh \/ CallFirewall \/ CallUpdate
  <2>1. Calling
    BY <1>1, UpdateBounds
       DEF CallSsh, CallFirewall, CallUpdate, SetSSHConfig, FirewallCall, Update!SystemUpdate
  <2>2. QED
    BY <2>1, BoundsStep
<1>2. CASE SshWorks \/ SshdReads \/ FirewallWorks \/ UpdateWorks
  <2>1. Working \/ Failing
    BY <1>2, SshStepBounds, FwStepBounds, UpStepBounds
       DEF SshWorks, SshdReads, SshdRereads, FirewallWorks, UpdateWorks
  <2>2. QED
    BY <2>1, BoundsStep
<1>3. CASE UpdateEnds \/ AgentKilled \/ Reboot \/ PanelStarted
  <2>1. Booting \/ Working
    BY <1>3, UpdateBounds
       DEF UpdateEnds, AgentKilled, Reboot, PanelStarted, Update!RestartAgent, Update!UpKilled,
           Update!UpBooted, Update!PanelStartedByHand
  <2>2. QED
    BY <2>1, BoundsStep
<1>4. CASE UNCHANGED vars
  BY <1>4 DEF vars, bounds, BoundsOK
<1>5. QED
  BY <1>1, <1>2, <1>3, <1>4 DEF Next

LEMMA NextSsh == ASSUME SshIInv, [Next]_vars PROVE SshIInv'
<1>1. CASE CallSsh
  BY <1>1, SetSSHConfigKeeps DEF CallSsh, Callable
<1>2. CASE SshWorks
  BY <1>2, SshStepKeeps DEF SshWorks
<1>3. CASE UpdateEnds \/ AgentKilled \/ Reboot \/ SshdReads
  BY <1>3, SshKilledKeeps, SshRebootedKeeps, SshdRereadsKeeps
     DEF UpdateEnds, AgentKilled, Reboot, SshdReads
<1>4. CASE CallFirewall \/ CallUpdate \/ FirewallWorks \/ UpdateWorks \/ PanelStarted \/ UNCHANGED vars
  <2>1. UNCHANGED sshVars
    BY <1>4 DEF CallFirewall, CallUpdate, FirewallWorks, UpdateWorks, PanelStarted, vars
  <2>2. QED
    BY <2>1, SshStays
<1>5. QED
  BY <1>1, <1>2, <1>3, <1>4 DEF Next

LEMMA NextFw == ASSUME FwIInv, [Next]_vars PROVE FwIInv'
<1>1. CASE CallFirewall
  BY <1>1, FirewallCallKeeps DEF CallFirewall, Callable
<1>2. CASE FirewallWorks
  BY <1>2, FwStepKeeps DEF FirewallWorks
<1>3. CASE UpdateEnds \/ AgentKilled \/ Reboot
  BY <1>3, FwKilledKeeps, FwRebootedKeeps DEF UpdateEnds, AgentKilled, Reboot
<1>4. CASE CallSsh \/ CallUpdate \/ SshWorks \/ SshdReads \/ UpdateWorks \/ PanelStarted
           \/ UNCHANGED vars
  <2>1. UNCHANGED fwVars
    BY <1>4 DEF CallSsh, CallUpdate, SshWorks, SshdReads, UpdateWorks, PanelStarted, vars
  <2>2. QED
    BY <2>1, FwStays
<1>5. QED
  BY <1>1, <1>2, <1>3, <1>4 DEF Next

AllIInv == BoundsOK /\ IInv /\ SshIInv /\ FwIInv

LEMMA AllInductive == Spec => []AllIInv
<1>1. Init => AllIInv
  BY BoundsAtFirst, InitIInv, SshInitIInv, FwInitIInv DEF AllIInv, Init
<1>2. AllIInv /\ [Next]_vars => AllIInv'
  BY NextBounds, NextIInv, NextSsh, NextFw DEF AllIInv
<1>3. QED
  BY <1>1, <1>2, PTL DEF Spec

\* Every variable keeps its type.
THEOREM TypeCorrect == Spec => []TypeOK
<1>1. SshIInv => SshTypeOK
  <2> SUFFICES ASSUME SshIInv, NEW s \in Slots, sshJob[s] # Idle
               PROVE  /\ sshJob[s].stage \in Stages
                      /\ sshJob[s].cfg \in SshRequests
                      /\ sshJob[s].before \in [Names -> Directives]
                      /\ sshJob[s].spoiled \in BOOLEAN
                      /\ \A back \in {sshJob[s].main, sshJob[s].undo} :
                            \A i \in DOMAIN back : back[i] \in Names \X Directives
    BY DEF SshTypeOK, SshIInv, SshTyped
  <2>1. PICK q \in SshJob : q = sshJob[s]
    BY SshJobs DEF SshIInv
  <2>2. \A u \in Seq(Entries) : \A i \in DOMAIN u : u[i] \in Entries
    OBVIOUS
  <2>3. QED
    BY <2>1, <2>2, JobFields DEF Entries
<1>2. FwIInv => FwTypeOK
  <2> SUFFICES ASSUME FwIInv, NEW s \in Slots, fwJob[s] # Idle
               PROVE  /\ fwJob[s].stage \in Operations
                      /\ fwJob[s].port \in FirewallPorts
                      /\ fwJob[s].version \in Versions \cup {"both"}
                      /\ \A i \in DOMAIN fwJob[s].todo : fwJob[s].todo[i] \in Commands
                      /\ fwJob[s].lapped \in BOOLEAN
    BY DEF FwTypeOK, FwIInv, FwTyped
  <2>1. PICK q \in FwJob : q = fwJob[s]
    BY DEF FwIInv, FwTyped
  <2>2. \A u \in Seq(Commands) : \A i \in DOMAIN u : u[i] \in Commands
    OBVIOUS
  <2>3. QED
    BY <2>1, <2>2, FwJobFields
<1>3. AllIInv => TypeOK
  BY <1>1, <1>2 DEF AllIInv, TypeOK, IInv
<1>4. QED
  BY <1>3, AllInductive, PTL

\* Between calls the daemon, once it has read its files, does what they say, or is down,
\* whatever handlers have failed and whenever it read them, as long as none was killed,
\* could not put the files back, or had its half-done changes read.
THEOREM DaemonFollowsFiles == Spec => []ServedIsFiles
<1>1. SshQuiet => ~Pending
  BY DEF SshQuiet, Pending
<1>2. AllIInv => ServedIsFiles
  BY <1>1 DEF AllIInv, SshIInv, ServedIsFiles, ServedBy
<1>3. QED
  BY <1>2, AllInductive, PTL

\* The step of AllOrNothing.
Answers(s) ==
    /\ At(s, "undo") => files' = sshJob[s].before
    /\ At(s, "restart") => \A i \in DOMAIN Read(files') : Read(files')[i] = "litecp" =>
         /\ Effective(files').ports = {sshJob[s].cfg.port}
         /\ (\A k \in 1..(i - 1) : files'[Read(files')[k]].password = "unset")
              => Effective(files').password = sshJob[s].cfg.password

SshAnswers == \A s \in Slots : Answered(sshJob, s) /\ ~sshJob[s].spoiled => Answers(s)

\* A call that is refused leaves every file as it found it; after one that succeeds the
\* files, when they bring sshd to the panel's, make it do as the call said.
THEOREM SshAllOrNothing == Spec => AllOrNothing
<1>1. ASSUME AllIInv, [Next]_vars, NEW s \in Slots, Answered(sshJob, s), ~sshJob[s].spoiled,
             At(s, "undo") \/ At(s, "restart")
      PROVE  Answers(s)
  <2>1. sshJob[s] # Idle /\ sshJob'[s] = Idle /\ boots' = boots /\ boots \in Nat /\ SshIInv /\ SshTyped
    BY <1>1 DEF Answered, AllIInv, BoundsOK, SshIInv
  <2>2. PICK q \in SshJob : q = sshJob[s]
    BY <2>1, SshJobs
  <2>3. ~CallSsh
    <3>1. SUFFICES ASSUME NEW t \in Slots, NEW cfg \in SshRequests, Callable(t), SetSSHConfig(t, cfg)
                   PROVE  FALSE
      BY DEF CallSsh
    <3>2. t # s
      BY <2>1, <3>1 DEF Callable
    <3>3. sshJob'[s] = [q EXCEPT !.spoiled = TRUE]
      BY <2>1, <2>2, <3>1, <3>2 DEF SetSSHConfig
    <3>4. [q EXCEPT !.spoiled = TRUE] \in SshJob
      BY DEF SshJob
    <3>5. QED
      BY <2>1, <3>3, <3>4, SshIdle
  <2>4. ~UpdateEnds /\ ~AgentKilled /\ ~Reboot /\ ~SshdReads
    <3>1. Booting => boots' # boots
      BY <2>1 DEF Booting
    <3>2. UpdateEnds \/ AgentKilled \/ Reboot => Booting
      BY UpdateBounds DEF UpdateEnds, AgentKilled, Reboot, Update!RestartAgent, Update!UpKilled,
                          Update!UpBooted
    <3>3. ~SshdReads
      BY <2>1 DEF SshdReads, SshdRereads
    <3>4. QED
      BY <2>1, <3>1, <3>2, <3>3
  <2>5. ~(UNCHANGED sshVars)
    BY <2>1 DEF sshVars
  <2>6. SshWorks
    BY <1>1, <2>3, <2>4, <2>5
       DEF Next, CallFirewall, CallUpdate, FirewallWorks, UpdateWorks, PanelStarted, vars
  <2>7. PICK t \in Slots : SshStep(t)
    BY <2>6 DEF SshWorks
  <2>8. t = s
    BY <2>1, <2>7, OthersGoOn
  <2>9. QED
    BY <1>1, <2>1, <2>7, <2>8, UndoAnswers, RestartAnswers DEF Answers
<1>2. AllIInv /\ [Next]_vars => [SshAnswers]_sshVars
  BY <1>1 DEF SshAnswers, Answers
<1>3. Spec => [][SshAnswers]_sshVars
  BY <1>2, AllInductive, PTL DEF Spec
<1>4. QED
  BY <1>3 DEF AllOrNothing, SshAnswers, Answers

\* While firewalld runs the panel is reached by one address family at least, unless a
\* handler for its port has stopped half way.
THEOREM PanelStaysReachable == Spec => []PanelReachable
<1>1. ASSUME FwIInv, Running, ~panelHalf PROVE \E f \in Families : Permits(runtime, PanelPort, f)
  <2>1. Reach(runtime) /\ runtime \cap PanelRejects = {}
    BY <1>1 DEF FwIInv
  <2>2. \A f \in Families : <<"reject", PanelPort, f>> \notin runtime
    BY <2>1 DEF PanelRejects
  <2>3. Families # {}
    BY DEF Families
  <2>4. QED
    BY <2>1, <2>2, <2>3 DEF Reach, Permits
<1>2. AllIInv => PanelReachable
  BY <1>1 DEF AllIInv, PanelReachable
<1>3. QED
  BY <1>2, AllInductive, PTL

\* The step of AnswerIsInForce.
FirewallAnswers ==
    \A s \in Slots :
        LET job == fwJob[s]
        IN  Succeeded(s) /\ ~job.lapped /\ runtime' # Stopped =>
              \A f \in FamilySet(job.version) :
                 /\ job.stage \in {"allow", "enable"}
                      => Permits(runtime', job.port, f)
                 /\ job.stage = "deny" => ~Permits(runtime', job.port, f)
                 /\ job.stage = "delete" =>
                      runtime' \cap ({"accept", "reject"} \X {job.port} \X {f}) = {}

\* When a handler of the firewall succeeds, the rules in force say what it was asked for.
THEOREM FirewallDoesAsAsked == Spec => AnswerIsInForce
<1>1. ASSUME AllIInv, [Next]_vars, NEW s \in Slots, Succeeded(s), ~fwJob[s].lapped, runtime' # Stopped,
             NEW f \in FamilySet(fwJob[s].version)
      PROVE  /\ fwJob[s].stage \in {"allow", "enable"} => Permits(runtime', fwJob[s].port, f)
             /\ fwJob[s].stage = "deny" => ~Permits(runtime', fwJob[s].port, f)
             /\ fwJob[s].stage = "delete" =>
                  runtime' \cap ({"accept", "reject"} \X {fwJob[s].port} \X {f}) = {}
  <2>1. /\ fwJob[s] # Idle /\ fwJob'[s] = Idle /\ boots' = boots /\ boots \in Nat
        /\ Len(fwJob[s].todo) = 1 /\ faults' = faults /\ faults \in Nat /\ FwIInv
    BY <1>1 DEF Succeeded, Answered, AllIInv, BoundsOK
  <2>2. fwJob \in [Slots -> {Idle} \cup FwJob]
    BY <2>1 DEF FwIInv, FwTyped
  <2>3. PICK q \in FwJob : q = fwJob[s]
    BY <2>1, <2>2
  <2>4. ~CallFirewall
    <3>1. SUFFICES ASSUME NEW t \in Slots, NEW operation \in Operations, NEW port \in FirewallPorts,
                          NEW version \in Versions, Callable(t), FirewallCall(t, operation, port, version)
                   PROVE  FALSE
      BY DEF CallFirewall
    <3>2. t # s
      BY <2>1, <3>1 DEF Callable
    <3>3. fwJob'[s] = [q EXCEPT !.lapped = TRUE]
      BY <2>1, <2>3, <3>1, <3>2 DEF FirewallCall
    <3>4. [q EXCEPT !.lapped = TRUE] \in FwJob
      BY DEF FwJob
    <3>5. QED
      BY <2>1, <3>3, <3>4, FwIdle
  <2>5. ~UpdateEnds /\ ~AgentKilled /\ ~Reboot
    <3>1. Booting => boots' # boots
      BY <2>1 DEF Booting
    <3>2. UpdateEnds \/ AgentKilled \/ Reboot => Booting
      BY UpdateBounds DEF UpdateEnds, AgentKilled, Reboot, Update!RestartAgent, Update!UpKilled,
                          Update!UpBooted
    <3>3. QED
      BY <2>1, <3>1, <3>2
  <2>6. ~(UNCHANGED fwVars)
    BY <2>1 DEF fwVars
  <2>7. FirewallWorks
    BY <1>1, <2>4, <2>5, <2>6 DEF Next, CallSsh, CallUpdate, SshWorks, SshdReads, UpdateWorks, PanelStarted, vars
  <2>8. PICK t \in Slots : FwStep(t)
    BY <2>7 DEF FirewallWorks
  <2>9. t = s
    <3>1. t # s => fwJob'[s] = fwJob[s]
      BY <2>2, <2>8 DEF FwStep, RunCommand, CommandFails
    <3>2. QED
      BY <2>1, <3>1
  <2>10. QED
    BY <1>1, <2>1, <2>8, <2>9, CommandAnswers
<1>2. AllIInv /\ [Next]_vars => [FirewallAnswers]_fwVars
  BY <1>1 DEF FirewallAnswers
<1>3. Spec => [][FirewallAnswers]_fwVars
  BY <1>2, AllInductive, PTL DEF Spec
<1>4. QED
  BY <1>3 DEF AnswerIsInForce, FirewallAnswers
=============================================================================
