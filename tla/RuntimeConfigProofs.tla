------------------------- MODULE RuntimeConfigProofs -------------------------
(***************************************************************************)
(* Type correctness of RuntimeConfig, and what a worker and the status     *)
(* page may say of a revision, for any settings, workers, passes, keys and *)
(* numbers of saves, rotations and faults.                                 *)
(***************************************************************************)
EXTENDS RuntimeConfig, TLAPS

-----------------------------------------------------------------------------
(* Types of the operators the actions are built from.                      *)

LEMMA InstantsAreNumbers == Instant \cup {0} \subseteq Nat /\ 0 \notin Instant
BY RuntimeAssumption

LEMMA EnvOnlyTyped == EnvOnly \in Config
BY RuntimeAssumption DEF EnvOnly, Config

LEMMA IdlePassTyped == IdlePass \in SyncPass
BY EnvOnlyTyped DEF IdlePass, SyncPass

LEMMA StoppedTyped ==
    ASSUME NEW key \in EncryptionKey
    PROVE  /\ Stopped(key) \in Process
           /\ Stopped(key).pc = "down"
           /\ Stopped(key).currentRevision = 0
           /\ Stopped(key).config = EnvOnly
           /\ Stopped(key).provider = EnvOnly
BY EnvOnlyTyped DEF Stopped, Process

LEMMA LoadedTyped ==
    ASSUME TypeOK
    PROVE  Loaded \in Config /\ Loaded.version = version
<1>1. ASSUME NEW k \in Setting
      PROVE  (IF rows[k] = NoRow THEN Env[k] ELSE rows[k].value) \in Value
    BY <1>1, RuntimeAssumption DEF TypeOK, Row
<1> QED BY <1>1 DEF Loaded, Config, TypeOK

LEMMA UpsertedTyped ==
    ASSUME TypeOK, NEW edit \in Edit
    PROVE  Upserted(edit) \in [Setting -> Row \cup {NoRow}]
<1>1. PICK S \in SUBSET Setting : edit \in [S -> Value]
    BY RuntimeAssumption
<1>2. ASSUME NEW k \in S
      PROVE  Stored(k, edit[k], webKey) \in Row
    BY <1>1, <1>2 DEF Stored, Row, Seal, TypeOK
<1> QED BY <1>1, <1>2 DEF Upserted, TypeOK

\* A reload changes the configuration, the provider and the poller only.
LEMMA ReloadedTyped ==
    ASSUME TypeOK, NEW w \in Worker, NEW loaded \in Config
    PROVE  /\ Reloaded(w, loaded) \in Process
           /\ Reloaded(w, loaded).pc = proc[w].pc
           /\ Reloaded(w, loaded).currentRevision = proc[w].currentRevision
           /\ Reloaded(w, loaded).config = IF Buildable(loaded) THEN loaded ELSE proc[w].config
           /\ Reloaded(w, loaded).provider = IF Buildable(loaded) THEN loaded ELSE proc[w].provider
<1> DEFINE watcher == IF proc[w].pc = "starting" THEN proc[w].watcher ELSE loaded
<1>1. proc[w] \in Process
    BY DEF TypeOK
<1>2. CASE ~Buildable(loaded)
    BY <1>1, <1>2 DEF Reloaded
<1>3. CASE Buildable(loaded)
    <2>1. watcher \in Config
        BY <1>1 DEF Process
    <2>2. Reloaded(w, loaded) =
            [proc[w] EXCEPT !.config = loaded, !.provider = loaded, !.watcher = watcher]
        BY <1>3 DEF Reloaded
    <2> HIDE DEF watcher
    <2> QED BY <1>1, <1>3, <2>1, <2>2 DEF Process
<1> QED BY <1>2, <1>3
-----------------------------------------------------------------------------
(* Type correctness.                                                       *)

LEMMA PassMoved ==
    ASSUME TypeOK, NEW p \in Pass, NEW step \in {"apply", "report"}, NEW config \in Config
    PROVE  LET moved == [pass[p] EXCEPT !.pc = step, !.loaded = config]
           IN  /\ moved \in SyncPass
               /\ moved.pc = step
               /\ moved.desired = pass[p].desired
               /\ moved.loaded = config
<1>1. pass[p] \in SyncPass
    BY DEF TypeOK
<1> QED BY <1>1 DEF SyncPass

LEMMA MoveTyped ==
    ASSUME TypeOK, NEW p \in Pass, NEW step \in {"idle", "report"}, Move(p, step)
    PROVE  pass' \in [Pass -> SyncPass]
<1>1. CASE step = "idle"
    BY <1>1, IdlePassTyped DEF Move, TypeOK
<1>2. CASE step = "report"
    <2>1. [pass[p] EXCEPT !.pc = step, !.loaded = EnvOnly] \in SyncPass
        BY <1>2, EnvOnlyTyped, PassMoved
    <2> QED BY <1>2, <2>1 DEF Move, TypeOK
<1> QED BY <1>1, <1>2

LEMMA EndPassesTyped ==
    ASSUME TypeOK, NEW w \in Worker, EndPasses(w)
    PROVE  pass' \in [Pass -> SyncPass]
BY IdlePassTyped DEF TypeOK, EndPasses

LEMMA FaultTyped == ASSUME TypeOK, Fault PROVE faults' \in 0..MaxFaults
BY RuntimeAssumption DEF TypeOK, Fault

LEMMA StampTyped ==
    ASSUME TypeOK, Stamp
    PROVE  /\ revision' \in Instant \cup {0}
           /\ version' \in Nat
           /\ versionOf' \in [Instant \cup {0} -> Nat]
BY DEF TypeOK, Stamp

LEMMA OperatorTyped == TypeOK /\ Operator => TypeOK'
<1> SUFFICES ASSUME TypeOK, Operator PROVE TypeOK'
    OBVIOUS
<1>1. ASSUME NEW e \in Edit, SaveSettings(e) PROVE TypeOK'
    <2>1. rows' \in [Setting -> Row \cup {NoRow}]
        BY <1>1, UpsertedTyped DEF SaveSettings
    <2> QED BY <1>1, <2>1, StampTyped DEF SaveSettings, TypeOK, keys, rotating
<1>2. ASSUME NEW k \in Reverted, DeleteSetting(k) PROVE TypeOK'
    <2>1. rows' \in [Setting -> Row \cup {NoRow}]
        BY <1>2 DEF DeleteSetting, TypeOK
    <2> QED BY <1>2, <2>1, StampTyped DEF DeleteSetting, TypeOK, keys, rotating
<1> QED BY <1>1, <1>2 DEF Operator

LEMMA RotationTyped == TypeOK /\ (Rotation \/ RestartWeb) => TypeOK'
<1> SUFFICES ASSUME TypeOK, Rotation \/ RestartWeb PROVE TypeOK'
    OBVIOUS
<1> USE DEF table, keys, history
<1>1. ASSUME NEW to \in EncryptionKey, RotateRead(to) PROVE TypeOK'
    <2>1. {<<k, rows[k].value>> : k \in SecretSetting \cap Overridden} \in SUBSET (Setting \X Value)
        BY DEF TypeOK, Overridden, Row
    <2>2. rotations' \in 0..MaxRotations
        BY <1>1, RuntimeAssumption DEF RotateRead, TypeOK
    <2> QED BY <1>1, <2>1, <2>2 DEF RotateRead, TypeOK
<1>2. ASSUME NEW u \in Setting \X Value, RotateWrite(u) PROVE TypeOK'
    <2>1. Resealed(u[2], rotation.to) \in Row
        BY <1>2 DEF Resealed, Row, Seal, TypeOK
    <2>2. rows' \in [Setting -> Row \cup {NoRow}]
        BY <1>2, <2>1 DEF RotateWrite, TypeOK
    <2> QED BY <1>2, <2>2 DEF RotateWrite, TypeOK
<1>3. CASE RotateDone
    BY <1>3 DEF RotateDone, TypeOK
<1>4. CASE RotateFails
    BY <1>4, FaultTyped DEF RotateFails, TypeOK, rotating
<1>5. CASE RestartWeb
    BY <1>5 DEF RestartWeb, TypeOK, rotating
<1> QED BY <1>1, <1>2, <1>3, <1>4, <1>5 DEF Rotation

\* A worker that starts uses one configuration throughout.
Started(w, config, fresh) ==
    /\ fresh \in Process
    /\ fresh.pc \in {"refused", "starting"}
    /\ fresh.currentRevision = 0
    /\ fresh.pc = "starting" => fresh.config = config
    /\ fresh.pc = "refused" => fresh.config = EnvOnly
    /\ fresh.provider = fresh.config
    /\ proc' = [proc EXCEPT ![w] = fresh]

LEMMA BootLockStarts ==
    ASSUME TypeOK, NEW w \in Worker, NEW config \in Config, NEW connected \in BOOLEAN,
           BootLock(w, config, connected)
    PROVE  \E fresh \in Process : Started(w, config, fresh)
<1>1. CASE Buildable(config) /\ (LockRequired /\ LockRequireRedis => connected)
    <2> DEFINE fresh ==
            [pc |-> "starting", key |-> deployedKey, config |-> config,
             provider |-> config, watcher |-> config, currentRevision |-> 0,
             lock |-> IF LockRequired /\ connected THEN "redis" ELSE "memory",
             degraded |-> LockRequired /\ ~connected]
    <2>1. fresh \in Process
        BY DEF Process, TypeOK
    <2>2. Started(w, config, fresh)
        BY <1>1, <2>1 DEF BootLock, Started
    <2> QED BY <2>1, <2>2
<1>2. CASE ~(Buildable(config) /\ (LockRequired /\ LockRequireRedis => connected))
    <2> DEFINE fresh == [Stopped(deployedKey) EXCEPT !.pc = "refused"]
    <2>0. deployedKey \in EncryptionKey
        BY DEF TypeOK
    <2>1. fresh \in Process
        BY <2>0, StoppedTyped DEF Process
    <2>2. Started(w, config, fresh)
        BY <1>2, <2>0, <2>1, StoppedTyped DEF BootLock, Refuse, Started, Process
    <2> QED BY <2>1, <2>2
<1> QED BY <1>1, <1>2

\* What Boot does to the worker it starts.
LEMMA BootStarts ==
    ASSUME TypeOK, NEW w \in Worker, Boot(w)
    PROVE  \E config \in Config, fresh \in Process :
              /\ Started(w, config, fresh)
              /\ config.version \in {0, version}
              /\ newest' = IF fresh.pc = "starting" /\ config.version > newest[w]
                           THEN [newest EXCEPT ![w] = config.version] ELSE newest
              /\ faults' \in 0..MaxFaults
              /\ UNCHANGED <<table, keys, rotating, pass, version, versionOf>>
<1>1. PICK connected \in BOOLEAN, ok \in BOOLEAN :
          LET config == IF ok THEN Loaded ELSE EnvOnly IN
          /\ IF (~ok /\ Readable(deployedKey)) \/ (LockRequired /\ ~connected)
             THEN Fault ELSE UNCHANGED faults
          /\ BootLock(w, config, connected)
          /\ newest' = IF proc'[w].pc = "starting" /\ config.version > newest[w]
                       THEN [newest EXCEPT ![w] = config.version] ELSE newest
    BY DEF Boot
<1> DEFINE config == IF ok THEN Loaded ELSE EnvOnly
<1>2. config \in Config /\ config.version \in {0, version}
    BY LoadedTyped, EnvOnlyTyped DEF EnvOnly
<1>3. faults' \in 0..MaxFaults
    BY <1>1, FaultTyped DEF TypeOK
<1>4. BootLock(w, config, connected)
    BY <1>1
<1>5. newest' = IF proc'[w].pc = "starting" /\ config.version > newest[w]
                THEN [newest EXCEPT ![w] = config.version] ELSE newest
    BY <1>1
<1> HIDE DEF config
<1>6. PICK fresh \in Process : Started(w, config, fresh)
    BY <1>2, <1>4, BootLockStarts
<1>7. proc'[w] = fresh
    BY <1>6 DEF Started, TypeOK
<1>8. UNCHANGED <<table, keys, rotating, pass, version, versionOf>>
    BY DEF Boot
<1> QED BY <1>2, <1>3, <1>5, <1>6, <1>7, <1>8

LEMMA LifeTyped ==
    ASSUME TypeOK, NEW w \in Worker, Life(w)
    PROVE  TypeOK'
<1> USE DEF table, keys, rotating, history
<1>1. CASE Boot(w)
    <2>1. PICK config \in Config, fresh \in Process :
              /\ Started(w, config, fresh)
              /\ newest' = IF fresh.pc = "starting" /\ config.version > newest[w]
                           THEN [newest EXCEPT ![w] = config.version] ELSE newest
              /\ faults' \in 0..MaxFaults
              /\ UNCHANGED <<table, keys, rotating, pass, version, versionOf>>
        BY <1>1, BootStarts
    <2>2. newest' \in [Worker -> Nat]
        BY <2>1 DEF TypeOK, Config
    <2>3. proc' \in [Worker -> Process]
        BY <2>1 DEF TypeOK, Started
    <2> QED BY <2>1, <2>2, <2>3 DEF TypeOK
<1>2. CASE StartWatcher(w)
    <2>1. PICK queued \in BOOLEAN :
              /\ IF LockRequired /\ ~queued THEN Fault ELSE UNCHANGED faults
              /\ proc' = [proc EXCEPT ![w].pc = "running",
                                      ![w].degraded = @ \/ ~LockRequired \/ ~queued]
        BY <1>2 DEF StartWatcher
    <2> DEFINE d == proc[w].degraded \/ ~LockRequired \/ ~queued
               fresh == [proc[w] EXCEPT !.pc = "running", !.degraded = d]
    <2>0. d \in BOOLEAN /\ proc[w] \in Process
        BY DEF TypeOK, Process
    <2>4. proc' = [proc EXCEPT ![w] = fresh]
        BY <2>1 DEF TypeOK
    <2> HIDE DEF d
    <2>5. fresh \in Process
        BY <2>0 DEF Process
    <2> HIDE DEF fresh
    <2>2. proc' \in [Worker -> Process]
        BY <2>4, <2>5 DEF TypeOK
    <2>3. faults' \in 0..MaxFaults
        BY <2>1, FaultTyped DEF TypeOK
    <2> QED BY <1>2, <2>2, <2>3 DEF StartWatcher, TypeOK
<1>3. CASE Shutdown(w)
    <2>1. proc' \in [Worker -> Process]
        BY <1>3 DEF Shutdown, TypeOK, Process
    <2> QED BY <1>3, <2>1, FaultTyped DEF Shutdown, TypeOK
<1>4. proc[w].key \in EncryptionKey
    BY DEF TypeOK, Process
<1>5. CASE Exit(w)
    <2>1. proc' \in [Worker -> Process]
        BY <1>4, <1>5, StoppedTyped DEF Exit, TypeOK
    <2> QED BY <1>5, <2>1, EndPassesTyped DEF Exit, TypeOK
<1>6. CASE Crash(w)
    <2>1. proc' \in [Worker -> Process]
        BY <1>4, <1>6, StoppedTyped DEF Crash, TypeOK
    <2> QED BY <1>6, <2>1, EndPassesTyped, FaultTyped DEF Crash, TypeOK
<1> QED BY <1>1, <1>2, <1>3, <1>5, <1>6 DEF Life

\* What SyncApply does to its worker.
LEMMA ApplyReloads ==
    ASSUME TypeOK, NEW p \in Pass, SyncApply(p)
    PROVE  LET w == WorkerOf[p]
               loaded == pass[p].loaded
           IN  /\ w \in Worker /\ loaded \in Config
               /\ \E fresh \in Process :
                     /\ fresh.pc = proc[w].pc
                     /\ fresh.config = IF Buildable(loaded) THEN loaded ELSE proc[w].config
                     /\ fresh.provider = IF Buildable(loaded) THEN loaded ELSE proc[w].provider
                     /\ fresh.currentRevision = IF ReloadSucceeds(w, loaded)
                                                THEN pass[p].desired ELSE proc[w].currentRevision
                     /\ proc' = [proc EXCEPT ![w] = fresh]
<1> DEFINE w == WorkerOf[p]
           loaded == pass[p].loaded
           next == Reloaded(w, loaded)
<1>1. w \in Worker /\ loaded \in Config /\ pass[p].desired \in Nat
    BY RuntimeAssumption DEF TypeOK, SyncPass
<1>2. /\ next \in Process
      /\ next.pc = proc[w].pc
      /\ next.currentRevision = proc[w].currentRevision
      /\ next.config = IF Buildable(loaded) THEN loaded ELSE proc[w].config
      /\ next.provider = IF Buildable(loaded) THEN loaded ELSE proc[w].provider
    BY <1>1, ReloadedTyped
<1>3. proc' = [proc EXCEPT ![w] = [next EXCEPT
                  !.currentRevision = IF ReloadSucceeds(w, loaded) THEN pass[p].desired ELSE @]]
    BY DEF SyncApply
<1> HIDE DEF next, w, loaded
<1>4. PICK r \in Nat : r = IF ReloadSucceeds(w, loaded) THEN pass[p].desired
                                                         ELSE next.currentRevision
    BY <1>1, <1>2 DEF Process
<1>5. [next EXCEPT !.currentRevision = IF ReloadSucceeds(w, loaded) THEN pass[p].desired ELSE @]
        = [next EXCEPT !.currentRevision = r]
    BY <1>2, <1>4 DEF Process
<1>6. /\ [next EXCEPT !.currentRevision = r] \in Process
      /\ [next EXCEPT !.currentRevision = r].pc = next.pc
      /\ [next EXCEPT !.currentRevision = r].config = next.config
      /\ [next EXCEPT !.currentRevision = r].provider = next.provider
      /\ [next EXCEPT !.currentRevision = r].currentRevision = r
    BY <1>2, <1>4 DEF Process
<1> QED BY <1>1, <1>2, <1>3, <1>4, <1>5, <1>6 DEF next, w, loaded

LEMMA SyncTyped ==
    ASSUME TypeOK, NEW p \in Pass, Sync(p) \/ SyncFails(p)
    PROVE  TypeOK'
<1> USE DEF table, keys, rotating, history
<1>0. WorkerOf[p] \in Worker
    BY RuntimeAssumption
<1>1. CASE SyncRead(p)
    <2>1. [pc |-> "compare", desired |-> revision, loaded |-> EnvOnly] \in SyncPass
        <3>1. revision \in Nat
            BY InstantsAreNumbers DEF TypeOK
        <3> QED BY <3>1, EnvOnlyTyped DEF SyncPass
    <2> QED BY <1>1, <2>1 DEF SyncRead, TypeOK
<1>2. CASE SyncLoad(p)
    <2>1. ASSUME Readable(proc[WorkerOf[p]].key)
          PROVE  pass' \in [Pass -> SyncPass]
        <3>1. [pass[p] EXCEPT !.pc = "apply", !.loaded = Loaded] \in SyncPass
            BY LoadedTyped, PassMoved
        <3>2. pass' = [pass EXCEPT ![p] = [pass[p] EXCEPT !.pc = "apply", !.loaded = Loaded]]
            BY <1>2, <2>1 DEF SyncLoad, TypeOK
        <3> QED BY <3>1, <3>2 DEF TypeOK
    <2>2. pass' \in [Pass -> SyncPass]
        BY <1>2, <2>1, MoveTyped DEF SyncLoad
    <2> QED BY <1>2, <2>2 DEF SyncLoad, TypeOK
<1>3. CASE SyncBeat(p)
    BY <1>3, MoveTyped DEF SyncBeat, TypeOK
<1>4. CASE SyncApply(p)
    <2>1. proc' \in [Worker -> Process]
        BY <1>4, ApplyReloads DEF TypeOK
    <2>2. newest' \in [Worker -> Nat]
        BY <1>4, ApplyReloads DEF SyncApply, TypeOK, Config
    <2>3. pass' \in [Pass -> SyncPass]
        BY <1>4, MoveTyped DEF SyncApply
    <2> QED BY <1>4, <2>1, <2>2, <2>3 DEF SyncApply, TypeOK
<1>5. CASE SyncReport(p)
    <2>1. status' \in [Worker -> Nat \cup {NoStatus}]
        BY <1>5 DEF SyncReport, TypeOK, SyncPass
    <2> QED BY <1>5, <2>1, MoveTyped DEF SyncReport, TypeOK
<1>6. CASE SyncFails(p)
    BY <1>6, MoveTyped, FaultTyped DEF SyncFails, TypeOK
<1> QED BY <1>1, <1>2, <1>3, <1>4, <1>5, <1>6 DEF Sync

LEMMA InitTyped == Init => TypeOK
<1> SUFFICES ASSUME Init PROVE TypeOK
    OBVIOUS
<1>1. proc \in [Worker -> Process]
    BY StoppedTyped, RuntimeAssumption DEF Init
<1> QED BY <1>1, IdlePassTyped, RuntimeAssumption DEF Init, TypeOK

LEMMA StepTyped == TypeOK /\ [Next]_vars => TypeOK'
<1>1. TypeOK /\ UNCHANGED vars => TypeOK'
    BY DEF TypeOK, vars, table, keys, rotating, history
<1> QED BY <1>1, OperatorTyped, RotationTyped, LifeTyped, SyncTyped DEF Next

\* Every variable keeps its type, for any settings, workers, passes and bounds.
THEOREM SettingsTypeCorrect == Spec => []TypeOK
BY InitTyped, StepTyped, PTL DEF Spec
-----------------------------------------------------------------------------
(* A reload changes the provider with the configuration.                   *)

\* The pipeline never works with the mode of one save and the AI provider of
\* another.
THEOREM ProviderMatchesConfigAlways == Spec => []ProviderMatchesConfig
<1> DEFINE Matched == \A w \in Worker : proc[w].provider = proc[w].config
<1>1. Init => Matched
    BY StoppedTyped, RuntimeAssumption DEF Init
<1>2. TypeOK /\ Matched /\ [Next]_vars => Matched'
    <2> SUFFICES ASSUME TypeOK, Matched, [Next]_vars PROVE Matched'
        OBVIOUS
    <2>1. CASE Operator
        BY <2>1 DEF Operator, SaveSettings, DeleteSetting
    <2>2. CASE Rotation \/ RestartWeb
        BY <2>2 DEF Rotation, RotateRead, RotateWrite, RotateDone, RotateFails, RestartWeb
    <2>3. ASSUME NEW w \in Worker, Life(w) PROVE Matched'
        <3>0. proc \in [Worker -> Process] /\ proc[w].key \in EncryptionKey
            BY DEF TypeOK, Process
        <3>1. CASE Boot(w)
            BY <3>0, <3>1, BootStarts DEF Started
        <3>2. CASE StartWatcher(w)
            BY <3>0, <3>2 DEF StartWatcher, Process
        <3>3. CASE Shutdown(w)
            BY <3>0, <3>3 DEF Shutdown, Process
        <3>4. CASE Exit(w) \/ Crash(w)
            <4>1. proc' = [proc EXCEPT ![w] = Stopped(proc[w].key)]
                BY <3>4 DEF Exit, Crash
            <4> QED BY <3>0, <4>1, StoppedTyped
        <3> QED BY <2>3, <3>1, <3>2, <3>3, <3>4 DEF Life
    <2>4. ASSUME NEW p \in Pass, Sync(p) \/ SyncFails(p) PROVE Matched'
        <3>1. CASE SyncApply(p)
            BY <3>1, ApplyReloads DEF TypeOK
        <3>2. CASE ~SyncApply(p)
            BY <2>4, <3>2 DEF Sync, SyncRead, SyncLoad, SyncBeat, SyncReport, SyncFails
        <3> QED BY <3>1, <3>2
    <2>5. CASE UNCHANGED vars
        BY <2>5 DEF vars
    <2> QED BY <2>1, <2>2, <2>3, <2>4, <2>5 DEF Next
<1>3. Matched => ProviderMatchesConfig
    BY DEF ProviderMatchesConfig
<1> QED BY <1>1, <1>2, <1>3, SettingsTypeCorrect, PTL DEF Spec
-----------------------------------------------------------------------------
(* What was saved, loaded and acknowledged, and when.                      *)

\* A revision that some save carried, or none.
Known(r) == r = 0 \/ (r \in Instant /\ versionOf[r] > 0)

\* CONFIG_REVISION is the revision of the last save.
Chronicle ==
    /\ versionOf[0] = 0
    /\ \A r \in Instant : versionOf[r] <= version
    /\ Known(revision)
    /\ versionOf[revision] = version

\* A worker has loaded what it believes itself at, and what its row says.
WorkerSound(w) ==
    /\ Known(proc[w].currentRevision)
    /\ versionOf[proc[w].currentRevision] <= proc[w].config.version
    /\ proc[w].config.version <= newest[w]
    /\ newest[w] <= version
    /\ proc[w].pc = "starting" => proc[w].currentRevision = 0
    /\ status[w] # NoStatus => Known(status[w]) /\ versionOf[status[w]] <= newest[w]

\* A pass has loaded at least what the revision it read stood for, and reports
\* what its worker has loaded.
PassSound(p) ==
    /\ Known(pass[p].desired)
    /\ pass[p].loaded.version <= version
    /\ pass[p].pc = "apply" => versionOf[pass[p].desired] <= pass[p].loaded.version
    /\ pass[p].pc = "report" => versionOf[pass[p].desired] <= newest[WorkerOf[p]]

IInv ==
    /\ TypeOK
    /\ Chronicle
    /\ \A w \in Worker : WorkerSound(w)
    /\ \A p \in Pass : PassSound(p)

LEMMA InitSound == Init => IInv
<1> SUFFICES ASSUME Init PROVE IInv
    OBVIOUS
<1>1. TypeOK
    BY InitTyped
<1>2. Chronicle
    BY RuntimeAssumption DEF Init, Chronicle, Known
<1>3. ASSUME NEW w \in Worker PROVE WorkerSound(w)
    BY StoppedTyped, RuntimeAssumption DEF Init, WorkerSound, Known, EnvOnly
<1>4. ASSUME NEW p \in Pass PROVE PassSound(p)
    BY DEF Init, PassSound, Known, IdlePass, EnvOnly
<1> QED BY <1>1, <1>2, <1>3, <1>4 DEF IInv

\* A save gives its number to a revision that no one knows yet.
LEMMA SaveSound ==
    ASSUME RevisionsDistinct, IInv, Stamp, TypeOK',
           UNCHANGED <<proc, pass, newest, status>>
    PROVE  IInv'
<1>1. PICK r \in Instant :
          /\ versionOf[r] = 0
          /\ revision' = r
          /\ versionOf' = [versionOf EXCEPT ![r] = version + 1]
          /\ version' = version + 1
    BY DEF Stamp
<1>2. /\ version \in Nat
      /\ versionOf \in [Instant \cup {0} -> Nat]
      /\ r # 0
    BY InstantsAreNumbers DEF IInv, TypeOK
<1>3. ASSUME NEW x, Known(x)
      PROVE  Known(x)' /\ versionOf'[x] = versionOf[x] /\ versionOf[x] \in Nat
    BY <1>1, <1>2, <1>3 DEF Known, IInv, Chronicle
<1>4. Chronicle'
    BY <1>1, <1>2 DEF Chronicle, Known, IInv
<1>5. ASSUME NEW w \in Worker PROVE WorkerSound(w)'
    <2>1. newest[w] \in Nat
        BY DEF IInv, TypeOK
    <2> QED BY <1>1, <1>2, <1>3, <2>1 DEF IInv, WorkerSound
<1>6. ASSUME NEW p \in Pass PROVE PassSound(p)'
    <2>1. pass[p].loaded.version \in Nat
        BY DEF IInv, TypeOK, SyncPass, Config
    <2> QED BY <1>1, <1>2, <1>3, <2>1 DEF IInv, PassSound
<1> QED BY <1>4, <1>5, <1>6 DEF IInv

\* Steps that neither save nor load.
LEMMA NothingKnownChanges ==
    ASSUME IInv, TypeOK', UNCHANGED <<revision, status, proc, pass, version, versionOf, newest>>
    PROVE  IInv'
BY DEF IInv, Chronicle, WorkerSound, PassSound, Known

\* The steps of one worker or one pass, which leave the saves alone and never
\* unload anything.
LEMMA SavesUntouched ==
    ASSUME IInv, TypeOK', UNCHANGED <<revision, version, versionOf>>,
           NEW w \in Worker, WorkerSound(w)',
           \A v \in Worker \ {w} : /\ proc'[v] = proc[v] /\ newest'[v] = newest[v]
                                   /\ status'[v] = status[v],
           newest'[w] >= newest[w],
           \A p \in Pass : PassSound(p)' \/ pass'[p] = pass[p]
    PROVE  IInv'
<1>1. Chronicle'
    BY DEF IInv, Chronicle, Known
<1>2. ASSUME NEW v \in Worker PROVE WorkerSound(v)'
    BY DEF IInv, WorkerSound, Known
<1>3. ASSUME NEW p \in Pass, pass'[p] = pass[p] PROVE PassSound(p)'
    <2>1. newest[WorkerOf[p]] \in Nat /\ newest'[WorkerOf[p]] \in Nat
          /\ newest'[WorkerOf[p]] >= newest[WorkerOf[p]]
        BY RuntimeAssumption DEF IInv, TypeOK
    <2>2. versionOf[pass[p].desired] \in Nat
        BY DEF IInv, TypeOK, PassSound, Known
    <2> QED BY <1>3, <2>1, <2>2 DEF IInv, PassSound, Known
<1> QED BY <1>1, <1>2, <1>3 DEF IInv
-----------------------------------------------------------------------------
(* The steps of a worker.                                                  *)

LEMMA BootSound ==
    ASSUME IInv, NEW w \in Worker, Boot(w), TypeOK'
    PROVE  IInv'
<1>1. PICK config \in Config, fresh \in Process :
          /\ Started(w, config, fresh)
          /\ config.version \in {0, version}
          /\ newest' = IF fresh.pc = "starting" /\ config.version > newest[w]
                       THEN [newest EXCEPT ![w] = config.version] ELSE newest
          /\ UNCHANGED <<table, keys, rotating, pass, version, versionOf>>
    BY BootStarts DEF IInv
<1>2. /\ proc \in [Worker -> Process] /\ newest \in [Worker -> Nat]
      /\ version \in Nat /\ config.version \in Nat
    BY DEF IInv, TypeOK, Config
<1>3. newest'[w] \in Nat /\ newest'[w] >= newest[w] /\ newest'[w] <= version
    BY <1>1, <1>2 DEF IInv, WorkerSound
<1>4. fresh.config.version <= newest'[w]
    BY <1>1, <1>2 DEF Started, EnvOnly
<1>5. fresh.config.version \in Nat
    BY <1>1 DEF Process, Config
<1>6. proc'[w] = fresh /\ fresh.currentRevision = 0
    BY <1>1, <1>2 DEF Started
<1>7. versionOf[0] = 0 /\ UNCHANGED <<status, versionOf, version>>
    BY <1>1 DEF IInv, Chronicle, table
<1>8. status[w] # NoStatus => Known(status[w]) /\ versionOf[status[w]] <= newest'[w]
    <2>1. ASSUME status[w] # NoStatus PROVE versionOf[status[w]] \in Nat
        BY <2>1 DEF IInv, TypeOK, WorkerSound, Known
    <2> QED BY <1>2, <1>3, <2>1 DEF IInv, WorkerSound
<1>9. WorkerSound(w)'
    BY <1>3, <1>4, <1>5, <1>6, <1>7, <1>8 DEF WorkerSound, Known
<1>10. /\ \A v \in Worker \ {w} : proc'[v] = proc[v] /\ newest'[v] = newest[v]
       /\ UNCHANGED <<revision, version, versionOf, status, pass>>
    BY <1>1, <1>2 DEF Started, table
<1> QED BY <1>3, <1>9, <1>10, SavesUntouched

LEMMA LifeSound ==
    ASSUME IInv, NEW w \in Worker, Life(w), TypeOK'
    PROVE  IInv'
<1> USE DEF table, keys, rotating, history
<1>0. /\ proc \in [Worker -> Process] /\ newest \in [Worker -> Nat]
      /\ proc[w] \in Process /\ proc[w].key \in EncryptionKey
    BY DEF IInv, TypeOK, Process
<1>1. CASE Boot(w)
    BY <1>1, BootSound
<1>2. CASE StartWatcher(w) \/ Shutdown(w)
    <2>1. /\ proc'[w].pc # "starting"
          /\ proc'[w].config = proc[w].config
          /\ proc'[w].currentRevision = proc[w].currentRevision
          /\ \A v \in Worker \ {w} : proc'[v] = proc[v]
          /\ UNCHANGED <<table, pass, history>>
        BY <1>0, <1>2 DEF StartWatcher, Shutdown, Process
    <2>2. WorkerSound(w)'
        BY <2>1 DEF IInv, WorkerSound, Known
    <2> QED BY <1>0, <2>1, <2>2, SavesUntouched
<1>3. CASE Exit(w) \/ Crash(w)
    <2>1. /\ proc' = [proc EXCEPT ![w] = Stopped(proc[w].key)]
          /\ EndPasses(w)
          /\ UNCHANGED <<table, history>>
        BY <1>3 DEF Exit, Crash
    <2>2. WorkerSound(w)'
        BY <1>0, <2>1, StoppedTyped DEF IInv, Chronicle, WorkerSound, Known, EnvOnly
    <2>3. \A p \in Pass : PassSound(p)' \/ pass'[p] = pass[p]
        <3>1. ASSUME NEW p \in Pass, pass'[p] = IdlePass PROVE PassSound(p)'
            <4>1. version \in Nat
                BY DEF IInv, TypeOK
            <4> QED BY <2>1, <3>1, <4>1 DEF PassSound, Known, IdlePass, EnvOnly
        <3> QED BY <2>1, <3>1 DEF EndPasses
    <2> QED BY <1>0, <2>1, <2>2, <2>3, SavesUntouched
<1> QED BY <1>1, <1>2, <1>3 DEF Life
-----------------------------------------------------------------------------
(* The steps of a pass.                                                    *)

\* What a pass that moves on keeps.
LEMMA MoveSound ==
    ASSUME IInv, NEW p \in Pass, NEW step \in {"idle", "report"}, Move(p, step),
           UNCHANGED <<version, versionOf>>,
           step = "report" => versionOf[pass[p].desired] <= newest'[WorkerOf[p]]
    PROVE  \A x \in Pass : PassSound(x)' \/ pass'[x] = pass[x]
<1>0. pass \in [Pass -> SyncPass] /\ version \in Nat
    BY DEF IInv, TypeOK
<1>1. CASE step = "idle"
    <2>1. pass'[p] = IdlePass
        BY <1>0, <1>1 DEF Move
    <2>2. PassSound(p)'
        BY <1>0, <2>1 DEF PassSound, Known, IdlePass, EnvOnly
    <2> QED BY <1>0, <2>2 DEF Move
<1>2. CASE step = "report"
    <2>1. /\ pass'[p].pc = "report"
          /\ pass'[p].desired = pass[p].desired
          /\ pass'[p].loaded = EnvOnly
        <3>1. pass'[p] = [pass[p] EXCEPT !.pc = step, !.loaded = EnvOnly]
            BY <1>0, <1>2 DEF Move
        <3>2. pass[p] \in SyncPass
            BY <1>0
        <3> QED BY <1>2, <3>1, <3>2 DEF SyncPass
    <2>2. PassSound(p)'
        BY <1>0, <1>2, <2>1 DEF IInv, PassSound, Known, EnvOnly
    <2> QED BY <1>0, <2>2 DEF Move
<1> QED BY <1>1, <1>2

\* A step of a pass that leaves its worker alone.
LEMMA WorkerUntouched ==
    ASSUME IInv, TypeOK', UNCHANGED <<table, proc, history>>,
           \A x \in Pass : PassSound(x)' \/ pass'[x] = pass[x],
           NEW p \in Pass
    PROVE  IInv'
<1>1. WorkerOf[p] \in Worker
    BY RuntimeAssumption
<1>2. newest \in [Worker -> Nat]
    BY DEF IInv, TypeOK
<1>3. WorkerSound(WorkerOf[p])'
    BY <1>1 DEF IInv, WorkerSound, Known, table, history
<1> QED BY <1>1, <1>2, <1>3, SavesUntouched DEF table, history

LEMMA ApplySound ==
    ASSUME IInv, NEW p \in Pass, SyncApply(p), TypeOK'
    PROVE  IInv'
<1> DEFINE w == WorkerOf[p]
           loaded == pass[p].loaded
           done == ReloadSucceeds(w, loaded)
<1>0. w \in Worker /\ loaded \in Config
    BY ApplyReloads DEF IInv
<1>1. PICK fresh \in Process :
          /\ fresh.pc = proc[w].pc
          /\ fresh.config = IF Buildable(loaded) THEN loaded ELSE proc[w].config
          /\ fresh.currentRevision = IF done THEN pass[p].desired ELSE proc[w].currentRevision
          /\ proc' = [proc EXCEPT ![w] = fresh]
    BY ApplyReloads DEF IInv
<1>2. /\ proc \in [Worker -> Process] /\ newest \in [Worker -> Nat]
      /\ version \in Nat /\ loaded.version \in Nat /\ proc[w].config.version \in Nat
    BY <1>0 DEF IInv, TypeOK, Config, Process
<1>3. /\ newest' = IF Buildable(loaded) /\ loaded.version > newest[w]
                   THEN [newest EXCEPT ![w] = loaded.version] ELSE newest
      /\ Move(p, IF done THEN "report" ELSE "idle")
      /\ UNCHANGED <<table, version, versionOf>>
      /\ pass[p].pc = "apply"
    BY DEF SyncApply
<1>4. /\ PassSound(p) /\ WorkerSound(w) /\ Chronicle
      /\ done <=> Buildable(loaded) /\ proc[w].pc # "starting"
    BY <1>0 DEF IInv, ReloadSucceeds
<1>5. /\ newest'[w] \in Nat
      /\ newest'[w] >= newest[w] /\ newest'[w] <= version
      /\ Buildable(loaded) => newest'[w] >= loaded.version
      /\ proc'[w] = fresh
    BY <1>0, <1>1, <1>2, <1>3, <1>4 DEF PassSound, WorkerSound
<1>6. /\ versionOf[pass[p].desired] \in Nat
      /\ versionOf[proc[w].currentRevision] \in Nat
      /\ status[w] # NoStatus => versionOf[status[w]] \in Nat
    BY <1>4 DEF IInv, TypeOK, PassSound, WorkerSound, Known
<1> HIDE DEF w, loaded, done
<1>7. WorkerSound(w)'
    <2>1. UNCHANGED <<status, version, versionOf>>
        BY <1>3 DEF table
    <2>2. Known(fresh.currentRevision)' /\ (status[w] # NoStatus => Known(status[w])')
        BY <1>1, <1>4, <2>1 DEF PassSound, WorkerSound, Known, loaded
    <2>3. versionOf[fresh.currentRevision] <= fresh.config.version
        <3>1. CASE done
            <4>1. fresh.currentRevision = pass[p].desired /\ fresh.config = loaded
                BY <1>1, <1>4, <3>1
            <4> QED BY <1>3, <1>4, <4>1 DEF PassSound, loaded
        <3>2. CASE ~done /\ Buildable(loaded)
            <4>1. fresh.currentRevision = 0 /\ fresh.config = loaded /\ versionOf[0] = 0
                BY <1>1, <1>4, <3>2 DEF WorkerSound, Chronicle
            <4> QED BY <1>2, <4>1
        <3>3. CASE ~done /\ ~Buildable(loaded)
            <4>1. fresh.currentRevision = proc[w].currentRevision /\ fresh.config = proc[w].config
                BY <1>1, <3>3
            <4> QED BY <1>4, <4>1 DEF WorkerSound
        <3> QED BY <3>1, <3>2, <3>3
    <2>4. fresh.config.version <= newest'[w]
        BY <1>0, <1>1, <1>2, <1>4, <1>5 DEF WorkerSound
    <2>5. fresh.pc = "starting" => fresh.currentRevision = 0
        BY <1>1, <1>4 DEF WorkerSound
    <2>6. status[w] # NoStatus => versionOf[status[w]] <= newest'[w]
        BY <1>0, <1>2, <1>4, <1>5, <1>6 DEF WorkerSound
    <2> QED BY <1>5, <2>1, <2>2, <2>3, <2>4, <2>5, <2>6 DEF WorkerSound
<1>8. done => versionOf[pass[p].desired] <= newest'[w]
    BY <1>2, <1>3, <1>4, <1>5, <1>6 DEF PassSound, loaded
<1>9. \A x \in Pass : PassSound(x)' \/ pass'[x] = pass[x]
    <2>1. (IF done THEN "report" ELSE "idle") \in {"idle", "report"}
          /\ ((IF done THEN "report" ELSE "idle") = "report" => done)
        OBVIOUS
    <2> QED BY <1>3, <1>8, <2>1, MoveSound DEF w
<1>10. \A v \in Worker \ {w} : /\ proc'[v] = proc[v] /\ newest'[v] = newest[v]
                               /\ status'[v] = status[v]
    BY <1>1, <1>2, <1>3 DEF table
<1> QED BY <1>0, <1>3, <1>5, <1>7, <1>9, <1>10, SavesUntouched DEF table

LEMMA SyncSound ==
    ASSUME IInv, NEW p \in Pass, Sync(p) \/ SyncFails(p), TypeOK'
    PROVE  IInv'
<1> DEFINE w == WorkerOf[p]
<1>0. /\ w \in Worker
      /\ pass \in [Pass -> SyncPass] /\ pass[p] \in SyncPass
      /\ newest \in [Worker -> Nat] /\ status \in [Worker -> Nat \cup {NoStatus}]
      /\ version \in Nat
      /\ WorkerSound(w) /\ PassSound(p)
    BY RuntimeAssumption DEF IInv, TypeOK
<1>1. CASE SyncRead(p)
    <2>1. pass'[p] = [pc |-> "compare", desired |-> revision, loaded |-> EnvOnly]
          /\ UNCHANGED <<table, proc, history>>
        BY <1>0, <1>1 DEF SyncRead
    <2>2. PassSound(p)'
        BY <1>0, <2>1 DEF IInv, PassSound, Chronicle, Known, EnvOnly, history
    <2>3. \A x \in Pass : PassSound(x)' \/ pass'[x] = pass[x]
        BY <1>0, <1>1, <2>2 DEF SyncRead
    <2> QED BY <2>1, <2>3, WorkerUntouched
<1>2. CASE SyncLoad(p) /\ Readable(proc[w].key)
    <2>1. pass' = [pass EXCEPT ![p] = [pass[p] EXCEPT !.pc = "apply", !.loaded = Loaded]]
          /\ UNCHANGED <<table, proc, history>>
        BY <1>0, <1>2 DEF SyncLoad
    <2>2. /\ pass'[p].pc = "apply"
          /\ pass'[p].desired = pass[p].desired
          /\ pass'[p].loaded.version = version
        BY <1>0, <2>1, LoadedTyped, PassMoved DEF IInv
    <2>3. PassSound(p)'
        BY <1>0, <2>1, <2>2 DEF IInv, PassSound, Chronicle, Known, history
    <2>4. \A x \in Pass : PassSound(x)' \/ pass'[x] = pass[x]
        BY <1>0, <2>1, <2>3
    <2> QED BY <2>1, <2>4, WorkerUntouched
<1>3. CASE SyncFails(p) \/ (SyncLoad(p) /\ ~Readable(proc[w].key))
    <2>1. Move(p, "idle") /\ UNCHANGED <<table, proc, history>>
        BY <1>3 DEF SyncFails, SyncLoad
    <2> QED BY <2>1, MoveSound, WorkerUntouched DEF history
<1>4. CASE SyncBeat(p)
    <2>1. Move(p, "report") /\ UNCHANGED <<table, proc, history>>
          /\ pass[p].desired = proc[w].currentRevision
        BY <1>4 DEF SyncBeat
    <2>2. /\ versionOf[pass[p].desired] \in Nat /\ proc[w].config.version \in Nat
          /\ newest[w] \in Nat
        BY <1>0 DEF IInv, TypeOK, PassSound, Known, Process, Config
    <2>3. versionOf[pass[p].desired] <= newest'[w]
        BY <1>0, <2>1, <2>2 DEF WorkerSound, history
    <2> QED BY <2>1, <2>3, MoveSound, WorkerUntouched DEF history
<1>5. CASE SyncApply(p)
    BY <1>5, ApplySound
<1>6. CASE SyncReport(p)
    <2>1. /\ status' = [status EXCEPT ![w] = pass[p].desired]
          /\ Move(p, "idle")
          /\ UNCHANGED <<revision, proc, history>>
          /\ versionOf[pass[p].desired] <= newest[w]
        BY <1>0, <1>6 DEF SyncReport, PassSound
    <2>2. WorkerSound(w)'
        BY <1>0, <2>1 DEF WorkerSound, PassSound, Known, history
    <2>3. \A x \in Pass : PassSound(x)' \/ pass'[x] = pass[x]
        BY <2>1, MoveSound DEF history
    <2> QED BY <1>0, <2>1, <2>2, <2>3, SavesUntouched DEF history
<1> QED BY <1>1, <1>2, <1>3, <1>4, <1>5, <1>6 DEF Sync
-----------------------------------------------------------------------------
(* The theorems.                                                           *)

LEMMA StepSound == RevisionsDistinct /\ IInv /\ [Next]_vars => IInv'
<1> SUFFICES ASSUME RevisionsDistinct, IInv, [Next]_vars PROVE IInv'
    OBVIOUS
<1>0. TypeOK'
    BY StepTyped DEF IInv
<1>1. CASE Operator
    <2>1. Stamp /\ UNCHANGED <<proc, pass, newest, status>>
        BY <1>1 DEF Operator, SaveSettings, DeleteSetting
    <2> QED BY <1>0, <2>1, SaveSound
<1>2. CASE Rotation \/ RestartWeb
    <2>1. UNCHANGED <<revision, status, proc, pass, version, versionOf, newest>>
        BY <1>2 DEF Rotation, RotateRead, RotateWrite, RotateDone, RotateFails, RestartWeb,
                    table, history
    <2> QED BY <1>0, <2>1, NothingKnownChanges
<1>3. CASE UNCHANGED vars
    BY <1>0, <1>3, NothingKnownChanges DEF vars, table, history
<1> QED BY <1>0, <1>1, <1>2, <1>3, LifeSound, SyncSound DEF Next

\* The inductive invariant, where no two saves fall into one millisecond.
THEOREM SettingsInvariant == RevisionsDistinct /\ Spec => []IInv
<1> SUFFICES ASSUME RevisionsDistinct PROVE Spec => []IInv
    OBVIOUS
<1>1. IInv /\ [Next]_vars => IInv'
    BY StepSound
<1> QED BY InitSound, <1>1, PTL DEF Spec

\* A worker that believes itself at a revision uses settings at least as new
\* as the save that carried it.
THEOREM LoadedCoversRevisionAlways == RevisionsDistinct /\ Spec => []LoadedCoversRevision
<1>1. IInv => LoadedCoversRevision
    BY DEF IInv, WorkerSound, LoadedCoversRevision
<1> QED BY <1>1, SettingsInvariant, PTL

\* A page without a pending reload speaks of a worker that has loaded the last
\* save.
THEOREM NotPendingMeansLoadedAlways == RevisionsDistinct /\ Spec => []NotPendingMeansLoaded
<1>1. IInv => NotPendingMeansLoaded
    <2> SUFFICES ASSUME IInv, NEW w \in Worker, revision # 0, ~ReloadPending(w)
                 PROVE  newest[w] = versionOf[revision]
        BY DEF NotPendingMeansLoaded
    <2>1. status[w] = revision /\ status[w] # NoStatus
        BY InstantsAreNumbers, RuntimeAssumption DEF ReloadPending, IInv, TypeOK
    <2>2. /\ versionOf[revision] = version /\ versionOf[status[w]] <= newest[w]
          /\ newest[w] <= version
        BY <2>1 DEF IInv, Chronicle, WorkerSound
    <2>3. newest[w] \in Nat /\ version \in Nat
        BY DEF IInv, TypeOK
    <2> QED BY <2>1, <2>2, <2>3
<1> QED BY <1>1, SettingsInvariant, PTL
=============================================================================
