---------------------------- MODULE RuntimeConfig ----------------------------
(***************************************************************************)
(* How a setting that an operator saves reaches the workers.               *)
(*                                                                         *)
(* PUT and DELETE /api/settings write rows of system_settings and stamp    *)
(* CONFIG_REVISION with Date.now(), in one transaction.  Every worker      *)
(* loads all rows when it starts, and again whenever a pass of             *)
(* RuntimeConfigSynchronizer.syncOnce finds a revision that differs from   *)
(* the one it last applied; it then rebuilds the AI provider, hands both   *)
(* to the pipeline, and acknowledges in its WORKER_STATUS row.  Passes     *)
(* start every 5 s and do not wait for each other.  Secret rows are sealed *)
(* with a key of the process environment, which rotate-key replaces row by *)
(* row.                                                                    *)
(*                                                                         *)
(* A configuration is kept as the rows it was made from, with the number   *)
(* of the last save among them (a history variable, which the code does    *)
(* not have).  A definition X_Y that precedes X is a variant of X with one *)
(* plausible defect.                                                       *)
(***************************************************************************)
EXTENDS Integers, FiniteSets

CONSTANTS
    Setting,           \* the keys of SETTINGS_CATALOG
    SecretSetting,     \* those of them that are sealed
    BaseUrl,           \* AI_BASE_URL
    Value,             \* what a setting may hold
    Blank,             \* the empty string
    Blankable,         \* settings whose schema takes it, as AI_MODEL's does
    Refused,           \* URLs that parse, but that the outbound guard refuses
    Default,           \* [Setting -> Value]: the default
    Env,               \* [Setting -> Value]: environment, or the default
    Edit,              \* what operators submit: functions on some settings
    Reverted,          \* the settings they revert
    EncryptionKey,     \* values of SETTINGS_ENCRYPTION_KEY
    FirstKey,          \* the one deployed at first
    Worker, Pass, WorkerOf,
    Instant,           \* what Date.now() may return
    RevisionsDistinct, \* no two saves in one millisecond?
    LockRequired,      \* REDIS_ENABLED and not USE_IN_MEMORY_QUEUE_FALLBACK
    LockRequireRedis,
    MaxSaves, MaxRotations, MaxFaults,
    NoRow, Plaintext, NoStatus

ASSUME RuntimeAssumption ==
    /\ SecretSetting \subseteq Setting
    /\ BaseUrl \in Setting
    /\ Blank \in Value
    /\ Blankable \subseteq Setting \ (SecretSetting \cup {BaseUrl})
    /\ Default \in [Setting -> Value]
    /\ Env \in [Setting -> Value]
    /\ \A k \in Setting : Env[k] = Blank => k \in Blankable
    /\ Env[BaseUrl] \notin Refused
    /\ Edit \subseteq UNION {[S -> Value] : S \in SUBSET Setting}
    /\ Reverted \subseteq Setting
    /\ FirstKey \in EncryptionKey
    /\ WorkerOf \in [Pass -> Worker]
    /\ Instant \subseteq Nat \ {0}
    /\ {RevisionsDistinct, LockRequired, LockRequireRedis} \subseteq BOOLEAN
    /\ {MaxSaves, MaxRotations, MaxFaults} \subseteq Nat
    /\ NoRow \notin [value : Value, seal : EncryptionKey \cup {Plaintext}]
    /\ NoStatus \notin Nat
    /\ Plaintext \notin EncryptionKey

VARIABLES
    \* PostgreSQL: system_settings
    rows,        \* the settings that are overridden
    revision,    \* CONFIG_REVISION, 0 without a row
    status,      \* WORKER_STATUS_<id>: the revision acknowledged
    \* the key in the deployment's environment, and in the web process
    deployedKey, webKey,
    \* rotate-key
    rotation, rotations,
    \* the workers, and syncOnce calls in flight
    proc, pass,
    \* history: saves so far, the save that last carried a revision, the
    \* newest save each worker has ever loaded
    version, versionOf, newest,
    faults

table == <<rows, revision, status>>
keys == <<deployedKey, webKey>>
rotating == <<rotation, rotations>>
history == <<version, versionOf, newest>>
vars == <<table, keys, rotating, proc, pass, history, faults>>
-----------------------------------------------------------------------------
Seal == EncryptionKey \cup {Plaintext}
Row == [value : Value, seal : Seal]
Config == [version : Nat, values : [Setting -> Value]]

Process == [pc : {"down", "refused", "starting", "running", "stopping"},
            key : EncryptionKey,
            config : Config,      \* what the pipeline uses
            provider : Config,    \* what its AI provider was built from
            watcher : Config,     \* what the poller uses
            currentRevision : Nat,
            lock : {"none", "redis", "memory"},
            degraded : BOOLEAN]

SyncPass == [pc : {"idle", "compare", "apply", "report"},
             desired : Nat, loaded : Config]

\* The environment alone, before any save.
EnvOnly == [version |-> 0, values |-> Env]
IdlePass == [pc |-> "idle", desired |-> 0, loaded |-> EnvOnly]
Stopped(key) ==
    [pc |-> "down", key |-> key, config |-> EnvOnly,
     provider |-> EnvOnly, watcher |-> EnvOnly, currentRevision |-> 0,
     lock |-> "none", degraded |-> FALSE]

TypeOK ==
    /\ rows \in [Setting -> Row \cup {NoRow}]
    /\ revision \in Instant \cup {0}
    /\ status \in [Worker -> Nat \cup {NoStatus}]
    /\ deployedKey \in EncryptionKey
    /\ webKey \in EncryptionKey
    /\ rotation \in [pc : {"idle", "writing", "broken"}, to : EncryptionKey,
                     todo : SUBSET (Setting \X Value)]
    /\ rotations \in 0..MaxRotations
    /\ proc \in [Worker -> Process]
    /\ pass \in [Pass -> SyncPass]
    /\ version \in Nat
    /\ versionOf \in [Instant \cup {0} -> Nat]
    /\ newest \in [Worker -> Nat]
    /\ faults \in 0..MaxFaults

Init ==
    /\ rows = [k \in Setting |-> NoRow]
    /\ revision = 0
    /\ status = [w \in Worker |-> NoStatus]
    /\ deployedKey = FirstKey
    /\ webKey = FirstKey
    /\ rotation = [pc |-> "idle", to |-> FirstKey, todo |-> {}]
    /\ rotations = 0
    /\ proc = [w \in Worker |-> Stopped(FirstKey)]
    /\ pass = [p \in Pass |-> IdlePass]
    /\ version = 0
    /\ versionOf = [r \in Instant \cup {0} |-> 0]
    /\ newest = [w \in Worker |-> 0]
    /\ faults = 0

Fault == faults < MaxFaults /\ faults' = faults + 1
-----------------------------------------------------------------------------
(* Reading the table.                                                      *)

Overridden == {k \in Setting : rows[k] # NoRow}

\* decryptSecret: a sealed value opens with its own key only.
Opens(key, row) == row.seal \in {Plaintext, key}

\* getAll and getAsMap decrypt every row: one that does not open fails them.
Readable(key) == \A k \in Overridden : Opens(key, rows[k])

\* getAsMap merged over the environment, as getConfig parses it.
Loaded == [version |-> version,
           values |-> [k \in Setting |-> IF rows[k] = NoRow THEN Env[k] ELSE rows[k].value]]

\* validateProviderUrl: protocol, host and address of a URL that parses.
IsValid(url) == url \notin Refused

\* createAiProvider succeeds: the EndpointProvider constructor throws otherwise.
Buildable(config) == IsValid(config.values[BaseUrl])
-----------------------------------------------------------------------------
(* The settings route.                                                     *)

\* validateUpdatePayload judges each value by its schema alone: a URL that the
\* guard refuses is a URL, and the empty string a string, or 0, or false.
Accepts(edit) ==
    DOMAIN edit # {} /\ \A k \in DOMAIN edit : edit[k] = Blank => k \in Blankable

\* SETTINGS_CATALOG.
IsSecret(k) == k \in SecretSetting

\* encryptSecret, for the settings the catalog calls secret.
Stored(k, value, key) ==
    [value |-> value, seal |-> IF IsSecret(k) THEN key ELSE Plaintext]

\* upsert, setting by setting.
Upserted(edit) ==
    [k \in Setting |-> IF k \in DOMAIN edit THEN Stored(k, edit[k], webKey) ELSE rows[k]]

\* The end of either transaction.
Stamp ==
    \E r \in Instant :
        /\ RevisionsDistinct => versionOf[r] = 0
        /\ revision' = r
        /\ versionOf' = [versionOf EXCEPT ![r] = version + 1]
        /\ version' = version + 1

\* PUT.  upsert reads, and so decrypts, a row before it replaces it.
SaveSettings(edit) ==
    /\ version < MaxSaves
    /\ Accepts(edit)
    /\ \A k \in DOMAIN edit \cap Overridden : Opens(webKey, rows[k])
    /\ rows' = Upserted(edit)
    /\ Stamp
    /\ UNCHANGED <<status, keys, rotating, proc, pass, newest, faults>>

DeleteSetting_Blank(k) ==
    /\ version < MaxSaves
    /\ rows' = [rows EXCEPT ![k] = [value |-> NoRow, seal |-> Plaintext]]
    /\ Stamp
    /\ UNCHANGED <<status, keys, rotating, proc, pass, newest, faults>>

\* DELETE, which does not look at the row.
DeleteSetting(k) ==
    /\ version < MaxSaves
    /\ rows' = [rows EXCEPT ![k] = NoRow]
    /\ Stamp
    /\ UNCHANGED <<status, keys, rotating, proc, pass, newest, faults>>

\* GET: what the settings page shows of k (a secret masked): row || environment
\* || default, where an empty string is as good as none.  A table that cannot be
\* read is taken for one that does not exist yet.
Shown(k) ==
    IF Readable(webKey) /\ rows[k] # NoRow /\ rows[k].value # Blank THEN rows[k].value
    ELSE IF Env[k] # Blank THEN Env[k] ELSE Default[k]

\* GET /api/runtime/status.
ReloadPending(w) == revision # 0 /\ status[w] # revision
-----------------------------------------------------------------------------
(* rotate-key: no transaction around the statements.                       *)

RotateRead(to) ==
    /\ rotation.pc # "writing"
    /\ rotations < MaxRotations
    /\ to # deployedKey
    /\ \A k \in SecretSetting \cap Overridden : Opens(deployedKey, rows[k])
    /\ rotation' = [pc |-> "writing", to |-> to,
                    todo |-> {<<k, rows[k].value>> : k \in SecretSetting \cap Overridden}]
    /\ rotations' = rotations + 1
    /\ UNCHANGED <<table, keys, proc, pass, history, faults>>

\* rotateSecretCiphertext.
Resealed(value, key) == [value |-> value, seal |-> key]

\* UPDATE ... WHERE key = k, with the value read at the start.
RotateWrite(u) ==
    /\ u \in rotation.todo
    /\ rotation' = [rotation EXCEPT !.todo = @ \ {u}]
    /\ rows' = IF rows[u[1]] = NoRow THEN rows
               ELSE [rows EXCEPT ![u[1]] = Resealed(u[2], rotation.to)]
    /\ UNCHANGED <<revision, status, keys, rotations, proc, pass, history, faults>>

\* The operators deploy the new key once the tool has reported success.
RotateDone ==
    /\ rotation.pc = "writing"
    /\ rotation.todo = {}
    /\ rotation' = [rotation EXCEPT !.pc = "idle"]
    /\ deployedKey' = rotation.to
    /\ UNCHANGED <<table, webKey, rotations, proc, pass, history, faults>>

RotateFails ==
    /\ rotation.pc = "writing"
    /\ Fault
    /\ rotation' = [rotation EXCEPT !.pc = "broken", !.todo = {}]
    /\ UNCHANGED <<table, keys, rotations, proc, pass, history>>

RestartWeb ==
    /\ webKey # deployedKey
    /\ webKey' = deployedKey
    /\ UNCHANGED <<table, deployedKey, rotating, proc, pass, history, faults>>
-----------------------------------------------------------------------------
(* A worker's life: main() in apps/worker/src/index.ts.                    *)

Up(w) == proc[w].pc \in {"starting", "running", "stopping"}

\* Does not start: main rejects, the process exits, the container restarts it.
Refuse(w) == proc' = [proc EXCEPT ![w] = [Stopped(deployedKey) EXCEPT !.pc = "refused"]]

\* The provider, then the distributed lock.
BootLock(w, config, connected) ==
    IF Buildable(config) /\ (LockRequired /\ LockRequireRedis => connected)
    THEN proc' = [proc EXCEPT ![w] =
            [pc |-> "starting", key |-> deployedKey, config |-> config,
             provider |-> config, watcher |-> config, currentRevision |-> 0,
             lock |-> IF LockRequired /\ connected THEN "redis" ELSE "memory",
             degraded |-> LockRequired /\ ~connected]]
    ELSE Refuse(w)

\* getAsMap; if it fails the worker goes on with its environment alone.  A
\* table that can be read, or Redis, is out of reach only by a fault.
Boot(w) ==
    /\ proc[w].pc \in {"down", "refused"}
    /\ \E connected, ok \in BOOLEAN :
          LET config == IF ok THEN Loaded ELSE EnvOnly IN
          /\ ok => Readable(deployedKey)
          /\ IF (~ok /\ Readable(deployedKey)) \/ (LockRequired /\ ~connected)
             THEN Fault ELSE UNCHANGED faults
          /\ BootLock(w, config, connected)
          /\ newest' = IF proc'[w].pc = "starting" /\ config.version > newest[w]
                       THEN [newest EXCEPT ![w] = config.version] ELSE newest
    /\ UNCHANGED <<table, keys, rotating, pass, version, versionOf>>

\* The queue starts or falls back; only then does the poller come to be.
StartWatcher(w) ==
    /\ proc[w].pc = "starting"
    /\ \E queued \in BOOLEAN :
          /\ IF LockRequired /\ ~queued THEN Fault ELSE UNCHANGED faults
          /\ proc' = [proc EXCEPT ![w].pc = "running",
                                  ![w].degraded = @ \/ ~LockRequired \/ ~queued]
    /\ UNCHANGED <<table, keys, rotating, pass, history>>

EndPasses(w) == pass' = [p \in Pass |-> IF WorkerOf[p] = w THEN IdlePass ELSE pass[p]]

\* shutdown() clears the timers; what is in flight goes on until the exit.
Shutdown(w) ==
    /\ proc[w].pc = "running"
    /\ Fault
    /\ proc' = [proc EXCEPT ![w].pc = "stopping"]
    /\ UNCHANGED <<table, keys, rotating, pass, history>>

Exit(w) ==
    /\ proc[w].pc = "stopping"
    /\ proc' = [proc EXCEPT ![w] = Stopped(proc[w].key)]
    /\ EndPasses(w)
    /\ UNCHANGED <<table, keys, rotating, history, faults>>

Crash(w) ==
    /\ Up(w)
    /\ Fault
    /\ proc' = [proc EXCEPT ![w] = Stopped(proc[w].key)]
    /\ EndPasses(w)
    /\ UNCHANGED <<table, keys, rotating, history>>
-----------------------------------------------------------------------------
(* RuntimeConfigSynchronizer.syncOnce.                                     *)

\* What a pass has loaded is of no use to it after it was applied.
Move(p, step) ==
    pass' = [pass EXCEPT ![p] = IF step = "idle" THEN IdlePass
                                ELSE [@ EXCEPT !.pc = step, !.loaded = EnvOnly]]

\* A pass of the timer: SELECT CONFIG_REVISION.
SyncRead(p) ==
    /\ proc[WorkerOf[p]].pc \in {"starting", "running"}
    /\ pass[p].pc = "idle"
    /\ pass' = [pass EXCEPT ![p] = [pc |-> "compare", desired |-> revision, loaded |-> EnvOnly]]
    /\ UNCHANGED <<table, keys, rotating, proc, history, faults>>

SyncLoad_Swallowed(p) ==
    LET w == WorkerOf[p] IN
    /\ pass[p].pc = "compare"
    /\ pass[p].desired # proc[w].currentRevision
    /\ IF Readable(proc[w].key)
       THEN pass' = [pass EXCEPT ![p].pc = "apply", ![p].loaded = Loaded]
       ELSE Move(p, "report")
    /\ UNCHANGED <<table, keys, rotating, proc, history, faults>>

\* A new revision: getAsMap, which throws if a row does not open.
SyncLoad(p) ==
    LET w == WorkerOf[p] IN
    /\ pass[p].pc = "compare"
    /\ pass[p].desired # proc[w].currentRevision
    /\ IF Readable(proc[w].key)
       THEN pass' = [pass EXCEPT ![p].pc = "apply", ![p].loaded = Loaded]
       ELSE Move(p, "idle")
    /\ UNCHANGED <<table, keys, rotating, proc, history, faults>>

\* The same revision: a heartbeat, which repeats the acknowledgement.
SyncBeat(p) ==
    LET w == WorkerOf[p] IN
    /\ pass[p].pc = "compare"
    /\ pass[p].desired = proc[w].currentRevision
    /\ Move(p, "report")
    /\ UNCHANGED <<table, keys, rotating, proc, history, faults>>

\* onReload rebuilds the provider, then updates the pipeline, then the poller.
\* What it throws ends the pass: a URL refused before anything has changed,
\* or a poller that does not exist yet after the pipeline has.
Reloaded(w, loaded) ==
    IF ~Buildable(loaded) THEN proc[w]
    ELSE [proc[w] EXCEPT !.config = loaded, !.provider = loaded,
                         !.watcher = IF proc[w].pc = "starting" THEN @ ELSE loaded]

ReloadSucceeds(w, loaded) == Buildable(loaded) /\ proc[w].pc # "starting"

SyncApply_Reread(p) ==
    LET w == WorkerOf[p]
        loaded == pass[p].loaded IN
    /\ pass[p].pc = "apply"
    /\ proc' = [proc EXCEPT ![w] =
          [Reloaded(w, loaded) EXCEPT
              !.currentRevision = IF ReloadSucceeds(w, loaded) THEN revision ELSE @]]
    /\ newest' = IF Buildable(loaded) /\ loaded.version > newest[w]
                 THEN [newest EXCEPT ![w] = loaded.version] ELSE newest
    /\ Move(p, IF ReloadSucceeds(w, loaded) THEN "report" ELSE "idle")
    /\ UNCHANGED <<table, keys, rotating, version, versionOf, faults>>

SyncApply_MarkedFirst(p) ==
    LET w == WorkerOf[p]
        loaded == pass[p].loaded IN
    /\ pass[p].pc = "apply"
    /\ proc' = [proc EXCEPT ![w] =
          [Reloaded(w, loaded) EXCEPT !.currentRevision = pass[p].desired]]
    /\ newest' = IF Buildable(loaded) /\ loaded.version > newest[w]
                 THEN [newest EXCEPT ![w] = loaded.version] ELSE newest
    /\ Move(p, IF ReloadSucceeds(w, loaded) THEN "report" ELSE "idle")
    /\ UNCHANGED <<table, keys, rotating, version, versionOf, faults>>

\* From the answer of getAsMap to the acknowledgement nothing is awaited.
SyncApply(p) ==
    LET w == WorkerOf[p]
        loaded == pass[p].loaded IN
    /\ pass[p].pc = "apply"
    /\ proc' = [proc EXCEPT ![w] =
          [Reloaded(w, loaded) EXCEPT
              !.currentRevision = IF ReloadSucceeds(w, loaded) THEN pass[p].desired ELSE @]]
    /\ newest' = IF Buildable(loaded) /\ loaded.version > newest[w]
                 THEN [newest EXCEPT ![w] = loaded.version] ELSE newest
    /\ Move(p, IF ReloadSucceeds(w, loaded) THEN "report" ELSE "idle")
    /\ UNCHANGED <<table, keys, rotating, version, versionOf, faults>>

\* The upsert of WORKER_STATUS, with the revision as it was at its call.
SyncReport(p) ==
    /\ pass[p].pc = "report"
    /\ status' = [status EXCEPT ![WorkerOf[p]] = pass[p].desired]
    /\ Move(p, "idle")
    /\ UNCHANGED <<rows, revision, keys, rotating, proc, history, faults>>

\* A statement of a pass fails; syncOnce catches it.
SyncFails(p) ==
    /\ pass[p].pc # "idle"
    /\ Fault
    /\ Move(p, "idle")
    /\ UNCHANGED <<table, keys, rotating, proc, history>>
-----------------------------------------------------------------------------
Operator == (\E e \in Edit : SaveSettings(e)) \/ (\E k \in Reverted : DeleteSetting(k))
Rotation == (\E to \in EncryptionKey : RotateRead(to)) \/ RotateDone \/ RotateFails
            \/ (\E u \in Setting \X Value : RotateWrite(u))
Life(w) == Boot(w) \/ StartWatcher(w) \/ Shutdown(w) \/ Exit(w) \/ Crash(w)
Sync(p) == SyncRead(p) \/ SyncLoad(p) \/ SyncBeat(p) \/ SyncApply(p) \/ SyncReport(p)

Next ==
    \/ Operator
    \/ Rotation
    \/ RestartWeb
    \/ \E w \in Worker : Life(w)
    \/ \E p \in Pass : Sync(p) \/ SyncFails(p)

Spec == Init /\ [][Next]_vars

\* The timer of every worker that is up, the restart policy of its container,
\* and the deployment of the web process.  Nothing is assumed of operators.
Fairness ==
    /\ WF_vars(RestartWeb)
    /\ \A w \in Worker : WF_vars(Boot(w)) /\ WF_vars(StartWatcher(w)) /\ WF_vars(Exit(w))
    /\ \A p \in Pass : WF_vars(Sync(p))

FairSpec == Spec /\ Fairness
-----------------------------------------------------------------------------
(* Properties.                                                             *)

\* A worker that believes itself at a revision uses settings at least as new
\* as the save that carried it: revision and rows are read by two statements,
\* in this order, and two passes may overlap (runtime-config.ts:22-31).
LoadedCoversRevision ==
    \A w \in Worker : Up(w) =>
        versionOf[proc[w].currentRevision] <= proc[w].config.version

\* When the status page no longer says that a reload is pending, the worker it
\* speaks of has loaded the last save (runtime/status/route.ts:60).
NotPendingMeansLoaded ==
    \A w \in Worker : revision # 0 /\ ~ReloadPending(w) => newest[w] = versionOf[revision]

\* The pipeline never works with the mode of one save and the AI provider of
\* another: a reload that cannot build its provider changes neither
\* (apps/worker/src/index.ts:258-262).
ProviderMatchesConfig ==
    \A w \in Worker : Up(w) => proc[w].provider = proc[w].config

\* Once operators are done and the table can be read, every running worker, its
\* poller included, comes to use what table and environment say, and says so:
\* after a boot on the environment alone, after failed passes, after a pass
\* that was overtaken, after a reload that found no poller.  That is what the
\* settings page shows, but for a setting that is the empty string
\* (settings/route.ts:330-336).
Settled(w) == proc[w].pc = "running" /\ Readable(proc[w].key) /\ Readable(webKey)
              /\ Buildable(Loaded)
InEffect(w) ==
    LET used == proc[w].config.values IN
    /\ used = Loaded.values
    /\ proc[w].watcher.values = used
    /\ \A k \in Setting : used[k] # Blank => Shown(k) = used[k]
    /\ ~ReloadPending(w)
SettledSettingsReachWorkers ==
    \A w \in Worker : <>[]Settled(w) => <>[]InEffect(w)
-----------------------------------------------------------------------------
(* Statements of the repository that the code does not keep.               *)

\* system-settings.repository.ts:126-132: rotation "Runs inside a single
\* database transaction"; so one key opens everything whenever it is not at work.
RotationIsAtomic ==
    rotation.pc # "writing" => \E key \in EncryptionKey : Readable(key)

\* settings/route.ts:314: what the page shows of a setting that is no secret is
\* its "actual value", once a worker has loaded the last save.
PageShowsActualValue ==
    \A w \in Worker, k \in Setting \ SecretSetting :
        Settled(w) /\ InEffect(w) => Shown(k) = proc[w].config.values[k]
=============================================================================
