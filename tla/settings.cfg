\* One worker, two overlapping passes, a save that goes wrong and one that
\* corrects it, one crash or failed statement, one rotation of the key.
SPECIFICATION FairSpec
CONSTANTS
    old = old
    new = new
    inner = inner
    blank = blank
    k1 = k1
    k2 = k2
    w1 = w1
    p1 = p1
    p2 = p2
    Setting <- MCSettings
    SecretSetting <- MCSecrets
    BaseUrl <- MCBaseUrl
    Value = {old, new, inner, blank}
    Blank = blank
    Blankable <- MCBlankable
    Refused = {inner}
    Default <- MCEnv
    Env <- MCEnv
    Edit <- MCEdits
    Reverted <- MCReverted
    EncryptionKey = {k1, k2}
    FirstKey = k1
    Worker = {w1}
    Pass = {p1, p2}
    WorkerOf <- MCWorkerOf
    Instant = {1, 2}
    RevisionsDistinct = TRUE
    LockRequired = TRUE
    LockRequireRedis = FALSE
    MaxSaves = 2
    MaxRotations = 1
    MaxFaults = 1
    NoRow = NoRow
    Plaintext = Plaintext
    NoStatus = NoStatus
INVARIANTS
    TypeOK
    LoadedCoversRevision
    NotPendingMeansLoaded
PROPERTY
    SettledSettingsReachWorkers
CHECK_DEADLOCK FALSE
