\* Two secrets and one fault during the rotation of their key.
SPECIFICATION Spec
CONSTANTS
    old = old
    new = new
    inner = inner
    blank = blank
    k1 = k1
    k2 = k2
    w1 = w1
    p1 = p1
    p2 = p2
    Setting <- TwoSecretSettings
    SecretSetting <- TwoSecrets
    BaseUrl <- MCBaseUrl
    Value = {old, new, inner, blank}
    Blank = blank
    Blankable = {}
    Refused = {inner}
    Default <- TwoSecretEnv
    Env <- TwoSecretEnv
    Edit <- TwoSecretEdits
    Reverted <- MCReverted
    EncryptionKey = {k1, k2}
    FirstKey = k1
    Worker = {w1}
    Pass = {p1}
    WorkerOf <- MCWorkerOf
    Instant = {1}
    RevisionsDistinct = TRUE
    LockRequired = TRUE
    LockRequireRedis = FALSE
    MaxSaves = 1
    MaxRotations = 1
    MaxFaults = 1
    NoRow = NoRow
    Plaintext = Plaintext
    NoStatus = NoStatus
INVARIANT RotationIsAtomic
CHECK_DEADLOCK FALSE
