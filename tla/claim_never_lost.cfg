CONSTANTS
    i1 = i1
    i2 = i2
    s1 = s1
    s2 = s2
    w1 = w1
    w2 = w2
    p1 = p1
    p2 = p2
    r1 = r1
    NoWorker = NoWorker
    NoPass = NoPass
    NoItem = NoItem
    Item = {i1}
    Session = {s1}
    SessionOf <- OneSession
    Worker = {w1}
    Pass = {p1}
    Reconciler = {}
    WorkerOf <- OneWorker
    Verdict = {"APPROVED"}
    SafetyState = {"RUNNING"}
    MaxAttempts = 2
    ScanLimit = 10
    RenewalMayFail = FALSE
    MaxFaults = 1
SPECIFICATION FairSpec
PROPERTIES
    NeverLost
