\* A session with a question that cannot be stored, another with a question
\* that has no identity, and one more question in either.
SPECIFICATION FairSpec
CONSTANTS
    s1 = s1
    s2 = s2
    bad = bad
    news = news
    late = late
    ask = ask
    anon = anon
    w1 = w1
    w2 = w2
    NoWorker = NoWorker
    Worker = {w1, w2}
    Session = {s1, s2}
    Activity = {bad, news, late, ask, anon}
    SessionOf <- Owner
    Listed <- Variety
    Unstorable = {bad}
    Beginning <- BothWait
    SessionState = {"AWAITING_USER_INPUT", "COMPLETED"}
    SessionsPerPage = 1
    ActivitiesPerPage = 1
    MaxPages = 2
    MaxChanges = 1
    MaxFaults = 1
INVARIANTS
    TypeOK
    NothingLeftBehind
PROPERTIES
    EveryQuestionHandedOver
