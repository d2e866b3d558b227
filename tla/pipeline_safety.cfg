CONSTANTS
    a1 = a1
    a2 = a2
    s1 = s1
    w1 = w1
    w2 = w2
    fix = fix
    other = other
    NoText = NoText
    NoActivity = NoActivity
    NoWorker = NoWorker
    NoDecision = NoDecision
    NoProposal = NoProposal
    Session = {s1}
    SessionOf <- OneSession
    Text = {fix, other}
    Activity = {a1}
    Awaits <- AllQuestions
    Worker = {w1, w2}
    Proposal <- Mixed
    Assessed <- HarmlessOrNot
    Configured <- FullAutoOrDry
    Degraded = {FALSE}
    SafetyState = {"RUNNING"}
    MaxAiCalls = 1
    CallsPerDecision = 1
    MaxCorrections = 1
    RenewalMayFail = TRUE
    MaxUncharged = 0
    MaxFaults = 1
SPECIFICATION Spec
SYMMETRY WorkerSymmetry
INVARIANTS
    TypeOK
    MutatedAtMostOnce
    EffectIsTheDecision
    QueuedIsUntouched
    SuccessIsTrue
PROPERTIES
    RulesOnce
