CONSTANTS
    a1 = a1
    a2 = a2
    s1 = s1
    w1 = w1
    w2 = w2
    fix = fix
    other = other
    NoText = NoText
    NoActivity = NoActivity
    NoWorker = NoWorker
    NoDecision = NoDecision
    NoProposal = NoProposal
    Session = {s1}
    SessionOf <- OneSession
    Text = {fix, other}
    Activity = {a1, a2}
    Awaits <- AllQuestions
    Worker = {w1, w2}
    Proposal <- OneCorrection
    Assessed <- Harmless
    Configured <- FullAuto
    Degraded = {FALSE}
    SafetyState = {"RUNNING"}
    MaxAiCalls = 2
    CallsPerDecision = 1
    MaxCorrections = 2
    RenewalMayFail = FALSE
    MaxUncharged = 0
    MaxFaults = 1
SPECIFICATION Spec
SYMMETRY FullSymmetry
INVARIANTS
    AiBudgetHolds
    CorrectionsDiffer
