\* Two admissions, two overlapping passes and a recall.
SPECIFICATION FairSpec
CONSTANTS
    Won = Won
    Lost = Lost
    Elsewhere = Elsewhere
    Lengthy = Lengthy
    Overlong = Overlong
    Here = Here
    There = There
    Outcome = Outcome
    Failure = Failure
    Activity = Activity
    Lesson = {Won, Lost, Elsewhere, Lengthy, Overlong}
    Repository = {Here, There}
    MemoryType = {Outcome, Failure}
    Transient = {Outcome}
    RepositoryOf <- MCRepositoryOf
    TypeOf <- MCTypeOf
    Near <- MCNear
    Invalid = {Overlong}
    Ineligible = {Lengthy}
    Reports <- MCReports
    Reflector = {1, 2}
    Consolidator = {1, 2}
    Recaller = {1}
    Execution = {Activity}
    RepositoryFor <- MCRepositoryFor
    Score <- MCScore
    Threshold = 1
    TopK = 2
    CandidateLimit = 2
    TypeCap <- MCTypeCap
    SameTitlePenalty = 2
    StoreEnabled = TRUE
    BatchSize = 1
    MaxCalls = 2
    MaxMemories = 2
    MaxAged = 1
    MaxOutages = 1
    MaxFaults = 1
    NoLesson = NoLesson
    NoPoint = NoPoint
INVARIANTS
    TypeOK
    IndexFollowsTable
    LostOnlyByFault
    NothingForgottenIsRecalled
PROPERTIES
    AdmittedMeansStored
    PendingGetsIndexed
