\* A primary looked up in the DNS and a fallback that is not, one retry.
SPECIFICATION FairSpec
CONSTANTS
    N = 2
    Eligible = {1, 2}
    Remote = {1}
    MaxRetries = 1
    Threshold = 3
    Window = 2
    Cooldown = 1
INVARIANTS
    TypeOK
    HammeringBounded
    TrippedByOwnFailures
    EveryProviderConsidered
PROPERTIES
    PrimaryComesBack
CHECK_DEADLOCK FALSE
