SPECIFICATION FairSpec
CONSTANTS
    Sigs <- MCSigs
    Crashes <- MCCrashes
    BackoffBase <- MCBackoffBase
    c1 = c1
    t1 = t1
    None = None
    Workers = {w1, w2}
    Operators = {o1}
    LeaseTime = 2
    ReplayTime = 1
    BackoffCap = 1
    AttemptsCap = 1
    MaxInterventions = 1
PROPERTY
    EveryArtifactIsTried
