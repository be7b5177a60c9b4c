SPECIFICATION Spec
CONSTANTS
    Sigs <- MCSigs
    Crashes <- MCCrashes
    BackoffBase <- MCBackoffBase
    c1 = c1
    t1 = t1
    None = None
    Workers = {w1, w2}
    Operators = {o1}
    LeaseTime = 2
    ReplayTime = 3
    BackoffCap = 2
    AttemptsCap = 2
    MaxInterventions = 2
INVARIANTS
    SecureClaimsAreOnRecord
    ShownIsWhatIs
PROPERTY
    OutcomesAreKept
