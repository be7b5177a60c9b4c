SPECIFICATION Spec
CONSTANTS
    Sigs = {c1}
    Crashes = {c1}
    BackoffBase <- MCBackoffBase
    None = None
    Manager = Manager
    Workers = {w1, w2}
    Operators = {}
    LeaseTime = 2
    ReplayTime = 1
    BackoffCap = 1
    AttemptsCap = 1
    MaxInterventions = 1
    MaxSaves = 1
    Undisturbed = FALSE
INVARIANT
    LeasesExclude
