SPECIFICATION Spec
CONSTANTS
    Sigs = {c1, t1}
    Crashes = {c1}
    BackoffBase <- MCBackoffBase
    None = None
    Manager = Manager
    Workers = {w1, w2}
    Operators = {}
    LeaseTime = 1
    ReplayTime = 2
    BackoffCap = 1
    AttemptsCap = 1
    MaxInterventions = 1
    MaxSaves = 2
    Undisturbed = TRUE
PROPERTY
    OperationsAreAtomic
