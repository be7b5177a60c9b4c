SPECIFICATION FairSpec
CONSTANTS
    Sigs = {c1}
    Crashes = {c1}
    BackoffBase <- MCBackoffBase
    None = None
    Manager = Manager
    Workers = {w1}
    Operators = {}
    LeaseTime = 1
    ReplayTime = 1
    BackoffCap = 1
    AttemptsCap = 1
    MaxInterventions = 2
    MaxSaves = 2
    Undisturbed = FALSE
PROPERTY
    SavedArtifactsAreQueued
