SPECIFICATION MCSpec
CONSTANTS
    Programs <- MCPrograms
    Calls <- MCCalls
    TimeoutProne <- MCTimeoutProne
    LegacyFailures <- MCLegacyFailures
    EdgeThreshold = 2
    SyscallThreshold = 3
    ShapeThreshold = 2
    DecayInterval = 2
    MaxDecay = 2
    CompactIdle = 4
    MaxWeak = 1
    MaxEpoch = 7
    open = open
    read = read
    getpid = getpid
    p1 = p1
    p2 = p2
    p3 = p3
    p4 = p4
INVARIANTS
    BlockedMatchesFailures
    EpochsMatchFailures
    RestartIsFaithful
PROPERTY
    ReleaseNeedsIdle
