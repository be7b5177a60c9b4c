SPECIFICATION MCSpec
CONSTANTS
    NoCrash = NoCrash
    Limit = 8
    Kept = 4
    MaxLine = 5
    MaxTotal = 24
    None = None
    NoTitle = NoTitle
    Lines <- MCLines
    Characters = {"0", "7", "a", "x", "-"}
    MinNumber = 2
    MinHex = 4
    MaxLines = 3
    MaxWord = 6
    Absent = Absent
    CrashArtifacts <- MCCrashes
    Timeouts <- MCTimeouts
    Detailed <- MCTimeouts
    oops = oops
    stall = stall
    MaxSaves = 3
    MaxStops = 1
    w1 = w1
    w2 = w2
    c1 = c1
    c2 = c2
    Sigs <- MCSigs
    Crashes <- MCSigs
    BackoffBase <- MCBackoffBase
    Workers = {w1, w2}
    Operators = {}
    LeaseTime = 1
    ReplayTime = 1
    BackoffCap = 1
    AttemptsCap = 3
    MaxInterventions = 0
    Planned = 2
    MaxRounds = 3
    MaxFaults = 1
INVARIANTS
    RecentCrashIsFound
    TitlesAreStable
    CatalogLeadsToFiles
    ResultsTellTheBest
    RoundsAreOnRecord
PROPERTIES
    ReadersAreNotLedBack
CHECK_DEADLOCK FALSE
