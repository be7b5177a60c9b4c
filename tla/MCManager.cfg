SPECIFICATION FairSpec
CONSTANTS
    None = None
    Programs = {p1, p2}
    Signals = {s1, s2}
    MaxExecs = 2
    CheckInterval = 2
    MaxFaults = 2
INVARIANTS
    AnswersMatchRequest
    ExecutorKnowsTheCorpus
    SignalsAreWitnessed
PROPERTIES
    DiskNeverForgets
    StopsOrStarves
CHECK_DEADLOCK FALSE
