SPECIFICATION Spec
CONSTANTS
    None = None
    Programs = {p1, p2}
    Signals = {s1}
    MaxExecs = 3
    CheckInterval = 2
    MaxFaults = 1
CHECK_DEADLOCK FALSE
PROPERTY
    EveryConsoleCrashIsSaved
