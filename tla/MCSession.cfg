SPECIFICATION FairSpec
CONSTANTS
    None = None
    c1 = c1
    c2 = c2
    Cookies <- MCCookies
    Jobs <- MCJobs
    SshLimit = 1
    AcceptLimit = 1
    RequestLimit = 2
    MaxFaults = 2
INVARIANTS
    MessagesStayWhole
    NothingIsLeft
PROPERTIES
    CrashesAreReported
    SessionsEnd
CHECK_DEADLOCK FALSE
