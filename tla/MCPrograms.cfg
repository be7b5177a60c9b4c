SPECIFICATION MCSpec
CONSTANTS
    None = None
    Syscalls <- MCSyscalls
    Terminal <- MCTerminal
    Kinds <- MCKinds
    Lineage <- MCLineage
    Takes <- MCTakes
    Optional <- MCOptional
    Gives <- MCGives
    MinCalls = 1
    MaxCalls = 3
    Given <- MCGiven
    Noise = {9}
    PageSize = 4096
    SmallPageSize = 32
    MaxFields = 3
    Half = 128
    GroupSize = 8
    ResourceKinds <- MCResourceKinds
    LineageOf <- MCLineageOf
    Tables <- MCTables
    Corpora <- MCCorpora
    SysTimeouts <- MCSysTimeouts
    EdgeTimeouts <- MCEdgeTimeouts
    MaxChosen = 4
    SyscallPenalty = 4
    EdgePenalty = 8
    Producer = 12
    Both = 4
    Sharing = 2
    WordLists <- MCWordLists
    CallDescs <- MCCallDescs
    CallPrograms <- MCCallPrograms
INVARIANTS
    RefsAreSound
    RefsFollowTheirCalls
    CallsAreFed
    ChoiceNeverFails
    LayoutsAgree
    GeneratedIsValid
    LengthsAreTold
    OnlyContentsAreLost
    KernelSeesTheData
    ResultsArriveWhereUsed
    WordsReadBack
CHECK_DEADLOCK FALSE
