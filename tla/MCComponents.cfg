CONSTANTS
    Threads = {t1, t2}
    NoThread = NoThread
    CacheSize = 2
    MaxAdds = 5
    MaxCrashes = 2
    Fails = {"serialize", "write"}
    MaxBashCalls = 4
    MaxOuts = 4
    HistoryLimit = 7
    Workers = {"w1", "w2"}
    Ports = {"p", "q"}
    Platforms = {TRUE, FALSE}
    MaxFiles = 4
    MaxDeaths = 1
    MaxJobs = 2
    MaxLines = 3
    MaxShellCalls = 5
    Sids = {"c", "d"}
    DesiredWarm = 1
    MaxServers = 3
    MaxRuntimes = 3
    TokenRequests = {"p", "q", "r"}
    MaxPairs = 5
    TokenFaults = {"refused", "unanswered", "crash"}
    LoopActions = {"a", "b"}
    LoopObservations = {"x", "error"}
    MaxLoopEvents = 12
    MaxLoopMessages = 4
    MaxLoopRestarts = 1
    MaxSize = 6
    KeepFirst = 1
    MaxCondEvents = 14
    MaxId = 3
    PageLimit = 2
    PageDefault = 1
    Searches <- MCSearches
SPECIFICATION MCSpec
INVARIANTS
    PersistBeforePublish
    PublishedOnce
    RestoredAsCollected
    HeadKept
    NotTypedIntoRunning
    EachLineOnce
    OwnExitCode
    LocksExclude
    OutputKept
    ServersOwned
    RefreshedOnce
    PagedAsOne
PROPERTIES
    WriteOnce
    ImplementsEventLog
    LoopRemoved
    UserMessagesKept
    ShrinksToTarget
CHECK_DEADLOCK FALSE
