CONSTANTS
    Threads = {t1, t2}
    MoreThreads = {t1, t2, t3}
    NoThread = NoThread
    CacheSize = 2
    MaxAdds = 4
    MaxCrashes = 0
    Fails = {"write"}
    Readers = {r1}
    Searches <- MCSearches
SPECIFICATION MCSpec
INVARIANTS
    SearchExact
    PagePositions
    PagesCoherent
PROPERTIES
    SearchTerminates
    EveryIdPublished
CHECK_DEADLOCK FALSE
