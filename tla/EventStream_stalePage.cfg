CONSTANTS
    Threads = {t1, t2}
    NoThread = NoThread
    CacheSize = 2
    MaxAdds = 3
    MaxCrashes = 1
    Fails = {}
SPECIFICATION Spec
INVARIANT PagesCoherent

CHECK_DEADLOCK FALSE
