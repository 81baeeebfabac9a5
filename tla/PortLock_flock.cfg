CONSTANTS
    Workers = {w1, w2}
    Ports = {p}
    Platforms = {TRUE}
    MaxFiles = 2
    MaxCrashes = 0
SPECIFICATION Spec
INVARIANT AllocatedOnce
CHECK_DEADLOCK FALSE
