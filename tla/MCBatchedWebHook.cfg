CONSTANTS
    short = short
    long = long
    None = none
    Contents <- MCContents
    SizeOf <- MCSizeOf
    Writers = {w1, w2}
    Paths = {p, q}
    Limit = 3
    Workers = 2
    Failures = {"refused", "unanswered"}
    MaxUpdates = 3
SPECIFICATION FairSpec
INVARIANTS SizeAccounts NeverStranded WrittenOnceArrives
PROPERTY EventuallySent
CHECK_DEADLOCK FALSE
