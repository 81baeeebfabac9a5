CONSTANT
    MaxEvents = 9
SPECIFICATION Spec
INVARIANT RestoredInFull
CHECK_DEADLOCK FALSE
