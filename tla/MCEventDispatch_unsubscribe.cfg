CONSTANTS
    a = a
    b = b
    c = c
    Callbacks <- MCCallbacks
    KeyOf <- MCKeyOf
    Initial = {a, b}
    Calls = {"unsubscribe"}
    MaxEvents = 2
SPECIFICATION Spec
INVARIANTS QueueThreadSurvives
CHECK_DEADLOCK FALSE
