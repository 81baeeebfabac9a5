CONSTANTS
    a = a
    b = b
    c = c
    Callbacks <- MCCallbacks
    KeyOf <- MCKeyOf
    Initial = {a, b}
    Calls = {"subscribe", "unsubscribe", "close"}
    MaxEvents = 2
SPECIFICATION FairSpec
INVARIANTS DeliveredInOrder QuietAfterUnsubscribe
PROPERTIES EveryEventDelivered CloseReturns
CHECK_DEADLOCK FALSE
