CONSTANTS
    Outcomes = {"safe"}
    Inputs = {"message"}
    Failures = {}
    ConfirmationMode = TRUE
    HeadlessMode = FALSE
    Iterations = 2
    MaxInputs = 2
SPECIFICATION Spec
INVARIANT HistoryComplete
CHECK_DEADLOCK FALSE
