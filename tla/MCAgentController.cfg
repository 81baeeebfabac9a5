CONSTANTS
    Outcomes = {"safe", "risky", "say", "ask", "finish", "reject", "malformed",
                "context", "raise", "rate_limit", "stuck", "budget"}
    Inputs = {"message", "pause", "confirm", "close"}
    Failures = {"runtime"}
    ConfirmationMode = TRUE
    HeadlessMode = FALSE
    Iterations = 2
    MaxInputs = 2
SPECIFICATION MCSpec
INVARIANTS ExecutedAsAllowed AwaitingHasAction WithinLimit
PROPERTY Settles
CHECK_DEADLOCK FALSE
