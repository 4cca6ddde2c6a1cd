SPECIFICATION Spec
CONSTANTS
    MaxInputs <- TwoMessages
    MaxOps = 6
    MaxAttempts <- CodeAttempts
    MaxFaults = 1
    AppendMode = FALSE
    MidTurn = FALSE
    WithImages = FALSE
INVARIANTS
    AnsweredNotWithdrawn
CHECK_DEADLOCK FALSE
