SPECIFICATION Spec
CONSTANTS
    MaxInputs <- TwoMessages
    MaxOps = 6
    MaxAttempts <- CodeAttempts
    MaxFaults = 1
    AppendMode = FALSE
    MidTurn = FALSE
    WithImages = TRUE
INVARIANTS
    CursorReadable
CHECK_DEADLOCK FALSE
