SPECIFICATION Spec
CONSTANTS
    MaxInputs <- TwoMessages
    MaxOps = 8
    MaxAttempts <- CodeAttempts
    MaxFaults = 2
    AppendMode = TRUE
    MidTurn = FALSE
    WithImages = TRUE
INVARIANTS
    GivenUpAfterAttempts
CHECK_DEADLOCK FALSE
