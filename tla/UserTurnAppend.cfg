SPECIFICATION Spec
CONSTANTS
    MaxInputs <- ThreeMessages
    MaxOps = 5
    MaxAttempts <- CodeAttempts
    MaxFaults = 1
    AppendMode = TRUE
    MidTurn = FALSE
    WithImages = FALSE
INVARIANTS
    CursorReadable
    GivenUpAfterAttempts
CHECK_DEADLOCK FALSE
