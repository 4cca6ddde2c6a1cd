SPECIFICATION Spec
CONSTANTS
    MaxInputs <- ThreeMessages
    MaxOps = 6
    MaxAttempts <- CodeAttempts
    MaxFaults = 1
    AppendMode = TRUE
    MidTurn = FALSE
    WithImages = FALSE
INVARIANTS
    LoggedForThisBatch
CHECK_DEADLOCK FALSE
