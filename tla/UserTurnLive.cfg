SPECIFICATION FairSpec
CONSTANTS
    MaxInputs <- TwoMessages
    MaxOps = 9
    MaxAttempts <- CodeAttempts
    MaxFaults = 1
    AppendMode = TRUE
    MidTurn = FALSE
    WithImages = FALSE
PROPERTIES
    EverySaidSettles
CHECK_DEADLOCK FALSE
