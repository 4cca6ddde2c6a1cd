SPECIFICATION Spec
CONSTANTS
    MaxInputs <- TwoMessages
    MaxOps = 6
    MaxAttempts <- CodeAttempts
    MaxFaults = 1
    AppendMode = TRUE
    MidTurn = TRUE
    WithImages = TRUE
INVARIANTS
    TypeOK
    QuarantineLosesNoAnswer
    AnsweredOnce
    AnsweredKeepsPreparation
PROPERTIES
    LeavesQueueSettled
CHECK_DEADLOCK FALSE
