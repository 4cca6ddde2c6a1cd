SPECIFICATION Spec
CONSTANTS
    app = app
    notify = notify
    MaxRemarks = 2
    Recipients <- Surfaces
    Generations <- Conversations
    FirstGeneration = 0
    Quiet <- NoneQuiet
    ProcessedLimit = 3
    MaxFaults = 1
SYMMETRY SurfaceSymmetry
INVARIANTS
    TypeOK
    OutboxTellsTheTruth
    ForgottenOnlyWhenEnqueued
    StampedWithItsConversation
PROPERTIES
    DeliversInOrder
