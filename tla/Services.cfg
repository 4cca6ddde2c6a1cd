SPECIFICATION ServicesSpec
CONSTANTS
    Parts = {"bridge", "work", "turn", "lanes", "hearing", "reset", "memory", "naming", "screen"}
    Callers = {"c1", "c2"}
    Appenders = {"c1"}
    MaxGenerations = 2
    MaxPending = 2
    MaxBridgeFaults = 1
    Operations = {"in", "out"}
    InsideRoot = {"in"}
    MaxModeChanges = 1
    MaxLives = 2
    MaxWorkFaults = 1
    Observations = {"o1"}
    MaxTurns = 2
    MaxMessages = 1
    MaxTurnFaults = 1
    LaneMessages = {"m1", "m2"}
    MaxLaneEvents = 2
    Settings = {"s1"}
    RestartLimit = 1
    MaxSessions = 3
    MaxHearingRequests = 2
    MaxHearingFaults = 2
    MaxFinals = 1
    Pictured = {"i1"}
    MaxDays = 2
    MaxEntries = 2
    MaxResets = 2
    MaxResetFaults = 2
    MaxMemoryDay = 4
    DaysPerWeek = 2
    MaxVersions = 1
    MaxRuns = 2
    MaxMemoryFaults = 1
    VoiceNames = {"A", "B"}
    MaxProposals = 2
    MaxNameVersions = 2
    MaxJobs = 2
    MaxNamingEvents = 3
    MaxShots = 2
    MaxSightings = 1
    MaxCursorIds = 1
    MaxScreenEvents = 2
INVARIANTS ServicesTypeOK ReturnedIsForgotten RunsInOneLife WorksOnApproval SpokenOnceAndCounted AcceptedQueuedOnce BlockedIsQuiet LostIsRebuilt OneHelper DeletedStaysDeleted ViewIsTrue NothingIsLost CallsWellSpent OnlyGrantedNames CardsAreTrue SightingIsDelivered
PROPERTIES SeenIsNotSpoken OldScopeNotStored StartsAfterReap SuccessIsDurable AcceptsCurrentOffer
CHECK_DEADLOCK FALSE
