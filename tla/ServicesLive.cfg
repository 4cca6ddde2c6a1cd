SPECIFICATION LiveSpec
CONSTANTS
    Parts = {"bridge", "work", "turn", "lanes", "hearing", "remark"}
    Callers = {"c1", "c2"}
    Appenders = {}
    MaxGenerations = 2
    MaxPending = 2
    MaxBridgeFaults = 1
    Operations = {"in"}
    InsideRoot = {"in"}
    MaxModeChanges = 1
    MaxLives = 2
    MaxWorkFaults = 1
    Observations = {"o1"}
    MaxTurns = 1
    MaxMessages = 1
    MaxTurnFaults = 1
    LaneMessages = {"m1"}
    MaxLaneEvents = 2
    Settings = {"s1"}
    RestartLimit = 1
    MaxSessions = 3
    MaxHearingRequests = 2
    MaxHearingFaults = 2
    MaxFinals = 0
    Pictured = {}
    MaxDays = 1
    MaxEntries = 0
    MaxResets = 0
    MaxResetFaults = 0
    MaxMemoryDay = 1
    DaysPerWeek = 1
    MaxVersions = 0
    MaxRuns = 0
    MaxMemoryFaults = 0
    VoiceNames = {"A"}
    MaxProposals = 1
    MaxNameVersions = 1
    MaxJobs = 0
    MaxNamingEvents = 0
    MaxShots = 0
    MaxSightings = 0
    MaxCursorIds = 1
    MaxScreenEvents = 0
    app = app
    notify = notify
    MaxRemarks = 2
    Recipients = {app}
    Generations = {0}
    FirstGeneration = 0
    Quiet <- FirstQuiet
    ProcessedLimit = 2
    MaxFaults = 2
PROPERTIES EveryRemarkSettles EveryCallReturns EveryAskEnds UsersAreServed MessagesEnd HearingComes
CHECK_DEADLOCK FALSE
