SPECIFICATION NamingSpec
CONSTANTS
    VoiceNames = {"A", "B"}
    MaxProposals = 2
    MaxNameVersions = 2
    MaxJobs = 2
    MaxNamingEvents = 3
INVARIANT UndoIsTaken
CHECK_DEADLOCK FALSE
