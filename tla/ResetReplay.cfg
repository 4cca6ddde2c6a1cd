SPECIFICATION ResetSpec
CONSTANTS
    Pictured = {"i1"}
    MaxDays = 2
    MaxEntries = 1
    MaxResets = 2
    MaxResetFaults = 2
INVARIANTS ArchiveHasRoom
CHECK_DEADLOCK FALSE
