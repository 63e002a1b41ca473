SPECIFICATION FairSpec
CONSTANTS
    MaxSessions = 2
    MaxTranscripts = 2
    MaxStops = 2
    Worlds <- Ordinary
INVARIANTS
    ListeningHasASession
    OneSessionAtATime
    StopAppliesEverything
PROPERTIES
    NothingTypedOnceOver
    StopReturns
CHECK_DEADLOCK FALSE
