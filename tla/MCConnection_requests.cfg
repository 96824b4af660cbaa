CONSTANTS
    Requests <- AllRequests
    Configs <- AllConfigs
    ChunkSizes = {80, 256}
    MaxDown = 1
SPECIFICATION Spec
INVARIANTS ResponseMatchesOutcome GuardedDial
PROPERTIES NothingAfterShutdown RequestIsAnswered TaskEnds RelayProgress
    KeepsSession
