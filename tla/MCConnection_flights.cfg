CONSTANTS
    Requests <- FlightRequests
    Configs <- AllConfigs
    ChunkSizes = {80, 256}
    MaxDown = 1
SPECIFICATION Spec
INVARIANTS TypeOK TunnelFaithful NameIsCut EvasionOrder CleanEndAccounted
