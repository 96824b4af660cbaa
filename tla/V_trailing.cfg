CONSTANTS
    Requests <- NoSniRequests
    Configs <- DefaultConfig
    ChunkSizes = {80, 256}
    MaxDown = 0
SPECIFICATION Spec
INVARIANT StreamUnbroken
