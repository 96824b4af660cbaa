CONSTANTS
    Words <- MCWords
    Bits <- MCBits
    Argvs <- MCArgvs
    Addresses = {"0.0.0.0"}
    NumWorkers = 2
    Clients = {c1, c2}
    Descriptors = 6
SPECIFICATION Spec
INVARIANTS ParseMatchesReference CleanExit
PROPERTIES StartsAsTold TasksKeepSession ServesOn
    StartUpEnds BacklogDrains NoHoldAndWait
