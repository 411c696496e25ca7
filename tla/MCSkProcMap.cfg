SPECIFICATION Spec
CONSTANTS
    Pids <- MCPids
    Fds <- MCFds
    Inodes <- MCInodes
    NoInode = 0
    Readable <- MCPids
    LongComm <- NoPids
    WordBits = 4
    Multiplier = 9
    InitShift = 1
    ShiftWraps = FALSE
INVARIANTS
    TypeOK
    ChainsConsistent
    OwnersTrue
    ScanComplete
    MapEmptied
