SPECIFICATION Spec
CONSTANTS
    Server = {n1, n2, n3}
    Command = {}
    NoOp = NoOp
    Nil = Nil
    SnapshotThreshold = 100
    PeerOfReply <- OwnAddress
    CrashWindows = {}
    LossyNetwork = TRUE
    MaxTerm = 3
    MaxBatch = 1
    MaxInFlight = 1
    MaxRestarts = 0
    MaxRetries = 1
    MaxReads = 0
SYMMETRY Symmetry
VIEW View
INVARIANTS
    LogMatching
    LeaderCompleteness
    IndicesWithinLog
