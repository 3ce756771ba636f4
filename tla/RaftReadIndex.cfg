SPECIFICATION Spec
CONSTANTS
    Server = {n1, n2, n3}
    Command = {c1}
    NoOp = NoOp
    Nil = Nil
    SnapshotThreshold = 100
    PeerOfReply <- OwnAddress
    CrashWindows = {}
    LossyNetwork = TRUE
    MaxTerm = 2
    MaxBatch = 1
    MaxInFlight = 1
    MaxRestarts = 0
    MaxRetries = 0
    MaxReads = 1
SYMMETRY Symmetry
VIEW View
INVARIANTS
    LinearizableReads
