SPECIFICATION Spec
CONSTANTS
    Server = {n1}
    Command = {c1, c2, c3}
    NoOp = NoOp
    Nil = Nil
    SnapshotThreshold = 3
    PeerOfReply <- OwnAddress
    CrashWindows = {}
    LossyNetwork = TRUE
    MaxTerm = 3
    MaxBatch = 2
    MaxInFlight = 1
    MaxRestarts = 2
    MaxRetries = 0
    MaxReads = 2
VIEW View
INVARIANTS
    LinearizableReads
    StateMachineSafety
