SPECIFICATION Spec
CONSTANTS
    Server = {n1, n2, n3}
    Command = {c1, c2}
    NoOp = NoOp
    Nil = Nil
    SnapshotThreshold = 2
    PeerOfReply <- OwnAddress
    CrashWindows = {}
    LossyNetwork = TRUE
    MaxTerm = 1
    MaxBatch = 1
    MaxInFlight = 1
    MaxRestarts = 0
    MaxRetries = 0
    MaxReads = 0
SYMMETRY Symmetry
VIEW View
INVARIANTS
    StateMachineSafety
