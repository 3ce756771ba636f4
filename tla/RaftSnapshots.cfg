SPECIFICATION Spec
CONSTANTS
    Server = {1, 2, 3}
    Command = {}
    NoOp = NoOp
    Nil = Nil
    SnapshotThreshold = 1
    PeerOfReply <- HelmAddress
    CrashWindows = {"election", "step_down", "truncate", "create", "install"}
    LossyNetwork = TRUE
    MaxTerm = 2
    MaxBatch = 1
    MaxInFlight = 1
    MaxRestarts = 1
    MaxRetries = 0
    MaxReads = 0
VIEW View
INVARIANTS
    TypeOK
    SnapshotLabels
