SPECIFICATION Spec
CONSTANTS
    Server = {n1, n2, n3}
    Command = {c1}
    NoOp = NoOp
    Nil = Nil
    SnapshotThreshold = 100
    PeerOfReply <- OwnAddress
    CrashWindows = {"election", "step_down"}
    LossyNetwork = FALSE
    MaxTerm = 2
    MaxBatch = 1
    MaxInFlight = 2
    MaxRestarts = 1
    MaxRetries = 0
    MaxReads = 0
SYMMETRY Symmetry
VIEW View
INVARIANTS
    ElectionSafety
    RestartRecoversLog
    StateMachineSafety
PROPERTIES
    ImplementsReplicatedLog
