SPECIFICATION FairSpec
CONSTANTS
    Server = {n1, n2}
    Command = {c1, c2}
    NoOp = NoOp
    Nil = Nil
    SnapshotThreshold = 100
    PeerOfReply <- OwnAddress
    CrashWindows = {}
    LossyNetwork = FALSE
    MaxTerm = 2
    MaxBatch = 2
    MaxInFlight = 2
    MaxRestarts = 0
    MaxRetries = 1
    MaxReads = 0
INVARIANTS
    AckedOnMajority
    MatchIndexTrue
PROPERTIES
    CommittedEntriesStay
    WritesAnswered
