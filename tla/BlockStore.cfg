CONSTANTS
    s1 = s1
    s2 = s2
    s3 = s3
    Nobody = Nobody
    Servers = {s1, s2, s3}
    ColdDir = {s1, s2, s3}
    Rack <- MCRack
    Shards <- MCShards
    ReplicationFactor = 2
    DataShards = 1
    ParityShards = 1
    MaxDepth = 3
    MaxJobs = 1
    Scenarios <- MCScenarios
SPECIFICATION Spec
INVARIANTS
    TypeOK
    FullReadsRight
    AckedIsStored
PROPERTIES
    Healed
    ReadsAnswered
    ReadSurvives
    FencingConverges
