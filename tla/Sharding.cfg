CONSTANTS
    Ids = {1, 2, 4, 5}
    Addrs = {1, 4}
    Mid = 20
    ZBase = 40
    Top = 100
    Keys = {10, 20, 30, 100}
    Paths = {11, 31}
    PrefixOf <- MCPrefixOf
    Uuids = {1}
    MasterAddrs <- MCMasterAddrs
    MaxRetries = 2
    Scenarios <- MCScenarios
SPECIFICATION Spec
INVARIANTS
    TypeOK
    RangesBelongToShards
    SameShardsSameRoute
    SteadyRequests
    OneHolder
PROPERTIES
    WholeKeySpaceKept
    ImplementsConfigServer
    RequestEnds
    MapsConverge
