SPECIFICATION Spec
CONSTANTS
    RtServers = {"s1"}
    Channels = {"c1"}
    SessionIds = {"d1"}
    Conns = {1, 2}
    Movers = {1}
    Gors = {1, 2}
    MaxMsgs = 2
    MaxRtCrashes = 1
    Billed = {"n1", "n2", "n3", "default_namespace"}
    OtherServers = {"n1"}
    DefaultNs = "default_namespace"
    ByteCounts = {3}
    UnitSize = 2
    PageSize = 2
    MaxRecorded = 3
    MaxRounds = 2
    QNs = {"n1", "n2", "default"}
    DefaultQNs = "default"
    QReqs = {1, 2}
    QSizes = {3}
    QUnit = 2
    NodeUnits = 4
    NsNodeUnits = 2
    NsUnits <- OwnUnits
    NsDefault = 20
    Hysteresis = 1
    StorageLimit = 4
    CurRates = {0, 30}
    MaxTicks = 1
    MaxAsked = 3
    CacheNames = {"c1"}
    CKeys = {1, 2, 3}
    CVals = {"v"}
    CReqs = {1, 2}
    MaxScan = 2
    RedisCount = 1
    Counts = {0, 3}
    MaxCOps = 4
    KeyTypes = {"int32", "int64"}
    Writers = {1, 2, 3}
    GivenKeys = {1}
    CounterBits = 3
    MaxClock = 2
    MaxRetries = 2
    SearchIds = {"a", "b"}
    SearchReqs = {1, 2}
    MaxBatch = 2
    SDFields <- SearchedFields
    SDIds = {"a", "b"}
    SDDocs <- SearchedDocs
    SDUpdates <- SearchedUpdates
    SDIdFields <- IdPaths
    MaxSDWrites = 4
    RqServers = {"s1", "s2"}
    RqIds = {1, 2}
    RqAsks <- SomeAsks
    RqTokens <- SomeTokens
    RqConfigs <- SomeConfigs
    RqSkew = 1
    RqTtl = 2
    RqCacheSize = 1
    RqDefault = 2
    RqMaximum = 4
    RqLong = 8
    RqAllowed <- RoleMethods
    MaxRqTime = 3
    XAsks = 2
    XAnswers = {0, 2}
CHECK_DEADLOCK FALSE
INVARIANTS
    
    
    QuotasCorrect
    CacheCorrect
    KeysCorrect
    CopiesCorrect
    DocumentsCorrect
    RequestsCorrect
