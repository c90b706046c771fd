SPECIFICATION Spec
CONSTANTS
    \* KvLayers
    Txs = {"t1", "t2"}
    NumKeys = 2
    Lengths = {1, 5}
    None = None
    Broken = Broken
    ChunkSize = 2
    Threshold = 2
    Compression = {TRUE, FALSE}
    Shrinks = FALSE
    MaxWork = 5
    \* WorkQueue
    Workers = {"w1", "w2"}
    Ids = {"i1", "i2"}
    NoItem = NoItem
    Delays = {0, 1}
    LeaseTimes = {1, 2}
    MaxTime = 3
    MaxLeases = 3
    \* Namespaces
    Servers = {"s1", "s2"}
    Reqs = {"r1", "r2"}
    StrIds = {"a", "b"}
    MetaIds = {"a", "b"}
    Codes = {1}
    MaxCode = 2
    MaxEpochs = 2
    MaxMeta = 1
    Absent = Absent
    \* Projects
    DdlReqs = {"r1", "r2"}
    Projs = {"p"}
    Branches = {"b"}
    Colls = {"c"}
    Indexes = {"i"}
    Caches = {"k"}
    NoRow = NoRow
    DropOverlaps = TRUE
    MaxDdl = 3
    \* AppKeys
    AkApps = {1, 2}
    AkUsers = {"u", "v"}
    AkProjects = {"p"}
    AkStart <- SomeKeys
    AkReqs = {1, 2}
    PerPage = 1
    Emails <- TwoEmails
    TokenLife = 2
    TokenMargin = 1
    KeepDelay = 1
    NewNames = {"m"}
    MaxAkTime = 2
    MaxSecret = 2
    MaxAkAsks = 3
    \* TxSessions
    TReqs = {1, 2, 3}
    TWrites = 2
    NoKTx = NoKTx
    \* StoreCalls
    Callers = {1, 2}
    MaxLost = 3
CHECK_DEADLOCK FALSE
INVARIANTS
    NothingLeftBehind
