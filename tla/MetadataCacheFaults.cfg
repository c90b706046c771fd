SPECIFICATION Spec
CONSTANTS
    n1 = n1
    n2 = n2
    db = db
    search = search
    r1 = r1
    r2 = r2
    r3 = r3
    Nodes = {n1, n2}
    Trackers = {db}
    DbTracker = db
    Reqs = {r1, r2}
    NodeOf <- TwoServers
    NoReq = NoReq
    Kinds = {"dml", "ddl", "txn"}
    Versioned = FALSE
    MaxLog = 4
    MaxFaults = 1
INVARIANTS
    SchemaChain
