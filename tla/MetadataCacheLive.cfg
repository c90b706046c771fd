SPECIFICATION FairSpec
CONSTANTS
    n1 = n1
    n2 = n2
    db = db
    search = search
    r1 = r1
    r2 = r2
    r3 = r3
    Nodes = {n1}
    Trackers = {db}
    DbTracker = db
    Reqs = {r1, r2}
    NodeOf <- OneServer
    NoReq = NoReq
    Kinds = {"dml", "ddl", "instant"}
    Versioned = FALSE
    MaxLog = 2
    MaxFaults = 1
PROPERTIES
    Answers
