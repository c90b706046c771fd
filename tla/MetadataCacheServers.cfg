SPECIFICATION Spec
CONSTANTS
    n1 = n1
    n2 = n2
    db = db
    search = search
    r1 = r1
    r2 = r2
    r3 = r3
    Nodes = {n1, n2}
    Trackers = {db}
    DbTracker = db
    Reqs = {r1, r2, r3}
    NodeOf <- ThreeOnTwo
    NoReq = NoReq
    Kinds = {"dml", "ddl"}
    Versioned = FALSE
    MaxLog = 3
    MaxFaults = 0
INVARIANTS
    DmlSeesItsSnapshotSchema
    NotFoundIsHonest
SYMMETRY Symmetry
