SPECIFICATION Spec
CONSTANTS
    w1 = w1
    w2 = w2
    None = None
    MaxKey = 2
    Values = {1, 2}
    Writers = {w1}
    Ops = {"insert", "replace", "update", "delete"}
    DocFetch = 4
    Grace = FALSE
    Drops = FALSE
    MaxWrites = 1
    MaxFailures = 0
    MaxBuilds = 1
CHECK_DEADLOCK FALSE
INVARIANTS
    IndexConsistent
