SPECIFICATION Spec
CONSTANTS
    w1 = w1
    w2 = w2
    None = None
    MaxKey = 3
    Values = {1, 2}
    Writers = {w1, w2}
    Ops = {"insert", "replace", "update", "delete"}
    DocFetch = 1
    Grace = TRUE
    Drops = FALSE
    MaxWrites = 2
    MaxFailures = 1
    MaxBuilds = 1
CHECK_DEADLOCK FALSE
SYMMETRY Symmetry
INVARIANTS
    IndexConsistent
    IndexInv
    IndexQueriesExact
