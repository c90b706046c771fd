SPECIFICATION FairSpec
CONSTANTS
    w1 = w1
    w2 = w2
    None = None
    MaxKey = 6
    Values = {1}
    Writers = {w1}
    Ops = {"insert", "replace", "update", "delete", "move"}
    DocFetch = 4
    Grace = TRUE
    Drops = TRUE
    MaxWrites = 1
    MaxFailures = 0
    MaxBuilds = 1
CHECK_DEADLOCK FALSE
PROPERTIES
    BuildEnds
