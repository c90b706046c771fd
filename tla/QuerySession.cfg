SPECIFICATION Spec
CONSTANTS
    s1 = s1
    s2 = s2
    k1 = k1
    k2 = k2
    Parts = {p, q}
    Objects = {{p}, {q}}
    p = p
    q = q
    None = None
    Sessions = {s1, s2}
    Keys = {k1, k2}
    Stored = {k1}
    Ops = {"insert", "replace", "update", "unset", "delete", "move"}
    CommitAfterError = FALSE
    MaxTx = 2
    MaxStatements = 2
    MaxFaults = 1
SYMMETRY Symmetry
CHECK_DEADLOCK FALSE
INVARIANTS
    TypeOK
    LogReplays
    SearchInSync
    RequestOnce
