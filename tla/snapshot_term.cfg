SPECIFICATION Spec
CONSTANTS
    N = 3
    Cmd = {c1}
    Nil = Nil
    Links <- AllLinks
    Candidates = {0}
    Serving = {0, 1}
    Compacting = {0}
    Crashing = {}
    MaxTerm = 1
    MaxLog = 1
    MaxRpc = 1
    MaxCopies = 1
    MaxRestart = 0
INVARIANT SnapshotTermPersisted
CHECK_DEADLOCK FALSE
