SPECIFICATION Spec
CONSTANTS
    N = 3
    Cmd = {c1}
    Nil = Nil
    Links <- Chain
    Candidates = {0, 1}
    Serving = {}
    Compacting = {}
    Crashing = {}
    MaxTerm = 4
    MaxLog = 1
    MaxRpc = 1
    MaxCopies = 1
    MaxRestart = 0
INVARIANT LeaderCompleteness
CHECK_DEADLOCK FALSE
