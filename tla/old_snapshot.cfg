SPECIFICATION Spec
CONSTANTS
    N = 3
    Cmd = {c1}
    Nil = Nil
    Links <- Takeover
    Candidates = {0}
    Serving = {0, 1}
    Compacting = {0, 1}
    Crashing = {1}
    MaxTerm = 1
    MaxLog = 2
    MaxRpc = 1
    MaxCopies = 1
    MaxRestart = 1
INVARIANT NoOlderSnapshot
CHECK_DEADLOCK FALSE
