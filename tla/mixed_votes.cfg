SPECIFICATION Spec
CONSTANTS
    N = 4
    Cmd = {c1}
    Nil = Nil
    Links <- Split
    Candidates = {0, 1}
    Serving = {}
    Compacting = {}
    Crashing = {}
    MaxTerm = 3
    MaxLog = 0
    MaxRpc = 1
    MaxCopies = 1
    MaxRestart = 0
INVARIANT ElectionSafety
CHECK_DEADLOCK FALSE
