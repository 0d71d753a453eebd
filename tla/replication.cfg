SPECIFICATION Spec
CONSTANTS
    N = 3
    Cmd = {c1}
    Nil = Nil
    Links <- Chain
    Candidates = {0, 2}
    Serving = {}
    Compacting = {}
    Crashing = {0, 1, 2}
    MaxTerm = 2
    MaxLog = 2
    MaxRpc = 2
    MaxCopies = 1
    MaxRestart = 1
CONSTRAINT OneCallOnceLogged
INVARIANTS TypeOK ElectionSafety LogMatching MatchIndexSound OwnTermCompleteness BackupProgress
PROPERTY RestartKeepsPromises
CHECK_DEADLOCK FALSE
