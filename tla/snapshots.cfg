SPECIFICATION Spec
CONSTANTS
    N = 3
    Cmd = {c1, c2}
    Nil = Nil
    Links <- Takeover
    Candidates = {0, 1}
    Serving = {0, 1}
    Compacting = {0, 1}
    Crashing = {}
    MaxTerm = 2
    MaxLog = 2
    MaxRpc = 2
    MaxCopies = 2
    MaxRestart = 0
CONSTRAINT RoundsOrTakeover
SYMMETRY CommandSymmetry
INVARIANTS StateMachineSafety AppliedWasCommitted NoPanic SnapshotIndexMatches MatchIndexSound NoLostWakeup
PROPERTY CommitMonotonic
CHECK_DEADLOCK FALSE
