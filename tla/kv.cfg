SPECIFICATION Spec
CONSTANTS
    a = a
    b = b
    x = x
    v = v
    w = w
    Server <- TwoServers
    Clerk = {a, b}
    Key = {x}
    Val = {v, w}
    Script <- ReadWrite
    Compacting = {0}
    MaxLog = 4
    Faults = {"election", "restart", "stale", "call"}
    MaxFaults = 1
INVARIANTS TypeOK MapFollowsLog ApplyNeverBlocks
PROPERTIES Linearizable EveryCallReturns
CHECK_DEADLOCK FALSE
