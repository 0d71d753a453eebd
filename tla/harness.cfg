SPECIFICATION Spec
CONSTANTS
    EndName <- MCEnd
    ServerName <- MCServer
    CallId = {1}
    Nil = Nil
    n = 3
    Clerk = {1000}
    ClerkTo = {{0, 1, 2}, {1}}
    MaxInstance = 4
    MaxOp = 3
INVARIANTS AnsweredIsSaved OneWriter LinksAreWanted
PROPERTIES OldInstanceIsIsolated CallsReturn
CHECK_DEADLOCK FALSE
