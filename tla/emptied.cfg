SPECIFICATION Spec
CONSTANTS
    admin = admin
    reader = reader
    Server <- OneServer
    Clerk = {admin}
    Group = {1, 2, 3}
    NShards = 3
    Script <- MoveScript
    MaxLog = 3
    Faults = {"call"}
    MaxFaults = 1
INVARIANTS EvenOverMembers
CHECK_DEADLOCK FALSE
