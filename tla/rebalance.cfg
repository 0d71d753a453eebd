SPECIFICATION Spec
CONSTANTS
    admin = admin
    reader = reader
    Server <- OneServer
    Clerk = {admin}
    Group = {1, 2, 3}
    NShards = 5
    Script <- AnyScript
    MaxLog = 3
    Faults = {"restart"}
    MaxFaults = 1
INVARIANTS ExactlyOnce Balanced OwnersAreMembers JoinIsMinimal ApplyTerminates
CHECK_DEADLOCK FALSE
