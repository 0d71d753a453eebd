SPECIFICATION Spec
CONSTANTS
    admin = admin
    reader = reader
    Server <- TwoServers
    Clerk = {admin, reader}
    Group = {1, 2, 3}
    NShards = 4
    Script <- RaceScript
    MaxLog = 3
    Faults = {"election", "stale", "call"}
    MaxFaults = 2
INVARIANTS TypeOK ExactlyOnce ReplicasAgree AnsweredIsCommitted QueryIsFresh ApplyNeverBlocks
CHECK_DEADLOCK FALSE
