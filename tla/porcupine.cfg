SPECIFICATION Spec
CONSTANTS
    Key = {"x", "y"}
    Histories <- SmallHistories
    Word = 2
INVARIANTS TypeOK VerdictIsRight SearchIsConsistent PartialsAreLongest
PROPERTY Returns
CHECK_DEADLOCK FALSE
