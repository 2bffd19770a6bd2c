SPECIFICATION LiveSpec
CONSTANTS
    Cases <- AllCases
    KnownGaps <- AllKnownGaps
    MaxWrites = 3
INVARIANTS
    TypeOK
    OwnScreenIsCurrent
CHECK_DEADLOCK FALSE
PROPERTIES
    PolledCatchesUp
