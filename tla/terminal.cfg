SPECIFICATION LiveSpec
CONSTANTS
    Sockets = {s1, s2, s3, s4}
    NoSocket = NoSocket
    maxReconnectAttempts = 2
    MaxLate = 1
INVARIANTS
    TypeOK
    GraceOnlyForTheLeft
    
PROPERTY Connects
CHECK_DEADLOCK FALSE
