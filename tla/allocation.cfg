SPECIFICATION Spec
CONSTANTS
    s1 = s1
    s2 = s2
    s3 = s3
    t1 = t1
    t2 = t2
    NoSub = NoSub
    Subs <- ThreeSubs
    Tasks <- TwoTasks
    Faults = TRUE
SYMMETRY Symmetry
INVARIANTS
    TypeOK
    HttpPortsDistinct
    SshPortStaysNew
PROPERTIES
    ImplementsRegister
