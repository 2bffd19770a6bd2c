SPECIFICATION Spec
CONSTANTS
    s1 = s1
    s2 = s2
    r1 = r1
    t1 = t1
    t2 = t2
    c1 = c1
    c2 = c2
    c3 = c3
    c4 = c4
    NoCid = NoCid
    NoSub = NoSub
    Subs <- OneSub
    Requests <- OneRequest
    Tasks <- TwoTasks
    Cids <- ThreeCids
    Ops <- NoDownloadImage
    MaxRetries = 2
    Faults = TRUE
    Crashes = TRUE
SYMMETRY Symmetry
INVARIANTS
    TypeOK
    ContainerOnlyAfterApproval
    ProvisionOwed
PROPERTIES
    DataPreserved
    ImplementsContract
