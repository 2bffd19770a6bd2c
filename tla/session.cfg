SPECIFICATION LiveSpec
CONSTANTS
    Users = {anna, ben}
    NoUser = NoUser
    Requests = {r1, r2, r3}
    MaxIssued = 6
    Tidy = TRUE
    Patient = TRUE
INVARIANTS
    TypeOK
    OneRefresh
    ActsAsShown
PROPERTIES
    Settles
CHECK_DEADLOCK FALSE
