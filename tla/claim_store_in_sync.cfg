SPECIFICATION Spec
CONSTANTS
    Users = {anna, ben}
    NoUser = NoUser
    Requests = {r1, r2}
    MaxIssued = 4
    Tidy = TRUE
    Patient = FALSE
PROPERTIES
    KeepsInSync
CHECK_DEADLOCK FALSE
