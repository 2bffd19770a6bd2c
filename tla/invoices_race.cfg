SPECIFICATION Spec
CONSTANTS
    i1 = i1
    i2 = i2
    sub = sub
    p1 = p1
    p2 = p2
    p3 = p3
    r1 = r1
    r2 = r2
    NoSub = NoSub
    NoInvoice = NoInvoice
    NoPayment = NoPayment
    Subs = {sub}
    Invoices <- OneInvoice
    Totals = {2, 3}
    Payments <- TwoPayments
    Pays <- PaysFirst
    Amount <- Instalments
    Requests <- TwoRequests
    Ops <- NoUpdate
    Faults = TRUE
    Crashes = TRUE
SYMMETRY Symmetry
INVARIANTS
    NeverOverpaid
    PaidIsRecorded
