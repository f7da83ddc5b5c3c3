SPECIFICATION FairSpec
CONSTANTS
    s1 = s1
    s2 = s2
    p1 = p1
    p2 = p2
    Sub = {s1}
    Payment = {p1, p2}
    NoPayment = NoPayment
    Event <- OneSubscription
    Worker = {w1, w2}
    Admin = {a1}
    NoSub = NoSub
    NoWorker = NoWorker
    NoEvent = NoEvent
    FormRow <- FormRows
    MaxRedeliveries = 1
    MaxCrashes = 1
    MaxErrors = 1
    MaxDecisions = 2
    MaxSweeps = 1
INVARIANTS
    TypeOK
    OneInvoicePerPayment
    AnsweredMeansInvoiced
    KillSwitchHolds
    AccessFollows
PROPERTY EveryChargeInvoiced
CONSTRAINTS
    RacesApart
    OneFault
CHECK_DEADLOCK FALSE
