SPECIFICATION Spec
CONSTANTS
    s1 = s1
    s2 = s2
    p1 = p1
    p2 = p2
    Sub = {s1, s2}
    Payment = {p1, p2}
    NoPayment = NoPayment
    Event <- TwoSubscriptions
    Worker = {w1, w2}
    Admin = {}
    NoSub = NoSub
    NoWorker = NoWorker
    NoEvent = NoEvent
    FormRow = {}
    MaxRedeliveries = 1
    MaxCrashes = 0
    MaxErrors = 0
    MaxDecisions = 0
    MaxSweeps = 0
INVARIANT AnsweredMeansInvoiced
CHECK_DEADLOCK FALSE
