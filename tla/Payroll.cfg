SPECIFICATION Spec
CONSTANTS
    a = a
    b = b
    h = h
    c1 = c1
    c2 = c2
    Day = {1, 2, 3}
    Month = {1, 2}
    MonthOf <- Months2
    Leave = {a, b, h}
    Dates <- LeaveDates
    HalfDay = {h}
    Waiting = {a, h}
    Paid = TRUE
    Quotas = {0, 4}
    Allocations = {3, 6}
    Dialer <- DialerHours
    Claim = {c1, c2}
    ClaimMonth <- ClaimMonths
    NoMonth = 0
    NoDoc = NoDoc
    NoLeave = NoLeave
    Request = {r1, r2}
    Mixes <- AllMixes
    MaxRequests <- Requests4
CONSTRAINT Relevant
SYMMETRY Symmetry
INVARIANTS
    TypeOK
    BalanceExact
    BalanceCovered
    LeaveOnBooks
    ClaimPaidByItsSlip
    SlipsAgree
PROPERTY Frozen
CHECK_DEADLOCK FALSE
