SPECIFICATION Spec
CONSTANTS
    Send = {s1}
    Copy = {c1, c2}
    NoCopy = NoCopy
    MaxRetries = 1
    m1 = m1
    m2 = m2
    m3 = m3
    a1 = a1
    a2 = a2
    Message <- Messages3
    Ad = {a1, a2}
    NoAd = NoAd
    Clicked <- Clicks
    Handler = {h1, h2}
    MaxPosts = 2
SYMMETRY Symmetry
CONSTRAINT OneSide
INVARIANTS TypeOK ReceiptsAgree InboundKept
CHECK_DEADLOCK FALSE
