SPECIFICATION Spec
CONSTANTS
    Nobody = Nobody
    Agent = {1, 2}
    Manager = {2}
    Lead = {1, 2}
    Call = {c1, c2}
    FollowUp = {1, 2, 3}
    Outcome <- Outcomes
    Disposition <- Dispositions
    ByHand = {"new", "interested", "lost"}
    Later = {3}
    Caps = {0, 1}
    Ttl = 1
    Cooldown = 1
    LastTick = 3
    Staff = {1}
    Working = {"available", "break"}
    StaleAfter <- Minutes
    LastMinute = 4
    Ranks = {0, 1}
    Phone = {n1, n2}
    Invalid = Invalid
    Deliveries <- Payloads
    Files <- Sheets
    Chunk = 1
    MaxLeads = 2
    Request = {r1, r2}
    Mixes <- AllMixes
    MaxRequests <- Bounds
CONSTRAINT Relevant
SYMMETRY Symmetry
INVARIANTS
    TypeOK
    LeadAgrees
    PresenceAgrees
    RecordingAgrees
    IntakeAgrees
PROPERTIES
    OneCheckout
    StageForward
    CapHolds
CHECK_DEADLOCK FALSE
