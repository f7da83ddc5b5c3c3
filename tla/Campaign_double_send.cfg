SPECIFICATION Spec
CONSTANTS
    Lead = {l1}
    Worker = {w1, w2}
    Admin = {a1}
    Beat = {}
    Channel = "whatsapp"
    ChunkSize = 1
    NoLead = NoLead
    MaxLaunches = 2
    MaxPauses = 1
    MaxFaults = 0
    MaxCopies = 0
INVARIANT AtMostOnce
CHECK_DEADLOCK FALSE
