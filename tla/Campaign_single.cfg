SPECIFICATION FairSpec
CONSTANTS
    Lead = {l1, l2}
    Worker = {w1, w2}
    Admin = {a1, a2}
    Beat = {b1}
    Channel = "whatsapp"
    ChunkSize = 1
    NoLead = NoLead
    MaxLaunches = 2
    MaxPauses = 0
    MaxFaults = 0
    MaxCopies = 0
INVARIANTS SoleOwner AtMostOnce CountersExact CompletedMeansDone
PROPERTIES ImplementsOutreach Settles
CHECK_DEADLOCK FALSE
