SPECIFICATION Spec
CONSTANTS
    Lead = {l1}
    Worker = {w1}
    Admin = {a1}
    Beat = {b1}
    Channel = "sms"
    ChunkSize = 1
    NoLead = NoLead
    MaxLaunches = 1
    MaxPauses = 1
    MaxFaults = 0
    MaxCopies = 0
PROPERTY PauseHolds
CHECK_DEADLOCK FALSE
