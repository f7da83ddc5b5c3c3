SPECIFICATION Spec
CONSTANTS
    Lead = {l1, l2}
    Worker = {w1}
    Admin = {a1}
    Beat = {b1}
    Channel = "email"
    ChunkSize = 2
    NoLead = NoLead
    MaxLaunches = 2
    MaxPauses = 1
    MaxFaults = 1
    MaxCopies = 1
SYMMETRY Symmetry
CONSTRAINT RedeliveryApart
INVARIANTS TypeOK PromptStop
PROPERTIES ProcessedStays OutreachUntilFault
CHECK_DEADLOCK FALSE
