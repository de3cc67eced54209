CONSTANTS
    None = None
    MaxHead = 3
    MaxEpoch = 1
    MaxFaults = 1
    MaxLoops = 2
    BatchSize = 2
    AccumulateThreshold = 2
    GapOffsets = {2}
    Sources = {"pub", "rpc"}
    Faults = {"drop", "reject", "write", "timeout", "restart"}
    FirstTime = FALSE
    Recovery = TRUE
SPECIFICATION Spec
INVARIANTS
    TypeOK
    NoSkippedUpdate
    StaleIsCovered
    NothingStranded
PROPERTY
    ImplementsTopicLog
CHECK_DEADLOCK FALSE
