CONSTANTS
    None = None
    MaxHead = 4
    MaxEpoch = 2
    MaxFaults = 2
    MaxLoops = 2
    BatchSize = 2
    AccumulateThreshold = 2
    GapOffsets = {2}
    Sources = {"pub"}
    Faults = {"restart"}
    FirstTime = TRUE
    Recovery = FALSE
SPECIFICATION FairSpec
INVARIANTS
    NothingStranded
PROPERTIES
    CatchesUp
CHECK_DEADLOCK FALSE
