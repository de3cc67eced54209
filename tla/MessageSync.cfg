CONSTANTS
    Msg = {m1, m2}
    MaxSends = 2
    MaxCalls = 2
    Edit = {e1}
    MaxTries = 2
    MaxFaults = 2
SPECIFICATION Spec
SYMMETRY Messages
INVARIANTS
    TypeOK
    NothingLost
    SyncedIsKnown
    SendingHasTask
CHECK_DEADLOCK FALSE
