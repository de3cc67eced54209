CONSTANTS
    Msg = {m1, m2}
    MaxSends = 2
    MaxCalls = 2
    Edit = {e1}
    MaxTries = 2
    MaxFaults = 0
SPECIFICATION Spec
SYMMETRY Messages
INVARIANTS
    SyncedEditWasSent
CHECK_DEADLOCK FALSE
