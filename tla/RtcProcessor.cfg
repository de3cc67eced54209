CONSTANTS
    None = None
    Tab = {t1, t2}
    NRtc = 2
    SmallFills = {1, 2}
    MaxRetry = 1
    MaxFaults = 2
    Faults = {"conn", "rpc", "close"}
SPECIFICATION Spec
SYMMETRY Tabs
INVARIANTS
    TypeOK
    NoMissedPush
    SyncedIsReported
    ReportsAreTrue
    RunsOnce
    Undisturbed
PROPERTIES
    VerdictStands
    ImplementsRemoteCall
CHECK_DEADLOCK FALSE
