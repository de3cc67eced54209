CONSTANTS
    None = None
    Tab = {t1, t2}
    NRtc = 2
    SmallFills = {1}
    MaxRetry = 2
    MaxFaults = 1
    Faults = {"rpc", "write", "replay", "close", "release"}
SPECIFICATION FairSpec
INVARIANTS
    SyncedIsReported
    RunsOnce
 
CHECK_DEADLOCK FALSE
