CONSTANTS
    Tab = {t1, t2, t3}
    MaxCalls = 1
    MaxTime = 2
    Internal = TRUE
SPECIFICATION Spec
PROPERTY
    EveryRefreshReturns
CHECK_DEADLOCK FALSE
