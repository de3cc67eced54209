CONSTANTS
    Uploader = {u1, u2}
    NParts = 2
    MaxIds = 7
    MaxAgain = 1
    MaxFaults = 1
    MaxCrashes = 1
SPECIFICATION Spec
INVARIANTS
    TypeOK
    HaveIsConfirmed
    ProgressIsKept
PROPERTIES
    EventuallyStored
    ImplementsTransfer
CHECK_DEADLOCK FALSE
