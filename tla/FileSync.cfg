CONSTANTS
    NoOp = NoOp
    Op = {o1, o2, o3}
    Kinds = {"upload", "background", "batch", "resume", "delete", "download", "evict"}
    MaxRetry = 1
    MaxCrashes = 1
    MayClose = TRUE
SPECIFICATION Spec
SYMMETRY Ops
INVARIANTS
    TypeOK
    SavedIsKept
    SyncingHasOwner
    NoDuplicateUpload
    LockNeverStalls
CHECK_DEADLOCK FALSE
