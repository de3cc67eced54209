CONSTANTS
    Channel = {topic, other}
    Position = {p1, p2}
    None = None
    MaxCalls = 4
    Methods = {"get", "update", "clear", "clearAll", "invalidate"}
SPECIFICATION Spec
INVARIANTS
    TypeOK
    CacheSettles
    QuietAgrees
PROPERTIES
    FillNeverReplaces
SYMMETRY Symmetry
CHECK_DEADLOCK FALSE
