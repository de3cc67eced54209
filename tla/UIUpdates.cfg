CONSTANTS
    Fill = {f1, f2}
    MaxWrites = 3
    MaxHeld = 1
    MaxVisits = 2
    SmallFills = FALSE
SPECIFICATION Spec
INVARIANTS
    TypeOK
    NothingHidden
    HeldIsReleased
PROPERTY
    ShownInTheEnd
CHECK_DEADLOCK FALSE
