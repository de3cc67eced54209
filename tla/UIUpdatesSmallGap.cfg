CONSTANTS
    Fill = {f1}
    MaxWrites = 2
    MaxHeld = 2
    MaxVisits = 1
    SmallFills = TRUE
SPECIFICATION Spec
INVARIANT QuietViews
CHECK_DEADLOCK FALSE
