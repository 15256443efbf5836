SPECIFICATION Spec
CONSTANTS
    Replicas = {a, b, c}
    Leader = a
    OneQueue = TRUE
    MaxSlots = 2
    MaxSessions = 2
    MaxDropped = 2
    MaxLate = 1
    MaxDowns = 1
    StaleReturns = FALSE
SYMMETRY Symm
INVARIANTS AppliedIsPresent AckedHeld AppliedIsDecided AppliedAgree ReadNewest EmptyHasNoCopy
CHECK_DEADLOCK FALSE
