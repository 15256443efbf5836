SPECIFICATION Spec
CONSTANTS
    N = 3
    Leader = 1
    Clients = {1, 2}
    SoleWriter = TRUE
    MaxSlots = 1
    MaxLogins = 3
    MaxFaults = 1
INVARIANTS LoginCoversAcked AckedHeld AppliedAgree
CHECK_DEADLOCK FALSE
