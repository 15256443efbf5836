SPECIFICATION FairSpec
CONSTANTS
    Members = {m1, m2}
    Legs = {k1, k2, k3, k4}
    MaxSlots = 2
    MaxErrors = 1
    MaxMoves = 1
INVARIANTS OneLegPerMember WantCoversFailed
PROPERTIES FailedIsRetired
CHECK_DEADLOCK FALSE
