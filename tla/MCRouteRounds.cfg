SPECIFICATION Spec
CONSTANTS
    Members = {m1, m2, m3}
    Blocks = {b1}
    Rings = {r1}
    OneQueue = TRUE
    L = 0
    MaxSlots = 2
    MaxBehind = 0
    MaxMissed = 2
    MaxLanded = 1
    MaxHops = 1
    MaxRounds = 1
    NoRing = NoRing
SYMMETRY Symm
INVARIANTS FirstPickIsFresh InSomeTier
CHECK_DEADLOCK FALSE
