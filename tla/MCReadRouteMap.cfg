SPECIFICATION Spec
CONSTANTS
    Members = {m1, m2, m3}
    Blocks = {b1, b2}
    Rings = {r1}
    OneQueue = TRUE
    L = 0
    MaxSlots = 2
    MaxBehind = 1
    MaxMissed = 1
    MaxLanded = 0
    MaxHops = 2
    MaxRounds = 0
    NoRing = NoRing
SYMMETRY Symm
INVARIANTS FirstPickIsFresh 
CHECK_DEADLOCK FALSE
