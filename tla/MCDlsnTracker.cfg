SPECIFICATION FairSpec
CONSTANTS
    Writers = {w1, w2}
    Legs = {g1}
    Readers = {r1}
    L <- FreshVolume
    MaxIssued = 3
    ScanCap = 0
    SharedUpdate = FALSE
INVARIANTS FrontierCompleted FrontierResolved HighestAckedVisible FrontierTight
PROPERTIES  StalledReadServed
CHECK_DEADLOCK FALSE
