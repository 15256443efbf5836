SPECIFICATION Spec
CONSTANTS
    NumBlocks = 3
    MaxSlots = 3
    ScanCap = 2
    MaxBlocks = 3
    MaxSegments = 2
INVARIANTS SegmentsTile HorizonCoversAcked HorizonShadowsUnresolved
CHECK_DEADLOCK FALSE
