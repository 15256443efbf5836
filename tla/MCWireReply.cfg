SPECIFICATION FairSpec
CONSTANTS
    NumBlocks = 3
    BlockSize = 2
    MaxPayload = 6
    Writes <- SomeWrites
    Reads <- SomeReads
    MaxSlots = 2
    Ops = {1, 2}
    Paths = {"leader", "client", "peer"}
    AnyFetch = FALSE
    Chunk = 3
    MaxFaults = 1
INVARIANTS ResultIsHeld
PROPERTIES EveryReplyTaken
CHECK_DEADLOCK FALSE
