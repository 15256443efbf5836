SPECIFICATION Spec
CONSTANTS
    Worker = w
    Rival = v
    WorkerOps = 4
    RivalOps = 1
    Clients = {w, v}
    Replicas = {a, b}
    Leader = a
    MaxConns = 3
    MaxOps <- MCMaxOps
    MaxJobs = 1
    MaxFaults = 1
INVARIANTS OwnReply StampedAsAsked 
PROPERTY LiveNotFenced
CHECK_DEADLOCK FALSE
