SPECIFICATION FairSpec
CONSTANTS
    Ops = {w1, w2, rr}
    LastLegs = {w1}
    Round = rr
    RidMod = 4
    MaxSockets = 3
    SqeExhausted = FALSE
    DeadSendsFail = TRUE
INVARIANTS OwnReply NeverDelivered ReadyIsPumped 
PROPERTIES EveryOpReturns
CHECK_DEADLOCK FALSE
