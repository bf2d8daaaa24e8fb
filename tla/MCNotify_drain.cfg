SPECIFICATION FairDrainSpec
CONSTANTS
    MaxDelivery = 2
    Broadcast = {b1}
    Worker = {w1, w2}
    Channel = {sms, push}
    Push = push
    Sms = sms
    Policy <- EitherOrder
    Batch = 2
    MaxRetries = 2
    MaxCrash = 1
INVARIANTS
    DrainTypeOK
    SentOnce
    EscalatedOnce
    FannedOutOnce
PROPERTIES
    EachSettles
