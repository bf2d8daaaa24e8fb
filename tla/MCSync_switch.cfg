\* A queueable and an online-only write, lost requests, a kill and a logout.
SPECIFICATION Spec
CONSTANTS
    k1 = k1
    k2 = k2
    a1 = a1
    a2 = a2
    t1 = t1
    student = student
    NoKey = NoKey
    NoEntity = NoEntity
    Key <- TwoOps
    Scoped <- TwoOps
    Attempt <- TwoAttempts
    Outcome = {"commit", "conflict", "rejected"}
    Faults = {"death", "books"}
    MaxCommits = 2
    EntityOf <- SameRecord
    HighRisk <- OneOp
    OnlineOnly <- SecondOp
    Tap <- NoneOf
    Durable = TRUE
    MaxTries = 1
    MaxRestarts = 1
    MaxSession = 1
INVARIANTS
    SyncTypeOK
    ReclaimOnlyOrphans
    ReceiptIsFinal
    QueuedIsKept
SYMMETRY AttemptSymmetry
