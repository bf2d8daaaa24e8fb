\* Does a 409 IDEMPOTENCY_CONFLICT prove that the write was applied?
SPECIFICATION Spec
CONSTANTS
    k1 = k1
    k2 = k2
    a1 = a1
    a2 = a2
    t1 = t1
    student = student
    NoKey = NoKey
    NoEntity = NoEntity
    Key <- TwoOps
    Scoped <- TwoOps
    Attempt <- TwoAttempts
    Outcome = {"commit", "rejected"}
    Faults = {}
    MaxCommits = 2
    EntityOf <- SameRecord
    HighRisk <- OneOp
    OnlineOnly <- NoneOf
    Tap <- NoneOf
    Durable = TRUE
    MaxTries = 1
    MaxRestarts = 0
    MaxSession = 0
INVARIANT
    ConfirmedIsApplied
SYMMETRY AttemptSymmetry
