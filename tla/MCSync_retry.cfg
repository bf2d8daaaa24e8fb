\* Two writes of one record; the user taps "Retry now" while drains, timeouts
\* and late answers go on.
SPECIFICATION Spec
CONSTANTS
    k1 = k1
    k2 = k2
    a1 = a1
    a2 = a2
    t1 = t1
    student = student
    NoKey = NoKey
    NoEntity = NoEntity
    Key <- TwoOps
    Scoped <- TwoOps
    Attempt <- TwoAttempts
    Outcome = {"commit", "conflict"}
    Faults = {}
    MaxCommits = 2
    EntityOf <- SameRecord
    HighRisk <- OneOp
    OnlineOnly <- NoneOf
    Tap <- OneTap
    Durable = TRUE
    MaxTries = 1
    MaxRestarts = 0
    MaxSession = 0
INVARIANTS
    BatchIsCurrent
    DrainKeepsOrder
PROPERTY
    ConfirmedIsFinal
SYMMETRY AttemptSymmetry
