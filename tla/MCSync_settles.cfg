\* Two high-risk writes of one record, a backoff, and a user who comes back.
SPECIFICATION FairSpecResume
CONSTANTS
    k1 = k1
    k2 = k2
    a1 = a1
    a2 = a2
    t1 = t1
    student = student
    NoKey = NoKey
    NoEntity = NoEntity
    Key <- TwoOps
    Scoped <- TwoOps
    Attempt <- TwoAttempts
    Outcome = {"commit"}
    Faults = {}
    MaxCommits = 2
    EntityOf <- SameRecord
    HighRisk <- TwoOps
    OnlineOnly <- NoneOf
    Tap <- NoneOf
    Durable = TRUE
    MaxTries = 2
    MaxRestarts = 0
    MaxSession = 0
PROPERTY
    SettlesEventually
