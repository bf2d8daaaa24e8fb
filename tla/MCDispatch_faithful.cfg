\* Routes that commit exactly when they answer 2xx; one school key, one not.
SPECIFICATION DispatchSpec
CONSTANTS
    k1 = k1
    k2 = k2
    a1 = a1
    a2 = a2
    a3 = a3
    NoKey = NoKey
    Key <- BothKeys
    Scoped <- FirstKey
    Attempt <- ThreeAttempts
    Outcome <- FaithfulOutcome
    Faults = {"death", "books"}
    MaxCommits = 2
INVARIANTS
    DispatchTypeOK
    AtMostOnce
PROPERTY
    KeepsPromise
