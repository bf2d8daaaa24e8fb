\* Routes that may also commit and then fail.
SPECIFICATION DispatchSpec
CONSTANTS
    k1 = k1
    k2 = k2
    a1 = a1
    a2 = a2
    a3 = a3
    NoKey = NoKey
    Key <- BothKeys
    Scoped <- FirstKey
    Attempt <- ThreeAttempts
    Outcome <- AnyOutcome
    Faults = {"death", "books"}
    MaxCommits = 2
INVARIANT
    SuccessIsCommitted
PROPERTY
    SettledIsFinal
SYMMETRY AttemptSymmetry
