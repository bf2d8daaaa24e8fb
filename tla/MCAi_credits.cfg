SPECIFICATION CreditsSpec
CONSTANTS
    Call = {c1, c2, c3}
    Bucket = {s1, s2}
    Limit = 2
    Price = 1
    MaxCredit = 1
SYMMETRY Alike
INVARIANTS
    CreditsTypeOK
    WithinLimit
    WithinCredits
    ChargedIfBilled
CHECK_DEADLOCK FALSE
