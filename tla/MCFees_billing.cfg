SPECIFICATION LedgerSpec
CONSTANTS
    Invoice = {i1}
    Collection = {c1, c2}
    Refund = {}
    Reduction = {q1}
    Txn = {t1, t2}
    Source = {k1, k2}
    Key = {k1, k2}
    None = None
    Billed = 2
    LateFee = 1
    Day = {1}
SYMMETRY Alike
INVARIANTS
    NeverBelowZero
    TotalIsNet
    OneLateFee
