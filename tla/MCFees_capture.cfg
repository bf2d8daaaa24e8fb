SPECIFICATION CaptureSpec
CONSTANTS
    Invoice = {i1}
    Collection = {c1, c2}
    Refund = {}
    Reduction = {}
    Txn = {t1, t2}
    Source = {p1, n1}
    Key = {}
    Intent = {p1}
    Instrument = {n1}
    None = None
    Billed = 2
    LateFee = 1
    Day = {1}
SYMMETRY Alike
INVARIANTS
    CaptureTypeOK
    CapturedOnce
    CapturedIsBooked
PROPERTIES
    BouncedIsFinal
