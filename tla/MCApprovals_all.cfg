\* One order, one gate pass, two requests: decisions, batches, cancellations,
\* direct approvals, workflow steps, receipts and verifications overlap.
SPECIFICATION ApprovalSpec
CONSTANTS
    Order = {o1}
    Pass = {p1}
    Request = {r1, r2}
    Txn = {t1, t2}
    User = {u1, u2}
    Line = {l1, l2}
    Ordered = 1
    Slot = {s1}
    None = None
INVARIANTS
    ApprovalTypeOK
    DecidedOnce
    
    
    ReceiptsRight
    PassFollowsRequest
    ReleasedOnce
SYMMETRY Peers
CHECK_DEADLOCK FALSE
