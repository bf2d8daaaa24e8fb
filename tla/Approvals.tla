------------------------------ MODULE Approvals ------------------------------
(***************************************************************************)
(* The approval requests of a school and what deciding them does to two    *)
(* kinds of subject: purchase orders (inventoryPo) and gate passes         *)
(* (gatePass).  A request carries its subject's kind as its type.          *)
(*                                                                         *)
(* A request of a client is one READ COMMITTED transaction, and a batch of *)
(* decisions is one transaction too.  Its writes become visible together,  *)
(* in Commit; until then the transaction holds the rows it wrote, and who  *)
(* wants to write one of them waits (is not enabled).  Any open            *)
(* transaction may roll back: an error, a lost connection, or Postgres     *)
(* resolving a deadlock.  Requests that write with one guarded statement   *)
(* are one step.  A goods receipt takes one line of its order.  The expiry *)
(* of a gate pass refuses a verification and is left out.                  *)
(*                                                                         *)
(* A user is an id that a row records.  Who decides is the id that comes   *)
(* with the decision, which for a single one need not be its sender's.     *)
(***************************************************************************)
EXTENDS Naturals

CONSTANTS
    Order,      \* purchase orders
    Pass,       \* gate passes
    Request,    \* rows of approval_requests
    Txn,        \* transactions open at the same time
    User,       \* ids recorded for who requests and who decides
    Line,       \* the lines of every order
    Ordered,    \* the quantity of every line
    Slot,       \* a student at a scheduled time
    None        \* no row

ASSUME ApprovalAssumption ==
    /\ Order \cap Pass = {}
    /\ None \notin Order \cup Pass \cup Request \cup User \cup Slot \cup Line
    /\ Ordered \in Nat \ {0}

VARIABLES
    request,        \* request[r]: status, subject and requester
    decisions,      \* decisions[r]: entries decisions wrote in approval_audit_entries
                    \* (not those of POST /approvals/audit, which decides nothing)
    effect,         \* effect[r]: effect_action of approval_domain_effects
    order,          \* order[o]: status, requested_by, approved_by
    received,       \* received[o][l]: quantity_received
    commitment,     \* orders with a row in finance_ap_commitments
    pass,           \* pass[p]: status and slot
    released,       \* released[p]: how often the pass let its student leave
    txn             \* txn[t]: where transaction t is and what it has written

requestRows == <<request, decisions, effect>>
orderRows == <<order, received, commitment>>
passRows == <<pass, released>>
rows == <<requestRows, orderRows, passRows>>
approvalVars == <<rows, txn>>

Subject == Order \cup Pass
Decision == {"approved", "rejected"}
OrderStatus == {"absent", "draft", "approved", "partially_received", "received"}
PassStatus == {"absent", "pending", "approved", "rejected", "used", "cancelled"}

\* todo: the ids of the batch not looked at yet.  at, on: the request being
\* decided and its subject.  claimed: the requests it decided, effects: those
\* whose effect it recorded.  wrote: the subjects it wrote.
Idle == [pc |-> "idle", actor |-> None, decision |-> "approved", todo |-> {},
         at |-> None, on |-> None, claimed |-> {}, effects |-> {}, wrote |-> {},
         line |-> None, qty |-> 0, full |-> FALSE]

ApprovalInit ==
    /\ request = [r \in Request |-> [status |-> "absent", subject |-> None, by |-> None]]
    /\ decisions = [r \in Request |-> 0]
    /\ effect = [r \in Request |-> "none"]
    /\ order = [o \in Order |-> [status |-> "absent", by |-> None, approver |-> None]]
    /\ received = [o \in Order |-> [l \in Line |-> 0]]
    /\ commitment = {}
    /\ pass = [p \in Pass |-> [status |-> "absent", slot |-> None]]
    /\ released = [p \in Pass |-> 0]
    /\ txn = [t \in Txn |-> Idle]

-----------------------------------------------------------------------------
\* Row locks, as the transactions that hold them show.
Held(s) == \E t \in Txn : s \in txn[t].wrote
RequestHeld(r) == \E t \in Txn : r \in txn[t].claimed
LineHeld(o, l) ==
    \E t \in Txn : txn[t].pc = "counted" /\ txn[t].on = o /\ txn[t].line = l

Goto(t, entry) == txn' = [txn EXCEPT ![t] = entry]
Close(t) == Goto(t, Idle)

\* A definition marked "Slip" is no part of the specification: it is a mistake
\* in the definition after it, which a property is checked to catch.

Exists(s) ==
    \/ s \in Order /\ order[s].status # "absent"
    \/ s \in Pass /\ pass[s].status # "absent"

PendingFor(s) == \E r \in Request : request[r].status = "pending" /\ request[r].subject = s

AddRequest(r, u, s) ==
    /\ request[r].status = "absent"
    /\ request' = [request EXCEPT ![r] = [status |-> "pending", subject |-> s, by |-> u]]
    /\ UNCHANGED <<decisions, effect>>

-----------------------------------------------------------------------------
(* Raising *)

CreateOrder(u, o) ==
    /\ order[o].status = "absent"
    /\ order' = [order EXCEPT ![o] = [status |-> "draft", by |-> u, approver |-> None]]
    /\ UNCHANGED <<requestRows, received, commitment, passRows, txn>>

\* submitApproval; with a pending request for the subject it answers with that.
\* Ids are the server's, so a request names a subject that exists.
Submit(r, u, s) ==
    /\ Exists(s)
    /\ ~PendingFor(s)
    /\ AddRequest(r, u, s)
    /\ UNCHANGED <<orderRows, passRows, txn>>

\* handleCreateGatePass: the pass and its request, in one transaction.
RaisePass(p, r, u, slot) ==
    /\ pass[p].status = "absent"
    /\ \A q \in Pass : pass[q].status \in {"pending", "approved"} => pass[q].slot # slot
    /\ pass' = [pass EXCEPT ![p] = [status |-> "pending", slot |-> slot]]
    /\ AddRequest(r, u, p)
    /\ UNCHANGED <<orderRows, released, txn>>

-----------------------------------------------------------------------------
(* Deciding one request or a batch *)

\* handleBatchDecideApprovals decides as its sender (claims.sub).  handleDecision,
\* for one request, decides as whoever its body names (actor_id), and as its
\* sender if that is missing.  u is that id, so any user whoever sends it.
Begin(t, u, d, ids) ==
    /\ txn[t].pc = "idle"
    /\ ids # {}
    /\ \A r \in ids : request[r].status # "absent"
    /\ Goto(t, [Idle EXCEPT !.pc = "deciding", !.actor = u, !.decision = d, !.todo = ids])
    /\ UNCHANGED rows

SelfApproved(t, r) ==
    /\ txn[t].decision = "approved"
    /\ request[r].subject \in Order
    /\ request[r].by = txn[t].actor

\* decideOne answers "invalid" or "denied" before it writes.
Skip(t, r) ==
    /\ txn[t].pc = "deciding"
    /\ r \in txn[t].todo
    /\ request[r].status # "pending" \/ SelfApproved(t, r)
    /\ txn' = [txn EXCEPT ![t].todo = @ \ {r}]
    /\ UNCHANGED rows

\* decideApproval: the guarded update of the request, and its audit entry.
Claim(t, r) ==
    LET x == txn[t] IN
    /\ x.pc = "deciding"
    /\ r \in x.todo
    /\ request[r].status = "pending"
    /\ ~SelfApproved(t, r)
    /\ ~RequestHeld(r)
    /\ Goto(t, [x EXCEPT !.pc = "claimed", !.todo = @ \ {r}, !.at = r,
                         !.on = request[r].subject, !.claimed = @ \cup {r}])
    /\ UNCHANGED rows

\* decideOne returns; the effect of the request is recorded unless it was denied.
Decided(t, recorded, written) ==
    Goto(t, [txn[t] EXCEPT !.pc = "deciding", !.at = None, !.on = None,
                           !.effects = @ \cup recorded, !.wrote = @ \cup written])

\* The decision throws something decideOne does not map: the transaction ends.
Fails(t) == txn' = [txn EXCEPT ![t].pc = "failed"]

-----------------------------------------------------------------------------
(* The effect on a purchase order *)

\* The order is no draft any more: the effect is recorded, the order is left.
OrderLeft(t) ==
    LET x == txn[t] IN
    /\ x.pc = "claimed"
    /\ x.on \in Order
    /\ order[x.on].status # "draft"
    /\ Decided(t, {x.at}, {})
    /\ UNCHANGED rows

\* Slip: the effect of the denied approval is recorded.
OrderRefusedRecorded(t) ==
    LET x == txn[t] IN
    /\ x.pc = "claimed"
    /\ x.on \in Order
    /\ order[x.on].status = "draft"
    /\ x.decision = "approved"
    /\ order[x.on].by = x.actor
    /\ Decided(t, {x.at}, {})
    /\ UNCHANGED rows

\* approvePurchaseOrder denies its own requester; decideOne returns "denied",
\* and what decideApproval wrote stays in the transaction.
OrderRefused(t) ==
    LET x == txn[t] IN
    /\ x.pc = "claimed"
    /\ x.on \in Order
    /\ order[x.on].status = "draft"
    /\ x.decision = "approved"
    /\ order[x.on].by = x.actor
    /\ Decided(t, {}, {})
    /\ UNCHANGED rows

\* Slip: the approver is not compared with who asked for the order.
OrderSeenByMaker(t) ==
    LET x == txn[t] IN
    /\ x.pc = "claimed"
    /\ x.on \in Order
    /\ order[x.on].status = "draft"
    /\ Goto(t, [x EXCEPT !.pc = "writing"])
    /\ UNCHANGED rows

\* A draft, read without a lock, which is written next.
OrderSeen(t) ==
    LET x == txn[t] IN
    /\ x.pc = "claimed"
    /\ x.on \in Order
    /\ order[x.on].status = "draft"
    /\ x.decision = "approved" => order[x.on].by # x.actor
    /\ Goto(t, [x EXCEPT !.pc = "writing"])
    /\ UNCHANGED rows

\* handleApprovePurchaseOrder: the same without a request.
DirectBegins(t, u, o) ==
    /\ txn[t].pc = "idle"
    /\ order[o].status = "draft"
    /\ order[o].by # u
    /\ Goto(t, [Idle EXCEPT !.pc = "writing", !.actor = u, !.on = o])
    /\ UNCHANGED rows

\* Slip: an approval without a request records the effect of one.
OrderApprovedRecorded(t) ==
    LET x == txn[t] IN
    /\ x.pc = "writing"
    /\ x.decision = "approved"
    /\ ~Held(x.on)
    /\ x.on \notin commitment
    /\ Decided(t, {x.at}, {x.on})
    /\ UNCHANGED rows

\* Approval: the update names the order only, whatever its status is by now;
\* an order has one commitment.
OrderApproved(t) ==
    LET x == txn[t] IN
    /\ x.pc = "writing"
    /\ x.decision = "approved"
    /\ ~Held(x.on)
    /\ x.on \notin commitment
    /\ Decided(t, {x.at} \ {None}, {x.on})
    /\ UNCHANGED rows

\* A second commitment, or status 'rejected', which the table does not admit.
OrderFails(t) ==
    LET x == txn[t] IN
    /\ x.pc = "writing"
    /\ ~Held(x.on)
    /\ x.decision = "rejected" \/ x.on \in commitment
    /\ Fails(t)
    /\ UNCHANGED rows

-----------------------------------------------------------------------------
(* The effect on a gate pass *)

\* Slip: the decision does not ask that the pass is still pending.
PassDecidedUnguarded(t) ==
    LET x == txn[t] IN
    /\ x.pc = "claimed"
    /\ x.on \in Pass
    /\ ~Held(x.on)
    /\ Decided(t, {x.at}, {x.on})
    /\ UNCHANGED rows

\* applyGatePassDecision: one guarded update.
PassDecided(t) ==
    LET x == txn[t] IN
    /\ x.pc = "claimed"
    /\ x.on \in Pass
    /\ ~Held(x.on)
    /\ pass[x.on].status = "pending"
    /\ Decided(t, {x.at}, {x.on})
    /\ UNCHANGED rows

\* GatePassInvalidStateError.
PassFails(t) ==
    LET x == txn[t] IN
    /\ x.pc = "claimed"
    /\ x.on \in Pass
    /\ ~Held(x.on)
    /\ pass[x.on].status # "pending"
    /\ Fails(t)
    /\ UNCHANGED rows

-----------------------------------------------------------------------------
\* What a transaction that decided makes of the rows it wrote.
DecidedRequest(x, r) ==
    IF r \in x.claimed THEN [request[r] EXCEPT !.status = x.decision] ELSE request[r]

ApprovedOrder(x, o) ==
    IF o \in x.wrote
    THEN [order[o] EXCEPT !.status = "approved", !.approver = x.actor]
    ELSE order[o]

DecidedPass(x, p) ==
    IF p \in x.wrote THEN [pass[p] EXCEPT !.status = x.decision] ELSE pass[p]

Commit(t) ==
    LET x == txn[t] IN
    /\ x.pc = "deciding"
    /\ x.todo = {}
    /\ request' = [r \in Request |-> DecidedRequest(x, r)]
    /\ decisions' = [r \in Request |-> decisions[r] + (IF r \in x.claimed THEN 1 ELSE 0)]
    /\ effect' = [r \in Request |-> IF r \in x.effects THEN x.decision ELSE effect[r]]
    /\ order' = [o \in Order |-> ApprovedOrder(x, o)]
    /\ commitment' = commitment \cup (x.wrote \cap Order)
    /\ pass' = [p \in Pass |-> DecidedPass(x, p)]
    /\ Close(t)
    /\ UNCHANGED <<received, released>>

Rollback(t) ==
    /\ txn[t].pc # "idle"
    /\ Close(t)
    /\ UNCHANGED rows

\* Slip: a request another transaction is deciding is cancelled at once.
CancelRequestAtOnce(r) ==
    /\ request[r].status = "pending"
    /\ request' = [request EXCEPT ![r].status = "cancelled"]
    /\ decisions' = [decisions EXCEPT ![r] = @ + 1]
    /\ UNCHANGED <<effect, orderRows, passRows, txn>>

\* Cancelling has no effect on the subject and records none.
CancelRequest(r) ==
    /\ request[r].status = "pending"
    /\ ~RequestHeld(r)
    /\ request' = [request EXCEPT ![r].status = "cancelled"]
    /\ decisions' = [decisions EXCEPT ![r] = @ + 1]
    /\ UNCHANGED <<effect, orderRows, passRows, txn>>

-----------------------------------------------------------------------------
(* Orders outside the approvals *)

\* handleAdvanceProcurementWorkflow: one UPDATE.
Advance(u, o) ==
    /\ ~Held(o)
    /\ \/ /\ order[o].status = "draft"
          /\ order' = [order EXCEPT ![o] = [@ EXCEPT !.status = "approved", !.approver = u]]
       \/ /\ order[o].status = "approved"
          /\ order' = [order EXCEPT ![o].status = "partially_received"]
    /\ UNCHANGED <<requestRows, received, commitment, passRows, txn>>

\* Slip: goods are taken in for any order.
ReceiveBeginsEarly(t, o, l, n) ==
    /\ txn[t].pc = "idle"
    /\ order[o].status # "absent"
    /\ Goto(t, [Idle EXCEPT !.pc = "receiving", !.on = o, !.line = l, !.qty = n])
    /\ UNCHANGED rows

\* receiveGoods reads the status of the order ...
ReceiveBegins(t, o, l, n) ==
    /\ txn[t].pc = "idle"
    /\ order[o].status \in {"approved", "partially_received"}
    /\ Goto(t, [Idle EXCEPT !.pc = "receiving", !.on = o, !.line = l, !.qty = n])
    /\ UNCHANGED rows

\* Slip: the line is not locked.
ReceiveTakesUnlocked(t) ==
    LET x == txn[t] IN
    /\ x.pc = "receiving"
    /\ received[x.on][x.line] + x.qty <= Ordered
    /\ Goto(t, [x EXCEPT !.pc = "counted",
                         !.full = \A l \in Line :
                           received[x.on][l] + (IF l = x.line THEN x.qty ELSE 0) = Ordered])
    /\ UNCHANGED rows

\* ... locks the line, adds to it and counts the lines still open ...
ReceiveTakes(t) ==
    LET x == txn[t] IN
    /\ x.pc = "receiving"
    /\ ~LineHeld(x.on, x.line)
    /\ received[x.on][x.line] + x.qty <= Ordered
    /\ Goto(t, [x EXCEPT !.pc = "counted",
                         !.full = \A l \in Line :
                           received[x.on][l] + (IF l = x.line THEN x.qty ELSE 0) = Ordered])
    /\ UNCHANGED rows

\* Slip: the order is received when the line is full.
ReceiveCommitsByLine(t) ==
    LET x == txn[t] IN
    /\ x.pc = "counted"
    /\ ~Held(x.on)
    /\ received' = [received EXCEPT ![x.on][x.line] = @ + x.qty]
    /\ order' = [order EXCEPT ![x.on].status =
                   IF received[x.on][x.line] + x.qty = Ordered
                   THEN "received" ELSE "partially_received"]
    /\ Close(t)
    /\ UNCHANGED <<requestRows, commitment, passRows>>

\* ... and sets the status the count says, whatever it is by now.
ReceiveCommits(t) ==
    LET x == txn[t] IN
    /\ x.pc = "counted"
    /\ ~Held(x.on)
    /\ received' = [received EXCEPT ![x.on][x.line] = @ + x.qty]
    /\ order' = [order EXCEPT ![x.on].status =
                   IF x.full THEN "received" ELSE "partially_received"]
    /\ Close(t)
    /\ UNCHANGED <<requestRows, commitment, passRows>>

-----------------------------------------------------------------------------
(* Gate passes outside the approvals *)

\* cancelGatePass: its request stays as it is.
CancelPass(p) ==
    /\ ~Held(p)
    /\ pass[p].status \in {"pending", "approved"}
    /\ pass' = [pass EXCEPT ![p].status = "cancelled"]
    /\ UNCHANGED <<requestRows, orderRows, released, txn>>

\* verifyGatePassCredential reads the pass and compares the secret ...
VerifyReads(t, p) ==
    /\ txn[t].pc = "idle"
    /\ pass[p].status = "approved"
    /\ Goto(t, [Idle EXCEPT !.pc = "verifying", !.on = p])
    /\ UNCHANGED rows

\* Slip: the status is not asked for again.
VerifyClaimsUnguarded(t) ==
    LET p == txn[t].on IN
    /\ txn[t].pc = "verifying"
    /\ ~Held(p)
    /\ pass' = [pass EXCEPT ![p].status = "used"]
    /\ released' = [released EXCEPT ![p] = @ + 1]
    /\ Close(t)
    /\ UNCHANGED <<requestRows, orderRows>>

\* ... and claims it with a guarded update: the student leaves.
VerifyClaims(t) ==
    LET p == txn[t].on IN
    /\ txn[t].pc = "verifying"
    /\ ~Held(p)
    /\ pass[p].status = "approved"
    /\ pass' = [pass EXCEPT ![p].status = "used"]
    /\ released' = [released EXCEPT ![p] = @ + 1]
    /\ Close(t)
    /\ UNCHANGED <<requestRows, orderRows>>

-----------------------------------------------------------------------------
Raise ==
    \/ \E u \in User, o \in Order : CreateOrder(u, o)
    \/ \E r \in Request, u \in User, s \in Subject : Submit(r, u, s)
    \/ \E p \in Pass, r \in Request, u \in User, slot \in Slot : RaisePass(p, r, u, slot)

Decide(t) ==
    \/ \E u \in User, d \in Decision, ids \in SUBSET Request : Begin(t, u, d, ids)
    \/ \E r \in Request : Skip(t, r) \/ Claim(t, r)
    \/ OrderLeft(t) \/ OrderRefused(t) \/ OrderSeen(t)
    \/ \E u \in User, o \in Order : DirectBegins(t, u, o)
    \/ OrderApproved(t) \/ OrderFails(t)
    \/ PassDecided(t) \/ PassFails(t)
    \/ Commit(t) \/ Rollback(t)

Use(t) ==
    \/ \E o \in Order, l \in Line, n \in 1..Ordered : ReceiveBegins(t, o, l, n)
    \/ ReceiveTakes(t) \/ ReceiveCommits(t)
    \/ \E p \in Pass : VerifyReads(t, p)
    \/ VerifyClaims(t)

ApprovalNext ==
    \/ Raise
    \/ \E t \in Txn : Decide(t) \/ Use(t)
    \/ \E r \in Request : CancelRequest(r)
    \/ \E u \in User, o \in Order : Advance(u, o)
    \/ \E p \in Pass : CancelPass(p)

ApprovalSpec == ApprovalInit /\ [][ApprovalNext]_approvalVars

-----------------------------------------------------------------------------
(* Properties *)

RequestRow == [status : {"absent", "pending", "cancelled"} \cup Decision,
               subject : Subject \cup {None}, by : User \cup {None}]
OrderRow == [status : OrderStatus, by : User \cup {None}, approver : User \cup {None}]
PassRow == [status : PassStatus, slot : Slot \cup {None}]
TxnRow ==
    [pc : {"idle", "deciding", "claimed", "writing", "failed", "receiving", "counted",
           "verifying"},
     actor : User \cup {None}, decision : Decision, todo : SUBSET Request,
     at : Request \cup {None}, on : Subject \cup {None}, claimed : SUBSET Request,
     effects : SUBSET Request, wrote : SUBSET Subject, line : Line \cup {None},
     qty : Nat, full : BOOLEAN]

\* Every row and every transaction has its type.
ApprovalTypeOK ==
    /\ request \in [Request -> RequestRow]
    /\ decisions \in [Request -> Nat]
    /\ effect \in [Request -> {"none"} \cup Decision]
    /\ order \in [Order -> OrderRow]
    /\ received \in [Order -> [Line -> Nat]]
    /\ commitment \subseteq Order
    /\ pass \in [Pass -> PassRow]
    /\ released \in [Pass -> Nat]
    /\ txn \in [Txn -> TxnRow]

\* However decisions, batches and cancellations overlap, a request is decided at
\* most once, with one audit entry ("never double-decided").
DecidedOnce ==
    \A r \in Request :
        decisions[r] = IF request[r].status \in {"absent", "pending"} THEN 0 ELSE 1

\* A gate pass and its requests agree: a recorded decision is what became of
\* the pass, a decided request has recorded it, and a pass that is approved or
\* used has an approved request.
PassFollowsRequest ==
    /\ \A r \in Request :
         request[r].subject \in Pass =>
           LET p == request[r].subject IN
           /\ request[r].status \in Decision => effect[r] = request[r].status
           /\ effect[r] = "approved" => pass[p].status \in {"approved", "used", "cancelled"}
           /\ effect[r] = "rejected" => pass[p].status = "rejected"
    /\ \A p \in Pass :
         pass[p].status \in {"approved", "used"} =>
           \E r \in Request : request[r].subject = p /\ effect[r] = "approved"

\* A pass lets its student leave once: overlapping verifications, by OTP, by QR
\* code or one of each, release no child to two collectors.
ReleasedOnce ==
    \A p \in Pass : released[p] = IF pass[p].status = "used" THEN 1 ELSE 0

\* A pass that was used, cancelled or rejected stays so, whatever decision,
\* verification or cancellation was under way.
PassIsFinal ==
    [][\A p \in Pass :
         pass[p].status \in {"used", "cancelled", "rejected"} => pass'[p] = pass[p]]_approvalVars

\* An order the books are committed to records an approver, and another id than
\* the requester it records, although it may have been moved on outside the
\* approvals between the check and the write.  These are the ids the checks
\* compare; of the persons it speaks where a decision comes under its sender's
\* id: always in a batch and a direct approval, by choice in a single decision.
CommittedByOther ==
    \A o \in commitment : order[o].approver \in User \ {order[o].by}

\* An effect recorded for an order leaves no draft behind.
OrderEffectTaken ==
    \A r \in Request :
        effect[r] # "none" /\ request[r].subject \in Order =>
            order[request[r].subject].status # "draft"

\* No more is taken in on a line than was ordered.
ReceivedWithinOrder ==
    \A o \in Order, l \in Line : received[o][l] <= Ordered

\* Goods are only taken in for an order someone approved.
GoodsNeedApproval ==
    \A o \in Order : (\E l \in Line : received[o][l] > 0) => order[o].approver # None

\* An order is received only when every line of it is.
ReceivedIsComplete ==
    \A o \in Order : order[o].status = "received" => \A l \in Line : received[o][l] = Ordered

\* What was taken in: overlapping receipts stay within the order, goods need an
\* approval, and the order says it is complete only when it is.
ReceiptsRight == ReceivedWithinOrder /\ GoodsNeedApproval /\ ReceivedIsComplete

\* What is said of it: the decision a denied approval made is undone.
\* A decided request has its effect recorded.
DecidedHasEffect ==
    \A r \in Request : request[r].status \in Decision => effect[r] = request[r].status

\* What is said of it: an id that cannot be decided never aborts the batch.
\* A decision that fails takes no other decision with it.
GoodIdsSurvive ==
    \A t \in Txn : txn[t].pc = "failed" => txn[t].claimed \subseteq {txn[t].at}

\* What is said of it: rejecting a draft order moves it to rejected.
\* A rejection of an order does not fail.
RejectionSucceeds ==
    \A t \in Txn :
        ~(txn[t].pc = "failed" /\ txn[t].decision = "rejected" /\ txn[t].on \in Order)

\* Kept for a configuration of its own: an order whose lines are all received
\* is received.
CompleteIsReceived ==
    \A o \in Order :
        (order[o].status # "absent" /\ \A l \in Line : received[o][l] = Ordered)
            => order[o].status = "received"

\* Kept for a configuration of its own: an order goods may be taken in for has
\* its commitment in the books.
ApprovedIsCommitted ==
    \A o \in Order : order[o].status \notin {"absent", "draft"} => o \in commitment

\* Kept for a configuration of its own: a pending request is about a subject
\* that can still be decided.
PendingIsOpen ==
    \A r \in Request :
        request[r].status = "pending" /\ request[r].subject \in Pass =>
            pass[request[r].subject].status = "pending"
=============================================================================
