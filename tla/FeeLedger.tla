------------------------------ MODULE FeeLedger ------------------------------
(***************************************************************************)
(* The money of one student account: fee invoices, collections (receipts), *)
(* refunds, fee reductions, late fees and the close of a day.              *)
(*                                                                         *)
(* A request is one READ COMMITTED transaction (withTenantContext).  Those *)
(* that read a row before they lock it, or write what they computed from a *)
(* row they never locked, have a step per point at which another           *)
(* transaction can commit; what they write becomes visible in their last   *)
(* step, the COMMIT.  Waiting for a row lock is a step that is not enabled *)
(* yet.  Requests that lock before they read are one step.  Any open       *)
(* transaction may roll back.  Amounts are whole units; the priority order *)
(* of the fee heads is left out, their totals are kept.                    *)
(***************************************************************************)
EXTENDS Integers, FiniteSets, Functions

CONSTANTS
    Invoice,        \* invoices of the account
    Collection,     \* rows finance_collections may come to hold
    Refund,         \* rows of finance_refunds
    Reduction,      \* rows of finance_fee_reductions
    Txn,            \* transactions open at the same time
    Source,         \* what a collection is recorded for
    Key,            \* the sources that are Idempotency-Keys of the fee desk
    None,           \* no row
    Billed,         \* what each invoice bills
    LateFee,        \* the late fee of an overdue invoice, 0 if not configured
    Day             \* days a collection may be dated

ASSUME LedgerAssumption ==
    /\ Key \subseteq Source
    /\ None \notin Invoice \cup Collection \cup Refund \cup Source
    /\ \A S \in {Invoice, Collection, Refund, Reduction} : IsFiniteSet(S)
    /\ Billed \in Nat \ {0}
    /\ LateFee \in Nat
    /\ Day \subseteq Nat \ {0}

VARIABLES
    invoice,        \* invoice[i]: status, total, outstanding amount, late fee
    heads,          \* heads[i]: sum of the totals and of the paid parts of its heads
    account,        \* amount_paid and outstanding_amount of the student account
    collection,     \* collection[c]
    refund,         \* refund[r]
    reduction,      \* reduction[q]
    closed,         \* closed days
    txn             \* txn[t]: where transaction t is and what it has read

ledgerRows == <<invoice, heads, account, collection, refund, reduction, closed>>
ledgerVars == <<ledgerRows, txn>>

Least(a, b) == IF a < b THEN a ELSE b
Floor(n) == IF n > 0 THEN n ELSE 0

InvoiceStatus == {"issued", "partially_paid", "paid", "cancelled"}
InvoiceRow == [status : InvoiceStatus, total : Nat, due : Int, late : Nat]

\* "partially_refunded" and "refunded" are set by an approved refund only.
CollectionStatus == {"absent", "completed", "partially_refunded", "refunded", "cancelled"}
NoCollection == [status |-> "absent", inv |-> None, amt |-> 0, src |-> None, day |-> 0]

NoRefund == [status |-> "absent", coll |-> None, amt |-> 0]
NoReduction == [status |-> "absent", inv |-> None, amt |-> 0, applied |-> 0]

\* via: the handler the transaction belongs to.  seen: the outstanding amount
\* it read and computes with.
Idle == [pc |-> "idle", via |-> "none", inv |-> None, coll |-> None, ref |-> None,
         src |-> None, amt |-> 0, day |-> 0, seen |-> 0]

LedgerInit ==
    /\ invoice = [i \in Invoice |->
                    [status |-> "issued", total |-> Billed, due |-> Billed, late |-> 0]]
    /\ heads = [i \in Invoice |-> [total |-> Billed, paid |-> 0]]
    /\ account = [paid |-> 0, due |-> Billed * Cardinality(Invoice)]
    /\ collection = [c \in Collection |-> NoCollection]
    /\ refund = [r \in Refund |-> NoRefund]
    /\ reduction = [q \in Reduction |-> NoReduction]
    /\ closed = {}
    /\ txn = [t \in Txn |-> Idle]

-----------------------------------------------------------------------------
StatusOf(due, total) ==
    CASE due <= 0    -> "paid"
      [] due < total -> "partially_paid"
      [] OTHER       -> "issued"

\* A day is locked when it or a later one is closed.
Locked(d) == \E e \in closed : d <= e

\* Row locks, as the transactions that hold them show.
InvoiceHeld(i) == \E t \in Txn : txn[t].pc = "collecting" /\ txn[t].inv = i
CollectionHeld(c) == \E t \in Txn : txn[t].pc \in {"reversing", "paying"} /\ txn[t].coll = c
RefundHeld(r) == \E t \in Txn : txn[t].pc = "paying" /\ txn[t].ref = r

RefundsOf(c, st) == {r \in Refund : refund[r].coll = c /\ refund[r].status \in st}
Refunded(c, st, except) ==
    SumFunctionOnSet([r \in Refund |-> refund[r].amt], RefundsOf(c, st) \ except)

\* SUM of sumRefundedForCollection: what has been asked for counts.
Claimed(c, except) == Refunded(c, {"pending", "processed"}, except)

Open(t, entry) == txn' = [txn EXCEPT ![t] = entry]
Close(t) == txn' = [txn EXCEPT ![t] = Idle]

\* The absolute write of an outstanding amount computed from what was seen.
SetDue(i, due) ==
    invoice' = [invoice EXCEPT ![i] =
                  [@ EXCEPT !.due = due, !.status = StatusOf(due, invoice[i].total)]]

\* amount_paid and outstanding_amount move by the same amount.
MoveAccount(amt) ==
    account' = [paid |-> account.paid + amt, due |-> account.due - amt]

\* allocateCollectionToHeads and reverseCollectionFromHeads, summed up.
Allocate(i, amt) ==
    heads' = [heads EXCEPT ![i].paid = @ + Least(heads[i].total - @, amt)]

\* A definition marked "Slip" is no part of the specification: it is a mistake
\* in the definition after it, which a property is checked to catch.

\* Slip: more may be taken off the heads than is paid on them.
DeallocateUnbounded(i, amt) == heads' = [heads EXCEPT ![i].paid = @ - amt]

Deallocate(i, amt) ==
    heads' = [heads EXCEPT ![i].paid = @ - Least(@, amt)]

-----------------------------------------------------------------------------
\* No collection carries the key: the replay check under the invoice lock and
\* the unique index behind it.
Fresh(s) == s \in Key => \A c \in Collection : collection[c].src # s

\* Slip: the amount is not compared with what is outstanding.
LockUnbounded(i, a, s, d) ==
    /\ ~InvoiceHeld(i)
    /\ invoice[i].status # "cancelled"
    /\ Fresh(s)
    /\ ~Locked(d)

\* Slip: the close of the day is not looked up.
LockUndated(i, a, s, d) ==
    /\ ~InvoiceHeld(i)
    /\ invoice[i].status # "cancelled"
    /\ Fresh(s)
    /\ a <= invoice[i].due

\* createCollection up to its first write: it locks the invoice and checks.
\* With a key that has been used it answers with the old collection instead.
Collectible(i, a, s, d) ==
    /\ ~InvoiceHeld(i)
    /\ invoice[i].status # "cancelled"
    /\ Fresh(s)
    /\ a <= invoice[i].due
    /\ ~Locked(d)

StartCollecting(t, via, i, a, s, d) ==
    /\ Collectible(i, a, s, d)
    /\ Open(t, [Idle EXCEPT !.pc = "collecting", !.via = via, !.inv = i, !.src = s,
                            !.amt = a, !.day = d, !.seen = invoice[i].due])

\* ... and its writes, up to the COMMIT.
Book(t, c) ==
    LET x == txn[t] IN
    /\ x.pc = "collecting"
    /\ collection[c].status = "absent"
    /\ Fresh(x.src)
    /\ collection' = [collection EXCEPT ![c] =
                        [status |-> "completed", inv |-> x.inv, amt |-> x.amt,
                         src |-> x.src, day |-> x.day]]
    /\ SetDue(x.inv, x.seen - x.amt)
    /\ MoveAccount(x.amt)
    /\ Allocate(x.inv, x.amt)
    /\ Close(t)
    /\ UNCHANGED <<refund, reduction, closed>>

CollectLocks(t, i, a, k, d) ==
    /\ txn[t].pc = "idle"
    /\ k \in Key
    /\ StartCollecting(t, "desk", i, a, k, d)
    /\ UNCHANGED ledgerRows

CollectCommits(t, c) ==
    /\ txn[t].via = "desk"
    /\ Book(t, c)

-----------------------------------------------------------------------------
\* cancelCollection reads the collection and the day ...
CancelBegins(t, c) ==
    /\ txn[t].pc = "idle"
    /\ collection[c].status \notin {"absent", "cancelled"}
    /\ ~Locked(collection[c].day)
    /\ Open(t, [Idle EXCEPT !.pc = "cancelling", !.via = "cancel", !.coll = c])
    /\ UNCHANGED ledgerRows

\* Slip: the status is not read again under the lock.
CancelLocksOnce(t) ==
    LET c == txn[t].coll IN
    /\ txn[t].pc = "cancelling"
    /\ ~CollectionHeld(c)
    /\ txn' = [txn EXCEPT ![t] =
                 [@ EXCEPT !.pc = "reversing",
                           !.amt = collection[c].amt,
                           !.inv = collection[c].inv,
                           !.seen = invoice[collection[c].inv].due]]
    /\ UNCHANGED ledgerRows

\* ... locks the collection, reads its status again and then the invoice,
\* without a lock.  Only a completed collection is reversed.
CancelLocks(t) ==
    LET c == txn[t].coll IN
    /\ txn[t].pc = "cancelling"
    /\ ~CollectionHeld(c)
    /\ collection[c].status # "cancelled"
    /\ txn' = [txn EXCEPT ![t] =
                 [@ EXCEPT !.pc = "reversing",
                           !.amt = IF collection[c].status = "completed"
                                   THEN collection[c].amt ELSE 0,
                           !.inv = collection[c].inv,
                           !.seen = invoice[collection[c].inv].due]]
    /\ UNCHANGED ledgerRows

CancelCommits(t) ==
    LET x == txn[t] IN
    /\ x.pc = "reversing"
    /\ collection' = [collection EXCEPT ![x.coll].status = "cancelled"]
    /\ IF x.amt > 0
       THEN /\ ~InvoiceHeld(x.inv)
            /\ SetDue(x.inv, x.seen + x.amt)
            /\ MoveAccount(-x.amt)
            /\ Deallocate(x.inv, x.amt)
       ELSE UNCHANGED <<invoice, heads, account>>
    /\ Close(t)
    /\ UNCHANGED <<refund, reduction, closed>>

-----------------------------------------------------------------------------
\* createRefund sums up what is claimed without a lock ...
RequestChecks(t, c, a) ==
    /\ txn[t].pc = "idle"
    /\ collection[c].status \notin {"absent", "cancelled"}
    /\ Claimed(c, {}) + a <= collection[c].amt
    /\ Open(t, [Idle EXCEPT !.pc = "requesting", !.via = "refund", !.coll = c, !.amt = a])
    /\ UNCHANGED ledgerRows

\* ... and inserts.  The foreign keys wait for whoever locked the collection
\* or the invoice.
RequestCommits(t, r) ==
    /\ txn[t].pc = "requesting"
    /\ refund[r].status = "absent"
    /\ ~CollectionHeld(txn[t].coll)
    /\ ~InvoiceHeld(collection[txn[t].coll].inv)
    /\ refund' = [refund EXCEPT ![r] = [status |-> "pending", coll |-> txn[t].coll,
                                        amt |-> txn[t].amt]]
    /\ Close(t)
    /\ UNCHANGED <<invoice, heads, account, collection, reduction, closed>>

\* approveRefund reads the refund ...
ApproveBegins(t, r) ==
    /\ txn[t].pc = "idle"
    /\ refund[r].status = "pending"
    /\ Open(t, [Idle EXCEPT !.pc = "approving", !.via = "approve", !.ref = r,
                            !.coll = refund[r].coll, !.amt = refund[r].amt])
    /\ UNCHANGED ledgerRows

\* What approveRefund does once it has the collection: it claims the refund
\* row and reads the invoice without a lock.
ClaimRefund(t) ==
    /\ ~CollectionHeld(txn[t].coll)
    /\ refund[txn[t].ref].status = "pending"
    /\ txn' = [txn EXCEPT ![t] =
                 [@ EXCEPT !.pc = "paying",
                           !.inv = collection[txn[t].coll].inv,
                           !.seen = invoice[collection[txn[t].coll].inv].due]]
    /\ UNCHANGED ledgerRows

\* Slip: the other refunds of the collection are not summed up again.
ApproveUnsummed(t) ==
    /\ txn[t].pc = "approving"
    /\ collection[txn[t].coll].status # "cancelled"
    /\ ClaimRefund(t)

\* Slip: the collection may have been cancelled.
ApproveCancelled(t) ==
    LET x == txn[t] IN
    /\ x.pc = "approving"
    /\ Claimed(x.coll, {x.ref}) + x.amt <= collection[x.coll].amt
    /\ ClaimRefund(t)

\* ... locks the collection, checks it and the sum under the lock ...
ApproveLocks(t) ==
    LET x == txn[t] IN
    /\ x.pc = "approving"
    /\ collection[x.coll].status # "cancelled"
    /\ Claimed(x.coll, {x.ref}) + x.amt <= collection[x.coll].amt
    /\ ClaimRefund(t)

\* ... and moves the money.  The fee heads are left alone.  Refunds that are
\* only pending count towards the new status of the collection.
ApproveCommits(t) ==
    LET x == txn[t]
        total == Claimed(x.coll, {x.ref}) + x.amt IN
    /\ x.pc = "paying"
    /\ ~InvoiceHeld(x.inv)
    /\ refund' = [refund EXCEPT ![x.ref].status = "processed"]
    /\ SetDue(x.inv, x.seen + x.amt)
    /\ MoveAccount(-x.amt)
    /\ collection' = [collection EXCEPT ![x.coll].status =
                        IF total >= collection[x.coll].amt
                        THEN "refunded" ELSE "partially_refunded"]
    /\ Close(t)
    /\ UNCHANGED <<heads, reduction, closed>>

RejectRefund(r) ==
    /\ refund[r].status = "pending"
    /\ ~RefundHeld(r)
    /\ refund' = [refund EXCEPT ![r].status = "rejected"]
    /\ UNCHANGED <<invoice, heads, account, collection, reduction, closed, txn>>

-----------------------------------------------------------------------------
\* accrueLateFees reads its candidates without a lock ...
AccrueReads(t, i) ==
    /\ txn[t].pc = "idle"
    /\ LateFee > 0
    /\ invoice[i].status \in {"issued", "partially_paid"}
    /\ invoice[i].late = 0
    /\ Open(t, [Idle EXCEPT !.pc = "accruing", !.via = "accrue", !.inv = i])
    /\ UNCHANGED ledgerRows

\* Slip: the late fee already there does not stop a second one.
AccrueAgain(t) ==
    LET i == txn[t].inv IN
    /\ txn[t].pc = "accruing"
    /\ ~InvoiceHeld(i)
    /\ invoice' = [invoice EXCEPT ![i] =
                  [@ EXCEPT !.late = invoice[i].late + LateFee, !.due = invoice[i].due + LateFee]]
    /\ account' = [account EXCEPT !.due = @ + LateFee]
    /\ Close(t)
    /\ UNCHANGED <<heads, collection, refund, reduction, closed>>

\* ... and adds the fee where there still is none.  The status is not looked
\* at again, nor changed.
AccrueCommits(t) ==
    LET i == txn[t].inv IN
    /\ txn[t].pc = "accruing"
    /\ ~InvoiceHeld(i)
    /\ invoice[i].late = 0
    /\ invoice' = [invoice EXCEPT ![i] =
                  [@ EXCEPT !.late = LateFee, !.due = invoice[i].due + LateFee]]
    /\ account' = [account EXCEPT !.due = @ + LateFee]
    /\ Close(t)
    /\ UNCHANGED <<heads, collection, refund, reduction, closed>>

WaiveLateFee(i) ==
    LET waived == Least(invoice[i].late, invoice[i].due) IN
    /\ ~InvoiceHeld(i)
    /\ invoice[i].late > 0
    /\ invoice' = [invoice EXCEPT ![i] = [@ EXCEPT !.late = 0, !.due = invoice[i].due - waived]]
    /\ account' = [account EXCEPT !.due = Floor(@ - waived)]
    /\ UNCHANGED <<heads, collection, refund, reduction, closed, txn>>

\* cancelInvoice releases what is unpaid from the account.
CancelInvoice(i) ==
    /\ ~InvoiceHeld(i)
    /\ invoice[i].status \notin {"paid", "cancelled"}
    /\ invoice' = [invoice EXCEPT ![i].status = "cancelled"]
    /\ account' = [account EXCEPT !.due = Floor(@ - Floor(invoice[i].due))]
    /\ UNCHANGED <<heads, collection, refund, reduction, closed, txn>>

-----------------------------------------------------------------------------
ProposeReduction(q, i, a) ==
    /\ reduction[q].status = "absent"
    /\ ~InvoiceHeld(i)
    /\ invoice[i].status # "cancelled"
    /\ reduction' = [reduction EXCEPT ![q] =
                        [status |-> "pending", inv |-> i, amt |-> a, applied |-> 0]]
    /\ UNCHANGED <<invoice, heads, account, collection, refund, closed, txn>>

\* The reduction and the invoice are locked, then read: one step.
ApproveReduction(q) ==
    LET i == reduction[q].inv
        inv == invoice[i]
        applied == Floor(Least(reduction[q].amt, Least(inv.due, inv.total))) IN
    /\ reduction[q].status = "pending"
    /\ ~InvoiceHeld(i)
    /\ inv.status # "cancelled"
    /\ invoice' = [invoice EXCEPT ![i] =
                     [inv EXCEPT !.total = @ - applied, !.due = @ - applied,
                                 !.status = StatusOf(inv.due - applied, inv.total - applied)]]
    /\ account' = [account EXCEPT !.due = Floor(@ - applied)]
    /\ heads' = [heads EXCEPT ![i].total = @ - Least(@ - heads[i].paid, applied)]
    /\ reduction' = [reduction EXCEPT ![q] =
                       [@ EXCEPT !.status = "approved", !.applied = applied]]
    /\ UNCHANGED <<collection, refund, closed, txn>>

RejectReduction(q) ==
    /\ reduction[q].status = "pending"
    /\ reduction' = [reduction EXCEPT ![q].status = "rejected"]
    /\ UNCHANGED <<invoice, heads, account, collection, refund, closed, txn>>

\* Gives back what was applied, whatever became of the invoice.
GiveBack(q) ==
    LET i == reduction[q].inv
        inv == invoice[i]
        applied == reduction[q].applied IN
    /\ ~InvoiceHeld(i)
    /\ invoice' = [invoice EXCEPT ![i] =
                     IF applied = 0 THEN @ ELSE
                     [inv EXCEPT !.total = @ + applied, !.due = @ + applied,
                                 !.status = StatusOf(inv.due + applied, inv.total + applied)]]
    /\ account' = [account EXCEPT !.due = @ + applied]
    /\ heads' = [heads EXCEPT ![i].total = @ + applied]
    /\ reduction' = [reduction EXCEPT ![q].status = "reversed"]
    /\ UNCHANGED <<collection, refund, closed, txn>>

\* Slip: a reduction that was reversed is reversed again.
ReverseAgain(q) ==
    /\ reduction[q].status \in {"approved", "reversed"}
    /\ GiveBack(q)

ReverseReduction(q) ==
    /\ reduction[q].status = "approved"
    /\ GiveBack(q)

-----------------------------------------------------------------------------
CloseDay(d) ==
    /\ d \notin closed
    /\ closed' = closed \cup {d}
    /\ UNCHANGED <<invoice, heads, account, collection, refund, reduction, txn>>

ReopenDay(d) ==
    /\ d \in closed
    /\ closed' = closed \ {d}
    /\ UNCHANGED <<invoice, heads, account, collection, refund, reduction, txn>>

\* A check that fails, an error, a deadlock the database breaks, a kill.
Rollback(t) ==
    /\ txn[t].pc # "idle"
    /\ Close(t)
    /\ UNCHANGED ledgerRows

\* The requests other than those that record a collection.
Reversal(t) ==
    \/ \E c \in Collection : CancelBegins(t, c)
    \/ CancelLocks(t)
    \/ CancelCommits(t)
    \/ \E c \in Collection, a \in 1..Billed : RequestChecks(t, c, a)
    \/ \E r \in Refund : RequestCommits(t, r) \/ ApproveBegins(t, r)
    \/ ApproveLocks(t)
    \/ ApproveCommits(t)

Billing ==
    \/ \E t \in Txn, i \in Invoice : AccrueReads(t, i)
    \/ \E t \in Txn : AccrueCommits(t)
    \/ \E i \in Invoice : WaiveLateFee(i) \/ CancelInvoice(i)
    \/ \E q \in Reduction, i \in Invoice, a \in 1..Billed : ProposeReduction(q, i, a)
    \/ \E q \in Reduction : ApproveReduction(q) \/ RejectReduction(q) \/ ReverseReduction(q)

LedgerNext ==
    \/ \E t \in Txn, i \in Invoice, k \in Key, a \in 1..(Billed + LateFee), d \in Day :
         CollectLocks(t, i, a, k, d)
    \/ \E t \in Txn, c \in Collection : CollectCommits(t, c)
    \/ \E t \in Txn : Reversal(t) \/ Rollback(t)
    \/ \E r \in Refund : RejectRefund(r)
    \/ \E d \in Day : CloseDay(d) \/ ReopenDay(d)
    \/ Billing

LedgerSpec == LedgerInit /\ [][LedgerNext]_ledgerVars

-----------------------------------------------------------------------------
(* Properties *)

\* Every row and every open transaction has its type.
LedgerTypeOK ==
    /\ invoice \in [Invoice -> InvoiceRow]
    /\ heads \in [Invoice -> [total : Nat, paid : Nat]]
    /\ account \in [paid : Int, due : Int]
    /\ collection \in [Collection -> [status : CollectionStatus, inv : Invoice \cup {None},
                                      amt : Nat, src : Source \cup {None}, day : Day \cup {0}]]
    /\ refund \in [Refund -> [status : {"absent", "pending", "processed", "rejected"},
                              coll : Collection \cup {None}, amt : Nat]]
    /\ reduction \in [Reduction -> [status : {"absent", "pending", "approved", "rejected",
                                               "reversed"},
                                    inv : Invoice \cup {None}, amt : Nat, applied : Nat]]
    /\ closed \subseteq Day
    /\ txn \in [Txn -> [pc : {"idle", "collecting", "cancelling", "reversing", "requesting",
                              "approving", "paying", "accruing", "reading", "owning"},
                        via : {"none", "desk", "cancel", "refund", "approve", "accrue",
                               "confirm", "webhook", "bank"},
                        inv : Invoice \cup {None}, coll : Collection \cup {None},
                        ref : Refund \cup {None}, src : Source \cup {None}, amt : Nat,
                        day : Day \cup {0}, seen : Int]]

\* What a collection contributes to amount_paid: nothing once it was reversed,
\* which cancelling does unless a refund was paid out before.
Kept(c) ==
    LET paidOut == Refunded(c, {"processed"}, {}) IN
    IF collection[c].status = "cancelled" /\ paidOut = 0 THEN 0
    ELSE collection[c].amt - paidOut

\* The account's amount_paid is what its collections keep: no interleaving of
\* collecting, cancelling and refunding books a movement twice or drops it.
MoneyBooked == account.paid = SumFunction([c \in Collection |-> Kept(c)])

\* No more is paid back on a collection than was collected, although requests
\* check what is left without a lock (createRefund, approveRefund).
RefundsWithinCollection ==
    \A c \in Collection : Refunded(c, {"processed"}, {}) <= collection[c].amt

\* A cancelled collection stays cancelled and nothing more is paid back on it:
\* cancelCollection against approveRefund.
CancelledIsFinal ==
    [][\A c \in Collection : collection[c].status = "cancelled" =>
          /\ collection'[c].status = "cancelled"
          /\ RefundsOf(c, {"processed"})' = RefundsOf(c, {"processed"})]_ledgerVars

\* A desk submission sent twice with one Idempotency-Key is booked once.
KeyedOnce ==
    \A c, e \in Collection :
        (c # e /\ collection[c].src \in Key) => collection[c].src # collection[e].src

\* Nobody is charged below zero, by outstanding amounts written from a stale
\* read, late fees waived after a payment, or reductions.
NeverBelowZero == \A i \in Invoice : invoice[i].due >= 0 /\ invoice[i].total >= 0

\* An invoice's total is what was billed less the reductions in force: each is
\* applied once and given back once (approveFeeReduction, reverseFeeReduction).
TotalIsNet ==
    \A i \in Invoice :
        invoice[i].total + SumFunctionOnSet([q \in Reduction |-> reduction[q].applied],
            {q \in Reduction : reduction[q].inv = i /\ reduction[q].status = "approved"})
        = Billed

\* Overlapping accruals charge one late fee (accrueLateFees).
OneLateFee == \A i \in Invoice : invoice[i].late \in {0, LateFee}

\* No transaction is about to record or cancel a collection of day d or before.
Quiet(d) ==
    \A t \in Txn :
        /\ txn[t].pc = "collecting" => txn[t].day > d
        /\ txn[t].pc \in {"cancelling", "reversing"} => collection[txn[t].coll].day > d

OnDay(d) == {c \in Collection : collection[c].day \in 1..d /\ collection[c].status # "cancelled"}

\* Once the transactions that overlapped its close have ended, the collections
\* of a closed day neither grow nor shrink until it is reopened.
ClosedDayKept ==
    [][\A d \in closed \cap closed' : Quiet(d) => (Quiet(d)' /\ OnDay(d)' = OnDay(d))]_ledgerVars

\* The sum of the outstanding amounts.
OutstandingDue == SumFunction([i \in Invoice |-> invoice[i].due])

\* Lockstep, as finance_fee_reductions_repository.ts states it: the outstanding
\* amounts of invoice and account always move by the same delta.  Cancelling an
\* invoice, which releases its remainder, is not meant.
SameDelta ==
    [][(\A i \in Invoice : (invoice[i].status = "cancelled") = (invoice'[i].status = "cancelled"))
       => account'.due - account.due = OutstandingDue' - OutstandingDue]_ledgerVars
=============================================================================
