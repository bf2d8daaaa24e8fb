--------------------------- MODULE FeeLedger_proofs ---------------------------
(***************************************************************************)
(* Proofs about FeeLedger.                                                 *)
(***************************************************************************)
EXTENDS FeeLedger, Sums, FiniteSetTheorems, TLAPS

-----------------------------------------------------------------------------
(***************************************************************************)
(* Rows and the records that replace them.                                 *)
(***************************************************************************)
CollectionRow ==
    [status : CollectionStatus, inv : Invoice \cup {None}, amt : Nat, src : Source \cup {None},
     day : Day \cup {0}]
RefundRow ==
    [status : {"absent", "pending", "processed", "rejected"}, coll : Collection \cup {None},
     amt : Nat]
ReductionRow ==
    [status : {"absent", "pending", "approved", "rejected", "reversed"},
     inv : Invoice \cup {None}, amt : Nat, applied : Nat]
TxnRow ==
    [pc : {"idle", "collecting", "cancelling", "reversing", "requesting", "approving", "paying",
           "accruing", "reading", "owning"},
     via : {"none", "desk", "cancel", "refund", "approve", "accrue", "confirm", "webhook",
            "bank"},
     inv : Invoice \cup {None}, coll : Collection \cup {None}, ref : Refund \cup {None},
     src : Source \cup {None}, amt : Nat, day : Day \cup {0}, seen : Int]

\* An invoice row with other amounts.
Owing(r, due, st) == [r EXCEPT !.due = due, !.status = st]
Charged(r, late, due) == [r EXCEPT !.late = late, !.due = due]
Rebilled(r, total, due, st) == [r EXCEPT !.total = total, !.due = due, !.status = st]

LEMMA OwingRow ==
  ASSUME NEW r \in InvoiceRow, NEW due \in Int, NEW st \in InvoiceStatus
  PROVE  Owing(r, due, st) \in InvoiceRow /\ Owing(r, due, st).due = due
  BY DEF InvoiceRow, Owing

LEMMA ChargedRow ==
  ASSUME NEW r \in InvoiceRow, NEW late \in Nat, NEW due \in Int
  PROVE  Charged(r, late, due) \in InvoiceRow /\ Charged(r, late, due).due = due
  BY DEF InvoiceRow, Charged

LEMMA RebilledRow ==
  ASSUME NEW r \in InvoiceRow, NEW total \in Nat, NEW due \in Int, NEW st \in InvoiceStatus
  PROVE  Rebilled(r, total, due, st) \in InvoiceRow /\ Rebilled(r, total, due, st).due = due
  BY DEF InvoiceRow, Rebilled

LEMMA IdleRow == Idle \in TxnRow /\ Idle.pc = "idle"
  BY LedgerAssumption DEF Idle, TxnRow

\* What a transaction knows after its steps.
Collecting(via, i, a, s, d, seen) ==
    [Idle EXCEPT !.pc = "collecting", !.via = via, !.inv = i, !.src = s, !.amt = a, !.day = d,
                 !.seen = seen]
Cancelling(c) == [Idle EXCEPT !.pc = "cancelling", !.via = "cancel", !.coll = c]
Requesting(c, a) == [Idle EXCEPT !.pc = "requesting", !.via = "refund", !.coll = c, !.amt = a]
Approving(r, c, a) ==
    [Idle EXCEPT !.pc = "approving", !.via = "approve", !.ref = r, !.coll = c, !.amt = a]
Accruing(i) == [Idle EXCEPT !.pc = "accruing", !.via = "accrue", !.inv = i]
Paying(x, i, seen) == [x EXCEPT !.pc = "paying", !.inv = i, !.seen = seen]
Reversing(x, a, i, seen) == [x EXCEPT !.pc = "reversing", !.amt = a, !.inv = i, !.seen = seen]

LEMMA CollectingRow ==
  ASSUME NEW via \in {"desk", "confirm", "webhook", "bank"}, NEW i \in Invoice, NEW a \in Nat,
         NEW s \in Source, NEW d \in Day, NEW seen \in Int
  PROVE  LET x == Collecting(via, i, a, s, d, seen) IN
         /\ x \in TxnRow
         /\ x.pc = "collecting" /\ x.via = via /\ x.inv = i /\ x.src = s
         /\ x.amt = a /\ x.day = d /\ x.seen = seen
  BY ZenonT(30), IdleRow DEF TxnRow, Collecting

LEMMA CancellingRow ==
  ASSUME NEW c \in Collection
  PROVE  Cancelling(c) \in TxnRow /\ Cancelling(c).pc = "cancelling" /\ Cancelling(c).coll = c
  BY IdleRow DEF TxnRow, Cancelling

LEMMA RequestingRow ==
  ASSUME NEW c \in Collection, NEW a \in Nat
  PROVE  /\ Requesting(c, a) \in TxnRow
         /\ Requesting(c, a).pc = "requesting" /\ Requesting(c, a).coll = c
  BY IdleRow DEF TxnRow, Requesting

LEMMA ApprovingRow ==
  ASSUME NEW r \in Refund, NEW c \in Collection, NEW a \in Nat
  PROVE  LET x == Approving(r, c, a) IN
         x \in TxnRow /\ x.pc = "approving" /\ x.ref = r /\ x.coll = c
  BY IdleRow DEF TxnRow, Approving

LEMMA AccruingRow ==
  ASSUME NEW i \in Invoice
  PROVE  Accruing(i) \in TxnRow /\ Accruing(i).pc = "accruing" /\ Accruing(i).inv = i
  BY IdleRow DEF TxnRow, Accruing

LEMMA PayingRow ==
  ASSUME NEW x \in TxnRow, NEW i \in Invoice, NEW seen \in Int
  PROVE  LET y == Paying(x, i, seen) IN
         /\ y \in TxnRow /\ y.pc = "paying" /\ y.inv = i /\ y.seen = seen
         /\ y.ref = x.ref /\ y.coll = x.coll
  BY DEF TxnRow, Paying

LEMMA ReversingRow ==
  ASSUME NEW x \in TxnRow, NEW a \in Nat, NEW i \in Invoice, NEW seen \in Int
  PROVE  LET y == Reversing(x, a, i, seen) IN
         /\ y \in TxnRow /\ y.pc = "reversing" /\ y.inv = i /\ y.seen = seen
         /\ y.coll = x.coll
  BY DEF TxnRow, Reversing

-----------------------------------------------------------------------------
(***************************************************************************)
(* The inductive invariant.                                                *)
(***************************************************************************)
\* What an open transaction knows.  While it has the collection locked
\* ("reversing", "paying") nobody else can cancel it.
Locking == {"reversing", "paying"}

Fits(x) ==
    /\ x.pc \in {"collecting", "reading", "owning"} => x.inv \in Invoice /\ x.src \in Source
    /\ x.pc = "collecting" => x.day \in Day /\ x.amt <= x.seen
    /\ x.pc \in {"cancelling", "requesting", "approving"} \cup Locking =>
         x.coll \in Collection /\ collection[x.coll].status # "absent"
    /\ x.pc \in Locking =>
         /\ x.inv \in Invoice /\ x.seen >= 0
         /\ collection[x.coll].status # "cancelled"
    /\ x.pc \in {"approving", "paying"} =>
         x.ref \in Refund /\ refund[x.ref].status # "absent" /\ refund[x.ref].coll = x.coll
    /\ x.pc = "accruing" => x.inv \in Invoice

RowsFit ==
    /\ \A c \in Collection : collection[c].status # "absent" => collection[c].inv \in Invoice
    /\ \A r \in Refund : refund[r].status # "absent" =>
         refund[r].coll \in Collection /\ collection[refund[r].coll].status # "absent"
    /\ \A q \in Reduction : reduction[q].status # "absent" => reduction[q].inv \in Invoice

OneLocks ==
    \A t, u \in Txn :
        (t # u /\ txn[t].pc \in Locking /\ txn[u].pc \in Locking) => txn[t].coll # txn[u].coll

LedgerInv ==
    /\ LedgerTypeOK
    /\ NeverBelowZero
    /\ RowsFit
    /\ \A t \in Txn : Fits(txn[t])
    /\ OneLocks

\* The types, by row.
LEMMA RowTypes ==
  LedgerTypeOK <=>
    /\ invoice \in [Invoice -> InvoiceRow]
    /\ heads \in [Invoice -> [total : Nat, paid : Nat]]
    /\ account \in [paid : Int, due : Int]
    /\ collection \in [Collection -> CollectionRow]
    /\ refund \in [Refund -> RefundRow]
    /\ reduction \in [Reduction -> ReductionRow]
    /\ closed \subseteq Day
    /\ txn \in [Txn -> TxnRow]
  BY DEF LedgerTypeOK, CollectionRow, RefundRow, ReductionRow, TxnRow

LEMMA NumberTypes ==
  /\ Billed \in Nat /\ LateFee \in Nat
  /\ \A a, b \in Int : Least(a, b) \in Int /\ Least(a, b) <= a /\ Least(a, b) <= b
                       /\ (Least(a, b) = a \/ Least(a, b) = b)
  /\ \A a \in Int : Floor(a) \in Nat /\ (a >= 0 => Floor(a) = a)
  /\ \A a, b \in Int : StatusOf(a, b) \in InvoiceStatus
  BY LedgerAssumption DEF Least, Floor, StatusOf, InvoiceStatus

\* A transaction opens or goes on; nothing else changes.
LEMMA OpenStep ==
  ASSUME LedgerInv, NEW t \in Txn, NEW x \in TxnRow, Fits(x),
         x.pc \in Locking =>
           \A u \in Txn : u # t => ~(txn[u].pc \in Locking /\ txn[u].coll = x.coll),
         txn' = [txn EXCEPT ![t] = x], UNCHANGED ledgerRows
  PROVE  LedgerInv'
<1> USE DEF LedgerInv, ledgerRows
<1>1. txn \in [Txn -> TxnRow]
  BY RowTypes
<1>2. txn'[t] = x /\ \A u \in Txn : u # t => txn'[u] = txn[u]
  BY <1>1
<1>3. LedgerTypeOK'
  <2>1. txn' \in [Txn -> TxnRow]
    BY <1>1
  <2> QED
    BY <2>1 DEF LedgerTypeOK, TxnRow
<1>4. NeverBelowZero' /\ RowsFit'
  BY DEF NeverBelowZero, RowsFit
<1>5. \A u \in Txn : Fits(txn[u])'
  BY <1>2 DEF Fits
<1>6. OneLocks'
  BY <1>2 DEF OneLocks
<1> QED
  BY <1>3, <1>4, <1>5, <1>6

\* A transaction ends, or none does; collections stay.
LEMMA WriteStep ==
  ASSUME LedgerInv,
         \A u \in Txn : txn'[u] \in {txn[u], Idle}, txn' = [u \in Txn |-> txn'[u]],
         invoice' \in [Invoice -> InvoiceRow],
         heads' \in [Invoice -> [total : Nat, paid : Nat]],
         account' \in [paid : Int, due : Int],
         collection' \in [Collection -> CollectionRow],
         refund' \in [Refund -> RefundRow],
         reduction' \in [Reduction -> ReductionRow],
         closed' \subseteq Day,
         NeverBelowZero', RowsFit',
         \A c \in Collection : collection[c].status # "absent" => collection'[c].status # "absent",
         \A r \in Refund : refund[r].status # "absent" =>
           refund'[r].status # "absent" /\ refund'[r].coll = refund[r].coll,
         \A u \in Txn : txn'[u].pc \in Locking => collection'[txn'[u].coll].status # "cancelled"
  PROVE  LedgerInv'
<1> USE DEF LedgerInv
<1>1. txn \in [Txn -> TxnRow]
  BY RowTypes
<1>2. LedgerTypeOK'
  <2>1. txn' \in [Txn -> TxnRow]
    BY <1>1, IdleRow
  <2> QED
    BY <2>1 DEF LedgerTypeOK, CollectionRow, RefundRow, ReductionRow, TxnRow
<1>3. ASSUME NEW u \in Txn PROVE Fits(txn[u])'
  <2>1. CASE txn'[u] = Idle
    BY <2>1, IdleRow DEF Fits, Locking
  <2>2. CASE txn'[u] = txn[u]
    BY <2>2 DEF Fits
  <2> QED
    BY <2>1, <2>2
<1>4. OneLocks'
  BY IdleRow DEF OneLocks, Locking
<1> QED
  BY <1>2, <1>3, <1>4

\* The rows of an invoice.
LEMMA InvoiceWrite ==
  ASSUME LedgerInv, NEW i \in Invoice, NEW row \in InvoiceRow, row.due >= 0,
         invoice' = [invoice EXCEPT ![i] = row]
  PROVE  invoice' \in [Invoice -> InvoiceRow] /\ NeverBelowZero'
<1>1. invoice \in [Invoice -> InvoiceRow]
  BY RowTypes DEF LedgerInv
<1>2. row.total \in Nat
  BY DEF InvoiceRow
<1> QED
  BY <1>1, <1>2 DEF NeverBelowZero, LedgerInv

LEMMA SetDueWrite ==
  ASSUME LedgerInv, NEW i \in Invoice, NEW due \in Int, due >= 0, SetDue(i, due)
  PROVE  invoice' \in [Invoice -> InvoiceRow] /\ NeverBelowZero'
<1>1. invoice[i] \in InvoiceRow
  BY RowTypes DEF LedgerInv
<1>2. due \in Int /\ invoice[i].total \in Int
  BY <1>1 DEF InvoiceRow
<1>3. StatusOf(due, invoice[i].total) \in InvoiceStatus
  BY <1>2, NumberTypes
<1> DEFINE row == Owing(invoice[i], due, StatusOf(due, invoice[i].total))
<1>4. row \in InvoiceRow /\ row.due = due
  BY <1>1, <1>3, OwingRow
<1>5. invoice' = [invoice EXCEPT ![i] = row]
  BY DEF SetDue, Owing
<1> HIDE DEF row
<1> QED
  BY <1>4, <1>5, InvoiceWrite

LEMMA AccountWrite ==
  ASSUME LedgerInv, NEW a \in Int, MoveAccount(a)
  PROVE  account' \in [paid : Int, due : Int]
<1>1. account.paid \in Int /\ account.due \in Int
  BY RowTypes DEF LedgerInv
<1> QED
  BY <1>1 DEF MoveAccount

LEMMA HeadsWrite ==
  ASSUME LedgerInv, NEW i \in Invoice, NEW a \in Nat, Allocate(i, a) \/ Deallocate(i, a)
  PROVE  heads' \in [Invoice -> [total : Nat, paid : Nat]]
<1>1. heads \in [Invoice -> [total : Nat, paid : Nat]]
  BY RowTypes DEF LedgerInv
<1>2. heads[i].total \in Nat /\ heads[i].paid \in Nat
  BY <1>1
<1>3. PICK p \in Nat : heads' = [heads EXCEPT ![i].paid = p]
  <2>1. heads[i].paid + Least(heads[i].total - heads[i].paid, a) \in Nat
    BY <1>2 DEF Least
  <2>2. heads[i].paid - Least(heads[i].paid, a) \in Nat
    BY <1>2 DEF Least
  <2>3. CASE Allocate(i, a)
    BY <2>1, <2>3 DEF Allocate
  <2>4. CASE Deallocate(i, a)
    BY <2>2, <2>4 DEF Deallocate
  <2> QED
    BY <2>3, <2>4
<1> QED
  BY <1>1, <1>3

-----------------------------------------------------------------------------
(***************************************************************************)
(* Every step keeps the invariant.                                         *)
(***************************************************************************)
\* The transactions after one of them has ended.
LEMMA CloseTxn ==
  ASSUME LedgerInv, txn' = txn \/ \E t \in Txn : Close(t)
  PROVE  /\ \A u \in Txn : txn'[u] \in {txn[u], Idle}
         /\ txn' = [u \in Txn |-> txn'[u]]
<1>1. txn \in [Txn -> TxnRow]
  BY RowTypes DEF LedgerInv
<1> QED
  BY <1>1, IdleRow DEF Close

LEMMA CloseKeeps ==
  ASSUME LedgerInv, NEW t \in Txn, Close(t)
  PROVE  \A u \in Txn : txn'[u].pc \in Locking => u # t /\ txn'[u] = txn[u]
<1>1. txn \in [Txn -> TxnRow]
  BY RowTypes DEF LedgerInv
<1> QED
  BY <1>1, IdleRow DEF Close, Locking

\* What transaction t knows.
LEMMA Knows ==
  ASSUME LedgerInv, NEW t \in Txn
  PROVE  txn[t] \in TxnRow /\ Fits(txn[t]) /\ txn[t].amt \in Nat /\ txn[t].seen \in Int
  BY RowTypes DEF LedgerInv, TxnRow

LEMMA Types ==
  ASSUME LedgerInv
  PROVE  /\ invoice \in [Invoice -> InvoiceRow]
         /\ heads \in [Invoice -> [total : Nat, paid : Nat]]
         /\ account \in [paid : Int, due : Int]
         /\ collection \in [Collection -> CollectionRow]
         /\ refund \in [Refund -> RefundRow]
         /\ reduction \in [Reduction -> ReductionRow]
         /\ closed \subseteq Day
         /\ txn \in [Txn -> TxnRow]
         /\ NeverBelowZero /\ RowsFit
         /\ \A c \in Collection : collection[c].status # "cancelled" \/ collection[c].status # "absent"
         /\ \A u \in Txn : txn[u].pc \in Locking => collection[txn[u].coll].status # "cancelled"
  BY RowTypes DEF LedgerInv, Fits

\* A step that leaves the collections, the refunds and the reductions alone.
LEMMA InvoiceStep ==
  ASSUME LedgerInv, txn' = txn \/ \E t \in Txn : Close(t),
         invoice' \in [Invoice -> InvoiceRow], NeverBelowZero',
         heads' \in [Invoice -> [total : Nat, paid : Nat]],
         account' \in [paid : Int, due : Int],
         closed' \subseteq Day, UNCHANGED <<collection, refund, reduction>>
  PROVE  LedgerInv'
<1>1. RowsFit'
  BY DEF LedgerInv, RowsFit
<1>2. \A u \in Txn : txn'[u].pc \in Locking => collection'[txn'[u].coll].status # "cancelled"
  BY CloseTxn, Types, IdleRow DEF Locking
<1> QED
  BY <1>1, <1>2, CloseTxn, CloseKeeps, WriteStep, Types

\* createCollection.
LEMMA StartCollectingGood ==
  ASSUME LedgerInv, NEW t \in Txn, NEW via \in {"desk", "confirm", "webhook", "bank"},
         NEW i \in Invoice, NEW a \in Nat, NEW s \in Source, NEW d \in Day,
         StartCollecting(t, via, i, a, s, d), UNCHANGED ledgerRows
  PROVE  LedgerInv'
<1> DEFINE x == Collecting(via, i, a, s, d, invoice[i].due)
<1>1. a <= invoice[i].due /\ invoice[i].due \in Int
  BY Types DEF StartCollecting, Collectible, InvoiceRow
<1>2. /\ x \in TxnRow /\ x.pc = "collecting" /\ x.inv = i /\ x.src = s /\ x.amt = a
      /\ x.day = d /\ x.seen = invoice[i].due
  BY <1>1, CollectingRow
<1>3. txn' = [txn EXCEPT ![t] = x]
  BY DEF StartCollecting, Open, Collecting
<1> HIDE DEF x
<1>4. Fits(x) /\ x.pc \notin Locking
  BY <1>1, <1>2 DEF Fits, Locking
<1> QED
  BY <1>2, <1>3, <1>4, OpenStep

LEMMA BookGood ==
  ASSUME LedgerInv, NEW t \in Txn, NEW c \in Collection, Book(t, c)
  PROVE  LedgerInv'
<1> DEFINE x == txn[t]
           row == [status |-> "completed", inv |-> x.inv, amt |-> x.amt, src |-> x.src,
                   day |-> x.day]
<1>1. /\ x.inv \in Invoice /\ x.src \in Source /\ x.day \in Day /\ x.amt <= x.seen
      /\ x.amt \in Nat /\ x.seen \in Int
  BY Knows DEF Book, Fits
<1>2. row \in CollectionRow /\ row.status = "completed" /\ row.inv = x.inv
  BY <1>1 DEF CollectionRow, CollectionStatus
<1>3. collection' = [collection EXCEPT ![c] = row]
  BY DEF Book
<1>4. /\ SetDue(x.inv, x.seen - x.amt) /\ MoveAccount(x.amt) /\ Allocate(x.inv, x.amt)
      /\ Close(t) /\ UNCHANGED <<refund, reduction, closed>>
  BY DEF Book
<1> HIDE DEF row, x
<1>5. collection' \in [Collection -> CollectionRow]
      /\ \A e \in Collection : collection'[e] = IF e = c THEN row ELSE collection[e]
  BY <1>2, <1>3, Types
<1>6. invoice' \in [Invoice -> InvoiceRow] /\ NeverBelowZero'
  <2>1. x.seen - x.amt \in Int /\ x.seen - x.amt >= 0
    BY <1>1
  <2> QED
    BY <1>1, <1>4, <2>1, SetDueWrite
<1>7. heads' \in [Invoice -> [total : Nat, paid : Nat]] /\ account' \in [paid : Int, due : Int]
  BY <1>1, <1>4, HeadsWrite, AccountWrite
<1>8. RowsFit'
  BY <1>1, <1>2, <1>4, <1>5, Types DEF RowsFit
<1>9. \A e \in Collection : collection'[e].status \in {collection[e].status, "completed"}
  BY <1>2, <1>5
<1>10. \A u \in Txn : txn'[u].pc \in Locking =>
         txn'[u] = txn[u] /\ txn[u].coll \in Collection
  BY <1>4, CloseTxn, CloseKeeps, Knows DEF Fits
<1>11. \A u \in Txn : txn'[u].pc \in Locking => collection'[txn'[u].coll].status # "cancelled"
  BY <1>9, <1>10, Types
<1> QED
  BY <1>4, <1>5, <1>6, <1>7, <1>8, <1>9, <1>11, CloseTxn, CloseKeeps, WriteStep, Types

\* cancelCollection.
LEMMA CancelBeginsGood ==
  ASSUME LedgerInv, NEW t \in Txn, NEW c \in Collection, CancelBegins(t, c)
  PROVE  LedgerInv'
<1>1. txn' = [txn EXCEPT ![t] = Cancelling(c)] /\ UNCHANGED ledgerRows
      /\ collection[c].status # "absent"
  BY DEF CancelBegins, Open, Cancelling
<1>2. Fits(Cancelling(c)) /\ Cancelling(c).pc \notin Locking
  BY <1>1, CancellingRow DEF Fits, Locking
<1> QED
  BY <1>1, <1>2, CancellingRow, OpenStep

\* Nobody else has locked a collection that is not held.
LEMMA NotHeld ==
  ASSUME NEW c, ~CollectionHeld(c), NEW u \in Txn
  PROVE  ~(txn[u].pc \in Locking /\ txn[u].coll = c)
  BY DEF CollectionHeld, Locking

LEMMA CancelLocksGood ==
  ASSUME LedgerInv, NEW t \in Txn, CancelLocks(t)
  PROVE  LedgerInv'
<1> DEFINE x == txn[t]
           c == x.coll
           i == collection[c].inv
           a == IF collection[c].status = "completed" THEN collection[c].amt ELSE 0
           y == Reversing(x, a, i, invoice[i].due)
<1>1. x.pc = "cancelling" /\ ~CollectionHeld(c) /\ collection[c].status # "cancelled"
  BY DEF CancelLocks
<1>2. c \in Collection /\ collection[c].status # "absent" /\ x \in TxnRow
  BY <1>1, Knows DEF Fits
<1>3. i \in Invoice /\ a \in Nat
  BY <1>2, Types DEF RowsFit, CollectionRow
<1>4. invoice[i].due \in Int /\ invoice[i].due >= 0
  BY <1>3, Types DEF InvoiceRow, NeverBelowZero
<1>5. txn' = [txn EXCEPT ![t] = y]
  BY DEF CancelLocks, Reversing
<1>6. UNCHANGED ledgerRows
  BY DEF CancelLocks
<1> HIDE DEF x, i, a
<1>7. /\ y \in TxnRow /\ y.pc = "reversing" /\ y.inv = i /\ y.seen = invoice[i].due
      /\ y.coll = c
  BY SMTT(30), <1>2, <1>3, <1>4, ReversingRow
<1> HIDE DEF y
<1>8. Fits(y)
  BY <1>1, <1>2, <1>3, <1>4, <1>7 DEF Fits, Locking
<1>9. \A u \in Txn : ~(txn[u].pc \in Locking /\ txn[u].coll = y.coll)
  BY <1>1, <1>7, NotHeld
<1> QED
  BY <1>5, <1>6, <1>7, <1>8, <1>9, OpenStep

\* The transaction that has a collection locked ends and sets its status.
LEMMA StatusWrite ==
  ASSUME LedgerInv, NEW t \in Txn, txn[t].pc \in Locking, Close(t),
         NEW st \in CollectionStatus \ {"absent"},
         collection' = [collection EXCEPT ![txn[t].coll].status = st]
  PROVE  /\ collection' \in [Collection -> CollectionRow]
         /\ \A c \in Collection : collection[c].status # "absent" => collection'[c].status # "absent"
         /\ \A c \in Collection : collection'[c].inv = collection[c].inv
         /\ \A c \in Collection : collection'[c].status # "absent" => collection[c].status # "absent"
         /\ \A u \in Txn : txn'[u].pc \in Locking => collection'[txn'[u].coll].status # "cancelled"
<1> DEFINE c == txn[t].coll
           row == [collection[c] EXCEPT !.status = st]
<1>1. c \in Collection /\ collection[c].status # "absent"
  BY Knows DEF Fits
<1>2. collection[c] \in CollectionRow
  BY <1>1, Types
<1>3. row \in CollectionRow /\ row.status = st /\ row.inv = collection[c].inv
  BY <1>2 DEF CollectionRow
<1>4. collection' = [collection EXCEPT ![c] = row]
  OBVIOUS
<1> HIDE DEF row
<1>5. \A e \in Collection : collection'[e] = IF e = c THEN row ELSE collection[e]
  BY <1>4, Types
<1>6. collection' \in [Collection -> CollectionRow]
  BY <1>3, <1>4, Types
<1>7. ASSUME NEW u \in Txn, txn'[u].pc \in Locking
      PROVE  collection'[txn'[u].coll].status # "cancelled"
  <2>1. u # t /\ txn'[u] = txn[u]
    BY <1>7, CloseTxn, CloseKeeps
  <2>2. txn[u].coll # c /\ txn[u].coll \in Collection
    BY <1>7, <2>1, Knows DEF LedgerInv, OneLocks, Fits
  <2> QED
    BY <1>5, <1>7, <2>1, <2>2, Types
<1> QED
  BY <1>1, <1>3, <1>5, <1>6, <1>7

LEMMA CancelCommitsGood ==
  ASSUME LedgerInv, NEW t \in Txn, CancelCommits(t)
  PROVE  LedgerInv'
<1> DEFINE x == txn[t]
<1>1. x.pc = "reversing" /\ Close(t) /\ UNCHANGED <<refund, reduction, closed>>
      /\ collection' = [collection EXCEPT ![x.coll].status = "cancelled"]
  BY DEF CancelCommits
<1>2. x.inv \in Invoice /\ x.seen >= 0 /\ x.seen \in Int /\ x.amt \in Nat /\ x.pc \in Locking
  BY <1>1, Knows DEF Fits, Locking
<1>3. "cancelled" \in CollectionStatus \ {"absent"}
  BY DEF CollectionStatus
<1>4. /\ collection' \in [Collection -> CollectionRow]
      /\ \A c \in Collection : collection[c].status # "absent" => collection'[c].status # "absent"
      /\ \A c \in Collection : collection'[c].inv = collection[c].inv
      /\ \A c \in Collection : collection'[c].status # "absent" => collection[c].status # "absent"
      /\ \A u \in Txn : txn'[u].pc \in Locking => collection'[txn'[u].coll].status # "cancelled"
  BY <1>1, <1>2, <1>3, StatusWrite
<1>5. RowsFit'
  BY <1>1, <1>4, Types DEF RowsFit
<1>6. /\ invoice' \in [Invoice -> InvoiceRow] /\ NeverBelowZero'
      /\ heads' \in [Invoice -> [total : Nat, paid : Nat]] /\ account' \in [paid : Int, due : Int]
  <2>1. CASE x.amt > 0
    <3>1. SetDue(x.inv, x.seen + x.amt) /\ MoveAccount(-x.amt) /\ Deallocate(x.inv, x.amt)
      BY <2>1 DEF CancelCommits
    <3>2. x.seen + x.amt \in Int /\ x.seen + x.amt >= 0 /\ -x.amt \in Int
      BY <1>2
    <3> HIDE DEF x
    <3>3. invoice' \in [Invoice -> InvoiceRow] /\ NeverBelowZero'
      BY <1>2, <3>1, <3>2, SetDueWrite
    <3> QED
      BY <1>2, <3>1, <3>2, <3>3, HeadsWrite, AccountWrite
  <2>2. CASE ~(x.amt > 0)
    <3>1. UNCHANGED <<invoice, heads, account>>
      BY <2>2 DEF CancelCommits
    <3> QED
      BY <3>1, Types DEF NeverBelowZero
  <2> QED
    BY <2>1, <2>2
<1>7. closed' \subseteq Day /\ refund' \in [Refund -> RefundRow]
      /\ reduction' \in [Reduction -> ReductionRow]
  BY <1>1, Types
<1> HIDE DEF x
<1> QED
  BY <1>1, <1>4, <1>5, <1>6, <1>7, CloseTxn, CloseKeeps, WriteStep

\* createRefund.
LEMMA RequestChecksGood ==
  ASSUME LedgerInv, NEW t \in Txn, NEW c \in Collection, NEW a \in Nat, RequestChecks(t, c, a)
  PROVE  LedgerInv'
<1>1. txn' = [txn EXCEPT ![t] = Requesting(c, a)] /\ UNCHANGED ledgerRows
      /\ collection[c].status # "absent"
  BY DEF RequestChecks, Open, Requesting
<1>2. Fits(Requesting(c, a)) /\ Requesting(c, a).pc \notin Locking
  BY <1>1, RequestingRow DEF Fits, Locking
<1> QED
  BY <1>1, <1>2, RequestingRow, OpenStep

LEMMA RefundWrite ==
  ASSUME LedgerInv, txn' = txn \/ \E t \in Txn : Close(t), NEW r \in Refund, NEW row \in RefundRow,
         row.status # "absent", row.coll \in Collection, collection[row.coll].status # "absent",
         refund[r].status = "absent" \/ row.coll = refund[r].coll,
         refund' = [refund EXCEPT ![r] = row],
         UNCHANGED <<invoice, heads, account, collection, reduction, closed>>
  PROVE  LedgerInv'
<1>1. refund' \in [Refund -> RefundRow]
      /\ \A s \in Refund : refund'[s] = IF s = r THEN row ELSE refund[s]
  BY Types
<1>2. RowsFit' /\ NeverBelowZero'
  BY <1>1, Types DEF RowsFit, NeverBelowZero
<1>3. \A u \in Txn : txn'[u].pc \in Locking => collection'[txn'[u].coll].status # "cancelled"
  BY CloseTxn, Types, IdleRow DEF Locking
<1> QED
  BY <1>1, <1>2, <1>3, CloseTxn, CloseKeeps, WriteStep, Types

LEMMA RequestCommitsGood ==
  ASSUME LedgerInv, NEW t \in Txn, NEW r \in Refund, RequestCommits(t, r)
  PROVE  LedgerInv'
<1> DEFINE row == [status |-> "pending", coll |-> txn[t].coll, amt |-> txn[t].amt]
<1>1. refund' = [refund EXCEPT ![r] = row] /\ Close(t) /\ refund[r].status = "absent"
      /\ UNCHANGED <<invoice, heads, account, collection, reduction, closed>>
  BY DEF RequestCommits
<1>2. txn[t].coll \in Collection /\ collection[txn[t].coll].status # "absent"
  BY Knows DEF RequestCommits, Fits
<1>3. row \in RefundRow /\ row.coll = txn[t].coll /\ row.status # "absent"
  BY <1>2, Knows DEF RefundRow
<1> HIDE DEF row
<1> QED
  BY <1>1, <1>2, <1>3, RefundWrite

LEMMA RejectRefundGood ==
  ASSUME LedgerInv, NEW r \in Refund, RejectRefund(r)
  PROVE  LedgerInv'
<1> DEFINE row == [refund[r] EXCEPT !.status = "rejected"]
<1>1. refund[r] \in RefundRow
  BY Types
<1>2. row \in RefundRow /\ row.coll = refund[r].coll /\ row.status # "absent"
  BY <1>1 DEF RefundRow
<1>3. refund' = [refund EXCEPT ![r] = row] /\ txn' = txn
      /\ UNCHANGED <<invoice, heads, account, collection, reduction, closed>>
  BY DEF RejectRefund
<1>4. row.coll \in Collection /\ collection[row.coll].status # "absent"
  BY <1>2, Types DEF RejectRefund, RowsFit
<1> HIDE DEF row
<1> QED
  BY <1>2, <1>3, <1>4, RefundWrite

\* approveRefund.
LEMMA ApproveBeginsGood ==
  ASSUME LedgerInv, NEW t \in Txn, NEW r \in Refund, ApproveBegins(t, r)
  PROVE  LedgerInv'
<1> DEFINE x == Approving(r, refund[r].coll, refund[r].amt)
<1>1. txn' = [txn EXCEPT ![t] = x] /\ UNCHANGED ledgerRows
  BY DEF ApproveBegins, Open, Approving
<1>2. refund[r].coll \in Collection /\ refund[r].amt \in Nat /\ refund[r].status # "absent"
      /\ collection[refund[r].coll].status # "absent"
  BY Types DEF ApproveBegins, RowsFit, RefundRow
<1>3. x \in TxnRow /\ x.pc = "approving" /\ x.ref = r /\ x.coll = refund[r].coll
  BY <1>2, ApprovingRow
<1> HIDE DEF x
<1>4. Fits(x) /\ x.pc \notin Locking
  BY <1>2, <1>3 DEF Fits, Locking
<1> QED
  BY <1>1, <1>3, <1>4, OpenStep

LEMMA ApproveLocksGood ==
  ASSUME LedgerInv, NEW t \in Txn, ApproveLocks(t)
  PROVE  LedgerInv'
<1> DEFINE x == txn[t]
           c == x.coll
           i == collection[c].inv
           y == Paying(x, i, invoice[i].due)
<1>1. x.pc = "approving" /\ ~CollectionHeld(c) /\ collection[c].status # "cancelled"
  BY DEF ApproveLocks, ClaimRefund
<1>2. c \in Collection /\ collection[c].status # "absent" /\ x \in TxnRow /\ x.ref \in Refund
      /\ refund[x.ref].status # "absent" /\ refund[x.ref].coll = c
  BY <1>1, Knows DEF Fits
<1>3. i \in Invoice
  BY <1>2, Types DEF RowsFit
<1>4. invoice[i].due \in Int /\ invoice[i].due >= 0
  BY <1>3, Types DEF InvoiceRow, NeverBelowZero
<1>5. txn' = [txn EXCEPT ![t] = y] /\ UNCHANGED ledgerRows
  BY DEF ApproveLocks, ClaimRefund, Paying
<1> HIDE DEF x, i
<1>6. /\ y \in TxnRow /\ y.pc = "paying" /\ y.inv = i /\ y.seen = invoice[i].due
      /\ y.coll = c /\ y.ref = x.ref
  BY <1>2, <1>3, <1>4, PayingRow
<1> HIDE DEF y
<1>7. Fits(y)
  BY <1>1, <1>2, <1>3, <1>4, <1>6 DEF Fits, Locking
<1>8. \A u \in Txn : ~(txn[u].pc \in Locking /\ txn[u].coll = y.coll)
  BY <1>1, <1>6, NotHeld
<1> QED
  BY <1>5, <1>6, <1>7, <1>8, OpenStep

LEMMA ApproveCommitsGood ==
  ASSUME LedgerInv, NEW t \in Txn, ApproveCommits(t)
  PROVE  LedgerInv'
<1> DEFINE x == txn[t]
           row == [refund[x.ref] EXCEPT !.status = "processed"]
<1>1. /\ x.pc = "paying" /\ Close(t) /\ SetDue(x.inv, x.seen + x.amt) /\ MoveAccount(-x.amt)
      /\ refund' = [refund EXCEPT ![x.ref] = row] /\ UNCHANGED <<heads, reduction, closed>>
  BY DEF ApproveCommits
<1>2. /\ x.inv \in Invoice /\ x.seen >= 0 /\ x.seen \in Int /\ x.amt \in Nat /\ x.pc \in Locking
      /\ x.ref \in Refund /\ refund[x.ref].status # "absent"
  BY <1>1, Knows DEF Fits, Locking
<1>3. PICK st \in {"refunded", "partially_refunded"} :
        collection' = [collection EXCEPT ![x.coll].status = st]
  BY Zenon DEF ApproveCommits
<1>4. st \in CollectionStatus \ {"absent"}
  BY DEF CollectionStatus
<1>5. /\ collection' \in [Collection -> CollectionRow]
      /\ \A c \in Collection : collection[c].status # "absent" => collection'[c].status # "absent"
      /\ \A c \in Collection : collection'[c].inv = collection[c].inv
      /\ \A c \in Collection : collection'[c].status # "absent" => collection[c].status # "absent"
      /\ \A u \in Txn : txn'[u].pc \in Locking => collection'[txn'[u].coll].status # "cancelled"
  BY <1>1, <1>2, <1>3, <1>4, StatusWrite
<1>6. refund[x.ref] \in RefundRow
  BY <1>2, Types
<1>7. row \in RefundRow /\ row.coll = refund[x.ref].coll /\ row.status # "absent"
  BY <1>6 DEF RefundRow
<1>8. x.seen + x.amt \in Int /\ x.seen + x.amt >= 0 /\ -x.amt \in Int
  BY <1>2
<1>9. invoice' \in [Invoice -> InvoiceRow] /\ NeverBelowZero' /\ account' \in [paid : Int, due : Int]
  <2> HIDE DEF x
  <2> QED
    BY <1>1, <1>2, <1>8, SetDueWrite, AccountWrite
<1> HIDE DEF row
<1>10. refund' \in [Refund -> RefundRow]
       /\ \A s \in Refund : refund'[s] = IF s = x.ref THEN row ELSE refund[s]
  BY <1>1, <1>7, Types
<1>11. \A s \in Refund : refund'[s].coll = refund[s].coll
                        /\ (refund'[s].status # "absent" <=> refund[s].status # "absent")
  BY <1>2, <1>7, <1>10
<1>12. RowsFit'
  BY <1>1, <1>5, <1>11, Types DEF RowsFit
<1> HIDE DEF x
<1> QED
  BY <1>1, <1>5, <1>9, <1>10, <1>11, <1>12, CloseTxn, CloseKeeps, WriteStep, Types

\* Late fees.
LEMMA AccrueReadsGood ==
  ASSUME LedgerInv, NEW t \in Txn, NEW i \in Invoice, AccrueReads(t, i)
  PROVE  LedgerInv'
<1>1. txn' = [txn EXCEPT ![t] = Accruing(i)] /\ UNCHANGED ledgerRows
  BY DEF AccrueReads, Open, Accruing
<1>2. Fits(Accruing(i)) /\ Accruing(i).pc \notin Locking
  BY <1>1, AccruingRow DEF Fits, Locking
<1> QED
  BY <1>1, <1>2, AccruingRow, OpenStep

LEMMA InvoiceFields ==
  ASSUME LedgerInv, NEW i \in Invoice
  PROVE  /\ invoice[i] \in InvoiceRow /\ invoice[i].due \in Int /\ invoice[i].total \in Nat
         /\ invoice[i].late \in Nat /\ invoice[i].due >= 0
  BY Types DEF InvoiceRow, NeverBelowZero

LEMMA DueWrite ==
  ASSUME LedgerInv, NEW n \in Int, account' = [account EXCEPT !.due = n]
  PROVE  account' \in [paid : Int, due : Int]
  BY Types

LEMMA AccrueCommitsGood ==
  ASSUME LedgerInv, NEW t \in Txn, AccrueCommits(t)
  PROVE  LedgerInv'
<1> DEFINE i == txn[t].inv
           row == Charged(invoice[i], LateFee, invoice[i].due + LateFee)
<1>1. i \in Invoice
  BY Knows DEF AccrueCommits, Fits
<1>2. /\ invoice' = [invoice EXCEPT ![i] = row]
      /\ account' = [account EXCEPT !.due = account.due + LateFee] /\ Close(t)
      /\ UNCHANGED <<heads, collection, refund, reduction, closed>>
  BY DEF AccrueCommits, Charged
<1> HIDE DEF i
<1>3. row \in InvoiceRow /\ row.due >= 0
  <2>1. invoice[i] \in InvoiceRow /\ invoice[i].due + LateFee \in Int
        /\ invoice[i].due + LateFee >= 0 /\ LateFee \in Nat
    BY <1>1, InvoiceFields, LedgerAssumption
  <2> QED
    BY <2>1, ChargedRow
<1> HIDE DEF row
<1>4. invoice' \in [Invoice -> InvoiceRow] /\ NeverBelowZero'
  BY <1>1, <1>2, <1>3, InvoiceWrite
<1>5. account' \in [paid : Int, due : Int]
  BY <1>2, NumberTypes, Types, DueWrite
<1> QED
  BY <1>2, <1>4, <1>5, InvoiceStep, Types

LEMMA WaiveGood == ASSUME LedgerInv, NEW i \in Invoice, WaiveLateFee(i) PROVE LedgerInv'
<1> DEFINE waived == Least(invoice[i].late, invoice[i].due)
           row == Charged(invoice[i], 0, invoice[i].due - waived)
<1>1. /\ invoice' = [invoice EXCEPT ![i] = row]
      /\ account' = [account EXCEPT !.due = Floor(account.due - waived)] /\ txn' = txn
      /\ UNCHANGED <<heads, collection, refund, reduction, closed>>
  BY DEF WaiveLateFee, Charged
<1>2. waived \in Int /\ waived <= invoice[i].due
  BY InvoiceFields DEF Least
<1> HIDE DEF waived
<1>3. row \in InvoiceRow /\ row.due >= 0
  <2>1. invoice[i] \in InvoiceRow /\ invoice[i].due - waived \in Int
        /\ invoice[i].due - waived >= 0 /\ 0 \in Nat
    BY <1>2, InvoiceFields
  <2> QED
    BY <2>1, ChargedRow
<1> HIDE DEF row
<1>4. invoice' \in [Invoice -> InvoiceRow] /\ NeverBelowZero'
  BY <1>1, <1>3, InvoiceWrite
<1>5. account' \in [paid : Int, due : Int]
  BY <1>1, <1>2, NumberTypes, Types, DueWrite
<1> QED
  BY <1>1, <1>4, <1>5, InvoiceStep, Types

LEMMA CancelInvoiceGood == ASSUME LedgerInv, NEW i \in Invoice, CancelInvoice(i) PROVE LedgerInv'
<1> DEFINE row == [invoice[i] EXCEPT !.status = "cancelled"]
<1>1. /\ invoice' = [invoice EXCEPT ![i] = row] /\ txn' = txn
      /\ account' = [account EXCEPT !.due = Floor(account.due - Floor(invoice[i].due))]
      /\ UNCHANGED <<heads, collection, refund, reduction, closed>>
  BY DEF CancelInvoice
<1>2. row \in InvoiceRow /\ row.due = invoice[i].due
  BY InvoiceFields DEF InvoiceRow, InvoiceStatus
<1> HIDE DEF row
<1>3. invoice' \in [Invoice -> InvoiceRow] /\ NeverBelowZero'
  BY <1>1, <1>2, InvoiceFields, InvoiceWrite
<1>4. Floor(account.due - Floor(invoice[i].due)) \in Int
  BY InvoiceFields, Types DEF Floor
<1>5. account' \in [paid : Int, due : Int]
  BY <1>1, <1>4, DueWrite
<1> QED
  BY <1>1, <1>3, <1>5, InvoiceStep, Types

\* Fee reductions.
LEMMA ReductionWrite ==
  ASSUME LedgerInv, NEW q \in Reduction, NEW row \in ReductionRow,
         row.status # "absent" => row.inv \in Invoice,
         reduction' = [reduction EXCEPT ![q] = row], txn' = txn,
         invoice' \in [Invoice -> InvoiceRow], NeverBelowZero',
         heads' \in [Invoice -> [total : Nat, paid : Nat]],
         account' \in [paid : Int, due : Int],
         UNCHANGED <<collection, refund, closed>>
  PROVE  LedgerInv'
<1>1. reduction' \in [Reduction -> ReductionRow]
      /\ \A p \in Reduction : reduction'[p] = IF p = q THEN row ELSE reduction[p]
  BY Types
<1>2. RowsFit'
  BY <1>1, Types DEF RowsFit
<1> QED
  BY <1>1, <1>2, CloseTxn, WriteStep, Types

LEMMA ProposeGood ==
  ASSUME LedgerInv, NEW q \in Reduction, NEW i \in Invoice, NEW a \in Nat,
         ProposeReduction(q, i, a)
  PROVE  LedgerInv'
<1> DEFINE row == [status |-> "pending", inv |-> i, amt |-> a, applied |-> 0]
<1>1. row \in ReductionRow /\ row.inv = i
  BY DEF ReductionRow
<1>2. reduction' = [reduction EXCEPT ![q] = row] /\ txn' = txn
      /\ UNCHANGED <<invoice, heads, account, collection, refund, closed>>
  BY DEF ProposeReduction
<1>3. NeverBelowZero'
  BY <1>2, Types DEF NeverBelowZero
<1> HIDE DEF row
<1> QED
  BY <1>1, <1>2, <1>3, ReductionWrite, Types

LEMMA RejectReductionGood ==
  ASSUME LedgerInv, NEW q \in Reduction, RejectReduction(q)
  PROVE  LedgerInv'
<1> DEFINE row == [reduction[q] EXCEPT !.status = "rejected"]
<1>1. reduction[q] \in ReductionRow /\ reduction[q].inv \in Invoice
  BY Types DEF RejectReduction, RowsFit
<1>2. row \in ReductionRow /\ row.inv = reduction[q].inv
  BY <1>1 DEF ReductionRow
<1>3. reduction' = [reduction EXCEPT ![q] = row] /\ txn' = txn
      /\ UNCHANGED <<invoice, heads, account, collection, refund, closed>>
  BY DEF RejectReduction
<1>4. NeverBelowZero'
  BY <1>3, Types DEF NeverBelowZero
<1> HIDE DEF row
<1> QED
  BY <1>1, <1>2, <1>3, <1>4, ReductionWrite, Types

HeadTotal(h, n) == [h EXCEPT !.total = n]

LEMMA HeadTotalWrite ==
  ASSUME LedgerInv, NEW i \in Invoice, NEW n \in Nat,
         heads' = [heads EXCEPT ![i] = HeadTotal(heads[i], n)]
  PROVE  heads' \in [Invoice -> [total : Nat, paid : Nat]]
<1>1. HeadTotal(heads[i], n) \in [total : Nat, paid : Nat]
  BY Types DEF HeadTotal
<1> QED
  BY <1>1, Types

Decided(r, st, n) == [r EXCEPT !.status = st, !.applied = n]

LEMMA DecidedRow ==
  ASSUME NEW r \in ReductionRow, NEW n \in Nat
  PROVE  Decided(r, "approved", n) \in ReductionRow /\ Decided(r, "approved", n).inv = r.inv
  BY DEF ReductionRow, Decided

LEMMA ApproveReductionGood ==
  ASSUME LedgerInv, NEW q \in Reduction, ApproveReduction(q)
  PROVE  LedgerInv'
<1> DEFINE i == reduction[q].inv
           inv == invoice[i]
           applied == Floor(Least(reduction[q].amt, Least(inv.due, inv.total)))
           irow == Rebilled(inv, inv.total - applied, inv.due - applied,
                            StatusOf(inv.due - applied, inv.total - applied))
           qrow == Decided(reduction[q], "approved", applied)
           left == heads[i].total - Least(heads[i].total - heads[i].paid, applied)
<1>1. i \in Invoice /\ reduction[q] \in ReductionRow /\ reduction[q].amt \in Nat
  BY Types DEF ApproveReduction, RowsFit, ReductionRow
<1>2. /\ invoice' = [invoice EXCEPT ![i] = irow]
      /\ account' = [account EXCEPT !.due = Floor(account.due - applied)]
      /\ heads' = [heads EXCEPT ![i] = HeadTotal(heads[i], left)]
      /\ reduction' = [reduction EXCEPT ![q] = qrow]
      /\ txn' = txn /\ UNCHANGED <<collection, refund, closed>>
  BY Zenon DEF ApproveReduction, Rebilled, HeadTotal, Decided
<1> HIDE DEF i
<1>3. inv \in InvoiceRow /\ inv.due \in Nat /\ inv.total \in Nat
  BY <1>1, InvoiceFields
<1>4. applied \in Nat /\ applied <= inv.due /\ applied <= inv.total
  <2> HIDE DEF inv
  <2> QED
    BY <1>1, <1>3 DEF Floor, Least
<1> HIDE DEF inv, applied
<1>5. irow \in InvoiceRow /\ irow.due >= 0
  <2>1. inv.due - applied \in Nat /\ inv.total - applied \in Nat
    BY <1>3, <1>4
  <2>2. inv.due - applied \in Int /\ inv.total - applied \in Int
    BY <2>1
  <2>3. StatusOf(inv.due - applied, inv.total - applied) \in InvoiceStatus
    BY <2>2, NumberTypes
  <2> QED
    BY <1>3, <2>1, <2>2, <2>3, RebilledRow
<1>6. qrow \in ReductionRow /\ qrow.inv \in Invoice
  BY <1>1, <1>4, DecidedRow DEF i
<1>7. left \in Nat
  <2>1. heads[i].total \in Nat /\ heads[i].paid \in Nat
    BY <1>1, Types
  <2> QED
    BY <1>4, <2>1 DEF Least
<1> HIDE DEF irow, qrow, left
<1>8. invoice' \in [Invoice -> InvoiceRow] /\ NeverBelowZero'
  BY <1>1, <1>2, <1>5, InvoiceWrite DEF inv
<1>9. heads' \in [Invoice -> [total : Nat, paid : Nat]]
  BY <1>1, <1>2, <1>7, HeadTotalWrite
<1>10. account' \in [paid : Int, due : Int]
  <2>1. Floor(account.due - applied) \in Int
    BY <1>4, NumberTypes, Types
  <2> QED
    BY <1>2, <2>1, DueWrite
<1> QED
  BY <1>2, <1>6, <1>8, <1>9, <1>10, ReductionWrite

LEMMA ReverseGood ==
  ASSUME LedgerInv, NEW q \in Reduction, ReverseReduction(q)
  PROVE  LedgerInv'
<1> DEFINE i == reduction[q].inv
           inv == invoice[i]
           applied == reduction[q].applied
           irow == Rebilled(inv, inv.total + applied, inv.due + applied,
                            StatusOf(inv.due + applied, inv.total + applied))
           qrow == [reduction[q] EXCEPT !.status = "reversed"]
<1>1. i \in Invoice /\ reduction[q] \in ReductionRow /\ applied \in Nat
  BY Types DEF ReverseReduction, RowsFit, ReductionRow
<1>2. /\ invoice' = [invoice EXCEPT ![i] = IF applied = 0 THEN invoice[i] ELSE irow]
      /\ account' = [account EXCEPT !.due = account.due + applied]
      /\ heads' = [heads EXCEPT ![i] = HeadTotal(heads[i], heads[i].total + applied)]
      /\ reduction' = [reduction EXCEPT ![q] = qrow]
      /\ txn' = txn /\ UNCHANGED <<collection, refund, closed>>
  BY Zenon DEF ReverseReduction, GiveBack, Rebilled, HeadTotal
<1>3. qrow \in ReductionRow /\ qrow.inv = i
  BY <1>1 DEF ReductionRow
<1> HIDE DEF i, applied
<1>4. inv \in InvoiceRow /\ inv.due \in Nat /\ inv.total \in Nat
  BY <1>1, InvoiceFields
<1> HIDE DEF inv
<1>5. irow \in InvoiceRow /\ irow.due >= 0
  <2>1. inv.due + applied \in Nat /\ inv.total + applied \in Nat
    BY <1>1, <1>4
  <2>2. inv.due + applied \in Int /\ inv.total + applied \in Int
    BY <2>1
  <2>3. StatusOf(inv.due + applied, inv.total + applied) \in InvoiceStatus
    BY <2>2, NumberTypes
  <2> QED
    BY <1>4, <2>1, <2>2, <2>3, RebilledRow
<1> HIDE DEF irow, qrow
<1>6. PICK row \in InvoiceRow : row.due >= 0 /\ invoice' = [invoice EXCEPT ![i] = row]
  <2>1. CASE applied = 0
    <3>1. invoice' = [invoice EXCEPT ![i] = invoice[i]]
      BY <1>2, <2>1
    <3>2. invoice[i] \in InvoiceRow /\ invoice[i].due >= 0
      BY <1>1, InvoiceFields
    <3> QED
      BY <3>1, <3>2
  <2>2. CASE applied # 0
    <3>1. invoice' = [invoice EXCEPT ![i] = irow]
      BY <1>2, <2>2
    <3> QED
      BY <1>5, <3>1
  <2> QED
    BY <2>1, <2>2
<1>7. invoice' \in [Invoice -> InvoiceRow] /\ NeverBelowZero'
  BY <1>1, <1>6, InvoiceWrite
<1>8. heads' \in [Invoice -> [total : Nat, paid : Nat]]
  <2>1. heads[i].total + applied \in Nat
    BY <1>1, Types
  <2> QED
    BY <1>1, <1>2, <2>1, HeadTotalWrite
<1>9. account' \in [paid : Int, due : Int]
  BY <1>1, <1>2, Types, DueWrite
<1> QED
  BY <1>1, <1>2, <1>3, <1>7, <1>8, <1>9, ReductionWrite

LEMMA CloseDayGood ==
  ASSUME LedgerInv, NEW d \in Day, CloseDay(d) \/ ReopenDay(d)
  PROVE  LedgerInv'
<1>1. /\ UNCHANGED <<invoice, heads, account, collection, refund, reduction, txn>>
      /\ closed' \subseteq Day
  BY Types DEF CloseDay, ReopenDay
<1>2. NeverBelowZero'
  BY <1>1, Types DEF NeverBelowZero
<1> QED
  BY <1>1, <1>2, InvoiceStep, Types

LEMMA RollbackGood == ASSUME LedgerInv, NEW t \in Txn, Rollback(t) PROVE LedgerInv'
<1>1. Close(t) /\ UNCHANGED ledgerRows
  BY DEF Rollback
<1>2. NeverBelowZero'
  BY <1>1, Types DEF NeverBelowZero, ledgerRows
<1> QED
  BY <1>1, <1>2, InvoiceStep, Types DEF ledgerRows

LEMMA StutterGood == ASSUME LedgerInv, UNCHANGED ledgerVars PROVE LedgerInv'
<1>1. NeverBelowZero'
  BY Types DEF NeverBelowZero, ledgerVars, ledgerRows
<1> QED
  BY <1>1, InvoiceStep, Types DEF ledgerVars, ledgerRows

LEMMA InitGood == LedgerInit => LedgerInv
<1> SUFFICES ASSUME LedgerInit PROVE LedgerInv
  OBVIOUS
<1> USE DEF LedgerInit
<1>1. invoice \in [Invoice -> InvoiceRow] /\ NeverBelowZero
  BY LedgerAssumption DEF InvoiceRow, InvoiceStatus, NeverBelowZero
<1>2. heads \in [Invoice -> [total : Nat, paid : Nat]]
  BY LedgerAssumption
<1>3. collection \in [Collection -> CollectionRow]
  BY DEF CollectionRow, CollectionStatus, NoCollection
<1>4. refund \in [Refund -> RefundRow] /\ reduction \in [Reduction -> ReductionRow]
  BY DEF RefundRow, NoRefund, ReductionRow, NoReduction
<1>5. account \in [paid : Int, due : Int]
  <2>1. Cardinality(Invoice) \in Nat
    BY LedgerAssumption, FS_CardinalityType
  <2>2. Billed * Cardinality(Invoice) \in Int
    BY <2>1, LedgerAssumption
  <2> QED
    BY <2>2
<1>6. txn \in [Txn -> TxnRow] /\ \A t \in Txn : txn[t] = Idle
  BY IdleRow
<1>7. LedgerTypeOK
  <2>1. closed \subseteq Day
    OBVIOUS
  <2> QED
    BY <1>1, <1>2, <1>3, <1>4, <1>5, <1>6, <2>1, RowTypes
<1>8. RowsFit
  BY DEF RowsFit, NoCollection, NoRefund, NoReduction
<1>9. (\A t \in Txn : Fits(txn[t])) /\ OneLocks
  BY <1>6, IdleRow DEF Fits, OneLocks, Locking
<1> QED
  BY <1>1, <1>7, <1>8, <1>9 DEF LedgerInv

LEMMA ReversalGood == ASSUME LedgerInv, NEW t \in Txn, Reversal(t) PROVE LedgerInv'
<1>1. ASSUME NEW c \in Collection, NEW a \in 1..Billed, RequestChecks(t, c, a) PROVE LedgerInv'
  <2>1. a \in Nat
    OBVIOUS
  <2> QED
    BY <1>1, <2>1, RequestChecksGood
<1> QED
  BY <1>1, CancelBeginsGood, CancelLocksGood, CancelCommitsGood, RequestCommitsGood,
     ApproveBeginsGood, ApproveLocksGood, ApproveCommitsGood DEF Reversal

LEMMA BillingGood == ASSUME LedgerInv, Billing PROVE LedgerInv'
<1>1. ASSUME NEW q \in Reduction, NEW i \in Invoice, NEW a \in 1..Billed, ProposeReduction(q, i, a)
      PROVE  LedgerInv'
  <2>1. a \in Nat
    OBVIOUS
  <2> QED
    BY <1>1, <2>1, ProposeGood
<1> QED
  BY <1>1, AccrueReadsGood, AccrueCommitsGood, WaiveGood, CancelInvoiceGood,
     ApproveReductionGood, RejectReductionGood, ReverseGood DEF Billing

LEMMA CollectLocksGood ==
  ASSUME LedgerInv, NEW t \in Txn, NEW i \in Invoice, NEW k \in Key,
         NEW a \in 1..(Billed + LateFee), NEW d \in Day, CollectLocks(t, i, a, k, d)
  PROVE  LedgerInv'
<1>1. a \in Nat /\ k \in Source
  BY LedgerAssumption
<1> QED
  BY <1>1, StartCollectingGood DEF CollectLocks

LEMMA StepGood == ASSUME LedgerInv, [LedgerNext]_ledgerVars PROVE LedgerInv'
<1>1. CASE \E t \in Txn : Reversal(t) \/ Rollback(t)
  BY <1>1, ReversalGood, RollbackGood
<1>2. ASSUME NEW t \in Txn, NEW c \in Collection, CollectCommits(t, c) PROVE LedgerInv'
  BY <1>2, BookGood DEF CollectCommits
<1>3. CASE \E d \in Day : CloseDay(d) \/ ReopenDay(d)
  BY <1>3, CloseDayGood
<1> QED
  BY <1>1, <1>2, <1>3, CollectLocksGood, RejectRefundGood, BillingGood, StutterGood DEF LedgerNext

LEMMA LedgerInvariant == LedgerSpec => []LedgerInv
<1>1. LedgerInv /\ [LedgerNext]_ledgerVars => LedgerInv'
  BY StepGood
<1> QED
  BY InitGood, <1>1, PTL DEF LedgerSpec

\* Rows and open transactions have their types.
THEOREM TypeCorrect == LedgerSpec => []LedgerTypeOK
<1>1. LedgerInv => LedgerTypeOK
  BY DEF LedgerInv
<1> QED
  BY <1>1, LedgerInvariant, PTL

\* Nobody is charged below zero, although cancelCollection and approveRefund
\* write an outstanding amount computed from a row they never locked.
THEOREM ChargesNotNegative == LedgerSpec => []NeverBelowZero
<1>1. LedgerInv => NeverBelowZero
  BY DEF LedgerInv
<1> QED
  BY <1>1, LedgerInvariant, PTL

-----------------------------------------------------------------------------
(***************************************************************************)
(* What becomes of a collection: once booked, its status alone changes.    *)
(***************************************************************************)
SameBooking(c) ==
    /\ collection'[c].src = collection[c].src
    /\ collection'[c].amt = collection[c].amt
    /\ collection'[c].inv = collection[c].inv
    /\ collection'[c].day = collection[c].day
    /\ collection'[c].status = "absent" <=> collection[c].status = "absent"

LEMMA StatusOnly ==
  ASSUME LedgerInv, NEW t \in Txn, txn[t].pc \in Locking, NEW st, st # "absent",
         collection' = [collection EXCEPT ![txn[t].coll].status = st]
  PROVE  /\ \A c \in Collection : SameBooking(c)
         /\ \A c \in Collection : c # txn[t].coll => collection'[c] = collection[c]
         /\ collection[txn[t].coll].status # "cancelled"
         /\ collection'[txn[t].coll].status = st
<1> DEFINE c == txn[t].coll
           row == [collection[c] EXCEPT !.status = st]
<1>1. c \in Collection /\ collection[c].status \notin {"absent", "cancelled"}
  BY Knows DEF Fits
<1>2. collection[c] \in CollectionRow
  BY <1>1, Types
<1>3. /\ row.status = st /\ row.src = collection[c].src /\ row.amt = collection[c].amt
      /\ row.inv = collection[c].inv /\ row.day = collection[c].day
  BY <1>2 DEF CollectionRow
<1>4. collection' = [collection EXCEPT ![c] = row]
  OBVIOUS
<1> HIDE DEF row
<1>5. \A e \in Collection : collection'[e] = IF e = c THEN row ELSE collection[e]
  BY <1>4, Types
<1> QED
  BY <1>1, <1>3, <1>5 DEF SameBooking

\* The one step that books, and those that set a status.
LEMMA BookingStep ==
  ASSUME LedgerInv, [LedgerNext]_ledgerVars
  PROVE  \/ \E t \in Txn, c \in Collection : CollectCommits(t, c)
         \/ \A c \in Collection : SameBooking(c)
<1>1. CASE UNCHANGED collection
  BY <1>1 DEF SameBooking
<1>2. ASSUME NEW t \in Txn, CancelCommits(t) PROVE \A c \in Collection : SameBooking(c)
  BY <1>2, StatusOnly DEF CancelCommits, Locking
<1>3. ASSUME NEW t \in Txn, ApproveCommits(t) PROVE \A c \in Collection : SameBooking(c)
  <2>1. PICK st \in {"refunded", "partially_refunded"} :
          collection' = [collection EXCEPT ![txn[t].coll].status = st]
    BY <1>3, Zenon DEF ApproveCommits
  <2>2. txn[t].pc \in Locking
    BY <1>3 DEF ApproveCommits, Locking
  <2> QED
    BY <2>1, <2>2, StatusOnly
<1>4. ASSUME NEW t \in Txn, Reversal(t) PROVE \A c \in Collection : SameBooking(c)
  <2>1. CASE UNCHANGED collection
    BY <1>1, <2>1 DEF SameBooking
  <2> QED
    BY <1>4, <1>2, <1>3, <2>1 DEF Reversal, CancelBegins, CancelLocks, RequestChecks,
       RequestCommits, ApproveBegins, ApproveLocks, ClaimRefund, ledgerRows
<1>5. CASE Billing
  <2>1. UNCHANGED collection
    BY <1>5 DEF Billing, AccrueReads, AccrueCommits, WaiveLateFee, CancelInvoice,
       ProposeReduction, ApproveReduction, RejectReduction, ReverseReduction, GiveBack,
       ledgerRows
  <2> QED
    BY SMTT(30), <1>1, <2>1
<1>6. ASSUME NEW t \in Txn, Rollback(t) PROVE UNCHANGED collection
  BY <1>6 DEF Rollback, ledgerRows
<1>7. ASSUME NEW r \in Refund, RejectRefund(r) PROVE UNCHANGED collection
  BY <1>7 DEF RejectRefund
<1>8. ASSUME NEW d \in Day, CloseDay(d) \/ ReopenDay(d) PROVE UNCHANGED collection
  BY <1>8 DEF CloseDay, ReopenDay
<1>9. ASSUME NEW t \in Txn, NEW i \in Invoice, NEW k \in Key, NEW a \in 1..(Billed + LateFee),
             NEW d \in Day, CollectLocks(t, i, a, k, d)
      PROVE  UNCHANGED collection
  BY <1>9 DEF CollectLocks, ledgerRows
<1>10. CASE UNCHANGED ledgerVars
  BY <1>1, <1>10 DEF ledgerVars, ledgerRows
<1> QED
  BY <1>1, <1>4, <1>5, <1>6, <1>7, <1>8, <1>9, <1>10 DEF LedgerNext

\* What createCollection books.
LEMMA Booked ==
  ASSUME LedgerInv, NEW t \in Txn, NEW c \in Collection, Book(t, c)
  PROVE  /\ txn[t].src \in Source /\ collection[c].status = "absent"
         /\ collection'[c].src = txn[t].src /\ collection'[c].amt = txn[t].amt
         /\ collection'[c].inv = txn[t].inv /\ collection'[c].status = "completed"
         /\ collection'[c].day = txn[t].day
         /\ \A e \in Collection : e # c => collection'[e] = collection[e]
<1>1. txn[t].src \in Source
  BY Knows DEF Book, Fits
<1> QED
  BY <1>1, Types DEF Book

\* A desk submission sent twice with one Idempotency-Key is booked once.
THEOREM BookedOnce == LedgerSpec => []KeyedOnce
<1>1. LedgerInit => KeyedOnce
  BY LedgerAssumption DEF LedgerInit, KeyedOnce, NoCollection
<1>2. ASSUME LedgerInv, KeyedOnce, [LedgerNext]_ledgerVars PROVE KeyedOnce'
  <2>1. CASE \A c \in Collection : SameBooking(c)
    BY <1>2, <2>1 DEF SameBooking, KeyedOnce
  <2>2. ASSUME NEW t \in Txn, NEW c \in Collection, CollectCommits(t, c) PROVE KeyedOnce'
    <3>1. Book(t, c) /\ Fresh(txn[t].src)
      BY <2>2 DEF CollectCommits, Book
    <3>2. collection'[c].src = txn[t].src /\ \A e \in Collection : e # c => collection'[e] = collection[e]
      BY <1>2, <3>1, Booked
    <3> QED
      BY <1>2, <3>1, <3>2 DEF KeyedOnce, Fresh
  <2> QED
    BY <1>2, <2>1, <2>2, BookingStep
<1> QED
  BY <1>1, <1>2, LedgerInvariant, PTL DEF LedgerSpec

\* A cancelled collection stays cancelled and nothing more is paid back on it:
\* cancelCollection against approveRefund.
Final(c) ==
    collection[c].status = "cancelled" =>
      /\ collection'[c].status = "cancelled"
      /\ RefundsOf(c, {"processed"})' = RefundsOf(c, {"processed"})

LEMMA FinalStep ==
  ASSUME LedgerInv, [LedgerNext]_ledgerVars
  PROVE  \A c \in Collection : Final(c)
<1>1. CASE UNCHANGED <<collection, refund>>
  BY <1>1 DEF Final, RefundsOf
<1>2. ASSUME NEW t \in Txn, NEW e \in Collection, CollectCommits(t, e)
      PROVE  \A c \in Collection : Final(c)
  <2>1. collection[e].status = "absent" /\ UNCHANGED refund
        /\ \A c \in Collection : c # e => collection'[c] = collection[c]
    BY <1>2, Booked DEF CollectCommits, Book
  <2> QED
    BY <2>1 DEF Final, RefundsOf
<1>3. ASSUME NEW t \in Txn, CancelCommits(t) PROVE \A c \in Collection : Final(c)
  <2>1. /\ \A c \in Collection : c # txn[t].coll => collection'[c] = collection[c]
        /\ collection'[txn[t].coll].status = "cancelled"
    BY <1>3, StatusOnly DEF CancelCommits, Locking
  <2>2. UNCHANGED refund
    BY <1>3 DEF CancelCommits
  <2> QED
    BY <2>1, <2>2 DEF Final, RefundsOf
<1>4. ASSUME NEW t \in Txn, ApproveCommits(t) PROVE \A c \in Collection : Final(c)
  <2> DEFINE x == txn[t]
             row == [refund[x.ref] EXCEPT !.status = "processed"]
  <2>1. PICK st \in {"refunded", "partially_refunded"} :
          collection' = [collection EXCEPT ![x.coll].status = st]
    BY <1>4, Zenon DEF ApproveCommits
  <2>2. x.pc \in Locking /\ x.pc = "paying"
    BY <1>4 DEF ApproveCommits, Locking
  <2>3. /\ \A c \in Collection : c # x.coll => collection'[c] = collection[c]
        /\ collection[x.coll].status # "cancelled"
    BY <2>1, <2>2, StatusOnly
  <2>4. x.ref \in Refund /\ refund[x.ref].coll = x.coll /\ refund[x.ref] \in RefundRow
    BY <2>2, Knows, Types DEF Fits
  <2>5. row.coll = x.coll
    BY <2>4 DEF RefundRow
  <2>6. refund' = [refund EXCEPT ![x.ref] = row]
    BY <1>4 DEF ApproveCommits
  <2> HIDE DEF row, x
  <2>7. \A r \in Refund : refund'[r] = IF r = x.ref THEN row ELSE refund[r]
    BY <2>6, Types
  <2>8. ASSUME NEW c \in Collection, collection[c].status = "cancelled" PROVE Final(c)
    <3>1. c # x.coll
      BY <2>3, <2>8
    <3>2. RefundsOf(c, {"processed"})' = RefundsOf(c, {"processed"})
      BY <2>4, <2>5, <2>7, <3>1 DEF RefundsOf
    <3> QED
      BY <2>3, <2>8, <3>1, <3>2 DEF Final
  <2> QED
    BY <2>8 DEF Final
<1>5. ASSUME NEW r \in Refund, NEW row, refund' = [refund EXCEPT ![r] = row],
             refund[r].status # "processed", row.status # "processed", UNCHANGED collection
      PROVE  \A c \in Collection : Final(c)
  <2>1. \A s \in Refund : refund'[s] = IF s = r THEN row ELSE refund[s]
    BY <1>5, Types
  <2> QED
    BY <1>5, <2>1 DEF Final, RefundsOf
<1>6. ASSUME NEW t \in Txn, NEW r \in Refund, RequestCommits(t, r)
      PROVE  \A c \in Collection : Final(c)
  <2>1. /\ refund' = [refund EXCEPT ![r] = [status |-> "pending", coll |-> txn[t].coll,
                                           amt |-> txn[t].amt]]
        /\ refund[r].status = "absent" /\ UNCHANGED collection
    BY <1>6 DEF RequestCommits
  <2> DEFINE row == [status |-> "pending", coll |-> txn[t].coll, amt |-> txn[t].amt]
  <2>2. row.status = "pending" /\ refund' = [refund EXCEPT ![r] = row]
    BY <2>1
  <2> HIDE DEF row
  <2> QED
    BY <1>5, <2>1, <2>2
<1>7. ASSUME NEW r \in Refund, RejectRefund(r) PROVE \A c \in Collection : Final(c)
  <2>1. refund[r] \in RefundRow
    BY Types
  <2>2. [refund[r] EXCEPT !.status = "rejected"].status = "rejected"
    BY <2>1 DEF RefundRow
  <2>3. /\ refund' = [refund EXCEPT ![r] = [refund[r] EXCEPT !.status = "rejected"]]
        /\ refund[r].status = "pending" /\ UNCHANGED collection
    BY SMTT(30), <1>7 DEF RejectRefund
  <2> QED
    BY <1>5, <2>2, <2>3
<1>8. ASSUME NEW t \in Txn, Reversal(t) PROVE \A c \in Collection : Final(c)
  <2>1. CASE UNCHANGED ledgerRows
    BY <1>1, <2>1 DEF ledgerRows
  <2> QED
    BY <1>8, <1>3, <1>4, <1>6, <2>1 DEF Reversal, CancelBegins, CancelLocks, RequestChecks,
       ApproveBegins, ApproveLocks, ClaimRefund
<1>9. CASE Billing
  <2>1. UNCHANGED <<collection, refund>>
    BY <1>9 DEF Billing, AccrueReads, AccrueCommits, WaiveLateFee, CancelInvoice,
       ProposeReduction, ApproveReduction, RejectReduction, ReverseReduction, GiveBack,
       ledgerRows
  <2> QED
    BY SMTT(30), <1>1, <2>1
<1>10. CASE \/ \E t \in Txn : Rollback(t)
            \/ \E d \in Day : CloseDay(d) \/ ReopenDay(d)
            \/ \E t \in Txn, i \in Invoice, k \in Key, a \in 1..(Billed + LateFee), d \in Day :
                 CollectLocks(t, i, a, k, d)
            \/ UNCHANGED ledgerVars
  BY <1>1, <1>10 DEF Rollback, CloseDay, ReopenDay, CollectLocks, ledgerVars, ledgerRows
<1> QED
  BY <1>2, <1>7, <1>8, <1>9, <1>10 DEF LedgerNext

THEOREM CancelIsFinal == LedgerSpec => CancelledIsFinal
<1>1. LedgerInv /\ [LedgerNext]_ledgerVars =>
        [\A c \in Collection : collection[c].status = "cancelled" =>
          /\ collection'[c].status = "cancelled"
          /\ RefundsOf(c, {"processed"})' = RefundsOf(c, {"processed"})]_ledgerVars
  BY FinalStep DEF Final
<1> QED
  BY <1>1, LedgerInvariant, PTL DEF LedgerSpec, CancelledIsFinal

-----------------------------------------------------------------------------
(***************************************************************************)
(* The money.                                                              *)
(***************************************************************************)
Amounts == [r \in Refund |-> refund[r].amt]
Processed(c) == RefundsOf(c, {"processed"})
PaidBack(c) == SumFunctionOnSet(Amounts, Processed(c))

\* What the amount of an open transaction is.  What is about to be paid back
\* still fits beside what was.
Counts(x) ==
    /\ x.pc = "requesting" => x.amt > 0
    /\ x.pc \in {"approving", "paying"} => x.amt = refund[x.ref].amt
    /\ x.pc = "paying" =>
         refund[x.ref].status = "pending" /\ PaidBack(x.coll) + x.amt <= collection[x.coll].amt
    /\ x.pc = "reversing" =>
         x.amt = IF collection[x.coll].status = "completed" THEN collection[x.coll].amt ELSE 0

\* The status of a collection tells whether something was paid back on it.
RowsCount ==
    /\ \A c \in Collection : collection[c].status = "absent" => collection[c].amt = 0
    /\ \A r \in Refund : refund[r].status # "absent" => refund[r].amt > 0
    /\ \A c \in Collection :
         /\ collection[c].status = "completed" => Processed(c) = {}
         /\ collection[c].status \in {"partially_refunded", "refunded"} => Processed(c) # {}

MoneyInv ==
    /\ RowsCount
    /\ \A t \in Txn : Counts(txn[t])
    /\ RefundsWithinCollection
    /\ MoneyBooked

-----------------------------------------------------------------------------
LEMMA Finite == /\ IsFiniteSet(Collection) /\ IsFiniteSet(Refund) /\ IsFiniteSet(Reduction)
                /\ \A S \in SUBSET Refund : IsFiniteSet(S)
                /\ \A S \in SUBSET Reduction : IsFiniteSet(S)
  BY LedgerAssumption, FS_Subset

LEMMA AmountsNat == ASSUME LedgerInv PROVE \A r \in Refund : Amounts[r] = refund[r].amt /\ Amounts[r] \in Nat
  BY Types DEF Amounts, RefundRow

LEMMA PaidNat ==
  ASSUME LedgerInv, NEW c
  PROVE  PaidBack(c) \in Nat
<1>1. Processed(c) \in SUBSET Refund
  BY DEF Processed, RefundsOf
<1> QED
  BY <1>1, Finite, AmountsNat, SumNat DEF PaidBack

\* The sum RefundsWithinCollection and MoneyBooked speak of.
LEMMA PaidIsRefunded == \A c : Refunded(c, {"processed"}, {}) = PaidBack(c)
<1> TAKE c
<1>1. Processed(c) \ {} = Processed(c)
  OBVIOUS
<1>2. Refunded(c, {"processed"}, {}) = SumFunctionOnSet(Amounts, Processed(c) \ {})
  BY DEF Refunded, Amounts, Processed
<1> QED
  BY <1>1, <1>2, Zenon DEF PaidBack

\* What is asked for counts what is paid back.
LEMMA PaidIsClaimed ==
  ASSUME LedgerInv, NEW c, NEW r \in Refund, refund[r].status = "pending"
  PROVE  PaidBack(c) <= Claimed(c, {r}) /\ Claimed(c, {r}) \in Nat
<1> DEFINE S == RefundsOf(c, {"pending", "processed"}) \ {r}
<1>1. S \in SUBSET Refund /\ Processed(c) \in SUBSET S
  BY DEF Processed, RefundsOf
<1>2. Claimed(c, {r}) = SumFunctionOnSet(Amounts, S)
  BY DEF Claimed, Refunded, Amounts
<1> HIDE DEF S
<1>3. IsFiniteSet(S) /\ \A x \in S : Amounts[x] \in Nat
  BY <1>1, Finite, AmountsNat
<1> QED
  BY <1>1, <1>2, <1>3, SumSubset, SumNat DEF PaidBack

\* Nothing is paid back on a collection that is not there.
LEMMA NothingPaid ==
  ASSUME LedgerInv, NEW c \in Collection, Processed(c) = {}
  PROVE  PaidBack(c) = 0
  BY SumEmpty DEF PaidBack

LEMMA AbsentUnpaid ==
  ASSUME LedgerInv, NEW c \in Collection, collection[c].status = "absent"
  PROVE  Processed(c) = {}
  BY Types DEF RowsFit, Processed, RefundsOf

\* A refund that was processed has an amount.
LEMMA SomethingPaid ==
  ASSUME LedgerInv, RowsCount, NEW c \in Collection, Processed(c) # {}
  PROVE  PaidBack(c) > 0
<1>1. PICK r : r \in Processed(c)
  OBVIOUS
<1>2. r \in Refund /\ refund[r].status = "processed" /\ Processed(c) \in SUBSET Refund
  BY <1>1 DEF Processed, RefundsOf
<1>3. Amounts[r] \in Nat /\ Amounts[r] > 0
  BY <1>2, AmountsNat DEF RowsCount
<1> DEFINE Rest == Processed(c) \ {r}
<1>4. IsFiniteSet(Processed(c)) /\ IsFiniteSet(Rest) /\ Rest \in SUBSET Refund
  BY <1>2, Finite
<1>5. SumFunctionOnSet(Amounts, Processed(c)) = Amounts[r] + SumFunctionOnSet(Amounts, Rest)
  BY <1>1, <1>2, <1>4, AmountsNat, SumRemove
<1>6. SumFunctionOnSet(Amounts, Rest) \in Nat
  BY <1>4, AmountsNat, SumNat
<1> QED
  BY <1>3, <1>5, <1>6 DEF PaidBack

\* What is paid back depends on the processed refunds alone.
LEMMA PaidSame ==
  ASSUME LedgerInv, LedgerInv', NEW c, Processed(c)' = Processed(c),
         \A r \in Processed(c) : refund'[r].amt = refund[r].amt
  PROVE  PaidBack(c)' = PaidBack(c)
<1>1. Processed(c) \in SUBSET Refund
  BY DEF Processed, RefundsOf
<1>2. \A r \in Processed(c) : Amounts[r] \in Int /\ Amounts[r] = Amounts'[r]
  BY <1>1, AmountsNat DEF Amounts
<1>3. SumFunctionOnSet(Amounts, Processed(c)) = SumFunctionOnSet(Amounts', Processed(c))
  BY <1>1, <1>2, Finite, SumSame
<1> QED
  BY <1>3, Zenon DEF PaidBack

\* What the account keeps of a collection.
Keeps == [c \in Collection |-> Kept(c)]

KeepsRight ==
    \A c \in Collection :
        /\ Keeps[c] \in Int
        /\ Keeps[c] = IF collection[c].status = "cancelled" /\ PaidBack(c) = 0 THEN 0
                      ELSE collection[c].amt - PaidBack(c)

LEMMA KeepsValue == LedgerInv => KeepsRight
<1> SUFFICES ASSUME LedgerInv, NEW c \in Collection
             PROVE  /\ Keeps[c] \in Int
                    /\ Keeps[c] = IF collection[c].status = "cancelled" /\ PaidBack(c) = 0 THEN 0
                                  ELSE collection[c].amt - PaidBack(c)
  BY DEF KeepsRight
<1>1. collection[c].amt \in Nat /\ PaidBack(c) \in Nat
  BY PaidNat, Types DEF CollectionRow
<1>2. Kept(c) = IF collection[c].status = "cancelled" /\ PaidBack(c) = 0 THEN 0
                ELSE collection[c].amt - PaidBack(c)
  BY PaidIsRefunded DEF Kept
<1> QED
  BY <1>1, <1>2 DEF Keeps

LEMMA MoneyBookedSum == MoneyBooked <=> account.paid = SumFunctionOnSet(Keeps, Collection)
<1>1. DOMAIN Keeps = Collection
  BY DEF Keeps
<1>2. SumFunction(Keeps) = SumFunctionOnSet(Keeps, Collection)
  BY <1>1 DEF SumFunction
<1> QED
  BY <1>2 DEF MoneyBooked, Keeps

RefundsRight == \A c \in Collection : PaidBack(c) <= collection[c].amt

LEMMA RefundsRightSame == RefundsWithinCollection <=> RefundsRight
  BY PaidIsRefunded DEF RefundsWithinCollection, RefundsRight

LEMMA RightNext ==
  ASSUME LedgerInv, LedgerInv'
  PROVE  /\ KeepsRight /\ KeepsRight'
         /\ RefundsWithinCollection <=> RefundsRight
         /\ RefundsWithinCollection' <=> RefundsRight'
         /\ MoneyBooked <=> account.paid = SumFunctionOnSet(Keeps, Collection)
         /\ MoneyBooked' <=> account'.paid = SumFunctionOnSet(Keeps', Collection)
<1>1. KeepsRight /\ KeepsRight'
  BY KeepsValue, PTL
<1>2. (RefundsWithinCollection <=> RefundsRight) /\ (RefundsWithinCollection <=> RefundsRight)'
  BY RefundsRightSame, PTL
<1>3. (MoneyBooked <=> account.paid = SumFunctionOnSet(Keeps, Collection))'
  BY MoneyBookedSum, PTL
<1> QED
  BY <1>1, <1>2, <1>3, MoneyBookedSum

-----------------------------------------------------------------------------
LEMMA IdleCounts == Counts(Idle)
  BY IdleRow DEF Counts

\* A step that moves no money: the transactions it opens or carries on count.
LEMMA NoMoneyMoves ==
  ASSUME LedgerInv, LedgerInv', MoneyInv, UNCHANGED <<collection, refund>>,
         account'.paid = account.paid,
         \A u \in Txn : txn'[u] = txn[u] \/ Counts(txn'[u])
  PROVE  MoneyInv'
<1> USE DEF MoneyInv
<1>1. \A c : Processed(c)' = Processed(c) /\ PaidBack(c)' = PaidBack(c)
  BY DEF Processed, RefundsOf, PaidBack, Amounts
<1>2. RowsCount'
  BY <1>1 DEF RowsCount
<1>3. ASSUME NEW u \in Txn PROVE Counts(txn[u])'
  <2>1. Counts(txn'[u])
    BY <1>3
  <2> QED
    BY <1>1, <2>1 DEF Counts
<1>4. RefundsWithinCollection'
  BY <1>1, RightNext DEF RefundsRight
<1>5. MoneyBooked'
  BY DEF MoneyBooked, Kept, Refunded, RefundsOf
<1> QED
  BY <1>2, <1>3, <1>4, <1>5

\* What the account keeps changes on one collection, by what amount_paid moves.
LEMMA OneKeepsChanges ==
  ASSUME LedgerInv, LedgerInv', MoneyBooked, NEW c \in Collection,
         \A e \in Collection \ {c} : Keeps'[e] = Keeps[e],
         account'.paid = account.paid + Keeps'[c] - Keeps[c]
  PROVE  MoneyBooked'
<1>1. \A e \in Collection : Keeps[e] \in Int
  BY RightNext DEF KeepsRight
<1>2. \A e \in Collection : Keeps'[e] \in Int
  BY RightNext DEF KeepsRight
<1>3. SumFunctionOnSet(Keeps', Collection)
        = SumFunctionOnSet(Keeps, Collection) + Keeps'[c] - Keeps[c]
  BY <1>1, <1>2, Finite, SumChange
<1> QED
  BY <1>3, RightNext

LEMMA MovedAccount == ASSUME LedgerInv, NEW a \in Int, MoveAccount(a) PROVE account'.paid = account.paid + a
  BY DEF MoveAccount

\* createCollection.
LEMMA BookMoney ==
  ASSUME LedgerInv, LedgerInv', MoneyInv, NEW t \in Txn, NEW c \in Collection, Book(t, c)
  PROVE  MoneyInv'
<1> USE DEF MoneyInv
<1>1. /\ collection[c].status = "absent" /\ collection'[c].amt = txn[t].amt
      /\ collection'[c].status = "completed"
      /\ \A e \in Collection : e # c => collection'[e] = collection[e]
  BY Booked
<1>2. UNCHANGED refund /\ Close(t) /\ MoveAccount(txn[t].amt) /\ txn[t].amt \in Nat
  BY Knows DEF Book
<1>3. \A e : Processed(e)' = Processed(e) /\ PaidBack(e)' = PaidBack(e)
  BY <1>2 DEF Processed, RefundsOf, PaidBack, Amounts
<1>4. Processed(c) = {} /\ PaidBack(c) = 0 /\ collection[c].amt = 0
  BY <1>1, AbsentUnpaid, NothingPaid DEF RowsCount
<1>5. RowsCount'
  BY <1>1, <1>2, <1>3, <1>4 DEF RowsCount
<1>6. ASSUME NEW u \in Txn PROVE Counts(txn[u])'
  <2>1. CASE txn'[u] = Idle
    BY <2>1, IdleRow DEF Counts
  <2>2. CASE txn'[u] = txn[u]
    <3>1. Fits(txn[u]) /\ Counts(txn[u])
      BY Knows
    <3> QED
      BY <1>1, <1>2, <1>3, <2>2, <3>1 DEF Counts, Fits, Locking
  <2> QED
    BY <1>2, <2>1, <2>2, CloseTxn
<1>7. RefundsWithinCollection'
  BY <1>1, <1>2, <1>3, <1>4, RightNext DEF RefundsRight
<1>8. MoneyBooked'
  <2>1. \A e \in Collection \ {c} : Keeps'[e] = Keeps[e]
    BY <1>1, <1>3, RightNext DEF KeepsRight
  <2>2. Keeps[c] = 0
    BY <1>1, <1>4, RightNext DEF KeepsRight
  <2>3. Keeps'[c] = txn[t].amt
    BY <1>1, <1>2, <1>3, <1>4, RightNext DEF KeepsRight
  <2>4. account.paid \in Int /\ account'.paid = account.paid + txn[t].amt
    BY <1>2, Types, MovedAccount
  <2> QED
    BY <1>2, <2>1, <2>2, <2>3, <2>4, OneKeepsChanges
<1> QED
  BY <1>5, <1>6, <1>7, <1>8

\* cancelCollection takes off what was collected, unless a refund came first.
LEMMA CancelMoney ==
  ASSUME LedgerInv, LedgerInv', MoneyInv, NEW t \in Txn, CancelCommits(t)
  PROVE  MoneyInv'
<1> DEFINE x == txn[t]
           c == x.coll
<1> USE DEF MoneyInv
<1>1. x.pc = "reversing" /\ x.pc \in Locking /\ Close(t) /\ UNCHANGED refund
      /\ collection' = [collection EXCEPT ![c].status = "cancelled"]
  BY DEF CancelCommits, Locking
<1>2. /\ c \in Collection /\ collection[c].status \notin {"absent", "cancelled"}
      /\ x.amt = (IF collection[c].status = "completed" THEN collection[c].amt ELSE 0)
      /\ x.amt \in Nat /\ collection[c].amt \in Nat /\ collection[c].status \in CollectionStatus
  BY <1>1, Knows, Types DEF Fits, Counts, CollectionRow
<1>3. /\ \A e \in Collection : e # c => collection'[e] = collection[e]
      /\ \A e \in Collection : collection'[e].amt = collection[e].amt
      /\ collection'[c].status = "cancelled"
  BY <1>1, StatusOnly DEF SameBooking
<1>4. \A e : Processed(e)' = Processed(e) /\ PaidBack(e)' = PaidBack(e)
  BY <1>1 DEF Processed, RefundsOf, PaidBack, Amounts
<1>5. \A u \in Txn : txn'[u] \in {txn[u], Idle} /\ (txn'[u].pc \in Locking => u # t)
  BY <1>1, CloseTxn, CloseKeeps
<1>6. RowsCount'
  BY <1>1, <1>3, <1>4 DEF RowsCount
<1>7. ASSUME NEW u \in Txn PROVE Counts(txn[u])'
  <2>1. CASE txn'[u] = Idle
    BY <2>1, IdleRow DEF Counts
  <2>2. CASE txn'[u] = txn[u]
    <3>1. Fits(txn[u]) /\ Counts(txn[u])
      BY Knows
    <3>2. txn[u].pc \in Locking => txn[u].coll # c /\ txn[u].coll \in Collection
      BY <1>1, <1>5, <2>2, <3>1 DEF LedgerInv, OneLocks, Fits
    <3> HIDE DEF x, c
    <3> QED
      BY <1>1, <1>3, <1>4, <2>2, <3>1, <3>2 DEF Counts, Locking
  <2> QED
    BY <1>5, <2>1, <2>2
<1>8. RefundsWithinCollection'
  BY <1>3, <1>4, RightNext DEF RefundsRight
<1>9. MoneyBooked'
  <2>1. \A e \in Collection \ {c} : Keeps'[e] = Keeps[e]
    BY <1>3, <1>4, RightNext DEF KeepsRight
  <2>2. PaidBack(c) \in Nat /\ (collection[c].status = "completed" => PaidBack(c) = 0)
        /\ (collection[c].status # "completed" => PaidBack(c) > 0)
    <3>1. collection[c].status # "completed" => Processed(c) # {}
      BY <1>2 DEF RowsCount, CollectionStatus
    <3> HIDE DEF c
    <3> QED
      BY <1>2, <3>1, PaidNat, NothingPaid, SomethingPaid DEF RowsCount
  <2>3. Keeps'[c] = Keeps[c] - x.amt /\ Keeps[c] \in Int
    <3> HIDE DEF x, c
    <3> QED
      BY <1>2, <1>3, <1>4, <2>2, RightNext DEF KeepsRight
  <2>4. account'.paid = account.paid - x.amt /\ account.paid \in Int
    <3>1. CASE x.amt > 0
      <4>1. MoveAccount(-x.amt)
        BY <3>1 DEF CancelCommits
      <4>2. -x.amt \in Int
        BY <1>2
      <4> HIDE DEF x
      <4> QED
        BY <1>2, <4>1, <4>2, MovedAccount, Types
    <3>2. CASE ~(x.amt > 0)
      <4>1. UNCHANGED account /\ x.amt = 0
        BY <1>2, <3>2 DEF CancelCommits
      <4> QED
        BY <4>1, Types
    <3> QED
      BY <3>1, <3>2
  <2> HIDE DEF x, c
  <2> QED
    BY <1>2, <2>1, <2>3, <2>4, OneKeepsChanges
<1> QED
  BY <1>6, <1>7, <1>8, <1>9

\* A refund is asked for or turned down: no money moves.
LEMMA RefundRowMoney ==
  ASSUME LedgerInv, LedgerInv', MoneyInv, txn' = txn \/ \E t \in Txn : Close(t),
         NEW r \in Refund, NEW row \in RefundRow, refund' = [refund EXCEPT ![r] = row],
         refund[r].status # "processed", row.status \notin {"absent", "processed"}, row.amt > 0,
         refund[r].status = "absent" \/ row.amt = refund[r].amt,
         \A u \in Txn : txn[u].pc = "paying" => txn[u].ref # r,
         UNCHANGED <<collection, account>>
  PROVE  MoneyInv'
<1> USE DEF MoneyInv
<1>1. \A s \in Refund : refund'[s] = IF s = r THEN row ELSE refund[s]
  BY Types
<1>2. \A e : Processed(e)' = Processed(e)
  BY <1>1 DEF Processed, RefundsOf
<1>3. \A e : PaidBack(e)' = PaidBack(e)
  <2>1. \A e : \A s \in Processed(e) : refund'[s].amt = refund[s].amt
    BY <1>1 DEF Processed, RefundsOf
  <2> QED
    BY <1>2, <2>1, PaidSame
<1>4. RowsCount'
  BY <1>1, <1>2 DEF RowsCount
<1>5. ASSUME NEW u \in Txn PROVE Counts(txn[u])'
  <2>1. CASE txn'[u] = Idle
    BY <2>1, IdleRow DEF Counts
  <2>2. CASE txn'[u] = txn[u]
    <3>1. Fits(txn[u]) /\ Counts(txn[u])
      BY Knows
    <3> QED
      BY <1>1, <1>2, <1>3, <2>2, <3>1 DEF Counts, Fits, Locking
  <2> QED
    BY <2>1, <2>2, CloseTxn
<1>6. RefundsWithinCollection'
  BY <1>3, RightNext DEF RefundsRight
<1>7. MoneyBooked'
  <2>1. \A e \in Collection : Keeps'[e] = Keeps[e]
    BY <1>3, RightNext DEF KeepsRight
  <2>2. Keeps' = Keeps
    BY <2>1 DEF Keeps
  <2> QED
    BY <2>2, RightNext
<1> QED
  BY <1>4, <1>5, <1>6, <1>7

\* approveRefund moves the money once, on a collection that has room for it.
LEMMA ApproveMoney ==
  ASSUME LedgerInv, LedgerInv', MoneyInv, NEW t \in Txn, ApproveCommits(t)
  PROVE  MoneyInv'
<1> USE DEF MoneyInv
<1>1. PICK c \in Collection, r \in Refund, a \in Nat :
        /\ c = txn[t].coll /\ r = txn[t].ref /\ a = txn[t].amt
        /\ collection[c].status \notin {"absent", "cancelled"}
        /\ refund[r].coll = c /\ refund[r].status = "pending"
        /\ a = refund[r].amt /\ a > 0
        /\ PaidBack(c) + a <= collection[c].amt
  <2>1. txn[t].pc = "paying" /\ txn[t].pc \in Locking
    BY DEF ApproveCommits, Locking
  <2> QED
    BY <2>1, Knows, Types DEF Fits, Counts, RowsCount
<1> DEFINE row == [refund[r] EXCEPT !.status = "processed"]
<1>2. /\ txn[t].pc = "paying" /\ txn[t].pc \in Locking /\ Close(t) /\ MoveAccount(-a)
      /\ refund' = [refund EXCEPT ![r] = row]
  BY <1>1 DEF ApproveCommits, Locking
<1>3. PICK st \in {"refunded", "partially_refunded"} :
        collection' = [collection EXCEPT ![txn[t].coll].status = st]
  BY Zenon DEF ApproveCommits
<1>4. /\ \A e \in Collection : e # c => collection'[e] = collection[e]
      /\ \A e \in Collection : collection'[e].amt = collection[e].amt
      /\ collection'[c].status = st
  <2>1. /\ \A e \in Collection : SameBooking(e)
        /\ \A e \in Collection : e # txn[t].coll => collection'[e] = collection[e]
        /\ collection'[txn[t].coll].status = st
    BY <1>2, <1>3, StatusOnly
  <2> QED
    BY <1>1, <2>1 DEF SameBooking
<1>5. row.status = "processed" /\ row.coll = c /\ row.amt = a
  BY <1>1, Types DEF RefundRow
<1> HIDE DEF row
<1>6. \A s \in Refund : refund'[s] = IF s = r THEN row ELSE refund[s]
  BY <1>2, Types
<1>7. \A e \in Collection : Processed(e)' = IF e = c THEN Processed(c) \cup {r} ELSE Processed(e)
  BY <1>1, <1>5, <1>6 DEF Processed, RefundsOf
<1>8. r \notin Processed(c)
  BY <1>1 DEF Processed, RefundsOf
<1>9. \A e \in Collection : e # c => PaidBack(e)' = PaidBack(e)
  <2>1. \A e \in Collection : \A s \in Processed(e) : refund'[s].amt = refund[s].amt
    BY <1>1, <1>5, <1>6 DEF Processed, RefundsOf
  <2> QED
    BY <1>7, <2>1, PaidSame
<1>10. PaidBack(c)' = PaidBack(c) + a /\ PaidBack(c) \in Nat
  <2>1. Processed(c) \in SUBSET Refund
    BY DEF Processed, RefundsOf
  <2>2. \A s \in Refund : Amounts'[s] = Amounts[s] /\ Amounts[s] \in Nat
    BY <1>1, <1>5, <1>6, AmountsNat DEF Amounts
  <2>3. SumFunctionOnSet(Amounts, Processed(c) \cup {r})
          = SumFunctionOnSet(Amounts, Processed(c)) + Amounts[r]
    BY <1>8, <2>1, <2>2, Finite, SumAdd
  <2>4. IsFiniteSet(Processed(c) \cup {r}) /\ Processed(c) \cup {r} \in SUBSET Refund
    BY <2>1, Finite
  <2>5. SumFunctionOnSet(Amounts', Processed(c) \cup {r})
          = SumFunctionOnSet(Amounts, Processed(c) \cup {r})
    BY <2>2, <2>4, SumSame
  <2>6. PaidBack(c)' = SumFunctionOnSet(Amounts', Processed(c) \cup {r})
    BY <1>7 DEF PaidBack
  <2>7. Amounts[r] = a
    BY <1>1, AmountsNat
  <2> QED
    BY <2>3, <2>5, <2>6, <2>7, PaidNat DEF PaidBack
<1>11. RowsCount'
  <2>1. ASSUME NEW e \in Collection
        PROVE  /\ (collection[e].status = "absent" => collection[e].amt = 0)'
               /\ (collection[e].status = "completed" => Processed(e) = {})'
               /\ (collection[e].status \in {"partially_refunded", "refunded"} => Processed(e) # {})'
    <3>1. CASE e = c
      BY <1>3, <1>4, <1>7, <3>1
    <3>2. CASE e # c
      BY <1>4, <1>7, <3>2 DEF RowsCount
    <3> QED
      BY <3>1, <3>2
  <2>2. \A s \in Refund : refund'[s].status # "absent" => refund'[s].amt > 0
    BY <1>1, <1>5, <1>6 DEF RowsCount
  <2> QED
    BY <2>1, <2>2 DEF RowsCount
<1>12. ASSUME NEW u \in Txn PROVE Counts(txn[u])'
  <2>1. CASE txn'[u] = Idle
    BY <2>1, IdleRow DEF Counts
  <2>2. CASE txn'[u] = txn[u] /\ u # t
    <3>1. Fits(txn[u]) /\ Counts(txn[u])
      BY Knows
    <3>2. txn[u].pc \in Locking => txn[u].coll # c /\ txn[u].coll \in Collection
      BY <1>1, <1>2, <2>2, <3>1 DEF LedgerInv, OneLocks, Fits
    <3>3. txn[u].pc = "paying" => txn[u].ref # r
      BY <1>1, <3>1, <3>2 DEF Fits, Locking
    <3>4. \A s \in Refund : refund'[s].amt = refund[s].amt
      BY <1>1, <1>5, <1>6
    <3>5. txn[u].pc \in {"approving", "paying"} => txn[u].ref \in Refund
      BY <3>1 DEF Fits
    <3> QED
      BY <1>4, <1>6, <1>9, <2>2, <3>1, <3>2, <3>3, <3>4, <3>5 DEF Counts, Locking
  <2>3. txn'[u] \in {txn[u], Idle} /\ txn'[t] = Idle
    BY <1>2, CloseTxn, Types DEF Close
  <2> QED
    BY <2>1, <2>2, <2>3
<1>13. RefundsWithinCollection'
  BY <1>1, <1>4, <1>9, <1>10, RightNext DEF RefundsRight
<1>14. MoneyBooked'
  <2>1. \A e \in Collection \ {c} : Keeps'[e] = Keeps[e]
    BY <1>4, <1>9, RightNext DEF KeepsRight
  <2>2. collection[c].amt \in Nat
    BY Types DEF CollectionRow
  <2>3. Keeps'[c] = Keeps[c] - a /\ Keeps[c] \in Int
    BY <1>1, <1>3, <1>4, <1>10, <2>2, RightNext DEF KeepsRight
  <2>4. account'.paid = account.paid - a /\ account.paid \in Int
    <3>1. -a \in Int
      OBVIOUS
    <3> QED
      BY <1>2, <3>1, MovedAccount, Types
  <2> QED
    BY <2>1, <2>3, <2>4, OneKeepsChanges
<1> QED
  BY <1>11, <1>12, <1>13, <1>14

\* createRefund inserts, rejectRefund turns down.
LEMMA RequestMoney ==
  ASSUME LedgerInv, LedgerInv', MoneyInv, NEW t \in Txn, NEW r \in Refund, RequestCommits(t, r)
  PROVE  MoneyInv'
<1> DEFINE row == [status |-> "pending", coll |-> txn[t].coll, amt |-> txn[t].amt]
<1>1. refund' = [refund EXCEPT ![r] = row] /\ Close(t) /\ refund[r].status = "absent"
      /\ UNCHANGED <<collection, account>>
  BY DEF RequestCommits
<1>2. txn[t].pc = "requesting" /\ txn[t].coll \in Collection /\ txn[t].amt > 0
  BY Knows DEF RequestCommits, Fits, MoneyInv, Counts
<1>3. row \in RefundRow /\ row.status = "pending" /\ row.amt > 0
  BY <1>2, Knows DEF RefundRow
<1>4. \A u \in Txn : txn[u].pc = "paying" => txn[u].ref # r
  BY <1>1, Knows DEF Fits
<1> HIDE DEF row
<1> QED
  BY <1>1, <1>3, <1>4, RefundRowMoney

LEMMA RejectMoney ==
  ASSUME LedgerInv, LedgerInv', MoneyInv, NEW r \in Refund, RejectRefund(r)
  PROVE  MoneyInv'
<1> DEFINE row == [refund[r] EXCEPT !.status = "rejected"]
<1>1. refund' = [refund EXCEPT ![r] = row] /\ txn' = txn /\ refund[r].status = "pending"
      /\ UNCHANGED <<collection, account>>
  BY DEF RejectRefund
<1>2. row \in RefundRow /\ row.status = "rejected" /\ row.amt = refund[r].amt
  BY Types DEF RefundRow
<1>3. row.amt > 0
  BY <1>1, <1>2 DEF MoneyInv, RowsCount
<1>4. \A u \in Txn : txn[u].pc = "paying" => txn[u].ref # r
  BY DEF RejectRefund, RefundHeld
<1> HIDE DEF row
<1> QED
  BY <1>1, <1>2, <1>3, <1>4, RefundRowMoney

\* A transaction opens or goes on.
LEMMA OpenMoney ==
  ASSUME LedgerInv, LedgerInv', MoneyInv, NEW t \in Txn, NEW x, Counts(x),
         txn' = [txn EXCEPT ![t] = x], UNCHANGED ledgerRows
  PROVE  MoneyInv'
<1>1. \A u \in Txn : txn'[u] = txn[u] \/ Counts(txn'[u])
  BY Types
<1> QED
  BY <1>1, NoMoneyMoves DEF ledgerRows

LEMMA RequestChecksMoney ==
  ASSUME LedgerInv, LedgerInv', MoneyInv, NEW t \in Txn, NEW c \in Collection, NEW a \in Nat, a > 0,
         RequestChecks(t, c, a)
  PROVE  MoneyInv'
<1>1. txn' = [txn EXCEPT ![t] = Requesting(c, a)] /\ UNCHANGED ledgerRows
  BY DEF RequestChecks, Open, Requesting
<1>2. Requesting(c, a).pc = "requesting" /\ Requesting(c, a).amt = a
  BY DEF Requesting, Idle
<1>3. Counts(Requesting(c, a))
  BY <1>2 DEF Counts
<1> QED
  BY <1>1, <1>3, OpenMoney

LEMMA ApproveBeginsMoney ==
  ASSUME LedgerInv, LedgerInv', MoneyInv, NEW t \in Txn, NEW r \in Refund, ApproveBegins(t, r)
  PROVE  MoneyInv'
<1> DEFINE x == Approving(r, refund[r].coll, refund[r].amt)
<1>1. txn' = [txn EXCEPT ![t] = x] /\ UNCHANGED ledgerRows
  BY DEF ApproveBegins, Open, Approving
<1>2. x.pc = "approving" /\ x.ref = r /\ x.amt = refund[r].amt
  BY DEF Approving, Idle
<1> HIDE DEF x
<1>3. Counts(x)
  BY <1>2 DEF Counts
<1> QED
  BY <1>1, <1>3, OpenMoney

\* The sum is taken again under the lock.
LEMMA ApproveLocksMoney ==
  ASSUME LedgerInv, LedgerInv', MoneyInv, NEW t \in Txn, ApproveLocks(t)
  PROVE  MoneyInv'
<1> DEFINE x == txn[t]
           i == collection[x.coll].inv
           y == Paying(x, i, invoice[i].due)
<1>1. txn' = [txn EXCEPT ![t] = y] /\ UNCHANGED ledgerRows
  BY DEF ApproveLocks, ClaimRefund, Paying
<1>2. /\ x.pc = "approving" /\ refund[x.ref].status = "pending"
      /\ Claimed(x.coll, {x.ref}) + x.amt <= collection[x.coll].amt
  BY DEF ApproveLocks, ClaimRefund
<1>3. /\ x.coll \in Collection /\ x.ref \in Refund /\ x \in TxnRow /\ x.amt \in Nat
      /\ x.amt = refund[x.ref].amt /\ collection[x.coll].amt \in Nat
  BY <1>2, Knows, Types DEF Fits, MoneyInv, Counts, CollectionRow
<1>4. y.pc = "paying" /\ y.coll = x.coll /\ y.ref = x.ref /\ y.amt = x.amt
  BY <1>3 DEF Paying, TxnRow
<1> HIDE DEF x, y, i
<1>5. PaidBack(x.coll) <= Claimed(x.coll, {x.ref}) /\ Claimed(x.coll, {x.ref}) \in Nat
  BY <1>2, <1>3, PaidIsClaimed
<1>6. PaidBack(x.coll) \in Nat
  BY PaidNat
<1>7. Counts(y)
  BY <1>2, <1>3, <1>4, <1>5, <1>6 DEF Counts
<1> QED
  BY <1>1, <1>7, OpenMoney

\* Under the lock the amount is taken off, unless a refund came first.
LEMMA CancelLocksMoney ==
  ASSUME LedgerInv, LedgerInv', MoneyInv, NEW t \in Txn, CancelLocks(t)
  PROVE  MoneyInv'
<1> DEFINE x == txn[t]
           c == x.coll
           i == collection[c].inv
           a == IF collection[c].status = "completed" THEN collection[c].amt ELSE 0
           y == Reversing(x, a, i, invoice[i].due)
<1>1. txn' = [txn EXCEPT ![t] = y] /\ UNCHANGED ledgerRows
  BY DEF CancelLocks, Reversing
<1>2. x \in TxnRow
  BY Knows
<1>3. y.pc = "reversing" /\ y.coll = c /\ y.amt = a
  BY <1>2 DEF Reversing, TxnRow
<1> HIDE DEF y
<1>4. Counts(y)
  BY <1>3 DEF Counts
<1> QED
  BY <1>1, <1>4, OpenMoney

\* The other steps: a transaction that neither pays nor reverses opens or ends,
\* an invoice, a reduction or a day changes.
LEMMA OtherMoney ==
  ASSUME LedgerInv, LedgerInv', MoneyInv, UNCHANGED <<collection, refund>>,
         account'.paid = account.paid,
         txn' = txn \/ \E t \in Txn : \E x : Counts(x) /\ txn' = [txn EXCEPT ![t] = x]
  PROVE  MoneyInv'
<1>1. \A u \in Txn : txn'[u] = txn[u] \/ Counts(txn'[u])
  BY Types
<1> QED
  BY <1>1, NoMoneyMoves

LEMMA CancelBeginsMoney ==
  ASSUME LedgerInv, LedgerInv', MoneyInv, NEW t \in Txn, NEW c \in Collection, CancelBegins(t, c)
  PROVE  MoneyInv'
<1>1. txn' = [txn EXCEPT ![t] = Cancelling(c)] /\ UNCHANGED ledgerRows
  BY DEF CancelBegins, Open, Cancelling
<1>2. Counts(Cancelling(c))
  BY CancellingRow DEF Counts
<1> QED
  BY <1>1, <1>2, OpenMoney

LEMMA CollectLocksMoney ==
  ASSUME LedgerInv, LedgerInv', MoneyInv, NEW t \in Txn, NEW via, NEW i, NEW a, NEW s, NEW d,
         StartCollecting(t, via, i, a, s, d), UNCHANGED ledgerRows
  PROVE  MoneyInv'
<1> DEFINE x == Collecting(via, i, a, s, d, invoice[i].due)
<1>1. txn' = [txn EXCEPT ![t] = x]
  BY DEF StartCollecting, Open, Collecting
<1>2. x.pc = "collecting"
  BY DEF Collecting, Idle
<1> HIDE DEF x
<1>3. Counts(x)
  BY <1>2 DEF Counts
<1> QED
  BY <1>1, <1>3, OpenMoney

LEMMA BillingMoney == ASSUME LedgerInv, LedgerInv', MoneyInv, Billing PROVE MoneyInv'
<1>1. UNCHANGED <<collection, refund>>
  BY DEF Billing, AccrueReads, AccrueCommits, WaiveLateFee, CancelInvoice, ProposeReduction,
     ApproveReduction, RejectReduction, ReverseReduction, GiveBack, ledgerRows
<1>2. account'.paid = account.paid
  BY ZenonT(30), Types DEF Billing, AccrueReads, AccrueCommits, WaiveLateFee, CancelInvoice, ProposeReduction,
     ApproveReduction, RejectReduction, ReverseReduction, GiveBack, ledgerRows
<1>3. \A i \in Invoice : Counts(Accruing(i))
  BY AccruingRow DEF Counts
<1>4. txn' = txn \/ \E t \in Txn : \E x : Counts(x) /\ txn' = [txn EXCEPT ![t] = x]
  <2>1. ASSUME NEW t \in Txn, NEW i \in Invoice, AccrueReads(t, i)
        PROVE  txn' = [txn EXCEPT ![t] = Accruing(i)]
    BY <2>1 DEF AccrueReads, Open, Accruing
  <2>2. ASSUME NEW t \in Txn, AccrueCommits(t) PROVE txn' = [txn EXCEPT ![t] = Idle]
    BY <2>2 DEF AccrueCommits, Close
  <2> QED
    BY <1>3, <2>1, <2>2, IdleCounts DEF Billing, WaiveLateFee, CancelInvoice, ProposeReduction,
       ApproveReduction, RejectReduction, ReverseReduction, GiveBack
<1> QED
  BY SMTT(30), <1>1, <1>2, <1>4, OtherMoney

LEMMA ReversalMoney ==
  ASSUME LedgerInv, LedgerInv', MoneyInv, NEW t \in Txn, Reversal(t)
  PROVE  MoneyInv'
<1>1. \A a \in 1..Billed : a \in Nat /\ a > 0
  BY NumberTypes
<1> QED
  BY <1>1, CancelBeginsMoney, CancelLocksMoney, CancelMoney, RequestChecksMoney, RequestMoney,
     ApproveBeginsMoney, ApproveLocksMoney, ApproveMoney DEF Reversal

LEMMA MoneyStep ==
  ASSUME LedgerInv, LedgerInv', MoneyInv, [LedgerNext]_ledgerVars
  PROVE  MoneyInv'
<1>1. CASE \E t \in Txn, i \in Invoice, k \in Key, a \in 1..(Billed + LateFee), d \in Day :
             CollectLocks(t, i, a, k, d)
  BY <1>1, CollectLocksMoney DEF CollectLocks
<1>2. CASE \E t \in Txn, c \in Collection : CollectCommits(t, c)
  BY <1>2, BookMoney DEF CollectCommits
<1>3. CASE \E t \in Txn : Rollback(t)
  BY <1>3, IdleCounts, OpenMoney DEF Rollback, Close
<1>4. CASE \E d \in Day : CloseDay(d) \/ ReopenDay(d)
  BY <1>4, OtherMoney DEF CloseDay, ReopenDay
<1>5. CASE UNCHANGED ledgerVars
  BY <1>5, OtherMoney DEF ledgerVars, ledgerRows
<1> QED
  BY <1>1, <1>2, <1>3, <1>4, <1>5, ReversalMoney, RejectMoney, BillingMoney DEF LedgerNext

LEMMA MoneyInit == ASSUME LedgerInit, LedgerInv PROVE MoneyInv
<1>1. /\ \A c \in Collection : collection[c].status = "absent" /\ collection[c].amt = 0
      /\ \A r \in Refund : refund[r].status = "absent"
      /\ \A t \in Txn : txn[t] = Idle
      /\ account.paid = 0
  BY DEF LedgerInit, NoCollection, NoRefund
<1>2. \A c \in Collection : Processed(c) = {} /\ PaidBack(c) = 0
  BY <1>1, AbsentUnpaid, NothingPaid
<1>3. RowsCount
  BY <1>1, <1>2 DEF RowsCount
<1>4. \A t \in Txn : Counts(txn[t])
  BY <1>1, IdleCounts
<1>5. RefundsWithinCollection
  BY <1>1, <1>2, RefundsRightSame DEF RefundsRight
<1>6. MoneyBooked
  <2>1. \A c \in Collection : Keeps[c] = 0
    BY <1>1, <1>2, KeepsValue DEF KeepsRight
  <2>2. SumFunctionOnSet(Keeps, Collection) = 0
    BY <2>1, Finite, SumZero
  <2> QED
    BY <1>1, <2>2, MoneyBookedSum
<1> QED
  BY <1>3, <1>4, <1>5, <1>6 DEF MoneyInv

LEMMA MoneyInvariant == LedgerSpec => [](LedgerInv /\ MoneyInv)
<1>1. LedgerInit => LedgerInv /\ MoneyInv
  BY InitGood, MoneyInit
<1>2. LedgerInv /\ MoneyInv /\ [LedgerNext]_ledgerVars => (LedgerInv /\ MoneyInv)'
  BY StepGood, MoneyStep
<1> QED
  BY <1>1, <1>2, PTL DEF LedgerSpec

\* The account's amount_paid is what its collections keep: no interleaving of
\* collecting, cancelling and refunding books a movement twice or drops it.
THEOREM PaidIsKept == LedgerSpec => []MoneyBooked
<1>1. MoneyInv => MoneyBooked
  BY DEF MoneyInv
<1> QED
  BY <1>1, MoneyInvariant, PTL

\* No more is paid back on a collection than was collected, although createRefund
\* checks what is left without a lock: approveRefund sums up again under it.
THEOREM PaidBackWithin == LedgerSpec => []RefundsWithinCollection
<1>1. MoneyInv => RefundsWithinCollection
  BY DEF MoneyInv
<1> QED
  BY <1>1, MoneyInvariant, PTL

-----------------------------------------------------------------------------
(***************************************************************************)
(* The charges.                                                            *)
(***************************************************************************)
Applied == [q \in Reduction |-> reduction[q].applied]
InForce(i) == {q \in Reduction : reduction[q].inv = i /\ reduction[q].status = "approved"}
Given(i) == SumFunctionOnSet(Applied, InForce(i))

\* Most steps leave every total alone, and change a late fee to 0 or to the one
\* that is configured.
SameTotals == \A j \in Invoice : invoice'[j].total = invoice[j].total
LateOnce == \A j \in Invoice : invoice'[j].late \in {invoice[j].late, 0, LateFee}

LEMMA AppliedNat ==
  ASSUME LedgerInv
  PROVE  \A q \in Reduction : Applied[q] = reduction[q].applied /\ Applied[q] \in Nat
  BY Types DEF Applied, ReductionRow

LEMMA NetForm == TotalIsNet <=> \A i \in Invoice : invoice[i].total + Given(i) = Billed
  BY DEF TotalIsNet, Given, Applied, InForce

LEMMA NetFormNext == (TotalIsNet <=> \A i \in Invoice : invoice[i].total + Given(i) = Billed)'
  BY NetForm, PTL

LEMMA GivenNat ==
  ASSUME LedgerInv, NEW i
  PROVE  /\ InForce(i) \in SUBSET Reduction /\ IsFiniteSet(InForce(i))
         /\ Given(i) \in Nat
<1>1. InForce(i) \in SUBSET Reduction
  BY DEF InForce
<1> QED
  BY <1>1, Finite, AppliedNat, SumNat DEF Given

\* The reductions in force of an invoice are as they were.
LEMMA GivenSame ==
  ASSUME LedgerInv, NEW i, InForce(i)' = InForce(i),
         \A q \in InForce(i) : reduction'[q].applied = reduction[q].applied
  PROVE  Given(i)' = Given(i)
<1>1. \A q \in InForce(i) : Applied[q] \in Int /\ Applied[q] = Applied'[q]
  BY GivenNat, AppliedNat DEF Applied
<1>2. SumFunctionOnSet(Applied, InForce(i)) = SumFunctionOnSet(Applied', InForce(i))
  BY <1>1, GivenNat, SumSame
<1> QED
  BY <1>2, Zenon DEF Given

\* The row of one invoice is replaced.
LEMMA RowReplaced ==
  ASSUME LedgerInv, NEW i \in Invoice, NEW row, invoice' = [invoice EXCEPT ![i] = row],
         row.total = invoice[i].total, row.late \in {invoice[i].late, 0, LateFee}
  PROVE  SameTotals /\ LateOnce
  BY Types DEF SameTotals, LateOnce

LEMMA SetDueCharges ==
  ASSUME LedgerInv, NEW i \in Invoice, NEW due, SetDue(i, due)
  PROVE  SameTotals /\ LateOnce
<1> DEFINE row == Owing(invoice[i], due, StatusOf(due, invoice[i].total))
<1>1. invoice' = [invoice EXCEPT ![i] = row]
  BY DEF SetDue, Owing
<1>2. row.total = invoice[i].total /\ row.late = invoice[i].late
  BY Types DEF InvoiceRow, Owing
<1> HIDE DEF row
<1> QED
  BY <1>1, <1>2, RowReplaced

LEMMA ReversalCharges ==
  ASSUME LedgerInv, NEW t \in Txn, Reversal(t)
  PROVE  SameTotals /\ LateOnce /\ UNCHANGED reduction
<1>1. CASE UNCHANGED <<invoice, reduction>>
  BY <1>1 DEF SameTotals, LateOnce
<1>2. CASE CancelCommits(t)
  <2>1. UNCHANGED reduction
    BY <1>2 DEF CancelCommits
  <2>2. CASE SetDue(txn[t].inv, txn[t].seen + txn[t].amt)
    <3>1. txn[t].inv \in Invoice
      BY <1>2, Knows DEF CancelCommits, Fits, Locking
    <3> QED
      BY <2>1, <2>2, <3>1, SetDueCharges
  <2>3. CASE UNCHANGED invoice
    BY <1>1, <2>1, <2>3
  <2> QED
    BY <1>2, <2>2, <2>3 DEF CancelCommits
<1>3. CASE ApproveCommits(t)
  <2>1. UNCHANGED reduction /\ SetDue(txn[t].inv, txn[t].seen + txn[t].amt)
    BY <1>3 DEF ApproveCommits
  <2>2. txn[t].inv \in Invoice
    BY <1>3, Knows DEF ApproveCommits, Fits, Locking
  <2> QED
    BY <2>1, <2>2, SetDueCharges
<1> QED
  BY <1>1, <1>2, <1>3 DEF Reversal, CancelBegins, CancelLocks, RequestChecks, RequestCommits,
     ApproveBegins, ApproveLocks, ClaimRefund, ledgerRows

LEMMA AccrueCharges ==
  ASSUME LedgerInv, NEW t \in Txn, AccrueCommits(t)
  PROVE  SameTotals /\ LateOnce
<1> DEFINE i == txn[t].inv
           row == Charged(invoice[i], LateFee, invoice[i].due + LateFee)
<1>1. i \in Invoice
  BY Knows DEF AccrueCommits, Fits
<1>2. invoice' = [invoice EXCEPT ![i] = row]
  BY DEF AccrueCommits, Charged
<1>3. row.total = invoice[i].total /\ row.late = LateFee
  BY <1>1, Types DEF InvoiceRow, Charged
<1> HIDE DEF row, i
<1> QED
  BY <1>1, <1>2, <1>3, RowReplaced

LEMMA WaiveCharges ==
  ASSUME LedgerInv, NEW i \in Invoice, WaiveLateFee(i)
  PROVE  SameTotals /\ LateOnce
<1> DEFINE row == Charged(invoice[i], 0, invoice[i].due - Least(invoice[i].late, invoice[i].due))
<1>1. invoice' = [invoice EXCEPT ![i] = row]
  BY DEF WaiveLateFee, Charged
<1>2. row.total = invoice[i].total /\ row.late = 0
  BY Types DEF InvoiceRow, Charged
<1> HIDE DEF row
<1> QED
  BY <1>1, <1>2, RowReplaced

LEMMA CancelInvoiceCharges ==
  ASSUME LedgerInv, NEW i \in Invoice, CancelInvoice(i)
  PROVE  SameTotals /\ LateOnce
<1> DEFINE row == [invoice[i] EXCEPT !.status = "cancelled"]
<1>1. invoice' = [invoice EXCEPT ![i] = row]
  BY DEF CancelInvoice
<1>2. row.total = invoice[i].total /\ row.late = invoice[i].late
  BY Types DEF InvoiceRow
<1> HIDE DEF row
<1> QED
  BY <1>1, <1>2, RowReplaced

\* The steps other than those of a reduction.
LEMMA ChargesStay ==
  ASSUME LedgerInv, [LedgerNext]_ledgerVars
  PROVE  \/ SameTotals /\ LateOnce /\ UNCHANGED reduction
         \/ \E q \in Reduction :
              \/ \E i \in Invoice, a \in 1..Billed : ProposeReduction(q, i, a)
              \/ ApproveReduction(q) \/ RejectReduction(q) \/ ReverseReduction(q)
<1>1. CASE UNCHANGED <<invoice, reduction>>
  BY <1>1 DEF SameTotals, LateOnce
<1>2. ASSUME NEW t \in Txn, NEW c \in Collection, CollectCommits(t, c)
      PROVE  SameTotals /\ LateOnce /\ UNCHANGED reduction
  <2>1. UNCHANGED reduction /\ SetDue(txn[t].inv, txn[t].seen - txn[t].amt)
    BY <1>2 DEF CollectCommits, Book
  <2>2. txn[t].inv \in Invoice
    BY <1>2, Knows DEF CollectCommits, Book, Fits
  <2> QED
    BY <2>1, <2>2, SetDueCharges
<1>3. ASSUME Billing
      PROVE  \/ SameTotals /\ LateOnce /\ UNCHANGED reduction
             \/ \E q \in Reduction :
                  \/ \E i \in Invoice, a \in 1..Billed : ProposeReduction(q, i, a)
                  \/ ApproveReduction(q) \/ RejectReduction(q) \/ ReverseReduction(q)
  <2>1. CASE \E t \in Txn, i \in Invoice : AccrueReads(t, i)
    BY <1>1, <2>1 DEF AccrueReads, ledgerRows
  <2>2. CASE \E t \in Txn : AccrueCommits(t)
    BY <2>2, AccrueCharges DEF AccrueCommits
  <2>3. CASE \E i \in Invoice : WaiveLateFee(i)
    BY <2>3, WaiveCharges DEF WaiveLateFee
  <2>4. CASE \E i \in Invoice : CancelInvoice(i)
    BY <2>4, CancelInvoiceCharges DEF CancelInvoice
  <2> QED
    BY <1>3, <2>1, <2>2, <2>3, <2>4 DEF Billing
<1>4. CASE \/ \E t \in Txn : Rollback(t)
           \/ \E r \in Refund : RejectRefund(r)
           \/ \E d \in Day : CloseDay(d) \/ ReopenDay(d)
           \/ \E t \in Txn, i \in Invoice, k \in Key, a \in 1..(Billed + LateFee), d \in Day :
                CollectLocks(t, i, a, k, d)
           \/ UNCHANGED ledgerVars
  BY <1>1, <1>4 DEF Rollback, RejectRefund, CloseDay, ReopenDay, CollectLocks, ledgerVars, ledgerRows
<1> QED
  BY <1>2, <1>3, <1>4, ReversalCharges DEF LedgerNext

LEMMA NetStays ==
  ASSUME LedgerInv, TotalIsNet, SameTotals,
         \A i \in Invoice : InForce(i)' = InForce(i)
           /\ \A q \in InForce(i) : reduction'[q].applied = reduction[q].applied
  PROVE  TotalIsNet'
<1>1. \A i \in Invoice : Given(i)' = Given(i)
  BY GivenSame
<1>2. \A i \in Invoice : invoice'[i].total + Given(i)' = Billed
  BY <1>1, NetForm DEF SameTotals
<1> QED
  BY <1>2, NetFormNext

LEMMA ProposeCharges ==
  ASSUME LedgerInv, TotalIsNet, NEW q \in Reduction, NEW i, NEW a,
         ProposeReduction(q, i, a)
  PROVE  TotalIsNet' /\ LateOnce
<1> DEFINE row == [status |-> "pending", inv |-> i, amt |-> a, applied |-> 0]
<1>1. reduction' = [reduction EXCEPT ![q] = row] /\ reduction[q].status = "absent"
      /\ UNCHANGED invoice
  BY DEF ProposeReduction
<1>2. row.status = "pending"
  OBVIOUS
<1> HIDE DEF row
<1>3. \A p \in Reduction : reduction'[p] = IF p = q THEN row ELSE reduction[p]
  BY <1>1, Types
<1>4. \A j \in Invoice : InForce(j)' = InForce(j)
        /\ \A p \in InForce(j) : reduction'[p].applied = reduction[p].applied
  BY <1>1, <1>2, <1>3 DEF InForce
<1> QED
  BY <1>1, <1>4, NetStays DEF SameTotals, LateOnce

LEMMA RejectCharges ==
  ASSUME LedgerInv, TotalIsNet, NEW q \in Reduction, RejectReduction(q)
  PROVE  TotalIsNet' /\ LateOnce
<1> DEFINE row == [reduction[q] EXCEPT !.status = "rejected"]
<1>1. reduction' = [reduction EXCEPT ![q] = row] /\ reduction[q].status = "pending"
      /\ UNCHANGED invoice
  BY DEF RejectReduction
<1>2. row.status = "rejected"
  BY Types DEF ReductionRow
<1> HIDE DEF row
<1>3. \A p \in Reduction : reduction'[p] = IF p = q THEN row ELSE reduction[p]
  BY <1>1, Types
<1>4. \A j \in Invoice : InForce(j)' = InForce(j)
        /\ \A p \in InForce(j) : reduction'[p].applied = reduction[p].applied
  BY <1>1, <1>2, <1>3 DEF InForce
<1> QED
  BY <1>1, <1>4, NetStays DEF SameTotals, LateOnce

\* What is applied is taken off the total once.
LEMMA ApproveCharges ==
  ASSUME LedgerInv, TotalIsNet, NEW q \in Reduction, ApproveReduction(q)
  PROVE  TotalIsNet' /\ LateOnce
<1>1. PICK i \in Invoice : i = reduction[q].inv
  BY Types DEF ApproveReduction, RowsFit
<1>2. PICK n \in Nat : n = Floor(Least(reduction[q].amt, Least(invoice[i].due, invoice[i].total)))
  <2>1. Least(reduction[q].amt, Least(invoice[i].due, invoice[i].total)) \in Int
    BY InvoiceFields, Types DEF ReductionRow, Least
  <2> QED
    BY <2>1, NumberTypes
<1> DEFINE irow == Rebilled(invoice[i], invoice[i].total - n, invoice[i].due - n,
                            StatusOf(invoice[i].due - n, invoice[i].total - n))
           qrow == Decided(reduction[q], "approved", n)
<1>3. /\ invoice' = [invoice EXCEPT ![i] = irow]
      /\ reduction' = [reduction EXCEPT ![q] = qrow]
      /\ reduction[q].status = "pending"
  BY <1>1, <1>2, Zenon DEF ApproveReduction, Rebilled, Decided
<1>4. irow.total = invoice[i].total - n /\ irow.late = invoice[i].late
  BY InvoiceFields DEF InvoiceRow, Rebilled
<1>5. qrow.status = "approved" /\ qrow.inv = i /\ qrow.applied = n
  BY <1>1, Types DEF ReductionRow, Decided
<1> HIDE DEF irow, qrow
<1>6. /\ \A j \in Invoice : invoice'[j] = IF j = i THEN irow ELSE invoice[j]
      /\ \A p \in Reduction : reduction'[p] = IF p = q THEN qrow ELSE reduction[p]
  BY <1>3, Types
<1>7. LateOnce
  BY <1>4, <1>6 DEF LateOnce
<1>8. q \notin InForce(i)
  BY <1>3 DEF InForce
<1>9. \A j \in Invoice : InForce(j)' = IF j = i THEN InForce(i) \cup {q} ELSE InForce(j)
  BY <1>1, <1>5, <1>6 DEF InForce
<1>10. \A j \in Invoice : j # i => Given(j)' = Given(j)
  <2>1. \A j \in Invoice : \A p \in InForce(j) : reduction'[p].applied = reduction[p].applied
    BY <1>3, <1>6 DEF InForce
  <2> QED
    BY <1>9, <2>1, GivenSame
<1>11. Given(i)' = Given(i) + n
  <2>1. \A p \in InForce(i) : Applied[p] = Applied'[p] /\ Applied[p] \in Int
    BY <1>6, <1>8, GivenNat, AppliedNat DEF Applied
  <2>2. Applied'[q] = n
    BY <1>5, <1>6 DEF Applied
  <2>3. SumFunctionOnSet(Applied', InForce(i) \cup {q})
          = SumFunctionOnSet(Applied', InForce(i)) + Applied'[q]
    BY <1>8, <2>1, <2>2, GivenNat, SumAdd
  <2>4. SumFunctionOnSet(Applied, InForce(i)) = SumFunctionOnSet(Applied', InForce(i))
    BY <2>1, GivenNat, SumSame
  <2>5. Given(i)' = SumFunctionOnSet(Applied', InForce(i) \cup {q})
    BY <1>9 DEF Given
  <2> QED
    BY <2>2, <2>3, <2>4, <2>5 DEF Given
<1>12. \A j \in Invoice : invoice'[j].total + Given(j)' = Billed
  <2>1. \A j \in Invoice : invoice[j].total + Given(j) = Billed
    BY NetForm
  <2>2. invoice[i].total \in Nat /\ Given(i) \in Nat
    BY InvoiceFields, GivenNat
  <2> QED
    BY <1>4, <1>6, <1>10, <1>11, <2>1, <2>2
<1> QED
  BY <1>7, <1>12, NetFormNext

\* What was applied is put back on the total once.
LEMMA ReverseCharges ==
  ASSUME LedgerInv, TotalIsNet, NEW q \in Reduction, ReverseReduction(q)
  PROVE  TotalIsNet' /\ LateOnce
<1>1. PICK i \in Invoice : i = reduction[q].inv
  BY Types DEF ReverseReduction, RowsFit
<1>2. PICK n \in Nat : n = reduction[q].applied
  BY Types DEF ReductionRow
<1> DEFINE irow == IF n = 0 THEN invoice[i]
                   ELSE Rebilled(invoice[i], invoice[i].total + n, invoice[i].due + n,
                                 StatusOf(invoice[i].due + n, invoice[i].total + n))
           qrow == [reduction[q] EXCEPT !.status = "reversed"]
<1>3. /\ invoice' = [invoice EXCEPT ![i] = irow]
      /\ reduction' = [reduction EXCEPT ![q] = qrow]
      /\ reduction[q].status = "approved"
  BY <1>1, <1>2, Zenon DEF ReverseReduction, GiveBack, Rebilled
<1>4. irow.total = invoice[i].total + n /\ irow.late = invoice[i].late
  BY InvoiceFields DEF InvoiceRow, Rebilled
<1>5. qrow.status = "reversed" /\ qrow.inv = i
  BY <1>1, Types DEF ReductionRow
<1> HIDE DEF irow, qrow
<1>6. /\ \A j \in Invoice : invoice'[j] = IF j = i THEN irow ELSE invoice[j]
      /\ \A p \in Reduction : reduction'[p] = IF p = q THEN qrow ELSE reduction[p]
  BY <1>3, Types
<1>7. LateOnce
  BY <1>4, <1>6 DEF LateOnce
<1>8. q \in InForce(i)
  BY <1>1, <1>3 DEF InForce
<1>9. \A j \in Invoice : InForce(j)' = IF j = i THEN InForce(i) \ {q} ELSE InForce(j)
  BY <1>1, <1>5, <1>6 DEF InForce
<1>10. \A j \in Invoice : j # i => Given(j)' = Given(j)
  <2>1. \A j \in Invoice : j # i => \A p \in InForce(j) : reduction'[p].applied = reduction[p].applied
    BY <1>1, <1>6 DEF InForce
  <2> QED
    BY <1>9, <2>1, GivenSame
<1>11. Given(i) = Given(i)' + n /\ Given(i)' \in Int
  <2> DEFINE Rest == InForce(i) \ {q}
  <2>1. \A p \in InForce(i) : Applied[p] \in Int
    BY GivenNat, AppliedNat
  <2>2. \A p \in Rest : Applied[p] = Applied'[p] /\ Applied[p] \in Int
    BY <1>6, GivenNat, AppliedNat DEF Applied
  <2>3. IsFiniteSet(Rest)
    BY GivenNat, FS_Subset
  <2>4. SumFunctionOnSet(Applied, InForce(i)) = Applied[q] + SumFunctionOnSet(Applied, Rest)
    BY <1>8, <2>1, GivenNat, SumRemove
  <2> HIDE DEF Rest
  <2>5. SumFunctionOnSet(Applied, Rest) = SumFunctionOnSet(Applied', Rest)
        /\ SumFunctionOnSet(Applied, Rest) \in Int
    BY <2>2, <2>3, SumSame, SumInt
  <2>6. Given(i)' = SumFunctionOnSet(Applied', Rest)
    BY <1>9 DEF Given, Rest
  <2>7. Applied[q] = n
    BY <1>2, AppliedNat
  <2> QED
    BY <2>4, <2>5, <2>6, <2>7 DEF Given
<1>12. \A j \in Invoice : invoice'[j].total + Given(j)' = Billed
  <2>1. \A j \in Invoice : invoice[j].total + Given(j) = Billed
    BY NetForm
  <2>2. invoice[i].total \in Nat /\ Given(i) \in Nat
    BY InvoiceFields, GivenNat
  <2> QED
    BY <1>4, <1>6, <1>10, <1>11, <2>1, <2>2
<1> QED
  BY <1>7, <1>12, NetFormNext

LEMMA ChargesStep ==
  ASSUME LedgerInv, TotalIsNet, [LedgerNext]_ledgerVars
  PROVE  TotalIsNet' /\ LateOnce
<1>1. CASE SameTotals /\ LateOnce /\ UNCHANGED reduction
  <2>1. \A i \in Invoice : InForce(i)' = InForce(i)
          /\ \A q \in InForce(i) : reduction'[q].applied = reduction[q].applied
    BY <1>1 DEF InForce
  <2> QED
    BY <1>1, <2>1, NetStays
<1> QED
  BY <1>1, ChargesStay, ProposeCharges, ApproveCharges, RejectCharges, ReverseCharges

\* An invoice's total is what was billed less the reductions in force: each is
\* applied once and given back once (approveFeeReduction, reverseFeeReduction).
THEOREM NetOfReductions == LedgerSpec => []TotalIsNet
<1>1. LedgerInit => TotalIsNet
  <2> SUFFICES ASSUME LedgerInit PROVE TotalIsNet
    OBVIOUS
  <2>1. \A i \in Invoice : InForce(i) = {} /\ invoice[i].total = Billed
    BY DEF LedgerInit, InForce, NoReduction
  <2>2. \A i \in Invoice : Given(i) = 0
    BY <2>1, SumEmpty DEF Given
  <2> QED
    BY <2>1, <2>2, NetForm, LedgerAssumption
<1>2. LedgerInv /\ TotalIsNet /\ [LedgerNext]_ledgerVars => TotalIsNet'
  BY ChargesStep
<1> QED
  BY <1>1, <1>2, LedgerInvariant, PTL DEF LedgerSpec

\* Overlapping accruals charge one late fee (accrueLateFees).
THEOREM LateFeeOnce == LedgerSpec => []OneLateFee
<1>1. LedgerInit => OneLateFee
  BY DEF LedgerInit, OneLateFee
<1>2. LedgerInv /\ TotalIsNet /\ OneLateFee /\ [LedgerNext]_ledgerVars => OneLateFee'
  BY ChargesStep DEF LateOnce, OneLateFee
<1> QED
  BY <1>1, <1>2, LedgerInvariant, NetOfReductions, PTL DEF LedgerSpec

-----------------------------------------------------------------------------
(***************************************************************************)
(* The days.                                                               *)
(***************************************************************************)
\* A row that is not there has no day.
Undated == \A c \in Collection : collection[c].status = "absent" => collection[c].day = 0

LEMMA UndatedStep == ASSUME LedgerInv, Undated, [LedgerNext]_ledgerVars PROVE Undated'
<1>1. CASE \A c \in Collection : SameBooking(c)
  BY <1>1 DEF SameBooking, Undated
<1>2. ASSUME NEW t \in Txn, NEW c \in Collection, CollectCommits(t, c) PROVE Undated'
  BY <1>2, Booked DEF CollectCommits, Undated
<1> QED
  BY <1>1, <1>2, BookingStep

\* What a closed day promises, in one step.
DayKept(d) == Quiet(d) => Quiet(d)' /\ OnDay(d)' = OnDay(d)

LEMMA DayTypes ==
  ASSUME LedgerInv
  PROVE  /\ \A d \in closed : d \in Nat
         /\ \A c \in Collection : collection[c].day \in Nat
         /\ \A t \in Txn : txn[t].day \in Nat
         /\ \A t \in Txn : txn[t].pc \in {"cancelling", "reversing"} =>
              txn[t].coll \in Collection /\ collection[txn[t].coll].status # "absent"
<1>1. \A t \in Txn : txn[t].pc \in {"cancelling", "reversing"} =>
        txn[t].coll \in Collection /\ collection[txn[t].coll].status # "absent"
  BY Knows DEF Fits, Locking
<1>2. \A c \in Collection : collection[c].day \in Day \cup {0}
  BY Types DEF CollectionRow
<1>3. \A t \in Txn : txn[t].day \in Day \cup {0}
  BY Types DEF TxnRow
<1>4. closed \subseteq Day
  BY Types
<1>5. \A d \in Day : d \in Nat
  BY LedgerAssumption
<1> QED
  BY <1>1, <1>2, <1>3, <1>4, <1>5

\* The collections stay, and no transaction opens that could disturb the day.
LEMMA DayStays ==
  ASSUME LedgerInv, NEW d, UNCHANGED collection,
         \A u \in Txn : \/ txn'[u] = txn[u]
                        \/ txn'[u].pc \notin {"collecting", "cancelling", "reversing"}
  PROVE  DayKept(d)
  BY DEF DayKept, Quiet, OnDay

LEMMA BookDay ==
  ASSUME LedgerInv, Undated, NEW d \in closed, NEW t \in Txn, NEW c \in Collection, Book(t, c)
  PROVE  DayKept(d)
<1> SUFFICES ASSUME Quiet(d) PROVE Quiet(d)' /\ OnDay(d)' = OnDay(d)
  BY DEF DayKept
<1>1. /\ collection[c].status = "absent" /\ collection'[c].day = txn[t].day
      /\ \A e \in Collection : e # c => collection'[e] = collection[e]
  BY Booked
<1>2. txn[t].day > d /\ txn[t].day \in Nat /\ d \in Nat /\ collection[c].day = 0
  BY <1>1, DayTypes DEF Book, Quiet, Undated
<1>3. \A u \in Txn : txn'[u] \in {txn[u], Idle}
  BY CloseTxn DEF Book
<1>4. Quiet(d)'
  BY <1>1, <1>3, DayTypes, IdleRow DEF Quiet
<1>5. OnDay(d)' = OnDay(d)
  BY <1>1, <1>2 DEF OnDay
<1> QED
  BY <1>4, <1>5

\* A status is set: cancelled where the day is later, refunded where the
\* collection counts before and after.
LEMMA StatusDay ==
  ASSUME LedgerInv, NEW d \in closed, NEW t \in Txn, NEW st, txn[t].pc \in Locking, Close(t),
         st # "absent", collection' = [collection EXCEPT ![txn[t].coll].status = st],
         st = "cancelled" => txn[t].pc = "reversing"
  PROVE  DayKept(d)
<1> SUFFICES ASSUME Quiet(d) PROVE Quiet(d)' /\ OnDay(d)' = OnDay(d)
  BY DEF DayKept
<1>1. PICK c \in Collection : c = txn[t].coll
  BY Knows DEF Fits
<1>2. /\ \A e \in Collection : collection'[e].day = collection[e].day
      /\ \A e \in Collection : e # c => collection'[e] = collection[e]
      /\ collection[c].status # "cancelled" /\ collection'[c].status = st
  <2>1. /\ \A e \in Collection : SameBooking(e)
        /\ \A e \in Collection : e # txn[t].coll => collection'[e] = collection[e]
        /\ collection[txn[t].coll].status # "cancelled"
        /\ collection'[txn[t].coll].status = st
    BY StatusOnly
  <2> QED
    BY <1>1, <2>1 DEF SameBooking
<1>3. \A u \in Txn : txn'[u] \in {txn[u], Idle}
  BY CloseTxn
<1>4. Quiet(d)'
  BY <1>2, <1>3, DayTypes, IdleRow DEF Quiet
<1>5. OnDay(d)' = OnDay(d)
  <2>1. CASE st = "cancelled"
    <3>1. collection[c].day > d /\ collection[c].day \in Nat /\ d \in Nat
      BY <1>1, <2>1, DayTypes DEF Quiet
    <3>2. collection[c].day \notin 1..d /\ collection'[c].day \notin 1..d
      BY <1>2, <3>1
    <3> QED
      BY <1>2, <3>2 DEF OnDay
  <2>2. CASE st # "cancelled"
    BY <1>2, <2>2 DEF OnDay
  <2> QED
    BY <2>1, <2>2
<1> QED
  BY <1>4, <1>5

LEMMA ReversalDay ==
  ASSUME LedgerInv, NEW d \in closed, NEW t \in Txn, Reversal(t)
  PROVE  DayKept(d)
<1>1. ASSUME NEW c \in Collection, CancelBegins(t, c) PROVE DayKept(d)
  <2>1. /\ txn'[t] = Cancelling(c) /\ \A u \in Txn : u # t => txn'[u] = txn[u]
        /\ UNCHANGED collection /\ ~Locked(collection[c].day)
    BY <1>1, Types DEF CancelBegins, Open, Cancelling, ledgerRows
  <2>2. collection[c].day > d
    BY <2>1, DayTypes DEF Locked
  <2> QED
    BY <2>1, <2>2, CancellingRow DEF DayKept, Quiet, OnDay
<1>2. CASE CancelLocks(t)
  <2> DEFINE x == txn[t]
             i == collection[x.coll].inv
             a == IF collection[x.coll].status = "completed" THEN collection[x.coll].amt ELSE 0
             y == Reversing(x, a, i, invoice[i].due)
  <2>1. txn' = [txn EXCEPT ![t] = y] /\ UNCHANGED collection /\ x.pc = "cancelling"
    BY <1>2 DEF CancelLocks, Reversing, ledgerRows
  <2>2. x \in TxnRow
    BY Knows
  <2>3. y.pc = "reversing" /\ y.coll = x.coll
    BY <2>2 DEF Reversing, TxnRow
  <2> HIDE DEF y
  <2>4. txn'[t] = y /\ \A u \in Txn : u # t => txn'[u] = txn[u]
    BY <2>1, Types
  <2> QED
    BY <2>1, <2>3, <2>4 DEF DayKept, Quiet, OnDay
<1>3. CASE CancelCommits(t)
  <2>1. /\ txn[t].pc = "reversing" /\ txn[t].pc \in Locking /\ Close(t)
        /\ collection' = [collection EXCEPT ![txn[t].coll].status = "cancelled"]
    BY <1>3 DEF CancelCommits, Locking
  <2> QED
    BY <2>1, StatusDay
<1>4. CASE ApproveCommits(t)
  <2>1. PICK st \in {"refunded", "partially_refunded"} :
          collection' = [collection EXCEPT ![txn[t].coll].status = st]
    BY <1>4, Zenon DEF ApproveCommits
  <2>2. txn[t].pc \in Locking /\ Close(t)
    BY <1>4 DEF ApproveCommits, Locking
  <2> QED
    BY <2>1, <2>2, StatusDay
<1>5. ASSUME NEW c \in Collection, NEW a \in Nat, RequestChecks(t, c, a) PROVE DayKept(d)
  <2>1. txn'[t] = Requesting(c, a) /\ \A u \in Txn : u # t => txn'[u] = txn[u]
    BY <1>5, Types DEF RequestChecks, Open, Requesting
  <2>2. UNCHANGED collection
    BY <1>5 DEF RequestChecks, ledgerRows
  <2>3. Requesting(c, a).pc = "requesting"
    BY RequestingRow
  <2> QED
    BY <2>1, <2>2, <2>3, DayStays
<1>6. ASSUME NEW r \in Refund, RequestCommits(t, r) PROVE DayKept(d)
  <2>1. UNCHANGED collection /\ \A u \in Txn : txn'[u] \in {txn[u], Idle}
    BY <1>6, CloseTxn DEF RequestCommits
  <2> QED
    BY <2>1, IdleRow, DayStays
<1>7. ASSUME NEW r \in Refund, ApproveBegins(t, r) PROVE DayKept(d)
  <2> DEFINE x == Approving(r, refund[r].coll, refund[r].amt)
  <2>1. x.pc = "approving"
    BY DEF Approving, Idle
  <2>2. txn' = [txn EXCEPT ![t] = x] /\ UNCHANGED collection
    BY <1>7 DEF ApproveBegins, Open, Approving, ledgerRows
  <2> HIDE DEF x
  <2>3. txn'[t] = x /\ \A u \in Txn : u # t => txn'[u] = txn[u]
    BY <2>2, Types
  <2> QED
    BY <2>1, <2>2, <2>3, DayStays
<1>8. CASE ApproveLocks(t)
  <2> DEFINE x == txn[t]
             i == collection[x.coll].inv
             y == Paying(x, i, invoice[i].due)
  <2>1. txn' = [txn EXCEPT ![t] = y] /\ UNCHANGED collection
    BY <1>8 DEF ApproveLocks, ClaimRefund, Paying, ledgerRows
  <2>2. x \in TxnRow
    BY Knows
  <2>3. y.pc = "paying"
    BY <2>2 DEF Paying, TxnRow
  <2> HIDE DEF y
  <2>4. txn'[t] = y /\ \A u \in Txn : u # t => txn'[u] = txn[u]
    BY <2>1, Types
  <2> QED
    BY <2>1, <2>3, <2>4, DayStays
<1>9. \A a \in 1..Billed : a \in Nat
  BY SMTT(30), NumberTypes
<1> QED
  BY <1>1, <1>2, <1>3, <1>4, <1>5, <1>6, <1>7, <1>8, <1>9 DEF Reversal

LEMMA BillingDay == ASSUME LedgerInv, NEW d \in closed, Billing PROVE DayKept(d)
<1>1. UNCHANGED collection
  BY DEF Billing, AccrueReads, AccrueCommits, WaiveLateFee, CancelInvoice, ProposeReduction,
     ApproveReduction, RejectReduction, ReverseReduction, GiveBack, ledgerRows
<1>2. ASSUME NEW t \in Txn, NEW i \in Invoice, AccrueReads(t, i) PROVE DayKept(d)
  <2>1. txn'[t] = Accruing(i) /\ \A u \in Txn : u # t => txn'[u] = txn[u]
    BY <1>2, Types DEF AccrueReads, Open, Accruing
  <2> QED
    BY <1>1, <2>1, AccruingRow, DayStays
<1>3. ASSUME txn' = txn \/ \E t \in Txn : Close(t) PROVE DayKept(d)
  BY <1>1, <1>3, CloseTxn, IdleRow, DayStays
<1> QED
  BY ZenonT(30), <1>2, <1>3 DEF Billing, AccrueCommits, WaiveLateFee, CancelInvoice, ProposeReduction,
     ApproveReduction, RejectReduction, ReverseReduction, GiveBack

LEMMA DayStep ==
  ASSUME LedgerInv, Undated, [LedgerNext]_ledgerVars
  PROVE  \A d \in closed : DayKept(d)
<1> TAKE d \in closed
<1>1. ASSUME NEW t \in Txn, NEW i \in Invoice, NEW k \in Key, NEW a \in 1..(Billed + LateFee),
             NEW e \in Day, CollectLocks(t, i, a, k, e)
      PROVE  DayKept(d)
  <2> DEFINE x == Collecting("desk", i, a, k, e, invoice[i].due)
  <2>1. txn' = [txn EXCEPT ![t] = x] /\ UNCHANGED collection /\ ~Locked(e)
    BY <1>1 DEF CollectLocks, StartCollecting, Collectible, Open, Collecting, ledgerRows
  <2>2. x.pc = "collecting" /\ x.day = e
    BY DEF Collecting, Idle
  <2> HIDE DEF x
  <2>3. e > d
    BY <2>1, DayTypes, LedgerAssumption DEF Locked
  <2>4. txn'[t] = x /\ \A u \in Txn : u # t => txn'[u] = txn[u]
    BY <2>1, Types
  <2> QED
    BY <2>1, <2>2, <2>3, <2>4 DEF DayKept, Quiet, OnDay
<1>2. ASSUME NEW t \in Txn, NEW c \in Collection, CollectCommits(t, c) PROVE DayKept(d)
  BY <1>2, BookDay DEF CollectCommits
<1>3. ASSUME UNCHANGED collection, txn' = txn \/ \E t \in Txn : Close(t) PROVE DayKept(d)
  BY <1>3, CloseTxn, IdleRow, DayStays
<1>4. CASE \/ \E t \in Txn : Rollback(t)
           \/ \E r \in Refund : RejectRefund(r)
           \/ \E e \in Day : CloseDay(e) \/ ReopenDay(e)
           \/ UNCHANGED ledgerVars
  BY <1>3, <1>4 DEF Rollback, RejectRefund, CloseDay, ReopenDay, ledgerVars, ledgerRows
<1> QED
  BY <1>1, <1>2, <1>4, ReversalDay, BillingDay DEF LedgerNext

\* Once the transactions that overlapped its close have ended, the collections
\* of a closed day neither grow nor shrink until it is reopened.
THEOREM ClosedDayStays == LedgerSpec => ClosedDayKept
<1>1. LedgerInit => Undated
  BY DEF LedgerInit, Undated, NoCollection
<1>2. LedgerInv /\ Undated /\ [LedgerNext]_ledgerVars => Undated'
  BY UndatedStep
<1>3. LedgerInv /\ Undated /\ [LedgerNext]_ledgerVars =>
        [\A d \in closed \cap closed' : Quiet(d) => (Quiet(d)' /\ OnDay(d)' = OnDay(d))]_ledgerVars
  BY DayStep DEF DayKept
<1> QED
  BY <1>1, <1>2, <1>3, LedgerInvariant, PTL DEF LedgerSpec, ClosedDayKept
=============================================================================
