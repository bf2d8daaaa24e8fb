------------------------ MODULE PaymentCapture_proofs ------------------------
(***************************************************************************)
(* Proofs about PaymentCapture, for any number of payments, instruments,   *)
(* invoices and transactions: a payment that the app confirms and webhooks *)
(* report is booked once, and nothing is booked for a returned instrument. *)
(*                                                                         *)
(* The ledger below keeps its own invariant (FeeLedger_proofs).  What is   *)
(* added is whom an open transaction posts for, and that a confirmation    *)
(* which has locked its intent (Owns) is alone with it.                    *)
(***************************************************************************)
EXTENDS PaymentCapture, FeeLedger_proofs

-----------------------------------------------------------------------------
(***************************************************************************)
(* The inductive invariant.                                                *)
(***************************************************************************)
Posts == {"reading", "owning", "collecting"}
Owns(x) == x.via = "confirm" /\ x.pc \in {"owning", "collecting"}

TxnFits(x) ==
    /\ x.pc \in Posts => x.via \in {"desk", "confirm", "webhook", "bank"}
    /\ x.pc = "owning" => x.via = "confirm"
    /\ (x.pc \in Posts /\ x.via \in {"confirm", "webhook"}) =>
         /\ x.src \in Intent /\ intent[x.src].status # "absent"
         /\ intent[x.src].inv = x.inv /\ intent[x.src].amt = x.amt
    /\ (x.pc \in Posts /\ x.via = "bank") =>
         x.src \in Instrument /\ instrument[x.src].status # "absent"
    /\ (x.pc \in Posts /\ x.via = "desk") => x.src \in Key
    /\ Owns(x) => intent[x.src].status # "captured"

OneOwns ==
    \A t, u \in Txn : (t # u /\ Owns(txn[t]) /\ Owns(txn[u])) => txn[t].src # txn[u].src

IntentFits(p) ==
    /\ intent[p].status # "absent" => intent[p].inv \in Invoice
    /\ intent[p].status = "captured" =>
         LET c == intent[p].coll IN
         /\ c \in PostedFor(p)
         /\ collection[c].amt = intent[p].amt
         /\ collection[c].inv = intent[p].inv
         /\ p \notin disowned => PostedFor(p) = {c}
    /\ (p \notin disowned /\ intent[p].status # "captured") => PostedFor(p) = {}

InstrumentFits(n) ==
    /\ instrument[n].status # "absent" => instrument[n].inv \in Invoice
    /\ instrument[n].status # "reconciled" => PostedFor(n) = {}

\* A row nobody has inserted is for no source.
Blank == \A c \in Collection : collection[c].status = "absent" => collection[c].src = None

IntentRow == PaymentRow({"absent", "initiated", "captured", "failed"})
InstrumentRow == PaymentRow({"absent", "pending", "reconciled", "bounced"})

PaymentsInv ==
    /\ intent \in [Intent -> IntentRow]
    /\ instrument \in [Instrument -> InstrumentRow]
    /\ disowned \subseteq Intent
    /\ \A t \in Txn : TxnFits(txn[t])
    /\ OneOwns
    /\ \A p \in Intent : IntentFits(p)
    /\ \A n \in Instrument : InstrumentFits(n)
    /\ Blank

CaptureInv == LedgerInv /\ PaymentsInv

-----------------------------------------------------------------------------
Reading(via, s, i, a) ==
    [Idle EXCEPT !.pc = "reading", !.via = via, !.src = s, !.inv = i, !.amt = a]
Owning(x) == [x EXCEPT !.pc = "owning"]

LEMMA ReadingRow ==
  ASSUME NEW via \in {"confirm", "webhook", "bank"}, NEW s \in Source, NEW i \in Invoice,
         NEW a \in Nat
  PROVE  LET x == Reading(via, s, i, a) IN
         /\ x \in TxnRow /\ x.pc = "reading" /\ x.via = via /\ x.src = s /\ x.inv = i
         /\ x.amt = a
  BY IdleRow DEF TxnRow, Reading

LEMMA OwningRow ==
  ASSUME NEW x \in TxnRow
  PROVE  /\ Owning(x) \in TxnRow /\ Owning(x).pc = "owning" /\ Owning(x).via = x.via
         /\ Owning(x).src = x.src /\ Owning(x).inv = x.inv /\ Owning(x).amt = x.amt
  BY DEF TxnRow, Owning

\* A payment row whose status changes, and its collection with it.
Settled(r, st, c) == [r EXCEPT !.status = st, !.coll = c]
Marked(r, st) == [r EXCEPT !.status = st]

LEMMA SettledRow ==
  ASSUME NEW S, NEW r \in PaymentRow(S), NEW st \in S, NEW c \in Collection
  PROVE  LET y == Settled(r, st, c) IN
         /\ y \in PaymentRow(S) /\ y.status = st /\ y.coll = c /\ y.inv = r.inv /\ y.amt = r.amt
  BY DEF PaymentRow, Settled

LEMMA MarkedRow ==
  ASSUME NEW S, NEW r \in PaymentRow(S), NEW st \in S
  PROVE  LET y == Marked(r, st) IN
         /\ y \in PaymentRow(S) /\ y.status = st /\ y.inv = r.inv /\ y.amt = r.amt
  BY DEF PaymentRow, Marked

LEMMA Sources ==
  /\ Intent \subseteq Source /\ Instrument \subseteq Source /\ Key \subseteq Source
  /\ None \notin Source
  /\ Intent \cap Instrument = {} /\ Key \cap Intent = {} /\ Key \cap Instrument = {}
  BY LedgerAssumption, CaptureAssumption

\* Idle transactions and those that post nothing.
LEMMA FitsQuietly ==
  ASSUME NEW x, x.pc \notin Posts
  PROVE  TxnFits(x) /\ ~Owns(x)
  BY DEF TxnFits, Owns, Posts

LEMMA IdleQuiet == Idle.pc \notin Posts
  BY DEF Idle, Posts

\* What is posted changes with what is booked.
LEMMA SamePosted ==
  ASSUME \A c \in Collection : SameBooking(c)
  PROVE  /\ \A s : PostedFor(s)' = PostedFor(s)
         /\ Blank => Blank'
  BY DEF SameBooking, PostedFor, Blank

LEMMA BookedFor ==
  ASSUME CaptureInv, NEW t \in Txn, NEW c \in Collection, Book(t, c), NEW p, p = txn[t].src
  PROVE  /\ PostedFor(p)' = PostedFor(p) \cup {c}
         /\ \A s \in Source : c \notin PostedFor(s)
         /\ \A s \in Source : s # p => PostedFor(s)' = PostedFor(s)
         /\ \A e \in Collection : e # c => collection'[e] = collection[e]
         /\ collection'[c].amt = txn[t].amt /\ collection'[c].inv = txn[t].inv
         /\ Blank'
<1>1. /\ txn[t].src \in Source /\ collection[c].status = "absent"
      /\ collection'[c].src = txn[t].src /\ collection'[c].amt = txn[t].amt
      /\ collection'[c].inv = txn[t].inv /\ collection'[c].status = "completed"
      /\ \A e \in Collection : e # c => collection'[e] = collection[e]
  BY Booked DEF CaptureInv
<1>2. collection[c].src \notin Source
  BY <1>1, Sources DEF CaptureInv, PaymentsInv, Blank
<1>3. Blank'
  BY <1>1 DEF CaptureInv, PaymentsInv, Blank
<1>4. PostedFor(p)' = PostedFor(p) \cup {c}
  BY <1>1, <1>2 DEF PostedFor
<1>5. ASSUME NEW s \in Source PROVE c \notin PostedFor(s)
  BY <1>2 DEF PostedFor
<1>6. ASSUME NEW s \in Source, s # p PROVE PostedFor(s)' = PostedFor(s)
  BY <1>1, <1>2, <1>6 DEF PostedFor
<1> QED
  BY <1>1, <1>3, <1>4, <1>5, <1>6

\* The payments when the collections stay or change their status.
LEMMA FitsAlong ==
  ASSUME CaptureInv, \A c \in Collection : SameBooking(c)
  PROVE  /\ \A p \in Intent : (UNCHANGED <<intent, disowned>>) => IntentFits(p)'
         /\ \A n \in Instrument : (UNCHANGED instrument) => InstrumentFits(n)'
<1>1. \A s : PostedFor(s)' = PostedFor(s)
  BY SamePosted
<1>2. \A s : \A c \in PostedFor(s) :
        collection'[c].amt = collection[c].amt /\ collection'[c].inv = collection[c].inv
  BY DEF SameBooking, PostedFor
<1> QED
  BY <1>1, <1>2 DEF CaptureInv, PaymentsInv, IntentFits, InstrumentFits

\* A transaction opens, goes on or ends, and no payment row changes.
LEMMA TxnStep ==
  ASSUME CaptureInv, LedgerInv', NEW t \in Txn, NEW x, txn' = [txn EXCEPT ![t] = x], TxnFits(x),
         Owns(x) => \A u \in Txn : u # t => ~(Owns(txn[u]) /\ txn[u].src = x.src),
         UNCHANGED <<intent, instrument, disowned>>,
         \A c \in Collection : SameBooking(c)
  PROVE  CaptureInv'
<1> USE DEF CaptureInv, PaymentsInv
<1>1. txn'[t] = x /\ \A u \in Txn : u # t => txn'[u] = txn[u]
  BY Types
<1>2. \A u \in Txn : TxnFits(txn[u])'
  BY <1>1 DEF TxnFits
<1>3. OneOwns'
  BY <1>1 DEF OneOwns
<1> QED
  BY <1>2, <1>3, FitsAlong, SamePosted

-----------------------------------------------------------------------------
(***************************************************************************)
(* Every step keeps the invariant.                                         *)
(***************************************************************************)
LEMMA SameBookings == ASSUME UNCHANGED collection PROVE \A c \in Collection : SameBooking(c)
  BY DEF SameBooking

LEMMA CaptureTypes ==
  ASSUME CaptureInv
  PROVE  /\ intent \in [Intent -> IntentRow] /\ instrument \in [Instrument -> InstrumentRow]
         /\ \A t \in Txn : txn[t] \in TxnRow /\ Fits(txn[t]) /\ TxnFits(txn[t])
         /\ \A p \in Intent : IntentFits(p)
         /\ \A n \in Instrument : InstrumentFits(n)
  BY Knows DEF CaptureInv, PaymentsInv

\* A handler reads a payment row.
LEMMA ReadGood ==
  ASSUME CaptureInv, NEW t \in Txn, NEW via \in {"confirm", "webhook", "bank"}, NEW s \in Source,
         NEW row, row.inv \in Invoice, row.amt \in Nat, Read(t, via, s, row),
         via = "bank" => s \in Instrument /\ instrument[s].status # "absent",
         via # "bank" => s \in Intent /\ intent[s].status # "absent" /\ intent[s] = row
  PROVE  CaptureInv'
<1> DEFINE x == Reading(via, s, row.inv, row.amt)
<1>1. txn' = [txn EXCEPT ![t] = x] /\ UNCHANGED <<ledgerRows, intent, instrument, disowned>>
  BY DEF Read, Open, Reading
<1>2. /\ x \in TxnRow /\ x.pc = "reading" /\ x.via = via /\ x.src = s /\ x.inv = row.inv
      /\ x.amt = row.amt
  BY ReadingRow
<1> HIDE DEF x
<1>3. Fits(x) /\ x.pc \notin Locking
  BY <1>2 DEF Fits, Locking
<1>4. LedgerInv'
  BY <1>1, <1>2, <1>3, OpenStep DEF CaptureInv
<1>5. TxnFits(x) /\ ~Owns(x)
  BY <1>2 DEF TxnFits, Owns, Posts
<1>6. \A c \in Collection : SameBooking(c)
  BY <1>1, SameBookings DEF ledgerRows
<1> QED
  BY <1>1, <1>4, <1>5, <1>6, TxnStep

LEMMA ConfirmReadsGood ==
  ASSUME CaptureInv, NEW t \in Txn, NEW p \in Intent, ConfirmReads(t, p) \/ WebhookReads(t, p)
  PROVE  CaptureInv'
<1>1. intent[p].status # "absent" /\ intent[p].inv \in Invoice
  BY CaptureTypes DEF ConfirmReads, WebhookReads, IntentFits
<1>2. intent[p].amt \in Nat /\ p \in Source
  BY CaptureTypes, Sources DEF IntentRow, PaymentRow
<1> QED
  BY <1>1, <1>2, ReadGood DEF ConfirmReads, WebhookReads

LEMMA ReconcileReadsGood ==
  ASSUME CaptureInv, NEW t \in Txn, NEW n \in Instrument, ReconcileReads(t, n)
  PROVE  CaptureInv'
<1>1. instrument[n].inv \in Invoice /\ instrument[n].status # "absent"
  BY CaptureTypes DEF ReconcileReads, InstrumentFits
<1>2. instrument[n].amt \in Nat /\ n \in Source
  BY CaptureTypes, Sources DEF InstrumentRow, PaymentRow
<1> QED
  BY <1>1, <1>2, ReadGood DEF ReconcileReads

LEMMA ConfirmLocksGood ==
  ASSUME CaptureInv, NEW t \in Txn, ConfirmLocks(t)
  PROVE  CaptureInv'
<1> DEFINE x == Owning(txn[t])
<1>1. /\ txn' = [txn EXCEPT ![t] = x] /\ UNCHANGED <<ledgerRows, intent, instrument, disowned>>
      /\ txn[t].pc = "reading" /\ txn[t].via = "confirm" /\ ~IntentHeld(txn[t].src)
      /\ intent[txn[t].src].status # "captured"
  BY DEF ConfirmLocks, Owning
<1>2. txn[t] \in TxnRow /\ Fits(txn[t]) /\ TxnFits(txn[t])
  BY CaptureTypes
<1>3. /\ x \in TxnRow /\ x.pc = "owning" /\ x.via = "confirm" /\ x.src = txn[t].src
      /\ x.inv = txn[t].inv /\ x.amt = txn[t].amt
  BY <1>1, <1>2, OwningRow
<1> HIDE DEF x
<1>4. Fits(x) /\ x.pc \notin Locking
  BY <1>1, <1>2, <1>3 DEF Fits, Locking
<1>5. LedgerInv'
  BY <1>1, <1>3, <1>4, OpenStep DEF CaptureInv
<1>6. TxnFits(x)
  BY <1>1, <1>2, <1>3 DEF TxnFits, Owns, Posts
<1>7. \A u \in Txn : ~(Owns(txn[u]) /\ txn[u].src = x.src)
  BY <1>1, <1>3 DEF IntentHeld, Owns
<1>8. \A c \in Collection : SameBooking(c)
  BY <1>1, SameBookings DEF ledgerRows
<1> QED
  BY <1>1, <1>5, <1>6, <1>7, <1>8, TxnStep

\* A handler has read a payment row and enters createCollection.
LEMMA StartPostingGood ==
  ASSUME CaptureInv, NEW t \in Txn, StartPosting(t),
         \/ txn[t].pc = "owning"
         \/ txn[t].pc = "reading" /\ txn[t].via \in {"webhook", "bank"}
  PROVE  CaptureInv'
<1> DEFINE old == txn[t]
<1>1. PICK d \in Day : StartCollecting(t, old.via, old.inv, old.amt, old.src, d)
  BY DEF StartPosting
<1>2. UNCHANGED <<ledgerRows, intent, instrument, disowned>>
  BY DEF StartPosting
<1>3. old \in TxnRow /\ Fits(old) /\ TxnFits(old) /\ old.pc \in Posts
  BY CaptureTypes DEF Posts
<1>4. old.inv \in Invoice /\ old.src \in Source /\ old.amt \in Nat
      /\ old.via \in {"desk", "confirm", "webhook", "bank"}
  BY <1>3 DEF Fits, TxnFits, TxnRow, Posts
<1>5. LedgerInv'
  BY <1>1, <1>2, <1>4, StartCollectingGood DEF CaptureInv
<1> DEFINE x == Collecting(old.via, old.inv, old.amt, old.src, d, invoice[old.inv].due)
<1>6. txn' = [txn EXCEPT ![t] = x]
  BY <1>1 DEF StartCollecting, Open, Collecting
<1>7. /\ x.pc = "collecting" /\ x.via = old.via /\ x.inv = old.inv /\ x.src = old.src
      /\ x.amt = old.amt
  BY DEF Collecting, Idle
<1> HIDE DEF x
<1>8. TxnFits(x)
  BY <1>3, <1>7 DEF TxnFits, Owns, Posts
<1>9. Owns(x) => \A u \in Txn : u # t => ~(Owns(txn[u]) /\ txn[u].src = x.src)
  <2>1. ASSUME Owns(x) PROVE Owns(old)
    BY <2>1, <1>7 DEF Owns
  <2> QED
    BY <2>1, <1>7 DEF CaptureInv, PaymentsInv, OneOwns
<1>10. \A c \in Collection : SameBooking(c)
  BY <1>2, SameBookings DEF ledgerRows
<1> QED
  BY <1>2, <1>5, <1>6, <1>8, <1>9, <1>10, TxnStep

\* The transactions after t has ended, when an intent row has changed.
LEMMA OthersFit ==
  ASSUME CaptureInv, NEW p \in Intent, intent[p].status # "absent",
         NEW row, row.status # "absent", row.inv = intent[p].inv, row.amt = intent[p].amt,
         intent' = [intent EXCEPT ![p] = row],
         txn' = [u \in Txn |-> txn'[u]], \A u \in Txn : txn'[u] \in {txn[u], Idle},
         row.status = "captured" => \A u \in Txn : ~(Owns(txn'[u]) /\ txn'[u].src = p),
         instrument' = instrument
  PROVE  (\A u \in Txn : TxnFits(txn[u])') /\ OneOwns'
<1>1. \A q \in Intent : intent'[q] = IF q = p THEN row ELSE intent[q]
  BY CaptureTypes
<1>2. ASSUME NEW u \in Txn PROVE TxnFits(txn[u])'
  <2>1. CASE txn'[u] = Idle
    BY <2>1, IdleQuiet DEF TxnFits, Owns, Posts
  <2>2. CASE txn'[u] = txn[u]
    BY <1>1, <2>2, CaptureTypes DEF TxnFits, Owns, Posts
  <2> QED
    BY <2>1, <2>2
<1>3. OneOwns'
  BY IdleQuiet DEF CaptureInv, PaymentsInv, OneOwns, Owns, Posts
<1> QED
  BY <1>2, <1>3

\* The same when none has.
LEMMA RestFits ==
  ASSUME CaptureInv, intent' = intent,
         \A n \in Instrument : instrument[n].status # "absent" => instrument'[n].status # "absent",
         \A u \in Txn : txn'[u] \in {txn[u], Idle}
  PROVE  (\A u \in Txn : TxnFits(txn[u])') /\ OneOwns'
<1>1. ASSUME NEW u \in Txn PROVE TxnFits(txn[u])'
  <2>1. CASE txn'[u] = Idle
    BY <2>1, IdleQuiet DEF TxnFits, Owns, Posts
  <2>2. CASE txn'[u] = txn[u]
    BY <2>2, CaptureTypes DEF TxnFits, Owns, Posts
  <2> QED
    BY <2>1, <2>2
<1>2. OneOwns'
  BY IdleQuiet DEF CaptureInv, PaymentsInv, OneOwns, Owns, Posts
<1> QED
  BY <1>1, <1>2

\* confirmPayment and the webhook book and capture.
LEMMA CaptureGood ==
  ASSUME CaptureInv, NEW t \in Txn, NEW c \in Collection, Capture(t, c),
         txn[t].via \in {"confirm", "webhook"},
         txn[t].via = "webhook" => ~IntentHeld(txn[t].src) /\ intent[txn[t].src].status # "captured"
  PROVE  CaptureInv'
<1>0. PICK p : p = txn[t].src
  OBVIOUS
<1> DEFINE row == Settled(intent[p], "captured", c)
<1>1. Book(t, c) /\ Close(t) /\ UNCHANGED <<instrument, disowned>> /\ txn[t].pc = "collecting"
  BY DEF Capture, Book
<1>2. intent' = [intent EXCEPT ![p] = row]
  BY <1>0 DEF Capture, Settled
<1>3. txn[t] \in TxnRow /\ TxnFits(txn[t])
  BY CaptureTypes
<1>4. /\ p \in Intent /\ intent[p].status \notin {"absent", "captured"}
      /\ intent[p].inv = txn[t].inv /\ intent[p].amt = txn[t].amt
  BY <1>0, <1>1, <1>3 DEF TxnFits, Owns, Posts
<1>5. row \in IntentRow /\ row.status = "captured" /\ row.coll = c
      /\ row.inv = intent[p].inv /\ row.amt = intent[p].amt
  <2>1. intent[p] \in IntentRow
    BY <1>4, CaptureTypes
  <2> QED
    BY <2>1, SettledRow DEF IntentRow
<1>6. LedgerInv'
  BY <1>1, BookGood DEF CaptureInv
<1>7. /\ PostedFor(p)' = PostedFor(p) \cup {c}
      /\ \A s \in Source : c \notin PostedFor(s)
      /\ \A s \in Source : s # p => PostedFor(s)' = PostedFor(s)
      /\ \A e \in Collection : e # c => collection'[e] = collection[e]
      /\ collection'[c].amt = txn[t].amt /\ collection'[c].inv = txn[t].inv
      /\ Blank'
  BY <1>0, <1>1, BookedFor
<1>8. ASSUME NEW u \in Txn PROVE ~(Owns(txn'[u]) /\ txn'[u].src = p)
  <2>1. CASE u = t
    BY <1>1, <2>1, IdleQuiet, Types DEF Close, CaptureInv, Owns, Posts
  <2>2. CASE u # t
    <3>1. txn'[u] = txn[u]
      BY <1>1, <2>2, Types DEF Close, CaptureInv
    <3>2. CASE txn[t].via = "webhook"
      BY <1>0, <3>1, <3>2 DEF IntentHeld, Owns
    <3>3. CASE txn[t].via = "confirm"
      BY <1>0, <1>1, <2>2, <3>1, <3>3 DEF CaptureInv, PaymentsInv, OneOwns, Owns
    <3> QED
      BY <3>2, <3>3
  <2> QED
    BY <2>1, <2>2
<1> HIDE DEF row
<1>9. (\A u \in Txn : TxnFits(txn[u])') /\ OneOwns'
  <2>1. txn' = [u \in Txn |-> txn'[u]] /\ \A u \in Txn : txn'[u] \in {txn[u], Idle}
    BY <1>1, CloseTxn DEF CaptureInv
  <2> QED
    BY <1>1, <1>2, <1>4, <1>5, <1>8, <2>1, OthersFit
<1>10. \A q \in Intent : intent'[q] = IF q = p THEN row ELSE intent[q]
  BY <1>2, CaptureTypes
<1>11. ASSUME NEW q \in Intent PROVE IntentFits(q)'
  <2>1. CASE q = p
    <3>1. IntentFits(p)
      BY <1>4, CaptureTypes
    <3>2. p \notin disowned => PostedFor(p) = {}
      BY <1>4, <3>1 DEF IntentFits
    <3>3. intent[p].inv \in Invoice
      BY <1>4, <3>1 DEF IntentFits
    <3>4. intent'[p] = row /\ disowned' = disowned
      BY <1>1, <1>4, <1>10
    <3> QED
      BY <1>4, <1>5, <1>7, <2>1, <3>2, <3>3, <3>4 DEF IntentFits
  <2>2. CASE q # p
    <3>1. intent'[q] = intent[q] /\ PostedFor(q)' = PostedFor(q) /\ disowned' = disowned
      BY <1>1, <1>7, <1>10, <2>2, Sources
    <3>2. IntentFits(q) /\ q \in Source
      BY CaptureTypes, Sources
    <3>3. c \notin PostedFor(q)
      BY <1>7, <3>2
    <3> QED
      BY <1>7, <3>1, <3>2, <3>3 DEF IntentFits, PostedFor
  <2> QED
    BY <2>1, <2>2
<1>12. ASSUME NEW n \in Instrument PROVE InstrumentFits(n)'
  <2>1. n # p /\ n \in Source
    BY <1>4, Sources
  <2> QED
    BY <1>1, <1>7, <2>1, CaptureTypes DEF InstrumentFits
<1>13. intent' \in [Intent -> IntentRow] /\ instrument' = instrument /\ disowned' = disowned
  <2> QED
    BY <1>1, <1>2, <1>4, <1>5, CaptureTypes
<1> QED
  BY <1>6, <1>7, <1>9, <1>11, <1>12, <1>13 DEF CaptureInv, PaymentsInv

\* An instrument is reconciled.
LEMMA ReconcileGood ==
  ASSUME CaptureInv, NEW t \in Txn, NEW c \in Collection, ReconcileCommits(t, c)
  PROVE  CaptureInv'
<1>0. PICK n : n = txn[t].src
  OBVIOUS
<1> DEFINE row == Settled(instrument[n], "reconciled", c)
<1>1. /\ Book(t, c) /\ Close(t) /\ UNCHANGED <<intent, disowned>>
      /\ txn[t].pc = "collecting" /\ txn[t].via = "bank"
  BY DEF ReconcileCommits, Book
<1>2. instrument' = [instrument EXCEPT ![n] = row]
  BY <1>0 DEF ReconcileCommits, Settled
<1>3. n \in Instrument /\ instrument[n].status # "absent"
  BY <1>0, <1>1, CaptureTypes DEF TxnFits, Posts
<1>4. PostedFor(n)' = PostedFor(n) \cup {c}
      /\ (\A s \in Source : c \notin PostedFor(s))
      /\ (\A s \in Source : s # n => PostedFor(s)' = PostedFor(s))
      /\ (\A e \in Collection : e # c => collection'[e] = collection[e])
      /\ Blank'
  BY <1>0, <1>1, BookedFor
<1>5. /\ row \in InstrumentRow /\ row.status = "reconciled" /\ row.coll = c
      /\ row.inv = instrument[n].inv /\ row.amt = instrument[n].amt
  <2>1. instrument[n] \in InstrumentRow
    BY <1>3, CaptureTypes
  <2> QED
    BY <2>1, SettledRow DEF InstrumentRow
<1> HIDE DEF row
<1>6. LedgerInv'
  BY <1>1, BookGood DEF CaptureInv
<1>8. \A m \in Instrument : instrument'[m] = IF m = n THEN row ELSE instrument[m]
  BY <1>2, CaptureTypes
<1>7. (\A u \in Txn : TxnFits(txn[u])') /\ OneOwns'
  <2>1. \A u \in Txn : txn'[u] \in {txn[u], Idle}
    BY <1>1, CloseTxn DEF CaptureInv
  <2> QED
    BY <1>1, <1>5, <1>8, <2>1, RestFits
<1>9. ASSUME NEW m \in Instrument PROVE InstrumentFits(m)'
  <2>1. CASE m = n
    <3>1. instrument[n].inv \in Invoice
      BY <1>3, CaptureTypes DEF InstrumentFits
    <3> QED
      BY <1>3, <1>5, <1>8, <2>1, <3>1 DEF InstrumentFits
  <2>2. CASE m # n
    BY <1>4, <1>8, <2>2, CaptureTypes, Sources DEF InstrumentFits
  <2> QED
    BY <2>1, <2>2
<1>10. ASSUME NEW q \in Intent PROVE IntentFits(q)'
  <2>1. q # n /\ q \in Source
    BY <1>3, Sources
  <2>2. PostedFor(q)' = PostedFor(q) /\ c \notin PostedFor(q) /\ intent' = intent
        /\ disowned' = disowned
    BY <1>1, <1>4, <2>1
  <2> QED
    BY <1>4, <2>2, CaptureTypes DEF IntentFits, PostedFor
<1>11. instrument' \in [Instrument -> InstrumentRow]
  BY <1>2, <1>3, <1>5, CaptureTypes
<1> QED
  BY <1>1, <1>4, <1>6, <1>7, <1>9, <1>10, <1>11 DEF CaptureInv, PaymentsInv

\* Steps that change one payment row and nothing of the ledger.
LEMMA LedgerStays ==
  ASSUME CaptureInv, UNCHANGED ledgerVars
  PROVE  LedgerInv' /\ Blank' /\ (\A s : PostedFor(s)' = PostedFor(s))
         /\ \A c \in Collection : SameBooking(c)
<1>1. LedgerInv'
  BY StutterGood DEF CaptureInv
<1>2. \A c \in Collection : SameBooking(c)
  BY SameBookings DEF ledgerVars, ledgerRows
<1> QED
  BY <1>1, <1>2, SamePosted DEF CaptureInv, PaymentsInv

LEMMA InitiateGood ==
  ASSUME CaptureInv, NEW p \in Intent, NEW i \in Invoice, NEW a \in Nat, Initiate(p, i, a)
  PROVE  CaptureInv'
<1> DEFINE row == [status |-> "initiated", inv |-> i, amt |-> a, coll |-> None]
<1>1. intent[p].status = "absent" /\ intent' = [intent EXCEPT ![p] = row]
      /\ UNCHANGED <<ledgerVars, instrument, disowned>>
  BY DEF Initiate
<1>2. row \in IntentRow /\ row.status = "initiated" /\ row.inv = i
  BY DEF IntentRow, PaymentRow
<1> HIDE DEF row
<1>3. \A q \in Intent : intent'[q] = IF q = p THEN row ELSE intent[q]
  BY <1>1, CaptureTypes
<1>4. LedgerInv' /\ Blank' /\ \A s : PostedFor(s)' = PostedFor(s)
  BY <1>1, LedgerStays
<1>5. txn' = txn /\ collection' = collection
  BY <1>1 DEF ledgerVars, ledgerRows
<1>6. ASSUME NEW u \in Txn PROVE TxnFits(txn[u])'
  BY <1>1, <1>2, <1>3, <1>5, CaptureTypes DEF TxnFits, Owns, Posts
<1>7. OneOwns'
  BY <1>5 DEF CaptureInv, PaymentsInv, OneOwns
<1>8. ASSUME NEW q \in Intent PROVE IntentFits(q)'
  BY <1>1, <1>2, <1>3, <1>4, <1>5, CaptureTypes DEF IntentFits
<1>9. ASSUME NEW n \in Instrument PROVE InstrumentFits(n)'
  BY <1>1, <1>4, CaptureTypes DEF InstrumentFits
<1>10. intent' \in [Intent -> IntentRow]
  BY <1>1, <1>2, CaptureTypes
<1> QED
  BY <1>1, <1>4, <1>6, <1>7, <1>8, <1>9, <1>10 DEF CaptureInv, PaymentsInv

LEMMA WebhookFailsGood ==
  ASSUME CaptureInv, NEW p \in Intent, WebhookFails(p)
  PROVE  CaptureInv'
<1> DEFINE row == Marked(intent[p], "failed")
<1>1. intent[p].status # "absent" /\ intent' = [intent EXCEPT ![p] = row]
      /\ disowned' = disowned \cup {p} /\ UNCHANGED <<ledgerVars, instrument>>
  BY DEF WebhookFails, Marked
<1>2. row \in IntentRow /\ row.status = "failed" /\ row.inv = intent[p].inv
      /\ row.amt = intent[p].amt
  <2>1. intent[p] \in IntentRow
    BY CaptureTypes
  <2> QED
    BY <2>1, MarkedRow DEF IntentRow
<1> HIDE DEF row
<1>3. \A q \in Intent : intent'[q] = IF q = p THEN row ELSE intent[q]
  BY <1>1, CaptureTypes
<1>4. LedgerInv' /\ Blank' /\ \A s : PostedFor(s)' = PostedFor(s)
  BY <1>1, LedgerStays
<1>5. txn' = txn /\ collection' = collection
  BY <1>1 DEF ledgerVars, ledgerRows
<1>6. (\A u \in Txn : TxnFits(txn[u])') /\ OneOwns'
  <2>1. txn' = [u \in Txn |-> txn'[u]] /\ \A u \in Txn : txn'[u] \in {txn[u], Idle}
    BY <1>5, Types DEF CaptureInv
  <2> QED
    BY <1>1, <1>2, <2>1, OthersFit
<1>7. ASSUME NEW q \in Intent PROVE IntentFits(q)'
  BY <1>1, <1>2, <1>3, <1>4, <1>5, CaptureTypes DEF IntentFits
<1>8. ASSUME NEW n \in Instrument PROVE InstrumentFits(n)'
  BY <1>1, <1>4, CaptureTypes DEF InstrumentFits
<1>9. intent' \in [Intent -> IntentRow] /\ disowned' \subseteq Intent
  BY <1>1, <1>2, CaptureTypes DEF CaptureInv, PaymentsInv
<1> QED
  BY <1>1, <1>4, <1>6, <1>7, <1>8, <1>9 DEF CaptureInv, PaymentsInv

LEMMA InstrumentWrite ==
  ASSUME CaptureInv, NEW n \in Instrument, NEW row \in InstrumentRow, row.inv \in Invoice,
         row.status # "absent",
         instrument[n].status # "reconciled", instrument' = [instrument EXCEPT ![n] = row],
         UNCHANGED <<ledgerVars, intent, disowned>>
  PROVE  CaptureInv'
<1>1. \A m \in Instrument : instrument'[m] = IF m = n THEN row ELSE instrument[m]
  BY CaptureTypes
<1>2. LedgerInv' /\ Blank' /\ (\A s : PostedFor(s)' = PostedFor(s))
      /\ \A c \in Collection : SameBooking(c)
  BY LedgerStays
<1>3. (\A u \in Txn : TxnFits(txn[u])') /\ OneOwns'
  BY <1>1, RestFits DEF ledgerVars
<1>4. \A p \in Intent : IntentFits(p)'
  BY <1>2, FitsAlong
<1>5. ASSUME NEW m \in Instrument PROVE InstrumentFits(m)'
  BY <1>1, <1>2, CaptureTypes DEF InstrumentFits
<1>6. instrument' \in [Instrument -> InstrumentRow]
  BY CaptureTypes
<1> QED
  BY <1>2, <1>3, <1>4, <1>5, <1>6 DEF CaptureInv, PaymentsInv

LEMMA RegisterGood ==
  ASSUME CaptureInv, NEW n \in Instrument, NEW i \in Invoice, NEW a \in Nat, Register(n, i, a)
  PROVE  CaptureInv'
<1> DEFINE row == [status |-> "pending", inv |-> i, amt |-> a, coll |-> None]
<1>1. row \in InstrumentRow /\ row.inv \in Invoice /\ row.status # "absent"
  BY DEF InstrumentRow, PaymentRow
<1>2. instrument' = [instrument EXCEPT ![n] = row] /\ instrument[n].status # "reconciled"
      /\ UNCHANGED <<ledgerVars, intent, disowned>>
  BY DEF Register
<1> HIDE DEF row
<1> QED
  BY <1>1, <1>2, InstrumentWrite

LEMMA BounceGood == ASSUME CaptureInv, NEW n \in Instrument, Bounce(n) PROVE CaptureInv'
<1> DEFINE row == Marked(instrument[n], "bounced")
<1>1. instrument[n] \in InstrumentRow /\ instrument[n].inv \in Invoice
  BY CaptureTypes DEF Bounce, InstrumentFits
<1>2. row \in InstrumentRow /\ row.inv \in Invoice /\ row.status # "absent"
  BY <1>1, MarkedRow DEF InstrumentRow
<1>3. instrument' = [instrument EXCEPT ![n] = row] /\ instrument[n].status # "reconciled"
      /\ UNCHANGED <<ledgerVars, intent, disowned>>
  BY DEF Bounce, Marked
<1> HIDE DEF row
<1> QED
  BY <1>2, <1>3, InstrumentWrite

-----------------------------------------------------------------------------
\* The steps of the ledger.  None reads a payment row or locks an intent.
Unposting(x) == x.pc \notin Posts \/ (x.pc = "collecting" /\ x.via = "desk" /\ x.src \in Key)

LEMMA TxnMoves ==
  ASSUME LedgerInv, NEW t \in Txn, NEW x, Unposting(x), txn' = [txn EXCEPT ![t] = x]
  PROVE  \A u \in Txn : txn'[u] = txn[u] \/ Unposting(txn'[u])
  BY Types

LEMMA LedgerTxns ==
  ASSUME LedgerInv, [LedgerNext]_ledgerVars
  PROVE  \A u \in Txn : txn'[u] = txn[u] \/ Unposting(txn'[u])
<1>1. CASE UNCHANGED txn
  BY <1>1
<1>2. ASSUME NEW t \in Txn, Close(t) PROVE \A u \in Txn : txn'[u] = txn[u] \/ Unposting(txn'[u])
  BY <1>2, IdleQuiet, TxnMoves DEF Close, Unposting
<1>3. ASSUME NEW t \in Txn, NEW i \in Invoice, NEW k \in Key, NEW a \in 1..(Billed + LateFee),
             NEW d \in Day, CollectLocks(t, i, a, k, d)
      PROVE  \A u \in Txn : txn'[u] = txn[u] \/ Unposting(txn'[u])
  <2> DEFINE x == Collecting("desk", i, a, k, d, invoice[i].due)
  <2>1. txn' = [txn EXCEPT ![t] = x]
    BY <1>3 DEF CollectLocks, StartCollecting, Open, Collecting
  <2>2. a \in Nat /\ k \in Source /\ invoice[i].due \in Int
    BY LedgerAssumption, InvoiceFields
  <2>3. x.pc = "collecting" /\ x.via = "desk" /\ x.src = k
    BY <2>2, CollectingRow
  <2> HIDE DEF x
  <2> QED
    BY <2>1, <2>3, TxnMoves DEF Unposting
<1>4. ASSUME NEW t \in Txn, NEW c \in Collection, CancelBegins(t, c)
      PROVE  \A u \in Txn : txn'[u] = txn[u] \/ Unposting(txn'[u])
  <2>1. txn' = [txn EXCEPT ![t] = Cancelling(c)]
    BY <1>4 DEF CancelBegins, Open, Cancelling
  <2> QED
    BY <2>1, CancellingRow, TxnMoves DEF Unposting, Posts
<1>5. ASSUME NEW t \in Txn, NEW c \in Collection, NEW a \in 1..Billed, RequestChecks(t, c, a)
      PROVE  \A u \in Txn : txn'[u] = txn[u] \/ Unposting(txn'[u])
  <2>1. txn' = [txn EXCEPT ![t] = Requesting(c, a)] /\ a \in Nat
    BY <1>5 DEF RequestChecks, Open, Requesting
  <2> QED
    BY <2>1, RequestingRow, TxnMoves DEF Unposting, Posts
<1>6. ASSUME NEW t \in Txn, NEW r \in Refund, ApproveBegins(t, r)
      PROVE  \A u \in Txn : txn'[u] = txn[u] \/ Unposting(txn'[u])
  <2>1. txn' = [txn EXCEPT ![t] = Approving(r, refund[r].coll, refund[r].amt)]
    BY <1>6 DEF ApproveBegins, Open, Approving
  <2>2. refund[r].coll \in Collection /\ refund[r].amt \in Nat
    BY <1>6, Types DEF ApproveBegins, RowsFit, RefundRow
  <2> QED
    BY <2>1, <2>2, ApprovingRow, TxnMoves DEF Unposting, Posts
<1>7. ASSUME NEW t \in Txn, NEW i \in Invoice, AccrueReads(t, i)
      PROVE  \A u \in Txn : txn'[u] = txn[u] \/ Unposting(txn'[u])
  <2>1. txn' = [txn EXCEPT ![t] = Accruing(i)]
    BY <1>7 DEF AccrueReads, Open, Accruing
  <2> QED
    BY <2>1, AccruingRow, TxnMoves DEF Unposting, Posts
<1>8. ASSUME NEW t \in Txn, CancelLocks(t)
      PROVE  \A u \in Txn : txn'[u] = txn[u] \/ Unposting(txn'[u])
  <2>1. PICK x : txn' = [txn EXCEPT ![t] = x] /\ x.pc = "reversing"
    <3>1. txn[t] \in TxnRow
      BY Knows
    <3> DEFINE c == txn[t].coll
               x == Reversing(txn[t], IF collection[c].status = "completed"
                                      THEN collection[c].amt ELSE 0,
                              collection[c].inv, invoice[collection[c].inv].due)
    <3>2. txn' = [txn EXCEPT ![t] = x]
      BY <1>8 DEF CancelLocks, Reversing
    <3>3. x.pc = "reversing"
      BY <3>1 DEF Reversing, TxnRow
    <3> HIDE DEF x
    <3> QED
      BY <3>2, <3>3
  <2> QED
    BY <2>1, TxnMoves DEF Unposting, Posts
<1>9. ASSUME NEW t \in Txn, ApproveLocks(t)
      PROVE  \A u \in Txn : txn'[u] = txn[u] \/ Unposting(txn'[u])
  <2>1. PICK x : txn' = [txn EXCEPT ![t] = x] /\ x.pc = "paying"
    <3>1. txn[t] \in TxnRow
      BY Knows
    <3> DEFINE i == collection[txn[t].coll].inv
               x == Paying(txn[t], i, invoice[i].due)
    <3>2. txn' = [txn EXCEPT ![t] = x]
      BY <1>9 DEF ApproveLocks, ClaimRefund, Paying
    <3>3. x.pc = "paying"
      BY <3>1 DEF Paying, TxnRow
    <3> HIDE DEF x
    <3> QED
      BY <3>2, <3>3
  <2> QED
    BY <2>1, TxnMoves DEF Unposting, Posts
<1>10. ASSUME NEW t \in Txn, Reversal(t)
       PROVE  \A u \in Txn : txn'[u] = txn[u] \/ Unposting(txn'[u])
  <2>1. CASE CancelCommits(t) \/ ApproveCommits(t) \/ \E r \in Refund : RequestCommits(t, r)
    BY SMTT(30), <1>2, <2>1 DEF CancelCommits, ApproveCommits, RequestCommits
  <2> QED
    BY <1>4, <1>5, <1>6, <1>8, <1>9, <1>10, <2>1 DEF Reversal
<1>11. CASE Billing
  <2>1. CASE \E t \in Txn : AccrueCommits(t)
    BY <1>2, <2>1 DEF AccrueCommits
  <2>2. CASE \E t \in Txn, i \in Invoice : AccrueReads(t, i)
    BY <1>7, <2>2
  <2> QED
    BY <1>1, <1>11, <2>1, <2>2 DEF Billing, WaiveLateFee, CancelInvoice, ProposeReduction,
       ApproveReduction, RejectReduction, ReverseReduction, GiveBack
<1>12. ASSUME NEW t \in Txn, Rollback(t) \/ \E c \in Collection : CollectCommits(t, c)
       PROVE  \A u \in Txn : txn'[u] = txn[u] \/ Unposting(txn'[u])
  BY <1>2, <1>12 DEF Rollback, CollectCommits, Book
<1>13. CASE \/ \E r \in Refund : RejectRefund(r)
            \/ \E d \in Day : CloseDay(d) \/ ReopenDay(d)
            \/ UNCHANGED ledgerVars
  BY <1>1, <1>13 DEF RejectRefund, CloseDay, ReopenDay, ledgerVars
<1> QED
  BY <1>3, <1>10, <1>11, <1>12, <1>13 DEF LedgerNext

LEMMA LedgerGood ==
  ASSUME CaptureInv, [LedgerNext]_ledgerVars, UNCHANGED <<intent, instrument, disowned>>
  PROVE  CaptureInv'
<1>1. LedgerInv'
  BY StepGood DEF CaptureInv
<1>2. ASSUME NEW u \in Txn PROVE TxnFits(txn[u])' /\ (Owns(txn[u])' => txn'[u] = txn[u])
  <2>1. txn'[u] = txn[u] \/ Unposting(txn'[u])
    BY LedgerTxns DEF CaptureInv
  <2>2. CASE txn'[u] = txn[u]
    BY <2>2, CaptureTypes DEF TxnFits, Owns
  <2>3. CASE Unposting(txn'[u])
    BY <2>3 DEF Unposting, TxnFits, Owns, Posts
  <2> QED
    BY <2>1, <2>2, <2>3
<1>3. OneOwns'
  BY <1>2 DEF CaptureInv, PaymentsInv, OneOwns
<1>4. CASE \A c \in Collection : SameBooking(c)
  BY <1>1, <1>2, <1>3, <1>4, FitsAlong, SamePosted DEF CaptureInv, PaymentsInv
<1>5. ASSUME NEW t \in Txn, NEW c \in Collection, CollectCommits(t, c) PROVE CaptureInv'
  <2>1. PICK k : k = txn[t].src
    OBVIOUS
  <2>2. Book(t, c) /\ txn[t].via = "desk" /\ txn[t].pc = "collecting"
    BY <1>5 DEF CollectCommits, Book
  <2>3. k \in Key
    BY <2>1, <2>2, CaptureTypes DEF TxnFits, Posts
  <2>4. /\ \A s \in Source : c \notin PostedFor(s)
        /\ \A s \in Source : s # k => PostedFor(s)' = PostedFor(s)
        /\ \A e \in Collection : e # c => collection'[e] = collection[e]
        /\ Blank'
    BY <2>1, <2>2, BookedFor
  <2>5. ASSUME NEW p \in Intent PROVE IntentFits(p)'
    <3>1. p \in Source /\ p # k
      BY <2>3, Sources
    <3>2. PostedFor(p)' = PostedFor(p) /\ c \notin PostedFor(p)
      BY <2>4, <3>1
    <3> QED
      BY <2>4, <3>2, CaptureTypes DEF IntentFits, PostedFor
  <2>6. ASSUME NEW n \in Instrument PROVE InstrumentFits(n)'
    <3>1. n \in Source /\ n # k
      BY <2>3, Sources
    <3> QED
      BY <2>4, <3>1, CaptureTypes DEF InstrumentFits
  <2> QED
    BY <1>1, <1>2, <1>3, <2>4, <2>5, <2>6 DEF CaptureInv, PaymentsInv
<1> QED
  BY <1>4, <1>5, BookingStep DEF CaptureInv

-----------------------------------------------------------------------------
LEMMA CaptureInitGood == CaptureInit => CaptureInv
<1> SUFFICES ASSUME CaptureInit PROVE CaptureInv
  OBVIOUS
<1> USE DEF CaptureInit
<1>1. LedgerInv
  BY InitGood
<1>2. (\A t \in Txn : txn[t] = Idle) /\ \A c \in Collection : collection[c] = NoCollection
  BY DEF LedgerInit
<1>3. Blank /\ \A s \in Source : PostedFor(s) = {}
  BY <1>2, LedgerAssumption DEF Blank, NoCollection, PostedFor
<1>4. intent \in [Intent -> IntentRow] /\ instrument \in [Instrument -> InstrumentRow]
  BY DEF NoPayment, IntentRow, InstrumentRow, PaymentRow
<1>5. (\A t \in Txn : TxnFits(txn[t])) /\ OneOwns
  BY <1>2, IdleQuiet, FitsQuietly DEF OneOwns
<1>6. (\A p \in Intent : IntentFits(p)) /\ \A n \in Instrument : InstrumentFits(n)
  BY <1>3, Sources DEF IntentFits, InstrumentFits, NoPayment
<1> QED
  BY <1>1, <1>3, <1>4, <1>5, <1>6 DEF CaptureInv, PaymentsInv

LEMMA CaptureStepGood == ASSUME CaptureInv, CaptureStep PROVE CaptureInv'
<1>1. ASSUME NEW p \in Intent, NEW i \in Invoice, NEW a \in 1..Billed, Initiate(p, i, a)
      PROVE  CaptureInv'
  <2>1. a \in Nat
    OBVIOUS
  <2> QED
    BY <1>1, <2>1, InitiateGood
<1>2. ASSUME NEW t \in Txn, ConfirmCollects(t) \/ WebhookCollects(t) PROVE CaptureInv'
  BY <1>2, StartPostingGood DEF ConfirmCollects, WebhookCollects
<1>3. ASSUME NEW t \in Txn, NEW c \in Collection, ConfirmCommits(t, c) \/ WebhookCommits(t, c)
      PROVE  CaptureInv'
  BY <1>3, CaptureGood DEF ConfirmCommits, WebhookCommits
<1> QED
  BY <1>1, <1>2, <1>3, ConfirmReadsGood, ConfirmLocksGood, WebhookFailsGood DEF CaptureStep

LEMMA InstrumentStepGood == ASSUME CaptureInv, InstrumentStep PROVE CaptureInv'
<1>1. ASSUME NEW n \in Instrument, NEW i \in Invoice, NEW a \in 1..Billed, Register(n, i, a)
      PROVE  CaptureInv'
  <2>1. a \in Nat
    OBVIOUS
  <2> QED
    BY <1>1, <2>1, RegisterGood
<1>2. ASSUME NEW t \in Txn, ReconcileCollects(t) PROVE CaptureInv'
  BY <1>2, StartPostingGood DEF ReconcileCollects
<1> QED
  BY <1>1, <1>2, ReconcileReadsGood, ReconcileGood, BounceGood DEF InstrumentStep

LEMMA AllGood == ASSUME CaptureInv, [CaptureNext]_captureVars PROVE CaptureInv'
<1>1. CASE UNCHANGED captureVars
  BY <1>1, LedgerGood DEF captureVars
<1> QED
  BY <1>1, CaptureStepGood, InstrumentStepGood, LedgerGood DEF CaptureNext

LEMMA CaptureInvariant == CaptureSpec => []CaptureInv
<1>1. CaptureInv /\ [CaptureNext]_captureVars => CaptureInv'
  BY AllGood
<1> QED
  BY CaptureInitGood, <1>1, PTL DEF CaptureSpec

\* Payments, instruments and the ledger have their types.
THEOREM CaptureTypeCorrect == CaptureSpec => []CaptureTypeOK
<1>1. CaptureInv => CaptureTypeOK
  BY DEF CaptureInv, PaymentsInv, LedgerInv, CaptureTypeOK, IntentRow, InstrumentRow
<1> QED
  BY <1>1, CaptureInvariant, PTL

\* A payment that the app confirms and any number of webhooks report is booked
\* once, unless the gateway also reported it as failed.
THEOREM BookedOncePerPayment == CaptureSpec => []CapturedOnce
<1>1. ASSUME CaptureInv PROVE CapturedOnce
  <2>1. ASSUME NEW p \in Intent \ disowned PROVE Cardinality(PostedFor(p)) <= 1
    <3>1. PostedFor(p) = {} \/ \E c \in Collection : PostedFor(p) = {c}
      BY <1>1, <2>1, CaptureTypes DEF IntentFits, PostedFor
    <3> QED
      BY <3>1, FS_EmptySet, FS_Singleton
  <2> QED
    BY <2>1 DEF CapturedOnce
<1> QED
  BY <1>1, CaptureInvariant, PTL

\* A captured intent points at the collection booked for it; one that is not
\* captured, and was never reported as failed, has booked nothing.
THEOREM CapturesAreBooked == CaptureSpec => []CapturedIsBooked
<1>1. CaptureInv => CapturedIsBooked
  BY DEF CaptureInv, PaymentsInv, IntentFits, CapturedIsBooked
<1> QED
  BY <1>1, CaptureInvariant, PTL

\* An instrument the bank returned stays returned, and nothing is booked for it.
Returned(n) ==
    instrument[n].status = "bounced" =>
      /\ instrument'[n].status = "bounced"
      /\ PostedFor(n)' = {}

LEMMA ReturnedStep ==
  ASSUME CaptureInv, CaptureInv', [CaptureNext]_captureVars
  PROVE  \A n \in Instrument : Returned(n)
<1>1. ASSUME NEW n \in Instrument, instrument[n].status = "bounced" =>
                                     instrument'[n].status = "bounced"
      PROVE  Returned(n)
  <2>1. instrument'[n].status = "bounced" => PostedFor(n)' = {}
    BY DEF CaptureInv, PaymentsInv, InstrumentFits
  <2> QED
    BY <1>1, <2>1 DEF Returned
<1>2. CASE UNCHANGED instrument
  BY <1>1, <1>2
<1>3. ASSUME NEW m \in Instrument, instrument[m].status # "bounced",
             NEW row, instrument' = [instrument EXCEPT ![m] = row]
      PROVE  \A n \in Instrument : Returned(n)
  <2>1. \A n \in Instrument : n # m => instrument'[n] = instrument[n]
    BY <1>3
  <2> QED
    BY <1>1, <1>3, <2>1
<1>4. ASSUME NEW t \in Txn, NEW c \in Collection, ReconcileCommits(t, c)
      PROVE  \A n \in Instrument : Returned(n)
  <2>1. txn[t].src \in Instrument
    BY <1>4, CaptureTypes DEF ReconcileCommits, Book, TxnFits, Posts
  <2>2. PICK row : instrument' = [instrument EXCEPT ![txn[t].src] = row]
    BY <1>4 DEF ReconcileCommits
  <2> QED
    BY <1>3, <1>4, <2>1, <2>2 DEF ReconcileCommits
<1>5. ASSUME NEW m \in Instrument, NEW i \in Invoice, NEW a \in 1..Billed, Register(m, i, a)
      PROVE  \A n \in Instrument : Returned(n)
  BY <1>3, <1>5 DEF Register
<1>6. ASSUME NEW m \in Instrument, Bounce(m) PROVE \A n \in Instrument : Returned(n)
  <2>1. PICK row : instrument' = [instrument EXCEPT ![m] = row]
    BY <1>6 DEF Bounce
  <2> QED
    BY <1>3, <1>6, <2>1 DEF Bounce
<1>7. CASE InstrumentStep
  <2>1. ASSUME NEW t \in Txn, (\E n \in Instrument : ReconcileReads(t, n)) \/ ReconcileCollects(t)
        PROVE  UNCHANGED instrument
    BY <2>1 DEF ReconcileReads, Read, ReconcileCollects, StartPosting
  <2> QED
    BY <1>2, <1>4, <1>5, <1>6, <1>7, <2>1 DEF InstrumentStep
<1>8. CASE CaptureStep
  <2>1. UNCHANGED instrument
    BY <1>8 DEF CaptureStep, Initiate, ConfirmReads, WebhookReads, Read, ConfirmLocks,
       ConfirmCollects, WebhookCollects, StartPosting, ConfirmCommits, WebhookCommits, Capture,
       WebhookFails
  <2> QED
    BY SMTT(30), <1>2, <2>1
<1> QED
  BY <1>2, <1>7, <1>8 DEF CaptureNext, captureVars

THEOREM BounceIsFinal == CaptureSpec => BouncedIsFinal
<1>1. CaptureInv /\ CaptureInv' /\ [CaptureNext]_captureVars =>
        [\A n \in Instrument : instrument[n].status = "bounced" =>
          /\ instrument'[n].status = "bounced"
          /\ PostedFor(n)' = {}]_captureVars
  BY ReturnedStep DEF Returned
<1> QED
  BY <1>1, CaptureInvariant, PTL DEF CaptureSpec, BouncedIsFinal

\* Nobody is charged below zero by payments that are not compared with what is
\* outstanding until they are booked.
THEOREM PaymentsNotBelowZero == CaptureSpec => []NeverBelowZero
<1>1. CaptureInv => NeverBelowZero
  BY DEF CaptureInv, LedgerInv
<1> QED
  BY <1>1, CaptureInvariant, PTL

-----------------------------------------------------------------------------
(***************************************************************************)
(* What the ledger promises holds when payments and instruments post to it *)
(* too.  A step of theirs moves the ledger as one of its own does, but for *)
(* a row that is read or locked first and for who may book.                *)
(***************************************************************************)
Before == {"reading", "owning"}

LEMMA LedgerPart ==
  ASSUME CaptureInv, [CaptureNext]_captureVars
  PROVE  \/ [LedgerNext]_ledgerVars
         \/ \E t \in Txn, c \in Collection : Book(t, c)
         \/ \E t \in Txn : \E x : /\ x.pc \in Before
                                  /\ txn' = [txn EXCEPT ![t] = x]
                                  /\ UNCHANGED ledgerRows
         \/ \E t \in Txn : \E d \in Day :
              /\ StartCollecting(t, txn[t].via, txn[t].inv, txn[t].amt, txn[t].src, d)
              /\ UNCHANGED ledgerRows
<1>1. ASSUME NEW t, NEW via, NEW s, NEW row, Read(t, via, s, row)
      PROVE  \E x : x.pc \in Before /\ txn' = [txn EXCEPT ![t] = x] /\ UNCHANGED ledgerRows
  <2> DEFINE x == Reading(via, s, row.inv, row.amt)
  <2>1. x.pc \in Before
    BY DEF Reading, Idle, Before
  <2>2. txn' = [txn EXCEPT ![t] = x] /\ UNCHANGED ledgerRows
    BY <1>1 DEF Read, Open, Reading
  <2> HIDE DEF x
  <2> QED
    BY <2>1, <2>2
<1>2. ASSUME NEW t \in Txn, ConfirmLocks(t)
      PROVE  \E x : x.pc \in Before /\ txn' = [txn EXCEPT ![t] = x] /\ UNCHANGED ledgerRows
  <2> DEFINE x == Owning(txn[t])
  <2>1. x.pc \in Before
    BY OwningRow, CaptureTypes DEF Before
  <2>2. txn' = [txn EXCEPT ![t] = x] /\ UNCHANGED ledgerRows
    BY <1>2 DEF ConfirmLocks, Owning
  <2> HIDE DEF x
  <2> QED
    BY <2>1, <2>2
<1>3. CASE \E t \in Txn : StartPosting(t)
  BY <1>3 DEF StartPosting
<1>4. CASE UNCHANGED ledgerVars
  BY SMTT(30), <1>4
<1>5. CASE CaptureStep
  BY ZenonT(30), <1>1, <1>2, <1>3, <1>4, <1>5 DEF CaptureStep, Initiate, ConfirmReads, WebhookReads,
     ConfirmCollects, WebhookCollects, ConfirmCommits, WebhookCommits, Capture, WebhookFails
<1>6. CASE InstrumentStep
  BY <1>1, <1>3, <1>4, <1>6 DEF InstrumentStep, Register, ReconcileReads, ReconcileCollects,
     ReconcileCommits, Bounce
<1> QED
  BY <1>4, <1>5, <1>6 DEF CaptureNext, captureVars

LEMMA PaymentsMoney ==
  ASSUME CaptureInv, CaptureInv', MoneyInv, [CaptureNext]_captureVars
  PROVE  MoneyInv'
<1> USE DEF CaptureInv
<1>1. CASE \E t \in Txn : \E x : /\ x.pc \in Before
                                 /\ txn' = [txn EXCEPT ![t] = x]
                                 /\ UNCHANGED ledgerRows
  <2>1. \A x : x.pc \in Before => Counts(x)
    BY DEF Before, Counts
  <2> QED
    BY <1>1, <2>1, OpenMoney
<1> QED
  BY <1>1, LedgerPart, MoneyStep, BookMoney, CollectLocksMoney

LEMMA PaymentsKeys ==
  ASSUME CaptureInv, KeyedOnce, [CaptureNext]_captureVars
  PROVE  KeyedOnce'
<1> USE DEF CaptureInv
<1>1. ASSUME NEW t \in Txn, NEW c \in Collection, Book(t, c) PROVE KeyedOnce'
  <2>1. Fresh(txn[t].src)
    BY <1>1 DEF Book
  <2>2. /\ collection'[c].src = txn[t].src
        /\ \A e \in Collection : e # c => collection'[e] = collection[e]
    BY <1>1, Booked
  <2> QED
    BY <2>1, <2>2 DEF KeyedOnce, Fresh
<1>2. CASE \A c \in Collection : SameBooking(c)
  BY <1>2 DEF SameBooking, KeyedOnce
<1>3. CASE [LedgerNext]_ledgerVars
  BY <1>1, <1>2, <1>3, BookingStep DEF CollectCommits
<1> QED
  BY <1>1, <1>2, <1>3, LedgerPart, SameBookings DEF ledgerRows

LEMMA PaymentsCharges ==
  ASSUME CaptureInv, TotalIsNet, [CaptureNext]_captureVars
  PROVE  TotalIsNet' /\ LateOnce
<1> USE DEF CaptureInv
<1>1. CASE SameTotals /\ LateOnce /\ UNCHANGED reduction
  <2>1. \A i \in Invoice : InForce(i)' = InForce(i)
          /\ \A q \in InForce(i) : reduction'[q].applied = reduction[q].applied
    BY <1>1 DEF InForce
  <2> QED
    BY <1>1, <2>1, NetStays
<1>2. ASSUME NEW t \in Txn, NEW c \in Collection, Book(t, c) PROVE TotalIsNet' /\ LateOnce
  <2>1. txn[t].inv \in Invoice
    BY <1>2, Knows DEF Book, Fits
  <2>2. SetDue(txn[t].inv, txn[t].seen - txn[t].amt) /\ UNCHANGED reduction
    BY <1>2 DEF Book
  <2> QED
    BY <1>1, <2>1, <2>2, SetDueCharges
<1>3. CASE UNCHANGED ledgerRows
  BY <1>1, <1>3 DEF ledgerRows, SameTotals, LateOnce
<1> QED
  BY <1>2, <1>3, LedgerPart, ChargesStep

LEMMA PaymentsUndated ==
  ASSUME CaptureInv, Undated, [CaptureNext]_captureVars
  PROVE  Undated'
<1> USE DEF CaptureInv
<1>1. ASSUME NEW t \in Txn, NEW c \in Collection, Book(t, c) PROVE Undated'
  BY <1>1, Booked DEF Undated
<1>2. CASE UNCHANGED ledgerRows
  BY <1>2 DEF ledgerRows, Undated
<1> QED
  BY <1>1, <1>2, LedgerPart, UndatedStep

\* createCollection looks the day up whoever calls it.
LEMMA CollectingDay ==
  ASSUME LedgerInv, NEW d \in closed, NEW t \in Txn, NEW e \in Day, NEW via, NEW i, NEW a, NEW s,
         StartCollecting(t, via, i, a, s, e), UNCHANGED ledgerRows
  PROVE  DayKept(d)
<1> DEFINE x == Collecting(via, i, a, s, e, invoice[i].due)
<1>1. txn' = [txn EXCEPT ![t] = x] /\ UNCHANGED collection /\ ~Locked(e)
  BY DEF StartCollecting, Collectible, Open, Collecting, ledgerRows
<1>2. x.pc = "collecting" /\ x.day = e
  BY DEF Collecting, Idle
<1> HIDE DEF x
<1>3. e > d
  BY <1>1, DayTypes, LedgerAssumption DEF Locked
<1>4. txn'[t] = x /\ \A u \in Txn : u # t => txn'[u] = txn[u]
  BY <1>1, Types
<1> QED
  BY <1>1, <1>2, <1>3, <1>4 DEF DayKept, Quiet, OnDay

LEMMA PaymentsDay ==
  ASSUME CaptureInv, Undated, [CaptureNext]_captureVars
  PROVE  \A d \in closed : DayKept(d)
<1> USE DEF CaptureInv
<1> TAKE d \in closed
<1>1. ASSUME NEW t \in Txn, NEW x, x.pc \in Before, txn' = [txn EXCEPT ![t] = x],
             UNCHANGED ledgerRows
      PROVE  DayKept(d)
  <2>1. \A u \in Txn : \/ txn'[u] = txn[u]
                       \/ txn'[u].pc \notin {"collecting", "cancelling", "reversing"}
    BY <1>1, Types DEF Before
  <2>2. UNCHANGED collection
    BY <1>1 DEF ledgerRows
  <2> QED
    BY <2>1, <2>2, DayStays
<1>2. CASE [LedgerNext]_ledgerVars
  BY <1>2, DayStep
<1> QED
  BY <1>1, <1>2, LedgerPart, BookDay, CollectingDay

LEMMA PaymentsFinal ==
  ASSUME CaptureInv, [CaptureNext]_captureVars
  PROVE  \A c \in Collection : Final(c)
<1> USE DEF CaptureInv
<1>1. ASSUME NEW t \in Txn, NEW c \in Collection, Book(t, c) PROVE \A e \in Collection : Final(e)
  <2>1. UNCHANGED refund
    BY <1>1 DEF Book
  <2> QED
    BY <1>1, <2>1, Booked DEF Final, RefundsOf
<1>2. CASE UNCHANGED ledgerRows
  BY <1>2 DEF ledgerRows, Final, RefundsOf
<1> QED
  BY <1>1, <1>2, LedgerPart, FinalStep

\* With payments and instruments posting too, the account's amount_paid is what
\* its collections keep, and no more is paid back on one than was collected.
THEOREM PaymentsKeepMoney == CaptureSpec => [](MoneyBooked /\ RefundsWithinCollection)
<1>1. CaptureInit => MoneyInv
  BY CaptureInitGood, MoneyInit DEF CaptureInit, CaptureInv
<1>2. CaptureInv /\ CaptureInv' /\ MoneyInv /\ [CaptureNext]_captureVars => MoneyInv'
  BY PaymentsMoney
<1>3. MoneyInv => MoneyBooked /\ RefundsWithinCollection
  BY DEF MoneyInv
<1> QED
  BY <1>1, <1>2, <1>3, CaptureInvariant, PTL DEF CaptureSpec

\* Nor do they disturb what a desk submission, a reduction or a late fee does:
\* a key is booked once, totals stay net of the reductions in force, and a late
\* fee is charged once.
THEOREM PaymentsKeepCharges == CaptureSpec => [](KeyedOnce /\ TotalIsNet /\ OneLateFee)
<1>1. ASSUME CaptureInit PROVE KeyedOnce /\ TotalIsNet /\ OneLateFee
  <2>1. LedgerInit
    BY <1>1 DEF CaptureInit
  <2>2. KeyedOnce /\ OneLateFee
    BY <2>1, LedgerAssumption DEF LedgerInit, KeyedOnce, NoCollection, OneLateFee
  <2>3. \A i \in Invoice : InForce(i) = {} /\ invoice[i].total = Billed
    BY <2>1 DEF LedgerInit, InForce, NoReduction
  <2>4. \A i \in Invoice : Given(i) = 0
    BY <2>3, SumEmpty DEF Given
  <2> QED
    BY <2>2, <2>3, <2>4, NetForm, LedgerAssumption
<1>2. CaptureInv /\ KeyedOnce /\ [CaptureNext]_captureVars => KeyedOnce'
  BY PaymentsKeys
<1>3. CaptureInv /\ TotalIsNet /\ [CaptureNext]_captureVars => TotalIsNet'
  BY PaymentsCharges
<1>4. CaptureInv /\ TotalIsNet /\ OneLateFee /\ [CaptureNext]_captureVars => OneLateFee'
  BY PaymentsCharges DEF LateOnce, OneLateFee
<1> QED
  BY <1>1, <1>2, <1>3, <1>4, CaptureInvariant, PTL DEF CaptureSpec

\* A payment does not revive a cancelled collection, and none, however late its
\* webhook or its bank, is booked on a day that was closed before it began.
THEOREM PaymentsKeepHistory == CaptureSpec => CancelledIsFinal /\ ClosedDayKept
<1>1. CaptureInit => Undated
  BY DEF CaptureInit, LedgerInit, Undated, NoCollection
<1>2. CaptureInv /\ Undated /\ [CaptureNext]_captureVars => Undated'
  BY PaymentsUndated
<1>3. CaptureInv /\ Undated /\ [CaptureNext]_captureVars =>
        [\A d \in closed \cap closed' : Quiet(d) => (Quiet(d)' /\ OnDay(d)' = OnDay(d))]_ledgerVars
  BY PaymentsDay DEF DayKept
<1>4. CaptureInv /\ [CaptureNext]_captureVars =>
        [\A c \in Collection : collection[c].status = "cancelled" =>
          /\ collection'[c].status = "cancelled"
          /\ RefundsOf(c, {"processed"})' = RefundsOf(c, {"processed"})]_ledgerVars
  BY PaymentsFinal DEF Final
<1> QED
  BY <1>1, <1>2, <1>3, <1>4, CaptureInvariant, PTL DEF CaptureSpec, ClosedDayKept, CancelledIsFinal
=============================================================================
