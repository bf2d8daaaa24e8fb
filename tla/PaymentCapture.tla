--------------------------- MODULE PaymentCapture ---------------------------
(***************************************************************************)
(* How money enters the ledger other than at the fee desk: online payments *)
(* that the payer's app confirms and the gateway's webhook reports, and    *)
(* cheques and other instruments that the bank clears or returns.  Each    *)
(* way ends in createCollection, which FeeLedger models; what differs is   *)
(* what it locks, in which order, and what it checks at the end.           *)
(*                                                                         *)
(* confirmPayment locks the intent, then the invoice.  The webhook reads   *)
(* the intent without a lock, locks the invoice and claims the intent last *)
(* (markIntentCaptured).  reconcileOfflinePayment locks only the invoice.  *)
(* A webhook with an id the table has is dropped; events without an id get *)
(* a random one, so any event may be delivered any number of times.        *)
(***************************************************************************)
EXTENDS FeeLedger

CONSTANTS
    Intent,         \* rows of payment_intents
    Instrument      \* rows of finance_offline_payments

ASSUME CaptureAssumption ==
    /\ Intent \cup Instrument \subseteq Source
    /\ Intent \cap Instrument = {}
    /\ Key \cap (Intent \cup Instrument) = {}

VARIABLES
    intent,         \* intent[p]: status, invoice, amount, collection
    instrument,     \* instrument[n]: the same of a cheque
    disowned        \* history: intents for which a payment.failed was processed

captureVars == <<ledgerVars, intent, instrument, disowned>>

NoPayment == [status |-> "absent", inv |-> None, amt |-> 0, coll |-> None]

CaptureInit ==
    /\ LedgerInit
    /\ intent = [p \in Intent |-> NoPayment]
    /\ instrument = [n \in Instrument |-> NoPayment]
    /\ disowned = {}

\* A confirmation holds the intent's row from its lock to its end.
IntentHeld(p) ==
    \E t \in Txn : /\ txn[t].via = "confirm"
                   /\ txn[t].pc \in {"owning", "collecting"}
                   /\ txn[t].src = p

-----------------------------------------------------------------------------
\* initiatePayment, after the gateway opened an order.  The amount is not
\* compared with what is outstanding.
Initiate(p, i, a) ==
    /\ intent[p].status = "absent"
    /\ intent' = [intent EXCEPT ![p] = [status |-> "initiated", inv |-> i, amt |-> a,
                                        coll |-> None]]
    /\ UNCHANGED <<ledgerVars, instrument, disowned>>

\* A transaction reads a payment row without a lock.
Read(t, via, s, row) ==
    /\ txn[t].pc = "idle"
    /\ Open(t, [Idle EXCEPT !.pc = "reading", !.via = via, !.src = s, !.inv = row.inv,
                            !.amt = row.amt])
    /\ UNCHANGED <<ledgerRows, intent, instrument, disowned>>

\* createCollection on behalf of the row that was read, dated today.
StartPosting(t) ==
    LET x == txn[t] IN
    /\ \E d \in Day : StartCollecting(t, x.via, x.inv, x.amt, x.src, d)
    /\ UNCHANGED <<ledgerRows, intent, instrument, disowned>>

\* The intent ends up captured with the collection.
Capture(t, c) ==
    /\ Book(t, c)
    /\ intent' = [intent EXCEPT ![txn[t].src] =
                  [@ EXCEPT !.status = "captured", !.coll = c]]
    /\ UNCHANGED <<instrument, disowned>>

\* confirmPayment; for a captured intent it answers with the old receipt.
ConfirmReads(t, p) ==
    /\ intent[p].status = "initiated"
    /\ Read(t, "confirm", p, intent[p])

\* Slip: no look at the status under the lock.
ConfirmLocksOnly(t) ==
    /\ txn[t].pc = "reading" /\ txn[t].via = "confirm"
    /\ ~IntentHeld(txn[t].src)
    /\ txn' = [txn EXCEPT ![t].pc = "owning"]
    /\ UNCHANGED <<ledgerRows, intent, instrument, disowned>>

\* Slip: the intent is marked captured before the collection is booked.
ConfirmLocksClaiming(t) ==
    /\ txn[t].pc = "reading" /\ txn[t].via = "confirm"
    /\ ~IntentHeld(txn[t].src)
    /\ intent[txn[t].src].status # "captured"
    /\ txn' = [txn EXCEPT ![t].pc = "owning"]
    /\ intent' = [intent EXCEPT ![txn[t].src].status = "captured"]
    /\ UNCHANGED <<ledgerRows, instrument, disowned>>

\* SELECT status ... FOR UPDATE.  Only "captured" is refused.
ConfirmLocks(t) ==
    /\ txn[t].pc = "reading" /\ txn[t].via = "confirm"
    /\ ~IntentHeld(txn[t].src)
    /\ intent[txn[t].src].status # "captured"
    /\ txn' = [txn EXCEPT ![t].pc = "owning"]
    /\ UNCHANGED <<ledgerRows, intent, instrument, disowned>>

ConfirmCollects(t) ==
    /\ txn[t].pc = "owning"
    /\ StartPosting(t)

ConfirmCommits(t, c) ==
    /\ txn[t].via = "confirm"
    /\ Capture(t, c)

\* processRazorpayWebhook on payment.captured.
WebhookReads(t, p) ==
    /\ intent[p].status \notin {"absent", "captured"}
    /\ Read(t, "webhook", p, intent[p])

WebhookCollects(t) ==
    /\ txn[t].pc = "reading" /\ txn[t].via = "webhook"
    /\ StartPosting(t)

\* Slip: markIntentCaptured without its guard on the status.
WebhookOverwrites(t, c) ==
    /\ txn[t].via = "webhook"
    /\ ~IntentHeld(txn[t].src)
    /\ Capture(t, c)

\* markIntentCaptured throws for an intent captured meanwhile, which takes the
\* collection back.
WebhookCommits(t, c) ==
    /\ txn[t].via = "webhook"
    /\ ~IntentHeld(txn[t].src)
    /\ intent[txn[t].src].status # "captured"
    /\ Capture(t, c)

\* payment.failed: the status is set whatever it was.
WebhookFails(p) ==
    /\ intent[p].status # "absent"
    /\ ~IntentHeld(p)
    /\ intent' = [intent EXCEPT ![p].status = "failed"]
    /\ disowned' = disowned \cup {p}
    /\ UNCHANGED <<ledgerVars, instrument>>

-----------------------------------------------------------------------------
\* createOfflinePayment: a cheque is registered, nothing is posted.
Register(n, i, a) ==
    /\ instrument[n].status = "absent"
    /\ instrument' = [instrument EXCEPT ![n] = [status |-> "pending", inv |-> i, amt |-> a,
                                                coll |-> None]]
    /\ UNCHANGED <<ledgerVars, intent, disowned>>

ReconcileReads(t, n) ==
    /\ instrument[n].status = "pending"
    /\ Read(t, "bank", n, instrument[n])

ReconcileCollects(t) ==
    /\ txn[t].pc = "reading" /\ txn[t].via = "bank"
    /\ StartPosting(t)

\* Slip: the update does not look at the status.
ReconcileUnguarded(t, c) ==
    /\ txn[t].via = "bank"
    /\ Book(t, c)
    /\ instrument' = [instrument EXCEPT ![txn[t].src] =
                      [@ EXCEPT !.status = "reconciled", !.coll = c]]
    /\ UNCHANGED <<intent, disowned>>

\* UPDATE ... WHERE status <> 'bounced'.  Without a row the handler throws and
\* takes the collection back.
ReconcileCommits(t, c) ==
    /\ txn[t].via = "bank"
    /\ instrument[txn[t].src].status # "bounced"
    /\ Book(t, c)
    /\ instrument' = [instrument EXCEPT ![txn[t].src] =
                      [@ EXCEPT !.status = "reconciled", !.coll = c]]
    /\ UNCHANGED <<intent, disowned>>

Bounce(n) ==
    /\ instrument[n].status = "pending"
    /\ instrument' = [instrument EXCEPT ![n].status = "bounced"]
    /\ UNCHANGED <<ledgerVars, intent, disowned>>

CaptureStep ==
    \/ \E p \in Intent, i \in Invoice, a \in 1..Billed : Initiate(p, i, a)
    \/ \E t \in Txn, p \in Intent : ConfirmReads(t, p) \/ WebhookReads(t, p)
    \/ \E t \in Txn : ConfirmLocks(t) \/ ConfirmCollects(t) \/ WebhookCollects(t)
    \/ \E t \in Txn, c \in Collection : ConfirmCommits(t, c) \/ WebhookCommits(t, c)
    \/ \E p \in Intent : WebhookFails(p)

InstrumentStep ==
    \/ \E n \in Instrument, i \in Invoice, a \in 1..Billed : Register(n, i, a)
    \/ \E t \in Txn, n \in Instrument : ReconcileReads(t, n)
    \/ \E t \in Txn : ReconcileCollects(t)
    \/ \E t \in Txn, c \in Collection : ReconcileCommits(t, c)
    \/ \E n \in Instrument : Bounce(n)

CaptureNext ==
    \/ CaptureStep
    \/ InstrumentStep
    \/ LedgerNext /\ UNCHANGED <<intent, instrument, disowned>>

CaptureSpec == CaptureInit /\ [][CaptureNext]_captureVars

-----------------------------------------------------------------------------
(* Properties *)

PaymentRow(st) == [status : st, inv : Invoice \cup {None}, amt : Nat,
                   coll : Collection \cup {None}]

\* Payments and the ledger have their types.
CaptureTypeOK ==
    /\ LedgerTypeOK
    /\ intent \in [Intent -> PaymentRow({"absent", "initiated", "captured", "failed"})]
    /\ instrument \in [Instrument -> PaymentRow({"absent", "pending", "reconciled", "bounced"})]
    /\ disowned \subseteq Intent

PostedFor(s) == {c \in Collection : collection[c].src = s}

\* A payment confirmed by the app and reported by any number of webhooks is
\* posted once, unless the gateway also reported it as failed.
CapturedOnce ==
    \A p \in Intent \ disowned : Cardinality(PostedFor(p)) <= 1

\* A captured intent points at the collection that was booked for it, with its
\* amount and on its invoice; an intent that was never disowned and is not
\* captured has booked nothing.
CapturedIsBooked ==
    \A p \in Intent :
        /\ intent[p].status = "captured" =>
             LET c == intent[p].coll IN
             /\ c \in PostedFor(p)
             /\ collection[c].amt = intent[p].amt
             /\ collection[c].inv = intent[p].inv
        /\ (p \notin disowned /\ intent[p].status # "captured") => PostedFor(p) = {}

\* An instrument the bank returned stays returned and nothing is booked for it:
\* reconciling and bouncing may overlap (reconcileOfflinePayment,
\* bounceOfflinePayment).
BouncedIsFinal ==
    [][\A n \in Instrument : instrument[n].status = "bounced" =>
          /\ instrument'[n].status = "bounced"
          /\ PostedFor(n)' = {}]_captureVars

\* "Re-reconciling is a no-op that must not post a second one": an instrument
\* is posted at most once.
ReconciledOnce == \A n \in Instrument : Cardinality(PostedFor(n)) <= 1
=============================================================================
