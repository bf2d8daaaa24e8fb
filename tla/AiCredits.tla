------------------------------ MODULE AiCredits ------------------------------
(***************************************************************************)
(* Admission, metering and charging of calls to a language model.  An      *)
(* organisation buys credits; each of its schools, and the organisation    *)
(* itself, is a bucket with a rate limit of its own.                       *)
(*                                                                         *)
(* A call is reserved on a connection of its own, in a transaction that    *)
(* holds the advisory lock of the bucket and commits before the provider   *)
(* is asked.  The log row and the end of the reservation are written in    *)
(* the transaction of the request, which commits long after.  Without the  *)
(* reservation connection the gateway decides from what it reads.          *)
(*                                                                         *)
(* Every session reads through row security: of ai_call_log it sees the    *)
(* rows of its own bucket, of reservations and credits those of the        *)
(* organisation.  The per-user limit and the spend cap have the shape of   *)
(* the school limit and are left out; the wallet is enforced.              *)
(***************************************************************************)
EXTENDS Integers, FiniteSets

CONSTANTS
    Call,           \* requests with one gateway call each
    Bucket,         \* schools, and the organisation's own calls
    Limit,          \* schoolCallsPerDay, 0 if unlimited
    Price,          \* credits of a call of the model; an embedding takes none
    MaxCredit       \* bound on what is bought, and on what is taken back

ASSUME CreditsAssumption ==
    /\ IsFiniteSet(Call)
    /\ Limit \in Nat
    /\ Price \in Nat \ {0}
    /\ MaxCredit \in Nat

VARIABLES
    bought,         \* sum of the positive ai_credit_entries
    expired,        \* sum of the negative ones
    call,           \* call[c]: where the gateway is with it
    hold,           \* hold[c]: its row of ai_call_reservations
    row,            \* row[c]: its row of ai_call_log
    billed          \* history: the calls the provider billed

creditVars == <<bought, expired, call, hold, row, billed>>

\* "stale" and "old": pending for longer than PENDING_TTL_MS and than the ten
\* minutes after which the row is swept.
Pending == {"pending", "stale", "old"}
HoldState == {"none"} \cup Pending \cup {"swept", "consumed", "released"}

\* The outcome of a call as far as it counts: denied for a rate, denied for the
\* wallet, tried without a charge, charged.
RowState == {"none", "rate", "wallet", "free", "debited"}

\* RATE_WINDOW_OUTCOME_FILTER.
Attempted == {"wallet", "free", "debited"}

\* verdict: what admission said; "unheld" is a call let through without a
\* reservation.  sweep: the holds its transaction deletes.
CallState ==
    [pc : {"idle", "reserving", "degraded", "denied", "calling", "billed", "failed", "done"},
     bucket : Bucket \cup {"none"}, needs : {0, Price},
     verdict : {"none", "admit", "unheld", "rate", "wallet"}, sweep : SUBSET Call]

CreditsInit ==
    /\ bought = 0
    /\ expired = 0
    /\ call = [c \in Call |-> [pc |-> "idle", bucket |-> "none", needs |-> 0,
                               verdict |-> "none", sweep |-> {}]]
    /\ hold = [c \in Call |-> "none"]
    /\ row = [c \in Call |-> "none"]
    /\ billed = {}

-----------------------------------------------------------------------------
In(b) == {c \in Call : call[c].bucket = b}
Logged(b) == {c \in In(b) : row[c] \in Attempted}
Live(b) == {c \in In(b) : hold[c] = "pending"}
Abandoned(b) == {c \in In(b) : hold[c] = "old"}

\* What a session of bucket b takes for the debits of the organisation.
VisibleDebits(b) == {c \in In(b) : row[c] = "debited"}
Holding == {c \in Call : hold[c] \in Pending /\ call[c].needs # 0}

\* readWalletBalance and the wallet term of the admission; the holds in sweep
\* are deleted already.
Available(b, sweep) ==
    bought - expired - Price * Cardinality(VisibleDebits(b))
                     - Price * Cardinality(Holding \ sweep)

Below(n) == Limit = 0 \/ n < Limit

\* The gate that refuses a call, in the order of the gateway.
Verdict(b, calls, available, needs) ==
    CASE ~Below(calls)     -> "rate"
      [] available < needs -> "wallet"
      [] OTHER             -> "admit"

-----------------------------------------------------------------------------
(* A definition marked "Slip" is no part of the specification: it is a mistake *)
(* in the definition after it, which a property is checked to catch.           *)

Admission(c, b, needs, calls, available) ==
    call' = [call EXCEPT ![c] = [pc |-> "reserving", bucket |-> b, needs |-> needs,
                                 verdict |-> Verdict(b, calls, available, needs),
                                 sweep |-> Abandoned(b)]]

\* Slip: without the advisory lock.
ReserveUnlocked(c, b, needs) ==
    /\ call[c].pc = "idle"
    /\ Admission(c, b, needs, Cardinality(Logged(b)) + Cardinality(Live(b)),
                 Available(b, Abandoned(b)))
    /\ UNCHANGED <<bought, expired, hold, row, billed>>

\* Slip: only the calls that are logged count.
ReserveUncounted(c, b, needs) ==
    /\ call[c].pc = "idle"
    /\ \A e \in In(b) : call[e].pc # "reserving"
    /\ Admission(c, b, needs, Cardinality(Logged(b)), Available(b, Abandoned(b)))
    /\ UNCHANGED <<bought, expired, hold, row, billed>>

\* runReservation up to its COMMIT, which ends the advisory lock.
Reserve(c, b, needs) ==
    /\ call[c].pc = "idle"
    /\ \A e \in In(b) : call[e].pc # "reserving"
    /\ Admission(c, b, needs, Cardinality(Logged(b)) + Cardinality(Live(b)),
                 Available(b, Abandoned(b)))
    /\ UNCHANGED <<bought, expired, hold, row, billed>>

\* The reservation that was admitted and the sweep, once they are committed.
Reserved(c) ==
    [e \in Call |-> IF e \in call[c].sweep THEN "swept"
                    ELSE IF e = c /\ call[c].verdict = "admit" THEN "pending"
                    ELSE hold[e]]

ReserveCommits(c) ==
    /\ call[c].pc = "reserving"
    /\ hold' = Reserved(c)
    /\ call' = [call EXCEPT ![c].pc = IF call[c].verdict = "admit" THEN "calling" ELSE "denied",
                            ![c].sweep = {}]
    /\ UNCHANGED <<bought, expired, row, billed>>

\* No connection, a lock timeout, an error.  The gateway knows of no hold,
\* although one may have been committed.
ReserveFails(c) ==
    /\ call[c].pc = "reserving"
    /\ hold' \in {hold, Reserved(c)}
    /\ call' = [call EXCEPT ![c].pc = "degraded", ![c].sweep = {}, ![c].verdict = "none"]
    /\ UNCHANGED <<bought, expired, row, billed>>

Decide(c, verdict) ==
    /\ call' = [call EXCEPT ![c].pc = IF verdict = "admit" THEN "calling" ELSE "denied",
                            ![c].verdict = IF verdict = "admit" THEN "unheld" ELSE verdict]
    /\ UNCHANGED <<bought, expired, hold, row, billed>>

\* decideGateway on what the request reads; an embedding is let through.
DecideDegraded(c) ==
    LET b == call[c].bucket IN
    /\ call[c].pc = "degraded"
    /\ Decide(c, IF call[c].needs = 0 THEN "admit"
                 ELSE Verdict(b, Cardinality(Logged(b)), Available(b, {}), call[c].needs))

\* The usage cannot be read: the wallet fails closed.
DecideBlind(c) ==
    /\ call[c].pc = "degraded"
    /\ call[c].needs # 0
    /\ Decide(c, "wallet")

\* Tokens were billed, whether the answer is served, refused or discarded.
ProviderAnswers(c) ==
    /\ call[c].pc = "calling"
    /\ call' = [call EXCEPT ![c].pc = "billed"]
    /\ billed' = billed \cup {c}
    /\ UNCHANGED <<bought, expired, hold, row>>

\* A timeout or a transport error.
ProviderFails(c) ==
    /\ call[c].pc = "calling"
    /\ call' = [call EXCEPT ![c].pc = "failed"]
    /\ UNCHANGED <<bought, expired, hold, row, billed>>

\* settleReservation, which has an id only if the reservation said so.
Settled(c, state) ==
    hold' = [hold EXCEPT ![c] = IF call[c].verdict = "admit" /\ @ = "pending" THEN state ELSE @]

\* The request commits.  Its two telemetry writes are savepoints of their own:
\* either may be lost.
Finish(c, pc, outcome, state) ==
    /\ call[c].pc = pc
    /\ call' = [call EXCEPT ![c].pc = "done"]
    /\ \/ row' = [row EXCEPT ![c] = outcome]
       \/ row' = row
    /\ \/ Settled(c, state)
       \/ hold' = hold
    /\ UNCHANGED <<bought, expired, billed>>

FinishBilled(c) ==
    Finish(c, "billed", IF call[c].needs = 0 THEN "free" ELSE "debited", "consumed")

\* Slip: a call that failed is charged.
FinishFailedCharged(c) == Finish(c, "failed", "debited", "released")

FinishFailed(c) == Finish(c, "failed", "free", "released")

FinishDenied(c) ==
    /\ call[c].pc = "denied"
    /\ call' = [call EXCEPT ![c].pc = "done"]
    /\ \/ row' = [row EXCEPT ![c] = call[c].verdict]
       \/ row' = row
    /\ UNCHANGED <<bought, expired, hold, billed>>

\* The request rolls back or the isolate dies: its hold stays behind.
Die(c) ==
    /\ call[c].pc \in {"degraded", "denied", "calling", "billed", "failed"}
    /\ call' = [call EXCEPT ![c].pc = "done"]
    /\ UNCHANGED <<bought, expired, hold, row, billed>>

\* Time passes over a hold whose request has ended.
Age(c) ==
    /\ call[c].pc = "done"
    /\ hold[c] \in {"pending", "stale"}
    /\ hold' = [hold EXCEPT ![c] = IF @ = "pending" THEN "stale" ELSE "old"]
    /\ UNCHANGED <<bought, expired, call, row, billed>>

\* grantCredits: a top-up or a correction upwards, ...
Grant(units) ==
    /\ bought + units <= MaxCredit
    /\ bought' = bought + units
    /\ UNCHANGED <<expired, call, hold, row, billed>>

\* Slip: what was bought is corrected in place.
ExpireBought(units) ==
    /\ expired + units <= MaxCredit
    /\ bought' = bought - units
    /\ UNCHANGED <<expired, call, hold, row, billed>>

\* ... an expiry or a correction downwards, whatever is left.
Expire(units) ==
    /\ expired + units <= MaxCredit
    /\ expired' = expired + units
    /\ UNCHANGED <<bought, call, hold, row, billed>>

CallStep(c) ==
    \/ \E b \in Bucket, needs \in {0, Price} : Reserve(c, b, needs)
    \/ ReserveCommits(c) \/ ReserveFails(c)
    \/ DecideDegraded(c) \/ DecideBlind(c)
    \/ ProviderAnswers(c) \/ ProviderFails(c)
    \/ FinishBilled(c) \/ FinishFailed(c) \/ FinishDenied(c)
    \/ Die(c) \/ Age(c)

CreditsNext ==
    \/ \E c \in Call : CallStep(c)
    \/ \E units \in 1..MaxCredit : Grant(units) \/ Expire(units)

CreditsSpec == CreditsInit /\ [][CreditsNext]_creditVars

-----------------------------------------------------------------------------
(* Properties *)

\* Credits, calls, holds and log rows have their types.
CreditsTypeOK ==
    /\ bought \in Nat
    /\ expired \in Nat
    /\ call \in [Call -> CallState]
    /\ hold \in [Call -> HoldState]
    /\ row \in [Call -> RowState]
    /\ billed \subseteq Call

\* Calls of b that a reservation admitted and that are logged or under way.
Admitted(b) ==
    {c \in In(b) : hold[c] # "none" /\ (row[c] \in Attempted \/ hold[c] = "pending")}

\* However many requests arrive at once, the calls a reservation admits stay
\* within the limit of the bucket while they are under way, logged, or both
\* (runReservation: no overshoot by check-then-act).
WithinLimit == Limit > 0 => \A b \in Bucket : Cardinality(Admitted(b)) <= Limit

\* Calls of b that a reservation admitted and that are charged or hold credits.
Spending(b) ==
    {c \in In(b) : hold[c] # "none" /\ (row[c] = "debited" \/
                                        (hold[c] = "pending" /\ call[c].needs # 0))}

\* A bucket never charges and holds more than the organisation ever bought:
\* the same credits are not spent twice by calls of one bucket.
WithinCredits == \A b \in Bucket : Price * Cardinality(Spending(b)) <= bought

\* A call is charged only if the provider billed it, and never when its hold
\* was released ("debit iff consumed").
ChargedIfBilled ==
    \A c \in Call : row[c] = "debited" => c \in billed /\ hold[c] # "released"

\* "The wallet cannot be double-spent": what all buckets together are charged
\* for calls a reservation admitted does not exceed what was bought.
WalletIsShared ==
    Price * Cardinality({c \in Call : hold[c] # "none" /\ row[c] = "debited"}) <= bought

\* "Pure gate denials are excluded": a denied call takes no slot of the window.
DenialsUncounted == \A c \in Call : call[c].verdict \in {"rate", "wallet"} => row[c] \notin Attempted
=============================================================================
