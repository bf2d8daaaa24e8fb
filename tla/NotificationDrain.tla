-------------------------- MODULE NotificationDrain --------------------------
(***************************************************************************)
(* The queue of messages to parents and staff: scheduled broadcasts that   *)
(* fan out into deliveries, drains that claim deliveries and hand them to  *)
(* a provider, retries with a backoff, and the escalation of a delivery    *)
(* that failed for good to the next channel of the school's chain.         *)
(*                                                                         *)
(* A drain is one transaction from its claim to its last mark: what it     *)
(* writes, the status "sending" included, is seen by others at its COMMIT  *)
(* only.  Until then its row locks are what keeps other drains away (SKIP  *)
(* LOCKED).  A drain that dies rolls back, and its deliveries are pending  *)
(* again although the provider has some of the messages; so the branch of  *)
(* the claim that takes over rows left in "sending" finds none.            *)
(***************************************************************************)
EXTENDS Integers, FiniteSets, Sequences, Functions

CONSTANTS
    MaxDelivery,    \* bound on the rows of notification_deliveries
    Broadcast,      \* scheduled rows of comm_broadcasts, one recipient each
    Worker,         \* transactions that drain or dispatch at the same time
    Channel,        \* KNOWN_CHANNELS
    Push,           \* the channel of broadcasts and direct messages
    Policy,         \* the escalation chains the school may set, << >> for none
    Batch,          \* LIMIT of the claim
    MaxRetries,     \* max_retries of a delivery
    MaxCrash        \* bound on the transactions that roll back

ASSUME DrainAssumption ==
    /\ {MaxDelivery, Batch, MaxRetries} \subseteq Nat \ {0}
    /\ MaxCrash \in Nat
    /\ IsFiniteSet(Channel)
    /\ Push \in Channel
    /\ "none" \notin Broadcast
    /\ Policy \subseteq Seq(Channel)
    /\ \A s \in Policy : IsInjective(s)   \* validateEscalationChain

VARIABLES
    delivery,       \* delivery[d]: committed row d, in the order of created_at
    broadcast,      \* status of the scheduled broadcasts
    chain,          \* escalation_chain of the school
    worker,         \* worker[w]: the open transaction
    accepted,       \* history: how often the provider took delivery d
    lost,           \* history: how often that was rolled back
    crashes         \* number of rollbacks

drainVars == <<delivery, broadcast, chain, worker, accepted, lost, crashes>>

Delivery == 1..MaxDelivery

\* "backoff": pending with next_retry_at ahead.  "void": the INSERT was rolled
\* back.  from, depth: escalated_from, 0 for none, and escalation_depth.
Row == [status : {"absent", "pending", "backoff", "sent", "failed", "void"},
        tries : 0..MaxRetries, channel : Channel \cup {"none"}, from : Delivery \cup {0},
        depth : Nat, of : Broadcast \cup {"none"}]
NoRow == [status |-> "absent", tries |-> 0, channel |-> "none", from |-> 0, depth |-> 0,
          of |-> "none"]

\* rows: the transaction's own version of the rows it wrote or inserted.
\* todo: claimed, not handed over yet.  sent: taken by the provider.
Idle == [pc |-> "idle", rows |-> << >>, todo |-> {}, sent |-> {}, job |-> "none"]

DrainInit ==
    /\ delivery = [d \in Delivery |-> NoRow]
    /\ broadcast = [b \in Broadcast |-> "scheduled"]
    /\ chain \in Policy
    /\ worker = [w \in Worker |-> Idle]
    /\ accepted = [d \in Delivery |-> 0]
    /\ lost = [d \in Delivery |-> 0]
    /\ crashes = 0

-----------------------------------------------------------------------------
Written(w) == DOMAIN worker[w].rows
LockedRows == UNION {Written(w) : w \in Worker}
Free == {d \in Delivery : delivery[d].status = "absent"} \ LockedRows

\* The id the next INSERT takes, as the set of its at most one result.
NextId == {d \in Free : \A e \in Free : d <= e}

\* claimPendingDeliveries: the oldest deliveries that are due and not locked.
Due == {d \in Delivery \ LockedRows : delivery[d].status = "pending"}
Oldest(S) == {d \in S : Cardinality({e \in S : e < d}) < Batch}

NewRow(channel, from, depth, of) ==
    [status |-> "pending", tries |-> 0, channel |-> channel, from |-> from, depth |-> depth,
     of |-> of]

\* enqueueDelivery, enqueueDeliveriesBatch: in a transaction that does nothing
\* else to the queue.
Enqueue(c) ==
    /\ \E d \in NextId : delivery' = [delivery EXCEPT ![d] = NewRow(c, 0, 0, "none")]
    /\ UNCHANGED <<broadcast, chain, worker, accepted, lost, crashes>>

\* A definition marked "Slip" is no part of the specification: it is a mistake
\* in the definition after it, which a property is checked to catch.

Draining(rows, todo, sent) ==
    [pc |-> "draining", rows |-> rows, todo |-> todo, sent |-> sent, job |-> "none"]

\* A transaction that has written rows claims what is due.
Start(w, rows, claim) ==
    worker' = [worker EXCEPT ![w] =
                 Draining([d \in DOMAIN rows \cup claim |->
                             IF d \in DOMAIN rows THEN rows[d] ELSE delivery[d]], claim, {})]

\* Slip: rows another drain has locked are claimed too.
ClaimLocked(w) ==
    LET due == {d \in Delivery : delivery[d].status = "pending"} IN
    /\ worker[w].pc = "idle"
    /\ due # {}
    /\ Start(w, << >>, Oldest(due))
    /\ UNCHANGED <<delivery, broadcast, chain, accepted, lost, crashes>>

\* processDeliveryQueue in a transaction of its own.
Claim(w) ==
    /\ worker[w].pc = "idle"
    /\ Due # {}
    /\ Start(w, << >>, Oldest(Due))
    /\ UNCHANGED <<delivery, broadcast, chain, accepted, lost, crashes>>

\* sendDirectMessage: the request enqueues and drains in its own transaction.
SendDirect(w) ==
    /\ worker[w].pc = "idle"
    /\ \E d \in NextId :
         Start(w, [e \in {d} |-> NewRow(Push, 0, 0, "none")], Oldest(Due \cup {d}))
    /\ UNCHANGED <<delivery, broadcast, chain, accepted, lost, crashes>>

\* The transaction is done with d and has these rows and messages sent.
Handled(w, d, rows, sent) ==
    /\ worker' = [worker EXCEPT ![w] = Draining(rows, worker[w].todo \ {d}, sent)]
    /\ UNCHANGED <<delivery, broadcast, chain, lost, crashes>>

Put(rows, d, r) == [e \in DOMAIN rows \cup {d} |-> IF e = d THEN r ELSE rows[e]]
Marked(w, d, status, tries) ==
    Put(worker[w].rows, d, [worker[w].rows[d] EXCEPT !.status = status, !.tries = tries])

\* markDeliverySent.
Deliver(w, d) ==
    /\ d \in worker[w].todo
    /\ accepted' = [accepted EXCEPT ![d] = @ + 1]
    /\ Handled(w, d, Marked(w, d, "sent", worker[w].rows[d].tries), worker[w].sent \cup {d})

Fail(w, d, rows) ==
    /\ Handled(w, d, rows, worker[w].sent)
    /\ UNCHANGED accepted

\* Slip: max_retries is not looked at.
RescheduleAlways(w, d) ==
    /\ d \in worker[w].todo
    /\ Fail(w, d, Marked(w, d, "backoff", worker[w].rows[d].tries + 1))

\* Slip: retry_count is not advanced.
RescheduleUncounted(w, d) ==
    /\ d \in worker[w].todo
    /\ Fail(w, d, Marked(w, d, "backoff", worker[w].rows[d].tries))

\* Slip: what failed is escalated although it will be tried again.
RescheduleEscalating(w, d) ==
    LET tries == worker[w].rows[d].tries + 1 IN
    /\ d \in worker[w].todo
    /\ tries < MaxRetries
    /\ \E n \in NextId :
         Fail(w, d, Put(Marked(w, d, "backoff", tries), n, NewRow(Push, d, 1, "none")))

\* markDeliveryFailed while retries remain: back to pending with a backoff.
Reschedule(w, d) ==
    LET tries == worker[w].rows[d].tries + 1 IN
    /\ d \in worker[w].todo
    /\ tries < MaxRetries
    /\ Fail(w, d, Marked(w, d, "backoff", tries))

\* computeEscalationTarget, as the set of its at most one result.
Target(c, depth) ==
    {chain[i + 1] : i \in {j \in 1..(Len(chain) - 1) : chain[j] = c /\ depth < Len(chain) - 1}}

\* markDeliveryFailed for the last time, and maybeEscalate; when MaxDelivery is
\* reached the model leaves the escalation out.
GiveUp(w, d) ==
    LET r == worker[w].rows[d]
        failed == Marked(w, d, "failed", r.tries + 1) IN
    /\ d \in worker[w].todo
    /\ r.tries + 1 >= MaxRetries
    /\ \/ /\ NextId = {} \/ Target(r.channel, r.depth) = {}
          /\ Fail(w, d, failed)
       \/ \E c \in Target(r.channel, r.depth), n \in NextId :
            Fail(w, d, Put(failed, n, NewRow(c, d, r.depth + 1, "none")))

FanOut(w, b) ==
    /\ \E n \in NextId :
         worker' = [worker EXCEPT ![w] =
                      [pc |-> "dispatching", rows |-> [d \in {n} |-> NewRow(Push, 0, 0, b)],
                       todo |-> {}, sent |-> {}, job |-> b]]
    /\ UNCHANGED <<delivery, broadcast, chain, accepted, lost, crashes>>

\* Slip: a broadcast that is being dispatched is dispatched once more.
DispatchAgain(w, b) ==
    /\ worker[w].pc = "idle"
    /\ broadcast[b] = "scheduled"
    /\ FanOut(w, b)

\* runDueScheduledBroadcasts: claim, fan out, finalize; a broadcast another
\* runner has claimed is skipped.
Dispatch(w, b) ==
    /\ worker[w].pc = "idle"
    /\ broadcast[b] = "scheduled"
    /\ \A v \in Worker : worker[v].job # b
    /\ FanOut(w, b)

Commit(w) ==
    /\ worker[w].pc # "idle"
    /\ worker[w].todo = {}
    /\ delivery' = [d \in Delivery |-> IF d \in Written(w) THEN worker[w].rows[d]
                                       ELSE delivery[d]]
    /\ broadcast' = [b \in Broadcast |-> IF b = worker[w].job THEN "sent" ELSE broadcast[b]]
    /\ worker' = [worker EXCEPT ![w] = Idle]
    /\ UNCHANGED <<chain, accepted, lost, crashes>>

\* An error in the request, a kill: nothing was written, but what the provider
\* took is on its way.
Rollback(w) ==
    /\ worker[w].pc # "idle"
    /\ crashes < MaxCrash
    /\ crashes' = crashes + 1
    /\ lost' = [d \in Delivery |-> IF d \in worker[w].sent THEN lost[d] + 1 ELSE lost[d]]
    /\ delivery' = [d \in Delivery |->
                      IF d \in Written(w) /\ delivery[d].status = "absent"
                      THEN [delivery[d] EXCEPT !.status = "void"] ELSE delivery[d]]
    /\ worker' = [worker EXCEPT ![w] = Idle]
    /\ UNCHANGED <<broadcast, chain, accepted>>

RetryTimeComes(d) ==
    /\ delivery[d].status = "backoff"
    /\ delivery' = [delivery EXCEPT ![d].status = "pending"]
    /\ UNCHANGED <<broadcast, chain, worker, accepted, lost, crashes>>

\* The school edits its policy.
SetPolicy(s) ==
    /\ chain' = s
    /\ UNCHANGED <<delivery, broadcast, worker, accepted, lost, crashes>>

Progress(w) == Commit(w) \/ \E d \in Delivery : Deliver(w, d) \/ Reschedule(w, d) \/ GiveUp(w, d)

DrainNext ==
    \/ \E c \in Channel : Enqueue(c)
    \/ \E w \in Worker : SendDirect(w) \/ Claim(w) \/ Progress(w) \/ Rollback(w)
    \/ \E w \in Worker, b \in Broadcast : Dispatch(w, b)
    \/ \E d \in Delivery : RetryTimeComes(d)
    \/ \E s \in Policy : SetPolicy(s)

DrainSpec == DrainInit /\ [][DrainNext]_drainVars

\* A transaction goes on, time passes, and the queue is drained again and again.
FairDrainSpec ==
    /\ DrainSpec
    /\ \A w \in Worker : WF_drainVars(Progress(w))
    /\ \A d \in Delivery : WF_drainVars(RetryTimeComes(d))
    /\ WF_drainVars(\E w \in Worker : Claim(w))

-----------------------------------------------------------------------------
(* Properties *)

\* Rows, broadcasts, policy and open transactions have their types.
DrainTypeOK ==
    /\ delivery \in [Delivery -> Row]
    /\ broadcast \in [Broadcast -> {"scheduled", "sent"}]
    /\ chain \in Policy
    /\ \A w \in Worker :
         /\ worker[w].pc \in {"idle", "draining", "dispatching"}
         /\ Written(w) \subseteq Delivery
         /\ \A d \in Written(w) : worker[w].rows[d] \in Row
         /\ worker[w].todo \cup worker[w].sent \subseteq Written(w)
         /\ worker[w].job \in Broadcast \cup {"none"}
    /\ accepted \in [Delivery -> Nat]
    /\ lost \in [Delivery -> Nat]
    /\ crashes \in 0..MaxCrash

\* The drains that have handed d to the provider and are still open.
Underway(d) == {w \in Worker : d \in worker[w].sent}

\* A message is handed over once, and once more for each drain that rolled back
\* after it did: overlapping drains never send the same delivery.
SentOnce ==
    \A d \in Delivery :
        accepted[d] = lost[d] + Cardinality(Underway(d))
                      + (IF delivery[d].status = "sent" THEN 1 ELSE 0)

\* What a delivery failed on is escalated once, and only when it failed for
\* good: of the committed rows, at most one follows from another, which is
\* marked failed.
EscalatedOnce ==
    \A e \in Delivery :
        delivery[e].from # 0 =>
            /\ delivery[delivery[e].from].status = "failed"
            /\ \A f \in Delivery : (delivery[f].from = delivery[e].from) => f = e

\* However the school edits its chain meanwhile, a message is escalated fewer
\* times than there are channels: "the fallback sequence always terminates".
HopsBounded == \A d \in Delivery : delivery[d].depth < Cardinality(Channel)

\* A scheduled broadcast fans out once, and when it is marked sent it has.
FannedOutOnce ==
    \A b \in Broadcast :
        Cardinality({d \in Delivery : delivery[d].of = b})
            = (IF broadcast[b] = "sent" THEN 1 ELSE 0)

\* Every committed delivery is sent or given up in the end, however often a
\* drain dies on it before (at-least-once).
EachSettles ==
    \A d \in Delivery :
        (delivery[d].status \in {"pending", "backoff"}) ~> (delivery[d].status \in {"sent", "failed"})
=============================================================================
