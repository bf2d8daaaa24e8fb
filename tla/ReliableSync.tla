----------------------------- MODULE ReliableSync -----------------------------
(***************************************************************************)
(* The client side of the data reliability platform, composed with the     *)
(* server side of IdempotentDispatch.  A write is one operation whose id   *)
(* is its Idempotency-Key.  MutationGateway sends it directly or puts it   *)
(* in the outbox, SyncEngine drains the outbox, the Sync Center lets the   *)
(* user retry and resolve conflicts, and logout wipes the store.  Dart     *)
(* runs one handler at a time but switches at every await: an action here  *)
(* is what runs between two awaits that matter (a send, a probe, the       *)
(* store calls of a retry loop).                                           *)
(*                                                                         *)
(* Request bodies, row versions and errors are abstracted: an answer is    *)
(* the class the client sorts it into, and whether the server finds a      *)
(* conflict is a free choice.  The clock is abstracted to whether an       *)
(* operation's nextAttemptAt still lies ahead.                             *)
(***************************************************************************)
EXTENDS IdempotentDispatch

CONSTANTS
    EntityOf,       \* EntityOf[o]: the entityRef of operation o, or NoEntity
    NoEntity,
    HighRisk,       \* operations whose conflicts the user must resolve
    OnlineOnly,     \* operations that are never queued
    Tap,            \* calls of retryAllNow that may run at the same time
    Durable,        \* TRUE: SQLite store.  FALSE: the in-memory fallback
    MaxTries,       \* attempts before a transient failure parks (10 in the code)
    MaxRestarts,    \* bound on the number of times the app is killed
    MaxSession      \* bound on the number of times the user changes

ASSUME SyncAssumption ==
    /\ HighRisk \subseteq Key
    /\ OnlineOnly \subseteq Key
    /\ Durable \in BOOLEAN
    /\ MaxTries \in Nat \ {0}
    /\ MaxRestarts \in Nat
    /\ MaxSession \in Nat

VARIABLES
    outbox,         \* outbox[o]: the stored MutationEnvelope of o
    shown,          \* shown[o]: what the user was told about o
    owner,          \* owner[o]: the session that submitted o
    session,        \* the user signed in
    online,         \* ConnectivityService.isOnline
    waiting,        \* waiting[a]: who awaits the answer of request a
    drain,          \* SyncEngine.flush: its progress and its locals
    tapped,         \* the running calls of retryAllNow
    copies,         \* copies[t]: the failed envelopes call t has yet to requeue
    queued,         \* how many envelopes were created so far (the clock)
    restarts

clientVars == <<outbox, shown, owner, session, online, waiting, drain, tapped,
                copies, queued, restarts>>
vars == <<dispatchVars, clientVars>>

-----------------------------------------------------------------------------
Status == {"absent", "pending", "inFlight", "confirmed", "conflict", "failed"}

\* later: nextAttemptAt lies in the future.  at: createdAt, as a rank.
Envelope == [status : Status, tries : 0..MaxTries, later : BOOLEAN, at : Nat]

Absent == [status |-> "absent", tries |-> 0, later |-> FALSE, at |-> 0]

NoOps == [o \in Key |-> Absent]

\* phase: "off" is _draining = FALSE.  batch is the list pendingOperations
\* returned, visited the part of it the loop is done with.
DrainOff ==
    [phase |-> "off", batch |-> NoOps, visited |-> {}, blocked |-> {}, current |-> NoKey]

Drain ==
    [phase   : {"off", "probing", "loop", "sending"},
     batch   : [Key -> Envelope],
     visited : SUBSET Key,
     blocked : SUBSET {EntityOf[o] : o \in Key},
     current : Key \cup {NoKey}]

ClientInit ==
    /\ outbox = NoOps
    /\ shown = [o \in Key |-> "nothing"]
    /\ owner = [o \in Key |-> 0]
    /\ session = 0
    /\ online \in BOOLEAN
    /\ waiting = [a \in Attempt |-> "nobody"]
    /\ drain = DrainOff
    /\ tapped = {}
    /\ copies = [t \in Tap |-> NoOps]
    /\ queued = 0
    /\ restarts = 0

Init == DispatchInit /\ ClientInit

\* classifyResponse: a duplicate key counts as already applied.
Classify(r) ==
    CASE r \in {"ok", "duplicate"} -> "confirmed"
      [] r = "conflict"            -> "conflict"
      [] r = "transient"           -> "transient"
      [] r = "rejected"            -> "failed"

Put(o, e) == outbox' = [outbox EXCEPT ![o] = e]

Show(o, s) == shown' = [shown EXCEPT ![o] = s]

StopWaiting(a) == waiting' = [waiting EXCEPT ![a] = "nobody"]

\* A definition marked "Slip" is no part of the specification: it is a mistake
\* in the definition after it, which a property is checked to catch.

\* Slip: flush() without its _draining guard.
FlushUnguarded == drain' = [DrainOff EXCEPT !.phase = "probing"]

\* flush(): nothing happens while a drain is running.
Flush == drain' = IF drain.phase = "off" THEN [DrainOff EXCEPT !.phase = "probing"] ELSE drain

-----------------------------------------------------------------------------
(***************************************************************************)
(* MutationGateway                                                         *)
(***************************************************************************)
\* The gateway creates the envelope of o when it puts it in the outbox.
PutNew(o, status) ==
    /\ Put(o, [status |-> status, tries |-> 0, later |-> FALSE, at |-> queued + 1])
    /\ queued' = queued + 1

Submit(o) ==
    /\ shown[o] = "nothing"
    /\ owner' = [owner EXCEPT ![o] = session]

\* _executeQueueable without a network interface: straight to the outbox.
SubmitOffline(o) ==
    /\ Submit(o)
    /\ o \notin OnlineOnly
    /\ ~online
    /\ PutNew(o, "pending")
    /\ Show(o, "pending")
    /\ UNCHANGED <<dispatchVars, session, online, waiting, drain, tapped, copies, restarts>>

\* Slip: the write is put in the outbox before it is sent, for safety's sake.
SubmitOnlineStored(o, a) ==
    /\ Submit(o)
    /\ o \in OnlineOnly \/ online
    /\ PutNew(o, "pending")
    /\ Send(a, o)
    /\ waiting' = [waiting EXCEPT ![a] = "gateway"]
    /\ Show(o, "waiting")
    /\ UNCHANGED <<session, online, drain, tapped, copies, restarts>>

\* Otherwise the write is sent at once, whatever the outbox holds.
SubmitOnline(o, a) ==
    /\ Submit(o)
    /\ o \in OnlineOnly \/ online
    /\ Send(a, o)
    /\ waiting' = [waiting EXCEPT ![a] = "gateway"]
    /\ Show(o, "waiting")
    /\ UNCHANGED <<outbox, session, online, drain, tapped, copies, queued, restarts>>

\* What the gateway makes of an answer class c for o.
GatewayOutcome(o, c) ==
    IF o \in OnlineOnly
    THEN /\ Show(o, IF c = "transient" THEN "failed" ELSE c)
         /\ UNCHANGED <<outbox, queued>>
    ELSE LET status == IF c = "transient" \/ (c = "conflict" /\ o \notin HighRisk)
                       THEN "pending" ELSE c
         IN  PutNew(o, status) /\ Show(o, status)

GatewayAnswer(a) ==
    /\ waiting[a] = "gateway"
    /\ attempt[a].pc = "done"
    /\ GatewayOutcome(attempt[a].key, Classify(attempt[a].reply))
    /\ Forget(a)
    /\ StopWaiting(a)
    /\ UNCHANGED <<owner, session, online, drain, tapped, copies, restarts>>

\* NetworkUnavailableException: no connection, or no answer in time.  The
\* request itself may still be on its way.
GatewayTimeout(a) ==
    /\ waiting[a] = "gateway"
    /\ GatewayOutcome(attempt[a].key, "transient")
    /\ StopWaiting(a)
    /\ UNCHANGED <<dispatchVars, owner, session, online, drain, tapped, copies, restarts>>

-----------------------------------------------------------------------------
(***************************************************************************)
(* SyncEngine.flush                                                        *)
(***************************************************************************)
\* isReachable() is false: the drain is skipped.
ProbeFails ==
    /\ drain.phase = "probing"
    /\ drain' = DrainOff
    /\ UNCHANGED <<dispatchVars, outbox, shown, owner, session, online, waiting, tapped,
                   copies, queued, restarts>>

Reclaimed(o) ==
    IF outbox[o].status = "inFlight" THEN [outbox[o] EXCEPT !.status = "pending"] ELSE outbox[o]

\* Slip: the operations left inFlight are not reclaimed.
ReadQueueNoReclaim ==
    /\ drain.phase = "probing"
    /\ online
    /\ drain' = [DrainOff EXCEPT
                    !.phase = "loop",
                    !.batch = [o \in Key |->
                        IF outbox[o].status = "pending" THEN outbox[o] ELSE Absent]]
    /\ UNCHANGED <<dispatchVars, outbox, shown, owner, session, online, waiting, tapped,
                   copies, queued, restarts>>

\* reclaimInFlightOperations(), then pendingOperations().
ReadQueue ==
    /\ drain.phase = "probing"
    /\ online
    /\ outbox' = [o \in Key |-> Reclaimed(o)]
    /\ drain' = [DrainOff EXCEPT
                    !.phase = "loop",
                    !.batch = [o \in Key |->
                        IF Reclaimed(o).status = "pending" THEN Reclaimed(o) ELSE Absent]]
    /\ UNCHANGED <<dispatchVars, shown, owner, session, online, waiting, tapped, copies,
                   queued, restarts>>

Unvisited == {o \in Key : drain.batch[o].status = "pending"} \ drain.visited

\* The loop is at o: the oldest operation of the batch it has not visited.
At(o) ==
    /\ drain.phase = "loop"
    /\ o \in Unvisited
    /\ \A p \in Unvisited : drain.batch[o].at <= drain.batch[p].at

Held(o) == EntityOf[o] \in drain.blocked \/ drain.batch[o].later

\* Slip: an entity whose operation did not get through is not blocked.
VisitNeverBlocks(o, confirmed) ==
    drain' = [drain EXCEPT !.phase = "loop", !.current = NoKey, !.visited = @ \cup {o}]

\* Slip: an operation that did not get through is tried again at once.
VisitUntilConfirmed(o, confirmed) ==
    drain' = [drain EXCEPT !.phase = "loop",
                           !.current = NoKey,
                           !.visited = IF confirmed THEN @ \cup {o} ELSE @]

\* The drain after o: if o did not get through, its entity is blocked.
Visit(o, confirmed) ==
    drain' = [drain EXCEPT
                 !.phase = "loop",
                 !.current = NoKey,
                 !.visited = @ \cup {o},
                 !.blocked = IF confirmed THEN @ ELSE @ \cup ({EntityOf[o]} \ {NoEntity})]

\* An earlier write of the entity is outstanding, or the backoff is not over.
HoldBack(o) ==
    /\ At(o)
    /\ Held(o)
    /\ Visit(o, FALSE)
    /\ UNCHANGED <<dispatchVars, outbox, shown, owner, session, online, waiting, tapped,
                   copies, queued, restarts>>

\* Slip: the operation is taken off the queue before it is sent.
TransmitDequeues(o, a) ==
    /\ At(o)
    /\ ~Held(o)
    /\ Put(o, Absent)
    /\ Send(a, o)
    /\ waiting' = [waiting EXCEPT ![a] = "engine"]
    /\ drain' = [drain EXCEPT !.phase = "sending", !.current = o]
    /\ UNCHANGED <<shown, owner, session, online, tapped, copies, queued, restarts>>

\* _process: mark the copy the loop holds as inFlight and send it.
Transmit(o, a) ==
    /\ At(o)
    /\ ~Held(o)
    /\ Put(o, [drain.batch[o] EXCEPT !.status = "inFlight"])
    /\ Send(a, o)
    /\ waiting' = [waiting EXCEPT ![a] = "engine"]
    /\ drain' = [drain EXCEPT !.phase = "sending", !.current = o]
    /\ UNCHANGED <<shown, owner, session, online, tapped, copies, queued, restarts>>

\* The tries saturate at MaxTries, where shouldRetry is already FALSE.
Tried(e) == IF e.tries < MaxTries THEN e.tries + 1 ELSE MaxTries

\* _scheduleRetry: back to pending behind a backoff, or parked as failed.
Retried(e) ==
    LET n == Tried(e) IN
    IF n < MaxTries
    THEN {[e EXCEPT !.status = "pending", !.tries = n, !.later = b] : b \in BOOLEAN}
    ELSE {[e EXCEPT !.status = "failed", !.tries = n, !.later = FALSE]}

\* Slip: the class of the answer becomes the status, whatever it is.
ProcessedAsAnswered(o, c) == {[drain.batch[o] EXCEPT !.status = c, !.later = FALSE]}

\* The envelopes _process may store for o after an answer of class c.
Processed(o, c) ==
    LET e == drain.batch[o] IN
    CASE c = "transient" -> Retried(e)
      [] c = "conflict" /\ o \notin HighRisk ->
            {[e EXCEPT !.status = "pending", !.tries = Tried(e), !.later = b] : b \in BOOLEAN}
      [] OTHER -> {[e EXCEPT !.status = c, !.later = FALSE]}

EngineAnswer(a) ==
    LET o == drain.current
        c == Classify(attempt[a].reply)
    IN
    /\ waiting[a] = "engine"
    /\ attempt[a].pc = "done"
    /\ \E e \in Processed(o, c) : Put(o, e)
    /\ Visit(o, c = "confirmed")
    /\ Forget(a)
    /\ StopWaiting(a)
    /\ UNCHANGED <<shown, owner, session, online, tapped, copies, queued, restarts>>

EngineTimeout(a) ==
    LET o == drain.current IN
    /\ waiting[a] = "engine"
    /\ \E e \in Processed(o, "transient") : Put(o, e)
    /\ Visit(o, FALSE)
    /\ StopWaiting(a)
    /\ UNCHANGED <<dispatchVars, shown, owner, session, online, tapped, copies, queued,
                   restarts>>

\* Any other exception leaves the operation inFlight; finally ends the drain.
EngineThrows(a) ==
    /\ waiting[a] = "engine"
    /\ drain' = DrainOff
    /\ StopWaiting(a)
    /\ UNCHANGED <<dispatchVars, outbox, shown, owner, session, online, tapped, copies,
                   queued, restarts>>

DrainEnds ==
    /\ drain.phase = "loop"
    /\ Unvisited = {}
    /\ drain' = DrainOff
    /\ UNCHANGED <<dispatchVars, outbox, shown, owner, session, online, waiting, tapped,
                   copies, queued, restarts>>

BackoffElapses(o) ==
    /\ outbox[o].later
    /\ outbox' = [outbox EXCEPT ![o].later = FALSE]
    /\ UNCHANGED <<dispatchVars, shown, owner, session, online, waiting, drain, tapped,
                   copies, queued, restarts>>

-----------------------------------------------------------------------------
(***************************************************************************)
(* What starts a drain: reconnecting, resuming the app, the Sync Center.   *)
(***************************************************************************)
Reconnect ==
    /\ ~online
    /\ online' = TRUE
    /\ Flush
    /\ UNCHANGED <<dispatchVars, outbox, shown, owner, session, waiting, tapped, copies,
                   queued, restarts>>

Disconnect ==
    /\ online
    /\ online' = FALSE
    /\ UNCHANGED <<dispatchVars, outbox, shown, owner, session, waiting, drain, tapped,
                   copies, queued, restarts>>

\* flushIfOnline() on AppLifecycleState.resumed.
Resume ==
    /\ online
    /\ drain.phase = "off"
    /\ Flush
    /\ UNCHANGED <<dispatchVars, outbox, shown, owner, session, online, waiting, tapped,
                   copies, queued, restarts>>

\* Slip: everything that is not confirmed yet is requeued.
RetryTappedUnconfirmed(t) ==
    /\ t \notin tapped
    /\ tapped' = tapped \cup {t}
    /\ copies' = [copies EXCEPT ![t] =
                     [o \in Key |-> IF outbox[o].status \in {"confirmed", "conflict"}
                                    THEN Absent ELSE outbox[o]]]
    /\ UNCHANGED <<dispatchVars, outbox, shown, owner, session, online, waiting, drain,
                   queued, restarts>>

\* retryAllNow: read every operation, requeue the failed ones one by one from
\* what was read, then flush.
RetryTapped(t) ==
    /\ t \notin tapped
    /\ tapped' = tapped \cup {t}
    /\ copies' = [copies EXCEPT ![t] =
                     [o \in Key |-> IF outbox[o].status = "failed" THEN outbox[o] ELSE Absent]]
    /\ UNCHANGED <<dispatchVars, outbox, shown, owner, session, online, waiting, drain,
                   queued, restarts>>

Requeue(t, o) ==
    /\ copies[t][o] # Absent
    /\ Put(o, [copies[t][o] EXCEPT !.status = "pending", !.later = FALSE])
    /\ copies' = [copies EXCEPT ![t][o] = Absent]
    /\ UNCHANGED <<dispatchVars, shown, owner, session, online, waiting, drain, tapped,
                   queued, restarts>>

RetryFlushes(t) ==
    /\ t \in tapped
    /\ copies[t] = NoOps
    /\ tapped' = tapped \ {t}
    /\ Flush
    /\ UNCHANGED <<dispatchVars, outbox, shown, owner, session, online, waiting, copies,
                   queued, restarts>>

\* "Keep mine" requeues a parked conflict, then flushes.
KeepMine(o) ==
    /\ outbox[o].status = "conflict"
    /\ Put(o, [outbox[o] EXCEPT !.status = "pending", !.later = FALSE])
    /\ Flush
    /\ UNCHANGED <<dispatchVars, shown, owner, session, online, waiting, tapped, copies,
                   queued, restarts>>

\* "Use server" drops it, then flushes.
UseServer(o) ==
    /\ outbox[o].status = "conflict"
    /\ Put(o, Absent)
    /\ Show(o, "discarded")
    /\ Flush
    /\ UNCHANGED <<dispatchVars, owner, session, online, waiting, tapped, copies, queued,
                   restarts>>

-----------------------------------------------------------------------------
(***************************************************************************)
(* Kill and relaunch; logout and the next login.                           *)
(***************************************************************************)
\* All that is in memory is lost.  start() flushes on boot.
Restart ==
    /\ restarts < MaxRestarts
    /\ restarts' = restarts + 1
    /\ outbox' = IF Durable THEN outbox ELSE NoOps
    /\ shown' = [o \in Key |-> IF shown[o] = "waiting" THEN "lost" ELSE shown[o]]
    /\ waiting' = [a \in Attempt |-> "nobody"]
    /\ drain' = [DrainOff EXCEPT !.phase = "probing"]
    /\ tapped' = {}
    /\ copies' = [t \in Tap |-> NoOps]
    /\ UNCHANGED <<dispatchVars, owner, session, online, queued>>

\* AuthNotifier.logout clears the store and touches nothing else of the
\* platform: a drain, a retry or a send in progress goes on.
SwitchUser ==
    /\ session < MaxSession
    /\ session' = session + 1
    /\ outbox' = NoOps
    /\ UNCHANGED <<dispatchVars, shown, owner, online, waiting, drain, tapped, copies,
                   queued, restarts>>

-----------------------------------------------------------------------------
GatewayStep(a) == GatewayAnswer(a) \/ GatewayTimeout(a)

EngineStep ==
    \/ ReadQueue \/ DrainEnds
    \/ \E o \in Key : HoldBack(o) \/ \E a \in Attempt : Transmit(o, a)
    \/ \E a \in Attempt : EngineAnswer(a) \/ EngineTimeout(a)

UserStep ==
    \/ \E o \in Key : \/ SubmitOffline(o) \/ KeepMine(o) \/ UseServer(o)
                      \/ \E a \in Attempt : SubmitOnline(o, a)
    \/ \E t \in Tap : RetryTapped(t)
    \/ SwitchUser

RetryStep(t) == RetryFlushes(t) \/ \E o \in Key : Requeue(t, o)

\* The caller is gone: nobody reads this answer.
Reap(a) == waiting[a] = "nobody" /\ Forget(a)

NetworkStep(a) == (ServerStep(a) \/ Die(a) \/ Reap(a)) /\ UNCHANGED clientVars

Next ==
    \/ UserStep
    \/ EngineStep \/ ProbeFails
    \/ \E a \in Attempt : NetworkStep(a) \/ GatewayStep(a) \/ EngineThrows(a)
    \/ \E t \in Tap : RetryStep(t)
    \/ \E o \in Key : BackoffElapses(o)
    \/ Reconnect \/ Disconnect \/ Resume \/ Restart

Spec == Init /\ [][Next]_vars

\* The answer to o, or the lack of one, is dealt with.
Settle(o) == drain.current = o /\ \E a \in Attempt : EngineAnswer(a) \/ EngineTimeout(a)

\* What the program and the server do by themselves: requests are answered or
\* abandoned, a started drain and a started retry loop go on, time passes.
\* A probe that is repeated for ever does not fail for ever, and neither does
\* sending o throw for ever.  No user action, no reconnection and no resume is
\* promised.
FairSpec ==
    /\ Spec
    /\ \A a \in Attempt :
          /\ WF_vars((ServerStep(a) \/ Reap(a)) /\ UNCHANGED clientVars)
          /\ WF_vars(GatewayStep(a))
    /\ WF_vars(EngineStep)
    /\ SF_vars(ReadQueue)
    /\ \A o \in Key : SF_vars(Settle(o)) /\ WF_vars(BackoffElapses(o))
    /\ \A t \in Tap : WF_vars(RetryStep(t))

\* ... and the user comes back to the app for ever.
FairSpecResume == FairSpec /\ WF_vars(Resume)

-----------------------------------------------------------------------------
ClientTypeOK ==
    /\ outbox \in [Key -> Envelope]
    /\ shown \in [Key -> {"nothing", "waiting", "pending", "confirmed", "conflict",
                          "failed", "lost", "discarded"}]
    /\ owner \in [Key -> 0..MaxSession]
    /\ session \in 0..MaxSession
    /\ online \in BOOLEAN
    /\ waiting \in [Attempt -> {"nobody", "gateway", "engine"}]
    /\ drain \in Drain
    /\ tapped \subseteq Tap
    /\ copies \in [Tap -> [Key -> Envelope]]
    /\ queued \in Nat
    /\ restarts \in 0..MaxRestarts

SyncTypeOK == DispatchTypeOK /\ ClientTypeOK

\* A success the user saw at submission (a fee receipt is issued on it) is of a
\* write the server committed.  It rests on the first request with a key never
\* being answered 409 IDEMPOTENCY_CONFLICT (mutation_gateway, confirmed).
ReceiptIsFinal == \A o \in Key : shown[o] = "confirmed" => commits[o] >= 1

\* With the SQLite store, what the gateway told the signed-in user is queued,
\* parked or failed stays listed in the outbox until it is resolved, through
\* kills, drains, retries and lost answers.
QueuedIsKept ==
    \A o \in Key \ OnlineOnly :
        /\ Durable
        /\ shown[o] \in {"pending", "conflict", "failed"}
        /\ owner[o] = session
        => outbox[o].status # "absent"

\* "this only ever recovers orphans, never a live claim": when a drain is about
\* to reclaim the inFlight operations, no earlier drain awaits an answer.
ReclaimOnlyOrphans ==
    drain.phase = "probing" => \A a \in Attempt : waiting[a] # "engine"

\* What makes that true: only a drain that is sending awaits an answer, and it
\* awaits one, for an operation of its batch.
OneDrain ==
    /\ \A a \in Attempt : waiting[a] = "engine" => drain.phase = "sending"
    /\ \A a, b \in Attempt : waiting[a] = "engine" /\ waiting[b] = "engine" => a = b
    /\ drain.phase = "sending"
          => drain.current \in Key /\ drain.batch[drain.current].status = "pending"

\* A request that is done has an answer.
Answered ==
    \A a \in Attempt : /\ (attempt[a].pc = "refused" => attempt[a].reply \in Refusal)
                       /\ (attempt[a].pc = "done" => attempt[a].reply \in Answer)

SyncInv == SyncTypeOK /\ OneDrain /\ Answered

\* What makes ReceiptIsFinal true: an operation the user was told nothing of is
\* not stored anywhere, one that was not submitted has no request and no claim,
\* and while the gateway awaits the answer to an operation it is the only
\* request with that key, so that it finds the claim free.
FreshIsUnstored ==
    \A o \in Key : shown[o] \in {"nothing", "waiting"} =>
        /\ outbox[o] = Absent
        /\ drain.batch[o].status # "pending"
        /\ \A t \in Tap : copies[t][o] = Absent

UnsentIsFree ==
    \A o \in Key : shown[o] = "nothing" =>
        claim[o] = "free" /\ \A a \in Attempt : attempt[a].key # o

FirstRequest ==
    \A a \in Attempt : waiting[a] = "gateway" =>
        /\ attempt[a].key \in Key
        /\ shown[attempt[a].key] = "waiting"
        /\ \A b \in Attempt : b # a => attempt[b].key # attempt[a].key
        /\ attempt[a].pc \notin {"idle", "looking"}
        /\ (attempt[a].pc = "sent" => claim[attempt[a].key] = "free")
        /\ attempt[a].reply # "duplicate"

ReceiptInv == SyncInv /\ FreshIsUnstored /\ UnsentIsFree /\ FirstRequest /\ ReceiptIsFinal


\* The drain sends the copies it read before its first await: until a copy's
\* turn comes, the stored operation is still waiting to be sent.  A manual
\* retry, a conflict the user resolves, a kill or a late answer to an earlier
\* drain does not make it stale.  (A logout does: see NothingSurvivesSwitch.)
BatchIsCurrent ==
    session = 0 /\ drain.phase \in {"loop", "sending"} =>
        \A o \in Unvisited \ {drain.current} : outbox[o].status = "pending"

SameEntity(p, q) == p # q /\ EntityOf[p] = EntityOf[q] /\ EntityOf[p] # NoEntity

\* REL-9: a drain sends an operation only after every older operation of the
\* same entity that it read from the queue was confirmed.
DrainKeepsOrder ==
    \A p, q \in Key :
        /\ drain.phase = "sending"
        /\ drain.current = q
        /\ SameEntity(p, q)
        /\ drain.batch[p].status = "pending"
        /\ drain.batch[p].at < drain.batch[q].at
        => outbox[p].status \in {"confirmed", "absent"}

\* A confirmed operation is never sent again or reported as anything else: no
\* stale copy of it is written back, by a drain, a retry or a late answer.
ConfirmedIsFinal ==
    [][\A o \in Key : outbox[o].status = "confirmed"
                         => outbox'[o].status \in {"confirmed", "absent"}]_vars

\* What DrainKeepsOrder and ConfirmedIsFinal rest on, and no code enforces: "Retry
\* now" is not tapped again while an earlier tap still requeues.
OneTapAtATime == \A t, u \in tapped : t = u

\* Every queued write is settled (confirmed, parked or failed) in the end, if
\* the connection comes back for good and the user comes back to the app.
Unsettled(o) == outbox[o].status \in {"pending", "inFlight"}

SettlesEventually == (<>[]online) => \A o \in Key : Unsettled(o) ~> ~Unsettled(o)

-----------------------------------------------------------------------------
\* What comments and the design say of the platform, and the code does not do.

\* "(and on a backoff timer, and on enqueue-while-online) it drains the
\* outbox": a queued write is sent without a reconnection, a resume or a tap.
QueuedDrains == (<>[]online) => \A o \in Key : outbox[o].status = "pending" ~> outbox[o].status # "pending"

\* "a 409 idempotency replay proving the write was already applied": what the
\* outbox lists as confirmed was applied, or is still being applied.
ConfirmedIsApplied ==
    \A o \in Key :
        outbox[o].status = "confirmed"
            => commits[o] >= 1 \/ \E a \in Attempt : attempt[a].pc \in Running /\ attempt[a].key = o

\* "every LATER op for that same entity is held until the earlier one clears":
\* while q is sent, no older operation of its entity is outstanding.
HeldUntilCleared ==
    \A p, q \in Key :
        /\ drain.phase = "sending"
        /\ drain.current = q
        /\ SameEntity(p, q)
        /\ outbox[p].at < outbox[q].at
        => outbox[p].status \in {"confirmed", "absent"}

\* "the pilot-critical writes that must survive interruption": a kill does not
\* make a submitted, queueable write disappear.
SurvivesInterruption ==
    \A o \in Key \ OnlineOnly :
        shown[o] = "lost" => outbox[o].status # "absent" \/ commits[o] >= 1

\* "wipe ... the outbox on logout / user switch so PII never leaks to the next
\* user": what the outbox holds was submitted by the user signed in.
NothingSurvivesSwitch == \A o \in Key : outbox[o].status # "absent" => owner[o] = session
=============================================================================
