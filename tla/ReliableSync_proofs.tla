------------------------- MODULE ReliableSync_proofs -------------------------
(***************************************************************************)
(* Proofs about ReliableSync: the client and the network together only     *)
(* take the steps IdempotentDispatch allows, so what is proved there holds *)
(* of the whole; types and one drain at a time (SyncInv); what a success   *)
(* shown at submission rests on (ReceiptInv); that nothing the user was    *)
(* told is queued gets lost (KeptInv); that a drain's copies of what it    *)
(* has ahead are current (AheadIsPending); and, as long as "Retry now" is  *)
(* not tapped while an earlier tap still requeues, the order and the       *)
(* finality of what a drain sends (QueueInv).                              *)
(***************************************************************************)
EXTENDS ReliableSync, IdempotentDispatch_proofs

-----------------------------------------------------------------------------
(***************************************************************************)
(* The composition implements the server's specification.                  *)
(***************************************************************************)
LEMMA UserStepIsDispatchStep ==
  ASSUME UserStep
  PROVE  [DispatchNext]_dispatchVars
<1>1. ASSUME NEW o \in Key, NEW a \in Attempt, SubmitOnline(o, a) PROVE DispatchNext
  BY <1>1 DEF SubmitOnline, DispatchNext
<1>2. ASSUME NEW o \in Key, SubmitOffline(o) \/ KeepMine(o) \/ UseServer(o)
      PROVE  UNCHANGED dispatchVars
  BY <1>2 DEF SubmitOffline, KeepMine, UseServer
<1>3. ASSUME NEW t \in Tap, RetryTapped(t) PROVE UNCHANGED dispatchVars
  BY <1>3 DEF RetryTapped
<1>4. ASSUME SwitchUser PROVE UNCHANGED dispatchVars
  BY <1>4 DEF SwitchUser
<1> QED
  BY <1>1, <1>2, <1>3, <1>4 DEF UserStep

LEMMA EngineStepIsDispatchStep ==
  ASSUME EngineStep
  PROVE  [DispatchNext]_dispatchVars
<1>1. ASSUME NEW o \in Key, NEW a \in Attempt, Transmit(o, a) PROVE DispatchNext
  BY <1>1 DEF Transmit, DispatchNext
<1>2. ASSUME NEW a \in Attempt, EngineAnswer(a) PROVE DispatchNext
  BY <1>2 DEF EngineAnswer, DispatchNext
<1>3. ASSUME NEW a \in Attempt, EngineTimeout(a) PROVE UNCHANGED dispatchVars
  BY <1>3 DEF EngineTimeout
<1>4. ASSUME NEW o \in Key, HoldBack(o) PROVE UNCHANGED dispatchVars
  BY <1>4 DEF HoldBack
<1>5. ASSUME ReadQueue \/ DrainEnds PROVE UNCHANGED dispatchVars
  BY <1>5 DEF ReadQueue, DrainEnds
<1> QED
  BY <1>1, <1>2, <1>3, <1>4, <1>5 DEF EngineStep

LEMMA NextIsDispatchStep ==
  ASSUME [Next]_vars
  PROVE  [DispatchNext]_dispatchVars
<1>1. ASSUME NEW a \in Attempt, NetworkStep(a) PROVE DispatchNext
  BY <1>1 DEF NetworkStep, Reap, DispatchNext
<1>2. ASSUME NEW a \in Attempt, GatewayStep(a) \/ EngineThrows(a)
      PROVE  [DispatchNext]_dispatchVars
  BY <1>2 DEF GatewayStep, GatewayAnswer, GatewayTimeout, EngineThrows, DispatchNext
<1>3. ASSUME NEW t \in Tap, RetryStep(t) PROVE UNCHANGED dispatchVars
  BY <1>3 DEF RetryStep, RetryFlushes, Requeue
<1>4. ASSUME NEW o \in Key, BackoffElapses(o) PROVE UNCHANGED dispatchVars
  BY <1>4 DEF BackoffElapses
<1>5. ASSUME ProbeFails \/ Reconnect \/ Disconnect \/ Resume \/ Restart
      PROVE  UNCHANGED dispatchVars
  BY <1>5 DEF ProbeFails, Reconnect, Disconnect, Resume, Restart
<1>6. CASE UNCHANGED vars
  BY <1>6 DEF vars
<1>7. CASE Next
  BY <1>1, <1>2, <1>3, <1>4, <1>5, <1>7, UserStepIsDispatchStep, EngineStepIsDispatchStep
     DEF Next
<1> QED
  BY <1>6, <1>7

\* Whatever the app does, the server runs the protocol of IdempotentDispatch.
THEOREM SyncIsDispatch == Spec => DispatchSpec
<1>1. Init => DispatchInit
  BY DEF Init
<1>2. [Next]_vars => [DispatchNext]_dispatchVars
  BY NextIsDispatchStep
<1> QED
  BY <1>1, <1>2, PTL DEF Spec, DispatchSpec

\* An operation of the app, retried by the gateway, the engine and the user,
\* commits at most once.
THEOREM OperationsOnce == Faithful /\ Spec => []AtMostOnce
  BY SyncIsDispatch, ExactlyOnce

\* ... and the app as a whole keeps the promise.
THEOREM SyncKeepsPromise == Faithful /\ Spec => KeepsPromise
  BY SyncIsDispatch, Refinement

-----------------------------------------------------------------------------
(***************************************************************************)
(* Types, and one drain at a time.                                         *)
(***************************************************************************)
\* Requests keep their answers.
LEMMA StepKeepsAnswered ==
  ASSUME DispatchTypeOK, Answered, [DispatchNext]_dispatchVars
  PROVE  Answered'
<1> USE DEF DispatchTypeOK, AttemptState, Answered
<1>1. ASSUME NEW a \in Attempt, \/ \E k \in Key : Send(a, k)
                                \/ WinClaim(a) \/ LoseClaim(a) \/ ClaimFails(a) \/ Replay(a)
      PROVE  Answered'
  BY <1>1 DEF Send, WinClaim, LoseClaim, ClaimFails, Replay, Goto, Reply, Answer
<1>2. ASSUME NEW a \in Attempt, \/ Commit(a) \/ CommitThenFail(a)
                                \/ \E r \in Refusal : Refuse(a, r) \/ BypassRefuse(a, r)
                                \/ BypassCommit(a)
      PROVE  Answered'
  BY <1>2 DEF Commit, CommitThenFail, Refuse, BypassRefuse, BypassCommit, Goto, Reply, Answer,
     Refusal
<1>3. ASSUME NEW a \in Attempt, \/ Store(a) \/ StoreFails(a) \/ Release(a) \/ ReleaseFails(a)
                                \/ Die(a) \/ Forget(a)
      PROVE  Answered'
  BY <1>3 DEF Store, StoreFails, Release, ReleaseFails, Die, Forget, Goto, Reply, Idle, Answer
<1>4. CASE UNCHANGED dispatchVars
  BY <1>4 DEF dispatchVars
<1>5. CASE DispatchNext
  BY <1>1, <1>2, <1>3, <1>5 DEF DispatchNext, ServerStep
<1> QED
  BY <1>4, <1>5

\* What the client stores is an envelope.
LEMMA NewEnvelope ==
  ASSUME queued \in Nat, NEW s \in Status
  PROVE  [status |-> s, tries |-> 0, later |-> FALSE, at |-> queued + 1] \in Envelope
  BY SyncAssumption DEF SyncAssumption, Envelope

LEMMA AbsentIsEnvelope == Absent \in Envelope /\ NoOps \in [Key -> Envelope]
  BY SyncAssumption DEF SyncAssumption, Absent, NoOps, Envelope, Status

LEMMA StatusOfEnvelope ==
  ASSUME NEW e \in Envelope, NEW s \in Status, NEW b \in BOOLEAN
  PROVE  /\ [e EXCEPT !.status = s] \in Envelope
         /\ [e EXCEPT !.later = b] \in Envelope
         /\ [e EXCEPT !.status = s, !.later = b] \in Envelope
  BY DEF Envelope

LEMMA TriedEnvelope ==
  ASSUME NEW e \in Envelope, NEW s \in Status, NEW b \in BOOLEAN
  PROVE  /\ Tried(e) \in 0..MaxTries
         /\ [e EXCEPT !.status = s, !.tries = Tried(e), !.later = b] \in Envelope
<1>1. Tried(e) \in 0..MaxTries
  BY SyncAssumption DEF SyncAssumption, Envelope, Tried
<1> QED
  BY <1>1 DEF Envelope

LEMMA RetriedEnvelope ==
  ASSUME NEW e \in Envelope
  PROVE  Retried(e) \subseteq Envelope
<1> DEFINE f(s, b) == [e EXCEPT !.status = s, !.tries = Tried(e), !.later = b]
<1>1. \A b \in BOOLEAN : f("pending", b) \in Envelope
  BY TriedEnvelope DEF Status
<1>2. f("failed", FALSE) \in Envelope
  BY TriedEnvelope DEF Status
<1>3. Retried(e) = IF Tried(e) < MaxTries THEN {f("pending", b) : b \in BOOLEAN}
                                         ELSE {f("failed", FALSE)}
  BY DEF Retried
<1> HIDE DEF f
<1> QED
  BY <1>1, <1>2, <1>3

Class == {"confirmed", "conflict", "transient", "failed"}

LEMMA ClassOfAnswer ==
  ASSUME NEW r \in Answer
  PROVE  Classify(r) \in Class
  BY DEF Answer, Refusal, Classify, Class

LEMMA ProcessedEnvelope ==
  ASSUME drain \in Drain, NEW o \in Key, NEW c \in Class
  PROVE  Processed(o, c) \subseteq Envelope
<1> DEFINE e == drain.batch[o]
<1>1. e \in Envelope
  BY DEF Drain
<1>2. "pending" \in Status /\ "failed" \in Status /\ (c # "transient" => c \in Status)
  BY DEF Status, Class
<1> HIDE DEF e
<1>3. Retried(e) \subseteq Envelope
  BY <1>1, RetriedEnvelope
<1>4. {[e EXCEPT !.status = "pending", !.tries = Tried(e), !.later = b] : b \in BOOLEAN}
        \subseteq Envelope
  <2>1. \A b \in BOOLEAN :
          [e EXCEPT !.status = "pending", !.tries = Tried(e), !.later = b] \in Envelope
    BY <1>1, <1>2, TriedEnvelope
  <2> QED
    BY <2>1
<1>5. c # "transient" => {[e EXCEPT !.status = c, !.later = FALSE]} \subseteq Envelope
  BY <1>1, <1>2, StatusOfEnvelope
<1> QED
  BY <1>3, <1>4, <1>5 DEF Processed, e

\* The drain's own moves keep its type.
LEMMA DrainMoves ==
  ASSUME drain \in Drain
  PROVE  /\ DrainOff \in Drain
         /\ [DrainOff EXCEPT !.phase = "probing"] \in Drain
         /\ \A o \in Key, b \in BOOLEAN : Visit(o, b) => drain' \in Drain
         /\ \A o \in Key : [drain EXCEPT !.phase = "sending", !.current = o] \in Drain
         /\ \A q \in [Key -> Envelope] :
               [DrainOff EXCEPT !.phase = "loop", !.batch = q] \in Drain
<1> USE DEF Drain, DrainOff
<1>1. DrainOff \in Drain
  BY AbsentIsEnvelope
<1>2. ASSUME NEW o \in Key, NEW b \in BOOLEAN, Visit(o, b) PROVE drain' \in Drain
  BY <1>2 DEF Visit
<1> QED
  BY <1>1, <1>2

\* The steps of the engine keep the types: what it stores comes from the batch
\* it read or from the outbox.
LEMMA EngineKeepsTypes ==
  ASSUME SyncInv, EngineStep
  PROVE  ClientTypeOK'
<1> USE DEF SyncInv, SyncTypeOK, ClientTypeOK
<1>1. ASSUME ReadQueue PROVE ClientTypeOK'
  <2>1. \A o \in Key : Reclaimed(o) \in Envelope
    BY StatusOfEnvelope DEF Reclaimed, Status
  <2>2. outbox' \in [Key -> Envelope]
    BY <1>1, <2>1 DEF ReadQueue
  <2>3. [o \in Key |-> IF Reclaimed(o).status = "pending" THEN Reclaimed(o) ELSE Absent]
          \in [Key -> Envelope]
    BY <2>1, AbsentIsEnvelope
  <2>4. drain' \in Drain
    BY <1>1, <2>3, DrainMoves DEF ReadQueue
  <2> QED
    BY SMTT(30), <1>1, <2>2, <2>4 DEF ReadQueue
<1>2. ASSUME DrainEnds PROVE ClientTypeOK'
  BY <1>2, DrainMoves DEF DrainEnds
<1>3. ASSUME NEW o \in Key, HoldBack(o) PROVE ClientTypeOK'
  BY <1>3, DrainMoves DEF HoldBack
<1>4. ASSUME NEW o \in Key, NEW a \in Attempt, Transmit(o, a) PROVE ClientTypeOK'
  <2>1. drain.batch[o] \in Envelope
    BY SMTT(30) DEF Drain
  <2>2. [drain.batch[o] EXCEPT !.status = "inFlight"] \in Envelope
    BY <2>1, StatusOfEnvelope DEF Status
  <2>3. outbox' \in [Key -> Envelope]
    BY <1>4, <2>2 DEF Transmit, Put
  <2>4. drain' \in Drain
    BY <1>4, DrainMoves DEF Transmit
  <2>5. waiting' \in [Attempt -> {"nobody", "gateway", "engine"}]
    BY <1>4 DEF Transmit
  <2> QED
    BY <1>4, <2>3, <2>4, <2>5 DEF Transmit
<1>5. ASSUME NEW a \in Attempt, NEW c \in Class, NEW b \in BOOLEAN, waiting[a] = "engine",
             \E e \in Processed(drain.current, c) : Put(drain.current, e),
             Visit(drain.current, b), StopWaiting(a),
             UNCHANGED <<shown, owner, session, online, tapped, copies, queued, restarts>>
      PROVE  ClientTypeOK'
  <2>1. drain.current \in Key
    BY <1>5 DEF OneDrain
  <2>2. outbox' \in [Key -> Envelope]
    <3>1. PICK o \in Key : o = drain.current
      BY <2>1
    <3>2. PICK e \in Processed(o, c) : Put(o, e)
      BY <1>5, <3>1
    <3>3. e \in Envelope
      BY <3>2, ProcessedEnvelope
    <3> QED
      BY <3>2, <3>3 DEF Put
  <2>3. drain' \in Drain
    BY <1>5, <2>1, DrainMoves
  <2> QED
    BY <1>5, <2>2, <2>3 DEF StopWaiting
<1>6. ASSUME NEW a \in Attempt, EngineAnswer(a) PROVE ClientTypeOK'
  <2>1. Classify(attempt[a].reply) \in Class
    BY <1>6, ClassOfAnswer DEF EngineAnswer, Answered
  <2> QED
    BY <1>5, <1>6, <2>1 DEF EngineAnswer
<1>7. ASSUME NEW a \in Attempt, EngineTimeout(a) PROVE ClientTypeOK'
  BY <1>5, <1>7 DEF EngineTimeout, Class
<1> QED
  BY <1>1, <1>2, <1>3, <1>4, <1>6, <1>7 DEF EngineStep

\* So do those of the gateway, which stores new envelopes.
LEMMA GatewayKeepsTypes ==
  ASSUME SyncInv, NEW a \in Attempt, GatewayStep(a)
  PROVE  ClientTypeOK'
<1> USE DEF SyncInv, SyncTypeOK, ClientTypeOK
<1>1. ASSUME NEW o, NEW c \in Class, GatewayOutcome(o, c)
      PROVE  /\ outbox' \in [Key -> Envelope] /\ queued' \in Nat
             /\ shown' \in [Key -> {"nothing", "waiting", "pending", "confirmed", "conflict",
                                    "failed", "lost", "discarded"}]
  <2>1. CASE o \in OnlineOnly
    BY <1>1, <2>1 DEF GatewayOutcome, Show, Class
  <2>2. CASE o \notin OnlineOnly
    <3> DEFINE s == IF c = "transient" \/ (c = "conflict" /\ o \notin HighRisk)
                    THEN "pending" ELSE c
    <3>1. s \in Status /\ s \in {"pending", "confirmed", "conflict", "failed"}
      BY DEF Class, Status
    <3>2. PutNew(o, s) /\ Show(o, s)
      BY <1>1, <2>2 DEF GatewayOutcome
    <3> HIDE DEF s
    <3> DEFINE e == [status |-> s, tries |-> 0, later |-> FALSE, at |-> queued + 1]
    <3>3. e \in Envelope
      BY <3>1, NewEnvelope
    <3>4. outbox' = [outbox EXCEPT ![o] = e] /\ queued' = queued + 1
      BY <3>2 DEF PutNew, Put
    <3> HIDE DEF e
    <3>5. /\ outbox' \in [Key -> Envelope]
          /\ queued' \in Nat
      <4>1. outbox \in [Key -> Envelope] /\ queued \in Nat
        OBVIOUS
      <4>2. outbox' \in [Key -> Envelope]
        BY <3>3, <3>4, <4>1
      <4>3. queued' \in Nat
        BY <3>4, <4>1
      <4> QED
        BY <4>2, <4>3
    <3>6. shown' \in [Key -> {"nothing", "waiting", "pending", "confirmed", "conflict",
                             "failed", "lost", "discarded"}]
      BY <3>1, <3>2 DEF Show
    <3> QED
      BY <3>5, <3>6
  <2> QED
    BY <2>1, <2>2
<1>2. ASSUME GatewayAnswer(a) PROVE ClientTypeOK'
  <2>1. Classify(attempt[a].reply) \in Class
    BY <1>2, ClassOfAnswer DEF GatewayAnswer, Answered
  <2> QED
    BY <1>1, <1>2, <2>1 DEF GatewayAnswer, StopWaiting
<1>3. ASSUME GatewayTimeout(a) PROVE ClientTypeOK'
  BY <1>1, <1>3 DEF GatewayTimeout, StopWaiting, Class
<1> QED
  BY <1>2, <1>3 DEF GatewayStep

\* ... and those of the user, the retry loops and the environment.
LEMMA FlushKeepsType ==
  ASSUME drain \in Drain, Flush
  PROVE  drain' \in Drain
  BY DrainMoves DEF Flush

LEMMA UserKeepsTypes ==
  ASSUME SyncInv, UserStep
  PROVE  ClientTypeOK'
<1> USE SyncAssumption DEF SyncInv, SyncTypeOK, ClientTypeOK
<1>1. ASSUME NEW o \in Key, SubmitOffline(o) PROVE ClientTypeOK'
  <2>1. [status |-> "pending", tries |-> 0, later |-> FALSE, at |-> queued + 1] \in Envelope
    BY NewEnvelope DEF Status
  <2> QED
    BY <1>1, <2>1 DEF SubmitOffline, Submit, PutNew, Put, Show
<1>2. ASSUME NEW o \in Key, NEW a \in Attempt, SubmitOnline(o, a) PROVE ClientTypeOK'
  BY <1>2 DEF SubmitOnline, Submit, Show
<1>3. ASSUME NEW o \in Key, KeepMine(o) PROVE ClientTypeOK'
  <2>1. [outbox[o] EXCEPT !.status = "pending", !.later = FALSE] \in Envelope
    BY StatusOfEnvelope DEF Status
  <2> QED
    BY SMTT(30), <1>3, <2>1, FlushKeepsType DEF KeepMine, Put
<1>4. ASSUME NEW o \in Key, UseServer(o) PROVE ClientTypeOK'
  BY <1>4, AbsentIsEnvelope, FlushKeepsType DEF UseServer, Put, Show
<1>5. ASSUME NEW t \in Tap, RetryTapped(t) PROVE ClientTypeOK'
  BY <1>5, AbsentIsEnvelope DEF RetryTapped
<1>6. ASSUME SwitchUser PROVE ClientTypeOK'
  BY <1>6, AbsentIsEnvelope DEF SwitchUser, SyncAssumption
<1> QED
  BY <1>1, <1>2, <1>3, <1>4, <1>5, <1>6 DEF UserStep

LEMMA OthersKeepTypes ==
  ASSUME SyncInv,
         \/ \E a \in Attempt : NetworkStep(a) \/ EngineThrows(a)
         \/ \E t \in Tap : RetryStep(t)
         \/ \E o \in Key : BackoffElapses(o)
         \/ ProbeFails \/ Reconnect \/ Disconnect \/ Resume \/ Restart
         \/ UNCHANGED vars
  PROVE  ClientTypeOK'
<1> USE SyncAssumption DEF SyncInv, SyncTypeOK, ClientTypeOK
<1>1. ASSUME NEW a \in Attempt, NetworkStep(a) PROVE ClientTypeOK'
  BY <1>1 DEF NetworkStep, clientVars
<1>2. ASSUME NEW a \in Attempt, EngineThrows(a) PROVE ClientTypeOK'
  BY <1>2, DrainMoves DEF EngineThrows, StopWaiting
<1>3. ASSUME NEW t \in Tap, NEW o \in Key, Requeue(t, o) PROVE ClientTypeOK'
  <2>0. copies[t] \in [Key -> Envelope] /\ copies[t][o] \in Envelope
    BY SMTT(30)
  <2>1. [copies[t][o] EXCEPT !.status = "pending", !.later = FALSE] \in Envelope
    BY <2>0, StatusOfEnvelope DEF Status
  <2>2. copies' \in [Tap -> [Key -> Envelope]]
    BY <1>3, AbsentIsEnvelope DEF Requeue
  <2> QED
    BY <1>3, <2>1, <2>2 DEF Requeue, Put
<1>4. ASSUME NEW t \in Tap, RetryFlushes(t) PROVE ClientTypeOK'
  BY <1>4, FlushKeepsType DEF RetryFlushes
<1>5. ASSUME NEW o \in Key, BackoffElapses(o) PROVE ClientTypeOK'
  <2>1. outbox' \in [Key -> Envelope]
    BY <1>5, StatusOfEnvelope DEF BackoffElapses, Status
  <2> QED
    BY <1>5, <2>1 DEF BackoffElapses
<1>6. ASSUME ProbeFails PROVE ClientTypeOK'
  BY <1>6, DrainMoves DEF ProbeFails
<1>7. ASSUME Reconnect \/ Disconnect \/ Resume PROVE ClientTypeOK'
  BY <1>7, FlushKeepsType DEF Reconnect, Disconnect, Resume
<1>8. ASSUME Restart PROVE ClientTypeOK'
  <2>1. drain' \in Drain
    BY <1>8, DrainMoves DEF Restart
  <2>2. outbox' \in [Key -> Envelope] /\ copies' \in [Tap -> [Key -> Envelope]]
    BY <1>8, AbsentIsEnvelope DEF Restart
  <2>3. /\ waiting' \in [Attempt -> {"nobody", "gateway", "engine"}]
        /\ tapped' \subseteq Tap /\ restarts' \in 0..MaxRestarts
    BY <1>8 DEF Restart, SyncAssumption
  <2>4. shown' \in [Key -> {"nothing", "waiting", "pending", "confirmed", "conflict",
                           "failed", "lost", "discarded"}]
    BY <1>8 DEF Restart
  <2> QED
    BY <1>8, <2>1, <2>2, <2>3, <2>4 DEF Restart
<1>9. ASSUME UNCHANGED vars PROVE ClientTypeOK'
  BY <1>9 DEF vars, clientVars
<1> QED
  BY <1>1, <1>2, <1>3, <1>4, <1>5, <1>6, <1>7, <1>8, <1>9 DEF RetryStep

\* A drain starts only when none is running, and only the one that runs sends
\* and stops waiting.
LEMMA FlushKeepsOneDrain ==
  ASSUME ClientTypeOK, OneDrain, Flush, waiting' = waiting
  PROVE  OneDrain'
<1> USE DEF ClientTypeOK, OneDrain
<1>1. CASE drain.phase = "off"
  <2>1. drain'.phase = "probing"
    BY <1>1 DEF Flush, DrainOff
  <2>2. \A a \in Attempt : waiting'[a] # "engine"
    BY <1>1
  <2> QED
    BY <2>1, <2>2
<1>2. CASE drain.phase # "off"
  BY <1>2 DEF Flush
<1> QED
  BY <1>1, <1>2

LEMMA EngineKeepsOneDrain ==
  ASSUME ClientTypeOK, OneDrain, EngineStep
  PROVE  OneDrain'
<1> USE DEF OneDrain
<1>1. ASSUME ReadQueue \/ DrainEnds PROVE OneDrain'
  <2>1. \A q : [DrainOff EXCEPT !.phase = "loop", !.batch = q].phase = "loop"
    BY DEF DrainOff
  <2>2. CASE ReadQueue
    BY <2>1, <2>2 DEF ReadQueue
  <2>3. CASE DrainEnds
    BY <2>3 DEF DrainEnds, DrainOff
  <2> QED
    BY <1>1, <2>2, <2>3
<1>2. ASSUME NEW o \in Key, HoldBack(o) PROVE OneDrain'
  <2>1. drain.phase = "loop" /\ drain'.phase = "loop" /\ waiting' = waiting
    BY <1>2 DEF HoldBack, At, Visit, ClientTypeOK, Drain
  <2> QED
    BY <2>1
<1>3. ASSUME NEW o \in Key, NEW a \in Attempt, Transmit(o, a) PROVE OneDrain'
  <2>1. /\ drain.phase = "loop" /\ drain.batch[o].status = "pending"
        /\ drain' = [drain EXCEPT !.phase = "sending", !.current = o]
        /\ waiting' = [waiting EXCEPT ![a] = "engine"]
    BY <1>3 DEF Transmit, At, Unvisited, ClientTypeOK, Drain
  <2>2. \A b \in Attempt : waiting[b] # "engine"
    BY <2>1
  <2>3. \A b \in Attempt : waiting'[b] = "engine" => b = a
    BY <2>1, <2>2 DEF ClientTypeOK
  <2>4. drain'.phase = "sending" /\ drain'.current = o /\ drain'.batch = drain.batch
    BY <2>1 DEF ClientTypeOK, Drain
  <2> QED
    BY <2>1, <2>3, <2>4
<1>4. ASSUME NEW a \in Attempt, EngineAnswer(a) \/ EngineTimeout(a) PROVE OneDrain'
  <2>1. /\ waiting[a] = "engine" /\ waiting' = [waiting EXCEPT ![a] = "nobody"]
        /\ \E b : Visit(drain.current, b)
    BY <1>4 DEF EngineAnswer, EngineTimeout, StopWaiting
  <2>2. \A b \in Attempt : waiting'[b] # "engine"
    BY <2>1 DEF ClientTypeOK
  <2>3. drain'.phase = "loop"
    BY <2>1 DEF Visit, ClientTypeOK, Drain
  <2> QED
    BY <2>2, <2>3
<1> QED
  BY <1>1, <1>2, <1>3, <1>4 DEF EngineStep

LEMMA NextKeepsOneDrain ==
  ASSUME ClientTypeOK, OneDrain, [Next]_vars
  PROVE  OneDrain'
<1> USE DEF ClientTypeOK, OneDrain
<1>1. ASSUME NEW o \in Key, SubmitOffline(o) PROVE OneDrain'
  BY <1>1 DEF SubmitOffline
<1>2. ASSUME NEW o \in Key, NEW a \in Attempt, SubmitOnline(o, a) PROVE OneDrain'
  BY <1>2 DEF SubmitOnline
<1>3. ASSUME NEW o \in Key, KeepMine(o) \/ UseServer(o) PROVE OneDrain'
  BY <1>3, FlushKeepsOneDrain DEF KeepMine, UseServer
<1>4. ASSUME NEW t \in Tap, RetryTapped(t) \/ RetryStep(t) PROVE OneDrain'
  BY <1>4, FlushKeepsOneDrain DEF RetryTapped, RetryStep, RetryFlushes, Requeue
<1>5. ASSUME SwitchUser PROVE OneDrain'
  BY <1>5 DEF SwitchUser
<1>6. ASSUME UserStep PROVE OneDrain'
  BY <1>1, <1>2, <1>3, <1>4, <1>5, <1>6 DEF UserStep
<1>7. ASSUME NEW a \in Attempt, NetworkStep(a) PROVE OneDrain'
  BY <1>7 DEF NetworkStep, clientVars
<1>8. ASSUME NEW a \in Attempt, GatewayStep(a) PROVE OneDrain'
  BY <1>8 DEF GatewayStep, GatewayAnswer, GatewayTimeout, StopWaiting
<1>9. ASSUME NEW a \in Attempt, EngineThrows(a) PROVE OneDrain'
  BY <1>9 DEF EngineThrows, StopWaiting, DrainOff
<1>10. ASSUME NEW o \in Key, BackoffElapses(o) PROVE OneDrain'
  BY <1>10 DEF BackoffElapses
<1>11. ASSUME Reconnect \/ Resume PROVE OneDrain'
  BY <1>11, FlushKeepsOneDrain DEF Reconnect, Resume
<1>12. ASSUME ProbeFails \/ Disconnect \/ Restart PROVE OneDrain'
  BY <1>12 DEF ProbeFails, Disconnect, Restart, DrainOff
<1>13. CASE UNCHANGED vars
  BY <1>13 DEF vars, clientVars
<1>14. CASE Next
  BY <1>4, <1>6, <1>7, <1>8, <1>9, <1>10, <1>11, <1>12, <1>14, EngineKeepsOneDrain DEF Next
<1> QED
  BY <1>13, <1>14

LEMMA InitSync ==
  ASSUME Init
  PROVE  SyncInv
<1>1. DispatchTypeOK
  BY InitInv DEF Init, DispatchInv
<1>2. DrainOff \in Drain /\ NoOps \in [Key -> Envelope]
  <2>1. NoOps \in [Key -> Envelope]
    BY AbsentIsEnvelope
  <2> QED
    BY <2>1 DEF DrainOff, Drain
<1>3. ClientTypeOK
  BY <1>2, SyncAssumption DEF Init, ClientInit, ClientTypeOK, SyncAssumption
<1>4. OneDrain /\ Answered
  BY DEF Init, ClientInit, DispatchInit, OneDrain, Answered, DrainOff, Idle
<1> QED
  BY <1>1, <1>3, <1>4 DEF SyncInv, SyncTypeOK

LEMMA NextKeepsSync ==
  ASSUME SyncInv, DispatchTypeOK', [Next]_vars
  PROVE  SyncInv'
<1>1. ClientTypeOK'
  <2>1. CASE UserStep
    BY <2>1, UserKeepsTypes
  <2>2. CASE EngineStep
    BY <2>2, EngineKeepsTypes
  <2>3. CASE \E a \in Attempt : GatewayStep(a)
    BY <2>3, GatewayKeepsTypes
  <2> QED
    BY <2>1, <2>2, <2>3, OthersKeepTypes DEF Next
<1>2. OneDrain'
  BY NextKeepsOneDrain DEF SyncInv, SyncTypeOK
<1>3. Answered'
  BY NextIsDispatchStep, StepKeepsAnswered DEF SyncInv, SyncTypeOK
<1> QED
  BY <1>1, <1>2, <1>3 DEF SyncInv, SyncTypeOK

\* The inductive invariant of the client: types, one drain, answered requests.
THEOREM SyncInvariant == Spec => []SyncInv
<1>1. Init => SyncInv
  BY InitSync
<1>2. SyncInv /\ DispatchTypeOK' /\ [Next]_vars => SyncInv'
  BY NextKeepsSync
<1>3. Spec => []DispatchTypeOK
  BY SyncIsDispatch, DispatchTypeCorrect, PTL
<1> QED
  BY <1>1, <1>2, <1>3, PTL DEF Spec

\* Every variable of client and server keeps its type.
THEOREM SyncTypeCorrect == Spec => []SyncTypeOK
<1>1. SyncInv => SyncTypeOK
  BY DEF SyncInv
<1> QED
  BY <1>1, SyncInvariant, PTL

\* The reclaim of inFlight operations never takes one whose answer a drain
\* still awaits.
THEOREM ReclaimsOrphans == Spec => []ReclaimOnlyOrphans
<1>1. SyncInv => ReclaimOnlyOrphans
  BY DEF SyncInv, OneDrain, ReclaimOnlyOrphans
<1> QED
  BY <1>1, SyncInvariant, PTL

-----------------------------------------------------------------------------
(***************************************************************************)
(* A success shown at submission is of a committed write.                  *)
(***************************************************************************)
\* What a step of the server does to a request and its key, and what it leaves
\* alone: the requests and keys of others.
LEMMA ServerStepIsLocal ==
  ASSUME DispatchTypeOK, KeyedUnlessIdle, NEW a \in Attempt, ServerStep(a) \/ Die(a)
  PROVE  /\ \A b \in Attempt : b # a => attempt'[b] = attempt[b]
         /\ attempt[a].key \in Key /\ attempt'[a].key = attempt[a].key
         /\ \A k \in Key : k # attempt[a].key => claim'[k] = claim[k]
         /\ attempt[a].pc # "idle" /\ attempt'[a].pc \notin {"idle", "sent"}
         /\ \A k \in Key : commits'[k] >= commits[k]
<1> USE DEF DispatchTypeOK, AttemptState
<1>1. ASSUME WinClaim(a) \/ LoseClaim(a) \/ ClaimFails(a) \/ Replay(a)
      PROVE  /\ \A b \in Attempt : b # a => attempt'[b] = attempt[b]
             /\ attempt'[a].key = attempt[a].key
             /\ \A k \in Key : k # attempt[a].key => claim'[k] = claim[k]
             /\ attempt[a].pc # "idle" /\ attempt'[a].pc \notin {"idle", "sent"}
             /\ commits' = commits
  BY <1>1 DEF WinClaim, LoseClaim, ClaimFails, Replay, Goto, Reply
<1>2. ASSUME \/ Commit(a) \/ CommitThenFail(a) \/ BypassCommit(a)
             \/ \E r \in Refusal : Refuse(a, r) \/ BypassRefuse(a, r)
      PROVE  /\ \A b \in Attempt : b # a => attempt'[b] = attempt[b]
             /\ attempt'[a].key = attempt[a].key
             /\ claim' = claim
             /\ attempt[a].pc # "idle" /\ attempt'[a].pc \notin {"idle", "sent"}
             /\ \/ commits' = commits
                \/ commits' = [commits EXCEPT ![attempt[a].key] = @ + 1]
  BY <1>2 DEF Commit, CommitThenFail, BypassCommit, Refuse, BypassRefuse, CommitOf, Goto, Reply
<1>3. ASSUME Store(a) \/ StoreFails(a) \/ Release(a) \/ ReleaseFails(a) \/ Die(a)
      PROVE  /\ \A b \in Attempt : b # a => attempt'[b] = attempt[b]
             /\ attempt'[a].key = attempt[a].key
             /\ \A k \in Key : k # attempt[a].key => claim'[k] = claim[k]
             /\ attempt[a].pc # "idle" /\ attempt'[a].pc \notin {"idle", "sent"}
             /\ commits' = commits
  BY <1>3 DEF Store, StoreFails, Release, ReleaseFails, Die, Running, Goto, Reply
<1>4. \A k \in Key : commits[k] \in Nat
  BY BoundIsTwo
<1>5. \/ WinClaim(a) \/ LoseClaim(a) \/ ClaimFails(a) \/ Replay(a)
      \/ Commit(a) \/ CommitThenFail(a) \/ BypassCommit(a)
      \/ \E r \in Refusal : Refuse(a, r) \/ BypassRefuse(a, r)
      \/ Store(a) \/ StoreFails(a) \/ Release(a) \/ ReleaseFails(a) \/ Die(a)
  BY DEF ServerStep
<1>6. attempt[a].pc # "idle" => attempt[a].key \in Key
  BY DEF KeyedUnlessIdle
<1> QED
  BY <1>1, <1>2, <1>3, <1>4, <1>5, <1>6

\* The first request with a key finds the claim free: it is not answered
\* "duplicate".
LEMMA FirstIsNoDuplicate ==
  ASSUME DispatchTypeOK, NEW a \in Attempt, ServerStep(a) \/ Die(a),
         attempt[a].pc # "looking", attempt[a].reply # "duplicate",
         attempt[a].pc = "sent" => claim[attempt[a].key] = "free"
  PROVE  attempt'[a].pc # "looking" /\ attempt'[a].reply # "duplicate"
<1> USE DEF DispatchTypeOK, AttemptState
<1>1. ASSUME WinClaim(a) \/ LoseClaim(a) \/ ClaimFails(a) \/ Replay(a)
      PROVE  attempt'[a].pc # "looking" /\ attempt'[a].reply # "duplicate"
  BY <1>1 DEF WinClaim, LoseClaim, ClaimFails, Replay, Goto, Reply
<1>2. ASSUME \/ Commit(a) \/ CommitThenFail(a) \/ BypassCommit(a)
             \/ \E r \in Refusal : Refuse(a, r) \/ BypassRefuse(a, r)
      PROVE  attempt'[a].pc # "looking" /\ attempt'[a].reply # "duplicate"
  BY <1>2 DEF Commit, CommitThenFail, BypassCommit, Refuse, BypassRefuse, Goto, Reply, Refusal
<1>3. ASSUME Store(a) \/ StoreFails(a) \/ Release(a) \/ ReleaseFails(a) \/ Die(a)
      PROVE  attempt'[a].pc # "looking" /\ attempt'[a].reply # "duplicate"
  BY <1>3 DEF Store, StoreFails, Release, ReleaseFails, Die, Goto, Reply
<1> QED
  BY <1>1, <1>2, <1>3 DEF ServerStep

\* The three parts of ReceiptInv that speak of requests and answers.
Receipts == UnsentIsFree /\ FirstRequest /\ ReceiptIsFinal

\* A step that says nothing to the user and leaves the server and the awaited
\* requests alone keeps them.
LEMMA SilenceKeepsReceipts ==
  ASSUME Receipts, UNCHANGED <<dispatchVars, waiting, shown>>
  PROVE  Receipts'
  BY DEF Receipts, UnsentIsFree, FirstRequest, ReceiptIsFinal, dispatchVars

LEMMA NetworkKeepsReceipts ==
  ASSUME ReceiptInv, KeyedUnlessIdle, DispatchTypeOK', NEW a \in Attempt, NetworkStep(a)
  PROVE  FreshIsUnstored' /\ Receipts'
<1> USE DEF ReceiptInv, SyncInv, SyncTypeOK
<1>1. waiting' = waiting /\ shown' = shown /\ FreshIsUnstored'
  BY DEF NetworkStep, clientVars, FreshIsUnstored
<1>2. CASE ServerStep(a) \/ Die(a)
  <2>1. /\ \A b \in Attempt : b # a => attempt'[b] = attempt[b]
        /\ attempt[a].key \in Key /\ attempt'[a].key = attempt[a].key
        /\ \A k \in Key : k # attempt[a].key => claim'[k] = claim[k]
        /\ attempt[a].pc # "idle" /\ attempt'[a].pc \notin {"idle", "sent"}
        /\ \A k \in Key : commits'[k] >= commits[k]
    BY <1>2, ServerStepIsLocal
  <2>2. UnsentIsFree'
    BY <1>1, <2>1 DEF UnsentIsFree
  <2>3. ASSUME NEW b \in Attempt, waiting[b] = "gateway"
        PROVE  /\ attempt'[b].key = attempt[b].key
               /\ attempt'[b].pc \notin {"idle", "looking"}
               /\ (attempt'[b].pc = "sent" => claim'[attempt[b].key] = "free")
               /\ attempt'[b].reply # "duplicate"
    <3>1. CASE b = a
      BY <1>2, <2>1, <2>3, <3>1, FirstIsNoDuplicate DEF FirstRequest
    <3>2. CASE b # a
      BY <2>1, <2>3, <3>2 DEF FirstRequest
    <3> QED
      BY <3>1, <3>2
  <2>4. FirstRequest'
    BY <1>1, <2>1, <2>3 DEF FirstRequest
  <2>5. ReceiptIsFinal'
    <3>1. \A k \in Key : commits[k] \in Nat /\ commits'[k] \in Nat
      BY BoundIsTwo DEF DispatchTypeOK
    <3> QED
      BY <1>1, <2>1, <3>1 DEF ReceiptIsFinal
  <2> QED
    BY <1>1, <2>2, <2>4, <2>5 DEF Receipts
<1>3. CASE Reap(a)
  <2>1. /\ waiting[a] = "nobody" /\ claim' = claim /\ commits' = commits
        /\ attempt' = [attempt EXCEPT ![a] = Idle]
    BY <1>3 DEF Reap, Forget
  <2>2. attempt'[a].key \notin Key /\ \A b \in Attempt : b # a => attempt'[b] = attempt[b]
    BY <2>1, DispatchAssumption DEF DispatchTypeOK, Idle, DispatchAssumption
  <2>3. UnsentIsFree' /\ ReceiptIsFinal'
    BY <1>1, <2>1, <2>2 DEF UnsentIsFree, ReceiptIsFinal
  <2>4. FirstRequest'
    BY <1>1, <2>1, <2>2 DEF FirstRequest
  <2> QED
    BY <1>1, <2>3, <2>4 DEF Receipts
<1> QED
  BY <1>2, <1>3 DEF NetworkStep

\* An answer the gateway reports as a success is a 2xx, not a duplicate.
LEMMA GatewayKeepsReceipts ==
  ASSUME ReceiptInv, SuccessIsCommitted, NEW a \in Attempt, GatewayStep(a)
  PROVE  FreshIsUnstored' /\ Receipts'
<1> DEFINE o == attempt[a].key
<1> USE DEF ReceiptInv, SyncInv, SyncTypeOK
<1>1. /\ o \in Key /\ shown[o] = "waiting" /\ waiting[a] = "gateway"
      /\ \A b \in Attempt : b # a => attempt[b].key # o
      /\ attempt[a].reply # "duplicate"
  BY DEF GatewayStep, GatewayAnswer, GatewayTimeout, FirstRequest
<1>2. PICK s \in {"pending", "confirmed", "conflict", "failed"} :
         /\ shown' = [shown EXCEPT ![o] = s]
         /\ s = "confirmed" => attempt[a].reply = "ok"
         /\ \A p \in Key : p # o => outbox'[p] = outbox[p]
  <2> DEFINE c == IF GatewayAnswer(a) THEN Classify(attempt[a].reply) ELSE "transient"
  <2>1. GatewayOutcome(o, c)
    BY DEF GatewayStep, GatewayAnswer, GatewayTimeout
  <2>2. c \in Class
    BY ClassOfAnswer DEF Class, GatewayAnswer, Answered
  <2>3. c = "confirmed" => attempt[a].reply = "ok"
    <3>1. GatewayAnswer(a) => attempt[a].reply \in Answer
      BY DEF GatewayAnswer, Answered
    <3> QED
      BY <1>1, <3>1 DEF Classify, Answer, Refusal
  <2> HIDE DEF c
  <2>4. CASE o \in OnlineOnly
    BY <2>1, <2>2, <2>3, <2>4 DEF GatewayOutcome, Show, Class
  <2>5. CASE o \notin OnlineOnly
    BY <2>1, <2>2, <2>3, <2>5 DEF GatewayOutcome, PutNew, Put, Show, Class, ClientTypeOK
  <2> QED
    BY <2>4, <2>5
<1>3. /\ waiting' = [waiting EXCEPT ![a] = "nobody"]
      /\ claim' = claim /\ commits' = commits /\ drain' = drain /\ copies' = copies
      /\ \A b \in Attempt : b # a => attempt'[b] = attempt[b]
      /\ (attempt'[a] = attempt[a] \/ attempt'[a].key \notin Key)
  BY DispatchAssumption DEF GatewayStep, GatewayAnswer, GatewayTimeout, StopWaiting, Forget,
     dispatchVars, Idle, DispatchTypeOK, DispatchAssumption
<1>4. /\ shown'[o] \notin {"nothing", "waiting"}
      /\ \A p \in Key : p # o => shown'[p] = shown[p]
  BY <1>1, <1>2 DEF ClientTypeOK
<1>5. FreshIsUnstored'
  BY <1>2, <1>3, <1>4 DEF FreshIsUnstored
<1>6. UnsentIsFree'
  BY <1>1, <1>3, <1>4 DEF UnsentIsFree
<1>7. FirstRequest'
  <2> SUFFICES ASSUME NEW b \in Attempt, waiting'[b] = "gateway"
               PROVE  /\ b # a /\ waiting[b] = "gateway"
                      /\ shown'[attempt[b].key] = "waiting"
                      /\ \A d \in Attempt : d # b => attempt'[d].key # attempt[b].key
    BY <1>3 DEF FirstRequest
  <2>1. b # a /\ waiting[b] = "gateway"
    BY <1>3 DEF ClientTypeOK
  <2>2. attempt[b].key \in Key /\ attempt[b].key # o
    BY <1>1, <2>1 DEF FirstRequest
  <2> QED
    BY <1>3, <1>4, <2>1, <2>2 DEF FirstRequest
<1>8. ReceiptIsFinal'
  BY <1>1, <1>2, <1>3, <1>4 DEF ReceiptIsFinal, SuccessIsCommitted, ClientTypeOK
<1> QED
  BY <1>5, <1>6, <1>7, <1>8 DEF Receipts

\* The engine sends and stores only operations of its batch, of which the user
\* was already told something.
LEMMA EngineKeepsReceipts ==
  ASSUME ReceiptInv, EngineStep
  PROVE  FreshIsUnstored' /\ Receipts'
<1> USE DEF ReceiptInv, SyncInv, SyncTypeOK
<1>0. Receipts
  BY DEF Receipts
<1>1. ASSUME ReadQueue PROVE FreshIsUnstored' /\ Receipts'
  <2>1. \A o \in Key : outbox[o] = Absent => Reclaimed(o) = Absent
    BY DEF Reclaimed, Absent
  <2>2. /\ outbox' = [o \in Key |-> Reclaimed(o)]
        /\ drain'.batch = [o \in Key |-> IF Reclaimed(o).status = "pending"
                                         THEN Reclaimed(o) ELSE Absent]
        /\ shown' = shown /\ copies' = copies
    <3>1. \A q : [DrainOff EXCEPT !.phase = "loop", !.batch = q].batch = q
      BY DEF DrainOff
    <3> QED
      BY <1>1, <3>1 DEF ReadQueue
  <2>3. FreshIsUnstored'
    BY <2>1, <2>2 DEF FreshIsUnstored, Absent
  <2>4. UNCHANGED <<dispatchVars, waiting, shown>>
    BY <1>1 DEF ReadQueue
  <2> QED
    BY <1>0, <2>3, <2>4, SilenceKeepsReceipts
<1>2. ASSUME DrainEnds PROVE FreshIsUnstored' /\ Receipts'
  <2>1. \A o \in Key : DrainOff.batch[o].status # "pending"
    BY DEF DrainOff, NoOps, Absent
  <2>2. FreshIsUnstored' /\ UNCHANGED <<dispatchVars, waiting, shown>>
    BY <1>2, <2>1 DEF DrainEnds, FreshIsUnstored
  <2> QED
    BY <1>0, <2>2, SilenceKeepsReceipts
<1>3. ASSUME NEW o \in Key, HoldBack(o) PROVE FreshIsUnstored' /\ Receipts'
  <2>1. drain'.batch = drain.batch
    BY <1>3 DEF HoldBack, Visit, ClientTypeOK, Drain
  <2>2. FreshIsUnstored' /\ UNCHANGED <<dispatchVars, waiting, shown>>
    BY <1>3, <2>1 DEF HoldBack, FreshIsUnstored
  <2> QED
    BY <1>0, <2>2, SilenceKeepsReceipts
<1>4. ASSUME NEW o \in Key, NEW a \in Attempt, Transmit(o, a)
      PROVE  FreshIsUnstored' /\ Receipts'
  <2>1. /\ drain.batch[o].status = "pending" /\ attempt[a].pc = "idle"
        /\ attempt' = [attempt EXCEPT ![a] = [pc |-> "sent", key |-> o, reply |-> "none"]]
        /\ waiting' = [waiting EXCEPT ![a] = "engine"]
        /\ claim' = claim /\ commits' = commits /\ shown' = shown /\ copies' = copies
        /\ \A p \in Key : p # o => outbox'[p] = outbox[p]
    BY <1>4 DEF Transmit, At, Unvisited, Send, Put, ClientTypeOK
  <2>2. shown[o] \notin {"nothing", "waiting"}
    BY <2>1 DEF FreshIsUnstored
  <2>3. drain'.batch = drain.batch
    BY <1>4 DEF Transmit, ClientTypeOK, Drain
  <2>4. FreshIsUnstored'
    BY <2>1, <2>2, <2>3 DEF FreshIsUnstored
  <2>5. attempt'[a].key = o /\ \A b \in Attempt : b # a => attempt'[b] = attempt[b]
    BY <2>1 DEF DispatchTypeOK
  <2>6. UnsentIsFree' /\ ReceiptIsFinal'
    BY <2>1, <2>2, <2>5 DEF UnsentIsFree, ReceiptIsFinal
  <2>7. FirstRequest'
    <3>1. ASSUME NEW b \in Attempt, waiting'[b] = "gateway"
          PROVE  b # a /\ waiting[b] = "gateway" /\ attempt[b].key # o
      BY <2>1, <2>2, <3>1 DEF FirstRequest, ClientTypeOK
    <3> QED
      BY <2>1, <2>5, <3>1 DEF FirstRequest
  <2> QED
    BY <2>4, <2>6, <2>7 DEF Receipts
<1>5. ASSUME NEW a \in Attempt, EngineAnswer(a) \/ EngineTimeout(a)
      PROVE  FreshIsUnstored' /\ Receipts'
  <2>1. /\ waiting[a] = "engine" /\ waiting' = [waiting EXCEPT ![a] = "nobody"]
        /\ claim' = claim /\ commits' = commits /\ shown' = shown /\ copies' = copies
        /\ \E b : Visit(drain.current, b)
        /\ \E e : Put(drain.current, e)
    BY <1>5 DEF EngineAnswer, EngineTimeout, StopWaiting, Forget, dispatchVars
  <2>2. drain'.batch = drain.batch
    BY <2>1 DEF Visit, ClientTypeOK, Drain
  <2>3. /\ shown[drain.current] \notin {"nothing", "waiting"}
        /\ \A p \in Key : p # drain.current => outbox'[p] = outbox[p]
    BY <2>1 DEF OneDrain, FreshIsUnstored, Put, ClientTypeOK
  <2>4. FreshIsUnstored'
    BY <2>1, <2>2, <2>3 DEF FreshIsUnstored
  <2>5. /\ \A b \in Attempt : b # a => attempt'[b] = attempt[b]
        /\ (attempt'[a] = attempt[a] \/ attempt'[a].key \notin Key)
    <3>1. CASE EngineAnswer(a)
      BY <3>1, DispatchAssumption DEF EngineAnswer, Forget, Idle, DispatchTypeOK,
         DispatchAssumption
    <3>2. CASE EngineTimeout(a)
      BY <3>2 DEF EngineTimeout, dispatchVars
    <3> QED
      BY <1>5, <3>1, <3>2
  <2>6. UnsentIsFree' /\ ReceiptIsFinal'
    BY <2>1, <2>5 DEF UnsentIsFree, ReceiptIsFinal
  <2>7. FirstRequest'
    <3>1. ASSUME NEW b \in Attempt, waiting'[b] = "gateway"
          PROVE  b # a /\ waiting[b] = "gateway" /\ attempt[b].key \in Key
      BY <2>1, <3>1 DEF FirstRequest, ClientTypeOK
    <3> QED
      BY <2>1, <2>5, <3>1 DEF FirstRequest
  <2> QED
    BY <2>4, <2>6, <2>7 DEF Receipts
<1> QED
  BY <1>1, <1>2, <1>3, <1>4, <1>5 DEF EngineStep

\* Flushing changes the drain, and only to one with an empty batch.
LEMMA FlushKeepsBatch ==
  ASSUME Flush, NEW o \in Key, drain.batch[o].status # "pending"
  PROVE  drain'.batch[o].status # "pending"
<1>1. [DrainOff EXCEPT !.phase = "probing"].batch[o].status # "pending"
  BY DEF DrainOff, NoOps, Absent
<1> QED
  BY <1>1 DEF Flush

LEMMA UserKeepsReceipts ==
  ASSUME ReceiptInv, UserStep
  PROVE  FreshIsUnstored' /\ Receipts'
<1> USE DEF ReceiptInv, SyncInv, SyncTypeOK
<1>0. Receipts
  BY DEF Receipts
<1>1. ASSUME NEW o \in Key, SubmitOffline(o) PROVE FreshIsUnstored' /\ Receipts'
  <2>1. /\ shown' = [shown EXCEPT ![o] = "pending"]
        /\ claim' = claim /\ attempt' = attempt /\ commits' = commits
        /\ waiting' = waiting /\ drain' = drain /\ copies' = copies /\ shown[o] = "nothing"
        /\ \A p \in Key : p # o => outbox'[p] = outbox[p]
    BY <1>1 DEF SubmitOffline, Submit, PutNew, Put, Show, dispatchVars, ClientTypeOK
  <2>2. shown'[o] = "pending" /\ \A p \in Key : p # o => shown'[p] = shown[p]
    BY <2>1 DEF ClientTypeOK
  <2>3. FreshIsUnstored' /\ UnsentIsFree' /\ ReceiptIsFinal'
    BY <2>1, <2>2 DEF FreshIsUnstored, UnsentIsFree, ReceiptIsFinal
  <2>4. FirstRequest'
    BY <2>1, <2>2 DEF FirstRequest
  <2> QED
    BY <2>3, <2>4 DEF Receipts
<1>2. ASSUME NEW o \in Key, NEW a \in Attempt, SubmitOnline(o, a)
      PROVE  FreshIsUnstored' /\ Receipts'
  <2>1. /\ shown' = [shown EXCEPT ![o] = "waiting"] /\ shown[o] = "nothing"
        /\ waiting' = [waiting EXCEPT ![a] = "gateway"]
        /\ attempt[a].pc = "idle"
        /\ attempt' = [attempt EXCEPT ![a] = [pc |-> "sent", key |-> o, reply |-> "none"]]
        /\ claim' = claim /\ commits' = commits
        /\ drain' = drain /\ copies' = copies /\ outbox' = outbox
    BY <1>2 DEF SubmitOnline, Submit, Send, Show
  <2>2. shown'[o] = "waiting" /\ \A p \in Key : p # o => shown'[p] = shown[p]
    BY <2>1 DEF ClientTypeOK
  <2>3. /\ attempt'[a] = [pc |-> "sent", key |-> o, reply |-> "none"]
        /\ \A b \in Attempt : b # a => attempt'[b] = attempt[b]
    BY <2>1 DEF DispatchTypeOK
  <2>4. claim[o] = "free" /\ \A b \in Attempt : attempt[b].key # o
    BY <2>1 DEF UnsentIsFree
  <2>5. FreshIsUnstored'
    BY <2>1, <2>2 DEF FreshIsUnstored
  <2>6. UnsentIsFree' /\ ReceiptIsFinal'
    BY <2>1, <2>2, <2>3 DEF UnsentIsFree, ReceiptIsFinal
  <2>7. FirstRequest'
    <3> SUFFICES ASSUME NEW b \in Attempt, waiting'[b] = "gateway"
                 PROVE  /\ attempt'[b].key \in Key
                        /\ shown'[attempt'[b].key] = "waiting"
                        /\ \A d \in Attempt : d # b => attempt'[d].key # attempt'[b].key
                        /\ attempt'[b].pc \notin {"idle", "looking"}
                        /\ (attempt'[b].pc = "sent" => claim'[attempt'[b].key] = "free")
                        /\ attempt'[b].reply # "duplicate"
      BY DEF FirstRequest
    <3>1. CASE b = a
      BY <2>1, <2>2, <2>3, <2>4, <3>1
    <3>2. CASE b # a
      <4>1. waiting[b] = "gateway"
        BY <2>1, <3>2 DEF ClientTypeOK
      <4>2. /\ attempt[b].key \in Key /\ attempt[b].key # o
            /\ shown[attempt[b].key] = "waiting"
            /\ \A d \in Attempt : d # b => attempt[d].key # attempt[b].key
            /\ attempt[b].pc \notin {"idle", "looking"}
            /\ (attempt[b].pc = "sent" => claim[attempt[b].key] = "free")
            /\ attempt[b].reply # "duplicate"
        BY <2>4, <4>1 DEF FirstRequest
      <4> QED
        BY <2>1, <2>2, <2>3, <3>2, <4>2
    <3> QED
      BY <3>1, <3>2
  <2> QED
    BY <2>5, <2>6, <2>7 DEF Receipts
<1>3. ASSUME NEW o \in Key, KeepMine(o) PROVE FreshIsUnstored' /\ Receipts'
  <2>1. shown[o] \notin {"nothing", "waiting"}
    BY <1>3 DEF KeepMine, FreshIsUnstored, Absent
  <2>2. /\ \A p \in Key : p # o => outbox'[p] = outbox[p]
        /\ shown' = shown /\ copies' = copies
    BY <1>3 DEF KeepMine, Put, ClientTypeOK
  <2>3. FreshIsUnstored'
    BY <1>3, <2>1, <2>2, FlushKeepsBatch DEF KeepMine, FreshIsUnstored
  <2>4. UNCHANGED <<dispatchVars, waiting, shown>>
    BY <1>3 DEF KeepMine
  <2> QED
    BY <1>0, <2>3, <2>4, SilenceKeepsReceipts
<1>4. ASSUME NEW o \in Key, UseServer(o) PROVE FreshIsUnstored' /\ Receipts'
  <2>1. shown[o] \notin {"nothing", "waiting"}
    BY <1>4 DEF UseServer, FreshIsUnstored, Absent
  <2>2. /\ \A p \in Key : p # o => outbox'[p] = outbox[p]
        /\ shown'[o] = "discarded" /\ \A p \in Key : p # o => shown'[p] = shown[p]
        /\ copies' = copies /\ waiting' = waiting
        /\ claim' = claim /\ attempt' = attempt /\ commits' = commits
    BY <1>4 DEF UseServer, Put, Show, ClientTypeOK, dispatchVars
  <2>3. FreshIsUnstored'
    BY <1>4, <2>1, <2>2, FlushKeepsBatch DEF UseServer, FreshIsUnstored
  <2>4. UnsentIsFree' /\ ReceiptIsFinal'
    BY <2>1, <2>2 DEF UnsentIsFree, ReceiptIsFinal
  <2>5. FirstRequest'
    BY <2>1, <2>2 DEF FirstRequest
  <2> QED
    BY <2>3, <2>4, <2>5 DEF Receipts
<1>5. ASSUME NEW t \in Tap, RetryTapped(t) PROVE FreshIsUnstored' /\ Receipts'
  <2>1. /\ outbox' = outbox /\ shown' = shown /\ drain' = drain
        /\ \A o \in Key, u \in Tap : outbox[o] = Absent /\ copies[u][o] = Absent
              => copies'[u][o] = Absent
    BY <1>5 DEF RetryTapped, ClientTypeOK
  <2>2. FreshIsUnstored' /\ UNCHANGED <<dispatchVars, waiting, shown>>
    BY <1>5, <2>1 DEF RetryTapped, FreshIsUnstored
  <2> QED
    BY <1>0, <2>2, SilenceKeepsReceipts
<1>6. ASSUME SwitchUser PROVE FreshIsUnstored' /\ Receipts'
  <2>1. FreshIsUnstored' /\ UNCHANGED <<dispatchVars, waiting, shown>>
    BY <1>6 DEF SwitchUser, FreshIsUnstored, NoOps
  <2> QED
    BY <1>0, <2>1, SilenceKeepsReceipts
<1> QED
  BY <1>1, <1>2, <1>3, <1>4, <1>5, <1>6 DEF UserStep

LEMMA OthersKeepReceipts ==
  ASSUME ReceiptInv,
         \/ \E a \in Attempt : EngineThrows(a)
         \/ \E t \in Tap : RetryStep(t)
         \/ \E o \in Key : BackoffElapses(o)
         \/ ProbeFails \/ Reconnect \/ Disconnect \/ Resume \/ Restart
         \/ UNCHANGED vars
  PROVE  FreshIsUnstored' /\ Receipts'
<1> USE DEF ReceiptInv, SyncInv, SyncTypeOK
<1>0. /\ Receipts
      /\ \A o \in Key : DrainOff.batch[o].status # "pending"
      /\ \A o \in Key : [DrainOff EXCEPT !.phase = "probing"].batch[o].status # "pending"
  BY DEF Receipts, DrainOff, NoOps, Absent
<1>1. ASSUME NEW a \in Attempt, EngineThrows(a) PROVE FreshIsUnstored' /\ Receipts'
  <2>1. /\ claim' = claim /\ attempt' = attempt /\ commits' = commits /\ shown' = shown
        /\ waiting' = [waiting EXCEPT ![a] = "nobody"]
    BY <1>1 DEF EngineThrows, StopWaiting, dispatchVars
  <2>2. FreshIsUnstored'
    BY <1>0, <1>1 DEF EngineThrows, FreshIsUnstored
  <2>3. UnsentIsFree' /\ ReceiptIsFinal'
    BY <2>1 DEF UnsentIsFree, ReceiptIsFinal
  <2>4. \A b \in Attempt : waiting'[b] = "gateway" => waiting[b] = "gateway"
    BY <2>1 DEF ClientTypeOK
  <2>5. FirstRequest'
    BY <2>1, <2>4 DEF FirstRequest
  <2> QED
    BY <2>2, <2>3, <2>5 DEF Receipts
<1>2. ASSUME NEW t \in Tap, RetryFlushes(t) PROVE FreshIsUnstored' /\ Receipts'
  <2>1. FreshIsUnstored' /\ UNCHANGED <<dispatchVars, waiting, shown>>
    BY <1>2, FlushKeepsBatch DEF RetryFlushes, FreshIsUnstored
  <2> QED
    BY <1>0, <2>1, SilenceKeepsReceipts
<1>3. ASSUME NEW t \in Tap, NEW o \in Key, Requeue(t, o) PROVE FreshIsUnstored' /\ Receipts'
  <2>1. /\ shown[o] \notin {"nothing", "waiting"} /\ shown' = shown /\ drain' = drain
        /\ \A p \in Key : p # o => outbox'[p] = outbox[p]
        /\ \A p \in Key, u \in Tap : p # o => copies'[u][p] = copies[u][p]
    BY <1>3 DEF Requeue, FreshIsUnstored, Put, ClientTypeOK
  <2>2. FreshIsUnstored' /\ UNCHANGED <<dispatchVars, waiting, shown>>
    BY <1>3, <2>1 DEF Requeue, FreshIsUnstored
  <2> QED
    BY <1>0, <2>2, SilenceKeepsReceipts
<1>4. ASSUME NEW o \in Key, BackoffElapses(o) PROVE FreshIsUnstored' /\ Receipts'
  <2>1. /\ shown[o] \notin {"nothing", "waiting"}
        /\ \A p \in Key : p # o => outbox'[p] = outbox[p]
    BY <1>4 DEF BackoffElapses, FreshIsUnstored, Absent, ClientTypeOK
  <2>2. FreshIsUnstored' /\ UNCHANGED <<dispatchVars, waiting, shown>>
    BY <1>4, <2>1 DEF BackoffElapses, FreshIsUnstored
  <2> QED
    BY <1>0, <2>2, SilenceKeepsReceipts
<1>5. ASSUME ProbeFails PROVE FreshIsUnstored' /\ Receipts'
  <2>1. FreshIsUnstored' /\ UNCHANGED <<dispatchVars, waiting, shown>>
    BY <1>0, <1>5 DEF ProbeFails, FreshIsUnstored
  <2> QED
    BY <1>0, <2>1, SilenceKeepsReceipts
<1>6. ASSUME Reconnect \/ Resume PROVE FreshIsUnstored' /\ Receipts'
  <2>1. FreshIsUnstored' /\ UNCHANGED <<dispatchVars, waiting, shown>>
    BY <1>6, FlushKeepsBatch DEF Reconnect, Resume, FreshIsUnstored
  <2> QED
    BY <1>0, <2>1, SilenceKeepsReceipts
<1>7. ASSUME Disconnect PROVE FreshIsUnstored' /\ Receipts'
  <2>1. FreshIsUnstored' /\ UNCHANGED <<dispatchVars, waiting, shown>>
    BY <1>7 DEF Disconnect, FreshIsUnstored
  <2> QED
    BY <1>0, <2>1, SilenceKeepsReceipts
<1>8. ASSUME Restart PROVE FreshIsUnstored' /\ Receipts'
  <2>1. /\ claim' = claim /\ attempt' = attempt /\ commits' = commits
        /\ \A a \in Attempt : waiting'[a] # "gateway"
        /\ \A o \in Key : outbox[o] = Absent => outbox'[o] = Absent
        /\ \A o \in Key : drain'.batch[o].status # "pending"
        /\ \A o \in Key, t \in Tap : copies'[t][o] = Absent
    BY <1>0, <1>8 DEF Restart, NoOps, dispatchVars
  <2>2. \A o \in Key : shown'[o] = IF shown[o] = "waiting" THEN "lost" ELSE shown[o]
    BY <1>8 DEF Restart
  <2>3. FreshIsUnstored' /\ UnsentIsFree' /\ ReceiptIsFinal'
    BY <2>1, <2>2 DEF FreshIsUnstored, UnsentIsFree, ReceiptIsFinal
  <2>4. FirstRequest'
    BY <2>1 DEF FirstRequest
  <2> QED
    BY <2>3, <2>4 DEF Receipts
<1>9. ASSUME UNCHANGED vars PROVE FreshIsUnstored' /\ Receipts'
  <2>1. FreshIsUnstored' /\ UNCHANGED <<dispatchVars, waiting, shown>>
    BY <1>9 DEF vars, clientVars, FreshIsUnstored
  <2> QED
    BY <1>0, <2>1, SilenceKeepsReceipts
<1> QED
  BY <1>1, <1>2, <1>3, <1>4, <1>5, <1>6, <1>7, <1>8, <1>9 DEF RetryStep

LEMMA InitReceipts ==
  ASSUME Init
  PROVE  ReceiptInv
<1>1. FreshIsUnstored /\ UnsentIsFree
  BY DispatchAssumption DEF Init, ClientInit, DispatchInit, FreshIsUnstored, UnsentIsFree, DrainOff,
     NoOps, Absent, Idle, DispatchAssumption
<1>2. FirstRequest /\ ReceiptIsFinal
  BY DEF Init, ClientInit, FirstRequest, ReceiptIsFinal
<1> QED
  BY <1>1, <1>2, InitSync DEF ReceiptInv

LEMMA NextKeepsReceipts ==
  ASSUME ReceiptInv, DispatchInv, DispatchInv', [Next]_vars
  PROVE  ReceiptInv'
<1>1. SyncInv'
  BY NextKeepsSync DEF ReceiptInv, DispatchInv
<1>2. FreshIsUnstored' /\ Receipts'
  <2>1. CASE UserStep
    BY <2>1, UserKeepsReceipts
  <2>2. CASE EngineStep
    BY <2>2, EngineKeepsReceipts
  <2>3. ASSUME NEW a \in Attempt, NetworkStep(a) PROVE FreshIsUnstored' /\ Receipts'
    BY <2>3, NetworkKeepsReceipts DEF DispatchInv
  <2>4. ASSUME NEW a \in Attempt, GatewayStep(a) PROVE FreshIsUnstored' /\ Receipts'
    BY <2>4, GatewayKeepsReceipts DEF DispatchInv
  <2> QED
    BY <2>1, <2>2, <2>3, <2>4, OthersKeepReceipts DEF Next
<1> QED
  BY <1>1, <1>2 DEF ReceiptInv, Receipts

\* The inductive invariant of the receipts, with the server's own.
THEOREM ReceiptInvariant == Spec => []ReceiptInv
<1>1. Init => ReceiptInv
  BY InitReceipts
<1>2. ReceiptInv /\ DispatchInv /\ DispatchInv' /\ [Next]_vars => ReceiptInv'
  BY NextKeepsReceipts
<1>3. Spec => []DispatchInv
  BY SyncIsDispatch, DispatchInvariant, PTL
<1> QED
  BY <1>1, <1>2, <1>3, PTL DEF Spec

\* A success shown at submission (a fee receipt is issued on it) is of a write
\* the server committed, whatever is lost, late, repeated or killed.
THEOREM ReceiptsAreFinal == Spec => []ReceiptIsFinal
<1>1. ReceiptInv => ReceiptIsFinal
  BY DEF ReceiptInv
<1> QED
  BY <1>1, ReceiptInvariant, PTL

-----------------------------------------------------------------------------
(***************************************************************************)
(* What is queued stays listed.                                            *)
(***************************************************************************)
\* An operation was submitted in this session or in one before it.
OwnersKnown == \A o \in Key : owner[o] <= session

KeptInv == QueuedIsKept /\ OwnersKnown

(***************************************************************************)
(* The order of a drain, and what is confirmed.                            *)
(***************************************************************************)
\* A copy that is still to be requeued is that of a running call.
CopiesOfCalls == \A t \in Tap, o \in Key : copies[t][o] # Absent => t \in tapped

Copied(o) == \E t \in Tap : copies[t][o] # Absent
Sending(o) == drain.phase = "sending" /\ drain.current = o

\* The drain does not reckon with o: it neither has o ahead of it nor has it
\* confirmed o and goes on with the entity of o.
Loose(o) ==
    /\ o \notin Unvisited
    /\ drain.batch[o].status = "pending" =>
         EntityOf[o] = NoEntity \/ EntityOf[o] \in drain.blocked

\* An operation that a retry loop is about to requeue is still failed, or wiped.
CopiesCurrent ==
    \A o \in Key : Copied(o) => outbox[o].status \in {"failed", "absent"} /\ Loose(o)

\* What the drain has ahead of it is still pending, or wiped by a logout.
AheadIsPending ==
    \A o \in Unvisited :
        ~Sending(o) => \/ outbox[o].status = "pending"
                       \/ outbox[o].status = "absent" /\ session # 0

\* What the drain sends is the oldest it has ahead, and nothing older holds it.
SentIsOldest ==
    \A o \in Key : Sending(o) =>
        /\ o \in Unvisited
        /\ outbox[o].status \in {"inFlight", "absent"}
        /\ EntityOf[o] \notin drain.blocked
        /\ \A p \in Unvisited : drain.batch[o].at <= drain.batch[p].at

\* What the drain is done with, of an entity it goes on with, is confirmed.
BehindIsConfirmed ==
    \A o \in Key :
        o \notin Unvisited /\ ~Loose(o) => outbox[o].status \in {"confirmed", "absent"}

NoBatchWithoutDrain ==
    drain.phase \in {"off", "probing"} => \A o \in Key : drain.batch[o].status # "pending"

QueueInv ==
    CopiesCurrent /\ AheadIsPending /\ SentIsOldest /\ BehindIsConfirmed /\ NoBatchWithoutDrain

-----------------------------------------------------------------------------
\* A step that wipes nothing and says nothing new, in the same session.
LEMMA NothingIsLost ==
  ASSUME KeptInv, UNCHANGED <<shown, owner, session>>,
         \A o \in Key : outbox[o].status # "absent" => outbox'[o].status # "absent"
  PROVE  KeptInv'
  BY DEF KeptInv, QueuedIsKept, OwnersKnown

\* One operation is stored anew.
LEMMA OneIsStored ==
  ASSUME ClientTypeOK, NEW o \in Key, NEW e, Put(o, e), e.status # "absent"
  PROVE  /\ outbox'[o].status # "absent"
         /\ \A p \in Key : outbox[p].status # "absent" => outbox'[p].status # "absent"
  BY DEF Put, ClientTypeOK

\* What the drain stores of an answered operation has a status.
LEMMA ProcessedStatus ==
  ASSUME drain \in Drain, NEW o \in Key, NEW c \in Class, NEW e \in Processed(o, c)
  PROVE  /\ e.status \in {"pending", "failed", "conflict", "confirmed"}
         /\ e.status = "confirmed" <=> c = "confirmed"
<1> DEFINE old == drain.batch[o]
           f(s, n, b) == [old EXCEPT !.status = s, !.tries = n, !.later = b]
<1>1. old \in Envelope
  BY DEF Drain
<1>2. \A s, n, b : f(s, n, b).status = s
  BY <1>1 DEF Envelope
<1>3. \A s, b : [old EXCEPT !.status = s, !.later = b].status = s
  BY <1>1 DEF Envelope
<1>4. CASE c = "transient"
  <2>1. e \in Retried(old)
    BY <1>4 DEF Processed
  <2>2. \/ \E b \in BOOLEAN : e = f("pending", Tried(old), b)
        \/ \E b \in BOOLEAN : e = f("failed", Tried(old), b)
    BY <2>1 DEF Retried
  <2> HIDE DEF f
  <2>3. e.status \in {"pending", "failed"}
    BY <1>2, <2>2
  <2> QED
    BY <1>4, <2>3
<1>5. CASE c = "conflict" /\ o \notin HighRisk
  <2>1. \E b \in BOOLEAN : e = f("pending", Tried(old), b)
    BY <1>5 DEF Processed
  <2> HIDE DEF f
  <2> QED
    BY <1>2, <1>5, <2>1
<1>6. CASE c # "transient" /\ ~(c = "conflict" /\ o \notin HighRisk)
  <2>1. e = [old EXCEPT !.status = c, !.later = FALSE]
    BY <1>6 DEF Processed
  <2> QED
    BY <1>3, <1>6, <2>1 DEF Class
<1> QED
  BY <1>4, <1>5, <1>6

\* _process stores what it makes of the operation it has sent.
LEMMA AnswerIsStored ==
  ASSUME SyncInv, NEW a \in Attempt, EngineAnswer(a) \/ EngineTimeout(a)
  PROVE  \E o \in Key, c \in Class : \E e \in Processed(o, c) :
           /\ o = drain.current /\ drain.phase = "sending"
           /\ Put(o, e) /\ Visit(o, c = "confirmed")
<1> USE DEF SyncInv
<1>1. drain.current \in Key /\ drain.phase = "sending"
  BY DEF OneDrain, EngineAnswer, EngineTimeout
<1>2. CASE EngineAnswer(a)
  <2>1. Classify(attempt[a].reply) \in Class
    BY <1>2, ClassOfAnswer DEF EngineAnswer, Answered
  <2> QED
    BY <1>1, <1>2, <2>1 DEF EngineAnswer
<1>3. CASE EngineTimeout(a)
  <2>1. "transient" \in Class /\ ("transient" = "confirmed") = FALSE
    BY DEF Class
  <2> QED
    BY <1>1, <1>3, <2>1 DEF EngineTimeout
<1> QED
  BY <1>2, <1>3

\* What the gateway makes of an answer: the operation is shown as it is stored.
LEMMA GatewayStores ==
  ASSUME ReceiptInv, NEW a \in Attempt, GatewayStep(a)
  PROVE  \E o \in Key, s \in {"pending", "confirmed", "conflict", "failed"} :
           /\ shown[o] = "waiting" /\ Show(o, s)
           /\ \/ o \in OnlineOnly /\ outbox' = outbox
              \/ o \notin OnlineOnly /\ PutNew(o, s)
<1> USE DEF ReceiptInv, SyncInv
<1>1. PICK o \in Key : o = attempt[a].key /\ shown[o] = "waiting"
  BY DEF GatewayStep, GatewayAnswer, GatewayTimeout, FirstRequest
<1>2. \E c \in Class : GatewayOutcome(o, c)
  BY <1>1, ClassOfAnswer DEF GatewayStep, GatewayAnswer, GatewayTimeout, Answered, Class
<1>3. PICK c \in Class : GatewayOutcome(o, c)
  BY <1>2
<1>4. CASE o \in OnlineOnly
  <2>1. PICK s \in {"confirmed", "conflict", "failed"} : s = IF c = "transient" THEN "failed" ELSE c
    BY DEF Class
  <2>2. Show(o, s) /\ outbox' = outbox
    BY <1>3, <1>4, <2>1 DEF GatewayOutcome
  <2> QED
    BY <1>1, <1>4, <2>2
<1>5. CASE o \notin OnlineOnly
  BY <1>1, <1>3, <1>5 DEF GatewayOutcome, Class
<1> QED
  BY <1>4, <1>5

LEMMA StepKeeps ==
  ASSUME ReceiptInv, KeptInv, [Next]_vars
  PROVE  KeptInv'
<1> USE DEF ReceiptInv, SyncInv, SyncTypeOK
<1>0. ClientTypeOK
  OBVIOUS
<1>1. ASSUME NEW o \in Key, SubmitOffline(o) PROVE KeptInv'
  <2>1. /\ \A p \in Key : p # o => /\ outbox'[p] = outbox[p] /\ shown'[p] = shown[p]
                                   /\ owner'[p] = owner[p]
        /\ outbox'[o].status = "pending" /\ owner'[o] = session /\ session' = session
    BY <1>1 DEF SubmitOffline, Submit, PutNew, Put, Show, ClientTypeOK
  <2>2. session \in Nat
    BY DEF ClientTypeOK, SyncAssumption
  <2> QED
    BY <2>1, <2>2 DEF KeptInv, QueuedIsKept, OwnersKnown
<1>2. ASSUME NEW o \in Key, NEW a \in Attempt, SubmitOnline(o, a) PROVE KeptInv'
  <2>1. /\ \A p \in Key : p # o => shown'[p] = shown[p] /\ owner'[p] = owner[p]
        /\ shown'[o] = "waiting" /\ owner'[o] = session /\ session' = session /\ outbox' = outbox
    BY <1>2 DEF SubmitOnline, Submit, Show, ClientTypeOK
  <2>2. session \in Nat
    BY DEF ClientTypeOK, SyncAssumption
  <2> QED
    BY <2>1, <2>2 DEF KeptInv, QueuedIsKept, OwnersKnown
<1>3. ASSUME NEW a \in Attempt, GatewayStep(a) PROVE KeptInv'
  <2>1. PICK o \in Key, s \in {"pending", "confirmed", "conflict", "failed"} :
          /\ Show(o, s)
          /\ \/ o \in OnlineOnly /\ outbox' = outbox
             \/ o \notin OnlineOnly /\ PutNew(o, s)
    BY <1>3, GatewayStores
  <2>2. /\ \A p \in Key : p # o => shown'[p] = shown[p] /\ outbox'[p] = outbox[p]
        /\ o \in OnlineOnly \/ outbox'[o].status = s
        /\ UNCHANGED <<owner, session>>
    BY <1>3, <2>1 DEF Show, PutNew, Put, ClientTypeOK, GatewayStep, GatewayAnswer, GatewayTimeout
  <2> QED
    BY <2>2 DEF KeptInv, QueuedIsKept, OwnersKnown
<1>4. ASSUME NEW o \in Key, UseServer(o) PROVE KeptInv'
  <2>1. /\ \A p \in Key : p # o => shown'[p] = shown[p] /\ outbox'[p] = outbox[p]
        /\ shown'[o] = "discarded" /\ UNCHANGED <<owner, session>>
    BY <1>4 DEF UseServer, Put, Show, ClientTypeOK
  <2> QED
    BY <2>1 DEF KeptInv, QueuedIsKept, OwnersKnown
<1>5. ASSUME SwitchUser PROVE KeptInv'
  <2>1. session' = session + 1 /\ owner' = owner
    BY <1>5 DEF SwitchUser
  <2>2. session \in Nat /\ \A o \in Key : owner[o] \in Nat /\ owner[o] <= session
    BY DEF ClientTypeOK, KeptInv, OwnersKnown
  <2> QED
    BY <2>1, <2>2 DEF KeptInv, QueuedIsKept, OwnersKnown
<1>6. ASSUME Restart PROVE KeptInv'
  <2>1. /\ \A o \in Key : shown'[o] = IF shown[o] = "waiting" THEN "lost" ELSE shown[o]
        /\ Durable => outbox' = outbox
        /\ UNCHANGED <<owner, session>>
    BY <1>6 DEF Restart
  <2> QED
    BY <2>1 DEF KeptInv, QueuedIsKept, OwnersKnown
<1>7. ASSUME ReadQueue PROVE KeptInv'
  <2>1. \A o \in Key : outbox[o].status # "absent" => Reclaimed(o).status # "absent"
    BY DEF Reclaimed, ClientTypeOK, Envelope
  <2> QED
    BY <1>7, <2>1, NothingIsLost DEF ReadQueue
<1>8. ASSUME NEW o \in Key, NEW a \in Attempt, Transmit(o, a) PROVE KeptInv'
  <2>1. [drain.batch[o] EXCEPT !.status = "inFlight"].status = "inFlight"
    BY DEF ClientTypeOK, Drain, Envelope
  <2> HIDE DEF ReceiptInv
  <2> QED
    BY <1>0, <1>8, <2>1, OneIsStored, NothingIsLost DEF Transmit
<1>9. ASSUME NEW a \in Attempt, EngineAnswer(a) \/ EngineTimeout(a) PROVE KeptInv'
  <2>1. PICK o \in Key, c \in Class : \E e \in Processed(o, c) : Put(o, e)
    BY <1>9, AnswerIsStored
  <2>2. PICK e \in Processed(o, c) : Put(o, e)
    BY <2>1
  <2>3. e.status # "absent"
    BY <2>2, ProcessedStatus DEF ClientTypeOK
  <2> QED
    BY <1>0, <1>9, <2>2, <2>3, OneIsStored, NothingIsLost DEF EngineAnswer, EngineTimeout
<1>10. ASSUME NEW t \in Tap, NEW o \in Key, Requeue(t, o) PROVE KeptInv'
  <2>1. copies[t][o] \in Envelope
    BY DEF ClientTypeOK
  <2>2. [copies[t][o] EXCEPT !.status = "pending", !.later = FALSE].status = "pending"
    BY <2>1 DEF Envelope
  <2> QED
    BY <1>0, <1>10, <2>2, OneIsStored, NothingIsLost DEF Requeue
<1>11. ASSUME NEW o \in Key, KeepMine(o) PROVE KeptInv'
  <2>1. outbox[o] \in Envelope
    BY DEF ClientTypeOK
  <2>2. [outbox[o] EXCEPT !.status = "pending", !.later = FALSE].status = "pending"
    BY <2>1 DEF Envelope
  <2> QED
    BY <1>0, <1>11, <2>2, OneIsStored, NothingIsLost DEF KeepMine
<1>12. ASSUME NEW o \in Key, BackoffElapses(o) PROVE KeptInv'
  <2>1. outbox[o] \in Envelope
    BY DEF ClientTypeOK
  <2>2. [outbox[o] EXCEPT !.later = FALSE].status = outbox[o].status
    BY <2>1 DEF Envelope
  <2>3. outbox' = [outbox EXCEPT ![o] = [outbox[o] EXCEPT !.later = FALSE]]
    BY <1>12 DEF BackoffElapses
  <2>4. \A p \in Key : outbox'[p].status = outbox[p].status
    BY <2>2, <2>3 DEF ClientTypeOK
  <2> QED
    BY <1>12, <2>4, NothingIsLost DEF BackoffElapses
<1>13. ASSUME UNCHANGED <<outbox, shown, owner, session>> PROVE KeptInv'
  BY <1>13, NothingIsLost
<1>14. CASE UserStep
  BY <1>1, <1>2, <1>4, <1>5, <1>11, <1>13, <1>14 DEF UserStep, RetryTapped
<1>15. CASE EngineStep
  BY <1>7, <1>8, <1>9, <1>13, <1>15 DEF EngineStep, DrainEnds, HoldBack
<1>16. CASE \E a \in Attempt : NetworkStep(a) \/ GatewayStep(a) \/ EngineThrows(a)
  BY <1>3, <1>13, <1>16 DEF NetworkStep, EngineThrows, clientVars
<1>17. CASE \E t \in Tap : RetryStep(t)
  BY <1>10, <1>13, <1>17 DEF RetryStep, RetryFlushes
<1>18. CASE ProbeFails \/ Reconnect \/ Disconnect \/ Resume \/ UNCHANGED vars
  BY <1>13, <1>18 DEF ProbeFails, Reconnect, Disconnect, Resume, vars, clientVars
<1> QED
  BY <1>6, <1>12, <1>14, <1>15, <1>16, <1>17, <1>18 DEF Next

\* With the SQLite store, what the user was told is queued, parked or failed
\* stays listed in the outbox until it is resolved.
THEOREM QueuedStaysListed == Spec => []QueuedIsKept
<1>1. Init => KeptInv
  BY DEF Init, ClientInit, KeptInv, QueuedIsKept, OwnersKnown
<1>2. ReceiptInv /\ KeptInv /\ [Next]_vars => KeptInv'
  BY StepKeeps
<1>3. KeptInv => QueuedIsKept
  BY DEF KeptInv
<1> QED
  BY <1>1, <1>2, <1>3, ReceiptInvariant, PTL DEF Spec

-----------------------------------------------------------------------------
\* What is confirmed stays confirmed, or is wiped.
ConfirmedStays ==
    \A o \in Key : outbox[o].status = "confirmed" => outbox'[o].status \in {"confirmed", "absent"}

\* Who is failed, in conflict or about to be requeued, the drain does not reckon with.
LEMMA ParkedIsLoose ==
  ASSUME QueueInv, NEW o \in Key, outbox[o].status \in {"failed", "conflict"} \/ Copied(o)
  PROVE  Loose(o) /\ outbox[o].status # "confirmed"
<1>1. CASE Copied(o)
  BY <1>1 DEF QueueInv, CopiesCurrent
<1>2. CASE outbox[o].status \in {"failed", "conflict"}
  <2>1. o \notin Unvisited
    BY <1>2 DEF QueueInv, AheadIsPending, SentIsOldest
  <2> QED
    BY <1>2, <2>1 DEF QueueInv, BehindIsConfirmed
<1> QED
  BY <1>1, <1>2

\* What the user was not yet told of, the drain does not reckon with either.
LEMMA FreshIsLoose ==
  ASSUME FreshIsUnstored, NEW o \in Key, shown[o] \in {"nothing", "waiting"}
  PROVE  Loose(o) /\ outbox[o].status # "confirmed" /\ ~Copied(o)
  BY DEF FreshIsUnstored, Loose, Unvisited, Copied, Absent

\* The drain has nothing ahead of it and nothing behind.
Empty(d) == d.phase \in {"off", "probing"} /\ \A o \in Key : d.batch[o].status # "pending"

LEMMA DrainOffIsEmpty == Empty(DrainOff) /\ Empty([DrainOff EXCEPT !.phase = "probing"])
  BY DEF Empty, DrainOff, NoOps, Absent

\* A step that does not move the loop of a drain, and writes only operations
\* the drain does not reckon with.
LEMMA QuietStep ==
  ASSUME QueueInv, drain' = drain \/ Empty(drain'),
         session' = session \/ session' # 0,
         \A o \in Key : Copied(o)' => outbox'[o].status \in {"failed", "absent"} /\ Loose(o),
         \A o \in Key : \/ outbox'[o].status = outbox[o].status
                        \/ Loose(o) /\ outbox[o].status # "confirmed"
                        \/ outbox'[o].status = "absent" /\ session' # 0
  PROVE  QueueInv' /\ ConfirmedStays
<1>1. ConfirmedStays
  BY DEF ConfirmedStays
<1>2. CASE Empty(drain')
  <2>1. Unvisited' = {} /\ \A o \in Key : Loose(o)' /\ ~Sending(o)'
    BY <1>2 DEF Empty, Unvisited, Loose, Sending
  <2> QED
    BY <1>1, <1>2, <2>1 DEF QueueInv, CopiesCurrent, AheadIsPending, SentIsOldest,
       BehindIsConfirmed, NoBatchWithoutDrain, Empty
<1>3. CASE drain' = drain
  <2>1. Unvisited' = Unvisited /\ \A o \in Key : (Loose(o)' <=> Loose(o)) /\ (Sending(o)' <=> Sending(o))
    BY <1>3 DEF Unvisited, Loose, Sending
  <2>2. CopiesCurrent'
    BY <2>1 DEF CopiesCurrent
  <2>0. \A o \in Unvisited : o \in Key /\ ~Loose(o)
    BY DEF Unvisited, Loose
  <2>3. AheadIsPending'
    <3> SUFFICES ASSUME NEW o \in Unvisited, ~Sending(o)
                 PROVE  \/ outbox'[o].status = "pending"
                        \/ outbox'[o].status = "absent" /\ session' # 0
      BY <2>0, <2>1 DEF AheadIsPending
    <3>1. o \in Key /\ ~Loose(o)
      BY <2>0
    <3>2. \/ outbox[o].status = "pending"
          \/ outbox[o].status = "absent" /\ session # 0
      BY DEF QueueInv, AheadIsPending
    <3> QED
      BY <3>1, <3>2
  <2>4. SentIsOldest'
    BY <1>3, <2>1 DEF QueueInv, SentIsOldest, Loose
  <2>5. BehindIsConfirmed'
    BY <2>1 DEF QueueInv, BehindIsConfirmed
  <2>6. NoBatchWithoutDrain'
    BY <1>3 DEF QueueInv, NoBatchWithoutDrain
  <2> QED
    BY <1>1, <2>2, <2>3, <2>4, <2>5, <2>6 DEF QueueInv
<1> QED
  BY <1>2, <1>3

LEMMA FlushIsQuiet == ASSUME Flush PROVE drain' = drain \/ Empty(drain')
  BY DrainOffIsEmpty DEF Flush

\* ... of at most one operation, which no retry loop is about to requeue.
LEMMA LooseIsWritten ==
  ASSUME ClientTypeOK, QueueInv, drain' = drain \/ Empty(drain'), session' = session,
         NEW o \in Key, Loose(o), outbox[o].status # "confirmed", ~Copied(o)',
         \A p \in Key : p # o => outbox'[p] = outbox[p] /\ (Copied(p)' => Copied(p))
  PROVE  QueueInv' /\ ConfirmedStays
<1>1. \A p \in Key : Copied(p)' => outbox'[p].status \in {"failed", "absent"} /\ Loose(p)
  BY DEF QueueInv, CopiesCurrent
<1>2. \A p \in Key : outbox'[p].status = outbox[p].status \/ (Loose(p) /\ outbox[p].status # "confirmed")
  OBVIOUS
<1> QED
  BY <1>1, <1>2, QuietStep

LEMMA NothingIsWritten ==
  ASSUME QueueInv, drain' = drain \/ Empty(drain'), session' = session,
         \A o \in Key : outbox'[o].status = outbox[o].status,
         \A o \in Key : Copied(o)' => Copied(o)
  PROVE  QueueInv' /\ ConfirmedStays
<1>1. \A p \in Key : Copied(p)' => outbox'[p].status \in {"failed", "absent"} /\ Loose(p)
  BY DEF QueueInv, CopiesCurrent
<1> QED
  BY <1>1, QuietStep

LEMMA UserKeepsQueue ==
  ASSUME ReceiptInv, QueueInv, UserStep
  PROVE  QueueInv' /\ ConfirmedStays
<1> USE DEF ReceiptInv, SyncInv, SyncTypeOK
<1>0. ClientTypeOK
  OBVIOUS
<1>1. ASSUME NEW o \in Key, SubmitOffline(o) PROVE QueueInv' /\ ConfirmedStays
  <2>1. /\ shown[o] = "nothing" /\ UNCHANGED <<drain, copies, session>>
        /\ \A p \in Key : p # o => outbox'[p] = outbox[p]
    BY <1>1 DEF SubmitOffline, Submit, PutNew, Put, ClientTypeOK
  <2>2. Loose(o) /\ outbox[o].status # "confirmed" /\ ~Copied(o)
    BY <2>1, FreshIsLoose
  <2>3. \A p \in Key : Copied(p)' <=> Copied(p)
    BY <2>1 DEF Copied
  <2> QED
    BY <1>0, <2>1, <2>2, <2>3, LooseIsWritten
<1>2. ASSUME NEW o \in Key, NEW a \in Attempt, SubmitOnline(o, a) PROVE QueueInv' /\ ConfirmedStays
  <2>1. UNCHANGED <<drain, copies, session, outbox>>
    BY <1>2 DEF SubmitOnline
  <2>2. \A p \in Key : Copied(p)' <=> Copied(p)
    BY <2>1 DEF Copied
  <2> QED
    BY <2>1, <2>2, NothingIsWritten
<1>3. ASSUME NEW o \in Key, KeepMine(o) \/ UseServer(o) PROVE QueueInv' /\ ConfirmedStays
  <2>1. /\ outbox[o].status = "conflict" /\ UNCHANGED <<copies, session>> /\ Flush
        /\ \A p \in Key : p # o => outbox'[p] = outbox[p]
    BY <1>3 DEF KeepMine, UseServer, Put, ClientTypeOK
  <2>2. Loose(o) /\ outbox[o].status # "confirmed" /\ ~Copied(o)
    BY <2>1, ParkedIsLoose DEF QueueInv, CopiesCurrent
  <2>3. \A p \in Key : Copied(p)' <=> Copied(p)
    BY <2>1 DEF Copied
  <2> QED
    BY <1>0, <2>1, <2>2, <2>3, FlushIsQuiet, LooseIsWritten
<1>4. ASSUME NEW t \in Tap, RetryTapped(t) PROVE QueueInv' /\ ConfirmedStays
  <2>1. /\ UNCHANGED <<drain, session, outbox>>
        /\ \A o \in Key, u \in Tap :
             copies'[u][o] # Absent => outbox[o].status = "failed" \/ copies[u][o] # Absent
    BY <1>4 DEF RetryTapped, ClientTypeOK
  <2>2. \A o \in Key : Copied(o)' => outbox[o].status = "failed" \/ Copied(o)
    BY <2>1 DEF Copied
  <2>3. \A o \in Key : Copied(o)' => outbox'[o].status \in {"failed", "absent"} /\ Loose(o)
    BY <2>1, <2>2, ParkedIsLoose DEF QueueInv, CopiesCurrent
  <2> QED
    BY <2>1, <2>3, QuietStep
<1>5. ASSUME SwitchUser PROVE QueueInv' /\ ConfirmedStays
  <2>1. /\ UNCHANGED <<drain, copies>> /\ session' # 0
        /\ \A o \in Key : outbox'[o].status = "absent"
    BY <1>5 DEF SwitchUser, NoOps, Absent, ClientTypeOK
  <2>2. \A o \in Key : Copied(o)' <=> Copied(o)
    BY <2>1 DEF Copied
  <2>3. \A o \in Key : Copied(o)' => outbox'[o].status \in {"failed", "absent"} /\ Loose(o)
    BY <2>1, <2>2 DEF QueueInv, CopiesCurrent
  <2> QED
    BY <2>1, <2>3, QuietStep
<1> QED
  BY <1>1, <1>2, <1>3, <1>4, <1>5 DEF UserStep

LEMMA GatewayKeepsQueue ==
  ASSUME ReceiptInv, QueueInv, NEW a \in Attempt, GatewayStep(a)
  PROVE  QueueInv' /\ ConfirmedStays
<1> USE DEF ReceiptInv, SyncInv, SyncTypeOK
<1>0. ClientTypeOK /\ UNCHANGED <<drain, copies, session>>
  BY DEF GatewayStep, GatewayAnswer, GatewayTimeout
<1>1. PICK o \in Key : /\ shown[o] = "waiting"
                       /\ \A p \in Key : p # o => outbox'[p] = outbox[p]
  BY GatewayStores DEF PutNew, Put, ClientTypeOK
<1>2. Loose(o) /\ outbox[o].status # "confirmed" /\ ~Copied(o)
  BY <1>1, FreshIsLoose
<1>3. \A p \in Key : Copied(p)' <=> Copied(p)
  BY <1>0 DEF Copied
<1> QED
  BY <1>0, <1>1, <1>2, <1>3, LooseIsWritten

LEMMA OthersKeepQueue ==
  ASSUME ReceiptInv, CopiesOfCalls, OneTapAtATime, QueueInv,
         \/ \E a \in Attempt : NetworkStep(a) \/ EngineThrows(a)
         \/ \E t \in Tap : RetryStep(t)
         \/ \E o \in Key : BackoffElapses(o)
         \/ ProbeFails \/ Reconnect \/ Disconnect \/ Resume \/ Restart
         \/ UNCHANGED vars
  PROVE  QueueInv' /\ ConfirmedStays
<1> USE DEF ReceiptInv, SyncInv, SyncTypeOK
<1>0. ClientTypeOK
  OBVIOUS
<1>1. ASSUME UNCHANGED <<outbox, session, copies>>, drain' = drain \/ Empty(drain')
      PROVE  QueueInv' /\ ConfirmedStays
  <2>1. \A p \in Key : Copied(p)' <=> Copied(p)
    BY <1>1 DEF Copied
  <2> QED
    BY <1>1, <2>1, NothingIsWritten
<1>2. ASSUME NEW t \in Tap, NEW o \in Key, Requeue(t, o) PROVE QueueInv' /\ ConfirmedStays
  <2>1. /\ copies[t][o] # Absent /\ UNCHANGED <<drain, session>>
        /\ \A p \in Key : p # o => outbox'[p] = outbox[p]
        /\ copies'[t][o] = Absent
        /\ \A p \in Key, u \in Tap : p # o \/ u # t => copies'[u][p] = copies[u][p]
    BY <1>2 DEF Requeue, Put, ClientTypeOK
  <2>2. Loose(o) /\ outbox[o].status # "confirmed"
    BY <2>1, ParkedIsLoose DEF Copied
  <2>3. ~Copied(o)' /\ \A p \in Key : p # o => (Copied(p)' => Copied(p))
    <3>1. \A u \in Tap : copies[u][o] # Absent => u = t
      BY <2>1 DEF CopiesOfCalls, OneTapAtATime
    <3> QED
      BY <2>1, <3>1 DEF Copied
  <2> QED
    BY <1>0, <2>1, <2>2, <2>3, LooseIsWritten
<1>3. ASSUME NEW o \in Key, BackoffElapses(o) PROVE QueueInv' /\ ConfirmedStays
  <2>1. outbox[o] \in Envelope
    BY DEF ClientTypeOK
  <2>2. [outbox[o] EXCEPT !.later = FALSE].status = outbox[o].status
    BY <2>1 DEF Envelope
  <2>3. /\ outbox' = [outbox EXCEPT ![o] = [outbox[o] EXCEPT !.later = FALSE]]
        /\ UNCHANGED <<drain, copies, session>>
    BY <1>3 DEF BackoffElapses
  <2>4. \A p \in Key : outbox'[p].status = outbox[p].status
    BY <2>2, <2>3 DEF ClientTypeOK
  <2>5. \A p \in Key : Copied(p)' <=> Copied(p)
    BY <2>3 DEF Copied
  <2> QED
    BY <2>3, <2>4, <2>5, NothingIsWritten
<1>4. ASSUME Restart PROVE QueueInv' /\ ConfirmedStays
  <2>1. /\ Empty(drain') /\ session' = session
        /\ \A o \in Key, t \in Tap : copies'[t][o] = Absent
        /\ \A o \in Key : outbox'[o] = outbox[o] \/ outbox'[o].status = "absent"
    BY <1>4, DrainOffIsEmpty DEF Restart, NoOps, Absent
  <2>2. Unvisited' = {} /\ \A o \in Key : Loose(o)' /\ ~Sending(o)' /\ ~Copied(o)'
    BY <2>1 DEF Empty, Unvisited, Loose, Sending, Copied
  <2> QED
    BY <2>1, <2>2 DEF QueueInv, CopiesCurrent, AheadIsPending, SentIsOldest,
       BehindIsConfirmed, NoBatchWithoutDrain, Empty, ConfirmedStays
<1>5. ASSUME NEW t \in Tap, RetryFlushes(t) PROVE QueueInv' /\ ConfirmedStays
  BY <1>1, <1>5, FlushIsQuiet DEF RetryFlushes
<1>6. CASE Reconnect \/ Disconnect \/ Resume
  BY <1>1, <1>6, FlushIsQuiet DEF Reconnect, Disconnect, Resume
<1>7. CASE ProbeFails \/ UNCHANGED vars
  BY <1>1, <1>7, DrainOffIsEmpty DEF ProbeFails, vars, clientVars
<1>8. CASE \E a \in Attempt : NetworkStep(a) \/ EngineThrows(a)
  BY <1>1, <1>8, DrainOffIsEmpty DEF NetworkStep, EngineThrows, clientVars
<1> QED
  BY <1>2, <1>3, <1>4, <1>5, <1>6, <1>7, <1>8 DEF RetryStep

\* The loop of the drain goes on to the next operation.
LEMMA VisitMoves ==
  ASSUME drain \in Drain, NEW o \in Unvisited, NEW b \in BOOLEAN, Visit(o, b)
  PROVE  /\ Unvisited' = Unvisited \ {o} /\ \A p \in Key : ~Sending(p)'
         /\ drain'.phase = "loop"
         /\ \A p \in Key : Loose(p) => Loose(p)'
         /\ \A p \in Key : p # o /\ ~Loose(p)' => ~Loose(p)
         /\ ~Loose(o)' => b
<1>1. /\ drain'.phase = "loop" /\ drain'.batch = drain.batch
      /\ drain'.visited = drain.visited \cup {o}
      /\ b => drain'.blocked = drain.blocked
      /\ ~b => drain'.blocked = drain.blocked \cup ({EntityOf[o]} \ {NoEntity})
  BY DEF Visit, Drain
<1>2. Unvisited' = Unvisited \ {o}
  BY <1>1 DEF Unvisited
<1> QED
  BY <1>1, <1>2 DEF Sending, Loose

\* HoldBack, EngineAnswer and EngineTimeout: the drain is done with o.
LEMMA VisitKeepsQueue ==
  ASSUME ClientTypeOK, QueueInv, NEW o \in Unvisited, NEW b \in BOOLEAN, Visit(o, b),
         UNCHANGED <<copies, session>>,
         \A p \in Key : p # o => outbox'[p] = outbox[p],
         \A p \in Unvisited : p # o => ~Sending(p),
         b => outbox'[o].status = "confirmed",
         outbox[o].status # "confirmed"
  PROVE  QueueInv' /\ ConfirmedStays
<1>1. /\ Unvisited' = Unvisited \ {o} /\ \A p \in Key : ~Sending(p)'
      /\ drain'.phase = "loop"
      /\ \A p \in Key : Loose(p) => Loose(p)'
      /\ \A p \in Key : p # o /\ ~Loose(p)' => ~Loose(p)
      /\ ~Loose(o)' => b
  BY VisitMoves DEF ClientTypeOK
<1>2. o \in Key /\ ~Loose(o) /\ ~Copied(o)
  BY DEF Unvisited, Loose, QueueInv, CopiesCurrent
<1>3. \A p \in Key : Copied(p)' <=> Copied(p)
  BY DEF Copied
<1>4. CopiesCurrent'
  <2>1. ASSUME NEW p \in Key, Copied(p)'
        PROVE  outbox'[p].status \in {"failed", "absent"} /\ Loose(p)'
    <3>1. Copied(p) /\ p # o
      BY <1>2, <1>3, <2>1
    <3> QED
      BY <1>1, <3>1 DEF QueueInv, CopiesCurrent
  <2> QED
    BY <2>1 DEF CopiesCurrent
<1>5. AheadIsPending'
  <2>1. ASSUME NEW p \in Unvisited, p # o
        PROVE  \/ outbox'[p].status = "pending"
               \/ outbox'[p].status = "absent" /\ session' # 0
    BY <2>1 DEF QueueInv, AheadIsPending, Unvisited
  <2> QED
    BY <1>1, <2>1 DEF AheadIsPending
<1>6. SentIsOldest'
  BY <1>1 DEF SentIsOldest
<1>7. BehindIsConfirmed'
  <2>1. ASSUME NEW p \in Key, p \notin Unvisited', ~Loose(p)'
        PROVE  outbox'[p].status \in {"confirmed", "absent"}
    <3>1. CASE p = o
      BY <1>1, <2>1, <3>1
    <3>2. CASE p # o
      <4>1. p \notin Unvisited /\ ~Loose(p) /\ outbox'[p] = outbox[p]
        BY <1>1, <2>1, <3>2
      <4> QED
        BY <4>1 DEF QueueInv, BehindIsConfirmed
    <3> QED
      BY <3>1, <3>2
  <2> QED
    BY <2>1 DEF BehindIsConfirmed
<1>8. NoBatchWithoutDrain'
  BY <1>1 DEF NoBatchWithoutDrain
<1>9. ConfirmedStays
  BY <1>2 DEF ConfirmedStays
<1> QED
  BY <1>4, <1>5, <1>6, <1>7, <1>8, <1>9 DEF QueueInv

LEMMA EngineKeepsQueue ==
  ASSUME ReceiptInv, QueueInv, EngineStep
  PROVE  QueueInv' /\ ConfirmedStays
<1> USE DEF ReceiptInv, SyncInv, SyncTypeOK
<1>0. ClientTypeOK
  OBVIOUS
<1>1. ASSUME ReadQueue PROVE QueueInv' /\ ConfirmedStays
  <2>1. /\ outbox' = [o \in Key |-> Reclaimed(o)]
        /\ drain'.phase = "loop" /\ drain'.visited = {} /\ drain'.blocked = {}
        /\ drain'.batch = [o \in Key |-> IF Reclaimed(o).status = "pending"
                                         THEN Reclaimed(o) ELSE Absent]
        /\ copies' = copies
    <3>1. \A q : LET d == [DrainOff EXCEPT !.phase = "loop", !.batch = q]
                 IN  d.batch = q /\ d.phase = "loop" /\ d.visited = {} /\ d.blocked = {}
      BY DEF DrainOff
    <3> QED
      BY <1>1, <3>1 DEF ReadQueue
  <2>2. \A o \in Key : outbox'[o].status = IF outbox[o].status = "inFlight" THEN "pending"
                                           ELSE outbox[o].status
    BY <2>1 DEF Reclaimed, ClientTypeOK, Envelope
  <2>3. \A o \in Key : drain'.batch[o].status = "pending" <=> outbox'[o].status = "pending"
    BY <2>1 DEF Absent
  <2>4. /\ \A o \in Key : o \in Unvisited' <=> outbox'[o].status = "pending"
        /\ \A o \in Key : Loose(o)' <=> o \notin Unvisited'
        /\ \A o \in Key : ~Sending(o)'
    BY <2>1, <2>3 DEF Unvisited, Loose, Sending
  <2>5. \A o \in Key : Copied(o)' <=> Copied(o)
    BY <2>1 DEF Copied
  <2>6. CopiesCurrent'
    BY <2>2, <2>4, <2>5 DEF QueueInv, CopiesCurrent
  <2>7. AheadIsPending' /\ SentIsOldest' /\ BehindIsConfirmed' /\ NoBatchWithoutDrain'
    BY <2>1, <2>4 DEF AheadIsPending, SentIsOldest, BehindIsConfirmed, NoBatchWithoutDrain,
       Unvisited
  <2>8. ConfirmedStays
    BY <2>2 DEF ConfirmedStays
  <2> QED
    BY <2>6, <2>7, <2>8 DEF QueueInv
<1>2. ASSUME DrainEnds PROVE QueueInv' /\ ConfirmedStays
  <2>1. UNCHANGED <<outbox, session, copies>> /\ Empty(drain')
    BY <1>2, DrainOffIsEmpty DEF DrainEnds
  <2>2. \A p \in Key : Copied(p)' <=> Copied(p)
    BY <2>1 DEF Copied
  <2> QED
    BY <2>1, <2>2, NothingIsWritten
<1>3. ASSUME NEW o \in Key, HoldBack(o) PROVE QueueInv' /\ ConfirmedStays
  <2>1. /\ o \in Unvisited /\ drain.phase = "loop" /\ Visit(o, FALSE)
        /\ UNCHANGED <<outbox, session, copies>>
    BY <1>3 DEF HoldBack, At
  <2>2. \A p \in Key : ~Sending(p)
    BY <2>1 DEF Sending
  <2>3. outbox[o].status # "confirmed"
    BY <2>1, <2>2 DEF QueueInv, AheadIsPending
  <2> QED
    BY <1>0, <2>1, <2>2, <2>3, VisitKeepsQueue DEF Unvisited
<1>4. ASSUME NEW o \in Key, NEW a \in Attempt, Transmit(o, a) PROVE QueueInv' /\ ConfirmedStays
  <2>1. /\ o \in Unvisited /\ drain.phase = "loop" /\ EntityOf[o] \notin drain.blocked
        /\ \A p \in Unvisited : drain.batch[o].at <= drain.batch[p].at
        /\ drain' = [drain EXCEPT !.phase = "sending", !.current = o]
        /\ UNCHANGED <<session, copies>>
    BY <1>4 DEF Transmit, At, Held
  <2>2. /\ drain'.phase = "sending" /\ drain'.current = o /\ drain'.batch = drain.batch
        /\ drain'.visited = drain.visited /\ drain'.blocked = drain.blocked
    BY <2>1 DEF ClientTypeOK, Drain
  <2>3. /\ outbox'[o].status = "inFlight"
        /\ \A p \in Key : p # o => outbox'[p] = outbox[p]
    <3>1. [drain.batch[o] EXCEPT !.status = "inFlight"].status = "inFlight"
      BY DEF ClientTypeOK, Drain, Envelope
    <3> QED
      BY <1>4, <3>1 DEF Transmit, Put, ClientTypeOK
  <2>4. /\ Unvisited' = Unvisited /\ \A p \in Key : Loose(p)' <=> Loose(p)
        /\ \A p \in Key : Sending(p)' <=> p = o
        /\ \A p \in Key : ~Sending(p)
    BY <2>1, <2>2 DEF Unvisited, Loose, Sending
  <2>5. \A p \in Key : Copied(p)' <=> Copied(p)
    BY <2>1 DEF Copied
  <2>6. ~Loose(o)
    BY <2>1 DEF Loose
  <2>7. CopiesCurrent'
    BY <2>3, <2>4, <2>5, <2>6 DEF QueueInv, CopiesCurrent
  <2>8. AheadIsPending'
    BY <2>1, <2>3, <2>4 DEF QueueInv, AheadIsPending, Unvisited
  <2>9. SentIsOldest'
    BY <2>1, <2>2, <2>3, <2>4 DEF SentIsOldest
  <2>10. BehindIsConfirmed' /\ NoBatchWithoutDrain'
    BY <2>1, <2>2, <2>3, <2>4 DEF QueueInv, BehindIsConfirmed, NoBatchWithoutDrain
  <2>11. ConfirmedStays
    BY <2>1, <2>3, <2>4 DEF QueueInv, AheadIsPending, ConfirmedStays
  <2> QED
    BY <2>7, <2>8, <2>9, <2>10, <2>11 DEF QueueInv
<1>5. ASSUME NEW a \in Attempt, EngineAnswer(a) \/ EngineTimeout(a)
      PROVE  QueueInv' /\ ConfirmedStays
  <2>1. PICK o \in Key, c \in Class : \E e \in Processed(o, c) :
           /\ o = drain.current /\ drain.phase = "sending"
           /\ Put(o, e) /\ Visit(o, c = "confirmed")
    BY <1>5, AnswerIsStored
  <2>2. PICK e \in Processed(o, c) : Put(o, e)
    BY <2>1
  <2>3. Sending(o) /\ \A p \in Key : p # o => ~Sending(p)
    BY <2>1 DEF Sending
  <2>4. o \in Unvisited /\ outbox[o].status # "confirmed"
    BY <2>3 DEF QueueInv, SentIsOldest
  <2>5. /\ c = "confirmed" => outbox'[o].status = "confirmed"
        /\ \A p \in Key : p # o => outbox'[p] = outbox[p]
    BY <2>2, ProcessedStatus DEF Put, ClientTypeOK
  <2>6. UNCHANGED <<copies, session>>
    BY <1>5 DEF EngineAnswer, EngineTimeout
  <2>7. PICK b \in BOOLEAN : Visit(o, b) /\ (b => c = "confirmed")
    BY <2>1
  <2> QED
    BY <1>0, <2>3, <2>4, <2>5, <2>6, <2>7, VisitKeepsQueue DEF Unvisited
<1> QED
  BY <1>1, <1>2, <1>3, <1>4, <1>5 DEF EngineStep

LEMMA NextKeepsQueue ==
  ASSUME ReceiptInv, CopiesOfCalls, OneTapAtATime, QueueInv, [Next]_vars
  PROVE  QueueInv' /\ ConfirmedStays
<1>1. CASE UserStep
  BY <1>1, UserKeepsQueue
<1>2. CASE EngineStep
  BY <1>2, EngineKeepsQueue
<1>3. CASE \E a \in Attempt : GatewayStep(a)
  BY <1>3, GatewayKeepsQueue
<1> QED
  BY <1>1, <1>2, <1>3, OthersKeepQueue DEF Next

LEMMA InitQueue == Init => QueueInv
<1> SUFFICES ASSUME Init PROVE QueueInv
  OBVIOUS
<1>1. Empty(drain) /\ \A o \in Key : ~Copied(o)
  BY DrainOffIsEmpty DEF Init, ClientInit, Copied, NoOps
<1> QED
  BY <1>1 DEF Empty, QueueInv, CopiesCurrent, AheadIsPending, SentIsOldest, BehindIsConfirmed,
     NoBatchWithoutDrain, Loose, Sending, Unvisited

LEMMA CallsInvariant == Spec => []CopiesOfCalls
<1>1. Init => CopiesOfCalls
  BY DEF Init, ClientInit, CopiesOfCalls, NoOps
<1>2. ASSUME ReceiptInv, CopiesOfCalls, [Next]_vars PROVE CopiesOfCalls'
  <2> USE DEF ReceiptInv, SyncInv, SyncTypeOK, ClientTypeOK, CopiesOfCalls
  <2>1. ASSUME NEW t \in Tap, RetryTapped(t) PROVE CopiesOfCalls'
    BY <1>2, <2>1 DEF RetryTapped
  <2>2. ASSUME NEW t \in Tap, NEW o \in Key, Requeue(t, o) PROVE CopiesOfCalls'
    BY <1>2, <2>2 DEF Requeue
  <2>3. ASSUME NEW t \in Tap, RetryFlushes(t) PROVE CopiesOfCalls'
    BY <1>2, <2>3 DEF RetryFlushes, NoOps
  <2>4. CASE Restart
    BY <2>4 DEF Restart, NoOps
  <2>5. ASSUME UNCHANGED <<tapped, copies>> PROVE CopiesOfCalls'
    BY <1>2, <2>5
  <2>6. CASE UserStep
    BY <2>1, <2>5, <2>6 DEF UserStep, SubmitOffline, SubmitOnline, KeepMine, UseServer, SwitchUser
  <2>7. CASE EngineStep
    BY <2>5, <2>7 DEF EngineStep, ReadQueue, DrainEnds, HoldBack, Transmit, EngineAnswer,
       EngineTimeout
  <2>8. CASE \E a \in Attempt : NetworkStep(a) \/ GatewayStep(a) \/ EngineThrows(a)
    BY <2>5, <2>8 DEF NetworkStep, GatewayStep, GatewayAnswer, GatewayTimeout, EngineThrows,
       clientVars
  <2>9. CASE ProbeFails \/ Reconnect \/ Disconnect \/ Resume \/ UNCHANGED vars
    BY <2>5, <2>9 DEF ProbeFails, Reconnect, Disconnect, Resume, vars, clientVars
  <2>10. CASE \E o \in Key : BackoffElapses(o)
    BY <2>5, <2>10 DEF BackoffElapses
  <2> QED
    BY <1>2, <2>2, <2>3, <2>4, <2>6, <2>7, <2>8, <2>9, <2>10 DEF Next, RetryStep
<1>3. ReceiptInv /\ CopiesOfCalls /\ [Next]_vars => CopiesOfCalls'
  BY <1>2
<1> QED
  BY <1>1, <1>3, ReceiptInvariant, PTL DEF Spec

LEMMA QueueInvariant == Spec /\ []OneTapAtATime => []QueueInv
<1>1. ReceiptInv /\ CopiesOfCalls /\ OneTapAtATime /\ QueueInv /\ [Next]_vars => QueueInv'
  BY NextKeepsQueue
<1> QED
  BY InitQueue, <1>1, ReceiptInvariant, CallsInvariant, PTL DEF Spec

\* What the drain has ahead of it needs no such condition: a step that does not
\* move its loop makes of an operation ahead nothing but pending.
LEMMA AheadStays ==
  ASSUME AheadIsPending, drain' = drain \/ Empty(drain'), session' = session \/ session' # 0,
         \A o \in Key : \/ o \notin Unvisited \/ Sending(o)
                        \/ outbox'[o].status \in {outbox[o].status, "pending"}
                        \/ outbox'[o].status = "absent" /\ session' # 0
  PROVE  AheadIsPending'
<1>1. CASE Empty(drain')
  BY <1>1 DEF Empty, Unvisited, AheadIsPending
<1>2. CASE drain' = drain
  <2>1. Unvisited' = Unvisited /\ \A o \in Key : Sending(o)' <=> Sending(o)
    BY <1>2 DEF Unvisited, Sending
  <2>2. Unvisited \subseteq Key
    BY DEF Unvisited
  <2> SUFFICES ASSUME NEW o \in Unvisited, ~Sending(o)
               PROVE  \/ outbox'[o].status = "pending"
                      \/ outbox'[o].status = "absent" /\ session' # 0
    BY <2>1, <2>2 DEF AheadIsPending
  <2>3. \/ outbox[o].status = "pending"
        \/ outbox[o].status = "absent" /\ session # 0
    BY DEF AheadIsPending
  <2> QED
    BY <2>2, <2>3
<1> QED
  BY <1>1, <1>2

\* One operation is stored that the drain does not have ahead, or as pending.
LEMMA OneAhead ==
  ASSUME ClientTypeOK, AheadIsPending, drain' = drain \/ Empty(drain'), session' = session,
         NEW o \in Key, \A p \in Key : p # o => outbox'[p] = outbox[p],
         o \notin Unvisited \/ Sending(o) \/ outbox'[o].status = "pending"
  PROVE  AheadIsPending'
<1>1. \A p \in Key : \/ p \notin Unvisited \/ Sending(p)
                     \/ outbox'[p].status \in {outbox[p].status, "pending"}
  OBVIOUS
<1> QED
  BY <1>1, AheadStays

\* The loop leaves o behind.
LEMMA LeftBehind ==
  ASSUME ClientTypeOK, AheadIsPending, NEW o \in Key, NEW b, Visit(o, b), session' = session,
         \A p \in Key : Sending(p) => p = o, \A p \in Key : p # o => outbox'[p] = outbox[p]
  PROVE  AheadIsPending'
<1>1. drain'.batch = drain.batch /\ drain'.visited = drain.visited \cup {o}
  BY DEF Visit, ClientTypeOK, Drain
<1>2. \A p \in Unvisited' : p \in Key /\ p # o /\ p \in Unvisited /\ ~Sending(p)
  BY <1>1 DEF Unvisited
<1> QED
  BY <1>2 DEF AheadIsPending

LEMMA EngineAhead ==
  ASSUME ReceiptInv, AheadIsPending, EngineStep
  PROVE  AheadIsPending'
<1> USE DEF ReceiptInv, SyncInv, SyncTypeOK
<1>0. ClientTypeOK
  OBVIOUS
<1>1. CASE ReadQueue
  <2>1. \A o \in Key : drain'.batch[o].status = "pending" => outbox'[o].status = "pending"
    BY <1>1 DEF ReadQueue, DrainOff, Absent
  <2> QED
    BY <2>1 DEF AheadIsPending, Unvisited
<1>2. CASE DrainEnds
  BY <1>2, DrainOffIsEmpty, AheadStays DEF DrainEnds
<1>3. ASSUME NEW o \in Key, HoldBack(o) PROVE AheadIsPending'
  BY <1>0, <1>3, LeftBehind DEF HoldBack, At, Sending
<1>4. ASSUME NEW o \in Key, NEW a \in Attempt, Transmit(o, a) PROVE AheadIsPending'
  <2>1. /\ drain.phase = "loop" /\ session' = session
        /\ drain' = [drain EXCEPT !.phase = "sending", !.current = o]
        /\ \A p \in Key : p # o => outbox'[p] = outbox[p]
    BY <1>0, <1>4 DEF Transmit, At, Put, ClientTypeOK
  <2>2. /\ drain'.phase = "sending" /\ drain'.current = o /\ drain'.batch = drain.batch
        /\ drain'.visited = drain.visited
    BY <1>0, <2>1 DEF ClientTypeOK, Drain
  <2>3. Unvisited' = Unvisited /\ Sending(o)' /\ \A p \in Key : ~Sending(p)
    BY <2>1, <2>2 DEF Unvisited, Sending
  <2> QED
    BY <2>1, <2>3 DEF AheadIsPending, Unvisited
<1>5. ASSUME NEW a \in Attempt, EngineAnswer(a) \/ EngineTimeout(a) PROVE AheadIsPending'
  <2>1. PICK o \in Key, c \in Class : \E e \in Processed(o, c) :
           /\ o = drain.current /\ drain.phase = "sending"
           /\ Put(o, e) /\ Visit(o, c = "confirmed")
    BY <1>5, AnswerIsStored
  <2>2. \A p \in Key : (Sending(p) => p = o) /\ (p # o => outbox'[p] = outbox[p])
    BY <1>0, <2>1 DEF Sending, Put, ClientTypeOK
  <2>3. session' = session
    BY <1>5 DEF EngineAnswer, EngineTimeout
  <2> QED
    BY <1>0, <2>1, <2>2, <2>3, LeftBehind
<1> QED
  BY <1>1, <1>2, <1>3, <1>4, <1>5 DEF EngineStep

LEMMA UserAhead ==
  ASSUME ReceiptInv, AheadIsPending, UserStep
  PROVE  AheadIsPending'
<1> USE DEF ReceiptInv, SyncInv, SyncTypeOK
<1>0. ClientTypeOK
  OBVIOUS
<1>1. ASSUME NEW o \in Key, SubmitOffline(o) PROVE AheadIsPending'
  <2>1. /\ shown[o] = "nothing" /\ UNCHANGED <<drain, session>>
        /\ \A p \in Key : p # o => outbox'[p] = outbox[p]
    BY <1>1 DEF SubmitOffline, Submit, PutNew, Put, ClientTypeOK
  <2>2. o \notin Unvisited
    BY <2>1, FreshIsLoose DEF Loose
  <2> QED
    BY <1>0, <2>1, <2>2, OneAhead
<1>2. ASSUME NEW o \in Key, KeepMine(o) \/ UseServer(o) PROVE AheadIsPending'
  <2>1. /\ outbox[o].status = "conflict" /\ session' = session /\ Flush
        /\ \A p \in Key : p # o => outbox'[p] = outbox[p]
    BY <1>2 DEF KeepMine, UseServer, Put, ClientTypeOK
  <2>2. o \notin Unvisited \/ Sending(o)
    BY <2>1 DEF AheadIsPending
  <2> QED
    BY <1>0, <2>1, <2>2, FlushIsQuiet, OneAhead
<1>3. CASE SwitchUser
  <2>1. /\ drain' = drain /\ session' # 0
        /\ \A o \in Key : outbox'[o].status = "absent"
    BY <1>3 DEF SwitchUser, NoOps, Absent, ClientTypeOK
  <2> QED
    BY <2>1, AheadStays
<1>4. ASSUME UNCHANGED <<outbox, drain, session>> PROVE AheadIsPending'
  BY <1>4, AheadStays
<1> QED
  BY <1>1, <1>2, <1>3, <1>4 DEF UserStep, SubmitOnline, RetryTapped

LEMMA OthersAhead ==
  ASSUME ReceiptInv, AheadIsPending,
         \/ \E a \in Attempt : NetworkStep(a) \/ GatewayStep(a) \/ EngineThrows(a)
         \/ \E t \in Tap : RetryStep(t)
         \/ \E o \in Key : BackoffElapses(o)
         \/ ProbeFails \/ Reconnect \/ Disconnect \/ Resume \/ Restart
         \/ UNCHANGED vars
  PROVE  AheadIsPending'
<1> USE DEF ReceiptInv, SyncInv, SyncTypeOK
<1>0. ClientTypeOK
  OBVIOUS
<1>1. ASSUME UNCHANGED <<outbox, session>>, drain' = drain \/ Empty(drain') PROVE AheadIsPending'
  BY <1>1, AheadStays
<1>2. ASSUME NEW t \in Tap, NEW o \in Key, Requeue(t, o) PROVE AheadIsPending'
  <2>1. copies[t][o] \in Envelope
    BY <1>0 DEF ClientTypeOK
  <2>2. [copies[t][o] EXCEPT !.status = "pending", !.later = FALSE].status = "pending"
    BY <2>1 DEF Envelope
  <2>3. /\ UNCHANGED <<drain, session>> /\ outbox'[o].status = "pending"
        /\ \A p \in Key : p # o => outbox'[p] = outbox[p]
    BY <1>0, <1>2, <2>2 DEF Requeue, Put, ClientTypeOK
  <2> QED
    BY <1>0, <2>3, OneAhead
<1>3. ASSUME NEW o \in Key, BackoffElapses(o) PROVE AheadIsPending'
  <2>1. [outbox[o] EXCEPT !.later = FALSE].status = outbox[o].status
    BY <1>0 DEF ClientTypeOK, Envelope
  <2>2. /\ outbox' = [outbox EXCEPT ![o] = [outbox[o] EXCEPT !.later = FALSE]]
        /\ UNCHANGED <<drain, session>>
    BY <1>3 DEF BackoffElapses
  <2>3. \A p \in Key : outbox'[p].status = outbox[p].status
    BY <1>0, <2>1, <2>2 DEF ClientTypeOK
  <2> QED
    BY <2>2, <2>3, AheadStays
<1>4. CASE Restart
  <2>1. Unvisited' = {}
    BY <1>4, DrainOffIsEmpty DEF Restart, Empty, Unvisited
  <2> QED
    BY <2>1 DEF AheadIsPending
<1>5. ASSUME NEW a \in Attempt, GatewayStep(a) PROVE AheadIsPending'
  <2>1. UNCHANGED <<drain, session>>
    BY <1>5 DEF GatewayStep, GatewayAnswer, GatewayTimeout
  <2>2. PICK o \in Key : /\ shown[o] = "waiting"
                         /\ \A p \in Key : p # o => outbox'[p] = outbox[p]
    BY <1>0, <1>5, GatewayStores DEF PutNew, Put, ClientTypeOK
  <2>3. o \notin Unvisited
    BY <2>2, FreshIsLoose DEF Loose
  <2> QED
    BY <1>0, <2>1, <2>2, <2>3, OneAhead
<1>6. ASSUME NEW t \in Tap, RetryFlushes(t) PROVE AheadIsPending'
  BY <1>1, <1>6, FlushIsQuiet DEF RetryFlushes
<1>7. CASE Reconnect \/ Disconnect \/ Resume
  BY <1>1, <1>7, FlushIsQuiet DEF Reconnect, Disconnect, Resume
<1>8. CASE ProbeFails \/ UNCHANGED vars
  BY <1>1, <1>8, DrainOffIsEmpty DEF ProbeFails, vars, clientVars
<1>9. CASE \E a \in Attempt : NetworkStep(a) \/ EngineThrows(a)
  BY <1>1, <1>9, DrainOffIsEmpty DEF NetworkStep, EngineThrows, clientVars
<1> QED
  BY <1>2, <1>3, <1>4, <1>5, <1>6, <1>7, <1>8, <1>9 DEF RetryStep

\* A drain sends the copies it read before its first await: until a copy's turn
\* comes the stored operation is still pending, whatever the user, a retry or a
\* late answer does meanwhile.
THEOREM BatchStaysCurrent == Spec => []BatchIsCurrent
<1>1. Init => AheadIsPending
  BY DEF Init, ClientInit, DrainOff, NoOps, Absent, Unvisited, AheadIsPending
<1>2. ReceiptInv /\ AheadIsPending /\ [Next]_vars => AheadIsPending'
  BY EngineAhead, UserAhead, OthersAhead DEF Next
<1>3. AheadIsPending => BatchIsCurrent
  BY DEF AheadIsPending, BatchIsCurrent, Sending
<1> QED
  BY <1>1, <1>2, <1>3, ReceiptInvariant, PTL DEF Spec

\* REL-9: a drain sends an operation only after every older operation of the
\* same entity that it read from the queue was confirmed, if "Retry now" is not
\* tapped again while an earlier tap still requeues.
THEOREM DrainsInOrder == Spec /\ []OneTapAtATime => []DrainKeepsOrder
<1>1. ASSUME ClientTypeOK, QueueInv PROVE DrainKeepsOrder
  <2> SUFFICES ASSUME NEW p \in Key, NEW q \in Key, Sending(q), SameEntity(p, q),
                      drain.batch[p].status = "pending",
                      drain.batch[p].at < drain.batch[q].at
               PROVE  outbox[p].status \in {"confirmed", "absent"}
    BY DEF DrainKeepsOrder, Sending
  <2>1. drain.batch[p].at \in Nat /\ drain.batch[q].at \in Nat
    BY <1>1 DEF ClientTypeOK, Drain, Envelope
  <2>2. /\ EntityOf[q] \notin drain.blocked
        /\ \A r \in Unvisited : drain.batch[q].at <= drain.batch[r].at
    BY <1>1 DEF QueueInv, SentIsOldest
  <2>3. p \notin Unvisited /\ ~Loose(p)
    BY <2>1, <2>2 DEF Loose, SameEntity
  <2> QED
    BY <1>1, <2>3 DEF QueueInv, BehindIsConfirmed
<1>2. ReceiptInv => ClientTypeOK
  BY DEF ReceiptInv, SyncInv, SyncTypeOK
<1> QED
  BY <1>1, <1>2, QueueInvariant, ReceiptInvariant, PTL

\* A confirmed operation is never sent again or reported as anything else, by a
\* drain, a retry or a late answer; under the same condition.
THEOREM ConfirmedStaysSo == Spec /\ []OneTapAtATime => ConfirmedIsFinal
<1>1. ReceiptInv /\ CopiesOfCalls /\ OneTapAtATime /\ QueueInv /\ [Next]_vars => ConfirmedStays
  BY NextKeepsQueue
<1>2. ConfirmedStays =>
        [\A o \in Key : outbox[o].status = "confirmed"
                          => outbox'[o].status \in {"confirmed", "absent"}]_vars
  BY DEF ConfirmedStays
<1> QED
  BY <1>1, <1>2, ReceiptInvariant, CallsInvariant, QueueInvariant, PTL DEF Spec, ConfirmedIsFinal
=============================================================================
