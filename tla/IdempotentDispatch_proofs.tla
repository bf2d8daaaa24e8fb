---------------------- MODULE IdempotentDispatch_proofs ----------------------
(***************************************************************************)
(* Proofs about IdempotentDispatch, for any set of keys and of requests.   *)
(* DispatchInv is inductive for every kind of route; OnceInv adds what     *)
(* holds when no route commits and then fails.                             *)
(***************************************************************************)
EXTENDS IdempotentDispatch, TLAPS

\* The bound on the commit counter leaves room for a second commit.
LEMMA BoundIsTwo == MaxCommits \in Nat /\ MaxCommits >= 2
  BY DispatchAssumption DEF DispatchAssumption

-----------------------------------------------------------------------------
\* The initial state satisfies the invariant.
LEMMA InitInv == DispatchInit => DispatchInv
<1> SUFFICES ASSUME DispatchInit PROVE DispatchInv
  OBVIOUS
<1> USE DEF DispatchInit, Idle
<1>1. DispatchTypeOK
  BY BoundIsTwo DEF DispatchTypeOK, ClaimState, AttemptState, Answer, Refusal
<1>2. KeyedUnlessIdle /\ RunnerHoldsClaim /\ SingleRunner
  BY DEF KeyedUnlessIdle, RunnerHoldsClaim, SingleRunner, Running
<1>3. StoredIsCommitted /\ OkIsStored /\ SuccessIsCommitted
  BY DispatchAssumption
     DEF StoredIsCommitted, OkIsStored, SuccessIsCommitted, DispatchAssumption
<1> QED
  BY <1>1, <1>2, <1>3 DEF DispatchInv

-----------------------------------------------------------------------------
(***************************************************************************)
(* How a step changes the requests.                                        *)
(***************************************************************************)
\* The places a request can be in.
Place == {"idle", "sent", "looking", "owner", "written", "refused", "done", "gone"}

\* Reply(a, r) and a refusal move one request and leave its key alone.
LEMMA Replied ==
  ASSUME DispatchTypeOK, NEW a \in Attempt, NEW r \in Answer \cup {"none"}, Reply(a, r)
  PROVE  /\ attempt' \in [Attempt -> AttemptState]
         /\ attempt'[a].pc = "done" /\ attempt'[a].key = attempt[a].key /\ attempt'[a].reply = r
         /\ \A b \in Attempt : b # a => attempt'[b] = attempt[b]
  BY DEF DispatchTypeOK, AttemptState, Reply

LEMMA Refused ==
  ASSUME DispatchTypeOK, NEW a \in Attempt, NEW r \in Refusal,
         attempt' = [attempt EXCEPT ![a].pc = "refused", ![a].reply = r]
  PROVE  /\ attempt' \in [Attempt -> AttemptState]
         /\ attempt'[a].pc = "refused" /\ attempt'[a].key = attempt[a].key /\ attempt'[a].reply = r
         /\ \A b \in Attempt : b # a => attempt'[b] = attempt[b]
  BY DEF DispatchTypeOK, AttemptState, Answer

\* Goto(a, p) leaves its answer alone as well.
LEMMA Gone ==
  ASSUME DispatchTypeOK, NEW a \in Attempt, NEW p \in Place, Goto(a, p)
  PROVE  /\ attempt' \in [Attempt -> AttemptState]
         /\ attempt'[a].pc = p /\ attempt'[a].key = attempt[a].key
         /\ attempt'[a].reply = attempt[a].reply
         /\ \A b \in Attempt : b # a => attempt'[b] = attempt[b]
  BY DEF DispatchTypeOK, AttemptState, Place, Goto

\* The parts of the invariant an unmoved request needs, restated.
LEMMA KeysAreKeys ==
  ASSUME DispatchInv, NEW a \in Attempt, attempt[a].pc # "idle"
  PROVE  attempt[a].key \in Key
  BY DEF DispatchInv, KeyedUnlessIdle

-----------------------------------------------------------------------------
(***************************************************************************)
(* Every step keeps the invariant, one lemma for each kind of step.        *)
(***************************************************************************)
\* A step that leaves the rows and the writes alone and moves one request to a
\* place outside the wrapper's claimed part, without a new 2xx.
LEMMA MoveKeepsInv ==
  ASSUME DispatchInv, NEW a \in Attempt, NEW s \in AttemptState,
         attempt' = [attempt EXCEPT ![a] = s],
         UNCHANGED <<claim, commits>>,
         s.pc \notin Running, s.reply # "ok",
         s.pc # "idle" => s.key \in Key
  PROVE  DispatchInv'
<1> USE DEF DispatchInv, DispatchTypeOK
<1>1. attempt'[a] = s /\ \A b \in Attempt \ {a} : attempt'[b] = attempt[b]
  OBVIOUS
<1>2. DispatchTypeOK'
  OBVIOUS
<1>3. KeyedUnlessIdle'
  BY <1>1 DEF KeyedUnlessIdle
<1>4. RunnerHoldsClaim'
  BY <1>1 DEF RunnerHoldsClaim
<1>5. SingleRunner'
  BY <1>1 DEF SingleRunner
<1>6. StoredIsCommitted'
  BY <1>1 DEF StoredIsCommitted, Running
<1>7. OkIsStored'
  BY <1>1 DEF OkIsStored
<1>8. SuccessIsCommitted'
  BY <1>1 DEF SuccessIsCommitted
<1> QED
  BY <1>2, <1>3, <1>4, <1>5, <1>6, <1>7, <1>8

\* What a step of the wrapper for request a must respect: it changes only the
\* row and the counter of a's key; only a row that is free or that a holds
\* changes; a request past the claim holds it; and a response is stored or sent
\* only after a commit.
LEMMA StepKeepsInv ==
  ASSUME DispatchInv, NEW a \in Attempt, NEW k \in Key, k = attempt[a].key,
         NEW p \in Place, NEW r \in Answer \cup {"none"}, p # "idle",
         attempt' \in [Attempt -> AttemptState],
         attempt'[a].pc = p, attempt'[a].key = k, attempt'[a].reply = r,
         \A b \in Attempt : b # a => attempt'[b] = attempt[b],
         claim' \in [Key -> ClaimState],
         \A l \in Key : l # k => claim'[l] = claim[l],
         commits' \in [Key -> 0..MaxCommits],
         \A l \in Key : commits'[l] >= commits[l],
         claim'[k] # claim[k] => attempt[a].pc \in Running \/ claim[k] = "free",
         p \in Running => k \in Scoped /\ claim'[k] = "held",
         p \in Running => attempt[a].pc \in Running \/ claim[k] = "free",
         claim'[k] = "stored" => commits'[k] >= 1,
         p = "written" => commits'[k] >= 1,
         r = "ok" => /\ p = "done"
                     /\ commits'[k] >= 1
                     /\ (k \in Scoped => claim'[k] = "stored")
  PROVE  DispatchInv'
<1> USE DEF DispatchInv
<1>0. \A l \in Key : commits[l] \in Nat /\ commits'[l] \in Nat
  BY BoundIsTwo DEF DispatchTypeOK
<1>1. DispatchTypeOK' /\ KeyedUnlessIdle'
  BY DEF DispatchTypeOK, KeyedUnlessIdle
<1>2. ASSUME NEW b \in Attempt, b # a, attempt[b].pc \in Running
      PROVE  /\ attempt[b].key \in Scoped
             /\ claim'[attempt[b].key] = "held"
             /\ p \in Running => attempt[b].key # k
  \* b holds its row, so it is not free, and a holds no row of the same key
  <2>1. attempt[b].key \in Scoped \cap Key /\ claim[attempt[b].key] = "held"
    BY <1>2, DispatchAssumption DEF RunnerHoldsClaim, DispatchAssumption
  <2>2. attempt[a].pc \in Running => attempt[b].key # k
    BY <1>2 DEF SingleRunner
  <2>3. claim[k] = "free" => attempt[b].key # k
    BY <2>1
  <2>4. p \in Running => attempt[b].key # k
    BY <2>2, <2>3
  <2>5. claim'[attempt[b].key] = "held"
    BY <2>1, <2>2, <2>3
  <2> QED
    BY <2>1, <2>4, <2>5
<1>3. RunnerHoldsClaim'
  <2> SUFFICES ASSUME NEW b \in Attempt, attempt'[b].pc \in Running
               PROVE  attempt'[b].key \in Scoped /\ claim'[attempt'[b].key] = "held"
    BY DEF RunnerHoldsClaim
  <2>1. CASE b = a
    BY <2>1
  <2>2. CASE b # a
    BY <2>2, <1>2
  <2> QED
    BY <2>1, <2>2
<1>4. SingleRunner'
  BY <1>2 DEF SingleRunner
<1>5. StoredIsCommitted'
  <2>1. \A l \in Key : claim'[l] = "stored" => commits'[l] >= 1
    BY <1>0 DEF StoredIsCommitted
  <2>2. \A b \in Attempt : attempt'[b].pc = "written" => commits'[attempt'[b].key] >= 1
    <3> SUFFICES ASSUME NEW b \in Attempt, b # a, attempt[b].pc = "written"
                 PROVE  commits'[attempt[b].key] >= 1
      OBVIOUS
    <3> QED
      BY <1>0, KeysAreKeys DEF StoredIsCommitted
  <2> QED
    BY <2>1, <2>2 DEF StoredIsCommitted
<1>6. OkIsStored'
  <2> SUFFICES ASSUME NEW b \in Attempt, b # a, attempt[b].reply = "ok"
               PROVE  /\ attempt[b].pc = "done"
                      /\ attempt[b].key \in Scoped => claim'[attempt[b].key] = "stored"
    BY DEF OkIsStored
  <2>1. attempt[b].pc = "done" /\ attempt[b].key \in Key
    BY KeysAreKeys DEF OkIsStored
  <2>2. ASSUME attempt[b].key \in Scoped PROVE claim'[attempt[b].key] = "stored"
    \* a stored row is neither free nor held by a
    BY <2>1, <2>2 DEF OkIsStored, RunnerHoldsClaim
  <2> QED
    BY <2>1, <2>2
<1>7. SuccessIsCommitted'
  <2> SUFFICES ASSUME NEW b \in Attempt, b # a, attempt[b].reply = "ok"
               PROVE  commits'[attempt[b].key] >= 1
    BY DEF SuccessIsCommitted
  <2> QED
    BY <1>0, KeysAreKeys DEF SuccessIsCommitted, OkIsStored
<1> QED
  BY <1>1, <1>3, <1>4, <1>5, <1>6, <1>7

\* The wrapper's steps for request a keep the invariant.
LEMMA ServerKeepsInv ==
  ASSUME DispatchInv, NEW a \in Attempt, ServerStep(a)
  PROVE  DispatchInv'
<1> DEFINE k == attempt[a].key
<1> USE DEF DispatchInv
<1>0. /\ attempt[a] \in AttemptState
      /\ claim \in [Key -> ClaimState]
      /\ commits \in [Key -> 0..MaxCommits]
      /\ \A l \in Key : commits[l] \in Nat
      /\ attempt[a].reply \in Answer \cup {"none"}
      /\ Scoped \subseteq Key
  BY BoundIsTwo, DispatchAssumption DEF DispatchTypeOK, AttemptState, DispatchAssumption
<1>key. attempt[a].pc # "idle" => k \in Key
  BY KeysAreKeys
<1>ok. attempt[a].reply = "ok" => attempt[a].pc = "done"
  BY DEF OkIsStored
<1>held. attempt[a].pc \in Running => k \in Scoped /\ claim[k] = "held"
  BY DEF RunnerHoldsClaim
<1>written. attempt[a].pc = "written" => commits[k] >= 1
  BY DEF StoredIsCommitted
<1>stored. k \in Key /\ claim[k] = "stored" => commits[k] >= 1
  BY DEF StoredIsCommitted
<1> HIDE DEF k, DispatchInv
<1>1. CASE WinClaim(a)
  <2>1. /\ attempt[a].pc = "sent" /\ k \in Scoped /\ claim[k] = "free" /\ k \in Key
        /\ claim' = [claim EXCEPT ![k] = "held"] /\ Goto(a, "owner") /\ commits' = commits
    BY <1>1, <1>0 DEF WinClaim, k
  <2>2. claim' \in [Key -> ClaimState] /\ claim'[k] = "held"
    BY <2>1, <1>0 DEF ClaimState
  <2> QED
    BY <2>1, <2>2, <1>0, <1>ok, Gone, StepKeepsInv DEF Place, k, DispatchInv, Running
<1>2. CASE LoseClaim(a)
  <2>1. attempt[a].pc = "sent" /\ Goto(a, "looking") /\ claim' = claim /\ commits' = commits
    BY <1>2 DEF LoseClaim
  <2> QED
    BY SMTT(30), <2>1, <1>0, <1>key, <1>ok, <1>stored, Gone, StepKeepsInv DEF Place, k, DispatchInv, Running
<1>3. CASE ClaimFails(a)
  <2>1. /\ attempt[a].pc = "sent" /\ k \in Key /\ Reply(a, "transient") /\ commits' = commits
        /\ \/ claim' = claim
           \/ claim[k] = "free" /\ claim' = [claim EXCEPT ![k] = "held"]
    BY <1>3, <1>0 DEF ClaimFails, k
  <2>2. /\ claim' \in [Key -> ClaimState]
        /\ (claim'[k] # claim[k] => claim[k] = "free" /\ claim'[k] = "held")
        /\ \A l \in Key : l # k => claim'[l] = claim[l]
    BY <2>1, <1>0 DEF ClaimState
  <2> QED
    BY <2>1, <2>2, <1>0, <1>stored, Replied, StepKeepsInv, SMTT(30)
       DEF Place, k, DispatchInv, Running, Answer, Refusal
<1>4. CASE Replay(a)
  <2>1. /\ attempt[a].pc = "looking" /\ k \in Key /\ claim' = claim /\ commits' = commits
        /\ Reply(a, IF claim[k] = "stored" THEN "ok" ELSE "duplicate")
    BY <1>4, <1>key DEF Replay, k
  <2> QED
    BY <2>1, <1>0, <1>stored, Replied, StepKeepsInv
       DEF Place, k, DispatchInv, Running, Answer, Refusal
<1>5. ASSUME Commit(a) \/ CommitThenFail(a) PROVE DispatchInv'
  <2>1. /\ attempt[a].pc = "owner" /\ k \in Key /\ claim' = claim
        /\ commits' = [commits EXCEPT ![k] = @ + 1] /\ commits[k] < MaxCommits
    BY <1>5, <1>key DEF Commit, CommitThenFail, CommitOf, k
  <2>2. /\ commits' \in [Key -> 0..MaxCommits] /\ commits'[k] >= 1
        /\ \A l \in Key : commits'[l] >= commits[l]
    BY <2>1, <1>0, BoundIsTwo
  <2>3. CASE Commit(a)
    <3>1. Goto(a, "written")
      BY <2>3 DEF Commit
    <3> QED
      BY SMTT(30), <3>1, <2>1, <2>2, <1>0, <1>ok, <1>held, Gone, StepKeepsInv
         DEF Place, k, DispatchInv, Running
  <2>4. CASE CommitThenFail(a)
    <3>1. attempt' = [attempt EXCEPT ![a].pc = "refused", ![a].reply = "transient"]
      BY <2>4 DEF CommitThenFail
    <3> QED
      BY <3>1, <2>1, <2>2, <1>0, <1>held, Refused, StepKeepsInv
         DEF Place, k, DispatchInv, Running, Answer, Refusal
  <2> QED
    BY <1>5, <2>3, <2>4
<1>6. ASSUME NEW r \in Refusal, Refuse(a, r) PROVE DispatchInv'
  <2>1. /\ attempt[a].pc = "owner" /\ k \in Key /\ claim' = claim /\ commits' = commits
        /\ attempt' = [attempt EXCEPT ![a].pc = "refused", ![a].reply = r]
    BY <1>6, <1>key DEF Refuse
  <2>2. /\ attempt' \in [Attempt -> AttemptState]
        /\ attempt'[a].pc = "refused" /\ attempt'[a].key = k /\ attempt'[a].reply = r
        /\ \A b \in Attempt : b # a => attempt'[b] = attempt[b]
    BY <2>1, Refused DEF k, DispatchInv
  <2>3. "refused" \in Place /\ r \in Answer \cup {"none"} /\ r # "ok"
    BY DEF Place, Answer, Refusal
  <2>4. k \in Scoped /\ claim[k] = "held" /\ attempt[a].pc \in Running
    BY <2>1, <1>held DEF Running
  <2> QED
    BY <2>1, <2>2, <2>3, <2>4, <1>0, StepKeepsInv DEF k
<1>7. ASSUME NEW r \in Refusal, BypassRefuse(a, r) PROVE DispatchInv'
  <2>1. /\ attempt[a].pc = "sent" /\ k \in Key /\ claim' = claim /\ commits' = commits
        /\ Reply(a, r)
    BY <1>7, <1>key DEF BypassRefuse
  <2> QED
    BY <2>1, <1>0, <1>stored, Replied, StepKeepsInv
       DEF Place, k, DispatchInv, Running, Answer, Refusal
<1>8. CASE BypassCommit(a)
  <2>1. /\ attempt[a].pc = "sent" /\ k \in Key /\ k \notin Scoped /\ claim' = claim
        /\ commits' = [commits EXCEPT ![k] = @ + 1] /\ commits[k] < MaxCommits
        /\ Reply(a, "ok")
    BY <1>8, <1>key DEF BypassCommit, CommitOf, k
  <2>2. /\ commits' \in [Key -> 0..MaxCommits] /\ commits'[k] >= 1
        /\ \A l \in Key : commits'[l] >= commits[l]
    BY SMTT(30), <2>1, <1>0, BoundIsTwo
  <2> QED
    BY <2>1, <2>2, <1>0, Replied, StepKeepsInv
       DEF Place, k, DispatchInv, Running, Answer
<1>9. ASSUME Store(a) \/ StoreFails(a) PROVE DispatchInv'
  <2>1. /\ attempt[a].pc = "written" /\ k \in Key /\ commits' = commits /\ commits[k] >= 1
        /\ \/ Reply(a, "ok") /\ claim' = [claim EXCEPT ![k] = "stored"]
           \/ /\ Reply(a, "transient")
              /\ (claim' = claim \/ claim' = [claim EXCEPT ![k] = "stored"])
    BY <1>9, <1>key, <1>written DEF Store, StoreFails, k
  <2>2. /\ claim' \in [Key -> ClaimState]
        /\ (Reply(a, "transient") \/ (Reply(a, "ok") /\ claim'[k] = "stored"))
        /\ \A l \in Key : l # k => claim'[l] = claim[l]
    BY <2>1, <1>0 DEF ClaimState
  <2> QED
    BY <2>1, <2>2, <1>0, Replied, StepKeepsInv, SMTT(30)
       DEF Place, k, DispatchInv, Running, Answer, Refusal
<1>10. ASSUME Release(a) \/ ReleaseFails(a) PROVE DispatchInv'
  <2>1. /\ attempt[a].pc = "refused" /\ k \in Key /\ Goto(a, "done") /\ commits' = commits
        /\ \/ claim' = claim
           \/ claim' = [claim EXCEPT ![k] = IF @ = "held" THEN "free" ELSE @]
    BY <1>10, <1>key DEF Release, ReleaseFails, k
  <2>2. /\ claim' \in [Key -> ClaimState]
        /\ claim'[k] # "stored"
        /\ \A l \in Key : l # k => claim'[l] = claim[l]
    BY <2>1, <1>0, <1>held DEF ClaimState, Running
  <2> QED
    BY <2>1, <2>2, <1>0, <1>ok, Gone, StepKeepsInv DEF Place, k, DispatchInv, Running
<1> QED
  BY <1>1, <1>2, <1>3, <1>4, <1>5, <1>6, <1>7, <1>8, <1>9, <1>10 DEF ServerStep

\* The steps of the callers and of the network keep the invariant.
LEMMA CallerKeepsInv ==
  ASSUME DispatchInv, NEW a \in Attempt,
         (\E k \in Key : Send(a, k)) \/ Die(a) \/ Forget(a)
  PROVE  DispatchInv'
<1>1. ASSUME NEW k \in Key, Send(a, k) PROVE DispatchInv'
  <2> DEFINE s == [pc |-> "sent", key |-> k, reply |-> "none"]
  <2>1. s \in AttemptState /\ s.pc \notin Running /\ s.reply # "ok" /\ s.key \in Key
    BY DEF AttemptState, Running
  <2> QED
    BY <1>1, <2>1, MoveKeepsInv DEF Send
<1>2. CASE Die(a)
  <2> DEFINE s == [attempt[a] EXCEPT !.pc = "gone", !.reply = "none"]
  <2>1. attempt[a] \in AttemptState /\ attempt[a].key \in Key
    BY <1>2, KeysAreKeys DEF DispatchInv, DispatchTypeOK, Die, Running
  <2>2. s \in AttemptState /\ s.pc \notin Running /\ s.reply # "ok" /\ s.key \in Key
    BY <2>1 DEF AttemptState, Running
  <2>3. attempt' = [attempt EXCEPT ![a] = s] /\ UNCHANGED <<claim, commits>>
    BY <1>2 DEF Die
  <2> HIDE DEF s
  <2> QED
    BY <2>2, <2>3, MoveKeepsInv
<1>3. CASE Forget(a)
  <2>1. Idle \in AttemptState /\ Idle.pc \notin Running /\ Idle.reply # "ok" /\ Idle.pc = "idle"
    BY DEF AttemptState, Running, Idle
  <2> QED
    BY <1>3, <2>1, MoveKeepsInv DEF Forget
<1> QED
  BY <1>1, <1>2, <1>3

\* Nothing else changes the invariant's variables.
LEMMA StutterKeepsInv ==
  ASSUME DispatchInv, UNCHANGED dispatchVars
  PROVE  DispatchInv'
  BY DEF dispatchVars, DispatchInv, DispatchTypeOK, KeyedUnlessIdle, RunnerHoldsClaim,
         SingleRunner, StoredIsCommitted, OkIsStored, SuccessIsCommitted

LEMMA NextKeepsInv ==
  ASSUME DispatchInv, [DispatchNext]_dispatchVars
  PROVE  DispatchInv'
  BY ServerKeepsInv, CallerKeepsInv, StutterKeepsInv DEF DispatchNext

-----------------------------------------------------------------------------
\* The invariant of the wrapper, for every kind of route: what a request past
\* the claim, a stored row and a 2xx imply.
THEOREM DispatchInvariant == DispatchSpec => []DispatchInv
<1>1. DispatchInit => DispatchInv
  BY InitInv
<1>2. DispatchInv /\ [DispatchNext]_dispatchVars => DispatchInv'
  BY NextKeepsInv
<1> QED
  BY <1>1, <1>2, PTL DEF DispatchSpec

\* Rows, requests and counters keep their types.
THEOREM DispatchTypeCorrect == DispatchSpec => []DispatchTypeOK
<1>1. DispatchInv => DispatchTypeOK
  BY DEF DispatchInv
<1> QED
  BY <1>1, DispatchInvariant, PTL

\* Two requests with one key are never past the claim together.
THEOREM OneRunner == DispatchSpec => []SingleRunner
<1>1. DispatchInv => SingleRunner
  BY DEF DispatchInv
<1> QED
  BY <1>1, DispatchInvariant, PTL

\* A 2xx, replayed or not, is only ever sent for a committed write.
THEOREM SuccessMeansCommitted == DispatchSpec => []SuccessIsCommitted
<1>1. DispatchInv => SuccessIsCommitted
  BY DEF DispatchInv
<1> QED
  BY <1>1, DispatchInvariant, PTL

\* Once a 2xx for a school user's key is out, the write never runs again,
\* even if its route commits and then fails.
THEOREM SettledStaysSettled == DispatchSpec => SettledIsFinal
<1> DEFINE Acked(k) == \E a \in Attempt : attempt[a].key = k /\ attempt[a].reply = "ok"
           Final == \A k \in Scoped : Acked(k) => commits'[k] = commits[k]
<1>1. DispatchInv /\ [DispatchNext]_dispatchVars => [Final]_dispatchVars
  <2> SUFFICES ASSUME DispatchInv, [DispatchNext]_dispatchVars, NEW k \in Scoped, Acked(k)
               PROVE  commits'[k] = commits[k]
    BY DEF dispatchVars
  <2>1. claim[k] = "stored" /\ k \in Key
    BY DispatchAssumption DEF DispatchInv, OkIsStored, DispatchAssumption
  <2>2. ASSUME NEW b \in Attempt, CommitOf(attempt[b].key),
               attempt[b].pc \in Running \/ attempt[b].key \notin Scoped
        PROVE  commits'[k] = commits[k]
    <3>1. attempt[b].key # k
      BY <2>1, <2>2 DEF DispatchInv, RunnerHoldsClaim
    <3> QED
      BY <3>1, <2>1, <2>2 DEF CommitOf, DispatchInv, DispatchTypeOK
  <2>3. ASSUME NEW b \in Attempt, Commit(b) \/ CommitThenFail(b) \/ BypassCommit(b)
        PROVE  commits'[k] = commits[k]
    BY <2>2, <2>3 DEF Commit, CommitThenFail, BypassCommit, Running
  <2>4. CASE commits' = commits
    BY <2>4
  <2> QED
    BY <2>3, <2>4 DEF DispatchNext, ServerStep, dispatchVars, Send, WinClaim, LoseClaim, ClaimFails,
       Replay, Refuse, BypassRefuse, Store, StoreFails, Release, ReleaseFails, Die, Forget
<1> QED
  BY <1>1, DispatchInvariant, PTL DEF DispatchSpec, SettledIsFinal

-----------------------------------------------------------------------------
(***************************************************************************)
(* At most once, for routes that report their commits.                     *)
(***************************************************************************)
LEMMA InitOnce == DispatchInit => OnceInv
  BY InitInv, DispatchAssumption
     DEF DispatchInit, OnceInv, FreeIsUncommitted, AtMostOnce, Idle, DispatchAssumption

\* The first commit of a key is the only one: its route was alone past the
\* claim and had not written.
LEMMA NextKeepsOnce ==
  ASSUME Faithful, OnceInv, [DispatchNext]_dispatchVars
  PROVE  OnceInv'
<1> USE DEF OnceInv
<1>0. /\ DispatchInv'
      /\ Scoped \subseteq Key
      /\ \A k \in Key : commits[k] \in Nat
      /\ attempt \in [Attempt -> AttemptState] /\ claim \in [Key -> ClaimState]
  BY NextKeepsInv, DispatchAssumption, BoundIsTwo
     DEF DispatchAssumption, DispatchInv, DispatchTypeOK
<1>1. ASSUME NEW b \in Attempt, attempt[b].pc \in Running
      PROVE  attempt[b].key \in Scoped /\ claim[attempt[b].key] = "held"
  BY <1>1 DEF DispatchInv, RunnerHoldsClaim
<1>2. ASSUME NEW a \in Attempt, WinClaim(a) PROVE FreeIsUncommitted' /\ AtMostOnce'
  BY <1>2, <1>0 DEF WinClaim, Goto, FreeIsUncommitted, AtMostOnce, AttemptState
<1>3. ASSUME NEW a \in Attempt, LoseClaim(a) \/ ClaimFails(a) \/ Replay(a)
      PROVE  FreeIsUncommitted' /\ AtMostOnce'
  BY <1>3, <1>0 DEF LoseClaim, ClaimFails, Replay, Goto, Reply, FreeIsUncommitted, AtMostOnce,
     AttemptState
<1>4. ASSUME NEW a \in Attempt, Commit(a) PROVE FreeIsUncommitted' /\ AtMostOnce'
  <2> DEFINE k == attempt[a].key
  <2>1. /\ attempt[a].pc = "owner" /\ k \in Scoped /\ claim[k] = "held" /\ commits[k] = 0
        /\ claim' = claim /\ commits' = [commits EXCEPT ![k] = @ + 1] /\ Goto(a, "written")
    BY <1>4, <1>1 DEF Commit, CommitOf, Running, FreeIsUncommitted
  <2>2. attempt'[a].pc = "written" /\ \A b \in Attempt : b # a => attempt'[b] = attempt[b]
    BY <2>1, <1>0 DEF Goto, AttemptState
  <2>3. commits'[k] = 1 /\ \A l \in Key : l # k => commits'[l] = commits[l]
    BY <2>1, <1>0 DEF DispatchInv, DispatchTypeOK
  <2>4. ASSUME NEW b \in Attempt, b # a, attempt[b].pc \in {"owner", "refused"}
        PROVE  attempt[b].key \in Key /\ attempt[b].key # k
    BY <2>1, <2>4, <1>0, <1>1 DEF DispatchInv, SingleRunner, Running
  <2> HIDE DEF k
  <2>5. AtMostOnce'
    BY <2>3, <1>0 DEF AtMostOnce
  <2>6. FreeIsUncommitted'
    <3>1. ASSUME NEW l \in Scoped, claim'[l] = "free" PROVE commits'[l] = 0
      BY <3>1, <2>1, <2>3, <1>0 DEF FreeIsUncommitted
    <3>2. ASSUME NEW b \in Attempt, attempt'[b].pc \in {"owner", "refused"}
          PROVE  commits'[attempt'[b].key] = 0
      BY <3>2, <2>2, <2>3, <2>4 DEF FreeIsUncommitted
    <3> QED
      BY <3>1, <3>2 DEF FreeIsUncommitted
  <2> QED
    BY <2>5, <2>6
<1>5. ASSUME NEW a \in Attempt, NEW r \in Refusal, Refuse(a, r) \/ BypassRefuse(a, r)
      PROVE  FreeIsUncommitted' /\ AtMostOnce'
  BY <1>5, <1>0 DEF Refuse, BypassRefuse, Reply, FreeIsUncommitted, AtMostOnce, AttemptState
<1>6. ASSUME NEW a \in Attempt, BypassCommit(a) PROVE FreeIsUncommitted' /\ AtMostOnce'
  <2> DEFINE k == attempt[a].key
  <2>1. /\ k \notin Scoped /\ claim' = claim /\ commits' = [commits EXCEPT ![k] = @ + 1]
        /\ Reply(a, "ok")
    BY <1>6 DEF BypassCommit, CommitOf
  <2>2. attempt'[a].pc = "done" /\ \A b \in Attempt : b # a => attempt'[b] = attempt[b]
    BY <2>1, <1>0 DEF Reply, AttemptState
  <2>3. \A l \in Scoped : commits'[l] = commits[l]
    BY <2>1, <1>0 DEF DispatchInv, DispatchTypeOK
  <2> HIDE DEF k
  <2>4. AtMostOnce'
    BY <2>3 DEF AtMostOnce
  <2>5. FreeIsUncommitted'
    BY <2>1, <2>2, <2>3, <1>1 DEF FreeIsUncommitted, Running
  <2> QED
    BY <2>4, <2>5
<1>7. ASSUME NEW a \in Attempt, Store(a) \/ StoreFails(a)
      PROVE  FreeIsUncommitted' /\ AtMostOnce'
  <2>1. attempt[a].key \in Key /\ claim[attempt[a].key] = "held"
    BY <1>7, <1>0, <1>1 DEF Store, StoreFails, Running
  <2> QED
    BY <1>7, <2>1, <1>0 DEF Store, StoreFails, Reply, FreeIsUncommitted, AtMostOnce, AttemptState
<1>8. ASSUME NEW a \in Attempt, Release(a) \/ ReleaseFails(a)
      PROVE  FreeIsUncommitted' /\ AtMostOnce'
  BY <1>8, <1>0 DEF Release, ReleaseFails, Goto, FreeIsUncommitted, AtMostOnce, AttemptState
<1>9. ASSUME NEW a \in Attempt, NEW k \in Key, Send(a, k)
      PROVE  FreeIsUncommitted' /\ AtMostOnce'
  BY <1>9, <1>0 DEF Send, FreeIsUncommitted, AtMostOnce, AttemptState
<1>10. ASSUME NEW a \in Attempt, Die(a) \/ Forget(a) PROVE FreeIsUncommitted' /\ AtMostOnce'
  BY <1>10, <1>0 DEF Die, Forget, Idle, FreeIsUncommitted, AtMostOnce, AttemptState
<1>11. ASSUME UNCHANGED dispatchVars PROVE FreeIsUncommitted' /\ AtMostOnce'
  BY <1>11 DEF dispatchVars, FreeIsUncommitted, AtMostOnce
<1>12. \A a \in Attempt : ~CommitThenFail(a)
  BY DEF CommitThenFail, Faithful
<1>13. ASSUME DispatchNext PROVE FreeIsUncommitted' /\ AtMostOnce'
  BY <1>2, <1>3, <1>4, <1>5, <1>6, <1>7, <1>8, <1>9, <1>10, <1>12, <1>13
     DEF DispatchNext, ServerStep
<1> QED
  BY <1>0, <1>11, <1>13

\* The inductive invariant behind the promise, for every number of keys and
\* of overlapping requests.
THEOREM OnceInvariant == Faithful /\ DispatchSpec => []OnceInv
<1> SUFFICES ASSUME Faithful PROVE DispatchSpec => []OnceInv
  OBVIOUS
<1>1. DispatchInit => OnceInv
  BY InitOnce
<1>2. OnceInv /\ [DispatchNext]_dispatchVars => OnceInv'
  BY NextKeepsOnce
<1> QED
  BY <1>1, <1>2, PTL DEF DispatchSpec

\* A keyed write of a school user commits at most once.
THEOREM ExactlyOnce == Faithful /\ DispatchSpec => []AtMostOnce
<1>1. OnceInv => AtMostOnce
  BY DEF OnceInv
<1> QED
  BY <1>1, OnceInvariant, PTL

-----------------------------------------------------------------------------
(***************************************************************************)
(* Refinement: what the promise calls effects and acknowledged, and what   *)
(* each step of the wrapper does to them.                                  *)
(***************************************************************************)
Effects == [k \in Scoped |-> commits[k]]

Acknowledged ==
    {k \in Scoped : \E a \in Attempt : attempt[a].key = k /\ attempt[a].reply = "ok"}

\* A step that writes nothing and changes one request, which had no success
\* answer and gets none, is no step of the promise.
LEMMA Unnoticed ==
  ASSUME NEW a \in Attempt, commits' = commits,
         \A b \in Attempt : b # a => attempt'[b] = attempt[b],
         attempt[a].reply # "ok", attempt'[a].reply # "ok"
  PROVE  UNCHANGED Promise!vars
<1>1. Acknowledged' = Acknowledged
  BY DEF Acknowledged
<1>2. Effects' = Effects
  BY DEF Effects
<1> QED
  BY <1>1, <1>2 DEF Effects, Acknowledged, Promise!vars

\* The first commit of a school user's key is the effect of its write.
LEMMA CommitTakesEffect ==
  ASSUME OnceInv, NEW a \in Attempt, NEW k \in Scoped, commits[k] = 0,
         commits' = [commits EXCEPT ![k] = @ + 1],
         \A b \in Attempt : b # a => attempt'[b] = attempt[b],
         attempt[a].reply # "ok", attempt'[a].reply # "ok"
  PROVE  Promise!TakeEffect(k)
<1>1. Acknowledged' = Acknowledged
  BY DEF Acknowledged
<1>2. Effects[k] = 0 /\ Effects' = [Effects EXCEPT ![k] = 1]
  <2>1. k \in Key /\ commits \in [Key -> 0..MaxCommits]
    BY DispatchAssumption DEF OnceInv, DispatchInv, DispatchTypeOK, DispatchAssumption
  <2>2. \A l \in Scoped : commits'[l] = IF l = k THEN 1 ELSE commits[l]
    BY <2>1, DispatchAssumption DEF DispatchAssumption
  <2>3. Effects' = [l \in Scoped |-> IF l = k THEN 1 ELSE commits[l]]
    BY <2>2 DEF Effects
  <2> QED
    BY <2>3 DEF Effects
<1> QED
  BY <1>1, <1>2 DEF Effects, Acknowledged, Promise!TakeEffect

\* A 2xx for a committed key of a school user acknowledges its write, and one
\* for another key is outside the promise.
LEMMA OkAcknowledges ==
  ASSUME OnceInv, NEW a \in Attempt, commits' = commits,
         attempt[a].key \in Key, commits[attempt[a].key] >= 1,
         \A b \in Attempt : b # a => attempt'[b] = attempt[b],
         attempt[a].reply # "ok",
         attempt'[a].reply = "ok", attempt'[a].key = attempt[a].key
  PROVE  [Promise!Next]_Promise!vars
<1> PICK k \in Key : k = attempt[a].key
  OBVIOUS
<1>1. Effects' = Effects
  BY DEF Effects
<1>2. CASE k \in Scoped
  <2>1. Acknowledged' = Acknowledged \cup {k}
    BY <1>2 DEF Acknowledged
  <2>2. Effects[k] = 1
    BY <1>2, DispatchAssumption
       DEF Effects, OnceInv, AtMostOnce, DispatchInv, DispatchTypeOK, DispatchAssumption
  <2>3. Promise!Acknowledge(k)
    BY <1>1, <2>1, <2>2 DEF Effects, Acknowledged, Promise!Acknowledge
  <2> QED
    BY <1>2, <2>3 DEF Promise!Next
<1>3. CASE k \notin Scoped
  <2>1. Acknowledged' = Acknowledged
    BY <1>3 DEF Acknowledged
  <2> QED
    BY <1>1, <2>1 DEF Effects, Acknowledged, Promise!vars
<1> QED
  BY <1>2, <1>3

\* Dropping an answer takes an acknowledgement back, if it was the last one.
LEMMA ForgetForgets ==
  ASSUME OnceInv, NEW a \in Attempt, Forget(a)
  PROVE  [Promise!Next]_Promise!vars
<1> PICK k \in Key : k = attempt[a].key
  BY DEF Forget, OnceInv, DispatchInv, KeyedUnlessIdle
<1>1. /\ commits' = commits /\ attempt'[a] = Idle
      /\ \A b \in Attempt : b # a => attempt'[b] = attempt[b]
  BY DEF Forget, OnceInv, DispatchInv, DispatchTypeOK
<1>2. Effects' = Effects
  BY <1>1 DEF Effects
<1>3. CASE k \in Scoped /\ k \notin Acknowledged'
  <2>1. Acknowledged' = Acknowledged \ {k}
    BY <1>1, <1>3 DEF Acknowledged, Idle
  <2>2. Promise!ForgetAnswer(k)
    BY <1>2, <2>1 DEF Effects, Acknowledged, Promise!ForgetAnswer
  <2> QED
    BY <1>3, <2>2 DEF Promise!Next
<1>4. CASE k \notin Scoped \/ k \in Acknowledged'
  <2>1. Acknowledged' = Acknowledged
    BY <1>1, <1>4 DEF Acknowledged, Idle
  <2> QED
    BY <1>2, <2>1 DEF Effects, Acknowledged, Promise!vars
<1> QED
  BY <1>3, <1>4

\* Every step of the wrapper is a step of the promise, or no step.
LEMMA StepKeepsPromise ==
  ASSUME Faithful, OnceInv, [DispatchNext]_dispatchVars
  PROVE  [Promise!Next]_Promise!vars
<1>0. /\ attempt \in [Attempt -> AttemptState]
      /\ \A b \in Attempt : attempt[b].pc # "idle" => attempt[b].key \in Key
      /\ \A b \in Attempt : attempt[b].reply = "ok" => attempt[b].pc = "done"
      /\ \A b \in Attempt : attempt[b].pc = "written" => commits[attempt[b].key] >= 1
      /\ \A k \in Key : claim[k] = "stored" => commits[k] >= 1
      /\ \A k \in Key : commits[k] \in Nat
  BY BoundIsTwo DEF OnceInv, DispatchInv, DispatchTypeOK, KeyedUnlessIdle, OkIsStored, StoredIsCommitted
<1>1. ASSUME NEW a \in Attempt,
             \/ \E k \in Key : Send(a, k)
             \/ WinClaim(a) \/ LoseClaim(a) \/ ClaimFails(a)
             \/ \E r \in Refusal : Refuse(a, r) \/ BypassRefuse(a, r)
             \/ StoreFails(a) \/ Release(a) \/ ReleaseFails(a) \/ Die(a)
      PROVE  UNCHANGED Promise!vars
  <2>1. /\ commits' = commits
        /\ \A b \in Attempt : b # a => attempt'[b] = attempt[b]
        /\ attempt[a].reply # "ok" /\ attempt'[a].reply # "ok"
    BY <1>1, <1>0
       DEF Send, WinClaim, LoseClaim, ClaimFails, Refuse, BypassRefuse, StoreFails, Release,
           ReleaseFails, Die, Goto, Reply, Refusal, Running, AttemptState
  <2> QED
    BY <2>1, Unnoticed
<1>2. ASSUME NEW a \in Attempt, Replay(a) PROVE [Promise!Next]_Promise!vars
  <2>1. /\ commits' = commits
        /\ attempt[a].key \in Key
        /\ \A b \in Attempt : b # a => attempt'[b] = attempt[b]
        /\ attempt[a].reply # "ok" /\ attempt'[a].key = attempt[a].key
    BY <1>2, <1>0 DEF Replay, Reply, AttemptState
  <2>2. attempt'[a].reply = "ok" => commits[attempt[a].key] >= 1
    BY <1>2, <1>0, <2>1 DEF Replay, Reply, AttemptState
  <2> QED
    BY <2>1, <2>2, Unnoticed, OkAcknowledges
<1>3. ASSUME NEW a \in Attempt, Commit(a) PROVE [Promise!Next]_Promise!vars
  <2> PICK k \in Key : k = attempt[a].key
    BY <1>3, <1>0 DEF Commit
  <2>1. /\ k \in Scoped /\ commits[k] = 0 /\ commits' = [commits EXCEPT ![k] = @ + 1]
        /\ \A b \in Attempt : b # a => attempt'[b] = attempt[b]
        /\ attempt[a].reply # "ok" /\ attempt'[a].reply # "ok"
    BY <1>3, <1>0 DEF Commit, CommitOf, Goto, OnceInv, DispatchInv, RunnerHoldsClaim,
       FreeIsUncommitted, Running, AttemptState
  <2>2. Promise!TakeEffect(k)
    BY <2>1, CommitTakesEffect
  <2> QED
    BY <2>1, <2>2 DEF Promise!Next
<1>4. ASSUME NEW a \in Attempt, Store(a) PROVE [Promise!Next]_Promise!vars
  <2>1. /\ commits' = commits
        /\ attempt[a].key \in Key /\ commits[attempt[a].key] >= 1
        /\ \A b \in Attempt : b # a => attempt'[b] = attempt[b]
        /\ attempt[a].reply # "ok"
        /\ attempt'[a].reply = "ok" /\ attempt'[a].key = attempt[a].key
    BY <1>4, <1>0 DEF Store, Reply, AttemptState
  <2> QED
    BY <2>1, OkAcknowledges
<1>5. ASSUME NEW a \in Attempt, BypassCommit(a) PROVE UNCHANGED Promise!vars
  <2>1. /\ attempt[a].key \notin Scoped
        /\ \A k \in Scoped : commits'[k] = commits[k]
        /\ \A b \in Attempt : b # a => attempt'[b] = attempt[b]
        /\ attempt'[a].key = attempt[a].key
    BY <1>5, <1>0, DispatchAssumption
       DEF BypassCommit, CommitOf, Reply, AttemptState, DispatchAssumption, OnceInv, DispatchInv,
           DispatchTypeOK
  <2>2. Acknowledged' = Acknowledged
    BY <2>1 DEF Acknowledged
  <2>3. Effects' = Effects
    BY <2>1 DEF Effects
  <2> QED
    BY <2>2, <2>3 DEF Effects, Acknowledged, Promise!vars
<1>6. ASSUME UNCHANGED dispatchVars PROVE UNCHANGED Promise!vars
  <2>1. Acknowledged' = Acknowledged /\ Effects' = Effects
    BY <1>6 DEF Acknowledged, Effects, dispatchVars
  <2> QED
    BY <2>1 DEF Effects, Acknowledged, Promise!vars
<1>7. \A a \in Attempt : ~CommitThenFail(a)
  BY DEF CommitThenFail, Faithful
<1>8. CASE DispatchNext
  BY <1>1, <1>2, <1>3, <1>4, <1>5, <1>7, <1>8, ForgetForgets DEF DispatchNext, ServerStep
<1> QED
  BY <1>6, <1>8

\* The wrapper implements the promise: each keyed write of a school user takes
\* effect at most once, and a success answers only a write that took effect.
THEOREM Refinement == Faithful /\ DispatchSpec => KeepsPromise
<1> SUFFICES ASSUME Faithful PROVE DispatchSpec => KeepsPromise
  OBVIOUS
<1>1. DispatchInit => Promise!Init
  <2> SUFFICES ASSUME DispatchInit PROVE Effects = [k \in Scoped |-> 0] /\ Acknowledged = {}
    BY DEF Effects, Acknowledged, Promise!Init
  <2> QED
    BY DispatchAssumption DEF Effects, Acknowledged, DispatchInit, Idle, DispatchAssumption
<1>2. OnceInv /\ [DispatchNext]_dispatchVars => [Promise!Next]_Promise!vars
  BY StepKeepsPromise
<1>3. DispatchSpec => []OnceInv
  BY OnceInvariant
<1> QED
  BY <1>1, <1>2, <1>3, PTL DEF DispatchSpec, KeepsPromise, Promise!Spec
=============================================================================
