-------------------------- MODULE IdempotentDispatch --------------------------
(***************************************************************************)
(* The server side of a keyed write: dispatchWithIdempotency wraps every   *)
(* mutating route, keyed by the Idempotency-Key header.  A request claims  *)
(* the key in the request_idempotency table, runs the route, and then      *)
(* stores its 2xx response or releases the claim.  Claim, route, store and *)
(* release are separate transactions, so requests with the same key        *)
(* interleave between any two of them and the edge isolate may die between *)
(* any two of them.                                                        *)
(*                                                                         *)
(* An attempt is one HTTP request on its way through the wrapper.  The     *)
(* pool of attempts is finite but an attempt is reused once its caller has *)
(* dropped it: Cardinality(Attempt) bounds the requests that exist at the  *)
(* same time, not their total.                                             *)
(***************************************************************************)
EXTENDS Naturals

CONSTANTS
    Key,            \* Idempotency-Keys, one per user operation
    NoKey,          \* the key of an attempt that is not in use
    Attempt,        \* HTTP requests that may exist at the same time
    Scoped,         \* the keys whose sender's token names a school
    Outcome,        \* what a route may do: commit, refuse, commit and fail
    Faults,         \* "death": requests get lost, isolates are killed;
                    \* "books": a claim, store or release transaction throws
    MaxCommits      \* bound on the counter of a key's committed writes

\* How a route answers when it does not succeed, as far as a caller can tell:
\* 409 (but not of the wrapper), another 4xx, and 5xx or 429.
Refusal == {"conflict", "rejected", "transient"}

ASSUME DispatchAssumption ==
    /\ NoKey \notin Key
    /\ Scoped \subseteq Key
    /\ Outcome \subseteq Refusal \cup {"commit", "commitThenFail"}
    /\ Faults \subseteq {"death", "books"}
    /\ MaxCommits \in Nat
    /\ MaxCommits >= 2

VARIABLES
    claim,          \* claim[k]: the request_idempotency row of k
    attempt,        \* attempt[a]: where request a is, its key and its answer
    commits         \* commits[k]: committed runs of the route with key k

dispatchVars == <<claim, attempt, commits>>

\* "free": no row.  "held": a row whose response_payload is NULL.
\* "stored": a row with the response that retries replay.
ClaimState == {"free", "held", "stored"}

\* The answers of the wrapper: those of the route, 2xx, and its own
\* 409 IDEMPOTENCY_CONFLICT.
Answer == Refusal \cup {"ok", "duplicate"}

Idle == [pc |-> "idle", key |-> NoKey, reply |-> "none"]

AttemptState ==
    [pc    : {"idle", "sent", "looking", "owner", "written", "refused",
              "done", "gone"},
     key   : Key \cup {NoKey},
     reply : Answer \cup {"none"}]

\* The part of the wrapper between a won claim and its settlement.
Running == {"owner", "written", "refused"}

DispatchInit ==
    /\ claim = [k \in Key |-> "free"]
    /\ attempt = [a \in Attempt |-> Idle]
    /\ commits = [k \in Key |-> 0]

-----------------------------------------------------------------------------
Goto(a, pc) == attempt' = [attempt EXCEPT ![a].pc = pc]

Reply(a, r) == attempt' = [attempt EXCEPT ![a].pc = "done", ![a].reply = r]

CommitOf(k) ==
    /\ commits[k] < MaxCommits
    /\ commits' = [commits EXCEPT ![k] = @ + 1]

\* Below, a definition marked "Slip" is no part of the specification: it is a
\* mistake in the definition after it, which a property is checked to catch.

\* A caller sends a request with key k.
Send(a, k) ==
    /\ attempt[a].pc = "idle"
    /\ attempt' = [attempt EXCEPT ![a] = [pc |-> "sent", key |-> k, reply |-> "none"]]
    /\ UNCHANGED <<claim, commits>>

\* INSERT ... ON CONFLICT DO NOTHING RETURNING id: the row was not there.
WinClaim(a) ==
    LET k == attempt[a].key IN
    /\ attempt[a].pc = "sent"
    /\ k \in Scoped
    /\ claim[k] = "free"
    /\ claim' = [claim EXCEPT ![k] = "held"]
    /\ Goto(a, "owner")
    /\ UNCHANGED commits

\* ... the row was there, and the SELECT of the prior response comes next.
LoseClaim(a) ==
    LET k == attempt[a].key IN
    /\ attempt[a].pc = "sent"
    /\ k \in Scoped
    /\ claim[k] # "free"
    /\ Goto(a, "looking")
    /\ UNCHANGED <<claim, commits>>

\* The claim transaction throws, before or in its COMMIT: a 500, and nobody
\* releases the row that may have been inserted.
ClaimFails(a) ==
    LET k == attempt[a].key IN
    /\ "books" \in Faults
    /\ attempt[a].pc = "sent"
    /\ k \in Scoped
    /\ \/ UNCHANGED claim
       \/ claim[k] = "free" /\ claim' = [claim EXCEPT ![k] = "held"]
    /\ Reply(a, "transient")
    /\ UNCHANGED commits

\* Slip: a row without a response is replayed like one with a response.
ReplayAnyRow(a) ==
    /\ attempt[a].pc = "looking"
    /\ Reply(a, IF claim[attempt[a].key] # "free" THEN "ok" ELSE "duplicate")
    /\ UNCHANGED <<claim, commits>>

\* The SELECT: a stored response is replayed.  A row without a response, and
\* a row that was released since the INSERT, both answer 409.
Replay(a) ==
    /\ attempt[a].pc = "looking"
    /\ Reply(a, IF claim[attempt[a].key] = "stored" THEN "ok" ELSE "duplicate")
    /\ UNCHANGED <<claim, commits>>

\* The route commits its transaction and answers 2xx.
Commit(a) ==
    /\ attempt[a].pc = "owner"
    /\ "commit" \in Outcome
    /\ CommitOf(attempt[a].key)
    /\ Goto(a, "written")
    /\ UNCHANGED claim

\* The route rolls back and answers an error or throws.
Refuse(a, r) ==
    /\ attempt[a].pc = "owner"
    /\ r \in Refusal \cap Outcome
    /\ attempt' = [attempt EXCEPT ![a].pc = "refused", ![a].reply = r]
    /\ UNCHANGED <<claim, commits>>

\* The route commits and throws all the same: the connection breaks on
\* COMMIT, or a later step of the route fails.
CommitThenFail(a) ==
    /\ attempt[a].pc = "owner"
    /\ "commitThenFail" \in Outcome
    /\ CommitOf(attempt[a].key)
    /\ attempt' = [attempt EXCEPT ![a].pc = "refused", ![a].reply = "transient"]
    /\ UNCHANGED claim

\* Slip: the claim is released when the request ends, stored or not.
StoreThenRelease(a) ==
    /\ attempt[a].pc = "written"
    /\ claim' = [claim EXCEPT ![attempt[a].key] = "free"]
    /\ Reply(a, "ok")
    /\ UNCHANGED commits

\* The 2xx response is stored under the key and sent.
Store(a) ==
    /\ attempt[a].pc = "written"
    /\ claim' = [claim EXCEPT ![attempt[a].key] = "stored"]
    /\ Reply(a, "ok")
    /\ UNCHANGED commits

\* Slip: a store that throws releases the claim, as a route that throws does.
StoreFailsReleases(a) ==
    /\ attempt[a].pc = "written"
    /\ "books" \in Faults
    /\ claim' = [claim EXCEPT ![attempt[a].key] = "free"]
    /\ Reply(a, "transient")
    /\ UNCHANGED commits

\* The store throws, before or in its COMMIT: nothing releases the claim and
\* the caller sees a 500.
StoreFails(a) ==
    /\ "books" \in Faults
    /\ attempt[a].pc = "written"
    /\ \/ UNCHANGED claim
       \/ claim' = [claim EXCEPT ![attempt[a].key] = "stored"]
    /\ Reply(a, "transient")
    /\ UNCHANGED commits

\* Slip: the row is marked instead of deleted.
ReleaseMarks(a) ==
    /\ attempt[a].pc = "refused"
    /\ claim' = [claim EXCEPT ![attempt[a].key] = "released"]
    /\ Goto(a, "done")
    /\ UNCHANGED commits

\* DELETE ... AND response_payload IS NULL, then the error response is sent.
Release(a) ==
    LET k == attempt[a].key IN
    /\ attempt[a].pc = "refused"
    /\ claim' = [claim EXCEPT ![k] = IF @ = "held" THEN "free" ELSE @]
    /\ Goto(a, "done")
    /\ UNCHANGED commits

\* _safeRelease swallows the error of a release that fails.
ReleaseFails(a) ==
    /\ "books" \in Faults
    /\ attempt[a].pc = "refused"
    /\ Goto(a, "done")
    /\ UNCHANGED <<claim, commits>>

\* Without a school in the token the wrapper is inert: the route just runs.
BypassCommit(a) ==
    /\ attempt[a].pc = "sent"
    /\ attempt[a].key \notin Scoped
    /\ "commit" \in Outcome
    /\ CommitOf(attempt[a].key)
    /\ Reply(a, "ok")
    /\ UNCHANGED claim

BypassRefuse(a, r) ==
    /\ attempt[a].pc = "sent"
    /\ attempt[a].key \notin Scoped
    /\ r \in Refusal \cap Outcome
    /\ Reply(a, r)
    /\ UNCHANGED <<claim, commits>>

\* The request is lost on its way in, or the isolate dies under it.
Die(a) ==
    /\ "death" \in Faults
    /\ attempt[a].pc \in {"sent", "looking"} \cup Running
    /\ attempt' = [attempt EXCEPT ![a].pc = "gone", ![a].reply = "none"]
    /\ UNCHANGED <<claim, commits>>

\* The caller read the answer, or stopped waiting for it.
Forget(a) ==
    /\ attempt[a].pc \in {"done", "gone"}
    /\ attempt' = [attempt EXCEPT ![a] = Idle]
    /\ UNCHANGED <<claim, commits>>

-----------------------------------------------------------------------------
\* What the server does for attempt a, without the calls of its clients.
ServerStep(a) ==
    \/ WinClaim(a) \/ LoseClaim(a) \/ ClaimFails(a) \/ Replay(a)
    \/ Commit(a) \/ CommitThenFail(a)
    \/ \E r \in Refusal : Refuse(a, r) \/ BypassRefuse(a, r)
    \/ BypassCommit(a)
    \/ Store(a) \/ StoreFails(a) \/ Release(a) \/ ReleaseFails(a)

DispatchNext ==
    \E a \in Attempt :
        \/ \E k \in Key : Send(a, k)
        \/ ServerStep(a)
        \/ Die(a)
        \/ Forget(a)

DispatchSpec == DispatchInit /\ [][DispatchNext]_dispatchVars

-----------------------------------------------------------------------------
DispatchTypeOK ==
    /\ claim \in [Key -> ClaimState]
    /\ attempt \in [Attempt -> AttemptState]
    /\ commits \in [Key -> 0..MaxCommits]

\* A keyed write of a school user commits at most once, however its requests
\* are retried, overlap or die (dispatchWithIdempotency).  The promise rests
\* on the route: one that commits and then fails is left out here.
AtMostOnce == \A k \in Scoped : commits[k] <= 1

\* Two requests with one key are never past the claim together: the unique
\* (organization_id, idempotency_key) row lets one of them in, and whoever
\* releases or stores is the one that claimed.
SingleRunner ==
    \A a, b \in Attempt :
        /\ attempt[a].pc \in Running
        /\ attempt[b].pc \in Running
        /\ attempt[a].key = attempt[b].key
        => a = b

\* Once a caller can hold a 2xx for a school user's key, no request with that
\* key runs the write again, whatever the route, the store or the release do.
SettledIsFinal ==
    [][\A k \in Scoped :
          (\E a \in Attempt : attempt[a].key = k /\ attempt[a].reply = "ok")
              => commits'[k] = commits[k]]_dispatchVars

\* A 2xx is only ever sent for a write that committed: a replay never answers
\* from a row that no committed run filled in.
SuccessIsCommitted ==
    \A a \in Attempt : attempt[a].reply = "ok" => commits[attempt[a].key] >= 1

\* What makes them true, for every route: a request past the claim holds it, a
\* stored row and a request about to store one have a commit behind them, and
\* a 2xx for a school user's key is backed by the stored row.
RunnerHoldsClaim ==
    \A a \in Attempt :
        attempt[a].pc \in Running => /\ attempt[a].key \in Scoped
                                    /\ claim[attempt[a].key] = "held"

StoredIsCommitted ==
    /\ \A k \in Key : claim[k] = "stored" => commits[k] >= 1
    /\ \A a \in Attempt : attempt[a].pc = "written" => commits[attempt[a].key] >= 1

OkIsStored ==
    \A a \in Attempt :
        attempt[a].reply = "ok"
            => /\ attempt[a].pc = "done"
               /\ (attempt[a].key \in Scoped => claim[attempt[a].key] = "stored")

KeyedUnlessIdle == \A a \in Attempt : attempt[a].pc # "idle" => attempt[a].key \in Key

DispatchInv ==
    /\ DispatchTypeOK
    /\ KeyedUnlessIdle
    /\ RunnerHoldsClaim
    /\ SingleRunner
    /\ StoredIsCommitted
    /\ OkIsStored
    /\ SuccessIsCommitted

\* No route commits and then fails.
Faithful == "commitThenFail" \notin Outcome

\* ... and then a key that is free, or whose holder has not written, is
\* uncommitted: whoever wins the claim is the first to write.
FreeIsUncommitted ==
    /\ \A k \in Scoped : claim[k] = "free" => commits[k] = 0
    /\ \A a \in Attempt : attempt[a].pc \in {"owner", "refused"} => commits[attempt[a].key] = 0

OnceInv == DispatchInv /\ FreeIsUncommitted /\ AtMostOnce

\* The abstract promise, over the school users' writes.
Promise == INSTANCE WriteOnce WITH
    Key          <- Scoped,
    effects      <- [k \in Scoped |-> commits[k]],
    acknowledged <- {k \in Scoped :
                        \E a \in Attempt : attempt[a].key = k /\ attempt[a].reply = "ok"}

\* The wrapper implements the promise when its routes report their commits.
KeepsPromise == Promise!Spec

-----------------------------------------------------------------------------
\* What comments in the repository say of the wrapper, and the code does not do.

\* "a non-2xx response releases the claim so a transient failure stays
\* retryable (the key is never poisoned)": once the caller has the answer of
\* a route that refused, the key is free for the retry.
TransientStaysRetryable ==
    [][\A a \in Attempt :
          attempt[a].pc = "refused" /\ attempt'[a].pc = "done"
              => claim'[attempt[a].key] = "free"]_dispatchVars
=============================================================================
