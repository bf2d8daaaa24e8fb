--------------------------- MODULE AiCredits_proofs ---------------------------
(***************************************************************************)
(* Proofs about AiCredits, for any number of requests, buckets, credits    *)
(* and any limit: the calls that a reservation admits stay within the      *)
(* bucket's limit and within what was bought, and a call is charged only   *)
(* if it was billed.                                                       *)
(*                                                                         *)
(* The limits are no inductive invariants: while a transaction that has    *)
(* admitted its call is open there must be room for it.  That the room is  *)
(* not given away twice is what the advisory lock is for (OneReserves).    *)
(***************************************************************************)
EXTENDS AiCredits, FiniteSetTheorems, TLAPS

-----------------------------------------------------------------------------
(***************************************************************************)
(* The inductive invariant.                                                *)
(***************************************************************************)
\* What the place of a call says about its hold and its log row.
Fits(c) ==
    /\ call[c].pc \in {"idle", "reserving"} => hold[c] = "none"
    /\ call[c].pc # "done" => hold[c] \in {"none", "pending"} /\ row[c] = "none"
    /\ call[c].pc = "reserving" => call[c].verdict \in {"admit", "rate", "wallet"}
    /\ call[c].pc = "denied" => call[c].verdict \in {"rate", "wallet"}
    /\ call[c].pc = "billed" => c \in billed

Sound == \A c \in Call : Fits(c)

\* A sweep takes holds of requests that have ended.
SweepsEnded ==
    \A c \in Call : \A e \in call[c].sweep : call[e].pc = "done" /\ hold[e] # "none"

\* The advisory lock: one reservation at a time in a bucket.
OneReserves ==
    \A c, e \in Call :
        (/\ call[c].pc = "reserving" /\ call[e].pc = "reserving"
         /\ call[c].bucket = call[e].bucket) => c = e

\* The admitted call whose reservation is not committed yet.
Entering(b) ==
    {c \in In(b) : call[c].pc = "reserving" /\ call[c].verdict = "admit"}

LimitKept ==
    Limit > 0 => \A b \in Bucket :
        /\ Cardinality(Admitted(b)) <= Limit
        /\ Entering(b) # {} => Cardinality(Admitted(b)) + 1 <= Limit

Paying(b) == {c \in Entering(b) : call[c].needs # 0}

CreditsKept ==
    \A b \in Bucket :
        /\ Price * Cardinality(Spending(b)) <= bought
        /\ Paying(b) # {} => Price * (Cardinality(Spending(b)) + 1) <= bought

CreditsInv == CreditsTypeOK /\ Sound /\ SweepsEnded /\ OneReserves

-----------------------------------------------------------------------------
LEMMA InitInv == CreditsInit => CreditsInv
<1> SUFFICES ASSUME CreditsInit PROVE CreditsInv
  OBVIOUS
<1> USE DEF CreditsInit
<1>1. CreditsTypeOK
  BY DEF CreditsTypeOK, CallState, HoldState, Pending, RowState
<1>2. Sound /\ SweepsEnded /\ OneReserves
  BY DEF Sound, Fits, SweepsEnded, OneReserves
<1> QED
  BY <1>1, <1>2 DEF CreditsInv

\* The verdict of an admission.
LEMMA VerdictType ==
  ASSUME NEW b, NEW calls, NEW available, NEW needs
  PROVE  /\ Verdict(b, calls, available, needs) \in {"admit", "rate", "wallet"}
         /\ Verdict(b, calls, available, needs) = "admit" => Below(calls) /\ ~(available < needs)
  BY DEF Verdict

\* What an admission does to its call, and what there was room for.
LEMMA ReserveEffect ==
  ASSUME NEW c \in Call, NEW b \in Bucket, NEW needs \in {0, Price}, Reserve(c, b, needs)
  PROVE  \E v \in {"admit", "rate", "wallet"} :
           /\ call' = [call EXCEPT ![c] = [pc |-> "reserving", bucket |-> b, needs |-> needs,
                                           verdict |-> v, sweep |-> Abandoned(b)]]
           /\ v = "admit" => /\ Below(Cardinality(Logged(b)) + Cardinality(Live(b)))
                             /\ ~(Available(b, Abandoned(b)) < needs)
<1> DEFINE v == Verdict(b, Cardinality(Logged(b)) + Cardinality(Live(b)),
                        Available(b, Abandoned(b)), needs)
<1>1. /\ v \in {"admit", "rate", "wallet"}
      /\ v = "admit" => /\ Below(Cardinality(Logged(b)) + Cardinality(Live(b)))
                        /\ ~(Available(b, Abandoned(b)) < needs)
  BY VerdictType
<1>2. call' = [call EXCEPT ![c] = [pc |-> "reserving", bucket |-> b, needs |-> needs,
                                  verdict |-> v, sweep |-> Abandoned(b)]]
  BY DEF Reserve, Admission
<1> HIDE DEF v
<1> QED
  BY <1>1, <1>2

\* A call after an update of some of its fields is still a call.
LEMMA CallUpdate ==
  ASSUME NEW r \in CallState, NEW pc \in {"degraded", "calling", "denied"},
         NEW v \in {"none", "unheld", "rate", "wallet"}
  PROVE  /\ [r EXCEPT !.pc = pc, !.sweep = {}] \in CallState
         /\ [r EXCEPT !.pc = pc, !.verdict = v] \in CallState
         /\ [r EXCEPT !.pc = pc, !.sweep = {}, !.verdict = v] \in CallState
<1>1. [r EXCEPT !.pc = pc, !.sweep = {}] \in CallState
  BY DEF CallState
<1>2. [r EXCEPT !.pc = pc, !.verdict = v] \in CallState
  BY DEF CallState
<1>3. [r EXCEPT !.pc = pc, !.sweep = {}, !.verdict = v] \in CallState
  BY DEF CallState
<1> QED
  BY <1>1, <1>2, <1>3

LEMMA ReservedType ==
  ASSUME hold \in [Call -> HoldState], NEW c \in Call
  PROVE  Reserved(c) \in [Call -> HoldState]
<1>1. ASSUME NEW e \in Call PROVE Reserved(c)[e] \in {"swept", "pending", hold[e]}
  BY DEF Reserved
<1>2. {"swept", "pending"} \subseteq HoldState
  BY DEF HoldState, Pending
<1>3. Reserved(c) = [e \in Call |-> Reserved(c)[e]]
  BY DEF Reserved
<1> QED
  BY <1>1, <1>2, <1>3

LEMMA TypeStep ==
  ASSUME CreditsInv, CreditsNext
  PROVE  CreditsTypeOK'
<1> USE DEF CreditsInv, CreditsTypeOK
<1>0. \A c \in Call : call[c] \in CallState
  OBVIOUS
<1>1. ASSUME NEW c \in Call, NEW b \in Bucket, NEW needs \in {0, Price}, Reserve(c, b, needs)
      PROVE  CreditsTypeOK'
  <2>1. PICK v \in {"admit", "rate", "wallet"} :
          call' = [call EXCEPT ![c] = [pc |-> "reserving", bucket |-> b, needs |-> needs,
                                      verdict |-> v, sweep |-> Abandoned(b)]]
    BY <1>1, ReserveEffect
  <2>2. Abandoned(b) \subseteq Call
    BY DEF Abandoned, In
  <2>3. [pc |-> "reserving", bucket |-> b, needs |-> needs, verdict |-> v,
         sweep |-> Abandoned(b)] \in CallState
    BY <2>2 DEF CallState
  <2> QED
    BY <1>1, <2>1, <2>3 DEF Reserve
<1>2. ASSUME NEW c \in Call, ReserveCommits(c) PROVE CreditsTypeOK'
  <2>1. PICK pc \in {"calling", "denied"} :
          call' = [call EXCEPT ![c].pc = pc, ![c].sweep = {}]
    BY <1>2 DEF ReserveCommits
  <2>2. [call[c] EXCEPT !.pc = pc, !.sweep = {}] \in CallState
    BY <1>0, CallUpdate
  <2>3. call' \in [Call -> CallState]
    BY <1>0, <2>1, <2>2 DEF CallState
  <2>4. hold' \in [Call -> HoldState]
    BY <1>2, ReservedType DEF ReserveCommits
  <2> QED
    BY <1>2, <2>3, <2>4 DEF ReserveCommits
<1>3. ASSUME NEW c \in Call, ReserveFails(c) PROVE CreditsTypeOK'
  <2>2. [call[c] EXCEPT !.pc = "degraded", !.sweep = {}, !.verdict = "none"] \in CallState
    BY <1>0, CallUpdate
  <2>3. call' = [call EXCEPT ![c] = [call[c] EXCEPT !.pc = "degraded", !.sweep = {},
                                                   !.verdict = "none"]]
    BY <1>0, <1>3 DEF ReserveFails, CallState
  <2>4. call' \in [Call -> CallState]
    BY <2>2, <2>3
  <2>5. hold' \in [Call -> HoldState]
    BY <1>3, ReservedType DEF ReserveFails
  <2> QED
    BY SMTT(30), <1>3, <2>4, <2>5 DEF ReserveFails
<1>4. ASSUME NEW c \in Call, DecideDegraded(c) \/ DecideBlind(c) PROVE CreditsTypeOK'
  <2>1. PICK pc \in {"calling", "denied"}, v \in {"unheld", "rate", "wallet"} :
          call' = [call EXCEPT ![c].pc = pc, ![c].verdict = v]
    BY SMTT(30), <1>4, VerdictType DEF DecideDegraded, DecideBlind, Decide
  <2>2. [call[c] EXCEPT !.pc = pc, !.verdict = v] \in CallState
    BY <1>0, CallUpdate
  <2>3. call' \in [Call -> CallState]
    BY <1>0, <2>1, <2>2 DEF CallState
  <2> QED
    BY <1>4, <2>3 DEF DecideDegraded, DecideBlind, Decide
<1>5. ASSUME NEW c \in Call, ProviderAnswers(c) \/ ProviderFails(c) PROVE CreditsTypeOK'
  BY SMTT(30), <1>5 DEF ProviderAnswers, ProviderFails, CallState
<1>6. ASSUME NEW c \in Call, FinishBilled(c) \/ FinishFailed(c) PROVE CreditsTypeOK'
  <2>1. call' \in [Call -> CallState]
    BY SMTT(30), <1>6 DEF FinishBilled, FinishFailed, Finish, CallState
  <2>2. row' \in [Call -> RowState]
    BY <1>6 DEF FinishBilled, FinishFailed, Finish, RowState
  <2>3. PICK state \in {"consumed", "released"} : hold' = hold \/ Settled(c, state)
    BY <1>6 DEF FinishBilled, FinishFailed, Finish
  <2>4. hold' \in [Call -> HoldState]
    BY <2>3 DEF Settled, HoldState
  <2> QED
    BY <1>6, <2>1, <2>2, <2>4 DEF FinishBilled, FinishFailed, Finish
<1>7. ASSUME NEW c \in Call, FinishDenied(c) PROVE CreditsTypeOK'
  BY SMTT(30), <1>7 DEF FinishDenied, CallState, RowState, Sound, Fits
<1>8. ASSUME NEW c \in Call, Die(c) \/ Age(c) PROVE CreditsTypeOK'
  BY SMTT(30), <1>8 DEF Die, Age, CallState, HoldState, Pending
<1>9. ASSUME NEW units \in 1..MaxCredit, Grant(units) \/ Expire(units) PROVE CreditsTypeOK'
  BY <1>9, CreditsAssumption DEF Grant, Expire
<1> QED
  BY <1>1, <1>2, <1>3, <1>4, <1>5, <1>6, <1>7, <1>8, <1>9 DEF CreditsNext, CallStep

\* What a call's step leaves of the others, and where it moves the call itself.
LEMMA SoundStep ==
  ASSUME CreditsInv, CreditsNext
  PROVE  Sound'
<1> USE DEF CreditsInv, Sound, Fits
<1>0. call \in [Call -> CallState] /\ hold \in [Call -> HoldState] /\ row \in [Call -> RowState]
  BY DEF CreditsTypeOK
<1>1. ASSUME NEW c \in Call, NEW b \in Bucket, NEW needs \in {0, Price}, Reserve(c, b, needs)
      PROVE  Sound'
  <2>1. PICK v \in {"admit", "rate", "wallet"} :
          call' = [call EXCEPT ![c] = [pc |-> "reserving", bucket |-> b, needs |-> needs,
                                      verdict |-> v, sweep |-> Abandoned(b)]]
    BY <1>1, ReserveEffect
  <2> QED
    BY <1>0, <1>1, <2>1 DEF Reserve
<1>2. ASSUME NEW c \in Call, ReserveCommits(c) \/ ReserveFails(c) PROVE Sound'
  <2>1. \A e \in Call : hold'[e] = hold[e] \/ (e \in call[c].sweep /\ hold'[e] = "swept")
                         \/ (e = c /\ hold'[e] = "pending")
    BY <1>2, <1>0 DEF ReserveCommits, ReserveFails, Reserved
  <2>2. \A e \in call[c].sweep : call[e].pc = "done"
    BY DEF SweepsEnded
  <2>3. /\ \A e \in Call : e # c => call'[e] = call[e]
        /\ call'[c].pc \in {"calling", "denied", "degraded"}
        /\ call'[c].pc = "denied" => call'[c].verdict \in {"rate", "wallet"}
        /\ row' = row /\ billed' = billed
    BY <1>2, <1>0 DEF ReserveCommits, ReserveFails, CallState
  <2>4. c \notin call[c].sweep
    BY <1>2, <2>2 DEF ReserveCommits, ReserveFails
  <2>5. ASSUME NEW e \in Call, e # c PROVE Fits(e)'
    BY <2>1, <2>2, <2>3, <2>5
  <2>6. Fits(c)'
    BY <2>1, <2>3, <2>4, <1>2 DEF ReserveCommits, ReserveFails
  <2> QED
    BY <2>5, <2>6
<1>3. ASSUME NEW c \in Call, DecideDegraded(c) \/ DecideBlind(c) PROVE Sound'
  <2>1. PICK pc \in {"calling", "denied"}, v \in {"unheld", "rate", "wallet"} :
          /\ call' = [call EXCEPT ![c].pc = pc, ![c].verdict = v]
          /\ pc = "denied" => v \in {"rate", "wallet"}
    BY <1>3, VerdictType DEF DecideDegraded, DecideBlind, Decide
  <2> QED
    BY <1>0, <1>3, <2>1 DEF DecideDegraded, DecideBlind, Decide, CallState
<1>4. ASSUME NEW c \in Call, ProviderAnswers(c) \/ ProviderFails(c) PROVE Sound'
  BY <1>0, <1>4 DEF ProviderAnswers, ProviderFails, CallState
<1>5. ASSUME NEW c \in Call, FinishBilled(c) \/ FinishFailed(c) PROVE Sound'
  <2>1. /\ \A e \in Call : e # c => call'[e] = call[e] /\ hold'[e] = hold[e] /\ row'[e] = row[e]
        /\ call'[c].pc = "done"
        /\ billed' = billed
    BY <1>0, <1>5 DEF FinishBilled, FinishFailed, Finish, Settled, CallState
  <2> QED
    BY <2>1
<1>6. ASSUME NEW c \in Call, FinishDenied(c) \/ Die(c) PROVE Sound'
  BY <1>0, <1>6 DEF FinishDenied, Die, CallState
<1>7. ASSUME NEW c \in Call, Age(c) PROVE Sound'
  BY <1>0, <1>7 DEF Age, CallState
<1>8. ASSUME NEW units \in 1..MaxCredit, Grant(units) \/ Expire(units) PROVE Sound'
  BY <1>8 DEF Grant, Expire
<1> QED
  BY <1>1, <1>2, <1>3, <1>4, <1>5, <1>6, <1>7, <1>8 DEF CreditsNext, CallStep

\* What a step that is no admission leaves of places, buckets and sweeps.
LEMMA PlaceStep ==
  ASSUME CreditsInv, CreditsNext,
         \A c \in Call, b \in Bucket, needs \in {0, Price} : ~Reserve(c, b, needs)
  PROVE  \A e \in Call :
           /\ call'[e].bucket = call[e].bucket /\ call'[e].needs = call[e].needs
           /\ call'[e].pc = "reserving" => call'[e] = call[e]
           /\ call[e].pc = "done" => call'[e].pc = "done"
           /\ call'[e].sweep \subseteq call[e].sweep
           /\ hold[e] # "none" => hold'[e] # "none"
<1> USE DEF CreditsInv
<1>0. call \in [Call -> CallState] /\ hold \in [Call -> HoldState]
  BY DEF CreditsTypeOK
<1> TAKE e \in Call
<1>1. ASSUME NEW c \in Call, ReserveCommits(c) \/ ReserveFails(c)
      PROVE  /\ call'[e].bucket = call[e].bucket /\ call'[e].needs = call[e].needs
             /\ call'[e].pc = "reserving" => call'[e] = call[e]
             /\ call[e].pc = "done" => call'[e].pc = "done"
             /\ call'[e].sweep \subseteq call[e].sweep
             /\ hold[e] # "none" => hold'[e] # "none"
  BY <1>0, <1>1 DEF ReserveCommits, ReserveFails, Reserved, CallState
<1>2. ASSUME NEW c \in Call, DecideDegraded(c) \/ DecideBlind(c) \/ ProviderAnswers(c)
                             \/ ProviderFails(c) \/ FinishDenied(c) \/ Die(c)
      PROVE  /\ call'[e].bucket = call[e].bucket /\ call'[e].needs = call[e].needs
             /\ call'[e].pc = "reserving" => call'[e] = call[e]
             /\ call[e].pc = "done" => call'[e].pc = "done"
             /\ call'[e].sweep \subseteq call[e].sweep
             /\ hold[e] # "none" => hold'[e] # "none"
  BY <1>0, <1>2 DEF DecideDegraded, DecideBlind, Decide, ProviderAnswers, ProviderFails,
                    FinishDenied, Die, CallState
<1>3. ASSUME NEW c \in Call, FinishBilled(c) \/ FinishFailed(c)
      PROVE  /\ call'[e].bucket = call[e].bucket /\ call'[e].needs = call[e].needs
             /\ call'[e].pc = "reserving" => call'[e] = call[e]
             /\ call[e].pc = "done" => call'[e].pc = "done"
             /\ call'[e].sweep \subseteq call[e].sweep
             /\ hold[e] # "none" => hold'[e] # "none"
  BY <1>0, <1>3 DEF FinishBilled, FinishFailed, Finish, Settled, CallState
<1>4. ASSUME NEW c \in Call, Age(c) PROVE call' = call /\ (hold[e] # "none" => hold'[e] # "none")
  BY <1>0, <1>4 DEF Age
<1>5. ASSUME NEW units \in 1..MaxCredit, Grant(units) \/ Expire(units)
      PROVE  call' = call /\ hold' = hold
  BY <1>5 DEF Grant, Expire
<1> QED
  BY <1>1, <1>2, <1>3, <1>4, <1>5 DEF CreditsNext, CallStep

LEMMA LockStep ==
  ASSUME CreditsInv, CreditsNext
  PROVE  SweepsEnded' /\ OneReserves'
<1> USE DEF CreditsInv
<1>0. call \in [Call -> CallState]
  BY DEF CreditsTypeOK
<1>1. ASSUME NEW c \in Call, NEW b \in Bucket, NEW needs \in {0, Price}, Reserve(c, b, needs)
      PROVE  SweepsEnded' /\ OneReserves'
  <2>1. PICK v \in {"admit", "rate", "wallet"} :
          call' = [call EXCEPT ![c] = [pc |-> "reserving", bucket |-> b, needs |-> needs,
                                      verdict |-> v, sweep |-> Abandoned(b)]]
    BY <1>1, ReserveEffect
  <2>2. /\ call[c].pc = "idle" /\ hold' = hold
        /\ \A e \in Call : call[e].bucket = b => call[e].pc # "reserving"
    BY <1>1 DEF Reserve, In
  <2>3. \A e \in Abandoned(b) : e \in Call /\ hold[e] = "old" /\ call[e].pc = "done"
    BY DEF Abandoned, In, Sound, Fits
  <2>4. SweepsEnded'
    BY <1>0, <2>1, <2>2, <2>3 DEF SweepsEnded, CallState
  <2>5. OneReserves'
    BY <1>0, <2>1, <2>2 DEF OneReserves
  <2> QED
    BY <2>4, <2>5
<1>2. ASSUME \A c \in Call, b \in Bucket, needs \in {0, Price} : ~Reserve(c, b, needs)
      PROVE  SweepsEnded' /\ OneReserves'
  <2>1. \A c \in Call : call[c].sweep \subseteq Call
    BY <1>0 DEF CallState
  <2>2. SweepsEnded'
    BY <1>2, <2>1, PlaceStep DEF SweepsEnded
  <2>3. OneReserves'
    BY <1>2, PlaceStep DEF OneReserves
  <2> QED
    BY <2>2, <2>3
<1> QED
  BY <1>1, <1>2

\* The places of calls, their holds and rows fit together, under one lock a bucket.
LEMMA CreditsInvariant == CreditsSpec => []CreditsInv
<1>1. CreditsInv /\ [CreditsNext]_creditVars => CreditsInv'
  <2> SUFFICES ASSUME CreditsInv, [CreditsNext]_creditVars PROVE CreditsInv'
    OBVIOUS
  <2>1. CASE CreditsNext
    BY <2>1, TypeStep, SoundStep, LockStep DEF CreditsInv
  <2>2. CASE UNCHANGED creditVars
    BY <2>2 DEF creditVars, CreditsInv, CreditsTypeOK, Sound, Fits, SweepsEnded, OneReserves
  <2> QED
    BY <2>1, <2>2
<1> QED
  BY <1>1, InitInv, PTL DEF CreditsSpec

LEMMA ChargeStep ==
  ASSUME CreditsInv, ChargedIfBilled, CreditsNext
  PROVE  ChargedIfBilled'
<1> USE DEF CreditsInv, ChargedIfBilled
<1>0. call \in [Call -> CallState] /\ hold \in [Call -> HoldState] /\ row \in [Call -> RowState]
  BY DEF CreditsTypeOK
<1>1. ASSUME NEW c \in Call, NEW b \in Bucket, NEW needs \in {0, Price}, Reserve(c, b, needs)
      PROVE  ChargedIfBilled'
  BY <1>1 DEF Reserve
<1>2. ASSUME NEW c \in Call, ReserveCommits(c) \/ ReserveFails(c) PROVE ChargedIfBilled'
  <2>1. \A e \in Call : hold'[e] \in {hold[e], "swept", "pending"}
    BY <1>0, <1>2 DEF ReserveCommits, ReserveFails, Reserved
  <2> QED
    BY <1>2, <2>1 DEF ReserveCommits, ReserveFails
<1>3. ASSUME NEW c \in Call, DecideDegraded(c) \/ DecideBlind(c) \/ ProviderAnswers(c)
                             \/ ProviderFails(c) \/ Die(c)
      PROVE  ChargedIfBilled'
  BY <1>3 DEF DecideDegraded, DecideBlind, Decide, ProviderAnswers, ProviderFails, Die
<1>4. ASSUME NEW c \in Call, FinishBilled(c) PROVE ChargedIfBilled'
  <2>1. c \in billed /\ hold[c] \in {"none", "pending"} /\ row[c] = "none" /\ billed' = billed
    BY <1>4 DEF FinishBilled, Finish, Sound, Fits
  <2>2. \A e \in Call : e # c => hold'[e] = hold[e] /\ row'[e] = row[e]
    BY <1>0, <1>4 DEF FinishBilled, Finish, Settled
  <2>3. hold'[c] # "released"
    BY <1>0, <1>4, <2>1 DEF FinishBilled, Finish, Settled
  <2> QED
    BY <2>1, <2>2, <2>3
<1>5. ASSUME NEW c \in Call, FinishFailed(c) PROVE ChargedIfBilled'
  <2>1. row[c] = "none" /\ billed' = billed
    BY <1>5 DEF FinishFailed, Finish, Sound, Fits
  <2>2. \A e \in Call : e # c => hold'[e] = hold[e] /\ row'[e] = row[e]
    BY <1>0, <1>5 DEF FinishFailed, Finish, Settled
  <2>3. row'[c] # "debited"
    BY <1>0, <1>5, <2>1 DEF FinishFailed, Finish
  <2> QED
    BY <2>1, <2>2, <2>3
<1>6. ASSUME NEW c \in Call, FinishDenied(c) PROVE ChargedIfBilled'
  BY <1>0, <1>6 DEF FinishDenied, Sound, Fits
<1>7. ASSUME NEW c \in Call, Age(c) PROVE ChargedIfBilled'
  BY <1>0, <1>7 DEF Age
<1>8. ASSUME NEW units \in 1..MaxCredit, Grant(units) \/ Expire(units) PROVE ChargedIfBilled'
  BY <1>8 DEF Grant, Expire
<1> QED
  BY <1>1, <1>2, <1>3, <1>4, <1>5, <1>6, <1>7, <1>8 DEF CreditsNext, CallStep

-----------------------------------------------------------------------------
(***************************************************************************)
(* Counting.                                                               *)
(***************************************************************************)
LEMMA Counted ==
  ASSUME NEW S, S \subseteq Call
  PROVE  /\ IsFiniteSet(S) /\ Cardinality(S) \in Nat
         /\ \A T : T \subseteq S => Cardinality(T) <= Cardinality(S)
         /\ \A c : Cardinality(S \cup {c}) <= Cardinality(S) + 1
<1>1. IsFiniteSet(S)
  BY CreditsAssumption, FS_Subset
<1>2. Cardinality(S) \in Nat
  BY <1>1, FS_CardinalityType
<1>3. ASSUME NEW T, T \subseteq S PROVE Cardinality(T) <= Cardinality(S)
  BY <1>1, <1>3, FS_Subset
<1>4. ASSUME NEW c PROVE Cardinality(S \cup {c}) <= Cardinality(S) + 1
  BY <1>1, <1>2, FS_AddElement
<1> QED
  BY <1>1, <1>2, <1>3, <1>4

LEMMA UnionCounted ==
  ASSUME NEW S, NEW T, S \subseteq Call, T \subseteq Call
  PROVE  Cardinality(S \cup T) <= Cardinality(S) + Cardinality(T)
<1>1. IsFiniteSet(S) /\ IsFiniteSet(T)
  BY Counted
<1>2. S \cap T \subseteq Call
  OBVIOUS
<1>3. Cardinality(S) \in Nat /\ Cardinality(T) \in Nat /\ Cardinality(S \cap T) \in Nat
  BY <1>2, Counted
<1>4. Cardinality(S \cup T) = Cardinality(S) + Cardinality(T) - Cardinality(S \cap T)
  BY <1>1, FS_Union
<1> QED
  BY <1>3, <1>4

LEMMA Priced ==
  ASSUME NEW m \in Nat, NEW n \in Nat, m <= n
  PROVE  Price * m <= Price * n /\ Price * n \in Nat
<1>1. PICK d \in Nat : n = m + d
  <2>1. n - m \in Nat /\ n = m + (n - m)
    OBVIOUS
  <2> QED
    BY <2>1
<1>2. Price * n = Price * m + Price * d
  BY <1>1, CreditsAssumption
<1>3. Price * d \in Nat /\ Price * m \in Nat
  BY CreditsAssumption
<1> QED
  BY <1>2, <1>3

\* Steps other than those of a reservation admit and charge nobody new.
LEMMA QuietStep ==
  ASSUME CreditsInv, CreditsNext, NEW b \in Bucket,
         \A c \in Call, d \in Bucket, needs \in {0, Price} : ~Reserve(c, d, needs),
         \A c \in Call : ~ReserveCommits(c) /\ ~ReserveFails(c)
  PROVE  /\ Admitted(b)' \subseteq Admitted(b) /\ Entering(b)' \subseteq Entering(b)
         /\ Spending(b)' \subseteq Spending(b) /\ Paying(b)' \subseteq Paying(b)
         /\ bought' >= bought
<1> USE DEF CreditsInv
<1>0. /\ call \in [Call -> CallState] /\ hold \in [Call -> HoldState] /\ row \in [Call -> RowState]
      /\ bought \in Nat
  BY DEF CreditsTypeOK
<1>1. \A e \in Call :
        /\ call'[e].bucket = call[e].bucket /\ call'[e].needs = call[e].needs
        /\ call'[e].pc = "reserving" => call'[e] = call[e]
        /\ hold[e] # "none" => hold'[e] # "none"
  BY PlaceStep
<1>2. \A e \in Call :
        /\ hold'[e] = hold[e] \/ (hold'[e] \notin {"none", "pending"} /\ hold[e] # "none")
        /\ row'[e] = row[e] \/ hold[e] \in {"none", "pending"}
        /\ (row'[e] = "debited" /\ row[e] # "debited") => call[e].needs # 0
  <2> TAKE e \in Call
  <2>1. ASSUME NEW c \in Call, FinishBilled(c) \/ FinishFailed(c)
        PROVE  /\ hold'[e] = hold[e] \/ (hold'[e] \notin {"none", "pending"} /\ hold[e] # "none")
               /\ row'[e] = row[e] \/ hold[e] \in {"none", "pending"}
               /\ (row'[e] = "debited" /\ row[e] # "debited") => call[e].needs # 0
    BY <1>0, <2>1 DEF FinishBilled, FinishFailed, Finish, Settled, Sound, Fits
  <2>2. ASSUME NEW c \in Call, FinishDenied(c)
        PROVE  /\ hold'[e] = hold[e]
               /\ row'[e] = row[e] \/ hold[e] \in {"none", "pending"}
               /\ row'[e] = row[e] \/ row'[e] # "debited"
    BY <1>0, <2>2 DEF FinishDenied, Sound, Fits
  <2>3. ASSUME NEW c \in Call, Age(c)
        PROVE  /\ hold'[e] = hold[e] \/ (hold'[e] \notin {"none", "pending"} /\ hold[e] # "none")
               /\ row' = row
    BY <1>0, <2>3 DEF Age
  <2>4. ASSUME NEW c \in Call, DecideDegraded(c) \/ DecideBlind(c) \/ ProviderAnswers(c)
                               \/ ProviderFails(c) \/ Die(c)
        PROVE  hold' = hold /\ row' = row
    BY <2>4 DEF DecideDegraded, DecideBlind, Decide, ProviderAnswers, ProviderFails, Die
  <2>5. ASSUME NEW units \in 1..MaxCredit, Grant(units) \/ Expire(units)
        PROVE  hold' = hold /\ row' = row
    BY <2>5 DEF Grant, Expire
  <2> QED
    BY <2>1, <2>2, <2>3, <2>4, <2>5 DEF CreditsNext, CallStep
<1>3. bought' >= bought
  <2>1. ASSUME NEW c \in Call, CallStep(c) PROVE bought' = bought
    BY <2>1 DEF CallStep, Reserve, ReserveCommits, ReserveFails, DecideDegraded, DecideBlind,
                Decide, ProviderAnswers, ProviderFails, FinishBilled, FinishFailed, Finish,
                FinishDenied, Die, Age
  <2>2. ASSUME NEW units \in 1..MaxCredit, Grant(units) \/ Expire(units) PROVE bought' >= bought
    BY <1>0, <2>2, CreditsAssumption DEF Grant, Expire
  <2> QED
    BY SMTT(30), <1>0, <2>1, <2>2 DEF CreditsNext
<1>4. Admitted(b)' \subseteq Admitted(b)
  BY <1>1, <1>2 DEF Admitted, In
<1>5. Spending(b)' \subseteq Spending(b)
  <2> SUFFICES ASSUME NEW c \in Spending(b)' PROVE c \in Spending(b)
    OBVIOUS
  <2>1. /\ c \in Call /\ call'[c].bucket = b /\ hold'[c] # "none"
        /\ row'[c] = "debited" \/ (hold'[c] = "pending" /\ call'[c].needs # 0)
    BY DEF Spending, In
  <2>2. call[c].bucket = b /\ hold[c] # "none"
    BY <1>1, <1>2, <2>1
  <2>3. CASE row'[c] = "debited" /\ row[c] # "debited"
    BY <1>2, <2>1, <2>2, <2>3 DEF Spending, In
  <2>4. CASE row'[c] = "debited" /\ row[c] = "debited"
    BY <2>1, <2>2, <2>4 DEF Spending, In
  <2>5. CASE hold'[c] = "pending" /\ call'[c].needs # 0
    BY <1>1, <1>2, <2>1, <2>2, <2>5 DEF Spending, In
  <2> QED
    BY <2>1, <2>3, <2>4, <2>5
<1>6. Entering(b)' \subseteq Entering(b) /\ Paying(b)' \subseteq Paying(b)
  BY <1>1 DEF Entering, Paying, In
<1> QED
  BY <1>3, <1>4, <1>5, <1>6

\* An admission: nobody new is counted, and if it admits there is room for one.
LEMMA AdmissionStep ==
  ASSUME CreditsInv, NEW c \in Call, NEW d \in Bucket, NEW needs \in {0, Price},
         Reserve(c, d, needs), NEW b \in Bucket
  PROVE  /\ Admitted(b)' \subseteq Admitted(b) /\ Spending(b)' \subseteq Spending(b)
         /\ bought' = bought
         /\ Entering(b)' # {} =>
              Entering(b) # {} \/ Limit = 0 \/ Cardinality(Admitted(b)) + 1 <= Limit
         /\ Paying(b)' # {} =>
              Paying(b) # {} \/ Price * (Cardinality(Spending(b)) + 1) <= bought
<1> USE DEF CreditsInv
<1>0. /\ call \in [Call -> CallState] /\ bought \in Nat /\ expired \in Nat
      /\ row' = row /\ hold' = hold /\ bought' = bought
  BY DEF CreditsTypeOK, Reserve
<1>1. PICK v \in {"admit", "rate", "wallet"} :
        /\ call' = [call EXCEPT ![c] = [pc |-> "reserving", bucket |-> d, needs |-> needs,
                                        verdict |-> v, sweep |-> Abandoned(d)]]
        /\ v = "admit" => /\ Below(Cardinality(Logged(d)) + Cardinality(Live(d)))
                          /\ ~(Available(d, Abandoned(d)) < needs)
  BY ReserveEffect
<1>2. \A e \in Call : e # c => call'[e] = call[e]
  BY <1>0, <1>1
<1>3. call'[c].bucket = d /\ call'[c].verdict = v /\ call'[c].needs = needs
  BY <1>0, <1>1
<1>4. hold[c] = "none"
  BY DEF Reserve, Sound, Fits
<1>5. Admitted(b)' \subseteq Admitted(b) /\ Spending(b)' \subseteq Spending(b)
  BY <1>0, <1>2, <1>4 DEF Admitted, Spending, In
<1>6. /\ Admitted(d) \subseteq Logged(d) \cup Live(d)
      /\ Logged(d) \subseteq Call /\ Live(d) \subseteq Call /\ Admitted(d) \subseteq Call
      /\ Logged(d) \cup Live(d) \subseteq Call
  BY DEF Admitted, Logged, Live, In
<1>7. /\ Spending(d) \subseteq VisibleDebits(d) \cup (Holding \ Abandoned(d))
      /\ VisibleDebits(d) \subseteq Call /\ Holding \ Abandoned(d) \subseteq Call
      /\ VisibleDebits(d) \cup (Holding \ Abandoned(d)) \subseteq Call
      /\ Spending(d) \subseteq Call
  BY DEF Spending, VisibleDebits, Holding, Abandoned, In, Pending
<1>8. ASSUME v = "admit" PROVE Limit = 0 \/ Cardinality(Admitted(d)) + 1 <= Limit
  <2>1. Cardinality(Admitted(d)) <= Cardinality(Logged(d)) + Cardinality(Live(d))
    <3>1. Cardinality(Admitted(d)) <= Cardinality(Logged(d) \cup Live(d))
      BY <1>6, Counted
    <3>2. Cardinality(Logged(d) \cup Live(d)) <= Cardinality(Logged(d)) + Cardinality(Live(d))
      BY <1>6, UnionCounted
    <3>3. {Cardinality(Admitted(d)), Cardinality(Logged(d) \cup Live(d)), Cardinality(Logged(d)),
           Cardinality(Live(d))} \subseteq Nat
      BY <1>6, Counted
    <3> QED
      BY <3>1, <3>2, <3>3
  <2>2. {Cardinality(Admitted(d)), Cardinality(Logged(d)), Cardinality(Live(d)), Limit} \subseteq Nat
    BY <1>6, Counted, CreditsAssumption
  <2>3. Below(Cardinality(Logged(d)) + Cardinality(Live(d)))
    BY <1>1, <1>8
  <2> QED
    BY <2>1, <2>2, <2>3 DEF Below
<1>9. ASSUME v = "admit", needs # 0 PROVE Price * (Cardinality(Spending(d)) + 1) <= bought
  <2> DEFINE debits == Cardinality(VisibleDebits(d))
             holds == Cardinality(Holding \ Abandoned(d))
  <2>1. debits \in Nat /\ holds \in Nat /\ Cardinality(Spending(d)) \in Nat /\ Price \in Nat
    BY <1>7, Counted, CreditsAssumption
  <2>2. Cardinality(Spending(d)) + 1 <= debits + holds + 1
    <3>1. Cardinality(Spending(d)) <= Cardinality(VisibleDebits(d) \cup (Holding \ Abandoned(d)))
      BY <1>7, Counted
    <3>2. Cardinality(VisibleDebits(d) \cup (Holding \ Abandoned(d))) <= debits + holds
      BY <1>7, UnionCounted
    <3>3. Cardinality(VisibleDebits(d) \cup (Holding \ Abandoned(d))) \in Nat
      BY <1>7, Counted
    <3> QED
      BY <2>1, <3>1, <3>2, <3>3
  <2>3. bought - expired - Price * debits - Price * holds >= Price
    BY <1>0, <1>1, <1>9, <2>1 DEF Available
  <2> HIDE DEF debits, holds
  <2>4. Price * (debits + holds + 1) = Price * debits + Price * holds + Price
    BY <2>1
  <2>5. Price * debits \in Nat /\ Price * holds \in Nat
    BY <2>1
  <2>6. Price * (debits + holds + 1) <= bought
    BY <1>0, <2>1, <2>3, <2>4, <2>5
  <2>7. debits + holds + 1 \in Nat /\ Cardinality(Spending(d)) + 1 \in Nat
    BY <2>1
  <2>8. /\ Price * (Cardinality(Spending(d)) + 1) <= Price * (debits + holds + 1)
        /\ Price * (debits + holds + 1) \in Nat
    BY <2>2, <2>7, Priced
  <2>9. Price * (Cardinality(Spending(d)) + 1) \in Nat
    BY <2>1
  <2> QED
    BY <1>0, <2>6, <2>8, <2>9
<1>10. Entering(b)' \subseteq Entering(b) \/ (b = d /\ v = "admit")
  BY <1>2, <1>3 DEF Entering, In
<1>11. Paying(b)' \subseteq Paying(b) \/ (b = d /\ v = "admit" /\ needs # 0)
  BY <1>2, <1>3 DEF Paying, Entering, In
<1> QED
  BY <1>0, <1>5, <1>8, <1>9, <1>10, <1>11

\* The end of a reservation: the room that was kept for it is used or free again.
LEMMA CommitStep ==
  ASSUME CreditsInv, NEW c \in Call, ReserveCommits(c) \/ ReserveFails(c), NEW b \in Bucket
  PROVE  /\ Entering(b)' \subseteq Entering(b) /\ Paying(b)' \subseteq Paying(b)
         /\ bought' = bought
         /\ \/ Admitted(b)' \subseteq Admitted(b)
            \/ /\ Entering(b) # {} /\ Entering(b)' = {}
               /\ Admitted(b)' \subseteq Admitted(b) \cup {c}
         /\ \/ Spending(b)' \subseteq Spending(b)
            \/ /\ Paying(b) # {} /\ Paying(b)' = {}
               /\ Spending(b)' \subseteq Spending(b) \cup {c}
<1> USE DEF CreditsInv
<1>0. /\ call \in [Call -> CallState] /\ hold \in [Call -> HoldState]
      /\ row' = row /\ bought' = bought /\ call[c].pc = "reserving"
  BY DEF CreditsTypeOK, ReserveCommits, ReserveFails
<1>1. \A e \in Call : e # c => call'[e] = call[e]
  BY <1>0 DEF ReserveCommits, ReserveFails
<1>2. call'[c].pc # "reserving" /\ call'[c].bucket = call[c].bucket /\ call'[c].needs = call[c].needs
  BY <1>0 DEF ReserveCommits, ReserveFails, CallState
<1>3. \A e \in Call :
        \/ hold'[e] = hold[e]
        \/ e \in call[c].sweep /\ hold'[e] = "swept" /\ hold[e] # "none"
        \/ e = c /\ hold'[e] = "pending" /\ call[c].verdict = "admit"
  BY <1>0 DEF ReserveCommits, ReserveFails, Reserved, SweepsEnded
<1>4. Entering(b)' \subseteq Entering(b) /\ Paying(b)' \subseteq Paying(b)
  BY <1>1, <1>2 DEF Entering, Paying, In
<1>5. ASSUME call[c].bucket # b \/ call[c].verdict # "admit"
      PROVE  Admitted(b)' \subseteq Admitted(b) /\ Spending(b)' \subseteq Spending(b)
  BY <1>0, <1>1, <1>2, <1>3, <1>5 DEF Admitted, Spending, In
<1>6. ASSUME call[c].bucket = b, call[c].verdict = "admit"
      PROVE  /\ Entering(b) # {} /\ Entering(b)' = {} /\ Paying(b)' = {}
             /\ Admitted(b)' \subseteq Admitted(b) \cup {c}
             /\ Spending(b)' \subseteq Spending(b) \cup {c}
             /\ Paying(b) = {} => Spending(b)' \subseteq Spending(b)
  <2>1. c \in Entering(b)
    BY <1>0, <1>6 DEF Entering, In
  <2>2. Entering(b)' = {}
    BY <1>0, <1>1, <1>2, <1>6 DEF Entering, In, OneReserves
  <2>3. Paying(b)' = {}
    BY <2>2 DEF Paying
  <2>4. Admitted(b)' \subseteq Admitted(b) \cup {c} /\ Spending(b)' \subseteq Spending(b) \cup {c}
    BY <1>0, <1>1, <1>3 DEF Admitted, Spending, In
  <2>5. ASSUME Paying(b) = {} PROVE c \notin Spending(b)'
    <3>1. call'[c].needs = 0
      BY <2>1, <2>5, <1>2 DEF Paying
    <3>2. row'[c] = "none"
      BY <1>0 DEF Sound, Fits
    <3> QED
      BY <3>1, <3>2 DEF Spending
  <2> QED
    BY <2>1, <2>2, <2>3, <2>4, <2>5
<1> QED
  BY <1>0, <1>4, <1>5, <1>6

LEMMA LimitStep ==
  ASSUME CreditsInv, LimitKept, CreditsNext
  PROVE  LimitKept'
<1> SUFFICES ASSUME Limit > 0, NEW b \in Bucket
             PROVE  /\ Cardinality(Admitted(b)') <= Limit
                    /\ Entering(b)' # {} => Cardinality(Admitted(b)') + 1 <= Limit
  BY DEF LimitKept
<1>1. /\ Cardinality(Admitted(b)) <= Limit
      /\ Entering(b) # {} => Cardinality(Admitted(b)) + 1 <= Limit
  BY DEF LimitKept
<1>2. Admitted(b) \subseteq Call /\ Admitted(b)' \subseteq Call
  BY DEF Admitted, In
<1>3. /\ Cardinality(Admitted(b)) \in Nat /\ Cardinality(Admitted(b)') \in Nat /\ Limit \in Nat
      /\ Admitted(b)' \subseteq Admitted(b) => Cardinality(Admitted(b)') <= Cardinality(Admitted(b))
  BY <1>2, Counted, CreditsAssumption
<1>4. ASSUME Admitted(b)' \subseteq Admitted(b), Entering(b)' \subseteq Entering(b)
      PROVE  /\ Cardinality(Admitted(b)') <= Limit
             /\ Entering(b)' # {} => Cardinality(Admitted(b)') + 1 <= Limit
  BY <1>1, <1>3, <1>4
<1>5. ASSUME NEW c \in Call, NEW d \in Bucket, NEW needs \in {0, Price}, Reserve(c, d, needs)
      PROVE  /\ Cardinality(Admitted(b)') <= Limit
             /\ Entering(b)' # {} => Cardinality(Admitted(b)') + 1 <= Limit
  <2>1. /\ Admitted(b)' \subseteq Admitted(b)
        /\ Entering(b)' # {} =>
             Entering(b) # {} \/ Limit = 0 \/ Cardinality(Admitted(b)) + 1 <= Limit
    BY <1>5, AdmissionStep
  <2> QED
    BY <1>1, <1>3, <2>1
<1>6. ASSUME NEW c \in Call, ReserveCommits(c) \/ ReserveFails(c)
      PROVE  /\ Cardinality(Admitted(b)') <= Limit
             /\ Entering(b)' # {} => Cardinality(Admitted(b)') + 1 <= Limit
  <2>1. CASE Admitted(b)' \subseteq Admitted(b)
    BY <1>4, <1>6, <2>1, CommitStep
  <2>2. CASE ~(Admitted(b)' \subseteq Admitted(b))
    <3>1. Entering(b) # {} /\ Entering(b)' = {} /\ Admitted(b)' \subseteq Admitted(b) \cup {c}
      BY <1>6, <2>2, CommitStep
    <3>2. /\ Admitted(b) \cup {c} \subseteq Call
          /\ Cardinality(Admitted(b) \cup {c}) <= Cardinality(Admitted(b)) + 1
      BY <1>2, Counted
    <3>3. /\ Cardinality(Admitted(b)') <= Cardinality(Admitted(b) \cup {c})
          /\ Cardinality(Admitted(b) \cup {c}) \in Nat
      BY <3>1, <3>2, Counted
    <3> QED
      BY <1>1, <1>3, <3>1, <3>2, <3>3
  <2> QED
    BY <2>1, <2>2
<1>7. CASE /\ \A c \in Call, d \in Bucket, needs \in {0, Price} : ~Reserve(c, d, needs)
           /\ \A c \in Call : ~ReserveCommits(c) /\ ~ReserveFails(c)
  BY <1>4, <1>7, QuietStep
<1> QED
  BY <1>5, <1>6, <1>7

LEMMA CreditsStep ==
  ASSUME CreditsInv, CreditsKept, CreditsNext
  PROVE  CreditsKept'
<1> SUFFICES ASSUME NEW b \in Bucket
             PROVE  /\ Price * Cardinality(Spending(b)') <= bought'
                    /\ Paying(b)' # {} => Price * (Cardinality(Spending(b)') + 1) <= bought'
  BY DEF CreditsKept
<1>1. /\ Price * Cardinality(Spending(b)) <= bought
      /\ Paying(b) # {} => Price * (Cardinality(Spending(b)) + 1) <= bought
  BY DEF CreditsKept
<1>2. Spending(b) \subseteq Call /\ Spending(b)' \subseteq Call
  BY DEF Spending, In
<1> DEFINE m == Cardinality(Spending(b))
           n == Cardinality(Spending(b)')
<1>3. m \in Nat /\ n \in Nat /\ bought \in Nat /\ bought' \in Nat
  BY <1>2, Counted, TypeStep DEF CreditsInv, CreditsTypeOK
<1>4. Spending(b)' \subseteq Spending(b) => n <= m
  BY <1>2, Counted
<1>5. ASSUME n <= m
      PROVE  /\ Price * n <= Price * m /\ Price * (n + 1) <= Price * (m + 1)
             /\ Price * m \in Nat /\ Price * (m + 1) \in Nat /\ Price * n \in Nat
             /\ Price * (n + 1) \in Nat
  <2> HIDE DEF m, n
  <2>1. n + 1 \in Nat /\ m + 1 \in Nat /\ n + 1 <= m + 1
    BY <1>3, <1>5
  <2> QED
    BY <1>3, <1>5, <2>1, Priced, CreditsAssumption
<1>6. ASSUME Spending(b)' \subseteq Spending(b), Paying(b)' \subseteq Paying(b), bought' >= bought
      PROVE  /\ Price * n <= bought'
             /\ Paying(b)' # {} => Price * (n + 1) <= bought'
  BY <1>1, <1>3, <1>4, <1>5, <1>6
<1>7. ASSUME NEW c \in Call, NEW d \in Bucket, NEW needs \in {0, Price}, Reserve(c, d, needs)
      PROVE  /\ Price * n <= bought'
             /\ Paying(b)' # {} => Price * (n + 1) <= bought'
  <2>1. /\ Spending(b)' \subseteq Spending(b) /\ bought' = bought
        /\ Paying(b)' # {} => Paying(b) # {} \/ Price * (m + 1) <= bought
    BY <1>7, AdmissionStep
  <2> QED
    BY <1>1, <1>3, <1>4, <1>5, <2>1
<1>8. ASSUME NEW c \in Call, ReserveCommits(c) \/ ReserveFails(c)
      PROVE  /\ Price * n <= bought'
             /\ Paying(b)' # {} => Price * (n + 1) <= bought'
  <2>0. bought' = bought /\ Paying(b)' \subseteq Paying(b)
    BY <1>8, CommitStep
  <2>1. CASE Spending(b)' \subseteq Spending(b)
    BY <1>3, <1>6, <2>0, <2>1
  <2>2. CASE ~(Spending(b)' \subseteq Spending(b))
    <3>1. Paying(b) # {} /\ Paying(b)' = {} /\ Spending(b)' \subseteq Spending(b) \cup {c}
      BY <1>8, <2>2, CommitStep
    <3>2. /\ Spending(b) \cup {c} \subseteq Call
          /\ Cardinality(Spending(b) \cup {c}) <= m + 1
      BY <1>2, Counted
    <3>3. n <= Cardinality(Spending(b) \cup {c}) /\ Cardinality(Spending(b) \cup {c}) \in Nat
      BY <3>1, <3>2, Counted
    <3>4. n <= m + 1 /\ m + 1 \in Nat
      BY <1>3, <3>2, <3>3
    <3> HIDE DEF m, n
    <3>5. Price * n <= Price * (m + 1) /\ Price * (m + 1) \in Nat /\ Price * n \in Nat
      BY <1>3, <3>4, Priced, CreditsAssumption
    <3>6. Price * (m + 1) <= bought
      BY <1>1, <3>1 DEF m
    <3> QED
      BY <1>3, <2>0, <3>1, <3>5, <3>6
  <2> QED
    BY <2>1, <2>2
<1>9. CASE /\ \A c \in Call, d \in Bucket, needs \in {0, Price} : ~Reserve(c, d, needs)
           /\ \A c \in Call : ~ReserveCommits(c) /\ ~ReserveFails(c)
  BY <1>6, <1>9, QuietStep
<1> QED
  BY <1>7, <1>8, <1>9

-----------------------------------------------------------------------------
(***************************************************************************)
(* The theorems.                                                           *)
(***************************************************************************)
LEMMA Start == CreditsInit => ChargedIfBilled /\ LimitKept /\ CreditsKept
<1> SUFFICES ASSUME CreditsInit PROVE ChargedIfBilled /\ LimitKept /\ CreditsKept
  OBVIOUS
<1>1. ChargedIfBilled
  BY DEF CreditsInit, ChargedIfBilled
<1>2. \A b \in Bucket : Admitted(b) = {} /\ Spending(b) = {} /\ Entering(b) = {} /\ Paying(b) = {}
  BY DEF CreditsInit, Admitted, Spending, Entering, Paying, In
<1>3. Cardinality({}) = 0
  BY FS_EmptySet
<1>4. ASSUME NEW b \in Bucket PROVE Cardinality(Admitted(b)) = 0 /\ Cardinality(Spending(b)) = 0
  BY <1>2, <1>3
<1>5. LimitKept
  BY <1>2, <1>4, CreditsAssumption DEF LimitKept
<1>6. Price * 0 <= bought
  BY CreditsAssumption DEF CreditsInit
<1>7. CreditsKept
  BY <1>2, <1>4, <1>6 DEF CreditsKept
<1> QED
  BY <1>1, <1>5, <1>7

\* A step that changes nothing keeps what the counts rest on.
LEMMA Stutter ==
  ASSUME UNCHANGED creditVars
  PROVE  /\ ChargedIfBilled => ChargedIfBilled'
         /\ LimitKept => LimitKept'
         /\ CreditsKept => CreditsKept'
  BY DEF creditVars, ChargedIfBilled, LimitKept, CreditsKept, Admitted, Spending, Entering,
         Paying, In

\* CreditsTypeOK holds (all of AiCredits).
THEOREM TypeCorrect == CreditsSpec => []CreditsTypeOK
  BY CreditsInvariant, PTL DEF CreditsInv

\* A call is charged only if it was billed, and never with its hold released,
\* whatever telemetry is lost (model_gateway.ts).
THEOREM Charged == CreditsSpec => []ChargedIfBilled
<1>1. CreditsInv /\ ChargedIfBilled /\ [CreditsNext]_creditVars => ChargedIfBilled'
  BY ChargeStep, Stutter
<1>2. CreditsInit => ChargedIfBilled
  BY Start
<1> QED
  BY <1>1, <1>2, CreditsInvariant, PTL DEF CreditsSpec

\* However many requests overlap, those that runReservation admits stay within
\* the limit of their bucket.
THEOREM LimitHolds == CreditsSpec => []WithinLimit
<1>1. CreditsInv /\ LimitKept /\ [CreditsNext]_creditVars => LimitKept'
  BY LimitStep, Stutter
<1>2. CreditsInit => LimitKept
  BY Start
<1>3. LimitKept => WithinLimit
  BY DEF LimitKept, WithinLimit
<1> QED
  BY <1>1, <1>2, <1>3, CreditsInvariant, PTL DEF CreditsSpec

\* A bucket never charges and holds more than was bought (runReservation).
THEOREM CreditsHold == CreditsSpec => []WithinCredits
<1>1. CreditsInv /\ CreditsKept /\ [CreditsNext]_creditVars => CreditsKept'
  BY CreditsStep, Stutter
<1>2. CreditsInit => CreditsKept
  BY Start
<1>3. CreditsKept => WithinCredits
  BY DEF CreditsKept, WithinCredits
<1> QED
  BY <1>1, <1>2, <1>3, CreditsInvariant, PTL DEF CreditsSpec
=============================================================================
