-------------------------- MODULE Approvals_proofs --------------------------
(***************************************************************************)
(* Proofs about Approvals, for any number of orders, passes, requests,     *)
(* transactions and users.                                                 *)
(*                                                                         *)
(* The invariant says of every open transaction what it relies on when it  *)
(* commits (Fits): the requests it decided are still pending, the passes   *)
(* it wrote too, the orders it wrote were asked for by someone else.  That *)
(* stays so because no two transactions decided the same request or wrote  *)
(* the same row (Apart).                                                   *)
(***************************************************************************)
EXTENDS Approvals, TLAPS

-----------------------------------------------------------------------------
(***************************************************************************)
(* The inductive invariant.                                                *)
(***************************************************************************)
\* The request being decided and its subject.
AtFits(x) ==
    /\ x.at \in x.claimed \ x.effects
    /\ x.on = request[x.at].subject

\* What a transaction decided.
DecidesFit(x) ==
    /\ x.effects \subseteq x.claimed
    /\ \A r \in x.claimed : request[r].status = "pending"
    /\ x.pc \notin {"deciding", "claimed", "writing", "failed"} => x.claimed = {} /\ x.wrote = {}
    /\ x.pc = "claimed" => AtFits(x)
    /\ \A r \in x.claimed :
         request[r].subject \in Pass =>
             r \in x.effects \/ (x.pc \in {"claimed", "failed"} /\ r = x.at)

\* What it wrote and is about to write.
WritesFit(x) ==
    /\ x.pc \in {"deciding", "claimed", "writing"} => x.actor \in User
    /\ x.pc = "writing" =>
         /\ x.on \in Order
         /\ order[x.on].status # "absent"
         /\ x.decision = "approved" => order[x.on].by # x.actor
         /\ x.at # None => AtFits(x)
    /\ \A o \in x.wrote \cap Order :
         x.decision = "approved" /\ order[o].status # "absent" /\ x.actor # order[o].by
    /\ \A p \in x.wrote \cap Pass :
         pass[p].status = "pending" /\ \E r \in x.effects : request[r].subject = p
    /\ \A r \in x.effects :
         \/ request[r].subject \in x.wrote
         \/ request[r].subject \in Order /\ order[request[r].subject].status # "draft"

\* What a goods receipt and a verification found.
UseFits(x) ==
    /\ x.pc \in {"receiving", "counted"} =>
         /\ x.on \in Order
         /\ order[x.on].status \notin {"absent", "draft"}
         /\ x.line \in Line
         /\ x.qty > 0
    /\ x.pc = "counted" =>
         /\ received[x.on][x.line] + x.qty <= Ordered
         /\ x.full => \A l \in Line :
              received[x.on][l] + (IF l = x.line THEN x.qty ELSE 0) = Ordered
    /\ x.pc = "verifying" => x.on \in Pass

Fits(x) == DecidesFit(x) /\ WritesFit(x) /\ UseFits(x)

Apart(x, y) ==
    /\ x.claimed \cap y.claimed = {}
    /\ x.wrote \cap y.wrote = {}
    /\ ~(x.pc = "counted" /\ y.pc = "counted" /\ x.on = y.on /\ x.line = y.line)

RequestKept(r) ==
    /\ request[r].status # "absent" => Exists(request[r].subject)
    /\ effect[r] # "none" => effect[r] = request[r].status
    /\ effect[r] # "none" /\ request[r].subject \in Order =>
         order[request[r].subject].status # "draft"

OrderKept(o) ==
    /\ order[o].status \notin {"absent", "draft"} => order[o].approver \in User
    /\ o \in commitment =>
         order[o].status \notin {"absent", "draft"} /\ order[o].approver # order[o].by
    /\ \A l \in Line :
         /\ received[o][l] <= Ordered
         /\ received[o][l] > 0 => order[o].status \notin {"absent", "draft"}
    /\ order[o].status = "received" => \A l \in Line : received[o][l] = Ordered

\* What holds of the rows, and of the transactions.
RowsKept ==
    /\ \A r \in Request : RequestKept(r)
    /\ DecidedOnce
    /\ \A o \in Order : OrderKept(o)
    /\ PassFollowsRequest
    /\ ReleasedOnce

TxnsFit ==
    /\ \A t \in Txn : Fits(txn[t])
    /\ \A t, u \in Txn : t # u => Apart(txn[t], txn[u])

ApprovalInv == ApprovalTypeOK /\ RowsKept /\ TxnsFit

-----------------------------------------------------------------------------
(***************************************************************************)
(* Steps that write a transaction and no row.                              *)
(***************************************************************************)
LEMMA TxnTyped ==
  ASSUME ApprovalInv, NEW t \in Txn
  PROVE  /\ txn[t] \in TxnRow /\ Fits(txn[t])
         /\ txn[t].claimed \subseteq Request /\ txn[t].effects \subseteq Request
         /\ txn[t].todo \subseteq Request /\ txn[t].wrote \subseteq Subject
         /\ txn[t].decision \in Decision /\ txn[t].actor \in User \cup {None}
         /\ txn[t].at \in Request \cup {None} /\ txn[t].on \in Subject \cup {None}
         /\ txn[t].line \in Line \cup {None} /\ txn[t].qty \in Nat /\ txn[t].full \in BOOLEAN
<1>1. txn[t] \in TxnRow /\ Fits(txn[t])
  BY DEF ApprovalInv, ApprovalTypeOK, TxnsFit
<1> QED
  BY <1>1 DEF TxnRow

\* What holds of the rows still holds when no row is written.
LEMMA RowsStay ==
  ASSUME ApprovalInv, UNCHANGED rows
  PROVE  RowsKept'
<1>1. UNCHANGED <<request, decisions, effect, order, received, commitment, pass, released>>
  BY DEF rows, requestRows, orderRows, passRows
<1>2. RowsKept
  BY DEF ApprovalInv
<1> QED
  BY <1>1, <1>2 DEF RowsKept, RequestKept, Exists, DecidedOnce, OrderKept,
                    PassFollowsRequest, ReleasedOnce

LEMMA OwnStep ==
  ASSUME ApprovalInv, NEW t \in Txn, NEW e \in TxnRow, UNCHANGED rows,
         txn' = [txn EXCEPT ![t] = e], Fits(e),
         \A u \in Txn \ {t} : Apart(e, txn[u])
  PROVE  ApprovalInv'
<1>1. UNCHANGED <<request, decisions, effect, order, received, commitment, pass, released>>
  BY DEF rows, requestRows, orderRows, passRows
<1>2. txn \in [Txn -> TxnRow]
  BY DEF ApprovalInv, ApprovalTypeOK
<1>3. txn'[t] = e /\ \A u \in Txn \ {t} : txn'[u] = txn[u]
  BY <1>2
<1>4. ApprovalTypeOK'
  BY <1>1, <1>2 DEF ApprovalInv, ApprovalTypeOK
<1>5. ASSUME NEW u \in Txn
      PROVE  Fits(txn[u])'
  <2>1. Fits(txn'[u])
    BY <1>3 DEF ApprovalInv, TxnsFit
  <2>2. DecidesFit(txn[u])'
    BY <1>1, <2>1 DEF Fits, DecidesFit, AtFits
  <2>3. WritesFit(txn[u])'
    BY <1>1, <2>1 DEF Fits, WritesFit, AtFits
  <2>4. UseFits(txn[u])'
    BY <1>1, <2>1 DEF Fits, UseFits
  <2> QED
    BY <2>2, <2>3, <2>4 DEF Fits
<1>6. ASSUME NEW u \in Txn, NEW v \in Txn, u # v
      PROVE  Apart(txn[u], txn[v])'
  <2>1. Apart(txn'[u], txn'[v])
    <3>1. CASE u = t
      BY <1>3, <1>6, <3>1
    <3>2. CASE v = t
      BY <1>3, <1>6, <3>2 DEF Apart
    <3>3. CASE u # t /\ v # t
      BY <1>3, <1>6, <3>3 DEF ApprovalInv, TxnsFit
    <3> QED
      BY <3>1, <3>2, <3>3
  <2> QED
    BY <2>1 DEF Apart
<1> QED
  BY <1>4, <1>5, <1>6, RowsStay DEF ApprovalInv, TxnsFit

\* A transaction that holds nothing fits and is apart from every other.
LEMMA FreshFits ==
  ASSUME NEW e \in TxnRow, e.claimed = {}, e.effects = {}, e.wrote = {},
         e.pc \in {"idle", "deciding"}, e.pc = "deciding" => e.actor \in User
  PROVE  Fits(e)
  BY DEF Fits, DecidesFit, WritesFit, UseFits

LEMMA FreshApart ==
  ASSUME NEW e, e.claimed = {}, e.wrote = {}, e.pc # "counted", NEW x
  PROVE  Apart(e, x) /\ Apart(x, e)
  BY DEF Apart

LEMMA IdleTyped ==
  /\ Idle \in TxnRow /\ Idle.pc = "idle" /\ Idle.claimed = {} /\ Idle.effects = {}
  /\ Idle.wrote = {}
  BY DEF Idle, TxnRow, Decision

\* A transaction that wrote no more subjects and claimed no more requests than
\* before, and counted no line, is as apart as it was.
LEMMA StaysApart ==
  ASSUME ApprovalInv, NEW t \in Txn, NEW e, e.claimed \subseteq txn[t].claimed,
         e.wrote \subseteq txn[t].wrote, e.pc # "counted"
  PROVE  \A u \in Txn \ {t} : Apart(e, txn[u])
  BY DEF ApprovalInv, TxnsFit, Apart

LEMMA CloseStep ==
  ASSUME ApprovalInv, NEW t \in Txn, Close(t), UNCHANGED rows
  PROVE  ApprovalInv'
  BY IdleTyped, FreshFits, FreshApart, OwnStep DEF Close, Goto

LEMMA BeginStep ==
  ASSUME ApprovalInv, NEW t \in Txn, NEW u \in User, NEW d \in Decision,
         NEW ids \in SUBSET Request, Begin(t, u, d, ids)
  PROVE  ApprovalInv'
<1> DEFINE e == [Idle EXCEPT !.pc = "deciding", !.actor = u, !.decision = d, !.todo = ids]
<1>1. /\ e \in TxnRow /\ e.claimed = {} /\ e.effects = {} /\ e.wrote = {}
      /\ e.pc = "deciding" /\ e.actor = u
  BY DEF Idle, TxnRow
<1>2. txn' = [txn EXCEPT ![t] = e] /\ UNCHANGED rows
  BY DEF Begin, Goto
<1> HIDE DEF e
<1> QED
  BY <1>1, <1>2, FreshFits, FreshApart, OwnStep

LEMMA SkipStep ==
  ASSUME ApprovalInv, NEW t \in Txn, NEW r \in Request, Skip(t, r)
  PROVE  ApprovalInv'
<1> DEFINE e == [txn[t] EXCEPT !.todo = @ \ {r}]
<1>1. txn[t] \in TxnRow /\ txn[t].todo \subseteq Request /\ Fits(txn[t])
  BY TxnTyped
<1>2. /\ e \in TxnRow /\ e.pc = txn[t].pc /\ e.claimed = txn[t].claimed
      /\ e.effects = txn[t].effects /\ e.wrote = txn[t].wrote /\ e.at = txn[t].at
      /\ e.on = txn[t].on /\ e.actor = txn[t].actor /\ e.decision = txn[t].decision
  BY <1>1 DEF TxnRow
<1>3. /\ txn' = [txn EXCEPT ![t] = e] /\ UNCHANGED rows /\ txn[t].pc = "deciding"
  BY DEF Skip
<1> HIDE DEF e
<1>4. Fits(e)
  BY <1>1, <1>2, <1>3 DEF Fits, DecidesFit, WritesFit, UseFits, AtFits
<1>5. \A u \in Txn \ {t} : Apart(e, txn[u])
  BY <1>2, <1>3, StaysApart
<1> QED
  BY <1>2, <1>3, <1>4, <1>5, OwnStep

LEMMA ClaimStep ==
  ASSUME ApprovalInv, NEW t \in Txn, NEW r \in Request, Claim(t, r)
  PROVE  ApprovalInv'
<1> DEFINE x == txn[t]
           e == [x EXCEPT !.pc = "claimed", !.todo = @ \ {r}, !.at = r,
                          !.on = request[r].subject, !.claimed = @ \cup {r}]
<1>1. /\ x \in TxnRow /\ x.todo \subseteq Request /\ x.claimed \subseteq Request /\ Fits(x)
      /\ x.effects \subseteq Request
  BY TxnTyped
<1>2. /\ txn' = [txn EXCEPT ![t] = e] /\ UNCHANGED rows /\ x.pc = "deciding"
      /\ request[r].status = "pending" /\ ~RequestHeld(r)
  BY DEF Claim, Goto
<1>3. request[r].subject \in Subject \cup {None}
  BY DEF ApprovalInv, ApprovalTypeOK, RequestRow
<1>4. /\ e \in TxnRow /\ e.pc = "claimed" /\ e.claimed = x.claimed \cup {r}
      /\ e.effects = x.effects /\ e.wrote = x.wrote /\ e.at = r
      /\ e.on = request[r].subject /\ e.actor = x.actor /\ e.decision = x.decision
  BY <1>1, <1>3 DEF TxnRow
<1> HIDE DEF e, x
<1>5. \A u \in Txn : r \notin txn[u].claimed
  BY <1>2 DEF RequestHeld
<1>6. r \notin x.claimed /\ r \notin x.effects
  BY <1>1, <1>5 DEF x, Fits, DecidesFit
<1>7. Fits(e)
  <2>1. DecidesFit(e)
    BY <1>1, <1>2, <1>4, <1>6 DEF Fits, DecidesFit, AtFits
  <2>2. WritesFit(e)
    BY <1>1, <1>2, <1>4 DEF Fits, WritesFit
  <2>3. UseFits(e)
    BY <1>4 DEF UseFits
  <2> QED
    BY <2>1, <2>2, <2>3 DEF Fits
<1>8. \A u \in Txn \ {t} : Apart(e, txn[u])
  BY <1>4, <1>5 DEF ApprovalInv, TxnsFit, Apart, x
<1> QED
  BY <1>2, <1>4, <1>7, <1>8, OwnStep

\* A decision that ends, with or without the effect of the request recorded.
Ended(x, recorded, written) ==
    [x EXCEPT !.pc = "deciding", !.at = None, !.on = None,
              !.effects = @ \cup recorded, !.wrote = @ \cup written]

\* What the proofs need of such a row.
IsEnded(e, x, recorded, written) ==
  /\ e \in TxnRow
  /\ e.pc = "deciding" /\ e.effects = x.effects \cup recorded
  /\ e.wrote = x.wrote \cup written /\ e.claimed = x.claimed
  /\ e.actor = x.actor /\ e.decision = x.decision

LEMMA EndedTyped ==
  ASSUME NEW x \in TxnRow, NEW recorded \in SUBSET Request, NEW written \in SUBSET Subject
  PROVE  IsEnded(Ended(x, recorded, written), x, recorded, written)
<1>1. x.effects \subseteq Request /\ x.wrote \subseteq Subject
  BY DEF TxnRow
<1> QED
  BY <1>1 DEF IsEnded, Ended, TxnRow

\* A claimed order whose row is left as it is.
LEMMA LeftStep ==
  ASSUME ApprovalInv, NEW t \in Txn, txn[t].pc = "claimed", txn[t].on \in Order,
         NEW recorded, recorded \in {{}, {txn[t].at}},
         recorded # {} => order[txn[t].on].status # "draft",
         Decided(t, recorded, {}), UNCHANGED rows
  PROVE  ApprovalInv'
<1> DEFINE x == txn[t]
<1>1. Fits(x) /\ x.claimed \subseteq Request
  BY TxnTyped
<1>2. x.at \in x.claimed \ x.effects /\ x.on = request[x.at].subject
  BY <1>1 DEF Fits, DecidesFit, AtFits
<1>3. recorded \in SUBSET Request /\ {} \in SUBSET Subject
  BY <1>1, <1>2
<1> DEFINE e == Ended(x, recorded, {})
<1>4. /\ e \in TxnRow
      /\ e.pc = "deciding" /\ e.effects = x.effects \cup recorded
      /\ e.wrote = x.wrote \cup {} /\ e.claimed = x.claimed
      /\ e.actor = x.actor /\ e.decision = x.decision
  <2>1. x \in TxnRow
    BY TxnTyped
  <2> HIDE DEF x
  <2>2. IsEnded(e, x, recorded, {})
    BY <2>1, <1>3, EndedTyped
  <2> HIDE DEF e
  <2> QED
    BY <2>2 DEF IsEnded
<1>4a. txn' = [txn EXCEPT ![t] = e]
  BY DEF Decided, Goto, Ended
<1> HIDE DEF e
<1> HIDE DEF x
<1>5. Fits(e)
  <2>1. request[x.at].subject \in Order /\ request[x.at].subject \notin Pass
    BY <1>2, ApprovalAssumption DEF x
  <2>2. DecidesFit(e)
    BY <1>1, <1>2, <1>4, <2>1 DEF Fits, DecidesFit, x
  <2>3. WritesFit(e)
    BY <1>1, <1>2, <1>4, <2>1 DEF Fits, WritesFit, x
  <2>4. UseFits(e)
    BY <1>4 DEF UseFits
  <2> QED
    BY <2>2, <2>3, <2>4 DEF Fits
<1>6. \A u \in Txn \ {t} : Apart(e, txn[u])
  BY <1>4, StaysApart DEF x
<1> QED
  BY <1>4, <1>4a, <1>5, <1>6, OwnStep

LEMMA OrderLeftStep ==
  ASSUME ApprovalInv, NEW t \in Txn, OrderLeft(t)
  PROVE  ApprovalInv'
<1>1. /\ txn[t].pc = "claimed" /\ txn[t].on \in Order /\ order[txn[t].on].status # "draft"
      /\ Decided(t, {txn[t].at}, {}) /\ UNCHANGED rows
  BY DEF OrderLeft
<1> QED
  BY <1>1, LeftStep

LEMMA OrderRefusedStep ==
  ASSUME ApprovalInv, NEW t \in Txn, OrderRefused(t)
  PROVE  ApprovalInv'
<1>1. /\ txn[t].pc = "claimed" /\ txn[t].on \in Order
      /\ Decided(t, {}, {}) /\ UNCHANGED rows
  BY DEF OrderRefused
<1> QED
  BY <1>1, LeftStep

LEMMA OrderSeenStep ==
  ASSUME ApprovalInv, NEW t \in Txn, OrderSeen(t)
  PROVE  ApprovalInv'
<1> DEFINE x == txn[t]
           e == [x EXCEPT !.pc = "writing"]
<1>1. x \in TxnRow /\ Fits(x) /\ x.claimed \subseteq Request
  BY TxnTyped
<1>2. /\ txn' = [txn EXCEPT ![t] = e] /\ UNCHANGED rows /\ x.pc = "claimed"
      /\ x.on \in Order /\ order[x.on].status = "draft"
      /\ x.decision = "approved" => order[x.on].by # x.actor
  BY DEF OrderSeen, Goto
<1>3. /\ e \in TxnRow /\ e.pc = "writing" /\ e.claimed = x.claimed
      /\ e.effects = x.effects /\ e.wrote = x.wrote /\ e.at = x.at
      /\ e.on = x.on /\ e.actor = x.actor /\ e.decision = x.decision
  BY <1>1 DEF TxnRow
<1> HIDE DEF e, x
<1>4. Fits(e)
  <2>1. x.at \in x.claimed \ x.effects /\ x.on = request[x.at].subject /\ x.on \notin Pass
    BY <1>1, <1>2, ApprovalAssumption DEF Fits, DecidesFit, AtFits
  <2>2. DecidesFit(e)
    BY <1>1, <1>2, <1>3, <2>1 DEF Fits, DecidesFit
  <2>3. WritesFit(e)
    BY <1>1, <1>2, <1>3, <2>1 DEF Fits, WritesFit, AtFits
  <2>4. UseFits(e)
    BY <1>3 DEF UseFits
  <2> QED
    BY <2>2, <2>3, <2>4 DEF Fits
<1>5. \A u \in Txn \ {t} : Apart(e, txn[u])
  BY <1>3, StaysApart DEF x
<1> QED
  BY <1>2, <1>3, <1>4, <1>5, OwnStep

LEMMA DirectBeginsStep ==
  ASSUME ApprovalInv, NEW t \in Txn, NEW u \in User, NEW o \in Order, DirectBegins(t, u, o)
  PROVE  ApprovalInv'
<1> DEFINE e == [Idle EXCEPT !.pc = "writing", !.actor = u, !.on = o]
<1>1. /\ e \in TxnRow /\ e.claimed = {} /\ e.effects = {} /\ e.wrote = {}
      /\ e.pc = "writing" /\ e.actor = u /\ e.on = o /\ e.at = None
  BY DEF Idle, TxnRow, Subject, Decision
<1>2. /\ txn' = [txn EXCEPT ![t] = e] /\ UNCHANGED rows
      /\ order[o].status = "draft" /\ order[o].by # u
  BY DEF DirectBegins, Goto
<1> HIDE DEF e
<1>3. Fits(e)
  BY <1>1, <1>2 DEF Fits, DecidesFit, WritesFit, UseFits
<1> QED
  BY <1>1, <1>2, <1>3, FreshApart, OwnStep

\* A decision that writes its subject, which nobody else has written.
LEMMA WrittenStep ==
  ASSUME ApprovalInv, NEW t \in Txn, txn[t].on \in Subject, ~Held(txn[t].on),
         NEW recorded, recorded \in SUBSET Request, NEW e \in TxnRow,
         txn' = [txn EXCEPT ![t] = e], e.pc = "deciding",
         e.wrote = txn[t].wrote \cup {txn[t].on}, e.claimed = txn[t].claimed,
         Fits(e), UNCHANGED rows
  PROVE  ApprovalInv'
<1>1. \A u \in Txn : txn[t].on \notin txn[u].wrote
  BY DEF Held
<1>2. \A u \in Txn \ {t} : Apart(e, txn[u])
  BY <1>1 DEF ApprovalInv, TxnsFit, Apart
<1> QED
  BY <1>2, OwnStep

LEMMA OrderApprovedStep ==
  ASSUME ApprovalInv, NEW t \in Txn, OrderApproved(t)
  PROVE  ApprovalInv'
<1> DEFINE x == txn[t]
           recorded == {x.at} \ {None}
<1>1. Fits(x) /\ x.claimed \subseteq Request /\ x.at \in Request \cup {None}
  BY TxnTyped
<1>2. /\ x.pc = "writing" /\ x.decision = "approved" /\ ~Held(x.on) /\ UNCHANGED rows
      /\ Decided(t, recorded, {x.on})
  BY DEF OrderApproved
<1>3. /\ x.on \in Order /\ order[x.on].status # "absent" /\ order[x.on].by # x.actor
      /\ x.actor \in User
      /\ x.at # None => x.at \in x.claimed \ x.effects /\ x.on = request[x.at].subject
  BY <1>1, <1>2 DEF Fits, WritesFit, AtFits
<1>4. recorded \in SUBSET Request /\ {x.on} \in SUBSET Subject
  BY <1>1, <1>3 DEF Subject
<1> DEFINE e == Ended(x, recorded, {x.on})
<1>5. /\ e \in TxnRow
      /\ e.pc = "deciding" /\ e.effects = x.effects \cup recorded
      /\ e.wrote = x.wrote \cup {x.on} /\ e.claimed = x.claimed
      /\ e.actor = x.actor /\ e.decision = x.decision
  <2>1. x \in TxnRow
    BY TxnTyped
  <2> HIDE DEF x
  <2>2. IsEnded(e, x, recorded, {x.on})
    BY <2>1, <1>4, EndedTyped
  <2> HIDE DEF e
  <2> QED
    BY <2>2 DEF IsEnded
<1>5a. txn' = [txn EXCEPT ![t] = e]
  BY <1>2 DEF Decided, Goto, Ended
<1> HIDE DEF e
<1>6. Fits(e)
  <2>1. x.on \notin Pass
    BY <1>3, ApprovalAssumption
  <2>2. recorded \subseteq x.claimed /\ \A r \in recorded : request[r].subject = x.on
    BY <1>3
  <2> HIDE DEF x, recorded
  <2>3. DecidesFit(e)
    BY <1>1, <1>2, <1>5, <2>2 DEF Fits, DecidesFit
  <2>4. WritesFit(e)
    BY <1>1, <1>2, <1>3, <1>5, <2>1, <2>2 DEF Fits, WritesFit
  <2>5. UseFits(e)
    BY <1>5 DEF UseFits
  <2> QED
    BY <2>3, <2>4, <2>5 DEF Fits
<1> QED
  BY <1>2, <1>3, <1>4, <1>5, <1>5a, <1>6, WrittenStep DEF Subject

LEMMA PassDecidedStep ==
  ASSUME ApprovalInv, NEW t \in Txn, PassDecided(t)
  PROVE  ApprovalInv'
<1> DEFINE x == txn[t]
<1>1. Fits(x) /\ x.claimed \subseteq Request
  BY TxnTyped
<1>2. /\ x.pc = "claimed" /\ x.on \in Pass /\ ~Held(x.on) /\ pass[x.on].status = "pending"
      /\ UNCHANGED rows /\ Decided(t, {x.at}, {x.on})
  BY DEF PassDecided
<1>3. x.at \in x.claimed \ x.effects /\ x.on = request[x.at].subject /\ x.actor \in User
  BY <1>1, <1>2 DEF Fits, DecidesFit, WritesFit, AtFits
<1>4. {x.at} \in SUBSET Request /\ {x.on} \in SUBSET Subject /\ x.on \notin Order
  BY <1>1, <1>2, <1>3, ApprovalAssumption DEF Subject
<1> DEFINE e == Ended(x, {x.at}, {x.on})
<1>5. /\ e \in TxnRow
      /\ e.pc = "deciding" /\ e.effects = x.effects \cup {x.at}
      /\ e.wrote = x.wrote \cup {x.on} /\ e.claimed = x.claimed
      /\ e.actor = x.actor /\ e.decision = x.decision
  <2>1. x \in TxnRow
    BY TxnTyped
  <2> HIDE DEF x
  <2>2. IsEnded(e, x, {x.at}, {x.on})
    BY <2>1, <1>4, EndedTyped
  <2> HIDE DEF e
  <2> QED
    BY <2>2 DEF IsEnded
<1>5a. txn' = [txn EXCEPT ![t] = e]
  BY <1>2 DEF Decided, Goto, Ended
<1> HIDE DEF e
<1>6. Fits(e)
  <2> HIDE DEF x
  <2>1. DecidesFit(e)
    BY <1>1, <1>2, <1>3, <1>5 DEF Fits, DecidesFit
  <2>2. WritesFit(e)
    BY <1>1, <1>2, <1>3, <1>4, <1>5 DEF Fits, WritesFit
  <2>3. UseFits(e)
    BY <1>5 DEF UseFits
  <2> QED
    BY <2>1, <2>2, <2>3 DEF Fits
<1> QED
  BY <1>2, <1>4, <1>5, <1>5a, <1>6, WrittenStep DEF Subject

\* A transaction that fails keeps what it wrote until it is rolled back.
LEMMA FailsStep ==
  ASSUME ApprovalInv, NEW t \in Txn, txn[t].pc \in {"claimed", "writing"}, Fails(t),
         UNCHANGED rows
  PROVE  ApprovalInv'
<1> DEFINE x == txn[t]
           e == [x EXCEPT !.pc = "failed"]
<1>1. x \in TxnRow /\ Fits(x)
  BY TxnTyped
<1>2. txn' = [txn EXCEPT ![t] = e]
  BY DEF Fails
<1>3. /\ e \in TxnRow /\ e.pc = "failed" /\ e.claimed = x.claimed
      /\ e.effects = x.effects /\ e.wrote = x.wrote /\ e.at = x.at
      /\ e.on = x.on /\ e.actor = x.actor /\ e.decision = x.decision
  BY <1>1 DEF TxnRow
<1> HIDE DEF e
<1>4. \A u \in Txn \ {t} : Apart(e, txn[u])
  BY <1>3, StaysApart
<1>5. Fits(e)
  <2> HIDE DEF x
  <2>1. DecidesFit(e)
    BY <1>1, <1>3 DEF Fits, DecidesFit, x
  <2>2. WritesFit(e)
    BY <1>1, <1>3 DEF Fits, WritesFit
  <2>3. UseFits(e)
    BY <1>3 DEF UseFits
  <2> QED
    BY <2>1, <2>2, <2>3 DEF Fits
<1> QED
  BY <1>2, <1>3, <1>4, <1>5, OwnStep

LEMMA ReceiveBeginsStep ==
  ASSUME ApprovalInv, NEW t \in Txn, NEW o \in Order, NEW l \in Line, NEW n \in 1..Ordered,
         ReceiveBegins(t, o, l, n)
  PROVE  ApprovalInv'
<1> DEFINE e == [Idle EXCEPT !.pc = "receiving", !.on = o, !.line = l, !.qty = n]
<1>1. n \in Nat /\ n > 0
  BY ApprovalAssumption
<1>2. /\ e \in TxnRow /\ e.claimed = {} /\ e.effects = {} /\ e.wrote = {}
      /\ e.pc = "receiving" /\ e.on = o /\ e.line = l /\ e.qty = n
  BY <1>1 DEF Idle, TxnRow, Subject, Decision
<1>3. /\ txn' = [txn EXCEPT ![t] = e] /\ UNCHANGED rows
      /\ order[o].status \notin {"absent", "draft"}
  BY DEF ReceiveBegins, Goto
<1> HIDE DEF e
<1>4. Fits(e)
  BY <1>1, <1>2, <1>3 DEF Fits, DecidesFit, WritesFit, UseFits
<1> QED
  BY <1>2, <1>3, <1>4, FreshApart, OwnStep

LEMMA ReceiveTakesStep ==
  ASSUME ApprovalInv, NEW t \in Txn, ReceiveTakes(t)
  PROVE  ApprovalInv'
<1> DEFINE x == txn[t]
           full == \A l \in Line :
                     received[x.on][l] + (IF l = x.line THEN x.qty ELSE 0) = Ordered
           e == [x EXCEPT !.pc = "counted", !.full = full]
<1>1. x \in TxnRow /\ Fits(x)
  BY TxnTyped
<1>2. /\ txn' = [txn EXCEPT ![t] = e] /\ UNCHANGED rows /\ x.pc = "receiving"
      /\ ~LineHeld(x.on, x.line) /\ received[x.on][x.line] + x.qty <= Ordered
  BY DEF ReceiveTakes, Goto
<1>3. full \in BOOLEAN
  OBVIOUS
<1> HIDE DEF full
<1>4. /\ e \in TxnRow /\ e.pc = "counted" /\ e.claimed = x.claimed
      /\ e.effects = x.effects /\ e.wrote = x.wrote /\ e.on = x.on /\ e.line = x.line
      /\ e.qty = x.qty /\ e.full = full
  BY <1>1, <1>3 DEF TxnRow
<1>5. x.claimed = {} /\ x.effects = {} /\ x.wrote = {}
  BY <1>1, <1>2 DEF Fits, DecidesFit
<1> HIDE DEF e
<1>6. Fits(e)
  <2>1. DecidesFit(e) /\ WritesFit(e)
    BY <1>4, <1>5 DEF DecidesFit, WritesFit
  <2>2. UseFits(e)
    BY <1>1, <1>2, <1>4 DEF Fits, UseFits, full
  <2> QED
    BY <2>1, <2>2 DEF Fits
<1>7. \A u \in Txn \ {t} : Apart(e, txn[u])
  BY <1>2, <1>4, <1>5 DEF Apart, LineHeld
<1> QED
  BY <1>2, <1>4, <1>6, <1>7, OwnStep

LEMMA VerifyReadsStep ==
  ASSUME ApprovalInv, NEW t \in Txn, NEW p \in Pass, VerifyReads(t, p)
  PROVE  ApprovalInv'
<1> DEFINE e == [Idle EXCEPT !.pc = "verifying", !.on = p]
<1>1. /\ e \in TxnRow /\ e.claimed = {} /\ e.effects = {} /\ e.wrote = {}
      /\ e.pc = "verifying" /\ e.on = p
  BY DEF Idle, TxnRow, Subject, Decision
<1>2. txn' = [txn EXCEPT ![t] = e] /\ UNCHANGED rows
  BY DEF VerifyReads, Goto
<1> HIDE DEF e
<1>3. Fits(e)
  BY <1>1 DEF Fits, DecidesFit, WritesFit, UseFits
<1> QED
  BY <1>1, <1>2, <1>3, FreshApart, OwnStep

-----------------------------------------------------------------------------
(***************************************************************************)
(* Steps that write rows.                                                  *)
(***************************************************************************)
LEMMA RowTypes ==
  ASSUME ApprovalTypeOK
  PROVE  /\ \A r \in Request :
              /\ request[r] \in RequestRow
              /\ request[r].subject \in Subject \cup {None}
              /\ request[r].status \in {"absent", "pending", "cancelled"} \cup Decision
              /\ effect[r] \in {"none"} \cup Decision /\ decisions[r] \in Nat
         /\ \A o \in Order :
              /\ order[o] \in OrderRow /\ order[o].status \in OrderStatus
              /\ \A l \in Line : received[o][l] \in Nat
         /\ \A p \in Pass :
              pass[p] \in PassRow /\ pass[p].status \in PassStatus /\ released[p] \in Nat
  BY DEF ApprovalTypeOK, RequestRow, OrderRow, PassRow

\* What an open transaction relies on survives a step that leaves the requests
\* it decided, the passes it wrote and the line it locked alone, and takes no
\* order back to a draft.
LEMMA OthersFit ==
  ASSUME ApprovalInv, NEW u \in Txn, txn'[u] = txn[u],
         \A r \in txn[u].claimed : request'[r] = request[r],
         \A o \in Order :
           /\ order[o].status # "absent" =>
                order'[o].status # "absent" /\ order'[o].by = order[o].by
           /\ order[o].status \notin {"absent", "draft"} =>
                order'[o].status \notin {"absent", "draft"}
           /\ order'[o].status = "draft" => order[o].status \in {"absent", "draft"},
         \A r \in txn[u].effects :
           request[r].subject \in Order => order[request[r].subject].status # "absent",
         \A p \in Pass : p \in txn[u].wrote => pass'[p].status = pass[p].status,
         txn[u].pc = "counted" =>
           /\ received'[txn[u].on][txn[u].line] = received[txn[u].on][txn[u].line]
           /\ txn[u].full =>
                \A l \in Line : received'[txn[u].on][l] = received[txn[u].on][l]
  PROVE  Fits(txn[u])'
<1>1. Fits(txn[u]) /\ txn[u].claimed \subseteq Request /\ txn[u].effects \subseteq Request
  BY TxnTyped
<1>2. DecidesFit(txn[u])'
  BY <1>1 DEF Fits, DecidesFit, AtFits
<1>3. WritesFit(txn[u])'
  <2>1. txn[u].effects \subseteq txn[u].claimed
    BY <1>1 DEF Fits, DecidesFit
  <2> QED
    BY <1>1, <2>1 DEF Fits, WritesFit, AtFits
<1>4. UseFits(txn[u])'
  BY <1>1 DEF Fits, UseFits
<1> QED
  BY <1>2, <1>3, <1>4 DEF Fits

LEMMA ClosedFits ==
  ASSUME NEW t \in Txn, txn'[t] = Idle
  PROVE  Fits(txn[t])'
  BY IdleTyped DEF Fits, DecidesFit, WritesFit, UseFits

\* The subjects of decided requests exist.
LEMMA EffectExists ==
  ASSUME ApprovalInv, NEW u \in Txn, NEW r \in txn[u].claimed
  PROVE  /\ r \in Request /\ request[r].status = "pending" /\ effect[r] = "none"
         /\ Exists(request[r].subject) /\ request[r].subject \in Subject
         /\ request[r].subject \in Order => order[request[r].subject].status # "absent"
         /\ request[r].subject \in Pass => pass[request[r].subject].status # "absent"
<1>1. r \in Request /\ request[r].status = "pending"
  BY TxnTyped DEF Fits, DecidesFit
<1>2. effect[r] \in {"none"} \cup Decision
  BY <1>1, RowTypes DEF ApprovalInv
<1> QED
  BY <1>1, <1>2, ApprovalAssumption
     DEF ApprovalInv, RowsKept, RequestKept, Exists, Subject, Decision

\* Steps that write no transaction.
LEMMA TxnsStay ==
  ASSUME ApprovalInv, UNCHANGED txn, \A u \in Txn : Fits(txn[u])'
  PROVE  TxnsFit'
  BY DEF ApprovalInv, TxnsFit, Apart

\* Steps that close one.
LEMMA TxnCloses ==
  ASSUME ApprovalInv, NEW t \in Txn, Close(t), \A u \in Txn \ {t} : Fits(txn[u])'
  PROVE  TxnsFit' /\ txn' \in [Txn -> TxnRow]
<1>1. txn \in [Txn -> TxnRow] /\ txn' = [txn EXCEPT ![t] = Idle]
  BY DEF ApprovalInv, ApprovalTypeOK, Close, Goto
<1>2. txn'[t] = Idle /\ \A u \in Txn \ {t} : txn'[u] = txn[u]
  BY <1>1
<1>3. Fits(txn[t])'
  BY <1>2, ClosedFits
<1>4. ASSUME NEW u \in Txn, NEW v \in Txn, u # v
      PROVE  Apart(txn[u], txn[v])'
  <2>1. Apart(txn'[u], txn'[v])
    <3>1. CASE u = t \/ v = t
      BY <1>2, <3>1, IdleTyped, FreshApart
    <3>2. CASE u # t /\ v # t
      BY <1>2, <1>4, <3>2 DEF ApprovalInv, TxnsFit
    <3> QED
      BY <3>1, <3>2
  <2> QED
    BY <2>1 DEF Apart
<1>5. txn' \in [Txn -> TxnRow]
  BY <1>1, IdleTyped
<1> QED
  BY <1>3, <1>4, <1>5 DEF TxnsFit

LEMMA CreateOrderStep ==
  ASSUME ApprovalInv, NEW u \in User, NEW o \in Order, CreateOrder(u, o)
  PROVE  ApprovalInv'
<1> DEFINE new == [status |-> "draft", by |-> u, approver |-> None]
<1>1. /\ order[o].status = "absent" /\ order' = [order EXCEPT ![o] = new]
      /\ UNCHANGED <<request, decisions, effect, received, commitment, pass, released, txn>>
  BY DEF CreateOrder, requestRows, passRows
<1>2. new \in OrderRow /\ new.status = "draft" /\ new.by = u
  BY DEF OrderRow, OrderStatus
<1> HIDE DEF new
<1>3. /\ order \in [Order -> OrderRow]
      /\ order' \in [Order -> OrderRow] /\ order'[o] = new
      /\ \A q \in Order \ {o} : order'[q] = order[q]
  BY <1>1, <1>2 DEF ApprovalInv, ApprovalTypeOK
<1>4. ApprovalTypeOK'
  BY <1>1, <1>3 DEF ApprovalInv, ApprovalTypeOK
<1>5. \A v \in Txn : Fits(txn[v])'
  <2>1. ASSUME NEW v \in Txn, NEW r \in txn[v].effects
        PROVE  request[r].subject \in Order => order[request[r].subject].status # "absent"
    BY EffectExists, TxnTyped DEF Fits, DecidesFit
  <2> QED
    BY <1>1, <1>2, <1>3, <2>1, OthersFit
<1>6. RowsKept'
  <2>1. ASSUME NEW r \in Request
        PROVE  RequestKept(r)'
    <3>1. RequestKept(r) /\ effect[r] \in {"none"} \cup Decision
      BY RowTypes DEF ApprovalInv, RowsKept
    <3>2. request[r].subject = o => request[r].status = "absent"
      BY <1>1, <3>1, ApprovalAssumption DEF RequestKept, Exists
    <3> QED
      BY <1>1, <1>2, <1>3, <3>1, <3>2 DEF RequestKept, Exists, Decision
  <2>2. ASSUME NEW q \in Order
        PROVE  OrderKept(q)'
    <3>1. OrderKept(q) /\ \A l \in Line : received[q][l] \in Nat
      BY RowTypes DEF ApprovalInv, RowsKept
    <3>2. CASE q # o
      BY <1>1, <1>3, <3>1, <3>2 DEF OrderKept
    <3>3. CASE q = o
      BY <1>1, <1>2, <1>3, <3>1, <3>3 DEF OrderKept
    <3> QED
      BY <3>2, <3>3
  <2>3. DecidedOnce' /\ PassFollowsRequest' /\ ReleasedOnce'
    BY <1>1 DEF ApprovalInv, RowsKept, DecidedOnce, PassFollowsRequest, ReleasedOnce
  <2> QED
    BY <2>1, <2>2, <2>3 DEF RowsKept
<1> QED
  BY <1>1, <1>4, <1>5, <1>6, TxnsStay DEF ApprovalInv

\* A request that was not there has no decision, no effect, and nobody decided it.
LEMMA AbsentRequest ==
  ASSUME ApprovalInv, NEW r \in Request, request[r].status = "absent"
  PROVE  effect[r] = "none" /\ decisions[r] = 0 /\ \A u \in Txn : r \notin txn[u].claimed
<1>1. RequestKept(r) /\ DecidedOnce /\ effect[r] \in {"none"} \cup Decision
  BY RowTypes DEF ApprovalInv, RowsKept
<1>2. \A u \in Txn : r \notin txn[u].claimed
  BY EffectExists
<1> QED
  BY <1>1, <1>2 DEF RequestKept, DecidedOnce, Decision

LEMMA SubmitStep ==
  ASSUME ApprovalInv, NEW r \in Request, NEW u \in User, NEW s \in Subject, Submit(r, u, s)
  PROVE  ApprovalInv'
<1> DEFINE new == [status |-> "pending", subject |-> s, by |-> u]
<1>1. /\ request[r].status = "absent" /\ request' = [request EXCEPT ![r] = new] /\ Exists(s)
      /\ UNCHANGED <<decisions, effect, order, received, commitment, pass, released, txn>>
  BY DEF Submit, AddRequest, orderRows, passRows
<1>2. new \in RequestRow /\ new.status = "pending" /\ new.subject = s
  BY DEF RequestRow, Subject
<1> HIDE DEF new
<1>3. /\ request \in [Request -> RequestRow]
      /\ request' \in [Request -> RequestRow] /\ request'[r] = new
      /\ \A q \in Request \ {r} : request'[q] = request[q]
  BY <1>1, <1>2 DEF ApprovalInv, ApprovalTypeOK
<1>4. ApprovalTypeOK'
  BY <1>1, <1>3 DEF ApprovalInv, ApprovalTypeOK
<1>5. effect[r] = "none" /\ decisions[r] = 0 /\ \A v \in Txn : r \notin txn[v].claimed
  BY <1>1, AbsentRequest
<1>6. \A v \in Txn : Fits(txn[v])'
  <2>1. ASSUME NEW v \in Txn, NEW q \in txn[v].effects
        PROVE  request[q].subject \in Order => order[request[q].subject].status # "absent"
    BY EffectExists, TxnTyped DEF Fits, DecidesFit
  <2>2. ASSUME NEW v \in Txn, NEW q \in txn[v].claimed
        PROVE  request'[q] = request[q]
    BY <1>3, <1>5, EffectExists
  <2> QED
    BY <1>1, <2>1, <2>2, OthersFit
<1>7. RowsKept'
  <2>1. ASSUME NEW q \in Request
        PROVE  RequestKept(q)'
    <3>1. RequestKept(q)
      BY DEF ApprovalInv, RowsKept
    <3>2. CASE q # r
      BY <1>1, <1>3, <3>1, <3>2 DEF RequestKept, Exists
    <3>3. CASE q = r
      BY <1>1, <1>2, <1>3, <1>5, <3>3 DEF RequestKept, Exists
    <3> QED
      BY <3>2, <3>3
  <2>2. DecidedOnce'
    BY <1>1, <1>2, <1>3, <1>5 DEF ApprovalInv, RowsKept, DecidedOnce
  <2>3. PassFollowsRequest'
    BY <1>1, <1>2, <1>3, <1>5 DEF ApprovalInv, RowsKept, PassFollowsRequest, Decision
  <2>4. (\A o \in Order : OrderKept(o))' /\ ReleasedOnce'
    BY <1>1 DEF ApprovalInv, RowsKept, OrderKept, ReleasedOnce
  <2> QED
    BY <2>1, <2>2, <2>3, <2>4 DEF RowsKept
<1> QED
  BY <1>1, <1>4, <1>6, <1>7, TxnsStay DEF ApprovalInv

LEMMA RaisePassStep ==
  ASSUME ApprovalInv, NEW p \in Pass, NEW r \in Request, NEW u \in User, NEW slot \in Slot,
         RaisePass(p, r, u, slot)
  PROVE  ApprovalInv'
<1> DEFINE new == [status |-> "pending", subject |-> p, by |-> u]
           raised == [status |-> "pending", slot |-> slot]
<1>1. /\ request[r].status = "absent" /\ request' = [request EXCEPT ![r] = new]
      /\ pass[p].status = "absent" /\ pass' = [pass EXCEPT ![p] = raised]
      /\ UNCHANGED <<decisions, effect, order, received, commitment, released, txn>>
  BY DEF RaisePass, AddRequest, orderRows
<1>2. /\ new \in RequestRow /\ new.status = "pending" /\ new.subject = p
      /\ raised \in PassRow /\ raised.status = "pending"
  BY DEF RequestRow, Subject, PassRow, PassStatus
<1> HIDE DEF new, raised
<1>3. /\ request' \in [Request -> RequestRow] /\ request'[r] = new
      /\ \A q \in Request \ {r} : request'[q] = request[q]
      /\ pass' \in [Pass -> PassRow] /\ pass'[p] = raised
      /\ \A q \in Pass \ {p} : pass'[q] = pass[q]
  BY <1>1, <1>2 DEF ApprovalInv, ApprovalTypeOK
<1>4. ApprovalTypeOK'
  BY <1>1, <1>3 DEF ApprovalInv, ApprovalTypeOK
<1>5. effect[r] = "none" /\ decisions[r] = 0 /\ \A v \in Txn : r \notin txn[v].claimed
  BY <1>1, AbsentRequest
<1>6. ASSUME NEW q \in Request, request[q].subject = p
      PROVE  request[q].status = "absent" /\ effect[q] = "none"
  <2>1. RequestKept(q)
    BY DEF ApprovalInv, RowsKept
  <2>2. request[q].status = "absent"
    BY <1>1, <1>6, <2>1, ApprovalAssumption DEF RequestKept, Exists
  <2> QED
    BY <2>2, AbsentRequest
<1>7. \A v \in Txn : Fits(txn[v])'
  <2>1. ASSUME NEW v \in Txn, NEW q \in txn[v].effects
        PROVE  request[q].subject \in Order => order[request[q].subject].status # "absent"
    BY EffectExists, TxnTyped DEF Fits, DecidesFit
  <2>2. ASSUME NEW v \in Txn, NEW q \in txn[v].claimed
        PROVE  request'[q] = request[q]
    BY <1>3, <1>5, EffectExists
  <2>3. ASSUME NEW v \in Txn, NEW q \in Pass, q \in txn[v].wrote
        PROVE  pass'[q].status = pass[q].status
    <3>1. pass[q].status = "pending"
      BY <2>3, TxnTyped DEF Fits, WritesFit
    <3> QED
      BY <1>1, <1>3, <3>1
  <2> QED
    BY <1>1, <2>1, <2>2, <2>3, OthersFit
<1>8. RowsKept'
  <2>1. ASSUME NEW q \in Request
        PROVE  RequestKept(q)'
    <3>1. RequestKept(q)
      BY DEF ApprovalInv, RowsKept
    <3>2. CASE q # r
      BY <1>1, <1>2, <1>3, <3>1, <3>2 DEF RequestKept, Exists
    <3>3. CASE q = r
      BY <1>1, <1>2, <1>3, <1>5, <3>3 DEF RequestKept, Exists
    <3> QED
      BY <3>2, <3>3
  <2>2. DecidedOnce'
    BY <1>1, <1>2, <1>3, <1>5 DEF ApprovalInv, RowsKept, DecidedOnce
  <2>3. PassFollowsRequest'
    <3>1. ASSUME NEW q \in Request, request'[q].subject \in Pass
          PROVE  /\ request'[q].status \in Decision => effect'[q] = request'[q].status
                 /\ effect'[q] = "approved" =>
                      pass'[request'[q].subject].status \in {"approved", "used", "cancelled"}
                 /\ effect'[q] = "rejected" => pass'[request'[q].subject].status = "rejected"
      <4>1. CASE q = r
        BY <1>1, <1>2, <1>3, <1>5, <4>1 DEF Decision
      <4>2. CASE q # r /\ request[q].subject = p
        BY <1>1, <1>3, <1>6, <4>2 DEF Decision
      <4>3. CASE q # r /\ request[q].subject # p
        BY <1>1, <1>3, <3>1, <4>3 DEF ApprovalInv, RowsKept, PassFollowsRequest
      <4> QED
        BY <4>1, <4>2, <4>3
    <3>2. ASSUME NEW q \in Pass, pass'[q].status \in {"approved", "used"}
          PROVE  \E k \in Request : request'[k].subject = q /\ effect'[k] = "approved"
      <4>1. q # p /\ pass'[q] = pass[q]
        BY <1>2, <1>3, <3>2
      <4>2. PICK k \in Request : request[k].subject = q /\ effect[k] = "approved"
        BY <3>2, <4>1 DEF ApprovalInv, RowsKept, PassFollowsRequest
      <4>3. k # r
        BY <1>5, <4>2
      <4> QED
        BY <1>1, <1>3, <4>2, <4>3
    <3> QED
      BY <3>1, <3>2 DEF PassFollowsRequest
  <2>4. (\A o \in Order : OrderKept(o))'
    BY <1>1 DEF ApprovalInv, RowsKept, OrderKept
  <2>5. ReleasedOnce'
    BY <1>1, <1>2, <1>3 DEF ApprovalInv, RowsKept, ReleasedOnce
  <2> QED
    BY <2>1, <2>2, <2>3, <2>4, <2>5 DEF RowsKept
<1> QED
  BY <1>1, <1>4, <1>7, <1>8, TxnsStay DEF ApprovalInv

LEMMA CancelRequestStep ==
  ASSUME ApprovalInv, NEW r \in Request, CancelRequest(r)
  PROVE  ApprovalInv'
<1>1. /\ request[r].status = "pending" /\ ~RequestHeld(r)
      /\ request' = [request EXCEPT ![r].status = "cancelled"]
      /\ decisions' = [decisions EXCEPT ![r] = @ + 1]
      /\ UNCHANGED <<effect, order, received, commitment, pass, released, txn>>
  BY DEF CancelRequest, orderRows, passRows
<1>2. /\ request' \in [Request -> RequestRow]
      /\ request'[r].status = "cancelled" /\ request'[r].subject = request[r].subject
      /\ \A q \in Request \ {r} : request'[q] = request[q]
      /\ decisions' \in [Request -> Nat] /\ decisions'[r] = decisions[r] + 1
      /\ \A q \in Request \ {r} : decisions'[q] = decisions[q]
  <2> DEFINE new == [request[r] EXCEPT !.status = "cancelled"]
  <2>1. new \in RequestRow /\ new.status = "cancelled" /\ new.subject = request[r].subject
    BY DEF ApprovalInv, ApprovalTypeOK, RequestRow
  <2>2. request' = [request EXCEPT ![r] = new]
    BY <1>1
  <2> HIDE DEF new
  <2>3. /\ request' \in [Request -> RequestRow] /\ request'[r] = new
        /\ \A q \in Request \ {r} : request'[q] = request[q]
    BY <2>1, <2>2 DEF ApprovalInv, ApprovalTypeOK
  <2>4. /\ decisions' \in [Request -> Nat] /\ decisions'[r] = decisions[r] + 1
        /\ \A q \in Request \ {r} : decisions'[q] = decisions[q]
    BY <1>1 DEF ApprovalInv, ApprovalTypeOK
  <2> QED
    BY <2>1, <2>3, <2>4
<1>3. ApprovalTypeOK'
  BY <1>1, <1>2 DEF ApprovalInv, ApprovalTypeOK
<1>4. effect[r] = "none" /\ decisions[r] = 0 /\ Exists(request[r].subject)
  BY <1>1, RowTypes DEF ApprovalInv, RowsKept, RequestKept, DecidedOnce, Decision
<1>5. \A v \in Txn : Fits(txn[v])'
  <2>1. ASSUME NEW v \in Txn, NEW q \in txn[v].effects
        PROVE  request[q].subject \in Order => order[request[q].subject].status # "absent"
    BY EffectExists, TxnTyped DEF Fits, DecidesFit
  <2>2. ASSUME NEW v \in Txn, NEW q \in txn[v].claimed
        PROVE  request'[q] = request[q]
    BY <1>1, <1>2, EffectExists DEF RequestHeld
  <2> QED
    BY <1>1, <2>1, <2>2, OthersFit
<1>6. RowsKept'
  <2>1. ASSUME NEW q \in Request
        PROVE  RequestKept(q)'
    <3>1. RequestKept(q)
      BY DEF ApprovalInv, RowsKept
    <3>2. CASE q # r
      BY <1>1, <1>2, <3>1, <3>2 DEF RequestKept, Exists
    <3>3. CASE q = r
      BY <1>1, <1>2, <1>4, <3>3 DEF RequestKept, Exists
    <3> QED
      BY <3>2, <3>3
  <2>2. DecidedOnce'
    BY <1>1, <1>2, <1>4 DEF ApprovalInv, RowsKept, DecidedOnce
  <2>3. PassFollowsRequest'
    BY <1>1, <1>2, <1>4 DEF ApprovalInv, RowsKept, PassFollowsRequest, Decision
  <2>4. (\A o \in Order : OrderKept(o))' /\ ReleasedOnce'
    BY <1>1 DEF ApprovalInv, RowsKept, OrderKept, ReleasedOnce
  <2> QED
    BY <2>1, <2>2, <2>3, <2>4 DEF RowsKept
<1> QED
  BY <1>1, <1>3, <1>5, <1>6, TxnsStay DEF ApprovalInv

\* A step that writes one order, which is past its draft then and which no open
\* transaction has written.
LEMMA OrderWritten ==
  ASSUME ApprovalInv, NEW o \in Order, NEW new \in OrderRow,
         order' = [order EXCEPT ![o] = new],
         order[o].status # "absent", new.status \notin {"absent", "draft"},
         new.by = order[o].by, new.approver \in User,
         order[o].status \notin {"absent", "draft"} => new.approver = order[o].approver,
         UNCHANGED <<request, decisions, effect, commitment, pass, released>>,
         received' \in [Order -> [Line -> Nat]],
         \A q \in Order, l \in Line : received'[q][l] <= Ordered,
         \A q \in Order \ {o} : received'[q] = received[q],
         new.status = "received" => \A l \in Line : received'[o][l] = Ordered,
         txn' \in [Txn -> TxnRow]
  PROVE  ApprovalTypeOK' /\ RowsKept'
<1>1. /\ order' \in [Order -> OrderRow] /\ order'[o] = new
      /\ \A q \in Order \ {o} : order'[q] = order[q]
  BY DEF ApprovalInv, ApprovalTypeOK
<1>2. ApprovalTypeOK'
  BY <1>1 DEF ApprovalInv, ApprovalTypeOK
<1>3. ASSUME NEW r \in Request
      PROVE  RequestKept(r)'
  BY <1>1 DEF ApprovalInv, RowsKept, RequestKept, Exists
<1>4. ASSUME NEW q \in Order
      PROVE  OrderKept(q)'
  <2>1. OrderKept(q)
    BY DEF ApprovalInv, RowsKept
  <2>2. CASE q # o
    BY <1>1, <2>1, <2>2 DEF OrderKept
  <2>3. CASE q = o
    BY <1>1, <2>1, <2>3 DEF OrderKept
  <2> QED
    BY <2>2, <2>3
<1>5. DecidedOnce' /\ PassFollowsRequest' /\ ReleasedOnce'
  BY DEF ApprovalInv, RowsKept, DecidedOnce, PassFollowsRequest, ReleasedOnce
<1> QED
  BY <1>2, <1>3, <1>4, <1>5 DEF RowsKept

LEMMA AdvanceStep ==
  ASSUME ApprovalInv, NEW u \in User, NEW o \in Order, Advance(u, o)
  PROVE  ApprovalInv'
<1>1. /\ ~Held(o)
      /\ UNCHANGED <<request, decisions, effect, received, commitment, pass, released, txn>>
  BY DEF Advance, requestRows, passRows
<1>2. order[o] \in OrderRow /\ OrderKept(o)
  BY RowTypes DEF ApprovalInv, RowsKept
<1>3. PICK new \in OrderRow :
           /\ order' = [order EXCEPT ![o] = new]
           /\ order[o].status \in {"draft", "approved"}
           /\ new.status \in {"approved", "partially_received"}
           /\ new.by = order[o].by /\ new.approver \in User
           /\ order[o].status # "draft" => new.approver = order[o].approver
  <2>1. CASE order[o].status = "draft"
    <3> DEFINE new == [order[o] EXCEPT !.status = "approved", !.approver = u]
    <3>1. /\ new \in OrderRow /\ new.status = "approved" /\ new.approver = u
          /\ new.by = order[o].by
      BY <1>2 DEF OrderRow, OrderStatus
    <3>2. order' = [order EXCEPT ![o] = new]
      BY <2>1 DEF Advance
    <3> HIDE DEF new
    <3> QED
      BY <2>1, <3>1, <3>2
  <2>2. CASE order[o].status # "draft"
    <3> DEFINE new == [order[o] EXCEPT !.status = "partially_received"]
    <3>1. /\ new \in OrderRow /\ new.status = "partially_received"
          /\ new.approver = order[o].approver /\ new.by = order[o].by
      BY <1>2 DEF OrderRow, OrderStatus
    <3>2. order' = [order EXCEPT ![o] = new] /\ order[o].status = "approved"
      BY <2>2 DEF Advance
    <3>3. new.approver \in User
      BY <1>2, <3>1, <3>2 DEF OrderKept
    <3> HIDE DEF new
    <3> QED
      BY <2>2, <3>1, <3>2, <3>3
  <2> QED
    BY <2>1, <2>2
<1>4. /\ received \in [Order -> [Line -> Nat]] /\ txn \in [Txn -> TxnRow]
      /\ order \in [Order -> OrderRow]
  BY DEF ApprovalInv, ApprovalTypeOK
<1>5. \A q \in Order, l \in Line : received[q][l] <= Ordered
  BY DEF ApprovalInv, RowsKept, OrderKept
<1>6. ApprovalTypeOK' /\ RowsKept'
  BY <1>1, <1>3, <1>4, <1>5, OrderWritten
<1>7. order'[o] = new /\ \A q \in Order \ {o} : order'[q] = order[q]
  BY <1>3, <1>4
<1>8. \A v \in Txn : Fits(txn[v])'
  <2>1. ASSUME NEW v \in Txn, NEW q \in txn[v].effects
        PROVE  request[q].subject \in Order => order[request[q].subject].status # "absent"
    BY EffectExists, TxnTyped DEF Fits, DecidesFit
  <2> QED
    BY <1>1, <1>3, <1>7, <2>1, OthersFit
<1> QED
  BY <1>1, <1>6, <1>8, TxnsStay DEF ApprovalInv

LEMMA ReceiveCommitsStep ==
  ASSUME ApprovalInv, NEW t \in Txn, ReceiveCommits(t)
  PROVE  ApprovalInv'
<1> DEFINE x == txn[t]
           o == x.on
           new == [order[o] EXCEPT !.status = IF x.full THEN "received" ELSE "partially_received"]
<1>1. /\ x.pc = "counted" /\ Close(t)
      /\ received' = [received EXCEPT ![x.on][x.line] = @ + x.qty]
      /\ order' = [order EXCEPT ![o] = new]
      /\ UNCHANGED <<request, decisions, effect, commitment, pass, released>>
  BY DEF ReceiveCommits, requestRows, passRows
<1>2. /\ o \in Order /\ x.line \in Line /\ x.qty \in Nat /\ x.qty > 0 /\ x.full \in BOOLEAN
      /\ order[o].status \notin {"absent", "draft"}
      /\ received[o][x.line] + x.qty <= Ordered
      /\ x.full => \A l \in Line :
           received[o][l] + (IF l = x.line THEN x.qty ELSE 0) = Ordered
  BY <1>1, TxnTyped DEF Fits, UseFits
<1>3. /\ order[o] \in OrderRow /\ OrderKept(o) /\ received \in [Order -> [Line -> Nat]]
      /\ order \in [Order -> OrderRow]
  BY <1>2, RowTypes DEF ApprovalInv, ApprovalTypeOK, RowsKept
<1>4. /\ new \in OrderRow /\ new.by = order[o].by /\ new.approver = order[o].approver
      /\ new.status = (IF x.full THEN "received" ELSE "partially_received")
  BY <1>2, <1>3 DEF OrderRow, OrderStatus
<1> HIDE DEF new
<1>5. /\ received' \in [Order -> [Line -> Nat]]
      /\ \A q \in Order \ {o} : received'[q] = received[q]
      /\ \A l \in Line \ {x.line} : received'[o][l] = received[o][l]
      /\ received'[o][x.line] = received[o][x.line] + x.qty
  BY <1>1, <1>2, <1>3
<1>6. \A q \in Order, l \in Line : received'[q][l] <= Ordered
  <2>1. \A q \in Order, l \in Line : received[q][l] <= Ordered
    BY DEF ApprovalInv, RowsKept, OrderKept
  <2> QED
    BY <1>2, <1>5, <2>1
<1>7. new.status = "received" => \A l \in Line : received'[o][l] = Ordered
  <2>1. \A l \in Line : received[o][l] \in Nat
    BY <1>2, <1>3
  <2> QED
    BY <1>2, <1>4, <1>5, <2>1
<1>8. order'[o] = new /\ \A q \in Order \ {o} : order'[q] = order[q]
  BY <1>1, <1>2, <1>3
<1>9. ASSUME NEW v \in Txn \ {t}
      PROVE  Fits(txn[v])'
  <2>1. \A q \in txn[v].effects :
          request[q].subject \in Order => order[request[q].subject].status # "absent"
    BY EffectExists, TxnTyped DEF Fits, DecidesFit
  <2>2. txn'[v] = txn[v]
    BY <1>1 DEF Close, Goto, ApprovalInv, ApprovalTypeOK
  <2>3. Apart(txn[t], txn[v]) /\ Fits(txn[v])
    BY SMTT(30) DEF ApprovalInv, TxnsFit
  <2>4. CASE txn[v].pc = "counted" /\ txn[v].on = o
    <3>1. txn[v].line \in Line /\ txn[v].line # x.line /\ txn[v].qty \in Nat
      BY <1>1, <2>3, <2>4, TxnTyped DEF Apart, Fits, UseFits
    <3>2. ~txn[v].full
      <4>1. SUFFICES ASSUME txn[v].full PROVE FALSE
        OBVIOUS
      <4>2. received[o][x.line] + (IF x.line = txn[v].line THEN txn[v].qty ELSE 0) = Ordered
        BY <1>2, <2>3, <2>4, <4>1 DEF Fits, UseFits
      <4>3. received[o][x.line] \in Nat /\ Ordered \in Nat
        BY <1>2, <1>3, ApprovalAssumption
      <4> QED
        BY <1>2, <3>1, <4>2, <4>3
    <3>3. received'[o][txn[v].line] = received[o][txn[v].line]
      BY SMTT(30), <1>5, <3>1
    <3> QED
      BY <1>1, <1>2, <1>4, <1>8, <2>1, <2>2, <2>4, <3>2, <3>3, OthersFit
  <2>5. CASE txn[v].pc = "counted" /\ txn[v].on # o
    <3>1. txn[v].on \in Order
      BY <2>3, <2>5 DEF Fits, UseFits
    <3>2. received'[txn[v].on] = received[txn[v].on]
      BY <1>5, <2>5, <3>1
    <3> QED
      BY ZenonT(30), <1>1, <1>2, <1>4, <1>8, <2>1, <2>2, <3>2, OthersFit
  <2>6. CASE txn[v].pc # "counted"
    BY <1>1, <1>2, <1>4, <1>8, <2>1, <2>2, <2>6, OthersFit
  <2> QED
    BY <2>4, <2>5, <2>6
<1>10. TxnsFit' /\ txn' \in [Txn -> TxnRow]
  BY <1>1, <1>9, TxnCloses
<1>11. new.approver \in User
  BY SMTT(30), <1>2, <1>3, <1>4 DEF OrderKept
<1>12. ApprovalTypeOK' /\ RowsKept'
  <2>1. new.status \notin {"absent", "draft"} /\ order[o].status # "absent"
    BY <1>2, <1>4
  <2> HIDE DEF x, o
  <2> QED
    BY <1>1, <1>2, <1>4, <1>5, <1>6, <1>7, <1>10, <1>11, <2>1, OrderWritten
<1> QED
  BY <1>10, <1>12 DEF ApprovalInv

\* A step that writes one pass, which no open transaction has written.
LEMMA PassWritten ==
  ASSUME ApprovalInv, NEW p \in Pass, ~Held(p), NEW st \in {"used", "cancelled"},
         pass[p].status \in {"pending", "approved"},
         st = "used" => pass[p].status = "approved",
         pass' = [pass EXCEPT ![p].status = st],
         released' = [released EXCEPT ![p] = @ + (IF st = "used" THEN 1 ELSE 0)],
         UNCHANGED <<request, decisions, effect, order, received, commitment>>,
         txn' \in [Txn -> TxnRow]
  PROVE  /\ ApprovalTypeOK' /\ RowsKept'
         /\ \A v \in Txn : txn'[v] = txn[v] => Fits(txn[v])'
<1> DEFINE new == [pass[p] EXCEPT !.status = st]
<1>1. new \in PassRow /\ new.status = st /\ pass' = [pass EXCEPT ![p] = new]
  BY RowTypes DEF ApprovalInv, PassRow, PassStatus
<1> HIDE DEF new
<1>2. /\ pass' \in [Pass -> PassRow] /\ pass'[p] = new
      /\ \A q \in Pass \ {p} : pass'[q] = pass[q]
  BY <1>1 DEF ApprovalInv, ApprovalTypeOK
<1>3. /\ released' \in [Pass -> Nat] /\ \A q \in Pass \ {p} : released'[q] = released[q]
      /\ released'[p] = released[p] + (IF st = "used" THEN 1 ELSE 0)
  BY DEF ApprovalInv, ApprovalTypeOK
<1>4. ApprovalTypeOK'
  BY <1>2, <1>3 DEF ApprovalInv, ApprovalTypeOK
<1>5. RowsKept'
  <2>1. (\A r \in Request : RequestKept(r))'
    BY <1>1, <1>2 DEF ApprovalInv, RowsKept, RequestKept, Exists
  <2>2. DecidedOnce' /\ (\A o \in Order : OrderKept(o))'
    BY DEF ApprovalInv, RowsKept, DecidedOnce, OrderKept
  <2>3. PassFollowsRequest'
    <3>1. PassFollowsRequest
      BY DEF ApprovalInv, RowsKept
    <3>2. ASSUME NEW r \in Request, request[r].subject \in Pass
          PROVE  /\ request[r].status \in Decision => effect[r] = request[r].status
                 /\ effect[r] = "approved" =>
                      pass'[request[r].subject].status \in {"approved", "used", "cancelled"}
                 /\ effect[r] = "rejected" => pass'[request[r].subject].status = "rejected"
      BY <1>1, <1>2, <3>1, <3>2 DEF PassFollowsRequest
    <3>3. ASSUME NEW q \in Pass, pass'[q].status \in {"approved", "used"}
          PROVE  \E r \in Request : request[r].subject = q /\ effect[r] = "approved"
      BY <1>1, <1>2, <3>1, <3>3 DEF PassFollowsRequest
    <3> QED
      BY <3>2, <3>3 DEF PassFollowsRequest
  <2>4. ReleasedOnce'
    BY <1>1, <1>2, <1>3 DEF ApprovalInv, RowsKept, ReleasedOnce
  <2> QED
    BY <2>1, <2>2, <2>3, <2>4 DEF RowsKept
<1>6. ASSUME NEW v \in Txn, txn'[v] = txn[v]
      PROVE  Fits(txn[v])'
  <2>1. \A q \in txn[v].effects :
          request[q].subject \in Order => order[request[q].subject].status # "absent"
    BY EffectExists, TxnTyped DEF Fits, DecidesFit
  <2>2. ASSUME NEW q \in Pass, q \in txn[v].wrote
        PROVE  pass'[q].status = pass[q].status
    BY <1>2, <2>2 DEF Held
  <2> QED
    BY <1>6, <2>1, <2>2, OthersFit
<1> QED
  BY <1>4, <1>5, <1>6

LEMMA CancelPassStep ==
  ASSUME ApprovalInv, NEW p \in Pass, CancelPass(p)
  PROVE  ApprovalInv'
<1>1. /\ ~Held(p) /\ pass[p].status \in {"pending", "approved"}
      /\ pass' = [pass EXCEPT ![p].status = "cancelled"]
      /\ UNCHANGED <<request, decisions, effect, order, received, commitment, released, txn>>
  BY DEF CancelPass, requestRows, orderRows
<1>2. released' = [released EXCEPT ![p] = @ + (IF "cancelled" = "used" THEN 1 ELSE 0)]
  BY <1>1 DEF ApprovalInv, ApprovalTypeOK
<1>3. txn' \in [Txn -> TxnRow]
  BY <1>1 DEF ApprovalInv, ApprovalTypeOK
<1>4. /\ ApprovalTypeOK' /\ RowsKept'
      /\ \A v \in Txn : txn'[v] = txn[v] => Fits(txn[v])'
  BY <1>1, <1>2, <1>3, PassWritten
<1> QED
  BY <1>1, <1>4, TxnsStay DEF ApprovalInv

LEMMA VerifyClaimsStep ==
  ASSUME ApprovalInv, NEW t \in Txn, VerifyClaims(t)
  PROVE  ApprovalInv'
<1> DEFINE p == txn[t].on
<1>1. /\ txn[t].pc = "verifying" /\ ~Held(p) /\ pass[p].status = "approved" /\ Close(t)
      /\ pass' = [pass EXCEPT ![p].status = "used"]
      /\ released' = [released EXCEPT ![p] = @ + 1]
      /\ UNCHANGED <<request, decisions, effect, order, received, commitment>>
  BY DEF VerifyClaims, requestRows, orderRows
<1>2. p \in Pass
  BY <1>1, TxnTyped DEF Fits, UseFits
<1>3. released' = [released EXCEPT ![p] = @ + (IF "used" = "used" THEN 1 ELSE 0)]
  BY <1>1
<1>4. /\ txn' = [txn EXCEPT ![t] = Idle] /\ txn \in [Txn -> TxnRow]
      /\ txn' \in [Txn -> TxnRow] /\ \A v \in Txn \ {t} : txn'[v] = txn[v]
  BY <1>1, IdleTyped DEF Close, Goto, ApprovalInv, ApprovalTypeOK
<1>5. /\ ApprovalTypeOK' /\ RowsKept'
      /\ \A v \in Txn : txn'[v] = txn[v] => Fits(txn[v])'
  <2> HIDE DEF p
  <2> QED
    BY <1>1, <1>2, <1>3, <1>4, PassWritten
<1>6. TxnsFit'
  BY <1>1, <1>4, <1>5, TxnCloses
<1> QED
  BY <1>5, <1>6 DEF ApprovalInv

\* The rows after a commit.
LEMMA CommitMeans ==
  ASSUME ApprovalInv, NEW t \in Txn, Commit(t)
  PROVE  /\ txn[t].pc = "deciding" /\ Close(t) /\ UNCHANGED <<received, released>>
         /\ commitment' = commitment \cup (txn[t].wrote \cap Order)
         /\ request' \in [Request -> RequestRow] /\ effect' \in [Request -> {"none"} \cup Decision]
         /\ decisions' \in [Request -> Nat]
         /\ \A r \in Request :
              /\ request'[r].subject = request[r].subject
              /\ r \in txn[t].claimed =>
                   request'[r].status = txn[t].decision /\ decisions'[r] = decisions[r] + 1
              /\ r \notin txn[t].claimed => request'[r] = request[r] /\ decisions'[r] = decisions[r]
              /\ effect'[r] = (IF r \in txn[t].effects THEN txn[t].decision ELSE effect[r])
         /\ order' \in [Order -> OrderRow] /\ pass' \in [Pass -> PassRow]
         /\ \A o \in Order :
              /\ order'[o].by = order[o].by
              /\ o \in txn[t].wrote =>
                   order'[o].status = "approved" /\ order'[o].approver = txn[t].actor
              /\ o \notin txn[t].wrote => order'[o] = order[o]
         /\ \A p \in Pass :
              /\ p \in txn[t].wrote => pass'[p].status = txn[t].decision
              /\ p \notin txn[t].wrote => pass'[p] = pass[p]
<1> DEFINE x == txn[t]
<1>1. /\ x.pc = "deciding" /\ Close(t) /\ UNCHANGED <<received, released>>
      /\ request' = [r \in Request |-> DecidedRequest(x, r)]
      /\ decisions' = [r \in Request |-> decisions[r] + (IF r \in x.claimed THEN 1 ELSE 0)]
      /\ effect' = [r \in Request |-> IF r \in x.effects THEN x.decision ELSE effect[r]]
      /\ order' = [o \in Order |-> ApprovedOrder(x, o)]
      /\ commitment' = commitment \cup (x.wrote \cap Order)
      /\ pass' = [p \in Pass |-> DecidedPass(x, p)]
  BY DEF Commit
<1>2. x.decision \in Decision /\ x.actor \in User \cup {None}
  BY TxnTyped
<1> HIDE DEF x
<1>3. ASSUME NEW r \in Request
      PROVE  /\ DecidedRequest(x, r) \in RequestRow
             /\ DecidedRequest(x, r).subject = request[r].subject
             /\ r \in x.claimed => DecidedRequest(x, r).status = x.decision
             /\ r \notin x.claimed => DecidedRequest(x, r) = request[r]
  BY <1>2, RowTypes DEF ApprovalInv, RequestRow, DecidedRequest
<1>4. ASSUME NEW o \in Order
      PROVE  /\ ApprovedOrder(x, o) \in OrderRow
             /\ ApprovedOrder(x, o).by = order[o].by
             /\ o \in x.wrote => /\ ApprovedOrder(x, o).status = "approved"
                                 /\ ApprovedOrder(x, o).approver = x.actor
             /\ o \notin x.wrote => ApprovedOrder(x, o) = order[o]
  BY <1>2, RowTypes DEF ApprovalInv, OrderRow, OrderStatus, ApprovedOrder
<1>5. ASSUME NEW p \in Pass
      PROVE  /\ DecidedPass(x, p) \in PassRow
             /\ p \in x.wrote => DecidedPass(x, p).status = x.decision
             /\ p \notin x.wrote => DecidedPass(x, p) = pass[p]
  BY <1>2, RowTypes DEF ApprovalInv, PassRow, PassStatus, Decision, DecidedPass
<1>6. /\ request' \in [Request -> RequestRow]
      /\ \A r \in Request : request'[r] = DecidedRequest(x, r)
  BY <1>1, <1>3
<1>7. order' \in [Order -> OrderRow] /\ \A o \in Order : order'[o] = ApprovedOrder(x, o)
  BY <1>1, <1>4
<1>8. pass' \in [Pass -> PassRow] /\ \A p \in Pass : pass'[p] = DecidedPass(x, p)
  BY <1>1, <1>5
<1>9. /\ effect' \in [Request -> {"none"} \cup Decision]
      /\ \A r \in Request : effect'[r] = (IF r \in x.effects THEN x.decision ELSE effect[r])
  BY <1>1, <1>2, RowTypes DEF ApprovalInv
<1>10. /\ decisions' \in [Request -> Nat]
       /\ \A r \in Request :
            /\ r \in x.claimed => decisions'[r] = decisions[r] + 1
            /\ r \notin x.claimed => decisions'[r] = decisions[r]
  BY <1>1, RowTypes DEF ApprovalInv
<1> QED
  BY <1>1, <1>3, <1>4, <1>5, <1>6, <1>7, <1>8, <1>9, <1>10 DEF x

LEMMA CommitStep ==
  ASSUME ApprovalInv, NEW t \in Txn, Commit(t)
  PROVE  ApprovalInv'
<1> DEFINE x == txn[t]
<1>1. /\ x.pc = "deciding" /\ Fits(x) /\ x.decision \in Decision /\ x.actor \in User
      /\ x.claimed \subseteq Request /\ x.effects \subseteq x.claimed
      /\ \A r \in x.claimed :
           /\ request[r].status = "pending" /\ effect[r] = "none" /\ decisions[r] = 0
           /\ request[r].subject \in Subject /\ Exists(request[r].subject)
           /\ request[r].subject \in Pass => r \in x.effects
  <2>1. x.pc = "deciding"
    BY DEF Commit
  <2>2. Fits(x) /\ x.decision \in Decision /\ x.claimed \subseteq Request
    BY TxnTyped
  <2>3. x.actor \in User
    BY <2>1, <2>2 DEF Fits, WritesFit
  <2>4. ASSUME NEW r \in x.claimed
        PROVE  /\ request[r].status = "pending" /\ effect[r] = "none" /\ decisions[r] = 0
               /\ request[r].subject \in Subject /\ Exists(request[r].subject)
               /\ request[r].subject \in Pass => r \in x.effects
    BY <2>1, <2>2, EffectExists DEF ApprovalInv, RowsKept, DecidedOnce, Fits, DecidesFit
  <2> QED
    BY <2>1, <2>2, <2>3, <2>4 DEF Fits, DecidesFit
<1>2. /\ \A o \in x.wrote \cap Order : order[o].status # "absent" /\ x.actor # order[o].by
      /\ \A p \in x.wrote \cap Pass :
           pass[p].status = "pending" /\ \E r \in x.effects : request[r].subject = p
      /\ \A r \in x.effects :
           \/ request[r].subject \in x.wrote
           \/ request[r].subject \in Order /\ order[request[r].subject].status # "draft"
  BY <1>1 DEF Fits, WritesFit
<1>3. ApprovalTypeOK'
  <2>1. txn' \in [Txn -> TxnRow]
    BY CommitMeans, IdleTyped DEF ApprovalInv, ApprovalTypeOK, Close, Goto
  <2> QED
    BY <2>1, CommitMeans DEF ApprovalInv, ApprovalTypeOK
<1>4. ASSUME NEW r \in Request
      PROVE  RequestKept(r)'
  <2>1. RequestKept(r)
    BY DEF ApprovalInv, RowsKept
  <2>2. CASE r \in x.claimed
    <3>1. Exists(request[r].subject)'
      BY <1>1, <1>2, <2>2, CommitMeans, ApprovalAssumption DEF Exists, Decision
    <3>2. request'[r].status = x.decision /\ request'[r].subject = request[r].subject
      BY <2>2, CommitMeans
    <3>3. effect'[r] = (IF r \in x.effects THEN x.decision ELSE "none")
      BY <1>1, <2>2, CommitMeans
    <3>4. r \in x.effects /\ request[r].subject \in Order =>
            order'[request[r].subject].status # "draft"
      BY <1>2, CommitMeans
    <3> QED
      BY <3>1, <3>2, <3>3, <3>4 DEF RequestKept
  <2>3. CASE r \notin x.claimed
    <3>1. request'[r] = request[r] /\ effect'[r] = effect[r]
      BY <1>1, <2>3, CommitMeans
    <3>2. Exists(request[r].subject) => Exists(request[r].subject)'
      BY <1>1, <3>1, CommitMeans DEF Exists, Decision
    <3> QED
      BY <2>1, <3>1, <3>2, CommitMeans DEF RequestKept
  <2> QED
    BY <2>2, <2>3
<1>5. DecidedOnce'
  BY <1>1, CommitMeans DEF ApprovalInv, RowsKept, DecidedOnce, Decision
<1>6. ASSUME NEW o \in Order
      PROVE  OrderKept(o)'
  <2>1. OrderKept(o)
    BY DEF ApprovalInv, RowsKept
  <2>2. CASE o \in x.wrote
    BY <1>1, <1>2, <2>1, <2>2, CommitMeans DEF OrderKept
  <2>3. CASE o \notin x.wrote
    BY <2>1, <2>3, CommitMeans DEF OrderKept
  <2> QED
    BY <2>2, <2>3
<1>7. PassFollowsRequest'
  <2>1. PassFollowsRequest
    BY DEF ApprovalInv, RowsKept
  <2>2. ASSUME NEW r \in Request, request'[r].subject \in Pass
        PROVE  /\ request'[r].status \in Decision => effect'[r] = request'[r].status
               /\ effect'[r] = "approved" =>
                    pass'[request'[r].subject].status \in {"approved", "used", "cancelled"}
               /\ effect'[r] = "rejected" => pass'[request'[r].subject].status = "rejected"
    <3>1. request[r].subject \in Pass /\ request[r].subject \notin Order
      BY <2>2, CommitMeans, ApprovalAssumption
    <3>2. CASE r \in x.claimed
      <4>1. r \in x.effects /\ request[r].subject \in x.wrote
        BY <1>1, <1>2, <3>1, <3>2
      <4> QED
        BY <1>1, <3>1, <3>2, <4>1, CommitMeans
    <3>3. CASE r \notin x.claimed
      <4>1. request'[r] = request[r] /\ effect'[r] = effect[r]
        BY <1>1, <3>3, CommitMeans
      <4>2. CASE effect[r] \in Decision
        <5>1. request[r].subject \notin x.wrote
          BY <1>2, <2>1, <3>1, <4>2 DEF PassFollowsRequest, Decision
        <5> QED
          BY <2>1, <3>1, <4>1, <5>1, CommitMeans DEF PassFollowsRequest
      <4>3. CASE effect[r] \notin Decision
        BY <2>1, <3>1, <4>1, <4>3 DEF PassFollowsRequest, Decision
      <4> QED
        BY <4>2, <4>3
    <3> QED
      BY <3>2, <3>3
  <2>3. ASSUME NEW p \in Pass, pass'[p].status \in {"approved", "used"}
        PROVE  \E r \in Request : request'[r].subject = p /\ effect'[r] = "approved"
    <3>1. CASE p \in x.wrote
      <4>1. x.decision = "approved"
        BY <1>1, <2>3, <3>1, CommitMeans DEF Decision
      <4>2. PICK r \in x.effects : request[r].subject = p
        BY <1>2, <3>1
      <4> QED
        BY <1>1, <4>1, <4>2, CommitMeans
    <3>2. CASE p \notin x.wrote
      <4>1. pass'[p] = pass[p]
        BY <3>2, CommitMeans
      <4>2. PICK r \in Request : request[r].subject = p /\ effect[r] = "approved"
        BY <2>1, <2>3, <4>1 DEF PassFollowsRequest
      <4>3. r \notin x.effects
        BY <1>1, <4>2
      <4> QED
        BY <4>2, <4>3, CommitMeans
    <3> QED
      BY <3>1, <3>2
  <2> QED
    BY <2>2, <2>3 DEF PassFollowsRequest
<1>8. ReleasedOnce'
  BY <1>1, <1>2, CommitMeans DEF ApprovalInv, RowsKept, ReleasedOnce, Decision
<1>9. ASSUME NEW v \in Txn \ {t}
      PROVE  Fits(txn[v])'
  <2>1. \A q \in txn[v].effects :
          request[q].subject \in Order => order[request[q].subject].status # "absent"
    BY EffectExists, TxnTyped DEF Fits, DecidesFit
  <2>2. txn'[v] = txn[v]
    BY CommitMeans DEF Close, Goto, ApprovalInv, ApprovalTypeOK
  <2>3. Apart(x, txn[v])
    BY DEF ApprovalInv, TxnsFit
  <2>4. \A r \in txn[v].claimed : request'[r] = request[r]
    BY <2>3, CommitMeans, TxnTyped DEF Apart
  <2>5. \A p \in Pass : p \in txn[v].wrote => pass'[p].status = pass[p].status
    BY <2>3, CommitMeans DEF Apart
  <2>6. received' = received
    BY CommitMeans
  <2>7. \A o \in Order :
          /\ order[o].status # "absent" =>
               order'[o].status # "absent" /\ order'[o].by = order[o].by
          /\ order[o].status \notin {"absent", "draft"} =>
               order'[o].status \notin {"absent", "draft"}
          /\ order'[o].status = "draft" => order[o].status \in {"absent", "draft"}
    BY CommitMeans
  <2> QED
    BY <2>1, <2>2, <2>4, <2>5, <2>6, <2>7, OthersFit
<1>10. TxnsFit'
  BY <1>9, CommitMeans, TxnCloses
<1> QED
  BY <1>3, <1>4, <1>5, <1>6, <1>7, <1>8, <1>10 DEF ApprovalInv, RowsKept

-----------------------------------------------------------------------------
(***************************************************************************)
(* The invariant is inductive.                                             *)
(***************************************************************************)
LEMMA InitInv == ApprovalInit => ApprovalInv
<1> SUFFICES ASSUME ApprovalInit PROVE ApprovalInv
  OBVIOUS
<1> USE DEF ApprovalInit
<1>1. ApprovalTypeOK
  BY IdleTyped DEF ApprovalTypeOK, RequestRow, OrderRow, OrderStatus, PassRow, PassStatus
<1>2. RowsKept
  <2>1. \A r \in Request : RequestKept(r)
    BY DEF RequestKept
  <2>2. ASSUME NEW o \in Order PROVE OrderKept(o)
    <3>1. /\ order[o].status = "absent"
          /\ o \notin commitment
          /\ \A l \in Line : received[o][l] = 0
      OBVIOUS
    <3>2. 0 <= Ordered
      BY ApprovalAssumption
    <3> QED
      BY <3>1, <3>2 DEF OrderKept
  <2>3. DecidedOnce /\ ReleasedOnce
    BY DEF DecidedOnce, ReleasedOnce
  <2>4. PassFollowsRequest
    BY ApprovalAssumption DEF PassFollowsRequest
  <2> QED
    BY <2>1, <2>2, <2>3, <2>4 DEF RowsKept
<1>3. TxnsFit
  <2>1. Fits(Idle) /\ Apart(Idle, Idle)
    BY IdleTyped, FreshFits, FreshApart
  <2>2. \A t \in Txn : txn[t] = Idle
    OBVIOUS
  <2> QED
    BY <2>1, <2>2 DEF TxnsFit
<1> QED
  BY <1>1, <1>2, <1>3 DEF ApprovalInv

LEMMA NextInv == ApprovalInv /\ [ApprovalNext]_approvalVars => ApprovalInv'
<1> SUFFICES ASSUME ApprovalInv, [ApprovalNext]_approvalVars
             PROVE  ApprovalInv'
  OBVIOUS
<1>1. CASE UNCHANGED approvalVars
  <2>1. UNCHANGED rows /\ UNCHANGED txn
    BY <1>1 DEF approvalVars
  <2>2. UNCHANGED <<request, decisions, effect, order, received, commitment, pass, released>>
    BY <2>1 DEF rows, requestRows, orderRows, passRows
  <2>3. ApprovalTypeOK' /\ RowsKept'
    BY <2>1, <2>2, RowsStay DEF ApprovalInv, ApprovalTypeOK
  <2>4. \A u \in Txn : Fits(txn[u])'
    BY <2>1, <2>2 DEF ApprovalInv, TxnsFit, Fits, DecidesFit, WritesFit, UseFits, AtFits
  <2> QED
    BY <2>1, <2>3, <2>4, TxnsStay DEF ApprovalInv
<1>2. CASE Raise
  BY <1>2, CreateOrderStep, SubmitStep, RaisePassStep DEF Raise
<1>3. ASSUME NEW t \in Txn, Decide(t) PROVE ApprovalInv'
  <2>1. CASE \E u \in User, d \in Decision, ids \in SUBSET Request : Begin(t, u, d, ids)
    BY <2>1, BeginStep
  <2>2. CASE \E r \in Request : Skip(t, r) \/ Claim(t, r)
    BY <2>2, SkipStep, ClaimStep
  <2>3. CASE OrderLeft(t) \/ OrderRefused(t) \/ OrderSeen(t) \/ OrderApproved(t)
    BY <2>3, OrderLeftStep, OrderRefusedStep, OrderSeenStep, OrderApprovedStep
  <2>4. CASE \E u \in User, o \in Order : DirectBegins(t, u, o)
    BY <2>4, DirectBeginsStep
  <2>5. CASE OrderFails(t)
    BY <2>5, FailsStep DEF OrderFails
  <2>6. CASE PassDecided(t)
    BY <2>6, PassDecidedStep
  <2>7. CASE PassFails(t)
    BY <2>7, FailsStep DEF PassFails
  <2>8. CASE Commit(t)
    BY <2>8, CommitStep
  <2>9. CASE Rollback(t)
    BY <2>9, CloseStep DEF Rollback
  <2> QED
    BY <1>3, <2>1, <2>2, <2>3, <2>4, <2>5, <2>6, <2>7, <2>8, <2>9 DEF Decide
<1>4. ASSUME NEW t \in Txn, Use(t) PROVE ApprovalInv'
  <2>1. CASE \E o \in Order, l \in Line, n \in 1..Ordered : ReceiveBegins(t, o, l, n)
    BY <2>1, ReceiveBeginsStep
  <2>2. CASE ReceiveTakes(t)
    BY <2>2, ReceiveTakesStep
  <2>3. CASE ReceiveCommits(t)
    BY <2>3, ReceiveCommitsStep
  <2>4. CASE \E p \in Pass : VerifyReads(t, p)
    BY <2>4, VerifyReadsStep
  <2>5. CASE VerifyClaims(t)
    BY <2>5, VerifyClaimsStep
  <2> QED
    BY <1>4, <2>1, <2>2, <2>3, <2>4, <2>5 DEF Use
<1>5. CASE \E r \in Request : CancelRequest(r)
  BY <1>5, CancelRequestStep
<1>6. CASE \E u \in User, o \in Order : Advance(u, o)
  BY <1>6, AdvanceStep
<1>7. CASE \E p \in Pass : CancelPass(p)
  BY <1>7, CancelPassStep
<1> QED
  BY <1>1, <1>2, <1>3, <1>4, <1>5, <1>6, <1>7 DEF ApprovalNext

\* The invariant holds in every state the approvals can be in.
THEOREM ApprovalsInvariant == ApprovalSpec => []ApprovalInv
  BY InitInv, NextInv, PTL DEF ApprovalSpec

-----------------------------------------------------------------------------
(***************************************************************************)
(* What follows from it.                                                   *)
(***************************************************************************)
\* Every row and every transaction has its type.
THEOREM ApprovalTypes == ApprovalSpec => []ApprovalTypeOK
<1>1. ApprovalInv => ApprovalTypeOK
  BY DEF ApprovalInv
<1> QED
  BY <1>1, ApprovalsInvariant, PTL

\* No request is decided twice, by whichever of decision, batch and
\* cancellation.
THEOREM OnceDecided == ApprovalSpec => []DecidedOnce
<1>1. ApprovalInv => DecidedOnce
  BY DEF ApprovalInv, RowsKept
<1> QED
  BY <1>1, ApprovalsInvariant, PTL

\* A gate pass is what its recorded decision made of it.
THEOREM PassFollows == ApprovalSpec => []PassFollowsRequest
<1>1. ApprovalInv => PassFollowsRequest
  BY DEF ApprovalInv, RowsKept
<1> QED
  BY <1>1, ApprovalsInvariant, PTL

\* A gate pass lets its student leave at most once.
THEOREM OnceReleased == ApprovalSpec => []ReleasedOnce
<1>1. ApprovalInv => ReleasedOnce
  BY DEF ApprovalInv, RowsKept
<1> QED
  BY <1>1, ApprovalsInvariant, PTL

\* An order the books are committed to records as its approver a user other than
\* the one it records as its requester, whatever ids the decisions came under and
\* however approvals, workflow steps and receipts of the order overlap.
THEOREM OtherCommits == ApprovalSpec => []CommittedByOther
<1>1. ApprovalInv => CommittedByOther
  BY DEF ApprovalInv, RowsKept, OrderKept, CommittedByOther, ApprovalTypeOK
<1> QED
  BY <1>1, ApprovalsInvariant, PTL

\* An effect recorded for an order leaves no draft behind.
THEOREM EffectsTaken == ApprovalSpec => []OrderEffectTaken
<1>1. ApprovalInv => OrderEffectTaken
  BY DEF ApprovalInv, RowsKept, RequestKept, OrderEffectTaken
<1> QED
  BY <1>1, ApprovalsInvariant, PTL

\* Overlapping receipts stay within the order, goods need an approval, and an
\* order is received only when every line of it is.
THEOREM GoodsRight == ApprovalSpec => []ReceiptsRight
<1>1. ApprovalInv => ReceiptsRight
  <2> SUFFICES ASSUME ApprovalInv PROVE ReceiptsRight
    OBVIOUS
  <2>1. ReceivedWithinOrder
    BY ApprovalAssumption DEF ApprovalInv, RowsKept, OrderKept, ReceivedWithinOrder
  <2>2. GoodsNeedApproval
    BY ApprovalAssumption DEF ApprovalInv, RowsKept, OrderKept, GoodsNeedApproval
  <2>3. ReceivedIsComplete
    BY DEF ApprovalInv, RowsKept, OrderKept, ReceivedIsComplete
  <2> QED
    BY <2>1, <2>2, <2>3 DEF ReceiptsRight
<1> QED
  BY <1>1, ApprovalsInvariant, PTL

\* A gate pass that was used, cancelled or rejected stays so.
THEOREM PassStaysFinal == ApprovalSpec => PassIsFinal
<1> DEFINE Stays == \A p \in Pass :
                      pass[p].status \in {"used", "cancelled", "rejected"} => pass'[p] = pass[p]
<1>1. ApprovalInv /\ [ApprovalNext]_approvalVars => [Stays]_approvalVars
  <2> SUFFICES ASSUME ApprovalInv, ApprovalNext PROVE Stays
    OBVIOUS
  <2>1. CASE UNCHANGED pass
    BY <2>1
  <2>2. ASSUME NEW p \in Pass, NEW r \in Request, NEW u \in User, NEW slot \in Slot,
               RaisePass(p, r, u, slot)
        PROVE  Stays
    BY <2>2 DEF RaisePass, ApprovalInv, ApprovalTypeOK
  <2>3. ASSUME NEW p \in Pass, CancelPass(p)
        PROVE  Stays
    BY <2>3 DEF CancelPass, ApprovalInv, ApprovalTypeOK
  <2>4. ASSUME NEW t \in Txn, VerifyClaims(t)
        PROVE  Stays
    BY <2>4 DEF VerifyClaims, ApprovalInv, ApprovalTypeOK
  <2>5. ASSUME NEW t \in Txn, Commit(t)
        PROVE  Stays
    <3>1. \A p \in Pass : p \in txn[t].wrote => pass[p].status = "pending"
      BY TxnTyped DEF Fits, WritesFit
    <3> QED
      BY <2>5, <3>1, CommitMeans
  <2>6. \/ UNCHANGED pass
        \/ \E p \in Pass, r \in Request, u \in User, slot \in Slot : RaisePass(p, r, u, slot)
        \/ \E p \in Pass : CancelPass(p)
        \/ \E t \in Txn : VerifyClaims(t) \/ Commit(t)
    <3>1. CASE Raise
      BY <3>1 DEF Raise, CreateOrder, Submit, passRows
    <3>2. ASSUME NEW t \in Txn, Decide(t), ~Commit(t)
          PROVE  UNCHANGED pass
      <4>1. UNCHANGED rows
        BY <3>2 DEF Decide, Begin, Skip, Claim, OrderLeft, OrderRefused, OrderSeen,
                    DirectBegins, OrderApproved, OrderFails, PassDecided, PassFails, Rollback
      <4> QED
        BY SMTT(30), <4>1 DEF rows, passRows
    <3>3. ASSUME NEW t \in Txn, Use(t), ~VerifyClaims(t)
          PROVE  UNCHANGED pass
      BY <3>3 DEF Use, ReceiveBegins, ReceiveTakes, ReceiveCommits, VerifyReads, rows, passRows
    <3>4. CASE \E r \in Request : CancelRequest(r)
      BY <3>4 DEF CancelRequest, passRows
    <3>5. CASE \E u \in User, o \in Order : Advance(u, o)
      BY <3>5 DEF Advance, passRows
    <3> QED
      BY <3>1, <3>2, <3>3, <3>4, <3>5 DEF ApprovalNext
  <2> HIDE DEF Stays
  <2> QED
    BY <2>1, <2>2, <2>3, <2>4, <2>5, <2>6
<1>2. PassIsFinal <=> [][Stays]_approvalVars
  BY PTL DEF PassIsFinal
<1> QED
  BY <1>1, <1>2, ApprovalsInvariant, PTL DEF ApprovalSpec

=============================================================================
