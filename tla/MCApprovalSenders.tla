------------------------- MODULE MCApprovalSenders -------------------------
(***************************************************************************)
(* A small instance of Approvals that also remembers who sent a decision.  *)
(* Nothing in Approvals depends on it: sender observes the steps, and says *)
(* of the id a decision came under whose it was.                           *)
(***************************************************************************)
EXTENDS Approvals, FiniteSets

VARIABLE sender     \* sender[t]: who opened transaction t last

senderVars == <<approvalVars, sender>>

Opened(t) == txn[t].pc = "idle" /\ txn'[t].pc \in {"deciding", "writing"}

\* A single decision comes under any id; a batch and a direct approval come
\* under their sender's.
Senders(t) ==
    IF ~Opened(t) THEN {sender[t]}
    ELSE IF Cardinality(txn'[t].todo) = 1 THEN User ELSE {txn'[t].actor}

SenderNext ==
    /\ ApprovalNext
    /\ sender' \in [Txn -> User \cup {None}]
    /\ \A t \in Txn : sender'[t] \in Senders(t)

SenderSpec ==
    /\ ApprovalInit /\ sender = [t \in Txn |-> None]
    /\ [][SenderNext]_senderVars

\* What is said of it: who decides is the authenticated user.  Whoever asked for
\* an order sends no decision that commits the books to it.
CommittedByAnother ==
    \A t \in Txn : \A o \in txn[t].wrote \cap Order : sender[t] # order[o].by
=============================================================================
