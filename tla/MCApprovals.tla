----------------------------- MODULE MCApprovals -----------------------------
(* Small instances of Approvals. *)
EXTENDS Approvals, TLC

\* Rows of one kind, transactions and users are interchangeable.
Peers ==
    Permutations(Order) \cup Permutations(Pass) \cup Permutations(Request)
    \cup Permutations(Txn) \cup Permutations(User) \cup Permutations(Line)
    \cup Permutations(Slot)
=============================================================================
