----------------------------- MODULE MCFeeLedger -----------------------------
(* Small instances of FeeLedger. *)
EXTENDS FeeLedger, TLC

\* Rows and transactions of one kind are interchangeable.
Alike ==
    Permutations(Txn) \cup Permutations(Collection) \cup Permutations(Refund)
    \cup Permutations(Key)
=============================================================================
