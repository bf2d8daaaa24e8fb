--------------------------- MODULE MCPaymentCapture ---------------------------
(* Small instances of PaymentCapture. *)
EXTENDS PaymentCapture, TLC

\* Rows and transactions of one kind are interchangeable.
Alike == Permutations(Txn) \cup Permutations(Collection)
=============================================================================
