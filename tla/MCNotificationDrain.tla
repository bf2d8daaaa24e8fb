------------------------- MODULE MCNotificationDrain -------------------------
(* Small instances of NotificationDrain. *)
EXTENDS NotificationDrain, TLC

CONSTANT Sms

\* A school without a policy that may set either order of two channels.
EitherOrder == {<< >>, <<Sms, Push>>, <<Push, Sms>>}

\* Transactions are interchangeable (not for liveness).
Drains == Permutations(Worker)
=============================================================================
