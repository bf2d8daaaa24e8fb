--------------------------- MODULE MCReliableSync ---------------------------
(***************************************************************************)
(* Small instances of ReliableSync for TLC.                                *)
(***************************************************************************)
EXTENDS ReliableSync, TLC

CONSTANTS k1, k2, a1, a2, t1, student

TwoOps == {k1, k2}
OneOp  == {k1}
SecondOp == {k2}
NoneOf == {}

\* Both operations write the same record.
SameRecord == [o \in Key |-> student]

TwoAttempts == {a1, a2}
OneTap      == {t1}

\* Requests are interchangeable, and no property tells them apart.
AttemptSymmetry == Permutations(Attempt)
=============================================================================
