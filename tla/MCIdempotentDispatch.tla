------------------------ MODULE MCIdempotentDispatch ------------------------
(***************************************************************************)
(* Small instances of IdempotentDispatch for TLC.                          *)
(***************************************************************************)
EXTENDS IdempotentDispatch, TLC

CONSTANTS k1, k2, a1, a2, a3

BothKeys  == {k1, k2}
FirstKey  == {k1}

ThreeAttempts == {a1, a2, a3}
TwoAttempts   == {a1, a2}

FaithfulOutcome == Refusal \cup {"commit"}
AnyOutcome      == Refusal \cup {"commit", "commitThenFail"}

\* Requests are interchangeable, and no property tells them apart.
AttemptSymmetry == Permutations(Attempt)
=============================================================================
