----------------------------- MODULE MCAiCredits -----------------------------
(* Small instances of AiCredits. *)
EXTENDS AiCredits, TLC

\* Requests are interchangeable, and so are buckets.
Alike == Permutations(Call) \cup Permutations(Bucket)
=============================================================================
