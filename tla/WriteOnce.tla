------------------------------ MODULE WriteOnce ------------------------------
(***************************************************************************)
(* What the idempotency layer promises to whoever sends a write, with      *)
(* nothing said of how: each keyed write takes effect at most once, and a  *)
(* success answer for a key is on its way to a caller only if the write of *)
(* that key has taken effect.  IdempotentDispatch implements this.         *)
(***************************************************************************)
EXTENDS Naturals

CONSTANT Key              \* the Idempotency-Keys, one per user operation

VARIABLES
    effects,              \* effects[k]: how often the write of k took effect
    acknowledged          \* the keys some caller holds a success answer for

vars == <<effects, acknowledged>>

Init ==
    /\ effects = [k \in Key |-> 0]
    /\ acknowledged = {}

\* The write of k takes effect: only if it has not already.
TakeEffect(k) ==
    /\ effects[k] = 0
    /\ effects' = [effects EXCEPT ![k] = 1]
    /\ UNCHANGED acknowledged

\* A caller is told that the write of k succeeded.
Acknowledge(k) ==
    /\ effects[k] = 1
    /\ acknowledged' = acknowledged \cup {k}
    /\ UNCHANGED effects

\* The last answer for k was consumed or abandoned.
ForgetAnswer(k) ==
    /\ acknowledged' = acknowledged \ {k}
    /\ UNCHANGED effects

Next == \E k \in Key : TakeEffect(k) \/ Acknowledge(k) \/ ForgetAnswer(k)

Spec == Init /\ [][Next]_vars
=============================================================================
