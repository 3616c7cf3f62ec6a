--------------------------- MODULE MCFailureControl ---------------------------
(***************************************************************************)
(* Instances of FailureControl for TLC.                                    *)
(***************************************************************************)
EXTENDS FailureControl

CONSTANTS c1, c2, c3, b1, b2, b3

(* One call down a ladder of three bindings: one that is safe to repeat,   *)
(* one that is stateful but idempotent, one that is stateful and not.      *)
LadderCandidates == [c \in {c1} |-> <<b1, b2, b3>>]
LadderNode       == [c \in {c1} |-> 1]
LadderRetries    == [b \in {b1, b2, b3} |-> IF b = b2 THEN 0 ELSE 2]
LadderLimits     == [b \in {b1, b2, b3} |-> IF b = b2 THEN Unlimited ELSE 1]

(* Three calls that crowd the two slots of one binding and the one slot of *)
(* another, one of them from the other end.                                *)
CrowdCandidates  == [c \in {c1, c2, c3} |->
                       IF c = c2 THEN <<b2, b1>> ELSE <<b1, b2>>]
CrowdNode        == [c \in {c1, c2, c3} |-> 0]
CrowdRetries     == [b \in {b1, b2} |-> 0]
CrowdLimits      == [b \in {b1, b2} |-> IF b = b1 THEN 2 ELSE 1]

=============================================================================
