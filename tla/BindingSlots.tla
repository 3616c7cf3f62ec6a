----------------------------- MODULE BindingSlots -----------------------------
(***************************************************************************)
(* What admission control promises: each service binding has a number of   *)
(* slots, a call occupies at most one slot of one binding at a time, and   *)
(* entering a binding whose slots are all taken is impossible.             *)
(***************************************************************************)
EXTENDS Integers, FiniteSets

CONSTANTS Calls, Bindings, MaxConcurrency, Unlimited

VARIABLE occupants      \* [Bindings -> SUBSET Calls]

Init == occupants = [b \in Bindings |-> {}]

HasRoom(b) ==
  \/ MaxConcurrency[b] = Unlimited
  \/ Cardinality(occupants[b]) < MaxConcurrency[b]

Enter(c, b) ==
  /\ \A other \in Bindings : c \notin occupants[other]
  /\ HasRoom(b)
  /\ occupants' = [occupants EXCEPT ![b] = @ \cup {c}]

Leave(c, b) ==
  /\ c \in occupants[b]
  /\ occupants' = [occupants EXCEPT ![b] = @ \ {c}]

Next == \E c \in Calls, b \in Bindings : Enter(c, b) \/ Leave(c, b)

Spec == Init /\ [][Next]_occupants
=============================================================================
