-------------------------- MODULE MCRuntimeHistory --------------------------
(* Two bindings.  Overlapping runs with the second of lower priority and a *)
(* window of two ages; single runs of fast and slow attempts with equal    *)
(* priorities, over every history a window of one age can hold.            *)
EXTENDS RuntimeHistory
CONSTANTS r1, r2

OverlapAndRanking ==
  {[priority |-> [b \in {1, 2} |-> b], slow |-> {FALSE}, window |-> 1,
    runs |-> {r1, r2}, stored |-> 4],
   [priority |-> [b \in {1, 2} |-> 1], slow |-> BOOLEAN, window |-> 0,
    runs |-> {r1}, stored |-> 5]}
=============================================================================
