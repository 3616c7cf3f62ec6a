------------------------------ MODULE Topology ------------------------------
(***************************************************************************)
(* graph/topology.py: the layered (Kahn) order of a dependency graph and   *)
(* the dependency closure of a set of roots.  A graph is a function from   *)
(* node ids to the sequence of ids each node depends on; an id outside the *)
(* domain is a dependency on a node that does not exist.  Node ids are     *)
(* integers, ordered as the code orders the id strings.                    *)
(***************************************************************************)
EXTENDS Subsequences

(* How many entries of n's dependency list name a member of ids: a repeated *)
(* entry counts as often as it is repeated.                                 *)
EntriesIn(graph, n, ids) ==
  Cardinality({i \in DOMAIN graph[n] : graph[n][i] \in ids})

(* Bug: a node enters the next level with its first visited dependency. *)
VisitLevelEagerly(graph, s) ==
  LET left == [n \in DOMAIN graph |-> s.left[n] - EntriesIn(graph, n, s.current)]
  IN  [left    |-> [n \in DOMAIN graph |-> IF left[n] < s.left[n] THEN 0 ELSE left[n]],
       current |-> {n \in DOMAIN graph : left[n] < s.left[n] /\ s.left[n] > 0},
       levels  |-> Append(s.levels, s.current)]

(* One turn of the while loop: everything in current is visited, and what  *)
(* has no unvisited dependency entry left is next.                         *)
VisitLevel(graph, s) ==
  LET left == [n \in DOMAIN graph |-> s.left[n] - EntriesIn(graph, n, s.current)]
  IN  [left    |-> left,
       current |-> {n \in DOMAIN graph : s.left[n] > 0 /\ left[n] = 0},
       levels  |-> Append(s.levels, s.current)]

StartVisit(graph) ==
  LET left == [n \in DOMAIN graph |-> EntriesIn(graph, n, DOMAIN graph)]
  IN  [left |-> left, current |-> {n \in DOMAIN graph : left[n] = 0}, levels |-> << >>]

(* The loop after k turns; it ends when nothing is current. *)
Turns(graph) ==
  LET turn[k \in 0..Cardinality(DOMAIN graph)] ==
        IF k = 0 THEN StartVisit(graph)
        ELSE IF turn[k - 1].current = {} THEN turn[k - 1]
        ELSE VisitLevel(graph, turn[k - 1])
  IN  turn

(* stable_topological_levels, first component: a sequence of sets.         *)
Levels(graph) == Turns(graph)[Cardinality(DOMAIN graph)].levels

(* ... and second component. *)
CyclicNodes(graph) == DOMAIN graph \ UNION Range(Levels(graph))

(* The order in which the coordinator walks the levels: the nodes of the   *)
(* first k, for every k.                                                    *)
Walked(graph) ==
  LET levels == Levels(graph)
      walk[k \in 0..Len(levels)] ==
        IF k = 0 THEN << >> ELSE walk[k - 1] \o Sorted(levels[k])
  IN  walk

Schedule(graph) == Walked(graph)[Len(Levels(graph))]

(* dependency_closure: the nodes met from roots, following only entries    *)
(* that name an existing node.                                             *)
Entries(graph, ids) == DOMAIN graph \cap UNION {Range(graph[n]) : n \in ids}

Reached(graph, roots) ==
  LET reach[k \in 0..Cardinality(DOMAIN graph)] ==
        IF k = 0 THEN roots \cap DOMAIN graph
        ELSE reach[k - 1] \cup Entries(graph, reach[k - 1])
  IN  reach

DependencyClosure(graph, roots) == Reached(graph, roots)[Cardinality(DOMAIN graph)]
=============================================================================
