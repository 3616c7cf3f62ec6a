--------------------------- MODULE DependencyWalk ---------------------------
(***************************************************************************)
(* What running an execution plan promises, without levels, inputs or      *)
(* caches: a graph is refused, or its nodes complete one at a time, each   *)
(* after everything it depends on, until a node fails or all of them,      *)
(* the root last, are complete.                                            *)
(***************************************************************************)
EXTENDS Integers, Sequences, SequencesExt

VARIABLES
  graph,    \* [edges : node -> Seq(node), root : node]
  done,
  status

vars == <<graph, done, status>>

Nodes == DOMAIN graph.edges
Needs(n) == Range(graph.edges[n])

Init == /\ \A n \in Nodes : graph.edges[n] \in Seq(Int)
        /\ done = {}
        /\ status = "planned"

Refuse == /\ status = "planned"
          /\ status' = "refused"
          /\ UNCHANGED <<graph, done>>

Admit == /\ status = "planned"
         /\ graph.root \in Nodes
         /\ status' = "walking"
         /\ UNCHANGED <<graph, done>>

CompleteNode(n) == /\ status = "walking"
                   /\ n \notin done
                   /\ Needs(n) \subseteq done
                   /\ done' = done \cup {n}
                   /\ UNCHANGED <<graph, status>>

Stop == /\ status = "walking"
        /\ status' = "stopped"
        /\ UNCHANGED <<graph, done>>

\* The root completes the walk: nothing is left to do when it is done.
Succeed == /\ status = "walking"
           /\ done = Nodes
           /\ status' = "succeeded"
           /\ UNCHANGED <<graph, done>>

CompleteSome == \E n \in Nodes : /\ n = graph.root => done = Nodes \ {n}
                                 /\ CompleteNode(n)

Next == Refuse \/ Admit \/ CompleteSome \/ Stop \/ Succeed

Spec == Init /\ [][Next]_vars
=============================================================================
