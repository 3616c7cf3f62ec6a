-------------------------- MODULE MCPlanExecution --------------------------
(* Two families of small plans.  Most of their members are ill formed: the *)
(* validator has to refuse those.                                          *)
EXTENDS PlanExecution

Upto(S, n) == UNION {[1..k -> S] : k \in 0..n}

Node(id, role, dependencies) ==
  [id |-> id, cell |-> "cell", role |-> role, dependencies |-> dependencies,
   inputs |-> <<"r1">>, kinds |-> <<"analysis_request">>,
   binding |-> "b1", fallbacks |-> << >>]
Ref(id, kind) == [id |-> id, kind |-> kind, scope |-> PlanScope]

(* Every dependency graph on three nodes with at most two entries per      *)
(* list, over the three nodes and a node that does not exist.  The root is *)
(* the middle one, so that neither extreme of the id order is special.     *)
Dependencies == Upto({1, 2, 3, 9}, 2)
ThreeNodePlans ==
  {[nodes |-> <<Node(1, IF d1 = << >> THEN "leaf" ELSE "aggregator", d1),
                Node(2, "root", d2),
                Node(3, role3, d3)>>,
    bindings |-> <<[id |-> "b1", cell |-> "cell"]>>,
    references |-> <<Ref("r1", "analysis_request")>>,
    root |-> 2] :
     d1 \in Dependencies, d2 \in Dependencies, d3 \in Dependencies,
     role3 \in {"leaf", "aggregator"}}

(* Every graph on four nodes without repeats, self loops or missing nodes. *)
Lists(n) == {Sorted(s) : s \in SUBSET ((1..4) \ {n})}
FourNodePlans ==
  {[nodes |-> [n \in 1..4 |->
                 Node(n, IF n = 2 THEN "root"
                         ELSE IF d[n] = << >> THEN "leaf" ELSE "aggregator", d[n])],
    bindings |-> <<[id |-> "b1", cell |-> "cell"]>>,
    references |-> <<Ref("r1", "analysis_request")>>,
    root |-> 2] :
     d \in {<<d1, d2, d3, d4>> : d1 \in Lists(1), d2 \in Lists(2),
                                 d3 \in Lists(3), d4 \in Lists(4)}}

GraphPlans == ThreeNodePlans \cup FourNodePlans

(* A leaf and a root that depends on it, with every way to hand up to two  *)
(* of three references to each: repeated, missing, of the same kind or     *)
(* declared in another order; and a binding list that may not fit.         *)
References(scope3) ==
  <<Ref("r1", "analysis_request"), Ref("r2", "candle_batch"),
    [id |-> "r3", kind |-> "analysis_request", scope |-> scope3]>>
InputLists == Upto({"r1", "r2", "r3"}, 2)
KindLists == {<<"analysis_request">>, <<"analysis_request", "candle_batch">>,
              <<"candle_batch", "analysis_request">>,
              <<"analysis_request", "analysis_request">>, <<"candle_batch">>}
InputPlans ==
  {[nodes |-> <<[id |-> 1, cell |-> "leaf_cell", role |-> "leaf",
                 dependencies |-> << >>, inputs |-> i1, kinds |-> k1,
                 binding |-> "b1", fallbacks |-> f],
                [id |-> 2, cell |-> c2, role |-> "root",
                 dependencies |-> <<1>>, inputs |-> i2, kinds |-> k2,
                 binding |-> "b2", fallbacks |-> << >>]>>,
    bindings |-> <<[id |-> "b1", cell |-> "leaf_cell"],
                   [id |-> "b2", cell |-> c2]>>,
    references |-> SubSeq(References(scope3), 1, n),
    root |-> 2] :
     i1 \in InputLists, k1 \in KindLists, i2 \in InputLists, k2 \in KindLists,
     scope3 \in {PlanScope, "elsewhere"}, f \in {<< >>, <<"b2">>}, n \in 2..3, c2 \in {"cell", "unknown_cell"}}

(* The graphs with faultless surroundings, the inputs with all faults. *)
GraphsAndInputs ==
  {[plans |-> GraphPlans,
    world |-> [resolver |-> {"matching"}, executor |-> {"result", "error"},
               unregistered |-> {}, raises |-> FALSE]],
   [plans |-> InputPlans,
    world |-> [resolver |-> AnswersOfResolve, executor |-> AnswersOfExecutor,
               unregistered |-> {"unknown_cell"}, raises |-> TRUE]]}
=============================================================================
