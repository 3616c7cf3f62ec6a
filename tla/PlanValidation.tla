--------------------------- MODULE PlanValidation ---------------------------
(***************************************************************************)
(* execution/plan_validation.py: what validate_execution_plan finds wrong  *)
(* with a plan, as the set of issue codes it would report.                 *)
(*                                                                         *)
(* A plan is a record                                                      *)
(*   nodes      : Seq([id, cell, role, dependencies, inputs, kinds,        *)
(*                     binding, fallbacks])                                *)
(*   bindings   : Seq([id, cell])     cell stands for cell_id and          *)
(*                                    formula_version together             *)
(*   references : Seq([id, kind, scope])                                   *)
(*   root       : a node id                                                *)
(***************************************************************************)
EXTENDS Topology

PlanScope == "plan_scope"    \* the plan's own target and horizon

(* What the types of CellExecutionPlan and its parts say of any plan, well *)
(* formed or not: its lists are lists.                                     *)
HasGraph(plan) ==
  /\ plan.nodes \in Seq(Range(plan.nodes))
  /\ \A n \in Range(plan.nodes) :
       /\ n.id \in Int
       /\ n.role \in {"leaf", "aggregator", "root"}
       /\ n.dependencies \in Seq(Int)

IsPlan(plan) ==
  /\ HasGraph(plan)
  /\ plan.references \in Seq(Range(plan.references))
  /\ \A n \in Range(plan.nodes) :
       /\ n.inputs \in Seq(Range(n.inputs))
       /\ n.kinds \in Seq(Range(n.kinds))

Ids(seq) == {seq[i].id : i \in DOMAIN seq}

(* _unique_nodes, _unique_bindings, _unique_input_references: the first    *)
(* entry of an id wins.                                                    *)
ById(seq) ==
  [x \in Ids(seq) |->
     seq[CHOOSE i \in DOMAIN seq :
           seq[i].id = x /\ \A j \in DOMAIN seq : seq[j].id = x => i <= j]]

Repeats(seq) == Cardinality(Range(seq)) # Len(seq)

Code(name, holds) == IF holds THEN {name} ELSE {}

Graph(plan) == LET node == ById(plan.nodes)
               IN  [n \in DOMAIN node |-> node[n].dependencies]

ScopeIssues(plan) ==
  Code("input_reference_scope_mismatch",
       \E i \in DOMAIN plan.references : plan.references[i].scope # PlanScope)

RootIssues(plan) ==
  LET node == ById(plan.nodes) IN
  Code("missing_root", plan.root \notin DOMAIN node)
  \cup Code("invalid_root_role",
            plan.root \in DOMAIN node /\ node[plan.root].role # "root")
  \cup Code("unexpected_root_role",
            \E i \in DOMAIN plan.nodes :
              plan.nodes[i].role = "root" /\ plan.nodes[i].id # plan.root)

DependencyIssues(plan, n) ==
  Code("leaf_has_dependencies", n.role = "leaf" /\ n.dependencies # << >>)
  \cup Code("duplicate_dependency", Repeats(n.dependencies))
  \cup Code("self_dependency", n.id \in Range(n.dependencies))
  \cup Code("missing_dependency",
            Range(n.dependencies) \ (Ids(plan.nodes) \cup {n.id}) # {})

(* Bug: the declared order of the kinds not compared. *)
InputIssuesAnyOrder(plan, n) ==
  LET ref      == ById(plan.references)
      known    == Kept(n.inputs, {i \in DOMAIN n.inputs : n.inputs[i] \in DOMAIN ref})
      kinds    == [i \in DOMAIN known |-> ref[known[i]].kind]
  IN Code("missing_input_reference", Range(n.inputs) \ DOMAIN ref # {})
     \cup Code("duplicate_node_input_reference", Repeats(n.inputs))
     \cup Code("duplicate_required_input_kind", Repeats(n.kinds))
     \cup Code("missing_required_input_kind",
               \/ "analysis_request" \notin Range(n.kinds)
               \/ Range(n.kinds) \ Range(kinds) # {})
     \cup Code("unexpected_input_kind", Range(kinds) \ Range(n.kinds) # {})

(* _validate_node_input_kinds and the reference checks before it. *)
InputIssues(plan, n) ==
  LET ref      == ById(plan.references)
      known    == Kept(n.inputs, {i \in DOMAIN n.inputs : n.inputs[i] \in DOMAIN ref})
      kinds    == [i \in DOMAIN known |-> ref[known[i]].kind]
      required == Range(n.kinds)
  IN Code("missing_node_input_reference", n.inputs = << >>)
     \cup Code("duplicate_node_input_reference", Repeats(n.inputs))
     \cup Code("missing_input_reference", Range(n.inputs) \ DOMAIN ref # {})
     \cup Code("duplicate_required_input_kind", Repeats(n.kinds))
     \cup Code("missing_required_input_kind",
               \/ "analysis_request" \notin required
               \/ required \ Range(kinds) # {})
     \cup Code("unexpected_input_kind",
               \/ Range(kinds) \ required # {}
               \/ Repeats(kinds)
               \/ /\ ~Repeats(n.kinds)
                  /\ required = Range(kinds)
                  /\ n.kinds # kinds)

BindingIssues(plan, n) ==
  LET binding == ById(plan.bindings) IN
  Code("duplicate_fallback_binding", Repeats(n.fallbacks))
  \cup Code("primary_binding_in_fallback", n.binding \in Range(n.fallbacks))
  \cup Code("missing_binding", n.binding \notin DOMAIN binding)
  \cup Code("missing_fallback_binding",
            Range(n.fallbacks) \ DOMAIN binding # {})
  \cup Code("binding_mismatch",
            n.binding \in DOMAIN binding /\ binding[n.binding].cell # n.cell)
  \cup Code("fallback_binding_mismatch",
            \E b \in Range(n.fallbacks) \cap DOMAIN binding :
              binding[b].cell # n.cell)

UsageIssues(plan) ==
  LET nodes == Range(plan.nodes)
      usedBindings == UNION {{n.binding} \cup Range(n.fallbacks) : n \in nodes}
      usedInputs   == UNION {Range(n.inputs) : n \in nodes}
  IN Code("unused_binding", Ids(plan.bindings) \ usedBindings # {})
     \cup Code("unused_input_reference", Ids(plan.references) \ usedInputs # {})

(* Bug: nodes that nothing leads to are let through. *)
NoReachabilityIssues(plan) == {}

ReachabilityIssues(plan) ==
  Code("unreachable_node",
       /\ plan.root \in Ids(plan.nodes)
       /\ DOMAIN Graph(plan) \ DependencyClosure(Graph(plan), {plan.root}) # {})

CycleIssues(plan) == Code("cycle_detected", CyclicNodes(Graph(plan)) # {})

ValidationIssues(plan) ==
  Code("duplicate_node_id", Len(plan.nodes) # Cardinality(Ids(plan.nodes)))
  \cup Code("duplicate_binding_id",
            Len(plan.bindings) # Cardinality(Ids(plan.bindings)))
  \cup Code("duplicate_input_reference_id",
            Len(plan.references) # Cardinality(Ids(plan.references)))
  \cup ScopeIssues(plan)
  \cup RootIssues(plan)
  \cup (UNION {DependencyIssues(plan, n) \cup InputIssues(plan, n)
               \cup BindingIssues(plan, n) : n \in Range(plan.nodes)})
  \cup UsageIssues(plan)
  \cup CycleIssues(plan)
  \cup ReachabilityIssues(plan)
=============================================================================
