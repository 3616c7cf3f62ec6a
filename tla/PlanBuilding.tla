---------------------------- MODULE PlanBuilding ----------------------------
(***************************************************************************)
(* From a request to an execution plan: the inputs the engine gathers      *)
(* (engine.py), the graph validator (graph/validation.py), the placement   *)
(* of every Cell by a policy the planner does not trust, the choice of     *)
(* input references, and the validation of the assembled plan              *)
(* (execution/planner.py).                                                 *)
(*                                                                         *)
(* A request is a record                                                   *)
(*   extras     : Seq([id, kind, scope])   snapshots handed to the engine, *)
(*                or direct references when engine is FALSE                *)
(*   engine     : TRUE when AnalysisEngine.run plans, FALSE when a caller  *)
(*                of build_execution_plan does                             *)
(*   manifests  : function from the registered Cells to [version, kinds]   *)
(*   nodes      : Seq([id, cell, role, dependencies])                      *)
(*   root       : a node id                                                *)
(*   organs     : Seq([id, members, outputs])                              *)
(* A binding of the catalog is [id, cell, text]: cell pairs a cell_id with *)
(* a formula_version, text stands for all its other fields.                *)
(***************************************************************************)
EXTENDS PlanValidation

CONSTANTS
  Requests,     \* requests a behaviour may start with
  Catalog,      \* the bindings of the capability catalog
  Decisions     \* what the placement policy may answer: [cell, ladder]

ASSUME CatalogAssumption ==          \* ServiceCapabilityCatalog.__post_init__
  \A b, c \in Catalog : b.id = c.id => b = c

ASSUME DecisionsAssumption ==        \* a decision always selects a binding
  \A d \in Decisions : d.ladder # << >> /\ d.ladder \in Seq(Range(d.ladder))

Primary == [id |-> "primary", kind |-> "analysis_request", scope |-> PlanScope]
KindOrder == <<"candle_batch", "feature_snapshot", "funding_open_interest_snapshot",
               "order_book_snapshot">>
SupportedKinds == Range(KindOrder) \cup {"analysis_request"}

(* The fields have their types, and references of the same reference_id    *)
(* are of the same kind. A snapshot's reference_id contains its kind       *)
(* (InputSnapshot.to_reference), and LocalInputResolver.register refuses a *)
(* snapshot whose id does not; of references somebody makes by hand for    *)
(* CellExecutionPlanner.build this is assumed.                             *)
ASSUME RequestsAssumption ==
  \A r \in Requests :
    /\ HasGraph(r)
    /\ r.engine \in BOOLEAN
    /\ r.extras \in Seq(Range(r.extras))
    /\ \A x \in Range(r.extras) : x.kind \in SupportedKinds
    /\ \A x, y \in Range(r.extras) \cup {Primary} : x.id = y.id => x.kind = y.kind
    /\ \A c \in DOMAIN r.manifests : r.manifests[c].kinds \in Seq(Range(r.manifests[c].kinds))
    /\ r.organs \in Seq(Range(r.organs))
    /\ \A o \in Range(r.organs) : o.members \in Seq(Int) /\ o.outputs \in Seq(Int)

VARIABLES
  request,
  phase,
  references,   \* the plan's input_references
  decisions,    \* cell -> the accepted ladder of bindings
  plan,         \* the plan, or NoPlan before assembly
  refusal       \* the issue codes of the error raised, or {}

vars == <<request, phase, references, decisions, plan, refusal>>

NoPlan == << >>
Phases == {"gathering", "graph", "placing", "composing", "validating",
           "built", "refused"}
Key(cell) == <<cell, request.manifests[cell].version>>
Placed == DOMAIN decisions
GraphCells == {n.cell : n \in Range(request.nodes)}

Init ==
  /\ request \in Requests
  /\ phase = "gathering"
  /\ references = << >>
  /\ decisions = << >>
  /\ plan = NoPlan
  /\ refusal = {}

Refuse(codes) ==
  /\ phase' = "refused"
  /\ refusal' = codes
  /\ UNCHANGED <<request, references, decisions, plan>>

-----------------------------------------------------------------------------
(* The inputs: _analysis_input_snapshots; without the engine, what the     *)
(* caller hands over, or the request alone.                                *)
(* Sorted by kind; no two of them have the same. *)
SortedByKind(refs) ==
  LET kinds == Kept(KindOrder, {i \in DOMAIN KindOrder :
                                  \E r \in Range(refs) : r.kind = KindOrder[i]})
  IN  [i \in DOMAIN kinds |-> CHOOSE r \in Range(refs) : r.kind = kinds[i]]

ExtrasAccepted(refs) ==
  /\ \A r \in Range(refs) : r.kind # "analysis_request" /\ r.scope = PlanScope
  /\ ~Repeats([i \in DOMAIN refs |-> refs[i].kind])

GatherInputs ==
  /\ phase = "gathering"
  /\ request.engine => ExtrasAccepted(request.extras)
  /\ references' = IF request.engine THEN <<Primary>> \o SortedByKind(request.extras)
                   ELSE IF request.extras = << >> THEN <<Primary>>
                   ELSE request.extras
  /\ phase' = "graph"
  /\ UNCHANGED <<request, decisions, plan, refusal>>

RefuseExtras ==
  /\ phase = "gathering"
  /\ request.engine /\ ~ExtrasAccepted(request.extras)
  /\ Refuse({"input_composition"})

-----------------------------------------------------------------------------
(* validate_cell_graph_definition.  Its checks of roots, dependencies,     *)
(* cycles and reachability read as those of the plan validator, and are    *)
(* written with the same operators; the Cells and the Organs are its own.  *)
GraphNodeIssues(g, n) ==
  DependencyIssues(g, n)
  \cup Code("missing_cell_implementation", n.cell \notin DOMAIN g.manifests)

(* Bug: an Organ need not contain what its members depend on. *)
OrganIssuesOpenEnded(g, o) ==
  LET node    == ById(g.nodes)
      members == Range(o.members) \cap DOMAIN node
      inside  == [n \in members |-> node[n].dependencies]
  IN  Code("organ_has_no_outputs", o.outputs = << >>)
      \cup Code("missing_organ_node", Range(o.members) \ DOMAIN node # {})
      \cup Code("organ_output_not_member", Range(o.outputs) \ Range(o.members) # {})
      \cup Code("organ_unreachable_node",
                /\ Range(o.outputs) \cap members # {}
                /\ members \ DependencyClosure(inside, Range(o.outputs)) # {})

OrganIssues(g, o) ==
  LET node    == ById(g.nodes)
      members == Range(o.members) \cap DOMAIN node
      inside  == [n \in members |-> node[n].dependencies]
  IN  Code("duplicate_organ_node", Repeats(o.members))
      \cup Code("duplicate_organ_output", Repeats(o.outputs))
      \cup Code("organ_has_no_outputs", o.outputs = << >>)
      \cup Code("missing_organ_node", Range(o.members) \ DOMAIN node # {})
      \cup Code("organ_output_not_member", Range(o.outputs) \ Range(o.members) # {})
      \cup Code("organ_dependency_outside_subgraph",
                \E n \in members :
                  (Range(inside[n]) \cap DOMAIN node) \ Range(o.members) # {})
      \cup Code("organ_unreachable_node",
                /\ Range(o.outputs) \cap members # {}
                /\ members \ DependencyClosure(inside, Range(o.outputs)) # {})

GraphIssues(g) ==
  Code("duplicate_node_id", Len(g.nodes) # Cardinality(Ids(g.nodes)))
  \cup RootIssues(g)
  \cup (UNION {GraphNodeIssues(g, n) : n \in Range(g.nodes)})
  \cup Code("duplicate_organ_id", Len(g.organs) # Cardinality(Ids(g.organs)))
  \cup (UNION {OrganIssues(g, o) : o \in Range(g.organs)})
  \cup CycleIssues(g)
  \cup ReachabilityIssues(g)

AcceptGraph ==
  /\ phase = "graph"
  /\ GraphIssues(request) = {}
  /\ phase' = "placing"
  /\ UNCHANGED <<request, references, decisions, plan, refusal>>

RefuseGraph ==
  /\ phase = "graph"
  /\ GraphIssues(request) # {}
  /\ Refuse(GraphIssues(request))

-----------------------------------------------------------------------------
(* candidates_for, the policy's select, and what _place checks of its      *)
(* answer.  The Cells are placed in the order the graph first names them.  *)
(* Bug: a service of another formula version counts as a candidate. *)
CandidatesByCellId(cell) == {b \in Catalog : b.cell[1] = cell}

CandidatesFor(cell) == {b \in Catalog : b.cell = Key(cell)}

FirstNaming(cell) ==
  CHOOSE i \in DOMAIN request.nodes :
    /\ request.nodes[i].cell = cell
    /\ \A j \in DOMAIN request.nodes : request.nodes[j].cell = cell => i <= j
IsNextCell(cell) ==
  /\ cell \in GraphCells \ Placed
  /\ \A c \in GraphCells \ Placed : FirstNaming(cell) <= FirstNaming(c)

LadderIds(ladder) == [i \in DOMAIN ladder |-> ladder[i].id]

(* Bug: candidates compared by binding_id alone. *)
AcceptableById(cell, decision) ==
  /\ decision.cell = Key(cell)
  /\ ~Repeats(LadderIds(decision.ladder))
  /\ \A b \in Range(decision.ladder) : b.id \in {c.id : c \in CandidatesFor(cell)}

Acceptable(cell, decision) ==
  /\ decision.cell = Key(cell)
  /\ ~Repeats(LadderIds(decision.ladder))
  /\ Range(decision.ladder) \subseteq CandidatesFor(cell)

Place(cell, decision) ==
  /\ phase = "placing"
  /\ IsNextCell(cell)
  /\ Acceptable(cell, decision)
  /\ decisions' = [c \in Placed \cup {cell} |->
                     IF c = cell THEN decision.ladder ELSE decisions[c]]
  /\ phase' = IF Placed \cup {cell} = GraphCells THEN "composing" ELSE "placing"
  /\ UNCHANGED <<request, references, plan, refusal>>

(* An answer _place does not accept; a policy raises when nothing fits. *)
RefusePlacement(cell) ==
  /\ phase = "placing"
  /\ IsNextCell(cell)
  /\ \/ CandidatesFor(cell) = {}
     \/ \E d \in Decisions : ~Acceptable(cell, d)
  /\ Refuse({"placement_unavailable"})

-----------------------------------------------------------------------------
(* _references_for_manifest, _node_for_graph_node and _plan_bindings.      *)
OfKind(k) == Kept(references, {i \in DOMAIN references : references[i].kind = k})

Composable(cell) ==
  LET kinds == request.manifests[cell].kinds
  IN  /\ ~Repeats(kinds)
      /\ "analysis_request" \in Range(kinds)
      /\ Range(kinds) \subseteq SupportedKinds
      /\ \A k \in Range(kinds) : Len(OfKind(k)) = 1

InputsFor(cell) ==
  LET kinds == request.manifests[cell].kinds
  IN  [i \in DOMAIN kinds |-> OfKind(kinds[i])[1].id]

NodeFor(n) ==
  LET ids == LadderIds(decisions[n.cell])
  IN  [id |-> n.id, cell |-> Key(n.cell), role |-> n.role,
       dependencies |-> n.dependencies, inputs |-> InputsFor(n.cell),
       kinds |-> request.manifests[n.cell].kinds,
       binding |-> Head(ids), fallbacks |-> Tail(ids)]

(* dict.fromkeys, seen_binding_ids: of the entries of seq with the same    *)
(* key, the first.                                                         *)
FirstOfEach(seq, keys) ==
  Kept(seq, {i \in DOMAIN seq : \A j \in 1..(i - 1) : keys[j] # keys[i]})

Joined(lists) ==
  LET join[k \in 0..Len(lists)] ==
        IF k = 0 THEN << >> ELSE join[k - 1] \o lists[k]
  IN  join[Len(lists)]

(* The bindings of all decisions, each id once, in the order of the Cells. *)
PlanBindings ==
  LET named == [i \in DOMAIN request.nodes |-> request.nodes[i].cell]
      cells == FirstOfEach(named, named)
      all   == Joined([i \in DOMAIN cells |-> decisions[cells[i]]])
  IN  FirstOfEach(all, LadderIds(all))

ComposeInputs ==
  /\ phase = "composing"
  /\ \A cell \in GraphCells : Composable(cell)
  /\ plan' = [nodes |-> [i \in DOMAIN request.nodes |-> NodeFor(request.nodes[i])],
              bindings |-> PlanBindings, references |-> references,
              root |-> request.root]
  /\ phase' = "validating"
  /\ UNCHANGED <<request, references, decisions, refusal>>

RefuseInputs ==
  /\ phase = "composing"
  /\ \E cell \in GraphCells : ~Composable(cell)
  /\ Refuse({"input_composition"})

AcceptPlan ==
  /\ phase = "validating"
  /\ ValidationIssues(plan) = {}
  /\ phase' = "built"
  /\ UNCHANGED <<request, references, decisions, plan, refusal>>

RefusePlan ==
  /\ phase = "validating"
  /\ ValidationIssues(plan) # {}
  /\ Refuse(ValidationIssues(plan))

Next ==
  \/ GatherInputs \/ RefuseExtras
  \/ AcceptGraph \/ RefuseGraph
  \/ \E cell \in GraphCells, d \in Decisions : Place(cell, d)
  \/ \E cell \in GraphCells : RefusePlacement(cell)
  \/ ComposeInputs \/ RefuseInputs
  \/ AcceptPlan \/ RefusePlan

Spec == Init /\ [][Next]_vars

-----------------------------------------------------------------------------
(* The stages of a build and what each has produced.                       *)
TypeOK ==
  /\ phase \in Phases
  /\ Placed \subseteq GraphCells
  /\ phase \in {"composing", "validating", "built"} => Placed = GraphCells
  /\ plan # NoPlan => phase \in {"validating", "built", "refused"}
  /\ \A b \in UNION {Range(decisions[c]) : c \in Placed} : b \in Catalog
  /\ phase = "refused" <=> refusal # {}

(* The planner never assembles a plan the plan validator faults, except    *)
(* for what only the caller's references can cause: a repeated id, another *)
(* scope, or a reference no Cell wants.  When the engine gathered the      *)
(* references, only the last can happen.  This relates two validators      *)
(* written separately and the planner between them.                        *)
CallerFaults == {"unused_input_reference", "input_reference_scope_mismatch",
                 "duplicate_input_reference_id"}
PlannerFaultless ==
  phase = "validating" =>
    ValidationIssues(plan) \subseteq IF request.engine THEN {"unused_input_reference"}
                                                       ELSE CallerFaults

(* Whatever the placement policy answers, every binding a node of a built  *)
(* plan names resolves, in the plan, to the entry of the catalog itself,   *)
(* for the node's Cell and formula version, and no ladder repeats one.     *)
LaddersAreCatalogued ==
  phase = "built" =>
    \A n \in Range(plan.nodes) :
      LET ladder == <<n.binding>> \o n.fallbacks
      IN  /\ ~Repeats(ladder)
          /\ \A id \in Range(ladder) : \E b \in Catalog :
               b.id = id /\ b = ById(plan.bindings)[id] /\ b.cell = n.cell

(* An Organ of an accepted graph is exactly the dependency closure of its  *)
(* outputs in the whole graph (docs: an Organ contains the full closure of *)
(* its outputs), though the code looks at the members only.                *)
OrgansAreClosed ==
  phase = "placing" =>
    \A o \in Range(request.organs) :
      Range(o.members) = DependencyClosure(Graph(request), Range(o.outputs))

(* A caller of the engine is refused for its extra inputs alone: if every  *)
(* extra is one some Cell requires and every Cell's kinds are among those  *)
(* given, once, a graph that was accepted and placed is always built.      *)
Wanted == UNION {Range(request.manifests[c].kinds) : c \in GraphCells}
FittingInputsSuffice ==
  phase = "refused" /\ Placed = GraphCells /\ request.engine =>
    \/ Wanted # {"analysis_request"} \cup {r.kind : r \in Range(request.extras)}
    \/ \E c \in GraphCells : LET kinds == request.manifests[c].kinds
                             IN  Repeats(kinds) \/ "analysis_request" \notin Range(kinds)

(* Planner and validators fit together: no plan is assembled only to be    *)
(* refused, and no request that could be planned is refused.               *)
AssemblyInv == TypeOK /\ PlannerFaultless /\ FittingInputsSuffice

=============================================================================
