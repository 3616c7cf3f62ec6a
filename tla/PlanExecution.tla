---------------------------- MODULE PlanExecution ----------------------------
(***************************************************************************)
(* PlanDrivenLocalCoordinator.execute (execution/coordinator.py) on a plan *)
(* that validate_execution_plan has accepted: the walk over the levels,    *)
(* the inputs of every node (resolved once per reference and run, audited  *)
(* once per node), the executor call and the completion handler.           *)
(*                                                                         *)
(* The plan is part of the state: a behaviour starts with any plan of a     *)
(* world, well formed or not, and validates it first.                      *)
(***************************************************************************)
EXTENDS PlanValidation, TLC

CONSTANTS
  Worlds  \* sets of plans, each with the surroundings they are executed in:
          \* resolver      what InputResolver.resolve may answer
          \* executor      what the CellExecutor may answer
          \* unregistered  cells the registry cannot resolve
          \* raises        TRUE when on_node_completed may raise

\* A resolved snapshot matches its reference, differs from it in content or
\* kind, or matches but holds no readable request; or resolve() raises.
SnapshotAnswers == {"matching", "other_content", "other_kind", "unreadable"}
AnswersOfResolve == SnapshotAnswers \cup {"raises"}
\* "unaudited": the outcome's control record, traces or result contradict the
\* plan; "raises": no outcome at all.
AnswersOfExecutor == {"result", "error", "unaudited", "raises"}
FailureOf == [error |-> "execution", unaudited |-> "audit", raises |-> "executor"]

ASSUME EnvironmentAssumption ==
  \A w \in Worlds :
    /\ w.world.resolver \subseteq AnswersOfResolve
    /\ w.world.executor \subseteq AnswersOfExecutor
    /\ w.world.raises \in BOOLEAN

ASSUME PlanAssumption == \A w \in Worlds : \A p \in w.plans : IsPlan(p)

VARIABLES
  world,              \* the surroundings; they never change
  plan,
  phase,              \* where execute() is; see Phases
  schedule,           \* validated_plan.topological_levels, flattened
  execution_order,
  results,            \* DOMAIN of results_by_node_id
  resolved_inputs,    \* reference id -> snapshot (its answer)
  materialized,       \* DOMAIN of materialized_requests
  records,            \* input_resolution_records
  attempted,          \* nodes whose traces and control record are kept
  inputs_left,        \* of the current node, not composed yet
  error               \* of the failed outcome, or "none"

vars == <<world, plan, phase, schedule, execution_order, results, resolved_inputs,
          materialized, records, attempted, inputs_left, error>>

Phases == {"planned", "rejected", "next_node", "inputs", "composed",
           "succeeded", "failed", "raised"}
Errors == {"none", "registry", "resolution", "composition", "lookup",
           "execution", "audit", "executor", "missing_root"}

-----------------------------------------------------------------------------
NodeOf(id) == ById(plan.nodes)[id]
Current == NodeOf(Last(execution_order))
Reference(r) == ById(plan.references)[r]

OtherKind(kind) ==
  IF kind = "analysis_request" THEN "candle_batch" ELSE "analysis_request"
SnapshotKind(r) ==
  IF resolved_inputs[r] = "other_kind" THEN OtherKind(Reference(r).kind)
                                       ELSE Reference(r).kind

Record(r, status, hit, snapshot) ==
  [node_id |-> Last(execution_order), reference_id |-> r, status |-> status,
   cache_hit |-> hit, snapshot |-> snapshot]

Records == [node_id : Int, reference_id : Ids(plan.references),
            status : {"succeeded", "failed"}, cache_hit : BOOLEAN,
            snapshot : SnapshotAnswers \cup {"none"}]

TypeOK ==
  /\ \A n \in Range(plan.nodes) : n.role \in {"leaf", "aggregator", "root"}
  /\ phase \in Phases
  /\ error \in Errors
  /\ IsPrefix(execution_order, schedule)
  /\ results \subseteq Range(execution_order)
  /\ DOMAIN resolved_inputs \subseteq Ids(plan.references)
  /\ Range(resolved_inputs) \subseteq SnapshotAnswers
  /\ materialized \subseteq DOMAIN resolved_inputs
  /\ Range(records) \subseteq Records
  /\ Range(attempted) \subseteq Range(execution_order)
  /\ execution_order # << >> => IsSuffix(inputs_left, Current.inputs)

Init ==
  /\ \E w \in Worlds : plan \in w.plans /\ world = w.world
  /\ phase = "planned"
  /\ schedule = << >>
  /\ execution_order = << >>
  /\ results = {}
  /\ resolved_inputs = << >>
  /\ materialized = {}
  /\ records = << >>
  /\ attempted = << >>
  /\ inputs_left = << >>
  /\ error = "none"

walk == <<execution_order, results, attempted>>
inputs == <<resolved_inputs, materialized, records, inputs_left>>

(* validate_execution_plan *)
Reject ==
  /\ phase = "planned"
  /\ ValidationIssues(plan) # {}
  /\ phase' = "rejected"
  /\ UNCHANGED <<world, plan, schedule, walk, inputs, error>>

Accept ==
  /\ phase = "planned"
  /\ ValidationIssues(plan) = {}
  /\ schedule' = Schedule(Graph(plan))
  /\ phase' = "next_node"
  /\ UNCHANGED <<world, plan, walk, inputs, error>>

(* The except branch: the completion is reported and a failed outcome is   *)
(* returned, unless the handler raises out of execute().                   *)
Fail(why) ==
  /\ error' = why
  /\ \/ phase' = "failed"
     \/ world.raises /\ phase' = "raised"
  /\ UNCHANGED <<world, plan, schedule, results>>

BeginNode ==
  /\ phase = "next_node"
  /\ Len(execution_order) < Len(schedule)
  /\ LET id == schedule[Len(execution_order) + 1] IN
     /\ execution_order' = Append(execution_order, id)
     /\ UNCHANGED <<resolved_inputs, materialized, records, attempted>>
     /\ \/ /\ NodeOf(id).cell \in world.unregistered
           /\ inputs_left' = << >>
           /\ Fail("registry")
        \/ /\ NodeOf(id).cell \notin world.unregistered
           /\ inputs_left' = NodeOf(id).inputs
           /\ phase' = "inputs"
           /\ UNCHANGED <<world, plan, schedule, results, error>>

(* _compose_cell_inputs, one reference at a time *)
Cached(r) == r \in DOMAIN resolved_inputs

(* Bug: only what was actually resolved is audited. *)
ReadCachedSilently ==
  /\ phase = "inputs"
  /\ inputs_left # << >>
  /\ Cached(Head(inputs_left))
  /\ inputs_left' = Tail(inputs_left)
  /\ UNCHANGED <<world, plan, phase, schedule, walk, resolved_inputs, materialized,
                 records, error>>

ReadCached ==
  /\ phase = "inputs"
  /\ inputs_left # << >>
  /\ Cached(Head(inputs_left))
  /\ LET r == Head(inputs_left) IN
       records' = Append(records, Record(r, "succeeded", TRUE, resolved_inputs[r]))
  /\ inputs_left' = Tail(inputs_left)
  /\ UNCHANGED <<world, plan, phase, schedule, walk, resolved_inputs, materialized, error>>

ResolveInput ==
  /\ phase = "inputs"
  /\ inputs_left # << >>
  /\ ~Cached(Head(inputs_left))
  /\ \E answer \in world.resolver \cap SnapshotAnswers :
       LET r == Head(inputs_left) IN
       /\ resolved_inputs' = [x \in DOMAIN resolved_inputs \cup {r} |->
                                IF x = r THEN answer ELSE resolved_inputs[x]]
       /\ records' = Append(records, Record(r, "succeeded", FALSE, answer))
  /\ inputs_left' = Tail(inputs_left)
  /\ UNCHANGED <<world, plan, phase, schedule, walk, materialized, error>>

ResolveFails ==
  /\ phase = "inputs"
  /\ inputs_left # << >>
  /\ ~Cached(Head(inputs_left))
  /\ "raises" \in world.resolver
  /\ records' = Append(records, Record(Head(inputs_left), "failed", FALSE, "none"))
  /\ Fail("resolution")
  /\ UNCHANGED <<execution_order, attempted, resolved_inputs, materialized,
                 inputs_left>>

RequestReferences ==
  {r \in Range(Current.inputs) : SnapshotKind(r) = "analysis_request"}

(* to_analysis_request, once per reference: the materialized request is    *)
(* kept even when the bundle around it is then refused.                    *)
Materializable ==
  \A r \in RequestReferences \ materialized : resolved_inputs[r] # "unreadable"

(* ResolvedCellInput.__post_init__ and CellInputBundle.__post_init__ *)
BundleAccepted ==
  LET refs == Current.inputs IN
  /\ refs # << >>
  /\ \A i \in DOMAIN refs :
       resolved_inputs[refs[i]] \in {"matching", "unreadable"}
  /\ ~Repeats(refs)
  /\ ~Repeats(Current.kinds)
  /\ "analysis_request" \in Range(Current.kinds)
  /\ [i \in DOMAIN refs |-> SnapshotKind(refs[i])] = Current.kinds
  /\ \A r \in Range(refs) : Reference(r).scope = PlanScope

Compose ==
  /\ phase = "inputs"
  /\ inputs_left = << >>
  /\ UNCHANGED <<execution_order, attempted, resolved_inputs, records, inputs_left>>
  /\ \/ /\ Cardinality(RequestReferences) # 1 \/ ~Materializable
        /\ Fail("composition")
        /\ UNCHANGED materialized
     \/ /\ Cardinality(RequestReferences) = 1 /\ Materializable
        /\ materialized' = materialized \cup RequestReferences
        /\ IF BundleAccepted
           THEN phase' = "composed" /\ UNCHANGED <<world, plan, schedule, results, error>>
           ELSE Fail("composition")

(* Bug: only what passed the checks is kept. *)
KeepAcceptedAttempts ==
  attempted' = IF phase' = "failed" THEN attempted
               ELSE Append(attempted, Last(execution_order))

(* The outcome's traces and its control record are kept before they are    *)
(* checked, so that a rejected one is still in the failed outcome.         *)
KeepAttempts == attempted' = Append(attempted, Last(execution_order))

(* results_by_node_id[dependency_id] is read for every dependency, in order, *)
(* before the executor is called.                                            *)
ChildResultsPresent == Range(Current.dependencies) \subseteq results

ExecutorSucceeds ==
  /\ phase = "composed"
  /\ ChildResultsPresent
  /\ "result" \in world.executor
  /\ results' = results \cup {Last(execution_order)}
  /\ \/ phase' = "next_node"
     \/ world.raises /\ phase' = "raised"
  /\ KeepAttempts
  /\ UNCHANGED <<world, plan, schedule, execution_order, inputs, error>>

ExecutionFails ==
  /\ phase = "composed"
  /\ \E why \in IF ChildResultsPresent
               THEN {FailureOf[x] : x \in world.executor \ {"result"}}
               ELSE {"lookup"} :
       /\ Fail(why)
       /\ IF why \in {"lookup", "executor"} THEN UNCHANGED attempted
                                           ELSE KeepAttempts
  /\ UNCHANGED <<execution_order, inputs>>

Finish ==
  /\ phase = "next_node"
  /\ Len(execution_order) = Len(schedule)
  /\ phase' = IF plan.root \in results THEN "succeeded" ELSE "failed"
  /\ error' = IF plan.root \in results THEN "none" ELSE "missing_root"
  /\ UNCHANGED <<world, plan, schedule, walk, inputs>>

Next ==
  \/ Reject \/ Accept \/ BeginNode
  \/ ReadCached \/ ResolveInput \/ ResolveFails \/ Compose
  \/ ExecutorSucceeds \/ ExecutionFails \/ Finish

Spec == Init /\ [][Next]_vars

-----------------------------------------------------------------------------
(* Properties *)

Accepted == phase \notin {"planned", "rejected"}
RecordsOf(id) == Kept(records, {i \in DOMAIN records : records[i].node_id = id})

(* "Each reference_id is actually resolved at most once in a run"          *)
(* (stability_design.md section 5): whatever resolve() answers, and however *)
(* many nodes read the reference, one record at most is not a cache hit,   *)
(* and all nodes that got the input got the same snapshot.                 *)
ResolvedOnce ==
  \A i, j \in DOMAIN records :
    records[i].reference_id = records[j].reference_id =>
      /\ ~records[i].cache_hit /\ ~records[j].cache_hit => i = j
      /\ records[i].snapshot = records[j].snapshot

(* Every input of every node that went on to run is in the audit records,  *)
(* cache hits included, in the order the node declares its inputs.         *)
InputsAudited ==
  \A id \in results \cup Range(attempted) :
    /\ [i \in DOMAIN RecordsOf(id) |-> RecordsOf(id)[i].reference_id]
         = NodeOf(id).inputs
    /\ \A i \in DOMAIN RecordsOf(id) : RecordsOf(id)[i].status = "succeeded"

(* What a finished, failed or running plan says of its inputs is what its  *)
(* nodes got: resolved once, and recorded for every node that ran.         *)
ResolutionInv == TypeOK /\ ResolvedOnce /\ InputsAudited

(* What validation lets through can be run: with a resolver that hands out *)
(* the snapshots the plan names and a registry that knows its cells, no    *)
(* node fails because of the plan itself, whatever lists the plan repeats, *)
(* reorders or leaves dangling: not in the composition of its inputs, not  *)
(* in the lookup of a child result, and not for want of a root result.     *)
AcceptedPlansRun ==
  /\ error = "composition" =>
       \E r \in DOMAIN resolved_inputs : resolved_inputs[r] # "matching"
  /\ error \notin {"lookup", "missing_root"}

(* PlanExecutionOutcome tells the truth: a success has every node's result *)
(* and the root's last; a failure names the last node begun, has the       *)
(* results of exactly the nodes before it and not the root's, and keeps    *)
(* the attempts of every node whose executor call returned.                *)
OutcomeHonest ==
  /\ phase = "succeeded" =>
       /\ results = Ids(plan.nodes)
       /\ Last(execution_order) = plan.root
       /\ attempted = execution_order
  /\ phase = "failed" =>
       /\ results = Range(Front(execution_order))
       /\ Last(execution_order) \notin results
       /\ plan.root \notin results
       /\ attempted = IF error \in {"execution", "audit"} THEN execution_order
                      ELSE Front(execution_order)

(* An accepted plan is walked level by level: every node is scheduled      *)
(* once, one level after the last of its dependencies, and the root, which *)
(* everything leads to, is alone in the last level.                        *)
LevelOf(id) == CHOOSE k \in DOMAIN Levels(Graph(plan)) :
                 id \in Levels(Graph(plan))[k]
LevelsAreEarliest ==
  phase = "next_node" /\ execution_order = << >> =>
    /\ Len(schedule) = Cardinality(Ids(plan.nodes))
    /\ Range(schedule) = Ids(plan.nodes)
    /\ Last(Levels(Graph(plan))) = {plan.root}
    /\ \A id \in Ids(plan.nodes) :
         LET needs == Range(NodeOf(id).dependencies) IN
         /\ \A d \in needs : LevelOf(d) < LevelOf(id)
         /\ LevelOf(id) > 1 => \E d \in needs : LevelOf(d) + 1 = LevelOf(id)

(* The coordinator implements DependencyWalk.  A handler that raises takes *)
(* the last node's result with it: to a caller the walk stopped before it. *)
Done == IF phase = "raised" THEN Range(Front(execution_order)) ELSE results
WalkStatus ==
  CASE phase = "planned"            -> "planned"
    [] phase = "rejected"           -> "refused"
    [] phase = "succeeded"          -> "succeeded"
    [] phase \in {"failed", "raised"} -> "stopped"
    [] OTHER                        -> "walking"
Walk == INSTANCE DependencyWalk
          WITH graph <- [edges |-> Graph(plan), root |-> plan.root],
               done <- Done, status <- WalkStatus
ImplementsDependencyWalk == Walk!Spec
=============================================================================
