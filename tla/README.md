# Market Cell verification

TLA+ models, model-checking configurations and machine-checked proofs about the
Python implementation of Market Cell (`packages/python/src/market_cell`; paths
below are relative to it unless they start with `docs/`, `validation/` or
`crates/`). The code is the reference: every definition of a module translates
lines of it, and `PROJECT.json` ("map") names those lines.

Contents: 1 the system and its parts · 2 modules · 3 runs · 4 fairness, bounds
and stuttering · 5 proofs · 6 what the code and its documents disagree on ·
7 what is not modelled · 8 plan

## 1. The system and its parts

Market Cell analyses a market by running a graph of *Cells* (small analysers)
and combining their results into a decision. One analysis is one *run*:

    CLI / MultiHorizonAnalyzer
        -> AnalysisEngine.run              events, run record, report files
             -> CellExecutionPlanner       graph + catalog + placement -> plan
             -> PlanDrivenLocalCoordinator validates and walks the plan
                  -> LocalInputResolver    inputs of a node, once per reference
                  -> FailureControlledExecutor   retry, fallback, deadline, slots
                       -> ExecutorRouter / LocalCellExecutor -> MarketCell
             -> RuntimeSummaryStore        traces; snapshots rank later placements
             -> FileSystemReportStore      <run>-report.json, <run>-run.json

| Part | State it keeps | Operations | Hard behaviour | What makes it correct |
|---|---|---|---|---|
| Failure control (`execution/control.py`, records in `execution/models.py`) | slot counters per binding (shared by threads, under a lock), cancellation token, the attempts of each call | execute, cancel, try_acquire, release | threads compete for slots; cancellation and deadlines race an attempt; retries and fallbacks of Cells with side effects; a controller that raises | limits hold and slots do not leak; effects happen at most once; canceled work is not accepted; the attempt policy of ADR-0005; every call ends |
| Plan validation, topology (`execution/plan_validation.py`, `graph/topology.py`) | none | validate, level order, closure | repeated, dangling, cyclic entries | what is accepted can be walked; levels are the earliest possible |
| Coordinator (`execution/coordinator.py`, `inputs/`) | results, traces, resolution cache and records of one run | execute | failures in the middle of a plan, wrong or raising resolver, executor, handler | inputs resolved once, every one audited; the outcome says what happened |
| Engine, runs, events, report files (`engine.py`, `runs.py`, `events.py`, `reports/store.py`) | run record, two files per run, in-process history of events | run, emit, save | handlers and stores that raise at any point; crash between two files | a returned run is durable; a succeeded run has its report; a failed run keeps its execution |
| Runtime history and placement (`execution/runtime_store.py`, `execution/placement.py`) | stored traces | save_traces, snapshot, select | feedback between overlapping runs, ageing window | no starvation; neutral outcomes are neutral; nothing withheld without cause |
| Graph validation, planner, catalog, registry (`graph/`, `execution/planner.py`, `execution/catalog.py`, `registry.py`) | none | validate, candidates_for, build | Organ membership; a policy returning foreign bindings; missing or repeated input kinds; two validators | what the first validator and the planner let through the second never faults; bindings are the catalog's own; Organs are closed |
| Router, local executor, summaries (`execution/router.py`, `execution/executor.py`, `execution/telemetry.py`) | route tables | execute, summarise | executors that raise, answer for somebody else, replay an old answer; three sets of checks over the same traces | an accepted result comes from the planned binding; a trace never claims what nobody did; honest attempts pass every check |
| Multi-horizon analysis (`horizons/runner.py`, `models.py`, `validation.py`) | reports completed so far | run | failure after some horizons; engines that drift after they were compared | the error carries exactly the finished prefix; one graph, one formula set |
| Multi-horizon decision (`horizons/policy.py`, `decision.py`, `decision_models.py`) | none | evaluate, and a contract that checks the result again | thresholds judged before and after rounding; conflicts in and between bands | every complete analysis is decided; conflicts are never averaged away; no side is preferred; risk only covers the posture |
| Decision policy and scoring (`policies/decision.py`, `scoring.py`, `cells/decision.py`) | none | run | half-way values | as above, for the report of one horizon |
| Data sources (`data/sources.py`, `cache.py`, `router_plan.py`, adapters) | candle cache files, shared by clients | to_router, fetch, load, save | sources that fail or return bad data; writers that meet, fail or die in one cache file | first usable source in plan order; a readable cache file is a usable batch of its own source and query; every fetch ends |
| Data quality and provider selection (`data/quality.py`, `monitoring.py`, `quality_store.py`, `health.py`, `provider_selection.py`) | append-only issue log | inspect, compare, record, summarise, select | feedback of the log into selection; averages that hide a collapse; a crash in an append | a collapsed provider is not selected; a worse record never helps; a clean batch has no holes |
| Columnar storage (`data/storage.py`) | Parquet files | save, fetch | optional libraries | — |
| Replay (`replay/runner.py`) | none | replay, compare | drift of formulas, graphs, inputs | stable exactly when nothing differs |
| Cells, features (`cells/`, `features/`) | none | run | floats, labels at thresholds | judged by `validation/cells` |
| CLI, performance, canonical models, hashing, contracts, crates | none | — | — | — |

Interactions are calls in one process; a run uses one thread, and several
threads may run engines that share an executor, its admission controller and a
trace store. There is no network protocol and no persistent queue: files are the
only thing that outlives the process.

The hazards this code is exposed to, each at its line and with the properties
that would catch it, are listed in `PROJECT.json` ("hazards").

## 2. Modules

### FailureControl — `FailureControlledExecutor` and the admission controller
One process per call (`Calls`). `pc` names the place a call has reached in
`execute`/`_execute_attempt`: before the attempt, at admission, in the delegate,
releasing the lease, judging the outcome. Each action is the code between two
points where another thread, the delegate or the token can interfere:
`CanceledBeforeAttempt`/`PassCancellationCheck`, `Admit`/`Reject`/
`AdmissionRaises`, `DelegateReturns`, `ReleaseLease`/`ReleaseRaises`, `Judge`.
`Settle` classifies the outcome, appends the attempt record and retries, falls
back or concludes in the same step, as the loop body does. `active` is the
controller's counter, `lease` the lease object held, `probe` a history variable
(did the Cell possibly act, was the token set when the delegate returned).
Messages, timings and idempotency keys are left out; a late result is a choice.

`BindingSlots` (abstract): a binding has slots, a call holds at most one.
`AttemptPolicy` (abstract): ADR-0005 as a machine — per call a rung of the
ladder, tries on it, and which failures permit a retry or the next rung; a rung
has the budgets of node and binding side by side, and every one of them must
permit a retry, where the code takes their minimum. Both are refined by `FailureControl` (`Slots`, `Policy`).

### Subsequences, Topology, PlanValidation, PlanExecution, DependencyWalk — the coordinator
`Subsequences` is the two things the code's loops build all over: a set of
numbers in order and the entries of a list at some of its positions. `Topology`
holds the pure functions of `graph/topology.py` as recursive functions, including
their behaviour on repeated, self-referring and dangling entries. `PlanValidation` is `validate_execution_plan` as a set of issue codes.
`PlanExecution` is the coordinator: validate, walk the flattened levels, compose
inputs (cache first, then the resolver), execute, call the completion handler,
and return the result or the failed outcome. `DependencyWalk` (abstract) says
only that each node runs once, after its dependencies, ending with the root.

### PlanBuilding — from a request to a plan
The stages of planning, each an accepting and a refusing action: the inputs the
engine (or a direct caller) gathers, the graph validator with its Organs, one
placement per Cell in the order the graph first names it, the input references
of every node, the assembled plan and its validation by `PlanValidation`. The
placement policy is a parameter of the code and may answer anything; `Acceptable`
is what `_place` checks. A binding is its id, its Cell with formula version, and
`text` for the rest of its fields, so that an altered copy is another binding.
The graph validator repeats checks of the plan validator line by line; these
share operators, the Cell and Organ checks are its own.

### AnalysisEngine — one analysis from request to files
The steps of `AnalysisEngine.run` for several runs, with the exceptions each
step can raise, the failure path, and a crash of the process between any two
steps. `Files` is what a report or run file contains (absent, torn, or the
facts of it the properties use). Handlers of the event bus run inside `emit`.
`world`, chosen once from `Worlds`, says which events have a handler that may
raise, which writes may fail and whether an executor may raise after running a
Cell, so that one instance covers the process where everything may go wrong and
those where only some of it does. A node fails in one of three ways: refused
before its Cell runs (`NodeRefused`), by an outcome that is a failure or that the
coordinator rejects (`NodeFails`), or because the executor raises once the Cell
has run (`ExecutorRaises`). Only the second leaves traces of the node.

### RuntimeHistory — traces, snapshot, placement, and back
Traces are counted per sort (binding, outcome, fast or slow, age). `Select` takes
a ladder of bindings from the current snapshot; `Finish` adds the traces of the
run placed that way, however long ago; `Tick` ages all traces by one and drops
the ones past the window. A routing, dispatch or admission failure leaves a
trace without implementation, which no binding is judged by. `Evaluation` is what
`_evaluate` says of a binding, and `Ladder` ranks these records as
`RuntimeAwarePlacementPolicy.select` does. `setting` is chosen once from
`Settings`: priorities, the window, which runs happen.

### NodeExecution — one node through router, executor and audit
The attempts of a node as a chain of judges. `Route` finds the executor, by
service and then by runtime, or fails at the boundary; `ExecuteLocal` is
`LocalCellExecutor` with its checks before the Cell is called; a foreign
executor (`ForeignAnswers`, external) names whom it likes, replays, adds prior
traces; `Verify` is the router's check of the answer; `Record` annotates the
trace and may find it late; `Retry`/`FallBack`/`Finish` keep of `FailureControl`
what matters for the traces; `Audit` is the coordinator's `validate_execution_trace`
over every trace and the result. `history` remembers what was really answered
and by whom: the properties compare the traces with it. `Summary` is
`summarize_runtime_traces`.

### ReportDecision, HorizonRequests, HorizonPolicy, HorizonDecision, MultiHorizon
`ReportDecision` is the arithmetic of one report's decision, `HorizonPolicy` that
of the multi-horizon policy (bands, conflict, structural direction, posture) and
`HorizonDecision` the checks of the resulting contract object: pure operators
over integers (scores, strengths and confidences in tenths of a point, risks in
ten-thousandths of a point), with Python's round-half-to-even as `Round`.
`HorizonRequests` is the validation of a request and of a batch. `MultiHorizon`
runs a batch: `Submit`, one `Prepare` per engine (or `FactoryFails`,
`GraphDiffers`, `FormulasDiffer`), one step per horizon (a report, or one of the
ways it can fail), the composed analysis and its decision. A child run saves its
own report whatever becomes of the batch: `saved` is that.

### CandleQuality, SourceHealth, SourceSelection
`CandleQuality` is the inspection of a batch: the faults that make it unusable
and the issues a monitor records, with timestamps as text and as instants.
`SourceHealth` computes from a log of issues the trend points, the reliability,
the selection and the router plan, in exact fractions. `SourceSelection` puts
them into motion: a monitor appends issues line by line to a log whose files may
end in an unfinished line; selections read the whole log; clients walk the plan
(`Load`, `Ask`, `Open`, `Write`, `Judge`), sharing cache files that are opened
and written in two steps; the process may die between any two of these.
`world` says what is watched, fetched and allowed to fail in a behaviour.

`MC*` modules give constants their values, `*Proofs` modules hold the theorems of
the module they are named after. `PlanValidationProofs` is about the operators of
`Topology` and `PlanValidation`; the proofs about planning, coordination and
sources extend it. `PlanBuildingProofs` also extends `RuntimeHistory`, whose
ladders are the default placement policy's answers to the planner.

## 3. Runs

| Run | States | Shows |
|---|---|---|
| `failure_ladder` | 36 k | One call down a ladder of a repeatable, a stateful idempotent and a stateful non-idempotent binding, every delegate answer, late results, cancellation at any moment, a controller that raises when it admits or releases: effects at most once (`AtMostOnce`), cancellation takes effect at the boundaries (`CancellationBoundary`), the record constructed at the end passes its own checks (`RecordWellFormed`), the loop implements `AttemptPolicy`, and a started call ends even if it lost its own slot (`Termination`). |
| `failure_crowd` | 100 k | Three calls, a two-slot and a one-slot binding, one call in the opposite order, the in-memory controller: `AdmissionBound`, `ExactAccounting`, and `BindingSlots` is implemented. |
| `plan` | 153 k | Every dependency relation on three nodes, with repeated, self and dangling entries, and on four nodes without; two-node plans with small lists of inputs and kinds, a resolver that raises or answers with the wrong snapshot, an executor that fails in every way, a raising handler: what validation accepts never makes the coordinator raise (`AcceptedPlansRun`), levels are the earliest (`LevelsAreEarliest`), the walk implements `DependencyWalk`, inputs are resolved once and audited (`ResolutionInv`), the outcome says what happened (`OutcomeHonest`). |
| `plan_building` | 106 k | Three families of requests: graphs of three nodes over short lists, dangling and cyclic ones included, with an Organ of any members and outputs; manifests that repeat, omit, reorder or misname kinds with up to three inputs from either caller; Cells shared by nodes. A policy answers good, outdated, altered, repeating or foreign ladders. `AssemblyInv` (what the graph validator and the planner let through, plan validation never faults; extra inputs that fit are never a reason to refuse), `OrgansAreClosed`, `LaddersAreCatalogued` (what `FailureControl` assumes of its candidates). |
| `engine` | 211 k | Two runs in five worlds: everything may fail and raise; all but the executor; all but the handlers of the Cells' own events; only the trace store and the executor; only the trace store. A crash anywhere. Reports are durable (`DurabilityInv`), the trace history is neither misreported nor a reason to fail (`HistoryInv`), failures are announced (`FailureAnnounced`), a failed run keeps its execution but for two causes (`LossHasItsCause`), and a run file is rewritten only from succeeded to failed (`RunFileSettles`). |
| `history` | 49 k | Two overlapping runs, two bindings, a window of two ages; and every history of up to five fast or slow traces of two bindings of equal priority: no binding is starved for ever (`EveryBindingReturns`), canceled and boundary outcomes move no placement (`NeutralOutcomes`), ladders are sound (`PlacementInv`). |
| `nodes` | 91 k | Up to three attempts of a node behind a router with honest, misrouted, drifted and foreign executors, and behind none: `AcceptedIsPlanned`, `EvidenceInv` (no trace names an implementation that did not answer), `HonestAttemptsPassAudit`, `SummaryChargesWhoAnswered`. |
| `horizons` | 19 k | Batches of two to four horizons over one to three bands: refused requests, engines that differ, fail, drift or answer for somebody else, and every finished batch decided over a grid of signals and of risks with three decimals: `BatchInv`, `EveryAnalysisIsDecided`, `DirectionInv`, `NoSidePreferred`, `RiskOnlyCoversPosture`. |
| `sources` | 46 k | A provider watched on two series over two days; two providers with undated records; two clients on one cache with outages, failing writes and crashes; and log, selection and fetches together: `CleanBatchIsContinuous`, `RecentCollapseDisables`, `CleanerNeverTrails`, `MoreOfTheSameNeverHelps`, `FetchInv`, `FetchEnds`. |
| `engine_lost_traces`, `horizon_hairline`, `sources_latest` | — | Violations, see section 6. |

Each property of a passing run has a mutant in `PROJECT.json`: a plausible bug
put into a mapped definition, which makes TLC find the property violated. A property named `...Inv` is a
conjunction of named parts, the type invariant of its module usually among them.

## 4. Fairness, bounds and stopping

*Fairness.* Safety runs assume none. `FailureControl` assumes weak fairness of
`Work(c)` for every call: its thread is scheduled and its delegate returns (a
delegate is a function call; a stuck one would hang the code too). Starting and
canceling are not fair, and neither are faults of a controller: nothing relies
on them. `RuntimeHistory` assumes that the clock ticks; nobody is obliged to run
an analysis. `SourceSelection` assumes weak fairness of `Work(c)` for every
client: its thread is scheduled and a source answers or raises (the adapters
pass a timeout to every HTTP request); that a client starts, that anyone
inspects or selects, is not assumed. A crash ends the fetches it meets.

*Bounds.* Every bound is a CONSTANT of the instance. Ladders of three bindings
have each kind of effect once and a second and third rung; budgets of one and
two distinguish the smaller limit; three calls exceed a limit of two. Graphs on
four nodes contain diamonds, two roots and three-cycles. Two references and two
nodes are what caching needs to go wrong. Two runs are what overlapping needs.
Two Cells over three nodes is what sharing a placement needs; three inputs of
three kinds repeat one and miss one.
Three attempts are a primary, a retry or fallback and another. Four horizons
are two in a band and one in each other; the views give scores and confidences
on both sides of each threshold of the default policy. Three providers differ in
tier, keys and capabilities, two series are what an average can hide one behind,
two days are what a trend needs; five issues reach every threshold. Two clients
are what a shared cache file needs.
`stored` bounds the traces in the store: with a minimum of two traces, four
suffice for both bindings to be unhealthy at once. `failure_rate` and
`max_failure_rate` are compared by cross multiplication; the code rounds to six
decimals, so limits with more decimals than that are outside the model. P95 is
modelled for durations of two sizes.

*Stopping.* `CHECK_DEADLOCK FALSE` is set where the program ends: all calls
terminal, all runs returned or crashed, the plan finished. `RuntimeHistory`
never stops and is checked for deadlock. In `SourceSelection` the days and the
room in the log run out.

## 5. Proofs

Eight modules hold theorems. Each is proved for every value of the constants
that satisfies the assumptions its module declares; the runs evaluate these
assumptions on their instances.

| Theorem | Proved of every behaviour | Run property |
|---|---|---|
| `FailureControlProofs` | | |
| `TypeCorrect` | types; a call's cursor stays inside its candidates | `TypeOK` |
| `AdmissionBounded` | no binding has more calls inside than its limit | `AdmissionBound` |
| `AccountingExact` | without controller faults no slot leaks | `ExactAccounting` |
| `EffectsAtMostOnce` | what may have acted and must not repeat is tried last | `AtMostOnce` |
| `CancellationRespected` | work canceled in time is neither accepted nor repeated | `CancellationBoundary` |
| `RecordsAccepted` | the record of a call passes its own contract's checks | `RecordWellFormed` |
| `LeasesImplementSlots` | leases implement `BindingSlots` | `ImplementsBindingSlots` |
| `LoopImplementsPolicy` | the loop implements `AttemptPolicy` (ADR-0005) | `ImplementsAttemptPolicy` |
| `PlanValidationProofs` | | |
| `LevelsLayered` | levels partition what is on and behind no cycle; each node stands right after its dependencies | — |
| `CyclicNodesWait` | what the levels leave out waits for itself for ever | — |
| `ScheduleInOrder` | a complete schedule names every node once, after its dependencies | — |
| `ClosureIsLeast` | the closure of the roots is the least closed set | — |
| `PlanBuildingProofs` | | |
| `OrgansHoldTheirClosure` | members of an accepted Organ are the closure of its outputs | `OrgansAreClosed` |
| `LaddersComeFromTheCatalog` | every rung is the catalog's own, and its Cell's | `LaddersAreCatalogued` |
| `PlannerAndValidatorsAgree` | what is planned, plan validation never faults | `AssemblyInv` |
| `BuiltPlansAreValid` | a built plan is one `PlanExecution` assumes | — |
| `PlacementIsSound` | a run has a ladder, without repetition, that withholds only what failed more | `PlacementInv` |
| `NeutralTracesMoveNobody` | traces nobody is judged by change no ladder | `NeutralOutcomes` |
| `PlannerTakesEveryLadder` | the planner accepts every answer of the default policy | — |
| `PlanExecutionProofs` | | |
| `ReferencesResolveOnce` | a reference is resolved at most once per run | (`ResolvedOnce`, part of `ResolutionInv`) |
| `RunInputsAreAudited` | the records of a run are what its nodes read | `ResolutionInv` |
| `OutcomesAreHonest` | an outcome says what was done and what failed | `OutcomeHonest` |
| `NodesRunAsEarlyAsTheyCan` | a node's wave is the earliest possible | `LevelsAreEarliest` |
| `CoordinatorWalksDependencies` | the coordinator implements `DependencyWalk` | `ImplementsDependencyWalk` |
| `ValidPlansRun` | a validated plan never makes the coordinator raise | `AcceptedPlansRun` |
| `NodeExecutionProofs` | | |
| `ResultsArePlanned` | a result taken is in time and the planned binding's | `AcceptedIsPlanned` |
| `TracesAreEvidence` | traces name only who answered | `EvidenceInv` |
| `HonestNodesPass` | honest attempts pass the audit | `HonestAttemptsPassAudit` |
| `SummariesChargeWhoAnswered` | a summary counts exactly what its binding answered | `SummaryChargesWhoAnswered` |
| `AnalysisEngineProofs` | | |
| `ReportsAreDurable` | returned and succeeded runs have their files | `DurabilityInv` |
| `HistoryIsTruthful` | run files and trace store agree on traces | `HistoryInv` |
| `FailuresAreAnnounced` | a failure after the first event is announced | `FailureAnnounced` |
| `RunFilesSettle` | run files are rewritten only from succeeded to failed | `RunFileSettles` |
| `LossesHaveTheirCause` | a failed run keeps its execution, or lost the last node's traces to an executor that raised, or all to a Cell subscriber | `LossHasItsCause` |
| `MultiHorizonProofs` | | |
| `BatchesAreAllOrNothing` | errors carry the finished prefix, analyses are uniform | `BatchInv` |
| `ConflictsAreNeverAveraged` | horizons that disagree are a conflict, as is a band that ends with one or knows nothing else; aligned bands were all judged; the highest band speaks for the structure | `DirectionInv` |
| `RiskCoversThePosture` | risk alters the posture alone, and no posture is bolder than a report's risk | `RiskOnlyCoversPosture` |
| `NeitherSideIsPreferred` | mirrored signals have the mirrored decision | `NoSidePreferred` |
| `EveryAnalysisHasADecision` | the decision passes all its own checks, unless a risk is rounded across a threshold or the policy is at the edge of what is accepted | `EveryAnalysisIsDecided` |
| `SourceSelectionProofs` | | |
| `FetchesAreSound` | the first usable source answers; the cache is sound | `FetchInv` |
| `MoreIssuesNeverHelp` | more issues on the same points never move a provider up | `MoreOfTheSameNeverHelps` |
| `CleanerIsNeverBehind` | a provider that is no worse anywhere is behind by name alone | `CleanerNeverTrails` |
| `CollapseDisables` | a provider collapsed everywhere is not selected | `RecentCollapseDisables` |
| `CleanBatchesAreContinuous` | a batch without issues has no holes | `CleanBatchIsContinuous` |

*Failure control.* Assumed: finitely many calls, candidate lists without
repetition (plan validation and the placement decision guarantee it), natural
budgets, positive limits (`CellServiceBinding` and `ResourceHints` are
validated), and the set of answers a delegate may give. None of the properties
but the types is inductive. Admission needs three facts together (`SlotInv`): a
lease is held only between admission and release and only for a limited binding
(`LeaseDiscipline`), and a binding's counter is at least the number of its
leases, equal to it while no controller raises, and at most the limit
(`CounterBounds`). The arithmetic is about cardinalities of `Holders`, which gain
or lose exactly one call per step; the same steps are the ones `BindingSlots`
takes, every other is a stutter. Effects and cancellation need what the probe of
the attempt in progress already says before its record is appended (`ProbeInv`),
from which `EffectInv` and `CancelInv` follow for the records. `AttemptPolicy`
needs `ClimbInv`: between two attempts the cursor of an unfinished call stands
where the policy allows the next one; `Verdicts` shows that the code's three ends
of the loop body are the policy's three verdicts. The contract's counts need
`RecordInv`: after every attempt, retries and fallbacks are those of the attempts
so far, and every attempt but the last was followed by one or the other.

*Topology and validation.* `PlanValidationProofs` also holds the lemmas about
sequences, sorted positions, sums, fractions, rankings and extremes that other
proofs need. The operators are recursive functions, which TLAPS reasons about
once it is known that their defining equation has a solution; and
the library's induction theorems take an operator, which the provers cannot
instantiate. Induction is therefore over sets: `LeastNatural` (a nonempty set of
numbers has a least member), `UpTo` (a set with 0 and closed under successor is
`Nat`) and `Recursion` (a step on values has a sequence of iterates). `Walked`
removes at least one node per level until none can go, so it stops after as many
steps as there are nodes; `LevelsLayered` and `CyclicNodesWait` say where. The
closure is the fixed point of an inflationary step on a finite set
(`ClosureIsLeast`). `Sorted` and `Kept` are related to sets by counting.

*Coordinator.* Assumed (`PlanAssumption`): plans have their types, `IsPlan`,
which says nothing that validation checks; `BuiltPlansAreValid` shows that the
planner produces no other. The invariants follow the phases of `execute`:
`WalkInv` relates the schedule, what was executed and the results to the levels
of a plan without issues, `InputInv` the inputs left of the current node to what
it requires, `CacheInv` the records to the snapshots: every record that did not
fail names a snapshot the coordinator holds, and holds as recorded; a failed one
is the last. That the root ends the walk is not by construction: it is the
minimality of the closure, since every other node of a valid plan is a
dependency of the root and so in an earlier level.

*Building.* Assumed (`RequestsAssumption`): typed requests, and that references
of one id are of one kind. The latter is checked where the code registers
snapshots (their id contains their kind), and assumed of references made by hand.
`BuildInv` says what each stage has established. The two validators share their
graph: the plan's entries are the request's (`Graph(plan)` is `Graph(request)`),
so the levels and closures are the same, and the checks of the first transfer. An
Organ that passes the code's local checks is closed and contains nothing that its
outputs do not need, by `ClosureIsLeast` in the whole graph.

*Placement.* Assumed (`PolicyAssumption`): finitely many bindings, the thresholds
the policy's constructor accepts, and settings of the right types.
`HistoryTypeOK` is inductive, but not for free: that a store stays within its bound when
time passes is that moving counts from one age to the next, one to one, adds
nothing (`SumsMove`, which counts a sum's units in a set and injects one set into
the other). `SoundLadders` follows from the types alone. `BeforeIsOrder`: where
all or none are unhealthy, `RanksBefore` is a strict order, so
`LinesExist` gives the ranking and `LineFacts` says that it names every member of
the pool once; the comparison of failure rates is by products (`AboveFacts`).
A withheld binding is unhealthy beside one that is not: its rate is above the
limit, the other's is not. `NeutralStep` shows that evaluations read measured
traces only. `PlannerTakesEveryLadder` puts the two modules together: whatever
bindings of its candidates the numbers stand for, the ladder that `select` makes
of the history passes the checks of `_place`.

*Node execution.* Assumed (`NodeAssumption`): ladders without repetition, of
bindings of the node's formula, as a validated plan has them. The invariant joins
the two properties with `TypesHold`, `LastHolds` (the last trace and the last
entry of the history tell of the same answer) and `RouterHolds` (behind a router
an answer that passed is of the binding asked for, in this run). Audit and
summary need the whole history: `AlignInv` relates each trace to the entry of the
history it tells of, and the ladder's cursor to the attempts so far.

*Engine.* Assumed (`EngineAssumption`): a positive number of nodes. `TypeOK` is
not inductive alone: a run that still walks its plan must have a node left.
`IInv` adds, for every run, what its place in `AnalysisEngine.run` says of its
progress, its files, its failure and its traces (`Progress`, `FileState`,
`FailureState`, `TraceState`). A step of one run leaves the others' parts
untouched, so every action is one case about one run; the crash is another.
`LossInv` follows the completed nodes from the coordinator's local variables
into the run record and its file, and names the two ways they get lost.

*Multi-horizon.* Assumed (`ScenarioAssumption`, `DurationAssumption`,
`PolicyAccepted`): the children of a request are a sequence and name horizons
whose duration is known, a natural number that is 0 for a name which is no
interval, and the policy is one that its constructor accepts. `IInv` says that prepared engines agree with the first and
completed reports with the request, in its order (`SequencesHold`), how many of
each there are at every stage (`StageHolds`), that exactly the completed reports
are stored while nothing has failed (`SavedHolds`), and what an end looks like
(`EndHolds`). `DecisionInv` adds what the decision was made from: each report's
is the `Assessment` of results its Cells can give, and the decision is `Evaluate`
of the signals, which are a sequence of at most eight that the contract accepts
(`Signalled`). What remains is about `Evaluate` for every such sequence:

- For the directions, `BandsFacts` says what the bands have of the signals: a
  horizon is in one band, in the order of the request, and every band that is
  there has a member. A band without a conflict says what all its confident
  members say (`Verdict`), and so does the conclusion for the bands. A band ends
  with the last of its signals (`LastOfGroup`), so a conflict there is the band's
  (`ConflictReachesBand`); two bands have two different signals (`TwoBands`), and
  aligned ones a confident signal each (`AlignedBandsAgree`).
- For risk, two views that differ in nothing but their risks (`SameViews`) are
  followed through groups, bands and conclusion, and `LevelCovers` shows that a
  level of the overall risk is at least that of every report: `Largest` covers
  its members and levels grow with the value. Its hypothesis `NoMoreLenient`
  says that no threshold of the policy is more lenient than the reports' own:
  the default policy has the same ones; a policy of one's own that is more lenient
  is allowed by the code, and can follow where a report advises to reduce.
- For the sides, mirrored views (`MirroredViews`) have mirrored bands
  (`MirroredBands`): scores are sums and rounded quotients, which change their
  sign with their arguments (`SumOfNegatives`, `RoundOfNegative`, half to even),
  and everything else reads their size alone.
- For the decision itself, `EveryAnalysisHasADecision` follows what `Evaluate`
  makes of the signals through every check the constructors of
  `HorizonBandDecision` and `HorizonDecision` make, and those the Cell makes
  against the batch. Three kinds of them take an argument.
  - Figures and words agree (`Told`, `BandFigures`, `ConclusionFigures`): a
    weighted mean lies between the least and the greatest of what it averages
    (`SumsWithin`), so a directional band has a score of its sign, and a conflict
    one that does not round to zero (`BandConflictIs`, `CrossConflictIs`,
    `ConflictScoreIs`).
  - The bands cover the batch in its order (`GroupsAreRuns`, `OrderJoined`):
    durations ascend, so each band is a run of the request, and the runs put
    together are the request.
  - The weights of the evidence sum to one (`WeightsSumUp`): each is rounded on
    its own, and eight of them are at most four millionths off, where the
    contract allows a hundred.

  Its four hypotheses are named. `ResultsInBounds`: scores, confidences and risks
  lie in the ranges to which `scoring.clamp` takes what the Cells compute.
  `NoRiskAtAThreshold`: no risk is rounded across a threshold of the policy, the
  disagreement of section 6 and nothing else. `ConflictsRegister` (a minimum of
  confidence of 0.8 or more; the default is 45) and `AuthoritiesCompare` (no
  authority above 239 times another): at the edge of what the constructor of the
  policy accepts, a material conflict may have a score that rounds to zero, and a
  conflict with score zero is refused. Both bounds come from the model, which
  rounds scores to tenths; the code rounds to thousandths, so its own edge is
  further out. The scenarios of run `horizons` and the default policy satisfy
  all four. The hypotheses are needed: with a minimum of 0.7, TLC finds a batch
  without a decision.

*Sources.* Assumed (`WorldsAssumption`): batches and preferences have their
types, and windows are what they are said to be. `DataInv` is the types and the
bounds of the log's counts, and that the issues the monitor is writing are those
of its batch. `CacheInv` says that a client between `Ask` and the end of `Write`
holds a usable batch of the file it is about to write, whatever the others do to
that file meanwhile; `WalkInv` that a client has failed exactly the routes before
the one where it stands, and holds an answer of its source.

The properties of the selection are about sums, quotients and a ranking.
`SumsFacts`, `SumsGrow` and `SumsCover` are what the proofs need of a sum over a
finite set (the recursion behind the fold has a solution, by induction on
cardinality); `HealthGrows` shows that further issues on a point lower its score
and never raise the average of a provider; `PlacesTaken` and `StrictOrder` that
the places of a finite ranking are taken once each. The model has exact fractions
where the code rounds to six decimals: rounding is monotone and may make ties,
which the order of the code breaks by name.

Only model-checked:

- `Termination`, `EveryBindingReturns`, `FetchEnds`: liveness, which no installed
  prover can derive from fairness. Every other property of a passing run is a
  theorem.

## 6. Where the code and its documents disagree

`engine_lost_traces`: docs/backend_design.md:166 requires a failed run to keep
its execution order, completed and failed node and its traces. A subscriber of
`cell.completed` or `cell.failed` that raises unwinds
`PlanDrivenLocalCoordinator.execute`, where these are local variables; the run
is then saved as failed with none of them. A smaller loss has another cause: an
executor that raises after it has run the Cell (`ExecutorRaises`) hands no trace
and no control record to the coordinator, and the failed run lacks those of that
node, nothing more. `LossHasItsCause` (run `engine`) shows that there is no third
cause: no store, no other subscriber, no node that fails in any other way.

`horizon_hairline`: docs/horizon_decision_design.md:5 gives every complete
analysis a decision. Risks have four decimals; the policy judges the largest
unrounded and stores it rounded to three, and `HorizonDecision` judges the
rounded value again (`horizons/decision_models.py:443`). A risk of 34.9996 is
medium to the one and high to the other, the contract raises, and there is no
decision. Where no risk is rounded across a threshold there always is
(`EveryAnalysisIsDecided` in run `horizons`, `EveryAnalysisHasADecision`).

`sources_latest`: docs/provider_selection_policy.md:118 wants a provider that has
clearly deteriorated recently not to stay primary. `_provider_reliability`
(`data/health.py:199`) sorts the points of all series by window only and takes
the last: whether a collapse of one series counts depends on the name of the
series. What holds is `RecentCollapseDisables`: a provider all of whose series
collapsed in the newest window is not selected.

Observed while modelling, and not judged:

- An extra input that no Cell of the graph requires refuses the whole analysis
  (`unused_input_reference`, `execution/plan_validation.py`).
- A terminal control or contract error that is also late is retried as a timeout
  (`execution/control.py:443`).
- Dispatch failures are never charged to a binding (`execution/router.py:225`):
  one that always fails there is never unhealthy.
- An executor that replays an outcome under an old span id makes the control
  raise (`execution/control.py:811`), and the node's traces are lost, although its
  Cell has run: one way to `ExecutorRaises`.
- A router nested under a router turns its routing failures into contract
  failures, which do not fall back.
- A half-written trace file makes every later snapshot raise
  (`execution/runtime_store.py:283`); the in-memory store raises at the first
  collision with the traces before it already inserted (`:188`).
- A snapshot documented as immutable holds a mutable dictionary that every Cell
  gets by reference (`inputs/resolver.py:81`).
- A handler of `analysis.failed` that raises replaces the error the caller should
  get (`engine.py:236`).
- A torn cache file disables its source for that query for ever, and a cached
  batch has no age (`data/cache.py:27`).
- A line of the quality log that a crash cut short makes every later read, and so
  every selection, raise (`SelectionRaises`).
- A provider without records counts as a health of 80, one with a single mild
  issue as 95 or more: the first issue may move it up. A disabled provider that
  is not inspected any more never returns.
- A deviation between two sources is always charged to the primary.
- The router accepts batches with unreadable timestamps that the monitor calls
  critical.
- docs/horizon_decision_design.md:61 wants a material conflict inside any band to
  make the conclusion a conflict; once another member of the band is qualified,
  `horizons/policy.py:388` looks at the band's last horizon only.
  `ConflictSurfaces` says what is left of the rule: the conclusion is a conflict
  when the conflicted horizon is the last of its band or nobody in the band is
  confident.

## 7. What is not modelled, and why

The Cells of `cells/` (except the decision), features and canonical models are
floating-point arithmetic without state, judged by the samples of `validation/`.
Content hashes are assumed injective. Columnar storage is Parquet and DuckDB
calls with content-addressed names. The bodies of the exchange adapters are HTTP
requests and the conversion of payloads: to `SourceSelection` they are a source
that answers or raises. `replay/runner.py` compares two finished reports and keeps
no state. The CLI and the benchmarks print and measure. The Rust crates are pure
and not called from Python; the contracts are schemas. Within modelled parts:
texts, reason codes, identifiers (unique by assumption) and the JSON layout of
files are left out, timestamps are kept only where an order or an age matters.

## 8. Plan

Every safety property of the passing runs is a theorem; liveness stays with TLC.
Models next: `Replay` over the files `AnalysisEngine` leaves, and the crash of a
trace write between `AnalysisEngine` and `RuntimeHistory`. The project keeps one
run per question; new questions fold into the runs there are, in place of a
property that says less.
