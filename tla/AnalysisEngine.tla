--------------------------- MODULE AnalysisEngine ---------------------------
(***************************************************************************)
(* AnalysisEngine.run (engine.py) from request to report: the events it    *)
(* emits, the handlers that may raise out of them, the coordinator's walk  *)
(* over the nodes, the runtime trace store, the two files of               *)
(* FileSystemReportStore.save, the failure path, and a crash of the        *)
(* process between any two of these.  Several runs may be under way, on    *)
(* threads of one process.                                                 *)
(*                                                                         *)
(* The nodes run in one fixed order (module PlanExecution), numbered here  *)
(* 1..NodeCount; the last one is the root.                                 *)
(***************************************************************************)
EXTENDS Integers, Sequences, FiniteSets, SequencesExt

CONSTANTS
  Runs,
  NodeCount,          \* nodes of the plan
  Worlds              \* the subscribers and the faults a process may meet

EventNames == {"analysis.started", "cell.completed", "cell.failed",
               "analysis.saved", "analysis.completed", "analysis.failed"}

ASSUME EngineAssumption ==
  /\ IsFiniteSet(Runs)
  /\ NodeCount \in Nat \ {0}
  /\ Worlds \subseteq [handlers : SUBSET EventNames,
                       faults : SUBSET {"executor", "traces", "report", "run"}]

VARIABLES
  world,          \* handlers: events with a handler that may raise;
                  \* faults: the writes that may fail, and whether an
                  \* executor may raise after it has run a Cell.  Never
                  \* changes.
  pc,             \* where each run() call is
  executed,       \* history: nodes whose Cell the executor has run
  outcome,        \* the coordinator's outcome, when it returned one
  traces,         \* nodes that have their traces in runtime_traces of run()
  write,          \* runtime_summary_write
  events,         \* what each run has put on the event bus
  trace_store,    \* durable: <<run, node>> traces
  report_files,   \* durable: runs with reports/<id>.json
  run_files       \* durable: runs/<id>.json

volatile == <<pc, executed, outcome, traces, write, events>>
durable  == <<trace_store, report_files, run_files>>
vars     == <<pc, executed, outcome, traces, write, events, trace_store,
              report_files, run_files, world>>

Places == {"idle", "prepare", "walk", "persist", "unwrap", "save_report",
           "save_run", "announce_saved", "announce_completed",
           "recover", "record_failure", "announce_failure",
           "returned", "raised", "crashed"}
Over == {"idle", "returned", "raised", "crashed"}
Outcomes == {"none", "ok", "failed"}
Writes == {"none", "succeeded", "failed"}

NoFile == [status |-> "none", traces |-> 0, outcome |-> "none", write |-> "none"]
Files == [status : {"none", "succeeded", "failed", "torn"}, traces : 0..NodeCount,
          outcome : Outcomes, write : Writes]
RunFile(r, status, w) ==
  [status |-> status, traces |-> traces[r], outcome |-> outcome[r], write |-> w]

TypeOK ==
  /\ world \in Worlds
  /\ pc \in [Runs -> Places]
  /\ executed \in [Runs -> 0..NodeCount]
  /\ outcome \in [Runs -> Outcomes]
  /\ traces \in [Runs -> 0..NodeCount]
  /\ write \in [Runs -> Writes]
  /\ events \in [Runs -> Seq(EventNames)]
  /\ trace_store \subseteq Runs \X (1..NodeCount)
  /\ report_files \subseteq Runs
  /\ run_files \in [Runs -> Files]

Init ==
  /\ world \in Worlds
  /\ pc = [r \in Runs |-> "idle"]
  /\ executed = [r \in Runs |-> 0]
  /\ outcome = [r \in Runs |-> "none"]
  /\ traces = [r \in Runs |-> 0]
  /\ write = [r \in Runs |-> "none"]
  /\ events = [r \in Runs |-> << >>]
  /\ trace_store = {}
  /\ report_files = {}
  /\ run_files = [r \in Runs |-> NoFile]

(* EventBus.emit: the event is on the bus before its handlers are called,  *)
(* and a handler's exception goes to whoever emitted it.                   *)
Emit(r, event, next, handlerRaised) ==
  /\ events' = [events EXCEPT ![r] = Append(@, event)]
  /\ \/ pc' = [pc EXCEPT ![r] = next]
     \/ /\ event \in world.handlers
        /\ pc' = [pc EXCEPT ![r] = handlerRaised]

Goto(r, place) == pc' = [pc EXCEPT ![r] = place]

-----------------------------------------------------------------------------
(* The try block *)

\* analysis.started is emitted before the try: its handler's exception goes
\* straight to the caller.
Start(r) ==
  /\ pc[r] = "idle"
  /\ Emit(r, "analysis.started", "prepare", "raised")
  /\ UNCHANGED <<executed, outcome, traces, write, durable, world>>

\* Summary snapshot, input registration, plan and its validation.
Prepare(r) ==
  /\ pc[r] = "prepare"
  /\ Goto(r, "walk")
  /\ UNCHANGED <<executed, outcome, traces, write, events, durable, world>>

PrepareFails(r) ==
  /\ pc[r] = "prepare"
  /\ Goto(r, "recover")
  /\ UNCHANGED <<executed, outcome, traces, write, events, durable, world>>

(* The walk over the nodes ends with the root. *)
RootDone(r) == executed[r] + 1 = NodeCount

(* One node: a completion handler that raises unwinds the coordinator,     *)
(* whose local lists of traces and records go with it.                     *)
NodeSucceeds(r) ==
  /\ pc[r] = "walk"
  /\ executed' = [executed EXCEPT ![r] = @ + 1]
  /\ Emit(r, "cell.completed",
          IF RootDone(r) THEN "persist" ELSE "walk", "recover")
  /\ IF pc'[r] = "persist"
     THEN /\ outcome' = [outcome EXCEPT ![r] = "ok"]
          /\ traces' = [traces EXCEPT ![r] = NodeCount]
     ELSE UNCHANGED <<outcome, traces>>
  /\ UNCHANGED <<write, durable, world>>

(* A node fails: its Cell has run or not, and its traces are with those of *)
(* the coordinator or not.  The outcome comes back unless the handler of   *)
(* cell.failed raises.                                                     *)
FailNode(r, ran, kept) ==
  /\ pc[r] = "walk"
  /\ executed' = [executed EXCEPT ![r] = @ + ran]
  /\ Emit(r, "cell.failed", "persist", "recover")
  /\ IF pc'[r] = "persist"
     THEN /\ outcome' = [outcome EXCEPT ![r] = "failed"]
          /\ traces' = [traces EXCEPT ![r] = executed[r] + kept]
     ELSE UNCHANGED <<outcome, traces>>
  /\ UNCHANGED <<write, durable, world>>

(* registry.resolve, the composition of the inputs, or the executor before *)
(* its first attempt: there is nothing to trace.                           *)
NodeRefused(r) == FailNode(r, 0, 0)

(* Bug: the failing node's traces not added to the list. *)
NodeFailsUntraced(r) == FailNode(r, 1, 0)

(* The executor returned an outcome that is a failure, or that is refused: *)
(* its traces are in the list by then.                                     *)
NodeFails(r) == FailNode(r, 1, 1)

(* The executor has run the Cell and raises, as the failure control does   *)
(* over an outcome that repeats a span (_finalize_outcome), or returns     *)
(* what is no outcome: no trace of the node gets to the coordinator.       *)
ExecutorRaises(r) == "executor" \in world.faults /\ FailNode(r, 1, 0)

(* Bug: the record is taken before the store answers. *)
SaveTracesOptimistically(r) ==
  /\ write' = [write EXCEPT ![r] = "succeeded"]
  /\ \/ trace_store' = trace_store \cup ({r} \X (1..traces[r]))
     \/ "traces" \in world.faults /\ UNCHANGED trace_store

(* _persist_runtime_traces: the store's exception becomes a failed write   *)
(* record; what the store had already kept by then stays in it.            *)
SaveTraces(r) ==
  \/ /\ trace_store' = trace_store \cup ({r} \X (1..traces[r]))
     /\ write' = [write EXCEPT ![r] = "succeeded"]
  \/ /\ "traces" \in world.faults
     /\ traces[r] > 0
     /\ \E k \in 0..(traces[r] - 1) :
          trace_store' = trace_store \cup ({r} \X (1..k))
     /\ write' = [write EXCEPT ![r] = "failed"]

Persist(r) ==
  /\ pc[r] = "persist"
  /\ SaveTraces(r)
  /\ Goto(r, "unwrap")
  /\ UNCHANGED <<executed, outcome, traces, events, report_files, run_files, world>>

Unwrap(r) ==
  /\ pc[r] = "unwrap"
  /\ Goto(r, IF outcome[r] = "ok" THEN "save_report" ELSE "recover")
  /\ UNCHANGED <<executed, outcome, traces, write, events, durable, world>>

(* Bug: the run file is written where the report file should be. *)
SaveRunFileFirst(r) ==
  /\ pc[r] = "save_report"
  /\ run_files' = [run_files EXCEPT ![r] = RunFile(r, "succeeded", write[r])]
  /\ Goto(r, "save_run")
  /\ UNCHANGED <<executed, outcome, traces, write, events, trace_store, report_files, world>>

(* FileSystemReportStore.save: the report file, then the run file. *)
SaveReport(r) ==
  /\ pc[r] = "save_report"
  /\ \/ /\ report_files' = report_files \cup {r}
        /\ Goto(r, "save_run")
     \/ /\ "report" \in world.faults
        /\ Goto(r, "recover")
        /\ UNCHANGED report_files
  /\ UNCHANGED <<executed, outcome, traces, write, events, trace_store, run_files, world>>

(* Files are written in place: a write that fails, or a crash during it,   *)
(* leaves the file as it was or cut short.                                 *)
Torn == [NoFile EXCEPT !.status = "torn"]
RunWriteFails(r) ==
  /\ "run" \in world.faults
  /\ run_files' = run_files \/ run_files' = [run_files EXCEPT ![r] = Torn]

(* Bug: a write that succeeds and then raises taken for one that fails. *)
SaveRunThenRaise(r) ==
  /\ pc[r] = "save_run"
  /\ run_files' = [run_files EXCEPT ![r] = RunFile(r, "succeeded", write[r])]
  /\ Goto(r, "announce_saved") \/ ("run" \in world.faults /\ Goto(r, "recover"))
  /\ UNCHANGED <<executed, outcome, traces, write, events, trace_store, report_files, world>>

SaveRun(r) ==
  /\ pc[r] = "save_run"
  /\ \/ /\ run_files' = [run_files EXCEPT ![r] = RunFile(r, "succeeded", write[r])]
        /\ Goto(r, "announce_saved")
     \/ /\ RunWriteFails(r)
        /\ Goto(r, "recover")
  /\ UNCHANGED <<executed, outcome, traces, write, events, trace_store, report_files, world>>

AnnounceSaved(r) ==
  /\ pc[r] = "announce_saved"
  /\ Emit(r, "analysis.saved", "announce_completed", "recover")
  /\ UNCHANGED <<executed, outcome, traces, write, durable, world>>

AnnounceCompleted(r) ==
  /\ pc[r] = "announce_completed"
  /\ Emit(r, "analysis.completed", "returned", "recover")
  /\ UNCHANGED <<executed, outcome, traces, write, durable, world>>

-----------------------------------------------------------------------------
(* The except block *)

(* Traces are persisted unless a write was already recorded. *)
Recover(r) ==
  /\ pc[r] = "recover"
  /\ IF write[r] = "none" THEN SaveTraces(r) ELSE UNCHANGED <<write, trace_store>>
  /\ Goto(r, "record_failure")
  /\ UNCHANGED <<executed, outcome, traces, events, report_files, run_files, world>>

(* Bug: the failure record's own exception goes to the caller. *)
RecordFailureOrRaise(r) ==
  /\ pc[r] = "record_failure"
  /\ \/ /\ run_files' = [run_files EXCEPT ![r] = RunFile(r, "failed", write[r])]
        /\ Goto(r, "announce_failure")
     \/ /\ RunWriteFails(r)
        /\ Goto(r, "raised")
  /\ UNCHANGED <<executed, outcome, traces, write, events, trace_store, report_files, world>>

(* _save_failed_run: its own failure is only reported in the event. *)
RecordFailure(r) ==
  /\ pc[r] = "record_failure"
  /\ \/ run_files' = [run_files EXCEPT ![r] = RunFile(r, "failed", write[r])]
     \/ RunWriteFails(r)
  /\ Goto(r, "announce_failure")
  /\ UNCHANGED <<executed, outcome, traces, write, events, trace_store, report_files, world>>

\* Raised either way: the original exception, or the handler's in its place.
AnnounceFailure(r) ==
  /\ pc[r] = "announce_failure"
  /\ Emit(r, "analysis.failed", "raised", "raised")
  /\ UNCHANGED <<executed, outcome, traces, write, durable, world>>

(* The process dies: every run under way is gone, the files stay. *)
Crash ==
  /\ \E r \in Runs : pc[r] \notin Over
  /\ pc' = [r \in Runs |-> IF pc[r] \in Over THEN pc[r] ELSE "crashed"]
  /\ \E cut \in SUBSET {r \in Runs : pc[r] \in {"save_run", "record_failure"}} :
       run_files' = [r \in Runs |-> IF r \in cut THEN Torn ELSE run_files[r]]
  /\ UNCHANGED <<executed, outcome, traces, write, events, trace_store,
                 report_files, world>>

Step(r) ==
  \/ Start(r) \/ Prepare(r) \/ PrepareFails(r)
  \/ NodeSucceeds(r) \/ NodeRefused(r) \/ NodeFails(r) \/ ExecutorRaises(r)
  \/ Persist(r) \/ Unwrap(r)
  \/ SaveReport(r) \/ SaveRun(r) \/ AnnounceSaved(r) \/ AnnounceCompleted(r)
  \/ Recover(r) \/ RecordFailure(r) \/ AnnounceFailure(r)

Next == Crash \/ \E r \in Runs : Step(r)

Spec == Init /\ [][Next]_vars

-----------------------------------------------------------------------------
(* Properties *)

(* A caller that got a report back has it for good: both files are on      *)
(* disk, the run file says succeeded and holds every node's trace, and the *)
(* events tell the whole story in order.                                   *)
Story == <<"analysis.started">> \o [n \in 1..NodeCount |-> "cell.completed"]
           \o <<"analysis.saved", "analysis.completed">>
ReturnMeansDurable ==
  \A r \in Runs : pc[r] = "returned" =>
    /\ r \in report_files
    /\ run_files[r].status = "succeeded"
    /\ run_files[r].traces = NodeCount
    /\ events[r] = Story

(* Whatever fails or crashes between the two writes, a run file that says  *)
(* succeeded has its report: a replay that starts from the run finds it.   *)
SucceededRunHasReport ==
  \A r \in Runs : run_files[r].status = "succeeded" => r \in report_files

(* The report files keep their promises: to the caller, and to whoever reads *)
(* the directory after a crash.                                            *)
DurabilityInv == TypeOK /\ ReturnMeansDurable /\ SucceededRunHasReport

(* The write record saved with a run is true of the other store: what it   *)
(* calls stored is there, and the store never holds a trace of a node that *)
(* the executor did not run.                                               *)
WriteRecordTruthful ==
  \A r \in Runs :
    /\ run_files[r].write = "succeeded" =>
         {r} \X (1..run_files[r].traces) \subseteq trace_store
    /\ \A n \in 1..NodeCount : <<r, n>> \in trace_store => n <= executed[r]

(* Every failure after analysis.started is announced, last, even when the  *)
(* failed run could not be saved; only the handler of the first event can  *)
(* make a run fail in silence.                                             *)
FailureAnnounced ==
  \A r \in Runs : pc[r] = "raised" =>
    \/ Last(events[r]) = "analysis.failed"
    \/ events[r] = <<"analysis.started">> /\ run_files[r] = NoFile

(* "A failed AnalysisRun must keep execution_order, completed_node_ids,    *)
(* failed_node_id, the traces of completed nodes, the failed trace and the *)
(* summary" (backend_design.md section 7).                                 *)
FailedRunKeepsExecution ==
  \A r \in Runs : run_files[r].status = "failed" =>
    /\ run_files[r].traces = executed[r]
    /\ executed[r] > 0 => run_files[r].outcome # "none"

(* Where that is not kept, there are two causes, and neither a store, an   *)
(* analysis handler nor a failing Cell is one.  An executor that raised    *)
(* costs a failed run the traces of the node it had just run, and nothing  *)
(* else; a subscriber that raised at the last Cell's own event costs it    *)
(* all of them and the outcome.                                            *)
Told(r) == IF Last(events[r]) = "analysis.failed" THEN Front(events[r]) ELSE events[r]
KeepsExecution(r) ==
  /\ run_files[r].traces = executed[r]
  /\ executed[r] > 0 => run_files[r].outcome # "none"
LostByExecutor(r) ==
  /\ "executor" \in world.faults
  /\ run_files[r].traces = executed[r] - 1 /\ run_files[r].outcome = "failed"
  /\ Last(Told(r)) = "cell.failed"
LostByHandler(r) ==
  /\ Last(Told(r)) \in {"cell.completed", "cell.failed"} \cap world.handlers
  /\ run_files[r].traces = 0 /\ run_files[r].outcome = "none"
LossHasItsCause ==
  \A r \in Runs : run_files[r].status = "failed" =>
    KeepsExecution(r) \/ LostByExecutor(r) \/ LostByHandler(r)

(* ADR-0003 section 4: a failed history write does not turn a completed    *)
(* analysis into a failed one.  With a healthy report store and no raising *)
(* handler, an analysis whose root succeeded is never recorded as failed.  *)
HistoryNeverFailsARun ==
  world.faults \subseteq {"executor", "traces"} /\ world.handlers = {} =>
    \A r \in Runs : outcome[r] = "ok" =>
      run_files[r].status # "failed" /\ pc[r] # "raised"

(* The history of traces is neither misreported by a run nor a danger to it. *)
HistoryInv == WriteRecordTruthful /\ HistoryNeverFailsARun

(* A failed run file is final, and a succeeded one is only ever replaced   *)
(* because a handler of one of the last two events raised.                 *)
RunFileSettles ==
  [][\A r \in Runs :
       /\ run_files[r].status = "failed" => run_files'[r] = run_files[r]
       /\ run_files[r].status = "succeeded" /\ run_files'[r] # run_files[r] =>
            Last(events[r]) \in {"analysis.saved", "analysis.completed"}
                               \cap world.handlers]_vars
=============================================================================
