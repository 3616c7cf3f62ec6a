------------------------ MODULE AnalysisEngineProofs ------------------------
(***************************************************************************)
(* Theorems about AnalysisEngine, for any number of runs and nodes and for *)
(* every combination of raising handlers and failing writes.               *)
(***************************************************************************)
EXTENDS AnalysisEngine, SequenceTheorems, TLAPS

-----------------------------------------------------------------------------
(* Sequences of events *)

LEMMA LastOfAppend ==
  ASSUME NEW S, NEW s \in Seq(S), NEW e \in S
  PROVE  Append(s, e) \in Seq(S) /\ Last(Append(s, e)) = e
  BY DEF Last

(* What a run has announced once k nodes have succeeded. *)
Begun(k) == <<"analysis.started">> \o [n \in 1..k |-> "cell.completed"]

LEMMA BegunType ==
  ASSUME NEW k \in Nat
  PROVE  /\ Begun(k) \in Seq(EventNames)
         /\ Len(Begun(k)) = k + 1
         /\ \A i \in 1..(k + 1) :
              Begun(k)[i] = IF i = 1 THEN "analysis.started" ELSE "cell.completed"
<1> DEFINE first == <<"analysis.started">>
           nodes == [n \in 1..k |-> "cell.completed"]
<1>1. first \in Seq(EventNames) /\ Len(first) = 1 /\ first[1] = "analysis.started"
  BY DEF EventNames
<1>2. nodes \in Seq(EventNames) /\ Len(nodes) = k
  BY DEF EventNames
<1>3. \A i \in 1..k : nodes[i] = "cell.completed"
  OBVIOUS
<1> HIDE DEF first, nodes
<1>4. /\ first \o nodes \in Seq(EventNames)
      /\ Len(first \o nodes) = k + 1
      /\ \A i \in 1..(k + 1) : (first \o nodes)[i] =
           IF i <= 1 THEN first[i] ELSE nodes[i - 1]
  BY <1>1, <1>2, ConcatProperties
<1> QED
  BY <1>1, <1>3, <1>4 DEF Begun, first, nodes

LEMMA BegunZero == Append(<< >>, "analysis.started") = Begun(0)
<1>1. Begun(0) \in Seq(EventNames) /\ Len(Begun(0)) = 1 /\ Begun(0)[1] = "analysis.started"
  <2>1. /\ Begun(0) \in Seq(EventNames) /\ Len(Begun(0)) = 0 + 1
        /\ \A i \in 1..(0 + 1) :
             Begun(0)[i] = IF i = 1 THEN "analysis.started" ELSE "cell.completed"
    BY BegunType, Zenon, 0 \in Nat
  <2> QED
    BY <2>1
<1>2. "analysis.started" \in EventNames
  BY DEF EventNames
<1> QED
  BY <1>1, <1>2

LEMMA BegunNext ==
  ASSUME NEW k \in Nat
  PROVE  Append(Begun(k), "cell.completed") = Begun(k + 1)
<1> DEFINE s == Append(Begun(k), "cell.completed")
<1>1. "cell.completed" \in EventNames
  BY DEF EventNames
<1>2. /\ s \in Seq(EventNames) /\ Len(s) = k + 2
      /\ \A i \in 1..(k + 1) : s[i] = Begun(k)[i]
      /\ s[k + 2] = "cell.completed"
  <2> DEFINE b == Begun(k)
  <2>1. b \in Seq(EventNames) /\ Len(b) = k + 1
    BY BegunType
  <2> HIDE DEF b
  <2>2. /\ Append(b, "cell.completed") \in Seq(EventNames)
        /\ Len(Append(b, "cell.completed")) = (k + 1) + 1
        /\ \A i \in 1..(k + 1) : Append(b, "cell.completed")[i] = b[i]
        /\ Append(b, "cell.completed")[(k + 1) + 1] = "cell.completed"
    BY <1>1, <2>1, AppendProperties
  <2>3. (k + 1) + 1 = k + 2
    OBVIOUS
  <2> QED
    BY <2>2, <2>3 DEF b
<1>3. /\ Begun(k + 1) \in Seq(EventNames) /\ Len(Begun(k + 1)) = k + 2
      /\ \A i \in 1..(k + 2) :
           Begun(k + 1)[i] = IF i = 1 THEN "analysis.started" ELSE "cell.completed"
  BY BegunType, k + 1 \in Nat
<1>4. \A i \in 1..(k + 1) :
        Begun(k)[i] = IF i = 1 THEN "analysis.started" ELSE "cell.completed"
  BY BegunType
<1> HIDE DEF s
<1>5. \A i \in 1..Len(s) : s[i] = Begun(k + 1)[i]
  BY <1>2, <1>3, <1>4
<1> QED
  BY <1>2, <1>3, <1>5, SeqEqual, Zenon DEF s

LEMMA StoryIsAppended ==
  Append(Append(Begun(NodeCount), "analysis.saved"), "analysis.completed") = Story
<1>1. NodeCount \in Nat
  BY EngineAssumption
<1>2. Begun(NodeCount) \in Seq(EventNames)
  BY <1>1, BegunType
<1>3. {"analysis.saved", "analysis.completed"} \subseteq EventNames
  BY DEF EventNames
<1>4. Append(Append(Begun(NodeCount), "analysis.saved"), "analysis.completed")
        = Begun(NodeCount) \o <<"analysis.saved", "analysis.completed">>
  BY <1>2, <1>3
<1> QED
  BY <1>4 DEF Begun, Story

-----------------------------------------------------------------------------
(* Type correctness *)

USE DEF Goto

LEMMA InitType == Init => TypeOK
  BY EngineAssumption DEF Init, TypeOK, Places, Outcomes, Writes, Files, NoFile

LEMMA EmitType ==
  ASSUME TypeOK, NEW r \in Runs, NEW event \in EventNames,
         NEW next \in Places, NEW handlerRaised \in Places,
         Emit(r, event, next, handlerRaised)
  PROVE  events' \in [Runs -> Seq(EventNames)] /\ pc' \in [Runs -> Places]
<1>1. Append(events[r], event) \in Seq(EventNames)
  BY LastOfAppend DEF TypeOK
<1> QED
  BY <1>1 DEF Emit, TypeOK

LEMMA FileType ==
  ASSUME TypeOK, NEW r \in Runs
  PROVE  /\ \A status \in {"succeeded", "failed"} : RunFile(r, status, write[r]) \in Files
         /\ Torn \in Files
         /\ RunWriteFails(r) => run_files' \in [Runs -> Files]
<1>1. \A status \in {"succeeded", "failed"} : RunFile(r, status, write[r]) \in Files
  BY DEF TypeOK, RunFile, Files
<1>2. Torn \in Files
  BY EngineAssumption DEF Torn, NoFile, Files, Outcomes, Writes
<1>3. RunWriteFails(r) => run_files' \in [Runs -> Files]
  BY <1>2 DEF RunWriteFails, TypeOK
<1> QED
  BY <1>1, <1>2, <1>3

LEMMA SaveTracesType ==
  ASSUME TypeOK, NEW r \in Runs, SaveTraces(r)
  PROVE  trace_store' \subseteq Runs \X (1..NodeCount) /\ write' \in [Runs -> Writes]
<1>1. traces[r] \in 0..NodeCount
  BY DEF TypeOK
<1>2. \A k \in 0..traces[r] :
        trace_store \cup ({r} \X (1..k)) \subseteq Runs \X (1..NodeCount)
  BY <1>1, EngineAssumption DEF TypeOK
<1>3. trace_store' \subseteq Runs \X (1..NodeCount)
  <2>1. CASE trace_store' = trace_store \cup ({r} \X (1..traces[r]))
    BY <2>1, <1>1, <1>2
  <2>2. CASE \E k \in 0..(traces[r] - 1) : trace_store' = trace_store \cup ({r} \X (1..k))
    <3>1. PICK k \in 0..(traces[r] - 1) : trace_store' = trace_store \cup ({r} \X (1..k))
      BY <2>2
    <3>2. k \in 0..traces[r]
      BY <1>1
    <3> QED
      BY <3>1, <3>2, <1>2
  <2> QED
    BY <2>1, <2>2 DEF SaveTraces
<1> QED
  BY <1>3 DEF SaveTraces, TypeOK, Writes

(* The three ways a node fails differ in whether its Cell has run, and      *)
(* whether its traces were kept.                                            *)
SomeNodeFails(r) == NodeRefused(r) \/ NodeFails(r) \/ ExecutorRaises(r)

LEMMA NodeFailure ==
  ASSUME NEW r \in Runs, SomeNodeFails(r)
  PROVE  \E ran \in 0..1, kept \in 0..1 : kept <= ran /\ FailNode(r, ran, kept)
<1>1. CASE NodeRefused(r)
  BY <1>1, 0 \in 0..1, 0 <= 0 DEF NodeRefused
<1>2. CASE NodeFails(r)
  BY <1>2, 1 \in 0..1, 1 <= 1 DEF NodeFails
<1>3. CASE ExecutorRaises(r)
  BY <1>3, 0 \in 0..1, 1 \in 0..1, 0 <= 1 DEF ExecutorRaises
<1> QED
  BY <1>1, <1>2, <1>3 DEF SomeNodeFails

LEMMA StepType ==
  ASSUME TypeOK, NEW r \in Runs, Step(r), pc[r] = "walk" => executed[r] < NodeCount
  PROVE  TypeOK'
<1> USE DEF Places, Outcomes, Writes, durable
<1>1. CASE Start(r)
  BY <1>1, EmitType DEF Start, TypeOK, EventNames
<1>2. CASE Prepare(r)
  BY <1>2 DEF Prepare, TypeOK
<1>3. CASE PrepareFails(r)
  BY <1>3 DEF PrepareFails, TypeOK
<1>4. CASE NodeSucceeds(r)
  <2>1. executed' \in [Runs -> 0..NodeCount]
    BY <1>4, EngineAssumption DEF NodeSucceeds, TypeOK
  <2>2. events' \in [Runs -> Seq(EventNames)] /\ pc' \in [Runs -> Places]
    BY <1>4, EmitType DEF NodeSucceeds, EventNames
  <2>3. NodeCount \in 0..NodeCount
    BY EngineAssumption
  <2>4. outcome' \in [Runs -> Outcomes] /\ traces' \in [Runs -> 0..NodeCount]
    BY <1>4, <2>3 DEF NodeSucceeds, TypeOK
  <2>5. UNCHANGED <<write, trace_store, report_files, run_files, world>>
    BY <1>4 DEF NodeSucceeds
  <2> QED
    BY <2>1, <2>2, <2>4, <2>5 DEF TypeOK
<1>5. CASE SomeNodeFails(r)
  <2>0. PICK ran \in 0..1, kept \in 0..1 : kept <= ran /\ FailNode(r, ran, kept)
    BY <1>5, NodeFailure
  <2>1. executed' \in [Runs -> 0..NodeCount] /\ executed[r] + kept \in 0..NodeCount
    BY <2>0, EngineAssumption DEF FailNode, TypeOK
  <2>2. events' \in [Runs -> Seq(EventNames)] /\ pc' \in [Runs -> Places]
    BY <2>0, EmitType DEF FailNode, EventNames
  <2>3. outcome' \in [Runs -> Outcomes] /\ traces' \in [Runs -> 0..NodeCount]
    BY <2>0, <2>1 DEF FailNode, TypeOK
  <2> QED
    BY <2>0, <2>1, <2>2, <2>3 DEF FailNode, TypeOK
<1>6. CASE Persist(r)
  BY <1>6, SaveTracesType DEF Persist, TypeOK
<1>7. CASE Unwrap(r)
  BY <1>7 DEF Unwrap, TypeOK
<1>8. CASE SaveReport(r)
  BY <1>8 DEF SaveReport, TypeOK
<1>9. CASE SaveRun(r)
  BY <1>9, FileType, ZenonT(60) DEF SaveRun, TypeOK
<1>10. CASE AnnounceSaved(r)
  BY <1>10, EmitType, ZenonT(60) DEF AnnounceSaved, TypeOK, EventNames
<1>11. CASE AnnounceCompleted(r)
  BY <1>11, EmitType, ZenonT(60) DEF AnnounceCompleted, TypeOK, EventNames
<1>12. CASE Recover(r)
  BY <1>12, SaveTracesType DEF Recover, TypeOK
<1>13. CASE RecordFailure(r)
  BY <1>13, FileType DEF RecordFailure, TypeOK
<1>14. CASE AnnounceFailure(r)
  BY <1>14, EmitType, ZenonT(60) DEF AnnounceFailure, TypeOK, EventNames
<1> QED
  BY <1>1, <1>2, <1>3, <1>4, <1>5, <1>6, <1>7, <1>8, <1>9, <1>10, <1>11, <1>12,
     <1>13, <1>14 DEF Step, SomeNodeFails


-----------------------------------------------------------------------------
(* The inductive invariant *)

Saving == {"save_report", "save_run", "announce_saved"}
Saved  == {"announce_saved", "announce_completed", "returned"}

(* How far a run has got, and what it has announced by then. *)
Progress(r) ==
  /\ pc[r] = "idle" => events[r] = << >> /\ executed[r] = 0
  /\ pc[r] \in {"prepare", "walk"} =>
       events[r] = Begun(executed[r]) /\ executed[r] < NodeCount
  /\ pc[r] \in Saving => outcome[r] = "ok"
  /\ pc[r] \in {"persist", "unwrap"} \cup Saving /\ outcome[r] = "ok" =>
       events[r] = Begun(NodeCount) /\ traces[r] = NodeCount
  /\ pc[r] = "announce_completed" =>
       events[r] = Append(Begun(NodeCount), "analysis.saved")
  /\ pc[r] = "returned" =>
       events[r] = Append(Append(Begun(NodeCount), "analysis.saved"), "analysis.completed")

(* The two files of a run, by the place it has reached. *)
Unsaved == {"idle", "prepare", "walk", "persist", "unwrap", "save_report", "save_run"}
FileState(r) ==
  /\ pc[r] \in Unsaved => run_files[r] = NoFile
  /\ pc[r] \in Saved \cup {"save_run"} => r \in report_files
  /\ pc[r] \in Saved =>
       run_files[r].status = "succeeded" /\ run_files[r].traces = NodeCount
  /\ run_files[r].status = "succeeded" => r \in report_files

(* Why the failure path may meet a file that says succeeded, and what a    *)
(* caller who got an exception has been told.                              *)
Overwritable(r) ==
  Last(events[r]) \in {"analysis.saved", "analysis.completed"} \cap world.handlers
FailureState(r) ==
  /\ run_files[r].status = "failed" => pc[r] \in {"announce_failure", "raised", "crashed"}
  /\ pc[r] \in {"recover", "record_failure"} /\ run_files[r].status = "succeeded" =>
       Overwritable(r)
  /\ pc[r] = "raised" =>
       \/ Last(events[r]) = "analysis.failed"
       \/ events[r] = <<"analysis.started">> /\ run_files[r] = NoFile

(* What the trace store holds, and what is claimed about it. *)
Stored(r, n) == {r} \X (1..n) \subseteq trace_store
Benign == world.faults \subseteq {"executor", "traces"} /\ world.handlers = {}
TraceState(r) ==
  /\ traces[r] <= executed[r]
  /\ write[r] = "succeeded" => Stored(r, traces[r])
  /\ run_files[r].write = "succeeded" => Stored(r, run_files[r].traces)
  /\ \A n \in 1..NodeCount : <<r, n>> \in trace_store => n <= executed[r]
  /\ pc[r] \in {"idle", "prepare", "walk", "persist"} => write[r] = "none"
  /\ pc[r] \in {"idle", "prepare", "walk"} => outcome[r] = "none"
  /\ Benign /\ outcome[r] = "ok" =>
       /\ pc[r] \notin {"recover", "record_failure", "announce_failure", "raised"}
       /\ run_files[r].status # "failed"

RunInv(r) == Progress(r) /\ FileState(r) /\ FailureState(r) /\ TraceState(r)
IInv == TypeOK /\ \A r \in Runs : RunInv(r)

LEMMA InitInv == Init => IInv
<1> SUFFICES ASSUME Init, NEW r \in Runs PROVE RunInv(r)
  BY InitType DEF IInv
<1>1. Progress(r) /\ FileState(r) /\ FailureState(r)
  BY EngineAssumption DEF Init, Progress, FileState, FailureState, Saving, Saved, Unsaved, NoFile
<1>2. TraceState(r)
  BY EngineAssumption DEF Init, TraceState, NoFile
<1> QED
  BY <1>1, <1>2 DEF RunInv

-----------------------------------------------------------------------------
(* A step of one run leaves the others as they are *)

Untouched(r) ==
  /\ <<pc[r], executed[r], outcome[r], traces[r], write[r], events[r], run_files[r]>>'
       = <<pc[r], executed[r], outcome[r], traces[r], write[r], events[r], run_files[r]>>
  /\ r \in report_files' <=> r \in report_files
  /\ \A n \in 1..NodeCount : <<r, n>> \in trace_store' <=> <<r, n>> \in trace_store
  /\ world' = world

LEMMA SaveTracesElsewhere ==
  ASSUME TypeOK, NEW q \in Runs, NEW r \in Runs \ {q}, SaveTraces(q)
  PROVE  /\ \A n \in 1..NodeCount : <<r, n>> \in trace_store' <=> <<r, n>> \in trace_store
         /\ write'[r] = write[r]
  BY DEF SaveTraces, TypeOK

LEMMA StepElsewhere ==
  ASSUME TypeOK, NEW q \in Runs, NEW r \in Runs \ {q}, Step(q)
  PROVE  Untouched(r)
<1> USE DEF durable, Untouched, TypeOK
<1>1. CASE Start(q) \/ AnnounceSaved(q) \/ AnnounceCompleted(q) \/ AnnounceFailure(q)
  BY <1>1 DEF Start, AnnounceSaved, AnnounceCompleted, AnnounceFailure, Emit
<1>2. CASE Prepare(q) \/ PrepareFails(q) \/ Unwrap(q)
  BY <1>2 DEF Prepare, PrepareFails, Unwrap
<1>3. CASE NodeSucceeds(q)
  BY <1>3 DEF NodeSucceeds, Emit
<1>4. CASE SomeNodeFails(q)
  <2>1. PICK ran \in 0..1, kept \in 0..1 : kept <= ran /\ FailNode(q, ran, kept)
    BY <1>4, NodeFailure
  <2> QED
    BY <2>1 DEF FailNode, Emit
<1>5. CASE Persist(q)
  BY <1>5, SaveTracesElsewhere DEF Persist
<1>6. CASE Recover(q)
  BY <1>6, SaveTracesElsewhere DEF Recover
<1>7. CASE SaveReport(q)
  BY <1>7 DEF SaveReport
<1>8. CASE SaveRun(q)
  BY <1>8 DEF SaveRun, RunWriteFails
<1>9. CASE RecordFailure(q)
  BY <1>9 DEF RecordFailure, RunWriteFails
<1> QED
  BY <1>1, <1>2, <1>3, <1>4, <1>5, <1>6, <1>7, <1>8, <1>9 DEF Step, SomeNodeFails

LEMMA UntouchedInv ==
  ASSUME IInv, TypeOK', NEW r \in Runs, Untouched(r)
  PROVE  RunInv(r)'
<1>1. traces[r] \in 0..NodeCount /\ run_files[r].traces \in 0..NodeCount
  BY DEF IInv, TypeOK, Files
<1>2. Stored(r, traces[r]) => Stored(r, traces[r])'
  BY <1>1, EngineAssumption DEF Untouched, Stored
<1>3. Stored(r, run_files[r].traces) => Stored(r, run_files[r].traces)'
  BY <1>1, EngineAssumption DEF Untouched, Stored
<1>4. Progress(r)' /\ FileState(r)' /\ FailureState(r)'
  BY DEF Untouched, IInv, RunInv, Progress, FileState, FailureState, Overwritable
<1>5. TraceState(r)'
  BY <1>2, <1>3 DEF Untouched, IInv, RunInv, TraceState, Benign
<1> QED
  BY <1>4, <1>5 DEF RunInv

-----------------------------------------------------------------------------
(* What a step does to the run that takes it *)

LEMMA InRange ==
  ASSUME IInv, NEW r \in Runs
  PROVE  /\ pc[r] \in Places /\ executed[r] \in 0..NodeCount /\ traces[r] \in 0..NodeCount
         /\ events[r] \in Seq(EventNames) /\ run_files[r] \in Files
         /\ RunInv(r)
         /\ executed[r] \in Nat /\ NodeCount \in Nat \ {0}
  BY EngineAssumption DEF IInv, TypeOK

LEMMA EmitStep ==
  ASSUME TypeOK, NEW r \in Runs, NEW event, NEW next, NEW handlerRaised,
         Emit(r, event, next, handlerRaised)
  PROVE  /\ events'[r] = Append(events[r], event)
         /\ \/ pc'[r] = next
            \/ pc'[r] = handlerRaised /\ event \in world.handlers
  BY DEF Emit, TypeOK

LEMMA ProgressStep ==
  ASSUME IInv, NEW r \in Runs, Step(r)
  PROVE  Progress(r)'
<1> USE DEF TypeOK, RunInv, durable, Progress, Saving
<1> USE InRange
<1>0. TypeOK
  BY DEF IInv
<1> USE <1>0
<1>1. CASE Start(r)
  <2>1. /\ events'[r] = Append(events[r], "analysis.started")
        /\ pc'[r] = "prepare" \/ pc'[r] = "raised"
    BY <1>1, EmitStep DEF Start
  <2>2. events[r] = << >> /\ executed[r] = 0 /\ executed'[r] = 0
    BY <1>1 DEF Start
  <2>3. events'[r] = Begun(executed'[r]) /\ executed'[r] < NodeCount
    BY <2>1, <2>2, BegunZero
  <2> QED
    BY <2>1, <2>3
<1>2. CASE Prepare(r)
  BY <1>2 DEF Prepare
<1>3. CASE PrepareFails(r)
  BY <1>3 DEF PrepareFails
<1>4. CASE NodeSucceeds(r)
  <2>1. /\ events'[r] = Append(events[r], "cell.completed")
        /\ \/ pc'[r] = IF RootDone(r) THEN "persist" ELSE "walk"
           \/ pc'[r] = "recover"
    BY <1>4, EmitStep DEF NodeSucceeds
  <2>2. /\ events[r] = Begun(executed[r]) /\ executed[r] < NodeCount
        /\ executed'[r] = executed[r] + 1
    BY <1>4 DEF NodeSucceeds
  <2>3. events'[r] = Begun(executed'[r])
    BY <2>1, <2>2, BegunNext
  <2>4. CASE pc'[r] = "recover"
    BY <2>4
  <2>5. CASE pc'[r] = "walk" /\ ~RootDone(r)
    <3>1. executed'[r] < NodeCount
      BY <2>2, <2>5 DEF RootDone
    <3> QED
      BY <2>3, <2>5, <3>1
  <2>6. CASE pc'[r] = "persist" /\ RootDone(r)
    <3>1. executed'[r] = NodeCount
      BY <2>2, <2>6 DEF RootDone
    <3>2. traces'[r] = NodeCount
      BY <1>4, <2>6 DEF NodeSucceeds
    <3> QED
      BY <2>3, <2>6, <3>1, <3>2
  <2> QED
    BY <2>1, <2>4, <2>5, <2>6
<1>5. CASE SomeNodeFails(r)
  <2>0. PICK ran \in 0..1, kept \in 0..1 : kept <= ran /\ FailNode(r, ran, kept)
    BY <1>5, NodeFailure
  <2> QED
    BY <2>0, EmitStep, SMTT(60) DEF FailNode
<1>6. CASE Persist(r)
  BY <1>6 DEF Persist
<1>7. CASE Unwrap(r)
  BY <1>7 DEF Unwrap
<1>8. CASE SaveReport(r)
  BY <1>8 DEF SaveReport
<1>9. CASE SaveRun(r)
  BY <1>9 DEF SaveRun
<1>10. CASE AnnounceSaved(r)
  BY <1>10, EmitStep DEF AnnounceSaved
<1>11. CASE AnnounceCompleted(r)
  <2>1. /\ events'[r] = Append(events[r], "analysis.completed")
        /\ pc'[r] = "returned" \/ pc'[r] = "recover"
    BY <1>11, EmitStep DEF AnnounceCompleted
  <2>2. events[r] = Append(Begun(NodeCount), "analysis.saved")
    BY <1>11 DEF AnnounceCompleted
  <2> QED
    BY <2>1, <2>2
<1>12. CASE Recover(r)
  BY <1>12 DEF Recover
<1>13. CASE RecordFailure(r)
  BY <1>13 DEF RecordFailure
<1>14. CASE AnnounceFailure(r)
  <2>1. pc'[r] = "raised"
    BY <1>14, EmitStep DEF AnnounceFailure
  <2> QED
    BY <2>1
<1> QED
  BY <1>1, <1>2, <1>3, <1>4, <1>5, <1>6, <1>7, <1>8, <1>9,
     <1>10, <1>11, <1>12, <1>13, <1>14 DEF Step, SomeNodeFails

LEMMA FileStep ==
  ASSUME IInv, NEW r \in Runs, Step(r)
  PROVE  FileState(r)'
<1> USE DEF TypeOK, RunInv, durable, FileState, Saved, Unsaved
<1> USE InRange
<1>0. TypeOK
  BY DEF IInv
<1> USE <1>0
<1>1. CASE Start(r)
  BY <1>1, EmitStep DEF Start
<1>2. CASE Prepare(r)
  BY <1>2 DEF Prepare
<1>3. CASE PrepareFails(r)
  BY <1>3 DEF PrepareFails
<1>4. CASE NodeSucceeds(r)
  BY <1>4, EmitStep DEF NodeSucceeds
<1>5. CASE SomeNodeFails(r)
  <2>0. PICK ran \in 0..1, kept \in 0..1 : kept <= ran /\ FailNode(r, ran, kept)
    BY <1>5, NodeFailure
  <2> QED
    BY <2>0, EmitStep, SMTT(60) DEF FailNode
<1>6. CASE Persist(r)
  BY <1>6 DEF Persist
<1>7. CASE Unwrap(r)
  BY <1>7 DEF Unwrap
<1>8. CASE SaveReport(r)
  BY <1>8 DEF SaveReport, NoFile
<1>9. CASE SaveRun(r)
  BY <1>9 DEF SaveRun, RunWriteFails, RunFile, Torn, NoFile, Progress, Saving
<1>10. CASE AnnounceSaved(r)
  BY <1>10, EmitStep DEF AnnounceSaved
<1>11. CASE AnnounceCompleted(r)
  BY <1>11, EmitStep DEF AnnounceCompleted
<1>12. CASE Recover(r)
  BY <1>12 DEF Recover
<1>13. CASE RecordFailure(r)
  BY <1>13 DEF RecordFailure, RunWriteFails, RunFile, Torn, NoFile
<1>14. CASE AnnounceFailure(r)
  <2>1. pc'[r] = "raised"
    BY <1>14, EmitStep DEF AnnounceFailure
  <2>2. run_files' = run_files /\ report_files' = report_files
    BY <1>14 DEF AnnounceFailure
  <2> QED
    BY <2>1, <2>2
<1> QED
  BY <1>1, <1>2, <1>3, <1>4, <1>5, <1>6, <1>7, <1>8, <1>9,
     <1>10, <1>11, <1>12, <1>13, <1>14 DEF Step, SomeNodeFails

LEMMA EmitLast ==
  ASSUME IInv, NEW r \in Runs, NEW event \in EventNames, NEW next, NEW handlerRaised,
         Emit(r, event, next, handlerRaised)
  PROVE  Last(events'[r]) = event
<1>1. events'[r] = Append(events[r], event)
  BY EmitStep DEF IInv
<1>2. events[r] \in Seq(EventNames)
  BY InRange
<1>3. Last(Append(events[r], event)) = event
  BY <1>2, LastOfAppend
<1> QED
  BY <1>1, <1>3

LEMMA FailureStep ==
  ASSUME IInv, NEW r \in Runs, Step(r)
  PROVE  FailureState(r)'
<1> USE DEF TypeOK, RunInv, durable, FailureState, Overwritable
<1>0. /\ TypeOK
      /\ pc[r] \in Unsaved => run_files[r] = NoFile
      /\ pc[r] \in Saved => run_files[r].status = "succeeded"
      /\ FailureState(r)
  BY InRange DEF FileState, IInv
<1> USE <1>0 DEF Unsaved, Saved, NoFile
<1>1. CASE Start(r)
  <2>1. /\ events'[r] = Append(events[r], "analysis.started")
        /\ \/ pc'[r] = "prepare"
           \/ pc'[r] = "raised" /\ "analysis.started" \in world.handlers
        /\ Last(events'[r]) = "analysis.started"
        /\ run_files' = run_files /\ world' = world
    BY <1>1, EmitStep, EmitLast DEF Start, EventNames
  <2>2. events[r] = << >>
    BY <1>1, InRange DEF Start, Progress
  <2> QED
    BY <1>1, <2>1, <2>2 DEF Start
<1>2. CASE Prepare(r)
  BY <1>2 DEF Prepare
<1>3. CASE PrepareFails(r)
  BY <1>3 DEF PrepareFails
<1>4. CASE NodeSucceeds(r)
  <2>1. /\ events'[r] = Append(events[r], "cell.completed")
        /\ \/ pc'[r] = IF RootDone(r) THEN "persist" ELSE "walk"
           \/ pc'[r] = "recover" /\ "cell.completed" \in world.handlers
        /\ Last(events'[r]) = "cell.completed"
        /\ run_files' = run_files /\ world' = world
    BY <1>4, EmitStep, EmitLast DEF NodeSucceeds, EventNames
  <2> QED
    BY <1>4, <2>1 DEF NodeSucceeds
<1>5. CASE SomeNodeFails(r)
  <2>0. PICK ran \in 0..1, kept \in 0..1 : kept <= ran /\ FailNode(r, ran, kept)
    BY <1>5, NodeFailure
  <2>1. /\ events'[r] = Append(events[r], "cell.failed")
        /\ \/ pc'[r] = "persist"
           \/ pc'[r] = "recover" /\ "cell.failed" \in world.handlers
        /\ Last(events'[r]) = "cell.failed"
        /\ run_files' = run_files /\ world' = world
    BY <2>0, EmitStep, EmitLast DEF FailNode, EventNames
  <2> QED
    BY <2>0, <2>1 DEF FailNode
<1>6. CASE Persist(r)
  BY <1>6 DEF Persist
<1>7. CASE Unwrap(r)
  BY <1>7 DEF Unwrap
<1>8. CASE SaveReport(r)
  BY <1>8 DEF SaveReport
<1>9. CASE SaveRun(r)
  BY <1>9 DEF SaveRun, RunWriteFails, RunFile, Torn
<1>10. CASE AnnounceSaved(r)
  <2>1. /\ events'[r] = Append(events[r], "analysis.saved")
        /\ \/ pc'[r] = "announce_completed"
           \/ pc'[r] = "recover" /\ "analysis.saved" \in world.handlers
        /\ Last(events'[r]) = "analysis.saved"
        /\ run_files' = run_files /\ world' = world
    BY <1>10, EmitStep, EmitLast DEF AnnounceSaved, EventNames
  <2> QED
    BY <1>10, <2>1 DEF AnnounceSaved
<1>11. CASE AnnounceCompleted(r)
  <2>1. /\ events'[r] = Append(events[r], "analysis.completed")
        /\ \/ pc'[r] = "returned"
           \/ pc'[r] = "recover" /\ "analysis.completed" \in world.handlers
        /\ Last(events'[r]) = "analysis.completed"
        /\ run_files' = run_files /\ world' = world
    BY <1>11, EmitStep, EmitLast DEF AnnounceCompleted, EventNames
  <2> QED
    BY <1>11, <2>1 DEF AnnounceCompleted
<1>12. CASE Recover(r)
  BY <1>12 DEF Recover
<1>13. CASE RecordFailure(r)
  BY <1>13 DEF RecordFailure, RunWriteFails, RunFile, Torn
<1>14. CASE AnnounceFailure(r)
  <2>1. /\ events'[r] = Append(events[r], "analysis.failed")
        /\ \/ pc'[r] = "raised"
           \/ pc'[r] = "raised" /\ "analysis.failed" \in world.handlers
        /\ Last(events'[r]) = "analysis.failed"
        /\ run_files' = run_files /\ world' = world
    BY <1>14, EmitStep, EmitLast DEF AnnounceFailure, EventNames
  <2> QED
    BY <1>14, <2>1 DEF AnnounceFailure
<1> QED
  BY <1>1, <1>2, <1>3, <1>4, <1>5, <1>6, <1>7, <1>8, <1>9,
     <1>10, <1>11, <1>12, <1>13, <1>14 DEF Step, SomeNodeFails

LEMMA SaveTracesHere ==
  ASSUME IInv, NEW r \in Runs, SaveTraces(r)
  PROVE  /\ trace_store \subseteq trace_store'
         /\ write'[r] = "succeeded" => {r} \X (1..traces[r]) \subseteq trace_store'
         /\ \A n \in 1..NodeCount : <<r, n>> \in trace_store' => n <= executed[r]
<1>1. /\ traces[r] \in Nat /\ executed[r] \in Nat /\ traces[r] <= executed[r]
      /\ \A n \in 1..NodeCount : <<r, n>> \in trace_store => n <= executed[r]
  BY InRange DEF RunInv, TraceState
<1>2. write' = [write EXCEPT ![r] = "succeeded"] \/ write' = [write EXCEPT ![r] = "failed"]
  BY DEF SaveTraces
<1>3. write'[r] = "succeeded" => trace_store' = trace_store \cup ({r} \X (1..traces[r]))
  BY DEF SaveTraces, IInv, TypeOK
<1>4. PICK k \in 0..traces[r] : trace_store' = trace_store \cup ({r} \X (1..k))
  <2>1. traces[r] \in 0..traces[r]
    BY <1>1
  <2>2. \A k \in 0..(traces[r] - 1) : k \in 0..traces[r]
    BY <1>1
  <2> QED
    BY <2>1, <2>2 DEF SaveTraces
<1>5. \A n \in 1..NodeCount : <<r, n>> \in trace_store' => n <= executed[r]
  BY <1>1, <1>4, InRange
<1> QED
  BY <1>3, <1>4, <1>5

LEMMA TraceStep ==
  ASSUME IInv, NEW r \in Runs, Step(r)
  PROVE  TraceState(r)'
<1> USE DEF durable, Benign, Stored
<1>0. TypeOK /\ TraceState(r) /\ Progress(r) /\ FileState(r)
  BY InRange DEF RunInv, IInv
<1> USE <1>0, InRange
<1>1. CASE Start(r)
  <2>1. pc'[r] = "prepare" \/ (pc'[r] = "raised" /\ "analysis.started" \in world.handlers)
    BY <1>1, EmitStep DEF Start
  <2> QED
    BY <1>1, <2>1 DEF Start, TypeOK, TraceState
<1>2. CASE Prepare(r)
  BY <1>2 DEF Prepare, TypeOK, TraceState
<1>3. CASE PrepareFails(r)
  BY <1>3 DEF PrepareFails, TypeOK, TraceState
<1>4. CASE NodeSucceeds(r)
  <2>1. /\ pc[r] = "walk" /\ write[r] = "none" /\ outcome[r] = "none"
        /\ traces[r] <= executed[r]
        /\ run_files[r] = NoFile
        /\ run_files' = run_files /\ trace_store' = trace_store
        /\ write' = write /\ world' = world
        /\ executed'[r] = executed[r] + 1
    BY <1>4 DEF NodeSucceeds, TypeOK, TraceState, FileState, Unsaved
  <2>2. traces'[r] <= executed'[r]
    BY <1>4, <2>1, EmitStep, SMTT(60) DEF NodeSucceeds, TypeOK, RootDone
  <2>3. /\ pc'[r] = "recover" => outcome'[r] = "none" /\ world.handlers # {}
        /\ pc'[r] \in {"persist", "walk", "recover"}
        /\ pc'[r] = "walk" => outcome'[r] = "none"
    <3>1. \/ pc'[r] = IF RootDone(r) THEN "persist" ELSE "walk"
          \/ pc'[r] = "recover" /\ "cell.completed" \in world.handlers
      BY <1>4, EmitStep DEF NodeSucceeds
    <3>2. pc'[r] # "persist" => outcome'[r] = "none"
      BY <1>4, <2>1 DEF NodeSucceeds
    <3> QED
      BY <3>1, <3>2
  <2> QED
    BY <2>1, <2>2, <2>3 DEF TraceState, NoFile
<1>5. CASE SomeNodeFails(r)
  <2>0. PICK ran \in 0..1, kept \in 0..1 : kept <= ran /\ FailNode(r, ran, kept)
    BY <1>5, NodeFailure
  <2>1. /\ pc[r] = "walk" /\ write[r] = "none" /\ outcome[r] = "none"
        /\ traces[r] <= executed[r]
        /\ run_files[r] = NoFile
        /\ run_files' = run_files /\ trace_store' = trace_store
        /\ write' = write /\ world' = world
        /\ executed'[r] = executed[r] + ran
    BY <2>0 DEF FailNode, TypeOK, TraceState, FileState, Unsaved
  <2>2. traces'[r] <= executed'[r]
    BY <2>0, <2>1, EmitStep DEF FailNode, TypeOK
  <2>3. /\ pc'[r] = "recover" => outcome'[r] = "none" /\ world.handlers # {}
        /\ pc'[r] \in {"persist", "walk", "recover"}
        /\ pc'[r] = "walk" => outcome'[r] = "none"
    <3>1. \/ pc'[r] = "persist"
          \/ pc'[r] = "recover" /\ "cell.failed" \in world.handlers
      BY <2>0, EmitStep, SMTT(60) DEF FailNode
    <3>2. pc'[r] # "persist" => outcome'[r] = "none"
      BY <2>0, <2>1 DEF FailNode
    <3> QED
      BY <3>1, <3>2
  <2> QED
    BY <2>1, <2>2, <2>3 DEF TraceState, NoFile
<1>6. CASE Persist(r)
  <2>1. /\ trace_store \subseteq trace_store'
        /\ write'[r] = "succeeded" => {r} \X (1..traces[r]) \subseteq trace_store'
        /\ \A n \in 1..NodeCount : <<r, n>> \in trace_store' => n <= executed[r]
    BY <1>6, SaveTracesHere DEF Persist, TraceState
  <2> QED
    BY <1>6, <2>1 DEF Persist, TypeOK, TraceState
<1>7. CASE Unwrap(r)
  BY <1>7 DEF Unwrap, TypeOK, TraceState
<1>8. CASE SaveReport(r)
  BY <1>8 DEF SaveReport, TypeOK, TraceState
<1>9. CASE SaveRun(r)
  <2>1. /\ run_files[r] = NoFile /\ write' = write /\ world' = world
        /\ traces' = traces /\ executed' = executed /\ outcome' = outcome
        /\ trace_store' = trace_store /\ pc[r] = "save_run"
    BY <1>9 DEF SaveRun, FileState, Unsaved
  <2>2. CASE run_files' = [run_files EXCEPT ![r] = RunFile(r, "succeeded", write[r])]
             /\ Goto(r, "announce_saved")
    <3>1. run_files'[r] = RunFile(r, "succeeded", write[r]) /\ pc'[r] = "announce_saved"
      BY <2>2 DEF TypeOK
    <3> QED
      BY <2>1, <3>1 DEF RunFile, TraceState
  <2>3. CASE RunWriteFails(r) /\ Goto(r, "recover")
    <3>1. /\ run_files'[r] = Torn \/ run_files'[r] = run_files[r]
          /\ pc'[r] = "recover" /\ "run" \in world.faults
      BY <2>3 DEF RunWriteFails, TypeOK
    <3> QED
      BY <2>1, <3>1 DEF Torn, NoFile, TraceState
  <2> QED
    BY <1>9, <2>2, <2>3 DEF SaveRun
<1>10. CASE AnnounceSaved(r)
  <2>1. pc'[r] = "announce_completed" \/ (pc'[r] = "recover" /\ "analysis.saved" \in world.handlers)
    BY <1>10, EmitStep DEF AnnounceSaved
  <2> QED
    BY <1>10, <2>1 DEF AnnounceSaved, TypeOK, TraceState
<1>11. CASE AnnounceCompleted(r)
  <2>1. pc'[r] = "returned" \/ (pc'[r] = "recover" /\ "analysis.completed" \in world.handlers)
    BY <1>11, EmitStep DEF AnnounceCompleted
  <2> QED
    BY <1>11, <2>1 DEF AnnounceCompleted, TypeOK, TraceState
<1>12. CASE Recover(r)
  <2>1. /\ trace_store \subseteq trace_store'
        /\ write'[r] = "succeeded" => {r} \X (1..traces[r]) \subseteq trace_store'
        /\ \A n \in 1..NodeCount : <<r, n>> \in trace_store' => n <= executed[r]
    BY <1>12, SaveTracesHere DEF Recover, TraceState
  <2> QED
    BY <1>12, <2>1 DEF Recover, TypeOK, TraceState
<1>13. CASE RecordFailure(r)
  <2>1. /\ pc[r] = "record_failure" /\ pc'[r] = "announce_failure"
        /\ run_files'[r] = run_files[r] \/ run_files'[r] = Torn
             \/ run_files'[r] = RunFile(r, "failed", write[r])
        /\ UNCHANGED <<executed, outcome, traces, write, trace_store, world>>
    BY <1>13 DEF RecordFailure, RunWriteFails, TypeOK
  <2>2. run_files'[r].write = "succeeded" => Stored(r, run_files'[r].traces)
    BY <2>1 DEF RunFile, Torn, NoFile, TraceState
  <2> QED
    BY <2>1, <2>2 DEF TraceState
<1>14. CASE AnnounceFailure(r)
  <2>1. pc'[r] = "raised" \/ (pc'[r] = "raised" /\ "analysis.failed" \in world.handlers)
    BY <1>14, EmitStep DEF AnnounceFailure
  <2> QED
    BY <1>14, <2>1 DEF AnnounceFailure, TypeOK, TraceState
<1> QED
  BY <1>1, <1>2, <1>3, <1>4, <1>5, <1>6, <1>7, <1>8, <1>9,
     <1>10, <1>11, <1>12, <1>13, <1>14 DEF Step, SomeNodeFails

LEMMA CrashInv ==
  ASSUME IInv, Crash
  PROVE  IInv'
<1> USE DEF Over, Places
<1>1. TypeOK'
  <2>1. \A r \in Runs : run_files'[r] \in Files
    BY FileType DEF Crash, IInv, TypeOK
  <2>2. run_files' = [r \in Runs |-> run_files'[r]]
    BY DEF Crash
  <2> QED
    BY <2>1, <2>2 DEF Crash, IInv, TypeOK
<1> SUFFICES ASSUME NEW r \in Runs PROVE RunInv(r)'
  BY <1>1 DEF IInv
<1>2. RunInv(r) /\ TypeOK
  BY DEF IInv
<1>3. CASE pc[r] \in Over
  <2>1. Untouched(r)
    BY <1>2, <1>3 DEF Crash, Untouched
  <2> QED
    BY <1>1, <2>1, UntouchedInv
<1>4. CASE pc[r] \notin Over
  <2>1. /\ pc'[r] = "crashed"
        /\ run_files'[r] = Torn \/ run_files'[r] = run_files[r]
        /\ <<executed, outcome, traces, write, trace_store, report_files, world>>'
             = <<executed, outcome, traces, write, trace_store, report_files, world>>
    BY <1>4 DEF Crash
  <2>2. pc[r] \in {"announce_failure", "raised"} \/ run_files[r].status # "failed"
    BY <1>2, <1>4 DEF RunInv, FailureState
  <2>3. Progress(r)' /\ FileState(r)' /\ FailureState(r)'
    BY <1>2, <2>1 DEF RunInv, Progress, FileState, FailureState, Saving, Saved,
       Unsaved, Torn, NoFile
  <2>4. TraceState(r)'
    BY <1>2, <2>1, <2>2 DEF RunInv, TraceState, Torn, NoFile, Stored, Benign
  <2> QED
    BY <2>3, <2>4 DEF RunInv
<1> QED
  BY <1>3, <1>4

LEMMA StepInv ==
  ASSUME IInv, NEW q \in Runs, Step(q)
  PROVE  IInv'
<1>1. TypeOK'
  BY StepType DEF IInv, RunInv, Progress
<1>2. RunInv(q)'
  BY ProgressStep, FileStep, FailureStep, TraceStep DEF RunInv
<1>3. \A r \in Runs \ {q} : RunInv(r)'
  BY <1>1, StepElsewhere, UntouchedInv DEF IInv
<1> QED
  BY <1>1, <1>2, <1>3 DEF IInv

LEMMA NextInv == IInv /\ [Next]_vars => IInv'
<1> SUFFICES ASSUME IInv, [Next]_vars PROVE IInv'
  OBVIOUS
<1>1. CASE Crash
  BY <1>1, CrashInv
<1>2. ASSUME NEW q \in Runs, Step(q) PROVE IInv'
  BY <1>2, StepInv
<1>3. CASE UNCHANGED vars
  <2>1. TypeOK'
    BY <1>3 DEF vars, IInv, TypeOK
  <2>2. \A r \in Runs : Untouched(r)
    BY <1>3 DEF vars, Untouched
  <2> QED
    BY <2>1, <2>2, UntouchedInv DEF IInv
<1> QED
  BY <1>1, <1>2, <1>3 DEF Next

-----------------------------------------------------------------------------
(* What the engine promises *)

(* AnalysisEngine.run and FileSystemReportStore.save: a caller that got a   *)
(* report has both files, with every node's trace and the events in order,  *)
(* and a run file that says succeeded always has its report, whatever fails *)
(* or crashes.                                                              *)
THEOREM ReportsAreDurable == Spec => []DurabilityInv
<1>1. IInv => DurabilityInv
  BY StoryIsAppended DEF IInv, RunInv, Progress, FileState, Saved, DurabilityInv,
     ReturnMeansDurable, SucceededRunHasReport
<1> QED
  BY <1>1, InitInv, NextInv, PTL DEF Spec

(* _persist_runtime_traces and _save_failed_run: a run file never claims    *)
(* traces the store does not hold, the store never holds a trace of a node  *)
(* that did not run, and a failing trace store alone never turns a          *)
(* completed analysis into a failed one.                                    *)
THEOREM HistoryIsTruthful == Spec => []HistoryInv
<1>1. IInv => HistoryInv
  BY DEF IInv, RunInv, TraceState, Stored, Benign, HistoryInv, WriteRecordTruthful,
     HistoryNeverFailsARun
<1> QED
  BY <1>1, InitInv, NextInv, PTL DEF Spec

(* The except block of AnalysisEngine.run: a failure after analysis.started *)
(* always ends in an analysis.failed event, saved or not.                   *)
THEOREM FailuresAreAnnounced == Spec => []FailureAnnounced
<1>1. IInv => FailureAnnounced
  BY DEF IInv, RunInv, FailureState, FailureAnnounced
<1> QED
  BY <1>1, InitInv, NextInv, PTL DEF Spec

(* The two writers of a run file: a failed record is never replaced, and a  *)
(* succeeded one only after a subscriber of analysis.saved or               *)
(* analysis.completed raised.                                               *)
THEOREM RunFilesSettle == Spec => RunFileSettles
<1> DEFINE Settles(r) ==
      /\ run_files[r].status = "failed" => run_files'[r] = run_files[r]
      /\ run_files[r].status = "succeeded" /\ run_files'[r] # run_files[r] =>
           Overwritable(r)
<1>1. ASSUME IInv, Next, NEW r \in Runs PROVE Settles(r)
  <2>0. TypeOK /\ FileState(r) /\ FailureState(r)
    BY <1>1 DEF IInv, RunInv
  <2>1. ASSUME NEW q \in Runs \ {r}, Step(q) PROVE run_files'[r] = run_files[r]
    BY <2>0, <2>1, StepElsewhere DEF Untouched
  <2>2. CASE Crash
    BY <2>0, <2>2 DEF Crash, TypeOK, FileState, FailureState, Unsaved, NoFile
  <2>3. CASE Step(r)
    <3>1. CASE SaveRun(r)
      BY <2>0, <3>1 DEF SaveRun, FileState, Unsaved, NoFile
    <3>2. CASE RecordFailure(r)
      BY <2>0, <3>2 DEF RecordFailure, FailureState
    <3>3. CASE ~SaveRun(r) /\ ~RecordFailure(r)
      <4>1. run_files' = run_files
        BY <2>3, <3>3 DEF Step, Start, Prepare, PrepareFails, NodeSucceeds, NodeRefused,
           NodeFails, ExecutorRaises, FailNode, Persist, Unwrap, SaveReport, AnnounceSaved,
           AnnounceCompleted, Recover, AnnounceFailure, durable
      <4> QED
        BY <4>1
    <3> QED
      BY <3>1, <3>2, <3>3
  <2> QED
    BY <1>1, <2>1, <2>2, <2>3 DEF Next
<1>2. IInv /\ [Next]_vars =>
        [\A r \in Runs : Settles(r)]_vars
  BY <1>1
<1>3. IInv /\ [Next]_vars =>
        [\A r \in Runs :
           /\ run_files[r].status = "failed" => run_files'[r] = run_files[r]
           /\ run_files[r].status = "succeeded" /\ run_files'[r] # run_files[r] =>
                Last(events[r]) \in {"analysis.saved", "analysis.completed"}
                                   \cap world.handlers]_vars
  BY <1>2 DEF Overwritable
<1> QED
  BY <1>3, InitInv, NextInv, PTL DEF Spec, RunFileSettles

-----------------------------------------------------------------------------
(* What a failed run keeps *)

LEMMA FrontOfAppend ==
  ASSUME NEW S, NEW s \in Seq(S), NEW e \in S
  PROVE  Front(Append(s, e)) = s
<1> DEFINE t == Append(s, e)
<1>1. /\ t \in Seq(S) /\ Len(t) = Len(s) + 1 /\ Len(s) \in Nat
      /\ \A i \in 1..Len(s) : t[i] = s[i] /\ t[i] \in S
  OBVIOUS
<1> HIDE DEF t
<1>2. /\ SubSeq(t, 1, Len(s)) \in Seq(S)
      /\ Len(SubSeq(t, 1, Len(s))) = Len(s)
      /\ \A i \in 1..Len(s) : SubSeq(t, 1, Len(s))[i] = t[i]
  <2>1. /\ SubSeq(t, 1, Len(s)) \in Seq(S)
        /\ Len(SubSeq(t, 1, Len(s))) = IF 1 <= Len(s) THEN Len(s) - 1 + 1 ELSE 0
        /\ \A i \in 1..(Len(s) - 1 + 1) : SubSeq(t, 1, Len(s))[i] = t[1 + i - 1]
    BY <1>1, SubSeqProperties
  <2> QED
    BY <2>1, <1>1
<1> DEFINE u == SubSeq(t, 1, Len(s))
<1> HIDE DEF u
<1>3. u \in Seq(S) /\ Len(u) = Len(s) /\ \A i \in 1..Len(u) : u[i] = s[i]
  BY <1>1, <1>2 DEF u
<1>4. u = s
  BY <1>3, SeqEqual
<1>5. Len(t) - 1 = Len(s)
  BY <1>1
<1> QED
  BY <1>4, <1>5 DEF Front, u, t

Saves   == {"save_report", "save_run", "announce_saved", "announce_completed"}
Failing == {"recover", "record_failure", "announce_failure"}

(* The three ways to have run some Cells: the coordinator's outcome came    *)
(* back with every trace, or without those of the node whose executor       *)
(* raised, or a subscriber of a Cell's own event raised and it did not come *)
(* back.  told: what the run has announced but its failure.                 *)
Kept(r) == traces[r] = executed[r] /\ (executed[r] > 0 => outcome[r] # "none")
Untraced(r, told) ==
  /\ "executor" \in world.faults
  /\ traces[r] = executed[r] - 1 /\ outcome[r] = "failed"
  /\ Last(told) = "cell.failed"
Interrupted(r, told) ==
  /\ Last(told) \in {"cell.completed", "cell.failed"} \cap world.handlers
  /\ traces[r] = 0 /\ outcome[r] = "none"

LossState(r) ==
  /\ pc[r] \in {"idle", "prepare"} => executed[r] = 0
  /\ pc[r] \in {"idle", "prepare", "walk"} => traces[r] = 0
  /\ pc[r] \in {"persist", "unwrap"} => Kept(r) \/ Untraced(r, events[r])
  /\ pc[r] \in Saves => Kept(r)
  /\ pc[r] \in Failing =>
       Kept(r) \/ Untraced(r, events[r]) \/ Interrupted(r, events[r])
  /\ run_files[r].status = "failed" =>
       /\ run_files[r].traces = traces[r] /\ run_files[r].outcome = outcome[r]
       /\ Kept(r) \/ Untraced(r, Told(r)) \/ Interrupted(r, Told(r))
LossInv == \A r \in Runs : LossState(r)

LEMMA UntouchedLoss ==
  ASSUME NEW r \in Runs, LossState(r), Untouched(r)
  PROVE  LossState(r)'
  BY DEF Untouched, LossState, Kept, Untraced, Interrupted, Told

LEMMA LossStep ==
  ASSUME IInv, NEW r \in Runs, LossState(r), Step(r)
  PROVE  LossState(r)'
<1> USE DEF durable, LossState, Kept, Saves, Failing
<1>0. /\ TypeOK /\ traces[r] <= executed[r]
      /\ traces[r] \in Nat /\ executed[r] \in Nat /\ NodeCount \in Nat \ {0}
      /\ pc[r] \notin {"announce_failure", "raised", "crashed"} => run_files[r].status # "failed"
      /\ pc[r] \in {"idle", "prepare", "walk"} => outcome[r] = "none"
  BY InRange DEF IInv, RunInv, TraceState, FailureState
<1> USE <1>0
<1>1. CASE Start(r)
  <2>1. pc'[r] = "prepare" \/ pc'[r] = "raised"
    BY <1>1, EmitStep DEF Start
  <2> QED
    BY <1>1, <2>1 DEF Start
<1>2. CASE Prepare(r)
  BY <1>2 DEF Prepare, TypeOK
<1>3. CASE PrepareFails(r)
  BY <1>3 DEF PrepareFails, TypeOK
<1>4. CASE NodeSucceeds(r)
  <2>1. /\ Last(events'[r]) = "cell.completed" /\ executed'[r] = executed[r] + 1
        /\ run_files' = run_files /\ world' = world /\ pc[r] = "walk"
        /\ \/ pc'[r] = "persist" /\ RootDone(r)
           \/ pc'[r] = "walk"
           \/ pc'[r] = "recover" /\ "cell.completed" \in world.handlers
    BY <1>4, EmitStep, EmitLast DEF NodeSucceeds, EventNames, TypeOK
  <2>2. CASE pc'[r] = "persist" /\ RootDone(r)
    <3>1. outcome'[r] = "ok" /\ traces'[r] = NodeCount
      BY <1>4, <2>2 DEF NodeSucceeds, TypeOK
    <3> QED
      BY <2>1, <2>2, <3>1 DEF RootDone
  <2>3. CASE pc'[r] = "walk"
    <3>1. UNCHANGED traces
      BY <1>4, <2>3 DEF NodeSucceeds
    <3> QED
      BY <2>1, <2>3, <3>1
  <2>4. CASE pc'[r] = "recover" /\ "cell.completed" \in world.handlers
    <3>1. UNCHANGED <<outcome, traces>>
      BY <1>4, <2>4 DEF NodeSucceeds
    <3> QED
      BY <2>1, <2>4, <3>1 DEF Interrupted
  <2> QED
    BY <2>1, <2>2, <2>3, <2>4
<1>5. CASE SomeNodeFails(r)
  <2>0. PICK ran \in 0..1, kept \in 0..1 :
          /\ FailNode(r, ran, kept)
          /\ kept = ran \/ (kept = ran - 1 /\ "executor" \in world.faults)
    <3>1. CASE NodeRefused(r)
      BY <3>1, 0 \in 0..1 DEF NodeRefused
    <3>2. CASE NodeFails(r)
      BY <3>2, 1 \in 0..1 DEF NodeFails
    <3>3. CASE ExecutorRaises(r)
      BY <3>3, 0 \in 0..1, 1 \in 0..1, 0 = 1 - 1 DEF ExecutorRaises
    <3> QED
      BY <1>5, <3>1, <3>2, <3>3 DEF SomeNodeFails
  <2>1. /\ Last(events'[r]) = "cell.failed" /\ executed'[r] = executed[r] + ran
        /\ run_files' = run_files /\ world' = world /\ pc[r] = "walk"
        /\ \/ pc'[r] = "persist"
           \/ pc'[r] = "recover" /\ "cell.failed" \in world.handlers
    BY <2>0, EmitStep, EmitLast DEF FailNode, EventNames, TypeOK
  <2>2. CASE pc'[r] = "persist"
    <3>1. outcome'[r] = "failed" /\ traces'[r] = executed[r] + kept
      BY <2>0, <2>2 DEF FailNode, TypeOK
    <3>2. CASE kept = ran
      BY <2>1, <2>2, <3>1, <3>2
    <3>3. CASE kept = ran - 1 /\ "executor" \in world.faults
      <4>1. traces'[r] = executed'[r] - 1
        BY <2>1, <3>1, <3>3
      <4> QED
        BY <2>1, <2>2, <3>1, <3>3, <4>1 DEF Untraced
    <3> QED
      BY <2>0, <3>2, <3>3
  <2>3. CASE pc'[r] = "recover" /\ "cell.failed" \in world.handlers
    <3>1. UNCHANGED <<outcome, traces>>
      BY <2>0, <2>3 DEF FailNode
    <3> QED
      BY <2>1, <2>3, <3>1 DEF Interrupted
  <2> QED
    BY <2>1, <2>2, <2>3
<1>6. CASE Persist(r)
  BY <1>6 DEF Persist, TypeOK, Untraced
<1>7. CASE Unwrap(r)
  BY <1>7 DEF Unwrap, TypeOK, Untraced
<1>8. CASE SaveReport(r)
  BY <1>8 DEF SaveReport, TypeOK
<1>9. CASE SaveRun(r)
  <2>1. /\ pc[r] = "save_run" /\ run_files'[r].status # "failed"
        /\ pc'[r] \in {"announce_saved", "recover"}
        /\ UNCHANGED <<executed, outcome, traces, events, world>>
    BY <1>9 DEF SaveRun, RunWriteFails, RunFile, Torn, NoFile, TypeOK
  <2> QED
    BY <2>1
<1>10. CASE AnnounceSaved(r)
  <2>1. pc'[r] \in {"announce_completed", "recover"}
    BY <1>10, EmitStep DEF AnnounceSaved
  <2> QED
    BY <1>10, <2>1 DEF AnnounceSaved
<1>11. CASE AnnounceCompleted(r)
  <2>1. pc'[r] \in {"returned", "recover"}
    BY <1>11, EmitStep DEF AnnounceCompleted
  <2> QED
    BY <1>11, <2>1 DEF AnnounceCompleted
<1>12. CASE Recover(r)
  BY <1>12 DEF Recover, TypeOK, Untraced, Interrupted
<1>13. CASE RecordFailure(r)
  <2>1. /\ pc[r] = "record_failure" /\ pc'[r] = "announce_failure"
        /\ UNCHANGED <<executed, outcome, traces, events, world>>
    BY <1>13 DEF RecordFailure, TypeOK
  <2>2. run_files'[r].status = "failed" =>
          run_files'[r].traces = traces[r] /\ run_files'[r].outcome = outcome[r]
    BY <1>13 DEF RecordFailure, RunWriteFails, RunFile, Torn, NoFile, TypeOK
  <2>3. Untraced(r, events[r]) \/ Interrupted(r, events[r]) => Told(r) = events[r]
    BY DEF Untraced, Interrupted, Told
  <2> QED
    BY <2>1, <2>2, <2>3 DEF Untraced, Interrupted, Told
<1>14. CASE AnnounceFailure(r)
  <2>1. /\ pc[r] = "announce_failure" /\ pc'[r] = "raised"
        /\ UNCHANGED <<executed, outcome, traces, run_files, world>>
        /\ events'[r] = Append(events[r], "analysis.failed")
        /\ Last(events'[r]) = "analysis.failed"
    BY <1>14, EmitStep, EmitLast DEF AnnounceFailure, EventNames
  <2>2. Told(r)' = events[r]
    <3>1. events[r] \in Seq(EventNames) /\ "analysis.failed" \in EventNames
      BY InRange DEF EventNames
    <3>2. Front(Append(events[r], "analysis.failed")) = events[r]
      BY <3>1, FrontOfAppend
    <3> QED
      BY <2>1, <3>2 DEF Told
  <2> QED
    BY <2>1, <2>2 DEF Untraced, Interrupted
<1> QED
  BY <1>1, <1>2, <1>3, <1>4, <1>5, <1>6, <1>7, <1>8, <1>9,
     <1>10, <1>11, <1>12, <1>13, <1>14 DEF Step, SomeNodeFails

LEMMA NextLoss ==
  ASSUME IInv, LossInv, [Next]_vars
  PROVE  LossInv'
<1>1. ASSUME NEW q \in Runs, Step(q) PROVE LossInv'
  <2>1. \A r \in Runs \ {q} : LossState(r)'
    BY <1>1, StepElsewhere, UntouchedLoss DEF IInv, LossInv
  <2> QED
    BY <1>1, <2>1, LossStep DEF LossInv
<1>2. CASE Crash
  <2> SUFFICES ASSUME NEW r \in Runs PROVE LossState(r)'
    BY DEF LossInv
  <2>1. /\ pc'[r] = "crashed" \/ pc'[r] = pc[r]
        /\ run_files'[r] = Torn \/ run_files'[r] = run_files[r]
        /\ UNCHANGED <<executed, outcome, traces, events, world>>
    BY <1>2 DEF Crash
  <2> QED
    BY <2>1 DEF LossInv, LossState, Saves, Failing, Kept, Untraced,
       Interrupted, Told, Torn, NoFile
<1>3. CASE UNCHANGED vars
  <2>1. \A r \in Runs : Untouched(r)
    BY <1>3 DEF vars, Untouched
  <2> QED
    BY <2>1, UntouchedLoss DEF LossInv
<1> QED
  BY <1>1, <1>2, <1>3 DEF Next

(* The except block of AnalysisEngine.run, with _execute_plan and the       *)
(* walk of the coordinator: a failed run keeps the outcome and the traces   *)
(* of every node whose Cell ran, whatever store, failing node or other      *)
(* subscriber brought it down.  Two things cost it more: an executor that   *)
(* raised, the traces of the node it had just run, no less and no more; a   *)
(* subscriber of the last Cell's own event that raised, all of them.        *)
THEOREM LossesHaveTheirCause == Spec => []LossHasItsCause
<1>1. Init => LossInv
  BY DEF Init, LossInv, LossState, Saves, Failing, NoFile
<1>2. IInv /\ LossInv /\ [Next]_vars => LossInv'
  BY NextLoss
<1>3. LossInv => LossHasItsCause
  BY DEF LossInv, LossState, Kept, Untraced, Interrupted, KeepsExecution,
     LostByExecutor, LostByHandler, LossHasItsCause
<1> QED
  BY <1>1, <1>2, <1>3, InitInv, NextInv, PTL DEF Spec
=============================================================================
