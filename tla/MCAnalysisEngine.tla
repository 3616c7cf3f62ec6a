-------------------------- MODULE MCAnalysisEngine --------------------------
(* Small instances of AnalysisEngine. *)
EXTENDS AnalysisEngine, TLC
CONSTANTS r1, r2

AllWrites == {"traces", "report", "run"}
CellEvents == {"cell.completed", "cell.failed"}

\* Everything may go wrong; or all but the executors; or all but the
\* subscribers of the Cells' events; or only the executors and the history
\* of the bindings; or that history alone.
HardWorlds ==
  {[handlers |-> EventNames, faults |-> AllWrites \cup {"executor"}],
   [handlers |-> EventNames, faults |-> AllWrites],
   [handlers |-> EventNames \ CellEvents, faults |-> AllWrites \cup {"executor"}],
   [handlers |-> {}, faults |-> {"executor", "traces"}],
   [handlers |-> {}, faults |-> {"traces"}]}
CellSubscribers == {[handlers |-> {"cell.completed"}, faults |-> {}]}
Interchangeable == Permutations({r1, r2})
=============================================================================
