--------------------------- MODULE RuntimeHistory ---------------------------
(***************************************************************************)
(* The feedback between runs of one Cell: the runtime summary store keeps  *)
(* a trace of every attempt, a windowed snapshot of it ranks the Cell's    *)
(* bindings (RuntimeAwarePlacementPolicy.select), and the run placed that  *)
(* way adds its own traces, which later runs are placed by.  Runs overlap: *)
(* a run may finish on a decision that the history no longer supports.     *)
(*                                                                         *)
(* Traces age instead of carrying a timestamp, and are dropped once they   *)
(* are older than the window, since no snapshot counts them any more.      *)
(*                                                                         *)
(* The names are chosen so that PlanBuilding, which the ladders are for,   *)
(* can be extended beside this module.                                     *)
(***************************************************************************)
EXTENDS Integers, Sequences, SequencesExt, FiniteSetsExt

CONSTANTS
  Runs,           \* runs that may be under way at once; each may run again
  Bindings,       \* compatible candidates of the Cell, numbered by
                  \* (implementation_id, service_id)
  MinTraces,      \* minimum_trace_count
  MaxFailed,      \* max_failure_rate is MaxFailed / OutOf (a rate of at most
                  \* six decimals, as the rates of a snapshot are rounded)
  OutOf,
  Settings        \* what the runs are placed under:
                  \* priority  of the bindings, [Bindings -> Nat]
                  \* slow      whether an attempt may be slow
                  \* window    oldest age a snapshot counts
                  \* runs      of Runs, the ones that happen
                  \* stored    bound of the model: traces in the store

ASSUME PolicyAssumption ==
  /\ IsFiniteSet(Bindings) /\ Bindings # {} /\ Bindings \subseteq Nat \ {0}
  /\ MinTraces \in Nat \ {0}
  /\ OutOf \in Nat \ {0} /\ MaxFailed \in 0..OutOf
  /\ \A w \in Settings :
       /\ w.priority \in [Bindings -> Nat]
       /\ w.slow \subseteq BOOLEAN /\ FALSE \in w.slow
       /\ w.window \in Nat
       /\ w.runs \subseteq Runs
       /\ w.stored \in Nat

VARIABLES
  setting,  \* never changes
  store,    \* how many traces of each sort there are
  ladders   \* per run: selected and fallback bindings; << >> between runs

historyVars == <<setting, store, ladders>>

(* "boundary": a routing, dispatch or admission failure, whose trace names *)
(* no implementation, service or runtime.  "canceled": placement_eligible  *)
(* is FALSE.                                                               *)
NoBinding == 0
Kinds == {"ok", "failed", "canceled"}
SortsUnder(w) ==
  [binding : Bindings, kind : Kinds, slow : w.slow, age : 0..w.window]
  \cup [binding : {NoBinding}, kind : {"failed"}, slow : {FALSE}, age : 0..w.window]
Sorts == DOMAIN store

Count(S) == SumFunctionOnSet(store, S)
Stored == Count(Sorts)

HistoryTypeOK ==
  /\ setting \in Settings
  /\ store \in [SortsUnder(setting) -> 0..setting.stored]
  /\ ladders \in [Runs -> Seq(Bindings)]
  /\ Stored <= setting.stored

HistoryInit ==
  /\ setting \in Settings
  /\ store = [s \in SortsUnder(setting) |-> 0]
  /\ ladders = [r \in Runs |-> << >>]

-----------------------------------------------------------------------------
(* build_runtime_summary_snapshot *)

(* Bug: placement_eligible ignored. *)
CountsAlways(s) == TRUE
Eligible(s) == s.kind # "canceled"

Of(b)       == {s \in Sorts : s.binding = b /\ Eligible(s)}
Traces(b)   == Count(Of(b))
Failures(b) == Count({s \in Of(b) : s.kind # "ok"})
Fast(b)     == Count({s \in Of(b) : ~s.slow})

\* round((n - 1) * 0.95), half to even, as the index of the sorted durations
P95Index(n) ==
  LET q == (19 * (n - 1)) \div 20
      r == (19 * (n - 1)) % 20
  IN  IF r < 10 \/ (r = 10 /\ q % 2 = 0) THEN q ELSE q + 1
\* 0 fast, 1 slow, 2 for a binding without history (infinite)
P95(traces, fast) ==
  IF traces = 0 THEN 2 ELSE IF P95Index(traces) < fast THEN 0 ELSE 1

(* RuntimeAwarePlacementPolicy._evaluate *)
HistoryStatus(traces, failures) ==
  IF traces = 0 THEN "no_history"
  ELSE IF traces < MinTraces THEN "insufficient_history"
  ELSE IF failures * OutOf > MaxFailed * traces THEN "unhealthy"
  ELSE "healthy"

Evaluation(b) ==
  LET traces == Traces(b)
      failures == Failures(b)
  IN  [binding |-> b, priority |-> setting.priority[b],
       traces |-> traces, failures |-> failures,
       status |-> HistoryStatus(traces, failures), p95 |-> P95(traces, Fast(b))]
Evaluations == {Evaluation(b) : b \in Bindings}

(* _selection_rank.  The failure rate comes first among unhealthy bindings,*)
(* compared by cross multiplication; these meet no others in a pool, and   *)
(* their history rank is the same.                                         *)
HistoryRank ==
  [healthy |-> 0, unhealthy |-> 0, insufficient_history |-> 1, no_history |-> 2]
SelectionRank(e) == <<e.priority, HistoryRank[e.status], e.p95, e.binding>>
Less(s, t) ==
  \E i \in 1..4 : s[i] < t[i] /\ \A j \in 1..(i - 1) : s[j] = t[j]
FailsLess(d, e) ==
  d.status = "unhealthy" /\ d.failures * e.traces < e.failures * d.traces
RanksBefore(d, e) ==
  FailsLess(d, e) \/ (~FailsLess(e, d) /\ Less(SelectionRank(d), SelectionRank(e)))

(* Bug: without a healthy candidate nothing is left. *)
OnlyHealthy(evaluations) == {e \in evaluations : e.status # "unhealthy"}

(* Unhealthy candidates are used only when there are no others. *)
SelectionPool(evaluations) ==
  LET others == {e \in evaluations : e.status # "unhealthy"}
  IN  IF others = {} THEN evaluations ELSE others

(* sorted(pool, key=_selection_rank) *)
Ranked(pool) ==
  CHOOSE s \in [1..Cardinality(pool) -> pool] :
    \A i, j \in DOMAIN s : i < j => RanksBefore(s[i], s[j])

(* The selected binding, then the fallbacks. *)
Ladder ==
  LET ranked == Ranked(SelectionPool(Evaluations))
  IN  [i \in DOMAIN ranked |-> ranked[i].binding]

-----------------------------------------------------------------------------
Select(r) ==
  /\ ladders[r] = << >>
  /\ ladders' = [ladders EXCEPT ![r] = Ladder]
  /\ UNCHANGED <<setting, store>>

(* The traces of a run: the attempts went down the ladder until one was    *)
(* accepted, canceled, or not allowed to fall back.                        *)
Trace(b, kind, slow) ==
  IF kind = "boundary"
  THEN [binding |-> NoBinding, kind |-> "failed", slow |-> FALSE, age |-> 0]
  ELSE [binding |-> b, kind |-> kind, slow |-> slow, age |-> 0]

Finish(r) ==
  /\ \E n \in 1..Len(ladders[r]), last \in Kinds \cup {"boundary"},
        fell \in {"failed", "boundary"}, slow \in setting.slow :
       LET saved(s) == Cardinality({i \in 1..n :
             s = Trace(ladders[r][i], IF i = n THEN last ELSE fell, slow)})
       IN store' = [s \in Sorts |-> store[s] + saved(s)]
  /\ Stored' <= setting.stored
  /\ ladders' = [ladders EXCEPT ![r] = << >>]
  /\ UNCHANGED setting

(* Bug: the window has an end and no beginning. *)
TickForever ==
  /\ store' = [s \in Sorts |->
                 (IF s.age = 0 THEN 0 ELSE store[[s EXCEPT !.age = @ - 1]])
                 + (IF s.age = setting.window THEN store[s] ELSE 0)]
  /\ UNCHANGED <<setting, ladders>>

(* Time passes: the window moves on. *)
Tick ==
  /\ store' = [s \in Sorts |->
                 IF s.age = 0 THEN 0 ELSE store[[s EXCEPT !.age = @ - 1]]]
  /\ UNCHANGED <<setting, ladders>>

HistoryNext == Tick \/ \E r \in setting.runs : Select(r) \/ Finish(r)

HistorySpec == HistoryInit /\ [][HistoryNext]_historyVars
\* Clocks run; nobody is obliged to analyse anything.
FairHistorySpec == HistorySpec /\ WF_historyVars(Tick)

-----------------------------------------------------------------------------
(* Properties *)

(* Every binding gets another chance: one that is left out of the ladders  *)
(* collects no traces from then on, except those of runs placed before, so *)
(* its failures leave the window and it is a candidate again.              *)
EveryBindingReturns == \A b \in Bindings : []<>(b \in Range(Ladder))

(* A user's cancellation and a failure that never reached a binding count  *)
(* neither for nor against any binding: a run that brings nothing else     *)
(* leaves every candidate where it was.                                    *)
Measured == {s \in Sorts : s.binding # NoBinding /\ s.kind # "canceled"}
NeutralOutcomes ==
  [][(\A s \in Measured : store'[s] = store[s]) => Ladder' = Ladder]_historyVars

(* Whatever the history, a run is given at least one binding, no binding   *)
(* twice (what execution/control.py relies on), and none is withheld       *)
(* unless it has failed within the window, often enough, while another     *)
(* binding that is offered did better.                                     *)
FailedMoreThan(b, a) ==
  /\ Failures(b) > 0
  /\ Traces(b) >= MinTraces
  /\ Traces(a) >= MinTraces =>
       Failures(b) * Traces(a) > Failures(a) * Traces(b)
LadderIsSound ==
  LET placed == Ladder IN
  /\ placed # << >>
  /\ Cardinality(Range(placed)) = Len(placed)
  /\ \A b \in Bindings \ Range(placed) : \A a \in Range(placed) :
       FailedMoreThan(b, a)

(* The history stays within what was saved, and whatever it has become, a  *)
(* run placed by it can be executed.                                       *)
PlacementInv == HistoryTypeOK /\ LadderIsSound

=============================================================================
