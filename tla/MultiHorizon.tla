---------------------------- MODULE MultiHorizon ----------------------------
(***************************************************************************)
(* MultiHorizonAnalyzer.run and the decision over its result.  A batch is  *)
(* validated, all its engines are created and compared before any of them  *)
(* runs, the horizons run one after the other and the first failure ends   *)
(* the batch with the reports completed so far.  Every child run saves its *)
(* own report, whatever becomes of the batch.                              *)
(*                                                                         *)
(* The engines are the caller's (engine_factory), and each reads its own   *)
(* registry again when it runs: what a factory returns and what an engine  *)
(* reports is bounded by the scenario only.                                *)
(***************************************************************************)
EXTENDS HorizonDecision

CONSTANTS
  Scenarios   \* [request, engines, factoryRaises, outcomes, views]: the batch
              \* request, the engines the factory may return, whether it may
              \* raise, how a child run may end, and its Cells' results

ASSUME ScenarioAssumption ==
  \A s \in Scenarios :
    /\ s.request.children \in Seq(Range(s.request.children))
    /\ \A i \in DOMAIN s.request.children :
         s.request.children[i].horizon \in DOMAIN Duration

VARIABLES
  scenario,
  pc,
  prepared,   \* the engines created so far, in order
  completed,  \* the reports accepted so far, in order
  saved,      \* horizons with a stored report
  failure,    \* the MultiHorizonExecutionError raised, or NoFailure
  analysis,   \* the MultiHorizonAnalysis returned, or NoAnalysis
  decision    \* the HorizonDecision, or NoDecision

vars == << scenario, pc, prepared, completed, saved, failure, analysis, decision >>

request == scenario.request
Order == OrderOf(request)

NoFailure == << >>
NoAnalysis == << >>
PreflightCodes ==
  {"engine_factory_failure", "graph_mismatch", "formula_version_mismatch"}
RunCodes == {"analysis_failure", "report_scope_mismatch", "report_formula_mismatch"}

Init == /\ scenario \in Scenarios
        /\ pc = "submitted"
        /\ prepared = << >> /\ completed = << >> /\ saved = {}
        /\ failure = NoFailure /\ analysis = NoAnalysis /\ decision = NoDecision

(* Extra inputs may only be given for horizons of the batch.               *)
InputsDeclared == request.inputsFor \subseteq Range(Order)

Submittable == /\ RequestAccepted(request)
               /\ ~request.reservedMetadata
               /\ InputsDeclared

Submit == /\ pc = "submitted"
          /\ pc' = IF Submittable THEN "preparing" ELSE "invalid"
          /\ UNCHANGED << scenario, prepared, completed, saved, failure,
                          analysis, decision >>

(* The error names the horizon it happened at and carries the reports      *)
(* completed before it.                                                    *)
Raise(code, horizon, reports) ==
  /\ failure' = [code |-> code, failed |-> horizon, reports |-> reports]
  /\ pc' = "failed"
  /\ UNCHANGED << scenario, prepared, completed, analysis, decision >>

NextEngine == Order[Len(prepared) + 1]

FactoryFails ==
  /\ pc = "preparing" /\ scenario.factoryRaises
  /\ Raise("engine_factory_failure", NextEngine, << >>)
  /\ UNCHANGED saved

Engines == scenario.engines
SameGraph(engine) == prepared # << >> => engine.graph = prepared[1].graph
SameFormulas(engine) == prepared # << >> => engine.formulas = prepared[1].formulas

GraphDiffers ==
  /\ pc = "preparing"
  /\ \E e \in Engines : ~SameGraph(e)
  /\ Raise("graph_mismatch", NextEngine, << >>)
  /\ UNCHANGED saved

FormulasDiffer ==
  /\ pc = "preparing"
  /\ \E e \in Engines : SameGraph(e) /\ ~SameFormulas(e)
  /\ Raise("formula_version_mismatch", NextEngine, << >>)
  /\ UNCHANGED saved

Prepare ==
  /\ pc = "preparing"
  /\ \E e \in Engines :
       /\ SameGraph(e) /\ SameFormulas(e)
       /\ prepared' = Append(prepared, e)
  /\ pc' = IF Len(prepared') = Len(Order) THEN "running" ELSE "preparing"
  /\ UNCHANGED << scenario, completed, saved, failure, analysis, decision >>

NextHorizon == Order[Len(completed) + 1]

(* A child run raises, before its report is stored or after: cancellation, *)
(* a Cell, an input, an event handler, the store.                          *)
ChildFails ==
  /\ pc = "running" /\ "raises" \in scenario.outcomes
  /\ saved' \in {saved, saved \cup {NextHorizon}}
  /\ Raise("analysis_failure", NextHorizon, completed)

(* A report with its root decision; the outcome says in which of its       *)
(* identities the engine may be wrong.                                     *)
Report(outcome, formulas, view) ==
  [target |-> IF outcome = "other_target" THEN "elsewhere" ELSE request.target,
   horizon |-> IF outcome = "other_horizon" THEN "elsewhere" ELSE NextHorizon,
   formulas |-> formulas,
   decision |-> Assessment(IF outcome \in {"other_horizon", "other_decision"}
                           THEN "elsewhere" ELSE NextHorizon, view)]

InScope(report, horizon) ==
  /\ report.target = request.target /\ report.horizon = horizon
  /\ report.decision.horizon = report.horizon

Expected == prepared[1].formulas

Reports == {Report(outcome, e.formulas, view) : outcome \in scenario.outcomes \ {"raises"},
                                                e \in Engines, view \in scenario.views}

ReportOutOfScope ==
  /\ pc = "running"
  /\ \E r \in Reports : ~InScope(r, NextHorizon)
  /\ saved' = saved \cup {NextHorizon}
  /\ Raise("report_scope_mismatch", NextHorizon, completed)

ReportDriftedAfterAppend ==
  /\ pc = "running"
  /\ \E r \in Reports :
       /\ InScope(r, NextHorizon) /\ r.formulas # Expected
       /\ Raise("report_formula_mismatch", NextHorizon, Append(completed, r))
  /\ saved' = saved \cup {NextHorizon}

(* The registry of the engine changed after the engines were compared.     *)
ReportDrifted ==
  /\ pc = "running"
  /\ \E r \in Reports : InScope(r, NextHorizon) /\ r.formulas # Expected
  /\ saved' = saved \cup {NextHorizon}
  /\ Raise("report_formula_mismatch", NextHorizon, completed)

ReportCompleted ==
  /\ pc = "running"
  /\ \E r \in Reports :
       /\ InScope(r, NextHorizon) /\ r.formulas = Expected
       /\ completed' = Append(completed, r)
  /\ saved' = saved \cup {NextHorizon}
  /\ pc' = IF Len(completed') = Len(Order) THEN "composing" ELSE "running"
  /\ UNCHANGED << scenario, prepared, failure, analysis, decision >>

(* What MultiHorizonAnalysis checks as it is constructed.                  *)
AnalysisAccepted(a) ==
  /\ a.target # BlankTarget /\ a.asOf >= 0
  /\ Len(a.order) \in MinimumHorizons..MaximumHorizons /\ IsInjective(a.order)
  /\ [i \in DOMAIN a.reports |-> a.reports[i].horizon] = a.order
  /\ \A i \in DOMAIN a.reports :
       /\ a.reports[i].target = a.target
       /\ a.reports[i].decision.horizon = a.reports[i].horizon
       /\ a.reports[i].formulas = a.formulas

Composed ==
  [target |-> request.target, asOf |-> request.asOf, order |-> Order,
   reports |-> completed, graph |-> prepared[1].graph, formulas |-> Expected]

Compose ==
  /\ pc = "composing"
  /\ IF AnalysisAccepted(Composed)
     THEN pc' = "analysed" /\ analysis' = Composed
     ELSE pc' = "refused" /\ UNCHANGED analysis
  /\ UNCHANGED << scenario, prepared, completed, saved, failure, decision >>

Decide ==
  /\ pc = "analysed"
  /\ decision' = Analyze(analysis.order, analysis.reports)
  /\ pc' = IF decision' = NoDecision THEN "undecided" ELSE "decided"
  /\ UNCHANGED << scenario, prepared, completed, saved, failure, analysis >>

Next == \/ Submit
        \/ FactoryFails \/ GraphDiffers \/ FormulasDiffer \/ Prepare
        \/ ChildFails \/ ReportOutOfScope \/ ReportDrifted \/ ReportCompleted
        \/ Compose \/ Decide

Spec == Init /\ [][Next]_vars
-----------------------------------------------------------------------------
Stages == {"submitted", "invalid", "preparing", "running", "failed", "composing",
           "analysed", "refused", "undecided", "decided"}

(* The stage says what there is: a failure with its code, an analysis, a   *)
(* decision; and nothing completes before all engines are prepared.        *)
TypeOK ==
  /\ scenario \in Scenarios /\ pc \in Stages
  /\ Len(prepared) <= Len(Order) /\ Len(completed) <= Len(Order)
  /\ saved \subseteq Range(Order)
  /\ (pc = "failed") = (failure # NoFailure)
  /\ (analysis # NoAnalysis) = (pc \in {"analysed", "undecided", "decided"})
  /\ (decision # NoDecision) = (pc = "decided")

(* data_contract.md 7.2: a preflight failure has run nothing, and a later  *)
(* failure carries exactly the reports finished before the horizon it      *)
(* names.  A stored report beyond those can only be that horizon's own.    *)
FailureBoundary ==
  failure # NoFailure =>
    LET finished == Horizons(failure.reports)
        n == Len(finished)
    IN /\ failure.code \in PreflightCodes => finished = << >> /\ saved = {}
       /\ failure.code \in RunCodes =>
            /\ finished = SubSeq(Order, 1, n) /\ failure.failed = Order[n + 1]
            /\ Range(finished) \subseteq saved
            /\ saved \subseteq Range(finished) \cup {failure.failed}

(* A batch whose horizons all finished is never lost to a check of its own *)
(* envelope, and what it returns was computed under one graph and one set  *)
(* of formulas, each report where its horizon stands.                      *)
CompleteMeansUniform ==
  /\ pc # "refused"
  /\ analysis # NoAnalysis =>
       /\ saved = Range(Order)
       /\ \A i \in DOMAIN Order :
            /\ prepared[i].graph = analysis.graph
            /\ analysis.reports[i].formulas = prepared[i].formulas
            /\ analysis.reports[i].decision.horizon = Order[i]

(* All or nothing: a batch ends with the reports of all its horizons, made *)
(* alike, or with an error that says exactly how far it got.               *)
BatchInv == TypeOK /\ FailureBoundary /\ CompleteMeansUniform

(* horizon_decision_design.md 1: the decision consumes a complete analysis *)
(* and yields a decision; its own checks never refuse what the policy says.*)
EveryAnalysisIsDecided == pc # "undecided"

Signals == SignalsOf(analysis.reports)
QualifiedSides == {Signals[i].direction : i \in QualifiedIn(Signals)}

(* horizon_decision_design.md 6: opposite confident horizons are a         *)
(* conflict wherever they stand and never average out; without any conflict*)
(* among confident members, noise of low confidence does not make one.     *)
ConflictIsNeverAveraged ==
  decision # NoDecision =>
    /\ Cardinality(QualifiedSides) > 1 => decision.direction = "conflict"
    /\ ~SomeMaterialConflict(Signals) /\ Cardinality(QualifiedSides) <= 1 =>
         decision.direction \in QualifiedSides \cup (IF QualifiedSides = {}
                                                     THEN {"neutral"} ELSE {})

Fellows(i) ==
  {j \in DOMAIN Signals : BandOf(Signals[j].horizon) = BandOf(Signals[i].horizon)}

(* horizon_decision_design.md 5 and 6, as far as the code keeps it: a      *)
(* material conflict makes the conclusion one when its horizon is the last *)
(* of its band, or when nobody in the band is confident of a side.         *)
ConflictSurfaces ==
  decision # NoDecision =>
    \A i \in DOMAIN Signals :
      /\ MaterialConflict(Signals[i])
      /\ \/ \A j \in Fellows(i) : j <= i
         \/ \A j \in Fellows(i) : ~Qualified(Signals[j])
      => decision.direction = "conflict"

(* horizon_decision_design.md 6: aligned is said only of several bands,    *)
(* each with a confident horizon of its own on the side of the decision;   *)
(* a band that could not be judged agrees with nobody.                     *)
AgreementIsJudged ==
  decision # NoDecision /\ decision.alignment = "aligned" =>
    /\ decision.direction \in Directional
    /\ \E i \in DOMAIN Signals : Fellows(i) # DOMAIN Signals
    /\ \A i \in DOMAIN Signals : \E j \in Fellows(i) :
         Qualified(Signals[j]) /\ Signals[j].direction = decision.direction

Mirror(direction) == CASE direction = "bullish" -> "bearish"
                       [] direction = "bearish" -> "bullish"
                       [] OTHER -> direction
Mirrored(x) == [x EXCEPT !.direction = Mirror(@), !.score = -@]
MirroredSignals == [i \in DOMAIN Signals |-> Mirrored(Signals[i])]

(* Nothing in the policy prefers a side: the mirrored signals have the     *)
(* mirrored decision, to the last digit of its rounding.                   *)
NoSidePreferred ==
  decision # NoDecision =>
    Evaluate(MirroredSignals) =
      [Mirrored(decision) EXCEPT !.structural = Mirror(@),
                                 !.bands = [i \in DOMAIN @ |-> Mirrored(@[i])]]

CalmSignals ==
  [i \in DOMAIN Signals |-> [Signals[i] EXCEPT !.volatility = 0, !.manipulation = 0]]

(* horizon_decision_design.md 7: risk covers the posture and alters        *)
(* nothing else; no posture is bolder than the risk of any one report.     *)
RiskOnlyCoversPosture ==
  decision # NoDecision =>
    LET calm == Evaluate(CalmSignals)
    IN /\ \A field \in {"direction", "structural", "score", "strength", "confidence",
                        "alignment", "conflictType", "conflictScore"} :
            calm[field] = decision[field]
       /\ decision.posture = "cautious_follow" =>
            decision.level = "low" /\ decision.direction \in Directional
       /\ \A i \in DOMAIN analysis.reports :
            LET report == analysis.reports[i].decision
            IN /\ Rank(report.level) <= Rank(decision.level)
               /\ report.posture \in {"reduce_exposure", "avoid_chasing"} =>
                    decision.posture \in {"reduce_exposure", "avoid_chasing"}

(* horizon_decision_design.md 5: the lower bands cannot overrule the       *)
(* highest band that has a view, nor speak for it when it is in conflict.  *)
StructureFromTheTop ==
  decision # NoDecision =>
    LET top == Last(decision.bands)
        alone == StructuralDirection(<< top >>)
    IN /\ top.direction # "neutral" => decision.structural = alone
       /\ decision.structural # "neutral" =>
            \E i \in DOMAIN decision.bands :
              /\ decision.bands[i].direction = decision.structural
              /\ \A k \in DOMAIN decision.bands :
                   k > i => decision.bands[k].direction = "neutral"

(* No direction of a decision is an average over a disagreement, neither   *)
(* the one over all bands nor the structural one, no confident side of     *)
(* another band outvotes a conflict, and agreement is never presumed.      *)
DirectionInv ==
  ConflictIsNeverAveraged /\ StructureFromTheTop /\ ConflictSurfaces /\ AgreementIsJudged

=============================================================================
