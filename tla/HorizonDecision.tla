--------------------------- MODULE HorizonDecision ---------------------------
(***************************************************************************)
(* HorizonDecisionCell.analyze: the signals of a complete analysis go      *)
(* through the policy, and the HorizonDecision that carries the result     *)
(* checks all of it again as it is constructed.  A check that fails raises *)
(* ValueError: the analysis then has no decision at all.                   *)
(***************************************************************************)
EXTENDS HorizonPolicy

(* HorizonSignal: a report's root decision, in bounds and with the sign    *)
(* its direction says.                                                     *)
SignalAccepted(s) ==
  /\ Duration[s.horizon] > 0
  /\ s.direction \in Directional \cup {"neutral", "conflict"}
  /\ s.score \in -Full..Full
  /\ s.strength \in 0..Full /\ s.confidence \in 0..Full
  /\ s.volatility \in 0..100 * RiskPoint /\ s.manipulation \in 0..100 * RiskPoint
  /\ s.direction = "bullish" => s.score > 0
  /\ s.direction = "bearish" => s.score < 0

Percentages(d) ==
  /\ d.score \in -Full..Full
  /\ {d.strength, d.confidence, d.conflictScore} \subseteq 0..Full
  /\ {d.volatility, d.manipulation} \subseteq 0..100 * RiskPoint

(* Direction, alignment and conflict score tell one story, in a band and   *)
(* in the whole.                                                           *)
StoryConsistent(d) ==
  /\ d.alignment = "conflicted" => d.direction = "conflict" /\ d.conflictScore > 0
  /\ d.alignment # "conflicted" => d.direction # "conflict" /\ d.conflictScore = 0
  /\ d.alignment = "indeterminate" => d.direction = "neutral"
  /\ d.alignment \in {"aligned", "partial"} => d.direction \in Directional

StrictlyLonger(horizons) ==
  \A i, j \in DOMAIN horizons : i < j => Duration[horizons[i]] < Duration[horizons[j]]

(* HorizonBandDecision                                                     *)
BandAccepted(b) ==
  /\ b.band \in Bands
  /\ b.horizons # << >> /\ StrictlyLonger(b.horizons)
  /\ b.anchor = Last(b.horizons)
  /\ b.qualified = Kept(b.horizons, {i \in DOMAIN b.horizons :
                                       b.horizons[i] \in Range(b.qualified)})
  /\ Percentages(b) /\ StoryConsistent(b)

Members(signals, horizons) ==
  [i \in DOMAIN horizons |-> CHOOSE s \in Range(signals) : s.horizon = horizons[i]]

(* The risks kept are the rounded maxima, and their levels are looked up   *)
(* again, this time from what was kept.                                    *)
KeepsRisks(d, signals) ==
  /\ d.volatility = RoundRisk(Volatility(signals))
  /\ d.manipulation = RoundRisk(Manipulation(signals))
  /\ d.level = Overall(RiskLevels(d.volatility, d.manipulation))

(* One piece of evidence per signal; weights that sum to one but for a     *)
(* hundred units of their last digit, and the signal's own confidence.     *)
Evidence(signals) ==
  [i \in DOMAIN signals |->
     [source |-> signals[i].horizon, weight |-> SignalWeights(signals)[i],
      reliability |-> signals[i].confidence]]
EvidenceAccepted(evidence, order, signals) ==
  /\ [i \in DOMAIN evidence |-> evidence[i].source] = order
  /\ \A i \in DOMAIN evidence :
       evidence[i].weight >= 0 /\ evidence[i].reliability = signals[i].confidence
  /\ Abs(SumFunction([i \in DOMAIN evidence |-> evidence[i].weight]) - WholeWeight) <= 100

(* HorizonDecision                                                         *)
DecisionAccepted(d, order, signals) ==
  /\ Len(order) \in 2..8 /\ IsInjective(order) /\ Horizons(signals) = order
  /\ d.structural \in Directional \cup {"neutral"}
  /\ Percentages(d) /\ StoryConsistent(d)
  /\ (d.alignment = "conflicted") = (d.conflictType # "none")
  /\ Len(d.bands) \in 1..3
  /\ \A i, j \in DOMAIN d.bands :
       i < j => BandIndex(d.bands[i].band) < BandIndex(d.bands[j].band)
  /\ order = FlattenSeq([i \in DOMAIN d.bands |-> d.bands[i].horizons])
  /\ d.breakdown = RiskLevels(d.volatility, d.manipulation)
  /\ KeepsRisks(d, signals)
  /\ \A i \in DOMAIN d.bands :
       KeepsRisks(d.bands[i], Members(signals, d.bands[i].horizons))

(* _signals of the reports of an analysis.                                 *)
SignalsOf(reports) ==
  [i \in DOMAIN reports |->
     [horizon |-> reports[i].horizon,
      direction |-> reports[i].decision.direction,
      score |-> reports[i].decision.score,
      strength |-> reports[i].decision.strength,
      confidence |-> reports[i].decision.confidence,
      volatility |-> reports[i].decision.volatility,
      manipulation |-> reports[i].decision.manipulation]]

NoDecision == << >>

(* HorizonDecisionCell.analyze: the decision, or NoDecision where the      *)
(* signals, the policy, a band or the decision itself refuses.             *)
Checked(order, signals, decision) ==
  IF /\ \A i \in DOMAIN signals : SignalAccepted(signals[i])
     /\ SignalsOrdered(signals)
     /\ \A i \in DOMAIN decision.bands : BandAccepted(decision.bands[i])
     /\ DecisionAccepted(decision, order, signals)
     /\ EvidenceAccepted(Evidence(signals), order, signals)
  THEN decision ELSE NoDecision
Analyze(order, reports) ==
  Checked(order, SignalsOf(reports), Evaluate(SignalsOf(reports)))
=============================================================================
