---------------------------- MODULE HorizonPolicy ----------------------------
(***************************************************************************)
(* HorizonDecisionPolicy.evaluate: the signals of one target, one per      *)
(* horizon from short to long, are grouped into the bands short, medium    *)
(* and long; each band reaches a conclusion from the members that are      *)
(* confident enough, and the bands are compared.  Conflict is detected     *)
(* before scores are averaged; risk is the maximum over all signals and    *)
(* bears on the posture alone.                                             *)
(*                                                                         *)
(* Units are those of ReportDecision: the scores the code rounds to        *)
(* thousandths of a point are rounded to tenths here, the risks exactly as *)
(* the code rounds them.                                                   *)
(***************************************************************************)
EXTENDS ReportDecision, HorizonRequests

CONSTANT
  Policy      \* the fields of the HorizonDecisionPolicy

BandOrder == << "short", "medium", "long" >>
Bands == {"short", "medium", "long"}
BandIndex(band) == CHOOSE i \in 1..3 : BandOrder[i] = band

OrderedThresholds(t) ==
  /\ {t.medium, t.high, t.extreme} \subseteq 0..100 * RiskPoint
  /\ t.medium < t.high /\ t.high < t.extreme

(* What the policy's constructor accepts; a decision checks its copy of    *)
(* the policy against the same conditions.                                 *)
PolicyAccepted(p) ==
  /\ {p.shortMax, p.longMin} \subseteq Int
  /\ 0 < p.shortMax /\ p.shortMax < p.longMin
  /\ p.authority \in [Bands -> Nat \ {0}]
  /\ {p.minScore, p.minStrength, p.minConfidence} \subseteq 0..Full
  /\ OrderedThresholds(p.volatility) /\ OrderedThresholds(p.manipulation)

ASSUME PolicyAssumption == PolicyAccepted(Policy)

BandOf(horizon) ==
  CASE Duration[horizon] < Policy.shortMax -> "short"
    [] Duration[horizon] >= Policy.longMin -> "long"
    [] OTHER -> "medium"

(* _validate_signals                                                       *)
SignalsOrdered(signals) ==
  /\ Len(signals) \in 2..8
  /\ \A i, j \in DOMAIN signals :
       i < j => Duration[signals[i].horizon] < Duration[signals[j].horizon]

Group(signals, band) ==
  Kept(signals, {i \in DOMAIN signals : BandOf(signals[i].horizon) = band})
Horizons(signals) == [i \in DOMAIN signals |-> signals[i].horizon]

Substantial(s) == s.strength >= Policy.minStrength
                  /\ s.confidence >= Policy.minConfidence
Qualified(s) == s.direction \in Directional /\ Abs(s.score) >= Policy.minScore
                /\ Substantial(s)
MaterialConflict(s) == s.direction = "conflict" /\ Substantial(s)

QualifiedIn(members) == {i \in DOMAIN members : Qualified(members[i])}

(* Within a band every horizon weighs twice the one before it; no batch has*)
(* more than eight.                                                        *)
Weight(i) == << 1, 2, 4, 8, 16, 32, 64, 128 >>[i]
Weighted(values) == SumFunction([i \in DOMAIN values |-> values[i] * Weight(i)])
TotalWeight(I) == SumFunction([i \in I |-> Weight(i)])

(* Unqualified members count only where nobody qualifies.                  *)
BandScore(members) ==
  LET I == IF QualifiedIn(members) = {} THEN DOMAIN members
           ELSE QualifiedIn(members)
  IN Round(Weighted([i \in I |-> members[i].score]), TotalWeight(I))

QualifiedDirections(members) == {members[i].direction : i \in QualifiedIn(members)}
SomeMaterialConflict(members) == \E i \in DOMAIN members : MaterialConflict(members[i])

BandDirectionByScore(members) ==
  IF QualifiedIn(members) = {} THEN "neutral"
  ELSE IF BandScore(members) > 0 THEN "bullish" ELSE "bearish"

BandDirection(members) ==
  LET directions == QualifiedDirections(members)
  IN IF Cardinality(directions) > 1 \/ MaterialConflict(Last(members)) THEN "conflict"
     ELSE IF directions # {} THEN CHOOSE d \in directions : TRUE
     ELSE IF SomeMaterialConflict(members) THEN "conflict" ELSE "neutral"

BandAlignment(members, direction) ==
  CASE direction = "conflict" -> "conflicted"
    [] direction = "neutral" -> "indeterminate"
    [] OTHER -> IF QualifiedIn(members) = DOMAIN members /\ Len(members) >= 2
                THEN "aligned" ELSE "partial"

(* 200 times the share of the weaker side, 0 unless both have support.     *)
Opposition(bull, bear) ==
  IF bull > 0 /\ bear > 0
  THEN Clamp(Round(200 * Tenths * Min({bull, bear}), bull + bear)) ELSE 0

BandConflictScore(members) ==
  LET support(d) ==
        Weighted([i \in {k \in QualifiedIn(members) : members[k].direction = d}
                    |-> Abs(members[i].score)])
      explicit == {Round(members[i].strength * members[i].confidence, Full) :
                     i \in {k \in DOMAIN members : MaterialConflict(members[k])}}
  IN Clamp(Largest(explicit \cup {Opposition(support("bullish"), support("bearish"))}))

(* The strength of a conclusion, of a band's and of the whole.             *)
ConclusionStrength(direction, score, conflictScore) ==
  CASE direction \in Directional -> StrengthOf(score)
    [] direction = "conflict" -> Clamp(Largest({Abs(score), conflictScore}))
    [] OTHER -> Clamp(Abs(score))

(* Confidence factors in parts of 5000.                                    *)
ConflictFactor(conflictScore) == 4000 + conflictScore
BandFactor(alignment, conflictScore) ==
  CASE alignment = "aligned" -> 5000
    [] alignment = "partial" -> 4000
    [] alignment = "conflicted" -> ConflictFactor(conflictScore)
    [] OTHER -> 3250
ConclusionFactor(alignment, conflictScore) ==
  IF alignment = "partial" THEN 4250 ELSE BandFactor(alignment, conflictScore)

RoundRisk(risk) == Round(risk, 10) * 10
Volatility(signals) == Largest({signals[i].volatility : i \in DOMAIN signals})
Manipulation(signals) == Largest({signals[i].manipulation : i \in DOMAIN signals})
RiskLevels(volatility, manipulation) ==
  [volatility |-> LevelFor(volatility, Policy.volatility),
   manipulation |-> LevelFor(manipulation, Policy.manipulation)]
Overall(breakdown) == WorstLevel({breakdown.volatility, breakdown.manipulation})

(* The levels come from the risks as they are, the risks are then rounded. *)
LevelsOf(signals) == RiskLevels(Volatility(signals), Manipulation(signals))

BandConclusion(band, members, direction, alignment, score, conflictScore) ==
  [band |-> band,
   horizons |-> Horizons(members),
   qualified |-> Horizons(Kept(members, QualifiedIn(members))),
   anchor |-> Last(members).horizon,
   direction |-> direction,
   alignment |-> alignment,
   score |-> score,
   conflictScore |-> conflictScore,
   strength |-> ConclusionStrength(direction, score, conflictScore),
   confidence |->
     Clamp(Round(Weighted([i \in DOMAIN members |-> members[i].confidence])
                   * BandFactor(alignment, conflictScore),
                 TotalWeight(DOMAIN members) * 5000)),
   volatility |-> RoundRisk(Volatility(members)),
   manipulation |-> RoundRisk(Manipulation(members)),
   level |-> Overall(LevelsOf(members))]

BandDecision(band, members) ==
  LET direction == BandDirection(members)
  IN BandConclusion(band, members, direction, BandAlignment(members, direction),
                    BandScore(members),
                    IF direction = "conflict" THEN BandConflictScore(members) ELSE 0)

Present(signals) == Kept(BandOrder, {k \in 1..3 : Group(signals, BandOrder[k]) # << >>})
BandDecisions(signals) ==
  [i \in DOMAIN Present(signals) |->
     BandDecision(Present(signals)[i], Group(signals, Present(signals)[i]))]

DirectionalBands(bands) ==
  {i \in DOMAIN bands : bands[i].direction \in Directional}
DistinctDirections(bands) == {bands[i].direction : i \in DirectionalBands(bands)}
SomeBandConflict(bands) == \E i \in DOMAIN bands : bands[i].direction = "conflict"

ConclusionDirection(bands) ==
  LET distinct == DistinctDirections(bands)
  IN IF Cardinality(distinct) > 1 \/ SomeBandConflict(bands) THEN "conflict"
     ELSE IF distinct # {} THEN CHOOSE d \in distinct : TRUE
     ELSE "neutral"

Alignment(bands, direction) ==
  CASE direction = "conflict" -> "conflicted"
    [] direction = "neutral" -> "indeterminate"
    [] OTHER -> IF Len(bands) >= 2 /\ DirectionalBands(bands) = DOMAIN bands
                THEN "aligned" ELSE "partial"

(* Of opposite directional bands, the lower ones that oppose the highest.  *)
ConflictType(bands) ==
  LET named(b) == {i \in DirectionalBands(bands) : bands[i].band = b}
      opposed(low, high) ==
        \E i \in named(low), k \in named(high) : bands[i].direction # bands[k].direction
      opposite == Cardinality(DistinctDirections(bands)) > 1
  IN CASE ~opposite -> IF SomeBandConflict(bands) THEN "intra_band" ELSE "none"
       [] opposite /\ SomeBandConflict(bands) -> "broad"
       [] opposite /\ ~SomeBandConflict(bands) ->
            (CASE opposed("medium", "long") ->
                    (IF opposed("short", "long") THEN "lower_vs_long"
                                                 ELSE "medium_vs_long")
               [] OTHER -> "short_vs_higher")

(* The highest band that has anything to say; a conflict there says no.    *)
StructuralDirection(bands) ==
  LET spoken == {i \in DOMAIN bands : bands[i].direction # "neutral"}
      top == bands[Max(spoken)].direction
  IN IF spoken = {} \/ top = "conflict" THEN "neutral" ELSE top

Authority(bands, i) == Policy.authority[bands[i].band]
TotalAuthority(bands) == SumFunction([i \in DOMAIN bands |-> Authority(bands, i)])

StructuralScore(bands) ==
  Round(SumFunction([i \in DOMAIN bands |-> bands[i].score * Authority(bands, i)]),
        TotalAuthority(bands))

CrossConflictScore(bands) ==
  LET support(d) ==
        SumFunction([i \in {k \in DOMAIN bands : bands[k].direction = d}
                       |-> Authority(bands, i) * Max({Abs(bands[i].score), Tenths})])
  IN Opposition(support("bullish"), support("bearish"))

(* signal_weights: the authority of a signal's band among the bands there  *)
(* are, times its weight within the band.  Six digits stand for the code's *)
(* eight.                                                                  *)
WholeWeight == 1000000
SignalWeights(signals) ==
  LET present == {b \in Bands : Group(signals, b) # << >>}
      total == SumFunction([b \in present |-> Policy.authority[b]])
      weightsIn(b) ==
        LET n == Len(Group(signals, b))
        IN [i \in 1..n |-> Round(WholeWeight * Policy.authority[b] * Weight(i),
                                 total * TotalWeight(1..n))]
  IN FlattenSeq([i \in 1..3 |-> weightsIn(BandOrder[i])])

(* Twentieths of the confidence that the number of bands leaves.           *)
Coverage(n) == << 13, 17, 20 >>[n]

ConclusionConfidence(bands, alignment, conflictScore) ==
  Clamp(Round(SumFunction([i \in DOMAIN bands |->
                             bands[i].confidence * Authority(bands, i)])
                * Coverage(Len(bands)) * ConclusionFactor(alignment, conflictScore),
              TotalAuthority(bands) * 20 * 5000))

PostureDirectionFirst(direction, alignment, level) ==
  CASE alignment = "conflicted" -> "wait_for_confirmation"
    [] direction \in Directional -> "cautious_follow"
    [] level = "extreme" -> "avoid_chasing"
    [] level = "high" -> "reduce_exposure"
    [] OTHER -> "observe"

Posture(direction, alignment, level) ==
  CASE level = "extreme" -> "avoid_chasing"
    [] level = "high" -> "reduce_exposure"
    [] level = "medium" -> "wait_for_confirmation"
    [] level = "low" /\ alignment = "conflicted" -> "wait_for_confirmation"
    [] level = "low" /\ direction \in Directional -> "cautious_follow"
    [] OTHER -> "observe"

ConflictScore(bands, direction) ==
  IF direction # "conflict" THEN 0
  ELSE Largest({CrossConflictScore(bands)}
                 \cup {bands[i].conflictScore : i \in DOMAIN bands})

Conclusion(signals, bands, direction, alignment, score, conflictScore) ==
  LET strength == ConclusionStrength(direction, score, conflictScore)
      breakdown == LevelsOf(signals)
      risk == Largest({Volatility(signals), Manipulation(signals)})
  IN [direction |-> direction,
      structural |-> StructuralDirection(bands),
      score |-> score,
      strength |-> strength,
      confidence |-> ConclusionConfidence(bands, alignment, conflictScore),
      volatility |-> RoundRisk(Volatility(signals)),
      manipulation |-> RoundRisk(Manipulation(signals)),
      urgency |-> RoundRisk(Largest({risk, (RiskPoint \div Tenths)
                                             * Largest({strength, conflictScore})})),
      level |-> Overall(breakdown),
      breakdown |-> breakdown,
      posture |-> Posture(direction, alignment, Overall(breakdown)),
      alignment |-> alignment,
      conflictType |-> ConflictType(bands),
      conflictScore |-> conflictScore,
      bands |-> bands]

ConclusionOf(signals, bands) ==
  LET direction == ConclusionDirection(bands)
  IN Conclusion(signals, bands, direction, Alignment(bands, direction),
                StructuralScore(bands), ConflictScore(bands, direction))

Evaluate(signals) == ConclusionOf(signals, BandDecisions(signals))
=============================================================================
