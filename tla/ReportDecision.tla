--------------------------- MODULE ReportDecision ---------------------------
(***************************************************************************)
(* The conclusion of one report: scoring.py and DecisionPolicy.evaluate,   *)
(* which DecisionCell applies to the results of the Cells of one horizon.  *)
(*                                                                         *)
(* Scores, strengths and confidences are tenths of a point where the code  *)
(* keeps three or four decimals; risks are ten-thousandths of a point, as  *)
(* the Cells round them, because a risk level may turn on the last one.    *)
(***************************************************************************)
EXTENDS Integers, Sequences, SequencesExt, FiniteSetsExt, Subsequences

Tenths == 10            \* of a score, in a point
Full == 100 * Tenths    \* the top of a score, strength or confidence
RiskPoint == 10000      \* risk units in a point

Abs(x) == IF x < 0 THEN -x ELSE x
Largest(S) == Max(S \cup {0})
Clamp(x) == IF x < 0 THEN 0 ELSE IF x > Full THEN Full ELSE x

RoundHalfUp(a, b) == (2 * a + b) \div (2 * b)

(* round() of the quotient a / b: the nearest, and at a tie the even one.  *)
Round(a, b) ==
  LET low == a \div b  rest == a % b
  IN IF 2 * rest > b \/ (2 * rest = b /\ low % 2 = 1) THEN low + 1 ELSE low

Directional == {"bullish", "bearish"}

DirectionFromScore(s) ==
  CASE s >= 12 * Tenths -> "bullish"
    [] s <= -12 * Tenths -> "bearish"
    [] Abs(s) < 4 * Tenths -> "neutral"
    [] OTHER -> "conflict"

(* The risk ladder, its levels in order.                                   *)
LevelOrder == << "low", "medium", "high", "extreme" >>
Rank(level) == CHOOSE i \in 1..4 : LevelOrder[i] = level
WorstLevel(levels) ==
  CHOOSE l \in levels : \A other \in levels : Rank(other) <= Rank(l)
LevelFor(value, thresholds) ==
  IF value >= thresholds.extreme THEN "extreme"
  ELSE IF value >= thresholds.high THEN "high"
  ELSE IF value >= thresholds.medium THEN "medium" ELSE "low"

VolatilityThresholds ==
  [medium |-> 35 * RiskPoint, high |-> 55 * RiskPoint, extreme |-> 75 * RiskPoint]
ManipulationThresholds ==
  [medium |-> 25 * RiskPoint, high |-> 35 * RiskPoint, extreme |-> 65 * RiskPoint]

StrengthOf(s) == Clamp(Round(17 * Abs(s), 10))

(* Cells that the default weights do not name weigh one.  A weight is in   *)
(* tenths.                                                                 *)
DecisionWeights ==
  [trend |-> 12, support_resistance |-> 10, breakout |-> 10, volume |-> 9,
   volatility |-> 8, market_regime |-> 10, news |-> 8, manipulation |-> 11,
   liquidity |-> 9, funding_open_interest |-> 9]
WeightOf(cell) ==
  IF cell \in DOMAIN DecisionWeights THEN DecisionWeights[cell] ELSE 10

WeightedAverage(results) ==
  LET weights == [i \in DOMAIN results |-> WeightOf(results[i].cell)]
      scores == [i \in DOMAIN results |-> results[i].score * weights[i]]
  IN IF SumFunction(weights) = 0 THEN 0
     ELSE Round(SumFunction(scores), SumFunction(weights))

(* The posture of one report: risk first, then the direction.              *)
ReportPosture(direction, level) ==
  CASE level = "extreme" -> "avoid_chasing"
    [] level = "high" -> "reduce_exposure"
    [] level = "medium" -> "wait_for_confirmation"
    [] level = "low" /\ direction \in Directional -> "cautious_follow"
    [] OTHER -> "observe"

(* What DecisionPolicy concludes from the results of a report's Cells, and *)
(* DecisionCell puts into a result for the horizon of its request.  Notes  *)
(* and explanation only word these fields.                                 *)
Assessment(horizon, results) ==
  LET aggregate == WeightedAverage(results)
      volatility == Largest({results[i].volatility : i \in DOMAIN results})
      manipulation == Largest({results[i].manipulation : i \in DOMAIN results})
      level == WorstLevel({LevelFor(volatility, VolatilityThresholds),
                           LevelFor(manipulation, ManipulationThresholds)})
  IN [horizon |-> horizon,
      direction |-> DirectionFromScore(aggregate),
      score |-> aggregate,
      strength |-> StrengthOf(aggregate),
      confidence |->
        IF results = << >> THEN 0
        ELSE Clamp(Round(SumFunction([i \in DOMAIN results |-> results[i].confidence]),
                         Len(results))),
      volatility |-> volatility,
      manipulation |-> manipulation,
      level |-> level,
      posture |-> ReportPosture(DirectionFromScore(aggregate), level)]
=============================================================================
