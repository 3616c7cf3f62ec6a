--------------------------- MODULE MCMultiHorizon ---------------------------
(* Batches of two to four horizons: whole batches with many views, and     *)
(* batches with every way to be refused, to fail or to drift.              *)
EXTENDS MultiHorizon

Minutes ==
  [m15 |-> 15, m60 |-> 60, h1 |-> 60, h4 |-> 240, d1 |-> 1440, w1 |-> 10080,
   blank |-> 0]

DefaultPolicy ==
  [shortMax |-> 240, longMin |-> 10080,
   authority |-> [short |-> 2, medium |-> 3, long |-> 5],
   minScore |-> 120, minStrength |-> 150, minConfidence |-> 450,
   volatility |-> VolatilityThresholds, manipulation |-> ManipulationThresholds]

Candle(at) == [stamp |-> at, at |-> at, sound |-> TRUE]
Now == 20000
Child(h) == [target |-> "btc", horizon |-> h, candles |-> << Candle(Now - 10), Candle(Now) >>]
Batch(order) ==
  [target |-> "btc", asOf |-> Now, children |-> [i \in DOMAIN order |-> Child(order[i])],
   reservedMetadata |-> FALSE, inputsFor |-> {order[1]}]

Engine(g, f) == [graph |-> g, formulas |-> f]
Result(cell, score, confidence, risk) ==
  [cell |-> cell, score |-> 10 * score, confidence |-> 10 * confidence,
   volatility |-> risk, manipulation |-> 0]
View(score, confidence) == << Result("trend", score, confidence, 0) >>
Risky(score, volatility, manipulation) ==
  << Result("trend", score, 60, volatility),
     [Result("manipulation", 3, 50, 0) EXCEPT !.manipulation = manipulation] >>

Smooth(order, views) ==
  [request |-> Batch(order), engines |-> {Engine("g", "f")}, factoryRaises |-> FALSE,
   outcomes |-> {"report"},
   views |-> views]

(* Confident and not, neutral, and both strengths of a weak conflict.      *)
ManyViews == {View(s, c) : s \in {-40, -10, -8, 2, 10, 15, 40}, c \in {30, 80}}
FewViews == {View(-40, 80), View(-15, 30), View(2, 60), View(10, 80), View(41, 80)}
RiskViews ==
  {Risky(s, v, m) : s \in {-30, 5, 30},
                    v \in {0, 549990, 550000, 760000}, m \in {0, 250000, 349990, 650000}}
HairlineViews == {Risky(30, 0, m) : m \in {0, 349994, 349996}}

Refused ==
  LET b == Batch(<< "h1", "h4" >>)
      with(c) == [b EXCEPT !.children[2] = c]
      candles(seq) == with([Child("h4") EXCEPT !.candles = seq])
  IN {[b EXCEPT !.reservedMetadata = TRUE], [b EXCEPT !.inputsFor = {"d1"}],
      [b EXCEPT !.target = BlankTarget], [b EXCEPT !.asOf = -1],
      [b EXCEPT !.children = << Child("h1") >>],
      with([Child("h4") EXCEPT !.target = "eth"]), with(Child("blank")),
      with(Child("h1")), with(Child("m60")), with(Child("m15")),
      candles(<< >>), candles(<< [Candle(Now) EXCEPT !.at = Unparsable] >>),
      candles(<< [Candle(Now) EXCEPT !.sound = FALSE] >>),
      candles(<< Candle(Now), Candle(Now - 10) >>),
      candles(<< Candle(Now - 10), [Candle(Now) EXCEPT !.stamp = Now - 10] >>),
      candles(<< Candle(Now + 1) >>), candles(<< Candle(Now - 241) >>)}

Faulty(order) ==
  [request |-> Batch(order),
   engines |-> {Engine("g", "f"), Engine("g", "f2"), Engine("g2", "f")},
   factoryRaises |-> TRUE,
   outcomes |-> {"raises", "report", "other_target", "other_horizon", "other_decision"},
   views |-> {View(40, 80), View(-40, 80)}]

Whole == {Smooth(<< "m15", "h1" >>, ManyViews), Smooth(<< "h1", "d1", "w1" >>, ManyViews),
          Smooth(<< "m15", "h4", "d1" >>, FewViews),
          Smooth(<< "m15", "h1", "h4", "w1" >>, FewViews),
          Smooth(<< "h4", "w1" >>, ManyViews), Smooth(<< "h4", "w1" >>, RiskViews)}

BatchScenarios ==
  Whole \cup {Faulty(<< "h1", "h4" >>), Faulty(<< "m15", "h4", "w1" >>)}
        \cup {[Smooth(<< "h1", "h4" >>, {View(40, 80)}) EXCEPT !.request = r] : r \in Refused}

HairlineScenarios == {Smooth(<< "h1", "h4" >>, HairlineViews),
                      Smooth(<< "h1", "h4", "w1" >>, HairlineViews)}
=============================================================================
