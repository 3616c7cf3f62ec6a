--------------------------- MODULE MCSourceSelection ---------------------------
(* Small instances of SourceSelection: one provider watched on two series, *)
(* two providers watched on one, two clients that fetch, and one provider  *)
(* watched and fetched from, with crashes.                                 *)
EXTENDS SourceSelection
CONSTANTS c1, c2

Candle(text, at, close, volume) ==
  [text |-> text, at |-> at, open |-> close, high |-> close + 1,
   low |-> close - 1, close |-> close, volume |-> volume, nan |-> FALSE]

\* Candles every ten; inspected at 60, when the last may close at 29 or later.
Steady     == <<Candle(1, 10, 100, 5), Candle(2, 20, 100, 5), Candle(3, 30, 100, 5)>>
Gappy      == <<Candle(1, 10, 100, 5), Candle(3, 30, 100, 5)>>
Spiky      == <<Candle(1, 10, 100, 5), Candle(2, 20, 100, 5),
                [Candle(3, 30, 104, 40) EXCEPT !.high = 112]>>
Unreadable == <<Candle(1, 20, 100, 5), Candle(2, Unparsable, 100, 5)>>
Inverted   == <<[Candle(1, 30, 100, 5) EXCEPT !.high = 98, !.low = 99]>>
Sampled    == {<< >>, Steady, Gappy, Spiky, Unreadable, Inverted}

ThreeProfiles ==
  <<[tier |-> "professional", history |-> TRUE, realtime |-> FALSE, needs_key |-> TRUE],
    [tier |-> "professional", history |-> TRUE, realtime |-> TRUE, needs_key |-> FALSE],
    [tier |-> "development", history |-> TRUE, realtime |-> FALSE, needs_key |-> FALSE]>>

NoWishes == [preferred |-> {}, disabled |-> {}, checks_keys |-> FALSE, keys |-> {},
             priority |-> [p \in 1..3 |-> 0], minimum |-> 70,
             history |-> TRUE, realtime |-> FALSE]
Wishes == {NoWishes,
           [NoWishes EXCEPT !.preferred = {3}, !.priority[3] = 10, !.checks_keys = TRUE],
           [NoWishes EXCEPT !.minimum = 90, !.checks_keys = TRUE, !.keys = {1}]}

Quiet == [watched |-> {}, batches |-> {}, references |-> {}, days |-> 1, undated |-> {},
          records |-> 0, preferences |-> {NoWishes}, sources |-> {},
          clients |-> {}, queries |-> {}, answers |-> {}, outages |-> FALSE, disk |-> FALSE,
          crashes |-> FALSE]

OneProvider ==
  [Quiet EXCEPT !.watched = {<<1, 1>>, <<1, 2>>}, !.batches = Sampled, !.references = {Spiky},
                !.days = 2, !.records = 5, !.preferences = Wishes]
TwoProviders ==
  [Quiet EXCEPT !.watched = {<<1, 1>>, <<2, 1>>}, !.batches = {<< >>, Gappy},
                !.days = 2, !.undated = {3}, !.records = 4, !.preferences = Wishes]
TwoClients ==
  [Quiet EXCEPT !.sources = {<<3, 1>>}, !.clients = {c1, c2}, !.queries = {1},
                !.answers = {Steady, Inverted}, !.outages = TRUE, !.disk = TRUE,
                !.crashes = TRUE]
Composed ==
  [Quiet EXCEPT !.watched = {<<1, 1>>}, !.batches = {<< >>, Gappy}, !.records = 2,
                !.crashes = TRUE, !.sources = {<<3, 4, 1>>, <<1, 1>>},
                !.clients = {c1}, !.queries = Series, !.answers = {Steady}]

Surroundings == {OneProvider, TwoProviders, TwoClients, Composed}
TwoSeries == {[OneProvider EXCEPT !.batches = {Gappy, Inverted}, !.records = 6]}
=============================================================================
