----------------------------- MODULE CandleQuality -----------------------------
(***************************************************************************)
(* The two judgements of a batch of candles: inspect_candles               *)
(* (data/quality.py), by which the router and the cache take a batch or    *)
(* not, and SourceQualityMonitor (data/monitoring.py), whose issues make   *)
(* the health of a provider.                                               *)
(*                                                                         *)
(* A timestamp is its text and the instant the text means: texts are       *)
(* compared as texts by the first judgement (rank in string order, 0 for   *)
(* the empty one), instants by the second (Unparsable when there is none). *)
(* Prices and volumes are integers; a volume may be not a number.          *)
(***************************************************************************)
EXTENDS Subsequences, FiniteSetsExt

CONSTANTS
  Interval,     \* interval_to_millis of the horizon, 0 for one it cannot read
  StaleAfter,   \* stale_after_ms
  Now           \* of the inspection; Unparsable when the caller gave none

Unparsable == -1

ASSUME InstantsAssumption ==
  /\ Interval \in Nat
  /\ StaleAfter \in Nat
  /\ Now \in Nat \cup {Unparsable}

(* The fields the order of candles is judged by have their types. *)
IsBatch(candles) ==
  /\ candles \in Seq(Range(candles))
  /\ \A c \in Range(candles) : c.text \in Nat /\ c.at \in Nat \cup {Unparsable}

-----------------------------------------------------------------------------
(* inspect_candles: one fault per candle and failed check *)

Invalid(c) ==
  {f \in {"timestamp empty", "volume invalid", "price non-positive",
          "volume negative", "high lower than low",
          "high lower than open/close", "low higher than open/close"} :
     CASE f = "timestamp empty"            -> c.text = 0
       [] f = "volume invalid"             -> c.nan
       [] f = "price non-positive"         -> \E x \in {c.open, c.high, c.low, c.close} : x <= 0
       [] f = "volume negative"            -> ~c.nan /\ c.volume < 0
       [] f = "high lower than low"        -> c.high < c.low
       [] f = "high lower than open/close" -> c.high < c.open \/ c.high < c.close
       [] f = "low higher than open/close" -> c.low > c.open \/ c.low > c.close}

Duplicates(candles) ==
  {i \in DOMAIN candles : \E j \in 1..(i - 1) : candles[j].text = candles[i].text}
OutOfOrder(candles) ==
  {i \in DOMAIN candles : i > 1 /\ candles[i].text < candles[i - 1].text}

FaultCount(candles) ==
  IF candles = << >> THEN 1
  ELSE SumFunction([i \in DOMAIN candles |-> Cardinality(Invalid(candles[i]))])
       + Cardinality(Duplicates(candles)) + Cardinality(OutOfOrder(candles))

Usable(candles) == FaultCount(candles) = 0

-----------------------------------------------------------------------------
(* SourceQualityMonitor.inspect_batch, its default thresholds *)

Times(severity, n) == [i \in 1..n |-> severity]

(* The last candle before i whose timestamp could be read. *)
Previous(candles, i) == Max({j \in 1..(i - 1) : candles[j].at # Unparsable})

TooFar(candles, i) ==
  2 * (candles[i].at - candles[Previous(candles, i)].at) > 3 * Interval
(* One issue at most for a candle, from the one at position first on. *)
GapIssuesFrom(candles, first) ==
  Kept([i \in DOMAIN candles |->
          IF candles[i].at = Unparsable THEN "critical" ELSE "warning"],
       {i \in first..Len(candles) : candles[i].at = Unparsable \/ TooFar(candles, i)})

(* Bug: the loop starts one candle late. *)
GapIssuesFromThird(candles) == GapIssuesFrom(candles, 3)

GapIssues(candles) ==
  CASE Interval = 0 \/ Len(candles) < 2 -> << >>
    [] Interval > 0 /\ Len(candles) >= 2 /\ candles[1].at = Unparsable -> <<"critical">>
    [] OTHER -> GapIssuesFrom(candles, 2)

StaleIssues(candles) ==
  LET latest == Last(candles).at IN
  CASE Now = Unparsable -> << >>
    [] Now # Unparsable /\ latest = Unparsable -> <<"critical">>
    [] OTHER -> IF Now - (latest + Max({Interval - 1, 0})) > StaleAfter
                THEN <<"warning">> ELSE << >>

(* latest >= 8 * mean of the earlier volumes; a volume that is no number   *)
(* makes both comparisons of the code fall through to the issue.           *)
VolumeIssues(candles) ==
  LET n == Len(candles)
      earlier == 1..(n - 1)
      total == SumFunction([i \in earlier |-> candles[i].volume])
      unknown == \E i \in earlier : candles[i].nan
  IN  IF /\ n >= 3
         /\ \/ unknown
            \/ /\ total > 0
               /\ candles[n].nan \/ candles[n].volume * (n - 1) >= 8 * total
      THEN <<"warning">> ELSE << >>

(* (high - low) / close in thousandths, 0 for a close that is not positive *)
RangeOf(c) == IF c.close <= 0 THEN 0 ELSE ((c.high - c.low) * 1000) \div c.close
RangeIssues(candles) ==
  LET n == Len(candles)
      moved == {i \in 1..(n - 1) : RangeOf(candles[i]) > 0}
  IN  IF /\ n >= 3
         /\ moved # {}
         /\ RangeOf(candles[n]) * Cardinality(moved)
              >= 5 * SumFunction([i \in moved |-> RangeOf(candles[i])])
      THEN <<"warning">> ELSE << >>

(* The severities of the issues of a batch, in the order they are found. *)
Issues(candles) ==
  Times("critical", FaultCount(candles))
  \o IF candles = << >> THEN << >>
     ELSE GapIssues(candles) \o StaleIssues(candles)
          \o VolumeIssues(candles) \o RangeIssues(candles)

(* compare_sources: nothing to compare, or closes of one timestamp more    *)
(* than one percent apart; the last candle of a repeated timestamp counts. *)
Deviates(value, reference) ==
  /\ reference > 0
  /\ 100 * (IF value > reference THEN value - reference ELSE reference - value) > reference
CloseAt(candles, text) ==
  candles[Max({i \in DOMAIN candles : candles[i].text = text})].close
ComparisonIssues(primary, reference) ==
  LET texts(b) == {b[i].text : i \in DOMAIN b}
      common == texts(primary) \cap texts(reference)
  IN  IF \/ common = {}
         \/ \E t \in common :
              Deviates(CloseAt(primary, t), CloseAt(reference, t))
      THEN <<"warning">> ELSE << >>
=============================================================================
