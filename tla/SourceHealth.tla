------------------------------ MODULE SourceHealth ------------------------------
(***************************************************************************)
(* From recorded issues to an order of sources: trend points and provider  *)
(* reliability (data/health.py), ProviderSelectionPolicy                   *)
(* (data/provider_selection.py) and RouterPlanBuilder                      *)
(* (data/router_plan.py).                                                  *)
(*                                                                         *)
(* A log says how many issues of each severity are on record for a         *)
(* provider, a series (symbol and horizon, numbered in sort order) and a   *)
(* window (numbered in sort order; the last is "unknown", where records    *)
(* with an unreadable time of observation go).  Scores are exact           *)
(* fractions: num over den.                                                *)
(***************************************************************************)
EXTENDS Subsequences, FiniteSetsExt

CONSTANTS
  Providers,    \* numbered in the order of their names
  Series,
  Windows,
  Profiles      \* [Providers -> [tier, history, realtime, needs_key]]

ASSUME ProvidersAssumption ==
  /\ Providers \subseteq Nat \ {0} /\ IsFiniteSet(Providers)
  /\ Series \subseteq Nat \ {0} /\ IsFiniteSet(Series)
  /\ Windows \subseteq Nat \ {0} /\ IsFiniteSet(Windows)
  /\ \A p \in Providers :
       /\ Profiles[p].tier \in {"professional", "exchange_direct", "development"}
       /\ Profiles[p].history \in BOOLEAN
       /\ Profiles[p].realtime \in BOOLEAN
       /\ Profiles[p].needs_key \in BOOLEAN

Severities == {"critical", "warning", "info"}
Files == Providers \X Series \X Windows
NoIssues == [s \in Severities |-> 0]

-----------------------------------------------------------------------------
(* health.py *)

RecordCount(counts) == counts["critical"] + counts["warning"] + counts["info"]

HealthScore(counts) ==
  Max({100 - 20 * counts["critical"] - 5 * counts["warning"] - counts["info"], 0})

(* A window without issues leaves no point. *)
Points(log, p) ==
  {x \in Windows \X Series : RecordCount(log[<<p, x[2], x[1]>>]) > 0}
PointScore(log, p, point) == HealthScore(log[<<p, point[2], point[1]>>])

(* The last point in order of window, then series. *)
LastPoint(points) ==
  CHOOSE x \in points : \A y \in points :
    y[1] < x[1] \/ (y[1] = x[1] /\ y[2] <= x[2])

HasReliability(log, p) == Points(log, p) # {}

(* Bug: a busy window is averaged over its records, not counted once. *)
ReliabilityPerRecord(log, p) ==
  LET points == Points(log, p)
      counts(x) == log[<<p, x[2], x[1]>>]
  IN  [total |-> SumFunction([x \in points |-> PointScore(log, p, x) * RecordCount(counts(x))]),
       points |-> SumFunction([x \in points |-> RecordCount(counts(x))]),
       latest |-> PointScore(log, p, LastPoint(points)),
       worst |-> Min({PointScore(log, p, x) : x \in points})]

(* ProviderReliabilitySummary: the average is total / points. *)
Reliability(log, p) ==
  LET points == Points(log, p) IN
  [total |-> SumFunction([x \in points |-> PointScore(log, p, x)]),
   points |-> Cardinality(points),
   latest |-> PointScore(log, p, LastPoint(points)),
   worst |-> Min({PointScore(log, p, x) : x \in points})]

-----------------------------------------------------------------------------
(* provider_selection.py *)

UnknownHealth == 80
TierBonus == [professional |-> 12, exchange_direct |-> 6, development |-> 0]

Atop(points, x) == [num |-> x.num + points * x.den, den |-> x.den]
AtLeast(x, n) == x.num >= n * x.den
Above(x, y) == x.num * y.den > y.num * x.den

(* 0.5 average + 0.35 latest + 0.15 worst; 80 for a provider without records. *)
EffectiveHealth(log, p) ==
  IF ~HasReliability(log, p) THEN [num |-> UnknownHealth, den |-> 1]
  ELSE LET r == Reliability(log, p) IN
       [num |-> 50 * r.total + r.points * (35 * r.latest + 15 * r.worst),
        den |-> 100 * r.points]

Capable(p, preference) ==
  /\ p \notin preference.disabled
  /\ preference.history => Profiles[p].history
  /\ preference.realtime => Profiles[p].realtime
  /\ Profiles[p].needs_key /\ preference.checks_keys => p \in preference.keys

(* Bug: the latest score only weighs, it does not exclude. *)
HealthyOverall(log, p, preference) ==
  AtLeast(EffectiveHealth(log, p), preference.minimum)

Healthy(log, p, preference) ==
  /\ AtLeast(EffectiveHealth(log, p), preference.minimum)
  /\ HasReliability(log, p) => Reliability(log, p).latest >= preference.minimum

Enabled(log, p, preference) == Capable(p, preference) /\ Healthy(log, p, preference)

SelectionScore(log, p, preference) ==
  Atop(TierBonus[Profiles[p].tier] + preference.priority[p]
         + (IF p \in preference.preferred THEN 5 ELSE 0),
       EffectiveHealth(log, p))

(* Bug: ascending, like every other sort of the module. *)
LowerScoreFirst(score, p, q) ==
  Above(score[q], score[p]) \/ (~Above(score[p], score[q]) /\ p < q)

BetterCandidate(score, p, q) ==
  Above(score[p], score[q]) \/ (~Above(score[q], score[p]) /\ p < q)

(* The primary, then the backups. *)
Selection(log, preference) ==
  LET enabled == {p \in Providers : Enabled(log, p, preference)}
      score == [p \in enabled |-> SelectionScore(log, p, preference)]
      rank == [p \in enabled |->
                 Cardinality({q \in enabled \ {p} : BetterCandidate(score, q, p)})]
  IN  [i \in 1..Cardinality(enabled) |-> CHOOSE p \in enabled : rank[p] = i - 1]
Disabled(log, preference) == Providers \ Range(Selection(log, preference))

-----------------------------------------------------------------------------
(* router_plan.py: the selected providers that have a source, in order *)

Routable(sources) == IsInjective(sources)   \* one source per provider

RouterPlan(log, preference, sources) ==
  LET selected == Selection(log, preference) IN
  [entries |-> Kept(selected, {i \in DOMAIN selected : selected[i] \in Range(sources)}),
   missing |-> Range(selected) \ Range(sources),
   disabled |-> Disabled(log, preference),
   ignored |-> Range(sources) \ Providers]
=============================================================================
