----------------------- MODULE SourceSelectionProofs -----------------------
(***************************************************************************)
(* Theorems about SourceSelection, for any number of clients and providers, *)
(* any batches, any plan and any answers of the sources.                   *)
(***************************************************************************)
EXTENDS SourceSelection, PlanValidationProofs

-----------------------------------------------------------------------------
(* Batches *)

LEMMA FaultsAreFinite ==
  ASSUME NEW c
  PROVE  /\ IsFiniteSet(Invalid(c)) /\ Cardinality(Invalid(c)) \in Nat
<1> DEFINE some == ({"timestamp empty"} \cup {"volume invalid"}) \cup {"price non-positive"}
           more == (some \cup {"volume negative"}) \cup {"high lower than low"}
           all == (more \cup {"high lower than open/close"}) \cup {"low higher than open/close"}
<1>1. IsFiniteSet(some)
  BY FS_Singleton, FS_AddElement
<1>2. IsFiniteSet(more)
  BY <1>1, FS_AddElement
<1>3. IsFiniteSet(all)
  BY <1>2, FS_AddElement
<1>4. Invalid(c) \in SUBSET all
  BY DEF Invalid
<1> HIDE DEF all
<1> QED
  BY <1>3, <1>4, FS_Subset, FS_CardinalityType

LEMMA BatchFacts ==
  ASSUME NEW b, IsBatch(b)
  PROVE  /\ b \in Seq(Range(b)) /\ Len(b) \in Nat /\ DOMAIN b = 1..Len(b)
         /\ IsFiniteSet(1..Len(b))
         /\ \A i \in 1..Len(b) : /\ b[i].text \in Nat /\ b[i].text \in Int
                                 /\ b[i].at \in Nat \cup {Unparsable} /\ b[i].at \in Int
<1>1. b \in Seq(Range(b))
  BY DEF IsBatch
<1>2. Len(b) \in Nat /\ DOMAIN b = 1..Len(b) /\ \A i \in 1..Len(b) : b[i] \in Range(b)
  BY <1>1, RangeFacts
<1>3. IsFiniteSet(1..Len(b))
  BY <1>2, FS_Interval
<1> QED
  BY <1>1, <1>2, <1>3 DEF IsBatch, Unparsable

(* A batch without a fault has its texts in strict order. *)
LEMMA FaultsCounted ==
  ASSUME NEW b, IsBatch(b)
  PROVE  /\ FaultCount(b) \in Nat
         /\ b # << >> /\ FaultCount(b) = 0 =>
              \A i \in 1..Len(b) : i > 1 => b[i - 1].text < b[i].text
<1>1. /\ Len(b) \in Nat /\ DOMAIN b = 1..Len(b) /\ IsFiniteSet(1..Len(b))
      /\ \A i \in 1..Len(b) : b[i].text \in Int
  BY BatchFacts
<1>2. PICK f : f = [i \in DOMAIN b |-> Cardinality(Invalid(b[i]))]
  OBVIOUS
<1>3. PICK total : total = SumFunction(f)
  OBVIOUS
<1>4. total \in Nat
  <2>1. DOMAIN f = 1..Len(b) /\ \A i \in 1..Len(b) : f[i] \in Nat
    BY <1>1, <1>2, FaultsAreFinite
  <2>2. SumFunctionOnSet(f, DOMAIN f) \in Nat
    BY <1>1, <2>1, SumsCover
  <2> QED
    BY <1>3, <2>2 DEF SumFunction
<1>5. /\ Duplicates(b) \in SUBSET (1..Len(b))
      /\ OutOfOrder(b) \in SUBSET (1..Len(b))
  BY <1>1 DEF Duplicates, OutOfOrder
<1>6. /\ IsFiniteSet(Duplicates(b)) /\ Cardinality(Duplicates(b)) \in Nat
      /\ Cardinality(Duplicates(b)) = 0 => Duplicates(b) = {}
      /\ IsFiniteSet(OutOfOrder(b)) /\ Cardinality(OutOfOrder(b)) \in Nat
      /\ Cardinality(OutOfOrder(b)) = 0 => OutOfOrder(b) = {}
  BY <1>1, <1>5, FS_Subset, FS_CardinalityType, FS_EmptySet
<1>7. FaultCount(b) = IF b = << >> THEN 1
                      ELSE total + Cardinality(Duplicates(b)) + Cardinality(OutOfOrder(b))
  BY <1>2, <1>3 DEF FaultCount
<1>8. FaultCount(b) \in Nat
  BY <1>4, <1>6, <1>7
<1>9. ASSUME b # << >>, FaultCount(b) = 0, NEW i \in 1..Len(b), i > 1
      PROVE  b[i - 1].text < b[i].text
  <2>1. Cardinality(Duplicates(b)) = 0 /\ Cardinality(OutOfOrder(b)) = 0
    BY <1>4, <1>6, <1>7, <1>9
  <2>2. i - 1 \in 1..(i - 1) /\ i - 1 \in 1..Len(b)
    BY <1>1, <1>9
  <2>3. i \notin Duplicates(b) /\ i \notin OutOfOrder(b)
    BY <1>6, <2>1
  <2>4. b[i - 1].text # b[i].text
    BY <1>1, <2>2, <2>3 DEF Duplicates
  <2>5. ~(b[i].text < b[i - 1].text)
    BY <1>1, <1>9, <2>3 DEF OutOfOrder
  <2> QED
    BY <1>1, <2>2, <2>4, <2>5
<1> QED
  BY <1>8, <1>9

LEMMA GapsKept ==
  ASSUME NEW b, IsBatch(b), NEW first \in Nat \ {0}
  PROVE  /\ GapIssuesFrom(b, first) \in Seq(Severities)
         /\ GapIssuesFrom(b, first) = << >> =>
              \A i \in first..Len(b) : b[i].at # Unparsable /\ ~TooFar(b, i)
<1>1. Len(b) \in Nat /\ DOMAIN b = 1..Len(b) /\ IsFiniteSet(1..Len(b))
  BY BatchFacts
<1>2. PICK named : named = [i \in DOMAIN b |->
                              IF b[i].at = Unparsable THEN "critical" ELSE "warning"]
  OBVIOUS
<1>3. PICK at : at = {i \in first..Len(b) : b[i].at = Unparsable \/ TooFar(b, i)}
  OBVIOUS
<1>4. GapIssuesFrom(b, first) = Kept(named, at)
  BY <1>2, <1>3 DEF GapIssuesFrom
<1>5. named \in Seq(Severities) /\ Len(named) = Len(b)
  BY <1>1, <1>2 DEF Severities
<1>6. at \in SUBSET (1..Len(named)) /\ IsFiniteSet(at) /\ at \subseteq Int
  BY <1>1, <1>3, <1>5, FS_Subset
<1>7. Kept(named, at) \in Seq(Severities) /\ Len(Kept(named, at)) = Len(Sorted(at))
  BY <1>5, <1>6, KeptFacts
<1>8. Len(Sorted(at)) = Cardinality(at)
  BY <1>6, SortedFacts
<1>9. Kept(named, at) = << >> => at = {}
  BY <1>6, <1>7, <1>8, FS_EmptySet, EmptySeq
<1> QED
  BY <1>3, <1>4, <1>7, <1>9

LEMMA IssuesAreSeverities ==
  ASSUME NEW b, IsBatch(b)
  PROVE  /\ Issues(b) \in Seq(Severities)
         /\ Issues(b) = << >> => FaultCount(b) = 0 /\ (b # << >> => GapIssues(b) = << >>)
<1>1. PICK n \in Nat : n = FaultCount(b)
  BY FaultsCounted
<1>2. PICK faults : faults = Times("critical", n)
  OBVIOUS
<1>3. faults \in Seq(Severities) /\ Len(faults) = n
  BY <1>1, <1>2 DEF Times, Severities
<1>4. /\ << >> \in Seq(Severities) /\ <<"critical">> \in Seq(Severities)
      /\ <<"warning">> \in Seq(Severities)
  BY DEF Severities
<1>5. GapIssues(b) \in Seq(Severities)
  <2>1. GapIssuesFrom(b, 2) \in Seq(Severities)
    BY GapsKept
  <2> QED
    BY <1>4, <2>1, Zenon DEF GapIssues
<1>6. StaleIssues(b) \in Seq(Severities)
  <2>1. StaleIssues(b) \in {<< >>, <<"critical">>, <<"warning">>}
    BY DEF StaleIssues
  <2> QED
    BY <1>4, <2>1
<1>7. VolumeIssues(b) \in Seq(Severities)
  BY <1>4, Zenon DEF VolumeIssues
<1>8. RangeIssues(b) \in Seq(Severities)
  BY <1>4, Zenon DEF RangeIssues
<1>9. PICK gaps \in Seq(Severities), stale \in Seq(Severities), volume \in Seq(Severities),
           range \in Seq(Severities) :
        /\ gaps = GapIssues(b) /\ stale = StaleIssues(b)
        /\ volume = VolumeIssues(b) /\ range = RangeIssues(b)
  BY <1>5, <1>6, <1>7, <1>8
<1>10. Issues(b) = faults \o (IF b = << >> THEN << >> ELSE gaps \o stale \o volume \o range)
  BY <1>1, <1>2, <1>9 DEF Issues
<1>11. CASE b = << >>
  <2>1. Issues(b) = faults
    BY <1>3, <1>10, <1>11, ConcatEmptySeq
  <2> QED
    BY <1>1, <1>3, <1>11, <2>1
<1>12. CASE b # << >>
  <2>1. PICK others : others = gaps \o stale \o volume \o range
    OBVIOUS
  <2>2. others \in Seq(Severities) /\ Len(others) >= Len(gaps)
    <3>1. /\ gaps \o stale \in Seq(Severities)
          /\ Len(gaps \o stale) = Len(gaps) + Len(stale)
      BY ConcatProperties
    <3>2. /\ gaps \o stale \o volume \in Seq(Severities)
          /\ Len(gaps \o stale \o volume) = Len(gaps \o stale) + Len(volume)
      BY <3>1, ConcatProperties
    <3>3. /\ others \in Seq(Severities)
          /\ Len(others) = Len(gaps \o stale \o volume) + Len(range)
      BY <2>1, <3>2, ConcatProperties
    <3>4. /\ Len(gaps) \in Nat /\ Len(stale) \in Nat /\ Len(volume) \in Nat
          /\ Len(range) \in Nat
      BY LenProperties
    <3> QED
      BY <3>1, <3>2, <3>3, <3>4
  <2>c. Issues(b) = faults \o others
    BY <1>10, <1>12, <2>1
  <2>3. Issues(b) \in Seq(Severities) /\ Len(Issues(b)) = Len(faults) + Len(others)
    <3>1. /\ faults \o others \in Seq(Severities)
          /\ Len(faults \o others) = Len(faults) + Len(others)
      BY <1>3, <2>2, ConcatProperties
    <3> QED
      BY <2>c, <3>1, Zenon
  <2>4. Len(gaps) \in Nat /\ Len(others) \in Nat
    BY <2>2, LenProperties
  <2>5. ASSUME Issues(b) = << >> PROVE n = 0 /\ gaps = << >>
    <3>1. Len(Issues(b)) = 0
      BY <2>5
    <3>2. n + Len(others) = 0
      BY <1>3, <2>3, <3>1
    <3>3. n = 0 /\ Len(others) = 0
      BY <1>1, <2>4, <3>2
    <3>4. Len(gaps) = 0
      BY <2>2, <2>4, <3>3
    <3> QED
      BY <3>3, <3>4, EmptySeq
  <2> QED
    BY <1>1, <1>9, <2>3, <2>5
<1> QED
  BY <1>11, <1>12

LEMMA ComparisonsAreSeverities ==
  ASSUME NEW b, NEW reference
  PROVE  ComparisonIssues(b, reference) \in Seq(Severities)
<1>1. << >> \in Seq(Severities) /\ <<"warning">> \in Seq(Severities)
  BY DEF Severities
<1> QED
  BY <1>1, Zenon DEF ComparisonIssues

(* Nothing found between one candle and the next.                          *)
LEMMA CleanSteps ==
  ASSUME NEW b, IsBatch(b), GapIssues(b) = << >>, Interval > 0, Len(b) > 1,
         NEW i \in 1..(Len(b) - 1)
  PROVE  /\ b[i].at # Unparsable /\ b[i + 1].at # Unparsable
         /\ ~(2 * (b[i + 1].at - b[i].at) > 3 * Interval)
<1>1. /\ Len(b) \in Nat /\ 1 \in 1..Len(b) /\ i \in 1..Len(b) /\ i + 1 \in 2..Len(b)
      /\ i = 1 \/ i \in 2..Len(b)
      /\ i \in Int
  BY BatchFacts
<1>2. b[1].at # Unparsable /\ GapIssuesFrom(b, 2) = << >>
  <2>1. Interval # 0 /\ ~(Len(b) < 2) /\ Len(b) >= 2
    BY <1>1, InstantsAssumption
  <2>2. b[1].at # Unparsable
    BY <2>1 DEF GapIssues
  <2> QED
    BY <2>1, <2>2 DEF GapIssues
<1>3. \A j \in 2..Len(b) : b[j].at # Unparsable /\ ~TooFar(b, j)
  BY <1>2, GapsKept
<1>4. b[i].at # Unparsable /\ b[i + 1].at # Unparsable /\ ~TooFar(b, i + 1)
  BY <1>1, <1>2, <1>3
<1>5. Previous(b, i + 1) = i
  <2> DEFINE S == {j \in 1..((i + 1) - 1) : b[j].at # Unparsable}
  <2>1. i \in S /\ \A j \in S : j \in Int /\ i >= j
    BY <1>1, <1>4
  <2> HIDE DEF S
  <2>2. \A x \in S : (\A y \in S : x >= y) => x = i
    BY <1>1, <2>1
  <2>3. Max(S) = i
    BY <2>1, <2>2 DEF Max
  <2> QED
    BY <2>3 DEF S, Previous
<1> QED
  BY <1>4, <1>5 DEF TooFar

-----------------------------------------------------------------------------
(* Health *)

Counts == [Severities -> Nat]
Logs == [Files -> Counts]

LEMMA HealthScores ==
  ASSUME NEW counts \in Counts, NEW more \in Counts,
         \A s \in Severities : counts[s] <= more[s]
  PROVE  /\ HealthScore(counts) \in Nat /\ HealthScore(more) \in Nat
         /\ HealthScore(more) <= HealthScore(counts)
<1> DEFINE raw(c) == 100 - 20 * c["critical"] - 5 * c["warning"] - c["info"]
<1>1. ASSUME NEW c \in Counts
      PROVE  /\ raw(c) \in Int
             /\ HealthScore(c) = IF raw(c) > 0 THEN raw(c) ELSE 0
  <2>1. c["critical"] \in Nat /\ c["warning"] \in Nat /\ c["info"] \in Nat
    BY DEF Counts, Severities
  <2>2. PICK r \in Int : r = raw(c)
    BY <2>1
  <2>3. HealthScore(c) = Max({r, 0})
    BY <2>2 DEF HealthScore
  <2>4. \A x \in {r, 0} : (\A y \in {r, 0} : x >= y) => x = IF r > 0 THEN r ELSE 0
    OBVIOUS
  <2>5. \E x \in {r, 0} : \A y \in {r, 0} : x >= y
    OBVIOUS
  <2>6. Max({r, 0}) = IF r > 0 THEN r ELSE 0
    BY <2>4, <2>5, Zenon DEF Max
  <2> QED
    BY <2>2, <2>3, <2>6
<1>2. raw(more) <= raw(counts)
  <2>1. /\ counts["critical"] \in Nat /\ counts["warning"] \in Nat /\ counts["info"] \in Nat
        /\ more["critical"] \in Nat /\ more["warning"] \in Nat /\ more["info"] \in Nat
        /\ counts["critical"] <= more["critical"]
        /\ counts["warning"] <= more["warning"]
        /\ counts["info"] <= more["info"]
    BY DEF Counts, Severities
  <2> QED
    BY <2>1
<1>3. raw(more) \in Int /\ raw(counts) \in Int
  BY <1>1
<1>4. /\ HealthScore(counts) = IF raw(counts) > 0 THEN raw(counts) ELSE 0
      /\ HealthScore(more) = IF raw(more) > 0 THEN raw(more) ELSE 0
  BY <1>1
<1> HIDE DEF raw
<1> QED
  BY <1>2, <1>3, <1>4

LEMMA PointsFacts ==
  ASSUME NEW lg \in Logs, NEW p \in Providers
  PROVE  /\ IsFiniteSet(Points(lg, p)) /\ Points(lg, p) \in SUBSET (Windows \X Series)
         /\ \A x \in Points(lg, p) :
              /\ lg[<<p, x[2], x[1]>>] \in Counts
              /\ PointScore(lg, p, x) \in Nat /\ PointScore(lg, p, x) \in Int
<1>1. IsFiniteSet(Windows \X Series)
  BY ProvidersAssumption, FS_Product
<1>2. Points(lg, p) \in SUBSET (Windows \X Series)
  BY DEF Points
<1>3. ASSUME NEW x \in Points(lg, p)
      PROVE  /\ lg[<<p, x[2], x[1]>>] \in Counts
             /\ PointScore(lg, p, x) \in Nat /\ PointScore(lg, p, x) \in Int
  <2>1. <<p, x[2], x[1]>> \in Files
    BY <1>2 DEF Files
  <2>2. PICK c \in Counts : c = lg[<<p, x[2], x[1]>>]
    BY <2>1 DEF Logs
  <2>3. \A s \in Severities : c[s] <= c[s]
    BY DEF Counts
  <2>4. HealthScore(c) \in Nat
    BY <2>3, HealthScores
  <2> QED
    BY <2>2, <2>4 DEF PointScore
<1> QED
  BY <1>1, <1>2, <1>3, FS_Subset

(* The last point is one of the newest window. *)
LEMMA LastPointFacts ==
  ASSUME NEW lg \in Logs, NEW p \in Providers, NEW points, points = Points(lg, p),
         points # {}
  PROVE  /\ LastPoint(points) \in points
         /\ LastPoint(points)[1] = Max({y[1] : y \in points})
<1>1. IsFiniteSet(points) /\ points \in SUBSET (Windows \X Series)
  BY PointsFacts
<1> DEFINE W == {y[1] : y \in points}
<1>2. W \subseteq Windows /\ W # {}
  BY <1>1
<1>3. IsFiniteSet(W) /\ W \subseteq Int
  <2>1. W \in SUBSET Windows /\ IsFiniteSet(Windows) /\ Windows \subseteq Int
    BY <1>2, ProvidersAssumption
  <2> HIDE DEF W
  <2> QED
    BY <2>1, FS_Subset
<1>4. Max(W) \in W /\ \A y \in W : y <= Max(W)
  <2> HIDE DEF W
  <2> QED
    BY <1>2, <1>3, Greatest
<1>5. PICK w : w = Max(W)
  OBVIOUS
<1> DEFINE T == {s \in Series : <<w, s>> \in points}
<1>6. T # {} /\ T \subseteq Int /\ IsFiniteSet(T)
  <2>1. PICK y \in points : y[1] = w
    BY <1>4, <1>5
  <2>2. y[2] \in Series /\ y = <<y[1], y[2]>>
    BY <1>1
  <2>3. y[2] \in T
    BY <2>1, <2>2
  <2>4. T \in SUBSET Series /\ IsFiniteSet(Series) /\ Series \subseteq Int
    BY ProvidersAssumption
  <2> HIDE DEF T
  <2> QED
    BY <2>3, <2>4, FS_Subset
<1>7. Max(T) \in T /\ \A s \in T : s <= Max(T)
  <2> HIDE DEF T
  <2> QED
    BY <1>6, Greatest
<1>8. PICK m : m = <<w, Max(T)>>
  OBVIOUS
<1> DEFINE Comes(y, x) == y[1] < x[1] \/ (y[1] = x[1] /\ y[2] <= x[2])
<1>9. m \in points /\ \A y \in points : Comes(y, m)
  <2>1. m \in points /\ m[1] = w /\ m[2] = Max(T)
    BY <1>7, <1>8
  <2>2. ASSUME NEW y \in points PROVE Comes(y, m)
    <3>1. y[1] \in W /\ y[1] \in Int /\ w \in Int /\ y[1] <= w
      BY <1>3, <1>4, <1>5
    <3>2. CASE y[1] = w
      <4>1. y[2] \in T
        BY <1>1, <3>2
      <4> QED
        BY <1>7, <2>1, <3>2, <4>1
    <3>3. CASE y[1] # w
      BY <2>1, <3>1, <3>3
    <3> QED
      BY <3>2, <3>3
  <2> QED
    BY <2>1, <2>2
<1>10. PICK l : l = LastPoint(points)
  OBVIOUS
<1>11. l \in points /\ \A y \in points : Comes(y, l)
  BY <1>9, <1>10, Zenon DEF LastPoint
<1>12. l[1] = w
  <2>1. l[1] \in W /\ l[1] \in Int /\ w \in Int /\ l[1] <= w
    BY <1>3, <1>4, <1>5, <1>11
  <2>2. m[1] = w /\ Comes(m, l)
    BY <1>8, <1>9, <1>11
  <2> QED
    BY <2>1, <2>2
<1> QED
  BY <1>5, <1>10, <1>11, <1>12
LEMMA TimesGrows ==
  ASSUME NEW k \in Int, k >= 0, NEW a \in Int, NEW b \in Int, a <= b
  PROVE  k * a \in Int /\ k * b \in Int /\ k * a <= k * b
  OBVIOUS

(* The numbers a health is made of. *)
LEMMA ReliabilityFacts ==
  ASSUME NEW lg \in Logs, NEW p \in Providers, Points(lg, p) # {},
         NEW r, r = Reliability(lg, p)
  PROVE  /\ r.total \in Int /\ r.points \in Nat /\ r.points > 0
         /\ r.latest \in Int /\ r.worst \in Int
         /\ \A x \in Points(lg, p) : r.worst <= PointScore(lg, p, x)
         /\ \E x \in Points(lg, p) : r.worst = PointScore(lg, p, x)
<1> DEFINE S == Points(lg, p)
           score(x) == PointScore(lg, p, x)
<1>1. IsFiniteSet(S) /\ \A x \in S : score(x) \in Nat /\ score(x) \in Int
  BY PointsFacts
<1>2. PICK f : f = [x \in S |-> score(x)]
  OBVIOUS
<1>3. SumFunctionOnSet(f, S) \in Nat
  BY <1>1, <1>2, SumsCover
<1>4. PICK total : total = SumFunction(f)
  OBVIOUS
<1>5. total \in Int
  BY <1>2, <1>3, <1>4 DEF SumFunction
<1>6. PICK points : points = Cardinality(S)
  OBVIOUS
<1>7. points \in Nat /\ points > 0
  BY <1>1, <1>6, FS_CardinalityType, FS_EmptySet
<1>8. LastPoint(S) \in S
  BY LastPointFacts
<1> DEFINE T == {score(x) : x \in S}
<1>9. T \subseteq Nat /\ T # {}
  BY <1>1
<1>10. Min(T) \in T /\ \A y \in T : Min(T) <= y
  <2> HIDE DEF T
  <2> QED
    BY <1>9, Least
<1>11. /\ r.total = total /\ r.points = points
       /\ r.latest = score(LastPoint(S)) /\ r.worst = Min(T)
  BY <1>2, <1>4, <1>6 DEF Reliability
<1>12. /\ \A x \in S : Min(T) <= score(x)
       /\ \E x \in S : Min(T) = score(x)
  BY <1>10
<1> HIDE DEF T, score, S
<1>13. Min(T) \in Int /\ score(LastPoint(S)) \in Int
  BY <1>1, <1>8, <1>12
<1>14. /\ \A x \in S : r.worst <= score(x)
       /\ \E x \in S : r.worst = score(x)
  BY <1>11, <1>12
<1>15. /\ r.total \in Int /\ r.points \in Nat /\ r.points > 0
       /\ r.latest \in Int /\ r.worst \in Int
  BY <1>5, <1>7, <1>11, <1>13
<1> QED
  BY <1>14, <1>15 DEF S, score

(* A health, and its parts, of p in lg at least those of q in lh. *)
AsHealthy(lg, p, lh, q) ==
  LET x == EffectiveHealth(lg, p)
      y == EffectiveHealth(lh, q)
  IN  /\ x.num \in Int /\ y.num \in Int /\ x.den \in Int /\ x.den > 0
      /\ x.den = y.den /\ y.num <= x.num
      /\ HasReliability(lg, p) = HasReliability(lh, q)
      /\ HasReliability(lg, p) =>
           /\ Reliability(lg, p).latest \in Int /\ Reliability(lh, q).latest \in Int
           /\ Reliability(lh, q).latest <= Reliability(lg, p).latest

LEMMA HealthGrows ==
  ASSUME NEW lg \in Logs, NEW lh \in Logs, NEW p \in Providers, NEW q \in Providers,
         Points(lg, p) = Points(lh, q),
         \A x \in Points(lg, p) : PointScore(lh, q, x) <= PointScore(lg, p, x)
  PROVE  AsHealthy(lg, p, lh, q)
<1> DEFINE S == Points(lg, p)
<1>1. HasReliability(lg, p) = HasReliability(lh, q)
  BY DEF HasReliability
<1>2. CASE S = {}
  <2>1. ~HasReliability(lg, p) /\ ~HasReliability(lh, q)
    BY <1>2 DEF HasReliability
  <2>2. /\ EffectiveHealth(lg, p) = [num |-> 80, den |-> 1]
        /\ EffectiveHealth(lh, q) = [num |-> 80, den |-> 1]
    BY <2>1 DEF EffectiveHealth, UnknownHealth
  <2>3. PICK h : h = EffectiveHealth(lg, p) /\ h = EffectiveHealth(lh, q)
    BY <2>2
  <2>4. h.num \in Int /\ h.den \in Int /\ h.den > 0 /\ h.num <= h.num
    BY <2>2, <2>3
  <2> QED
    BY <1>1, <2>1, <2>3, <2>4 DEF AsHealthy
<1>3. CASE S # {}
  <2>1. PICK r : r = Reliability(lg, p)
    OBVIOUS
  <2>2. PICK t : t = Reliability(lh, q)
    OBVIOUS
  <2>3. /\ r.total \in Int /\ r.points \in Nat /\ r.points > 0
        /\ r.latest \in Int /\ r.worst \in Int
        /\ \E x \in S : r.worst = PointScore(lg, p, x)
    BY <1>3, <2>1, ReliabilityFacts
  <2>4. /\ t.total \in Int /\ t.points \in Nat /\ t.points > 0
        /\ t.latest \in Int /\ t.worst \in Int
        /\ \A x \in S : t.worst <= PointScore(lh, q, x)
    BY <1>3, <2>2, ReliabilityFacts
  <2>5. /\ IsFiniteSet(S)
        /\ \A x \in S : /\ PointScore(lg, p, x) \in Int /\ PointScore(lh, q, x) \in Int
                        /\ PointScore(lh, q, x) <= PointScore(lg, p, x)
    BY PointsFacts
  <2>6. t.total <= r.total
    <3>1. PICK f : f = [x \in S |-> PointScore(lg, p, x)]
      OBVIOUS
    <3>2. PICK g : g = [x \in S |-> PointScore(lh, q, x)]
      OBVIOUS
    <3>3. \A x \in S : g[x] \in Int /\ f[x] \in Int /\ g[x] <= f[x]
      BY <2>5, <3>1, <3>2
    <3>4. SumFunctionOnSet(g, S) <= SumFunctionOnSet(f, S)
      BY <2>5, <3>3, SumsGrow
    <3>5. r.total = SumFunction(f) /\ t.total = SumFunction(g)
      BY <2>1, <2>2, <3>1, <3>2 DEF Reliability
    <3>6. DOMAIN f = S /\ DOMAIN g = S
      BY <3>1, <3>2
    <3> QED
      BY <3>4, <3>5, <3>6 DEF SumFunction
  <2>7. t.points = r.points
    BY <2>1, <2>2 DEF Reliability
  <2>8. t.latest <= r.latest
    <3>1. LastPoint(S) \in S
      BY <1>3, LastPointFacts
    <3>2. /\ r.latest = PointScore(lg, p, LastPoint(S))
          /\ t.latest = PointScore(lh, q, LastPoint(S))
      BY <2>1, <2>2 DEF Reliability
    <3> QED
      BY <2>5, <3>1, <3>2
  <2>9. t.worst <= r.worst
    <3>1. PICK x \in S : r.worst = PointScore(lg, p, x)
      BY <2>3
    <3> QED
      BY <2>4, <2>5, <3>1
  <2> DEFINE part(u) == 35 * u.latest + 15 * u.worst
  <2>10. part(r) \in Int /\ part(t) \in Int /\ part(t) <= part(r)
    BY <2>3, <2>4, <2>8, <2>9
  <2>11. PICK n \in Int : n = r.points /\ n > 0
    BY <2>3
  <2>12. n * part(t) \in Int /\ n * part(r) \in Int /\ n * part(t) <= n * part(r)
    <3> HIDE DEF part
    <3> QED
      BY <2>10, <2>11, TimesGrows
  <2>13. /\ EffectiveHealth(lg, p) = [num |-> 50 * r.total + n * part(r), den |-> 100 * n]
         /\ EffectiveHealth(lh, q) = [num |-> 50 * t.total + n * part(t), den |-> 100 * n]
    <3>1. HasReliability(lg, p) /\ HasReliability(lh, q)
      BY <1>3 DEF HasReliability
    <3> QED
      BY <2>1, <2>2, <2>7, <2>11, <3>1 DEF EffectiveHealth
  <2>14. PICK a \in Int, b \in Int : a = n * part(r) /\ b = n * part(t) /\ b <= a
    BY <2>12
  <2> HIDE DEF part
  <2>15. /\ EffectiveHealth(lg, p) = [num |-> 50 * r.total + a, den |-> 100 * n]
         /\ EffectiveHealth(lh, q) = [num |-> 50 * t.total + b, den |-> 100 * n]
    BY <2>13, <2>14
  <2>16. /\ 50 * t.total + b <= 50 * r.total + a
         /\ 50 * t.total + b \in Int /\ 50 * r.total + a \in Int
         /\ 100 * n \in Int /\ 100 * n > 0
    BY <2>3, <2>4, <2>6, <2>11, <2>14
  <2> QED
    BY <1>1, <2>1, <2>2, <2>3, <2>4, <2>8, <2>15, <2>16 DEF AsHealthy
<1> QED
  BY <1>2, <1>3
-----------------------------------------------------------------------------
(* Selection *)

IsPreference(r) == r.minimum \in Int /\ r.priority \in [Providers -> Int]

Enableds(lg, r) == {p \in Providers : Enabled(lg, p, r)}
Scores(lg, r) == [p \in Enableds(lg, r) |-> SelectionScore(lg, p, r)]

Bonus(r, p) ==
  TierBonus[Profiles[p].tier] + r.priority[p] + (IF p \in r.preferred THEN 5 ELSE 0)

LEMMA BonusFacts ==
  ASSUME NEW r, IsPreference(r), NEW p \in Providers
  PROVE  /\ Bonus(r, p) \in Int
         /\ TierBonus[Profiles[p].tier] \in Int /\ r.priority[p] \in Int
<1>1. TierBonus[Profiles[p].tier] \in Int
  BY ProvidersAssumption DEF TierBonus
<1>2. r.priority[p] \in Int
  BY DEF IsPreference
<1> QED
  BY <1>1, <1>2 DEF Bonus

(* Fractions over a positive number. *)
IsScore(x) == x.num \in Int /\ x.den \in Int /\ x.den > 0

(* A better health and a better bonus make a better score. *)
LEMMA ScoreGrows ==
  ASSUME NEW lg, NEW lh, NEW p \in Providers, NEW q \in Providers,
         AsHealthy(lg, p, lh, q), NEW r, IsPreference(r), Bonus(r, q) <= Bonus(r, p)
  PROVE  /\ IsScore(SelectionScore(lg, p, r)) /\ IsScore(SelectionScore(lh, q, r))
         /\ SelectionScore(lg, p, r).den = SelectionScore(lh, q, r).den
         /\ SelectionScore(lh, q, r).num <= SelectionScore(lg, p, r).num
<1>1. PICK x : x = EffectiveHealth(lg, p)
  OBVIOUS
<1>2. PICK y : y = EffectiveHealth(lh, q)
  OBVIOUS
<1>3. PICK b \in Int : b = Bonus(r, p)
  BY BonusFacts
<1>4. PICK c \in Int : c = Bonus(r, q)
  BY BonusFacts
<1>5. /\ x.num \in Int /\ y.num \in Int /\ x.den \in Int /\ x.den > 0
      /\ x.den = y.den /\ y.num <= x.num
  BY <1>1, <1>2 DEF AsHealthy
<1>6. PICK d \in Int : d = x.den /\ d = y.den /\ d > 0
  BY <1>5
<1>7. /\ SelectionScore(lg, p, r) = [num |-> x.num + b * d, den |-> d]
      /\ SelectionScore(lh, q, r) = [num |-> y.num + c * d, den |-> d]
  BY <1>1, <1>2, <1>3, <1>4, <1>6 DEF SelectionScore, Bonus, Atop
<1>8. d * c \in Int /\ d * b \in Int /\ d * c <= d * b
  <2>1. c <= b
    BY <1>3, <1>4
  <2> QED
    BY <1>6, <2>1, TimesGrows
<1>9. b * d \in Int /\ c * d \in Int /\ c * d <= b * d
  <2>1. b * d = d * b /\ c * d = d * c
    OBVIOUS
  <2> QED
    BY <1>8, <2>1
<1>10. PICK m \in Int, n \in Int : m = b * d /\ n = c * d /\ n <= m
  BY <1>9
<1>11. /\ SelectionScore(lg, p, r) = [num |-> x.num + m, den |-> d]
       /\ SelectionScore(lh, q, r) = [num |-> y.num + n, den |-> d]
  BY <1>7, <1>10
<1>12. x.num + m \in Int /\ y.num + n \in Int /\ y.num + n <= x.num + m
  BY <1>5, <1>10
<1> QED
  BY <1>6, <1>11, <1>12 DEF IsScore

LEMMA SameHealth ==
  ASSUME NEW lg \in Logs, NEW p \in Providers
  PROVE  AsHealthy(lg, p, lg, p)
<1>1. \A x \in Points(lg, p) : PointScore(lg, p, x) <= PointScore(lg, p, x)
  <2>1. \A x \in Points(lg, p) : PointScore(lg, p, x) \in Int
    BY PointsFacts
  <2> QED
    BY <2>1
<1> QED
  BY <1>1, HealthGrows

LEMMA ScoresAreFractions ==
  ASSUME NEW lg \in Logs, NEW r, IsPreference(r), NEW p \in Providers
  PROVE  IsScore(SelectionScore(lg, p, r))
<1>1. Bonus(r, p) <= Bonus(r, p)
  BY BonusFacts
<1> QED
  BY <1>1, SameHealth, ScoreGrows

(* Better candidates first is an order of the enabled ones. *)
LEMMA CandidatesInLine ==
  ASSUME NEW E, E \subseteq Int, NEW score, \A p \in E : IsScore(score[p]),
         NEW R, R = {w \in E \X E : BetterCandidate(score, w[1], w[2])}
  PROVE  StrictOrder(E, R)
<1> DEFINE a(p) == score[p].num
           k(p) == score[p].den
<1>1. \A p \in E : a(p) \in Int /\ k(p) \in Int /\ k(p) > 0 /\ p \in Int
  BY DEF IsScore
<1>2. \A p, q \in E : Above(score[p], score[q]) <=> a(p) * k(q) > a(q) * k(p)
  BY DEF Above
<1>3. \A p, q \in E : <<p, q>> \in R <=>
        Above(score[p], score[q]) \/ (~Above(score[q], score[p]) /\ p < q)
  BY DEF BetterCandidate
<1> HIDE DEF a, k
<1>4. \A p, q \in E : a(p) * k(q) \in Int
  BY <1>1
<1>5. \A p \in E : <<p, p>> \notin R
  <2> SUFFICES ASSUME NEW p \in E PROVE <<p, p>> \notin R
    OBVIOUS
  <2>1. PICK n \in Int : n = a(p) * k(p)
    BY <1>4
  <2>2. ~Above(score[p], score[p]) /\ ~(p < p)
    BY <1>1, <1>2, <2>1
  <2> QED
    BY <1>3, <2>2
<1>6. \A p, q \in E : p # q => <<p, q>> \in R \/ <<q, p>> \in R
  <2> SUFFICES ASSUME NEW p \in E, NEW q \in E, p # q PROVE <<p, q>> \in R \/ <<q, p>> \in R
    OBVIOUS
  <2>1. p < q \/ q < p
    BY <1>1
  <2> QED
    BY <1>3, <2>1
<1>7. \A p, q, r \in E : <<p, q>> \in R /\ <<q, r>> \in R => <<p, r>> \in R
  <2> SUFFICES ASSUME NEW p \in E, NEW q \in E, NEW r \in E, <<p, q>> \in R, <<q, r>> \in R
               PROVE  <<p, r>> \in R
    OBVIOUS
  <2>1. PICK b \in Int, c \in Int, d \in Int, m \in Int, n \in Int, s \in Int :
          /\ b = a(p) /\ c = a(q) /\ d = a(r)
          /\ m = k(p) /\ n = k(q) /\ s = k(r) /\ m > 0 /\ n > 0 /\ s > 0
    BY <1>1
  <2>2. /\ b * n > c * m /\ ~(d * n > c * s) => b * s > d * m
        /\ ~(c * m > b * n) /\ c * s > d * n => b * s > d * m
        /\ ~(c * m > b * n) /\ ~(d * n > c * s) => ~(d * m > b * s)
    BY <2>1, AboveFacts
  <2>3. /\ b * n \in Int /\ c * m \in Int /\ d * n \in Int
        /\ c * s \in Int /\ b * s \in Int /\ d * m \in Int
    OBVIOUS
  <2>4. /\ Above(score[p], score[q]) <=> b * n > c * m
        /\ Above(score[q], score[p]) <=> c * m > b * n
        /\ Above(score[q], score[r]) <=> c * s > d * n
        /\ Above(score[r], score[q]) <=> d * n > c * s
        /\ Above(score[p], score[r]) <=> b * s > d * m
        /\ Above(score[r], score[p]) <=> d * m > b * s
    BY <1>2, <2>1
  <2>5. /\ Above(score[p], score[q]) => ~Above(score[q], score[p])
        /\ Above(score[q], score[r]) => ~Above(score[r], score[q])
    BY <2>3, <2>4
  <2>6. /\ Above(score[p], score[q]) \/ (~Above(score[q], score[p]) /\ p < q)
        /\ Above(score[q], score[r]) \/ (~Above(score[r], score[q]) /\ q < r)
    BY <1>3
  <2>7. CASE Above(score[p], score[q]) \/ Above(score[q], score[r])
    <3>1. Above(score[p], score[r])
      BY <2>2, <2>4, <2>5, <2>6, <2>7
    <3> QED
      BY <1>3, <3>1
  <2>8. CASE ~Above(score[p], score[q]) /\ ~Above(score[q], score[r])
    <3>1. ~Above(score[r], score[p])
      BY <2>2, <2>4, <2>6, <2>8
    <3>2. p < r
      BY <1>1, <2>6, <2>8
    <3> QED
      BY <1>3, <3>1, <3>2
  <2> QED
    BY <2>7, <2>8
<1> QED
  BY <1>5, <1>6, <1>7 DEF StrictOrder

(* What a selection is: the enabled providers, each once, each behind the  *)
(* ones that are better.                                                   *)
Ranked(order, E, score) ==
  /\ order \in Seq(E) /\ Range(order) = E
  /\ \A p \in E : Ahead(order, p) = {q \in E : BetterCandidate(score, q, p)}

LEMMA SelectionIsRanked ==
  ASSUME NEW lg \in Logs, NEW r, IsPreference(r)
  PROVE  Ranked(Selection(lg, r), Enableds(lg, r), Scores(lg, r))
<1>1. PICK E : E = Enableds(lg, r)
  OBVIOUS
<1>2. PICK score : score = [p \in E |-> SelectionScore(lg, p, r)]
  OBVIOUS
<1>3. score = Scores(lg, r)
  BY <1>1, <1>2 DEF Scores
<1>4. E \in SUBSET Providers /\ IsFiniteSet(E) /\ E \subseteq Int
  <2>1. E \in SUBSET Providers /\ IsFiniteSet(Providers) /\ Providers \subseteq Int
    BY <1>1, ProvidersAssumption DEF Enableds
  <2> QED
    BY <2>1, FS_Subset
<1>5. \A p \in E : IsScore(score[p])
  BY <1>2, <1>4, ScoresAreFractions
<1>6. PICK R : R = {w \in E \X E : BetterCandidate(score, w[1], w[2])}
  OBVIOUS
<1>7. StrictOrder(E, R)
  BY <1>4, <1>5, <1>6, CandidatesInLine
<1>8. \A p, q \in E : <<q, p>> \in R <=> BetterCandidate(score, q, p)
  BY <1>6
<1>9. PICK rank : rank = [p \in E |-> Cardinality(Earlier(E, R, p))]
  OBVIOUS
<1>10. Placing(E, R, rank)
  BY <1>4, <1>7, <1>9, PlacesTaken
<1>11. PICK N \in Nat : N = Cardinality(E)
  BY <1>10 DEF Placing
<1>12. /\ \A p \in E : rank[p] \in 0..(N - 1)
       /\ \A p, q \in E : <<p, q>> \in R <=> rank[p] < rank[q]
       /\ \A k \in 0..(N - 1) : \E p \in E : rank[p] = k
  BY <1>10, <1>11 DEF Placing
<1>13. PICK order : order = [i \in 1..N |-> CHOOSE p \in E : rank[p] = i - 1]
  OBVIOUS
<1>14. Selection(lg, r) = order
  <2>1. \A p \in E : Earlier(E, R, p) = {q \in E \ {p} : BetterCandidate(score, q, p)}
    BY <1>8 DEF Earlier
  <2>2. rank = [p \in E |-> Cardinality({q \in E \ {p} : BetterCandidate(score, q, p)})]
    BY <1>9, <2>1
  <2>3. E = {p \in Providers : Enabled(lg, p, r)}
    BY <1>1 DEF Enableds
  <2> QED
    BY <1>2, <1>11, <1>13, <2>2, <2>3 DEF Selection
<1>15. DOMAIN order = 1..N
  BY <1>13
<1>16. \A i \in 1..N : order[i] \in E /\ rank[order[i]] = i - 1
  <2> SUFFICES ASSUME NEW i \in 1..N PROVE order[i] \in E /\ rank[order[i]] = i - 1
    OBVIOUS
  <2>1. i - 1 \in 0..(N - 1)
    OBVIOUS
  <2>2. \E p \in E : rank[p] = i - 1
    BY <1>12, <2>1
  <2>3. order[i] = CHOOSE p \in E : rank[p] = i - 1
    BY <1>13
  <2> QED
    BY <2>2, <2>3
<1>17. \A p \in E : rank[p] + 1 \in 1..N /\ order[rank[p] + 1] = p
  <2> SUFFICES ASSUME NEW p \in E PROVE rank[p] + 1 \in 1..N /\ order[rank[p] + 1] = p
    OBVIOUS
  <2>1. PICK k \in 0..(N - 1) : k = rank[p]
    BY <1>12
  <2>2. k + 1 \in 1..N /\ (k + 1) - 1 = k
    OBVIOUS
  <2>3. PICK q \in E : q = order[k + 1] /\ rank[q] = k
    BY <1>16, <2>2
  <2>4. ~(rank[p] < rank[q]) /\ ~(rank[q] < rank[p])
    BY <2>1, <2>3
  <2>5. p = q
    BY <1>7, <1>12, <2>4 DEF StrictOrder
  <2> QED
    BY <2>1, <2>2, <2>3, <2>5
<1>18. order \in Seq(E) /\ Range(order) = E
  <2>1. order \in [1..N -> E]
    BY <1>13, <1>16
  <2>2. order \in Seq(E)
    BY <2>1
  <2>3. Range(order) = E
    BY <1>15, <1>16, <1>17 DEF Range
  <2> QED
    BY <2>2, <2>3
<1>19. ASSUME NEW p \in E
       PROVE  Ahead(order, p) = {q \in E : BetterCandidate(score, q, p)}
  <2>1. ASSUME NEW q \in E, rank[q] < rank[p] PROVE q \in Ahead(order, p)
    <3>1. /\ rank[q] + 1 \in DOMAIN order /\ rank[p] + 1 \in DOMAIN order
          /\ order[rank[q] + 1] = q /\ order[rank[p] + 1] = p
      BY <1>15, <1>17
    <3>2. rank[q] + 1 < rank[p] + 1
      <4>1. rank[q] \in 0..(N - 1) /\ rank[p] \in 0..(N - 1)
        BY <1>12
      <4> QED
        BY <2>1, <4>1
    <3> QED
      BY <1>18, <3>1, <3>2 DEF Ahead
  <2>2. ASSUME NEW q \in Ahead(order, p) PROVE q \in E /\ rank[q] < rank[p]
    <3>1. PICK i \in 1..N, j \in 1..N : order[i] = q /\ order[j] = p /\ i < j
      BY <1>15 DEF Ahead
    <3>2. rank[q] = i - 1 /\ rank[p] = j - 1 /\ q \in E
      BY <1>16, <3>1
    <3>3. i - 1 < j - 1
      BY <3>1
    <3> QED
      BY <3>2, <3>3
  <2>3. Ahead(order, p) = {q \in E : rank[q] < rank[p]}
    BY <2>1, <2>2
  <2>4. \A q \in E : rank[q] < rank[p] <=> BetterCandidate(score, q, p)
    BY <1>8, <1>12
  <2> QED
    BY <2>3, <2>4
<1> QED
  BY <1>1, <1>3, <1>14, <1>18, <1>19 DEF Ranked
LEMMA AheadOfSelected ==
  ASSUME NEW lg \in Logs, NEW r, IsPreference(r)
  PROVE  /\ Range(Selection(lg, r)) = Enableds(lg, r)
         /\ Selection(lg, r) \in Seq(Providers)
         /\ \A p, q \in Enableds(lg, r) :
              q \in Ahead(Selection(lg, r), p)
                <=> \/ Above(SelectionScore(lg, q, r), SelectionScore(lg, p, r))
                    \/ /\ ~Above(SelectionScore(lg, p, r), SelectionScore(lg, q, r))
                       /\ q < p
<1>1. PICK E : E = Enableds(lg, r)
  OBVIOUS
<1>2. Ranked(Selection(lg, r), E, Scores(lg, r))
  BY <1>1, SelectionIsRanked
<1>3. \A p \in E : Scores(lg, r)[p] = SelectionScore(lg, p, r)
  BY <1>1 DEF Scores
<1>4. E \subseteq Providers
  BY <1>1 DEF Enableds
<1>5. Range(Selection(lg, r)) = E /\ Selection(lg, r) \in Seq(Providers)
  <2>1. Range(Selection(lg, r)) = E /\ Selection(lg, r) \in Seq(E)
    BY <1>2 DEF Ranked
  <2>2. \A s \in Seq(E) : s \in Seq(Providers)
    <3> SUFFICES ASSUME NEW s \in Seq(E) PROVE s \in Seq(Providers)
      OBVIOUS
    <3>1. Len(s) \in Nat /\ s \in [1..Len(s) -> E]
      OBVIOUS
    <3>2. s \in [1..Len(s) -> Providers]
      BY <1>4, <3>1
    <3> QED
      BY <3>1, <3>2
  <2> QED
    BY <2>1, <2>2
<1>6. \A p, q \in E : q \in Ahead(Selection(lg, r), p) <=> BetterCandidate(Scores(lg, r), q, p)
  BY <1>2 DEF Ranked
<1>7. \A p, q \in E :
        BetterCandidate(Scores(lg, r), q, p)
          <=> \/ Above(SelectionScore(lg, q, r), SelectionScore(lg, p, r))
              \/ /\ ~Above(SelectionScore(lg, p, r), SelectionScore(lg, q, r))
                 /\ q < p
  BY <1>3 DEF BetterCandidate
<1>8. \A p, q \in E :
        q \in Ahead(Selection(lg, r), p)
          <=> \/ Above(SelectionScore(lg, q, r), SelectionScore(lg, p, r))
              \/ /\ ~Above(SelectionScore(lg, p, r), SelectionScore(lg, q, r))
                 /\ q < p
  BY <1>6, <1>7
<1> QED
  BY <1>1, <1>5, <1>8

(* A provider whose latest score is below the minimum is not enabled. *)
LEMMA CollapsedIsDisabled ==
  ASSUME NEW lg \in Logs, NEW p \in Providers, NEW r, IsPreference(r),
         HasReliability(lg, p),
         \A x \in Points(lg, p) :
           x[1] = Max({y[1] : y \in Points(lg, p)}) => PointScore(lg, p, x) < r.minimum
  PROVE  p \notin Enableds(lg, r)
<1>1. PICK points : points = Points(lg, p) /\ points # {}
  BY DEF HasReliability
<1>2. LastPoint(points) \in points /\ LastPoint(points)[1] = Max({y[1] : y \in points})
  BY <1>1, LastPointFacts
<1>3. PointScore(lg, p, LastPoint(points)) < r.minimum
  BY <1>1, <1>2
<1>4. Reliability(lg, p).latest = PointScore(lg, p, LastPoint(points))
  BY <1>1 DEF Reliability
<1>5. PointScore(lg, p, LastPoint(points)) \in Int /\ r.minimum \in Int
  BY <1>1, <1>2, PointsFacts DEF IsPreference
<1>6. ~(Reliability(lg, p).latest >= r.minimum)
  BY <1>3, <1>4, <1>5
<1> QED
  BY <1>6 DEF Enableds, Enabled, Healthy

(* With at least the health, at least the chances. *)
LEMMA HealthierStaysEnabled ==
  ASSUME NEW lg \in Logs, NEW lh \in Logs, NEW p \in Providers, AsHealthy(lg, p, lh, p),
         NEW r, IsPreference(r), p \in Enableds(lh, r)
  PROVE  p \in Enableds(lg, r)
<1>1. PICK x : x = EffectiveHealth(lg, p)
  OBVIOUS
<1>2. PICK y : y = EffectiveHealth(lh, p)
  OBVIOUS
<1>3. /\ x.num \in Int /\ y.num \in Int /\ x.den \in Int /\ x.den > 0
      /\ x.den = y.den /\ y.num <= x.num
  BY <1>1, <1>2 DEF AsHealthy
<1>4. Capable(p, r) /\ y.num >= r.minimum * y.den
  BY <1>2 DEF Enableds, Enabled, Healthy, AtLeast
<1>5. AtLeast(x, r.minimum)
  <2>1. PICK m \in Int, d \in Int, n \in Int : m = r.minimum /\ d = x.den /\ n = m * d
    BY <1>3 DEF IsPreference
  <2>2. y.num >= n
    BY <1>3, <1>4, <2>1
  <2>3. x.num >= n
    BY <1>3, <2>2
  <2> QED
    BY <2>1, <2>3 DEF AtLeast
<1>6. HasReliability(lg, p) => Reliability(lg, p).latest >= r.minimum
  <2>1. SUFFICES ASSUME HasReliability(lg, p) PROVE Reliability(lg, p).latest >= r.minimum
    OBVIOUS
  <2>2. /\ Reliability(lg, p).latest \in Int /\ Reliability(lh, p).latest \in Int
        /\ Reliability(lh, p).latest <= Reliability(lg, p).latest
        /\ HasReliability(lh, p)
    BY <2>1 DEF AsHealthy
  <2>3. Reliability(lh, p).latest >= r.minimum
    BY <2>2 DEF Enableds, Enabled, Healthy
  <2> QED
    BY <2>2, <2>3 DEF IsPreference
<1> QED
  BY <1>1, <1>4, <1>5, <1>6 DEF Enableds, Enabled, Healthy

(* Above, one side replaced by a lower one. *)
LEMMA AboveLower ==
  ASSUME NEW x, NEW y, NEW z, IsScore(x), IsScore(y), IsScore(z),
         y.den = z.den, z.num <= y.num
  PROVE  /\ Above(x, y) => Above(x, z)
         /\ Above(z, x) => Above(y, x)
         /\ ~Above(z, y)
<1>1. PICK a \in Int, k \in Int, b \in Int, c \in Int, d \in Int :
        /\ a = x.num /\ k = x.den /\ k > 0 /\ b = y.num /\ c = z.num
        /\ d = y.den /\ d = z.den /\ d > 0 /\ c <= b
  BY DEF IsScore
<1>2. k * c \in Int /\ k * b \in Int /\ k * c <= k * b
  BY <1>1, TimesGrows
<1>3. d * c \in Int /\ d * b \in Int /\ d * c <= d * b
  BY <1>1, TimesGrows
<1>4. b * k = k * b /\ c * k = k * c /\ b * d = d * b /\ c * d = d * c
  OBVIOUS
<1>5. PICK m \in Int, n \in Int, u \in Int, v \in Int, w \in Int :
        /\ m = c * k /\ n = b * k /\ m <= n
        /\ u = c * d /\ v = b * d /\ u <= v
        /\ w = a * d
  BY <1>2, <1>3, <1>4
<1>6. /\ Above(x, y) <=> w > n
      /\ Above(x, z) <=> w > m
      /\ Above(z, x) <=> m > w
      /\ Above(y, x) <=> n > w
      /\ Above(z, y) <=> u > v
  BY <1>1, <1>5 DEF Above
<1> QED
  BY <1>5, <1>6
(* Issues that only add to points on record already, for one provider.     *)
LEMMA MoreNeverHelps ==
  ASSUME NEW lg \in Logs, NEW lh \in Logs, NEW p \in Providers,
         \A f \in Files : f[1] # p => lh[f] = lg[f],
         \A f \in Files : \A s \in Severities : lg[f][s] <= lh[f][s],
         Points(lh, p) = Points(lg, p),
         NEW r, IsPreference(r), p \in Range(Selection(lh, r))
  PROVE  /\ p \in Range(Selection(lg, r))
         /\ Ahead(Selection(lg, r), p) \subseteq Ahead(Selection(lh, r), p)
<1>1. AsHealthy(lg, p, lh, p)
  <2>1. \A x \in Points(lg, p) : PointScore(lh, p, x) <= PointScore(lg, p, x)
    <3> SUFFICES ASSUME NEW x \in Points(lg, p)
                 PROVE  PointScore(lh, p, x) <= PointScore(lg, p, x)
      OBVIOUS
    <3>1. PICK f \in Files : f = <<p, x[2], x[1]>>
      BY DEF Points, Files
    <3>2. lg[f] \in Counts /\ lh[f] \in Counts /\ \A s \in Severities : lg[f][s] <= lh[f][s]
      BY <3>1 DEF Logs
    <3>3. HealthScore(lh[f]) <= HealthScore(lg[f])
      BY <3>2, HealthScores
    <3> QED
      BY <3>1, <3>3 DEF PointScore
  <2> QED
    BY <2>1, HealthGrows
<1>2. ASSUME NEW q \in Providers, q # p
      PROVE  AsHealthy(lg, q, lh, q) /\ AsHealthy(lh, q, lg, q)
  <2>1. \A x \in Windows \X Series : lh[<<q, x[2], x[1]>>] = lg[<<q, x[2], x[1]>>]
    BY <1>2 DEF Files
  <2>2. Points(lh, q) = Points(lg, q)
    BY <2>1 DEF Points
  <2>3. /\ \A x \in Points(lg, q) : PointScore(lh, q, x) = PointScore(lg, q, x)
        /\ \A x \in Points(lg, q) : PointScore(lg, q, x) \in Int
    BY <2>1, PointsFacts DEF PointScore
  <2>4. /\ \A x \in Points(lg, q) : PointScore(lh, q, x) <= PointScore(lg, q, x)
        /\ \A x \in Points(lh, q) : PointScore(lg, q, x) <= PointScore(lh, q, x)
    BY <2>2, <2>3
  <2> QED
    BY <2>2, <2>4, HealthGrows
<1>3. /\ Range(Selection(lg, r)) = Enableds(lg, r)
      /\ Range(Selection(lh, r)) = Enableds(lh, r)
  BY AheadOfSelected
<1>4. p \in Enableds(lh, r) /\ p \in Enableds(lg, r)
  BY <1>1, <1>3, HealthierStaysEnabled
<1>5. PICK s, t : s = SelectionScore(lg, p, r) /\ t = SelectionScore(lh, p, r)
  OBVIOUS
<1>6. IsScore(s) /\ IsScore(t) /\ s.den = t.den /\ t.num <= s.num
  <2>1. Bonus(r, p) <= Bonus(r, p)
    BY BonusFacts
  <2> QED
    BY <1>1, <1>5, <2>1, ScoreGrows
<1>7. ASSUME NEW q \in Ahead(Selection(lg, r), p) PROVE q \in Ahead(Selection(lh, r), p)
  <2>1. q \in Enableds(lg, r) /\ q \in Providers
    BY <1>3 DEF Ahead, Enableds
  <2>2. PICK u, v : u = SelectionScore(lg, q, r) /\ v = SelectionScore(lh, q, r)
    OBVIOUS
  <2>3. Above(u, s) \/ (~Above(s, u) /\ q < p)
    BY <1>4, <1>5, <2>1, <2>2, AheadOfSelected
  <2>4. q # p
    <3>1. s.num <= s.num /\ s.den = s.den /\ ~(p < p)
      BY <1>6, ProvidersAssumption DEF IsScore
    <3>2. ~Above(s, s)
      BY <1>6, <3>1, AboveLower
    <3> QED
      BY <1>5, <2>2, <2>3, <3>1, <3>2
  <2>5. q \in Enableds(lh, r)
    BY <1>2, <2>1, <2>4, HealthierStaysEnabled
  <2>6. /\ IsScore(u) /\ IsScore(v) /\ u.den = v.den
        /\ v.num <= u.num /\ u.num <= v.num
    <3>1. Bonus(r, q) <= Bonus(r, q)
      BY <2>1, BonusFacts
    <3>2. AsHealthy(lg, q, lh, q) /\ AsHealthy(lh, q, lg, q)
      BY <1>2, <2>1, <2>4
    <3>3. IsScore(u) /\ IsScore(v) /\ u.den = v.den /\ v.num <= u.num
      BY <2>1, <2>2, <3>1, <3>2, ScoreGrows
    <3>4. u.num <= v.num
      BY <2>1, <2>2, <3>1, <3>2, ScoreGrows
    <3> QED
      BY <3>3, <3>4
  <2>7. v.num = u.num /\ v.den = u.den
    BY <2>6 DEF IsScore
  <2>8. Above(v, t) \/ (~Above(t, v) /\ q < p)
    <3>1. CASE Above(u, s)
      <4>1. Above(u, t)
        BY <1>6, <2>6, <3>1, AboveLower
      <4> QED
        BY <2>7, <4>1 DEF Above
    <3>2. CASE ~Above(s, u) /\ q < p
      <4>1. ~Above(t, u)
        BY <1>6, <2>6, <3>2, AboveLower
      <4> QED
        BY <2>7, <3>2, <4>1 DEF Above
    <3> QED
      BY <2>3, <3>1, <3>2
  <2> QED
    BY <1>4, <1>5, <2>2, <2>5, <2>8, AheadOfSelected
<1> QED
  BY <1>3, <1>4, <1>7

(* A provider with no issue more than another is in front of it.           *)
LEMMA CleanerIsAhead ==
  ASSUME NEW lg \in Logs, NEW p \in Providers, NEW q \in Providers, p < q,
         \A s \in Series, w \in Windows, severity \in Severities :
           /\ lg[<<p, s, w>>][severity] <= lg[<<q, s, w>>][severity]
           /\ (RecordCount(lg[<<p, s, w>>]) = 0) = (RecordCount(lg[<<q, s, w>>]) = 0),
         NEW r, IsPreference(r), Bonus(r, q) <= Bonus(r, p),
         p \in Enableds(lg, r), q \in Enableds(lg, r)
  PROVE  p \in Ahead(Selection(lg, r), q)
<1>1. ASSUME NEW s \in Series, NEW w \in Windows
      PROVE  /\ lg[<<p, s, w>>] \in Counts /\ lg[<<q, s, w>>] \in Counts
             /\ RecordCount(lg[<<p, s, w>>]) > 0 <=> RecordCount(lg[<<q, s, w>>]) > 0
  <2>1. lg[<<p, s, w>>] \in Counts /\ lg[<<q, s, w>>] \in Counts
    <3>1. <<p, s, w>> \in Files /\ <<q, s, w>> \in Files
      BY DEF Files
    <3> QED
      BY <3>1 DEF Logs
  <2>2. \A c \in Counts : RecordCount(c) \in Nat
    BY DEF Counts, RecordCount, Severities
  <2>3. "info" \in Severities
    BY DEF Severities
  <2>4. (RecordCount(lg[<<p, s, w>>]) = 0) = (RecordCount(lg[<<q, s, w>>]) = 0)
    BY <2>3
  <2> QED
    BY <2>1, <2>2, <2>4
<1>2. Points(lg, p) = Points(lg, q)
  BY <1>1 DEF Points
<1>3. ASSUME NEW x \in Points(lg, p)
      PROVE  PointScore(lg, q, x) <= PointScore(lg, p, x)
  <2>1. x[1] \in Windows /\ x[2] \in Series
    BY DEF Points
  <2>2. PICK c \in Counts, d \in Counts :
          c = lg[<<p, x[2], x[1]>>] /\ d = lg[<<q, x[2], x[1]>>]
    BY <1>1, <2>1
  <2>3. \A severity \in Severities : c[severity] <= d[severity]
    BY <2>1, <2>2
  <2>4. HealthScore(d) <= HealthScore(c)
    BY <2>3, HealthScores
  <2> QED
    BY <2>2, <2>4 DEF PointScore
<1>4. AsHealthy(lg, p, lg, q)
  BY <1>2, <1>3, HealthGrows
<1>5. PICK u, v : u = SelectionScore(lg, p, r) /\ v = SelectionScore(lg, q, r)
  OBVIOUS
<1>6. IsScore(u) /\ IsScore(v) /\ u.den = v.den /\ v.num <= u.num
  BY <1>4, <1>5, ScoreGrows
<1>7. ~Above(v, u)
  BY <1>6, AboveLower
<1> QED
  BY <1>5, <1>7, AheadOfSelected

-----------------------------------------------------------------------------
(* The cache *)

ClientFields == {"pc", "route", "at", "query", "batch", "failed"}
BatchFields == {"provider", "query", "candles"}

(* The calls and the files are the records Init makes of them.             *)
Shapes ==
  /\ DOMAIN client = Clients
  /\ \A c \in Clients : DOMAIN client[c] = ClientFields
  /\ DOMAIN cache = Providers \X Series
  /\ \A k \in DOMAIN cache : DOMAIN cache[k] = {"state", "batch"}

(* A client that is about to write holds what belongs into the file it     *)
(* writes to: it asked the source it stands at, and looked at the answer.  *)
HeldForCache(c) ==
  client[c].pc \in {"open", "write"} =>
    /\ Usable(client[c].batch.candles)
    /\ <<client[c].batch.provider, client[c].batch.query>> = FileOf(c)

CacheInv == Shapes /\ CacheIsSound /\ \A c \in Clients : HeldForCache(c)

(* What a step of one client leaves to show: its own call and one file.    *)
LEMMA OneClientMoves ==
  ASSUME CacheInv, NEW c \in Clients,
         DOMAIN client' = Clients, DOMAIN client'[c] = ClientFields,
         \A d \in Clients \ {c} : client'[d] = client[d],
         HeldForCache(c)',
         DOMAIN cache' = Providers \X Series,
         \A k \in DOMAIN cache :
           \/ cache'[k] = cache[k]
           \/ DOMAIN cache'[k] = {"state", "batch"} /\ cache'[k].state = "torn"
           \/ /\ DOMAIN cache'[k] = {"state", "batch"}
              /\ Usable(cache'[k].batch.candles)
              /\ <<cache'[k].batch.provider, cache'[k].batch.query>> = k
  PROVE  CacheInv'
<1>1. Shapes'
  BY DEF CacheInv, Shapes
<1>2. CacheIsSound'
  BY DEF CacheInv, Shapes, CacheIsSound
<1>3. \A d \in Clients \ {c} : HeldForCache(d)'
  BY DEF CacheInv, HeldForCache, FileOf, Provider
<1>4. QED
  BY <1>1, <1>2, <1>3 DEF CacheInv

(* A failing source leaves the client at the next one, holding nothing to  *)
(* write.                                                                  *)
LEMMA FailureMovesOn ==
  ASSUME Shapes, NEW c \in Clients, Fail(c)
  PROVE  /\ DOMAIN client' = Clients /\ DOMAIN client'[c] = ClientFields
         /\ \A d \in Clients \ {c} : client'[d] = client[d]
         /\ client'[c].pc \in {"load", "raised"}
  BY DEF Shapes, Fail, ClientFields

LEMMA WalkKeepsCache ==
  ASSUME CacheInv, NEW c \in Clients,
         cache' = cache,
         \/ Fail(c)
         \/ \E place \in {"ask", "judge", "returned"} : Goto(c, place)
         \/ \E batch : Hold(c, "judge", batch)
  PROVE  CacheInv'
<1>1. Shapes
  BY DEF CacheInv
<1>2. /\ DOMAIN client' = Clients /\ DOMAIN client'[c] = ClientFields
      /\ \A d \in Clients \ {c} : client'[d] = client[d]
      /\ client'[c].pc \in {"load", "raised", "ask", "judge", "returned"}
  <2>1. CASE Fail(c)
    BY <1>1, <2>1, FailureMovesOn
  <2>2. CASE \E place \in {"ask", "judge", "returned"} : Goto(c, place)
    BY <1>1, <2>2 DEF Shapes, Goto, ClientFields
  <2>3. CASE \E batch : Hold(c, "judge", batch)
    BY <1>1, <2>3, ZenonT(60) DEF Shapes, Hold, ClientFields
  <2>4. QED
    BY <2>1, <2>2, <2>3
<1>3. HeldForCache(c)'
  BY <1>2 DEF HeldForCache
<1>4. DOMAIN cache' = Providers \X Series
  BY <1>1 DEF Shapes
<1>5. QED
  BY <1>2, <1>3, <1>4, OneClientMoves

LEMMA AskKeepsCache ==
  ASSUME CacheInv, NEW c \in Clients, Ask(c)
  PROVE  CacheInv'
<1>1. CASE Fail(c)
  BY <1>1, WalkKeepsCache DEF Ask
<1>2. CASE ~Fail(c)
  <2>1. PICK candles :
          Hold(c, IF Usable(candles) THEN "open" ELSE "judge",
               [provider |-> Provider(c), query |-> client[c].query,
                candles |-> candles])
    BY <1>2 DEF Ask
  <2>2. /\ DOMAIN client' = Clients /\ DOMAIN client'[c] = ClientFields
        /\ \A d \in Clients \ {c} : client'[d] = client[d]
        /\ client'[c].pc = (IF Usable(candles) THEN "open" ELSE "judge")
        /\ client'[c].batch = [provider |-> Provider(c), query |-> client[c].query,
                               candles |-> candles]
        /\ client'[c].route = client[c].route
        /\ client'[c].at = client[c].at
        /\ client'[c].query = client[c].query
    BY <2>1 DEF CacheInv, Shapes, Hold, ClientFields
  <2>3. FileOf(c)' = FileOf(c)
    BY <2>2 DEF FileOf, Provider
  <2>4. HeldForCache(c)'
    BY <2>2, <2>3 DEF HeldForCache, FileOf, Provider
  <2>5. cache' = cache /\ DOMAIN cache' = Providers \X Series
    BY DEF Ask, CacheInv, Shapes
  <2>6. QED
    BY <2>2, <2>4, <2>5, OneClientMoves
<1>3. QED
  BY <1>1, <1>2

(* Opening the file empties it, whoever wrote it before. *)
LEMMA OpenKeepsCache ==
  ASSUME CacheInv, NEW c \in Clients, Open(c)
  PROVE  CacheInv'
<1>1. CASE cache' = cache /\ Fail(c)
  BY <1>1, WalkKeepsCache
<1>2. CASE /\ cache' = [cache EXCEPT ![FileOf(c)] = [NoFile EXCEPT !.state = "torn"]]
           /\ Goto(c, "write")
  <2>1. /\ DOMAIN client' = Clients /\ DOMAIN client'[c] = ClientFields
        /\ \A d \in Clients \ {c} : client'[d] = client[d]
        /\ client'[c].batch = client[c].batch
        /\ FileOf(c)' = FileOf(c)
    BY <1>2 DEF CacheInv, Shapes, Goto, ClientFields, FileOf, Provider
  <2>2. HeldForCache(c)'
    BY <2>1 DEF CacheInv, HeldForCache, Open
  <2>3. /\ DOMAIN cache' = Providers \X Series
        /\ \A k \in DOMAIN cache :
             \/ cache'[k] = cache[k]
             \/ DOMAIN cache'[k] = {"state", "batch"} /\ cache'[k].state = "torn"
    BY <1>2 DEF CacheInv, Shapes, NoFile
  <2>4. QED
    BY <2>1, <2>2, <2>3, OneClientMoves
<1>3. QED
  BY <1>1, <1>2 DEF Open

(* Writing puts the held batch into its file, or spoils the file. *)
LEMMA WriteKeepsCache ==
  ASSUME CacheInv, NEW c \in Clients, Write(c)
  PROVE  CacheInv'
<1>1. /\ DOMAIN client' = Clients /\ DOMAIN client'[c] = ClientFields
      /\ \A d \in Clients \ {c} : client'[d] = client[d]
      /\ client'[c].pc \in {"judge", "load", "raised"}
  <2>1. CASE Goto(c, "judge")
    BY <2>1 DEF CacheInv, Shapes, Goto, ClientFields
  <2>2. CASE Fail(c)
    BY <2>2, FailureMovesOn DEF CacheInv
  <2>3. QED
    BY <2>1, <2>2 DEF Write
<1>2. HeldForCache(c)'
  BY <1>1 DEF HeldForCache
<1>3. /\ Usable(client[c].batch.candles)
      /\ <<client[c].batch.provider, client[c].batch.query>> = FileOf(c)
  BY DEF CacheInv, HeldForCache, Write
<1>4. /\ DOMAIN cache' = Providers \X Series
      /\ \A k \in DOMAIN cache :
           \/ cache'[k] = cache[k]
           \/ DOMAIN cache'[k] = {"state", "batch"} /\ cache'[k].state = "torn"
           \/ /\ DOMAIN cache'[k] = {"state", "batch"}
              /\ Usable(cache'[k].batch.candles)
              /\ <<cache'[k].batch.provider, cache'[k].batch.query>> = k
  <2>1. CASE cache' = [cache EXCEPT ![FileOf(c)] =
                         [state |-> "whole", batch |-> client[c].batch]]
    BY <1>3, <2>1 DEF CacheInv, Shapes
  <2>2. CASE cache' = [cache EXCEPT ![FileOf(c)] = [NoFile EXCEPT !.state = "torn"]]
    BY <2>2 DEF CacheInv, Shapes, NoFile
  <2>3. QED
    BY <2>1, <2>2 DEF Write
<1>5. QED
  BY <1>1, <1>2, <1>4, OneClientMoves

LEMMA WorldInvariance == Spec => [](world \in Worlds)
<1>1. Init => world \in Worlds
  BY DEF Init
<1>2. world \in Worlds /\ [Next]_vars => (world \in Worlds)'
  BY DEF Next, vars, Tomorrow, AppendIssue, Select, SelectionRaises, Crash, Inspect,
         Compare, Report, Fetch, Work, Load, Ask, Open, Write, Judge
<1>3. QED
  BY <1>1, <1>2, PTL DEF Spec

LEMMA CacheInvariance == Spec => []CacheInv
<1>1. Init => CacheInv
  <2> SUFFICES ASSUME Init PROVE CacheInv
    OBVIOUS
  <2>1. Shapes
    BY DEF Init, Shapes, AtRest, NoFile, ClientFields
  <2>2. CacheIsSound
    BY DEF Init, CacheIsSound, NoFile
  <2>3. \A c \in Clients : HeldForCache(c)
    BY DEF Init, HeldForCache, AtRest
  <2>4. QED
    BY <2>1, <2>2, <2>3 DEF CacheInv
<1>2. world \in Worlds /\ CacheInv /\ [Next]_vars => CacheInv'
  <2> SUFFICES ASSUME world \in Worlds, CacheInv, [Next]_vars PROVE CacheInv'
    OBVIOUS
  <2>1. ASSUME client' = client, cache' = cache PROVE CacheInv'
    BY <2>1 DEF CacheInv, Shapes, CacheIsSound, HeldForCache, FileOf, Provider
  <2>2. CASE Tomorrow \/ AppendIssue \/ Select \/ SelectionRaises
    BY <2>1, <2>2 DEF Tomorrow, AppendIssue, Select, SelectionRaises, routing
  <2>3. CASE \E k \in world.watched : Inspect(k[1], k[2]) \/ Compare(k[1], k[2])
    BY <2>1, <2>3 DEF Inspect, Compare, Report, routing
  <2>4. CASE Crash
    <3>1. client' = [c \in Clients |-> AtRest] /\ cache' = cache
      BY <2>4 DEF Crash
    <3>2. Shapes'
      BY <3>1 DEF CacheInv, Shapes, AtRest, ClientFields
    <3>3. CacheIsSound' /\ \A c \in Clients : HeldForCache(c)'
      BY <3>1 DEF CacheInv, CacheIsSound, HeldForCache, AtRest
    <3>4. QED
      BY <3>2, <3>3 DEF CacheInv
  <2>5. ASSUME NEW c \in Clients, Fetch(c) PROVE CacheInv'
    <3>1. /\ DOMAIN client' = Clients /\ DOMAIN client'[c] = ClientFields
          /\ \A d \in Clients \ {c} : client'[d] = client[d]
          /\ client'[c].pc = "load"
          /\ cache' = cache
      BY <2>5 DEF Fetch, CacheInv, Shapes, AtRest, ClientFields
    <3>2. HeldForCache(c)'
      BY <3>1 DEF HeldForCache
    <3>3. DOMAIN cache' = Providers \X Series
      BY <3>1 DEF CacheInv, Shapes
    <3>4. QED
      BY <3>1, <3>2, <3>3, OneClientMoves
  <2>6. ASSUME NEW c \in Clients, Load(c) \/ Judge(c) PROVE CacheInv'
    <3>1. /\ cache' = cache
          /\ \/ Fail(c)
             \/ Goto(c, "ask") \/ Goto(c, "returned")
             \/ Hold(c, "judge", cache[FileOf(c)].batch)
      BY <2>6 DEF Load, Judge
    <3>2. QED
      BY <3>1, WalkKeepsCache
  <2>7. ASSUME NEW c \in Clients, Ask(c) \/ Open(c) \/ Write(c) PROVE CacheInv'
    BY <2>7, AskKeepsCache, OpenKeepsCache, WriteKeepsCache
  <2>8. world.clients \subseteq Clients
    BY WorldsAssumption
  <2>9. QED
    BY <2>1, <2>2, <2>3, <2>4, <2>5, <2>6, <2>7, <2>8 DEF Next, Work, vars
<1>3. QED
  BY <1>1, <1>2, WorldInvariance, PTL DEF Spec

(* However many clients share the cache directory, and wherever their      *)
(* writes meet, fail or are cut short by a crash: a cache file that can be *)
(* read is a usable batch of the source and query it is named after        *)
(* (sources.py CachedCandleSource, cache.py).                              *)
THEOREM ReadableCacheIsSound == Spec => []CacheIsSound
<1>1. CacheInv => CacheIsSound
  BY DEF CacheInv
<1>2. QED
  BY <1>1, CacheInvariance, PTL

-----------------------------------------------------------------------------
(* The monitor, the log and the selections made of it *)

(* The world is one of Worlds, the log counts issues, and what the monitor *)
(* is about to save are issues of a batch it was given.                    *)
DataInv ==
  /\ world \in Worlds
  /\ today \in 1..world.days
  /\ log \in Logs
  /\ tail \in [Files -> Tails]
  /\ DOMAIN monitor = {"file", "candles", "left"}
  /\ monitor.left \in Seq(Severities)
  /\ monitor.left # << >> => monitor.file \in Files
  /\ monitor.candles = << >> \/ IsBatch(monitor.candles)

(* Issues are only ever added. *)
LogGrows == \A f \in Files : \A s \in Severities : log[f][s] <= log'[f][s]

LEMMA IssueAdded ==
  ASSUME log \in Logs, NEW f \in Files, NEW s \in Severities, log' = Added(f, s)
  PROVE  log' \in Logs /\ LogGrows
<1>1. PICK counts \in Counts : counts = log[f]
  BY DEF Logs
<1>2. PICK more : more = [counts EXCEPT ![s] = @ + 1]
  OBVIOUS
<1>3. more \in Counts /\ \A t \in Severities : counts[t] <= more[t]
  BY <1>1, <1>2 DEF Counts
<1>4. log' = [log EXCEPT ![f] = more]
  BY <1>1, <1>2 DEF Added
<1>5. \A g \in Files : log'[g] = (IF g = f THEN more ELSE log[g]) /\ log[g] \in Counts
  BY <1>4 DEF Logs
<1>6. ASSUME NEW g \in Files, NEW t \in Severities PROVE log[g][t] <= log'[g][t]
  <2>1. CASE g = f
    BY <1>1, <1>3, <1>5, <2>1
  <2>2. CASE g # f
    <3>1. log'[g] = log[g] /\ log[g][t] \in Nat
      BY <1>5, <2>2 DEF Counts
    <3> QED
      BY <3>1
  <2> QED
    BY <2>1, <2>2
<1>7. log' \in Logs
  BY <1>3, <1>4 DEF Logs
<1> QED
  BY <1>6, <1>7 DEF LogGrows

LEMMA LogKept ==
  ASSUME log \in Logs, log' = log
  PROVE  log' \in Logs /\ LogGrows
<1>1. ASSUME NEW f \in Files, NEW s \in Severities PROVE log[f][s] <= log'[f][s]
  BY DEF Logs, Counts
<1> QED
  BY <1>1 DEF LogGrows

LEMMA ReportKeepsData ==
  ASSUME DataInv, NEW p \in Providers, NEW s \in Series, NEW candles, IsBatch(candles),
         NEW issues \in Seq(Severities), Report(p, s, candles, issues)
  PROVE  DataInv'
<1>1. PICK w \in {today} \cup world.undated :
        monitor' = [file |-> <<p, s, w>>, candles |-> candles, left |-> issues]
  BY DEF Report
<1>2. w \in Windows
  BY WorldsAssumption DEF DataInv
<1>3. <<p, s, w>> \in Files
  BY <1>2 DEF Files
<1>4. UNCHANGED <<world, today, log, tail>>
  BY DEF Report
<1> QED
  BY <1>1, <1>3, <1>4 DEF DataInv

LEMMA DataSteps ==
  ASSUME DataInv, [Next]_vars
  PROVE  DataInv' /\ LogGrows
<1>1. log \in Logs /\ (log' = log => log' \in Logs /\ LogGrows)
  BY LogKept DEF DataInv
<1>2. CASE UNCHANGED <<world, today, log, tail, monitor>>
  BY <1>1, <1>2 DEF DataInv
<1>3. CASE Tomorrow
  <2>1. today' \in 1..world.days /\ UNCHANGED <<world, log, tail, monitor>>
    BY <1>3, WorldsAssumption DEF Tomorrow, DataInv, records
  <2> QED
    BY <1>1, <2>1 DEF DataInv
<1>4. CASE AppendIssue
  <2>1. PICK f, left : f = monitor.file /\ left = monitor.left
    OBVIOUS
  <2>2. f \in Files /\ left \in Seq(Severities) /\ left # << >>
    BY <1>4, <2>1 DEF AppendIssue, DataInv
  <2>3. Head(left) \in Severities /\ Tail(left) \in Seq(Severities)
    BY <2>2, HeadTailProperties
  <2>4. log' \in Logs /\ LogGrows /\ tail' \in [Files -> Tails]
    <3>1. CASE log' = Added(f, Head(left)) /\ tail' = tail
      BY <1>1, <2>2, <2>3, <3>1, IssueAdded DEF DataInv
    <3>2. CASE log' = log /\ tail' = [tail EXCEPT ![f] = "mangled"]
      BY <1>1, <2>2, <3>2 DEF DataInv, Tails
    <3> QED
      BY <1>4, <2>1, <3>1, <3>2 DEF AppendIssue
  <2>5. /\ DOMAIN monitor' = {"file", "candles", "left"}
        /\ monitor'.left \in Seq(Severities)
        /\ monitor'.left # << >> => monitor'.file \in Files
        /\ monitor'.candles = << >> \/ IsBatch(monitor'.candles)
    <3>1. CASE monitor' = Idle
      BY <3>1, EmptySeq DEF Idle
    <3>2. CASE monitor' = [monitor EXCEPT !.left = Tail(left)]
      BY <2>1, <2>2, <2>3, <3>2 DEF DataInv
    <3> QED
      BY <1>4, <2>1, <3>1, <3>2 DEF AppendIssue
  <2>6. UNCHANGED <<world, today>>
    BY <1>4 DEF AppendIssue
  <2> QED
    BY <2>4, <2>5, <2>6 DEF DataInv
<1>5. CASE Select \/ SelectionRaises
  BY <1>2, <1>5 DEF Select, SelectionRaises, records
<1>6. CASE Crash
  <2>1. log' \in Logs /\ LogGrows /\ tail' \in [Files -> Tails]
    <3>1. CASE UNCHANGED <<log, tail>>
      BY <1>1, <3>1 DEF DataInv
    <3>2. CASE /\ monitor.left # << >> /\ log' = log
               /\ tail' = [tail EXCEPT ![monitor.file] = "mangled"]
      BY <1>1, <3>2 DEF DataInv, Tails
    <3>3. CASE /\ monitor.left # << >>
               /\ tail' = [tail EXCEPT ![monitor.file] = "open"]
               /\ log' = Added(monitor.file, Head(monitor.left))
      <4>1. monitor.file \in Files /\ Head(monitor.left) \in Severities
        BY <3>3, HeadTailProperties DEF DataInv
      <4>2. log' \in Logs /\ LogGrows
        BY <1>1, <3>3, <4>1, IssueAdded
      <4>3. tail' \in [Files -> Tails]
        BY <3>3 DEF DataInv, Tails
      <4> QED
        BY <4>2, <4>3
    <3> QED
      BY <1>6, <3>1, <3>2, <3>3 DEF Crash
  <2>2. monitor' = Idle /\ UNCHANGED <<world, today>>
    BY <1>6 DEF Crash
  <2> QED
    BY <2>1, <2>2, EmptySeq DEF DataInv, Idle
<1>7. ASSUME NEW k \in world.watched, Inspect(k[1], k[2]) \/ Compare(k[1], k[2])
      PROVE  DataInv' /\ LogGrows
  <2>1. /\ k[1] \in Providers /\ k[2] \in Series
        /\ \A b \in world.batches \cup world.references : IsBatch(b)
    BY WorldsAssumption DEF DataInv
  <2>2. PICK candles \in world.batches, issues \in Seq(Severities) :
          Report(k[1], k[2], candles, issues)
    <3>1. CASE Inspect(k[1], k[2])
      <4>1. PICK candles \in world.batches :
              Report(k[1], k[2], candles, Issues(candles))
        BY <3>1 DEF Inspect
      <4>2. Issues(candles) \in Seq(Severities)
        BY <2>1, IssuesAreSeverities
      <4> QED
        BY <4>1, <4>2
    <3>2. CASE Compare(k[1], k[2])
      <4>1. PICK candles \in world.batches, reference \in world.references :
              Report(k[1], k[2], candles, ComparisonIssues(candles, reference))
        BY <3>2 DEF Compare
      <4>2. ComparisonIssues(candles, reference) \in Seq(Severities)
        BY ComparisonsAreSeverities
      <4> QED
        BY <4>1, <4>2
    <3> QED
      BY <1>7, <3>1, <3>2
  <2>3. DataInv'
    BY <2>1, <2>2, ReportKeepsData
  <2>4. log' = log
    BY <2>2 DEF Report
  <2> QED
    BY <1>1, <2>3, <2>4
<1>8. ASSUME NEW c \in world.clients, Fetch(c) \/ Work(c)
      PROVE  DataInv' /\ LogGrows
  BY <1>2, <1>8 DEF Fetch, Work, Load, Ask, Open, Write, Judge, records
<1>9. CASE UNCHANGED vars
  BY <1>2, <1>9 DEF vars
<1> QED
  BY <1>3, <1>4, <1>5, <1>6, <1>7, <1>8, <1>9 DEF Next

LEMMA DataInvariance == Spec => []DataInv
<1>1. Init => DataInv
  <2> SUFFICES ASSUME Init PROVE DataInv
    OBVIOUS
  <2>1. log \in Logs
    BY DEF Init, Logs, Counts, NoIssues
  <2>2. world \in Worlds /\ today \in 1..world.days
    BY WorldsAssumption DEF Init
  <2>3. tail \in [Files -> Tails]
    BY DEF Init, Tails
  <2> QED
    BY <2>1, <2>2, <2>3, EmptySeq DEF Init, DataInv, Idle
<1>2. DataInv /\ [Next]_vars => DataInv'
  BY DataSteps
<1> QED
  BY <1>1, <1>2, PTL DEF Spec

(* What a preference of the world is. *)
LEMMA PreferencesAreTyped ==
  ASSUME world \in Worlds, NEW r \in world.preferences
  PROVE  IsPreference(r)
  BY WorldsAssumption DEF IsPreference

(* However many issues any number of batches has left on record: a batch   *)
(* the monitor reports nothing about has readable timestamps that follow   *)
(* each other by at most one and a half intervals (monitoring.py           *)
(* inspect_batch).                                                         *)
THEOREM CleanBatchesAreContinuous == Spec => []CleanBatchIsContinuous
<1>1. DataInv => CleanBatchIsContinuous
  <2> SUFFICES ASSUME DataInv, NEW b, b = monitor.candles,
                      b # << >>, Issues(b) = << >>, Interval > 0, Len(b) > 1,
                      \A i \in 1..(Len(b) - 1) :
                        b[i].text < b[i + 1].text => b[i].at < b[i + 1].at,
                      NEW i \in 1..(Len(b) - 1)
               PROVE  /\ Unparsable \notin {b[i].at, b[i + 1].at}
                      /\ b[i + 1].at - b[i].at > 0
                      /\ 2 * (b[i + 1].at - b[i].at) <= 3 * Interval
    BY DEF CleanBatchIsContinuous
  <2>1. IsBatch(b)
    BY DEF DataInv
  <2>2. FaultCount(b) = 0 /\ GapIssues(b) = << >>
    BY <2>1, IssuesAreSeverities
  <2>3. /\ b[i].at # Unparsable /\ b[i + 1].at # Unparsable
        /\ ~(2 * (b[i + 1].at - b[i].at) > 3 * Interval)
    BY <2>1, <2>2, CleanSteps
  <2>4. /\ i \in 1..Len(b) /\ i + 1 \in 1..Len(b) /\ i + 1 > 1 /\ (i + 1) - 1 = i
        /\ b[i].at \in Int /\ b[i + 1].at \in Int
    BY <2>1, BatchFacts
  <2>5. b[(i + 1) - 1].text < b[i + 1].text
    BY <2>1, <2>2, <2>4, FaultsCounted
  <2>6. b[i].at < b[i + 1].at
    BY <2>4, <2>5
  <2>7. Interval \in Int
    BY InstantsAssumption
  <2> QED
    BY <2>3, <2>4, <2>6, <2>7
<1> QED
  BY <1>1, DataInvariance, PTL

(* However good the rest of its record: a provider all of whose series are *)
(* below the minimum in the newest window on record is not selected        *)
(* (provider_selection.py _candidate, health.py).                          *)
THEOREM CollapseDisables == Spec => []RecentCollapseDisables
<1>1. DataInv => RecentCollapseDisables
  <2> SUFFICES ASSUME DataInv, NEW p \in Providers, NEW r \in world.preferences,
                      HasReliability(log, p),
                      \A x \in Newest(p) : PointScore(log, p, x) < r.minimum
               PROVE  p \notin Selected(r)
    BY DEF RecentCollapseDisables
  <2>1. log \in Logs /\ IsPreference(r)
    BY PreferencesAreTyped DEF DataInv
  <2>2. \A x \in Points(log, p) :
          x[1] = Max({y[1] : y \in Points(log, p)}) => PointScore(log, p, x) < r.minimum
    BY DEF Newest
  <2>3. p \notin Enableds(log, r)
    BY <2>1, <2>2, CollapsedIsDisabled
  <2> QED
    BY <2>1, <2>3, AheadOfSelected DEF Selected
<1> QED
  BY <1>1, DataInvariance, PTL

(* Of two selected providers with the same tier and wishes, one without an *)
(* issue the other does not have is never behind it (provider_selection.py *)
(* _score, _effective_health).                                             *)
THEOREM CleanerIsNeverBehind == Spec => []CleanerNeverTrails
<1>1. DataInv => CleanerNeverTrails
  <2> SUFFICES ASSUME DataInv, NEW p \in Providers, NEW q \in Providers, p < q,
                      NoDirtier(p, q),
                      TierBonus[Profiles[p].tier] >= TierBonus[Profiles[q].tier],
                      NEW r \in world.preferences,
                      {p, q} \subseteq Selected(r),
                      r.priority[p] >= r.priority[q],
                      q \in r.preferred => p \in r.preferred
               PROVE  p \in Ahead(Selection(log, r), q)
    BY DEF CleanerNeverTrails
  <2>1. log \in Logs /\ IsPreference(r)
    BY PreferencesAreTyped DEF DataInv
  <2>2. p \in Enableds(log, r) /\ q \in Enableds(log, r)
    BY <2>1, AheadOfSelected DEF Selected
  <2>3. Bonus(r, q) <= Bonus(r, p)
    <3>1. /\ TierBonus[Profiles[p].tier] \in Int /\ TierBonus[Profiles[q].tier] \in Int
          /\ r.priority[p] \in Int /\ r.priority[q] \in Int
      BY <2>1, BonusFacts
    <3> QED
      BY <3>1 DEF Bonus
  <2> QED
    BY <2>1, <2>2, <2>3, CleanerIsAhead DEF NoDirtier
<1> QED
  BY <1>1, DataInvariance, PTL

(* Whatever the monitor adds to points a provider has on record already,   *)
(* and wherever a crash cuts it short: no selection has the provider in,   *)
(* or ahead of another, that would not have had it before                  *)
(* (quality_store.py, health.py, provider_selection.py).                   *)
THEOREM MoreIssuesNeverHelp == Spec => MoreOfTheSameNeverHelps
<1> DEFINE Step(p) ==
      /\ \A f \in Files : f[1] # p => log'[f] = log[f]
      /\ Points(log', p) = Points(log, p)
      => \A preference \in world.preferences :
           LET before == Selection(log, preference)
               after == Selection(log', preference)
           IN  p \in Range(after) =>
                 p \in Range(before) /\ Ahead(before, p) \subseteq Ahead(after, p)
<1>1. ASSUME DataInv, [Next]_vars, NEW p \in Providers PROVE Step(p)
  <2> SUFFICES ASSUME \A f \in Files : f[1] # p => log'[f] = log[f],
                      Points(log', p) = Points(log, p),
                      NEW r \in world.preferences, p \in Range(Selection(log', r))
               PROVE  /\ p \in Range(Selection(log, r))
                      /\ Ahead(Selection(log, r), p) \subseteq Ahead(Selection(log', r), p)
    OBVIOUS
  <2>1. log \in Logs /\ IsPreference(r)
    BY <1>1, PreferencesAreTyped DEF DataInv
  <2>2. log' \in Logs /\ \A f \in Files : \A s \in Severities : log[f][s] <= log'[f][s]
    <3>1. DataInv' /\ LogGrows
      BY <1>1, DataSteps
    <3> QED
      BY <3>1 DEF DataInv, LogGrows
  <2>3. PICK lg, lh : lg = log /\ lh = log'
    OBVIOUS
  <2>4. /\ lg \in Logs /\ lh \in Logs
        /\ \A f \in Files : f[1] # p => lh[f] = lg[f]
        /\ \A f \in Files : \A s \in Severities : lg[f][s] <= lh[f][s]
        /\ Points(lh, p) = Points(lg, p)
        /\ p \in Range(Selection(lh, r))
    BY <2>1, <2>2, <2>3
  <2>5. /\ p \in Range(Selection(lg, r))
        /\ Ahead(Selection(lg, r), p) \subseteq Ahead(Selection(lh, r), p)
    BY <1>1, <2>1, <2>4, MoreNeverHelps
  <2> QED
    BY <2>3, <2>5
<1>2. {f[1] : f \in {g \in Files : log'[g] # log[g]}} \subseteq Providers
  BY DEF Files
<1>3. DataInv /\ [Next]_vars =>
        [\A p \in {f[1] : f \in {g \in Files : log'[g] # log[g]}} : Step(p)]_log
  BY <1>1, <1>2
<1> QED
  BY <1>3, DataInvariance, PTL DEF Spec, MoreOfTheSameNeverHelps

-----------------------------------------------------------------------------
(* Fetches *)

Answered == {"open", "write", "judge", "returned"}

(* Where a call stands: it has tried, and given up, every source in front  *)
(* of the one it is at, and holds that one's answer to its query.          *)
Walks(c) ==
  /\ client[c].pc \in Places
  /\ client[c].route \in Seq(Providers)
  /\ client[c].pc \in Busy \cup {"returned"} =>
       /\ client[c].query \in Series
       /\ client[c].at \in 1..Len(client[c].route)
       /\ client[c].failed = SubSeq(client[c].route, 1, client[c].at - 1)
  /\ client[c].pc \in Answered =>
       /\ client[c].batch.provider = Provider(c)
       /\ client[c].batch.query = client[c].query
  /\ client[c].pc = "returned" => Usable(client[c].batch.candles)
  /\ client[c].pc = "raised" => client[c].failed = client[c].route
  /\ client[c].pc = "idle" => client[c].failed = << >>

WalkInv ==
  /\ plan.entries \in Seq(Providers)
  /\ \A k \in DOMAIN cache : cache[k].state \in {"none", "torn", "whole"}
  /\ \A c \in Clients : Walks(c)

(* A plan walks providers. *)
LEMMA PlansRouteProviders ==
  ASSUME NEW lg \in Logs, NEW r, IsPreference(r), NEW sources
  PROVE  RouterPlan(lg, r, sources).entries \in Seq(Providers)
<1>1. PICK selected \in Seq(Providers) : selected = Selection(lg, r)
  BY AheadOfSelected
<1>2. PICK at : at = {i \in DOMAIN selected : selected[i] \in Range(sources)}
  OBVIOUS
<1>3. at \in SUBSET (1..Len(selected))
  BY <1>2, LenProperties
<1>4. Kept(selected, at) \in Seq(Providers)
  BY <1>3, KeptFacts
<1>5. RouterPlan(lg, r, sources).entries = Kept(selected, at)
  BY <1>1, <1>2 DEF RouterPlan
<1> QED
  BY <1>4, <1>5

(* The other calls are where they were. *)
LEMMA OneWalks ==
  ASSUME WalkInv, NEW c \in Clients, plan' = plan, Walks(c)',
         \A d \in Clients \ {c} : client'[d] = client[d],
         DOMAIN cache' = DOMAIN cache,
         \A k \in DOMAIN cache : cache'[k] = cache[k] \/ cache'[k].state \in {"torn", "whole"}
  PROVE  WalkInv'
<1>1. \A d \in Clients \ {c} : Walks(d)'
  BY DEF WalkInv, Walks, Provider
<1>2. \A k \in DOMAIN cache' : cache'[k].state \in {"none", "torn", "whole"}
  BY DEF WalkInv
<1> QED
  BY <1>1, <1>2 DEF WalkInv

(* One more source given up.                                               *)
LEMMA PrefixGrows ==
  ASSUME NEW S, NEW s \in Seq(S), NEW n \in 1..Len(s)
  PROVE  Append(SubSeq(s, 1, n - 1), s[n]) = SubSeq(s, 1, n)
<1>1. /\ Len(s) \in Nat /\ n \in Int /\ 1 <= n /\ n <= Len(s)
      /\ \A i \in 1..n : s[i] \in S
  BY LenProperties
<1>2. /\ SubSeq(s, 1, n) \in Seq(S) /\ Len(SubSeq(s, 1, n)) = n
      /\ \A i \in 1..n : SubSeq(s, 1, n)[i] = s[i]
  <2>1. \A i \in 1..((n - 1) + 1) : (1 + i) - 1 = i
    BY <1>1
  <2> QED
    BY <1>1, <2>1, SubSeqProperties
<1>3. /\ SubSeq(s, 1, n - 1) \in Seq(S) /\ Len(SubSeq(s, 1, n - 1)) = n - 1
      /\ \A i \in 1..(n - 1) : SubSeq(s, 1, n - 1)[i] = s[i]
  <2>1. \A i \in 1..(n - 1) : (1 + i) - 1 = i /\ i \in 1..n
    BY <1>1
  <2>2. n - 1 \in Int /\ \A i \in 1..(n - 1) : s[i] \in S
    BY <1>1
  <2> QED
    BY <1>1, <2>1, <2>2, SubSeqProperties
<1>4. PICK a, b : a = SubSeq(s, 1, n - 1) /\ b = SubSeq(s, 1, n)
  OBVIOUS
<1>5. /\ Append(a, s[n]) \in Seq(S) /\ Len(Append(a, s[n])) = n
      /\ \A i \in 1..(n - 1) : Append(a, s[n])[i] = s[i]
      /\ Append(a, s[n])[n] = s[n]
  BY <1>1, <1>3, <1>4, AppendProperties
<1>6. \A i \in 1..n : Append(a, s[n])[i] = b[i]
  <2>1. \A i \in 1..n : i \in 1..(n - 1) \/ i = n
    BY <1>1
  <2> QED
    BY <1>2, <1>4, <1>5, <2>1
<1> QED
  BY <1>2, <1>4, <1>5, <1>6, SeqEqual

LEMMA FailureWalksOn ==
  ASSUME Shapes, NEW c \in Clients, Walks(c), client[c].pc \in Busy, Fail(c)
  PROVE  Walks(c)'
<1>1. PICK route, n, query, failed :
        /\ route = client[c].route /\ n = client[c].at /\ query = client[c].query
        /\ failed = client[c].failed
  OBVIOUS
<1>2. /\ route \in Seq(Providers) /\ n \in 1..Len(route) /\ query \in Series
      /\ failed = SubSeq(route, 1, n - 1)
  BY <1>1 DEF Walks
<1>3. PICK more : more = SubSeq(route, 1, n) /\ more = Append(failed, route[n])
  BY <1>2, PrefixGrows
<1>4. CASE n < Len(route)
  <2>1. /\ client'[c].route = route /\ client'[c].query = query
        /\ client'[c].at = n + 1 /\ client'[c].pc = "load" /\ client'[c].failed = more
    BY <1>1, <1>3, <1>4 DEF Fail, Shapes, ClientFields, Provider
  <2>2. n + 1 \in 1..Len(route) /\ (n + 1) - 1 = n
    BY <1>2, <1>4
  <2> QED
    BY <1>2, <1>3, <2>1, <2>2 DEF Walks, Places, Busy, Answered
<1>5. CASE ~(n < Len(route))
  <2>1. /\ client'[c].route = route
        /\ client'[c].pc = "raised" /\ client'[c].failed = more
    BY <1>1, <1>3, <1>5 DEF Fail, Shapes, ClientFields, Provider
  <2>2. n = Len(route) /\ more = route
    BY <1>2, <1>3, <1>5, SubSeqFull
  <2> QED
    BY <1>2, <2>1, <2>2 DEF Walks, Places, Busy, Answered
<1> QED
  BY <1>4, <1>5

(* A step at one source. *)
LEMMA StaysAtSource ==
  ASSUME NEW c \in Clients, Walks(c), client[c].pc \in Busy,
         client'[c].route = client[c].route, client'[c].at = client[c].at,
         client'[c].query = client[c].query, client'[c].failed = client[c].failed,
         client'[c].pc \in Busy \cup {"returned"},
         client'[c].pc \in Answered =>
           /\ client'[c].batch.provider = Provider(c)
           /\ client'[c].batch.query = client[c].query,
         client'[c].pc = "returned" => Usable(client'[c].batch.candles)
  PROVE  Walks(c)'
<1>1. Provider(c)' = Provider(c)
  BY DEF Provider
<1>2. client'[c].pc \in Places /\ client'[c].pc \notin {"raised", "idle"}
  BY DEF Busy, Places
<1> QED
  BY <1>1, <1>2 DEF Walks

LEMMA GotoFacts ==
  ASSUME Shapes, NEW c \in Clients, NEW place, Goto(c, place)
  PROVE  /\ client'[c].route = client[c].route /\ client'[c].at = client[c].at
         /\ client'[c].query = client[c].query /\ client'[c].failed = client[c].failed
         /\ client'[c].batch = client[c].batch /\ client'[c].pc = place
         /\ \A d \in Clients \ {c} : client'[d] = client[d]
  BY DEF Shapes, ClientFields, Goto

LEMMA HoldFacts ==
  ASSUME Shapes, NEW c \in Clients, NEW place, NEW batch, Hold(c, place, batch)
  PROVE  /\ client'[c].route = client[c].route /\ client'[c].at = client[c].at
         /\ client'[c].query = client[c].query /\ client'[c].failed = client[c].failed
         /\ client'[c].batch = batch /\ client'[c].pc = place
         /\ \A d \in Clients \ {c} : client'[d] = client[d]
  BY DEF Shapes, ClientFields, Hold

LEMMA WorkWalks ==
  ASSUME CacheInv, WalkInv, NEW c \in Clients, Work(c)
  PROVE  Walks(c)' /\ \A d \in Clients \ {c} : client'[d] = client[d]
<1>1. Shapes /\ Walks(c)
  BY DEF CacheInv, WalkInv
<1>2. client[c].pc \in Busy
  BY DEF Work, Load, Ask, Open, Write, Judge, Busy
<1>3. ASSUME Fail(c) PROVE Walks(c)' /\ \A d \in Clients \ {c} : client'[d] = client[d]
  BY <1>1, <1>2, <1>3, FailureWalksOn, FailureMovesOn
<1>4. CASE Load(c)
  <2>1. PICK file : file = cache[FileOf(c)]
    OBVIOUS
  <2>2. CASE Goto(c, "ask")
    BY <1>1, <1>2, <2>2, GotoFacts, StaysAtSource DEF Busy, Answered
  <2>3. CASE file.state = "whole" /\ Hold(c, "judge", file.batch)
    <3>1. FileOf(c) \in DOMAIN cache
      <4>1. client[c].query \in Series /\ Provider(c) \in Providers
        BY <1>1, <1>2, LenProperties DEF Walks, Provider
      <4> QED
        BY <1>1, <4>1 DEF Shapes, FileOf
    <3>2. <<file.batch.provider, file.batch.query>> = FileOf(c)
      BY <2>1, <2>3, <3>1 DEF CacheInv, CacheIsSound
    <3>3. file.batch.provider = Provider(c) /\ file.batch.query = client[c].query
      BY <3>2 DEF FileOf
    <3> QED
      BY <1>1, <1>2, <2>3, <3>3, HoldFacts, StaysAtSource DEF Busy, Answered
  <2> QED
    BY <1>3, <1>4, <2>1, <2>2, <2>3 DEF Load
<1>5. CASE Ask(c)
  <2>1. CASE Fail(c)
    BY <1>3, <2>1
  <2>2. CASE ~Fail(c)
    <3>1. PICK candles :
            Hold(c, IF Usable(candles) THEN "open" ELSE "judge",
                 [provider |-> Provider(c), query |-> client[c].query,
                  candles |-> candles])
      BY <1>5, <2>2 DEF Ask
    <3>2. PICK place \in {"open", "judge"} : place = IF Usable(candles) THEN "open" ELSE "judge"
      OBVIOUS
    <3>3. PICK batch : batch = [provider |-> Provider(c), query |-> client[c].query,
                                candles |-> candles]
      OBVIOUS
    <3>4. /\ Hold(c, place, batch)
          /\ batch.provider = Provider(c) /\ batch.query = client[c].query
      BY <3>1, <3>2, <3>3
    <3> QED
      BY <1>1, <1>2, <3>2, <3>4, HoldFacts, StaysAtSource DEF Busy, Answered
  <2> QED
    BY <2>1, <2>2
<1>6. CASE Open(c) \/ Write(c)
  <2>1. client[c].pc \in Answered
    BY <1>6 DEF Open, Write, Answered
  <2>2. CASE Fail(c)
    BY <1>3, <2>2
  <2>3. CASE ~Fail(c)
    <3>1. PICK place \in {"write", "judge"} : Goto(c, place)
      BY <1>6, <2>3 DEF Open, Write
    <3>2. /\ client[c].batch.provider = Provider(c)
          /\ client[c].batch.query = client[c].query
      BY <1>1, <2>1 DEF Walks
    <3> QED
      BY <1>1, <1>2, <3>1, <3>2, GotoFacts, StaysAtSource DEF Busy, Answered
  <2> QED
    BY <2>2, <2>3
<1>7. CASE Judge(c)
  <2>1. CASE Usable(client[c].batch.candles) /\ Goto(c, "returned")
    <3>1. /\ client[c].batch.provider = Provider(c)
          /\ client[c].batch.query = client[c].query
      BY <1>1, <1>7 DEF Walks, Judge, Answered
    <3> QED
      BY <1>1, <1>2, <2>1, <3>1, GotoFacts, StaysAtSource DEF Busy, Answered
  <2> QED
    BY <1>3, <1>7, <2>1 DEF Judge
<1> QED
  BY <1>4, <1>5, <1>6, <1>7 DEF Work

LEMMA WalkSteps ==
  ASSUME DataInv, CacheInv, WalkInv, [Next]_vars
  PROVE  WalkInv'
<1>1. CASE UNCHANGED routing
  BY <1>1 DEF WalkInv, Walks, Provider, routing
<1>2. CASE \/ Tomorrow \/ AppendIssue
           \/ \E k \in world.watched : Inspect(k[1], k[2]) \/ Compare(k[1], k[2])
  BY <1>1, <1>2 DEF Tomorrow, AppendIssue, Inspect, Compare, Report
<1>3. ASSUME UNCHANGED <<client, cache>>, plan'.entries \in Seq(Providers)
      PROVE  WalkInv'
  BY <1>3 DEF WalkInv, Walks, Provider
<1>4. CASE Select
  <2>1. PICK r \in world.preferences, sources \in world.sources :
          plan' = RouterPlan(log, r, sources)
    BY <1>4 DEF Select
  <2>2. log \in Logs /\ IsPreference(r)
    BY PreferencesAreTyped DEF DataInv
  <2> QED
    BY <1>3, <1>4, <2>1, <2>2, PlansRouteProviders DEF Select
<1>5. CASE SelectionRaises
  BY <1>3, <1>5, EmptySeq DEF SelectionRaises, NoPlan
<1>6. CASE Crash
  <2>1. /\ plan' = NoPlan /\ cache' = cache
        /\ client' = [c \in Clients |-> AtRest]
    BY <1>6 DEF Crash
  <2>2. \A c \in Clients : Walks(c)'
    BY <2>1, EmptySeq DEF Walks, AtRest, Places, Busy, Answered
  <2> QED
    BY <2>1, <2>2, EmptySeq DEF WalkInv, NoPlan
<1>7. ASSUME NEW c \in Clients, Fetch(c) PROVE WalkInv'
  <2>1. PICK q \in world.queries :
          client' = [client EXCEPT ![c] = [AtRest EXCEPT !.pc = "load",
                                             !.route = plan.entries, !.query = q]]
    BY <1>7 DEF Fetch
  <2>2. plan' = plan /\ cache' = cache /\ plan.entries # << >> /\ DOMAIN client = Clients
    BY <1>7 DEF Fetch, CacheInv, Shapes
  <2>3. /\ client'[c].pc = "load" /\ client'[c].route = plan.entries
        /\ client'[c].query = q /\ client'[c].at = 1 /\ client'[c].failed = << >>
        /\ \A d \in Clients \ {c} : client'[d] = client[d]
    BY <2>1, <2>2 DEF AtRest
  <2>4. q \in Series
    BY WorldsAssumption DEF DataInv
  <2>5. /\ plan.entries \in Seq(Providers) /\ 1 \in 1..Len(plan.entries)
        /\ SubSeq(plan.entries, 1, 1 - 1) = << >>
    <3>1. plan.entries \in Seq(Providers)
      BY DEF WalkInv
    <3>2. Len(plan.entries) \in Nat \ {0}
      BY <2>2, <3>1, EmptySeq
    <3> QED
      BY <3>1, <3>2, SubSeqEmpty
  <2>6. Walks(c)'
    BY <2>3, <2>4, <2>5 DEF Walks, Places, Busy, Answered
  <2> QED
    BY <2>2, <2>3, <2>6, OneWalks
<1>8. ASSUME NEW c \in Clients, Work(c) PROVE WalkInv'
  <2>1. Walks(c)' /\ \A d \in Clients \ {c} : client'[d] = client[d]
    BY <1>8, WorkWalks
  <2>2. plan' = plan
    BY <1>8 DEF Work, Load, Ask, Open, Write, Judge
  <2>3. /\ DOMAIN cache' = DOMAIN cache
        /\ \A k \in DOMAIN cache :
             cache'[k] = cache[k] \/ cache'[k].state \in {"torn", "whole"}
    BY <1>8 DEF Work, Load, Ask, Open, Write, Judge, NoFile
  <2> QED
    BY <2>1, <2>2, <2>3, OneWalks
<1>9. world.clients \subseteq Clients
  BY WorldsAssumption DEF DataInv
<1>10. CASE UNCHANGED vars
  BY <1>1, <1>10 DEF vars, routing
<1> QED
  BY <1>2, <1>4, <1>5, <1>6, <1>7, <1>8, <1>9, <1>10 DEF Next

LEMMA WalkInvariance == Spec => []WalkInv
<1>1. Init => WalkInv
  <2> SUFFICES ASSUME Init PROVE WalkInv
    OBVIOUS
  <2>1. \A c \in Clients : Walks(c)
    BY EmptySeq DEF Init, Walks, AtRest, Places, Busy, Answered
  <2> QED
    BY <2>1, EmptySeq DEF Init, WalkInv, NoPlan, NoFile
<1>2. DataInv /\ CacheInv /\ WalkInv /\ [Next]_vars => WalkInv'
  BY WalkSteps
<1> QED
  BY <1>1, <1>2, DataInvariance, CacheInvariance, PTL DEF Spec

(* A fetch that returns has a usable batch of the first source of its plan *)
(* that had one, one that raises has tried them all, and what either       *)
(* leaves in the cache stands for the source and the query of its name     *)
(* (sources.py MarketDataRouter, CachedCandleSource).                      *)
THEOREM FetchesAreSound == Spec => []FetchInv
<1>1. DataInv /\ CacheInv /\ WalkInv => FetchInv
  <2> SUFFICES ASSUME DataInv, CacheInv, WalkInv PROVE FetchInv
    OBVIOUS
  <2>1. ASSUME NEW c \in Clients
        PROVE  /\ client[c].pc \in Places
               /\ client[c].pc \in Busy \cup {"returned"} =>
                    client[c].at \in DOMAIN client[c].route
               /\ Range(client[c].failed) \subseteq Range(client[c].route)
    <3>1. Walks(c)
      BY DEF WalkInv
    <3>2. PICK route \in Seq(Providers) : route = client[c].route
      BY <3>1 DEF Walks
    <3>3. Len(route) \in Nat /\ DOMAIN route = 1..Len(route)
      BY LenProperties
    <3>4. Range(client[c].failed) \subseteq Range(client[c].route)
      <4>1. CASE client[c].pc \in Busy \cup {"returned"}
        <5>1. PICK n \in 1..Len(route) : n = client[c].at
          BY <3>1, <3>2, <4>1 DEF Walks
        <5>2. client[c].failed = SubSeq(route, 1, n - 1)
          BY <3>1, <3>2, <4>1, <5>1 DEF Walks
        <5>3. \A i \in 1..(n - 1) : i \in DOMAIN route /\ route[i] \in Range(route)
          BY <3>3, <5>1 DEF Range
        <5>4. SubSeq(route, 1, n - 1) \in Seq(Range(route))
          BY <3>3, <5>1, <5>3, SubSeqProperties
        <5> QED
          BY <3>2, <5>2, <5>4, RangeFacts
      <4>2. CASE client[c].pc = "raised"
        BY <3>1, <4>2 DEF Walks
      <4>3. CASE client[c].pc = "idle"
        BY <3>1, <4>3 DEF Walks, Range
      <4> QED
        BY <3>1, <4>1, <4>2, <4>3 DEF Walks, Places
    <3> QED
      BY <3>1, <3>2, <3>3, <3>4 DEF Walks
  <2>2. Range(monitor.left) \subseteq Severities
    BY RangeFacts DEF DataInv
  <2>3. \A k \in DOMAIN cache : cache[k].state \in {"none", "torn", "whole"}
    BY DEF WalkInv
  <2>4. TypeOK
    BY <2>1, <2>2, <2>3 DEF TypeOK, DataInv, Logs, Counts
  <2>5. FirstUsableWins
    BY DEF FirstUsableWins, WalkInv, Walks, Busy, Answered
  <2>6. CacheIsSound
    BY DEF CacheInv
  <2> QED
    BY <2>4, <2>5, <2>6 DEF FetchInv
<1> QED
  BY <1>1, DataInvariance, CacheInvariance, WalkInvariance, PTL
=============================================================================
