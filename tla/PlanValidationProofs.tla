------------------------- MODULE PlanValidationProofs -------------------------
(***************************************************************************)
(* What the layered order, the schedule and the dependency closure of      *)
(* Topology compute, for every finite graph, and what the operators of     *)
(* PlanValidation say of a plan.  Levels and closures are recursive        *)
(* functions over an initial segment of the naturals: the first lemmas are *)
(* the induction such functions need, stated over sets, and what the other *)
(* proofs need as well of sorted positions, sums, rankings and extremes.   *)
(***************************************************************************)
EXTENDS PlanValidation, FiniteSetTheorems, SequenceTheorems, WellFoundedInduction, TLAPS

(* Every set of natural numbers has a least element. *)
LEMMA LeastNatural ==
  ASSUME NEW T, T \subseteq Nat, T # {}
  PROVE  \E n \in T : \A m \in T : n <= m
<1> DEFINE less == {p \in Nat \X Nat : p[1] < p[2]}
<1>1. IsWellFoundedOn(less, Nat)
  BY NatLessThanWellFounded DEF OpToRel
<1> HIDE DEF less
<1>2. PICK n \in T : \A m \in T : ~(<<m, n>> \in less)
  BY <1>1, WFMin, Zenon
<1>3. \A m \in T : ~(m < n)
  BY <1>2 DEF less
<1> QED
  BY <1>3

(* Induction, over a set. *)
LEMMA UpTo ==
  ASSUME NEW N \in Nat, NEW S, 0 \in S, \A k \in S : k < N => k + 1 \in S
  PROVE  0..N \subseteq S
<1> DEFINE T == (0..N) \ S
<1> SUFFICES ASSUME T # {} PROVE FALSE
  OBVIOUS
<1>0. T \subseteq Nat
  OBVIOUS
<1> HIDE DEF T
<1>1. PICK n \in T : \A m \in T : n <= m
  BY <1>0, LeastNatural
<1>2. n \in 0..N /\ n \notin S /\ n # 0
  BY <1>1 DEF T
<1>3. n - 1 \in 0..N /\ n - 1 < n /\ n - 1 < N /\ (n - 1) + 1 = n
  BY <1>2
<1>4. n - 1 \notin T
  BY <1>1, <1>3
<1>5. n - 1 \in S
  BY <1>3, <1>4 DEF T
<1> QED
  BY <1>2, <1>3, <1>5

(* f is the recursive function on 0..N that starts in base. *)
Recurs(N, X, base, step, f) ==
  /\ f \in [0..N -> X]
  /\ f[0] = base
  /\ \A k \in 1..N : f[k] = step[<<k, f[k - 1]>>]

(* A recursive definition has a solution. *)
LEMMA Recursion ==
  ASSUME NEW N \in Nat, NEW X, NEW base \in X, NEW step \in [(1..N) \X X -> X]
  PROVE  \E f : Recurs(N, X, base, step, f)
<1> DEFINE Solves(m, f) == Recurs(m, X, base, step, f)
           S == {m \in 0..N : \E f : Solves(m, f)}
<1> USE DEF Recurs
<1>1. 0 \in S
  <2> DEFINE g == [k \in 0..0 |-> base]
  <2>1. g \in [0..0 -> X] /\ g[0] = base
    OBVIOUS
  <2>2. Solves(0, g) /\ 0 \in 0..N
    BY <2>1
  <2> HIDE DEF Solves, Recurs
  <2> QED
    BY <2>2
<1>2. ASSUME NEW m \in S, m < N
      PROVE  m + 1 \in S
  <2>1. PICK f : Solves(m, f)
    OBVIOUS
  <2> DEFINE g == [k \in 0..(m + 1) |-> IF k = m + 1 THEN step[<<k, f[m]>>] ELSE f[k]]
  <2>0. m \in 0..N
    OBVIOUS
  <2>2. /\ m \in Nat /\ m \in 0..m /\ m + 1 \in 1..N
        /\ m + 1 \in 0..(m + 1) /\ 0 \in 0..(m + 1) /\ 0 # m + 1 /\ 0 \in 0..m
    BY <1>2, <2>0
  <2>15. f[m] \in X /\ <<m + 1, f[m]>> \in (1..N) \X X
    BY <2>1, <2>2
  <2>3. g[m + 1] = step[<<m + 1, f[m]>>] /\ step[<<m + 1, f[m]>>] \in X
    BY <2>2, <2>15
  <2>4. \A k \in 0..m : k \in 0..(m + 1) /\ k # m + 1
    BY <2>2
  <2>5. \A k \in 0..m : g[k] = f[k]
    BY <2>4
  <2>6. \A k \in 0..(m + 1) : k \in 0..m \/ k = m + 1
    BY <2>2
  <2>7. g = [k \in 0..(m + 1) |-> g[k]]
    OBVIOUS
  <2>8. \A k \in 0..m : f[k] \in X
    BY <2>1
  <2> HIDE DEF g
  <2>9. \A k \in 0..(m + 1) : g[k] \in X
    BY <2>3, <2>5, <2>6, <2>8
  <2>10. g \in [0..(m + 1) -> X]
    BY <2>7, <2>9
  <2>11. g[0] = base
    BY <2>1, <2>2, <2>5
  <2>12. ASSUME NEW k \in 1..(m + 1)
         PROVE  g[k] = step[<<k, g[k - 1]>>]
    <3>1. k - 1 \in 0..m /\ (k = m + 1 => k - 1 = m) /\ (k # m + 1 => k \in 1..m /\ k \in 0..m)
      BY <2>2
    <3>2. CASE k = m + 1
      BY <2>3, <2>5, <3>1, <3>2
    <3>3. CASE k # m + 1
      BY <2>1, <2>5, <3>1, <3>3
    <3> QED
      BY <3>2, <3>3
  <2>13. Solves(m + 1, g)
    BY <2>10, <2>11, <2>12
  <2>14. m + 1 \in 0..N
    BY <2>2
  <2> HIDE DEF Solves, Recurs
  <2> QED
    BY <2>13, <2>14
<1>3. \A m \in S : m < N => m + 1 \in S
  BY <1>2
<1> HIDE DEF S
<1>4. N \in S
  BY <1>1, <1>3, UpTo
<1> HIDE DEF Recurs
<1> QED
  BY <1>4 DEF S

-----------------------------------------------------------------------------
(* Sorted *)

(* The rank of a member of a finite set of integers is how many are less:  *)
(* each from 0 to the number of members minus one is the rank of one.      *)
LEMMA Ranks ==
  ASSUME NEW ids, IsFiniteSet(ids), ids \subseteq Int
  PROVE  /\ Cardinality(ids) \in Nat
         /\ \A x \in ids : Cardinality({y \in ids : y < x}) \in 0..(Cardinality(ids) - 1)
         /\ \A x, z \in ids :
              Cardinality({y \in ids : y < x}) = Cardinality({y \in ids : y < z}) => x = z
         /\ \A k \in 0..(Cardinality(ids) - 1) :
              \E x \in ids : Cardinality({y \in ids : y < x}) = k
<1> DEFINE N == Cardinality(ids)
           Below(x) == {y \in ids : y < x}
           rank == [x \in ids |-> Cardinality(Below(x))]
<1>1. N \in Nat
  BY FS_CardinalityType
<1>2. ASSUME NEW x \in ids
      PROVE  /\ IsFiniteSet(Below(x)) /\ rank[x] = Cardinality(Below(x))
             /\ rank[x] \in 0..(N - 1)
  <2>1. Below(x) \in SUBSET ids /\ x \notin Below(x) /\ Below(x) # ids
    OBVIOUS
  <2>2. IsFiniteSet(Below(x)) /\ Cardinality(Below(x)) <= N /\ Cardinality(Below(x)) # N
    BY <2>1, FS_Subset, Zenon
  <2>3. Cardinality(Below(x)) \in Nat
    BY <2>2, FS_CardinalityType
  <2> QED
    BY <1>1, <2>2, <2>3
<1>3. ASSUME NEW x \in ids, NEW z \in ids, x < z
      PROVE  rank[x] # rank[z]
  <2>0. ASSUME NEW y \in ids, y < x
        PROVE  y < z
    <3>1. x \in Int /\ y \in Int /\ z \in Int
      OBVIOUS
    <3> QED
      BY <1>3, <2>0, <3>1
  <2>1. Below(x) \in SUBSET Below(z) /\ x \in Below(z) /\ x \notin Below(x)
    <3>1. x \in Int /\ ~(x < x)
      OBVIOUS
    <3>2. Below(x) \subseteq Below(z)
      BY <2>0
    <3> QED
      BY <1>3, <3>1, <3>2
  <2>2. IsFiniteSet(Below(z)) /\ Below(x) # Below(z)
    BY <1>2, <2>1
  <2>3. Cardinality(Below(x)) # Cardinality(Below(z))
    BY <2>1, <2>2, FS_Subset
  <2> QED
    BY <1>2, <2>3
<1>4. \A x, z \in ids : rank[x] = rank[z] => x = z
  BY <1>3
<1>5. \A x \in ids : rank[x] \in 0..(N - 1)
  BY <1>2
<1>6. \A x \in ids : rank[x] = Cardinality(Below(x))
  OBVIOUS
<1> HIDE DEF rank
<1>7. rank \in Injection(ids, 0..(N - 1))
  <2>1. rank = [x \in ids |-> rank[x]]
    BY DEF rank
  <2>2. rank \in [ids -> 0..(N - 1)]
    BY <1>5, <2>1
  <2> QED
    BY <2>2, <1>4 DEF Injection, IsInjective
<1>8. IsFiniteSet(0..(N - 1)) /\ Cardinality(0..(N - 1)) = N
  BY <1>1, FS_Interval
<1>9. rank \in Surjection(ids, 0..(N - 1))
  BY <1>7, <1>8, FS_Injection
<1>10. \A k \in 0..(N - 1) : \E x \in ids : rank[x] = k
  BY <1>9 DEF Surjection
<1> QED
  BY <1>1, <1>4, <1>5, <1>6, <1>10

LEMMA SortedIsFunction ==
  ASSUME NEW ids
  PROVE  /\ DOMAIN Sorted(ids) = 1..Cardinality(ids)
         /\ Sorted(ids) = [i \in 1..Cardinality(ids) |-> Sorted(ids)[i]]
<1> DEFINE e(i) == CHOOSE x \in ids : Cardinality({y \in ids : y < x}) = i - 1
<1>1. Sorted(ids) = [i \in 1..Cardinality(ids) |-> e(i)]
  BY DEF Sorted
<1> HIDE DEF e
<1> QED
  BY <1>1

LEMMA SortedAt ==
  ASSUME NEW ids, IsFiniteSet(ids), ids \subseteq Int, NEW i \in 1..Cardinality(ids)
  PROVE  /\ Sorted(ids)[i] \in ids
         /\ \A x \in ids : x = Sorted(ids)[i] <=> Cardinality({y \in ids : y < x}) = i - 1
<1> DEFINE rank(x) == Cardinality({y \in ids : y < x})
<1>1. /\ Cardinality(ids) \in Nat
      /\ \A x, z \in ids : rank(x) = rank(z) => x = z
      /\ \A k \in 0..(Cardinality(ids) - 1) : \E x \in ids : rank(x) = k
  BY Ranks
<1>2. Sorted(ids)[i] = CHOOSE x \in ids : rank(x) = i - 1
  BY DEF Sorted
<1> HIDE DEF rank
<1>3. i - 1 \in 0..(Cardinality(ids) - 1)
  BY <1>1
<1>4. \E x \in ids : rank(x) = i - 1
  BY <1>1, <1>3
<1>5. Sorted(ids)[i] \in ids /\ rank(Sorted(ids)[i]) = i - 1
  BY <1>2, <1>4, Zenon
<1>6. \A x \in ids : x = Sorted(ids)[i] <=> rank(x) = i - 1
  BY <1>1, <1>5
<1> QED
  BY <1>5, <1>6 DEF rank

(* A finite set of integers in order: each of its members once.            *)
LEMMA SortedFacts ==
  ASSUME NEW ids, IsFiniteSet(ids), ids \subseteq Int
  PROVE  /\ Sorted(ids) \in Seq(ids)
         /\ Len(Sorted(ids)) = Cardinality(ids)
         /\ DOMAIN Sorted(ids) = 1..Cardinality(ids)
         /\ Range(Sorted(ids)) = ids
         /\ \A i, j \in 1..Cardinality(ids) : Sorted(ids)[i] = Sorted(ids)[j] => i = j
<1> DEFINE N == Cardinality(ids)
           rank(x) == Cardinality({y \in ids : y < x})
<1>1. N \in Nat /\ \A x \in ids : rank(x) \in 0..(N - 1)
  BY Ranks
<1>2. \A i \in 1..N : /\ Sorted(ids)[i] \in ids
                      /\ \A x \in ids : x = Sorted(ids)[i] <=> rank(x) = i - 1
  BY SortedAt
<1>3. DOMAIN Sorted(ids) = 1..N /\ Sorted(ids) = [i \in 1..N |-> Sorted(ids)[i]]
  BY SortedIsFunction
<1> HIDE DEF rank
<1>4. Sorted(ids) \in [1..N -> ids]
  BY <1>2, <1>3
<1>5. Sorted(ids) \in Seq(ids) /\ Len(Sorted(ids)) = N
  BY <1>1, <1>4
<1>6. ASSUME NEW x \in ids
      PROVE  x \in Range(Sorted(ids))
  <2>1. rank(x) + 1 \in 1..N /\ rank(x) = (rank(x) + 1) - 1
    BY <1>1
  <2>2. x = Sorted(ids)[rank(x) + 1]
    BY <1>2, <2>1
  <2> QED
    BY <1>3, <2>1, <2>2 DEF Range
<1>7. Range(Sorted(ids)) \subseteq ids
  BY <1>2, <1>3 DEF Range
<1>8. ASSUME NEW i \in 1..N, NEW j \in 1..N, Sorted(ids)[i] = Sorted(ids)[j]
      PROVE  i = j
  <2>1. i - 1 = j - 1
    BY <1>2, <1>8
  <2> QED
    BY <1>1, <2>1
<1> QED
  BY <1>3, <1>5, <1>6, <1>7, <1>8

(* A member greater than all others comes last.                            *)
LEMMA SortedAppend ==
  ASSUME NEW ids, IsFiniteSet(ids), ids \subseteq Int,
         NEW m \in Int, \A x \in ids : x < m
  PROVE  Sorted(ids \cup {m}) = Append(Sorted(ids), m)
<1> DEFINE N == Cardinality(ids)
           all == ids \cup {m}
           s == Sorted(ids)
           t == Sorted(all)
           u == Append(s, m)
<1>1. m \notin ids /\ all \subseteq Int
  OBVIOUS
<1>2. N \in Nat /\ IsFiniteSet(all) /\ Cardinality(all) = N + 1
  BY <1>1, FS_AddElement, FS_CardinalityType
<1>3. t \in Seq(all) /\ Len(t) = N + 1
  BY <1>1, <1>2, SortedFacts
<1>4. s \in Seq(ids) /\ Len(s) = N
  BY SortedFacts
<1>5. s \in Seq(all)
  BY <1>4, SeqMonotonic
<1>6. u \in Seq(all) /\ Len(u) = N + 1 /\ u[N + 1] = m /\ \A i \in 1..N : u[i] = s[i]
  BY <1>4, <1>5, AppendProperties
<1>7. \A i \in 1..(N + 1) : \A x \in all :
        x = t[i] <=> Cardinality({y \in all : y < x}) = i - 1
  BY <1>1, <1>2, SortedAt
<1>8. t[N + 1] = m
  <2>3. \A y \in all : y < m <=> y \in ids
    BY <1>1
  <2>1. {y \in all : y < m} = ids
    BY <2>3
  <2>2. N + 1 \in 1..(N + 1) /\ (N + 1) - 1 = N
    BY <1>2
  <2> HIDE DEF t
  <2> QED
    BY <1>7, <2>1, <2>2
<1>9. ASSUME NEW i \in 1..N
      PROVE  t[i] = s[i]
  <2>1. s[i] \in ids /\ Cardinality({y \in ids : y < s[i]}) = i - 1
    BY SortedAt
  <2>2. {y \in all : y < s[i]} = {y \in ids : y < s[i]}
    <3>1. s[i] < m /\ s[i] \in Int
      BY <2>1
    <3>2. ~(m < s[i])
      BY <3>1
    <3> HIDE DEF s
    <3> QED
      BY <3>2
  <2>3. i \in 1..(N + 1) /\ s[i] \in all
    BY <1>2, <2>1
  <2> HIDE DEF s, t, all
  <2> QED
    BY <1>7, <2>1, <2>2, <2>3
<1>10. \A i \in 1..(N + 1) : t[i] = u[i]
  <2>1. \A i \in 1..(N + 1) : i \in 1..N \/ i = N + 1
    BY <1>2
  <2> HIDE DEF s, t, u
  <2> QED
    BY <1>6, <1>8, <1>9, <2>1
<1> HIDE DEF s, t, u, all
<1>11. t = u
  BY <1>2, <1>3, <1>6, <1>10, SeqEqual
<1> QED
  BY <1>11 DEF t, u, s, all

LEMMA SortedInterval ==
  ASSUME NEW n \in Nat
  PROVE  Sorted(1..n) = [i \in 1..n |-> i]
<1>1. IsFiniteSet(1..n) /\ Cardinality(1..n) = n /\ 1..n \subseteq Int
  BY FS_Interval
<1>2. ASSUME NEW i \in 1..n
      PROVE  Sorted(1..n)[i] = i
  <2>1. {y \in 1..n : y < i} = 1..(i - 1)
    OBVIOUS
  <2>2. Cardinality(1..(i - 1)) = i - 1
    BY FS_Interval
  <2>3. Cardinality({y \in 1..n : y < i}) = i - 1
    BY <2>1, <2>2
  <2> QED
    BY <1>1, <2>3, SortedAt
<1>3. Sorted(1..n) = [i \in 1..n |-> Sorted(1..n)[i]]
  BY <1>1, SortedIsFunction
<1> QED
  BY <1>2, <1>3

(* Keeping every position of a list, none of a new one, or a new one.      *)
LEMMA KeptAll ==
  ASSUME NEW S, NEW seq \in Seq(S)
  PROVE  Kept(seq, DOMAIN seq) = seq
<1>1. Len(seq) \in Nat /\ DOMAIN seq = 1..Len(seq) /\ seq = [i \in 1..Len(seq) |-> seq[i]]
  BY LenProperties
<1>2. Sorted(DOMAIN seq) = [i \in 1..Len(seq) |-> i]
  BY <1>1, SortedInterval
<1>3. Kept(seq, DOMAIN seq) = [k \in 1..Len(seq) |-> seq[k]]
  <2> DEFINE order == Sorted(DOMAIN seq)
  <2>1. DOMAIN order = 1..Len(seq) /\ \A k \in 1..Len(seq) : order[k] = k
    BY <1>2
  <2>2. Kept(seq, DOMAIN seq) = [k \in DOMAIN order |-> seq[order[k]]]
    BY DEF Kept
  <2> HIDE DEF order
  <2> QED
    BY <2>1, <2>2
<1> QED
  BY <1>1, <1>3

LEMMA KeptFacts ==
  ASSUME NEW S, NEW seq \in Seq(S), NEW at \in SUBSET (1..Len(seq))
  PROVE  /\ Kept(seq, at) \in Seq(S)
         /\ Len(Kept(seq, at)) = Len(Sorted(at))
         /\ Sorted(at) \in Seq(at)
         /\ \A k \in 1..Len(Sorted(at)) : Kept(seq, at)[k] = seq[Sorted(at)[k]]
         /\ \A k \in 1..Len(Sorted(at)) : \E i \in at : Kept(seq, at)[k] = seq[i]
<1> DEFINE order == Sorted(at)
<1>1. Len(seq) \in Nat
  BY LenProperties
<1>2. IsFiniteSet(at) /\ at \subseteq Int
  <2> DEFINE all == 1..Len(seq)
  <2>1. at \in SUBSET all /\ IsFiniteSet(all) /\ all \subseteq Int
    BY <1>1, FS_Interval
  <2> HIDE DEF all
  <2> QED
    BY <2>1, FS_Subset
<1>3. order \in Seq(at)
  BY <1>2, SortedFacts
<1>4. Kept(seq, at) = [k \in DOMAIN order |-> seq[order[k]]]
  BY DEF Kept
<1> HIDE DEF order
<1>5. Len(order) \in Nat /\ DOMAIN order = 1..Len(order) /\ \A k \in 1..Len(order) : order[k] \in at
  BY <1>3, LenProperties, ElementOfSeq
<1>6. \A k \in 1..Len(order) : seq[order[k]] \in S
  BY <1>5, ElementOfSeq
<1>7. Kept(seq, at) \in [1..Len(order) -> S]
  BY <1>4, <1>5, <1>6
<1>8. Kept(seq, at) \in Seq(S) /\ Len(Kept(seq, at)) = Len(order)
  BY <1>5, <1>7
<1> QED
  BY <1>3, <1>4, <1>5, <1>8 DEF order

LEMMA KeptAppend ==
  ASSUME NEW S, NEW seq \in Seq(S), NEW more \in Seq(S),
         Len(more) = Len(seq) + 1, \A i \in 1..Len(seq) : more[i] = seq[i],
         NEW at, at \subseteq 1..Len(seq)
  PROVE  /\ Kept(more, at) = Kept(seq, at)
         /\ Kept(more, at \cup {Len(seq) + 1}) = Append(Kept(seq, at), more[Len(seq) + 1])
<1> DEFINE n == Len(seq)
           e == more[n + 1]
           wide == at \cup {n + 1}
           s == Sorted(at)
           t == Sorted(wide)
           kept == Kept(seq, at)
<1>1. /\ n \in Nat /\ Len(more) = n + 1
      /\ \A i \in 1..n : more[i] = seq[i]
      /\ e \in S
  BY LenProperties, ElementOfSeq
<1>2. IsFiniteSet(at) /\ at \subseteq Int /\ n + 1 \in Int /\ \A x \in at : x < n + 1
  <2> DEFINE all == 1..n
  <2>3. \A x \in all : x < n + 1
    BY <1>1
  <2>4. IsFiniteSet(all)
    BY <1>1, FS_Interval
  <2>1. at \in SUBSET all /\ IsFiniteSet(all) /\ all \subseteq Int /\ \A x \in all : x < n + 1
    BY <2>3, <2>4
  <2> HIDE DEF all
  <2>2. IsFiniteSet(at)
    BY <2>1, FS_Subset
  <2> QED
    BY <1>1, <2>1, <2>2
<1>3. t = Append(s, n + 1)
  BY <1>2, SortedAppend
<1>4. at \in SUBSET (1..Len(more)) /\ wide \in SUBSET (1..Len(more)) /\ at \in SUBSET (1..n)
  <2>1. 1..n \subseteq 1..Len(more) /\ n + 1 \in 1..Len(more)
    BY <1>1
  <2> QED
    BY <2>1
<1> HIDE DEF wide, e
<1>5. /\ kept \in Seq(S) /\ Len(kept) = Len(s) /\ s \in Seq(at)
      /\ \A k \in 1..Len(s) : kept[k] = seq[s[k]]
  BY KeptFacts
<1>6. /\ Kept(more, at) \in Seq(S) /\ Len(Kept(more, at)) = Len(s)
      /\ \A k \in 1..Len(s) : Kept(more, at)[k] = more[s[k]]
  BY <1>1, <1>4, KeptFacts
<1>7. /\ Kept(more, wide) \in Seq(S) /\ Len(Kept(more, wide)) = Len(t)
      /\ \A k \in 1..Len(t) : Kept(more, wide)[k] = more[t[k]]
  BY <1>1, <1>4, KeptFacts
<1> HIDE DEF kept, s, t
<1>8. Len(s) \in Nat /\ \A k \in 1..Len(s) : s[k] \in 1..n
  BY <1>5, LenProperties, ElementOfSeq
<1>9. Kept(more, at) = kept
  <2>1. \A k \in 1..Len(s) : Kept(more, at)[k] = kept[k]
    BY <1>1, <1>5, <1>6, <1>8
  <2> QED
    BY <1>5, <1>6, <2>1, SeqEqual
<1>10. Kept(more, wide) = Append(kept, e)
  <2>1. s \in Seq(wide) /\ n + 1 \in wide
    BY <1>5, SeqMonotonic DEF wide
  <2>2. Len(t) = Len(s) + 1 /\ t[Len(s) + 1] = n + 1 /\ \A k \in 1..Len(s) : t[k] = s[k]
    BY <1>3, <2>1, AppendProperties
  <2>3. /\ Append(kept, e) \in Seq(S) /\ Len(Append(kept, e)) = Len(s) + 1
        /\ \A k \in 1..Len(s) : Append(kept, e)[k] = kept[k]
        /\ Append(kept, e)[Len(s) + 1] = e
    BY <1>1, <1>5, AppendProperties
  <2>4. \A k \in 1..Len(s) : k \in 1..Len(t) /\ Kept(more, wide)[k] = kept[k]
    BY <1>1, <1>5, <1>7, <1>8, <2>2
  <2>5. Len(s) + 1 \in 1..Len(t) /\ Kept(more, wide)[Len(s) + 1] = e
    BY <1>1, <1>7, <1>8, <2>2 DEF e
  <2>6. \A k \in 1..(Len(s) + 1) : k \in 1..Len(s) \/ k = Len(s) + 1
    BY <1>8
  <2> DEFINE a == Kept(more, wide)
             b == Append(kept, e)
  <2>7. a \in Seq(S) /\ b \in Seq(S) /\ Len(a) = Len(b)
    BY <1>7, <2>2, <2>3
  <2>8. \A k \in 1..Len(a) : a[k] = b[k]
    BY <1>7, <2>2, <2>3, <2>4, <2>5, <2>6
  <2> HIDE DEF a, b
  <2>9. a = b
    BY <2>7, <2>8, SeqEqual
  <2> QED
    BY <2>9 DEF a, b
<1> QED
  BY <1>9, <1>10 DEF kept, wide, e

LEMMA KeptSame ==
  ASSUME NEW S, NEW seq \in Seq(S), NEW more \in Seq(S),
         Len(more) = Len(seq) + 1, \A i \in 1..Len(seq) : more[i] = seq[i],
         NEW at, at \subseteq 1..Len(seq)
  PROVE  Kept(more, at) = Kept(seq, at)
<1>1. /\ Kept(more, at) = Kept(seq, at)
      /\ Kept(more, at \cup {Len(seq) + 1}) = Append(Kept(seq, at), more[Len(seq) + 1])
  BY KeptAppend
<1> QED
  BY <1>1

-----------------------------------------------------------------------------
(* Sums: the recursion behind SumFunction has a solution, over any finite  *)
(* set.                                                                    *)

(* The member FoldSet and its relatives take from a set first. *)
Pick(t) == CHOOSE x \in t : TRUE

(* g is the sum of f over every subset of S, taken member by member. *)
SumsUp(f, S, g) ==
  /\ g \in [SUBSET S -> Int]
  /\ \A t \in SUBSET S :
       g[t] = IF t = {} THEN 0 ELSE f[Pick(t)] + g[t \ {Pick(t)}]

LEMMA PickFacts ==
  ASSUME NEW S, IsFiniteSet(S), NEW t \in SUBSET S, t # {}
  PROVE  /\ Pick(t) \in t /\ Pick(t) \in S /\ t \ {Pick(t)} \in SUBSET S
         /\ IsFiniteSet(t) /\ Cardinality(t) \in Nat /\ Cardinality(t) > 0
         /\ Cardinality(t \ {Pick(t)}) = Cardinality(t) - 1
<1>1. Pick(t) \in t
  BY DEF Pick
<1>2. IsFiniteSet(t) /\ Cardinality(t) \in Nat
  BY FS_Subset, FS_CardinalityType
<1>3. IsFiniteSet(t \ {Pick(t)}) /\ Cardinality(t \ {Pick(t)}) = Cardinality(t) - 1
  BY <1>1, <1>2, FS_RemoveElement
<1>4. Cardinality(t \ {Pick(t)}) \in Nat
  BY <1>3, FS_CardinalityType
<1> QED
  BY <1>1, <1>2, <1>3, <1>4

LEMMA SumsExist ==
  ASSUME NEW S, IsFiniteSet(S), NEW f, \A x \in S : f[x] \in Int
  PROVE  \E g : SumsUp(f, S, g)
<1> DEFINE N == Cardinality(S)
           Small(m) == {t \in SUBSET S : Cardinality(t) <= m}
           Next1(g, t) == IF t = {} THEN 0 ELSE f[Pick(t)] + g[t \ {Pick(t)}]
           Solves(m, g) ==
             /\ g \in [Small(m) -> Int]
             /\ \A t \in Small(m) : g[t] = Next1(g, t)
           D == {m \in Nat : \E g : Solves(m, g)}
<1>1. N \in Nat /\ \A t \in SUBSET S : Cardinality(t) \in Nat /\ Cardinality(t) <= N
  BY FS_CardinalityType, FS_Subset
<1>2. 0 \in D
  <2> DEFINE g == [t \in Small(0) |-> 0]
  <2>1. \A t \in Small(0) : t = {}
    BY <1>1, FS_EmptySet, FS_Subset
  <2>2. Solves(0, g)
    BY <2>1
  <2> HIDE DEF Solves
  <2> QED
    BY <2>2
<1>3. ASSUME NEW m \in D PROVE m + 1 \in D
  <2>0. m \in Nat
    OBVIOUS
  <2>1. PICK g : Solves(m, g)
    OBVIOUS
  <2> DEFINE h == [t \in Small(m + 1) |-> Next1(g, t)]
  <2>2. ASSUME NEW t \in Small(m + 1), t # {}
        PROVE  t \ {Pick(t)} \in Small(m) /\ Pick(t) \in S
    BY <2>0, <2>2, PickFacts
  <2>3. \A t \in Small(m) : t \in Small(m + 1)
    BY <1>1, <2>0
  <2>4. \A t \in Small(m) : h[t] = g[t]
    BY <2>1, <2>3
  <2>5. ASSUME NEW t \in Small(m + 1) PROVE h[t] \in Int /\ h[t] = Next1(h, t)
    <3>1. CASE t = {}
      BY <3>1
    <3>2. CASE t # {}
      <4>1. t \ {Pick(t)} \in Small(m) /\ Pick(t) \in S
        BY <2>2, <3>2
      <4>2. h[t \ {Pick(t)}] = g[t \ {Pick(t)}] /\ g[t \ {Pick(t)}] \in Int
        BY <4>1, <2>4, <2>1
      <4>3. h[t] = f[Pick(t)] + g[t \ {Pick(t)}]
        BY <3>2
      <4> HIDE DEF h
      <4> QED
        BY <4>1, <4>2, <4>3, <3>2
    <3> QED
      BY <3>1, <3>2
  <2>6. h = [t \in Small(m + 1) |-> h[t]]
    OBVIOUS
  <2> HIDE DEF h, Next1
  <2>7. Solves(m + 1, h)
    BY <2>5, <2>6
  <2> HIDE DEF Solves
  <2> QED
    BY <2>0, <2>7
<1> HIDE DEF D
<1>4. 0..N \subseteq D
  BY <1>1, <1>2, <1>3, UpTo
<1> HIDE DEF Solves, N
<1>5. PICK g : Solves(N, g)
  BY <1>1, <1>4 DEF D
<1> USE DEF Solves
<1>6. Small(N) = SUBSET S
  BY <1>1
<1>7. SumsUp(f, S, g)
  BY <1>5, <1>6 DEF SumsUp
<1> QED
  BY <1>7

LEMMA SumsAreIntegers ==
  ASSUME NEW S, IsFiniteSet(S), NEW f, \A x \in S : f[x] \in Int, NEW e,
         e = [t \in SUBSET S |-> IF t = {} THEN 0 ELSE f[Pick(t)] + e[t \ {Pick(t)}]]
  PROVE  SumsUp(f, S, e)
<1>1. \A t \in SUBSET S : e[t] = IF t = {} THEN 0 ELSE f[Pick(t)] + e[t \ {Pick(t)}]
  OBVIOUS
<1>2. e = [t \in SUBSET S |-> e[t]]
  BY <1>1
<1> DEFINE D == {m \in Nat : \A t \in SUBSET S : Cardinality(t) <= m => e[t] \in Int}
<1>3. 0 \in D
  <2>1. \A t \in SUBSET S : Cardinality(t) <= 0 => t = {}
    <3> SUFFICES ASSUME NEW t \in SUBSET S, t # {} PROVE ~(Cardinality(t) <= 0)
      OBVIOUS
    <3>1. Cardinality(t) \in Nat /\ Cardinality(t) > 0
      BY PickFacts, Zenon
    <3> QED
      BY <3>1
  <2>2. {} \in SUBSET S /\ e[{}] = 0
    BY <1>1
  <2> QED
    BY <2>1, <2>2
<1>4. ASSUME NEW m \in D PROVE m + 1 \in D
  <2>1. ASSUME NEW t \in SUBSET S, Cardinality(t) <= m + 1 PROVE e[t] \in Int
    <3>1. CASE t = {}
      <4>1. e[t] = 0
        BY <3>1, <1>1
      <4> QED
        BY <4>1
    <3>2. CASE t # {}
      <4>1. t \ {Pick(t)} \in SUBSET S /\ Cardinality(t \ {Pick(t)}) <= m /\ Pick(t) \in S
        BY <2>1, <3>2, PickFacts
      <4>2. e[t \ {Pick(t)}] \in Int
        BY <4>1
      <4>3. e[t] = f[Pick(t)] + e[t \ {Pick(t)}]
        BY <3>2, <1>1
      <4> QED
        BY <4>1, <4>2, <4>3
    <3> QED
      BY <3>1, <3>2
  <2>2. m \in Nat /\ m + 1 \in Nat
    OBVIOUS
  <2> QED
    BY <2>1, <2>2
<1> HIDE DEF D
<1>5. Cardinality(S) \in Nat /\ \A t \in SUBSET S : Cardinality(t) <= Cardinality(S)
  BY FS_CardinalityType, FS_Subset
<1>6. Cardinality(S) \in D
  BY <1>3, <1>4, <1>5, UpTo
<1>7. \A t \in SUBSET S : e[t] \in Int
  BY <1>5, <1>6 DEF D
<1> QED
  BY <1>1, <1>2, <1>7 DEF SumsUp

(* What the sum of a function over a finite set is. *)
LEMMA SumsFacts ==
  ASSUME NEW S, IsFiniteSet(S), NEW f, \A x \in S : f[x] \in Int
  PROVE  \E g : SumsUp(f, S, g) /\ SumFunctionOnSet(f, S) = g[S]
<1> DEFINE Equation(g) ==
             g = [t \in SUBSET S |-> IF t = {} THEN 0
                                     ELSE f[CHOOSE x \in t : TRUE]
                                            + g[t \ {CHOOSE x \in t : TRUE}]]
<1>1. SumFunctionOnSet(f, S) = (CHOOSE iter : Equation(iter))[S]
  BY DEF SumFunctionOnSet, FoldFunctionOnSet, MapThenFoldSet
<1>2. PICK h : SumsUp(f, S, h)
  BY SumsExist
<1>3. h = [t \in SUBSET S |-> IF t = {} THEN 0 ELSE f[Pick(t)] + h[t \ {Pick(t)}]]
  BY <1>2 DEF SumsUp
<1>4. Equation(h)
  BY <1>3 DEF Pick
<1>5. PICK g : g = (CHOOSE iter : Equation(iter))
  OBVIOUS
<1>6. Equation(g)
  <2> HIDE DEF Equation
  <2> QED
    BY <1>4, <1>5
<1>7. g = [t \in SUBSET S |-> IF t = {} THEN 0 ELSE f[Pick(t)] + g[t \ {Pick(t)}]]
  BY <1>6 DEF Pick
<1> HIDE DEF Equation
<1>8. SumsUp(f, S, g)
  BY <1>7, SumsAreIntegers
<1> QED
  BY <1>1, <1>5, <1>8

LEMMA SumsGrow ==
  ASSUME NEW S, IsFiniteSet(S), NEW f, NEW g,
         \A x \in S : f[x] \in Int /\ g[x] \in Int /\ f[x] <= g[x]
  PROVE  /\ SumFunctionOnSet(f, S) \in Int /\ SumFunctionOnSet(g, S) \in Int
         /\ SumFunctionOnSet(f, S) <= SumFunctionOnSet(g, S)
<1>1. PICK d : SumsUp(f, S, d) /\ SumFunctionOnSet(f, S) = d[S]
  BY SumsFacts
<1>2. PICK e : SumsUp(g, S, e) /\ SumFunctionOnSet(g, S) = e[S]
  BY SumsFacts
<1>3. Cardinality(S) \in Nat /\ \A t \in SUBSET S : Cardinality(t) <= Cardinality(S)
  BY FS_CardinalityType, FS_Subset
<1> DEFINE D == {m \in Nat : \A t \in SUBSET S : Cardinality(t) <= m => d[t] <= e[t]}
<1>4. 0 \in D
  <2>1. ASSUME NEW t \in SUBSET S, Cardinality(t) <= 0 PROVE t = {}
    <3>1. t # {} => Cardinality(t) \in Nat /\ Cardinality(t) > 0
      BY PickFacts, Zenon
    <3> QED
      BY <2>1, <3>1
  <2>2. {} \in SUBSET S /\ d[{}] = 0 /\ e[{}] = 0
    BY <1>1, <1>2 DEF SumsUp
  <2> QED
    BY <2>1, <2>2
<1>5. ASSUME NEW m \in D PROVE m + 1 \in D
  <2>1. ASSUME NEW t \in SUBSET S, Cardinality(t) <= m + 1 PROVE d[t] <= e[t]
    <3>1. CASE t = {}
      <4>1. d[t] = 0 /\ e[t] = 0
        BY <3>1, <1>1, <1>2 DEF SumsUp
      <4> QED
        BY <4>1
    <3>2. CASE t # {}
      <4>1. t \ {Pick(t)} \in SUBSET S /\ Cardinality(t \ {Pick(t)}) <= m /\ Pick(t) \in S
        BY <2>1, <3>2, PickFacts
      <4>2. d[t \ {Pick(t)}] <= e[t \ {Pick(t)}]
        BY <4>1
      <4>3. d[t \ {Pick(t)}] \in Int /\ e[t \ {Pick(t)}] \in Int
        BY <4>1, <1>1, <1>2 DEF SumsUp
      <4>4. /\ d[t] = f[Pick(t)] + d[t \ {Pick(t)}]
            /\ e[t] = g[Pick(t)] + e[t \ {Pick(t)}]
        BY <3>2, <1>1, <1>2 DEF SumsUp
      <4>5. f[Pick(t)] \in Int /\ g[Pick(t)] \in Int /\ f[Pick(t)] <= g[Pick(t)]
        BY <4>1
      <4> QED
        BY <4>2, <4>3, <4>4, <4>5
    <3> QED
      BY <3>1, <3>2
  <2>2. m \in Nat /\ m + 1 \in Nat
    OBVIOUS
  <2> QED
    BY <2>1, <2>2
<1> HIDE DEF D
<1>6. Cardinality(S) \in D
  BY <1>3, <1>4, <1>5, UpTo
<1>7. d[S] <= e[S]
  BY <1>3, <1>6 DEF D
<1>8. d[S] \in Int /\ e[S] \in Int
  BY <1>1, <1>2 DEF SumsUp
<1> QED
  BY <1>1, <1>2, <1>7, <1>8

(* A sum of naturals is at least each of them. *)
LEMMA SumsCover ==
  ASSUME NEW S, IsFiniteSet(S), NEW f, \A x \in S : f[x] \in Nat
  PROVE  /\ SumFunctionOnSet(f, S) \in Nat
         /\ \A x \in S : f[x] <= SumFunctionOnSet(f, S)
<1>1. PICK d : SumsUp(f, S, d) /\ SumFunctionOnSet(f, S) = d[S]
  BY SumsFacts
<1>3. Cardinality(S) \in Nat /\ \A t \in SUBSET S : Cardinality(t) <= Cardinality(S)
  BY FS_CardinalityType, FS_Subset
<1> DEFINE Covers(t) == d[t] \in Nat /\ \A x \in t : f[x] <= d[t]
           D == {m \in Nat : \A t \in SUBSET S : Cardinality(t) <= m => Covers(t)}
<1>4. 0 \in D
  <2>1. ASSUME NEW t \in SUBSET S, Cardinality(t) <= 0 PROVE t = {}
    <3>1. t # {} => Cardinality(t) \in Nat /\ Cardinality(t) > 0
      BY PickFacts, Zenon
    <3> QED
      BY <2>1, <3>1
  <2>2. {} \in SUBSET S /\ d[{}] = 0
    BY <1>1 DEF SumsUp
  <2> QED
    BY <2>1, <2>2
<1>5. ASSUME NEW m \in D PROVE m + 1 \in D
  <2>1. ASSUME NEW t \in SUBSET S, Cardinality(t) <= m + 1 PROVE Covers(t)
    <3>1. CASE t = {}
      <4>1. d[t] = 0
        BY <3>1, <1>1 DEF SumsUp
      <4> QED
        BY <4>1, <3>1
    <3>2. CASE t # {}
      <4>1. t \ {Pick(t)} \in SUBSET S /\ Cardinality(t \ {Pick(t)}) <= m /\ Pick(t) \in S
        BY <2>1, <3>2, PickFacts
      <4>2. Covers(t \ {Pick(t)})
        BY <4>1
      <4>4. d[t] = f[Pick(t)] + d[t \ {Pick(t)}]
        BY <3>2, <1>1 DEF SumsUp
      <4>5. f[Pick(t)] \in Nat /\ \A x \in t : f[x] \in Nat
        BY <4>1
      <4>6. d[t] \in Nat /\ f[Pick(t)] <= d[t]
        BY <4>2, <4>4, <4>5
      <4>7. ASSUME NEW x \in t, x # Pick(t) PROVE f[x] <= d[t]
        <5>1. f[x] <= d[t \ {Pick(t)}] /\ f[x] \in Nat
          BY <4>2, <4>5, <4>7
        <5> QED
          BY <5>1, <4>2, <4>4, <4>5
      <4> QED
        BY <4>6, <4>7
    <3> QED
      BY <3>1, <3>2
  <2>2. m \in Nat /\ m + 1 \in Nat
    OBVIOUS
  <2> HIDE DEF Covers
  <2> QED
    BY <2>1, <2>2
<1> HIDE DEF D
<1>6. Cardinality(S) \in D
  BY <1>3, <1>4, <1>5, UpTo
<1>7. Covers(S)
  BY <1>3, <1>6 DEF D
<1> QED
  BY <1>1, <1>7

(* Functions that agree have one sum. *)
LEMMA SumsAgree ==
  ASSUME NEW S, IsFiniteSet(S), NEW f, NEW g, \A x \in S : f[x] \in Int /\ f[x] = g[x]
  PROVE  SumFunctionOnSet(f, S) = SumFunctionOnSet(g, S)
<1>1. /\ \A x \in S : f[x] \in Int /\ g[x] \in Int /\ f[x] <= g[x]
      /\ \A x \in S : g[x] \in Int /\ f[x] \in Int /\ g[x] <= f[x]
  OBVIOUS
<1>2. /\ SumFunctionOnSet(f, S) \in Int /\ SumFunctionOnSet(g, S) \in Int
      /\ SumFunctionOnSet(f, S) <= SumFunctionOnSet(g, S)
  BY <1>1, SumsGrow
<1>3. SumFunctionOnSet(g, S) <= SumFunctionOnSet(f, S)
  BY <1>1, SumsGrow
<1> QED
  BY <1>2, <1>3

(* A sum of naturals counts its units. *)
Units(f, t) == {w \in t \X Nat : w[2] \in 1..f[w[1]]}

LEMMA SumsCount ==
  ASSUME NEW S, IsFiniteSet(S), NEW f, \A x \in S : f[x] \in Nat
  PROVE  /\ IsFiniteSet(Units(f, S))
         /\ SumFunctionOnSet(f, S) = Cardinality(Units(f, S))
<1>1. PICK d : SumsUp(f, S, d) /\ SumFunctionOnSet(f, S) = d[S]
  BY SumsFacts
<1>3. Cardinality(S) \in Nat /\ \A t \in SUBSET S : Cardinality(t) <= Cardinality(S)
  BY FS_CardinalityType, FS_Subset
<1> DEFINE Counts(t) == IsFiniteSet(Units(f, t)) /\ d[t] = Cardinality(Units(f, t))
           D == {m \in Nat : \A t \in SUBSET S : Cardinality(t) <= m => Counts(t)}
<1>e. Counts({})
  <2>1. Units(f, {}) = {}
    BY DEF Units
  <2>2. {} \in SUBSET S /\ d[{}] = 0
    BY <1>1 DEF SumsUp
  <2> QED
    BY <2>1, <2>2, FS_EmptySet
<1>4. 0 \in D
  <2>1. ASSUME NEW t \in SUBSET S, Cardinality(t) <= 0 PROVE t = {}
    <3>1. t # {} => Cardinality(t) \in Nat /\ Cardinality(t) > 0
      BY PickFacts, Zenon
    <3> QED
      BY <2>1, <3>1
  <2> HIDE DEF Counts
  <2> QED
    BY <1>e, <2>1
<1>5. ASSUME NEW m \in D PROVE m + 1 \in D
  <2>1. ASSUME NEW t \in SUBSET S, Cardinality(t) <= m + 1, t # {} PROVE Counts(t)
    <3>1. PICK p, u : p = Pick(t) /\ u = t \ {p}
      OBVIOUS
    <3>2. /\ u \in SUBSET S /\ Cardinality(u) <= m /\ p \in S /\ p \in t /\ p \notin u
          /\ t = u \cup {p}
      BY <2>1, <3>1, PickFacts
    <3>3. Counts(u)
      BY <3>2
    <3>4. PICK n \in Nat : n = f[p]
      BY <3>2
    <3> DEFINE A == Units(f, u)
               B == {p} \X (1..n)
    <3>5. d[t] = n + d[u]
      BY <2>1, <3>1, <3>4, <1>1 DEF SumsUp
    <3>6. IsFiniteSet(B) /\ Cardinality(B) = n
      <4>1. IsFiniteSet({p}) /\ Cardinality({p}) = 1
        BY FS_Singleton
      <4>2. IsFiniteSet(1..n) /\ Cardinality(1..n) = n
        <5>1. 1 \in Int /\ n \in Int
          OBVIOUS
        <5>2. /\ IsFiniteSet(1..n)
              /\ Cardinality(1..n) = IF 1 > n THEN 0 ELSE n - 1 + 1
          BY <5>1, FS_Interval
        <5> QED
          BY <5>2
      <4>3. IsFiniteSet(B) /\ Cardinality(B) = Cardinality({p}) * Cardinality(1..n)
        BY <4>1, <4>2, FS_Product
      <4>4. 1 * n = n
        OBVIOUS
      <4> QED
        BY <4>1, <4>2, <4>3, <4>4
    <3>7. A \cap B = {}
      BY <3>2 DEF Units
    <3>8. Units(f, t) = A \cup B
      <4>1. \A w \in B : w[1] = p /\ w[2] \in 1..n /\ w = <<w[1], w[2]>> /\ w[2] \in Nat
        OBVIOUS
      <4>2. B \subseteq Units(f, t)
        BY <3>2, <3>4, <4>1 DEF Units
      <4>3. A \subseteq Units(f, t)
        BY <3>2 DEF Units
      <4>4. \A w \in Units(f, t) : w[1] = p => w \in B
        BY <3>4 DEF Units
      <4>5. \A w \in Units(f, t) : w[1] # p => w \in A
        BY <3>2 DEF Units
      <4> QED
        BY <4>2, <4>3, <4>4, <4>5
    <3>9. IsFiniteSet(A) /\ Cardinality(A) \in Nat /\ d[u] = Cardinality(A)
      BY <3>3, FS_CardinalityType
    <3>10. /\ IsFiniteSet(A \cup B)
           /\ Cardinality(A \cup B) = Cardinality(A) + Cardinality(B) - Cardinality(A \cap B)
      BY <3>6, <3>9, FS_Union
    <3>11. Cardinality(A \cap B) = 0
      BY <3>7, FS_EmptySet
    <3>12. Cardinality(A \cup B) = n + d[u]
      BY <3>6, <3>9, <3>10, <3>11
    <3> QED
      BY <3>5, <3>8, <3>10, <3>12
  <2>2. m \in Nat /\ m + 1 \in Nat
    OBVIOUS
  <2> HIDE DEF Counts
  <2> QED
    BY <1>e, <2>1, <2>2
<1> HIDE DEF D
<1>6. Cardinality(S) \in D
  BY <1>3, <1>4, <1>5, UpTo
<1>7. Counts(S)
  BY <1>3, <1>6 DEF D
<1> QED
  BY <1>1, <1>7

(* What is moved without being doubled is no more than it was. *)
LEMMA SumsMove ==
  ASSUME NEW S, IsFiniteSet(S), NEW f, NEW g, NEW h,
         \A x \in S : f[x] \in Nat /\ g[x] \in Nat,
         \A x \in S : g[x] # 0 => h[x] \in S /\ g[x] = f[h[x]],
         \A x, y \in S : g[x] # 0 /\ g[y] # 0 /\ h[x] = h[y] => x = y
  PROVE  /\ SumFunctionOnSet(f, S) \in Nat /\ SumFunctionOnSet(g, S) \in Nat
         /\ SumFunctionOnSet(g, S) <= SumFunctionOnSet(f, S)
<1>1. /\ IsFiniteSet(Units(f, S)) /\ SumFunctionOnSet(f, S) = Cardinality(Units(f, S))
      /\ IsFiniteSet(Units(g, S)) /\ SumFunctionOnSet(g, S) = Cardinality(Units(g, S))
  BY SumsCount
<1> DEFINE m == [w \in Units(g, S) |-> <<h[w[1]], w[2]>>]
<1>2. ASSUME NEW w \in Units(g, S)
      PROVE  /\ w[1] \in S /\ w[2] \in Nat /\ w[2] \in 1..g[w[1]] /\ g[w[1]] # 0
             /\ w = <<w[1], w[2]>>
  BY DEF Units
<1>3. ASSUME NEW w \in Units(g, S) PROVE m[w] \in Units(f, S)
  <2>1. h[w[1]] \in S /\ w[2] \in Nat /\ w[2] \in 1..f[h[w[1]]]
    BY <1>2
  <2> QED
    BY <2>1 DEF Units
<1>4. ASSUME NEW w \in Units(g, S), NEW v \in Units(g, S), m[w] = m[v] PROVE w = v
  <2>1. h[w[1]] = h[v[1]] /\ w[2] = v[2]
    BY <1>4
  <2>2. w[1] = v[1]
    BY <1>2, <2>1
  <2> QED
    BY <1>2, <2>1, <2>2
<1>5. m \in [Units(g, S) -> Units(f, S)]
  BY <1>3
<1> HIDE DEF m
<1>6. m \in Injection(Units(g, S), Units(f, S))
  BY <1>4, <1>5 DEF Injection, IsInjective
<1>7. Cardinality(Units(g, S)) <= Cardinality(Units(f, S))
  BY <1>1, <1>6, FS_Injection
<1> QED
  BY <1>1, <1>7, FS_CardinalityType

-----------------------------------------------------------------------------
(* Ranking *)

(* R orders the members of E in one line. *)
StrictOrder(E, R) ==
  /\ \A p \in E : <<p, p>> \notin R
  /\ \A p, q \in E : p # q => <<p, q>> \in R \/ <<q, p>> \in R
  /\ \A p, q, r \in E : <<p, q>> \in R /\ <<q, r>> \in R => <<p, r>> \in R

Earlier(E, R, p) == {q \in E \ {p} : <<q, p>> \in R}

Placing(E, R, rank) ==
  /\ Cardinality(E) \in Nat
  /\ \A p \in E : rank[p] \in 0..(Cardinality(E) - 1)
  /\ \A p, q \in E : <<p, q>> \in R <=> rank[p] < rank[q]
  /\ \A k \in 0..(Cardinality(E) - 1) : \E p \in E : rank[p] = k

(* What has k members in front of it comes after k others, and so every    *)
(* place is taken once.                                                    *)
LEMMA PlacesTaken ==
  ASSUME NEW E, IsFiniteSet(E), NEW R, StrictOrder(E, R),
         NEW rank, rank = [p \in E |-> Cardinality(Earlier(E, R, p))]
  PROVE  Placing(E, R, rank)
<1> DEFINE N == Cardinality(E)
<1>1. N \in Nat
  BY FS_CardinalityType
<1>2. ASSUME NEW p \in E
      PROVE  IsFiniteSet(Earlier(E, R, p)) /\ rank[p] = Cardinality(Earlier(E, R, p))
             /\ rank[p] \in 0..(N - 1) /\ rank[p] \in Int
  <2>1. Earlier(E, R, p) \in SUBSET E /\ p \notin Earlier(E, R, p) /\ Earlier(E, R, p) # E
    BY DEF Earlier
  <2>2. /\ IsFiniteSet(Earlier(E, R, p)) /\ Cardinality(Earlier(E, R, p)) <= N
        /\ Cardinality(Earlier(E, R, p)) # N
    BY <2>1, FS_Subset, Zenon
  <2>3. Cardinality(Earlier(E, R, p)) \in Nat
    BY <2>2, FS_CardinalityType
  <2> QED
    BY <1>1, <2>2, <2>3
<1>3. ASSUME NEW p \in E, NEW q \in E, <<p, q>> \in R
      PROVE  rank[p] < rank[q]
  <2>1. /\ Earlier(E, R, p) \in SUBSET Earlier(E, R, q)
        /\ p \in Earlier(E, R, q) /\ p \notin Earlier(E, R, p)
    <3>1. p # q
      BY <1>3 DEF StrictOrder
    <3>2. ASSUME NEW r \in E, <<r, p>> \in R PROVE <<r, q>> \in R /\ r # q
      BY <1>3, <3>2 DEF StrictOrder
    <3> QED
      BY <1>3, <3>1, <3>2 DEF Earlier
  <2>2. IsFiniteSet(Earlier(E, R, q)) /\ Earlier(E, R, p) # Earlier(E, R, q)
    BY <1>2, <2>1
  <2>3. /\ Cardinality(Earlier(E, R, p)) <= Cardinality(Earlier(E, R, q))
        /\ Cardinality(Earlier(E, R, p)) # Cardinality(Earlier(E, R, q))
    BY <2>1, <2>2, FS_Subset
  <2>4. rank[p] \in Int /\ rank[q] \in Int
    BY <1>2
  <2> QED
    BY <1>2, <2>3, <2>4
<1>4. \A p \in E : rank[p] \in 0..(N - 1) /\ rank[p] \in Int
  BY <1>2
<1>5. ASSUME NEW p \in E, NEW q \in E, rank[p] < rank[q] PROVE <<p, q>> \in R
  <2>1. p # q /\ ~(rank[q] < rank[p])
    BY <1>4, <1>5
  <2>2. <<q, p>> \notin R
    BY <1>3, <2>1
  <2> QED
    BY <2>1, <2>2 DEF StrictOrder
<1>6. ASSUME NEW p \in E, NEW q \in E, rank[p] = rank[q] PROVE p = q
  <2>1. ~(rank[p] < rank[q]) /\ ~(rank[q] < rank[p])
    BY <1>4, <1>6
  <2>2. <<p, q>> \notin R /\ <<q, p>> \notin R
    BY <1>3, <2>1
  <2> QED
    BY <2>2 DEF StrictOrder
<1>7. rank \in Injection(E, 0..(N - 1))
  <2>1. rank \in [E -> 0..(N - 1)]
    BY <1>4
  <2> QED
    BY <2>1, <1>6 DEF Injection, IsInjective
<1>8. IsFiniteSet(0..(N - 1)) /\ Cardinality(0..(N - 1)) = N
  BY <1>1, FS_Interval
<1>9. rank \in Surjection(E, 0..(N - 1))
  BY <1>7, <1>8, FS_Injection
<1>10. \A k \in 0..(N - 1) : \E p \in E : rank[p] = k
  BY <1>9 DEF Surjection
<1> QED
  BY <1>1, <1>3, <1>4, <1>5, <1>10 DEF Placing

(* A line of the members of E: each before the ones it is put in front of. *)
IsLine(E, R, s) ==
  s \in [1..Cardinality(E) -> E] /\ \A i, j \in DOMAIN s : i < j => <<s[i], s[j]>> \in R

LEMMA LinesExist ==
  ASSUME NEW E, IsFiniteSet(E), NEW R, StrictOrder(E, R)
  PROVE  \E s : IsLine(E, R, s)
<1>1. PICK rank : rank = [p \in E |-> Cardinality(Earlier(E, R, p))]
  OBVIOUS
<1>2. Placing(E, R, rank)
  BY <1>1, PlacesTaken
<1>3. PICK N \in Nat : N = Cardinality(E)
  BY <1>2 DEF Placing
<1>4. /\ \A p, q \in E : <<p, q>> \in R <=> rank[p] < rank[q]
      /\ \A k \in 0..(N - 1) : \E p \in E : rank[p] = k
  BY <1>2, <1>3 DEF Placing
<1>5. PICK s : s = [i \in 1..N |-> CHOOSE p \in E : rank[p] = i - 1]
  OBVIOUS
<1>6. \A i \in 1..N : s[i] \in E /\ rank[s[i]] = i - 1
  <2> SUFFICES ASSUME NEW i \in 1..N PROVE s[i] \in E /\ rank[s[i]] = i - 1
    OBVIOUS
  <2>1. i - 1 \in 0..(N - 1)
    OBVIOUS
  <2>2. \E p \in E : rank[p] = i - 1
    BY <1>4, <2>1
  <2>3. s[i] = CHOOSE p \in E : rank[p] = i - 1
    BY <1>5
  <2> QED
    BY <2>2, <2>3
<1>7. s \in [1..N -> E] /\ DOMAIN s = 1..N
  BY <1>5, <1>6
<1>8. ASSUME NEW i \in 1..N, NEW j \in 1..N, i < j PROVE <<s[i], s[j]>> \in R
  <2>1. i - 1 < j - 1
    BY <1>8
  <2> QED
    BY <1>4, <1>6, <2>1
<1> QED
  BY <1>3, <1>7, <1>8 DEF IsLine

LEMMA LineFacts ==
  ASSUME NEW E, IsFiniteSet(E), NEW R, StrictOrder(E, R), NEW s, IsLine(E, R, s)
  PROVE  /\ Cardinality(E) \in Nat /\ DOMAIN s = 1..Cardinality(E)
         /\ \A i \in DOMAIN s : s[i] \in E
         /\ \A i, j \in DOMAIN s : s[i] = s[j] => i = j
         /\ \A p \in E : \E i \in DOMAIN s : s[i] = p
<1>1. PICK N \in Nat : N = Cardinality(E)
  BY FS_CardinalityType
<1>2. s \in [1..N -> E] /\ DOMAIN s = 1..N
  BY <1>1 DEF IsLine
<1>3. ASSUME NEW i \in 1..N, NEW j \in 1..N, s[i] = s[j] PROVE i = j
  <2>1. <<s[i], s[j]>> \notin R /\ <<s[j], s[i]>> \notin R
    BY <1>2, <1>3 DEF StrictOrder
  <2>2. ~(i < j) /\ ~(j < i)
    BY <1>2, <2>1 DEF IsLine
  <2> QED
    BY <2>2
<1>4. s \in Injection(1..N, E)
  BY <1>2, <1>3 DEF Injection, IsInjective
<1>5. IsFiniteSet(1..N) /\ Cardinality(1..N) = N
  BY FS_Interval
<1>6. s \in Surjection(1..N, E)
  BY <1>1, <1>4, <1>5, FS_Injection
<1> QED
  BY <1>1, <1>2, <1>3, <1>6 DEF Surjection

-----------------------------------------------------------------------------
(* Fractions *)

LEMMA Scaled ==
  ASSUME NEW a \in Int, NEW b \in Int, NEW w \in Int, w > 0
  PROVE  a > b <=> a * w > b * w
  OBVIOUS

(* What is above, and what is not below, carries over. *)
LEMMA AboveFacts ==
  ASSUME NEW a \in Int, NEW b \in Int, NEW c \in Int, NEW k \in Int, NEW m \in Int, NEW n \in Int,
         k > 0, m > 0, n > 0
  PROVE  /\ a * m > b * k /\ ~(c * m > b * n) => a * n > c * k
         /\ ~(b * k > a * m) /\ b * n > c * m => a * n > c * k
         /\ ~(b * k > a * m) /\ ~(c * m > b * n) => ~(c * k > a * n)
<1>1. /\ a * m \in Int /\ b * k \in Int /\ c * m \in Int /\ b * n \in Int
      /\ a * n \in Int /\ c * k \in Int
  OBVIOUS
<1>2. /\ a * m > b * k <=> (a * m) * n > (b * k) * n
      /\ b * k > a * m <=> (b * k) * n > (a * m) * n
  BY <1>1, Scaled
<1>3. /\ c * m > b * n <=> (c * m) * k > (b * n) * k
      /\ b * n > c * m <=> (b * n) * k > (c * m) * k
  BY <1>1, Scaled
<1>4. /\ a * n > c * k <=> (a * n) * m > (c * k) * m
      /\ c * k > a * n <=> (c * k) * m > (a * n) * m
  BY <1>1, Scaled
<1>5. /\ (a * m) * n = (a * n) * m
      /\ (b * k) * n = (b * n) * k
      /\ (c * m) * k = (c * k) * m
  OBVIOUS
<1>6. PICK x \in Int, y \in Int, z \in Int :
        x = (a * m) * n /\ y = (b * k) * n /\ z = (c * m) * k
  OBVIOUS
<1> QED
  BY <1>2, <1>3, <1>4, <1>5, <1>6
-----------------------------------------------------------------------------
(* The extremes of a set of integers. *)
LEMMA Greatest ==
  ASSUME NEW S, IsFiniteSet(S), S \subseteq Int, S # {}
  PROVE  Max(S) \in S /\ \A y \in S : y <= Max(S)
<1>r. PICK R : R = {w \in S \X S : w[1] < w[2]}
  OBVIOUS
<1>1. \A p, q \in S : <<p, q>> \in R <=> p < q
  BY <1>r
<1>2. StrictOrder(S, R)
  <2>1. \A p \in S : <<p, p>> \notin R
    BY <1>1
  <2>2. \A p, q \in S : p # q => <<p, q>> \in R \/ <<q, p>> \in R
    BY <1>1
  <2>3. \A p, q, r \in S : <<p, q>> \in R /\ <<q, r>> \in R => <<p, r>> \in R
    BY <1>1
  <2> QED
    BY <2>1, <2>2, <2>3 DEF StrictOrder
<1>3. PICK rank : rank = [p \in S |-> Cardinality(Earlier(S, R, p))]
  OBVIOUS
<1>p. Placing(S, R, rank)
  BY <1>2, <1>3, PlacesTaken
<1>4. /\ Cardinality(S) \in Nat
      /\ \A p \in S : rank[p] \in 0..(Cardinality(S) - 1)
      /\ \A p, q \in S : <<p, q>> \in R <=> rank[p] < rank[q]
      /\ \A k \in 0..(Cardinality(S) - 1) : \E p \in S : rank[p] = k
  BY <1>p DEF Placing
<1>5. Cardinality(S) # 0
  BY FS_EmptySet
<1>6. PICK x \in S : rank[x] = Cardinality(S) - 1
  <2>1. Cardinality(S) - 1 \in 0..(Cardinality(S) - 1)
    BY <1>4, <1>5
  <2> QED
    BY <1>4, <2>1
<1>7. ASSUME NEW y \in S PROVE x >= y
  <2>1. rank[y] \in 0..(Cardinality(S) - 1) /\ rank[x] = Cardinality(S) - 1
    BY <1>4, <1>6
  <2>2. ~(rank[x] < rank[y])
    BY <1>4, <2>1
  <2>3. ~(x < y) /\ x \in Int /\ y \in Int
    BY <1>1, <1>4, <2>2
  <2> QED
    BY <2>3
<1>8. Max(S) \in S /\ \A y \in S : Max(S) >= y
  BY <1>7, Zenon DEF Max
<1> QED
  BY <1>8

LEMMA Least ==
  ASSUME NEW S, S \subseteq Nat, S # {}
  PROVE  Min(S) \in S /\ \A y \in S : Min(S) <= y
<1>1. \E x \in S : \A y \in S : x <= y
  BY LeastNatural
<1> QED
  BY <1>1, Zenon DEF Min

-----------------------------------------------------------------------------
(* Graphs *)

(* What a plan's graph is: finitely many nodes, each with a list.          *)
IsGraph(graph) ==
  /\ IsFiniteSet(DOMAIN graph)
  /\ DOMAIN graph \subseteq Int
  /\ \A n \in DOMAIN graph : graph[n] \in Seq(Int)

(* Counting the entries of a list.                                         *)
LEMMA EntriesFinite ==
  ASSUME NEW graph, IsGraph(graph), NEW n \in DOMAIN graph, NEW ids
  PROVE  IsFiniteSet({i \in DOMAIN graph[n] : graph[n][i] \in ids})
<1>1. graph[n] \in Seq(Int)
  BY DEF IsGraph
<1>2. Len(graph[n]) \in Nat /\ DOMAIN graph[n] = 1..Len(graph[n])
  BY <1>1, LenProperties
<1>3. IsFiniteSet(DOMAIN graph[n])
  BY <1>2, FS_Interval
<1> QED
  BY <1>3, FS_Subset

LEMMA EntriesNatural ==
  ASSUME NEW graph, IsGraph(graph), NEW n \in DOMAIN graph, NEW ids
  PROVE  EntriesIn(graph, n, ids) \in Nat
BY EntriesFinite, FS_CardinalityType DEF EntriesIn

LEMMA NoEntries ==
  ASSUME NEW graph, IsGraph(graph), NEW n \in DOMAIN graph, NEW ids
  PROVE  EntriesIn(graph, n, ids) = 0 <=> Range(graph[n]) \cap ids = {}
<1> DEFINE At == {i \in DOMAIN graph[n] : graph[n][i] \in ids}
<1>1. Cardinality(At) = 0 <=> At = {}
  BY EntriesFinite, FS_EmptySet
<1>2. At = {} <=> Range(graph[n]) \cap ids = {}
  BY DEF Range
<1> QED
  BY <1>1, <1>2 DEF EntriesIn

LEMMA EntryCounts ==
  ASSUME NEW graph, IsGraph(graph), NEW n \in DOMAIN graph, NEW A, NEW B \in SUBSET A
  PROVE  EntriesIn(graph, n, A \ B) = EntriesIn(graph, n, A) - EntriesIn(graph, n, B)
<1> DEFINE At(ids) == {i \in DOMAIN graph[n] : graph[n][i] \in ids}
<1>1. \A ids : IsFiniteSet(At(ids)) /\ Cardinality(At(ids)) \in Nat
  BY EntriesFinite, FS_CardinalityType
<1>2. \A ids : EntriesIn(graph, n, ids) = Cardinality(At(ids))
  BY DEF EntriesIn
<1>5. Cardinality(At(A)) = Cardinality(At(A \ B)) + Cardinality(At(B))
  <2>1. At(A) = At(A \ B) \cup At(B) /\ At(A \ B) \cap At(B) = {}
    OBVIOUS
  <2>2. Cardinality(At(A \ B) \cup At(B))
          = Cardinality(At(A \ B)) + Cardinality(At(B)) - Cardinality(At(A \ B) \cap At(B))
    BY <1>1, FS_Union
  <2>3. Cardinality(At(A \ B) \cap At(B)) = 0
    BY <2>1, FS_EmptySet
  <2> HIDE DEF At
  <2> QED
    BY <1>1, <2>1, <2>2, <2>3
<1> HIDE DEF At
<1> QED
  BY <1>1, <1>2, <1>5

-----------------------------------------------------------------------------
(* The turns of the loop *)

Visits(graph) ==
  [left : [DOMAIN graph -> Int], current : SUBSET DOMAIN graph,
   levels : Seq(SUBSET DOMAIN graph)]

TurnAfter(graph, s) == IF s.current = {} THEN s ELSE VisitLevel(graph, s)

LEMMA TurnsStayVisits ==
  ASSUME NEW graph, IsGraph(graph)
  PROVE  /\ StartVisit(graph) \in Visits(graph)
         /\ \A s \in Visits(graph) : TurnAfter(graph, s) \in Visits(graph)
<1> DEFINE D == DOMAIN graph
<1>1. \A n \in D : \A ids \in SUBSET D : EntriesIn(graph, n, ids) \in Int
  BY EntriesNatural
<1>2. StartVisit(graph) \in Visits(graph)
  <2> DEFINE left == [n \in D |-> EntriesIn(graph, n, D)]
             start == [left |-> left, current |-> {n \in D : left[n] = 0}, levels |-> << >>]
  <2>1. left \in [D -> Int]
    BY <1>1
  <2> HIDE DEF left
  <2>2. << >> \in Seq(SUBSET D)
    BY EmptySeq
  <2>3. start \in Visits(graph)
    BY <2>1, <2>2 DEF Visits
  <2> QED
    BY <2>3 DEF StartVisit, left
<1>3. ASSUME NEW s \in Visits(graph)
      PROVE  VisitLevel(graph, s) \in Visits(graph)
  <2> DEFINE left == [n \in D |-> s.left[n] - EntriesIn(graph, n, s.current)]
             next == [left |-> left,
                      current |-> {n \in D : s.left[n] > 0 /\ left[n] = 0},
                      levels |-> Append(s.levels, s.current)]
  <2>1. s.left \in [D -> Int] /\ s.current \in SUBSET D /\ s.levels \in Seq(SUBSET D)
    BY DEF Visits
  <2>2. left \in [D -> Int]
    BY <1>1, <2>1
  <2> HIDE DEF left
  <2>3. Append(s.levels, s.current) \in Seq(SUBSET D)
    BY <2>1, AppendProperties
  <2>4. next \in Visits(graph)
    BY <2>2, <2>3 DEF Visits
  <2> QED
    BY <2>4 DEF VisitLevel, left
<1> QED
  BY <1>2, <1>3 DEF TurnAfter

LEMMA TurnSteps ==
  ASSUME NEW graph, IsGraph(graph), NEW N, N = Cardinality(DOMAIN graph)
  PROVE  /\ N \in Nat
         /\ \A k \in 0..N : Turns(graph)[k] \in Visits(graph)
         /\ Turns(graph)[0] = StartVisit(graph)
         /\ \A k \in 1..N : Turns(graph)[k] = TurnAfter(graph, Turns(graph)[k - 1])
<1> DEFINE X == Visits(graph)
           start == StartVisit(graph)
           step == [p \in (1..N) \X X |-> TurnAfter(graph, p[2])]
           Solves(f) == f = [k \in 0..N |-> IF k = 0 THEN start ELSE TurnAfter(graph, f[k - 1])]
           T == Turns(graph)
<1>1. N \in Nat
  BY FS_CardinalityType DEF IsGraph
<1>2. start \in X /\ \A x \in X : TurnAfter(graph, x) \in X
  BY TurnsStayVisits
<1>3. \A k \in 1..N : \A x \in X : step[<<k, x>>] = TurnAfter(graph, x)
  OBVIOUS
<1>4. T = CHOOSE f : Solves(f)
  BY DEF Turns, TurnAfter
<1>5. step \in [(1..N) \X X -> X]
  BY <1>2
<1> HIDE DEF X, start, step, T
<1>6. PICK f : Recurs(N, X, start, step, f)
  BY <1>1, <1>2, <1>5, Recursion
<1>7. Solves(f)
  <2>1. \A k \in 0..N : f[k] = IF k = 0 THEN start ELSE TurnAfter(graph, f[k - 1])
    <3> SUFFICES ASSUME NEW k \in 0..N, k # 0
                 PROVE  f[k] = TurnAfter(graph, f[k - 1])
      BY <1>6 DEF Recurs
    <3>1. k \in 1..N /\ k - 1 \in 0..N
      BY <1>1
    <3> QED
      BY <1>3, <1>6, <3>1 DEF Recurs
  <2>2. f = [k \in 0..N |-> f[k]]
    BY <1>6 DEF Recurs
  <2> QED
    BY <2>1, <2>2
<1>8. Solves(T)
  BY <1>4, <1>7
<1>9. T[0] = start
  <2>1. 0 \in 0..N
    BY <1>1
  <2> QED
    BY <1>8, <2>1
<1>10. ASSUME NEW k \in 1..N
       PROVE  T[k] = TurnAfter(graph, T[k - 1])
  <2>1. k \in 0..N /\ k # 0
    BY <1>1
  <2> QED
    BY <1>8, <2>1
<1>11. \A k \in 0..N : T[k] \in X
  <2> DEFINE S == {k \in 0..N : T[k] \in X}
  <2>1. 0 \in S
    BY <1>1, <1>2, <1>9
  <2>2. ASSUME NEW k \in S, k < N
        PROVE  k + 1 \in S
    <3>1. k + 1 \in 1..N /\ (k + 1) - 1 = k /\ k + 1 \in 0..N /\ T[k] \in X
      BY <1>1, <2>2
    <3>2. T[k + 1] = TurnAfter(graph, T[k])
      BY <1>10, <3>1
    <3> QED
      BY <1>2, <3>1, <3>2
  <2>3. 0..N \subseteq S
    <3> HIDE DEF S
    <3> QED
      BY <1>1, <2>1, <2>2, UpTo
  <2> QED
    BY <2>3
<1> QED
  BY <1>1, <1>9, <1>10, <1>11 DEF T, X, start

-----------------------------------------------------------------------------
(* Levels *)

(* The nodes of the first k - 1 levels. *)
Before(levels, k) == UNION {levels[j] : j \in 1..(k - 1)}
Visited(levels) == Before(levels, Len(levels) + 1)

(* The nodes outside ids all of whose dependencies are in ids.             *)
Supported(graph, ids) ==
  {n \in DOMAIN graph \ ids : Range(graph[n]) \cap DOMAIN graph \subseteq ids}

(* Every level is exactly what the levels before it support.               *)
Layered(graph, levels) ==
  /\ levels \in Seq(SUBSET DOMAIN graph)
  /\ \A k \in 1..Len(levels) :
       levels[k] # {} /\ levels[k] = Supported(graph, Before(levels, k))

TurnHolds(graph, s) ==
  /\ Layered(graph, s.levels)
  /\ s.current = Supported(graph, Visited(s.levels))
  /\ \A n \in DOMAIN graph :
       /\ s.left[n] = EntriesIn(graph, n, DOMAIN graph \ Visited(s.levels))
       /\ s.left[n] = 0 <=> n \in Visited(s.levels) \cup s.current

LEMMA BeforeFacts ==
  ASSUME NEW X, NEW levels \in Seq(X)
  PROVE  /\ Len(levels) \in Nat
         /\ Before(levels, 1) = {}
         /\ \A k \in 1..Len(levels) : Before(levels, k + 1) = Before(levels, k) \cup levels[k]
         /\ \A j, k \in 1..(Len(levels) + 1) : j <= k => Before(levels, j) \subseteq Before(levels, k)
         /\ \A j, k \in 1..Len(levels) : j < k => levels[j] \subseteq Before(levels, k)
<1>1. Len(levels) \in Nat
  BY LenProperties
<1>2. Before(levels, 1) = {}
  BY DEF Before
<1>4. ASSUME NEW k \in 1..Len(levels)
      PROVE  Before(levels, k + 1) = Before(levels, k) \cup levels[k]
  <2>1. 1..((k + 1) - 1) = (1..(k - 1)) \cup {k}
    BY <1>1
  <2> QED
    BY <2>1 DEF Before
<1>5. ASSUME NEW j \in 1..(Len(levels) + 1), NEW k \in 1..(Len(levels) + 1), j <= k
      PROVE  Before(levels, j) \subseteq Before(levels, k)
  <2>1. 1..(j - 1) \subseteq 1..(k - 1)
    BY <1>1, <1>5
  <2> QED
    BY <2>1 DEF Before
<1>6. ASSUME NEW j \in 1..Len(levels), NEW k \in 1..Len(levels), j < k
      PROVE  levels[j] \subseteq Before(levels, k)
  <2>1. j \in 1..(k - 1)
    BY <1>1, <1>6
  <2> QED
    BY <2>1 DEF Before
<1> QED
  BY <1>1, <1>2, <1>4, <1>5, <1>6

LEMMA BeforeInside ==
  ASSUME NEW D, NEW levels \in Seq(SUBSET D), NEW k \in 1..(Len(levels) + 1)
  PROVE  Before(levels, k) \subseteq D
<1>1. Len(levels) \in Nat /\ \A j \in 1..Len(levels) : levels[j] \in SUBSET D
  BY LenProperties, ElementOfSeq
<1>2. \A j \in 1..(k - 1) : j \in 1..Len(levels)
  BY <1>1
<1> QED
  BY <1>1, <1>2 DEF Before

LEMMA VisitedGrows ==
  ASSUME NEW X, NEW levels \in Seq(X), NEW more \in Seq(X),
         Len(more) = Len(levels) + 1,
         \A k \in 1..Len(levels) : more[k] = levels[k]
  PROVE  /\ \A k \in 1..(Len(levels) + 1) : Before(more, k) = Before(levels, k)
         /\ Visited(more) = Visited(levels) \cup more[Len(levels) + 1]
<1> DEFINE n == Len(levels)
<1>1. n \in Nat /\ Len(more) = n + 1 /\ \A k \in 1..n : more[k] = levels[k]
  BY LenProperties
<1>2. ASSUME NEW k \in 1..(n + 1)
      PROVE  Before(more, k) = Before(levels, k)
  <2>1. \A j \in 1..(k - 1) : j \in 1..n
    BY <1>1
  <2>2. \A j \in 1..(k - 1) : more[j] = levels[j]
    BY <1>1, <2>1
  <2> QED
    BY <2>2 DEF Before
<1>3. Visited(more) = Visited(levels) \cup more[n + 1]
  <2>1. n + 1 \in 1..Len(more) /\ n + 1 \in 1..(n + 1)
    BY <1>1
  <2>3. \A k \in 1..Len(more) : Before(more, k + 1) = Before(more, k) \cup more[k]
    BY <1>1, BeforeFacts
  <2>2. Before(more, (n + 1) + 1) = Before(more, n + 1) \cup more[n + 1]
    BY <2>1, <2>3
  <2> QED
    BY <1>1, <1>2, <2>1, <2>2 DEF Visited
<1> QED
  BY <1>1, <1>2, <1>3

LEMMA StartHolds ==
  ASSUME NEW graph, IsGraph(graph)
  PROVE  TurnHolds(graph, StartVisit(graph))
<1> DEFINE D == DOMAIN graph
           s == StartVisit(graph)
<1>1. /\ s.levels = << >>
      /\ \A n \in D : s.left[n] = EntriesIn(graph, n, D)
      /\ s.current = {n \in D : s.left[n] = 0}
  BY DEF StartVisit
<1>2. Len(s.levels) = 0 /\ s.levels \in Seq(SUBSET D)
  BY <1>1, EmptySeq
<1>3. Visited(s.levels) = {}
  BY <1>2 DEF Visited, Before
<1>4. \A n \in D : EntriesIn(graph, n, D) = 0 <=> Range(graph[n]) \cap D = {}
  BY NoEntries
<1> HIDE DEF s
<1>5. s.current = Supported(graph, {})
  BY <1>1, <1>4 DEF Supported
<1>6. D \ {} = D
  OBVIOUS
<1>7. Layered(graph, s.levels)
  BY <1>2 DEF Layered
<1>8. \A n \in D : s.left[n] = 0 <=> n \in {} \cup s.current
  BY <1>1
<1> QED
  BY <1>1, <1>3, <1>5, <1>6, <1>7, <1>8 DEF TurnHolds, s

LEMMA VisitHolds ==
  ASSUME NEW graph, IsGraph(graph), NEW s \in Visits(graph), TurnHolds(graph, s),
         s.current # {}
  PROVE  /\ TurnHolds(graph, VisitLevel(graph, s))
         /\ Visited(VisitLevel(graph, s).levels) = Visited(s.levels) \cup s.current
<1> DEFINE D == DOMAIN graph
           V == Visited(s.levels)
           W == V \cup s.current
           t == VisitLevel(graph, s)
<1>1. /\ t.levels = Append(s.levels, s.current)
      /\ \A n \in D : t.left[n] = s.left[n] - EntriesIn(graph, n, s.current)
      /\ t.current = {n \in D : s.left[n] > 0 /\ t.left[n] = 0}
  BY DEF VisitLevel
<1>2. s.levels \in Seq(SUBSET D) /\ s.current \in SUBSET D
  BY DEF Visits
<1>3. /\ t.levels \in Seq(SUBSET D)
      /\ Len(s.levels) \in Nat /\ Len(t.levels) = Len(s.levels) + 1
      /\ \A k \in 1..Len(s.levels) : t.levels[k] = s.levels[k]
      /\ t.levels[Len(s.levels) + 1] = s.current
      /\ \A k \in 1..(Len(s.levels) + 1) : Before(t.levels, k) = Before(s.levels, k)
      /\ Visited(t.levels) = W
  <2> DEFINE X == SUBSET D
             levels == s.levels
             more == t.levels
             c == s.current
  <2>1. levels \in Seq(X) /\ c \in X /\ more = Append(levels, c)
    BY <1>1, <1>2
  <2> HIDE DEF t, X, levels, more, c
  <2>2. /\ more \in Seq(X)
        /\ Len(levels) \in Nat /\ Len(more) = Len(levels) + 1
        /\ \A k \in 1..Len(levels) : more[k] = levels[k]
        /\ more[Len(levels) + 1] = c
        /\ \A k \in 1..(Len(levels) + 1) : Before(more, k) = Before(levels, k)
        /\ Visited(more) = Visited(levels) \cup c
    <3>1. /\ more \in Seq(X)
          /\ Len(levels) \in Nat /\ Len(more) = Len(levels) + 1
          /\ \A k \in 1..Len(levels) : more[k] = levels[k]
          /\ more[Len(levels) + 1] = c
      BY <2>1, AppendProperties, LenProperties
    <3>2. \A k \in 1..(Len(levels) + 1) : Before(more, k) = Before(levels, k)
      BY <2>1, <3>1, VisitedGrows
    <3>3. Visited(more) = Visited(levels) \cup more[Len(levels) + 1]
      BY <2>1, <3>1, VisitedGrows
    <3> QED
      BY <3>1, <3>2, <3>3
  <2> QED
    BY <2>2 DEF X, levels, more, c
<1> HIDE DEF t
<1>4. s.current = Supported(graph, V) /\ Layered(graph, s.levels)
  BY DEF TurnHolds
<1>5. Layered(graph, t.levels)
  <2>1. ASSUME NEW k \in 1..Len(s.levels)
        PROVE  t.levels[k] # {} /\ t.levels[k] = Supported(graph, Before(t.levels, k))
    <3>1. k \in 1..(Len(s.levels) + 1)
      BY <1>3
    <3> QED
      BY <1>3, <1>4, <3>1 DEF Layered
  <2>2. /\ t.levels[Len(s.levels) + 1] # {}
        /\ t.levels[Len(s.levels) + 1]
             = Supported(graph, Before(t.levels, Len(s.levels) + 1))
    <3>1. Len(s.levels) + 1 \in 1..(Len(s.levels) + 1)
      BY <1>3
    <3> QED
      BY <1>3, <1>4, <3>1 DEF Visited
  <2>3. \A k \in 1..Len(t.levels) : k \in 1..Len(s.levels) \/ k = Len(s.levels) + 1
    BY <1>3
  <2> QED
    BY <1>3, <2>1, <2>2, <2>3 DEF Layered
<1>6. s.current \in SUBSET (D \ V) /\ (D \ V) \ s.current = D \ W
  BY <1>2, <1>4 DEF Supported
<1> HIDE DEF V
<1>7. ASSUME NEW n \in D
      PROVE  /\ s.left[n] = EntriesIn(graph, n, D \ V) /\ s.left[n] \in Nat
             /\ s.left[n] = 0 <=> n \in V \cup s.current
             /\ t.left[n] = EntriesIn(graph, n, D \ W) /\ t.left[n] \in Nat
             /\ s.left[n] = 0 <=> Range(graph[n]) \cap (D \ V) = {}
             /\ t.left[n] = 0 <=> Range(graph[n]) \cap (D \ W) = {}
  <2>1. s.left[n] = EntriesIn(graph, n, D \ V) /\ (s.left[n] = 0 <=> n \in V \cup s.current)
    BY DEF TurnHolds, V
  <2>2. EntriesIn(graph, n, D \ W) = EntriesIn(graph, n, D \ V) - EntriesIn(graph, n, s.current)
    BY <1>6, EntryCounts
  <2>3. t.left[n] = EntriesIn(graph, n, D \ W)
    BY <1>1, <2>1, <2>2
  <2>5. /\ EntriesIn(graph, n, D \ V) = 0 <=> Range(graph[n]) \cap (D \ V) = {}
        /\ EntriesIn(graph, n, D \ W) = 0 <=> Range(graph[n]) \cap (D \ W) = {}
    BY NoEntries
  <2>6. EntriesIn(graph, n, D \ V) \in Nat /\ EntriesIn(graph, n, D \ W) \in Nat
    BY EntriesNatural
  <2> QED
    BY <2>1, <2>3, <2>5, <2>6
<1>8. t.current = Supported(graph, W)
  <2>1. \A n \in D : s.left[n] > 0 <=> n \notin W
    BY <1>7
  <2>2. \A n \in D : t.left[n] = 0 <=> Range(graph[n]) \cap D \subseteq W
    BY <1>7
  <2> QED
    BY <1>1, <2>1, <2>2 DEF Supported
<1>9. \A n \in D : t.left[n] = 0 <=> n \in W \cup t.current
  <2>1. \A n \in W \cap D : t.left[n] = 0
    BY <1>7
  <2>2. \A n \in D : t.left[n] = 0 /\ n \notin W => n \in t.current
    BY <1>1, <1>7
  <2> QED
    BY <1>1, <2>1, <2>2
<1> QED
  BY <1>3, <1>5, <1>7, <1>8, <1>9 DEF TurnHolds, t, V

LEMMA TurnsHold ==
  ASSUME NEW graph, IsGraph(graph), NEW N, N = Cardinality(DOMAIN graph)
  PROVE  /\ TurnHolds(graph, Turns(graph)[N])
         /\ Turns(graph)[N].current = {}
         /\ Turns(graph)[N] \in Visits(graph)
<1> DEFINE D == DOMAIN graph
           T == Turns(graph)
           V(k) == Visited(T[k].levels)
           S == {k \in 0..N : /\ TurnHolds(graph, T[k])
                              /\ T[k].current = {} \/ Cardinality(V(k)) >= k}
<1>1. /\ N \in Nat /\ N = Cardinality(D) /\ IsFiniteSet(D)
      /\ \A k \in 0..N : T[k] \in Visits(graph)
      /\ T[0] = StartVisit(graph)
      /\ \A k \in 1..N : T[k] = TurnAfter(graph, T[k - 1])
  BY TurnSteps DEF IsGraph
<1> HIDE DEF T
<1>2. ASSUME NEW k \in 0..N
      PROVE  /\ V(k) \in SUBSET D /\ IsFiniteSet(V(k)) /\ Cardinality(V(k)) \in Nat
             /\ Cardinality(V(k)) <= N /\ (Cardinality(V(k)) = N => V(k) = D)
  <2>1. T[k].levels \in Seq(SUBSET D) /\ Len(T[k].levels) + 1 \in 1..(Len(T[k].levels) + 1)
    <3>1. T[k].levels \in Seq(SUBSET D)
      BY <1>1 DEF Visits
    <3>2. Len(T[k].levels) \in Nat
      BY <3>1, LenProperties
    <3> QED
      BY <3>1, <3>2
  <2>2. V(k) \in SUBSET D
    BY <2>1, BeforeInside DEF Visited
  <2> QED
    BY <1>1, <2>2, FS_Subset, FS_CardinalityType
<1>3. 0 \in S
  <2>1. 0 \in 0..N /\ Cardinality(V(0)) >= 0
    BY <1>1, <1>2
  <2>2. TurnHolds(graph, T[0])
    BY <1>1, StartHolds
  <2> QED
    BY <2>1, <2>2
<1>4. ASSUME NEW k \in S, k < N
      PROVE  k + 1 \in S
  <2>1. /\ k \in 0..N /\ k + 1 \in 1..N /\ (k + 1) - 1 = k /\ k + 1 \in 0..N
        /\ TurnHolds(graph, T[k]) /\ (T[k].current = {} \/ Cardinality(V(k)) >= k)
    BY <1>1, <1>4
  <2>2. T[k + 1] = TurnAfter(graph, T[k]) /\ T[k] \in Visits(graph)
    BY <1>1, <2>1
  <2>3. CASE T[k].current = {}
    BY <2>1, <2>2, <2>3 DEF TurnAfter
  <2>4. CASE T[k].current # {}
    <3>1. T[k + 1] = VisitLevel(graph, T[k])
      BY <2>2, <2>4 DEF TurnAfter
    <3>2. TurnHolds(graph, T[k + 1]) /\ V(k + 1) = V(k) \cup T[k].current
      BY <2>1, <2>2, <2>4, <3>1, VisitHolds
    <3>3. V(k) # V(k + 1) /\ V(k) \in SUBSET V(k + 1)
      BY <2>1, <2>4, <3>2 DEF TurnHolds, Supported
    <3>4. IsFiniteSet(V(k)) /\ IsFiniteSet(V(k + 1))
          /\ Cardinality(V(k)) \in Nat /\ Cardinality(V(k + 1)) \in Nat
      BY <1>2, <2>1
    <3> HIDE DEF V
    <3>5. Cardinality(V(k)) <= Cardinality(V(k + 1)) /\ Cardinality(V(k)) # Cardinality(V(k + 1))
      BY <3>3, <3>4, FS_Subset
    <3>6. Cardinality(V(k + 1)) >= k + 1
      BY <2>1, <2>4, <3>4, <3>5
    <3> QED
      BY <2>1, <3>2, <3>6
  <2> QED
    BY <2>3, <2>4
<1>5. N \in S
  <2> HIDE DEF S
  <2>1. 0..N \subseteq S
    BY <1>1, <1>3, <1>4, UpTo
  <2> QED
    BY <1>1, <2>1
<1>6. TurnHolds(graph, T[N]) /\ (T[N].current = {} \/ Cardinality(V(N)) >= N) /\ N \in 0..N
  BY <1>1, <1>5
<1>7. T[N].current = {}
  <2>1. CASE Cardinality(V(N)) >= N
    <3>1. V(N) = D
      BY <1>1, <1>2, <1>6, <2>1
    <3> QED
      BY <1>6, <3>1 DEF TurnHolds, Supported
  <2> QED
    BY <1>6, <2>1
<1> QED
  BY <1>1, <1>6, <1>7 DEF T

(* stable_topological_levels: every level holds exactly the nodes whose    *)
(* known dependencies are all in earlier levels, none of them met before;  *)
(* and the loop ends only when the visited nodes support no other node.    *)
THEOREM LevelsLayered ==
  ASSUME NEW graph, IsGraph(graph)
  PROVE  /\ Layered(graph, Levels(graph))
         /\ Supported(graph, Visited(Levels(graph))) = {}
<1>1. TurnHolds(graph, Turns(graph)[Cardinality(DOMAIN graph)])
      /\ Turns(graph)[Cardinality(DOMAIN graph)].current = {}
  BY TurnsHold
<1> QED
  BY <1>1 DEF Levels, TurnHolds

LEMMA CyclicFacts ==
  ASSUME NEW graph, IsGraph(graph)
  PROVE  CyclicNodes(graph) = DOMAIN graph \ Visited(Levels(graph))
<1> DEFINE L == Levels(graph)
<1>1. L \in Seq(SUBSET DOMAIN graph)
  BY LevelsLayered DEF Layered
<1>2. Len(L) \in Nat /\ DOMAIN L = 1..Len(L) /\ (Len(L) + 1) - 1 = Len(L)
  BY <1>1, LenProperties
<1> HIDE DEF L
<1>3. UNION Range(L) = Visited(L)
  BY <1>2 DEF Range, Visited, Before
<1> QED
  BY <1>3 DEF CyclicNodes, L

(* The second component: what is reported as cyclic always waits for       *)
(* something that is reported as cyclic too.                               *)
THEOREM CyclicNodesWait ==
  ASSUME NEW graph, IsGraph(graph), NEW n \in CyclicNodes(graph)
  PROVE  Range(graph[n]) \cap CyclicNodes(graph) # {}
BY LevelsLayered, CyclicFacts DEF Supported

(* Where the nodes of the levels are: each in one level, right after the   *)
(* last of what it depends on.                                             *)
LevelsHold(graph, L) ==
  /\ L \in Seq(SUBSET DOMAIN graph) /\ Len(L) \in Nat /\ DOMAIN L = 1..Len(L)
  /\ \A k \in 1..Len(L) : L[k] # {} /\ L[k] \subseteq DOMAIN graph
  /\ \A j, k \in 1..Len(L) : \A n \in L[j] : n \in L[k] => j = k
  /\ \A k \in 1..Len(L) : \A n \in L[k] :
       /\ \A d \in Range(graph[n]) \cap DOMAIN graph : \E j \in 1..(k - 1) : d \in L[j]
       /\ k > 1 => \E d \in Range(graph[n]) : d \in L[k - 1]

LEMMA LevelFacts ==
  ASSUME NEW graph, IsGraph(graph), NEW L, L = Levels(graph)
  PROVE  LevelsHold(graph, L)
<1> DEFINE D == DOMAIN graph
<1>1. /\ L \in Seq(SUBSET D)
      /\ \A k \in 1..Len(L) : L[k] # {} /\ L[k] = Supported(graph, Before(L, k))
  BY LevelsLayered DEF Layered
<1>2. Len(L) \in Nat /\ DOMAIN L = 1..Len(L)
  BY <1>1, LenProperties
<1>3. /\ \A k \in 1..Len(L) : Before(L, k + 1) = Before(L, k) \cup L[k]
      /\ \A j, k \in 1..Len(L) : j < k => L[j] \subseteq Before(L, k)
  BY <1>1, BeforeFacts
<1>4. ASSUME NEW k \in 1..Len(L)
      PROVE  /\ L[k] \subseteq D /\ L[k] \cap Before(L, k) = {}
             /\ \A n \in L[k] : Range(graph[n]) \cap D \subseteq Before(L, k)
  BY <1>1 DEF Supported
<1>5. ASSUME NEW j \in 1..Len(L), NEW k \in 1..Len(L), NEW n \in L[j], n \in L[k]
      PROVE  j = k
  <2>1. ~(j < k) /\ ~(k < j)
    BY <1>3, <1>4, <1>5
  <2> QED
    BY <1>2, <2>1
<1>6. ASSUME NEW k \in 1..Len(L), NEW n \in L[k], NEW d \in Range(graph[n]) \cap D
      PROVE  \E j \in 1..(k - 1) : d \in L[j]
  BY <1>4 DEF Before
<1>7. ASSUME NEW k \in 1..Len(L), NEW n \in L[k], k > 1
      PROVE  \E d \in Range(graph[n]) : d \in L[k - 1]
  <2>1. k - 1 \in 1..Len(L) /\ (k - 1) + 1 = k /\ k - 1 < k
    BY <1>2, <1>7
  <2>2. Before(L, k) = Before(L, k - 1) \cup L[k - 1]
    BY <1>3, <2>1
  <2>3. n \in D /\ n \notin L[k - 1] /\ n \notin Before(L, k)
    BY <1>4, <1>5, <2>1
  <2>4. n \notin Supported(graph, Before(L, k - 1)) /\ n \notin Before(L, k - 1)
    BY <1>1, <2>1, <2>2, <2>3
  <2>5. \E d \in Range(graph[n]) \cap D : d \notin Before(L, k - 1)
    BY <2>3, <2>4 DEF Supported
  <2> QED
    BY <1>4, <2>2, <2>5
<1> QED
  BY <1>1, <1>2, <1>4, <1>5, <1>6, <1>7 DEF LevelsHold

-----------------------------------------------------------------------------
(* The schedule *)

(* After everything it depends on, in a sequence of nodes. *)
InOrder(graph, w) ==
  \A i \in 1..Len(w) :
    \A d \in Range(graph[w[i]]) \cap DOMAIN graph : \E j \in 1..(i - 1) : w[j] = d

Once(w) == \A i, j \in 1..Len(w) : w[i] = w[j] => i = j

WalkHolds(graph, w, ids) ==
  /\ w \in Seq(DOMAIN graph)
  /\ Range(w) = ids
  /\ Once(w)
  /\ InOrder(graph, w)

LEMMA RangeFacts ==
  ASSUME NEW X, NEW s \in Seq(X)
  PROVE  /\ Len(s) \in Nat /\ DOMAIN s = 1..Len(s)
         /\ \A i \in 1..Len(s) : s[i] \in Range(s)
         /\ \A x \in Range(s) : x \in X /\ \E i \in 1..Len(s) : s[i] = x
<1>1. Len(s) \in Nat /\ DOMAIN s = 1..Len(s) /\ \A i \in 1..Len(s) : s[i] \in X
  BY LenProperties, ElementOfSeq
<1> QED
  BY <1>1 DEF Range

LEMMA WalkLevel ==
  ASSUME NEW graph, IsGraph(graph), NEW ids, NEW w, WalkHolds(graph, w, ids),
         NEW level, level \subseteq DOMAIN graph, level \cap ids = {},
         \A n \in level : Range(graph[n]) \cap DOMAIN graph \subseteq ids,
         NEW s, s = Sorted(level), NEW more, more = w \o s
  PROVE  WalkHolds(graph, more, ids \cup level)
<1> DEFINE D == DOMAIN graph
<1>1. IsFiniteSet(level) /\ level \subseteq Int
  BY FS_Subset DEF IsGraph
<1>2. /\ s \in Seq(level) /\ Range(s) = level
      /\ \A i, j \in 1..Len(s) : s[i] = s[j] => i = j
  BY <1>1, SortedFacts
<1>3. s \in Seq(D) /\ w \in Seq(D) /\ Range(w) = ids /\ Once(w) /\ InOrder(graph, w)
  BY <1>2, SeqMonotonic DEF WalkHolds
<1>4. /\ Len(s) \in Nat /\ Len(w) \in Nat
      /\ \A i \in 1..Len(s) : s[i] \in level
      /\ \A x \in level : \E i \in 1..Len(s) : s[i] = x
      /\ \A i \in 1..Len(w) : w[i] \in ids
      /\ \A x \in ids : \E i \in 1..Len(w) : w[i] = x
  <2>3. Len(s) \in Nat /\ DOMAIN s = 1..Len(s) /\ Len(w) \in Nat /\ DOMAIN w = 1..Len(w)
    BY <1>3, LenProperties
  <2>1. /\ \A i \in 1..Len(s) : s[i] \in Range(s)
        /\ \A x \in Range(s) : \E i \in 1..Len(s) : s[i] = x
    BY <2>3, Zenon DEF Range
  <2>2. /\ \A i \in 1..Len(w) : w[i] \in Range(w)
        /\ \A x \in Range(w) : \E i \in 1..Len(w) : w[i] = x
    BY <2>3, Zenon DEF Range
  <2> QED
    BY <1>2, <1>3, <2>1, <2>2, <2>3
<1>5. /\ more \in Seq(D) /\ Len(more) = Len(w) + Len(s)
      /\ \A i \in 1..(Len(w) + Len(s)) :
           more[i] = IF i <= Len(w) THEN w[i] ELSE s[i - Len(w)]
  BY <1>3, ConcatProperties
<1>6. \A i \in 1..Len(w) : i \in 1..Len(more) /\ more[i] = w[i]
  BY <1>4, <1>5
<1>7. \A i \in 1..Len(s) : i + Len(w) \in 1..Len(more) /\ more[i + Len(w)] = s[i]
  <2> SUFFICES ASSUME NEW i \in 1..Len(s)
               PROVE  i + Len(w) \in 1..Len(more) /\ more[i + Len(w)] = s[i]
    OBVIOUS
  <2>1. i + Len(w) \in 1..(Len(w) + Len(s)) /\ ~(i + Len(w) <= Len(w)) /\ (i + Len(w)) - Len(w) = i
    BY <1>4
  <2> QED
    BY <1>5, <2>1
<1>8. \A i \in 1..Len(more) : i \in 1..Len(w) \/ (i > Len(w) /\ i - Len(w) \in 1..Len(s)
                                                   /\ more[i] = s[i - Len(w)])
  BY <1>4, <1>5
<1>9. Range(more) = ids \cup level
  <2>1. DOMAIN more = 1..Len(more)
    BY <1>5, LenProperties
  <2>2. \A i \in 1..Len(more) : more[i] \in ids \cup level
    BY <1>4, <1>6, <1>8
  <2>3. \A x \in ids \cup level : \E i \in 1..Len(more) : more[i] = x
    <3>1. \A x \in ids : \E i \in 1..Len(more) : more[i] = x
      BY <1>4, <1>6
    <3>2. ASSUME NEW x \in level
          PROVE  \E i \in 1..Len(more) : more[i] = x
      <4>1. PICK i \in 1..Len(s) : s[i] = x
        BY <1>4
      <4> QED
        BY <1>7, <4>1
    <3> QED
      BY <3>1, <3>2
  <2>4. \A x : x \in Range(more) <=> \E i \in 1..Len(more) : more[i] = x
    BY <2>1 DEF Range
  <2> QED
    BY <2>2, <2>3, <2>4
<1>10. Once(more)
  <2> SUFFICES ASSUME NEW i \in 1..Len(more), NEW j \in 1..Len(more), more[i] = more[j]
               PROVE  i = j
    BY DEF Once
  <2>1. CASE i \in 1..Len(w) /\ j \in 1..Len(w)
    BY <1>3, <1>6, <2>1 DEF Once
  <2>2. CASE i \in 1..Len(w) /\ j \notin 1..Len(w)
    BY <1>4, <1>6, <1>8, <2>2
  <2>3. CASE i \notin 1..Len(w) /\ j \in 1..Len(w)
    BY <1>4, <1>6, <1>8, <2>3
  <2>4. CASE i \notin 1..Len(w) /\ j \notin 1..Len(w)
    <3>1. i - Len(w) = j - Len(w)
      BY <1>2, <1>8, <2>4
    <3> QED
      BY <1>4, <1>5, <3>1
  <2> QED
    BY <2>1, <2>2, <2>3, <2>4
<1>11. InOrder(graph, more)
  <2> SUFFICES ASSUME NEW i \in 1..Len(more), NEW d \in Range(graph[more[i]]) \cap D
               PROVE  \E j \in 1..(i - 1) : more[j] = d
    BY DEF InOrder
  <2>1. CASE i \in 1..Len(w)
    <3>1. PICK j \in 1..(i - 1) : w[j] = d
      BY <1>3, <1>6, <2>1 DEF InOrder
    <3>2. j \in 1..Len(w)
      BY <1>4, <2>1
    <3> QED
      BY <1>6, <3>1, <3>2
  <2>2. CASE i \notin 1..Len(w)
    <3>1. more[i] \in level
      BY <1>4, <1>8, <2>2
    <3>2. PICK j \in 1..Len(w) : w[j] = d
      BY <1>4, <3>1
    <3>3. j \in 1..(i - 1)
      BY <1>4, <1>5, <1>8, <2>2
    <3> QED
      BY <1>6, <3>2, <3>3
  <2> QED
    BY <2>1, <2>2
<1> QED
  BY <1>5, <1>9, <1>10, <1>11 DEF WalkHolds

LEMMA WalkedSteps ==
  ASSUME NEW graph, IsGraph(graph), NEW L, L = Levels(graph)
  PROVE  /\ Walked(graph)[0] = << >>
         /\ \A k \in 1..Len(L) : Walked(graph)[k] = Walked(graph)[k - 1] \o Sorted(L[k])
<1> DEFINE N == Len(L)
           X == Seq(DOMAIN graph)
           step == [p \in (1..N) \X X |-> p[2] \o Sorted(L[p[1]])]
           Solves(f) == f = [k \in 0..N |-> IF k = 0 THEN << >> ELSE f[k - 1] \o Sorted(L[k])]
           W == Walked(graph)
<1>1. N \in Nat /\ \A k \in 1..N : L[k] \subseteq DOMAIN graph
  BY LevelFacts DEF LevelsHold
<1>2. \A k \in 1..N : \A x \in X : step[<<k, x>>] = x \o Sorted(L[k])
  OBVIOUS
<1>3. \A k \in 1..N : \A x \in X : x \o Sorted(L[k]) \in X
  <2> SUFFICES ASSUME NEW k \in 1..N, NEW x \in X
               PROVE  x \o Sorted(L[k]) \in X
    OBVIOUS
  <2>1. IsFiniteSet(L[k]) /\ L[k] \subseteq Int
    BY <1>1, FS_Subset DEF IsGraph
  <2>2. Sorted(L[k]) \in Seq(L[k])
    BY <2>1, SortedFacts
  <2>3. Sorted(L[k]) \in X
    BY <1>1, <2>2, SeqMonotonic
  <2> QED
    BY <2>3, ConcatProperties
<1>4. step \in [(1..N) \X X -> X]
  BY <1>3
<1>5. << >> \in X
  BY EmptySeq
<1>6. W = CHOOSE f : Solves(f)
  BY DEF Walked
<1> HIDE DEF X, step, W
<1>7. PICK f : Recurs(N, X, << >>, step, f)
  BY <1>1, <1>4, <1>5, Recursion
<1>8. Solves(f)
  <2>1. \A k \in 0..N : f[k] = IF k = 0 THEN << >> ELSE f[k - 1] \o Sorted(L[k])
    <3> SUFFICES ASSUME NEW k \in 0..N, k # 0
                 PROVE  f[k] = f[k - 1] \o Sorted(L[k])
      BY <1>7 DEF Recurs
    <3>1. k \in 1..N /\ k - 1 \in 0..N
      BY <1>1
    <3>2. f[k] = step[<<k, f[k - 1]>>] /\ f[k - 1] \in X
      BY <1>7, <3>1 DEF Recurs
    <3> QED
      BY <1>2, <3>1, <3>2
  <2>2. f = [k \in 0..N |-> f[k]]
    BY <1>7 DEF Recurs
  <2> QED
    BY <2>1, <2>2
<1>9. Solves(W)
  BY <1>6, <1>8
<1>10. W[0] = << >>
  <2>1. 0 \in 0..N
    BY <1>1
  <2> QED
    BY <1>9, <2>1
<1>11. ASSUME NEW k \in 1..N
       PROVE  W[k] = W[k - 1] \o Sorted(L[k])
  <2>1. k \in 0..N /\ k # 0
    BY <1>1
  <2> QED
    BY <1>9, <2>1
<1> QED
  BY <1>10, <1>11 DEF W

LEMMA WalksHold ==
  ASSUME NEW graph, IsGraph(graph), NEW L, L = Levels(graph), NEW k \in 0..Len(L)
  PROVE  WalkHolds(graph, Walked(graph)[k], Before(L, k + 1))
<1> DEFINE N == Len(L)
           D == DOMAIN graph
           W == Walked(graph)
           S == {i \in 0..N : WalkHolds(graph, W[i], Before(L, i + 1))}
<1>1. /\ N \in Nat /\ L \in Seq(SUBSET D)
      /\ \A i \in 1..N : L[i] \subseteq D
      /\ \A i \in 1..N : L[i] = Supported(graph, Before(L, i))
  BY LevelFacts, LevelsLayered DEF Layered, LevelsHold
<1>2. Before(L, 1) = {} /\ \A i \in 1..N : Before(L, i + 1) = Before(L, i) \cup L[i]
  BY <1>1, BeforeFacts
<1>3. W[0] = << >> /\ \A i \in 1..N : W[i] = W[i - 1] \o Sorted(L[i])
  BY WalkedSteps
<1> HIDE DEF W
<1>4. 0 \in S
  <2>1. << >> \in Seq(D) /\ Len(<< >>) = 0 /\ Range(<< >>) = {}
    BY EmptySeq DEF Range
  <2>3. Once(<< >>) /\ InOrder(graph, << >>)
    BY <2>1 DEF Once, InOrder
  <2>4. WalkHolds(graph, << >>, {})
    BY <2>1, <2>3 DEF WalkHolds
  <2>2. WalkHolds(graph, W[0], Before(L, 1))
    BY <1>2, <1>3, <2>4, Zenon
  <2>5. 0 + 1 = 1 /\ 0 \in 0..N
    BY <1>1
  <2> QED
    BY <2>2, <2>5
<1>5. ASSUME NEW i \in S, i < N
      PROVE  i + 1 \in S
  <2>1. /\ i \in 0..N /\ i + 1 \in 1..N /\ (i + 1) - 1 = i /\ i + 1 \in 0..N
        /\ WalkHolds(graph, W[i], Before(L, i + 1))
    BY <1>1, <1>5
  <2>2. /\ W[i + 1] = W[i] \o Sorted(L[i + 1])
        /\ Before(L, (i + 1) + 1) = Before(L, i + 1) \cup L[i + 1]
    BY <1>2, <1>3, <2>1
  <2>3. /\ L[i + 1] \subseteq D /\ L[i + 1] \cap Before(L, i + 1) = {}
        /\ \A n \in L[i + 1] : Range(graph[n]) \cap D \subseteq Before(L, i + 1)
    BY <1>1, <2>1 DEF Supported
  <2>4. WalkHolds(graph, W[i + 1], Before(L, i + 1) \cup L[i + 1])
    BY <2>1, <2>2, <2>3, WalkLevel
  <2> QED
    BY <2>1, <2>2, <2>4
<1>6. 0..N \subseteq S
  <2> HIDE DEF S
  <2> QED
    BY <1>1, <1>4, <1>5, UpTo
<1> QED
  BY <1>6 DEF W

(* The levels in order: for an acyclic graph every node exactly once, and  *)
(* each after everything it depends on.                                    *)
THEOREM ScheduleInOrder ==
  ASSUME NEW graph, IsGraph(graph), CyclicNodes(graph) = {}
  PROVE  /\ WalkHolds(graph, Schedule(graph), DOMAIN graph)
         /\ Len(Schedule(graph)) = Cardinality(DOMAIN graph)
<1> DEFINE D == DOMAIN graph
           L == Levels(graph)
           w == Schedule(graph)
<1>1. Visited(L) = D
  <2>1. L \in Seq(SUBSET D) /\ Len(L) \in Nat
    BY LevelFacts DEF LevelsHold
  <2>2. Len(L) + 1 \in 1..(Len(L) + 1)
    BY <2>1
  <2>3. Visited(L) \subseteq D
    BY <2>1, <2>2, BeforeInside DEF Visited
  <2> QED
    BY <2>3, CyclicFacts
<1>2. WalkHolds(graph, w, D)
  <2>1. Len(L) \in 0..Len(L)
    BY LevelFacts DEF LevelsHold
  <2> QED
    BY <1>1, <2>1, WalksHold DEF Visited, Schedule
<1> HIDE DEF w
<1>3. Len(w) \in Nat /\ w \in [1..Len(w) -> D]
  BY <1>2, LenProperties DEF WalkHolds
<1>4. w \in Bijection(1..Len(w), D)
  <2>1. \A x \in D : \E i \in 1..Len(w) : w[i] = x
    BY <1>2, RangeFacts DEF WalkHolds
  <2>2. \A i, j \in 1..Len(w) : w[i] = w[j] => i = j
    BY <1>2 DEF WalkHolds, Once
  <2> QED
    BY <1>3, <2>1, <2>2 DEF Bijection, Injection, Surjection, IsInjective
<1>5. Cardinality(D) = Len(w)
  BY <1>3, <1>4, FS_CountingElements DEF ExistsBijection
<1> QED
  BY <1>2, <1>5 DEF w

-----------------------------------------------------------------------------
(* The dependency closure *)

LEMMA ReachedSteps ==
  ASSUME NEW graph, IsGraph(graph), NEW roots, NEW N, N = Cardinality(DOMAIN graph)
  PROVE  /\ N \in Nat
         /\ \A k \in 0..N : Reached(graph, roots)[k] \subseteq DOMAIN graph
         /\ Reached(graph, roots)[0] = roots \cap DOMAIN graph
         /\ \A k \in 1..N :
              Reached(graph, roots)[k]
                = Reached(graph, roots)[k - 1] \cup Entries(graph, Reached(graph, roots)[k - 1])
<1> DEFINE D == DOMAIN graph
           X == SUBSET D
           start == roots \cap D
           After(ids) == ids \cup Entries(graph, ids)
           step == [p \in (1..N) \X X |-> After(p[2])]
           Solves(f) == f = [k \in 0..N |-> IF k = 0 THEN start ELSE After(f[k - 1])]
           R == Reached(graph, roots)
<1>1. N \in Nat
  BY FS_CardinalityType DEF IsGraph
<1>2. start \in X /\ \A ids \in X : After(ids) \in X
  BY DEF Entries
<1>3. \A k \in 1..N : \A ids \in X : step[<<k, ids>>] = After(ids)
  OBVIOUS
<1>4. step \in [(1..N) \X X -> X]
  BY <1>2
<1>5. R = CHOOSE f : Solves(f)
  BY DEF Reached
<1> HIDE DEF X, start, step, R, After
<1>6. PICK f : Recurs(N, X, start, step, f)
  BY <1>1, <1>2, <1>4, Recursion
<1>7. Solves(f)
  <2>1. \A k \in 0..N : f[k] = IF k = 0 THEN start ELSE After(f[k - 1])
    <3> SUFFICES ASSUME NEW k \in 0..N, k # 0
                 PROVE  f[k] = After(f[k - 1])
      BY <1>6 DEF Recurs
    <3>1. k \in 1..N /\ k - 1 \in 0..N
      BY <1>1
    <3>2. f[k] = step[<<k, f[k - 1]>>] /\ f[k - 1] \in X
      BY <1>6, <3>1 DEF Recurs
    <3> QED
      BY <1>3, <3>1, <3>2
  <2>2. f = [k \in 0..N |-> f[k]]
    BY <1>6 DEF Recurs
  <2> QED
    BY <2>1, <2>2
<1>8. Solves(R)
  BY <1>5, <1>7
<1>9. R[0] = start
  <2>1. 0 \in 0..N
    BY <1>1
  <2> QED
    BY <1>8, <2>1
<1>10. ASSUME NEW k \in 1..N
       PROVE  R[k] = After(R[k - 1])
  <2>1. k \in 0..N /\ k # 0
    BY <1>1
  <2> QED
    BY <1>8, <2>1
<1>11. \A k \in 0..N : R[k] \in X
  <2> DEFINE S == {k \in 0..N : R[k] \in X}
  <2>1. 0 \in S
    BY <1>1, <1>2, <1>9
  <2>2. ASSUME NEW k \in S, k < N
        PROVE  k + 1 \in S
    <3>1. k + 1 \in 1..N /\ (k + 1) - 1 = k /\ k + 1 \in 0..N /\ R[k] \in X
      BY <1>1, <2>2
    <3>2. R[k + 1] = After(R[k])
      BY <1>10, <3>1
    <3> QED
      BY <1>2, <3>1, <3>2
  <2>3. 0..N \subseteq S
    <3> HIDE DEF S
    <3> QED
      BY <1>1, <2>1, <2>2, UpTo
  <2> QED
    BY <2>3
<1> QED
  BY <1>1, <1>9, <1>10, <1>11 DEF R, X, start, After

(* dependency_closure: the least set that has the known roots and, with a  *)
(* node, every known node it depends on.                                   *)
THEOREM ClosureIsLeast ==
  ASSUME NEW graph, IsGraph(graph), NEW roots
  PROVE  /\ roots \cap DOMAIN graph \subseteq DependencyClosure(graph, roots)
         /\ DependencyClosure(graph, roots) \subseteq DOMAIN graph
         /\ Entries(graph, DependencyClosure(graph, roots)) \subseteq DependencyClosure(graph, roots)
         /\ \A C : roots \cap DOMAIN graph \subseteq C /\ Entries(graph, C) \subseteq C =>
                     DependencyClosure(graph, roots) \subseteq C
<1> DEFINE D == DOMAIN graph
           N == Cardinality(D)
           R == Reached(graph, roots)
           Closed(ids) == Entries(graph, ids) \subseteq ids
<1>1. /\ N \in Nat /\ IsFiniteSet(D)
      /\ \A k \in 0..N : R[k] \subseteq D
      /\ R[0] = roots \cap D
      /\ \A k \in 1..N : R[k] = R[k - 1] \cup Entries(graph, R[k - 1])
  BY ReachedSteps DEF IsGraph
<1>2. DependencyClosure(graph, roots) = R[N]
  BY DEF DependencyClosure
<1>3. \A a, b : a \subseteq b => Entries(graph, a) \subseteq Entries(graph, b)
  BY DEF Entries
<1>4. Entries(graph, D) \subseteq D
  BY DEF Entries
<1> HIDE DEF R, N
<1>5. ASSUME NEW k \in 0..N
      PROVE  /\ IsFiniteSet(R[k]) /\ Cardinality(R[k]) \in Nat /\ R[k] \subseteq D
             /\ Cardinality(R[k]) <= N /\ (Cardinality(R[k]) = N => R[k] = D)
  <2>1. R[k] \in SUBSET D
    BY <1>1
  <2> QED
    BY <1>1, <2>1, FS_Subset, FS_CardinalityType DEF N
<1>6. ASSUME NEW k \in 0..N, k < N
      PROVE  /\ k + 1 \in 1..N /\ k + 1 \in 0..N
             /\ R[k + 1] = R[k] \cup Entries(graph, R[k])
  <2>1. k + 1 \in 1..N /\ k + 1 \in 0..N /\ (k + 1) - 1 = k
    BY <1>1, <1>6
  <2> QED
    BY <1>1, <2>1
<1>7. \A k \in 0..N : roots \cap D \subseteq R[k] /\ (Closed(R[k]) \/ Cardinality(R[k]) >= k)
  <2> DEFINE S == {k \in 0..N : /\ roots \cap D \subseteq R[k]
                                /\ Closed(R[k]) \/ Cardinality(R[k]) >= k}
  <2>1. 0 \in S
    <3>1. 0 \in 0..N
      BY <1>1
    <3>2. Cardinality(R[0]) >= 0
      BY <1>5, <3>1
    <3> QED
      BY <1>1, <3>1, <3>2
  <2>2. ASSUME NEW k \in S, k < N
        PROVE  k + 1 \in S
    <3>1. /\ k \in 0..N /\ roots \cap D \subseteq R[k]
          /\ Closed(R[k]) \/ Cardinality(R[k]) >= k
      OBVIOUS
    <3>2. k + 1 \in 0..N /\ R[k + 1] = R[k] \cup Entries(graph, R[k])
      BY <1>6, <2>2, <3>1
    <3>3. CASE Closed(R[k])
      <4>1. R[k + 1] = R[k]
        BY <3>2, <3>3
      <4> QED
        BY <3>1, <3>2, <3>3, <4>1
    <3>4. CASE ~Closed(R[k])
      <4>1. R[k] \in SUBSET R[k + 1] /\ R[k] # R[k + 1]
        BY <3>2, <3>4
      <4>2. /\ IsFiniteSet(R[k + 1])
            /\ Cardinality(R[k]) \in Nat /\ Cardinality(R[k + 1]) \in Nat
        BY <1>5, <3>1, <3>2
      <4>3. /\ Cardinality(R[k]) <= Cardinality(R[k + 1])
            /\ Cardinality(R[k]) # Cardinality(R[k + 1])
        BY <4>1, <4>2, FS_Subset
      <4>4. Cardinality(R[k + 1]) >= k + 1
        BY <3>1, <3>4, <4>2, <4>3
      <4> QED
        BY <3>1, <3>2, <4>4
    <3> QED
      BY <3>3, <3>4
  <2>3. 0..N \subseteq S
    <3> HIDE DEF S
    <3> QED
      BY <1>1, <2>1, <2>2, UpTo
  <2> QED
    BY <2>3
<1>8. N \in 0..N
  BY <1>1
<1>9. Closed(R[N])
  <2>1. CASE Cardinality(R[N]) >= N
    <3>1. R[N] = D
      BY <1>1, <1>5, <1>8, <2>1
    <3> QED
      BY <1>4, <3>1, Zenon
  <2> QED
    BY <1>7, <1>8, <2>1
<1>10. ASSUME NEW C, roots \cap D \subseteq C, Closed(C)
       PROVE  R[N] \subseteq C
  <2> DEFINE S == {k \in 0..N : R[k] \subseteq C}
  <2>1. 0 \in S
    BY <1>1, <1>10
  <2>2. ASSUME NEW k \in S, k < N
        PROVE  k + 1 \in S
    <3>1. k \in 0..N /\ R[k] \subseteq C
      OBVIOUS
    <3>2. k + 1 \in 0..N /\ R[k + 1] = R[k] \cup Entries(graph, R[k])
      BY <1>6, <2>2, <3>1
    <3>3. Entries(graph, R[k]) \subseteq Entries(graph, C)
      BY <1>3, <3>1
    <3> QED
      BY <1>10, <3>1, <3>2, <3>3
  <2>3. 0..N \subseteq S
    <3> HIDE DEF S
    <3> QED
      BY <1>1, <2>1, <2>2, UpTo
  <2> QED
    BY <1>8, <2>3
<1> QED
  BY <1>2, <1>5, <1>7, <1>8, <1>9, <1>10

LEMMA Distinct ==
  ASSUME NEW S, NEW seq \in Seq(S),
         \A i, j \in 1..Len(seq) : seq[i] = seq[j] => i = j
  PROVE  ~Repeats(seq)
<1>1. DOMAIN seq = 1..Len(seq) /\ Len(seq) \in Nat /\ seq \in [1..Len(seq) -> S]
  BY LenProperties
<1>2. IsFiniteSet(1..Len(seq)) /\ Cardinality(1..Len(seq)) = Len(seq)
  <2>1. /\ IsFiniteSet(1..Len(seq))
        /\ Cardinality(1..Len(seq)) = IF 1 > Len(seq) THEN 0 ELSE Len(seq) - 1 + 1
    BY <1>1, FS_Interval
  <2> QED
    BY <1>1, <2>1
<1>3. seq \in Bijection(1..Len(seq), Range(seq))
  BY <1>1 DEF Bijection, Surjection, Injection, IsInjective, Range
<1>4. Cardinality(Range(seq)) = Cardinality(1..Len(seq))
  <2>1. ExistsBijection(1..Len(seq), Range(seq))
    BY <1>3 DEF ExistsBijection
  <2> QED
    BY <1>2, <2>1, FS_Bijection, Zenon
<1> QED
  BY <1>2, <1>4 DEF Repeats

LEMMA NoRepeats ==
  ASSUME NEW S, NEW seq \in Seq(S), ~Repeats(seq),
         NEW i \in DOMAIN seq, NEW j \in DOMAIN seq, seq[i] = seq[j]
  PROVE  i = j
<1>1. DOMAIN seq = 1..Len(seq) /\ Len(seq) \in Nat /\ seq \in [1..Len(seq) -> S]
  BY LenProperties
<1>2. IsFiniteSet(1..Len(seq)) /\ Cardinality(1..Len(seq)) = Len(seq)
  <2>1. /\ IsFiniteSet(1..Len(seq))
        /\ Cardinality(1..Len(seq)) = IF 1 > Len(seq) THEN 0 ELSE Len(seq) - 1 + 1
    BY <1>1, FS_Interval
  <2> QED
    BY <1>1, <2>1
<1>3. seq \in Surjection(1..Len(seq), Range(seq))
  BY <1>1 DEF Surjection, Range
<1>4. seq \in Injection(1..Len(seq), Range(seq))
  BY <1>2, <1>3, FS_Surjection DEF Repeats
<1> QED
  BY <1>1, <1>4 DEF Injection, IsInjective

-----------------------------------------------------------------------------
(* What validation lets through *)

LEMMA ByIdFacts ==
  ASSUME NEW S, NEW seq \in Seq(S)
  PROVE  /\ DOMAIN ById(seq) = Ids(seq)
         /\ \A x \in Ids(seq) : ById(seq)[x] \in Range(seq) /\ ById(seq)[x].id = x
<1>1. DOMAIN seq = 1..Len(seq) /\ Len(seq) \in Nat
  BY LenProperties
<1>2. ASSUME NEW x \in Ids(seq)
      PROVE  ById(seq)[x] \in Range(seq) /\ ById(seq)[x].id = x
  <2> DEFINE First(i) == seq[i].id = x /\ \A j \in DOMAIN seq : seq[j].id = x => i <= j
             T == {i \in DOMAIN seq : seq[i].id = x}
  <2>1. T \subseteq Nat /\ T # {}
    BY <1>1 DEF Ids
  <2>2. PICK i \in T : \A j \in T : i <= j
    <3> HIDE DEF T
    <3> QED
      BY <2>1, LeastNatural
  <2>3. i \in DOMAIN seq /\ First(i)
    BY <2>2
  <2>4. ById(seq)[x] = seq[CHOOSE k \in DOMAIN seq : First(k)]
    BY DEF ById
  <2> DEFINE first == CHOOSE k \in DOMAIN seq : First(k)
  <2>5. first \in DOMAIN seq /\ First(first)
    <3> HIDE DEF First
    <3> QED
      BY <2>3
  <2> HIDE DEF first
  <2> QED
    BY <2>4, <2>5 DEF Range, first
<1> QED
  BY <1>2 DEF ById

LEMMA NodesMakeGraph ==
  ASSUME NEW p, HasGraph(p)
  PROVE  /\ IsGraph(Graph(p))
         /\ DOMAIN Graph(p) = Ids(p.nodes)
         /\ \A n \in Ids(p.nodes) : Graph(p)[n] = ById(p.nodes)[n].dependencies
<1>1. p.nodes \in Seq(Range(p.nodes))
  BY DEF IsPlan, HasGraph
<1>2. /\ DOMAIN ById(p.nodes) = Ids(p.nodes)
      /\ \A x \in Ids(p.nodes) : ById(p.nodes)[x] \in Range(p.nodes)
  BY <1>1, ByIdFacts
<1>3. Graph(p) = [n \in Ids(p.nodes) |-> ById(p.nodes)[n].dependencies]
  BY <1>2 DEF Graph
<1>4. IsFiniteSet(Ids(p.nodes))
  <2> DEFINE N == DOMAIN p.nodes
             f == [i \in N |-> p.nodes[i].id]
  <2>1. IsFiniteSet(N)
    BY <1>1, LenProperties, FS_Interval
  <2>2. Ids(p.nodes) = {p.nodes[i].id : i \in N}
    BY DEF Ids
  <2> HIDE DEF N
  <2>3. f \in Surjection(N, Ids(p.nodes))
    BY <2>2 DEF Surjection
  <2> QED
    BY <2>1, <2>3, FS_Surjection
<1>5. \A x \in Ids(p.nodes) : x \in Int /\ ById(p.nodes)[x].dependencies \in Seq(Int)
  <2>1. \A x \in Ids(p.nodes) : ById(p.nodes)[x].id = x
    BY <1>1, ByIdFacts
  <2> QED
    BY <1>2, <2>1 DEF IsPlan, HasGraph
<1> QED
  BY <1>3, <1>4, <1>5 DEF IsGraph

LEMMA GraphFacts ==
  ASSUME NEW p, IsPlan(p)
  PROVE  /\ IsGraph(Graph(p))
         /\ DOMAIN Graph(p) = Ids(p.nodes)
         /\ \A n \in Ids(p.nodes) : Graph(p)[n] = ById(p.nodes)[n].dependencies
BY NodesMakeGraph DEF IsPlan

(* The inputs a node declares are the ones its Cell asks for.              *)
InputsFit(p, n) ==
  /\ n.inputs # << >>
  /\ ~Repeats(n.inputs)
  /\ Range(n.inputs) \subseteq Ids(p.references)
  /\ ~Repeats(n.kinds)
  /\ "analysis_request" \in Range(n.kinds)
  /\ n.kinds = [i \in DOMAIN n.inputs |-> ById(p.references)[n.inputs[i]].kind]

LEMMA ValidInputs ==
  ASSUME NEW p, IsPlan(p), NEW n \in Range(p.nodes), InputIssues(p, n) = {}
  PROVE  InputsFit(p, n)
<1> DEFINE ref == ById(p.references)
           known == Kept(n.inputs, {i \in DOMAIN n.inputs : n.inputs[i] \in DOMAIN ref})
           kinds == [i \in DOMAIN known |-> ref[known[i]].kind]
<1>1. n.inputs \in Seq(Range(n.inputs)) /\ DOMAIN ref = Ids(p.references)
  BY DEF IsPlan, HasGraph, ById
<1>2. /\ n.inputs # << >> /\ ~Repeats(n.inputs) /\ Range(n.inputs) \subseteq DOMAIN ref
      /\ ~Repeats(n.kinds) /\ "analysis_request" \in Range(n.kinds)
      /\ Range(n.kinds) \subseteq Range(kinds) /\ Range(kinds) \subseteq Range(n.kinds)
      /\ ~(~Repeats(n.kinds) /\ Range(n.kinds) = Range(kinds) /\ n.kinds # kinds)
  <2> HIDE DEF ref, known
  <2> DEFINE K == [i \in DOMAIN known |-> ref[known[i]].kind]
  <2>1. InputIssues(p, n)
          = (Code("missing_node_input_reference", n.inputs = << >>)
             \cup Code("duplicate_node_input_reference", Repeats(n.inputs))
             \cup Code("missing_input_reference", Range(n.inputs) \ DOMAIN ref # {})
             \cup Code("duplicate_required_input_kind", Repeats(n.kinds))
             \cup Code("missing_required_input_kind",
                       \/ "analysis_request" \notin Range(n.kinds)
                       \/ Range(n.kinds) \ Range(K) # {})
             \cup Code("unexpected_input_kind",
                       \/ Range(K) \ Range(n.kinds) # {}
                       \/ Repeats(K)
                       \/ /\ ~Repeats(n.kinds)
                          /\ Range(n.kinds) = Range(K)
                          /\ n.kinds # K))
    BY DEF InputIssues, ref, known
  <2> HIDE DEF K
  <2>2. /\ ~(n.inputs = << >>) /\ ~Repeats(n.inputs) /\ ~(Range(n.inputs) \ DOMAIN ref # {})
        /\ ~Repeats(n.kinds)
        /\ ~(\/ "analysis_request" \notin Range(n.kinds)
             \/ Range(n.kinds) \ Range(K) # {})
        /\ ~(\/ Range(K) \ Range(n.kinds) # {}
             \/ Repeats(K)
             \/ /\ ~Repeats(n.kinds)
                /\ Range(n.kinds) = Range(K)
                /\ n.kinds # K)
    BY <2>1 DEF Code
  <2> QED
    BY <2>2 DEF K
<1>3. known = n.inputs
  <2>1. \A i \in DOMAIN n.inputs : n.inputs[i] \in DOMAIN ref
    BY <1>2 DEF Range
  <2>2. {i \in DOMAIN n.inputs : n.inputs[i] \in DOMAIN ref} = DOMAIN n.inputs
    BY <2>1
  <2> QED
    BY <1>1, <2>2, KeptAll
<1> HIDE DEF known
<1>4. n.kinds = kinds
  BY <1>2
<1>5. kinds = [i \in DOMAIN n.inputs |-> ref[n.inputs[i]].kind]
  BY <1>3
<1> QED
  BY <1>1, <1>2, <1>4, <1>5 DEF InputsFit

(* An accepted plan: a graph without cycles over known nodes, all of which *)
(* the root needs, with inputs that fit.                                   *)
ValidPlan(p) ==
  /\ p.root \in Ids(p.nodes)
  /\ CyclicNodes(Graph(p)) = {}
  /\ Ids(p.nodes) \subseteq DependencyClosure(Graph(p), {p.root})
  /\ \A n \in Range(p.nodes) : Range(n.dependencies) \subseteq Ids(p.nodes) /\ InputsFit(p, n)
  /\ \A r \in Range(p.references) : r.scope = PlanScope

LEMMA Validated ==
  ASSUME NEW p, IsPlan(p), ValidationIssues(p) = {}
  PROVE  ValidPlan(p)
<1>1. /\ ScopeIssues(p) = {} /\ RootIssues(p) = {}
      /\ CycleIssues(p) = {} /\ ReachabilityIssues(p) = {}
      /\ \A n \in Range(p.nodes) : DependencyIssues(p, n) = {} /\ InputIssues(p, n) = {}
  <2> DEFINE OfNode(n) == DependencyIssues(p, n) \cup InputIssues(p, n) \cup BindingIssues(p, n)
             nodes == UNION {OfNode(n) : n \in Range(p.nodes)}
  <2>1. /\ ScopeIssues(p) = {} /\ RootIssues(p) = {} /\ nodes = {}
        /\ CycleIssues(p) = {} /\ ReachabilityIssues(p) = {}
    <3> HIDE DEF nodes
    <3> QED
      BY DEF ValidationIssues, nodes
  <2>2. \A n \in Range(p.nodes) : OfNode(n) \subseteq nodes
    <3> HIDE DEF OfNode
    <3> QED
      OBVIOUS
  <2> HIDE DEF nodes
  <2> QED
    BY <2>1, <2>2
<1>2. p.root \in Ids(p.nodes)
  BY <1>1 DEF RootIssues, Code, ById
<1>3. CyclicNodes(Graph(p)) = {}
  BY <1>1 DEF CycleIssues, Code
<1>4. Ids(p.nodes) \subseteq DependencyClosure(Graph(p), {p.root})
  <2>1. DOMAIN Graph(p) = Ids(p.nodes)
    BY GraphFacts
  <2> QED
    BY <1>1, <1>2, <2>1 DEF ReachabilityIssues, Code
<1>5. ASSUME NEW n \in Range(p.nodes)
      PROVE  Range(n.dependencies) \subseteq Ids(p.nodes) /\ InputsFit(p, n)
  <2>1. n.id \in Ids(p.nodes)
    BY DEF Ids, Range
  <2>2. Code("missing_dependency", Range(n.dependencies) \ (Ids(p.nodes) \cup {n.id}) # {}) = {}
    BY <1>1 DEF DependencyIssues
  <2>3. Range(n.dependencies) \subseteq Ids(p.nodes)
    BY <2>1, <2>2 DEF Code
  <2> QED
    BY <1>1, <2>3, ValidInputs
<1>6. \A r \in Range(p.references) : r.scope = PlanScope
  BY <1>1 DEF ScopeIssues, Code, Range
<1> QED
  BY <1>2, <1>3, <1>4, <1>5, <1>6 DEF ValidPlan

(* Without a node that nothing depends on, the root reaches less.          *)
LEMMA NothingAboveIsRoot ==
  ASSUME NEW p, IsPlan(p), ValidPlan(p), NEW x \in Ids(p.nodes),
         \A n \in Ids(p.nodes) : x \notin Range(Graph(p)[n])
  PROVE  x = p.root
<1> DEFINE G == Graph(p)
           D == Ids(p.nodes)
           C == D \ {x}
<1>1. DOMAIN G = D /\ IsGraph(G)
  BY GraphFacts
<1>2. p.root \in D /\ D \subseteq DependencyClosure(G, {p.root})
  BY DEF ValidPlan
<1>3. \A n \in C : x \notin Range(G[n])
  OBVIOUS
<1> HIDE DEF G, D
<1>4. Entries(G, C) \subseteq C
  BY <1>1, <1>3 DEF Entries
<1> HIDE DEF C
<1>5. {p.root} \cap D \subseteq C => DependencyClosure(G, {p.root}) \subseteq C
  BY <1>1, <1>4, ClosureIsLeast
<1> QED
  BY <1>2, <1>5 DEF C, D

(* The schedule of an accepted plan: every node once, after what it        *)
(* depends on, and the root last.                                          *)
LEMMA SchedulesEndInRoot ==
  ASSUME NEW p, IsPlan(p), ValidPlan(p), NEW w, w = Schedule(Graph(p))
  PROVE  /\ w \in Seq(Ids(p.nodes)) /\ Range(w) = Ids(p.nodes)
         /\ Once(w) /\ InOrder(Graph(p), w)
         /\ Len(w) = Cardinality(Ids(p.nodes))
         /\ Len(w) \in Nat \ {0} /\ w[Len(w)] = p.root
<1> DEFINE G == Graph(p)
           D == Ids(p.nodes)
<1>1. DOMAIN G = D /\ IsGraph(G)
  BY GraphFacts
<1>2. /\ w \in Seq(D) /\ Range(w) = D /\ Once(w) /\ InOrder(G, w)
      /\ Len(w) = Cardinality(D)
  BY <1>1, ScheduleInOrder DEF ValidPlan, WalkHolds
<1>3. /\ Len(w) \in Nat
      /\ \A i \in 1..Len(w) : w[i] \in D
      /\ \A n \in D : \E i \in 1..Len(w) : w[i] = n
  BY <1>2, RangeFacts
<1>4. Len(w) # 0
  BY <1>3 DEF ValidPlan
<1> DEFINE x == w[Len(w)]
<1>5. x \in D
  BY <1>3, <1>4
<1>6. ASSUME NEW n \in D
      PROVE  x \notin Range(G[n])
  <2> SUFFICES ASSUME x \in Range(G[n]) PROVE FALSE
    OBVIOUS
  <2>1. PICK i \in 1..Len(w) : w[i] = n
    BY <1>3
  <2> HIDE DEF G
  <2>2. PICK j \in 1..(i - 1) : w[j] = x
    BY <1>1, <1>2, <1>5, <2>1 DEF InOrder
  <2>3. j \in 1..Len(w) /\ Len(w) \in 1..Len(w) /\ j # Len(w)
    BY <1>3, <1>4
  <2> QED
    BY <1>2, <2>2, <2>3 DEF Once
<1>7. x = p.root
  BY <1>5, <1>6, NothingAboveIsRoot
<1> QED
  BY <1>2, <1>3, <1>4, <1>7

LEMMA LevelsEndInRoot ==
  ASSUME NEW p, IsPlan(p), ValidPlan(p), NEW L, L = Levels(Graph(p))
  PROVE  Len(L) \in Nat \ {0} /\ L[Len(L)] = {p.root}
<1> DEFINE G == Graph(p)
           D == Ids(p.nodes)
<1>1. DOMAIN G = D /\ IsGraph(G)
  BY GraphFacts
<1>0. Len(L) \in Nat
  BY <1>1, LevelFacts DEF LevelsHold
<1>2. /\ DOMAIN L = 1..Len(L)
      /\ \A k \in 1..Len(L) : L[k] # {} /\ L[k] \subseteq D
      /\ \A j, k \in 1..Len(L) : \A n \in L[j] : n \in L[k] => j = k
      /\ \A k \in 1..Len(L) : \A n \in L[k] :
           \A d \in Range(G[n]) \cap D : \E j \in 1..(k - 1) : d \in L[j]
  <2> HIDE DEF G, D
  <2>1. DOMAIN G = D /\ L = Levels(G)
    BY <1>1 DEF G
  <2>2. LevelsHold(G, L)
    BY <1>1, <2>1, LevelFacts
  <2> QED
    BY <2>1, <2>2 DEF LevelsHold
<1>3. \A n \in D : \E k \in 1..Len(L) : n \in L[k]
  BY <1>1, <1>2 DEF ValidPlan, CyclicNodes, Range
<1>4. Len(L) # 0
  BY <1>3 DEF ValidPlan
<1>5. ASSUME NEW x \in L[Len(L)]
      PROVE  x = p.root
  <2>1. x \in D /\ Len(L) \in 1..Len(L)
    BY <1>0, <1>2, <1>4
  <2>2. ASSUME NEW n \in D, x \in Range(G[n])
        PROVE  FALSE
    <3>1. PICK k \in 1..Len(L) : n \in L[k]
      BY <1>3
    <3> HIDE DEF G
    <3>2. PICK j \in 1..(k - 1) : x \in L[j]
      BY <1>2, <2>1, <2>2, <3>1
    <3>3. j \in 1..Len(L) /\ j # Len(L)
      BY <1>0
    <3> QED
      BY <1>2, <2>1, <3>2, <3>3
  <2> QED
    BY <2>1, <2>2, NothingAboveIsRoot
<1>6. Len(L) \in 1..Len(L)
  BY <1>0, <1>4
<1> QED
  BY <1>0, <1>2, <1>4, <1>5, <1>6
=============================================================================
