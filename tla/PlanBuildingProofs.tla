------------------------- MODULE PlanBuildingProofs -------------------------
(***************************************************************************)
(* Theorems about PlanBuilding, for any requests, catalog and answers of   *)
(* the placement policy, and about the answers of the default policy       *)
(* (RuntimeHistory), for any thresholds and history.                       *)
(***************************************************************************)
EXTENDS PlanBuilding, RuntimeHistory, PlanValidationProofs

(* What a build has made of its request so far.                            *)
Gathered ==
  IF request.engine THEN <<Primary>> \o SortedByKind(request.extras)
  ELSE IF request.extras = << >> THEN <<Primary>>
  ELSE request.extras

InputsGathered ==
  phase \in {"graph", "placing", "composing", "validating", "built"} =>
    /\ references = Gathered
    /\ request.engine => ExtrasAccepted(request.extras)

GraphAccepted ==
  phase \in {"placing", "composing", "validating", "built"} => GraphIssues(request) = {}

CellsPlaced ==
  /\ Placed \subseteq GraphCells
  /\ phase \in {"gathering", "graph"} => Placed = {}
  /\ phase \in {"composing", "validating", "built"} => Placed = GraphCells
  /\ \A c \in Placed : \E d \in Decisions : Acceptable(c, d) /\ decisions[c] = d.ladder

Assembled ==
  [nodes |-> [i \in DOMAIN request.nodes |-> NodeFor(request.nodes[i])],
   bindings |-> PlanBindings, references |-> references, root |-> request.root]

PlanAssembled ==
  /\ phase \in {"gathering", "graph", "placing", "composing"} => plan = NoPlan
  /\ phase \in {"validating", "built"} =>
       plan = Assembled /\ \A cell \in GraphCells : Composable(cell)
  /\ phase = "built" => ValidationIssues(plan) = {}

BuildInv ==
  /\ request \in Requests
  /\ phase \in Phases
  /\ phase = "refused" <=> refusal # {}
  /\ InputsGathered /\ GraphAccepted /\ CellsPlaced /\ PlanAssembled

-----------------------------------------------------------------------------
(* Organs *)

LEMMA OrganClosed ==
  ASSUME NEW g, HasGraph(g), NEW o, o.members \in Seq(Int), o.outputs \in Seq(Int),
         OrganIssues(g, o) = {}
  PROVE  Range(o.members) = DependencyClosure(Graph(g), Range(o.outputs))
<1>. PICK node, members, inside :
        /\ node = ById(g.nodes)
        /\ members = Range(o.members) \cap DOMAIN node
        /\ inside = [n \in members |-> node[n].dependencies]
  OBVIOUS
<1> DEFINE G == Graph(g)
           outputs == Range(o.outputs)
           all == DependencyClosure(G, outputs)
           own == DependencyClosure(inside, outputs)
<1>1. /\ o.outputs # << >>
      /\ Range(o.members) \subseteq DOMAIN node
      /\ outputs \subseteq Range(o.members)
      /\ \A n \in members : Range(inside[n]) \cap DOMAIN node \subseteq Range(o.members)
      /\ outputs \cap members # {} => members \subseteq own
  <2>1. OrganIssues(g, o)
          = (Code("duplicate_organ_node", Repeats(o.members))
             \cup Code("duplicate_organ_output", Repeats(o.outputs))
             \cup Code("organ_has_no_outputs", o.outputs = << >>)
             \cup Code("missing_organ_node", Range(o.members) \ DOMAIN node # {})
             \cup Code("organ_output_not_member", Range(o.outputs) \ Range(o.members) # {})
             \cup Code("organ_dependency_outside_subgraph",
                       \E n \in members :
                         (Range(inside[n]) \cap DOMAIN node) \ Range(o.members) # {})
             \cup Code("organ_unreachable_node",
                       /\ Range(o.outputs) \cap members # {}
                       /\ members \ DependencyClosure(inside, Range(o.outputs)) # {}))
    BY DEF OrganIssues
  <2>2. /\ ~(o.outputs = << >>)
        /\ ~(Range(o.members) \ DOMAIN node # {})
        /\ ~(Range(o.outputs) \ Range(o.members) # {})
        /\ ~(\E n \in members : (Range(inside[n]) \cap DOMAIN node) \ Range(o.members) # {})
        /\ ~(/\ Range(o.outputs) \cap members # {}
             /\ members \ DependencyClosure(inside, Range(o.outputs)) # {})
    BY <2>1 DEF Code
  <2> QED
    BY <2>2
<1>2. /\ IsGraph(G) /\ DOMAIN G = Ids(g.nodes) /\ DOMAIN node = Ids(g.nodes)
      /\ \A n \in Ids(g.nodes) : G[n] = node[n].dependencies
  <2>1. DOMAIN node = Ids(g.nodes)
    BY DEF ById
  <2> QED
    BY <2>1, NodesMakeGraph
<1>3. members = Range(o.members) /\ members \subseteq DOMAIN G
  BY <1>1, <1>2
<1>4. /\ DOMAIN inside = members
      /\ \A n \in members : inside[n] = G[n]
  BY <1>2, <1>3
<1>5. outputs # {}
  <2>1. Len(o.outputs) \in Nat /\ \A i \in 1..Len(o.outputs) : o.outputs[i] \in outputs
    BY RangeFacts
  <2>2. Len(o.outputs) # 0
    BY <1>1, EmptySeq
  <2>3. 1 \in 1..Len(o.outputs)
    BY <2>1, <2>2
  <2> HIDE DEF outputs
  <2> QED
    BY <2>1, <2>3
<1> HIDE DEF G, outputs
<1>6. IsGraph(inside)
  BY <1>2, <1>3, <1>4, FS_Subset DEF IsGraph
<1>7. members = own
  <2>1. own \subseteq DOMAIN inside
    BY <1>6, ClosureIsLeast
  <2> HIDE DEF own
  <2> QED
    BY <1>1, <1>3, <1>4, <1>5, <2>1
<1>8. Entries(G, members) \subseteq members
  BY <1>1, <1>2, <1>3, <1>4 DEF Entries
<1>9. all \subseteq members
  BY <1>1, <1>2, <1>3, <1>8, ClosureIsLeast
<1>10. outputs \cap DOMAIN inside \subseteq all /\ Entries(inside, all) \subseteq all
  <2>1. outputs \cap DOMAIN G \subseteq all /\ Entries(G, all) \subseteq all
    BY <1>2, ClosureIsLeast
  <2> HIDE DEF all
  <2>2. ASSUME NEW x \in Entries(inside, all)
        PROVE  x \in Entries(G, all)
    <3>1. PICK n \in all : x \in Range(inside[n])
      BY DEF Entries
    <3>2. x \in DOMAIN inside
      BY DEF Entries
    <3>3. inside[n] = G[n] /\ x \in DOMAIN G
      BY <1>3, <1>4, <1>9, <3>2
    <3> QED
      BY <3>1, <3>3 DEF Entries
  <2> QED
    BY <1>3, <1>4, <2>1, <2>2
<1>11. own \subseteq all
  <2> HIDE DEF all
  <2> QED
    BY <1>6, <1>10, ClosureIsLeast
<1> QED
  BY <1>3, <1>7, <1>9, <1>11 DEF G, outputs

-----------------------------------------------------------------------------
(* Sequences of sequences, and of firsts *)

LEMMA JoinedSteps ==
  ASSUME NEW S, NEW lists \in Seq(Seq(S))
  PROVE  \E W : /\ Joined(lists) = W[Len(lists)]
               /\ W[0] = << >>
               /\ \A k \in 1..Len(lists) : W[k] = W[k - 1] \o lists[k]
<1> DEFINE N == Len(lists)
           X == Seq(S)
           step == [p \in (1..N) \X X |-> p[2] \o lists[p[1]]]
           Solves(f) == f = [k \in 0..N |-> IF k = 0 THEN << >> ELSE f[k - 1] \o lists[k]]
           W == CHOOSE f : Solves(f)
<1>1. N \in Nat /\ \A k \in 1..N : lists[k] \in X
  BY LenProperties, ElementOfSeq
<1>2. \A k \in 1..N : \A x \in X : step[<<k, x>>] = x \o lists[k]
  OBVIOUS
<1>3. \A k \in 1..N : \A x \in X : x \o lists[k] \in X
  BY <1>1, ConcatProperties
<1>4. step \in [(1..N) \X X -> X]
  BY <1>3
<1>5. << >> \in X
  BY EmptySeq
<1>6. Joined(lists) = W[N]
  BY DEF Joined
<1> HIDE DEF X, step
<1>7. PICK f : Recurs(N, X, << >>, step, f)
  BY <1>1, <1>4, <1>5, Recursion
<1>8. Solves(f)
  <2>1. \A k \in 0..N : f[k] = IF k = 0 THEN << >> ELSE f[k - 1] \o lists[k]
    <3> SUFFICES ASSUME NEW k \in 0..N, k # 0
                 PROVE  f[k] = f[k - 1] \o lists[k]
      BY <1>7 DEF Recurs
    <3>1. k \in 1..N /\ k - 1 \in 0..N
      BY <1>1
    <3>2. f[k] = step[<<k, f[k - 1]>>] /\ f[k - 1] \in X
      BY <1>7, <3>1 DEF Recurs
    <3> QED
      BY <1>2, <3>1, <3>2
  <2>2. f = [k \in 0..N |-> f[k]]
    BY <1>7 DEF Recurs
  <2> QED
    BY <2>1, <2>2
<1>9. Solves(W)
  <2> HIDE DEF Solves
  <2> QED
    BY <1>8
<1> HIDE DEF W
<1>10. W[0] = << >>
  <2>1. 0 \in 0..N
    BY <1>1
  <2> QED
    BY <1>9, <2>1
<1>11. ASSUME NEW k \in 1..N
       PROVE  W[k] = W[k - 1] \o lists[k]
  <2>1. k \in 0..N /\ k # 0
    BY <1>1
  <2> QED
    BY <1>9, <2>1
<1> QED
  BY <1>6, <1>10, <1>11

(* The join of lists has the entries of the lists.                         *)
LEMMA JoinedFacts ==
  ASSUME NEW S, NEW lists \in Seq(Seq(S))
  PROVE  /\ Joined(lists) \in Seq(S)
         /\ \A x \in Range(Joined(lists)) : \E k \in 1..Len(lists) : x \in Range(lists[k])
         /\ \A k \in 1..Len(lists) : Range(lists[k]) \subseteq Range(Joined(lists))
<1> DEFINE N == Len(lists)
<1>1. N \in Nat /\ \A k \in 1..N : lists[k] \in Seq(S)
  BY LenProperties, ElementOfSeq
<1>2. PICK W : /\ Joined(lists) = W[N]
               /\ W[0] = << >>
               /\ \A k \in 1..N : W[k] = W[k - 1] \o lists[k]
  BY JoinedSteps, Zenon
<1> DEFINE Holds(n) ==
             /\ W[n] \in Seq(S)
             /\ \A x \in Range(W[n]) : \E k \in 1..n : x \in Range(lists[k])
             /\ \A k \in 1..n : Range(lists[k]) \subseteq Range(W[n])
           T == {n \in 0..N : Holds(n)}
<1>3. 0 \in T
  <2>1. << >> \in Seq(S) /\ Range(<< >>) = {}
    BY EmptySeq DEF Range
  <2>2. 0 \in 0..N /\ 1..0 = {}
    BY <1>1
  <2>3. Holds(0)
    BY <1>2, <2>1, <2>2
  <2> HIDE DEF Holds
  <2> QED
    BY <2>2, <2>3
<1>4. ASSUME NEW n \in T, n < N
      PROVE  n + 1 \in T
  <2>1. /\ n \in 0..N /\ n + 1 \in 1..N /\ (n + 1) - 1 = n /\ n + 1 \in 0..N
        /\ Holds(n)
    BY <1>1, <1>4
  <2>2. W[n + 1] = W[n] \o lists[n + 1] /\ lists[n + 1] \in Seq(S)
    BY <1>1, <1>2, <2>1
  <2>3. W[n + 1] \in Seq(S)
    BY <2>1, <2>2, ConcatProperties
  <2>4. Range(W[n + 1]) = Range(W[n]) \cup Range(lists[n + 1])
    BY <2>1, <2>2, RangeConcatenation
  <2>5. \A k \in 1..(n + 1) : k \in 1..n \/ k = n + 1
    BY <2>1
  <2>6. 1..n \subseteq 1..(n + 1) /\ n + 1 \in 1..(n + 1)
    BY <2>1
  <2>7. Holds(n + 1)
    BY <2>1, <2>3, <2>4, <2>5, <2>6
  <2> HIDE DEF Holds
  <2> QED
    BY <2>1, <2>7
<1>5. 0..N \subseteq T
  <2> HIDE DEF T
  <2> QED
    BY <1>1, <1>3, <1>4, UpTo
<1>6. Holds(N)
  <2> HIDE DEF Holds
  <2> QED
    BY <1>1, <1>5
<1> QED
  BY <1>2, <1>6

(* at says where the first entry of each key stood.                        *)
Firsts(seq, keys, out, at) ==
  /\ at \in [1..Len(out) -> 1..Len(seq)]
  /\ \A k \in 1..Len(out) : out[k] = seq[at[k]]
  /\ \A k, l \in 1..Len(out) : keys[at[k]] = keys[at[l]] => k = l
  /\ \A i \in 1..Len(seq) : \E k \in 1..Len(out) : keys[at[k]] = keys[i]

LEMMA FirstOfEachFacts ==
  ASSUME NEW S, NEW seq \in Seq(S), NEW keys, NEW out, out = FirstOfEach(seq, keys)
  PROVE  /\ out \in Seq(S)
         /\ \E at : Firsts(seq, keys, out, at)
<1> DEFINE n == Len(seq)
           First(i) == \A j \in 1..(i - 1) : keys[j] # keys[i]
           T == {i \in 1..n : First(i)}
           at == Sorted(T)
<1>1. n \in Nat /\ DOMAIN seq = 1..n
  BY LenProperties
<1>2. T \in SUBSET (1..n) /\ T \subseteq Int /\ out = Kept(seq, T)
  BY <1>1 DEF FirstOfEach
<1>3. IsFiniteSet(T)
  <2>1. IsFiniteSet(1..n)
    BY <1>1, FS_Interval
  <2> HIDE DEF T
  <2> QED
    BY <1>2, <2>1, FS_Subset
<1> HIDE DEF T
<1>4. /\ at \in Seq(T) /\ Len(at) = Cardinality(T) /\ DOMAIN at = 1..Cardinality(T)
      /\ Range(at) = T
      /\ \A i, j \in 1..Cardinality(T) : at[i] = at[j] => i = j
  BY <1>2, <1>3, SortedFacts
<1>5. /\ out \in Seq(S) /\ Len(out) = Len(at)
      /\ \A k \in 1..Len(at) : out[k] = seq[at[k]]
  BY <1>2, KeptFacts
<1> DEFINE m == Len(out)
<1>6. /\ m \in Nat /\ DOMAIN at = 1..m /\ \A k \in 1..m : at[k] \in T
      /\ at \in [1..m -> T]
      /\ \A k, l \in 1..m : at[k] = at[l] => k = l
      /\ \A i \in T : \E k \in 1..m : at[k] = i
  BY <1>4, <1>5, LenProperties, ElementOfSeq DEF Range
<1> HIDE DEF at, m
<1>7. ASSUME NEW k \in 1..m, NEW l \in 1..m, keys[at[k]] = keys[at[l]]
      PROVE  k = l
  <2>1. at[k] \in 1..n /\ First(at[k]) /\ at[l] \in 1..n /\ First(at[l])
    BY <1>6 DEF T
  <2>2. at[k] \in Int /\ at[l] \in Int
    BY <2>1
  <2>3. ~(at[k] < at[l])
    <3> SUFFICES ASSUME at[k] < at[l] PROVE FALSE
      OBVIOUS
    <3>1. at[k] \in 1..(at[l] - 1)
      BY <2>1, <2>2
    <3> QED
      BY <1>7, <2>1, <3>1
  <2>4. ~(at[l] < at[k])
    <3> SUFFICES ASSUME at[l] < at[k] PROVE FALSE
      OBVIOUS
    <3>1. at[l] \in 1..(at[k] - 1)
      BY <2>1, <2>2
    <3> QED
      BY <1>7, <2>1, <3>1
  <2>5. at[k] = at[l]
    BY <2>2, <2>3, <2>4
  <2> QED
    BY <1>6, <2>5
<1>8. ASSUME NEW i \in 1..n
      PROVE  \E k \in 1..m : keys[at[k]] = keys[i]
  <2> DEFINE Q == {j \in 1..n : keys[j] = keys[i]}
  <2>1. Q \subseteq Nat /\ Q # {}
    OBVIOUS
  <2>2. PICK j \in Q : \A h \in Q : j <= h
    <3> HIDE DEF Q
    <3> QED
      BY <2>1, LeastNatural
  <2>3. ASSUME NEW h \in 1..(j - 1) PROVE keys[h] # keys[j]
    <3>1. j \in 1..n /\ h \in 1..n /\ ~(j <= h)
      BY <1>1, <2>2
    <3> QED
      BY <2>2, <3>1
  <2>4. j \in T
    BY <2>2, <2>3 DEF T
  <2>5. PICK k \in 1..m : at[k] = j
    BY <1>6, <2>4
  <2> QED
    BY <2>2, <2>5
<1>9. at \in [1..m -> 1..n]
  BY <1>2, <1>6
<1>10. \A k \in 1..m : out[k] = seq[at[k]]
  BY <1>5 DEF m
<1>11. Firsts(seq, keys, out, at)
  BY <1>7, <1>8, <1>9, <1>10 DEF m, Firsts
<1> QED
  BY <1>5, <1>11

LEMMA HeadAndTail ==
  ASSUME NEW S, NEW s \in Seq(S), s # << >>, ~Repeats(s)
  PROVE  /\ Head(s) \in S /\ Tail(s) \in Seq(S)
         /\ <<Head(s)>> \o Tail(s) = s
         /\ Head(s) \in Range(s) /\ Range(Tail(s)) \subseteq Range(s)
         /\ Range(s) \subseteq {Head(s)} \cup Range(Tail(s))
         /\ Head(s) \notin Range(Tail(s)) /\ ~Repeats(Tail(s))
<1> DEFINE n == Len(s)
           h == Head(s)
           t == Tail(s)
<1>1. /\ n \in Nat \ {0} /\ DOMAIN s = 1..n /\ h = s[1]
      /\ \A i \in 1..n : s[i] \in S
  BY EmptySeq, LenProperties, ElementOfSeq
<1>2. /\ h \in S /\ t \in Seq(S) /\ Len(t) = n - 1 /\ \A i \in 1..Len(t) : t[i] = s[i + 1]
  BY HeadTailProperties
<1>3. DOMAIN t = 1..(n - 1)
  BY <1>2, LenProperties
<1>4. <<h>> \o t = s
  <2>1. 1 \in 1..n /\ n \in 1..n /\ 1 + 1 = 2
    BY <1>1
  <2>2. SubSeq(s, 1, n) = <<s[1]>> \o SubSeq(s, 1 + 1, n)
    BY <2>1, SubSeqRecursiveFirst
  <2>3. SubSeq(s, 1, n) = s /\ t = SubSeq(s, 2, n)
    BY SubSeqFull, TailIsSubSeq
  <2> HIDE DEF h, t, n
  <2> QED
    BY <1>1, <2>1, <2>2, <2>3
<1>5. \A i, j \in 1..n : s[i] = s[j] => i = j
  BY <1>1, NoRepeats
<1> HIDE DEF n, h, t
<1>6. \A i \in 1..(n - 1) : i + 1 \in 1..n /\ i + 1 # 1 /\ i \in Int
  BY <1>1
<1>7. \A i \in 1..n : i = 1 \/ (i - 1 \in 1..(n - 1) /\ (i - 1) + 1 = i)
  BY <1>1
<1>8. 1 \in 1..n
  BY <1>1
<1>9. h \in Range(s) /\ Range(t) \subseteq Range(s)
  BY <1>1, <1>2, <1>3, <1>6, <1>8 DEF Range
<1>10. Range(s) \subseteq {h} \cup Range(t)
  <2> SUFFICES ASSUME NEW i \in 1..n PROVE s[i] = h \/ \E j \in DOMAIN t : t[j] = s[i]
    BY <1>1 DEF Range
  <2> QED
    BY <1>1, <1>2, <1>3, <1>7
<1>11. h \notin Range(t)
  <2> SUFFICES ASSUME NEW j \in 1..(n - 1), t[j] = h PROVE FALSE
    BY <1>3 DEF Range
  <2> QED
    BY <1>1, <1>2, <1>5, <1>6, <1>8
<1>12. ~Repeats(t)
  <2>1. \A i, j \in 1..Len(t) : t[i] = t[j] => i = j
    <3> SUFFICES ASSUME NEW i \in 1..(n - 1), NEW j \in 1..(n - 1), t[i] = t[j]
                 PROVE  i = j
      BY <1>2
    <3>1. i + 1 = j + 1
      BY <1>2, <1>5, <1>6
    <3>2. i \in Int /\ j \in Int
      OBVIOUS
    <3> QED
      BY <3>1, <3>2
  <2> QED
    BY <1>2, <2>1, Distinct
<1> QED
  BY <1>2, <1>4, <1>9, <1>10, <1>11, <1>12 DEF h, t

-----------------------------------------------------------------------------
(* The inputs gathered *)

(* of says where the kept entries stood.                                   *)
Stood(seq, at, out, of) ==
  /\ of \in [1..Len(out) -> at]
  /\ \A k \in 1..Len(out) : out[k] = seq[of[k]]
  /\ \A k, l \in 1..Len(out) : of[k] = of[l] => k = l
  /\ \A i \in at : \E k \in 1..Len(out) : of[k] = i

LEMMA KeptEntries ==
  ASSUME NEW S, NEW seq \in Seq(S), NEW at \in SUBSET (1..Len(seq)),
         NEW out, out = Kept(seq, at)
  PROVE  /\ out \in Seq(S) /\ Len(out) = Cardinality(at)
         /\ \E of : Stood(seq, at, out, of)
<1> DEFINE of == Sorted(at)
<1>1. at \subseteq Int /\ IsFiniteSet(at)
  <2>1. IsFiniteSet(1..Len(seq)) /\ 1..Len(seq) \subseteq Int
    BY LenProperties, FS_Interval
  <2> QED
    BY <2>1, FS_Subset
<1>2. /\ of \in Seq(at) /\ Len(of) = Cardinality(at) /\ DOMAIN of = 1..Cardinality(at)
      /\ Range(of) = at
      /\ \A i, j \in 1..Cardinality(at) : of[i] = of[j] => i = j
  BY <1>1, SortedFacts
<1>3. /\ out \in Seq(S) /\ Len(out) = Len(of)
      /\ \A k \in 1..Len(of) : out[k] = seq[of[k]]
  BY KeptFacts
<1> HIDE DEF of
<1>4. of \in [1..Len(out) -> at]
  BY <1>2, <1>3, LenProperties
<1>5. \A i \in at : \E k \in 1..Len(out) : of[k] = i
  BY <1>2, <1>3 DEF Range
<1>6. Stood(seq, at, out, of)
  BY <1>2, <1>3, <1>4, <1>5 DEF Stood
<1> QED
  BY <1>2, <1>3, <1>6

(* Accepted extras: one of a kind, sorted by it.                           *)
LEMMA SortedByKindFacts ==
  ASSUME NEW refs, NEW R, R = Range(refs), refs \in Seq(R),
         \A r \in R : r.kind \in Range(KindOrder),
         \A r, q \in R : r.kind = q.kind => r = q,
         NEW out, out = SortedByKind(refs)
  PROVE  /\ out \in Seq(R) /\ Range(out) = R
         /\ \A i, j \in 1..Len(out) : out[i].kind = out[j].kind => i = j
<1>1. /\ KindOrder \in Seq(Range(KindOrder)) /\ Len(KindOrder) = 4 /\ DOMAIN KindOrder = 1..4
      /\ \A i, j \in 1..4 : KindOrder[i] = KindOrder[j] => i = j
  BY DEF KindOrder, Range
<1>a. PICK at : at = {i \in DOMAIN KindOrder : \E r \in R : r.kind = KindOrder[i]}
  OBVIOUS
<1>2. at \in SUBSET (1..Len(KindOrder))
  BY <1>1, <1>a
<1>3. \A i \in at : i \in 1..4 /\ \E r \in R : r.kind = KindOrder[i]
  BY <1>1, <1>a
<1>4. \A r \in R : \E i \in at : KindOrder[i] = r.kind
  BY <1>1, <1>a DEF Range
<1>b. PICK kinds : kinds = Kept(KindOrder, at)
  OBVIOUS
<1> DEFINE n == Len(kinds)
           e(i) == CHOOSE r \in R : r.kind = kinds[i]
<1>5. /\ kinds \in Seq(Range(KindOrder))
      /\ \E of : Stood(KindOrder, at, kinds, of)
  <2>1. PICK order : order = KindOrder
    OBVIOUS
  <2>2. order \in Seq(Range(order)) /\ at \in SUBSET (1..Len(order)) /\ kinds = Kept(order, at)
    BY <1>1, <1>2, <1>b, <2>1
  <2>3. /\ kinds \in Seq(Range(order))
        /\ \E of : Stood(order, at, kinds, of)
    BY <2>2, KeptEntries
  <2> QED
    BY <2>1, <2>3
<1>6. n \in Nat /\ DOMAIN kinds = 1..n
  BY <1>5, LenProperties
<1> HIDE DEF n
<1>c. PICK of \in [1..n -> at] :
       /\ \A k \in 1..n : kinds[k] = KindOrder[of[k]]
       /\ \A k, l \in 1..n : of[k] = of[l] => k = l
       /\ \A i \in at : \E k \in 1..n : of[k] = i
  BY <1>5 DEF Stood, n
<1>7. \A k, l \in 1..n : kinds[k] = kinds[l] => k = l
  BY <1>1, <1>3, <1>c
<1>8. \A k \in 1..n : \E r \in R : r.kind = kinds[k]
  BY <1>3, <1>c
<1>9. \A r \in R : \E k \in 1..n : kinds[k] = r.kind
  BY <1>4, <1>c
<1>10. out = [i \in 1..n |-> e(i)]
  BY <1>6, <1>a, <1>b DEF SortedByKind
<1>11. \A i \in 1..n : e(i) \in R /\ e(i).kind = kinds[i]
  BY <1>8
<1> HIDE DEF e
<1>12. /\ out \in Seq(R) /\ Len(out) = n /\ DOMAIN out = 1..n
       /\ \A i \in 1..n : out[i] \in R /\ out[i].kind = kinds[i]
  <2>1. out \in [1..n -> R]
    BY <1>10, <1>11
  <2>2. out \in Seq(R) /\ Len(out) = n
    BY <1>6, <2>1
  <2> QED
    BY <1>10, <1>11, <2>1, <2>2
<1>13. R \subseteq Range(out)
  <2>1. ASSUME NEW r \in R
        PROVE  \E k \in 1..n : out[k] = r
    <3>1. PICK k \in 1..n : kinds[k] = r.kind
      BY <1>9
    <3> QED
      BY <1>12, <3>1
  <2> QED
    BY <1>12, <2>1, RangeEquality
<1>14. Range(out) \subseteq R
  BY <1>12, RangeOfSeq
<1>15. ASSUME NEW i \in 1..n, NEW j \in 1..n, out[i].kind = out[j].kind
       PROVE  i = j
  BY <1>7, <1>12, <1>15
<1> QED
  BY <1>12, <1>13, <1>14, <1>15

-----------------------------------------------------------------------------
(* The invariant of a build *)

LEMMA SameRequest ==
  ASSUME request' = request
  PROVE  /\ GraphCells' = GraphCells
         /\ GraphIssues(request)' = GraphIssues(request)
         /\ Gathered' = Gathered
         /\ ExtrasAccepted(request.extras)' = ExtrasAccepted(request.extras)
         /\ \A c : CandidatesFor(c)' = CandidatesFor(c) /\ Key(c)' = Key(c)
         /\ \A c, d : Acceptable(c, d)' = Acceptable(c, d)
<1>1. GraphCells' = GraphCells
  BY DEF GraphCells
<1>2. Gathered' = Gathered
  BY DEF Gathered
<1>3. \A c : CandidatesFor(c)' = CandidatesFor(c) /\ Key(c)' = Key(c)
  BY DEF CandidatesFor, Key
<1>4. \A c, d : Acceptable(c, d)' = Acceptable(c, d)
  BY <1>3 DEF Acceptable
<1>5. /\ GraphIssues(request)' = GraphIssues(request)
      /\ ExtrasAccepted(request.extras)' = ExtrasAccepted(request.extras)
  OBVIOUS
<1> QED
  BY <1>1, <1>2, <1>3, <1>4, <1>5

LEMMA SameAssembly ==
  ASSUME request' = request, references' = references, decisions' = decisions
  PROVE  /\ Assembled' = Assembled
         /\ \A c : Composable(c)' = Composable(c)
<1>1. \A k : OfKind(k)' = OfKind(k)
  BY DEF OfKind
<1>2. \A c : Composable(c)' = Composable(c)
  BY <1>1 DEF Composable
<1>3. \A c : InputsFor(c)' = InputsFor(c)
  BY <1>1 DEF InputsFor
<1>4. \A n : NodeFor(n)' = NodeFor(n)
  BY <1>3 DEF NodeFor, Key
<1>5. PlanBindings' = PlanBindings
  BY DEF PlanBindings
<1> QED
  BY <1>2, <1>4, <1>5 DEF Assembled

LEMMA BuildStarts == Init => BuildInv
<1> SUFFICES ASSUME Init PROVE BuildInv
  OBVIOUS
<1>1. /\ request \in Requests /\ phase = "gathering" /\ decisions = << >>
      /\ plan = NoPlan /\ refusal = {}
  BY DEF Init
<1>2. Placed = {}
  BY <1>1 DEF Placed
<1> QED
  BY <1>1, <1>2 DEF BuildInv, Phases, InputsGathered, GraphAccepted, CellsPlaced, PlanAssembled

LEMMA RefusalKeeps ==
  ASSUME BuildInv, NEW codes, codes # {}, Refuse(codes)
  PROVE  BuildInv'
<1>1. /\ request' = request /\ decisions' = decisions /\ plan' = plan
      /\ phase' = "refused" /\ refusal' = codes
  BY DEF Refuse
<1>2. Placed' = Placed
  BY <1>1 DEF Placed
<1>3. CellsPlaced'
  BY <1>1, <1>2, SameRequest DEF BuildInv, CellsPlaced
<1>4. InputsGathered' /\ GraphAccepted' /\ PlanAssembled'
  BY <1>1 DEF InputsGathered, GraphAccepted, PlanAssembled
<1> QED
  BY <1>1, <1>3, <1>4 DEF BuildInv, Phases

LEMMA PlacingKeeps ==
  ASSUME BuildInv, NEW cell \in GraphCells, NEW d \in Decisions, Place(cell, d)
  PROVE  BuildInv'
<1>1. /\ phase = "placing" /\ cell \in GraphCells \ Placed /\ Acceptable(cell, d)
      /\ decisions' = [c \in Placed \cup {cell} |->
                         IF c = cell THEN d.ladder ELSE decisions[c]]
      /\ phase' = IF Placed \cup {cell} = GraphCells THEN "composing" ELSE "placing"
      /\ request' = request /\ references' = references /\ plan' = plan /\ refusal' = refusal
  BY DEF Place, IsNextCell
<1>2. Placed' = Placed \cup {cell}
  BY <1>1 DEF Placed
<1>3. CellsPlaced'
  <2>1. \A c \in Placed' : \E e \in Decisions : Acceptable(c, e) /\ decisions'[c] = e.ladder
    BY <1>1, <1>2 DEF BuildInv, CellsPlaced
  <2>2. \A c \in Placed' : \E e \in Decisions : Acceptable(c, e)' /\ decisions'[c] = e.ladder
    BY <1>1, <2>1, SameRequest
  <2>3. /\ Placed' \subseteq GraphCells'
        /\ phase' \in {"composing", "validating", "built"} => Placed' = GraphCells'
    BY <1>1, <1>2, SameRequest DEF BuildInv, CellsPlaced
  <2>4. phase' \notin {"gathering", "graph"}
    BY <1>1
  <2> QED
    BY <2>2, <2>3, <2>4 DEF CellsPlaced
<1>4. phase' \in {"composing", "placing"}
  BY <1>1
<1>5. InputsGathered' /\ GraphAccepted' /\ PlanAssembled'
  BY <1>1, <1>4, SameRequest
     DEF BuildInv, InputsGathered, GraphAccepted, PlanAssembled
<1> QED
  BY <1>1, <1>3, <1>4, <1>5 DEF BuildInv, Phases

LEMMA BuildSteps ==
  ASSUME BuildInv, [Next]_vars
  PROVE  BuildInv'
<1> USE DEF Phases
<1>1. CASE GatherInputs
  <2>1. /\ phase = "gathering" /\ phase' = "graph"
        /\ request.engine => ExtrasAccepted(request.extras)
        /\ references' = Gathered
        /\ request' = request /\ decisions' = decisions /\ plan' = plan /\ refusal' = refusal
    BY <1>1 DEF GatherInputs, Gathered
  <2>2. Placed' = Placed /\ Placed = {}
    BY <2>1 DEF Placed, BuildInv, CellsPlaced
  <2>3. CellsPlaced'
    BY <2>1, <2>2, SameRequest DEF BuildInv, CellsPlaced
  <2>4. InputsGathered' /\ GraphAccepted' /\ PlanAssembled'
    BY <2>1, SameRequest DEF BuildInv, InputsGathered, GraphAccepted, PlanAssembled
  <2> QED
    BY <2>1, <2>3, <2>4 DEF BuildInv
<1>2. CASE RefuseExtras
  BY <1>2, RefusalKeeps DEF RefuseExtras
<1>3. CASE AcceptGraph
  <2>1. /\ phase = "graph" /\ phase' = "placing" /\ GraphIssues(request) = {}
        /\ request' = request /\ references' = references /\ decisions' = decisions
        /\ plan' = plan /\ refusal' = refusal
    BY <1>3 DEF AcceptGraph
  <2>2. Placed' = Placed
    BY <2>1 DEF Placed
  <2>3. CellsPlaced'
    BY <2>1, <2>2, SameRequest DEF BuildInv, CellsPlaced
  <2>4. InputsGathered' /\ GraphAccepted' /\ PlanAssembled'
    BY <2>1, SameRequest DEF BuildInv, InputsGathered, GraphAccepted, PlanAssembled
  <2> QED
    BY <2>1, <2>3, <2>4 DEF BuildInv
<1>4. CASE RefuseGraph
  BY <1>4, RefusalKeeps DEF RefuseGraph
<1>5. CASE \E cell \in GraphCells, d \in Decisions : Place(cell, d)
  BY <1>5, PlacingKeeps
<1>6. CASE \E cell \in GraphCells : RefusePlacement(cell)
  <2>1. Refuse({"placement_unavailable"})
    BY <1>6 DEF RefusePlacement
  <2> QED
    BY <2>1, RefusalKeeps
<1>7. CASE ComposeInputs
  <2>1. /\ phase = "composing" /\ phase' = "validating"
        /\ \A cell \in GraphCells : Composable(cell)
        /\ plan' = Assembled
        /\ request' = request /\ references' = references /\ decisions' = decisions
        /\ refusal' = refusal
    BY <1>7 DEF ComposeInputs, Assembled
  <2>2. Placed' = Placed
    BY <2>1 DEF Placed
  <2>3. CellsPlaced'
    BY <2>1, <2>2, SameRequest DEF BuildInv, CellsPlaced
  <2>4. InputsGathered' /\ GraphAccepted'
    BY <2>1, SameRequest DEF BuildInv, InputsGathered, GraphAccepted
  <2>5. PlanAssembled'
    BY <2>1, SameRequest, SameAssembly DEF PlanAssembled
  <2> QED
    BY <2>1, <2>3, <2>4, <2>5 DEF BuildInv
<1>8. CASE RefuseInputs
  BY <1>8, RefusalKeeps DEF RefuseInputs
<1>9. CASE AcceptPlan
  <2>1. /\ phase = "validating" /\ phase' = "built" /\ ValidationIssues(plan) = {}
        /\ request' = request /\ references' = references /\ decisions' = decisions
        /\ plan' = plan /\ refusal' = refusal
    BY <1>9 DEF AcceptPlan
  <2>2. Placed' = Placed
    BY <2>1 DEF Placed
  <2>3. CellsPlaced'
    BY <2>1, <2>2, SameRequest DEF BuildInv, CellsPlaced
  <2>4. InputsGathered' /\ GraphAccepted'
    BY <2>1, SameRequest DEF BuildInv, InputsGathered, GraphAccepted
  <2>5. PlanAssembled'
    BY <2>1, SameRequest, SameAssembly DEF BuildInv, PlanAssembled
  <2> QED
    BY <2>1, <2>3, <2>4, <2>5 DEF BuildInv
<1>10. CASE RefusePlan
  BY <1>10, RefusalKeeps DEF RefusePlan
<1>11. CASE UNCHANGED vars
  <2>1. /\ request' = request /\ references' = references /\ decisions' = decisions
        /\ plan' = plan /\ refusal' = refusal /\ phase' = phase
    BY <1>11 DEF vars
  <2>2. Placed' = Placed
    BY <2>1 DEF Placed
  <2>3. CellsPlaced' /\ InputsGathered' /\ GraphAccepted' /\ PlanAssembled'
    BY <2>1, <2>2, SameRequest, SameAssembly
       DEF BuildInv, CellsPlaced, InputsGathered, GraphAccepted, PlanAssembled
  <2> QED
    BY <2>1, <2>3 DEF BuildInv
<1> QED
  BY <1>1, <1>2, <1>3, <1>4, <1>5, <1>6, <1>7, <1>8, <1>9, <1>10, <1>11 DEF Next

LEMMA BuildInvariance == Spec => []BuildInv
BY BuildStarts, BuildSteps, PTL DEF Spec

-----------------------------------------------------------------------------
(* What follows from an accepted graph and from accepted answers *)

LEMMA AcceptedGraph ==
  ASSUME NEW g, GraphIssues(g) = {}
  PROVE  /\ Len(g.nodes) = Cardinality(Ids(g.nodes))
         /\ RootIssues(g) = {} /\ CycleIssues(g) = {} /\ ReachabilityIssues(g) = {}
         /\ \A n \in Range(g.nodes) : DependencyIssues(g, n) = {} /\ n.cell \in DOMAIN g.manifests
         /\ \A o \in Range(g.organs) : OrganIssues(g, o) = {}
<1>1. /\ Code("duplicate_node_id", Len(g.nodes) # Cardinality(Ids(g.nodes))) = {}
      /\ RootIssues(g) = {} /\ CycleIssues(g) = {} /\ ReachabilityIssues(g) = {}
      /\ \A n \in Range(g.nodes) : GraphNodeIssues(g, n) = {}
      /\ \A o \in Range(g.organs) : OrganIssues(g, o) = {}
  BY DEF GraphIssues
<1>2. \A n \in Range(g.nodes) :
        /\ DependencyIssues(g, n) = {}
        /\ Code("missing_cell_implementation", n.cell \notin DOMAIN g.manifests) = {}
  BY <1>1 DEF GraphNodeIssues
<1> QED
  BY <1>1, <1>2 DEF Code

(* A validated Organ has the closure of its outputs, in the whole graph,   *)
(* as its members: whatever the graph, and whatever the order in which the *)
(* validator looks at it (graph/validation.py).                            *)
THEOREM OrgansHoldTheirClosure == Spec => []OrgansAreClosed
<1>1. BuildInv => OrgansAreClosed
  <2> SUFFICES ASSUME BuildInv, phase = "placing", NEW o \in Range(request.organs)
               PROVE  Range(o.members) = DependencyClosure(Graph(request), Range(o.outputs))
    BY DEF OrgansAreClosed
  <2>1. HasGraph(request) /\ o.members \in Seq(Int) /\ o.outputs \in Seq(Int)
    BY RequestsAssumption DEF BuildInv
  <2>2. OrganIssues(request, o) = {}
    BY AcceptedGraph DEF BuildInv, GraphAccepted
  <2> QED
    BY <2>1, <2>2, OrganClosed
<1> QED
  BY <1>1, BuildInvariance, PTL

(* A ladder the planner accepted for a Cell.                               *)
LadderOf(cell, l) ==
  /\ l \in Seq(Catalog) /\ l # << >>
  /\ \A b \in Range(l) : b \in Catalog /\ b.cell = Key(cell)
  /\ ~Repeats(LadderIds(l))

LEMMA AcceptedLadder ==
  ASSUME BuildInv, NEW c \in Placed
  PROVE  LadderOf(c, decisions[c])
<1>1. PICK d \in Decisions : Acceptable(c, d) /\ decisions[c] = d.ladder
  BY DEF BuildInv, CellsPlaced
<1>2. PICK l, R : l = d.ladder /\ R = Range(l)
  OBVIOUS
<1>3. /\ l # << >> /\ l \in Seq(R)
  BY <1>2, DecisionsAssumption
<1>4. R \subseteq Catalog /\ \A b \in R : b.cell = Key(c)
  BY <1>1, <1>2 DEF Acceptable, CandidatesFor
<1>5. l \in Seq(Catalog)
  BY <1>3, <1>4
<1> QED
  BY <1>1, <1>2, <1>3, <1>4, <1>5 DEF LadderOf, Acceptable

(* The bindings of a plan are those of its ladders, each once.             *)
LEMMA BindingsFacts ==
  ASSUME BuildInv, Placed = GraphCells, NEW out, out = PlanBindings
  PROVE  /\ out \in Seq(Catalog)
         /\ \A k, l \in 1..Len(out) : out[k].id = out[l].id => k = l
         /\ \A c \in GraphCells : Range(decisions[c]) \subseteq Range(out)
         /\ \A b \in Range(out) : \E c \in GraphCells : b \in Range(decisions[c])
<1>a. PICK nodes, n : nodes = request.nodes /\ n = Len(nodes)
  OBVIOUS
<1>1. /\ n \in Nat /\ DOMAIN nodes = 1..n
      /\ \A i \in 1..n : nodes[i].cell \in GraphCells
      /\ \A c \in GraphCells : \E i \in 1..n : nodes[i].cell = c
  <2>1. nodes \in Seq(Range(nodes))
    BY <1>a, RequestsAssumption DEF BuildInv, HasGraph
  <2>2. n \in Nat /\ DOMAIN nodes = 1..n
    BY <1>a, <2>1, LenProperties
  <2> QED
    BY <1>a, <2>2 DEF GraphCells, Range
<1>b. PICK named : named = [i \in 1..n |-> nodes[i].cell]
  OBVIOUS
<1>2. named \in Seq(GraphCells) /\ Len(named) = n
  <2>1. named \in [1..n -> GraphCells]
    BY <1>1, <1>b
  <2> QED
    BY <1>1, <2>1
<1>c. PICK cells : cells = FirstOfEach(named, named)
  OBVIOUS
<1>3. /\ cells \in Seq(GraphCells)
      /\ \A c \in GraphCells : \E k \in 1..Len(cells) : cells[k] = c
  <2>1. cells \in Seq(GraphCells)
    BY <1>2, <1>c, FirstOfEachFacts
  <2>2. PICK at : Firsts(named, named, cells, at)
    BY <1>2, <1>c, FirstOfEachFacts
  <2>3. ASSUME NEW c \in GraphCells
        PROVE  \E k \in 1..Len(cells) : cells[k] = c
    <3>1. PICK i \in 1..n : named[i] = c
      BY <1>1, <1>b
    <3>2. PICK k \in 1..Len(cells) : named[at[k]] = named[i]
      BY <1>2, <2>2 DEF Firsts
    <3> QED
      BY <2>2, <3>1, <3>2 DEF Firsts
  <2> QED
    BY <2>1, <2>3
<1>d. PICK lists : lists = [i \in DOMAIN cells |-> decisions[cells[i]]]
  OBVIOUS
<1>4. /\ Len(cells) \in Nat /\ DOMAIN cells = 1..Len(cells)
      /\ \A k \in 1..Len(cells) : cells[k] \in GraphCells
  BY <1>3, LenProperties, ElementOfSeq
<1>5. \A c \in GraphCells : decisions[c] \in Seq(Catalog)
  BY AcceptedLadder DEF LadderOf
<1>6. lists \in Seq(Seq(Catalog)) /\ Len(lists) = Len(cells)
      /\ \A k \in 1..Len(cells) : lists[k] = decisions[cells[k]]
  <2>1. lists \in [1..Len(cells) -> Seq(Catalog)]
    BY <1>4, <1>5, <1>d
  <2> QED
    BY <1>4, <1>d, <2>1
<1>e. PICK all : all = Joined(lists)
  OBVIOUS
<1>7. /\ all \in Seq(Catalog)
      /\ \A b \in Range(all) : \E c \in GraphCells : b \in Range(decisions[c])
      /\ \A c \in GraphCells : Range(decisions[c]) \subseteq Range(all)
  <2>1. /\ all \in Seq(Catalog)
        /\ \A x \in Range(all) : \E k \in 1..Len(lists) : x \in Range(lists[k])
        /\ \A k \in 1..Len(lists) : Range(lists[k]) \subseteq Range(all)
    BY <1>6, <1>e, JoinedFacts
  <2>2. \A k \in 1..Len(lists) : cells[k] \in GraphCells /\ lists[k] = decisions[cells[k]]
    BY <1>4, <1>6
  <2>3. ASSUME NEW c \in GraphCells
        PROVE  \E k \in 1..Len(lists) : lists[k] = decisions[c]
    <3>1. PICK k \in 1..Len(cells) : cells[k] = c
      BY <1>3
    <3> QED
      BY <1>6, <3>1
  <2> QED
    BY <2>1, <2>2, <2>3
<1>f. PICK keys : keys = LadderIds(all)
  OBVIOUS
<1>8. out = FirstOfEach(all, keys)
  <2>1. named = [i \in DOMAIN request.nodes |-> request.nodes[i].cell]
    BY <1>a, <1>b, <1>1
  <2> QED
    BY <1>c, <1>d, <1>e, <1>f, <2>1 DEF PlanBindings
<1>9. /\ Len(all) \in Nat /\ DOMAIN all = 1..Len(all)
      /\ \A i \in 1..Len(all) : keys[i] = all[i].id /\ all[i] \in Catalog
  <2>1. Len(all) \in Nat /\ DOMAIN all = 1..Len(all)
    BY <1>7, LenProperties
  <2>2. \A i \in 1..Len(all) : all[i] \in Catalog
    BY <1>7, ElementOfSeq
  <2>3. \A i \in 1..Len(all) : keys[i] = all[i].id
    BY <2>1, <1>f DEF LadderIds
  <2> QED
    BY <2>1, <2>2, <2>3
<1>10. out \in Seq(Catalog)
  BY <1>7, <1>8, FirstOfEachFacts
<1>h. PICK at : Firsts(all, keys, out, at)
  BY <1>7, <1>8, FirstOfEachFacts
<1>g. /\ at \in [1..Len(out) -> 1..Len(all)]
      /\ \A k \in 1..Len(out) : out[k] = all[at[k]]
      /\ \A k, l \in 1..Len(out) : keys[at[k]] = keys[at[l]] => k = l
      /\ \A i \in 1..Len(all) : \E k \in 1..Len(out) : keys[at[k]] = keys[i]
  BY <1>h DEF Firsts
<1>11. ASSUME NEW k \in 1..Len(out), NEW l \in 1..Len(out), out[k].id = out[l].id
       PROVE  k = l
  <2>1. at[k] \in 1..Len(all) /\ at[l] \in 1..Len(all)
    BY <1>g
  <2>2. keys[at[k]] = out[k].id /\ keys[at[l]] = out[l].id
    BY <1>9, <1>g, <2>1
  <2> QED
    BY <1>g, <1>11, <2>2
<1>12. DOMAIN out = 1..Len(out)
  BY <1>10, LenProperties
<1>13. Range(all) \subseteq Range(out)
  <2>1. ASSUME NEW i \in 1..Len(all)
        PROVE  \E k \in 1..Len(out) : out[k] = all[i]
    <3>1. PICK k \in 1..Len(out) : keys[at[k]] = keys[i]
      BY <1>g
    <3>2. out[k] = all[at[k]] /\ at[k] \in 1..Len(all)
      BY <1>g
    <3>3. out[k] \in Catalog /\ all[i] \in Catalog /\ out[k].id = all[i].id
      BY <1>9, <3>1, <3>2
    <3> QED
      BY <3>3, CatalogAssumption
  <2>2. \A b \in Range(all) : \E i \in 1..Len(all) : all[i] = b
    BY <1>9 DEF Range
  <2>3. \A k \in 1..Len(out) : out[k] \in Range(out)
    BY <1>12 DEF Range
  <2> QED
    BY <2>1, <2>2, <2>3
<1>14. Range(out) \subseteq Range(all)
  BY <1>9, <1>12, <1>g DEF Range
<1> QED
  BY <1>7, <1>10, <1>11, <1>13, <1>14

(* A node of the plan takes its ladder from the decision for its Cell.     *)
LEMMA NodeLadder ==
  ASSUME BuildInv, Placed = GraphCells, NEW m \in Range(request.nodes),
         NEW n, n = NodeFor(m), NEW l, l = decisions[m.cell], NEW ids, ids = LadderIds(l)
  PROVE  /\ m.cell \in GraphCells /\ LadderOf(m.cell, l)
         /\ <<n.binding>> \o n.fallbacks = ids /\ ~Repeats(ids)
         /\ n.binding \notin Range(n.fallbacks) /\ ~Repeats(n.fallbacks)
         /\ Range(ids) = {n.binding} \cup Range(n.fallbacks)
<1>1. m.cell \in GraphCells
  BY DEF GraphCells
<1>2. LadderOf(m.cell, l)
  BY <1>1, AcceptedLadder
<1>3. n.binding = Head(ids) /\ n.fallbacks = Tail(ids)
  BY DEF NodeFor
<1>4. l \in Seq(Catalog) /\ Len(l) \in Nat /\ l # << >> /\ ~Repeats(ids)
  BY <1>2, LenProperties DEF LadderOf
<1>a. PICK S : \A b \in Catalog : b.id \in S
  <2>1. \A b \in Catalog : b.id \in {e.id : e \in Catalog}
    OBVIOUS
  <2> QED
    BY <2>1
<1>5. ids \in Seq(S) /\ Len(ids) = Len(l)
  <2>1. DOMAIN l = 1..Len(l) /\ \A i \in 1..Len(l) : l[i] \in Catalog
    BY <1>4, LenProperties, ElementOfSeq
  <2>2. ids \in [1..Len(l) -> S]
    BY <1>a, <2>1 DEF LadderIds
  <2> QED
    BY <1>4, <2>2
<1>6. ids # << >>
  BY <1>4, <1>5, EmptySeq
<1>7. /\ <<Head(ids)>> \o Tail(ids) = ids
      /\ Head(ids) \in Range(ids) /\ Range(Tail(ids)) \subseteq Range(ids)
      /\ Range(ids) \subseteq {Head(ids)} \cup Range(Tail(ids))
      /\ Head(ids) \notin Range(Tail(ids)) /\ ~Repeats(Tail(ids))
  BY <1>4, <1>5, <1>6, HeadAndTail
<1> QED
  BY <1>1, <1>2, <1>3, <1>4, <1>7

(* What an id of a ladder names in the plan.                               *)
LEMMA LadderResolves ==
  ASSUME BuildInv, Placed = GraphCells, NEW c \in GraphCells,
         NEW x \in Range(LadderIds(decisions[c])),
         NEW bindings, bindings = PlanBindings
  PROVE  /\ x \in Ids(bindings)
         /\ ById(bindings)[x] \in Catalog
         /\ ById(bindings)[x].id = x /\ ById(bindings)[x].cell = Key(c)
<1>a. PICK l : l = decisions[c]
  OBVIOUS
<1>1. LadderOf(c, l)
  BY <1>a, AcceptedLadder
<1>2. l \in Seq(Catalog) /\ \A b \in Range(l) : b \in Catalog /\ b.cell = Key(c)
  BY <1>1 DEF LadderOf
<1>3. PICK b \in Range(l) : b.id = x
  <2>1. Len(l) \in Nat /\ DOMAIN l = 1..Len(l)
    BY <1>2, LenProperties
  <2> QED
    BY <1>a, <2>1 DEF LadderIds, Range
<1>4. bindings \in Seq(Catalog) /\ Range(l) \subseteq Range(bindings)
  BY <1>a, BindingsFacts
<1>5. x \in Ids(bindings)
  BY <1>3, <1>4 DEF Ids, Range
<1>6. ById(bindings)[x] \in Range(bindings) /\ ById(bindings)[x].id = x
  BY <1>4, <1>5, ByIdFacts
<1>7. Range(bindings) \subseteq Catalog
  BY <1>4, RangeOfSeq
<1>8. ById(bindings)[x] = b
  BY <1>2, <1>3, <1>6, <1>7, CatalogAssumption
<1> QED
  BY <1>2, <1>3, <1>5, <1>6, <1>7, <1>8

LEMMA PlanNodes ==
  ASSUME BuildInv, phase \in {"validating", "built"}
  PROVE  /\ Placed = GraphCells
         /\ plan.bindings = PlanBindings /\ plan.references = references
         /\ plan.root = request.root
         /\ \A n \in Range(plan.nodes) : \E m \in Range(request.nodes) : n = NodeFor(m)
         /\ \A m \in Range(request.nodes) : NodeFor(m) \in Range(plan.nodes)
<1>1. plan = Assembled /\ Placed = GraphCells
  BY DEF BuildInv, PlanAssembled, CellsPlaced
<1>2. /\ plan.nodes = [i \in DOMAIN request.nodes |-> NodeFor(request.nodes[i])]
      /\ plan.bindings = PlanBindings /\ plan.references = references
      /\ plan.root = request.root
  BY <1>1 DEF Assembled
<1> HIDE DEF NodeFor
<1>3. /\ \A n \in Range(plan.nodes) : \E m \in Range(request.nodes) : n = NodeFor(m)
      /\ \A m \in Range(request.nodes) : NodeFor(m) \in Range(plan.nodes)
  BY <1>2 DEF Range
<1> QED
  BY <1>1, <1>2, <1>3

(* Whatever the policy answers, and whatever the catalog holds: what the   *)
(* ladders of a built plan name is the catalog's own entry, for the Cell   *)
(* and formula version of the node (execution/planner.py, _place).         *)
THEOREM LaddersComeFromTheCatalog == Spec => []LaddersAreCatalogued
<1>1. BuildInv => LaddersAreCatalogued
  <2> SUFFICES ASSUME BuildInv, phase = "built", NEW n \in Range(plan.nodes)
               PROVE  LET ladder == <<n.binding>> \o n.fallbacks
                      IN  /\ ~Repeats(ladder)
                          /\ \A id \in Range(ladder) : \E b \in Catalog :
                               b.id = id /\ b = ById(plan.bindings)[id] /\ b.cell = n.cell
    BY DEF LaddersAreCatalogued
  <2>1. Placed = GraphCells /\ plan.bindings = PlanBindings
    BY PlanNodes
  <2>2. PICK m \in Range(request.nodes) : n = NodeFor(m)
    BY PlanNodes
  <2>3. n.cell = Key(m.cell)
    BY <2>2 DEF NodeFor
  <2>a. PICK ids : ids = LadderIds(decisions[m.cell])
    OBVIOUS
  <2>4. m.cell \in GraphCells /\ <<n.binding>> \o n.fallbacks = ids /\ ~Repeats(ids)
    BY <2>1, <2>2, <2>a, NodeLadder
  <2>5. \A id \in Range(ids) :
          LET b == ById(plan.bindings)[id]
          IN  b \in Catalog /\ b.id = id /\ b.cell = n.cell
    BY <2>1, <2>3, <2>4, <2>a, LadderResolves
  <2> QED
    BY <2>4, <2>5
<1> QED
  BY <1>1, BuildInvariance, PTL

-----------------------------------------------------------------------------
(* The plan's graph is the request's *)

LEMMA ByIdIsFirst ==
  ASSUME NEW S, NEW seq \in Seq(S), NEW x \in Ids(seq)
  PROVE  \E i \in 1..Len(seq) :
           /\ ById(seq)[x] = seq[i] /\ seq[i].id = x
           /\ \A j \in 1..Len(seq) : seq[j].id = x => i <= j
<1> DEFINE n == Len(seq)
           First(i) == seq[i].id = x /\ \A j \in 1..n : seq[j].id = x => i <= j
           T == {i \in 1..n : seq[i].id = x}
           at == CHOOSE i \in 1..n : First(i)
<1>1. n \in Nat /\ DOMAIN seq = 1..n
  BY LenProperties
<1>2. T \subseteq Nat /\ T # {}
  BY <1>1 DEF Ids
<1>3. PICK i \in T : \A j \in T : i <= j
  <2> HIDE DEF T
  <2> QED
    BY <1>2, LeastNatural
<1>4. i \in 1..n /\ First(i)
  BY <1>3
<1>5. at \in 1..n /\ First(at)
  <2> HIDE DEF First
  <2> QED
    BY <1>4
<1>6. ById(seq)[x] = seq[at]
  BY <1>1 DEF ById
<1> HIDE DEF at
<1> QED
  BY <1>5, <1>6

LEMMA SameIdsSameEntry ==
  ASSUME NEW S, NEW T, NEW s \in Seq(S), NEW t \in Seq(T),
         Len(s) = Len(t), \A i \in 1..Len(s) : s[i].id = t[i].id
  PROVE  /\ Ids(s) = Ids(t)
         /\ \A x \in Ids(s) : \E i \in 1..Len(s) : ById(s)[x] = s[i] /\ ById(t)[x] = t[i]
<1>1. Len(s) \in Nat /\ DOMAIN s = 1..Len(s) /\ DOMAIN t = 1..Len(s)
  BY LenProperties
<1>2. Ids(s) = Ids(t)
  BY <1>1 DEF Ids
<1>3. ASSUME NEW x \in Ids(s)
      PROVE  \E i \in 1..Len(s) : ById(s)[x] = s[i] /\ ById(t)[x] = t[i]
  <2>1. PICK i \in 1..Len(s) :
           /\ ById(s)[x] = s[i] /\ s[i].id = x
           /\ \A j \in 1..Len(s) : s[j].id = x => i <= j
    BY ByIdIsFirst
  <2>2. PICK k \in 1..Len(t) :
           /\ ById(t)[x] = t[k] /\ t[k].id = x
           /\ \A j \in 1..Len(t) : t[j].id = x => k <= j
    BY <1>2, ByIdIsFirst
  <2>3. i <= k /\ k <= i
    BY <2>1, <2>2
  <2> QED
    BY <1>1, <2>1, <2>2, <2>3
<1> QED
  BY <1>2, <1>3

LEMMA PlanKeepsGraph ==
  ASSUME BuildInv, phase \in {"validating", "built"}
  PROVE  /\ HasGraph(plan) /\ Len(plan.nodes) = Len(request.nodes)
         /\ Ids(plan.nodes) = Ids(request.nodes)
         /\ \A x \in Ids(plan.nodes) :
              ById(plan.nodes)[x].role = ById(request.nodes)[x].role
         /\ Graph(plan) = Graph(request)
<1>a. PICK s, t, R, P, n : /\ s = request.nodes /\ R = Range(s) /\ n = Len(s)
                           /\ t = plan.nodes /\ P = Range(t)
  OBVIOUS
<1>0. HasGraph(request)
  BY RequestsAssumption DEF BuildInv
<1>1. /\ s \in Seq(R) /\ n \in Nat /\ DOMAIN s = 1..n
      /\ \A i \in 1..n : s[i] \in R
  <2>1. s \in Seq(R)
    BY <1>a, <1>0 DEF HasGraph
  <2> QED
    BY <1>a, <2>1, LenProperties, ElementOfSeq
<1>2. t = [i \in 1..n |-> NodeFor(s[i])]
  <2>1. plan = Assembled
    BY DEF BuildInv, PlanAssembled
  <2> QED
    BY <1>a, <1>1, <2>1 DEF Assembled
<1>3. /\ DOMAIN t = 1..n /\ \A i \in 1..n : t[i] = NodeFor(s[i])
  BY <1>2
<1> DEFINE Same(m, k) == m.id = k.id /\ m.role = k.role /\ m.dependencies = k.dependencies
<1>4. \A i \in 1..n : Same(s[i], t[i])
  BY <1>3 DEF NodeFor
<1>5. t \in Seq(P) /\ Len(t) = n
  <2>1. \A i \in 1..n : t[i] \in P
    BY <1>a, <1>3 DEF Range
  <2>2. t \in [1..n -> P]
    BY <1>2, <1>3, <2>1
  <2> QED
    BY <1>1, <2>2
<1>6. HasGraph(plan)
  <2>1. ASSUME NEW m \in P
        PROVE  /\ m.id \in Int
               /\ m.role \in {"leaf", "aggregator", "root"}
               /\ m.dependencies \in Seq(Int)
    <3>1. PICK i \in 1..n : m = t[i]
      BY <1>a, <1>3 DEF Range
    <3>2. s[i] \in Range(request.nodes) /\ Same(s[i], m)
      BY <1>1, <1>a, <1>4, <3>1
    <3> HIDE DEF Same
    <3>3. /\ s[i].id \in Int
          /\ s[i].role \in {"leaf", "aggregator", "root"}
          /\ s[i].dependencies \in Seq(Int)
      BY <1>0, <3>2 DEF HasGraph
    <3> QED
      BY <3>2, <3>3 DEF Same
  <2> QED
    BY <1>a, <1>5, <2>1 DEF HasGraph
<1>7. /\ Ids(s) = Ids(t)
      /\ \A x \in Ids(s) : \E i \in 1..n : ById(s)[x] = s[i] /\ ById(t)[x] = t[i]
  <2>1. Len(s) = Len(t) /\ \A i \in 1..Len(s) : s[i].id = t[i].id
    BY <1>4, <1>5, <1>a
  <2> QED
    BY <1>1, <1>5, <1>a, <2>1, SameIdsSameEntry
<1>8. \A x \in Ids(s) : Same(ById(s)[x], ById(t)[x])
  BY <1>4, <1>7
<1>9. Graph(plan) = Graph(request)
  <2>1. DOMAIN ById(s) = Ids(s) /\ DOMAIN ById(t) = Ids(t)
    BY DEF ById
  <2>2. /\ Graph(plan) = [x \in Ids(s) |-> ById(t)[x].dependencies]
        /\ Graph(request) = [x \in Ids(s) |-> ById(s)[x].dependencies]
    BY <1>7, <1>a, <2>1 DEF Graph
  <2>3. \A x \in Ids(s) : ById(t)[x].dependencies = ById(s)[x].dependencies
    BY <1>8
  <2> QED
    BY <2>2, <2>3
<1> QED
  BY <1>5, <1>6, <1>7, <1>8, <1>9, <1>a

LEMMA GraphChecksPass ==
  ASSUME BuildInv, phase \in {"validating", "built"}
  PROVE  /\ Len(plan.nodes) = Cardinality(Ids(plan.nodes))
         /\ RootIssues(plan) = {} /\ CycleIssues(plan) = {} /\ ReachabilityIssues(plan) = {}
         /\ \A n \in Range(plan.nodes) : DependencyIssues(plan, n) = {}
<1>1. GraphIssues(request) = {}
  BY DEF BuildInv, GraphAccepted
<1>2. /\ Len(request.nodes) = Cardinality(Ids(request.nodes))
      /\ RootIssues(request) = {} /\ CycleIssues(request) = {}
      /\ ReachabilityIssues(request) = {}
      /\ \A m \in Range(request.nodes) : DependencyIssues(request, m) = {}
  BY <1>1, AcceptedGraph
<1>3. /\ HasGraph(plan) /\ Len(plan.nodes) = Len(request.nodes)
      /\ Ids(plan.nodes) = Ids(request.nodes)
      /\ \A x \in Ids(plan.nodes) : ById(plan.nodes)[x].role = ById(request.nodes)[x].role
      /\ Graph(plan) = Graph(request)
  BY PlanKeepsGraph
<1>4. plan.root = request.root
  BY PlanNodes
<1>5. Len(plan.nodes) = Cardinality(Ids(plan.nodes))
  BY <1>2, <1>3
<1>6. CycleIssues(plan) = {} /\ ReachabilityIssues(plan) = {}
  BY <1>2, <1>3, <1>4 DEF CycleIssues, ReachabilityIssues
<1>7. \A n \in Range(plan.nodes) :
        \E m \in Range(request.nodes) :
          n.id = m.id /\ n.role = m.role /\ n.dependencies = m.dependencies
  BY PlanNodes DEF NodeFor
<1>8. ASSUME NEW n \in Range(plan.nodes)
      PROVE  DependencyIssues(plan, n) = {}
  <2>1. PICK m \in Range(request.nodes) :
          n.id = m.id /\ n.role = m.role /\ n.dependencies = m.dependencies
    BY <1>7
  <2>2. DependencyIssues(plan, n) = DependencyIssues(request, m)
    BY <1>3, <2>1 DEF DependencyIssues
  <2> QED
    BY <1>2, <2>1, <2>2
<1>9. RootIssues(plan) = {}
  <2>1. /\ DOMAIN ById(request.nodes) = Ids(request.nodes)
        /\ DOMAIN ById(plan.nodes) = Ids(plan.nodes)
    BY DEF ById
  <2>2. /\ request.root \in Ids(request.nodes)
        /\ ById(request.nodes)[request.root].role = "root"
        /\ \A i \in DOMAIN request.nodes :
             request.nodes[i].role = "root" => request.nodes[i].id = request.root
    BY <1>2, <2>1 DEF RootIssues, Code
  <2>3. \A m \in Range(request.nodes) : m.role = "root" => m.id = request.root
    BY <2>2 DEF Range
  <2>4. \A n \in Range(plan.nodes) : n.role = "root" => n.id = plan.root
    BY <1>4, <1>7, <2>3
  <2>5. \A i \in DOMAIN plan.nodes :
          plan.nodes[i].role = "root" => plan.nodes[i].id = plan.root
    BY <2>4 DEF Range
  <2>6. plan.root \in Ids(plan.nodes) /\ ById(plan.nodes)[plan.root].role = "root"
    BY <1>3, <1>4, <2>2
  <2> QED
    BY <2>1, <2>5, <2>6 DEF RootIssues, Code
<1> QED
  BY <1>5, <1>6, <1>8, <1>9

LEMMA DistinctIds ==
  ASSUME NEW T, NEW out \in Seq(T),
         \A k, l \in 1..Len(out) : out[k].id = out[l].id => k = l
  PROVE  Len(out) = Cardinality(Ids(out))
<1>a. PICK ids, S : ids = LadderIds(out) /\ S = Ids(out)
  OBVIOUS
<1>1. Len(out) \in Nat /\ DOMAIN out = 1..Len(out)
  BY LenProperties
<1>2. /\ ids = [i \in 1..Len(out) |-> out[i].id]
      /\ S = {out[i].id : i \in 1..Len(out)}
  BY <1>1, <1>a DEF LadderIds, Ids
<1>3. ids \in Seq(S) /\ Len(ids) = Len(out)
  <2>1. ids \in [1..Len(out) -> S]
    BY <1>2
  <2> QED
    BY <1>1, <2>1
<1>4. ~Repeats(ids)
  <2>1. \A i, j \in 1..Len(ids) : ids[i] = ids[j] => i = j
    BY <1>2, <1>3
  <2> QED
    BY <1>3, <2>1, Distinct
<1>5. Range(ids) = S
  BY <1>2 DEF Range
<1> QED
  BY <1>3, <1>4, <1>5, <1>a DEF Repeats

(* Its ladders are in order, and it lists no binding they do not name.     *)
LEMMA BindingChecksPass ==
  ASSUME BuildInv, phase \in {"validating", "built"}
  PROVE  /\ \A n \in Range(plan.nodes) : BindingIssues(plan, n) = {}
         /\ Len(plan.bindings) = Cardinality(Ids(plan.bindings))
         /\ Ids(plan.bindings)
              \subseteq UNION {{n.binding} \cup Range(n.fallbacks) : n \in Range(plan.nodes)}
<1>a. PICK out, ref : out = plan.bindings /\ ref = ById(out)
  OBVIOUS
<1>1. Placed = GraphCells /\ out = PlanBindings
  BY <1>a, PlanNodes
<1>2. /\ out \in Seq(Catalog)
      /\ \A k, l \in 1..Len(out) : out[k].id = out[l].id => k = l
      /\ \A b \in Range(out) : \E c \in GraphCells : b \in Range(decisions[c])
  BY <1>1, BindingsFacts
<1>3. DOMAIN ref = Ids(out)
  BY <1>a DEF ById
<1>4. ASSUME NEW n \in Range(plan.nodes)
      PROVE  BindingIssues(plan, n) = {}
  <2>1. PICK m \in Range(request.nodes) : n = NodeFor(m)
    BY PlanNodes
  <2>a. PICK ids : ids = LadderIds(decisions[m.cell])
    OBVIOUS
  <2>2. /\ m.cell \in GraphCells
        /\ n.binding \notin Range(n.fallbacks) /\ ~Repeats(n.fallbacks)
        /\ Range(ids) = {n.binding} \cup Range(n.fallbacks)
    BY <1>1, <2>1, <2>a, NodeLadder
  <2>3. n.cell = Key(m.cell)
    BY <2>1 DEF NodeFor
  <2>4. \A x \in Range(ids) : x \in DOMAIN ref /\ ref[x].cell = n.cell
    BY <1>1, <1>3, <1>a, <2>2, <2>3, <2>a, LadderResolves
  <2>5. /\ n.binding \in DOMAIN ref /\ ref[n.binding].cell = n.cell
        /\ Range(n.fallbacks) \ DOMAIN ref = {}
        /\ \A b \in Range(n.fallbacks) : ref[b].cell = n.cell
    BY <2>2, <2>4
  <2> QED
    BY <1>a, <2>2, <2>5 DEF BindingIssues, Code
<1>5. Len(out) = Cardinality(Ids(out))
  BY <1>2, DistinctIds
<1>6. ASSUME NEW x \in Ids(out)
      PROVE  \E n \in Range(plan.nodes) : x \in {n.binding} \cup Range(n.fallbacks)
  <2>1. PICK b \in Range(out) : b.id = x
    BY DEF Ids, Range
  <2>2. PICK c \in GraphCells : b \in Range(decisions[c])
    BY <1>2, <2>1
  <2>3. PICK m \in Range(request.nodes) : m.cell = c
    BY <2>2 DEF GraphCells
  <2>a. PICK ids, n : ids = LadderIds(decisions[c]) /\ n = NodeFor(m)
    OBVIOUS
  <2>4. n \in Range(plan.nodes) /\ Range(ids) = {n.binding} \cup Range(n.fallbacks)
    <3>1. n \in Range(plan.nodes)
      BY <2>a, PlanNodes
    <3> QED
      BY <1>1, <2>3, <2>a, <3>1, NodeLadder
  <2>5. x \in Range(ids)
    BY <2>1, <2>2, <2>a DEF LadderIds, Range
  <2> QED
    BY <2>4, <2>5
<1> QED
  BY <1>4, <1>5, <1>6, <1>a

-----------------------------------------------------------------------------
(* The plan's inputs are the references gathered *)

Offers == Range(request.extras) \cup {Primary}

LEMMA OffersFacts ==
  ASSUME BuildInv
  PROVE  /\ request.extras \in Seq(Range(request.extras))
         /\ request.engine \in BOOLEAN
         /\ \A x \in Offers : x.kind \in SupportedKinds
         /\ \A x, y \in Offers : x.id = y.id => x.kind = y.kind
<1>1. request \in Requests
  BY DEF BuildInv
<1>2. Primary.kind = "analysis_request"
  BY DEF Primary
<1> QED
  BY <1>1, <1>2, RequestsAssumption DEF Offers, SupportedKinds

LEMMA EngineReferences ==
  ASSUME BuildInv, request.engine, phase \in {"composing", "validating", "built"},
         NEW refs, refs = references
  PROVE  /\ refs \in Seq(Offers) /\ Range(refs) = Offers
         /\ \A i, j \in 1..Len(refs) : refs[i].kind = refs[j].kind => i = j
         /\ \A r \in Offers : r.scope = PlanScope
<1>a. PICK given, R : given = request.extras /\ R = Range(given)
  OBVIOUS
<1>1. /\ given \in Seq(R) /\ Offers = R \cup {Primary}
      /\ \A x \in R : x.kind \in SupportedKinds
  BY <1>a, OffersFacts DEF Offers
<1>2. ExtrasAccepted(given) /\ refs = <<Primary>> \o SortedByKind(given)
  BY <1>a DEF BuildInv, InputsGathered, Gathered
<1>3. Primary.kind = "analysis_request" /\ Primary.scope = PlanScope
  BY DEF Primary
<1>4. Len(given) \in Nat /\ DOMAIN given = 1..Len(given) /\ \A i \in 1..Len(given) : given[i] \in R
  BY <1>1, LenProperties, ElementOfSeq
<1>5. \A r \in R : r.kind # "analysis_request" /\ r.scope = PlanScope
  BY <1>2, <1>a DEF ExtrasAccepted
<1>6. \A r \in R : r.kind \in Range(KindOrder)
  BY <1>1, <1>5 DEF SupportedKinds
<1>b. PICK kinds : kinds = [i \in DOMAIN given |-> given[i].kind]
  OBVIOUS
<1>7. kinds \in Seq(Range(KindOrder)) /\ Len(kinds) = Len(given) /\ DOMAIN kinds = 1..Len(given)
  <2>1. kinds \in [1..Len(given) -> Range(KindOrder)]
    BY <1>4, <1>6, <1>b
  <2> QED
    BY <1>4, <2>1
<1>8. ~Repeats(kinds)
  BY <1>2, <1>b DEF ExtrasAccepted
<1>9. ASSUME NEW r \in R, NEW q \in R, r.kind = q.kind
      PROVE  r = q
  <2>1. PICK i \in 1..Len(given), j \in 1..Len(given) : given[i] = r /\ given[j] = q
    BY <1>4, <1>a DEF Range
  <2>2. kinds[i] = kinds[j]
    BY <1>4, <1>9, <1>b, <2>1
  <2>3. i = j
    BY <1>7, <1>8, <2>2, NoRepeats
  <2> QED
    BY <2>1, <2>3
<1>c. PICK out : out = SortedByKind(given)
  OBVIOUS
<1>10. /\ out \in Seq(R) /\ Range(out) = R
       /\ \A i, j \in 1..Len(out) : out[i].kind = out[j].kind => i = j
  BY <1>1, <1>6, <1>9, <1>a, <1>c, SortedByKindFacts
<1>11. /\ out \in Seq(Offers) /\ <<Primary>> \in Seq(Offers)
       /\ Len(<<Primary>>) = 1 /\ <<Primary>>[1] = Primary /\ Range(<<Primary>>) = {Primary}
  <2>1. R \subseteq Offers /\ Primary \in Offers
    BY <1>1
  <2> QED
    BY <1>10, <2>1 DEF Range
<1>12. refs \in Seq(Offers) /\ Range(refs) = Offers
  <2>1. refs = <<Primary>> \o out
    BY <1>2, <1>c
  <2>2. PICK one : one = <<Primary>>
    OBVIOUS
  <2>3. refs = one \o out /\ one \in Seq(Offers) /\ out \in Seq(Offers)
        /\ Range(one) = {Primary}
    BY <1>11, <2>1, <2>2
  <2>4. refs \in Seq(Offers)
    BY <2>3, ConcatProperties
  <2>5. Range(refs) = Range(one) \cup Range(out)
    BY <2>3, RangeConcatenation
  <2> QED
    BY <1>1, <1>10, <2>3, <2>4, <2>5
<1>d. PICK n : n = Len(out)
  OBVIOUS
<1>13. /\ n \in Nat /\ Len(refs) = n + 1 /\ refs[1] = Primary
       /\ \A i \in 1..n : out[i] \in R
       /\ \A i \in 1..Len(refs) : i = 1 \/ (i - 1 \in 1..n /\ refs[i] = out[i - 1])
  <2>1. n \in Nat /\ \A i \in 1..n : out[i] \in R
    BY <1>10, <1>d, LenProperties, ElementOfSeq
  <2>2. Len(refs) = n + 1 /\ refs[1] = Primary
    BY <1>2, <1>10, <1>11, <1>c, <1>d, <2>1, ConcatProperties
  <2>3. ASSUME NEW i \in 1..Len(refs), i # 1
        PROVE  i - 1 \in 1..n /\ refs[i] = out[i - 1]
    BY <1>2, <1>10, <1>11, <1>c, <1>d, <2>1, <2>2, <2>3, ConcatProperties
  <2> QED
    BY <2>1, <2>2, <2>3
<1>14. ASSUME NEW i \in 1..Len(refs), NEW j \in 1..Len(refs), refs[i].kind = refs[j].kind
       PROVE  i = j
  <2>1. CASE i = 1
    <3> SUFFICES ASSUME j # 1 PROVE FALSE
      BY <2>1
    <3>1. refs[j] \in R
      BY <1>13
    <3> QED
      BY <1>3, <1>5, <1>13, <1>14, <2>1, <3>1
  <2>2. CASE j = 1
    <3> SUFFICES ASSUME i # 1 PROVE FALSE
      BY <2>2
    <3>1. refs[i] \in R
      BY <1>13
    <3> QED
      BY <1>3, <1>5, <1>13, <1>14, <2>2, <3>1
  <2>3. CASE i # 1 /\ j # 1
    <3>1. /\ i - 1 \in 1..n /\ refs[i] = out[i - 1]
          /\ j - 1 \in 1..n /\ refs[j] = out[j - 1]
      BY <1>13, <2>3
    <3>2. i - 1 = j - 1
      BY <1>10, <1>14, <1>d, <3>1
    <3> QED
      BY <3>1, <3>2
  <2> QED
    BY <2>1, <2>2, <2>3
<1>15. \A r \in Offers : r.scope = PlanScope
  BY <1>1, <1>3, <1>5
<1> QED
  BY <1>12, <1>14, <1>15

LEMMA ReferencesFacts ==
  ASSUME BuildInv, phase \in {"composing", "validating", "built"},
         NEW refs, refs = references
  PROVE  refs \in Seq(Offers)
<1>1. CASE request.engine
  BY <1>1, EngineReferences
<1>2. CASE ~request.engine
  <2>a. PICK given, R : given = request.extras /\ R = Range(given)
    OBVIOUS
  <2>1. given \in Seq(R) /\ Offers = R \cup {Primary}
    BY <2>a, OffersFacts DEF Offers
  <2>2. given \in Seq(Offers) /\ <<Primary>> \in Seq(Offers)
    BY <2>1
  <2>3. refs = IF given = << >> THEN <<Primary>> ELSE given
    BY <1>2, <2>a DEF BuildInv, InputsGathered, Gathered
  <2> QED
    BY <2>2, <2>3
<1> QED
  BY <1>1, <1>2

LEMMA OfKindFacts ==
  ASSUME BuildInv, phase \in {"composing", "validating", "built"}, NEW k, Len(OfKind(k)) = 1
  PROVE  /\ OfKind(k)[1] \in Range(references)
         /\ OfKind(k)[1].kind = k
<1>a. PICK refs, at, out : /\ refs = references
                           /\ at = {i \in DOMAIN refs : refs[i].kind = k}
                           /\ out = Kept(refs, at)
  OBVIOUS
<1>1. refs \in Seq(Offers) /\ DOMAIN refs = 1..Len(refs)
  BY <1>a, ReferencesFacts, LenProperties
<1>2. OfKind(k) = out /\ at \in SUBSET (1..Len(refs))
  BY <1>1, <1>a DEF OfKind
<1>3. PICK of : Stood(refs, at, out, of)
  BY <1>1, <1>2, <1>a, KeptEntries
<1>4. of[1] \in at /\ out[1] = refs[of[1]]
  BY <1>2, <1>3 DEF Stood
<1>5. of[1] \in DOMAIN refs /\ refs[of[1]].kind = k
  BY <1>4, <1>a
<1> QED
  BY <1>2, <1>4, <1>5, <1>a DEF Range

LEMMA OneOfKind ==
  ASSUME BuildInv, request.engine, phase \in {"composing", "validating", "built"}, NEW r \in Offers
  PROVE  Len(OfKind(r.kind)) = 1
<1>a. PICK refs, at, out : /\ refs = references
                           /\ at = {i \in DOMAIN refs : refs[i].kind = r.kind}
                           /\ out = Kept(refs, at)
  OBVIOUS
<1>1. /\ refs \in Seq(Offers) /\ Range(refs) = Offers
      /\ \A i, j \in 1..Len(refs) : refs[i].kind = refs[j].kind => i = j
  BY <1>a, EngineReferences
<1>2. DOMAIN refs = 1..Len(refs)
  BY <1>1, LenProperties
<1>3. PICK i \in 1..Len(refs) : refs[i] = r
  BY <1>1, <1>2 DEF Range
<1>4. at = {i}
  BY <1>1, <1>2, <1>3, <1>a
<1>5. OfKind(r.kind) = out /\ at \in SUBSET (1..Len(refs))
  BY <1>2, <1>a DEF OfKind
<1>6. Len(out) = Cardinality(at)
  BY <1>1, <1>5, <1>a, KeptEntries
<1>7. Cardinality({i}) = 1
  BY FS_Singleton
<1> QED
  BY <1>4, <1>5, <1>6, <1>7

(* A Cell's inputs: one reference of each kind it asks for, in order.      *)
LEMMA InputsOf ==
  ASSUME BuildInv, phase \in {"composing", "validating", "built"},
         NEW c \in GraphCells, Composable(c),
         NEW kinds, kinds = request.manifests[c].kinds,
         NEW inputs, inputs = InputsFor(c)
  PROVE  /\ kinds \in Seq(Range(kinds)) /\ ~Repeats(kinds)
         /\ "analysis_request" \in Range(kinds)
         /\ DOMAIN inputs = 1..Len(kinds)
         /\ \A i \in 1..Len(kinds) : \E r \in Range(references) :
              r.kind = kinds[i] /\ r.id = inputs[i] /\ r = OfKind(kinds[i])[1]
<1>1. c \in DOMAIN request.manifests
  <2>1. PICK n \in Range(request.nodes) : n.cell = c
    BY DEF GraphCells
  <2> QED
    BY <2>1, AcceptedGraph DEF BuildInv, GraphAccepted
<1>2. kinds \in Seq(Range(kinds))
  BY <1>1, RequestsAssumption DEF BuildInv
<1>3. DOMAIN kinds = 1..Len(kinds) /\ \A i \in 1..Len(kinds) : kinds[i] \in Range(kinds)
  BY <1>2, RangeFacts
<1>4. /\ ~Repeats(kinds) /\ "analysis_request" \in Range(kinds)
      /\ \A k \in Range(kinds) : Len(OfKind(k)) = 1
  BY DEF Composable
<1>5. /\ DOMAIN inputs = 1..Len(kinds)
      /\ \A i \in 1..Len(kinds) : inputs[i] = OfKind(kinds[i])[1].id
  BY <1>3 DEF InputsFor
<1>6. \A i \in 1..Len(kinds) :
        /\ OfKind(kinds[i])[1] \in Range(references)
        /\ OfKind(kinds[i])[1].kind = kinds[i]
  BY <1>3, <1>4, OfKindFacts
<1> QED
  BY <1>2, <1>4, <1>5, <1>6

LEMMA InputChecksPass ==
  ASSUME BuildInv, phase = "validating", NEW n \in Range(plan.nodes)
  PROVE  InputIssues(plan, n) = {}
<1>1. PICK m \in Range(request.nodes) : n = NodeFor(m)
  BY PlanNodes
<1>a. PICK c, kinds, inputs, refs, ref :
        /\ c = m.cell /\ kinds = request.manifests[c].kinds /\ inputs = InputsFor(c)
        /\ refs = references /\ ref = ById(refs)
  OBVIOUS
<1>2. n.inputs = inputs /\ n.kinds = kinds
  BY <1>1, <1>a DEF NodeFor
<1>3. c \in GraphCells /\ Composable(c)
  BY <1>a DEF GraphCells, BuildInv, PlanAssembled
<1>4. /\ kinds \in Seq(Range(kinds)) /\ ~Repeats(kinds)
      /\ "analysis_request" \in Range(kinds)
      /\ DOMAIN inputs = 1..Len(kinds)
      /\ \A i \in 1..Len(kinds) : \E r \in Range(refs) : r.kind = kinds[i] /\ r.id = inputs[i]
  BY <1>3, <1>a, InputsOf
<1>5. refs \in Seq(Offers) /\ Range(refs) \subseteq Offers
  BY <1>a, ReferencesFacts, RangeOfSeq
<1>6. DOMAIN ref = Ids(refs)
      /\ \A x \in Ids(refs) : ref[x] \in Range(refs) /\ ref[x].id = x
  BY <1>5, <1>a, ByIdFacts
<1>7. \A i \in 1..Len(kinds) : inputs[i] \in DOMAIN ref /\ ref[inputs[i]].kind = kinds[i]
  <2>1. \A r \in Range(refs) : r.id \in Ids(refs)
    BY DEF Ids, Range
  <2>2. \A r, q \in Range(refs) : r.id = q.id => r.kind = q.kind
    BY <1>5, OffersFacts
  <2> QED
    BY <1>4, <1>6, <2>1, <2>2
<1>8. /\ Len(kinds) \in Nat /\ DOMAIN kinds = 1..Len(kinds)
      /\ kinds = [i \in 1..Len(kinds) |-> kinds[i]]
  BY <1>4, LenProperties
<1>b. PICK S : S = {inputs[i] : i \in 1..Len(kinds)}
  OBVIOUS
<1>9. inputs = [i \in 1..Len(kinds) |-> inputs[i]]
  BY <1>a, <1>8 DEF InputsFor
<1>10. inputs \in Seq(S) /\ Len(inputs) = Len(kinds) /\ Range(inputs) \subseteq DOMAIN ref
  <2>1. inputs \in [1..Len(kinds) -> S]
    BY <1>9, <1>b
  <2>2. inputs \in Seq(S) /\ Len(inputs) = Len(kinds)
    BY <1>8, <2>1
  <2>3. Range(inputs) \subseteq DOMAIN ref
    BY <1>4, <1>7 DEF Range
  <2> QED
    BY <2>2, <2>3
<1>11. ~Repeats(inputs)
  <2>1. ASSUME NEW i \in 1..Len(inputs), NEW j \in 1..Len(inputs), inputs[i] = inputs[j]
        PROVE  i = j
    <3>1. i \in DOMAIN kinds /\ j \in DOMAIN kinds
      BY <1>8, <1>10
    <3>2. kinds[i] = kinds[j]
      BY <1>7, <1>8, <2>1, <3>1
    <3> QED
      BY <1>4, <3>1, <3>2, NoRepeats
  <2> QED
    BY <1>10, <2>1, Distinct
<1>12. inputs # << >>
  <2>1. Len(kinds) # 0
    BY <1>4, <1>8 DEF Range
  <2> QED
    BY <1>10, <2>1, EmptySeq
<1>c. PICK known, found : /\ known = Kept(inputs, {i \in DOMAIN inputs : inputs[i] \in DOMAIN ref})
                          /\ found = [i \in DOMAIN known |-> ref[known[i]].kind]
  OBVIOUS
<1>13. known = inputs
  <2>1. {i \in DOMAIN inputs : inputs[i] \in DOMAIN ref} = DOMAIN inputs
    BY <1>4, <1>7
  <2> QED
    BY <1>10, <1>c, <2>1, KeptAll
<1>14. found = kinds
  <2>1. found = [i \in 1..Len(kinds) |-> ref[inputs[i]].kind]
    BY <1>4, <1>13, <1>c
  <2> QED
    BY <1>7, <1>8, <2>1
<1>15. plan.references = refs
  BY <1>a, PlanNodes
<1>16. InputIssues(plan, n)
         = (Code("missing_node_input_reference", inputs = << >>)
            \cup Code("duplicate_node_input_reference", Repeats(inputs))
            \cup Code("missing_input_reference", Range(inputs) \ DOMAIN ref # {})
            \cup Code("duplicate_required_input_kind", Repeats(kinds))
            \cup Code("missing_required_input_kind",
                      \/ "analysis_request" \notin Range(kinds)
                      \/ Range(kinds) \ Range(found) # {})
            \cup Code("unexpected_input_kind",
                      \/ Range(found) \ Range(kinds) # {}
                      \/ Repeats(found)
                      \/ /\ ~Repeats(kinds)
                         /\ Range(kinds) = Range(found)
                         /\ kinds # found))
  BY <1>2, <1>15, <1>a, <1>c DEF InputIssues
<1>17. /\ ~(Range(inputs) \ DOMAIN ref # {}) /\ ~(Range(kinds) \ Range(found) # {})
       /\ ~(Range(found) \ Range(kinds) # {})
  BY <1>10, <1>14
<1>18. /\ ~(inputs = << >>) /\ ~Repeats(inputs) /\ ~Repeats(kinds) /\ ~Repeats(found)
       /\ ~("analysis_request" \notin Range(kinds)) /\ ~(kinds # found)
  BY <1>4, <1>11, <1>12, <1>14
<1> QED
  BY <1>16, <1>17, <1>18, Zenon DEF Code

-----------------------------------------------------------------------------
(* Planner and validators fit together *)

LEMMA AssembledFaults ==
  ASSUME BuildInv, phase = "validating"
  PROVE  /\ ValidationIssues(plan)
              \subseteq IF request.engine THEN {"unused_input_reference"} ELSE CallerFaults
         /\ request.engine => ValidationIssues(plan) \subseteq UsageIssues(plan)
<1>1. /\ Code("duplicate_node_id", Len(plan.nodes) # Cardinality(Ids(plan.nodes))) = {}
      /\ RootIssues(plan) = {} /\ CycleIssues(plan) = {} /\ ReachabilityIssues(plan) = {}
      /\ \A n \in Range(plan.nodes) : DependencyIssues(plan, n) = {}
  BY GraphChecksPass DEF Code
<1>2. /\ \A n \in Range(plan.nodes) : BindingIssues(plan, n) = {}
      /\ Code("duplicate_binding_id", Len(plan.bindings) # Cardinality(Ids(plan.bindings))) = {}
  BY BindingChecksPass DEF Code
<1>3. UsageIssues(plan) \subseteq {"unused_input_reference"}
  <2>a. PICK used :
          used = UNION {{n.binding} \cup Range(n.fallbacks) : n \in Range(plan.nodes)}
    OBVIOUS
  <2>1. Ids(plan.bindings) \subseteq used
    BY <2>a, BindingChecksPass
  <2>2. Ids(plan.bindings) \ used = {}
    BY <2>1
  <2> QED
    BY <2>2, <2>a DEF UsageIssues, Code
<1>4. \A n \in Range(plan.nodes) : InputIssues(plan, n) = {}
  BY InputChecksPass
<1>5. UNION {DependencyIssues(plan, n) \cup InputIssues(plan, n)
             \cup BindingIssues(plan, n) : n \in Range(plan.nodes)} = {}
  BY <1>1, <1>2, <1>4
<1>6. plan.references = references
  BY PlanNodes
<1>a. PICK repeated :
        repeated = Code("duplicate_input_reference_id",
                        Len(plan.references) # Cardinality(Ids(plan.references)))
  OBVIOUS
<1>7. ValidationIssues(plan) \subseteq repeated \cup ScopeIssues(plan) \cup UsageIssues(plan)
  BY <1>1, <1>2, <1>5, <1>a DEF ValidationIssues
<1>8. /\ repeated \subseteq {"duplicate_input_reference_id"}
      /\ ScopeIssues(plan) \subseteq {"input_reference_scope_mismatch"}
  BY <1>a DEF ScopeIssues, Code
<1>9. ASSUME request.engine
      PROVE  repeated = {} /\ ScopeIssues(plan) = {}
  <2>a. PICK refs : refs = references
    OBVIOUS
  <2>1. /\ refs \in Seq(Offers) /\ Range(refs) = Offers
        /\ \A i, j \in 1..Len(refs) : refs[i].kind = refs[j].kind => i = j
        /\ \A r \in Offers : r.scope = PlanScope
    BY <1>9, <2>a, EngineReferences
  <2>2. \A i \in 1..Len(refs) : refs[i] \in Offers
    BY <2>1, ElementOfSeq
  <2>3. \A i, j \in 1..Len(refs) : refs[i].id = refs[j].id => i = j
    BY <2>1, <2>2, OffersFacts
  <2>4. Len(refs) = Cardinality(Ids(refs))
    BY <2>1, <2>3, DistinctIds
  <2>5. DOMAIN refs = 1..Len(refs)
    BY <2>1, LenProperties
  <2> QED
    BY <1>6, <1>a, <2>1, <2>2, <2>4, <2>5, <2>a DEF ScopeIssues, Code
<1> QED
  BY <1>3, <1>7, <1>8, <1>9 DEF CallerFaults

(* With inputs that fit, every Cell's are composed and each is used.       *)
Fitting ==
  /\ Wanted = {"analysis_request"} \cup {r.kind : r \in Range(request.extras)}
  /\ \A c \in GraphCells : /\ ~Repeats(request.manifests[c].kinds)
                           /\ "analysis_request" \in Range(request.manifests[c].kinds)

LEMMA FittingKinds ==
  ASSUME BuildInv, Fitting
  PROVE  /\ \A c \in GraphCells : \A k \in Range(request.manifests[c].kinds) :
              \E r \in Offers : r.kind = k
         /\ \A r \in Offers : \E c \in GraphCells : r.kind \in Range(request.manifests[c].kinds)
<1>1. Primary.kind = "analysis_request"
  BY DEF Primary
<1>2. Wanted = {r.kind : r \in Offers}
  BY <1>1 DEF Fitting, Offers
<1>3. \A k : k \in Wanted <=> \E c \in GraphCells : k \in Range(request.manifests[c].kinds)
  BY DEF Wanted
<1> QED
  BY <1>2, <1>3

LEMMA FittingComposes ==
  ASSUME BuildInv, Fitting, request.engine, phase = "composing", NEW c \in GraphCells
  PROVE  Composable(c)
<1>a. PICK K : K = Range(request.manifests[c].kinds)
  OBVIOUS
<1>1. ASSUME NEW k \in K
      PROVE  Len(OfKind(k)) = 1 /\ k \in SupportedKinds
  <2>1. PICK r \in Offers : r.kind = k
    BY <1>a, FittingKinds
  <2> QED
    BY <2>1, OneOfKind, OffersFacts
<1> QED
  BY <1>1, <1>a DEF Composable, Fitting

LEMMA FittingUsed ==
  ASSUME BuildInv, Fitting, request.engine, phase = "validating"
  PROVE  ValidationIssues(plan) = {}
<1>a. PICK refs, used : /\ refs = references
                        /\ used = UNION {Range(n.inputs) : n \in Range(plan.nodes)}
  OBVIOUS
<1>1. /\ refs \in Seq(Offers) /\ Range(refs) = Offers
      /\ \A i, j \in 1..Len(refs) : refs[i].kind = refs[j].kind => i = j
  BY <1>a, EngineReferences
<1>2. DOMAIN refs = 1..Len(refs) /\ plan.references = refs
  BY <1>1, <1>a, LenProperties, PlanNodes
<1>3. \A r, q \in Offers : r.kind = q.kind => r = q
  BY <1>1, <1>2 DEF Range
<1>4. ASSUME NEW r \in Offers
      PROVE  r.id \in used
  <2>1. PICK c \in GraphCells : r.kind \in Range(request.manifests[c].kinds)
    BY FittingKinds
  <2>2. PICK m \in Range(request.nodes) : m.cell = c
    BY DEF GraphCells
  <2>a. PICK n, kinds, inputs : /\ n = NodeFor(m) /\ inputs = InputsFor(c)
                                /\ kinds = request.manifests[c].kinds
    OBVIOUS
  <2>3. n \in Range(plan.nodes) /\ n.inputs = inputs
    BY <2>2, <2>a, PlanNodes DEF NodeFor
  <2>4. Composable(c)
    BY DEF BuildInv, PlanAssembled
  <2>5. /\ kinds \in Seq(Range(kinds)) /\ DOMAIN inputs = 1..Len(kinds)
        /\ \A i \in 1..Len(kinds) : \E q \in Range(references) :
             q.kind = kinds[i] /\ q.id = inputs[i]
    BY <2>4, <2>a, InputsOf
  <2>6. PICK i \in 1..Len(kinds) : kinds[i] = r.kind
    BY <2>1, <2>5, <2>a, LenProperties DEF Range
  <2>7. PICK q \in Offers : q.kind = kinds[i] /\ q.id = inputs[i]
    BY <1>1, <1>a, <2>5
  <2>8. q = r
    BY <1>3, <2>6, <2>7
  <2>9. r.id \in Range(inputs)
    <3>1. i \in DOMAIN inputs /\ inputs[i] = r.id
      BY <2>5, <2>7, <2>8
    <3> QED
      BY <3>1 DEF Range
  <2> QED
    BY <1>a, <2>3, <2>9
<1>5. Ids(refs) \subseteq used
  BY <1>1, <1>2, <1>4 DEF Ids, Range
<1>6. Ids(refs) \ used = {}
  BY <1>5
<1>7. "unused_input_reference" \notin UsageIssues(plan)
  BY <1>2, <1>6, <1>a DEF UsageIssues, Code
<1> QED
  BY <1>7, AssembledFaults

(* The fittest request is refused for nothing.                             *)
LEMMA FittingSteps ==
  ASSUME BuildInv, FittingInputsSuffice, [Next]_vars
  PROVE  FittingInputsSuffice'
<1> SUFFICES ASSUME phase' = "refused", Placed' = GraphCells', request'.engine, Fitting'
             PROVE  FALSE
  <2>1. Fitting' <=> ~(\/ Wanted' # {"analysis_request"}
                                      \cup {r.kind : r \in Range(request'.extras)}
                       \/ \E c \in GraphCells' :
                            LET kinds == request'.manifests[c].kinds
                            IN  Repeats(kinds) \/ "analysis_request" \notin Range(kinds))
    BY DEF Fitting
  <2> QED
    BY <2>1 DEF FittingInputsSuffice
<1>1. request' = request
  BY DEF Next, GatherInputs, RefuseExtras, AcceptGraph, RefuseGraph, Place, RefusePlacement,
         ComposeInputs, RefuseInputs, AcceptPlan, RefusePlan, Refuse, vars
<1>2. GraphCells' = GraphCells /\ request.engine /\ Fitting
  BY <1>1, SameRequest DEF Fitting, Wanted
<1>3. GraphCells # {}
  BY <1>2 DEF Fitting, Wanted
<1>4. CASE phase = "refused"
  <2>1. UNCHANGED vars
    BY <1>4 DEF Next, GatherInputs, RefuseExtras, AcceptGraph, RefuseGraph, Place,
                RefusePlacement, ComposeInputs, RefuseInputs, AcceptPlan, RefusePlan
  <2>2. Placed' = Placed
    BY <2>1 DEF Placed, vars
  <2> QED
    BY <1>2, <1>4, <2>2 DEF FittingInputsSuffice, Fitting
<1>5. CASE RefuseExtras \/ RefuseGraph
  <2>1. phase \in {"gathering", "graph"} /\ decisions' = decisions
    BY <1>5 DEF RefuseExtras, RefuseGraph, Refuse
  <2>2. Placed' = Placed /\ Placed = {}
    BY <2>1 DEF Placed, BuildInv, CellsPlaced
  <2> QED
    BY <1>2, <1>3, <2>2
<1>6. CASE \E cell \in GraphCells : RefusePlacement(cell)
  <2>1. PICK cell \in GraphCells : cell \notin Placed /\ decisions' = decisions
    BY <1>6 DEF RefusePlacement, IsNextCell, Refuse
  <2>2. Placed' = Placed
    BY <2>1 DEF Placed
  <2> QED
    BY <1>2, <2>1, <2>2
<1>7. CASE RefuseInputs
  <2>1. phase = "composing" /\ \E c \in GraphCells : ~Composable(c)
    BY <1>7 DEF RefuseInputs
  <2> QED
    BY <1>2, <2>1, FittingComposes
<1>8. CASE RefusePlan
  <2>1. phase = "validating" /\ ValidationIssues(plan) # {}
    BY <1>8 DEF RefusePlan
  <2> QED
    BY <1>2, <2>1, FittingUsed
<1>9. CASE \/ GatherInputs \/ AcceptGraph \/ ComposeInputs \/ AcceptPlan
           \/ \E cell \in GraphCells, d \in Decisions : Place(cell, d)
  BY <1>9 DEF GatherInputs, AcceptGraph, ComposeInputs, AcceptPlan, Place
<1>10. CASE UNCHANGED vars
  BY <1>4, <1>10 DEF vars
<1> QED
  BY <1>5, <1>6, <1>7, <1>8, <1>9, <1>10 DEF Next

(* No plan is assembled only to be refused by the validator the planner    *)
(* calls at its end, but for what the caller handed over; and a request    *)
(* whose inputs fit is not refused once its graph was accepted and placed: *)
(* the graph validator, the planner and the plan validator, written apart, *)
(* agree on what a plan is (execution/planner.py, plan_validation.py).     *)
THEOREM PlannerAndValidatorsAgree == Spec => []AssemblyInv
<1>1. Init => FittingInputsSuffice
  BY DEF Init, FittingInputsSuffice
<1>2. BuildInv /\ FittingInputsSuffice /\ [Next]_vars => FittingInputsSuffice'
  BY FittingSteps
<1>3. BuildInv => TypeOK
  <2> SUFFICES ASSUME BuildInv PROVE TypeOK
    OBVIOUS
  <2>1. ASSUME NEW c \in Placed, NEW b \in Range(decisions[c])
        PROVE  b \in Catalog
    BY <2>1, AcceptedLadder DEF LadderOf
  <2>2. \A b \in UNION {Range(decisions[c]) : c \in Placed} : b \in Catalog
    BY <2>1
  <2>3. plan # NoPlan => phase \in {"validating", "built", "refused"}
    BY DEF BuildInv, PlanAssembled, Phases
  <2> QED
    BY <2>2, <2>3 DEF BuildInv, CellsPlaced, TypeOK
<1>4. BuildInv => PlannerFaultless
  BY AssembledFaults DEF PlannerFaultless
<1> QED
  BY <1>1, <1>2, <1>3, <1>4, BuildInvariance, PTL DEF Spec, AssemblyInv

(* A built plan is one the coordinator may be given (the assumption        *)
(* PlanExecution makes of its plans), and nothing is wrong with it.        *)
BuiltIsPlan == phase = "built" => IsPlan(plan) /\ ValidationIssues(plan) = {}

THEOREM BuiltPlansAreValid == Spec => []BuiltIsPlan
<1>1. BuildInv => BuiltIsPlan
  <2> SUFFICES ASSUME BuildInv, phase = "built" PROVE IsPlan(plan)
    BY DEF BuiltIsPlan, BuildInv, PlanAssembled
  <2>1. HasGraph(plan)
    BY PlanKeepsGraph
  <2>2. plan.references \in Seq(Range(plan.references))
    <3>a. PICK refs, R : refs = references /\ R = Range(refs)
      OBVIOUS
    <3>1. refs \in Seq(R)
      BY <3>a, ReferencesFacts, SeqOfRange
    <3> QED
      BY <3>1, <3>a, PlanNodes
  <2>3. ASSUME NEW n \in Range(plan.nodes)
        PROVE  n.inputs \in Seq(Range(n.inputs)) /\ n.kinds \in Seq(Range(n.kinds))
    <3>1. PICK m \in Range(request.nodes) : n = NodeFor(m)
      BY <2>3, PlanNodes
    <3>a. PICK c, kinds, inputs, I : /\ c = m.cell /\ inputs = InputsFor(c) /\ I = Range(inputs)
                                     /\ kinds = request.manifests[c].kinds
      OBVIOUS
    <3>2. n.inputs = inputs /\ n.kinds = kinds
      BY <3>1, <3>a DEF NodeFor
    <3>3. c \in GraphCells /\ Composable(c)
      BY <3>a DEF GraphCells, BuildInv, PlanAssembled
    <3>4. kinds \in Seq(Range(kinds)) /\ DOMAIN inputs = 1..Len(kinds)
      BY <3>3, <3>a, InputsOf
    <3>5. inputs \in Seq(I)
      <4>1. Len(kinds) \in Nat /\ DOMAIN kinds = 1..Len(kinds)
        BY <3>4, LenProperties
      <4>2. inputs = [i \in 1..Len(kinds) |-> inputs[i]]
        BY <3>a, <4>1 DEF InputsFor
      <4>3. \A i \in 1..Len(kinds) : inputs[i] \in I
        BY <3>4, <3>a DEF Range
      <4>4. inputs \in [1..Len(kinds) -> I]
        BY <4>2, <4>3
      <4> QED
        BY <4>1, <4>4
    <3> QED
      BY <3>2, <3>4, <3>5, <3>a
  <2> QED
    BY <2>1, <2>2, <2>3 DEF IsPlan
<1> QED
  BY <1>1, BuildInvariance, PTL

-----------------------------------------------------------------------------
(* Placement by history (module RuntimeHistory), any policy and history.   *)
(* The ladders of its runs are what the default policy answers.            *)

LEMMA PolicyFacts ==
  /\ IsFiniteSet(Bindings) /\ Bindings # {} /\ Bindings \subseteq Nat
  /\ NoBinding \notin Bindings
  /\ MinTraces \in Nat /\ MinTraces > 0
  /\ OutOf \in Nat /\ OutOf > 0 /\ MaxFailed \in Nat
  /\ \A w \in Settings :
       /\ w.priority \in [Bindings -> Nat]
       /\ w.slow \subseteq BOOLEAN
       /\ w.window \in Nat
       /\ w.runs \subseteq Runs
       /\ w.stored \in Nat
<1>1. IsFiniteSet(Bindings)
  BY PolicyAssumption
<1>2. Bindings # {} /\ Bindings \subseteq Nat /\ NoBinding \notin Bindings
  BY PolicyAssumption DEF NoBinding
<1>3. /\ MinTraces \in Nat /\ MinTraces > 0
      /\ OutOf \in Nat /\ OutOf > 0 /\ MaxFailed \in Nat
  BY PolicyAssumption
<1>4. \A w \in Settings :
        /\ w.priority \in [Bindings -> Nat]
        /\ w.slow \subseteq BOOLEAN
        /\ w.window \in Nat
        /\ w.runs \subseteq Runs
        /\ w.stored \in Nat
  BY PolicyAssumption
<1> QED
  BY <1>1, <1>2, <1>3, <1>4

LEMMA SortsFinite ==
  ASSUME NEW w \in Settings
  PROVE  IsFiniteSet(SortsUnder(w))
<1>1. PICK n \in Nat : n = w.window
  BY PolicyFacts
<1> DEFINE names == Bindings \cup {NoBinding}
           ages == (BOOLEAN \X (0..n))
           all == (names \X Kinds) \X ages
           S == SortsUnder(w)
           f == [s \in S |-> <<<<s.binding, s.kind>>, <<s.slow, s.age>>>>]
<1>2. IsFiniteSet(names)
  <2>1. IsFiniteSet(Bindings)
    BY PolicyFacts
  <2> QED
    BY <2>1, FS_AddElement
<1>3. IsFiniteSet(Kinds) /\ IsFiniteSet(BOOLEAN)
  <2>1. IsFiniteSet({"ok"} \cup {"failed"} \cup {"canceled"})
    BY FS_Singleton, FS_AddElement
  <2>2. IsFiniteSet({TRUE} \cup {FALSE})
    BY FS_Singleton, FS_AddElement
  <2>3. Kinds = {"ok"} \cup {"failed"} \cup {"canceled"}
    BY DEF Kinds
  <2>4. BOOLEAN = {TRUE} \cup {FALSE}
    OBVIOUS
  <2> QED
    BY <2>1, <2>2, <2>3, <2>4
<1>4. IsFiniteSet(0..n)
  <2>1. 0 \in Int /\ n \in Int
    OBVIOUS
  <2> QED
    BY <2>1, FS_Interval
<1>5. IsFiniteSet(all)
  <2>1. IsFiniteSet(names \X Kinds)
    BY <1>2, <1>3, FS_Product
  <2>2. IsFiniteSet(ages)
    BY <1>3, <1>4, FS_Product
  <2> QED
    BY <2>1, <2>2, FS_Product
<1>6. ASSUME NEW s \in S
      PROVE  /\ s.binding \in names /\ s.kind \in Kinds
             /\ s.slow \in BOOLEAN /\ s.age \in 0..n
             /\ s = [binding |-> s.binding, kind |-> s.kind, slow |-> s.slow, age |-> s.age]
  BY <1>1, PolicyFacts DEF SortsUnder, Kinds
<1>7. f \in [S -> all]
  BY <1>6
<1>8. ASSUME NEW s \in S, NEW t \in S, f[s] = f[t] PROVE s = t
  <2>1. s.binding = t.binding /\ s.kind = t.kind /\ s.slow = t.slow /\ s.age = t.age
    BY <1>8
  <2> QED
    BY <1>6, <2>1
<1> HIDE DEF f, all, S
<1>9. f \in Injection(S, all)
  BY <1>7, <1>8 DEF Injection, IsInjective
<1>10. IsFiniteSet(S)
  BY <1>5, <1>9, FS_Injection
<1> QED
  BY <1>10 DEF S

(* Counting traces *)

LEMMA CountFacts ==
  ASSUME HistoryTypeOK, NEW S, S \subseteq Sorts
  PROVE  IsFiniteSet(S) /\ Count(S) \in Nat
<1>1. /\ setting \in Settings /\ Sorts = SortsUnder(setting)
      /\ \A s \in Sorts : store[s] \in Nat
  BY PolicyFacts DEF HistoryTypeOK, Sorts
<1>2. IsFiniteSet(Sorts)
  BY <1>1, SortsFinite
<1>3. IsFiniteSet(S)
  BY <1>2, FS_Subset
<1>4. SumFunctionOnSet(store, S) \in Nat
  <2>1. \A s \in S : store[s] \in Nat
    BY <1>1
  <2> QED
    BY <1>3, <2>1, SumsCover
<1> QED
  BY <1>3, <1>4 DEF Count

LEMMA TallyFacts ==
  ASSUME HistoryTypeOK, NEW b
  PROVE  Traces(b) \in Nat /\ Failures(b) \in Nat /\ Fast(b) \in Nat
<1>1. /\ Of(b) \subseteq Sorts
      /\ {s \in Of(b) : s.kind # "ok"} \subseteq Sorts
      /\ {s \in Of(b) : ~s.slow} \subseteq Sorts
  BY DEF Of
<1> QED
  BY <1>1, CountFacts DEF Traces, Failures, Fast

-----------------------------------------------------------------------------
(* Evaluations *)

Statuses == {"healthy", "unhealthy", "insufficient_history", "no_history"}

IsEvaluation(e) ==
  /\ e.binding \in Bindings /\ e.priority \in Nat
  /\ e.traces \in Nat /\ e.failures \in Nat
  /\ e.p95 \in 0..2
  /\ e.status = HistoryStatus(e.traces, e.failures)

LEMMA EvaluationFacts ==
  ASSUME HistoryTypeOK, NEW b \in Bindings,
         NEW e, e = Evaluation(b)
  PROVE  /\ IsEvaluation(e) /\ e.binding = b
         /\ e.traces = Traces(b) /\ e.failures = Failures(b)
<1>1. Traces(b) \in Nat /\ Failures(b) \in Nat
  BY TallyFacts
<1>2. setting.priority[b] \in Nat
  BY PolicyFacts DEF HistoryTypeOK
<1>3. P95(Traces(b), Fast(b)) \in 0..2
  BY DEF P95
<1>4. /\ e.binding = b /\ e.priority = setting.priority[b]
      /\ e.traces = Traces(b) /\ e.failures = Failures(b)
      /\ e.status = HistoryStatus(Traces(b), Failures(b))
      /\ e.p95 = P95(Traces(b), Fast(b))
  BY DEF Evaluation
<1> QED
  BY <1>1, <1>2, <1>3, <1>4 DEF IsEvaluation

LEMMA StatusFacts ==
  ASSUME NEW e, IsEvaluation(e)
  PROVE  /\ e.status \in Statuses
         /\ HistoryRank[e.status] \in 0..2
         /\ e.status = "unhealthy" <=>
              /\ e.traces >= MinTraces
              /\ e.failures * OutOf > MaxFailed * e.traces
<1>1. PICK t \in Nat, f \in Nat : t = e.traces /\ f = e.failures
  BY DEF IsEvaluation
<1>2. e.status = IF t = 0 THEN "no_history"
                 ELSE IF t < MinTraces THEN "insufficient_history"
                 ELSE IF f * OutOf > MaxFailed * t THEN "unhealthy"
                 ELSE "healthy"
  BY <1>1 DEF IsEvaluation, HistoryStatus
<1>3. MinTraces \in Nat /\ MinTraces > 0
  BY PolicyFacts
<1>4. e.status \in Statuses
  BY <1>2 DEF Statuses
<1>5. e.status = "unhealthy" <=> t >= MinTraces /\ f * OutOf > MaxFailed * t
  <2>1. t >= MinTraces <=> t # 0 /\ ~(t < MinTraces)
    BY <1>3
  <2> QED
    BY <1>2, <2>1
<1>6. HistoryRank[e.status] \in 0..2
  BY <1>4 DEF Statuses, HistoryRank
<1> QED
  BY <1>1, <1>4, <1>5, <1>6

(* BestFirst are compared component by component. *)
LEMMA LessFacts ==
  ASSUME NEW s, NEW t,
         s \in [1..4 -> Nat], t \in [1..4 -> Nat]
  PROVE  Less(s, t) <=>
           \/ s[1] < t[1]
           \/ s[1] = t[1] /\ s[2] < t[2]
           \/ s[1] = t[1] /\ s[2] = t[2] /\ s[3] < t[3]
           \/ s[1] = t[1] /\ s[2] = t[2] /\ s[3] = t[3] /\ s[4] < t[4]
<1> DEFINE Tied(i) == \A j \in 1..(i - 1) : s[j] = t[j]
<1>1. Less(s, t) <=> \E i \in 1..4 : s[i] < t[i] /\ Tied(i)
  BY DEF Less
<1>2. /\ Tied(1)
      /\ Tied(2) <=> s[1] = t[1]
      /\ Tied(3) <=> s[1] = t[1] /\ s[2] = t[2]
      /\ Tied(4) <=> s[1] = t[1] /\ s[2] = t[2] /\ s[3] = t[3]
  <2>1. 1..(1 - 1) = {} /\ 1..(2 - 1) = {1} /\ 1..(3 - 1) = {1, 2} /\ 1..(4 - 1) = {1, 2, 3}
    OBVIOUS
  <2> QED
    BY <2>1
<1>3. 1..4 = {1, 2, 3, 4}
  OBVIOUS
<1> HIDE DEF Tied
<1> QED
  BY <1>1, <1>2, <1>3

LEMMA LessIsOrder ==
  ASSUME NEW s, NEW t, NEW u,
         s \in [1..4 -> Nat], t \in [1..4 -> Nat], u \in [1..4 -> Nat]
  PROVE  /\ ~Less(s, s)
         /\ s[4] # t[4] => Less(s, t) \/ Less(t, s)
         /\ Less(s, t) /\ Less(t, u) => Less(s, u)
<1>1. \A i \in {1, 2, 3, 4} : s[i] \in Nat /\ t[i] \in Nat /\ u[i] \in Nat
  OBVIOUS
<1>2. ~Less(s, s)
  <2>1. ~(s[1] < s[1]) /\ ~(s[2] < s[2]) /\ ~(s[3] < s[3]) /\ ~(s[4] < s[4])
    BY <1>1
  <2> QED
    BY <2>1, LessFacts
<1>3. s[4] # t[4] => Less(s, t) \/ Less(t, s)
  <2>1. \A i \in {1, 2, 3, 4} : s[i] < t[i] \/ s[i] = t[i] \/ t[i] < s[i]
    BY <1>1
  <2> QED
    BY <2>1, LessFacts
<1>4. ASSUME Less(s, t), Less(t, u) PROVE Less(s, u)
  <2>1. \A i \in {1, 2, 3, 4} :
          /\ s[i] < t[i] /\ t[i] < u[i] => s[i] < u[i]
          /\ s[i] < t[i] /\ t[i] = u[i] => s[i] < u[i]
          /\ s[i] = t[i] /\ t[i] < u[i] => s[i] < u[i]
          /\ s[i] = t[i] /\ t[i] = u[i] => s[i] = u[i]
    BY <1>1
  <2>2. \/ s[1] < t[1]
        \/ s[1] = t[1] /\ s[2] < t[2]
        \/ s[1] = t[1] /\ s[2] = t[2] /\ s[3] < t[3]
        \/ s[1] = t[1] /\ s[2] = t[2] /\ s[3] = t[3] /\ s[4] < t[4]
    BY <1>4, LessFacts
  <2>3. \/ t[1] < u[1]
        \/ t[1] = u[1] /\ t[2] < u[2]
        \/ t[1] = u[1] /\ t[2] = u[2] /\ t[3] < u[3]
        \/ t[1] = u[1] /\ t[2] = u[2] /\ t[3] = u[3] /\ t[4] < u[4]
    BY <1>4, LessFacts
  <2>4. \/ s[1] < u[1]
        \/ s[1] = u[1] /\ s[2] < u[2]
        \/ s[1] = u[1] /\ s[2] = u[2] /\ s[3] < u[3]
        \/ s[1] = u[1] /\ s[2] = u[2] /\ s[3] = u[3] /\ s[4] < u[4]
    BY <2>1, <2>2, <2>3
  <2> QED
    BY <2>4, LessFacts
<1> QED
  BY <1>2, <1>3, <1>4

LEMMA RankFacts ==
  ASSUME NEW e, IsEvaluation(e)
  PROVE  /\ SelectionRank(e) \in [1..4 -> Nat]
         /\ SelectionRank(e)[4] = e.binding
<1>1. e.priority \in Nat /\ e.p95 \in Nat /\ e.binding \in Nat
  <2>1. Bindings \subseteq Nat
    BY PolicyFacts
  <2>2. e.binding \in Bindings /\ e.priority \in Nat /\ e.p95 \in 0..2
    BY DEF IsEvaluation
  <2>3. e.binding \in Nat
    BY <2>1, <2>2
  <2>4. e.p95 \in Nat
    BY <2>2
  <2> QED
    BY <2>2, <2>3, <2>4
<1>2. HistoryRank[e.status] \in Nat
  BY StatusFacts
<1>3. PICK h \in Nat : h = HistoryRank[e.status]
  BY <1>2
<1>4. SelectionRank(e) = <<e.priority, h, e.p95, e.binding>>
  BY <1>3 DEF SelectionRank
<1> QED
  BY <1>1, <1>4

(* What select ranks: evaluations of different bindings, of which all or   *)
(* none are unhealthy.                                                     *)
IsPool(pool) ==
  /\ IsFiniteSet(pool)
  /\ \A e \in pool : IsEvaluation(e)
  /\ \A d, e \in pool : d.binding = e.binding => d = e
  /\ \A d, e \in pool : d.status = "unhealthy" <=> e.status = "unhealthy"

Ranking(pool) == {w \in pool \X pool : RanksBefore(w[1], w[2])}

LEMMA BeforeIsOrder ==
  ASSUME NEW pool, IsPool(pool)
  PROVE  StrictOrder(pool, Ranking(pool))
<1> DEFINE rank(e) == SelectionRank(e)
           Under(d, e) == Less(rank(d), rank(e))
           Fails(d, e) == d.failures * e.traces < e.failures * d.traces
<1>1. \A d, e \in pool : <<d, e>> \in Ranking(pool) <=> RanksBefore(d, e)
  BY DEF Ranking
<1>2. \A e \in pool : rank(e) \in [1..4 -> Nat] /\ rank(e)[4] = e.binding
  BY RankFacts DEF IsPool
<1>3. ASSUME NEW p \in pool, NEW q \in pool, NEW r \in pool
      PROVE  /\ ~Under(p, p)
             /\ p # q => Under(p, q) \/ Under(q, p)
             /\ Under(p, q) /\ Under(q, r) => Under(p, r)
  <2>1. p # q => rank(p)[4] # rank(q)[4]
    BY <1>2 DEF IsPool
  <2> HIDE DEF rank
  <2> QED
    BY <1>2, <2>1, LessIsOrder
<1> HIDE DEF Under
<1>4. CASE \A e \in pool : e.status # "unhealthy"
  <2>1. \A d, e \in pool : RanksBefore(d, e) <=> Under(d, e)
    BY <1>4 DEF RanksBefore, FailsLess, Under
  <2> QED
    BY <1>1, <1>3, <2>1 DEF StrictOrder
<1>5. CASE \A e \in pool : e.status = "unhealthy"
  <2>1. \A d, e \in pool :
          RanksBefore(d, e) <=> Fails(d, e) \/ (~Fails(e, d) /\ Under(d, e))
    BY <1>5 DEF RanksBefore, FailsLess, Under
  <2>2. \A e \in pool : e.traces \in Nat /\ e.traces > 0 /\ e.failures \in Nat
    <3> SUFFICES ASSUME NEW e \in pool
                 PROVE  e.traces \in Nat /\ e.traces > 0 /\ e.failures \in Nat
      OBVIOUS
    <3>1. IsEvaluation(e)
      BY DEF IsPool
    <3>2. e.traces >= MinTraces
      BY <1>5, <3>1, StatusFacts
    <3>3. MinTraces \in Nat /\ MinTraces > 0
      BY PolicyFacts
    <3> QED
      BY <3>1, <3>2, <3>3 DEF IsEvaluation
  <2>3. ASSUME NEW p \in pool, NEW q \in pool
        PROVE  ~Fails(p, p) /\ (Fails(p, q) => ~Fails(q, p))
    <3>1. PICK x \in Int, y \in Int, z \in Int :
            x = p.failures * p.traces /\ y = p.failures * q.traces /\ z = q.failures * p.traces
      BY <2>2
    <3> QED
      BY <3>1
  <2>4. ASSUME NEW p \in pool, NEW q \in pool, NEW r \in pool
        PROVE  /\ Fails(q, r) /\ ~Fails(q, p) => Fails(p, r)
               /\ ~Fails(r, q) /\ Fails(p, q) => Fails(p, r)
               /\ ~Fails(r, q) /\ ~Fails(q, p) => ~Fails(r, p)
    <3>1. PICK a \in Int, k \in Int : a = r.failures /\ k = r.traces /\ k > 0
      BY <2>2
    <3>2. PICK b \in Int, m \in Int : b = q.failures /\ m = q.traces /\ m > 0
      BY <2>2
    <3>3. PICK c \in Int, n \in Int : c = p.failures /\ n = p.traces /\ n > 0
      BY <2>2
    <3>4. k > 0 /\ m > 0 /\ n > 0
      BY <3>1, <3>2, <3>3
    <3>5. /\ a * m > b * k /\ ~(c * m > b * n) => a * n > c * k
          /\ ~(b * k > a * m) /\ b * n > c * m => a * n > c * k
          /\ ~(b * k > a * m) /\ ~(c * m > b * n) => ~(c * k > a * n)
      BY <3>4, AboveFacts
    <3>6. /\ Fails(q, r) <=> a * m > b * k
          /\ Fails(r, q) <=> b * k > a * m
          /\ Fails(q, p) <=> c * m > b * n
          /\ Fails(p, q) <=> b * n > c * m
          /\ Fails(p, r) <=> a * n > c * k
          /\ Fails(r, p) <=> c * k > a * n
      <4>1. /\ a * m \in Int /\ b * k \in Int /\ c * m \in Int
            /\ b * n \in Int /\ a * n \in Int /\ c * k \in Int
        OBVIOUS
      <4> QED
        BY <3>1, <3>2, <3>3, <4>1
    <3> HIDE DEF Fails
    <3> QED
      BY <3>5, <3>6
  <2> HIDE DEF Fails
  <2>5. \A p \in pool : ~RanksBefore(p, p)
    BY <1>3, <2>1, <2>3
  <2>6. \A p, q \in pool : p # q => RanksBefore(p, q) \/ RanksBefore(q, p)
    BY <1>3, <2>1
  <2>7. ASSUME NEW p \in pool, NEW q \in pool, NEW r \in pool,
               RanksBefore(p, q), RanksBefore(q, r)
        PROVE  RanksBefore(p, r)
    <3>1. ~Fails(q, p) /\ ~Fails(r, q)
      BY <2>1, <2>3, <2>7
    <3>2. CASE Fails(p, q) \/ Fails(q, r)
      BY <2>1, <2>4, <3>1, <3>2
    <3>3. CASE ~Fails(p, q) /\ ~Fails(q, r)
      BY <1>3, <2>1, <2>4, <2>7, <3>1, <3>3
    <3> QED
      BY <3>2, <3>3
  <2> QED
    BY <1>1, <2>5, <2>6, <2>7 DEF StrictOrder
<1> QED
  BY <1>4, <1>5 DEF IsPool

(* Ladders *)

LEMMA PoolFacts ==
  ASSUME HistoryTypeOK, NEW pool, pool = SelectionPool(Evaluations)
  PROVE  /\ IsPool(pool) /\ pool # {} /\ pool \subseteq Evaluations
         /\ \A e \in Evaluations \ pool : e.status = "unhealthy"
         /\ pool # Evaluations => \A e \in pool : e.status # "unhealthy"
<1> DEFINE all == Evaluations
           others == {e \in all : e.status # "unhealthy"}
           bindingOf == [e \in all |-> e.binding]
<1>1. \A e \in all : e.binding \in Bindings /\ e = Evaluation(e.binding)
                     /\ IsEvaluation(e)
  <2> SUFFICES ASSUME NEW e \in all
               PROVE  e.binding \in Bindings /\ e = Evaluation(e.binding)
                      /\ IsEvaluation(e)
    OBVIOUS
  <2>1. PICK b \in Bindings : e = Evaluation(b)
    BY DEF Evaluations
  <2>2. IsEvaluation(e) /\ e.binding = b
    BY <2>1, EvaluationFacts
  <2> QED
    BY <2>1, <2>2
<1>2. \A d, e \in all : d.binding = e.binding => d = e
  BY <1>1
<1>3. IsFiniteSet(all)
  <2>1. bindingOf \in [all -> Bindings]
    BY <1>1
  <2>2. bindingOf \in Injection(all, Bindings)
    BY <1>2, <2>1 DEF Injection, IsInjective
  <2>3. IsFiniteSet(Bindings)
    BY PolicyFacts
  <2> QED
    BY <2>2, <2>3, FS_Injection
<1>4. all # {}
  BY PolicyFacts DEF Evaluations
<1>5. pool = IF others = {} THEN all ELSE others
  BY DEF SelectionPool
<1> HIDE DEF all
<1>6. pool # {} /\ pool \subseteq all /\ IsFiniteSet(pool)
  <2>1. pool # {} /\ pool \subseteq all
    BY <1>4, <1>5
  <2> QED
    BY <1>3, <2>1, FS_Subset
<1>7. \A d, e \in pool : d.status = "unhealthy" <=> e.status = "unhealthy"
  BY <1>5
<1>8. /\ \A e \in all \ pool : e.status = "unhealthy"
      /\ pool # all => \A e \in pool : e.status # "unhealthy"
  BY <1>5
<1>9. IsPool(pool)
  BY <1>1, <1>2, <1>6, <1>7 DEF IsPool
<1> QED
  BY <1>6, <1>8, <1>9 DEF all

LEMMA LadderIsRanked ==
  ASSUME NEW pool, IsPool(pool)
  PROVE  IsLine(pool, Ranking(pool), Ranked(pool))
<1> DEFINE Lines == [1..Cardinality(pool) -> pool]
           BestFirst(s) == \A i, j \in DOMAIN s : i < j => RanksBefore(s[i], s[j])
<1>1. \A s \in Lines : IsLine(pool, Ranking(pool), s) <=> BestFirst(s)
  <2> SUFFICES ASSUME NEW s \in Lines
               PROVE  IsLine(pool, Ranking(pool), s) <=> BestFirst(s)
    OBVIOUS
  <2>1. \A i, j \in DOMAIN s :
          <<s[i], s[j]>> \in Ranking(pool) <=> RanksBefore(s[i], s[j])
    BY DEF Ranking
  <2> QED
    BY <2>1 DEF IsLine
<1>2. PICK s \in Lines : IsLine(pool, Ranking(pool), s)
  <2>1. IsFiniteSet(pool) /\ StrictOrder(pool, Ranking(pool))
    BY BeforeIsOrder DEF IsPool
  <2>2. PICK s : IsLine(pool, Ranking(pool), s)
    BY <2>1, LinesExist
  <2> QED
    BY <2>2 DEF IsLine
<1>3. BestFirst(s)
  BY <1>1, <1>2
<1>4. Ranked(pool) \in Lines /\ BestFirst(Ranked(pool))
  BY <1>2, <1>3 DEF Ranked
<1> HIDE DEF BestFirst, Lines
<1> QED
  BY <1>1, <1>4

(* A ladder names each binding of its pool once. *)
LEMMA LadderFacts ==
  ASSUME HistoryTypeOK, NEW pool, pool = SelectionPool(Evaluations),
         NEW placed, placed = Ladder
  PROVE  /\ placed \in Seq(Bindings) /\ placed # << >>
         /\ \A i, j \in DOMAIN placed : placed[i] = placed[j] => i = j
         /\ Range(placed) = {e.binding : e \in pool}
<1>1. IsPool(pool) /\ pool # {}
  BY PoolFacts
<1>2. PICK s : IsLine(pool, Ranking(pool), s) /\ placed = [i \in DOMAIN s |-> s[i].binding]
  BY <1>1, LadderIsRanked DEF Ladder
<1>3. IsFiniteSet(pool) /\ StrictOrder(pool, Ranking(pool))
  BY <1>1, BeforeIsOrder DEF IsPool
<1>4. PICK N \in Nat : N = Cardinality(pool)
  BY <1>3, FS_CardinalityType
<1>5. N # 0
  BY <1>1, <1>3, <1>4, FS_EmptySet
<1>6. /\ DOMAIN s = 1..N
      /\ \A i \in 1..N : s[i] \in pool
      /\ \A i, j \in 1..N : s[i] = s[j] => i = j
      /\ \A e \in pool : \E i \in 1..N : s[i] = e
  BY <1>2, <1>3, <1>4, LineFacts
<1>7. \A e \in pool : e.binding \in Bindings
  BY <1>1 DEF IsPool, IsEvaluation
<1>8. placed = [i \in 1..N |-> s[i].binding]
  BY <1>2, <1>6
<1>9. placed \in [1..N -> Bindings]
  BY <1>6, <1>7, <1>8
<1>10. placed \in Seq(Bindings) /\ placed # << >>
  <2>1. placed \in Seq(Bindings)
    BY <1>9
  <2>2. 1 \in DOMAIN placed
    BY <1>5, <1>8
  <2>3. placed # << >>
    BY <2>2
  <2> QED
    BY <2>1, <2>3
<1>11. ASSUME NEW i \in DOMAIN placed, NEW j \in DOMAIN placed, placed[i] = placed[j]
       PROVE  i = j
  <2>1. i \in 1..N /\ j \in 1..N /\ s[i].binding = s[j].binding
    BY <1>8, <1>11
  <2>2. s[i] = s[j]
    BY <1>1, <1>6, <2>1 DEF IsPool
  <2> QED
    BY <1>6, <2>1, <2>2
<1>12. Range(placed) = {e.binding : e \in pool}
  <2>1. Range(placed) = {placed[i] : i \in 1..N}
    BY <1>8 DEF Range
  <2>2. \A i \in 1..N : placed[i] \in {e.binding : e \in pool}
    BY <1>6, <1>8
  <2>3. ASSUME NEW e \in pool PROVE e.binding \in {placed[i] : i \in 1..N}
    <3>1. PICK i \in 1..N : s[i] = e
      BY <1>6
    <3> QED
      BY <1>8, <3>1
  <2> QED
    BY <2>1, <2>2, <2>3
<1> QED
  BY <1>10, <1>11, <1>12

LEMMA SoundLadders ==
  ASSUME HistoryTypeOK
  PROVE  LadderIsSound
<1>1. PICK placed, pool : /\ placed = Ladder
                          /\ pool = SelectionPool(Evaluations)
  OBVIOUS
<1>2. /\ placed \in Seq(Bindings) /\ placed # << >>
      /\ \A i, j \in DOMAIN placed : placed[i] = placed[j] => i = j
      /\ Range(placed) = {e.binding : e \in pool}
  BY <1>1, LadderFacts
<1>3. Cardinality(Range(placed)) = Len(placed)
  <2>1. DOMAIN placed = 1..Len(placed)
    BY <1>2
  <2>2. ~Repeats(placed)
    BY <1>2, <2>1, Distinct
  <2> QED
    BY <2>2 DEF Repeats
<1>4. ASSUME NEW b \in Bindings \ Range(placed), NEW a \in Range(placed)
      PROVE  FailedMoreThan(b, a)
  <2>1. PICK d, e : d = Evaluation(b) /\ e \in pool /\ e.binding = a
    BY <1>2
  <2>2. d \in Evaluations /\ e \in Evaluations
    BY <1>1, <2>1, PoolFacts DEF Evaluations
  <2>3. a \in Bindings /\ e = Evaluation(a)
    <3>1. PICK c \in Bindings : e = Evaluation(c)
      BY <2>2 DEF Evaluations
    <3>2. e.binding = c
      BY <3>1, EvaluationFacts
    <3> QED
      BY <2>1, <3>1, <3>2
  <2>4. /\ IsEvaluation(d) /\ d.binding = b
        /\ d.traces = Traces(b) /\ d.failures = Failures(b)
    BY <2>1, EvaluationFacts
  <2>5. /\ IsEvaluation(e) /\ e.traces = Traces(a) /\ e.failures = Failures(a)
    BY <2>3, EvaluationFacts
  <2>7. d \notin pool
    BY <1>2, <2>4
  <2>8. d.status = "unhealthy" /\ e.status # "unhealthy"
    BY <1>1, <2>1, <2>2, <2>7, PoolFacts
  <2>9. PICK fb \in Nat, tb \in Nat, fa \in Nat, ta \in Nat :
          /\ fb = Failures(b) /\ tb = Traces(b)
          /\ fa = Failures(a) /\ ta = Traces(a)
    BY TallyFacts
  <2>10. tb >= MinTraces /\ fb * OutOf > MaxFailed * tb
    BY <2>4, <2>8, <2>9, StatusFacts
  <2>11. ta >= MinTraces => ~(fa * OutOf > MaxFailed * ta)
    BY <2>5, <2>8, <2>9, StatusFacts
  <2>12. MinTraces \in Nat /\ MinTraces > 0 /\ OutOf \in Nat /\ OutOf > 0 /\ MaxFailed \in Nat
    BY PolicyFacts
  <2>13. fb > 0
    <3>1. MaxFailed * tb \in Nat
      BY <2>12
    <3>2. fb = 0 => fb * OutOf = 0
      BY <2>12
    <3> QED
      BY <2>10, <3>1, <3>2
  <2>14. ASSUME ta >= MinTraces PROVE fb * ta > fa * tb
    <3>1. tb > 0 /\ ta > 0
      BY <2>10, <2>12, <2>14
    <3> QED
      BY <2>10, <2>11, <2>12, <2>14, <3>1, AboveFacts
  <2> QED
    BY <2>9, <2>10, <2>13, <2>14 DEF FailedMoreThan
<1> QED
  BY <1>1, <1>2, <1>3, <1>4 DEF LadderIsSound

-----------------------------------------------------------------------------
(* The history itself *)

LEMMA HistoryStarts ==
  ASSUME HistoryInit
  PROVE  HistoryTypeOK
<1>1. PICK S : S = SortsUnder(setting)
  OBVIOUS
<1>2. /\ setting \in Settings /\ setting.stored \in Nat /\ IsFiniteSet(S)
      /\ store = [s \in S |-> 0]
  BY <1>1, PolicyFacts, SortsFinite DEF HistoryInit
<1>3. Stored = SumFunctionOnSet(store, S)
  BY <1>2 DEF Stored, Count, Sorts
<1>4. Units(store, S) = {}
  BY <1>2 DEF Units
<1>5. SumFunctionOnSet(store, S) = 0
  <2>1. SumFunctionOnSet(store, S) = Cardinality(Units(store, S))
    BY <1>2, SumsCount
  <2> QED
    BY <1>4, <2>1, FS_EmptySet
<1>6. ladders \in [Runs -> Seq(Bindings)]
  BY DEF HistoryInit
<1> QED
  BY <1>1, <1>2, <1>3, <1>5, <1>6 DEF HistoryTypeOK

(* What a store needs in order to be one. *)
LEMMA StoreFits ==
  ASSUME NEW S, IsFiniteSet(S), NEW n \in Nat,
         NEW f, f = [s \in S |-> f[s]], \A s \in S : f[s] \in Nat,
         SumFunctionOnSet(f, S) <= n
  PROVE  f \in [S -> 0..n]
<1>1. /\ SumFunctionOnSet(f, S) \in Nat
      /\ \A s \in S : f[s] <= SumFunctionOnSet(f, S)
  BY SumsCover
<1>2. \A s \in S : f[s] \in 0..n
  BY <1>1
<1> QED
  BY <1>2

LEMMA SelectKeepsHistory ==
  ASSUME HistoryTypeOK, NEW r \in setting.runs, Select(r)
  PROVE  HistoryTypeOK'
<1>1. Ladder \in Seq(Bindings)
  BY LadderFacts
<1>2. ladders' \in [Runs -> Seq(Bindings)]
  BY <1>1 DEF HistoryTypeOK, Select
<1>3. setting' = setting /\ store' = store
  BY DEF Select
<1>4. SortsUnder(setting)' = SortsUnder(setting)
  BY <1>3 DEF SortsUnder
<1>5. Stored' = Stored
  BY <1>3 DEF Stored, Count, Sorts
<1> QED
  BY <1>2, <1>3, <1>4, <1>5 DEF HistoryTypeOK

LEMMA FinishKeepsHistory ==
  ASSUME HistoryTypeOK, NEW r \in setting.runs, Finish(r)
  PROVE  HistoryTypeOK'
<1>1. PICK S, limit : S = SortsUnder(setting) /\ limit = setting.stored
  OBVIOUS
<1>2. /\ setting \in Settings /\ limit \in Nat /\ IsFiniteSet(S) /\ setting' = setting
      /\ Sorts = S /\ \A s \in S : store[s] \in Nat
  BY <1>1, PolicyFacts, SortsFinite DEF HistoryTypeOK, Sorts, Finish
<1>3. PICK n \in 1..Len(ladders[r]), last \in Kinds \cup {"boundary"},
             fell \in {"failed", "boundary"}, slow \in setting.slow :
        store' = [s \in Sorts |->
                    store[s] + Cardinality({i \in 1..n :
                      s = Trace(ladders[r][i], IF i = n THEN last ELSE fell, slow)})]
  BY DEF Finish
<1>4. \A s \in S : store'[s] \in Nat
  <2> SUFFICES ASSUME NEW s \in S PROVE store'[s] \in Nat
    OBVIOUS
  <2> DEFINE saved == {i \in 1..n :
               s = Trace(ladders[r][i], IF i = n THEN last ELSE fell, slow)}
  <2>1. n \in Int
    OBVIOUS
  <2>2. IsFiniteSet(1..n)
    BY <2>1, FS_Interval
  <2>3. saved \in SUBSET (1..n)
    OBVIOUS
  <2> HIDE DEF saved
  <2>4. Cardinality(saved) \in Nat
    BY <2>2, <2>3, FS_Subset, FS_CardinalityType
  <2>5. store'[s] = store[s] + Cardinality(saved)
    BY <1>2, <1>3 DEF saved
  <2>6. store'[s] = store[s] + Cardinality(saved)
    BY <2>5
  <2> QED
    BY <1>2, <2>4, <2>6
<1>5. DOMAIN store' = S /\ store' = [s \in S |-> store'[s]]
  BY <1>2, <1>3
<1>6. /\ Stored' = SumFunctionOnSet(store', S)
      /\ Stored' <= limit
  BY <1>1, <1>5 DEF Stored, Count, Sorts, Finish
<1>7. store' \in [S -> 0..limit]
  BY <1>2, <1>4, <1>5, <1>6, StoreFits
<1>8. ladders' \in [Runs -> Seq(Bindings)]
  <2>1. ladders' = [ladders EXCEPT ![r] = << >>] /\ << >> \in Seq(Bindings)
    BY DEF Finish
  <2> QED
    BY <2>1 DEF HistoryTypeOK
<1>9. SortsUnder(setting)' = S
  BY <1>1, <1>2 DEF SortsUnder
<1> QED
  BY <1>1, <1>2, <1>6, <1>7, <1>8, <1>9 DEF HistoryTypeOK

LEMMA SortFields ==
  ASSUME NEW b, NEW k, NEW w, NEW a, NEW c, NEW l, NEW v, NEW d,
         [binding |-> b, kind |-> k, slow |-> w, age |-> a]
           = [binding |-> c, kind |-> l, slow |-> v, age |-> d]
  PROVE  b = c /\ k = l /\ w = v /\ a = d
OBVIOUS

LEMMA TickKeepsHistory ==
  ASSUME HistoryTypeOK, Tick
  PROVE  HistoryTypeOK'
<1>1. PICK S, limit, window : /\ S = SortsUnder(setting)
                              /\ limit = setting.stored /\ window = setting.window
  OBVIOUS
<1>2. /\ setting \in Settings /\ limit \in Nat /\ window \in Nat /\ IsFiniteSet(S)
      /\ setting' = setting /\ ladders' = ladders
      /\ Sorts = S /\ \A s \in S : store[s] \in Nat
  BY <1>1, PolicyFacts, SortsFinite DEF HistoryTypeOK, Sorts, Tick
<1>3. ASSUME NEW s \in S
      PROVE  /\ s.binding \in Bindings \cup {NoBinding} /\ s.age \in 0..window
             /\ s = [binding |-> s.binding, kind |-> s.kind, slow |-> s.slow, age |-> s.age]
             /\ \A a \in 0..window :
                  [binding |-> s.binding, kind |-> s.kind, slow |-> s.slow, age |-> a] \in S
  <2>1. S = [binding : Bindings, kind : Kinds, slow : setting.slow, age : 0..window]
            \cup [binding : {NoBinding}, kind : {"failed"}, slow : {FALSE},
                  age : 0..window]
    BY <1>1 DEF SortsUnder
  <2> QED
    BY <2>1
<1>y. PICK younger : younger = [s \in S |-> [s EXCEPT !.age = @ - 1]]
  OBVIOUS
<1>z. ASSUME NEW s \in S
      PROVE  younger[s] = [binding |-> s.binding, kind |-> s.kind, slow |-> s.slow,
                           age |-> s.age - 1]
  <2>1. younger[s] = [s EXCEPT !.age = @ - 1]
    BY <1>y
  <2>2. s = [binding |-> s.binding, kind |-> s.kind, slow |-> s.slow, age |-> s.age]
    BY <1>3
  <2> QED
    BY <2>1, <2>2
<1>w. ASSUME NEW s \in S, s.age # 0 PROVE younger[s] \in S
  <2>1. s.age - 1 \in 0..window
    BY <1>2, <1>3, <1>w
  <2> QED
    BY <1>3, <1>z, <2>1
<1>4. /\ store' = [s \in S |-> IF s.age = 0 THEN 0 ELSE store[younger[s]]]
      /\ DOMAIN store' = S /\ store' = [s \in S |-> store'[s]]
  BY <1>2, <1>y DEF Tick
<1>5. ASSUME NEW s \in S, NEW t \in S, younger[s] = younger[t]
      PROVE  s = t
  <2>1. /\ s.binding = t.binding /\ s.kind = t.kind /\ s.slow = t.slow
        /\ s.age - 1 = t.age - 1
    <3>1. younger[s] = [binding |-> s.binding, kind |-> s.kind, slow |-> s.slow,
                        age |-> s.age - 1]
      BY <1>z
    <3>2. younger[t] = [binding |-> t.binding, kind |-> t.kind, slow |-> t.slow,
                        age |-> t.age - 1]
      BY <1>z
    <3>3. PICK b, k, w, a, c, l, v, d :
            /\ b = s.binding /\ k = s.kind /\ w = s.slow /\ a = s.age - 1
            /\ c = t.binding /\ l = t.kind /\ v = t.slow /\ d = t.age - 1
      OBVIOUS
    <3>4. [binding |-> b, kind |-> k, slow |-> w, age |-> a]
            = [binding |-> c, kind |-> l, slow |-> v, age |-> d]
      BY <1>5, <3>1, <3>2, <3>3
    <3>5. b = c /\ k = l /\ w = v /\ a = d
      BY <3>4, SortFields
    <3> QED
      BY <3>3, <3>5
  <2>2. s.age \in 0..window /\ t.age \in 0..window
    BY <1>3
  <2>3. s.age = t.age
    BY <1>2, <2>1, <2>2
  <2>4. /\ s = [binding |-> s.binding, kind |-> s.kind, slow |-> s.slow, age |-> s.age]
        /\ t = [binding |-> t.binding, kind |-> t.kind, slow |-> t.slow, age |-> t.age]
    BY <1>3
  <2> QED
    BY <2>1, <2>3, <2>4
<1>6. \A s \in S : /\ store'[s] \in Nat
                   /\ store'[s] # 0 => s.age # 0 /\ store'[s] = store[younger[s]]
  BY <1>2, <1>4, <1>w
<1>7. SumFunctionOnSet(store', S) <= SumFunctionOnSet(store, S)
  <2>1. \A s \in S : store'[s] # 0 => younger[s] \in S /\ store'[s] = store[younger[s]]
    BY <1>6, <1>w
  <2>2. \A s, t \in S :
          store'[s] # 0 /\ store'[t] # 0 /\ younger[s] = younger[t] => s = t
    BY <1>5, <1>6
  <2>3. \A s \in S : store[s] \in Nat /\ store'[s] \in Nat
    BY <1>2, <1>6
  <2> QED
    BY <1>2, <2>1, <2>2, <2>3, SumsMove
<1>8. /\ Stored = SumFunctionOnSet(store, S)
      /\ Stored' = SumFunctionOnSet(store', S)
      /\ Stored <= limit
  BY <1>1, <1>2, <1>4
     DEF Stored, Count, Sorts, HistoryTypeOK
<1>9. SumFunctionOnSet(store', S) <= limit
  <2>1. SumFunctionOnSet(store, S) \in Nat /\ SumFunctionOnSet(store', S) \in Nat
    BY <1>2, <1>6, SumsCover
  <2> QED
    BY <1>2, <1>7, <1>8, <2>1
<1>10. store' \in [S -> 0..limit]
  BY <1>2, <1>4, <1>6, <1>9, StoreFits
<1>11. SortsUnder(setting)' = S
  BY <1>1, <1>2 DEF SortsUnder
<1> QED
  BY <1>1, <1>2, <1>8, <1>9, <1>10, <1>11 DEF HistoryTypeOK

LEMMA HistoryInvariance == HistorySpec => []HistoryTypeOK
<1>1. HistoryInit => HistoryTypeOK
  BY HistoryStarts
<1>2. HistoryTypeOK /\ [HistoryNext]_historyVars => HistoryTypeOK'
  <2> SUFFICES ASSUME HistoryTypeOK, [HistoryNext]_historyVars PROVE HistoryTypeOK'
    OBVIOUS
  <2>1. CASE Tick
    BY <2>1, TickKeepsHistory
  <2>2. ASSUME NEW r \in setting.runs, Select(r) PROVE HistoryTypeOK'
    BY <2>2, SelectKeepsHistory
  <2>3. ASSUME NEW r \in setting.runs, Finish(r) PROVE HistoryTypeOK'
    BY <2>3, FinishKeepsHistory
  <2>4. CASE UNCHANGED historyVars
    BY <2>4 DEF historyVars, HistoryTypeOK, SortsUnder, Stored, Count, Sorts
  <2> QED
    BY <2>1, <2>2, <2>3, <2>4 DEF HistoryNext
<1> QED
  BY <1>1, <1>2, PTL DEF HistorySpec

(* Whatever the thresholds, the priorities and the history a Cell has      *)
(* collected, and however its runs overlap: a run is placed on at least    *)
(* one binding and on none twice, and a binding is withheld from it only   *)
(* if it failed within the window and failed more often than every offered *)
(* one that has history enough to be compared with.                        *)
THEOREM PlacementIsSound == HistorySpec => []PlacementInv
<1>1. HistoryTypeOK => LadderIsSound
  BY SoundLadders
<1> QED
  BY <1>1, HistoryInvariance, PTL DEF PlacementInv

(* What is neither for nor against anybody changes no ladder. *)
LEMMA NeutralStep ==
  ASSUME HistoryTypeOK, setting' = setting, DOMAIN store' = DOMAIN store,
         \A s \in Measured : store'[s] = store[s]
  PROVE  Ladder' = Ladder
<1>1. \A s \in Sorts : store[s] \in Nat
  BY PolicyFacts DEF HistoryTypeOK, Sorts
<1>2. ASSUME NEW S, S \subseteq Measured
      PROVE  SumFunctionOnSet(store', S) = SumFunctionOnSet(store, S)
  <2>1. S \subseteq Sorts
    BY <1>2 DEF Measured
  <2>2. IsFiniteSet(S)
    BY <2>1, CountFacts
  <2>3. \A s \in S : store[s] \in Int /\ store[s] = store'[s]
    BY <1>1, <1>2, <2>1
  <2> QED
    BY <2>2, <2>3, SumsAgree
<1>3. ASSUME NEW b \in Bindings
      PROVE  Evaluation(b)' = Evaluation(b)
  <2>1. PICK of, failed, fast :
          /\ of = Of(b)
          /\ failed = {s \in of : s.kind # "ok"} /\ fast = {s \in of : ~s.slow}
    OBVIOUS
  <2>2. of \subseteq Measured /\ failed \subseteq of /\ fast \subseteq of
    BY <2>1, PolicyFacts DEF Of, Measured, Eligible
  <2>3. Of(b)' = of
    BY <2>1 DEF Of, Sorts
  <2>4. Traces(b)' = Traces(b)
    <3>1. SumFunctionOnSet(store', of) = SumFunctionOnSet(store, of)
      BY <1>2, <2>2
    <3> QED
      BY <2>1, <2>3, <3>1 DEF Traces, Count
  <2>5. Failures(b)' = Failures(b)
    <3>1. SumFunctionOnSet(store', failed) = SumFunctionOnSet(store, failed)
      BY <1>2, <2>2
    <3>2. {s \in Of(b)' : s.kind # "ok"} = failed
      BY <2>1, <2>3
    <3> QED
      BY <2>1, <3>1, <3>2 DEF Failures, Count
  <2>6. Fast(b)' = Fast(b)
    <3>1. SumFunctionOnSet(store', fast) = SumFunctionOnSet(store, fast)
      BY <1>2, <2>2
    <3>2. {s \in Of(b)' : ~s.slow} = fast
      BY <2>1, <2>3
    <3> QED
      BY <2>1, <3>1, <3>2 DEF Fast, Count
  <2> QED
    BY <2>4, <2>5, <2>6 DEF Evaluation
<1>4. Evaluations' = Evaluations
  BY <1>3 DEF Evaluations
<1> QED
  BY <1>4 DEF Ladder

(* A cancellation, and a failure that reached no binding, move no          *)
(* candidate: while the counts of the other traces stay, so does the       *)
(* ladder.                                                                 *)
THEOREM NeutralTracesMoveNobody == HistorySpec => NeutralOutcomes
<1>1. ASSUME HistoryTypeOK, [HistoryNext]_historyVars
      PROVE  [(\A s \in Measured : store'[s] = store[s])
                => Ladder' = Ladder]_historyVars
  <2> SUFFICES ASSUME HistoryNext, \A s \in Measured : store'[s] = store[s]
               PROVE  Ladder' = Ladder
    BY <1>1
  <2>1. setting' = setting /\ DOMAIN store' = DOMAIN store
    BY DEF HistoryNext, Tick, Select, Finish, Sorts
  <2> QED
    BY <1>1, <2>1, NeutralStep
<1> QED
  BY <1>1, HistoryInvariance, PTL DEF HistorySpec, NeutralOutcomes

(* The default policy's answer, given names for its candidates.            *)
IsNaming(cell, name) ==
  /\ name \in [Bindings -> CandidatesFor(cell)]
  /\ \A a, b \in Bindings : name[a].id = name[b].id => a = b
Answer(cell, name) ==
  [cell |-> Key(cell), ladder |-> [i \in DOMAIN Ladder |-> name[Ladder[i]]]]
PlannerTakesIt ==
  \A cell, name : IsNaming(cell, name) =>
    /\ Answer(cell, name).ladder # << >>
    /\ Acceptable(cell, Answer(cell, name))

(* Whatever the history has become, _place of the planner finds nothing    *)
(* wrong with the answer RuntimeAwarePlacementPolicy gives it.             *)
THEOREM PlannerTakesEveryLadder == HistorySpec => []PlannerTakesIt
<1>1. ASSUME HistoryTypeOK PROVE PlannerTakesIt
  <2> SUFFICES ASSUME NEW cell, NEW name, IsNaming(cell, name)
               PROVE  /\ Answer(cell, name).ladder # << >>
                      /\ Acceptable(cell, Answer(cell, name))
    BY DEF PlannerTakesIt
  <2>1. PICK placed, l : /\ placed = Ladder
                         /\ l = [i \in DOMAIN placed |-> name[placed[i]]]
    OBVIOUS
  <2>2. Answer(cell, name) = [cell |-> Key(cell), ladder |-> l]
    BY <2>1 DEF Answer
  <2>3. /\ placed \in Seq(Bindings) /\ placed # << >>
        /\ \A i, j \in DOMAIN placed : placed[i] = placed[j] => i = j
    BY <1>1, <2>1, LadderFacts
  <2>4. PICK N \in Nat : N = Len(placed) /\ DOMAIN placed = 1..N
    BY <2>3
  <2>5. l = [i \in 1..N |-> name[placed[i]]] /\ \A i \in 1..N : placed[i] \in Bindings
    BY <2>1, <2>3, <2>4
  <2>6. l \in [1..N -> CandidatesFor(cell)] /\ N # 0
    BY <2>3, <2>4, <2>5 DEF IsNaming
  <2>7. l # << >>
    BY <2>6
  <2>8. Range(l) \subseteq CandidatesFor(cell)
    BY <2>6 DEF Range
  <2>9. ~Repeats(LadderIds(l))
    <3>1. LadderIds(l) = [i \in 1..N |-> l[i].id]
      BY <2>6 DEF LadderIds
    <3>2. ASSUME NEW i \in 1..N, NEW j \in 1..N, l[i].id = l[j].id PROVE i = j
      <4>1. placed[i] = placed[j]
        BY <2>5, <3>2 DEF IsNaming
      <4> QED
        BY <2>3, <2>4, <4>1
    <3>3. PICK ids, S : ids = [i \in 1..N |-> l[i].id] /\ S = {l[i].id : i \in 1..N}
      OBVIOUS
    <3>4. ids \in Seq(S) /\ Len(ids) = N
      BY <3>3
    <3>5. \A i, j \in 1..Len(ids) : ids[i] = ids[j] => i = j
      BY <3>2, <3>3, <3>4
    <3> QED
      BY <3>1, <3>3, <3>4, <3>5, Distinct
  <2> QED
    BY <2>2, <2>7, <2>8, <2>9 DEF Acceptable
<1> QED
  BY <1>1, HistoryInvariance, PTL
=============================================================================
