------------------------ MODULE PlanExecutionProofs ------------------------
(***************************************************************************)
(* Theorems about PlanExecution, for every plan, resolver and executor.    *)
(***************************************************************************)
EXTENDS PlanExecution, PlanValidationProofs

(* The facts of a record that caching is about.                            *)
Missed(i) == records[i].status = "succeeded" /\ ~records[i].cache_hit

(* The records are a list of entries, and every entry that did not fail    *)
(* names a reference the coordinator holds, with the snapshot it holds.    *)
RecordsHold ==
  /\ \E S : records \in Seq(S)
  /\ \A i \in DOMAIN records :
       \/ /\ records[i].status = "succeeded"
          /\ records[i].cache_hit \in BOOLEAN
          /\ records[i].reference_id \in DOMAIN resolved_inputs
          /\ records[i].snapshot = resolved_inputs[records[i].reference_id]
       \/ /\ records[i].status = "failed"
          /\ records[i].reference_id \notin DOMAIN resolved_inputs
          /\ i = Len(records)
          /\ phase \in {"failed", "raised"}

(* One entry at most per reference is an actual resolution.                *)
OneMiss ==
  \A i, j \in DOMAIN records :
    Missed(i) /\ Missed(j) /\ records[i].reference_id = records[j].reference_id
      => i = j

CacheInv == RecordsHold /\ OneMiss

LEMMA AppendFacts ==
  ASSUME NEW S, NEW s \in Seq(S), NEW e
  PROVE  /\ Append(s, e) \in Seq(S \cup {e})
         /\ Len(s) \in Nat
         /\ DOMAIN s = 1..Len(s)
         /\ Len(Append(s, e)) = Len(s) + 1
         /\ DOMAIN Append(s, e) = 1..(Len(s) + 1)
         /\ \A i \in DOMAIN s : Append(s, e)[i] = s[i]
         /\ Append(s, e)[Len(s) + 1] = e
<1>1. s \in Seq(S \cup {e}) /\ e \in S \cup {e}
  OBVIOUS
<1>2. Append(s, e) \in Seq(S \cup {e})
  BY <1>1
<1>3. QED
  BY <1>1, <1>2

(* A step that touches neither the records nor the snapshots, and leaves   *)
(* no end of the run, keeps both.                                          *)
LEMMA CacheUndisturbed ==
  ASSUME CacheInv, UNCHANGED <<records, resolved_inputs>>,
         phase \in {"failed", "raised"} => phase' \in {"failed", "raised"}
  PROVE  CacheInv'
  BY DEF CacheInv, RecordsHold, OneMiss, Missed

LEMMA CachedReads ==
  ASSUME CacheInv, ReadCached
  PROVE  CacheInv'
<1> DEFINE r == Head(inputs_left)
           e == Record(r, "succeeded", TRUE, resolved_inputs[r])
           n == Len(records)
<1>1. /\ records' = Append(records, e)
      /\ resolved_inputs' = resolved_inputs
      /\ phase' = phase /\ phase = "inputs"
      /\ r \in DOMAIN resolved_inputs
  BY DEF ReadCached, Cached
<1>2. /\ e.status = "succeeded" /\ e.cache_hit = TRUE
      /\ e.reference_id = r /\ e.snapshot = resolved_inputs[r]
  BY DEF Record
<1> HIDE DEF e, r
<1>3. /\ \E S : records' \in Seq(S)
      /\ n \in Nat /\ DOMAIN records = 1..n /\ DOMAIN records' = 1..(n + 1)
      /\ \A i \in 1..n : records'[i] = records[i]
      /\ records'[n + 1] = e
  <2>1. PICK S : records \in Seq(S)
    BY DEF CacheInv, RecordsHold
  <2>2. /\ Append(records, e) \in Seq(S \cup {e})
        /\ n \in Nat /\ DOMAIN records = 1..n
        /\ Len(Append(records, e)) = n + 1
        /\ DOMAIN Append(records, e) = 1..(n + 1)
        /\ \A i \in DOMAIN records : Append(records, e)[i] = records[i]
        /\ Append(records, e)[n + 1] = e
    BY <2>1, AppendFacts
  <2>3. \E T : records' \in Seq(T)
    BY <1>1, <2>2
  <2>4. QED
    BY <1>1, <2>2, <2>3
<1>4. \A i \in DOMAIN records' : i \in 1..n \/ i = n + 1
  BY <1>3
<1>5. \A i \in 1..n : records[i].status = "succeeded"
  BY <1>1, <1>3 DEF CacheInv, RecordsHold
<1>6. RecordsHold'
  <2>1. \A i \in 1..n :
          /\ records'[i].status = "succeeded"
          /\ records'[i].cache_hit \in BOOLEAN
          /\ records'[i].reference_id \in DOMAIN resolved_inputs'
          /\ records'[i].snapshot = resolved_inputs'[records'[i].reference_id]
    BY <1>1, <1>3, <1>5 DEF CacheInv, RecordsHold
  <2>2. /\ records'[n + 1].status = "succeeded"
        /\ records'[n + 1].cache_hit \in BOOLEAN
        /\ records'[n + 1].reference_id \in DOMAIN resolved_inputs'
        /\ records'[n + 1].snapshot = resolved_inputs'[records'[n + 1].reference_id]
    BY <1>1, <1>2, <1>3
  <2>3. QED
    BY <1>3, <1>4, <2>1, <2>2 DEF RecordsHold
<1>7. OneMiss'
  BY <1>2, <1>3, <1>4 DEF CacheInv, OneMiss, Missed
<1>8. QED
  BY <1>6, <1>7 DEF CacheInv

LEMMA ResolutionMisses ==
  ASSUME CacheInv, ResolveInput
  PROVE  CacheInv'
<1> DEFINE r == Head(inputs_left)
           n == Len(records)
<1>1. PICK answer : /\ resolved_inputs' =
                         [x \in DOMAIN resolved_inputs \cup {r} |->
                            IF x = r THEN answer ELSE resolved_inputs[x]]
                    /\ records' = Append(records, Record(r, "succeeded", FALSE, answer))
  BY DEF ResolveInput
<1> DEFINE e == Record(r, "succeeded", FALSE, answer)
<1>2. /\ phase' = phase /\ phase = "inputs"
      /\ r \notin DOMAIN resolved_inputs
  BY DEF ResolveInput, Cached
<1>3. /\ e.status = "succeeded" /\ e.cache_hit = FALSE
      /\ e.reference_id = r /\ e.snapshot = answer
  BY DEF Record
<1>4. /\ r \in DOMAIN resolved_inputs' /\ resolved_inputs'[r] = answer
      /\ \A x \in DOMAIN resolved_inputs :
           x \in DOMAIN resolved_inputs' /\ resolved_inputs'[x] = resolved_inputs[x]
  BY <1>1, <1>2
<1>5. records' = Append(records, e)
  BY <1>1
<1> HIDE DEF e, r
<1>6. /\ \E S : records' \in Seq(S)
      /\ n \in Nat /\ DOMAIN records = 1..n /\ DOMAIN records' = 1..(n + 1)
      /\ \A i \in 1..n : records'[i] = records[i]
      /\ records'[n + 1] = e
  <2>1. PICK S : records \in Seq(S)
    BY DEF CacheInv, RecordsHold
  <2>2. /\ Append(records, e) \in Seq(S \cup {e})
        /\ n \in Nat /\ DOMAIN records = 1..n
        /\ Len(Append(records, e)) = n + 1
        /\ DOMAIN Append(records, e) = 1..(n + 1)
        /\ \A i \in DOMAIN records : Append(records, e)[i] = records[i]
        /\ Append(records, e)[n + 1] = e
    BY <2>1, AppendFacts
  <2>3. \E T : records' \in Seq(T)
    BY <1>5, <2>2
  <2>4. QED
    BY <1>5, <2>2, <2>3
<1>7. \A i \in DOMAIN records' : i \in 1..n \/ i = n + 1
  BY <1>6
<1>8. \A i \in 1..n :
        /\ records[i].status = "succeeded"
        /\ records[i].cache_hit \in BOOLEAN
        /\ records[i].reference_id \in DOMAIN resolved_inputs
        /\ records[i].snapshot = resolved_inputs[records[i].reference_id]
        /\ records[i].reference_id # r
  BY <1>2, <1>6 DEF CacheInv, RecordsHold
<1>9. RecordsHold'
  <2>1. \A i \in 1..n :
          /\ records'[i].status = "succeeded"
          /\ records'[i].cache_hit \in BOOLEAN
          /\ records'[i].reference_id \in DOMAIN resolved_inputs'
          /\ records'[i].snapshot = resolved_inputs'[records'[i].reference_id]
    BY <1>4, <1>6, <1>8
  <2>2. /\ records'[n + 1].status = "succeeded"
        /\ records'[n + 1].cache_hit \in BOOLEAN
        /\ records'[n + 1].reference_id \in DOMAIN resolved_inputs'
        /\ records'[n + 1].snapshot = resolved_inputs'[records'[n + 1].reference_id]
    BY <1>3, <1>4, <1>6
  <2>3. QED
    BY <1>6, <1>7, <2>1, <2>2 DEF RecordsHold
<1>10. OneMiss'
  BY <1>3, <1>6, <1>7, <1>8 DEF CacheInv, OneMiss, Missed
<1>11. QED
  BY <1>9, <1>10 DEF CacheInv

LEMMA FailureRecorded ==
  ASSUME CacheInv, ResolveFails
  PROVE  CacheInv'
<1> DEFINE r == Head(inputs_left)
           e == Record(r, "failed", FALSE, "none")
           n == Len(records)
<1>1. /\ records' = Append(records, e)
      /\ resolved_inputs' = resolved_inputs
      /\ phase = "inputs" /\ phase' \in {"failed", "raised"}
      /\ r \notin DOMAIN resolved_inputs
  BY DEF ResolveFails, Fail, Cached
<1>2. e.status = "failed" /\ e.cache_hit = FALSE /\ e.reference_id = r
  BY DEF Record
<1> HIDE DEF e, r
<1>3. /\ \E S : records' \in Seq(S)
      /\ n \in Nat /\ DOMAIN records = 1..n /\ DOMAIN records' = 1..(n + 1)
      /\ \A i \in 1..n : records'[i] = records[i]
      /\ records'[n + 1] = e
      /\ Len(records') = n + 1
  <2>1. PICK S : records \in Seq(S)
    BY DEF CacheInv, RecordsHold
  <2>2. /\ Append(records, e) \in Seq(S \cup {e})
        /\ n \in Nat /\ DOMAIN records = 1..n
        /\ Len(Append(records, e)) = n + 1
        /\ DOMAIN Append(records, e) = 1..(n + 1)
        /\ \A i \in DOMAIN records : Append(records, e)[i] = records[i]
        /\ Append(records, e)[n + 1] = e
    BY <2>1, AppendFacts
  <2>3. \E T : records' \in Seq(T)
    BY <1>1, <2>2
  <2>4. QED
    BY <1>1, <2>2, <2>3
<1>4. \A i \in DOMAIN records' : i \in 1..n \/ i = n + 1
  BY <1>3
<1>5. \A i \in 1..n : records[i].status = "succeeded"
  BY <1>1, <1>3 DEF CacheInv, RecordsHold
<1>6. RecordsHold'
  BY <1>1, <1>2, <1>3, <1>4, <1>5 DEF CacheInv, RecordsHold
<1>7. OneMiss'
  BY <1>2, <1>3, <1>4 DEF CacheInv, OneMiss, Missed
<1>8. QED
  BY <1>6, <1>7 DEF CacheInv

LEMMA CacheInvariance == Spec => []CacheInv
<1>1. Init => CacheInv
  <2> SUFFICES ASSUME Init PROVE CacheInv
    OBVIOUS
  <2>1. records = << >> /\ records \in Seq({}) /\ DOMAIN records = {}
    BY DEF Init
  <2>2. QED
    BY <2>1 DEF CacheInv, RecordsHold, OneMiss
<1>2. CacheInv /\ [Next]_vars => CacheInv'
  <2> SUFFICES ASSUME CacheInv, [Next]_vars PROVE CacheInv'
    OBVIOUS
  <2>1. CASE Reject \/ Accept \/ BeginNode \/ Finish
    BY <2>1, CacheUndisturbed DEF Reject, Accept, BeginNode, Finish, inputs
  <2>2. CASE ReadCached
    BY <2>2, CachedReads
  <2>3. CASE ResolveInput
    BY <2>3, ResolutionMisses
  <2>4. CASE ResolveFails
    BY <2>4, FailureRecorded
  <2>5. CASE Compose
    BY <2>5, CacheUndisturbed DEF Compose
  <2>6. CASE ExecutorSucceeds \/ ExecutionFails
    BY <2>6, CacheUndisturbed DEF ExecutorSucceeds, ExecutionFails, inputs
  <2>7. CASE UNCHANGED vars
    BY <2>7, CacheUndisturbed DEF vars, inputs
  <2>8. QED
    BY <2>1, <2>2, <2>3, <2>4, <2>5, <2>6, <2>7 DEF Next
<1>3. QED
  BY <1>1, <1>2, PTL DEF Spec

(* However many nodes of a plan read a reference, and whatever resolve()   *)
(* answers, one record at most is an actual resolution, and every node got *)
(* the same snapshot (coordinator.py _compose_cell_inputs).                *)
THEOREM ReferencesResolveOnce == Spec => []ResolvedOnce
<1>1. CacheInv => ResolvedOnce
  BY DEF CacheInv, RecordsHold, OneMiss, Missed, ResolvedOnce
<1>2. QED
  BY <1>1, CacheInvariance, PTL
-----------------------------------------------------------------------------
(* The walk *)

LEMMA FrontFacts ==
  ASSUME NEW S, NEW s \in Seq(S), s # << >>
  PROVE  /\ Len(s) \in Nat \ {0} /\ Last(s) = s[Len(s)] /\ Last(s) \in S
         /\ Front(s) \in Seq(S) /\ Len(Front(s)) = Len(s) - 1
         /\ \A i \in 1..(Len(s) - 1) : Front(s)[i] = s[i]
         /\ Append(Front(s), Last(s)) = s
         /\ Range(s) = Range(Front(s)) \cup {Last(s)}
<1> DEFINE n == Len(s)
           f == Front(s)
<1>1. n \in Nat \ {0} /\ \A i \in 1..n : s[i] \in S
  BY EmptySeq, ElementOfSeq
<1>2. f \in Seq(S) /\ Len(f) = n - 1 /\ \A i \in 1..(n - 1) : f[i] = s[i]
  <2>1. 1 \in Int /\ n - 1 \in Int /\ \A i \in 1..(n - 1) : s[i] \in S
    BY <1>1
  <2>2. /\ SubSeq(s, 1, n - 1) \in Seq(S)
        /\ Len(SubSeq(s, 1, n - 1)) = IF 1 <= n - 1 THEN (n - 1) - 1 + 1 ELSE 0
        /\ \A i \in 1..((n - 1) - 1 + 1) : SubSeq(s, 1, n - 1)[i] = s[1 + i - 1]
    BY <2>1, SubSeqProperties
  <2>3. /\ (n - 1) - 1 + 1 = n - 1 /\ (1 <= n - 1 \/ n - 1 = 0)
        /\ \A i \in 1..(n - 1) : 1 + i - 1 = i
    <3> HIDE DEF n
    <3> QED
      BY <1>1
  <2>4. f = SubSeq(s, 1, n - 1)
    BY DEF Front
  <2> HIDE DEF f, n
  <2> QED
    BY <2>2, <2>3, <2>4
<1>3. Last(s) = s[n]
  BY DEF Last
<1> HIDE DEF f, n
<1>4. n \in 1..n /\ s[n] \in S
  BY <1>1
<1>5. /\ Append(f, s[n]) \in Seq(S) /\ Len(Append(f, s[n])) = n
      /\ \A i \in 1..n : Append(f, s[n])[i] = s[i]
  BY <1>1, <1>2, <1>4, AppendProperties
<1>6. Append(f, s[n]) = s
  BY <1>5, SeqEqual DEF n
<1>7. Range(s) = Range(f) \cup {s[n]}
  <2>1. DOMAIN s = 1..n /\ DOMAIN f = 1..(n - 1)
    BY <1>2, LenProperties DEF n
  <2>2. \A i \in 1..n : i \in 1..(n - 1) \/ i = n
    BY <1>1
  <2>3. \A i \in 1..(n - 1) : i \in 1..n
    BY <1>1
  <2> QED
    BY <1>2, <1>4, <2>1, <2>2, <2>3 DEF Range
<1> QED
  BY <1>1, <1>2, <1>3, <1>4, <1>6, <1>7 DEF f, n

LEMMA FrontOfAppend ==
  ASSUME NEW S, NEW s \in Seq(S), NEW e \in S
  PROVE  /\ Append(s, e) \in Seq(S) /\ Append(s, e) # << >>
         /\ Front(Append(s, e)) = s /\ Last(Append(s, e)) = e
         /\ Range(Append(s, e)) = Range(s) \cup {e}
<1> DEFINE t == Append(s, e)
<1>1. /\ t \in Seq(S) /\ Len(t) = Len(s) + 1 /\ Len(s) \in Nat
      /\ \A i \in 1..Len(s) : t[i] = s[i]
      /\ t[Len(s) + 1] = e
  BY AppendProperties, LenProperties
<1> HIDE DEF t
<1>2. t # << >>
  BY <1>1, EmptySeq
<1>3. /\ Last(t) = t[Len(t)] /\ Front(t) \in Seq(S) /\ Len(Front(t)) = Len(t) - 1
      /\ \A i \in 1..(Len(t) - 1) : Front(t)[i] = t[i]
      /\ Range(t) = Range(Front(t)) \cup {Last(t)}
  BY <1>1, <1>2, FrontFacts
<1>4. Len(Front(t)) = Len(s) /\ \A i \in 1..Len(Front(t)) : Front(t)[i] = s[i]
  BY <1>1, <1>3
<1>5. Front(t) = s
  BY <1>3, <1>4, SeqEqual
<1> QED
  BY <1>1, <1>2, <1>3, <1>5 DEF t

(* The validated plan, its schedule, and how far the coordinator is in it. *)
Placed ==
  /\ ValidPlan(plan)
  /\ schedule = Schedule(Graph(plan))
  /\ execution_order \in Seq(Ids(plan.nodes))
  /\ Len(execution_order) <= Len(schedule)
  /\ \A i \in 1..Len(execution_order) : execution_order[i] = schedule[i]

(* Nothing but validation has happened.                                    *)
Untouched ==
  /\ schedule = << >> /\ execution_order = << >> /\ attempted = << >>
  /\ results = {} /\ materialized = {}
  /\ resolved_inputs = << >> /\ records = << >> /\ inputs_left = << >>
  /\ error = "none"

(* Every node begun is complete; or the last one is not.                   *)
Between ==
  results = Range(execution_order) /\ attempted = execution_order /\ error = "none"
Within(kept) ==
  /\ execution_order # << >>
  /\ results = Range(Front(execution_order))
  /\ attempted = kept

Faults == {"registry", "resolution", "composition", "execution", "audit", "executor"}
Broken ==
  /\ error \in Faults
  /\ Within(IF error \in {"execution", "audit"} THEN execution_order
                                                ELSE Front(execution_order))

WalkInv ==
  /\ \E w \in Worlds : plan \in w.plans /\ world = w.world
  /\ phase \in Phases
  /\ Accepted => Placed
  /\ ~Accepted => Untouched
  /\ phase = "next_node" => Between
  /\ phase \in {"inputs", "composed"} =>
       Within(Front(execution_order)) /\ error = "none"
  /\ phase = "succeeded" => Between /\ Len(execution_order) = Len(schedule)
  /\ phase = "failed" => Broken
  /\ phase = "raised" => Broken \/ (Between /\ execution_order # << >>)

(* The records of a node are those of its first n inputs.                  *)
AuditedUpTo(id, n) ==
  /\ Len(RecordsOf(id)) = n
  /\ \A i \in 1..n : /\ RecordsOf(id)[i].reference_id = NodeOf(id).inputs[i]
                     /\ RecordsOf(id)[i].status = "succeeded"

(* The inputs not composed yet are the last ones of the current node.      *)
LeftOver ==
  /\ inputs_left \in Seq(Ids(plan.references))
  /\ Len(inputs_left) <= Len(Current.inputs)
  /\ \A j \in 1..Len(inputs_left) :
       inputs_left[j] = Current.inputs[(Len(Current.inputs) - Len(inputs_left)) + j]

InputInv ==
  /\ records \in Seq(Records)
  /\ \A i \in DOMAIN records : records[i].node_id \in Range(execution_order)
  /\ DOMAIN resolved_inputs \subseteq Ids(plan.references)
  /\ \A r \in DOMAIN resolved_inputs : resolved_inputs[r] \in SnapshotAnswers
  /\ materialized \subseteq DOMAIN resolved_inputs
  /\ execution_order # << >> => LeftOver
  /\ phase = "inputs" =>
       AuditedUpTo(Last(execution_order), Len(Current.inputs) - Len(inputs_left))
  /\ phase = "composed" => AuditedUpTo(Last(execution_order), Len(Current.inputs))
  /\ \A id \in Range(attempted) : AuditedUpTo(id, Len(NodeOf(id).inputs))
  /\ error = "composition" =>
       \E r \in DOMAIN resolved_inputs : resolved_inputs[r] # "matching"

LEMMA Surroundings ==
  ASSUME WalkInv
  PROVE  /\ IsPlan(plan)
         /\ world.resolver \subseteq AnswersOfResolve
         /\ world.executor \subseteq AnswersOfExecutor
         /\ world.raises \in BOOLEAN
  BY PlanAssumption, EnvironmentAssumption DEF WalkInv

LEMMA SurroundingsStay ==
  ASSUME [Next]_vars
  PROVE  UNCHANGED <<world, plan>>
<1>1. CASE Reject \/ Accept \/ ReadCached \/ ResolveInput \/ ExecutorSucceeds \/ Finish
  BY <1>1 DEF Reject, Accept, ReadCached, ResolveInput, ExecutorSucceeds, Finish
<1>2. CASE BeginNode \/ ResolveFails \/ Compose \/ ExecutionFails
  BY <1>2 DEF BeginNode, ResolveFails, Compose, ExecutionFails, Fail
<1>3. CASE UNCHANGED vars
  BY <1>3 DEF vars
<1> QED
  BY <1>1, <1>2, <1>3 DEF Next

(* While the coordinator is in the plan, the schedule is one it can use.   *)
LEMMA PlacedFacts ==
  ASSUME WalkInv, Accepted
  PROVE  /\ Placed
         /\ schedule \in Seq(Ids(plan.nodes)) /\ Range(schedule) = Ids(plan.nodes)
         /\ Once(schedule) /\ InOrder(Graph(plan), schedule)
         /\ Len(schedule) = Cardinality(Ids(plan.nodes))
         /\ Len(schedule) \in Nat \ {0} /\ schedule[Len(schedule)] = plan.root
<1>1. Placed /\ IsPlan(plan)
  BY Surroundings DEF WalkInv
<1> QED
  BY <1>1, SchedulesEndInRoot DEF Placed

LEMMA AcceptPlaces ==
  ASSUME WalkInv, Accept
  PROVE  WalkInv'
<1>1. UNCHANGED <<world, plan, walk, inputs, error>> /\ ValidationIssues(plan) = {}
      /\ phase = "planned" /\ phase' = "next_node" /\ schedule' = Schedule(Graph(plan))
  BY DEF Accept
<1>2. execution_order = << >> /\ attempted = << >> /\ results = {} /\ error = "none"
  BY <1>1 DEF WalkInv, Accepted, Untouched
<1>3. IsPlan(plan) /\ ValidPlan(plan)
  BY <1>1, Surroundings, Validated
<1>4. Len(schedule') \in Nat \ {0}
  BY <1>1, <1>3, SchedulesEndInRoot
<1>5. << >> \in Seq(Ids(plan.nodes)) /\ Len(<< >>) = 0 /\ Range(<< >>) = {}
  BY EmptySeq DEF Range
<1>6. Placed'
  BY <1>1, <1>2, <1>3, <1>4, <1>5 DEF Placed, walk
<1>7. Between'
  BY <1>1, <1>2, <1>5 DEF Between, walk
<1>8. \E w \in Worlds : plan' \in w.plans /\ world' = w.world
  BY <1>1 DEF WalkInv
<1> QED
  BY <1>1, <1>6, <1>7, <1>8 DEF WalkInv, Accepted, Phases

LEMMA BeginPlaces ==
  ASSUME WalkInv, BeginNode
  PROVE  WalkInv' /\ Front(execution_order') = execution_order
<1> DEFINE n == Len(execution_order)
           id == schedule[n + 1]
           D == Ids(plan.nodes)
<1>1. /\ phase = "next_node" /\ n < Len(schedule)
      /\ execution_order' = Append(execution_order, id) /\ attempted' = attempted
      /\ UNCHANGED <<world, plan, schedule, results>>
      /\ \/ phase' = "inputs" /\ error' = error
         \/ phase' \in {"failed", "raised"} /\ error' = "registry"
  BY DEF BeginNode, Fail
<1>2. Placed /\ Between /\ schedule \in Seq(D) /\ Len(schedule) \in Nat
  BY <1>1, PlacedFacts DEF WalkInv, Accepted
<1>3. execution_order \in Seq(D) /\ n \in Nat
  BY <1>2, LenProperties DEF Placed
<1>4. n + 1 \in 1..Len(schedule) /\ id \in D
  BY <1>1, <1>2, <1>3, ElementOfSeq
<1> HIDE DEF id, D, n
<1>5. /\ execution_order' \in Seq(D) /\ execution_order' # << >>
      /\ Front(execution_order') = execution_order
      /\ Len(execution_order') = n + 1
      /\ \A i \in 1..n : execution_order'[i] = execution_order[i]
      /\ execution_order'[n + 1] = id
  BY <1>1, <1>3, <1>4, FrontOfAppend, AppendProperties DEF n
<1>6. Placed'
  <2>1. \A i \in 1..(n + 1) : i \in 1..n \/ i = n + 1
    BY <1>3
  <2>2. \A i \in 1..(n + 1) : execution_order'[i] = schedule[i]
    BY <1>2, <1>5, <2>1 DEF Placed, n, id
  <2>3. n + 1 <= Len(schedule)
    BY <1>2, <1>4
  <2>4. D' = D
    BY <1>1 DEF D
  <2> QED
    BY <1>1, <1>2, <1>5, <2>2, <2>3, <2>4 DEF Placed, D
<1>7. Within(Front(execution_order))'
  BY <1>1, <1>2, <1>5 DEF Within, Between
<1>8. error = "none"
  BY <1>2 DEF Between
<1>9. \E w \in Worlds : plan' \in w.plans /\ world' = w.world
  BY <1>1 DEF WalkInv
<1>10. CASE phase' = "inputs" /\ error' = error
  BY <1>5, <1>6, <1>7, <1>8, <1>9, <1>10 DEF WalkInv, Accepted, Phases
<1>11. CASE phase' \in {"failed", "raised"} /\ error' = "registry"
  <2>1. Broken'
    BY <1>7, <1>11 DEF Broken, Faults, Within
  <2> QED
    BY <1>5, <1>6, <1>9, <1>11, <2>1 DEF WalkInv, Accepted, Phases
<1> QED
  BY <1>1, <1>5, <1>10, <1>11

(* A node that is begun stays the last one until it is complete, or fails. *)
LEMMA NodeGoesOn ==
  ASSUME WalkInv, phase \in {"inputs", "composed"}, phase' \in {"inputs", "composed"},
         UNCHANGED <<world, plan, schedule, walk, error>>
  PROVE  WalkInv'
<1>1. Placed' /\ Within(Front(execution_order))' /\ error' = "none"
  <2>1. Placed /\ Within(Front(execution_order)) /\ error = "none"
    BY DEF WalkInv, Accepted
  <2> QED
    BY <2>1 DEF walk, Placed, Within
<1>2. \E w \in Worlds : plan' \in w.plans /\ world' = w.world
  BY DEF WalkInv
<1> QED
  BY <1>1, <1>2 DEF WalkInv, Accepted, Phases

LEMMA NodeBreaks ==
  ASSUME WalkInv, phase \in {"inputs", "composed"}, NEW why \in Faults, Fail(why),
         execution_order' = execution_order,
         attempted' = IF why \in {"execution", "audit"}
                      THEN Append(attempted, Last(execution_order)) ELSE attempted
  PROVE  WalkInv'
<1>1. /\ UNCHANGED <<world, plan, schedule, results>>
      /\ error' = why /\ phase' \in {"failed", "raised"}
  BY DEF Fail
<1>2. Placed /\ Within(Front(execution_order))
  BY DEF WalkInv, Accepted
<1>3. Append(Front(execution_order), Last(execution_order)) = execution_order
  BY <1>2, FrontFacts DEF Placed, Within
<1>4. Broken'
  BY <1>1, <1>2, <1>3 DEF Broken, Within
<1>5. Placed'
  BY <1>1, <1>2 DEF Placed
<1>6. \E w \in Worlds : plan' \in w.plans /\ world' = w.world
  BY <1>1 DEF WalkInv
<1> QED
  BY <1>1, <1>4, <1>5, <1>6 DEF WalkInv, Accepted, Phases

(* The current node is a node of the plan, the last one begun, and the     *)
(* results it reads are those of nodes before it in the schedule.          *)
LEMMA CurrentFacts ==
  ASSUME WalkInv, phase \in {"inputs", "composed"}
  PROVE  /\ Last(execution_order) \in Ids(plan.nodes)
         /\ Current \in Range(plan.nodes)
         /\ Current.dependencies = Graph(plan)[Last(execution_order)]
         /\ InputsFit(plan, Current)
         /\ ChildResultsPresent
<1> DEFINE n == Len(execution_order)
           D == Ids(plan.nodes)
           id == Last(execution_order)
<1>1. /\ Placed /\ Within(Front(execution_order)) /\ IsPlan(plan)
      /\ schedule \in Seq(D) /\ InOrder(Graph(plan), schedule) /\ Len(schedule) \in Nat
  BY PlacedFacts, Surroundings DEF WalkInv, Accepted
<1>2. /\ n \in Nat \ {0} /\ n <= Len(schedule)
      /\ \A i \in 1..n : execution_order[i] = schedule[i]
      /\ id = execution_order[n] /\ id \in D
      /\ Len(Front(execution_order)) = n - 1
      /\ Front(execution_order) \in Seq(D)
      /\ \A i \in 1..(n - 1) : Front(execution_order)[i] = execution_order[i]
  BY <1>1, FrontFacts DEF Placed, Within
<1> HIDE DEF n, D, id
<1>3. /\ DOMAIN Graph(plan) = D /\ Graph(plan)[id] = ById(plan.nodes)[id].dependencies
      /\ ById(plan.nodes)[id] \in Range(plan.nodes)
  <2>1. plan.nodes \in Seq(Range(plan.nodes))
    BY <1>1 DEF IsPlan, HasGraph
  <2> QED
    BY <1>1, <1>2, <2>1, GraphFacts, ByIdFacts DEF D
<1>4. Current = ById(plan.nodes)[id]
  BY DEF Current, NodeOf, id
<1>5. Range(Current.dependencies) \subseteq D /\ InputsFit(plan, Current)
  BY <1>1, <1>3, <1>4 DEF Placed, ValidPlan, D
<1>6. ASSUME NEW d \in Range(Graph(plan)[id])
      PROVE  d \in results
  <2>1. n \in 1..Len(schedule) /\ schedule[n] = id /\ n \in 1..n
    BY <1>1, <1>2
  <2>2. PICK j \in 1..(n - 1) : schedule[j] = d
    BY <1>1, <1>3, <1>4, <1>5, <2>1 DEF InOrder
  <2>3. j \in 1..n /\ Front(execution_order)[j] = d
    BY <1>2, <2>2
  <2>4. d \in Range(Front(execution_order))
    BY <1>2, <2>2, <2>3, RangeFacts
  <2> QED
    BY <1>1, <2>4 DEF Within
<1> QED
  BY <1>2, <1>3, <1>4, <1>5, <1>6 DEF ChildResultsPresent, D, id

LEMMA SucceedingCompletes ==
  ASSUME WalkInv, ExecutorSucceeds
  PROVE  WalkInv' /\ attempted' = execution_order
<1>1. /\ phase = "composed"
      /\ UNCHANGED <<world, plan, schedule, execution_order, inputs, error>>
      /\ results' = results \cup {Last(execution_order)}
      /\ attempted' = Append(attempted, Last(execution_order))
      /\ phase' \in {"next_node", "raised"}
  BY DEF ExecutorSucceeds, KeepAttempts
<1>2. Placed /\ Within(Front(execution_order)) /\ error = "none"
  BY <1>1 DEF WalkInv, Accepted
<1>3. /\ Append(Front(execution_order), Last(execution_order)) = execution_order
      /\ Range(execution_order)
           = Range(Front(execution_order)) \cup {Last(execution_order)}
  BY <1>2, FrontFacts DEF Placed, Within
<1>4. attempted' = execution_order /\ results' = Range(execution_order)
  BY <1>1, <1>2, <1>3 DEF Within
<1>5. Between' /\ execution_order' # << >>
  BY <1>1, <1>2, <1>4 DEF Between, Within
<1>6. Placed'
  BY <1>1, <1>2 DEF Placed
<1>7. \E w \in Worlds : plan' \in w.plans /\ world' = w.world
  BY <1>1 DEF WalkInv
<1> QED
  BY <1>1, <1>4, <1>5, <1>6, <1>7 DEF WalkInv, Accepted, Phases

(* Every result a node reads is there, so that the code that would meet a  *)
(* missing one is never reached.                                           *)
LEMMA FailingFacts ==
  ASSUME WalkInv, ExecutionFails
  PROVE  \E why \in {"execution", "audit", "executor"} :
           /\ Fail(why)
           /\ attempted' = IF why = "executor" THEN attempted ELSE execution_order
           /\ UNCHANGED <<execution_order, inputs>> /\ phase = "composed"
<1>1. phase = "composed" /\ UNCHANGED <<execution_order, inputs>>
  BY DEF ExecutionFails
<1>2. ChildResultsPresent
  BY <1>1, CurrentFacts
<1>3. PICK why \in {FailureOf[x] : x \in world.executor \ {"result"}} :
        /\ Fail(why)
        /\ IF why \in {"lookup", "executor"} THEN UNCHANGED attempted ELSE KeepAttempts
  BY <1>2 DEF ExecutionFails
<1>4. why \in {"execution", "audit", "executor"}
  <2>1. PICK x \in world.executor \ {"result"} : why = FailureOf[x]
    BY <1>3
  <2>2. x \in {"error", "unaudited", "raises"}
    BY <2>1, Surroundings DEF AnswersOfExecutor
  <2> QED
    BY <2>1, <2>2 DEF FailureOf
<1>5. Placed /\ Within(Front(execution_order))
  BY <1>1 DEF WalkInv, Accepted
<1>6. Append(Front(execution_order), Last(execution_order)) = execution_order
  BY <1>5, FrontFacts DEF Placed, Within
<1>7. attempted' = IF why = "executor" THEN attempted ELSE execution_order
  BY <1>3, <1>4, <1>5, <1>6 DEF KeepAttempts, Within
<1> QED
  BY <1>1, <1>3, <1>4, <1>7

LEMMA FailingBreaks ==
  ASSUME WalkInv, ExecutionFails
  PROVE  WalkInv'
<1>1. PICK why \in {"execution", "audit", "executor"} :
        /\ Fail(why)
        /\ attempted' = IF why = "executor" THEN attempted ELSE execution_order
        /\ UNCHANGED <<execution_order, inputs>> /\ phase = "composed"
  BY FailingFacts
<1>2. Placed /\ Within(Front(execution_order))
  BY <1>1 DEF WalkInv, Accepted
<1>3. Append(attempted, Last(execution_order)) = execution_order
  BY <1>2, FrontFacts DEF Placed, Within
<1>4. attempted' = IF why \in {"execution", "audit"}
                   THEN Append(attempted, Last(execution_order)) ELSE attempted
  BY <1>1, <1>3
<1>5. why \in Faults
  BY DEF Faults
<1> QED
  BY <1>1, <1>4, <1>5, NodeBreaks

(* A schedule that is walked to its end has the root's result.             *)
LEMMA FinishSucceeds ==
  ASSUME WalkInv, Finish
  PROVE  WalkInv' /\ phase' = "succeeded" /\ results = Ids(plan.nodes)
<1>1. /\ phase = "next_node" /\ Len(execution_order) = Len(schedule)
      /\ UNCHANGED <<world, plan, schedule, walk, inputs>>
      /\ phase' = IF plan.root \in results THEN "succeeded" ELSE "failed"
      /\ error' = IF plan.root \in results THEN "none" ELSE "missing_root"
  BY DEF Finish
<1>2. /\ Placed /\ Between /\ schedule \in Seq(Ids(plan.nodes))
      /\ Range(schedule) = Ids(plan.nodes)
  BY <1>1, PlacedFacts DEF WalkInv, Accepted
<1>3. execution_order = schedule
  BY <1>1, <1>2, SeqEqual DEF Placed
<1>4. results = Ids(plan.nodes) /\ plan.root \in results
  BY <1>2, <1>3 DEF Between, Placed, ValidPlan
<1>5. phase' = "succeeded" /\ error' = "none"
  BY <1>1, <1>4
<1>6. Placed' /\ Between' /\ Len(execution_order)' = Len(schedule)'
  BY <1>1, <1>2, <1>5 DEF Placed, Between, walk
<1>7. \E w \in Worlds : plan' \in w.plans /\ world' = w.world
  BY <1>1 DEF WalkInv
<1> QED
  BY <1>4, <1>5, <1>6, <1>7 DEF WalkInv, Accepted, Phases

LEMMA WalkInvariance == Spec => []WalkInv
<1>1. Init => WalkInv
  <2> SUFFICES ASSUME Init PROVE WalkInv
    OBVIOUS
  <2> QED
    BY DEF Init, WalkInv, Accepted, Untouched, Phases
<1>2. WalkInv /\ [Next]_vars => WalkInv'
  <2> SUFFICES ASSUME WalkInv, [Next]_vars PROVE WalkInv'
    OBVIOUS
  <2>1. CASE Reject
    <3>1. /\ UNCHANGED <<world, plan, schedule, walk, inputs, error>>
          /\ phase = "planned" /\ phase' = "rejected"
      BY <2>1 DEF Reject
    <3>2. Untouched'
      BY <3>1 DEF WalkInv, Accepted, Untouched, walk, inputs
    <3>3. \E w \in Worlds : plan' \in w.plans /\ world' = w.world
      BY <3>1 DEF WalkInv
    <3> QED
      BY <3>1, <3>2, <3>3 DEF WalkInv, Accepted, Phases
  <2>2. CASE Accept
    BY <2>2, AcceptPlaces
  <2>3. CASE BeginNode
    BY <2>3, BeginPlaces
  <2>4. CASE ReadCached \/ ResolveInput
    <3>1. /\ phase = "inputs" /\ phase' = phase
          /\ UNCHANGED <<world, plan, schedule, walk, error>>
      BY <2>4 DEF ReadCached, ResolveInput
    <3> QED
      BY <3>1, NodeGoesOn
  <2>5. CASE ResolveFails
    <3>1. /\ phase = "inputs" /\ Fail("resolution")
          /\ execution_order' = execution_order /\ attempted' = attempted
      BY <2>5 DEF ResolveFails
    <3>2. "resolution" \in Faults /\ "resolution" \notin {"execution", "audit"}
      BY DEF Faults
    <3> QED
      BY <3>1, <3>2, NodeBreaks
  <2>6. CASE Compose
    <3>1. /\ phase = "inputs"
          /\ execution_order' = execution_order /\ attempted' = attempted
          /\ \/ Fail("composition")
             \/ phase' = "composed" /\ UNCHANGED <<world, plan, schedule, results, error>>
      BY <2>6 DEF Compose
    <3>2. "composition" \in Faults /\ "composition" \notin {"execution", "audit"}
      BY DEF Faults
    <3>3. CASE Fail("composition")
      BY <3>1, <3>2, <3>3, NodeBreaks
    <3>4. CASE phase' = "composed" /\ UNCHANGED <<world, plan, schedule, results, error>>
      BY <3>1, <3>4, NodeGoesOn DEF walk
    <3> QED
      BY <3>1, <3>3, <3>4
  <2>7. CASE ExecutorSucceeds
    BY <2>7, SucceedingCompletes
  <2>8. CASE ExecutionFails
    BY <2>8, FailingBreaks
  <2>9. CASE Finish
    BY <2>9, FinishSucceeds
  <2>10. CASE UNCHANGED vars
    BY <2>10 DEF vars, WalkInv, Accepted, Placed, Untouched, Between, Within, Broken
  <2> QED
    BY <2>1, <2>2, <2>3, <2>4, <2>5, <2>6, <2>7, <2>8, <2>9, <2>10 DEF Next
<1> QED
  BY <1>1, <1>2, PTL DEF Spec

LEMMA SuccessIsWhole ==
  ASSUME WalkInv, phase = "succeeded"
  PROVE  /\ results = Ids(plan.nodes) /\ attempted = execution_order
         /\ Last(execution_order) = plan.root
<1>1. /\ Placed /\ Between /\ Len(execution_order) = Len(schedule)
      /\ schedule \in Seq(Ids(plan.nodes)) /\ Range(schedule) = Ids(plan.nodes)
      /\ schedule[Len(schedule)] = plan.root
  BY PlacedFacts DEF WalkInv, Accepted
<1>2. execution_order = schedule
  BY <1>1, SeqEqual DEF Placed
<1> QED
  BY <1>1, <1>2 DEF Between, Last

(* What was complete before the last node begun has neither it nor the     *)
(* root.                                                                   *)
LEMMA FrontMisses ==
  ASSUME WalkInv, Accepted, execution_order # << >>
  PROVE  /\ Last(execution_order) \notin Range(Front(execution_order))
         /\ plan.root \notin Range(Front(execution_order))
<1> DEFINE n == Len(execution_order)
           D == Ids(plan.nodes)
           f == Front(execution_order)
<1>1. /\ Placed /\ schedule \in Seq(D) /\ Once(schedule)
      /\ Len(schedule) \in Nat \ {0} /\ schedule[Len(schedule)] = plan.root
  BY PlacedFacts
<1>2. /\ n \in Nat \ {0} /\ Last(execution_order) = execution_order[n]
      /\ f \in Seq(D) /\ Len(f) = n - 1
      /\ \A i \in 1..(n - 1) : f[i] = execution_order[i]
  BY <1>1, FrontFacts DEF Placed
<1>3. n <= Len(schedule) /\ \A i \in 1..n : execution_order[i] = schedule[i]
  BY <1>1 DEF Placed
<1> HIDE DEF n, D, f
<1>4. ASSUME NEW x \in Range(f)
      PROVE  x # execution_order[n] /\ x # plan.root
  <2>1. PICK i \in 1..(n - 1) : f[i] = x
    BY <1>2, RangeFacts
  <2>2. /\ i \in 1..Len(schedule) /\ n \in 1..Len(schedule)
        /\ Len(schedule) \in 1..Len(schedule) /\ i \in 1..n /\ n \in 1..n
        /\ i # n /\ i # Len(schedule)
    BY <1>1, <1>2, <1>3
  <2>3. x = schedule[i] /\ execution_order[n] = schedule[n]
    BY <1>2, <1>3, <2>1, <2>2
  <2> QED
    BY <1>1, <2>2, <2>3 DEF Once
<1> QED
  BY <1>2, <1>4 DEF f

(* PlanExecutionOutcome tells the truth (coordinator.py execute): whatever *)
(* the plan, its inputs and the executor do, a success has the result of   *)
(* every node, and a failure the results of exactly the nodes before the   *)
(* one it stopped at, never the root's.                                    *)
THEOREM OutcomesAreHonest == Spec => []OutcomeHonest
<1>1. ASSUME WalkInv
      PROVE  OutcomeHonest
  <2>1. ASSUME phase = "failed"
        PROVE  /\ results = Range(Front(execution_order))
               /\ Last(execution_order) \notin results
               /\ plan.root \notin results
               /\ attempted = IF error \in {"execution", "audit"} THEN execution_order
                              ELSE Front(execution_order)
    <3>1. Broken /\ Accepted
      BY <1>1, <2>1 DEF WalkInv, Accepted
    <3> QED
      BY <1>1, <3>1, FrontMisses DEF Broken, Within
  <2> QED
    BY <1>1, <2>1, SuccessIsWhole DEF OutcomeHonest
<1> QED
  BY <1>1, WalkInvariance, PTL

(* topological_levels of an accepted plan: every node in one level, right  *)
(* after the last of its dependencies, and the root alone in the last one; *)
(* the coordinator walks exactly those nodes, each once.                   *)
THEOREM NodesRunAsEarlyAsTheyCan == Spec => []LevelsAreEarliest
<1>1. ASSUME WalkInv, phase = "next_node"
      PROVE  /\ Len(schedule) = Cardinality(Ids(plan.nodes))
             /\ Range(schedule) = Ids(plan.nodes)
             /\ Last(Levels(Graph(plan))) = {plan.root}
             /\ \A id \in Ids(plan.nodes) :
                  LET needs == Range(NodeOf(id).dependencies) IN
                  /\ \A d \in needs : LevelOf(d) < LevelOf(id)
                  /\ LevelOf(id) > 1 => \E d \in needs : LevelOf(d) + 1 = LevelOf(id)
  <2> DEFINE G == Graph(plan)
             D == Ids(plan.nodes)
             L == Levels(G)
  <2>1. /\ Len(schedule) = Cardinality(D) /\ Range(schedule) = D
        /\ ValidPlan(plan) /\ IsPlan(plan)
    BY <1>1, PlacedFacts, Surroundings DEF Accepted, Placed
  <2>2. IsGraph(G) /\ DOMAIN G = D /\ \A n \in D : G[n] = NodeOf(n).dependencies
    BY <2>1, GraphFacts DEF NodeOf
  <2>3. Len(L) \in Nat \ {0} /\ L[Len(L)] = {plan.root}
    BY <2>1, LevelsEndInRoot
  <2>4. \A n \in D : Range(G[n]) \subseteq D
    <3>1. plan.nodes \in Seq(Range(plan.nodes))
      BY <2>1 DEF IsPlan, HasGraph
    <3>2. \A n \in D : ById(plan.nodes)[n] \in Range(plan.nodes)
      BY <3>1, ByIdFacts
    <3> QED
      BY <2>1, <2>2, <3>2 DEF ValidPlan, NodeOf
  <2> HIDE DEF G, D, L
  <2>5. /\ DOMAIN L = 1..Len(L) /\ \A k \in 1..Len(L) : L[k] \subseteq D
        /\ \A j, k \in 1..Len(L) : \A n \in L[j] : n \in L[k] => j = k
        /\ \A k \in 1..Len(L) : \A n \in L[k] :
             /\ \A d \in Range(G[n]) : \E j \in 1..(k - 1) : d \in L[j]
             /\ k > 1 => \E d \in Range(G[n]) : d \in L[k - 1]
    <3>1. L = Levels(G)
      BY DEF L
    <3>2. LevelsHold(G, L)
      BY <2>2, <3>1, LevelFacts
    <3> QED
      BY <2>2, <2>4, <3>2 DEF LevelsHold
  <2>6. \A n \in D : \E k \in 1..Len(L) : n \in L[k]
    <3>1. CyclicNodes(G) = {}
      BY <2>1 DEF ValidPlan, G
    <3> QED
      BY <2>2, <2>5, <3>1 DEF CyclicNodes, Range, L
  <2>7. ASSUME NEW k \in 1..Len(L), NEW n \in L[k]
        PROVE  LevelOf(n) = k
    <3>1. LevelOf(n) = CHOOSE j \in 1..Len(L) : n \in L[j]
      BY <2>5 DEF LevelOf, L, G
    <3> DEFINE least == CHOOSE j \in 1..Len(L) : n \in L[j]
    <3>2. least \in 1..Len(L) /\ n \in L[least]
      OBVIOUS
    <3> HIDE DEF least
    <3>3. least = k
      BY <2>5, <3>2
    <3> QED
      BY <3>1, <3>3 DEF least
  <2>8. ASSUME NEW id \in D
        PROVE  /\ \A d \in Range(G[id]) : LevelOf(d) < LevelOf(id)
               /\ LevelOf(id) > 1 => \E d \in Range(G[id]) : LevelOf(d) + 1 = LevelOf(id)
    <3>1. PICK k \in 1..Len(L) : id \in L[k]
      BY <2>6
    <3>2. LevelOf(id) = k /\ k \in Nat /\ Len(L) \in Nat
      BY <2>3, <2>7, <3>1
    <3>3. ASSUME NEW d \in Range(G[id])
          PROVE  LevelOf(d) < k
      <4>1. PICK j \in 1..(k - 1) : d \in L[j]
        BY <2>5, <3>1
      <4>2. j \in 1..Len(L) /\ j < k
        BY <3>2
      <4>3. LevelOf(d) = j
        BY <2>7, <4>1, <4>2
      <4> QED
        BY <4>2, <4>3
    <3>4. ASSUME k > 1
          PROVE  \E d \in Range(G[id]) : LevelOf(d) + 1 = k
      <4>1. k - 1 \in 1..Len(L) /\ (k - 1) + 1 = k
        BY <3>2, <3>4
      <4>2. PICK d \in Range(G[id]) : d \in L[k - 1]
        BY <2>5, <3>1, <3>4
      <4>3. LevelOf(d) = k - 1
        BY <2>7, <4>1, <4>2
      <4> QED
        BY <4>1, <4>3
    <3> QED
      BY <3>2, <3>3, <3>4
  <2>9. Last(L) = {plan.root}
    BY <2>3 DEF Last
  <2> QED
    BY <2>1, <2>2, <2>8, <2>9 DEF D, G, L
<1>2. WalkInv => LevelsAreEarliest
  BY <1>1 DEF LevelsAreEarliest
<1> QED
  BY <1>2, WalkInvariance, PTL

-----------------------------------------------------------------------------
(* The coordinator implements DependencyWalk *)

EdgesOfPlan == [edges |-> Graph(plan), root |-> plan.root]

LEMMA BeginStopsOrStutters ==
  ASSUME WalkInv, BeginNode
  PROVE  Walk!Stop \/ UNCHANGED <<EdgesOfPlan, Done, WalkStatus>>
<1>1. /\ phase = "next_node" /\ UNCHANGED <<plan, results>>
      /\ phase' = "inputs" \/ phase' \in {"failed", "raised"}
  BY DEF BeginNode, Fail
<1>2. Front(execution_order') = execution_order /\ results = Range(execution_order)
  BY <1>1, BeginPlaces DEF WalkInv, Between
<1>3. Done = results /\ Done' = results /\ WalkStatus = "walking"
  BY <1>1, <1>2 DEF Done, WalkStatus
<1>4. WalkStatus' = IF phase' = "inputs" THEN "walking" ELSE "stopped"
  BY <1>1 DEF WalkStatus
<1>5. EdgesOfPlan' = EdgesOfPlan
  BY <1>1 DEF EdgesOfPlan
<1> QED
  BY <1>1, <1>3, <1>4, <1>5 DEF Walk!Stop, EdgesOfPlan

LEMMA FailureStops ==
  ASSUME WalkInv, phase \in {"inputs", "composed"}, NEW why, Fail(why),
         execution_order' = execution_order
  PROVE  Walk!Stop
<1>1. UNCHANGED <<plan, results>> /\ phase' \in {"failed", "raised"}
  BY DEF Fail
<1>2. results = Range(Front(execution_order))
  BY DEF WalkInv, Within
<1>3. Done = results /\ Done' = results /\ WalkStatus = "walking" /\ WalkStatus' = "stopped"
  BY <1>1, <1>2 DEF Done, WalkStatus
<1>4. EdgesOfPlan' = EdgesOfPlan
  BY <1>1 DEF EdgesOfPlan
<1> QED
  BY <1>3, <1>4 DEF Walk!Stop, EdgesOfPlan

LEMMA SuccessCompletes ==
  ASSUME WalkInv, ExecutorSucceeds
  PROVE  Walk!CompleteSome \/ Walk!Stop
<1> DEFINE id == Last(execution_order)
           D == Ids(plan.nodes)
<1>1. /\ phase = "composed" /\ UNCHANGED <<plan, schedule, execution_order>>
      /\ results' = results \cup {id} /\ phase' \in {"next_node", "raised"}
      /\ ChildResultsPresent
  BY DEF ExecutorSucceeds
<1>2. /\ Placed /\ results = Range(Front(execution_order)) /\ execution_order # << >>
      /\ id \notin results
      /\ id \in D /\ Current.dependencies = Graph(plan)[id]
  BY <1>1, CurrentFacts, FrontMisses DEF WalkInv, Within, Accepted
<1>3. Done = results /\ WalkStatus = "walking" /\ EdgesOfPlan' = EdgesOfPlan
  BY <1>1 DEF Done, WalkStatus, EdgesOfPlan
<1>4. Range(Graph(plan)[id]) \subseteq results
  BY <1>1, <1>2 DEF ChildResultsPresent
<1>5. DOMAIN Graph(plan) = D
  BY Surroundings, GraphFacts
<1>6. ASSUME id = plan.root
      PROVE  results = D \ {id}
  <2>1. /\ schedule \in Seq(D) /\ Range(schedule) = D /\ Once(schedule)
        /\ Len(schedule) \in Nat \ {0} /\ schedule[Len(schedule)] = plan.root
    BY <1>1, PlacedFacts DEF Accepted
  <2>2. /\ Len(execution_order) \in Nat \ {0} /\ id = execution_order[Len(execution_order)]
        /\ execution_order \in Seq(D)
        /\ Range(execution_order) = results \cup {id}
    BY <1>2, FrontFacts DEF Placed
  <2>3. /\ Len(execution_order) \in 1..Len(schedule) /\ Len(schedule) \in 1..Len(schedule)
        /\ id = schedule[Len(execution_order)]
    BY <1>2, <2>1, <2>2 DEF Placed
  <2>4. Len(execution_order) = Len(schedule)
    BY <1>6, <2>1, <2>3 DEF Once
  <2>5. execution_order = schedule
    BY <1>2, <2>1, <2>2, <2>4, SeqEqual DEF Placed
  <2> QED
    BY <1>2, <2>1, <2>2, <2>5
<1>7. CASE phase' = "next_node"
  <2>1. Done' = results \cup {id} /\ WalkStatus' = "walking"
    BY <1>1, <1>7 DEF Done, WalkStatus
  <2> HIDE DEF id, D
  <2>2. Walk!CompleteNode(id)
    BY <1>2, <1>3, <1>4, <2>1
       DEF Walk!CompleteNode, Walk!Needs, Walk!Range, Range, EdgesOfPlan
  <2>3. id \in Walk!Nodes /\ Walk!Nodes = D
    BY <1>2, <1>5 DEF Walk!Nodes
  <2>4. id = plan.root => Done = Walk!Nodes \ {id}
    BY <1>3, <1>6, <2>3
  <2> QED
    BY <2>2, <2>3, <2>4 DEF Walk!CompleteSome
<1>8. CASE phase' = "raised"
  <2>1. Done' = results /\ WalkStatus' = "stopped"
    BY <1>1, <1>2, <1>8 DEF Done, WalkStatus
  <2> QED
    BY <1>3, <2>1 DEF Walk!Stop, EdgesOfPlan
<1> QED
  BY <1>1, <1>7, <1>8

LEMMA WalkStarts ==
  ASSUME Init, WalkInv
  PROVE  Walk!Init
<1>1. Done = {} /\ WalkStatus = "planned"
  BY DEF Init, Done, WalkStatus
<1>2. IsGraph(Graph(plan))
  BY Surroundings, GraphFacts
<1> QED
  BY <1>1, <1>2 DEF Walk!Init, Walk!Nodes, IsGraph

LEMMA WalkSteps ==
  ASSUME WalkInv, [Next]_vars
  PROVE  Walk!Next \/ UNCHANGED <<EdgesOfPlan, Done, WalkStatus>>
<1>1. CASE Reject
  <2>1. /\ UNCHANGED <<plan, results, execution_order>>
        /\ phase = "planned" /\ phase' = "rejected"
    BY <1>1 DEF Reject, walk
  <2>2. /\ WalkStatus = "planned" /\ WalkStatus' = "refused" /\ Done' = Done
        /\ EdgesOfPlan' = EdgesOfPlan
    BY <2>1 DEF WalkStatus, Done, EdgesOfPlan
  <2> QED
    BY <2>2 DEF Walk!Next, Walk!Refuse, EdgesOfPlan
<1>2. CASE Accept
  <2>1. /\ UNCHANGED <<plan, results, execution_order>>
        /\ phase = "planned" /\ phase' = "next_node" /\ ValidationIssues(plan) = {}
    BY <1>2 DEF Accept, walk
  <2>2. plan.root \in Walk!Nodes
    <3>1. IsPlan(plan)
      BY Surroundings
    <3> QED
      BY <2>1, <3>1, Validated, GraphFacts DEF ValidPlan, Walk!Nodes
  <2>3. /\ WalkStatus = "planned" /\ WalkStatus' = "walking" /\ Done' = Done
        /\ EdgesOfPlan' = EdgesOfPlan
    BY <2>1 DEF WalkStatus, Done, EdgesOfPlan
  <2> QED
    BY <2>2, <2>3 DEF Walk!Next, Walk!Admit, EdgesOfPlan
<1>3. CASE BeginNode
  BY <1>3, BeginStopsOrStutters DEF Walk!Next
<1>4. CASE ReadCached \/ ResolveInput
  <2>1. /\ phase = "inputs" /\ phase' = phase
        /\ UNCHANGED <<plan, results, execution_order>>
    BY <1>4 DEF ReadCached, ResolveInput, walk
  <2> QED
    BY <2>1 DEF WalkStatus, Done, EdgesOfPlan
<1>5. CASE ResolveFails
  BY <1>5, FailureStops DEF ResolveFails, Walk!Next
<1>6. CASE Compose
  <2>1. /\ phase = "inputs" /\ execution_order' = execution_order
        /\ Fail("composition") \/ (phase' = "composed" /\ UNCHANGED <<plan, results>>)
    BY <1>6 DEF Compose
  <2>2. CASE Fail("composition")
    BY <2>1, <2>2, FailureStops DEF Walk!Next
  <2>3. CASE phase' = "composed" /\ UNCHANGED <<plan, results>>
    BY <2>1, <2>3 DEF WalkStatus, Done, EdgesOfPlan
  <2> QED
    BY <2>1, <2>2, <2>3
<1>7. CASE ExecutorSucceeds
  BY <1>7, SuccessCompletes DEF Walk!Next
<1>8. CASE ExecutionFails
  <2>1. \E why : Fail(why) /\ execution_order' = execution_order /\ phase = "composed"
    BY <1>8, FailingFacts
  <2> QED
    BY <2>1, FailureStops DEF Walk!Next
<1>9. CASE Finish
  <2>1. /\ phase = "next_node" /\ UNCHANGED <<plan, results, execution_order>>
        /\ phase' = "succeeded" /\ results = Ids(plan.nodes)
    BY <1>9, FinishSucceeds DEF Finish, walk
  <2>2. /\ WalkStatus = "walking" /\ WalkStatus' = "succeeded"
        /\ Done = results /\ Done' = Done /\ EdgesOfPlan' = EdgesOfPlan
    BY <2>1 DEF WalkStatus, Done, EdgesOfPlan
  <2>3. Walk!Nodes = Ids(plan.nodes)
    BY Surroundings, GraphFacts DEF Walk!Nodes
  <2> QED
    BY <2>1, <2>2, <2>3 DEF Walk!Next, Walk!Succeed, EdgesOfPlan
<1>10. CASE UNCHANGED vars
  BY <1>10 DEF vars, WalkStatus, Done, EdgesOfPlan
<1> QED
  BY <1>1, <1>2, <1>3, <1>4, <1>5, <1>6, <1>7, <1>8, <1>9, <1>10 DEF Next

(* Level by level is one way to walk dependencies: whatever the schedule,  *)
(* the inputs and the caches do, a caller sees nodes complete one at a     *)
(* time, each after everything it depends on, the root last.               *)
THEOREM CoordinatorWalksDependencies == Spec => ImplementsDependencyWalk
<1>1. Init /\ WalkInv => Walk!Init
  BY WalkStarts
<1>2. WalkInv /\ [Next]_vars => [Walk!Next]_<<EdgesOfPlan, Done, WalkStatus>>
  BY WalkSteps
<1> QED
  BY <1>1, <1>2, WalkInvariance, PTL
     DEF Spec, ImplementsDependencyWalk, Walk!Spec, Walk!vars, EdgesOfPlan

-----------------------------------------------------------------------------
(* The inputs *)

LEMMA RecordsOfFacts ==
  ASSUME NEW S, records \in Seq(S), NEW id
  PROVE  /\ RecordsOf(id) \in Seq(S)
         /\ \A k \in 1..Len(RecordsOf(id)) :
              \E i \in DOMAIN records :
                RecordsOf(id)[k] = records[i] /\ records[i].node_id = id
<1> DEFINE at == {i \in DOMAIN records : records[i].node_id = id}
<1>1. DOMAIN records = 1..Len(records)
  BY LenProperties
<1>2. at \in SUBSET (1..Len(records)) /\ at \subseteq DOMAIN records
  BY <1>1
<1>3. RecordsOf(id) = Kept(records, at) /\ \A i \in at : records[i].node_id = id
  BY DEF RecordsOf
<1> HIDE DEF at
<1>4. /\ Kept(records, at) \in Seq(S) /\ Len(Kept(records, at)) = Len(Sorted(at))
      /\ \A k \in 1..Len(Sorted(at)) : \E i \in at : Kept(records, at)[k] = records[i]
  BY <1>2, KeptFacts
<1> QED
  BY <1>2, <1>3, <1>4

LEMMA NoRecordsOf ==
  ASSUME NEW S, records \in Seq(S), NEW id, \A i \in DOMAIN records : records[i].node_id # id
  PROVE  Len(RecordsOf(id)) = 0
<1>1. /\ RecordsOf(id) \in Seq(S)
      /\ \A k \in 1..Len(RecordsOf(id)) :
           \E i \in DOMAIN records : records[i].node_id = id
  BY RecordsOfFacts
<1>2. Len(RecordsOf(id)) \in Nat
  BY <1>1, LenProperties
<1> QED
  BY <1>1, <1>2

(* A new record is one more of its node, and of no other.                  *)
LEMMA RecordsOfAppend ==
  ASSUME NEW S, records \in Seq(S), records' \in Seq(S),
         Len(records') = Len(records) + 1,
         \A i \in 1..Len(records) : records'[i] = records[i], NEW id
  PROVE  RecordsOf(id)' = IF records'[Len(records) + 1].node_id = id
                          THEN Append(RecordsOf(id), records'[Len(records) + 1])
                          ELSE RecordsOf(id)
<1> DEFINE n == Len(records)
           at == {i \in DOMAIN records : records[i].node_id = id}
           wide == {i \in DOMAIN records' : records'[i].node_id = id}
<1>1. n \in Nat /\ DOMAIN records = 1..n /\ DOMAIN records' = 1..(n + 1)
  BY LenProperties
<1>2. RecordsOf(id) = Kept(records, at) /\ RecordsOf(id)' = Kept(records', wide)
  BY DEF RecordsOf
<1>3. wide = IF records'[n + 1].node_id = id THEN at \cup {n + 1} ELSE at
  <2> HIDE DEF n
  <2>1. \A i \in 1..(n + 1) : i \in 1..n \/ i = n + 1
    BY <1>1
  <2>2. \A i \in 1..n : i \in 1..(n + 1) /\ i # n + 1
    BY <1>1
  <2>3. n + 1 \in 1..(n + 1)
    BY <1>1
  <2>4. \A i \in 1..n : records'[i] = records[i]
    BY DEF n
  <2> QED
    BY <1>1, <2>1, <2>2, <2>3, <2>4
<1>4. at \subseteq 1..Len(records)
  BY <1>1
<1> HIDE DEF at, wide
<1>5. Kept(records', at) = Kept(records, at)
  BY <1>4, KeptSame
<1>6. Kept(records', at \cup {Len(records) + 1})
        = Append(Kept(records, at), records'[Len(records) + 1])
  BY <1>4, KeptAppend, Zenon
<1> QED
  BY <1>2, <1>3, <1>5, <1>6

LEMMA AuditGrows ==
  ASSUME NEW id, NEW n \in Nat, NEW S, NEW e \in S, RecordsOf(id) \in Seq(S),
         AuditedUpTo(id, n), RecordsOf(id)' = Append(RecordsOf(id), e), plan' = plan,
         e.reference_id = NodeOf(id).inputs[n + 1], e.status = "succeeded"
  PROVE  AuditedUpTo(id, n + 1)'
<1> DEFINE of == RecordsOf(id)
<1>1. /\ Len(of) = n
      /\ \A i \in 1..n : of[i].reference_id = NodeOf(id).inputs[i] /\ of[i].status = "succeeded"
  BY DEF AuditedUpTo
<1>2. Len(of') = n + 1 /\ of'[n + 1] = e /\ \A i \in 1..n : of'[i] = of[i]
  BY <1>1, AppendProperties
<1>3. NodeOf(id)' = NodeOf(id)
  BY DEF NodeOf
<1> HIDE DEF of
<1>4. \A i \in 1..(n + 1) : i \in 1..n \/ i = n + 1
  OBVIOUS
<1>5. \A i \in 1..(n + 1) : /\ of'[i].reference_id = NodeOf(id)'.inputs[i]
                            /\ of'[i].status = "succeeded"
  BY <1>1, <1>2, <1>3, <1>4
<1> QED
  BY <1>2, <1>5 DEF AuditedUpTo, of

LEMMA Shift ==
  ASSUME NEW k \in Nat, NEW N \in Nat, NEW m \in Nat, k = N - m
  PROVE  \A j \in 1..(m - 1) : j + 1 \in 1..m /\ k + (j + 1) = (N - (m - 1)) + j
  OBVIOUS

LEMMA LeftShrinks ==
  ASSUME LeftOver, Len(Current.inputs) \in Nat, inputs_left # << >>,
         inputs_left' = Tail(inputs_left), UNCHANGED <<plan, execution_order>>,
         NEW k, k = Len(Current.inputs) - Len(inputs_left)
  PROVE  /\ LeftOver'
         /\ k \in Nat /\ k + 1 = Len(Current.inputs) - Len(inputs_left')
         /\ Head(inputs_left) = Current.inputs[k + 1]
         /\ Head(inputs_left) \in Ids(plan.references)
<1> DEFINE m == Len(inputs_left)
           N == Len(Current.inputs)
           t == Tail(inputs_left)
<1>1. /\ inputs_left \in Seq(Ids(plan.references)) /\ m <= N
      /\ \A j \in 1..m : inputs_left[j] = Current.inputs[k + j]
  BY DEF LeftOver
<1>2. m \in Nat \ {0} /\ Head(inputs_left) = inputs_left[1]
  BY <1>1, EmptySeq
<1>3. /\ t \in Seq(Ids(plan.references)) /\ Len(t) = m - 1
      /\ \A j \in 1..(m - 1) : t[j] = inputs_left[j + 1]
  BY <1>1, HeadTailProperties
<1>4. Current' = Current /\ Ids(plan.references)' = Ids(plan.references)
  BY DEF Current, NodeOf
<1> HIDE DEF m, N, t
<1>5. k \in Nat /\ k = N - m /\ 1 \in 1..m /\ N \in Nat /\ m \in Nat
  BY <1>1, <1>2 DEF N, m
<1>6. Head(inputs_left) = Current.inputs[k + 1] /\ Head(inputs_left) \in Ids(plan.references)
  BY <1>1, <1>2, <1>5, ElementOfSeq DEF m
<1>7. \A j \in 1..(m - 1) : t[j] = Current.inputs[(N - (m - 1)) + j]
  <2> SUFFICES ASSUME NEW j \in 1..(m - 1)
               PROVE  t[j] = Current.inputs[(N - (m - 1)) + j]
    OBVIOUS
  <2>1. j + 1 \in 1..m /\ k + (j + 1) = (N - (m - 1)) + j
    BY <1>5, Shift
  <2>2. t[j] = inputs_left[j + 1]
    BY <1>3
  <2>3. inputs_left[j + 1] = Current.inputs[k + (j + 1)]
    BY <1>1, <2>1
  <2> QED
    BY <2>1, <2>2, <2>3
<1>8. N' = N /\ inputs_left' = t /\ m - 1 <= N /\ k + 1 = N - (m - 1)
  <2>1. N' = N /\ inputs_left' = t
    BY <1>4 DEF N, t
  <2>2. m - 1 <= N /\ k + 1 = N - (m - 1)
    BY <1>1, <1>5
  <2> QED
    BY <2>1, <2>2
<1>9. LeftOver'
  BY <1>3, <1>4, <1>7, <1>8 DEF LeftOver, N
<1> QED
  BY <1>3, <1>5, <1>6, <1>8, <1>9 DEF N

(* A step that reads nothing. *)
LEMMA InputsUndisturbed ==
  ASSUME InputInv,
         UNCHANGED <<plan, execution_order, resolved_inputs, records, inputs_left>>,
         materialized' \subseteq DOMAIN resolved_inputs,
         \A id \in Range(attempted') : AuditedUpTo(id, Len(NodeOf(id).inputs)),
         phase' # "inputs" \/ phase = "inputs",
         phase' # "composed" \/ AuditedUpTo(Last(execution_order), Len(Current.inputs)),
         error' = "composition" =>
           \E r \in DOMAIN resolved_inputs : resolved_inputs[r] # "matching"
  PROVE  InputInv'
<1>1. \A id, n : AuditedUpTo(id, n)' = AuditedUpTo(id, n)
  BY DEF AuditedUpTo, RecordsOf, NodeOf
<1>2. /\ Records' = Records /\ Ids(plan.references)' = Ids(plan.references)
      /\ LeftOver' = LeftOver /\ Current' = Current
      /\ \A id : NodeOf(id)' = NodeOf(id)
  BY DEF Records, LeftOver, Current, NodeOf
<1>3. /\ records' \in Seq(Records')
      /\ \A i \in DOMAIN records' : records'[i].node_id \in Range(execution_order')
      /\ DOMAIN resolved_inputs' \subseteq Ids(plan.references)'
      /\ \A r \in DOMAIN resolved_inputs' : resolved_inputs'[r] \in SnapshotAnswers
      /\ materialized' \subseteq DOMAIN resolved_inputs'
      /\ execution_order' # << >> => LeftOver'
  BY <1>2 DEF InputInv
<1>4. /\ phase' = "inputs" =>
           AuditedUpTo(Last(execution_order), Len(Current.inputs) - Len(inputs_left))'
      /\ phase' = "composed" => AuditedUpTo(Last(execution_order), Len(Current.inputs))'
  <2>1. PICK id, n, m : /\ id = Last(execution_order) /\ n = Len(Current.inputs)
                        /\ m = Len(inputs_left)
    OBVIOUS
  <2>2. /\ id = Last(execution_order') /\ n = Len(Current'.inputs)
        /\ m = Len(inputs_left')
    BY <1>2, <2>1
  <2>3. /\ phase' = "inputs" => AuditedUpTo(id, n - m)
        /\ phase' = "composed" => AuditedUpTo(id, n)
    BY <2>1 DEF InputInv
  <2>4. /\ phase' = "inputs" => AuditedUpTo(id, n - m)'
        /\ phase' = "composed" => AuditedUpTo(id, n)'
    BY <1>1, <2>3
  <2> QED
    BY <2>2, <2>4
<1>5. \A id \in Range(attempted') : AuditedUpTo(id, Len(NodeOf(id).inputs))'
  BY <1>1, <1>2
<1>6. error' = "composition" =>
        \E r \in DOMAIN resolved_inputs' : resolved_inputs'[r] # "matching"
  OBVIOUS
<1> QED
  BY <1>3, <1>4, <1>5, <1>6 DEF InputInv

(* The next input is read: its record is the next one of the current node. *)
LEMMA ReadingAudits ==
  ASSUME WalkInv, InputInv, phase = "inputs", inputs_left # << >>,
         inputs_left' = Tail(inputs_left),
         UNCHANGED <<plan, phase, walk, materialized, error>>,
         NEW e \in Records, records' = Append(records, e),
         e.node_id = Last(execution_order), e.reference_id = Head(inputs_left),
         e.status = "succeeded",
         DOMAIN resolved_inputs \subseteq DOMAIN resolved_inputs',
         DOMAIN resolved_inputs' \subseteq Ids(plan.references),
         \A r \in DOMAIN resolved_inputs' : resolved_inputs'[r] \in SnapshotAnswers
  PROVE  InputInv'
<1>1. PICK id, k : id = Last(execution_order) /\ k = Len(Current.inputs) - Len(inputs_left)
  OBVIOUS
<1>2. /\ Placed /\ execution_order # << >> /\ error = "none" /\ IsPlan(plan)
      /\ attempted = Front(execution_order) /\ Current \in Range(plan.nodes)
  BY CurrentFacts, Surroundings DEF WalkInv, Within, Accepted
<1>3. execution_order' = execution_order /\ attempted' = attempted /\ error' = error
  BY DEF walk
<1>4. Len(Current.inputs) \in Nat
  <2>1. Current.inputs \in Seq(Range(Current.inputs))
    BY <1>2 DEF IsPlan, HasGraph
  <2> QED
    BY <2>1, LenProperties
<1>5. /\ LeftOver'
      /\ k \in Nat /\ k + 1 = Len(Current.inputs) - Len(inputs_left')
      /\ Head(inputs_left) = Current.inputs[k + 1]
  BY <1>1, <1>2, <1>3, <1>4, LeftShrinks DEF InputInv
<1>6. /\ records \in Seq(Records) /\ records' \in Seq(Records)
      /\ Len(records') = Len(records) + 1 /\ Len(records) \in Nat
      /\ DOMAIN records' = 1..(Len(records) + 1) /\ DOMAIN records = 1..Len(records)
      /\ \A i \in 1..Len(records) : records'[i] = records[i]
      /\ records'[Len(records) + 1] = e
  <2>1. records \in Seq(Records)
    BY DEF InputInv
  <2> QED
    BY <2>1, AppendProperties, LenProperties
<1>7. \A x : RecordsOf(x)' = IF x = id THEN Append(RecordsOf(x), e) ELSE RecordsOf(x)
  <2>1. ASSUME NEW x
        PROVE  RecordsOf(x)' = IF records'[Len(records) + 1].node_id = x
                               THEN Append(RecordsOf(x), records'[Len(records) + 1])
                               ELSE RecordsOf(x)
    BY <1>6, RecordsOfAppend
  <2> QED
    BY <1>1, <1>6, <2>1
<1>8. AuditedUpTo(id, k + 1)'
  <2>1. AuditedUpTo(id, k)
    BY <1>1 DEF InputInv
  <2>2. RecordsOf(id) \in Seq(Records)
    BY <1>6, RecordsOfFacts
  <2>3. e.reference_id = NodeOf(id).inputs[k + 1]
    BY <1>1, <1>5 DEF Current
  <2> QED
    BY <1>5, <1>7, <2>1, <2>2, <2>3, AuditGrows
<1>9. /\ Current' = Current /\ \A x : NodeOf(x)' = NodeOf(x)
      /\ Records' = Records /\ Ids(plan.references)' = Ids(plan.references)
  BY <1>3 DEF Current, NodeOf, Records
<1>10. AuditedUpTo(Last(execution_order), Len(Current.inputs) - Len(inputs_left))'
  BY <1>1, <1>3, <1>5, <1>8, <1>9
<1>11. ASSUME NEW x \in Range(attempted)
       PROVE  AuditedUpTo(x, Len(NodeOf(x).inputs))'
  <2>1. x # id
    BY <1>1, <1>2, <1>11, FrontMisses DEF Accepted
  <2>2. RecordsOf(x)' = RecordsOf(x)
    BY <1>7, <2>1
  <2>3. AuditedUpTo(x, Len(NodeOf(x).inputs))
    BY DEF InputInv
  <2> QED
    BY <1>9, <2>2, <2>3 DEF AuditedUpTo
<1>12. \A i \in DOMAIN records' : records'[i].node_id \in Range(execution_order')
  <2>1. \A i \in 1..(Len(records) + 1) : i \in 1..Len(records) \/ i = Len(records) + 1
    BY <1>6
  <2>2. \A i \in 1..Len(records) : records[i].node_id \in Range(execution_order)
    BY <1>6 DEF InputInv
  <2>3. e.node_id \in Range(execution_order)
    BY <1>2, FrontFacts DEF Placed
  <2> QED
    BY <1>3, <1>6, <2>1, <2>2, <2>3
<1>13. materialized' \subseteq DOMAIN resolved_inputs'
  BY DEF InputInv
<1> QED
  BY <1>2, <1>3, <1>5, <1>6, <1>9, <1>10, <1>11, <1>12, <1>13 DEF InputInv

(* All inputs read: every one of them is audited and resolved.             *)
LEMMA AllRead ==
  ASSUME WalkInv, InputInv, CacheInv, phase = "inputs", inputs_left = << >>
  PROVE  /\ AuditedUpTo(Last(execution_order), Len(Current.inputs))
         /\ Range(Current.inputs) \subseteq DOMAIN resolved_inputs
<1>1. PICK id, n : id = Last(execution_order) /\ n = Len(Current.inputs)
  OBVIOUS
<1>2. Current.inputs \in Seq(Range(Current.inputs)) /\ Current = NodeOf(id)
  BY <1>1, CurrentFacts, Surroundings DEF IsPlan, HasGraph, Current
<1>3. n \in Nat /\ DOMAIN Current.inputs = 1..n
  BY <1>1, <1>2, LenProperties
<1>4. Len(inputs_left) = 0 /\ n - 0 = n
  BY <1>3
<1>5. AuditedUpTo(id, n)
  BY <1>1, <1>4 DEF InputInv
<1>6. ASSUME NEW j \in 1..n
      PROVE  Current.inputs[j] \in DOMAIN resolved_inputs
  <2>1. /\ Len(RecordsOf(id)) = n
        /\ RecordsOf(id)[j].reference_id = Current.inputs[j]
        /\ RecordsOf(id)[j].status = "succeeded"
    BY <1>2, <1>5 DEF AuditedUpTo
  <2>2. PICK i \in DOMAIN records : RecordsOf(id)[j] = records[i]
    <3>1. records \in Seq(Records)
      BY DEF InputInv
    <3> QED
      BY <2>1, <3>1, RecordsOfFacts
  <2>3. records[i].status = "succeeded"
    BY <2>1, <2>2
  <2>4. records[i].reference_id \in DOMAIN resolved_inputs
    BY <2>3 DEF CacheInv, RecordsHold
  <2> QED
    BY <2>1, <2>2, <2>4
<1> QED
  BY <1>1, <1>3, <1>5, <1>6 DEF Range

(* With the snapshots the plan names, one input is the request, and the    *)
(* bundle is what the Cell asks for.                                       *)
LEMMA MatchingComposes ==
  ASSUME WalkInv, InputInv, CacheInv, Compose,
         \A r \in DOMAIN resolved_inputs : resolved_inputs[r] = "matching"
  PROVE  phase' = "composed"
<1> DEFINE refs == Current.inputs
           kind(r) == Reference(r).kind
<1>1. phase = "inputs" /\ inputs_left = << >>
  BY DEF Compose
<1>2. /\ Range(refs) \subseteq DOMAIN resolved_inputs
      /\ InputsFit(plan, Current) /\ Current \in Range(plan.nodes) /\ IsPlan(plan)
      /\ \A r \in Range(plan.references) : r.scope = PlanScope
  BY <1>1, AllRead, CurrentFacts, Surroundings DEF WalkInv, Accepted, Placed, ValidPlan
<1>3. /\ refs \in Seq(Range(refs)) /\ Current.kinds \in Seq(Range(Current.kinds))
      /\ refs # << >> /\ ~Repeats(refs) /\ ~Repeats(Current.kinds)
      /\ "analysis_request" \in Range(Current.kinds)
      /\ Current.kinds = [i \in DOMAIN refs |-> kind(refs[i])]
      /\ Range(refs) \subseteq Ids(plan.references)
  BY <1>2 DEF IsPlan, HasGraph, InputsFit, Reference
<1>4. \A r \in Range(refs) : resolved_inputs[r] = "matching" /\ SnapshotKind(r) = kind(r)
  BY <1>2 DEF SnapshotKind
<1>5. \A r \in Range(refs) : Reference(r).scope = PlanScope
  <2>1. plan.references \in Seq(Range(plan.references))
    BY <1>2 DEF IsPlan, HasGraph
  <2>2. \A r \in Ids(plan.references) : ById(plan.references)[r] \in Range(plan.references)
    BY <2>1, ByIdFacts
  <2> QED
    BY <1>2, <1>3, <2>2 DEF Reference
<1>6. \A i \in DOMAIN refs : refs[i] \in Range(refs)
  BY DEF Range
<1>7. Cardinality(RequestReferences) = 1
  <2>1. PICK i \in DOMAIN refs : kind(refs[i]) = "analysis_request"
    BY <1>3 DEF Range
  <2>2. ASSUME NEW r \in RequestReferences
        PROVE  r = refs[i]
    <3>1. PICK j \in DOMAIN refs : refs[j] = r
      BY DEF RequestReferences, Range
    <3>2. kind(refs[j]) = "analysis_request"
      BY <1>4, <1>6, <3>1 DEF RequestReferences
    <3>3. /\ i \in DOMAIN Current.kinds /\ j \in DOMAIN Current.kinds
          /\ Current.kinds[i] = Current.kinds[j]
      BY <1>3, <2>1, <3>2
    <3>4. i = j
      BY <1>3, <3>3, NoRepeats
    <3> QED
      BY <3>1, <3>4
  <2>3. refs[i] \in RequestReferences
    BY <1>4, <1>6, <2>1 DEF RequestReferences
  <2>4. RequestReferences = {refs[i]}
    BY <2>2, <2>3
  <2> QED
    BY <2>4, FS_Singleton
<1>8. Materializable
  BY <1>4 DEF Materializable, RequestReferences
<1>9. BundleAccepted
  <2>1. [i \in DOMAIN refs |-> SnapshotKind(refs[i])] = Current.kinds
    BY <1>3, <1>4, <1>6
  <2> QED
    BY <1>3, <1>4, <1>5, <1>6, <2>1 DEF BundleAccepted
<1> QED
  BY <1>7, <1>8, <1>9 DEF Compose

LEMMA ComposingKeepsInputs ==
  ASSUME WalkInv, InputInv, CacheInv, Compose
  PROVE  InputInv'
<1>1. /\ phase = "inputs" /\ inputs_left = << >>
      /\ UNCHANGED <<plan, execution_order, attempted, resolved_inputs, records, inputs_left>>
      /\ materialized' = materialized \/ materialized' = materialized \cup RequestReferences
      /\ \/ phase' \in {"failed", "raised"} /\ error' = "composition"
         \/ phase' = "composed" /\ error' = error
  BY DEF Compose, Fail
<1>2. /\ AuditedUpTo(Last(execution_order), Len(Current.inputs))
      /\ RequestReferences \subseteq DOMAIN resolved_inputs
  BY <1>1, AllRead DEF RequestReferences
<1>3. materialized' \subseteq DOMAIN resolved_inputs
  BY <1>1, <1>2 DEF InputInv
<1>4. error' = "composition" =>
        \E r \in DOMAIN resolved_inputs : resolved_inputs[r] # "matching"
  <2>1. error = "none"
    BY <1>1 DEF WalkInv
  <2> QED
    BY <1>1, <2>1, MatchingComposes
<1>5. \A id \in Range(attempted') : AuditedUpTo(id, Len(NodeOf(id).inputs))
  BY <1>1 DEF InputInv
<1>6. phase' # "inputs"
  BY <1>1
<1> QED
  BY <1>1, <1>2, <1>3, <1>4, <1>5, <1>6, InputsUndisturbed

(* A node that is begun has no records yet: no node is begun twice.        *)
LEMMA BeginningKeepsInputs ==
  ASSUME WalkInv, InputInv, BeginNode
  PROVE  InputInv'
<1> DEFINE n == Len(execution_order)
           new == schedule[n + 1]
<1>0. PICK id : id = new
  OBVIOUS
<1>1. /\ phase = "next_node" /\ n < Len(schedule)
      /\ execution_order' = Append(execution_order, id)
      /\ UNCHANGED <<plan, resolved_inputs, materialized, records, attempted>>
      /\ \/ inputs_left' = << >> /\ phase' \in {"failed", "raised"} /\ error' = "registry"
         \/ inputs_left' = NodeOf(id).inputs /\ phase' = "inputs" /\ error' = error
  BY <1>0 DEF BeginNode, Fail
<1>2. /\ Placed /\ Between /\ IsPlan(plan) /\ Once(schedule)
      /\ schedule \in Seq(Ids(plan.nodes)) /\ Len(schedule) \in Nat
  BY <1>1, PlacedFacts, Surroundings DEF WalkInv, Accepted
<1>3. execution_order \in Seq(Ids(plan.nodes)) /\ n \in Nat
  BY <1>2, LenProperties DEF Placed
<1>4. id \in Ids(plan.nodes)
  BY <1>0, <1>1, <1>2, <1>3, ElementOfSeq
<1>5. id \notin Range(execution_order)
  <2> SUFFICES ASSUME id \in Range(execution_order) PROVE FALSE
    OBVIOUS
  <2>1. PICK i \in 1..n : execution_order[i] = id
    BY <1>3, RangeFacts
  <2>2. /\ i \in 1..Len(schedule) /\ n + 1 \in 1..Len(schedule) /\ i # n + 1
        /\ schedule[i] = schedule[n + 1]
    BY <1>0, <1>1, <1>2, <1>3, <2>1 DEF Placed
  <2> QED
    BY <1>2, <2>2 DEF Once
<1>6. /\ execution_order' # << >> /\ Last(execution_order') = id
      /\ Range(execution_order') = Range(execution_order) \cup {id}
  BY <1>1, <1>3, <1>4, FrontOfAppend
<1> HIDE DEF n, new
<1>7. /\ Current' = NodeOf(id) /\ \A x : NodeOf(x)' = NodeOf(x)
      /\ Records' = Records /\ Ids(plan.references)' = Ids(plan.references)
      /\ \A x, k : AuditedUpTo(x, k)' = AuditedUpTo(x, k)
  BY <1>1, <1>6 DEF Current, NodeOf, Records, AuditedUpTo, RecordsOf
<1>8. /\ NodeOf(id).inputs \in Seq(Ids(plan.references))
      /\ Len(NodeOf(id).inputs) \in Nat
  <2>1. plan.nodes \in Seq(Range(plan.nodes))
    BY <1>2 DEF IsPlan, HasGraph
  <2>2. NodeOf(id) \in Range(plan.nodes)
    BY <1>4, <2>1, ByIdFacts DEF NodeOf
  <2>3. /\ NodeOf(id).inputs \in Seq(Range(NodeOf(id).inputs))
        /\ Range(NodeOf(id).inputs) \subseteq Ids(plan.references)
    BY <1>2, <2>2 DEF IsPlan, HasGraph, Placed, ValidPlan, InputsFit
  <2>4. NodeOf(id).inputs \in Seq(Ids(plan.references))
    BY <2>3, SeqMonotonic
  <2> QED
    BY <2>4, LenProperties
<1>9. LeftOver' /\ inputs_left' \in Seq(Ids(plan.references))
  <2> DEFINE N == Len(NodeOf(id).inputs)
  <2>1. << >> \in Seq(Ids(plan.references)) /\ Len(<< >>) = 0
    BY EmptySeq
  <2>2. /\ inputs_left' \in Seq(Ids(plan.references)) /\ Len(inputs_left') <= N
        /\ \A j \in 1..Len(inputs_left') :
             inputs_left'[j] = NodeOf(id).inputs[(N - Len(inputs_left')) + j]
    <3>1. CASE inputs_left' = << >>
      BY <1>8, <2>1, <3>1
    <3>2. CASE inputs_left' = NodeOf(id).inputs
      <4>1. \A j \in 1..N : (N - N) + j = j
        BY <1>8
      <4> QED
        BY <1>8, <3>2, <4>1
    <3> QED
      BY <1>1, <3>1, <3>2
  <2> QED
    BY <1>7, <2>2 DEF LeftOver
<1>10. AuditedUpTo(id, 0)
  <2>1. records \in Seq(Records) /\ \A i \in DOMAIN records : records[i].node_id # id
    BY <1>5 DEF InputInv
  <2>2. Len(RecordsOf(id)) = 0
    BY <2>1, NoRecordsOf
  <2> QED
    BY <2>2 DEF AuditedUpTo
<1>11. phase' = "inputs" =>
         AuditedUpTo(Last(execution_order), Len(Current.inputs) - Len(inputs_left))'
  <2>1. PICK d : d = Len(NodeOf(id).inputs) - Len(NodeOf(id).inputs)
    OBVIOUS
  <2>2. d = 0
    BY <1>8, <2>1
  <2>3. AuditedUpTo(id, d)'
    BY <1>7, <1>10, <2>2
  <2>4. phase' = "inputs" => d = Len(Current'.inputs) - Len(inputs_left')
    BY <1>1, <1>7, <2>1
  <2> QED
    BY <1>6, <2>3, <2>4
<1>12. /\ records' \in Seq(Records')
       /\ \A i \in DOMAIN records' : records'[i].node_id \in Range(execution_order')
       /\ DOMAIN resolved_inputs' \subseteq Ids(plan.references)'
       /\ \A r \in DOMAIN resolved_inputs' : resolved_inputs'[r] \in SnapshotAnswers
       /\ materialized' \subseteq DOMAIN resolved_inputs'
  BY <1>1, <1>6, <1>7 DEF InputInv
<1>13. \A x \in Range(attempted') : AuditedUpTo(x, Len(NodeOf(x).inputs))'
  BY <1>1, <1>7 DEF InputInv
<1>14. error' # "composition" /\ phase' # "composed"
  BY <1>1, <1>2 DEF Between
<1> QED
  BY <1>9, <1>11, <1>12, <1>13, <1>14 DEF InputInv

(* A failed resolution is recorded for the node it ends.                   *)
LEMMA ResolvingFails ==
  ASSUME WalkInv, InputInv, ResolveFails
  PROVE  InputInv'
<1> DEFINE e == Record(Head(inputs_left), "failed", FALSE, "none")
<1>1. PICK id : id = Last(execution_order)
  OBVIOUS
<1>2. /\ phase = "inputs" /\ inputs_left # << >> /\ records' = Append(records, e)
      /\ UNCHANGED <<plan, execution_order, attempted, resolved_inputs, materialized, inputs_left>>
      /\ phase' \in {"failed", "raised"} /\ error' = "resolution"
  BY DEF ResolveFails, Fail
<1>3. /\ Placed /\ execution_order # << >> /\ attempted = Front(execution_order)
      /\ LeftOver /\ records \in Seq(Records)
  BY <1>2 DEF WalkInv, Within, Accepted, InputInv
<1>4. e.node_id = id
  BY <1>1 DEF Record
<1>5. e \in Records
  <2>1. Head(inputs_left) \in Ids(plan.references)
    BY <1>2, <1>3, HeadTailProperties DEF LeftOver
  <2>2. Last(execution_order) \in Int
    BY <1>2, CurrentFacts, Surroundings, GraphFacts DEF IsGraph
  <2> QED
    BY <2>1, <2>2 DEF Record, Records
<1> HIDE DEF e
<1>6. /\ records' \in Seq(Records) /\ Len(records') = Len(records) + 1
      /\ Len(records) \in Nat
      /\ DOMAIN records' = 1..(Len(records) + 1) /\ DOMAIN records = 1..Len(records)
      /\ \A i \in 1..Len(records) : records'[i] = records[i]
      /\ records'[Len(records) + 1] = e
  BY <1>2, <1>3, <1>5, AppendProperties, LenProperties
<1>7. ASSUME NEW x \in Range(attempted)
      PROVE  AuditedUpTo(x, Len(NodeOf(x).inputs))'
  <2>1. x # id
    BY <1>1, <1>2, <1>3, <1>7, FrontMisses DEF Accepted
  <2>2. RecordsOf(x)' = IF records'[Len(records) + 1].node_id = x
                        THEN Append(RecordsOf(x), records'[Len(records) + 1])
                        ELSE RecordsOf(x)
    BY <1>3, <1>6, RecordsOfAppend
  <2>3. RecordsOf(x)' = RecordsOf(x) /\ NodeOf(x)' = NodeOf(x)
    BY <1>2, <1>4, <1>6, <2>1, <2>2 DEF NodeOf
  <2>4. AuditedUpTo(x, Len(NodeOf(x).inputs))
    BY DEF InputInv
  <2> QED
    BY <2>3, <2>4 DEF AuditedUpTo
<1>8. \A i \in DOMAIN records' : records'[i].node_id \in Range(execution_order')
  <2>1. \A i \in 1..(Len(records) + 1) : i \in 1..Len(records) \/ i = Len(records) + 1
    BY <1>6
  <2>2. \A i \in 1..Len(records) : records[i].node_id \in Range(execution_order)
    BY <1>6 DEF InputInv
  <2>3. e.node_id \in Range(execution_order)
    BY <1>1, <1>3, <1>4, FrontFacts DEF Placed
  <2> QED
    BY <1>2, <1>6, <2>1, <2>2, <2>3
<1>9. /\ Records' = Records /\ Ids(plan.references)' = Ids(plan.references)
      /\ LeftOver'
  BY <1>2, <1>3 DEF Records, LeftOver, Current, NodeOf
<1>10. /\ DOMAIN resolved_inputs' \subseteq Ids(plan.references)'
       /\ \A r \in DOMAIN resolved_inputs' : resolved_inputs'[r] \in SnapshotAnswers
       /\ materialized' \subseteq DOMAIN resolved_inputs'
  BY <1>2 DEF InputInv
<1> QED
  BY <1>2, <1>6, <1>7, <1>8, <1>9, <1>10 DEF InputInv

(* A node whose executor call returned has all its inputs in the records.  *)
LEMMA RunningKeepsInputs ==
  ASSUME WalkInv, InputInv, ExecutorSucceeds \/ ExecutionFails
  PROVE  InputInv'
<1>1. /\ phase = "composed" /\ phase' \notin {"inputs", "composed"}
      /\ UNCHANGED <<plan, execution_order, resolved_inputs, materialized, records, inputs_left>>
      /\ attempted' = attempted \/ attempted' = execution_order
      /\ error' # "composition"
  <2>1. CASE ExecutorSucceeds
    <3>1. phase = "composed"
      BY <2>1 DEF ExecutorSucceeds
    <3>2. error = "none"
      BY <3>1 DEF WalkInv
    <3> QED
      BY <2>1, <3>2, SucceedingCompletes DEF ExecutorSucceeds, inputs
  <2>2. CASE ExecutionFails
    <3>1. PICK why \in {"execution", "audit", "executor"} :
            /\ Fail(why)
            /\ attempted' = IF why = "executor" THEN attempted ELSE execution_order
            /\ UNCHANGED <<execution_order, inputs>> /\ phase = "composed"
      BY <2>2, FailingFacts
    <3> QED
      BY <3>1 DEF Fail, inputs
  <2> QED
    BY <2>1, <2>2
<1>2. Placed /\ execution_order # << >> /\ attempted = Front(execution_order)
  BY <1>1 DEF WalkInv, Within, Accepted
<1>3. Range(execution_order) = Range(attempted) \cup {Last(execution_order)}
  BY <1>2, FrontFacts DEF Placed
<1>4. AuditedUpTo(Last(execution_order), Len(NodeOf(Last(execution_order)).inputs))
  BY <1>1 DEF InputInv, Current
<1>5. \A id \in Range(attempted') : AuditedUpTo(id, Len(NodeOf(id).inputs))
  BY <1>1, <1>3, <1>4 DEF InputInv
<1>6. materialized' \subseteq DOMAIN resolved_inputs
  BY <1>1 DEF InputInv
<1> QED
  BY <1>1, <1>5, <1>6, InputsUndisturbed

LEMMA InputInvariance == Spec => []InputInv
<1>1. Init => InputInv
  <2> SUFFICES ASSUME Init PROVE InputInv
    OBVIOUS
  <2>1. /\ records = << >> /\ records \in Seq(Records) /\ DOMAIN records = {}
        /\ resolved_inputs = << >> /\ DOMAIN resolved_inputs = {} /\ materialized = {}
        /\ execution_order = << >> /\ phase = "planned" /\ error = "none"
        /\ attempted = << >> /\ Range(attempted) = {}
    BY DEF Init, Range
  <2> QED
    BY <2>1 DEF InputInv
<1>2. WalkInv /\ WalkInv' /\ CacheInv /\ InputInv /\ [Next]_vars => InputInv'
  <2> SUFFICES ASSUME WalkInv, WalkInv', CacheInv, InputInv, [Next]_vars PROVE InputInv'
    OBVIOUS
  <2>0. /\ materialized \subseteq DOMAIN resolved_inputs
        /\ \A id \in Range(attempted) : AuditedUpTo(id, Len(NodeOf(id).inputs))
        /\ error = "composition" =>
             \E r \in DOMAIN resolved_inputs : resolved_inputs[r] # "matching"
    BY DEF InputInv
  <2>1. CASE Reject \/ Accept \/ Finish
    <3>1. /\ UNCHANGED <<plan, execution_order, attempted, resolved_inputs, materialized,
                         records, inputs_left>>
          /\ error' \in {error, "none", "missing_root"} /\ phase' \notin {"inputs", "composed"}
      BY <2>1 DEF Reject, Accept, Finish, walk, inputs
    <3>2. /\ UNCHANGED <<plan, execution_order, resolved_inputs, records, inputs_left>>
          /\ materialized' \subseteq DOMAIN resolved_inputs
          /\ \A id \in Range(attempted') : AuditedUpTo(id, Len(NodeOf(id).inputs))
          /\ phase' # "inputs" /\ phase' # "composed"
      BY <2>0, <3>1
    <3>3. error' = "composition" =>
            \E r \in DOMAIN resolved_inputs : resolved_inputs[r] # "matching"
      BY <2>0, <3>1
    <3> QED
      BY <3>2, <3>3, InputsUndisturbed
  <2>2. CASE BeginNode
    BY <2>2, BeginningKeepsInputs
  <2>3. CASE ReadCached
    <3> DEFINE r == Head(inputs_left)
               e == Record(r, "succeeded", TRUE, resolved_inputs[r])
    <3>1. /\ phase = "inputs" /\ inputs_left # << >> /\ inputs_left' = Tail(inputs_left)
          /\ UNCHANGED <<plan, phase, walk, materialized, error, resolved_inputs>>
          /\ records' = Append(records, e) /\ r \in DOMAIN resolved_inputs
      BY <2>3 DEF ReadCached, Cached
    <3>2. /\ e.node_id = Last(execution_order) /\ e.reference_id = r
          /\ e.status = "succeeded"
      BY DEF Record
    <3>3. Last(execution_order) \in Int
      BY <3>1, CurrentFacts, Surroundings, GraphFacts DEF IsGraph
    <3>4. e \in Records
      BY <3>1, <3>3 DEF Record, Records, InputInv
    <3>5. /\ DOMAIN resolved_inputs' \subseteq Ids(plan.references)
          /\ \A x \in DOMAIN resolved_inputs' : resolved_inputs'[x] \in SnapshotAnswers
      BY <3>1 DEF InputInv
    <3> HIDE DEF e, r
    <3> QED
      BY <3>1, <3>2, <3>4, <3>5, ReadingAudits DEF r
  <2>4. CASE ResolveInput
    <3> DEFINE r == Head(inputs_left)
    <3>1. PICK answer \in SnapshotAnswers :
            /\ resolved_inputs' = [x \in DOMAIN resolved_inputs \cup {r} |->
                                     IF x = r THEN answer ELSE resolved_inputs[x]]
            /\ records' = Append(records, Record(r, "succeeded", FALSE, answer))
      BY <2>4 DEF ResolveInput
    <3> DEFINE e == Record(r, "succeeded", FALSE, answer)
    <3>2. /\ phase = "inputs" /\ inputs_left # << >> /\ inputs_left' = Tail(inputs_left)
          /\ UNCHANGED <<plan, phase, walk, materialized, error>>
      BY <2>4 DEF ResolveInput
    <3>3. /\ e.node_id = Last(execution_order) /\ e.reference_id = r
          /\ e.status = "succeeded" /\ records' = Append(records, e)
      BY <3>1 DEF Record
    <3>4. r \in Ids(plan.references)
      <4>1. /\ LeftOver /\ Current \in Range(plan.nodes) /\ IsPlan(plan)
        BY <3>2, CurrentFacts, Surroundings DEF InputInv, WalkInv, Within
      <4> QED
        BY <3>2, <4>1, HeadTailProperties DEF LeftOver
    <3>5. Last(execution_order) \in Int
      BY <3>2, CurrentFacts, Surroundings, GraphFacts DEF IsGraph
    <3>6. e \in Records
      BY <3>4, <3>5 DEF Record, Records
    <3>7. /\ DOMAIN resolved_inputs \subseteq DOMAIN resolved_inputs'
          /\ DOMAIN resolved_inputs' \subseteq Ids(plan.references)
          /\ \A x \in DOMAIN resolved_inputs' : resolved_inputs'[x] \in SnapshotAnswers
      BY <3>1, <3>4 DEF InputInv
    <3> HIDE DEF e, r
    <3> QED
      BY <3>2, <3>3, <3>6, <3>7, ReadingAudits DEF r
  <2>5. CASE ResolveFails
    BY <2>5, ResolvingFails
  <2>6. CASE Compose
    BY <2>6, ComposingKeepsInputs
  <2>7. CASE ExecutorSucceeds \/ ExecutionFails
    BY <2>7, RunningKeepsInputs
  <2>8. CASE UNCHANGED vars
    <3>1. UNCHANGED <<plan, execution_order, attempted, resolved_inputs, materialized,
                      records, inputs_left, phase, error>>
      BY <2>8 DEF vars
    <3>2. phase # "composed" \/ AuditedUpTo(Last(execution_order), Len(Current.inputs))
      BY DEF InputInv
    <3>3. /\ UNCHANGED <<plan, execution_order, resolved_inputs, records, inputs_left>>
          /\ materialized' \subseteq DOMAIN resolved_inputs
          /\ \A id \in Range(attempted') : AuditedUpTo(id, Len(NodeOf(id).inputs))
          /\ phase' # "inputs" \/ phase = "inputs"
          /\ phase' # "composed" \/ AuditedUpTo(Last(execution_order), Len(Current.inputs))
      BY <2>0, <3>1, <3>2
    <3>4. error' = "composition" =>
            \E r \in DOMAIN resolved_inputs : resolved_inputs[r] # "matching"
      BY <2>0, <3>1
    <3> QED
      BY <3>3, <3>4, InputsUndisturbed
  <2> QED
    BY <2>1, <2>2, <2>3, <2>4, <2>5, <2>6, <2>7, <2>8 DEF Next
<1> QED
  BY <1>1, <1>2, WalkInvariance, CacheInvariance, PTL DEF Spec

(* What validation lets through can be run (plan_validation.py and         *)
(* coordinator.py): a plan fails in the composition of inputs only on      *)
(* account of a snapshot that is not the one it names, and never in the    *)
(* lookup of a child result or for want of a root result.                  *)
THEOREM ValidPlansRun == Spec => []AcceptedPlansRun
<1>1. ASSUME WalkInv
      PROVE  error \notin {"lookup", "missing_root"}
  BY <1>1 DEF WalkInv, Accepted, Untouched, Between, Broken, Faults, Phases
<1>2. WalkInv /\ InputInv => AcceptedPlansRun
  BY <1>1 DEF InputInv, AcceptedPlansRun
<1> QED
  BY <1>2, WalkInvariance, InputInvariance, PTL

LEMMA Prefixed ==
  ASSUME NEW S, NEW s \in Seq(S), NEW t \in Seq(S), Len(s) <= Len(t),
         \A i \in 1..Len(s) : s[i] = t[i]
  PROVE  IsPrefix(s, t)
<1> DEFINE n == Len(s)
           head == SubSeq(t, 1, n)
<1>1. n \in Nat /\ Len(t) \in Nat /\ \A i \in 1..Len(t) : t[i] \in S
  BY LenProperties, ElementOfSeq
<1> HIDE DEF n
<1>2. \A i \in 1..n : t[i] \in S
  BY <1>1 DEF n
<1>3. /\ head \in Seq(S) /\ Len(head) = IF 1 <= n THEN n - 1 + 1 ELSE 0
      /\ \A i \in 1..(n - 1 + 1) : head[i] = t[1 + i - 1]
  BY <1>1, <1>2, SubSeqProperties
<1>4. n - 1 + 1 = n /\ (1 <= n \/ n = 0) /\ \A i \in 1..n : 1 + i - 1 = i
  BY <1>1
<1> HIDE DEF head
<1>5. Len(head) = n /\ \A i \in 1..n : head[i] = t[i]
  BY <1>3, <1>4
<1>6. head = s
  BY <1>3, <1>5, SeqEqual DEF n
<1>7. SubSeq(s, 1, Len(s)) = s
  BY SubSeqFull
<1> QED
  BY <1>6, <1>7 DEF IsPrefix, head, n

LEMMA Suffixed ==
  ASSUME NEW S, NEW s \in Seq(S), NEW T, NEW t \in Seq(T), Len(s) <= Len(t),
         \A j \in 1..Len(s) : s[j] = t[(Len(t) - Len(s)) + j]
  PROVE  IsSuffix(s, t)
<1> DEFINE U == S \cup T
           m == Len(s)
           N == Len(t)
           a == Reverse(s)
           b == Reverse(t)
<1>1. /\ m \in Nat /\ N \in Nat
      /\ \A i \in 1..m : s[i] \in U
      /\ \A i \in 1..N : t[i] \in U
  BY LenProperties, ElementOfSeq
<1>2. a = [i \in 1..m |-> s[(m - i) + 1]] /\ b = [i \in 1..N |-> t[(N - i) + 1]]
  BY DEF Reverse
<1>3. m <= N /\ \A j \in 1..m : s[j] = t[(N - m) + j]
  OBVIOUS
<1> HIDE DEF U, m, N, a, b
<1>4. /\ \A i \in 1..m : (m - i) + 1 \in 1..m /\ (N - m) + ((m - i) + 1) = (N - i) + 1
      /\ \A i \in 1..N : (N - i) + 1 \in 1..N
  BY <1>1
<1>5. a \in [1..m -> U] /\ b \in [1..N -> U]
  BY <1>1, <1>2, <1>4
<1>6. a \in Seq(U) /\ b \in Seq(U) /\ Len(a) = m /\ Len(b) = N
  BY <1>1, <1>5
<1>7. \A i \in 1..m : i \in 1..N
  BY <1>1, <1>3
<1>8. \A i \in 1..m : a[i] = b[i]
  BY <1>2, <1>3, <1>4, <1>7
<1>9. IsPrefix(a, b)
  BY <1>3, <1>6, <1>8, Prefixed
<1> QED
  BY <1>9 DEF IsSuffix, a, b

LEMMA TypesHold ==
  ASSUME WalkInv, InputInv
  PROVE  TypeOK
<1>1. IsPlan(plan)
  BY Surroundings
<1>2. \A n \in Range(plan.nodes) : n.role \in {"leaf", "aggregator", "root"}
  BY <1>1 DEF IsPlan, HasGraph
<1>3. /\ phase \in Phases /\ error \in Errors
  BY DEF WalkInv, Accepted, Untouched, Between, Broken, Faults, Phases, Errors
<1>4. /\ IsPrefix(execution_order, schedule)
      /\ results \subseteq Range(execution_order)
      /\ Range(attempted) \subseteq Range(execution_order)
  <2>1. CASE ~Accepted
    <3>1. /\ execution_order = << >> /\ schedule = << >> /\ results = {}
          /\ attempted = << >>
      BY <2>1 DEF WalkInv, Untouched
    <3>2. << >> \in Seq({}) /\ Len(<< >>) = 0
      BY EmptySeq
    <3>3. IsPrefix(<< >>, << >>)
      BY <3>2 DEF IsPrefix
    <3> QED
      BY <3>1, <3>3
  <2>2. CASE Accepted
    <3>1. Placed /\ schedule \in Seq(Ids(plan.nodes))
      BY <2>2, PlacedFacts
    <3>2. IsPrefix(execution_order, schedule)
      BY <3>1, Prefixed DEF Placed
    <3>3. execution_order # << >> =>
            Range(Front(execution_order)) \subseteq Range(execution_order)
      BY <3>1, FrontFacts DEF Placed
    <3>4. \/ Between
          \/ execution_order # << >> /\ results = Range(Front(execution_order))
             /\ attempted \in {execution_order, Front(execution_order)}
      BY <2>2 DEF WalkInv, Accepted, Within, Broken, Phases
    <3> QED
      BY <3>2, <3>3, <3>4 DEF Between
  <2> QED
    BY <2>1, <2>2
<1>5. /\ DOMAIN resolved_inputs \subseteq Ids(plan.references)
      /\ Range(resolved_inputs) \subseteq SnapshotAnswers
      /\ materialized \subseteq DOMAIN resolved_inputs
      /\ Range(records) \subseteq Records
  <2>1. records \in Seq(Records)
    BY DEF InputInv
  <2>2. Range(records) \subseteq Records
    BY <2>1, RangeFacts
  <2> QED
    BY <2>2 DEF InputInv, Range
<1>6. ASSUME execution_order # << >>
      PROVE  IsSuffix(inputs_left, Current.inputs)
  <2>1. LeftOver /\ Placed
    BY <1>6 DEF InputInv, WalkInv, Untouched
  <2>2. Current \in Range(plan.nodes)
    <3>1. Last(execution_order) \in Ids(plan.nodes)
      BY <1>6, <2>1, FrontFacts DEF Placed
    <3>2. plan.nodes \in Seq(Range(plan.nodes))
      BY <1>1 DEF IsPlan, HasGraph
    <3> QED
      BY <3>1, <3>2, ByIdFacts DEF Current, NodeOf
  <2>3. Current.inputs \in Seq(Range(Current.inputs))
    BY <1>1, <2>2 DEF IsPlan, HasGraph
  <2> QED
    BY <2>1, <2>3, Suffixed DEF LeftOver
<1> QED
  BY <1>2, <1>3, <1>4, <1>5, <1>6 DEF TypeOK

LEMMA RunNodesAudited ==
  ASSUME WalkInv, InputInv
  PROVE  InputsAudited
<1>1. ASSUME NEW id \in results \cup Range(attempted)
      PROVE  /\ [i \in DOMAIN RecordsOf(id) |-> RecordsOf(id)[i].reference_id]
                  = NodeOf(id).inputs
             /\ \A i \in DOMAIN RecordsOf(id) : RecordsOf(id)[i].status = "succeeded"
  <2>1. Accepted /\ Placed /\ id \in Range(attempted) /\ id \in Range(execution_order)
    <3>1. Accepted
      BY DEF WalkInv, Untouched, Range
    <3>2. \/ Between
          \/ execution_order # << >> /\ results = Range(Front(execution_order))
             /\ attempted \in {execution_order, Front(execution_order)}
      BY <3>1 DEF WalkInv, Accepted, Within, Broken, Phases
    <3>3. Placed
      BY <3>1 DEF WalkInv
    <3>4. execution_order # << >> =>
            Range(Front(execution_order)) \subseteq Range(execution_order)
      BY <3>3, FrontFacts DEF Placed
    <3> QED
      BY <3>1, <3>2, <3>3, <3>4 DEF Between
  <2>2. NodeOf(id).inputs \in Seq(Range(NodeOf(id).inputs))
    <3>1. id \in Ids(plan.nodes)
      BY <2>1, RangeFacts DEF Placed
    <3>2. IsPlan(plan) /\ plan.nodes \in Seq(Range(plan.nodes))
      BY Surroundings DEF IsPlan, HasGraph
    <3>3. NodeOf(id) \in Range(plan.nodes)
      BY <3>1, <3>2, ByIdFacts DEF NodeOf
    <3> QED
      BY <3>2, <3>3 DEF IsPlan, HasGraph
  <2> DEFINE of == RecordsOf(id)
             all == NodeOf(id).inputs
  <2>3. AuditedUpTo(id, Len(all))
    BY <2>1 DEF InputInv
  <2>4. of \in Seq(Records)
    <3>1. records \in Seq(Records)
      BY DEF InputInv
    <3> QED
      BY <3>1, RecordsOfFacts
  <2>5. /\ Len(of) = Len(all)
        /\ \A i \in 1..Len(all) : of[i].reference_id = all[i] /\ of[i].status = "succeeded"
    BY <2>3 DEF AuditedUpTo
  <2> HIDE DEF of, all
  <2>6. /\ DOMAIN of = 1..Len(all) /\ all = [i \in 1..Len(all) |-> all[i]]
    BY <2>2, <2>4, <2>5, LenProperties DEF all
  <2>7. [i \in DOMAIN of |-> of[i].reference_id] = all
    BY <2>5, <2>6
  <2> QED
    BY <2>5, <2>6, <2>7 DEF of, all
<1> QED
  BY <1>1 DEF InputsAudited

(* What the audit records say of the inputs is what the nodes got          *)
(* (coordinator.py _compose_cell_inputs): for every node that went on to   *)
(* run, one record for each input in the order it declares them, cache     *)
(* hits included; and one resolution at most for each reference.           *)
THEOREM RunInputsAreAudited == Spec => []ResolutionInv
<1>1. WalkInv /\ InputInv => TypeOK /\ InputsAudited
  BY TypesHold, RunNodesAudited
<1> QED
  BY <1>1, WalkInvariance, InputInvariance, ReferencesResolveOnce, PTL DEF ResolutionInv

=============================================================================
