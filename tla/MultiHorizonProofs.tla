-------------------------- MODULE MultiHorizonProofs --------------------------
(***************************************************************************)
(* A batch of MultiHorizonAnalyzer is all or nothing, for every request,   *)
(* every factory and every way its child runs may end; and what            *)
(* HorizonDecisionPolicy makes of its reports never averages a             *)
(* disagreement, lets risk bear on nothing but the posture, and prefers no *)
(* side, for every policy and every view the reports may have. In the      *)
(* second half, from "Sums and means" on: the decision passes its own      *)
(* checks, so every analysis has one.                                      *)
(***************************************************************************)
EXTENDS MultiHorizon, PlanValidationProofs

-----------------------------------------------------------------------------
(* Sequences of what they hold *)

IsSeq(s) == s \in Seq(Range(s))

LEMMA SeqFacts ==
  ASSUME NEW s, IsSeq(s)
  PROVE  Len(s) \in Nat /\ DOMAIN s = 1..Len(s) /\ (s = << >> <=> Len(s) = 0)
<1>1. Len(s) \in Nat /\ DOMAIN s = 1..Len(s)
  BY LenProperties DEF IsSeq
<1>2. s = << >> <=> Len(s) = 0
  BY EmptySeq DEF IsSeq
<1> QED
  BY <1>1, <1>2

LEMMA AppendFacts ==
  ASSUME NEW s, IsSeq(s), NEW e
  PROVE  /\ IsSeq(Append(s, e)) /\ Len(Append(s, e)) = Len(s) + 1
         /\ \A i \in 1..Len(s) : Append(s, e)[i] = s[i]
         /\ Append(s, e)[Len(s) + 1] = e
<1> DEFINE S == Range(s) \cup {e}
           a == Append(s, e)
<1>1. s \in Seq(S) /\ e \in S
  BY SeqMonotonic DEF IsSeq
<1>2. /\ a \in Seq(S) /\ Len(a) = Len(s) + 1
      /\ \A i \in 1..Len(s) : a[i] = s[i]
      /\ a[Len(s) + 1] = e
  BY <1>1, AppendProperties
<1> HIDE DEF a, S
<1>3. IsSeq(a)
  <2>1. Len(a) \in Nat /\ a \in [1..Len(a) -> S] /\ DOMAIN a = 1..Len(a)
    BY <1>2, LenProperties
  <2>2. a \in [1..Len(a) -> Range(a)]
    BY <2>1 DEF Range
  <2> QED
    BY <2>1, <2>2, SeqDef DEF IsSeq
<1> QED
  BY <1>2, <1>3 DEF a

-----------------------------------------------------------------------------
(* The order of the batch *)

LEMMA OrderFacts ==
  ASSUME scenario \in Scenarios
  PROVE  /\ IsSeq(Order) /\ Len(Order) = Len(request.children)
         /\ Len(Order) \in Nat /\ DOMAIN Order = 1..Len(Order)
<1> DEFINE children == request.children
<1>1. IsSeq(children)
  BY ScenarioAssumption DEF IsSeq, request
<1>2. Len(children) \in Nat /\ DOMAIN children = 1..Len(children)
  BY <1>1, SeqFacts
<1>3. Order = [i \in 1..Len(children) |-> children[i].horizon]
  BY <1>2 DEF Order, OrderOf
<1> HIDE DEF children
<1>4. Order \in [1..Len(children) -> Range(Order)] /\ DOMAIN Order = 1..Len(children)
  BY <1>3 DEF Range
<1>5. Order \in Seq(Range(Order))
  BY <1>2, <1>4, SeqDef
<1>6. Len(Order) = Len(children)
  BY <1>2, <1>4, <1>5, LenProperties
<1> QED
  BY <1>2, <1>4, <1>5, <1>6 DEF IsSeq, children

-----------------------------------------------------------------------------
(* The inductive invariant *)

FirstHorizons(n) == {Order[i] : i \in 1..n}

(* Engines were compared with the first, reports with request and engines. *)
Uniform ==
  \A i \in 1..Len(prepared) :
    prepared[i].graph = prepared[1].graph /\ prepared[i].formulas = prepared[1].formulas
ReportsInOrder ==
  \A i \in 1..Len(completed) :
    /\ completed[i].horizon = Order[i] /\ completed[i].target = request.target
    /\ completed[i].decision.horizon = completed[i].horizon
    /\ completed[i].formulas = Expected

SequencesHold ==
  /\ scenario \in Scenarios /\ pc \in Stages
  /\ pc \notin {"submitted", "invalid"} => Submittable
  /\ IsSeq(prepared) /\ Len(prepared) <= Len(Order) /\ Uniform
  /\ IsSeq(completed) /\ Len(completed) <= Len(Order) /\ ReportsInOrder

Ended == {"analysed", "undecided", "decided"}
StageHolds ==
  /\ pc \in {"submitted", "invalid"} => prepared = << >> /\ completed = << >>
  /\ pc = "preparing" => Len(prepared) < Len(Order) /\ completed = << >>
  /\ pc = "running" => Len(prepared) = Len(Order) /\ Len(completed) < Len(Order)
  /\ pc \in {"composing"} \cup Ended =>
       Len(prepared) = Len(Order) /\ Len(completed) = Len(Order)
  /\ pc # "refused"

(* While nothing has failed, exactly the completed reports are stored.     *)
SavedHolds ==
  /\ saved \subseteq Range(Order)
  /\ pc # "failed" => saved = FirstHorizons(Len(completed))

EndHolds ==
  /\ (pc = "failed") = (failure # NoFailure)
  /\ pc \in Ended => analysis = Composed
  /\ pc \notin Ended => analysis = NoAnalysis
  /\ (decision # NoDecision) = (pc = "decided")
  /\ FailureBoundary

IInv == SequencesHold /\ StageHolds /\ SavedHolds /\ EndHolds

LEMMA InitInv == Init => IInv
<1> SUFFICES ASSUME Init PROVE IInv
  OBVIOUS
<1>1. IsSeq(<< >>) /\ Len(<< >>) = 0 /\ 1..0 = {}
  BY DEF IsSeq
<1>2. scenario \in Scenarios /\ pc = "submitted" /\ prepared = << >> /\ completed = << >>
      /\ saved = {} /\ failure = NoFailure /\ analysis = NoAnalysis /\ decision = NoDecision
  BY DEF Init
<1>3. Len(Order) \in Nat
  BY <1>2, OrderFacts
<1>4. SequencesHold
  BY <1>1, <1>2, <1>3 DEF SequencesHold, Stages, Uniform, ReportsInOrder
<1>5. StageHolds /\ SavedHolds
  BY <1>1, <1>2 DEF StageHolds, SavedHolds, FirstHorizons, Ended
<1>6. EndHolds
  BY <1>2 DEF EndHolds, FailureBoundary, Ended
<1> QED
  BY <1>4, <1>5, <1>6 DEF IInv

(* The horizons of the completed reports are the first of the batch.       *)
LEMMA CompletedFacts ==
  ASSUME IInv
  PROVE  LET n == Len(completed) IN
         /\ n \in Nat
         /\ Horizons(completed) = SubSeq(Order, 1, n)
         /\ Len(Horizons(completed)) = n
         /\ Range(Horizons(completed)) = FirstHorizons(n)
<1> DEFINE n == Len(completed)
           h == Horizons(completed)
<1>1. IsSeq(completed) /\ ReportsInOrder /\ n <= Len(Order) /\ scenario \in Scenarios
  BY DEF IInv, SequencesHold
<1>2. n \in Nat /\ DOMAIN completed = 1..n
  BY <1>1, SeqFacts
<1>3. IsSeq(Order) /\ Len(Order) \in Nat /\ DOMAIN Order = 1..Len(Order)
  BY <1>1, OrderFacts
<1>4. h = [i \in 1..n |-> Order[i]]
  BY <1>1, <1>2 DEF Horizons, ReportsInOrder
<1>5. \A i \in 1..n : Order[i] \in Range(Order)
  BY <1>1, <1>2, <1>3 DEF Range
<1>6. h \in [1..n -> Range(Order)] /\ DOMAIN h = 1..n
  BY <1>4, <1>5
<1> HIDE DEF n, h
<1>7. h \in Seq(Range(Order)) /\ Len(h) = n
  <2>1. h \in Seq(Range(Order))
    BY <1>2, <1>6, SeqDef
  <2> QED
    BY <1>2, <1>6, <2>1, LenProperties
<1>8. h = SubSeq(Order, 1, n)
  <2> DEFINE sub == SubSeq(Order, 1, n)
  <2>1. /\ sub \in Seq(Range(Order))
        /\ Len(sub) = IF 1 <= n THEN n - 1 + 1 ELSE 0
        /\ \A i \in 1..(n - 1 + 1) : sub[i] = Order[1 + i - 1]
    BY <1>2, <1>5, SubSeqProperties
  <2> HIDE DEF sub
  <2>2. Len(sub) = n /\ \A i \in 1..n : sub[i] = Order[i]
    BY <1>2, <2>1
  <2>3. \A i \in 1..Len(h) : h[i] = sub[i]
    BY <1>4, <1>7, <2>2
  <2>4. h = sub
    BY <1>7, <2>1, <2>2, <2>3, SeqEqual
  <2> QED
    BY <2>4 DEF sub
<1>9. Range(h) = FirstHorizons(n)
  BY <1>4 DEF Range, FirstHorizons
<1> QED
  BY <1>2, <1>7, <1>8, <1>9 DEF n, h

(* Every way to fail: before any horizon has run, or at the next one.      *)
LEMMA RaiseInv ==
  ASSUME IInv, NEW code, NEW horizon, Raise(code, horizon, completed),
         \/ pc = "preparing" /\ code \in PreflightCodes /\ UNCHANGED saved
         \/ /\ pc = "running" /\ code \in RunCodes /\ horizon = NextHorizon
            /\ saved' \in {saved, saved \cup {NextHorizon}}
  PROVE  IInv'
<1>1. /\ failure' = [code |-> code, failed |-> horizon, reports |-> completed]
      /\ pc' = "failed"
      /\ UNCHANGED << scenario, prepared, completed, analysis, decision >>
  BY DEF Raise
<1>2. SequencesHold' /\ StageHolds'
  BY <1>1 DEF IInv, SequencesHold, StageHolds, Uniform, ReportsInOrder, Expected, Order, request,
     Submittable, InputsDeclared, Stages, Ended
<1> DEFINE n == Len(completed)
<1>3. /\ n \in Nat /\ Horizons(completed) = SubSeq(Order, 1, n)
      /\ Len(Horizons(completed)) = n /\ Range(Horizons(completed)) = FirstHorizons(n)
  BY CompletedFacts
<1>4. saved = FirstHorizons(n) /\ saved \subseteq Range(Order)
  BY DEF IInv, SavedHolds
<1>5. pc = "running" => NextHorizon = Order[n + 1] /\ NextHorizon \in Range(Order)
  <2>1. DOMAIN Order = 1..Len(Order) /\ Len(Order) \in Nat
    BY OrderFacts DEF IInv, SequencesHold
  <2> QED
    BY <2>1, <1>3 DEF IInv, StageHolds, NextHorizon, Range
<1>6. SavedHolds'
  BY <1>1, <1>4, <1>5 DEF SavedHolds, Order, request
<1>7. /\ failure'.code = code /\ failure'.failed = horizon /\ failure'.reports = completed
      /\ failure' # NoFailure
  <2>1. DOMAIN failure' = {"code", "failed", "reports"}
    BY <1>1
  <2>2. failure' # NoFailure
    <3>1. "code" \in DOMAIN failure' /\ DOMAIN NoFailure = {}
      BY <2>1 DEF NoFailure
    <3> QED
      BY <3>1
  <2> QED
    BY <1>1, <2>2
<1>8. FailureBoundary'
  <2>1. code \in PreflightCodes => code \notin RunCodes
    BY DEF PreflightCodes, RunCodes
  <2>2. CASE pc = "preparing"
    <3>1. completed = << >> /\ n = 0
      BY <2>2 DEF IInv, StageHolds
    <3>2. Horizons(completed) = << >> /\ saved' = {}
      <4>1. 1..0 = {}
        OBVIOUS
      <4>2. saved = {}
        BY <3>1, <4>1, <1>4 DEF FirstHorizons
      <4> QED
        BY <2>2, <3>1, <4>2 DEF Horizons
    <3>3. code \in PreflightCodes
      BY <2>2
    <3> QED
      BY <1>7, <2>1, <3>2, <3>3 DEF FailureBoundary
  <2>3. CASE pc = "running"
    <3>1. code \in RunCodes /\ code \notin PreflightCodes /\ horizon = Order[n + 1]
          /\ saved' \in {saved, saved \cup {horizon}}
      BY <2>1, <2>3, <1>5
    <3>2. Order' = Order
      BY <1>1 DEF Order, request
    <3> HIDE DEF n
    <3> QED
      BY <1>3, <1>4, <1>7, <3>1, <3>2 DEF FailureBoundary
  <2> QED
    BY <2>2, <2>3
<1>9. EndHolds'
  BY <1>1, <1>7, <1>8 DEF IInv, EndHolds, Ended
<1> QED
  BY <1>2, <1>6, <1>9 DEF IInv

(* Steps that touch neither the batch nor what it has produced. *)
LEMMA PrepareInv == IInv /\ Prepare => IInv'
<1> SUFFICES ASSUME IInv, Prepare PROVE IInv'
  OBVIOUS
<1>1. PICK e \in Engines :
        SameGraph(e) /\ SameFormulas(e) /\ prepared' = Append(prepared, e)
  BY DEF Prepare
<1>2. /\ pc = "preparing" /\ pc' = IF Len(prepared') = Len(Order) THEN "running" ELSE "preparing"
      /\ UNCHANGED << scenario, completed, saved, failure, analysis, decision >>
  BY DEF Prepare
<1>3. /\ IsSeq(prepared) /\ Len(prepared) < Len(Order) /\ Uniform /\ completed = << >>
      /\ scenario \in Scenarios /\ Submittable
  BY <1>2 DEF IInv, SequencesHold, StageHolds
<1>4. Len(prepared) \in Nat /\ (prepared = << >> <=> Len(prepared) = 0) /\ Len(Order) \in Nat
  BY <1>3, SeqFacts, OrderFacts
<1>5. /\ IsSeq(prepared') /\ Len(prepared') = Len(prepared) + 1
      /\ \A i \in 1..Len(prepared) : prepared'[i] = prepared[i]
      /\ prepared'[Len(prepared) + 1] = e
  BY <1>1, <1>3, AppendFacts
<1>6. Uniform'
  <2>1. CASE Len(prepared) = 0
    BY <2>1, <1>5 DEF Uniform
  <2>2. CASE Len(prepared) > 0
    <3>1. e.graph = prepared[1].graph /\ e.formulas = prepared[1].formulas
      BY <1>1, <1>4, <2>2 DEF SameGraph, SameFormulas
    <3>2. prepared'[1] = prepared[1]
      BY <1>4, <1>5, <2>2
    <3> QED
      BY <1>3, <1>4, <1>5, <3>1, <3>2 DEF Uniform
  <2> QED
    BY <1>4, <2>1, <2>2
<1>7. Order' = Order /\ Submittable'
  BY <1>2, <1>3 DEF Order, request, Submittable, InputsDeclared
<1>8. Len(completed) = 0 /\ 1..0 = {}
  BY <1>3
<1>9. SequencesHold'
  BY <1>2, <1>3, <1>4, <1>5, <1>6, <1>7, <1>8 DEF SequencesHold, Stages, ReportsInOrder, IInv
<1>10. StageHolds'
  BY <1>2, <1>3, <1>4, <1>5, <1>7, <1>8 DEF StageHolds, Ended
<1>11. SavedHolds' /\ EndHolds'
  BY <1>2, <1>7 DEF IInv, SavedHolds, EndHolds, FirstHorizons, FailureBoundary, Ended
<1> QED
  BY <1>9, <1>10, <1>11 DEF IInv

LEMMA CompletedInv == IInv /\ ReportCompleted => IInv'
<1> SUFFICES ASSUME IInv, ReportCompleted PROVE IInv'
  OBVIOUS
<1>1. PICK r \in Reports :
        InScope(r, NextHorizon) /\ r.formulas = Expected /\ completed' = Append(completed, r)
  BY DEF ReportCompleted
<1>2. /\ pc = "running" /\ pc' = IF Len(completed') = Len(Order) THEN "composing" ELSE "running"
      /\ saved' = saved \cup {NextHorizon}
      /\ UNCHANGED << scenario, prepared, failure, analysis, decision >>
  BY DEF ReportCompleted
<1>3. /\ IsSeq(completed) /\ Len(completed) < Len(Order) /\ ReportsInOrder
      /\ Len(prepared) = Len(Order) /\ scenario \in Scenarios /\ Submittable
      /\ saved = FirstHorizons(Len(completed)) /\ saved \subseteq Range(Order)
  BY <1>2 DEF IInv, SequencesHold, StageHolds, SavedHolds
<1>4. Len(completed) \in Nat /\ Len(Order) \in Nat /\ DOMAIN Order = 1..Len(Order)
  BY <1>3, SeqFacts, OrderFacts
<1>5. /\ IsSeq(completed') /\ Len(completed') = Len(completed) + 1
      /\ \A i \in 1..Len(completed) : completed'[i] = completed[i]
      /\ completed'[Len(completed) + 1] = r
  BY <1>1, <1>3, AppendFacts
<1>6. Order' = Order /\ Expected' = Expected /\ request' = request /\ Submittable'
  BY <1>2, <1>3 DEF Order, request, Expected, Submittable, InputsDeclared
<1>7. ReportsInOrder'
  <2>1. /\ r.horizon = Order[Len(completed) + 1] /\ r.target = request.target
        /\ r.decision.horizon = r.horizon /\ r.formulas = Expected
    BY <1>1 DEF InScope, NextHorizon
  <2> QED
    BY <1>3, <1>4, <1>5, <1>6, <2>1 DEF ReportsInOrder
<1>8. SequencesHold'
  BY <1>2, <1>3, <1>4, <1>5, <1>6, <1>7 DEF SequencesHold, Stages, IInv, Uniform
<1>9. StageHolds'
  BY <1>2, <1>3, <1>4, <1>5, <1>6 DEF StageHolds, Ended
<1>10. SavedHolds'
  <2>1. FirstHorizons(Len(completed) + 1) = FirstHorizons(Len(completed)) \cup {NextHorizon}
    BY <1>4 DEF FirstHorizons, NextHorizon
  <2>2. NextHorizon \in Range(Order)
    BY <1>3, <1>4, SMTT(60) DEF NextHorizon, Range
  <2>3. \A k : FirstHorizons(k)' = {Order'[i] : i \in 1..k}
    BY DEF FirstHorizons
  <2>4. SavedHolds' = (/\ saved' \subseteq Range(Order)
                       /\ pc' # "failed" => saved' = FirstHorizons(Len(completed')))
    BY <1>6 DEF SavedHolds, FirstHorizons
  <2> QED
    BY <1>2, <1>3, <1>5, <2>1, <2>2, <2>4
<1>11. EndHolds'
  BY <1>2, <1>6 DEF IInv, EndHolds, FailureBoundary, Ended
<1> QED
  BY <1>8, <1>9, <1>10, <1>11 DEF IInv

(* The envelope's own checks repeat what the batch has already established.*)
LEMMA ComposedAccepted ==
  ASSUME IInv, pc = "composing"
  PROVE  AnalysisAccepted(Composed)
<1>1. /\ IsSeq(completed) /\ Len(completed) = Len(Order) /\ ReportsInOrder /\ Submittable
      /\ scenario \in Scenarios
  BY DEF IInv, SequencesHold, StageHolds
<1>2. /\ Composed.target = request.target /\ Composed.asOf = request.asOf
      /\ Composed.order = Order /\ Composed.reports = completed
      /\ Composed.formulas = Expected
  BY DEF Composed
<1>3. /\ request.target # BlankTarget /\ request.asOf >= 0 /\ IsInjective(Order)
      /\ Len(Order) \in MinimumHorizons..MaximumHorizons
  BY <1>1, OrderFacts DEF Submittable, RequestAccepted, Order
<1>4. DOMAIN completed = 1..Len(Order) /\ DOMAIN Order = 1..Len(Order)
  BY <1>1, SeqFacts, OrderFacts
<1>5. [i \in DOMAIN completed |-> completed[i].horizon] = Order
  <2>1. \A i \in 1..Len(Order) : completed[i].horizon = Order[i]
    BY <1>1 DEF ReportsInOrder
  <2>2. Order = [i \in 1..Len(Order) |-> Order[i]]
    BY <1>4 DEF Order, OrderOf
  <2> QED
    BY <1>4, <2>1, <2>2
<1>6. \A i \in DOMAIN completed :
        /\ completed[i].target = request.target
        /\ completed[i].decision.horizon = completed[i].horizon
        /\ completed[i].formulas = Expected
  BY <1>1, <1>4 DEF ReportsInOrder
<1> QED
  BY <1>2, <1>3, <1>5, <1>6 DEF AnalysisAccepted

LEMMA ComposeInv == IInv /\ Compose => IInv'
<1> SUFFICES ASSUME IInv, Compose PROVE IInv'
  OBVIOUS
<1>1. /\ pc = "composing" /\ pc' = "analysed" /\ analysis' = Composed
      /\ UNCHANGED << scenario, prepared, completed, saved, failure, decision >>
  BY ComposedAccepted DEF Compose
<1>2. Order' = Order /\ request' = request /\ Expected' = Expected /\ Submittable' = Submittable
  BY <1>1 DEF Order, request, Expected, Submittable, InputsDeclared
<1>3. SequencesHold' /\ StageHolds' /\ SavedHolds'
  BY <1>1, <1>2 DEF IInv, SequencesHold, StageHolds, SavedHolds, FirstHorizons, Stages, Uniform,
     ReportsInOrder, Ended
<1>4. Composed' = Composed
  BY <1>1, <1>2 DEF Composed
<1>5. EndHolds'
  BY <1>1, <1>2, <1>4 DEF IInv, EndHolds, FailureBoundary, Ended
<1> QED
  BY <1>3, <1>5 DEF IInv

LEMMA DecideInv == IInv /\ Decide => IInv'
<1> SUFFICES ASSUME IInv, Decide PROVE IInv'
  OBVIOUS
<1>1. /\ pc = "analysed" /\ pc' \in {"undecided", "decided"}
      /\ (decision' # NoDecision) = (pc' = "decided")
      /\ UNCHANGED << scenario, prepared, completed, saved, failure, analysis >>
  BY DEF Decide
<1>2. Order' = Order /\ request' = request /\ Expected' = Expected /\ Submittable' = Submittable
  BY <1>1 DEF Order, request, Expected, Submittable, InputsDeclared
<1>3. SequencesHold' /\ StageHolds' /\ SavedHolds'
  BY <1>1, <1>2 DEF IInv, SequencesHold, StageHolds, SavedHolds, FirstHorizons, Stages, Uniform,
     ReportsInOrder, Ended
<1>4. Composed' = Composed
  BY <1>1, <1>2 DEF Composed
<1>5. EndHolds'
  BY <1>1, <1>2, <1>4 DEF IInv, EndHolds, FailureBoundary, Ended
<1> QED
  BY <1>3, <1>5 DEF IInv

LEMMA SubmitInv == IInv /\ Submit => IInv'
<1> SUFFICES ASSUME IInv, Submit PROVE IInv'
  OBVIOUS
<1>1. /\ pc = "submitted" /\ pc' = IF Submittable THEN "preparing" ELSE "invalid"
      /\ UNCHANGED << scenario, prepared, completed, saved, failure, analysis, decision >>
  BY DEF Submit
<1>2. Order' = Order /\ request' = request /\ Expected' = Expected /\ Submittable' = Submittable
  BY <1>1 DEF Order, request, Expected, Submittable, InputsDeclared
<1>3. prepared = << >> /\ completed = << >> /\ scenario \in Scenarios
  BY <1>1 DEF IInv, StageHolds, SequencesHold
<1>4. Submittable => Len(prepared) < Len(Order)
  <2> SUFFICES ASSUME Submittable PROVE Len(prepared) < Len(Order)
    OBVIOUS
  <2>1. Len(Order) = Len(request.children) /\ Len(Order) \in Nat
    BY <1>3, OrderFacts
  <2>2. Len(request.children) \in 2..8
    BY DEF Submittable, RequestAccepted, MinimumHorizons, MaximumHorizons
  <2>3. Len(prepared) = 0
    BY <1>3
  <2> QED
    <3>1. Len(Order) \in 2..8
      BY <2>1, <2>2, Zenon
    <3>2. \A k \in 2..8 : 0 < k
      OBVIOUS
    <3> QED
      BY <2>3, <3>1, <3>2, Zenon
<1>5. SequencesHold' /\ StageHolds' /\ SavedHolds'
  BY <1>1, <1>2, <1>3, <1>4 DEF IInv, SequencesHold, StageHolds, SavedHolds, FirstHorizons,
     Stages, Uniform, ReportsInOrder, Ended
<1>6. EndHolds'
  BY <1>1, <1>2 DEF IInv, EndHolds, FailureBoundary, Ended
<1> QED
  BY <1>5, <1>6 DEF IInv

LEMMA NextInv == IInv /\ [Next]_vars => IInv'
<1> SUFFICES ASSUME IInv, [Next]_vars PROVE IInv'
  OBVIOUS
<1>1. pc = "preparing" => completed = << >>
  BY DEF IInv, StageHolds
<1>2. CASE FactoryFails \/ GraphDiffers \/ FormulasDiffer
  <2>1. pc = "preparing" /\ UNCHANGED saved
    BY <1>2 DEF FactoryFails, GraphDiffers, FormulasDiffer
  <2>2. PICK code \in PreflightCodes : Raise(code, NextEngine, << >>)
    BY <1>2 DEF FactoryFails, GraphDiffers, FormulasDiffer, PreflightCodes
  <2> QED
    BY <1>1, <2>1, <2>2, RaiseInv
<1>3. CASE ChildFails \/ ReportOutOfScope \/ ReportDrifted
  <2>1. pc = "running" /\ saved' \in {saved, saved \cup {NextHorizon}}
    BY <1>3 DEF ChildFails, ReportOutOfScope, ReportDrifted
  <2>2. PICK code \in RunCodes : Raise(code, NextHorizon, completed)
    BY <1>3 DEF ChildFails, ReportOutOfScope, ReportDrifted, RunCodes
  <2> QED
    BY <2>1, <2>2, RaiseInv
<1>4. CASE UNCHANGED vars
  <2>1. Order' = Order /\ request' = request /\ Expected' = Expected
        /\ Submittable' = Submittable /\ Composed' = Composed
    BY <1>4 DEF vars, Order, request, Expected, Submittable, InputsDeclared, Composed
  <2>2. SequencesHold' /\ StageHolds' /\ SavedHolds'
    BY <1>4, <2>1 DEF vars, IInv, SequencesHold, StageHolds, SavedHolds, FirstHorizons,
       Uniform, ReportsInOrder
  <2>3. EndHolds'
    BY <1>4, <2>1 DEF vars, IInv, EndHolds, FailureBoundary
  <2> QED
    BY <2>2, <2>3 DEF IInv
<1> QED
  BY <1>2, <1>3, <1>4, SubmitInv, PrepareInv, CompletedInv, ComposeInv, DecideInv DEF Next

-----------------------------------------------------------------------------
(* All or nothing *)

(* MultiHorizonAnalyzer.run: an error names the horizon it happened at and  *)
(* carries exactly the reports finished before it, a finished batch is      *)
(* never lost to the checks of its own envelope, and every report in it was *)
(* made with the same graph and formulas.                                   *)
THEOREM BatchesAreAllOrNothing == Spec => []BatchInv
<1>1. IInv => BatchInv
  <2> SUFFICES ASSUME IInv PROVE BatchInv
    OBVIOUS
  <2>1. Composed # NoAnalysis
    <3>1. "order" \in DOMAIN Composed
      BY DEF Composed
    <3>2. DOMAIN NoAnalysis = {}
      BY DEF NoAnalysis
    <3> QED
      BY <3>1, <3>2
  <2>2. TypeOK
    BY <2>1 DEF IInv, SequencesHold, StageHolds, SavedHolds, EndHolds, TypeOK, Ended
  <2>3. CompleteMeansUniform
    <3>1. pc # "refused"
      BY DEF IInv, StageHolds
    <3>2. SUFFICES ASSUME analysis # NoAnalysis
          PROVE /\ saved = Range(Order)
                /\ \A i \in DOMAIN Order :
                     /\ prepared[i].graph = analysis.graph
                     /\ analysis.reports[i].formulas = prepared[i].formulas
                     /\ analysis.reports[i].decision.horizon = Order[i]
      BY <3>1 DEF CompleteMeansUniform
    <3>3. /\ pc \in Ended /\ analysis = Composed
          /\ Len(prepared) = Len(Order) /\ Len(completed) = Len(Order)
          /\ Uniform /\ ReportsInOrder /\ saved = FirstHorizons(Len(Order))
      BY <3>2 DEF IInv, EndHolds, StageHolds, SequencesHold, SavedHolds, Ended
    <3>4. DOMAIN Order = 1..Len(Order)
      BY OrderFacts DEF IInv, SequencesHold
    <3>5. saved = Range(Order)
      BY <3>3, <3>4 DEF FirstHorizons, Range
    <3>6. analysis.graph = prepared[1].graph /\ analysis.reports = completed
      BY <3>3 DEF Composed
    <3>7. ASSUME NEW i \in DOMAIN Order
          PROVE  /\ prepared[i].graph = analysis.graph
                 /\ analysis.reports[i].formulas = prepared[i].formulas
                 /\ analysis.reports[i].decision.horizon = Order[i]
      BY <3>3, <3>4, <3>6 DEF Uniform, ReportsInOrder, Expected
    <3> QED
      BY <3>5, <3>7
  <2> QED
    BY <2>2, <2>3 DEF IInv, EndHolds, BatchInv
<1> QED
  BY <1>1, InitInv, NextInv, PTL DEF Spec

-----------------------------------------------------------------------------
(* Quotients and sums *)

LEMMA Quotient ==
  ASSUME NEW a \in Int, NEW b \in Int, b > 0
  PROVE  /\ a \div b \in Int /\ a % b \in Int
         /\ 0 <= a % b /\ a % b < b /\ a = b * (a \div b) + (a % b)
OBVIOUS

LEMMA QuotientIs ==
  ASSUME NEW a \in Int, NEW b \in Int, b > 0, NEW q \in Int, NEW r \in Int,
         0 <= r, r < b, a = b * q + r
  PROVE  q = a \div b /\ r = a % b
OBVIOUS

LEMMA Opposites ==
  ASSUME NEW d \in Int, NEW e \in Int, e + d = 0
  PROVE  e = -d
OBVIOUS

(* round() treats both signs alike.                                        *)
LEMMA RoundOfNegative ==
  ASSUME NEW a \in Int, NEW b \in Int, b > 0
  PROVE  Round(a, b) \in Int /\ Round(-a, b) = -Round(a, b)
<1> DEFINE q == a \div b
           r == a % b
<1>1. /\ q \in Int /\ r \in Int /\ 0 <= r /\ r < b /\ a = b * q + r
  BY Quotient
<1>2. Round(a, b) = IF 2 * r > b \/ (2 * r = b /\ q % 2 = 1) THEN q + 1 ELSE q
  BY DEF Round
<1> HIDE DEF q, r
<1>3. CASE r = 0
  <2>1. -a = b * (-q) + 0
    BY <1>1, <1>3
  <2>2. (-a) \div b = -q /\ (-a) % b = 0
    BY <1>1, <2>1, QuotientIs
  <2>3. Round(-a, b) = -q
    BY <2>2 DEF Round
  <2> QED
    BY <1>1, <1>2, <1>3, <2>3
<1>4. CASE r # 0
  <2>1. -a = b * (-q - 1) + (b - r)
    BY <1>1
  <2>2. (-a) \div b = -q - 1 /\ (-a) % b = b - r
    <3>1. 0 <= b - r /\ b - r < b /\ b - r \in Int /\ -q - 1 \in Int /\ -a \in Int
      BY <1>1, <1>4
    <3> QED
      BY <2>1, <3>1, QuotientIs
  <2>3. Round(-a, b) = IF 2 * (b - r) > b \/ (2 * (b - r) = b /\ (-q - 1) % 2 = 1)
                       THEN -q ELSE -q - 1
    <3>1. Round(-a, b) = IF 2 * (b - r) > b \/ (2 * (b - r) = b /\ (-q - 1) % 2 = 1)
                         THEN -q - 1 + 1 ELSE -q - 1
      BY <2>2 DEF Round
    <3> QED
      BY <1>1, <3>1
  <2>4. (-q - 1) % 2 = 1 <=> q % 2 # 1
    BY <1>1
  <2> QED
    BY <1>1, <1>2, <1>4, <2>3, <2>4
<1> QED
  BY <1>3, <1>4

(* The sum of the opposites is the opposite of the sum.                    *)
LEMMA SumOfNegatives ==
  ASSUME NEW S, IsFiniteSet(S), NEW f, NEW g,
         \A x \in S : f[x] \in Int /\ g[x] = -f[x]
  PROVE  /\ SumFunctionOnSet(f, S) \in Int
         /\ SumFunctionOnSet(g, S) = -SumFunctionOnSet(f, S)
<1>1. PICK d : SumsUp(f, S, d) /\ SumFunctionOnSet(f, S) = d[S]
  BY SumsFacts
<1>2. \A x \in S : g[x] \in Int
  OBVIOUS
<1>3. PICK e : SumsUp(g, S, e) /\ SumFunctionOnSet(g, S) = e[S]
  BY <1>2, SumsFacts
<1>4. Cardinality(S) \in Nat /\ \A t \in SUBSET S : Cardinality(t) <= Cardinality(S)
  BY FS_CardinalityType, FS_Subset
<1> DEFINE D == {m \in Nat : \A t \in SUBSET S : Cardinality(t) <= m => e[t] = -d[t]}
<1>5. 0 \in D
  <2>1. ASSUME NEW t \in SUBSET S, Cardinality(t) <= 0 PROVE t = {}
    <3>1. t # {} => Cardinality(t) \in Nat /\ Cardinality(t) > 0
      BY PickFacts, Zenon
    <3> QED
      BY <2>1, <3>1
  <2>2. {} \in SUBSET S /\ d[{}] = 0 /\ e[{}] = 0
    BY <1>1, <1>3 DEF SumsUp
  <2> QED
    BY <2>1, <2>2
<1>6. ASSUME NEW m \in D PROVE m + 1 \in D
  <2>1. ASSUME NEW t \in SUBSET S, Cardinality(t) <= m + 1 PROVE e[t] = -d[t]
    <3>1. CASE t = {}
      <4>1. d[t] = 0 /\ e[t] = 0
        BY <3>1, <1>1, <1>3 DEF SumsUp
      <4>2. d[t] \in Int /\ e[t] \in Int /\ e[t] + d[t] = 0
        BY <4>1
      <4> QED
        BY <4>2, Opposites
    <3>2. CASE t # {}
      <4>1. t \ {Pick(t)} \in SUBSET S /\ Cardinality(t \ {Pick(t)}) <= m /\ Pick(t) \in S
        BY <2>1, <3>2, PickFacts
      <4>2. e[t \ {Pick(t)}] = -d[t \ {Pick(t)}]
        BY <4>1
      <4>3. d[t \ {Pick(t)}] \in Int
        BY <4>1, <1>1 DEF SumsUp
      <4>4. /\ d[t] = f[Pick(t)] + d[t \ {Pick(t)}]
            /\ e[t] = g[Pick(t)] + e[t \ {Pick(t)}]
        BY <3>2, <1>1, <1>3 DEF SumsUp
      <4>5. f[Pick(t)] \in Int /\ g[Pick(t)] = -f[Pick(t)]
        BY <4>1
      <4> QED
        BY <4>2, <4>3, <4>4, <4>5
    <3> QED
      BY <3>1, <3>2
  <2>2. m \in Nat /\ m + 1 \in Nat
    OBVIOUS
  <2> QED
    BY <2>1, <2>2
<1> HIDE DEF D
<1>7. Cardinality(S) \in D
  BY <1>4, <1>5, <1>6, UpTo
<1>8. e[S] = -d[S]
  BY <1>4, <1>7 DEF D
<1>9. d[S] \in Int
  BY <1>1 DEF SumsUp
<1> QED
  BY <1>1, <1>3, <1>8, <1>9

-----------------------------------------------------------------------------
(* Signals and their bands *)

(* The fields of a signal, and what a decision accepts of them.            *)
IsSignal(s) ==
  /\ s = [horizon |-> s.horizon, direction |-> s.direction, score |-> s.score,
          strength |-> s.strength, confidence |-> s.confidence,
          volatility |-> s.volatility, manipulation |-> s.manipulation]
  /\ SignalAccepted(s)
Signalled(m) ==
  IsSeq(m) /\ Len(m) \in 1..8 /\ \A i \in DOMAIN m : IsSignal(m[i])

LEMMA SignalledFacts ==
  ASSUME NEW m, Signalled(m)
  PROVE  /\ Len(m) \in Nat /\ Len(m) > 0 /\ Len(m) <= 8 /\ DOMAIN m = 1..Len(m)
         /\ IsFiniteSet(DOMAIN m) /\ DOMAIN m \subseteq 1..8
         /\ m # << >> /\ Last(m) = m[Len(m)] /\ Len(m) \in DOMAIN m
<1>1. Len(m) \in Nat /\ DOMAIN m = 1..Len(m) /\ (m = << >> <=> Len(m) = 0) /\ Len(m) \in 1..8
  BY SeqFacts DEF Signalled
<1>2. Len(m) > 0 /\ Len(m) <= 8
  BY <1>1
<1>3. IsFiniteSet(1..Len(m))
  BY <1>1, FS_Interval
<1> QED
  BY <1>1, <1>2, <1>3 DEF Last

(* What is kept of a list, and of another list with the same positions.    *)
LEMMA KeptPositions ==
  ASSUME NEW m, IsSeq(m), NEW at, at \subseteq DOMAIN m
  PROVE  /\ IsFiniteSet(at) /\ Sorted(at) \in Seq(at) /\ Range(Sorted(at)) = at
         /\ Len(Sorted(at)) = Cardinality(at) /\ Cardinality(at) \in Nat
         /\ Cardinality(at) <= Len(m)
         /\ DOMAIN Sorted(at) = 1..Cardinality(at)
         /\ \A k \in DOMAIN Sorted(at) : Sorted(at)[k] \in at
<1>1. Len(m) \in Nat /\ DOMAIN m = 1..Len(m)
  BY SeqFacts
<1>2. IsFiniteSet(1..Len(m)) /\ Cardinality(1..Len(m)) = Len(m)
  <2>1. /\ IsFiniteSet(1..Len(m))
        /\ Cardinality(1..Len(m)) = IF 1 > Len(m) THEN 0 ELSE Len(m) - 1 + 1
    BY <1>1, FS_Interval
  <2> QED
    BY <1>1, <2>1
<1>3. IsFiniteSet(at) /\ Cardinality(at) <= Len(m) /\ at \subseteq Int
  <2> DEFINE all == 1..Len(m)
  <2>1. at \in SUBSET all /\ all \subseteq Int
    BY <1>1
  <2> HIDE DEF all
  <2> QED
    BY <1>2, <2>1, FS_Subset DEF all
<1>4. Cardinality(at) \in Nat
  BY <1>3, FS_CardinalityType
<1>5. /\ Sorted(at) \in Seq(at) /\ Len(Sorted(at)) = Cardinality(at)
      /\ DOMAIN Sorted(at) = 1..Cardinality(at) /\ Range(Sorted(at)) = at
  BY <1>3, SortedFacts
<1>6. \A k \in DOMAIN Sorted(at) : Sorted(at)[k] \in at
  BY <1>5 DEF Range
<1> QED
  BY <1>3, <1>4, <1>5, <1>6

(* The kept part of a list of signals is one, unless nothing is kept.      *)
KeptOf(m, at, G) ==
  /\ IsSeq(G) /\ Len(G) = Cardinality(at) /\ Len(G) \in Nat /\ DOMAIN G = 1..Len(G)
  /\ Len(G) <= Len(m)
  /\ \A k \in DOMAIN G : \E i \in at : G[k] = m[i]
  /\ \A i \in at : \E k \in DOMAIN G : G[k] = m[i]

LEMMA KeptMembers ==
  ASSUME NEW m, IsSeq(m), NEW at, at \subseteq DOMAIN m
  PROVE  KeptOf(m, at, Kept(m, at))
<1> DEFINE G == Kept(m, at)
           o == Sorted(at)
           n == Cardinality(at)
<1>1. /\ Range(o) = at /\ DOMAIN o = 1..n /\ n \in Nat /\ n <= Len(m)
      /\ \A k \in DOMAIN o : o[k] \in at
  BY KeptPositions
<1>2. G = [k \in DOMAIN o |-> m[o[k]]]
  BY DEF Kept
<1> HIDE DEF G, o, n
<1>3. DOMAIN G = 1..n /\ \A k \in 1..n : G[k] = m[o[k]]
  BY <1>1, <1>2
<1>4. G \in [1..n -> Range(G)]
  BY <1>1, <1>2 DEF Range
<1>5. IsSeq(G) /\ Len(G) = n
  <2>1. G \in Seq(Range(G))
    BY <1>1, <1>4, SeqDef
  <2> QED
    BY <1>1, <1>3, <2>1, LenProperties DEF IsSeq
<1>6. ASSUME NEW i \in at PROVE \E k \in DOMAIN G : G[k] = m[i]
  <2>1. PICK k \in DOMAIN o : o[k] = i
    BY <1>1 DEF Range
  <2> QED
    BY <1>1, <1>3, <2>1
<1>7. \A k \in DOMAIN G : \E i \in at : G[k] = m[i]
  BY <1>1, <1>3
<1> QED
  BY <1>1, <1>3, <1>5, <1>6, <1>7 DEF KeptOf, G, n

LEMMA UpToEight ==
  ASSUME NEW n \in Nat, NEW k \in Nat, n <= k, k <= 8, n # 0
  PROVE  n \in 1..8
OBVIOUS

(* The signals of a band.                                                  *)
GroupOf(S, b, G) ==
  /\ G # << >> => Signalled(G)
  /\ \A k \in DOMAIN G : \E i \in DOMAIN S : G[k] = S[i] /\ BandOf(S[i].horizon) = b
  /\ \A i \in DOMAIN S : BandOf(S[i].horizon) = b => \E k \in DOMAIN G : G[k] = S[i]
  /\ G = << >> => DOMAIN G = {}

LEMMA GroupFacts ==
  ASSUME NEW S, Signalled(S), NEW b
  PROVE  GroupOf(S, b, Group(S, b))
<1> DEFINE at == {i \in DOMAIN S : BandOf(S[i].horizon) = b}
           G == Group(S, b)
<1>1. IsSeq(S) /\ Len(S) \in 1..8 /\ \A i \in DOMAIN S : IsSignal(S[i])
  BY DEF Signalled
<1>2. G = Kept(S, at)
  BY DEF Group
<1>3. KeptOf(S, at, G)
  BY <1>1, <1>2, KeptMembers
<1>4. (G = << >> <=> Len(G) = 0) /\ DOMAIN G = 1..Len(G) /\ IsSeq(G)
  BY <1>3, SeqFacts DEF KeptOf
<1>5. G # << >> => Len(G) \in 1..8
  <2>1. Len(G) \in Nat /\ Len(G) <= Len(S)
    BY <1>3 DEF KeptOf
  <2>2. Len(S) \in Nat /\ Len(S) <= 8
    BY SignalledFacts
  <2>3. G # << >> => Len(G) # 0
    BY <1>4
  <2> HIDE DEF G
  <2>4. Len(G) # 0 => Len(G) \in 1..8
    BY <2>1, <2>2, UpToEight
  <2> QED
    BY <2>3, <2>4
<1>6. \A k \in DOMAIN G : IsSignal(G[k])
  BY <1>1, <1>3 DEF KeptOf
<1>7. G # << >> => Signalled(G)
  BY <1>4, <1>5, <1>6 DEF Signalled
<1>8. \A k \in DOMAIN G : \E i \in DOMAIN S : G[k] = S[i] /\ BandOf(S[i].horizon) = b
  BY <1>3 DEF KeptOf
<1>9. \A i \in DOMAIN S : BandOf(S[i].horizon) = b => \E k \in DOMAIN G : G[k] = S[i]
  BY <1>3 DEF KeptOf
<1> HIDE DEF G
<1>10. G = << >> => DOMAIN G = {}
  BY <1>4
<1> QED
  BY <1>7, <1>8, <1>9, <1>10 DEF GroupOf, G

LEMMA BandOfIsBand == ASSUME NEW h PROVE BandOf(h) \in Bands
BY DEF BandOf, Bands

(* The bands that have signals, and their decisions.                       *)
BandsOf(S, B) ==
  /\ IsSeq(B) /\ Len(B) \in 1..3 /\ DOMAIN B = 1..Len(B)
  /\ \A k \in DOMAIN B : \E b \in Bands :
       Group(S, b) # << >> /\ B[k] = BandDecision(b, Group(S, b))
  /\ \A b \in Bands : Group(S, b) # << >> =>
       \E k \in DOMAIN B : B[k] = BandDecision(b, Group(S, b))

LEMMA PresentFacts ==
  ASSUME NEW S, Signalled(S)
  PROVE  /\ IsSeq(Present(S)) /\ Len(Present(S)) \in 1..3
         /\ DOMAIN Present(S) = 1..Len(Present(S))
         /\ \A k \in DOMAIN Present(S) :
              Present(S)[k] \in Bands /\ Group(S, Present(S)[k]) # << >>
         /\ \A b \in Bands : Group(S, b) # << >> => \E k \in DOMAIN Present(S) : Present(S)[k] = b
<1> DEFINE at == {k \in 1..3 : Group(S, BandOrder[k]) # << >>}
           P == Present(S)
<1>1. /\ BandOrder \in Seq(Range(BandOrder)) /\ Len(BandOrder) = 3 /\ DOMAIN BandOrder = 1..3
      /\ \A k \in 1..3 : BandOrder[k] \in Bands
      /\ \A b \in Bands : \E k \in 1..3 : BandOrder[k] = b
  <2>1. BandOrder \in Seq(Bands)
    BY DEF BandOrder, Bands
  <2>2. Len(BandOrder) = 3 /\ DOMAIN BandOrder = 1..3
    BY DEF BandOrder
  <2>3. BandOrder[1] = "short" /\ BandOrder[2] = "medium" /\ BandOrder[3] = "long"
    BY DEF BandOrder
  <2>4. Range(BandOrder) = Bands
    BY <2>2, <2>3 DEF Range, Bands
  <2> QED
    BY <2>1, <2>2, <2>3, <2>4 DEF Bands
<1>2. P = Kept(BandOrder, at) /\ at \subseteq DOMAIN BandOrder /\ IsSeq(BandOrder)
  BY <1>1 DEF Present, IsSeq
<1>3. KeptOf(BandOrder, at, P)
  BY <1>2, KeptMembers
<1> HIDE DEF P
<1>4. \A k \in DOMAIN P : P[k] \in Bands /\ Group(S, P[k]) # << >>
  <2> TAKE k \in DOMAIN P
  <2>1. PICK i \in at : P[k] = BandOrder[i]
    BY <1>3 DEF KeptOf
  <2> QED
    BY <1>1, <2>1
<1>5. ASSUME NEW b \in Bands, Group(S, b) # << >> PROVE \E k \in DOMAIN P : P[k] = b
  <2>1. PICK i \in 1..3 : BandOrder[i] = b
    BY <1>1
  <2>2. i \in at
    BY <1>5, <2>1
  <2> QED
    BY <1>3, <2>1, <2>2 DEF KeptOf
<1>6. \E b \in Bands : Group(S, b) # << >>
  <2>1. 1 \in DOMAIN S
    BY SignalledFacts
  <2> DEFINE b == BandOf(S[1].horizon)
  <2>2. b \in Bands
    BY BandOfIsBand
  <2>3. GroupOf(S, b, Group(S, b))
    BY GroupFacts
  <2>4. \E k \in DOMAIN Group(S, b) : Group(S, b)[k] = S[1]
    BY <2>1, <2>3 DEF GroupOf
  <2>5. Group(S, b) # << >>
    BY <2>3, <2>4 DEF GroupOf
  <2> QED
    BY <2>2, <2>5
<1>7. IsSeq(P) /\ Len(P) \in Nat /\ Len(P) <= 3 /\ DOMAIN P = 1..Len(P)
  BY <1>1, <1>3 DEF KeptOf
<1>8. Len(P) \in 1..3
  <2>1. DOMAIN P # {}
    BY <1>5, <1>6
  <2> QED
    BY <1>7, <2>1
<1> QED
  BY <1>4, <1>5, <1>7, <1>8 DEF P

LEMMA BandsFacts ==
  ASSUME NEW S, Signalled(S)
  PROVE  BandsOf(S, BandDecisions(S))
<1> DEFINE P == Present(S)
           B == BandDecisions(S)
<1>1. /\ IsSeq(P) /\ Len(P) \in 1..3 /\ DOMAIN P = 1..Len(P)
      /\ \A k \in DOMAIN P : P[k] \in Bands /\ Group(S, P[k]) # << >>
      /\ \A b \in Bands : Group(S, b) # << >> => \E k \in DOMAIN P : P[k] = b
  BY PresentFacts
<1>2. B = [i \in DOMAIN P |-> BandDecision(P[i], Group(S, P[i]))]
  BY DEF BandDecisions
<1> HIDE DEF P, B
<1>3. DOMAIN B = 1..Len(P) /\ \A k \in 1..Len(P) : B[k] = BandDecision(P[k], Group(S, P[k]))
  BY <1>1, <1>2
<1>4. IsSeq(B) /\ Len(B) = Len(P)
  <2>1. Len(P) \in Nat
    BY <1>1
  <2>2. B \in [1..Len(P) -> Range(B)]
    BY <1>2, <1>3 DEF Range
  <2>3. B \in Seq(Range(B))
    BY <2>1, <2>2, SeqDef
  <2> QED
    BY <1>3, <2>1, <2>3, LenProperties DEF IsSeq
<1>5. \A k \in DOMAIN B : \E b \in Bands :
        Group(S, b) # << >> /\ B[k] = BandDecision(b, Group(S, b))
  BY <1>1, <1>3
<1>6. \A b \in Bands : Group(S, b) # << >> =>
        \E k \in DOMAIN B : B[k] = BandDecision(b, Group(S, b))
  BY <1>1, <1>3
<1> QED
  BY <1>1, <1>3, <1>4, <1>5, <1>6 DEF BandsOf, B

-----------------------------------------------------------------------------
(* Directions *)

(* Which side the confident ones are on, unless they disagree.             *)
Verdict(sides, conflicted) ==
  IF sides = Directional \/ conflicted THEN "conflict"
  ELSE IF sides = {"bullish"} THEN "bullish"
  ELSE IF sides = {"bearish"} THEN "bearish"
  ELSE "neutral"

LEMMA Sides ==
  ASSUME NEW D, D \subseteq Directional
  PROVE  /\ D = {} \/ D = {"bullish"} \/ D = {"bearish"} \/ D = Directional
         /\ Cardinality(D) > 1 <=> D = Directional
         /\ Cardinality(D) = 1 <=> D = {"bullish"} \/ D = {"bearish"}
<1>1. D = {} \/ D = {"bullish"} \/ D = {"bearish"} \/ D = Directional
  BY DEF Directional
<1>2. /\ Cardinality({}) = 0
      /\ Cardinality({"bullish"}) = 1 /\ Cardinality({"bearish"}) = 1
  BY FS_EmptySet, FS_Singleton
<1>3. Cardinality(Directional) = 2
  <2>1. Directional = {"bullish"} \cup {"bearish"} /\ "bearish" \notin {"bullish"}
    BY DEF Directional
  <2>2. Cardinality({"bullish"} \cup {"bearish"}) = Cardinality({"bullish"}) + 1
    BY <2>1, FS_Singleton, FS_AddElement
  <2> QED
    BY <1>2, <2>1, <2>2
<1>4. Directional # {} /\ Directional # {"bullish"} /\ Directional # {"bearish"}
      /\ {"bullish"} # {"bearish"}
  BY DEF Directional
<1> QED
  BY <1>1, <1>2, <1>3, <1>4

LEMMA SidesAreDirections ==
  ASSUME NEW m
  PROVE  /\ QualifiedDirections(m) \subseteq Directional
         /\ DistinctDirections(m) \subseteq Directional
BY DEF QualifiedDirections, QualifiedIn, Qualified, DistinctDirections, DirectionalBands

BandConflicted(m) ==
  \/ MaterialConflict(Last(m))
  \/ QualifiedDirections(m) = {} /\ SomeMaterialConflict(m)

LEMMA BandVerdict ==
  ASSUME NEW m
  PROVE  BandDirection(m) = Verdict(QualifiedDirections(m), BandConflicted(m))
<1> DEFINE D == QualifiedDirections(m)
           last == MaterialConflict(Last(m))
           some == SomeMaterialConflict(m)
<1>1. /\ D = {} \/ D = {"bullish"} \/ D = {"bearish"} \/ D = Directional
      /\ Cardinality(D) > 1 <=> D = Directional
      /\ Cardinality(D) = 1 <=> D = {"bullish"} \/ D = {"bearish"}
  BY SidesAreDirections, Sides
<1>2. BandDirection(m) =
        IF Cardinality(D) > 1 \/ last THEN "conflict"
        ELSE IF D # {} THEN CHOOSE d \in D : TRUE
        ELSE IF some THEN "conflict" ELSE "neutral"
  BY DEF BandDirection
<1>3. Verdict(D, BandConflicted(m)) =
        IF D = Directional \/ (last \/ (D = {} /\ some)) THEN "conflict"
        ELSE IF D = {"bullish"} THEN "bullish"
        ELSE IF D = {"bearish"} THEN "bearish"
        ELSE "neutral"
  BY DEF Verdict, BandConflicted
<1>4. Directional # {} /\ Directional # {"bullish"} /\ Directional # {"bearish"}
      /\ {"bullish"} # {"bearish"}
  BY DEF Directional
<1>5. (CHOOSE d \in {"bullish"} : TRUE) = "bullish" /\ (CHOOSE d \in {"bearish"} : TRUE) = "bearish"
  OBVIOUS
<1> HIDE DEF D, last, some
<1>6. ASSUME D = Directional \/ last
      PROVE  BandDirection(m) = Verdict(D, BandConflicted(m))
  BY <1>1, <1>2, <1>3, <1>6
<1>7. ASSUME D # Directional /\ ~last /\ D = {"bullish"}
      PROVE  BandDirection(m) = Verdict(D, BandConflicted(m))
  BY <1>1, <1>2, <1>3, <1>4, <1>5, <1>7
<1>8. ASSUME D # Directional /\ ~last /\ D = {"bearish"}
      PROVE  BandDirection(m) = Verdict(D, BandConflicted(m))
  BY <1>1, <1>2, <1>3, <1>4, <1>5, <1>8
<1>9. ASSUME D # Directional /\ ~last /\ D = {}
      PROVE  BandDirection(m) = Verdict(D, BandConflicted(m))
  BY <1>1, <1>2, <1>3, <1>4, <1>9
<1> QED
  BY <1>1, <1>6, <1>7, <1>8, <1>9 DEF D

LEMMA ConclusionVerdict ==
  ASSUME NEW B
  PROVE  ConclusionDirection(B) = Verdict(DistinctDirections(B), SomeBandConflict(B))
<1> DEFINE D == DistinctDirections(B)
           some == SomeBandConflict(B)
<1>1. /\ D = {} \/ D = {"bullish"} \/ D = {"bearish"} \/ D = Directional
      /\ Cardinality(D) > 1 <=> D = Directional
      /\ Cardinality(D) = 1 <=> D = {"bullish"} \/ D = {"bearish"}
  BY SidesAreDirections, Sides
<1>2. ConclusionDirection(B) =
        IF Cardinality(D) > 1 \/ some THEN "conflict"
        ELSE IF D # {} THEN CHOOSE d \in D : TRUE
        ELSE "neutral"
  BY DEF ConclusionDirection
<1>3. Verdict(D, some) =
        IF D = Directional \/ some THEN "conflict"
        ELSE IF D = {"bullish"} THEN "bullish"
        ELSE IF D = {"bearish"} THEN "bearish"
        ELSE "neutral"
  BY DEF Verdict
<1>4. Directional # {} /\ Directional # {"bullish"} /\ Directional # {"bearish"}
      /\ {"bullish"} # {"bearish"}
  BY DEF Directional
<1>5. (CHOOSE d \in {"bullish"} : TRUE) = "bullish" /\ (CHOOSE d \in {"bearish"} : TRUE) = "bearish"
  OBVIOUS
<1> HIDE DEF D, some
<1>6. ASSUME D = Directional \/ some
      PROVE  ConclusionDirection(B) = Verdict(D, some)
  BY <1>1, <1>2, <1>3, <1>6
<1>7. ASSUME D # Directional /\ ~some /\ D = {"bullish"}
      PROVE  ConclusionDirection(B) = Verdict(D, some)
  BY <1>1, <1>2, <1>3, <1>4, <1>5, <1>7
<1>8. ASSUME D # Directional /\ ~some /\ D = {"bearish"}
      PROVE  ConclusionDirection(B) = Verdict(D, some)
  BY <1>1, <1>2, <1>3, <1>4, <1>5, <1>8
<1>9. ASSUME D # Directional /\ ~some /\ D = {}
      PROVE  ConclusionDirection(B) = Verdict(D, some)
  BY <1>1, <1>2, <1>3, <1>4, <1>9
<1> QED
  BY <1>1, <1>6, <1>7, <1>8, <1>9 DEF D, some

LEMMA VerdictFacts ==
  ASSUME NEW D, D \subseteq Directional, NEW c
  PROVE  /\ Verdict(D, c) \in Directional => Verdict(D, c) \in D /\ D # Directional
         /\ D # Directional /\ ~c => Verdict(D, c) \in D \cup (IF D = {} THEN {"neutral"} ELSE {})
         /\ D # Directional /\ ~c => Verdict(D, c) # "conflict"
         /\ D = Directional \/ c => Verdict(D, c) = "conflict"
         /\ \A d \in D : Verdict(D, c) \in {d, "conflict"}
<1>1. D = {} \/ D = {"bullish"} \/ D = {"bearish"} \/ D = Directional
  BY Sides
<1>2. Directional # {} /\ Directional # {"bullish"} /\ Directional # {"bearish"}
  BY DEF Directional
<1>3. CASE D = Directional \/ c
  <2>1. Verdict(D, c) = "conflict" /\ "conflict" \notin Directional
    BY <1>3 DEF Verdict, Directional
  <2> QED
    BY <1>3, <2>1
<1>4. CASE D # Directional /\ ~c
  <2>1. CASE D = {}
    BY <1>4, <2>1 DEF Verdict, Directional
  <2>2. CASE D = {"bullish"}
    BY <1>4, <2>2 DEF Verdict, Directional
  <2>3. CASE D = {"bearish"}
    BY <1>4, <2>3 DEF Verdict, Directional
  <2> QED
    BY <1>1, <1>4, <2>1, <2>2, <2>3
<1> QED
  BY <1>3, <1>4

(* How the sides of the signals reach the bands.                           *)
Spread(S, B) ==
  /\ \A d \in QualifiedDirections(S) : \E k \in DOMAIN B : B[k].direction \in {d, "conflict"}
  /\ DistinctDirections(B) \subseteq QualifiedDirections(S)
  /\ QualifiedDirections(S) # Directional /\ ~SomeMaterialConflict(S) => ~SomeBandConflict(B)

LEMMA BandDirectionIs ==
  ASSUME NEW b, NEW m
  PROVE  BandDecision(b, m).direction = Verdict(QualifiedDirections(m), BandConflicted(m))
<1>1. BandDecision(b, m).direction = BandDirection(m)
  BY DEF BandDecision, BandConclusion
<1> QED
  BY <1>1, BandVerdict

LEMMA SidesSpread ==
  ASSUME NEW S, Signalled(S), NEW B, BandsOf(S, B)
  PROVE  Spread(S, B)
<1> DEFINE Q == QualifiedDirections(S)
<1>1. ASSUME NEW b \in Bands, Group(S, b) # << >>
      PROVE  /\ QualifiedDirections(Group(S, b)) \subseteq Q
             /\ SomeMaterialConflict(Group(S, b)) => SomeMaterialConflict(S)
             /\ BandConflicted(Group(S, b)) => SomeMaterialConflict(S)
  <2> DEFINE G == Group(S, b)
  <2>1. \A k \in DOMAIN G : \E i \in DOMAIN S : G[k] = S[i]
    BY GroupFacts DEF GroupOf
  <2>2. Signalled(G)
    BY <1>1, GroupFacts DEF GroupOf
  <2> HIDE DEF G
  <2>3. Last(G) = G[Len(G)] /\ Len(G) \in DOMAIN G
    BY <2>2, SignalledFacts
  <2>4. QualifiedDirections(G) \subseteq Q
    BY <2>1 DEF QualifiedDirections, QualifiedIn
  <2>5. SomeMaterialConflict(G) => SomeMaterialConflict(S)
    BY <2>1 DEF SomeMaterialConflict
  <2>6. MaterialConflict(Last(G)) => SomeMaterialConflict(G)
    BY <2>3 DEF SomeMaterialConflict
  <2> QED
    BY <2>4, <2>5, <2>6 DEF BandConflicted, G
<1>2. ASSUME NEW d \in Q PROVE \E k \in DOMAIN B : B[k].direction \in {d, "conflict"}
  <2>1. PICK i \in DOMAIN S : Qualified(S[i]) /\ S[i].direction = d
    BY DEF QualifiedDirections, QualifiedIn
  <2> DEFINE b == BandOf(S[i].horizon)
             G == Group(S, b)
  <2>2. b \in Bands
    BY BandOfIsBand
  <2>3. GroupOf(S, b, G)
    BY GroupFacts
  <2>4. PICK j \in DOMAIN G : G[j] = S[i]
    <3> HIDE DEF G
    <3> QED
      BY <2>3 DEF GroupOf, b
  <2>5. G # << >>
    BY <2>3, <2>4 DEF GroupOf
  <2>6. PICK k \in DOMAIN B : B[k] = BandDecision(b, G)
    <3> HIDE DEF b
    <3> QED
      BY <2>2, <2>5 DEF BandsOf
  <2> HIDE DEF G, b
  <2>7. d \in QualifiedDirections(G)
    <3>1. j \in QualifiedIn(G) /\ G[j].direction = d
      BY <2>1, <2>4 DEF QualifiedIn
    <3> QED
      BY <3>1 DEF QualifiedDirections
  <2>8. B[k].direction = Verdict(QualifiedDirections(G), BandConflicted(G))
    BY <2>6, BandDirectionIs
  <2> QED
    BY <2>7, <2>8, SidesAreDirections, VerdictFacts
<1>3. ASSUME NEW k \in DOMAIN B
      PROVE  /\ B[k].direction \in Directional => B[k].direction \in Q
             /\ Q # Directional /\ ~SomeMaterialConflict(S) => B[k].direction # "conflict"
  <2>1. PICK b \in Bands : Group(S, b) # << >> /\ B[k] = BandDecision(b, Group(S, b))
    BY DEF BandsOf
  <2>2. PICK G : G = Group(S, b)
    OBVIOUS
  <2>3. /\ QualifiedDirections(G) \subseteq Q
        /\ BandConflicted(G) => SomeMaterialConflict(S)
    BY <1>1, <2>1, <2>2
  <2>4. B[k].direction = Verdict(QualifiedDirections(G), BandConflicted(G))
    BY <2>1, <2>2, BandDirectionIs
  <2>5. Q \subseteq Directional /\ QualifiedDirections(G) \subseteq Directional
    BY SidesAreDirections
  <2> HIDE DEF Q
  <2>6. Q # Directional => QualifiedDirections(G) # Directional
    BY <2>3, <2>5
  <2> QED
    BY <2>3, <2>4, <2>5, <2>6, VerdictFacts
<1>4. DistinctDirections(B) \subseteq Q
  <2>1. \A d \in DistinctDirections(B) :
          \E k \in DOMAIN B : B[k].direction \in Directional /\ d = B[k].direction
    BY DEF DistinctDirections, DirectionalBands
  <2> HIDE DEF Q
  <2> QED
    BY <1>3, <2>1
<1>5. Q # Directional /\ ~SomeMaterialConflict(S) => ~SomeBandConflict(B)
  BY <1>3 DEF SomeBandConflict
<1> QED
  BY <1>2, <1>4, <1>5 DEF Spread

(* A disagreement is a conflict, and where nothing is one nobody makes one.*)
LEMMA DisagreementIsConflict ==
  ASSUME NEW S, NEW B, Spread(S, B)
  PROVE  LET Q == QualifiedDirections(S)
             d == ConclusionDirection(B)
         IN /\ Cardinality(Q) > 1 => d = "conflict"
            /\ ~SomeMaterialConflict(S) /\ Cardinality(Q) <= 1 =>
                 d \in Q \cup (IF Q = {} THEN {"neutral"} ELSE {})
<1> DEFINE Q == QualifiedDirections(S)
           D == DistinctDirections(B)
<1>1. /\ Q \subseteq Directional /\ D \subseteq Q
      /\ \A e \in Q : \E k \in DOMAIN B : B[k].direction \in {e, "conflict"}
      /\ Q # Directional /\ ~SomeMaterialConflict(S) => ~SomeBandConflict(B)
  BY SidesAreDirections DEF Spread
<1>2. Cardinality(Q) > 1 <=> Q = Directional
  BY SidesAreDirections, Sides
<1>3. Cardinality(Q) <= 1 => ~(Cardinality(Q) > 1)
  <2>1. Q = {} \/ Q = {"bullish"} \/ Q = {"bearish"} \/ Q = Directional
    BY SidesAreDirections, Sides
  <2>2. IsFiniteSet(Q)
    <3>1. IsFiniteSet(Directional)
      <4>1. Directional = {"bullish"} \cup {"bearish"} /\ IsFiniteSet({"bullish"})
        BY FS_Singleton DEF Directional
      <4> QED
        BY <4>1, FS_AddElement
    <3> QED
      BY <1>1, <3>1, FS_Subset
  <2>3. Cardinality(Q) \in Nat
    BY <2>2, FS_CardinalityType
  <2> QED
    BY <2>3
<1>4. ConclusionDirection(B) = Verdict(D, SomeBandConflict(B))
  BY ConclusionVerdict
<1>5. ASSUME NEW e \in Q, ~SomeBandConflict(B) PROVE e \in D
  <2>1. PICK k \in DOMAIN B : B[k].direction \in {e, "conflict"}
    BY <1>1
  <2>2. B[k].direction = e /\ e \in Directional
    BY <1>1, <1>5, <2>1 DEF SomeBandConflict
  <2> QED
    BY <2>2 DEF DistinctDirections, DirectionalBands
<1> HIDE DEF Q, D
<1>6. Cardinality(Q) > 1 => ConclusionDirection(B) = "conflict"
  <2>1. Q = Directional => D = Directional \/ SomeBandConflict(B)
    BY <1>1, <1>5
  <2> QED
    BY <1>1, <1>2, <1>4, <2>1, VerdictFacts
<1>7. ASSUME ~SomeMaterialConflict(S), Cardinality(Q) <= 1
      PROVE  ConclusionDirection(B) \in Q \cup (IF Q = {} THEN {"neutral"} ELSE {})
  <2>1. ~SomeBandConflict(B) /\ Q # Directional
    BY <1>1, <1>2, <1>3, <1>7
  <2>2. D = Q
    BY <1>1, <1>5, <2>1
  <2> QED
    BY <1>1, <1>4, <2>1, <2>2, VerdictFacts
<1> QED
  BY <1>6, <1>7 DEF Q

-----------------------------------------------------------------------------
(* Conflicts that surface, and agreement                                   *)

(* A band ends with the last of its signals.                               *)
LEMMA LastOfGroup ==
  ASSUME NEW S, Signalled(S), NEW i \in DOMAIN S, NEW b, b = BandOf(S[i].horizon),
         \A j \in DOMAIN S : BandOf(S[j].horizon) = b => j <= i
  PROVE  Last(Group(S, b)) = S[i]
<1> DEFINE at == {j \in DOMAIN S : BandOf(S[j].horizon) = b}
           o == Sorted(at)
           n == Cardinality(at)
           G == Group(S, b)
<1>1. IsSeq(S) /\ at \subseteq DOMAIN S /\ DOMAIN S = 1..Len(S) /\ Len(S) \in Nat
  BY SignalledFacts DEF Signalled
<1>2. /\ IsFiniteSet(at) /\ n \in Nat /\ DOMAIN o = 1..n
      /\ \A k \in DOMAIN o : o[k] \in at
  BY <1>1, KeptPositions
<1>3. i \in at /\ at \subseteq Int /\ \A j \in at : j <= i
  BY <1>1
<1>4. Len(G) = n /\ DOMAIN G = 1..n /\ \A k \in 1..n : G[k] = S[o[k]]
  <2>1. G = Kept(S, at)
    BY DEF Group
  <2>2. KeptOf(S, at, Kept(S, at))
    BY <1>1, KeptMembers
  <2>3. Kept(S, at) = [k \in DOMAIN o |-> S[o[k]]]
    BY DEF Kept
  <2> HIDE DEF at, o, n, G
  <2>4. G = [k \in 1..n |-> S[o[k]]]
    BY <1>2, <2>1, <2>3
  <2> QED
    BY <2>1, <2>2, <2>4 DEF KeptOf, n
<1>5. n \in 1..n /\ o[n] = i
  <2>1. {y \in at : y < i} = at \ {i}
    <3> HIDE DEF at
    <3> QED
      BY <1>3
  <2>2. Cardinality(at \ {i}) = n - 1
    BY <1>2, <1>3, FS_RemoveElement
  <2>3. n # 0
    BY <1>2, <1>3, FS_EmptySet
  <2>4. n \in 1..n
    BY <1>2, <2>3
  <2>5. \A x \in at : x = Sorted(at)[n] <=> Cardinality({y \in at : y < x}) = n - 1
    <3>1. PICK k \in 1..Cardinality(at) : k = n
      BY <2>4
    <3> HIDE DEF at
    <3> QED
      BY <1>2, <1>3, <3>1, SortedAt
  <2> QED
    BY <1>3, <2>1, <2>2, <2>4, <2>5
<1>6. Last(G) = G[Len(G)]
  BY DEF Last
<1> HIDE DEF G, o, n
<1> QED
  BY <1>4, <1>5, <1>6 DEF G

(* A conflict that its own band cannot outvote is a conflict of the band.  *)
LEMMA ConflictReachesBand ==
  ASSUME NEW S, Signalled(S), NEW B, BandsOf(S, B),
         NEW i \in DOMAIN S, MaterialConflict(S[i]),
         NEW F, F = {j \in DOMAIN S : BandOf(S[j].horizon) = BandOf(S[i].horizon)},
         (\A j \in F : j <= i) \/ (\A j \in F : ~Qualified(S[j]))
  PROVE  SomeBandConflict(B)
<1>1. PICK b, G : b = BandOf(S[i].horizon) /\ G = Group(S, b)
  OBVIOUS
<1>2. b \in Bands /\ GroupOf(S, b, G)
  BY <1>1, BandOfIsBand, GroupFacts
<1>3. PICK k \in DOMAIN G : G[k] = S[i]
  BY <1>1, <1>2 DEF GroupOf
<1>4. G # << >>
  BY <1>2, <1>3 DEF GroupOf
<1>5. PICK at \in DOMAIN B : B[at] = BandDecision(b, G)
  BY <1>1, <1>2, <1>4 DEF BandsOf
<1>6. BandConflicted(G)
  <2>1. CASE \A j \in F : j <= i
    <3>1. Last(G) = S[i]
      BY <1>1, <2>1, LastOfGroup
    <3> QED
      BY <3>1 DEF BandConflicted
  <2>2. CASE \A j \in F : ~Qualified(S[j])
    <3>1. \A m \in DOMAIN G : ~Qualified(G[m])
      BY <1>1, <1>2, <2>2 DEF GroupOf
    <3>2. QualifiedDirections(G) = {}
      BY <3>1 DEF QualifiedDirections, QualifiedIn
    <3> QED
      BY <1>3, <3>2 DEF BandConflicted, SomeMaterialConflict
  <2> QED
    BY <2>1, <2>2
<1>7. B[at].direction = "conflict"
  BY <1>5, <1>6, BandDirectionIs, SidesAreDirections, VerdictFacts
<1> QED
  BY <1>7 DEF SomeBandConflict

\* The three places of the band order are finitely many.
LEMMA ThreeAreFinite == IsFiniteSet(1..3)
<1>1. \A m \in Nat : IsFiniteSet(1..m)
  <2> SUFFICES ASSUME NEW m \in Nat PROVE IsFiniteSet(1..m)
    OBVIOUS
  <2>1. 1 \in Int /\ m \in Int
    OBVIOUS
  <2> QED
    BY <2>1, FS_Interval
<1> QED
  BY <1>1

LEMMA TwoBands ==
  ASSUME NEW S, Signalled(S), Len(BandDecisions(S)) >= 2
  PROVE  \E i, j \in DOMAIN S : BandOf(S[i].horizon) # BandOf(S[j].horizon)
<1> DEFINE at == {k \in 1..3 : Group(S, BandOrder[k]) # << >>}
           o == Sorted(at)
           n == Cardinality(at)
           P == Present(S)
<1>1. IsFiniteSet(1..3) /\ at \in SUBSET (1..3) /\ at \subseteq Int
  <2>1. at \subseteq 1..3
    OBVIOUS
  <2> HIDE DEF at
  <2> QED
    BY <2>1, ThreeAreFinite
<1>2. IsFiniteSet(at) /\ n \in Nat
  <2> DEFINE all == 1..3
  <2>1. IsFiniteSet(all) /\ at \in SUBSET all
    BY <1>1
  <2> HIDE DEF all, at
  <2>2. IsFiniteSet(at)
    BY <2>1, FS_Subset
  <2> QED
    BY <2>2, FS_CardinalityType
<1>3. /\ DOMAIN o = 1..n /\ Range(o) = at
      /\ \A k, l \in 1..n : o[k] = o[l] => k = l
  BY <1>1, <1>2, SortedFacts
<1>4. P = [k \in DOMAIN o |-> BandOrder[o[k]]]
  BY DEF Present, Kept
<1>5. IsSeq(P) /\ Len(P) \in 1..3 /\ DOMAIN P = 1..Len(P)
  BY PresentFacts
<1>6. Len(BandDecisions(S)) = Len(P)
  <2>1. BandDecisions(S) = [k \in DOMAIN P |-> BandDecision(P[k], Group(S, P[k]))]
    BY DEF BandDecisions
  <2>2. BandsOf(S, BandDecisions(S))
    BY BandsFacts
  <2>3. DOMAIN BandDecisions(S) = 1..Len(BandDecisions(S)) /\ Len(BandDecisions(S)) \in 1..3
    BY <2>2 DEF BandsOf
  <2> HIDE DEF P
  <2>4. PICK l, m : l = Len(BandDecisions(S)) /\ m = Len(P)
    OBVIOUS
  <2>5. 1..l = 1..m
    BY <1>5, <2>1, <2>3, <2>4
  <2>6. l \in 1..3 /\ m \in 1..3
    BY <1>5, <2>3, <2>4
  <2>7. l = m
    BY <2>5, <2>6
  <2> QED
    BY <2>4, <2>7
<1> HIDE DEF P, o, n
<1>7. {1, 2} \subseteq DOMAIN o
  BY <1>4, <1>5, <1>6
<1>8. o[1] \in at /\ o[2] \in at /\ o[1] # o[2]
  BY <1>3, <1>7 DEF Range
<1>9. ASSUME NEW k \in at
      PROVE  \E i \in DOMAIN S : BandOf(S[i].horizon) = BandOrder[k]
  <2>1. PICK b, G : b = BandOrder[k] /\ G = Group(S, b)
    OBVIOUS
  <2>2. G # << >> /\ GroupOf(S, b, G)
    BY <1>9, <2>1, GroupFacts
  <2>3. Len(G) \in DOMAIN G
    BY <2>2, SignalledFacts DEF GroupOf
  <2> QED
    BY <2>1, <2>2, <2>3 DEF GroupOf
<1>10. BandOrder[o[1]] # BandOrder[o[2]]
  <2>1. PICK k, l : k = o[1] /\ l = o[2]
    OBVIOUS
  <2>2. k \in {1, 2, 3} /\ l \in {1, 2, 3} /\ k # l
    BY <1>1, <1>8, <2>1
  <2> QED
    BY <2>1, <2>2 DEF BandOrder
<1> QED
  BY <1>8, <1>9, <1>10

(* Aligned bands have a confident signal each, on the side of them all.    *)
LEMMA AlignedBandsAgree ==
  ASSUME NEW S, Signalled(S), NEW B, BandsOf(S, B), NEW d, d = ConclusionDirection(B),
         Alignment(B, d) = "aligned"
  PROVE  /\ d \in Directional /\ Len(B) >= 2
         /\ \A i \in DOMAIN S : \E j \in DOMAIN S :
              /\ BandOf(S[j].horizon) = BandOf(S[i].horizon)
              /\ Qualified(S[j]) /\ S[j].direction = d
<1>1. d = Verdict(DistinctDirections(B), SomeBandConflict(B))
  BY ConclusionVerdict
<1>2. /\ d # "conflict" /\ d # "neutral"
      /\ Len(B) >= 2 /\ DirectionalBands(B) = DOMAIN B
  BY DEF Alignment
<1>3. d \in Directional
  BY <1>1, <1>2 DEF Verdict, Directional
<1>4. \A k \in DOMAIN B : B[k].direction = d
  <2>1. DistinctDirections(B) \subseteq Directional
    BY SidesAreDirections
  <2>2. \A k \in DOMAIN B : B[k].direction \in DistinctDirections(B)
    BY <1>2 DEF DistinctDirections
  <2>3. \A e \in DistinctDirections(B) : d \in {e, "conflict"}
    BY <1>1, <2>1, VerdictFacts
  <2> QED
    BY <1>2, <2>2, <2>3
<1>5. ASSUME NEW i \in DOMAIN S
      PROVE  \E j \in DOMAIN S : /\ BandOf(S[j].horizon) = BandOf(S[i].horizon)
                                 /\ Qualified(S[j]) /\ S[j].direction = d
  <2>1. PICK b, G : b = BandOf(S[i].horizon) /\ G = Group(S, b)
    OBVIOUS
  <2>2. b \in Bands /\ GroupOf(S, b, G)
    BY <2>1, BandOfIsBand, GroupFacts
  <2>3. G # << >>
    BY <2>1, <2>2 DEF GroupOf
  <2>4. PICK k \in DOMAIN B : B[k] = BandDecision(b, G)
    BY <2>1, <2>2, <2>3 DEF BandsOf
  <2>5. d = Verdict(QualifiedDirections(G), BandConflicted(G))
    BY <1>4, <2>4, BandDirectionIs
  <2>6. d \in QualifiedDirections(G)
    BY <1>3, <2>5, SidesAreDirections, VerdictFacts
  <2>7. PICK l \in DOMAIN G : Qualified(G[l]) /\ G[l].direction = d
    BY <2>6 DEF QualifiedDirections, QualifiedIn
  <2> QED
    BY <2>1, <2>2, <2>7 DEF GroupOf
<1> QED
  BY <1>2, <1>3, <1>5

(* The structural direction is that of the highest band that has one.      *)
LEMMA TopSpeaks ==
  ASSUME NEW B, IsSeq(B), Len(B) \in 1..3, DOMAIN B = 1..Len(B)
  PROVE  LET top == Last(B) IN
         /\ top.direction # "neutral" =>
              StructuralDirection(B) = StructuralDirection(<< top >>)
         /\ StructuralDirection(B) # "neutral" =>
              \E i \in DOMAIN B :
                /\ B[i].direction = StructuralDirection(B)
                /\ \A k \in DOMAIN B : k > i => B[k].direction = "neutral"
<1> DEFINE n == Len(B)
           spoken == {i \in DOMAIN B : B[i].direction # "neutral"}
           Says(i) == IF B[i].direction = "conflict" THEN "neutral" ELSE B[i].direction
<1>1. Last(B) = B[n] /\ n \in Nat /\ n > 0 /\ n \in DOMAIN B
  BY DEF Last
<1>2. spoken # {} => Max(spoken) \in spoken /\ \A y \in spoken : y <= Max(spoken)
  <2>1. IsFiniteSet(1..n) /\ spoken \subseteq 1..n /\ 1..n \subseteq Int
    BY <1>1, FS_Interval
  <2>2. IsFiniteSet(spoken) /\ spoken \subseteq Int
    BY <2>1, FS_Subset
  <2> QED
    BY <2>2, Greatest
<1>3. StructuralDirection(B) =
        IF spoken = {} \/ B[Max(spoken)].direction = "conflict" THEN "neutral"
        ELSE B[Max(spoken)].direction
  BY DEF StructuralDirection
<1>4. \A i \in DOMAIN B : i \in spoken <=> B[i].direction # "neutral"
  OBVIOUS
<1>5. spoken \subseteq DOMAIN B /\ DOMAIN B \subseteq Int
  OBVIOUS
<1> HIDE DEF spoken, n
<1>6. B[n].direction # "neutral" => Max(spoken) = n /\ spoken # {}
  <2>1. \A i \in DOMAIN B : i <= n
    BY <1>1 DEF n
  <2> QED
    BY <1>1, <1>2, <1>4, <1>5, <2>1
<1>7. B[n].direction # "neutral" => StructuralDirection(<< B[n] >>) = Says(n)
  <2> SUFFICES ASSUME B[n].direction # "neutral" PROVE StructuralDirection(<< B[n] >>) = Says(n)
    OBVIOUS
  <2>1. PICK one : one = << B[n] >>
    OBVIOUS
  <2>2. DOMAIN one = {1} /\ one[1] = B[n]
    BY <2>1
  <2>3. {i \in DOMAIN one : one[i].direction # "neutral"} = {1}
    BY <2>2
  <2>4. Max({1}) = 1
    <3>1. PICK S : S = {1}
      OBVIOUS
    <3>2. IsFiniteSet(S) /\ S \subseteq Int /\ S # {}
      <4>1. IsFiniteSet(S)
        BY <3>1, FS_Singleton, Zenon
      <4> QED
        BY <3>1, <4>1
    <3>3. Max(S) \in S
      BY <3>2, Greatest
    <3> QED
      BY <3>1, <3>3, Zenon
  <2>5. StructuralDirection(one) =
          IF {1} = {} \/ one[1].direction = "conflict" THEN "neutral" ELSE one[1].direction
    BY <2>3, <2>4 DEF StructuralDirection
  <2> QED
    BY <2>1, <2>2, <2>5
<1>8. B[n].direction # "neutral" => StructuralDirection(B) = Says(n)
  BY <1>3, <1>6
<1>9. ASSUME StructuralDirection(B) # "neutral"
      PROVE  \E i \in DOMAIN B :
               /\ B[i].direction = StructuralDirection(B)
               /\ \A k \in DOMAIN B : k > i => B[k].direction = "neutral"
  <2>1. spoken # {} /\ StructuralDirection(B) = B[Max(spoken)].direction
    BY <1>3, <1>9
  <2>2. Max(spoken) \in DOMAIN B
    BY <1>2, <1>5, <2>1
  <2>3. ASSUME NEW k \in DOMAIN B, k > Max(spoken) PROVE B[k].direction = "neutral"
    <3>1. k \notin spoken
      BY <1>2, <1>5, <2>1, <2>2, <2>3
    <3> QED
      BY <1>4, <3>1
  <2> QED
    BY <2>1, <2>2, <2>3
<1> QED
  BY <1>1, <1>7, <1>8, <1>9 DEF n

-----------------------------------------------------------------------------
(* What a decision was made from *)

(* What the decision was made from: the signals of the analysis returned,  *)
(* whose decisions are those of their reports' Cells.                      *)
Concluded == Signalled(Signals) /\ Len(Signals) = Len(completed) /\ decision = Evaluate(Signals)
DecisionInv ==
  /\ pc = "decided" => Concluded
  /\ \A i \in 1..Len(completed) :
       \E v \in scenario.views : completed[i].decision = Assessment(completed[i].horizon, v)

LEMMA SignalsFacts ==
  ASSUME IInv, pc \in Ended
  PROVE  /\ analysis.reports = completed /\ analysis.order = Order
         /\ IsSeq(Signals) /\ Len(Signals) = Len(completed) /\ Len(Signals) \in 1..8
         /\ DOMAIN Signals = 1..Len(completed) /\ DOMAIN completed = 1..Len(completed)
         /\ \A i \in DOMAIN Signals :
              LET d == completed[i].decision IN
              Signals[i] =
                [horizon |-> completed[i].horizon, direction |-> d.direction,
                 score |-> d.score, strength |-> d.strength, confidence |-> d.confidence,
                 volatility |-> d.volatility, manipulation |-> d.manipulation]
<1> DEFINE n == Len(completed)
           S == SignalsOf(completed)
           Fields(i) ==
             [horizon |-> completed[i].horizon,
              direction |-> completed[i].decision.direction,
              score |-> completed[i].decision.score,
              strength |-> completed[i].decision.strength,
              confidence |-> completed[i].decision.confidence,
              volatility |-> completed[i].decision.volatility,
              manipulation |-> completed[i].decision.manipulation]
<1>1. /\ analysis = Composed /\ IsSeq(completed) /\ n = Len(Order)
      /\ scenario \in Scenarios /\ Submittable
  BY DEF IInv, EndHolds, SequencesHold, StageHolds, Ended
<1>2. analysis.reports = completed /\ analysis.order = Order
  BY <1>1 DEF Composed
<1>3. n \in Nat /\ DOMAIN completed = 1..n
  BY <1>1, SeqFacts
<1>4. n \in 1..8
  <2>1. Len(request.children) \in 2..8
    BY <1>1 DEF Submittable, RequestAccepted, MinimumHorizons, MaximumHorizons
  <2>2. n = Len(request.children)
    BY <1>1, OrderFacts
  <2>3. n \in 2..8
    BY <2>1, <2>2
  <2> HIDE DEF n
  <2> QED
    BY <2>3
<1>5. S = [i \in 1..n |-> Fields(i)]
  BY <1>3 DEF SignalsOf
<1>6. Signals = S
  BY <1>2 DEF Signals
<1> HIDE DEF S, Fields, n
<1>7. S \in [1..n -> Range(S)] /\ DOMAIN S = 1..n
  BY <1>5 DEF Range
<1>8. S \in Seq(Range(S))
  BY <1>3, <1>7, SeqDef
<1>9. IsSeq(S) /\ Len(S) = n
  BY <1>3, <1>7, <1>8, LenProperties DEF IsSeq
<1>10. \A i \in DOMAIN Signals : Signals[i] = Fields(i)
  BY <1>5, <1>6, <1>7
<1> QED
  BY <1>2, <1>3, <1>4, <1>6, <1>7, <1>9, <1>10 DEF n, Fields

LEMMA DecideConcludes ==
  ASSUME IInv, Decide, pc' = "decided"
  PROVE  Concluded'
<1>1. /\ pc = "analysed" /\ decision' = Analyze(analysis.order, analysis.reports)
      /\ decision' # NoDecision /\ analysis' = analysis /\ completed' = completed
  <2>1. pc' = IF decision' = NoDecision THEN "undecided" ELSE "decided"
    BY DEF Decide
  <2> QED
    BY <2>1 DEF Decide
<1>2. /\ IsSeq(Signals) /\ Len(Signals) \in 1..8 /\ Len(Signals) = Len(completed)
      /\ \A i \in DOMAIN Signals :
              LET d == completed[i].decision IN
              Signals[i] =
                [horizon |-> completed[i].horizon, direction |-> d.direction,
                 score |-> d.score, strength |-> d.strength, confidence |-> d.confidence,
                 volatility |-> d.volatility, manipulation |-> d.manipulation]
  BY <1>1, SignalsFacts DEF Ended
<1>3. decision' = Checked(analysis.order, Signals, Evaluate(Signals))
  BY <1>1 DEF Analyze, Signals
<1>4. (\A i \in DOMAIN Signals : SignalAccepted(Signals[i])) /\ decision' = Evaluate(Signals)
  BY <1>1, <1>3 DEF Checked
<1>5. \A i \in DOMAIN Signals : IsSignal(Signals[i])
  BY <1>2, <1>4 DEF IsSignal
<1>6. Signals' = Signals
  BY <1>1 DEF Signals
<1> HIDE DEF Signals
<1>7. Signalled(Signals)
  BY <1>2, <1>5 DEF Signalled
<1> QED
  BY <1>1, <1>2, <1>4, <1>6, <1>7 DEF Concluded

LEMMA DecisionNext == IInv /\ DecisionInv /\ [Next]_vars => DecisionInv'
<1> SUFFICES ASSUME IInv, DecisionInv, [Next]_vars PROVE DecisionInv'
  OBVIOUS
<1>1. CASE ReportCompleted
  <2>1. PICK r \in Reports :
          InScope(r, NextHorizon) /\ r.formulas = Expected /\ completed' = Append(completed, r)
    BY <1>1 DEF ReportCompleted
  <2>2. pc' # "decided" /\ scenario' = scenario
    BY <1>1 DEF ReportCompleted
  <2>3. IsSeq(completed) /\ Len(completed) \in Nat
    BY SeqFacts DEF IInv, SequencesHold
  <2>4. /\ Len(completed') = Len(completed) + 1
        /\ \A i \in 1..Len(completed) : completed'[i] = completed[i]
        /\ completed'[Len(completed) + 1] = r
    BY <2>1, <2>3, AppendFacts
  <2>5. PICK outcome \in scenario.outcomes \ {"raises"}, e \in Engines, v \in scenario.views :
          r = Report(outcome, e.formulas, v)
    BY DEF Reports
  <2>6. \E h : r.decision = Assessment(h, v)
    BY <2>5 DEF Report
  <2>7. PICK h : r.decision = Assessment(h, v)
    BY <2>6
  <2>8. Assessment(h, v).horizon = h
    BY DEF Assessment
  <2>9. r.decision.horizon = r.horizon
    BY <2>1 DEF InScope
  <2>10. r.decision = Assessment(r.horizon, v)
    BY <2>7, <2>8, <2>9
  <2>11. \A i \in 1..Len(completed) :
           \E w \in scenario.views : completed[i].decision = Assessment(completed[i].horizon, w)
    BY DEF DecisionInv
  <2>12. ASSUME NEW i \in 1..Len(completed')
         PROVE  \E w \in scenario.views :
                  completed'[i].decision = Assessment(completed'[i].horizon, w)
    <3>1. CASE i \in 1..Len(completed)
      BY <2>4, <2>11, <3>1
    <3>2. CASE i = Len(completed) + 1
      BY <2>4, <2>10, <3>2
    <3> QED
      BY <2>3, <2>4, <3>1, <3>2
  <2> QED
    BY <2>2, <2>12 DEF DecisionInv
<1>2. CASE Decide
  <2>1. completed' = completed /\ scenario' = scenario
    BY <1>2 DEF Decide
  <2> QED
    BY <1>2, <2>1, DecideConcludes DEF DecisionInv
<1>3. CASE UNCHANGED vars
  <2>1. /\ pc' = pc /\ completed' = completed /\ scenario' = scenario
        /\ decision' = decision /\ analysis' = analysis
    BY <1>3 DEF vars
  <2>2. Signals' = Signals
    BY <2>1 DEF Signals
  <2>3. Concluded' = Concluded
    BY <2>1, <2>2 DEF Concluded
  <2> QED
    BY <2>1, <2>3 DEF DecisionInv
<1>4. ASSUME \/ Submit \/ FactoryFails \/ GraphDiffers \/ FormulasDiffer \/ Prepare
             \/ ChildFails \/ ReportOutOfScope \/ ReportDrifted \/ Compose
      PROVE  DecisionInv'
  <2>1. pc' # "decided" /\ completed' = completed /\ scenario' = scenario
    <3>1. CASE Submit \/ Prepare \/ Compose
      BY <3>1 DEF Submit, Prepare, Compose
    <3>2. CASE FactoryFails \/ GraphDiffers \/ FormulasDiffer
      BY <3>2 DEF FactoryFails, GraphDiffers, FormulasDiffer, Raise
    <3>3. CASE ChildFails \/ ReportOutOfScope \/ ReportDrifted
      BY <3>3 DEF ChildFails, ReportOutOfScope, ReportDrifted, Raise
    <3> QED
      BY <1>4, <3>1, <3>2, <3>3
  <2> QED
    BY <2>1 DEF DecisionInv
<1> QED
  BY <1>1, <1>2, <1>3, <1>4 DEF Next

LEMMA DecisionInvariance == Spec => [](IInv /\ DecisionInv)
<1>1. Init => DecisionInv
  BY DEF Init, DecisionInv
<1> QED
  BY <1>1, InitInv, NextInv, DecisionNext, PTL DEF Spec

LEMMA DecisionIs ==
  ASSUME IInv, DecisionInv, decision # NoDecision
  PROVE  /\ pc = "decided" /\ Concluded /\ pc \in Ended
BY DEF IInv, EndHolds, DecisionInv, Ended

LEMMA EvaluationIs ==
  ASSUME NEW S
  PROVE  LET B == BandDecisions(S) IN
         /\ Evaluate(S).direction = ConclusionDirection(B)
         /\ Evaluate(S).structural = StructuralDirection(B)
         /\ Evaluate(S).bands = B
         /\ Evaluate(S).alignment = Alignment(B, Evaluate(S).direction)
<1> DEFINE B == BandDecisions(S)
<1>1. PICK d : d = ConclusionDirection(B)
  OBVIOUS
<1>2. Evaluate(S) = Conclusion(S, B, d, Alignment(B, d), StructuralScore(B), ConflictScore(B, d))
  BY <1>1 DEF Evaluate, ConclusionOf
<1>3. ASSUME NEW a, NEW s, NEW c
      PROVE  /\ Conclusion(S, B, d, a, s, c).direction = d
             /\ Conclusion(S, B, d, a, s, c).structural = StructuralDirection(B)
             /\ Conclusion(S, B, d, a, s, c).bands = B
             /\ Conclusion(S, B, d, a, s, c).alignment = a
  BY DEF Conclusion
<1> QED
  BY <1>1, <1>2, <1>3

(* Horizons that disagree are a conflict wherever they stand, a conflict   *)
(* at the end of a band or in one without a confident side is one for all, *)
(* aligned bands have each been judged, and the highest band with a view   *)
(* speaks for the structure: no direction is an average over a             *)
(* disagreement, no agreement is presumed.                                 *)
THEOREM ConflictsAreNeverAveraged == Spec => []DirectionInv
<1>1. IInv /\ DecisionInv => DirectionInv
  <2> SUFFICES ASSUME IInv, DecisionInv, decision # NoDecision
               PROVE  /\ ConflictIsNeverAveraged /\ StructureFromTheTop
                      /\ ConflictSurfaces /\ AgreementIsJudged
    BY DEF DirectionInv, ConflictIsNeverAveraged, StructureFromTheTop, ConflictSurfaces,
       AgreementIsJudged
  <2> DEFINE B == BandDecisions(Signals)
  <2>1. Signalled(Signals) /\ decision = Evaluate(Signals)
    BY DecisionIs DEF Concluded
  <2>2. BandsOf(Signals, B)
    BY <2>1, BandsFacts
  <2>3. /\ decision.direction = ConclusionDirection(B) /\ decision.bands = B
        /\ decision.structural = StructuralDirection(B)
        /\ decision.alignment = Alignment(B, decision.direction)
    BY <2>1, EvaluationIs
  <2> HIDE DEF B
  <2>4. QualifiedSides = QualifiedDirections(Signals)
    BY DEF QualifiedSides, QualifiedDirections
  <2>5. ConflictIsNeverAveraged
    <3>1. Spread(Signals, B)
      BY <2>1, <2>2, SidesSpread
    <3> QED
      BY <2>3, <2>4, <3>1, DisagreementIsConflict DEF ConflictIsNeverAveraged
  <2>6. StructureFromTheTop
    <3>1. IsSeq(B) /\ Len(B) \in 1..3 /\ DOMAIN B = 1..Len(B)
      BY <2>2 DEF BandsOf
    <3> QED
      BY <2>3, <3>1, TopSpeaks DEF StructureFromTheTop
  <2>7. ConflictSurfaces
    <3> SUFFICES ASSUME NEW i \in DOMAIN Signals, MaterialConflict(Signals[i]),
                        \/ \A j \in Fellows(i) : j <= i
                        \/ \A j \in Fellows(i) : ~Qualified(Signals[j])
                 PROVE  decision.direction = "conflict"
      BY DEF ConflictSurfaces
    <3>1. PICK F : F = Fellows(i)
      OBVIOUS
    <3>2. F = {j \in DOMAIN Signals :
                 BandOf(Signals[j].horizon) = BandOf(Signals[i].horizon)}
      BY <3>1 DEF Fellows
    <3>3. PICK S : S = Signals
      OBVIOUS
    <3>4. SomeBandConflict(B)
      BY <2>1, <2>2, <3>1, <3>2, <3>3, ConflictReachesBand
    <3> QED
      BY <2>3, <3>4, ConclusionVerdict, SidesAreDirections, VerdictFacts
  <2>8. AgreementIsJudged
    <3> SUFFICES ASSUME decision.alignment = "aligned"
                 PROVE  /\ decision.direction \in Directional
                        /\ \E i \in DOMAIN Signals : Fellows(i) # DOMAIN Signals
                        /\ \A i \in DOMAIN Signals : \E j \in Fellows(i) :
                             /\ Qualified(Signals[j])
                             /\ Signals[j].direction = decision.direction
      BY DEF AgreementIsJudged
    <3>1. PICK S, d : S = Signals /\ d = decision.direction
      OBVIOUS
    <3>2. Signalled(S) /\ BandsOf(S, B) /\ d = ConclusionDirection(B) /\ Alignment(B, d) = "aligned"
      BY <2>1, <2>2, <2>3, <3>1
    <3>3. /\ d \in Directional /\ Len(B) >= 2
          /\ \A i \in DOMAIN S : \E j \in DOMAIN S :
               /\ BandOf(S[j].horizon) = BandOf(S[i].horizon)
               /\ Qualified(S[j]) /\ S[j].direction = d
      BY <3>2, AlignedBandsAgree
    <3>4. PICK i, j \in DOMAIN S : BandOf(S[i].horizon) # BandOf(S[j].horizon)
      <4>1. B = BandDecisions(S)
        BY <3>1 DEF B
      <4> QED
        BY <3>2, <3>3, <4>1, TwoBands
    <3>5. j \notin Fellows(i)
      BY <3>1, <3>4 DEF Fellows
    <3> QED
      BY <3>1, <3>3, <3>4, <3>5 DEF Fellows
  <2> QED
    BY <2>5, <2>6, <2>7, <2>8
<1> QED
  BY <1>1, DecisionInvariance, PTL

-----------------------------------------------------------------------------
(* Signals that differ in their risks *)

(* What is kept of two lists at the same positions.                        *)
Paired(G, H, m, w) ==
  /\ IsSeq(G) /\ IsSeq(H) /\ Len(H) = Len(G) /\ DOMAIN G = 1..Len(G) /\ DOMAIN H = 1..Len(G)
  /\ \A k \in DOMAIN G : \E i \in DOMAIN m : G[k] = m[i] /\ H[k] = w[i]

LEMMA KeptPairs ==
  ASSUME NEW m, IsSeq(m), NEW w, IsSeq(w), Len(w) = Len(m), NEW at, at \subseteq DOMAIN m
  PROVE  Paired(Kept(m, at), Kept(w, at), m, w)
<1> DEFINE G == Kept(m, at)
           H == Kept(w, at)
           o == Sorted(at)
<1>1. /\ DOMAIN o = 1..Cardinality(at) /\ \A k \in DOMAIN o : o[k] \in at
  BY KeptPositions
<1>2. DOMAIN w = DOMAIN m
  BY SeqFacts
<1>3. KeptOf(m, at, G) /\ KeptOf(w, at, H)
  BY <1>2, KeptMembers
<1>4. G = [k \in DOMAIN o |-> m[o[k]]] /\ H = [k \in DOMAIN o |-> w[o[k]]]
  BY DEF Kept
<1> HIDE DEF G, H, o
<1>5. \A k \in DOMAIN G : \E i \in DOMAIN m : G[k] = m[i] /\ H[k] = w[i]
  BY <1>1, <1>4
<1>6. /\ IsSeq(G) /\ IsSeq(H) /\ Len(H) = Len(G)
      /\ DOMAIN G = 1..Len(G) /\ DOMAIN H = 1..Len(G)
  BY <1>3 DEF KeptOf
<1> QED
  BY <1>5, <1>6 DEF Paired, G, H

(* Signals that differ in nothing but their risks.                         *)
SameView(s, t) ==
  /\ t.horizon = s.horizon /\ t.direction = s.direction /\ t.score = s.score
  /\ t.strength = s.strength /\ t.confidence = s.confidence
SameViews(m, w) ==
  /\ IsSeq(m) /\ IsSeq(w) /\ Len(w) = Len(m) /\ DOMAIN m = 1..Len(m) /\ DOMAIN w = 1..Len(m)
  /\ \A i \in DOMAIN m : SameView(m[i], w[i])

LEMMA SamePositions ==
  ASSUME NEW S, IsSeq(S), NEW M, IsSeq(M), Len(M) = Len(S),
         \A i \in DOMAIN S : M[i].horizon = S[i].horizon
  PROVE  /\ \A b : Paired(Group(S, b), Group(M, b), S, M)
         /\ \A b : Group(M, b) = << >> <=> Group(S, b) = << >>
         /\ Present(M) = Present(S)
<1>1. DOMAIN M = DOMAIN S
  BY SeqFacts
<1>2. ASSUME NEW b PROVE Paired(Group(S, b), Group(M, b), S, M)
  <2> DEFINE at == {i \in DOMAIN S : BandOf(S[i].horizon) = b}
             other == {i \in DOMAIN M : BandOf(M[i].horizon) = b}
  <2>1. at \subseteq DOMAIN S /\ at = other
    BY <1>1
  <2>2. Group(S, b) = Kept(S, at) /\ Group(M, b) = Kept(M, other)
    BY DEF Group
  <2> HIDE DEF at, other
  <2> QED
    BY <2>1, <2>2, KeptPairs
<1>3. ASSUME NEW b PROVE Group(M, b) = << >> <=> Group(S, b) = << >>
  <2>1. PICK G, H : G = Group(S, b) /\ H = Group(M, b)
    OBVIOUS
  <2>2. IsSeq(G) /\ IsSeq(H) /\ Len(G) = Len(H)
    BY <1>2, <2>1 DEF Paired
  <2>3. (G = << >> <=> Len(G) = 0) /\ (H = << >> <=> Len(H) = 0)
    BY <2>2, SeqFacts
  <2> QED
    BY <2>1, <2>2, <2>3
<1>4. Present(M) = Present(S)
  <2>1. {k \in 1..3 : Group(S, BandOrder[k]) # << >>}
          = {k \in 1..3 : Group(M, BandOrder[k]) # << >>}
    BY <1>3
  <2> QED
    BY <2>1 DEF Present
<1> QED
  BY <1>2, <1>3, <1>4

LEMMA SameGroups ==
  ASSUME NEW S, NEW M, SameViews(S, M)
  PROVE  /\ \A b : SameViews(Group(S, b), Group(M, b))
         /\ Present(M) = Present(S)
<1>1. /\ \A b : Paired(Group(S, b), Group(M, b), S, M)
      /\ Present(M) = Present(S)
  BY SamePositions DEF SameViews, SameView
<1>2. \A G, H : Paired(G, H, S, M) => SameViews(G, H)
  <2> TAKE G, H
  <2> HAVE Paired(G, H, S, M)
  <2>1. \A k \in DOMAIN G : SameView(G[k], H[k])
    BY DEF Paired, SameViews
  <2> QED
    BY <2>1 DEF Paired, SameViews
<1> QED
  BY <1>1, <1>2

(* The parts a band's conclusion is made of.                              *)
Counted(m) == IF QualifiedIn(m) = {} THEN DOMAIN m ELSE QualifiedIn(m)
OnSide(m, d) == {k \in QualifiedIn(m) : m[k].direction = d}
Support(m, d) == Weighted([i \in OnSide(m, d) |-> Abs(m[i].score)])
Explicit(m) ==
  {Round(m[i].strength * m[i].confidence, Full) :
     i \in {k \in DOMAIN m : MaterialConflict(m[k])}}
Confidence(m) == Weighted([i \in DOMAIN m |-> m[i].confidence])

LEMMA BandParts ==
  ASSUME NEW m
  PROVE  /\ BandScore(m) = Round(Weighted([i \in Counted(m) |-> m[i].score]),
                                 TotalWeight(Counted(m)))
         /\ BandConflictScore(m) =
              Clamp(Largest(Explicit(m)
                              \cup {Opposition(Support(m, "bullish"), Support(m, "bearish"))}))
         /\ Counted(m) \subseteq DOMAIN m /\ QualifiedIn(m) \subseteq DOMAIN m
         /\ \A d : OnSide(m, d) \subseteq DOMAIN m
<1>1. BandScore(m) = Round(Weighted([i \in Counted(m) |-> m[i].score]), TotalWeight(Counted(m)))
  BY DEF BandScore, Counted
<1>2. BandConflictScore(m) =
        Clamp(Largest(Explicit(m)
                        \cup {Opposition(Support(m, "bullish"), Support(m, "bearish"))}))
  BY DEF BandConflictScore, Explicit, Support, OnSide
<1>3. QualifiedIn(m) \subseteq DOMAIN m
  BY DEF QualifiedIn
<1>4. Counted(m) \subseteq DOMAIN m /\ \A d : OnSide(m, d) \subseteq DOMAIN m
  BY <1>3 DEF Counted, OnSide
<1> QED
  BY <1>1, <1>2, <1>3, <1>4

LEMMA BandIs ==
  ASSUME NEW b, NEW m
  PROVE  LET x == BandDecision(b, m)
             a == BandAlignment(m, BandDirection(m))
             c == IF BandDirection(m) = "conflict" THEN BandConflictScore(m) ELSE 0
         IN x = [band |-> b,
                 horizons |-> Horizons(m),
                 qualified |-> Horizons(Kept(m, QualifiedIn(m))),
                 anchor |-> Last(m).horizon,
                 direction |-> BandDirection(m),
                 alignment |-> a,
                 score |-> BandScore(m),
                 conflictScore |-> c,
                 strength |-> ConclusionStrength(BandDirection(m), BandScore(m), c),
                 confidence |-> Clamp(Round(Confidence(m) * BandFactor(a, c),
                                            TotalWeight(DOMAIN m) * 5000)),
                 volatility |-> RoundRisk(Volatility(m)),
                 manipulation |-> RoundRisk(Manipulation(m)),
                 level |-> Overall(LevelsOf(m))]
BY DEF BandDecision, BandConclusion, Confidence

LEMMA SameSignals ==
  ASSUME NEW m, NEW w, SameViews(m, w)
  PROVE  /\ QualifiedIn(w) = QualifiedIn(m)
         /\ QualifiedDirections(w) = QualifiedDirections(m)
         /\ SomeMaterialConflict(w) <=> SomeMaterialConflict(m)
         /\ \A i \in DOMAIN m : MaterialConflict(w[i]) <=> MaterialConflict(m[i])
         /\ DOMAIN w = DOMAIN m /\ Len(w) = Len(m)
<1>1. DOMAIN w = DOMAIN m /\ Len(w) = Len(m) /\ \A i \in DOMAIN m : SameView(m[i], w[i])
  BY DEF SameViews
<1>2. \A i \in DOMAIN m : Qualified(w[i]) <=> Qualified(m[i])
  BY <1>1 DEF SameView, Qualified, Substantial
<1>3. \A i \in DOMAIN m : MaterialConflict(w[i]) <=> MaterialConflict(m[i])
  BY <1>1 DEF SameView, MaterialConflict, Substantial
<1>4. QualifiedIn(w) = QualifiedIn(m)
  BY <1>1, <1>2 DEF QualifiedIn
<1>5. QualifiedDirections(w) = QualifiedDirections(m)
  <2>1. \A i \in QualifiedIn(m) : w[i].direction = m[i].direction
    BY <1>1 DEF SameView, QualifiedIn
  <2> QED
    BY <1>4, <2>1 DEF QualifiedDirections
<1>6. SomeMaterialConflict(w) <=> SomeMaterialConflict(m)
  BY <1>1, <1>3 DEF SomeMaterialConflict
<1> QED
  BY <1>1, <1>3, <1>4, <1>5, <1>6

(* Bands that differ in nothing but their risks.                           *)
SameBand(x, y) ==
  /\ y.band = x.band /\ y.direction = x.direction /\ y.score = x.score
  /\ y.conflictScore = x.conflictScore /\ y.confidence = x.confidence

LEMMA SameBandDecision ==
  ASSUME NEW m, NEW w, SameViews(m, w), m # << >>, NEW b
  PROVE  SameBand(BandDecision(b, m), BandDecision(b, w))
<1>1. /\ QualifiedIn(w) = QualifiedIn(m) /\ QualifiedDirections(w) = QualifiedDirections(m)
      /\ SomeMaterialConflict(w) <=> SomeMaterialConflict(m)
      /\ \A i \in DOMAIN m : MaterialConflict(w[i]) <=> MaterialConflict(m[i])
      /\ DOMAIN w = DOMAIN m /\ Len(w) = Len(m)
  BY SameSignals
<1>2. \A i \in DOMAIN m : SameView(m[i], w[i])
  BY DEF SameViews
<1>3. /\ Counted(m) \subseteq DOMAIN m /\ QualifiedIn(m) \subseteq DOMAIN m
      /\ \A d : OnSide(m, d) \subseteq DOMAIN m
  BY BandParts
<1>4. Counted(w) = Counted(m) /\ \A d : OnSide(w, d) = OnSide(m, d)
  <2>1. Counted(w) = Counted(m)
    BY <1>1 DEF Counted
  <2>2. \A i \in QualifiedIn(m) : w[i].direction = m[i].direction
    BY <1>2, <1>3 DEF SameView
  <2>3. \A d : OnSide(w, d) = OnSide(m, d)
    BY <1>1, <2>2 DEF OnSide
  <2> QED
    BY <2>1, <2>3
<1>5. BandDirection(w) = BandDirection(m)
  <2>1. Len(m) \in DOMAIN m /\ Last(m) = m[Len(m)] /\ Last(w) = w[Len(m)]
    <3>1. Len(m) # 0 /\ Len(m) \in Nat /\ DOMAIN m = 1..Len(m)
      BY SeqFacts DEF SameViews
    <3> QED
      BY <1>1, <3>1 DEF Last
  <2>2. BandConflicted(w) <=> BandConflicted(m)
    BY <1>1, <2>1 DEF BandConflicted
  <2> QED
    BY <1>1, <2>2, BandVerdict DEF Verdict
<1>6. BandAlignment(w, BandDirection(w)) = BandAlignment(m, BandDirection(m))
  BY <1>1, <1>5 DEF BandAlignment
<1>7. BandScore(w) = BandScore(m)
  <2>1. [i \in Counted(w) |-> w[i].score] = [i \in Counted(m) |-> m[i].score]
    BY <1>2, <1>3, <1>4 DEF SameView
  <2> QED
    BY <1>4, <2>1, BandParts
<1>8. BandConflictScore(w) = BandConflictScore(m)
  <2>1. ASSUME NEW d PROVE Support(w, d) = Support(m, d)
    <3>1. [i \in OnSide(w, d) |-> Abs(w[i].score)] = [i \in OnSide(m, d) |-> Abs(m[i].score)]
      BY <1>2, <1>3, <1>4 DEF SameView
    <3> QED
      BY <3>1 DEF Support
  <2>2. Explicit(w) = Explicit(m)
    <3>1. {k \in DOMAIN w : MaterialConflict(w[k])} = {k \in DOMAIN m : MaterialConflict(m[k])}
      BY <1>1
    <3>2. \A i \in DOMAIN m : w[i].strength = m[i].strength /\ w[i].confidence = m[i].confidence
      BY <1>2 DEF SameView
    <3> QED
      BY <3>1, <3>2 DEF Explicit
  <2> QED
    BY <2>1, <2>2, BandParts
<1>9. Confidence(w) = Confidence(m)
  <2>1. [i \in DOMAIN w |-> w[i].confidence] = [i \in DOMAIN m |-> m[i].confidence]
    BY <1>1, <1>2 DEF SameView
  <2> QED
    BY <2>1 DEF Confidence
<1> QED
  BY <1>1, <1>5, <1>6, <1>7, <1>8, <1>9, BandIs DEF SameBand

SameBands(B, C) ==
  /\ IsSeq(B) /\ IsSeq(C) /\ Len(C) = Len(B) /\ DOMAIN B = 1..Len(B) /\ DOMAIN C = 1..Len(B)
  /\ \A k \in DOMAIN B : SameBand(B[k], C[k])

LEMMA SameBandDecisions ==
  ASSUME NEW S, Signalled(S), NEW M, SameViews(S, M), IsSeq(BandDecisions(M))
  PROVE  SameBands(BandDecisions(S), BandDecisions(M))
<1> DEFINE P == Present(S)
           B == BandDecisions(S)
           C == BandDecisions(M)
<1>1. Present(M) = P /\ \A b : SameViews(Group(S, b), Group(M, b))
  BY SameGroups
<1>2. /\ B = [i \in DOMAIN P |-> BandDecision(P[i], Group(S, P[i]))]
      /\ C = [i \in DOMAIN P |-> BandDecision(P[i], Group(M, P[i]))]
  BY <1>1 DEF BandDecisions
<1>3. \A k \in DOMAIN P : Group(S, P[k]) # << >>
  BY PresentFacts
<1>4. IsSeq(B) /\ IsSeq(C)
  BY BandsFacts DEF BandsOf
<1> HIDE DEF P, B, C
<1>5. DOMAIN B = DOMAIN P /\ DOMAIN C = DOMAIN P
  BY <1>2
<1>6. \A k \in DOMAIN B : SameBand(B[k], C[k])
  BY <1>1, <1>2, <1>3, <1>5, SameBandDecision
<1>7. Len(C) = Len(B) /\ DOMAIN B = 1..Len(B) /\ DOMAIN C = 1..Len(B)
  <2>1. Len(B) \in Nat /\ Len(C) \in Nat /\ DOMAIN B = 1..Len(B) /\ DOMAIN C = 1..Len(C)
    BY <1>4, SeqFacts
  <2>2. Len(B) = Len(C)
    BY <1>5, <2>1
  <2> QED
    BY <2>1, <2>2
<1> QED
  BY <1>4, <1>6, <1>7 DEF SameBands, B, C

(* The conclusion over bands that differ in nothing but their risks.       *)
LEMMA SameDirections ==
  ASSUME NEW B, NEW C, SameBands(B, C)
  PROVE  /\ DirectionalBands(C) = DirectionalBands(B)
         /\ DistinctDirections(C) = DistinctDirections(B)
         /\ SomeBandConflict(C) <=> SomeBandConflict(B)
         /\ ConclusionDirection(C) = ConclusionDirection(B)
         /\ StructuralDirection(C) = StructuralDirection(B)
         /\ \A d : Alignment(C, d) = Alignment(B, d)
<1>1. DOMAIN C = DOMAIN B /\ Len(C) = Len(B) /\ \A i \in DOMAIN B : C[i].direction = B[i].direction
  BY DEF SameBands, SameBand
<1>2. DirectionalBands(C) = DirectionalBands(B) /\ DirectionalBands(B) \subseteq DOMAIN B
  BY <1>1 DEF DirectionalBands
<1>3. DistinctDirections(C) = DistinctDirections(B)
  BY <1>1, <1>2 DEF DistinctDirections
<1>4. SomeBandConflict(C) <=> SomeBandConflict(B)
  BY <1>1 DEF SomeBandConflict
<1>5. ConclusionDirection(C) = ConclusionDirection(B)
  BY <1>3, <1>4, ConclusionVerdict DEF Verdict
<1>6. StructuralDirection(C) = StructuralDirection(B)
  <2>1. {i \in DOMAIN C : C[i].direction # "neutral"}
          = {i \in DOMAIN B : B[i].direction # "neutral"}
    BY <1>1
  <2>2. PICK T : T = {i \in DOMAIN B : B[i].direction # "neutral"}
    OBVIOUS
  <2>3. T \subseteq DOMAIN B /\ IsFiniteSet(T) /\ T \subseteq Int
    <3>1. IsSeq(B) /\ Len(B) \in Nat
      BY SeqFacts DEF SameBands
    <3>2. DOMAIN B \subseteq Int
      BY <3>1, SeqFacts
    <3> QED
      BY <2>2, <3>1, <3>2, KeptPositions
  <2>4. T # {} => C[Max(T)].direction = B[Max(T)].direction
    BY <1>1, <2>3, Greatest
  <2> QED
    BY <2>1, <2>2, <2>4 DEF StructuralDirection
<1>7. \A d : Alignment(C, d) = Alignment(B, d)
  BY <1>1, <1>2 DEF Alignment
<1> QED
  BY <1>2, <1>3, <1>4, <1>5, <1>6, <1>7

LEMMA SameScores ==
  ASSUME NEW B, NEW C, SameBands(B, C)
  PROVE  /\ StructuralScore(C) = StructuralScore(B)
         /\ \A d : ConflictScore(C, d) = ConflictScore(B, d)
         /\ \A a, c : ConclusionConfidence(C, a, c) = ConclusionConfidence(B, a, c)
         /\ ConflictType(C) = ConflictType(B)
<1>1. /\ DOMAIN C = DOMAIN B /\ Len(C) = Len(B)
      /\ \A i \in DOMAIN B : /\ C[i].band = B[i].band /\ C[i].direction = B[i].direction
                             /\ C[i].score = B[i].score /\ C[i].confidence = B[i].confidence
                             /\ C[i].conflictScore = B[i].conflictScore
  BY DEF SameBands, SameBand
<1>2. \A i \in DOMAIN B : Authority(C, i) = Authority(B, i)
  BY <1>1 DEF Authority
<1>3. TotalAuthority(C) = TotalAuthority(B)
  <2>1. [i \in DOMAIN C |-> Authority(C, i)] = [i \in DOMAIN B |-> Authority(B, i)]
    BY <1>1, <1>2
  <2> QED
    BY <2>1 DEF TotalAuthority
<1>4. StructuralScore(C) = StructuralScore(B)
  <2>1. [i \in DOMAIN C |-> C[i].score * Authority(C, i)]
          = [i \in DOMAIN B |-> B[i].score * Authority(B, i)]
    BY <1>1, <1>2
  <2> QED
    BY <1>3, <2>1 DEF StructuralScore
<1>5. \A a, c : ConclusionConfidence(C, a, c) = ConclusionConfidence(B, a, c)
  <2>1. [i \in DOMAIN C |-> C[i].confidence * Authority(C, i)]
          = [i \in DOMAIN B |-> B[i].confidence * Authority(B, i)]
    BY <1>1, <1>2
  <2> QED
    BY <1>1, <1>3, <2>1 DEF ConclusionConfidence
<1>6. CrossConflictScore(C) = CrossConflictScore(B)
  <2>1. ASSUME NEW d
        PROVE  [i \in {k \in DOMAIN C : C[k].direction = d}
                  |-> Authority(C, i) * Max({Abs(C[i].score), Tenths})]
                 = [i \in {k \in DOMAIN B : B[k].direction = d}
                      |-> Authority(B, i) * Max({Abs(B[i].score), Tenths})]
    <3>1. {k \in DOMAIN C : C[k].direction = d} = {k \in DOMAIN B : B[k].direction = d}
      BY <1>1
    <3> QED
      BY <1>1, <1>2, <3>1
  <2> QED
    BY <2>1 DEF CrossConflictScore
<1>7. \A d : ConflictScore(C, d) = ConflictScore(B, d)
  <2>1. {C[i].conflictScore : i \in DOMAIN C} = {B[i].conflictScore : i \in DOMAIN B}
    BY <1>1
  <2> QED
    BY <1>6, <2>1 DEF ConflictScore
<1>8. ConflictType(C) = ConflictType(B)
  <2> DEFINE named(D, b) == {i \in DirectionalBands(D) : D[i].band = b}
             opposed(D, low, high) ==
               \E i \in named(D, low), k \in named(D, high) : D[i].direction # D[k].direction
  <2>1. /\ DirectionalBands(C) = DirectionalBands(B)
        /\ DistinctDirections(C) = DistinctDirections(B)
        /\ SomeBandConflict(C) <=> SomeBandConflict(B)
    BY SameDirections
  <2>2. DirectionalBands(B) \subseteq DOMAIN B
    BY DEF DirectionalBands
  <2>3. \A b : named(C, b) = named(B, b) /\ named(B, b) \subseteq DOMAIN B
    BY <1>1, <2>1, <2>2
  <2>4. \A low, high : opposed(C, low, high) <=> opposed(B, low, high)
    <3> HIDE DEF named
    <3> QED
      BY <1>1, <2>3
  <2>5. \A D : ConflictType(D) =
          LET opposite == Cardinality(DistinctDirections(D)) > 1
          IN CASE ~opposite -> IF SomeBandConflict(D) THEN "intra_band" ELSE "none"
               [] opposite /\ SomeBandConflict(D) -> "broad"
               [] opposite /\ ~SomeBandConflict(D) ->
                    (CASE opposed(D, "medium", "long") ->
                            (IF opposed(D, "short", "long") THEN "lower_vs_long"
                                                 ELSE "medium_vs_long")
                       [] OTHER -> "short_vs_higher")
    BY DEF ConflictType
  <2> HIDE DEF opposed, named
  <2> QED
    BY <2>1, <2>4, <2>5
<1> QED
  BY <1>4, <1>5, <1>7, <1>8

-----------------------------------------------------------------------------
(* A decision without its risks *)

LEMMA NoRisk == RiskPoint \in Nat /\ 0 \in 0..100 * RiskPoint
<1>1. RiskPoint \in Nat
  BY SMT DEF RiskPoint
<1>2. ASSUME NEW n \in Nat PROVE 0 \in 0..100 * n
  OBVIOUS
<1> QED
  BY <1>1, <1>2

(* Without their risks the signals are signals still.                      *)
LEMMA CalmFacts ==
  ASSUME Signalled(Signals)
  PROVE  Signalled(CalmSignals) /\ SameViews(Signals, CalmSignals)
<1> DEFINE S == Signals
           C == CalmSignals
           Calm(s) == [s EXCEPT !.volatility = 0, !.manipulation = 0]
<1>1. IsSeq(S) /\ Len(S) \in Nat /\ DOMAIN S = 1..Len(S) /\ \A i \in DOMAIN S : IsSignal(S[i])
  BY SignalledFacts DEF Signalled
<1>2. C = [i \in 1..Len(S) |-> Calm(S[i])]
  BY <1>1 DEF CalmSignals
<1>3. ASSUME NEW s, IsSignal(s) PROVE IsSignal(Calm(s)) /\ SameView(s, Calm(s))
  <2>1. Calm(s) =
          [horizon |-> s.horizon, direction |-> s.direction, score |-> s.score,
           strength |-> s.strength, confidence |-> s.confidence,
           volatility |-> 0, manipulation |-> 0]
    <3>1. PICK t : t = [s EXCEPT !.volatility = 0]
      OBVIOUS
    <3>2. s = [horizon |-> s.horizon, direction |-> s.direction, score |-> s.score,
               strength |-> s.strength, confidence |-> s.confidence,
               volatility |-> s.volatility, manipulation |-> s.manipulation]
      BY <1>3 DEF IsSignal
    <3>3. t = [horizon |-> s.horizon, direction |-> s.direction, score |-> s.score,
               strength |-> s.strength, confidence |-> s.confidence,
               volatility |-> 0, manipulation |-> s.manipulation]
      BY <3>1, <3>2
    <3>4. [t EXCEPT !.manipulation = 0] =
            [horizon |-> s.horizon, direction |-> s.direction, score |-> s.score,
             strength |-> s.strength, confidence |-> s.confidence,
             volatility |-> 0, manipulation |-> 0]
      BY <3>3
    <3>5. Calm(s) = [t EXCEPT !.manipulation = 0]
      BY <3>1
    <3> HIDE DEF Calm
    <3> QED
      BY <3>4, <3>5
  <2> HIDE DEF Calm
  <2>2. SignalAccepted(Calm(s))
    <3>1. SignalAccepted(s)
      BY <1>3 DEF IsSignal
    <3> QED
      BY <2>1, <3>1, NoRisk DEF SignalAccepted
  <2> QED
    BY <2>1, <2>2 DEF IsSignal, SameView
<1> HIDE DEF C, S, Calm
<1>4. DOMAIN C = 1..Len(S) /\ C \in [1..Len(S) -> Range(C)]
  BY <1>2 DEF Range
<1>5. IsSeq(C) /\ Len(C) = Len(S)
  <2>1. C \in Seq(Range(C))
    BY <1>1, <1>4, SeqDef
  <2> QED
    BY <1>1, <1>4, <2>1, LenProperties DEF IsSeq
<1>6. \A i \in DOMAIN S : IsSignal(C[i]) /\ SameView(S[i], C[i])
  BY <1>1, <1>2, <1>3
<1>7. Signalled(C)
  <2>1. Len(S) \in 1..8
    BY DEF Signalled, S
  <2> QED
    BY <1>1, <1>4, <1>5, <1>6, <2>1 DEF Signalled
<1> QED
  BY <1>1, <1>4, <1>5, <1>6, <1>7 DEF SameViews, S, C

(* Every field of a decision that the bands alone determine.               *)
FromBands(r, B) ==
  LET d == ConclusionDirection(B)
      a == Alignment(B, d)
      x == StructuralScore(B)
      c == ConflictScore(B, d)
  IN /\ r.direction = d /\ r.structural = StructuralDirection(B) /\ r.score = x
     /\ r.strength = ConclusionStrength(d, x, c)
     /\ r.confidence = ConclusionConfidence(B, a, c)
     /\ r.alignment = a /\ r.conflictType = ConflictType(B) /\ r.conflictScore = c

LEMMA EvaluationFromBands ==
  ASSUME NEW S
  PROVE  /\ FromBands(Evaluate(S), BandDecisions(S))
         /\ Evaluate(S).level = Overall(LevelsOf(S))
         /\ Evaluate(S).posture =
              Posture(Evaluate(S).direction, Evaluate(S).alignment, Overall(LevelsOf(S)))
<1> DEFINE B == BandDecisions(S)
<1>1. PICK d : d = ConclusionDirection(B)
  OBVIOUS
<1>2. Evaluate(S) = Conclusion(S, B, d, Alignment(B, d), StructuralScore(B), ConflictScore(B, d))
  BY <1>1 DEF Evaluate, ConclusionOf
<1> HIDE DEF B
<1>3. ASSUME NEW a, NEW s, NEW c
      PROVE  LET r == Conclusion(S, B, d, a, s, c) IN
             /\ r.direction = d /\ r.structural = StructuralDirection(B) /\ r.score = s
             /\ r.strength = ConclusionStrength(d, s, c)
             /\ r.confidence = ConclusionConfidence(B, a, c)
             /\ r.alignment = a /\ r.conflictType = ConflictType(B) /\ r.conflictScore = c
             /\ r.level = Overall(LevelsOf(S))
             /\ r.posture = Posture(d, a, Overall(LevelsOf(S)))
  BY DEF Conclusion
<1>4. FromBands(Evaluate(S), B)
  BY <1>1, <1>2, <1>3 DEF FromBands
<1> QED
  BY <1>2, <1>3, <1>4 DEF B

LEMMA RiskChangesNothing ==
  ASSUME Signalled(Signals), NEW field \in
           {"direction", "structural", "score", "strength", "confidence",
            "alignment", "conflictType", "conflictScore"}
  PROVE  Evaluate(CalmSignals)[field] = Evaluate(Signals)[field]
<1> DEFINE B == BandDecisions(Signals)
           C == BandDecisions(CalmSignals)
<1>1. SameBands(B, C)
  BY CalmFacts, BandsFacts, SameBandDecisions DEF BandsOf
<1>2. FromBands(Evaluate(Signals), B) /\ FromBands(Evaluate(CalmSignals), C)
  BY EvaluationFromBands
<1> HIDE DEF B, C
<1>3. PICK r, t : r = Evaluate(Signals) /\ t = Evaluate(CalmSignals)
  OBVIOUS
<1>4. PICK d : d = ConclusionDirection(B)
  OBVIOUS
<1>5. /\ ConclusionDirection(C) = d /\ StructuralDirection(C) = StructuralDirection(B)
      /\ Alignment(C, d) = Alignment(B, d) /\ StructuralScore(C) = StructuralScore(B)
      /\ ConflictScore(C, d) = ConflictScore(B, d) /\ ConflictType(C) = ConflictType(B)
      /\ \A a, c : ConclusionConfidence(C, a, c) = ConclusionConfidence(B, a, c)
  BY <1>1, <1>4, SameDirections, SameScores
<1>6. /\ t.direction = r.direction /\ t.structural = r.structural /\ t.score = r.score
      /\ t.strength = r.strength /\ t.confidence = r.confidence
      /\ t.alignment = r.alignment /\ t.conflictType = r.conflictType
      /\ t.conflictScore = r.conflictScore
  BY <1>2, <1>3, <1>4, <1>5 DEF FromBands
<1> QED
  BY <1>3, <1>6

-----------------------------------------------------------------------------
(* Risk levels *)

(* The risk levels, and thresholds that are no more lenient than others.   *)
RiskLevelNames == {"low", "medium", "high", "extreme"}

LEMMA RiskRanks ==
  /\ Rank("low") = 1 /\ Rank("medium") = 2
  /\ Rank("high") = 3 /\ Rank("extreme") = 4
<1>1. /\ LevelOrder[1] = "low" /\ LevelOrder[2] = "medium"
      /\ LevelOrder[3] = "high" /\ LevelOrder[4] = "extreme"
  BY DEF LevelOrder
<1>2. \A i \in 1..4 : i = 1 \/ i = 2 \/ i = 3 \/ i = 4
  OBVIOUS
<1>3. /\ (CHOOSE i \in 1..4 : LevelOrder[i] = "low") = 1
      /\ (CHOOSE i \in 1..4 : LevelOrder[i] = "medium") = 2
      /\ (CHOOSE i \in 1..4 : LevelOrder[i] = "high") = 3
      /\ (CHOOSE i \in 1..4 : LevelOrder[i] = "extreme") = 4
  BY <1>1, <1>2
<1>4. /\ Rank("low") = CHOOSE i \in 1..4 : LevelOrder[i] = "low"
      /\ Rank("medium") = CHOOSE i \in 1..4 : LevelOrder[i] = "medium"
      /\ Rank("high") = CHOOSE i \in 1..4 : LevelOrder[i] = "high"
      /\ Rank("extreme") = CHOOSE i \in 1..4 : LevelOrder[i] = "extreme"
  BY Zenon DEF Rank
<1> QED
  BY <1>3, <1>4

LEMMA WorstOfTwo ==
  ASSUME NEW a \in RiskLevelNames, NEW b \in RiskLevelNames
  PROVE  /\ WorstLevel({a, b}) \in {a, b}
         /\ Rank(a) <= Rank(WorstLevel({a, b})) /\ Rank(b) <= Rank(WorstLevel({a, b}))
<1>1. Rank(a) \in Nat /\ Rank(b) \in Nat
  <2>1. ASSUME NEW l \in RiskLevelNames PROVE Rank(l) \in Nat
    <3>1. l = "low" \/ l = "medium" \/ l = "high" \/ l = "extreme"
      BY DEF RiskLevelNames
    <3> QED
      BY <3>1, RiskRanks
  <2> QED
    BY <2>1
<1>2. \E l \in {a, b} : \A other \in {a, b} : Rank(other) <= Rank(l)
  BY <1>1
<1>3. /\ WorstLevel({a, b}) \in {a, b}
      /\ \A other \in {a, b} : Rank(other) <= Rank(WorstLevel({a, b}))
  BY <1>2 DEF WorstLevel
<1> QED
  BY <1>3

Thresholds(t) ==
  /\ t.medium \in Int /\ t.high \in Int /\ t.extreme \in Int
  /\ t.medium < t.high /\ t.high < t.extreme
Stricter(t, u) == t.medium <= u.medium /\ t.high <= u.high /\ t.extreme <= u.extreme

LEMMA LevelRank ==
  ASSUME NEW t, Thresholds(t), NEW v \in Int
  PROVE  /\ LevelFor(v, t) \in RiskLevelNames
         /\ Rank(LevelFor(v, t)) =
              IF v >= t.extreme THEN 4 ELSE IF v >= t.high THEN 3
              ELSE IF v >= t.medium THEN 2 ELSE 1
<1>1. CASE v >= t.extreme
  <2>1. LevelFor(v, t) = "extreme"
    BY <1>1 DEF LevelFor, Thresholds
  <2> QED
    BY <1>1, <2>1, RiskRanks DEF RiskLevelNames
<1>2. CASE ~(v >= t.extreme) /\ v >= t.high
  <2>1. LevelFor(v, t) = "high"
    BY <1>2 DEF LevelFor, Thresholds
  <2> QED
    BY <1>2, <2>1, RiskRanks DEF RiskLevelNames
<1>3. CASE ~(v >= t.extreme) /\ ~(v >= t.high) /\ v >= t.medium
  <2>1. LevelFor(v, t) = "medium"
    BY <1>3 DEF LevelFor, Thresholds
  <2> QED
    BY <1>3, <2>1, RiskRanks DEF RiskLevelNames
<1>4. CASE ~(v >= t.extreme) /\ ~(v >= t.high) /\ ~(v >= t.medium)
  <2>1. LevelFor(v, t) = "low"
    BY <1>4 DEF LevelFor, Thresholds
  <2> QED
    BY <1>4, <2>1, RiskRanks DEF RiskLevelNames
<1> QED
  BY <1>1, <1>2, <1>3, <1>4

LEMMA LevelRises ==
  ASSUME NEW t, Thresholds(t), NEW u, Thresholds(u), Stricter(t, u),
         NEW v \in Int, NEW w \in Int, v <= w
  PROVE  Rank(LevelFor(v, u)) <= Rank(LevelFor(w, t))
BY LevelRank DEF Thresholds, Stricter

LEMMA KnownThresholds ==
  /\ Thresholds(VolatilityThresholds) /\ Thresholds(ManipulationThresholds)
  /\ Thresholds(Policy.volatility) /\ Thresholds(Policy.manipulation)
<1>1. RiskPoint \in Nat /\ RiskPoint > 0
  BY SMT DEF RiskPoint
<1>2. ASSUME NEW n \in Nat, n > 0
      PROVE  /\ {35 * n, 55 * n, 75 * n, 25 * n, 65 * n} \subseteq Int
             /\ 35 * n < 55 * n /\ 55 * n < 75 * n /\ 25 * n < 35 * n /\ 35 * n < 65 * n
  BY <1>2
<1>3. Thresholds(VolatilityThresholds) /\ Thresholds(ManipulationThresholds)
  BY <1>1, <1>2 DEF Thresholds, VolatilityThresholds, ManipulationThresholds
<1>4. OrderedThresholds(Policy.volatility) /\ OrderedThresholds(Policy.manipulation)
  BY PolicyAssumption DEF PolicyAccepted
<1>5. ASSUME NEW t, OrderedThresholds(t) PROVE Thresholds(t)
  <2>1. /\ {t.medium, t.high, t.extreme} \subseteq 0..100 * RiskPoint
        /\ t.medium < t.high /\ t.high < t.extreme
    BY <1>5 DEF OrderedThresholds
  <2>2. 0..100 * RiskPoint \subseteq Int
    BY <1>1
  <2> QED
    BY <2>1, <2>2 DEF Thresholds
<1> QED
  BY <1>3, <1>4, <1>5

-----------------------------------------------------------------------------
(* The risk of the whole *)

LEMMA LargestIs ==
  ASSUME NEW S, IsFiniteSet(S), S \subseteq Int
  PROVE  /\ Largest(S) \in Int /\ Largest(S) >= 0 /\ Largest(S) \in S \cup {0}
         /\ \A y \in S : y <= Largest(S)
<1> DEFINE T == S \cup {0}
<1>1. IsFiniteSet(T) /\ T \subseteq Int /\ T # {} /\ 0 \in T /\ S \subseteq T
  BY FS_AddElement
<1>2. Largest(S) = Max(T)
  BY DEF Largest
<1> HIDE DEF T
<1>3. Max(T) \in T /\ \A y \in T : y <= Max(T)
  BY <1>1, Greatest
<1> QED
  BY <1>1, <1>2, <1>3 DEF T

(* The risk of the whole is at least that of every signal.                 *)
LEMMA RiskOfAll ==
  ASSUME NEW S, Signalled(S)
  PROVE  /\ Volatility(S) \in Int /\ Manipulation(S) \in Int
         /\ \A i \in DOMAIN S :
              /\ S[i].volatility \in Int /\ S[i].volatility <= Volatility(S)
              /\ S[i].manipulation \in Int /\ S[i].manipulation <= Manipulation(S)
<1> DEFINE V == {S[i].volatility : i \in DOMAIN S}
           M == {S[i].manipulation : i \in DOMAIN S}
<1>1. 0..100 * RiskPoint \subseteq Int /\ IsFiniteSet(0..100 * RiskPoint)
  <2>1. ASSUME NEW n \in Nat PROVE 0..100 * n \subseteq Int /\ IsFiniteSet(0..100 * n)
    BY FS_Interval
  <2> QED
    BY <2>1, NoRisk
<1>2. \A i \in DOMAIN S : {S[i].volatility, S[i].manipulation} \subseteq 0..100 * RiskPoint
  <2>1. \A i \in DOMAIN S : SignalAccepted(S[i])
    BY DEF Signalled, IsSignal
  <2> QED
    BY <2>1 DEF SignalAccepted
<1>3. V \subseteq 0..100 * RiskPoint /\ M \subseteq 0..100 * RiskPoint
  BY <1>2
<1>4. IsFiniteSet(V) /\ IsFiniteSet(M) /\ V \subseteq Int /\ M \subseteq Int
  <2> HIDE DEF V, M
  <2> QED
    BY <1>1, <1>3, FS_Subset
<1>5. Volatility(S) = Largest(V) /\ Manipulation(S) = Largest(M)
  BY DEF Volatility, Manipulation
<1>6. \A i \in DOMAIN S : S[i].volatility \in V /\ S[i].manipulation \in M
  OBVIOUS
<1>7. \A i \in DOMAIN S : S[i].volatility \in Int /\ S[i].manipulation \in Int
  BY <1>1, <1>2
<1> HIDE DEF V, M
<1> QED
  BY <1>4, <1>5, <1>6, <1>7, LargestIs

LEMMA AssessmentIs ==
  ASSUME NEW h, NEW v, NEW d, d = Assessment(h, v)
  PROVE  /\ d.level = WorstLevel({LevelFor(d.volatility, VolatilityThresholds),
                                  LevelFor(d.manipulation, ManipulationThresholds)})
         /\ d.posture = ReportPosture(d.direction, d.level)
BY DEF Assessment

(* No default threshold is stricter than the policy's.                     *)
NoMoreLenient ==
  /\ Stricter(Policy.volatility, VolatilityThresholds)
  /\ Stricter(Policy.manipulation, ManipulationThresholds)

LEMMA LevelCovers ==
  ASSUME NoMoreLenient, NEW S, Signalled(S), NEW i \in DOMAIN S, NEW h, NEW v, NEW d,
         d = Assessment(h, v), d.volatility = S[i].volatility, d.manipulation = S[i].manipulation
  PROVE  /\ d.level \in RiskLevelNames /\ Overall(LevelsOf(S)) \in RiskLevelNames
         /\ Rank(d.level) <= Rank(Overall(LevelsOf(S)))
<1> DEFINE a == LevelFor(d.volatility, VolatilityThresholds)
           b == LevelFor(d.manipulation, ManipulationThresholds)
           A == LevelFor(Volatility(S), Policy.volatility)
           B == LevelFor(Manipulation(S), Policy.manipulation)
<1>1. /\ Volatility(S) \in Int /\ Manipulation(S) \in Int
      /\ d.volatility \in Int /\ d.volatility <= Volatility(S)
      /\ d.manipulation \in Int /\ d.manipulation <= Manipulation(S)
  BY RiskOfAll
<1>2. /\ a \in RiskLevelNames /\ b \in RiskLevelNames
      /\ A \in RiskLevelNames /\ B \in RiskLevelNames
  BY <1>1, KnownThresholds, LevelRank
<1>3. Rank(a) <= Rank(A) /\ Rank(b) <= Rank(B)
  BY <1>1, KnownThresholds, LevelRises DEF NoMoreLenient
<1>4. d.level = WorstLevel({a, b})
  BY AssessmentIs
<1>5. Overall(LevelsOf(S)) = WorstLevel({A, B})
  BY DEF Overall, LevelsOf, RiskLevels
<1> HIDE DEF a, b, A, B
<1>6. /\ WorstLevel({a, b}) \in {a, b} /\ WorstLevel({A, B}) \in {A, B}
      /\ Rank(A) <= Rank(WorstLevel({A, B})) /\ Rank(B) <= Rank(WorstLevel({A, B}))
  BY <1>2, WorstOfTwo
<1>7. \A l \in RiskLevelNames : Rank(l) \in Nat
  BY RiskRanks DEF RiskLevelNames
<1> QED
  BY <1>2, <1>3, <1>4, <1>5, <1>6, <1>7

LEMMA PosturesByLevel ==
  ASSUME NEW d, NEW a, NEW l \in RiskLevelNames
  PROVE  /\ Posture(d, a, l) = "cautious_follow" => l = "low" /\ d \in Directional
         /\ Rank(l) >= 3 => Posture(d, a, l) \in {"reduce_exposure", "avoid_chasing"}
         /\ ReportPosture(d, l) \in {"reduce_exposure", "avoid_chasing"} => Rank(l) >= 3
<1>1. CASE l = "low" \/ l = "medium"
  <2>1. ~(Rank(l) >= 3)
    BY <1>1, RiskRanks
  <2>2. Posture(d, a, l) = "cautious_follow" => l = "low" /\ d \in Directional
    BY <1>1 DEF Posture
  <2>3. ReportPosture(d, l) \notin {"reduce_exposure", "avoid_chasing"}
    BY <1>1 DEF ReportPosture
  <2> QED
    BY <2>1, <2>2, <2>3
<1>2. CASE l = "high" \/ l = "extreme"
  <2>1. Rank(l) >= 3
    BY <1>2, RiskRanks
  <2>2. Posture(d, a, l) \in {"reduce_exposure", "avoid_chasing"}
    BY <1>2 DEF Posture
  <2> QED
    BY <2>1, <2>2
<1> QED
  BY <1>1, <1>2 DEF RiskLevelNames

(* Without its risks a decision would differ in nothing but its posture,   *)
(* and where no threshold of the policy is more lenient than the reports'  *)
(* own, no posture is bolder than the risk of any one report.              *)
THEOREM RiskCoversThePosture ==
  ASSUME NoMoreLenient
  PROVE  Spec => []RiskOnlyCoversPosture
<1>1. IInv /\ DecisionInv => RiskOnlyCoversPosture
  <2> SUFFICES ASSUME IInv, DecisionInv, decision # NoDecision
               PROVE  RiskOnlyCoversPosture
    BY DEF RiskOnlyCoversPosture
  <2>1. Signalled(Signals) /\ decision = Evaluate(Signals) /\ pc \in Ended
    BY DecisionIs DEF Concluded
  <2>2. PICK l : l = Overall(LevelsOf(Signals))
    OBVIOUS
  <2>3. /\ decision.level = l
        /\ decision.posture = Posture(decision.direction, decision.alignment, l)
    BY <2>1, <2>2, EvaluationFromBands
  <2>4. /\ analysis.reports = completed /\ DOMAIN Signals = DOMAIN completed
        /\ DOMAIN completed = 1..Len(completed)
        /\ \A i \in DOMAIN Signals :
             /\ Signals[i].volatility = completed[i].decision.volatility
             /\ Signals[i].manipulation = completed[i].decision.manipulation
    <3>1. /\ analysis.reports = completed
          /\ DOMAIN Signals = 1..Len(completed) /\ DOMAIN completed = 1..Len(completed)
          /\ \A i \in DOMAIN Signals :
               LET d == completed[i].decision IN
               Signals[i] =
                 [horizon |-> completed[i].horizon, direction |-> d.direction,
                  score |-> d.score, strength |-> d.strength, confidence |-> d.confidence,
                  volatility |-> d.volatility, manipulation |-> d.manipulation]
      BY <2>1, SignalsFacts
    <3> HIDE DEF Signals
    <3> QED
      BY <3>1
  <2>5. ASSUME NEW i \in DOMAIN Signals
        PROVE  \E h, v : completed[i].decision = Assessment(h, v)
    BY <2>4 DEF DecisionInv
  <2>6. ASSUME NEW i \in DOMAIN analysis.reports
        PROVE  LET report == analysis.reports[i].decision
               IN /\ report.level \in RiskLevelNames /\ l \in RiskLevelNames
                  /\ Rank(report.level) <= Rank(l)
                  /\ report.posture = ReportPosture(report.direction, report.level)
    <3>1. i \in DOMAIN Signals /\ analysis.reports[i] = completed[i]
      BY <2>4
    <3>2. PICK d : d = completed[i].decision
      OBVIOUS
    <3>3. PICK h, v : d = Assessment(h, v)
      BY <2>5, <3>1, <3>2
    <3>4. d.volatility = Signals[i].volatility /\ d.manipulation = Signals[i].manipulation
      BY <2>4, <3>1, <3>2
    <3>5. /\ d.level \in RiskLevelNames /\ l \in RiskLevelNames /\ Rank(d.level) <= Rank(l)
      BY <2>1, <2>2, <3>1, <3>3, <3>4, LevelCovers
    <3>6. d.posture = ReportPosture(d.direction, d.level)
      BY <3>3, AssessmentIs
    <3> QED
      BY <3>1, <3>2, <3>5, <3>6
  <2>7. l \in RiskLevelNames
    <3>1. Volatility(Signals) \in Int /\ Manipulation(Signals) \in Int
      BY <2>1, RiskOfAll
    <3> QED
      BY <2>2, <3>1, KnownThresholds, LevelRank, WorstOfTwo DEF Overall, LevelsOf, RiskLevels
  <2>8. \A n \in RiskLevelNames : Rank(n) \in Nat
    BY RiskRanks DEF RiskLevelNames
  <2>9. \A field \in {"direction", "structural", "score", "strength", "confidence",
                      "alignment", "conflictType", "conflictScore"} :
          Evaluate(CalmSignals)[field] = decision[field]
    BY <2>1, RiskChangesNothing
  <2>10. decision.posture = "cautious_follow" =>
           decision.level = "low" /\ decision.direction \in Directional
    <3>1. PICK d, a : d = decision.direction /\ a = decision.alignment
      OBVIOUS
    <3>2. Posture(d, a, l) = "cautious_follow" => l = "low" /\ d \in Directional
      BY <2>7, PosturesByLevel
    <3> QED
      BY <2>3, <3>1, <3>2
  <2>11. ASSUME NEW i \in DOMAIN analysis.reports
         PROVE  LET report == analysis.reports[i].decision
                IN /\ Rank(report.level) <= Rank(decision.level)
                   /\ report.posture \in {"reduce_exposure", "avoid_chasing"} =>
                        decision.posture \in {"reduce_exposure", "avoid_chasing"}
    <3>1. PICK d : d = analysis.reports[i].decision
      OBVIOUS
    <3>2. /\ d.level \in RiskLevelNames /\ Rank(d.level) <= Rank(l)
          /\ d.posture = ReportPosture(d.direction, d.level)
      BY <2>6, <3>1
    <3>3. d.posture \in {"reduce_exposure", "avoid_chasing"} => Rank(d.level) >= 3
      <4>1. PICK e, n : e = d.direction /\ n = d.level
        OBVIOUS
      <4>2. ReportPosture(e, n) \in {"reduce_exposure", "avoid_chasing"} => Rank(n) >= 3
        BY <3>2, <4>1, PosturesByLevel
      <4> QED
        BY <3>2, <4>1, <4>2
    <3>4. Rank(d.level) >= 3 => Rank(l) >= 3
      BY <2>7, <2>8, <3>2
    <3>5. Rank(l) >= 3 => decision.posture \in {"reduce_exposure", "avoid_chasing"}
      BY <2>3, <2>7, PosturesByLevel
    <3> QED
      BY <2>3, <3>1, <3>2, <3>3, <3>4, <3>5
  <2> QED
    BY <2>9, <2>10, <2>11 DEF RiskOnlyCoversPosture
<1> QED
  BY <1>1, DecisionInvariance, PTL

-----------------------------------------------------------------------------
(* Mirrored signals *)

(* Sums of a few integers: within a band, and over the bands.              *)
LEMMA WeightIs == ASSUME NEW i \in 1..8 PROVE Weight(i) \in Nat /\ Weight(i) >= 1
<1>1. PICK w : w = << 1, 2, 4, 8, 16, 32, 64, 128 >>
  OBVIOUS
<1>2. w[1] = 1 /\ w[2] = 2 /\ w[3] = 4 /\ w[4] = 8
  BY <1>1
<1>3. w[5] = 16 /\ w[6] = 32 /\ w[7] = 64 /\ w[8] = 128
  BY <1>1
<1>4. w[i] \in Nat /\ w[i] >= 1
  BY <1>2, <1>3
<1> QED
  BY <1>1, <1>4 DEF Weight

LEMMA FewAreFinite == ASSUME NEW I, I \subseteq 1..8 PROVE IsFiniteSet(I)
<1>1. ASSUME NEW n \in Nat PROVE IsFiniteSet(1..n)
  BY FS_Interval
<1>2. IsFiniteSet(1..8)
  BY <1>1
<1> QED
  BY <1>2, FS_Subset

LEMMA WeightedSums ==
  ASSUME NEW I, I \subseteq 1..8, NEW f, NEW g, DOMAIN f = I, DOMAIN g = I,
         \A i \in I : f[i] \in Int /\ g[i] = -f[i]
  PROVE  Weighted(f) \in Int /\ Weighted(g) = -Weighted(f)
<1> DEFINE F == [i \in I |-> f[i] * Weight(i)]
           G == [i \in I |-> g[i] * Weight(i)]
<1>1. IsFiniteSet(I)
  BY FewAreFinite
<1>2. \A i \in I : Weight(i) \in Int
  BY WeightIs
<1>3. ASSUME NEW a \in Int, NEW w \in Int PROVE a * w \in Int /\ (-a) * w = -(a * w)
  OBVIOUS
<1>4. \A i \in I : F[i] \in Int /\ G[i] = -F[i]
  BY <1>2, <1>3
<1>5. Weighted(f) = SumFunctionOnSet(F, I) /\ Weighted(g) = SumFunctionOnSet(G, I)
  BY DEF Weighted, SumFunction
<1> HIDE DEF F, G
<1>6. /\ SumFunctionOnSet(F, I) \in Int
      /\ SumFunctionOnSet(G, I) = -SumFunctionOnSet(F, I)
  BY <1>1, <1>4, SumOfNegatives
<1> QED
  BY <1>5, <1>6

LEMMA TotalWeightIs ==
  ASSUME NEW I, I \subseteq 1..8
  PROVE  TotalWeight(I) \in Int /\ (I # {} => TotalWeight(I) > 0)
<1> DEFINE F == [i \in I |-> Weight(i)]
<1>1. IsFiniteSet(I)
  BY FewAreFinite
<1>2. \A i \in I : F[i] \in Nat /\ F[i] >= 1
  BY WeightIs
<1>3. TotalWeight(I) = SumFunctionOnSet(F, I)
  BY DEF TotalWeight, SumFunction
<1> HIDE DEF F
<1>4. TotalWeight(I) \in Nat /\ \A i \in I : F[i] <= TotalWeight(I)
  BY <1>1, <1>2, <1>3, SumsCover
<1>5. ASSUME I # {} PROVE TotalWeight(I) > 0
  <2>1. PICK i \in I : TRUE
    BY <1>5
  <2>2. F[i] \in Nat /\ F[i] >= 1 /\ F[i] <= TotalWeight(I)
    BY <1>2, <1>4
  <2> QED
    BY <1>4, <2>2
<1> QED
  BY <1>4, <1>5

(* The other side.                                                         *)
Directions == {"bullish", "bearish", "neutral", "conflict"}

LEMMA MirrorIs ==
  ASSUME NEW d \in Directions
  PROVE  /\ Mirror(d) \in Directions /\ Mirror(Mirror(d)) = d
         /\ Mirror(d) \in Directional <=> d \in Directional
         /\ Mirror(d) = "conflict" <=> d = "conflict"
         /\ Mirror(d) = "neutral" <=> d = "neutral"
         /\ d \in {"neutral", "conflict"} => Mirror(d) = d
         /\ Mirror(d) = "bullish" <=> d = "bearish"
         /\ Mirror(d) = "bearish" <=> d = "bullish"
BY DEF Directions, Mirror, Directional

MirroredView(s, t) ==
  /\ t.horizon = s.horizon /\ t.strength = s.strength /\ t.confidence = s.confidence
  /\ t.volatility = s.volatility /\ t.manipulation = s.manipulation
  /\ t.direction = Mirror(s.direction) /\ t.score = -s.score
  /\ s.direction \in Directions /\ s.score \in Int
  /\ s.strength \in Int /\ s.confidence \in Int
MirroredViews(m, w) ==
  /\ Len(m) \in Nat /\ Len(m) <= 8
  /\ IsSeq(m) /\ IsSeq(w) /\ Len(w) = Len(m) /\ DOMAIN m = 1..Len(m) /\ DOMAIN w = 1..Len(m)
  /\ \A i \in DOMAIN m : MirroredView(m[i], w[i])

LEMMA AbsIs ==
  ASSUME NEW x \in Int
  PROVE  Abs(x) \in Int /\ Abs(x) >= 0 /\ Abs(-x) = Abs(x) /\ -(-x) = x
BY DEF Abs

LEMMA MirroredGroups ==
  ASSUME NEW S, NEW M, MirroredViews(S, M)
  PROVE  /\ \A b : MirroredViews(Group(S, b), Group(M, b))
         /\ Present(M) = Present(S)
<1>1. IsSeq(S) /\ IsSeq(M) /\ Len(M) = Len(S) /\ \A i \in DOMAIN S : M[i].horizon = S[i].horizon
  BY DEF MirroredViews, MirroredView
<1>2. /\ \A b : Paired(Group(S, b), Group(M, b), S, M)
      /\ Present(M) = Present(S)
  BY <1>1, SamePositions
<1>3. ASSUME NEW b PROVE Len(Group(S, b)) \in Nat /\ Len(Group(S, b)) <= 8
  <2>1. PICK at : at = {i \in DOMAIN S : BandOf(S[i].horizon) = b}
    OBVIOUS
  <2>2. PICK G : G = Group(S, b)
    OBVIOUS
  <2>3. KeptOf(S, at, G)
    BY <1>1, <2>1, <2>2, KeptMembers DEF Group
  <2>4. Len(G) \in Nat /\ Len(G) <= Len(S)
    BY <2>3 DEF KeptOf
  <2>5. Len(S) \in Nat /\ Len(S) <= 8
    BY DEF MirroredViews
  <2>6. ASSUME NEW x \in Nat, NEW y \in Nat, x <= y, y <= 8 PROVE x <= 8
    BY <2>6
  <2>7. Len(G) <= 8
    BY <2>4, <2>5, <2>6
  <2> QED
    BY <2>2, <2>4, <2>7
<1>4. ASSUME NEW G, NEW H, Len(G) \in Nat, Len(G) <= 8, Paired(G, H, S, M) PROVE MirroredViews(G, H)
  <2>1. \A k \in DOMAIN G : MirroredView(G[k], H[k])
    BY <1>4 DEF Paired, MirroredViews
  <2> QED
    BY <1>4, <2>1 DEF Paired, MirroredViews
<1> QED
  BY <1>2, <1>3, <1>4

LEMMA MirroredSides ==
  ASSUME NEW m, NEW w, MirroredViews(m, w)
  PROVE  /\ QualifiedIn(w) = QualifiedIn(m)
         /\ "bullish" \in QualifiedDirections(w) <=> "bearish" \in QualifiedDirections(m)
         /\ "bearish" \in QualifiedDirections(w) <=> "bullish" \in QualifiedDirections(m)
         /\ SomeMaterialConflict(w) <=> SomeMaterialConflict(m)
         /\ \A i \in DOMAIN m : MaterialConflict(w[i]) <=> MaterialConflict(m[i])
         /\ DOMAIN w = DOMAIN m /\ Len(w) = Len(m)
<1>1. DOMAIN w = DOMAIN m /\ Len(w) = Len(m) /\ \A i \in DOMAIN m : MirroredView(m[i], w[i])
  BY DEF MirroredViews
<1>2. \A i \in DOMAIN m : Qualified(w[i]) <=> Qualified(m[i])
  <2> TAKE i \in DOMAIN m
  <2>1. /\ m[i].direction \in Directions /\ w[i].direction = Mirror(m[i].direction)
        /\ m[i].score \in Int /\ w[i].score = -m[i].score
    BY <1>1 DEF MirroredView
  <2>3. /\ w[i].direction \in Directional <=> m[i].direction \in Directional
        /\ Abs(w[i].score) = Abs(m[i].score)
    BY <2>1, MirrorIs, AbsIs
  <2>2. w[i].strength = m[i].strength /\ w[i].confidence = m[i].confidence
    BY <1>1 DEF MirroredView
  <2> QED
    BY <2>2, <2>3 DEF Qualified, Substantial
<1>3. \A i \in DOMAIN m : MaterialConflict(w[i]) <=> MaterialConflict(m[i])
  <2> TAKE i \in DOMAIN m
  <2>1. w[i].direction = "conflict" <=> m[i].direction = "conflict"
    BY <1>1, MirrorIs DEF MirroredView
  <2>2. w[i].strength = m[i].strength /\ w[i].confidence = m[i].confidence
    BY <1>1 DEF MirroredView
  <2> QED
    BY <2>1, <2>2 DEF MaterialConflict, Substantial
<1>4. QualifiedIn(w) = QualifiedIn(m) /\ QualifiedIn(m) \subseteq DOMAIN m
  BY <1>1, <1>2 DEF QualifiedIn
<1>5. \A i \in DOMAIN m : /\ w[i].direction = "bullish" <=> m[i].direction = "bearish"
                          /\ w[i].direction = "bearish" <=> m[i].direction = "bullish"
  BY <1>1, MirrorIs DEF MirroredView
<1>6. /\ "bullish" \in QualifiedDirections(w) <=> "bearish" \in QualifiedDirections(m)
      /\ "bearish" \in QualifiedDirections(w) <=> "bullish" \in QualifiedDirections(m)
  BY <1>4, <1>5 DEF QualifiedDirections
<1>7. SomeMaterialConflict(w) <=> SomeMaterialConflict(m)
  BY <1>1, <1>3 DEF SomeMaterialConflict
<1> QED
  BY <1>1, <1>3, <1>4, <1>6, <1>7

LEMMA MirroredVerdict ==
  ASSUME NEW D, NEW E, D \subseteq Directional, E \subseteq Directional,
         "bullish" \in E <=> "bearish" \in D, "bearish" \in E <=> "bullish" \in D, NEW c
  PROVE  Verdict(D, c) \in Directions /\ Verdict(E, c) = Mirror(Verdict(D, c))
<1>1. /\ E = Directional <=> D = Directional
      /\ E = {"bullish"} <=> D = {"bearish"}
      /\ E = {"bearish"} <=> D = {"bullish"}
  BY DEF Directional
<1>2. {"bullish"} # {"bearish"}
  OBVIOUS
<1>3. CASE D = Directional \/ c
  BY <1>1, <1>3 DEF Verdict, Mirror, Directions
<1>4. CASE D # Directional /\ ~c /\ D = {"bullish"}
  BY <1>1, <1>2, <1>4 DEF Verdict, Mirror, Directions
<1>5. CASE D # Directional /\ ~c /\ D = {"bearish"}
  BY <1>1, <1>2, <1>5 DEF Verdict, Mirror, Directions
<1>6. CASE D # Directional /\ ~c /\ D # {"bullish"} /\ D # {"bearish"}
  BY <1>1, <1>6 DEF Verdict, Mirror, Directions
<1> QED
  BY <1>3, <1>4, <1>5, <1>6

LEMMA WeightedIsInt ==
  ASSUME NEW I, I \subseteq 1..8, NEW f, DOMAIN f = I, \A i \in I : f[i] \in Int
  PROVE  Weighted(f) \in Int
<1>1. PICK g : g = [i \in I |-> -f[i]]
  OBVIOUS
<1>2. DOMAIN g = I /\ \A i \in I : f[i] \in Int /\ g[i] = -f[i]
  BY <1>1
<1> QED
  BY <1>2, WeightedSums

LEMMA OppositionIsSymmetric ==
  ASSUME NEW x \in Int, NEW y \in Int
  PROVE  Opposition(x, y) = Opposition(y, x)
<1>1. x + y = y + x /\ {x, y} = {y, x}
  OBVIOUS
<1>2. x > 0 /\ y > 0 <=> y > 0 /\ x > 0
  OBVIOUS
<1>3. PICK lo, sum : lo = Min({x, y}) /\ sum = x + y
  OBVIOUS
<1>4. Min({y, x}) = lo /\ y + x = sum
  BY <1>1, <1>3
<1> QED
  BY <1>2, <1>3, <1>4 DEF Opposition

(* The strength of a conclusion does not see its side.                     *)
LEMMA StrengthIsMirrored ==
  ASSUME NEW d \in Directions, NEW x \in Int, NEW c
  PROVE  ConclusionStrength(Mirror(d), -x, c) = ConclusionStrength(d, x, c)
<1>1. Abs(-x) = Abs(x)
  BY AbsIs
<1>2. StrengthOf(-x) = StrengthOf(x)
  BY <1>1 DEF StrengthOf
<1>3. d \in Directional => Mirror(d) \in Directional
  BY MirrorIs
<1>4. CASE d \in Directional
  <2>1. d # "conflict" /\ Mirror(d) # "conflict"
    BY <1>3, <1>4 DEF Directional
  <2> QED
    BY <1>2, <1>3, <1>4, <2>1 DEF ConclusionStrength
<1>5. CASE d \notin Directional
  <2>1. Mirror(d) = d
    BY <1>5 DEF Directions, Directional, Mirror
  <2> QED
    BY <1>1, <1>5, <2>1 DEF ConclusionStrength
<1> QED
  BY <1>4, <1>5

(* What the mirrored members of a band come to.                            *)
LEMMA MirroredBandScore ==
  ASSUME NEW m, NEW w, MirroredViews(m, w), m # << >>
  PROVE  BandScore(m) \in Int /\ BandScore(w) = -BandScore(m)
<1> DEFINE I == Counted(m)
           f == [i \in I |-> m[i].score]
           g == [i \in I |-> w[i].score]
<1>1. DOMAIN m # {} /\ DOMAIN m \subseteq 1..8
  <2>1. Len(m) \in Nat /\ Len(m) <= 8 /\ DOMAIN m = 1..Len(m) /\ IsSeq(m)
    BY DEF MirroredViews
  <2>2. Len(m) # 0
    BY <2>1, SeqFacts
  <2>3. 1 \in DOMAIN m
    BY <2>1, <2>2
  <2>4. DOMAIN m \subseteq 1..8
    BY <2>1
  <2> QED
    BY <2>3, <2>4
<1>2. QualifiedIn(w) = QualifiedIn(m) /\ DOMAIN w = DOMAIN m
  BY MirroredSides
<1>3. I \subseteq DOMAIN m /\ I # {} /\ Counted(w) = I
  BY <1>1, <1>2, BandParts DEF Counted
<1>4. \A i \in DOMAIN m : m[i].score \in Int /\ w[i].score = -m[i].score
  BY DEF MirroredViews, MirroredView
<1>5. /\ BandScore(m) = Round(Weighted(f), TotalWeight(I))
      /\ BandScore(w) = Round(Weighted(g), TotalWeight(I))
  BY <1>3, BandParts
<1>6. DOMAIN f = I /\ DOMAIN g = I /\ \A i \in I : f[i] \in Int /\ g[i] = -f[i]
  BY <1>3, <1>4
<1>7. I \subseteq 1..8
  BY <1>1, <1>3
<1> HIDE DEF I, f, g
<1>8. Weighted(f) \in Int /\ Weighted(g) = -Weighted(f)
  BY <1>6, <1>7, WeightedSums
<1>9. TotalWeight(I) \in Int /\ TotalWeight(I) > 0
  BY <1>3, <1>7, TotalWeightIs
<1> QED
  BY <1>5, <1>8, <1>9, RoundOfNegative

LEMMA MirroredBandConflict ==
  ASSUME NEW m, NEW w, MirroredViews(m, w)
  PROVE  BandConflictScore(w) = BandConflictScore(m)
<1>1. DOMAIN m \subseteq 1..8
  <2>1. Len(m) \in Nat /\ Len(m) <= 8 /\ DOMAIN m = 1..Len(m)
    BY DEF MirroredViews
  <2> QED
    BY <2>1
<1>2. /\ QualifiedIn(w) = QualifiedIn(m) /\ DOMAIN w = DOMAIN m
      /\ \A i \in DOMAIN m : MaterialConflict(w[i]) <=> MaterialConflict(m[i])
  BY MirroredSides
<1>3. \A d : OnSide(m, d) \subseteq DOMAIN m /\ QualifiedIn(m) \subseteq DOMAIN m
  BY BandParts
<1>4. \A i \in DOMAIN m : MirroredView(m[i], w[i])
  BY DEF MirroredViews
<1>5. ASSUME NEW d \in Directions PROVE OnSide(w, Mirror(d)) = OnSide(m, d)
  <2>1. \A i \in DOMAIN m : w[i].direction = Mirror(d) <=> m[i].direction = d
    <3> TAKE i \in DOMAIN m
    <3>1. m[i].direction \in Directions /\ w[i].direction = Mirror(m[i].direction)
      BY <1>4 DEF MirroredView
    <3> QED
      BY <3>1, MirrorIs
  <2> QED
    BY <1>2, <1>3, <2>1 DEF OnSide
<1>6. ASSUME NEW d \in Directions
      PROVE  Support(m, d) \in Int /\ Support(w, Mirror(d)) = Support(m, d)
  <2> DEFINE I == OnSide(m, d)
             f == [i \in I |-> Abs(m[i].score)]
             g == [i \in I |-> Abs(w[i].score)]
  <2>1. \A i \in DOMAIN m : Abs(m[i].score) \in Int /\ Abs(w[i].score) = Abs(m[i].score)
    BY <1>4, AbsIs DEF MirroredView
  <2>2. I \subseteq DOMAIN m
    BY <1>3
  <2>3. f = g /\ DOMAIN f = I /\ \A i \in I : f[i] \in Int
    BY <2>1, <2>2
  <2>4. Support(m, d) = Weighted(f) /\ Support(w, Mirror(d)) = Weighted(g)
    BY <1>5 DEF Support
  <2> HIDE DEF I, f, g
  <2>5. Weighted(f) \in Int
    BY <1>1, <2>2, <2>3, WeightedIsInt
  <2> QED
    BY <2>3, <2>4, <2>5
<1>7. /\ Support(m, "bullish") \in Int /\ Support(m, "bearish") \in Int
      /\ Support(w, "bearish") = Support(m, "bullish")
      /\ Support(w, "bullish") = Support(m, "bearish")
  <2>1. /\ "bullish" \in Directions /\ "bearish" \in Directions
        /\ Mirror("bullish") = "bearish" /\ Mirror("bearish") = "bullish"
    BY DEF Directions, Mirror
  <2> QED
    BY <1>6, <2>1
<1>8. Explicit(w) = Explicit(m)
  <2>1. {k \in DOMAIN w : MaterialConflict(w[k])} = {k \in DOMAIN m : MaterialConflict(m[k])}
    BY <1>2
  <2>2. \A i \in DOMAIN m : w[i].strength = m[i].strength /\ w[i].confidence = m[i].confidence
    BY <1>4 DEF MirroredView
  <2> QED
    BY <2>1, <2>2 DEF Explicit
<1>9. Opposition(Support(w, "bullish"), Support(w, "bearish"))
        = Opposition(Support(m, "bullish"), Support(m, "bearish"))
  BY <1>7, OppositionIsSymmetric
<1> QED
  BY <1>8, <1>9, BandParts

LEMMA MirroredBandDirection ==
  ASSUME NEW m, NEW w, MirroredViews(m, w), m # << >>
  PROVE  BandDirection(m) \in Directions /\ BandDirection(w) = Mirror(BandDirection(m))
<1>1. /\ "bullish" \in QualifiedDirections(w) <=> "bearish" \in QualifiedDirections(m)
      /\ "bearish" \in QualifiedDirections(w) <=> "bullish" \in QualifiedDirections(m)
      /\ SomeMaterialConflict(w) <=> SomeMaterialConflict(m)
      /\ \A i \in DOMAIN m : MaterialConflict(w[i]) <=> MaterialConflict(m[i])
      /\ DOMAIN w = DOMAIN m /\ Len(w) = Len(m)
  BY MirroredSides
<1>2. QualifiedDirections(w) \subseteq Directional /\ QualifiedDirections(m) \subseteq Directional
  BY SidesAreDirections
<1>3. QualifiedDirections(w) = {} <=> QualifiedDirections(m) = {}
  BY <1>1, <1>2 DEF Directional
<1>4. Len(m) \in DOMAIN m /\ Last(m) = m[Len(m)] /\ Last(w) = w[Len(m)]
  <2>1. Len(m) # 0 /\ Len(m) \in Nat /\ DOMAIN m = 1..Len(m)
    BY SeqFacts DEF MirroredViews
  <2> QED
    BY <1>1, <2>1 DEF Last
<1>5. BandConflicted(w) <=> BandConflicted(m)
  BY <1>1, <1>3, <1>4 DEF BandConflicted
<1>6. BandDirection(w) = Verdict(QualifiedDirections(w), BandConflicted(m))
  BY <1>5, BandVerdict DEF Verdict
<1>7. BandDirection(m) = Verdict(QualifiedDirections(m), BandConflicted(m))
  BY BandVerdict
<1>8. PICK c : c = BandConflicted(m)
  OBVIOUS
<1>9. /\ Verdict(QualifiedDirections(m), c) \in Directions
      /\ Verdict(QualifiedDirections(w), c) = Mirror(Verdict(QualifiedDirections(m), c))
  BY <1>1, <1>2, MirroredVerdict
<1> QED
  BY <1>6, <1>7, <1>8, <1>9

-----------------------------------------------------------------------------
(* Mirrored bands *)

LEMMA SameHorizons ==
  ASSUME NEW m, NEW w, DOMAIN w = DOMAIN m, \A i \in DOMAIN m : w[i].horizon = m[i].horizon
  PROVE  Horizons(w) = Horizons(m)
BY DEF Horizons

LEMMA MirroredRecord ==
  ASSUME NEW b, NEW h, NEW q, NEW n, NEW e, NEW o, NEW y, NEW k, NEW s, NEW z, NEW v,
         NEW u, NEW l
  PROVE  LET Of(i, j) == [band |-> b, horizons |-> h, qualified |-> q, anchor |-> n,
                          direction |-> i, alignment |-> o, score |-> j,
                          conflictScore |-> k, strength |-> s, confidence |-> z,
                          volatility |-> v, manipulation |-> u, level |-> l]
         IN /\ Of(e, y).direction = e /\ Of(e, y).score = y
            /\ Mirrored(Of(e, y)) = Of(Mirror(e), -y)
<1> DEFINE Of(i, j) == [band |-> b, horizons |-> h, qualified |-> q, anchor |-> n,
                        direction |-> i, alignment |-> o, score |-> j,
                        conflictScore |-> k, strength |-> s, confidence |-> z,
                        volatility |-> v, manipulation |-> u, level |-> l]
<1>1. PICK f : f = Mirror(e)
  OBVIOUS
<1>2. [Of(e, y) EXCEPT !.direction = f] = Of(f, y)
  OBVIOUS
<1>3. [Of(f, y) EXCEPT !.score = -y] = Of(f, -y)
  OBVIOUS
<1>4. Of(e, y).direction = e /\ Of(e, y).score = y
  OBVIOUS
<1>5. [Of(e, y) EXCEPT !.direction = f, !.score = -y] = Of(f, -y)
  <2>1. PICK g : g = [Of(e, y) EXCEPT !.direction = f]
    OBVIOUS
  <2>2. [Of(e, y) EXCEPT !.direction = f, !.score = -y] = [g EXCEPT !.score = -y]
    BY <2>1
  <2> HIDE DEF Of
  <2> QED
    BY <1>2, <1>3, <2>1, <2>2
<1>6. Mirrored(Of(e, y)) = [Of(e, y) EXCEPT !.direction = Mirror(@), !.score = -@]
  BY DEF Mirrored
<1> HIDE DEF Of
<1>7. Mirrored(Of(e, y)) = Of(Mirror(e), -y)
  BY <1>1, <1>4, <1>5, <1>6
<1> QED
  BY <1>4, <1>7 DEF Of

(* Bands that differ in nothing but their side.                            *)
MirroredBand(x, y) ==
  /\ y = Mirrored(x) /\ y.direction = Mirror(x.direction) /\ y.score = -x.score
  /\ y.band = x.band /\ y.confidence = x.confidence /\ y.conflictScore = x.conflictScore
  /\ x.direction \in Directions /\ x.score \in Int

(* A band of mirrored signals concludes the mirror of what the band did.   *)
LEMMA MirroredBandDecision ==
  ASSUME NEW m, NEW w, MirroredViews(m, w), m # << >>, NEW b
  PROVE  MirroredBand(BandDecision(b, m), BandDecision(b, w)) /\ BandDecision(b, m).band = b
<1> DEFINE d == BandDirection(m)
           x == BandScore(m)
           a == BandAlignment(m, d)
           c == IF d = "conflict" THEN BandConflictScore(m) ELSE 0
<1>1. /\ DOMAIN w = DOMAIN m /\ Len(w) = Len(m) /\ QualifiedIn(w) = QualifiedIn(m)
  BY MirroredSides
<1>2. \A i \in DOMAIN m : /\ w[i].horizon = m[i].horizon /\ w[i].confidence = m[i].confidence
                          /\ w[i].volatility = m[i].volatility
                          /\ w[i].manipulation = m[i].manipulation
  BY DEF MirroredViews, MirroredView
<1>3. d \in Directions /\ BandDirection(w) = Mirror(d)
  BY MirroredBandDirection
<1>4. x \in Int /\ BandScore(w) = -x
  BY MirroredBandScore
<1>5. BandConflictScore(w) = BandConflictScore(m)
  BY MirroredBandConflict
<1>6. Mirror(d) = "conflict" <=> d = "conflict"
  BY <1>3, MirrorIs
<1>7. BandAlignment(w, Mirror(d)) = a
  <2>1. PICK e, f : e = d /\ f = Mirror(d)
    OBVIOUS
  <2>2. /\ e = "conflict" <=> f = "conflict"
        /\ e = "neutral" <=> f = "neutral"
    BY <1>3, <2>1, MirrorIs
  <2>3. BandAlignment(w, f) = BandAlignment(m, e)
    BY <1>1, <2>2 DEF BandAlignment
  <2> QED
    BY <2>1, <2>3
<1>8. Horizons(w) = Horizons(m)
  BY <1>1, <1>2, SameHorizons
<1>9. Horizons(Kept(w, QualifiedIn(w))) = Horizons(Kept(m, QualifiedIn(m)))
  <2>1. PICK at : at = QualifiedIn(m)
    OBVIOUS
  <2>2. at \subseteq DOMAIN m /\ IsSeq(m) /\ IsSeq(w)
    BY <2>1, BandParts DEF MirroredViews
  <2>3. PICK G, H : G = Kept(m, at) /\ H = Kept(w, at)
    OBVIOUS
  <2>4. Paired(G, H, m, w)
    BY <1>1, <2>2, <2>3, KeptPairs
  <2>5. DOMAIN H = DOMAIN G /\ \A i \in DOMAIN G : H[i].horizon = G[i].horizon
    BY <1>2, <2>4 DEF Paired
  <2> QED
    BY <1>1, <2>1, <2>3, <2>5, SameHorizons
<1>10. Last(w).horizon = Last(m).horizon
  <2>1. Len(m) # 0 /\ Len(m) \in Nat /\ DOMAIN m = 1..Len(m)
    BY SeqFacts DEF MirroredViews
  <2>2. Len(m) \in DOMAIN m
    BY <2>1
  <2> QED
    BY <1>1, <1>2, <2>2 DEF Last
<1>11. Confidence(w) = Confidence(m)
  <2>1. [i \in DOMAIN w |-> w[i].confidence] = [i \in DOMAIN m |-> m[i].confidence]
    BY <1>1, <1>2
  <2> QED
    BY <2>1 DEF Confidence
<1>12. Volatility(w) = Volatility(m) /\ Manipulation(w) = Manipulation(m)
  <2>1. /\ {w[i].volatility : i \in DOMAIN w} = {m[i].volatility : i \in DOMAIN m}
        /\ {w[i].manipulation : i \in DOMAIN w} = {m[i].manipulation : i \in DOMAIN m}
    BY <1>1, <1>2
  <2> QED
    BY <2>1 DEF Volatility, Manipulation
<1>13. Overall(LevelsOf(w)) = Overall(LevelsOf(m))
  BY <1>12 DEF LevelsOf
<1>14. ConclusionStrength(Mirror(d), -x, c) = ConclusionStrength(d, x, c)
  BY <1>3, <1>4, StrengthIsMirrored
<1> DEFINE Of(e, y) ==
             [band |-> b,
              horizons |-> Horizons(m),
              qualified |-> Horizons(Kept(m, QualifiedIn(m))),
              anchor |-> Last(m).horizon,
              direction |-> e,
              alignment |-> a,
              score |-> y,
              conflictScore |-> c,
              strength |-> ConclusionStrength(d, x, c),
              confidence |-> Clamp(Round(Confidence(m) * BandFactor(a, c),
                                         TotalWeight(DOMAIN m) * 5000)),
              volatility |-> RoundRisk(Volatility(m)),
              manipulation |-> RoundRisk(Manipulation(m)),
              level |-> Overall(LevelsOf(m))]
<1>15. BandDecision(b, m) = Of(d, x)
  BY BandIs
<1>16. BandDecision(b, w) = Of(Mirror(d), -x)
  <2>1. (IF BandDirection(w) = "conflict" THEN BandConflictScore(w) ELSE 0) = c
    BY <1>3, <1>5, <1>6
  <2>2. BandAlignment(w, BandDirection(w)) = a
    BY <1>3, <1>7
  <2> HIDE DEF d, x, a, c
  <2> QED
    BY <1>1, <1>3, <1>4, <1>8, <1>9, <1>10, <1>11, <1>12, <1>13, <1>14, <2>1, <2>2, BandIs
<1>17. ASSUME NEW e, NEW y
       PROVE  /\ Of(e, y).direction = e /\ Of(e, y).score = y
              /\ Mirrored(Of(e, y)) = Of(Mirror(e), -y)
  BY MirroredRecord
<1>18. \A e, y : /\ Of(e, y).band = b /\ Of(e, y).conflictScore = c
                 /\ Of(e, y).confidence = Of(d, x).confidence
  OBVIOUS
<1> HIDE DEF Of, d, x, c
<1> QED
  BY <1>3, <1>4, <1>15, <1>16, <1>17, <1>18 DEF MirroredBand

MirroredBands(B, C) ==
  /\ IsSeq(B) /\ Len(B) \in 1..3 /\ DOMAIN B = 1..Len(B)
  /\ Len(C) = Len(B) /\ C = [k \in DOMAIN B |-> Mirrored(B[k])]
  /\ \A k \in DOMAIN B : MirroredBand(B[k], C[k]) /\ B[k].band \in Bands

LEMMA MirroredBandDecisions ==
  ASSUME NEW S, Signalled(S), NEW M, MirroredViews(S, M)
  PROVE  MirroredBands(BandDecisions(S), BandDecisions(M))
<1> DEFINE P == Present(S)
           B == BandDecisions(S)
           C == BandDecisions(M)
<1>1. Present(M) = P /\ \A b : MirroredViews(Group(S, b), Group(M, b))
  BY MirroredGroups
<1>2. /\ B = [i \in DOMAIN P |-> BandDecision(P[i], Group(S, P[i]))]
      /\ C = [i \in DOMAIN P |-> BandDecision(P[i], Group(M, P[i]))]
  BY <1>1 DEF BandDecisions
<1>3. /\ \A k \in DOMAIN P : P[k] \in Bands /\ Group(S, P[k]) # << >>
      /\ IsSeq(P) /\ Len(P) \in 1..3 /\ DOMAIN P = 1..Len(P)
  BY PresentFacts
<1>4. IsSeq(B) /\ Len(B) \in 1..3 /\ DOMAIN B = 1..Len(B)
  BY BandsFacts DEF BandsOf
<1> HIDE DEF P, B, C
<1>5. DOMAIN B = DOMAIN P /\ DOMAIN C = DOMAIN P
  BY <1>2
<1>6. \A k \in DOMAIN B : MirroredBand(B[k], C[k]) /\ B[k].band = P[k]
  BY <1>1, <1>2, <1>3, <1>5, MirroredBandDecision
<1>7. C = [k \in DOMAIN B |-> Mirrored(B[k])]
  <2>1. \A k \in DOMAIN B : C[k] = Mirrored(B[k])
    BY <1>6 DEF MirroredBand
  <2>2. C = [k \in DOMAIN B |-> C[k]]
    BY <1>2, <1>5
  <2> QED
    BY <2>1, <2>2
<1>8. Len(C) = Len(B)
  <2>1. C \in [1..Len(B) -> Range(C)] /\ Len(B) \in Nat
    BY <1>2, <1>4, <1>5 DEF Range
  <2>2. C \in Seq(Range(C))
    BY <2>1, SeqDef
  <2>3. DOMAIN C = 1..Len(C) /\ Len(C) \in Nat
    BY <2>2, LenProperties
  <2>4. ASSUME NEW n \in Nat, NEW k \in Nat, 1..n = 1..k PROVE n = k
    BY <2>4
  <2>5. DOMAIN C = 1..Len(B)
    BY <1>4, <1>5
  <2> QED
    BY <2>1, <2>3, <2>4, <2>5
<1> QED
  BY <1>3, <1>4, <1>5, <1>6, <1>7, <1>8 DEF MirroredBands, B, C

LEMMA MirroredFields ==
  ASSUME NEW B, NEW C, MirroredBands(B, C)
  PROVE  /\ DOMAIN C = DOMAIN B /\ Len(C) = Len(B) /\ DOMAIN B \subseteq 1..8 /\ DOMAIN B # {}
         /\ \A k \in DOMAIN B : /\ C[k].direction = Mirror(B[k].direction)
                                /\ B[k].direction \in Directions /\ B[k].score \in Int
                                /\ C[k].score = -B[k].score /\ C[k].band = B[k].band
                                /\ C[k].confidence = B[k].confidence
                                /\ C[k].conflictScore = B[k].conflictScore
         /\ \A k \in DOMAIN B : Authority(C, k) = Authority(B, k)
         /\ \A k \in DOMAIN B : Authority(B, k) \in Nat /\ Authority(B, k) > 0
<1>1. DOMAIN C = DOMAIN B /\ Len(C) = Len(B)
  BY DEF MirroredBands
<1>2. DOMAIN B \subseteq 1..8 /\ DOMAIN B # {}
  <2>1. Len(B) \in Nat /\ Len(B) >= 1 /\ Len(B) <= 3 /\ DOMAIN B = 1..Len(B)
    BY DEF MirroredBands
  <2>2. 1 \in DOMAIN B
    BY <2>1
  <2>3. DOMAIN B \subseteq 1..8
    BY <2>1
  <2> QED
    BY <2>2, <2>3
<1>3. \A k \in DOMAIN B : /\ C[k].direction = Mirror(B[k].direction)
                          /\ B[k].direction \in Directions /\ B[k].score \in Int
                          /\ C[k].score = -B[k].score /\ C[k].band = B[k].band
                          /\ C[k].confidence = B[k].confidence
                          /\ C[k].conflictScore = B[k].conflictScore
  BY DEF MirroredBands, MirroredBand
<1>4. \A k \in DOMAIN B : Authority(C, k) = Authority(B, k)
  BY <1>3 DEF Authority
<1>5. \A k \in DOMAIN B : Authority(B, k) \in Nat /\ Authority(B, k) > 0
  <2>1. Policy.authority \in [Bands -> Nat \ {0}]
    BY PolicyAssumption DEF PolicyAccepted
  <2>2. \A k \in DOMAIN B : B[k].band \in Bands
    BY DEF MirroredBands
  <2> QED
    BY <2>1, <2>2 DEF Authority
<1> QED
  BY <1>1, <1>2, <1>3, <1>4, <1>5

LEMMA MirroredConclusionDirections ==
  ASSUME NEW B, NEW C, MirroredBands(B, C)
  PROVE  /\ DirectionalBands(C) = DirectionalBands(B)
         /\ DistinctDirections(C) = Directional <=> DistinctDirections(B) = Directional
         /\ SomeBandConflict(C) <=> SomeBandConflict(B)
         /\ ConclusionDirection(B) \in Directions
         /\ ConclusionDirection(C) = Mirror(ConclusionDirection(B))
         /\ StructuralDirection(C) = Mirror(StructuralDirection(B))
<1>1. /\ DOMAIN C = DOMAIN B /\ Len(C) = Len(B)
      /\ \A k \in DOMAIN B : /\ B[k].direction \in Directions
                             /\ C[k].direction = Mirror(B[k].direction)
  BY MirroredFields
<1>2. \A k \in DOMAIN B : /\ C[k].direction \in Directional <=> B[k].direction \in Directional
                          /\ C[k].direction = "conflict" <=> B[k].direction = "conflict"
                          /\ C[k].direction = "neutral" <=> B[k].direction = "neutral"
                          /\ C[k].direction = "bullish" <=> B[k].direction = "bearish"
                          /\ C[k].direction = "bearish" <=> B[k].direction = "bullish"
  BY <1>1, MirrorIs
<1>3. DirectionalBands(C) = DirectionalBands(B) /\ DirectionalBands(B) \subseteq DOMAIN B
  BY <1>1, <1>2 DEF DirectionalBands
<1>4. /\ "bullish" \in DistinctDirections(C) <=> "bearish" \in DistinctDirections(B)
      /\ "bearish" \in DistinctDirections(C) <=> "bullish" \in DistinctDirections(B)
  BY <1>2, <1>3 DEF DistinctDirections
<1>5. DistinctDirections(C) \subseteq Directional /\ DistinctDirections(B) \subseteq Directional
  BY SidesAreDirections
<1>6. DistinctDirections(C) = Directional <=> DistinctDirections(B) = Directional
  BY <1>4, <1>5 DEF Directional
<1>7. SomeBandConflict(C) <=> SomeBandConflict(B)
  BY <1>1, <1>2 DEF SomeBandConflict
<1>8. PICK c : c = SomeBandConflict(B)
  OBVIOUS
<1>9. ConclusionDirection(B) = Verdict(DistinctDirections(B), c)
  BY <1>8, ConclusionVerdict
<1>10. ConclusionDirection(C) = Verdict(DistinctDirections(C), c)
  BY <1>7, <1>8, ConclusionVerdict DEF Verdict
<1>11. /\ ConclusionDirection(B) \in Directions
       /\ ConclusionDirection(C) = Mirror(ConclusionDirection(B))
  BY <1>4, <1>5, <1>9, <1>10, MirroredVerdict
<1>12. StructuralDirection(C) = Mirror(StructuralDirection(B))
  <2>1. {i \in DOMAIN C : C[i].direction # "neutral"}
          = {i \in DOMAIN B : B[i].direction # "neutral"}
    BY <1>1, <1>2
  <2>2. PICK T : T = {i \in DOMAIN B : B[i].direction # "neutral"}
    OBVIOUS
  <2>3. T \subseteq DOMAIN B /\ IsFiniteSet(T) /\ T \subseteq Int
    <3>1. DOMAIN B \subseteq 1..8 /\ T \subseteq DOMAIN B
      BY <2>2, MirroredFields
    <3> QED
      BY <3>1, FewAreFinite
  <2>4. Mirror("neutral") = "neutral"
    BY DEF Mirror
  <2>5. /\ StructuralDirection(B) =
             IF T = {} \/ B[Max(T)].direction = "conflict" THEN "neutral"
             ELSE B[Max(T)].direction
        /\ StructuralDirection(C) =
             IF T = {} \/ C[Max(T)].direction = "conflict" THEN "neutral"
             ELSE C[Max(T)].direction
    BY <2>1, <2>2 DEF StructuralDirection
  <2>6. T # {} => Max(T) \in DOMAIN B
    BY <2>3, Greatest
  <2> QED
    BY <1>1, <1>2, <2>4, <2>5, <2>6
<1> QED
  BY <1>3, <1>6, <1>7, <1>11, <1>12

LEMMA MirroredScore ==
  ASSUME NEW B, NEW C, MirroredBands(B, C)
  PROVE  /\ TotalAuthority(C) = TotalAuthority(B)
         /\ StructuralScore(B) \in Int /\ StructuralScore(C) = -StructuralScore(B)
         /\ \A a, c : ConclusionConfidence(C, a, c) = ConclusionConfidence(B, a, c)
<1> DEFINE D == DOMAIN B
           h == [i \in D |-> Authority(B, i)]
           f == [i \in D |-> B[i].score * Authority(B, i)]
           g == [i \in D |-> C[i].score * Authority(B, i)]
<1>1. /\ DOMAIN C = D /\ Len(C) = Len(B) /\ D \subseteq 1..8 /\ D # {}
      /\ \A k \in D : /\ B[k].score \in Int /\ C[k].score = -B[k].score
                      /\ C[k].confidence = B[k].confidence
      /\ \A k \in D : Authority(C, k) = Authority(B, k)
      /\ \A k \in D : Authority(B, k) \in Nat /\ Authority(B, k) > 0
  BY MirroredFields
<1>2. IsFiniteSet(D)
  BY <1>1, FewAreFinite
<1>3. TotalAuthority(B) = SumFunctionOnSet(h, D)
  BY DEF TotalAuthority, SumFunction
<1>4. TotalAuthority(C) = TotalAuthority(B)
  <2>1. [i \in DOMAIN C |-> Authority(C, i)] = h
    BY <1>1
  <2> QED
    BY <2>1 DEF TotalAuthority
<1>5. \A k \in D : h[k] \in Nat /\ h[k] > 0
  BY <1>1
<1>6. ASSUME NEW a \in Int, NEW w \in Int PROVE a * w \in Int /\ (-a) * w = -(a * w)
  OBVIOUS
<1>7. \A k \in D : f[k] \in Int /\ g[k] = -f[k]
  BY <1>1, <1>6
<1>8. StructuralScore(B) = Round(SumFunctionOnSet(f, D), TotalAuthority(B))
  BY DEF StructuralScore, SumFunction
<1>9. StructuralScore(C) = Round(SumFunctionOnSet(g, D), TotalAuthority(B))
  <2>1. [i \in DOMAIN C |-> C[i].score * Authority(C, i)] = g /\ DOMAIN g = D
    BY <1>1
  <2> QED
    BY <1>4, <2>1 DEF StructuralScore, SumFunction
<1>10. \A a, c : ConclusionConfidence(C, a, c) = ConclusionConfidence(B, a, c)
  <2>1. [i \in DOMAIN C |-> C[i].confidence * Authority(C, i)]
          = [i \in DOMAIN B |-> B[i].confidence * Authority(B, i)]
    BY <1>1
  <2>2. Len(C) = Len(B)
    BY <1>1
  <2> QED
    BY <1>4, <2>1, <2>2 DEF ConclusionConfidence
<1> HIDE DEF D, f, g, h
<1>11. TotalAuthority(B) \in Nat /\ TotalAuthority(B) > 0
  <2>1. TotalAuthority(B) \in Nat /\ \A k \in D : h[k] <= TotalAuthority(B)
    BY <1>2, <1>3, <1>5, SumsCover
  <2>2. PICK k \in D : TRUE
    BY <1>1
  <2>3. h[k] \in Nat /\ h[k] > 0 /\ h[k] <= TotalAuthority(B)
    BY <1>5, <2>1
  <2> QED
    BY <2>1, <2>3
<1>12. /\ SumFunctionOnSet(f, D) \in Int
       /\ SumFunctionOnSet(g, D) = -SumFunctionOnSet(f, D)
  BY <1>2, <1>7, SumOfNegatives
<1>13. StructuralScore(B) \in Int /\ StructuralScore(C) = -StructuralScore(B)
  BY <1>8, <1>9, <1>11, <1>12, RoundOfNegative
<1> QED
  BY <1>4, <1>10, <1>13

LEMMA MirroredConflict ==
  ASSUME NEW B, NEW C, MirroredBands(B, C)
  PROVE  /\ CrossConflictScore(C) = CrossConflictScore(B)
         /\ ConflictType(C) = ConflictType(B)
<1>1. /\ DOMAIN C = DOMAIN B /\ DOMAIN B \subseteq 1..8
      /\ \A k \in DOMAIN B : /\ B[k].direction \in Directions /\ B[k].score \in Int
                             /\ C[k].direction = Mirror(B[k].direction)
                             /\ C[k].score = -B[k].score /\ C[k].band = B[k].band
      /\ \A k \in DOMAIN B : Authority(C, k) = Authority(B, k)
      /\ \A k \in DOMAIN B : Authority(B, k) \in Nat
  BY MirroredFields
<1> DEFINE Of(X, d) == {k \in DOMAIN X : X[k].direction = d}
           Stake(X, i) == Authority(X, i) * Max({Abs(X[i].score), Tenths})
           Backing(X, d) == SumFunction([i \in Of(X, d) |-> Stake(X, i)])
<1>2. \A X : CrossConflictScore(X) = Opposition(Backing(X, "bullish"), Backing(X, "bearish"))
  BY DEF CrossConflictScore
<1>3. \A k \in DOMAIN B : /\ C[k].direction = "bullish" <=> B[k].direction = "bearish"
                          /\ C[k].direction = "bearish" <=> B[k].direction = "bullish"
  BY <1>1, MirrorIs
<1>4. Of(C, "bullish") = Of(B, "bearish") /\ Of(C, "bearish") = Of(B, "bullish")
  BY <1>1, <1>3
<1>5. \A k \in DOMAIN B : Stake(C, k) = Stake(B, k)
  <2>1. \A k \in DOMAIN B : Abs(C[k].score) = Abs(B[k].score)
    BY <1>1, AbsIs
  <2> QED
    BY <1>1, <2>1
<1>6. ASSUME NEW k \in DOMAIN B PROVE Stake(B, k) \in Int
  <2>1. PICK x : x = Abs(B[k].score)
    OBVIOUS
  <2>2. x \in Int /\ Tenths \in Int
    BY <1>1, <2>1, AbsIs DEF Tenths
  <2>3. PICK pair : pair = {x, Tenths}
    OBVIOUS
  <2>4. IsFiniteSet(pair) /\ pair \subseteq Int /\ pair # {}
    <3>1. pair = {x} \cup {Tenths} /\ IsFiniteSet({x})
      BY <2>3, FS_Singleton
    <3>2. IsFiniteSet(pair)
      BY <3>1, FS_AddElement
    <3> QED
      BY <2>2, <2>3, <3>2
  <2>5. Max(pair) \in Int
    BY <2>4, Greatest
  <2>6. Authority(B, k) \in Int
    BY <1>1
  <2>7. ASSUME NEW p \in Int, NEW q \in Int PROVE p * q \in Int
    OBVIOUS
  <2> QED
    BY <2>1, <2>3, <2>5, <2>6, <2>7
<1>7. ASSUME NEW d PROVE Backing(B, d) \in Int
  <2> DEFINE I == Of(B, d)
             f == [i \in I |-> Stake(B, i)]
             g == [i \in I |-> -Stake(B, i)]
  <2>1. I \subseteq DOMAIN B /\ IsFiniteSet(I)
    <3>1. I \subseteq DOMAIN B
      OBVIOUS
    <3> HIDE DEF I
    <3> QED
      BY <1>1, <3>1, FewAreFinite
  <2> HIDE DEF Of, Stake
  <2>2. \A i \in I : f[i] \in Int /\ g[i] = -f[i]
    BY <1>6, <2>1
  <2>3. Backing(B, d) = SumFunctionOnSet(f, I)
    BY DEF SumFunction
  <2> HIDE DEF I, f, g, Backing
  <2> QED
    BY <2>1, <2>2, <2>3, SumOfNegatives
<1>8. /\ Backing(C, "bullish") = Backing(B, "bearish")
      /\ Backing(C, "bearish") = Backing(B, "bullish")
  <2>1. \A d : Of(B, d) \subseteq DOMAIN B
    OBVIOUS
  <2> HIDE DEF Of, Stake
  <2> QED
    BY <1>4, <1>5, <2>1
<1>9. CrossConflictScore(C) = CrossConflictScore(B)
  <2> HIDE DEF Backing
  <2> QED
    BY <1>2, <1>7, <1>8, OppositionIsSymmetric
<1>10. ConflictType(C) = ConflictType(B)
  <2> DEFINE named(X, b) == {i \in DirectionalBands(X) : X[i].band = b}
             opposed(X, low, high) ==
               \E i \in named(X, low), k \in named(X, high) : X[i].direction # X[k].direction
  <2>1. /\ DirectionalBands(C) = DirectionalBands(B)
        /\ DistinctDirections(C) = Directional <=> DistinctDirections(B) = Directional
        /\ SomeBandConflict(C) <=> SomeBandConflict(B)
    BY MirroredConclusionDirections
  <2>2. \A i \in DirectionalBands(B) : i \in DOMAIN B
    BY DEF DirectionalBands
  <2>3. \A b : named(C, b) = named(B, b) /\ named(B, b) \subseteq DOMAIN B
    BY <1>1, <2>1, <2>2
  <2>4. \A i, k \in DOMAIN B :
          C[i].direction # C[k].direction <=> B[i].direction # B[k].direction
    BY <1>1, MirrorIs
  <2>5. \A low, high : opposed(C, low, high) <=> opposed(B, low, high)
    <3> HIDE DEF named
    <3> QED
      BY <2>3, <2>4
  <2>6. \A X : ConflictType(X) =
          LET opposite == Cardinality(DistinctDirections(X)) > 1
          IN CASE ~opposite -> IF SomeBandConflict(X) THEN "intra_band" ELSE "none"
               [] opposite /\ SomeBandConflict(X) -> "broad"
               [] opposite /\ ~SomeBandConflict(X) ->
                    (CASE opposed(X, "medium", "long") ->
                            (IF opposed(X, "short", "long") THEN "lower_vs_long"
                                                 ELSE "medium_vs_long")
                       [] OTHER -> "short_vs_higher")
    BY DEF ConflictType
  <2>7. Cardinality(DistinctDirections(C)) > 1 <=> Cardinality(DistinctDirections(B)) > 1
    BY <2>1, SidesAreDirections, Sides
  <2> HIDE DEF opposed, named
  <2> QED
    BY <2>1, <2>5, <2>6, <2>7
<1> QED
  BY <1>9, <1>10

(* What the conclusions over two lists of mirrored bands share.            *)
LEMMA MirroredRest ==
  ASSUME NEW B, NEW C, MirroredBands(B, C), NEW d \in Directions
  PROVE  /\ Alignment(C, Mirror(d)) = Alignment(B, d)
         /\ ConflictScore(C, Mirror(d)) = ConflictScore(B, d)
<1>1. /\ DOMAIN C = DOMAIN B /\ Len(C) = Len(B)
      /\ \A k \in DOMAIN B : C[k].conflictScore = B[k].conflictScore
  BY MirroredFields
<1>2. DirectionalBands(C) = DirectionalBands(B)
  BY MirroredConclusionDirections
<1>3. PICK e : e = Mirror(d)
  OBVIOUS
<1>4. /\ e = "conflict" <=> d = "conflict"
      /\ e = "neutral" <=> d = "neutral"
  BY <1>3, MirrorIs
<1>5. Alignment(C, e) = Alignment(B, d)
  BY <1>1, <1>2, <1>4 DEF Alignment
<1>6. ConflictScore(C, e) = ConflictScore(B, d)
  <2>1. {C[i].conflictScore : i \in DOMAIN C} = {B[i].conflictScore : i \in DOMAIN B}
    BY <1>1
  <2>2. CrossConflictScore(C) = CrossConflictScore(B)
    BY MirroredConflict
  <2> QED
    BY <1>4, <2>1, <2>2 DEF ConflictScore
<1> QED
  BY <1>3, <1>5, <1>6

-----------------------------------------------------------------------------
(* The mirrored decision *)

LEMMA MirroredPosture ==
  ASSUME NEW d \in Directions, NEW a, NEW l
  PROVE  Posture(Mirror(d), a, l) = Posture(d, a, l)
<1>1. PICK e : e = Mirror(d)
  OBVIOUS
<1>2. e \in Directional <=> d \in Directional
  BY <1>1, MirrorIs
<1>3. Posture(e, a, l) = Posture(d, a, l)
  BY <1>2 DEF Posture
<1> QED
  BY <1>1, <1>3

LEMMA MirroredSignalsFacts ==
  ASSUME Signalled(Signals)
  PROVE  MirroredViews(Signals, MirroredSignals)
<1> DEFINE S == Signals
           M == MirroredSignals
<1>1. /\ IsSeq(S) /\ Len(S) \in Nat /\ Len(S) <= 8 /\ DOMAIN S = 1..Len(S)
      /\ \A i \in DOMAIN S : IsSignal(S[i])
  BY SignalledFacts DEF Signalled
<1>2. M = [i \in 1..Len(S) |-> Mirrored(S[i])]
  BY <1>1 DEF MirroredSignals
<1>3. ASSUME NEW s, IsSignal(s) PROVE MirroredView(s, Mirrored(s))
  <2>1. PICK h, d, x, y, z, v, m :
          /\ s = [horizon |-> h, direction |-> d, score |-> x, strength |-> y,
                  confidence |-> z, volatility |-> v, manipulation |-> m]
          /\ h = s.horizon /\ d = s.direction /\ x = s.score /\ y = s.strength
          /\ z = s.confidence /\ v = s.volatility /\ m = s.manipulation
    BY <1>3 DEF IsSignal
  <2>2. PICK e : e = Mirror(d)
    OBVIOUS
  <2>3. PICK t : t = [s EXCEPT !.direction = e]
    OBVIOUS
  <2>4. t = [horizon |-> h, direction |-> e, score |-> x, strength |-> y,
             confidence |-> z, volatility |-> v, manipulation |-> m]
    BY <2>1, <2>3
  <2>5. [t EXCEPT !.score = -x] =
          [horizon |-> h, direction |-> e, score |-> -x, strength |-> y,
           confidence |-> z, volatility |-> v, manipulation |-> m]
    BY <2>4
  <2>6. Mirrored(s) = [t EXCEPT !.score = -x]
    BY <2>1, <2>2, <2>3 DEF Mirrored
  <2>7. /\ Mirrored(s).horizon = h /\ Mirrored(s).direction = e /\ Mirrored(s).score = -x
        /\ Mirrored(s).strength = y /\ Mirrored(s).confidence = z
        /\ Mirrored(s).volatility = v /\ Mirrored(s).manipulation = m
    BY <2>5, <2>6
  <2>8. /\ d \in Directions /\ x \in -Full..Full
        /\ y \in 0..Full /\ z \in 0..Full
    <3>1. SignalAccepted(s)
      BY <1>3 DEF IsSignal
    <3> QED
      BY <2>1, <3>1 DEF SignalAccepted, Directions, Directional
  <2>9. Full \in Nat
    BY DEF Full, Tenths
  <2>10. x \in Int /\ y \in Int /\ z \in Int
    BY <2>8, <2>9
  <2> QED
    BY <2>1, <2>2, <2>7, <2>8, <2>10 DEF MirroredView
<1> HIDE DEF S, M
<1>4. DOMAIN M = 1..Len(S) /\ M \in [1..Len(S) -> Range(M)]
  BY <1>2 DEF Range
<1>5. IsSeq(M) /\ Len(M) = Len(S)
  <2>1. M \in Seq(Range(M))
    BY <1>1, <1>4, SeqDef
  <2> QED
    BY <1>1, <1>4, <2>1, LenProperties DEF IsSeq
<1>6. \A i \in DOMAIN S : MirroredView(S[i], M[i])
  BY <1>1, <1>2, <1>3
<1> QED
  BY <1>1, <1>4, <1>5, <1>6 DEF MirroredViews, S, M

(* The decision over mirrored signals is the mirrored decision.            *)
LEMMA MirroredEvaluation ==
  ASSUME NEW S, Signalled(S), NEW M, MirroredViews(S, M)
  PROVE  Evaluate(M) =
           [Mirrored(Evaluate(S)) EXCEPT !.structural = Mirror(@),
                                         !.bands = [i \in DOMAIN @ |-> Mirrored(@[i])]]
<1> DEFINE B == BandDecisions(S)
           C == BandDecisions(M)
<1>1. MirroredBands(B, C)
  BY MirroredBandDecisions
<1>2. PICK d, f : d = ConclusionDirection(B) /\ f = Mirror(d)
  OBVIOUS
<1>3. PICK t, w : t = StructuralDirection(B) /\ w = Mirror(t)
  OBVIOUS
<1>4. PICK y, c, a : y = StructuralScore(B) /\ c = ConflictScore(B, d) /\ a = Alignment(B, d)
  OBVIOUS
<1> HIDE DEF B, C
<1>5. d \in Directions /\ ConclusionDirection(C) = f /\ StructuralDirection(C) = w
  BY <1>1, <1>2, <1>3, MirroredConclusionDirections
<1>6. Alignment(C, f) = a /\ ConflictScore(C, f) = c
  BY <1>1, <1>2, <1>4, <1>5, MirroredRest
<1>7. y \in Int /\ StructuralScore(C) = -y
  BY <1>1, <1>4, MirroredScore
<1>8. ConclusionConfidence(C, a, c) = ConclusionConfidence(B, a, c)
  BY <1>1, MirroredScore
<1>9. ConflictType(C) = ConflictType(B)
  BY <1>1, MirroredConflict
<1>10. ConclusionStrength(f, -y, c) = ConclusionStrength(d, y, c)
  BY <1>2, <1>5, <1>7, StrengthIsMirrored
<1>11. Volatility(M) = Volatility(S) /\ Manipulation(M) = Manipulation(S)
  <2>1. DOMAIN M = DOMAIN S /\ \A i \in DOMAIN S : /\ M[i].volatility = S[i].volatility
                                                   /\ M[i].manipulation = S[i].manipulation
    BY DEF MirroredViews, MirroredView
  <2>2. /\ {M[i].volatility : i \in DOMAIN M} = {S[i].volatility : i \in DOMAIN S}
        /\ {M[i].manipulation : i \in DOMAIN M} = {S[i].manipulation : i \in DOMAIN S}
    BY <2>1
  <2> QED
    BY <2>2 DEF Volatility, Manipulation
<1>12. LevelsOf(M) = LevelsOf(S)
  BY <1>11 DEF LevelsOf
<1>13. C = [i \in DOMAIN B |-> Mirrored(B[i])]
  BY <1>1 DEF MirroredBands
<1>14. Posture(f, a, Overall(LevelsOf(S))) = Posture(d, a, Overall(LevelsOf(S)))
  BY <1>2, <1>5, MirroredPosture
<1>15. Evaluate(S) = Conclusion(S, B, d, a, y, c)
  BY <1>2, <1>4 DEF Evaluate, ConclusionOf, B
<1>16. Evaluate(M) = Conclusion(M, C, f, a, -y, c)
  <2>1. Evaluate(M) = Conclusion(M, C, f, Alignment(C, f), StructuralScore(C), ConflictScore(C, f))
    BY <1>5 DEF Evaluate, ConclusionOf, C
  <2> QED
    BY <1>6, <1>7, <2>1
<1>17. PICK s, z, v, u, n, l, k, p, q :
         /\ s = ConclusionStrength(d, y, c)
         /\ z = ConclusionConfidence(B, a, c)
         /\ v = RoundRisk(Volatility(S))
         /\ u = RoundRisk(Manipulation(S))
         /\ n = RoundRisk(Largest({Largest({Volatility(S), Manipulation(S)}),
                                   (RiskPoint \div Tenths) * Largest({s, c})}))
         /\ l = Overall(LevelsOf(S))
         /\ k = LevelsOf(S)
         /\ p = Posture(d, a, l)
         /\ q = ConflictType(B)
  OBVIOUS
<1> DEFINE Of(e, b, x, m) ==
             [direction |-> e, structural |-> b, score |-> x, strength |-> s,
              confidence |-> z, volatility |-> v, manipulation |-> u, urgency |-> n,
              level |-> l, breakdown |-> k, posture |-> p, alignment |-> a,
              conflictType |-> q, conflictScore |-> c, bands |-> m]
<1>18. Conclusion(S, B, d, a, y, c) = Of(d, t, y, B)
  BY <1>3, <1>17 DEF Conclusion
<1>19. Conclusion(M, C, f, a, -y, c) = Of(f, w, -y, C)
  <2>1. /\ ConclusionStrength(f, -y, c) = s /\ ConclusionConfidence(C, a, c) = z
        /\ ConflictType(C) = q /\ Posture(f, a, Overall(LevelsOf(M))) = p
    BY <1>8, <1>9, <1>10, <1>12, <1>14, <1>17
  <2> QED
    BY <1>5, <1>11, <1>12, <1>17, <2>1 DEF Conclusion
<1>20. [[[[Of(d, t, y, B) EXCEPT !.direction = f] EXCEPT !.score = -y]
            EXCEPT !.structural = w] EXCEPT !.bands = C]
         = Of(f, w, -y, C)
  <2>1. [Of(d, t, y, B) EXCEPT !.direction = f] = Of(f, t, y, B)
    OBVIOUS
  <2>2. [Of(f, t, y, B) EXCEPT !.score = -y] = Of(f, t, -y, B)
    OBVIOUS
  <2>3. [Of(f, t, -y, B) EXCEPT !.structural = w] = Of(f, w, -y, B)
    OBVIOUS
  <2>4. [Of(f, w, -y, B) EXCEPT !.bands = C] = Of(f, w, -y, C)
    OBVIOUS
  <2> HIDE DEF Of
  <2> QED
    BY <2>1, <2>2, <2>3, <2>4
<1>21. PICK r : r = Of(d, t, y, B)
  OBVIOUS
<1>22. r.direction = d /\ r.structural = t /\ r.score = y /\ r.bands = B
  BY <1>21
<1>23. [r EXCEPT !.direction = f, !.score = -y] = [[r EXCEPT !.direction = f] EXCEPT !.score = -y]
  OBVIOUS
<1>24. Mirrored(r) = [[r EXCEPT !.direction = f] EXCEPT !.score = -y]
  <2>1. Mirrored(r) = [r EXCEPT !.direction = Mirror(r.direction), !.score = -r.score]
    BY DEF Mirrored
  <2> QED
    BY <1>2, <1>22, <1>23, <2>1
<1> HIDE DEF Of
<1>25. PICK g : g = Mirrored(r)
  OBVIOUS
<1>26. g.structural = t /\ g.bands = B
  <2>1. [Of(d, t, y, B) EXCEPT !.direction = f] = Of(f, t, y, B)
    BY DEF Of
  <2>2. [Of(f, t, y, B) EXCEPT !.score = -y] = Of(f, t, -y, B)
    BY DEF Of
  <2>3. g = Of(f, t, -y, B)
    BY <1>21, <1>24, <1>25, <2>1, <2>2
  <2> QED
    BY <2>3 DEF Of
<1>27. [g EXCEPT !.structural = Mirror(@), !.bands = [i \in DOMAIN @ |-> Mirrored(@[i])]]
         = [g EXCEPT !.structural = w, !.bands = C]
  BY <1>3, <1>13, <1>26
<1>28. [g EXCEPT !.structural = w, !.bands = C]
         = [[g EXCEPT !.structural = w] EXCEPT !.bands = C]
  OBVIOUS
<1>29. [[g EXCEPT !.structural = w] EXCEPT !.bands = C] = Of(f, w, -y, C)
  BY <1>20, <1>21, <1>24, <1>25
<1> QED
  BY <1>15, <1>16, <1>18, <1>19, <1>21, <1>25, <1>27, <1>28, <1>29

(* Nothing in the policy prefers a side: had every report said the         *)
(* opposite, the decision would be the opposite one, to the last digit.    *)
THEOREM NeitherSideIsPreferred == Spec => []NoSidePreferred
<1>1. IInv /\ DecisionInv => NoSidePreferred
  <2> SUFFICES ASSUME IInv, DecisionInv, decision # NoDecision
               PROVE  NoSidePreferred
    BY DEF NoSidePreferred
  <2>1. Signalled(Signals) /\ decision = Evaluate(Signals)
    BY DecisionIs DEF Concluded
  <2>2. MirroredViews(Signals, MirroredSignals)
    BY <2>1, MirroredSignalsFacts
  <2>3. PICK S, M : S = Signals /\ M = MirroredSignals
    OBVIOUS
  <2>4. Evaluate(M) =
           [Mirrored(Evaluate(S)) EXCEPT !.structural = Mirror(@),
                                         !.bands = [i \in DOMAIN @ |-> Mirrored(@[i])]]
    BY <2>1, <2>2, <2>3, MirroredEvaluation
  <2> QED
    BY <2>1, <2>3, <2>4 DEF NoSidePreferred
<1> QED
  BY <1>1, DecisionInvariance, PTL

-----------------------------------------------------------------------------
(* Sums and means *)

LEMMA SumsScale ==
  ASSUME NEW S, IsFiniteSet(S), NEW f, NEW g, NEW c \in Int,
         \A x \in S : f[x] \in Int /\ g[x] = c * f[x]
  PROVE  /\ SumFunctionOnSet(f, S) \in Int
         /\ SumFunctionOnSet(g, S) = c * SumFunctionOnSet(f, S)
<1>1. PICK d : SumsUp(f, S, d) /\ SumFunctionOnSet(f, S) = d[S]
  BY SumsFacts
<1>2. \A x \in S : g[x] \in Int
  OBVIOUS
<1>3. PICK e : SumsUp(g, S, e) /\ SumFunctionOnSet(g, S) = e[S]
  BY <1>2, SumsFacts
<1>4. Cardinality(S) \in Nat /\ \A t \in SUBSET S : Cardinality(t) <= Cardinality(S)
  BY FS_CardinalityType, FS_Subset
<1> DEFINE D == {m \in Nat : \A t \in SUBSET S : Cardinality(t) <= m => e[t] = c * d[t]}
<1>5. 0 \in D
  <2>1. ASSUME NEW t \in SUBSET S, Cardinality(t) <= 0 PROVE t = {}
    <3>1. t # {} => Cardinality(t) \in Nat /\ Cardinality(t) > 0
      BY PickFacts, Zenon
    <3> QED
      BY <2>1, <3>1
  <2>2. d[{}] = 0 /\ e[{}] = 0
    <3>1. {} \in SUBSET S
      OBVIOUS
    <3>2. d[{}] = 0
      BY <1>1, <3>1 DEF SumsUp
    <3>3. e[{}] = 0
      BY <1>3, <3>1 DEF SumsUp
    <3> QED
      BY <3>2, <3>3
  <2>3. c * 0 = 0
    OBVIOUS
  <2> QED
    BY <2>1, <2>2, <2>3
<1>6. ASSUME NEW m \in D PROVE m + 1 \in D
  <2>1. ASSUME NEW t \in SUBSET S, Cardinality(t) <= m + 1 PROVE e[t] = c * d[t]
    <3>1. CASE t = {}
      <4>1. d[t] = 0
        BY <3>1, <1>1 DEF SumsUp
      <4>2. e[t] = 0
        BY <3>1, <1>3 DEF SumsUp
      <4> QED
        BY <4>1, <4>2
    <3>2. CASE t # {}
      <4>1. t \ {Pick(t)} \in SUBSET S /\ Cardinality(t \ {Pick(t)}) <= m /\ Pick(t) \in S
        <5>1. /\ t \ {Pick(t)} \in SUBSET S /\ Pick(t) \in S /\ Cardinality(t) \in Nat
              /\ Cardinality(t \ {Pick(t)}) = Cardinality(t) - 1
          BY <3>2, PickFacts, Zenon
        <5> QED
          BY <5>1, <2>1
      <4>2. e[t \ {Pick(t)}] = c * d[t \ {Pick(t)}]
        BY <4>1
      <4>3. PICK rest \in Int : rest = d[t \ {Pick(t)}]
        BY <4>1, <1>1 DEF SumsUp
      <4>4. /\ d[t] = f[Pick(t)] + d[t \ {Pick(t)}]
            /\ e[t] = g[Pick(t)] + e[t \ {Pick(t)}]
        BY <3>2, <1>1, <1>3 DEF SumsUp
      <4>5. PICK one \in Int : one = f[Pick(t)] /\ g[Pick(t)] = c * one
        BY <4>1
      <4>6. c * one + c * rest = c * (one + rest)
        OBVIOUS
      <4> QED
        BY <4>2, <4>3, <4>4, <4>5, <4>6
    <3> QED
      BY <3>1, <3>2
  <2>2. m \in Nat /\ m + 1 \in Nat
    OBVIOUS
  <2> QED
    BY <2>1, <2>2
<1> HIDE DEF D
<1>7. Cardinality(S) \in D
  BY <1>4, <1>5, <1>6, UpTo
<1>8. e[S] = c * d[S]
  BY <1>4, <1>7 DEF D
<1>9. d[S] \in Int
  BY <1>1 DEF SumsUp
<1> QED
  BY <1>1, <1>3, <1>8, <1>9

(* The whole is what is counted and what is not.                           *)
LEMMA SumsSplit ==
  ASSUME NEW A, IsFiniteSet(A), NEW B, IsFiniteSet(B), A \cap B = {}, NEW f,
         \A x \in A \cup B : f[x] \in Nat
  PROVE  /\ IsFiniteSet(A \cup B)
         /\ SumFunctionOnSet(f, A) \in Nat /\ SumFunctionOnSet(f, B) \in Nat
         /\ SumFunctionOnSet(f, A \cup B) = SumFunctionOnSet(f, A) + SumFunctionOnSet(f, B)
<1>1. IsFiniteSet(A \cup B)
  BY FS_Union
<1>2. /\ IsFiniteSet(Units(f, A)) /\ SumFunctionOnSet(f, A) = Cardinality(Units(f, A))
      /\ IsFiniteSet(Units(f, B)) /\ SumFunctionOnSet(f, B) = Cardinality(Units(f, B))
      /\ SumFunctionOnSet(f, A \cup B) = Cardinality(Units(f, A \cup B))
  BY <1>1, SumsCount
<1>3. Units(f, A \cup B) = Units(f, A) \cup Units(f, B)
  BY DEF Units
<1>4. Units(f, A) \cap Units(f, B) = {}
  <2>1. \A w \in Units(f, A) : w[1] \in A
    BY DEF Units
  <2>2. \A w \in Units(f, B) : w[1] \in B
    BY DEF Units
  <2> QED
    BY <2>1, <2>2
<1>5. Cardinality(Units(f, A) \cup Units(f, B))
        = Cardinality(Units(f, A)) + Cardinality(Units(f, B))
            - Cardinality(Units(f, A) \cap Units(f, B))
  <2>1. ASSUME NEW U, IsFiniteSet(U), NEW V, IsFiniteSet(V)
        PROVE  Cardinality(U \cup V) = Cardinality(U) + Cardinality(V) - Cardinality(U \cap V)
    BY <2>1, FS_Union
  <2> QED
    BY <1>2, <2>1
<1>6. /\ Cardinality(Units(f, A) \cap Units(f, B)) = 0
      /\ Cardinality(Units(f, A)) \in Nat /\ Cardinality(Units(f, B)) \in Nat
  BY <1>2, <1>4, FS_EmptySet, FS_CardinalityType
<1>7. Cardinality(Units(f, A \cup B)) = Cardinality(Units(f, A)) + Cardinality(Units(f, B))
  <2>1. PICK i \in Nat, j \in Nat : i = Cardinality(Units(f, A)) /\ j = Cardinality(Units(f, B))
    BY <1>6
  <2>2. i + j - 0 = i + j
    OBVIOUS
  <2> QED
    BY <1>3, <1>5, <1>6, <2>1, <2>2
<1>8. SumFunctionOnSet(f, A) \in Nat /\ SumFunctionOnSet(f, B) \in Nat
  BY <1>2, <1>6
<1>9. SumFunctionOnSet(f, A \cup B) = SumFunctionOnSet(f, A) + SumFunctionOnSet(f, B)
  BY <1>2, <1>7
<1> QED
  BY <1>1, <1>8, <1>9

LEMMA SumsOne ==
  ASSUME NEW f
  PROVE  /\ SumFunctionOnSet(f, {}) = 0
         /\ \A x : f[x] \in Int => SumFunctionOnSet(f, {x}) = f[x]
<1>1. SumFunctionOnSet(f, {}) = 0
  <2>1. IsFiniteSet({}) /\ \A x \in {} : f[x] \in Int
    BY FS_EmptySet
  <2>2. PICK d : SumsUp(f, {}, d) /\ SumFunctionOnSet(f, {}) = d[{}]
    BY <2>1, SumsFacts
  <2> QED
    BY <2>2 DEF SumsUp
<1>2. ASSUME NEW x, f[x] \in Int PROVE SumFunctionOnSet(f, {x}) = f[x]
  <2>1. IsFiniteSet({x}) /\ \A y \in {x} : f[y] \in Int
    BY <1>2, FS_Singleton
  <2>2. PICK d : SumsUp(f, {x}, d) /\ SumFunctionOnSet(f, {x}) = d[{x}]
    BY <2>1, SumsFacts
  <2>3. Pick({x}) = x /\ {x} \ {x} = {} /\ {x} # {}
    BY DEF Pick
  <2>4. {} \in SUBSET {x} /\ {x} \in SUBSET {x}
    OBVIOUS
  <2>5. d[{}] = 0 /\ d[{x}] = f[x] + d[{}]
    BY <2>2, <2>3, <2>4 DEF SumsUp
  <2> QED
    BY <1>2, <2>2, <2>5
<1> QED
  BY <1>1, <1>2

(* No more than the greatest of them as often as there are.                *)
LEMMA SumsBounded ==
  ASSUME NEW S, IsFiniteSet(S), NEW f, NEW c \in Nat, \A x \in S : f[x] \in Nat /\ f[x] <= c
  PROVE  /\ SumFunctionOnSet(f, S) \in Nat /\ Cardinality(S) \in Nat
         /\ SumFunctionOnSet(f, S) <= Cardinality(S) * c
<1>1. IsFiniteSet(Units(f, S)) /\ SumFunctionOnSet(f, S) = Cardinality(Units(f, S))
  BY SumsCount
<1>2. IsFiniteSet(1..c) /\ Cardinality(1..c) = c
  <2>1. IsFiniteSet(1..c) /\ Cardinality(1..c) = IF 1 > c THEN 0 ELSE c - 1 + 1
    BY FS_Interval
  <2> QED
    BY <2>1
<1>3. Units(f, S) \subseteq S \X (1..c)
  <2>1. ASSUME NEW w \in Units(f, S) PROVE w \in S \X (1..c)
    <3>1. w \in S \X Nat /\ w[1] \in S /\ w[2] \in 1..f[w[1]]
      BY DEF Units
    <3>2. f[w[1]] \in Nat /\ f[w[1]] <= c
      BY <3>1
    <3>3. w[2] \in 1..c
      BY <3>1, <3>2
    <3>4. w = <<w[1], w[2]>>
      BY <3>1
    <3> QED
      BY <3>1, <3>3, <3>4
  <2> QED
    BY <2>1
<1>4. IsFiniteSet(S \X (1..c)) /\ Cardinality(S \X (1..c)) = Cardinality(S) * Cardinality(1..c)
  BY <1>2, FS_Product
<1>5. Cardinality(Units(f, S)) <= Cardinality(S \X (1..c))
  BY <1>3, <1>4, FS_Subset
<1>6. Cardinality(Units(f, S)) \in Nat /\ Cardinality(S) \in Nat
  BY <1>1, FS_CardinalityType
<1> QED
  BY <1>1, <1>2, <1>4, <1>5, <1>6

(* A weighted mean lies between the least and the greatest value.          *)
LEMMA SumsWithin ==
  ASSUME NEW S, IsFiniteSet(S), NEW f, NEW w, NEW p, NEW lo \in Int, NEW hi \in Int,
         \A x \in S : f[x] \in Int /\ lo <= f[x] /\ f[x] <= hi,
         \A x \in S : w[x] \in Nat /\ p[x] = f[x] * w[x]
  PROVE  /\ SumFunctionOnSet(p, S) \in Int /\ SumFunctionOnSet(w, S) \in Nat
         /\ lo * SumFunctionOnSet(w, S) <= SumFunctionOnSet(p, S)
         /\ SumFunctionOnSet(p, S) <= hi * SumFunctionOnSet(w, S)
<1> DEFINE l == [x \in S |-> lo * w[x]]
           h == [x \in S |-> hi * w[x]]
<1>1. ASSUME NEW x \in S
      PROVE  /\ l[x] \in Int /\ h[x] \in Int /\ p[x] \in Int
             /\ l[x] <= p[x] /\ p[x] <= h[x]
             /\ l[x] = lo * w[x] /\ h[x] = hi * w[x]
  <2>1. PICK a \in Int, n \in Nat : a = f[x] /\ n = w[x] /\ lo <= a /\ a <= hi
    OBVIOUS
  <2>2. lo * n \in Int /\ hi * n \in Int /\ a * n \in Int /\ lo * n <= a * n /\ a * n <= hi * n
    BY <2>1
  <2> QED
    BY <2>1, <2>2
<1> HIDE DEF l, h
<1>2. SumFunctionOnSet(w, S) \in Nat
  BY SumsCover
<1>3. \A x \in S : w[x] \in Int
  OBVIOUS
<1>4. /\ SumFunctionOnSet(l, S) = lo * SumFunctionOnSet(w, S)
      /\ SumFunctionOnSet(h, S) = hi * SumFunctionOnSet(w, S)
  BY <1>1, <1>3, SumsScale
<1>5. SumFunctionOnSet(p, S) \in Int /\ SumFunctionOnSet(l, S) <= SumFunctionOnSet(p, S)
  BY <1>1, SumsGrow
<1>6. SumFunctionOnSet(p, S) <= SumFunctionOnSet(h, S)
  BY <1>1, SumsGrow
<1> QED
  BY <1>2, <1>4, <1>5, <1>6

(* What is added up in a run of positions, wherever it starts.             *)
Shifted(f, m, w, a) == \A j \in 1..m : f[j] \in Nat /\ w[a + j] = f[j]

LEMMA SumsShift ==
  ASSUME NEW a \in Nat, NEW m \in Nat, NEW f, NEW g, Shifted(f, m, g, a)
  PROVE  /\ SumFunctionOnSet(f, 1..m) \in Nat
         /\ SumFunctionOnSet(g, (a + 1)..(a + m)) = SumFunctionOnSet(f, 1..m)
<1> USE DEF Shifted
<1> DEFINE Same(k) == SumFunctionOnSet(g, (a + 1)..(a + k)) = SumFunctionOnSet(f, 1..k)
           D == {k \in 0..m : Same(k)}
<1>1. 0 \in D
  <2>1. (a + 1)..(a + 0) = {} /\ 1..0 = {} /\ 0 \in 0..m
    OBVIOUS
  <2> QED
    BY <2>1, SumsOne
<1>2. ASSUME NEW k \in D, k < m PROVE k + 1 \in D
  <2>0. k \in Nat /\ k + 1 \in 0..m /\ Same(k)
    BY <1>2
  <2>1. /\ (a + 1)..(a + (k + 1)) = (a + 1)..(a + k) \cup {a + (k + 1)}
        /\ 1..(k + 1) = 1..k \cup {k + 1}
        /\ ((a + 1)..(a + k)) \cap {a + (k + 1)} = {} /\ 1..k \cap {k + 1} = {}
    BY <2>0
  <2>2. /\ IsFiniteSet((a + 1)..(a + k)) /\ IsFiniteSet(1..k)
        /\ IsFiniteSet({a + (k + 1)}) /\ IsFiniteSet({k + 1})
    <3>1. \A i, j \in Int : IsFiniteSet(i..j)
      BY FS_Interval
    <3>2. a + 1 \in Int /\ a + k \in Int /\ k \in Int /\ 1 \in Int
      BY <2>0
    <3> QED
      BY <3>1, <3>2, FS_Singleton
  <2>3. \A j \in 1..k \cup {k + 1} : f[j] \in Nat
    BY <1>2, <2>0
  <2>4. \A i \in (a + 1)..(a + k) \cup {a + (k + 1)} : g[i] \in Nat
    <3>1. ASSUME NEW i \in (a + 1)..(a + k) \cup {a + (k + 1)} PROVE g[i] \in Nat
      <4>1. i - a \in 1..m /\ a + (i - a) = i
        BY <1>2, <2>0
      <4> QED
        BY <4>1
    <3> QED
      BY <3>1
  <2>5. f[k + 1] \in Int /\ g[a + (k + 1)] = f[k + 1]
    <3>1. k + 1 \in 1..m
      BY <1>2, <2>0
    <3> QED
      BY <3>1
  <2>6. SumFunctionOnSet(f, {k + 1}) = f[k + 1]
        /\ SumFunctionOnSet(g, {a + (k + 1)}) = f[k + 1]
    BY <2>5, SumsOne
  <2>7. SumFunctionOnSet(f, 1..k \cup {k + 1})
          = SumFunctionOnSet(f, 1..k) + SumFunctionOnSet(f, {k + 1})
    <3>1. PICK A, B : A = 1..k /\ B = {k + 1}
      OBVIOUS
    <3>2. SumFunctionOnSet(f, A \cup B) = SumFunctionOnSet(f, A) + SumFunctionOnSet(f, B)
      <4>1. IsFiniteSet(A) /\ IsFiniteSet(B) /\ A \cap B = {}
        BY <2>1, <2>2, <3>1
      <4>2. \A x \in A \cup B : f[x] \in Nat
        BY <2>3, <3>1
      <4> QED
        BY <4>1, <4>2, SumsSplit
    <3> QED
      BY <3>1, <3>2
  <2>8. SumFunctionOnSet(g, (a + 1)..(a + k) \cup {a + (k + 1)})
          = SumFunctionOnSet(g, (a + 1)..(a + k)) + SumFunctionOnSet(g, {a + (k + 1)})
    <3>1. PICK A, B : A = (a + 1)..(a + k) /\ B = {a + (k + 1)}
      OBVIOUS
    <3>2. SumFunctionOnSet(g, A \cup B) = SumFunctionOnSet(g, A) + SumFunctionOnSet(g, B)
      <4>1. IsFiniteSet(A) /\ IsFiniteSet(B) /\ A \cap B = {}
        BY <2>1, <2>2, <3>1
      <4>2. \A x \in A \cup B : g[x] \in Nat
        BY <2>4, <3>1
      <4> QED
        BY <4>1, <4>2, SumsSplit
    <3> QED
      BY <3>1, <3>2
  <2>9. Same(k + 1)
    BY <2>0, <2>1, <2>6, <2>7, <2>8
  <2> HIDE DEF Same
  <2> QED
    BY <2>0, <2>9
<1> HIDE DEF D
<1>3. m \in D
  BY <1>1, <1>2, UpTo
<1>4. IsFiniteSet(1..m)
  BY FS_Interval
<1>5. SumFunctionOnSet(f, 1..m) \in Nat
  BY <1>4, SumsCover
<1> QED
  BY <1>3, <1>5 DEF D

-----------------------------------------------------------------------------
(* Rounding *)

(* The rounded quotient is at most half a unit off.                        *)
LEMMA RoundBound ==
  ASSUME NEW a \in Int, NEW b \in Int, b > 0
  PROVE  /\ Round(a, b) \in Int
         /\ 2 * (b * Round(a, b)) - 2 * a <= b
         /\ 2 * a - 2 * (b * Round(a, b)) <= b
<1> DEFINE q == a \div b
           r == a % b
<1>1. /\ q \in Int /\ r \in Int /\ 0 <= r /\ r < b /\ a = b * q + r
  BY Quotient
<1>2. Round(a, b) = IF 2 * r > b \/ (2 * r = b /\ q % 2 = 1) THEN q + 1 ELSE q
  BY DEF Round
<1> HIDE DEF q, r
<1>3. PICK p \in Int : p = b * q
  BY <1>1
<1>4. a = p + r
  BY <1>1, <1>3
<1>5. CASE Round(a, b) = q /\ 2 * r <= b
  <2>1. b * Round(a, b) = p
    BY <1>3, <1>5
  <2> QED
    BY <1>1, <1>4, <1>5, <2>1
<1>6. CASE Round(a, b) = q + 1 /\ 2 * r >= b
  <2>1. b * (q + 1) = p + b
    BY <1>1, <1>3
  <2>2. b * Round(a, b) = p + b
    BY <1>6, <2>1
  <2>3. q + 1 \in Int
    BY <1>1
  <2> QED
    BY <1>1, <1>4, <1>6, <2>2, <2>3
<1>7. 2 * r > b \/ 2 * r = b \/ 2 * r < b
  BY <1>1
<1> QED
  BY <1>1, <1>2, <1>5, <1>6, <1>7

LEMMA RoundBetween ==
  ASSUME NEW a \in Int, NEW b \in Int, b > 0, NEW lo \in Int, NEW hi \in Int,
         lo * b <= a, a <= hi * b
  PROVE  Round(a, b) \in Int /\ lo <= Round(a, b) /\ Round(a, b) <= hi
<1>1. PICK x \in Int : x = Round(a, b)
  BY RoundBound
<1>2. PICK y \in Int : y = b * x
  BY <1>1
<1>3. 2 * y - 2 * a <= b /\ 2 * a - 2 * y <= b
  BY <1>1, <1>2, RoundBound
<1>4. lo <= x
  <2>1. SUFFICES ASSUME x <= lo - 1 PROVE FALSE
    BY <1>1
  <2>2. b * x <= b * (lo - 1) /\ b * (lo - 1) = lo * b - b
    BY <1>1, <2>1
  <2>3. y <= lo * b - b /\ lo * b \in Int
    BY <1>2, <2>2
  <2> QED
    BY <1>2, <1>3, <2>3
<1>5. x <= hi
  <2>1. SUFFICES ASSUME x >= hi + 1 PROVE FALSE
    BY <1>1
  <2>2. b * x >= b * (hi + 1) /\ b * (hi + 1) = hi * b + b
    BY <1>1, <2>1
  <2>3. y >= hi * b + b /\ hi * b \in Int
    BY <1>2, <2>2
  <2> QED
    BY <1>2, <1>3, <2>3
<1> QED
  BY <1>1, <1>4, <1>5

LEMMA RoundPositive ==
  ASSUME NEW a \in Int, NEW b \in Int, b > 0, 2 * a > b
  PROVE  Round(a, b) \in Int /\ Round(a, b) > 0
<1>1. PICK x \in Int : x = Round(a, b)
  BY RoundBound
<1>2. PICK y \in Int : y = b * x
  BY <1>1
<1>3. 2 * a - 2 * y <= b
  BY <1>1, <1>2, RoundBound
<1>4. x > 0
  <2>1. SUFFICES ASSUME x <= 0 PROVE FALSE
    BY <1>1
  <2>2. b * x <= 0
    BY <1>1, <2>1
  <2> QED
    BY <1>2, <1>3, <2>2
<1> QED
  BY <1>1, <1>4

LEMMA Scales == Tenths = 10 /\ Full = 1000 /\ RiskPoint = 10000
BY DEF Tenths, Full, RiskPoint

LEMMA ClampIs ==
  ASSUME NEW x \in Int
  PROVE  /\ Clamp(x) \in 0..Full
         /\ x > 0 => Clamp(x) > 0
         /\ \A lo \in 0..Full : lo <= x => lo <= Clamp(x)
<1>1. PICK f \in Nat : f = Full /\ f > 0
  BY Scales
<1>2. Clamp(x) = IF x < 0 THEN 0 ELSE IF x > f THEN f ELSE x
  BY <1>1 DEF Clamp
<1> QED
  BY <1>1, <1>2

LEMMA StrengthIs ==
  ASSUME NEW x \in Int
  PROVE  /\ StrengthOf(x) \in 0..Full
         /\ Abs(x) >= 40 => StrengthOf(x) >= 68
<1>1. PICK y \in Int : y = Abs(x)
  BY AbsIs
<1>2. 17 * y \in Int /\ 10 \in Int /\ 10 > 0
  BY <1>1
<1>3. StrengthOf(x) = Clamp(Round(17 * y, 10))
  BY <1>1 DEF StrengthOf
<1>4. Round(17 * y, 10) \in Int
  BY <1>2, RoundBound
<1>5. ASSUME y >= 40 PROVE StrengthOf(x) >= 68
  <2>1. 2 * (10 * Round(17 * y, 10)) >= 2 * (17 * y) - 10
    <3>1. 2 * (17 * y) - 2 * (10 * Round(17 * y, 10)) <= 10
      BY <1>2, RoundBound
    <3> QED
      BY <1>1, <1>4, <3>1
  <2>2. Round(17 * y, 10) >= 68
    BY <1>1, <1>4, <1>5, <2>1
  <2>3. 68 \in 0..Full
    BY Scales
  <2> QED
    BY <1>3, <1>4, <2>2, <2>3, ClampIs
<1> QED
  BY <1>1, <1>3, <1>4, <1>5, ClampIs

-----------------------------------------------------------------------------
(* What the reports say *)

(* What a Cell clamps its result to.                                       *)
IsCellResult(r) ==
  /\ r.score \in -Full..Full /\ r.confidence \in 0..Full
  /\ r.volatility \in 0..100 * RiskPoint /\ r.manipulation \in 0..100 * RiskPoint
IsView(v) == IsSeq(v) /\ \A i \in DOMAIN v : IsCellResult(v[i])

(* A direction is as strong as the score it comes from.                    *)
Spoken(s) ==
  /\ s.direction \in Directions
  /\ s.direction = "bullish" => s.score >= 120
  /\ s.direction = "bearish" => s.score <= -120
  /\ s.direction = "conflict" => s.strength >= 68

LEMMA WeightOfIsNat == ASSUME NEW c PROVE WeightOf(c) \in Nat
<1>1. \A x \in DOMAIN DecisionWeights : DecisionWeights[x] \in Nat
  BY DEF DecisionWeights
<1> QED
  BY <1>1 DEF WeightOf

LEMMA AverageIs ==
  ASSUME NEW v, IsView(v)
  PROVE  WeightedAverage(v) \in -Full..Full
<1> DEFINE w == [i \in DOMAIN v |-> WeightOf(v[i].cell)]
           p == [i \in DOMAIN v |-> v[i].score * w[i]]
<1>1. IsFiniteSet(DOMAIN v)
  <2>1. Len(v) \in Nat /\ DOMAIN v = 1..Len(v)
    BY SeqFacts DEF IsView
  <2> QED
    BY <2>1, FS_Interval
<1>2. PICK f \in Nat : f = Full /\ f = 1000
  BY Scales
<1>3. \A i \in DOMAIN v : w[i] \in Nat
  BY WeightOfIsNat
<1>4. ASSUME NEW i \in DOMAIN v
      PROVE  v[i].score \in Int /\ -f <= v[i].score /\ v[i].score <= f
  <2>1. v[i].score \in -f..f
    BY <1>2 DEF IsView, IsCellResult
  <2> QED
    BY <2>1
<1>5. \A i \in DOMAIN v : p[i] = v[i].score * w[i]
  OBVIOUS
<1>6. WeightedAverage(v) = IF SumFunctionOnSet(w, DOMAIN v) = 0 THEN 0
                           ELSE Round(SumFunctionOnSet(p, DOMAIN v), SumFunctionOnSet(w, DOMAIN v))
  BY DEF WeightedAverage, SumFunction
<1> DEFINE g == [i \in DOMAIN v |-> v[i].score]
<1>7. \A i \in DOMAIN v : g[i] \in Int /\ -f <= g[i] /\ g[i] <= f /\ p[i] = g[i] * w[i]
  BY <1>4, <1>5
<1> HIDE DEF w, p, g
<1>8. PICK D : D = DOMAIN v
  OBVIOUS
<1>9. /\ SumFunctionOnSet(p, D) \in Int /\ SumFunctionOnSet(w, D) \in Nat
      /\ (-f) * SumFunctionOnSet(w, D) <= SumFunctionOnSet(p, D)
      /\ SumFunctionOnSet(p, D) <= f * SumFunctionOnSet(w, D)
  <2>1. -f \in Int /\ f \in Int
    OBVIOUS
  <2>2. \A i \in D : g[i] \in Int /\ -f <= g[i] /\ g[i] <= f
    BY <1>7, <1>8
  <2>3. \A i \in D : w[i] \in Nat /\ p[i] = g[i] * w[i]
    BY <1>3, <1>7, <1>8
  <2>4. IsFiniteSet(D)
    BY <1>1, <1>8
  <2> QED
    BY <2>1, <2>2, <2>3, <2>4, SumsWithin
<1>10. PICK P \in Int, W \in Nat : P = SumFunctionOnSet(p, D) /\ W = SumFunctionOnSet(w, D)
  BY <1>9
<1>11. CASE W = 0
  BY <1>2, <1>6, <1>8, <1>10, <1>11
<1>12. CASE W # 0
  <2>0. PICK l \in Int : l = -f
    OBVIOUS
  <2>1. W \in Int /\ W > 0 /\ l * W <= P /\ P <= f * W /\ f \in Int
    BY <1>9, <1>10, <1>12, <2>0
  <2>2. Round(P, W) \in Int /\ l <= Round(P, W) /\ Round(P, W) <= f
    BY <2>1, RoundBetween
  <2>3. WeightedAverage(v) = Round(P, W)
    BY <1>6, <1>8, <1>10, <1>12
  <2> QED
    BY <1>2, <2>0, <2>2, <2>3
<1> QED
  BY <1>11, <1>12

LEMMA LargestWithin ==
  ASSUME NEW n \in Nat, NEW S, S \subseteq 0..n
  PROVE  Largest(S) \in 0..n
<1>1. IsFiniteSet(0..n)
  BY FS_Interval
<1>2. IsFiniteSet(S)
  BY <1>1, FS_Subset
<1>3. S \subseteq Int
  OBVIOUS
<1>4. Largest(S) \in S \/ Largest(S) = 0
  BY <1>2, <1>3, LargestIs
<1>5. 0 \in 0..n
  OBVIOUS
<1> QED
  BY <1>4, <1>5

(* A report's decision is within its bounds, and speaks for a side only    *)
(* when its score does.                                                    *)
LEMMA AssessmentSays ==
  ASSUME NEW h, NEW v, IsView(v), NEW d, d = Assessment(h, v)
  PROVE  /\ d.score \in -Full..Full /\ d.strength \in 0..Full /\ d.confidence \in 0..Full
         /\ d.volatility \in 0..100 * RiskPoint /\ d.manipulation \in 0..100 * RiskPoint
         /\ Spoken(d)
<1>1. PICK x : x = WeightedAverage(v)
  OBVIOUS
<1>2. x \in -Full..Full
  BY <1>1, AverageIs
<1>3. x \in Int
  BY <1>2, Scales
<1>4. /\ d.score = x /\ d.strength = StrengthOf(x) /\ d.direction = DirectionFromScore(x)
      /\ d.volatility = Largest({v[i].volatility : i \in DOMAIN v})
      /\ d.manipulation = Largest({v[i].manipulation : i \in DOMAIN v})
      /\ d.confidence =
           IF v = << >> THEN 0
           ELSE Clamp(Round(SumFunction([i \in DOMAIN v |-> v[i].confidence]), Len(v)))
  BY <1>1 DEF Assessment
<1>5. /\ d.volatility \in 0..100 * RiskPoint /\ d.manipulation \in 0..100 * RiskPoint
  <2>1. PICK n \in Nat : n = 100 * RiskPoint
    BY Scales
  <2>2. /\ {v[i].volatility : i \in DOMAIN v} \subseteq 0..n
        /\ {v[i].manipulation : i \in DOMAIN v} \subseteq 0..n
    BY <2>1 DEF IsView, IsCellResult
  <2>3. /\ Largest({v[i].volatility : i \in DOMAIN v}) \in 0..n
        /\ Largest({v[i].manipulation : i \in DOMAIN v}) \in 0..n
    BY <2>2, LargestWithin
  <2> QED
    BY <1>4, <2>1, <2>3
<1>6. d.confidence \in 0..Full
  <2>1. Len(v) \in Nat /\ DOMAIN v = 1..Len(v) /\ (v = << >> <=> Len(v) = 0)
    BY SeqFacts DEF IsView
  <2>2. 0 \in 0..Full
    BY Scales
  <2>3. CASE v # << >>
    <3> DEFINE c == [i \in DOMAIN v |-> v[i].confidence]
    <3>1. \A i \in DOMAIN v : c[i] \in Int
      <4>1. \A i \in DOMAIN v : v[i].confidence \in 0..Full
        BY DEF IsView, IsCellResult
      <4>2. 0..Full \subseteq Int
        BY Scales
      <4> QED
        BY <4>1, <4>2
    <3>2. SumFunction(c) = SumFunctionOnSet(c, DOMAIN v)
      BY DEF SumFunction
    <3> HIDE DEF c
    <3>3. IsFiniteSet(DOMAIN v)
      BY <2>1, FS_Interval
    <3>4. SumFunction(c) \in Int
      BY <3>1, <3>2, <3>3, SumsGrow
    <3>5. Round(SumFunction(c), Len(v)) \in Int
      <4>1. Len(v) \in Int /\ Len(v) > 0
        BY <2>1, <2>3
      <4> QED
        BY <3>4, <4>1, RoundBound
    <3> QED
      BY <1>4, <2>3, <3>5, ClampIs DEF c
  <2> QED
    BY <1>4, <2>2, <2>3
<1>7. d.strength \in 0..Full
  BY <1>3, <1>4, StrengthIs
<1>8. Spoken(d)
  <2>1. 12 * Tenths = 120 /\ -12 * Tenths = -120 /\ 4 * Tenths = 40
    BY Scales
  <2>2. d.direction = CASE x >= 120 -> "bullish" [] x <= -120 -> "bearish"
                        [] Abs(x) < 40 -> "neutral" [] OTHER -> "conflict"
    BY <1>4, <2>1 DEF DirectionFromScore
  <2>3. Abs(x) = (IF x < 0 THEN -x ELSE x)
    BY DEF Abs
  <2>4. d.direction = IF x >= 120 THEN "bullish" ELSE IF x <= -120 THEN "bearish"
                      ELSE IF Abs(x) < 40 THEN "neutral" ELSE "conflict"
    BY <1>3, <2>2, <2>3
  <2>5. d.direction = "conflict" => d.strength >= 68
    <3>1. d.direction = "conflict" => Abs(x) >= 40
      BY <1>3, <2>3, <2>4
    <3> QED
      BY <1>3, <1>4, <3>1, StrengthIs
  <2>6. d.direction \in Directions
    BY <2>4 DEF Directions
  <2>7. /\ d.direction = "bullish" => d.score >= 120
        /\ d.direction = "bearish" => d.score <= -120
    BY <1>3, <1>4, <2>4
  <2> QED
    BY <2>5, <2>6, <2>7 DEF Spoken
<1> QED
  BY <1>2, <1>4, <1>5, <1>6, <1>7, <1>8

-----------------------------------------------------------------------------
(* The numbers of a band *)

Heard(m) == Signalled(m) /\ \A i \in DOMAIN m : Spoken(m[i])

LEMMA MaxOfTwo ==
  ASSUME NEW x \in Int, NEW y \in Int
  PROVE  Max({x, y}) \in Int /\ Max({x, y}) >= x /\ Max({x, y}) >= y
         /\ (Max({x, y}) = x \/ Max({x, y}) = y)
<1>1. PICK pair : pair = {x, y}
  OBVIOUS
<1>2. IsFiniteSet(pair)
  <2>1. pair = {x} \cup {y} /\ IsFiniteSet({x})
    BY <1>1, FS_Singleton
  <2> QED
    BY <2>1, FS_AddElement
<1>3. pair \subseteq Int /\ pair # {} /\ x \in pair /\ y \in pair
  BY <1>1
<1>4. Max(pair) \in pair /\ \A z \in pair : z <= Max(pair)
  BY <1>2, <1>3, Greatest
<1> QED
  BY <1>1, <1>3, <1>4

LEMMA MinOfTwo ==
  ASSUME NEW x \in Nat, NEW y \in Nat
  PROVE  Min({x, y}) \in Nat /\ Min({x, y}) <= x /\ Min({x, y}) <= y
         /\ (Min({x, y}) = x \/ Min({x, y}) = y)
<1>1. PICK pair : pair = {x, y}
  OBVIOUS
<1>2. pair \subseteq Nat /\ pair # {} /\ x \in pair /\ y \in pair
  BY <1>1
<1>3. Min(pair) \in pair /\ \A z \in pair : Min(pair) <= z
  BY <1>2, Least
<1> QED
  BY <1>1, <1>2, <1>3

(* The weaker side counts unless the other is thousands of times stronger. *)
LEMMA OppositionIs ==
  ASSUME NEW x \in Int, NEW y \in Int
  PROVE  /\ Opposition(x, y) \in 0..Full
         /\ x > 0 /\ y > 0 /\ x < 3999 * y /\ y < 3999 * x => Opposition(x, y) > 0
<1>1. CASE x > 0 /\ y > 0
  <2>1. PICK n \in Nat : n = Min({x, y}) /\ (n = x \/ n = y)
    <3>1. x \in Nat /\ y \in Nat
      BY <1>1
    <3> QED
      BY <3>1, MinOfTwo
  <2>2. 200 * Tenths * Min({x, y}) = 2000 * n
    BY <2>1, Scales
  <2>3. Opposition(x, y) = Clamp(Round(2000 * n, x + y))
    BY <1>1, <2>2 DEF Opposition
  <2>4. 2000 * n \in Int /\ x + y \in Int /\ x + y > 0
    BY <1>1, <2>1
  <2>5. Round(2000 * n, x + y) \in Int
    BY <2>4, RoundBound
  <2>6. ASSUME x < 3999 * y, y < 3999 * x PROVE Round(2000 * n, x + y) > 0
    <3>1. 2 * (2000 * n) > x + y
      BY <2>1, <2>6
    <3> QED
      BY <2>4, <3>1, RoundPositive
  <2> QED
    BY <2>3, <2>5, <2>6, ClampIs
<1>2. CASE ~(x > 0 /\ y > 0)
  <2>1. Opposition(x, y) = 0
    BY <1>2 DEF Opposition
  <2>2. 0 \in 0..Full
    BY Scales
  <2> QED
    BY <1>2, <2>1, <2>2
<1> QED
  BY <1>1, <1>2

LEMMA TotalWeightAtMost ==
  ASSUME NEW I, I \subseteq 1..8
  PROVE  TotalWeight(I) \in Nat /\ TotalWeight(I) <= 448
<1> DEFINE F == [i \in I |-> Weight(i)]
<1>1. PICK A, B : A = I \cap 1..6 /\ B = I \cap 7..8
  OBVIOUS
<1>2. I = A \cup B /\ A \cap B = {} /\ A \subseteq I /\ B \subseteq I
  <2>1. \A i \in 1..8 : i \in 1..6 \/ i \in 7..8
    OBVIOUS
  <2>2. \A i : ~(i \in 1..6 /\ i \in 7..8)
    OBVIOUS
  <2> QED
    BY <1>1, <2>1, <2>2, Zenon
<1>3. /\ \A i \in 1..6 : Weight(i) \in Nat /\ Weight(i) <= 32
      /\ \A i \in 7..8 : Weight(i) \in Nat /\ Weight(i) <= 128
  <2>1. PICK w : w = << 1, 2, 4, 8, 16, 32, 64, 128 >>
    OBVIOUS
  <2>2. w[1] = 1 /\ w[2] = 2 /\ w[3] = 4 /\ w[4] = 8
    BY <2>1
  <2>3. w[5] = 16 /\ w[6] = 32 /\ w[7] = 64 /\ w[8] = 128
    BY <2>1
  <2>4. ASSUME NEW i \in 1..6 PROVE w[i] \in Nat /\ w[i] <= 32
    <3>1. i = 1 \/ i = 2 \/ i = 3 \/ i = 4 \/ i = 5 \/ i = 6
      OBVIOUS
    <3> QED
      BY <2>2, <2>3, <3>1
  <2>5. ASSUME NEW i \in 7..8 PROVE w[i] \in Nat /\ w[i] <= 128
    BY <2>3
  <2> QED
    BY <2>1, <2>4, <2>5 DEF Weight
<1>4. /\ \A i \in A : F[i] \in Nat /\ F[i] <= 32
      /\ \A i \in B : F[i] \in Nat /\ F[i] <= 128
  BY <1>1, <1>3
<1>5. TotalWeight(I) = SumFunctionOnSet(F, I)
  BY DEF TotalWeight, SumFunction
<1> HIDE DEF F
<1>6. /\ IsFiniteSet(A) /\ Cardinality(A) <= 6 /\ Cardinality(A) \in Nat
      /\ IsFiniteSet(B) /\ Cardinality(B) <= 2 /\ Cardinality(B) \in Nat
  <2>1. ASSUME NEW a \in Nat, NEW b \in Nat, a <= b + 1
        PROVE  IsFiniteSet(a..b) /\ Cardinality(a..b) = b - a + 1
    <3>1. IsFiniteSet(a..b) /\ Cardinality(a..b) = IF a > b THEN 0 ELSE b - a + 1
      BY FS_Interval
    <3> QED
      BY <2>1, <3>1
  <2>2. IsFiniteSet(1..6) /\ Cardinality(1..6) = 6
    <3>1. PICK a \in Nat, b \in Nat : a = 1 /\ b = 6 /\ a <= b + 1
      OBVIOUS
    <3>2. Cardinality(a..b) = b - a + 1 /\ IsFiniteSet(a..b)
      BY <2>1, <3>1
    <3> QED
      BY <3>1, <3>2
  <2>3. IsFiniteSet(7..8) /\ Cardinality(7..8) = 2
    <3>1. PICK a \in Nat, b \in Nat : a = 7 /\ b = 8 /\ a <= b + 1
      OBVIOUS
    <3>2. Cardinality(a..b) = b - a + 1 /\ IsFiniteSet(a..b)
      BY <2>1, <3>1
    <3> QED
      BY <3>1, <3>2
  <2>4. A \subseteq 1..6 /\ B \subseteq 7..8
    BY <1>1
  <2>5. IsFiniteSet(A) /\ Cardinality(A) <= Cardinality(1..6)
    BY <2>2, <2>4, FS_Subset
  <2>6. IsFiniteSet(B) /\ Cardinality(B) <= Cardinality(7..8)
    BY <2>3, <2>4, FS_Subset
  <2> QED
    BY <2>2, <2>3, <2>5, <2>6, FS_CardinalityType
<1>7. /\ SumFunctionOnSet(F, A) \in Nat /\ SumFunctionOnSet(F, A) <= Cardinality(A) * 32
      /\ SumFunctionOnSet(F, B) \in Nat /\ SumFunctionOnSet(F, B) <= Cardinality(B) * 128
  <2>1. 32 \in Nat /\ 128 \in Nat
    OBVIOUS
  <2> QED
    BY <1>4, <1>6, <2>1, SumsBounded
<1>8. SumFunctionOnSet(F, A \cup B) = SumFunctionOnSet(F, A) + SumFunctionOnSet(F, B)
  <2>1. \A i \in A \cup B : F[i] \in Nat
    BY <1>4
  <2> QED
    BY <1>2, <1>6, <2>1, SumsSplit
<1> QED
  BY <1>2, <1>5, <1>6, <1>7, <1>8

(* A weighted mean of some members.                                        *)
LEMMA WeightedWithin ==
  ASSUME NEW I, I \subseteq 1..8, NEW f, DOMAIN f = I, NEW lo \in Int, NEW hi \in Int,
         \A i \in I : f[i] \in Int /\ lo <= f[i] /\ f[i] <= hi
  PROVE  /\ Weighted(f) \in Int
         /\ lo * TotalWeight(I) <= Weighted(f) /\ Weighted(f) <= hi * TotalWeight(I)
<1> DEFINE w == [i \in I |-> Weight(i)]
           p == [i \in I |-> f[i] * Weight(i)]
<1>1. IsFiniteSet(I)
  BY FewAreFinite
<1>2. \A i \in I : w[i] \in Nat /\ p[i] = f[i] * w[i]
  BY WeightIs
<1>3. Weighted(f) = SumFunctionOnSet(p, I) /\ TotalWeight(I) = SumFunctionOnSet(w, I)
  BY DEF Weighted, TotalWeight, SumFunction
<1> HIDE DEF w, p
<1>4. /\ SumFunctionOnSet(p, I) \in Int
      /\ lo * SumFunctionOnSet(w, I) <= SumFunctionOnSet(p, I)
      /\ SumFunctionOnSet(p, I) <= hi * SumFunctionOnSet(w, I)
  <2>1. \A i \in I : f[i] \in Int /\ lo <= f[i] /\ f[i] <= hi
    OBVIOUS
  <2> QED
    BY <1>1, <1>2, <2>1, SumsWithin
<1> QED
  BY <1>3, <1>4

LEMMA HeardFacts ==
  ASSUME NEW m, Heard(m)
  PROVE  /\ DOMAIN m \subseteq 1..8 /\ DOMAIN m # {} /\ Signalled(m)
         /\ \A i \in DOMAIN m :
              /\ Spoken(m[i])
              /\ m[i].score \in Int /\ -1000 <= m[i].score /\ m[i].score <= 1000
              /\ m[i].strength \in Int /\ 0 <= m[i].strength /\ m[i].strength <= 1000
              /\ m[i].confidence \in Int /\ 0 <= m[i].confidence /\ m[i].confidence <= 1000
<1>1. Signalled(m) /\ \A i \in DOMAIN m : Spoken(m[i])
  BY DEF Heard
<1>2. DOMAIN m \subseteq 1..8 /\ Len(m) \in DOMAIN m
  BY <1>1, SignalledFacts
<1>3. \A i \in DOMAIN m : /\ m[i].score \in -Full..Full
                          /\ m[i].strength \in 0..Full /\ m[i].confidence \in 0..Full
  BY <1>1 DEF Signalled, IsSignal, SignalAccepted
<1>4. Full = 1000
  BY Scales
<1>5. \A i \in DOMAIN m : /\ m[i].score \in -1000..1000
                          /\ m[i].strength \in 0..1000 /\ m[i].confidence \in 0..1000
  BY <1>3, <1>4
<1>6. ASSUME NEW i \in DOMAIN m
      PROVE  /\ m[i].score \in Int /\ -1000 <= m[i].score /\ m[i].score <= 1000
             /\ m[i].strength \in Int /\ 0 <= m[i].strength /\ m[i].strength <= 1000
             /\ m[i].confidence \in Int /\ 0 <= m[i].confidence /\ m[i].confidence <= 1000
  <2>1. m[i].score \in -1000..1000
    BY <1>5
  <2>2. m[i].strength \in 0..1000
    BY <1>5
  <2>3. m[i].confidence \in 0..1000
    BY <1>5
  <2>5. \A x \in 0..1000 : x \in Int /\ 0 <= x /\ x <= 1000
    OBVIOUS
  <2>6. m[i].score \in Int /\ -1000 <= m[i].score /\ m[i].score <= 1000
    <3>1. PICK x \in -1000..1000 : x = m[i].score
      BY <2>1
    <3>2. x \in Int /\ -1000 <= x /\ x <= 1000
      OBVIOUS
    <3> QED
      BY <3>1, <3>2
  <2>7. m[i].strength \in Int /\ 0 <= m[i].strength /\ m[i].strength <= 1000
    BY <2>2, <2>5, Zenon
  <2>8. m[i].confidence \in Int /\ 0 <= m[i].confidence /\ m[i].confidence <= 1000
    BY <2>3, <2>5, Zenon
  <2> QED
    BY <2>6, <2>7, <2>8
<1>7. DOMAIN m # {}
  BY <1>2
<1> QED
  BY <1>1, <1>2, <1>6, <1>7

(* The score of a band is a mean of the scores counted.                    *)
LEMMA BandScoreWithin ==
  ASSUME NEW m, Heard(m), NEW lo \in Int, NEW hi \in Int,
         \A i \in Counted(m) : lo <= m[i].score /\ m[i].score <= hi
  PROVE  BandScore(m) \in Int /\ lo <= BandScore(m) /\ BandScore(m) <= hi
<1> DEFINE f == [i \in Counted(m) |-> m[i].score]
<1>1. PICK I : I = Counted(m)
  OBVIOUS
<1>2. I \subseteq DOMAIN m /\ I # {} /\ I \subseteq 1..8
  <2>1. DOMAIN m \subseteq 1..8 /\ DOMAIN m # {}
    BY HeardFacts
  <2>2. I \subseteq DOMAIN m
    BY <1>1, BandParts
  <2>3. I # {}
    BY <1>1, <2>1 DEF Counted
  <2> QED
    BY <2>1, <2>2, <2>3, Zenon
<1>3. DOMAIN f = I /\ \A i \in I : f[i] \in Int /\ lo <= f[i] /\ f[i] <= hi
  BY <1>1, <1>2, HeardFacts
<1>4. BandScore(m) = Round(Weighted(f), TotalWeight(I))
  BY <1>1, BandParts
<1> HIDE DEF f
<1>5. /\ Weighted(f) \in Int
      /\ lo * TotalWeight(I) <= Weighted(f) /\ Weighted(f) <= hi * TotalWeight(I)
  BY <1>2, <1>3, WeightedWithin
<1>6. TotalWeight(I) \in Int /\ TotalWeight(I) > 0
  BY <1>2, TotalWeightIs
<1> QED
  BY <1>4, <1>5, <1>6, RoundBetween

(* What qualified members of a side bring along.                           *)
LEMMA SupportIs ==
  ASSUME NEW m, Heard(m), NEW d
  PROVE  /\ Support(m, d) \in Int
         /\ d \in Directional /\ OnSide(m, d) # {} =>
              120 <= Support(m, d) /\ Support(m, d) <= 448000
<1> DEFINE f == [i \in OnSide(m, d) |-> Abs(m[i].score)]
<1>1. PICK I : I = OnSide(m, d)
  OBVIOUS
<1>2. I \subseteq DOMAIN m /\ I \subseteq 1..8
  <2>1. DOMAIN m \subseteq 1..8
    BY HeardFacts
  <2>2. I \subseteq DOMAIN m
    BY <1>1, BandParts
  <2> QED
    BY <2>1, <2>2, Zenon
<1>3. DOMAIN f = I /\ \A i \in I : f[i] = Abs(m[i].score)
  BY <1>1
<1>4. ASSUME NEW i \in I PROVE f[i] \in Int /\ (d \in Directional => 120 <= f[i] /\ f[i] <= 1000)
  <2>1. /\ m[i].score \in Int /\ -1000 <= m[i].score /\ m[i].score <= 1000
        /\ Spoken(m[i])
    BY <1>2, HeardFacts
  <2>2. m[i].direction = d
    BY <1>1 DEF OnSide
  <2>3. f[i] = IF m[i].score < 0 THEN -m[i].score ELSE m[i].score
    BY <1>3 DEF Abs
  <2>4. d \in Directional => m[i].score >= 120 \/ m[i].score <= -120
    BY <2>1, <2>2 DEF Spoken, Directional
  <2> QED
    BY <2>1, <2>3, <2>4
<1>5. Support(m, d) = Weighted(f)
  BY DEF Support
<1> HIDE DEF f
<1>6. Weighted(f) \in Int
  BY <1>2, <1>3, <1>4, WeightedIsInt
<1>7. ASSUME d \in Directional, I # {} PROVE 120 <= Weighted(f) /\ Weighted(f) <= 448000
  <2>1. 120 * TotalWeight(I) <= Weighted(f) /\ Weighted(f) <= 1000 * TotalWeight(I)
    <3>1. 120 \in Int /\ 1000 \in Int
      OBVIOUS
    <3>2. \A i \in I : f[i] \in Int /\ 120 <= f[i] /\ f[i] <= 1000
      BY <1>4, <1>7
    <3> QED
      BY <1>2, <1>3, <3>1, <3>2, WeightedWithin
  <2>2. TotalWeight(I) \in Nat /\ TotalWeight(I) > 0 /\ TotalWeight(I) <= 448
    BY <1>2, <1>7, TotalWeightIs, TotalWeightAtMost
  <2>3. PICK t \in Nat : t = TotalWeight(I) /\ t > 0 /\ t <= 448
    BY <2>2
  <2>4. PICK x \in Int : x = Weighted(f) /\ 120 * t <= x /\ x <= 1000 * t
    BY <1>6, <2>1, <2>3
  <2> QED
    BY <2>3, <2>4
<1> QED
  BY <1>1, <1>5, <1>6, <1>7

-----------------------------------------------------------------------------
(* What a band concludes *)

(* A material conflict of the weakest kind does not round to nothing.      *)
ConflictsRegister == Policy.minConfidence >= 8

LEMMA ProductWithin ==
  ASSUME NEW x \in Int, NEW y \in Int, NEW n \in Nat, 0 <= x, x <= n, 0 <= y, y <= n
  PROVE  x * y \in Int /\ 0 * n <= x * y /\ x * y <= n * n
<1>1. 0 <= x * y /\ x * y <= n * n
  <2>1. x * y <= x * n /\ x * n <= n * n /\ 0 <= x * y
    OBVIOUS
  <2>2. x * y \in Int /\ x * n \in Int /\ n * n \in Int
    OBVIOUS
  <2> QED
    BY <2>1, <2>2
<1> QED
  BY <1>1

(* Two sides that both qualify leave a conflict that is counted.           *)
LEMMA ExplicitIs ==
  ASSUME NEW m, Heard(m)
  PROVE  /\ Explicit(m) \subseteq 0..Full
         /\ ConflictsRegister /\ SomeMaterialConflict(m) => \E x \in Explicit(m) : x > 0
<1> DEFINE One(i) == Round(m[i].strength * m[i].confidence, Full)
           I == {k \in DOMAIN m : MaterialConflict(m[k])}
<1>1. Explicit(m) = {One(i) : i \in I}
  BY DEF Explicit
<1>2. ASSUME NEW i \in DOMAIN m
      PROVE  One(i) \in 0..Full
  <2>1. PICK x \in Int, y \in Int : /\ x = m[i].strength /\ y = m[i].confidence
                                    /\ 0 <= x /\ x <= 1000 /\ 0 <= y /\ y <= 1000
    BY HeardFacts
  <2>2. PICK n \in Nat : n = 1000 /\ n = Full
    BY Scales
  <2>3. x * y \in Int /\ 0 * n <= x * y /\ x * y <= n * n
    BY <2>1, <2>2, ProductWithin
  <2>4. n \in Int /\ n > 0 /\ 0 \in Int
    BY <2>2
  <2>5. Round(x * y, n) \in Int /\ 0 <= Round(x * y, n) /\ Round(x * y, n) <= n
    BY <2>3, <2>4, RoundBetween
  <2>6. One(i) = Round(x * y, n)
    BY <2>1, <2>2
  <2> HIDE DEF One
  <2> QED
    BY <2>2, <2>5, <2>6
<1>3. ASSUME ConflictsRegister, NEW i \in DOMAIN m, MaterialConflict(m[i])
      PROVE  One(i) > 0
  <2>1. PICK x \in Int, y \in Int : /\ x = m[i].strength /\ y = m[i].confidence
                                    /\ 0 <= x /\ x <= 1000 /\ 0 <= y /\ y <= 1000
    BY HeardFacts
  <2>2. x >= 68
    <3>1. Spoken(m[i]) /\ m[i].direction = "conflict"
      BY <1>3, HeardFacts DEF MaterialConflict
    <3> QED
      BY <2>1, <3>1 DEF Spoken
  <2>3. y >= 8
    <3>1. y >= Policy.minConfidence
      BY <1>3, <2>1 DEF MaterialConflict, Substantial
    <3>2. Policy.minConfidence \in 0..Full
      BY PolicyAssumption DEF PolicyAccepted
    <3>3. Policy.minConfidence \in Int
      BY <3>2, Scales
    <3> QED
      BY <1>3, <3>1, <3>3 DEF ConflictsRegister
  <2>4. x * y >= 544
    <3>1. x * y >= 68 * y /\ x * y \in Int
      BY <2>2, <2>3
    <3> QED
      BY <2>3, <3>1
  <2>5. x * y \in Int /\ 1000 \in Int /\ 1000 > 0 /\ 2 * (x * y) > 1000
    BY <2>4
  <2>6. Round(x * y, 1000) > 0
    BY <2>5, RoundPositive
  <2> QED
    BY <2>1, <2>6, Scales
<1>4. Explicit(m) \subseteq 0..Full
  BY <1>1, <1>2
<1>5. ASSUME ConflictsRegister, SomeMaterialConflict(m) PROVE \E x \in Explicit(m) : x > 0
  <2>1. PICK i \in DOMAIN m : MaterialConflict(m[i])
    BY <1>5 DEF SomeMaterialConflict
  <2>2. One(i) > 0 /\ One(i) \in Explicit(m)
    BY <1>1, <1>3, <1>5, <2>1
  <2> QED
    BY <2>2
<1> QED
  BY <1>4, <1>5

(* The largest of some shares, clamped.                                    *)
LEMMA LargestShare ==
  ASSUME NEW S, S \subseteq 0..Full
  PROVE  /\ Largest(S) \in 0..Full
         /\ (\E x \in S : x > 0) => Largest(S) > 0
<1>1. PICK n \in Nat : n = Full
  BY Scales
<1>2. S \subseteq 0..n
  BY <1>1
<1>3. Largest(S) \in 0..n
  BY <1>2, LargestWithin
<1>4. IsFiniteSet(S) /\ S \subseteq Int
  <2>1. IsFiniteSet(0..n)
    BY FS_Interval
  <2>2. IsFiniteSet(S)
    BY <1>2, <2>1, FS_Subset
  <2>3. S \subseteq Int
    BY <1>2
  <2> QED
    BY <2>2, <2>3
<1>5. ASSUME NEW x \in S, x > 0 PROVE Largest(S) > 0
  <2>1. x <= Largest(S) /\ x \in Int /\ Largest(S) \in Int
    BY <1>4, LargestIs
  <2> QED
    BY <1>5, <2>1
<1> QED
  BY <1>1, <1>3, <1>5

(* The conflict of a band is none at all, or one its members show.         *)
LEMMA BandConflictIs ==
  ASSUME NEW m, Heard(m)
  PROVE  /\ BandConflictScore(m) \in 0..Full
         /\ ConflictsRegister /\ BandDirection(m) = "conflict" => BandConflictScore(m) > 0
<1> DEFINE bull == Support(m, "bullish")
           bear == Support(m, "bearish")
<1>1. PICK S : S = Explicit(m) \cup {Opposition(bull, bear)}
  OBVIOUS
<1>2. bull \in Int /\ bear \in Int
  BY SupportIs
<1>3. S \subseteq 0..Full
  <2>1. Opposition(bull, bear) \in 0..Full
    BY <1>2, OppositionIs
  <2> QED
    BY <1>1, <2>1, ExplicitIs
<1>4. BandConflictScore(m) = Clamp(Largest(S))
  BY <1>1, BandParts
<1>5. Largest(S) \in Int
  <2>1. Largest(S) \in 0..Full
    BY <1>3, LargestShare
  <2> QED
    BY <2>1, Scales
<1>6. ASSUME ConflictsRegister, BandDirection(m) = "conflict" PROVE \E x \in S : x > 0
  <2>1. QualifiedDirections(m) = Directional \/ SomeMaterialConflict(m)
    <3>1. Verdict(QualifiedDirections(m), BandConflicted(m)) = "conflict"
      BY <1>6, BandVerdict
    <3>2. QualifiedDirections(m) = Directional \/ BandConflicted(m)
      BY <3>1 DEF Verdict
    <3>3. BandConflicted(m) => SomeMaterialConflict(m)
      <4>1. Last(m) = m[Len(m)] /\ Len(m) \in DOMAIN m
        BY SignalledFacts DEF Heard
      <4> QED
        BY <4>1 DEF BandConflicted, SomeMaterialConflict
    <3> QED
      BY <3>2, <3>3
  <2>2. CASE SomeMaterialConflict(m)
    BY <1>1, <1>6, <2>2, ExplicitIs
  <2>3. CASE QualifiedDirections(m) = Directional
    <3>1. "bullish" \in QualifiedDirections(m) /\ "bearish" \in QualifiedDirections(m)
      BY <2>3 DEF Directional
    <3>2. OnSide(m, "bullish") # {} /\ OnSide(m, "bearish") # {}
      BY <3>1 DEF QualifiedDirections, OnSide
    <3>3. /\ 120 <= bull /\ bull <= 448000
          /\ 120 <= bear /\ bear <= 448000
      BY <3>2, SupportIs, SMT DEF Directional
    <3>4. bull > 0 /\ bear > 0 /\ bull < 3999 * bear /\ bear < 3999 * bull
      <4>1. PICK x \in Int, y \in Int : x = bull /\ y = bear
        BY <1>2
      <4>2. /\ 120 <= x /\ x <= 448000 /\ 120 <= y /\ y <= 448000
        BY <3>3, <4>1, SMT
      <4>3. x > 0 /\ y > 0 /\ x < 3999 * y /\ y < 3999 * x
        BY <4>2, SMT
      <4> QED
        BY <4>1, <4>3
    <3>5. Opposition(bull, bear) > 0
      BY <1>2, <3>4, OppositionIs
    <3> QED
      BY <1>1, <3>5
  <2> QED
    BY <2>1, <2>2, <2>3
<1> HIDE DEF bull, bear
<1>7. ASSUME ConflictsRegister, BandDirection(m) = "conflict" PROVE BandConflictScore(m) > 0
  <2>1. Largest(S) > 0
    BY <1>3, <1>6, <1>7, LargestShare
  <2> QED
    BY <1>4, <1>5, <2>1, ClampIs
<1> QED
  BY <1>4, <1>5, <1>7, ClampIs

LEMMA RiskTop == 100 * RiskPoint = 1000000
BY SMT DEF RiskPoint

LEMMA RoundRiskIs ==
  ASSUME NEW r \in 0..100 * RiskPoint
  PROVE  RoundRisk(r) \in 0..100 * RiskPoint
<1>1. 100 * RiskPoint = 1000000
  BY RiskTop
<1>2. PICK x \in Int : x = r /\ 0 * 10 <= x /\ x <= 100000 * 10
  BY <1>1, SMT
<1>3. PICK y \in Int : y = Round(x, 10) /\ 0 <= y /\ y <= 100000
  <2>1. 10 \in Int /\ 10 > 0 /\ 0 \in Int /\ 100000 \in Int
    BY SMT
  <2> QED
    BY <1>2, <2>1, RoundBetween, SMT
<1>4. RoundRisk(r) = y * 10
  BY <1>2, <1>3 DEF RoundRisk
<1> QED
  BY <1>1, <1>3, <1>4, SMT

LEMMA RisksAre ==
  ASSUME NEW m, Signalled(m)
  PROVE  /\ Volatility(m) \in 0..100 * RiskPoint /\ Manipulation(m) \in 0..100 * RiskPoint
         /\ RoundRisk(Volatility(m)) \in 0..100 * RiskPoint
         /\ RoundRisk(Manipulation(m)) \in 0..100 * RiskPoint
<1>1. PICK n \in Nat : n = 100 * RiskPoint
  BY Scales
<1>2. /\ {m[i].volatility : i \in DOMAIN m} \subseteq 0..n
      /\ {m[i].manipulation : i \in DOMAIN m} \subseteq 0..n
  BY <1>1 DEF Signalled, IsSignal, SignalAccepted
<1>3. Volatility(m) \in 0..n /\ Manipulation(m) \in 0..n
  BY <1>2, LargestWithin DEF Volatility, Manipulation
<1> QED
  BY <1>1, <1>3, RoundRiskIs

LEMMA BandFields ==
  ASSUME NEW b, NEW m, NEW x, x = BandDecision(b, m)
  PROVE  LET a == BandAlignment(m, BandDirection(m))
             c == IF BandDirection(m) = "conflict" THEN BandConflictScore(m) ELSE 0
         IN /\ x.band = b /\ x.horizons = Horizons(m)
            /\ x.qualified = Horizons(Kept(m, QualifiedIn(m)))
            /\ x.anchor = Last(m).horizon
            /\ x.direction = BandDirection(m) /\ x.alignment = a
            /\ x.score = BandScore(m) /\ x.conflictScore = c
            /\ x.strength = ConclusionStrength(BandDirection(m), BandScore(m), c)
            /\ x.confidence = Clamp(Round(Confidence(m) * BandFactor(a, c),
                                          TotalWeight(DOMAIN m) * 5000))
            /\ x.volatility = RoundRisk(Volatility(m))
            /\ x.manipulation = RoundRisk(Manipulation(m))
            /\ x.level = Overall(LevelsOf(m))
<1>1. PICK d, a, s, c : /\ d = BandDirection(m) /\ a = BandAlignment(m, d) /\ s = BandScore(m)
                        /\ c = IF d = "conflict" THEN BandConflictScore(m) ELSE 0
  OBVIOUS
<1>2. PICK h, q, n, t, f, v, u, l :
        /\ h = Horizons(m) /\ q = Horizons(Kept(m, QualifiedIn(m))) /\ n = Last(m).horizon
        /\ t = ConclusionStrength(d, s, c)
        /\ f = Clamp(Round(Confidence(m) * BandFactor(a, c), TotalWeight(DOMAIN m) * 5000))
        /\ v = RoundRisk(Volatility(m)) /\ u = RoundRisk(Manipulation(m))
        /\ l = Overall(LevelsOf(m))
  OBVIOUS
<1>3. x = [band |-> b, horizons |-> h, qualified |-> q, anchor |-> n, direction |-> d,
           alignment |-> a, score |-> s, conflictScore |-> c, strength |-> t,
           confidence |-> f, volatility |-> v, manipulation |-> u, level |-> l]
  BY <1>1, <1>2, BandIs
<1>4. /\ x.band = b /\ x.horizons = h /\ x.qualified = q /\ x.anchor = n /\ x.direction = d
      /\ x.alignment = a /\ x.score = s /\ x.conflictScore = c /\ x.strength = t
      /\ x.confidence = f /\ x.volatility = v /\ x.manipulation = u /\ x.level = l
  BY <1>3
<1> QED
  BY <1>1, <1>2, <1>4

LEMMA ScoreWithin ==
  ASSUME NEW n \in Int, -1000 <= n, n <= 1000
  PROVE  n \in -Full..Full
BY Scales

LEMMA ConclusionStrengthIs ==
  ASSUME NEW d, NEW x \in Int, NEW c \in 0..Full
  PROVE  ConclusionStrength(d, x, c) \in 0..Full
<1>1. StrengthOf(x) \in 0..Full
  BY StrengthIs
<1>2. PICK y \in Int : y = Abs(x)
  BY AbsIs
<1>3. Clamp(y) \in 0..Full
  BY ClampIs
<1>4. Largest({y, c}) \in Int
  <2>1. c \in Int
    BY Scales
  <2>2. PICK pair : pair = {y, c}
    OBVIOUS
  <2>3. pair = {y} \cup {c} /\ IsFiniteSet({y})
    BY <2>2, FS_Singleton
  <2>4. IsFiniteSet(pair) /\ pair \subseteq Int
    BY <2>1, <2>2, <2>3, FS_AddElement
  <2> QED
    BY <2>2, <2>4, LargestIs
<1>5. Clamp(Largest({y, c})) \in 0..Full
  BY <1>4, ClampIs
<1> QED
  BY <1>1, <1>2, <1>3, <1>5 DEF ConclusionStrength

LEMMA FactorIs ==
  ASSUME NEW a, NEW c \in 0..Full
  PROVE  BandFactor(a, c) \in Int /\ ConclusionFactor(a, c) \in Int
<1>1. c \in Int
  BY Scales
<1>2. ConflictFactor(c) \in Int
  BY <1>1 DEF ConflictFactor
<1>3. BandFactor(a, c) \in Int
  BY <1>2 DEF BandFactor
<1> QED
  BY <1>3 DEF ConclusionFactor

LEMMA DirectionsAre ==
  ASSUME NEW m
  PROVE  BandDirection(m) \in Directions
<1>1. PICK c : c = BandConflicted(m)
  OBVIOUS
<1>2. BandDirection(m) = Verdict(QualifiedDirections(m), c)
  BY <1>1, BandVerdict
<1> QED
  BY <1>2 DEF Verdict, Directions

(* The score of a directional band has the sign of its direction, and the  *)
(* size.                                                                   *)
LEMMA BandScoreIs ==
  ASSUME NEW m, Heard(m)
  PROVE  /\ BandScore(m) \in -1000..1000
         /\ BandDirection(m) = "bullish" => BandScore(m) >= 120
         /\ BandDirection(m) = "bearish" => BandScore(m) <= -120
<1>1. Counted(m) \subseteq DOMAIN m
  BY BandParts
<1>2. \A i \in DOMAIN m : /\ m[i].score \in Int /\ -1000 <= m[i].score /\ m[i].score <= 1000
                          /\ Spoken(m[i])
  BY HeardFacts
<1>3. BandScore(m) \in Int /\ -1000 <= BandScore(m) /\ BandScore(m) <= 1000
  <2>1. \A i \in Counted(m) : -1000 <= m[i].score /\ m[i].score <= 1000
    BY <1>1, <1>2
  <2>2. -1000 \in Int /\ 1000 \in Int
    OBVIOUS
  <2> QED
    BY <2>1, <2>2, BandScoreWithin
<1>4. ASSUME NEW d \in Directional, BandDirection(m) = d
      PROVE  \A i \in Counted(m) : m[i].direction = d
  <2>1. PICK c : c = BandConflicted(m)
    OBVIOUS
  <2>2. PICK D : D = QualifiedDirections(m)
    OBVIOUS
  <2>3. D \subseteq Directional /\ Verdict(D, c) = d
    BY <1>4, <2>1, <2>2, BandVerdict, SidesAreDirections
  <2>4. d \in D /\ D # Directional
    BY <2>3, VerdictFacts
  <2>5. D = {d}
    BY <2>3, <2>4 DEF Directional
  <2>6. QualifiedIn(m) # {} /\ \A i \in QualifiedIn(m) : m[i].direction = d
    BY <2>2, <2>5 DEF QualifiedDirections
  <2> QED
    BY <2>6 DEF Counted
<1>5. ASSUME BandDirection(m) = "bullish" PROVE BandScore(m) >= 120
  <2>1. \A i \in Counted(m) : m[i].direction = "bullish"
    BY <1>4, <1>5 DEF Directional
  <2>2. \A i \in Counted(m) : 120 <= m[i].score /\ m[i].score <= 1000
    BY <1>1, <1>2, <2>1 DEF Spoken
  <2>3. 120 \in Int /\ 1000 \in Int
    OBVIOUS
  <2> QED
    BY <1>3, <2>2, <2>3, BandScoreWithin
<1>6. ASSUME BandDirection(m) = "bearish" PROVE BandScore(m) <= -120
  <2>1. \A i \in Counted(m) : m[i].direction = "bearish"
    BY <1>4, <1>6 DEF Directional
  <2>2. \A i \in Counted(m) : -1000 <= m[i].score /\ m[i].score <= -120
    BY <1>1, <1>2, <2>1 DEF Spoken
  <2>3. -120 \in Int /\ -1000 \in Int
    OBVIOUS
  <2> QED
    BY <1>3, <2>2, <2>3, BandScoreWithin
<1> QED
  BY <1>3, <1>5, <1>6

(* What is said of a band, in figures and in words.                        *)
Told(x) ==
  /\ Percentages(x)
  /\ ConflictsRegister => StoryConsistent(x)
  /\ x.direction \in Directions
  /\ x.score \in Int /\ -1000 <= x.score /\ x.score <= 1000
  /\ x.direction = "bullish" => x.score >= 120
  /\ x.direction = "bearish" => x.score <= -120

LEMMA BandFigures ==
  ASSUME NEW m, Heard(m), NEW b, NEW x, x = BandDecision(b, m)
  PROVE  Told(x)
<1> DEFINE a == BandAlignment(m, BandDirection(m))
           c == IF BandDirection(m) = "conflict" THEN BandConflictScore(m) ELSE 0
<1>1. /\ x.direction = BandDirection(m) /\ x.alignment = a
      /\ x.score = BandScore(m) /\ x.conflictScore = c
      /\ x.strength = ConclusionStrength(BandDirection(m), BandScore(m), c)
      /\ x.confidence = Clamp(Round(Confidence(m) * BandFactor(a, c),
                                    TotalWeight(DOMAIN m) * 5000))
      /\ x.volatility = RoundRisk(Volatility(m))
      /\ x.manipulation = RoundRisk(Manipulation(m))
  BY BandFields
<1>2. BandConflictScore(m) \in 0..Full /\ 0 \in 0..Full
  BY BandConflictIs, Scales
<1>3. c \in 0..Full
  BY <1>2
<1>4. x.direction \in Directions
  BY <1>1, DirectionsAre
<1>5. /\ x.score \in Int /\ -1000 <= x.score /\ x.score <= 1000
      /\ x.direction = "bullish" => x.score >= 120
      /\ x.direction = "bearish" => x.score <= -120
  <2>1. PICK s \in -1000..1000 : s = x.score
    BY <1>1, BandScoreIs
  <2>2. s \in Int /\ -1000 <= s /\ s <= 1000
    OBVIOUS
  <2>3. /\ x.direction = "bullish" => s >= 120
        /\ x.direction = "bearish" => s <= -120
    BY <1>1, <2>1, BandScoreIs
  <2> QED
    BY <2>1, <2>2, <2>3
<1>6. StoryConsistent(x) \/ ~ConflictsRegister
  <2>1. BandDirection(m) = "conflict" => c = BandConflictScore(m) /\ a = "conflicted"
    BY DEF BandAlignment
  <2>2. BandDirection(m) = "neutral" => c = 0 /\ a = "indeterminate"
    BY DEF BandAlignment
  <2>3. BandDirection(m) \in Directional => c = 0 /\ a \in {"aligned", "partial"}
    BY DEF BandAlignment, Directional
  <2>4. ConflictsRegister /\ BandDirection(m) = "conflict" => BandConflictScore(m) > 0
    BY BandConflictIs
  <2> HIDE DEF a, c
  <2>5. PICK d, e, f : d = x.direction /\ e = x.alignment /\ f = x.conflictScore
    OBVIOUS
  <2>6. /\ d = "conflict" => (ConflictsRegister => f > 0) /\ e = "conflicted"
        /\ d = "neutral" => f = 0 /\ e = "indeterminate"
        /\ d \in Directional => f = 0 /\ e \in {"aligned", "partial"}
        /\ d \in {"bullish", "bearish", "neutral", "conflict"}
    BY <1>1, <1>4, <2>1, <2>2, <2>3, <2>4, <2>5 DEF Directions
  <2>7. ConflictsRegister =>
          /\ e = "conflicted" => d = "conflict" /\ f > 0
          /\ e # "conflicted" => d # "conflict" /\ f = 0
          /\ e = "indeterminate" => d = "neutral"
          /\ e \in {"aligned", "partial"} => d \in Directional
    BY <2>6 DEF Directional
  <2> QED
    BY <2>5, <2>7 DEF StoryConsistent
<1>7. Percentages(x)
  <2>1. x.score \in -Full..Full
    BY <1>5, ScoreWithin
  <2>2. x.strength \in 0..Full
    BY <1>1, <1>3, <1>5, ConclusionStrengthIs
  <2>3. x.confidence \in 0..Full
    <3>1. DOMAIN m \subseteq 1..8 /\ DOMAIN m # {}
      BY HeardFacts
    <3>2. PICK t \in Int : t = TotalWeight(DOMAIN m) /\ t > 0
      BY <3>1, TotalWeightIs
    <3>3. PICK k \in Int : k = Confidence(m)
      <4> DEFINE f == [i \in DOMAIN m |-> m[i].confidence]
      <4>1. PICK I : I = DOMAIN m
        OBVIOUS
      <4>2. DOMAIN f = I /\ \A i \in I : f[i] \in Int
        BY <4>1, HeardFacts
      <4>3. Confidence(m) = Weighted(f)
        BY DEF Confidence
      <4> HIDE DEF f
      <4> QED
        BY <3>1, <4>1, <4>2, <4>3, WeightedIsInt
    <3>4. PICK z \in Int : z = BandFactor(a, c)
      BY <1>3, FactorIs
    <3>5. k * z \in Int /\ t * 5000 \in Int /\ t * 5000 > 0
      BY <3>2
    <3>6. Round(k * z, t * 5000) \in Int
      BY <3>5, RoundBound
    <3>7. x.confidence = Clamp(Round(k * z, t * 5000))
      BY <1>1, <3>2, <3>3, <3>4
    <3> QED
      BY <3>6, <3>7, ClampIs
  <2>4. x.volatility \in 0..100 * RiskPoint /\ x.manipulation \in 0..100 * RiskPoint
    BY <1>1, HeardFacts, RisksAre
  <2>5. x.conflictScore \in 0..Full
    BY <1>1, <1>3
  <2> QED
    BY <2>1, <2>2, <2>3, <2>4, <2>5 DEF Percentages
<1> QED
  BY <1>4, <1>5, <1>6, <1>7 DEF Told

-----------------------------------------------------------------------------
(* What all bands conclude *)

(* The authorities are so far apart nowhere that a side counts as nothing. *)
AuthoritiesCompare ==
  \A b, c \in Bands : Policy.authority[b] <= 239 * Policy.authority[c]

ToldBands(B) ==
  /\ IsSeq(B) /\ Len(B) \in 1..3 /\ DOMAIN B = 1..Len(B)
  /\ \A k \in DOMAIN B : Told(B[k]) /\ B[k].band \in Bands

LEMMA GroupsHeard ==
  ASSUME NEW S, Heard(S), NEW b, Group(S, b) # << >>
  PROVE  Heard(Group(S, b))
<1>1. GroupOf(S, b, Group(S, b))
  BY GroupFacts DEF Heard
<1>2. Signalled(Group(S, b))
  BY <1>1 DEF GroupOf
<1>3. \A k \in DOMAIN Group(S, b) : \E i \in DOMAIN S : Group(S, b)[k] = S[i]
  BY <1>1 DEF GroupOf
<1> QED
  BY <1>2, <1>3 DEF Heard

LEMMA BandsAreTold ==
  ASSUME NEW S, Heard(S)
  PROVE  ToldBands(BandDecisions(S))
<1>1. PICK B : B = BandDecisions(S)
  OBVIOUS
<1>2. BandsOf(S, B)
  BY <1>1, BandsFacts DEF Heard
<1>3. IsSeq(B) /\ Len(B) \in 1..3 /\ DOMAIN B = 1..Len(B)
  BY <1>2 DEF BandsOf
<1>4. ASSUME NEW k \in DOMAIN B PROVE Told(B[k]) /\ B[k].band \in Bands
  <2>1. PICK b \in Bands : Group(S, b) # << >> /\ B[k] = BandDecision(b, Group(S, b))
    BY <1>2 DEF BandsOf
  <2>2. Heard(Group(S, b))
    BY <2>1, GroupsHeard
  <2>3. B[k].band = b
    BY <2>1, BandFields
  <2> QED
    BY <2>1, <2>2, <2>3, BandFigures
<1> QED
  BY <1>1, <1>3, <1>4 DEF ToldBands

LEMMA ToldFacts ==
  ASSUME NEW B, ToldBands(B)
  PROVE  /\ DOMAIN B \subseteq 1..3 /\ DOMAIN B # {} /\ Len(B) \in 1..3
         /\ IsFiniteSet(DOMAIN B) /\ Cardinality(DOMAIN B) <= 3 /\ Cardinality(DOMAIN B) \in Nat
         /\ \A k \in DOMAIN B :
              /\ Told(B[k]) /\ B[k].band \in Bands
              /\ Authority(B, k) \in Nat /\ Authority(B, k) > 0
<1>1. Len(B) \in 1..3 /\ DOMAIN B = 1..Len(B)
  BY DEF ToldBands
<1>2. DOMAIN B \subseteq 1..3 /\ DOMAIN B # {}
  BY <1>1
<1>3. IsFiniteSet(DOMAIN B) /\ Cardinality(DOMAIN B) <= 3 /\ Cardinality(DOMAIN B) \in Nat
  <2>0. \A z \in 1..3 : z \in Nat /\ 1 <= z /\ z <= 3
    OBVIOUS
  <2>1. PICK n \in Nat : n = Len(B) /\ 1 <= n /\ n <= 3
    BY <1>1, <2>0, Zenon
  <2>2. IsFiniteSet(1..n) /\ Cardinality(1..n) = IF 1 > n THEN 0 ELSE n - 1 + 1
    BY FS_Interval
  <2> QED
    BY <1>1, <2>1, <2>2
<1>4. Policy.authority \in [Bands -> Nat \ {0}]
  BY PolicyAssumption DEF PolicyAccepted
<1>5. ASSUME NEW k \in DOMAIN B
      PROVE  /\ Told(B[k]) /\ B[k].band \in Bands
             /\ Authority(B, k) \in Nat /\ Authority(B, k) > 0
  <2>1. Told(B[k]) /\ B[k].band \in Bands
    BY DEF ToldBands
  <2>2. PICK n \in Nat \ {0} : n = Policy.authority[B[k].band]
    BY <1>4, <2>1
  <2> QED
    BY <2>1, <2>2 DEF Authority
<1> QED
  BY <1>1, <1>2, <1>3, <1>5

(* The stake of a directional band in a conflict.                          *)
Stake(B, i) == Authority(B, i) * Max({Abs(B[i].score), Tenths})
Taking(B, d) == {k \in DOMAIN B : B[k].direction = d}
Backing(B, d) == SumFunction([i \in Taking(B, d) |-> Stake(B, i)])

LEMMA StakeIs ==
  ASSUME NEW B, ToldBands(B), NEW i \in DOMAIN B
  PROVE  /\ Stake(B, i) \in Nat /\ Stake(B, i) <= 1000 * Authority(B, i)
         /\ B[i].direction \in Directional => Stake(B, i) >= 120 * Authority(B, i)
<1>1. PICK a \in Nat : a = Authority(B, i) /\ a > 0
  BY ToldFacts
<1>2. PICK s \in Int : s = B[i].score /\ -1000 <= s /\ s <= 1000
  BY ToldFacts DEF Told
<1>3. B[i].direction \in Directional => s >= 120 \/ s <= -120
  BY <1>2, ToldFacts DEF Told, Directional
<1>4. PICK y \in Int : y = Abs(s) /\ y = (IF s < 0 THEN -s ELSE s)
  BY AbsIs DEF Abs
<1>5. PICK x \in Int : x = Max({y, 10}) /\ x >= y /\ x >= 10 /\ (x = y \/ x = 10)
  <2>1. PICK t \in Int : t = 10
    OBVIOUS
  <2>2. Max({y, t}) \in Int /\ Max({y, t}) >= y /\ Max({y, t}) >= t
        /\ (Max({y, t}) = y \/ Max({y, t}) = t)
    BY MaxOfTwo
  <2> QED
    BY <2>1, <2>2
<1>6. Stake(B, i) = a * x
  BY <1>1, <1>2, <1>4, <1>5, Scales DEF Stake
<1>7. 10 <= x /\ x <= 1000
  BY <1>2, <1>4, <1>5
<1>8. a * x \in Nat /\ a * x <= 1000 * a
  BY <1>1, <1>7
<1>9. x >= 120 => a * x >= 120 * a
  BY <1>1
<1>10. s >= 120 \/ s <= -120 => x >= 120
  BY <1>4, <1>5
<1> QED
  BY <1>1, <1>3, <1>6, <1>8, <1>9, <1>10

LEMMA BackingIs ==
  ASSUME NEW B, ToldBands(B), NEW d
  PROVE  /\ Backing(B, d) \in Nat
         /\ \A i \in Taking(B, d) : Stake(B, i) <= Backing(B, d)
         /\ AuthoritiesCompare =>
              \A j \in DOMAIN B : B[j].direction # d =>
                Backing(B, d) <= 478000 * Authority(B, j)
<1> DEFINE f == [i \in Taking(B, d) |-> Stake(B, i)]
<1>1. PICK I : I = Taking(B, d)
  OBVIOUS
<1>2. I \subseteq DOMAIN B /\ IsFiniteSet(I)
  <2>1. I \subseteq DOMAIN B
    BY <1>1 DEF Taking
  <2> QED
    BY <2>1, ToldFacts, FS_Subset
<1>3. \A i \in I : f[i] = Stake(B, i) /\ f[i] \in Nat
  BY <1>1, <1>2, StakeIs
<1>4. Backing(B, d) = SumFunctionOnSet(f, I)
  BY <1>1 DEF Backing, SumFunction
<1> HIDE DEF f
<1>5. SumFunctionOnSet(f, I) \in Nat /\ \A i \in I : f[i] <= SumFunctionOnSet(f, I)
  BY <1>2, <1>3, SumsCover
<1>6. ASSUME AuthoritiesCompare, NEW j \in DOMAIN B, B[j].direction # d
      PROVE  Backing(B, d) <= 478000 * Authority(B, j)
  <2>1. PICK a \in Nat : a = Authority(B, j) /\ a > 0
    BY ToldFacts
  <2>2. PICK c \in Nat : c = 239000 * a
    BY <2>1, SMT
  <2>3. ASSUME NEW i \in I PROVE f[i] \in Nat /\ f[i] <= c
    <3>1. i \in DOMAIN B /\ B[i].band \in Bands /\ B[j].band \in Bands
      BY <1>2, ToldFacts
    <3>2. PICK e \in Nat : e = Authority(B, i)
      BY <3>1, ToldFacts
    <3>3. e <= 239 * a
      BY <1>6, <2>1, <3>1, <3>2 DEF AuthoritiesCompare, Authority
    <3>4. PICK z \in Nat : z = f[i] /\ z <= 1000 * e
      BY <1>3, <3>1, <3>2, StakeIs
    <3>5. z <= c
      BY <2>2, <3>3, <3>4, SMT
    <3> QED
      BY <3>4, <3>5
  <2>4. Cardinality(I) \in Nat /\ Cardinality(I) <= 2
    <3>1. j \notin I
      BY <1>1, <1>6 DEF Taking
    <3>2. I \subseteq DOMAIN B \ {j}
      BY <1>2, <3>1
    <3>3. IsFiniteSet(DOMAIN B \ {j}) /\ Cardinality(DOMAIN B \ {j}) = Cardinality(DOMAIN B) - 1
      BY ToldFacts, FS_RemoveElement
    <3>4. Cardinality(I) <= Cardinality(DOMAIN B \ {j})
      BY <3>2, <3>3, FS_Subset
    <3> QED
      BY <1>2, <3>3, <3>4, ToldFacts, FS_CardinalityType
  <2>5. SumFunctionOnSet(f, I) <= Cardinality(I) * c
    BY <1>2, <2>3, SumsBounded
  <2>6. PICK n \in Nat : n = Cardinality(I) /\ n <= 2
    BY <2>4
  <2>7. n * c <= 2 * c
    BY <2>6
  <2>8. PICK z \in Nat : z = SumFunctionOnSet(f, I) /\ z <= n * c
    BY <1>5, <2>5, <2>6
  <2>9. z <= 478000 * a
    BY <2>2, <2>7, <2>8, SMT
  <2> QED
    BY <1>4, <2>1, <2>8, <2>9
<1> QED
  BY <1>1, <1>3, <1>4, <1>5, <1>6

(* Bands that disagree leave a conflict that is counted.                   *)
LEMMA CrossConflictIs ==
  ASSUME NEW B, ToldBands(B)
  PROVE  /\ CrossConflictScore(B) \in 0..Full
         /\ AuthoritiesCompare /\ DistinctDirections(B) = Directional =>
              CrossConflictScore(B) > 0
<1>1. CrossConflictScore(B) = Opposition(Backing(B, "bullish"), Backing(B, "bearish"))
  BY DEF CrossConflictScore, Backing, Taking, Stake
<1>2. PICK x \in Nat, y \in Nat : x = Backing(B, "bullish") /\ y = Backing(B, "bearish")
  BY BackingIs
<1>3. ASSUME AuthoritiesCompare, DistinctDirections(B) = Directional
      PROVE  x > 0 /\ y > 0 /\ x < 3999 * y /\ y < 3999 * x
  <2>1. PICK i, j \in DOMAIN B : B[i].direction = "bullish" /\ B[j].direction = "bearish"
    <3>1. "bullish" \in DistinctDirections(B) /\ "bearish" \in DistinctDirections(B)
      BY <1>3 DEF Directional
    <3> QED
      BY <3>1 DEF DistinctDirections, DirectionalBands
  <2>2. PICK a \in Nat, b \in Nat : /\ a = Authority(B, i) /\ b = Authority(B, j)
                                    /\ a > 0 /\ b > 0
    BY <2>1, ToldFacts
  <2>3. x >= 120 * a /\ y >= 120 * b
    <3>1. i \in Taking(B, "bullish") /\ j \in Taking(B, "bearish")
      BY <2>1 DEF Taking
    <3>2. PICK u \in Nat, v \in Nat : u = Stake(B, i) /\ v = Stake(B, j)
      BY <2>1, StakeIs
    <3>3. u <= x /\ v <= y
      BY <1>2, <3>1, <3>2, BackingIs
    <3>4. u >= 120 * a /\ v >= 120 * b
      BY <2>1, <2>2, <3>2, StakeIs DEF Directional
    <3> QED
      BY <2>2, <3>2, <3>3, <3>4
  <2>4. x <= 478000 * b /\ y <= 478000 * a
    <3>1. B[j].direction # "bullish" /\ B[i].direction # "bearish"
      BY <2>1
    <3> QED
      BY <1>2, <1>3, <2>1, <2>2, <3>1, BackingIs, SMT
  <2> QED
    BY <2>2, <2>3, <2>4, SMT
<1>4. Opposition(x, y) \in 0..Full
  BY OppositionIs
<1>5. ASSUME AuthoritiesCompare, DistinctDirections(B) = Directional
      PROVE  Opposition(x, y) > 0
  <2>1. x > 0 /\ y > 0 /\ x < 3999 * y /\ y < 3999 * x
    BY <1>3, <1>5
  <2>2. x \in Int /\ y \in Int
    OBVIOUS
  <2> QED
    BY <2>1, <2>2, OppositionIs
<1> QED
  BY <1>1, <1>2, <1>4, <1>5

LEMMA MoreFields ==
  ASSUME NEW S, NEW r, r = Evaluate(S)
  PROVE  /\ r.volatility = RoundRisk(Volatility(S))
         /\ r.manipulation = RoundRisk(Manipulation(S))
         /\ r.breakdown = LevelsOf(S) /\ r.level = Overall(LevelsOf(S))
         /\ r.bands = BandDecisions(S)
         /\ DOMAIN r # {}
<1> DEFINE B == BandDecisions(S)
<1>1. PICK d, a, s, c : /\ d = ConclusionDirection(B) /\ a = Alignment(B, d)
                        /\ s = StructuralScore(B) /\ c = ConflictScore(B, d)
  OBVIOUS
<1>2. r = Conclusion(S, B, d, a, s, c)
  BY <1>1 DEF Evaluate, ConclusionOf
<1> HIDE DEF B
<1>3. /\ r.volatility = RoundRisk(Volatility(S))
      /\ r.manipulation = RoundRisk(Manipulation(S))
      /\ r.breakdown = LevelsOf(S) /\ r.level = Overall(LevelsOf(S))
      /\ r.bands = B
  BY <1>2 DEF Conclusion
<1>4. "direction" \in DOMAIN r
  BY <1>2 DEF Conclusion
<1> QED
  BY <1>3, <1>4 DEF B

(* The structural direction is neutral, or that of some band.              *)
LEMMA StructuralIs ==
  ASSUME NEW B, ToldBands(B)
  PROVE  StructuralDirection(B) \in Directional \cup {"neutral"}
<1>1. PICK T : T = {i \in DOMAIN B : B[i].direction # "neutral"}
  OBVIOUS
<1>2. StructuralDirection(B) =
        IF T = {} \/ B[Max(T)].direction = "conflict" THEN "neutral"
        ELSE B[Max(T)].direction
  BY <1>1 DEF StructuralDirection
<1>3. T \subseteq DOMAIN B /\ IsFiniteSet(T) /\ T \subseteq Int
  <2>1. T \subseteq DOMAIN B
    BY <1>1
  <2>2. \A i \in DOMAIN B : i \in Int
    BY ToldFacts
  <2> QED
    BY <2>1, <2>2, ToldFacts, FS_Subset
<1>4. CASE T # {}
  <2>1. Max(T) \in T
    BY <1>3, <1>4, Greatest
  <2>2. Max(T) \in DOMAIN B /\ B[Max(T)].direction # "neutral"
    BY <1>1, <2>1
  <2>3. B[Max(T)].direction \in Directions
    BY <2>2, ToldFacts DEF Told
  <2> QED
    BY <1>2, <2>2, <2>3 DEF Directions, Directional
<1> QED
  BY <1>2, <1>4

(* The kind of conflict is named exactly where there is one.               *)
LEMMA ConflictTypeIs ==
  ASSUME NEW B
  PROVE  ConflictType(B) = "none" <=>
           ~(DistinctDirections(B) = Directional \/ SomeBandConflict(B))
<1> DEFINE named(b) == {i \in DirectionalBands(B) : B[i].band = b}
           opposed(low, high) ==
             \E i \in named(low), k \in named(high) : B[i].direction # B[k].direction
<1>1. Cardinality(DistinctDirections(B)) > 1 <=> DistinctDirections(B) = Directional
  BY SidesAreDirections, Sides
<1>2. PICK o : o = (DistinctDirections(B) = Directional)
  OBVIOUS
<1>3. PICK f : f = SomeBandConflict(B)
  OBVIOUS
<1>4. PICK k : /\ k = (CASE opposed("medium", "long") ->
                               (IF opposed("short", "long") THEN "lower_vs_long"
                                                            ELSE "medium_vs_long")
                         [] OTHER -> "short_vs_higher")
               /\ k # "none"
  OBVIOUS
<1>5. ConflictType(B) =
        LET opposite == Cardinality(DistinctDirections(B)) > 1
        IN CASE ~opposite -> IF SomeBandConflict(B) THEN "intra_band" ELSE "none"
             [] opposite /\ SomeBandConflict(B) -> "broad"
             [] opposite /\ ~SomeBandConflict(B) -> k
  BY <1>4 DEF ConflictType
<1>6. CASE ~o
  BY <1>1, <1>2, <1>3, <1>5, <1>6
<1>7. CASE o /\ f
  BY <1>1, <1>2, <1>3, <1>5, <1>7
<1>8. CASE o /\ ~f
  BY <1>1, <1>2, <1>3, <1>4, <1>5, <1>8
<1> QED
  BY <1>6, <1>7, <1>8

LEMMA ConflictScoreIs ==
  ASSUME NEW B, ToldBands(B), NEW d
  PROVE  /\ ConflictScore(B, d) \in 0..Full
         /\ d # "conflict" => ConflictScore(B, d) = 0
         /\ /\ ConflictsRegister /\ AuthoritiesCompare
            /\ d = "conflict" /\ d = ConclusionDirection(B)
            => ConflictScore(B, d) > 0
<1>1. PICK T : T = {CrossConflictScore(B)} \cup {B[i].conflictScore : i \in DOMAIN B}
  OBVIOUS
<1>2. ConflictScore(B, d) = IF d # "conflict" THEN 0 ELSE Largest(T)
  BY <1>1 DEF ConflictScore
<1>3. T \subseteq 0..Full
  <2>1. \A i \in DOMAIN B : B[i].conflictScore \in 0..Full
    BY ToldFacts DEF Told, Percentages
  <2>2. CrossConflictScore(B) \in 0..Full
    BY CrossConflictIs
  <2> QED
    BY <1>1, <2>1, <2>2
<1>4. 0 \in 0..Full
  BY Scales
<1>5. ASSUME ConflictsRegister, AuthoritiesCompare, "conflict" = ConclusionDirection(B)
      PROVE  \E x \in T : x > 0
  <2>1. DistinctDirections(B) = Directional \/ SomeBandConflict(B)
    <3>1. PICK c : c = SomeBandConflict(B)
      OBVIOUS
    <3>2. Verdict(DistinctDirections(B), c) = "conflict"
      BY <1>5, <3>1, ConclusionVerdict
    <3> QED
      BY <3>1, <3>2 DEF Verdict
  <2>2. CASE DistinctDirections(B) = Directional
    BY <1>1, <1>5, <2>2, CrossConflictIs
  <2>3. CASE SomeBandConflict(B)
    <3>1. PICK i \in DOMAIN B : B[i].direction = "conflict"
      BY <2>3 DEF SomeBandConflict
    <3>2. StoryConsistent(B[i])
      BY <1>5, ToldFacts DEF Told
    <3>3. B[i].conflictScore > 0
      BY <3>1, <3>2 DEF StoryConsistent
    <3> QED
      BY <1>1, <3>3
  <2> QED
    BY <2>1, <2>2, <2>3
<1> QED
  BY <1>2, <1>3, <1>4, <1>5, LargestShare

LEMMA StructuralScoreIs ==
  ASSUME NEW B, ToldBands(B)
  PROVE  /\ StructuralScore(B) \in Int
         /\ -1000 <= StructuralScore(B) /\ StructuralScore(B) <= 1000
         /\ TotalAuthority(B) \in Nat /\ TotalAuthority(B) > 0
<1> DEFINE h == [i \in DOMAIN B |-> Authority(B, i)]
           f == [i \in DOMAIN B |-> B[i].score]
           p == [i \in DOMAIN B |-> B[i].score * Authority(B, i)]
<1>1. PICK D : D = DOMAIN B /\ IsFiniteSet(D) /\ D # {}
  BY ToldFacts
<1>2. \A i \in D : h[i] \in Nat /\ h[i] > 0 /\ p[i] = f[i] * h[i]
  BY <1>1, ToldFacts
<1>3. \A i \in D : f[i] \in Int /\ -1000 <= f[i] /\ f[i] <= 1000
  BY <1>1, ToldFacts DEF Told
<1>4. /\ TotalAuthority(B) = SumFunctionOnSet(h, D)
      /\ StructuralScore(B) = Round(SumFunctionOnSet(p, D), TotalAuthority(B))
  BY <1>1 DEF TotalAuthority, StructuralScore, SumFunction
<1> HIDE DEF f, h, p
<1>5. PICK lo \in Int, hi \in Int : lo = -1000 /\ hi = 1000
  OBVIOUS
<1>6. /\ SumFunctionOnSet(p, D) \in Int /\ SumFunctionOnSet(h, D) \in Nat
      /\ lo * SumFunctionOnSet(h, D) <= SumFunctionOnSet(p, D)
      /\ SumFunctionOnSet(p, D) <= hi * SumFunctionOnSet(h, D)
  <2>1. \A i \in D : f[i] \in Int /\ lo <= f[i] /\ f[i] <= hi
    BY <1>3, <1>5
  <2>2. \A i \in D : h[i] \in Nat /\ p[i] = f[i] * h[i]
    BY <1>2
  <2> QED
    BY <1>1, <2>1, <2>2, SumsWithin
<1>7. SumFunctionOnSet(h, D) > 0
  <2>1. PICK i \in D : TRUE
    BY <1>1
  <2>2. h[i] <= SumFunctionOnSet(h, D)
    BY <1>1, <1>2, SumsCover
  <2>3. h[i] \in Nat /\ h[i] > 0
    BY <1>2
  <2> QED
    BY <1>6, <2>2, <2>3
<1>8. PICK P \in Int, W \in Int : P = SumFunctionOnSet(p, D) /\ W = SumFunctionOnSet(h, D)
  BY <1>6
<1>9. W > 0 /\ lo * W <= P /\ P <= hi * W
  BY <1>6, <1>7, <1>8
<1>10. Round(P, W) \in Int /\ lo <= Round(P, W) /\ Round(P, W) <= hi
  BY <1>9, RoundBetween
<1>11. StructuralScore(B) = Round(P, W)
  BY <1>4, <1>8
<1>12. StructuralScore(B) \in Int /\ -1000 <= StructuralScore(B) /\ StructuralScore(B) <= 1000
  BY <1>5, <1>10, <1>11
<1>13. TotalAuthority(B) \in Nat /\ TotalAuthority(B) > 0
  BY <1>4, <1>6, <1>7
<1> QED
  BY <1>12, <1>13

LEMMA ConclusionConfidenceIs ==
  ASSUME NEW B, ToldBands(B), NEW a, NEW c \in 0..Full
  PROVE  ConclusionConfidence(B, a, c) \in 0..Full
<1> DEFINE p == [i \in DOMAIN B |-> B[i].confidence * Authority(B, i)]
<1>1. \A i \in DOMAIN B : p[i] \in Int
  <2>1. \A i \in DOMAIN B : B[i].confidence \in 0..Full
    BY ToldFacts DEF Told, Percentages
  <2>2. \A x \in 0..Full : x \in Int
    BY Scales
  <2>3. \A x, y \in Int : x * y \in Int
    OBVIOUS
  <2>4. \A i \in DOMAIN B : Authority(B, i) \in Int
    BY ToldFacts
  <2> QED
    BY <2>1, <2>2, <2>3, <2>4
<1>2. PICK k \in Int : k = SumFunction(p)
  <2>1. SumFunction(p) = SumFunctionOnSet(p, DOMAIN B)
    BY DEF SumFunction
  <2> HIDE DEF p
  <2> QED
    BY <1>1, <2>1, ToldFacts, SumsGrow
<1>3. PICK z \in Int : z = ConclusionFactor(a, c)
  BY FactorIs
<1>4. PICK v \in Int : v = Coverage(Len(B))
  <2>1. ASSUME NEW n \in 1..3 PROVE Coverage(n) \in Int
    <3>1. n = 1 \/ n = 2 \/ n = 3
      OBVIOUS
    <3>2. PICK w : w = << 13, 17, 20 >>
      OBVIOUS
    <3>3. w[1] = 13 /\ w[2] = 17 /\ w[3] = 20
      BY <3>2
    <3>4. w[n] \in Int
      BY <3>1, <3>3
    <3> QED
      BY <3>2, <3>4 DEF Coverage
  <2> QED
    BY <2>1, ToldFacts
<1>5. PICK t \in Int : t = TotalAuthority(B) /\ t > 0
  BY StructuralScoreIs
<1>6. k * v * z \in Int /\ t * 20 * 5000 \in Int /\ t * 20 * 5000 > 0
  BY <1>5
<1>7. Round(k * v * z, t * 20 * 5000) \in Int
  BY <1>6, RoundBound
<1>8. ConclusionConfidence(B, a, c) = Clamp(Round(k * v * z, t * 20 * 5000))
  BY <1>2, <1>3, <1>4, <1>5 DEF ConclusionConfidence
<1> QED
  BY <1>7, <1>8, ClampIs

(* What is said of the whole, in figures and in words.                     *)
LEMMA ConclusionFigures ==
  ASSUME NEW S, Heard(S), ConflictsRegister, AuthoritiesCompare, NEW r, r = Evaluate(S)
  PROVE  /\ Percentages(r) /\ StoryConsistent(r)
         /\ r.structural \in Directional \cup {"neutral"}
         /\ (r.alignment = "conflicted") = (r.conflictType # "none")
<1>1. PICK B : B = BandDecisions(S)
  OBVIOUS
<1>2. ToldBands(B)
  BY <1>1, BandsAreTold
<1>3. PICK d, a, s, c :
        /\ d = ConclusionDirection(B) /\ a = Alignment(B, d)
        /\ s = StructuralScore(B) /\ c = ConflictScore(B, d)
  OBVIOUS
<1>4. /\ r.direction = d /\ r.structural = StructuralDirection(B) /\ r.score = s
      /\ r.strength = ConclusionStrength(d, s, c)
      /\ r.confidence = ConclusionConfidence(B, a, c)
      /\ r.alignment = a /\ r.conflictType = ConflictType(B) /\ r.conflictScore = c
  <2>1. FromBands(r, B)
    BY <1>1, EvaluationFromBands
  <2> QED
    BY <1>3, <2>1 DEF FromBands
<1>5. c \in 0..Full /\ (d # "conflict" => c = 0) /\ (d = "conflict" => c > 0)
  BY <1>2, <1>3, ConflictScoreIs
<1>6. /\ d \in {"bullish", "bearish", "neutral", "conflict"}
      /\ d = "conflict" <=> DistinctDirections(B) = Directional \/ SomeBandConflict(B)
  <2>1. PICK f : f = SomeBandConflict(B)
    OBVIOUS
  <2>2. d = Verdict(DistinctDirections(B), f)
    BY <1>3, <2>1, ConclusionVerdict
  <2> QED
    BY <2>1, <2>2 DEF Verdict
<1>7. /\ d = "conflict" => a = "conflicted"
      /\ d = "neutral" => a = "indeterminate"
      /\ d \in Directional => a \in {"aligned", "partial"}
  BY <1>3 DEF Alignment, Directional
<1>8. /\ a = "conflicted" => d = "conflict" /\ c > 0
      /\ a # "conflicted" => d # "conflict" /\ c = 0
      /\ a = "indeterminate" => d = "neutral"
      /\ a \in {"aligned", "partial"} => d \in Directional
  BY <1>5, <1>6, <1>7 DEF Directional
<1>9. StoryConsistent(r)
  BY <1>4, <1>8 DEF StoryConsistent
<1>10. Percentages(r)
  <2>1. s \in Int /\ s \in -Full..Full
    BY <1>2, <1>3, StructuralScoreIs, ScoreWithin
  <2>2. ConclusionStrength(d, s, c) \in 0..Full
    BY <1>5, <2>1, ConclusionStrengthIs
  <2>3. ConclusionConfidence(B, a, c) \in 0..Full
    BY <1>2, <1>5, ConclusionConfidenceIs
  <2>4. r.volatility \in 0..100 * RiskPoint /\ r.manipulation \in 0..100 * RiskPoint
    BY MoreFields, RisksAre DEF Heard
  <2> QED
    BY <1>4, <1>5, <2>1, <2>2, <2>3, <2>4 DEF Percentages
<1>11. r.structural \in Directional \cup {"neutral"}
  BY <1>2, <1>4, StructuralIs
<1>12. (r.alignment = "conflicted") = (r.conflictType # "none")
  <2>1. a = "conflicted" <=> d = "conflict"
    BY <1>7, <1>8
  <2> QED
    BY <1>4, <1>6, <2>1, ConflictTypeIs
<1> QED
  BY <1>9, <1>10, <1>11, <1>12

-----------------------------------------------------------------------------
(* Risks on the right side of a threshold *)

(* Rounding does not lift a risk over a threshold.                         *)
Steady(risk, t) == LevelFor(RoundRisk(risk), t) = LevelFor(risk, t)
SteadyRisks(s) ==
  Steady(s.volatility, Policy.volatility) /\ Steady(s.manipulation, Policy.manipulation)

LEMMA SteadyLargest ==
  ASSUME NEW n \in Nat, NEW S, S \subseteq 0..n, NEW t, \A x \in S : Steady(x, t)
  PROVE  Steady(Largest(S), t)
<1>1. IsFiniteSet(S) /\ S \subseteq Int
  <2>1. IsFiniteSet(0..n)
    BY FS_Interval
  <2>2. IsFiniteSet(S)
    BY <2>1, FS_Subset
  <2>3. S \subseteq Int
    OBVIOUS
  <2> QED
    BY <2>2, <2>3
<1>2. Largest(S) \in S \/ Largest(S) = 0
  BY <1>1, LargestIs
<1>3. RoundRisk(0) = 0
  <2>1. PICK y \in Int : y = Round(0, 10) /\ 0 <= y /\ y <= 0
    <3>1. 0 \in Int /\ 10 \in Int /\ 10 > 0 /\ 0 * 10 <= 0 /\ 0 <= 0 * 10
      OBVIOUS
    <3> QED
      BY <3>1, RoundBetween
  <2> QED
    BY <2>1 DEF RoundRisk
<1> QED
  BY <1>2, <1>3 DEF Steady

(* Risks of results that are on the right side stay there in a report.     *)
LEMMA AssessmentSteady ==
  ASSUME NEW h, NEW v, IsView(v), \A i \in DOMAIN v : SteadyRisks(v[i]),
         NEW d, d = Assessment(h, v)
  PROVE  SteadyRisks(d)
<1>1. PICK n \in Nat : n = 100 * RiskPoint
  BY Scales
<1>2. PICK V, M : V = {v[i].volatility : i \in DOMAIN v} /\ M = {v[i].manipulation : i \in DOMAIN v}
  OBVIOUS
<1>3. V \subseteq 0..n /\ M \subseteq 0..n
  BY <1>1, <1>2 DEF IsView, IsCellResult
<1>4. d.volatility = Largest(V) /\ d.manipulation = Largest(M)
  BY <1>2 DEF Assessment
<1>5. (\A x \in V : Steady(x, Policy.volatility)) /\ \A x \in M : Steady(x, Policy.manipulation)
  BY <1>2 DEF SteadyRisks
<1>6. Steady(Largest(V), Policy.volatility) /\ Steady(Largest(M), Policy.manipulation)
  BY <1>3, <1>5, SteadyLargest
<1> QED
  BY <1>4, <1>6 DEF SteadyRisks

(* The posture's levels, read off the rounded risks, are the ones decided. *)
LEMMA RisksKept ==
  ASSUME NEW m, Signalled(m), \A i \in DOMAIN m : SteadyRisks(m[i])
  PROVE  RiskLevels(RoundRisk(Volatility(m)), RoundRisk(Manipulation(m))) = LevelsOf(m)
<1>1. PICK n \in Nat : n = 100 * RiskPoint
  BY Scales
<1>2. PICK V, M : V = {m[i].volatility : i \in DOMAIN m} /\ M = {m[i].manipulation : i \in DOMAIN m}
  OBVIOUS
<1>3. V \subseteq 0..n /\ M \subseteq 0..n
  BY <1>1, <1>2 DEF Signalled, IsSignal, SignalAccepted
<1>4. Volatility(m) = Largest(V) /\ Manipulation(m) = Largest(M)
  BY <1>2 DEF Volatility, Manipulation
<1>5. (\A x \in V : Steady(x, Policy.volatility)) /\ \A x \in M : Steady(x, Policy.manipulation)
  BY <1>2 DEF SteadyRisks
<1>6. Steady(Largest(V), Policy.volatility) /\ Steady(Largest(M), Policy.manipulation)
  BY <1>3, <1>5, SteadyLargest
<1> QED
  BY <1>4, <1>6 DEF RiskLevels, LevelsOf, Steady

-----------------------------------------------------------------------------
(* Members in the order of their horizons *)

LEMMA SortedAscends ==
  ASSUME NEW ids, IsFiniteSet(ids), ids \subseteq Int,
         NEW i \in 1..Cardinality(ids), NEW j \in 1..Cardinality(ids), i < j
  PROVE  Sorted(ids)[i] < Sorted(ids)[j]
<1>1. PICK x \in ids, y \in ids :
        /\ x = Sorted(ids)[i] /\ Cardinality({z \in ids : z < x}) = i - 1
        /\ y = Sorted(ids)[j] /\ Cardinality({z \in ids : z < y}) = j - 1
  <2>1. ASSUME NEW k \in 1..Cardinality(ids)
        PROVE  /\ Sorted(ids)[k] \in ids
               /\ Cardinality({z \in ids : z < Sorted(ids)[k]}) = k - 1
    BY SortedAt
  <2> QED
    BY <2>1
<1>2. SUFFICES ASSUME y <= x PROVE FALSE
  BY <1>1
<1>3. PICK X, Y : X = {z \in ids : z < x} /\ Y = {z \in ids : z < y}
  OBVIOUS
<1>4. Y \subseteq X
  <2>1. ASSUME NEW z \in Y PROVE z \in X
    <3>1. z \in Int /\ x \in Int /\ y \in Int /\ z \in ids /\ z < y
      BY <1>3
    <3>2. z < x
      BY <1>2, <3>1
    <3> QED
      BY <1>3, <3>1, <3>2
  <2> QED
    BY <2>1
<1>5. IsFiniteSet(X)
  BY <1>3, FS_Subset
<1>6. Cardinality(Y) <= Cardinality(X)
  BY <1>4, <1>5, FS_Subset
<1>7. i \in Int /\ j \in Int
  OBVIOUS
<1>8. j - 1 <= i - 1
  BY <1>1, <1>3, <1>6
<1> QED
  BY <1>7, <1>8

LEMMA HorizonsAre ==
  ASSUME NEW m, IsSeq(m)
  PROVE  /\ IsSeq(Horizons(m)) /\ Len(Horizons(m)) = Len(m) /\ DOMAIN Horizons(m) = DOMAIN m
         /\ \A i \in DOMAIN m : Horizons(m)[i] = m[i].horizon
<1>1. PICK n \in Nat : n = Len(m) /\ DOMAIN m = 1..n
  BY SeqFacts
<1>2. PICK h : h = Horizons(m)
  OBVIOUS
<1>3. h = [i \in 1..n |-> m[i].horizon]
  BY <1>1, <1>2 DEF Horizons
<1>4. h \in [1..n -> Range(h)] /\ DOMAIN h = 1..n
  BY <1>3 DEF Range
<1>5. h \in Seq(Range(h))
  BY <1>4, SeqDef
<1>6. IsSeq(h) /\ Len(h) = n
  BY <1>4, <1>5, LenProperties DEF IsSeq
<1> QED
  BY <1>1, <1>2, <1>3, <1>4, <1>6

(* Signals from short to long: every one has its own horizon.              *)
Ascending(m) ==
  \A i, j \in DOMAIN m : i < j => Duration[m[i].horizon] < Duration[m[j].horizon]
Lined(m) == IsSeq(m) /\ Ascending(m) /\ \A i \in DOMAIN m : Duration[m[i].horizon] \in Int

LEMMA HorizonsDiffer ==
  ASSUME NEW m, Lined(m), NEW i \in DOMAIN m, NEW j \in DOMAIN m, m[i].horizon = m[j].horizon
  PROVE  i = j
<1>1. i \in Int /\ j \in Int
  BY SeqFacts DEF Lined
<1>2. ~(i < j) /\ ~(j < i)
  BY DEF Lined, Ascending
<1> QED
  BY <1>1, <1>2

LEMMA KeptAscends ==
  ASSUME NEW m, Lined(m), NEW at, at \subseteq DOMAIN m
  PROVE  Lined(Kept(m, at))
<1>1. IsSeq(m)
  BY DEF Lined
<1>2. /\ IsFiniteSet(at) /\ DOMAIN Sorted(at) = 1..Cardinality(at)
      /\ \A k \in DOMAIN Sorted(at) : Sorted(at)[k] \in at
  BY <1>1, KeptPositions
<1>3. PICK G : G = Kept(m, at)
  OBVIOUS
<1>4. IsSeq(G)
  BY <1>1, <1>3, KeptMembers DEF KeptOf
<1>5. DOMAIN G = DOMAIN Sorted(at) /\ \A k \in DOMAIN G : G[k] = m[Sorted(at)[k]]
  BY <1>3 DEF Kept
<1>6. at \subseteq Int
  BY <1>1, SeqFacts
<1>7. ASSUME NEW k \in DOMAIN G, NEW l \in DOMAIN G, k < l
      PROVE  Duration[G[k].horizon] < Duration[G[l].horizon]
  <2>1. Sorted(at)[k] < Sorted(at)[l]
    BY <1>2, <1>5, <1>6, <1>7, SortedAscends
  <2>2. Sorted(at)[k] \in DOMAIN m /\ Sorted(at)[l] \in DOMAIN m
    BY <1>2, <1>5
  <2> QED
    BY <1>5, <2>1, <2>2 DEF Lined, Ascending
<1>8. \A k \in DOMAIN G : Duration[G[k].horizon] \in Int
  BY <1>2, <1>5 DEF Lined
<1> QED
  BY <1>3, <1>4, <1>7, <1>8 DEF Lined, Ascending

(* The signals are found again by the horizons of their band.              *)
LEMMA MembersAre ==
  ASSUME NEW m, Lined(m), NEW at, at \subseteq DOMAIN m
  PROVE  Members(m, Horizons(Kept(m, at))) = Kept(m, at)
<1>1. PICK G : G = Kept(m, at)
  OBVIOUS
<1>2. IsSeq(m)
  BY DEF Lined
<1>3. IsSeq(G) /\ \A k \in DOMAIN G : \E i \in DOMAIN m : G[k] = m[i]
  BY <1>1, <1>2, KeptMembers DEF KeptOf
<1>4. DOMAIN Horizons(G) = DOMAIN G /\ \A k \in DOMAIN G : Horizons(G)[k] = G[k].horizon
  BY <1>3, HorizonsAre
<1>5. ASSUME NEW k \in DOMAIN G
      PROVE  (CHOOSE s \in Range(m) : s.horizon = Horizons(G)[k]) = G[k]
  <2>1. PICK i \in DOMAIN m : G[k] = m[i]
    BY <1>3
  <2>2. G[k] \in Range(m) /\ G[k].horizon = Horizons(G)[k]
    BY <1>4, <2>1 DEF Range
  <2>3. ASSUME NEW s \in Range(m), s.horizon = Horizons(G)[k] PROVE s = G[k]
    <3>1. PICK j \in DOMAIN m : s = m[j]
      BY DEF Range
    <3>2. m[j].horizon = m[i].horizon
      BY <1>4, <2>1, <2>3, <3>1
    <3>3. j = i
      BY <3>2, HorizonsDiffer
    <3> QED
      BY <2>1, <3>1, <3>3
  <2> QED
    BY <2>2, <2>3
<1>6. G = [k \in DOMAIN G |-> G[k]]
  BY <1>1 DEF Kept
<1> QED
  BY <1>1, <1>4, <1>5, <1>6 DEF Members

(* The qualified horizons, picked from those of the band.                  *)
LEMMA QualifiedAre ==
  ASSUME NEW m, Lined(m), NEW Q, Q \subseteq DOMAIN m
  PROVE  LET h == Horizons(m)
             q == Horizons(Kept(m, Q))
         IN q = Kept(h, {i \in DOMAIN h : h[i] \in Range(q)})
<1>1. PICK h, q, G : h = Horizons(m) /\ G = Kept(m, Q) /\ q = Horizons(G)
  OBVIOUS
<1>2. IsSeq(m)
  BY DEF Lined
<1>3. /\ IsSeq(G)
      /\ \A k \in DOMAIN G : \E i \in Q : G[k] = m[i]
      /\ \A i \in Q : \E k \in DOMAIN G : G[k] = m[i]
  BY <1>1, <1>2, KeptMembers DEF KeptOf
<1>4. /\ DOMAIN h = DOMAIN m /\ \A i \in DOMAIN m : h[i] = m[i].horizon
      /\ DOMAIN q = DOMAIN G /\ \A k \in DOMAIN G : q[k] = G[k].horizon
  BY <1>1, <1>2, <1>3, HorizonsAre
<1>5. {i \in DOMAIN h : h[i] \in Range(q)} = Q
  <2>1. ASSUME NEW i \in Q PROVE i \in DOMAIN h /\ h[i] \in Range(q)
    <3>1. PICK k \in DOMAIN G : G[k] = m[i]
      BY <1>3
    <3> QED
      BY <1>4, <3>1 DEF Range
  <2>2. ASSUME NEW i \in DOMAIN h, h[i] \in Range(q) PROVE i \in Q
    <3>1. PICK k \in DOMAIN G : h[i] = G[k].horizon
      BY <1>4, <2>2 DEF Range
    <3>2. PICK j \in Q : G[k] = m[j]
      BY <1>3
    <3>3. m[i].horizon = m[j].horizon /\ i \in DOMAIN m /\ j \in DOMAIN m
      BY <1>4, <3>1, <3>2
    <3>4. i = j
      BY <3>3, HorizonsDiffer
    <3> QED
      BY <3>4
  <2> QED
    BY <2>1, <2>2
<1>6. q = Kept(h, Q)
  <2>1. PICK o : o = Sorted(Q)
    OBVIOUS
  <2>2. \A k \in DOMAIN o : o[k] \in Q
    BY <1>2, <2>1, KeptPositions
  <2>3. G = [k \in DOMAIN o |-> m[o[k]]]
    BY <1>1, <2>1 DEF Kept
  <2>4. Kept(h, Q) = [k \in DOMAIN o |-> h[o[k]]]
    BY <2>1 DEF Kept
  <2>5. q = [k \in DOMAIN G |-> G[k].horizon]
    BY <1>1 DEF Horizons
  <2>6. DOMAIN G = DOMAIN o /\ \A k \in DOMAIN o : G[k].horizon = h[o[k]]
    BY <1>4, <2>2, <2>3
  <2> QED
    BY <2>4, <2>5, <2>6
<1> QED
  BY <1>1, <1>5, <1>6

(* HorizonBandDecision refuses no band of such members.                    *)
LEMMA BandIsAccepted ==
  ASSUME NEW m, Heard(m), Lined(m), ConflictsRegister, NEW b \in Bands,
         NEW x, x = BandDecision(b, m)
  PROVE  BandAccepted(x)
<1>1. /\ x.band = b /\ x.horizons = Horizons(m)
      /\ x.qualified = Horizons(Kept(m, QualifiedIn(m)))
      /\ x.anchor = Last(m).horizon
  BY BandFields
<1>2. Told(x)
  BY BandFigures
<1>3. Percentages(x) /\ StoryConsistent(x)
  BY <1>2 DEF Told
<1>4. PICK h : h = Horizons(m)
  OBVIOUS
<1>5. /\ IsSeq(h) /\ Len(h) = Len(m) /\ DOMAIN h = DOMAIN m
      /\ \A i \in DOMAIN m : h[i] = m[i].horizon
  BY <1>4, HorizonsAre DEF Lined
<1>6. Len(m) \in DOMAIN m /\ Last(m) = m[Len(m)]
  BY SignalledFacts DEF Heard
<1>7. h # << >> /\ x.anchor = Last(h)
  <2>1. DOMAIN h # {}
    BY <1>5, <1>6
  <2>2. h # << >>
    BY <2>1
  <2>3. Last(h) = h[Len(h)]
    BY DEF Last
  <2> QED
    BY <1>1, <1>5, <1>6, <2>2, <2>3
<1>8. StrictlyLonger(h)
  BY <1>5 DEF StrictlyLonger, Lined, Ascending
<1>9. x.qualified = Kept(h, {i \in DOMAIN h : h[i] \in Range(x.qualified)})
  <2>1. QualifiedIn(m) \subseteq DOMAIN m
    BY BandParts
  <2> QED
    BY <1>1, <1>4, <2>1, QualifiedAre
<1> QED
  BY <1>1, <1>3, <1>4, <1>7, <1>8, <1>9 DEF BandAccepted

-----------------------------------------------------------------------------
(* Lists cut into runs *)

(* The m entries of F after the first a.                                   *)
Run(F, a, m) == [j \in 1..m |-> F[a + j]]

LEMMA RunIsSeq ==
  ASSUME NEW F, NEW a \in Nat, NEW m \in Nat, NEW X, \A j \in 1..m : F[a + j] \in X
  PROVE  /\ Run(F, a, m) \in Seq(X) /\ Len(Run(F, a, m)) = m /\ DOMAIN Run(F, a, m) = 1..m
         /\ \A j \in 1..m : Run(F, a, m)[j] = F[a + j]
<1>1. PICK r : r = Run(F, a, m)
  OBVIOUS
<1>2. r = [j \in 1..m |-> F[a + j]]
  BY <1>1 DEF Run
<1>3. r \in [1..m -> X] /\ DOMAIN r = 1..m
  BY <1>2
<1>4. r \in Seq(X)
  BY <1>3, SeqDef
<1>5. Len(r) = m
  BY <1>3, <1>4, LenProperties
<1> QED
  BY <1>1, <1>2, <1>3, <1>4, <1>5

LEMMA RunsJoin ==
  ASSUME NEW F, NEW a \in Nat, NEW m \in Nat
  PROVE  Run(F, 0, a) \o Run(F, a, m) = Run(F, 0, a + m)
<1>1. PICK X : X = {F[i] : i \in 1..(a + m)}
  OBVIOUS
<1>2. /\ \A j \in 1..a : F[0 + j] \in X
      /\ \A j \in 1..m : F[a + j] \in X
      /\ \A j \in 1..(a + m) : F[0 + j] \in X
  <2>1. \A j \in 1..a : j \in 1..(a + m) /\ 0 + j = j
    OBVIOUS
  <2>2. \A j \in 1..m : a + j \in 1..(a + m)
    OBVIOUS
  <2>3. \A j \in 1..(a + m) : 0 + j = j
    OBVIOUS
  <2> QED
    BY <1>1, <2>1, <2>2, <2>3
<1>3. PICK u, v, w : u = Run(F, 0, a) /\ v = Run(F, a, m) /\ w = Run(F, 0, a + m)
  OBVIOUS
<1>4. /\ u \in Seq(X) /\ Len(u) = a /\ \A j \in 1..a : u[j] = F[0 + j]
      /\ v \in Seq(X) /\ Len(v) = m /\ \A j \in 1..m : v[j] = F[a + j]
  BY <1>2, <1>3, RunIsSeq
<1>5. /\ w = [j \in 1..(a + m) |-> F[0 + j]] /\ w \in Seq(X)
      /\ Len(w) = a + m
  <2>1. a + m \in Nat /\ 0 \in Nat
    OBVIOUS
  <2> QED
    BY <1>2, <1>3, <2>1, RunIsSeq DEF Run
<1>6. /\ u \o v \in Seq(X) /\ Len(u \o v) = a + m
      /\ \A i \in 1..(a + m) : (u \o v)[i] = IF i <= a THEN u[i] ELSE v[i - a]
  BY <1>4, ConcatProperties
<1>7. PICK z : z = u \o v
  OBVIOUS
<1>8. z \in [1..(a + m) -> X]
  BY <1>6, <1>7, LenProperties
<1>9. ASSUME NEW i \in 1..(a + m) PROVE z[i] = F[0 + i]
  <2>1. CASE i <= a
    <3>1. i \in 1..a
      BY <2>1
    <3> QED
      BY <1>4, <1>6, <1>7, <2>1, <3>1
  <2>2. CASE ~(i <= a)
    <3>1. i - a \in 1..m /\ a + (i - a) = 0 + i
      BY <2>2
    <3>2. z[i] = v[i - a]
      BY <1>6, <1>7, <2>2
    <3>3. v[i - a] = F[a + (i - a)]
      BY <1>4, <3>1
    <3> QED
      BY <3>1, <3>2, <3>3
  <2> QED
    BY <2>1, <2>2
<1>10. z = w
  BY <1>5, <1>8, <1>9
<1> QED
  BY <1>3, <1>7, <1>10

(* The lists put together again.                                           *)
LEMMA FlattenRuns ==
  ASSUME NEW m \in Nat, m >= 1, NEW cut, cut[0] = 0, \A k \in 0..m : cut[k] \in Nat,
         \A k \in 1..m : cut[k - 1] <= cut[k], NEW F, NEW parts, Len(parts) = m,
         \A k \in 1..m : parts[k] = Run(F, cut[k - 1], cut[k] - cut[k - 1])
  PROVE  FlattenSeq(parts) = Run(F, 0, cut[m])
<1> DEFINE Solves(f) ==
             f = [i \in 1..m |-> IF i = 1 THEN parts[i] ELSE f[i - 1] \o parts[i]]
<1>1. PICK f : f = CHOOSE g : Solves(g)
  OBVIOUS
<1>2. FlattenSeq(parts) = f[m]
  <2>1. Len(parts) # 0
    OBVIOUS
  <2> QED
    BY <1>1, <2>1 DEF FlattenSeq
<1>3. ASSUME NEW k \in 1..m, k # 1
      PROVE  Run(F, 0, cut[k - 1]) \o parts[k] = Run(F, 0, cut[k])
  <2>1. k - 1 \in 0..m /\ k \in 0..m
    OBVIOUS
  <2>2. PICK a \in Nat, b \in Nat : a = cut[k - 1] /\ b = cut[k] /\ a <= b
    BY <2>1
  <2>3. b - a \in Nat /\ a + (b - a) = b
    BY <2>2
  <2>4. Run(F, 0, a) \o Run(F, a, b - a) = Run(F, 0, a + (b - a))
    BY <2>3, RunsJoin
  <2> QED
    BY <2>2, <2>3, <2>4
<1>4. parts[1] = Run(F, 0, cut[1])
  <2>1. 1 \in 1..m /\ 1 - 1 = 0 /\ 1 \in 0..m
    OBVIOUS
  <2>2. cut[1] \in Nat
    BY <2>1
  <2>3. parts[1] = Run(F, cut[0], cut[1] - cut[0])
    BY <2>1
  <2> QED
    BY <2>2, <2>3
<1>5. PICK h : h = [i \in 1..m |-> Run(F, 0, cut[i])]
  OBVIOUS
<1>6. Solves(h)
  <2>1. ASSUME NEW i \in 1..m
        PROVE  h[i] = IF i = 1 THEN parts[i] ELSE h[i - 1] \o parts[i]
    <3>1. CASE i = 1
      BY <1>4, <1>5, <3>1
    <3>2. CASE i # 1
      <4>1. i - 1 \in 1..m
        BY <3>2
      <4>2. h[i - 1] = Run(F, 0, cut[i - 1]) /\ h[i] = Run(F, 0, cut[i])
        BY <1>5, <4>1
      <4> QED
        BY <1>3, <3>2, <4>2
    <3> QED
      BY <3>1, <3>2
  <2>2. h = [i \in 1..m |-> h[i]]
    BY <1>5
  <2> QED
    BY <2>1, <2>2
<1>7. Solves(f)
  BY <1>1, <1>6
<1>8. \A i \in 1..m : f[i] = IF i = 1 THEN parts[i] ELSE f[i - 1] \o parts[i]
  BY <1>7
<1> HIDE DEF Solves
<1> DEFINE D == {k \in 0..m : k = 0 \/ f[k] = Run(F, 0, cut[k])}
<1>9. 0 \in D
  OBVIOUS
<1>10. ASSUME NEW k \in D, k < m PROVE k + 1 \in D
  <2>1. k \in Nat /\ k + 1 \in 1..m /\ k + 1 \in 0..m /\ (k + 1) - 1 = k
    BY <1>10
  <2>2. CASE k = 0
    <3>1. f[1] = parts[1]
      BY <1>8, <2>1, <2>2
    <3> QED
      BY <1>4, <2>1, <2>2, <3>1
  <2>3. CASE k # 0
    <3>1. PICK l \in 1..m : l = k + 1
      BY <2>1
    <3>2. l # 1 /\ l - 1 = k
      BY <2>1, <2>3, <3>1
    <3>3. f[l] = f[l - 1] \o parts[l]
      BY <1>8, <3>2
    <3>4. f[k] = Run(F, 0, cut[k])
      BY <2>3
    <3>5. Run(F, 0, cut[l - 1]) \o parts[l] = Run(F, 0, cut[l])
      BY <1>3, <3>2
    <3>6. f[l] = Run(F, 0, cut[l])
      BY <3>2, <3>3, <3>4, <3>5
    <3> QED
      BY <2>1, <3>1, <3>6
  <2> QED
    BY <2>2, <2>3
<1> HIDE DEF D
<1>11. m \in D
  BY <1>9, <1>10, UpTo
<1> QED
  BY <1>2, <1>11 DEF D

-----------------------------------------------------------------------------
(* The bands, one after the other *)

(* What is true up to a point only is true up to some number.              *)
LEMMA PrefixCut ==
  ASSUME NEW n \in Nat, NEW P, P \subseteq 1..n,
         \A i \in 1..n, j \in P : i <= j => i \in P
  PROVE  \E c \in 0..n : \A i \in 1..n : i \in P <=> i <= c
<1>1. CASE P = {}
  <2>1. \A i \in 1..n : i \in P <=> i <= 0
    BY <1>1
  <2> QED
    BY <2>1
<1>2. CASE P # {}
  <2>1. IsFiniteSet(P)
    <3>1. PICK I : I = 1..n
      OBVIOUS
    <3>2. IsFiniteSet(I) /\ P \subseteq I
      BY <3>1, FS_Interval
    <3> QED
      BY <3>2, FS_Subset
  <2>2. P \subseteq Int
    OBVIOUS
  <2>3. PICK c \in P : \A y \in P : y <= c
    BY <1>2, <2>1, <2>2, Greatest
  <2>4. c \in 0..n
    BY <2>3
  <2>5. ASSUME NEW i \in 1..n PROVE i \in P <=> i <= c
    BY <2>3
  <2> QED
    BY <2>4, <2>5
<1> QED
  BY <1>1, <1>2

(* Cuts of the positions 1..n by a rank that only grows.                   *)
IsCut(n, r, cut) ==
  /\ cut \in [0..3 -> 0..n] /\ cut[0] = 0 /\ cut[3] = n
  /\ \A k \in 1..3 : cut[k - 1] <= cut[k]
  /\ \A k \in 1..3 : {i \in 1..n : r[i] = k} = (cut[k - 1] + 1)..cut[k]

LEMMA RankCuts ==
  ASSUME NEW n \in Nat, NEW r, \A i \in 1..n : r[i] \in 1..3,
         \A i, j \in 1..n : i < j => r[i] <= r[j]
  PROVE  \E cut : IsCut(n, r, cut)
<1>1. ASSUME NEW k \in 0..3
      PROVE  \E c \in 0..n : \A i \in 1..n : r[i] <= k <=> i <= c
  <2>1. PICK P : P = {i \in 1..n : r[i] <= k}
    OBVIOUS
  <2>2. P \subseteq 1..n
    BY <2>1
  <2>3. ASSUME NEW i \in 1..n, NEW j \in P, i <= j PROVE i \in P
    <3>1. CASE i = j
      BY <3>1
    <3>2. CASE i < j
      <4>1. j \in 1..n /\ r[j] <= k
        BY <2>1
      <4>2. r[i] <= r[j]
        BY <3>2, <4>1
      <4>3. r[i] \in 1..3 /\ r[j] \in 1..3
        BY <4>1
      <4> QED
        BY <2>1, <4>1, <4>2, <4>3
    <3> QED
      BY <2>2, <2>3, <3>1, <3>2
  <2>4. PICK c \in 0..n : \A i \in 1..n : i \in P <=> i <= c
    BY <2>2, <2>3, PrefixCut
  <2> QED
    BY <2>1, <2>4
<1>2. PICK cut : cut = [k \in 0..3 |-> CHOOSE c \in 0..n : \A i \in 1..n : r[i] <= k <=> i <= c]
  OBVIOUS
<1>3. \A k \in 0..3 : cut[k] \in 0..n /\ \A i \in 1..n : r[i] <= k <=> i <= cut[k]
  BY <1>1, <1>2
<1>4. cut \in [0..3 -> 0..n]
  BY <1>2, <1>3
<1>5. cut[0] = 0
  <2>1. 0 \in 0..3
    OBVIOUS
  <2>2. PICK c \in 0..n : c = cut[0]
    BY <1>3, <2>1
  <2>3. \A i \in 1..n : ~(i <= c)
    BY <1>3, <2>1, <2>2
  <2> QED
    BY <2>2, <2>3
<1>6. cut[3] = n
  <2>1. 3 \in 0..3
    OBVIOUS
  <2>2. PICK c \in 0..n : c = cut[3]
    BY <1>3, <2>1
  <2>3. \A i \in 1..n : i <= c
    BY <1>3, <2>1, <2>2
  <2> QED
    BY <2>2, <2>3
<1>7. ASSUME NEW k \in 1..3 
      PROVE  cut[k - 1] <= cut[k] /\ {i \in 1..n : r[i] = k} = (cut[k - 1] + 1)..cut[k]
  <2>1. PICK l \in 0..3 : l = k - 1
    OBVIOUS
  <2>2. k \in 0..3
    OBVIOUS
  <2>3. PICK a \in 0..n, b \in 0..n : a = cut[l] /\ b = cut[k]
    BY <1>3, <2>2
  <2>4. /\ \A i \in 1..n : r[i] <= l <=> i <= a
        /\ \A i \in 1..n : r[i] <= k <=> i <= b
    BY <1>3, <2>2, <2>3
  <2>5. \A i \in 1..n : r[i] = k <=> ~(i <= a) /\ i <= b
    BY <2>1, <2>4
  <2>6. a <= b
    <3>1. CASE a = 0
      BY <3>1
    <3>2. CASE a # 0
      <4>1. a \in 1..n
        BY <3>2
      <4>2. r[a] <= l
        BY <2>4, <4>1
      <4>3. r[a] <= k
        BY <2>1, <4>1, <4>2
      <4> QED
        BY <2>4, <4>1, <4>3
    <3> QED
      BY <3>1, <3>2
  <2>7. {i \in 1..n : r[i] = k} = (a + 1)..b
    BY <2>5
  <2> QED
    BY <2>1, <2>3, <2>6, <2>7
<1> QED
  BY <1>4, <1>5, <1>6, <1>7 DEF IsCut

LEMMA SortedRun ==
  ASSUME NEW a \in Nat, NEW m \in Nat
  PROVE  /\ IsFiniteSet((a + 1)..(a + m)) /\ Cardinality((a + 1)..(a + m)) = m
         /\ Sorted((a + 1)..(a + m)) = [j \in 1..m |-> a + j]
<1>1. ASSUME NEW x \in Nat
      PROVE  IsFiniteSet((a + 1)..(a + x)) /\ Cardinality((a + 1)..(a + x)) = x
  <2>1. PICK p \in Int, q \in Int : p = a + 1 /\ q = a + x
    OBVIOUS
  <2>2. IsFiniteSet(p..q) /\ Cardinality(p..q) = IF p > q THEN 0 ELSE q - p + 1
    BY FS_Interval
  <2>3. (IF p > q THEN 0 ELSE q - p + 1) = x /\ (a + 1)..(a + x) = p..q
    BY <2>1
  <2> QED
    BY <2>2, <2>3
<1>2. PICK I : I = (a + 1)..(a + m)
  OBVIOUS
<1>3. IsFiniteSet(I) /\ Cardinality(I) = m /\ I \subseteq Int
  BY <1>1, <1>2
<1>4. ASSUME NEW j \in 1..m PROVE Sorted(I)[j] = a + j
  <2>1. {y \in I : y < a + j} = (a + 1)..(a + (j - 1))
    BY <1>2
  <2>2. Cardinality((a + 1)..(a + (j - 1))) = j - 1
    <3>1. j - 1 \in Nat
      OBVIOUS
    <3> QED
      BY <1>1, <3>1
  <2>3. a + j \in I
    BY <1>2
  <2>4. Cardinality({y \in I : y < a + j}) = j - 1
    BY <2>1, <2>2, Zenon
  <2> QED
    BY <1>3, <2>3, <2>4, SortedAt
<1>5. Sorted(I) = [j \in 1..m |-> Sorted(I)[j]]
  BY <1>3, SortedIsFunction
<1> QED
  BY <1>2, <1>3, <1>4, <1>5

LEMMA KeptRun ==
  ASSUME NEW s, NEW a \in Nat, NEW m \in Nat
  PROVE  Kept(s, (a + 1)..(a + m)) = Run(s, a, m)
<1>1. PICK o : o = Sorted((a + 1)..(a + m))
  OBVIOUS
<1>2. DOMAIN o = 1..m /\ \A j \in 1..m : o[j] = a + j
  <2>1. o = [j \in 1..m |-> a + j]
    BY <1>1, SortedRun
  <2> QED
    BY <2>1
<1>3. Kept(s, (a + 1)..(a + m)) = [k \in DOMAIN o |-> s[o[k]]]
  BY <1>1 DEF Kept
<1> QED
  BY <1>2, <1>3 DEF Run

LEMMA BandOfIs ==
  ASSUME NEW h, Duration[h] \in Int
  PROVE  BandOf(h) = IF Duration[h] < Policy.shortMax THEN "short"
                     ELSE IF Duration[h] >= Policy.longMin THEN "long" ELSE "medium"
<1>1. PICK x \in Int : x = Duration[h]
  OBVIOUS
<1>2. PICK p \in Int, q \in Int : p = Policy.shortMax /\ q = Policy.longMin /\ p < q
  BY PolicyAssumption DEF PolicyAccepted
<1>3. BandOf(h) = CASE x < p -> "short" [] x >= q -> "long" [] OTHER -> "medium"
  BY <1>1, <1>2 DEF BandOf
<1>4. ~(x < p /\ x >= q)
  BY <1>2
<1>5. CASE x < p
  BY <1>1, <1>2, <1>3, <1>4, <1>5
<1>6. CASE x >= q
  BY <1>1, <1>2, <1>3, <1>4, <1>6
<1>7. CASE ~(x < p) /\ ~(x >= q)
  BY <1>1, <1>2, <1>3, <1>7
<1> QED
  BY <1>5, <1>6, <1>7

LEMMA BandNames ==
  /\ BandOrder \in Seq(Range(BandOrder)) /\ Len(BandOrder) = 3 /\ DOMAIN BandOrder = 1..3
  /\ BandOrder[1] = "short" /\ BandOrder[2] = "medium" /\ BandOrder[3] = "long"
<1>1. BandOrder \in Seq(Bands)
  BY DEF BandOrder, Bands
<1>2. Len(BandOrder) = 3 /\ DOMAIN BandOrder = 1..3
  BY DEF BandOrder
<1>3. BandOrder[1] = "short" /\ BandOrder[2] = "medium" /\ BandOrder[3] = "long"
  BY DEF BandOrder
<1>4. Range(BandOrder) = Bands
  BY <1>2, <1>3 DEF Range, Bands
<1> QED
  BY <1>1, <1>2, <1>3, <1>4

LEMMA BandIndexIs == \A k \in 1..3 : BandIndex(BandOrder[k]) = k
<1>1. ASSUME NEW k \in 1..3, NEW i \in 1..3, BandOrder[i] = BandOrder[k] PROVE i = k
  BY <1>1, BandNames
<1>2. ASSUME NEW k \in 1..3 PROVE (CHOOSE i \in 1..3 : BandOrder[i] = BandOrder[k]) = k
  BY <1>1
<1> QED
  BY <1>2 DEF BandIndex

(* Where the bands of a list end.                                          *)
Grouping(S, cut) ==
  /\ cut \in [0..3 -> 0..Len(S)] /\ cut[0] = 0 /\ cut[3] = Len(S)
  /\ \A k \in 1..3 : cut[k - 1] <= cut[k]
  /\ \A k \in 1..3 : Group(S, BandOrder[k]) = Run(S, cut[k - 1], cut[k] - cut[k - 1])

LEMMA GroupsAreRuns ==
  ASSUME NEW S, Lined(S)
  PROVE  \E cut : Grouping(S, cut)
<1>1. PICK n \in Nat : n = Len(S) /\ DOMAIN S = 1..n
  BY SeqFacts DEF Lined
<1>2. PICK r : r = [i \in 1..n |-> IF Duration[S[i].horizon] < Policy.shortMax THEN 1
                                   ELSE IF Duration[S[i].horizon] >= Policy.longMin THEN 3
                                   ELSE 2]
  OBVIOUS
<1>3. \A i \in 1..n : r[i] \in 1..3
  BY <1>2
<1>4. PICK p \in Int, q \in Int : p = Policy.shortMax /\ q = Policy.longMin /\ p < q
  BY PolicyAssumption DEF PolicyAccepted
<1>5. ASSUME NEW i \in 1..n, NEW j \in 1..n, i < j PROVE r[i] <= r[j]
  <2>1. PICK x \in Int, y \in Int :
          x = Duration[S[i].horizon] /\ y = Duration[S[j].horizon] /\ x < y
    BY <1>1, <1>5 DEF Lined, Ascending
  <2>2. /\ r[i] = IF x < p THEN 1 ELSE IF x >= q THEN 3 ELSE 2
        /\ r[j] = IF y < p THEN 1 ELSE IF y >= q THEN 3 ELSE 2
    BY <1>2, <1>4, <2>1
  <2> QED
    BY <1>4, <2>1, <2>2
<1>6. PICK cut : IsCut(n, r, cut)
  BY <1>3, <1>5, RankCuts
<1>7. ASSUME NEW k \in 1..3
      PROVE  {i \in DOMAIN S : BandOf(S[i].horizon) = BandOrder[k]} = {i \in 1..n : r[i] = k}
  <2>1. ASSUME NEW i \in 1..n PROVE BandOf(S[i].horizon) = BandOrder[k] <=> r[i] = k
    <3>1. Duration[S[i].horizon] \in Int
      BY <1>1 DEF Lined
    <3>2. BandOf(S[i].horizon) = BandOrder[r[i]]
      BY <1>2, <3>1, BandOfIs, BandNames
    <3>3. \A a, b \in 1..3 : BandOrder[a] = BandOrder[b] => a = b
      BY BandNames
    <3> QED
      BY <1>3, <3>2, <3>3
  <2> QED
    BY <1>1, <2>1
<1>8. ASSUME NEW k \in 1..3
      PROVE  Group(S, BandOrder[k]) = Run(S, cut[k - 1], cut[k] - cut[k - 1])
  <2>1. k - 1 \in 0..3 /\ k \in 0..3
    OBVIOUS
  <2>2. PICK a \in 0..n, b \in 0..n : a = cut[k - 1] /\ b = cut[k]
    BY <1>6, <2>1 DEF IsCut
  <2>3. a <= b /\ {i \in 1..n : r[i] = k} = (a + 1)..b
    BY <1>6, <2>2 DEF IsCut
  <2>4. b - a \in Nat /\ a + (b - a) = b
    BY <2>3
  <2>5. Kept(S, (a + 1)..b) = Run(S, a, b - a)
    BY <2>4, KeptRun
  <2>6. Group(S, BandOrder[k]) = Kept(S, {i \in DOMAIN S : BandOf(S[i].horizon) = BandOrder[k]})
    BY DEF Group
  <2> QED
    BY <1>7, <2>2, <2>3, <2>5, <2>6
<1>9. Grouping(S, cut)
  BY <1>1, <1>6, <1>8 DEF Grouping, IsCut
<1> QED
  BY <1>9

PresentAt(S) == {k \in 1..3 : Group(S, BandOrder[k]) # << >>}

(* The bands that are there, one after the other.                          *)
LEMMA PresentIs ==
  ASSUME NEW S, Signalled(S), NEW o, o = Sorted(PresentAt(S)),
         NEW B, B = BandDecisions(S)
  PROVE  /\ Len(o) \in 1..3 /\ DOMAIN o = 1..Len(o)
         /\ \A i \in 1..Len(o) : o[i] \in PresentAt(S)
         /\ \A i, j \in 1..Len(o) : i < j => o[i] < o[j]
         /\ \A k \in PresentAt(S) : \E i \in 1..Len(o) : o[i] = k
         /\ DOMAIN B = 1..Len(o) /\ Len(B) = Len(o)
         /\ \A i \in 1..Len(o) :
              B[i] = BandDecision(BandOrder[o[i]], Group(S, BandOrder[o[i]]))
<1>1. PICK P : P = PresentAt(S)
  OBVIOUS
<1>2. P \subseteq 1..3 /\ P \subseteq Int /\ P \subseteq DOMAIN BandOrder
  BY <1>1, BandNames DEF PresentAt
<1>3. IsSeq(BandOrder)
  BY BandNames DEF IsSeq
<1>4. /\ IsFiniteSet(P) /\ Range(o) = P /\ Len(o) = Cardinality(P) /\ Cardinality(P) \in Nat
      /\ DOMAIN o = 1..Cardinality(P) /\ \A k \in DOMAIN o : o[k] \in P
  BY <1>1, <1>2, <1>3, KeptPositions
<1>5. PICK R : R = Present(S)
  OBVIOUS
<1>6. R = [k \in DOMAIN o |-> BandOrder[o[k]]]
  BY <1>1, <1>5 DEF Present, PresentAt, Kept
<1>7. Len(R) \in 1..3 /\ DOMAIN R = 1..Len(R)
  BY <1>5, PresentFacts
<1>8. Len(o) \in 1..3
  <2>1. DOMAIN R = 1..Len(o)
    BY <1>4, <1>6
  <2>2. 1 \in DOMAIN R
    BY <1>7
  <2>3. \A z \in 1..3 : 1..z = DOMAIN R => z = Len(o)
    <3>1. Len(o) \in Nat /\ Len(o) >= 1
      BY <1>4, <2>1, <2>2
    <3> QED
      BY <2>1, <3>1
  <2> QED
    BY <1>7, <2>3
<1>9. \A i, j \in 1..Len(o) : i < j => o[i] < o[j]
  BY <1>1, <1>2, <1>4, SortedAscends
<1>10. \A k \in P : \E i \in 1..Len(o) : o[i] = k
  BY <1>4 DEF Range
<1>11. /\ DOMAIN B = 1..Len(o)
       /\ \A i \in 1..Len(o) :
            B[i] = BandDecision(BandOrder[o[i]], Group(S, BandOrder[o[i]]))
  <2>1. B = [i \in DOMAIN R |-> BandDecision(R[i], Group(S, R[i]))]
    BY <1>5 DEF BandDecisions
  <2> QED
    BY <1>4, <1>6, <2>1
<1>12. Len(B) = Len(o)
  <2>1. Len(B) \in 1..3 /\ DOMAIN B = 1..Len(B)
    BY BandsFacts DEF BandsOf
  <2>2. \A y, z \in 1..3 : 1..y = 1..z => y = z
    OBVIOUS
  <2> QED
    BY <1>8, <1>11, <2>1, <2>2
<1> QED
  BY <1>1, <1>4, <1>8, <1>9, <1>10, <1>11, <1>12

(* Bands nobody speaks in leave no gap.                                    *)
LEMMA NoGap ==
  ASSUME NEW cut, \A k \in 0..3 : cut[k] \in Nat, NEW a \in 0..3, NEW b \in 0..3, a <= b,
         \A q \in 1..3 : a < q /\ q <= b => cut[q - 1] = cut[q]
  PROVE  cut[a] = cut[b]
<1>1. /\ a < 1 /\ 1 <= b => cut[0] = cut[1]
      /\ a < 2 /\ 2 <= b => cut[1] = cut[2]
      /\ a < 3 /\ 3 <= b => cut[2] = cut[3]
  <2>1. 1 \in 1..3 /\ 2 \in 1..3 /\ 3 \in 1..3 /\ 1 - 1 = 0 /\ 2 - 1 = 1 /\ 3 - 1 = 2
    OBVIOUS
  <2> QED
    BY <2>1
<1>2. a \in {0, 1, 2, 3} /\ b \in {0, 1, 2, 3}
  OBVIOUS
<1> QED
  BY <1>1, <1>2

(* The bands together name every horizon of the list, in its order.        *)
LEMMA OrderJoined ==
  ASSUME NEW S, Signalled(S), Lined(S), NEW B, B = BandDecisions(S)
  PROVE  /\ Horizons(S) = FlattenSeq([i \in DOMAIN B |-> B[i].horizons])
         /\ \A i, j \in DOMAIN B : i < j => BandIndex(B[i].band) < BandIndex(B[j].band)
<1>1. PICK o : o = Sorted(PresentAt(S))
  OBVIOUS
<1>2. /\ Len(o) \in 1..3 /\ DOMAIN o = 1..Len(o)
      /\ \A i \in 1..Len(o) : o[i] \in PresentAt(S)
      /\ \A i, j \in 1..Len(o) : i < j => o[i] < o[j]
      /\ \A k \in PresentAt(S) : \E i \in 1..Len(o) : o[i] = k
      /\ DOMAIN B = 1..Len(o)
      /\ \A i \in 1..Len(o) :
              B[i] = BandDecision(BandOrder[o[i]], Group(S, BandOrder[o[i]]))
  BY <1>1, PresentIs
<1>3. PICK p \in 1..3 : p = Len(o)
  BY <1>2
<1>4. PICK cut : Grouping(S, cut)
  BY GroupsAreRuns
<1>5. IsSeq(S) /\ Len(S) \in Nat /\ DOMAIN S = 1..Len(S)
  BY SeqFacts DEF Lined
<1>6. PICK n \in Nat : n = Len(S)
  BY <1>5
<1>7. /\ \A k \in 0..3 : cut[k] \in Nat
      /\ cut[0] = 0 /\ cut[3] = n /\ \A k \in 1..3 : cut[k - 1] <= cut[k]
  BY <1>4, <1>6 DEF Grouping
<1>8. ASSUME NEW k \in 1..3
      PROVE  /\ cut[k - 1] \in Nat /\ cut[k] - cut[k - 1] \in Nat
             /\ \A j \in 1..(cut[k] - cut[k - 1]) : cut[k - 1] + j \in 1..n
             /\ Group(S, BandOrder[k]) = Run(S, cut[k - 1], cut[k] - cut[k - 1])
             /\ DOMAIN Group(S, BandOrder[k]) = 1..(cut[k] - cut[k - 1])
  <2>1. PICK l \in 0..3 : l = k - 1
    OBVIOUS
  <2>2. k \in 0..3
    OBVIOUS
  <2>3. PICK a \in 0..n, b \in 0..n : a = cut[l] /\ b = cut[k] /\ a <= b
    BY <1>4, <1>6, <2>1, <2>2 DEF Grouping
  <2>4. b - a \in Nat /\ \A j \in 1..(b - a) : a + j \in 1..n
    BY <2>3
  <2>5. Group(S, BandOrder[k]) = Run(S, a, b - a)
    BY <1>4, <2>1, <2>3 DEF Grouping
  <2>6. DOMAIN Run(S, a, b - a) = 1..(b - a)
    BY DEF Run
  <2> QED
    BY <2>1, <2>3, <2>4, <2>5, <2>6
<1>9. ASSUME NEW k \in 1..3, k \notin PresentAt(S) PROVE cut[k - 1] = cut[k]
  <2>1. PICK a \in Nat, b \in Nat : a = cut[k - 1] /\ b = cut[k] /\ a <= b
    <3>1. k - 1 \in 0..3 /\ k \in 0..3
      OBVIOUS
    <3> QED
      BY <1>7, <3>1
  <2>2. Group(S, BandOrder[k]) = << >>
    BY <1>9 DEF PresentAt
  <2>3. 1..(b - a) = {}
    <3>1. DOMAIN Group(S, BandOrder[k]) = 1..(cut[k] - cut[k - 1])
      BY <1>8
    <3>2. DOMAIN << >> = {}
      OBVIOUS
    <3> QED
      BY <2>1, <2>2, <3>1, <3>2
  <2>4. ~(1 <= b - a)
    BY <2>1, <2>3
  <2> QED
    BY <2>1, <2>4
<1>10. PICK H : H = Horizons(S)
  OBVIOUS
<1>11. H = [i \in 1..n |-> S[i].horizon] /\ H = Run(H, 0, n)
  <2>1. H = [i \in 1..n |-> S[i].horizon]
    BY <1>5, <1>6, <1>10 DEF Horizons
  <2>2. \A j \in 1..n : 0 + j = j
    OBVIOUS
  <2>3. H = [j \in 1..n |-> H[0 + j]]
    BY <2>1, <2>2
  <2> QED
    BY <2>1, <2>3 DEF Run
<1>12. PICK parts : parts = [i \in DOMAIN B |-> B[i].horizons]
  OBVIOUS
<1>13. PICK c : c = [i \in 0..p |-> IF i = 0 THEN 0 ELSE cut[o[i]]]
  OBVIOUS
<1>14. \A i \in 1..p : o[i] \in 1..3 /\ c[i] = cut[o[i]] /\ c[i] \in Nat
  <2>1. \A i \in 1..p : o[i] \in 1..3
    BY <1>2, <1>3 DEF PresentAt
  <2>2. \A i \in 1..p : c[i] = cut[o[i]]
    BY <1>13
  <2> QED
    BY <1>7, <2>1, <2>2
<1>15. c[0] = 0 /\ \A i \in 0..p : c[i] \in Nat
  <2>1. c[0] = 0
    BY <1>13
  <2> QED
    BY <1>14, <2>1
<1>16. ASSUME NEW i \in 1..p
       PROVE  c[i - 1] = cut[o[i] - 1]
  <2>1. PICK k \in 1..3 : k = o[i]
    BY <1>14
  <2>2. PICK b \in 0..3 : b = k - 1
    OBVIOUS
  <2>3. CASE i = 1
    <3>1. ASSUME NEW q \in 1..3, q <= b PROVE q \notin PresentAt(S)
      <4>1. SUFFICES ASSUME q \in PresentAt(S) PROVE FALSE
        OBVIOUS
      <4>2. PICK j \in 1..p : o[j] = q
        BY <1>2, <1>3, <4>1
      <4>3. j = 1 \/ 1 < j
        OBVIOUS
      <4>4. o[1] <= q
        BY <1>2, <1>3, <1>14, <2>1, <2>3, <4>2, <4>3
      <4> QED
        BY <2>1, <2>2, <2>3, <3>1, <4>4
    <3>2. \A q \in 1..3 : 0 < q /\ q <= b => cut[q - 1] = cut[q]
      BY <1>9, <3>1
    <3>3. cut[0] = cut[b]
      BY <1>7, <3>2, NoGap
    <3> QED
      BY <1>7, <1>15, <2>1, <2>2, <2>3, <3>3
  <2>4. CASE i # 1
    <3>1. PICK l \in 1..p : l = i - 1
      BY <2>4
    <3>2. PICK a \in 1..3 : a = o[l]
      BY <1>14
    <3>3. a <= b
      BY <1>2, <1>3, <2>1, <2>2, <3>1, <3>2
    <3>4. ASSUME NEW q \in 1..3, a < q, q <= b PROVE q \notin PresentAt(S)
      <4>1. SUFFICES ASSUME q \in PresentAt(S) PROVE FALSE
        OBVIOUS
      <4>2. PICK j \in 1..p : o[j] = q
        BY <1>2, <1>3, <4>1
      <4>3. j < l \/ j = l \/ j = i \/ i < j
        BY <3>1
      <4> QED
        BY <1>2, <1>3, <1>14, <2>1, <2>2, <3>2, <3>4, <4>2, <4>3
    <3>5. \A q \in 1..3 : a < q /\ q <= b => cut[q - 1] = cut[q]
      BY <1>9, <3>4
    <3>6. a \in 0..3
      OBVIOUS
    <3>7. cut[a] = cut[b]
      BY <1>7, <3>3, <3>5, <3>6, NoGap
    <3> QED
      BY <1>14, <2>1, <2>2, <3>1, <3>2, <3>7
  <2> QED
    BY <2>3, <2>4
<1>17. c[p] = n
  <2>1. PICK a \in 1..3 : a = o[p]
    BY <1>14
  <2>2. ASSUME NEW q \in 1..3, a < q PROVE q \notin PresentAt(S)
    <3>1. SUFFICES ASSUME q \in PresentAt(S) PROVE FALSE
      OBVIOUS
    <3>2. PICK j \in 1..p : o[j] = q
      BY <1>2, <1>3, <3>1
    <3>3. o[j] <= o[p]
      <4>1. j = p \/ j < p
        OBVIOUS
      <4>2. o[j] \in 1..3 /\ o[p] \in 1..3 /\ j \in 1..Len(o) /\ p \in 1..Len(o)
        BY <1>3, <1>14
      <4> QED
        BY <1>2, <4>1, <4>2
    <3> QED
      BY <2>1, <2>2, <3>2, <3>3
  <2>3. \A q \in 1..3 : a < q /\ q <= 3 => cut[q - 1] = cut[q]
    BY <1>9, <2>2
  <2>4. a \in 0..3 /\ 3 \in 0..3 /\ a <= 3
    OBVIOUS
  <2>5. cut[a] = cut[3]
    BY <1>7, <2>3, <2>4, NoGap
  <2> QED
    BY <1>7, <1>14, <2>1, <2>5
<1>18. ASSUME NEW i \in 1..p
       PROVE  c[i - 1] <= c[i] /\ parts[i] = Run(H, c[i - 1], c[i] - c[i - 1])
  <2>1. PICK k \in 1..3 : k = o[i]
    BY <1>14
  <2>2. PICK G : G = Group(S, BandOrder[k])
    OBVIOUS
  <2>3. parts[i] = Horizons(G)
    <3>1. B[i] = BandDecision(BandOrder[k], G)
      BY <1>2, <1>3, <2>1, <2>2
    <3>2. B[i].horizons = Horizons(G)
      BY <3>1, BandFields
    <3> QED
      BY <1>2, <1>3, <1>12, <3>2
  <2>4. PICK a \in Nat, m \in Nat : a = cut[k - 1] /\ m = cut[k] - cut[k - 1]
    BY <1>8
  <2>5. G = Run(S, a, m) /\ \A j \in 1..m : a + j \in 1..n
    BY <1>8, <2>2, <2>4
  <2>6. Horizons(G) = Run(H, a, m)
    <3>1. G = [j \in 1..m |-> S[a + j]]
      BY <2>5 DEF Run
    <3>2. DOMAIN G = 1..m /\ \A j \in 1..m : G[j].horizon = H[a + j]
      BY <1>11, <2>5, <3>1
    <3>3. Horizons(G) = [j \in DOMAIN G |-> G[j].horizon]
      BY DEF Horizons
    <3>4. Horizons(G) = [j \in 1..m |-> H[a + j]]
      BY <3>2, <3>3
    <3> QED
      BY <3>4 DEF Run
  <2>7. c[i - 1] = a /\ c[i] = cut[k]
    BY <1>14, <1>16, <2>1, <2>4
  <2>8. cut[k] \in Nat /\ cut[k] = a + m
    <3>1. k \in 0..3
      OBVIOUS
    <3>2. cut[k] \in Nat
      BY <1>7, <3>1
    <3> QED
      BY <2>4, <3>2
  <2>9. c[i - 1] <= c[i] /\ c[i] - c[i - 1] = m
    BY <2>7, <2>8
  <2> QED
    BY <2>3, <2>6, <2>7, <2>9
<1>19. Len(parts) = p
  <2>1. parts = [i \in 1..p |-> B[i].horizons]
    BY <1>2, <1>3, <1>12
  <2>2. parts \in [1..p -> Range(parts)] /\ p \in Nat
    BY <2>1 DEF Range
  <2>3. parts \in Seq(Range(parts)) /\ DOMAIN parts = 1..p
    BY <2>2, SeqDef
  <2> QED
    BY <2>2, <2>3, LenProperties
<1>20. FlattenSeq(parts) = Run(H, 0, c[p])
  <2>1. p \in Nat /\ p >= 1
    OBVIOUS
  <2> QED
    BY <1>15, <1>18, <1>19, <2>1, FlattenRuns
<1>21. ASSUME NEW i \in DOMAIN B, NEW j \in DOMAIN B, i < j
       PROVE  BandIndex(B[i].band) < BandIndex(B[j].band)
  <2>1. ASSUME NEW k \in DOMAIN B PROVE BandIndex(B[k].band) = o[k]
    <3>1. B[k].band = BandOrder[o[k]]
      BY <1>2, BandFields
    <3> QED
      BY <1>2, <1>3, <1>14, <3>1, BandIndexIs
  <2> QED
    BY <1>2, <1>21, <2>1
<1> QED
  BY <1>10, <1>11, <1>12, <1>17, <1>20, <1>21

-----------------------------------------------------------------------------
(* The weights of the signals *)

(* Sums of numbers that are near each other, one by one.                   *)
LEMMA SumsNear ==
  ASSUME NEW S, IsFiniteSet(S), NEW f, NEW g, NEW c \in Nat,
         \A x \in S : f[x] \in Int /\ g[x] \in Int /\ f[x] - g[x] <= c /\ g[x] - f[x] <= c
  PROVE  /\ SumFunctionOnSet(f, S) \in Int /\ SumFunctionOnSet(g, S) \in Int
         /\ Cardinality(S) \in Nat
         /\ SumFunctionOnSet(f, S) - SumFunctionOnSet(g, S) <= Cardinality(S) * c
         /\ SumFunctionOnSet(g, S) - SumFunctionOnSet(f, S) <= Cardinality(S) * c
<1>1. PICK d : SumsUp(f, S, d) /\ SumFunctionOnSet(f, S) = d[S]
  BY SumsFacts
<1>2. PICK e : SumsUp(g, S, e) /\ SumFunctionOnSet(g, S) = e[S]
  BY SumsFacts
<1>3. Cardinality(S) \in Nat /\ \A t \in SUBSET S : Cardinality(t) <= Cardinality(S)
  BY FS_CardinalityType, FS_Subset
<1> DEFINE D == {m \in Nat : \A t \in SUBSET S : Cardinality(t) = m =>
                               d[t] - e[t] <= m * c /\ e[t] - d[t] <= m * c}
<1>4. 0 \in D
  <2>1. ASSUME NEW t \in SUBSET S, Cardinality(t) = 0 PROVE t = {}
    <3>1. t # {} => Cardinality(t) \in Nat /\ Cardinality(t) > 0
      BY PickFacts, Zenon
    <3> QED
      BY <2>1, <3>1
  <2>2. d[{}] = 0 /\ e[{}] = 0
    <3>1. {} \in SUBSET S
      OBVIOUS
    <3>2. d[{}] = 0
      BY <1>1, <3>1 DEF SumsUp
    <3>3. e[{}] = 0
      BY <1>2, <3>1 DEF SumsUp
    <3> QED
      BY <3>2, <3>3
  <2>3. 0 - 0 <= 0 * c
    OBVIOUS
  <2> QED
    BY <2>1, <2>2, <2>3
<1>5. ASSUME NEW m \in D PROVE m + 1 \in D
  <2>1. m \in Nat /\ m + 1 \in Nat
    OBVIOUS
  <2>2. ASSUME NEW t \in SUBSET S, Cardinality(t) = m + 1
        PROVE  d[t] - e[t] <= (m + 1) * c /\ e[t] - d[t] <= (m + 1) * c
    <3>1. t # {}
      <4>1. Cardinality({}) = 0
        BY FS_EmptySet
      <4>2. m + 1 # 0
        BY <2>1
      <4> QED
        BY <2>2, <4>1, <4>2
    <3>2. /\ t \ {Pick(t)} \in SUBSET S /\ Pick(t) \in S
          /\ Cardinality(t \ {Pick(t)}) = Cardinality(t) - 1
      BY <3>1, PickFacts, Zenon
    <3>3. PICK u \in SUBSET S : u = t \ {Pick(t)} /\ Cardinality(u) = m
      BY <2>1, <2>2, <3>2
    <3>4. d[u] - e[u] <= m * c /\ e[u] - d[u] <= m * c
      BY <3>3
    <3>5. PICK y \in Int, z \in Int : y = d[u] /\ z = e[u]
      BY <3>3, <1>1, <1>2 DEF SumsUp
    <3>6. PICK p \in Int, q \in Int : p = f[Pick(t)] /\ q = g[Pick(t)] /\ p - q <= c /\ q - p <= c
      BY <3>2
    <3>7. d[t] = p + y /\ e[t] = q + z
      BY <3>1, <3>3, <3>5, <3>6, <1>1, <1>2 DEF SumsUp
    <3>8. PICK k \in Int : k = m * c
      BY <2>1
    <3>9. (m + 1) * c = k + c
      BY <2>1, <3>8
    <3>10. p + y - (q + z) <= k + c /\ q + z - (p + y) <= k + c
      BY <3>4, <3>5, <3>6, <3>8
    <3> QED
      BY <3>7, <3>9, <3>10
  <2> QED
    BY <2>1, <2>2
<1> HIDE DEF D
<1>6. Cardinality(S) \in D
  BY <1>3, <1>4, <1>5, UpTo
<1>7. d[S] - e[S] <= Cardinality(S) * c /\ e[S] - d[S] <= Cardinality(S) * c
  BY <1>3, <1>6 DEF D
<1>8. d[S] \in Int /\ e[S] \in Int
  BY <1>1, <1>2 DEF SumsUp
<1> QED
  BY <1>1, <1>2, <1>3, <1>7, <1>8

LEMMA Distributes ==
  ASSUME NEW x \in Int, NEW y \in Int, NEW z \in Int
  PROVE  (x - y) * z = x * z - y * z
<1>1. PICK u \in Int : x = u + y
  <2>1. x - y \in Int /\ x = (x - y) + y
    OBVIOUS
  <2> QED
    BY <2>1
<1>2. (u + y) * z = u * z + y * z
  OBVIOUS
<1> QED
  BY <1>1, <1>2

LEMMA WeightsAre ==
  ASSUME NEW i \in 1..8
  PROVE  Weight(i) \in Nat /\ Weight(i) > 0
<1>1. PICK w : w = << 1, 2, 4, 8, 16, 32, 64, 128 >>
  OBVIOUS
<1>2. w[1] = 1 /\ w[2] = 2 /\ w[3] = 4 /\ w[4] = 8
  BY <1>1
<1>3. w[5] = 16 /\ w[6] = 32 /\ w[7] = 64 /\ w[8] = 128
  BY <1>1
<1>4. i \in {1, 2, 3, 4, 5, 6, 7, 8}
  OBVIOUS
<1>5. w[i] \in Nat /\ w[i] > 0
  BY <1>2, <1>3, <1>4
<1> QED
  BY <1>1, <1>5 DEF Weight

(* What one band's share A of a total T comes to when each of its m        *)
(* members has its part rounded: half a unit for each of them.             *)
LEMMA ShareIs ==
  ASSUME NEW m \in 1..8, NEW A \in Nat, NEW T \in Nat, T > 0, NEW f,
         \A i \in 1..m : f[i] = Round(A * Weight(i), T * TotalWeight(1..m))
  PROVE  /\ \A i \in 1..m : f[i] \in Nat
         /\ SumFunctionOnSet(f, 1..m) \in Nat
         /\ 2 * (T * SumFunctionOnSet(f, 1..m)) - 2 * A <= m * T
         /\ 2 * A - 2 * (T * SumFunctionOnSet(f, 1..m)) <= m * T
<1>1. PICK I : I = 1..m
  OBVIOUS
<1>2. I \subseteq 1..8 /\ IsFiniteSet(I) /\ Cardinality(I) = m /\ 1 \in I
  <2>1. m \in Nat
    OBVIOUS
  <2>2. IsFiniteSet(1..m) /\ Cardinality(1..m) = m
    BY <2>1, FS_Interval
  <2> QED
    BY <1>1, <2>2
<1> DEFINE w == [i \in I |-> Weight(i)]
<1>3. \A i \in I : w[i] \in Nat /\ w[i] > 0 /\ w[i] = Weight(i)
  BY <1>2, WeightsAre
<1>4. TotalWeight(I) = SumFunctionOnSet(w, I)
  BY DEF TotalWeight, SumFunction
<1> HIDE DEF w
<1>5. PICK W \in Nat : W = TotalWeight(I) /\ W = SumFunctionOnSet(w, I) /\ W > 0
  <2>1. SumFunctionOnSet(w, I) \in Nat /\ w[1] <= SumFunctionOnSet(w, I)
    BY <1>2, <1>3, SumsCover
  <2>2. w[1] \in Nat /\ w[1] > 0
    BY <1>2, <1>3
  <2> QED
    BY <1>4, <2>1, <2>2
<1>6. PICK b \in Nat : b = T * W /\ b > 0
  <2>1. T * W \in Nat /\ T * W > 0
    BY <1>5
  <2> QED
    BY <2>1
<1>7. ASSUME NEW i \in I
      PROVE  /\ f[i] \in Nat
             /\ 2 * (b * f[i]) - 2 * (A * w[i]) <= b /\ 2 * (A * w[i]) - 2 * (b * f[i]) <= b
  <2>1. PICK a \in Nat : a = A * w[i]
    BY <1>3
  <2>2. f[i] = Round(a, b)
    BY <1>1, <1>3, <1>5, <1>6, <2>1
  <2>3. /\ Round(a, b) \in Int
        /\ 2 * (b * Round(a, b)) - 2 * a <= b /\ 2 * a - 2 * (b * Round(a, b)) <= b
    BY <1>6, RoundBound
  <2>4. Round(a, b) >= 0
    <3>1. PICK lo \in Int, hi \in Int : lo = 0 /\ hi = a
      OBVIOUS
    <3>2. lo * b <= a
      BY <3>1
    <3>3. a <= hi * b
      <4>1. a * 1 <= a * b
        BY <1>6
      <4> QED
        BY <3>1, <4>1
    <3> QED
      BY <1>6, <3>1, <3>2, <3>3, RoundBetween
  <2> QED
    BY <2>1, <2>2, <2>3, <2>4
<1>8. PICK F, G : F = [i \in I |-> 2 * (b * f[i])] /\ G = [i \in I |-> 2 * (A * w[i])]
  OBVIOUS
<1>9. ASSUME NEW i \in I
      PROVE  /\ F[i] \in Int /\ G[i] \in Int /\ F[i] - G[i] <= b /\ G[i] - F[i] <= b
             /\ F[i] = (2 * b) * f[i] /\ G[i] = (2 * A) * w[i]
  <2>1. PICK x \in Nat, y \in Nat : x = f[i] /\ y = w[i]
    BY <1>3, <1>7
  <2>2. F[i] = 2 * (b * x) /\ G[i] = 2 * (A * y)
    BY <1>8, <2>1
  <2>3. 2 * (b * x) \in Int /\ 2 * (A * y) \in Int
    OBVIOUS
  <2>4. 2 * (b * x) = (2 * b) * x /\ 2 * (A * y) = (2 * A) * y
    OBVIOUS
  <2>5. 2 * (b * x) - 2 * (A * y) <= b /\ 2 * (A * y) - 2 * (b * x) <= b
    BY <1>7, <2>1
  <2> QED
    BY <2>1, <2>2, <2>3, <2>4, <2>5
<1>10. /\ SumFunctionOnSet(F, I) - SumFunctionOnSet(G, I) <= m * b
       /\ SumFunctionOnSet(G, I) - SumFunctionOnSet(F, I) <= m * b
  BY <1>2, <1>9, SumsNear
<1>11. PICK X \in Nat : X = SumFunctionOnSet(f, I)
  BY <1>2, <1>7, SumsCover
<1>12. SumFunctionOnSet(F, I) = (2 * b) * X /\ SumFunctionOnSet(G, I) = (2 * A) * W
  <2>1. PICK c \in Int, d \in Int : c = 2 * b /\ d = 2 * A
    OBVIOUS
  <2>2. \A i \in I : f[i] \in Int /\ F[i] = c * f[i] /\ w[i] \in Int /\ G[i] = d * w[i]
    BY <1>3, <1>7, <1>9, <2>1
  <2>3. SumFunctionOnSet(F, I) = c * SumFunctionOnSet(f, I)
    BY <1>2, <2>2, SumsScale
  <2>4. SumFunctionOnSet(G, I) = d * SumFunctionOnSet(w, I)
    BY <1>2, <2>2, SumsScale
  <2> QED
    BY <1>5, <1>11, <2>1, <2>3, <2>4
<1>13. (2 * b) * X - (2 * A) * W <= m * b /\ (2 * A) * W - (2 * b) * X <= m * b
  BY <1>10, <1>12
<1>14. /\ (2 * (T * X) - 2 * A) * W <= (m * T) * W
       /\ (2 * A - 2 * (T * X)) * W <= (m * T) * W
  <2>1. (2 * b) * X = (2 * (T * X)) * W /\ m * b = (m * T) * W
    <3>1. (T * W) * X = (T * X) * W
      OBVIOUS
    <3>2. (2 * (T * W)) * X = 2 * ((T * W) * X) /\ (2 * (T * X)) * W = 2 * ((T * X) * W)
      <4>1. PICK y \in Nat : y = T * W
        OBVIOUS
      <4>2. PICK z \in Nat : z = T * X
        OBVIOUS
      <4>3. (2 * y) * X = 2 * (y * X) /\ (2 * z) * W = 2 * (z * W)
        OBVIOUS
      <4> QED
        BY <4>1, <4>2, <4>3
    <3>3. m * (T * W) = (m * T) * W
      OBVIOUS
    <3> QED
      BY <1>6, <3>1, <3>2, <3>3
  <2>2. PICK p \in Int, q \in Int : p = 2 * (T * X) /\ q = 2 * A
    OBVIOUS
  <2>3. (p - q) * W = p * W - q * W /\ (q - p) * W = q * W - p * W
    BY Distributes
  <2> QED
    BY <1>13, <2>1, <2>2, <2>3
<1>15. ASSUME NEW u \in Int, NEW v \in Int, u * W <= v * W PROVE u <= v
  <2>1. SUFFICES ASSUME u >= v + 1 PROVE FALSE
    BY <1>15
  <2>2. u * W >= (v + 1) * W
    BY <1>5, <2>1
  <2>3. (v + 1) * W = v * W + W
    OBVIOUS
  <2>4. PICK y \in Int : y = v * W
    OBVIOUS
  <2> QED
    BY <1>5, <1>15, <2>2, <2>3, <2>4
<1>16. 2 * (T * X) - 2 * A <= m * T /\ 2 * A - 2 * (T * X) <= m * T
  <2>1. PICK u \in Int, v \in Int, x \in Int :
          u = 2 * (T * X) - 2 * A /\ x = 2 * A - 2 * (T * X) /\ v = m * T
    <3>1. PICK y \in Nat : y = T * X
      OBVIOUS
    <3>2. PICK z \in Int : z = m * T
      OBVIOUS
    <3>3. 2 * y - 2 * A \in Int /\ 2 * A - 2 * y \in Int
      OBVIOUS
    <3>4. 2 * (T * X) - 2 * A \in Int /\ 2 * A - 2 * (T * X) \in Int /\ m * T \in Int
      BY <3>1, <3>2, <3>3
    <3> QED
      BY <3>4, Zenon
  <2> QED
    BY <1>14, <1>15, <2>1
<1> QED
  BY <1>1, <1>7, <1>11, <1>16

(* The authority of a band, none where nobody speaks in it.                *)
Voice(S, k) == IF Group(S, BandOrder[k]) # << >> THEN Policy.authority[BandOrder[k]] ELSE 0
Total(S) ==
  SumFunction([b \in {b \in Bands : Group(S, b) # << >>} |-> Policy.authority[b]])
Shares(S, b) ==
  [i \in 1..Len(Group(S, b)) |->
     Round(WholeWeight * Policy.authority[b] * Weight(i),
           Total(S) * TotalWeight(1..Len(Group(S, b))))]

LEMMA WeightsInBands ==
  ASSUME NEW S
  PROVE  SignalWeights(S) = FlattenSeq([i \in 1..3 |-> Shares(S, BandOrder[i])])
BY DEF SignalWeights, Shares, Total

LEMMA VoicesAre ==
  ASSUME NEW S, NEW k \in 1..3
  PROVE  /\ Voice(S, k) \in Nat
         /\ Group(S, BandOrder[k]) # << >> =>
              Voice(S, k) = Policy.authority[BandOrder[k]] /\ Voice(S, k) > 0
         /\ Group(S, BandOrder[k]) = << >> => Voice(S, k) = 0
<1>1. BandOrder[k] \in Bands
  BY BandNames DEF Bands
<1>2. Policy.authority[BandOrder[k]] \in Nat /\ Policy.authority[BandOrder[k]] > 0
  BY <1>1, PolicyAssumption DEF PolicyAccepted
<1> QED
  BY <1>2 DEF Voice

LEMMA TotalIs ==
  ASSUME NEW S
  PROVE  Total(S) = Voice(S, 1) + Voice(S, 2) + Voice(S, 3)
<1>1. PICK P : P = {b \in Bands : Group(S, b) # << >>}
  OBVIOUS
<1>2. PICK f : f = [b \in P |-> Policy.authority[b]]
  OBVIOUS
<1>3. Total(S) = SumFunctionOnSet(f, P)
  BY <1>1, <1>2 DEF Total, SumFunction
<1>4. PICK Q : Q = [k \in 1..3 |-> {b \in P : b = BandOrder[k]}]
  OBVIOUS
<1>5. ASSUME NEW k \in 1..3
      PROVE  /\ IsFiniteSet(Q[k]) /\ \A b \in Q[k] : f[b] \in Nat
             /\ SumFunctionOnSet(f, Q[k]) = Voice(S, k)
  <2>1. PICK b : b = BandOrder[k]
    OBVIOUS
  <2>2. b \in Bands
    BY <2>1, BandNames DEF Bands
  <2>3. CASE b \in P
    <3>1. Q[k] = {b}
      BY <1>4, <2>1, <2>3
    <3>2. f[b] = Voice(S, k) /\ f[b] \in Nat
      BY <1>1, <1>2, <2>1, <2>3, VoicesAre
    <3>3. SumFunctionOnSet(f, {b}) = f[b]
      BY <3>2, SumsOne
    <3>4. IsFiniteSet({b})
      BY FS_Singleton
    <3> QED
      BY <3>1, <3>2, <3>3, <3>4
  <2>4. CASE b \notin P
    <3>1. Q[k] = {}
      BY <1>4, <2>1, <2>4
    <3>2. Group(S, b) = << >>
      BY <1>1, <2>2, <2>4
    <3>3. Voice(S, k) = 0
      BY <2>1, <3>2, VoicesAre
    <3>4. SumFunctionOnSet(f, {}) = 0
      BY SumsOne
    <3>5. IsFiniteSet({})
      BY FS_EmptySet
    <3> QED
      BY <3>1, <3>3, <3>4, <3>5
  <2> QED
    BY <2>3, <2>4
<1>6. PICK A, B, C : A = Q[1] /\ B = Q[2] /\ C = Q[3]
  OBVIOUS
<1>7. /\ IsFiniteSet(A) /\ \A b \in A : f[b] \in Nat
      /\ IsFiniteSet(B) /\ \A b \in B : f[b] \in Nat
      /\ IsFiniteSet(C) /\ \A b \in C : f[b] \in Nat
      /\ SumFunctionOnSet(f, A) = Voice(S, 1)
      /\ SumFunctionOnSet(f, B) = Voice(S, 2)
      /\ SumFunctionOnSet(f, C) = Voice(S, 3)
  <2>1. 1 \in 1..3 /\ 2 \in 1..3 /\ 3 \in 1..3
    OBVIOUS
  <2> QED
    BY <1>5, <1>6, <2>1
<1>8. A \cap B = {} /\ (A \cup B) \cap C = {} /\ P = (A \cup B) \cup C
  <2>1. /\ A = {b \in P : b = "short"} /\ B = {b \in P : b = "medium"}
        /\ C = {b \in P : b = "long"}
    BY <1>4, <1>6, BandNames
  <2>2. \A b \in P : b = "short" \/ b = "medium" \/ b = "long"
    BY <1>1 DEF Bands
  <2> QED
    BY <2>1, <2>2
<1>9. PICK D : D = A \cup B
  OBVIOUS
<1>10. IsFiniteSet(D) /\ SumFunctionOnSet(f, D) = SumFunctionOnSet(f, A) + SumFunctionOnSet(f, B)
       /\ \A b \in D : f[b] \in Nat
  <2>1. \A b \in A \cup B : f[b] \in Nat
    BY <1>7
  <2> QED
    BY <1>7, <1>8, <1>9, <2>1, SumsSplit
<1>11. SumFunctionOnSet(f, D \cup C) = SumFunctionOnSet(f, D) + SumFunctionOnSet(f, C)
  <2>1. \A b \in D \cup C : f[b] \in Nat
    BY <1>7, <1>10
  <2>2. D \cap C = {}
    BY <1>8, <1>9
  <2> QED
    BY <1>7, <1>10, <2>1, <2>2, SumsSplit
<1> QED
  BY <1>3, <1>7, <1>8, <1>9, <1>10, <1>11

(* Each band's share, to half a unit for each of its members.              *)
IsShare(S, k, m, f) ==
  /\ DOMAIN f = 1..m /\ f = [i \in 1..m |-> f[i]]
  /\ \A i \in 1..m : f[i] \in Nat
  /\ SumFunctionOnSet(f, 1..m) \in Nat
  /\ 2 * (Total(S) * SumFunctionOnSet(f, 1..m)) - 2 * (WholeWeight * Voice(S, k))
       <= m * Total(S)
  /\ 2 * (WholeWeight * Voice(S, k)) - 2 * (Total(S) * SumFunctionOnSet(f, 1..m))
       <= m * Total(S)

LEMMA SharesAre ==
  ASSUME NEW S, Signalled(S), Total(S) \in Nat, Total(S) > 0, WholeWeight \in Nat, NEW k \in 1..3,
         NEW m \in 0..8, DOMAIN Group(S, BandOrder[k]) = 1..m
  PROVE  IsShare(S, k, m, Shares(S, BandOrder[k]))
<1>1. PICK f : f = Shares(S, BandOrder[k])
  OBVIOUS
<1>2. PICK ww \in Nat : ww = WholeWeight
  OBVIOUS
<1>3. PICK b : b = BandOrder[k]
  OBVIOUS
<1>4. PICK T \in Nat : T = Total(S) /\ T > 0
  OBVIOUS
<1>5. Len(Group(S, b)) = m
  <2>1. PICK G : G = Group(S, b)
    OBVIOUS
  <2>2. IsSeq(S) /\ {i \in DOMAIN S : BandOf(S[i].horizon) = b} \subseteq DOMAIN S
    BY DEF Signalled
  <2>3. Len(G) \in Nat /\ DOMAIN G = 1..Len(G)
    BY <2>1, <2>2, KeptMembers DEF Group, KeptOf
  <2>4. PICK l \in Nat : l = Len(G)
    BY <2>3
  <2>5. 1..l = 1..m
    BY <1>3, <2>1, <2>3, <2>4
  <2>6. l = m
    <3>1. l > m => l \in 1..l /\ l \notin 1..m
      OBVIOUS
    <3>2. l < m => m \in 1..m /\ m \notin 1..l
      OBVIOUS
    <3> QED
      BY <2>5, <3>1, <3>2
  <2> QED
    BY <2>1, <2>4, <2>6
<1>6. f = [i \in 1..m |-> Round(ww * Policy.authority[b] * Weight(i), T * TotalWeight(1..m))]
  BY <1>3, <1>4, <1>5, <1>1, <1>2 DEF Shares
<1>7. DOMAIN f = 1..m /\ f = [i \in 1..m |-> f[i]]
  BY <1>6
<1>8. CASE m = 0
  <2>1. 1..m = {}
    BY <1>8
  <2>2. Group(S, b) = << >>
    <3>1. Group(S, b) # << >> => Signalled(Group(S, b))
      BY GroupFacts DEF GroupOf
    <3>2. Signalled(Group(S, b)) => DOMAIN Group(S, b) # {}
      BY SignalledFacts
    <3> QED
      BY <1>3, <2>1, <3>1, <3>2
  <2>3. Voice(S, k) = 0
    BY <1>3, <2>2, VoicesAre
  <2>4. SumFunctionOnSet(f, 1..m) = 0
    BY <2>1, SumsOne
  <2>5. T * 0 = 0 /\ ww * 0 = 0 /\ m * T = 0
    BY <1>8
  <2>6. PICK X \in Nat, v \in Nat : X = 0 /\ v = 0
    OBVIOUS
  <2>7. 2 * (T * X) - 2 * (ww * v) <= m * T /\ 2 * (ww * v) - 2 * (T * X) <= m * T
    BY <1>8, <2>5, <2>6
  <2>8. X = SumFunctionOnSet(f, 1..m) /\ v = Voice(S, k) /\ T = Total(S) /\ ww = WholeWeight
    BY <1>4, <1>2, <2>3, <2>4, <2>6
  <2>9. \A i \in 1..m : f[i] \in Nat
    BY <2>1
  <2>10. /\ 2 * (Total(S) * SumFunctionOnSet(f, 1..m)) - 2 * (WholeWeight * Voice(S, k))
             <= m * Total(S)
         /\ 2 * (WholeWeight * Voice(S, k)) - 2 * (Total(S) * SumFunctionOnSet(f, 1..m))
             <= m * Total(S)
         /\ SumFunctionOnSet(f, 1..m) \in Nat
    BY <2>7, <2>8
  <2>13. IsShare(S, k, m, f)
    BY <1>7, <2>9, <2>10, Zenon DEF IsShare
  <2> QED
    BY <1>1, <2>13
<1>9. CASE m # 0
  <2>1. m \in 1..8
    BY <1>9
  <2>2. Group(S, b) # << >>
    <3>1. 1 \in 1..m
      BY <2>1
    <3>2. DOMAIN << >> = {}
      OBVIOUS
    <3> QED
      BY <1>3, <3>1, <3>2
  <2>3. PICK v \in Nat : v = Voice(S, k) /\ v = Policy.authority[b]
    BY <1>3, <2>2, VoicesAre
  <2>4. PICK A \in Nat : A = ww * v
    OBVIOUS
  <2>5. \A i \in 1..m : f[i] = Round(A * Weight(i), T * TotalWeight(1..m))
    BY <1>6, <2>3, <2>4
  <2>6. /\ \A i \in 1..m : f[i] \in Nat
        /\ SumFunctionOnSet(f, 1..m) \in Nat
        /\ 2 * (T * SumFunctionOnSet(f, 1..m)) - 2 * A <= m * T
        /\ 2 * A - 2 * (T * SumFunctionOnSet(f, 1..m)) <= m * T
    BY <1>4, <2>1, <2>5, ShareIs
  <2>7. A = ww * Voice(S, k) /\ T = Total(S)
    BY <1>4, <2>3, <2>4
  <2>8. PICK X \in Nat : X = SumFunctionOnSet(f, 1..m)
    BY <2>6
  <2>9. 2 * (T * X) - 2 * A <= m * T /\ 2 * A - 2 * (T * X) <= m * T
    BY <2>6, <2>8
  <2>10. /\ 2 * (Total(S) * X) - 2 * (ww * Voice(S, k)) <= m * Total(S)
         /\ 2 * (ww * Voice(S, k)) - 2 * (Total(S) * X) <= m * Total(S)
    BY <2>7, <2>9
  <2>11. \A i \in 1..m : f[i] \in Nat
    BY <2>6
  <2>12. /\ 2 * (Total(S) * SumFunctionOnSet(f, 1..m)) - 2 * (WholeWeight * Voice(S, k))
             <= m * Total(S)
         /\ 2 * (WholeWeight * Voice(S, k)) - 2 * (Total(S) * SumFunctionOnSet(f, 1..m))
             <= m * Total(S)
         /\ SumFunctionOnSet(f, 1..m) \in Nat
    BY <1>2, <2>8, <2>10
  <2>13. IsShare(S, k, m, f)
    BY <1>7, <2>11, <2>12, Zenon DEF IsShare
  <2> QED
    BY <1>1, <2>13
<1> QED
  BY <1>8, <1>9, <1>1

(* Sums over three runs, one after the other.                              *)
LEMMA ThreeRuns ==
  ASSUME NEW c \in Nat, NEW y \in Nat, NEW z \in Nat, NEW w, NEW f, NEW g, NEW h,
         Shifted(f, c, w, 0), Shifted(g, y, w, c), Shifted(h, z, w, c + y),
         \A i \in 1..(c + y + z) : w[i] \in Nat
  PROVE  /\ SumFunctionOnSet(f, 1..c) \in Nat /\ SumFunctionOnSet(g, 1..y) \in Nat
         /\ SumFunctionOnSet(h, 1..z) \in Nat
         /\ SumFunctionOnSet(w, 1..(c + y + z))
              = SumFunctionOnSet(f, 1..c) + SumFunctionOnSet(g, 1..y) + SumFunctionOnSet(h, 1..z)
<1>1. PICK o \in Nat : o = 0
  OBVIOUS
<1>2. PICK d \in Nat : d = c + y
  OBVIOUS
<1>3. PICK n \in Nat : n = c + y + z
  OBVIOUS
<1>4. /\ SumFunctionOnSet(f, 1..c) \in Nat
      /\ SumFunctionOnSet(w, (o + 1)..(o + c)) = SumFunctionOnSet(f, 1..c)
  <2>1. Shifted(f, c, w, o)
    BY <1>1
  <2> QED
    BY <2>1, SumsShift
<1>5. /\ SumFunctionOnSet(g, 1..y) \in Nat
      /\ SumFunctionOnSet(w, (c + 1)..(c + y)) = SumFunctionOnSet(g, 1..y)
  BY SumsShift
<1>6. /\ SumFunctionOnSet(h, 1..z) \in Nat
      /\ SumFunctionOnSet(w, (d + 1)..(d + z)) = SumFunctionOnSet(h, 1..z)
  <2>1. Shifted(h, z, w, d)
    BY <1>2
  <2> QED
    BY <2>1, SumsShift
<1>7. PICK I, J, K : I = 1..c /\ J = (c + 1)..d /\ K = (d + 1)..n
  OBVIOUS
<1>8. IsFiniteSet(I) /\ IsFiniteSet(J) /\ IsFiniteSet(K)
  <2>1. ASSUME NEW p \in Int, NEW q \in Int PROVE IsFiniteSet(p..q)
    BY FS_Interval
  <2>2. c + 1 \in Int /\ d + 1 \in Int /\ 1 \in Int /\ c \in Int /\ d \in Int /\ n \in Int
    OBVIOUS
  <2> QED
    BY <1>7, <2>1, <2>2
<1>9. PICK L : L = I \cup J
  OBVIOUS
<1>10. I \cap J = {} /\ L = 1..d /\ L \cap K = {} /\ L \cup K = 1..n
  <2>1. c <= d /\ d <= n
    BY <1>2, <1>3
  <2> QED
    BY <1>7, <1>9, <2>1
<1>11. \A i \in L \cup K : w[i] \in Nat
  BY <1>3, <1>10
<1>12. /\ IsFiniteSet(L)
       /\ SumFunctionOnSet(w, L) = SumFunctionOnSet(w, I) + SumFunctionOnSet(w, J)
  <2>1. \A i \in I \cup J : w[i] \in Nat
    BY <1>9, <1>11
  <2>2. /\ IsFiniteSet(I \cup J)
        /\ SumFunctionOnSet(w, I \cup J) = SumFunctionOnSet(w, I) + SumFunctionOnSet(w, J)
    BY <1>8, <1>10, <2>1, SumsSplit
  <2> QED
    BY <1>9, <2>2
<1>13. SumFunctionOnSet(w, L \cup K) = SumFunctionOnSet(w, L) + SumFunctionOnSet(w, K)
  BY <1>8, <1>10, <1>11, <1>12, SumsSplit
<1>14. /\ SumFunctionOnSet(w, I) = SumFunctionOnSet(f, 1..c)
       /\ SumFunctionOnSet(w, J) = SumFunctionOnSet(g, 1..y)
       /\ SumFunctionOnSet(w, K) = SumFunctionOnSet(h, 1..z)
  <2>1. o + 1 = 1 /\ o + c = c /\ d + z = n
    BY <1>1, <1>2, <1>3
  <2> QED
    BY <1>2, <1>4, <1>5, <1>6, <1>7, <2>1
<1> QED
  BY <1>3, <1>4, <1>5, <1>6, <1>10, <1>12, <1>13, <1>14

(* The weights of the signals, in band after band, add up to the whole     *)
(* within half a unit for each of them.                                    *)
LEMMA WeightsSumUp ==
  ASSUME NEW S, Signalled(S), Lined(S), WholeWeight \in Nat
  PROVE  /\ \A i \in 1..Len(S) : SignalWeights(S)[i] \in Nat
         /\ SumFunctionOnSet(SignalWeights(S), 1..Len(S)) \in Nat
         /\ 2 * SumFunctionOnSet(SignalWeights(S), 1..Len(S)) - 2 * WholeWeight <= 8
         /\ 2 * WholeWeight - 2 * SumFunctionOnSet(SignalWeights(S), 1..Len(S)) <= 8
<1>1. PICK n \in 1..8 : n = Len(S)
  BY DEF Signalled
<1>2. PICK w : w = SignalWeights(S)
  OBVIOUS
<1>3. PICK ww \in Nat : ww = WholeWeight
  OBVIOUS
<1>4. PICK cut : Grouping(S, cut)
  BY GroupsAreRuns
<1>5. PICK c \in 0..8, d \in 0..8 :
        c = cut[1] /\ d = cut[2] /\ c <= d /\ d <= n /\ cut[0] = 0 /\ cut[3] = n
  <2>1. 1 \in 0..3 /\ 2 \in 0..3 /\ 3 \in 1..3 /\ 2 \in 1..3 /\ 3 - 1 = 2 /\ 2 - 1 = 1
    OBVIOUS
  <2>2. cut[1] \in 0..n /\ cut[2] \in 0..n
    BY <1>4, <1>1, <2>1 DEF Grouping
  <2>3. cut[0] = 0 /\ cut[3] = n
    BY <1>4, <1>1 DEF Grouping
  <2>4. \A k \in 1..3 : cut[k - 1] <= cut[k]
    BY <1>4 DEF Grouping
  <2>5. cut[1] <= cut[2]
    BY <2>1, <2>4
  <2> QED
    BY <2>2, <2>3, <2>5
<1>6. PICK f, g, h :
        f = Shares(S, BandOrder[1]) /\ g = Shares(S, BandOrder[2]) /\ h = Shares(S, BandOrder[3])
  OBVIOUS
<1>7. c <= d /\ d <= n
  BY <1>5
<1>8. PICK y \in 0..8 : d = c + y
  <2>1. d - c \in 0..8 /\ d = c + (d - c)
    BY <1>7
  <2> QED
    BY <2>1
<1>9. PICK z \in 0..8 : n = d + z
  <2>1. n - d \in 0..8 /\ n = d + (n - d)
    BY <1>7
  <2> QED
    BY <2>1
<1>10. y = d - c /\ z = n - d /\ d = c + y /\ n = d + z /\ c <= d /\ d <= n
  <2>1. c \in Int /\ d \in Int /\ y \in Int /\ z \in Int /\ n \in Int
    OBVIOUS
  <2> QED
    BY <1>7, <1>8, <1>9, <2>1
<1>11. /\ DOMAIN Group(S, BandOrder[1]) = 1..c
      /\ DOMAIN Group(S, BandOrder[2]) = 1..y
      /\ DOMAIN Group(S, BandOrder[3]) = 1..z
  <2>1. /\ 1 \in 1..3 /\ 2 \in 1..3 /\ 3 \in 1..3 /\ 1 - 1 = 0 /\ 2 - 1 = 1 /\ 3 - 1 = 2
        /\ c - 0 = c
    OBVIOUS
  <2>2. \A k \in 1..3 : Group(S, BandOrder[k]) = Run(S, cut[k - 1], cut[k] - cut[k - 1])
    BY <1>4 DEF Grouping
  <2>3. /\ Group(S, BandOrder[1]) = Run(S, 0, c)
        /\ Group(S, BandOrder[2]) = Run(S, c, y)
        /\ Group(S, BandOrder[3]) = Run(S, d, z)
    BY <1>5, <1>10, <2>1, <2>2
  <2> QED
    BY <2>3 DEF Run
<1>12. PICK u \in Nat, v \in Nat, x \in Nat :
        u = Voice(S, 1) /\ v = Voice(S, 2) /\ x = Voice(S, 3)
  BY VoicesAre
<1>13. PICK T \in Nat : T = Total(S) /\ T = u + v + x /\ T > 0
  <2>1. Total(S) = u + v + x
    BY <1>12, TotalIs
  <2>2. PICK k \in 1..3 : DOMAIN Group(S, BandOrder[k]) # {}
    <3>1. c >= 1 \/ y >= 1 \/ z >= 1
      BY <1>10
    <3>2. c >= 1 => 1 \in 1..c
      OBVIOUS
    <3>3. y >= 1 => 1 \in 1..y
      OBVIOUS
    <3>4. z >= 1 => 1 \in 1..z
      OBVIOUS
    <3>5. 1 \in 1..3 /\ 2 \in 1..3 /\ 3 \in 1..3
      OBVIOUS
    <3> QED
      BY <1>11, <3>1, <3>2, <3>3, <3>4, <3>5
  <2>3. Group(S, BandOrder[k]) # << >>
    <3>1. DOMAIN << >> = {}
      OBVIOUS
    <3> QED
      BY <2>2, <3>1
  <2>4. Voice(S, k) > 0
    BY <2>3, VoicesAre
  <2>5. k = 1 \/ k = 2 \/ k = 3
    OBVIOUS
  <2>6. u > 0 \/ v > 0 \/ x > 0
    BY <1>12, <2>4, <2>5
  <2> QED
    BY <2>1, <2>6
<1>14. /\ f = [i \in 1..c |-> f[i]] /\ \A i \in 1..c : f[i] \in Nat
      /\ SumFunctionOnSet(f, 1..c) \in Nat
      /\ 2 * (T * SumFunctionOnSet(f, 1..c)) - 2 * (ww * u) <= c * T
      /\ 2 * (ww * u) - 2 * (T * SumFunctionOnSet(f, 1..c)) <= c * T
  <2>1. PICK k \in 1..3 : k = 1
    OBVIOUS
  <2>2. Total(S) \in Nat /\ Total(S) > 0
    BY <1>13
  <2>3. f = Shares(S, BandOrder[k]) /\ DOMAIN Group(S, BandOrder[k]) = 1..c
    BY <1>6, <1>11, <2>1
  <2>4. IsShare(S, k, c, f)
    BY <1>3, <2>2, <2>3, SharesAre
  <2>5. Voice(S, k) = u /\ Total(S) = T
    BY <1>12, <1>13, <2>1
  <2> QED
    BY <1>3, <2>4, <2>5 DEF IsShare
<1>15. /\ g = [i \in 1..y |-> g[i]] /\ \A i \in 1..y : g[i] \in Nat
      /\ SumFunctionOnSet(g, 1..y) \in Nat
      /\ 2 * (T * SumFunctionOnSet(g, 1..y)) - 2 * (ww * v) <= y * T
      /\ 2 * (ww * v) - 2 * (T * SumFunctionOnSet(g, 1..y)) <= y * T
  <2>1. PICK k \in 1..3 : k = 2
    OBVIOUS
  <2>2. Total(S) \in Nat /\ Total(S) > 0
    BY <1>13
  <2>3. g = Shares(S, BandOrder[k]) /\ DOMAIN Group(S, BandOrder[k]) = 1..y
    BY <1>6, <1>11, <2>1
  <2>4. IsShare(S, k, y, g)
    BY <1>3, <2>2, <2>3, SharesAre
  <2>5. Voice(S, k) = v /\ Total(S) = T
    BY <1>12, <1>13, <2>1
  <2> QED
    BY <1>3, <2>4, <2>5 DEF IsShare
<1>16. /\ h = [i \in 1..z |-> h[i]] /\ \A i \in 1..z : h[i] \in Nat
       /\ SumFunctionOnSet(h, 1..z) \in Nat
       /\ 2 * (T * SumFunctionOnSet(h, 1..z)) - 2 * (ww * x) <= z * T
       /\ 2 * (ww * x) - 2 * (T * SumFunctionOnSet(h, 1..z)) <= z * T
  <2>1. PICK k \in 1..3 : k = 3
    OBVIOUS
  <2>2. Total(S) \in Nat /\ Total(S) > 0
    BY <1>13
  <2>3. h = Shares(S, BandOrder[k]) /\ DOMAIN Group(S, BandOrder[k]) = 1..z
    BY <1>6, <1>11, <2>1
  <2>4. IsShare(S, k, z, h)
    BY <1>3, <2>2, <2>3, SharesAre
  <2>5. Voice(S, k) = x /\ Total(S) = T
    BY <1>12, <1>13, <2>1
  <2> QED
    BY <1>3, <2>4, <2>5 DEF IsShare
<1>17. PICK F : F = [i \in 1..n |-> IF i <= c THEN f[i] ELSE IF i <= d THEN g[i - c] ELSE h[i - d]]
  OBVIOUS
<1>18. /\ \A j \in 1..c : F[0 + j] = f[j]
       /\ \A j \in 1..y : F[c + j] = g[j]
       /\ \A j \in 1..z : F[d + j] = h[j]
  <2>1. ASSUME NEW j \in 1..c PROVE F[0 + j] = f[j]
    BY <1>5, <1>17
  <2>2. ASSUME NEW j \in 1..y PROVE F[c + j] = g[j]
    <3>1. PICK i \in 1..n : i = c + j /\ ~(i <= c) /\ i <= d /\ i - c = j
      <4>1. c + j \in 1..n /\ ~(c + j <= c) /\ c + j <= d /\ (c + j) - c = j
        BY <1>10
      <4> QED
        BY <4>1
    <3> QED
      BY <1>17, <3>1
  <2>3. ASSUME NEW j \in 1..z PROVE F[d + j] = h[j]
    <3>1. PICK i \in 1..n : i = d + j /\ ~(i <= c) /\ ~(i <= d) /\ i - d = j
      <4>1. d + j \in 1..n /\ ~(d + j <= c) /\ ~(d + j <= d) /\ (d + j) - d = j
        BY <1>10
      <4> QED
        BY <4>1
    <3> QED
      BY <1>17, <3>1
  <2> QED
    BY <2>1, <2>2, <2>3
<1>19. /\ f = Run(F, 0, c) /\ g = Run(F, c, y) /\ h = Run(F, d, z)
  BY <1>14, <1>15, <1>16, <1>18 DEF Run
<1>20. w = Run(F, 0, n)
  <2>1. PICK parts : parts = [i \in 1..3 |-> Shares(S, BandOrder[i])]
    OBVIOUS
  <2>2. w = FlattenSeq(parts)
    BY <1>2, <2>1, WeightsInBands
  <2>3. Len(parts) = 3
    <3>1. parts \in [1..3 -> Range(parts)]
      BY <2>1 DEF Range
    <3>2. PICK t \in Nat : t = 3
      OBVIOUS
    <3>3. parts \in Seq(Range(parts)) /\ DOMAIN parts = 1..t
      BY <2>1, <3>1, <3>2, SeqDef
    <3> QED
      BY <3>2, <3>3, LenProperties
  <2>4. parts[1] = f /\ parts[2] = g /\ parts[3] = h
    BY <1>6, <2>1
  <2>5. ASSUME NEW k \in 1..3
        PROVE  parts[k] = Run(F, cut[k - 1], cut[k] - cut[k - 1]) /\ cut[k - 1] <= cut[k]
    <3>1. k = 1 \/ k = 2 \/ k = 3
      OBVIOUS
    <3>2. CASE k = 1
      <4>1. cut[k - 1] = 0 /\ cut[k] - cut[k - 1] = c /\ cut[k - 1] <= cut[k]
        BY <1>5, <3>2
      <4> QED
        BY <1>19, <2>4, <3>2, <4>1
    <3>3. CASE k = 2
      <4>1. cut[k - 1] = c /\ cut[k] = d
        BY <1>5, <3>3
      <4>2. cut[k] - cut[k - 1] = y /\ cut[k - 1] <= cut[k]
        BY <1>10, <4>1
      <4> QED
        BY <1>19, <2>4, <3>3, <4>1, <4>2
    <3>4. CASE k = 3
      <4>1. cut[k - 1] = d /\ cut[k] = n
        BY <1>5, <3>4
      <4>2. cut[k] - cut[k - 1] = z /\ cut[k - 1] <= cut[k]
        BY <1>10, <4>1
      <4> QED
        BY <1>19, <2>4, <3>4, <4>1, <4>2
    <3> QED
      BY <3>1, <3>2, <3>3, <3>4
  <2>6. cut[0] = 0 /\ \A k \in 0..3 : cut[k] \in Nat
    <3>1. \A k \in 0..3 : k = 0 \/ k = 1 \/ k = 2 \/ k = 3
      OBVIOUS
    <3> QED
      BY <1>5, <3>1
  <2>7. 3 \in Nat /\ 3 >= 1
    OBVIOUS
  <2>8. FlattenSeq(parts) = Run(F, 0, cut[3])
    BY <2>3, <2>5, <2>6, <2>7, FlattenRuns
  <2> QED
    BY <1>5, <2>2, <2>8
<1>21. /\ \A j \in 1..c : w[0 + j] = f[j]
       /\ \A j \in 1..y : w[c + j] = g[j]
       /\ \A j \in 1..z : w[d + j] = h[j]
  <2>1. \A i \in 1..n : w[i] = F[0 + i] /\ 0 + i = i
    BY <1>20 DEF Run
  <2>2. /\ \A j \in 1..c : 0 + j \in 1..n
        /\ \A j \in 1..y : c + j \in 1..n
        /\ \A j \in 1..z : d + j \in 1..n
    BY <1>10
  <2>3. \A i \in 1..n : w[i] = F[i]
    BY <2>1
  <2> QED
    BY <1>18, <2>2, <2>3
<1>22. \A i \in 1..n : w[i] \in Nat
  <2> TAKE i \in 1..n
  <2>1. CASE i <= c
    <3>1. i \in 1..c /\ 0 + i = i
      BY <2>1
    <3> QED
      BY <1>14, <1>21, <3>1
  <2>2. CASE ~(i <= c) /\ i <= d
    <3>1. PICK j \in 1..y : c + j = i
      <4>1. i - c \in 1..y /\ c + (i - c) = i
        BY <1>8, <2>2
      <4> QED
        BY <4>1
    <3> QED
      BY <1>15, <1>21, <3>1
  <2>3. CASE ~(i <= d)
    <3>1. PICK j \in 1..z : d + j = i
      <4>1. i - d \in 1..z /\ d + (i - d) = i
        BY <1>9, <2>3
      <4> QED
        BY <4>1
    <3> QED
      BY <1>16, <1>21, <3>1
  <2> QED
    BY <1>5, <2>1, <2>2, <2>3
<1>23. PICK X \in Nat, Y \in Nat, Z \in Nat :
          /\ X = SumFunctionOnSet(f, 1..c)
          /\ Y = SumFunctionOnSet(g, 1..y)
          /\ Z = SumFunctionOnSet(h, 1..z)
  BY <1>14, <1>15, <1>16
<1>24. SumFunctionOnSet(w, 1..n) = X + Y + Z
  <2>1. c \in Nat /\ y \in Nat /\ z \in Nat /\ c + y + z = n
    BY <1>10
  <2>2. Shifted(f, c, w, 0) /\ Shifted(g, y, w, c)
    BY <1>14, <1>15, <1>21 DEF Shifted
  <2>3. Shifted(h, z, w, c + y)
    <3>1. Shifted(h, z, w, d)
      BY <1>16, <1>21 DEF Shifted
    <3> QED
      BY <1>10, <3>1
  <2>4. \A i \in 1..(c + y + z) : w[i] \in Nat
    BY <1>22, <2>1
  <2>5. SumFunctionOnSet(w, 1..(c + y + z))
              = SumFunctionOnSet(f, 1..c) + SumFunctionOnSet(g, 1..y) + SumFunctionOnSet(h, 1..z)
    BY <2>1, <2>2, <2>3, <2>4, ThreeRuns
  <2> QED
    BY <1>23, <2>1, <2>5
<1>25. PICK s \in Nat : s = X + Y + Z
  OBVIOUS
<1>26. 2 * (T * s) - 2 * (ww * T) <= n * T /\ 2 * (ww * T) - 2 * (T * s) <= n * T
  <2>1. PICK TX \in Nat, TY \in Nat, TZ \in Nat : TX = T * X /\ TY = T * Y /\ TZ = T * Z
    OBVIOUS
  <2>2. PICK wu \in Nat, wv \in Nat, wx \in Nat : wu = ww * u /\ wv = ww * v /\ wx = ww * x
    OBVIOUS
  <2>3. PICK cT \in Nat, yT \in Nat, zT \in Nat : cT = c * T /\ yT = y * T /\ zT = z * T
    OBVIOUS
  <2>4. /\ 2 * TX - 2 * wu <= cT /\ 2 * wu - 2 * TX <= cT
        /\ 2 * TY - 2 * wv <= yT /\ 2 * wv - 2 * TY <= yT
        /\ 2 * TZ - 2 * wx <= zT /\ 2 * wx - 2 * TZ <= zT
    BY <1>14, <1>15, <1>16, <1>23, <2>1, <2>2, <2>3
  <2>5. T * s = TX + TY + TZ
    <3>1. T * (X + Y + Z) = T * X + T * Y + T * Z
      OBVIOUS
    <3> QED
      BY <1>25, <2>1, <3>1
  <2>6. ww * T = wu + wv + wx
    <3>1. ww * (u + v + x) = ww * u + ww * v + ww * x
      OBVIOUS
    <3> QED
      BY <1>13, <2>2, <3>1
  <2>7. n * T = cT + yT + zT
    <3>1. n = c + y + z
      BY <1>10
    <3>2. (c + y + z) * T = c * T + y * T + z * T
      OBVIOUS
    <3> QED
      BY <2>3, <3>1, <3>2
  <2> QED
    BY <2>4, <2>5, <2>6, <2>7
<1>27. ASSUME NEW p \in Int, p * T <= n * T PROVE p <= n
  <2>1. SUFFICES ASSUME p >= n + 1 PROVE FALSE
    BY <1>27
  <2>2. p * T >= (n + 1) * T
    BY <1>13, <2>1
  <2>3. (n + 1) * T = n * T + T
    OBVIOUS
  <2>4. PICK k \in Int : k = n * T
    OBVIOUS
  <2> QED
    BY <1>13, <1>27, <2>2, <2>3, <2>4
<1>28. 2 * s - 2 * ww <= n /\ 2 * ww - 2 * s <= n
  <2>1. PICK p \in Int, q \in Int : p = 2 * s - 2 * ww /\ q = 2 * ww - 2 * s
    <3>1. 2 * s - 2 * ww \in Int /\ 2 * ww - 2 * s \in Int
      OBVIOUS
    <3> QED
      BY <3>1, Zenon
  <2>2. p * T = 2 * (T * s) - 2 * (ww * T) /\ q * T = 2 * (ww * T) - 2 * (T * s)
    <3>1. (2 * s) * T = 2 * (T * s) /\ (2 * ww) * T = 2 * (ww * T)
      OBVIOUS
    <3>2. PICK i \in Int, j \in Int : i = 2 * s /\ j = 2 * ww
      OBVIOUS
    <3>3. (i - j) * T = i * T - j * T /\ (j - i) * T = j * T - i * T
      BY Distributes
    <3> QED
      BY <2>1, <3>1, <3>2, <3>3
  <2> QED
    BY <1>26, <1>27, <2>1, <2>2
<1>29. 2 * s - 2 * ww <= 8 /\ 2 * ww - 2 * s <= 8
  BY <1>28
<1> QED
  BY <1>22, <1>24, <1>25, <1>29, <1>1, <1>2, <1>3

-----------------------------------------------------------------------------
(* What the decision checks as it is constructed *)

(* Every list of evidence names horizons of the batch, each once.          *)
LEMMA EvidenceIsAccepted ==
  ASSUME NEW S, Signalled(S), Lined(S)
  PROVE  EvidenceAccepted(Evidence(S), Horizons(S), S)
<1>1. PICK n \in 1..8 : n = Len(S)
  BY DEF Signalled
<1>2. DOMAIN S = 1..n /\ \A i \in 1..n : S[i].confidence \in 0..Full
  <2>1. DOMAIN S = 1..n
    BY <1>1, SignalledFacts
  <2> QED
    BY <2>1 DEF Signalled, IsSignal, SignalAccepted
<1>3. PICK w : w = SignalWeights(S)
  OBVIOUS
<1>4. PICK ww \in Nat : ww = WholeWeight
  BY DEF WholeWeight
<1>5. PICK X \in Nat :
        /\ \A i \in 1..n : w[i] \in Nat
        /\ X = SumFunctionOnSet(w, 1..n) /\ 2 * X - 2 * ww <= 8 /\ 2 * ww - 2 * X <= 8
  BY <1>1, <1>3, <1>4, WeightsSumUp
<1>6. PICK e : e = Evidence(S)
  OBVIOUS
<1>7. e = [i \in 1..n |-> [source |-> S[i].horizon, weight |-> w[i], reliability |-> S[i].confidence]]
  BY <1>2, <1>3, <1>6 DEF Evidence
<1>8. /\ DOMAIN e = 1..n
      /\ \A i \in 1..n : /\ e[i].source = S[i].horizon /\ e[i].weight = w[i]
                         /\ e[i].reliability = S[i].confidence
  BY <1>7
<1>9. [i \in DOMAIN e |-> e[i].source] = Horizons(S)
  BY <1>2, <1>8 DEF Horizons
<1>10. \A i \in DOMAIN e : e[i].weight >= 0 /\ e[i].reliability = S[i].confidence
  BY <1>5, <1>8
<1>11. PICK g : g = [i \in DOMAIN e |-> e[i].weight]
  OBVIOUS
<1>12. DOMAIN g = 1..n /\ \A i \in 1..n : g[i] = w[i]
  BY <1>8, <1>11
<1>13. SumFunction(g) = X
  <2>1. IsFiniteSet(1..n)
    BY FS_Interval
  <2>2. \A i \in 1..n : g[i] \in Int /\ g[i] = w[i]
    BY <1>5, <1>12
  <2>3. SumFunctionOnSet(g, 1..n) = SumFunctionOnSet(w, 1..n)
    BY <2>1, <2>2, SumsAgree
  <2> QED
    BY <1>5, <1>12, <2>3 DEF SumFunction
<1>14. Abs(X - ww) <= 100
  BY <1>5 DEF Abs
<1> QED
  BY <1>4, <1>6, <1>9, <1>10, <1>11, <1>13, <1>14 DEF EvidenceAccepted

(* Signals as a batch gives them.                                          *)
WellFormed(S) ==
  Heard(S) /\ Lined(S) /\ Len(S) \in 2..8 /\ \A i \in DOMAIN S : SteadyRisks(S[i])

LEMMA KeepsItsRisks ==
  ASSUME NEW m, Signalled(m), \A i \in DOMAIN m : SteadyRisks(m[i]), NEW d,
         d.volatility = RoundRisk(Volatility(m)), d.manipulation = RoundRisk(Manipulation(m)),
         d.level = Overall(LevelsOf(m))
  PROVE  KeepsRisks(d, m) /\ RiskLevels(d.volatility, d.manipulation) = LevelsOf(m)
<1>1. RiskLevels(d.volatility, d.manipulation) = LevelsOf(m)
  BY RisksKept
<1> QED
  BY <1>1 DEF KeepsRisks

LEMMA GroupsAreWell ==
  ASSUME NEW S, WellFormed(S), NEW b \in Bands, NEW G, G = Group(S, b), G # << >>
  PROVE  /\ Heard(G) /\ Lined(G) /\ \A i \in DOMAIN G : SteadyRisks(G[i])
         /\ Members(S, Horizons(G)) = G
<1>1. PICK at : at = {i \in DOMAIN S : BandOf(S[i].horizon) = b}
  OBVIOUS
<1>2. G = Kept(S, at) /\ at \subseteq DOMAIN S
  BY <1>1 DEF Group
<1>3. Heard(G)
  BY GroupsHeard DEF WellFormed
<1>4. Lined(G)
  BY <1>2, KeptAscends DEF WellFormed
<1>5. \A i \in DOMAIN G : SteadyRisks(G[i])
  <2>1. IsSeq(S)
    BY DEF WellFormed, Lined
  <2>2. \A k \in DOMAIN G : \E i \in at : G[k] = S[i]
    BY <1>2, <2>1, KeptMembers DEF KeptOf
  <2> QED
    BY <1>2, <2>2 DEF WellFormed
<1>6. Members(S, Horizons(G)) = G
  BY <1>2, MembersAre DEF WellFormed
<1> QED
  BY <1>3, <1>4, <1>5, <1>6

(* The bands cover the batch, and none of them is refused.                 *)
LEMMA BandsAccepted ==
  ASSUME NEW S, WellFormed(S), ConflictsRegister, NEW B, B = BandDecisions(S), NEW i \in DOMAIN B
  PROVE  BandAccepted(B[i]) /\ KeepsRisks(B[i], Members(S, B[i].horizons))
<1>1. Signalled(S)
  BY DEF WellFormed, Heard
<1>2. PICK b \in Bands : Group(S, b) # << >> /\ B[i] = BandDecision(b, Group(S, b))
  BY <1>1, BandsFacts DEF BandsOf
<1>3. PICK G : G = Group(S, b) /\ G # << >>
  BY <1>2
<1>4. /\ Heard(G) /\ Lined(G) /\ \A k \in DOMAIN G : SteadyRisks(G[k])
      /\ Members(S, Horizons(G)) = G
  BY <1>3, GroupsAreWell
<1>5. PICK x : x = B[i] /\ x = BandDecision(b, G)
  BY <1>2, <1>3
<1>6. BandAccepted(x)
  BY <1>4, <1>5, BandIsAccepted
<1>7. /\ x.horizons = Horizons(G) /\ x.volatility = RoundRisk(Volatility(G))
      /\ x.manipulation = RoundRisk(Manipulation(G)) /\ x.level = Overall(LevelsOf(G))
  BY <1>5, BandFields
<1>8. KeepsRisks(x, G)
  BY <1>4, <1>7, KeepsItsRisks DEF Heard
<1> QED
  BY <1>4, <1>5, <1>6, <1>7, <1>8

(* HorizonDecision refuses nothing Evaluate makes of such signals.         *)
LEMMA DecisionIsAccepted ==
  ASSUME NEW S, WellFormed(S), ConflictsRegister, AuthoritiesCompare, NEW r, r = Evaluate(S)
  PROVE  DecisionAccepted(r, Horizons(S), S)
<1>1. Heard(S) /\ Signalled(S) /\ Lined(S) /\ Len(S) \in 2..8 /\ IsSeq(S)
  BY DEF WellFormed, Heard, Lined
<1>2. /\ Percentages(r) /\ StoryConsistent(r)
      /\ r.structural \in Directional \cup {"neutral"}
      /\ (r.alignment = "conflicted") = (r.conflictType # "none")
  BY <1>1, ConclusionFigures
<1>3. /\ r.volatility = RoundRisk(Volatility(S)) /\ r.manipulation = RoundRisk(Manipulation(S))
      /\ r.breakdown = LevelsOf(S) /\ r.level = Overall(LevelsOf(S))
      /\ r.bands = BandDecisions(S)
  BY MoreFields
<1>4. PICK B : B = BandDecisions(S)
  OBVIOUS
<1>5. /\ Horizons(S) = FlattenSeq([i \in DOMAIN B |-> B[i].horizons])
      /\ \A i, j \in DOMAIN B : i < j => BandIndex(B[i].band) < BandIndex(B[j].band)
  BY <1>1, <1>4, OrderJoined
<1>6. Len(B) \in 1..3
  BY <1>1, <1>4, BandsFacts DEF BandsOf
<1>7. \A i \in DOMAIN B : KeepsRisks(B[i], Members(S, B[i].horizons))
  BY <1>4, BandsAccepted
<1>8. KeepsRisks(r, S) /\ r.breakdown = RiskLevels(r.volatility, r.manipulation)
  <2>1. \A i \in DOMAIN S : SteadyRisks(S[i])
    BY DEF WellFormed
  <2> QED
    BY <1>1, <1>3, <2>1, KeepsItsRisks
<1>9. Len(Horizons(S)) \in 2..8 /\ IsInjective(Horizons(S))
  <2>1. /\ Len(Horizons(S)) = Len(S) /\ DOMAIN Horizons(S) = DOMAIN S
        /\ \A i \in DOMAIN S : Horizons(S)[i] = S[i].horizon
    BY <1>1, HorizonsAre
  <2>2. \A i, j \in DOMAIN S : S[i].horizon = S[j].horizon => i = j
    BY <1>1, HorizonsDiffer
  <2> QED
    BY <1>1, <2>1, <2>2 DEF IsInjective
<1> QED
  BY <1>2, <1>3, <1>4, <1>5, <1>6, <1>7, <1>8, <1>9 DEF DecisionAccepted

(* The last check, on horizons and weights against the batch, passes too.  *)
LEMMA SignalsDecide ==
  ASSUME NEW S, WellFormed(S), ConflictsRegister, AuthoritiesCompare
  PROVE  Checked(Horizons(S), S, Evaluate(S)) # NoDecision
<1>1. PICK r : r = Evaluate(S)
  OBVIOUS
<1>2. \A i \in DOMAIN S : SignalAccepted(S[i])
  BY DEF WellFormed, Heard, Signalled, IsSignal
<1>3. SignalsOrdered(S)
  BY DEF WellFormed, Lined, Ascending, SignalsOrdered
<1>4. \A i \in DOMAIN r.bands : BandAccepted(r.bands[i])
  <2>1. r.bands = BandDecisions(S)
    BY <1>1, MoreFields
  <2> QED
    BY <2>1, BandsAccepted
<1>5. DecisionAccepted(r, Horizons(S), S)
  BY <1>1, DecisionIsAccepted
<1>6. EvidenceAccepted(Evidence(S), Horizons(S), S)
  BY EvidenceIsAccepted DEF WellFormed, Heard
<1>7. Checked(Horizons(S), S, r) = r
  BY <1>2, <1>3, <1>4, <1>5, <1>6 DEF Checked
<1>8. DOMAIN r # {} /\ DOMAIN << >> = {}
  BY <1>1, MoreFields
<1> QED
  BY <1>1, <1>7, <1>8 DEF NoDecision

-----------------------------------------------------------------------------
(* Every analysis has its decision *)

(* The results of the Cells are within their bounds; and none of their     *)
(* risks is rounded across a threshold, as the hairline scenario's is.     *)
ResultsInBounds ==
  \A s \in Scenarios : \A v \in s.views : IsView(v)
NoRiskAtAThreshold ==
  \A s \in Scenarios : \A v \in s.views : \A i \in DOMAIN v : SteadyRisks(v[i])

LEMMA BatchHorizons ==
  ASSUME IInv, pc = "analysed"
  PROVE  /\ Len(Order) \in 2..8 /\ DOMAIN Order = 1..Len(Order)
         /\ \A i \in 1..Len(Order) : Duration[Order[i]] \in Int /\ Duration[Order[i]] > 0
         /\ \A i, j \in 1..Len(Order) : i < j => Duration[Order[i]] < Duration[Order[j]]
<1>1. scenario \in Scenarios /\ Submittable
  BY DEF IInv, SequencesHold
<1>2. DOMAIN Order = 1..Len(Order) /\ Len(Order) = Len(request.children)
  BY <1>1, OrderFacts
<1>3. /\ Len(request.children) \in 2..8
      /\ \A i \in DOMAIN request.children : Duration[request.children[i].horizon] > 0
      /\ Strictly(DurationsOf(request))
  BY <1>1 DEF Submittable, RequestAccepted, ChildAccepted, MinimumHorizons, MaximumHorizons
<1>4. Order = [i \in DOMAIN request.children |-> request.children[i].horizon]
  BY DEF Order, OrderOf
<1>5. DurationsOf(request) = [i \in DOMAIN request.children |-> Duration[request.children[i].horizon]]
  BY DEF DurationsOf
<1>6. ASSUME NEW i \in 1..Len(Order) PROVE Duration[Order[i]] \in Int
  <2>1. i \in DOMAIN request.children /\ Order[i] = request.children[i].horizon
    BY <1>2, <1>4
  <2>2. request.children[i].horizon \in DOMAIN Duration
    BY <1>1, <2>1, ScenarioAssumption DEF request
  <2> QED
    BY <2>1, <2>2, DurationAssumption
<1>7. \A i \in 1..Len(Order) : Duration[Order[i]] > 0
  BY <1>2, <1>3, <1>4
<1>8. \A i, j \in 1..Len(Order) : i < j => Duration[Order[i]] < Duration[Order[j]]
  <2> SUFFICES ASSUME NEW i \in 1..Len(Order), NEW j \in 1..Len(Order), i < j
               PROVE  Duration[Order[i]] < Duration[Order[j]]
    OBVIOUS
  <2>1. i \in DOMAIN request.children /\ j \in DOMAIN request.children
    BY <1>2, <1>4
  <2>2. i \in DOMAIN DurationsOf(request) /\ j \in DOMAIN DurationsOf(request)
    BY <1>5, <2>1
  <2>3. DurationsOf(request)[i] < DurationsOf(request)[j]
    BY <1>3, <2>2 DEF Strictly
  <2>4. /\ DurationsOf(request)[i] = Duration[request.children[i].horizon]
        /\ DurationsOf(request)[j] = Duration[request.children[j].horizon]
    BY <1>5, <2>1
  <2>5. Order[i] = request.children[i].horizon /\ Order[j] = request.children[j].horizon
    BY <1>4, <2>1
  <2> QED
    BY <2>3, <2>4, <2>5
<1> QED
  BY <1>2, <1>3, <1>6, <1>7, <1>8

(* What a batch hands to the policy: one signal per horizon, short to      *)
(* long.                                                                   *)
LEMMA SignalsAreWell ==
  ASSUME IInv, DecisionInv, pc = "analysed", ResultsInBounds, NoRiskAtAThreshold
  PROVE  WellFormed(Signals) /\ Horizons(Signals) = Order
<1>1. scenario \in Scenarios /\ ReportsInOrder /\ Len(completed) = Len(Order)
  <2>1. pc \in Ended
    BY DEF Ended
  <2>2. SequencesHold /\ StageHolds
    BY DEF IInv
  <2>3. Len(completed) = Len(Order)
    BY <2>1, <2>2 DEF StageHolds
  <2> QED
    BY <2>2, <2>3 DEF SequencesHold
<1>2. PICK n \in 2..8 : n = Len(Order)
  BY BatchHorizons
<1>3. /\ Len(completed) = n /\ DOMAIN Order = 1..n
      /\ \A i \in 1..n : Duration[Order[i]] \in Int /\ Duration[Order[i]] > 0
      /\ \A i, j \in 1..n : i < j => Duration[Order[i]] < Duration[Order[j]]
  BY <1>1, <1>2, BatchHorizons
<1>4. PICK S : S = Signals
  OBVIOUS
<1>5. pc \in Ended
  BY DEF Ended
<1>6. /\ IsSeq(S) /\ Len(S) = n /\ DOMAIN S = 1..n
      /\ \A i \in 1..n :
           LET d == completed[i].decision IN
           S[i] = [horizon |-> completed[i].horizon, direction |-> d.direction,
                   score |-> d.score, strength |-> d.strength, confidence |-> d.confidence,
                   volatility |-> d.volatility, manipulation |-> d.manipulation]
  BY <1>3, <1>4, <1>5, SignalsFacts
<1>7. ASSUME NEW i \in 1..n
      PROVE  /\ S[i].horizon = Order[i] /\ IsSignal(S[i]) /\ Spoken(S[i]) /\ SteadyRisks(S[i])
  <2>1. PICK d : d = completed[i].decision
    OBVIOUS
  <2>2. PICK v \in scenario.views : d = Assessment(completed[i].horizon, v)
    BY <1>3, <2>1 DEF DecisionInv
  <2>3. IsView(v) /\ \A k \in DOMAIN v : SteadyRisks(v[k])
    BY <1>1 DEF ResultsInBounds, NoRiskAtAThreshold
  <2>4. PICK s : s = S[i]
    OBVIOUS
  <2>5. s = [horizon |-> completed[i].horizon, direction |-> d.direction,
             score |-> d.score, strength |-> d.strength, confidence |-> d.confidence,
             volatility |-> d.volatility, manipulation |-> d.manipulation]
    BY <1>6, <2>1, <2>4
  <2>6. /\ s.horizon = completed[i].horizon /\ s.direction = d.direction /\ s.score = d.score
        /\ s.strength = d.strength /\ s.confidence = d.confidence
        /\ s.volatility = d.volatility /\ s.manipulation = d.manipulation
    BY <2>5
  <2>7. s.horizon = Order[i]
    BY <1>1, <1>3, <2>6 DEF ReportsInOrder
  <2>8. /\ d.score \in -Full..Full /\ d.strength \in 0..Full /\ d.confidence \in 0..Full
        /\ d.volatility \in 0..100 * RiskPoint /\ d.manipulation \in 0..100 * RiskPoint
        /\ Spoken(d)
    BY <2>2, <2>3, AssessmentSays
  <2>9. Spoken(s)
    BY <2>6, <2>8 DEF Spoken
  <2>10. SteadyRisks(d)
    BY <2>2, <2>3, AssessmentSteady
  <2>11. SteadyRisks(s)
    BY <2>6, <2>10 DEF SteadyRisks
  <2>12. (s.direction = "bullish" => s.score > 0) /\ (s.direction = "bearish" => s.score < 0)
    <3>0. s.score \in Int
      <4>1. -Full..Full \subseteq Int
        BY Scales
      <4>2. s.score \in -Full..Full
        BY <2>6, <2>8, Zenon
      <4> QED
        BY <4>1, <4>2, Zenon
    <3>1. PICK x \in Int : x = s.score
      BY <3>0
    <3> QED
      BY <2>9, <3>1 DEF Spoken
  <2>13. SignalAccepted(s)
    <3>1. Duration[s.horizon] > 0
      BY <1>3, <2>7
    <3>2. s.direction \in Directional \cup {"neutral", "conflict"}
      BY <2>9 DEF Spoken, Directions, Directional
    <3> QED
      BY <2>6, <2>8, <2>12, <3>1, <3>2 DEF SignalAccepted
  <2>14. IsSignal(s)
    BY <2>5, <2>6, <2>13 DEF IsSignal
  <2> QED
    BY <2>4, <2>7, <2>9, <2>11, <2>14
<1>8. Signalled(S)
  BY <1>6, <1>7 DEF Signalled
<1>9. Heard(S)
  BY <1>6, <1>7, <1>8 DEF Heard
<1>10. Lined(S)
  BY <1>3, <1>6, <1>7 DEF Lined, Ascending
<1>11. WellFormed(S)
  BY <1>6, <1>7, <1>9, <1>10 DEF WellFormed
<1>12. Horizons(S) = Order
  <2>1. Horizons(S) = [i \in 1..n |-> S[i].horizon]
    BY <1>6 DEF Horizons
  <2>2. Order = [i \in 1..n |-> Order[i]]
    <3>1. Order = [i \in DOMAIN request.children |-> request.children[i].horizon]
      BY DEF Order, OrderOf
    <3> QED
      BY <1>3, <3>1
  <2> QED
    BY <1>7, <2>1, <2>2
<1> QED
  BY <1>4, <1>11, <1>12

(* Every analysis that composes has its decision: the checks               *)
(* HorizonBandDecision and HorizonDecision make as they are constructed,   *)
(* and those HorizonDecisionCell makes against the batch, refuse nothing   *)
(* that HorizonDecisionPolicy.evaluate makes of the reports, whatever they *)
(* say. It takes results within the Cells' bounds, no risk rounded across  *)
(* a threshold (with one the decision is refused: run horizon_hairline), a *)
(* policy whose least confidence does not let a material conflict round to *)
(* nothing, and authorities of which none outweighs another out of sight.  *)
(* The last two are about rounding, which is coarser here than in the      *)
(* code.                                                                   *)
THEOREM EveryAnalysisHasADecision ==
  ASSUME ResultsInBounds, NoRiskAtAThreshold, ConflictsRegister, AuthoritiesCompare
  PROVE  Spec => []EveryAnalysisIsDecided
<1>1. Init => EveryAnalysisIsDecided
  BY DEF Init, EveryAnalysisIsDecided
<1>2. IInv /\ DecisionInv /\ EveryAnalysisIsDecided /\ [Next]_vars => EveryAnalysisIsDecided'
  <2> SUFFICES ASSUME IInv, DecisionInv, EveryAnalysisIsDecided, [Next]_vars
               PROVE  EveryAnalysisIsDecided'
    OBVIOUS
  <2>1. CASE Decide
    <3>1. pc = "analysed"
      BY <2>1 DEF Decide
    <3>2. WellFormed(Signals) /\ Horizons(Signals) = Order /\ analysis.order = Order
      BY <3>1, SignalsAreWell, SignalsFacts DEF Ended
    <3>3. Checked(Order, Signals, Evaluate(Signals)) # NoDecision
      BY <3>2, SignalsDecide
    <3>4. decision' = Checked(Order, Signals, Evaluate(Signals))
      BY <2>1, <3>2 DEF Decide, Analyze, Signals
    <3>5. pc' = "decided"
      BY <2>1, <3>3, <3>4 DEF Decide
    <3> QED
      BY <3>5 DEF EveryAnalysisIsDecided
  <2>2. CASE UNCHANGED vars
    BY <2>2 DEF EveryAnalysisIsDecided, vars
  <2>3. CASE Submit
    BY <2>3 DEF Submit, EveryAnalysisIsDecided
  <2>4. CASE FactoryFails \/ GraphDiffers \/ FormulasDiffer \/ ChildFails
             \/ ReportOutOfScope \/ ReportDrifted
    BY <2>4 DEF FactoryFails, GraphDiffers, FormulasDiffer, ChildFails, ReportOutOfScope,
                ReportDrifted, Raise, EveryAnalysisIsDecided
  <2>5. CASE Prepare
    BY <2>5 DEF Prepare, EveryAnalysisIsDecided
  <2>6. CASE ReportCompleted
    BY <2>6 DEF ReportCompleted, EveryAnalysisIsDecided
  <2>7. CASE Compose
    BY <2>7 DEF Compose, EveryAnalysisIsDecided
  <2> QED
    BY <2>1, <2>2, <2>3, <2>4, <2>5, <2>6, <2>7 DEF Next
<1> QED
  BY <1>1, <1>2, DecisionInvariance, PTL DEF Spec
=============================================================================
