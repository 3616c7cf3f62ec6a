------------------------- MODULE NodeExecutionProofs -------------------------
(***************************************************************************)
(* Theorems about NodeExecution, for every ladder, router, Cell and        *)
(* foreign executor that NodeAssumption admits, and any number of          *)
(* attempts.                                                               *)
(***************************************************************************)
EXTENDS NodeExecution, SequenceTheorems, TLAPS

-----------------------------------------------------------------------------
(* Sequences *)

LEMMA AppendLast ==
  ASSUME NEW S, NEW s \in Seq(S), NEW e \in S
  PROVE  /\ Append(s, e) \in Seq(S)
         /\ Len(Append(s, e)) = Len(s) + 1
         /\ Last(Append(s, e)) = e
         /\ e \in Range(Append(s, e))
         /\ Range(s) \subseteq Range(Append(s, e))
<1>1. /\ Append(s, e) \in Seq(S)
      /\ Len(Append(s, e)) = Len(s) + 1
      /\ \A i \in 1..Len(s) : Append(s, e)[i] = s[i]
      /\ Append(s, e)[Len(s) + 1] = e
  BY AppendProperties
<1>2. Len(s) \in Nat /\ DOMAIN s = 1..Len(s)
  BY LenProperties
<1>3. DOMAIN Append(s, e) = 1..(Len(s) + 1)
  BY <1>1, LenProperties
<1>4. Last(Append(s, e)) = e
  BY <1>1 DEF Last
<1>5. e \in Range(Append(s, e))
  BY <1>1, <1>2, <1>3 DEF Range
<1>6. Range(s) \subseteq Range(Append(s, e))
  BY <1>1, <1>2, <1>3 DEF Range
<1> QED
  BY <1>1, <1>4, <1>5, <1>6

LEMMA ConcatLast ==
  ASSUME NEW S, NEW s \in Seq(S), NEW p \in Seq(S), NEW e \in S
  PROVE  LET all == s \o p \o <<e>> IN
         /\ all \in Seq(S) /\ all # << >>
         /\ Last(all) = e
         /\ \A i \in DOMAIN all : all[i] \in Range(s) \cup Range(p) \cup {e}
<1> DEFINE sp == s \o p
           last == <<e>>
           all == sp \o last
<1>1. /\ sp \in Seq(S) /\ Len(sp) = Len(s) + Len(p)
      /\ \A i \in 1..(Len(s) + Len(p)) : sp[i] = IF i <= Len(s) THEN s[i] ELSE p[i - Len(s)]
  BY ConcatProperties
<1>2. last \in Seq(S) /\ Len(last) = 1 /\ last[1] = e
  OBVIOUS
<1>3. Len(s) \in Nat /\ DOMAIN s = 1..Len(s) /\ Len(p) \in Nat /\ DOMAIN p = 1..Len(p)
  BY LenProperties
<1> HIDE DEF sp, last
<1>4. /\ all \in Seq(S) /\ Len(all) = Len(sp) + 1
      /\ \A i \in 1..Len(sp) : all[i] = sp[i]
      /\ all[Len(sp) + 1] = e
  <2>1. /\ all \in Seq(S) /\ Len(all) = Len(sp) + Len(last)
        /\ \A i \in 1..(Len(sp) + Len(last)) :
             all[i] = IF i <= Len(sp) THEN sp[i] ELSE last[i - Len(sp)]
    <3>1. sp \in Seq(S) /\ last \in Seq(S)
      BY <1>1, <1>2
    <3> QED
      BY <3>1, ConcatProperties
  <2>2. Len(sp) \in Nat
    BY <1>1, <1>3
  <2> HIDE DEF all
  <2>3. all[Len(sp) + 1] = last[Len(sp) + 1 - Len(sp)]
    BY <2>1, <2>2, <1>2
  <2> QED
    BY <2>1, <2>2, <2>3, <1>2
<1> HIDE DEF all
<1>5. DOMAIN all = 1..(Len(sp) + 1) /\ all # << >>
  BY <1>1, <1>3, <1>4, LenProperties
<1>6. Last(all) = e
  BY <1>1, <1>2, <1>3, <1>4 DEF Last
<1>7. \A i \in DOMAIN all : all[i] \in Range(s) \cup Range(p) \cup {e}
  <2> SUFFICES ASSUME NEW i \in 1..(Len(sp) + 1)
               PROVE  all[i] \in Range(s) \cup Range(p) \cup {e}
    BY <1>5
  <2>1. CASE i <= Len(s)
    <3>1. all[i] = s[i]
      BY <2>1, <1>1, <1>3, <1>4
    <3> QED
      BY <3>1, <2>1, <1>3 DEF Range
  <2>2. CASE Len(s) < i /\ i <= Len(sp)
    <3>1. i - Len(s) \in 1..Len(p) /\ all[i] = p[i - Len(s)]
      BY <2>2, <1>1, <1>3, <1>4
    <3> QED
      BY <3>1, <1>3 DEF Range
  <2>3. CASE i = Len(sp) + 1
    BY <2>3, <1>1, <1>2, <1>3, <1>4
  <2> QED
    BY <2>1, <2>2, <2>3, <1>1, <1>3
<1> QED
  BY <1>4, <1>5, <1>6, <1>7 DEF all, sp, last

-----------------------------------------------------------------------------
(* Types *)

ExecutorsOf(w) == IF w.routed THEN Range(w.services) \cup Range(w.runtimes) ELSE {w.sole}
Identities ==
  {Nobody}
    \cup (UNION {Range(w.ladder) : w \in Worlds})
    \cup (UNION {{[service |-> e.service, runtime |-> "python_local", formula |-> w.manifest] :
                    e \in ExecutorsOf(w)} : w \in Worlds})
Formulas == {Formula} \cup {w.manifest : w \in Worlds}

TraceRecords ==
  [span : Nat, own_run : BOOLEAN, who : Identities, formula : Formulas,
   status : {"succeeded", "failed"}, planned : Identities, fallback : Int]
OutcomeRecords ==
  [trace : TraceRecords, error : Errors, result : {"none", "fit", "alien"},
   prior : Seq(TraceRecords), silent : BOOLEAN]
HistoryRecords ==
  [asked : Identities, silent : BOOLEAN, claim : Identities, run : BOOLEAN,
   fresh : BOOLEAN, good : BOOLEAN]

(* The latest attempt has been answered. *)
Answered == {"verify", "record", "next", "audit", "done"}

(* An outcome has a result exactly when it has no error, and its trace     *)
(* then says so; a result has the planned formula whoever returned it; an  *)
(* attempt that nobody answered names nobody.                              *)
Sound(o) ==
  /\ o \in OutcomeRecords
  /\ o.trace.status = (IF o.error = "none" THEN "succeeded" ELSE "failed")
  /\ (o.result = "none") = (o.error # "none")
  /\ o.error = "none" => o.trace.formula = Formula
  /\ o.silent => o.trace.who = Nobody
  /\ \A i \in DOMAIN o.prior : o.prior[i].span > MaxAttempts

TypesHold ==
  /\ world \in Worlds
  /\ pc \in Places
  /\ at \in DOMAIN world.ladder
  /\ pc \in {"executing", "verify"} => using \in ExecutorsOf(world)
  /\ pc \in Answered => Sound(outcome)
  /\ traces \in Seq(TraceRecords)
  /\ history \in Seq(HistoryRecords)
  /\ Len(history) <= MaxAttempts
  /\ pc \in {"attempt", "executing", "verify", "record"} => Len(history) < MaxAttempts
  /\ verdict \in {"pending", "accepted", "failed", "rejected", "lost"}
  /\ (pc = "done") = (verdict # "pending")

LEMMA AskedType ==
  ASSUME TypesHold
  PROVE  /\ Asked \in Identities /\ Asked.formula = Formula
         /\ world.manifest \in Formulas
         /\ Range(world.ladder) \subseteq Identities
         /\ Nobody \in Identities
         /\ world.routed \in BOOLEAN
         /\ Len(history) \in Nat /\ Attempt \in Nat /\ MaxAttempts \in Nat \ {0}
<1>1. world \in Worlds /\ at \in DOMAIN world.ladder
  BY DEF TypesHold
<1>2. /\ world.ladder \in Seq(Range(world.ladder))
      /\ world.routed \in BOOLEAN /\ MaxAttempts \in Nat \ {0}
      /\ \A b \in Range(world.ladder) : b.formula = Formula
  BY <1>1, NodeAssumption
<1>3. Asked \in Range(world.ladder)
  BY <1>1 DEF Asked, Range
<1>4. Range(world.ladder) \subseteq Identities /\ world.manifest \in Formulas
  BY <1>1 DEF Identities, Formulas
<1>5. Len(history) \in Nat
  BY LenProperties DEF TypesHold
<1>6. Nobody \in Identities
  BY DEF Identities
<1>7. Attempt \in Nat
  BY <1>5 DEF Attempt
<1> QED
  BY <1>2, <1>3, <1>4, <1>5, <1>6, <1>7

LEMMA TraceType ==
  ASSUME TypesHold, NEW who \in Identities, NEW status \in {"succeeded", "failed"}
  PROVE  /\ Trace(who, status) \in TraceRecords
         /\ Trace(who, status).status = status
         /\ Trace(who, status).who = who
         /\ Trace(who, status).formula = world.manifest
  BY AskedType DEF Trace, TraceRecords

LEMMA ForeignType ==
  ASSUME TypesHold, NEW status \in {"succeeded", "failed"}, NEW t \in ForeignTraces(status)
  PROVE  t \in TraceRecords /\ t.status = status /\ t.formula = Formula
<1>0. PICK claim \in world.claims : t \in
        {[Trace(who, status) EXCEPT !.own_run = (claim # "other run"),
                                    !.formula = Formula, !.planned = Nobody] :
           who \in Named(claim)}
  BY DEF ForeignTraces
<1>1. PICK who \in Named(claim) :
        t = [Trace(who, status) EXCEPT !.own_run = (claim # "other run"),
                                       !.formula = Formula, !.planned = Nobody]
  BY <1>0
<1>2. claim \in {"asked", "sibling", "nobody", "other run"}
  BY NodeAssumption DEF TypesHold
<1>3. who \in Identities
  BY <1>1, <1>2, AskedType DEF Named
<1>4. Trace(who, status) \in TraceRecords /\ Trace(who, status).status = status
  BY <1>3, TraceType
<1>5. Formula \in Formulas /\ Nobody \in Identities
  BY AskedType DEF Formulas
<1> QED
  BY <1>1, <1>4, <1>5 DEF TraceRecords

(* The three shapes an answer is built in. *)
LEMMA FailureSound ==
  ASSUME TypesHold, NEW t \in TraceRecords, t.status = "failed",
         NEW kind \in Errors \ {"none"}
  PROVE  Sound(Outcome(t, kind, "none"))
<1>1. << >> \in Seq(TraceRecords) /\ DOMAIN (<< >>) = {}
  OBVIOUS
<1> QED
  BY <1>1 DEF Sound, Outcome, OutcomeRecords

LEMMA ResultSound ==
  ASSUME TypesHold, NEW t \in TraceRecords, t.status = "succeeded", t.formula = Formula,
         NEW result \in {"fit", "alien"}
  PROVE  Sound(Outcome(t, "none", result))
<1>1. << >> \in Seq(TraceRecords) /\ DOMAIN (<< >>) = {}
  OBVIOUS
<1> QED
  BY <1>1 DEF Sound, Outcome, OutcomeRecords, Errors

LEMMA BoundarySound ==
  ASSUME TypesHold, NEW kind \in Errors \ {"none"}
  PROVE  Sound(BoundaryFailure(kind)) /\ BoundaryFailure(kind).error = kind
<1>1. Trace(Nobody, "failed") \in TraceRecords /\ Trace(Nobody, "failed").who = Nobody
      /\ Trace(Nobody, "failed").status = "failed"
  BY AskedType, TraceType
<1>2. << >> \in Seq(TraceRecords) /\ DOMAIN (<< >>) = {}
  OBVIOUS
<1> QED
  BY <1>1, <1>2 DEF BoundaryFailure, Outcome, Sound, OutcomeRecords
-----------------------------------------------------------------------------
(* The inductive invariant *)

(* The last record and the last trace are those of the outcome at hand. *)
LastHolds ==
  pc \in {"next", "audit"} =>
    /\ history # << >> /\ traces # << >>
    /\ Last(history).good = (outcome.error = "none")
    /\ Last(history).claim = outcome.trace.who
    /\ Last(history).run = outcome.trace.own_run
    /\ Last(traces) = Annotate(outcome.trace)

(* Behind a router, a result that reaches the control is of this very      *)
(* attempt.                                                                *)
RouterHolds ==
  pc \in {"record", "next", "audit"} /\ world.routed /\ outcome.error = "none" =>
    FitsContext(outcome.trace)

IInv == TypesHold /\ LastHolds /\ RouterHolds /\ PlanIsNotEvidence /\ AcceptedIsPlanned

(* What these say is about the attempt's records: a step that leaves them, *)
(* the history and the verdict alone keeps the last two parts.             *)
LEMMA EvidenceKept ==
  ASSUME PlanIsNotEvidence, AcceptedIsPlanned,
         UNCHANGED <<traces, history>>, verdict' # "accepted"
  PROVE  PlanIsNotEvidence' /\ AcceptedIsPlanned'
  BY DEF PlanIsNotEvidence, AcceptedIsPlanned

LEMMA InitInv == Init => IInv
<1> SUFFICES ASSUME Init PROVE IInv
  OBVIOUS
<1>1. /\ << >> \in Seq(TraceRecords) /\ << >> \in Seq(HistoryRecords)
      /\ Len(<< >>) = 0 /\ DOMAIN (<< >>) = {}
  OBVIOUS
<1>2. 1 \in DOMAIN world.ladder /\ MaxAttempts \in Nat \ {0}
  <2>1. /\ world.ladder \in Seq(Range(world.ladder)) /\ world.ladder # << >>
        /\ MaxAttempts \in Nat \ {0}
    BY NodeAssumption DEF Init
  <2>2. Len(world.ladder) \in Nat \ {0} /\ DOMAIN world.ladder = 1..Len(world.ladder)
    BY <2>1, EmptySeq, LenProperties
  <2> QED
    BY <2>1, <2>2
<1>3. TypesHold
  BY <1>1, <1>2 DEF Init, TypesHold, Places, Answered
<1> QED
  BY <1>1, <1>3 DEF Init, IInv, LastHolds, RouterHolds, PlanIsNotEvidence, AcceptedIsPlanned

(* An executor's answer, whatever it is: the router judges it, or it goes  *)
(* straight to the control.                                                *)
LEMMA AnswerInv ==
  ASSUME IInv, pc = "executing", NEW o, Sound(o), Answer(o),
         UNCHANGED <<world, at, using, traces, history, verdict>>
  PROVE  IInv'
<1>1. TypesHold'
  BY DEF IInv, TypesHold, Answer, Answered, Places, Sound
<1>2. PlanIsNotEvidence' /\ AcceptedIsPlanned'
  BY EvidenceKept DEF IInv, TypesHold
<1>3. LastHolds' /\ RouterHolds'
  BY DEF Answer, LastHolds, RouterHolds
<1> QED
  BY <1>1, <1>2, <1>3 DEF IInv

LEMMA RouteInv == IInv /\ Route => IInv'
<1> SUFFICES ASSUME IInv, Route PROVE IInv'
  OBVIOUS
<1> USE DEF Route
<1>1. TypesHold
  BY DEF IInv
<1>2. Sound(BoundaryFailure("routing")) /\ BoundaryFailure("routing").error = "routing"
  BY <1>1, BoundarySound DEF Errors
<1>3. RouteOf(Asked) \subseteq ExecutorsOf(world)
  BY <1>1, AskedType DEF RouteOf, ExecutorsOf, Range
<1>4. PlanIsNotEvidence' /\ AcceptedIsPlanned'
  BY <1>1, EvidenceKept DEF IInv, TypesHold
<1>5. CASE RouteOf(Asked) = {}
  <2>1. outcome' = BoundaryFailure("routing") /\ pc' = "record"
    BY <1>5
  <2>2. TypesHold'
    BY <1>1, <1>2, <2>1 DEF TypesHold, Places, Answered, Sound
  <2>3. LastHolds' /\ RouterHolds'
    BY <1>2, <2>1 DEF LastHolds, RouterHolds
  <2> QED
    BY <1>4, <2>2, <2>3 DEF IInv
<1>6. CASE RouteOf(Asked) # {}
  <2>1. using' \in ExecutorsOf(world) /\ pc' = "executing" /\ outcome' = outcome
    BY <1>3, <1>6
  <2>2. TypesHold'
    BY <1>1, <2>1 DEF TypesHold, Places, Answered, ExecutorsOf
  <2>3. LastHolds' /\ RouterHolds'
    BY <2>1 DEF LastHolds, RouterHolds
  <2> QED
    BY <1>4, <2>2, <2>3 DEF IInv
<1> QED
  BY <1>5, <1>6

LEMMA ExecuteLocalInv == IInv /\ ExecuteLocal => IInv'
<1> SUFFICES ASSUME IInv, ExecuteLocal PROVE IInv'
  OBVIOUS
<1> DEFINE who == Actual(using.service)
           failure(kind) == Outcome(Trace(who, "failed"), kind, "none")
<1>1. TypesHold /\ pc = "executing"
  BY DEF IInv, ExecuteLocal
<1>2. who \in Identities
  <2>1. world \in Worlds /\ using \in ExecutorsOf(world)
    BY <1>1 DEF TypesHold
  <2> QED
    BY <2>1 DEF Actual, Identities
<1>3. \A status \in {"succeeded", "failed"} :
        /\ Trace(who, status) \in TraceRecords
        /\ Trace(who, status).status = status
        /\ Trace(who, status).formula = world.manifest
  BY <1>1, <1>2, TraceType
<1>4. \A kind \in {"contract", "execution"} : Sound(failure(kind))
  BY <1>1, <1>3, FailureSound DEF Errors
<1>5. LocalAccepts(using.service) => Sound(Outcome(Trace(who, "succeeded"), "none", "fit"))
  <2>1. LocalAccepts(using.service) => world.manifest = Formula
    BY <1>1, AskedType DEF LocalAccepts, Actual
  <2> QED
    BY <1>1, <1>3, <2>1, ResultSound
<1>6. PICK o : Sound(o) /\ Answer(o)
  <2>1. CASE ~LocalAccepts(using.service)
    BY <2>1, <1>4 DEF ExecuteLocal
  <2>2. CASE LocalAccepts(using.service)
    <3>1. PICK did \in world.cell :
            Answer(CASE did = "result" -> Outcome(Trace(who, "succeeded"), "none", "fit")
                     [] did = "alien"  -> failure("contract")
                     [] did = "raises" -> failure("execution"))
      BY <2>2 DEF ExecuteLocal
    <3>2. did \in {"result", "alien", "raises"}
      BY <1>1, NodeAssumption DEF TypesHold
    <3> QED
      BY <3>1, <3>2, <2>2, <1>4, <1>5
  <2> QED
    BY <2>1, <2>2
<1>7. UNCHANGED <<world, at, using, traces, history, verdict>>
  BY DEF ExecuteLocal
<1> QED
  BY <1>1, <1>6, <1>7, AnswerInv

LEMMA ForeignRaisesInv == IInv /\ ForeignRaises => IInv'
<1> SUFFICES ASSUME IInv, ForeignRaises PROVE IInv'
  OBVIOUS
<1> USE DEF ForeignRaises
<1>1. TypesHold
  BY DEF IInv
<1>2. Sound(BoundaryFailure("dispatch")) /\ BoundaryFailure("dispatch").error = "dispatch"
  BY <1>1, BoundarySound DEF Errors
<1>3. TypesHold'
  BY <1>1, <1>2 DEF TypesHold, Places, Answered, Sound
<1>4. LastHolds' /\ RouterHolds'
  BY <1>2 DEF LastHolds, RouterHolds
<1>5. PlanIsNotEvidence' /\ AcceptedIsPlanned'
  BY <1>1, EvidenceKept DEF IInv, TypesHold
<1> QED
  BY <1>3, <1>4, <1>5 DEF IInv

LEMMA ForeignAnswersInv == IInv /\ ForeignAnswers => IInv'
<1> SUFFICES ASSUME IInv, ForeignAnswers PROVE IInv'
  OBVIOUS
<1>1. TypesHold /\ pc = "executing"
  BY DEF IInv, ForeignAnswers
<1>2. \A status \in {"succeeded", "failed"} : \A t \in ForeignTraces(status) :
        t \in TraceRecords /\ t.status = status /\ t.formula = Formula
  BY <1>1, ForeignType
<1>3. MaxAttempts \in Nat \ {0} /\ Attempt \in Nat \ {0} /\ Len(history) \in Nat
  BY <1>1, AskedType DEF Attempt
<1>4. PICK o : Sound(o) /\ Answer(o)
  <2>1. ASSUME NEW t \in ForeignTraces("succeeded"), NEW result \in {"fit", "alien"}
        PROVE  Sound(Outcome(t, "none", result))
    BY <1>1, <1>2, ResultSound
  <2>2. ASSUME NEW t \in ForeignTraces("failed"), NEW kind \in {"execution", "dispatch"}
        PROVE  Sound(Outcome(t, kind, "none"))
    BY <1>1, <1>2, FailureSound DEF Errors
  <2>3. ASSUME NEW t \in ForeignTraces("succeeded"), NEW old \in 1..Len(history)
        PROVE  Sound(Outcome([t EXCEPT !.span = old], "none", "fit"))
    <3>1. /\ [t EXCEPT !.span = old] \in TraceRecords
          /\ [t EXCEPT !.span = old].status = "succeeded"
          /\ [t EXCEPT !.span = old].formula = Formula
      BY <1>2, <1>3 DEF TraceRecords
    <3> QED
      BY <1>1, <3>1, ResultSound
  <2>4. ASSUME NEW t \in ForeignTraces("succeeded"), NEW p \in ForeignTraces("failed")
        PROVE  Sound([Outcome(t, "none", "fit") EXCEPT
                        !.prior = <<[p EXCEPT !.span = MaxAttempts + Attempt]>>])
    <3> DEFINE q == [p EXCEPT !.span = MaxAttempts + Attempt]
    <3>1. q \in TraceRecords /\ q.span > MaxAttempts
      BY <1>2, <1>3 DEF TraceRecords
    <3>2. Sound(Outcome(t, "none", "fit"))
      BY <2>1
    <3> HIDE DEF q
    <3>3. /\ <<q>> \in Seq(TraceRecords)
          /\ \A i \in DOMAIN <<q>> : <<q>>[i].span > MaxAttempts
      BY <3>1
    <3> DEFINE pp == <<q>>
    <3> HIDE DEF pp
    <3>4. Sound([Outcome(t, "none", "fit") EXCEPT !.prior = pp])
      BY <3>2, <3>3 DEF Sound, OutcomeRecords, pp
    <3> QED
      BY <3>4 DEF pp, q
  <2> QED
    BY <2>1, <2>2, <2>3, <2>4 DEF ForeignAnswers
<1>5. UNCHANGED <<world, at, using, traces, history, verdict>>
  BY DEF ForeignAnswers
<1> QED
  BY <1>1, <1>4, <1>5, AnswerInv

LEMMA VerifyInv == IInv /\ Verify => IInv'
<1> SUFFICES ASSUME IInv, Verify PROVE IInv'
  OBVIOUS
<1> DEFINE routed == [outcome EXCEPT !.trace.planned = Asked]
           refused == [routed EXCEPT !.trace.status = "failed",
                                     !.error = "contract", !.result = "none"]
<1>1. TypesHold /\ Sound(outcome)
  BY DEF IInv, Verify, TypesHold, Answered
<1>2. /\ Asked \in Identities
      /\ outcome \in OutcomeRecords /\ outcome.trace \in TraceRecords
  BY <1>1, AskedType DEF Sound, OutcomeRecords
<1>3. /\ routed \in OutcomeRecords
      /\ routed.trace = [outcome.trace EXCEPT !.planned = Asked]
      /\ routed.error = outcome.error /\ routed.result = outcome.result
      /\ routed.prior = outcome.prior /\ routed.silent = outcome.silent
  BY <1>2 DEF OutcomeRecords, TraceRecords
<1>4. /\ routed.trace \in TraceRecords
      /\ routed.trace.status = outcome.trace.status /\ routed.trace.who = outcome.trace.who
      /\ routed.trace.formula = outcome.trace.formula
      /\ routed.trace.own_run = outcome.trace.own_run
  BY <1>2, <1>3 DEF TraceRecords
<1>5. Sound(routed)
  BY <1>1, <1>3, <1>4 DEF Sound
<1> HIDE DEF routed
<1>6. /\ refused \in OutcomeRecords
      /\ refused.trace = [routed.trace EXCEPT !.status = "failed"]
      /\ refused.error = "contract" /\ refused.result = "none"
      /\ refused.prior = routed.prior /\ refused.silent = routed.silent
  BY <1>3, <1>4 DEF OutcomeRecords, TraceRecords, Errors
<1>7. Sound(refused)
  <2>1. refused.trace.status = "failed" /\ refused.trace.who = routed.trace.who
    BY <1>4, <1>6 DEF TraceRecords
  <2> QED
    BY <1>5, <1>6, <2>1 DEF Sound
<1>8. outcome' = IF FitsContext(outcome.trace) THEN routed ELSE refused
  BY DEF Verify, routed
<1> HIDE DEF refused
<1>9. TypesHold'
  BY <1>1, <1>5, <1>7, <1>8 DEF Verify, TypesHold, Places, Answered, Sound
<1>10. RouterHolds'
  <2>1. outcome'.error = "none" => FitsContext(outcome.trace) /\ outcome' = routed
    BY <1>6, <1>8
  <2> QED
    BY <2>1, <1>4 DEF Verify, RouterHolds, FitsContext, Asked
<1>11. LastHolds' /\ PlanIsNotEvidence' /\ AcceptedIsPlanned'
  BY <1>1, EvidenceKept DEF IInv, Verify, LastHolds, TypesHold
<1> QED
  BY <1>9, <1>10, <1>11 DEF IInv

LEMMA RecordInv == IInv /\ Record => IInv'
<1> SUFFICES ASSUME IInv, Record PROVE IInv'
  OBVIOUS
<1>1. TypesHold /\ Sound(outcome) /\ RouterHolds /\ pc = "record" /\ Len(history) < MaxAttempts
  BY DEF IInv, Record, TypesHold, Answered
<1> DEFINE entry(o) ==
      [asked |-> Asked, silent |-> outcome.silent, claim |-> outcome.trace.who,
       run |-> outcome.trace.own_run,
       fresh |-> outcome.trace.span = Attempt /\ outcome.prior = << >>,
       good |-> o.error = "none"]
<1>2. PICK o \in {outcome, Late(outcome)} :
        /\ outcome' = o
        /\ traces' = traces \o o.prior \o <<Annotate(o.trace)>>
        /\ history' = Append(history, entry(o))
  BY DEF Record
<1>3. pc' = "next" /\ UNCHANGED <<world, at, using, verdict>>
  BY DEF Record
<1>4. /\ outcome \in OutcomeRecords /\ outcome.trace \in TraceRecords
      /\ outcome.prior \in Seq(TraceRecords)
  BY <1>1 DEF Sound, OutcomeRecords
<1>5. /\ Late(outcome) \in OutcomeRecords
      /\ Late(outcome).trace = [outcome.trace EXCEPT !.status = "failed"]
      /\ Late(outcome).error = "timeout" /\ Late(outcome).result = "none"
      /\ Late(outcome).prior = outcome.prior /\ Late(outcome).silent = outcome.silent
  BY <1>4 DEF Late, OutcomeRecords, TraceRecords, Errors
<1>6. /\ o.trace \in TraceRecords /\ o.prior = outcome.prior /\ o.silent = outcome.silent
      /\ o.trace.who = outcome.trace.who /\ o.trace.own_run = outcome.trace.own_run
      /\ o.trace.formula = outcome.trace.formula
      /\ o.trace.span = outcome.trace.span
  BY <1>2, <1>4, <1>5, ZenonT(60) DEF TraceRecords
<1>7. Sound(o)
  <2>1. Late(outcome).trace.status = "failed" /\ Late(outcome).trace.who = outcome.trace.who
    BY <1>4, <1>5 DEF TraceRecords
  <2>2. Sound(Late(outcome))
    BY <1>1, <1>5, <2>1 DEF Sound
  <2> QED
    BY <1>1, <1>2, <2>2
<1> DEFINE mark == Annotate(o.trace)
<1>8. mark \in TraceRecords /\ mark.who = outcome.trace.who /\ mark.span = outcome.trace.span
  <2>1. at \in Nat
    <3>1. world.ladder \in Seq(Range(world.ladder)) /\ at \in DOMAIN world.ladder
      BY <1>1, NodeAssumption DEF TypesHold
    <3> QED
      BY <3>1, LenProperties
  <2> QED
    BY <1>6, <2>1 DEF Annotate, TraceRecords
<1>9. entry(o) \in HistoryRecords
  <2>1. /\ Asked \in Identities /\ outcome.silent \in BOOLEAN
        /\ outcome.trace.who \in Identities /\ outcome.trace.own_run \in BOOLEAN
    BY <1>1, <1>4, AskedType DEF OutcomeRecords, TraceRecords
  <2> QED
    BY <2>1 DEF HistoryRecords
<1>10. /\ entry(o).claim = outcome.trace.who /\ entry(o).silent = outcome.silent
       /\ entry(o).good = (o.error = "none") /\ entry(o).run = outcome.trace.own_run
  OBVIOUS
<1> HIDE DEF entry, mark
<1>11. /\ traces' \in Seq(TraceRecords) /\ traces' # << >> /\ Last(traces') = mark
       /\ \A i \in DOMAIN traces' : traces'[i] \in Range(traces) \cup Range(o.prior) \cup {mark}
  <2>1. traces \in Seq(TraceRecords) /\ o.prior \in Seq(TraceRecords)
    BY <1>1, <1>4, <1>6 DEF TypesHold
  <2>2. traces' = traces \o o.prior \o <<mark>>
    BY <1>2 DEF mark
  <2> QED
    BY <1>8, <2>1, <2>2, ConcatLast
<1>12. /\ history' \in Seq(HistoryRecords) /\ Len(history') = Len(history) + 1
       /\ Last(history') = entry(o) /\ entry(o) \in Range(history')
       /\ Range(history) \subseteq Range(history')
  <2>1. history \in Seq(HistoryRecords)
    BY <1>1 DEF TypesHold
  <2> QED
    BY <1>2, <1>9, <2>1, AppendLast
<1>13. TypesHold'
  <2>1. Len(history) \in Nat /\ MaxAttempts \in Nat
    BY <1>1, AskedType
  <2>2. Sound(o)'
    BY <1>2, <1>7 DEF Sound
  <2> QED
    BY <1>1, <1>2, <1>3, <1>7, <1>11, <1>12, <2>1 DEF TypesHold, Places, Answered, Sound
<1>14. LastHolds'
  <2>1. history' # << >>
    <3>1. Len(history) \in Nat
      BY <1>1, AskedType
    <3> QED
      BY <3>1, <1>12, EmptySeq
  <2>2. Last(traces)' = Annotate(outcome.trace)'
    BY <1>2, <1>3, <1>11 DEF mark, Annotate
  <2>3. /\ Last(history)'.good = (outcome'.error = "none")
        /\ Last(history)'.claim = outcome'.trace.who
        /\ Last(history)'.run = outcome'.trace.own_run
    BY <1>2, <1>6, <1>10, <1>12
  <2> QED
    BY <2>1, <2>2, <2>3, <1>11 DEF LastHolds
<1>15. RouterHolds'
  <2>1. outcome'.error = "none" => outcome' = outcome
    BY <1>2, <1>5
  <2> QED
    BY <2>1, <1>1, <1>3 DEF RouterHolds, FitsContext, Asked
<1>16. PlanIsNotEvidence'
  <2> SUFFICES ASSUME NEW i \in DOMAIN traces',
                      traces'[i].who # Nobody, traces'[i].span <= MaxAttempts
               PROVE  \E h \in Range(history') : ~h.silent /\ h.claim = traces'[i].who
    BY DEF PlanIsNotEvidence
  <2>1. CASE traces'[i] \in Range(traces)
    <3>1. PICK j \in DOMAIN traces : traces[j] = traces'[i]
      BY <2>1 DEF Range
    <3>2. PICK h \in Range(history) : ~h.silent /\ h.claim = traces[j].who
      BY <3>1 DEF IInv, PlanIsNotEvidence
    <3> QED
      BY <3>1, <3>2, <1>12
  <2>2. CASE traces'[i] \in Range(o.prior)
    <3>1. PICK j \in DOMAIN outcome.prior : outcome.prior[j] = traces'[i]
      BY <2>2, <1>6 DEF Range
    <3>2. traces'[i].span > MaxAttempts
      BY <3>1, <1>1 DEF Sound
    <3>3. traces'[i] \in TraceRecords /\ MaxAttempts \in Nat
      BY <1>11, ElementOfSeq, LenProperties, <1>1, AskedType
    <3> QED
      BY <3>2, <3>3 DEF TraceRecords
  <2>3. CASE traces'[i] = mark
    BY <2>3, <1>1, <1>8, <1>10, <1>12 DEF Sound
  <2> QED
    BY <1>11, <2>1, <2>2, <2>3
<1>17. AcceptedIsPlanned'
  BY <1>1, <1>3 DEF TypesHold, AcceptedIsPlanned
<1> QED
  BY <1>13, <1>14, <1>15, <1>16, <1>17 DEF IInv

LEMMA NextAttemptInv == IInv /\ (Retry \/ FallBack) => IInv'
<1> SUFFICES ASSUME IInv, Retry \/ FallBack PROVE IInv'
  OBVIOUS
<1>1. TypesHold
  BY DEF IInv
<1>2. /\ pc' = "attempt" /\ Len(history) < MaxAttempts
      /\ UNCHANGED <<world, using, outcome, traces, history, verdict>>
  BY DEF Retry, FallBack, CanFallBack
<1>3. at' \in DOMAIN world.ladder
  <2>1. DOMAIN world.ladder = 1..Len(world.ladder) /\ Len(world.ladder) \in Nat
    <3>1. world.ladder \in Seq(Range(world.ladder))
      BY <1>1, NodeAssumption DEF TypesHold
    <3> QED
      BY <3>1, LenProperties
  <2> QED
    BY <1>1, <2>1 DEF Retry, FallBack, CanFallBack, TypesHold
<1>4. TypesHold'
  BY <1>1, <1>2, <1>3 DEF TypesHold, Places, Answered, Retry, FallBack
<1>5. LastHolds' /\ RouterHolds' /\ PlanIsNotEvidence' /\ AcceptedIsPlanned'
  <2>1. pc = "next"
    BY DEF Retry, FallBack
  <2>2. verdict' # "accepted"
    BY <1>1, <1>2, <2>1 DEF TypesHold
  <2> QED
    BY <1>2, <2>2, EvidenceKept DEF IInv, LastHolds, RouterHolds
<1> QED
  BY <1>4, <1>5 DEF IInv

LEMMA FinishInv == IInv /\ Finish => IInv'
<1> SUFFICES ASSUME IInv, Finish PROVE IInv'
  OBVIOUS
<1>1. TypesHold /\ pc = "next" /\ verdict = "pending" /\ Sound(outcome)
  BY DEF IInv, Finish, TypesHold, Answered
<1>2. UNCHANGED <<world, at, using, outcome, history>>
  BY DEF Finish
<1>3. CASE pc' = "audit" /\ UNCHANGED <<traces, verdict>>
  <2>1. TypesHold'
    BY <1>1, <1>2, <1>3 DEF TypesHold, Places, Answered, Sound
  <2>2. PlanIsNotEvidence' /\ AcceptedIsPlanned'
    BY <1>1, <1>2, <1>3, EvidenceKept DEF IInv
  <2>3. LastHolds' /\ RouterHolds'
    BY <1>1, <1>2, <1>3 DEF IInv, LastHolds, RouterHolds, FitsContext, Asked, Annotate
  <2> QED
    BY <2>1, <2>2, <2>3 DEF IInv
<1>4. CASE pc' = "done" /\ traces' = << >> /\ verdict' = "lost"
  <2>1. << >> \in Seq(TraceRecords) /\ DOMAIN (<< >>) = {}
    OBVIOUS
  <2>2. TypesHold'
    BY <1>1, <1>2, <1>4, <2>1 DEF TypesHold, Places, Answered
  <2>3. LastHolds' /\ RouterHolds' /\ PlanIsNotEvidence' /\ AcceptedIsPlanned'
    BY <1>4, <2>1 DEF LastHolds, RouterHolds, PlanIsNotEvidence, AcceptedIsPlanned
  <2> QED
    BY <2>2, <2>3 DEF IInv
<1> QED
  BY <1>3, <1>4 DEF Finish

LEMMA AuditInv == IInv /\ Audit => IInv'
<1> SUFFICES ASSUME IInv, Audit PROVE IInv'
  OBVIOUS
<1>1. TypesHold /\ LastHolds /\ RouterHolds /\ pc = "audit" /\ Sound(outcome)
  BY DEF IInv, Audit, TypesHold, Answered
<1>2. pc' = "done" /\ UNCHANGED <<world, at, using, outcome, traces, history>>
  BY DEF Audit
<1>3. verdict' \in {"accepted", "failed", "rejected"}
  BY DEF Audit
<1>4. verdict' = "accepted" =>
        outcome.error = "none" /\ \A i \in DOMAIN traces : FitsPlan(traces[i])
  BY DEF Audit
<1>5. TypesHold'
  BY <1>1, <1>2, <1>3 DEF TypesHold, Places, Answered
<1>6. LastHolds' /\ RouterHolds' /\ PlanIsNotEvidence'
  BY <1>2 DEF IInv, LastHolds, RouterHolds, PlanIsNotEvidence
<1>7. AcceptedIsPlanned'
  <2> SUFFICES ASSUME verdict' = "accepted"
               PROVE  LET last == Last(history) IN
                      /\ last.good /\ Last(traces).formula = Formula
                      /\ IF world.routed THEN last.claim = Asked /\ last.run
                         ELSE last.claim \in Range(world.ladder)
                              /\ (at = 1 => last.claim = Asked)
    BY <1>2 DEF AcceptedIsPlanned, Asked
  <2>1. /\ Last(history).good /\ Last(history).claim = outcome.trace.who
        /\ Last(history).run = outcome.trace.own_run
        /\ Last(traces) = Annotate(outcome.trace) /\ traces # << >>
    BY <1>1, <1>4 DEF LastHolds
  <2>2. outcome.trace \in TraceRecords /\ outcome.trace.formula = Formula
        /\ outcome.trace.status = "succeeded"
    BY <1>1, <1>4 DEF Sound, OutcomeRecords
  <2>3. /\ Last(traces).formula = Formula /\ Last(traces).status = "succeeded"
        /\ Last(traces).who = outcome.trace.who /\ Last(traces).fallback = at - 1
    BY <2>1, <2>2 DEF Annotate, TraceRecords
  <2>4. CASE world.routed
    BY <1>1, <1>4, <2>1, <2>3, <2>4 DEF RouterHolds, FitsContext
  <2>5. CASE ~world.routed
    <3>1. Len(traces) \in DOMAIN traces /\ Last(traces) = traces[Len(traces)]
      <4>1. traces \in Seq(TraceRecords) /\ traces # << >>
        BY <1>1, <2>1 DEF TypesHold
      <4>2. Len(traces) \in Nat \ {0} /\ DOMAIN traces = 1..Len(traces)
        BY <4>1, EmptySeq, LenProperties
      <4> QED
        BY <4>2 DEF Last
    <3>2. FitsPlan(Last(traces))
      BY <1>4, <3>1
    <3>3. /\ Last(traces).who \in Range(world.ladder)
          /\ Last(traces).who = world.ladder[1] \/ at - 1 > 0
      BY <2>3, <3>2 DEF FitsPlan
    <3>4. at = 1 => Last(traces).who = Asked
      BY <3>3 DEF Asked
    <3> QED
      BY <2>1, <2>3, <2>5, <3>3, <3>4
  <2> QED
    BY <1>1, AskedType, <2>4, <2>5
<1> QED
  BY <1>5, <1>6, <1>7 DEF IInv

LEMMA NextInv == IInv /\ [Next]_vars => IInv'
<1>1. ASSUME IInv, UNCHANGED vars PROVE IInv'
  BY <1>1 DEF vars, IInv, TypesHold, Sound, Answered, LastHolds, Annotate, RouterHolds,
     FitsContext, Asked, PlanIsNotEvidence, AcceptedIsPlanned
<1> QED
  BY <1>1, RouteInv, ExecuteLocalInv, ForeignRaisesInv, ForeignAnswersInv, VerifyInv,
     RecordInv, NextAttemptInv, FinishInv, AuditInv DEF Next

-----------------------------------------------------------------------------
(* What a node's result and traces are worth *)

(* ExecutorRouter.execute, validate_execution_trace and the coordinator     *)
(* together: whatever executors answer, a result is taken only in time, of  *)
(* the planned formula, and from the binding asked for in this run (behind  *)
(* a router) or from a binding of the ladder the control had reached.       *)
THEOREM ResultsArePlanned == Spec => []AcceptedIsPlanned
<1>1. IInv => AcceptedIsPlanned
  BY DEF IInv
<1> QED
  BY <1>1, InitInv, NextInv, PTL DEF Spec

(* _routing_failure and the annotation of traces: a trace names an          *)
(* implementation only if an executor answered under that name, after any   *)
(* retries and fallbacks.                                                   *)
THEOREM TracesAreEvidence == Spec => []EvidenceInv
<1>1. IInv => EvidenceInv
  BY DEF IInv, TypesHold, Sound, Answered, OutcomeRecords, EvidenceInv, TypeOK
<1> QED
  BY <1>1, InitInv, NextInv, PTL DEF Spec

-----------------------------------------------------------------------------
(* Which attempt a trace is of *)

AllFresh == \A i \in DOMAIN history : history[i].fresh

(* An outcome on its way to the control is of a formula that was planned or *)
(* registered; one that nobody answered failed, and names the plan.         *)
OutcomeFits ==
  pc \in {"verify", "record"} =>
    /\ outcome.trace.formula \in {Formula, world.manifest}
    /\ outcome.silent => outcome.trace.planned = Asked /\ outcome.error # "none"

(* As long as no executor replayed an old trace or added one of its own, the *)
(* traces are one per attempt, in order.                                     *)
Aligned ==
  verdict # "lost" /\ AllFresh =>
    /\ DOMAIN traces = DOMAIN history
    /\ \A i \in DOMAIN history :
         /\ traces[i].span = i
         /\ traces[i].who = history[i].claim
         /\ traces[i].status = (IF history[i].good THEN "succeeded" ELSE "failed")

(* Every attempt answered honestly left a trace the audit will take. *)
HonestFits ==
  verdict # "lost" /\ world.manifest = Formula /\ (\A i \in DOMAIN history : Honest(history[i])) =>
    \A i \in DOMAIN traces : FitsPlan(traces[i])

AlignInv == OutcomeFits /\ Aligned /\ HonestFits /\ HonestAttemptsPassAudit

LEMMA HistoryDomain ==
  ASSUME TypesHold
  PROVE  /\ Len(history) \in Nat /\ DOMAIN history = 1..Len(history)
         /\ Len(traces) \in Nat /\ DOMAIN traces = 1..Len(traces)
         /\ \A i \in DOMAIN history : history[i] \in HistoryRecords
         /\ \A i \in DOMAIN traces : traces[i] \in TraceRecords
  BY LenProperties, ElementOfSeq DEF TypesHold

LEMMA AskedOnLadder ==
  ASSUME TypesHold
  PROVE  /\ Asked \in Range(world.ladder) /\ Asked # Nobody
         /\ at \in Nat \ {0}
         /\ Asked = world.ladder[1] \/ at - 1 > 0
<1>1. world \in Worlds /\ at \in DOMAIN world.ladder
  BY DEF TypesHold
<1>2. /\ world.ladder \in Seq(Range(world.ladder))
      /\ \A b \in Range(world.ladder) : b.service # "null"
  BY <1>1, NodeAssumption
<1>3. at \in Nat \ {0}
  BY <1>1, <1>2, LenProperties
<1>4. Asked \in Range(world.ladder)
  BY <1>1 DEF Asked, Range
<1>5. Asked # Nobody
  BY <1>2, <1>4 DEF Nobody
<1>6. Asked = world.ladder[1] \/ at - 1 > 0
  BY <1>3 DEF Asked
<1> QED
  BY <1>3, <1>4, <1>5, <1>6

LEMMA InitAlign == Init => AlignInv
<1> SUFFICES ASSUME Init PROVE AlignInv
  OBVIOUS
<1>1. DOMAIN (<< >>) = {}
  OBVIOUS
<1> QED
  BY <1>1 DEF Init, AlignInv, OutcomeFits, Aligned, AllFresh, HonestFits, HonestAttemptsPassAudit

(* A step that records nothing keeps what was recorded aligned. *)
LEMMA RecordsKept ==
  ASSUME Aligned, HonestFits, UNCHANGED <<world, traces, history, verdict>>
  PROVE  Aligned' /\ HonestFits'
  BY DEF Aligned, AllFresh, HonestFits, Honest, FitsPlan

LEMMA AnswerAligned ==
  ASSUME AlignInv, pc = "executing", TypesHold, NEW o, Answer(o),
         o.trace.formula \in {Formula, world.manifest}, ~o.silent,
         UNCHANGED <<world, at, using, traces, history, verdict>>
  PROVE  AlignInv'
<1>1. OutcomeFits'
  BY DEF Answer, OutcomeFits
<1>2. Aligned' /\ HonestFits'
  BY RecordsKept DEF AlignInv
<1>3. HonestAttemptsPassAudit'
  BY DEF TypesHold, HonestAttemptsPassAudit
<1> QED
  BY <1>1, <1>2, <1>3 DEF AlignInv

LEMMA BoundaryAligned ==
  ASSUME AlignInv, TypesHold, pc \in {"attempt", "executing"},
         NEW kind \in {"routing", "dispatch"}, outcome' = BoundaryFailure(kind),
         UNCHANGED <<world, at, traces, history, verdict>>
  PROVE  AlignInv'
<1>1. /\ BoundaryFailure(kind).trace.formula = world.manifest
      /\ BoundaryFailure(kind).trace.planned = Asked
      /\ BoundaryFailure(kind).error = kind
  BY DEF BoundaryFailure, Outcome, Trace
<1>2. OutcomeFits'
  BY <1>1 DEF OutcomeFits, Asked
<1>3. Aligned' /\ HonestFits'
  BY RecordsKept DEF AlignInv
<1>4. HonestAttemptsPassAudit'
  BY DEF TypesHold, HonestAttemptsPassAudit
<1> QED
  BY <1>2, <1>3, <1>4 DEF AlignInv

LEMMA ForeignAnswerShape ==
  ASSUME TypesHold, ForeignAnswers
  PROVE  \E o : Answer(o) /\ o.trace.formula = Formula /\ ~o.silent
<1>1. \A status \in {"succeeded", "failed"} : \A t \in ForeignTraces(status) :
        t \in TraceRecords /\ t.formula = Formula
  BY ForeignType
<1>2. ASSUME NEW t, t.formula = Formula, NEW kind, NEW result
      PROVE  Outcome(t, kind, result).trace.formula = Formula /\ ~Outcome(t, kind, result).silent
  BY <1>2 DEF Outcome
<1>3. ASSUME NEW t \in ForeignTraces("succeeded"), NEW old
      PROVE  [t EXCEPT !.span = old].formula = Formula
  BY <1>1 DEF TraceRecords
<1>4. ASSUME NEW t \in ForeignTraces("succeeded"), NEW prior
      PROVE  /\ [Outcome(t, "none", "fit") EXCEPT !.prior = prior].trace.formula = Formula
             /\ ~[Outcome(t, "none", "fit") EXCEPT !.prior = prior].silent
  BY <1>1 DEF Outcome
<1> QED
  BY <1>1, <1>2, <1>3, <1>4 DEF ForeignAnswers

LEMMA ExecuteLocalShape ==
  ASSUME TypesHold, ExecuteLocal
  PROVE  \E o : Answer(o) /\ o.trace.formula = world.manifest /\ ~o.silent
<1> DEFINE who == Actual(using.service)
           failure(kind) == Outcome(Trace(who, "failed"), kind, "none")
<1>1. ASSUME NEW status, NEW kind, NEW result
      PROVE  /\ Outcome(Trace(who, status), kind, result).trace.formula = world.manifest
             /\ ~Outcome(Trace(who, status), kind, result).silent
  BY DEF Outcome, Trace
<1>2. world.cell \subseteq {"result", "alien", "raises"}
  BY NodeAssumption DEF TypesHold
<1>3. CASE ~LocalAccepts(using.service)
  BY <1>1, <1>3 DEF ExecuteLocal
<1>4. CASE LocalAccepts(using.service)
  <2>1. PICK did \in world.cell :
          Answer(CASE did = "result" -> Outcome(Trace(who, "succeeded"), "none", "fit")
                   [] did = "alien"  -> failure("contract")
                   [] did = "raises" -> failure("execution"))
    BY <1>4 DEF ExecuteLocal
  <2> QED
    BY <2>1, <1>1, <1>2
<1> QED
  BY <1>3, <1>4

LEMMA VerifyAlign ==
  ASSUME IInv, AlignInv, Verify
  PROVE  AlignInv'
<1>1. TypesHold /\ Sound(outcome) /\ OutcomeFits /\ pc = "verify"
  BY DEF IInv, AlignInv, Verify, TypesHold, Answered
<1>2. outcome \in OutcomeRecords /\ outcome.trace \in TraceRecords
  BY <1>1 DEF Sound, OutcomeRecords
<1> DEFINE routed == [outcome EXCEPT !.trace.planned = Asked]
           refused == [routed EXCEPT !.trace.status = "failed",
                                     !.error = "contract", !.result = "none"]
<1>3. /\ routed.trace = [outcome.trace EXCEPT !.planned = Asked]
      /\ routed.error = outcome.error /\ routed.silent = outcome.silent
      /\ refused.trace = [routed.trace EXCEPT !.status = "failed"]
      /\ refused.error = "contract" /\ refused.silent = outcome.silent
  BY <1>2 DEF OutcomeRecords
<1> HIDE DEF routed, refused
<1>4. /\ routed.trace.planned = Asked /\ routed.trace.formula = outcome.trace.formula
      /\ refused.trace.planned = Asked /\ refused.trace.formula = outcome.trace.formula
  BY <1>2, <1>3 DEF TraceRecords
<1>5. outcome' = IF FitsContext(outcome.trace) THEN routed ELSE refused
  BY DEF Verify, routed, refused
<1>6. OutcomeFits'
  BY <1>1, <1>3, <1>4, <1>5 DEF Verify, OutcomeFits, Asked
<1>7. Aligned' /\ HonestFits'
  BY RecordsKept DEF AlignInv, Verify
<1>8. HonestAttemptsPassAudit'
  BY <1>1 DEF Verify, TypesHold, HonestAttemptsPassAudit
<1> QED
  BY <1>6, <1>7, <1>8 DEF AlignInv

(* A fresh answer adds one trace, annotated; a late one is a failure. *)
LEMMA RecordAlign ==
  ASSUME IInv, IInv', AlignInv, Record
  PROVE  AlignInv'
<1>1. TypesHold /\ TypesHold' /\ Sound(outcome) /\ OutcomeFits /\ pc = "record"
  BY DEF IInv, AlignInv, Record, TypesHold, Answered
<1> DEFINE entry(o) ==
      [asked |-> Asked, silent |-> outcome.silent, claim |-> outcome.trace.who,
       run |-> outcome.trace.own_run,
       fresh |-> outcome.trace.span = Attempt /\ outcome.prior = << >>,
       good |-> o.error = "none"]
<1>2. PICK o \in {outcome, Late(outcome)} :
        /\ traces' = traces \o o.prior \o <<Annotate(o.trace)>>
        /\ history' = Append(history, entry(o))
  BY DEF Record
<1>3. pc' = "next" /\ verdict' = "pending" /\ verdict = "pending"
      /\ UNCHANGED <<world, at>>
  BY <1>1 DEF Record, TypesHold
<1>4. outcome \in OutcomeRecords /\ outcome.trace \in TraceRecords
  BY <1>1 DEF Sound, OutcomeRecords
<1>5. /\ o.prior = outcome.prior
      /\ o.trace \in TraceRecords
      /\ o.trace.who = outcome.trace.who /\ o.trace.span = outcome.trace.span
      /\ o.trace.formula = outcome.trace.formula /\ o.trace.planned = outcome.trace.planned
      /\ o.trace.status = (IF o.error = "none" THEN "succeeded" ELSE "failed")
      /\ outcome.error # "none" => o.error # "none"
  <2>1. CASE o = outcome
    BY <2>1, <1>1, <1>4 DEF Sound
  <2>2. CASE o = Late(outcome)
    <3>1. /\ o.trace = [outcome.trace EXCEPT !.status = "failed"]
          /\ o.error = "timeout" /\ o.prior = outcome.prior
      BY <2>2, <1>4 DEF Late, OutcomeRecords
    <3>2. o.trace \in TraceRecords /\ o.trace.status = "failed"
          /\ o.trace.who = outcome.trace.who /\ o.trace.span = outcome.trace.span
          /\ o.trace.formula = outcome.trace.formula /\ o.trace.planned = outcome.trace.planned
      BY <3>1, <1>4 DEF TraceRecords
    <3> QED
      BY <3>1, <3>2
  <2> QED
    BY <2>1, <2>2
<1> DEFINE mark == Annotate(o.trace)
<1>6. /\ mark.who = outcome.trace.who /\ mark.span = outcome.trace.span
      /\ mark.formula = outcome.trace.formula /\ mark.planned = outcome.trace.planned
      /\ mark.status = o.trace.status /\ mark.fallback = at - 1
  BY <1>5 DEF Annotate, TraceRecords
<1>7. /\ entry(o).asked = Asked /\ entry(o).claim = outcome.trace.who
      /\ entry(o).silent = outcome.silent /\ entry(o).run = outcome.trace.own_run
      /\ entry(o).fresh => outcome.trace.span = Len(history) + 1 /\ outcome.prior = << >>
      /\ entry(o).good = (o.error = "none")
  BY DEF Attempt
<1> HIDE DEF entry
<1>8. /\ Len(history) \in Nat /\ DOMAIN history = 1..Len(history)
      /\ DOMAIN history' = 1..(Len(history) + 1)
      /\ \A i \in 1..Len(history) : history'[i] = history[i]
      /\ history'[Len(history) + 1] = entry(o)
  <2>1. entry(o) \in HistoryRecords
    <3>1. /\ Asked \in Identities /\ outcome.silent \in BOOLEAN
          /\ outcome.trace.who \in Identities /\ outcome.trace.own_run \in BOOLEAN
      BY <1>1, <1>4, AskedType DEF OutcomeRecords, TraceRecords
    <3> QED
      BY <3>1 DEF HistoryRecords, entry
  <2> QED
    BY <2>1, <1>1, <1>2, HistoryDomain DEF TypesHold
<1> DEFINE new == Len(history) + 1
<1>81. /\ new \in DOMAIN history' /\ history'[new] = entry(o)
       /\ \A i \in DOMAIN history : i \in DOMAIN history' /\ history'[i] = history[i]
       /\ \A i \in DOMAIN history' : i \in DOMAIN history \/ i = new
  BY <1>8
<1>9. outcome.prior = << >> =>
        /\ Len(traces) \in Nat /\ DOMAIN traces = 1..Len(traces)
        /\ DOMAIN traces' = 1..(Len(traces) + 1)
        /\ \A i \in 1..Len(traces) : traces'[i] = traces[i]
        /\ traces'[Len(traces) + 1] = mark
  <2> SUFFICES ASSUME outcome.prior = << >>
               PROVE  /\ Len(traces) \in Nat /\ DOMAIN traces = 1..Len(traces)
                      /\ DOMAIN traces' = 1..(Len(traces) + 1)
                      /\ \A i \in 1..Len(traces) : traces'[i] = traces[i]
                      /\ traces'[Len(traces) + 1] = mark
    OBVIOUS
  <2>1. traces \in Seq(TraceRecords)
    BY <1>1 DEF TypesHold
  <2>2. traces \o << >> = traces
    BY <2>1
  <2>3. traces' = traces \o <<mark>>
    BY <2>2, <1>2, <1>5 DEF mark
  <2>4. mark \in TraceRecords
    <3>1. at - 1 \in Int
      BY <1>1, AskedOnLadder
    <3> QED
      BY <3>1, <1>5 DEF Annotate, TraceRecords
  <2> HIDE DEF mark
  <2> QED
    BY <2>1, <2>3, <2>4
<1> HIDE DEF mark
<1>10. AllFresh' => AllFresh /\ outcome.prior = << >> /\ outcome.trace.span = new
  BY <1>7, <1>81 DEF AllFresh
<1>11. Aligned'
  <2> SUFFICES ASSUME AllFresh'
               PROVE  /\ DOMAIN traces' = DOMAIN history'
                      /\ \A i \in DOMAIN history' :
                           /\ traces'[i].span = i
                           /\ traces'[i].who = history'[i].claim
                           /\ traces'[i].status =
                                (IF history'[i].good THEN "succeeded" ELSE "failed")
    BY DEF Aligned
  <2>1. /\ DOMAIN traces = DOMAIN history
        /\ \A i \in DOMAIN history :
             /\ traces[i].span = i
             /\ traces[i].who = history[i].claim
             /\ traces[i].status = (IF history[i].good THEN "succeeded" ELSE "failed")
    BY <1>3, <1>10 DEF AlignInv, Aligned
  <2>2. Len(traces) = Len(history)
    BY <2>1, <1>1, HistoryDomain
  <2>3. DOMAIN traces' = DOMAIN history'
    BY <2>2, <1>8, <1>9, <1>10
  <2>4. \A i \in DOMAIN history : traces'[i] = traces[i]
    BY <2>2, <1>8, <1>9, <1>10
  <2>5. traces'[new] = mark
    BY <2>2, <1>9, <1>10
  <2>6. /\ traces'[new].span = new
        /\ traces'[new].who = history'[new].claim
        /\ traces'[new].status = (IF history'[new].good THEN "succeeded" ELSE "failed")
    BY <2>5, <1>5, <1>6, <1>7, <1>81, <1>10
  <2>7. \A i \in DOMAIN history :
          /\ traces'[i].span = i
          /\ traces'[i].who = history'[i].claim
          /\ traces'[i].status = (IF history'[i].good THEN "succeeded" ELSE "failed")
    BY <2>1, <2>4, <1>81
  <2> QED
    BY <2>3, <2>6, <2>7, <1>81
<1>12. HonestFits'
  <2> SUFFICES ASSUME world.manifest = Formula,
                      \A i \in DOMAIN history' : Honest(history'[i])
               PROVE  \A i \in DOMAIN traces' : FitsPlan(traces'[i])
    BY <1>3 DEF HonestFits, Honest, FitsPlan
  <2>1. \A i \in DOMAIN history : Honest(history[i])
    BY <1>81
  <2>2. Honest(entry(o)) /\ outcome.prior = << >>
    BY <1>7, <1>81 DEF Honest
  <2>3. \A i \in 1..Len(traces) : FitsPlan(traces[i])
    BY <2>1, <2>2, <1>3, <1>9 DEF AlignInv, HonestFits
  <2>4. FitsPlan(mark)
    <3>1. /\ Asked \in Range(world.ladder) /\ Asked # Nobody
          /\ at \in Nat \ {0} /\ (Asked = world.ladder[1] \/ at - 1 > 0)
      BY <1>1, AskedOnLadder
    <3>2. outcome.silent \/ outcome.trace.who = Asked
      BY <2>2, <1>7 DEF Honest
    <3>3. outcome.trace.formula = Formula
      BY <1>1 DEF OutcomeFits
    <3>4. CASE outcome.silent
      <4>1. outcome.trace.who = Nobody /\ outcome.trace.planned = Asked /\ o.error # "none"
        BY <1>1, <1>5, <3>4 DEF OutcomeFits, Sound
      <4> QED
        BY <4>1, <3>1, <3>3, <1>5, <1>6 DEF FitsPlan
    <3>5. CASE outcome.trace.who = Asked
      BY <3>1, <3>3, <3>5, <1>6 DEF FitsPlan
    <3> QED
      BY <3>2, <3>4, <3>5
  <2> QED
    BY <2>2, <2>3, <2>4, <1>9
<1>13. OutcomeFits' /\ HonestAttemptsPassAudit'
  BY <1>3 DEF OutcomeFits, HonestAttemptsPassAudit
<1> QED
  BY <1>11, <1>12, <1>13 DEF AlignInv

LEMMA FinishAlign ==
  ASSUME IInv, AlignInv, Finish
  PROVE  AlignInv'
<1>1. TypesHold /\ Aligned /\ HonestFits /\ pc = "next" /\ verdict = "pending"
  BY DEF IInv, AlignInv, Finish, TypesHold
<1>2. UNCHANGED <<world, at, using, outcome, history>>
  BY DEF Finish
<1>3. OutcomeFits'
  BY DEF Finish, OutcomeFits
<1>4. CASE pc' = "audit" /\ UNCHANGED <<traces, verdict>>
  <2>1. Aligned' /\ HonestFits'
    BY <1>1, <1>2, <1>4, RecordsKept
  <2>2. HonestAttemptsPassAudit'
    BY <1>1, <1>4 DEF HonestAttemptsPassAudit
  <2> QED
    BY <1>3, <2>1, <2>2 DEF AlignInv
<1>5. CASE /\ pc' = "done" /\ traces' = << >> /\ verdict' = "lost"
           /\ ~IsInjective([i \in DOMAIN traces |-> traces[i].span])
  <2>1. ~AllFresh
    <3> SUFFICES ASSUME AllFresh
                 PROVE  IsInjective([i \in DOMAIN traces |-> traces[i].span])
      BY <1>5
    <3>1. \A i \in DOMAIN traces : traces[i].span = i
      BY <1>1 DEF Aligned
    <3> QED
      BY <3>1 DEF IsInjective
  <2>2. PICK i \in DOMAIN history : ~Honest(history[i])
    BY <2>1 DEF AllFresh, Honest
  <2>3. HonestAttemptsPassAudit'
    BY <2>2, <1>2 DEF HonestAttemptsPassAudit, Honest, Range
  <2>4. Aligned' /\ HonestFits'
    BY <1>5 DEF Aligned, HonestFits
  <2> QED
    BY <1>3, <2>3, <2>4 DEF AlignInv
<1> QED
  BY <1>4, <1>5 DEF Finish

LEMMA AuditAlign ==
  ASSUME IInv, AlignInv, Audit
  PROVE  AlignInv'
<1>1. TypesHold /\ Sound(outcome) /\ Aligned /\ HonestFits /\ pc = "audit" /\ verdict = "pending"
  BY DEF IInv, AlignInv, Audit, TypesHold, Answered
<1>2. UNCHANGED <<world, at, using, outcome, traces, history>> /\ pc' = "done"
  BY DEF Audit
<1>3. OutcomeFits'
  BY <1>2 DEF OutcomeFits
<1>4. Aligned' /\ HonestFits'
  BY <1>1, <1>2 DEF Aligned, AllFresh, HonestFits, Honest, FitsPlan
<1>5. HonestAttemptsPassAudit'
  <2> SUFFICES ASSUME verdict' \in {"rejected", "lost"}, outcome.result # "alien",
                      world.manifest = Formula
               PROVE  \E i \in DOMAIN history : ~Honest(history[i])
    BY <1>2 DEF HonestAttemptsPassAudit, Honest, Range
  <2>1. outcome.error = "none" => outcome.result = "fit"
    BY <1>1 DEF Sound, OutcomeRecords
  <2>2. \E i \in DOMAIN traces : ~FitsPlan(traces[i])
    BY <2>1 DEF Audit
  <2> QED
    BY <2>2, <1>1 DEF HonestFits
<1> QED
  BY <1>3, <1>4, <1>5 DEF AlignInv

LEMMA NextAlign ==
  ASSUME IInv, IInv', AlignInv, [Next]_vars
  PROVE  AlignInv'
<1>1. TypesHold
  BY DEF IInv
<1>2. CASE Route
  <2>1. CASE RouteOf(Asked) = {}
    <3>1. pc = "attempt" /\ outcome' = BoundaryFailure("routing")
          /\ UNCHANGED <<world, at, traces, history, verdict>>
      BY <1>2, <2>1 DEF Route
    <3> QED
      BY <1>1, <3>1, BoundaryAligned
  <2>2. CASE RouteOf(Asked) # {}
    <3>1. pc' = "executing" /\ UNCHANGED <<world, at, outcome, traces, history, verdict>>
      BY <1>2, <2>2 DEF Route
    <3>2. Aligned' /\ HonestFits'
      BY <3>1, RecordsKept DEF AlignInv
    <3> QED
      BY <1>1, <1>2, <3>1, <3>2
         DEF Route, TypesHold, AlignInv, OutcomeFits, HonestAttemptsPassAudit
  <2> QED
    BY <2>1, <2>2
<1>3. CASE ExecuteLocal
  <2>1. pc = "executing" /\ UNCHANGED <<world, at, using, traces, history, verdict>>
    BY <1>3 DEF ExecuteLocal
  <2> QED
    BY <1>1, <1>3, <2>1, ExecuteLocalShape, AnswerAligned
<1>4. CASE ForeignRaises
  <2>1. pc = "executing" /\ outcome' = BoundaryFailure("dispatch")
        /\ UNCHANGED <<world, at, traces, history, verdict>>
    BY <1>4 DEF ForeignRaises
  <2> QED
    BY <1>1, <2>1, BoundaryAligned
<1>5. CASE ForeignAnswers
  <2>1. pc = "executing" /\ UNCHANGED <<world, at, using, traces, history, verdict>>
    BY <1>5 DEF ForeignAnswers
  <2> QED
    BY <1>1, <1>5, <2>1, ForeignAnswerShape, AnswerAligned
<1>6. CASE Retry \/ FallBack
  <2>1. pc' = "attempt" /\ pc = "next"
        /\ UNCHANGED <<world, using, outcome, traces, history, verdict>>
    BY <1>6 DEF Retry, FallBack
  <2>2. Aligned' /\ HonestFits'
    BY <2>1, RecordsKept DEF AlignInv
  <2> QED
    BY <1>1, <2>1, <2>2 DEF TypesHold, AlignInv, OutcomeFits, HonestAttemptsPassAudit
<1>7. CASE UNCHANGED vars
  <2>1. Aligned' /\ HonestFits'
    BY <1>7, RecordsKept DEF AlignInv, vars
  <2> QED
    BY <1>7, <2>1
       DEF vars, AlignInv, OutcomeFits, Asked, HonestAttemptsPassAudit, Honest
<1> QED
  BY <1>2, <1>3, <1>4, <1>5, <1>6, <1>7, VerifyAlign, RecordAlign, FinishAlign, AuditAlign
     DEF Next

LEMMA SpecInv == Spec => []IInv
  BY InitInv, NextInv, PTL DEF Spec

LEMMA SpecAlign == Spec => []AlignInv
<1>1. IInv /\ IInv' /\ AlignInv /\ [Next]_vars => AlignInv'
  BY NextAlign
<1> QED
  BY <1>1, InitAlign, SpecInv, PTL DEF Spec

(* ExecutorRouter and validate_execution_trace are written apart from each  *)
(* other, and agree: however long the ladder and whichever bindings failed, *)
(* were late or answered nothing, a node whose executors named themselves   *)
(* and this run is not turned down for the traces of its attempts.          *)
THEOREM HonestNodesPass == Spec => []HonestAttemptsPassAudit
<1>1. AlignInv => HonestAttemptsPassAudit
  BY DEF AlignInv
<1> QED
  BY <1>1, SpecAlign, PTL

(* summarize_runtime_traces: the traces and failures that a summary charges *)
(* to a binding are those of the attempts answered under its name, and the  *)
(* attempts nobody answered are charged to nobody.                          *)
THEOREM SummariesChargeWhoAnswered == Spec => []SummaryChargesWhoAnswered
<1>1. ASSUME IInv, AlignInv PROVE SummaryChargesWhoAnswered
  <2> SUFFICES ASSUME verdict \in {"accepted", "failed", "rejected"},
                      \A h \in Range(history) : h.fresh,
                      NEW who \in Range(world.ladder) \cup {Nobody}
               PROVE  LET answered == {i \in DOMAIN history : history[i].claim = who} IN
                      /\ Summary(who).trace_count = Cardinality(answered)
                      /\ Summary(who).failed_count =
                           Cardinality({i \in answered : ~history[i].good})
    BY DEF SummaryChargesWhoAnswered
  <2>1. AllFresh
    BY DEF AllFresh, Range
  <2>2. /\ DOMAIN traces = DOMAIN history
        /\ \A i \in DOMAIN history :
             /\ traces[i].who = history[i].claim
             /\ traces[i].status = (IF history[i].good THEN "succeeded" ELSE "failed")
    BY <1>1, <2>1 DEF AlignInv, Aligned
  <2>3. GroupOf(who) = {i \in DOMAIN history : history[i].claim = who}
    BY <2>2 DEF GroupOf
  <2>4. {i \in GroupOf(who) : traces[i].status = "failed"} =
          {i \in {j \in DOMAIN history : history[j].claim = who} : ~history[i].good}
    BY <2>2, <2>3
  <2> QED
    BY <2>3, <2>4 DEF Summary
<1> QED
  BY <1>1, SpecInv, SpecAlign, PTL
=============================================================================
