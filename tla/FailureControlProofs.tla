------------------------ MODULE FailureControlProofs ------------------------
(***************************************************************************)
(* Theorems about FailureControl, for every set of calls and bindings.     *)
(***************************************************************************)
EXTENDS FailureControl, FiniteSetTheorems, TLAPS

LEMMA AppendType ==
  ASSUME NEW S, NEW s \in Seq(S), NEW e \in S
  PROVE  Append(s, e) \in Seq(S)
  OBVIOUS

-----------------------------------------------------------------------------
(* Type correctness *)

LEMMA InitType == Init => TypeOK
  BY CandidatesAssumption DEF Init, TypeOK, Places, Outcomes, NoProbe, Probes

(* The current binding of a call is one of its candidates. *)
LEMMA BindingType ==
  ASSUME TypeOK, NEW c \in Calls
  PROVE  BindingOf(c) \in Bindings
  BY CandidatesAssumption DEF TypeOK, BindingOf

(* What the loop body after an attempt does to the types. *)
LEMMA SettleType ==
  ASSUME TypeOK, NEW c \in Calls, NEW kind \in Outcomes, Settle(c, kind)
  PROVE  /\ pc' \in [Calls -> Places]
         /\ fallback_index' \in [Calls -> Nat]
         /\ \A d \in Calls : fallback_index'[d] < Len(Candidates[d])
         /\ binding_attempt' \in [Calls -> Nat \ {0}]
         /\ outcome' \in [Calls -> Outcomes]
         /\ probe' \in [Calls -> Probes]
         /\ attempts' \in [Calls -> Seq(AttemptRecords)]
<1>1. Attempt(c, kind, probe[c]) \in AttemptRecords
  BY BindingType DEF Attempt, AttemptRecords, TypeOK
<1>2. attempts' \in [Calls -> Seq(AttemptRecords)]
  BY <1>1, AppendType DEF Settle, TypeOK
<1>3. outcome' \in [Calls -> Outcomes] /\ probe' \in [Calls -> Probes]
  BY DEF Settle, TypeOK, NoProbe, Probes
<1>4. ControlStatus(kind) \in Places
  BY DEF ControlStatus, Places, Terminal
<1>5. /\ pc' \in [Calls -> Places]
      /\ fallback_index' \in [Calls -> Nat]
      /\ \A d \in Calls : fallback_index'[d] < Len(Candidates[d])
      /\ binding_attempt' \in [Calls -> Nat \ {0}]
  <2>1. CASE RetrySame(c, kind)
    BY <2>1 DEF RetrySame, Goto, TypeOK, Places
  <2>2. CASE FallBack(c, kind)
    BY <2>2 DEF FallBack, CanFallBack, Goto, TypeOK, Places
  <2>3. CASE Conclude(c, kind)
    BY <2>3, <1>4 DEF Conclude, Goto, TypeOK, Places
  <2>4. QED
    BY <2>1, <2>2, <2>3 DEF Settle
<1>6. QED
  BY <1>2, <1>3, <1>5

(* The counters stay natural numbers when a slot is given back. *)
LEMMA FreedType ==
  ASSUME TypeOK, NEW b \in Bindings
  PROVE  Freed(b) \in [Bindings -> Nat]
  BY DEF TypeOK, Freed

(* Every state has the declared types and the cursor of every call stays   *)
(* inside its candidates (control.py execute).                             *)
THEOREM TypeCorrect == Spec => []TypeOK
<1>1. TypeOK /\ [Next]_vars => TypeOK'
  <2> SUFFICES ASSUME TypeOK, [Next]_vars
               PROVE  TypeOK'
    OBVIOUS
  <2>1. ASSUME NEW c \in Calls, Start(c) PROVE TypeOK'
    BY <2>1 DEF TypeOK, Start, Goto, Places
  <2>2. ASSUME NEW c \in Calls, Cancel(c) PROVE TypeOK'
    BY <2>2 DEF TypeOK, Cancel
  <2>3. ASSUME NEW c \in Calls, NEW kind \in Outcomes, Settle(c, kind),
               UNCHANGED <<canceled, active, lease>>
        PROVE  TypeOK'
    BY <2>3, SettleType DEF TypeOK
  <2>4. ASSUME NEW c \in Calls, Step(c) PROVE TypeOK'
    <3>1. CASE CanceledBeforeAttempt(c)
      BY <2>3, <3>1 DEF CanceledBeforeAttempt, Outcomes, FailureKinds
    <3>2. CASE PassCancellationCheck(c)
      BY <3>2 DEF TypeOK, PassCancellationCheck, Goto, Places
    <3>3. CASE Admit(c)
      <4>1. active' \in [Bindings -> Nat] /\ lease' \in [Calls -> BOOLEAN]
        BY <3>3, BindingType DEF TypeOK, Admit
      <4>2. probe' \in [Calls -> Probes]
        BY <3>3 DEF TypeOK, Admit, Probes
      <4>3. QED
        BY <3>3, <4>1, <4>2 DEF TypeOK, Admit, Goto, Places
    <3>4. CASE Reject(c)
      BY <2>3, <3>4 DEF Reject, Outcomes, FailureKinds
    <3>5. CASE AdmissionRaises(c)
      BY <2>3, <3>5 DEF AdmissionRaises, Outcomes, FailureKinds
    <3>6. CASE DelegateReturns(c)
      BY <3>6, EnvironmentAssumption DEF TypeOK, DelegateReturns, Goto, Places, Probes, Outcomes
    <3>7. CASE ReleaseLease(c)
      BY <3>7, BindingType, FreedType DEF TypeOK, ReleaseLease, Goto, Places
    <3>8. CASE ReleaseRaises(c)
      <4>1. active' \in [Bindings -> Nat]
        BY <3>8, BindingType, FreedType DEF TypeOK, ReleaseRaises
      <4>2. QED
        BY <3>8, <4>1 DEF TypeOK, ReleaseRaises, Goto, Places, Outcomes, FailureKinds
    <3>9. CASE Judge(c)
      <4>1. \A late \in BOOLEAN : Judgement(c, late) \in Outcomes
        BY DEF Judgement, TypeOK, Outcomes, FailureKinds
      <4>2. QED
        BY <2>3, <3>9, <4>1 DEF Judge
    <3>10. QED
      BY <2>4, <3>1, <3>2, <3>3, <3>4, <3>5, <3>6, <3>7, <3>8, <3>9 DEF Step, Work
  <2>5. CASE UNCHANGED vars
    BY <2>5 DEF TypeOK, vars
  <2>6. QED
    BY <2>1, <2>2, <2>4, <2>5 DEF Next
<1>2. QED
  BY InitType, <1>1, PTL DEF Spec

-----------------------------------------------------------------------------
(* Admission *)

(* A slot is held from admission to release, and only for a binding that   *)
(* has a limit.                                                            *)
LeaseDiscipline ==
  \A c \in Calls :
    /\ lease[c] => /\ pc[c] \in {"delegate", "release"}
                   /\ MaxConcurrency[BindingOf(c)] # Unlimited
    /\ /\ pc[c] = "delegate"
       /\ MaxConcurrency[BindingOf(c)] # Unlimited
       => lease[c]

(* The counter never forgets a holder, never exceeds the limit, and counts *)
(* nobody else as long as the controller does not raise.                   *)
CounterBounds ==
  \A b \in Bindings :
    /\ Cardinality(Holders(b)) <= active[b]
    /\ AdmissionFaults \/ active[b] = Cardinality(Holders(b))
    /\ MaxConcurrency[b] # Unlimited => active[b] <= MaxConcurrency[b]

SlotInv == TypeOK /\ LeaseDiscipline /\ CounterBounds

LEMMA HoldersFinite ==
  ASSUME NEW b
  PROVE  IsFiniteSet(Holders(b)) /\ Cardinality(Holders(b)) \in Nat
  BY CallsAssumption, FS_Subset, FS_CardinalityType DEF Holders

LEMMA InitSlots == Init => SlotInv
<1> SUFFICES ASSUME Init PROVE SlotInv
  OBVIOUS
<1>1. \A b \in Bindings : Holders(b) = {}
  BY DEF Init, Holders
<1>2. \A b \in Bindings : MaxConcurrency[b] # Unlimited => 0 <= MaxConcurrency[b]
  BY HintsAssumption
<1>3. CounterBounds
  <2> SUFFICES ASSUME NEW b \in Bindings
               PROVE  /\ Cardinality(Holders(b)) <= active[b]
                      /\ active[b] = Cardinality(Holders(b))
                      /\ MaxConcurrency[b] # Unlimited => active[b] <= MaxConcurrency[b]
    BY DEF CounterBounds
  <2>1. Cardinality(Holders(b)) = 0 /\ active[b] = 0
    BY <1>1, FS_EmptySet DEF Init
  <2>2. QED
    BY <2>1, <1>2
<1>4. LeaseDiscipline
  BY DEF Init, LeaseDiscipline
<1>5. QED
  BY <1>3, <1>4, InitType DEF SlotInv

(* A settled attempt moves its own call only, to the next attempt or the end. *)
LEMMA SettleFrame ==
  ASSUME TypeOK, NEW c \in Calls, NEW kind \in Outcomes, Settle(c, kind)
  PROVE  /\ pc'[c] \in {"before_attempt"} \cup Terminal
         /\ \A d \in Calls \ {c} :
              /\ pc'[d] = pc[d]
              /\ fallback_index'[d] = fallback_index[d]
              /\ attempts'[d] = attempts[d]
         /\ attempts'[c] = Append(attempts[c], Attempt(c, kind, probe[c]))
         /\ probe'[c] = NoProbe
<1>1. ControlStatus(kind) \in Terminal
  BY DEF ControlStatus, Terminal
<1>2. /\ pc'[c] \in {"before_attempt"} \cup Terminal
      /\ \A d \in Calls \ {c} : /\ pc'[d] = pc[d]
                                 /\ fallback_index'[d] = fallback_index[d]
  <2>1. CASE RetrySame(c, kind)
    BY <2>1 DEF RetrySame, Goto, TypeOK
  <2>2. CASE FallBack(c, kind)
    BY <2>2 DEF FallBack, Goto, TypeOK
  <2>3. CASE Conclude(c, kind)
    BY <2>3, <1>1 DEF Conclude, Goto, TypeOK
  <2>4. QED
    BY <2>1, <2>2, <2>3 DEF Settle
<1>3. QED
  BY <1>2 DEF Settle, TypeOK

(* A step that changes no lease and moves no lease holder keeps the slots. *)
LEMMA SlotsUndisturbed ==
  ASSUME SlotInv, TypeOK', NEW c \in Calls,
         lease' = lease, active' = active,
         ~lease[c],
         pc'[c] # "delegate",
         \A d \in Calls \ {c} : /\ pc'[d] = pc[d]
                                /\ fallback_index'[d] = fallback_index[d]
  PROVE  SlotInv'
<1>1. \A b \in Bindings : Holders(b)' = Holders(b)
  BY DEF Holders, BindingOf
<1>2. CounterBounds'
  BY <1>1 DEF SlotInv, CounterBounds
<1>3. LeaseDiscipline'
  BY DEF SlotInv, LeaseDiscipline, BindingOf
<1>4. QED
  BY <1>2, <1>3 DEF SlotInv

LEMMA SettleSlots ==
  ASSUME SlotInv, TypeOK', NEW c \in Calls, NEW kind \in Outcomes,
         pc[c] \notin {"delegate", "release"},
         Settle(c, kind), UNCHANGED <<canceled, active, lease>>
  PROVE  SlotInv'
<1>1. ~lease[c]
  BY DEF SlotInv, LeaseDiscipline
<1>2. pc'[c] # "delegate"
  BY SettleFrame DEF SlotInv, Terminal
<1>3. \A d \in Calls \ {c} : /\ pc'[d] = pc[d]
                             /\ fallback_index'[d] = fallback_index[d]
  BY SettleFrame DEF SlotInv
<1>4. QED
  BY <1>1, <1>2, <1>3, SlotsUndisturbed

LEMMA AdmitSlots ==
  ASSUME SlotInv, TypeOK', NEW c \in Calls, Admit(c)
  PROVE  SlotInv'
<1>1. PICK b0 \in Bindings : b0 = BindingOf(c)
  BY BindingType DEF SlotInv
<1> USE <1>1
<1>2. \A d \in Calls : BindingOf(d)' = BindingOf(d)
  BY DEF Admit, BindingOf
<1>3. ~lease[c]
  BY DEF SlotInv, LeaseDiscipline, Admit
<1>4. LeaseDiscipline'
  BY <1>2 DEF SlotInv, LeaseDiscipline, Admit, Goto, TypeOK
<1>5. CASE MaxConcurrency[b0] = Unlimited
  <2>1. active' = active /\ lease' = [lease EXCEPT ![c] = FALSE]
    BY <1>5 DEF Admit
  <2>2. lease' = lease
    BY <2>1, <1>3 DEF SlotInv, TypeOK
  <2>3. \A b \in Bindings : Holders(b)' = Holders(b)
    BY <2>2, <1>2 DEF Holders
  <2>4. CounterBounds'
    BY <2>1, <2>3 DEF SlotInv, CounterBounds
  <2>5. QED
    BY <2>4, <1>4 DEF SlotInv
<1>6. CASE MaxConcurrency[b0] # Unlimited
  <2>1. /\ active' = [active EXCEPT ![b0] = @ + 1]
        /\ lease' = [lease EXCEPT ![c] = TRUE]
        /\ active[b0] < MaxConcurrency[b0]
    <3>1. ~Full(b0)
      BY <1>1 DEF Admit
    <3>2. ~(active[b0] >= MaxConcurrency[b0])
      BY <3>1, <1>6, <1>1 DEF Full
    <3>3. active[b0] \in Nat /\ MaxConcurrency[b0] \in Nat
      BY <1>6, <1>1, HintsAssumption DEF SlotInv, TypeOK
    <3>4. active[b0] < MaxConcurrency[b0]
      BY <3>2, <3>3
    <3>5. QED
      BY <3>4, <1>1, <1>6 DEF Admit
  <2>2. Holders(b0)' = Holders(b0) \cup {c}
    BY <2>1, <1>2 DEF Holders, SlotInv, TypeOK
  <2>3. c \notin Holders(b0)
    BY <1>3 DEF Holders
  <2>4. Cardinality(Holders(b0)') = Cardinality(Holders(b0)) + 1
    BY <2>2, <2>3, HoldersFinite, FS_AddElement
  <2>5. \A b \in Bindings \ {b0} : Holders(b)' = Holders(b)
    BY <2>1, <1>2 DEF Holders, SlotInv, TypeOK
  <2>6. /\ Cardinality(Holders(b0)') <= active'[b0]
        /\ AdmissionFaults \/ active'[b0] = Cardinality(Holders(b0)')
        /\ active'[b0] <= MaxConcurrency[b0]
    <3>1. /\ Cardinality(Holders(b0)) \in Nat
          /\ active[b0] \in Nat
          /\ MaxConcurrency[b0] \in Nat
          /\ active'[b0] = active[b0] + 1
      BY <2>1, <1>6, HoldersFinite, HintsAssumption DEF SlotInv, TypeOK
    <3>2. /\ Cardinality(Holders(b0)) <= active[b0]
          /\ AdmissionFaults \/ active[b0] = Cardinality(Holders(b0))
      BY DEF SlotInv, CounterBounds
    <3>3. QED
      BY <2>1, <2>4, <3>1, <3>2
  <2>7. \A b \in Bindings \ {b0} : active'[b] = active[b]
    BY <2>1 DEF SlotInv, TypeOK
  <2>8. CounterBounds'
    BY <2>5, <2>6, <2>7 DEF SlotInv, CounterBounds
  <2>9. QED
    BY <2>8, <1>4 DEF SlotInv
<1>7. QED
  BY <1>5, <1>6

(* Giving a slot back, or losing it, takes one holder away. *)
LEMMA LeaveSlots ==
  ASSUME SlotInv, TypeOK', NEW c \in Calls,
         pc[c] = "release",
         pc' = [pc EXCEPT ![c] = "returned"],
         lease' = [lease EXCEPT ![c] = FALSE],
         UNCHANGED fallback_index,
         \/ active' = IF lease[c] THEN Freed(BindingOf(c)) ELSE active
         \/ AdmissionFaults /\ active' = active
  PROVE  SlotInv'
<1>1. PICK b0 \in Bindings : b0 = BindingOf(c)
  BY BindingType DEF SlotInv
<1> USE <1>1
<1>2. \A d \in Calls : BindingOf(d)' = BindingOf(d)
  BY DEF BindingOf
<1>3. LeaseDiscipline'
  BY <1>2 DEF SlotInv, LeaseDiscipline, TypeOK
<1>4. CASE ~lease[c]
  <2>1. lease' = lease /\ active' = active
    BY <1>4 DEF SlotInv, TypeOK
  <2>2. \A b \in Bindings : Holders(b)' = Holders(b)
    BY <2>1, <1>2 DEF Holders
  <2>3. QED
    BY <2>1, <2>2, <1>3 DEF SlotInv, CounterBounds
<1>5. CASE lease[c]
  <2>1. c \in Holders(b0) /\ Holders(b0)' = Holders(b0) \ {c}
    BY <1>5, <1>2 DEF Holders, SlotInv, TypeOK
  <2>2. /\ Cardinality(Holders(b0)') = Cardinality(Holders(b0)) - 1
        /\ Cardinality(Holders(b0)') \in Nat
        /\ Cardinality(Holders(b0)) \in Nat
    BY <2>1, HoldersFinite, FS_RemoveElement, FS_CardinalityType
  <2>3. \A b \in Bindings \ {b0} : Holders(b)' = Holders(b)
    BY <1>2 DEF Holders, SlotInv, TypeOK
  <2>4. \A b \in Bindings \ {b0} : active'[b] = active[b]
    BY DEF SlotInv, TypeOK, Freed
  <2>5. /\ Cardinality(Holders(b0)) <= active[b0]
        /\ AdmissionFaults \/ active[b0] = Cardinality(Holders(b0))
        /\ MaxConcurrency[b0] # Unlimited => active[b0] <= MaxConcurrency[b0]
    BY <1>1 DEF SlotInv, CounterBounds
  <2>6. active[b0] \in Nat
    BY <1>1 DEF SlotInv, TypeOK
  <2>7. CASE active' = Freed(b0)
    <3>1. active'[b0] = IF active[b0] <= 1 THEN 0 ELSE active[b0] - 1
      BY <2>7, <1>1 DEF Freed, SlotInv, TypeOK
    <3>2. active'[b0] = active[b0] - 1
      BY <3>1, <2>2, <2>5, <2>6
    <3>3. MaxConcurrency[b0] # Unlimited => active'[b0] <= MaxConcurrency[b0]
      BY <3>2, <2>5, <2>6, <1>1, HintsAssumption
    <3>4. CounterBounds'
      BY <3>2, <3>3, <2>2, <2>3, <2>4, <2>5, <2>6 DEF SlotInv, CounterBounds
    <3>5. QED
      BY <3>4, <1>3 DEF SlotInv
  <2>8. CASE AdmissionFaults /\ active' = active
    <3>1. CounterBounds'
      BY <2>8, <2>2, <2>3, <2>5, <2>6 DEF SlotInv, CounterBounds
    <3>2. QED
      BY <3>1, <1>3 DEF SlotInv
  <2>9. QED
    BY <1>5, <2>7, <2>8
<1>6. QED
  BY <1>4, <1>5

LEMMA SlotInvariance == Spec => []SlotInv
<1>1. TypeOK' /\ SlotInv /\ [Next]_vars => SlotInv'
  <2> SUFFICES ASSUME TypeOK', SlotInv, [Next]_vars
               PROVE  SlotInv'
    OBVIOUS
  <2>1. ASSUME NEW c \in Calls, Start(c) PROVE SlotInv'
    <3>1. ~lease[c]
      BY <2>1 DEF Start, SlotInv, LeaseDiscipline
    <3>2. QED
      BY <2>1, <3>1, SlotsUndisturbed DEF Start, Goto, SlotInv, TypeOK
  <2>2. ASSUME NEW c \in Calls, Cancel(c) PROVE SlotInv'
    BY <2>2 DEF Cancel, SlotInv, LeaseDiscipline, CounterBounds, Holders, BindingOf
  <2>3. ASSUME NEW c \in Calls, Step(c) PROVE SlotInv'
    <3>1. CASE CanceledBeforeAttempt(c)
      BY <3>1, SettleSlots DEF CanceledBeforeAttempt, Outcomes, FailureKinds
    <3>2. CASE PassCancellationCheck(c)
      <4>1. ~lease[c]
        BY <3>2 DEF PassCancellationCheck, SlotInv, LeaseDiscipline
      <4>2. QED
        BY <3>2, <4>1, SlotsUndisturbed DEF PassCancellationCheck, Goto, SlotInv, TypeOK
    <3>3. CASE Admit(c)
      BY <3>3, AdmitSlots
    <3>4. CASE Reject(c)
      BY <3>4, SettleSlots DEF Reject, Outcomes, FailureKinds
    <3>5. CASE AdmissionRaises(c)
      BY <3>5, SettleSlots DEF AdmissionRaises, Outcomes, FailureKinds
    <3>6. CASE DelegateReturns(c)
      <4>1. \A b \in Bindings : Holders(b)' = Holders(b)
        BY <3>6 DEF DelegateReturns, Holders, BindingOf
      <4>2. LeaseDiscipline'
        BY <3>6 DEF DelegateReturns, Goto, SlotInv, TypeOK, LeaseDiscipline, BindingOf
      <4>3. QED
        BY <3>6, <4>1, <4>2 DEF DelegateReturns, SlotInv, CounterBounds
    <3>7. CASE ReleaseLease(c)
      BY <3>7, LeaveSlots DEF ReleaseLease, Goto
    <3>8. CASE ReleaseRaises(c)
      BY <3>8, LeaveSlots DEF ReleaseRaises, Goto
    <3>9. CASE Judge(c)
      <4>1. \A late \in BOOLEAN : Judgement(c, late) \in Outcomes
        BY DEF Judgement, SlotInv, TypeOK, Outcomes, FailureKinds
      <4>2. QED
        BY <3>9, <4>1, SettleSlots DEF Judge
    <3>10. QED
      BY <2>3, <3>1, <3>2, <3>3, <3>4, <3>5, <3>6, <3>7, <3>8, <3>9 DEF Step, Work
  <2>4. CASE UNCHANGED vars
    BY <2>4 DEF vars, SlotInv, LeaseDiscipline, CounterBounds, Holders, BindingOf
  <2>5. QED
    BY <2>1, <2>2, <2>3, <2>4 DEF Next
<1>2. QED
  BY InitSlots, <1>1, TypeCorrect, PTL DEF Spec

(* No interleaving of calls has more of them inside a binding than its     *)
(* max_concurrency, even if the controller raises (control.py try_acquire, *)
(* _release).                                                              *)
THEOREM AdmissionBounded == Spec => []AdmissionBound
<1>1. SlotInv => AdmissionBound
  <2> SUFFICES ASSUME SlotInv, NEW b \in Bindings, MaxConcurrency[b] # Unlimited
               PROVE  Cardinality(InDelegate(b)) <= MaxConcurrency[b]
    BY DEF AdmissionBound
  <2>1. InDelegate(b) \subseteq Holders(b)
    BY DEF InDelegate, Holders, SlotInv, LeaseDiscipline
  <2>2. /\ Cardinality(InDelegate(b)) <= Cardinality(Holders(b))
        /\ Cardinality(InDelegate(b)) \in Nat
    BY <2>1, HoldersFinite, FS_Subset, FS_CardinalityType
  <2>3. Cardinality(Holders(b)) <= active[b] /\ active[b] <= MaxConcurrency[b]
    BY DEF SlotInv, CounterBounds
  <2>4. active[b] \in Nat /\ MaxConcurrency[b] \in Nat
    BY HintsAssumption DEF SlotInv, TypeOK
  <2>5. QED
    BY <2>2, <2>3, <2>4, HoldersFinite
<1>2. QED
  BY SlotInvariance, <1>1, PTL

(* As long as the controller does not raise, no slot leaks and none is     *)
(* given back twice.                                                       *)
THEOREM AccountingExact == Spec => []ExactAccounting
<1>1. SlotInv => ExactAccounting
  BY DEF SlotInv, CounterBounds, ExactAccounting
<1>2. QED
  BY SlotInvariance, <1>1, PTL

-----------------------------------------------------------------------------
(* Effects and cancellation *)

(* The history of the current attempt: empty until the delegate is         *)
(* entered; a refusal means the Cell was not reached; a token once seen    *)
(* stays set.                                                              *)
ProbeInv ==
  \A c \in Calls :
    /\ pc[c] \in {"idle", "before_attempt", "admission"} => probe[c] = NoProbe
    /\ pc[c] \in {"release", "returned"} =>
         /\ probe[c].applied => outcome[c] \notin {"routing", "backpressure"}
         /\ probe[c].token_set => c \in canceled

(* CancellationBoundary made inductive: the call waits at the check that   *)
(* ends it, or has ended.                                                  *)
CancelInv ==
  \A c \in Calls : \A i \in 1..Len(attempts[c]) :
    attempts[c][i].probe.token_set =>
      /\ c \in canceled
      /\ pc[c] \in {"before_attempt"} \cup Terminal
      /\ attempts[c][i].kind # "ok"
      /\ \A j \in (i + 1)..Len(attempts[c]) : ~attempts[c][j].probe.entered

EffectInv == TypeOK /\ ProbeInv /\ AtMostOnce /\ CancelInv

LEMMA InitEffects == Init => EffectInv
  BY InitType DEF Init, EffectInv, ProbeInv, AtMostOnce, CancelInv

(* A step that settles no attempt and does not move a call away from its   *)
(* check or its end keeps the two properties of the log.                   *)
LEMMA LogUndisturbed ==
  ASSUME AtMostOnce, CancelInv, NEW c \in Calls,
         attempts' = attempts,
         canceled \subseteq canceled',
         \A d \in Calls \ {c} : pc'[d] = pc[d],
         \/ pc'[c] = pc[c]
         \/ pc[c] \notin Terminal /\ c \notin canceled
         \/ pc[c] \notin {"before_attempt"} \cup Terminal
  PROVE  AtMostOnce' /\ CancelInv'
<1>1. AtMostOnce'
  BY DEF AtMostOnce
<1>2. CancelInv'
  BY DEF CancelInv
<1>3. QED
  BY <1>1, <1>2

(* An attempt on an unsafe binding that may have acted ends the call. *)
LEMMA UnsafeConcludes ==
  ASSUME TypeOK, NEW c \in Calls, NEW kind \in Outcomes, Settle(c, kind),
         ~RepeatIsSafe(BindingOf(c)),
         kind \notin {"routing", "backpressure"}
  PROVE  pc'[c] \in Terminal
<1>1. ~CanRetry(c, kind) /\ ~CanFallBack(c, kind)
  BY DEF CanRetry, CanFallBack, Retryable, AllowsFallback
<1>2. ControlStatus(kind) \in Terminal
  BY DEF ControlStatus, Terminal
<1>3. QED
  BY <1>1, <1>2 DEF Settle, RetrySame, FallBack, Conclude, Goto, TypeOK

LEMMA SettleEffects ==
  ASSUME EffectInv, TypeOK', NEW c \in Calls, NEW kind \in Outcomes,
         Settle(c, kind), UNCHANGED canceled,
         pc[c] \notin Terminal,
         probe[c].applied => kind \notin {"routing", "backpressure"},
         probe[c].token_set => c \in canceled /\ kind # "ok",
         pc[c] = "before_attempt" => probe[c] = NoProbe
  PROVE  EffectInv'
<1> DEFINE log == attempts[c]
           new == Attempt(c, kind, probe[c])
<1>1. /\ log \in Seq(AttemptRecords)
      /\ new \in AttemptRecords
      /\ probe[c] \in Probes
  BY BindingType DEF EffectInv, TypeOK, Attempt, AttemptRecords
<1>2. /\ attempts'[c] = Append(log, new)
      /\ pc'[c] \in {"before_attempt"} \cup Terminal
      /\ probe'[c] = NoProbe
      /\ \A d \in Calls \ {c} : pc'[d] = pc[d] /\ attempts'[d] = attempts[d]
  BY SettleFrame DEF EffectInv
<1>3. /\ Len(attempts'[c]) = Len(log) + 1
      /\ \A i \in 1..Len(log) : attempts'[c][i] = log[i]
      /\ attempts'[c][Len(log) + 1] = new
      /\ Len(log) \in Nat
  BY <1>1, <1>2
<1>4. new.probe = probe[c] /\ new.kind = kind /\ new.binding_id = BindingOf(c)
  BY DEF Attempt
<1>5. ProbeInv'
  <2>1. \A d \in Calls \ {c} : probe'[d] = probe[d] /\ outcome'[d] = outcome[d]
    BY DEF Settle, EffectInv, TypeOK
  <2>2. QED
    BY <1>2, <2>1 DEF ProbeInv, EffectInv, Terminal, NoProbe
<1>6. AtMostOnce'
  <2> SUFFICES ASSUME NEW d \in Calls, NEW i \in 1..Len(attempts'[d]),
                      Unsafe(attempts'[d][i])
               PROVE  i = Len(attempts'[d]) /\ pc'[d] \in Terminal
    BY DEF AtMostOnce, Unsafe, RepeatIsSafe
  <2>1. CASE d # c
    BY <2>1, <1>2 DEF EffectInv, AtMostOnce
  <2>2. CASE d = c /\ i \in 1..Len(log)
    BY <2>2, <1>3 DEF EffectInv, AtMostOnce
  <2>3. CASE d = c /\ i = Len(log) + 1
    <3>1. ~RepeatIsSafe(BindingOf(c)) /\ probe[c].applied
      BY <2>3, <1>3, <1>4 DEF Unsafe
    <3>2. pc'[c] \in Terminal
      BY <3>1, UnsafeConcludes DEF EffectInv
    <3>3. QED
      BY <2>3, <3>2, <1>3
  <2>4. QED
    BY <2>1, <2>2, <2>3, <1>3
<1>7. CancelInv'
  <2> SUFFICES ASSUME NEW d \in Calls, NEW i \in 1..Len(attempts'[d]),
                      attempts'[d][i].probe.token_set
               PROVE  /\ d \in canceled
                      /\ pc'[d] \in {"before_attempt"} \cup Terminal
                      /\ attempts'[d][i].kind # "ok"
                      /\ \A j \in (i + 1)..Len(attempts'[d]) :
                           ~attempts'[d][j].probe.entered
    BY DEF CancelInv
  <2>1. CASE d # c
    BY <2>1, <1>2 DEF EffectInv, CancelInv
  <2>2. CASE d = c /\ i \in 1..Len(log)
    <3>1. /\ c \in canceled
          /\ pc[c] \in {"before_attempt"} \cup Terminal
          /\ log[i].kind # "ok"
          /\ \A j \in (i + 1)..Len(log) : ~log[j].probe.entered
      BY <2>2, <1>3 DEF EffectInv, CancelInv
    <3>2. ~new.probe.entered
      BY <3>1, <1>4 DEF NoProbe
    <3>3. \A j \in (i + 1)..(Len(log) + 1) : ~attempts'[c][j].probe.entered
      BY <3>1, <3>2, <1>3
    <3>4. QED
      BY <2>2, <3>1, <3>3, <1>2, <1>3
  <2>3. CASE d = c /\ i = Len(log) + 1
    BY <2>3, <1>2, <1>3, <1>4
  <2>4. QED
    BY <2>1, <2>2, <2>3, <1>3
<1>8. QED
  BY <1>5, <1>6, <1>7 DEF EffectInv

LEMMA EffectInvariance == Spec => []EffectInv
<1>1. TypeOK' /\ EffectInv /\ [Next]_vars => EffectInv'
  <2> SUFFICES ASSUME TypeOK', EffectInv, [Next]_vars
               PROVE  EffectInv'
    OBVIOUS
  <2>1. ASSUME NEW c \in Calls, Start(c) PROVE EffectInv'
    <3>1. ProbeInv'
      BY <2>1 DEF Start, Goto, ProbeInv, EffectInv, TypeOK
    <3>2. pc'[c] = "before_attempt" /\ \A d \in Calls \ {c} : pc'[d] = pc[d]
      BY <2>1 DEF Start, Goto, EffectInv, TypeOK
    <3>3. pc[c] \notin {"before_attempt"} \cup Terminal
      BY <2>1 DEF Start, Terminal
    <3>4. QED
      BY <2>1, <3>1, <3>2, <3>3, LogUndisturbed DEF Start, EffectInv
  <2>2. ASSUME NEW c \in Calls, Cancel(c) PROVE EffectInv'
    <3>1. ProbeInv'
      BY <2>2 DEF Cancel, ProbeInv, EffectInv
    <3>2. QED
      BY <2>2, <3>1, LogUndisturbed DEF Cancel, EffectInv
  <2>3. ASSUME NEW c \in Calls, Step(c) PROVE EffectInv'
    <3>1. CASE CanceledBeforeAttempt(c)
      <4>1. probe[c] = NoProbe /\ pc[c] \notin Terminal
        BY <3>1 DEF CanceledBeforeAttempt, EffectInv, ProbeInv, Terminal
      <4>2. "canceled" \in Outcomes
        BY DEF Outcomes, FailureKinds
      <4>3. QED
        BY <3>1, <4>1, <4>2, SettleEffects DEF CanceledBeforeAttempt, NoProbe
    <3>2. CASE PassCancellationCheck(c)
      <4>1. ProbeInv'
        BY <3>2 DEF PassCancellationCheck, Goto, ProbeInv, EffectInv, TypeOK
      <4>2. \A d \in Calls \ {c} : pc'[d] = pc[d]
        BY <3>2 DEF PassCancellationCheck, Goto, EffectInv, TypeOK
      <4>3. pc[c] \notin Terminal
        BY <3>2 DEF PassCancellationCheck, Terminal
      <4>4. QED
        BY <3>2, <4>1, <4>2, <4>3, LogUndisturbed DEF PassCancellationCheck, EffectInv
    <3>3. CASE Admit(c)
      <4>1. ProbeInv'
        BY <3>3 DEF Admit, Goto, ProbeInv, EffectInv, TypeOK
      <4>2. \A d \in Calls \ {c} : pc'[d] = pc[d]
        BY <3>3 DEF Admit, Goto, EffectInv, TypeOK
      <4>3. pc[c] \notin {"before_attempt"} \cup Terminal
        BY <3>3 DEF Admit, Terminal
      <4>4. QED
        BY <3>3, <4>1, <4>2, <4>3, LogUndisturbed DEF Admit, EffectInv
    <3>4. CASE Reject(c) \/ AdmissionRaises(c)
      <4>1. /\ pc[c] = "admission"
            /\ UNCHANGED canceled
            /\ Settle(c, "backpressure") \/ Settle(c, "execution")
        BY <3>4 DEF Reject, AdmissionRaises
      <4>2. probe[c] = NoProbe /\ pc[c] \notin Terminal
        BY <4>1 DEF EffectInv, ProbeInv, Terminal
      <4>3. {"backpressure", "execution"} \subseteq Outcomes
        BY DEF Outcomes, FailureKinds
      <4>4. QED
        BY <4>1, <4>2, <4>3, SettleEffects DEF NoProbe
    <3>5. CASE DelegateReturns(c)
      <4>1. ProbeInv'
        <5>1. PICK answer \in DelegateResults, ran \in BOOLEAN :
                /\ answer \in {"routing", "backpressure"} => ~ran
                /\ outcome' = [outcome EXCEPT ![c] = answer]
                /\ probe' = [probe EXCEPT ![c] = [entered   |-> TRUE,
                                                  applied   |-> ran,
                                                  token_set |-> c \in canceled]]
          BY <3>5 DEF DelegateReturns
        <5>2. /\ probe'[c].applied = ran
              /\ probe'[c].token_set = (c \in canceled)
              /\ outcome'[c] = answer
              /\ pc'[c] = "release"
              /\ canceled' = canceled
          BY <3>5, <5>1 DEF DelegateReturns, Goto, EffectInv, TypeOK
        <5>3. \A d \in Calls \ {c} : /\ pc'[d] = pc[d]
                                     /\ probe'[d] = probe[d]
                                     /\ outcome'[d] = outcome[d]
          BY <3>5, <5>1 DEF DelegateReturns, Goto, EffectInv, TypeOK
        <5>4. QED
          BY <5>1, <5>2, <5>3 DEF ProbeInv, EffectInv
      <4>2. \A d \in Calls \ {c} : pc'[d] = pc[d]
        BY <3>5 DEF DelegateReturns, Goto, EffectInv, TypeOK
      <4>3. pc[c] \notin {"before_attempt"} \cup Terminal
        BY <3>5 DEF DelegateReturns, Terminal
      <4>4. QED
        BY <3>5, <4>1, <4>2, <4>3, LogUndisturbed DEF DelegateReturns, EffectInv
    <3>6. CASE ReleaseLease(c) \/ ReleaseRaises(c)
      <4>1. /\ pc[c] = "release"
            /\ pc' = [pc EXCEPT ![c] = "returned"]
            /\ outcome' = outcome \/ outcome' = [outcome EXCEPT ![c] = "execution"]
            /\ UNCHANGED <<canceled, probe, attempts>>
        BY <3>6 DEF ReleaseLease, ReleaseRaises, Goto
      <4>2. ProbeInv'
        BY <4>1 DEF ProbeInv, EffectInv, TypeOK
      <4>3. \A d \in Calls \ {c} : pc'[d] = pc[d]
        BY <4>1 DEF EffectInv, TypeOK
      <4>4. pc[c] \notin {"before_attempt"} \cup Terminal
        BY <4>1 DEF Terminal
      <4>5. QED
        BY <4>1, <4>2, <4>3, <4>4, LogUndisturbed DEF EffectInv
    <3>7. CASE Judge(c)
      <4>1. PICK late \in BOOLEAN : Settle(c, Judgement(c, late))
        BY <3>7 DEF Judge
      <4>2. /\ Judgement(c, late) \in Outcomes
            /\ probe[c].applied => Judgement(c, late) \notin {"routing", "backpressure"}
            /\ probe[c].token_set => c \in canceled /\ Judgement(c, late) # "ok"
        BY <3>7 DEF Judge, Judgement, EffectInv, ProbeInv, TypeOK, Outcomes, FailureKinds
      <4>3. pc[c] = "returned" /\ pc[c] \notin Terminal /\ UNCHANGED canceled
        BY <3>7 DEF Judge, Terminal
      <4>4. QED
        BY <4>1, <4>2, <4>3, SettleEffects
    <3>8. QED
      BY <2>3, <3>1, <3>2, <3>3, <3>4, <3>5, <3>6, <3>7 DEF Step, Work
  <2>4. CASE UNCHANGED vars
    BY <2>4 DEF vars, EffectInv, ProbeInv, AtMostOnce, CancelInv, TypeOK
  <2>5. QED
    BY <2>1, <2>2, <2>3, <2>4 DEF Next
<1>2. QED
  BY InitEffects, <1>1, TypeCorrect, PTL DEF Spec

(* A stateful binding without idempotent_execution that may have acted is  *)
(* the last thing the call tries (control.py _effective_classification).   *)
THEOREM EffectsAtMostOnce == Spec => []AtMostOnce
<1>1. EffectInv => AtMostOnce
  BY DEF EffectInv
<1>2. QED
  BY EffectInvariance, <1>1, PTL

(* What the token was set for before the delegate returned is never        *)
(* accepted, and the Cell is not entered again (control.py                 *)
(* _execute_attempt, both checks).                                         *)
THEOREM CancellationRespected == Spec => []CancellationBoundary
<1>1. EffectInv => CancellationBoundary
  BY DEF EffectInv, CancelInv, CancellationBoundary
<1>2. QED
  BY EffectInvariance, <1>1, PTL

-----------------------------------------------------------------------------
(* Refinement: leases are the occupied slots of BindingSlots *)

Occupants == [b \in Bindings |-> Holders(b)]

(* A step that changes no lease and moves no lease holder is a stutter. *)
LEMMA OccupantsUndisturbed ==
  ASSUME NEW c \in Calls, lease' = lease, ~lease[c],
         \A d \in Calls \ {c} : fallback_index'[d] = fallback_index[d]
  PROVE  Occupants' = Occupants
<1>1. \A b \in Bindings : Holders(b)' = Holders(b)
  BY DEF Holders, BindingOf
<1>2. QED
  BY <1>1 DEF Occupants

LEMMA SettleStutters ==
  ASSUME SlotInv, NEW c \in Calls, NEW kind \in Outcomes,
         pc[c] \notin {"delegate", "release"},
         Settle(c, kind), UNCHANGED <<canceled, active, lease>>
  PROVE  Occupants' = Occupants
<1>1. ~lease[c]
  BY DEF SlotInv, LeaseDiscipline
<1>2. \A d \in Calls \ {c} : fallback_index'[d] = fallback_index[d]
  BY SettleFrame DEF SlotInv
<1>3. QED
  BY <1>1, <1>2, OccupantsUndisturbed

(* Admission to a limited binding enters it; to any other it is a stutter. *)
LEMMA AdmitEnters ==
  ASSUME SlotInv, NEW c \in Calls, Admit(c)
  PROVE  [Slots!Next]_Occupants
<1>1. PICK b0 \in Bindings : b0 = BindingOf(c)
  BY BindingType DEF SlotInv
<1>2. \A d \in Calls : BindingOf(d)' = BindingOf(d)
  BY DEF Admit, BindingOf
<1>3. ~lease[c]
  BY DEF SlotInv, LeaseDiscipline, Admit
<1>4. CASE MaxConcurrency[b0] = Unlimited
  <2>1. lease' = [lease EXCEPT ![c] = FALSE]
    BY <1>1, <1>4 DEF Admit
  <2>2. lease' = lease
    BY <2>1, <1>3 DEF SlotInv, TypeOK
  <2>3. \A d \in Calls : fallback_index'[d] = fallback_index[d]
    BY DEF Admit
  <2>4. QED
    BY <2>2, <2>3, <1>3, OccupantsUndisturbed
<1>5. CASE MaxConcurrency[b0] # Unlimited
  <2>1. lease' = [lease EXCEPT ![c] = TRUE] /\ ~Full(b0)
    BY <1>1, <1>5 DEF Admit
  <2>2. Holders(b0)' = Holders(b0) \cup {c}
    BY <2>1, <1>1, <1>2 DEF Holders, SlotInv, TypeOK
  <2>3. \A b \in Bindings \ {b0} : Holders(b)' = Holders(b)
    BY <2>1, <1>1, <1>2 DEF Holders, SlotInv, TypeOK
  <2>4. Occupants' = [Occupants EXCEPT ![b0] = @ \cup {c}]
    BY <2>2, <2>3 DEF Occupants
  <2>5. \A other \in Bindings : c \notin Occupants[other]
    BY <1>3 DEF Occupants, Holders
  <2>6. Cardinality(Occupants[b0]) < MaxConcurrency[b0]
    <3>1. /\ Cardinality(Holders(b0)) <= active[b0]
          /\ active[b0] \in Nat
          /\ MaxConcurrency[b0] \in Nat
      BY <1>5, HintsAssumption DEF SlotInv, TypeOK, CounterBounds
    <3>2. ~(active[b0] >= MaxConcurrency[b0])
      BY <2>1, <1>5 DEF Full
    <3>3. Cardinality(Holders(b0)) < MaxConcurrency[b0]
      BY <3>1, <3>2, HoldersFinite
    <3>4. QED
      BY <3>3 DEF Occupants
  <2>7. Slots!Enter(c, b0)
    <3>1. \A S : Slots!Cardinality(S) = Cardinality(S)
      BY Zenon DEF Cardinality, Slots!Cardinality
    <3>2. Slots!HasRoom(b0)
      BY <2>6, <3>1 DEF Slots!HasRoom, Occupants
    <3>3. QED
      BY <2>4, <2>5, <3>2 DEF Slots!Enter, Occupants
  <2>8. QED
    BY <2>7 DEF Slots!Next
<1>6. QED
  BY <1>4, <1>5

(* Giving a lease back, or losing it, leaves the binding. *)
LEMMA ReleaseLeaves ==
  ASSUME SlotInv, NEW c \in Calls,
         lease' = [lease EXCEPT ![c] = FALSE],
         UNCHANGED fallback_index
  PROVE  [Slots!Next]_Occupants
<1>1. PICK b0 \in Bindings : b0 = BindingOf(c)
  BY BindingType DEF SlotInv
<1>2. \A d \in Calls : BindingOf(d)' = BindingOf(d)
  BY DEF BindingOf
<1>3. CASE ~lease[c]
  <2>1. lease' = lease
    BY <1>3 DEF SlotInv, TypeOK
  <2>2. QED
    BY <2>1, <1>3, OccupantsUndisturbed
<1>4. CASE lease[c]
  <2>1. c \in Holders(b0) /\ Holders(b0)' = Holders(b0) \ {c}
    BY <1>1, <1>2, <1>4 DEF Holders, SlotInv, TypeOK
  <2>2. \A b \in Bindings \ {b0} : Holders(b)' = Holders(b)
    BY <1>1, <1>2 DEF Holders, SlotInv, TypeOK
  <2>3. Occupants' = [Occupants EXCEPT ![b0] = @ \ {c}]
    BY <2>1, <2>2 DEF Occupants
  <2>4. Slots!Leave(c, b0)
    BY <2>1, <2>3 DEF Slots!Leave, Occupants
  <2>5. QED
    BY <2>4 DEF Slots!Next
<1>5. QED
  BY <1>3, <1>4

LEMMA StepsMoveSlots ==
  ASSUME SlotInv, [Next]_vars
  PROVE  [Slots!Next]_Occupants
<1>1. ASSUME NEW c \in Calls, Start(c) \/ Cancel(c)
      PROVE  Occupants' = Occupants
  BY <1>1 DEF Start, Cancel, Occupants, Holders, BindingOf
<1>2. ASSUME NEW c \in Calls, Step(c) PROVE [Slots!Next]_Occupants
  <2>1. CASE CanceledBeforeAttempt(c)
    BY <2>1, SettleStutters DEF CanceledBeforeAttempt, Outcomes, FailureKinds
  <2>2. CASE PassCancellationCheck(c)
    BY <2>2 DEF PassCancellationCheck, Occupants, Holders, BindingOf
  <2>3. CASE Admit(c)
    BY <2>3, AdmitEnters
  <2>4. CASE Reject(c)
    BY <2>4, SettleStutters DEF Reject, Outcomes, FailureKinds
  <2>5. CASE AdmissionRaises(c)
    BY <2>5, SettleStutters DEF AdmissionRaises, Outcomes, FailureKinds
  <2>6. CASE DelegateReturns(c)
    BY <2>6 DEF DelegateReturns, Occupants, Holders, BindingOf
  <2>7. CASE ReleaseLease(c)
    BY <2>7, ReleaseLeaves DEF ReleaseLease
  <2>8. CASE ReleaseRaises(c)
    BY <2>8, ReleaseLeaves DEF ReleaseRaises
  <2>9. CASE Judge(c)
    <3>1. \A late \in BOOLEAN : Judgement(c, late) \in Outcomes
      BY DEF Judgement, SlotInv, TypeOK, Outcomes, FailureKinds
    <3>2. QED
      BY <2>9, <3>1, SettleStutters DEF Judge
  <2>10. QED
    BY <1>2, <2>1, <2>2, <2>3, <2>4, <2>5, <2>6, <2>7, <2>8, <2>9 DEF Step, Work
<1>3. CASE UNCHANGED vars
  BY <1>3 DEF vars, Occupants, Holders, BindingOf
<1>4. QED
  BY <1>1, <1>2, <1>3 DEF Next

(* Whatever order calls admit, retry, fall back and release in, and even   *)
(* if the controller raises, the leases of control.py behave as the slots  *)
(* of BindingSlots: a call occupies one slot at most, and nobody enters a  *)
(* binding without room.                                                   *)
THEOREM LeasesImplementSlots == Spec => ImplementsBindingSlots
<1>1. Init => Slots!Init
  BY DEF Init, Slots!Init, Holders
<1>2. SlotInv /\ [Next]_vars => [Slots!Next]_Occupants
  BY StepsMoveSlots
<1>3. QED
  BY <1>1, <1>2, SlotInvariance, PTL DEF Spec, ImplementsBindingSlots, Slots!Spec, Occupants

-----------------------------------------------------------------------------
(* Refinement: the attempts of a call climb the ladder of AttemptPolicy *)

(* The variable of AttemptPolicy. *)
Standing == [c \in Calls |-> Progress(c)]

LastAttempt(c) == attempts[c][Len(attempts[c])]

(* An unfinished call stands where the policy lets its next attempt be:    *)
(* at the first one, at a permitted retry, or on a permitted next binding. *)
Climb(c) ==
  LET last  == LastAttempt(c)
      rung  == last.fallback_index + 1
      tries == last.binding_attempt_number
  IN  pc[c] \notin Terminal =>
        \/ /\ attempts[c] = << >>
           /\ fallback_index[c] = 0
           /\ binding_attempt[c] = 1
        \/ /\ attempts[c] # << >>
           /\ Policy!MayRetry(c, rung, tries, last.kind)
           /\ fallback_index[c] = last.fallback_index
           /\ binding_attempt[c] = tries + 1
        \/ /\ attempts[c] # << >>
           /\ Policy!MayFallBack(c, rung, tries, last.kind)
           /\ fallback_index[c] = last.fallback_index + 1
           /\ binding_attempt[c] = 1

ClimbInv ==
  /\ TypeOK
  /\ \A c \in Calls : /\ Climb(c)
                      /\ attempts[c] = << >> => pc[c] \notin Terminal

LEMMA LadderRungs ==
  ASSUME NEW c \in Calls
  PROVE  /\ Len(Ladder[c]) = Len(Candidates[c])
         /\ \A i \in 1..Len(Candidates[c]) :
              /\ \A tries \in Nat :
                   /\ (\A budget \in Ladder[c][i].budgets : tries <= budget)
                        <=> tries <= MaxAttempts(c, Candidates[c][i]) - 1
                   /\ (\E budget \in Ladder[c][i].budgets : tries > budget)
                        <=> tries > MaxAttempts(c, Candidates[c][i]) - 1
              /\ Ladder[c][i].repeatable = RepeatIsSafe(Candidates[c][i])
              /\ MaxAttempts(c, Candidates[c][i]) \in Nat
<1> DEFINE n == Len(Candidates[c])
           rungOf(i) == [budgets    |-> {NodeRetries[c], BindingRetries[Candidates[c][i]]},
                         repeatable |-> RepeatIsSafe(Candidates[c][i])]
<1>1. Candidates[c] \in Seq(Bindings) /\ n \in Nat
  BY CandidatesAssumption
<1>2. \A i \in 1..n : MaxAttempts(c, Candidates[c][i]) \in Nat
  <2> SUFFICES ASSUME NEW i \in 1..n
               PROVE  MaxAttempts(c, Candidates[c][i]) \in Nat
    OBVIOUS
  <2>1. Candidates[c][i] \in Bindings
    BY <1>1
  <2>2. NodeRetries[c] \in Nat /\ BindingRetries[Candidates[c][i]] \in Nat
    BY <2>1, HintsAssumption
  <2>3. QED
    BY <2>2 DEF MaxAttempts, Min2
<1>3. Ladder[c] = [i \in 1..n |-> rungOf(i)]
  BY DEF Ladder
<1>4. Len(Ladder[c]) = n
  <2>1. DOMAIN Ladder[c] = 1..n
    BY <1>3
  <2>2. Ladder[c] \in Seq({rungOf(i) : i \in 1..n})
    <3> HIDE DEF rungOf
    <3> QED
      BY <1>1, <1>3
  <2>3. QED
    <3>1. 1..Len(Ladder[c]) = 1..n /\ Len(Ladder[c]) \in Nat
      BY <2>1, <2>2
    <3>2. QED
      BY <3>1, <1>1
<1>5. ASSUME NEW i \in 1..n, NEW tries \in Nat
      PROVE  /\ (\A budget \in Ladder[c][i].budgets : tries <= budget)
                  <=> tries <= MaxAttempts(c, Candidates[c][i]) - 1
             /\ (\E budget \in Ladder[c][i].budgets : tries > budget)
                  <=> tries > MaxAttempts(c, Candidates[c][i]) - 1
  <2>1. Candidates[c][i] \in Bindings
    BY <1>1
  <2>2. PICK own, its : own = NodeRetries[c] /\ its = BindingRetries[Candidates[c][i]]
    OBVIOUS
  <2>3. own \in Nat /\ its \in Nat
    BY <2>1, <2>2, HintsAssumption
  <2>4. Ladder[c][i].budgets = {own, its}
    BY <1>3, <2>2
  <2>5. MaxAttempts(c, Candidates[c][i]) = Min2(own, its) + 1
    BY <2>2 DEF MaxAttempts
  <2>6. CASE own <= its
    <3>1. MaxAttempts(c, Candidates[c][i]) - 1 = own
      BY <2>3, <2>5, <2>6 DEF Min2
    <3>2. QED
      BY <2>3, <2>4, <2>6, <3>1
  <2>7. CASE its < own
    <3>1. MaxAttempts(c, Candidates[c][i]) - 1 = its
      BY <2>3, <2>5, <2>7 DEF Min2
    <3>2. QED
      BY <2>3, <2>4, <2>7, <3>1
  <2>8. QED
    BY <2>3, <2>6, <2>7
<1>6. \A i \in 1..n : Ladder[c][i].repeatable = RepeatIsSafe(Candidates[c][i])
  BY <1>3
<1>7. QED
  <2> HIDE DEF n, rungOf
  <2>1. QED
    BY <1>2, <1>4, <1>5, <1>6, Zenon DEF n

(* The three ends of the loop body are the three verdicts of the policy. *)
LEMMA Verdicts ==
  ASSUME TypeOK, NEW c \in Calls, NEW kind \in Outcomes
  PROVE  LET rung == fallback_index[c] + 1
             tries == binding_attempt[c]
         IN  /\ CanRetry(c, kind) <=> Policy!MayRetry(c, rung, tries, kind)
             /\ ~CanRetry(c, kind) =>
                  (CanFallBack(c, kind) <=> Policy!MayFallBack(c, rung, tries, kind))
<1> DEFINE rung == fallback_index[c] + 1
           tries == binding_attempt[c]
           b == Candidates[c][rung]
<1>1. rung \in 1..Len(Candidates[c]) /\ tries \in Nat \ {0} /\ fallback_index[c] \in Nat
  BY CandidatesAssumption DEF TypeOK
<1>2. /\ Len(Ladder[c]) = Len(Candidates[c])
      /\ Len(Ladder[c]) \in Nat
      /\ (\A budget \in Ladder[c][rung].budgets : tries <= budget)
           <=> tries <= MaxAttempts(c, b) - 1
      /\ (\E budget \in Ladder[c][rung].budgets : tries > budget)
           <=> tries > MaxAttempts(c, b) - 1
      /\ Ladder[c][rung].repeatable = RepeatIsSafe(b)
      /\ MaxAttempts(c, b) \in Nat
  BY <1>1, LadderRungs, CandidatesAssumption
<1>3. BindingOf(c) = b
  BY DEF BindingOf
<1>4. CanRetry(c, kind) <=> (kind \in Ambiguous /\ RepeatIsSafe(b) /\ tries < MaxAttempts(c, b))
  BY <1>3 DEF CanRetry, Retryable
<1>5. Policy!MayRetry(c, rung, tries, kind)
        <=> (kind \in Ambiguous /\ RepeatIsSafe(b) /\ tries <= MaxAttempts(c, b) - 1)
  BY <1>2 DEF Policy!MayRetry, Policy!Ambiguous, Ambiguous
<1>6. tries < MaxAttempts(c, b) <=> tries <= MaxAttempts(c, b) - 1
  BY <1>1, <1>2
<1>7. CanFallBack(c, kind)
        <=> /\ rung < Len(Candidates[c])
            /\ \/ kind \in {"routing", "backpressure"}
               \/ kind \in Ambiguous /\ RepeatIsSafe(b)
  BY <1>1, <1>3 DEF CanFallBack, AllowsFallback
<1>8. Policy!MayFallBack(c, rung, tries, kind)
        <=> /\ rung < Len(Candidates[c])
            /\ \/ kind \in {"routing", "backpressure"}
               \/ kind \in Ambiguous /\ RepeatIsSafe(b) /\ tries > MaxAttempts(c, b) - 1
  BY <1>2 DEF Policy!MayFallBack, Policy!Ambiguous, Policy!Refused, Ambiguous
<1>9. tries > MaxAttempts(c, b) - 1 <=> ~(tries < MaxAttempts(c, b))
  BY <1>1, <1>2
<1>10. QED
  <2> HIDE DEF rung, tries, b
  <2>1. CanRetry(c, kind) <=> Policy!MayRetry(c, rung, tries, kind)
    BY <1>4, <1>5, <1>6
  <2>2. ~CanRetry(c, kind) =>
          (CanFallBack(c, kind) <=> Policy!MayFallBack(c, rung, tries, kind))
    BY <1>4, <1>7, <1>8, <1>9
  <2>3. QED
    BY <2>1, <2>2 DEF rung, tries

(* Recording an attempt is a step of the policy, and leaves the call where *)
(* the policy wants it.                                                    *)
LEMMA SettleClimbs ==
  ASSUME ClimbInv, TypeOK', NEW c \in Calls, NEW kind \in Outcomes,
         pc[c] \notin Terminal, Settle(c, kind)
  PROVE  Policy!Next /\ ClimbInv'
<1> DEFINE rung == fallback_index[c] + 1
           tries == binding_attempt[c]
           entry == Attempt(c, kind, probe[c])
           may == \/ Policy!MayRetry(c, rung, tries, kind)
                  \/ Policy!MayFallBack(c, rung, tries, kind)
<1>1. /\ attempts'[c] # << >>
      /\ LastAttempt(c)' = entry
      /\ entry.kind = kind
      /\ entry.fallback_index = fallback_index[c]
      /\ entry.binding_attempt_number = tries
  <2>1. attempts'[c] = Append(attempts[c], entry) /\ attempts[c] \in Seq(AttemptRecords)
    BY DEF Settle, ClimbInv, TypeOK
  <2>2. Len(attempts[c]) \in Nat /\ Len(attempts'[c]) = Len(attempts[c]) + 1
    BY <2>1
  <2>3. attempts'[c][Len(attempts[c]) + 1] = entry /\ attempts'[c] # << >>
    BY <2>1, <2>2
  <2>4. QED
    BY <2>2, <2>3 DEF LastAttempt, Attempt
<1>2. \A d \in Calls \ {c} : /\ pc'[d] = pc[d]
                             /\ fallback_index'[d] = fallback_index[d]
                             /\ binding_attempt'[d] = binding_attempt[d]
                             /\ attempts'[d] = attempts[d]
  <2>1. \A d \in Calls \ {c} : binding_attempt'[d] = binding_attempt[d]
    BY DEF Settle, RetrySame, FallBack, Conclude, ClimbInv, TypeOK
  <2>2. QED
    BY <2>1, SettleFrame DEF ClimbInv
<1>3. \/ /\ Policy!MayRetry(c, rung, tries, kind)
         /\ pc'[c] = "before_attempt"
         /\ fallback_index'[c] = fallback_index[c]
         /\ binding_attempt'[c] = tries + 1
      \/ /\ Policy!MayFallBack(c, rung, tries, kind)
         /\ pc'[c] = "before_attempt"
         /\ fallback_index'[c] = fallback_index[c] + 1
         /\ binding_attempt'[c] = 1
      \/ ~may /\ pc'[c] = ControlStatus(kind)
  <2>1. CASE RetrySame(c, kind)
    <3>1. Policy!MayRetry(c, rung, tries, kind)
      BY <2>1, Verdicts DEF RetrySame, ClimbInv
    <3>2. QED
      BY <2>1, <3>1 DEF RetrySame, Goto, ClimbInv, TypeOK
  <2>2. CASE FallBack(c, kind)
    <3>1. Policy!MayFallBack(c, rung, tries, kind)
      BY <2>2, Verdicts DEF FallBack, ClimbInv
    <3>2. QED
      BY <2>2, <3>1 DEF FallBack, Goto, ClimbInv, TypeOK
  <2>3. CASE Conclude(c, kind)
    <3>1. ~may
      BY <2>3, Verdicts DEF Conclude, ClimbInv
    <3>2. pc'[c] = ControlStatus(kind)
      BY <2>3 DEF Conclude, Goto, ClimbInv, TypeOK
    <3>3. QED
      BY <3>1, <3>2
  <2>4. QED
    BY <2>1, <2>2, <2>3 DEF Settle
<1>4. may => kind \in Policy!Ambiguous \cup Policy!Refused
  BY DEF Policy!MayRetry, Policy!MayFallBack
<1>5. Progress(c)' = [status |-> Policy!StatusAfter(c, rung, tries, kind),
                      last |-> kind, rung |-> rung, tries |-> tries]
  <2>1. (IF pc'[c] \in Terminal THEN pc'[c] ELSE "running")
          = Policy!StatusAfter(c, rung, tries, kind)
    <3>1. CASE may
      <4>1. pc'[c] = "before_attempt" /\ "before_attempt" \notin Terminal
        BY <1>3, <3>1 DEF Terminal
      <4>2. kind # "ok" /\ kind # "canceled"
        BY <1>4, <3>1 DEF Policy!Ambiguous, Policy!Refused
      <4>3. Policy!StatusAfter(c, rung, tries, kind) = "running"
        BY <3>1, <4>2 DEF Policy!StatusAfter
      <4>4. QED
        BY <4>1, <4>3
    <3>2. CASE ~may
      <4>1. pc'[c] = ControlStatus(kind)
        BY <1>3, <3>2
      <4>2. ControlStatus(kind) = Policy!StatusAfter(c, rung, tries, kind)
        BY <3>2 DEF ControlStatus, Policy!StatusAfter
      <4>3. ControlStatus(kind) \in Terminal
        BY DEF ControlStatus, Terminal
      <4>4. QED
        BY <4>1, <4>2, <4>3
    <3>3. QED
      BY <3>1, <3>2
  <2>2. QED
    BY <1>1, <2>1 DEF Progress, LastAttempt
<1>6. \A d \in Calls \ {c} : Progress(d)' = Progress(d)
  BY <1>2 DEF Progress
<1>7. [d \in Calls |-> Progress(d)]' =
        [[d \in Calls |-> Progress(d)] EXCEPT ![c] =
           [status |-> Policy!StatusAfter(c, rung, tries, kind),
            last |-> kind, rung |-> rung, tries |-> tries]]
  BY <1>5, <1>6
<1>8. kind \in Policy!Answers
  BY DEF Outcomes, FailureKinds, Policy!Answers, Policy!Ambiguous,
         Policy!Refused, Policy!Decisive
<1>9. Policy!AttemptOn(c, rung, tries)
  BY <1>7, <1>8 DEF Policy!AttemptOn
<1>10. Policy!Next
  <2>1. CASE attempts[c] = << >>
    <3>1. rung = 1 /\ tries = 1
      BY <2>1 DEF ClimbInv, Climb
    <3>2. Progress(c).status = "planned"
      BY <2>1 DEF Progress
    <3>3. Policy!First(c)
      BY <1>9, <3>1, <3>2 DEF Policy!First
    <3>4. QED
      BY <3>3 DEF Policy!Next
  <2>2. CASE attempts[c] # << >>
    <3> DEFINE last == LastAttempt(c)
    <3>1. Progress(c) = [status |-> "running", last |-> last.kind,
                         rung |-> last.fallback_index + 1,
                         tries |-> last.binding_attempt_number]
      BY <2>2 DEF Progress, LastAttempt
    <3>2. CASE /\ Policy!MayRetry(c, last.fallback_index + 1,
                                  last.binding_attempt_number, last.kind)
               /\ fallback_index[c] = last.fallback_index
               /\ binding_attempt[c] = last.binding_attempt_number + 1
      <4>1. Policy!Retry(c)
        BY <1>9, <3>1, <3>2 DEF Policy!Retry
      <4>2. QED
        BY <4>1 DEF Policy!Next
    <3>3. CASE /\ Policy!MayFallBack(c, last.fallback_index + 1,
                                     last.binding_attempt_number, last.kind)
               /\ fallback_index[c] = last.fallback_index + 1
               /\ binding_attempt[c] = 1
      <4>1. Policy!NextBinding(c)
        BY <1>9, <3>1, <3>3 DEF Policy!NextBinding
      <4>2. QED
        BY <4>1 DEF Policy!Next
    <3>4. QED
      BY <2>2, <3>2, <3>3 DEF ClimbInv, Climb
  <2>3. QED
    BY <2>1, <2>2
<1>11. Climb(c)'
  <2>1. CASE ~may
    <3>1. pc'[c] \in Terminal
      BY <1>3, <2>1 DEF ControlStatus, Terminal
    <3>2. QED
      BY <3>1 DEF Climb
  <2>2. CASE may
    BY <1>1, <1>3, <2>2 DEF Climb
  <2>3. QED
    BY <2>1, <2>2
<1>12. \A d \in Calls \ {c} : /\ Climb(d)'
                              /\ attempts'[d] = << >> => pc'[d] \notin Terminal
  BY <1>2 DEF ClimbInv, Climb, LastAttempt
<1>13. ClimbInv'
  BY <1>1, <1>11, <1>12 DEF ClimbInv
<1>14. QED
  BY <1>10, <1>13

(* A step that records no attempt and ends no call is a stutter. *)
LEMMA ClimbUndisturbed ==
  ASSUME ClimbInv, TypeOK',
         UNCHANGED <<fallback_index, binding_attempt, attempts>>,
         \A d \in Calls : pc'[d] \in Terminal <=> pc[d] \in Terminal,
         \A d \in Calls : pc[d] \in Terminal => pc'[d] = pc[d]
  PROVE  /\ ClimbInv'
         /\ [d \in Calls |-> Progress(d)]' = [d \in Calls |-> Progress(d)]
<1>1. \A d \in Calls : Progress(d)' = Progress(d)
  BY DEF Progress
<1>2. ClimbInv'
  BY DEF ClimbInv, Climb, LastAttempt
<1>3. QED
  BY <1>1, <1>2

LEMMA StepsClimb ==
  ASSUME ClimbInv, TypeOK', [Next]_vars
  PROVE  ClimbInv' /\ [Policy!Next]_([d \in Calls |-> Progress(d)])
<1>1. ASSUME NEW c \in Calls, Start(c) \/ Cancel(c) \/ PassCancellationCheck(c)
                              \/ Admit(c) \/ DelegateReturns(c)
                              \/ ReleaseLease(c) \/ ReleaseRaises(c)
      PROVE  /\ ClimbInv'
             /\ [d \in Calls |-> Progress(d)]' = [d \in Calls |-> Progress(d)]
  <2>1. UNCHANGED <<fallback_index, binding_attempt, attempts>>
    BY <1>1 DEF Start, Cancel, PassCancellationCheck, Admit, DelegateReturns,
                ReleaseLease, ReleaseRaises
  <2>2. \/ pc' = pc
        \/ /\ pc[c] \notin Terminal
           /\ \E place \in {"before_attempt", "admission", "delegate", "release",
                            "returned"} : pc' = [pc EXCEPT ![c] = place]
    BY <1>1 DEF Start, Cancel, PassCancellationCheck, Admit, DelegateReturns,
                ReleaseLease, ReleaseRaises, Goto, Terminal
  <2>3. pc \in [Calls -> Places]
    BY DEF ClimbInv, TypeOK
  <2>4. \A d \in Calls : /\ pc'[d] \in Terminal <=> pc[d] \in Terminal
                         /\ pc[d] \in Terminal => pc'[d] = pc[d]
    BY <2>2, <2>3 DEF Terminal
  <2>5. QED
    BY <2>1, <2>4, ClimbUndisturbed
<1>2. ASSUME NEW c \in Calls, CanceledBeforeAttempt(c) \/ Reject(c)
                              \/ AdmissionRaises(c) \/ Judge(c)
      PROVE  ClimbInv' /\ Policy!Next
  <2>1. pc[c] \notin Terminal
    BY <1>2 DEF CanceledBeforeAttempt, Reject, AdmissionRaises, Judge, Terminal
  <2>2. \A late \in BOOLEAN : Judgement(c, late) \in Outcomes
    BY DEF Judgement, ClimbInv, TypeOK, Outcomes, FailureKinds
  <2>3. PICK kind \in Outcomes : Settle(c, kind)
    BY <1>2, <2>2 DEF CanceledBeforeAttempt, Reject, AdmissionRaises, Judge,
                      Outcomes, FailureKinds
  <2>4. QED
    BY <2>1, <2>3, SettleClimbs
<1>3. CASE UNCHANGED vars
  BY <1>3, ClimbUndisturbed DEF vars
<1>4. QED
  BY <1>1, <1>2, <1>3 DEF Next, Step, Work

(* Attempts follow ADR-0005 for every ladder, budget and answer: the       *)
(* budget of a binding first, then the next one, and an end when neither   *)
(* is permitted (control.py execute).                                      *)
THEOREM LoopImplementsPolicy == Spec => ImplementsAttemptPolicy
<1>1. Init => ClimbInv
  BY InitType DEF Init, ClimbInv, Climb, Terminal
<1>2. Init => Policy!Init
  BY DEF Init, Policy!Init, Policy!Planned, Progress
<1>3. ClimbInv /\ TypeOK' /\ [Next]_vars
        => ClimbInv' /\ [Policy!Next]_Standing
  BY StepsClimb DEF Standing
<1>4. QED
  BY <1>1, <1>2, <1>3, TypeCorrect, PTL DEF Spec, ImplementsAttemptPolicy, Policy!Spec, Standing

-----------------------------------------------------------------------------
(* The control record *)

OnRung(log, i) == {j \in 1..i : log[j].fallback_index = log[i].fallback_index}

(* A log of attempts walks the candidates from the first one, never back,   *)
(* and numbers the attempts on each of them from 1.                         *)
Walks(log, bindings) ==
  /\ Len(log) > 0 => log[1].fallback_index = 0
  /\ \A i \in 1..Len(log) :
       /\ log[i].fallback_index < Len(bindings)
       /\ log[i].binding_id = bindings[log[i].fallback_index + 1]
       /\ i > 1 => log[i].fallback_index - log[i - 1].fallback_index \in {0, 1}
       /\ log[i].binding_attempt_number = Cardinality(OnRung(log, i))
       /\ log[i].fallback_index <= log[Len(log)].fallback_index

RecordInv ==
  \A c \in Calls :
    /\ Walks(attempts[c], Candidates[c])
    /\ pc[c] \in Terminal => pc[c] = ControlStatus(LastAttempt(c).kind)

(* One more attempt: the first one, one more on the same binding, or the    *)
(* first one on the next binding.                                           *)
LEMMA OneMoreAttempt ==
  ASSUME NEW log \in Seq(AttemptRecords), NEW bindings, Walks(log, bindings),
         NEW e \in AttemptRecords,
         e.fallback_index < Len(bindings),
         e.binding_id = bindings[e.fallback_index + 1],
         LET last == log[Len(log)] IN
         \/ log = << >> /\ e.fallback_index = 0 /\ e.binding_attempt_number = 1
         \/ /\ log # << >> /\ e.fallback_index = last.fallback_index
            /\ e.binding_attempt_number = last.binding_attempt_number + 1
         \/ /\ log # << >> /\ e.fallback_index = last.fallback_index + 1
            /\ e.binding_attempt_number = 1
  PROVE  Walks(Append(log, e), bindings)
<1> DEFINE n == Len(log)
           more == Append(log, e)
<1>1. /\ n \in Nat /\ Len(more) = n + 1 /\ more[n + 1] = e
      /\ \A i \in 1..n : more[i] = log[i] /\ log[i] \in AttemptRecords
      /\ log # << >> => n \in 1..n
      /\ log = << >> => n = 0
  OBVIOUS
<1> HIDE DEF more
<1>2. \A i \in 1..n : log[i].fallback_index \in Nat /\ e.fallback_index \in Nat
  BY <1>1 DEF AttemptRecords
<1>3. \A i \in 1..n : log[i].fallback_index <= e.fallback_index
  <2> SUFFICES ASSUME NEW i \in 1..n
               PROVE  log[i].fallback_index <= e.fallback_index
    OBVIOUS
  <2>1. log[i].fallback_index <= log[n].fallback_index /\ log # << >> /\ n \in 1..n
    BY <1>1 DEF Walks
  <2> QED
    BY <2>1, <1>1, <1>2
<1>4. \A i \in 1..n : OnRung(more, i) = OnRung(log, i)
  BY <1>1 DEF OnRung
<1>5. e.binding_attempt_number = Cardinality(OnRung(more, n + 1))
  <2>1. OnRung(more, n + 1) =
          {j \in 1..n : log[j].fallback_index = e.fallback_index} \cup {n + 1}
    BY <1>1 DEF OnRung
  <2>2. CASE log = << >>
    <3>1. OnRung(more, n + 1) = {n + 1} /\ e.binding_attempt_number = 1
      BY <2>1, <2>2, <1>1
    <3> QED
      BY <3>1, FS_Singleton
  <2>3. CASE log # << >> /\ e.fallback_index = log[n].fallback_index
    <3>1. e.binding_attempt_number = log[n].binding_attempt_number + 1
      BY <2>3, <1>1, <1>2
    <3>2. OnRung(more, n + 1) = OnRung(log, n) \cup {n + 1}
      BY <2>1, <2>3 DEF OnRung
    <3>3. IsFiniteSet(OnRung(log, n)) /\ n + 1 \notin OnRung(log, n)
      <4>1. IsFiniteSet(1..n) /\ OnRung(log, n) \in SUBSET (1..n)
        BY <1>1, FS_Interval DEF OnRung
      <4> QED
        BY <4>1, <1>1, FS_Subset
    <3>4. log[n].binding_attempt_number = Cardinality(OnRung(log, n))
      BY <2>3, <1>1 DEF Walks
    <3> QED
      BY <3>1, <3>2, <3>3, <3>4, FS_AddElement
  <2>4. CASE log # << >> /\ e.fallback_index = log[n].fallback_index + 1
    <3>1. \A j \in 1..n : log[j].fallback_index # e.fallback_index
      BY <2>4, <1>1, <1>2 DEF Walks
    <3>2. OnRung(more, n + 1) = {n + 1}
      BY <2>1, <3>1
    <3>3. e.binding_attempt_number = 1
      BY <2>4, <1>1, <1>2
    <3> QED
      BY <3>2, <3>3, FS_Singleton
  <2> QED
    BY <2>2, <2>3, <2>4
<1>6. \A i \in 1..(n + 1) : i > 1 =>
        more[i].fallback_index - more[i - 1].fallback_index \in {0, 1}
  <2> SUFFICES ASSUME NEW i \in 1..(n + 1), i > 1
               PROVE  more[i].fallback_index - more[i - 1].fallback_index \in {0, 1}
    OBVIOUS
  <2>1. CASE i \in 1..n
    <3>1. i - 1 \in 1..n
      BY <2>1, <1>1
    <3> QED
      BY <2>1, <3>1, <1>1 DEF Walks
  <2>2. CASE i = n + 1
    <3>1. log # << >> /\ i - 1 = n /\ n \in 1..n
      BY <2>2, <1>1
    <3> QED
      BY <2>2, <3>1, <1>1, <1>2
  <2> QED
    BY <2>1, <2>2, <1>1
<1>7. \A i \in 1..(n + 1) :
        /\ more[i].fallback_index < Len(bindings)
        /\ more[i].binding_id = bindings[more[i].fallback_index + 1]
        /\ more[i].binding_attempt_number = Cardinality(OnRung(more, i))
        /\ more[i].fallback_index <= more[n + 1].fallback_index
  <2>1. \A i \in 1..n :
          /\ more[i].fallback_index < Len(bindings)
          /\ more[i].binding_id = bindings[more[i].fallback_index + 1]
          /\ more[i].binding_attempt_number = Cardinality(OnRung(more, i))
          /\ more[i].fallback_index <= more[n + 1].fallback_index
    BY <1>1, <1>3, <1>4 DEF Walks
  <2>2. more[n + 1].fallback_index <= more[n + 1].fallback_index
    BY <1>1 DEF AttemptRecords
  <2>3. \A i \in 1..(n + 1) : i \in 1..n \/ i = n + 1
    BY <1>1
  <2> QED
    BY <2>1, <2>2, <2>3, <1>1, <1>5
<1>8. more[1].fallback_index = 0
  BY <1>1 DEF Walks
<1> QED
  BY <1>1, <1>6, <1>7, <1>8 DEF Walks, more

(* What an unfinished call records next carries its log on. *)
LEMMA SettleRecords ==
  ASSUME ClimbInv, RecordInv, NEW c \in Calls, NEW kind \in Outcomes,
         pc[c] \notin Terminal, Settle(c, kind)
  PROVE  RecordInv'
<1> DEFINE entry == Attempt(c, kind, probe[c])
<1>1. /\ attempts[c] \in Seq(AttemptRecords) /\ entry \in AttemptRecords
      /\ Walks(attempts[c], Candidates[c])
  BY BindingType DEF ClimbInv, TypeOK, RecordInv, Attempt, AttemptRecords
<1>2. /\ entry.fallback_index = fallback_index[c]
      /\ entry.binding_attempt_number = binding_attempt[c]
      /\ entry.binding_id = Candidates[c][fallback_index[c] + 1]
      /\ entry.kind = kind
  BY DEF Attempt, BindingOf
<1>3. fallback_index[c] < Len(Candidates[c])
  BY DEF ClimbInv, TypeOK
<1>4. LET last == attempts[c][Len(attempts[c])] IN
      \/ attempts[c] = << >> /\ fallback_index[c] = 0 /\ binding_attempt[c] = 1
      \/ /\ attempts[c] # << >> /\ fallback_index[c] = last.fallback_index
         /\ binding_attempt[c] = last.binding_attempt_number + 1
      \/ /\ attempts[c] # << >> /\ fallback_index[c] = last.fallback_index + 1
         /\ binding_attempt[c] = 1
  BY DEF ClimbInv, Climb, LastAttempt
<1> HIDE DEF entry
<1>5. Walks(Append(attempts[c], entry), Candidates[c])
  BY <1>1, <1>2, <1>3, <1>4, OneMoreAttempt
<1>6. /\ attempts'[c] = Append(attempts[c], entry)
      /\ \A d \in Calls \ {c} : pc'[d] = pc[d] /\ attempts'[d] = attempts[d]
      /\ pc'[c] \in {"before_attempt"} \cup Terminal
  BY SettleFrame DEF ClimbInv, entry
<1>7. pc'[c] \in Terminal => pc'[c] = ControlStatus(kind)
  BY DEF Settle, RetrySame, FallBack, Conclude, Goto, ClimbInv, TypeOK, Terminal
<1>8. LastAttempt(c)'.kind = kind
  <2>1. /\ Len(attempts'[c]) = Len(attempts[c]) + 1
        /\ attempts'[c][Len(attempts[c]) + 1] = entry
    BY <1>1, <1>6
  <2> QED
    BY <2>1, <1>2 DEF LastAttempt
<1> QED
  BY <1>5, <1>6, <1>7, <1>8 DEF RecordInv, LastAttempt

LEMMA StepsRecord ==
  ASSUME ClimbInv, RecordInv, [Next]_vars
  PROVE  RecordInv'
<1>1. ASSUME NEW c \in Calls, Start(c) \/ Cancel(c) \/ PassCancellationCheck(c)
                              \/ Admit(c) \/ DelegateReturns(c)
                              \/ ReleaseLease(c) \/ ReleaseRaises(c)
      PROVE  RecordInv'
  <2>1. UNCHANGED attempts
    BY <1>1 DEF Start, Cancel, PassCancellationCheck, Admit, DelegateReturns,
                ReleaseLease, ReleaseRaises
  <2>2. \/ pc' = pc
        \/ \E place \in {"before_attempt", "admission", "delegate", "release",
                         "returned"} : pc' = [pc EXCEPT ![c] = place]
    BY <1>1 DEF Start, Cancel, PassCancellationCheck, Admit, DelegateReturns,
                ReleaseLease, ReleaseRaises, Goto
  <2>3. pc \in [Calls -> Places]
    BY DEF ClimbInv, TypeOK
  <2>4. \A d \in Calls : pc'[d] \in Terminal => pc'[d] = pc[d]
    BY <2>2, <2>3 DEF Terminal
  <2> QED
    BY <2>1, <2>4 DEF RecordInv, LastAttempt
<1>2. ASSUME NEW c \in Calls, CanceledBeforeAttempt(c) \/ Reject(c)
                              \/ AdmissionRaises(c) \/ Judge(c)
      PROVE  RecordInv'
  <2>1. pc[c] \notin Terminal
    BY <1>2 DEF CanceledBeforeAttempt, Reject, AdmissionRaises, Judge, Terminal
  <2>2. \A late \in BOOLEAN : Judgement(c, late) \in Outcomes
    BY DEF Judgement, ClimbInv, TypeOK, Outcomes, FailureKinds
  <2>3. PICK kind \in Outcomes : Settle(c, kind)
    BY <1>2, <2>2 DEF CanceledBeforeAttempt, Reject, AdmissionRaises, Judge,
                      Outcomes, FailureKinds
  <2> QED
    BY <2>1, <2>3, SettleRecords
<1>3. CASE UNCHANGED vars
  BY <1>3 DEF vars, RecordInv, LastAttempt
<1> QED
  BY <1>1, <1>2, <1>3 DEF Next, Step, Work

(* ExecutionControlRecord.__post_init__ and the loop of execute() are       *)
(* written apart from each other: whatever ladder, budgets, answers and     *)
(* cancellations a call meets, the record it ends in is one its own         *)
(* constructor accepts, with the status the call ended in.                  *)
THEOREM RecordsAccepted == Spec => []RecordWellFormed
<1>1. Init => RecordInv
  BY DEF Init, RecordInv, Walks, Terminal
<1>2. Init => ClimbInv
  BY InitType DEF Init, ClimbInv, Climb, Terminal
<1>3. ClimbInv /\ RecordInv /\ [Next]_vars => RecordInv'
  BY StepsRecord
<1>4. ClimbInv /\ TypeOK' /\ [Next]_vars => ClimbInv'
  BY StepsClimb
<1>5. ASSUME ClimbInv, RecordInv PROVE RecordWellFormed
  <2> SUFFICES ASSUME NEW c \in Calls, pc[c] \in Terminal
               PROVE  RecordAccepted(ControlRecord(c)) /\ pc[c] = ControlRecord(c).status
    BY DEF RecordWellFormed
  <2> DEFINE log == attempts[c]
             n == Len(log)
             r == ControlRecord(c)
             ranks == {log[i].fallback_index : i \in 1..n}
  <2>1. log # << >> /\ log \in Seq(AttemptRecords)
    BY <1>5 DEF ClimbInv, TypeOK
  <2>2. n \in Nat \ {0} /\ n \in 1..n
    BY <2>1
  <2>3. Walks(log, Candidates[c]) /\ pc[c] = ControlStatus(log[n].kind)
    BY <1>5 DEF RecordInv, LastAttempt
  <2>4. /\ r.attempts = log /\ r.binding_ids = Candidates[c]
        /\ r.status = ControlStatus(log[n].kind)
        /\ r.retry_count = Cardinality({i \in 1..n : log[i].binding_attempt_number > 1})
        /\ r.fallback_count = CHOOSE m \in ranks : \A i \in 1..n : log[i].fallback_index <= m
        /\ r.final_binding_id = log[n].binding_id /\ r.final_failure_kind = log[n].kind
    BY DEF ControlRecord
  <2>5. \A i \in 1..n : log[i].fallback_index <= r.fallback_count
    <3>1. log[n].fallback_index \in ranks
          /\ \A i \in 1..n : log[i].fallback_index <= log[n].fallback_index
      BY <2>2, <2>3 DEF Walks
    <3> HIDE DEF ranks
    <3> QED
      BY <3>1, <2>4
  <2> HIDE DEF r, log
  <2>6. RecordAccepted(r)
    <3>1. Len(log) > 0 /\ log[1].fallback_index = 0
      BY <2>2, <2>3 DEF Walks
    <3>2. \A i \in 1..Len(log) :
            /\ log[i].fallback_index < Len(r.binding_ids)
            /\ log[i].binding_id = r.binding_ids[log[i].fallback_index + 1]
            /\ i > 1 => log[i].fallback_index - log[i - 1].fallback_index \in {0, 1}
            /\ log[i].binding_attempt_number =
                 Cardinality({j \in 1..i : log[j].fallback_index = log[i].fallback_index})
      BY <2>3, <2>4 DEF Walks, OnRung
    <3>3. r.retry_count = Cardinality({i \in 1..Len(log) : log[i].binding_attempt_number > 1})
      BY <2>4
    <3>4. /\ r.final_binding_id = log[Len(log)].binding_id
          /\ r.final_failure_kind = log[Len(log)].kind
          /\ r.status = ControlStatus(log[Len(log)].kind)
      BY <2>4
    <3>5. log = r.attempts
      BY <2>4
    <3> QED
      BY <2>5, <3>1, <3>2, <3>3, <3>4, <3>5 DEF RecordAccepted
  <2> QED
    BY <2>3, <2>4, <2>6 DEF r
<1> QED
  BY <1>1, <1>2, <1>3, <1>4, <1>5, TypeCorrect, PTL DEF Spec
=============================================================================
