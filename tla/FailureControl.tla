--------------------------- MODULE FailureControl ---------------------------
(***************************************************************************)
(* FailureControlledExecutor.execute: the retry, fallback, deadline,       *)
(* admission and cancellation rules applied to one plan node.  Several     *)
(* calls run at once on different threads (one per analysis run) and share *)
(* one InMemoryConcurrencyAdmissionController.                             *)
(*                                                                         *)
(* A call reads the shared state (cancellation token, active counters)     *)
(* only at the points that separate its steps; everything between two such *)
(* points is one action.  A step is one of                                 *)
(*   Start, PassCancellationCheck, CanceledBeforeAttempt, Admit, Reject,   *)
(*   AdmissionRaises, DelegateReturns, ReleaseLease, ReleaseRaises, Judge. *)
(***************************************************************************)
EXTENDS Integers, Sequences, FiniteSets

CONSTANTS
  Calls,            \* concurrent execute() calls
  Bindings,         \* service bindings, shared by the calls
  Candidates,       \* [Calls -> Seq(Bindings)]: primary, then the fallbacks
  NodeRetries,      \* [Calls -> Nat]: node.resource_hints.max_retries
  BindingRetries,   \* [Bindings -> Nat]: binding.resource_hints.max_retries
  MaxConcurrency,   \* [Bindings -> Nat \ {0}], or Unlimited for None
  Unlimited,
  Stateful,         \* bindings that declare resource_hints.stateful
  Idempotent,       \* bindings with the idempotent_execution capability
  DelegateResults,  \* what the delegate may answer: "ok" or a failure kind
  AdmissionFaults   \* TRUE when the injected admission controller may raise

FailureKinds == {"routing", "dispatch", "execution", "timeout",
                 "backpressure", "canceled", "contract"}

ASSUME CallsAssumption == IsFiniteSet(Calls)

ASSUME CandidatesAssumption ==
  \* A validated plan has no duplicate fallback and no primary among them.
  /\ Candidates \in [Calls -> Seq(Bindings)]
  /\ \A c \in Calls :
       /\ Len(Candidates[c]) > 0
       /\ \A i, j \in 1..Len(Candidates[c]) :
            Candidates[c][i] = Candidates[c][j] => i = j

ASSUME HintsAssumption ==
  /\ NodeRetries \in [Calls -> Nat]
  /\ BindingRetries \in [Bindings -> Nat]
  /\ Unlimited \notin Nat
  /\ MaxConcurrency \in [Bindings -> (Nat \ {0}) \cup {Unlimited}]
  /\ Stateful \subseteq Bindings
  /\ Idempotent \subseteq Bindings

ASSUME EnvironmentAssumption ==
  /\ DelegateResults \subseteq FailureKinds \cup {"ok"}
  /\ AdmissionFaults \in BOOLEAN

VARIABLES
  canceled,         \* calls whose CancellationToken is set
  active,           \* _active_by_binding; a missing key is 0
  pc,               \* where each call is
  fallback_index,   \* index of the current candidate, from 0
  binding_attempt,  \* binding_attempt_number, from 1
  outcome,          \* what the current attempt has answered so far
  lease,            \* TRUE while the call holds a counted slot
  probe,            \* history: what the current attempt did outside
  attempts          \* the attempt records of the call

vars == <<canceled, active, pc, fallback_index, binding_attempt, outcome,
          lease, probe, attempts>>

-----------------------------------------------------------------------------
(* Data *)

Terminal == {"succeeded", "failed", "canceled"}
Places   == {"idle", "before_attempt", "admission", "delegate", "release",
             "returned"} \cup Terminal
Outcomes == FailureKinds \cup {"ok"}

(* entered: the delegate was called.  applied: the Cell may have acted.    *)
(* token_set: the token was set by the time the delegate returned.         *)
Probes == [entered : BOOLEAN, applied : BOOLEAN, token_set : BOOLEAN]
NoProbe == [entered |-> FALSE, applied |-> FALSE, token_set |-> FALSE]

Min2(a, b) == IF a <= b THEN a ELSE b

BindingOf(c) == Candidates[c][fallback_index[c] + 1]

(* Bug: the node's own limit forgotten. *)
MaxAttemptsOfBinding(c, b) == BindingRetries[b] + 1

MaxAttempts(c, b) == Min2(NodeRetries[c], BindingRetries[b]) + 1

RepeatIsSafe(b) == b \notin Stateful \/ b \in Idempotent

Ambiguous == {"dispatch", "timeout"}

(* Bug: the stateful rule forgotten. *)
RetryableAlways(b, kind) == kind \in Ambiguous

(* DefaultFailureClassifier, narrowed by _effective_classification.        *)
Retryable(b, kind) == kind \in Ambiguous /\ RepeatIsSafe(b)
AllowsFallback(b, kind) ==
  \/ kind \in {"routing", "backpressure"}
  \/ kind \in Ambiguous /\ RepeatIsSafe(b)

Attempt(c, kind, p) ==
  [binding_id             |-> BindingOf(c),
   fallback_index         |-> fallback_index[c],
   binding_attempt_number |-> binding_attempt[c],
   kind                   |-> kind,
   probe                  |-> p]

AttemptRecords == [binding_id             : Bindings,
                   fallback_index         : Nat,
                   binding_attempt_number : Nat \ {0},
                   kind                   : Outcomes,
                   probe                  : Probes]

ControlStatus(kind) ==
  CASE kind = "ok"       -> "succeeded"
    [] kind = "canceled" -> "canceled"
    [] OTHER             -> "failed"

-----------------------------------------------------------------------------
TypeOK ==
  /\ canceled \in SUBSET Calls
  /\ active \in [Bindings -> Nat]
  /\ pc \in [Calls -> Places]
  /\ fallback_index \in [Calls -> Nat]
  /\ \A c \in Calls : fallback_index[c] < Len(Candidates[c])
  /\ binding_attempt \in [Calls -> Nat \ {0}]
  /\ outcome \in [Calls -> Outcomes]
  /\ lease \in [Calls -> BOOLEAN]
  /\ probe \in [Calls -> Probes]
  /\ attempts \in [Calls -> Seq(AttemptRecords)]

Init ==
  /\ canceled = {}
  /\ active = [b \in Bindings |-> 0]
  /\ pc = [c \in Calls |-> "idle"]
  /\ fallback_index = [c \in Calls |-> 0]
  /\ binding_attempt = [c \in Calls |-> 1]
  /\ outcome = [c \in Calls |-> "ok"]
  /\ lease = [c \in Calls |-> FALSE]
  /\ probe = [c \in Calls |-> NoProbe]
  /\ attempts = [c \in Calls |-> << >>]

Goto(c, place) == pc' = [pc EXCEPT ![c] = place]

(* Bug: the number of candidates taken for the last index. *)
CanFallBackPastEnd(c, kind) ==
  /\ AllowsFallback(BindingOf(c), kind)
  /\ fallback_index[c] < Len(Candidates[c])

(* The loop body after _execute_attempt: record the attempt, then accept,  *)
(* retry the same binding, fall back to the next one, or give up.          *)
CanRetry(c, kind) ==
  /\ Retryable(BindingOf(c), kind)
  /\ binding_attempt[c] < MaxAttempts(c, BindingOf(c))
CanFallBack(c, kind) ==
  /\ AllowsFallback(BindingOf(c), kind)
  /\ fallback_index[c] + 1 < Len(Candidates[c])

RetrySame(c, kind) ==
  /\ CanRetry(c, kind)
  /\ binding_attempt' = [binding_attempt EXCEPT ![c] = @ + 1]
  /\ Goto(c, "before_attempt")
  /\ UNCHANGED fallback_index

(* Bug: binding_attempt_number carried over to the next binding. *)
FallBackKeepsCount(c, kind) ==
  /\ ~CanRetry(c, kind)
  /\ CanFallBack(c, kind)
  /\ fallback_index' = [fallback_index EXCEPT ![c] = @ + 1]
  /\ Goto(c, "before_attempt")
  /\ UNCHANGED binding_attempt

FallBack(c, kind) ==
  /\ ~CanRetry(c, kind)
  /\ CanFallBack(c, kind)
  /\ fallback_index' = [fallback_index EXCEPT ![c] = @ + 1]
  /\ binding_attempt' = [binding_attempt EXCEPT ![c] = 1]
  /\ Goto(c, "before_attempt")

Conclude(c, kind) ==
  /\ ~CanRetry(c, kind)
  /\ ~CanFallBack(c, kind)
  /\ Goto(c, ControlStatus(kind))
  /\ UNCHANGED <<fallback_index, binding_attempt>>

Settle(c, kind) ==
  /\ attempts' = [attempts EXCEPT ![c] = Append(@, Attempt(c, kind, probe[c]))]
  /\ outcome' = [outcome EXCEPT ![c] = kind]
  /\ probe' = [probe EXCEPT ![c] = NoProbe]
  /\ RetrySame(c, kind) \/ FallBack(c, kind) \/ Conclude(c, kind)

-----------------------------------------------------------------------------
(* The caller *)

Start(c) ==
  /\ pc[c] = "idle"
  /\ Goto(c, "before_attempt")
  /\ UNCHANGED <<canceled, active, fallback_index, binding_attempt, outcome,
                 lease, probe, attempts>>

(* CancellationToken.cancel, from any thread; after the end nobody reads it. *)
Cancel(c) ==
  /\ c \notin canceled
  /\ pc[c] \notin Terminal
  /\ canceled' = canceled \cup {c}
  /\ UNCHANGED <<active, pc, fallback_index, binding_attempt, outcome,
                 lease, probe, attempts>>

-----------------------------------------------------------------------------
(* _execute_attempt *)

CanceledBeforeAttempt(c) ==
  /\ pc[c] = "before_attempt"
  /\ c \in canceled
  /\ Settle(c, "canceled")
  /\ UNCHANGED <<canceled, active, lease>>

PassCancellationCheck(c) ==
  /\ pc[c] = "before_attempt"
  /\ c \notin canceled
  /\ Goto(c, "admission")
  /\ UNCHANGED <<canceled, active, fallback_index, binding_attempt, outcome,
                 lease, probe, attempts>>

(* Bug: one call too many is let in. *)
FullTooLate(b) == MaxConcurrency[b] # Unlimited /\ active[b] > MaxConcurrency[b]

Full(b) == MaxConcurrency[b] # Unlimited /\ active[b] >= MaxConcurrency[b]

(* try_acquire returns a lease (a counted one, or a no-op one for a        *)
(* binding without a limit) and the delegate is entered.                   *)
Admit(c) ==
  LET b == BindingOf(c)
      counted == MaxConcurrency[b] # Unlimited
  IN  /\ pc[c] = "admission"
      /\ ~Full(b)
      /\ active' = IF counted THEN [active EXCEPT ![b] = @ + 1] ELSE active
      /\ lease' = [lease EXCEPT ![c] = counted]
      /\ probe' = [probe EXCEPT ![c].entered = TRUE]
      /\ Goto(c, "delegate")
      /\ UNCHANGED <<canceled, fallback_index, binding_attempt, outcome,
                     attempts>>

(* Bug: a full binding makes the call wait instead of failing it. *)
RejectByWaiting(c) == FALSE

Reject(c) ==
  /\ pc[c] = "admission"
  /\ Full(BindingOf(c))
  /\ Settle(c, "backpressure")
  /\ UNCHANGED <<canceled, active, lease>>

(* An injected controller raises: CellExecutionControlError, which the     *)
(* classifier files under "execution".                                     *)
AdmissionRaises(c) ==
  /\ AdmissionFaults
  /\ pc[c] = "admission"
  /\ Settle(c, "execution")
  /\ UNCHANGED <<canceled, active, lease>>

(* The delegate answers.  An exception that is no CellExecutionError is    *)
(* wrapped as "dispatch".  A routing or backpressure answer means that the *)
(* Cell was never reached; for every other failure it may have been.       *)
DelegateReturns(c) ==
  /\ pc[c] = "delegate"
  /\ \E answer \in DelegateResults, ran \in BOOLEAN :
       /\ answer = "ok" => ran
       /\ answer \in {"routing", "backpressure"} => ~ran
       /\ outcome' = [outcome EXCEPT ![c] = answer]
       /\ probe' = [probe EXCEPT ![c] = [entered   |-> TRUE,
                                         applied   |-> ran,
                                         token_set |-> c \in canceled]]
  /\ Goto(c, "release")
  /\ UNCHANGED <<canceled, active, fallback_index, binding_attempt, lease,
                 attempts>>

(* _release, under the controller's lock. *)
Freed(b) == [active EXCEPT ![b] = IF @ <= 1 THEN 0 ELSE @ - 1]

(* Bug: an early return for a canceled call skips the release. *)
ReleaseUnlessCanceled(c) ==
  /\ pc[c] = "release"
  /\ active' = IF lease[c] /\ c \notin canceled THEN Freed(BindingOf(c)) ELSE active
  /\ lease' = [lease EXCEPT ![c] = FALSE]
  /\ Goto(c, "returned")
  /\ UNCHANGED <<canceled, fallback_index, binding_attempt, outcome, probe,
                 attempts>>

ReleaseLease(c) ==
  /\ pc[c] = "release"
  /\ active' = IF lease[c] THEN Freed(BindingOf(c)) ELSE active
  /\ lease' = [lease EXCEPT ![c] = FALSE]
  /\ Goto(c, "returned")
  /\ UNCHANGED <<canceled, fallback_index, binding_attempt, outcome, probe,
                 attempts>>

(* An injected controller raises from release(), before or after it gave   *)
(* the slot back: the control error replaces whatever the delegate said.   *)
ReleaseRaises(c) ==
  /\ AdmissionFaults
  /\ pc[c] = "release"
  /\ active' \in {active} \cup (IF lease[c] THEN {Freed(BindingOf(c))} ELSE {})
  /\ lease' = [lease EXCEPT ![c] = FALSE]
  /\ outcome' = [outcome EXCEPT ![c] = "execution"]
  /\ Goto(c, "returned")
  /\ UNCHANGED <<canceled, fallback_index, binding_attempt, probe, attempts>>

(* Bug: the token is not looked at after the attempt. *)
JudgementWithoutToken(c, late) == IF late THEN "timeout" ELSE outcome[c]

(* The deadline is looked at first, and replaces any outcome; the token    *)
(* is looked at only for an outcome without an error.                      *)
Judgement(c, late) ==
  IF late THEN "timeout"
  ELSE IF c \in canceled /\ outcome[c] = "ok" THEN "canceled"
  ELSE outcome[c]

Judge(c) ==
  /\ pc[c] = "returned"
  /\ \E late \in BOOLEAN : Settle(c, Judgement(c, late))
  /\ UNCHANGED <<canceled, active, lease>>

-----------------------------------------------------------------------------
Work(c) ==
  \/ CanceledBeforeAttempt(c) \/ PassCancellationCheck(c)
  \/ Admit(c) \/ Reject(c)
  \/ DelegateReturns(c)
  \/ ReleaseLease(c)
  \/ Judge(c)

Step(c) == Work(c) \/ AdmissionRaises(c) \/ ReleaseRaises(c)

Next == \E c \in Calls : Start(c) \/ Cancel(c) \/ Step(c)

Spec == Init /\ [][Next]_vars

(* A started call keeps running: its thread is scheduled and the delegate  *)
(* returns.  Nobody is obliged to start or to cancel a call, and no fault  *)
(* of a controller is relied on.                                           *)
FairSpec == Spec /\ \A c \in Calls : WF_vars(Work(c))

-----------------------------------------------------------------------------
(* Admission *)

Holders(b) == {c \in Calls : lease[c] /\ BindingOf(c) = b}
InDelegate(b) == {c \in Calls : pc[c] = "delegate" /\ BindingOf(c) = b}

(* max_concurrency: no interleaving of calls, retries, fallbacks and       *)
(* failing releases ever has more calls inside one binding than its limit  *)
(* (control.py try_acquire/_release).                                      *)
AdmissionBound ==
  \A b \in Bindings :
    MaxConcurrency[b] # Unlimited =>
      Cardinality(InDelegate(b)) <= MaxConcurrency[b]

(* While the controller does not raise, the counter of a binding is the    *)
(* number of leases out: no path through an attempt leaks a slot (which    *)
(* would mean backpressure for ever) or gives one back twice.              *)
ExactAccounting ==
  AdmissionFaults \/ \A b \in Bindings : active[b] = Cardinality(Holders(b))

-----------------------------------------------------------------------------
(* Retry and fallback *)

(* A stateful binding without the idempotent capability acts at most once  *)
(* per call, and once it may have acted nothing else is tried: not after a *)
(* dispatch failure, a late result, a failed release or a cancellation.    *)
Unsafe(a) == a.probe.applied /\ ~RepeatIsSafe(a.binding_id)
AtMostOnce ==
  \A c \in Calls : \A i \in 1..Len(attempts[c]) :
    Unsafe(attempts[c][i]) => i = Len(attempts[c]) /\ pc[c] \in Terminal

(* ADR-0005: cancellation takes effect at the safe boundaries.  When the   *)
(* token was set before the delegate returned, the result of that attempt  *)
(* is not accepted, late or not, and no further attempt enters the Cell.   *)
CancellationBoundary ==
  \A c \in Calls : \A i \in 1..Len(attempts[c]) :
    attempts[c][i].probe.token_set =>
      /\ attempts[c][i].kind # "ok"
      /\ \A j \in (i + 1)..Len(attempts[c]) : ~attempts[c][j].probe.entered

-----------------------------------------------------------------------------
(* The control record and its own checks *)

ControlRecord(c) ==
  LET log  == attempts[c]
      last == log[Len(log)]
  IN  [status             |-> ControlStatus(last.kind),
       attempts           |-> log,
       binding_ids        |-> Candidates[c],
       retry_count        |-> Cardinality({i \in 1..Len(log) :
                                 log[i].binding_attempt_number > 1}),
       fallback_count     |-> CHOOSE m \in {log[i].fallback_index : i \in 1..Len(log)} :
                                 \A i \in 1..Len(log) : log[i].fallback_index <= m,
       final_binding_id   |-> last.binding_id,
       final_failure_kind |-> last.kind]

(* ExecutionControlRecord.__post_init__ raises unless this holds. *)
RecordAccepted(r) ==
  LET log == r.attempts
      OnBinding(i) == {j \in 1..i : log[j].fallback_index = log[i].fallback_index}
  IN  /\ Len(log) > 0
      /\ log[1].fallback_index = 0
      /\ \A i \in 1..Len(log) :
           /\ log[i].fallback_index < Len(r.binding_ids)
           /\ log[i].binding_id = r.binding_ids[log[i].fallback_index + 1]
           /\ i > 1 => log[i].fallback_index - log[i - 1].fallback_index \in {0, 1}
           /\ log[i].binding_attempt_number = Cardinality(OnBinding(i))
      /\ r.retry_count = Cardinality({i \in 1..Len(log) :
                                       log[i].binding_attempt_number > 1})
      /\ \A i \in 1..Len(log) : log[i].fallback_index <= r.fallback_count
      /\ r.final_binding_id = log[Len(log)].binding_id
      /\ r.final_failure_kind = log[Len(log)].kind
      /\ r.status = ControlStatus(log[Len(log)].kind)

(* A finished call always ends in a record its own constructor accepts: a  *)
(* rejected one would turn a node whose Cell has run into a ValueError and *)
(* lose every trace of the attempts.                                       *)
RecordWellFormed ==
  \A c \in Calls :
    pc[c] \in Terminal => RecordAccepted(ControlRecord(c)) /\ pc[c] = ControlRecord(c).status

(* A started call ends, whatever the delegate answers and whoever else     *)
(* holds the slots: full bindings reject, they never make a call wait.     *)
Termination == \A c \in Calls : pc[c] = "before_attempt" ~> pc[c] \in Terminal

-----------------------------------------------------------------------------
(* Refinement *)

Slots == INSTANCE BindingSlots WITH
  occupants <- [b \in Bindings |-> Holders(b)]

Ladder == [c \in Calls |->
             [i \in 1..Len(Candidates[c]) |->
                [budgets    |-> {NodeRetries[c], BindingRetries[Candidates[c][i]]},
                 repeatable |-> RepeatIsSafe(Candidates[c][i])]]]

Progress(c) ==
  LET last == attempts[c][Len(attempts[c])]
  IN  IF attempts[c] = << >>
      THEN [status |-> "planned", last |-> "none", rung |-> 1, tries |-> 0]
      ELSE [status |-> IF pc[c] \in Terminal THEN pc[c] ELSE "running",
            last   |-> last.kind,
            rung   |-> last.fallback_index + 1,
            tries  |-> last.binding_attempt_number]

Policy == INSTANCE AttemptPolicy WITH
  calls <- [c \in Calls |-> Progress(c)]

(* Leases implement slots: a call occupies at most one slot and no binding *)
(* is over-subscribed, whatever order calls admit, retry and release in.   *)
ImplementsBindingSlots == Slots!Spec

(* The loop over candidates and attempts implements ADR-0005: the budgets of *)
(* node and binding first, then the next binding, and no attempt beyond what the policy permits.   *)
ImplementsAttemptPolicy == Policy!Spec

=============================================================================
