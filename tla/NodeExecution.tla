----------------------------- MODULE NodeExecution -----------------------------
(***************************************************************************)
(* One plan node on its way through FailureControlledExecutor,             *)
(* ExecutorRouter (execution/router.py) and an executor - the local one    *)
(* (execution/executor.py) or a foreign one - and back to the coordinator, *)
(* which audits every runtime trace against the plan before it takes the   *)
(* result.  What the node's attempts leave behind is then summarised       *)
(* (execution/telemetry.py).                                               *)
(*                                                                         *)
(* The decisions of the failure control are those of module                *)
(* FailureControl; here only their effect on the traces matters, and a     *)
(* retry budget is any number up to MaxAttempts.  A service names one      *)
(* implementation of a formula, so <<service, runtime, formula>> is the    *)
(* identity a trace reports.                                               *)
(***************************************************************************)
EXTENDS Integers, Sequences, FiniteSets, SequencesExt

CONSTANTS
  MaxAttempts,  \* bound of the model: attempts of the node
  Worlds        \* what may be configured, and what may happen:
                \* ladder    bindings of the node, primary first
                \* stateful  of them, not safe to repeat
                \* routed    by an ExecutorRouter, or straight to `sole`
                \* services  [services -> executors], part of the router
                \* runtimes  [runtimes -> executors], part of the router
                \* manifest  formula of the registered Cell
                \* fits      its input kinds are those of the node's bundle
                \* cell      what the Cell may do
                \* foreign   what a foreign executor may do
                \* claims    whom a foreign trace may name
                \* late      whether an attempt may miss its deadline

Formula == "planned"
Runtimes == {"python_local", "rust_service"}
Local(service) == [kind |-> "local", service |-> service]
Foreign == [kind |-> "foreign", service |-> "any"]
Nobody == [service |-> "null", runtime |-> "null", formula |-> "null"]

ASSUME NodeAssumption ==
  /\ MaxAttempts \in Nat \ {0}
  /\ \A w \in Worlds :
       /\ w.ladder \in Seq(Range(w.ladder)) /\ w.ladder # << >> /\ IsInjective(w.ladder)
       /\ w.routed \in BOOLEAN
       \* a validated plan binds a node to implementations of its formula
       /\ \A b \in Range(w.ladder) :
            b.formula = Formula /\ b.runtime \in Runtimes /\ b.service # "null"
       /\ w.stateful \subseteq Range(w.ladder)
       /\ w.cell \subseteq {"result", "alien", "raises"}
       /\ w.foreign \subseteq {"raises", "junk", "result", "alien", "fails", "replay", "prior"}
       /\ w.claims \subseteq {"asked", "sibling", "nobody", "other run"}

VARIABLES
  world,     \* never changes
  pc,
  at,        \* fallback_index, from 1
  using,     \* the executor dispatched to
  outcome,   \* of the attempt: its trace, error kind, result, prior traces
  traces,    \* of the node, annotated
  history,   \* what was answered to each attempt, by whom
  verdict    \* what the coordinator makes of the node

vars == <<world, pc, at, using, outcome, traces, history, verdict>>

Asked == world.ladder[at]
Attempt == Len(history) + 1

\* own_run: the run and trace ids; formula: of the Cell, who.formula that of
\* the implementation; planned: the binding in the metadata, or nobody's.
Trace(who, status) ==
  [span |-> Attempt, own_run |-> TRUE, who |-> who, formula |-> world.manifest,
   status |-> status, planned |-> Asked, fallback |-> 0]
Outcome(trace, error, result) ==
  [trace |-> trace, error |-> error, result |-> result, prior |-> << >>, silent |-> FALSE]

Errors == {"none", "routing", "dispatch", "timeout", "execution", "contract"}
Places == {"attempt", "executing", "verify", "record", "next", "audit", "done"}

TypeOK ==
  /\ world \in Worlds
  /\ pc \in Places
  /\ at \in DOMAIN world.ladder
  /\ Len(history) <= MaxAttempts
  /\ pc \in {"verify", "record", "next", "audit", "done"} =>
       /\ outcome.error \in Errors
       /\ outcome.trace.status = (IF outcome.error = "none" THEN "succeeded" ELSE "failed")
       /\ (outcome.result = "none") = (outcome.error # "none")
  /\ verdict \in {"pending", "accepted", "failed", "rejected", "lost"}
  /\ (pc = "done") = (verdict # "pending")

Init ==
  /\ world \in Worlds
  /\ pc = "attempt" /\ at = 1
  /\ using = Foreign
  /\ outcome = << >>
  /\ traces = << >> /\ history = << >>
  /\ verdict = "pending"

-----------------------------------------------------------------------------
(* The router *)

(* Bug: the planned binding copied to the actual fields of the trace. *)
BoundaryFailureAsPlanned(kind) ==
  [Outcome(Trace(Asked, "failed"), kind, "none") EXCEPT !.silent = TRUE]

(* Nobody can be shown to have run anything; the plan goes to the metadata. *)
BoundaryFailure(kind) ==
  [Outcome(Trace(Nobody, "failed"), kind, "none") EXCEPT !.silent = TRUE]

RouteOf(b) ==
  CASE ~world.routed -> {world.sole}
    [] world.routed /\ b.service \in DOMAIN world.services -> {world.services[b.service]}
    [] world.routed /\ b.service \notin DOMAIN world.services
         /\ b.runtime \in DOMAIN world.runtimes -> {world.runtimes[b.runtime]}
    [] OTHER -> {}

Route ==
  /\ pc = "attempt"
  /\ IF RouteOf(Asked) = {}
     THEN /\ outcome' = BoundaryFailure("routing")
          /\ pc' = "record"
          /\ UNCHANGED using
     ELSE /\ using' \in RouteOf(Asked)
          /\ pc' = "executing"
          /\ UNCHANGED outcome
  /\ UNCHANGED <<world, at, traces, history, verdict>>

Answer(o) ==
  /\ outcome' = o
  /\ pc' = IF world.routed THEN "verify" ELSE "record"

(* validate_execution_trace_context *)
FitsContext(trace) == trace.own_run /\ trace.who = Asked /\ trace.formula = Formula

(* Bug: the trace is of this run, so it is taken. *)
VerifyRunOnly ==
  /\ pc = "verify"
  /\ outcome' = IF outcome.trace.own_run THEN [outcome EXCEPT !.trace.planned = Asked]
                ELSE Outcome([outcome.trace EXCEPT !.status = "failed", !.planned = Asked],
                             "contract", "none")
  /\ pc' = "record"
  /\ UNCHANGED <<world, at, using, traces, history, verdict>>

(* The plan is written to the metadata of any trace; one that names        *)
(* another run or implementation fails, whatever its result.               *)
Verify ==
  /\ pc = "verify"
  /\ LET routed == [outcome EXCEPT !.trace.planned = Asked] IN
     outcome' = IF FitsContext(outcome.trace) THEN routed
                ELSE [routed EXCEPT !.trace.status = "failed",
                                    !.error = "contract", !.result = "none"]
  /\ pc' = "record"
  /\ UNCHANGED <<world, at, using, traces, history, verdict>>

-----------------------------------------------------------------------------
(* The local executor *)

Actual(service) == [service |-> service, runtime |-> "python_local",
                    formula |-> world.manifest]

(* _validate_local_execution_context: before the Cell is called. *)
LocalAccepts(service) == Asked = Actual(service) /\ world.fits

ExecuteLocal ==
  /\ pc = "executing" /\ using.kind = "local"
  /\ LET who == Actual(using.service)
         failure(kind) == Outcome(Trace(who, "failed"), kind, "none")
     IN  IF ~LocalAccepts(using.service) THEN Answer(failure("contract"))
         ELSE \E did \in world.cell :
                Answer(CASE did = "result" -> Outcome(Trace(who, "succeeded"), "none", "fit")
                         [] did = "alien"  -> failure("contract")
                         [] did = "raises" -> failure("execution"))
  /\ UNCHANGED <<world, at, using, traces, history, verdict>>

(* A foreign executor, which answers, or does not, as it likes. *)
Named(claim) ==
  CASE claim \in {"asked", "other run"} -> {Asked}
    [] claim = "sibling" -> Range(world.ladder) \ {Asked}
    [] claim = "nobody" -> {Nobody}
ForeignTraces(status) ==
  UNION {{[Trace(who, status) EXCEPT !.own_run = (claim # "other run"),
                                     !.formula = Formula, !.planned = Nobody] :
            who \in Named(claim)} : claim \in world.claims}

(* Raised, or no outcome: the router, or the control without one, fails it. *)
ForeignRaises ==
  /\ pc = "executing" /\ using.kind = "foreign"
  /\ world.foreign \cap {"raises", "junk"} # {}
  /\ outcome' = BoundaryFailure("dispatch")
  /\ pc' = "record"
  /\ UNCHANGED <<world, at, using, traces, history, verdict>>

ForeignAnswers ==
  /\ pc = "executing" /\ using.kind = "foreign"
  /\ \/ "result" \in world.foreign
        /\ \E t \in ForeignTraces("succeeded") : Answer(Outcome(t, "none", "fit"))
     \/ "alien" \in world.foreign
        /\ \E t \in ForeignTraces("succeeded") : Answer(Outcome(t, "none", "alien"))
     \/ "fails" \in world.foreign
        /\ \E t \in ForeignTraces("failed"), kind \in {"execution", "dispatch"} :
             Answer(Outcome(t, kind, "none"))
     \/ "replay" \in world.foreign   \* of what it answered to an earlier attempt
        /\ \E t \in ForeignTraces("succeeded"), old \in 1..Len(history) :
             Answer(Outcome([t EXCEPT !.span = old], "none", "fit"))
     \/ "prior" \in world.foreign    \* with a trace of its own attempt before it
        /\ \E t \in ForeignTraces("succeeded"), p \in ForeignTraces("failed") :
             Answer([Outcome(t, "none", "fit") EXCEPT
                       !.prior = <<[p EXCEPT !.span = MaxAttempts + Attempt]>>])
  /\ UNCHANGED <<world, at, using, traces, history, verdict>>

-----------------------------------------------------------------------------
(* The failure control's part *)

(* Bug: the audit of a fallback left out. *)
AnnotateAttemptOnly(trace) == trace

(* Only the trace of the attempt is annotated, none that came before it.   *)
(* The primary's index is 0.                                               *)
Annotate(trace) == [trace EXCEPT !.fallback = at - 1]

(* Past its deadline, an attempt has failed whatever it answered. *)
Late(o) == [o EXCEPT !.trace.status = "failed", !.error = "timeout", !.result = "none"]

Record ==
  /\ pc = "record"
  /\ \E o \in {outcome} \cup IF world.late THEN {Late(outcome)} ELSE {} :
       /\ outcome' = o
       /\ traces' = traces \o o.prior \o <<Annotate(o.trace)>>
       /\ history' = Append(history,
            [asked |-> Asked, silent |-> outcome.silent, claim |-> outcome.trace.who, run |-> outcome.trace.own_run,
             fresh |-> outcome.trace.span = Attempt /\ outcome.prior = << >>,
             good |-> o.error = "none"])
  /\ pc' = "next"
  /\ UNCHANGED <<world, at, using, verdict>>

MayRepeat == outcome.error \in {"dispatch", "timeout"} => Asked \notin world.stateful

Retry ==
  /\ pc = "next"
  /\ outcome.error \in {"dispatch", "timeout"} /\ MayRepeat
  /\ Len(history) < MaxAttempts
  /\ pc' = "attempt"
  /\ UNCHANGED <<world, at, using, outcome, traces, history, verdict>>

CanFallBack ==
  /\ outcome.error \in {"routing", "dispatch", "timeout"} /\ MayRepeat
  /\ at < Len(world.ladder) /\ Len(history) < MaxAttempts

FallBack ==
  /\ pc = "next" /\ CanFallBack
  /\ at' = at + 1
  /\ pc' = "attempt"
  /\ UNCHANGED <<world, using, outcome, traces, history, verdict>>

(* _finalize_outcome: an outcome whose traces repeat a span id cannot be   *)
(* made; the exception is all the coordinator gets.                        *)
Finish ==
  /\ pc = "next" /\ ~CanFallBack
  /\ LET spans == [i \in DOMAIN traces |-> traces[i].span] IN
     IF IsInjective(spans) THEN pc' = "audit" /\ UNCHANGED <<traces, verdict>>
     ELSE pc' = "done" /\ traces' = << >> /\ verdict' = "lost"
  /\ UNCHANGED <<world, at, using, outcome, history>>

-----------------------------------------------------------------------------
(* The coordinator's part *)

(* validate_execution_trace: the plan alone decides. *)
FitsPlan(trace) ==
  /\ trace.formula = Formula
  /\ IF trace.who = Nobody
     THEN /\ trace.status = "failed"
          /\ trace.planned \in Range(world.ladder)
          /\ trace.planned = world.ladder[1] \/ trace.fallback > 0
     ELSE /\ trace.who \in Range(world.ladder)
          /\ trace.who = world.ladder[1] \/ trace.fallback > 0

Audit ==
  /\ pc = "audit"
  /\ verdict' = CASE \E i \in DOMAIN traces : ~FitsPlan(traces[i]) -> "rejected"
                  [] (\A i \in DOMAIN traces : FitsPlan(traces[i]))
                       /\ outcome.error # "none" -> "failed"
                  [] OTHER -> IF outcome.result = "fit" THEN "accepted" ELSE "rejected"
  /\ pc' = "done"
  /\ UNCHANGED <<world, at, using, outcome, traces, history>>

Next ==
  \/ Route \/ ExecuteLocal \/ ForeignRaises \/ ForeignAnswers \/ Verify
  \/ Record \/ Retry \/ FallBack \/ Finish \/ Audit

Spec == Init /\ [][Next]_vars

-----------------------------------------------------------------------------
(* summarize_runtime_traces: one summary per identity that reported *)

(* Bug: grouped by the binding in the metadata. *)
GroupByPlanned(who) == {i \in DOMAIN traces : traces[i].planned = who}

GroupOf(who) == {i \in DOMAIN traces : traces[i].who = who}

Summary(who) ==
  [trace_count |-> Cardinality(GroupOf(who)),
   failed_count |-> Cardinality({i \in GroupOf(who) : traces[i].status = "failed"})]

-----------------------------------------------------------------------------
(* Properties *)

(* The executor named the binding it was asked for, or nobody answered. *)
Honest(h) == h.fresh /\ (h.silent \/ (h.claim = h.asked /\ h.run))

(* A result that is taken was returned in time, by an executor that named  *)
(* the planned formula and, behind a router, this very run and binding;     *)
(* without a router, no further down the ladder than the control had got.  *)
AcceptedIsPlanned ==
  verdict = "accepted" =>
    LET last == Last(history) IN
    /\ last.good /\ Last(traces).formula = Formula
    /\ IF world.routed THEN last.claim = Asked /\ last.run
       ELSE last.claim \in Range(world.ladder)
            /\ (at = 1 => last.claim = Asked)

(* "It must not be faked as having run at the planned service"             *)
(* (cell_execution_fabric.md): a trace names an implementation only if an  *)
(* executor answered the attempt under that name.                          *)
PlanIsNotEvidence ==
  \A i \in DOMAIN traces :
    traces[i].who # Nobody /\ traces[i].span <= MaxAttempts =>
      \E h \in Range(history) : ~h.silent /\ h.claim = traces[i].who

(* Outcomes are consistent with their traces, and traces with who answered. *)
EvidenceInv == TypeOK /\ PlanIsNotEvidence

(* Two checks written apart from each other agree: a node whose executors  *)
(* named themselves and this run, or did not answer at all, is never       *)
(* turned down by the audit, whichever retries and fallbacks it took - so  *)
(* a fallback that succeeded is not lost to the failures before it.        *)
HonestAttemptsPassAudit ==
  /\ verdict \in {"rejected", "lost"}
  /\ outcome.result # "alien" /\ world.manifest = Formula
  => \E h \in Range(history) : ~Honest(h)

(* The failures and successes a summary charges to a binding are those of  *)
(* the attempts answered under its name, a late or rejected answer among   *)
(* the failures; attempts nobody answered are charged to nobody.           *)
SummaryChargesWhoAnswered ==
  verdict \in {"accepted", "failed", "rejected"} /\ (\A h \in Range(history) : h.fresh) =>
    \A who \in Range(world.ladder) \cup {Nobody} :
      LET answered == {i \in DOMAIN history : history[i].claim = who} IN
      /\ Summary(who).trace_count = Cardinality(answered)
      /\ Summary(who).failed_count = Cardinality({i \in answered : ~history[i].good})
=============================================================================
