---------------------------- MODULE AttemptPolicy ----------------------------
(***************************************************************************)
(* What failure control promises about the order of attempts (ADR-0005,    *)
(* section 3): attempts one after another, each either on the same binding *)
(* within every retry budget that is set for it or, when a budget cannot   *)
(* help, on the next binding of the plan; the call ends when neither is    *)
(* permitted, and not before.                                              *)
(***************************************************************************)
EXTENDS Integers, Sequences

CONSTANTS
  Calls,
  Ladder      \* [Calls -> Seq([budgets : SUBSET Nat, repeatable : BOOLEAN])]

VARIABLE calls  \* [Calls -> [status, last, rung, tries]]

Planned == [status |-> "planned", last |-> "none", rung |-> 1, tries |-> 0]

Init == calls = [c \in Calls |-> Planned]

Ambiguous == {"dispatch", "timeout"}
Refused   == {"routing", "backpressure"}
Decisive  == {"execution", "contract", "canceled"}
Answers   == {"ok"} \cup Ambiguous \cup Refused \cup Decisive

(* A retry follows an ambiguous failure of a repeatable binding none of    *)
(* whose budgets is spent.                                                 *)
MayRetry(c, rung, tries, answer) ==
  /\ answer \in Ambiguous
  /\ Ladder[c][rung].repeatable
  /\ \A budget \in Ladder[c][rung].budgets : tries <= budget

(* The next binding follows a refusal, or a spent budget of a repeatable   *)
(* binding.                                                                *)
MayFallBack(c, rung, tries, answer) ==
  /\ rung < Len(Ladder[c])
  /\ \/ answer \in Refused
     \/ /\ answer \in Ambiguous
        /\ Ladder[c][rung].repeatable
        /\ \E budget \in Ladder[c][rung].budgets : tries > budget

StatusAfter(c, rung, tries, answer) ==
  CASE answer = "ok" -> "succeeded"
    [] answer = "canceled" -> "canceled"
    [] MayRetry(c, rung, tries, answer)
         \/ MayFallBack(c, rung, tries, answer) -> "running"
    [] OTHER -> "failed"

AttemptOn(c, rung, tries) ==
  \E answer \in Answers :
    calls' = [calls EXCEPT ![c] =
                [status |-> StatusAfter(c, rung, tries, answer),
                 last |-> answer, rung |-> rung, tries |-> tries]]

First(c) ==
  /\ calls[c].status = "planned"
  /\ AttemptOn(c, 1, 1)

Retry(c) ==
  /\ calls[c].status = "running"
  /\ MayRetry(c, calls[c].rung, calls[c].tries, calls[c].last)
  /\ AttemptOn(c, calls[c].rung, calls[c].tries + 1)

NextBinding(c) ==
  /\ calls[c].status = "running"
  /\ MayFallBack(c, calls[c].rung, calls[c].tries, calls[c].last)
  /\ AttemptOn(c, calls[c].rung + 1, 1)

Next == \E c \in Calls : First(c) \/ Retry(c) \/ NextBinding(c)

Spec == Init /\ [][Next]_calls
=============================================================================
