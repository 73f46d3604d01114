---------------------------- MODULE OrderedChoice ----------------------------
(***************************************************************************)
(* What parallel.FirstSuccessful promises its callers, with no goroutine,   *)
(* channel or buffer: N candidates, tried at once, fail or succeed in any   *)
(* order, and the answer is the first success in the order of the           *)
(* parameters, known as soon as no better-placed candidate can still win.   *)
(* FirstSuccessful.tla implements it.                                       *)
(***************************************************************************)
EXTENDS Naturals

CONSTANT N          \* number of candidates

VARIABLES
    outcome,        \* outcome[i]: what is known of f(params[i])
    answer          \* NoAnswer, a candidate, or N for "none succeeded"

vars == <<outcome, answer>>

Index == 0 .. N - 1
NoAnswer == N + 1

\* i is the best candidate: it succeeded and all those before it failed.
Best(i) == /\ outcome[i] = "value"
           /\ \A j \in Index : j < i => outcome[j] = "error"

NoneSucceeded == \A j \in Index : outcome[j] = "error"

Init == /\ outcome = [i \in Index |-> "unknown"]
        /\ answer = NoAnswer

Settle(i) == /\ outcome[i] = "unknown"
             /\ \E o \in {"value", "error"} : outcome' = [outcome EXCEPT ![i] = o]
             /\ UNCHANGED answer

AnswerBest(i) == /\ answer = NoAnswer
                 /\ Best(i)
                 /\ answer' = i
                 /\ UNCHANGED outcome

AnswerNone == /\ answer = NoAnswer
              /\ NoneSucceeded
              /\ answer' = N
              /\ UNCHANGED outcome

Answer == AnswerNone \/ \E i \in Index : AnswerBest(i)

Next == Answer \/ \E i \in Index : Settle(i)

SafeSpec == Init /\ [][Next]_vars

\* The answer is given once it is determined, even if worse-placed
\* candidates never settle.
Spec == SafeSpec /\ WF_vars(Answer)
=============================================================================
