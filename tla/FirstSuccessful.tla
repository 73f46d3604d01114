--------------------------- MODULE FirstSuccessful ---------------------------
(***************************************************************************)
(* internal/parallel/parallel.go: FirstSuccessful runs f on every parameter *)
(* in a goroutine of its own, collects the results over a channel with a    *)
(* buffer of N, and returns the first success in PARAMETER order with the   *)
(* errors of the parameters before it (the pod webhook ranks the            *)
(* alternatives of an image and probes them this way).                      *)
(*                                                                          *)
(* Covered: the goroutines, the buffered channel, the out-of-order results  *)
(* parked in `pending`, the early return that leaves goroutines behind.     *)
(* Left out: the values and the errors themselves; a panic in f.            *)
(***************************************************************************)
EXTENDS Naturals, Sequences

CONSTANT N          \* len(params)
ASSUME NAssumption == N \in Nat

VARIABLES
    outcome,        \* what f returned in goroutine i, or "unknown"
    goroutine,      \* "running" (in f), "sending", "done"
    resChan,        \* the buffered channel: indices of results, in order
    pending,        \* indices whose result the caller has received
    nextToReturn,   \* first index the caller is still undecided about
    received,       \* iterations of the receive loop
    answer          \* NoAnswer until the caller returns

vars == <<outcome, goroutine, resChan, pending, nextToReturn, received, answer>>

Index == 0 .. N - 1
NoAnswer == N + 1

\* What callers may expect. A probe counts as settled when its goroutine left f;
\* the channel and the array of results are hidden.
Choice == INSTANCE OrderedChoice WITH N <- N, outcome <- outcome, answer <- answer

Init == /\ outcome = [i \in Index |-> "unknown"]
        /\ goroutine = [i \in Index |-> "running"]
        /\ resChan = << >>
        /\ pending = {}
        /\ nextToReturn = 0
        /\ received = 0
        /\ answer = NoAnswer

\* f(param) returns a value or an error.
Return(i) == /\ goroutine[i] = "running"
             /\ goroutine' = [goroutine EXCEPT ![i] = "sending"]
             /\ \E o \in {"value", "error"} : outcome' = [outcome EXCEPT ![i] = o]
             /\ UNCHANGED <<resChan, pending, nextToReturn, received, answer>>

\* The channel's buffer, and a mutant: a short one.
ShortBuffer == 1
Capacity == N

\* A send on the buffered channel blocks while the buffer is full.
Send(i) == /\ goroutine[i] = "sending"
           /\ Len(resChan) < Capacity
           /\ goroutine' = [goroutine EXCEPT ![i] = "done"]
           /\ resChan' = Append(resChan, i)
           /\ UNCHANGED <<outcome, pending, nextToReturn, received, answer>>

\* The inner loop goes on while the next candidate's result is there. Mutant:
\* the caller keeps receiving and looks at the results at the end only.
NoScan == pending = Index
Scanning == nextToReturn \in pending

\* One iteration of the receive loop, up to the inner loop.
Receive == /\ answer = NoAnswer
           /\ ~Scanning
           /\ received < N
           /\ resChan # << >>
           /\ pending' = pending \cup {Head(resChan)}
           /\ received' = received + 1
           /\ resChan' = Tail(resChan)
           /\ UNCHANGED <<outcome, goroutine, nextToReturn, answer>>

\* Mutant of Skip: past as many candidates as results came in.
SkipReceived == /\ answer = NoAnswer
                /\ Scanning
                /\ outcome[nextToReturn] = "error"
                /\ nextToReturn' = nextToReturn + received
                /\ UNCHANGED <<outcome, goroutine, resChan, pending, received, answer>>

\* The inner loop passes over a candidate that failed.
Skip == /\ answer = NoAnswer
        /\ Scanning
        /\ outcome[nextToReturn] = "error"
        /\ nextToReturn' = nextToReturn + 1
        /\ UNCHANGED <<outcome, goroutine, resChan, pending, received, answer>>

\* Mutant of ReturnFirst: any success received will do.
ReturnAny == /\ answer = NoAnswer
             /\ \E i \in pending : outcome[i] = "value" /\ answer' = i
             /\ UNCHANGED <<outcome, goroutine, resChan, pending, nextToReturn, received>>

\* The inner loop comes to a success, and returns it with the errors of the
\* candidates before it; results still to come stay in the channel.
ReturnFirst == /\ answer = NoAnswer
               /\ Scanning
               /\ outcome[nextToReturn] = "value"
               /\ answer' = nextToReturn
               /\ UNCHANGED <<outcome, goroutine, resChan, pending, nextToReturn, received>>

\* The receive loop ended without a success: nil and all the errors.
ReturnNone == /\ answer = NoAnswer
              /\ ~Scanning
              /\ received = N
              /\ answer' = N
              /\ UNCHANGED <<outcome, goroutine, resChan, pending, nextToReturn, received>>

Caller == Receive \/ Skip \/ ReturnFirst \/ ReturnNone

Finished == /\ answer # NoAnswer
            /\ \A i \in Index : goroutine[i] = "done"
            /\ UNCHANGED vars

Next == \/ Caller
        \/ \E i \in Index : Return(i) \/ Send(i)
        \/ Finished

SafeSpec == Init /\ [][Next]_vars

\* Runnable goroutines run; whether f ever returns is f's affair.
Spec == /\ SafeSpec
        /\ WF_vars(Caller)
        /\ \A i \in Index : WF_vars(Send(i))
-----------------------------------------------------------------------------
TypeOK == /\ outcome \in [Index -> {"unknown", "value", "error"}]
          /\ goroutine \in [Index -> {"running", "sending", "done"}]
          /\ resChan \in Seq(Index)
          /\ pending \subseteq Index
          /\ nextToReturn \in 0 .. N
          /\ received \in 0 .. N
          /\ answer \in 0 .. N + 1

\* The answer is the best-placed success whatever order the results came in,
\* and every candidate before it is known to have failed, so the list of
\* errors handed back is complete.
AnswerIsFirst ==
    /\ answer \in Index => Choice!Best(answer)
    /\ answer = N => Choice!NoneSucceeded

\* No goroutine is left blocked for ever on a channel nobody reads any more:
\* a send never finds the buffer full, even after an early return.
SendNeverBlocks == \A i \in Index : goroutine[i] = "sending" => Len(resChan) < Capacity

\* The caller never waits for one more result once the answer is determined
\* by those it has, however many slower candidates are still running.
NoNeedlessWait ==
    [][received' # received =>
           ~\E i \in pending : /\ outcome[i] = "value"
                               /\ \A j \in Index : j < i => j \in pending]_vars

\* FirstSuccessful implements its promise even if some f never returns.
ImplementsChoice == Choice!Spec

\* When every f returns, so does FirstSuccessful, and no goroutine leaks.
AllEnd == (\A i \in Index : <>(goroutine[i] # "running"))
              => <>(answer # NoAnswer /\ \A i \in Index : goroutine[i] = "done")
=============================================================================
