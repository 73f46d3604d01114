------------------------ MODULE FirstSuccessful_proof ------------------------
(***************************************************************************)
(* FirstSuccessful, for every number of candidates: the answer is the       *)
(* best-placed success, no goroutine ever blocks on the channel, and the    *)
(* code implements OrderedChoice (its safety part; liveness is TLC's).      *)
(***************************************************************************)
EXTENDS FirstSuccessful, FiniteSets, TLAPS, FiniteSetTheorems, SequenceTheorems

\* A goroutine has its outcome exactly when f returned.
ReturnedInv == \A i \in Index : goroutine[i] = "running" <=> outcome[i] = "unknown"

\* A result is in at most one place: with its goroutine, in the channel (once),
\* or with the caller.
PlaceInv == /\ \A k \in 1 .. Len(resChan) : /\ goroutine[resChan[k]] = "done"
                                            /\ resChan[k] \notin pending
            /\ \A k, l \in 1 .. Len(resChan) : resChan[k] = resChan[l] => k = l
            /\ \A i \in pending : goroutine[i] = "done"

\* The caller counts the results it holds.
CountInv == received = Cardinality(pending)

\* Everything before nextToReturn is received and failed.
ScanInv == \A j \in Index : j < nextToReturn => j \in pending /\ outcome[j] = "error"

IInv == TypeOK /\ ReturnedInv /\ PlaceInv /\ CountInv /\ ScanInv /\ AnswerIsFirst
-----------------------------------------------------------------------------
LEMMA IndexFinite == IsFiniteSet(Index) /\ Cardinality(Index) = N
  BY FS_Interval, NAssumption DEF Index

\* Holding N results is holding them all.
LEMMA AllReceived ==
  ASSUME TypeOK, CountInv, received = N
  PROVE  pending = Index
  BY IndexFinite, FS_Subset DEF TypeOK, CountInv

LEMMA InitIInv == Init => IInv
  <1> SUFFICES ASSUME Init PROVE IInv
    OBVIOUS
  <1>1. TypeOK
    BY NAssumption DEF Init, TypeOK, NoAnswer, Index
  <1>2. CountInv
    BY FS_EmptySet DEF Init, CountInv
  <1>3. ReturnedInv /\ PlaceInv /\ ScanInv
    BY NAssumption DEF Init, ReturnedInv, PlaceInv, ScanInv, Index
  <1>4. AnswerIsFirst
    BY NAssumption DEF Init, AnswerIsFirst, NoAnswer, Index
  <1> QED BY <1>1, <1>2, <1>3, <1>4 DEF IInv

LEMMA ReturnStep ==
  ASSUME IInv, NEW i \in Index, Return(i)
  PROVE  IInv'
  <1> USE DEF IInv, Return
  <1>1. TypeOK'
    BY DEF TypeOK
  <1>2. ReturnedInv'
    BY DEF TypeOK, ReturnedInv
  <1>3. PlaceInv'
    BY DEF TypeOK, PlaceInv
  <1>4. CountInv'
    BY DEF CountInv
  <1>5. ScanInv'
    BY DEF TypeOK, ReturnedInv, ScanInv
  <1>6. AnswerIsFirst'
    BY DEF TypeOK, ReturnedInv, AnswerIsFirst, Choice!Best, Choice!NoneSucceeded, Choice!Index, Index
  <1> QED BY <1>1, <1>2, <1>3, <1>4, <1>5, <1>6

LEMMA SendStep ==
  ASSUME IInv, NEW i \in Index, Send(i)
  PROVE  IInv'
  <1> USE DEF IInv, Send
  <1>1. TypeOK'
    BY DEF TypeOK
  <1>2. ReturnedInv'
    BY DEF TypeOK, ReturnedInv
  <1>3. PlaceInv'
    <2>1. /\ Len(resChan') = Len(resChan) + 1
          /\ \A k \in 1 .. Len(resChan') : resChan'[k] = IF k <= Len(resChan) THEN resChan[k] ELSE i
      BY DEF TypeOK
    <2>2. i \notin pending /\ \A k \in 1 .. Len(resChan) : resChan[k] # i
      BY DEF PlaceInv
    <2>3. \A k \in 1 .. Len(resChan) : resChan[k] \in Index
      BY DEF TypeOK
    <2>4. Len(resChan) \in Nat
      BY DEF TypeOK
    <2> QED BY <2>1, <2>2, <2>3, <2>4 DEF TypeOK, PlaceInv
  <1>4. CountInv' /\ ScanInv' /\ AnswerIsFirst'
    BY DEF CountInv, ScanInv, AnswerIsFirst, Choice!Best, Choice!NoneSucceeded
  <1> QED BY <1>1, <1>2, <1>3, <1>4

LEMMA ReceiveStep ==
  ASSUME IInv, Receive
  PROVE  IInv'
  <1> USE DEF IInv, Receive
  <1> DEFINE head == Head(resChan)
  <1>1. /\ head \in Index /\ head = resChan[1]
        /\ Tail(resChan) \in Seq(Index)
        /\ Len(resChan) \in Nat \ {0}
        /\ Len(Tail(resChan)) = Len(resChan) - 1
        /\ \A k \in 1 .. Len(Tail(resChan)) : Tail(resChan)[k] = resChan[k + 1]
    BY HeadTailProperties, EmptySeq DEF TypeOK
  <1>2. head \notin pending
    BY <1>1 DEF PlaceInv
  <1>3. TypeOK'
    BY <1>1, NAssumption DEF TypeOK
  <1>4. ReturnedInv' /\ AnswerIsFirst'
    BY DEF ReturnedInv, AnswerIsFirst, Choice!Best, Choice!NoneSucceeded
  <1>5. PlaceInv'
    <2>1. ASSUME NEW k \in 1 .. Len(Tail(resChan))
          PROVE  /\ k + 1 \in 1 .. Len(resChan)
                 /\ resChan'[k] = resChan[k + 1]
                 /\ resChan[k + 1] # head
      BY <1>1, <2>1 DEF PlaceInv
    <2>2. \A k \in 1 .. Len(resChan') : goroutine'[resChan'[k]] = "done" /\ resChan'[k] \notin pending'
      BY <2>1 DEF PlaceInv
    <2>3. \A k, l \in 1 .. Len(resChan') : resChan'[k] = resChan'[l] => k = l
      BY <1>1, <2>1 DEF PlaceInv
    <2>4. \A i \in pending' : goroutine'[i] = "done"
      BY <1>1 DEF PlaceInv
    <2> QED BY <2>2, <2>3, <2>4 DEF PlaceInv
  <1>6. CountInv'
    BY <1>2, IndexFinite, FS_Subset, FS_AddElement DEF TypeOK, CountInv
  <1>7. ScanInv'
    BY DEF ScanInv
  <1> QED BY <1>3, <1>4, <1>5, <1>6, <1>7

LEMMA SkipStep ==
  ASSUME IInv, Skip
  PROVE  IInv'
  <1> USE DEF IInv, Skip, Scanning
  <1>1. nextToReturn \in Index /\ nextToReturn' = nextToReturn + 1
    BY DEF TypeOK
  <1>2. TypeOK'
    BY <1>1, NAssumption DEF TypeOK, Index
  <1>3. ScanInv'
    BY <1>1, NAssumption DEF TypeOK, ScanInv, Index
  <1>4. ReturnedInv' /\ PlaceInv' /\ CountInv' /\ AnswerIsFirst'
    BY DEF ReturnedInv, PlaceInv, CountInv, AnswerIsFirst, Choice!Best, Choice!NoneSucceeded
  <1> QED BY <1>2, <1>3, <1>4

\* The answer given on the early return.
LEMMA ReturnFirstIsBest ==
  ASSUME IInv, ReturnFirst
  PROVE  nextToReturn \in Index /\ Choice!Best(nextToReturn)
  BY DEF IInv, ReturnFirst, Scanning, TypeOK, ScanInv, Choice!Best, Choice!Index, Index

\* The answer given after the loop.
LEMMA ReturnNoneIsRight ==
  ASSUME IInv, ReturnNone
  PROVE  Choice!NoneSucceeded
  <1>1. pending = Index
    BY AllReceived DEF IInv, ReturnNone
  <1>2. nextToReturn = N
    BY <1>1, NAssumption DEF IInv, TypeOK, ReturnNone, Scanning, Index
  <1> QED BY <1>2, NAssumption DEF IInv, ScanInv, Choice!NoneSucceeded, Choice!Index, Index

LEMMA ReturnFirstStep ==
  ASSUME IInv, ReturnFirst
  PROVE  IInv'
  <1> USE DEF IInv, ReturnFirst
  <1>1. TypeOK'
    BY NAssumption DEF TypeOK, Scanning, Index
  <1>2. ReturnedInv' /\ PlaceInv' /\ CountInv' /\ ScanInv'
    BY DEF ReturnedInv, PlaceInv, CountInv, ScanInv
  <1>3. AnswerIsFirst'
    BY ReturnFirstIsBest, NAssumption
    DEF AnswerIsFirst, Choice!Best, Choice!NoneSucceeded, Index
  <1> QED BY <1>1, <1>2, <1>3

LEMMA ReturnNoneStep ==
  ASSUME IInv, ReturnNone
  PROVE  IInv'
  <1> USE DEF IInv, ReturnNone
  <1>1. TypeOK'
    BY NAssumption DEF TypeOK, Scanning, Index
  <1>2. ReturnedInv' /\ PlaceInv' /\ CountInv' /\ ScanInv'
    BY DEF ReturnedInv, PlaceInv, CountInv, ScanInv
  <1>3. AnswerIsFirst'
    BY ReturnNoneIsRight, NAssumption
    DEF AnswerIsFirst, Choice!Best, Choice!NoneSucceeded, Index
  <1> QED BY <1>1, <1>2, <1>3

LEMMA StutterStep ==
  ASSUME IInv, UNCHANGED vars
  PROVE  IInv'
  BY DEF IInv, vars, TypeOK, ReturnedInv, PlaceInv, CountInv, ScanInv, AnswerIsFirst,
         Choice!Best, Choice!NoneSucceeded

LEMMA NextIInv == IInv /\ [Next]_vars => IInv'
  BY ReturnStep, SendStep, ReceiveStep, SkipStep, ReturnFirstStep, ReturnNoneStep, StutterStep
  DEF Next, Caller, Finished

\* The invariant the other theorems rest on.
THEOREM Invariance == SafeSpec => []IInv
  BY InitIInv, NextIInv, PTL DEF SafeSpec
-----------------------------------------------------------------------------
\* Type correctness, for every number of candidates.
THEOREM TypeCorrect == SafeSpec => []TypeOK
  <1>1. IInv => TypeOK
    BY DEF IInv
  <1> QED BY <1>1, Invariance, PTL

\* The answer is the first success in the order of the parameters and every
\* error it comes with is known, for every number of candidates.
THEOREM AnswerCorrect == SafeSpec => []AnswerIsFirst
  <1>1. IInv => AnswerIsFirst
    BY DEF IInv
  <1> QED BY <1>1, Invariance, PTL

\* The goroutines an early return leaves behind never block on the channel: if
\* i still has to send, the results in the channel are those of the others.
LEMMA ChannelHasRoom == IInv => SendNeverBlocks
  <1> SUFFICES ASSUME IInv, NEW i \in Index, goroutine[i] = "sending", ~(Len(resChan) < N)
               PROVE  FALSE
    BY DEF SendNeverBlocks, Capacity
  <1> DEFINE others == Index \ {i}
             slots == 1 .. Len(resChan)
  <1>1. Len(resChan) \in Nat /\ resChan \in [slots -> Index]
    BY LenProperties DEF IInv, TypeOK
  <1>2. resChan \in [slots -> others]
    BY <1>1 DEF IInv, PlaceInv
  <1>3. IsFiniteSet(others) /\ Cardinality(others) = N - 1
    BY IndexFinite, FS_RemoveElement
  <1>4. IsFiniteSet(slots) /\ Cardinality(slots) = Len(resChan)
    BY <1>1, FS_Interval
  <1>5. \E k, l \in slots : k # l /\ resChan[k] = resChan[l]
    <2>1. Cardinality(others) < Cardinality(slots)
      BY <1>1, <1>3, <1>4, NAssumption
    <2> HIDE DEF others, slots
    <2> QED BY <1>2, <1>3, <1>4, <2>1, FS_PigeonHole
  <1> QED BY <1>5 DEF IInv, PlaceInv

THEOREM NoGoroutineBlocks == SafeSpec => []SendNeverBlocks
  BY ChannelHasRoom, Invariance, PTL
-----------------------------------------------------------------------------
\* The caller asks for one more result only if it knows of no success, or lacks a
\* result before it.
LEMMA ReceiveIsNeeded ==
  ASSUME IInv, Receive, NEW i \in pending, outcome[i] = "value", \A j \in Index : j < i => j \in pending
  PROVE  FALSE
  <1>1. i \in Index /\ nextToReturn \in 0 .. N /\ nextToReturn \notin pending
    BY DEF IInv, TypeOK, Receive, Scanning
  <1>2. CASE i < nextToReturn
    BY <1>1, <1>2 DEF IInv, ScanInv
  <1>3. CASE nextToReturn <= i
    BY <1>1, <1>3, NAssumption DEF Index
  <1> QED BY <1>1, <1>2, <1>3, NAssumption DEF Index

\* The caller never waits for a result it does not need, for every number of
\* candidates and in whatever order they answer.
THEOREM NoWaitIsNeedless == SafeSpec => NoNeedlessWait
  <1>1. IInv /\ [Next]_vars
        => [received' # received =>
               ~\E i \in pending : /\ outcome[i] = "value"
                                   /\ \A j \in Index : j < i => j \in pending]_vars
    <2> SUFFICES ASSUME IInv, [Next]_vars, received' # received,
                        NEW i \in pending, outcome[i] = "value", \A j \in Index : j < i => j \in pending
                 PROVE  FALSE
      OBVIOUS
    <2>1. Receive
      BY DEF Next, Caller, Return, Send, Skip, ReturnFirst, ReturnNone, Finished, vars
    <2> QED BY <2>1, ReceiveIsNeeded
  <1> QED BY <1>1, Invariance, PTL DEF SafeSpec, NoNeedlessWait
-----------------------------------------------------------------------------
\* Every step of the code is a step of OrderedChoice or leaves it unchanged.
LEMMA StepRefines ==
  ASSUME IInv, [Next]_vars
  PROVE  [Choice!Next]_(Choice!vars)
  <1> USE DEF Choice!Index, Choice!NoAnswer, Index, NoAnswer
  <1>1. CASE \E i \in Index : Return(i)
    <2> PICK i \in Index : Return(i)
      BY <1>1
    <2>1. Choice!Settle(i)
      BY DEF Return, Choice!Settle, IInv, ReturnedInv
    <2> QED BY <2>1 DEF Choice!Next
  <1>2. CASE ReturnFirst
    <2>1. Choice!AnswerBest(nextToReturn)
      BY <1>2, ReturnFirstIsBest DEF ReturnFirst, Choice!AnswerBest
    <2> QED BY <1>2, <2>1, ReturnFirstIsBest DEF Choice!Next, Choice!Answer
  <1>3. CASE ReturnNone
    <2>1. Choice!AnswerNone
      BY <1>3, ReturnNoneIsRight DEF ReturnNone, Choice!AnswerNone
    <2> QED BY <2>1 DEF Choice!Next, Choice!Answer
  <1>4. CASE Receive \/ Skip \/ (\E i \in Index : Send(i)) \/ UNCHANGED vars
    BY <1>4 DEF Receive, Skip, Send, vars, Choice!vars
  <1> QED BY <1>1, <1>2, <1>3, <1>4 DEF Next, Caller, Finished

\* FirstSuccessful implements the safety part of its promise.
THEOREM Refinement == SafeSpec => Choice!SafeSpec
  <1>1. Init => Choice!Init
    BY DEF Init, Choice!Init, Choice!Index, Choice!NoAnswer, Index, NoAnswer
  <1> QED BY <1>1, Invariance, StepRefines, PTL DEF SafeSpec, Choice!SafeSpec
=============================================================================
