----------------------- MODULE MirrorReconciler_proof -----------------------
(***************************************************************************)
(* Proofs about MirrorReconciler, for every set of images, mirrors, pods    *)
(* and specs, every retention and every number of faults.                   *)
(***************************************************************************)
EXTENDS MirrorReconciler, WellFoundedInduction, TLAPS

(* What the operators on statuses and registries return. *)

LEMMA PartialIntro ==
    ASSUME NEW S, NEW T, NEW D \in SUBSET S, NEW f \in [D -> T]
    PROVE  f \in Partial(S, T)
BY DEF Partial

LEMMA PartialElim ==
    ASSUME NEW S, NEW T, NEW f \in Partial(S, T)
    PROVE  DOMAIN f \in SUBSET S /\ f \in [DOMAIN f -> T]
BY DEF Partial

LEMMA EmptyPartial == \A S, T : << >> \in Partial(S, T)
<1> TAKE S, T
<1>1. << >> = [x \in {} |-> x]
  OBVIOUS
<1>2. [x \in {} |-> x] \in [{} -> T]
  OBVIOUS
<1> QED
  BY <1>1, <1>2, PartialIntro

\* Bounds of the ages, from Retention \in Nat.
LEMMA AgeFacts ==
    /\ InUse \in Ages /\ NotMatching \in Ages /\ 0 \in Ages
    /\ \A a \in Ages : Older(a) \in Ages
BY MirrorAssumption DEF Ages, InUse, NotMatching, Older

LEMMA EntryUpdate ==
    ASSUME NEW e \in Entry, NEW m, NEW state \in {"untracked", "pending", "mirrored"}
    PROVE  [e EXCEPT !.mirrors[m] = state] \in Entry
BY DEF Entry

LEMMA AgedType ==
    ASSUME NEW st \in StatusSet
    PROVE  /\ Aged(st) \in StatusSet
           /\ DOMAIN Aged(st) = DOMAIN st
           /\ \A i \in DOMAIN st, m \in Mirrors : Aged(st)[i].mirrors[m] = st[i].mirrors[m]
<1>1. DOMAIN st \in SUBSET Images /\ st \in [DOMAIN st -> Entry]
  BY PartialElim DEF StatusSet
<1>2. \A e \in Entry : [e EXCEPT !.since = Older(@)] \in Entry
  BY AgeFacts DEF Entry
<1>3. Aged(st) \in [DOMAIN st -> Entry]
  BY <1>1, <1>2 DEF Aged
<1>4. \A i \in DOMAIN st, m \in Mirrors : Aged(st)[i].mirrors[m] = st[i].mirrors[m]
  BY <1>1 DEF Aged, Entry
<1> QED
  BY <1>1, <1>3, <1>4, PartialIntro DEF StatusSet, Aged

\* Changing one mirror of one tracked image.
LEMMA OneMirrorType ==
    ASSUME NEW st \in StatusSet, NEW i, NEW m, NEW state \in {"untracked", "pending", "mirrored"}
    PROVE  [st EXCEPT ![i].mirrors[m] = state] \in StatusSet
<1>1. DOMAIN st \in SUBSET Images /\ st \in [DOMAIN st -> Entry]
  BY PartialElim DEF StatusSet
<1>2. [st EXCEPT ![i].mirrors[m] = state] \in [DOMAIN st -> Entry]
  BY <1>1, EntryUpdate
<1> QED
  BY <1>1, <1>2, PartialIntro DEF StatusSet

LEMMA AppliedType ==
    ASSUME status \in StatusSet, NEW i \in Images, NEW m \in Mirrors,
           NEW state \in {"pending", "mirrored"}
    PROVE  Applied(i, m, state) \in StatusSet
<1>1. DOMAIN status \in SUBSET Images /\ status \in [DOMAIN status -> Entry]
  BY PartialElim DEF StatusSet
<1>2. [since |-> InUse, mirrors |-> [n \in Mirrors |-> IF n = m THEN state ELSE "untracked"]] \in Entry
  BY AgeFacts DEF Entry
<1>3. Applied(i, m, state) \in [DOMAIN status \cup {i} -> Entry]
  BY <1>1, <1>2, EntryUpdate DEF Applied
<1> QED
  BY <1>1, <1>3, PartialIntro DEF StatusSet

LEMMA MergedType ==
    ASSUME TypeOK
    PROVE  MergePreviousAndCurrent \in StatusSet
<1>1. /\ DOMAIN myStatus \in SUBSET Images /\ myStatus \in [DOMAIN myStatus -> Entry]
      /\ matching \in SUBSET Images
  BY PartialElim DEF StatusSet, TypeOK
<1>2. \A i, since : since \in Ages => UnusedSince(i, since) \in Ages
  BY AgeFacts DEF UnusedSince
<1>3. \A e : \A c \in [Mirrors -> {"untracked", "pending", "mirrored"}] :
          MergeMirrors(c, e) \in [Mirrors -> {"untracked", "pending", "mirrored"}]
  BY DEF MergeMirrors
<1>4. NoMirrors \in [Mirrors -> {"untracked", "pending", "mirrored"}]
  BY DEF NoMirrors
<1>5. MergePreviousAndCurrent \in [DOMAIN myStatus \cup matching -> Entry]
  BY <1>1, <1>2, <1>3, <1>4, AgeFacts DEF MergePreviousAndCurrent, Entry
<1> QED
  BY <1>1, <1>5, PartialIntro DEF StatusSet

LEMMA KeptType ==
    ASSUME NEW st \in StatusSet
    PROVE  Kept(st) \in StatusSet
<1>1. DOMAIN st \in SUBSET Images /\ st \in [DOMAIN st -> Entry]
  BY PartialElim DEF StatusSet
<1>2. Kept(st) \in [{j \in DOMAIN st : st[j].since = InUse \/ Tracked(st, j) # {}} -> Entry]
  BY <1>1 DEF Kept
<1> QED
  BY <1>1, <1>2, PartialIntro DEF StatusSet
-----------------------------------------------------------------------------
(* Type correctness. *)

\* The variables that no lemma above is about.
LEMMA InitType == Init => TypeOK
<1> SUFFICES ASSUME Init PROVE TypeOK
  OBVIOUS
<1>1. status \in StatusSet /\ myStatus \in StatusSet /\ pods \in Partial(Pods, Pod)
  BY EmptyPartial DEF Init, StatusSet
<1>2. registry \in [Mirrors -> Partial(Refs, Digests)]
  BY EmptyPartial DEF Init
<1>3. spec \in SpecSet /\ mySpec \in SpecSet
  BY MirrorAssumption DEF Init, NoSpec, SpecSet
<1>4. Never \in Never .. Retention
  BY MirrorAssumption DEF Never
<1>5. pc \in Steps /\ faults \in Nat /\ clears = {}
  BY DEF Init, Steps
<1> QED
  BY <1>1, <1>2, <1>3, <1>4, <1>5 DEF Init, TypeOK

\* Ending a reconcile leaves its variables well typed.
LEMMA ForgottenType ==
    ASSUME Forgotten
    PROVE  /\ mySpec' \in SpecSet /\ myStatus' \in StatusSet
           /\ matching' = {} /\ inUseImages' = {} /\ todo' = {} /\ left' = {}
           /\ dirty' \in BOOLEAN /\ someFailed' \in BOOLEAN
           /\ requeueAfter' \in Never .. Retention
<1>1. NoSpec \in SpecSet
  BY DEF NoSpec, SpecSet
<1>2. << >> \in StatusSet
  BY EmptyPartial DEF StatusSet
<1>3. Never \in Never .. Retention
  BY MirrorAssumption DEF Never
<1> QED
  BY <1>1, <1>2, <1>3 DEF Forgotten

LEMMA UsersType == TypeOK /\ Users => TypeOK'
<1> SUFFICES ASSUME TypeOK, Users PROVE TypeOK'
  OBVIOUS
<1> USE DEF object, queue, memory
<1>1. CASE EditSpec
  BY <1>1, MirrorAssumption DEF EditSpec, TypeOK
<1>2. CASE DeleteObject
  BY <1>2 DEF DeleteObject, TypeOK
<1>3. ASSUME NEW p \in Pods, RemovePod(p) PROVE TypeOK'
  <2>1. DOMAIN pods \in SUBSET Pods /\ pods \in [DOMAIN pods -> Pod]
    BY PartialElim DEF TypeOK
  <2>2. pods' \in [DOMAIN pods \ {p} -> Pod]
    BY <1>3, <2>1 DEF RemovePod
  <2>3. pods' \in Partial(Pods, Pod)
    BY <2>1, <2>2, PartialIntro
  <2> QED
    BY <1>3, <2>3 DEF RemovePod, PodEvent, Mapped, TypeOK
<1>4. ASSUME NEW p \in Pods, UpdatePod(p) PROVE TypeOK'
  BY <1>4 DEF UpdatePod, TypeOK
<1>5. ASSUME NEW p \in Pods, NEW pod \in Pod, Admit(p, pod) PROVE TypeOK'
  <2>1. DOMAIN pods \in SUBSET Pods /\ pods \in [DOMAIN pods -> Pod]
    BY PartialElim DEF TypeOK
  <2>2. pods' \in [DOMAIN pods \cup {p} -> Pod]
    BY <1>5, <2>1 DEF Admit
  <2>3. pods' \in Partial(Pods, Pod)
    BY <2>1, <2>2, PartialIntro
  <2> QED
    BY <1>5, <2>3 DEF Admit, PodEvent, Mapped, TypeOK
<1>6. ASSUME NEW p \in Pods, NEW i \in Images, AdmitFromSource(p, i) PROVE TypeOK'
  BY <1>5, <1>6 DEF AdmitFromSource, Pod
<1>7. ASSUME NEW p \in Pods, NEW i \in Images, NEW m \in Mirrors, AdmitFromMirror(p, i, m)
      PROVE  TypeOK'
  BY <1>5, <1>7 DEF AdmitFromMirror, Pod
<1>8. ASSUME NEW m \in Mirrors, NEW r \in Refs, LoseImage(m, r) PROVE TypeOK'
  <2>1. DOMAIN registry[m] \in SUBSET Refs /\ registry[m] \in [DOMAIN registry[m] -> Digests]
    BY PartialElim DEF TypeOK
  <2>2. [q \in DOMAIN registry[m] \ {r} |-> registry[m][q]] \in [DOMAIN registry[m] \ {r} -> Digests]
    BY <2>1
  <2>3. [q \in DOMAIN registry[m] \ {r} |-> registry[m][q]] \in Partial(Refs, Digests)
    BY <2>1, <2>2, PartialIntro
  <2>4. registry' \in [Mirrors -> Partial(Refs, Digests)]
    BY <1>8, <2>3 DEF LoseImage, TypeOK
  <2> QED
    BY <1>8, <2>4 DEF LoseImage, Fault, TypeOK
<1> QED
  BY <1>1, <1>2, <1>3, <1>4, <1>6, <1>7, <1>8 DEF Users

LEMMA WebhookType == TypeOK /\ Webhook => TypeOK'
<1> SUFFICES ASSUME TypeOK, Webhook PROVE TypeOK'
  OBVIOUS
<1> USE DEF object, queue, memory
<1>1. ASSUME NEW m \in Mirrors, NEW r \in Refs, StartClear(m, r) PROVE TypeOK'
  <2>1. DOMAIN status \in SUBSET Images
    BY PartialElim DEF TypeOK, StatusSet
  <2>2. clears' \subseteq Images \X Mirrors \X {"own", "remove", "contested"}
    BY <1>1, <2>1 DEF StartClear, TypeOK
  <2> QED
    BY <1>1, <2>2 DEF StartClear, TypeOK
<1>2. ASSUME NEW i \in Images, NEW m \in Mirrors, OwnMirroredAt(i, m) PROVE TypeOK'
  <2>1. status' \in StatusSet
    BY <1>2, AppliedType DEF OwnMirroredAt, TypeOK
  <2> QED
    BY <1>2, <2>1 DEF OwnMirroredAt, TypeOK
<1>3. ASSUME NEW i \in Images, NEW m \in Mirrors, NEW stage, RemoveMirroredAt(i, m, stage)
      PROVE  TypeOK'
  <2>1. status' \in StatusSet
    BY <1>3, AppliedType DEF RemoveMirroredAt, TypeOK
  <2> QED
    BY <1>3, <2>1 DEF RemoveMirroredAt, TypeOK
<1>4. ASSUME NEW c \in clears, GiveUpClear(c) PROVE TypeOK'
  BY <1>4 DEF GiveUpClear, Fault, TypeOK
<1> QED
  BY <1>1, <1>2, <1>3, <1>4 DEF Webhook

LEMMA NextExpiryType ==
    ASSUME NEW st \in StatusSet, NEW cleanup
    PROVE  NextExpiry(st, cleanup) \in Never .. Retention
<1>1. st \in [DOMAIN st -> Entry]
  BY PartialElim DEF StatusSet
<1> DEFINE delays == {Retention - st[i].since :
                          i \in {j \in Unused(st) : ~Expired(st, j) /\ Tracked(st, j) # {}}}
<1>2. delays \subseteq 0 .. Retention
  <2> SUFFICES ASSUME NEW i \in DOMAIN st, st[i].since # InUse, ~(st[i].since >= Retention)
               PROVE  Retention - st[i].since \in 0 .. Retention
    BY DEF Unused, Expired
  <2>1. st[i].since \in Ages
    BY <1>1 DEF Entry
  <2> QED
    BY <2>1, MirrorAssumption DEF Ages, InUse, NotMatching
<1>3. CASE cleanup /\ delays # {}
  <2>1. \E d \in delays : \A e \in delays : d <= e
    <3>1. delays \in SUBSET Nat
      BY <1>2
    <3> DEFINE less == {ss \in Nat \X Nat : ss[1] < ss[2]}
    <3>2. IsWellFoundedOn(less, Nat)
      BY NatLessThanWellFounded DEF OpToRel
    <3> HIDE DEF delays
    <3>3. PICK d \in delays : \A e \in delays : ~(<<e, d>> \in less)
      BY <3>1, <3>2, <1>3, WFMin
    <3>4. ASSUME NEW e \in delays PROVE d <= e
      <4>1. d \in Nat /\ e \in Nat
        BY <3>1
      <4>2. ~(e < d)
        BY <3>3, <4>1
      <4> QED
        BY <4>1, <4>2
    <3> QED
      BY <3>4
  <2>2. NextExpiry(st, cleanup) \in delays
    BY <2>1, <1>3 DEF NextExpiry
  <2> QED
    BY <2>2, <1>2, MirrorAssumption DEF Never
<1>4. CASE ~(cleanup /\ delays # {})
  BY <1>4, MirrorAssumption DEF NextExpiry, Never
<1> QED
  BY <1>3, <1>4

\* What a patch writes.
LEMMA PatchType ==
    ASSUME TypeOK, NEW new \in StatusSet, NEW changed, PatchList(new, changed)
    PROVE  /\ status' \in StatusSet
           /\ clears' \subseteq Images \X Mirrors \X {"own", "remove", "contested"}
BY DEF TypeOK, PatchList, WriteList

\* What a deletion leaves in a mirror.
LEMMA DeleteImageType ==
    ASSUME TypeOK, NEW m \in Mirrors, NEW r, DeleteImage(m, r)
    PROVE  registry' \in [Mirrors -> Partial(Refs, Digests)]
<1>1. DOMAIN registry[m] \in SUBSET Refs /\ registry[m] \in [DOMAIN registry[m] -> Digests]
  BY PartialElim DEF TypeOK
<1>2. Without(m, r) \in Partial(Refs, Digests)
  <2> DEFINE D == {q \in DOMAIN registry[m] : RepoOf[q] # RepoOf[r] \/ registry[m][q] # registry[m][r]}
  <2>1. D \in SUBSET Refs /\ Without(m, r) \in [D -> Digests]
    BY <1>1 DEF Without
  <2> QED
    BY <2>1, PartialIntro
<1> QED
  BY <1>2 DEF DeleteImage, TypeOK

LEMMA CleanupType ==
    ASSUME TypeOK, NEW i \in Images, NEW m \in Mirrors, CleanupSucceeds(i, m) \/ CleanupFails(i, m)
    PROVE  registry' \in [Mirrors -> Partial(Refs, Digests)] /\ faults' \in Nat
BY DeleteImageType DEF CleanupSucceeds, CleanupFails, Fault, TypeOK

LEMMA PushedType ==
    ASSUME TypeOK, NEW i \in Images, NEW m \in Mirrors, Pushed(i, m)
    PROVE  registry' \in [Mirrors -> Partial(Refs, Digests)]
<1>1. DOMAIN registry[m] \in SUBSET Refs /\ registry[m] \in [DOMAIN registry[m] -> Digests]
  BY PartialElim DEF TypeOK
<1>2. RefOf[i] \in Refs /\ DigestOf[i] \in Digests
  BY DEF Refs, Digests
<1> DEFINE new == [r \in DOMAIN registry[m] \cup {RefOf[i]} |->
                     IF r = RefOf[i] THEN DigestOf[i] ELSE registry[m][r]]
<1>3. new \in [DOMAIN registry[m] \cup {RefOf[i]} -> Digests]
  BY <1>1, <1>2
<1>4. new \in Partial(Refs, Digests)
  BY <1>1, <1>2, <1>3, PartialIntro
<1>5. registry' = [registry EXCEPT ![m] = new]
  BY DEF Pushed
<1> QED
  BY <1>4, <1>5 DEF TypeOK

\* The two ends of a reconcile.
LEMMA EndType ==
    ASSUME TypeOK, NEW delay \in Never .. Retention,
           EndWithError \/ EndAndRequeueAfter(delay)
    PROVE  /\ pc' \in Steps
           /\ queued' \in BOOLEAN
           /\ requeueIn' \in Never .. Retention
           /\ mySpec' \in SpecSet /\ myStatus' \in StatusSet
           /\ matching' \subseteq Images /\ inUseImages' \subseteq Images
           /\ todo' \subseteq Images \X Mirrors /\ left' \subseteq Images
           /\ dirty' \in BOOLEAN /\ someFailed' \in BOOLEAN
           /\ requeueAfter' \in Never .. Retention
BY ForgottenType DEF EndWithError, EndAndRequeueAfter, Earlier, TypeOK, Steps

LEMMA NeverType == Never \in Never .. Retention
BY MirrorAssumption DEF Never

LEMMA DeletionType ==
    ASSUME TypeOK,
           GetNothing \/ GetDeleted \/ RemoveFinalizer
           \/ \E i \in Images, m \in Mirrors : DeleteMirror(i, m)
    PROVE  TypeOK'
<1> USE DEF object, queue, memory
<1>1. CASE GetNothing
  BY <1>1 DEF GetNothing, TypeOK
<1>2. CASE GetDeleted
  <2>1. MirroredIn(status) \subseteq Images \X Mirrors
    BY PartialElim DEF MirroredIn, TypeOK, StatusSet
  <2> QED
    BY <1>2, <2>1 DEF GetDeleted, TypeOK, Steps
<1>3. CASE RemoveFinalizer
  BY <1>3, EndType, NeverType DEF RemoveFinalizer, TypeOK
<1>4. ASSUME NEW i \in Images, NEW m \in Mirrors, DeleteMirror(i, m) PROVE TypeOK'
  <2>1. registry' \in [Mirrors -> Partial(Refs, Digests)] /\ faults' \in Nat
    BY <1>4, CleanupType DEF DeleteMirror
  <2>2. CASE EndWithError
    BY <1>4, <2>1, <2>2, EndType, NeverType DEF DeleteMirror, TypeOK
  <2>3. CASE ~EndWithError
    BY <1>4, <2>1, <2>3 DEF DeleteMirror, TypeOK
  <2> QED
    BY <2>2, <2>3
<1> QED
  BY <1>1, <1>2, <1>3, <1>4

\* The spec in memory as refreshed by an answer.
LEMMA RefreshedType ==
    ASSUME TypeOK
    PROVE  /\ Refreshed \in SpecSet
           /\ Refreshed.filter = mySpec.filter
           /\ Refreshed.mirrors = spec.mirrors
BY DEF Refreshed, TypeOK, SpecSet

LEMMA MergeType ==
    ASSUME TypeOK, GetLive \/ ListPods \/ AddFinalizer \/ MergeAndPatch
    PROVE  TypeOK'
<1> USE DEF object, queue, memory
<1>1. CASE GetLive
  BY <1>1 DEF GetLive, TypeOK, Steps
<1>2. CASE ListPods
  <2>1. DOMAIN pods \in SUBSET Pods /\ pods \in [DOMAIN pods -> Pod]
    BY PartialElim DEF TypeOK
  <2>2. RunningImages \subseteq Images /\ PodsInUseImages \subseteq Images
    BY <2>1 DEF RunningImages, PodsInUseImages, Pod
  <2>3. CASE mySpec.valid
    BY <1>2, <2>2, <2>3 DEF ListPods, TypeOK, Steps
  <2>4. CASE ~mySpec.valid
    BY <1>2, <2>4, EndType, NeverType DEF ListPods, TypeOK
  <2> QED
    BY <2>3, <2>4
<1>3. CASE AddFinalizer
  <2>1. CASE EndWithError
    BY <1>3, <2>1, EndType, NeverType DEF AddFinalizer, TypeOK
  <2>2. CASE ~EndWithError
    <3>1. mySpec' \in SpecSet
      BY <1>3, <2>2, RefreshedType DEF AddFinalizer
    <3> QED
      BY <1>3, <2>2, <3>1 DEF AddFinalizer, TypeOK, Steps
  <2> QED
    BY <2>1, <2>2
<1>4. CASE MergeAndPatch
  <2>1. /\ status' \in StatusSet
        /\ clears' \subseteq Images \X Mirrors \X {"own", "remove", "contested"}
    BY <1>4, MergedType, PatchType DEF MergeAndPatch
  <2>2. ToClean(status', spec.cleanup) \subseteq Images \X Mirrors
    BY <2>1, PartialElim DEF ToClean, StatusSet
  <2>3. NextExpiry(status', spec.cleanup) \in Never .. Retention
    BY <2>1, NextExpiryType
  <2> QED
    BY <1>4, <2>1, <2>2, <2>3, RefreshedType DEF MergeAndPatch, TypeOK, Steps
<1> QED
  BY <1>1, <1>2, <1>3, <1>4

LEMMA LoopsType ==
    ASSUME TypeOK,
           \/ PatchAfterCleanup \/ PatchMirrors \/ Finish
           \/ \E i \in Images, m \in Mirrors : CleanMirror(i, m) \/ CopyMirror(i, m)
           \/ \E i \in Images : VisitImage(i)
    PROVE  TypeOK'
<1> USE DEF object, queue, memory
<1>1. CASE PatchAfterCleanup
  <2>1. /\ status' \in StatusSet
        /\ clears' \subseteq Images \X Mirrors \X {"own", "remove", "contested"}
    BY <1>1, KeptType, PatchType DEF PatchAfterCleanup, TypeOK
  <2>2. DOMAIN status' \subseteq Images
    BY <2>1, PartialElim DEF StatusSet
  <2> QED
    BY <1>1, <2>1, <2>2, RefreshedType DEF PatchAfterCleanup, TypeOK, Steps
<1>2. CASE PatchMirrors
  <2>1. /\ status' \in StatusSet
        /\ clears' \subseteq Images \X Mirrors \X {"own", "remove", "contested"}
    BY <1>2, PatchType DEF PatchMirrors, TypeOK
  <2> QED
    BY <1>2, <2>1, RefreshedType DEF PatchMirrors, TypeOK, Steps
<1>3. CASE Finish
  BY <1>3, EndType, NeverType DEF Finish, TypeOK
<1>4. ASSUME NEW i \in Images, NEW m \in Mirrors, CleanMirror(i, m) PROVE TypeOK'
  <2>1. registry' \in [Mirrors -> Partial(Refs, Digests)] /\ faults' \in Nat
    BY <1>4, CleanupType DEF CleanMirror, TypeOK
  <2>2. myStatus' \in StatusSet
    <3>1. Untracked(i, m) \in StatusSet
      BY OneMirrorType, Zenon DEF Untracked, TypeOK
    <3> QED
      BY <1>4, <3>1 DEF CleanMirror, TypeOK
  <2> QED
    BY <1>4, <2>1, <2>2 DEF CleanMirror, TypeOK
<1>5. ASSUME NEW i \in Images, NEW m \in Mirrors, CopyMirror(i, m) PROVE TypeOK'
  <2>1. registry' \in [Mirrors -> Partial(Refs, Digests)] /\ faults' \in Nat
    <3>1. Pushed(i, m) \/ UNCHANGED registry
      BY <1>5 DEF CopyMirror
    <3>2. registry' \in [Mirrors -> Partial(Refs, Digests)]
      BY <3>1, PushedType DEF TypeOK
    <3>3. faults' = faults \/ Fault("copy") \/ Fault("late")
      BY <1>5 DEF CopyMirror
    <3>4. faults' \in Nat
      BY <3>3 DEF Fault, TypeOK
    <3> QED
      BY <3>2, <3>4
  <2>2. myStatus' \in StatusSet
    <3>1. Mirrored(i, m) \in StatusSet
      BY OneMirrorType, Zenon DEF Mirrored, TypeOK
    <3> QED
      BY <1>5, <3>1 DEF CopyMirror, TypeOK
  <2> QED
    BY <1>5, <2>1, <2>2 DEF CopyMirror, TypeOK
<1>6. ASSUME NEW i \in Images, VisitImage(i) PROVE TypeOK'
  BY <1>6 DEF VisitImage, TypeOK, Steps
<1> QED
  BY <1>1, <1>2, <1>3, <1>4, <1>5, <1>6

LEMMA TypeStep == TypeOK /\ [Next]_vars => TypeOK'
<1> SUFFICES ASSUME TypeOK, [Next]_vars PROVE TypeOK'
  OBVIOUS
<1> USE DEF object, queue, memory
<1>1. CASE Tick
  <2>1. status' \in StatusSet /\ myStatus' \in StatusSet
    BY <1>1, AgedType DEF Tick, TypeOK
  <2>2. requeueIn' \in Never .. Retention
    BY <1>1, MirrorAssumption DEF Tick, TypeOK, Never
  <2> QED
    BY <1>1, <2>1, <2>2 DEF Tick, TypeOK
<1>2. CASE Wake
  BY <1>2, NeverType DEF Wake, TypeOK
<1>3. CASE ApiFails
  BY <1>3, EndType, NeverType DEF ApiFails, Fault, TypeOK
<1>4. CASE Crash
  BY <1>4, ForgottenType, NeverType DEF Crash, Fault, TypeOK, Steps
<1>5. CASE UNCHANGED vars
  BY <1>5 DEF vars, TypeOK
<1> QED
  BY <1>1, <1>2, <1>3, <1>4, <1>5, UsersType, WebhookType, DeletionType, MergeType, LoopsType
     DEF Next, Act, Reconcile, Proceed

\* The variables of every reachable state have their types, whatever fails,
\* crashes, is edited or deleted on the way.
THEOREM TypeCorrect == Spec => []TypeOK
<1>1. Init => TypeOK
  BY InitType
<1>2. TypeOK /\ [Next]_vars => TypeOK'
  BY TypeStep
<1> QED
  BY <1>1, <1>2, PTL DEF Spec
-----------------------------------------------------------------------------
(* Which steps move what. *)

\* Steps of the others leave reconcile where it is.
LEMMA OthersLeaveMemory ==
    ASSUME Users \/ Webhook \/ Wake \/ GetNothing
    PROVE  UNCHANGED <<pc, memory>>
<1>1. CASE Users
  BY <1>1 DEF Users, EditSpec, DeleteObject, RemovePod, UpdatePod, LoseImage, AdmitFromSource,
              AdmitFromMirror, Admit
<1>2. CASE Webhook
  BY <1>2 DEF Webhook, StartClear, OwnMirroredAt, RemoveMirroredAt, GiveUpClear
<1>3. CASE Wake \/ GetNothing
  BY <1>3 DEF Wake, GetNothing
<1> QED
  BY <1>1, <1>2, <1>3

LEMMA UsersLeaveStatus ==
    ASSUME Users PROVE UNCHANGED status
BY DEF Users, EditSpec, DeleteObject, RemovePod, UpdatePod, LoseImage, AdmitFromSource,
       AdmitFromMirror, Admit, object

\* A patch leaves status and copy equal, whether the list was written or not.
LEMMA PatchResult ==
    ASSUME MergeAndPatch \/ PatchAfterCleanup \/ PatchMirrors
    PROVE  /\ myStatus' = status'
           /\ \/ status' = status
              \/ MergeAndPatch /\ status' = MergePreviousAndCurrent
              \/ PatchAfterCleanup /\ status' = Kept(myStatus)
              \/ PatchMirrors /\ status' = myStatus
<1>1. CASE MergeAndPatch
  BY <1>1 DEF MergeAndPatch, PatchList, WriteList
<1>2. CASE PatchAfterCleanup
  BY <1>2 DEF PatchAfterCleanup, PatchList, WriteList
<1>3. CASE PatchMirrors
  BY <1>3 DEF PatchMirrors, PatchList, WriteList
<1> QED
  BY <1>1, <1>2, <1>3

\* Who changes a mirror.
LEMMA RegistryMoves ==
    ASSUME [Next]_vars
    PROVE  \/ UNCHANGED registry
           \/ \E m \in Mirrors, r \in Refs : LoseImage(m, r)
           \/ \E i \in Images, m \in Mirrors : Pushed(i, m) /\ CopyMirror(i, m)
           \/ \E i \in Images, m \in Mirrors :
                  DeleteImage(m, RefOf[i]) /\ (DeleteMirror(i, m) \/ CleanMirror(i, m))
<1>1. CASE Users
  BY <1>1 DEF Users, EditSpec, DeleteObject, RemovePod, UpdatePod, AdmitFromSource,
              AdmitFromMirror, Admit
<1>2. CASE Webhook \/ Tick \/ Wake \/ UNCHANGED vars
  BY <1>2 DEF Webhook, StartClear, OwnMirroredAt, RemoveMirroredAt, GiveUpClear, Tick, Wake, vars
<1>3. CASE ApiFails \/ Crash \/ GetNothing \/ GetDeleted \/ RemoveFinalizer \/ GetLive \/ ListPods
  BY <1>3 DEF ApiFails, Crash, GetNothing, GetDeleted, RemoveFinalizer, GetLive, ListPods
<1>4. CASE AddFinalizer \/ MergeAndPatch \/ PatchAfterCleanup \/ PatchMirrors \/ Finish
  BY <1>4 DEF AddFinalizer, MergeAndPatch, PatchAfterCleanup, PatchMirrors, Finish
<1>5. ASSUME NEW i \in Images, VisitImage(i) PROVE UNCHANGED registry
  BY <1>5 DEF VisitImage
<1>6. ASSUME NEW i \in Images, NEW m \in Mirrors, DeleteMirror(i, m) \/ CleanMirror(i, m)
      PROVE  UNCHANGED registry \/ DeleteImage(m, RefOf[i])
  BY <1>6 DEF DeleteMirror, CleanMirror, CleanupSucceeds, CleanupFails
<1>7. ASSUME NEW i \in Images, NEW m \in Mirrors, CopyMirror(i, m)
      PROVE  UNCHANGED registry \/ Pushed(i, m)
  BY <1>7 DEF CopyMirror
<1> QED
  BY <1>1, <1>2, <1>3, <1>4, <1>5, <1>6, <1>7 DEF Next, Act, Reconcile, Proceed

LEMMA TickAges ==
    ASSUME NEW st \in StatusSet
    PROVE  /\ DOMAIN Aged(st) = DOMAIN st
           /\ \A i \in DOMAIN st : Aged(st)[i].since = Older(st[i].since)
<1>1. st \in [DOMAIN st -> Entry]
  BY PartialElim DEF StatusSet
<1>2. \A e \in Entry : [e EXCEPT !.since = Older(@)].since = Older(e.since)
  BY DEF Entry
<1> QED
  BY <1>1, <1>2 DEF Aged
-----------------------------------------------------------------------------
(* The finalizer. *)

\* A finalizer keeps the object; reconcile writes a status only under it; and
\* what the deletion loop has passed is out of the mirrors.
Held == /\ finalizer => phase # "gone"
        /\ pc \in {"merging", "cleaning", "mirroring", "copying"} => finalizer

CleanedSoFar ==
    pc = "deleting" =>
        \A i \in DOMAIN myStatus, m \in mySpec.mirrors \cap Credentialed :
            myStatus[i].mirrors[m] = "mirrored" /\ <<i, m>> \notin todo
                => RefOf[i] \notin DOMAIN registry[m]

LEMMA HeldStep == Held /\ [Next]_vars => Held'
<1> SUFFICES ASSUME Held, [Next]_vars PROVE Held'
  OBVIOUS
<1> USE DEF object, Held
<1>1. CASE Users
  <2>1. ASSUME NEW p, NEW pod, Admit(p, pod) PROVE Held'
    BY <2>1 DEF Admit, memory
  <2>2. ASSUME NEW p, NEW i, AdmitFromSource(p, i) PROVE Held'
    BY <2>1, <2>2 DEF AdmitFromSource
  <2>3. ASSUME NEW p, NEW i, NEW m, AdmitFromMirror(p, i, m) PROVE Held'
    BY <2>1, <2>3 DEF AdmitFromMirror
  <2>4. CASE EditSpec \/ DeleteObject
    BY <2>4 DEF EditSpec, DeleteObject
  <2>5. ASSUME NEW p, RemovePod(p) \/ UpdatePod(p) PROVE Held'
    BY <2>5 DEF RemovePod, UpdatePod
  <2>6. ASSUME NEW m, NEW r, LoseImage(m, r) PROVE Held'
    BY <2>6 DEF LoseImage
  <2> QED
    BY <1>1, <2>2, <2>3, <2>4, <2>5, <2>6 DEF Users
<1>2. CASE Webhook
  <2>1. ASSUME NEW m, NEW r, StartClear(m, r) PROVE Held'
    BY <2>1 DEF StartClear
  <2>2. ASSUME NEW i, NEW m, NEW stage, OwnMirroredAt(i, m) \/ RemoveMirroredAt(i, m, stage)
        PROVE  Held'
    BY <2>2 DEF OwnMirroredAt, RemoveMirroredAt
  <2>3. ASSUME NEW c, GiveUpClear(c) PROVE Held'
    BY <2>3 DEF GiveUpClear
  <2> QED
    BY <1>2, <2>1, <2>2, <2>3 DEF Webhook
<1>3. CASE Tick \/ Wake
  BY <1>3 DEF Tick, Wake
<1>4. CASE ApiFails \/ Crash \/ GetNothing \/ GetDeleted \/ RemoveFinalizer
  BY <1>4 DEF ApiFails, Crash, GetNothing, GetDeleted, RemoveFinalizer, EndWithError,
              EndAndRequeueAfter
<1>5. ASSUME NEW i, NEW m, DeleteMirror(i, m) \/ CleanMirror(i, m) \/ CopyMirror(i, m) PROVE Held'
  <2>1. CASE DeleteMirror(i, m)
    BY <2>1 DEF DeleteMirror, EndWithError
  <2>2. CASE CleanMirror(i, m)
    BY <2>2 DEF CleanMirror
  <2>3. CASE CopyMirror(i, m)
    BY <2>3 DEF CopyMirror
  <2> QED
    BY <1>5, <2>1, <2>2, <2>3
<1>6. CASE GetLive \/ ListPods \/ AddFinalizer
  BY <1>6 DEF GetLive, ListPods, AddFinalizer, EndWithError, EndAndRequeueAfter
<1>7. CASE MergeAndPatch \/ PatchAfterCleanup \/ PatchMirrors \/ Finish
  BY <1>7 DEF MergeAndPatch, PatchAfterCleanup, PatchMirrors, Finish, EndWithError, EndAndRequeueAfter
<1>8. ASSUME NEW i, VisitImage(i) PROVE Held'
  BY <1>8 DEF VisitImage
<1>9. CASE UNCHANGED vars
  BY <1>9 DEF vars
<1> QED
  BY <1>1, <1>2, <1>3, <1>4, <1>5, <1>6, <1>7, <1>8, <1>9 DEF Next, Act, Reconcile, Proceed

\* Once reconcile is past the point where it adds the finalizer, the object
\* cannot go before reconcile is done with it.
THEOREM FinalizerAlwaysHolds == Spec => []FinalizerHolds
<1>1. Init => Held
  BY DEF Init, Held
<1>2. Held => FinalizerHolds
  BY DEF Held, FinalizerHolds
<1> QED
  BY <1>1, <1>2, HeldStep, PTL DEF Spec

\* A deletion takes the tag out of the mirror, and adds none.
LEMMA DeleteImageEffect ==
    ASSUME TypeOK, NEW m \in Mirrors, NEW r, DeleteImage(m, r)
    PROVE  /\ r \notin DOMAIN registry'[m]
           /\ \A n \in Mirrors : DOMAIN registry'[n] \subseteq DOMAIN registry[n]
<1>1. DOMAIN Without(m, r) \subseteq DOMAIN registry[m] /\ r \notin DOMAIN Without(m, r)
  BY DEF Without
<1> QED
  BY <1>1 DEF DeleteImage, TypeOK

LEMMA CleanupEffect ==
    ASSUME TypeOK, NEW i, NEW m \in Mirrors, CleanupSucceeds(i, m)
    PROVE  /\ m \in mySpec.mirrors \cap Credentialed => RefOf[i] \notin DOMAIN registry'[m]
           /\ \A n \in Mirrors : DOMAIN registry'[n] \subseteq DOMAIN registry[n]
BY DeleteImageEffect DEF CleanupSucceeds

\* Nobody but reconcile itself moves its program counter and its memory on.
LEMMA CleanedStep == TypeOK /\ CleanedSoFar /\ [Next]_vars => CleanedSoFar'
<1> SUFFICES ASSUME TypeOK, CleanedSoFar, [Next]_vars, pc' = "deleting" PROVE CleanedSoFar'
  BY DEF CleanedSoFar
<1>0. mySpec.mirrors \subseteq Mirrors
  BY DEF TypeOK, SpecSet
<1>1. ASSUME UNCHANGED memory, pc' = pc,
             \A n \in Mirrors : DOMAIN registry'[n] \subseteq DOMAIN registry[n]
      PROVE  CleanedSoFar'
  BY <1>0, <1>1 DEF CleanedSoFar, memory
<1>2. CASE Users
  <2>1. ASSUME NEW m \in Mirrors, NEW r, LoseImage(m, r) PROVE CleanedSoFar'
    <3>1. \A n \in Mirrors : DOMAIN registry'[n] \subseteq DOMAIN registry[n]
      BY <2>1 DEF LoseImage, TypeOK
    <3> QED
      BY <1>1, <2>1, <3>1 DEF LoseImage
  <2>2. ASSUME NEW p, NEW i, AdmitFromSource(p, i) PROVE CleanedSoFar'
    BY <1>1, <2>2 DEF AdmitFromSource, Admit
  <2>3. ASSUME NEW p, NEW i, NEW m, AdmitFromMirror(p, i, m) PROVE CleanedSoFar'
    BY <1>1, <2>3 DEF AdmitFromMirror, Admit
  <2> QED
    BY <1>1, <1>2, <2>1, <2>2, <2>3 DEF Users, EditSpec, DeleteObject, RemovePod, UpdatePod
<1>3. CASE Webhook
  BY <1>1, <1>3 DEF Webhook, StartClear, OwnMirroredAt, RemoveMirroredAt, GiveUpClear
<1>4. CASE Tick
  <2>1. /\ DOMAIN myStatus' = DOMAIN myStatus
        /\ \A i \in DOMAIN myStatus, m \in Mirrors : myStatus'[i].mirrors[m] = myStatus[i].mirrors[m]
    BY <1>4, AgedType DEF Tick, TypeOK
  <2> QED
    BY <1>0, <1>4, <2>1 DEF Tick, CleanedSoFar
<1>5. CASE Wake \/ UNCHANGED vars
  BY <1>1, <1>5 DEF Wake, vars
<1>6. CASE GetDeleted
  BY <1>0, <1>6 DEF GetDeleted, MirroredIn, CleanedSoFar, TypeOK, SpecSet
<1>7. ASSUME NEW i \in Images, NEW m \in Mirrors, DeleteMirror(i, m) PROVE CleanedSoFar'
  <2>1. /\ CleanupSucceeds(i, m) /\ todo' = todo \ {<<i, m>>} /\ pc = "deleting"
        /\ UNCHANGED <<mySpec, myStatus>>
    BY <1>7 DEF DeleteMirror, EndWithError
  <2>2. /\ m \in mySpec.mirrors \cap Credentialed => RefOf[i] \notin DOMAIN registry'[m]
        /\ \A n \in Mirrors : DOMAIN registry'[n] \subseteq DOMAIN registry[n]
    BY <2>1, CleanupEffect
  <2> SUFFICES ASSUME NEW j \in DOMAIN myStatus, NEW n \in mySpec.mirrors \cap Credentialed,
                      myStatus[j].mirrors[n] = "mirrored", <<j, n>> \notin todo'
               PROVE  RefOf[j] \notin DOMAIN registry'[n]
    BY <2>1 DEF CleanedSoFar
  <2>3. CASE <<j, n>> = <<i, m>>
    BY <2>2, <2>3
  <2>4. CASE <<j, n>> # <<i, m>>
    BY <1>0, <2>1, <2>2, <2>4 DEF CleanedSoFar
  <2> QED
    BY <2>3, <2>4
<1>8. ASSUME NEW i, NEW m, CleanMirror(i, m) \/ CopyMirror(i, m) \/ VisitImage(i) PROVE FALSE
  BY <1>8 DEF CleanMirror, CopyMirror, VisitImage
<1>9. CASE ApiFails \/ Crash \/ RemoveFinalizer \/ ListPods \/ AddFinalizer \/ Finish
  BY <1>9 DEF ApiFails, Crash, RemoveFinalizer, ListPods, AddFinalizer, Finish, EndWithError,
              EndAndRequeueAfter
<1>10. CASE GetNothing
  BY <1>1, <1>10 DEF GetNothing
<1>11. CASE GetLive \/ MergeAndPatch \/ PatchAfterCleanup \/ PatchMirrors
  BY <1>11 DEF GetLive, MergeAndPatch, PatchAfterCleanup, PatchMirrors
<1> QED
  BY <1>2, <1>3, <1>4, <1>5, <1>6, <1>7, <1>8, <1>9, <1>10, <1>11
     DEF Next, Act, Reconcile, Proceed

\* An object that is being deleted goes in one way only.
LEMMA OnlyTheFinalizer ==
    ASSUME [Next]_vars, phase = "deleting", phase' = "gone"
    PROVE  RemoveFinalizer
<1> USE DEF object
<1>1. CASE Users
  BY <1>1 DEF Users, EditSpec, DeleteObject, RemovePod, UpdatePod, LoseImage, AdmitFromSource,
              AdmitFromMirror, Admit
<1>2. CASE Webhook
  BY <1>2 DEF Webhook, StartClear, OwnMirroredAt, RemoveMirroredAt, GiveUpClear
<1>3. CASE Tick \/ Wake \/ UNCHANGED vars
  BY <1>3 DEF Tick, Wake, vars
<1>4. CASE ApiFails \/ Crash \/ GetNothing \/ GetDeleted \/ GetLive \/ ListPods \/ AddFinalizer
  BY <1>4 DEF ApiFails, Crash, GetNothing, GetDeleted, GetLive, ListPods, AddFinalizer
<1>5. CASE MergeAndPatch \/ PatchAfterCleanup \/ PatchMirrors \/ Finish
  BY <1>5 DEF MergeAndPatch, PatchAfterCleanup, PatchMirrors, Finish
<1>6. ASSUME NEW i, NEW m,
             DeleteMirror(i, m) \/ CleanMirror(i, m) \/ CopyMirror(i, m) \/ VisitImage(i)
      PROVE  FALSE
  BY <1>6 DEF DeleteMirror, CleanMirror, CopyMirror, VisitImage
<1> QED
  BY <1>1, <1>2, <1>3, <1>4, <1>5, <1>6 DEF Next, Act, Reconcile, Proceed

\* When the object goes, every mirror that the status calls mirrored and that a
\* credential lets kuik delete is out of its registry, through failed and late
\* deletions, crashes, edits and lost images.
THEOREM FinalizerCleansUp == Spec => FinalizerGuardsMirrors
<1>1. Init => TypeOK /\ CleanedSoFar
  BY InitType DEF Init, CleanedSoFar
<1>2. TypeOK /\ CleanedSoFar /\ [Next]_vars => TypeOK' /\ CleanedSoFar'
  BY TypeStep, CleanedStep
<1>3. TypeOK /\ CleanedSoFar /\ [Next]_vars =>
        [phase = "deleting" /\ phase' = "gone" =>
           \A i \in DOMAIN myStatus, m \in mySpec.mirrors \cap Credentialed :
               myStatus[i].mirrors[m] = "mirrored" => RefOf[i] \notin DOMAIN registry[m]]_vars
  BY OnlyTheFinalizer DEF RemoveFinalizer, CleanedSoFar
<1> QED
  BY <1>1, <1>2, <1>3, PTL DEF Spec, FinalizerGuardsMirrors
=============================================================================
