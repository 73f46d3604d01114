------------------------- MODULE MirrorHistory_proof -------------------------
(***************************************************************************)
(* Proofs about what the cleanup loop deletes, for every set of images,     *)
(* mirrors, pods and specs, every retention and every number of faults, as  *)
(* long as no two images share a tag or a manifest in a mirror.             *)
(***************************************************************************)
EXTENDS MirrorHistory, MirrorReconciler_proof

\* No two images have one mirror reference (mirror references drop the source
\* registry), nor one manifest in one repository (a deletion takes every tag of
\* the manifest). Where they do, the deletion of one takes the other along.
NotShared ==
    \A i, j \in Images :
        i # j => /\ RefOf[i] # RefOf[j]
                 /\ RepoOf[RefOf[i]] # RepoOf[RefOf[j]] \/ DigestOf[i] # DigestOf[j]
-----------------------------------------------------------------------------
(* The history only watches. *)

LEMMA HistoryWatches ==
    ASSUME [HNext]_hvars
    PROVE  \/ Tick /\ Remember(1)
           \/ Act /\ Remember(0)
           \/ UNCHANGED <<vars, history>>
<1>1. CASE HUsers
  BY <1>1 DEF HUsers, Users, Act
<1>2. CASE HWebhook
  BY <1>2 DEF HWebhook, Webhook, Act
<1>3. CASE HReconcile
  BY <1>3 DEF HReconcile, Reconcile, Proceed, Act
<1> QED
  BY <1>1, <1>2, <1>3 DEF HNext, hvars

LEMMA HistoryStep == [HNext]_hvars => [Next]_vars
BY HistoryWatches DEF Next

HTypeOK == lastRecorded \in [Images -> 0 .. Retention]

LEMMA RememberType ==
    ASSUME HTypeOK, NEW d \in {0, 1}, Remember(d)
    PROVE  /\ HTypeOK'
           /\ \A i \in Images :
                 \/ i \in SaidInUse(status') /\ lastRecorded'[i] = 0
                 \/ lastRecorded'[i] = Retention
                 \/ lastRecorded'[i] = lastRecorded[i] + d
BY MirrorAssumption DEF HTypeOK, Remember, Clocked
-----------------------------------------------------------------------------
(* The ages in the status and in reconcile's copy of it. *)

\* The copy has the ages of the status, though the webhook writes in between;
\* what the copy lacks the webhook has just added, as in use.
SameAges == \A i \in DOMAIN myStatus : i \in DOMAIN status /\ myStatus[i].since = status[i].since
AddedInUse == pc # "idle" => \A i \in DOMAIN status \ DOMAIN myStatus : status[i].since = InUse

\* A mark is never older than the time since the status said "in use".
AgeOfRecord ==
    \A i \in DOMAIN status : status[i].since \in 0 .. Retention => status[i].since <= lastRecorded[i]

AgeInv == SameAges /\ AddedInUse /\ AgeOfRecord

\* What the webhook applies to the status keeps the ages.
LEMMA AppliedAges ==
    ASSUME TypeOK, NEW i \in Images, NEW m \in Mirrors, NEW state \in {"pending", "mirrored"}
    PROVE  /\ DOMAIN Applied(i, m, state) = DOMAIN status \cup {i}
           /\ \A j \in DOMAIN status : Applied(i, m, state)[j].since = status[j].since
           /\ i \notin DOMAIN status => Applied(i, m, state)[i].since = InUse
<1>1. status \in [DOMAIN status -> Entry]
  BY PartialElim DEF TypeOK, StatusSet
<1>2. \A e \in Entry : [e EXCEPT !.mirrors[m] = state].since = e.since
  BY DEF Entry
<1> QED
  BY <1>1, <1>2 DEF Applied

LEMMA WebhookAges ==
    ASSUME TypeOK, Webhook
    PROVE  /\ DOMAIN status \subseteq DOMAIN status'
           /\ \A j \in DOMAIN status : status'[j].since = status[j].since
           /\ \A j \in DOMAIN status' \ DOMAIN status : status'[j].since = InUse
<1> DEFINE Goal == /\ DOMAIN status \subseteq DOMAIN status'
                   /\ \A j \in DOMAIN status : status'[j].since = status[j].since
                   /\ \A j \in DOMAIN status' \ DOMAIN status : status'[j].since = InUse
<1>1. ASSUME NEW i \in Images, NEW m \in Mirrors, NEW state \in {"pending", "mirrored"},
             status' = Applied(i, m, state)
      PROVE  Goal
  <2>1. /\ DOMAIN status' = DOMAIN status \cup {i}
        /\ \A j \in DOMAIN status : status'[j].since = status[j].since
        /\ i \notin DOMAIN status => status'[i].since = InUse
    <3>1. PICK new : new = Applied(i, m, state)
      OBVIOUS
    <3>2. /\ DOMAIN new = DOMAIN status \cup {i}
          /\ \A j \in DOMAIN status : new[j].since = status[j].since
          /\ i \notin DOMAIN status => new[i].since = InUse
      BY <3>1, AppliedAges
    <3> QED
      BY <1>1, <3>1, <3>2
  <2> QED
    BY <2>1
<1>2. ASSUME NEW i \in Images, NEW m \in Mirrors, OwnMirroredAt(i, m) PROVE Goal
  BY <1>1, <1>2 DEF OwnMirroredAt
<1>3. ASSUME NEW i \in Images, NEW m \in Mirrors, NEW stage, RemoveMirroredAt(i, m, stage)
      PROVE  Goal
  BY <1>1, <1>3 DEF RemoveMirroredAt
<1>4. CASE \E m \in Mirrors, r \in Refs : StartClear(m, r)
  BY <1>4 DEF StartClear, object
<1>5. CASE \E c \in clears : GiveUpClear(c)
  BY <1>5 DEF GiveUpClear, object
<1> QED
  BY <1>2, <1>3, <1>4, <1>5 DEF Webhook

LEMMA MergedAges ==
    ASSUME TypeOK
    PROVE  /\ DOMAIN MergePreviousAndCurrent = DOMAIN myStatus \cup matching
           /\ \A i \in DOMAIN myStatus :
                 MergePreviousAndCurrent[i].since = UnusedSince(i, myStatus[i].since)
           /\ \A i \in matching \ DOMAIN myStatus : MergePreviousAndCurrent[i].since = InUse
BY DEF MergePreviousAndCurrent

\* No step but Tick makes a mark older.
LEMMA NoStepAges ==
    ASSUME TypeOK, SameAges, Act, NEW i \in DOMAIN status', status'[i].since \in 0 .. Retention
    PROVE  \/ status'[i].since = 0
           \/ i \in DOMAIN status /\ status'[i].since = status[i].since
<1>0. InUse \notin 0 .. Retention /\ NotMatching \notin 0 .. Retention
  BY MirrorAssumption DEF InUse, NotMatching
<1>1. CASE Users \/ Wake
  BY <1>1, UsersLeaveStatus DEF Wake, object
<1>2. CASE Webhook
  BY <1>0, <1>2, WebhookAges
<1>3. CASE MergeAndPatch \/ PatchAfterCleanup \/ PatchMirrors
  <2>1. CASE status' = status
    BY <2>1
  <2>2. CASE MergeAndPatch /\ status' = MergePreviousAndCurrent
    <3>1. CASE i \in DOMAIN myStatus
      <4>1. status'[i].since = UnusedSince(i, status[i].since) /\ i \in DOMAIN status
        BY <2>2, <3>1, MergedAges DEF SameAges
      <4> QED
        BY <4>1, <1>0 DEF UnusedSince
    <3>2. CASE i \notin DOMAIN myStatus
      BY <2>2, <3>2, <1>0, MergedAges
    <3> QED
      BY <3>1, <3>2
  <2>3. CASE PatchAfterCleanup /\ status' = Kept(myStatus)
    BY <2>3 DEF Kept, SameAges
  <2>4. CASE PatchMirrors /\ status' = myStatus
    BY <2>4 DEF SameAges
  <2> QED
    BY <1>3, <2>1, <2>2, <2>3, <2>4, PatchResult
<1>4. CASE ApiFails \/ Crash \/ GetNothing \/ GetDeleted \/ RemoveFinalizer
  BY <1>4 DEF ApiFails, Crash, GetNothing, GetDeleted, RemoveFinalizer, object
<1>5. CASE GetLive \/ ListPods \/ AddFinalizer \/ Finish
  BY <1>5 DEF GetLive, ListPods, AddFinalizer, Finish, object
<1>6. CASE \E j \in Images, m \in Mirrors : DeleteMirror(j, m) \/ CleanMirror(j, m) \/ CopyMirror(j, m)
  BY <1>6 DEF DeleteMirror, CleanMirror, CopyMirror, object
<1>7. CASE \E j \in Images : VisitImage(j)
  BY <1>7 DEF VisitImage, object
<1> QED
  BY <1>1, <1>2, <1>3, <1>4, <1>5, <1>6, <1>7 DEF Act, Reconcile, Proceed

\* A reconcile that ends forgets its copy; the others keep it, or take a new one.
LEMMA AgesStep ==
    ASSUME TypeOK, HTypeOK, AgeInv, [HNext]_hvars
    PROVE  AgeInv'
<1> USE DEF AgeInv
<1>1. ASSUME Act, Remember(0) PROVE AgeOfRecord'
  <2> SUFFICES ASSUME NEW i \in DOMAIN status', status'[i].since \in 0 .. Retention
               PROVE  status'[i].since <= lastRecorded'[i]
    BY DEF AgeOfRecord
  <2>0. TypeOK'
    BY <1>1, TypeStep DEF Next
  <2>1. i \in Images /\ i \notin SaidInUse(status')
    BY <2>0, PartialElim, MirrorAssumption DEF TypeOK, StatusSet, SaidInUse, InUse
  <2>2. lastRecorded'[i] = Retention \/ lastRecorded'[i] = lastRecorded[i] + 0
    BY <1>1, <2>1, RememberType
  <2>3. lastRecorded[i] \in 0 .. Retention
    BY <2>1 DEF HTypeOK
  <2> QED
    BY <1>1, <2>2, <2>3, NoStepAges, MirrorAssumption DEF AgeOfRecord
<1>2. CASE Tick /\ Remember(1)
  <2>0. /\ DOMAIN status \subseteq Images
        /\ \A i \in DOMAIN status : status[i].since \in Ages
    <3>1. DOMAIN status \subseteq Images /\ status \in [DOMAIN status -> Entry]
      BY PartialElim DEF TypeOK, StatusSet
    <3> QED
      BY <3>1 DEF Entry
  <2>1. /\ DOMAIN status' = DOMAIN status
        /\ \A i \in DOMAIN status : status'[i].since = Older(status[i].since)
    BY <1>2, TickAges DEF Tick, TypeOK
  <2>2. /\ DOMAIN myStatus' = DOMAIN myStatus
        /\ \A i \in DOMAIN myStatus : myStatus'[i].since = Older(myStatus[i].since)
    BY <1>2, TickAges DEF Tick, TypeOK
  <2>3. SameAges'
    BY <2>1, <2>2 DEF SameAges
  <2>4. AddedInUse'
    BY <1>2, <2>1, <2>2, MirrorAssumption DEF AddedInUse, Tick, Older, InUse
  <2>5. AgeOfRecord'
    <3> SUFFICES ASSUME NEW i \in DOMAIN status, Older(status[i].since) \in 0 .. Retention
                 PROVE  Older(status[i].since) <= lastRecorded'[i]
      BY <2>1 DEF AgeOfRecord
    <3>1. i \in Images /\ i \notin SaidInUse(status')
      BY <2>0, <2>1, MirrorAssumption DEF SaidInUse, InUse
    <3>2. lastRecorded'[i] = Retention \/ lastRecorded'[i] = lastRecorded[i] + 1
      BY <1>2, <3>1, RememberType
    <3>3. lastRecorded[i] \in 0 .. Retention /\ status[i].since \in Ages
      BY <2>0, <3>1 DEF HTypeOK
    <3> QED
      BY <3>2, <3>3, MirrorAssumption DEF AgeOfRecord, Older, Ages, InUse, NotMatching
  <2> QED
    BY <2>3, <2>4, <2>5
<1>3. ASSUME Act, myStatus' = << >>, pc' = "idle" PROVE SameAges' /\ AddedInUse'
  BY <1>3 DEF SameAges, AddedInUse
<1>4. ASSUME myStatus' = status' PROVE SameAges' /\ AddedInUse'
  BY <1>4 DEF SameAges, AddedInUse
<1>5. ASSUME UNCHANGED status, DOMAIN myStatus' = DOMAIN myStatus, pc # "idle" \/ pc' = pc,
             \A i \in DOMAIN myStatus : myStatus'[i].since = myStatus[i].since
      PROVE  SameAges' /\ AddedInUse'
  BY <1>5 DEF SameAges, AddedInUse
<1>6. ASSUME Act PROVE SameAges' /\ AddedInUse'
  <2>1. CASE Users \/ Wake \/ GetNothing
    BY <1>5, <2>1, OthersLeaveMemory, UsersLeaveStatus DEF Wake, GetNothing, object, memory
  <2>2. CASE Webhook
    BY <2>2, OthersLeaveMemory, WebhookAges DEF SameAges, AddedInUse, memory
  <2>3. CASE EndWithError \/ \E delay : EndAndRequeueAfter(delay)
    BY <1>3, <1>6, <2>3 DEF EndWithError, EndAndRequeueAfter, Forgotten
  <2>4. CASE ApiFails \/ Crash \/ RemoveFinalizer \/ Finish
    BY <1>3, <1>6, <2>3, <2>4 DEF ApiFails, Crash, RemoveFinalizer, Finish, Forgotten
  <2>5. CASE GetDeleted \/ GetLive
    BY <1>4, <2>5 DEF GetDeleted, GetLive, object
  <2>6. CASE ListPods
    BY <1>5, <2>3, <2>6 DEF ListPods, object
  <2>7. CASE AddFinalizer
    BY <1>4, <2>3, <2>7 DEF AddFinalizer
  <2>8. CASE MergeAndPatch \/ PatchAfterCleanup \/ PatchMirrors
    BY <1>4, <2>8, PatchResult
  <2>9. ASSUME NEW i \in Images, VisitImage(i) PROVE SameAges' /\ AddedInUse'
    BY <1>5, <2>9 DEF VisitImage, object
  <2>10. ASSUME NEW i \in Images, NEW m \in Mirrors, DeleteMirror(i, m)
         PROVE  SameAges' /\ AddedInUse'
    BY <1>5, <2>3, <2>10 DEF DeleteMirror, object
  <2>11. ASSUME NEW i \in Images, NEW m \in Mirrors, CleanMirror(i, m) \/ CopyMirror(i, m)
         PROVE  SameAges' /\ AddedInUse'
    <3>1. /\ UNCHANGED status /\ pc' = pc
          /\ myStatus' = myStatus \/ \E state : myStatus' = [myStatus EXCEPT ![i].mirrors[m] = state]
      BY <2>11 DEF CleanMirror, CopyMirror, Untracked, Mirrored, object
    <3>2. ASSUME NEW state, myStatus' = [myStatus EXCEPT ![i].mirrors[m] = state]
          PROVE  /\ DOMAIN myStatus' = DOMAIN myStatus
                 /\ \A j \in DOMAIN myStatus : myStatus'[j].since = myStatus[j].since
      <4>1. myStatus \in [DOMAIN myStatus -> Entry]
        BY PartialElim DEF TypeOK, StatusSet
      <4>2. \A e \in Entry : [e EXCEPT !.mirrors[m] = state].since = e.since
        BY DEF Entry
      <4> QED
        BY <3>2, <4>1, <4>2
    <3> QED
      BY <1>5, <3>1, <3>2
  <2> QED
    BY <1>6, <2>1, <2>2, <2>4, <2>5, <2>6, <2>7, <2>8, <2>9, <2>10, <2>11
       DEF Act, Reconcile, Proceed
<1>7. CASE UNCHANGED <<vars, history>>
  BY <1>7 DEF vars, object, memory, history, SameAges, AddedInUse, AgeOfRecord
<1> QED
  BY <1>1, <1>2, <1>6, <1>7, HistoryWatches
-----------------------------------------------------------------------------
(* What the cleanup loop has in hand. *)

\* An image the loop treats has expired, and was not in use by the list of pods.
TodoExpired ==
    pc = "cleaning" =>
        \A im \in todo : /\ im[1] \in DOMAIN myStatus
                         /\ myStatus[im[1]].since \in {Retention, NotMatching}
                         /\ im[1] \notin inUseImages \cap mySpec.filter

\* A status the loop is given: written from the merge, or found to agree with it.
LEMMA MergeExpires ==
    ASSUME TypeOK, AgeInv, MergeAndPatch, TypeOK'
    PROVE  TodoExpired'
<1> SUFFICES ASSUME NEW i \in DOMAIN status', status'[i].since # InUse, status'[i].since >= Retention
             PROVE  /\ status'[i].since \in {Retention, NotMatching}
                    /\ i \notin inUseImages \cap mySpec.filter
  <2>1. mySpec'.filter = mySpec.filter /\ inUseImages' = inUseImages
    BY RefreshedType DEF MergeAndPatch
  <2>2. todo' = ToClean(status', spec.cleanup) /\ myStatus' = status'
    BY DEF MergeAndPatch
  <2> QED
    BY <2>1, <2>2 DEF TodoExpired, ToClean, Unused, Expired
<1>1. status'[i].since \in Ages
  <2>1. status' \in [DOMAIN status' -> Entry]
    BY PartialElim DEF TypeOK, StatusSet
  <2> QED
    BY <2>1 DEF Entry
<1>2. status'[i].since \in {Retention, NotMatching}
  BY <1>1, MirrorAssumption DEF Ages, InUse, NotMatching
<1>3. ASSUME i \in inUseImages, i \in mySpec.filter PROVE FALSE
  <2>1. pc = "merging"
    BY DEF MergeAndPatch
  <2>2. i \in DOMAIN MergePreviousAndCurrent => MergePreviousAndCurrent[i].since = InUse
    BY <1>3, MergedAges DEF UnusedSince
  <2>3. CASE status' = MergePreviousAndCurrent
    BY <2>2, <2>3
  <2>4. CASE status' # MergePreviousAndCurrent
    <3>1. status' = status /\ MergePreviousAndCurrent = myStatus
      BY <2>4 DEF MergeAndPatch, PatchList, WriteList
    <3>2. CASE i \in DOMAIN myStatus
      BY <3>1, <3>2, <2>2 DEF AgeInv, SameAges
    <3>3. CASE i \notin DOMAIN myStatus
      BY <3>1, <3>3, <2>1 DEF AgeInv, AddedInUse
    <3> QED
      BY <3>2, <3>3
  <2> QED
    BY <2>3, <2>4
<1> QED
  BY <1>2, <1>3

LEMMA ExpiredStep ==
    ASSUME TypeOK, AgeInv, TodoExpired, [Next]_vars
    PROVE  TodoExpired'
<1> SUFFICES ASSUME pc' = "cleaning" PROVE TodoExpired'
  BY DEF TodoExpired
<1>0. TypeOK'
  BY TypeStep
<1>1. CASE Users \/ Webhook \/ Wake \/ GetNothing
  BY <1>1, OthersLeaveMemory DEF memory, TodoExpired
<1>2. CASE Tick
  <2>1. /\ DOMAIN myStatus' = DOMAIN myStatus
        /\ \A i \in DOMAIN myStatus : myStatus'[i].since = Older(myStatus[i].since)
    BY <1>2, TickAges DEF Tick, TypeOK
  <2>2. \A a \in {Retention, NotMatching} : Older(a) = a
    BY MirrorAssumption DEF Older, NotMatching
  <2> QED
    BY <1>2, <2>1, <2>2 DEF Tick, TodoExpired
<1>3. CASE MergeAndPatch
  BY <1>0, <1>3, MergeExpires
<1>4. ASSUME NEW i \in Images, NEW m \in Mirrors, CleanMirror(i, m) PROVE TodoExpired'
  <2>1. /\ todo' \subseteq todo /\ UNCHANGED <<mySpec, inUseImages>> /\ pc = "cleaning"
        /\ myStatus' = myStatus \/ myStatus' = Untracked(i, m)
    BY <1>4 DEF CleanMirror
  <2>2. /\ DOMAIN Untracked(i, m) = DOMAIN myStatus
        /\ \A j \in DOMAIN myStatus : Untracked(i, m)[j].since = myStatus[j].since
    <3>1. myStatus \in [DOMAIN myStatus -> Entry]
      BY PartialElim DEF TypeOK, StatusSet
    <3>2. \A e \in Entry : [e EXCEPT !.mirrors[m] = "untracked"].since = e.since
      BY DEF Entry
    <3> QED
      BY <3>1, <3>2 DEF Untracked
  <2> QED
    BY <2>1, <2>2 DEF TodoExpired
<1>5. CASE UNCHANGED vars
  BY <1>5 DEF vars, memory, TodoExpired
<1>6. CASE ApiFails \/ Crash \/ GetDeleted \/ RemoveFinalizer \/ GetLive \/ ListPods \/ AddFinalizer
  BY <1>6 DEF ApiFails, Crash, GetDeleted, RemoveFinalizer, GetLive, ListPods, AddFinalizer,
              EndWithError, EndAndRequeueAfter
<1>7. CASE PatchAfterCleanup \/ PatchMirrors \/ Finish
  BY <1>7 DEF PatchAfterCleanup, PatchMirrors, Finish, EndWithError, EndAndRequeueAfter
<1>8. ASSUME NEW i, NEW m, DeleteMirror(i, m) \/ CopyMirror(i, m) \/ VisitImage(i) PROVE FALSE
  BY <1>8 DEF DeleteMirror, CopyMirror, VisitImage, EndWithError
<1> QED
  BY <1>1, <1>2, <1>3, <1>4, <1>5, <1>6, <1>7, <1>8 DEF Next, Act, Reconcile, Proceed
-----------------------------------------------------------------------------
(* The mirrors, and what one deletion takes out of them. *)

\* Under a tag there is the manifest of the image it stands for.
OwnDigests ==
    \A m \in Mirrors, i \in Images :
        RefOf[i] \in DOMAIN registry[m] => registry[m][RefOf[i]] = DigestOf[i]

LEMMA DigestsStep ==
    ASSUME NotShared, TypeOK, OwnDigests, [Next]_vars
    PROVE  OwnDigests'
<1> SUFFICES ASSUME NEW n \in Mirrors, NEW j \in Images, RefOf[j] \in DOMAIN registry'[n]
             PROVE  registry'[n][RefOf[j]] = DigestOf[j]
  BY DEF OwnDigests
<1>1. ASSUME NEW m \in Mirrors, NEW r \in Refs, LoseImage(m, r)
      PROVE  registry'[n][RefOf[j]] = DigestOf[j]
  BY <1>1 DEF LoseImage, OwnDigests, TypeOK
<1>2. ASSUME NEW i \in Images, NEW m \in Mirrors, Pushed(i, m)
      PROVE  registry'[n][RefOf[j]] = DigestOf[j]
  BY <1>2 DEF Pushed, OwnDigests, TypeOK, NotShared
<1>3. ASSUME NEW m \in Mirrors, NEW r, DeleteImage(m, r)
      PROVE  registry'[n][RefOf[j]] = DigestOf[j]
  BY <1>3 DEF DeleteImage, Without, OwnDigests, TypeOK
<1> QED
  BY <1>1, <1>2, <1>3, RegistryMoves DEF OwnDigests

\* The deletion of image i takes no other image along.
LEMMA DeletesItsOwn ==
    ASSUME NotShared, TypeOK, OwnDigests, NEW i \in Images, NEW m \in Mirrors,
           DeleteImage(m, RefOf[i]),
           NEW j \in Images, NEW n \in Mirrors,
           RefOf[j] \in DOMAIN registry[n], RefOf[j] \notin DOMAIN registry'[n]
    PROVE  j = i /\ n = m
<1>1. RefOf[i] \in DOMAIN registry[m] /\ registry' = [registry EXCEPT ![m] = Without(m, RefOf[i])]
  BY DEF DeleteImage
<1>2. n = m
  BY <1>1 DEF TypeOK
<1>3. /\ RepoOf[RefOf[j]] = RepoOf[RefOf[i]]
      /\ registry[m][RefOf[j]] = registry[m][RefOf[i]]
  BY <1>1, <1>2 DEF Without, TypeOK
<1> QED
  BY <1>1, <1>2, <1>3 DEF OwnDigests, NotShared

\* The cleanup loop takes out of the mirrors what it was to clean, and no more.
LEMMA CleansItsTodo ==
    ASSUME NotShared, TypeOK, OwnDigests, [Next]_vars,
           NEW j \in Images, NEW n \in Mirrors, CleanedUp(j, n)
    PROVE  <<j, n>> \in todo
<1>1. ASSUME NEW m \in Mirrors, NEW r \in Refs, LoseImage(m, r) PROVE FALSE
  BY <1>1 DEF LoseImage, CleanedUp, memory
<1>2. ASSUME NEW i \in Images, NEW m \in Mirrors, CopyMirror(i, m) \/ DeleteMirror(i, m) PROVE FALSE
  BY <1>2 DEF CopyMirror, DeleteMirror, CleanedUp
<1>3. ASSUME NEW i \in Images, NEW m \in Mirrors, DeleteImage(m, RefOf[i]), CleanMirror(i, m)
      PROVE  <<j, n>> \in todo
  <2>1. j = i /\ n = m
    BY <1>3, DeletesItsOwn DEF CleanedUp
  <2> QED
    BY <1>3, <2>1 DEF CleanMirror
<1> QED
  BY <1>1, <1>2, <1>3, RegistryMoves DEF CleanedUp
-----------------------------------------------------------------------------
(* The pods that have been there since reconcile listed them. *)

SteadyInUse ==
    \A p \in steady : p \in DOMAIN pods /\ (pods[p].annotated => pods[p].image \in inUseImages)

\* A pod does not change; it comes and goes.
LEMMA PodsComeAndGo ==
    ASSUME [Next]_vars, NEW p \in DOMAIN pods
    PROVE  p \in DOMAIN pods' => pods'[p] = pods[p]
<1>1. CASE Users
  BY <1>1 DEF Users, EditSpec, DeleteObject, RemovePod, UpdatePod, LoseImage, AdmitFromSource,
              AdmitFromMirror, Admit
<1>2. CASE Webhook \/ Tick \/ Wake \/ UNCHANGED vars
  BY <1>2 DEF Webhook, StartClear, OwnMirroredAt, RemoveMirroredAt, GiveUpClear, Tick, Wake, vars
<1>3. CASE Reconcile
  BY <1>3 DEF Reconcile, Proceed, ApiFails, Crash, GetNothing, GetDeleted, RemoveFinalizer, GetLive,
              ListPods, AddFinalizer, MergeAndPatch, PatchAfterCleanup, PatchMirrors, Finish,
              DeleteMirror, CleanMirror, CopyMirror, VisitImage
<1> QED
  BY <1>1, <1>2, <1>3 DEF Next, Act

\* The list of images in use is made where the pods are listed, and nowhere else.
LEMMA InUseListed ==
    ASSUME [Next]_vars, pc' \notin {"idle", "listing"}
    PROVE  IF pc = "listing" THEN inUseImages' = PodsInUseImages /\ UNCHANGED pods
           ELSE UNCHANGED inUseImages
<1>1. CASE Users \/ Webhook \/ Wake \/ GetNothing
  BY <1>1, OthersLeaveMemory DEF memory
<1>2. CASE Tick \/ UNCHANGED vars
  BY <1>2 DEF Tick, vars, memory
<1>3. CASE ApiFails \/ Crash \/ GetDeleted \/ RemoveFinalizer \/ GetLive \/ ListPods \/ AddFinalizer
  BY <1>3 DEF ApiFails, Crash, GetDeleted, RemoveFinalizer, GetLive, ListPods, AddFinalizer,
              EndWithError, EndAndRequeueAfter
<1>4. CASE MergeAndPatch \/ PatchAfterCleanup \/ PatchMirrors \/ Finish
  BY <1>4 DEF MergeAndPatch, PatchAfterCleanup, PatchMirrors, Finish, EndWithError, EndAndRequeueAfter
<1>5. CASE \E i \in Images : VisitImage(i)
  BY <1>5 DEF VisitImage
<1>6. CASE \E i \in Images, m \in Mirrors : DeleteMirror(i, m) \/ CleanMirror(i, m) \/ CopyMirror(i, m)
  BY <1>6 DEF DeleteMirror, CleanMirror, CopyMirror, EndWithError
<1> QED
  BY <1>1, <1>2, <1>3, <1>4, <1>5, <1>6 DEF Next, Act, Reconcile, Proceed

LEMMA SteadyStep ==
    ASSUME SteadyInUse, [HNext]_hvars
    PROVE  SteadyInUse'
<1>1. CASE UNCHANGED <<vars, history>>
  BY <1>1 DEF vars, memory, history, SteadyInUse
<1>2. ASSUME NEW d, Remember(d) PROVE SteadyInUse'
  <2>1. CASE pc' \in {"idle", "listing"}
    BY <1>2, <2>1 DEF Remember, SteadyInUse
  <2>2. CASE pc' \notin {"idle", "listing"} /\ pc = "listing"
    <3>1. steady' = DOMAIN pods /\ inUseImages' = PodsInUseImages /\ pods' = pods
      BY <1>2, <2>2, HistoryStep, InUseListed DEF Remember
    <3> QED
      BY <3>1 DEF SteadyInUse, PodsInUseImages
  <2>3. CASE pc' \notin {"idle", "listing"} /\ pc # "listing"
    <3>1. steady' = steady \cap DOMAIN pods' /\ inUseImages' = inUseImages
      BY <1>2, <2>3, HistoryStep, InUseListed DEF Remember
    <3> QED
      BY <3>1, HistoryStep, PodsComeAndGo DEF SteadyInUse
  <2> QED
    BY <2>1, <2>2, <2>3
<1> QED
  BY <1>1, <1>2, HistoryWatches
-----------------------------------------------------------------------------
(* What follows of the deletions. *)

HInv == TypeOK /\ HTypeOK /\ AgeInv /\ TodoExpired /\ SteadyInUse

LEMMA HInvInit == HInit => HInv /\ OwnDigests
<1> SUFFICES ASSUME HInit PROVE HInv /\ OwnDigests
  OBVIOUS
<1>1. TypeOK
  BY InitType DEF HInit
<1>2. HTypeOK
  BY MirrorAssumption DEF HInit, HTypeOK
<1>3. AgeInv
  BY DEF HInit, Init, AgeInv, SameAges, AddedInUse, AgeOfRecord
<1>4. TodoExpired /\ SteadyInUse
  BY DEF HInit, Init, TodoExpired, SteadyInUse
<1>5. OwnDigests
  BY DEF HInit, Init, OwnDigests
<1> QED
  BY <1>1, <1>2, <1>3, <1>4, <1>5 DEF HInv

LEMMA HInvStep == HInv /\ [HNext]_hvars => HInv'
<1> SUFFICES ASSUME HInv, [HNext]_hvars PROVE HInv'
  OBVIOUS
<1>1. TypeOK' /\ TodoExpired'
  BY HistoryStep, TypeStep, ExpiredStep DEF HInv
<1>2. HTypeOK'
  <2>1. CASE UNCHANGED <<vars, history>>
    BY <2>1 DEF history, HTypeOK, HInv
  <2> QED
    BY <2>1, HistoryWatches, RememberType DEF HInv
<1>3. AgeInv' /\ SteadyInUse'
  BY AgesStep, SteadyStep DEF HInv
<1> QED
  BY <1>1, <1>2, <1>3 DEF HInv

\* With its history, the reconciler does what it does without: HSpec implements Spec.
THEOREM HistoryOnlyWatches == HSpec => Spec
<1>1. HInit => Init
  BY DEF HInit
<1>2. [HNext]_hvars => [Next]_vars
  BY HistoryStep
<1> QED
  BY <1>1, <1>2, PTL DEF HSpec, Spec

\* The ages and lists that reconcile works with, while the webhook writes to the
\* status it has copied: the copy is never behind in the marks, a mark is never
\* older than the time since the status said "in use".
THEOREM MarksAreOfRecord == HSpec => []AgeInv
BY HInvInit, HInvStep, PTL DEF HSpec, HInv

\* Where images do not share tags or manifests, a mirror is deleted for lack of
\* use only after the recorded status has said for a whole retention that its
\* image is not in use: through failed patches, crashes, retries, and the clears
\* of the webhook.
THEOREM RetentionIsObserved == NotShared => (HSpec => RetentionOfRecord)
<1> SUFFICES ASSUME NotShared PROVE HSpec => RetentionOfRecord
  OBVIOUS
<1>1. HInv /\ OwnDigests /\ [HNext]_hvars => HInv' /\ OwnDigests'
  BY HInvStep, HistoryStep, DigestsStep DEF HInv
<1>2. HInv /\ OwnDigests /\ [HNext]_hvars =>
        [\A i \in DOMAIN myStatus, m \in Mirrors :
            CleanedUp(i, m) /\ myStatus[i].since # NotMatching => lastRecorded[i] = Retention]_hvars
  <2> SUFFICES ASSUME HInv, OwnDigests, [HNext]_hvars, NEW i \in DOMAIN myStatus, NEW m \in Mirrors,
                      CleanedUp(i, m), myStatus[i].since # NotMatching
               PROVE  lastRecorded[i] = Retention
    OBVIOUS
  <2>1. i \in Images
    BY PartialElim DEF HInv, TypeOK, StatusSet
  <2>2. <<i, m>> \in todo /\ pc = "cleaning"
    BY <2>1, CleansItsTodo, HistoryStep DEF HInv, CleanedUp
  <2>3. myStatus[i].since = Retention
    BY <2>2 DEF HInv, TodoExpired
  <2>4. Retention <= lastRecorded[i]
    BY <2>3, MirrorAssumption DEF HInv, AgeInv, SameAges, AgeOfRecord
  <2> QED
    BY <2>1, <2>4, MirrorAssumption DEF HInv, HTypeOK
<1> QED
  BY <1>1, <1>2, HInvInit, PTL DEF HSpec, RetentionOfRecord

\* Where images do not share tags or manifests, the mirror of an image that the
\* object selects and that a pod has run, rewritten or not, ever since reconcile
\* listed the pods is not deleted by that reconcile, old as its list may be.
THEOREM UsedMirrorStays == NotShared => (HSpec => UsedMirrorIsKept)
<1> SUFFICES ASSUME NotShared PROVE HSpec => UsedMirrorIsKept
  OBVIOUS
<1>1. HInv /\ OwnDigests /\ [HNext]_hvars => HInv' /\ OwnDigests'
  BY HInvStep, HistoryStep, DigestsStep DEF HInv
<1>2. HInv /\ OwnDigests /\ [HNext]_hvars =>
        [\A p \in steady, m \in Mirrors :
           pods[p].annotated /\ pods[p].image \in mySpec.filter => ~CleanedUp(pods[p].image, m)]_hvars
  <2> SUFFICES ASSUME HInv, OwnDigests, [HNext]_hvars, NEW p \in steady, NEW m \in Mirrors,
                      pods[p].annotated, pods[p].image \in mySpec.filter
               PROVE  ~CleanedUp(pods[p].image, m)
    OBVIOUS
  <2>1. PICK i : i = pods[p].image
    OBVIOUS
  <2>2. i \in inUseImages \cap mySpec.filter /\ i \in Images
    BY <2>1 DEF HInv, SteadyInUse, TypeOK
  <2>3. ASSUME CleanedUp(i, m) PROVE FALSE
    <3>1. <<i, m>> \in todo /\ pc = "cleaning"
      BY <2>2, <2>3, CleansItsTodo, HistoryStep DEF HInv, CleanedUp
    <3> QED
      BY <2>2, <3>1 DEF HInv, TodoExpired
  <2> QED
    BY <2>1, <2>3 DEF CleanedUp
<1> QED
  BY <1>1, <1>2, HInvInit, PTL DEF HSpec, UsedMirrorIsKept
=============================================================================
