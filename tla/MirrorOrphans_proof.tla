------------------------- MODULE MirrorOrphans_proof -------------------------
(***************************************************************************)
(* Proof that MirrorReconciler leaves nothing behind in the mirrors, for    *)
(* every set of images, mirrors, pods and specs, however images share tags  *)
(* and manifests, and any number of failed copies and deletions and of lost *)
(* images.                                                                  *)
(***************************************************************************)
EXTENDS MirrorReconciler_proof, FiniteSetTheorems

\* The reconciler is left alone: no crash, no failed patch, no late error and no
\* clear of the webhook falls between a copy and its patch, and users neither
\* take mirrors out of the spec nor list them without a credential.
Undisturbed ==
    /\ Faults \subseteq {"copy", "delete", "loss"}
    /\ MaxClears = 0
    /\ Credentialed = Mirrors
    /\ \A s \in Specs : s.mirrors = Mirrors

\* Everything in the mirrors is recorded by status st as mirrored.
Records(st) ==
    \A m \in Mirrors : \A r \in DOMAIN registry[m] :
        \E i \in DOMAIN st : RefOf[i] = r /\ st[i].mirrors[m] = "mirrored"

SameTracked ==
    /\ DOMAIN myStatus = DOMAIN status
    /\ \A i \in DOMAIN status, m \in Mirrors :
           myStatus[i].mirrors[m] # "untracked" => status[i].mirrors[m] # "untracked"

\* What the status leaves out while images are copied is in reconcile's memory,
\* where the status has it as pending.
OrphanInv ==
    /\ clears = {}
    /\ spec.mirrors = Mirrors
    /\ pc # "idle" => mySpec.mirrors = Mirrors
    /\ pc # "copying" => Records(status)
    /\ pc # "idle" => Records(myStatus)
    /\ pc = "mirroring" \/ (pc = "copying" /\ ~dirty) => myStatus = status
    /\ pc = "copying" => /\ SameTracked
                         /\ \A im \in todo : /\ im[1] \in DOMAIN myStatus
                                             /\ myStatus[im[1]].mirrors[im[2]] # "untracked"
    /\ pc \in {"mirroring", "copying"} => left \subseteq DOMAIN myStatus
    /\ ~finalizer => \A m \in Mirrors : DOMAIN registry[m] = {}

\* Nothing is put into the mirrors.
Shrinks == \A m \in Mirrors : DOMAIN registry'[m] \subseteq DOMAIN registry[m]

\* Only the copy of an image puts something into a mirror.
LEMMA OnlyCopiesGrow ==
    ASSUME TypeOK, [Next]_vars
    PROVE  Shrinks \/ \E i \in Images, m \in Mirrors : Pushed(i, m) /\ CopyMirror(i, m)
<1>1. ASSUME NEW m \in Mirrors, NEW r, LoseImage(m, r) PROVE Shrinks
  BY <1>1 DEF LoseImage, Shrinks, TypeOK
<1>2. ASSUME NEW m \in Mirrors, NEW r, DeleteImage(m, r) PROVE Shrinks
  BY <1>2, DeleteImageEffect DEF Shrinks
<1> QED
  BY <1>1, <1>2, RegistryMoves DEF Shrinks
-----------------------------------------------------------------------------
(* The steps, by what they do to the status and to reconcile's copy of it. *)

LEMMA OutsideStep ==
    ASSUME OrphanInv, Shrinks, UNCHANGED <<status, pc, memory, clears>>,
           spec'.mirrors = Mirrors, finalizer' = finalizer
    PROVE  OrphanInv'
<1>1. Records(status) => Records(status)'
  BY DEF Records, Shrinks
<1>2. Records(myStatus) => Records(myStatus)'
  BY DEF Records, Shrinks, memory
<1> QED
  BY <1>1, <1>2 DEF OrphanInv, SameTracked, Shrinks, memory

LEMMA UsersStep ==
    ASSUME Undisturbed, TypeOK, OrphanInv, Users \/ Wake \/ GetNothing \/ UNCHANGED vars, Shrinks
    PROVE  OrphanInv'
<1>1. UNCHANGED <<pc, memory>> /\ UNCHANGED status
  BY OthersLeaveMemory, UsersLeaveStatus DEF Wake, GetNothing, object, vars
<1>2. spec' = spec \/ spec' \in Specs
  BY DEF Users, EditSpec, DeleteObject, RemovePod, UpdatePod, LoseImage, AdmitFromSource,
         AdmitFromMirror, Admit, Wake, GetNothing, object, vars
<1>3. UNCHANGED <<clears, finalizer>>
  BY DEF Users, EditSpec, DeleteObject, RemovePod, UpdatePod, LoseImage, AdmitFromSource,
         AdmitFromMirror, Admit, Wake, GetNothing, object, vars
<1> QED
  BY <1>1, <1>2, <1>3, OutsideStep DEF Undisturbed, OrphanInv

\* Without a clear to start, the webhook does nothing to the status.
LEMMA WebhookRests ==
    ASSUME Undisturbed, TypeOK, clears = {}
    PROVE  ~Webhook
<1>1. ASSUME NEW m \in Mirrors, NEW r \in Refs PROVE ~StartClear(m, r)
  <2>1. ClearedRefs = {}
    BY DEF ClearedRefs
  <2>2. Cardinality(ClearedRefs) = 0
    BY <2>1, FS_EmptySet
  <2> QED
    BY <2>2 DEF StartClear, Undisturbed
<1> QED
  BY <1>1 DEF Webhook, OwnMirroredAt, RemoveMirroredAt, GiveUpClear

\* Reconcile ends outside the copies: the status has it all.
LEMMA EndStep ==
    ASSUME OrphanInv, Shrinks, pc # "copying", pc' = "idle", UNCHANGED <<spec, status, clears>>,
           finalizer' = finalizer
    PROVE  OrphanInv'
<1>1. Records(status)'
  BY DEF OrphanInv, Records, Shrinks
<1> QED
  BY <1>1 DEF OrphanInv, Shrinks

LEMMA EndsStep ==
    ASSUME Undisturbed, TypeOK, Shrinks, OrphanInv,
           \/ ApiFails \/ Crash \/ Finish
           \/ pc' = "idle" /\ \/ ListPods \/ AddFinalizer
                              \/ \E i \in Images, m \in Mirrors : DeleteMirror(i, m)
    PROVE  OrphanInv'
<1>1. CASE ApiFails \/ Crash
  BY <1>1 DEF ApiFails, Crash, Fault, Undisturbed
<1>2. CASE Finish
  BY <1>2, EndStep DEF Finish, EndWithError, EndAndRequeueAfter, object
<1>3. CASE pc' = "idle" /\ ListPods
  BY <1>3, EndStep DEF ListPods, object
<1>4. CASE pc' = "idle" /\ AddFinalizer
  BY <1>4, EndStep DEF AddFinalizer
<1>5. CASE pc' = "idle" /\ \E i \in Images, m \in Mirrors : DeleteMirror(i, m)
  BY <1>5, EndStep DEF DeleteMirror, object
<1> QED
  BY <1>1, <1>2, <1>3, <1>4, <1>5

\* The status is read, or found as it was.
LEMMA ReadStep ==
    ASSUME TypeOK, OrphanInv, GetDeleted \/ GetLive \/ (AddFinalizer /\ pc' # "idle")
    PROVE  OrphanInv'
<1>1. /\ UNCHANGED <<spec, status, clears, registry>>
      /\ myStatus' = status /\ mySpec'.mirrors = spec.mirrors
      /\ pc' \in {"deleting", "listing", "merging"} /\ pc # "copying"
      /\ finalizer' = finalizer \/ finalizer' = TRUE
  <2>1. CASE AddFinalizer /\ pc' # "idle"
    <3>1. mySpec' = Refreshed
      BY <2>1 DEF AddFinalizer, EndWithError
    <3>2. mySpec'.mirrors = spec.mirrors
      BY <3>1, RefreshedType
    <3> QED
      BY <2>1, <3>2 DEF AddFinalizer, EndWithError
  <2> QED
    BY <2>1 DEF GetDeleted, GetLive, object
<1> QED
  BY <1>1 DEF OrphanInv, Records

LEMMA ListStep ==
    ASSUME TypeOK, OrphanInv, ListPods, pc' # "idle"
    PROVE  OrphanInv'
<1>1. /\ UNCHANGED <<spec, status, clears, registry, finalizer, mySpec, myStatus>>
      /\ pc' \in {"merging", "finalizing"} /\ pc = "listing"
  BY DEF ListPods, EndAndRequeueAfter, object
<1> QED
  BY <1>1 DEF OrphanInv, Records

\* A deletion in the course of the object's own.
LEMMA DeleteStep ==
    ASSUME TypeOK, OrphanInv, Shrinks, NEW i \in Images, NEW m \in Mirrors, DeleteMirror(i, m),
           pc' # "idle"
    PROVE  OrphanInv'
<1>1. /\ UNCHANGED <<object, clears, mySpec, myStatus>>
      /\ pc' = "deleting" /\ pc = "deleting"
  BY DEF DeleteMirror, EndWithError
<1> QED
  BY <1>1 DEF OrphanInv, Records, Shrinks, object

\* When the finalizer goes, the loop has passed all that the status records.
LEMMA GoneStep ==
    ASSUME Undisturbed, TypeOK, CleanedSoFar, OrphanInv, RemoveFinalizer
    PROVE  OrphanInv'
<1>1. \A m \in Mirrors : DOMAIN registry[m] = {}
  <2> SUFFICES ASSUME NEW m \in Mirrors, NEW r \in DOMAIN registry[m] PROVE FALSE
    OBVIOUS
  <2>1. PICK i \in DOMAIN myStatus : RefOf[i] = r /\ myStatus[i].mirrors[m] = "mirrored"
    BY DEF OrphanInv, Records, RemoveFinalizer
  <2> QED
    BY <2>1 DEF CleanedSoFar, RemoveFinalizer, OrphanInv, Undisturbed
<1> QED
  BY <1>1 DEF OrphanInv, Records, RemoveFinalizer, EndAndRequeueAfter
-----------------------------------------------------------------------------
(* The steps that write the status, and those that prepare what is written. *)

LEMMA TickRecords ==
    ASSUME TypeOK, OrphanInv, Tick
    PROVE  OrphanInv'
<1>1. /\ DOMAIN status' = DOMAIN status
      /\ \A i \in DOMAIN status, m \in Mirrors : status'[i].mirrors[m] = status[i].mirrors[m]
      /\ DOMAIN myStatus' = DOMAIN myStatus
      /\ \A i \in DOMAIN myStatus, m \in Mirrors : myStatus'[i].mirrors[m] = myStatus[i].mirrors[m]
      /\ myStatus = status => myStatus' = status'
  BY AgedType DEF Tick, TypeOK
<1>2. UNCHANGED <<spec, finalizer, registry, clears, pc, mySpec, todo, left, dirty>>
  BY DEF Tick
<1>3. Records(status) => Records(status)'
  BY <1>1, <1>2 DEF Records
<1>4. Records(myStatus) => Records(myStatus)'
  BY <1>1, <1>2 DEF Records
<1>5. SameTracked => SameTracked'
  BY <1>1 DEF SameTracked
<1>6. pc = "copying" => \A im \in todo' : /\ im[1] \in DOMAIN myStatus'
                                          /\ myStatus'[im[1]].mirrors[im[2]] # "untracked"
  <2> SUFFICES ASSUME pc = "copying", NEW im \in todo
               PROVE  im[1] \in DOMAIN myStatus' /\ myStatus'[im[1]].mirrors[im[2]] # "untracked"
    BY <1>2
  <2>1. im[2] \in Mirrors
    BY DEF TypeOK
  <2> QED
    BY <1>1, <2>1 DEF OrphanInv
<1> QED
  BY <1>1, <1>2, <1>3, <1>4, <1>5, <1>6 DEF OrphanInv

\* What is merged records what the copy did.
LEMMA MergedRecords ==
    ASSUME TypeOK, Records(myStatus)
    PROVE  Records(MergePreviousAndCurrent)
<1> SUFFICES ASSUME NEW m \in Mirrors, NEW r \in DOMAIN registry[m]
             PROVE  \E i \in DOMAIN MergePreviousAndCurrent :
                        RefOf[i] = r /\ MergePreviousAndCurrent[i].mirrors[m] = "mirrored"
  BY DEF Records
<1>1. PICK i \in DOMAIN myStatus : RefOf[i] = r /\ myStatus[i].mirrors[m] = "mirrored"
  BY DEF Records
<1>2. i \in DOMAIN MergePreviousAndCurrent /\ MergePreviousAndCurrent[i].mirrors[m] = "mirrored"
  BY <1>1 DEF MergePreviousAndCurrent, MergeMirrors
<1> QED
  BY <1>1, <1>2

LEMMA KeptRecords ==
    ASSUME TypeOK, Records(myStatus)
    PROVE  Records(Kept(myStatus))
<1> SUFFICES ASSUME NEW m \in Mirrors, NEW r \in DOMAIN registry[m]
             PROVE  \E i \in DOMAIN Kept(myStatus) :
                        RefOf[i] = r /\ Kept(myStatus)[i].mirrors[m] = "mirrored"
  BY DEF Records
<1>1. PICK i \in DOMAIN myStatus : RefOf[i] = r /\ myStatus[i].mirrors[m] = "mirrored"
  BY DEF Records
<1>2. m \in Tracked(myStatus, i)
  BY <1>1 DEF Tracked
<1>3. i \in DOMAIN Kept(myStatus) /\ Kept(myStatus)[i] = myStatus[i]
  BY <1>2 DEF Kept
<1> QED
  BY <1>1, <1>3

LEMMA PatchStep ==
    ASSUME TypeOK, OrphanInv, MergeAndPatch \/ PatchAfterCleanup \/ PatchMirrors
    PROVE  OrphanInv'
<1>1. /\ UNCHANGED <<spec, finalizer, registry>> /\ mySpec'.mirrors = spec.mirrors
      /\ pc # "idle" /\ pc' \in {"cleaning", "mirroring"}
      /\ pc' = "mirroring" => left' = DOMAIN status' \/ (PatchMirrors /\ left' = left)
  BY RefreshedType DEF MergeAndPatch, PatchAfterCleanup, PatchMirrors
<1>2. clears' = {}
  BY DEF MergeAndPatch, PatchAfterCleanup, PatchMirrors, PatchList, WriteList, OrphanInv
<1>3. myStatus' = status'
  BY PatchResult
<1>4. Records(status')
  <2>1. Records(myStatus)
    BY <1>1 DEF OrphanInv
  <2>2. CASE status' = status /\ pc # "copying"
    BY <2>2 DEF OrphanInv
  <2>3. CASE status' = status /\ pc = "copying" /\ PatchMirrors
    <3>1. dirty => status' = myStatus
      BY <2>3 DEF PatchMirrors, PatchList, WriteList
    <3>2. status' = myStatus
      BY <2>3, <3>1 DEF OrphanInv
    <3> QED
      BY <2>1, <3>2
  <2>4. CASE status' = MergePreviousAndCurrent
    BY <2>1, <2>4, MergedRecords
  <2>5. CASE status' = Kept(myStatus)
    BY <2>1, <2>5, KeptRecords
  <2>6. CASE status' = myStatus
    BY <2>1, <2>6
  <2>7. PatchMirrors <=> pc = "copying"
    BY DEF MergeAndPatch, PatchAfterCleanup, PatchMirrors
  <2> QED
    BY <2>2, <2>3, <2>4, <2>5, <2>6, <2>7, PatchResult
<1>5. Records(status)' /\ Records(myStatus)'
  BY <1>1, <1>3, <1>4 DEF Records
<1>6. left' \subseteq DOMAIN myStatus' \/ pc' = "cleaning"
  <2>1. CASE PatchMirrors /\ left' = left
    <3>1. DOMAIN status' = DOMAIN myStatus
      BY <2>1, PatchResult DEF PatchMirrors, OrphanInv, SameTracked, MergeAndPatch, PatchAfterCleanup
    <3> QED
      BY <1>3, <2>1, <3>1 DEF OrphanInv, PatchMirrors
  <2> QED
    BY <1>1, <1>3, <2>1
<1> QED
  BY <1>1, <1>2, <1>3, <1>5, <1>6 DEF OrphanInv

LEMMA OneMirrorEffect ==
    ASSUME NEW st \in StatusSet, NEW i \in DOMAIN st, NEW m \in Mirrors, NEW state
    PROVE  LET new == [st EXCEPT ![i].mirrors[m] = state]
           IN /\ DOMAIN new = DOMAIN st
              /\ new[i].mirrors[m] = state
              /\ \A j \in DOMAIN st, n \in Mirrors :
                    <<j, n>> # <<i, m>> => new[j].mirrors[n] = st[j].mirrors[n]
<1>1. st \in [DOMAIN st -> Entry]
  BY PartialElim DEF StatusSet
<1>2. ASSUME NEW e \in Entry
      PROVE  /\ [e EXCEPT !.mirrors[m] = state].mirrors[m] = state
             /\ \A n \in Mirrors : n # m => [e EXCEPT !.mirrors[m] = state].mirrors[n] = e.mirrors[n]
  BY DEF Entry
<1> QED
  BY <1>1, <1>2

LEMMA MirroredEffect ==
    ASSUME TypeOK, NEW i \in DOMAIN myStatus, NEW m \in Mirrors
    PROVE  /\ DOMAIN Mirrored(i, m) = DOMAIN myStatus
           /\ Mirrored(i, m)[i].mirrors[m] = "mirrored"
           /\ \A j \in DOMAIN myStatus, n \in Mirrors :
                 <<j, n>> # <<i, m>> => Mirrored(i, m)[j].mirrors[n] = myStatus[j].mirrors[n]
<1>1. myStatus \in [DOMAIN myStatus -> Entry]
  BY PartialElim DEF TypeOK, StatusSet
<1>2. ASSUME NEW e \in Entry
      PROVE  /\ [e EXCEPT !.mirrors[m] = "mirrored"].mirrors[m] = "mirrored"
             /\ \A n \in Mirrors :
                    n # m => [e EXCEPT !.mirrors[m] = "mirrored"].mirrors[n] = e.mirrors[n]
  BY DEF Entry
<1> QED
  BY <1>1, <1>2 DEF Mirrored

LEMMA CleanStep ==
    ASSUME Undisturbed, TypeOK, OrphanInv, Shrinks, NEW i \in Images, NEW m \in Mirrors,
           CleanMirror(i, m)
    PROVE  OrphanInv'
<1>1. /\ UNCHANGED <<object, clears, pc, mySpec>> /\ pc = "cleaning"
  BY DEF CleanMirror
<1>2. Records(status)'
  BY <1>1 DEF OrphanInv, Records, Shrinks, object
<1>3. mySpec.mirrors \cap Credentialed = Mirrors /\ Records(myStatus)
  BY <1>1 DEF OrphanInv, Undisturbed
<1>4. Records(myStatus)'
  <2>1. CASE UNCHANGED myStatus
    BY <1>3, <2>1 DEF Records, Shrinks
  <2>2. CASE myStatus' # myStatus /\ i \in DOMAIN myStatus
    <3>1. /\ myStatus' = Untracked(i, m)
          /\ myStatus[i].mirrors[m] = "mirrored" => RefOf[i] \notin DOMAIN registry'[m]
      BY <1>3, <2>2, CleanupEffect DEF CleanMirror
    <3>2. /\ DOMAIN myStatus' = DOMAIN myStatus
          /\ \A j \in DOMAIN myStatus, n \in Mirrors :
                <<j, n>> # <<i, m>> => myStatus'[j].mirrors[n] = myStatus[j].mirrors[n]
      BY <2>2, <3>1, OneMirrorEffect DEF Untracked, TypeOK
    <3> SUFFICES ASSUME NEW n \in Mirrors, NEW r \in DOMAIN registry'[n]
                 PROVE  \E j \in DOMAIN myStatus' : RefOf[j] = r /\ myStatus'[j].mirrors[n] = "mirrored"
      BY DEF Records
    <3>3. r \in DOMAIN registry[n]
      BY DEF Shrinks
    <3>4. PICK j \in DOMAIN myStatus : RefOf[j] = r /\ myStatus[j].mirrors[n] = "mirrored"
      BY <1>3, <3>3 DEF Records
    <3>5. <<j, n>> # <<i, m>>
      BY <3>1, <3>4
    <3> QED
      BY <3>2, <3>4, <3>5
  <2>3. CASE i \notin DOMAIN myStatus
    <3>1. myStatus' = myStatus \/ myStatus' = [myStatus EXCEPT ![i].mirrors[m] = "untracked"]
      BY DEF CleanMirror, Untracked
    <3>2. myStatus \in [DOMAIN myStatus -> Entry]
      BY PartialElim DEF TypeOK, StatusSet
    <3>3. myStatus' = myStatus
      BY <2>3, <3>1, <3>2
    <3> QED
      BY <2>1, <3>3
  <2> QED
    BY <2>1, <2>2, <2>3
<1> QED
  BY <1>1, <1>2, <1>4 DEF OrphanInv, Shrinks, object

LEMMA VisitStep ==
    ASSUME TypeOK, OrphanInv, NEW i \in Images, VisitImage(i)
    PROVE  OrphanInv'
<1>1. /\ UNCHANGED <<object, registry, clears, mySpec, myStatus, dirty>>
      /\ pc = "mirroring" /\ left' = left \ {i} /\ i \in left
      /\ \/ pc' = "mirroring"
         \/ /\ pc' = "copying"
            /\ todo' = {<<i, m>> : m \in {n \in Mirrors : myStatus[i].mirrors[n] = "pending"}}
  BY DEF VisitImage
<1>2. myStatus = status /\ Records(status) /\ i \in DOMAIN myStatus
  BY <1>1 DEF OrphanInv
<1>3. pc' = "copying" => \A im \in todo' : /\ im[1] \in DOMAIN myStatus
                                           /\ myStatus[im[1]].mirrors[im[2]] # "untracked"
  BY <1>1, <1>2
<1>4. Records(status)' /\ Records(myStatus)' /\ SameTracked'
  BY <1>1, <1>2 DEF Records, SameTracked, object
<1> QED
  BY <1>1, <1>2, <1>3, <1>4 DEF OrphanInv, object

LEMMA CopyStep ==
    ASSUME Undisturbed, TypeOK, Held, OrphanInv, NEW i \in Images, NEW m \in Mirrors, CopyMirror(i, m)
    PROVE  OrphanInv'
<1>1. /\ UNCHANGED <<object, clears, pc, mySpec, left>> /\ pc = "copying"
      /\ todo' \subseteq todo /\ <<i, m>> \in todo /\ finalizer
  BY DEF CopyMirror, Held
<1>2. /\ i \in DOMAIN myStatus /\ myStatus[i].mirrors[m] # "untracked"
      /\ SameTracked /\ Records(myStatus)
  BY <1>1 DEF OrphanInv
<1>3. CASE myStatus' = Mirrored(i, m) /\ dirty' = TRUE /\ (Pushed(i, m) \/ UNCHANGED registry)
  <2>1. /\ DOMAIN myStatus' = DOMAIN myStatus
        /\ myStatus'[i].mirrors[m] = "mirrored"
        /\ \A j \in DOMAIN myStatus, n \in Mirrors :
              <<j, n>> # <<i, m>> => myStatus'[j].mirrors[n] = myStatus[j].mirrors[n]
    <3>1. /\ DOMAIN Mirrored(i, m) = DOMAIN myStatus
          /\ Mirrored(i, m)[i].mirrors[m] = "mirrored"
          /\ \A j \in DOMAIN myStatus, n \in Mirrors :
                <<j, n>> # <<i, m>> => Mirrored(i, m)[j].mirrors[n] = myStatus[j].mirrors[n]
      BY <1>2, MirroredEffect
    <3> QED
      BY <1>3, <3>1
  <2>2. \A n \in Mirrors : \A r \in DOMAIN registry'[n] :
            r \in DOMAIN registry[n] \/ (n = m /\ r = RefOf[i])
    BY <1>3 DEF Pushed, TypeOK
  <2>3. Records(myStatus)'
    <3> SUFFICES ASSUME NEW n \in Mirrors, NEW r \in DOMAIN registry'[n]
                 PROVE  \E j \in DOMAIN myStatus' : RefOf[j] = r /\ myStatus'[j].mirrors[n] = "mirrored"
      BY DEF Records
    <3>1. CASE n = m /\ r = RefOf[i]
      BY <1>2, <2>1, <3>1
    <3>2. CASE r \in DOMAIN registry[n]
      <4>1. PICK j \in DOMAIN myStatus : RefOf[j] = r /\ myStatus[j].mirrors[n] = "mirrored"
        BY <1>2, <3>2 DEF Records
      <4> QED
        BY <2>1, <4>1
    <3> QED
      BY <2>2, <3>1, <3>2
  <2>4. SameTracked'
    BY <1>1, <1>2, <2>1 DEF SameTracked, object
  <2>5. \A im \in todo' : im[1] \in DOMAIN myStatus' /\ myStatus'[im[1]].mirrors[im[2]] # "untracked"
    <3> SUFFICES ASSUME NEW j \in Images, NEW n \in Mirrors, <<j, n>> \in todo
                 PROVE  j \in DOMAIN myStatus' /\ myStatus'[j].mirrors[n] # "untracked"
      BY <1>1 DEF TypeOK
    <3>1. j \in DOMAIN myStatus /\ myStatus[j].mirrors[n] # "untracked"
      BY <1>1 DEF OrphanInv
    <3> QED
      BY <2>1, <3>1
  <2> QED
    BY <1>1, <1>3, <2>1, <2>3, <2>4, <2>5 DEF OrphanInv, object
<1>4. CASE UNCHANGED <<myStatus, registry>> /\ dirty' \in {dirty, TRUE}
  <2>1. Records(myStatus)' /\ SameTracked'
    BY <1>1, <1>2, <1>4 DEF Records, SameTracked, object
  <2> QED
    BY <1>1, <1>4, <2>1 DEF OrphanInv, object
<1> QED
  BY <1>3, <1>4 DEF CopyMirror, Fault, Undisturbed
-----------------------------------------------------------------------------
LEMMA OrphanStep ==
    ASSUME Undisturbed, TypeOK, CleanedSoFar, Held, OrphanInv, [Next]_vars
    PROVE  OrphanInv'
<1>1. CASE Shrinks
  <2>1. ~Webhook
    BY WebhookRests DEF OrphanInv
  <2>2. CASE Users \/ Wake \/ GetNothing \/ UNCHANGED vars
    BY <1>1, <2>2, UsersStep
  <2>3. CASE Tick
    BY <2>3, TickRecords
  <2>4. CASE ApiFails \/ Crash \/ Finish
    BY <1>1, <2>4, EndsStep
  <2>5. CASE ListPods
    BY <1>1, <2>5, EndsStep, ListStep
  <2>6. CASE AddFinalizer
    BY <1>1, <2>6, EndsStep, ReadStep
  <2>7. CASE GetDeleted \/ GetLive
    BY <2>7, ReadStep
  <2>8. CASE RemoveFinalizer
    BY <2>8, GoneStep
  <2>9. CASE MergeAndPatch \/ PatchAfterCleanup \/ PatchMirrors
    BY <2>9, PatchStep
  <2>10. ASSUME NEW i \in Images, NEW m \in Mirrors, DeleteMirror(i, m) PROVE OrphanInv'
    BY <1>1, <2>10, EndsStep, DeleteStep
  <2>11. ASSUME NEW i \in Images, NEW m \in Mirrors, CleanMirror(i, m) \/ CopyMirror(i, m)
         PROVE  OrphanInv'
    BY <1>1, <2>11, CleanStep, CopyStep
  <2>12. ASSUME NEW i \in Images, VisitImage(i) PROVE OrphanInv'
    BY <2>12, VisitStep
  <2> QED
    BY <2>1, <2>2, <2>3, <2>4, <2>5, <2>6, <2>7, <2>8, <2>9, <2>10, <2>11, <2>12
       DEF Next, Act, Reconcile, Proceed
<1>2. ASSUME NEW i \in Images, NEW m \in Mirrors, CopyMirror(i, m) PROVE OrphanInv'
  BY <1>2, CopyStep
<1> QED
  BY <1>1, <1>2, OnlyCopiesGrow

LEMMA OrphanInit == Undisturbed /\ Init => OrphanInv
BY DEF Undisturbed, Init, OrphanInv, Records

\* What is recorded or about to be is tracked by the status.
LEMMA NothingLost == TypeOK /\ Held /\ OrphanInv => NoOrphan
<1> SUFFICES ASSUME TypeOK, Held, OrphanInv, NEW m \in Mirrors, NEW r \in DOMAIN registry[m]
             PROVE  phase # "gone" /\ \E i \in DOMAIN status : RefOf[i] = r /\ m \in Tracked(status, i)
  BY DEF NoOrphan
<1>1. phase # "gone"
  BY DEF OrphanInv, Held
<1>2. CASE pc # "copying"
  <2>1. PICK i \in DOMAIN status : RefOf[i] = r /\ status[i].mirrors[m] = "mirrored"
    BY <1>2 DEF OrphanInv, Records
  <2> QED
    BY <1>1, <2>1 DEF Tracked
<1>3. CASE pc = "copying"
  <2>1. PICK i \in DOMAIN myStatus : RefOf[i] = r /\ myStatus[i].mirrors[m] = "mirrored"
    BY <1>3 DEF OrphanInv, Records
  <2>2. i \in DOMAIN status /\ status[i].mirrors[m] # "untracked"
    BY <1>3, <2>1 DEF OrphanInv, SameTracked
  <2> QED
    BY <1>1, <2>1, <2>2 DEF Tracked
<1> QED
  BY <1>1, <1>2, <1>3

\* Whatever copies and deletions fail, however images share tags or manifests:
\* as long as the reconciler is not otherwise disturbed, every image in a mirror
\* is in the status of a live object, so that it will be cleaned up.
THEOREM NothingIsLeftBehind == Undisturbed => (Spec => []NoOrphan)
<1> SUFFICES ASSUME Undisturbed PROVE Spec => []NoOrphan
  OBVIOUS
<1> DEFINE Inv == TypeOK /\ CleanedSoFar /\ Held /\ OrphanInv
<1>1. Init => Inv
  BY InitType, OrphanInit DEF Init, CleanedSoFar, Held
<1>2. Inv /\ [Next]_vars => Inv'
  BY TypeStep, CleanedStep, HeldStep, OrphanStep
<1>3. Inv => NoOrphan
  BY NothingLost
<1> QED
  BY <1>1, <1>2, <1>3, PTL DEF Spec
=============================================================================
