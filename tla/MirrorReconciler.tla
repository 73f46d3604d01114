-------------------------- MODULE MirrorReconciler --------------------------
(***************************************************************************)
(* One (Cluster)ImageSetMirror: the reconciler that keeps its status and    *)
(* the mirror registries in step with the pods of the cluster               *)
(* (internal/controller/kuik/mirror_reconciler.go), and the pod webhook     *)
(* where it meets the same object: the rewriting of pods towards a mirror   *)
(* and the clearing of a stale mirroredAt (pod_webhook.go).                 *)
(*                                                                          *)
(* Covered: every API call and registry call of reconcile as a step of its  *)
(* own, so that pods, users, the webhook, registry losses, failed calls and *)
(* crashes fall between any two of them; the in-memory copy of the status,  *)
(* written back as a whole list by merge patches; the finalizer; the work   *)
(* queue and its timer.                                                     *)
(*                                                                          *)
(* Abstracted: an image is a model value and a filter is the set of images  *)
(* it matches; every pod passes the pod filters; time is the age of a mark, *)
(* counted up to Retention; why a call fails.                               *)
(* Left out: a lagging informer cache (Get returns the current object);     *)
(* filters that match references below a mirror prefix; digest references.  *)
(***************************************************************************)
EXTENDS Integers, FiniteSets

CONSTANTS
    Images,         \* normalized references that pods ask for
    Mirrors,        \* entries of spec.mirrors
    Pods,
    RefOf,          \* RefOf[i]: path.Join(.., image without registry), below a mirror
    RepoOf,         \* RepoOf[r]: the repository of a mirror reference
    DigestOf,       \* DigestOf[i]: the manifest behind image i
    Credentialed,   \* mirrors with a credentialSecret
    Retention,      \* spec.cleanup.retention, in ticks
    Specs,          \* the specs users may write
    Routes,         \* how pods may be admitted: "source", "mirror", "mirror-init"
    Faults,         \* what may go wrong: calls of "api", "copy", "delete" and "clear",
                    \* "late" errors, a "crash", the "loss" of a mirrored image
    MaxFaults,      \* bound on how often it does
    MaxClears       \* routing.activeCheck.staleMirrorCleanup.maxConcurrent

Refs == {RefOf[i] : i \in Images}
Digests == {DigestOf[i] : i \in Images}
Source == "source"                   \* a pod that pulls from its own registry

Partial(S, T) == UNION {[D -> T] : D \in SUBSET S}

SpecSet == [filter : SUBSET Images, valid : BOOLEAN, cleanup : BOOLEAN, mirrors : SUBSET Mirrors]

ASSUME MirrorAssumption ==
    /\ RefOf \in [Images -> Refs]
    /\ RepoOf = [r \in Refs |-> RepoOf[r]]
    /\ DigestOf \in [Images -> Digests]
    /\ Credentialed \subseteq Mirrors
    /\ Source \notin Mirrors
    /\ Retention \in Nat
    /\ Specs \subseteq SpecSet /\ Specs # {}
    /\ MaxFaults \in Nat /\ MaxClears \in Nat

VARIABLES
    spec,           \* \ the object, at the API server
    phase,          \* | "present", "deleting" (deletionTimestamp set), "gone"
    finalizer,      \* |
    status,         \* / status.matchingImages
    registry,       \* registry[m][r]: the manifest tagged r in mirror m
    pods,           \* the pods of the cluster
    queued,         \* the work queue holds the object
    requeueIn,      \* ticks to a delayed requeue, or Never
    clears,         \* stale mirroredAt the webhook is clearing, with the next patch
    faults,         \* faults so far
    pc,             \* where reconcile is
    mySpec,         \* \ its in-memory obj
    myStatus,       \* /
    matching,       \* keys of podsByMatchingImages
    inUseImages,
    todo,           \* pairs (image, mirror) the current loop has still to treat
    left,           \* images the mirroring loop has still to visit
    dirty,          \* the mirroring loop changed myStatus since its last patch
    someFailed,     \* someDeletionFailed or someMirrorFailed
    requeueAfter

object == <<spec, phase, finalizer, status>>
queue == <<queued, requeueIn>>
memory == <<mySpec, myStatus, matching, inUseImages, todo, left, dirty, someFailed, requeueAfter>>
vars == <<object, registry, pods, queue, clears, faults, pc, memory>>
-----------------------------------------------------------------------------
\* Ages of unusedSince: nil, an age in ticks (Retention stands for all those
\* beyond), and the mark of an image that no longer matches, 0001-01-01 01:00,
\* which is older than any retention.
InUse == -1
NotMatching == Retention + 1
Ages == InUse .. NotMatching
Never == -1

Entry == [since : Ages, mirrors : [Mirrors -> {"untracked", "pending", "mirrored"}]]
StatusSet == Partial(Images, Entry)
Pod == [image : Images, from : Mirrors \cup {Source}, annotated : BOOLEAN]
Steps == {"idle", "deleting", "listing", "finalizing", "merging", "cleaning", "mirroring", "copying"}

TypeOK ==
    /\ spec \in SpecSet
    /\ phase \in {"present", "deleting", "gone"}
    /\ finalizer \in BOOLEAN
    /\ status \in StatusSet
    /\ registry \in [Mirrors -> Partial(Refs, Digests)]
    /\ pods \in Partial(Pods, Pod)
    /\ queued \in BOOLEAN
    /\ requeueIn \in Never .. Retention
    /\ clears \subseteq Images \X Mirrors \X {"own", "remove", "contested"}
    /\ faults \in Nat
    /\ pc \in Steps
    /\ mySpec \in SpecSet
    /\ myStatus \in StatusSet
    /\ matching \subseteq Images
    /\ inUseImages \subseteq Images
    /\ todo \subseteq Images \X Mirrors
    /\ left \subseteq Images
    /\ dirty \in BOOLEAN
    /\ someFailed \in BOOLEAN
    /\ requeueAfter \in Never .. Retention

Fault(kind) == kind \in Faults /\ faults < MaxFaults /\ faults' = faults + 1

NoSpec == [filter |-> {}, valid |-> TRUE, cleanup |-> FALSE, mirrors |-> {}]

\* reconcile's variables before it starts and after it returned.
Forgotten ==
    /\ mySpec' = NoSpec
    /\ myStatus' = << >>
    /\ matching' = {} /\ inUseImages' = {}
    /\ todo' = {} /\ left' = {}
    /\ dirty' = FALSE /\ someFailed' = FALSE
    /\ requeueAfter' = Never

Init ==
    /\ spec \in Specs
    /\ phase = "present"
    /\ finalizer = FALSE
    /\ status = << >>
    /\ registry = [m \in Mirrors |-> << >>]
    /\ pods = << >>
    /\ queued = TRUE
    /\ requeueIn = Never
    /\ clears = {}
    /\ faults = 0
    /\ pc = "idle"
    /\ mySpec = NoSpec
    /\ myStatus = << >>
    /\ matching = {} /\ inUseImages = {}
    /\ todo = {} /\ left = {}
    /\ dirty = FALSE /\ someFailed = FALSE
    /\ requeueAfter = Never
-----------------------------------------------------------------------------
(* Users and the cluster. *)

\* A change of the spec bumps the generation, which the predicate lets through.
EditSpec ==
    /\ phase # "gone"
    /\ \E s \in Specs \ {spec} : spec' = s
    /\ queued' = TRUE
    /\ UNCHANGED <<phase, finalizer, status, registry, pods, requeueIn, clears, faults, pc, memory>>

DeleteObject ==
    /\ phase = "present"
    /\ phase' = IF finalizer THEN "deleting" ELSE "gone"
    /\ queued' = TRUE
    /\ UNCHANGED <<spec, finalizer, status, registry, pods, requeueIn, clears, faults, pc, memory>>

\* enqueueForPod looks at the images the containers run, not at the annotation.
Mapped(pod) == /\ phase # "gone"
               /\ spec.valid
               /\ pod.from = Source
               /\ pod.image \in spec.filter

PodEvent(pod) == queued' = (queued \/ Mapped(pod))

Admit(p, pod) ==
    /\ p \in Pods \ DOMAIN pods
    /\ pods' = [q \in DOMAIN pods \cup {p} |-> IF q = p THEN pod ELSE pods[q]]
    /\ PodEvent(pod)
    /\ UNCHANGED <<object, registry, requeueIn, clears, faults, pc, memory>>

\* The webhook leaves the pod as it is, or is not called.
AdmitFromSource(p, i) ==
    /\ "source" \in Routes
    /\ Admit(p, [image |-> i, from |-> Source, annotated |-> TRUE])

\* The webhook finds the image in mirror m and rewrites a container to it. The
\* original image of an init container is not put in the annotation.
AdmitFromMirror(p, i, m) ==
    /\ phase # "gone" /\ spec.valid /\ i \in spec.filter /\ m \in spec.mirrors
    /\ RefOf[i] \in DOMAIN registry[m]
    /\ \E route \in Routes \ {"source"} :
           Admit(p, [image |-> i, from |-> m, annotated |-> route = "mirror"])

RemovePod(p) ==
    /\ p \in DOMAIN pods
    /\ pods' = [q \in DOMAIN pods \ {p} |-> pods[q]]
    /\ PodEvent(pods[p])
    /\ UNCHANGED <<object, registry, requeueIn, clears, faults, pc, memory>>

\* A status update of a pod is an event too, and so is the informer's resync.
UpdatePod(p) ==
    /\ p \in DOMAIN pods
    /\ Mapped(pods[p]) /\ ~queued
    /\ queued' = TRUE
    /\ UNCHANGED <<object, registry, pods, requeueIn, clears, faults, pc, memory>>

\* Somebody else deletes a tag in a mirror.
LoseImage(m, r) ==
    /\ Fault("loss")
    /\ r \in DOMAIN registry[m]
    /\ registry' = [registry EXCEPT ![m] = [q \in DOMAIN @ \ {r} |-> @[q]]]
    /\ UNCHANGED <<object, pods, queue, clears, pc, memory>>

Older(s) == IF s \in 0 .. Retention - 1 THEN s + 1 ELSE s
Aged(st) == [i \in DOMAIN st |-> [st[i] EXCEPT !.since = Older(@)]]

Tick ==
    /\ status' = Aged(status)
    /\ myStatus' = Aged(myStatus)
    /\ requeueIn' = IF requeueIn > 0 THEN requeueIn - 1 ELSE requeueIn
    /\ UNCHANGED <<spec, phase, finalizer, registry, pods, queued, clears, faults, pc, mySpec,
                   matching, inUseImages, todo, left, dirty, someFailed, requeueAfter>>

Wake ==
    /\ requeueIn = 0
    /\ requeueIn' = Never
    /\ queued' = TRUE
    /\ UNCHANGED <<object, registry, pods, clears, faults, pc, memory>>
-----------------------------------------------------------------------------
(* The webhook clears a stale mirroredAt, in a goroutine of its own. *)

ClearedRefs == {<<c[2], RefOf[c[1]]>> : c \in clears}

\* A probe of mirror reference r of m answered NotFound: the entries that say it
\* is mirrored are to be cleared, unless the semaphore is full.
StartClear(m, r) ==
    /\ phase # "gone" /\ spec.valid /\ m \in spec.mirrors
    /\ \E i \in spec.filter : RefOf[i] = r
    /\ r \notin DOMAIN registry[m]
    /\ Cardinality(ClearedRefs) < MaxClears
    /\ <<m, r>> \notin ClearedRefs
    /\ LET stale == {i \in DOMAIN status : RefOf[i] = r /\ status[i].mirrors[m] = "mirrored"}
       IN /\ stale # {}
          /\ clears' = clears \cup {<<i, m, "own">> : i \in stale}
    /\ UNCHANGED <<object, registry, pods, queue, faults, pc, memory>>

\* A server-side apply of one mirror of one image: list maps keyed by image, so
\* what is missing is added and what is there stays.
Applied(i, m, state) ==
    [j \in DOMAIN status \cup {i} |->
        IF j # i THEN status[j]
        ELSE IF i \in DOMAIN status THEN [status[i] EXCEPT !.mirrors[m] = state]
        ELSE [since |-> InUse, mirrors |-> [n \in Mirrors |-> IF n = m THEN state ELSE "untracked"]]]

\* First patch: mirroredAt is set to now, to own the field.
OwnMirroredAt(i, m) ==
    /\ <<i, m, "own">> \in clears
    /\ phase # "gone"
    /\ status' = Applied(i, m, "mirrored")
    /\ clears' = (clears \ {<<i, m, "own">>}) \cup {<<i, m, "remove">>}
    /\ UNCHANGED <<spec, phase, finalizer, registry, pods, queue, faults, pc, memory>>

\* Second patch: the field is left out, and removed if it is still owned. If the
\* reconciler wrote the list in between it may own the field now.
RemoveMirroredAt(i, m, stage) ==
    /\ stage \in {"remove", "contested"}
    /\ <<i, m, stage>> \in clears
    /\ phase # "gone"
    /\ \/ status' = Applied(i, m, "pending")
       \/ /\ stage = "contested"
          /\ i \in DOMAIN status /\ status[i].mirrors[m] # "untracked"
          /\ UNCHANGED status
    /\ clears' = clears \ {<<i, m, stage>>}
    /\ UNCHANGED <<spec, phase, finalizer, registry, pods, queue, faults, pc, memory>>

\* A patch fails or the time is up; on an object that is gone it always does.
GiveUpClear(c) ==
    /\ c \in clears
    /\ \/ phase = "gone" /\ UNCHANGED faults
       \/ phase # "gone" /\ Fault("clear")
    /\ clears' = clears \ {c}
    /\ UNCHANGED <<object, registry, pods, queue, pc, memory>>
-----------------------------------------------------------------------------
(* Reconcile: how it ends. *)

Earlier(a, b) == IF a = Never THEN b ELSE IF b = Never THEN a ELSE IF a < b THEN a ELSE b

EndAndRequeueAfter(delay) ==
    /\ pc' = "idle"
    /\ Forgotten
    /\ requeueIn' = Earlier(requeueIn, delay)
    /\ UNCHANGED queued

\* An error puts the object back in the queue (with a back-off).
\* Mutant: it is logged only.
LogError == EndAndRequeueAfter(Never)
EndWithError ==
    /\ pc' = "idle"
    /\ Forgotten
    /\ queued' = TRUE
    /\ UNCHANGED requeueIn

\* Get, List, Update or Patch fails.
ApiFails ==
    /\ pc \notin {"idle", "mirroring"} /\ todo = {}
    /\ Fault("api")
    /\ EndWithError
    /\ UNCHANGED <<object, registry, pods, clears>>

\* The manager stops, and starts again with an empty queue and every object in it.
Crash ==
    /\ Fault("crash")
    /\ pc' = "idle"
    /\ Forgotten
    /\ queued' = TRUE
    /\ requeueIn' = Never
    /\ clears' = {}
    /\ UNCHANGED <<object, registry, pods>>
-----------------------------------------------------------------------------
(* Reconcile: an object being deleted. *)

\* The object is gone: nothing to do.
GetNothing ==
    /\ pc = "idle" /\ queued
    /\ phase = "gone"
    /\ queued' = FALSE
    /\ UNCHANGED <<object, registry, pods, requeueIn, clears, faults, pc, memory>>

MirroredIn(st) == {im \in (DOMAIN st) \X Mirrors : st[im[1]].mirrors[im[2]] = "mirrored"}

GetDeleted ==
    /\ pc = "idle" /\ queued
    /\ phase = "deleting"
    /\ queued' = FALSE
    /\ mySpec' = spec /\ myStatus' = status
    /\ todo' = MirroredIn(status)
    /\ pc' = "deleting"
    /\ UNCHANGED <<object, registry, pods, requeueIn, clears, faults, matching, inUseImages,
                   left, dirty, someFailed, requeueAfter>>

\* Deleting an image resolves the tag and deletes its manifest: every tag of the
\* repository that points to it goes. A missing tag is no error.
Without(m, r) ==
    [q \in {q \in DOMAIN registry[m] : RepoOf[q] # RepoOf[r] \/ registry[m][q] # registry[m][r]}
        |-> registry[m][q]]

DeleteImage(m, r) ==
    registry' = IF r \in DOMAIN registry[m]
                THEN [registry EXCEPT ![m] = Without(m, r)] ELSE registry

\* Mutant: the answer to the deletion is not looked at.
CleanupAssumed(i, m) == UNCHANGED <<registry, faults>>

\* Without a credentialSecret in the present spec, nothing is deleted.
CleanupSucceeds(i, m) ==
    /\ IF m \in mySpec.mirrors \cap Credentialed
       THEN DeleteImage(m, RefOf[i]) ELSE UNCHANGED registry
    /\ UNCHANGED faults

\* The secret cannot be read, or the registry answers with an error; a late
\* error (a timeout) comes although the deletion is done.
CleanupFails(i, m) ==
    /\ m \in mySpec.mirrors \cap Credentialed
    /\ \/ Fault("delete") /\ UNCHANGED registry
       \/ Fault("late") /\ DeleteImage(m, RefOf[i])

DeleteMirror(i, m) ==
    /\ pc = "deleting" /\ <<i, m>> \in todo
    /\ \/ /\ CleanupSucceeds(i, m)
          /\ todo' = todo \ {<<i, m>>}
          /\ UNCHANGED <<queue, pc, mySpec, myStatus, matching, inUseImages, left, dirty,
                         someFailed, requeueAfter>>
       \/ CleanupFails(i, m) /\ EndWithError
    /\ UNCHANGED <<object, pods, clears>>

RemoveFinalizer ==
    /\ pc = "deleting" /\ todo = {}
    /\ finalizer' = FALSE
    /\ phase' = "gone"
    /\ EndAndRequeueAfter(Never)
    /\ UNCHANGED <<spec, status, registry, pods, clears, faults>>
-----------------------------------------------------------------------------
(* Reconcile: a live object, up to the status that says what is to be done. *)

GetLive ==
    /\ pc = "idle" /\ queued
    /\ phase = "present"
    /\ queued' = FALSE
    /\ mySpec' = spec /\ myStatus' = status
    /\ pc' = "listing"
    /\ UNCHANGED <<object, registry, pods, requeueIn, clears, faults, matching, inUseImages,
                   todo, left, dirty, someFailed, requeueAfter>>

\* Images that containers run; those below a mirror prefix are left out.
RunningImages == {pods[p].image : p \in {q \in DOMAIN pods : pods[q].from = Source}}

\* Mutant: only what the containers run counts as in use.
CurrentImages == RunningImages

\* Images that containers run, or ran before they were rewritten.
PodsInUseImages == RunningImages \cup {pods[p].image : p \in {q \in DOMAIN pods : pods[q].annotated}}

ListPods ==
    /\ pc = "listing"
    /\ IF mySpec.valid
       THEN /\ matching' = RunningImages \cap mySpec.filter
            /\ inUseImages' = PodsInUseImages
            /\ pc' = IF finalizer THEN "merging" ELSE "finalizing"
            /\ UNCHANGED <<queue, mySpec, myStatus, todo, left, dirty, someFailed, requeueAfter>>
       ELSE EndAndRequeueAfter(Never)      \* an event, and no retry
    /\ UNCHANGED <<object, registry, pods, clears, faults>>

\* What the API server answers to an update or a patch of obj is decoded into it,
\* its spec too, to which spec points; pods and image filter are those of the Get.
Refreshed == [spec EXCEPT !.filter = mySpec.filter, !.valid = mySpec.valid]

\* Mutant: the finalizer is added to obj and the object is not updated.
OnlyInMemory ==
    /\ pc = "finalizing"
    /\ pc' = "merging"
    /\ UNCHANGED <<object, registry, pods, queue, clears, faults, mySpec, myStatus, matching,
                   inUseImages, todo, left, dirty, someFailed, requeueAfter>>
AddFinalizer ==
    /\ pc = "finalizing"
    /\ \/ /\ phase = "present"
          /\ finalizer' = TRUE
          /\ mySpec' = Refreshed
          /\ myStatus' = status
          /\ pc' = "merging"
          /\ UNCHANGED <<queue, matching, inUseImages, todo, left, dirty, someFailed, requeueAfter>>
       \/ phase = "gone" /\ EndWithError /\ UNCHANGED finalizer
    /\ UNCHANGED <<spec, phase, status, registry, pods, clears, faults>>

\* updateUnusedSince. Mutants: a mark is set back by every reconcile; it starts
\* expired.
MarkAgain(i, since) ==
    IF i \notin mySpec.filter THEN NotMatching
    ELSE IF i \in inUseImages THEN InUse ELSE since + 1
MarkExpired(i, since) ==
    IF i \notin mySpec.filter THEN NotMatching
    ELSE IF i \in inUseImages THEN InUse
    ELSE IF since = InUse THEN Retention ELSE since
UnusedSince(i, since) ==
    IF i \notin mySpec.filter THEN NotMatching
    ELSE IF i \in inUseImages THEN InUse
    ELSE IF since = InUse THEN 0 ELSE since

\* mergeMirrors: the mirrors of before, and those of the spec they lack.
MergeMirrors(current, expected) ==
    [m \in Mirrors |-> IF current[m] = "untracked" /\ m \in expected THEN "pending" ELSE current[m]]

NoMirrors == [m \in Mirrors |-> "untracked"]
Expected(i) == IF i \in matching THEN mySpec.mirrors ELSE {}

MergePreviousAndCurrent ==
    [i \in DOMAIN myStatus \cup matching |->
        IF i \in DOMAIN myStatus
        THEN [since   |-> UnusedSince(i, myStatus[i].since),
              mirrors |-> MergeMirrors(myStatus[i].mirrors, Expected(i))]
        ELSE [since |-> InUse, mirrors |-> MergeMirrors(NoMirrors, Expected(i))]]

\* A merge patch carries the whole list or nothing, and takes no lock; obj is
\* then what the API server answered. A clear of the webhook under way may have
\* lost its field to a list that was written.
WriteList(new) ==
    /\ status' = new
    /\ clears' = {c \in clears : c[3] = "own"} \cup
                 {<<c[1], c[2], "contested">> : c \in {d \in clears : d[3] # "own"}}

PatchList(new, changed) ==
    IF changed THEN WriteList(new) ELSE UNCHANGED <<status, clears>>

Expired(st, i) == st[i].since >= Retention
Unused(st) == {i \in DOMAIN st : st[i].since # InUse}
Tracked(st, i) == {m \in Mirrors : st[i].mirrors[m] # "untracked"}

\* What the cleanup loop will delete: mirrors of images unused for too long, as
\* of the start of the loop.
\* Mutant: of all unused images.
AllUnused(st, cleanup) ==
    IF cleanup
    THEN {im \in (DOMAIN st) \X Mirrors : im[1] \in Unused(st) /\ im[2] \in Tracked(st, im[1])}
    ELSE {}
ToClean(st, cleanup) ==
    IF cleanup
    THEN {im \in (DOMAIN st) \X Mirrors :
              im[1] \in Unused(st) /\ Expired(st, im[1]) /\ im[2] \in Tracked(st, im[1])}
    ELSE {}

\* When the next mirror of an unused image will expire. Mutant: nothing is due.
NoTimer(st, cleanup) == Never
NextExpiry(st, cleanup) ==
    LET delays == {Retention - st[i].since :
                       i \in {j \in Unused(st) : ~Expired(st, j) /\ Tracked(st, j) # {}}}
    IN IF cleanup /\ delays # {}
       THEN CHOOSE d \in delays : \A e \in delays : d <= e
       ELSE Never

\* The list is rebuilt in the order of a Go map, so a patch may carry it even
\* if no entry changed.
MergeAndPatch ==
    /\ pc = "merging"
    /\ LET merged == MergePreviousAndCurrent
       IN \/ PatchList(merged, merged # myStatus)
          \/ Cardinality(DOMAIN merged) > 1 /\ PatchList(merged, TRUE)
    /\ mySpec' = Refreshed /\ myStatus' = status'
    /\ todo' = ToClean(status', spec.cleanup)
    /\ requeueAfter' = NextExpiry(status', spec.cleanup)
    /\ pc' = "cleaning"
    /\ UNCHANGED <<spec, phase, finalizer, registry, pods, queue, faults, matching,
                   inUseImages, left, dirty, someFailed>>
-----------------------------------------------------------------------------
(* Reconcile: the cleanup loop. *)

Untracked(i, m) == [myStatus EXCEPT ![i].mirrors[m] = "untracked"]

\* cleanupMirror, for what is mirrored; a mirror that is not is just dropped.
CleanMirror(i, m) ==
    /\ pc = "cleaning" /\ <<i, m>> \in todo
    /\ todo' = todo \ {<<i, m>>}
    /\ \/ /\ myStatus[i].mirrors[m] = "pending"
          /\ myStatus' = Untracked(i, m)
          /\ UNCHANGED <<registry, faults, someFailed>>
       \/ /\ myStatus[i].mirrors[m] = "mirrored"
          /\ CleanupSucceeds(i, m)
          /\ myStatus' = Untracked(i, m)
          /\ UNCHANGED someFailed
       \/ /\ myStatus[i].mirrors[m] = "mirrored"
          /\ CleanupFails(i, m)
          /\ someFailed' = TRUE
          /\ UNCHANGED myStatus
    /\ UNCHANGED <<object, pods, queue, clears, pc, mySpec, matching, inUseImages, left, dirty,
                   requeueAfter>>

\* The base of this patch is copied AFTER the mirrors were taken out of the
\* images that stay: only an image that goes makes the patch carry the list.
Kept(st) == [i \in {j \in DOMAIN st : st[j].since = InUse \/ Tracked(st, j) # {}} |-> st[i]]

PatchAfterCleanup ==
    /\ pc = "cleaning" /\ todo = {}
    /\ PatchList(Kept(myStatus), DOMAIN Kept(myStatus) # DOMAIN myStatus)
    /\ mySpec' = Refreshed /\ myStatus' = status'
    /\ left' = DOMAIN status'
    /\ pc' = "mirroring"
    /\ UNCHANGED <<spec, phase, finalizer, registry, pods, queue, faults, matching,
                   inUseImages, todo, dirty, someFailed, requeueAfter>>
-----------------------------------------------------------------------------
(* Reconcile: the mirroring loop. *)

\* The next image of the list. An unused one is passed over.
VisitImage(i) ==
    /\ pc = "mirroring" /\ i \in left
    /\ left' = left \ {i}
    /\ IF myStatus[i].since = InUse
       THEN /\ todo' = {<<i, m>> : m \in {n \in Mirrors : myStatus[i].mirrors[n] = "pending"}}
            /\ pc' = "copying"
       ELSE UNCHANGED <<todo, pc>>
    /\ UNCHANGED <<object, registry, pods, queue, clears, faults, mySpec, myStatus, matching,
                   inUseImages, dirty, someFailed, requeueAfter>>

Mirrored(i, m) == [myStatus EXCEPT ![i].mirrors[m] = "mirrored"]

Pushed(i, m) ==
    registry' = [registry EXCEPT ![m] = [r \in DOMAIN @ \cup {RefOf[i]} |->
                                            IF r = RefOf[i] THEN DigestOf[i] ELSE @[r]]]

\* mirrorImage: the copy succeeds; it fails, and the destination is found there
\* already; it fails, and a late failure comes after the manifest was pushed.
CopyMirror(i, m) ==
    /\ pc = "copying" /\ <<i, m>> \in todo
    /\ todo' = todo \ {<<i, m>>}
    /\ \/ /\ Pushed(i, m)
          /\ myStatus' = Mirrored(i, m)
          /\ dirty' = TRUE
          /\ UNCHANGED <<faults, someFailed>>
       \/ /\ Fault("copy")
          /\ RefOf[i] \in DOMAIN registry[m]
          /\ myStatus' = Mirrored(i, m)
          /\ dirty' = TRUE
          /\ UNCHANGED <<registry, someFailed>>
       \/ /\ \/ Fault("copy") /\ UNCHANGED registry
             \/ Fault("late") /\ Pushed(i, m)
          /\ someFailed' = TRUE
          /\ dirty' \in {dirty, TRUE}       \* a new lastError, or the same
          /\ UNCHANGED myStatus
    /\ UNCHANGED <<object, pods, queue, clears, pc, mySpec, matching, inUseImages, left, requeueAfter>>

PatchMirrors ==
    /\ pc = "copying" /\ todo = {}
    /\ PatchList(myStatus, dirty)
    /\ mySpec' = Refreshed /\ myStatus' = status'
    /\ dirty' = FALSE
    /\ pc' = "mirroring"
    /\ UNCHANGED <<spec, phase, finalizer, registry, pods, queue, faults, matching,
                   inUseImages, todo, left, someFailed, requeueAfter>>

\* Mutant: failed copies are not tried again.
FinishAnyway ==
    /\ pc = "mirroring" /\ left = {}
    /\ EndAndRequeueAfter(requeueAfter)
    /\ UNCHANGED <<object, registry, pods, clears, faults>>
Finish ==
    /\ pc = "mirroring" /\ left = {}
    /\ IF someFailed THEN EndWithError ELSE EndAndRequeueAfter(requeueAfter)
    /\ UNCHANGED <<object, registry, pods, clears, faults>>
-----------------------------------------------------------------------------
Users == \/ EditSpec \/ DeleteObject
         \/ \E p \in Pods : RemovePod(p) \/ UpdatePod(p)
         \/ \E p \in Pods, i \in Images : AdmitFromSource(p, i)
         \/ \E p \in Pods, i \in Images, m \in Mirrors : AdmitFromMirror(p, i, m)
         \/ \E m \in Mirrors, r \in Refs : LoseImage(m, r)

Webhook == \/ \E m \in Mirrors, r \in Refs : StartClear(m, r)
           \/ \E i \in Images, m \in Mirrors : OwnMirroredAt(i, m)
           \/ \E i \in Images, m \in Mirrors, stage \in {"remove", "contested"} :
                  RemoveMirroredAt(i, m, stage)
           \/ \E c \in clears : GiveUpClear(c)

Proceed == \/ GetNothing \/ GetDeleted \/ RemoveFinalizer
           \/ GetLive \/ ListPods \/ AddFinalizer \/ MergeAndPatch
           \/ PatchAfterCleanup \/ PatchMirrors \/ Finish
           \/ \E i \in Images, m \in Mirrors :
                  DeleteMirror(i, m) \/ CleanMirror(i, m) \/ CopyMirror(i, m)
           \/ \E i \in Images : VisitImage(i)

Reconcile == Proceed \/ ApiFails \/ Crash

Act == Users \/ Webhook \/ Wake \/ Reconcile
Next == Tick \/ Act

Spec == Init /\ [][Next]_vars

\* Time passes, timers fire, the reconciler works. Users owe nothing.
FairSpec == Spec /\ WF_vars(Tick) /\ WF_vars(Wake) /\ WF_vars(Proceed)

\* Moreover the informer's resync hands every pod to the mapper now and then.
ResyncSpec == FairSpec /\ \A p \in Pods : WF_vars(UpdatePod(p))
-----------------------------------------------------------------------------
\* The finalizer does its job: when the object goes, every mirror its status
\* calls mirrored, and that a credential lets kuik delete, is out of the mirror,
\* whatever failed, crashed or was edited on the way.
FinalizerGuardsMirrors ==
    [][phase = "deleting" /\ phase' = "gone" =>
           \A i \in DOMAIN myStatus, m \in mySpec.mirrors \cap Credentialed :
               myStatus[i].mirrors[m] = "mirrored" => RefOf[i] \notin DOMAIN registry[m]]_vars

\* Once the object is in the hands of reconcile past its finalizer it cannot go.
FinalizerHolds ==
    pc \in {"merging", "cleaning", "mirroring", "copying"} => finalizer /\ phase # "gone"

\* Nothing is left behind: what is in a mirror is in the status, so that it can
\* be cleaned up. A failed copy or deletion does not change that (a crash, a
\* failed patch, a late error or a clear does; see the README).
NoOrphan ==
    \A m \in Mirrors : \A r \in DOMAIN registry[m] :
        phase # "gone" /\ \E i \in DOMAIN status : RefOf[i] = r /\ m \in Tracked(status, i)

Reconcilable == phase = "present" /\ spec.valid
Wanted(i, m) == Reconcilable /\ i \in spec.filter \cap RunningImages /\ m \in spec.mirrors
Abandoned(i, m) == /\ Reconcilable /\ spec.cleanup
                   /\ m \in spec.mirrors \cap Credentialed
                   /\ ~\E p \in DOMAIN pods : pods[p].image = i

\* docs/guides/v1-to-v2-migration-path.md:76: "Any images deployed on cluster
\* [...] will be handled by your new ClusterImageSetMirror and mirrored." An
\* image that the object selects and pods go on running ends up in every mirror.
UsedImageIsMirrored ==
    \A i \in Images, m \in Mirrors :
        <>[]Wanted(i, m) => <>[](RefOf[i] \in DOMAIN registry[m])

\* An image no pod comes back to is in the end deleted from the mirrors.
UnusedMirrorIsDeleted ==
    \A i \in Images, m \in Mirrors :
        <>[]Abandoned(i, m) => <>[](RefOf[i] \notin DOMAIN registry[m])

\* The finalizer does not hold the object for ever.
DeletionEnds == phase = "deleting" ~> phase = "gone"
=============================================================================
