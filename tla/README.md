# A verification of kube-image-keeper

kube-image-keeper (kuik) keeps the container images of a Kubernetes cluster
available: it copies images that pods use to mirror registries, rewrites pods to
a mirror or a replica when their own registry fails, and monitors whether images
can still be pulled. This directory holds TLA+ models of its core logic, the
configurations that check them with TLC, and proofs checked by TLAPS.

    tlc -config MirrorHistory.cfg MCMirrorHistory.tla     # one run, see below
    tlapm MirrorReconciler_proof.tla                      # the proofs of a module

## The system

| Part | Code | State | Operations |
|---|---|---|---|
| Mirror reconciler, for `ImageSetMirror` and `ClusterImageSetMirror` | `internal/controller/kuik/mirror_reconciler.go` | the object's spec, finalizer and status (images, their mirrors with `mirroredAt`, `unusedSince`); its work queue | reconcile: add the finalizer, merge pods into the status, delete expired mirrors, copy missing ones; on deletion, empty the mirrors; pod events enqueue |
| Pod webhook | `internal/webhook/core/v1/pod_webhook.go` | two caches of one second, a single-flight group, a semaphore | on admission: list alternatives by priority, probe them at once, rewrite the containers, copy the pull secret; clear a stale `mirroredAt` |
| Concurrent choice | `internal/parallel/parallel.go` | a channel, the answers so far | one goroutine per candidate, answer with the first that succeeds in list order |
| Availability reconciler | `internal/controller/kuik/clusterimagesetavailability_controller.go` | `status.images` with `lastMonitor`, `unusedSince`, a verdict | keep the list in step with the pods; check one image per registry and tick |
| Backfill | `internal/controller/kuik/backfill_original.go` | the same list | at start-up, set a mark on entries of older versions |
| Secret owner | `internal/controller/kuik/secretowner_controller.go` | copies of pull secrets, a finalizer | delete the copies when their owner goes |
| Availability check, registry client | `internal/registry/` | none | head or get a reference, copy, delete, classify an error |
| Filters | `internal/filter/`, `api/kuik/v1alpha1/filter_types.go` | none | include/exclude patterns on images and pods |
| Keyring | `internal/registry/credentialprovider/` | an index of credentials | the credentials that apply to a reference |
| Configuration, metrics, status, start-up | `internal/config`, `internal/controller/collector.go`, `cmd/main.go` | | |

How they meet. The API server is the shared state: the reconcilers and the
webhook read pods and objects from it (through a cache) and write statuses with
merge patches that carry whole lists and take no lock; the webhook alone uses
server-side apply, on `mirroredAt`. The webhook reads the mirrors of a spec, not
the status, and probes the registry; the mark it leaves on a rewritten pod (the
annotation `kuik.enix.io/original-images`) is how the reconcilers later know
which image the pod really uses. Pods enqueue the objects whose filter their
images match. Mirror registries are shared with anybody.

What is hard. Reconcile makes up to one call per image and mirror, on a list of
pods and a copy of the status that get old meanwhile; each call can fail, time
out after it took effect, or be the last one before a crash; two writers share a
list; deletions must wait for a retention that several restarts, edits and
failures may interrupt; what nobody enqueues is never looked at. In the webhook,
probes end in any order, and results are shared between admissions through
caches keyed by less than what they depend on. `PROJECT.json` lists the hazards
line by line.

What makes each part correct:

- mirror reconciler: no mirror of an image in use is deleted, none before its
  retention; what is used ends up mirrored, what is not ends up deleted; nothing
  is left behind when the object goes, and the object does go;
- concurrent choice: the answer depends on the list and the results, not on the
  order of arrival; it is given as early as possible; nothing blocks for ever;
- webhook: the alternatives come in the documented order, a pod is only sent to
  an image that a probe found with the pod's own credentials, secrets are there;
- availability: an image in use is monitored, one that is not is dropped after
  its expiry, no registry is asked more often than configured;
- secret copies: none outlives its owner, none is missing under a running pod.

## Modules

| Module | Stands for | Uses |
|---|---|---|
| `OrderedChoice` | what `parallel.FirstSuccessful` promises | |
| `FirstSuccessful` | its goroutines, channel and loop | implements `OrderedChoice` |
| `MirrorReconciler`, `MirrorHistory` | the mirror reconciler and all that acts on its object | `MirrorHistory` extends it with history variables |
| `Availability` | the availability reconciler and the backfill | |
| `Orders` | a loop or a sort: what is there, in an order | |
| `Alternatives` | the list of alternatives of an image | extends `Orders` |
| `Filters` | which pods and images a resource applies to | |
| `Probe` | the verdict of an availability check | |
| `Keyring` | the credentials of a request, in order | extends `Orders` |
| `Decisions` | one decision of the four above, on any input | extends them |
| `Admission` | concurrent admissions, and the secret owner reconciler | extends `Alternatives`, composes with `OrderedChoice` |
| `Alternatives_proof` | lemmas on orders and on the list of alternatives | `Alternatives`; extended by the next two |
| `Decisions_proof`, `Admission_proof` | theorems | extend the module they are about |
| `FirstSuccessful_proof`, `Availability_proof` | theorems | extend the module they are about |
| `MirrorReconciler_proof` | theorems | `MirrorReconciler`; extended by the next two |
| `MirrorHistory_proof` | theorems on retention and use | `MirrorHistory` |
| `MirrorOrphans_proof` | the theorem on what is left behind | |
| `MC...` | values of the constants for TLC | |

### FirstSuccessful, OrderedChoice

`FirstSuccessful` is `parallel.FirstSuccessful`: the state of each goroutine
(running, blocked on its send, done), the buffered channel, the array `pending`
as far as the receive loop has filled it, `nextToReturn`, and the answer. An
action is one step of a goroutine or of the loop: `Return` (the probe answers),
`Send`, `Receive`, `Skip` (one turn of the inner loop over a failure),
`ReturnFirst` (the early return), `ReturnNone`. `OrderedChoice` is what callers
may expect: probes finish, and at some time after all candidates before it have
failed, the first success is the answer. The mapping reads a probe as finished
when its goroutine left the call.

### MirrorReconciler

One mirror object with everything that acts on it.

| Variable | Code |
|---|---|
| `spec`, `phase`, `finalizer`, `status` | the object at the API server; `status[i].mirrors[m]` is "untracked" (no entry), "pending" (no `mirroredAt`) or "mirrored"; `status[i].since` is the age of `unusedSince` in ticks, `InUse` for nil, `NotMatching` for the marker 0001-01-01 01:00 |
| `registry[m]` | tags in mirror `m` and their digests |
| `pods` | the image a pod wants, where its container really pulls it from, and whether the annotation has the original |
| `queued`, `requeueIn` | the work queue with its deduplication, the delayed add |
| `clears` | clears of `mirroredAt` by the webhook, with the patch that comes next |
| `pc`, `mySpec`, `myStatus`, `matching`, `inUseImages`, `todo`, `left`, `dirty`, `someFailed`, `requeueAfter` | the local variables of `reconcile` |

Actions of reconcile, in its order: `GetNothing`, `GetDeleted`, `DeleteMirror`,
`RemoveFinalizer` (deletion); `GetLive`, `ListPods`, `AddFinalizer`,
`MergeAndPatch`, `CleanMirror` per mirror, `PatchAfterCleanup`, `VisitImage` and
`CopyMirror` per mirror, `PatchMirrors`, `Finish`. Each has at most one API or
registry call, so everything else happens between any two: users edit or delete
the object (`EditSpec`, `DeleteObject`), pods come, go and are updated, with or
without a rewriting (`AdmitFromSource`, `AdmitFromMirror`, `RemovePod`,
`UpdatePod`), somebody deletes a tag (`LoseImage`), time passes (`Tick`, `Wake`),
the webhook clears `mirroredAt` with its two patches (`StartClear`,
`OwnMirroredAt`, `RemoveMirroredAt`, `GiveUpClear`), a call fails (`ApiFails`,
and disjuncts of the actions that call a registry), or the manager is restarted
(`Crash`). A failed registry call may have taken effect ("late").

Three details the code depends on are kept as they are: a merge patch carries
the whole list or, when nothing changed, nothing, and the object in memory becomes
what the server answers, with the spec as it is by then (`Refreshed`; the pods and
the image filter stay those of the start); the patch after the cleanup compares with a base taken after
the mirrors were already removed; the list is rebuilt in the random order of a
map, so that a patch may carry it though no entry changed. A server-side apply
removes a field only while its manager still owns it: when a merge patch wrote
the list between the two applies, either outcome is allowed ("contested").

Abstractions: an image is a model value and a filter the set of images it
matches; pods pass the pod filters; time is counted up to the retention; all
mirrors expired when the cleanup loop starts are deleted by it, none that
expires during the loop; another finalizer of the object (that of the secret
owner) only delays its end. The snapshot that the webhook compares with the
registry is taken at the moment of the probe.

### MirrorHistory

Adds to MirrorReconciler what the code does not remember: how long ago the
recorded status said that an image is in use, and the pods that were there all
along since reconcile listed them. The deletions of the cleanup loop are judged
by these. `HNext` lists MirrorReconciler's actions one by one, so that the
coverage TLC prints counts each of them.

### Availability

Any number of `ClusterImageSetAvailability` objects with the one worker that
serves them.

| Variable | Code |
|---|---|
| `spec`, `status`, `seen` | the objects at the API server, `status.images` by image; `seen` is the informer's copy of the statuses, which lags where `Lagging` says so |
| `pods` | a pod's image, whether an annotation has its original, whether its pull secret can be read |
| `queued`, `requeueIn` | the work queue and the delayed adds |
| `pc`, `me`, `mine`, `tracking`, `listed`, `objs`, `cand`, `job`, `requeue` | the local variables of `Reconcile` |
| `backfillDue`, `backfill` | `BackfillOriginalField`: not yet begun; the lists it has still to patch |
| `sinceCheck`, `idle` | not in the code: when a registry was really asked, when an image was really used |
| `outdated`, `behind` | not in the code: the objects whose list was once read, or written back, when the server had a later one; those of which this is so since the present reconcile listed the objects |

`Begin` is Get, List and `syncImageList` (what becomes of `unusedSince`, the
expiry, the new images), `PatchList` its patch; `FindCandidates` lists all
objects and takes the most overdue image of each registry; `Postpone` and
`Probe` are the two outcomes of `checkNextForRegistry`, `Record` the patch of the
result, `Finish` the requeue. A merge patch sends the whole list or, if nothing
changed, nothing. Ages are counted in ticks up to `MaxAge`; `unusedSince` and
`lastMonitor` are ages, with a value for nil and one for the marker of instant
expiry. The removal of an image marked for instant expiry in an earlier
reconcile does not count as a change in the code, and does not here.

Where `Lagging` is TRUE, every read of statuses may be answered from before a
patch, reconcile's own included; the cache has caught up when a tick passes.

### Alternatives, Filters, Probe, Keyring, Decisions

Pure functions, as operators, with the structure of the code: `UpstreamOffers`,
`OriginalOffer`, `MirrorOffers`, the stable sort by four keys and `Distinct` are
`buildAlternativesList`; `ToFilter`, `ImagePatterns`, `SelectorSets` the filters
with their defaults and the precedence over the deprecated `imageFilter`;
`Tried`, `RateLimited`, `CheckDigestPath` the verdict over the answers to several
credentials; `Key`, `Index`, `URLsMatch`, `Lookup` the keyring, `Resolve` what a
keychain sends. A reference is a
sequence of pieces, a pattern the set it accepts, a word of a host or a path a
number in the order of the strings. `Decisions` takes one of them on any input
of a set and compares the outcome with what the documentation says.

A loop that appends to a slice, and a sort, are one operator, `InOrder(f, order)`
of `Orders`: the values of `f` at its places, in an order that is given as a
relation on the places. `RowByRow` is the order of two nested loops (the upstreams
of each replicated set; the mirrors for each offer), `Rising` that of one; the
stable sort takes the relation `Precedes`, by the four keys and then by place; the
index of the keyring that of the keys, reversed, and then by place. Only the loop
over the mirror sets feeds on what it made before: `AfterMirrors` is a recursive
function of the number of sets. Forms without a fold can be proved about.

`Keychains` is what the requests of a check are sent with, in their order: a
credential, told from others by its entry, or nothing. The keyring is asked by the
name that `reference.ParseNormalizedNamed` gives a repository; `Resolve` sends a
credential only to a target of that name, and the target's name is
go-containerregistry's. Both libraries are modelled by the one thing in which they
differ here: for Docker Hub `Named` is at `docker.io`, `Target` at
`index.docker.io`, so that every keychain of such a repository is anonymous. What `MoreSpecificFirst` says of the credentials that are sent
is therefore about all other registries.

`BrokenIsSkipped` compares the list with that of the sets without what does not
compile, by all but the place in the YAML. By all four keys the two differ: the
code counts declarations in the whole set, a broken upstream included, and its
places also decide between sets of one kind and priority, so that taking a broken
upstream out of one set can move its other upstreams before those of another set.

### Admission

| Variable | Code |
|---|---|
| `adm` | `defaultPod` for each slot (a pod of a fixed template at a time): where it is, the resources it listed, the containers left, what the others were given, the list of alternatives, the outcomes of their probes, the pick whose secret is to be copied, whether its request is over |
| `altCache`, `checkCache` | the two caches; an entry may expire at any time |
| `probe` | the flights `availability:`: whose request is their context, whether they carry credentials |
| `owner`, `sweep` | resources with their finalizer, `CleanupOwnedSecrets` |
| `copies`, `seen` | copies of pull secrets at the API server and in the informer's cache |
| `late` | not in the code: copies that no sweep of their owner has seen, of those it may miss |

An admission takes what the cache has (`UseCached`), joins the flight of its
image (`Follow`) or leads it (`Lead`, `SecretMissing` or `StartProbes`,
`Conclude`); then `GetCopy` and `CreateCopy` are the two calls of
`CreateOrUpdate`. `Answer` ends a probe for all who wait for it. What an
admission may conclude from its probes is what `OrderedChoice` allows. When an
admission ends or its request is given up (`HangUp`), its probes go on without a
context and fail (`CancelProbes`). The secret owner reconciler adds the
finalizer, lists copies in its cache, deletes them one by one and removes the
finalizer.

Abstractions: a reference is always or at times available, and may want the
credentials of the alternative; a resource has one `credentialSecret`; the probes
of a list start at once; reading a cache and joining a flight is one step;
copies of one secret have the same contents, so that an update of one changes
nothing. Left out: dry runs, updates of pods, the pods' own pull secrets,
changes of source secrets, the clearing of `mirroredAt` (which is in
MirrorReconciler). A request that fails with an error denies the pod; one that
is not answered in time lets it through as it is (`failurePolicy: ignore`).

## Runs

| Run | Checks | On |
|---|---|---|
| `first_successful` | `TypeOK`, `AnswerIsFirst`, `SendNeverBlocks`, `NoNeedlessWait`, `ImplementsChoice`, `AllEnd` | 4 candidates, all outcomes, all orders |
| `mirror_history` | `TypeOK`, `FinalizerHolds`, `FinalizerGuardsMirrors`, `UsedMirrorIsKept`, `RetentionOfRecord` | 1 image, 1 mirror, 1 pod, retention 1, three specs, two faults of any of seven kinds, one clear at a time |
| `mirror_liveness` | `NoOrphan`, `UsedImageIsMirrored`, `UnusedMirrorIsDeleted`, `DeletionEnds` | 2 images, 2 pods, 1 mirror, two failing copies or deletions |
| `mirror_reused` | `UsedImageIsMirrored`, violated | 1 image, 2 mirrors, one failing deletion |
| `mirror_unnoticed` | `UnusedMirrorIsDeleted`, violated | 1 image, 1 mirror, rewritten pods, no fault |
| `mirror_init` | `RunningMirrorIsKept`, violated | as above, rewritten init containers |
| `availability` | `TypeOK`, `RegistryIsSpared`, `DroppedAfterExpiry` | 2 objects, 1 image, 1 pod, the backfill, one failed patch or restart |
| `availability_lists` | `WantedIsMonitored`, `UnmarkedIsDropped`, `DroppedAfterExpiry` | 1 object, 2 images of 1 registry, 1 pod, edits to a narrower filter, with expiry or without, one failed patch or restart |
| `availability_lost` | `WantedIsMonitored`, violated | 1 object, 2 images, 2 pods, a lagging cache, no fault |
| `decisions` | `DocumentedOrder`, `BrokenIsSkipped`, `DiscardedIsNotTried`, `FilterAsDocumented`, `SameImagesForAll`, `AvailableIsPullable`, `NotFoundIsCertain`, `MoreSpecificFirst` | some 25000 inputs, see below |
| `admission` | `TypeOK`, `RewrittenPodCanPull`, `OrphansAreLate`, `AdmissionEnds`, `OwnerGoes` | 2 pods of one image in two namespaces, a cluster-scoped and a namespaced resource with a locked copy of it, an unsteady original, one fault of four kinds |
| `admission_cancelled` | `FirstAvailableIsUsed`, violated | 2 pods, one of them with two containers, every registry answers |

### Bounds

Images do not interact in the mirror reconciler but through the list that is
patched as a whole, the one timer and the error at the end; one image shows what
happens to an entry, two (`mirror_liveness`) that an entry is not lost for
another, that the earliest timer serves both, and that a list written for one
image is right for the other. Two mirrors matter only for a partly failed
cleanup or deletion: the properties of the finalizer are proved for any number,
and `mirror_reused` has two. A retention of one tick tells a fresh mark from an
expired one. Two faults let one follow from the other (a failed patch, then a
crash). `MaxFaults` and the ages are the only bounds on the state; the number of
reconciles, edits, pods over time and clears is not bounded.

References of images are distinct below a mirror in all runs, and so are
digests. Both are assumptions about users: with two images of one path and
different registries, or two tags of one digest, deleting one mirror deletes the
other (`RefOf`, `RepoOf` and `DigestOf` are constants so that this can be run).

In `availability` two objects share an image, so that the date of a check
is in one list and the next reconcile is the other's; the lists start as an
earlier version left them. In `availability_lists` two images of one registry
compete for its ticks and one pod, rewritten and so known by its annotation,
alternates between them. One of the specs has no expiry: only
edits from it to another bring entries marked for instant expiry into a list
that has one. Ticks, expiry and tick duration are one: an age either counts or
does not. The number of edits, pods and reconciles is not bounded. Both
runs are without lag: in `availability_lists` since used images do not get
monitored with it (`availability_lost`), in `availability` since the backfill and
the lag together take TLC too long. A list is overwritten from an outdated copy in
it all the same, by the backfill or by the reconcile beside it, so that what
`RegistryIsSpared` and `DroppedAfterExpiry` except does happen. With
`Lagging = TRUE` and `PodKinds <- PlainPods`, which leaves the backfill nothing to
write, the same run takes as long and passes; with lag and everything else
together, and with filters that do not compile, these two are proved, not run.

In `admission`, two slots are enough for a leader and a follower, or one that
reads the cache of the other; two namespaces for a secret that is at home in one
and has to be copied to the other; `MaxPods` bounds the pods that come, after
which everything may rest: deadlock is not checked in the runs of Admission. A
slot may be used again, and a resource be deleted at any time.

`decisions` takes lists of up to two mirror sets out of five and two replicated
sets out of five, made so that offers coincide, tie, are mirrored again, do not
compile and are discarded; filters of up to two includes and two excludes out of
nine items over all dimensions; up to two answers of a registry, with a second
request for the digest; up to three credentials, in any order, for repositories of
quay.io with and without a port, of Docker Hub under its two names, and of a host
without a dot.

### Fairness

`MirrorReconciler!FairSpec` (with history, `HFairSpec`) and `Availability!FairSpec`: time passes, timers
fire, and the reconciler goes on as long as it has work (controller-runtime's
worker takes what is queued and requeues on errors; its queue is first in, first
out, hence strong fairness for the objects in `Availability`). Nothing is assumed
of users, pods and the webhook; `WantedIsMonitored` and `UnmarkedIsDropped` promise something
only once users rest, since new images go before those that wait. The violated
liveness properties of the mirror reconciler are checked under `ResyncSpec`,
which moreover hands every pod to the mapper again and again, as the informer's
resync does: the disagreements are not for want of an event that is only late.
`Admission!FairSpec`: handlers and workers run, and a registry answers or the
time-out of the check does.

### Where the code and its documentation disagree

- `mirror_reused`: reconcile removes deleted mirrors from the status and only
  then copies the object as the base of the patch, so when some mirrors of an
  image are deleted and others are not, the patch says nothing and the server
  keeps `mirroredAt`. If the image comes back before the retry, its deleted
  mirror counts as done and is never copied again.
- `mirror_unnoticed`: rewritten pods enqueue nothing, so an image whose last pod
  was rewritten is never marked unused.
- `mirror_init`: the original image of an init container is not in the
  annotation, so its mirror is deleted while it is used.
- `availability_lost`: the result of a check is patched as a whole list on top of
  what the cache had. A reconcile that adds an image and is at once due for a
  check reads the cache before its own patch has got there; the patch of the
  result takes the new image off again. The requeue comes when the next check is
  due, so that the same happens on every tick: the image is never checked.
- `admission_cancelled`: an admission that has its answer ends, its remaining
  probes are cancelled, and a cancelled probe is cached for a second as a failure
  of its reference. Another admission then passes over an available image.

Met while modelling, and excepted by name in the properties that a run checks:

- no request to Docker Hub carries a credential, of a pod or of a resource
  (`keychain.go:18`, against `docs/crds.md:33`). A credential is only sent to a target
  of the name it was looked up by, and the two libraries that name Docker Hub do so
  differently: an image that is private there is never found available.
  `MoreSpecificFirst` holds for all other registries;
- an image that the filter of an object without expiry left out bears the mark of
  instant expiry. When the object is given an expiry, reconcile finds the mark of
  before, removes the image from its copy and, as the removal of a marked image is
  not counted as a change, sends no patch
  (`clusterimagesetavailability_controller.go:356`, against `docs/crds.md:166`). The
  image stays on the list and is checked at its turn until something else changes
  the list. `UnmarkedIsDropped` says that such images are all that stays. The mark
  outlives the exclusion, too: until a pod of the object's scope uses the image it
  counts as expired, however recently it was used, and goes with the next patch of
  the list, whatever that is for; `DroppedAfterExpiry` leaves such images out;
- whether a registry is due is decided by dates that come from the informer's
  cache (`clusterimagesetavailability_controller.go:274`, against
  `docs/crds.md:165`). The reconcile after a check may list the objects from before
  the check was recorded, and ask the registry again in the same tick. What holds
  is `RegistryIsSpared`: a date that was in a list as reconcile read it is respected;
- a use of an image that begins and ends while reconcile reads a list from before
  its own patch may be missed by the date of disuse, so that the image goes before
  its expiry; `DroppedAfterExpiry` promises nothing of such a list.

Met while reading, without a run of their own:

- clearing `mirroredAt` is said to signal the controller (`pod_webhook.go:664`),
  which ignores changes of the status (`mirror_reconciler.go:289`);
- a job whose pods are rewritten does not start the retention anew
  (`mirror_reconciler.go:312`, `docs/crds.md:143`);
- `spec.mirrors[].cleanup` is documented (`docs/crds.md:111`) and not read
  (`mirror_reconciler.go:188`);
- an admission that loses the race to create a copy is denied (`CreateCopy`), as
  is every pod that a resource with a missing `credentialSecret` matches, with
  those that wait for the same flight (`pod_webhook.go:825`);
- the alternative is cached by image only: a pod may get the alternative of a
  resource of another namespace, with a copy of its secret
  (`pod_webhook.go:424`, `docs/crds.md:60`); the cache of probes is keyed by
  reference, so that a probe with one pod's secrets counts for another;
- the secret owner reconciler is registered for cluster-scoped resources only
  (`main.go:269-284`), so that copies made for a namespaced one stay;
- the verdict `UnavailableSecret` of an earlier check outlives the repair of the
  secret when the registry refuses (`clusterimagesetavailability_controller.go:403`);
- of several refused credentials the first decides the verdict, so that a 401
  hides a 429 behind it (`registry.go:256`);
- a list of alternatives with one candidate is neither probed nor used
  (`pod_webhook.go:588`). Where `discardAlternative` leaves a single one, the pod keeps
  the image of the registry that was discarded, against
  `docs/concepts/image-routing.md:188`;
- `maxPerInterval: 0` in the default configuration divides by zero
  (`clusterimagesetavailability_controller.go:273`);
- the probes of one admission append to one slice of pull secrets
  (`pod_webhook.go:592`): with spare capacity they share its backing array.

## Proofs

Every theorem is for all values of the constants that satisfy the `ASSUME`s of
its module (TLC evaluates these on every run) and the hypotheses it names. Where
a theorem has a hypothesis, the property is false without it; the paragraph says
how.

### FirstSuccessful

For any number of candidates: types, `AnswerIsFirst`, `SendNeverBlocks`,
`NoNeedlessWait`, and that the safety part implements `OrderedChoice`. The
invariant relates the channel, the goroutines and `pending`: each candidate's
answer is in exactly one of them, everything before `nextToReturn` is a failure
that was received, and the channel never holds more than the candidates. When
the loop receives, the candidate at `nextToReturn` is still missing, so that no
success whose predecessors are all known can be lying about: `NoWaitIsNeedless`.

### MirrorReconciler

For any images, mirrors, pods, specs, retention and number of faults:

- `TypeCorrect`: `TypeOK` is inductive as it stands. The lemmas say what the
  operators on statuses return; `NextExpiryType`, that the smallest of the
  pending delays exists, needs the well-foundedness of the naturals, since the
  set of delays is not known to be finite.
- `FinalizerAlwaysHolds`: `FinalizerHolds` is not inductive, as it says nothing
  of the finalizer before reconcile looked at it; `Held` adds that a finalizer
  keeps the object from going.
- `FinalizerCleansUp`: the action property `FinalizerGuardsMirrors`. Only
  `RemoveFinalizer` ends an object that is being deleted (`OnlyTheFinalizer`), and
  `CleanedSoFar` says what the deletion loop has achieved in its midst: of the
  mirrors of the status it read, those it has passed are out of the registry.
  It survives lost images, aging, edits and pods because the loop works on its
  own copy of the object, and because nobody but reconcile adds to a mirror.

`MirrorHistory_proof` adds, for the same module with its history
(`HistoryOnlyWatches` carries the theorems above over to it):

- `RetentionIsObserved`: `RetentionOfRecord`. `AgeInv` compares three clocks: the
  mark at the server, that in reconcile's copy, and the history. Between the Get
  and the last patch the webhook may write to the same list, but never to a mark,
  hence `SameAges`; an entry it adds back is in use (`AddedInUse`); the mark is
  never older than the history says (`AgeOfRecord`). `TodoExpired` says that what
  the cleanup has on its list was expired when it was put there, and stays so.
- `UsedMirrorStays`: `UsedMirrorIsKept`. `SteadyInUse` says that what a steady pod
  uses is in reconcile's list of images in use, and so not on the cleanup's.

Both need `NotShared`: a deletion removes every tag of a digest in a repository,
and mirror references drop the source registry, so that with shared tags or
digests the deletion of one image, expired and unused, takes another along.

`MirrorOrphans_proof`: `NothingIsLeftBehind`, that is `NoOrphan`. `OrphanInv` says,
at each point of reconcile, which of two records accounts for what is in the
mirrors: the status at the server, or reconcile's copy that is to be patched over
it. The hypothesis `Undisturbed` is what the run `mirror_liveness` has as well, for
any number of images and mirrors: only copies and deletions fail (with no effect)
and images get lost. A crash, a failed patch or a late error between the copy and
the patch, a clear by the webhook, a mirror taken out of the spec or without a
credential each leave an image that no status mentions: these are hazards of the
code, listed without a property.

### Availability

For any objects, images, registries, pods, periods and number of faults:

- `TypeCorrect`: `TypeOK`, with a lagging cache or without. The strengthening
  `Typed` adds that what reconcile has in hand refers to lists it has read: the
  candidate of a registry and the image that is checked are on one of them.
- `RegistriesAreSpared`: `RegistryIsSpared`, with a lagging cache too. The limit is
  enforced by taking the most recent date over the lists of all objects. `DatesInv`
  says that the lists reconcile has read have the dates that the server has, except
  those that its cache was behind with or that went back since (`behind`);
  `LatestInv`, that the candidate of a registry not yet treated is as recent as any
  of them; `BackfillInv`, that the backfill writes back the dates it read.
- `DroppedWhenUnused`: `DroppedAfterExpiry`, for all specs, those without an expiry
  and those that bring marks back included, and with a lagging cache. `IdleInv` is
  the property of the date: it is never older than the last use. It is kept by
  `RestInv` and `MineFits`: a list at rest, whose object is not queued, says "in
  use" of what its pods use and bears a mark on what its filter leaves out, so that
  a pod that leaves finds no old date; by `BackfillUse`, `JobUse` and `MineUse` on
  the three lists that may be written later; and by `SaneInv`, that only what was
  checked has a date of a check. A list that was once read or written back
  outdated is excepted by the property (`outdated`), for as long as it is there: its
  dates may be those of before a use.

### Orders and the list of alternatives

`Alternatives_proof` has what the theorems of the next two sections rest on, each
for all inputs:

- `InOrderFacts`: a function with finitely many places, taken in a total order,
  goes through each place once, and one comes before the other exactly if the order
  says so. The number of places before a place is smaller than that before a later
  one (`PassedFacts`), hence it is an injection into as many numbers as there are
  places, hence a bijection (`RankFacts`). So what comes out is a sequence of what
  is there (`OrderedSequence`).
- `CompareOrders`, `PrecedesOrder`: `compareAlternatives` is a strict weak order,
  and with the places a total one; hence `SortFacts`: the sort keeps all offers,
  and none is before a better one. `DistinctFacts` and `ListFacts`: each reference
  stays once, with the best of its offers.
- `AfterMirrorsDefined`: the recursive function satisfies its equation. The library
  has this for induction with an operator parameter, which is out of reach here;
  the proof takes the least number of sets up to which no such function exists.
  `AfterMirrorsFacts` and `CollectedFacts` use the same argument: what holds of the
  offers before the mirror sets, and is kept by one (`RoundFacts`), holds at the end.

### Decisions

For any input, with no bound on the number of sets, items, answers or secrets
(`DecisionsAssumption` gives the inputs their types: priorities and declarations
are numbers, lists are sequences). `DecidedInv` says that a decision is that of the
model on one of the inputs; the rest is about operators.

- `FilterCorrect`, `SelectionsAgree`: grouping by dimension, the defaults, the
  precedence over `imageFilter`, what does not compile and the flattening of
  cluster-scoped resources amount to what the documentation says, and are the
  same for the webhook and the reconciler. The argument goes dimension by
  dimension; flattening turns an item of the namespace dimension into an empty
  one, which goes on counting.
- `AvailableCorrect`, `NotFoundCorrect`: the verdict over any number of credentials.
  What `Tried` returns is the first success or an error; an answer that exists
  has a least index, from the well-foundedness of the naturals.
- `OrderCorrect`: `DocumentedOrder`, from `ListFacts` and from the four keys being
  the documented ones (`ComparedAsDocumented`).
- `DiscardCorrect`: `DiscardedIsNotTried`. Every offer is a mirror's, or is an
  upstream's whose location its reference begins with (`UpstreamOfferPlace`), or is
  the original's where no matching upstream discards it.
- `BrokenCorrect`: `BrokenIsSkipped`. What the code collects and what it would
  collect without the broken parts are alike: to each offer of one belongs an offer
  of the other with the same reference and the same keys but for the place
  (`Alike`). The first matching upstream is the same one (`MatchingFacts` and what
  follows), so are the offers before the mirrors (`BaseAlike`), and each round over
  a mirror set that compiles keeps them alike (`RoundAlike`, `AfterAlike`).
- `SpecificCorrect`: `MoreSpecificFirst`. Outside Docker Hub the two names of a
  repository are one, so that `Resolve` sends each credential (`LookupFacts`: these
  are the entries that match, in the order of the index). The order of strings is a total order
  (`LessTransitive`, `LessTotal`: by the first piece where two texts part), so that
  the index is sorted whatever entries apply (`IndexOrder`); the text of a longer
  path of the same host goes on where the other ends (`LongerPathFacts`).

### Admission

For any pods, images, resources, namespaces and number of faults:

- `OrphansLate`: `SweepInv` says what a resource's copies can be in each of its
  states: none but late ones without the finalizer, and during the sweep those
  that are late or still on its list. The induction shows that nothing else
  matters: not how admissions come by the copy they write, nor which deletes fail.
- `RewrittenCanPull`: `PullInv` adds to it that a copy in the informer's cache is
  in the API server or its resource is being deleted (`SeenOrDeleted`), without
  which `GetCopy` would not preserve the property, and that admissions in progress
  have been given no more than their pods can use (`GivenCan`). `CanStays` is the
  stability of what a pod can use, `Good` what any step may make of an admission.
  Neither of these two needs the types of the module or an assumption on constants:
  the contents of the lists and of the caches do not matter to them.
- `TypeCorrect`: `TypeOK`. `WellFormed` adds that an admission in progress has a
  container left, that its list and what it has given are sequences, and that
  where a secret is to be copied the alternative has a resource behind it;
  `ResourcesTyped`, that only resources with a secret owner reconciler get its
  finalizer. `FlightsTyped` is kept because every step that ends an admission
  cancels its probes. That the lists of alternatives hold offers of the resources
  that are there (`ListsFacts`) follows from the types of these resources alone,
  with `CollectedFacts` and `ListFacts`.

### What is not proved

Every safety property that a passing run checks is a theorem, some of them under
the hypotheses named above. Liveness stays with
TLC, as fairness and ENABLED are out of reach of the prover: `AllEnd`,
`UsedImageIsMirrored`, `UnusedMirrorIsDeleted`, `DeletionEnds`, `WantedIsMonitored`,
`UnmarkedIsDropped`, `AdmissionEnds` and `OwnerGoes`; of `ImplementsChoice` the
fairness of the abstract choice, whose safety part is the theorem `Refinement`.

## Not modelled, and what is left

Parts of modelled components that are not: a lagging cache for MirrorReconciler,
shared tags and digests; creation and deletion of availability objects; updates
of pods that were reviewed before, dry runs, and the pods' own pull secrets in an
admission; wildcards in a host other than the lone star.

Left out: parsing of references and configuration, HTTP and rate limiting of
requests, metrics, command-line status, start-up and leader election (one
reconciler at a time is taken as given), the web site and the Helm chart.
