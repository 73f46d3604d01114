---------------------------- MODULE Availability ----------------------------
(***************************************************************************)
(* ClusterImageSetAvailability: which images of the pods are monitored, and *)
(* when each registry is asked about one of them                            *)
(* (internal/controller/kuik/clusterimagesetavailability_controller.go),    *)
(* with the start-up task that rewrites the same lists                      *)
(* (backfill_original.go).                                                  *)
(*                                                                          *)
(* Covered: the one worker of the controller, its queue and timers, every   *)
(* API call and check as a step; the informer's cache, which may lag behind *)
(* the server; whole-list merge patches without a lock; failed patches and  *)
(* restarts; edits of the objects; pods that come and go.                   *)
(*                                                                          *)
(* Abstracted: an object's filter is the pods and the images it selects; a  *)
(* pod has one image and one pull secret, and either runs its own image or  *)
(* was rewritten and has it in its annotation; time is counted in ticks up  *)
(* to the longest period that matters; the answers of a registry are        *)
(* "Available", or "InvalidAuth" when it refuses.                           *)
(* Left out: creation and deletion of the objects; a lagging cache of pods  *)
(* and specs; a failed List.                                                *)
(***************************************************************************)
EXTENDS Integers, FiniteSets

CONSTANTS
    Cisas, Images, Pods, Registries,
    RegistryOf,     \* RegistryOf[i]: the registry of image i
    Default,        \* monitoring.registries.default: a record over Settings
    Override,       \* monitoring.registries.items: such records, by registry
    Specs,          \* the specs users may write
    PodKinds,       \* what pods may be
    Private,        \* images a registry refuses without credentials
    Lagging,        \* the informer's cache lags
    Faults,         \* what may go wrong: "patch", "crash", "refusal"
    MaxFaults,      \* bound on how often patches fail and the manager restarts
    Legacy,         \* lists that earlier versions may have left
    Watched,        \* pairs of an object and an image whose last use is dated
    Timed,          \* registries whose last check is dated
    MaxAge          \* bound on ages: the longest tick or expiry

Unset == [interval |-> 0, maxPerInterval |-> 0, fallback |-> "unset"]
Settings == DOMAIN Unset

\* registryConfig: what the registry's own entry sets, over the default.
RegistryConfig(r) ==
    [f \in Settings |-> IF r \in DOMAIN Override /\ Override[r][f] # Unset[f]
                        THEN Override[r][f] ELSE Default[f]]

TickOf(r) == RegistryConfig(r).interval \div RegistryConfig(r).maxPerInterval

IsPartial(f, S, T) == DOMAIN f \subseteq S /\ f \in [DOMAIN f -> T]

SpecSet == [pods : SUBSET Pods, images : SUBSET Images,
            valid : {"yes", "pods", "images"},     \* or the filter that does not compile
            expiry : 0 .. MaxAge]
Pod == [image : Images, original : BOOLEAN, secret : {"none", "readable", "missing"}]

\* Ages of unusedSince: nil, an age, the marker of instant expiry. Ages of
\* lastMonitor: nil or an age.
InUse == -1
Marker == MaxAge + 1
Never == -1

Verdicts == {"Scheduled", "Available", "InvalidAuth", "UnavailableSecret"}
Entry == [since : InUse .. Marker, verdict : Verdicts, last : Never .. MaxAge, original : BOOLEAN]
IsList(l) == IsPartial(l, Images, Entry)

\* performCheck: whatever has the date of a check has the verdict of one.
Sane(e) == e.verdict = "Scheduled" => e.last = Never
AllSane(l) == \A i \in DOMAIN l : Sane(l[i])

ASSUME AvailabilityAssumption ==
    /\ RegistryOf \in [Images -> Registries]
    /\ \A r \in Registries : TickOf(r) \in 1 .. MaxAge
    /\ Specs \subseteq SpecSet /\ Specs # {}
    /\ PodKinds \subseteq Pod
    /\ Legacy # {} /\ \A list \in Legacy : IsList(list) /\ AllSane(list)
    /\ Lagging \in BOOLEAN
    /\ Watched \subseteq Cisas \X Images /\ Timed \subseteq Registries
    /\ MaxFaults \in Nat /\ MaxAge \in Nat

VARIABLES
    spec, status,   \* the objects at the API server; status[c] is status.images
    seen,           \* the statuses in the informer's cache
    pods,
    queued,         \* the work queue
    requeueIn,      \* ticks to a delayed requeue of each object, or Never
    faults,
    pc,             \* where Reconcile is
    me,             \* \ its request,
    mine,           \* | the list of its cisa, if it is to be patched,
    tracking,       \* | whether that list has images,
    listed,         \* | the pods its cisa selects,
    objs,           \* | the lists as they were read: its own, then all,
    cand,           \* | the candidates of registries not yet treated,
    job,            \* | the check to be recorded,
    requeue,        \* / minRequeueAfter
    backfillDue,    \* the backfill has not read the lists yet
    backfill,       \* the lists it has still to write, with those it read
    sinceCheck,     \* age of the last check of the Timed registries \ not in the
    idle,           \* age of the last use of the Watched images     | code: what
    outdated,       \* objects whose list was once read or written   | really
                    \* back when the server had a later one,         | happened
    behind          \* such objects as of the present reconcile       /

object == <<spec, status, seen>>
queue == <<queued, requeueIn>>
memory == <<pc, me, mine, tracking, listed, objs, cand, job, requeue>>
tasks == <<backfillDue, backfill>>
history == <<sinceCheck, idle, outdated, behind>>
vars == <<object, pods, queue, faults, memory, tasks, history>>

Nobody == CHOOSE c \in Cisas : TRUE
NoJob == << >>
Job == [cisa : Cisas, image : Images, entry : Entry, unreadable : BOOLEAN]

TypeOK ==
    /\ spec \in [Cisas -> SpecSet]
    /\ DOMAIN status = Cisas /\ \A c \in Cisas : IsList(status[c])
    /\ DOMAIN seen = Cisas /\ \A c \in Cisas : IsList(seen[c])
    /\ IsPartial(pods, Pods, Pod)
    /\ queued \subseteq Cisas
    /\ requeueIn \in [Cisas -> Never .. MaxAge]
    /\ faults \in 0 .. MaxFaults
    /\ pc \in {"idle", "patching", "listing", "checking", "recording"}
    /\ me \in Cisas \cup {Nobody}
    /\ pc # "idle" => me \in Cisas
    /\ IsList(mine)
    /\ tracking \in BOOLEAN
    /\ listed \subseteq Pod
    /\ DOMAIN objs \subseteq Cisas /\ \A c \in DOMAIN objs : IsList(objs[c])
    /\ IsPartial(cand, Registries, [cisa : Cisas, image : Images, age : 0 .. MaxAge])
    /\ job \in {NoJob} \cup Job
    /\ pc = "recording" <=> job # NoJob
    /\ requeue \in Never .. MaxAge
    /\ backfillDue \in BOOLEAN
    /\ DOMAIN backfill \subseteq Cisas
    /\ \A c \in DOMAIN backfill :
           backfill[c] = [old |-> backfill[c].old, new |-> backfill[c].new]
           /\ IsList(backfill[c].old) /\ IsList(backfill[c].new)
    /\ sinceCheck \in [Timed -> 0 .. MaxAge]
    /\ idle \in [Watched -> 0 .. MaxAge]
    /\ outdated \subseteq Cisas /\ behind \subseteq Cisas

Forgotten ==
    /\ pc' = "idle" /\ me' = Nobody /\ mine' = << >> /\ tracking' = FALSE /\ listed' = {}
    /\ objs' = << >> /\ cand' = << >> /\ job' = NoJob /\ requeue' = Never
    /\ behind' = {}

Init ==
    /\ spec \in [Cisas -> Specs]
    /\ status \in [Cisas -> Legacy] /\ seen = status
    /\ pods = << >>
    /\ queued = Cisas
    /\ requeueIn = [c \in Cisas |-> Never]
    /\ faults = 0
    /\ pc = "idle" /\ me = Nobody /\ mine = << >> /\ tracking = FALSE /\ listed = {}
    /\ objs = << >> /\ cand = << >> /\ job = NoJob /\ requeue = Never
    /\ backfillDue = TRUE /\ backfill = << >>
    /\ sinceCheck = [r \in Timed |-> MaxAge]
    /\ idle = [w \in Watched |-> MaxAge]
    /\ outdated = {} /\ behind = {}

Fault(kind) == kind \in Faults /\ faults < MaxFaults /\ faults' = faults + 1

\* A status patch: the list as a whole, whatever is there by now. (There is
\* always something to patch: Begin and BackfillList see to that, and the time
\* of a check is new.)
Write(c, old, new) ==
    /\ status' = [status EXCEPT ![c] = new]
    /\ seen' \in (IF Lagging THEN {seen} ELSE {}) \cup {status'}
    /\ LET late == IF status[c] # old THEN {c} ELSE {}
       IN outdated' = outdated \cup late /\ behind' = behind \cup late
-----------------------------------------------------------------------------
(* Users, the cluster, the clock. *)

\* A change of the spec bumps the generation, which the predicate lets through.
EditSpec(c) ==
    /\ \E s \in Specs \ {spec[c]} : spec' = [spec EXCEPT ![c] = s]
    /\ queued' = queued \cup {c}
    /\ UNCHANGED <<status, seen, pods, requeueIn, faults, memory, tasks, history>>

\* The pod-mapper: the objects that select the pod and its image.
Mapped(p, pod) == {c \in Cisas : /\ spec[c].valid = "yes"
                                 /\ p \in spec[c].pods /\ pod.image \in spec[c].images}

AddPod(p) ==
    /\ p \notin DOMAIN pods
    /\ \E pod \in PodKinds :
           /\ pods' = [q \in DOMAIN pods \cup {p} |-> IF q = p THEN pod ELSE pods[q]]
           /\ queued' = queued \cup Mapped(p, pod)
    /\ UNCHANGED <<object, requeueIn, faults, memory, tasks, history>>

RemovePod(p) ==
    /\ p \in DOMAIN pods
    /\ pods' = [q \in DOMAIN pods \ {p} |-> pods[q]]
    /\ queued' = queued \cup Mapped(p, pods[p])
    /\ UNCHANGED <<object, requeueIn, faults, memory, tasks, history>>

Older(a) == IF a \in 0 .. MaxAge - 1 THEN a + 1 ELSE a
AgedEntry(e) == [e EXCEPT !.since = Older(@), !.last = Older(@)]
Aged(list) == [i \in DOMAIN list |-> AgedEntry(list[i])]
Sooner(t) == IF t > 0 THEN t - 1 ELSE t

\* A pod runs, in the eyes of c: it is there while nothing is left to do, and
\* the filter compiles.
Runs(c, i) == /\ pc = "idle" /\ c \notin queued /\ spec[c].valid = "yes"
              /\ \E p \in spec[c].pods \cap DOMAIN pods : pods[p].image = i

\* Time that counts passes while the worker is idle or waits for a registry, not
\* while the API server is called. A cache that lags catches up within a tick.
Tick ==
    /\ pc \in {"idle", "recording"} /\ backfill = << >>
    /\ status' = [c \in Cisas |-> Aged(status[c])] /\ seen' = status'
    /\ objs' = [c \in DOMAIN objs |-> Aged(objs[c])]
    /\ cand' = [r \in DOMAIN cand |-> [cand[r] EXCEPT !.age = Older(@)]]
    /\ job' = IF job = NoJob THEN job ELSE [job EXCEPT !.entry = AgedEntry(@)]
    /\ requeueIn' = [c \in Cisas |-> Sooner(requeueIn[c])]
    /\ sinceCheck' = [r \in Timed |-> Older(sinceCheck[r])]
    /\ idle' = [w \in Watched |-> IF Runs(w[1], w[2]) THEN 0 ELSE Older(idle[w])]
    /\ UNCHANGED <<spec, pods, queued, faults, pc, me, mine, tracking, listed, requeue,
                   tasks, outdated, behind>>

Wake(c) ==
    /\ requeueIn[c] = 0
    /\ requeueIn' = [requeueIn EXCEPT ![c] = Never]
    /\ queued' = queued \cup {c}
    /\ UNCHANGED <<object, pods, faults, memory, tasks, history>>
-----------------------------------------------------------------------------
(* How Reconcile ends. *)

Earlier(a, b) == IF a = Never THEN b ELSE IF b = Never THEN a ELSE IF a < b THEN a ELSE b

EndAndRequeueAfter(delay) ==
    /\ Forgotten
    /\ requeueIn' = [requeueIn EXCEPT ![me] = Earlier(@, delay)]
    /\ UNCHANGED queued

\* An error, or Requeue: the request goes back to the queue (with a back-off).
EndAndRequeue ==
    /\ Forgotten
    /\ queued' = queued \cup {me}
    /\ UNCHANGED requeueIn

\* The manager stops, and starts again with every object in the queue and a
\* new cache.
Crash ==
    /\ Fault("crash")
    /\ Forgotten
    /\ queued' = Cisas
    /\ requeueIn' = [c \in Cisas |-> Never]
    /\ seen' = status
    /\ backfillDue' = TRUE /\ backfill' = << >>
    /\ UNCHANGED <<spec, status, pods, sinceCheck, idle, outdated>>
-----------------------------------------------------------------------------
(* Reconcile: the list of monitored images follows the pods. *)

Used(s, ps) == {pod.image : pod \in ps} \cap s.images

\* The loop over the list: what becomes of unusedSince. Mutant: an image is out
\* with its last pod.
MarkAtOnce(s, ps, i, e) ==
    IF i \notin s.images THEN Marker ELSE IF i \in Used(s, ps) THEN InUse ELSE Marker
UnusedSince(s, ps, i, e) ==
    IF i \notin s.images THEN Marker
    ELSE IF i \in Used(s, ps) THEN InUse
    ELSE IF e.verdict = "Scheduled" THEN Marker
    ELSE IF e.since = InUse THEN 0
    ELSE e.since

Expired(s, since) == s.expiry > 0 /\ (since = Marker \/ since >= s.expiry)

\* syncImageList. A new pointer counts as a change, so a Scheduled image that is
\* unused always does; the removal of one that was marked before does not.
Kept(s, ps, list) ==
    {i \in DOMAIN list : ~Expired(s, UnusedSince(s, ps, i, list[i]))}
Changed(s, ps, list) ==
    \/ Used(s, ps) \ DOMAIN list # {}
    \/ \E i \in DOMAIN list :
           LET now == UnusedSince(s, ps, i, list[i])
           IN \/ now # list[i].since
              \/ i \in s.images /\ i \notin Used(s, ps) /\ list[i].verdict = "Scheduled"
              \/ Expired(s, now) /\ now # Marker

\* normalizedImageNamesMapFromAnnotatedPod: of pods that disagree the last wins.
Marks(ps) == {m \in [{pod.image : pod \in ps} -> BOOLEAN] :
                 \A i \in DOMAIN m : \E pod \in ps : pod.image = i /\ pod.original = m[i]}

SyncImageList(s, ps, list, marks) ==
    [i \in Kept(s, ps, list) \cup Used(s, ps) |->
        IF i \in DOMAIN list
        THEN [list[i] EXCEPT !.since = UnusedSince(s, ps, i, list[i])]
        ELSE [since |-> InUse, verdict |-> "Scheduled", last |-> Never, original |-> marks[i]]]

\* Get and List, from the cache. A pod filter that does not compile ends the
\* reconcile; an image filter that does not leaves the list as it is.
Begin(c) ==
    /\ pc = "idle" /\ c \in queued
    /\ queued' = queued \ {c}
    /\ LET s == spec[c]
           ps == {pods[p] : p \in s.pods \cap DOMAIN pods}
       IN IF s.valid = "pods" THEN UNCHANGED memory
          ELSE /\ me' = c
               /\ listed' = ps
               /\ \E marks \in Marks(ps) :
                      LET list == IF s.valid = "images" THEN seen[c]
                                  ELSE SyncImageList(s, ps, seen[c], marks)
                          toPatch == s.valid = "yes" /\ Changed(s, ps, seen[c]) /\ list # seen[c]
                      IN /\ pc' = IF toPatch THEN "patching" ELSE "listing"
                         /\ mine' = IF toPatch THEN list ELSE << >>
                         /\ objs' = IF toPatch THEN [o \in {c} |-> seen[c]] ELSE << >>
                         /\ tracking' = (~toPatch /\ list # << >>)
               /\ UNCHANGED <<cand, job, requeue>>
    /\ outdated' = IF seen[c] # status[c] THEN outdated \cup {c} ELSE outdated
    /\ UNCHANGED <<object, pods, requeueIn, faults, tasks, sinceCheck, idle, behind>>

\* The patch of the list; cisa is then what the API server answered.
PatchList ==
    /\ pc = "patching"
    /\ \/ /\ Write(me, objs[me], mine)
          /\ mine' = << >> /\ tracking' = (status'[me] # << >>)
          /\ pc' = "listing" /\ objs' = << >>
          /\ UNCHANGED <<queue, faults, me, listed, cand, job, requeue>>
       \/ /\ Fault("patch")
          /\ EndAndRequeue
          /\ UNCHANGED <<status, seen, outdated>>
    /\ UNCHANGED <<spec, pods, tasks, sinceCheck, idle>>
-----------------------------------------------------------------------------
(* Reconcile: one check per registry, for all objects. *)

Entries(lists, r) ==
    {ci \in (DOMAIN lists) \X Images : ci[2] \in DOMAIN lists[ci[1]] /\ RegistryOf[ci[2]] = r}

\* The image never checked or checked longest ago; of equal ones the list
\* decides.
MostOverdue(lists, r) ==
    LET Last(ci) == lists[ci[1]][ci[2]].last
    IN {ci \in Entries(lists, r) :
            \/ Last(ci) = Never
            \/ \A other \in Entries(lists, r) : Last(other) # Never /\ Last(other) <= Last(ci)}

\* registryLastMonitor, as an age. Mutants: that of the candidate; no date, no
\* age.
NoAge(lists, r) ==
    LET ages == {lists[ci[1]][ci[2]].last : ci \in Entries(lists, r)} \ {Never}
    IN IF ages = {} THEN Never ELSE CHOOSE a \in ages : \A b \in ages : a <= b
CandidateAge(lists, r) ==
    LET c == CHOOSE ci \in MostOverdue(lists, r) : TRUE
    IN IF lists[c[1]][c[2]].last = Never THEN MaxAge ELSE lists[c[1]][c[2]].last
RegistryAge(lists, r) ==
    LET ages == {lists[ci[1]][ci[2]].last : ci \in Entries(lists, r)} \ {Never}
    IN IF ages = {} THEN MaxAge ELSE CHOOSE a \in ages : \A b \in ages : a <= b

\* monitoringCandidatesByRegistry, on the cache.
FindCandidates ==
    /\ pc = "listing"
    /\ objs' = [c \in {d \in Cisas : spec[d].valid = "yes"} |-> seen[c]]
    /\ LET found == {r \in Registries : Entries(objs', r) # {}}
       IN \E pick \in [found -> Cisas \X Images] :
              /\ \A r \in found : pick[r] \in MostOverdue(objs', r)
              /\ cand' = [r \in found |-> [cisa |-> pick[r][1], image |-> pick[r][2],
                                           age |-> RegistryAge(objs', r)]]
    /\ pc' = "checking"
    /\ behind' = {c \in Cisas : seen[c] # status[c]}
    /\ UNCHANGED <<object, pods, queue, faults, me, mine, tracking, listed, job, requeue, tasks,
                   sinceCheck, idle, outdated>>

Due(r) == cand[r].age >= TickOf(r)
Done(r) == cand' = [q \in DOMAIN cand \ {r} |-> cand[q]]

\* checkNextForRegistry: the interval has not elapsed.
Postpone(r) ==
    /\ pc = "checking" /\ r \in DOMAIN cand
    /\ ~Due(r)
    /\ requeue' = Earlier(requeue, TickOf(r) - cand[r].age)
    /\ Done(r)
    /\ UNCHANGED <<object, pods, queue, faults, pc, me, mine, tracking, listed, objs, job, tasks, history>>

\* resolveCredentials: the first pod, of those the reconciled object selects,
\* whose secret can be read, or else the fallback.
Credentials(r, i) ==
    LET secrets == {pod.secret : pod \in {q \in listed : q.image = i}} \ {"none"}
        fallback == RegistryConfig(r).fallback
    IN IF "readable" \in secrets \/ fallback = "readable" THEN "some"
       ELSE IF fallback = "missing" \/ secrets # {} THEN "error"
       ELSE "none"

Answers(i, credentials) ==
    IF i \in Private /\ credentials # "some" THEN {"InvalidAuth"}
    ELSE {"Available"} \cup (IF "refusal" \in Faults THEN {"InvalidAuth"} ELSE {})

\* performCheck: UnavailableSecret takes precedence over InvalidAuth, be it of
\* this check or of an earlier one.
Checked(e, unreadable, answer) ==
    LET before == IF unreadable THEN "UnavailableSecret" ELSE e.verdict
    IN [e EXCEPT !.last = 0,
                 !.verdict = IF before = "UnavailableSecret" /\ answer = "InvalidAuth"
                             THEN before ELSE answer]

\* The image is still there: between the list and the check an object changes
\* only by the answer to a patch, which is the list that was sent.
Probe(r) ==
    /\ pc = "checking" /\ r \in DOMAIN cand
    /\ Due(r)
    /\ LET c == cand[r].cisa
           i == cand[r].image
           credentials == Credentials(r, i)
       IN \E answer \in Answers(i, credentials) :
              job' = [cisa |-> c, image |-> i, unreadable |-> credentials = "error",
                      entry |-> Checked(objs[c][i], credentials = "error", answer)]
    /\ Done(r)
    /\ pc' = "recording"
    /\ sinceCheck' = [q \in Timed |-> IF q = r THEN 0 ELSE sinceCheck[q]]
    /\ UNCHANGED <<object, pods, queue, faults, me, mine, tracking, listed, objs, requeue, tasks,
                   idle, outdated, behind>>

\* The patch of the result: the whole list, as of the cache, with one entry new.
Record ==
    /\ pc = "recording"
    /\ LET c == job.cisa
       IN \/ /\ Write(c, objs[c], [objs[c] EXCEPT ![job.image] = job.entry])
             /\ objs' = [objs EXCEPT ![c] = status'[c]]
             /\ requeue' = Earlier(requeue, TickOf(RegistryOf[job.image]))
             /\ job' = NoJob
             /\ pc' = "checking"
             /\ UNCHANGED <<queue, faults, me, mine, tracking, listed, cand>>
          \/ /\ Fault("patch")
             /\ EndAndRequeue
             /\ UNCHANGED <<status, seen, outdated>>
    /\ UNCHANGED <<spec, pods, tasks, sinceCheck, idle>>

\* Mutant: the next reconcile is left to events.
FinishForGood ==
    /\ pc = "checking" /\ cand = << >>
    /\ EndAndRequeueAfter(Never)
    /\ UNCHANGED <<object, pods, faults, tasks, sinceCheck, idle, outdated>>
\* With nothing to wait for though the list is not empty, the cache must be
\* stale: try again.
Finish ==
    /\ pc = "checking" /\ cand = << >>
    /\ IF requeue = Never /\ tracking THEN EndAndRequeue ELSE EndAndRequeueAfter(requeue)
    /\ UNCHANGED <<object, pods, faults, tasks, sinceCheck, idle, outdated>>
-----------------------------------------------------------------------------
(* BackfillOriginalField, once after every start, beside the controller. *)

Marked(list) ==
    [i \in DOMAIN list |->
        [list[i] EXCEPT !.original = @ \/ \E p \in DOMAIN pods : pods[p].image = i /\ pods[p].original]]

BackfillList ==
    /\ backfillDue
    /\ backfillDue' = FALSE
    /\ backfill' = [c \in {d \in Cisas : Marked(seen[d]) # seen[d]} |->
                       [old |-> seen[c], new |-> Marked(seen[c])]]
    /\ UNCHANGED <<object, pods, queue, faults, memory, history>>

\* A failed patch is logged; the next object follows.
BackfillPatch(c) ==
    /\ c \in DOMAIN backfill
    /\ \/ Write(c, backfill[c].old, backfill[c].new) /\ UNCHANGED faults
       \/ Fault("patch") /\ UNCHANGED <<status, seen, outdated, behind>>
    /\ backfill' = [d \in DOMAIN backfill \ {c} |-> backfill[d]]
    /\ UNCHANGED <<spec, pods, queue, memory, backfillDue, sinceCheck, idle>>
-----------------------------------------------------------------------------
Work == \/ PatchList \/ FindCandidates \/ Record \/ Finish
        \/ \E r \in Registries : Postpone(r) \/ Probe(r)

Backfill == BackfillList \/ \E c \in Cisas : BackfillPatch(c)

Users == \/ \E c \in Cisas : EditSpec(c)
         \/ \E p \in Pods : AddPod(p) \/ RemovePod(p)

Act == Users \/ Backfill \/ Work \/ Crash \/ \E c \in Cisas : Begin(c) \/ Wake(c)
Next == Tick \/ Act

Spec == Init /\ [][Next]_vars

\* Time passes, timers fire, the worker and the backfill work,
\* and the queue is first in, first out, so that no object in it waits for ever.
FairSpec == /\ Spec
            /\ SF_vars(Tick) /\ WF_vars(Work) /\ WF_vars(Backfill)
            /\ \A c \in Cisas : WF_vars(Wake(c)) /\ SF_vars(Begin(c))
-----------------------------------------------------------------------------
Asks(r) == pc = "checking" /\ pc' = "recording" /\ RegistryOf[job'.image] = r

\* docs/configuration.md:170, maxPerInterval: a registry is not asked again
\* within interval / maxPerInterval of the last check, by whichever object and
\* about whichever image, as long as some list at the API server has the date of
\* that check. A failed patch or a restart before it may lose the date. So may a
\* list that reconcile read from a cache that was behind, its own last patch
\* missing, or that an outdated patch took back after it had read it: the
\* reconcile after a check may ask the registry again in the same tick.
Remembered(r) == \E ci \in Entries([c \in DOMAIN objs \ behind |-> status[c]], r) :
                     status[ci[1]][ci[2]].last = sinceCheck[r]
RegistryIsSpared ==
    [][\A r \in Timed : Asks(r) /\ Remembered(r) => sinceCheck[r] >= TickOf(r)]_vars

\* A reconcile takes an image off the list only if the filter does not select
\* it, or no pod uses it and it was never checked, or no pod ran it for the whole
\* expiry, or it still bears the mark of an earlier exclusion; whatever restarts,
\* edits and failed patches came in between. (Once a list was read from a cache
\* that was behind, a use of its images may have been missed.)
DroppedAfterExpiry ==
    [][\A w \in Watched :
           LET c == w[1]
               i == w[2]
           IN (pc = "idle" /\ pc' = "patching" /\ me' = c /\ c \notin outdated'
                   /\ i \in DOMAIN status[c] \ DOMAIN mine')
              => \/ i \notin spec[c].images
                 \/ i \notin Used(spec[c], listed') /\ status[c][i].last = Never
                 \/ idle[w] >= spec[c].expiry
                 \/ status[c][i].since = Marker]_vars

Wanted(c, i) == /\ spec[c].valid = "yes" /\ i \in spec[c].images
                /\ \E p \in spec[c].pods \cap DOMAIN pods : pods[p].image = i

\* Users may go on for ever; only when they do not is anything promised, since
\* an image that comes new goes before those that wait.
UsersRest == <>[][UNCHANGED <<spec, pods>>]_vars

\* docs/crds.md:164-165: an image that the filter selects and a pod uses gets
\* onto the list and is checked, and stays there.
WantedIsMonitored ==
    UsersRest => \A c \in Cisas, i \in Images :
        <>[](Wanted(c, i) => i \in DOMAIN status[c] /\ status[c][i].last # Never)

\* docs/crds.md:166: an image that nobody uses, or that the filter no longer
\* selects, is dropped in the end (unless an outdated list put it back), but for
\* one that a filter excluded while its object kept unused images for ever: it
\* bears the mark of instant expiry, and its removal sends no patch.
Unwanted(c, i) == /\ spec[c].valid = "yes" /\ spec[c].expiry > 0 /\ ~Wanted(c, i)
                  /\ c \notin outdated
UnmarkedIsDropped ==
    UsersRest => \A c \in Cisas, i \in Images :
        \/ <>[](Unwanted(c, i) => i \notin DOMAIN status[c])
        \/ /\ <>(spec[c].expiry = 0)
           /\ <>[](Unwanted(c, i) /\ i \in DOMAIN status[c] => status[c][i].since = Marker)
=============================================================================
