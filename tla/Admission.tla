------------------------------ MODULE Admission ------------------------------
(***************************************************************************)
(* internal/webhook/core/v1/pod_webhook.go: admissions of pods that run at  *)
(* the same time and share two caches, a single-flight group and the copies *)
(* of pull secrets they write; and secretowner_controller.go, which removes *)
(* those copies once the resource they come from is deleted.                *)
(*                                                                          *)
(* The list of alternatives of an image is that of Alternatives.tla, the    *)
(* choice among them what OrderedChoice.tla promises. The probes run on     *)
(* behind an admission that has its answer, up to its end: then its request *)
(* is over, and with it the context of the probes.                          *)
(*                                                                          *)
(* Abstracted: a reference is available, always or at times; it may want    *)
(* the credentials of its alternative; a resource has one credentialSecret; *)
(* its copies are pairs of a namespace and the resource. The probes of a    *)
(* list start at once; a cache is read and a flight joined in one step.     *)
(* Left out: dry runs; the pods' own pull secrets; updates of pods; the     *)
(* clearing of a stale mirroredAt (MirrorReconciler.tla); changes of source *)
(* secrets.                                                                 *)
(***************************************************************************)
EXTENDS Alternatives

CONSTANTS
    Slots,          \* a slot has one pod at a time, of always the same template:
    NamespaceOf,    \* its namespace,
    Containers,     \* its images, normalised,
    Mirrors, Replicas,  \* the resources in the order of the lists, cluster-scoped
                    \* ones first
    Home,           \* the namespaces of the others
    Locked,         \* references that want the credentials of the alternative
    Unsteady,       \* references that are not always available
    Faults,         \* what may go wrong: "secret", "api", "timeout", "crash"
    MaxFaults,      \* bound on how often
    MaxPods,        \* bound on the pods that come
    Kept, Absent, Nobody

Images == UNION {ToSet(Containers[p]) : p \in Slots}
Namespaces == {NamespaceOf[p] : p \in Slots}
Named(sets) == {s.name : s \in ToSet(sets)}
Owners == Named(Mirrors) \cup Named(Replicas)
InScope(o, ns) == o \in DOMAIN Home => Home[o] = ns

\* SecretOwnerReconciler is registered for cluster-scoped resources only.
Swept == Owners \ DOMAIN Home

\* buildAlternativesList, for all that may be listed, and what it may list.
Those(sets, names) == Only(sets, {k \in DOMAIN sets : sets[k].name \in names})
Lists ==
    {[listed |-> names, image |-> i,
      list |-> AlternativesList(Those(Mirrors, names), Those(Replicas, names), i, FALSE)] :
        names \in SUBSET Owners, i \in Images}
References == {o.reference : o \in UNION {ToSet(l.list) : l \in Lists}}

ASSUME AdmissionAssumption ==
    /\ MinInt \in Int
    /\ IsSequence(Mirrors) /\ \A s \in ToSet(Mirrors) : IsMirrorSet(s)
    /\ IsSequence(Replicas) /\ \A s \in ToSet(Replicas) : IsReplicatedSet(s)
    /\ \A p \in Slots : Containers[p] \in Seq(ToSet(Containers[p])) \ {<< >>}
    /\ DOMAIN Home \subseteq Owners
    /\ Locked \subseteq References /\ Unsteady \subseteq References
    /\ MaxFaults \in Nat /\ MaxPods \in Nat

VARIABLES
    adm,            \* the admissions, and the pods they made
    altCache,       \* alternativeCache, by image
    checkCache,     \* checkCache, by reference
    probe,          \* the flights "availability:": whose, with what
    owner,          \* the resources: "new", "kept" (has the finalizer),
                    \* "deleting", "gone"
    sweep,          \* CleanupOwnedSecrets: where copies are still to be deleted
    copies,         \* copies of pull secrets, as <<namespace, owner>>
    seen,           \* those in the informer's cache
    late,           \* copies that no sweep of their owner has seen, of those it
                    \* may miss (not in the code)
    faults,
    arrived         \* pods so far

caches == <<altCache, checkCache>>
resources == <<owner, sweep>>
secrets == <<copies, seen, late>>
vars == <<adm, caches, probe, resources, secrets, faults, arrived>>

\* defaultPod, container by container: "choose", then "load" and "probe" in the
\* flight "alternative:" of its image or "follow" behind that of another, then
\* "ensure", "create" or "update" of the copy. Then the pod "runs" or is
\* "denied".
InProgress == {"choose", "load", "probe", "follow", "ensure", "create", "update"}
Nothing == [at |-> "none", listed |-> {}, todo |-> << >>, given |-> << >>, list |-> << >>,
            outcome |-> << >>, pick |-> Kept, gone |-> FALSE]

\* Only the original has no resource behind it, and it has no secret.
AreOffers(S) == \A o \in S : /\ DOMAIN o = DOMAIN OriginalOffer(<< >>, FALSE)
                             /\ o.reference \in References /\ o.set \in Owners \cup {NoSet}
                             /\ o.secret # NoSecret => o.set \in Owners
NoFlight == << >>

TypeOK ==
    /\ DOMAIN adm = Slots
    /\ \A p \in Slots :
           LET a == adm[p]
           IN  /\ DOMAIN a = DOMAIN Nothing
               /\ a.at \in InProgress \cup {"none", "runs", "denied"}
               /\ a.listed \subseteq Owners
               /\ a.at \in InProgress => Len(a.given) + Len(a.todo) = Len(Containers[p])
               /\ a.at = "runs" => Len(a.given) = Len(Containers[p])
               /\ AreOffers((ToSet(a.given) \cup {a.pick}) \ {Kept})
               /\ AreOffers(ToSet(a.list))
               /\ a.outcome \in [0 .. Cardinality(DOMAIN a.outcome) - 1 -> {"unknown", "value", "error"}]
               /\ a.gone \in BOOLEAN
    /\ DOMAIN altCache = Images
    /\ AreOffers({altCache[i] : i \in Images} \ {Kept, Absent})
    /\ checkCache \in [References -> {"unknown", "value", "error"}]
    /\ DOMAIN probe = References
    /\ \A r \in References : probe[r] # NoFlight =>
           /\ probe[r] \in [by : Slots \cup {Nobody}, keyed : BOOLEAN]
           /\ probe[r].by # Nobody => adm[probe[r].by].at \in InProgress
    /\ owner \in [Owners -> {"new", "kept", "deleting", "gone"}]
    /\ DOMAIN sweep \subseteq Swept /\ \A o \in DOMAIN sweep : sweep[o] \subseteq Namespaces
    /\ copies \cup seen \subseteq Namespaces \X Owners
    /\ late \subseteq Namespaces \X Owners
    /\ faults \in 0 .. MaxFaults /\ arrived \in 0 .. MaxPods

Init ==
    /\ adm = [p \in Slots |-> Nothing]
    /\ altCache = [i \in Images |-> Absent]
    /\ checkCache = [r \in References |-> "unknown"]
    /\ probe = [r \in References |-> NoFlight]
    /\ owner = [o \in Owners |-> "new"]
    /\ sweep = << >>
    /\ copies = {} /\ seen = {} /\ late = {}
    /\ faults = 0 /\ arrived = 0

Fault(kind) == kind \in Faults /\ faults < MaxFaults /\ faults' = faults + 1
-----------------------------------------------------------------------------
(* How a container, and with the last one an admission, ends. *)

\* failurePolicy: Ignore. Whatever the handler answers to a request that is
\* over, the pod is created as it was.
Unmodified(p) == [Nothing EXCEPT !.at = "runs", !.given = [k \in DOMAIN Containers[p] |-> Kept]]
Admitted(p, a) == IF a.gone THEN Unmodified(p) ELSE [Nothing EXCEPT !.at = "runs", !.given = a.given]
Denied(p, a) == IF a.gone THEN Unmodified(p) ELSE [Nothing EXCEPT !.at = "denied"]

\* On to the next container.
Advance(p, a, alternative) ==
    LET b == [a EXCEPT !.given = Append(@, alternative), !.todo = Tail(@), !.list = << >>,
                       !.outcome = << >>, !.pick = Kept, !.at = "choose"]
    IN  IF b.todo = << >> THEN Admitted(p, b) ELSE b

\* What the container gets: itself, if there is nothing better or it is the best
\* itself; an alternative, whose secret is to be copied unless it is in the
\* namespace of the pod.
Given(p, a, alternative) ==
    IF alternative = Kept \/ alternative.reference = Head(a.todo) THEN Advance(p, a, Kept)
    ELSE IF alternative.secret \in {NoSecret, NamespaceOf[p]} THEN Advance(p, a, alternative)
    ELSE [a EXCEPT !.at = "ensure", !.pick = alternative, !.list = << >>, !.outcome = << >>]

\* The context of the probes is that of the request. Mutant: it is their own.
KeepProbes == UNCHANGED probe
CancelProbes ==
    LET Over(p) == adm'[p].at \notin InProgress \/ adm'[p].gone
    IN  probe' = [r \in References |->
                     IF probe[r] # NoFlight /\ \E p \in Slots : probe[r].by = p /\ Over(p)
                     THEN [probe[r] EXCEPT !.by = Nobody] ELSE probe[r]]
-----------------------------------------------------------------------------
(* The admission of a pod. *)

\* A resource that is being deleted is listed as well.
Review(p) ==
    /\ adm[p].at = "none"
    /\ arrived < MaxPods /\ arrived' = arrived + 1
    /\ adm' = [adm EXCEPT ![p] = [Nothing EXCEPT
                   !.at = "choose", !.todo = Containers[p],
                   !.listed = {o \in Owners : owner[o] # "gone" /\ InScope(o, NamespaceOf[p])}]]
    /\ UNCHANGED <<caches, probe, resources, secrets, faults>>

\* findBestAlternativeCached. Mutant: what comes from the cache is taken to have
\* its secret already.
CachedAsIs(p) ==
    /\ adm[p].at = "choose"
    /\ LET i == Head(adm[p].todo)
       IN  /\ altCache[i] # Absent
           /\ adm' = [adm EXCEPT ![p] = Advance(p, @, altCache[i])]
    /\ CancelProbes
    /\ UNCHANGED <<caches, resources, secrets, faults, arrived>>
UseCached(p) ==
    /\ adm[p].at = "choose"
    /\ LET i == Head(adm[p].todo)
       IN  /\ altCache[i] # Absent
           /\ adm' = [adm EXCEPT ![p] = Given(p, @, altCache[i])]
    /\ CancelProbes
    /\ UNCHANGED <<caches, resources, secrets, faults, arrived>>

Leads(p, i) == adm[p].at \in {"load", "probe"} /\ Head(adm[p].todo) = i
Follows(p, i) == adm[p].at = "follow" /\ Head(adm[p].todo) = i

\* Who has the result of p's flight. Mutant: p alone.
Alone(p) == {p}
Served(p) == {p} \cup {q \in Slots : Follows(q, Head(adm[p].todo))}

\* The flight is keyed by the image alone: of whatever namespace its leader is.
Follow(p) ==
    /\ adm[p].at = "choose"
    /\ LET i == Head(adm[p].todo)
       IN  altCache[i] = Absent /\ \E q \in Slots : Leads(q, i)
    /\ adm' = [adm EXCEPT ![p].at = "follow"]
    /\ UNCHANGED <<caches, probe, resources, secrets, faults, arrived>>

Lead(p) ==
    /\ adm[p].at = "choose"
    /\ \E l \in Lists :
           /\ l.listed = adm[p].listed /\ l.image = Head(adm[p].todo)
           /\ altCache[l.image] = Absent /\ ~\E q \in Slots : Leads(q, l.image)
           /\ adm' = [adm EXCEPT ![p].at = "load", ![p].list = l.list]
    /\ UNCHANGED <<caches, probe, resources, secrets, faults, arrived>>

\* loadAlternativesSecrets: one missing secret fails the flight, for all.
SecretMissing(p) ==
    /\ adm[p].at = "load"
    /\ \E o \in ToSet(adm[p].list) : o.secret # NoSecret
    /\ Fault("secret")
    /\ adm' = [q \in Slots |-> IF q \in Served(p) THEN Denied(q, adm[q]) ELSE adm[q]]
    /\ CancelProbes
    /\ UNCHANGED <<caches, resources, secrets, arrived>>

\* findBestAlternative, with more than one candidate: of each the cache knows, or
\* a flight is under way, or one begins.
StartProbes(p) ==
    /\ adm[p].at = "load"
    /\ LET list == adm[p].list
           Of(r) == {o \in ToSet(list) : o.reference = r}
       IN  IF Len(list) <= 1
           THEN /\ adm' = [adm EXCEPT ![p].at = "probe"]
                /\ UNCHANGED probe
           ELSE /\ adm' = [adm EXCEPT ![p].at = "probe",
                              ![p].outcome = [k \in 0 .. Len(list) - 1 |-> checkCache[list[k + 1].reference]]]
                /\ probe' = [r \in References |->
                       IF Of(r) # {} /\ checkCache[r] = "unknown" /\ probe[r] = NoFlight
                       THEN [by |-> IF adm[p].gone THEN Nobody ELSE p,
                             keyed |-> \E o \in Of(r) : o.secret # NoSecret]
                       ELSE probe[r]]
    /\ UNCHANGED <<caches, resources, secrets, faults, arrived>>

\* The end of a flight: everyone who waits for it has the outcome, with whatever
\* credentials and for as long as its first caller asked.
Fails(r) == probe[r].by = Nobody \/ (r \in Locked /\ ~probe[r].keyed)
Answer(r) ==
    /\ probe[r] # NoFlight
    /\ \E result \in {"value", "error"} :
           /\ IF Fails(r) THEN result = "error" ELSE result = "value" \/ r \in Unsteady
           /\ checkCache' = [checkCache EXCEPT ![r] = result]
           /\ adm' = [p \in Slots |-> [adm[p] EXCEPT !.outcome = [k \in DOMAIN @ |->
                         IF @[k] = "unknown" /\ adm[p].list[k + 1].reference = r
                         THEN result ELSE @[k]]]]
    /\ probe' = [probe EXCEPT ![r] = NoFlight]
    /\ UNCHANGED <<altCache, resources, secrets, faults, arrived>>

\* What FirstSuccessful promises for a list of n.
Choice(n, p) == INSTANCE OrderedChoice
                    WITH N <- n, outcome <- adm[p].outcome, answer <- n + 1
Chosen(p, result) ==
    \E n \in 0 .. Cardinality(References) :
        /\ n = Cardinality(DOMAIN adm[p].outcome)
        /\ \/ result = Kept /\ Choice(n, p)!NoneSucceeded
           \/ \E k \in 0 .. n - 1 : Choice(n, p)!Best(k) /\ result = adm[p].list[k + 1]

\* The flight "alternative:" ends: the result is cached, and for all who wait.
Conclude(p) ==
    /\ adm[p].at = "probe"
    /\ \E result \in ToSet(adm[p].list) \cup {Kept} :
           /\ Chosen(p, result)
           /\ altCache' = [altCache EXCEPT ![Head(adm[p].todo)] = result]
           /\ adm' = [q \in Slots |-> IF q \in Served(p) THEN Given(q, adm[q], result) ELSE adm[q]]
    /\ CancelProbes
    /\ UNCHANGED <<checkCache, resources, secrets, faults, arrived>>

\* ensureSecret and CreateOrUpdate: a copy in the informer's cache will do (its
\* contents are the same), else it is created.
GetCopy(p) ==
    /\ adm[p].at = "ensure"
    /\ LET copy == <<NamespaceOf[p], adm[p].pick.set>>
       IN  adm' = [adm EXCEPT ![p] = IF copy \in seen THEN Advance(p, @, @.pick)
                                     ELSE [@ EXCEPT !.at = "create"]]
    /\ CancelProbes
    /\ UNCHANGED <<caches, resources, secrets, faults, arrived>>

\* AlreadyExists is an error like any other; a request that is over fails.
CreateCopy(p) ==
    /\ adm[p].at = "create"
    /\ LET o == adm[p].pick.set
           copy == <<NamespaceOf[p], o>>
       IN  \/ /\ copy \notin copies /\ ~adm[p].gone
              /\ copies' = copies \cup {copy}
              /\ late' = IF owner[o] = "kept" THEN late ELSE late \cup {copy}
              /\ adm' = [adm EXCEPT ![p] = Advance(p, @, @.pick)]
              /\ UNCHANGED faults
           \/ /\ \/ (copy \in copies \/ adm[p].gone) /\ UNCHANGED faults
                 \/ Fault("api")
              /\ adm' = [adm EXCEPT ![p] = Denied(p, @)]
              /\ UNCHANGED <<copies, late>>
    /\ CancelProbes
    /\ UNCHANGED <<caches, resources, seen, arrived>>
-----------------------------------------------------------------------------
(* SecretOwnerReconciler: it lists and deletes with what its cache has. *)

AddFinalizer(o) ==
    /\ o \in Swept /\ owner[o] = "new"
    /\ owner' = [owner EXCEPT ![o] = "kept"]
    /\ UNCHANGED <<adm, caches, probe, sweep, secrets, faults, arrived>>

StartSweep(o) ==
    sweep' = [x \in DOMAIN sweep \cup {o} |->
                 IF x = o THEN {c[1] : c \in {d \in seen : d[2] = o}} ELSE sweep[x]]
StopSweep(o) == sweep' = [x \in DOMAIN sweep \ {o} |-> sweep[x]]

\* Of o, late is what the cache does not have now.
LateFor(o) == {c \in late : c[2] # o \/ c \notin seen} \cup {c \in copies \ seen : c[2] = o}

\* Mutant: no copies, nothing to do.
OnlyWithCopies(o) ==
    /\ owner[o] = "deleting" /\ o \notin DOMAIN sweep
    /\ \E c \in seen : c[2] = o
    /\ StartSweep(o)
    /\ late' = LateFor(o)
    /\ UNCHANGED <<adm, caches, probe, owner, copies, seen, faults, arrived>>
ListCopies(o) ==
    /\ owner[o] = "deleting" /\ o \notin DOMAIN sweep
    /\ StartSweep(o)
    /\ late' = LateFor(o)
    /\ UNCHANGED <<adm, caches, probe, owner, copies, seen, faults, arrived>>

\* A copy that is no longer there is as good as deleted; any other error ends the
\* reconcile, which is tried again. Mutant: it is only logged.
DeleteOrSkip(o) ==
    /\ o \in DOMAIN sweep
    /\ \E ns \in sweep[o] :
           /\ \/ copies' = copies \ {<<ns, o>>} /\ UNCHANGED faults
              \/ Fault("api") /\ UNCHANGED copies
           /\ sweep' = [sweep EXCEPT ![o] = @ \ {ns}]
    /\ UNCHANGED <<adm, caches, probe, owner, seen, late, arrived>>
DeleteCopy(o) ==
    /\ o \in DOMAIN sweep
    /\ \E ns \in sweep[o] :
           \/ /\ copies' = copies \ {<<ns, o>>}
              /\ sweep' = [sweep EXCEPT ![o] = @ \ {ns}]
              /\ UNCHANGED faults
           \/ Fault("api") /\ StopSweep(o) /\ UNCHANGED copies
    /\ UNCHANGED <<adm, caches, probe, owner, seen, late, arrived>>

RemoveFinalizer(o) ==
    /\ o \in DOMAIN sweep /\ sweep[o] = {}
    /\ StopSweep(o)
    /\ owner' = [owner EXCEPT ![o] = "gone"]
    /\ UNCHANGED <<adm, caches, probe, secrets, faults, arrived>>
-----------------------------------------------------------------------------
(* Users, time, faults. *)

DeleteOwner(o) ==
    /\ owner[o] \in {"new", "kept"}
    /\ owner' = [owner EXCEPT ![o] = IF @ = "kept" THEN "deleting" ELSE "gone"]
    /\ UNCHANGED <<adm, caches, probe, sweep, secrets, faults, arrived>>

Leave(p) ==
    /\ adm[p].at \in {"runs", "denied"}
    /\ adm' = [adm EXCEPT ![p] = Nothing]
    /\ UNCHANGED <<caches, probe, resources, secrets, faults, arrived>>

\* The informer's cache has caught up.
Observe ==
    /\ seen # copies
    /\ seen' = copies
    /\ UNCHANGED <<adm, caches, probe, resources, copies, late, faults, arrived>>

ExpireAlternative(i) ==
    /\ altCache[i] # Absent
    /\ altCache' = [altCache EXCEPT ![i] = Absent]
    /\ UNCHANGED <<adm, checkCache, probe, resources, secrets, faults, arrived>>

ExpireCheck(r) ==
    /\ checkCache[r] # "unknown"
    /\ checkCache' = [checkCache EXCEPT ![r] = "unknown"]
    /\ UNCHANGED <<adm, altCache, probe, resources, secrets, faults, arrived>>

\* The API server no longer waits; the handler goes on without a context.
HangUp(p) ==
    /\ adm[p].at \in InProgress /\ ~adm[p].gone
    /\ Fault("timeout")
    /\ adm' = [adm EXCEPT ![p].gone = TRUE]
    /\ CancelProbes
    /\ UNCHANGED <<caches, resources, secrets, arrived>>

\* The manager stops and starts again.
Crash ==
    /\ Fault("crash")
    /\ adm' = [p \in Slots |-> IF adm[p].at \in InProgress THEN Unmodified(p) ELSE adm[p]]
    /\ altCache' = [i \in Images |-> Absent]
    /\ checkCache' = [r \in References |-> "unknown"]
    /\ probe' = [r \in References |-> NoFlight]
    /\ sweep' = << >>
    /\ seen' = copies
    /\ UNCHANGED <<owner, copies, late, arrived>>
-----------------------------------------------------------------------------
Handle(p) == \/ UseCached(p) \/ Follow(p) \/ Lead(p) \/ SecretMissing(p) \/ StartProbes(p)
             \/ Conclude(p) \/ GetCopy(p) \/ CreateCopy(p)
Reconcile(o) == AddFinalizer(o) \/ ListCopies(o) \/ DeleteCopy(o) \/ RemoveFinalizer(o)

Next == \/ \E p \in Slots : Review(p) \/ Handle(p) \/ HangUp(p) \/ Leave(p)
        \/ \E r \in References : Answer(r) \/ ExpireCheck(r)
        \/ \E i \in Images : ExpireAlternative(i)
        \/ \E o \in Owners : Reconcile(o) \/ DeleteOwner(o)
        \/ Observe \/ Crash

Spec == Init /\ [][Next]_vars

\* Handlers and workers run; a registry answers, or the time-out of the check
\* does.
FairSpec == /\ Spec
            /\ \A p \in Slots : WF_vars(Handle(p))
            /\ \A r \in References : WF_vars(Answer(r))
            /\ \A o \in Owners : WF_vars(Reconcile(o))
-----------------------------------------------------------------------------
\* A pod that was given an alternative with a credentialSecret can use it, be the
\* alternative its own find, another's or a cached one of another namespace:
\* the secret, or a copy, is in its namespace (pod_webhook.go:756-759), as long
\* as the resource is not deleted.
RewrittenPodCanPull ==
    \A p \in Slots :
        adm[p].at = "runs" =>
            \A a \in ToSet(adm[p].given) \ {Kept} :
                \/ a.secret \in {NoSecret, NamespaceOf[p]}
                \/ <<NamespaceOf[p], a.set>> \in copies
                \/ owner[a.set] \in {"deleting", "gone"}

\* The finalizer is there so that the copies go before the resource
\* (secretowner_controller.go:67): whatever deletes fail and restarts come in
\* between, a copy outlives its owner only if the cache did not have it when the
\* owner's copies were listed last: an admission wrote it just before or later, or
\* the owner went before it had its finalizer.
OrphansAreLate ==
    \A c \in copies : c[2] \in Swept /\ owner[c[2]] = "gone" => c \in late

\* An admission does not wait for ever for those it shares a flight with.
AdmissionEnds ==
    \A p \in Slots : adm[p].at \in InProgress ~> adm[p].at \notin InProgress

\* Nor does the deletion of a resource for the pods that use its copies.
OwnerGoes ==
    \A o \in Swept : owner[o] = "deleting" ~> owner[o] = "gone"

\* "The webhook performs a HEAD on each alternative image manifest (in order) and
\* uses the first one that is available" (docs/concepts/image-routing.md:15): as
\* long as all registries answer, that is the first one.
FirstAvailableIsUsed ==
    (Faults = {} /\ Locked \cup Unsteady = {}) =>
        \A p \in Slots :
            adm[p].at = "runs" => ToSet(adm[p].given) \subseteq {Kept}
=============================================================================
