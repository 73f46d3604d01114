------------------------------- MODULE Decisions -------------------------------
(***************************************************************************)
(* The decisions the webhook and the reconcilers take without a state of    *)
(* their own: the list of alternatives of an image (Alternatives.tla), what *)
(* a resource applies to (Filters.tla), the verdict of a check (Probe.tla)  *)
(* and the credentials of a request (Keyring.tla). A behaviour takes one    *)
(* decision, on any of the inputs given; the invariants compare it with     *)
(* what the documentation says.                                             *)
(***************************************************************************)
EXTENDS Alternatives, Filters, Probe, Keyring

CONSTANTS
    Routes,         \* [mirrors, replicas, image, pinned]
    FilterSpecs,    \* [filter, legacy] of a cluster-scoped resource
    PodKinds, ImageNames,
    Checks,         \* [method, resolveDigest, isDigest, answers, digestAnswers]
    Lookups         \* [secrets, repository]

Dimensions == {"image", "label", "annotation", "namespace"}
Answer == [status : Nat, exhausted : BOOLEAN]

ASSUME DecisionsAssumption ==
    /\ MinInt \in Int
    /\ \A r \in Routes : /\ IsSequence(r.mirrors) /\ \A s \in ToSet(r.mirrors) : IsMirrorSet(s)
                         /\ IsSequence(r.replicas) /\ \A s \in ToSet(r.replicas) : IsReplicatedSet(s)
                         /\ IsSequence(r.image)
    /\ \A l \in Lookups : /\ IsSequence(l.secrets)
                          /\ \A s \in ToSet(l.secrets) : s.kind = "dockerconfig" => IsDockerConfig(s)
    /\ \A f \in FilterSpecs : \A i \in f.filter.include \cup f.filter.exclude :
          i = [dim |-> i.dim, accepts |-> i.accepts] /\ i.dim \in Dimensions
    /\ Broken # Anything /\ ImageNames \subseteq Anything
    /\ \A p \in PodKinds : p.namespace \in Anything
    /\ \A c \in Checks : {c.answers, c.digestAnswers} \subseteq Seq(Answer) \ {<< >>}

VARIABLE decision

Init == decision = [of |-> "nothing"]

Decide(of, in, out) == /\ decision = [of |-> "nothing"]
                       /\ decision' = [of |-> of, in |-> in, out |-> out]

Route == \E r \in Routes :
            Decide("route", r, AlternativesList(r.mirrors, r.replicas, r.image, r.pinned))

Select == \E f \in FilterSpecs :
            Decide("select", f,
                   {x \in PodKinds \X ImageNames : Applies(f.filter, f.legacy, x[1], x[2])})

Check == \E c \in Checks :
            Decide("check", c, CheckImageAvailability(c.method, c.resolveDigest, c.isDigest,
                                                      c.answers, c.digestAnswers))

LookUp == \E l \in Lookups :
            /\ Readable(l.secrets)
            /\ Decide("lookup", l, Keychains(l.secrets, l.repository))

Decided == decision.of # "nothing" /\ UNCHANGED decision

Next == Route \/ Select \/ Check \/ LookUp \/ Decided

Spec == Init /\ [][Next]_decision

-----------------------------------------------------------------------------
\* The documented order (docs/concepts/image-routing.md:102-109): priority of
\* the set, then original > ClusterImageSetMirror > ImageSetMirror >
\* ClusterReplicatedImageSet > ReplicatedImageSet, then the priority of the
\* mirror or upstream, then its place in the YAML.
Prio(o) == o.key[1]
Type(o) == o.key[2]
Intra(o) == o.key[3]
Place(o) == o.key[4]
BeforeButForPlace(a, b) ==
    \/ Prio(a) < Prio(b)
    \/ Prio(a) = Prio(b) /\ Type(a) < Type(b)
    \/ Prio(a) = Prio(b) /\ Type(a) = Type(b) /\ Intra(a) < Intra(b)
DocumentedBefore(a, b) ==
    \/ BeforeButForPlace(a, b)
    \/ /\ Prio(a) = Prio(b) /\ Type(a) = Type(b) /\ Intra(a) = Intra(b)
       /\ Place(a) < Place(b)

\* Each reference that is offered is in the list, once, at the place of the
\* best of its offers.
TriedInOrder(list, offers, Before(_, _)) ==
    LET OffersOf(k) == {o \in offers : o.reference = list[k].reference}
    IN  /\ {list[k].reference : k \in DOMAIN list} = {o.reference : o \in offers}
        /\ \A j, k \in DOMAIN list :
               j < k => /\ list[j].reference # list[k].reference
                        /\ \E a \in OffersOf(j) : \A b \in OffersOf(k) : ~Before(b, a)

\* A reference may be offered by several resources, as the original and as a
\* mirror, and mirrors are offered of upstreams as well: whatever the mix,
\* each reference is tried once, at the place of the best of its offers.
DocumentedOrder ==
    decision.of = "route" =>
        LET in == decision.in
        IN  TriedInOrder(decision.out, ToSet(Collected(in.mirrors, in.replicas, in.image, in.pinned)),
                         DocumentedBefore)

\* "A malformed image filter on one upstream must not break admission nor
\* disable the rest of the CR" (pod_webhook.go:462): the list is one for the
\* sets without the mirror sets and the upstreams that do not compile, but that
\* the places in the YAML, which decide only where all else is equal, are
\* those of the whole sets.
WithoutBroken(mirrors) == Only(mirrors, {k \in DOMAIN mirrors : mirrors[k].set.valid})
Repaired(s) ==
    LET upstreams == s.set.upstreams
    IN  [name |-> s.name,
         set |-> [cluster |-> s.set.cluster, priority |-> s.set.priority,
                  upstreams |-> Only(upstreams, {d \in DOMAIN upstreams : upstreams[d].valid})]]
AllRepaired(replicas) == [k \in DOMAIN replicas |-> Repaired(replicas[k])]
BrokenIsSkipped ==
    decision.of = "route" =>
        LET in == decision.in
        IN  TriedInOrder(decision.out,
                         ToSet(Collected(WithoutBroken(in.mirrors), AllRepaired(in.replicas),
                                         in.image, in.pinned)),
                         BeforeButForPlace)

\* discardAlternative excludes an upstream from what the webhook tries
\* (docs/concepts/image-routing.md:164) although it goes on matching images:
\* an image that a discarded upstream matched, and any other reference, is
\* tried only where a mirror or an upstream that is not discarded leads to it,
\* whatever other sets say of it.
DiscardedIsNotTried ==
    decision.of = "route" =>
        LET in == decision.in
            Discarding(s) == LET m == Matching(s.set, in.image)
                             IN  m # 0 /\ s.set.upstreams[m].discard
            ByMirror(o) == \E s \in ToSet(in.mirrors) : s.name = o.set
            ByUpstream(o) == \E s \in ToSet(in.replicas) :
                                 /\ s.name = o.set
                                 /\ \E u \in ToSet(s.set.upstreams) :
                                        Routable(u) /\ IsPrefix(Location(u), o.reference)
            AsOriginal(o) == o.set = NoSet /\ ~\E s \in ToSet(in.replicas) : Discarding(s)
        IN  \A o \in ToSet(decision.out) : ByMirror(o) \/ ByUpstream(o) \/ AsOriginal(o)

-----------------------------------------------------------------------------
\* docs/concepts/resource-filtering.md:33-38: items of a dimension are or-ed,
\* dimensions and-ed, any matching exclude drops, a dimension without includes
\* matches everything; a filter with an item that does not compile applies to
\* nothing. Said of resources that have a filter.
Value(pod, image, dim) == IF dim = "image" THEN image ELSE pod[dim]
DocumentedFilter(filter, pod, image) ==
    /\ \A i \in filter.include \cup filter.exclude : i.accepts # Broken
    /\ \A i \in filter.exclude : Value(pod, image, i.dim) \notin i.accepts
    /\ \A i \in filter.include :
           \E j \in filter.include : j.dim = i.dim /\ Value(pod, image, j.dim) \in j.accepts
FilterAsDocumented ==
    (decision.of = "select" /\ ~IsEmpty(decision.in.filter)) =>
        decision.out = {x \in PodKinds \X ImageNames : DocumentedFilter(decision.in.filter, x[1], x[2])}

\* The webhook flattens a cluster-scoped set and drops its namespace items
\* before it asks for its image filter (pod_webhook.go:285), the reconcilers do
\* not: both must take the same images, or the webhook offers mirrors that
\* nobody fills.
SameImagesForAll ==
    decision.of = "select" =>
        decision.out = {x \in PodKinds \X ImageNames :
                            AppliesFlattened(decision.in.filter, decision.in.legacy, x[1], x[2])}

-----------------------------------------------------------------------------
\* resolveDigest "catches registries that keep answering tag requests while the
\* manifest behind the digest is gone" (availability.go:20-27): an image called
\* available was served to some credential without exhausting its quota, by its
\* digest too if that is asked for, unless the registry has no HEAD by digest.
AvailableIsPullable ==
    decision.of = "check" =>
        LET in == decision.in
            Served(answers) == /\ \E a \in ToSet(answers) : a.status = OK
                               /\ ~RateLimited(answers)
            NoHead == /\ in.method = "HEAD"
                      /\ \A a \in ToSet(in.digestAnswers) : a.status # OK
                      /\ \E a \in ToSet(in.digestAnswers) : a.status \in {405, 501}
            ByDigest == in.resolveDigest /\ ~in.isDigest
        IN  /\ decision.out = "Available"
                   => /\ Served(in.answers)
                      /\ ByDigest => Served(in.digestAnswers) \/ NoHead
            /\ (Served(in.answers) /\ (ByDigest => Served(in.digestAnswers)))
                   => decision.out = "Available"

\* The webhook clears the record of a mirror, and a copy is made again, on the
\* word NotFound alone: some registry answer said so, and nothing was served
\* that would make the pull succeed.
NotFoundIsCertain ==
    (decision.of = "check" /\ decision.out = "NotFound") =>
        LET in == decision.in
            Missing(answers) == /\ \E a \in ToSet(answers) : a.status = 404
                                /\ \A a \in ToSet(answers) : a.status # OK
        IN  Missing(in.answers) \/ (in.resolveDigest /\ Missing(in.digestAnswers))

-----------------------------------------------------------------------------
\* "credentials for quay.io/coreos should match before quay.io"
\* (keyring.go:163-166), in whatever order secrets and maps are read: each
\* credential whose location matches the repository is sent, and of two for the
\* same host that of the longer path is sent first. For Docker Hub nothing of this
\* is so: Resolve compares the names of two libraries (keychain.go:18), and every
\* request there is anonymous.
IsFor(entry) == URLsMatch(KeyOf(entry), decision.in.repository)
MoreSpecificFirst ==
    (decision.of = "lookup" /\ ~AtDockerHub(decision.in.repository)) =>
        LET out == decision.out
            entries == ToSet(Entries(decision.in.secrets))
            LongerPath(e, f) == /\ KeyOf(e).host = KeyOf(f).host /\ KeyOf(e).port = KeyOf(f).port
                                /\ IsStrictPrefix(KeyOf(f).path, KeyOf(e).path)
        IN  /\ \A e \in entries : IsFor(e) => e \in ToSet(out)
            /\ \A j, k \in DOMAIN out :
                   {out[j], out[k]} \subseteq entries /\ LongerPath(out[k], out[j]) => k < j
=============================================================================
