----------------------------- MODULE Alternatives -----------------------------
(***************************************************************************)
(* internal/webhook/core/v1/pod_webhook.go: which images may stand for the  *)
(* image of a container, and in which order (buildAlternativesList).        *)
(*                                                                          *)
(* A reference is a sequence of pieces, the registry first: path.Join is    *)
(* concatenation, strings.TrimPrefix takes pieces away. An image filter is  *)
(* the set of what it accepts (Filters.tla computes it).                    *)
(*                                                                          *)
(*   mirror set      [cluster, priority, valid, accepts, mirrors]           *)
(*   a mirror        [registry, path, priority, secret]                     *)
(*   replicated set  [cluster, priority, upstreams]                         *)
(*   an upstream     [registry, path, priority, secret, valid, accepts,     *)
(*                    discard]                                              *)
(*                                                                          *)
(* "valid" says whether the filter compiles. Left out: references that do   *)
(* not parse, which make the admission fail; an upstream whose filter       *)
(* accepts images outside its own path can make one.                        *)
(***************************************************************************)
EXTENDS Orders

CONSTANTS
    NoSecret,       \* an alternative without a credentialSecret
    NoSet,          \* the original has no (Cluster)...ImageSet behind it
    MinInt          \* math.MinInt

IsMirrorSet(s) == /\ s.set.priority \in Int /\ IsSequence(s.set.mirrors)
                  /\ \A m \in ToSet(s.set.mirrors) : m.priority \in Int /\ IsSequence(m.path)
IsReplicatedSet(s) == /\ s.set.priority \in Int /\ IsSequence(s.set.upstreams)
                      /\ \A u \in ToSet(s.set.upstreams) : u.priority \in Int /\ IsSequence(u.path)

\* crTypeOrder
Original == 0
MirrorType(set) == IF set.cluster THEN 1 ELSE 2
ReplicaType(set) == IF set.cluster THEN 3 ELSE 4

\* Pull secrets aside, what prioritizedAlternative holds.
Offer(reference, secret, set, crPriority, typeOrder, intraPriority, declarationOrder) ==
    [reference |-> reference, secret |-> secret, set |-> set,
     key |-> <<crPriority, typeOrder, intraPriority, declarationOrder>>]

Location(place) == <<place.registry>> \o place.path
TrimPrefix(reference, prefix) ==
    IF IsPrefix(prefix, reference)
    THEN SubSeq(reference, Len(prefix) + 1, Len(reference))
    ELSE reference

-----------------------------------------------------------------------------
\* The offers of replicated sets. The first valid upstream whose filter takes
\* the image tells which part of the reference the upstreams have in common.
Matches(upstream, image) == /\ upstream.valid
                            /\ Head(image) = upstream.registry
                            /\ Tail(image) \in upstream.accepts
Matching(set, image) == SelectInSeq(set.upstreams, LAMBDA u : Matches(u, image))

Routable(upstream) == upstream.valid /\ ~upstream.discard

\* Mutant: one upstream that does not compile turns the whole set off.
BreaksTheSet(set, d, image) == /\ Matching(set, image) # 0
                               /\ Routable(set.upstreams[d])
                               /\ \A u \in ToSet(set.upstreams) : u.valid

IsOffered(set, d, image) == Matching(set, image) # 0 /\ Routable(set.upstreams[d])

UpstreamOffer(s, d, image) ==
    LET set == s.set
        upstream == set.upstreams[d]
        suffix == TrimPrefix(image, Location(set.upstreams[Matching(set, image)]))
    IN  Offer(Location(upstream) \o suffix, upstream.secret, s.name,
              set.priority, ReplicaType(set), upstream.priority, d)

UpstreamOffers(replicatedSets, image) ==
    LET rows == [k \in DOMAIN replicatedSets |-> replicatedSets[k].set.upstreams]
        places == {p \in PlacesIn(rows) : IsOffered(replicatedSets[p[1]].set, p[2], image)}
    IN  InOrder([p \in places |-> UpstreamOffer(replicatedSets[p[1]], p[2], image)], RowByRow(places))

\* Mutant: the last replicated set that matches has the say.
LastDiscards(sets, image) ==
    LET matched == SelectSeq(sets, LAMBDA s : Matching(s.set, image) # 0)
    IN  matched # << >> /\ Last(matched).set.upstreams[Matching(Last(matched).set, image)].discard

\* Some matching upstream says that the original is not to be used.
DiscardOriginal(sets, image) ==
    \E s \in ToSet(sets) : /\ Matching(s.set, image) # 0
                           /\ s.set.upstreams[Matching(s.set, image)].discard

\* imagePullPolicy: Always pins the original, unless the configuration says
\* otherwise (HonorPrioritiesOnAlwaysImagePullPolicy).
OriginalOffer(image, pinned) ==
    Offer(image, NoSecret, NoSet, IF pinned THEN MinInt ELSE 0, Original, 0, 0)

-----------------------------------------------------------------------------
\* A mirror set offers its mirrors of every offer collected before it, the
\* source registry replaced by the mirror.
MirrorOffer(s, d, o) ==
    LET set == s.set
        mirror == set.mirrors[d]
    IN  Offer(Location(mirror) \o Tail(o.reference), mirror.secret, s.name,
              set.priority, MirrorType(set), mirror.priority, d)

MirrorOffers(offers, s) ==
    LET places == {p \in (DOMAIN offers) \X DOMAIN s.set.mirrors : offers[p[1]].reference \in s.set.accepts}
    IN  InOrder([p \in places |-> MirrorOffer(s, p[2], offers[p[1]])], RowByRow(places))

\* What is collected after n mirror sets: one that does not compile is passed over.
AfterMirrors(mirrorSets, base) ==
    LET after[n \in 0 .. Len(mirrorSets)] ==
            IF n = 0 THEN base
            ELSE IF mirrorSets[n].set.valid
            THEN after[n - 1] \o MirrorOffers(after[n - 1], mirrorSets[n])
            ELSE after[n - 1]
    IN  after

Base(replicatedSets, image, pinned) ==
    UpstreamOffers(replicatedSets, image)
        \o IF DiscardOriginal(replicatedSets, image) THEN << >> ELSE <<OriginalOffer(image, pinned)>>

Collected(mirrorSets, replicatedSets, image, pinned) ==
    AfterMirrors(mirrorSets, Base(replicatedSets, image, pinned))[Len(mirrorSets)]

\* compareAlternatives: the four keys, in this order.
Compare(a, b) == \E k \in 1 .. 4 : /\ a.key[k] < b.key[k]
                                   /\ \A j \in 1 .. k - 1 : a.key[j] = b.key[j]

\* slices.SortStableFunc
Precedes(a, b, i, j) == Compare(a, b) \/ (~Compare(b, a) /\ i < j)
SortStable(offers) ==
    InOrder(offers, {p \in (DOMAIN offers) \X DOMAIN offers :
                        Precedes(offers[p[1]], offers[p[2]], p[1], p[2])})

\* addAlternative: the first offer of a reference wins.
Distinct(offers) ==
    LET firsts == {k \in DOMAIN offers : \A j \in 1 .. k - 1 : offers[j].reference # offers[k].reference}
    IN  Only(offers, firsts)

\* Mutant: duplicates go before the sort.
DistinctThenSorted(mirrorSets, replicatedSets, image, pinned) ==
    SortStable(Distinct(Collected(mirrorSets, replicatedSets, image, pinned)))

\* container.Images after buildAlternativesList.
AlternativesList(mirrorSets, replicatedSets, image, pinned) ==
    Distinct(SortStable(Collected(mirrorSets, replicatedSets, image, pinned)))
=============================================================================
