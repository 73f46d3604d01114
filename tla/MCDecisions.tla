----------------------------- MODULE MCDecisions -----------------------------
EXTENDS Decisions

Lowest == -9

Seqs(S, n) == UNION {{s \in [1 .. k -> S] : IsInjective(s)} : k \in 0 .. n}

-----------------------------------------------------------------------------
Hub == <<"hub", "x">>
Quay == <<"quay", "x">>
Mirrored == {<<"mir", "m", "x">>, <<"far", "m", "x">>}

Mirror(r, p, prio) == [registry |-> r, path |-> <<p>>, priority |-> prio, secret |-> r]
MirrorSet(n, c, prio, v, a, ms) ==
    [name |-> n, set |-> [cluster |-> c, priority |-> prio, valid |-> v, accepts |-> a, mirrors |-> ms]]
MirrorSets == {
    MirrorSet("m1", TRUE, 0, TRUE, {Hub, Quay}, <<Mirror("mir", "m", 1), Mirror("far", "m", 0)>>),
    MirrorSet("m2", TRUE, -1, TRUE, {Hub}, <<Mirror("mir", "m", 0)>>),
    MirrorSet("m3", FALSE, 0, TRUE, {Quay}, <<Mirror("far", "m", 0)>>),
    MirrorSet("m4", FALSE, -1, TRUE, {Hub} \cup Mirrored, <<Mirror("near", "n", 0)>>),
    MirrorSet("m5", FALSE, -2, FALSE, {Hub}, <<Mirror("mir", "m", 0)>>)}

Upstream(r, prio, v, d) == [registry |-> r, path |-> << >>, priority |-> prio, secret |-> NoSecret,
                            valid |-> v, discard |-> d, accepts |-> {<<"x">>}]
ReplicatedSet(n, c, prio, us) == [name |-> n, set |-> [cluster |-> c, priority |-> prio, upstreams |-> us]]
ReplicatedSets == {
    ReplicatedSet("r1", TRUE, 0, <<Upstream("hub", 3, TRUE, FALSE), Upstream("quay", 1, TRUE, FALSE)>>),
    ReplicatedSet("r2", TRUE, 1, <<Upstream("hub", 0, TRUE, TRUE), Upstream("ecr", 0, TRUE, FALSE)>>),
    ReplicatedSet("r3", FALSE, -1, <<Upstream("quay", 0, TRUE, FALSE), Upstream("hub", 0, TRUE, FALSE)>>),
    ReplicatedSet("r4", FALSE, 0, <<Upstream("hub", 0, FALSE, FALSE), Upstream("hub", 0, TRUE, FALSE),
                                    Upstream("ecr", 0, TRUE, FALSE)>>),
    ReplicatedSet("r5", FALSE, 0, <<Upstream("hub", 0, TRUE, FALSE), Upstream("gcr", 0, TRUE, FALSE)>>)}

\* The webhook lists cluster-scoped sets first.
ClusterFirst(s) == \A j, k \in DOMAIN s : j < k => s[j].set.cluster \/ ~s[k].set.cluster
SomeRoutes == [mirrors : {s \in Seqs(MirrorSets, 2) : ClusterFirst(s)},
               replicas : {s \in Seqs(ReplicatedSets, 2) : ClusterFirst(s)},
               image : {Hub, Quay}, pinned : BOOLEAN]

-----------------------------------------------------------------------------
Everything == {"i1", "i2", "n1", "n2"}
Item(d, a) == [dim |-> d, accepts |-> a]
Items == {Item("image", {"i1"}), Item("image", {"i2"}), Item("namespace", {"n1"}),
          Item("namespace", {"n2"}), Item("label", {"l1"}), Item("label", {"l2"}),
          Item("annotation", {"a1"}), Item("image", Broken), Item("label", Broken)}
UpToTwo(S) == {{}} \cup {{x, y} : x, y \in S}
SomeFilters ==
    [filter : [include : UpToTwo(Items), exclude : UpToTwo(Items)],
     legacy : {[include |-> {}, exclude |-> {}]}]
    \cup [filter : {[include |-> {}, exclude |-> {}]},
          legacy : [include : {{}, {{"i1"}}}, exclude : {{}, {{"i2"}}}]]
SomePods == [label : {"l1", "l2"}, annotation : {"a1", "a2"}, namespace : {"n1", "n2"}]
SomeImages == {"i1", "i2"}

-----------------------------------------------------------------------------
Answered(codes, quotas) == [status : codes, exhausted : {FALSE}] \cup [status : quotas, exhausted : {TRUE}]
SomeChecks ==
    UNION {[method : {"HEAD", "GET"}, resolveDigest : BOOLEAN, isDigest : BOOLEAN,
            answers : [1 .. n -> Answered({OK, 401, 404, Lost}, {OK, 429})],
            digestAnswers : [1 .. n -> Answered({OK, 404, 405, 429, Lost}, {OK})]] : n \in 1 .. 2}

-----------------------------------------------------------------------------
\* Words in the order of their strings.
W(s) == CHOOSE n \in 10 .. 17 :
    s = <<"docker", "index", "io", "lib", "library", "localhost", "quay", "v1">>[n - 9]
TheHub == <<W("docker"), W("io")>>
TheIndex == <<W("index"), W("docker"), W("io")>>
TheQuay == <<W("quay"), W("io")>>
Versions == {W("v1")}
BeginsWith == {<<W("lib"), W("library")>>}

Entry(c, h, po, pa) == [cred |-> c, location |-> [host |-> h, port |-> po, path |-> pa]]
SomeEntries == {
    Entry("hub", TheHub, 0, << >>), Entry("hubv1", TheHub, 0, <<W("v1"), Empty>>),
    Entry("hublibrary", TheHub, 0, <<W("library")>>), Entry("index", TheIndex, 0, <<W("v1"), Empty>>),
    Entry("quay", TheQuay, 0, << >>), Entry("quayv1", TheQuay, 0, <<W("v1"), Empty>>),
    Entry("lib", TheQuay, 0, <<W("lib")>>), Entry("library", TheQuay, 0, <<W("library")>>),
    Entry("docker", TheQuay, 0, <<W("library"), W("docker")>>),
    Entry("port", TheQuay, 50, << >>), Entry("portlibrary", TheQuay, 50, <<W("library")>>),
    Entry("glob", <<AnyPart, W("io")>>, 0, << >>)}
Repository(h, po, w) == [host |-> h, port |-> po, path |-> <<W("library"), W(w)>>]
SomeRepositories == {
    Repository(TheHub, 0, "docker"), Repository(TheIndex, 0, "docker"),
    Repository(TheQuay, 0, "docker"), Repository(TheQuay, 0, "index"),
    Repository(TheQuay, 50, "docker"), Repository(<<W("localhost")>>, 0, "docker")}
Secrets ==
    {<<[kind |-> "dockerconfig", entries |-> es]>> : es \in Seqs(SomeEntries, 3)}
    \cup {<<[kind |-> k, entries |-> <<d>>], [kind |-> "dockerconfig", entries |-> <<e>>]>> :
             k \in {"dockerconfig", "opaque", "garbled"}, d, e \in SomeEntries}
SomeLookups == [secrets : Secrets, repository : SomeRepositories]
=============================================================================
