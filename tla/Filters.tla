-------------------------------- MODULE Filters --------------------------------
(***************************************************************************)
(* internal/filter and api/kuik/v1alpha1: which pods and images a resource  *)
(* applies to. An item is [dim, accepts]: a regular expression or a label   *)
(* selector is the set of strings (or of label sets) that it accepts, and   *)
(* Broken stands for one that does not compile. A filter is [include,       *)
(* exclude], two sets of items: the code never looks at their order. A pod  *)
(* is [label, annotation, namespace].                                       *)
(***************************************************************************)
EXTENDS FiniteSets

CONSTANTS
    Anything,       \* what the pattern ".*" accepts
    Broken          \* a pattern or selector that does not compile

\* The dimension left to an item whose only field ToFilter drops.
NoDimension == "none"

\* collectStrings: what the items of one dimension accept.
Collect(items, dim) == {i.accepts : i \in {j \in items : j.dim = dim}}

\* defaultedToMatchAll
DefaultedToMatchAll(include) == IF include = {} THEN {Anything} ELSE include

Compiles(include, exclude) == Broken \notin include \cup exclude

\* IncludeExcludeFilter.Match
IncludeExclude(include, exclude, s) == /\ \E i \in include : s \in i
                                       /\ \A e \in exclude : s \notin e

\* Mutant of matchSelectorSets: an include that matches settles it.
IncludeWins(include, exclude, s) ==
    IF include # {} THEN \E i \in include : s \in i ELSE \A e \in exclude : s \notin e

\* matchSelectorSets: here an empty include matches everything by itself.
SelectorSets(include, exclude, s) == /\ include # {} => \E i \in include : s \in i
                                     /\ \A e \in exclude : s \notin e

-----------------------------------------------------------------------------
\* Mutant of ToFilter: items without anything left to say are dropped.
DropsNamespaces(filter) ==
    [include |-> {i \in filter.include : i.dim # "namespace"},
     exclude |-> {i \in filter.exclude : i.dim # "namespace"}]

\* ClusterFilter.ToFilter: an item of the namespace dimension becomes an item
\* that says nothing; the filter still counts as set.
ToFilter(filter) ==
    LET Strip(items) == {[i EXCEPT !.dim = IF @ = "namespace" THEN NoDimension ELSE @] : i \in items}
    IN  [include |-> Strip(filter.include), exclude |-> Strip(filter.exclude)]

IsEmpty(filter) == filter.include \cup filter.exclude = {}

\* BuildImageFilter of Filter and ClusterFilter, Build of the deprecated
\* imageFilter (whose include defaults to everything only next to an exclude),
\* and imageFilter, which chooses between them.
ImagePatterns(filter, legacy) ==
    IF ~IsEmpty(filter)
    THEN [include |-> DefaultedToMatchAll(Collect(ToFilter(filter).include, "image")),
          exclude |-> Collect(ToFilter(filter).exclude, "image")]
    ELSE [include |-> IF legacy.exclude # {} THEN DefaultedToMatchAll(legacy.include)
                      ELSE legacy.include,
          exclude |-> legacy.exclude]

\* A resource whose filter does not compile is skipped.
SelectsImage(filter, legacy, image) ==
    LET patterns == ImagePatterns(filter, legacy)
    IN  /\ Compiles(patterns.include, patterns.exclude)
        /\ IncludeExclude(patterns.include, patterns.exclude, image)

\* PodFilter.Match, with the selectors of CompilePodFilter.
MatchesPod(filter, pod) ==
    \A dim \in {"label", "annotation"} :
        LET include == Collect(filter.include, dim)
            exclude == Collect(filter.exclude, dim)
        IN  Compiles(include, exclude) /\ SelectorSets(include, exclude, pod[dim])

\* podMatcher and BuildPodMatcher, of ClusterFilter; a Filter is one without
\* items of the namespace dimension.
SelectsPod(filter, pod) ==
    LET include == DefaultedToMatchAll(Collect(filter.include, "namespace"))
        exclude == Collect(filter.exclude, "namespace")
    IN  \/ IsEmpty(filter)
        \/ /\ MatchesPod(ToFilter(filter), pod)
           /\ Compiles(include, exclude)
           /\ IncludeExclude(include, exclude, pod.namespace)

\* The webhook and the reconcilers ask the pod matcher of the object, then the
\* image filter: of the object, or (webhook, cluster-scoped mirror sets) of its
\* flattened copy.
Applies(filter, legacy, pod, image) == SelectsPod(filter, pod) /\ SelectsImage(filter, legacy, image)
AppliesFlattened(filter, legacy, pod, image) ==
    SelectsPod(filter, pod) /\ SelectsImage(ToFilter(filter), legacy, image)
=============================================================================
