---------------------------- MODULE Decisions_proof ----------------------------
(***************************************************************************)
(* Proofs about the decisions of Decisions.tla, for all inputs: what a      *)
(* resource applies to, the verdict of a check, the list of alternatives in *)
(* the documented order whatever is broken or discarded, and the order in   *)
(* which credentials are tried.                                             *)
(***************************************************************************)
EXTENDS Decisions, Alternatives_proof

(* Filters. *)

IsItem(i) == i = [dim |-> i.dim, accepts |-> i.accepts]

\* ToFilter takes the namespace from items and leaves what others accept.
Strip(items) == {[i EXCEPT !.dim = IF @ = "namespace" THEN NoDimension ELSE @] : i \in items}

LEMMA StripFacts ==
    ASSUME NEW items, \A i \in items : IsItem(i)
    PROVE  /\ \A i \in Strip(items) : IsItem(i)
           /\ Strip(items) = {} <=> items = {}
           /\ \A dim \in {"image", "label", "annotation"} : Collect(Strip(items), dim) = Collect(items, dim)
<1> DEFINE new(i) == [i EXCEPT !.dim = IF @ = "namespace" THEN NoDimension ELSE @]
<1>1. ASSUME NEW i \in items
      PROVE  /\ IsItem(new(i)) /\ new(i).accepts = i.accepts
             /\ new(i).dim = IF i.dim = "namespace" THEN NoDimension ELSE i.dim
  <2>1. PICK d, a : i = [dim |-> d, accepts |-> a]
    BY DEF IsItem
  <2> QED
    BY <2>1 DEF IsItem
<1>2. Strip(items) = {new(i) : i \in items}
  BY DEF Strip
<1> HIDE DEF new
<1>3. ASSUME NEW dim \in {"image", "label", "annotation"}
      PROVE  Collect(Strip(items), dim) = Collect(items, dim)
  <2>1. ASSUME NEW a PROVE a \in Collect(Strip(items), dim) <=> \E i \in items : new(i).dim = dim /\ a = new(i).accepts
    BY <1>2 DEF Collect
  <2>2. ASSUME NEW a PROVE a \in Collect(items, dim) <=> \E i \in items : i.dim = dim /\ a = i.accepts
    BY DEF Collect
  <2>3. \A i \in items : new(i).dim = dim <=> i.dim = dim
    BY <1>1 DEF NoDimension
  <2>4. \A a : a \in Collect(Strip(items), dim) <=> a \in Collect(items, dim)
    BY <1>1, <2>1, <2>2, <2>3
  <2> QED
    BY <2>4
<1> QED
  BY <1>1, <1>2, <1>3

LEMMA ToFilterFacts ==
    ASSUME NEW filter, \A i \in filter.include \cup filter.exclude : IsItem(i)
    PROVE  /\ \A i \in ToFilter(filter).include \cup ToFilter(filter).exclude : IsItem(i)
           /\ IsEmpty(ToFilter(filter)) <=> IsEmpty(filter)
           /\ \A dim \in {"image", "label", "annotation"} :
                 /\ Collect(ToFilter(filter).include, dim) = Collect(filter.include, dim)
                 /\ Collect(ToFilter(filter).exclude, dim) = Collect(filter.exclude, dim)
<1>1. ToFilter(filter).include = Strip(filter.include) /\ ToFilter(filter).exclude = Strip(filter.exclude)
  BY DEF ToFilter, Strip
<1> QED
  BY <1>1, StripFacts DEF IsEmpty

\* What the items of one dimension decide.
DimensionAllows(filter, pod, image, dim) ==
    /\ \A i \in filter.include \cup filter.exclude : i.dim = dim => i.accepts # Broken
    /\ \A i \in filter.exclude : i.dim = dim => Value(pod, image, dim) \notin i.accepts
    /\ (\E i \in filter.include : i.dim = dim)
           => \E j \in filter.include : j.dim = dim /\ Value(pod, image, dim) \in j.accepts

LEMMA CollectFacts ==
    ASSUME NEW items, NEW dim
    PROVE  /\ \A a : a \in Collect(items, dim) <=> \E i \in items : i.dim = dim /\ i.accepts = a
           /\ Collect(items, dim) = {} <=> ~\E i \in items : i.dim = dim
BY DEF Collect

\* One that must be matched by something, by everything if nothing is said,
LEMMA IncludeExcludeFacts ==
    ASSUME NEW filter, NEW pod, NEW image, NEW dim, Value(pod, image, dim) \in Anything,
           Broken # Anything,
           NEW include, include = DefaultedToMatchAll(Collect(filter.include, dim)),
           NEW exclude, exclude = Collect(filter.exclude, dim)
    PROVE  (Compiles(include, exclude) /\ IncludeExclude(include, exclude, Value(pod, image, dim)))
               <=> DimensionAllows(filter, pod, image, dim)
<1>1. CASE Collect(filter.include, dim) = {}
  <2>1. include = {Anything} /\ ~\E i \in filter.include : i.dim = dim
    BY <1>1, CollectFacts DEF DefaultedToMatchAll
  <2> QED
    BY <2>1, CollectFacts DEF Compiles, IncludeExclude, DimensionAllows
<1>2. CASE Collect(filter.include, dim) # {}
  <2>1. include = Collect(filter.include, dim) /\ \E i \in filter.include : i.dim = dim
    BY <1>2, CollectFacts DEF DefaultedToMatchAll
  <2> QED
    BY <2>1, CollectFacts DEF Compiles, IncludeExclude, DimensionAllows
<1> QED
  BY <1>1, <1>2

\* and one where saying nothing matches everything by itself.
LEMMA SelectorSetsFacts ==
    ASSUME NEW filter, NEW pod, NEW image, NEW dim,
           NEW include, include = Collect(filter.include, dim),
           NEW exclude, exclude = Collect(filter.exclude, dim)
    PROVE  (Compiles(include, exclude) /\ SelectorSets(include, exclude, Value(pod, image, dim)))
               <=> DimensionAllows(filter, pod, image, dim)
<1>1. include # {} <=> \E i \in filter.include : i.dim = dim
  BY CollectFacts
<1> QED
  BY <1>1, CollectFacts DEF Compiles, SelectorSets, DimensionAllows

LEMMA AppliesFacts ==
    ASSUME NEW filter, NEW legacy, NEW pod \in PodKinds, NEW image \in ImageNames, ~IsEmpty(filter),
           \A i \in filter.include \cup filter.exclude : IsItem(i) /\ i.dim \in Dimensions
    PROVE  Applies(filter, legacy, pod, image) <=> DocumentedFilter(filter, pod, image)
<1>0. /\ Broken # Anything /\ image \in Anything /\ pod.namespace \in Anything
      /\ Value(pod, image, "image") = image /\ Value(pod, image, "namespace") = pod.namespace
      /\ Value(pod, image, "label") = pod["label"] /\ Value(pod, image, "annotation") = pod["annotation"]
  BY DecisionsAssumption DEF Value
<1>1. SelectsImage(filter, legacy, image) <=> DimensionAllows(filter, pod, image, "image")
  <2>1. PICK include, exclude : /\ include = DefaultedToMatchAll(Collect(filter.include, "image"))
                                /\ exclude = Collect(filter.exclude, "image")
    OBVIOUS
  <2>2. ImagePatterns(filter, legacy) = [include |-> include, exclude |-> exclude]
    BY <2>1, ToFilterFacts DEF ImagePatterns
  <2>3. SelectsImage(filter, legacy, image)
            <=> Compiles(include, exclude) /\ IncludeExclude(include, exclude, image)
    BY <2>2 DEF SelectsImage
  <2> QED
    BY <1>0, <2>1, <2>3, IncludeExcludeFacts
<1>2. MatchesPod(ToFilter(filter), pod)
          <=> \A dim \in {"label", "annotation"} : DimensionAllows(filter, pod, image, dim)
  <2>1. ASSUME NEW dim \in {"label", "annotation"}
        PROVE  (/\ Compiles(Collect(filter.include, dim), Collect(filter.exclude, dim))
                /\ SelectorSets(Collect(filter.include, dim), Collect(filter.exclude, dim), pod[dim]))
               <=> DimensionAllows(filter, pod, image, dim)
    <3>1. pod[dim] = Value(pod, image, dim)
      BY <1>0
    <3> QED
      BY <3>1, SelectorSetsFacts
  <2> QED
    BY <2>1, ToFilterFacts DEF MatchesPod
<1>3. SelectsPod(filter, pod) <=> MatchesPod(ToFilter(filter), pod) /\ DimensionAllows(filter, pod, image, "namespace")
  <2>1. PICK include, exclude : /\ include = DefaultedToMatchAll(Collect(filter.include, "namespace"))
                                /\ exclude = Collect(filter.exclude, "namespace")
    OBVIOUS
  <2>2. SelectsPod(filter, pod) <=> /\ MatchesPod(ToFilter(filter), pod)
                                    /\ Compiles(include, exclude)
                                    /\ IncludeExclude(include, exclude, pod.namespace)
    BY <2>1 DEF SelectsPod
  <2> QED
    BY <1>0, <2>1, <2>2, IncludeExcludeFacts
<1>4. DocumentedFilter(filter, pod, image) <=> \A dim \in Dimensions : DimensionAllows(filter, pod, image, dim)
  BY DEF DocumentedFilter, DimensionAllows
<1> QED
  BY <1>1, <1>2, <1>3, <1>4 DEF Applies, Dimensions

\* The flattened copy of a filter takes the same images.
LEMMA FlattenedFacts ==
    ASSUME NEW filter, NEW legacy, NEW pod, NEW image,
           \A i \in filter.include \cup filter.exclude : IsItem(i)
    PROVE  AppliesFlattened(filter, legacy, pod, image) <=> Applies(filter, legacy, pod, image)
<1>1. PICK flat : flat = ToFilter(filter)
  OBVIOUS
<1>2. /\ \A i \in flat.include \cup flat.exclude : IsItem(i)
      /\ IsEmpty(flat) <=> IsEmpty(filter)
  BY <1>1, ToFilterFacts
<1>3. /\ Collect(ToFilter(flat).include, "image") = Collect(flat.include, "image")
      /\ Collect(ToFilter(flat).exclude, "image") = Collect(flat.exclude, "image")
  BY <1>2, ToFilterFacts
<1>4. ImagePatterns(flat, legacy) = ImagePatterns(filter, legacy)
  BY <1>1, <1>2, <1>3 DEF ImagePatterns
<1> QED
  BY <1>1, <1>4 DEF AppliesFlattened, Applies, SelectsImage

-----------------------------------------------------------------------------
(* Checks. *)

Answers == Seq(Answer) \ {<< >>}

LEMMA AnswersFacts ==
    ASSUME NEW answers \in Answers
    PROVE  /\ Len(answers) \in Nat \ {0} /\ DOMAIN answers = 1 .. Len(answers)
           /\ \A k \in 1 .. Len(answers) : answers[k] \in Answer /\ answers[k].status \in Nat
<1>1. answers \in Seq(Answer) /\ answers # << >>
  BY DEF Answers
<1>2. /\ Len(answers) \in Nat /\ DOMAIN answers = 1 .. Len(answers)
      /\ \A k \in 1 .. Len(answers) : answers[k] \in Answer
  BY <1>1, LenProperties
<1>3. Len(answers) # 0
  BY <1>1, EmptySeq
<1> QED
  BY <1>2, <1>3 DEF Answer

\* A request succeeds when some credential is served.
LEMMA SucceedsFacts ==
    ASSUME NEW answers \in Answers
    PROVE  Succeeds(answers) <=> \E a \in ToSet(answers) : a.status = OK
<1> DEFINE S == {k \in 1 .. Len(answers) : answers[k].status = OK}
           success == SelectInSeq(answers, LAMBDA a : a.status = OK)
<1>1. success = IF S # {} THEN Min(S) ELSE 0
  BY DEF SelectInSeq
<1>0. Tried(answers) = IF success = 0 THEN answers ELSE SubSeq(answers, 1, success)
  BY DEF Tried
<1>2. (\E a \in ToSet(answers) : a.status = OK) <=> S # {}
  BY AnswersFacts DEF ToSet
<1>3. CASE S = {}
  <2>1. Tried(answers) = answers
    BY <1>0, <1>1, <1>3
  <2>2. answers[Len(answers)].status # OK
    BY <1>3, AnswersFacts
  <2> QED
    BY <1>2, <1>3, <2>1, <2>2 DEF Succeeds, Last
<1>4. CASE S # {}
  <2>1. success \in S
    <3>1. Len(answers) \in Nat /\ S \in SUBSET (1 .. Len(answers))
      BY AnswersFacts
    <3> HIDE DEF S
    <3> QED
      BY <1>1, <1>4, <3>1, FirstPlace
  <2>2. success \in 1 .. Len(answers) /\ answers[success].status = OK
    BY <2>1
  <2>3. Tried(answers) = SubSeq(answers, 1, success)
    <3> HIDE DEF success
    <3>1. success # 0
      BY <2>2, AnswersFacts
    <3> QED
      BY <1>0, <3>1
  <2> HIDE DEF success
  <2>4. Len(SubSeq(answers, 1, success)) = success /\ SubSeq(answers, 1, success)[success] = answers[success]
    BY <2>2, AnswersFacts DEF Answers
  <2> QED
    BY <1>2, <1>4, <2>2, <2>3, <2>4 DEF Succeeds, Last
<1> QED
  BY <1>3, <1>4

\* The status that decides is one of those that came.
LEMMA StatusCodeFacts ==
    ASSUME NEW answers \in Answers, StatusCode(answers) # Lost
    PROVE  \E a \in ToSet(answers) : a.status = StatusCode(answers)
<1> DEFINE S == {k \in 1 .. Len(answers) : answers[k].status # Lost}
           first == SelectInSeq(answers, LAMBDA a : a.status # Lost)
<1>1. first = IF S # {} THEN Min(S) ELSE 0
  BY DEF SelectInSeq
<1>2. StatusCode(answers) = IF first = 0 THEN Lost ELSE answers[first].status
  BY DEF StatusCode
<1>3. S # {}
  BY <1>1, <1>2
<1>4. first \in S
  <2>1. Len(answers) \in Nat /\ S \in SUBSET (1 .. Len(answers))
    BY AnswersFacts
  <2> HIDE DEF S
  <2> QED
    BY <1>1, <1>3, <2>1, FirstPlace
<1>5. first \in DOMAIN answers /\ first # 0
  BY <1>4, AnswersFacts
<1> QED
  BY <1>2, <1>5 DEF ToSet

\* What is concluded from answers that are not those of a success.
LEMMA ErrorFacts ==
    ASSUME NEW status
    PROVE  /\ AvailabilityFromError(status) # "Available"
           /\ AvailabilityFromError(status) = "NotFound" => status = 404
BY DEF AvailabilityFromError
-----------------------------------------------------------------------------
(* Decisions. *)

ListOf(r) == AlternativesList(r.mirrors, r.replicas, r.image, r.pinned)
Verdict(c) == CheckImageAvailability(c.method, c.resolveDigest, c.isDigest, c.answers, c.digestAnswers)
Selection(f) == {x \in PodKinds \X ImageNames : Applies(f.filter, f.legacy, x[1], x[2])}

\* A decision is taken once, on one of the inputs, as the code takes it.
DecidedInv ==
    /\ decision.of = "route" => decision.in \in Routes /\ decision.out = ListOf(decision.in)
    /\ decision.of = "check" => decision.in \in Checks /\ decision.out = Verdict(decision.in)
    /\ decision.of = "select" => decision.in \in FilterSpecs /\ decision.out = Selection(decision.in)
    /\ decision.of = "lookup" => decision.in \in Lookups /\ decision.out = Keychains(decision.in.secrets, decision.in.repository)

LEMMA DecidedFacts ==
    /\ Init => DecidedInv
    /\ DecidedInv /\ [Next]_decision => DecidedInv'
<1>1. Init => DecidedInv
  BY DEF Init, DecidedInv
<1>2. ASSUME DecidedInv, [Next]_decision PROVE DecidedInv'
  <2>1. CASE Route
    BY <2>1 DEF Route, Decide, DecidedInv, ListOf
  <2>2. CASE Select
    BY <2>2 DEF Select, Decide, DecidedInv, Selection
  <2>3. CASE Check
    BY <2>3 DEF Check, Decide, DecidedInv, Verdict
  <2>4. CASE LookUp
    BY <2>4 DEF LookUp, Decide, DecidedInv
  <2>5. CASE UNCHANGED decision
    BY <1>2, <2>5 DEF DecidedInv
  <2> QED
    BY <1>2, <2>1, <2>2, <2>3, <2>4, <2>5 DEF Next, Decided
<1> QED
  BY <1>1, <1>2

LEMMA AlwaysDecided == Spec => []DecidedInv
BY DecidedFacts, PTL DEF Spec

\* A resource applies to the pods and images that the documentation says,
\* whatever its filter: broken items, several dimensions, excludes alone.
THEOREM FilterCorrect == Spec => []FilterAsDocumented
<1>1. DecidedInv => FilterAsDocumented
  <2> SUFFICES ASSUME DecidedInv, decision.of = "select", ~IsEmpty(decision.in.filter)
               PROVE  decision.out = {x \in PodKinds \X ImageNames :
                                         DocumentedFilter(decision.in.filter, x[1], x[2])}
    BY DEF FilterAsDocumented
  <2>1. PICK f \in FilterSpecs : f = decision.in /\ decision.out = Selection(f)
    BY DEF DecidedInv
  <2>2. \A i \in f.filter.include \cup f.filter.exclude : IsItem(i) /\ i.dim \in Dimensions
    BY DecisionsAssumption DEF IsItem
  <2>3. \A p \in PodKinds, i \in ImageNames :
            Applies(f.filter, f.legacy, p, i) <=> DocumentedFilter(f.filter, p, i)
    BY <2>1, <2>2, AppliesFacts
  <2> QED
    BY <2>1, <2>3 DEF Selection
<1> QED
  BY <1>1, AlwaysDecided, PTL

\* The webhook, which asks a flattened copy of the set, and the reconcilers take
\* the same images of the same pods.
THEOREM SelectionsAgree == Spec => []SameImagesForAll
<1>1. DecidedInv => SameImagesForAll
  <2> SUFFICES ASSUME DecidedInv, decision.of = "select"
               PROVE  decision.out = {x \in PodKinds \X ImageNames :
                          AppliesFlattened(decision.in.filter, decision.in.legacy, x[1], x[2])}
    BY DEF SameImagesForAll
  <2>1. PICK f \in FilterSpecs : f = decision.in /\ decision.out = Selection(f)
    BY DEF DecidedInv
  <2>2. \A i \in f.filter.include \cup f.filter.exclude : IsItem(i)
    BY DecisionsAssumption DEF IsItem
  <2>3. \A p, i : AppliesFlattened(f.filter, f.legacy, p, i) <=> Applies(f.filter, f.legacy, p, i)
    BY <2>2, FlattenedFacts
  <2> QED
    BY <2>1, <2>3 DEF Selection
<1> QED
  BY <1>1, AlwaysDecided, PTL

\* An image is called available only if it was served, by its digest too if that
\* is asked for, and is whenever it was; for any number of credentials.
THEOREM AvailableCorrect == Spec => []AvailableIsPullable
<1>1. DecidedInv => AvailableIsPullable
  <2> SUFFICES ASSUME DecidedInv, decision.of = "check" PROVE AvailableIsPullable
    BY DEF AvailableIsPullable
  <2>1. PICK c \in Checks : c = decision.in /\ decision.out = Verdict(c)
    BY DEF DecidedInv
  <2>2. c.answers \in Answers /\ c.digestAnswers \in Answers
    BY DecisionsAssumption DEF Answers
  <2>3. PICK as, ds : as = c.answers /\ ds = c.digestAnswers
    OBVIOUS
  <2> DEFINE Served(answers) == /\ \E a \in ToSet(answers) : a.status = OK
                                /\ ~RateLimited(answers)
             NoHead == /\ c.method = "HEAD"
                       /\ \A a \in ToSet(ds) : a.status # OK
                       /\ \E a \in ToSet(ds) : a.status \in {405, 501}
             ByDigest == c.resolveDigest /\ ~c.isDigest
  <2>4. /\ Served(as) <=> Succeeds(as) /\ ~RateLimited(as)
        /\ Served(ds) <=> Succeeds(ds) /\ ~RateLimited(ds)
        /\ ~Succeeds(ds) => \A a \in ToSet(ds) : a.status # OK
    BY <2>2, <2>3, SucceedsFacts
  <2>5. StatusCode(ds) \in {405, 501} => \E a \in ToSet(ds) : a.status \in {405, 501}
    <3>1. StatusCode(ds) \in {405, 501} => StatusCode(ds) # Lost
      BY DEF Lost
    <3> QED
      BY <2>2, <2>3, <3>1, StatusCodeFacts
  <2>6. Verdict(c) = CheckImageAvailability(c.method, c.resolveDigest, c.isDigest, as, ds)
    BY <2>3 DEF Verdict
  <2> HIDE DEF Served, NoHead
  <2>7. Verdict(c) = "Available" => Served(as) /\ (ByDigest => Served(ds) \/ NoHead)
    <3> SUFFICES ASSUME Verdict(c) = "Available"
                 PROVE  Served(as) /\ (ByDigest => Served(ds) \/ NoHead)
      OBVIOUS
    <3>1. Succeeds(as) /\ ~RateLimited(as)
      BY <2>6, ErrorFacts DEF CheckImageAvailability
    <3>2. ASSUME ByDigest PROVE Served(ds) \/ NoHead
      <4>1. CheckDigestPath(c.method, c.isDigest, ds) = "Available"
        BY <2>6, <3>1, <3>2 DEF CheckImageAvailability
      <4>2. ~RateLimited(ds) /\ (Succeeds(ds) \/ (StatusCode(ds) \in {405, 501} /\ c.method = "HEAD"))
        BY <3>2, <4>1, ErrorFacts DEF CheckDigestPath
      <4> QED
        BY <2>4, <2>5, <4>2 DEF NoHead
    <3> QED
      BY <2>4, <3>1, <3>2
  <2>8. Served(as) /\ (ByDigest => Served(ds)) => Verdict(c) = "Available"
    BY <2>4, <2>6 DEF CheckImageAvailability, CheckDigestPath
  <2> QED
    BY <2>1, <2>3, <2>7, <2>8 DEF AvailableIsPullable, Served, NoHead
<1> QED
  BY <1>1, AlwaysDecided, PTL

\* An image is called missing only if a registry said so and served no
\* credential; for any number of credentials and all other answers.
THEOREM NotFoundCorrect == Spec => []NotFoundIsCertain
<1>1. DecidedInv => NotFoundIsCertain
  <2> SUFFICES ASSUME DecidedInv, decision.of = "check", decision.out = "NotFound"
               PROVE  NotFoundIsCertain
    BY DEF NotFoundIsCertain
  <2>1. PICK c \in Checks : c = decision.in /\ decision.out = Verdict(c)
    BY DEF DecidedInv
  <2>2. c.answers \in Answers /\ c.digestAnswers \in Answers
    BY DecisionsAssumption DEF Answers
  <2> DEFINE Missing(answers) == /\ \E a \in ToSet(answers) : a.status = 404
                                 /\ \A a \in ToSet(answers) : a.status # OK
  <2>3. \A answers \in Answers : ~Succeeds(answers) /\ StatusCode(answers) = 404 => Missing(answers)
    BY SucceedsFacts, StatusCodeFacts DEF Lost
  <2> HIDE DEF Missing
  <2>4. \/ ~Succeeds(c.answers) /\ StatusCode(c.answers) = 404
        \/ c.resolveDigest /\ ~Succeeds(c.digestAnswers) /\ StatusCode(c.digestAnswers) = 404
    BY <2>1, ErrorFacts DEF Verdict, CheckImageAvailability, CheckDigestPath
  <2>5. Missing(c.answers) \/ (c.resolveDigest /\ Missing(c.digestAnswers))
    BY <2>2, <2>3, <2>4
  <2> QED
    BY <2>1, <2>5 DEF NotFoundIsCertain, Missing
<1> QED
  BY <1>1, AlwaysDecided, PTL

\* What was collected for an input, and what it was made of.
OffersFor(r) == Collected(r.mirrors, r.replicas, r.image, r.pinned)

LEMMA RouteFacts ==
    ASSUME NEW r \in Routes
    PROVE  /\ AreOffered(OffersFor(r))
           /\ \A o \in ToSet(OffersFor(r)) :
                 \/ o \in ToSet(Base(r.replicas, r.image, r.pinned))
                 \/ \E s \in ToSet(r.mirrors) : s.name = o.set
           /\ ListOf(r) = Distinct(SortStable(OffersFor(r)))
<1>1. PICK ms, rs, i, p : ms = r.mirrors /\ rs = r.replicas /\ i = r.image /\ p = r.pinned
  OBVIOUS
<1>2. /\ IsSequence(ms) /\ \A s \in ToSet(ms) : IsMirrorSet(s)
      /\ IsSequence(rs) /\ \A s \in ToSet(rs) : IsReplicatedSet(s)
      /\ MinInt \in Int
  BY <1>1, DecisionsAssumption
<1>3. PICK offers : offers = Collected(ms, rs, i, p)
  OBVIOUS
<1>4. /\ AreOffered(offers)
      /\ \A o \in ToSet(offers) :
            \/ o \in ToSet(Base(rs, i, p))
            \/ \E s \in ToSet(ms) : s.name = o.set
  BY <1>2, <1>3, CollectedFacts
<1> QED
  BY <1>1, <1>3, <1>4 DEF OffersFor, ListOf, AlternativesList

LEMMA ComparedAsDocumented ==
    ASSUME NEW a, NEW b
    PROVE  Compare(a, b) <=> DocumentedBefore(a, b)
BY CompareFacts DEF DocumentedBefore, BeforeButForPlace, Prio, Type, Intra, Place

\* Each reference that is offered is tried once, at the place that the
\* documentation gives to the best of its offers; for any number of sets,
\* mirrors and upstreams.
THEOREM OrderCorrect == Spec => []DocumentedOrder
<1>1. DecidedInv => DocumentedOrder
  <2> SUFFICES ASSUME DecidedInv, decision.of = "route" PROVE DocumentedOrder
    BY DEF DocumentedOrder
  <2>1. PICK r \in Routes : r = decision.in /\ decision.out = ListOf(r)
    BY DEF DecidedInv
  <2>2. PICK offers, list : offers = OffersFor(r) /\ list = ListOf(r)
    OBVIOUS
  <2>3. AreOffered(offers) /\ list = Distinct(SortStable(offers))
    BY <2>2, RouteFacts
  <2>4. /\ IsSequence(list) /\ ToSet(list) \subseteq ToSet(offers)
        /\ \A o \in ToSet(offers) : \E k \in DOMAIN list : list[k].reference = o.reference
        /\ \A j, k \in DOMAIN list : j < k =>
              /\ list[j].reference # list[k].reference
              /\ \A b \in ToSet(offers) : b.reference = list[k].reference => ~Compare(b, list[j])
    BY <2>3, ListFacts
  <2>5. \A k \in DOMAIN list : list[k] \in ToSet(offers)
    BY <2>4 DEF ToSet
  <2>6. {list[k].reference : k \in DOMAIN list} = {o.reference : o \in ToSet(offers)}
    BY <2>4, <2>5
  <2>7. TriedInOrder(list, ToSet(offers), DocumentedBefore)
    BY <2>4, <2>5, <2>6, ComparedAsDocumented DEF TriedInOrder
  <2> QED
    BY <2>1, <2>2, <2>7 DEF DocumentedOrder, OffersFor
<1> QED
  BY <1>1, AlwaysDecided, PTL

\* An image is tried only where a mirror leads to it, an upstream that is not
\* discarded, or the original that no set discards.
THEOREM DiscardCorrect == Spec => []DiscardedIsNotTried
<1>1. DecidedInv => DiscardedIsNotTried
  <2> SUFFICES ASSUME DecidedInv, decision.of = "route" PROVE DiscardedIsNotTried
    BY DEF DiscardedIsNotTried
  <2>1. PICK r \in Routes : r = decision.in /\ decision.out = ListOf(r)
    BY DEF DecidedInv
  <2>2. PICK ms, rs, i, p : ms = r.mirrors /\ rs = r.replicas /\ i = r.image /\ p = r.pinned
    OBVIOUS
  <2>3. IsSequence(rs) /\ (\A s \in ToSet(rs) : IsReplicatedSet(s)) /\ IsSequence(i) /\ MinInt \in Int
    BY <2>2, DecisionsAssumption
  <2> DEFINE Discarding(s) == LET m == Matching(s.set, i) IN m # 0 /\ s.set.upstreams[m].discard
             ByMirror(o) == \E s \in ToSet(ms) : s.name = o.set
             ByUpstream(o) == \E s \in ToSet(rs) :
                                  /\ s.name = o.set
                                  /\ \E u \in ToSet(s.set.upstreams) :
                                         Routable(u) /\ IsPrefix(Location(u), o.reference)
             AsOriginal(o) == o.set = NoSet /\ ~\E s \in ToSet(rs) : Discarding(s)
  <2>4. \A o \in ToSet(ListOf(r)) : o \in ToSet(Base(rs, i, p)) \/ ByMirror(o)
    BY <2>2, RouteFacts, ListFacts
  <2>5. ASSUME NEW o \in ToSet(Base(rs, i, p)) PROVE ByUpstream(o) \/ AsOriginal(o)
    <3>1. CASE \E s \in ToSet(rs) : \E d \in DOMAIN s.set.upstreams :
                   IsOffered(s.set, d, i) /\ o = UpstreamOffer(s, d, i)
      <4>1. PICK s \in ToSet(rs) : \E d \in DOMAIN s.set.upstreams :
                     IsOffered(s.set, d, i) /\ o = UpstreamOffer(s, d, i)
        BY <3>1
      <4>2. PICK d \in DOMAIN s.set.upstreams : IsOffered(s.set, d, i) /\ o = UpstreamOffer(s, d, i)
        BY <4>1
      <4>3. /\ o.set = s.name
            /\ \E u \in ToSet(s.set.upstreams) : Routable(u) /\ IsPrefix(Location(u), o.reference)
        BY <2>3, <4>2, UpstreamOfferPlace, UpstreamOfferKeys
      <4> QED
        BY <4>3
    <3>2. CASE ~DiscardOriginal(rs, i) /\ o = OriginalOffer(i, p)
      BY <3>2 DEF DiscardOriginal, OriginalOffer, Offer
    <3> QED
      BY <2>3, <3>1, <3>2, BaseFacts
  <2>6. \A o \in ToSet(decision.out) : ByMirror(o) \/ ByUpstream(o) \/ AsOriginal(o)
    BY <2>1, <2>4, <2>5
  <2> QED
    BY <2>1, <2>2, <2>6 DEF DiscardedIsNotTried
<1> QED
  BY <1>1, AlwaysDecided, PTL
-----------------------------------------------------------------------------
(* What does not compile. *)

\* The first upstream that matches.
LEMMA MatchingFacts ==
    ASSUME NEW set, IsSequence(set.upstreams), NEW image, NEW m, m = Matching(set, image)
    PROVE  /\ m = 0 <=> \A d \in DOMAIN set.upstreams : ~Matches(set.upstreams[d], image)
           /\ m # 0 => /\ m \in DOMAIN set.upstreams /\ Matches(set.upstreams[m], image)
                       /\ \A d \in DOMAIN set.upstreams : Matches(set.upstreams[d], image) => m <= d
<1> DEFINE us == set.upstreams
           S == {k \in 1 .. Len(us) : Matches(us[k], image)}
<1>1. m = IF S # {} THEN Min(S) ELSE 0
  BY DEF Matching, SelectInSeq
<1>2. Len(us) \in Nat /\ DOMAIN us = 1 .. Len(us)
  BY SequenceFacts
<1>3. S # {} => Min(S) \in S /\ \A k \in S : Min(S) <= k
  <2>1. S \in SUBSET (1 .. Len(us))
    OBVIOUS
  <2> HIDE DEF S, us
  <2> QED
    BY <1>2, <2>1, FirstPlace
<1>4. 0 \notin S
  OBVIOUS
<1> HIDE DEF us
<1>5. \A d \in DOMAIN us : d \in S <=> Matches(us[d], image)
  BY <1>2
<1>6. S \subseteq DOMAIN us
  BY <1>2
<1> HIDE DEF S
<1>7. /\ m = 0 <=> S = {}
      /\ m # 0 => m \in S /\ \A k \in S : m <= k
  BY <1>1, <1>3, <1>4
<1>8. S = {} <=> \A d \in DOMAIN us : ~Matches(us[d], image)
  BY <1>5, <1>6
<1>9. /\ m = 0 <=> \A d \in DOMAIN us : ~Matches(us[d], image)
      /\ m # 0 => /\ m \in DOMAIN us /\ Matches(us[m], image)
                  /\ \A d \in DOMAIN us : Matches(us[d], image) => m <= d
  BY <1>5, <1>6, <1>7, <1>8
<1> QED
  BY <1>9 DEF us

\* A set matches by the same upstream when those that do not compile are taken
\* out, and offers the same.
LEMMA RepairedFacts ==
    ASSUME NEW s, IsReplicatedSet(s), NEW image, NEW us, us = s.set.upstreams,
           NEW t, t = Repaired(s), NEW vs, vs = t.set.upstreams
    PROVE  /\ IsReplicatedSet(t) /\ t.name = s.name
           /\ t.set.priority = s.set.priority /\ t.set.cluster = s.set.cluster
           /\ Matching(t.set, image) = 0 <=> Matching(s.set, image) = 0
           /\ Matching(s.set, image) # 0 =>
                 vs[Matching(t.set, image)] = us[Matching(s.set, image)]
           /\ \A d \in DOMAIN us : us[d].valid => \E n \in DOMAIN vs : vs[n] = us[d]
           /\ \A n \in DOMAIN vs : \E d \in DOMAIN us : us[d].valid /\ vs[n] = us[d]
<1> DEFINE P == {d \in DOMAIN us : us[d].valid}
<1>1. /\ t.name = s.name /\ t.set.priority = s.set.priority /\ t.set.cluster = s.set.cluster
      /\ t.set.upstreams = vs /\ vs = Only(us, P)
  BY DEF Repaired
<1>2. IsSequence(us) /\ \A u \in ToSet(us) : u.priority \in Int /\ IsSequence(u.path)
  BY DEF IsReplicatedSet
<1>3. IsSequence(vs) /\ ToSet(vs) = {us[k] : k \in P} /\ \E at : LeftAt(vs, us, P, at)
  <2>1. P \in SUBSET DOMAIN us
    OBVIOUS
  <2> HIDE DEF P
  <2> QED
    BY <1>1, <1>2, <2>1, OnlyFacts
<1>4. PICK at : LeftAt(vs, us, P, at)
  BY <1>3
<1>5. ToSet(vs) \subseteq ToSet(us)
  BY <1>3 DEF ToSet
<1>6. IsReplicatedSet(t)
  BY <1>1, <1>2, <1>3, <1>5 DEF IsReplicatedSet
<1>7. ASSUME NEW d \in DOMAIN us, us[d].valid PROVE \E n \in DOMAIN vs : at[n] = d /\ vs[n] = us[d]
  BY <1>4, <1>7 DEF LeftAt
<1>8. ASSUME NEW n \in DOMAIN vs PROVE at[n] \in DOMAIN us /\ us[at[n]].valid /\ vs[n] = us[at[n]]
  BY <1>4 DEF LeftAt
<1>9. \A u : Matches(u, image) => u.valid
  BY DEF Matches
<1>10. PICK m, k : m = Matching(s.set, image) /\ k = Matching(t.set, image)
  OBVIOUS
<1>11. /\ m = 0 <=> \A d \in DOMAIN us : ~Matches(us[d], image)
       /\ m # 0 => /\ m \in DOMAIN us /\ Matches(us[m], image)
                   /\ \A d \in DOMAIN us : Matches(us[d], image) => m <= d
  BY <1>2, <1>10, MatchingFacts
<1>12. /\ k = 0 <=> \A d \in DOMAIN vs : ~Matches(vs[d], image)
       /\ k # 0 => /\ k \in DOMAIN vs /\ Matches(vs[k], image)
                   /\ \A d \in DOMAIN vs : Matches(vs[d], image) => k <= d
  <2>1. PICK set : set = t.set
    OBVIOUS
  <2>2. set.upstreams = vs /\ IsSequence(set.upstreams) /\ k = Matching(set, image)
    BY <1>1, <1>3, <1>10, <2>1
  <2> HIDE DEF P
  <2>3. /\ k = 0 <=> \A d \in DOMAIN set.upstreams : ~Matches(set.upstreams[d], image)
        /\ k # 0 => /\ k \in DOMAIN set.upstreams /\ Matches(set.upstreams[k], image)
                    /\ \A d \in DOMAIN set.upstreams : Matches(set.upstreams[d], image) => k <= d
    BY <2>2, MatchingFacts
  <2> QED
    BY <2>2, <2>3
<1>13. m = 0 <=> k = 0
  BY <1>7, <1>8, <1>9, <1>11, <1>12
<1>14. ASSUME m # 0 PROVE vs[k] = us[m]
  <2>1. PICK n \in DOMAIN vs : at[n] = m /\ vs[n] = us[m]
    BY <1>7, <1>9, <1>11, <1>14
  <2>2. k \in DOMAIN vs /\ Matches(vs[k], image) /\ k <= n
    BY <1>11, <1>12, <1>13, <1>14, <2>1
  <2>3. m <= at[k]
    BY <1>8, <1>11, <1>14, <2>2
  <2>4. DOMAIN vs \in SUBSET Int /\ DOMAIN us \in SUBSET Int
    BY <1>2, <1>3, SequenceFacts
  <2>5. ~(k < n)
    <3>1. k < n => at[k] < at[n]
      BY <1>4, <2>2 DEF LeftAt
    <3> QED
      BY <1>8, <2>1, <2>2, <2>3, <2>4, <3>1
  <2>6. k = n
    BY <2>2, <2>4, <2>5
  <2> QED
    BY <2>1, <2>6
<1> QED
  BY <1>1, <1>6, <1>7, <1>8, <1>10, <1>13, <1>14

\* Offers that only the places in the YAML tell apart.
Alike(o, p) == o.reference = p.reference /\ \A k \in 1 .. 3 : o.key[k] = p.key[k]
Alikes(S, T) == (\A o \in S : \E p \in T : Alike(o, p)) /\ (\A p \in T : \E o \in S : Alike(o, p))

LEMMA UpstreamOffersAlike ==
    ASSUME NEW s, IsReplicatedSet(s), NEW image, NEW t, t = Repaired(s),
           NEW d \in DOMAIN s.set.upstreams, NEW n \in DOMAIN t.set.upstreams,
           s.set.upstreams[d] = t.set.upstreams[n]
    PROVE  /\ IsOffered(s.set, d, image) <=> IsOffered(t.set, n, image)
           /\ IsOffered(s.set, d, image) => Alike(UpstreamOffer(s, d, image), UpstreamOffer(t, n, image))
<1>1. PICK u : u = s.set.upstreams[d] /\ u = t.set.upstreams[n]
  OBVIOUS
<1>2. PICK m, k : m = Matching(s.set, image) /\ k = Matching(t.set, image)
  OBVIOUS
<1>3. /\ t.name = s.name /\ t.set.priority = s.set.priority /\ t.set.cluster = s.set.cluster
      /\ k = 0 <=> m = 0
      /\ m # 0 => t.set.upstreams[k] = s.set.upstreams[m]
  <2>1. PICK us, vs : us = s.set.upstreams /\ vs = t.set.upstreams
    OBVIOUS
  <2>2. /\ t.name = s.name /\ t.set.priority = s.set.priority /\ t.set.cluster = s.set.cluster
        /\ Matching(t.set, image) = 0 <=> Matching(s.set, image) = 0
        /\ Matching(s.set, image) # 0 =>
              vs[Matching(t.set, image)] = us[Matching(s.set, image)]
    BY <2>1, RepairedFacts
  <2> QED
    BY <1>2, <2>1, <2>2
<1>4. IsOffered(s.set, d, image) <=> m # 0 /\ Routable(u)
  BY <1>1, <1>2 DEF IsOffered
<1>5. IsOffered(t.set, n, image) <=> k # 0 /\ Routable(u)
  BY <1>1, <1>2 DEF IsOffered
<1>6. ASSUME m # 0 PROVE Alike(UpstreamOffer(s, d, image), UpstreamOffer(t, n, image))
  <2>1. PICK match : match = s.set.upstreams[m] /\ match = t.set.upstreams[k]
    BY <1>3, <1>6
  <2>2. ReplicaType(s.set) = ReplicaType(t.set)
    BY <1>3 DEF ReplicaType
  <2>3. PICK reference, type :
            /\ reference = Location(u) \o TrimPrefix(image, Location(match))
            /\ type = ReplicaType(s.set)
    OBVIOUS
  <2>4. /\ UpstreamOffer(s, d, image).reference = reference
        /\ UpstreamOffer(s, d, image).key = <<s.set.priority, type, u.priority, d>>
    BY <1>1, <1>2, <2>1, <2>3 DEF UpstreamOffer, Offer
  <2>5. /\ UpstreamOffer(t, n, image).reference = reference
        /\ UpstreamOffer(t, n, image).key = <<s.set.priority, type, u.priority, n>>
    BY <1>1, <1>2, <1>3, <2>1, <2>2, <2>3 DEF UpstreamOffer, Offer
  <2> QED
    BY <2>4, <2>5 DEF Alike
<1> QED
  BY <1>3, <1>4, <1>5, <1>6
LEMMA AllRepairedFacts ==
    ASSUME NEW sets, IsSequence(sets), \A s \in ToSet(sets) : IsReplicatedSet(s),
           NEW repaired, repaired = AllRepaired(sets)
    PROVE  /\ IsSequence(repaired) /\ \A t \in ToSet(repaired) : IsReplicatedSet(t)
           /\ \A s \in ToSet(sets) : Repaired(s) \in ToSet(repaired)
           /\ \A t \in ToSet(repaired) : \E s \in ToSet(sets) : t = Repaired(s)
<1>1. Len(sets) \in Nat /\ DOMAIN sets = 1 .. Len(sets)
  BY SequenceFacts
<1>2. repaired = [k \in 1 .. Len(sets) |-> Repaired(sets[k])]
  BY <1>1 DEF AllRepaired
<1>3. IsSequence(repaired) /\ DOMAIN repaired = 1 .. Len(sets)
  <2>1. repaired = [k \in 1 .. Len(sets) |-> repaired[k]]
    BY <1>2
  <2> QED
    BY <1>1, <2>1, MakesSequence
<1>4. \A s \in ToSet(sets) : \E k \in 1 .. Len(sets) : s = sets[k]
  BY SequenceFacts
<1>5. \A s \in ToSet(sets) : Repaired(s) \in ToSet(repaired)
  BY <1>2, <1>3, <1>4 DEF ToSet
<1>6. \A t \in ToSet(repaired) : \E s \in ToSet(sets) : t = Repaired(s)
  BY <1>1, <1>2, <1>3 DEF ToSet
<1> QED
  BY <1>3, <1>5, <1>6, RepairedFacts

LEMMA BaseAlike ==
    ASSUME NEW sets, IsSequence(sets), \A s \in ToSet(sets) : IsReplicatedSet(s),
           NEW image, NEW pinned, MinInt \in Int
    PROVE  Alikes(ToSet(Base(sets, image, pinned)), ToSet(Base(AllRepaired(sets), image, pinned)))
<1>1. PICK repaired : repaired = AllRepaired(sets)
  OBVIOUS
<1>2. /\ IsSequence(repaired) /\ \A t \in ToSet(repaired) : IsReplicatedSet(t)
      /\ \A s \in ToSet(sets) : Repaired(s) \in ToSet(repaired)
      /\ \A t \in ToSet(repaired) : \E s \in ToSet(sets) : t = Repaired(s)
  BY <1>1, AllRepairedFacts
<1>3. PICK S, T : S = ToSet(Base(sets, image, pinned)) /\ T = ToSet(Base(repaired, image, pinned))
  OBVIOUS
<1>4. \A x : x \in S <=>
         \/ \E s \in ToSet(sets) : \E d \in DOMAIN s.set.upstreams :
                IsOffered(s.set, d, image) /\ x = UpstreamOffer(s, d, image)
         \/ ~DiscardOriginal(sets, image) /\ x = OriginalOffer(image, pinned)
  BY <1>3, BaseFacts
<1>5. \A x : x \in T <=>
         \/ \E s \in ToSet(repaired) : \E d \in DOMAIN s.set.upstreams :
                IsOffered(s.set, d, image) /\ x = UpstreamOffer(s, d, image)
         \/ ~DiscardOriginal(repaired, image) /\ x = OriginalOffer(image, pinned)
  BY <1>2, <1>3, BaseFacts
<1>6. DiscardOriginal(sets, image) <=> DiscardOriginal(repaired, image)
  <2> DEFINE Discards(s) == /\ Matching(s.set, image) # 0
                            /\ s.set.upstreams[Matching(s.set, image)].discard
  <2>1. \A s \in ToSet(sets) : Discards(s) <=> Discards(Repaired(s))
    <3> SUFFICES ASSUME NEW s \in ToSet(sets) PROVE Discards(s) <=> Discards(Repaired(s))
      OBVIOUS
    <3>1. PICK t, us, vs : t = Repaired(s) /\ us = s.set.upstreams /\ vs = t.set.upstreams
      OBVIOUS
    <3>2. /\ Matching(t.set, image) = 0 <=> Matching(s.set, image) = 0
          /\ Matching(s.set, image) # 0 =>
                vs[Matching(t.set, image)] = us[Matching(s.set, image)]
      BY <3>1, RepairedFacts
    <3> QED
      BY <3>1, <3>2
  <2>2. /\ DiscardOriginal(sets, image) <=> \E s \in ToSet(sets) : Discards(s)
        /\ DiscardOriginal(repaired, image) <=> \E s \in ToSet(repaired) : Discards(s)
    BY DEF DiscardOriginal
  <2> HIDE DEF Discards
  <2> QED
    BY <1>2, <2>1, <2>2
<1>7. Alike(OriginalOffer(image, pinned), OriginalOffer(image, pinned))
  BY DEF Alike
<1>8. ASSUME NEW x \in S PROVE \E y \in T : Alike(x, y)
  <2>1. ASSUME NEW s \in ToSet(sets), NEW d \in DOMAIN s.set.upstreams,
               IsOffered(s.set, d, image), x = UpstreamOffer(s, d, image)
        PROVE  \E y \in T : Alike(x, y)
    <3>1. PICK t : t = Repaired(s)
      OBVIOUS
    <3>2. s.set.upstreams[d].valid
      BY <2>1 DEF IsOffered, Routable
    <3>3. PICK n \in DOMAIN t.set.upstreams : t.set.upstreams[n] = s.set.upstreams[d]
      BY <3>1, <3>2, RepairedFacts
    <3>4. IsOffered(t.set, n, image) /\ Alike(x, UpstreamOffer(t, n, image))
      BY <2>1, <3>1, <3>3, UpstreamOffersAlike
    <3>5. UpstreamOffer(t, n, image) \in T
      BY <1>2, <1>5, <3>1, <3>4
    <3> QED
      BY <3>4, <3>5
  <2> QED
    BY <1>4, <1>5, <1>6, <1>7, <2>1
<1>9. ASSUME NEW y \in T PROVE \E x \in S : Alike(x, y)
  <2>1. ASSUME NEW t \in ToSet(repaired), NEW n \in DOMAIN t.set.upstreams,
               IsOffered(t.set, n, image), y = UpstreamOffer(t, n, image)
        PROVE  \E x \in S : Alike(x, y)
    <3>1. PICK s \in ToSet(sets) : t = Repaired(s)
      BY <1>2
    <3>2. PICK d \in DOMAIN s.set.upstreams : s.set.upstreams[d] = t.set.upstreams[n]
      BY <3>1, RepairedFacts
    <3>3. IsOffered(s.set, d, image) /\ Alike(UpstreamOffer(s, d, image), y)
      BY <2>1, <3>1, <3>2, UpstreamOffersAlike
    <3>4. UpstreamOffer(s, d, image) \in S
      BY <1>4, <3>3
    <3> QED
      BY <3>3, <3>4
  <2> QED
    BY <1>4, <1>5, <1>6, <1>7, <2>1
<1> QED
  BY <1>1, <1>3, <1>8, <1>9 DEF Alikes

\* A round makes alike offers of alike offers.
LEMMA RoundAlike ==
    ASSUME NEW S, NEW T, AreOffered(S), AreOffered(T), Alikes(ToSet(S), ToSet(T)),
           NEW s, IsMirrorSet(s)
    PROVE  Alikes(ToSet(Round(S, s)), ToSet(Round(T, s)))
<1>1. \A o, p : Alike(o, p) => /\ o.reference = p.reference
                               /\ \A d : MirrorOffer(s, d, o) = MirrorOffer(s, d, p)
  BY DEF Alike, MirrorOffer
<1>2. \A o : Alike(o, o)
  BY DEF Alike
<1>3. \A x : x \in ToSet(Round(S, s)) <=>
         \/ x \in ToSet(S)
         \/ /\ s.set.valid
            /\ \E o \in ToSet(S), d \in DOMAIN s.set.mirrors :
                   o.reference \in s.set.accepts /\ x = MirrorOffer(s, d, o)
  BY RoundFacts
<1>4. \A x : x \in ToSet(Round(T, s)) <=>
         \/ x \in ToSet(T)
         \/ /\ s.set.valid
            /\ \E o \in ToSet(T), d \in DOMAIN s.set.mirrors :
                   o.reference \in s.set.accepts /\ x = MirrorOffer(s, d, o)
  BY RoundFacts
<1>5. /\ \A o \in ToSet(S) : \E p \in ToSet(T) : Alike(o, p)
      /\ \A p \in ToSet(T) : \E o \in ToSet(S) : Alike(o, p)
  BY DEF Alikes
<1>6. ASSUME NEW x \in ToSet(Round(S, s)) PROVE \E y \in ToSet(Round(T, s)) : Alike(x, y)
  <2>1. CASE x \in ToSet(S)
    BY <1>4, <1>5, <2>1
  <2>2. CASE x \notin ToSet(S)
    <3>1. PICK o \in ToSet(S), d \in DOMAIN s.set.mirrors :
              s.set.valid /\ o.reference \in s.set.accepts /\ x = MirrorOffer(s, d, o)
      BY <1>3, <2>2
    <3>2. PICK p \in ToSet(T) : Alike(o, p)
      BY <1>5
    <3>3. p.reference \in s.set.accepts /\ x = MirrorOffer(s, d, p)
      BY <1>1, <3>1, <3>2
    <3>4. x \in ToSet(Round(T, s))
      BY <1>4, <3>1, <3>3
    <3> QED
      BY <1>2, <3>4
  <2> QED
    BY <2>1, <2>2
<1>7. ASSUME NEW y \in ToSet(Round(T, s)) PROVE \E x \in ToSet(Round(S, s)) : Alike(x, y)
  <2>1. CASE y \in ToSet(T)
    BY <1>3, <1>5, <2>1
  <2>2. CASE y \notin ToSet(T)
    <3>1. PICK p \in ToSet(T), d \in DOMAIN s.set.mirrors :
              s.set.valid /\ p.reference \in s.set.accepts /\ y = MirrorOffer(s, d, p)
      BY <1>4, <2>2
    <3>2. PICK o \in ToSet(S) : Alike(o, p)
      BY <1>5
    <3>3. o.reference \in s.set.accepts /\ y = MirrorOffer(s, d, o)
      BY <1>1, <3>1, <3>2
    <3>4. y \in ToSet(Round(S, s))
      BY <1>3, <3>1, <3>3
    <3> QED
      BY <1>2, <3>4
  <2> QED
    BY <2>1, <2>2
<1> QED
  BY <1>6, <1>7 DEF Alikes

\* So do the rounds over all mirror sets and over those that compile: after the
\* same of these, whatever the others.
LEMMA AfterAlike ==
    ASSUME NEW sets, IsSequence(sets), \A s \in ToSet(sets) : IsMirrorSet(s),
           NEW rest, rest = WithoutBroken(sets),
           NEW S, NEW T, AreOffered(S), AreOffered(T), Alikes(ToSet(S), ToSet(T)),
           NEW after, after = AfterMirrors(sets, S), NEW afterRest, afterRest = AfterMirrors(rest, T)
    PROVE  /\ IsSequence(rest) /\ \A s \in ToSet(rest) : IsMirrorSet(s)
           /\ Alikes(ToSet(after[Len(sets)]), ToSet(afterRest[Len(rest)]))
<1> DEFINE P == {k \in DOMAIN sets : sets[k].set.valid}
           N == Len(sets)
           M == Len(rest)
<1>1. /\ N \in Nat /\ DOMAIN sets = 1 .. N
      /\ \A n \in 1 .. N : sets[n] \in ToSet(sets) /\ IsMirrorSet(sets[n])
  BY SequenceFacts
<1>2. IsSequence(rest) /\ ToSet(rest) = {sets[k] : k \in P} /\ \E at : LeftAt(rest, sets, P, at)
  <2>1. P \in SUBSET DOMAIN sets /\ rest = Only(sets, P)
    BY DEF WithoutBroken
  <2> HIDE DEF P
  <2> QED
    BY <2>1, OnlyFacts
<1>3. \A s \in ToSet(rest) : IsMirrorSet(s)
  BY <1>1, <1>2
<1>4. PICK at : LeftAt(rest, sets, P, at)
  BY <1>2
<1>5. M \in Nat /\ DOMAIN rest = 1 .. M
  BY <1>2, SequenceFacts
<1>6. /\ \A m \in 1 .. M : at[m] \in P /\ rest[m] = sets[at[m]]
      /\ \A x \in P : \E m \in 1 .. M : at[m] = x
      /\ \A k, m \in 1 .. M : k < m <=> at[k] < at[m]
  BY <1>4, <1>5 DEF LeftAt
<1>7. /\ after[0] = S
      /\ \A n \in 1 .. N : after[n] = Round(after[n - 1], sets[n])
      /\ \A n \in 0 .. N : AreOffered(after[n])
  BY <1>1, AfterMirrorsDefined, AfterMirrorsFacts
<1>8. /\ afterRest[0] = T
      /\ \A m \in 1 .. M : afterRest[m] = Round(afterRest[m - 1], rest[m])
      /\ \A m \in 0 .. M : AreOffered(afterRest[m])
  BY <1>2, <1>3, <1>5, AfterMirrorsDefined, AfterMirrorsFacts
<1> DEFINE Level(n, m) == \A k \in P : k <= n <=> \E q \in 1 .. m : at[q] = k
           Fine(n) == \A m \in 0 .. M : Level(n, m) => Alikes(ToSet(after[n]), ToSet(afterRest[m]))
           wrong == {n \in 0 .. N : ~Fine(n)}
<1>9. Fine(0)
  <2> SUFFICES ASSUME NEW m \in 0 .. M, Level(0, m) PROVE Alikes(ToSet(after[0]), ToSet(afterRest[m]))
    OBVIOUS
  <2>1. m = 0
    <3> SUFFICES ASSUME m # 0 PROVE FALSE
      OBVIOUS
    <3>1. m \in 1 .. m /\ m \in 1 .. M /\ at[m] \in P
      BY <1>5, <1>6
    <3>2. at[m] <= 0
      BY <3>1
    <3> QED
      BY <1>1, <3>1, <3>2
  <2> QED
    BY <1>7, <1>8, <2>1
<1>10. ASSUME NEW n \in 1 .. N, Fine(n - 1) PROVE Fine(n)
  <2> SUFFICES ASSUME NEW m \in 0 .. M, Level(n, m) PROVE Alikes(ToSet(after[n]), ToSet(afterRest[m]))
    OBVIOUS
  <2>0. n - 1 \in 0 .. N /\ n \in Int /\ \A k \in P : k \in Int
    BY <1>1
  <2>1. CASE ~sets[n].set.valid
    <3>1. after[n] = after[n - 1]
      BY <1>7, <2>1 DEF Round
    <3>2. \A k \in P : k <= n - 1 <=> k <= n
      BY <2>0, <2>1
    <3>3. Level(n - 1, m)
      BY <3>2
    <3> QED
      BY <1>10, <3>1, <3>3
  <2>2. CASE sets[n].set.valid
    <3>1. n \in P
      BY <1>1, <2>2
    <3>2. PICK q \in 1 .. m : at[q] = n
      BY <2>0, <3>1
    <3>3. q = m /\ m \in 1 .. M /\ m - 1 \in 0 .. M
      <4>1. q \in 1 .. M /\ m \in 1 .. M /\ m \in 1 .. m
        BY <1>5, <3>2
      <4>2. at[m] \in P /\ at[m] <= n
        BY <1>6, <4>1
      <4>3. ~(q < m)
        BY <1>6, <2>0, <3>2, <4>1, <4>2
      <4> QED
        BY <1>5, <3>2, <4>1, <4>3
    <3>4. Level(n - 1, m - 1)
      <4> SUFFICES ASSUME NEW k \in P PROVE k <= n - 1 <=> \E r \in 1 .. m - 1 : at[r] = k
        OBVIOUS
      <4>1. k <= n <=> \E r \in 1 .. m : at[r] = k
        OBVIOUS
      <4>2. k <= n - 1 <=> k <= n /\ k # n
        BY <2>0
      <4>3. (\E r \in 1 .. m - 1 : at[r] = k) <=> (\E r \in 1 .. m : at[r] = k) /\ k # n
        <5>1. ASSUME NEW r \in 1 .. m - 1 PROVE r \in 1 .. m /\ at[r] < n
          <6>1. r \in 1 .. M /\ r < m /\ r \in 1 .. m
            BY <1>5, <3>3
          <6> QED
            BY <1>6, <3>2, <3>3, <6>1
        <5>2. ASSUME NEW r \in 1 .. m, at[r] = k, k # n PROVE r \in 1 .. m - 1
          <6>1. r # m
            BY <3>2, <3>3, <5>2
          <6> QED
            BY <1>5, <3>3, <6>1
        <5> QED
          BY <2>0, <5>1, <5>2
      <4> QED
        BY <4>1, <4>2, <4>3
    <3>5. Alikes(ToSet(after[n - 1]), ToSet(afterRest[m - 1]))
      BY <1>10, <3>3, <3>4
    <3>6. sets[n] = rest[m] /\ IsMirrorSet(sets[n])
      BY <1>1, <1>6, <3>2, <3>3
    <3>7. /\ after[n] = Round(after[n - 1], sets[n]) /\ AreOffered(after[n - 1])
          /\ afterRest[m] = Round(afterRest[m - 1], sets[n]) /\ AreOffered(afterRest[m - 1])
      BY <1>7, <1>8, <2>0, <3>3, <3>6
    <3> QED
      BY <3>5, <3>6, <3>7, RoundAlike
  <2> QED
    BY <2>1, <2>2
<1>11. wrong = {}
  <2> SUFFICES ASSUME wrong # {} PROVE FALSE
    OBVIOUS
  <2> HIDE DEF Fine
  <2>1. wrong \in SUBSET Nat
    OBVIOUS
  <2>2. PICK n \in wrong : \A k \in wrong : n <= k
    <3> HIDE DEF wrong
    <3> QED
      BY <2>1, LeastNumber
  <2>3. n # 0
    BY <1>9, <2>2
  <2>4. n \in 1 .. N /\ n - 1 \in 0 .. N /\ ~(n <= n - 1)
    BY <1>1, <2>2, <2>3
  <2>5. Fine(n - 1)
    BY <2>2, <2>4
  <2> QED
    BY <1>10, <2>2, <2>4, <2>5
<1>12. Level(N, M) /\ N \in 0 .. N /\ M \in 0 .. M
  BY <1>1, <1>5, <1>6
<1>13. Fine(N)
  <2> HIDE DEF Fine
  <2> QED
    BY <1>11, <1>12
<1> HIDE DEF Level
<1> QED
  BY <1>2, <1>3, <1>12, <1>13

\* Broken filters take nothing from the list but their own offers, nor change
\* its order where more than places in the YAML decides.
THEOREM BrokenCorrect == Spec => []BrokenIsSkipped
<1>1. DecidedInv => BrokenIsSkipped
  <2> SUFFICES ASSUME DecidedInv, decision.of = "route" PROVE BrokenIsSkipped
    BY DEF BrokenIsSkipped
  <2>1. PICK r \in Routes : r = decision.in /\ decision.out = ListOf(r)
    BY DEF DecidedInv
  <2>2. PICK ms, rs, i, p : ms = r.mirrors /\ rs = r.replicas /\ i = r.image /\ p = r.pinned
    OBVIOUS
  <2>3. /\ IsSequence(ms) /\ \A s \in ToSet(ms) : IsMirrorSet(s)
        /\ IsSequence(rs) /\ \A s \in ToSet(rs) : IsReplicatedSet(s)
        /\ MinInt \in Int
    BY <2>2, DecisionsAssumption
  <2>4. PICK sets, rest, S, T : /\ sets = AllRepaired(rs) /\ rest = WithoutBroken(ms)
                                /\ S = Base(rs, i, p) /\ T = Base(sets, i, p)
    OBVIOUS
  <2>5. /\ IsSequence(sets) /\ \A s \in ToSet(sets) : IsReplicatedSet(s)
        /\ AreOffered(S) /\ AreOffered(T)
    <3>1. IsSequence(sets) /\ \A s \in ToSet(sets) : IsReplicatedSet(s)
      BY <2>3, <2>4, AllRepairedFacts
    <3> QED
      BY <2>3, <2>4, <3>1, BaseFacts
  <2>6. Alikes(ToSet(S), ToSet(T))
    BY <2>3, <2>4, BaseAlike
  <2>7. PICK offers, others : offers = Collected(ms, rs, i, p) /\ others = Collected(rest, sets, i, p)
    OBVIOUS
  <2>8. Alikes(ToSet(offers), ToSet(others))
    <3>1. PICK after, afterRest : after = AfterMirrors(ms, S) /\ afterRest = AfterMirrors(rest, T)
      OBVIOUS
    <3>2. offers = after[Len(ms)] /\ others = afterRest[Len(rest)]
      BY <2>4, <2>7, <3>1 DEF Collected
    <3> QED
      BY <2>3, <2>4, <2>5, <2>6, <3>1, <3>2, AfterAlike
  <2>9. PICK list : list = ListOf(r)
    OBVIOUS
  <2>10. AreOffered(offers) /\ list = Distinct(SortStable(offers))
    BY <2>2, <2>7, <2>9, RouteFacts DEF OffersFor
  <2>11. /\ IsSequence(list) /\ ToSet(list) \subseteq ToSet(offers)
         /\ \A o \in ToSet(offers) : \E k \in DOMAIN list : list[k].reference = o.reference
         /\ \A j, k \in DOMAIN list : j < k =>
               /\ list[j].reference # list[k].reference
               /\ \A b \in ToSet(offers) : b.reference = list[k].reference => ~Compare(b, list[j])
    BY <2>10, ListFacts
  <2>12. \A k \in DOMAIN list : list[k] \in ToSet(offers)
    BY <2>11 DEF ToSet
  <2>13. /\ \A o \in ToSet(offers) : \E q \in ToSet(others) : Alike(o, q)
         /\ \A q \in ToSet(others) : \E o \in ToSet(offers) : Alike(o, q)
         /\ \A o, q : Alike(o, q) => o.reference = q.reference
    BY <2>8 DEF Alikes, Alike
  <2>14. {list[k].reference : k \in DOMAIN list} = {o.reference : o \in ToSet(others)}
    BY <2>11, <2>12, <2>13
  <2>15. ASSUME NEW j \in DOMAIN list, NEW k \in DOMAIN list, j < k
         PROVE  \E a \in {o \in ToSet(others) : o.reference = list[j].reference} :
                    \A b \in {o \in ToSet(others) : o.reference = list[k].reference} : ~BeforeButForPlace(b, a)
    <3>1. PICK a \in ToSet(others) : Alike(list[j], a)
      BY <2>12, <2>13
    <3>2. ASSUME NEW b \in ToSet(others), b.reference = list[k].reference
          PROVE  ~BeforeButForPlace(b, a)
      <4>1. PICK o \in ToSet(offers) : Alike(o, b)
        BY <2>13
      <4>2. ~Compare(o, list[j])
        BY <2>11, <2>13, <2>15, <3>2, <4>1
      <4>3. ~BeforeButForPlace(o, list[j])
        BY <4>2, ComparedAsDocumented DEF DocumentedBefore
      <4> QED
        BY <3>1, <4>1, <4>3 DEF Alike, BeforeButForPlace, Prio, Type, Intra
    <3> QED
      BY <2>13, <3>1, <3>2
  <2>16. TriedInOrder(list, ToSet(others), BeforeButForPlace)
    BY <2>11, <2>14, <2>15 DEF TriedInOrder
  <2> QED
    BY <2>1, <2>2, <2>4, <2>7, <2>9, <2>16 DEF BrokenIsSkipped
<1> QED
  BY <1>1, AlwaysDecided, PTL
-----------------------------------------------------------------------------
(* Credentials. *)

Pieces == Int \X Int

LEMMA KeyFacts ==
    ASSUME NEW l, IsLocation(l)
    PROVE  IsLocation(Key(l))
<1>1. l.host \in Seq(Int) /\ l.port \in Int /\ l.path \in Seq(Int)
  BY DEF IsLocation
<1>2. PICK path : /\ path = IF Len(l.path) > 1 /\ Head(l.path) \in Version THEN Tail(l.path) ELSE l.path
                  /\ path \in Seq(Int)
  <2>1. CASE Len(l.path) > 1 /\ Head(l.path) \in Version
    <3>1. l.path # << >>
      BY <2>1
    <3>2. Tail(l.path) \in Seq(Int)
      BY <1>1, <3>1
    <3> QED
      BY <2>1, <3>2
  <2>2. CASE ~(Len(l.path) > 1 /\ Head(l.path) \in Version)
    BY <1>1, <2>2
  <2> QED
    BY <2>1, <2>2
<1>3. << >> \in Seq(Int)
  OBVIOUS
<1>4. Key(l) = [host |-> l.host, port |-> l.port, path |-> IF path = <<Empty>> THEN << >> ELSE path]
  BY <1>2 DEF Key
<1> QED
  BY <1>1, <1>2, <1>3, <1>4 DEF IsLocation

\* A text is what stands before the path, and the path.
Stem(key) ==
    [k \in DOMAIN key.host |-> <<Dot, key.host[k]>>]
        \o (IF key.port = 0 THEN << >> ELSE <<<<Colon, key.port>>>>)
Tailed(path) == [k \in DOMAIN path |-> <<Slash, path[k]>>]

LEMMA TailedFacts ==
    ASSUME NEW path \in Seq(Int)
    PROVE  /\ Tailed(path) \in Seq(Pieces) /\ Len(Tailed(path)) = Len(path)
           /\ \A k \in 1 .. Len(path) : Tailed(path)[k] = <<Slash, path[k]>>
<1>1. Len(path) \in Nat /\ DOMAIN path = 1 .. Len(path) /\ \A k \in 1 .. Len(path) : path[k] \in Int
  BY LenProperties, ElementOfSeq
<1>2. PICK t : t = Tailed(path)
  OBVIOUS
<1>3. t = [k \in 1 .. Len(path) |-> <<Slash, path[k]>>]
  BY <1>1, <1>2 DEF Tailed
<1>4. t \in [1 .. Len(path) -> Pieces]
  BY <1>1, <1>3 DEF Pieces, Slash
<1>5. t \in Seq(Pieces) /\ Len(t) = Len(path)
  BY <1>1, <1>4, SeqDef, LenProperties
<1> QED
  BY <1>2, <1>3, <1>5

LEMMA StemFacts ==
    ASSUME NEW key, IsLocation(key)
    PROVE  /\ Stem(key) \in Seq(Pieces) /\ Text(key) \in Seq(Pieces)
           /\ Text(key) = Stem(key) \o Tailed(key.path)
<1>1. PICK h, p : /\ h = [k \in DOMAIN key.host |-> <<Dot, key.host[k]>>]
                  /\ p = IF key.port = 0 THEN << >> ELSE <<<<Colon, key.port>>>>
  OBVIOUS
<1>2. /\ Len(key.host) \in Nat /\ DOMAIN key.host = 1 .. Len(key.host)
      /\ \A k \in 1 .. Len(key.host) : key.host[k] \in Int
  BY LenProperties, ElementOfSeq DEF IsLocation
<1>3. h \in Seq(Pieces)
  <2>1. h \in [1 .. Len(key.host) -> Pieces]
    BY <1>1, <1>2 DEF Pieces, Dot
  <2> QED
    BY <1>2, <2>1, SeqDef
<1>4. p \in Seq(Pieces)
  <2>1. <<Colon, key.port>> \in Pieces
    BY DEF IsLocation, Pieces, Colon
  <2> QED
    BY <1>1, <2>1
<1>5. Stem(key) = h \o p /\ h \o p \in Seq(Pieces)
  BY <1>1, <1>3, <1>4, ConcatProperties DEF Stem
<1>6. Text(key) = Stem(key) \o Tailed(key.path)
  BY DEF Text, Stem, Tailed
<1>7. Tailed(key.path) \in Seq(Pieces)
  BY TailedFacts DEF IsLocation
<1> QED
  BY <1>5, <1>6, <1>7, ConcatProperties

\* Where the texts part, and which goes on below the other.
PartAt(s, t, k) == /\ k \in 1 .. Len(t)
                   /\ \A j \in 1 .. k - 1 : j \in 1 .. Len(s) /\ s[j] = t[j]
                   /\ k = Len(s) + 1 \/ (k \in 1 .. Len(s) /\ PieceLess(s[k], t[k]))

LEMMA StrictPrefixFacts ==
    ASSUME NEW S, NEW s \in Seq(S), NEW t \in Seq(S)
    PROVE  IsStrictPrefix(s, t) <=> Len(s) < Len(t) /\ \A j \in 1 .. Len(s) : s[j] = t[j]
<1>1. Len(s) \in Nat /\ Len(t) \in Nat
  BY LenProperties
<1>2. SubSeq(s, 1, Len(s)) = [i \in 1 .. Len(s) |-> s[i]]
  BY <1>1
<1>3. Len(s) <= Len(t) => SubSeq(t, 1, Len(s)) = [i \in 1 .. Len(s) |-> t[i]]
  BY <1>1
<1>4. Len(s) <= Len(t) => (SubSeq(s, 1, Len(s)) = SubSeq(t, 1, Len(s)) <=> \A j \in 1 .. Len(s) : s[j] = t[j])
  BY <1>2, <1>3
<1>5. IsPrefix(s, t) <=> Len(s) <= Len(t) /\ \A j \in 1 .. Len(s) : s[j] = t[j]
  BY <1>4 DEF IsPrefix
<1>6. ASSUME Len(s) = Len(t), \A j \in 1 .. Len(s) : s[j] = t[j] PROVE s = t
  BY <1>1, <1>6, SeqEqual
<1>7. s = t => Len(s) = Len(t)
  OBVIOUS
<1> QED
  BY <1>1, <1>5, <1>6, <1>7 DEF IsStrictPrefix

LEMMA LessFacts ==
    ASSUME NEW s \in Seq(Pieces), NEW t \in Seq(Pieces)
    PROVE  Less(s, t) <=> \E k \in Int : PartAt(s, t, k)
<1>1. /\ Len(s) \in Nat /\ DOMAIN s = 1 .. Len(s)
      /\ Len(t) \in Nat /\ DOMAIN t = 1 .. Len(t)
  BY LenProperties
<1>2. IsStrictPrefix(s, t) <=> Len(s) < Len(t) /\ \A j \in 1 .. Len(s) : s[j] = t[j]
  BY StrictPrefixFacts
<1>3. ASSUME IsStrictPrefix(s, t) PROVE PartAt(s, t, Len(s) + 1)
  BY <1>1, <1>2, <1>3 DEF PartAt
<1>4. ASSUME NEW k \in DOMAIN s \cap DOMAIN t, PieceLess(s[k], t[k]), \A j \in 1 .. k - 1 : s[j] = t[j]
      PROVE  PartAt(s, t, k)
  BY <1>1, <1>4 DEF PartAt
<1>5. ASSUME NEW k \in Int, PartAt(s, t, k) PROVE Less(s, t)
  <2>1. CASE k = Len(s) + 1
    <3>1. Len(s) < Len(t) /\ \A j \in 1 .. Len(s) : s[j] = t[j]
      BY <1>1, <1>5, <2>1 DEF PartAt
    <3> QED
      BY <1>2, <3>1 DEF Less
  <2>2. CASE k \in 1 .. Len(s) /\ PieceLess(s[k], t[k])
    <3>1. k \in DOMAIN s \cap DOMAIN t /\ \A j \in 1 .. k - 1 : s[j] = t[j]
      BY <1>1, <1>5, <2>2 DEF PartAt
    <3> QED
      BY <2>2, <3>1 DEF Less
  <2> QED
    BY <1>5, <2>1, <2>2 DEF PartAt
<1>6. Less(s, t) => \E k \in Int : PartAt(s, t, k)
  <2>1. Len(s) + 1 \in Int /\ DOMAIN s \subseteq Int
    BY <1>1
  <2> QED
    BY <1>3, <1>4, <2>1 DEF Less
<1> QED
  BY <1>5, <1>6
LEMMA PieceFacts ==
    ASSUME NEW p \in Pieces, NEW q \in Pieces, NEW r \in Pieces
    PROVE  /\ ~PieceLess(p, p)
           /\ PieceLess(p, q) /\ PieceLess(q, r) => PieceLess(p, r)
           /\ p = q \/ PieceLess(p, q) \/ PieceLess(q, p)
<1>1. /\ p = <<p[1], p[2]>> /\ p[1] \in Int /\ p[2] \in Int
      /\ q = <<q[1], q[2]>> /\ q[1] \in Int /\ q[2] \in Int
      /\ r = <<r[1], r[2]>> /\ r[1] \in Int /\ r[2] \in Int
  BY DEF Pieces
<1> QED
  BY <1>1 DEF PieceLess

\* The order of strings is a total order: of two that part in two places the
\* earlier decides,
LEMMA LessTransitive ==
    ASSUME NEW s \in Seq(Pieces), NEW t \in Seq(Pieces), NEW u \in Seq(Pieces), Less(s, t), Less(t, u)
    PROVE  Less(s, u)
<1>1. PICK k \in Int, m \in Int : PartAt(s, t, k) /\ PartAt(t, u, m)
  BY LessFacts
<1>2. PICK a, b, c : a = Len(s) /\ b = Len(t) /\ c = Len(u) /\ a \in Nat /\ b \in Nat /\ c \in Nat
  BY LenProperties
<1>3. /\ \A i \in 1 .. a : s[i] \in Pieces
      /\ \A i \in 1 .. b : t[i] \in Pieces
      /\ \A i \in 1 .. c : u[i] \in Pieces
  BY <1>2, ElementOfSeq
<1>4. /\ k \in 1 .. b /\ \A j \in 1 .. k - 1 : j \in 1 .. a /\ s[j] = t[j]
      /\ k = a + 1 \/ (k \in 1 .. a /\ PieceLess(s[k], t[k]))
  BY <1>1, <1>2 DEF PartAt
<1>5. /\ m \in 1 .. c /\ \A j \in 1 .. m - 1 : j \in 1 .. b /\ t[j] = u[j]
      /\ m = b + 1 \/ (m \in 1 .. b /\ PieceLess(t[m], u[m]))
  BY <1>1, <1>2 DEF PartAt
<1>6. CASE k < m
  <2>1. k \in 1 .. m - 1 /\ k \in 1 .. c /\ \A j \in 1 .. k - 1 : j \in 1 .. m - 1
    BY <1>2, <1>4, <1>5, <1>6
  <2>2. PartAt(s, u, k)
    BY <1>2, <1>4, <1>5, <2>1 DEF PartAt
  <2> QED
    BY <2>2, LessFacts
<1>7. CASE m < k
  <2>1. m \in 1 .. k - 1 /\ m # b + 1 /\ \A j \in 1 .. m - 1 : j \in 1 .. k - 1
    BY <1>2, <1>4, <1>5, <1>7
  <2>2. PartAt(s, u, m)
    BY <1>2, <1>4, <1>5, <2>1 DEF PartAt
  <2> QED
    BY <2>2, LessFacts
<1>8. CASE k = m
  <2>1. k # b + 1 /\ k \in 1 .. c /\ PieceLess(t[k], u[k])
    BY <1>2, <1>4, <1>5, <1>8
  <2>2. k \in 1 .. a /\ PieceLess(s[k], t[k]) => PieceLess(s[k], u[k])
    BY <1>3, <1>4, <2>1, PieceFacts
  <2>3. PartAt(s, u, k)
    BY <1>2, <1>4, <1>5, <1>8, <2>1, <2>2 DEF PartAt
  <2> QED
    BY <2>3, LessFacts
<1> QED
  BY <1>6, <1>7, <1>8

LEMMA LessIrreflexive ==
    ASSUME NEW s \in Seq(Pieces)
    PROVE  ~Less(s, s)
<1> SUFFICES ASSUME Less(s, s) PROVE FALSE
  OBVIOUS
<1>1. PICK k \in Int : PartAt(s, s, k)
  BY LessFacts
<1>2. Len(s) \in Nat /\ \A i \in 1 .. Len(s) : s[i] \in Pieces
  BY LenProperties, ElementOfSeq
<1>3. k \in 1 .. Len(s) /\ PieceLess(s[k], s[k])
  BY <1>1, <1>2 DEF PartAt
<1> QED
  BY <1>2, <1>3, PieceFacts

\* and two that part nowhere are the same.
LEMMA LessTotal ==
    ASSUME NEW s \in Seq(Pieces), NEW t \in Seq(Pieces)
    PROVE  s = t \/ Less(s, t) \/ Less(t, s)
<1>1. PICK a, b : a = Len(s) /\ b = Len(t) /\ a \in Nat /\ b \in Nat
  BY LenProperties
<1>2. /\ \A i \in 1 .. a : s[i] \in Pieces
      /\ \A i \in 1 .. b : t[i] \in Pieces
  BY <1>1, ElementOfSeq
<1> DEFINE Shared(k) == k \in 1 .. a /\ k \in 1 .. b /\ s[k] = t[k]
           apart == {k \in Nat : k # 0 /\ ~Shared(k)}
<1>3. apart \in SUBSET Nat /\ a + 1 \in apart
  BY <1>1
<1>4. PICK k \in apart : \A j \in apart : k <= j
  <2> HIDE DEF apart
  <2> QED
    BY <1>3, LeastNumber
<1>5. k \in Int /\ k >= 1 /\ ~Shared(k) /\ \A j \in 1 .. k - 1 : Shared(j)
  <2>1. k \in Int /\ k >= 1 /\ ~Shared(k)
    OBVIOUS
  <2>2. ASSUME NEW j \in 1 .. k - 1 PROVE Shared(j)
    <3>1. j \in Nat /\ j # 0 /\ ~(k <= j)
      BY <2>1
    <3> QED
      BY <1>4, <3>1
  <2> QED
    BY <2>1, <2>2
<1>6. \A j \in 1 .. k - 1 : j \in 1 .. a /\ j \in 1 .. b /\ s[j] = t[j]
  BY <1>5
<1>7. k <= a + 1 /\ k <= b + 1
  <2>1. k = 1 \/ k - 1 \in 1 .. k - 1
    BY <1>5
  <2>2. k = 1 \/ (k - 1 \in 1 .. a /\ k - 1 \in 1 .. b)
    BY <1>6, <2>1
  <2> QED
    BY <1>1, <1>5, <2>2
<1>8. CASE k = a + 1 /\ k = b + 1
  <2>1. Len(s) = Len(t) /\ \A j \in 1 .. Len(s) : s[j] = t[j]
    BY <1>1, <1>6, <1>8
  <2> QED
    BY <2>1, SeqEqual
<1>9. CASE k = a + 1 /\ k \in 1 .. b
  <2>1. PartAt(s, t, k)
    BY <1>1, <1>6, <1>9 DEF PartAt
  <2> QED
    BY <1>5, <2>1, LessFacts
<1>10. CASE k = b + 1 /\ k \in 1 .. a
  <2>1. PartAt(t, s, k)
    BY <1>1, <1>6, <1>10 DEF PartAt
  <2> QED
    BY <1>5, <2>1, LessFacts
<1>11. CASE k \in 1 .. a /\ k \in 1 .. b
  <2>1. PieceLess(s[k], t[k]) \/ PieceLess(t[k], s[k])
    BY <1>2, <1>5, <1>11, PieceFacts
  <2>2. PartAt(s, t, k) \/ PartAt(t, s, k)
    BY <1>1, <1>6, <1>11, <2>1 DEF PartAt
  <2> QED
    BY <1>5, <2>2, LessFacts
<1>12. k = a + 1 \/ k \in 1 .. a
  BY <1>1, <1>5, <1>7
<1>13. k = b + 1 \/ k \in 1 .. b
  BY <1>1, <1>5, <1>7
<1> QED
  BY <1>8, <1>9, <1>10, <1>11, <1>12, <1>13
AreLocated(entries) == IsSequence(entries) /\ \A e \in ToSet(entries) : IsLocation(e.location)

\* So the index is sorted, whatever entries it is asked for.
LEMMA IndexOrder ==
    ASSUME NEW entries, AreLocated(entries), NEW chosen \in SUBSET DOMAIN entries
    PROVE  TotalOrder(Index(entries), chosen)
<1> DEFINE text(i) == Text(KeyOf(entries[i]))
<1>1. ASSUME NEW i \in chosen PROVE i \in DOMAIN entries /\ i \in Int /\ text(i) \in Seq(Pieces)
  <2>1. i \in DOMAIN entries /\ i \in Int /\ entries[i] \in ToSet(entries)
    BY SequenceFacts DEF AreLocated
  <2>2. IsLocation(KeyOf(entries[i]))
    BY <2>1, KeyFacts DEF AreLocated, KeyOf
  <2> QED
    BY <2>1, <2>2, StemFacts
<1>2. ASSUME NEW i \in chosen, NEW j \in chosen
      PROVE  <<i, j>> \in Index(entries) <=> Less(text(j), text(i)) \/ (text(i) = text(j) /\ i < j)
  BY DEF Index, Indexed
<1> HIDE DEF text
<1>3. Irreflexive(Index(entries), chosen)
  <2> SUFFICES ASSUME NEW i \in chosen PROVE <<i, i>> \notin Index(entries)
    BY DEF Irreflexive
  <2>1. ~Less(text(i), text(i)) /\ ~(i < i)
    BY <1>1, LessIrreflexive
  <2> QED
    BY <1>2, <2>1
<1>4. Transitive(Index(entries), chosen)
  <2> SUFFICES ASSUME NEW i \in chosen, NEW j \in chosen, NEW k \in chosen,
                      <<i, j>> \in Index(entries), <<j, k>> \in Index(entries)
               PROVE  <<i, k>> \in Index(entries)
    BY DEF Transitive
  <2>1. PICK s, t, u : s = text(i) /\ t = text(j) /\ u = text(k)
    OBVIOUS
  <2>2. s \in Seq(Pieces) /\ t \in Seq(Pieces) /\ u \in Seq(Pieces) /\ i \in Int /\ j \in Int /\ k \in Int
    BY <1>1, <2>1
  <2>3. /\ Less(t, s) \/ (s = t /\ i < j)
        /\ Less(u, t) \/ (t = u /\ j < k)
    BY <1>2, <2>1
  <2>4. Less(u, t) /\ Less(t, s) => Less(u, s)
    BY <2>2, LessTransitive
  <2>5. Less(u, s) \/ (s = u /\ i < k)
    BY <2>2, <2>3, <2>4
  <2> QED
    BY <1>2, <2>1, <2>5
<1>5. Total(Index(entries), chosen)
  <2> SUFFICES ASSUME NEW i \in chosen, NEW j \in chosen
               PROVE  i = j \/ <<i, j>> \in Index(entries) \/ <<j, i>> \in Index(entries)
    BY DEF Total
  <2>1. text(i) = text(j) \/ Less(text(i), text(j)) \/ Less(text(j), text(i))
    BY <1>1, LessTotal
  <2>2. i = j \/ i < j \/ j < i
    BY <1>1
  <2> QED
    BY <1>2, <2>1, <2>2
<1> QED
  BY <1>3, <1>4, <1>5 DEF TotalOrder

\* The entries of the secrets that have some.
LEMMA EntriesFacts ==
    ASSUME NEW secrets, IsSequence(secrets),
           \A s \in ToSet(secrets) : s.kind = "dockerconfig" => IsDockerConfig(s)
    PROVE  AreLocated(Entries(secrets))
<1> DEFINE rows == [k \in DOMAIN secrets |->
                       IF secrets[k].kind = "dockerconfig" THEN secrets[k].entries ELSE << >>]
           f == [p \in PlacesIn(rows) |-> rows[p[1]][p[2]]]
<1>1. PICK n \in Nat : n = Len(secrets) /\ DOMAIN secrets = 1 .. n
  BY SequenceFacts
<1>2. \A k \in 1 .. n : secrets[k] \in ToSet(secrets)
  BY <1>1, SequenceFacts
<1>3. ASSUME NEW k \in 1 .. n
      PROVE  IsSequence(rows[k]) /\ \A d \in DOMAIN rows[k] : IsLocation(rows[k][d].location)
  <2>1. CASE secrets[k].kind = "dockerconfig"
    <3>1. rows[k] = secrets[k].entries /\ IsDockerConfig(secrets[k])
      BY <1>1, <1>2, <2>1
    <3>2. IsSequence(rows[k]) /\ \A e \in ToSet(rows[k]) : IsLocation(e.location)
      BY <3>1 DEF IsDockerConfig
    <3> QED
      BY <3>2 DEF ToSet
  <2>2. CASE secrets[k].kind # "dockerconfig"
    <3>1. rows[k] = << >> /\ DOMAIN << >> = {}
      BY <1>1, <2>2
    <3> QED
      BY <3>1, EmptyFacts
  <2> QED
    BY <2>1, <2>2
<1>4. DOMAIN rows = 1 .. n
  BY <1>1
<1>5. PICK placed, P : placed = f /\ P = PlacesIn(rows)
  OBVIOUS
<1>6. DOMAIN placed = P /\ Entries(secrets) = InOrder(placed, RowByRow(P))
  BY <1>5 DEF Entries
<1>7. ASSUME NEW p \in P PROVE IsLocation(placed[p].location)
  <2>1. placed[p] = rows[p[1]][p[2]]
    BY <1>5
  <2> HIDE DEF rows
  <2>2. p[1] \in DOMAIN rows /\ p[2] \in DOMAIN rows[p[1]]
    BY <1>3, <1>4, <1>5, PlacesFacts
  <2> QED
    BY <1>3, <1>4, <2>1, <2>2
<1>8. IsFiniteSet(P) /\ P \in SUBSET (Int \X Int)
  <2> HIDE DEF rows
  <2> QED
    BY <1>3, <1>4, <1>5, PlacesFacts
<1>9. TotalOrder(RowByRow(P), P)
  BY <1>8, RowByRowOrder
<1>10. IsSequence(Entries(secrets)) /\ ToSet(Entries(secrets)) = {placed[p] : p \in P}
  BY <1>6, <1>8, <1>9, OrderedSequence
<1> QED
  BY <1>7, <1>10 DEF AreLocated

\* What is looked up are entries, those that match among them, in the order of
\* the index.
LEMMA LookupFacts ==
    ASSUME NEW entries, AreLocated(entries), NEW name, NEW out, out = Lookup(entries, name)
    PROVE  /\ IsSequence(out) /\ ToSet(out) \subseteq ToSet(entries)
           /\ \A e \in ToSet(entries) : URLsMatch(KeyOf(e), name) => e \in ToSet(out)
           /\ \A j, k \in DOMAIN out :
                  Less(Text(KeyOf(out[j])), Text(KeyOf(out[k]))) => k < j
<1>1. PICK chosen \in SUBSET DOMAIN entries :
          /\ out = InOrder([k \in chosen |-> entries[k]], Index(entries))
          /\ \A k \in DOMAIN entries : URLsMatch(KeyOf(entries[k]), name) => k \in chosen
  <2> DEFINE matching == {k \in DOMAIN entries : URLsMatch(KeyOf(entries[k]), name)}
             default == {k \in DOMAIN entries : KeyOf(entries[k]) = DefaultKey}
             chosen == IF matching # {} THEN matching
                       ELSE IF IsDefaultRegistryMatch(name) THEN default
                       ELSE {}
  <2>1. out = InOrder([k \in chosen |-> entries[k]], Index(entries))
    BY DEF Lookup
  <2>2. chosen \in SUBSET DOMAIN entries
    OBVIOUS
  <2>3. ASSUME NEW k \in DOMAIN entries, URLsMatch(KeyOf(entries[k]), name) PROVE k \in chosen
    <3>1. k \in matching
      BY <2>3
    <3> QED
      BY <3>1
  <2> QED
    BY <2>1, <2>2, <2>3
<1>2. PICK f : f = [k \in chosen |-> entries[k]]
  OBVIOUS
<1>3. DOMAIN f = chosen /\ \A k \in chosen : f[k] = entries[k] /\ entries[k] \in ToSet(entries)
  BY <1>2 DEF ToSet
<1>4. IsFiniteSet(chosen)
  BY FS_Subset, SequenceFacts DEF AreLocated
<1>5. TotalOrder(Index(entries), chosen)
  BY IndexOrder
<1>6. IsSequence(out) /\ ToSet(out) = {f[x] : x \in chosen} /\ Len(out) = Cardinality(chosen)
  BY <1>1, <1>2, <1>3, <1>4, <1>5, OrderedSequence
<1>7. DOMAIN out = 1 .. Cardinality(chosen) /\ Cardinality(chosen) \in Nat
  BY <1>6, SequenceFacts
<1>8. PICK at : /\ Traverses(at, chosen, Index(entries))
                /\ out = [n \in 1 .. Cardinality(chosen) |-> f[at[n]]]
  <2>1. PICK R : R = Index(entries)
    OBVIOUS
  <2>2. \E at : Traverses(at, chosen, R) /\ InOrder(f, R) = [n \in 1 .. Cardinality(chosen) |-> f[at[n]]]
    BY <1>3, <1>4, <1>5, <2>1, InOrderFacts
  <2>3. out = InOrder(f, R)
    BY <1>1, <1>2, <2>1
  <2> QED
    BY <2>1, <2>2, <2>3
<1>9. ASSUME NEW j \in DOMAIN out, NEW k \in DOMAIN out,
             Less(Text(KeyOf(out[j])), Text(KeyOf(out[k])))
      PROVE  k < j
  <2>1. /\ at[j] \in chosen /\ at[k] \in chosen
        /\ k < j <=> <<at[k], at[j]>> \in Index(entries)
    BY <1>7, <1>8 DEF Traverses
  <2>2. out[j] = entries[at[j]] /\ out[k] = entries[at[k]]
    BY <1>3, <1>7, <1>8, <2>1
  <2>3. <<at[k], at[j]>> \in Index(entries)
    BY <1>9, <2>1, <2>2 DEF Index, Indexed
  <2> QED
    BY <2>1, <2>3
<1>10. ASSUME NEW e \in ToSet(entries), URLsMatch(KeyOf(e), name) PROVE e \in ToSet(out)
  <2>1. PICK k \in DOMAIN entries : e = entries[k]
    BY DEF ToSet
  <2>2. k \in chosen /\ e = f[k]
    BY <1>1, <1>3, <1>10, <2>1
  <2> QED
    BY <1>6, <2>2
<1> QED
  BY <1>3, <1>6, <1>9, <1>10

\* Of two keys of one host that of the longer path has the greater text.
LEMMA LongerPathFacts ==
    ASSUME NEW g, NEW h, IsLocation(g), IsLocation(h), g.host = h.host, g.port = h.port,
           IsStrictPrefix(h.path, g.path)
    PROVE  Less(Text(h), Text(g))
<1>1. PICK stem, p, q : stem = Stem(h) /\ p = Tailed(h.path) /\ q = Tailed(g.path)
  OBVIOUS
<1>2. Stem(g) = stem
  BY <1>1 DEF Stem
<1>3. /\ stem \in Seq(Pieces) /\ Text(h) = stem \o p /\ Text(g) = stem \o q
      /\ Text(h) \in Seq(Pieces) /\ Text(g) \in Seq(Pieces)
  BY <1>1, <1>2, StemFacts
<1>4. h.path \in Seq(Int) /\ g.path \in Seq(Int)
  BY DEF IsLocation
<1>5. /\ p \in Seq(Pieces) /\ Len(p) = Len(h.path) /\ \A k \in 1 .. Len(h.path) : p[k] = <<Slash, h.path[k]>>
      /\ q \in Seq(Pieces) /\ Len(q) = Len(g.path) /\ \A k \in 1 .. Len(g.path) : q[k] = <<Slash, g.path[k]>>
  BY <1>1, <1>4, TailedFacts
<1>6. Len(h.path) < Len(g.path) /\ \A j \in 1 .. Len(h.path) : h.path[j] = g.path[j]
  BY <1>4, StrictPrefixFacts
<1>7. /\ Len(stem) \in Nat /\ Len(p) \in Nat /\ Len(q) \in Nat /\ Len(p) < Len(q)
      /\ \A j \in 1 .. Len(p) : p[j] = q[j]
  <2>1. Len(stem) \in Nat /\ Len(p) \in Nat /\ Len(q) \in Nat /\ Len(p) < Len(q)
    BY <1>3, <1>5, <1>6, LenProperties
  <2>2. ASSUME NEW j \in 1 .. Len(p) PROVE p[j] = q[j]
    <3>1. j \in 1 .. Len(h.path) /\ j \in 1 .. Len(g.path)
      BY <1>5, <2>1
    <3> QED
      BY <1>5, <1>6, <3>1
  <2> QED
    BY <2>1, <2>2
<1>8. /\ Len(stem \o p) = Len(stem) + Len(p)
      /\ \A i \in 1 .. Len(stem) + Len(p) : (stem \o p)[i] = IF i <= Len(stem) THEN stem[i] ELSE p[i - Len(stem)]
      /\ Len(stem \o q) = Len(stem) + Len(q)
      /\ \A i \in 1 .. Len(stem) + Len(q) : (stem \o q)[i] = IF i <= Len(stem) THEN stem[i] ELSE q[i - Len(stem)]
  <2>1. stem \in Seq(Pieces) /\ p \in Seq(Pieces) /\ q \in Seq(Pieces)
    BY <1>3, <1>5
  <2>2. /\ Len(stem \o p) = Len(stem) + Len(p)
        /\ \A i \in 1 .. Len(stem) + Len(p) : (stem \o p)[i] = IF i <= Len(stem) THEN stem[i] ELSE p[i - Len(stem)]
    BY <2>1, ConcatProperties
  <2>3. /\ Len(stem \o q) = Len(stem) + Len(q)
        /\ \A i \in 1 .. Len(stem) + Len(q) : (stem \o q)[i] = IF i <= Len(stem) THEN stem[i] ELSE q[i - Len(stem)]
    BY <2>1, ConcatProperties
  <2> QED
    BY <2>2, <2>3
<1>9. Len(stem \o p) < Len(stem \o q)
  BY <1>7, <1>8
<1>10. ASSUME NEW i \in 1 .. Len(stem \o p) PROVE (stem \o p)[i] = (stem \o q)[i]
  <2>1. i \in 1 .. Len(stem) + Len(p) /\ i \in 1 .. Len(stem) + Len(q)
    BY <1>7, <1>8
  <2>2. i <= Len(stem) \/ i - Len(stem) \in 1 .. Len(p)
    BY <1>7, <2>1
  <2> QED
    BY <1>7, <1>8, <2>1, <2>2
<1>11. IsStrictPrefix(Text(h), Text(g))
  BY <1>3, <1>9, <1>10, StrictPrefixFacts
<1> QED
  BY <1>11 DEF Less

\* Whatever the order in which the secrets, and the maps in them, are read: for
\* a repository that is not of Docker Hub, each credential that matches is sent
\* and, of two for one host, that of the longer path first.
THEOREM SpecificCorrect == Spec => []MoreSpecificFirst
<1>1. DecidedInv => MoreSpecificFirst
  <2> SUFFICES ASSUME DecidedInv, decision.of = "lookup", ~AtDockerHub(decision.in.repository)
               PROVE  MoreSpecificFirst
    BY DEF MoreSpecificFirst
  <2>1. PICK l \in Lookups : l = decision.in /\ decision.out = Keychains(l.secrets, l.repository)
    BY DEF DecidedInv
  <2>2. PICK name, entries, found, out :
            /\ name = l.repository /\ entries = Entries(l.secrets) /\ found = Lookup(entries, name)
            /\ out = Keychains(l.secrets, l.repository)
    OBVIOUS
  <2>3. AreLocated(entries)
    BY <2>2, DecisionsAssumption, EntriesFacts
  <2>4. /\ IsSequence(found) /\ ToSet(found) \subseteq ToSet(entries)
        /\ \A e \in ToSet(entries) : URLsMatch(KeyOf(e), name) => e \in ToSet(found)
        /\ \A j, k \in DOMAIN found : Less(Text(KeyOf(found[j])), Text(KeyOf(found[k]))) => k < j
    BY <2>2, <2>3, LookupFacts
  <2>5. Named(name) = name /\ Target(name) = name
    BY <2>1, <2>2 DEF Named, Target, AtDockerHub
  <2>6. out = IF found = << >> THEN <<DefaultKeychain>>
              ELSE [k \in DOMAIN found |-> Resolve(found[k], name, name)]
    BY <2>2, <2>5 DEF Keychains
  <2>7. ASSUME NEW j \in DOMAIN out, NEW k \in DOMAIN out, {out[j], out[k]} \subseteq ToSet(entries),
               KeyOf(out[k]).host = KeyOf(out[j]).host, KeyOf(out[k]).port = KeyOf(out[j]).port,
               IsStrictPrefix(KeyOf(out[j]).path, KeyOf(out[k]).path)
        PROVE  k < j
    <3>1. CASE found = << >>
      <4>1. out = <<DefaultKeychain>>
        BY <2>6, <3>1
      <4>2. out[j] = out[k]
        BY <4>1
      <4> QED
        BY <2>7, <4>2 DEF IsStrictPrefix
    <3>2. CASE found # << >>
      <4>1. DOMAIN out = DOMAIN found /\ out[j] = found[j] /\ out[k] = found[k]
        BY <2>6, <3>2 DEF Resolve
      <4>2. IsLocation(KeyOf(out[j])) /\ IsLocation(KeyOf(out[k]))
        BY <2>3, <2>7, KeyFacts DEF AreLocated, KeyOf
      <4>3. Less(Text(KeyOf(out[j])), Text(KeyOf(out[k])))
        BY <2>7, <4>2, LongerPathFacts
      <4> QED
        BY <2>4, <4>1, <4>3
    <3> QED
      BY <3>1, <3>2
  <2>8. ASSUME NEW e \in ToSet(entries), URLsMatch(KeyOf(e), name) PROVE e \in ToSet(out)
    <3>1. PICK k \in DOMAIN found : e = found[k]
      BY <2>4, <2>8 DEF ToSet
    <3>2. found # << >>
      BY <3>1
    <3>3. k \in DOMAIN out /\ out[k] = e
      BY <2>6, <3>1, <3>2 DEF Resolve
    <3> QED
      BY <3>3 DEF ToSet
  <2> QED
    BY <2>1, <2>2, <2>7, <2>8 DEF MoreSpecificFirst, IsFor
<1> QED
  BY <1>1, AlwaysDecided, PTL
=============================================================================
