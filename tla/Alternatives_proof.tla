-------------------------- MODULE Alternatives_proof --------------------------
(***************************************************************************)
(* Proofs about loops and sorts in closed form (Orders.tla) and about the   *)
(* list of alternatives (Alternatives.tla): what is taken in an order is a  *)
(* sequence of what is there, a stable sort sorts, the loop over the mirror *)
(* sets computes a function, each reference is listed once where the best   *)
(* of its offers comes; for any number of sets, mirrors and upstreams.      *)
(***************************************************************************)
EXTENDS Alternatives, FiniteSetTheorems, SequenceTheorems, WellFoundedInduction, TLAPS

(* Orders. *)

Irreflexive(R, S) == \A x \in S : <<x, x>> \notin R
Transitive(R, S) == \A x, y, z \in S : <<x, y>> \in R /\ <<y, z>> \in R => <<x, z>> \in R
Total(R, S) == \A x, y \in S : x = y \/ <<x, y>> \in R \/ <<y, x>> \in R
TotalOrder(R, S) == Irreflexive(R, S) /\ Transitive(R, S) /\ Total(R, S)

\* The places that come before x.
Passed(R, S, x) == {y \in S : <<y, x>> \in R}

\* at[n] is the place that comes n-th.
Traverses(at, S, R) ==
    /\ at \in [1 .. Cardinality(S) -> S]
    /\ \A x \in S : \E n \in 1 .. Cardinality(S) : at[n] = x
    /\ \A m, n \in 1 .. Cardinality(S) : m < n <=> <<at[m], at[n]>> \in R

\* The number of places before x is smaller the earlier x comes.
LEMMA PassedFacts ==
    ASSUME NEW S, IsFiniteSet(S), NEW R, TotalOrder(R, S)
    PROVE  /\ Cardinality(S) \in Nat
           /\ \A x \in S : Cardinality(Passed(R, S, x)) \in 0 .. Cardinality(S) - 1
           /\ \A x, y \in S : <<x, y>> \in R => Cardinality(Passed(R, S, x)) < Cardinality(Passed(R, S, y))
<1>0. Cardinality(S) \in Nat
  BY FS_CardinalityType
<1>1. ASSUME NEW x \in S
      PROVE  IsFiniteSet(Passed(R, S, x)) /\ Cardinality(Passed(R, S, x)) \in 0 .. Cardinality(S) - 1
  <2>1. IsFiniteSet(S \ {x}) /\ Cardinality(S \ {x}) = Cardinality(S) - 1
    BY FS_RemoveElement
  <2>2. Passed(R, S, x) \in SUBSET (S \ {x})
    BY DEF Passed, TotalOrder, Irreflexive
  <2>3. IsFiniteSet(Passed(R, S, x)) /\ Cardinality(Passed(R, S, x)) <= Cardinality(S \ {x})
    BY <2>1, <2>2, FS_Subset
  <2>4. Cardinality(Passed(R, S, x)) \in Nat
    BY <2>3, FS_CardinalityType
  <2> QED
    BY <1>0, <2>1, <2>3, <2>4
<1>2. ASSUME NEW x \in S, NEW y \in S, <<x, y>> \in R
      PROVE  Cardinality(Passed(R, S, x)) < Cardinality(Passed(R, S, y))
  <2>1. x \notin Passed(R, S, x)
    BY DEF Passed, TotalOrder, Irreflexive
  <2>2. /\ IsFiniteSet(Passed(R, S, x) \cup {x})
        /\ Cardinality(Passed(R, S, x) \cup {x}) = Cardinality(Passed(R, S, x)) + 1
    BY <1>1, <2>1, FS_AddElement
  <2>3. Passed(R, S, x) \cup {x} \in SUBSET Passed(R, S, y)
    BY <1>2 DEF Passed, TotalOrder, Transitive
  <2>4. Cardinality(Passed(R, S, x) \cup {x}) <= Cardinality(Passed(R, S, y))
    BY <1>1, <2>3, FS_Subset
  <2>5. Cardinality(Passed(R, S, x)) \in Nat /\ Cardinality(Passed(R, S, y)) \in Nat
    BY <1>0, <1>1
  <2> QED
    BY <2>2, <2>4, <2>5
<1> QED
  BY <1>0, <1>1, <1>2

\* So that each number of places is that of one place,
LEMMA RankFacts ==
    ASSUME NEW S, IsFiniteSet(S), NEW R, TotalOrder(R, S)
    PROVE  /\ \A x, y \in S : Cardinality(Passed(R, S, x)) = Cardinality(Passed(R, S, y)) => x = y
           /\ \A k \in 0 .. Cardinality(S) - 1 : \E x \in S : Cardinality(Passed(R, S, x)) = k
<1> DEFINE N == Cardinality(S)
           rank == [x \in S |-> Cardinality(Passed(R, S, x))]
<1>1. N \in Nat /\ rank \in [S -> 0 .. N - 1]
  BY PassedFacts
<1>2. \A x, y \in S : rank[x] = rank[y] => x = y
  <2> SUFFICES ASSUME NEW x \in S, NEW y \in S, rank[x] = rank[y], x # y PROVE FALSE
    OBVIOUS
  <2>1. <<x, y>> \in R \/ <<y, x>> \in R
    BY DEF TotalOrder, Total
  <2>2. rank[x] < rank[y] \/ rank[y] < rank[x]
    BY <2>1, PassedFacts
  <2> QED
    BY <1>1, <2>2
<1>3. rank \in Injection(S, 0 .. N - 1)
  BY <1>1, <1>2 DEF Injection, IsInjective
<1>4. IsFiniteSet(0 .. N - 1) /\ Cardinality(0 .. N - 1) = N
  <2>1. 0 \in Int /\ N - 1 \in Int
    BY <1>1
  <2>2. /\ IsFiniteSet(0 .. N - 1)
        /\ Cardinality(0 .. N - 1) = IF 0 > N - 1 THEN 0 ELSE (N - 1) - 0 + 1
    BY <2>1, FS_Interval
  <2> QED
    BY <1>1, <2>2
<1>5. rank \in Surjection(S, 0 .. N - 1)
  <2> HIDE DEF rank
  <2> QED
    BY <1>3, <1>4, FS_Injection
<1> QED
  BY <1>2, <1>5 DEF Surjection

\* and a function taken in order goes through each of its places once.
LEMMA InOrderFacts ==
    ASSUME NEW f, NEW S, DOMAIN f = S, IsFiniteSet(S), NEW R, TotalOrder(R, S)
    PROVE  /\ Cardinality(S) \in Nat
           /\ \E at : Traverses(at, S, R) /\ InOrder(f, R) = [n \in 1 .. Cardinality(S) |-> f[at[n]]]
<1> DEFINE N == Cardinality(S)
           at == [n \in 1 .. N |-> CHOOSE x \in S : Cardinality(Passed(R, S, x)) = n - 1]
<1>1. N \in Nat
  BY PassedFacts
<1>2. ASSUME NEW n \in 1 .. N
      PROVE  at[n] \in S /\ Cardinality(Passed(R, S, at[n])) = n - 1
  <2>1. n - 1 \in 0 .. N - 1
    BY <1>1
  <2>2. \E x \in S : Cardinality(Passed(R, S, x)) = n - 1
    BY <2>1, RankFacts
  <2> QED
    BY <2>2
<1>3. ASSUME NEW x \in S PROVE \E n \in 1 .. N : at[n] = x
  <2>1. PICK k \in 0 .. N - 1 : k = Cardinality(Passed(R, S, x))
    BY PassedFacts
  <2>2. k + 1 \in 1 .. N /\ (k + 1) - 1 = k
    BY <1>1
  <2>3. at[k + 1] \in S /\ Cardinality(Passed(R, S, at[k + 1])) = k
    BY <1>2, <2>2
  <2> HIDE DEF at
  <2>4. at[k + 1] = x
    BY <2>1, <2>3, RankFacts
  <2> QED
    BY <2>2, <2>4
<1>4. ASSUME NEW m \in 1 .. N, NEW n \in 1 .. N PROVE m < n <=> <<at[m], at[n]>> \in R
  <2> HIDE DEF at
  <2>0. /\ m \in Int /\ n \in Int /\ at[m] \in S /\ at[n] \in S
        /\ Cardinality(Passed(R, S, at[m])) = m - 1 /\ Cardinality(Passed(R, S, at[n])) = n - 1
    BY <1>1, <1>2
  <2>1. ASSUME <<at[m], at[n]>> \in R PROVE m < n
    <3>1. m - 1 < n - 1
      BY <2>0, <2>1, PassedFacts
    <3> QED
      BY <2>0, <3>1
  <2>2. ASSUME m < n PROVE <<at[m], at[n]>> \in R
    <3>1. at[m] # at[n]
      BY <2>0, <2>2
    <3>2. <<at[n], at[m]>> \notin R
      <4> SUFFICES ASSUME <<at[n], at[m]>> \in R PROVE FALSE
        OBVIOUS
      <4>1. n - 1 < m - 1
        BY <2>0, PassedFacts
      <4> QED
        BY <2>0, <2>2, <4>1
    <3> QED
      BY <2>0, <3>1, <3>2 DEF TotalOrder, Total
  <2> QED
    BY <2>1, <2>2
<1>5. Traverses(at, S, R)
  <2>1. at \in [1 .. N -> S]
    BY <1>2
  <2> HIDE DEF at
  <2> QED
    BY <1>3, <1>4, <2>1 DEF Traverses
<1>6. InOrder(f, R) = [n \in 1 .. N |-> f[at[n]]]
  BY DEF InOrder, Passed
<1> QED
  BY <1>1, <1>5, <1>6
(* Sequences. *)

LEMMA SequenceFacts ==
    ASSUME NEW s, IsSequence(s)
    PROVE  /\ Len(s) \in Nat /\ DOMAIN s = 1 .. Len(s)
           /\ \A k \in 1 .. Len(s) : s[k] \in ToSet(s)
           /\ \A x \in ToSet(s) : \E k \in 1 .. Len(s) : s[k] = x
           /\ IsFiniteSet(DOMAIN s) /\ DOMAIN s \in SUBSET Int
<1>1. Len(s) \in Nat /\ DOMAIN s = 1 .. Len(s)
  BY LenProperties DEF IsSequence
<1>2. IsFiniteSet(1 .. Len(s))
  BY <1>1, FS_Interval
<1> QED
  BY <1>1, <1>2 DEF ToSet

LEMMA MakesSequence ==
    ASSUME NEW n \in Nat, NEW s, s = [k \in 1 .. n |-> s[k]]
    PROVE  IsSequence(s) /\ Len(s) = n /\ DOMAIN s = 1 .. n
<1>1. DOMAIN s = 1 .. n
  OBVIOUS
<1>2. \A k \in 1 .. n : s[k] \in ToSet(s)
  BY <1>1 DEF ToSet
<1>3. s \in [1 .. n -> ToSet(s)]
  BY <1>1, <1>2
<1>4. s \in Seq(ToSet(s)) /\ Len(s) = n
  BY <1>3, SeqDef, LenProperties
<1> QED
  BY <1>1, <1>4 DEF IsSequence

LEMMA EmptyFacts == IsSequence(<< >>) /\ Len(<< >>) = 0 /\ ToSet(<< >>) = {}
<1>1. DOMAIN << >> = {} /\ Len(<< >>) = 0 /\ << >> \in Seq({})
  OBVIOUS
<1>2. ToSet(<< >>) = {}
  BY <1>1 DEF ToSet
<1> QED
  BY <1>1, <1>2 DEF IsSequence

LEMMA ConcatenationFacts ==
    ASSUME NEW s, NEW t, IsSequence(s), IsSequence(t)
    PROVE  IsSequence(s \o t) /\ ToSet(s \o t) = ToSet(s) \cup ToSet(t)
<1> DEFINE S == ToSet(s) \cup ToSet(t)
<1>1. s \in Seq(S) /\ t \in Seq(S)
  BY SeqMonotonic, SequenceFacts DEF IsSequence
<1>2. /\ s \o t \in Seq(S) /\ Len(s \o t) = Len(s) + Len(t)
      /\ \A i \in 1 .. Len(s) + Len(t) : (s \o t)[i] = IF i <= Len(s) THEN s[i] ELSE t[i - Len(s)]
  BY <1>1, ConcatProperties
<1>3. PICK c : c = s \o t
  OBVIOUS
<1>4. Len(c) = Len(s) + Len(t) /\ DOMAIN c = 1 .. Len(c) /\ Len(s) \in Nat /\ Len(t) \in Nat
  BY <1>2, <1>3, SequenceFacts, LenProperties
<1>5. ASSUME NEW x PROVE x \in ToSet(c) <=> x \in S
  <2>1. x \in ToSet(c) <=> \E i \in 1 .. Len(c) : x = c[i]
    BY <1>4 DEF ToSet
  <2>2. ASSUME NEW i \in 1 .. Len(c) PROVE c[i] \in S
    BY <1>2, <1>3, ElementOfSeq
  <2>3. ASSUME x \in ToSet(s) PROVE \E i \in 1 .. Len(c) : x = c[i]
    <3>1. PICK k \in 1 .. Len(s) : s[k] = x
      BY <2>3, SequenceFacts
    <3>2. k \in 1 .. Len(c) /\ c[k] = s[k]
      BY <1>2, <1>3, <1>4
    <3> QED
      BY <3>1, <3>2
  <2>4. ASSUME x \in ToSet(t) PROVE \E i \in 1 .. Len(c) : x = c[i]
    <3>1. PICK k \in 1 .. Len(t) : t[k] = x
      BY <2>4, SequenceFacts
    <3>2. k + Len(s) \in 1 .. Len(c) /\ ~(k + Len(s) <= Len(s)) /\ (k + Len(s)) - Len(s) = k
      BY <1>4
    <3>3. c[k + Len(s)] = t[k]
      BY <1>2, <1>3, <1>4, <3>2
    <3> QED
      BY <3>1, <3>2, <3>3
  <2> QED
    BY <2>1, <2>2, <2>3, <2>4
<1>6. ToSet(c) = S
  BY <1>5
<1> QED
  BY <1>2, <1>3, <1>6 DEF IsSequence

\* What is taken in order is a sequence of what is there.
LEMMA OrderedSequence ==
    ASSUME NEW f, NEW S, DOMAIN f = S, IsFiniteSet(S), NEW R, TotalOrder(R, S)
    PROVE  /\ IsSequence(InOrder(f, R)) /\ Len(InOrder(f, R)) = Cardinality(S)
           /\ ToSet(InOrder(f, R)) = {f[x] : x \in S}
<1>1. PICK at : Traverses(at, S, R) /\ InOrder(f, R) = [n \in 1 .. Cardinality(S) |-> f[at[n]]]
  BY InOrderFacts
<1>2. PICK N, s : N = Cardinality(S) /\ N \in Nat /\ s = InOrder(f, R)
  BY InOrderFacts
<1>3. s = [n \in 1 .. N |-> f[at[n]]]
  BY <1>1, <1>2
<1>4. s = [n \in 1 .. N |-> s[n]]
  BY <1>3
<1>5. IsSequence(s) /\ Len(s) = N /\ DOMAIN s = 1 .. N
  BY <1>2, <1>4, MakesSequence
<1>6. /\ at \in [1 .. N -> S]
      /\ \A x \in S : \E n \in 1 .. N : at[n] = x
  BY <1>1, <1>2 DEF Traverses
<1>7. ToSet(s) = {f[x] : x \in S}
  BY <1>3, <1>5, <1>6 DEF ToSet
<1> QED
  BY <1>2, <1>5, <1>7

LEMMA RisingOrder ==
    ASSUME NEW S \in SUBSET Int
    PROVE  TotalOrder(Rising(S), S)
BY DEF TotalOrder, Irreflexive, Transitive, Total, Rising

\* The n-th of the elements that are left was at the place at[n].
LeftAt(t, s, P, at) ==
    /\ at \in [DOMAIN t -> P]
    /\ \A x \in P : \E n \in DOMAIN t : at[n] = x
    /\ \A m, n \in DOMAIN t : m < n <=> at[m] < at[n]
    /\ \A n \in DOMAIN t : t[n] = s[at[n]]

LEMMA OnlyFacts ==
    ASSUME NEW s, IsSequence(s), NEW P \in SUBSET DOMAIN s, NEW t, t = Only(s, P)
    PROVE  /\ IsSequence(t) /\ ToSet(t) = {s[k] : k \in P}
           /\ \E at : LeftAt(t, s, P, at)
<1>1. IsFiniteSet(P) /\ P \in SUBSET Int
  BY SequenceFacts, FS_Subset
<1>2. PICK f : f = [k \in P |-> s[k]]
  OBVIOUS
<1>3. t = InOrder(f, Rising(P)) /\ DOMAIN f = P /\ TotalOrder(Rising(P), P)
  BY <1>1, <1>2, RisingOrder DEF Only
<1>4. PICK at : Traverses(at, P, Rising(P)) /\ t = [n \in 1 .. Cardinality(P) |-> f[at[n]]]
  BY <1>1, <1>3, InOrderFacts
<1>5. IsSequence(t) /\ ToSet(t) = {f[k] : k \in P}
  BY <1>1, <1>3, OrderedSequence
<1>6. DOMAIN t = 1 .. Cardinality(P) /\ at \in [DOMAIN t -> P]
  BY <1>4 DEF Traverses
<1>7. \A m, n \in DOMAIN t : m < n <=> at[m] < at[n]
  <2>1. \A m, n \in DOMAIN t : m < n <=> <<at[m], at[n]>> \in Rising(P)
    BY <1>4, <1>6 DEF Traverses
  <2> QED
    BY <1>6, <2>1 DEF Rising
<1>8. \A n \in DOMAIN t : t[n] = s[at[n]]
  BY <1>2, <1>4, <1>6
<1>9. \A x \in P : \E n \in DOMAIN t : at[n] = x
  BY <1>4, <1>6 DEF Traverses
<1>10. LeftAt(t, s, P, at)
  BY <1>6, <1>7, <1>8, <1>9 DEF LeftAt
<1> QED
  BY <1>2, <1>5, <1>10

LEMMA RowByRowOrder ==
    ASSUME NEW S \in SUBSET (Int \X Int)
    PROVE  TotalOrder(RowByRow(S), S)
<1>1. \A x, y \in S : <<x, y>> \in RowByRow(S) <=> \/ x[1] < y[1]
                                                   \/ x[1] = y[1] /\ x[2] < y[2]
  BY DEF RowByRow
<1>2. \A x \in S : x[1] \in Int /\ x[2] \in Int /\ x = <<x[1], x[2]>>
  OBVIOUS
<1>3. Irreflexive(RowByRow(S), S)
  BY <1>1, <1>2 DEF Irreflexive
<1>4. Transitive(RowByRow(S), S)
  <2> SUFFICES ASSUME NEW x \in S, NEW y \in S, NEW z \in S,
                      <<x, y>> \in RowByRow(S), <<y, z>> \in RowByRow(S)
               PROVE  <<x, z>> \in RowByRow(S)
    BY DEF Transitive
  <2> QED
    BY <1>1, <1>2
<1>5. Total(RowByRow(S), S)
  <2> SUFFICES ASSUME NEW x \in S, NEW y \in S
               PROVE  x = y \/ <<x, y>> \in RowByRow(S) \/ <<y, x>> \in RowByRow(S)
    BY DEF Total
  <2> QED
    BY <1>1, <1>2
<1> QED
  BY <1>3, <1>4, <1>5 DEF TotalOrder

\* The places of finitely many finite rows.
LEMMA PlacesFacts ==
    ASSUME NEW rows, NEW n \in Nat, DOMAIN rows = 1 .. n, \A k \in 1 .. n : IsSequence(rows[k])
    PROVE  /\ IsFiniteSet(PlacesIn(rows)) /\ PlacesIn(rows) \in SUBSET (Int \X Int)
           /\ \A k, d : <<k, d>> \in PlacesIn(rows) <=> k \in DOMAIN rows /\ d \in DOMAIN rows[k]
           /\ \A p \in PlacesIn(rows) : /\ p = <<p[1], p[2]>>
                                        /\ p[1] \in DOMAIN rows /\ p[2] \in DOMAIN rows[p[1]]
<1> DEFINE row(k) == {k} \X DOMAIN rows[k]
           D == 1 .. n
           all == {row(k) : k \in D}
<1>1. IsFiniteSet(D)
  BY FS_Interval
<1>2. ASSUME NEW k \in D PROVE IsFiniteSet(row(k))
  BY FS_Product, FS_Singleton, SequenceFacts
<1>3. IsFiniteSet(all)
  <2> DEFINE f == [k \in D |-> row(k)]
  <2> HIDE DEF row
  <2>1. f \in Surjection(D, all)
    BY DEF Surjection
  <2> HIDE DEF f, all, D
  <2> QED
    BY <1>1, <2>1, FS_Surjection
<1>4. \A T \in all : IsFiniteSet(T)
  BY <1>2
<1>5. PlacesIn(rows) = UNION all
  BY DEF PlacesIn
<1>6. IsFiniteSet(PlacesIn(rows))
  <2> HIDE DEF all
  <2> QED
    BY <1>3, <1>4, <1>5, FS_UNION
<1>7. \A k \in D : DOMAIN rows[k] \in SUBSET Int
  BY SequenceFacts
<1>8. \A p \in PlacesIn(rows) : \E k \in D : p \in {k} \X DOMAIN rows[k]
  BY <1>5
<1>9. \A k \in D : \A d \in DOMAIN rows[k] : <<k, d>> \in PlacesIn(rows)
  BY <1>5
<1> QED
  BY <1>6, <1>7, <1>8, <1>9

-----------------------------------------------------------------------------
(* Sorting, and leaving out what was met before. *)

\* A set of numbers has a least one,
LEMMA LeastNumber ==
    ASSUME NEW S \in SUBSET Nat, S # {}
    PROVE  \E a \in S : \A b \in S : a <= b
<1> DEFINE less == {ss \in Nat \X Nat : ss[1] < ss[2]}
<1>1. IsWellFoundedOn(less, Nat)
  BY NatLessThanWellFounded DEF OpToRel
<1> HIDE DEF less
<1>2. PICK a \in S : \A b \in S : ~(<<b, a>> \in less)
  BY <1>1, WFMin
<1>3. ASSUME NEW b \in S PROVE a <= b
  <2>1. a \in Nat /\ b \in Nat
    OBVIOUS
  <2>2. ~(b < a)
    BY <1>2, <2>1 DEF less
  <2> QED
    BY <2>1, <2>2
<1> QED
  BY <1>3

\* and a set of places a first one.
LEMMA FirstPlace ==
    ASSUME NEW n \in Nat, NEW S \in SUBSET (1 .. n), S # {}
    PROVE  Min(S) \in S /\ \A k \in S : Min(S) <= k
<1>1. S \in SUBSET Nat
  OBVIOUS
<1>2. \E a \in S : \A b \in S : a <= b
  BY <1>1, LeastNumber
<1> QED
  BY <1>2 DEF Min

IsOffer(o) == /\ DOMAIN o = {"reference", "secret", "set", "key"}
              /\ \A k \in 1 .. 4 : o.key[k] \in Int
AreOffered(offers) == IsSequence(offers) /\ \A o \in ToSet(offers) : IsOffer(o)

\* The four keys, one after the other.
LEMMA CompareFacts ==
    ASSUME NEW a, NEW b
    PROVE  Compare(a, b) <=>
               \/ a.key[1] < b.key[1]
               \/ a.key[1] = b.key[1] /\ a.key[2] < b.key[2]
               \/ a.key[1] = b.key[1] /\ a.key[2] = b.key[2] /\ a.key[3] < b.key[3]
               \/ a.key[1] = b.key[1] /\ a.key[2] = b.key[2] /\ a.key[3] = b.key[3] /\ a.key[4] < b.key[4]
<1> DEFINE At(k) == a.key[k] < b.key[k] /\ \A j \in 1 .. k - 1 : a.key[j] = b.key[j]
<1>1. Compare(a, b) <=> At(1) \/ At(2) \/ At(3) \/ At(4)
  BY DEF Compare
<1>2. /\ 1 .. 1 - 1 = {} /\ 1 .. 2 - 1 = {1} /\ 1 .. 3 - 1 = {1, 2} /\ 1 .. 4 - 1 = {1, 2, 3}
  OBVIOUS
<1>3. /\ At(1) <=> a.key[1] < b.key[1]
      /\ At(2) <=> a.key[1] = b.key[1] /\ a.key[2] < b.key[2]
      /\ At(3) <=> a.key[1] = b.key[1] /\ a.key[2] = b.key[2] /\ a.key[3] < b.key[3]
      /\ At(4) <=> a.key[1] = b.key[1] /\ a.key[2] = b.key[2] /\ a.key[3] = b.key[3] /\ a.key[4] < b.key[4]
  BY <1>2
<1> QED
  BY <1>1, <1>3

\* compareAlternatives is a strict weak order,
LEMMA CompareOrders ==
    ASSUME NEW a, NEW b, NEW c, IsOffer(a), IsOffer(b), IsOffer(c)
    PROVE  /\ ~Compare(a, a)
           /\ Compare(a, b) /\ Compare(b, c) => Compare(a, c)
           /\ Compare(a, c) => Compare(a, b) \/ Compare(b, c)
<1>1. \A o : IsOffer(o) => o.key[1] \in Int /\ o.key[2] \in Int /\ o.key[3] \in Int /\ o.key[4] \in Int
  BY DEF IsOffer
<1> QED
  BY <1>1, CompareFacts

\* and with the places to decide the rest a total one.
LEMMA PrecedesOrder ==
    ASSUME NEW offers, AreOffered(offers), NEW D, D = DOMAIN offers,
           NEW R, R = {p \in D \X D : Precedes(offers[p[1]], offers[p[2]], p[1], p[2])}
    PROVE  TotalOrder(R, D)
<1>1. /\ D \in SUBSET Int
      /\ \A i \in D : IsOffer(offers[i])
  BY SequenceFacts DEF AreOffered
<1>2. \A i, j \in D : <<i, j>> \in R <=>
          Compare(offers[i], offers[j]) \/ (~Compare(offers[j], offers[i]) /\ i < j)
  BY DEF Precedes
<1>3. Irreflexive(R, D)
  BY <1>1, <1>2, CompareOrders DEF Irreflexive
<1>4. Transitive(R, D)
  <2> SUFFICES ASSUME NEW i \in D, NEW j \in D, NEW k \in D, <<i, j>> \in R, <<j, k>> \in R
               PROVE  <<i, k>> \in R
    BY DEF Transitive
  <2>1. PICK a, b, c : a = offers[i] /\ b = offers[j] /\ c = offers[k]
    OBVIOUS
  <2>2. IsOffer(a) /\ IsOffer(b) /\ IsOffer(c)
    BY <1>1, <2>1
  <2>3. /\ Compare(a, b) \/ (~Compare(b, a) /\ i < j)
        /\ Compare(b, c) \/ (~Compare(c, b) /\ j < k)
    BY <1>2, <2>1
  <2>4. /\ Compare(a, b) /\ Compare(b, c) => Compare(a, c)
        /\ Compare(a, b) => Compare(a, c) \/ Compare(c, b)
        /\ Compare(b, c) => Compare(b, a) \/ Compare(a, c)
        /\ Compare(c, a) => Compare(c, b) \/ Compare(b, a)
    BY <2>2, CompareOrders
  <2>5. i < j /\ j < k => i < k
    BY <1>1
  <2>6. Compare(a, c) \/ (~Compare(c, a) /\ i < k)
    BY <2>3, <2>4, <2>5, Zenon
  <2> QED
    BY <1>2, <2>1, <2>6
<1>5. Total(R, D)
  <2> SUFFICES ASSUME NEW i \in D, NEW j \in D, i # j
               PROVE  <<i, j>> \in R \/ <<j, i>> \in R
    BY DEF Total
  <2>1. i < j \/ j < i
    BY <1>1
  <2> QED
    BY <1>2, <2>1
<1> QED
  BY <1>3, <1>4, <1>5 DEF TotalOrder

LEMMA SortFacts ==
    ASSUME NEW offers, AreOffered(offers), NEW s, s = SortStable(offers)
    PROVE  /\ IsSequence(s) /\ ToSet(s) = ToSet(offers)
           /\ \A m, n \in DOMAIN s : m < n => ~Compare(s[n], s[m])
<1>1. PICK D : D = DOMAIN offers
  OBVIOUS
<1>2. PICK R : R = {p \in D \X D : Precedes(offers[p[1]], offers[p[2]], p[1], p[2])}
  OBVIOUS
<1>3. s = InOrder(offers, R)
  BY <1>1, <1>2 DEF SortStable
<1>4. IsFiniteSet(D) /\ TotalOrder(R, D)
  BY <1>1, <1>2, SequenceFacts, PrecedesOrder DEF AreOffered
<1>5. PICK at : Traverses(at, D, R) /\ s = [n \in 1 .. Cardinality(D) |-> offers[at[n]]]
  BY <1>1, <1>3, <1>4, InOrderFacts
<1>6. IsSequence(s) /\ ToSet(s) = {offers[x] : x \in D}
  BY <1>1, <1>3, <1>4, OrderedSequence
<1>7. ASSUME NEW m \in DOMAIN s, NEW n \in DOMAIN s, m < n PROVE ~Compare(s[n], s[m])
  <2>1. /\ m \in 1 .. Cardinality(D) /\ n \in 1 .. Cardinality(D)
        /\ s[m] = offers[at[m]] /\ s[n] = offers[at[n]]
    BY <1>5
  <2>2. at[m] \in D /\ at[n] \in D /\ <<at[m], at[n]>> \in R
    BY <1>5, <1>7, <2>1 DEF Traverses
  <2>3. Precedes(s[m], s[n], at[m], at[n])
    BY <1>2, <2>1, <2>2
  <2>4. IsOffer(s[m]) /\ IsOffer(s[n])
    BY <1>1, <2>1, <2>2 DEF AreOffered, ToSet
  <2>5. Compare(s[n], s[m]) /\ Compare(s[m], s[n]) => Compare(s[n], s[n])
    BY <2>4, CompareOrders
  <2> QED
    BY <2>3, <2>4, <2>5, CompareOrders DEF Precedes
<1> QED
  BY <1>1, <1>6, <1>7 DEF ToSet

\* at[n] is where the n-th of the references was met first.
FirstMet(offers, d, at) ==
    /\ at \in [DOMAIN d -> DOMAIN offers]
    /\ \A n \in DOMAIN d : d[n] = offers[at[n]]
    /\ \A n \in DOMAIN d : \A j \in DOMAIN offers : j < at[n] => offers[j].reference # d[n].reference
    /\ \A m, n \in DOMAIN d : m < n <=> at[m] < at[n]
    /\ \A o \in ToSet(offers) : \E n \in DOMAIN d : d[n].reference = o.reference

LEMMA DistinctFacts ==
    ASSUME NEW offers, IsSequence(offers), NEW d, d = Distinct(offers)
    PROVE  IsSequence(d) /\ \E at : FirstMet(offers, d, at)
<1> DEFINE firsts == {k \in DOMAIN offers : \A j \in 1 .. k - 1 : offers[j].reference # offers[k].reference}
<1>1. PICK S : S = firsts
  OBVIOUS
<1>2. /\ Len(offers) \in Nat /\ DOMAIN offers = 1 .. Len(offers) /\ S \in SUBSET DOMAIN offers
      /\ S \in SUBSET Int /\ IsFiniteSet(S)
  BY <1>1, SequenceFacts, FS_Subset
<1>3. PICK f : f = [k \in S |-> offers[k]]
  OBVIOUS
<1>4. d = InOrder(f, Rising(S)) /\ DOMAIN f = S /\ TotalOrder(Rising(S), S)
  BY <1>1, <1>2, <1>3, RisingOrder DEF Distinct, Only
<1>5. PICK at : Traverses(at, S, Rising(S)) /\ d = [n \in 1 .. Cardinality(S) |-> f[at[n]]]
  BY <1>2, <1>4, InOrderFacts
<1>6. IsSequence(d)
  BY <1>2, <1>4, OrderedSequence
<1>7. DOMAIN d = 1 .. Cardinality(S) /\ at \in [DOMAIN d -> S]
  BY <1>5 DEF Traverses
<1>8. \A n \in DOMAIN d : at[n] \in S /\ d[n] = offers[at[n]]
  BY <1>3, <1>5, <1>7
<1>9. ASSUME NEW n \in DOMAIN d, NEW j \in DOMAIN offers, j < at[n]
      PROVE  offers[j].reference # d[n].reference
  <2>1. j \in 1 .. at[n] - 1
    BY <1>2, <1>8, <1>9
  <2> QED
    BY <1>1, <1>8, <2>1
<1>10. \A m, n \in DOMAIN d : m < n <=> at[m] < at[n]
  <2>1. \A m, n \in DOMAIN d : m < n <=> <<at[m], at[n]>> \in Rising(S)
    BY <1>5, <1>7 DEF Traverses
  <2> QED
    BY <1>8, <2>1 DEF Rising
<1>11. ASSUME NEW o \in ToSet(offers) PROVE \E n \in DOMAIN d : d[n].reference = o.reference
  <2> DEFINE same == {k \in 1 .. Len(offers) : offers[k].reference = o.reference}
  <2>1. same # {} /\ same \in SUBSET (1 .. Len(offers))
    BY SequenceFacts
  <2>2. Min(same) \in same /\ \A k \in same : Min(same) <= k
    <3> HIDE DEF same
    <3> QED
      BY <1>2, <2>1, FirstPlace
  <2>3. PICK k \in same : \A j \in same : k <= j
    BY <2>2
  <2>4. \A j \in 1 .. k - 1 : offers[j].reference # offers[k].reference
    <3> SUFFICES ASSUME NEW j \in 1 .. k - 1, offers[j].reference = offers[k].reference PROVE FALSE
      OBVIOUS
    <3>1. k \in 1 .. Len(offers) /\ j \in 1 .. Len(offers) /\ j < k
      BY <1>2
    <3>2. j \in same
      BY <3>1
    <3> QED
      BY <2>3, <3>1, <3>2
  <2>5. k \in S
    BY <1>1, <1>2, <2>4
  <2>6. PICK n \in DOMAIN d : at[n] = k
    BY <1>5, <1>7, <2>5 DEF Traverses
  <2> QED
    BY <1>8, <2>6
<1>12. FirstMet(offers, d, at)
  <2>1. at \in [DOMAIN d -> DOMAIN offers]
    BY <1>2, <1>7
  <2> QED
    BY <1>8, <1>9, <1>10, <1>11, <2>1 DEF FirstMet
<1> QED
  BY <1>6, <1>12

\* The list of what is collected: each reference once, where the best of its
\* offers comes.
LEMMA ListFacts ==
    ASSUME NEW offers, AreOffered(offers), NEW list, list = Distinct(SortStable(offers))
    PROVE  /\ IsSequence(list) /\ ToSet(list) \subseteq ToSet(offers)
           /\ \A o \in ToSet(offers) : \E k \in DOMAIN list : list[k].reference = o.reference
           /\ \A j, k \in DOMAIN list : j < k =>
                 /\ list[j].reference # list[k].reference
                 /\ \A b \in ToSet(offers) : b.reference = list[k].reference => ~Compare(b, list[j])
<1>1. PICK s : s = SortStable(offers)
  OBVIOUS
<1>2. /\ IsSequence(s) /\ ToSet(s) = ToSet(offers)
      /\ \A m, n \in DOMAIN s : m < n => ~Compare(s[n], s[m])
  BY <1>1, SortFacts
<1>3. IsSequence(list)
  BY <1>1, <1>2, DistinctFacts
<1>4. PICK at : FirstMet(s, list, at)
  BY <1>1, <1>2, DistinctFacts
<1>5. \A n \in DOMAIN list : at[n] \in DOMAIN s /\ list[n] = s[at[n]]
  BY <1>4 DEF FirstMet
<1>6. ToSet(list) \subseteq ToSet(offers)
  BY <1>2, <1>5 DEF ToSet
<1>7. DOMAIN s \in SUBSET Int
  BY <1>2, SequenceFacts
<1>8. ASSUME NEW j \in DOMAIN list, NEW k \in DOMAIN list, j < k
      PROVE  list[j].reference # list[k].reference
  <2>1. at[j] < at[k]
    BY <1>4, <1>8 DEF FirstMet
  <2> QED
    BY <1>4, <1>5, <2>1 DEF FirstMet
<1>9. ASSUME NEW j \in DOMAIN list, NEW k \in DOMAIN list, j < k,
             NEW b \in ToSet(offers), b.reference = list[k].reference
      PROVE  ~Compare(b, list[j])
  <2>1. PICK i \in DOMAIN s : b = s[i]
    BY <1>2 DEF ToSet
  <2>2. ~(i < at[k]) /\ at[j] < at[k]
    BY <1>4, <1>9, <2>1 DEF FirstMet
  <2>3. at[j] < i
    BY <1>5, <1>7, <2>2
  <2> QED
    BY <1>2, <1>5, <2>1, <2>3
<1>10. \A o \in ToSet(offers) : \E k \in DOMAIN list : list[k].reference = o.reference
  BY <1>2, <1>4 DEF FirstMet
<1> QED
  BY <1>3, <1>6, <1>8, <1>9, <1>10

-----------------------------------------------------------------------------
(* What is collected. *)

\* One round of the loop over the mirror sets.
Round(offers, s) == IF s.set.valid THEN offers \o MirrorOffers(offers, s) ELSE offers

\* The function that the loop computes exists: else there would be a first
\* round that has none, and the one before it could be gone on from.
LEMMA AfterMirrorsDefined ==
    ASSUME NEW mirrorSets, Len(mirrorSets) \in Nat, NEW base,
           NEW after, after = AfterMirrors(mirrorSets, base)
    PROVE  /\ after[0] = base
           /\ \A n \in 1 .. Len(mirrorSets) : after[n] = Round(after[n - 1], mirrorSets[n])
<1> DEFINE IsAfter(g, m) == g = [n \in 0 .. m |-> IF n = 0 THEN base
                                                 ELSE Round(g[n - 1], mirrorSets[n])]
           N == Len(mirrorSets)
           stuck == {m \in 0 .. N : ~\E g : IsAfter(g, m)}
<1>1. stuck = {}
  <2> SUFFICES ASSUME stuck # {} PROVE FALSE
    OBVIOUS
  <2>1. stuck \in SUBSET Nat
    OBVIOUS
  <2>2. PICK m \in stuck : \A k \in stuck : m <= k
    <3> HIDE DEF stuck
    <3> QED
      BY <2>1, LeastNumber
  <2>3. m # 0
    <3> DEFINE g == [n \in 0 .. 0 |-> base]
    <3>1. IsAfter(g, 0)
      OBVIOUS
    <3> QED
      BY <3>1
  <2>4. m \in 1 .. N /\ m - 1 \in 0 .. N /\ m - 1 \notin stuck
    BY <2>2, <2>3
  <2>5. PICK g : IsAfter(g, m - 1)
    BY <2>4
  <2> DEFINE h == [n \in 0 .. m |-> IF n = m THEN Round(g[m - 1], mirrorSets[m]) ELSE g[n]]
  <2>6. \A n \in 0 .. m - 1 : h[n] = g[n]
    BY <2>4
  <2>7. \A n \in 0 .. m : h[n] = IF n = 0 THEN base ELSE Round(h[n - 1], mirrorSets[n])
    <3> SUFFICES ASSUME NEW n \in 0 .. m
                 PROVE  h[n] = IF n = 0 THEN base ELSE Round(h[n - 1], mirrorSets[n])
      OBVIOUS
    <3>1. CASE n = m
      <4>1. h[n] = Round(g[m - 1], mirrorSets[m]) /\ h[n - 1] = g[m - 1] /\ n # 0
        BY <2>3, <2>4, <2>6, <3>1
      <4> QED
        BY <3>1, <4>1
    <3>2. CASE n # m
      <4>1. n \in 0 .. m - 1 /\ (n # 0 => n - 1 \in 0 .. m - 1)
        BY <2>4, <3>2
      <4>2. h[n] = g[n] /\ (n # 0 => h[n - 1] = g[n - 1])
        BY <2>6, <4>1
      <4>3. g[n] = IF n = 0 THEN base ELSE Round(g[n - 1], mirrorSets[n])
        BY <2>5, <4>1
      <4> QED
        BY <4>2, <4>3
    <3> QED
      BY <3>1, <3>2
  <2>8. IsAfter(h, m)
    BY <2>7
  <2> QED
    BY <2>2, <2>8
<1>2. \E g : IsAfter(g, N)
  <2>1. N \in 0 .. N
    OBVIOUS
  <2> QED
    BY <1>1, <2>1
<1>3. after = CHOOSE g : IsAfter(g, N)
  BY DEF AfterMirrors, Round
<1>4. IsAfter(after, N)
  <2> HIDE DEF IsAfter
  <2> QED
    BY <1>2, <1>3
<1>5. \A n \in 1 .. N : n \in 0 .. N /\ n # 0
  OBVIOUS
<1> QED
  BY <1>4, <1>5
\* What one round adds: the mirrors of each offer that the set accepts.
LEMMA MirrorOffersFacts ==
    ASSUME NEW offers, IsSequence(offers), NEW s, IsSequence(s.set.mirrors)
    PROVE  /\ IsSequence(MirrorOffers(offers, s))
           /\ \A x : x \in ToSet(MirrorOffers(offers, s)) <=>
                  \E o \in ToSet(offers), d \in DOMAIN s.set.mirrors :
                      o.reference \in s.set.accepts /\ x = MirrorOffer(s, d, o)
<1> DEFINE all == (DOMAIN offers) \X DOMAIN s.set.mirrors
           places == {p \in all : offers[p[1]].reference \in s.set.accepts}
           f == [p \in places |-> MirrorOffer(s, p[2], offers[p[1]])]
<1>1. IsFiniteSet(all) /\ all \in SUBSET (Int \X Int)
  BY SequenceFacts, FS_Product
<1>2. IsFiniteSet(places) /\ TotalOrder(RowByRow(places), places)
  <2>1. places \in SUBSET all
    OBVIOUS
  <2> HIDE DEF all, places
  <2> QED
    BY <1>1, <2>1, FS_Subset, RowByRowOrder
<1>3. /\ IsSequence(InOrder(f, RowByRow(places)))
      /\ ToSet(InOrder(f, RowByRow(places))) = {f[p] : p \in places}
  <2>1. DOMAIN f = places
    OBVIOUS
  <2> HIDE DEF f, places
  <2> QED
    BY <1>2, <2>1, OrderedSequence
<1>4. MirrorOffers(offers, s) = InOrder(f, RowByRow(places))
  BY DEF MirrorOffers
<1>5. ASSUME NEW x
      PROVE  (\E p \in places : x = f[p]) <=>
                 \E o \in ToSet(offers), d \in DOMAIN s.set.mirrors :
                     o.reference \in s.set.accepts /\ x = MirrorOffer(s, d, o)
  <2>1. ASSUME NEW o \in ToSet(offers), NEW d \in DOMAIN s.set.mirrors, o.reference \in s.set.accepts
        PROVE  \E p \in places : f[p] = MirrorOffer(s, d, o)
    <3>1. PICK i \in DOMAIN offers : offers[i] = o
      BY DEF ToSet
    <3>2. <<i, d>> \in places /\ f[<<i, d>>] = MirrorOffer(s, d, o)
      BY <2>1, <3>1
    <3> QED
      BY <3>2
  <2>2. ASSUME NEW p \in places
        PROVE  \E o \in ToSet(offers), d \in DOMAIN s.set.mirrors :
                   o.reference \in s.set.accepts /\ f[p] = MirrorOffer(s, d, o)
    <3>1. /\ p[1] \in DOMAIN offers /\ p[2] \in DOMAIN s.set.mirrors
          /\ offers[p[1]].reference \in s.set.accepts
          /\ f[p] = MirrorOffer(s, p[2], offers[p[1]])
      OBVIOUS
    <3>2. offers[p[1]] \in ToSet(offers)
      BY <3>1 DEF ToSet
    <3> QED
      BY <3>1, <3>2
  <2> HIDE DEF f, places
  <2> QED
    BY <2>1, <2>2
<1> HIDE DEF f, places
<1>6. \A x : x \in ToSet(MirrorOffers(offers, s)) <=> \E p \in places : x = f[p]
  BY <1>3, <1>4
<1> QED
  BY <1>3, <1>4, <1>5, <1>6

\* What the replicated sets offer.
LEMMA UpstreamOffersFacts ==
    ASSUME NEW sets, IsSequence(sets), \A s \in ToSet(sets) : IsSequence(s.set.upstreams), NEW image
    PROVE  /\ IsSequence(UpstreamOffers(sets, image))
           /\ \A x : x \in ToSet(UpstreamOffers(sets, image)) <=>
                  \E s \in ToSet(sets) : \E d \in DOMAIN s.set.upstreams :
                      IsOffered(s.set, d, image) /\ x = UpstreamOffer(s, d, image)
<1> DEFINE rows == [k \in DOMAIN sets |-> sets[k].set.upstreams]
           places == {p \in PlacesIn(rows) : IsOffered(sets[p[1]].set, p[2], image)}
           f == [p \in places |-> UpstreamOffer(sets[p[1]], p[2], image)]
<1>1. /\ IsFiniteSet(PlacesIn(rows)) /\ PlacesIn(rows) \in SUBSET (Int \X Int)
      /\ \A k, d : <<k, d>> \in PlacesIn(rows) <=> k \in DOMAIN rows /\ d \in DOMAIN rows[k]
      /\ \A p \in PlacesIn(rows) : /\ p = <<p[1], p[2]>>
                                   /\ p[1] \in DOMAIN rows /\ p[2] \in DOMAIN rows[p[1]]
  <2>1. Len(sets) \in Nat /\ DOMAIN rows = 1 .. Len(sets)
    BY SequenceFacts
  <2>2. \A k \in 1 .. Len(sets) : IsSequence(rows[k])
    BY SequenceFacts
  <2> HIDE DEF rows
  <2> QED
    BY <2>1, <2>2, PlacesFacts
<1>2. IsFiniteSet(places) /\ TotalOrder(RowByRow(places), places)
  <2>1. places \in SUBSET PlacesIn(rows)
    OBVIOUS
  <2> HIDE DEF rows, places
  <2> QED
    BY <1>1, <2>1, FS_Subset, RowByRowOrder
<1>3. /\ IsSequence(InOrder(f, RowByRow(places)))
      /\ ToSet(InOrder(f, RowByRow(places))) = {f[p] : p \in places}
  <2>1. DOMAIN f = places
    OBVIOUS
  <2> HIDE DEF f, places
  <2> QED
    BY <1>2, <2>1, OrderedSequence
<1>4. UpstreamOffers(sets, image) = InOrder(f, RowByRow(places))
  BY DEF UpstreamOffers
<1>5. ASSUME NEW s \in ToSet(sets), NEW d \in DOMAIN s.set.upstreams, IsOffered(s.set, d, image)
      PROVE  \E p \in places : f[p] = UpstreamOffer(s, d, image)
  <2>1. PICK k \in DOMAIN sets : sets[k] = s
    BY DEF ToSet
  <2>2. <<k, d>> \in PlacesIn(rows)
    BY <1>1, <2>1
  <2>3. <<k, d>> \in places /\ f[<<k, d>>] = UpstreamOffer(s, d, image)
    BY <1>5, <2>1, <2>2
  <2> QED
    BY <2>3
<1>6. ASSUME NEW p \in places
      PROVE  \E s \in ToSet(sets) : \E d \in DOMAIN s.set.upstreams :
                 IsOffered(s.set, d, image) /\ f[p] = UpstreamOffer(s, d, image)
  <2>1. p[1] \in DOMAIN sets /\ p[2] \in DOMAIN sets[p[1]].set.upstreams
    BY <1>1
  <2>2. IsOffered(sets[p[1]].set, p[2], image) /\ f[p] = UpstreamOffer(sets[p[1]], p[2], image)
    OBVIOUS
  <2>3. sets[p[1]] \in ToSet(sets)
    BY <2>1 DEF ToSet
  <2> QED
    BY <2>1, <2>2, <2>3
<1> HIDE DEF f, places
<1> QED
  BY <1>3, <1>4, <1>5, <1>6

\* An offer of a set has the keys of the set.
LEMMA MirrorOfferKeys ==
    ASSUME NEW s, IsMirrorSet(s), NEW d \in DOMAIN s.set.mirrors, NEW o
    PROVE  IsOffer(MirrorOffer(s, d, o)) /\ MirrorOffer(s, d, o).set = s.name
<1>1. s.set.mirrors[d].priority \in Int /\ s.set.priority \in Int /\ d \in Int
  BY SequenceFacts DEF IsMirrorSet, ToSet
<1>2. MirrorType(s.set) \in Int
  BY DEF MirrorType
<1>3. /\ MirrorOffer(s, d, o).key = <<s.set.priority, MirrorType(s.set), s.set.mirrors[d].priority, d>>
      /\ MirrorOffer(s, d, o).set = s.name
      /\ DOMAIN MirrorOffer(s, d, o) = {"reference", "secret", "set", "key"}
  BY DEF MirrorOffer, Offer
<1>4. PICK x : x = MirrorOffer(s, d, o)
  OBVIOUS
<1> QED
  BY <1>1, <1>2, <1>3, <1>4 DEF IsOffer

LEMMA UpstreamOfferKeys ==
    ASSUME NEW s, IsReplicatedSet(s), NEW d \in DOMAIN s.set.upstreams, NEW image
    PROVE  IsOffer(UpstreamOffer(s, d, image)) /\ UpstreamOffer(s, d, image).set = s.name
<1>1. s.set.upstreams[d].priority \in Int /\ s.set.priority \in Int /\ d \in Int
  BY SequenceFacts DEF IsReplicatedSet, ToSet
<1>2. ReplicaType(s.set) \in Int
  BY DEF ReplicaType
<1>3. /\ UpstreamOffer(s, d, image).key
             = <<s.set.priority, ReplicaType(s.set), s.set.upstreams[d].priority, d>>
      /\ UpstreamOffer(s, d, image).set = s.name
      /\ DOMAIN UpstreamOffer(s, d, image) = {"reference", "secret", "set", "key"}
  BY DEF UpstreamOffer, Offer
<1>4. PICK x : x = UpstreamOffer(s, d, image)
  OBVIOUS
<1> QED
  BY <1>1, <1>2, <1>3, <1>4 DEF IsOffer

\* Before the mirrors: upstreams, and the original unless it is discarded.
LEMMA BaseFacts ==
    ASSUME NEW sets, IsSequence(sets), \A s \in ToSet(sets) : IsReplicatedSet(s),
           NEW image, NEW pinned, MinInt \in Int
    PROVE  /\ AreOffered(Base(sets, image, pinned))
           /\ \A x : x \in ToSet(Base(sets, image, pinned)) <=>
                  \/ \E s \in ToSet(sets) : \E d \in DOMAIN s.set.upstreams :
                         IsOffered(s.set, d, image) /\ x = UpstreamOffer(s, d, image)
                  \/ ~DiscardOriginal(sets, image) /\ x = OriginalOffer(image, pinned)
<1>1. PICK us : us = UpstreamOffers(sets, image)
  OBVIOUS
<1>2. PICK os : os = IF DiscardOriginal(sets, image) THEN << >> ELSE <<OriginalOffer(image, pinned)>>
  OBVIOUS
<1>3. /\ IsSequence(us)
      /\ \A x : x \in ToSet(us) <=>
             \E s \in ToSet(sets) : \E d \in DOMAIN s.set.upstreams :
                 IsOffered(s.set, d, image) /\ x = UpstreamOffer(s, d, image)
  BY <1>1, UpstreamOffersFacts DEF IsReplicatedSet
<1>4. /\ IsSequence(os)
      /\ \A x : x \in ToSet(os) <=> ~DiscardOriginal(sets, image) /\ x = OriginalOffer(image, pinned)
  <2>1. CASE DiscardOriginal(sets, image)
    BY <1>2, <2>1, EmptyFacts
  <2>2. CASE ~DiscardOriginal(sets, image)
    <3>1. PICK original : original = OriginalOffer(image, pinned)
      OBVIOUS
    <3>2. DOMAIN <<original>> = {1} /\ <<original>> \in Seq({original}) /\ <<original>>[1] = original
      OBVIOUS
    <3>3. ToSet(<<original>>) = {original}
      BY <3>2 DEF ToSet
    <3> QED
      BY <1>2, <2>2, <3>1, <3>2, <3>3 DEF IsSequence
  <2> QED
    BY <2>1, <2>2
<1>5. Base(sets, image, pinned) = us \o os
  BY <1>1, <1>2 DEF Base
<1>6. IsSequence(us \o os) /\ ToSet(us \o os) = ToSet(us) \cup ToSet(os)
  BY <1>3, <1>4, ConcatenationFacts
<1>7. IsOffer(OriginalOffer(image, pinned))
  BY DEF OriginalOffer, Offer, IsOffer, Original
<1>8. \A s \in ToSet(sets) : \A d \in DOMAIN s.set.upstreams : IsOffer(UpstreamOffer(s, d, image))
  BY UpstreamOfferKeys
<1> QED
  BY <1>3, <1>4, <1>5, <1>6, <1>7, <1>8 DEF AreOffered
LEMMA RoundFacts ==
    ASSUME NEW offers, AreOffered(offers), NEW s, IsMirrorSet(s)
    PROVE  /\ AreOffered(Round(offers, s))
           /\ \A x : x \in ToSet(Round(offers, s)) <=>
                  \/ x \in ToSet(offers)
                  \/ /\ s.set.valid
                     /\ \E o \in ToSet(offers), d \in DOMAIN s.set.mirrors :
                            o.reference \in s.set.accepts /\ x = MirrorOffer(s, d, o)
<1>1. CASE ~s.set.valid
  BY <1>1 DEF Round
<1>2. CASE s.set.valid
  <2>1. PICK new : new = MirrorOffers(offers, s)
    OBVIOUS
  <2>2. /\ IsSequence(offers) /\ IsSequence(new)
        /\ \A x : x \in ToSet(new) <=>
               \E o \in ToSet(offers), d \in DOMAIN s.set.mirrors :
                   o.reference \in s.set.accepts /\ x = MirrorOffer(s, d, o)
    BY <2>1, MirrorOffersFacts DEF AreOffered, IsMirrorSet
  <2>3. Round(offers, s) = offers \o new
    BY <1>2, <2>1 DEF Round
  <2>4. IsSequence(offers \o new) /\ ToSet(offers \o new) = ToSet(offers) \cup ToSet(new)
    BY <2>2, ConcatenationFacts
  <2>5. \A x \in ToSet(new) : IsOffer(x)
    BY <2>2, MirrorOfferKeys
  <2> QED
    BY <1>2, <2>2, <2>3, <2>4, <2>5 DEF AreOffered
<1> QED
  BY <1>1, <1>2

\* After any number of rounds the offers are those before the first, and
\* offers of mirror sets.
LEMMA AfterMirrorsFacts ==
    ASSUME NEW mirrorSets, IsSequence(mirrorSets), \A s \in ToSet(mirrorSets) : IsMirrorSet(s),
           NEW base, AreOffered(base), NEW after, after = AfterMirrors(mirrorSets, base)
    PROVE  \A n \in 0 .. Len(mirrorSets) :
               /\ AreOffered(after[n])
               /\ \A o \in ToSet(after[n]) :
                     o \in ToSet(base) \/ \E s \in ToSet(mirrorSets) : s.name = o.set
<1> DEFINE N == Len(mirrorSets)
           Fine(n) == /\ AreOffered(after[n])
                      /\ \A o \in ToSet(after[n]) :
                            o \in ToSet(base) \/ \E s \in ToSet(mirrorSets) : s.name = o.set
           wrong == {n \in 0 .. N : ~Fine(n)}
<1>1. N \in Nat /\ \A n \in 1 .. N : mirrorSets[n] \in ToSet(mirrorSets)
  BY SequenceFacts
<1>2. /\ after[0] = base
      /\ \A n \in 1 .. N : after[n] = Round(after[n - 1], mirrorSets[n])
  BY <1>1, AfterMirrorsDefined
<1>3. Fine(0)
  BY <1>2
<1>4. ASSUME NEW n \in 1 .. N, Fine(n - 1) PROVE Fine(n)
  <2>1. PICK prev, s : prev = after[n - 1] /\ s = mirrorSets[n]
    OBVIOUS
  <2>2. after[n] = Round(prev, s) /\ s \in ToSet(mirrorSets) /\ IsMirrorSet(s)
    BY <1>1, <1>2, <2>1
  <2>3. /\ AreOffered(prev)
        /\ \A o \in ToSet(prev) :
              o \in ToSet(base) \/ \E t \in ToSet(mirrorSets) : t.name = o.set
    BY <1>4, <2>1
  <2>4. AreOffered(after[n])
    BY <2>2, <2>3, RoundFacts
  <2>5. ASSUME NEW x \in ToSet(after[n])
        PROVE  x \in ToSet(base) \/ \E t \in ToSet(mirrorSets) : t.name = x.set
    <3>1. \/ x \in ToSet(prev)
          \/ \E o \in ToSet(prev), d \in DOMAIN s.set.mirrors : x = MirrorOffer(s, d, o)
      BY <2>2, <2>3, <2>5, RoundFacts
    <3>2. \A o \in ToSet(prev), d \in DOMAIN s.set.mirrors : MirrorOffer(s, d, o).set = s.name
      BY <2>2, MirrorOfferKeys
    <3> QED
      BY <2>2, <2>3, <3>1, <3>2
  <2> QED
    BY <2>4, <2>5
<1>5. wrong = {}
  <2> SUFFICES ASSUME wrong # {} PROVE FALSE
    OBVIOUS
  <2> HIDE DEF Fine
  <2>1. wrong \in SUBSET Nat
    OBVIOUS
  <2>2. PICK n \in wrong : \A k \in wrong : n <= k
    <3> HIDE DEF wrong
    <3> QED
      BY <2>1, LeastNumber
  <2>3. n # 0
    BY <1>3, <2>2
  <2>4. n \in 1 .. N /\ n - 1 \in 0 .. N /\ ~(n <= n - 1)
    BY <1>1, <2>2, <2>3
  <2>5. Fine(n - 1)
    BY <2>2, <2>4
  <2> QED
    BY <1>4, <2>2, <2>4, <2>5
<1> QED
  BY <1>5

LEMMA CollectedFacts ==
    ASSUME NEW mirrorSets, IsSequence(mirrorSets), \A s \in ToSet(mirrorSets) : IsMirrorSet(s),
           NEW sets, IsSequence(sets), \A s \in ToSet(sets) : IsReplicatedSet(s),
           NEW image, NEW pinned, MinInt \in Int,
           NEW offers, offers = Collected(mirrorSets, sets, image, pinned)
    PROVE  /\ AreOffered(offers)
           /\ \A o \in ToSet(offers) :
                 \/ o \in ToSet(Base(sets, image, pinned))
                 \/ \E s \in ToSet(mirrorSets) : s.name = o.set
<1>1. PICK base : base = Base(sets, image, pinned)
  OBVIOUS
<1>2. PICK after : after = AfterMirrors(mirrorSets, base)
  OBVIOUS
<1>3. AreOffered(base)
  BY <1>1, BaseFacts
<1>4. offers = after[Len(mirrorSets)]
  BY <1>1, <1>2 DEF Collected
<1>5. Len(mirrorSets) \in 0 .. Len(mirrorSets)
  BY SequenceFacts
<1> QED
  BY <1>1, <1>2, <1>3, <1>4, <1>5, AfterMirrorsFacts

\* A reference begins with the location that it was made of.
LEMMA PrefixFacts ==
    ASSUME NEW s, NEW t, IsSequence(s), IsSequence(t)
    PROVE  IsPrefix(s, s \o t)
<1> DEFINE S == ToSet(s) \cup ToSet(t)
<1>1. s \in Seq(S) /\ t \in Seq(S) /\ Len(s) \in Nat /\ Len(t) \in Nat
  BY SeqMonotonic, SequenceFacts DEF IsSequence
<1>2. PICK c : c = s \o t
  OBVIOUS
<1>3. /\ c \in Seq(S) /\ Len(c) = Len(s) + Len(t)
      /\ \A i \in 1 .. Len(s) + Len(t) : c[i] = IF i <= Len(s) THEN s[i] ELSE t[i - Len(s)]
  BY <1>1, <1>2, ConcatProperties
<1> HIDE DEF S
<1>4. \A i \in 1 .. Len(s) : c[i] = s[i]
  BY <1>1, <1>3
<1>5. Len(s) <= Len(c)
  BY <1>1, <1>3
<1>6. SubSeq(s, 1, Len(s)) = SubSeq(c, 1, Len(s))
  <2>1. SubSeq(s, 1, Len(s)) = [i \in 1 .. Len(s) |-> s[i]]
    BY <1>1
  <2>2. SubSeq(c, 1, Len(s)) = [i \in 1 .. Len(s) |-> c[i]]
    BY <1>1, <1>3
  <2> QED
    BY <1>4, <2>1, <2>2
<1> QED
  BY <1>2, <1>5, <1>6 DEF IsPrefix

LEMMA LocationFacts ==
    ASSUME NEW place, IsSequence(place.path)
    PROVE  IsSequence(Location(place))
<1>1. PICK r : r = place.registry
  OBVIOUS
<1>2. DOMAIN <<r>> = {1} /\ <<r>> \in Seq({r}) /\ <<r>>[1] = r
  OBVIOUS
<1>3. ToSet(<<r>>) = {r}
  BY <1>2 DEF ToSet
<1>4. IsSequence(<<r>>)
  BY <1>2, <1>3 DEF IsSequence
<1> QED
  BY <1>1, <1>4, ConcatenationFacts DEF Location

LEMMA TrimFacts ==
    ASSUME NEW reference, NEW prefix, IsSequence(reference), IsSequence(prefix)
    PROVE  IsSequence(TrimPrefix(reference, prefix))
<1>1. CASE ~IsPrefix(prefix, reference)
  BY <1>1 DEF TrimPrefix
<1>2. CASE IsPrefix(prefix, reference)
  <2>1. Len(prefix) \in Nat /\ Len(reference) \in Nat /\ Len(prefix) <= Len(reference)
    BY <1>2, SequenceFacts DEF IsPrefix
  <2>2. PICK m, n, s : m = Len(prefix) + 1 /\ n = Len(reference) /\ s = SubSeq(reference, m, n)
    OBVIOUS
  <2>3. m \in Nat /\ n \in Nat /\ n - m + 1 \in Nat
    BY <2>1, <2>2
  <2>4. s = [i \in 1 .. n - m + 1 |-> reference[i + m - 1]]
    BY <2>2, <2>3
  <2>5. s = [i \in 1 .. n - m + 1 |-> s[i]]
    BY <2>4
  <2>6. TrimPrefix(reference, prefix) = s
    BY <1>2, <2>2 DEF TrimPrefix
  <2> QED
    BY <2>3, <2>5, <2>6, MakesSequence
<1> QED
  BY <1>1, <1>2

LEMMA UpstreamOfferPlace ==
    ASSUME NEW s, IsReplicatedSet(s), NEW d \in DOMAIN s.set.upstreams,
           NEW image, IsSequence(image), IsOffered(s.set, d, image)
    PROVE  \E u \in ToSet(s.set.upstreams) :
               Routable(u) /\ IsPrefix(Location(u), UpstreamOffer(s, d, image).reference)
<1>1. PICK us : us = s.set.upstreams
  OBVIOUS
<1>2. /\ IsSequence(us) /\ Len(us) \in Nat /\ DOMAIN us = 1 .. Len(us)
      /\ \A k \in DOMAIN us : us[k] \in ToSet(us) /\ IsSequence(us[k].path)
  BY <1>1, SequenceFacts DEF IsReplicatedSet
<1>3. PICK m : m = Matching(s.set, image)
  OBVIOUS
<1>4. m \in DOMAIN us
  <2> DEFINE S == {k \in 1 .. Len(us) : Matches(us[k], image)}
  <2>1. m = IF S # {} THEN Min(S) ELSE 0
    BY <1>1, <1>3 DEF Matching, SelectInSeq
  <2>2. m # 0
    BY <1>3 DEF IsOffered
  <2>3. S # {} => Min(S) \in S
    <3>1. S \in SUBSET (1 .. Len(us))
      OBVIOUS
    <3> HIDE DEF S
    <3> QED
      BY <1>2, <3>1, FirstPlace
  <2> QED
    BY <1>2, <2>1, <2>2, <2>3
<1>5. PICK suffix : suffix = TrimPrefix(image, Location(us[m]))
  OBVIOUS
<1>6. IsSequence(suffix) /\ IsSequence(Location(us[d]))
  BY <1>1, <1>2, <1>4, <1>5, LocationFacts, TrimFacts
<1>7. UpstreamOffer(s, d, image).reference = Location(us[d]) \o suffix
  BY <1>1, <1>3, <1>5 DEF UpstreamOffer, Offer
<1>8. Routable(us[d]) /\ us[d] \in ToSet(us)
  BY <1>1, <1>2 DEF IsOffered
<1> QED
  BY <1>1, <1>6, <1>7, <1>8, PrefixFacts

=============================================================================
