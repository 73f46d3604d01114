---------------------------- MODULE Admission_proof ----------------------------
(***************************************************************************)
(* What holds of Admission.tla for any pods, images, resources, namespaces  *)
(* and number of faults: copies of secrets that their owner's sweep could   *)
(* see go with the owner; pods that were rewritten have their secret; and   *)
(* admissions, flights and copies keep their types.                         *)
(***************************************************************************)
EXTENDS Admission, Alternatives_proof

\* What happens to resources and copies in a step, whatever admissions do.
SecretsStand == UNCHANGED <<resources, copies, late>>

Owned(c, states) == c[2] \in Owners /\ owner[c[2]] \in states

Pairs == \A c \in copies : c = <<c[1], c[2]>>
OwnersTyped == owner \in [Owners -> {"new", "kept", "deleting", "gone"}]

\* Without a finalizer, and after it, there are no copies but late ones.
NoneWithoutFinalizer == \A c \in copies : Owned(c, {"new", "gone"}) => c \in late

\* What a sweep has still to delete, and what it could not see.
SweepKnows ==
    \A o \in DOMAIN sweep :
        /\ o \in Owners /\ owner[o] = "deleting"
        /\ \A c \in copies : c[2] = o => c \in late \/ c[1] \in sweep[o]

SweepInv == Pairs /\ OwnersTyped /\ NoneWithoutFinalizer /\ SweepKnows

LEMMA SweepInit == Init => SweepInv
BY DEF Init, SweepInv, Pairs, OwnersTyped, NoneWithoutFinalizer, SweepKnows

LEMMA SweepStands == SweepInv /\ SecretsStand => SweepInv'
BY DEF SweepInv, SecretsStand, resources, Pairs, OwnersTyped, NoneWithoutFinalizer, SweepKnows, Owned

LEMMA SweepCreate == ASSUME SweepInv, NEW p \in Slots, CreateCopy(p) PROVE SweepInv'
<1> DEFINE o == adm[p].pick.set
           copy == <<NamespaceOf[p], o>>
<1>1. CASE UNCHANGED <<copies, late>>
  BY <1>1, SweepStands DEF CreateCopy, SecretsStand
<1>2. CASE copies' = copies \cup {copy} /\ late' = IF owner[o] = "kept" THEN late ELSE late \cup {copy}
  <2>1. UNCHANGED <<owner, sweep>>
    BY DEF CreateCopy, resources
  <2>2. copy[1] = NamespaceOf[p] /\ copy[2] = o
    OBVIOUS
  <2> HIDE DEF o
  <2>3. Pairs' /\ OwnersTyped'
    BY <1>2, <2>1 DEF SweepInv, Pairs, OwnersTyped
  <2>4. NoneWithoutFinalizer'
    BY <1>2, <2>1, <2>2 DEF SweepInv, NoneWithoutFinalizer, Owned
  <2>5. SweepKnows'
    BY <1>2, <2>1, <2>2 DEF SweepInv, SweepKnows
  <2> QED BY <2>3, <2>4, <2>5 DEF SweepInv
<1> QED BY <1>1, <1>2 DEF CreateCopy

LEMMA SweepAddFinalizer == ASSUME SweepInv, NEW o \in Owners, AddFinalizer(o) PROVE SweepInv'
<1>1. UNCHANGED <<sweep, copies, late>> /\ owner[o] = "new"
  BY DEF AddFinalizer, secrets
<1>2. owner' = [owner EXCEPT ![o] = "kept"]
  BY DEF AddFinalizer
<1> QED BY <1>1, <1>2 DEF SweepInv, Pairs, OwnersTyped, NoneWithoutFinalizer, SweepKnows, Owned

LEMMA SweepListCopies == ASSUME SweepInv, NEW o \in Owners, ListCopies(o) PROVE SweepInv'
<1> DEFINE listed == {c[1] : c \in {d \in seen : d[2] = o}}
<1>1. UNCHANGED <<owner, copies, seen>> /\ owner[o] = "deleting"
  BY DEF ListCopies
<1>2. late' = {c \in late : c[2] # o \/ c \notin seen} \cup {c \in copies \ seen : c[2] = o}
  BY DEF ListCopies, LateFor
<1>3. /\ DOMAIN sweep' = DOMAIN sweep \cup {o}
      /\ sweep'[o] = listed
      /\ \A x \in DOMAIN sweep \ {o} : sweep'[x] = sweep[x]
  BY DEF ListCopies, StartSweep
<1>4. \A c \in copies : c[2] = o => c \in late' \/ c[1] \in listed
  BY <1>2
<1> HIDE DEF listed
<1>5. SweepKnows'
  BY <1>1, <1>2, <1>3, <1>4 DEF SweepInv, SweepKnows
<1> QED BY <1>1, <1>2, <1>5 DEF SweepInv, Pairs, OwnersTyped, NoneWithoutFinalizer, Owned

LEMMA SweepDeleteCopy == ASSUME SweepInv, NEW o \in Owners, DeleteCopy(o) PROVE SweepInv'
<1>1. UNCHANGED <<owner, late>> /\ o \in DOMAIN sweep
  BY DEF DeleteCopy
<1>2. PICK ns \in sweep[o] :
          \/ copies' = copies \ {<<ns, o>>} /\ sweep' = [sweep EXCEPT ![o] = @ \ {ns}]
          \/ StopSweep(o) /\ UNCHANGED copies
  BY DEF DeleteCopy
<1>3. CASE StopSweep(o) /\ UNCHANGED copies
  BY <1>1, <1>3 DEF StopSweep, SweepInv, Pairs, OwnersTyped, NoneWithoutFinalizer, SweepKnows, Owned
<1>4. CASE copies' = copies \ {<<ns, o>>} /\ sweep' = [sweep EXCEPT ![o] = @ \ {ns}]
  <2>1. copies' \subseteq copies /\ DOMAIN sweep' = DOMAIN sweep
    BY <1>4
  <2>2. \A c \in copies' : c[2] = o => c[1] # ns
    BY <1>4 DEF SweepInv, Pairs
  <2>3. sweep'[o] = sweep[o] \ {ns} /\ \A x \in DOMAIN sweep \ {o} : sweep'[x] = sweep[x]
    BY <1>1, <1>4
  <2>4. SweepKnows'
    BY <1>1, <2>1, <2>2, <2>3 DEF SweepInv, SweepKnows
  <2> QED BY <1>1, <2>1, <2>4 DEF SweepInv, Pairs, OwnersTyped, NoneWithoutFinalizer, Owned
<1> QED BY <1>2, <1>3, <1>4

\* Where there is nothing left to delete, what remains is late.
LEMMA SweepRemoveFinalizer == ASSUME SweepInv, NEW o \in Owners, RemoveFinalizer(o) PROVE SweepInv'
<1>1. UNCHANGED <<copies, late>> /\ o \in DOMAIN sweep /\ sweep[o] = {}
  BY DEF RemoveFinalizer, secrets
<1>2. owner' = [owner EXCEPT ![o] = "gone"] /\ StopSweep(o)
  BY DEF RemoveFinalizer
<1>3. \A c \in copies : c[2] = o => c \in late
  BY <1>1 DEF SweepInv, SweepKnows
<1>4. SweepKnows'
  BY <1>1, <1>2 DEF StopSweep, SweepInv, SweepKnows, OwnersTyped
<1> QED BY <1>1, <1>2, <1>3, <1>4 DEF SweepInv, Pairs, OwnersTyped, NoneWithoutFinalizer, Owned

\* A resource without the finalizer is gone at once: it has no copies but late ones.
LEMMA SweepDeleteOwner == ASSUME SweepInv, NEW o \in Owners, DeleteOwner(o) PROVE SweepInv'
<1>1. UNCHANGED <<sweep, copies, late>> /\ owner[o] \in {"new", "kept"}
  BY DEF DeleteOwner, secrets
<1>2. owner' = [owner EXCEPT ![o] = IF @ = "kept" THEN "deleting" ELSE "gone"]
  BY DEF DeleteOwner
<1> QED BY <1>1, <1>2 DEF SweepInv, Pairs, OwnersTyped, NoneWithoutFinalizer, SweepKnows, Owned

LEMMA SweepCrash == ASSUME SweepInv, Crash PROVE SweepInv'
<1>1. UNCHANGED <<owner, copies, late>> /\ sweep' = << >>
  BY DEF Crash
<1>2. DOMAIN sweep' = {}
  BY <1>1
<1> QED BY <1>1, <1>2 DEF SweepInv, Pairs, OwnersTyped, NoneWithoutFinalizer, SweepKnows, Owned

LEMMA SweepHandle == ASSUME SweepInv, NEW p \in Slots, Handle(p) PROVE SweepInv'
<1>1. CASE CreateCopy(p)
  BY <1>1, SweepCreate
<1>2. CASE ~CreateCopy(p)
  BY <1>2, SweepStands DEF Handle, UseCached, Follow, Lead, SecretMissing, StartProbes, Conclude,
                           GetCopy, SecretsStand, secrets
<1> QED BY <1>1, <1>2

LEMMA SweepNext == ASSUME SweepInv, [Next]_vars PROVE SweepInv'
<1>1. ASSUME NEW p \in Slots, Review(p) \/ HangUp(p) \/ Leave(p) PROVE SweepInv'
  BY <1>1, SweepStands DEF Review, HangUp, Leave, SecretsStand, secrets
<1>2. ASSUME NEW p \in Slots, Handle(p) PROVE SweepInv'
  BY <1>2, SweepHandle
<1>3. ASSUME NEW r \in References, Answer(r) \/ ExpireCheck(r) PROVE SweepInv'
  BY <1>3, SweepStands DEF Answer, ExpireCheck, SecretsStand, secrets
<1>4. ASSUME NEW i \in Images, ExpireAlternative(i) PROVE SweepInv'
  BY <1>4, SweepStands DEF ExpireAlternative, SecretsStand, secrets
<1>5. ASSUME NEW o \in Owners, Reconcile(o) \/ DeleteOwner(o) PROVE SweepInv'
  BY <1>5, SweepAddFinalizer, SweepListCopies, SweepDeleteCopy, SweepRemoveFinalizer, SweepDeleteOwner
     DEF Reconcile
<1>6. CASE Observe \/ UNCHANGED vars
  BY <1>6, SweepStands DEF Observe, vars, SecretsStand, secrets
<1>7. CASE Crash
  BY <1>7, SweepCrash
<1> QED BY <1>1, <1>2, <1>3, <1>4, <1>5, <1>6, <1>7 DEF Next

\* A copy outlives its owner only if the sweep could not see it: whatever deletes
\* fail, whenever the manager restarts and whichever admissions write copies in
\* between, the finalizer (secretowner_controller.go) does what it is for.
THEOREM OrphansLate == Spec => []OrphansAreLate
<1>1. SweepInv => OrphansAreLate
  BY DEF SweepInv, NoneWithoutFinalizer, Owned, OrphansAreLate, Swept
<1>2. SweepInv /\ [Next]_vars => SweepInv'
  BY SweepNext
<1> QED BY SweepInit, <1>1, <1>2, PTL DEF Spec
-----------------------------------------------------------------------------
\* What alternative a pod of p has the secret of.
Deleted(o) == o \in Owners /\ owner[o] \in {"deleting", "gone"}
Can(p, a) == \/ a.secret \in {NoSecret, NamespaceOf[p]}
             \/ <<NamespaceOf[p], a.set>> \in copies
             \/ Deleted(a.set)

\* An admission is a record, and the alternatives it has given are a sequence.
Shaped(a) ==
    /\ DOMAIN a = DOMAIN Nothing
    /\ a.at \in InProgress => a.given \in Seq(ToSet(a.given))

AdmShaped == DOMAIN adm = Slots /\ \A p \in Slots : Shaped(adm[p])
GivenCan == \A p \in Slots : \A a \in ToSet(adm[p].given) : a = Kept \/ Can(p, a)

\* What the informer's cache has and the API server no more is the copy of a
\* resource that is being deleted.
SeenOrDeleted == \A c \in seen : c = <<c[1], c[2]>> /\ (c \in copies \/ Deleted(c[2]))

PullInv == SweepInv /\ AdmShaped /\ GivenCan /\ SeenOrDeleted

\* b has what a has, the images of the pod, and what is in new.
Gains(a, b, new) == Shaped(b) /\ ToSet(b.given) \subseteq ToSet(a.given) \cup {Kept} \cup new

LEMMA NothingFields ==
    DOMAIN Nothing = {"at", "listed", "todo", "given", "list", "outcome", "pick", "gone"}
BY DEF Nothing

LEMMA GainsUnmodified == ASSUME NEW p, NEW a PROVE Gains(a, Unmodified(p), {})
<1>1. Unmodified(p).at = "runs" /\ DOMAIN Unmodified(p) = DOMAIN Nothing
  BY DEF Unmodified, Nothing
<1>2. Unmodified(p).given = [k \in DOMAIN Containers[p] |-> Kept]
  BY DEF Unmodified, Nothing
<1>3. ToSet(Unmodified(p).given) \subseteq {Kept}
  BY <1>2 DEF ToSet
<1>4. "runs" \notin InProgress
  BY DEF InProgress
<1> QED BY <1>1, <1>3, <1>4 DEF Gains, Shaped

LEMMA GainsDenied == ASSUME NEW p, NEW a PROVE Gains(a, Denied(p, a), {})
<1> DEFINE none == [Nothing EXCEPT !.at = "denied"]
<1>1. none.at = "denied" /\ DOMAIN none = DOMAIN Nothing /\ none.given = << >>
  BY DEF Nothing
<1>2. "denied" \notin InProgress /\ ToSet(<< >>) = {}
  BY DEF InProgress, ToSet
<1>3. Gains(a, none, {})
  BY <1>1, <1>2 DEF Gains, Shaped
<1> QED BY <1>3, GainsUnmodified DEF Denied

LEMMA GainsAdmitted == ASSUME NEW p, NEW a PROVE Gains(a, Admitted(p, a), {})
<1> DEFINE runs == [Nothing EXCEPT !.at = "runs", !.given = a.given]
<1>1. runs.at = "runs" /\ DOMAIN runs = DOMAIN Nothing /\ runs.given = a.given
  BY DEF Nothing
<1>2. "runs" \notin InProgress
  BY DEF InProgress
<1>3. Gains(a, runs, {})
  BY <1>1, <1>2 DEF Gains, Shaped
<1> QED BY <1>3, GainsUnmodified DEF Admitted

LEMMA GainsAdvance ==
    ASSUME NEW p, NEW a, Shaped(a), a.at \in InProgress, NEW alternative
    PROVE  Gains(a, Advance(p, a, alternative), {alternative})
<1> DEFINE b == [a EXCEPT !.given = Append(@, alternative), !.todo = Tail(@), !.list = << >>,
                          !.outcome = << >>, !.pick = Kept, !.at = "choose"]
           S == ToSet(a.given) \cup {alternative}
<1>1. DOMAIN a = {"at", "listed", "todo", "given", "list", "outcome", "pick", "gone"}
  BY NothingFields DEF Shaped
<1>2. b.given = Append(a.given, alternative) /\ DOMAIN b = DOMAIN a
  BY <1>1
<1>3. a.given \in Seq(ToSet(a.given))
  BY DEF Shaped
<1> HIDE DEF b
<1>4. b.given \in Seq(ToSet(b.given)) /\ ToSet(b.given) = S
  <2>1. a.given \in Seq(S)
    BY <1>3
  <2>2. /\ b.given \in Seq(S) /\ Len(b.given) = Len(a.given) + 1
        /\ \A k \in 1 .. Len(a.given) : b.given[k] = a.given[k]
        /\ b.given[Len(a.given) + 1] = alternative
    BY <1>2, <2>1
  <2>3. ToSet(b.given) = S
    BY <2>1, <2>2 DEF ToSet
  <2> QED BY <2>2, <2>3
<1>5. Gains(a, b, {alternative})
  BY <1>1, <1>2, <1>4, NothingFields DEF Gains, Shaped
<1>6. Gains(b, Admitted(p, b), {})
  BY GainsAdmitted
<1>7. Gains(a, Admitted(p, b), {alternative})
  BY <1>4, <1>6 DEF Gains
<1>8. Advance(p, a, alternative) = IF b.todo = << >> THEN Admitted(p, b) ELSE b
  BY DEF Advance, b
<1> QED BY <1>5, <1>7, <1>8

\* A container gets itself, or an alternative whose secret needs no copy.
LEMMA GainsGiven ==
    ASSUME NEW p, NEW a, Shaped(a), a.at \in InProgress, NEW alternative
    PROVE  \E new : /\ Gains(a, Given(p, a, alternative), new)
                    /\ \A b \in new : b = Kept \/ b.secret \in {NoSecret, NamespaceOf[p]}
<1> DEFINE ensure == [a EXCEPT !.at = "ensure", !.pick = alternative, !.list = << >>, !.outcome = << >>]
<1>1. DOMAIN a = {"at", "listed", "todo", "given", "list", "outcome", "pick", "gone"}
  BY NothingFields DEF Shaped
<1>2. DOMAIN ensure = DOMAIN a /\ ensure.given = a.given
  BY <1>1
<1>3. Gains(a, ensure, {})
  BY <1>2 DEF Gains, Shaped
<1>4. Gains(a, Advance(p, a, Kept), {Kept}) /\ Gains(a, Advance(p, a, alternative), {alternative})
  BY GainsAdvance
<1> HIDE DEF ensure
<1>5. CASE alternative = Kept \/ alternative.reference = Head(a.todo)
  <2>1. Given(p, a, alternative) = Advance(p, a, Kept)
    BY <1>5 DEF Given
  <2> QED BY <1>4, <2>1
<1>6. CASE ~(alternative = Kept \/ alternative.reference = Head(a.todo))
  <2>1. CASE alternative.secret \in {NoSecret, NamespaceOf[p]}
    <3>1. Given(p, a, alternative) = Advance(p, a, alternative)
      BY <1>6, <2>1 DEF Given
    <3> QED BY <1>4, <2>1, <3>1
  <2>2. CASE alternative.secret \notin {NoSecret, NamespaceOf[p]}
    <3>1. Given(p, a, alternative) = ensure
      BY <1>6, <2>2 DEF Given, ensure
    <3> QED BY <1>3, <3>1
  <2> QED BY <2>1, <2>2
<1> QED BY <1>5, <1>6

\* A resource that is deleted remains so.
LEMMA DeletedStays ==
    ASSUME SweepInv, [Next]_vars, NEW o, Deleted(o) PROVE Deleted(o)'
<1> USE DEF Deleted
<1>1. CASE UNCHANGED owner
  BY <1>1
<1>2. ASSUME NEW x \in Owners, AddFinalizer(x) PROVE Deleted(o)'
  BY <1>2 DEF AddFinalizer, SweepInv, OwnersTyped
<1>3. ASSUME NEW x \in Owners, RemoveFinalizer(x) PROVE Deleted(o)'
  BY <1>3 DEF RemoveFinalizer, SweepInv, OwnersTyped
<1>4. ASSUME NEW x \in Owners, DeleteOwner(x) PROVE Deleted(o)'
  BY <1>4 DEF DeleteOwner, SweepInv, OwnersTyped
<1>5. ASSUME NEW p \in Slots, Review(p) \/ Handle(p) \/ HangUp(p) \/ Leave(p) PROVE UNCHANGED owner
  BY <1>5 DEF Review, Handle, HangUp, Leave, UseCached, Follow, Lead, SecretMissing, StartProbes,
              Conclude, GetCopy, CreateCopy, resources
<1>6. ASSUME NEW r \in References, Answer(r) \/ ExpireCheck(r) PROVE UNCHANGED owner
  BY <1>6 DEF Answer, ExpireCheck, resources
<1>7. ASSUME NEW i \in Images, ExpireAlternative(i) PROVE UNCHANGED owner
  BY <1>7 DEF ExpireAlternative, resources
<1>8. ASSUME NEW x \in Owners, ListCopies(x) \/ DeleteCopy(x) PROVE UNCHANGED owner
  BY <1>8 DEF ListCopies, DeleteCopy
<1>9. CASE Observe \/ Crash \/ UNCHANGED vars
  BY <1>9 DEF Observe, Crash, vars, resources
<1> QED BY <1>1, <1>2, <1>3, <1>4, <1>5, <1>6, <1>7, <1>8, <1>9 DEF Next, Reconcile

\* Only the copies of a deleted resource are deleted.
LEMMA CopiesStay ==
    ASSUME SweepInv, [Next]_vars, NEW c \in copies, ~Deleted(c[2]) PROVE c \in copies'
<1>1. CASE UNCHANGED copies
  BY <1>1
<1>2. ASSUME NEW o \in Owners, DeleteCopy(o) PROVE c \in copies'
  BY <1>2 DEF DeleteCopy, SweepInv, SweepKnows, Pairs, Deleted
<1>3. ASSUME NEW p \in Slots, CreateCopy(p) PROVE c \in copies'
  BY <1>3 DEF CreateCopy
<1>4. ASSUME NEW p \in Slots, Review(p) \/ (Handle(p) /\ ~CreateCopy(p)) \/ HangUp(p) \/ Leave(p)
      PROVE  UNCHANGED copies
  BY <1>4 DEF Review, Handle, HangUp, Leave, UseCached, Follow, Lead, SecretMissing, StartProbes,
              Conclude, GetCopy, secrets
<1>5. ASSUME NEW r \in References, Answer(r) \/ ExpireCheck(r) PROVE UNCHANGED copies
  BY <1>5 DEF Answer, ExpireCheck, secrets
<1>6. ASSUME NEW i \in Images, ExpireAlternative(i) PROVE UNCHANGED copies
  BY <1>6 DEF ExpireAlternative, secrets
<1>7. ASSUME NEW o \in Owners, AddFinalizer(o) \/ ListCopies(o) \/ RemoveFinalizer(o) \/ DeleteOwner(o)
      PROVE  UNCHANGED copies
  BY <1>7 DEF AddFinalizer, ListCopies, RemoveFinalizer, DeleteOwner, secrets
<1>8. CASE Observe \/ Crash \/ UNCHANGED vars
  BY <1>8 DEF Observe, Crash, vars, secrets
<1> QED BY <1>1, <1>2, <1>3, <1>4, <1>5, <1>6, <1>7, <1>8 DEF Next, Reconcile

LEMMA CanStays ==
    ASSUME SweepInv, [Next]_vars, NEW p, NEW a, Can(p, a) PROVE Can(p, a)'
<1>1. CASE a.secret \in {NoSecret, NamespaceOf[p]}
  BY <1>1 DEF Can
<1>2. CASE Deleted(a.set)
  BY <1>2, DeletedStays DEF Can
<1>3. CASE <<NamespaceOf[p], a.set>> \in copies /\ ~Deleted(a.set)
  <2>1. <<NamespaceOf[p], a.set>>[2] = a.set
    OBVIOUS
  <2>2. <<NamespaceOf[p], a.set>> \in copies'
    BY <1>3, <2>1, CopiesStay
  <2> QED BY <2>2 DEF Can
<1> QED BY <1>1, <1>2, <1>3 DEF Can

LEMMA SeenStays == ASSUME PullInv, [Next]_vars PROVE SeenOrDeleted'
<1>1. \A c \in copies : c \in copies' \/ Deleted(c[2])
  BY CopiesStay DEF PullInv
<1>2. \A o : Deleted(o) => Deleted(o)'
  BY DeletedStays DEF PullInv
<1>3. CASE UNCHANGED seen
  BY <1>1, <1>2, <1>3 DEF PullInv, SeenOrDeleted
<1>4. CASE seen' = copies /\ UNCHANGED copies
  BY <1>4 DEF PullInv, SeenOrDeleted, SweepInv, Pairs
<1>5. ASSUME NEW p \in Slots, Review(p) \/ Handle(p) \/ HangUp(p) \/ Leave(p) PROVE UNCHANGED seen
  BY <1>5 DEF Review, Handle, HangUp, Leave, UseCached, Follow, Lead, SecretMissing, StartProbes,
              Conclude, GetCopy, CreateCopy, secrets
<1>6. ASSUME NEW r \in References, Answer(r) \/ ExpireCheck(r) PROVE UNCHANGED seen
  BY <1>6 DEF Answer, ExpireCheck, secrets
<1>7. ASSUME NEW i \in Images, ExpireAlternative(i) PROVE UNCHANGED seen
  BY <1>7 DEF ExpireAlternative, secrets
<1>8. ASSUME NEW o \in Owners, Reconcile(o) \/ DeleteOwner(o) PROVE UNCHANGED seen
  BY <1>8 DEF Reconcile, AddFinalizer, ListCopies, DeleteCopy, RemoveFinalizer, DeleteOwner, secrets
<1>9. CASE Observe \/ Crash \/ UNCHANGED vars
  BY <1>3, <1>4, <1>9 DEF Observe, Crash, vars, secrets
<1> QED BY <1>3, <1>5, <1>6, <1>7, <1>8, <1>9 DEF Next

\* What an admission may become: it is given no more than its pod can use.
Good(q, b) ==
    /\ Shaped(b)
    /\ \A x \in ToSet(b.given) : x \in ToSet(adm[q].given) \/ x = Kept \/ Can(q, x)'
GoodStep == DOMAIN adm' = Slots /\ \A q \in Slots : Good(q, adm'[q])

LEMMA GoodGains ==
    ASSUME NEW q, NEW b, NEW new, Gains(adm[q], b, new), \A x \in new : x = Kept \/ Can(q, x)'
    PROVE  Good(q, b)
BY DEF Gains, Good

\* Other fields change.
LEMMA GoodSame ==
    ASSUME PullInv, NEW q \in Slots, NEW b, DOMAIN b = DOMAIN adm[q], b.given = adm[q].given,
           b.at \in InProgress => adm[q].at \in InProgress
    PROVE  Good(q, b)
BY DEF PullInv, AdmShaped, Shaped, Good

LEMMA GoodOne ==
    ASSUME PullInv, NEW p \in Slots, NEW b, Good(p, b), adm' = [adm EXCEPT ![p] = b]
    PROVE  GoodStep
<1>1. \A q \in Slots : Good(q, adm[q])
  BY GoodSame
<1>2. DOMAIN adm' = Slots /\ \A q \in Slots : adm'[q] = IF q = p THEN b ELSE adm[q]
  BY DEF PullInv, AdmShaped
<1> QED BY <1>1, <1>2 DEF GoodStep

LEMMA GoodGiven ==
    ASSUME PullInv, NEW q \in Slots, adm[q].at \in InProgress, NEW alternative
    PROVE  Good(q, Given(q, adm[q], alternative))
<1>1. Shaped(adm[q])
  BY DEF PullInv, AdmShaped
<1>2. PICK new : /\ Gains(adm[q], Given(q, adm[q], alternative), new)
                 /\ \A b \in new : b = Kept \/ b.secret \in {NoSecret, NamespaceOf[q]}
  BY <1>1, GainsGiven
<1>3. \A b \in new : b = Kept \/ Can(q, b)'
  BY <1>2 DEF Can
<1> QED BY <1>2, <1>3, GoodGains

LEMMA GoodDenied == ASSUME PullInv, NEW q \in Slots PROVE Good(q, Denied(q, adm[q]))
BY GainsDenied, GoodGains

LEMMA GoodNothing == \A q : Good(q, Nothing)
<1>1. Nothing.given = << >> /\ "none" = Nothing.at
  BY DEF Nothing
<1>2. ToSet(<< >>) = {} /\ "none" \notin InProgress
  BY DEF ToSet, InProgress
<1> QED BY <1>1, <1>2 DEF Good, Shaped

LEMMA GoodReview == ASSUME PullInv, NEW p \in Slots, Review(p) \/ Leave(p) PROVE GoodStep
<1> DEFINE b == [Nothing EXCEPT
                   !.at = "choose", !.todo = Containers[p],
                   !.listed = {o \in Owners : owner[o] # "gone" /\ InScope(o, NamespaceOf[p])}]
<1>1. b.given = << >> /\ DOMAIN b = DOMAIN Nothing
  BY DEF Nothing
<1>2. ToSet(<< >>) = {} /\ << >> \in Seq({})
  BY DEF ToSet
<1>3. Good(p, b)
  BY <1>1, <1>2 DEF Good, Shaped
<1>4. CASE Review(p)
  <2>1. adm' = [adm EXCEPT ![p] = b]
    BY <1>4 DEF Review
  <2> HIDE DEF b
  <2> QED BY <1>3, <2>1, GoodOne
<1>5. CASE Leave(p)
  <2>1. adm' = [adm EXCEPT ![p] = Nothing]
    BY <1>5 DEF Leave
  <2> QED BY <2>1, GoodNothing, GoodOne
<1> QED BY <1>4, <1>5

LEMMA GoodUseCached == ASSUME PullInv, NEW p \in Slots, UseCached(p) PROVE GoodStep
<1>1. adm[p].at \in InProgress
  BY DEF UseCached, InProgress
<1>2. adm' = [adm EXCEPT ![p] = Given(p, adm[p], altCache[Head(adm[p].todo)])]
  BY DEF UseCached
<1> QED BY <1>1, <1>2, GoodGiven, GoodOne

\* A follower, whatever the namespace of its leader, has its own secret ensured.
LEMMA GoodConclude == ASSUME PullInv, NEW p \in Slots, Conclude(p) PROVE GoodStep
<1>1. PICK result :
          adm' = [q \in Slots |-> IF q \in Served(p) THEN Given(q, adm[q], result) ELSE adm[q]]
  BY DEF Conclude
<1>2. \A q \in Served(p) : adm[q].at \in InProgress
  BY DEF Conclude, Served, Follows, InProgress
<1>3. ASSUME NEW q \in Slots PROVE Good(q, adm'[q])
  <2>1. CASE q \in Served(p)
    BY <1>1, <1>2, <2>1, GoodGiven
  <2>2. CASE q \notin Served(p)
    <3>1. adm'[q] = adm[q]
      BY <1>1, <2>2
    <3> QED BY <3>1, GoodSame
  <2> QED BY <2>1, <2>2
<1> QED BY <1>1, <1>3 DEF GoodStep

LEMMA GoodSecretMissing == ASSUME PullInv, NEW p \in Slots, SecretMissing(p) PROVE GoodStep
<1>1. adm' = [q \in Slots |-> IF q \in Served(p) THEN Denied(q, adm[q]) ELSE adm[q]]
  BY DEF SecretMissing
<1>2. ASSUME NEW q \in Slots PROVE Good(q, adm'[q])
  <2>1. CASE q \in Served(p)
    BY <1>1, <2>1, GoodDenied
  <2>2. CASE q \notin Served(p)
    <3>1. adm'[q] = adm[q]
      BY <1>1, <2>2
    <3> QED BY <3>1, GoodSame
  <2> QED BY <2>1, <2>2
<1> QED BY <1>1, <1>2 DEF GoodStep

\* A step of one admission that gives nothing.
LEMMA GoodOneSame ==
    ASSUME PullInv, NEW p \in Slots, NEW b, adm' = [adm EXCEPT ![p] = b],
           DOMAIN b = DOMAIN adm[p], b.given = adm[p].given, adm[p].at \in InProgress
    PROVE  GoodStep
BY GoodSame, GoodOne

LEMMA AdmFields ==
    ASSUME PullInv, NEW p \in Slots
    PROVE  DOMAIN adm[p] = {"at", "listed", "todo", "given", "list", "outcome", "pick", "gone"}
BY NothingFields DEF PullInv, AdmShaped, Shaped

LEMMA GoodFollow == ASSUME PullInv, NEW p \in Slots, Follow(p) PROVE GoodStep
<1> DEFINE b == [adm[p] EXCEPT !.at = "follow"]
<1>1. DOMAIN b = DOMAIN adm[p] /\ b.given = adm[p].given
  BY AdmFields
<1>2. adm' = [adm EXCEPT ![p] = b] /\ adm[p].at \in InProgress
  BY DEF Follow, InProgress
<1> HIDE DEF b
<1> QED BY <1>1, <1>2, GoodOneSame

LEMMA GoodLead == ASSUME PullInv, NEW p \in Slots, Lead(p) PROVE GoodStep
<1>1. PICK l : adm' = [adm EXCEPT ![p].at = "load", ![p].list = l.list]
  BY DEF Lead
<1> DEFINE b == [adm[p] EXCEPT !.at = "load", !.list = l.list]
<1>2. DOMAIN b = DOMAIN adm[p] /\ b.given = adm[p].given
  BY AdmFields
<1>3. adm[p].at \in InProgress
  BY DEF Lead, InProgress
<1>4. adm' = [adm EXCEPT ![p] = b]
  BY <1>1 DEF PullInv, AdmShaped
<1> HIDE DEF b
<1> QED BY <1>2, <1>3, <1>4, GoodOneSame

LEMMA GoodStartProbes == ASSUME PullInv, NEW p \in Slots, StartProbes(p) PROVE GoodStep
<1> DEFINE b(outcome) == [adm[p] EXCEPT !.at = "probe", !.outcome = outcome]
           c == [adm[p] EXCEPT !.at = "probe"]
<1>1. adm[p].at \in InProgress
  BY DEF StartProbes, InProgress
<1>2. CASE adm' = [adm EXCEPT ![p].at = "probe"]
  <2>1. DOMAIN c = DOMAIN adm[p] /\ c.given = adm[p].given
    BY AdmFields
  <2>2. adm' = [adm EXCEPT ![p] = c]
    BY <1>2
  <2> HIDE DEF c
  <2> QED BY <1>1, <2>1, <2>2, GoodOneSame
<1>3. ASSUME NEW outcome, adm' = [adm EXCEPT ![p].at = "probe", ![p].outcome = outcome] PROVE GoodStep
  <2>1. DOMAIN b(outcome) = DOMAIN adm[p] /\ b(outcome).given = adm[p].given
    BY AdmFields
  <2>2. adm' = [adm EXCEPT ![p] = b(outcome)]
    BY <1>3 DEF PullInv, AdmShaped
  <2> HIDE DEF b
  <2> QED BY <1>1, <2>1, <2>2, GoodOneSame
<1> QED BY <1>2, <1>3 DEF StartProbes

LEMMA GoodHangUp == ASSUME PullInv, NEW p \in Slots, HangUp(p) PROVE GoodStep
<1> DEFINE b == [adm[p] EXCEPT !.gone = TRUE]
<1>1. DOMAIN b = DOMAIN adm[p] /\ b.given = adm[p].given
  BY AdmFields
<1>2. adm' = [adm EXCEPT ![p] = b] /\ adm[p].at \in InProgress
  BY DEF HangUp
<1> HIDE DEF b
<1> QED BY <1>1, <1>2, GoodOneSame

\* A copy in the informer's cache is there, unless its resource is being deleted.
LEMMA GoodGetCopy == ASSUME PullInv, NEW p \in Slots, GetCopy(p) PROVE GoodStep
<1> DEFINE copy == <<NamespaceOf[p], adm[p].pick.set>>
           b == [adm[p] EXCEPT !.at = "create"]
<1>1. adm[p].at \in InProgress
  BY DEF GetCopy, InProgress
<1>2. CASE copy \in seen
  <2>1. adm' = [adm EXCEPT ![p] = Advance(p, adm[p], adm[p].pick)]
    BY <1>2 DEF GetCopy
  <2>2. Gains(adm[p], Advance(p, adm[p], adm[p].pick), {adm[p].pick})
    BY <1>1, GainsAdvance DEF PullInv, AdmShaped
  <2>3. copy \in copies \/ Deleted(adm[p].pick.set)
    BY <1>2 DEF PullInv, SeenOrDeleted
  <2>4. UNCHANGED <<copies, owner>>
    BY DEF GetCopy, secrets, resources
  <2>5. Can(p, adm[p].pick)
    BY <2>3 DEF Can
  <2>6. ASSUME NEW a, Can(p, a) PROVE Can(p, a)'
    BY <2>4, <2>6 DEF Can, Deleted
  <2>7. PICK new : new = {adm[p].pick}
    OBVIOUS
  <2>8. Gains(adm[p], Advance(p, adm[p], adm[p].pick), new) /\ \A x \in new : Can(p, x)'
    BY <2>2, <2>5, <2>6, <2>7
  <2>9. Good(p, Advance(p, adm[p], adm[p].pick))
    BY <2>8, GoodGains
  <2> QED BY <2>1, <2>9, GoodOne
<1>3. CASE copy \notin seen
  <2>1. adm' = [adm EXCEPT ![p] = b]
    BY <1>3 DEF GetCopy
  <2>2. DOMAIN b = DOMAIN adm[p] /\ b.given = adm[p].given
    BY AdmFields
  <2> HIDE DEF b
  <2> QED BY <1>1, <2>1, <2>2, GoodOneSame
<1> QED BY <1>2, <1>3

LEMMA GoodCreateCopy == ASSUME PullInv, NEW p \in Slots, CreateCopy(p) PROVE GoodStep
<1> DEFINE copy == <<NamespaceOf[p], adm[p].pick.set>>
<1>1. adm[p].at \in InProgress
  BY DEF CreateCopy, InProgress
<1>2. CASE copies' = copies \cup {copy} /\ adm' = [adm EXCEPT ![p] = Advance(p, adm[p], adm[p].pick)]
  <2>1. PICK a : a = adm[p].pick
    OBVIOUS
  <2>2. Can(p, a)'
    <3>1. <<NamespaceOf[p], a.set>> \in copies'
      BY <1>2, <2>1
    <3> QED BY <3>1 DEF Can
  <2>3. PICK new : new = {a}
    OBVIOUS
  <2>4. Gains(adm[p], Advance(p, adm[p], a), new)
    BY <1>1, <2>3, GainsAdvance DEF PullInv, AdmShaped
  <2>5. Good(p, Advance(p, adm[p], a))
    BY <2>2, <2>3, <2>4, GoodGains
  <2> QED BY <1>2, <2>1, <2>5, GoodOne
<1>3. CASE adm' = [adm EXCEPT ![p] = Denied(p, adm[p])]
  BY <1>3, GoodDenied, GoodOne
<1> QED BY <1>2, <1>3 DEF CreateCopy

LEMMA GoodAnswer == ASSUME PullInv, NEW r \in References, Answer(r) PROVE GoodStep
<1> DEFINE After(p, result) ==
             [adm[p] EXCEPT !.outcome = [k \in DOMAIN @ |->
                 IF @[k] = "unknown" /\ adm[p].list[k + 1].reference = r THEN result ELSE @[k]]]
<1>1. PICK result : adm' = [p \in Slots |-> After(p, result)]
  BY DEF Answer
<1>2. \A p \in Slots : /\ DOMAIN After(p, result) = DOMAIN adm[p]
                       /\ After(p, result).given = adm[p].given
                       /\ After(p, result).at = adm[p].at
  BY AdmFields
<1> HIDE DEF After
<1>3. \A p \in Slots : Good(p, After(p, result))
  BY <1>2, GoodSame
<1> QED BY <1>1, <1>3 DEF GoodStep

LEMMA GoodCrash == ASSUME PullInv, Crash PROVE GoodStep
<1>1. adm' = [p \in Slots |-> IF adm[p].at \in InProgress THEN Unmodified(p) ELSE adm[p]]
  BY DEF Crash
<1>2. \A p \in Slots : Good(p, Unmodified(p)) /\ Good(p, adm[p])
  BY GainsUnmodified, GoodGains, GoodSame
<1> QED BY <1>1, <1>2 DEF GoodStep

LEMMA GoodStand == ASSUME PullInv, UNCHANGED adm PROVE GoodStep
<1>1. \A p \in Slots : Good(p, adm[p])
  BY GoodSame
<1> QED BY <1>1 DEF GoodStep, PullInv, AdmShaped

LEMMA GoodNext == ASSUME PullInv, [Next]_vars PROVE GoodStep
<1>1. ASSUME NEW p \in Slots, Review(p) \/ HangUp(p) \/ Leave(p) PROVE GoodStep
  BY <1>1, GoodReview, GoodHangUp
<1>2. ASSUME NEW p \in Slots, Handle(p) PROVE GoodStep
  BY <1>2, GoodUseCached, GoodFollow, GoodLead, GoodSecretMissing, GoodStartProbes, GoodConclude,
     GoodGetCopy, GoodCreateCopy DEF Handle
<1>3. ASSUME NEW r \in References, Answer(r) \/ ExpireCheck(r) PROVE GoodStep
  BY <1>3, GoodAnswer, GoodStand DEF ExpireCheck
<1>4. ASSUME NEW i \in Images, ExpireAlternative(i) PROVE GoodStep
  BY <1>4, GoodStand DEF ExpireAlternative
<1>5. ASSUME NEW o \in Owners, Reconcile(o) \/ DeleteOwner(o) PROVE GoodStep
  BY <1>5, GoodStand DEF Reconcile, AddFinalizer, ListCopies, DeleteCopy, RemoveFinalizer, DeleteOwner
<1>6. CASE Observe \/ UNCHANGED vars
  BY <1>6, GoodStand DEF Observe, vars
<1>7. CASE Crash
  BY <1>7, GoodCrash
<1> QED BY <1>1, <1>2, <1>3, <1>4, <1>5, <1>6, <1>7 DEF Next

LEMMA PullInit == Init => PullInv
<1> SUFFICES ASSUME Init PROVE PullInv
  OBVIOUS
<1>1. adm = [p \in Slots |-> Nothing] /\ seen = {}
  BY DEF Init
<1>2. Nothing.given = << >> /\ Nothing.at \notin InProgress /\ ToSet(<< >>) = {}
  BY DEF Nothing, InProgress, ToSet
<1>3. AdmShaped /\ GivenCan /\ SeenOrDeleted
  BY <1>1, <1>2 DEF AdmShaped, Shaped, GivenCan, SeenOrDeleted
<1> QED BY <1>3, SweepInit DEF PullInv

LEMMA PullNext == ASSUME PullInv, [Next]_vars PROVE PullInv'
<1>1. SweepInv' /\ SeenOrDeleted'
  BY SweepNext, SeenStays DEF PullInv
<1>2. GoodStep
  BY GoodNext
<1>3. AdmShaped'
  BY <1>2 DEF GoodStep, Good, AdmShaped, Shaped
<1>4. \A p, a : Can(p, a) => Can(p, a)'
  BY CanStays DEF PullInv
<1>5. GivenCan'
  BY <1>2, <1>4 DEF GoodStep, Good, GivenCan, PullInv
<1> QED BY <1>1, <1>3, <1>5 DEF PullInv

\* A pod that was given an alternative with a credentialSecret has the secret or a
\* copy in its namespace (ensureSecret, pod_webhook.go), as long as the resource is
\* not deleted: whoever found the alternative, whatever fails, and however far
\* behind the informer's cache is.
THEOREM RewrittenCanPull == Spec => []RewrittenPodCanPull
<1>1. PullInv => RewrittenPodCanPull
  BY DEF PullInv, GivenCan, Can, Deleted, RewrittenPodCanPull
<1>2. PullInv /\ [Next]_vars => PullInv'
  BY PullNext
<1> QED BY PullInit, <1>1, <1>2, PTL DEF Spec
-----------------------------------------------------------------------------
(* The types of admissions. *)

Outcomes == {"unknown", "value", "error"}
ProbedList(outcome) == \E n \in Nat : outcome \in [0 .. n - 1 -> Outcomes]

\* What a container may be given or an image's alternative in the cache be.
Offerable(x) == x = Kept \/ AreOffers({x})

\* Of the containers of p's pod, some are done and at least one is left.
HalfDone(p, a) ==
    /\ a.given \in Seq(ToSet(a.given))
    /\ a.todo \in Seq(Images) \ {<< >>}
    /\ Len(a.given) + Len(a.todo) = Len(Containers[p])

\* An admission of p. A copy is made only for the alternative of a resource.
WellFormed(p, a) ==
    /\ DOMAIN a = DOMAIN Nothing
    /\ a.at \in InProgress \cup {"none", "runs", "denied"}
    /\ a.listed \subseteq Owners
    /\ a.at \in InProgress => HalfDone(p, a)
    /\ a.at = "runs" => Len(a.given) = Len(Containers[p])
    /\ a.at \in {"ensure", "create"} => a.pick.set \in Owners
    /\ \A x \in ToSet(a.given) \cup {a.pick} : Offerable(x)
    /\ a.list \in Seq(ToSet(a.list)) /\ AreOffers(ToSet(a.list))
    /\ ProbedList(a.outcome)
    /\ a.gone \in BOOLEAN

AdmTyped == DOMAIN adm = Slots /\ \A p \in Slots : WellFormed(p, adm[p])

LEMMA NothingWellFormed == ASSUME NEW p PROVE WellFormed(p, Nothing)
<1>1. /\ Nothing.at = "none" /\ Nothing.listed = {} /\ Nothing.given = << >> /\ Nothing.list = << >>
      /\ Nothing.outcome = << >> /\ Nothing.pick = Kept /\ Nothing.gone = FALSE
  BY DEF Nothing
<1>2. "none" \notin InProgress /\ ToSet(<< >>) = {} /\ \A S : << >> \in Seq(S)
  BY EmptySeq DEF InProgress, ToSet
<1>3. ProbedList(<< >>)
  <2>1. << >> \in [0 .. 0 - 1 -> Outcomes]
    BY SMT
  <2> QED
    BY <2>1 DEF ProbedList
<1> QED
  BY <1>1, <1>2, <1>3 DEF WellFormed, Offerable, AreOffers

\* The end of an admission.
LEMMA EndedWellFormed ==
    ASSUME NEW p, NEW given, Len(given) = Len(Containers[p]), \A x \in ToSet(given) : Offerable(x)
    PROVE  WellFormed(p, [Nothing EXCEPT !.at = "runs", !.given = given])
<1> DEFINE a == [Nothing EXCEPT !.at = "runs", !.given = given]
<1>1. /\ a.at = "runs" /\ a.listed = {} /\ a.given = given /\ a.list = << >>
      /\ a.outcome = << >> /\ a.pick = Kept /\ a.gone = FALSE /\ DOMAIN a = DOMAIN Nothing
  BY DEF Nothing
<1>2. "runs" \notin InProgress /\ ToSet(<< >>) = {} /\ \A S : << >> \in Seq(S)
  BY EmptySeq DEF InProgress, ToSet
<1>3. ProbedList(<< >>)
  BY NothingWellFormed DEF WellFormed, Nothing
<1> HIDE DEF a
<1>4. WellFormed(p, a)
  BY <1>1, <1>2, <1>3 DEF WellFormed, Offerable, AreOffers
<1> QED
  BY <1>4 DEF a

LEMMA UnmodifiedWellFormed == ASSUME NEW p \in Slots PROVE WellFormed(p, Unmodified(p))
<1> DEFINE given == [k \in DOMAIN Containers[p] |-> Kept]
<1>1. Len(given) = Len(Containers[p])
  BY AdmissionAssumption
<1>2. \A x \in ToSet(given) : Offerable(x)
  BY DEF ToSet, Offerable
<1> HIDE DEF given
<1>3. WellFormed(p, [Nothing EXCEPT !.at = "runs", !.given = given])
  BY <1>1, <1>2, EndedWellFormed
<1> QED
  BY <1>3 DEF Unmodified, given

LEMMA DeniedWellFormed == ASSUME NEW p \in Slots, NEW a PROVE WellFormed(p, Denied(p, a))
<1> DEFINE d == [Nothing EXCEPT !.at = "denied"]
<1>1. /\ d.at = "denied" /\ d.listed = {} /\ d.given = << >> /\ d.list = << >>
      /\ d.outcome = << >> /\ d.pick = Kept /\ d.gone = FALSE /\ DOMAIN d = DOMAIN Nothing
  BY DEF Nothing
<1>2. "denied" \notin InProgress /\ ToSet(<< >>) = {} /\ \A S : << >> \in Seq(S)
  BY EmptySeq DEF InProgress, ToSet
<1>3. ProbedList(<< >>)
  BY NothingWellFormed DEF WellFormed, Nothing
<1> HIDE DEF d
<1>4. WellFormed(p, d)
  BY <1>1, <1>2, <1>3 DEF WellFormed, Offerable, AreOffers
<1> QED
  BY <1>4, UnmodifiedWellFormed DEF Denied, d

\* On to the next container, of which there is one, or to the end.
LEMMA AdvanceWellFormed ==
    ASSUME NEW p \in Slots, NEW a, WellFormed(p, a), a.at \in InProgress,
           NEW alternative, Offerable(alternative)
    PROVE  WellFormed(p, Advance(p, a, alternative))
<1> DEFINE b == [a EXCEPT !.given = Append(@, alternative), !.todo = Tail(@), !.list = << >>,
                          !.outcome = << >>, !.pick = Kept, !.at = "choose"]
           S == ToSet(a.given) \cup {alternative}
<1>1. DOMAIN a = {"at", "listed", "todo", "given", "list", "outcome", "pick", "gone"}
  BY NothingFields DEF WellFormed
<1>2. /\ DOMAIN b = DOMAIN a /\ b.given = Append(a.given, alternative) /\ b.todo = Tail(a.todo)
      /\ b.at = "choose" /\ b.listed = a.listed /\ b.list = << >> /\ b.outcome = << >>
      /\ b.pick = Kept /\ b.gone = a.gone
  BY <1>1
<1> HIDE DEF b
<1>3. /\ a.given \in Seq(ToSet(a.given)) /\ a.todo \in Seq(Images) \ {<< >>}
      /\ Len(a.given) + Len(a.todo) = Len(Containers[p])
  BY DEF WellFormed, HalfDone
<1>4. /\ b.given \in Seq(S) /\ Len(b.given) = Len(a.given) + 1
      /\ \A k \in 1 .. Len(a.given) : b.given[k] = a.given[k]
      /\ b.given[Len(a.given) + 1] = alternative
  <2>1. a.given \in Seq(S)
    BY <1>3
  <2> QED
    BY <1>2, <2>1
<1>5. ToSet(b.given) = S
  <2>1. DOMAIN a.given = 1 .. Len(a.given) /\ Len(a.given) \in Nat
    BY <1>3
  <2>2. DOMAIN b.given = 1 .. Len(a.given) + 1
    BY <1>4
  <2> QED
    BY <1>4, <2>1, <2>2 DEF ToSet
<1>6. b.todo \in Seq(Images) /\ Len(b.todo) = Len(a.todo) - 1
  BY <1>2, <1>3, HeadTailProperties
<1>7. Len(b.given) + Len(b.todo) = Len(Containers[p])
  <2>1. Len(a.given) \in Nat /\ Len(a.todo) \in Nat
    BY <1>3, LenProperties
  <2>2. Len(a.given) + Len(a.todo) = Len(Containers[p])
    BY <1>3
  <2>3. Len(b.given) = Len(a.given) + 1 /\ Len(b.todo) = Len(a.todo) - 1
    BY <1>4, <1>6
  <2>4. \A m, n \in Nat : (m + 1) + (n - 1) = m + n
    OBVIOUS
  <2>5. Len(b.given) + Len(b.todo) = Len(a.given) + Len(a.todo)
    BY <2>1, <2>3, <2>4, Zenon
  <2> QED
    BY <2>2, <2>5, Zenon
<1>8. \A x \in ToSet(b.given) \cup {b.pick} : Offerable(x)
  BY <1>2, <1>5 DEF WellFormed, Offerable
<1>9. CASE b.todo = << >>
  <2>1. Len(b.given) = Len(Containers[p])
    BY <1>4, <1>7, <1>9
  <2>2. WellFormed(p, [Nothing EXCEPT !.at = "runs", !.given = b.given])
    BY <1>8, <2>1, EndedWellFormed
  <2>3. WellFormed(p, Admitted(p, b))
    BY <2>2, UnmodifiedWellFormed DEF Admitted
  <2> QED
    BY <1>9, <2>3 DEF Advance, b
<1>10. CASE b.todo # << >>
  <2>1. HalfDone(p, b)
    BY <1>4, <1>5, <1>6, <1>7, <1>10 DEF HalfDone
  <2>2. /\ ProbedList(<< >>) /\ AreOffers(ToSet(<< >>))
        /\ << >> \in Seq(ToSet(<< >>))
    BY NothingWellFormed DEF WellFormed, Nothing
  <2>3. b.at \in InProgress /\ b.at \notin {"runs", "ensure", "create"}
    BY <1>2 DEF InProgress
  <2>4. b.listed \subseteq Owners /\ b.gone \in BOOLEAN /\ DOMAIN b = DOMAIN Nothing
    BY <1>2 DEF WellFormed
  <2>5. WellFormed(p, b)
    BY <1>2, <1>8, <2>1, <2>2, <2>3, <2>4 DEF WellFormed
  <2> QED
    BY <1>10, <2>5 DEF Advance, b
<1> QED
  BY <1>9, <1>10

\* The secret that is to be copied is that of a resource.
LEMMA GivenWellFormed ==
    ASSUME NEW p \in Slots, NEW a, WellFormed(p, a), a.at \in InProgress,
           NEW alternative, Offerable(alternative)
    PROVE  WellFormed(p, Given(p, a, alternative))
<1> DEFINE b == [a EXCEPT !.at = "ensure", !.pick = alternative, !.list = << >>, !.outcome = << >>]
<1>1. CASE alternative = Kept \/ alternative.reference = Head(a.todo)
  <2>1. Given(p, a, alternative) = Advance(p, a, Kept)
    BY <1>1 DEF Given
  <2> QED
    BY <2>1, AdvanceWellFormed DEF Offerable
<1>2. CASE /\ ~(alternative = Kept \/ alternative.reference = Head(a.todo))
           /\ alternative.secret \in {NoSecret, NamespaceOf[p]}
  <2>1. Given(p, a, alternative) = Advance(p, a, alternative)
    BY <1>2 DEF Given
  <2> QED
    BY <2>1, AdvanceWellFormed
<1>3. CASE /\ ~(alternative = Kept \/ alternative.reference = Head(a.todo))
           /\ alternative.secret \notin {NoSecret, NamespaceOf[p]}
  <2>1. Given(p, a, alternative) = b
    BY <1>3 DEF Given
  <2>2. DOMAIN a = {"at", "listed", "todo", "given", "list", "outcome", "pick", "gone"}
    BY NothingFields DEF WellFormed
  <2>3. /\ DOMAIN b = DOMAIN a /\ b.given = a.given /\ b.todo = a.todo
        /\ b.at = "ensure" /\ b.listed = a.listed /\ b.list = << >> /\ b.outcome = << >>
        /\ b.pick = alternative /\ b.gone = a.gone
    BY <2>2
  <2> HIDE DEF b
  <2>4. alternative.set \in Owners
    BY <1>3 DEF Offerable, AreOffers
  <2>5. HalfDone(p, b)
    BY <2>3 DEF WellFormed, HalfDone
  <2>6. /\ ProbedList(<< >>) /\ AreOffers(ToSet(<< >>))
        /\ << >> \in Seq(ToSet(<< >>))
    BY NothingWellFormed DEF WellFormed, Nothing
  <2>7. b.at \in InProgress /\ b.at # "runs"
    BY <2>3 DEF InProgress
  <2>8. \A x \in ToSet(b.given) \cup {b.pick} : Offerable(x)
    BY <2>3 DEF WellFormed
  <2>9. b.listed \subseteq Owners /\ b.gone \in BOOLEAN /\ DOMAIN b = DOMAIN Nothing
    BY <2>3 DEF WellFormed
  <2> QED
    BY <2>1, <2>3, <2>4, <2>5, <2>6, <2>7, <2>8, <2>9 DEF WellFormed
<1> QED
  BY <1>1, <1>2, <1>3

\* Other fields change, those of the choice within their types.
LEMMA ChangedWellFormed ==
    ASSUME NEW p, NEW a, WellFormed(p, a), NEW b, DOMAIN b = DOMAIN a,
           b.given = a.given, b.todo = a.todo, b.listed = a.listed, b.pick = a.pick,
           b.at = a.at \/ (a.at \in InProgress /\ b.at \in InProgress /\ b.at # "ensure"),
           b.at = "create" => a.at \in {"ensure", "create"},
           b.list \in Seq(ToSet(b.list)), AreOffers(ToSet(b.list)),
           ProbedList(b.outcome), b.gone \in BOOLEAN
    PROVE  WellFormed(p, b)
<1>1. "runs" \notin InProgress
  BY DEF InProgress
<1>2. HalfDone(p, a) => HalfDone(p, b)
  BY DEF HalfDone
<1>3. /\ b.at \in InProgress \cup {"none", "runs", "denied"}
      /\ b.at \in InProgress => HalfDone(p, b)
      /\ b.at = "runs" => Len(b.given) = Len(Containers[p])
  BY <1>1, <1>2 DEF WellFormed
<1>4. b.at \in {"ensure", "create"} => b.pick.set \in Owners
  BY DEF WellFormed
<1>5. /\ DOMAIN b = DOMAIN Nothing /\ b.listed \subseteq Owners
      /\ \A x \in ToSet(b.given) \cup {b.pick} : Offerable(x)
  BY DEF WellFormed
<1> QED
  BY <1>3, <1>4, <1>5 DEF WellFormed

LEMMA WellFormedFields ==
    ASSUME AdmTyped, NEW p \in Slots
    PROVE  /\ DOMAIN adm[p] = {"at", "listed", "todo", "given", "list", "outcome", "pick", "gone"}
           /\ WellFormed(p, adm[p])
           /\ adm[p].list \in Seq(ToSet(adm[p].list)) /\ AreOffers(ToSet(adm[p].list))
           /\ ProbedList(adm[p].outcome) /\ adm[p].gone \in BOOLEAN
BY NothingFields DEF AdmTyped, WellFormed

\* One admission goes on.
LEMMA OneTyped ==
    ASSUME AdmTyped, NEW p \in Slots, NEW b, WellFormed(p, b), adm' = [adm EXCEPT ![p] = b]
    PROVE  AdmTyped'
<1>1. DOMAIN adm' = Slots /\ \A q \in Slots : adm'[q] = IF q = p THEN b ELSE adm[q]
  BY DEF AdmTyped
<1>2. \A q \in Slots : WellFormed(q, adm'[q])
  BY <1>1 DEF AdmTyped
<1> QED
  BY <1>1, <1>2 DEF AdmTyped, WellFormed

\* All go on.
LEMMA AllTyped ==
    ASSUME NEW b, adm' = [q \in Slots |-> b[q]], \A q \in Slots : WellFormed(q, b[q])
    PROVE  AdmTyped'
<1>1. DOMAIN adm' = Slots /\ \A q \in Slots : adm'[q] = b[q]
  OBVIOUS
<1>2. \A q \in Slots : WellFormed(q, adm'[q])
  BY <1>1
<1> QED
  BY <1>1, <1>2 DEF AdmTyped, WellFormed

LEMMA ContainersTyped ==
    ASSUME NEW p \in Slots PROVE Containers[p] \in Seq(Images) \ {<< >>} /\ Len(Containers[p]) \in Nat
<1>1. Containers[p] \in Seq(ToSet(Containers[p])) \ {<< >>}
  BY AdmissionAssumption
<1>2. ToSet(Containers[p]) \subseteq Images
  BY DEF Images
<1> QED
  BY <1>1, <1>2, SeqMonotonic, LenProperties

LEMMA ReviewTyped == ASSUME AdmTyped, NEW p \in Slots, Review(p) \/ Leave(p) PROVE AdmTyped'
<1> DEFINE listed == {o \in Owners : owner[o] # "gone" /\ InScope(o, NamespaceOf[p])}
           b == [Nothing EXCEPT !.at = "choose", !.todo = Containers[p], !.listed = listed]
<1>1. CASE Review(p)
  <2>1. adm' = [adm EXCEPT ![p] = b]
    BY <1>1 DEF Review
  <2>2. /\ b.at = "choose" /\ b.todo = Containers[p] /\ b.listed = listed /\ b.given = << >>
        /\ b.list = << >> /\ b.outcome = << >> /\ b.pick = Kept /\ b.gone = FALSE
        /\ DOMAIN b = DOMAIN Nothing
    BY DEF Nothing
  <2>3. listed \subseteq Owners
    OBVIOUS
  <2> HIDE DEF b, listed
  <2>4. /\ ToSet(<< >>) = {} /\ \A S : << >> \in Seq(S)
        /\ b.at \in InProgress /\ b.at \notin {"runs", "ensure", "create"}
    BY <2>2, EmptySeq DEF InProgress, ToSet
  <2>5. HalfDone(p, b)
    BY <2>2, ContainersTyped, EmptySeq DEF HalfDone
  <2>6. ProbedList(<< >>)
    BY NothingWellFormed DEF WellFormed, Nothing
  <2>7. WellFormed(p, b)
    BY <2>2, <2>3, <2>4, <2>5, <2>6 DEF WellFormed, Offerable, AreOffers
  <2> QED
    BY <2>1, <2>7, OneTyped
<1>2. CASE Leave(p)
  <2>1. adm' = [adm EXCEPT ![p] = Nothing]
    BY <1>2 DEF Leave
  <2> QED
    BY <2>1, NothingWellFormed, OneTyped
<1> QED
  BY <1>1, <1>2

\* What the cache of alternatives has.
CacheTyped == /\ DOMAIN altCache = Images
              /\ \A i \in Images : altCache[i] = Absent \/ Offerable(altCache[i])

LEMMA HeadIsImage ==
    ASSUME AdmTyped, NEW p \in Slots, adm[p].at \in InProgress PROVE Head(adm[p].todo) \in Images
<1>1. adm[p].todo \in Seq(Images) \ {<< >>}
  BY DEF AdmTyped, WellFormed, HalfDone
<1> QED
  BY <1>1, HeadTailProperties

LEMMA UseCachedTyped == ASSUME AdmTyped, CacheTyped, NEW p \in Slots, UseCached(p) PROVE AdmTyped'
<1>1. PICK alternative : alternative = altCache[Head(adm[p].todo)]
  OBVIOUS
<1>2. adm[p].at \in InProgress
  BY DEF UseCached, InProgress
<1>3. Offerable(alternative)
  BY <1>1, <1>2, HeadIsImage DEF UseCached, CacheTyped
<1>4. WellFormed(p, Given(p, adm[p], alternative))
  BY <1>2, <1>3, WellFormedFields, GivenWellFormed
<1>5. adm' = [adm EXCEPT ![p] = Given(p, adm[p], alternative)]
  BY <1>1 DEF UseCached
<1> QED
  BY <1>4, <1>5, OneTyped

LEMMA FollowTyped == ASSUME AdmTyped, NEW p \in Slots, Follow(p) PROVE AdmTyped'
<1> DEFINE b == [adm[p] EXCEPT !.at = "follow"]
<1>1. /\ DOMAIN b = DOMAIN adm[p] /\ b.at = "follow" /\ b.given = adm[p].given
      /\ b.todo = adm[p].todo /\ b.listed = adm[p].listed /\ b.pick = adm[p].pick
      /\ b.list = adm[p].list /\ b.outcome = adm[p].outcome /\ b.gone = adm[p].gone
  BY WellFormedFields
<1>2. adm' = [adm EXCEPT ![p] = b] /\ adm[p].at \in InProgress /\ "follow" \in InProgress
  BY DEF Follow, InProgress
<1> HIDE DEF b
<1>3. WellFormed(p, b)
  BY <1>1, <1>2, WellFormedFields, ChangedWellFormed
<1> QED
  BY <1>2, <1>3, OneTyped

LEMMA ThoseFacts ==
    ASSUME NEW sets, IsSequence(sets), NEW names
    PROVE  IsSequence(Those(sets, names)) /\ ToSet(Those(sets, names)) \subseteq ToSet(sets)
<1>1. PICK P : P = {k \in DOMAIN sets : sets[k].name \in names}
  OBVIOUS
<1>2. P \in SUBSET DOMAIN sets /\ Those(sets, names) = Only(sets, P)
  BY <1>1 DEF Those
<1>3. IsSequence(Only(sets, P)) /\ ToSet(Only(sets, P)) = {sets[k] : k \in P}
  BY <1>2, OnlyFacts
<1>4. \A k \in P : sets[k] \in ToSet(sets)
  BY <1>2 DEF ToSet
<1> QED
  BY <1>2, <1>3, <1>4

\* The offers of the sets that are there.
LEMMA ListsFacts ==
    ASSUME NEW l \in Lists
    PROVE  l.list \in Seq(ToSet(l.list)) /\ AreOffers(ToSet(l.list))
<1>1. PICK names \in SUBSET Owners, i \in Images :
          l.list = AlternativesList(Those(Mirrors, names), Those(Replicas, names), i, FALSE)
  <2> DEFINE row(names, i) ==
                 [listed |-> names, image |-> i,
                  list |-> AlternativesList(Those(Mirrors, names), Those(Replicas, names), i, FALSE)]
  <2>1. Lists = {row(names, i) : names \in SUBSET Owners, i \in Images}
    BY DEF Lists
  <2>2. \A names, i : row(names, i).list
                       = AlternativesList(Those(Mirrors, names), Those(Replicas, names), i, FALSE)
    BY Zenon
  <2> HIDE DEF row
  <2>3. PICK names \in SUBSET Owners, i \in Images : l = row(names, i)
    BY <2>1
  <2> QED
    BY <2>2, <2>3, Zenon
<1>2. PICK ms, rs, list, pinned : /\ ms = Those(Mirrors, names) /\ rs = Those(Replicas, names)
                                  /\ pinned = FALSE /\ list = l.list
                                  /\ list = AlternativesList(ms, rs, i, pinned)
  BY <1>1
<1>3. /\ IsSequence(ms) /\ ToSet(ms) \subseteq ToSet(Mirrors)
      /\ IsSequence(rs) /\ ToSet(rs) \subseteq ToSet(Replicas)
  BY <1>2, ThoseFacts, AdmissionAssumption
<1>4. /\ \A s \in ToSet(ms) : IsMirrorSet(s) /\ s.name \in Owners
      /\ \A s \in ToSet(rs) : IsReplicatedSet(s) /\ s.name \in Owners
      /\ MinInt \in Int
  BY <1>3, AdmissionAssumption DEF Owners, Named
<1>5. PICK offers, base : offers = Collected(ms, rs, i, pinned) /\ base = Base(rs, i, pinned)
  OBVIOUS
<1>6. /\ AreOffered(offers)
      /\ \A o \in ToSet(offers) : o \in ToSet(base) \/ \E s \in ToSet(ms) : s.name = o.set
  <2>1. /\ IsSequence(ms) /\ \A s \in ToSet(ms) : IsMirrorSet(s)
        /\ IsSequence(rs) /\ \A s \in ToSet(rs) : IsReplicatedSet(s)
    BY <1>3, <1>4
  <2> QED
    BY <1>4, <1>5, <2>1, CollectedFacts
<1>7. \A x : x \in ToSet(base) <=>
                 \/ \E s \in ToSet(rs) : \E d \in DOMAIN s.set.upstreams :
                        IsOffered(s.set, d, i) /\ x = UpstreamOffer(s, d, i)
                 \/ ~DiscardOriginal(rs, i) /\ x = OriginalOffer(i, pinned)
  <2>1. IsSequence(rs) /\ \A s \in ToSet(rs) : IsReplicatedSet(s)
    BY <1>3, <1>4
  <2> QED
    BY <1>4, <1>5, <2>1, BaseFacts
<1>8. list = Distinct(SortStable(offers))
  BY <1>1, <1>2, <1>5 DEF AlternativesList
<1>9. IsSequence(list) /\ ToSet(list) \subseteq ToSet(offers)
  BY <1>6, <1>8, ListFacts
<1>10. ASSUME NEW o \in ToSet(list)
       PROVE  /\ DOMAIN o = {"reference", "secret", "set", "key"} /\ o.reference \in References
              /\ o.set \in Owners \cup {NoSet}
              /\ o.secret # NoSecret => o.set \in Owners
  <2>1. o \in ToSet(offers) /\ DOMAIN o = {"reference", "secret", "set", "key"}
    BY <1>6, <1>9 DEF AreOffered, IsOffer
  <2>2. o.reference \in References
    BY <1>2 DEF References
  <2>3. OriginalOffer(i, pinned).set = NoSet /\ OriginalOffer(i, pinned).secret = NoSecret
    BY DEF OriginalOffer, Offer
  <2>4. CASE \E s \in ToSet(ms) : s.name = o.set
    BY <1>4, <2>1, <2>2, <2>4
  <2>5. CASE o \in ToSet(base)
    <3>1. CASE o = OriginalOffer(i, pinned)
      BY <2>1, <2>2, <2>3, <3>1
    <3>2. CASE \E s \in ToSet(rs) : \E d \in DOMAIN s.set.upstreams : o = UpstreamOffer(s, d, i)
      <4>1. PICK s \in ToSet(rs) : o.set = s.name
        BY <1>4, <3>2, UpstreamOfferKeys
      <4> QED
        BY <1>4, <2>1, <2>2, <4>1
    <3> QED
      BY <1>7, <2>5, <3>1, <3>2
  <2> QED
    BY <1>6, <2>1, <2>4, <2>5
<1>11. AreOffers(ToSet(list))
  <2>1. DOMAIN OriginalOffer(<< >>, FALSE) = {"reference", "secret", "set", "key"}
    BY DEF OriginalOffer, Offer
  <2> QED
    BY <1>10, <2>1, Zenon DEF AreOffers
<1> QED
  BY <1>2, <1>9, <1>11 DEF IsSequence

LEMMA LeadTyped == ASSUME AdmTyped, NEW p \in Slots, Lead(p) PROVE AdmTyped'
<1>1. PICK l \in Lists : adm' = [adm EXCEPT ![p].at = "load", ![p].list = l.list]
  BY DEF Lead
<1>2. l.list \in Seq(ToSet(l.list)) /\ AreOffers(ToSet(l.list))
  BY ListsFacts
<1> DEFINE b == [adm[p] EXCEPT !.at = "load", !.list = l.list]
<1>3. /\ DOMAIN b = DOMAIN adm[p] /\ b.at = "load" /\ b.given = adm[p].given
      /\ b.todo = adm[p].todo /\ b.listed = adm[p].listed /\ b.pick = adm[p].pick
      /\ b.list = l.list /\ b.outcome = adm[p].outcome /\ b.gone = adm[p].gone
  BY WellFormedFields
<1>4. adm[p].at \in InProgress /\ "load" \in InProgress
  BY DEF Lead, InProgress
<1>5. adm' = [adm EXCEPT ![p] = b]
  BY <1>1 DEF AdmTyped
<1> HIDE DEF b
<1>6. WellFormed(p, b)
  BY <1>2, <1>3, <1>4, WellFormedFields, ChangedWellFormed
<1> QED
  BY <1>5, <1>6, OneTyped

\* The cache of checks holds outcomes.
ChecksTyped == checkCache \in [References -> Outcomes]

LEMMA StartProbesTyped == ASSUME AdmTyped, ChecksTyped, NEW p \in Slots, StartProbes(p) PROVE AdmTyped'
<1>1. adm[p].at \in InProgress /\ "probe" \in InProgress
  BY DEF StartProbes, InProgress
<1>2. CASE adm' = [adm EXCEPT ![p].at = "probe"]
  <2> DEFINE b == [adm[p] EXCEPT !.at = "probe"]
  <2>1. /\ DOMAIN b = DOMAIN adm[p] /\ b.at = "probe" /\ b.given = adm[p].given
        /\ b.todo = adm[p].todo /\ b.listed = adm[p].listed /\ b.pick = adm[p].pick
        /\ b.list = adm[p].list /\ b.outcome = adm[p].outcome /\ b.gone = adm[p].gone
    BY WellFormedFields
  <2>2. adm' = [adm EXCEPT ![p] = b]
    BY <1>2
  <2> HIDE DEF b
  <2>3. WellFormed(p, b)
    BY <1>1, <2>1, WellFormedFields, ChangedWellFormed
  <2> QED
    BY <2>2, <2>3, OneTyped
<1>3. ASSUME NEW list, list = adm[p].list,
             NEW outcome, outcome = [k \in 0 .. Len(list) - 1 |-> checkCache[list[k + 1].reference]],
             adm' = [adm EXCEPT ![p].at = "probe", ![p].outcome = outcome]
      PROVE  AdmTyped'
  <2> DEFINE b == [adm[p] EXCEPT !.at = "probe", !.outcome = outcome]
  <2>1. /\ DOMAIN b = DOMAIN adm[p] /\ b.at = "probe" /\ b.given = adm[p].given
        /\ b.todo = adm[p].todo /\ b.listed = adm[p].listed /\ b.pick = adm[p].pick
        /\ b.list = adm[p].list /\ b.outcome = outcome /\ b.gone = adm[p].gone
    BY WellFormedFields
  <2>2. adm' = [adm EXCEPT ![p] = b]
    BY <1>3 DEF AdmTyped
  <2> HIDE DEF b
  <2>3. Len(list) \in Nat /\ DOMAIN list = 1 .. Len(list) /\ AreOffers(ToSet(list))
    BY <1>3, WellFormedFields, LenProperties
  <2>4. ASSUME NEW k \in 0 .. Len(list) - 1 PROVE checkCache[list[k + 1].reference] \in Outcomes
    <3>1. k + 1 \in DOMAIN list
      BY <2>3
    <3>2. list[k + 1] \in ToSet(list)
      BY <3>1 DEF ToSet
    <3> QED
      BY <2>3, <3>2 DEF AreOffers, ChecksTyped
  <2>5. outcome \in [0 .. Len(list) - 1 -> Outcomes]
    BY <1>3, <2>4
  <2>6. ProbedList(outcome)
    BY <2>3, <2>5 DEF ProbedList
  <2>7. WellFormed(p, b)
    BY <1>1, <2>1, <2>6, WellFormedFields, ChangedWellFormed
  <2> QED
    BY <2>2, <2>7, OneTyped
<1> QED
  BY <1>2, <1>3 DEF StartProbes

LEMMA SecretMissingTyped == ASSUME AdmTyped, NEW p \in Slots, SecretMissing(p) PROVE AdmTyped'
<1> DEFINE b == [q \in Slots |-> IF q \in Served(p) THEN Denied(q, adm[q]) ELSE adm[q]]
<1>1. adm' = [q \in Slots |-> b[q]]
  BY DEF SecretMissing
<1>2. \A q \in Slots : WellFormed(q, b[q])
  BY DeniedWellFormed DEF AdmTyped
<1> HIDE DEF b
<1> QED
  BY <1>1, <1>2, AllTyped

\* A result is one of the list, for the leader and for all who follow.
LEMMA ConcludeTyped ==
    ASSUME AdmTyped, CacheTyped, NEW p \in Slots, Conclude(p) PROVE AdmTyped' /\ CacheTyped'
<1>1. PICK result \in ToSet(adm[p].list) \cup {Kept} :
          /\ altCache' = [altCache EXCEPT ![Head(adm[p].todo)] = result]
          /\ adm' = [q \in Slots |-> IF q \in Served(p) THEN Given(q, adm[q], result) ELSE adm[q]]
  BY DEF Conclude
<1>2. Offerable(result)
  BY WellFormedFields DEF Offerable, AreOffers
<1> DEFINE b == [q \in Slots |-> IF q \in Served(p) THEN Given(q, adm[q], result) ELSE adm[q]]
<1>3. adm' = [q \in Slots |-> b[q]]
  BY <1>1
<1>4. \A q \in Served(p) : q \in Slots /\ adm[q].at \in InProgress
  BY DEF Conclude, Served, Follows, InProgress
<1>5. ASSUME NEW q \in Slots PROVE WellFormed(q, b[q])
  <2>1. CASE q \in Served(p)
    <3>1. WellFormed(q, Given(q, adm[q], result))
      BY <1>2, <1>4, <2>1, WellFormedFields, GivenWellFormed
    <3> QED
      BY <2>1, <3>1
  <2>2. CASE q \notin Served(p)
    BY <2>2, WellFormedFields
  <2> QED
    BY <2>1, <2>2
<1> HIDE DEF b
<1>6. AdmTyped'
  BY <1>3, <1>5, AllTyped
<1>7. CacheTyped'
  BY <1>1, <1>2 DEF CacheTyped, Offerable, AreOffers
<1> QED
  BY <1>6, <1>7

LEMMA PickOfferable == ASSUME AdmTyped, NEW p \in Slots PROVE Offerable(adm[p].pick)
BY DEF AdmTyped, WellFormed

LEMMA GetCopyTyped == ASSUME AdmTyped, NEW p \in Slots, GetCopy(p) PROVE AdmTyped'
<1> DEFINE b == [adm[p] EXCEPT !.at = "create"]
<1>1. adm[p].at = "ensure" /\ "ensure" \in InProgress /\ "create" \in InProgress
  BY DEF GetCopy, InProgress
<1>2. CASE adm' = [adm EXCEPT ![p] = Advance(p, adm[p], adm[p].pick)]
  <2>1. WellFormed(p, Advance(p, adm[p], adm[p].pick))
    BY <1>1, PickOfferable, WellFormedFields, AdvanceWellFormed
  <2> QED
    BY <1>2, <2>1, OneTyped
<1>3. CASE adm' = [adm EXCEPT ![p] = b]
  <2>1. /\ DOMAIN b = DOMAIN adm[p] /\ b.at = "create" /\ b.given = adm[p].given
        /\ b.todo = adm[p].todo /\ b.listed = adm[p].listed /\ b.pick = adm[p].pick
        /\ b.list = adm[p].list /\ b.outcome = adm[p].outcome /\ b.gone = adm[p].gone
    BY WellFormedFields
  <2> HIDE DEF b
  <2>2. WellFormed(p, b)
    BY <1>1, <2>1, WellFormedFields, ChangedWellFormed
  <2> QED
    BY <1>3, <2>2, OneTyped
<1> QED
  BY <1>2, <1>3 DEF GetCopy

LEMMA CreateCopyTyped == ASSUME AdmTyped, NEW p \in Slots, CreateCopy(p) PROVE AdmTyped'
<1>1. adm[p].at \in InProgress
  BY DEF CreateCopy, InProgress
<1>2. CASE adm' = [adm EXCEPT ![p] = Advance(p, adm[p], adm[p].pick)]
  <2>1. WellFormed(p, Advance(p, adm[p], adm[p].pick))
    BY <1>1, PickOfferable, WellFormedFields, AdvanceWellFormed
  <2> QED
    BY <1>2, <2>1, OneTyped
<1>3. CASE adm' = [adm EXCEPT ![p] = Denied(p, adm[p])]
  BY <1>3, DeniedWellFormed, OneTyped
<1> QED
  BY <1>2, <1>3 DEF CreateCopy

LEMMA AnswerTyped ==
    ASSUME AdmTyped, ChecksTyped, NEW r \in References, Answer(r) PROVE AdmTyped' /\ ChecksTyped'
<1> DEFINE After(p, result) ==
             [k \in DOMAIN adm[p].outcome |->
                 IF adm[p].outcome[k] = "unknown" /\ adm[p].list[k + 1].reference = r
                 THEN result ELSE adm[p].outcome[k]]
           B(p, result) == [adm[p] EXCEPT !.outcome = After(p, result)]
<1>1. PICK result \in {"value", "error"} :
          /\ checkCache' = [checkCache EXCEPT ![r] = result]
          /\ adm' = [p \in Slots |-> B(p, result)]
  BY DEF Answer
<1>2. ChecksTyped'
  BY <1>1 DEF ChecksTyped, Outcomes
<1>3. ASSUME NEW p \in Slots PROVE WellFormed(p, B(p, result))
  <2>1. PICK b : b = B(p, result)
    OBVIOUS
  <2>2. PICK outcome : outcome = After(p, result)
    OBVIOUS
  <2>3. /\ DOMAIN b = DOMAIN adm[p] /\ b.at = adm[p].at /\ b.given = adm[p].given
        /\ b.todo = adm[p].todo /\ b.listed = adm[p].listed /\ b.pick = adm[p].pick
        /\ b.list = adm[p].list /\ b.outcome = outcome /\ b.gone = adm[p].gone
    BY <2>1, <2>2, WellFormedFields
  <2>4. ProbedList(outcome)
    <3>1. PICK n \in Nat : adm[p].outcome \in [0 .. n - 1 -> Outcomes]
      BY WellFormedFields DEF ProbedList
    <3>2. outcome \in [0 .. n - 1 -> Outcomes]
      BY <1>1, <2>2, <3>1 DEF Outcomes
    <3> QED
      BY <3>2 DEF ProbedList
  <2> HIDE DEF B
  <2>5. WellFormed(p, b)
    BY <2>3, <2>4, WellFormedFields, ChangedWellFormed
  <2> QED
    BY <2>1, <2>5
<1> DEFINE c == [p \in Slots |-> B(p, result)]
<1> HIDE DEF B
<1>4. adm' = [p \in Slots |-> c[p]] /\ \A p \in Slots : WellFormed(p, c[p])
  BY <1>1, <1>3
<1> HIDE DEF c
<1>5. AdmTyped'
  BY <1>4, AllTyped
<1> QED
  BY <1>2, <1>5

LEMMA HangUpTyped == ASSUME AdmTyped, NEW p \in Slots, HangUp(p) PROVE AdmTyped'
<1> DEFINE b == [adm[p] EXCEPT !.gone = TRUE]
<1>1. /\ DOMAIN b = DOMAIN adm[p] /\ b.at = adm[p].at /\ b.given = adm[p].given
      /\ b.todo = adm[p].todo /\ b.listed = adm[p].listed /\ b.pick = adm[p].pick
      /\ b.list = adm[p].list /\ b.outcome = adm[p].outcome /\ b.gone = TRUE
  BY WellFormedFields
<1>2. adm' = [adm EXCEPT ![p] = b]
  BY DEF HangUp
<1> HIDE DEF b
<1>3. WellFormed(p, b)
  BY <1>1, WellFormedFields, ChangedWellFormed
<1> QED
  BY <1>2, <1>3, OneTyped

LEMMA CrashTyped == ASSUME AdmTyped, Crash PROVE AdmTyped' /\ CacheTyped' /\ ChecksTyped'
<1> DEFINE b == [p \in Slots |-> IF adm[p].at \in InProgress THEN Unmodified(p) ELSE adm[p]]
<1>1. adm' = [p \in Slots |-> b[p]]
  BY DEF Crash
<1>2. \A p \in Slots : WellFormed(p, b[p])
  BY UnmodifiedWellFormed, WellFormedFields
<1> HIDE DEF b
<1>3. AdmTyped'
  BY <1>1, <1>2, AllTyped
<1>4. CacheTyped' /\ ChecksTyped'
  BY DEF Crash, CacheTyped, ChecksTyped, Outcomes
<1> QED
  BY <1>3, <1>4

\* Admissions and caches, in any step.
LEMMA AdmissionsTyped ==
    ASSUME AdmTyped, CacheTyped, ChecksTyped, [Next]_vars
    PROVE  AdmTyped' /\ CacheTyped' /\ ChecksTyped'
<1>1. UNCHANGED adm => AdmTyped'
  BY DEF AdmTyped, WellFormed
<1>2. UNCHANGED altCache => CacheTyped'
  BY DEF CacheTyped, Offerable, AreOffers
<1>3. UNCHANGED checkCache => ChecksTyped'
  BY DEF ChecksTyped
<1>4. ASSUME NEW p \in Slots, Review(p) \/ HangUp(p) \/ Leave(p)
      PROVE  AdmTyped' /\ CacheTyped' /\ ChecksTyped'
  BY <1>2, <1>3, <1>4, ReviewTyped, HangUpTyped DEF Review, HangUp, Leave, caches
<1>5. ASSUME NEW p \in Slots, Handle(p) PROVE AdmTyped' /\ CacheTyped' /\ ChecksTyped'
  <2>1. CASE Conclude(p)
    BY <1>3, <2>1, ConcludeTyped DEF Conclude
  <2>2. CASE ~Conclude(p)
    <3>1. UNCHANGED caches
      BY <1>5, <2>2 DEF Handle, UseCached, Follow, Lead, SecretMissing, StartProbes, GetCopy, CreateCopy
    <3>2. AdmTyped'
      BY <1>5, <2>2, UseCachedTyped, FollowTyped, LeadTyped, SecretMissingTyped, StartProbesTyped,
         GetCopyTyped, CreateCopyTyped DEF Handle
    <3> QED
      BY <1>2, <1>3, <3>1, <3>2 DEF caches
  <2> QED
    BY <2>1, <2>2
<1>6. ASSUME NEW r \in References, Answer(r) PROVE AdmTyped' /\ CacheTyped' /\ ChecksTyped'
  BY <1>2, <1>6, AnswerTyped DEF Answer
<1>7. ASSUME NEW r \in References, ExpireCheck(r) PROVE AdmTyped' /\ CacheTyped' /\ ChecksTyped'
  <2>1. ChecksTyped'
    BY <1>7 DEF ExpireCheck, ChecksTyped, Outcomes
  <2> QED
    BY <1>1, <1>2, <1>7, <2>1 DEF ExpireCheck
<1>8. ASSUME NEW i \in Images, ExpireAlternative(i) PROVE AdmTyped' /\ CacheTyped' /\ ChecksTyped'
  <2>1. CacheTyped'
    BY <1>8 DEF ExpireAlternative, CacheTyped, Offerable, AreOffers
  <2> QED
    BY <1>1, <1>3, <1>8, <2>1 DEF ExpireAlternative
<1>9. ASSUME NEW o \in Owners, Reconcile(o) \/ DeleteOwner(o) PROVE AdmTyped' /\ CacheTyped' /\ ChecksTyped'
  BY <1>1, <1>2, <1>3, <1>9
     DEF Reconcile, AddFinalizer, ListCopies, DeleteCopy, RemoveFinalizer, DeleteOwner, caches
<1>10. CASE Observe \/ UNCHANGED vars
  BY <1>1, <1>2, <1>3, <1>10 DEF Observe, vars, caches
<1>11. CASE Crash
  BY <1>11, CrashTyped
<1> QED
  BY <1>4, <1>5, <1>6, <1>7, <1>8, <1>9, <1>10, <1>11 DEF Next
-----------------------------------------------------------------------------
(* No flight has the context of an admission that is over. *)

FlightsTyped ==
    /\ DOMAIN probe = References
    /\ \A r \in References : probe[r] # NoFlight =>
           /\ probe[r] \in [by : Slots \cup {Nobody}, keyed : BOOLEAN]
           /\ probe[r].by # Nobody => adm[probe[r].by].at \in InProgress

LEMMA FlightsCancelled == ASSUME FlightsTyped, CancelProbes PROVE FlightsTyped'
<1> DEFINE Over(p) == adm'[p].at \notin InProgress \/ adm'[p].gone
           Cancelled(r) == probe[r] # NoFlight /\ \E p \in Slots : probe[r].by = p /\ Over(p)
<1>1. probe' = [r \in References |->
                   IF Cancelled(r) THEN [probe[r] EXCEPT !.by = Nobody] ELSE probe[r]]
  BY DEF CancelProbes
<1>2. DOMAIN probe' = References
  BY <1>1
<1>3. ASSUME NEW r \in References, probe'[r] # NoFlight
      PROVE  /\ probe'[r] \in [by : Slots \cup {Nobody}, keyed : BOOLEAN]
             /\ probe'[r].by # Nobody => adm'[probe'[r].by].at \in InProgress
  <2>1. CASE Cancelled(r)
    <3>1. probe'[r] = [probe[r] EXCEPT !.by = Nobody]
      BY <1>1, <2>1
    <3>2. probe[r] \in [by : Slots \cup {Nobody}, keyed : BOOLEAN]
      BY <2>1 DEF FlightsTyped
    <3> QED
      BY <3>1, <3>2
  <2>2. CASE ~Cancelled(r)
    <3>1. probe'[r] = probe[r]
      BY <1>1, <2>2
    <3> QED
      BY <1>3, <2>2, <3>1 DEF FlightsTyped
  <2> QED
    BY <2>1, <2>2
<1> QED
  BY <1>2, <1>3 DEF FlightsTyped

LEMMA FlightsGoOn ==
    ASSUME FlightsTyped, UNCHANGED probe,
           \A q \in Slots : adm[q].at \in InProgress => adm'[q].at \in InProgress
    PROVE  FlightsTyped'
BY DEF FlightsTyped

LEMMA StartProbesFlights ==
    ASSUME FlightsTyped, AdmTyped, NEW p \in Slots, StartProbes(p) PROVE FlightsTyped'
<1>1. adm[p].at \in InProgress /\ "probe" \in InProgress
  BY DEF StartProbes, InProgress
<1>2. adm'[p].at = "probe" /\ \A q \in Slots \ {p} : adm'[q] = adm[q]
  <2>1. CASE adm' = [adm EXCEPT ![p].at = "probe"]
    BY <2>1, WellFormedFields DEF AdmTyped
  <2>2. ASSUME NEW outcome, adm' = [adm EXCEPT ![p].at = "probe", ![p].outcome = outcome]
        PROVE  adm'[p].at = "probe" /\ \A q \in Slots \ {p} : adm'[q] = adm[q]
    BY <2>2, WellFormedFields DEF AdmTyped
  <2> QED
    BY <2>1, <2>2 DEF StartProbes
<1>3. CASE UNCHANGED probe
  BY <1>1, <1>2, <1>3, FlightsGoOn
<1>4. CASE ~UNCHANGED probe
  <2> DEFINE Of(r) == {o \in ToSet(adm[p].list) : o.reference = r}
             Begins(r) == Of(r) # {} /\ checkCache[r] = "unknown" /\ probe[r] = NoFlight
             New(r) == [by |-> IF adm[p].gone THEN Nobody ELSE p,
                        keyed |-> \E o \in Of(r) : o.secret # NoSecret]
  <2>1. probe' = [r \in References |-> IF Begins(r) THEN New(r) ELSE probe[r]]
    BY <1>4 DEF StartProbes
  <2>2. \A r \in References : /\ New(r) \in [by : Slots \cup {Nobody}, keyed : BOOLEAN]
                              /\ New(r).by \in {Nobody, p}
    OBVIOUS
  <2> HIDE DEF New, Begins
  <2> QED
    BY <1>1, <1>2, <2>1, <2>2 DEF FlightsTyped
<1> QED
  BY <1>3, <1>4

LEMMA FlightsStep == ASSUME FlightsTyped, AdmTyped, [Next]_vars PROVE FlightsTyped'
<1>1. UNCHANGED <<adm, probe>> => FlightsTyped'
  BY FlightsGoOn
<1>2. ASSUME NEW p \in Slots, Review(p) PROVE FlightsTyped'
  <2>1. adm[p].at \notin InProgress /\ \A q \in Slots \ {p} : adm'[q] = adm[q]
    BY <1>2 DEF Review, InProgress, AdmTyped
  <2> QED
    BY <1>2, <2>1, FlightsGoOn DEF Review
<1>3. ASSUME NEW p \in Slots, Leave(p) PROVE FlightsTyped'
  <2>1. adm[p].at \notin InProgress /\ \A q \in Slots \ {p} : adm'[q] = adm[q]
    BY <1>3 DEF Leave, InProgress, AdmTyped
  <2> QED
    BY <1>3, <2>1, FlightsGoOn DEF Leave
<1>4. ASSUME NEW p \in Slots, Follow(p) PROVE FlightsTyped'
  <2>1. adm'[p].at = "follow" /\ \A q \in Slots \ {p} : adm'[q] = adm[q]
    BY <1>4, WellFormedFields DEF Follow, AdmTyped
  <2> QED
    BY <1>4, <2>1, FlightsGoOn DEF Follow, InProgress
<1>5. ASSUME NEW p \in Slots, Lead(p) PROVE FlightsTyped'
  <2>1. PICK l \in Lists : adm' = [adm EXCEPT ![p].at = "load", ![p].list = l.list]
    BY <1>5 DEF Lead
  <2>2. adm'[p].at = "load" /\ \A q \in Slots \ {p} : adm'[q] = adm[q]
    BY <2>1, WellFormedFields DEF AdmTyped
  <2> QED
    BY <1>5, <2>2, FlightsGoOn DEF Lead, InProgress
<1>6. ASSUME NEW p \in Slots, Handle(p) \/ HangUp(p) PROVE FlightsTyped'
  BY <1>4, <1>5, <1>6, StartProbesFlights, FlightsCancelled
     DEF Handle, HangUp, UseCached, SecretMissing, Conclude, GetCopy, CreateCopy
<1>7. ASSUME NEW r \in References, Answer(r) PROVE FlightsTyped'
  <2>1. probe' = [probe EXCEPT ![r] = NoFlight]
    BY <1>7 DEF Answer
  <2>2. \A q \in Slots : adm'[q].at = adm[q].at
    BY <1>7, WellFormedFields DEF Answer
  <2> QED
    BY <2>1, <2>2 DEF FlightsTyped
<1>8. CASE Crash
  BY <1>8 DEF Crash, FlightsTyped
<1>9. ASSUME NEW r \in References, ExpireCheck(r) PROVE FlightsTyped'
  BY <1>1, <1>9 DEF ExpireCheck
<1>10. ASSUME NEW i \in Images, ExpireAlternative(i) PROVE FlightsTyped'
  BY <1>1, <1>10 DEF ExpireAlternative
<1>11. ASSUME NEW o \in Owners, Reconcile(o) \/ DeleteOwner(o) PROVE FlightsTyped'
  BY <1>1, <1>11 DEF Reconcile, AddFinalizer, ListCopies, DeleteCopy, RemoveFinalizer, DeleteOwner
<1>12. CASE Observe \/ UNCHANGED vars
  BY <1>1, <1>12 DEF Observe, vars
<1> QED
  BY <1>2, <1>3, <1>6, <1>7, <1>8, <1>9, <1>10, <1>11, <1>12 DEF Next
-----------------------------------------------------------------------------
(* Resources, copies and bounds. *)

\* Only resources with a secret owner reconciler have its finalizer.
ResourcesTyped ==
    /\ \A o \in Owners : owner[o] \in {"kept", "deleting"} => o \in Swept
    /\ DOMAIN sweep \subseteq Swept /\ \A o \in DOMAIN sweep : sweep[o] \subseteq Namespaces
    /\ copies \cup seen \subseteq Namespaces \X Owners
    /\ late \subseteq Namespaces \X Owners

BoundsTyped == faults \in 0 .. MaxFaults /\ arrived \in 0 .. MaxPods

LEMMA ResourcesStep ==
    ASSUME ResourcesTyped, OwnersTyped, AdmTyped, [Next]_vars PROVE ResourcesTyped'
<1>1. UNCHANGED <<resources, secrets>> => ResourcesTyped'
  BY DEF resources, secrets, ResourcesTyped
<1>2. ASSUME NEW p \in Slots, CreateCopy(p) PROVE ResourcesTyped'
  <2>1. UNCHANGED <<owner, sweep, seen>>
    BY <1>2 DEF CreateCopy, resources
  <2>2. <<NamespaceOf[p], adm[p].pick.set>> \in Namespaces \X Owners
    BY <1>2 DEF CreateCopy, AdmTyped, WellFormed, Namespaces
  <2>3. PICK copy : copy = <<NamespaceOf[p], adm[p].pick.set>>
    OBVIOUS
  <2>4. copies' \subseteq copies \cup {copy} /\ late' \subseteq late \cup {copy}
    BY <1>2, <2>3 DEF CreateCopy
  <2> QED
    BY <2>1, <2>2, <2>3, <2>4 DEF ResourcesTyped
<1>3. ASSUME NEW p \in Slots, Review(p) \/ Handle(p) \/ HangUp(p) \/ Leave(p) PROVE ResourcesTyped'
  BY <1>1, <1>2, <1>3 DEF Review, Handle, HangUp, Leave, UseCached, Follow, Lead, SecretMissing,
                          StartProbes, Conclude, GetCopy
<1>4. ASSUME NEW r \in References, Answer(r) \/ ExpireCheck(r) PROVE ResourcesTyped'
  BY <1>1, <1>4 DEF Answer, ExpireCheck
<1>5. ASSUME NEW i \in Images, ExpireAlternative(i) PROVE ResourcesTyped'
  BY <1>1, <1>5 DEF ExpireAlternative
<1>6. ASSUME NEW o \in Owners, AddFinalizer(o) PROVE ResourcesTyped'
  <2>1. owner' = [owner EXCEPT ![o] = "kept"] /\ o \in Swept /\ UNCHANGED <<sweep, copies, seen, late>>
    BY <1>6 DEF AddFinalizer, secrets
  <2> QED
    BY <2>1 DEF ResourcesTyped, OwnersTyped
<1>7. ASSUME NEW o \in Owners, DeleteOwner(o) PROVE ResourcesTyped'
  <2>1. /\ owner' = [owner EXCEPT ![o] = IF @ = "kept" THEN "deleting" ELSE "gone"]
        /\ UNCHANGED <<sweep, copies, seen, late>>
    BY <1>7 DEF DeleteOwner, secrets
  <2> QED
    BY <2>1 DEF ResourcesTyped, OwnersTyped
<1>8. ASSUME NEW o \in Owners, ListCopies(o) PROVE ResourcesTyped'
  <2> DEFINE listed == {c[1] : c \in {d \in seen : d[2] = o}}
  <2>1. UNCHANGED <<owner, copies, seen>> /\ owner[o] = "deleting"
    BY <1>8 DEF ListCopies
  <2>2. /\ DOMAIN sweep' = DOMAIN sweep \cup {o} /\ sweep'[o] = listed
        /\ \A x \in DOMAIN sweep \ {o} : sweep'[x] = sweep[x]
    BY <1>8 DEF ListCopies, StartSweep
  <2>3. listed \subseteq Namespaces
    BY DEF ResourcesTyped
  <2>4. late' \subseteq late \cup copies
    BY <1>8 DEF ListCopies, LateFor
  <2> HIDE DEF listed
  <2> QED
    BY <2>1, <2>2, <2>3, <2>4 DEF ResourcesTyped
<1>9. ASSUME NEW o \in Owners, DeleteCopy(o) PROVE ResourcesTyped'
  <2>1. UNCHANGED <<owner, seen, late>> /\ o \in DOMAIN sweep /\ copies' \subseteq copies
    BY <1>9 DEF DeleteCopy
  <2>2. /\ DOMAIN sweep' \subseteq DOMAIN sweep
        /\ \A x \in DOMAIN sweep' : sweep'[x] \subseteq sweep[x]
    BY <1>9 DEF DeleteCopy, StopSweep
  <2> QED
    BY <2>1, <2>2 DEF ResourcesTyped
<1>10. ASSUME NEW o \in Owners, RemoveFinalizer(o) PROVE ResourcesTyped'
  <2>1. UNCHANGED <<copies, seen, late>> /\ owner' = [owner EXCEPT ![o] = "gone"]
    BY <1>10 DEF RemoveFinalizer, secrets
  <2>2. /\ DOMAIN sweep' \subseteq DOMAIN sweep
        /\ \A x \in DOMAIN sweep' : sweep'[x] = sweep[x]
    BY <1>10 DEF RemoveFinalizer, StopSweep
  <2> QED
    BY <2>1, <2>2 DEF ResourcesTyped, OwnersTyped
<1>11. CASE Observe
  BY <1>11 DEF Observe, resources, ResourcesTyped
<1>12. CASE Crash
  BY <1>12 DEF Crash, ResourcesTyped
<1>13. CASE UNCHANGED vars
  BY <1>1, <1>13 DEF vars
<1> QED
  BY <1>3, <1>4, <1>5, <1>6, <1>7, <1>8, <1>9, <1>10, <1>11, <1>12, <1>13 DEF Next, Reconcile

LEMMA BoundsStep == ASSUME BoundsTyped, [Next]_vars PROVE BoundsTyped'
<1> USE AdmissionAssumption DEF BoundsTyped
<1>1. UNCHANGED <<faults, arrived>> => BoundsTyped'
  OBVIOUS
<1>2. ASSUME NEW kind, Fault(kind), UNCHANGED arrived PROVE BoundsTyped'
  BY <1>2 DEF Fault
<1>3. ASSUME NEW p \in Slots, Review(p) PROVE BoundsTyped'
  BY <1>3 DEF Review
<1>4. ASSUME NEW p \in Slots, Handle(p) \/ HangUp(p) \/ Leave(p) PROVE BoundsTyped'
  BY <1>1, <1>2, <1>4 DEF Handle, HangUp, Leave, UseCached, Follow, Lead, SecretMissing, StartProbes,
                          Conclude, GetCopy, CreateCopy
<1>5. ASSUME NEW r \in References, Answer(r) \/ ExpireCheck(r) PROVE BoundsTyped'
  BY <1>1, <1>5 DEF Answer, ExpireCheck
<1>6. ASSUME NEW i \in Images, ExpireAlternative(i) PROVE BoundsTyped'
  BY <1>1, <1>6 DEF ExpireAlternative
<1>7. ASSUME NEW o \in Owners, Reconcile(o) \/ DeleteOwner(o) PROVE BoundsTyped'
  BY <1>1, <1>2, <1>7 DEF Reconcile, AddFinalizer, ListCopies, DeleteCopy, RemoveFinalizer, DeleteOwner
<1>8. CASE Observe \/ Crash \/ UNCHANGED vars
  BY <1>1, <1>2, <1>8 DEF Observe, Crash, vars
<1> QED
  BY <1>3, <1>4, <1>5, <1>6, <1>7, <1>8 DEF Next

TypeInv == /\ AdmTyped /\ CacheTyped /\ ChecksTyped /\ FlightsTyped
           /\ SweepInv /\ ResourcesTyped /\ BoundsTyped

LEMMA TypeInit == Init => TypeInv
<1> SUFFICES ASSUME Init PROVE TypeInv
  OBVIOUS
<1>1. AdmTyped
  <2>1. adm = [p \in Slots |-> Nothing]
    BY DEF Init
  <2> QED
    BY <2>1, NothingWellFormed DEF AdmTyped
<1>2. CacheTyped /\ ChecksTyped /\ FlightsTyped
  BY DEF Init, CacheTyped, ChecksTyped, FlightsTyped, Outcomes
<1>3. ResourcesTyped /\ BoundsTyped
  BY AdmissionAssumption DEF Init, ResourcesTyped, BoundsTyped
<1> QED
  BY <1>1, <1>2, <1>3, SweepInit DEF TypeInv

\* The outcomes are counted from 0.
LEMMA ProbedListType ==
    ASSUME NEW outcome, ProbedList(outcome)
    PROVE  outcome \in [0 .. Cardinality(DOMAIN outcome) - 1 -> {"unknown", "value", "error"}]
<1>1. PICK n \in Nat : outcome \in [0 .. n - 1 -> Outcomes]
  BY DEF ProbedList
<1>2. Cardinality(0 .. n - 1) = n
  <2>1. Cardinality(0 .. n - 1) = IF 0 > n - 1 THEN 0 ELSE (n - 1) - 0 + 1
    BY FS_Interval
  <2> QED
    BY <2>1
<1>3. DOMAIN outcome = 0 .. n - 1
  BY <1>1
<1> QED
  BY <1>1, <1>2, <1>3 DEF Outcomes

\* Admissions and what they share keep their types: in particular a flight whose
\* context is that of an admission is one of an admission that goes on, every
\* pod gets as many images as it has containers, and only secrets of resources
\* are copied.
THEOREM TypeCorrect == Spec => []TypeOK
<1>1. TypeInv => TypeOK
  <2> SUFFICES ASSUME TypeInv PROVE TypeOK
    OBVIOUS
  <2>1. ASSUME NEW p \in Slots
        PROVE  LET a == adm[p]
               IN  /\ DOMAIN a = DOMAIN Nothing
                   /\ a.at \in InProgress \cup {"none", "runs", "denied"}
                   /\ a.listed \subseteq Owners
                   /\ a.at \in InProgress => Len(a.given) + Len(a.todo) = Len(Containers[p])
                   /\ a.at = "runs" => Len(a.given) = Len(Containers[p])
                   /\ AreOffers((ToSet(a.given) \cup {a.pick}) \ {Kept})
                   /\ AreOffers(ToSet(a.list))
                   /\ a.outcome \in [0 .. Cardinality(DOMAIN a.outcome) - 1 -> {"unknown", "value", "error"}]
                   /\ a.gone \in BOOLEAN
    <3>1. WellFormed(p, adm[p])
      BY DEF TypeInv, AdmTyped
    <3>2. AreOffers((ToSet(adm[p].given) \cup {adm[p].pick}) \ {Kept})
      BY <3>1 DEF WellFormed, Offerable, AreOffers
    <3>3. adm[p].outcome \in [0 .. Cardinality(DOMAIN adm[p].outcome) - 1 -> {"unknown", "value", "error"}]
      BY <3>1, ProbedListType DEF WellFormed
    <3> QED
      BY <3>1, <3>2, <3>3 DEF WellFormed, HalfDone
  <2>2. DOMAIN adm = Slots /\ DOMAIN altCache = Images
    BY DEF TypeInv, AdmTyped, CacheTyped
  <2>3. AreOffers({altCache[i] : i \in Images} \ {Kept, Absent})
    BY DEF TypeInv, CacheTyped, Offerable, AreOffers
  <2>4. checkCache \in [References -> {"unknown", "value", "error"}]
    BY DEF TypeInv, ChecksTyped, Outcomes
  <2>5. FlightsTyped /\ ResourcesTyped /\ BoundsTyped /\ OwnersTyped
    BY DEF TypeInv, SweepInv
  <2> QED
    BY <2>1, <2>2, <2>3, <2>4, <2>5 DEF TypeOK, FlightsTyped, ResourcesTyped, BoundsTyped, OwnersTyped
<1>2. TypeInv /\ [Next]_vars => TypeInv'
  BY AdmissionsTyped, FlightsStep, ResourcesStep, BoundsStep, SweepNext DEF TypeInv, SweepInv
<1> QED
  BY <1>1, <1>2, TypeInit, PTL DEF Spec
=============================================================================
