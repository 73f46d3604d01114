-------------------------- MODULE Availability_proof --------------------------
(***************************************************************************)
(* Proofs about Availability, for every set of objects, images, pods and    *)
(* registries, every configuration, all lists that earlier versions may     *)
(* have left and any number of faults.                                      *)
(***************************************************************************)
EXTENDS Availability, WellFoundedInduction, TLAPS

(* Lists and ages. *)

LEMMA AgeFacts ==
    /\ MaxAge \in Nat
    /\ InUse \in InUse .. Marker /\ Marker \in InUse .. Marker /\ 0 \in InUse .. Marker
    /\ Never \in Never .. MaxAge /\ 0 \in Never .. MaxAge /\ MaxAge \in 0 .. MaxAge
    /\ \A a \in InUse .. Marker : Older(a) \in InUse .. Marker
    /\ \A a \in Never .. MaxAge : Older(a) \in Never .. MaxAge
    /\ \A a \in 0 .. MaxAge : Older(a) \in 0 .. MaxAge
    /\ \A a, b \in 0 .. MaxAge : a <= b => Older(a) <= Older(b)
    /\ Older(Never) = Never
BY AvailabilityAssumption DEF InUse, Marker, Never, Older

LEMMA EmptyList == IsList(<< >>)
<1>1. << >> = [x \in {} |-> x]
  OBVIOUS
<1>2. [x \in {} |-> x] \in [{} -> Entry]
  OBVIOUS
<1> QED
  BY <1>1, <1>2 DEF IsList, IsPartial

\* What the clock does to an entry, and to a list.
LEMMA AgedEntryFacts ==
    ASSUME NEW e \in Entry
    PROVE  /\ AgedEntry(e) \in Entry
           /\ AgedEntry(e).last = Older(e.last)
           /\ AgedEntry(e).since = Older(e.since)
           /\ AgedEntry(e).verdict = e.verdict
BY AgeFacts DEF AgedEntry, Entry

LEMMA AgedFacts ==
    ASSUME NEW list, IsList(list)
    PROVE  /\ IsList(Aged(list))
           /\ DOMAIN Aged(list) = DOMAIN list
           /\ \A i \in DOMAIN list : Aged(list)[i] = AgedEntry(list[i])
BY AgedEntryFacts DEF Aged, IsList, IsPartial

LEMMA EntryReplaced ==
    ASSUME NEW list, IsList(list), NEW i \in Images, NEW e \in Entry
    PROVE  IsList([list EXCEPT ![i] = e])
BY DEF IsList, IsPartial

LEMMA UnusedSinceType ==
    ASSUME NEW s, NEW ps, NEW i, NEW e \in Entry
    PROVE  UnusedSince(s, ps, i, e) \in InUse .. Marker
BY AgeFacts DEF UnusedSince, Entry

LEMMA SyncedType ==
    ASSUME NEW s \in SpecSet, NEW ps \in SUBSET Pod, NEW list, IsList(list), NEW marks \in Marks(ps)
    PROVE  IsList(SyncImageList(s, ps, list, marks))
<1>1. DOMAIN list \subseteq Images /\ list \in [DOMAIN list -> Entry]
  BY DEF IsList, IsPartial
<1>2. Kept(s, ps, list) \subseteq DOMAIN list /\ Used(s, ps) \subseteq Images
  BY DEF Kept, Used, SpecSet
<1>3. ASSUME NEW i \in DOMAIN list
      PROVE  [list[i] EXCEPT !.since = UnusedSince(s, ps, i, list[i])] \in Entry
  BY <1>1, UnusedSinceType DEF Entry
<1>4. ASSUME NEW i \in Used(s, ps)
      PROVE  [since |-> InUse, verdict |-> "Scheduled", last |-> Never, original |-> marks[i]] \in Entry
  <2>1. marks[i] \in BOOLEAN
    BY DEF Used, Marks
  <2> QED
    BY <2>1, AgeFacts DEF Entry, Verdicts
<1> QED
  BY <1>1, <1>2, <1>3, <1>4 DEF SyncImageList, IsList, IsPartial

LEMMA MarkedType ==
    ASSUME NEW list, IsList(list)
    PROVE  /\ IsList(Marked(list))
           /\ DOMAIN Marked(list) = DOMAIN list
           /\ \A i \in DOMAIN list : /\ Marked(list)[i].last = list[i].last
                                     /\ Marked(list)[i].since = list[i].since
                                     /\ Marked(list)[i].verdict = list[i].verdict
<1>1. DOMAIN list \subseteq Images /\ list \in [DOMAIN list -> Entry]
  BY DEF IsList, IsPartial
<1> DEFINE new(i) == [list[i] EXCEPT !.original = @ \/ \E p \in DOMAIN pods : pods[p].image = i /\ pods[p].original]
<1>2. ASSUME NEW i \in DOMAIN list
      PROVE  /\ new(i) \in Entry
             /\ new(i).last = list[i].last /\ new(i).since = list[i].since
             /\ new(i).verdict = list[i].verdict
  BY <1>1 DEF Entry
<1>3. Marked(list) = [i \in DOMAIN list |-> new(i)]
  BY DEF Marked
<1> QED
  BY <1>1, <1>2, <1>3 DEF IsList, IsPartial
-----------------------------------------------------------------------------
(* The age of the last check of a registry, as the lists tell it. *)

\* A set of ages has a least one.
LEMMA LeastAge ==
    ASSUME NEW ages \in SUBSET (0 .. MaxAge), ages # {}
    PROVE  \E a \in ages : \A b \in ages : a <= b
<1>1. ages \in SUBSET Nat
  BY AgeFacts
<1> DEFINE less == {ss \in Nat \X Nat : ss[1] < ss[2]}
<1>2. IsWellFoundedOn(less, Nat)
  BY NatLessThanWellFounded DEF OpToRel
<1> HIDE DEF less
<1>3. PICK a \in ages : \A b \in ages : ~(<<b, a>> \in less)
  BY <1>1, <1>2, WFMin
<1>4. ASSUME NEW b \in ages PROVE a <= b
  <2>1. a \in Nat /\ b \in Nat
    BY <1>1
  <2>2. ~(b < a)
    BY <1>3, <2>1 DEF less
  <2> QED
    BY <2>1, <2>2
<1> QED
  BY <1>4

\* It is no older than any entry of the registry that was checked.
LEMMA RegistryAgeFacts ==
    ASSUME NEW lists, DOMAIN lists \subseteq Cisas, \A c \in DOMAIN lists : IsList(lists[c]),
           NEW r \in Registries
    PROVE  /\ RegistryAge(lists, r) \in 0 .. MaxAge
           /\ \A c \in DOMAIN lists : \A i \in DOMAIN lists[c] :
                 RegistryOf[i] = r /\ lists[c][i].last # Never
                     => RegistryAge(lists, r) <= lists[c][i].last
<1> DEFINE ages == {lists[ci[1]][ci[2]].last : ci \in Entries(lists, r)} \ {Never}
<1>1. ages \in SUBSET (0 .. MaxAge)
  <2> SUFFICES ASSUME NEW c \in DOMAIN lists, NEW i \in DOMAIN lists[c], lists[c][i].last # Never
               PROVE  lists[c][i].last \in 0 .. MaxAge
    BY DEF Entries
  <2>1. lists[c][i] \in Entry
    BY DEF IsList, IsPartial
  <2>2. lists[c][i].last \in Never .. MaxAge
    BY <2>1 DEF Entry
  <2> QED
    BY <2>2, AgeFacts DEF Never
<1>2. \A c \in DOMAIN lists : \A i \in DOMAIN lists[c] :
          RegistryOf[i] = r /\ lists[c][i].last # Never => lists[c][i].last \in ages
  <2> SUFFICES ASSUME NEW c \in DOMAIN lists, NEW i \in DOMAIN lists[c], RegistryOf[i] = r,
                      lists[c][i].last # Never
               PROVE  lists[c][i].last \in ages
    OBVIOUS
  <2>1. <<c, i>> \in Entries(lists, r)
    BY DEF Entries, IsList, IsPartial
  <2> QED
    BY <2>1
<1>3. CASE ages = {}
  BY <1>2, <1>3, AgeFacts DEF RegistryAge
<1>4. CASE ages # {}
  <2>1. RegistryAge(lists, r) = CHOOSE a \in ages : \A b \in ages : a <= b
    BY <1>4 DEF RegistryAge
  <2> HIDE DEF ages
  <2>2. \E a \in ages : \A b \in ages : a <= b
    BY <1>1, <1>4, LeastAge
  <2>3. RegistryAge(lists, r) \in ages /\ \A b \in ages : RegistryAge(lists, r) <= b
    BY <2>1, <2>2
  <2> QED
    BY <1>1, <1>2, <2>3
<1> QED
  BY <1>3, <1>4
-----------------------------------------------------------------------------
(* Types. *)

\* What the variables of reconcile refer to is there: a check is of an image of
\* one of the lists it has read.
InLists(c, i) == c \in DOMAIN objs /\ i \in DOMAIN objs[c]
Referenced ==
    /\ pc \in {"idle", "patching", "listing"} => DOMAIN cand = {}
    /\ \A r \in DOMAIN cand : InLists(cand[r].cisa, cand[r].image) /\ RegistryOf[cand[r].image] = r
    /\ pc = "recording" => InLists(job.cisa, job.image) /\ RegistryOf[job.image] \notin DOMAIN cand

Typed == TypeOK /\ Referenced

LEMMA EmptyFacts ==
    /\ IsList(<< >>) /\ DOMAIN << >> = {}
    /\ \A S, T : IsPartial(<< >>, S, T)
<1>1. << >> = [x \in {} |-> x]
  OBVIOUS
<1>2. \A T : [x \in {} |-> x] \in [{} -> T]
  OBVIOUS
<1> QED
  BY <1>1, <1>2, EmptyList DEF IsPartial

LEMMA InitTyped == Init => Typed
<1> SUFFICES ASSUME Init PROVE Typed
  OBVIOUS
<1>1. spec \in [Cisas -> SpecSet]
  BY AvailabilityAssumption DEF Init
<1>2. /\ DOMAIN status = Cisas /\ DOMAIN seen = Cisas
      /\ \A c \in Cisas : IsList(status[c]) /\ IsList(seen[c])
  BY AvailabilityAssumption DEF Init
<1>3. /\ IsPartial(pods, Pods, Pod) /\ IsList(mine)
      /\ DOMAIN objs = {} /\ DOMAIN cand = {} /\ DOMAIN backfill = {}
      /\ IsPartial(cand, Registries, [cisa : Cisas, image : Images, age : 0 .. MaxAge])
  BY EmptyFacts DEF Init
<1>4. /\ requeueIn \in [Cisas -> Never .. MaxAge] /\ requeue \in Never .. MaxAge
      /\ sinceCheck \in [Timed -> 0 .. MaxAge] /\ idle \in [Watched -> 0 .. MaxAge]
      /\ faults \in 0 .. MaxFaults
  BY AgeFacts, AvailabilityAssumption DEF Init
<1> QED
  BY <1>1, <1>2, <1>3, <1>4 DEF Init, Typed, TypeOK, Referenced

\* Reconcile has ended.
LEMMA ForgottenTyped ==
    ASSUME Forgotten
    PROVE  /\ pc' = "idle" /\ me' \in Cisas \cup {Nobody}
           /\ IsList(mine') /\ tracking' \in BOOLEAN /\ listed' = {}
           /\ DOMAIN objs' = {} /\ DOMAIN cand' = {}
           /\ IsPartial(cand', Registries, [cisa : Cisas, image : Images, age : 0 .. MaxAge])
           /\ job' = NoJob /\ requeue' \in Never .. MaxAge /\ behind' = {}
BY EmptyFacts, AgeFacts DEF Forgotten

LEMMA FaultTyped ==
    ASSUME TypeOK, NEW kind, Fault(kind) PROVE faults' \in 0 .. MaxFaults
BY AvailabilityAssumption DEF Fault, TypeOK

LEMMA WriteTyped ==
    ASSUME TypeOK, NEW c \in Cisas, NEW old, NEW new, IsList(new), Write(c, old, new)
    PROVE  /\ DOMAIN status' = Cisas /\ \A d \in Cisas : IsList(status'[d])
           /\ DOMAIN seen' = Cisas /\ \A d \in Cisas : IsList(seen'[d])
           /\ outdated' \subseteq Cisas /\ behind' \subseteq Cisas
           /\ status'[c] = new /\ \A d \in Cisas \ {c} : status'[d] = status[d]
<1>1. /\ DOMAIN status' = Cisas /\ \A d \in Cisas : IsList(status'[d])
      /\ status'[c] = new /\ \A d \in Cisas \ {c} : status'[d] = status[d]
  BY DEF Write, TypeOK
<1>2. seen' = seen \/ seen' = status'
  BY DEF Write
<1>3. outdated' \subseteq Cisas /\ behind' \subseteq Cisas
  BY DEF Write, TypeOK
<1> QED
  BY <1>1, <1>2, <1>3 DEF TypeOK

LEMMA OutsideTyped ==
    ASSUME Typed,
           \/ \E c \in Cisas : EditSpec(c) \/ Wake(c)
           \/ \E p \in Pods : AddPod(p) \/ RemovePod(p)
    PROVE  Typed'
<1> USE DEF object, memory, tasks, history
<1>0. /\ UNCHANGED memory => Referenced'
      /\ TypeOK
  BY DEF Typed, Referenced, InLists
<1>1. ASSUME NEW c \in Cisas, EditSpec(c) PROVE Typed'
  BY <1>0, <1>1, AvailabilityAssumption DEF EditSpec, Typed, TypeOK
<1>2. ASSUME NEW c \in Cisas, Wake(c) PROVE Typed'
  BY <1>0, <1>2, AgeFacts DEF Wake, Typed, TypeOK
<1>3. ASSUME NEW p \in Pods, AddPod(p) PROVE Typed'
  <2>1. PICK pod \in PodKinds : /\ pods' = [q \in DOMAIN pods \cup {p} |-> IF q = p THEN pod ELSE pods[q]]
                                /\ queued' = queued \cup Mapped(p, pod)
    BY <1>3 DEF AddPod
  <2>2. IsPartial(pods', Pods, Pod)
    BY <1>0, <2>1, AvailabilityAssumption DEF TypeOK, IsPartial
  <2>3. queued' \subseteq Cisas
    BY <1>0, <2>1 DEF TypeOK, Mapped
  <2> QED
    BY <1>0, <1>3, <2>2, <2>3 DEF AddPod, Typed, TypeOK
<1>4. ASSUME NEW p \in Pods, RemovePod(p) PROVE Typed'
  <2>1. IsPartial(pods', Pods, Pod)
    BY <1>0, <1>4 DEF RemovePod, TypeOK, IsPartial
  <2>2. queued' \subseteq Cisas
    BY <1>0, <1>4 DEF RemovePod, TypeOK, Mapped
  <2> QED
    BY <1>0, <1>4, <2>1, <2>2 DEF RemovePod, Typed, TypeOK
<1> QED
  BY <1>1, <1>2, <1>3, <1>4

LEMMA TickTyped ==
    ASSUME Typed, Tick
    PROVE  Typed'
<1> USE DEF object, tasks
<1>0. TypeOK /\ Referenced
  BY DEF Typed
<1>1. /\ DOMAIN status' = Cisas /\ \A c \in Cisas : IsList(status'[c])
      /\ DOMAIN seen' = Cisas /\ \A c \in Cisas : IsList(seen'[c])
  BY <1>0, AgedFacts DEF Tick, TypeOK
<1>2. /\ DOMAIN objs' = DOMAIN objs
      /\ \A c \in DOMAIN objs : IsList(objs'[c]) /\ DOMAIN objs'[c] = DOMAIN objs[c]
  BY <1>0, AgedFacts DEF Tick, TypeOK
<1>3. /\ DOMAIN cand' = DOMAIN cand
      /\ \A r \in DOMAIN cand : cand'[r].cisa = cand[r].cisa /\ cand'[r].image = cand[r].image
      /\ IsPartial(cand', Registries, [cisa : Cisas, image : Images, age : 0 .. MaxAge])
  <2>1. /\ DOMAIN cand \subseteq Registries
        /\ \A r \in DOMAIN cand : cand[r] \in [cisa : Cisas, image : Images, age : 0 .. MaxAge]
    BY <1>0 DEF TypeOK, IsPartial
  <2>2. \A k \in [cisa : Cisas, image : Images, age : 0 .. MaxAge] :
            /\ [k EXCEPT !.age = Older(@)] \in [cisa : Cisas, image : Images, age : 0 .. MaxAge]
            /\ [k EXCEPT !.age = Older(@)].cisa = k.cisa
            /\ [k EXCEPT !.age = Older(@)].image = k.image
    BY AgeFacts
  <2>3. cand' = [r \in DOMAIN cand |-> [cand[r] EXCEPT !.age = Older(@)]]
    BY DEF Tick
  <2> QED
    BY <2>1, <2>2, <2>3 DEF IsPartial
<1>4. /\ job = NoJob => job' = NoJob
      /\ job \in Job => job' \in Job /\ job'.cisa = job.cisa /\ job'.image = job.image
  <2>1. ASSUME job \in Job
        PROVE  /\ [job EXCEPT !.entry = AgedEntry(@)] \in Job
               /\ [job EXCEPT !.entry = AgedEntry(@)].cisa = job.cisa
               /\ [job EXCEPT !.entry = AgedEntry(@)].image = job.image
    BY <2>1, AgedEntryFacts DEF Job
  <2> QED
    BY <2>1 DEF Tick
<1>5. job' # NoJob <=> job # NoJob
  <2>1. \A j \in Job : j # NoJob
    BY DEF Job, NoJob
  <2> QED
    BY <1>0, <1>4, <2>1 DEF TypeOK
<1>6. requeueIn' \in [Cisas -> Never .. MaxAge]
  BY <1>0, AgeFacts DEF Tick, TypeOK, Sooner, Never
<1>7. sinceCheck' \in [Timed -> 0 .. MaxAge] /\ idle' \in [Watched -> 0 .. MaxAge]
  BY <1>0, AgeFacts DEF Tick, TypeOK
<1>8. TypeOK'
  <2>1. /\ job' \in {NoJob} \cup Job
        /\ pc' = "recording" <=> job' # NoJob
    BY <1>0, <1>4, <1>5 DEF Tick, TypeOK
  <2>2. DOMAIN objs' \subseteq Cisas /\ \A c \in DOMAIN objs' : IsList(objs'[c])
    BY <1>0, <1>2 DEF TypeOK
  <2>3. UNCHANGED <<spec, pods, queued, faults, pc, me, mine, tracking, listed, requeue, backfillDue,
                    backfill, outdated, behind>>
    BY DEF Tick
  <2> QED
    BY <1>0, <1>1, <1>3, <1>6, <1>7, <2>1, <2>2, <2>3 DEF TypeOK
<1>9. Referenced'
  <2>2. \A r \in DOMAIN cand' : InLists(cand[r].cisa, cand[r].image)' /\ RegistryOf[cand'[r].image] = r
    BY <1>0, <1>2, <1>3 DEF Referenced, InLists
  <2>3. pc' = "recording" =>
            InLists(job.cisa, job.image)' /\ RegistryOf[job'.image] \notin DOMAIN cand'
    <3>1. pc' = "recording" => job' # NoJob /\ pc = "recording" /\ job \in Job
      BY <1>0, <1>5 DEF Tick, TypeOK
    <3> QED
      BY <1>0, <1>2, <1>3, <1>4, <3>1 DEF Referenced, InLists
  <2> QED
    BY <1>0, <1>3, <2>2, <2>3 DEF Tick, Referenced
<1> QED
  BY <1>8, <1>9 DEF Typed

LEMMA EndsTyped ==
    ASSUME Typed, Crash \/ Finish
    PROVE  Typed'
<1> USE DEF object, tasks, history, queue
<1>0. TypeOK
  BY DEF Typed
<1>1. Referenced'
  BY ForgottenTyped DEF Crash, Finish, EndAndRequeue, EndAndRequeueAfter, Referenced
<1>2. CASE Crash
  <2>1. requeueIn' \in [Cisas -> Never .. MaxAge] /\ DOMAIN backfill' = {}
    BY <1>2, AgeFacts, EmptyFacts DEF Crash
  <2>2. TypeOK'
    BY <1>0, <1>2, <2>1, ForgottenTyped, FaultTyped DEF Crash, TypeOK
  <2> QED
    BY <1>1, <2>2 DEF Typed
<1>3. CASE Finish
  <2>1. me \in Cisas
    BY <1>0, <1>3 DEF Finish, TypeOK
  <2>2. requeueIn' \in [Cisas -> Never .. MaxAge] /\ queued' \subseteq Cisas
    BY <1>0, <1>3, <2>1 DEF Finish, EndAndRequeue, EndAndRequeueAfter, Earlier, TypeOK
  <2>3. Forgotten
    BY <1>3 DEF Finish, EndAndRequeue, EndAndRequeueAfter
  <2>4. TypeOK'
    BY <1>0, <1>3, <2>2, <2>3, ForgottenTyped DEF Finish, TypeOK
  <2> QED
    BY <1>1, <2>4 DEF Typed
<1> QED
  BY <1>2, <1>3

LEMMA BeginTyped ==
    ASSUME Typed, NEW c \in Cisas, Begin(c)
    PROVE  Typed'
<1> USE DEF object, tasks, history
<1>0. TypeOK /\ Referenced
  BY DEF Typed
<1> DEFINE s == spec[c]
           ps == {pods[p] : p \in s.pods \cap DOMAIN pods}
<1>3. outdated' \subseteq Cisas
  BY <1>0 DEF Begin, TypeOK
<1>1. CASE s.valid = "pods"
  <2>1. UNCHANGED memory
    BY <1>1 DEF Begin
  <2> QED
    BY <1>0, <1>3, <2>1 DEF Begin, Typed, TypeOK, Referenced, InLists, memory
<1>2. CASE s.valid # "pods"
  <2>0. s \in SpecSet /\ ps \in SUBSET Pod /\ IsList(seen[c])
    BY <1>0 DEF TypeOK, IsPartial
  <2>1. PICK marks \in Marks(ps) :
            LET list == IF s.valid = "images" THEN seen[c] ELSE SyncImageList(s, ps, seen[c], marks)
                toPatch == s.valid = "yes" /\ Changed(s, ps, seen[c]) /\ list # seen[c]
            IN /\ pc' = IF toPatch THEN "patching" ELSE "listing"
               /\ mine' = IF toPatch THEN list ELSE << >>
               /\ objs' = IF toPatch THEN [o \in {c} |-> seen[c]] ELSE << >>
               /\ tracking' = (~toPatch /\ list # << >>)
    BY <1>2 DEF Begin
  <2> DEFINE list == IF s.valid = "images" THEN seen[c] ELSE SyncImageList(s, ps, seen[c], marks)
  <2>2. IsList(list)
    BY <2>0, SyncedType
  <2>3. /\ pc' \in {"patching", "listing"} /\ IsList(mine') /\ tracking' \in BOOLEAN
        /\ DOMAIN objs' \subseteq Cisas /\ \A d \in DOMAIN objs' : IsList(objs'[d])
    <3>1. mine' = list \/ mine' = << >>
      BY <2>1
    <3>2. objs' = [o \in {c} |-> seen[c]] \/ objs' = << >>
      BY <2>1
    <3>3. pc' \in {"patching", "listing"} /\ tracking' \in BOOLEAN
      BY <2>1
    <3> QED
      BY <2>0, <2>2, <3>1, <3>2, <3>3, EmptyFacts
  <2>4. /\ me' = c /\ listed' \subseteq Pod /\ pc = "idle"
        /\ UNCHANGED <<cand, job, requeue>> /\ queued' \subseteq Cisas
    BY <1>0, <1>2, <2>0 DEF Begin, TypeOK
  <2>5. TypeOK'
    BY <1>0, <1>3, <2>3, <2>4 DEF Begin, TypeOK
  <2>6. Referenced'
    BY <1>0, <2>3, <2>4 DEF Referenced
  <2> QED
    BY <2>5, <2>6 DEF Typed
<1> QED
  BY <1>1, <1>2

LEMMA PatchTyped ==
    ASSUME Typed, PatchList
    PROVE  Typed'
<1> USE DEF object, tasks, history, queue
<1>0. TypeOK /\ me \in Cisas /\ DOMAIN cand = {} /\ IsList(mine) /\ pc = "patching"
  BY DEF Typed, TypeOK, Referenced, PatchList
<1>1. CASE Write(me, objs[me], mine) /\ pc' = "listing"
  <2>1. /\ mine' = << >> /\ objs' = << >> /\ tracking' \in BOOLEAN
        /\ UNCHANGED <<queue, faults, me, listed, cand, job, requeue, spec, pods, tasks, sinceCheck, idle>>
    BY <1>1 DEF PatchList, EndAndRequeue, Forgotten
  <2>2. TypeOK'
    BY <1>0, <1>1, <2>1, WriteTyped, EmptyFacts DEF TypeOK
  <2> QED
    BY <1>0, <1>1, <2>1, <2>2 DEF Typed, Referenced
<1>2. CASE Fault("patch") /\ EndAndRequeue /\ UNCHANGED <<status, seen, outdated>>
  <2>1. TypeOK'
    BY <1>0, <1>2, ForgottenTyped, FaultTyped DEF PatchList, EndAndRequeue, TypeOK
  <2> QED
    BY <1>2, <2>1, ForgottenTyped DEF Typed, Referenced, EndAndRequeue
<1> QED
  BY <1>1, <1>2, ForgottenTyped DEF PatchList

LEMMA CandidatesTyped ==
    ASSUME Typed, FindCandidates
    PROVE  /\ Typed'
           /\ \A r \in DOMAIN cand' : r \in Registries /\ cand'[r].age = RegistryAge(objs', r)
<1> USE DEF object, tasks, history, queue
<1>0. TypeOK /\ pc = "listing" /\ me \in Cisas
  BY DEF Typed, TypeOK, FindCandidates
<1>1. DOMAIN objs' \subseteq Cisas /\ \A c \in DOMAIN objs' : IsList(objs'[c])
  BY <1>0 DEF FindCandidates, TypeOK
<1> DEFINE found == {r \in Registries : Entries(objs', r) # {}}
<1>2. PICK pick \in [found -> Cisas \X Images] :
          /\ \A r \in found : pick[r] \in MostOverdue(objs', r)
          /\ cand' = [r \in found |-> [cisa |-> pick[r][1], image |-> pick[r][2],
                                       age |-> RegistryAge(objs', r)]]
  BY DEF FindCandidates
<1>3. ASSUME NEW r \in found
      PROVE  /\ pick[r][1] \in DOMAIN objs' /\ pick[r][2] \in DOMAIN objs'[pick[r][1]]
             /\ RegistryOf[pick[r][2]] = r
             /\ pick[r][1] \in Cisas /\ pick[r][2] \in Images
  BY <1>2 DEF MostOverdue, Entries
<1>4. \A r \in found : RegistryAge(objs', r) \in 0 .. MaxAge
  <2> SUFFICES ASSUME NEW r \in found PROVE RegistryAge(objs', r) \in 0 .. MaxAge
    OBVIOUS
  <2>1. PICK lists : lists = objs'
    OBVIOUS
  <2> QED
    BY <1>1, <2>1, RegistryAgeFacts
<1> HIDE DEF found
<1>5. found \subseteq Registries
  BY DEF found
<1>6. /\ DOMAIN cand' = found
      /\ \A r \in found : /\ cand'[r].cisa = pick[r][1] /\ cand'[r].image = pick[r][2]
                          /\ cand'[r].age = RegistryAge(objs', r)
      /\ IsPartial(cand', Registries, [cisa : Cisas, image : Images, age : 0 .. MaxAge])
  BY <1>2, <1>3, <1>4, <1>5 DEF IsPartial
<1>7. /\ pc' = "checking"
      /\ UNCHANGED <<object, pods, queue, faults, me, mine, tracking, listed, job, requeue, tasks,
                   sinceCheck, idle, outdated>>
      /\ behind' \subseteq Cisas
  BY DEF FindCandidates
<1>8. TypeOK'
  BY <1>0, <1>1, <1>6, <1>7 DEF TypeOK
<1>9. Referenced'
  BY <1>3, <1>6, <1>7 DEF Referenced, InLists
<1> QED
  BY <1>5, <1>6, <1>8, <1>9 DEF Typed

\* Registries that are done with leave the candidates.
LEMMA DoneFacts ==
    ASSUME TypeOK, NEW r, Done(r)
    PROVE  /\ IsPartial(cand', Registries, [cisa : Cisas, image : Images, age : 0 .. MaxAge])
           /\ DOMAIN cand' = DOMAIN cand \ {r}
           /\ \A q \in DOMAIN cand' : cand'[q] = cand[q]
BY DEF Done, TypeOK, IsPartial

LEMMA TickFacts ==
    ASSUME NEW r \in Registries PROVE TickOf(r) \in 1 .. MaxAge /\ TickOf(r) \in Never .. MaxAge
BY AvailabilityAssumption DEF Never

LEMMA PostponeTyped ==
    ASSUME Typed, NEW r \in Registries, Postpone(r)
    PROVE  Typed'
<1> USE DEF object, tasks, history, queue
<1>0. TypeOK /\ Referenced
  BY DEF Typed
<1>1. cand[r].age \in 0 .. MaxAge /\ cand[r].age < TickOf(r)
  <2>1. cand[r] \in [cisa : Cisas, image : Images, age : 0 .. MaxAge]
    BY <1>0 DEF Postpone, TypeOK, IsPartial
  <2> QED
    BY <2>1, TickFacts, AgeFacts DEF Postpone, Due
<1>2. requeue' \in Never .. MaxAge
  <2>1. TickOf(r) - cand[r].age \in Never .. MaxAge
    BY <1>1, TickFacts, AgeFacts DEF Never
  <2> QED
    BY <1>0, <2>1 DEF Postpone, Earlier, TypeOK
<1>3. TypeOK'
  BY <1>0, <1>2, DoneFacts DEF Postpone, TypeOK
<1>4. Referenced'
  BY <1>0, DoneFacts DEF Postpone, Referenced, InLists
<1> QED
  BY <1>3, <1>4 DEF Typed

LEMMA ProbeTyped ==
    ASSUME Typed, NEW r \in Registries, Probe(r)
    PROVE  /\ Typed'
           /\ RegistryOf[job'.image] = r
<1> USE DEF object, tasks, history, queue
<1>0. TypeOK /\ Referenced
  BY DEF Typed
<1>1. InLists(cand[r].cisa, cand[r].image) /\ RegistryOf[cand[r].image] = r
  BY <1>0 DEF Probe, Referenced
<1>2. PICK c, i : c = cand[r].cisa /\ i = cand[r].image
  OBVIOUS
<1>3. c \in Cisas /\ i \in Images /\ objs[c][i] \in Entry
  BY <1>0, <1>1, <1>2 DEF InLists, TypeOK, IsList, IsPartial
<1>4. PICK answer \in Answers(i, Credentials(r, i)) :
          job' = [cisa |-> c, image |-> i, unreadable |-> Credentials(r, i) = "error",
                  entry |-> Checked(objs[c][i], Credentials(r, i) = "error", answer)]
  BY <1>2 DEF Probe
<1>5. answer \in Verdicts
  BY DEF Answers, Verdicts
<1>6. Checked(objs[c][i], Credentials(r, i) = "error", answer) \in Entry
  <2>1. "UnavailableSecret" \in Verdicts
    BY DEF Verdicts
  <2> QED
    BY <1>3, <1>5, <2>1, AgeFacts DEF Checked, Entry
<1>7. job' \in Job /\ job'.cisa = c /\ job'.image = i
  BY <1>3, <1>4, <1>6 DEF Job
<1>8. job' # NoJob
  BY <1>7 DEF Job, NoJob
<1>9. sinceCheck' \in [Timed -> 0 .. MaxAge]
  BY <1>0, AgeFacts DEF Probe, TypeOK
<1>10. TypeOK'
  BY <1>0, <1>7, <1>8, <1>9, DoneFacts DEF Probe, TypeOK
<1>11. Referenced'
  <2>1. pc' = "recording" /\ objs' = objs
    BY DEF Probe
  <2>2. DOMAIN cand' = DOMAIN cand \ {r} /\ \A q \in DOMAIN cand' : cand'[q] = cand[q]
    BY <1>0, DoneFacts DEF Probe
  <2>3. InLists(job.cisa, job.image)' /\ RegistryOf[job'.image] \notin DOMAIN cand'
    BY <1>1, <1>2, <1>7, <2>1, <2>2 DEF InLists
  <2>4. \A q \in DOMAIN cand' : InLists(cand[q].cisa, cand[q].image)' /\ RegistryOf[cand'[q].image] = q
    BY <1>0, <2>1, <2>2 DEF Referenced, InLists
  <2> QED
    BY <2>1, <2>3, <2>4 DEF Referenced
<1> QED
  BY <1>1, <1>2, <1>7, <1>10, <1>11 DEF Typed

\* The result of a check goes into a list that stays as it is otherwise.
LEMMA RecordFacts ==
    ASSUME Typed, Record, pc' # "idle"
    PROVE  /\ pc' = "checking" /\ job' = NoJob /\ UNCHANGED <<cand, me, faults, spec, pods, tasks>>
           /\ Write(job.cisa, objs[job.cisa], [objs[job.cisa] EXCEPT ![job.image] = job.entry])
           /\ DOMAIN objs' = DOMAIN objs
           /\ \A c \in DOMAIN objs : /\ DOMAIN objs'[c] = DOMAIN objs[c] /\ IsList(objs'[c])
                                     /\ \A i \in DOMAIN objs[c] :
                                           <<c, i>> # <<job.cisa, job.image>> => objs'[c][i] = objs[c][i]
           /\ objs'[job.cisa] = status'[job.cisa]
           /\ job \in Job /\ IsList([objs[job.cisa] EXCEPT ![job.image] = job.entry])
<1>0. TypeOK /\ Referenced /\ pc = "recording"
  BY DEF Typed, Record
<1>1. job \in Job /\ InLists(job.cisa, job.image)
  BY <1>0 DEF TypeOK, Referenced
<1>2. PICK c, i, e : c = job.cisa /\ i = job.image /\ e = job.entry
  OBVIOUS
<1>3. /\ pc' = "checking" /\ job' = NoJob /\ UNCHANGED <<cand, me, faults, spec, pods, tasks>>
      /\ Write(c, objs[c], [objs[c] EXCEPT ![i] = e])
      /\ objs' = [objs EXCEPT ![c] = status'[c]]
  BY <1>2 DEF Record, EndAndRequeue, Forgotten
<1>4. /\ c \in Cisas /\ i \in Images /\ e \in Entry
      /\ c \in DOMAIN objs /\ i \in DOMAIN objs[c] /\ IsList(objs[c])
  BY <1>0, <1>1, <1>2 DEF Job, InLists, TypeOK
<1>5. PICK new : new = [objs[c] EXCEPT ![i] = e]
  OBVIOUS
<1>6. /\ IsList(new) /\ DOMAIN new = DOMAIN objs[c]
      /\ \A j \in DOMAIN objs[c] : j # i => new[j] = objs[c][j]
  BY <1>4, <1>5, EntryReplaced
<1>7. status'[c] = new
  BY <1>0, <1>3, <1>4, <1>5 DEF Write, TypeOK
<1> QED
  BY <1>0, <1>1, <1>2, <1>3, <1>4, <1>5, <1>6, <1>7 DEF TypeOK

LEMMA RecordTyped ==
    ASSUME Typed, Record
    PROVE  Typed'
<1> USE DEF object, tasks, history, queue
<1>0. TypeOK /\ Referenced /\ me \in Cisas
  BY DEF Typed, TypeOK, Record
<1>1. CASE pc' = "idle"
  <2>1. Fault("patch") /\ EndAndRequeue /\ UNCHANGED <<status, seen, outdated>>
    BY <1>1 DEF Record
  <2>2. TypeOK'
    BY <1>0, <2>1, ForgottenTyped, FaultTyped DEF Record, EndAndRequeue, TypeOK
  <2> QED
    BY <2>1, <2>2, ForgottenTyped DEF Typed, Referenced, EndAndRequeue
<1>2. CASE pc' # "idle"
  <2>1. /\ pc' = "checking" /\ job' = NoJob /\ UNCHANGED <<cand, me, faults, spec, pods, tasks>>
        /\ DOMAIN objs' = DOMAIN objs
        /\ \A c \in DOMAIN objs : DOMAIN objs'[c] = DOMAIN objs[c] /\ IsList(objs'[c])
    BY <1>2, RecordFacts
  <2>2. job \in Job /\ job.cisa \in Cisas /\ job.image \in Images
    BY <1>2, RecordFacts DEF Job
  <2>3. /\ DOMAIN status' = Cisas /\ \A d \in Cisas : IsList(status'[d])
        /\ DOMAIN seen' = Cisas /\ \A d \in Cisas : IsList(seen'[d])
        /\ outdated' \subseteq Cisas /\ behind' \subseteq Cisas
    <3>1. PICK c, old, new : c = job.cisa /\ old = objs[c] /\ new = [objs[c] EXCEPT ![job.image] = job.entry]
      OBVIOUS
    <3>2. Write(c, old, new) /\ IsList(new)
      BY <1>2, <3>1, RecordFacts
    <3> QED
      BY <1>0, <2>2, <3>1, <3>2, WriteTyped
  <2>4. requeue' \in Never .. MaxAge
    <3>1. requeue' = Earlier(requeue, TickOf(RegistryOf[job.image]))
      BY <1>2 DEF Record, EndAndRequeue, Forgotten
    <3>2. RegistryOf[job.image] \in Registries
      BY <2>2, AvailabilityAssumption
    <3> QED
      BY <1>0, <3>1, <3>2, TickFacts DEF Earlier, TypeOK
  <2>5. UNCHANGED <<queue, mine, tracking, listed, sinceCheck, idle>>
    BY <1>2 DEF Record, EndAndRequeue, Forgotten
  <2>6. TypeOK'
    BY <1>0, <2>1, <2>3, <2>4, <2>5 DEF TypeOK
  <2>7. Referenced'
    BY <1>0, <2>1 DEF Referenced, InLists
  <2> QED
    BY <2>6, <2>7 DEF Typed
<1> QED
  BY <1>1, <1>2

LEMMA BackfillTyped ==
    ASSUME Typed, BackfillList \/ \E c \in Cisas : BackfillPatch(c)
    PROVE  Typed'
<1> USE DEF object, tasks, history, queue
<1>0. TypeOK
  BY DEF Typed
<1>1. CASE BackfillList
  <2>1. /\ DOMAIN backfill' \subseteq Cisas
        /\ \A c \in DOMAIN backfill' :
              /\ backfill'[c] = [old |-> seen[c], new |-> Marked(seen[c])]
              /\ IsList(seen[c]) /\ IsList(Marked(seen[c]))
    BY <1>0, <1>1, MarkedType DEF BackfillList, TypeOK
  <2>2. TypeOK'
    BY <1>0, <1>1, <2>1 DEF BackfillList, memory, TypeOK
  <2> QED
    BY <1>1, <2>2 DEF BackfillList, memory, Typed, Referenced, InLists
<1>2. ASSUME NEW c \in Cisas, BackfillPatch(c) PROVE Typed'
  <2>1. IsList(backfill[c].new) /\ c \in DOMAIN backfill
    BY <1>0, <1>2 DEF BackfillPatch, TypeOK
  <2>2. /\ DOMAIN status' = Cisas /\ \A d \in Cisas : IsList(status'[d])
        /\ DOMAIN seen' = Cisas /\ \A d \in Cisas : IsList(seen'[d])
        /\ outdated' \subseteq Cisas /\ behind' \subseteq Cisas
    <3>1. CASE Write(c, backfill[c].old, backfill[c].new)
      <4>1. PICK old, new : old = backfill[c].old /\ new = backfill[c].new
        OBVIOUS
      <4>2. Write(c, old, new) /\ IsList(new)
        BY <2>1, <3>1, <4>1
      <4> QED
        BY <1>0, <4>2, WriteTyped
    <3> QED
      BY <1>0, <1>2, <3>1 DEF BackfillPatch, TypeOK
  <2>3. faults' \in 0 .. MaxFaults
    BY <1>0, <1>2, FaultTyped DEF BackfillPatch, TypeOK
  <2>4. /\ DOMAIN backfill' \subseteq Cisas
        /\ \A d \in DOMAIN backfill' : d \in DOMAIN backfill /\ backfill'[d] = backfill[d]
    BY <1>0, <1>2 DEF BackfillPatch, TypeOK
  <2>5. TypeOK'
    BY <1>0, <1>2, <2>2, <2>3, <2>4 DEF BackfillPatch, memory, TypeOK
  <2> QED
    BY <1>2, <2>5 DEF BackfillPatch, memory, Typed, Referenced, InLists
<1> QED
  BY <1>1, <1>2

LEMMA TypedStep == Typed /\ [Next]_vars => Typed'
<1> SUFFICES ASSUME Typed, [Next]_vars PROVE Typed'
  OBVIOUS
<1>1. CASE Users \/ \E c \in Cisas : Wake(c)
  BY <1>1, OutsideTyped DEF Users
<1>2. CASE Work
  BY <1>2, PatchTyped, CandidatesTyped, RecordTyped, EndsTyped, PostponeTyped, ProbeTyped DEF Work
<1>3. CASE Backfill
  BY <1>3, BackfillTyped DEF Backfill
<1>4. CASE UNCHANGED vars
  BY <1>4 DEF vars, object, queue, memory, tasks, history, Typed, TypeOK, Referenced, InLists
<1> QED
  BY <1>1, <1>2, <1>3, <1>4, TickTyped, EndsTyped, BeginTyped DEF Next, Act

\* The variables of every reachable state have their types: whatever is edited,
\* fails, restarts or lags, a check is only made and recorded of an image that
\* is on one of the lists reconcile has read.
THEOREM TypeCorrect == Spec => []TypeOK
<1>1. Typed => TypeOK
  BY DEF Typed
<1> QED
  BY <1>1, InitTyped, TypedStep, PTL DEF Spec
-----------------------------------------------------------------------------
(* The rate of the checks. *)

\* What the backfill writes has the dates that it has read.
SameDates(l, k) == DOMAIN l = DOMAIN k /\ \A i \in DOMAIN l : l[i].last = k[i].last
BackfillInv == \A c \in DOMAIN backfill : SameDates(backfill[c].new, backfill[c].old)

\* While registries are checked, reconcile holds the dates of the API server,
\* but for lists that its cache was behind with or that went back since,
DatesInv == pc \in {"checking", "recording"} =>
                \A c \in DOMAIN objs \ behind : SameDates(status[c], objs[c])

\* and knows no check of a registry it has not treated that is later than the one
\* it goes by.
LatestInv == \A r \in DOMAIN cand, c \in DOMAIN objs : \A i \in DOMAIN objs[c] :
                 RegistryOf[i] = r /\ objs[c][i].last # Never => cand[r].age <= objs[c][i].last

RateInv == Typed /\ BackfillInv /\ DatesInv /\ LatestInv

LEMMA RateInit == Init => RateInv
BY InitTyped, EmptyFacts DEF Init, RateInv, BackfillInv, DatesInv, LatestInv

LEMMA BackfillStep ==
    ASSUME TypeOK, BackfillInv, [Next]_vars
    PROVE  BackfillInv'
<1>1. CASE backfill' = backfill
  BY <1>1 DEF BackfillInv
<1>2. CASE BackfillList
  <2>1. \A c \in DOMAIN backfill' :
           /\ c \in Cisas
           /\ backfill'[c] = [old |-> seen[c], new |-> Marked(seen[c])]
    BY <1>2 DEF BackfillList
  <2>2. \A c \in Cisas : SameDates(Marked(seen[c]), seen[c])
    BY MarkedType DEF TypeOK, SameDates
  <2> QED
    BY <2>1, <2>2 DEF BackfillInv
<1>3. ASSUME NEW c \in Cisas, BackfillPatch(c) PROVE BackfillInv'
  BY <1>3 DEF BackfillPatch, BackfillInv
<1>4. CASE Crash
  BY <1>4, EmptyFacts DEF Crash, BackfillInv
<1> QED
  BY <1>1, <1>2, <1>3, <1>4 DEF Next, Act, Users, Backfill, Work, EditSpec, AddPod, RemovePod, Tick,
     Wake, Begin, PatchList, FindCandidates, Postpone, Probe, Record, Finish, vars, tasks

\* Steps that leave the lists, those reconcile has read and its candidates alone.
LEMMA RestKeepsDates ==
    ASSUME DatesInv, LatestInv, UNCHANGED <<status, objs, behind, cand>>,
           pc' \in {"checking", "recording"} => pc \in {"checking", "recording"}
    PROVE  DatesInv' /\ LatestInv'
BY DEF DatesInv, LatestInv, SameDates

LEMMA IdleKeepsDates ==
    ASSUME pc' \notin {"checking", "recording"}, DOMAIN cand' = {}
    PROVE  DatesInv' /\ LatestInv'
BY DEF DatesInv, LatestInv

LEMMA TickKeepsDates ==
    ASSUME RateInv, Tick
    PROVE  DatesInv' /\ LatestInv'
<1>0. TypeOK /\ DatesInv /\ LatestInv
  BY DEF RateInv, Typed
<1>1. ASSUME NEW c \in DOMAIN objs
      PROVE  /\ DOMAIN objs'[c] = DOMAIN objs[c]
             /\ \A i \in DOMAIN objs[c] : /\ objs'[c][i].last = Older(objs[c][i].last)
                                          /\ objs[c][i].last \in Never .. MaxAge
  <2>1. IsList(objs[c]) /\ objs'[c] = Aged(objs[c])
    BY <1>0 DEF Tick, TypeOK
  <2>2. \A i \in DOMAIN objs[c] : objs[c][i] \in Entry
    BY <2>1 DEF IsList, IsPartial
  <2>3. \A i \in DOMAIN objs[c] : objs[c][i].last \in Never .. MaxAge
    BY <2>2 DEF Entry
  <2> QED
    BY <2>1, <2>2, <2>3, AgedFacts, AgedEntryFacts
<1>2. ASSUME NEW c \in Cisas
      PROVE  /\ DOMAIN status'[c] = DOMAIN status[c]
             /\ \A i \in DOMAIN status[c] : status'[c][i].last = Older(status[c][i].last)
  <2>1. IsList(status[c]) /\ status'[c] = Aged(status[c])
    BY <1>0 DEF Tick, TypeOK
  <2>2. \A i \in DOMAIN status[c] : status[c][i] \in Entry
    BY <2>1 DEF IsList, IsPartial
  <2> QED
    BY <2>1, <2>2, AgedFacts, AgedEntryFacts
<1>3. DatesInv'
  <2>1. DOMAIN objs' = DOMAIN objs /\ DOMAIN objs \subseteq Cisas /\ pc' = pc /\ behind' = behind
    BY <1>0 DEF Tick, TypeOK
  <2> QED
    BY <1>0, <1>1, <1>2, <2>1 DEF DatesInv, SameDates
<1>4. LatestInv'
  <2> SUFFICES ASSUME NEW r \in DOMAIN cand, NEW c \in DOMAIN objs, NEW i \in DOMAIN objs[c],
                      RegistryOf[i] = r, objs'[c][i].last # Never
               PROVE  cand'[r].age <= objs'[c][i].last
    BY <1>1 DEF Tick, LatestInv
  <2>1. cand[r] \in [cisa : Cisas, image : Images, age : 0 .. MaxAge]
    BY <1>0 DEF TypeOK, IsPartial
  <2>2. cand[r].age \in 0 .. MaxAge /\ cand'[r].age = Older(cand[r].age)
    BY <2>1 DEF Tick
  <2>3. objs'[c][i].last = Older(objs[c][i].last) /\ objs[c][i].last \in Never .. MaxAge
    BY <1>1
  <2>4. objs[c][i].last # Never
    BY <2>3, AgeFacts
  <2>5. objs[c][i].last \in 0 .. MaxAge
    BY <2>3, <2>4, AgeFacts DEF Never
  <2>6. cand[r].age <= objs[c][i].last
    BY <1>0, <2>4 DEF LatestInv
  <2> QED
    BY <2>2, <2>3, <2>5, <2>6, AgeFacts
<1> QED
  BY <1>3, <1>4

LEMMA CandidatesKeepDates ==
    ASSUME RateInv, FindCandidates
    PROVE  DatesInv' /\ LatestInv'
<1>0. TypeOK
  BY DEF RateInv, Typed
<1>1. /\ objs' = [c \in {d \in Cisas : spec[d].valid = "yes"} |-> seen[c]] /\ status' = status
      /\ \A c \in Cisas \ behind' : seen[c] = status[c]
  BY DEF FindCandidates, object
<1>2. DatesInv'
  BY <1>1 DEF DatesInv, SameDates
<1>3. \A r \in DOMAIN cand' : r \in Registries /\ cand'[r].age = RegistryAge(objs', r)
  BY CandidatesTyped DEF RateInv
<1>4. DOMAIN objs' \subseteq Cisas /\ \A c \in DOMAIN objs' : IsList(objs'[c])
  BY <1>0, <1>1 DEF TypeOK
<1>5. LatestInv'
  <2>1. PICK lists : lists = objs'
    OBVIOUS
  <2>2. \A r \in DOMAIN cand', c \in DOMAIN lists : \A i \in DOMAIN lists[c] :
            RegistryOf[i] = r /\ lists[c][i].last # Never => cand'[r].age <= lists[c][i].last
    BY <1>3, <1>4, <2>1, RegistryAgeFacts
  <2> QED
    BY <2>1, <2>2 DEF LatestInv
<1> QED
  BY <1>2, <1>5

LEMMA ChecksKeepDates ==
    ASSUME RateInv, \E r \in Registries : Postpone(r) \/ Probe(r)
    PROVE  DatesInv' /\ LatestInv'
<1>0. TypeOK /\ DatesInv /\ LatestInv
  BY DEF RateInv, Typed
<1>1. PICK r \in Registries : Postpone(r) \/ Probe(r)
  OBVIOUS
<1>2. /\ UNCHANGED <<status, objs, behind>> /\ pc = "checking"
      /\ DOMAIN cand' = DOMAIN cand \ {r} /\ \A q \in DOMAIN cand' : cand'[q] = cand[q]
  BY <1>0, <1>1, DoneFacts DEF Postpone, Probe, object, history
<1> QED
  BY <1>0, <1>2 DEF DatesInv, LatestInv, SameDates

\* The result of a check is recorded in both, and its registry is done with.
LEMMA RecordKeepsDates ==
    ASSUME RateInv, Record
    PROVE  DatesInv' /\ LatestInv'
<1>0. TypeOK /\ Typed /\ Referenced /\ DatesInv /\ LatestInv /\ pc = "recording"
  BY DEF RateInv, Typed, Record
<1>1. CASE pc' = "idle"
  BY <1>1, ForgottenTyped, IdleKeepsDates DEF Record, EndAndRequeue
<1>2. CASE pc' # "idle"
  <2>1. PICK c, i, old, new : /\ c = job.cisa /\ i = job.image /\ old = objs[c]
                              /\ new = [objs[c] EXCEPT ![i] = job.entry]
    OBVIOUS
  <2>2. /\ UNCHANGED cand /\ Write(c, old, new) /\ IsList(new) /\ objs'[c] = status'[c]
        /\ DOMAIN objs' = DOMAIN objs /\ c \in Cisas
        /\ \A d \in DOMAIN objs : /\ DOMAIN objs'[d] = DOMAIN objs[d]
                                  /\ \A j \in DOMAIN objs[d] : <<d, j>> # <<c, i>> => objs'[d][j] = objs[d][j]
    BY <1>0, <1>2, <2>1, RecordFacts DEF Job
  <2>3. \A d \in DOMAIN objs \ {c} : d \in Cisas /\ status'[d] = status[d] /\ objs'[d] = objs[d]
    <3>1. \A d \in Cisas \ {c} : status'[d] = status[d]
      BY <1>0, <2>2, WriteTyped
    <3>2. objs' = [objs EXCEPT ![c] = status'[c]]
      BY <1>2, <2>1 DEF Record, EndAndRequeue, Forgotten
    <3> QED
      BY <1>0, <3>1, <3>2 DEF TypeOK
  <2>4. behind \subseteq behind'
    BY <2>2 DEF Write
  <2>5. DatesInv'
    BY <1>0, <2>2, <2>3, <2>4 DEF DatesInv, SameDates
  <2>6. RegistryOf[i] \notin DOMAIN cand
    BY <1>0, <2>1 DEF Referenced
  <2>7. LatestInv'
    BY <1>0, <2>2, <2>6 DEF LatestInv
  <2> QED
    BY <2>5, <2>7
<1> QED
  BY <1>1, <1>2

\* The backfill keeps the dates of a list, or takes it back to an earlier state.
LEMMA BackfillKeepsDates ==
    ASSUME RateInv, NEW c \in Cisas, BackfillPatch(c)
    PROVE  DatesInv' /\ LatestInv'
<1>0. TypeOK /\ DatesInv /\ LatestInv /\ BackfillInv
  BY DEF RateInv, Typed
<1>1. UNCHANGED <<objs, cand, pc>>
  BY DEF BackfillPatch, memory
<1>2. CASE UNCHANGED <<status, behind>>
  BY <1>0, <1>1, <1>2, RestKeepsDates
<1>3. CASE Write(c, backfill[c].old, backfill[c].new)
  <2>1. PICK old, new : old = backfill[c].old /\ new = backfill[c].new
    OBVIOUS
  <2>2. Write(c, old, new) /\ IsList(new) /\ SameDates(new, old)
    BY <1>0, <1>3, <2>1 DEF BackfillPatch, BackfillInv, TypeOK
  <2>3. status'[c] = new /\ \A d \in Cisas \ {c} : status'[d] = status[d]
    BY <1>0, <2>2, WriteTyped
  <2>4. behind \subseteq behind' /\ (c \notin behind' => status[c] = old)
    BY <2>2 DEF Write
  <2>5. DatesInv'
    <3> SUFFICES ASSUME pc \in {"checking", "recording"}, NEW d \in DOMAIN objs \ behind'
                 PROVE  SameDates(status'[d], objs[d])
      BY <1>1 DEF DatesInv
    <3>1. d \in Cisas /\ SameDates(status[d], objs[d])
      BY <1>0, <2>4 DEF DatesInv, TypeOK
    <3>2. CASE d = c
      BY <2>2, <2>3, <2>4, <3>1, <3>2 DEF SameDates
    <3>3. CASE d # c
      BY <2>3, <3>1, <3>3
    <3> QED
      BY <3>2, <3>3
  <2> QED
    BY <1>0, <1>1, <2>5 DEF LatestInv
<1> QED
  BY <1>2, <1>3 DEF BackfillPatch

LEMMA DatesStep ==
    ASSUME RateInv, [Next]_vars
    PROVE  DatesInv' /\ LatestInv'
<1>0. Typed /\ TypeOK /\ Referenced /\ DatesInv /\ LatestInv
  BY DEF RateInv, Typed
<1>1. CASE Users \/ BackfillList \/ (\E c \in Cisas : Wake(c)) \/ UNCHANGED vars
  <2>1. UNCHANGED <<status, objs, behind, cand, pc>>
    BY <1>1 DEF Users, EditSpec, AddPod, RemovePod, BackfillList, Wake, vars, object, memory, history
  <2> QED
    BY <1>0, <2>1, RestKeepsDates
<1>2. ASSUME NEW c \in Cisas, Begin(c) PROVE DatesInv' /\ LatestInv'
  <2>1. pc = "idle" /\ cand' = cand /\ pc' \notin {"checking", "recording"}
    BY <1>2 DEF Begin, memory
  <2> QED
    BY <1>0, <2>1, IdleKeepsDates DEF Referenced
<1>3. CASE PatchList
  <2>1. pc = "patching" /\ ((pc' = "listing" /\ cand' = cand) \/ Forgotten)
    BY <1>3 DEF PatchList, EndAndRequeue
  <2> QED
    BY <1>0, <2>1, ForgottenTyped, IdleKeepsDates DEF Referenced
<1>4. CASE Finish \/ Crash
  BY <1>4, ForgottenTyped, IdleKeepsDates DEF Finish, Crash, EndAndRequeue, EndAndRequeueAfter
<1> QED
  BY <1>1, <1>2, <1>3, <1>4, TickKeepsDates, CandidatesKeepDates, ChecksKeepDates, RecordKeepsDates,
     BackfillKeepsDates DEF Next, Act, Work, Backfill

\* A check that is due by what reconcile holds is due by what the API server
\* remembers.
LEMMA ProbeIsDue ==
    ASSUME RateInv, NEW r \in Timed, pc = "checking", sinceCheck[r] < TickOf(r), Remembered(r),
           [Next]_vars
    PROVE  ~(pc' = "recording" /\ RegistryOf[job'.image] = r)
<1>0. Typed /\ TypeOK /\ DatesInv /\ LatestInv
  BY DEF RateInv, Typed
<1> SUFFICES ASSUME pc' = "recording", RegistryOf[job'.image] = r PROVE FALSE
  OBVIOUS
<1>1. PICK q \in Registries : Probe(q)
  <2>1. ~Forgotten
    BY DEF Forgotten
  <2> QED
    BY <2>1 DEF Next, Act, Users, Backfill, Work, EditSpec, AddPod, RemovePod, Tick, Wake, Begin, Crash,
       PatchList, FindCandidates, Postpone, Record, Finish, EndAndRequeue, EndAndRequeueAfter,
       BackfillList, BackfillPatch, vars, memory
<1>2. Probe(r) /\ r \in Registries
  BY <1>0, <1>1, ProbeTyped
<1>3. PICK ci \in Entries([c \in DOMAIN objs \ behind |-> status[c]], r) :
          status[ci[1]][ci[2]].last = sinceCheck[r]
  BY DEF Remembered
<1>4. PICK c, i : c = ci[1] /\ i = ci[2]
  OBVIOUS
<1>5. /\ c \in DOMAIN objs \ behind /\ i \in DOMAIN status[c] /\ RegistryOf[i] = r
      /\ status[c][i].last = sinceCheck[r]
  BY <1>3, <1>4 DEF Entries
<1>6. i \in DOMAIN objs[c] /\ objs[c][i].last = sinceCheck[r]
  BY <1>0, <1>5 DEF DatesInv, SameDates
<1>7. sinceCheck[r] \in 0 .. MaxAge
  BY <1>0 DEF TypeOK
<1>8. cand[r].age <= sinceCheck[r]
  BY <1>0, <1>2, <1>5, <1>6, <1>7 DEF LatestInv, Probe, Never
<1>9. cand[r].age \in 0 .. MaxAge
  <2>1. cand[r] \in [cisa : Cisas, image : Images, age : 0 .. MaxAge]
    BY <1>0, <1>2 DEF Probe, TypeOK, IsPartial
  <2> QED
    BY <2>1
<1>10. cand[r].age >= TickOf(r) /\ TickOf(r) \in 1 .. MaxAge
  BY <1>2, TickFacts DEF Probe, Due
<1> QED
  BY <1>7, <1>8, <1>9, <1>10, AgeFacts

\* No registry is asked again before a tick has passed since it was last asked, by
\* whichever object and about whichever image, as long as the API server has the
\* date of that check in a list that reconcile has read as it was, and that did not
\* go back since: for every number of objects, images and registries, all periods,
\* caches that lag, and whatever is edited, fails or restarts in between.
THEOREM RegistriesAreSpared == Spec => RegistryIsSpared
<1>1. RateInv /\ [Next]_vars => RateInv'
  <2> SUFFICES ASSUME RateInv, [Next]_vars PROVE RateInv'
    OBVIOUS
  <2>1. Typed /\ TypeOK /\ BackfillInv
    BY DEF RateInv, Typed
  <2>2. Typed' /\ BackfillInv'
    BY <2>1, TypedStep, BackfillStep
  <2>3. DatesInv' /\ LatestInv'
    BY DatesStep
  <2> QED
    BY <2>2, <2>3 DEF RateInv
<1>2. RateInv /\ [Next]_vars
      => [\A r \in Timed : Asks(r) /\ Remembered(r) => sinceCheck[r] >= TickOf(r)]_vars
  <2> SUFFICES ASSUME RateInv, [Next]_vars, NEW r \in Timed, Asks(r), Remembered(r)
               PROVE  sinceCheck[r] >= TickOf(r)
    OBVIOUS
  <2>1. ~(sinceCheck[r] < TickOf(r))
    BY ProbeIsDue DEF Asks
  <2>2. r \in Registries /\ sinceCheck[r] \in 0 .. MaxAge
    BY AvailabilityAssumption DEF RateInv, Typed, TypeOK
  <2> QED
    BY <2>1, <2>2, TickFacts, AgeFacts
<1> QED
  BY <1>1, <1>2, RateInit, PTL DEF Spec, RegistryIsSpared
-----------------------------------------------------------------------------
(* The expiry of images that nobody uses. *)

\* The date of a check that is still to be made never comes up.
SaneInv ==
    /\ \A c \in Cisas : AllSane(status[c]) /\ AllSane(seen[c])
    /\ \A c \in DOMAIN objs : AllSane(objs[c])
    /\ AllSane(mine)
    /\ job # NoJob => Sane(job.entry)
    /\ \A c \in DOMAIN backfill : AllSane(backfill[c].new)

\* Only the patch of reconcile's own list changes what is in use, since when: an
\* image is in use, or no longer in use from now on, or marked, or as before.
SameUse(l, k) == DOMAIN l = DOMAIN k /\ \A i \in DOMAIN l : l[i].since = k[i].since
BackfillUse == \A c \in DOMAIN backfill : SameUse(backfill[c].new, backfill[c].old)
JobUse == pc = "recording" => job.entry.since = objs[job.cisa][job.image].since
UseFrom(l, k) == \A i \in DOMAIN l : \/ l[i].since \in {InUse, 0, Marker}
                                     \/ i \in DOMAIN k /\ l[i].since = k[i].since
MineUse == pc = "patching" => me \in DOMAIN objs /\ UseFrom(mine, objs[me])

\* An object that needs no reconcile has the images in use as such, and those that
\* its filter does not select marked; unless an outdated list was read or written.
Running(c) == {pods[p] : p \in spec[c].pods \cap DOMAIN pods}
Fits(s, ps, l) == \A i \in DOMAIN l : /\ i \in Used(s, ps) => l[i].since = InUse
                                      /\ i \notin s.images => l[i].since = Marker
Settled(c, l) == Fits(spec[c], Running(c), l)
AtRest(c) == /\ c \notin queued /\ c \notin outdated /\ spec[c].valid = "yes"
             /\ ~(pc = "patching" /\ me = c)
RestInv == \A c \in Cisas : AtRest(c) => Settled(c, status[c])
MineFits == pc = "patching" /\ me \notin queued /\ spec[me].valid = "yes" => Settled(me, mine)

\* The date of disuse is never before the last use.
IdleInv == \A w \in Watched :
    w[1] \notin outdated /\ w[2] \in DOMAIN status[w[1]]
        /\ status[w[1]][w[2]].since \notin {InUse, Marker}
    => status[w[1]][w[2]].since <= idle[w]

ExpiryInv == /\ Typed /\ SaneInv
             /\ BackfillUse /\ JobUse /\ MineUse
             /\ RestInv /\ MineFits /\ IdleInv

LEMMA ExpiryInit == Init => ExpiryInv
<1> SUFFICES ASSUME Init PROVE ExpiryInv
  OBVIOUS
<1>1. Typed /\ TypeOK
  BY InitTyped DEF Typed
<1>2. /\ DOMAIN objs = {} /\ DOMAIN mine = {} /\ DOMAIN backfill = {}
      /\ job = NoJob /\ pc = "idle" /\ queued = Cisas
  BY EmptyFacts DEF Init
<1>3. SaneInv
  <2>1. \A c \in Cisas : AllSane(status[c]) /\ seen[c] = status[c]
    BY AvailabilityAssumption DEF Init
  <2> QED
    BY <1>2, <2>1 DEF SaneInv, AllSane
<1>4. IdleInv
  <2> SUFFICES ASSUME NEW w \in Watched, w[2] \in DOMAIN status[w[1]],
                      status[w[1]][w[2]].since \notin {InUse, Marker}
               PROVE  status[w[1]][w[2]].since <= idle[w]
    BY DEF IdleInv
  <2>1. w[1] \in Cisas
    BY AvailabilityAssumption
  <2>2. status[w[1]][w[2]] \in Entry
    BY <1>1, <2>1 DEF TypeOK, IsList, IsPartial
  <2>3. status[w[1]][w[2]].since \in InUse .. Marker
    BY <2>2 DEF Entry
  <2>4. idle[w] = MaxAge
    BY DEF Init
  <2> QED
    BY <2>3, <2>4, AgeFacts DEF Marker, InUse
<1> QED
  BY <1>1, <1>2, <1>3, <1>4 DEF ExpiryInv, BackfillUse, JobUse, MineUse, RestInv, AtRest, MineFits

(* What reconcile makes of a list. *)

LEMMA SyncedFacts ==
    ASSUME NEW s \in SpecSet, NEW ps \in SUBSET Pod,
           NEW list, IsList(list), AllSane(list), NEW marks \in Marks(ps),
           NEW new, new = SyncImageList(s, ps, list, marks)
    PROVE  /\ AllSane(new) /\ Fits(s, ps, new) /\ UseFrom(new, list)
<1>0. DOMAIN new = Kept(s, ps, list) \cup Used(s, ps)
  BY DEF SyncImageList
<1>1. ASSUME NEW i \in DOMAIN new
      PROVE  /\ i \in DOMAIN list => new[i] = [list[i] EXCEPT !.since = UnusedSince(s, ps, i, list[i])]
             /\ i \notin DOMAIN list =>
                   new[i] = [since |-> InUse, verdict |-> "Scheduled", last |-> Never, original |-> marks[i]]
  BY <1>0 DEF SyncImageList
<1>2. \A e \in Entry : \A a : /\ [e EXCEPT !.since = a].since = a
                              /\ [e EXCEPT !.since = a].verdict = e.verdict
                              /\ [e EXCEPT !.since = a].last = e.last
  BY DEF Entry
<1>4. ASSUME NEW i \in DOMAIN new
      PROVE  /\ Sane(new[i])
             /\ i \in Used(s, ps) => new[i].since = InUse
             /\ i \notin s.images => new[i].since = Marker
             /\ \/ new[i].since \in {InUse, 0, Marker}
                \/ i \in DOMAIN list /\ new[i].since = list[i].since
  <2>1. CASE i \in DOMAIN list
    <3>1. list[i] \in Entry /\ Sane(list[i])
      BY <2>1 DEF IsList, IsPartial, AllSane
    <3>2. /\ new[i].since = UnusedSince(s, ps, i, list[i])
          /\ new[i].verdict = list[i].verdict /\ new[i].last = list[i].last
      <4>1. PICK e, a : e = list[i] /\ a = UnusedSince(s, ps, i, list[i])
        OBVIOUS
      <4>2. new[i] = [e EXCEPT !.since = a] /\ e \in Entry
        BY <1>1, <2>1, <3>1, <4>1
      <4> QED
        BY <1>2, <4>1, <4>2
    <3>3. i \in Used(s, ps) => i \in s.images
      BY DEF Used
    <3> QED
      BY <2>1, <3>1, <3>2, <3>3 DEF Sane, UnusedSince
  <2>2. CASE i \notin DOMAIN list
    <3>1. i \in Used(s, ps)
      BY <1>0, <2>2 DEF Kept
    <3>2. new[i].since = InUse /\ new[i].last = Never
      BY <1>1, <2>2
    <3> QED
      BY <3>1, <3>2 DEF Sane, Used
  <2> QED
    BY <2>1, <2>2
<1>5. AllSane(new)
  BY <1>4 DEF AllSane
<1>6. Fits(s, ps, new)
  BY <1>4 DEF Fits
<1>7. UseFrom(new, list)
  BY <1>4 DEF UseFrom
<1> QED
  BY <1>5, <1>6, <1>7

LEMMA SyncedSane ==
    ASSUME NEW s \in SpecSet, NEW ps \in SUBSET Pod,
           NEW list, IsList(list), AllSane(list), NEW marks \in Marks(ps)
    PROVE  AllSane(SyncImageList(s, ps, list, marks))
<1>1. \A new : new = SyncImageList(s, ps, list, marks) => AllSane(new)
  BY SyncedFacts
<1> QED
  BY <1>1

LEMMA SyncedFits ==
    ASSUME NEW s \in SpecSet, NEW ps \in SUBSET Pod,
           NEW list, IsList(list), AllSane(list), NEW marks \in Marks(ps)
    PROVE  Fits(s, ps, SyncImageList(s, ps, list, marks))
<1>1. \A new : new = SyncImageList(s, ps, list, marks) => Fits(s, ps, new)
  BY SyncedFacts
<1> QED
  BY <1>1

LEMMA SyncedUse ==
    ASSUME NEW s \in SpecSet, NEW ps \in SUBSET Pod,
           NEW list, IsList(list), AllSane(list), NEW marks \in Marks(ps)
    PROVE  UseFrom(SyncImageList(s, ps, list, marks), list)
<1>1. \A new : new = SyncImageList(s, ps, list, marks) => UseFrom(new, list)
  BY SyncedFacts
<1> QED
  BY <1>1

\* A list that need not be patched fits.
LEMMA UnchangedFits ==
    ASSUME NEW s \in SpecSet, NEW ps \in SUBSET Pod,
           NEW list, IsList(list), AllSane(list), ~Changed(s, ps, list)
    PROVE  Fits(s, ps, list)
<1>1. \A i \in DOMAIN list : UnusedSince(s, ps, i, list[i]) = list[i].since
  BY DEF Changed
<1>2. \A i \in Used(s, ps) : i \in s.images
  BY DEF Used
<1> QED
  BY <1>1, <1>2 DEF UnusedSince, Fits

(* Steps. *)

\* A patch that leaves the use of the images as it was, or takes the list back.
LEMMA SameUsePatch ==
    ASSUME TypeOK, NEW c \in Cisas, NEW old, NEW new, IsList(new), SameUse(new, old),
           Write(c, old, new), UNCHANGED <<spec, pods, queued, idle>>, RestInv, IdleInv,
           \A d \in Cisas : AtRest(d)' => AtRest(d)
    PROVE  RestInv' /\ IdleInv'
<1>1. /\ status'[c] = new /\ \A d \in Cisas \ {c} : status'[d] = status[d]
      /\ outdated \subseteq outdated' /\ (c \notin outdated' => status[c] = old)
  BY WriteTyped DEF Write
<1>2. \A d \in Cisas \ outdated' : SameUse(status'[d], status[d])
  BY <1>1 DEF SameUse
<1>3. RestInv'
  <2> SUFFICES ASSUME NEW d \in Cisas, AtRest(d)' PROVE Settled(d, status[d])'
    BY DEF RestInv
  <2>1. Settled(d, status[d]) /\ SameUse(status'[d], status[d])
    BY <1>2 DEF RestInv, AtRest
  <2> QED
    BY <2>1 DEF Settled, Fits, SameUse, Running
<1>4. IdleInv'
  <2> SUFFICES ASSUME NEW w \in Watched, w[1] \notin outdated', w[2] \in DOMAIN status'[w[1]],
                      status'[w[1]][w[2]].since \notin {InUse, Marker}
               PROVE  status'[w[1]][w[2]].since <= idle[w]
    BY DEF IdleInv
  <2>1. w[1] \in Cisas
    BY AvailabilityAssumption
  <2> QED
    BY <1>1, <1>2, <2>1 DEF IdleInv, SameUse
<1> QED
  BY <1>3, <1>4

\* Steps that change no list, pod or spec.
LEMMA RestKeepsUse ==
    ASSUME ExpiryInv, UNCHANGED <<spec, status, pods, idle, outdated>>, Typed',
           seen' = seen \/ seen' = status,
           pc' \notin {"recording", "patching"},
           pc = "patching" => me \in queued',
           queued \subseteq queued',
           \A c \in DOMAIN backfill' : c \in DOMAIN backfill /\ backfill'[c] = backfill[c],
           DOMAIN mine' = {}, job' = NoJob,
           \A c \in DOMAIN objs' : objs'[c] = << >> \/ (c \in DOMAIN objs /\ objs'[c] = objs[c])
    PROVE  ExpiryInv'
<1>1. IdleInv'
  BY DEF ExpiryInv, IdleInv
<1>2. SaneInv'
  BY EmptyFacts DEF ExpiryInv, SaneInv, AllSane
<1>3. BackfillUse' /\ JobUse' /\ MineUse' /\ MineFits'
  BY DEF ExpiryInv, BackfillUse, JobUse, MineUse, MineFits
<1>4. RestInv'
  <2> SUFFICES ASSUME NEW c \in Cisas, AtRest(c)' PROVE Settled(c, status[c])'
    BY DEF RestInv
  <2>1. AtRest(c)
    BY DEF AtRest
  <2>2. Settled(c, status[c])
    BY <2>1 DEF ExpiryInv, RestInv
  <2> QED
    BY <2>2 DEF Settled, Running
<1> QED
  BY <1>1, <1>2, <1>3, <1>4 DEF ExpiryInv

LEMMA EndsKeepUse ==
    ASSUME ExpiryInv, Forgotten, Typed', UNCHANGED <<spec, status, pods, idle, outdated>>,
           seen' = seen \/ seen' = status, queued \subseteq queued', pc = "patching" => me \in queued',
           backfill' = backfill \/ backfill' = << >>
    PROVE  ExpiryInv'
<1>1. /\ pc' = "idle" /\ DOMAIN mine' = {} /\ DOMAIN objs' = {} /\ job' = NoJob
  BY EmptyFacts DEF Forgotten
<1>2. \A c \in DOMAIN backfill' : c \in DOMAIN backfill /\ backfill'[c] = backfill[c]
  BY EmptyFacts
<1> QED
  BY <1>1, <1>2, RestKeepsUse

\* Whoever changes what an object selects, or the pods it selects, has it
\* reconciled.
LEMMA UsersKeepUse ==
    ASSUME ExpiryInv, Typed', Users \/ \E c \in Cisas : Wake(c)
    PROVE  ExpiryInv'
<1> USE DEF object, queue, memory, tasks, history
<1>0. TypeOK /\ UNCHANGED <<status, seen, memory, tasks, history>> /\ queued \subseteq queued'
  BY DEF ExpiryInv, Typed, Users, EditSpec, AddPod, RemovePod, Wake
<1>1. IdleInv' /\ BackfillUse' /\ JobUse' /\ MineUse'
  BY <1>0 DEF ExpiryInv, IdleInv, BackfillUse, JobUse, MineUse
<1>3. SaneInv'
  BY <1>0 DEF ExpiryInv, SaneInv
<1>4. \A c \in Cisas \ queued' :
          /\ spec'[c] = spec[c]
          /\ spec[c].valid = "yes" => Used(spec[c], Running(c)') = Used(spec[c], Running(c))
  <2>1. ASSUME NEW c \in Cisas, EditSpec(c) \/ Wake(c)
        PROVE  \A d \in Cisas \ queued' : spec'[d] = spec[d] /\ Running(d)' = Running(d)
    BY <1>0, <2>1 DEF EditSpec, Wake, Running, TypeOK
  <2>2. ASSUME NEW p \in Pods, AddPod(p), NEW c \in Cisas \ queued', spec[c].valid = "yes"
        PROVE  spec' = spec /\ Used(spec[c], Running(c)') = Used(spec[c], Running(c))
    <3>1. PICK pod \in PodKinds :
              /\ pods' = [q \in DOMAIN pods \cup {p} |-> IF q = p THEN pod ELSE pods[q]]
              /\ queued' = queued \cup Mapped(p, pod)
      BY <2>2 DEF AddPod
    <3>2. p \notin DOMAIN pods /\ spec' = spec
      BY <2>2 DEF AddPod
    <3>3. ~(p \in spec[c].pods /\ pod.image \in spec[c].images)
      BY <2>2, <3>1 DEF Mapped
    <3>4. DOMAIN pods' = DOMAIN pods \cup {p} /\ pods'[p] = pod
          /\ \A q \in DOMAIN pods : pods'[q] = pods[q]
      BY <3>1, <3>2
    <3> QED
      BY <3>2, <3>3, <3>4 DEF Used, Running
  <2>3. ASSUME NEW p \in Pods, RemovePod(p), NEW c \in Cisas \ queued', spec[c].valid = "yes"
        PROVE  spec' = spec /\ Used(spec[c], Running(c)') = Used(spec[c], Running(c))
    <3>1. /\ pods' = [q \in DOMAIN pods \ {p} |-> pods[q]] /\ p \in DOMAIN pods
          /\ queued' = queued \cup Mapped(p, pods[p]) /\ spec' = spec
      BY <2>3 DEF RemovePod
    <3>2. ~(p \in spec[c].pods /\ pods[p].image \in spec[c].images)
      BY <2>3, <3>1 DEF Mapped
    <3> QED
      BY <3>1, <3>2 DEF Used, Running
  <2>4. spec' = spec \/ \E c \in Cisas : EditSpec(c)
    BY DEF Users, AddPod, RemovePod, Wake
  <2> QED
    BY <2>1, <2>2, <2>3, <2>4 DEF Users
<1>5. \A c \in Cisas \ queued' : \A l : spec[c].valid = "yes" /\ Settled(c, l) => Settled(c, l)'
  <2> SUFFICES ASSUME NEW c \in Cisas \ queued', NEW l, spec[c].valid = "yes", Fits(spec[c], Running(c), l)
               PROVE  Fits(spec'[c], Running(c)', l)
    BY DEF Settled
  <2> QED
    BY <1>4 DEF Fits
<1>6. RestInv'
  BY <1>0, <1>4, <1>5 DEF ExpiryInv, RestInv, AtRest
<1>7. MineFits'
  BY <1>0, <1>4, <1>5 DEF ExpiryInv, MineFits, TypeOK
<1> QED
  BY <1>1, <1>3, <1>6, <1>7 DEF ExpiryInv

\* What the clock does to an entry: an image in use stays in use, a marked one
\* marked, and the others get older, and do not become one of these.
LEMMA AgedUse ==
    ASSUME NEW e \in Entry, Sane(e)
    PROVE  /\ Sane(AgedEntry(e))
           /\ AgedEntry(e).since = Older(e.since)
           /\ e.since = InUse <=> Older(e.since) = InUse
           /\ e.since = Marker <=> Older(e.since) = Marker
           /\ e.since \notin {InUse, Marker} => e.since \in 0 .. MaxAge
<1>1. /\ AgedEntry(e).last = Older(e.last) /\ AgedEntry(e).since = Older(e.since)
      /\ AgedEntry(e).verdict = e.verdict
      /\ e.since \in InUse .. Marker
  BY AgedEntryFacts DEF Entry
<1>2. /\ e.since = InUse <=> Older(e.since) = InUse
      /\ e.since = Marker <=> Older(e.since) = Marker
  BY <1>1, AgeFacts DEF Older, Marker, InUse
<1>3. e.since \notin {InUse, Marker} => e.since \in 0 .. MaxAge
  BY <1>1, AgeFacts DEF Marker, InUse
<1> QED
  BY <1>1, <1>2, <1>3, AgeFacts DEF Sane

LEMMA AgedListUse ==
    ASSUME NEW list, IsList(list), AllSane(list)
    PROVE  /\ AllSane(Aged(list)) /\ DOMAIN Aged(list) = DOMAIN list
           /\ \A i \in DOMAIN list :
                 /\ Aged(list)[i].since = Older(list[i].since)
                 /\ list[i].since = InUse <=> Aged(list)[i].since = InUse
                 /\ list[i].since = Marker <=> Aged(list)[i].since = Marker
                 /\ list[i].since \notin {InUse, Marker} => list[i].since \in 0 .. MaxAge
<1>1. \A i \in DOMAIN list : list[i] \in Entry /\ Sane(list[i])
  BY DEF IsList, IsPartial, AllSane
<1>2. DOMAIN Aged(list) = DOMAIN list /\ \A i \in DOMAIN list : Aged(list)[i] = AgedEntry(list[i])
  BY AgedFacts
<1> QED
  BY <1>1, <1>2, AgedUse DEF AllSane

LEMMA TickKeepsUse ==
    ASSUME ExpiryInv, Tick, Typed'
    PROVE  ExpiryInv'
<1>0. /\ Typed /\ TypeOK /\ Referenced /\ SaneInv /\ RestInv /\ IdleInv /\ JobUse
      /\ pc \in {"idle", "recording"} /\ pc' = pc /\ seen' = status'
      /\ DOMAIN backfill = {} /\ UNCHANGED <<spec, pods, queued, me, mine, backfill, outdated>>
  BY EmptyFacts DEF ExpiryInv, Typed, Tick, tasks
<1>1. ASSUME NEW c \in Cisas
      PROVE  /\ AllSane(status'[c]) /\ DOMAIN status'[c] = DOMAIN status[c]
             /\ \A i \in DOMAIN status[c] :
                   /\ status'[c][i].since = Older(status[c][i].since)
                   /\ status[c][i].since = InUse <=> status'[c][i].since = InUse
                   /\ status[c][i].since = Marker <=> status'[c][i].since = Marker
                   /\ status[c][i].since \notin {InUse, Marker} => status[c][i].since \in 0 .. MaxAge
  <2>1. IsList(status[c]) /\ AllSane(status[c]) /\ status'[c] = Aged(status[c])
    BY <1>0 DEF TypeOK, SaneInv, Tick
  <2> QED
    BY <2>1, AgedListUse
<1>2. ASSUME NEW c \in DOMAIN objs
      PROVE  /\ AllSane(objs'[c]) /\ DOMAIN objs'[c] = DOMAIN objs[c]
             /\ \A i \in DOMAIN objs[c] : objs'[c][i].since = Older(objs[c][i].since)
  <2>1. IsList(objs[c]) /\ AllSane(objs[c]) /\ objs'[c] = Aged(objs[c])
    BY <1>0 DEF TypeOK, SaneInv, Tick
  <2> QED
    BY <2>1, AgedListUse
<1>3. /\ job' # NoJob => job # NoJob
      /\ job # NoJob => /\ Sane(job'.entry) /\ job'.entry.since = Older(job.entry.since)
                        /\ job'.cisa = job.cisa /\ job'.image = job.image
  <2>1. ASSUME job # NoJob
        PROVE  /\ Sane(job'.entry) /\ job'.entry.since = Older(job.entry.since)
               /\ job'.cisa = job.cisa /\ job'.image = job.image
    <3>1. job \in Job /\ Sane(job.entry) /\ job' = [job EXCEPT !.entry = AgedEntry(@)]
      BY <1>0, <2>1 DEF TypeOK, SaneInv, Tick
    <3>2. /\ job.entry \in Entry /\ job'.entry = AgedEntry(job.entry)
          /\ job'.cisa = job.cisa /\ job'.image = job.image
      BY <3>1 DEF Job
    <3> QED
      BY <3>1, <3>2, AgedUse
  <2> QED
    BY <2>1 DEF Tick
<1>4. DOMAIN objs' = DOMAIN objs
  BY DEF Tick
<1>5. SaneInv'
  BY <1>0, <1>1, <1>2, <1>3, <1>4 DEF SaneInv
<1>6. JobUse'
  <2>1. pc = "recording" => /\ job.cisa \in DOMAIN objs /\ job.image \in DOMAIN objs[job.cisa]
                            /\ job # NoJob
    BY <1>0 DEF Referenced, InLists, TypeOK
  <2> QED
    BY <1>0, <1>2, <1>3, <2>1 DEF JobUse
<1>7. RestInv'
  <2> SUFFICES ASSUME NEW c \in Cisas, AtRest(c)' PROVE Settled(c, status[c])'
    BY DEF RestInv
  <2>1. Settled(c, status[c])
    BY <1>0 DEF RestInv, AtRest
  <2> QED
    BY <1>0, <1>1, <2>1 DEF Settled, Fits, Running
<1>8. IdleInv'
  <2> SUFFICES ASSUME NEW w \in Watched, w[1] \notin outdated', w[2] \in DOMAIN status'[w[1]],
                      status'[w[1]][w[2]].since \notin {InUse, Marker}
               PROVE  status'[w[1]][w[2]].since <= idle'[w]
    BY DEF IdleInv
  <2>1. PICK c, i : c = w[1] /\ i = w[2]
    OBVIOUS
  <2>2. c \in Cisas
    BY <2>1, AvailabilityAssumption
  <2>3. /\ i \in DOMAIN status[c] /\ status[c][i].since \notin {InUse, Marker}
        /\ status[c][i].since \in 0 .. MaxAge /\ status'[c][i].since = Older(status[c][i].since)
    BY <1>1, <2>1, <2>2
  <2>4. status[c][i].since <= idle[w] /\ idle[w] \in 0 .. MaxAge
    BY <1>0, <2>1, <2>3 DEF IdleInv, TypeOK
  <2>5. ~Runs(c, i)
    <3> SUFFICES ASSUME Runs(c, i) PROVE FALSE
      OBVIOUS
    <3>1. Settled(c, status[c])
      BY <1>0, <2>1, <2>2 DEF Runs, RestInv, AtRest
    <3>2. PICK p \in spec[c].pods \cap DOMAIN pods : pods[p].image = i
      BY DEF Runs
    <3>3. i \in spec[c].images
      BY <2>3, <3>1 DEF Settled, Fits
    <3>4. i \in Used(spec[c], Running(c))
      BY <3>2, <3>3 DEF Used, Running
    <3> QED
      BY <2>3, <3>1, <3>4 DEF Settled, Fits
  <2>6. idle'[w] = Older(idle[w])
    BY <2>1, <2>5 DEF Tick
  <2> QED
    BY <2>1, <2>3, <2>4, <2>6, AgeFacts
<1> QED
  BY <1>0, <1>5, <1>6, <1>7, <1>8 DEF ExpiryInv, BackfillUse, MineUse, MineFits

\* What reconcile is about to write, or leaves as it is, fits the pods it has
\* listed.
LEMMA BeginKeepsUse ==
    ASSUME ExpiryInv, NEW c \in Cisas, Begin(c), Typed'
    PROVE  ExpiryInv'
<1> USE DEF object, tasks, history
<1> DEFINE s == spec[c]
           ps == {pods[p] : p \in s.pods \cap DOMAIN pods}
<1>0. /\ Typed /\ TypeOK /\ SaneInv /\ RestInv /\ pc = "idle" /\ c \in queued
      /\ UNCHANGED <<spec, status, seen, pods, requeueIn, faults, tasks, idle, job>>
      /\ queued' = queued \ {c}
      /\ outdated \subseteq outdated' /\ (c \notin outdated' => seen[c] = status[c])
  BY DEF ExpiryInv, Typed, Begin, memory
<1>1. s \in SpecSet /\ ps \in SUBSET Pod /\ IsList(seen[c]) /\ AllSane(seen[c])
  BY <1>0 DEF TypeOK, IsPartial, SaneInv
<1>2. IdleInv' /\ BackfillUse'
  BY <1>0 DEF ExpiryInv, IdleInv, BackfillUse
<1>3. \A d \in Cisas \ {c} : AtRest(d)' => Settled(d, status[d])'
  <2> SUFFICES ASSUME NEW d \in Cisas \ {c}, AtRest(d)' PROVE Settled(d, status[d])'
    OBVIOUS
  <2>1. AtRest(d)
    BY <1>0 DEF AtRest
  <2> QED
    BY <1>0, <2>1 DEF RestInv, Settled, Running
<1>4. CASE s.valid = "pods"
  <2>1. UNCHANGED memory
    BY <1>4 DEF Begin
  <2>2. RestInv'
    BY <1>0, <1>3, <1>4 DEF RestInv, AtRest
  <2> QED
    BY <1>0, <1>2, <2>1, <2>2 DEF ExpiryInv, memory, SaneInv, JobUse, MineUse, MineFits
<1>5. CASE s.valid # "pods"
  <2>1. PICK marks \in Marks(ps) :
            LET list == IF s.valid = "images" THEN seen[c] ELSE SyncImageList(s, ps, seen[c], marks)
                toPatch == s.valid = "yes" /\ Changed(s, ps, seen[c]) /\ list # seen[c]
            IN /\ pc' = IF toPatch THEN "patching" ELSE "listing"
               /\ mine' = IF toPatch THEN list ELSE << >>
               /\ objs' = IF toPatch THEN [o \in {c} |-> seen[c]] ELSE << >>
               /\ tracking' = (~toPatch /\ list # << >>)
    BY <1>5 DEF Begin
  <2>2. PICK new : new = SyncImageList(s, ps, seen[c], marks)
    OBVIOUS
  <2>3. /\ AllSane(new) /\ Fits(s, ps, new) /\ UseFrom(new, seen[c])
    <3>1. PICK t, qs, list : t = s /\ qs = ps /\ list = seen[c]
      OBVIOUS
    <3>2. /\ t \in SpecSet /\ qs \in SUBSET Pod /\ IsList(list) /\ AllSane(list)
          /\ marks \in Marks(qs) /\ new = SyncImageList(t, qs, list, marks)
      BY <1>1, <2>1, <2>2, <3>1
    <3>3. AllSane(SyncImageList(t, qs, list, marks))
      BY <3>2, SyncedSane
    <3>4. Fits(t, qs, SyncImageList(t, qs, list, marks))
      BY <3>2, SyncedFits
    <3>5. UseFrom(SyncImageList(t, qs, list, marks), list)
      BY <3>2, SyncedUse
    <3> QED
      BY <3>1, <3>2, <3>3, <3>4, <3>5
  <2>4. me' = c /\ Running(c)' = ps
    BY <1>0, <1>5 DEF Begin, Running
  <2>5. CASE s.valid = "yes" /\ Changed(s, ps, seen[c]) /\ new # seen[c]
    <3>1. pc' = "patching" /\ mine' = new /\ objs' = [o \in {c} |-> seen[c]]
      BY <2>1, <2>2, <2>5
    <3>2. SaneInv'
      BY <1>0, <1>1, <2>3, <3>1 DEF SaneInv
    <3>3. JobUse' /\ MineUse'
      BY <2>3, <2>4, <3>1 DEF JobUse, MineUse
    <3>4. RestInv'
      BY <1>3, <2>4, <3>1 DEF RestInv, AtRest
    <3>5. MineFits'
      BY <1>0, <2>3, <2>4, <3>1 DEF MineFits, Settled
    <3> QED
      BY <1>2, <3>2, <3>3, <3>4, <3>5 DEF ExpiryInv
  <2>6. CASE ~(s.valid = "yes" /\ Changed(s, ps, seen[c]) /\ new # seen[c])
    <3>1. pc' = "listing" /\ mine' = << >> /\ objs' = << >>
      BY <2>1, <2>2, <2>6
    <3>2. SaneInv'
      BY <1>0, <3>1, EmptyFacts DEF SaneInv, AllSane
    <3>3. JobUse' /\ MineUse' /\ MineFits'
      BY <3>1 DEF JobUse, MineUse, MineFits
    <3>4. ASSUME s.valid = "yes" PROVE Fits(s, ps, seen[c])
      <4>1. CASE ~Changed(s, ps, seen[c])
        <5>1. PICK list : list = seen[c]
          OBVIOUS
        <5> QED
          BY <1>1, <4>1, <5>1, UnchangedFits
      <4>2. CASE new = seen[c]
        BY <2>3, <4>2
      <4> QED
        BY <2>6, <3>4, <4>1, <4>2
    <3>5. RestInv'
      <4>1. AtRest(c)' => Settled(c, status[c])'
        BY <1>0, <2>4, <3>4 DEF AtRest, Settled
      <4> QED
        BY <1>3, <4>1 DEF RestInv
    <3> QED
      BY <1>2, <3>2, <3>3, <3>5 DEF ExpiryInv
  <2> QED
    BY <2>5, <2>6
<1> QED
  BY <1>4, <1>5

LEMMA PatchKeepsUse ==
    ASSUME ExpiryInv, PatchList, Typed'
    PROVE  ExpiryInv'
<1> USE DEF object, tasks, queue
<1>0. /\ Typed /\ TypeOK /\ SaneInv /\ RestInv /\ MineFits /\ MineUse /\ IdleInv
      /\ pc = "patching" /\ me \in Cisas /\ IsList(mine)
      /\ UNCHANGED <<spec, pods, tasks, sinceCheck, idle>>
  BY DEF ExpiryInv, Typed, TypeOK, PatchList
<1>1. CASE Write(me, objs[me], mine) /\ pc' = "listing"
  <2>1. /\ mine' = << >> /\ objs' = << >> /\ UNCHANGED <<queue, me, job>>
    BY <1>1 DEF PatchList, EndAndRequeue, Forgotten
  <2>2. PICK c, old, new : c = me /\ old = objs[me] /\ new = mine
    OBVIOUS
  <2>3. /\ status'[c] = new /\ \A d \in Cisas \ {c} : status'[d] = status[d]
        /\ outdated \subseteq outdated' /\ (c \notin outdated' => status[c] = old)
        /\ seen' = seen \/ seen' = status'
    BY <1>0, <1>1, <2>2, WriteTyped DEF Write
  <2>4. SaneInv'
    <3>1. \A d \in Cisas : AllSane(status'[d]) /\ AllSane(seen'[d])
      BY <1>0, <2>2, <2>3 DEF SaneInv
    <3> QED
      BY <1>0, <2>1, <3>1, EmptyFacts DEF SaneInv, AllSane
  <2>5. BackfillUse' /\ JobUse' /\ MineUse' /\ MineFits'
    BY <1>0, <1>1 DEF ExpiryInv, BackfillUse, JobUse, MineUse, MineFits
  <2>6. RestInv'
    <3> SUFFICES ASSUME NEW d \in Cisas, AtRest(d)' PROVE Settled(d, status[d])'
      BY DEF RestInv
    <3>1. d \notin queued /\ d \notin outdated /\ spec[d].valid = "yes"
      BY <1>0, <2>1, <2>3 DEF AtRest
    <3>2. Settled(d, status'[d])
      <4>1. CASE d = c
        BY <1>0, <2>2, <2>3, <3>1, <4>1 DEF MineFits
      <4>2. CASE d # c
        BY <1>0, <2>2, <2>3, <3>1, <4>2 DEF RestInv, AtRest
      <4> QED
        BY <4>1, <4>2
    <3> QED
      BY <1>0, <3>2 DEF Settled, Running
  <2>7. IdleInv'
    <3> SUFFICES ASSUME NEW w \in Watched, w[1] \notin outdated', w[2] \in DOMAIN status'[w[1]],
                        status'[w[1]][w[2]].since \notin {InUse, Marker}
                 PROVE  status'[w[1]][w[2]].since <= idle[w]
      BY <1>0 DEF IdleInv
    <3>1. w[1] \in Cisas /\ idle[w] \in 0 .. MaxAge
      BY <1>0, AvailabilityAssumption DEF TypeOK
    <3>2. CASE w[1] # c
      BY <1>0, <2>3, <3>1, <3>2 DEF IdleInv
    <3>3. CASE w[1] = c
      <4>1. \/ new[w[2]].since = 0
            \/ w[2] \in DOMAIN status[c] /\ new[w[2]].since = status[c][w[2]].since
        BY <1>0, <2>2, <2>3, <3>3 DEF MineUse, UseFrom
      <4> QED
        BY <1>0, <2>3, <3>1, <3>3, <4>1, AgeFacts DEF IdleInv
    <3> QED
      BY <3>2, <3>3
  <2> QED
    BY <2>4, <2>5, <2>6, <2>7 DEF ExpiryInv
<1>2. CASE EndAndRequeue /\ UNCHANGED <<status, seen, outdated>>
  BY <1>0, <1>2, EndsKeepUse DEF EndAndRequeue
<1> QED
  BY <1>1, <1>2, ForgottenTyped DEF PatchList

\* Reading the lists, and choosing whom to check, change no use.
LEMMA ChecksKeepUse ==
    ASSUME ExpiryInv, FindCandidates \/ \E r \in Registries : Postpone(r) \/ Probe(r), Typed'
    PROVE  ExpiryInv'
<1> USE DEF object, tasks, queue, history
<1>0. /\ Typed /\ TypeOK /\ Referenced /\ SaneInv /\ pc \in {"listing", "checking"}
      /\ UNCHANGED <<object, pods, queue, me, mine, tasks, idle, outdated>>
      /\ pc' # "patching"
  BY DEF ExpiryInv, Typed, FindCandidates, Postpone, Probe
<1>1. IdleInv' /\ BackfillUse' /\ MineUse' /\ MineFits'
  BY <1>0 DEF ExpiryInv, IdleInv, BackfillUse, MineUse, MineFits
<1>2. RestInv'
  BY <1>0 DEF ExpiryInv, RestInv, AtRest, Settled, Running
<1>3. CASE FindCandidates
  <2>1. /\ objs' = [c \in {d \in Cisas : spec[d].valid = "yes"} |-> seen[c]]
        /\ pc' = "checking" /\ job' = job
    BY <1>3 DEF FindCandidates
  <2>2. SaneInv'
    BY <1>0, <2>1 DEF SaneInv
  <2>3. JobUse'
    BY <2>1 DEF JobUse
  <2> QED
    BY <1>1, <1>2, <2>2, <2>3 DEF ExpiryInv
<1>4. ASSUME NEW r \in Registries, Postpone(r) PROVE ExpiryInv'
  <2>1. objs' = objs /\ pc' = "checking" /\ job' = job
    BY <1>4 DEF Postpone
  <2> QED
    BY <1>0, <1>1, <1>2, <2>1 DEF ExpiryInv, SaneInv, JobUse
<1>5. ASSUME NEW r \in Registries, Probe(r) PROVE ExpiryInv'
  <2>1. objs' = objs /\ InLists(cand[r].cisa, cand[r].image)
    BY <1>0, <1>5 DEF Probe, Referenced
  <2>2. PICK c, i, u : c = cand[r].cisa /\ i = cand[r].image /\ u = (Credentials(r, cand[r].image) = "error")
    OBVIOUS
  <2>3. PICK answer \in Answers(i, Credentials(r, i)) :
            job' = [cisa |-> c, image |-> i, unreadable |-> u, entry |-> Checked(objs[c][i], u, answer)]
    BY <1>5, <2>2 DEF Probe
  <2>4. objs[c][i] \in Entry /\ Sane(objs[c][i])
    BY <1>0, <2>1, <2>2 DEF InLists, TypeOK, IsList, IsPartial, SaneInv, AllSane
  <2>5. answer # "Scheduled"
    BY DEF Answers
  <2>6. \A e \in Entry : /\ Checked(e, u, answer).since = e.since
                         /\ Checked(e, u, answer).verdict # "Scheduled"
    BY <2>5 DEF Checked, Entry
  <2>7. Sane(job'.entry) /\ job'.entry.since = objs[c][i].since /\ job'.cisa = c /\ job'.image = i
    BY <2>3, <2>4, <2>6 DEF Sane
  <2> QED
    BY <1>0, <1>1, <1>2, <2>1, <2>7 DEF ExpiryInv, SaneInv, JobUse
<1> QED
  BY <1>3, <1>4, <1>5

LEMMA RecordKeepsUse ==
    ASSUME ExpiryInv, Record, Typed'
    PROVE  ExpiryInv'
<1> USE DEF object, tasks, queue, history
<1>0. /\ Typed /\ TypeOK /\ Referenced /\ SaneInv /\ RestInv /\ IdleInv /\ JobUse /\ pc = "recording"
      /\ UNCHANGED <<spec, pods, tasks, sinceCheck, idle>>
  BY DEF ExpiryInv, Typed, Record
<1>1. CASE pc' = "idle"
  <2>1. EndAndRequeue /\ UNCHANGED <<status, seen, outdated>>
    BY <1>1 DEF Record
  <2> QED
    BY <1>0, <2>1, EndsKeepUse DEF EndAndRequeue
<1>2. CASE pc' # "idle"
  <2>1. PICK c, i, old, new : /\ c = job.cisa /\ i = job.image /\ old = objs[c]
                              /\ new = [objs[c] EXCEPT ![i] = job.entry]
    OBVIOUS
  <2>2. /\ pc' = "checking" /\ job' = NoJob
        /\ Write(c, old, new) /\ IsList(new) /\ objs'[c] = status'[c] /\ job \in Job
    BY <1>0, <1>2, <2>1, RecordFacts
  <2>3. c \in Cisas /\ c \in DOMAIN objs /\ i \in DOMAIN objs[c]
    BY <1>0, <2>1 DEF Referenced, InLists, TypeOK
  <2>4. UNCHANGED <<queue, me, mine>> /\ objs' = [objs EXCEPT ![c] = status'[c]]
    BY <1>2, <2>1 DEF Record, EndAndRequeue, Forgotten
  <2>5. DOMAIN new = DOMAIN old /\ \A j \in DOMAIN old : new[j] = IF j = i THEN job.entry ELSE old[j]
    BY <2>1
  <2>6. SameUse(new, old)
    BY <1>0, <2>1, <2>5 DEF JobUse, SameUse
  <2>7. RestInv' /\ IdleInv'
    <3>1. \A d \in Cisas : AtRest(d)' => AtRest(d)
      BY <1>0, <2>2, <2>4 DEF AtRest, Write
    <3> QED
      BY <1>0, <2>2, <2>3, <2>4, <2>6, <3>1, SameUsePatch
  <2>8. AllSane(new)
    <3>1. Sane(job.entry) /\ AllSane(old)
      BY <1>0, <2>1, <2>3 DEF SaneInv, TypeOK
    <3> QED
      BY <2>5, <3>1 DEF AllSane
  <2>9. SaneInv'
    <3>1. /\ status'[c] = new /\ \A d \in Cisas \ {c} : status'[d] = status[d]
          /\ seen' = seen \/ seen' = status'
      BY <1>0, <2>2, <2>3, WriteTyped DEF Write
    <3> QED
      BY <1>0, <2>2, <2>3, <2>4, <2>8, <3>1 DEF SaneInv
  <2>10. BackfillUse' /\ JobUse' /\ MineUse' /\ MineFits'
    BY <1>0, <2>2 DEF ExpiryInv, BackfillUse, JobUse, MineUse, MineFits
  <2> QED
    BY <2>7, <2>9, <2>10 DEF ExpiryInv
<1> QED
  BY <1>1, <1>2

LEMMA BackfillKeepsUse ==
    ASSUME ExpiryInv, BackfillList \/ \E c \in Cisas : BackfillPatch(c), Typed'
    PROVE  ExpiryInv'
<1> USE DEF object, memory, queue, history
<1>0. /\ Typed /\ TypeOK /\ SaneInv /\ RestInv /\ IdleInv
      /\ UNCHANGED <<spec, pods, queued, idle, memory>>
  BY DEF ExpiryInv, Typed, BackfillList, BackfillPatch
<1>1. JobUse' /\ MineUse' /\ MineFits'
  BY <1>0 DEF ExpiryInv, JobUse, MineUse, MineFits, Settled, Running
<1>2. CASE BackfillList
  <2>1. \A c \in Cisas : SameUse(Marked(seen[c]), seen[c]) /\ AllSane(Marked(seen[c]))
    <3> SUFFICES ASSUME NEW c \in Cisas
                 PROVE  SameUse(Marked(seen[c]), seen[c]) /\ AllSane(Marked(seen[c]))
      OBVIOUS
    <3>1. IsList(seen[c]) /\ AllSane(seen[c])
      BY <1>0 DEF TypeOK, SaneInv
    <3> QED
      BY <3>1, MarkedType DEF SameUse, AllSane, Sane
  <2>2. \A c \in DOMAIN backfill' :
           c \in Cisas /\ backfill'[c].old = seen[c] /\ backfill'[c].new = Marked(seen[c])
    BY <1>2 DEF BackfillList
  <2>3. BackfillUse' /\ SaneInv'
    BY <1>0, <1>2, <2>1, <2>2 DEF BackfillList, BackfillUse, SaneInv
  <2>4. RestInv' /\ IdleInv'
    BY <1>0, <1>2 DEF BackfillList, RestInv, AtRest, Settled, Running, IdleInv
  <2> QED
    BY <1>1, <2>3, <2>4 DEF ExpiryInv
<1>3. ASSUME NEW c \in Cisas, BackfillPatch(c) PROVE ExpiryInv'
  <2>1. c \in DOMAIN backfill /\ \A d \in DOMAIN backfill' : d \in DOMAIN backfill /\ backfill'[d] = backfill[d]
    BY <1>3 DEF BackfillPatch
  <2>2. PICK old, new : old = backfill[c].old /\ new = backfill[c].new
    OBVIOUS
  <2>3. IsList(new) /\ SameUse(new, old) /\ AllSane(new)
    BY <1>0, <2>1, <2>2 DEF ExpiryInv, BackfillUse, SaneInv, TypeOK
  <2>4. BackfillUse'
    BY <2>1 DEF ExpiryInv, BackfillUse
  <2>5. CASE Write(c, old, new)
    <3>1. \A d \in Cisas : AtRest(d)' => AtRest(d)
      BY <1>0, <2>5 DEF AtRest, Write
    <3>2. RestInv' /\ IdleInv'
      BY <1>0, <2>3, <2>5, <3>1, SameUsePatch
    <3>3. /\ status'[c] = new /\ \A d \in Cisas \ {c} : status'[d] = status[d]
          /\ seen' = seen \/ seen' = status'
      BY <1>0, <2>3, <2>5, WriteTyped DEF Write
    <3>4. SaneInv'
      BY <1>0, <2>1, <2>3, <3>3 DEF SaneInv
    <3> QED
      BY <1>1, <2>4, <3>2, <3>4 DEF ExpiryInv
  <2>6. CASE UNCHANGED <<status, seen, outdated>>
    <3>1. RestInv' /\ IdleInv' /\ SaneInv'
      BY <1>0, <2>1, <2>6 DEF RestInv, AtRest, Settled, Running, IdleInv, SaneInv
    <3> QED
      BY <1>1, <2>4, <3>1 DEF ExpiryInv
  <2> QED
    BY <1>3, <2>2, <2>5, <2>6 DEF BackfillPatch
<1> QED
  BY <1>2, <1>3

LEMMA ExpiryStep ==
    ASSUME ExpiryInv, [Next]_vars
    PROVE  ExpiryInv'
<1>0. Typed /\ TypeOK
  BY DEF ExpiryInv, Typed
<1>1. Typed'
  BY <1>0, TypedStep
<1>2. CASE Users \/ \E c \in Cisas : Wake(c)
  BY <1>1, <1>2, UsersKeepUse
<1>3. CASE Tick
  BY <1>1, <1>3, TickKeepsUse
<1>4. ASSUME NEW c \in Cisas, Begin(c) PROVE ExpiryInv'
  BY <1>1, <1>4, BeginKeepsUse
<1>5. CASE PatchList \/ Record
  BY <1>1, <1>5, PatchKeepsUse, RecordKeepsUse
<1>6. CASE FindCandidates \/ \E r \in Registries : Postpone(r) \/ Probe(r)
  BY <1>1, <1>6, ChecksKeepUse
<1>7. CASE Crash
  <2>1. queued \subseteq queued' /\ (pc = "patching" => me \in queued')
    BY <1>0, <1>7 DEF Crash, TypeOK
  <2>2. Forgotten /\ seen' = status /\ backfill' = << >> /\ UNCHANGED <<spec, status, pods, idle, outdated>>
    BY <1>7 DEF Crash, history
  <2> QED
    BY <1>1, <2>1, <2>2, EndsKeepUse
<1>8. CASE Finish
  <2>1. Forgotten /\ queued \subseteq queued' /\ pc = "checking"
    BY <1>8 DEF Finish, EndAndRequeue, EndAndRequeueAfter
  <2>2. UNCHANGED <<seen, backfill, spec, status, pods, idle, outdated>>
    BY <1>8 DEF Finish, object, tasks, history
  <2> QED
    BY <1>1, <2>1, <2>2, EndsKeepUse
<1>9. CASE Backfill
  BY <1>1, <1>9, BackfillKeepsUse DEF Backfill
<1>10. CASE UNCHANGED vars
  BY <1>1, <1>10 DEF vars, object, queue, memory, tasks, history, ExpiryInv, SaneInv, BackfillUse,
     JobUse, MineUse, RestInv, AtRest, Settled, Running, MineFits, IdleInv
<1> QED
  BY <1>2, <1>3, <1>4, <1>5, <1>6, <1>7, <1>8, <1>9, <1>10 DEF Next, Act, Work

\* What reconcile leaves out of a list, it may.
LEMMA DropIsDue ==
    ASSUME ExpiryInv, [Next]_vars, NEW w \in Watched, NEW c, NEW i, c = w[1], i = w[2],
           pc = "idle", pc' = "patching", me' = c, c \notin outdated', i \in DOMAIN status[c] \ DOMAIN mine'
    PROVE  \/ i \notin spec[c].images
           \/ i \notin Used(spec[c], listed') /\ status[c][i].last = Never
           \/ idle[w] >= spec[c].expiry
           \/ status[c][i].since = Marker
<1>0. Typed /\ TypeOK /\ SaneInv /\ IdleInv /\ c \in Cisas
  BY AvailabilityAssumption DEF ExpiryInv, Typed
<1>1. Begin(c)
  <2>1. \E d \in Cisas : Begin(d)
    BY DEF Next, Act, Users, Backfill, Work, EditSpec, AddPod, RemovePod, Tick, Wake, Crash, PatchList,
       FindCandidates, Postpone, Probe, Record, Finish, EndAndRequeue, EndAndRequeueAfter, Forgotten,
       BackfillList, BackfillPatch, vars, memory
  <2>2. PICK d \in Cisas : Begin(d)
    BY <2>1
  <2>3. me' = d
    BY <2>2 DEF Begin, memory
  <2> QED
    BY <2>2, <2>3
<1>2. PICK s, ps, list : s = spec[c] /\ ps = {pods[p] : p \in spec[c].pods \cap DOMAIN pods} /\ list = seen[c]
  OBVIOUS
<1>3. s.valid = "yes" /\ listed' = ps
  BY <1>1, <1>2 DEF Begin, memory
<1>4. PICK marks \in Marks(ps) : mine' = SyncImageList(s, ps, list, marks)
  BY <1>1, <1>2, <1>3 DEF Begin
<1>5. /\ s \in SpecSet /\ s.expiry \in Nat /\ list = status[c] /\ c \notin outdated
      /\ list[i] \in Entry /\ Sane(list[i])
  <2>1. s \in SpecSet /\ IsList(status[c]) /\ AllSane(status[c])
    BY <1>0, <1>2 DEF TypeOK, SaneInv
  <2>2. list = status[c] /\ c \notin outdated
    BY <1>1, <1>2 DEF Begin
  <2>3. s.expiry \in Nat
    BY <2>1, AgeFacts DEF SpecSet
  <2> QED
    BY <2>1, <2>2, <2>3 DEF IsList, IsPartial, AllSane
<1>6. i \notin Kept(s, ps, list) /\ i \notin Used(s, ps)
  BY <1>4 DEF SyncImageList
<1>7. Expired(s, UnusedSince(s, ps, i, list[i]))
  BY <1>5, <1>6 DEF Kept
<1>8. ASSUME i \in s.images, list[i].last # Never, list[i].since # Marker PROVE idle[w] >= s.expiry
  <2>1. list[i].verdict # "Scheduled"
    BY <1>5, <1>8 DEF Sane
  <2>2. list[i].since # InUse
    BY <1>5, <1>6, <1>7, <1>8, <2>1, AgeFacts DEF UnusedSince, Expired, Marker
  <2>3. list[i].since >= s.expiry
    BY <1>5, <1>6, <1>7, <1>8, <2>1, <2>2 DEF UnusedSince, Expired
  <2>4. list[i].since <= idle[w]
    BY <1>0, <1>5, <1>8, <2>2 DEF IdleInv
  <2>5. list[i].since \in Int /\ idle[w] \in Int
    BY <1>0, <1>5, AgeFacts DEF Entry, TypeOK, InUse, Marker
  <2> QED
    BY <1>5, <2>3, <2>4, <2>5
<1> QED
  BY <1>2, <1>3, <1>5, <1>6, <1>8

\* A reconcile takes an image that was checked off the list only if its filter
\* does not select it, no pod ran it for the whole expiry, or it still bears the
\* mark of an earlier exclusion: for every number of objects, images and pods, all
\* specs, caches that lag, and whatever is edited, fails or restarts in between,
\* as long as no outdated list was read or written.
THEOREM DroppedWhenUnused == Spec => DroppedAfterExpiry
<1>1. ExpiryInv /\ [Next]_vars => ExpiryInv'
  BY ExpiryStep
<1>2. ExpiryInv /\ [Next]_vars
      => [\A w \in Watched :
             LET c == w[1]
                 i == w[2]
             IN (pc = "idle" /\ pc' = "patching" /\ me' = c /\ c \notin outdated'
                     /\ i \in DOMAIN status[c] \ DOMAIN mine')
                => \/ i \notin spec[c].images
                   \/ i \notin Used(spec[c], listed') /\ status[c][i].last = Never
                   \/ idle[w] >= spec[c].expiry
                   \/ status[c][i].since = Marker]_vars
  BY DropIsDue
<1> QED
  BY <1>1, <1>2, ExpiryInit, PTL DEF Spec, DroppedAfterExpiry
=============================================================================
