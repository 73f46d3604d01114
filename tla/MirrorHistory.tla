---------------------------- MODULE MirrorHistory ----------------------------
(***************************************************************************)
(* MirrorReconciler with history variables that remember what the code does *)
(* not: since when the status has said that an image is in use, and which   *)
(* pods have been there all along since reconcile listed them. They change  *)
(* nothing; the deletions of the cleanup loop are judged by them.           *)
(***************************************************************************)
EXTENDS MirrorReconciler

VARIABLES
    lastRecorded,   \* ticks since the status last said that i is in use
    steady          \* pods that have been there since reconcile listed them

history == <<lastRecorded, steady>>
hvars == <<vars, history>>

HInit == /\ Init
         /\ lastRecorded = [i \in Images |-> Retention]
         /\ steady = {}

SaidInUse(st) == {i \in DOMAIN st : st[i].since = InUse}

\* The clocks stand at zero for the images in S and go on by d for the others.
Clocked(clock, S, d) ==
    [i \in Images |-> IF i \in S THEN 0
                      ELSE IF clock[i] + d > Retention THEN Retention ELSE clock[i] + d]

Remember(d) ==
    /\ lastRecorded' = Clocked(lastRecorded, SaidInUse(status'), d)
    /\ steady' = IF pc' \in {"idle", "listing"} THEN {}
                 ELSE IF pc = "listing" THEN DOMAIN pods ELSE steady \cap DOMAIN pods'

\* MirrorReconciler's actions, each with what is remembered of it.
HUsers ==
    \/ EditSpec /\ Remember(0)
    \/ DeleteObject /\ Remember(0)
    \/ \E p \in Pods : RemovePod(p) /\ Remember(0)
    \/ \E p \in Pods : UpdatePod(p) /\ Remember(0)
    \/ \E p \in Pods, i \in Images : AdmitFromSource(p, i) /\ Remember(0)
    \/ \E p \in Pods, i \in Images, m \in Mirrors : AdmitFromMirror(p, i, m) /\ Remember(0)
    \/ \E m \in Mirrors, r \in Refs : LoseImage(m, r) /\ Remember(0)

HWebhook ==
    \/ \E m \in Mirrors, r \in Refs : StartClear(m, r) /\ Remember(0)
    \/ \E i \in Images, m \in Mirrors : OwnMirroredAt(i, m) /\ Remember(0)
    \/ \E i \in Images, m \in Mirrors, stage \in {"remove", "contested"} :
           RemoveMirroredAt(i, m, stage) /\ Remember(0)
    \/ \E c \in clears : GiveUpClear(c) /\ Remember(0)

HReconcile ==
    \/ Wake /\ Remember(0)
    \/ GetNothing /\ Remember(0)
    \/ GetDeleted /\ Remember(0)
    \/ RemoveFinalizer /\ Remember(0)
    \/ GetLive /\ Remember(0)
    \/ ListPods /\ Remember(0)
    \/ AddFinalizer /\ Remember(0)
    \/ MergeAndPatch /\ Remember(0)
    \/ PatchAfterCleanup /\ Remember(0)
    \/ PatchMirrors /\ Remember(0)
    \/ Finish /\ Remember(0)
    \/ \E i \in Images, m \in Mirrors : DeleteMirror(i, m) /\ Remember(0)
    \/ \E i \in Images, m \in Mirrors : CleanMirror(i, m) /\ Remember(0)
    \/ \E i \in Images, m \in Mirrors : CopyMirror(i, m) /\ Remember(0)
    \/ \E i \in Images : VisitImage(i) /\ Remember(0)
    \/ ApiFails /\ Remember(0)
    \/ Crash /\ Remember(0)

HNext == \/ Tick /\ Remember(1)
         \/ HUsers \/ HWebhook \/ HReconcile

HSpec == HInit /\ [][HNext]_hvars

\* FairSpec, remembered.
HFairSpec == HSpec /\ WF_vars(Tick) /\ WF_vars(Wake) /\ WF_vars(Proceed)
-----------------------------------------------------------------------------
\* The cleanup loop takes the mirror of i out of m.
CleanedUp(i, m) == /\ pc = "cleaning"
                   /\ todo' # todo
                   /\ RefOf[i] \in DOMAIN registry[m]
                   /\ RefOf[i] \notin DOMAIN registry'[m]

\* The mirror of an image that the object selects and that a container, rewritten
\* or not, has used ever since reconcile listed the pods is not deleted: the list
\* is old by the time of the deletion, but what it says still protects.
UsedMirrorIsKept ==
    [][\A p \in steady, m \in Mirrors :
           pods[p].annotated /\ pods[p].image \in mySpec.filter => ~CleanedUp(pods[p].image, m)]_hvars

\* A mirror is deleted for lack of use only when the recorded status has said
\* for a whole retention that its image is not in use, through failed patches,
\* crashes, retries and clears of the webhook.
RetentionOfRecord ==
    [][\A i \in DOMAIN myStatus, m \in Mirrors :
           CleanedUp(i, m) /\ myStatus[i].since # NotMatching => lastRecorded[i] = Retention]_hvars

\* docs/crds.md:143 on images that are still running: "kuik only delete mirror
\* image reference once an image is no longer running in the cluster since more
\* than `retention` time". Whatever the container, a pod that was there when
\* reconcile listed the pods keeps its mirror.
RunningMirrorIsKept ==
    [][\A p \in steady, m \in Mirrors :
           pods[p].image \in mySpec.filter => ~CleanedUp(pods[p].image, m)]_hvars
=============================================================================
