------------------------ MODULE ShareSyncViewProofs ------------------------
(***************************************************************************)
(* ShareSync implements VolumeView: every step of the caches, queues,      *)
(* threads and handlers is, to a pod, one step of the abstract view or     *)
(* none at all.                                                            *)
(***************************************************************************)
EXTENDS ShareSyncProofs

\* The ways in which a step touches what the view is made of.
Unseen == UNCHANGED <<content, authorized, refs>>

Referred == \E s \in Shares, o \in Objects :
               /\ refs' = [refs EXCEPT ![s] = @ \cup {o}]
               /\ UNCHANGED <<content, authorized>>

Granted == \E v \in Volumes : /\ authorized' = authorized \cup {v}
                              /\ UNCHANGED <<content, refs>>

Withdrawn == \E v \in Volumes : /\ content' = [content EXCEPT ![v] = None]
                                /\ UNCHANGED <<authorized, refs>>

WrittenBy(t) == /\ th[t].pc = "write"
                /\ content' = [content EXCEPT ![th[t].vol] = th[t].item]
                /\ UNCHANGED <<authorized, refs>>

Touch == \/ Unseen \/ Referred \/ Granted \/ Withdrawn
         \/ \E t \in Threads : WrittenBy(t)

\* Users only refer; the caches and the pruning of informers are not seen.
LEMMA OutsideTouch == ASSUME TypeInv, Cluster \/ Informers PROVE Touch
<1>1. ASSUME NEW step, NEW s \in Shares, NEW o \in Objects \cup {None},
             SetShare(step, s, o)
      PROVE  Touch
  <2>1. CASE o = None
    <3>1. refs' = refs
      BY <1>1, <2>1 DEF SetShare, TypeInv, TypeOK
    <3> QED BY <1>1, <3>1 DEF SetShare, Touch, Unseen
  <2>2. CASE o # None
    <3>1. refs' = [refs EXCEPT ![s] = @ \cup {o}]
      BY <1>1, <2>2 DEF SetShare
    <3> QED BY <1>1, <2>2, <3>1 DEF SetShare, Touch, Referred
  <2> QED BY <2>1, <2>2
<1>2. ASSUME NEW step, NEW o, NEW d, SetObj(step, o, d) PROVE Touch
  BY <1>2 DEF SetObj, Touch, Unseen
<1>3. ASSUME NEW step, NEW a, SetAllowed(step, a) PROVE Touch
  BY <1>3 DEF SetAllowed, Touch, Unseen
<1>4. CASE Cluster
  BY <1>1, <1>2, <1>3, <1>4
  DEF Cluster, DeleteShare, CreateShare, RetargetShare, DeleteObj, PutObj, Grant,
      Revoke
<1>5. CASE Informers
  BY <1>5 DEF Informers, SyncShare, RelistShare, SyncObj, ResyncObj,
              PruneInformers, Touch, Unseen
<1> QED BY <1>4, <1>5

\* A ranger step grants, withdraws or writes.
LEMMA RangerTouch ==
    ASSUME TypeInv, NEW t \in Threads, RangerStep(t) PROVE Touch
<1> USE DEF TypeInv, TypeOK
<1>0. th[t] \in ThreadType /\ RecOK(t, th[t])
  OBVIOUS
<1>1. CASE PassVisit(t)
  <2>1. authorized' = authorized \/ \E v \in Volumes : authorized' = authorized \cup {v}
    BY <1>0, <1>1 DEF PassVisit, ThreadType
  <2> QED BY <1>1, <2>1 DEF PassVisit, Touch, Unseen, Granted
<1>2. CASE PassFetch(t) \/ UpsertFilter(t)
  BY <1>2 DEF PassFetch, UpsertFilter, Touch, Unseen
<1>3. CASE PassDeny(t)
  <2>1. th[t].vol \in Volumes
    BY <1>0, <1>3 DEF PassDeny, RecOK
  <2> QED BY <1>3, <2>1 DEF PassDeny, Touch, Withdrawn
<1>4. CASE UpsertWrite(t)
  <2>1. th[t].vol \in Volumes
    BY <1>0, <1>4 DEF UpsertWrite, RecOK
  <2>2. content' = content \/ content' = [content EXCEPT ![th[t].vol] = th[t].item]
    BY <1>4, <2>1 DEF UpsertWrite, Written
  <2> QED BY <1>4, <2>2 DEF UpsertWrite, Touch, Unseen, WrittenBy
<1> QED BY <1>1, <1>2, <1>3, <1>4 DEF RangerStep

\* The share worker and the object worker otherwise only withdraw.
LEMMA WorkerTouch == ASSUME TypeInv, ShareWorker \/ ObjWorker PROVE Touch
<1> USE DEF TypeInv, TypeOK
<1>0. /\ "share" \in Threads /\ "obj" \in Threads
      /\ th["share"].todo \subseteq Volumes /\ th["obj"].todo \subseteq Volumes
  BY DEF Threads, ThreadType
<1>1. CASE DelSharedVisit
  <2>1. \E v \in Volumes : content' = content \/ content' = [content EXCEPT ![v] = None]
    BY <1>0, <1>1 DEF DelSharedVisit
  <2> QED BY <1>1, <2>1 DEF DelSharedVisit, Touch, Unseen, Withdrawn
<1>2. CASE DelObjCallback
  <2>1. \E v \in Volumes : content' = content \/ content' = [content EXCEPT ![v] = None]
    BY <1>0, <1>2 DEF DelObjCallback
  <2> QED BY <1>2, <2>1 DEF DelObjCallback, Touch, Unseen, Withdrawn
<1>3. CASE SyncShared \/ AddShared \/ SyncSharedPrune
  BY <1>3 DEF SyncShared, AddShared, SyncSharedPrune, Touch, Unseen
<1>4. CASE SyncObject \/ UpsertObjShare \/ UpsertObjShares \/ UpsertObjCallback
  BY <1>4 DEF SyncObject, UpsertObjShare, UpsertObjShares, UpsertObjCallback, Touch,
              Unseen
<1> QED BY <1>0, <1>1, <1>2, <1>3, <1>4, RangerTouch DEF ShareWorker, ObjWorker

\* A handler grants or withdraws; a start and an end of the process are not seen.
LEMMA HandlerTouch ==
    ASSUME TypeInv, HandlerStep \/ Crash \/ MapPanic PROVE Touch
<1> USE DEF TypeInv, TypeOK
<1>1. CASE PublishMount
  <2>1. th["node"].cur \in Volumes
    BY <1>1 DEF PublishMount, RecOK, Threads
  <2> QED BY <1>1, <2>1 DEF PublishMount, Touch, Unseen, Withdrawn
<1>2. ASSUME NEW v \in Volumes, NodeUnpublishVolume(v) PROVE Touch
  BY <1>2 DEF NodeUnpublishVolume, deleteVolume, Touch, Withdrawn
<1>3. ASSUME NEW v \in Volumes, NodePublishVolume(v) PROVE Touch
  BY <1>3 DEF NodePublishVolume, Touch, Granted
<1>4. CASE mapBackingResourceToPod \/ RegisterUpsertCallback
           \/ RegisterDeleteCallback \/ RegisterSharedUpdateCallback
  BY <1>4 DEF mapBackingResourceToPod, RegisterUpsertCallback,
              RegisterDeleteCallback, RegisterSharedUpdateCallback, Touch, Unseen
<1>5. CASE RegisterRangersEnd \/ StartController \/ Crash \/ MapPanic
  BY <1>5 DEF RegisterRangersEnd, StartController, Crash, MapPanic, Touch, Unseen
<1>6. ASSUME NEW v \in Volumes, LoadVol(v) PROVE Touch
  BY <1>6 DEF LoadVol, Touch, Unseen
<1> QED BY <1>1, <1>2, <1>3, <1>4, <1>5, <1>6 DEF HandlerStep, Kubelet

\* Every step of the specification touches the view in one of those ways.
LEMMA NextTouch == ASSUME TypeInv, [Next]_vars PROVE Touch
<1>1. CASE UNCHANGED vars
  BY <1>1 DEF vars, Touch, Unseen
<1>2. NodeStep \/ Kubelet => HandlerStep \/ MapPanic \/ RangerStep("node")
  BY DEF NodeStep, HandlerStep
<1>3. "node" \in Threads
  BY DEF Threads
<1> QED BY <1>1, <1>2, <1>3, OutsideTouch, WorkerTouch, HandlerTouch, RangerTouch
        DEF Next

\* Whatever touches the view is a step of VolumeView: a thread about to write works
\* for an authorized volume and holds an object its share has referenced.
LEMMA ViewStep ==
    ASSUME TypeInv, AuthInv, ProvInv, Touch
    PROVE  [View!Next]_(View!viewVars)
<1> USE DEF View!Next, View!viewVars
<1> DEFINE O == [v \in Volumes |-> refs[ShareOf[v]]]
<1>1. CASE Unseen
  BY <1>1 DEF Unseen
<1>2. ASSUME NEW s \in Shares, NEW o \in Objects,
             refs' = [refs EXCEPT ![s] = @ \cup {o}], UNCHANGED <<content, authorized>>
      PROVE  View!Next
  <2> DEFINE W == {v \in Volumes : ShareOf[v] = s}
  <2>1. O' = [v \in Volumes |-> IF v \in W THEN O[v] \cup {o} ELSE O[v]]
    BY <1>2, ConstAssumption DEF TypeInv, TypeOK
  <2>2. W \in SUBSET Volumes
    OBVIOUS
  <2>3. View!Refer(W, o)
    BY <1>2, <2>1 DEF View!Refer
  <2> QED BY <2>2, <2>3
<1>3. CASE Granted
  BY <1>3 DEF Granted, View!GrantUse
<1>4. CASE Withdrawn
  BY <1>4 DEF Withdrawn, View!Withdraw
<1>5. ASSUME NEW t \in Threads, WrittenBy(t) PROVE View!Next
  <2> DEFINE v == th[t].vol
             i == th[t].item
  <2>1. v \in Volumes /\ i \in Items
    BY <1>5 DEF WrittenBy, TypeInv, RecOK
  <2>2. v \in authorized /\ i.obj \in refs[ShareOf[v]]
    BY <1>5, <2>1, ConstAssumption DEF WrittenBy, AuthInv, ProvInv
  <2>3. i.obj \in Objects /\ i.data \in Data /\ i = [obj |-> i.obj, data |-> i.data]
    BY <2>1 DEF Items
  <2> HIDE DEF v, i
  <2>4. content' = [content EXCEPT ![v] = [obj |-> i.obj, data |-> i.data]]
        /\ UNCHANGED <<authorized, refs>>
    BY <1>5, <2>3 DEF WrittenBy, v, i
  <2>5. View!Serve(v, i.obj, i.data)
    BY <2>1, <2>2, <2>4 DEF View!Serve
  <2> QED BY <2>1, <2>3, <2>5
<1> QED BY <1>1, <1>2, <1>3, <1>4, <1>5 DEF Touch, Referred

\* To a pod the driver is the abstract view: content appears whole, after a grant,
\* from an object the volume's own share has referenced, and otherwise disappears;
\* for any number of volumes, shares, objects and changes and across restarts.
THEOREM ViewRefinement == Spec => ImplementsView
<1>1. Init => View!Init
  BY ConstAssumption DEF Init, View!Init
<1>2. Init => AuthInv
  BY DEF Init, AuthInv, OnlyAuthorized, IdleThread
<1>3. Init => ProvInv
  BY ConstAssumption DEF Init, ProvInv, Provenance, IdleThread
<1>4. TypeInv /\ AuthInv /\ ProvInv /\ [Next]_vars => [View!Next]_(View!viewVars)
  BY NextTouch, ViewStep
<1> QED BY <1>1, <1>2, <1>3, <1>4, AuthStep, ProvStep, TypeInvariant, PTL
        DEF Spec, ImplementsView, View!Spec
=============================================================================
