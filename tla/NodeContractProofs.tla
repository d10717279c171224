------------------------- MODULE NodeContractProofs -------------------------
(***************************************************************************)
(* VolumeLifecycle implements NodeContract: for every set of volumes, any  *)
(* overlap of handlers and any number of faults, each system call of a     *)
(* handler, each step of the pruner and each restart is, to the kubelet,   *)
(* a step of the contract or none at all.                                  *)
(***************************************************************************)
EXTENDS VolumeLifecycleProofs

Late(v) == "timeout" \in marks[v]

\* Calls and answers are in order, also of a volume that is late: unpublish
\* handlers run only for deleted pods, and the kubelet waits for a publish of
\* what is not settled and for an unpublish of what may be mounted.
InOrder(v) ==
    /\ \A s \in Slots :
          pc[v][s] \in UnpublishPCs => pod[v] \in {"terminating", "gone"}
    /\ waiting[v] # None =>
          /\ pc[v][waiting[v]] \in PublishPCs => told[v] \in {"none", "uncertain"}
          /\ pc[v][waiting[v]] \in UnpublishPCs => told[v] \in {"published", "uncertain"}

\* What a restart would bring back is in place already.
Wired(v) == mounts[v] = 1 /\ file[v] = "full" => v \in dvs /\ v \in callbacks /\ v \in updates

ContractInv == /\ LifecycleInv
               /\ \A v \in Volumes : InOrder(v) /\ (~Late(v) => Wired(v))

-----------------------------------------------------------------------------
(* Facts about the steps                                                   *)

\* No step takes a mark back.
LEMMA MarksGrow ==
    ASSUME TypeOK, [Next]_vars, NEW v \in Volumes
    PROVE  marks[v] \subseteq marks'[v]
<1> USE DEF memVars, diskVars, histVars, kubeVars
<1>1. CASE UNCHANGED vars
  BY <1>1 DEF vars
<1>2. CASE Crash \/ PruneOpenFails
  BY <1>2 DEF Crash, PruneOpenFails, Restart
<1>3. CASE \/ PruneWalk \/ PruneVisit \/ PruneCollected \/ PruneUnmount \/ PruneEnd
           \/ \E u \in Volumes : PruneStat(u)
  BY <1>3 DEF PruneWalk, PruneVisit, PruneCollected, PruneUnmount, PruneEnd, PruneStat
<1>4. CASE \E u \in Volumes : \/ CreatePod(u) \/ DeletePod(u) \/ FinishPod(u)
                             \/ ForceDeletePod(u) \/ Kubelet(u) \/ Timeout(u)
                             \/ \E s \in Slots : Handler(u, s)
  BY <1>4 DEF TypeOK, CreatePod, DeletePod, FinishPod, ForceDeletePod, SetPod, Kubelet,
              CallPublish, CallUnpublish, Call, Timeout, Handler, NodePublishVolume,
              NodeUnpublishVolume, Create, Check, Mount, WriteFirst, Register, Store,
              Encode, Lookup, Unmount, RemoveTarget, Forget, Unregister, RemoveFile,
              Fails, Mark
<1>5. ASSUME NEW u \in Volumes, PruneRemove(u) PROVE marks[v] \subseteq marks'[v]
  <2>1. marks' = marks \/ marks' = [marks EXCEPT ![u] = @ \cup {"prune"}]
    BY <1>5 DEF PruneRemove
  <2> QED
    BY <2>1 DEF TypeOK
<1> QED
  BY <1>1, <1>2, <1>3, <1>4, <1>5 DEF Next, Prune

\* A step that leaves a volume alone is no step of its contract.
LEMMA SameStays ==
    ASSUME NEW v \in Volumes, Same(v)
    PROVE  /\ Contract!PodStep(v) /\ Contract!VolumeStep(v)
           /\ InOrder(v) => InOrder(v)'
           /\ (Wired(v) => Wired(v)') /\ (Late(v)' <=> Late(v))
<1>1. Contract!PodStep(v)
  BY DEF Same, Contract!PodStep
<1>2. Contract!Stay(v)
  BY DEF Same, Contract!Stay, Served
<1>3. InOrder(v) => InOrder(v)'
  BY DEF Same, InOrder
<1>4. (Wired(v) => Wired(v)') /\ (Late(v)' <=> Late(v))
  BY DEF Same, Wired, Late
<1> QED
  BY <1>1, <1>2, <1>3, <1>4 DEF Contract!VolumeStep

\* A step of a handler goes on in its own half, or answers: a publish with an
\* error or success, an unpublish with an error, or with success when it has
\* removed the file.
LEMMA HandlerMoves ==
    ASSUME NEW v \in Volumes, NEW s \in Slots, Handler(v, s)
    PROVE  \/ \E next \in PCs : /\ Go(v, s, next)
                                /\ pc[v][s] \in PublishPCs /\ next \in PublishPCs
           \/ \E next \in PCs : /\ Go(v, s, next)
                                /\ pc[v][s] \in UnpublishPCs /\ next \in UnpublishPCs
           \/ pc[v][s] \in PublishPCs \cup UnpublishPCs /\ Error(v, s)
           \/ pc[v][s] \in {"check", "store", "encode"} /\ Return(v, s, "published")
           \/ /\ pc[v][s] = "rmFile" /\ Return(v, s, "unpublished")
              /\ marks' = marks
<1> USE DEF PCs, PublishPCs, UnpublishPCs, Fails, histVars
<1>1. CASE NodePublishVolume(v, s)
  BY <1>1 DEF NodePublishVolume, Create, Check, Mount, WriteFirst, Register, Store, Encode
<1>2. CASE NodeUnpublishVolume(v, s)
  BY <1>2 DEF NodeUnpublishVolume, Lookup, Unmount, RemoveTarget, Forget, Unregister,
              RemoveFile
<1> QED
  BY <1>1, <1>2 DEF Handler

\* What the kubelet may hear from a step of a handler.
LEMMA HandlerAnswers ==
    ASSUME NEW v \in Volumes, NEW s \in Slots, TypeOK, Basic(v), InOrder(v), Handler(v, s)
    PROVE  /\ pod'[v] = pod[v] /\ pod[v] # "future"
           /\ pc[v][s] \in UnpublishPCs => pod[v] \in {"terminating", "gone"}
           /\ InOrder(v)'
           /\ \/ told'[v] = told[v]
              \/ told[v] \in {"none", "uncertain"} /\ told'[v] = "none"
              \/ /\ told[v] \in {"none", "uncertain"} /\ told'[v] = "published"
                 /\ pc[v][s] \in PublishPCs /\ pc'[v][s] = "idle"
              \/ /\ told[v] \in {"published", "uncertain"} /\ told'[v] = "unpublished"
                 /\ pc[v][s] = "rmFile"
<1> DEFINE Goal == /\ pod'[v] = pod[v]
                   /\ InOrder(v)'
                   /\ \/ told'[v] = told[v]
                      \/ told[v] \in {"none", "uncertain"} /\ told'[v] = "none"
                      \/ /\ told[v] \in {"none", "uncertain"} /\ told'[v] = "published"
                         /\ pc[v][s] \in PublishPCs /\ pc'[v][s] = "idle"
                      \/ /\ told[v] \in {"published", "uncertain"}
                         /\ told'[v] = "unpublished" /\ pc[v][s] = "rmFile"
<1>1. /\ waiting[v] \in Slots \cup {None} /\ None \notin Slots
      /\ PublishPCs \cap UnpublishPCs = {}
      /\ "idle" \notin PublishPCs \cup UnpublishPCs
  BY LifecycleAssumption DEF TypeOK, PublishPCs, UnpublishPCs
<1>2. pc[v][s] \in PublishPCs \cup UnpublishPCs
  BY HandlerMoves DEF PublishPCs, UnpublishPCs
<1>3. pod[v] # "future"
  BY <1>1, <1>2 DEF Basic, Idle
<1>4. ASSUME NEW next \in PCs, Go(v, s, next),
             (pc[v][s] \in PublishPCs /\ next \in PublishPCs)
                \/ (pc[v][s] \in UnpublishPCs /\ next \in UnpublishPCs)
      PROVE  Goal
  BY <1>1, <1>4, GoStep DEF InOrder
<1>5. ASSUME Error(v, s) PROVE Goal
  BY <1>1, <1>2, <1>5, ErrorStep DEF InOrder
<1>6. ASSUME pc[v][s] \in {"check", "store", "encode"}, Return(v, s, "published")
      PROVE  Goal
  <2>1. pc[v][s] \in PublishPCs
    BY <1>6 DEF PublishPCs
  <2> QED
    BY <1>1, <1>6, <2>1, ReturnStep DEF InOrder
<1>7. ASSUME pc[v][s] = "rmFile", Return(v, s, "unpublished") PROVE Goal
  <2>1. pc[v][s] \in UnpublishPCs
    BY <1>7 DEF UnpublishPCs
  <2> QED
    BY <1>1, <1>7, <2>1, ReturnStep DEF InOrder
<1>8. Goal
  BY <1>4, <1>5, <1>6, <1>7, HandlerMoves
<1> QED
  BY <1>3, <1>8 DEF InOrder

\* Only the last step of a publish completes the file, and then all else is in
\* place; an unpublish takes the mount away first.
LEMMA HandlerWires ==
    ASSUME NEW v \in Volumes, NEW s \in Slots, TypeOK, Timely(v), Wired(v), Handler(v, s)
    PROVE  /\ Wired(v)'
           /\ pc[v][s] \in UnpublishPCs => (Served(v)' => Served(v))
<1> USE DEF memVars, diskVars
<1>1. mounts[v] \in Nat /\ mounts[v] <= 1 /\ PublishPCs \cap UnpublishPCs = {}
  BY DEF TypeOK, Timely, PublishPCs, UnpublishPCs
<1>2. CASE NodePublishVolume(v, s)
  <2>1. pc[v][s] \in PublishPCs
    BY <1>2 DEF NodePublishVolume, Create, Check, Mount, WriteFirst, Register, Store,
                Encode, PublishPCs
  <2>2. file[v] # "full"
    BY <2>1 DEF Timely, Publishing
  <2>3. CASE Encode(v, s)
    <3>1. v \in dvs /\ v \in callbacks /\ v \in updates
      BY <2>3 DEF Encode, Timely, Publishing, PublishPCs
    <3>2. dvs' = dvs /\ callbacks' = callbacks /\ updates' = updates
      BY <2>3 DEF Encode
    <3> QED
      BY <1>1, <2>1, <3>1, <3>2 DEF Wired
  <2>4. CASE ~Encode(v, s)
    <3>1. file'[v] # "full"
      BY <1>2, <2>2, <2>4
         DEF TypeOK, NodePublishVolume, Create, Check, Mount, WriteFirst, Register, Store
    <3> QED
      BY <1>1, <2>1, <3>1 DEF Wired
  <2> QED
    BY <2>3, <2>4
<1>3. CASE NodeUnpublishVolume(v, s)
  <2>1. CASE Lookup(v, s) \/ RemoveTarget(v, s)
    BY <2>1 DEF Lookup, RemoveTarget, Wired, Served
  <2>2. CASE Unmount(v, s)
    <3>1. CASE mounts' = mounts
      BY <2>2, <3>1 DEF Unmount, Wired, Served
    <3>2. CASE mounts[v] > 0 /\ mounts' = [mounts EXCEPT ![v] = @ - 1]
      <4>1. mounts'[v] = 0
        BY <1>1, <3>2 DEF TypeOK
      <4> QED
        BY <4>1 DEF Wired, Served
    <3> QED
      BY <2>2, <3>1, <3>2 DEF Unmount
  <2>3. CASE Forget(v, s) \/ Unregister(v, s)
    <3>1. mounts'[v] = 0
      BY <2>3 DEF Forget, Unregister, Timely, Unpublishing, CleanupPCs
    <3> QED
      BY <3>1 DEF Wired, Served
  <2>4. CASE RemoveFile(v, s)
    <3>1. mounts'[v] = 0
      BY <2>4 DEF RemoveFile, Timely, Unpublishing, CleanupPCs
    <3> QED
      BY <3>1 DEF Wired, Served
  <2> QED
    BY <1>3, <2>1, <2>2, <2>3, <2>4 DEF NodeUnpublishVolume
<1> QED
  BY <1>2, <1>3 DEF Handler

\* A step of a handler is a step of its volume's contract.
LEMMA HandlerContract ==
    ASSUME ContractInv, NEW v \in Volumes, NEW s \in Slots, Handler(v, s),
           marks[v] \subseteq marks'[v]
    PROVE  /\ Contract!PodStep(v) /\ Contract!VolumeStep(v)
           /\ InOrder(v)' /\ (~Late(v)' => Wired(v)')
<1>1. TypeOK /\ VolumeInv(v) /\ InOrder(v) /\ Basic(v) /\ (~Late(v) => Wired(v))
  BY DEF ContractInv, LifecycleInv, VolumeInv
<1>2. VolumeInv(v)'
  BY HandlerInv DEF ContractInv
<1> DEFINE Answer ==
      \/ told'[v] = told[v]
      \/ told[v] \in {"none", "uncertain"} /\ told'[v] = "none"
      \/ /\ told[v] \in {"none", "uncertain"} /\ told'[v] = "published"
         /\ pc[v][s] \in PublishPCs /\ pc'[v][s] = "idle"
      \/ /\ told[v] \in {"published", "uncertain"} /\ told'[v] = "unpublished"
         /\ pc[v][s] = "rmFile"
<1>3. /\ pod'[v] = pod[v] /\ pod[v] # "future" /\ InOrder(v)' /\ Answer
      /\ pc[v][s] \in UnpublishPCs => pod[v] \in {"terminating", "gone"}
  BY <1>1, HandlerAnswers
<1>4. Contract!PodStep(v)
  BY <1>3 DEF Contract!PodStep
<1>5. CASE Late(v)'
  <2>1. Contract!Overrun(v)
    BY <1>3, <1>5 DEF Contract!Overrun, Contract!Unsettled, Contract!Deleted, Late,
                      UnpublishPCs
  <2> QED
    BY <1>3, <1>4, <1>5, <2>1 DEF Contract!VolumeStep
<1>6. CASE ~Late(v)'
  <2>1. ~Late(v) /\ Timely(v) /\ Timely(v)'
    BY <1>1, <1>2, <1>6 DEF Late, VolumeInv
  <2>2. Wired(v)' /\ (pc[v][s] \in UnpublishPCs => (Served(v)' => Served(v)))
    BY <1>1, <2>1, HandlerWires
  <2>3. (Served(v) => told[v] = "published") /\ (Served(v)' => told'[v] = "published")
    BY <2>1 DEF Timely, Served
  <2>4. ASSUME told'[v] = told[v] PROVE Contract!VolumeStep(v)
    <3>1. CASE Served(v)' <=> Served(v)
      BY <2>4, <3>1 DEF Contract!VolumeStep, Contract!Stay
    <3>2. CASE ~(Served(v)' <=> Served(v))
      <4>1. told[v] = "published"
        BY <2>3, <2>4, <3>2
      <4>2. pc[v][s] \in UnpublishPCs
        BY <2>1, <4>1, HandlerMoves DEF Timely, Publishing, PublishPCs, UnpublishPCs
      <4>3. Served(v) /\ ~Served(v)' /\ pod[v] \in {"terminating", "gone"}
        BY <1>3, <2>2, <3>2, <4>2
      <4>4. Contract!Withdraw(v)
        BY <2>4, <4>1, <4>3 DEF Contract!Withdraw, Contract!Deleted
      <4> QED
        BY <4>4 DEF Contract!VolumeStep
    <3> QED
      BY <3>1, <3>2
  <2>5. ASSUME told[v] \in {"none", "uncertain"}, told'[v] = "none"
        PROVE  Contract!VolumeStep(v)
    BY <2>3, <2>5 DEF Contract!VolumeStep, Contract!GiveUp, Contract!Unsettled
  <2>6. ASSUME told[v] \in {"none", "uncertain"}, told'[v] = "published",
               pc[v][s] \in PublishPCs, pc'[v][s] = "idle"
        PROVE  Contract!VolumeStep(v)
    <3>1. CASE Served(v)'
      BY <1>3, <2>3, <2>6, <3>1
         DEF Contract!VolumeStep, Contract!Publish, Contract!Unsettled
    <3>2. CASE ~Served(v)'
      <4>1. waiting[v] = s /\ \A r \in Slots \ {s} : pc[v][r] = "idle"
        BY <2>1, <2>6, Alone DEF PublishPCs
      <4>2. \A r \in Slots : pc'[v][r] = "idle"
        <5>1. \A r \in Slots \ {s} : pc'[v][r] = pc[v][r]
          BY <1>1, HandlerMoves, GoStep, ErrorStep, ReturnStep
        <5> QED
          BY <2>6, <4>1, <5>1
      <4>3. marks'[v] # {}
        BY <1>2, <2>6, <3>2, <4>2 DEF VolumeInv, Undisturbed, CleanupPCs
      <4>4. Contract!HalfPublish(v)
        BY <1>3, <2>3, <2>6, <3>2, <4>3 DEF Contract!HalfPublish, Contract!Unsettled
      <4> QED
        BY <4>4 DEF Contract!VolumeStep
    <3> QED
      BY <3>1, <3>2
  <2>7. ASSUME told[v] \in {"published", "uncertain"}, told'[v] = "unpublished",
               pc[v][s] = "rmFile"
        PROVE  Contract!VolumeStep(v)
    <3>1. pod[v] \in {"terminating", "gone"}
      BY <1>3, <2>7 DEF UnpublishPCs
    <3>2. ~Served(v) /\ ~Served(v)'
      BY <2>1, <2>3, <2>7 DEF Timely, Unpublishing, CleanupPCs, Served
    <3>3. Contract!Unpublish(v)
      BY <2>7, <3>1, <3>2 DEF Contract!Unpublish, Contract!Deleted
    <3> QED
      BY <3>3 DEF Contract!VolumeStep
  <2> QED
    BY <1>3, <1>4, <2>2, <2>4, <2>5, <2>6, <2>7
<1> QED
  BY <1>5, <1>6

\* Pods only move on, and the volume does not notice.
LEMMA PodContract ==
    ASSUME ContractInv, NEW v \in Volumes,
           CreatePod(v) \/ DeletePod(v) \/ FinishPod(v) \/ ForceDeletePod(v)
    PROVE  /\ Contract!PodStep(v) /\ Contract!VolumeStep(v)
           /\ InOrder(v)' /\ (~Late(v)' => Wired(v)')
<1>1. TypeOK /\ InOrder(v) /\ (~Late(v) => Wired(v))
  BY DEF ContractInv, LifecycleInv
<1>2. /\ Contract!PodStep(v)
      /\ pod[v] \in {"terminating", "gone"} => pod'[v] \in {"terminating", "gone"}
      /\ UNCHANGED <<told, waiting, pc, dvs, callbacks, updates, file, mounts, marks>>
  BY <1>1 DEF TypeOK, CreatePod, DeletePod, FinishPod, ForceDeletePod, SetPod, Exists,
              memVars, diskVars, Contract!PodStep
<1>3. Contract!VolumeStep(v)
  BY <1>2 DEF Contract!VolumeStep, Contract!Stay, Served
<1>4. InOrder(v)' /\ (~Late(v)' => Wired(v)')
  BY <1>1, <1>2 DEF InOrder, Wired, Late
<1> QED
  BY <1>2, <1>3, <1>4

\* A call is not yet an answer; it is made in order.
LEMMA CallContract ==
    ASSUME ContractInv, NEW v \in Volumes, Kubelet(v)
    PROVE  /\ Contract!PodStep(v) /\ Contract!VolumeStep(v)
           /\ InOrder(v)' /\ (~Late(v)' => Wired(v)')
<1>1. TypeOK /\ InOrder(v) /\ (~Late(v) => Wired(v))
  BY DEF ContractInv, LifecycleInv
<1>2. PICK first \in {"create", "lookup"} :
         /\ Call(v, first)
         /\ first = "create" => told[v] \in {"none", "uncertain"}
         /\ first = "lookup" => /\ told[v] \in {"published", "uncertain"}
                               /\ pod[v] \in {"terminating", "gone"}
  BY DEF Kubelet, CallPublish, CallUnpublish
<1>3. PICK s \in Slots : /\ waiting' = [waiting EXCEPT ![v] = s]
                         /\ pc' = [pc EXCEPT ![v][s] = first]
  BY <1>2 DEF Call
<1>4. /\ waiting'[v] = s /\ pc'[v][s] = first
      /\ \A r \in Slots \ {s} : pc'[v][r] = pc[v][r]
      /\ UNCHANGED <<pod, told, dvs, callbacks, updates, file, mounts, marks>>
  BY <1>1, <1>2, <1>3 DEF TypeOK, Call, memVars, diskVars, histVars
<1>5. Contract!PodStep(v) /\ Contract!VolumeStep(v)
  BY <1>4 DEF Contract!PodStep, Contract!VolumeStep, Contract!Stay, Served
<1>6. InOrder(v)'
  BY <1>1, <1>2, <1>4 DEF InOrder, PublishPCs, UnpublishPCs
<1>7. ~Late(v)' => Wired(v)'
  BY <1>1, <1>4 DEF Wired, Late
<1> QED
  BY <1>5, <1>6, <1>7

\* A deadline leaves a publish in doubt and makes the volume late.
LEMMA TimeoutContract ==
    ASSUME ContractInv, NEW v \in Volumes, Timeout(v)
    PROVE  /\ Contract!PodStep(v) /\ Contract!VolumeStep(v)
           /\ InOrder(v)' /\ (~Late(v)' => Wired(v)')
<1>1. TypeOK /\ InOrder(v) /\ Basic(v)
  BY DEF ContractInv, LifecycleInv, VolumeInv
<1>2. /\ waiting[v] # None /\ waiting'[v] = None /\ "timeout" \in marks'[v]
      /\ UNCHANGED <<pod, pc>>
      /\ told'[v] = IF pc[v][waiting[v]] \in PublishPCs THEN "uncertain" ELSE told[v]
  BY <1>1, MarkStep DEF TypeOK, Timeout
<1>3. pod[v] # "future"
  BY <1>1, <1>2 DEF Basic
<1>4. Contract!Overrun(v) /\ Contract!PodStep(v)
  BY <1>1, <1>2, <1>3
     DEF InOrder, Contract!Overrun, Contract!Unsettled, Contract!PodStep
<1>5. InOrder(v)' /\ Late(v)'
  BY <1>1, <1>2 DEF InOrder, Late
<1> QED
  BY <1>4, <1>5 DEF Contract!VolumeStep

\* A restart interrupts what runs; what is served stays served.
LEMMA RestartContract ==
    ASSUME ContractInv, Restart, NEW v \in Volumes
    PROVE  /\ Contract!PodStep(v) /\ Contract!VolumeStep(v)
           /\ InOrder(v)' /\ (~Late(v)' => Wired(v)')
<1>1. TypeOK /\ InOrder(v) /\ Basic(v) /\ VolumeInv(v) /\ (~Late(v) => Wired(v))
  BY DEF ContractInv, LifecycleInv, VolumeInv
<1>2. /\ \A s \in Slots : pc'[v][s] = "idle"
      /\ waiting'[v] = None
      /\ told'[v] = IF waiting[v] # None /\ pc[v][waiting[v]] \in PublishPCs
                    THEN "uncertain" ELSE told[v]
      /\ (v \in dvs' <=> file[v] = "full") /\ (v \in callbacks' <=> file[v] = "full")
      /\ (v \in updates' <=> file[v] = "full")
      /\ marks'[v] = IF Idle(v) THEN marks[v] ELSE marks[v] \cup {"crash"}
      /\ UNCHANGED <<pod, file, mounts>>
  BY <1>1 DEF Restart, loadVolsFromDisk, diskVars
<1>3. waiting[v] # None => waiting[v] \in Slots
  BY <1>1 DEF TypeOK
<1>4. InOrder(v)' /\ Wired(v)' /\ Contract!PodStep(v)
  BY <1>2 DEF InOrder, Wired, Contract!PodStep, UnpublishPCs
<1>5. CASE waiting[v] # None /\ pc[v][waiting[v]] \in PublishPCs
  <2>1. /\ told[v] \in {"none", "uncertain"} /\ told'[v] = "uncertain"
        /\ pod[v] # "future" /\ marks'[v] # {}
    BY <1>1, <1>2, <1>3, <1>5 DEF InOrder, Basic, Idle, PublishPCs
  <2>2. CASE Late(v)
    <3>1. Contract!Overrun(v)
      BY <1>2, <2>1, <2>2 DEF Late, Contract!Overrun, Contract!Unsettled
    <3> QED
      BY <1>4, <3>1 DEF Contract!VolumeStep
  <2>3. CASE ~Late(v)
    <3>1. file[v] # "full"
      BY <1>1, <2>1, <2>3 DEF Late, VolumeInv, Timely
    <3>2. Contract!GiveUp(v)
      BY <1>2, <2>1, <3>1 DEF Served, Contract!GiveUp, Contract!Unsettled
    <3> QED
      BY <1>4, <3>2 DEF Contract!VolumeStep
  <2> QED
    BY <2>2, <2>3
<1>6. CASE ~(waiting[v] # None /\ pc[v][waiting[v]] \in PublishPCs)
  <2>1. told'[v] = told[v]
    BY <1>2, <1>6
  <2>2. CASE Late(v)
    <3>1. Contract!Overrun(v)
      BY <1>2, <2>1, <2>2 DEF Late, Contract!Overrun
    <3> QED
      BY <1>4, <3>1 DEF Contract!VolumeStep
  <2>3. CASE ~Late(v)
    <3>1. Served(v)' <=> Served(v)
      BY <1>1, <1>2, <2>3 DEF Served, Wired
    <3>2. Contract!Stay(v)
      BY <2>1, <3>1 DEF Contract!Stay
    <3> QED
      BY <1>4, <3>2 DEF Contract!VolumeStep
  <2> QED
    BY <2>2, <2>3
<1> QED
  BY <1>5, <1>6

\* What Prune takes away was the volume of a pod that is gone.
LEMMA PrunedContract ==
    ASSUME ContractInv, NEW v \in Volumes, Targeted(v),
           pod'[v] = pod[v], told'[v] = told[v], waiting'[v] = waiting[v], pc'[v] = pc[v],
           (v \in dvs') = (v \in dvs), (v \in callbacks') = (v \in callbacks),
           (v \in updates') = (v \in updates),
           marks[v] \subseteq marks'[v], ~Late(v) => ~(mounts'[v] = 1 /\ file'[v] = "full")
    PROVE  /\ Contract!PodStep(v) /\ Contract!VolumeStep(v)
           /\ InOrder(v)' /\ (~Late(v)' => Wired(v)')
<1>1. TypeOK /\ InOrder(v) /\ Basic(v) /\ VolumeInv(v)
  BY DEF ContractInv, LifecycleInv, VolumeInv
<1>2. pod[v] = "gone"
  BY <1>1 DEF Basic
<1>3. InOrder(v)' /\ Contract!PodStep(v)
  BY <1>1 DEF InOrder, Contract!PodStep
<1>4. CASE Late(v)
  <2>1. Contract!Overrun(v) /\ Late(v)'
    BY <1>4 DEF Late, Contract!Overrun
  <2> QED
    BY <1>3, <2>1 DEF Contract!VolumeStep
<1>5. CASE ~Late(v)
  <2>1. ~Served(v)' /\ Wired(v)'
    BY <1>5 DEF Served, Wired
  <2>2. CASE Served(v)
    <3>1. told[v] = "published"
      BY <1>1, <1>5, <2>2 DEF Late, VolumeInv, Timely, Served
    <3>2. Contract!Withdraw(v)
      BY <1>2, <2>1, <2>2, <3>1 DEF Contract!Withdraw, Contract!Deleted
    <3> QED
      BY <1>3, <2>1, <3>2 DEF Contract!VolumeStep
  <2>3. CASE ~Served(v)
    <3>1. Contract!Stay(v)
      BY <2>1, <2>3 DEF Contract!Stay
    <3> QED
      BY <1>3, <2>1, <3>1 DEF Contract!VolumeStep
  <2> QED
    BY <2>2, <2>3
<1> QED
  BY <1>4, <1>5

\* A step of the pruner is a step of every volume's contract.
LEMMA PruneContract ==
    ASSUME ContractInv, Prune, NEW v \in Volumes
    PROVE  /\ Contract!PodStep(v) /\ Contract!VolumeStep(v)
           /\ InOrder(v)' /\ (~Late(v)' => Wired(v)')
<1>1. TypeOK /\ InOrder(v) /\ VolumeInv(v) /\ mounts[v] \in Nat /\ (~Late(v) => Wired(v))
  BY DEF ContractInv, LifecycleInv, TypeOK
<1>2. CASE Same(v)
  BY <1>1, <1>2, SameStays
<1> USE DEF PrunerStep, kubeVars, memVars, histVars
<1>3. CASE \/ PruneWalk \/ PruneVisit \/ PruneCollected \/ PruneEnd
           \/ \E u \in Volumes : PruneStat(u)
  BY <1>2, <1>3 DEF PruneWalk, PruneVisit, Visited, PruneCollected, PruneEnd, PruneStat, Same
<1>4. CASE PruneOpenFails
  BY <1>4, RestartContract DEF PruneOpenFails
<1>5. ASSUME NEW u \in Volumes, PruneRemove(u), ~Same(v)
      PROVE  /\ Contract!PodStep(v) /\ Contract!VolumeStep(v)
             /\ InOrder(v)' /\ (~Late(v)' => Wired(v)')
  <2>1. u = v /\ file[v] # "absent"
    BY <1>1, <1>5 DEF PruneRemove, Same, TypeOK
  <2>2. /\ file'[v] = "absent" /\ marks'[v] = marks[v] \cup {"prune"} /\ Targeted(v)
        /\ UNCHANGED <<pod, told, waiting, pc, dvs, callbacks, updates>>
    BY <1>1, <1>5, <2>1 DEF PruneRemove, TypeOK, Targeted
  <2> QED
    BY <2>2, PrunedContract
<1>6. ASSUME PruneUnmount, ~Same(v)
      PROVE  /\ Contract!PodStep(v) /\ Contract!VolumeStep(v)
             /\ InOrder(v)' /\ (~Late(v)' => Wired(v)')
  <2>1. v = pruner.vol
    BY <1>1, <1>6 DEF PruneUnmount, Same, TypeOK
  <2>2. /\ mounts'[v] = (IF mounts[v] > 0 THEN mounts[v] - 1 ELSE mounts[v]) /\ Targeted(v)
        /\ UNCHANGED <<pod, told, waiting, pc, dvs, callbacks, updates, marks>>
    BY <1>1, <1>6, <2>1 DEF PruneUnmount, TypeOK, Targeted
  <2>3. ~Late(v) => mounts'[v] # 1
    BY <1>1, <2>2 DEF VolumeInv, Timely, Late
  <2> QED
    BY <2>2, <2>3, PrunedContract
<1> QED
  BY <1>2, <1>3, <1>4, <1>5, <1>6 DEF Prune

\* Every step is a step of every volume's contract and keeps the invariant.
LEMMA ContractStep ==
    ASSUME ContractInv, [Next]_vars, NEW u \in Volumes
    PROVE  /\ Contract!PodStep(u) /\ Contract!VolumeStep(u)
           /\ InOrder(u)' /\ (~Late(u)' => Wired(u)')
<1>1. TypeOK /\ InOrder(u) /\ (~Late(u) => Wired(u)) /\ marks[u] \subseteq marks'[u]
  BY MarksGrow DEF ContractInv, LifecycleInv
<1>2. CASE Same(u)
  BY <1>1, <1>2, SameStays
<1>3. CASE UNCHANGED vars
  BY <1>2, <1>3 DEF vars, kubeVars, memVars, diskVars, histVars, Same
<1>4. ASSUME NEW v \in Volumes, v # u,
             \/ CreatePod(v) \/ DeletePod(v) \/ FinishPod(v) \/ ForceDeletePod(v)
             \/ Kubelet(v) \/ Timeout(v) \/ \E s \in Slots : Handler(v, s)
      PROVE  Same(u)
  BY <1>1, <1>4, KubeFrame, HandlerFrame
<1>5. CASE \/ CreatePod(u) \/ DeletePod(u) \/ FinishPod(u) \/ ForceDeletePod(u)
           \/ Kubelet(u) \/ Timeout(u) \/ \E s \in Slots : Handler(u, s)
  BY <1>1, <1>5, PodContract, CallContract, TimeoutContract, HandlerContract
<1>6. CASE Prune \/ Crash
  BY <1>6, PruneContract, RestartContract DEF Crash
<1> QED
  BY <1>2, <1>3, <1>4, <1>5, <1>6 DEF Next

-----------------------------------------------------------------------------
(* The tmpfs of a published volume, also of one that is late               *)

\* Until its pod is deleted, a volume keeps the tmpfs that a publish handler
\* has mounted or found.
Secured(v) ==
    pod[v] \in {"future", "live"} =>
        /\ told[v] = "published" => mounts[v] > 0
        /\ \A s \in Slots : pc[v][s] \in MountedPCs => mounts[v] > 0

\* A publish handler adds a tmpfs and takes none away, and says "published"
\* only where it has mounted or found one; an unpublish handler runs only for
\* a deleted pod.
LEMMA HandlerSecures ==
    ASSUME TypeOK, NEW v \in Volumes, NEW s \in Slots, InOrder(v), Handler(v, s), Secured(v)
    PROVE  Secured(v)'
<1> USE DEF memVars, diskVars
<1>1. mounts[v] \in Nat
  BY DEF TypeOK
<1>2. CASE NodeUnpublishVolume(v, s)
  <2>1. pc[v][s] \in UnpublishPCs
    BY <1>2 DEF NodeUnpublishVolume, Lookup, Unmount, RemoveTarget, Forget, Unregister,
                RemoveFile, UnpublishPCs
  <2>2. pod'[v] = pod[v]
    BY HandlerMoves, GoStep, ErrorStep, ReturnStep
  <2> QED
    BY <2>1, <2>2 DEF InOrder, Secured
<1>3. CASE Mount(v, s)
  <2>1. CASE Go(v, s, "write") /\ mounts' = [mounts EXCEPT ![v] = @ + 1]
    <3>1. mounts'[v] > 0
      BY <1>1, <2>1 DEF TypeOK
    <3> QED
      BY <3>1 DEF Secured
  <2>2. CASE Error(v, s) /\ mounts' = mounts
    BY <1>3, <2>2, ErrorStep DEF Mount, Secured, MountedPCs, PublishPCs
  <2> QED
    BY <1>3, <2>1, <2>2 DEF Mount, Fails
<1>4. CASE Check(v, s)
  <2>1. mounts' = mounts
    BY <1>4 DEF Check
  <2>2. CASE mounts[v] > 0
    BY <2>1, <2>2 DEF Secured
  <2>3. CASE Go(v, s, "mount")
    BY <2>1, <2>3, GoStep DEF Secured, MountedPCs
  <2>4. CASE Error(v, s)
    BY <1>4, <2>1, <2>4, ErrorStep DEF Check, Secured, MountedPCs, PublishPCs
  <2> QED
    BY <1>4, <2>2, <2>3, <2>4 DEF Check, Fails
<1>5. CASE Create(v, s)
  <2>1. mounts' = mounts /\ (Go(v, s, "check") \/ Error(v, s))
    BY <1>5 DEF Create
  <2> QED
    BY <1>5, <2>1, GoStep, ErrorStep DEF Create, Secured, MountedPCs, PublishPCs
<1>6. CASE WriteFirst(v, s) \/ Register(v, s) \/ Store(v, s) \/ Encode(v, s)
  <2>1. mounts' = mounts /\ pc[v][s] \in MountedPCs
    BY <1>6 DEF WriteFirst, Register, Store, Encode, MountedPCs
  <2>2. pod'[v] = pod[v]
    BY HandlerMoves, GoStep, ErrorStep, ReturnStep
  <2> QED
    BY <2>1, <2>2 DEF Secured
<1> QED
  BY <1>2, <1>3, <1>4, <1>5, <1>6 DEF Handler, NodePublishVolume

\* No step takes the tmpfs of a live pod's published volume away.
LEMMA SecuredStep ==
    ASSUME ContractInv, [Next]_vars, NEW u \in Volumes, Secured(u)
    PROVE  Secured(u)'
<1>1. TypeOK /\ InOrder(u) /\ Basic(u)
  BY DEF ContractInv, LifecycleInv, VolumeInv
<1>2. CASE Same(u)
  BY <1>2 DEF Same, Secured
<1>3. CASE UNCHANGED vars
  BY <1>3 DEF vars, kubeVars, diskVars, Secured
<1>4. ASSUME NEW v \in Volumes, v # u,
             \/ CreatePod(v) \/ DeletePod(v) \/ FinishPod(v) \/ ForceDeletePod(v)
             \/ Kubelet(v) \/ Timeout(v) \/ \E s \in Slots : Handler(v, s)
      PROVE  Same(u)
  BY <1>1, <1>4, KubeFrame, HandlerFrame
<1>5. CASE CreatePod(u) \/ DeletePod(u) \/ FinishPod(u) \/ ForceDeletePod(u)
  <2>1. /\ pod'[u] \in {"future", "live"} => pod[u] \in {"future", "live"}
        /\ UNCHANGED <<told, pc, mounts>>
    BY <1>1, <1>5 DEF TypeOK, CreatePod, DeletePod, FinishPod, ForceDeletePod, SetPod,
                      Exists, diskVars
  <2> QED
    BY <2>1 DEF Secured
<1>6. CASE Kubelet(u)
  <2>1. PICK first \in {"create", "lookup"} : Call(u, first)
    BY <1>6 DEF Kubelet, CallPublish, CallUnpublish
  <2>2. /\ \A s \in Slots : pc'[u][s] = pc[u][s] \/ pc'[u][s] = first
        /\ UNCHANGED <<pod, told, mounts>>
    BY <1>1, <2>1 DEF TypeOK, Call, diskVars
  <2> QED
    BY <2>1, <2>2 DEF Secured, MountedPCs
<1>7. CASE Timeout(u)
  <2>1. (told'[u] = told[u] \/ told'[u] = "uncertain") /\ UNCHANGED <<pod, pc, mounts>>
    BY <1>1, <1>7 DEF TypeOK, Timeout, diskVars
  <2> QED
    BY <2>1 DEF Secured
<1>8. CASE \E s \in Slots : Handler(u, s)
  BY <1>1, <1>8, HandlerSecures
<1>9. CASE Restart
  <2>1. /\ \A s \in Slots : pc'[u][s] = "idle"
        /\ told'[u] = told[u] \/ told'[u] = "uncertain"
        /\ UNCHANGED <<pod, mounts>>
    BY <1>1, <1>9 DEF Restart, diskVars
  <2> QED
    BY <2>1 DEF Secured, MountedPCs
<1>10. CASE Prune
  <2> USE DEF PrunerStep, kubeVars, memVars, histVars
  <2>1. CASE PruneUnmount /\ u = pruner.vol
    <3>1. Targeted(u) /\ pod' = pod
      BY <2>1 DEF PruneUnmount, Targeted
    <3> QED
      BY <1>1, <3>1 DEF Basic, Secured
  <2>2. CASE PruneUnmount /\ u # pruner.vol
    <3>1. mounts'[u] = mounts[u] /\ UNCHANGED <<pod, told, pc>>
      BY <1>1, <2>2 DEF TypeOK, PruneUnmount
    <3> QED
      BY <3>1 DEF Secured
  <2>3. CASE \/ PruneWalk \/ PruneVisit \/ PruneCollected \/ PruneEnd
             \/ \E v \in Volumes : PruneStat(v) \/ PruneRemove(v)
    <3>1. UNCHANGED <<pod, told, pc, mounts>>
      BY <2>3 DEF PruneWalk, PruneVisit, Visited, PruneCollected, PruneEnd, PruneStat,
                  PruneRemove
    <3> QED
      BY <3>1 DEF Secured
  <2> QED
    BY <1>9, <1>10, <2>1, <2>2, <2>3 DEF Prune, PruneOpenFails
<1> QED
  BY <1>2, <1>3, <1>4, <1>5, <1>6, <1>7, <1>8, <1>9, <1>10 DEF Next, Crash

-----------------------------------------------------------------------------
(* Theorems                                                                *)

\* The invariant the refinement rests on: what the running handlers have
\* established, the order of calls and answers, and that a restart brings back
\* nothing that is not there already.
THEOREM ContractInvariant ==
    Spec => []ContractInv
<1>1. Init => ContractInv
  BY InitInv DEF Init, ContractInv, InOrder, Wired, UnpublishPCs
<1>2. ContractInv /\ [Next]_vars => ContractInv'
  <2> SUFFICES ASSUME ContractInv, [Next]_vars PROVE ContractInv'
    OBVIOUS
  <2>1. LifecycleInv'
    BY NextInv DEF ContractInv
  <2> QED
    BY <2>1, ContractStep DEF ContractInv
<1> QED
  BY <1>1, <1>2, PTL DEF Spec

\* To the kubelet the node service is its contract: serving begins with the
\* answer "published", outlives restarts and ends only once the pod is deleted,
\* for any volumes, overlapping calls, errors, crashes and prunings
\* (nodeserver.go:185-321, driver.go:761-892).
THEOREM ContractRefinement ==
    Spec => ImplementsContract
<1>1. Init => Contract!Init
  BY DEF Init, Contract!Init, Served
<1>2. ContractInv /\ [Next]_vars => [Contract!Next]_(Contract!contractVars)
  <2> SUFFICES ASSUME ContractInv, [Next]_vars PROVE Contract!Next
    OBVIOUS
  <2>1. TypeOK /\ \A v \in Volumes : marks[v] \subseteq marks'[v]
    BY MarksGrow DEF ContractInv, LifecycleInv
  <2>2. \A v \in Volumes : Contract!PodStep(v) /\ Contract!VolumeStep(v)
    BY ContractStep
  <2> QED
    BY <2>1, <2>2 DEF Contract!Next
<1> QED
  BY <1>1, <1>2, ContractInvariant, PTL DEF Spec, ImplementsContract, Contract!Spec

\* Whatever keeps the contract, this driver included, serves a published and
\* undisturbed volume until its pod is deleted, and serves a volume that is not
\* late only between the two answers.
THEOREM ContractKeeps ==
    Spec => []Contract!Kept
<1>1. Contract!Init => Contract!Kept
  BY DEF Contract!Init, Contract!Kept
<1>2. Contract!Kept /\ [Contract!Next]_(Contract!contractVars) => Contract!Kept'
  <2>1. CASE UNCHANGED Contract!contractVars
    BY <2>1 DEF Contract!contractVars, Contract!Kept, Contract!Deleted
  <2>2. CASE Contract!Next
    BY <2>2 DEF Contract!Next, Contract!Kept, Contract!Deleted, Contract!PodStep,
                Contract!VolumeStep, Contract!Stay, Contract!Publish, Contract!HalfPublish,
                Contract!GiveUp, Contract!Withdraw, Contract!Unpublish, Contract!Overrun,
                Contract!Unsettled
  <2> QED
    BY <2>1, <2>2
<1> QED
  BY <1>1, <1>2, ContractRefinement, PTL DEF ImplementsContract, Contract!Spec

\* Whatever faults and overlapping calls a volume has met, a volume of a live pod
\* that the kubelet was told is published has a tmpfs: its container does not run
\* on the bare directory (nodeserver.go:233-257, 288-321, driver.go:829-892).
THEOREM PublishedIsMountedHolds ==
    Spec => []PublishedIsMounted
<1>1. Init => \A v \in Volumes : Secured(v)
  BY DEF Init, Secured, MountedPCs
<1>2. ContractInv /\ [Next]_vars /\ (\A v \in Volumes : Secured(v))
        => (\A v \in Volumes : Secured(v))'
  BY SecuredStep
<1>3. (\A v \in Volumes : Secured(v)) => PublishedIsMounted
  BY DEF Secured, PublishedIsMounted
<1> QED
  BY <1>1, <1>2, <1>3, ContractInvariant, PTL DEF Spec

\* No unpublish of an undisturbed volume ends with an error
\* (nodeserver.go:288-321).
THEOREM UnpublishNeverRefusedHolds ==
    Spec => UnpublishNeverRefused
<1> DEFINE Refused(v, s) == /\ pc[v][s] \in UnpublishPCs /\ pc'[v][s] = "idle"
                           /\ marks'[v] = {} /\ told'[v] # "unpublished"
<1>1. ASSUME LifecycleInv, [Next]_vars, NEW v \in Volumes, NEW s \in Slots, Refused(v, s)
      PROVE  FALSE
  <2>1. TypeOK /\ Timely(v) /\ Undisturbed(v) /\ marks[v] = {}
    BY <1>1, MarksGrow DEF LifecycleInv, VolumeInv
  <2>2. /\ waiting[v] = s /\ told[v] = "published"
        /\ \A r \in Slots \ {s} : pc[v][r] = "idle"
    BY <1>1, <2>1, Alone DEF Timely, Unpublishing, Undisturbed, UnpublishPCs
  <2>3. /\ file[v] = "full"
        /\ pc[v][s] \notin CleanupPCs => Served(v)
    BY <2>1, <2>2 DEF Undisturbed, Served, CleanupPCs
  <2>4. pc'[v][s] # pc[v][s] /\ ~Idle(v)
    BY <1>1 DEF UnpublishPCs, Idle
  <2>5. PICK r \in Slots : Handler(v, r)
    <3>1. ~Restart
      BY <1>1, <2>4 DEF Restart
    <3>2. ~Prune
      BY <2>4, <3>1 DEF Prune, PruneWalk, PruneOpenFails, PruneVisit, Visited,
                        PruneCollected, PruneUnmount, PruneEnd, PruneStat, PruneRemove,
                        PrunerStep
    <3>3. ASSUME NEW u \in Volumes,
                 \/ CreatePod(u) \/ DeletePod(u) \/ FinishPod(u) \/ ForceDeletePod(u)
                 \/ Timeout(u) \/ Kubelet(u)
          PROVE  FALSE
      <4>1. CASE Kubelet(u)
        <5>1. waiting[u] = None /\ u # v
          BY <2>2, <4>1, LifecycleAssumption DEF Kubelet, CallPublish, CallUnpublish, Call
        <5> QED
          BY <2>1, <2>4, <4>1, <5>1, KubeFrame DEF Same
      <4>2. CASE ~Kubelet(u)
        BY <2>4, <3>3, <4>2 DEF CreatePod, DeletePod, FinishPod, ForceDeletePod, SetPod,
                                Timeout
      <4> QED
        BY <4>1, <4>2
    <3>4. ASSUME NEW u \in Volumes, u # v, NEW r \in Slots, Handler(u, r) PROVE FALSE
      BY <2>1, <2>4, <3>4, HandlerFrame DEF Same
    <3> QED
      BY <1>1, <2>4, <3>1, <3>2, <3>3, <3>4 DEF Next, Crash, vars
  <2>6. r = s
    BY <2>2, <2>5, HandlerMoves DEF PublishPCs, UnpublishPCs
  <2>7. ~Fails(v, s)
    BY <1>1, <2>1, MarkStep DEF Fails
  <2>8. NodeUnpublishVolume(v, s)
    BY <1>1, <2>5, <2>6
       DEF Handler, NodePublishVolume, Create, Check, Mount, WriteFirst, Register, Store,
           Encode, UnpublishPCs
  <2>9. ASSUME NEW next, Go(v, s, next) PROVE pc'[v][s] = next
    BY <2>1, <2>9, GoStep
  <2>10. CASE Lookup(v, s)
    BY <1>1, <2>3, <2>9, <2>10 DEF Lookup, Served, CleanupPCs
  <2>11. CASE Unmount(v, s)
    BY <1>1, <2>3, <2>7, <2>9, <2>11 DEF Unmount, Served, CleanupPCs
  <2>12. CASE RemoveTarget(v, s) \/ Forget(v, s) \/ Unregister(v, s)
    BY <1>1, <2>9, <2>12 DEF RemoveTarget, Forget, Unregister
  <2>13. CASE RemoveFile(v, s)
    BY <1>1, <2>1, <2>2, <2>3, <2>7, <2>13, ReturnStep DEF RemoveFile
  <2> QED
    BY <2>8, <2>10, <2>11, <2>12, <2>13 DEF NodeUnpublishVolume
<1>2. LifecycleInv /\ [Next]_vars =>
        [\A v \in Volumes, s \in Slots :
           pc[v][s] \in UnpublishPCs /\ pc'[v][s] = "idle" /\ marks'[v] = {}
               => told'[v] = "unpublished"]_vars
  BY <1>1
<1> QED
  BY <1>2, LifecycleInvariant, PTL DEF Spec, UnpublishNeverRefused
=============================================================================
