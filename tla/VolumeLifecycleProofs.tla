----------------------- MODULE VolumeLifecycleProofs -----------------------
(***************************************************************************)
(* Proofs about VolumeLifecycle, for every set of volumes, every number of *)
(* overlapping handlers and every number of faults.                        *)
(*                                                                         *)
(* The properties are not inductive: a volume is mounted once because only *)
(* one handler of it runs unless a call outlives its deadline, the pruner  *)
(* leaves a running publish alone because a complete file means that the   *)
(* kubelet was told, and so on. LifecycleInv says, volume by volume, what  *)
(* each step of a handler has established.                                 *)
(***************************************************************************)
EXTENDS VolumeLifecycle, TLAPS

MountedPCs == {"write", "register", "store", "encode"}
CleanupPCs == {"remove", "forget", "unregister", "rmFile"}

Targeted(v) == \/ v \in pruner.found
               \/ pruner.pc = "unmount" /\ v = pruner.vol

\* Nothing is known of a volume whose pod was never created, and the kubelet
\* waits only for handlers that run. Both hold whatever happens.
Basic(v) ==
    /\ pod[v] = "future" => /\ told[v] = "none" /\ waiting[v] = None /\ Idle(v)
                            /\ file[v] = "absent"
    /\ waiting[v] # None => pc[v][waiting[v]] # "idle"
    /\ Targeted(v) => pod[v] = "gone"

\* What the running handler of a volume has established when no call of the
\* volume has outlived its deadline.
Publishing(v) ==
    \A s \in Slots :
        /\ pc[v][s] # "idle" => waiting[v] = s
        /\ pc[v][s] \in PublishPCs => told[v] \in {"none", "uncertain"}
        /\ pc[v][s] \in PublishPCs \ {"create"} => v \in dvs
        /\ pc[v][s] = "mount" => mounts[v] = 0
        /\ pc[v][s] \in MountedPCs => mounts[v] = 1
        /\ pc[v][s] \in {"store", "encode"} => v \in callbacks /\ v \in updates
        /\ pc[v][s] = "encode" => file[v] = "torn"

Unpublishing(v) ==
    \A s \in Slots :
        /\ pc[v][s] \in UnpublishPCs => told[v] \in {"published", "uncertain"}
        /\ pc[v][s] \in CleanupPCs => mounts[v] = 0
        /\ pc[v][s] \in {"unregister", "rmFile"} => v \notin dvs
        /\ pc[v][s] = "rmFile" => v \notin callbacks

Timely(v) ==
    /\ mounts[v] <= 1
    /\ file[v] = "full" => told[v] = "published"
    /\ Targeted(v) => told[v] \in {"published", "unpublished"}
    /\ told[v] = "unpublished" => /\ v \notin dvs /\ v \notin callbacks
                                  /\ file[v] = "absent" /\ mounts[v] = 0
    /\ Publishing(v)
    /\ Unpublishing(v)

\* A volume nothing has disturbed is not mounted before it is published and is
\* served until its unpublish takes the mount away.
Undisturbed(v) ==
    /\ told[v] # "uncertain"
    /\ told[v] = "none" => \/ mounts[v] = 0
                           \/ \E s \in Slots : pc[v][s] \in MountedPCs
    /\ told[v] = "published" =>
          IF \E s \in Slots : pc[v][s] \in CleanupPCs
          THEN file[v] = "full" ELSE Served(v)

VolumeInv(v) == /\ Basic(v)
                /\ "timeout" \notin marks[v] => Timely(v)
                /\ marks[v] = {} => Undisturbed(v)

\* The pruner remembers that it has taken the file of what it unmounts.
Marked == pruner.pc = "unmount" => "prune" \in marks[pruner.vol]

LifecycleInv == TypeOK /\ Marked /\ \A v \in Volumes : VolumeInv(v)
-----------------------------------------------------------------------------
(* Type correctness, action by action.                                     *)

\* The initial state has its types.
LEMMA InitType ==
    Init => TypeOK
  BY LifecycleAssumption DEF Init, TypeOK, PCs, IdlePruner

\* A fault is counted within its bound.
LEMMA FaultType ==
    ASSUME TypeOK, NEW kind, Fault(kind)
    PROVE  faults' \in 0..MaxFaults
  BY LifecycleAssumption DEF TypeOK, Fault

\* A fault that is recorded against a volume keeps the marks in their type.
LEMMA MarkType ==
    ASSUME TypeOK, NEW v \in Volumes, NEW kind \in Faults, Mark(v, kind)
    PROVE  /\ faults' \in 0..MaxFaults
           /\ marks' \in [Volumes -> SUBSET (Faults \cup {"prune"})]
  BY FaultType DEF TypeOK, Mark

\* Moves and answers of a handler keep the kubelet's variables and the program
\* counters in their types.
LEMMA GoType ==
    ASSUME TypeOK, NEW v \in Volumes, NEW s \in Slots, NEW next \in PCs,
           Go(v, s, next)
    PROVE  /\ <<pod, told, waiting>>' = <<pod, told, waiting>>
           /\ pc' \in [Volumes -> [Slots -> PCs]]
  BY DEF TypeOK, Go, kubeVars

\* The answer of a handler keeps the types, whoever hears it.
LEMMA ReturnType ==
    ASSUME TypeOK, NEW v \in Volumes, NEW s \in Slots,
           NEW belief \in {"none", "uncertain", "published", "unpublished"},
           Return(v, s, belief)
    PROVE  /\ pod' = pod
           /\ told' \in [Volumes -> {"none", "uncertain", "published", "unpublished"}]
           /\ waiting' \in [Volumes -> Slots \cup {None}]
           /\ pc' \in [Volumes -> [Slots -> PCs]]
<1>1. pc' \in [Volumes -> [Slots -> PCs]]
  BY DEF TypeOK, Return, PCs
<1>2. CASE waiting[v] = s
  <2>1. /\ pod' = pod
        /\ waiting' = [waiting EXCEPT ![v] = None]
        /\ told' = [told EXCEPT ![v] = belief]
    BY <1>2 DEF Return
  <2>2. told' \in [Volumes -> {"none", "uncertain", "published", "unpublished"}]
    BY <2>1 DEF TypeOK
  <2>3. waiting' \in [Volumes -> Slots \cup {None}]
    BY <2>1 DEF TypeOK
  <2> QED
    BY <1>1, <2>1, <2>2, <2>3
<1>3. CASE waiting[v] # s
  BY <1>1, <1>3 DEF TypeOK, Return
<1> QED
  BY <1>2, <1>3

\* So does an error, which leaves the kubelet's belief or resets it.
LEMMA ErrorType ==
    ASSUME TypeOK, NEW v \in Volumes, NEW s \in Slots, Error(v, s)
    PROVE  /\ pod' = pod
           /\ told' \in [Volumes -> {"none", "uncertain", "published", "unpublished"}]
           /\ waiting' \in [Volumes -> Slots \cup {None}]
           /\ pc' \in [Volumes -> [Slots -> PCs]]
<1>1. told[v] \in {"none", "uncertain", "published", "unpublished"}
  BY DEF TypeOK
<1>2. (IF pc[v][s] \in PublishPCs THEN "none" ELSE told[v])
          \in {"none", "uncertain", "published", "unpublished"}
  BY <1>1
<1> QED
  BY <1>2, ReturnType DEF Error

\* The steps of NodePublishVolume keep the types.
LEMMA PublishType ==
    ASSUME TypeOK, NEW v \in Volumes, NEW s \in Slots, NodePublishVolume(v, s)
    PROVE  TypeOK'
<1> USE GoType, ErrorType, ReturnType, MarkType
    DEF Fails, PCs, PublishPCs, Faults, histVars, memVars, diskVars
<1>1. CASE Create(v, s)
  BY <1>1 DEF Create, TypeOK
<1>2. CASE Check(v, s)
  BY <1>2 DEF Check, TypeOK
<1>3. CASE Mount(v, s)
  <2>1. mounts' \in [Volumes -> Nat]
    BY <1>3 DEF Mount, TypeOK
  <2> QED
    BY <1>3, <2>1 DEF Mount, TypeOK
<1>4. CASE WriteFirst(v, s)
  BY <1>4 DEF WriteFirst, TypeOK
<1>5. CASE Register(v, s)
  BY <1>5 DEF Register, TypeOK
<1>6. CASE Store(v, s)
  BY <1>6 DEF Store, TypeOK
<1>7. CASE Encode(v, s)
  BY <1>7 DEF Encode, TypeOK
<1> QED
  BY <1>1, <1>2, <1>3, <1>4, <1>5, <1>6, <1>7 DEF NodePublishVolume

\* The steps of NodeUnpublishVolume keep the types.
LEMMA UnpublishType ==
    ASSUME TypeOK, NEW v \in Volumes, NEW s \in Slots, NodeUnpublishVolume(v, s)
    PROVE  TypeOK'
<1> USE GoType, ErrorType, ReturnType, MarkType
    DEF Fails, PCs, UnpublishPCs, Faults, histVars, memVars, diskVars
<1>1. CASE Lookup(v, s)
  BY <1>1 DEF Lookup, TypeOK
<1>2. CASE Unmount(v, s)
  <2>1. mounts' \in [Volumes -> Nat]
    BY <1>2 DEF Unmount, TypeOK
  <2> QED
    BY <1>2, <2>1 DEF Unmount, TypeOK
<1>3. CASE RemoveTarget(v, s)
  BY <1>3 DEF RemoveTarget, TypeOK
<1>4. CASE Forget(v, s)
  BY <1>4 DEF Forget, TypeOK
<1>5. CASE Unregister(v, s)
  BY <1>5 DEF Unregister, TypeOK
<1>6. CASE RemoveFile(v, s)
  BY <1>6 DEF RemoveFile, TypeOK
<1> QED
  BY <1>1, <1>2, <1>3, <1>4, <1>5, <1>6 DEF NodeUnpublishVolume

\* The steps of pods and kubelet keep the types.
LEMMA KubeType ==
    ASSUME TypeOK, NEW v \in Volumes,
           \/ CreatePod(v) \/ DeletePod(v) \/ FinishPod(v) \/ ForceDeletePod(v)
           \/ Kubelet(v) \/ Timeout(v)
    PROVE  TypeOK'
<1> USE DEF memVars, diskVars, histVars
<1>1. CASE CreatePod(v) \/ DeletePod(v) \/ FinishPod(v)
  BY <1>1 DEF TypeOK, CreatePod, DeletePod, FinishPod, SetPod
<1>2. CASE ForceDeletePod(v)
  BY <1>2, FaultType DEF TypeOK, ForceDeletePod, SetPod
<1>3. ASSUME NEW first \in PCs, Call(v, first)
      PROVE  TypeOK'
  BY <1>3 DEF Call, TypeOK
<1>4. CASE Kubelet(v)
  BY <1>4, <1>3 DEF Kubelet, CallPublish, CallUnpublish, PCs, PublishPCs, UnpublishPCs
<1>5. CASE Timeout(v)
  BY <1>5, MarkType DEF Timeout, TypeOK, Faults
<1> QED
  BY <1>1, <1>2, <1>4, <1>5

\* A restart keeps the types.
LEMMA RestartType ==
    ASSUME TypeOK, Restart, faults' \in 0..MaxFaults
    PROVE  TypeOK'
<1>1. pc' \in [Volumes -> [Slots -> PCs]]
  BY DEF Restart, PCs
<1>2. told' \in [Volumes -> {"none", "uncertain", "published", "unpublished"}]
  BY DEF Restart, TypeOK
<1>3. dvs' \subseteq Volumes /\ callbacks' \subseteq Volumes /\ updates' \subseteq Volumes
  BY DEF Restart, loadVolsFromDisk
<1>4. marks' \in [Volumes -> SUBSET (Faults \cup {"prune"})]
  BY DEF Restart, TypeOK, Faults
<1>5. waiting' \in [Volumes -> Slots \cup {None}]
  BY DEF Restart
<1> QED
  BY <1>1, <1>2, <1>3, <1>4, <1>5 DEF Restart, TypeOK, diskVars, IdlePruner

\* The steps of driver.Prune keep the types.
LEMMA PruneType ==
    ASSUME TypeOK, Prune
    PROVE  TypeOK'
<1> USE DEF memVars, kubeVars, histVars, PrunerStep
<1>1. CASE PruneWalk
  BY <1>1 DEF PruneWalk, TypeOK
<1>2. CASE PruneOpenFails
  BY <1>2, RestartType DEF PruneOpenFails, TypeOK
<1>3. CASE PruneVisit
  <2>1. ASSUME NEW found \in SUBSET Volumes, Visited(found)
        PROVE  /\ pruner' = [pruner EXCEPT !.pc = "walk", !.vol = None, !.found = found]
               /\ pruner' \in [pc : {"idle", "walk", "open", "prune", "unmount"},
                               todo : SUBSET Volumes, found : SUBSET Volumes,
                               vol : Volumes \cup {None}]
               /\ pruner'.pc = "walk"
               /\ UNCHANGED <<kubeVars, pc, memVars>>
    BY <2>1 DEF Visited, TypeOK
  <2>2. pruner.found \in SUBSET Volumes /\ pruner.found \cup {pruner.vol} \in SUBSET Volumes
    BY <1>3 DEF PruneVisit, TypeOK
  <2> QED
    BY <1>3, <2>1, <2>2, FaultType DEF PruneVisit, TypeOK
<1>4. CASE PruneCollected
  BY <1>4 DEF PruneCollected, TypeOK
<1>5. CASE PruneUnmount
  <2>1. mounts' \in [Volumes -> Nat]
    BY <1>5 DEF PruneUnmount, TypeOK
  <2> QED
    BY <1>5, <2>1 DEF PruneUnmount, TypeOK
<1>6. CASE PruneEnd
  BY <1>6 DEF PruneEnd, TypeOK, IdlePruner
<1>7. ASSUME NEW v \in Volumes, PruneStat(v)
      PROVE  TypeOK'
  BY <1>7 DEF PruneStat, TypeOK
<1>8. ASSUME NEW v \in Volumes, PruneRemove(v)
      PROVE  TypeOK'
  <2>1. CASE file[v] = "absent"
    <3>1. /\ pruner.pc = "prune"
          /\ pruner' = [pruner EXCEPT !.found = @ \ {v}]
          /\ UNCHANGED <<pod, told, waiting, pc, dvs, callbacks, updates, file, mounts,
                         marks, faults>>
      BY <1>8, <2>1 DEF PruneRemove
    <3> QED
      BY <3>1 DEF TypeOK
  <2>2. CASE file[v] # "absent"
    <3>1. /\ file' = [file EXCEPT ![v] = "absent"]
          /\ marks' = [marks EXCEPT ![v] = @ \cup {"prune"}]
          /\ pruner' = [pruner EXCEPT !.found = @ \ {v}, !.pc = "unmount", !.vol = v]
          /\ UNCHANGED <<pod, told, waiting, pc, dvs, callbacks, updates, mounts, faults>>
      BY <1>8, <2>2 DEF PruneRemove
    <3>2. file' \in [Volumes -> {"absent", "torn", "full"}]
      BY <3>1 DEF TypeOK
    <3>3. marks' \in [Volumes -> SUBSET (Faults \cup {"prune"})]
      BY <3>1 DEF TypeOK
    <3>4. /\ pruner' \in [pc : {"idle", "walk", "open", "prune", "unmount"},
                          todo : SUBSET Volumes, found : SUBSET Volumes,
                          vol : Volumes \cup {None}]
          /\ pruner'.vol \in Volumes
      BY <3>1 DEF TypeOK
    <3> QED
      BY <3>1, <3>2, <3>3, <3>4 DEF TypeOK
  <2> QED
    BY <2>1, <2>2
<1> QED
  BY <1>1, <1>2, <1>3, <1>4, <1>5, <1>6, <1>7, <1>8 DEF Prune

\* Every step keeps the types.
LEMMA NextType ==
    ASSUME TypeOK, [Next]_vars
    PROVE  TypeOK'
<1>1. CASE UNCHANGED vars
  BY <1>1 DEF vars, kubeVars, memVars, diskVars, histVars, TypeOK
<1>2. CASE Crash
  BY <1>2, FaultType, RestartType DEF Crash
<1> QED
  BY <1>1, <1>2, KubeType, PruneType, PublishType, UnpublishType DEF Next, Handler

-----------------------------------------------------------------------------
(* The invariant, volume by volume.                                        *)

\* All VolumeInv says of a volume.
Same(v) == /\ pod'[v] = pod[v] /\ told'[v] = told[v]
           /\ waiting'[v] = waiting[v] /\ pc'[v] = pc[v]
           /\ (v \in dvs') = (v \in dvs)
           /\ (v \in callbacks') = (v \in callbacks)
           /\ (v \in updates') = (v \in updates)
           /\ file'[v] = file[v] /\ mounts'[v] = mounts[v]
           /\ marks'[v] = marks[v]

\* A step that leaves a volume alone, and does not aim the pruner at it,
\* preserves its invariant.
LEMMA Frame ==
    ASSUME NEW v \in Volumes, VolumeInv(v), Same(v), Targeted(v)' => Targeted(v)
    PROVE  VolumeInv(v)'
<1>1. Basic(v)'
  BY DEF VolumeInv, Same, Basic, Idle
<1>2. ASSUME Timely(v) PROVE Timely(v)'
  BY <1>2 DEF Same, Timely, Publishing, Unpublishing
<1>3. ASSUME Undisturbed(v) PROVE Undisturbed(v)'
  BY <1>3 DEF Same, Undisturbed, Served
<1> QED
  BY <1>1, <1>2, <1>3 DEF VolumeInv, Same

\* The initial state satisfies the invariant.
LEMMA InitInv ==
    Init => LifecycleInv
<1> SUFFICES ASSUME Init PROVE LifecycleInv
  OBVIOUS
<1>1. ASSUME NEW v \in Volumes PROVE VolumeInv(v)
  BY DEF Init, VolumeInv, Basic, Timely, Publishing, Unpublishing, Undisturbed,
         Targeted, IdlePruner, Idle, PublishPCs, UnpublishPCs, MountedPCs, CleanupPCs
<1>2. Marked
  BY DEF Init, IdlePruner, Marked
<1> QED
  BY <1>1, <1>2, InitType DEF LifecycleInv

(* Steps of a handler.                                                     *)

\* A handler step of one volume leaves the others and the pruner alone.
LEMMA HandlerFrame ==
    ASSUME TypeOK, NEW v \in Volumes, NEW s \in Slots, Handler(v, s),
           NEW u \in Volumes \ {v}
    PROVE  Same(u) /\ (Targeted(u)' <=> Targeted(u))
<1>1. pruner' = pruner
  BY DEF Handler, NodePublishVolume, NodeUnpublishVolume, Create, Check, Mount,
         WriteFirst, Register, Store, Encode, Lookup, Unmount, RemoveTarget, Forget,
         Unregister, RemoveFile
<1>2. pod'[u] = pod[u] /\ told'[u] = told[u] /\ waiting'[u] = waiting[u] /\ pc'[u] = pc[u]
  BY DEF TypeOK, Handler, NodePublishVolume, NodeUnpublishVolume, Create, Check, Mount,
         WriteFirst, Register, Store, Encode, Lookup, Unmount, RemoveTarget, Forget,
         Unregister, RemoveFile, Fails, Error, Return, Go, kubeVars
<1>3. marks'[u] = marks[u]
  BY DEF TypeOK, Handler, NodePublishVolume, NodeUnpublishVolume, Create, Check, Mount,
         WriteFirst, Register, Store, Encode, Lookup, Unmount, RemoveTarget, Forget,
         Unregister, RemoveFile, Fails, Mark, histVars
<1>4. file'[u] = file[u] /\ mounts'[u] = mounts[u]
  BY DEF TypeOK, Handler, NodePublishVolume, NodeUnpublishVolume, Create, Check, Mount,
         WriteFirst, Register, Store, Encode, Lookup, Unmount, RemoveTarget, Forget,
         Unregister, RemoveFile, diskVars
<1>5. (u \in dvs') = (u \in dvs) /\ (u \in callbacks') = (u \in callbacks)
      /\ (u \in updates') = (u \in updates)
  BY DEF TypeOK, Handler, NodePublishVolume, NodeUnpublishVolume, Create, Check, Mount,
         WriteFirst, Register, Store, Encode, Lookup, Unmount, RemoveTarget, Forget,
         Unregister, RemoveFile, memVars
<1> QED
  BY <1>1, <1>2, <1>3, <1>4, <1>5 DEF Same, Targeted

\* Unless a call has outlived its deadline, the running handler is the only
\* one of its volume, and the kubelet waits for it.
LEMMA Alone ==
    ASSUME NEW v \in Volumes, NEW s \in Slots, Timely(v), pc[v][s] # "idle"
    PROVE  waiting[v] = s /\ \A r \in Slots \ {s} : pc[v][r] = "idle"
  BY DEF Timely, Publishing

\* What moves, answers and errors do to their volume.
LEMMA GoStep ==
    ASSUME TypeOK, NEW v \in Volumes, NEW s \in Slots, NEW next, Go(v, s, next)
    PROVE  /\ pc'[v][s] = next
           /\ \A r \in Slots \ {s} : pc'[v][r] = pc[v][r]
           /\ pod'[v] = pod[v] /\ told'[v] = told[v] /\ waiting'[v] = waiting[v]
  BY DEF TypeOK, Go, kubeVars

\* An answer is heard only if the kubelet still waits for this handler.
LEMMA ReturnStep ==
    ASSUME TypeOK, NEW v \in Volumes, NEW s \in Slots, NEW belief, Return(v, s, belief)
    PROVE  /\ pc'[v][s] = "idle"
           /\ \A r \in Slots \ {s} : pc'[v][r] = pc[v][r]
           /\ pod'[v] = pod[v]
           /\ waiting[v] = s => waiting'[v] = None /\ told'[v] = belief
           /\ waiting[v] # s => waiting'[v] = waiting[v] /\ told'[v] = told[v]
  BY DEF TypeOK, Return

\* An error of publish makes the kubelet believe nothing is mounted.
LEMMA ErrorStep ==
    ASSUME TypeOK, NEW v \in Volumes, NEW s \in Slots, Error(v, s)
    PROVE  /\ pc'[v][s] = "idle"
           /\ \A r \in Slots \ {s} : pc'[v][r] = pc[v][r]
           /\ pod'[v] = pod[v]
           /\ waiting[v] = s =>
                 /\ waiting'[v] = None
                 /\ told'[v] = IF pc[v][s] \in PublishPCs THEN "none" ELSE told[v]
           /\ waiting[v] # s => waiting'[v] = waiting[v] /\ told'[v] = told[v]
  BY ReturnStep DEF Error

\* A recorded fault is in the marks of its volume.
LEMMA MarkStep ==
    ASSUME TypeOK, NEW v \in Volumes, NEW kind, Mark(v, kind)
    PROVE  marks'[v] = marks[v] \cup {kind}
  BY DEF TypeOK, Mark

\* A volume with a running handler was created, and stays so.
LEMMA HandlerBasic ==
    ASSUME LifecycleInv, NEW v \in Volumes, NEW s \in Slots, Handler(v, s)
    PROVE  Basic(v)' /\ (Targeted(v)' <=> Targeted(v)) /\ pc[v][s] # "idle"
<1>1. TypeOK /\ Basic(v)
  BY DEF LifecycleInv, VolumeInv
<1>2. pruner' = pruner /\ pc[v][s] # "idle"
  BY DEF Handler, NodePublishVolume, NodeUnpublishVolume, Create, Check, Mount,
         WriteFirst, Register, Store, Encode, Lookup, Unmount, RemoveTarget, Forget,
         Unregister, RemoveFile
<1>3. \/ \E next \in PCs \ {"idle"} : Go(v, s, next)
      \/ \E belief : Return(v, s, belief)
  BY DEF Handler, NodePublishVolume, NodeUnpublishVolume, Create, Check, Mount,
         WriteFirst, Register, Store, Encode, Lookup, Unmount, RemoveTarget, Forget,
         Unregister, RemoveFile, Fails, Error, PCs, PublishPCs, UnpublishPCs
<1>4. pod[v] # "future"
  BY <1>1, <1>2 DEF Basic, Idle
<1>5. pod'[v] = pod[v] /\ (waiting'[v] # None => pc'[v][waiting'[v]] # "idle")
  <2>0. waiting[v] \in Slots \cup {None} /\ None \notin Slots
    BY <1>1, LifecycleAssumption DEF TypeOK
  <2>1. ASSUME NEW next \in PCs \ {"idle"}, Go(v, s, next) PROVE <1>5
    BY <1>1, <2>0, <2>1, GoStep DEF Basic
  <2>2. ASSUME NEW belief, Return(v, s, belief) PROVE <1>5
    BY <1>1, <2>0, <2>2, ReturnStep DEF Basic
  <2> QED
    BY <1>3, <2>1, <2>2
<1> QED
  BY <1>1, <1>2, <1>4, <1>5 DEF Basic, Targeted

\* An error that leaves the driver's state of the volume alone is harmless.
LEMMA ErrorTimely ==
    ASSUME LifecycleInv, NEW v \in Volumes, NEW s \in Slots,
           Error(v, s), pc[v][s] # "idle", Timely(v),
           (v \in dvs') = (v \in dvs), (v \in callbacks') = (v \in callbacks),
           (v \in updates') = (v \in updates),
           file'[v] = file[v], mounts'[v] = mounts[v], Targeted(v)' <=> Targeted(v)
    PROVE  Timely(v)'
<1>1. /\ pc[v][s] \in PCs
      /\ told[v] \in {"none", "uncertain", "published", "unpublished"}
  BY DEF LifecycleInv, TypeOK
<1>2. /\ \A r \in Slots : pc'[v][r] = "idle"
      /\ told'[v] = IF pc[v][s] \in PublishPCs THEN "none" ELSE told[v]
  BY Alone, ErrorStep DEF LifecycleInv
<1>3. Publishing(v)' /\ Unpublishing(v)'
  BY <1>2 DEF Publishing, Unpublishing, PublishPCs, UnpublishPCs, MountedPCs, CleanupPCs
<1>4. CASE pc[v][s] \in PublishPCs
  BY <1>2, <1>3, <1>4 DEF Timely, Publishing
<1>5. CASE pc[v][s] \notin PublishPCs
  BY <1>2, <1>3, <1>5 DEF Timely
<1> QED
  BY <1>4, <1>5

\* Each step of NodePublishVolume establishes what the next one relies on, and
\* the last one leaves the volume served.
LEMMA PublishOwn ==
    ASSUME LifecycleInv, NEW v \in Volumes, NEW s \in Slots, NodePublishVolume(v, s)
    PROVE  /\ "timeout" \notin marks'[v] => Timely(v)'
           /\ marks'[v] = {} => Undisturbed(v)'
<1> DEFINE TimelyOK == "timeout" \notin marks'[v] => Timely(v)'
           CalmOK == marks'[v] = {} => Undisturbed(v)'
<1>1. TypeOK /\ VolumeInv(v) /\ Handler(v, s)
  BY DEF LifecycleInv, Handler
<1>2. (Targeted(v)' <=> Targeted(v)) /\ pc[v][s] # "idle"
  BY <1>1, HandlerBasic
<1>3. /\ told[v] \in {"none", "uncertain", "published", "unpublished"}
      /\ mounts[v] \in Nat
      /\ file[v] \in {"absent", "torn", "full"}
  BY <1>1 DEF TypeOK
<1>4. ASSUME Fails(v, s), (v \in dvs') = (v \in dvs),
             (v \in callbacks') = (v \in callbacks),
           (v \in updates') = (v \in updates),
             file'[v] = file[v], mounts'[v] = mounts[v]
      PROVE  TimelyOK /\ CalmOK
  BY <1>1, <1>2, <1>4, MarkStep, ErrorTimely DEF Fails, VolumeInv
<1> USE DEF histVars, memVars, diskVars
<1>5. CASE Create(v, s)
  <2>1. marks' = marks /\ file' = file /\ mounts' = mounts /\ callbacks' = callbacks /\ updates' = updates
    BY <1>5 DEF Create
  <2>2. CASE Error(v, s) /\ dvs' = dvs
    <3>1. TimelyOK
      BY <1>1, <1>2, <2>1, <2>2, ErrorTimely DEF VolumeInv
    <3>2. CalmOK
      BY <1>1, <1>2, <1>5, <2>1, <2>2, ErrorStep, Alone
         DEF VolumeInv, Timely, Publishing, Undisturbed, Create, PublishPCs, MountedPCs
    <3> QED
      BY <3>1, <3>2
  <2>3. CASE Go(v, s, "check") /\ dvs' = dvs \cup {v}
    <3>1. TimelyOK
      BY <1>1, <1>2, <1>3, <1>5, <2>1, <2>3, GoStep, Alone
         DEF VolumeInv, Timely, Publishing, Unpublishing, Create, PublishPCs,
             UnpublishPCs, MountedPCs, CleanupPCs
    <3>2. CalmOK
      BY <1>1, <1>2, <1>5, <2>1, <2>3, GoStep, Alone
         DEF VolumeInv, Timely, Publishing, Undisturbed, Create, PublishPCs, MountedPCs
    <3> QED
      BY <3>1, <3>2
  <2> QED
    BY <1>5, <2>2, <2>3 DEF Create
<1>6. CASE Check(v, s)
  <2>1. dvs' = dvs /\ callbacks' = callbacks /\ updates' = updates /\ file' = file /\ mounts' = mounts
    BY <1>6 DEF Check
  <2>2. CASE mounts[v] > 0 /\ Return(v, s, "published") /\ marks' = marks
    <3>1. TimelyOK
      BY <1>1, <1>2, <1>3, <1>6, <2>1, <2>2, ReturnStep, Alone
         DEF VolumeInv, Timely, Publishing, Unpublishing, Check, PublishPCs,
             UnpublishPCs, MountedPCs, CleanupPCs
    <3>2. CalmOK
      BY <1>1, <1>2, <1>3, <1>6, <2>1, <2>2, ReturnStep, Alone
         DEF VolumeInv, Timely, Publishing, Undisturbed, Served, Check, PublishPCs,
             UnpublishPCs, MountedPCs, CleanupPCs
    <3> QED
      BY <3>1, <3>2
  <2>3. CASE mounts[v] = 0 /\ Go(v, s, "mount") /\ marks' = marks
    <3>1. TimelyOK
      BY <1>1, <1>2, <1>3, <1>6, <2>1, <2>3, GoStep, Alone
         DEF VolumeInv, Timely, Publishing, Unpublishing, Check, PublishPCs,
             UnpublishPCs, MountedPCs, CleanupPCs
    <3>2. CalmOK
      BY <1>1, <1>2, <1>3, <1>6, <2>1, <2>3, GoStep, Alone
         DEF VolumeInv, Timely, Publishing, Undisturbed, Served, Check, PublishPCs,
             UnpublishPCs, MountedPCs, CleanupPCs
    <3> QED
      BY <3>1, <3>2
  <2>4. CASE Fails(v, s)
    BY <1>4, <2>1, <2>4
  <2> QED
    BY <1>6, <2>2, <2>3, <2>4 DEF Check
<1>7. CASE Mount(v, s)
  <2>1. dvs' = dvs /\ callbacks' = callbacks /\ updates' = updates /\ file' = file
    BY <1>7 DEF Mount
  <2>2. CASE Go(v, s, "write") /\ mounts' = [mounts EXCEPT ![v] = @ + 1] /\ marks' = marks
    <3>0. mounts'[v] = mounts[v] + 1
      BY <1>1, <2>2 DEF TypeOK
    <3>1. TimelyOK
      BY <1>1, <1>2, <1>3, <1>7, <2>1, <2>2, <3>0, GoStep, Alone
         DEF VolumeInv, Timely, Publishing, Unpublishing, Mount, PublishPCs,
             UnpublishPCs, MountedPCs, CleanupPCs
    <3>2. CalmOK
      BY <1>1, <1>2, <1>3, <1>7, <2>1, <2>2, <3>0, GoStep, Alone
         DEF VolumeInv, Timely, Publishing, Undisturbed, Served, Mount, PublishPCs,
             UnpublishPCs, MountedPCs, CleanupPCs
    <3> QED
      BY <3>1, <3>2
  <2>3. CASE Fails(v, s) /\ mounts' = mounts
    BY <1>4, <2>1, <2>3
  <2> QED
    BY <1>7, <2>2, <2>3 DEF Mount
<1>8. CASE WriteFirst(v, s)
  <2>1. dvs' = dvs /\ callbacks' = callbacks /\ updates' = updates /\ file' = file /\ mounts' = mounts
    BY <1>8 DEF WriteFirst
  <2>2. CASE Go(v, s, "register") /\ marks' = marks
    <3>1. TimelyOK
      BY <1>1, <1>2, <1>3, <1>8, <2>1, <2>2, GoStep, Alone
         DEF VolumeInv, Timely, Publishing, Unpublishing, WriteFirst, PublishPCs,
             UnpublishPCs, MountedPCs, CleanupPCs
    <3>2. CalmOK
      BY <1>1, <1>2, <1>3, <1>8, <2>1, <2>2, GoStep, Alone
         DEF VolumeInv, Timely, Publishing, Undisturbed, Served, WriteFirst, PublishPCs,
             UnpublishPCs, MountedPCs, CleanupPCs
    <3> QED
      BY <3>1, <3>2
  <2>3. CASE Fails(v, s)
    BY <1>4, <2>1, <2>3
  <2> QED
    BY <1>8, <2>2, <2>3 DEF WriteFirst
<1>9. CASE Register(v, s)
  <2>1. dvs' = dvs /\ callbacks' = callbacks \cup {v} /\ updates' = updates \cup {v} /\ file' = file /\ mounts' = mounts
    BY <1>9 DEF Register
  <2>2. CASE Go(v, s, "store") /\ marks' = marks
    <3>1. TimelyOK
      BY <1>1, <1>2, <1>3, <1>9, <2>1, <2>2, GoStep, Alone
         DEF VolumeInv, Timely, Publishing, Unpublishing, Register, PublishPCs,
             UnpublishPCs, MountedPCs, CleanupPCs
    <3>2. CalmOK
      BY <1>1, <1>2, <1>3, <1>9, <2>1, <2>2, GoStep, Alone
         DEF VolumeInv, Timely, Publishing, Undisturbed, Served, Register, PublishPCs,
             UnpublishPCs, MountedPCs, CleanupPCs
    <3> QED
      BY <3>1, <3>2
  <2> QED
    BY <1>9, <2>2 DEF Register
<1>10. CASE Store(v, s)
  <2>1. dvs' = dvs /\ callbacks' = callbacks /\ updates' = updates /\ mounts' = mounts
    BY <1>10 DEF Store
  <2>2. CASE Go(v, s, "encode") /\ file' = [file EXCEPT ![v] = "torn"] /\ marks' = marks
    <3>0. file'[v] = "torn"
      BY <1>1, <2>2 DEF TypeOK
    <3>1. TimelyOK
      BY <1>1, <1>2, <1>3, <1>10, <2>1, <2>2, <3>0, GoStep, Alone
         DEF VolumeInv, Timely, Publishing, Unpublishing, Store, PublishPCs,
             UnpublishPCs, MountedPCs, CleanupPCs
    <3>2. CalmOK
      BY <1>1, <1>2, <1>3, <1>10, <2>1, <2>2, <3>0, GoStep, Alone
         DEF VolumeInv, Timely, Publishing, Undisturbed, Served, Store, PublishPCs,
             UnpublishPCs, MountedPCs, CleanupPCs
    <3> QED
      BY <3>1, <3>2
  <2>3. CASE Fails(v, s) /\ file' = file
    BY <1>4, <2>1, <2>3
  <2>4. CASE Mark(v, "error") /\ Return(v, s, "published") /\ file' = file
    <3>0. "error" \in marks'[v] /\ ("timeout" \in marks'[v] <=> "timeout" \in marks[v])
      BY <1>1, <2>4, MarkStep
    <3>1. TimelyOK
      BY <1>1, <1>2, <1>3, <1>10, <2>1, <2>4, <3>0, ReturnStep, Alone
         DEF VolumeInv, Timely, Publishing, Unpublishing, Store, PublishPCs,
             UnpublishPCs, MountedPCs, CleanupPCs
    <3> QED
      BY <3>0, <3>1
  <2> QED
    BY <1>10, <2>2, <2>3, <2>4 DEF Store
<1>11. CASE Encode(v, s)
  <2>1. dvs' = dvs /\ callbacks' = callbacks /\ updates' = updates /\ mounts' = mounts
    BY <1>11 DEF Encode
  <2>2. CASE /\ Return(v, s, "published")
            /\ file' = [file EXCEPT ![v] = IF @ = "absent" THEN @ ELSE "full"]
            /\ marks' = marks
    <3>0. file'[v] = IF file[v] = "absent" THEN "absent" ELSE "full"
      BY <1>1, <2>2 DEF TypeOK
    <3>1. TimelyOK
      BY <1>1, <1>2, <1>3, <1>11, <2>1, <2>2, <3>0, ReturnStep, Alone
         DEF VolumeInv, Timely, Publishing, Unpublishing, Encode, PublishPCs,
             UnpublishPCs, MountedPCs, CleanupPCs
    <3>2. CalmOK
      BY <1>1, <1>2, <1>3, <1>11, <2>1, <2>2, <3>0, ReturnStep, Alone
         DEF VolumeInv, Timely, Publishing, Undisturbed, Served, Encode, PublishPCs,
             UnpublishPCs, MountedPCs, CleanupPCs
    <3> QED
      BY <3>1, <3>2
  <2>3. CASE Fails(v, s) /\ file' = file
    BY <1>4, <2>1, <2>3
  <2> QED
    BY <1>11, <2>2, <2>3 DEF Encode
<1> QED
  BY <1>5, <1>6, <1>7, <1>8, <1>9, <1>10, <1>11 DEF NodePublishVolume

\* Each step of NodeUnpublishVolume takes one thing away, and only the last one
\* tells the kubelet that the volume is unpublished.
LEMMA UnpublishOwn ==
    ASSUME LifecycleInv, NEW v \in Volumes, NEW s \in Slots, NodeUnpublishVolume(v, s)
    PROVE  /\ "timeout" \notin marks'[v] => Timely(v)'
           /\ marks'[v] = {} => Undisturbed(v)'
<1> DEFINE TimelyOK == "timeout" \notin marks'[v] => Timely(v)'
           CalmOK == marks'[v] = {} => Undisturbed(v)'
<1>1. TypeOK /\ VolumeInv(v) /\ Handler(v, s)
  BY DEF LifecycleInv, Handler
<1>2. (Targeted(v)' <=> Targeted(v)) /\ pc[v][s] # "idle"
  BY <1>1, HandlerBasic
<1>3. /\ told[v] \in {"none", "uncertain", "published", "unpublished"}
      /\ mounts[v] \in Nat
      /\ file[v] \in {"absent", "torn", "full"}
  BY <1>1 DEF TypeOK
<1>4. ASSUME Fails(v, s), (v \in dvs') = (v \in dvs),
             (v \in callbacks') = (v \in callbacks),
           (v \in updates') = (v \in updates),
             file'[v] = file[v], mounts'[v] = mounts[v]
      PROVE  TimelyOK /\ CalmOK
  BY <1>1, <1>2, <1>4, MarkStep, ErrorTimely DEF Fails, VolumeInv
<1> USE DEF histVars, memVars, diskVars
<1>5. CASE Lookup(v, s)
  <2>1. dvs' = dvs /\ callbacks' = callbacks /\ updates' = updates /\ file' = file /\ mounts' = mounts /\ marks' = marks
    BY <1>5 DEF Lookup
  <2>2. CASE v \in dvs /\ Go(v, s, "unmount")
    <3>1. TimelyOK
      BY <1>1, <1>2, <1>3, <1>5, <2>1, <2>2, GoStep, Alone
         DEF VolumeInv, Timely, Publishing, Unpublishing, Lookup, PublishPCs,
             UnpublishPCs, MountedPCs, CleanupPCs
    <3>2. CalmOK
      BY <1>1, <1>2, <1>3, <1>5, <2>1, <2>2, GoStep, Alone
         DEF VolumeInv, Timely, Unpublishing, Undisturbed, Served, Lookup, PublishPCs,
             UnpublishPCs, MountedPCs, CleanupPCs
    <3> QED
      BY <3>1, <3>2
  <2>3. CASE v \notin dvs /\ Error(v, s)
    <3>1. TimelyOK
      BY <1>1, <1>2, <2>1, <2>3, ErrorTimely DEF VolumeInv
    <3>2. CalmOK
      BY <1>1, <1>2, <1>3, <1>5, <2>1, <2>3, ErrorStep, Alone
         DEF VolumeInv, Timely, Unpublishing, Undisturbed, Served, Lookup, PublishPCs,
             UnpublishPCs, MountedPCs, CleanupPCs
    <3> QED
      BY <3>1, <3>2
  <2> QED
    BY <1>5, <2>2, <2>3 DEF Lookup
<1>6. CASE Unmount(v, s)
  <2>1. dvs' = dvs /\ callbacks' = callbacks /\ updates' = updates /\ file' = file
    BY <1>6 DEF Unmount
  <2>2. CASE /\ mounts[v] > 0
            /\ Go(v, s, "remove")
            /\ mounts' = [mounts EXCEPT ![v] = @ - 1]
            /\ marks' = marks
    <3>0. mounts'[v] = mounts[v] - 1
      BY <1>1, <2>2 DEF TypeOK
    <3>1. TimelyOK
      BY <1>1, <1>2, <1>3, <1>6, <2>1, <2>2, <3>0, GoStep, Alone
         DEF VolumeInv, Timely, Publishing, Unpublishing, Unmount, PublishPCs,
             UnpublishPCs, MountedPCs, CleanupPCs
    <3>2. CalmOK
      BY <1>1, <1>2, <1>3, <1>6, <2>1, <2>2, <3>0, GoStep, Alone
         DEF VolumeInv, Timely, Unpublishing, Undisturbed, Served, Unmount, PublishPCs,
             UnpublishPCs, MountedPCs, CleanupPCs
    <3> QED
      BY <3>1, <3>2
  <2>3. CASE mounts[v] = 0 /\ Error(v, s) /\ mounts' = mounts /\ marks' = marks
    <3>1. TimelyOK
      BY <1>1, <1>2, <2>1, <2>3, ErrorTimely DEF VolumeInv
    <3>2. CalmOK
      BY <1>1, <1>2, <1>3, <1>6, <2>1, <2>3, ErrorStep, Alone
         DEF VolumeInv, Timely, Unpublishing, Undisturbed, Served, Unmount, PublishPCs,
             UnpublishPCs, MountedPCs, CleanupPCs
    <3> QED
      BY <3>1, <3>2
  <2>4. CASE Fails(v, s) /\ mounts' = mounts
    BY <1>4, <2>1, <2>4
  <2> QED
    BY <1>6, <2>2, <2>3, <2>4 DEF Unmount
<1>7. CASE RemoveTarget(v, s)
  <2>1. dvs' = dvs /\ callbacks' = callbacks /\ updates' = updates /\ file' = file /\ mounts' = mounts /\ marks' = marks
    BY <1>7 DEF RemoveTarget
  <2>2. CASE v \in dvs /\ Go(v, s, "forget")
    <3>1. TimelyOK
      BY <1>1, <1>2, <1>3, <1>7, <2>1, <2>2, GoStep, Alone
         DEF VolumeInv, Timely, Publishing, Unpublishing, RemoveTarget, PublishPCs,
             UnpublishPCs, MountedPCs, CleanupPCs
    <3>2. CalmOK
      BY <1>1, <1>2, <1>3, <1>7, <2>1, <2>2, GoStep, Alone
         DEF VolumeInv, Timely, Unpublishing, Undisturbed, Served, RemoveTarget, PublishPCs,
             UnpublishPCs, MountedPCs, CleanupPCs
    <3> QED
      BY <3>1, <3>2
  <2>3. CASE v \notin dvs /\ Go(v, s, "unregister")
    <3>1. TimelyOK
      BY <1>1, <1>2, <1>3, <1>7, <2>1, <2>3, GoStep, Alone
         DEF VolumeInv, Timely, Publishing, Unpublishing, RemoveTarget, PublishPCs,
             UnpublishPCs, MountedPCs, CleanupPCs
    <3>2. CalmOK
      BY <1>1, <1>2, <1>3, <1>7, <2>1, <2>3, GoStep, Alone
         DEF VolumeInv, Timely, Unpublishing, Undisturbed, Served, RemoveTarget, PublishPCs,
             UnpublishPCs, MountedPCs, CleanupPCs
    <3> QED
      BY <3>1, <3>2
  <2> QED
    BY <1>7, <2>2, <2>3 DEF RemoveTarget
<1>8. CASE Forget(v, s)
  <2>1. dvs' = dvs \ {v} /\ callbacks' = callbacks /\ updates' = updates /\ file' = file /\ mounts' = mounts
    BY <1>8 DEF Forget
  <2>2. CASE Go(v, s, "unregister") /\ marks' = marks
    <3>1. TimelyOK
      BY <1>1, <1>2, <1>3, <1>8, <2>1, <2>2, GoStep, Alone
         DEF VolumeInv, Timely, Publishing, Unpublishing, Forget, PublishPCs,
             UnpublishPCs, MountedPCs, CleanupPCs
    <3>2. CalmOK
      BY <1>1, <1>2, <1>3, <1>8, <2>1, <2>2, GoStep, Alone
         DEF VolumeInv, Timely, Unpublishing, Undisturbed, Served, Forget, PublishPCs,
             UnpublishPCs, MountedPCs, CleanupPCs
    <3> QED
      BY <3>1, <3>2
  <2> QED
    BY <1>8, <2>2 DEF Forget
<1>9. CASE Unregister(v, s)
  <2>1. dvs' = dvs /\ callbacks' = callbacks \ {v} /\ updates' = updates /\ file' = file /\ mounts' = mounts
    BY <1>9 DEF Unregister
  <2>2. CASE Go(v, s, "rmFile") /\ marks' = marks
    <3>1. TimelyOK
      BY <1>1, <1>2, <1>3, <1>9, <2>1, <2>2, GoStep, Alone
         DEF VolumeInv, Timely, Publishing, Unpublishing, Unregister, PublishPCs,
             UnpublishPCs, MountedPCs, CleanupPCs
    <3>2. CalmOK
      BY <1>1, <1>2, <1>3, <1>9, <2>1, <2>2, GoStep, Alone
         DEF VolumeInv, Timely, Unpublishing, Undisturbed, Served, Unregister, PublishPCs,
             UnpublishPCs, MountedPCs, CleanupPCs
    <3> QED
      BY <3>1, <3>2
  <2> QED
    BY <1>9, <2>2 DEF Unregister
<1>10. CASE RemoveFile(v, s)
  <2>1. dvs' = dvs /\ callbacks' = callbacks /\ updates' = updates /\ mounts' = mounts
    BY <1>10 DEF RemoveFile
  <2>2. CASE /\ file[v] # "absent"
            /\ Return(v, s, "unpublished")
            /\ file' = [file EXCEPT ![v] = "absent"]
            /\ marks' = marks
    <3>0. file'[v] = "absent"
      BY <1>1, <2>2 DEF TypeOK
    <3>1. TimelyOK
      BY <1>1, <1>2, <1>3, <1>10, <2>1, <2>2, <3>0, ReturnStep, Alone
         DEF VolumeInv, Timely, Publishing, Unpublishing, RemoveFile, PublishPCs,
             UnpublishPCs, MountedPCs, CleanupPCs
    <3>2. CalmOK
      BY <1>1, <1>2, <1>3, <1>10, <2>1, <2>2, <3>0, ReturnStep, Alone
         DEF VolumeInv, Timely, Unpublishing, Undisturbed, Served, RemoveFile, PublishPCs,
             UnpublishPCs, MountedPCs, CleanupPCs
    <3> QED
      BY <3>1, <3>2
  <2>3. CASE file[v] = "absent" /\ Error(v, s) /\ file' = file /\ marks' = marks
    <3>1. TimelyOK
      BY <1>1, <1>2, <2>1, <2>3, ErrorTimely DEF VolumeInv
    <3>2. CalmOK
      BY <1>1, <1>2, <1>3, <1>10, <2>1, <2>3, ErrorStep, Alone
         DEF VolumeInv, Timely, Unpublishing, Undisturbed, Served, RemoveFile, PublishPCs,
             UnpublishPCs, MountedPCs, CleanupPCs
    <3> QED
      BY <3>1, <3>2
  <2>4. CASE Fails(v, s) /\ file' = file
    BY <1>4, <2>1, <2>4
  <2> QED
    BY <1>10, <2>2, <2>3, <2>4 DEF RemoveFile
<1> QED
  BY <1>5, <1>6, <1>7, <1>8, <1>9, <1>10 DEF NodeUnpublishVolume

\* A step of a handler preserves the invariant of every volume.
LEMMA HandlerInv ==
    ASSUME LifecycleInv, NEW v \in Volumes, NEW s \in Slots, Handler(v, s)
    PROVE  \A u \in Volumes : VolumeInv(u)'
<1>1. VolumeInv(v)'
  BY HandlerBasic, PublishOwn, UnpublishOwn DEF Handler, VolumeInv
<1>2. ASSUME NEW u \in Volumes \ {v} PROVE VolumeInv(u)'
  BY HandlerFrame, Frame DEF LifecycleInv
<1> QED
  BY <1>1, <1>2

(* Steps of the pod and the kubelet.                                       *)

\* A step of one volume's pod, or of the kubelet for it, leaves the others alone.
LEMMA KubeFrame ==
    ASSUME TypeOK, NEW v \in Volumes, NEW u \in Volumes \ {v},
           \/ CreatePod(v) \/ DeletePod(v) \/ FinishPod(v) \/ ForceDeletePod(v)
           \/ Kubelet(v) \/ Timeout(v)
    PROVE  Same(u) /\ (Targeted(u)' <=> Targeted(u))
  BY DEF TypeOK, CreatePod, DeletePod, FinishPod, ForceDeletePod, SetPod, Kubelet,
         CallPublish, CallUnpublish, Call, Timeout, Mark, Same, Targeted, memVars,
         diskVars, histVars

\* A change of the pod leaves its volume alone; no pod comes back.
LEMMA PodInv ==
    ASSUME LifecycleInv, NEW v \in Volumes,
           CreatePod(v) \/ DeletePod(v) \/ FinishPod(v) \/ ForceDeletePod(v)
    PROVE  VolumeInv(v)'
<1>1. TypeOK /\ VolumeInv(v)
  BY DEF LifecycleInv
<1>2. /\ pod'[v] \notin {"future"} /\ (pod[v] = "gone" => pod'[v] = "gone")
      /\ UNCHANGED <<told, waiting, pc, dvs, callbacks, updates, file, mounts, pruner, marks>>
  BY <1>1 DEF TypeOK, CreatePod, DeletePod, FinishPod, ForceDeletePod, SetPod,
              Exists, memVars, diskVars
<1>3. Basic(v)'
  BY <1>1, <1>2 DEF VolumeInv, Basic, Targeted
<1>4. ASSUME Timely(v) PROVE Timely(v)'
  BY <1>2, <1>4 DEF Timely, Publishing, Unpublishing, Targeted
<1>5. ASSUME Undisturbed(v) PROVE Undisturbed(v)'
  BY <1>2, <1>5 DEF Undisturbed, Served
<1> QED
  BY <1>1, <1>2, <1>3, <1>4, <1>5 DEF VolumeInv

\* A call starts only when no handler of the volume runs, unless a call has
\* outlived its deadline.
LEMMA CallInv ==
    ASSUME LifecycleInv, NEW v \in Volumes, Kubelet(v)
    PROVE  VolumeInv(v)'
<1>1. TypeOK /\ VolumeInv(v)
  BY DEF LifecycleInv
<1>2. PICK first \in {"create", "lookup"} :
         /\ Call(v, first)
         /\ first = "create" => told[v] \in {"none", "uncertain"} /\ pod[v] = "live"
         /\ first = "lookup" => /\ told[v] \in {"published", "uncertain"}
                               /\ pod[v] \in {"terminating", "gone"}
  BY DEF Kubelet, CallPublish, CallUnpublish
<1>3. PICK s \in Slots :
         /\ waiting' = [waiting EXCEPT ![v] = s]
         /\ pc' = [pc EXCEPT ![v][s] = first]
         /\ pc[v][s] = "idle"
  BY <1>2 DEF Call
<1>4. /\ waiting[v] = None /\ waiting'[v] = s /\ pc'[v][s] = first
      /\ \A r \in Slots \ {s} : pc'[v][r] = pc[v][r]
      /\ UNCHANGED <<pod, told, dvs, callbacks, updates, file, mounts, pruner, marks>>
  BY <1>1, <1>2, <1>3 DEF TypeOK, Call, memVars, diskVars, histVars
<1>5. Basic(v)'
  BY <1>1, <1>2, <1>4 DEF VolumeInv, Basic, Targeted
<1>6. ASSUME Timely(v)
      PROVE  Timely(v)' /\ \A r \in Slots : pc[v][r] = "idle"
  <2>1. \A r \in Slots : pc[v][r] = "idle"
    BY <1>4, <1>6, LifecycleAssumption DEF Timely, Publishing
  <2>2. Publishing(v)' /\ Unpublishing(v)'
    BY <1>2, <1>4, <2>1 DEF Publishing, Unpublishing, PublishPCs, UnpublishPCs,
                            MountedPCs, CleanupPCs
  <2> QED
    BY <1>4, <1>6, <2>1, <2>2 DEF Timely, Targeted
<1>7. ASSUME Timely(v), Undisturbed(v) PROVE Undisturbed(v)'
  BY <1>2, <1>4, <1>6, <1>7 DEF Undisturbed, Served, MountedPCs, CleanupPCs
<1> QED
  BY <1>1, <1>4, <1>5, <1>6, <1>7 DEF VolumeInv

\* After a deadline only the basic facts are claimed.
LEMMA TimeoutInv ==
    ASSUME LifecycleInv, NEW v \in Volumes, Timeout(v)
    PROVE  VolumeInv(v)'
<1>1. TypeOK /\ VolumeInv(v)
  BY DEF LifecycleInv
<1>2. /\ waiting'[v] = None /\ "timeout" \in marks'[v]
      /\ waiting[v] # None
      /\ UNCHANGED <<pod, pc, file, pruner>>
  BY <1>1, MarkStep DEF TypeOK, Timeout, diskVars
<1>3. Basic(v)'
  BY <1>1, <1>2 DEF VolumeInv, Basic, Targeted
<1> QED
  BY <1>2, <1>3 DEF VolumeInv

(* The process ends and starts again.                                      *)

\* A restart reloads exactly the volumes with a complete file: published ones.
LEMMA RestartInv ==
    ASSUME LifecycleInv, Restart, NEW v \in Volumes
    PROVE  VolumeInv(v)'
<1>1. TypeOK /\ VolumeInv(v)
  BY DEF LifecycleInv
<1>2. /\ \A s \in Slots : pc'[v][s] = "idle"
      /\ waiting'[v] = None
      /\ told'[v] = IF waiting[v] # None /\ pc[v][waiting[v]] \in PublishPCs
                    THEN "uncertain" ELSE told[v]
      /\ (v \in dvs' <=> file[v] = "full") /\ (v \in callbacks' <=> file[v] = "full")
      /\ (v \in updates' <=> file[v] = "full")
      /\ ~Targeted(v)'
      /\ marks'[v] = IF Idle(v) THEN marks[v] ELSE marks[v] \cup {"crash"}
      /\ UNCHANGED <<pod, file, mounts>>
  BY <1>1 DEF Restart, loadVolsFromDisk, IdlePruner, Targeted, diskVars
<1>3. waiting[v] \in Slots \cup {None}
  BY <1>1 DEF TypeOK
<1>4. Basic(v)'
  BY <1>1, <1>2 DEF VolumeInv, Basic, Idle
<1>5. ASSUME Timely(v) PROVE Timely(v)'
  <2>1. Publishing(v)' /\ Unpublishing(v)'
    BY <1>2 DEF Publishing, Unpublishing, PublishPCs, UnpublishPCs, MountedPCs, CleanupPCs
  <2>2. CASE waiting[v] # None /\ pc[v][waiting[v]] \in PublishPCs
    BY <1>2, <1>3, <1>5, <2>1, <2>2 DEF Timely, Publishing
  <2>3. CASE ~(waiting[v] # None /\ pc[v][waiting[v]] \in PublishPCs)
    BY <1>2, <1>5, <2>1, <2>3 DEF Timely
  <2> QED
    BY <2>2, <2>3
<1>6. ASSUME Undisturbed(v), marks'[v] = {} PROVE Undisturbed(v)'
  <2>1. Idle(v) /\ waiting[v] = None
    BY <1>1, <1>2, <1>3, <1>6 DEF VolumeInv, Basic, Idle
  <2> QED
    BY <1>2, <1>6, <2>1 DEF Undisturbed, Served, Idle, MountedPCs, CleanupPCs
<1> QED
  BY <1>1, <1>2, <1>4, <1>5, <1>6 DEF VolumeInv

(* The pruner.                                                             *)

\* PruneVisit aims only at a volume with a complete file whose pod is gone, and
\* which the kubelet was told is published.
LEMMA VisitInv ==
    ASSUME LifecycleInv, PruneVisit, NEW v \in Volumes
    PROVE  VolumeInv(v)'
<1>1. TypeOK /\ VolumeInv(v)
  BY DEF LifecycleInv
<1>2. Same(v)
  BY DEF PruneVisit, Visited, PrunerStep, Same, kubeVars, memVars, histVars
<1>3. CASE Targeted(v)' => Targeted(v)
  BY <1>1, <1>2, <1>3, Frame
<1>4. CASE Targeted(v)' /\ ~Targeted(v)
  <2>1. pruner.vol = v /\ file[v] = "full" /\ NameGone(v)
    <3>1. PICK found : /\ Visited(found)
                       /\ \/ found = pruner.found
                          \/ /\ found = pruner.found \cup {pruner.vol}
                             /\ file[pruner.vol] = "full" /\ NameGone(pruner.vol)
      BY DEF PruneVisit
    <3>2. pruner'.found = found /\ pruner'.pc = "walk"
      BY <1>1, <3>1 DEF Visited, PrunerStep, TypeOK
    <3> QED
      BY <1>4, <3>1, <3>2 DEF Targeted
  <2>2. pod[v] = "gone"
    BY <1>1, <2>1 DEF NameGone, Exists, VolumeInv, Basic, TypeOK
  <2>3. Basic(v)'
    BY <1>1, <1>2, <2>2 DEF VolumeInv, Basic, Same, Idle
  <2>4. ASSUME Timely(v) PROVE Timely(v)'
    BY <1>2, <2>1, <2>4 DEF Timely, Publishing, Unpublishing, Same
  <2>5. ASSUME Undisturbed(v) PROVE Undisturbed(v)'
    BY <1>2, <2>5 DEF Undisturbed, Served, Same
  <2> QED
    BY <1>1, <1>2, <2>3, <2>4, <2>5 DEF VolumeInv, Same
<1> QED
  BY <1>3, <1>4

\* The file that Prune removes is not one that a handler relies on.
LEMMA PruneRemoveInv ==
    ASSUME LifecycleInv, NEW v \in Volumes, PruneRemove(v)
    PROVE  \A u \in Volumes : VolumeInv(u)'
<1>1. TypeOK
  BY DEF LifecycleInv
<1>2. ASSUME NEW u \in Volumes PROVE Targeted(u)' => Targeted(u)
  <2>1. /\ v \in pruner.found /\ pruner.pc = "prune"
        /\ \/ pruner' = [pruner EXCEPT !.found = @ \ {v}]
           \/ pruner' = [pruner EXCEPT !.found = @ \ {v}, !.pc = "unmount", !.vol = v]
    BY DEF PruneRemove, PrunerStep
  <2>2. CASE pruner' = [pruner EXCEPT !.found = @ \ {v}]
    BY <1>1, <2>1, <2>2 DEF Targeted, TypeOK
  <2>3. CASE pruner' = [pruner EXCEPT !.found = @ \ {v}, !.pc = "unmount", !.vol = v]
    <3>1. pruner'.found = pruner.found \ {v} /\ pruner'.vol = v
      BY <1>1, <2>3 DEF TypeOK
    <3> QED
      BY <2>1, <3>1 DEF Targeted
  <2> QED
    BY <2>1, <2>2, <2>3
<1>3. ASSUME NEW u \in Volumes, u # v \/ file[v] = "absent" PROVE VolumeInv(u)'
  <2>1. Same(u)
    BY <1>1, <1>3 DEF PruneRemove, PrunerStep, Same, TypeOK, kubeVars, memVars
  <2> QED
    BY <1>2, <2>1, Frame DEF LifecycleInv
<1>4. CASE file[v] # "absent"
  <2>1. /\ file'[v] = "absent" /\ marks'[v] = marks[v] \cup {"prune"}
        /\ UNCHANGED <<pod, told, waiting, pc, dvs, callbacks, updates, mounts>>
    BY <1>1, <1>4 DEF PruneRemove, PrunerStep, TypeOK, kubeVars, memVars
  <2>2. VolumeInv(v) /\ Targeted(v)
    BY DEF LifecycleInv, PruneRemove, Targeted
  <2>3. Basic(v)'
    BY <1>2, <2>1, <2>2 DEF VolumeInv, Basic, Idle
  <2>4. ASSUME Timely(v) PROVE Timely(v)'
    <3>1. \A s \in Slots : pc[v][s] \notin PublishPCs
      BY <2>2, <2>4 DEF Timely, Publishing
    <3>2. Publishing(v)' /\ Unpublishing(v)'
      BY <2>1, <2>4, <3>1 DEF Timely, Publishing, Unpublishing, PublishPCs
    <3> QED
      BY <1>2, <2>1, <2>4, <3>2 DEF Timely
  <2>5. VolumeInv(v)'
    BY <2>1, <2>2, <2>3, <2>4 DEF VolumeInv
  <2> QED
    BY <1>3, <2>5
<1> QED
  BY <1>3, <1>4

\* The mount that Prune takes off is not under a running publish.
LEMMA PruneUnmountInv ==
    ASSUME LifecycleInv, PruneUnmount, NEW v \in Volumes
    PROVE  VolumeInv(v)'
<1>1. TypeOK /\ VolumeInv(v) /\ mounts[v] \in Nat
  BY DEF LifecycleInv, TypeOK
<1>2. Targeted(v)' => Targeted(v)
  BY <1>1 DEF PruneUnmount, PrunerStep, Targeted, TypeOK
<1>3. CASE v # pruner.vol
  <2>1. Same(v)
    BY <1>1, <1>3 DEF PruneUnmount, PrunerStep, Same, TypeOK, kubeVars, memVars, histVars
  <2> QED
    BY <1>1, <1>2, <2>1, Frame
<1>4. CASE v = pruner.vol
  <2>1. /\ mounts'[v] = IF mounts[v] > 0 THEN mounts[v] - 1 ELSE mounts[v]
        /\ UNCHANGED <<pod, told, waiting, pc, dvs, callbacks, updates, file, marks>>
    BY <1>1, <1>4 DEF PruneUnmount, PrunerStep, TypeOK, kubeVars, memVars, histVars
  <2>2. Targeted(v)
    BY <1>4 DEF PruneUnmount, Targeted
  <2>3. Basic(v)'
    BY <1>1, <1>2, <2>1 DEF VolumeInv, Basic, Idle
  <2>4. ASSUME Timely(v) PROVE Timely(v)'
    <3>1. \A s \in Slots : pc[v][s] \notin PublishPCs
      BY <2>2, <2>4 DEF Timely, Publishing
    <3>2. Publishing(v)' /\ Unpublishing(v)'
      BY <1>1, <2>1, <2>4, <3>1 DEF Timely, Publishing, Unpublishing, PublishPCs, MountedPCs
    <3> QED
      BY <1>1, <1>2, <2>1, <2>4, <3>2 DEF Timely
  <2>5. marks[v] # {}
    BY <1>4 DEF LifecycleInv, Marked, PruneUnmount
  <2> QED
    BY <1>1, <2>1, <2>3, <2>4, <2>5 DEF VolumeInv
<1> QED
  BY <1>3, <1>4

\* A step of the pruner preserves the invariant of every volume.
LEMMA PruneInv ==
    ASSUME LifecycleInv, Prune, NEW v \in Volumes
    PROVE  VolumeInv(v)'
<1>1. TypeOK /\ VolumeInv(v)
  BY DEF LifecycleInv
<1>2. CASE PruneWalk \/ PruneCollected \/ PruneEnd \/ \E u \in Volumes : PruneStat(u)
  <2>1. Same(v)
    BY <1>2 DEF PruneWalk, PruneCollected, PruneEnd, PruneStat, PrunerStep, Same,
                kubeVars, memVars, histVars
  <2>2. Targeted(v)' => Targeted(v)
    <3>1. CASE PruneWalk
      BY <3>1 DEF PruneWalk, PrunerStep, Targeted
    <3>2. CASE PruneCollected
      BY <1>1, <3>2 DEF PruneCollected, PrunerStep, Targeted, TypeOK
    <3>3. CASE PruneEnd
      BY <3>3 DEF PruneEnd, PrunerStep, Targeted, IdlePruner
    <3>4. ASSUME NEW u \in Volumes, PruneStat(u) PROVE Targeted(v)' => Targeted(v)
      <4>1. pruner'.found = pruner.found /\ pruner'.pc # "unmount"
        BY <1>1, <3>4 DEF PruneStat, PrunerStep, TypeOK
      <4> QED
        BY <4>1 DEF Targeted
    <3> QED
      BY <1>2, <3>1, <3>2, <3>3, <3>4
  <2> QED
    BY <1>1, <2>1, <2>2, Frame
<1>3. CASE PruneOpenFails
  BY <1>3, RestartInv DEF PruneOpenFails
<1> QED
  BY <1>2, <1>3, VisitInv, PruneRemoveInv, PruneUnmountInv DEF Prune

\* Every step keeps Marked: marks only grow.
LEMMA NextMarked ==
    ASSUME TypeOK, Marked, [Next]_vars
    PROVE  Marked'
<1> USE DEF memVars, diskVars, histVars, kubeVars
<1>1. CASE UNCHANGED vars
  BY <1>1 DEF vars, Marked
<1>2. CASE Crash \/ PruneOpenFails
  BY <1>2 DEF Crash, PruneOpenFails, Restart, IdlePruner, Marked
<1>3. CASE PruneWalk \/ PruneVisit \/ PruneCollected \/ PruneUnmount \/ PruneEnd
           \/ \E v \in Volumes : PruneStat(v)
  <2>1. pruner'.pc # "unmount"
    <3>1. CASE PruneWalk \/ PruneEnd
      BY <3>1 DEF PruneWalk, PruneEnd, PrunerStep, IdlePruner
    <3>2. CASE PruneVisit
      BY <3>2 DEF PruneVisit, Visited, PrunerStep, TypeOK
    <3>3. CASE PruneCollected \/ PruneUnmount
      BY <3>3 DEF PruneCollected, PruneUnmount, PrunerStep, TypeOK
    <3>4. ASSUME NEW v \in Volumes, PruneStat(v) PROVE pruner'.pc # "unmount"
      BY <3>4 DEF PruneStat, PrunerStep, TypeOK
    <3> QED
      BY <1>3, <3>1, <3>2, <3>3, <3>4
  <2> QED
    BY <2>1 DEF Marked
<1>4. ASSUME NEW v \in Volumes, PruneRemove(v) PROVE Marked'
  <2>1. CASE file[v] = "absent"
    BY <1>4, <2>1 DEF PruneRemove, PrunerStep, Marked, TypeOK
  <2>2. CASE file[v] # "absent"
    <3>1. pruner'.vol = v
      BY <1>4, <2>2 DEF PruneRemove, PrunerStep, TypeOK
    <3>2. "prune" \in marks'[v]
      BY <1>4, <2>2 DEF PruneRemove, TypeOK
    <3> QED
      BY <3>1, <3>2 DEF Marked
  <2> QED
    BY <2>1, <2>2
<1>5. CASE \E v \in Volumes : \/ CreatePod(v) \/ DeletePod(v) \/ FinishPod(v)
                             \/ ForceDeletePod(v) \/ Kubelet(v) \/ Timeout(v)
                             \/ \E s \in Slots : Handler(v, s)
  <2>1. pruner' = pruner
    BY <1>5 DEF CreatePod, DeletePod, FinishPod, ForceDeletePod, SetPod, Kubelet,
                CallPublish, CallUnpublish, Call, Timeout, Handler, NodePublishVolume,
                NodeUnpublishVolume, Create, Check, Mount, WriteFirst, Register, Store,
                Encode, Lookup, Unmount, RemoveTarget, Forget, Unregister, RemoveFile
  <2>2. \A v \in Volumes : marks[v] \subseteq marks'[v]
    BY <1>5 DEF TypeOK, CreatePod, DeletePod, FinishPod, ForceDeletePod, SetPod, Kubelet,
                CallPublish, CallUnpublish, Call, Timeout, Handler, NodePublishVolume,
                NodeUnpublishVolume, Create, Check, Mount, WriteFirst, Register, Store,
                Encode, Lookup, Unmount, RemoveTarget, Forget, Unregister, RemoveFile,
                Fails, Mark
  <2> QED
    BY <2>1, <2>2 DEF Marked, TypeOK
<1> QED
  BY <1>1, <1>2, <1>3, <1>4, <1>5 DEF Next, Prune

\* Every step preserves the invariant.
LEMMA NextInv ==
    ASSUME LifecycleInv, [Next]_vars
    PROVE  LifecycleInv'
<1>1. TypeOK' /\ Marked'
  BY NextType, NextMarked DEF LifecycleInv
<1>2. ASSUME NEW u \in Volumes PROVE VolumeInv(u)'
  <2>1. TypeOK /\ VolumeInv(u)
    BY DEF LifecycleInv
  <2>2. CASE UNCHANGED vars
    BY <2>1, <2>2, Frame DEF vars, kubeVars, memVars, diskVars, histVars, Same, Targeted
  <2>3. ASSUME NEW v \in Volumes,
               \/ CreatePod(v) \/ DeletePod(v) \/ FinishPod(v) \/ ForceDeletePod(v)
               \/ Kubelet(v) \/ Timeout(v)
        PROVE  VolumeInv(u)'
    BY <2>1, <2>3, KubeFrame, Frame, PodInv, CallInv, TimeoutInv
  <2> QED
    BY <2>2, <2>3, HandlerInv, PruneInv, RestartInv DEF Next, Crash
<1> QED
  BY <1>1, <1>2 DEF LifecycleInv

-----------------------------------------------------------------------------
(* Theorems                                                                *)

\* The inductive invariant holds in every reachable state.
THEOREM LifecycleInvariant ==
    Spec => []LifecycleInv
  BY InitInv, NextInv, PTL DEF Spec

\* Every variable stays in its type, however many faults there are.
THEOREM LifecycleTypeOK ==
    Spec => []TypeOK
<1>1. LifecycleInv => TypeOK
  BY DEF LifecycleInv
<1> QED
  BY <1>1, LifecycleInvariant, PTL

\* Prune (driver.go:829-892) aims only at volumes whose own pod is gone.
THEOREM PruneSparesLiveHolds ==
    Spec => []PruneSparesLive
<1>1. LifecycleInv => PruneSparesLive
  BY DEF LifecycleInv, VolumeInv, Basic, Targeted, PruneSparesLive
<1> QED
  BY <1>1, LifecycleInvariant, PTL

\* Errors, restarts, retries and the pruner never stack a second tmpfs on a
\* target path (nodeserver.go:226-258).
THEOREM MountedOnceHolds ==
    Spec => []MountedOnce
<1>1. LifecycleInv => MountedOnce
  BY DEF LifecycleInv, VolumeInv, Timely, MountedOnce
<1> QED
  BY <1>1, LifecycleInvariant, PTL

\* The first copy of the data lands on a tmpfs (nodeserver.go:256-262).
THEOREM FirstCopyOnTmpfsHolds ==
    Spec => []FirstCopyOnTmpfs
<1>1. LifecycleInv => FirstCopyOnTmpfs
  BY DEF LifecycleInv, VolumeInv, Timely, Publishing, MountedPCs, FirstCopyOnTmpfs
<1> QED
  BY <1>1, LifecycleInvariant, PTL

\* A published volume that nothing has disturbed is mounted once, persisted,
\* in the volumes map and registered, across restarts (nodeserver.go:249-271,
\* driver.go:780-825).
THEOREM PublishedIsServedHolds ==
    Spec => []PublishedIsServed
<1>1. LifecycleInv => PublishedIsServed
  <2> SUFFICES ASSUME LifecycleInv, NEW v \in Volumes,
                      told[v] = "published", waiting[v] = None, marks[v] = {}
               PROVE  Served(v)
    BY DEF PublishedIsServed
  <2>1. Timely(v) /\ Undisturbed(v)
    BY DEF LifecycleInv, VolumeInv
  <2>2. \A s \in Slots : pc[v][s] = "idle"
    BY <2>1, LifecycleAssumption DEF Timely, Publishing
  <2> QED
    BY <2>1, <2>2 DEF Undisturbed, CleanupPCs
<1> QED
  BY <1>1, LifecycleInvariant, PTL

\* When the kubelet was told a volume is unpublished, nothing of it is left
\* (nodeserver.go:288-321).
THEOREM UnpublishedIsCleanHolds ==
    Spec => []UnpublishedIsClean
<1>1. LifecycleInv => UnpublishedIsClean
  BY DEF LifecycleInv, VolumeInv, Timely, UnpublishedIsClean
<1> QED
  BY <1>1, LifecycleInvariant, PTL
=============================================================================
