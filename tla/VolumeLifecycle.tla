-------------------------- MODULE VolumeLifecycle --------------------------
(***************************************************************************)
(* The life of a node's volumes: NodePublishVolume and NodeUnpublishVolume *)
(* of pkg/csidriver/nodeserver.go, the file each volume leaves under       *)
(* volMapRoot, the restart that reads those files back, and the pruner     *)
(* goroutine that removes the files of pods that no longer exist.          *)
(*                                                                         *)
(* ShareSync models WHICH content a volume holds; this module models what  *)
(* it leaves on the node: every system call of the two handlers is a step, *)
(* and two calls for one volume may overlap, because the handlers do not   *)
(* look at the context of a call the kubelet has given up on.              *)
(*                                                                         *)
(* The pod's API object, the kubelet and the mount table are external; the *)
(* kubelet has at most one outstanding call per volume, retries errors,    *)
(* publishes for live pods and unpublishes once a pod is being deleted.    *)
(***************************************************************************)
EXTENDS Naturals, FiniteSets

CONSTANTS
    Volumes,       \* CSI volume IDs; an ID belongs to one pod UID
    PodName,       \* volume -> namespace/name of its pod
    Slots,         \* handlers of one volume that may run at the same time
    None,          \* no slot, no volume
    Env,           \* the faults an instance takes
    MaxFaults      \* bound: faults in a behaviour

Faults == {"error", "timeout", "crash", "force", "lookup"}

ASSUME LifecycleAssumption ==
    /\ Slots \subseteq Nat
    /\ None \notin Volumes \cup Slots
    /\ Env \subseteq Faults
    /\ MaxFaults \in Nat

VARIABLES
    pod,        \* volume -> the pod's API object: future, live, terminating, gone
    told,       \* volume -> what the kubelet believes of the mount
    waiting,    \* volume -> the slot whose answer the kubelet waits for
    pc,         \* volume -> slot -> the next step of its gRPC handler
    dvs,        \* the volumes map of driver.go
    callbacks,  \* volumes with a callback for their object or for a deleted share
    updates,    \* volumes with a callback for an updated share
    file,       \* volume -> its file under volMapRoot: absent, torn or full
    mounts,     \* volume -> tmpfs mounts stacked on its target path
    pruner,     \* the pruner goroutine
    marks,      \* history: volume -> what has disturbed it
    faults      \* faults so far

kubeVars == <<pod, told, waiting>>
memVars  == <<dvs, callbacks, updates>>
diskVars == <<file, mounts>>
histVars == <<marks, faults>>
vars == <<kubeVars, pc, memVars, diskVars, pruner, histVars>>

PublishPCs   == {"create", "check", "mount", "write", "register", "store", "encode"}
UnpublishPCs == {"lookup", "unmount", "remove", "forget", "unregister", "rmFile"}
PCs == PublishPCs \cup UnpublishPCs \cup {"idle"}

IdlePruner == [pc |-> "idle", todo |-> {}, found |-> {}, vol |-> None]

Idle(v) == \A s \in Slots : pc[v][s] = "idle"

\* the API server knows a pod by its namespace and name only
Exists(v)  == pod[v] \in {"live", "terminating"}
NameGone(v) == \A u \in Volumes : PodName[u] = PodName[v] => ~Exists(u)

Init ==
    /\ pod = [v \in Volumes |-> "future"]
    /\ told = [v \in Volumes |-> "none"]
    /\ waiting = [v \in Volumes |-> None]
    /\ pc = [v \in Volumes |-> [s \in Slots |-> "idle"]]
    /\ dvs = {} /\ callbacks = {} /\ updates = {}
    /\ file = [v \in Volumes |-> "absent"]
    /\ mounts = [v \in Volumes |-> 0]
    /\ pruner = IdlePruner
    /\ marks = [v \in Volumes |-> {}]
    /\ faults = 0

Fault(kind) == /\ kind \in Env
               /\ faults < MaxFaults
               /\ faults' = faults + 1

Mark(v, kind) == Fault(kind) /\ marks' = [marks EXCEPT ![v] = @ \cup {kind}]

-----------------------------------------------------------------------------
(* The pod and the kubelet.                                                *)

SetPod(v, p) == /\ pod' = [pod EXCEPT ![v] = p]
                /\ UNCHANGED <<told, waiting, pc, memVars, diskVars, pruner, marks>>

\* two pods of one name do not exist at the same time
CreatePod(v) == /\ pod[v] = "future" /\ NameGone(v)
                /\ SetPod(v, "live")
                /\ UNCHANGED faults

DeletePod(v) == /\ pod[v] = "live"
                /\ SetPod(v, "terminating")
                /\ UNCHANGED faults

\* the kubelet lets the pod go when it holds no volume any more
FinishPod(v) == /\ pod[v] = "terminating"
                /\ told[v] \in {"none", "unpublished"} /\ waiting[v] = None
                /\ SetPod(v, "gone")
                /\ UNCHANGED faults

\* kubectl delete --force: the object goes before the volumes are unmounted
ForceDeletePod(v) == /\ Exists(v)
                     /\ Fault("force")
                     /\ SetPod(v, "gone")

Call(v, first) ==
    /\ waiting[v] = None
    /\ \E s \in Slots :
          /\ pc[v][s] = "idle"
          /\ \A r \in Slots : pc[v][r] = "idle" => s <= r
          /\ waiting' = [waiting EXCEPT ![v] = s]
          /\ pc' = [pc EXCEPT ![v][s] = first]
    /\ UNCHANGED <<pod, told, memVars, diskVars, pruner, histVars>>

CallPublish(v) == /\ pod[v] = "live"
                  /\ told[v] \in {"none", "uncertain"}
                  /\ Call(v, "create")

CallUnpublish(v) == /\ pod[v] \in {"terminating", "gone"}
                    /\ told[v] \in {"published", "uncertain"}
                    /\ Call(v, "lookup")

\* The deadline of a call passes; its handler runs on.
Timeout(v) ==
    /\ waiting[v] # None
    /\ Mark(v, "timeout")
    /\ waiting' = [waiting EXCEPT ![v] = None]
    /\ told' = IF pc[v][waiting[v]] \in PublishPCs
               THEN [told EXCEPT ![v] = "uncertain"] ELSE told
    /\ UNCHANGED <<pod, pc, memVars, diskVars, pruner>>

Kubelet(v) == CallPublish(v) \/ CallUnpublish(v)

-----------------------------------------------------------------------------
(* The handlers. Each step is one system call, map operation or answer.    *)

Go(v, s, next) == /\ pc' = [pc EXCEPT ![v][s] = next]
                  /\ UNCHANGED kubeVars

\* The handler returns; only the answer of the outstanding call is heard.
Return(v, s, belief) ==
    /\ pc' = [pc EXCEPT ![v][s] = "idle"]
    /\ IF waiting[v] = s
       THEN /\ waiting' = [waiting EXCEPT ![v] = None]
            /\ told' = [told EXCEPT ![v] = belief]
       ELSE UNCHANGED <<waiting, told>>
    /\ UNCHANGED pod

\* an error of publish is final to the kubelet; unpublish will be retried
Error(v, s) == Return(v, s, IF pc[v][s] \in PublishPCs THEN "none" ELSE told[v])

Fails(v, s) == Mark(v, "error") /\ Error(v, s)

(* NodePublishVolume *)

\* validateVolumeContext and validateShare refuse, or createVolume runs
Create(v, s) ==
    /\ pc[v][s] = "create"
    /\ \/ Error(v, s) /\ UNCHANGED dvs
       \/ Go(v, s, "check") /\ dvs' = dvs \cup {v}
    /\ UNCHANGED <<pruner, callbacks, updates, diskVars, histVars>>

\* (defect: an existing mount is not looked for)
Check_Always(v, s) ==
    /\ pc[v][s] = "check"
    /\ Go(v, s, "mount")
    /\ UNCHANGED <<pruner, memVars, diskVars, histVars>>

\* IsNotMountPoint, and MkdirAll of a missing target; a mount point ends the
\* call with success
Check(v, s) ==
    /\ pc[v][s] = "check"
    /\ \/ /\ mounts[v] > 0
          /\ Return(v, s, "published")
          /\ UNCHANGED histVars
       \/ /\ mounts[v] = 0
          /\ Go(v, s, "mount")
          /\ UNCHANGED histVars
       \/ Fails(v, s)
    /\ UNCHANGED <<pruner, memVars, diskVars>>

\* (defect: the error of Mount is ignored)
Mount_ErrorIgnored(v, s) ==
    /\ pc[v][s] = "mount"
    /\ Go(v, s, "write")
    /\ \/ mounts' = [mounts EXCEPT ![v] = @ + 1] /\ UNCHANGED histVars
       \/ Mark(v, "error") /\ UNCHANGED mounts
    /\ UNCHANGED <<pruner, memVars, file>>

\* makeFSMounts
Mount(v, s) ==
    /\ pc[v][s] = "mount"
    /\ \/ /\ Go(v, s, "write")
          /\ mounts' = [mounts EXCEPT ![v] = @ + 1]
          /\ UNCHANGED histVars
       \/ Fails(v, s) /\ UNCHANGED mounts
    /\ UNCHANGED <<pruner, memVars, file>>

\* mapBackingResourceToPod: the first copy (none when the share is gone)
WriteFirst(v, s) ==
    /\ pc[v][s] = "write"
    /\ \/ Go(v, s, "register") /\ UNCHANGED histVars
       \/ Fails(v, s)
    /\ UNCHANGED <<pruner, memVars, diskVars>>

\* registerRangers
Register(v, s) ==
    /\ pc[v][s] = "register"
    /\ Go(v, s, "store")
    /\ callbacks' = callbacks \cup {v} /\ updates' = updates \cup {v}
    /\ UNCHANGED <<pruner, dvs, diskVars, histVars>>

\* StoreToDisk: os.Create truncates the file ...; when volMapRoot cannot be
\* opened nothing is stored and the call succeeds
Store(v, s) ==
    /\ pc[v][s] = "store"
    /\ \/ /\ Go(v, s, "encode")
          /\ file' = [file EXCEPT ![v] = "torn"]
          /\ UNCHANGED histVars
       \/ /\ Mark(v, "error")
          /\ Return(v, s, "published")
          /\ UNCHANGED file
       \/ Fails(v, s) /\ UNCHANGED file
    /\ UNCHANGED <<pruner, memVars, mounts>>

\* ... and Encode writes it (to an unlinked inode when it was removed)
Encode(v, s) ==
    /\ pc[v][s] = "encode"
    /\ \/ /\ Return(v, s, "published")
          /\ file' = [file EXCEPT ![v] = IF @ = "absent" THEN @ ELSE "full"]
          /\ UNCHANGED histVars
       \/ Fails(v, s) /\ UNCHANGED file
    /\ UNCHANGED <<pruner, memVars, mounts>>

(* NodeUnpublishVolume *)

\* getVolume: "already gone" is an error
Lookup(v, s) ==
    /\ pc[v][s] = "lookup"
    /\ IF v \in dvs THEN Go(v, s, "unmount") ELSE Error(v, s)
    /\ UNCHANGED <<pruner, memVars, diskVars, histVars>>

\* (defect: the mount ID is never found, as with mount.CleanupMountPoint)
Unmount_NotFound(v, s) ==
    /\ pc[v][s] = "unmount"
    /\ Error(v, s)
    /\ UNCHANGED <<pruner, memVars, diskVars, histVars>>

\* removeFSMounts: the topmost mount goes; without one umount fails
Unmount(v, s) ==
    /\ pc[v][s] = "unmount"
    /\ \/ /\ mounts[v] > 0
          /\ Go(v, s, "remove")
          /\ mounts' = [mounts EXCEPT ![v] = @ - 1]
          /\ UNCHANGED histVars
       \/ /\ mounts[v] = 0
          /\ Error(v, s)
          /\ UNCHANGED <<mounts, histVars>>
       \/ Fails(v, s) /\ UNCHANGED mounts
    /\ UNCHANGED <<pruner, memVars, file>>

\* deleteVolume looks the volume up again; RemoveAll of the target path comes
\* before remV and its error is ignored
RemoveTarget(v, s) ==
    /\ pc[v][s] = "remove"
    /\ Go(v, s, IF v \in dvs THEN "forget" ELSE "unregister")
    /\ UNCHANGED <<pruner, memVars, diskVars, histVars>>

\* remV
Forget(v, s) ==
    /\ pc[v][s] = "forget"
    /\ Go(v, s, "unregister")
    /\ dvs' = dvs \ {v}
    /\ UNCHANGED <<pruner, callbacks, updates, diskVars, histVars>>

\* (defect: the callbacks of a deleted volume stay registered)
Unregister_Never(v, s) ==
    /\ pc[v][s] = "unregister"
    /\ Go(v, s, "rmFile")
    /\ UNCHANGED <<pruner, memVars, diskVars, histVars>>

\* the unregistrations of deleteVolume; the two that are for the share update
\* maps delete from the upsert maps, and the update callback stays
Unregister(v, s) ==
    /\ pc[v][s] = "unregister"
    /\ Go(v, s, "rmFile")
    /\ callbacks' = callbacks \ {v}
    /\ UNCHANGED <<pruner, dvs, updates, diskVars, histVars>>

\* os.Remove of the volume's file: a missing file is an error
RemoveFile(v, s) ==
    /\ pc[v][s] = "rmFile"
    /\ \/ /\ file[v] # "absent"
          /\ Return(v, s, "unpublished")
          /\ file' = [file EXCEPT ![v] = "absent"]
          /\ UNCHANGED histVars
       \/ /\ file[v] = "absent"
          /\ Error(v, s)
          /\ UNCHANGED <<file, histVars>>
       \/ Fails(v, s) /\ UNCHANGED file
    /\ UNCHANGED <<pruner, memVars, mounts>>

NodePublishVolume(v, s) ==
    \/ Create(v, s) \/ Check(v, s) \/ Mount(v, s) \/ WriteFirst(v, s)
    \/ Register(v, s) \/ Store(v, s) \/ Encode(v, s)

NodeUnpublishVolume(v, s) ==
    \/ Lookup(v, s) \/ Unmount(v, s) \/ RemoveTarget(v, s) \/ Forget(v, s)
    \/ Unregister(v, s) \/ RemoveFile(v, s)

Handler(v, s) == NodePublishVolume(v, s) \/ NodeUnpublishVolume(v, s)

-----------------------------------------------------------------------------
(* The driver's process ends and is started again. Mounts and files        *)
(* survive; loadVolsFromDisk runs before the server listens. A call that   *)
(* was running ends with an error the kubelet is not sure about.           *)

\* (defect: a complete file is taken for a corrupted one)
loadVolsFromDisk_Torn == {v \in Volumes : file[v] = "torn"}

loadVolsFromDisk == {v \in Volumes : file[v] = "full"}

Restart ==
    /\ pc' = [v \in Volumes |-> [s \in Slots |-> "idle"]]
    /\ told' = [v \in Volumes |->
                  IF waiting[v] # None /\ pc[v][waiting[v]] \in PublishPCs
                  THEN "uncertain" ELSE told[v]]
    /\ waiting' = [v \in Volumes |-> None]
    /\ dvs' = loadVolsFromDisk
    /\ callbacks' = loadVolsFromDisk /\ updates' = loadVolsFromDisk
    /\ pruner' = IdlePruner
    /\ marks' = [v \in Volumes |-> IF Idle(v) THEN marks[v]
                                   ELSE marks[v] \cup {"crash"}]
    /\ UNCHANGED <<pod, diskVars>>

Crash == Fault("crash") /\ Restart

-----------------------------------------------------------------------------
(* The pruner goroutine: driver.Prune at every tick.                       *)

PrunerStep(p) == /\ pruner' = p
                 /\ UNCHANGED <<kubeVars, pc, memVars>>

\* filepath.Walk reads the names first
PruneWalk == /\ pruner.pc = "idle"
             /\ PrunerStep([pc |-> "walk", found |-> {}, vol |-> None,
                            todo |-> {v \in Volumes : file[v] # "absent"}])
             /\ UNCHANGED <<file, mounts, histVars>>

\* (defect: the nil info of a file that is gone is used)
PruneStat_NilInfo(v) ==
    /\ pruner.pc = "walk" /\ v \in pruner.todo
    /\ PrunerStep([pruner EXCEPT !.todo = @ \ {v}, !.pc = "open",
                      !.vol = IF file[v] = "absent" THEN None ELSE v])
    /\ UNCHANGED <<file, mounts, histVars>>

\* Walk's lstat of the next name: a file that is gone is passed over
PruneStat(v) ==
    /\ pruner.pc = "walk" /\ v \in pruner.todo
    /\ PrunerStep([pruner EXCEPT !.todo = @ \ {v},
                      !.pc = IF file[v] = "absent" THEN "walk" ELSE "open",
                      !.vol = IF file[v] = "absent" THEN None ELSE v])
    /\ UNCHANGED <<file, mounts, histVars>>

\* os.Open of a file that went after the lstat: the log line calls Error of
\* the walk's err, which is nil, and the process panics
PruneOpenFails == /\ pruner.pc = "open" /\ file[pruner.vol] = "absent"
                  /\ Restart
                  /\ UNCHANGED faults

Visited(found) == PrunerStep([pruner EXCEPT !.pc = "walk", !.vol = None,
                                            !.found = found])

\* (defect: any error of the pod lookup counts as "not found")
PruneVisit_AnyError ==
    /\ pruner.pc = "open" /\ file[pruner.vol] # "absent"
    /\ \/ /\ Visited(IF file[pruner.vol] = "full" /\ NameGone(pruner.vol)
                     THEN pruner.found \cup {pruner.vol} ELSE pruner.found)
          /\ UNCHANGED histVars
       \/ /\ Fault("lookup")
          /\ Visited(pruner.found \cup {pruner.vol})
          /\ UNCHANGED marks
    /\ UNCHANGED <<file, mounts>>

\* (defect: only files of volumes in the map are looked at)
PruneVisit_InMap ==
    /\ pruner.pc = "open" /\ file[pruner.vol] # "absent"
    /\ Visited(IF /\ pruner.vol \in dvs
                  /\ file[pruner.vol] = "full" /\ NameGone(pruner.vol)
               THEN pruner.found \cup {pruner.vol} ELSE pruner.found)
    /\ UNCHANGED <<file, mounts, histVars>>

\* A file that decodes and whose pod is not found is collected; a torn file
\* and a lookup that fails otherwise are passed over.
PruneVisit ==
    /\ pruner.pc = "open" /\ file[pruner.vol] # "absent"
    /\ \/ /\ Visited(IF file[pruner.vol] = "full" /\ NameGone(pruner.vol)
                     THEN pruner.found \cup {pruner.vol} ELSE pruner.found)
          /\ UNCHANGED histVars
       \/ /\ Fault("lookup")
          /\ Visited(pruner.found)
          /\ UNCHANGED marks
    /\ UNCHANGED <<file, mounts>>

PruneCollected == /\ pruner.pc = "walk" /\ pruner.todo = {}
                  /\ PrunerStep([pruner EXCEPT !.pc = "prune"])
                  /\ UNCHANGED <<file, mounts, histVars>>

\* os.Remove; a file that is already gone is only logged
PruneRemove(v) ==
    /\ pruner.pc = "prune" /\ v \in pruner.found
    /\ IF file[v] = "absent"
       THEN /\ PrunerStep([pruner EXCEPT !.found = @ \ {v}])
            /\ UNCHANGED <<file, marks>>
       ELSE /\ PrunerStep([pruner EXCEPT !.found = @ \ {v}, !.pc = "unmount",
                                         !.vol = v])
            /\ file' = [file EXCEPT ![v] = "absent"]
            /\ marks' = [marks EXCEPT ![v] = @ \cup {"prune"}]
    /\ UNCHANGED <<mounts, faults>>

\* Unmount of what the file named; its error is only logged. The volumes map
\* and the callback maps are left alone.
PruneUnmount ==
    /\ pruner.pc = "unmount"
    /\ mounts' = [mounts EXCEPT ![pruner.vol] = IF @ > 0 THEN @ - 1 ELSE @]
    /\ PrunerStep([pruner EXCEPT !.pc = "prune", !.vol = None])
    /\ UNCHANGED <<file, histVars>>

PruneEnd == /\ pruner.pc = "prune" /\ pruner.found = {}
            /\ PrunerStep(IdlePruner)
            /\ UNCHANGED <<file, mounts, histVars>>

Prune == \/ PruneWalk \/ PruneOpenFails \/ PruneVisit \/ PruneCollected
         \/ PruneUnmount \/ PruneEnd
         \/ \E v \in Volumes : PruneStat(v) \/ PruneRemove(v)

-----------------------------------------------------------------------------
Next == \/ \E v \in Volumes :
              \/ CreatePod(v) \/ DeletePod(v) \/ FinishPod(v) \/ ForceDeletePod(v)
              \/ Kubelet(v) \/ Timeout(v)
              \/ \E s \in Slots : Handler(v, s)
        \/ Prune \/ Crash

Spec == Init /\ [][Next]_vars

(* The kubelet retries, a running handler goes on, and the pruner's ticker *)
(* fires again; nothing is assumed of users and faults.                    *)
Fairness == /\ \A v \in Volumes : WF_vars(Kubelet(v))
            /\ \A v \in Volumes : WF_vars(\E s \in Slots : Handler(v, s))
            /\ WF_vars(Prune)

FairSpec == Spec /\ Fairness

-----------------------------------------------------------------------------
(* Properties                                                              *)

\* Every variable stays in its type.
TypeOK ==
    /\ pod \in [Volumes -> {"future", "live", "terminating", "gone"}]
    /\ told \in [Volumes -> {"none", "uncertain", "published", "unpublished"}]
    /\ waiting \in [Volumes -> Slots \cup {None}]
    /\ pc \in [Volumes -> [Slots -> PCs]]
    /\ dvs \subseteq Volumes
    /\ callbacks \subseteq Volumes /\ updates \subseteq Volumes
    /\ file \in [Volumes -> {"absent", "torn", "full"}]
    /\ mounts \in [Volumes -> Nat]
    /\ pruner \in [pc : {"idle", "walk", "open", "prune", "unmount"},
                   todo : SUBSET Volumes, found : SUBSET Volumes,
                   vol : Volumes \cup {None}]
    /\ (pruner.pc \in {"open", "unmount"} => pruner.vol \in Volumes)
    /\ marks \in [Volumes -> SUBSET (Faults \cup {"prune"})]
    /\ faults \in 0..MaxFaults

\* the tmpfs, a complete file for the next restart to find, the entry in the
\* volumes map and the share callbacks
Served(v) == /\ mounts[v] = 1 /\ file[v] = "full"
             /\ v \in dvs /\ v \in callbacks /\ v \in updates

\* A volume the kubelet was told is published, and that nothing has disturbed
\* since, has exactly one tmpfs, a complete file for the next restart to find,
\* its entry in the volumes map and its share callbacks - whatever restarts of
\* the driver came in between (nodeserver.go:249-271, driver.go:780-825).
PublishedIsServed ==
    \A v \in Volumes :
        told[v] = "published" /\ waiting[v] = None /\ marks[v] = {} => Served(v)

\* Whatever has happened to a volume - failed, overlapping or interrupted calls,
\* torn or missing files, retries that return early, prunings - a container never
\* runs on the bare directory of the host: once the kubelet was told that the
\* volume is published it has a tmpfs, until its pod is deleted
\* (nodeserver.go:233-257, 288-321, driver.go:829-892).
PublishedIsMounted ==
    \A v \in Volumes :
        told[v] = "published" /\ pod[v] = "live" => mounts[v] > 0

\* Unless a call outlived its deadline, a volume never has two tmpfs stacked
\* on its target path: NodeUnpublishVolume and Prune take off only one
\* (nodeserver.go:226-258, mount.go:62-73), whatever errors, restarts and
\* retries there were.
MountedOnce ==
    \A v \in Volumes : "timeout" \notin marks[v] => mounts[v] <= 1

\* When the kubelet was told a volume is unpublished and no call of it runs
\* on, it has no map entry, no file, no mount and, of its callbacks, none but
\* the one for updates of its share, whatever errors, torn files, crashes and
\* prunings came before (nodeserver.go:288-321, driver.go:761-778). That one
\* stays until the process ends (cache/shares.go:181-191).
UnpublishedIsClean ==
    \A v \in Volumes :
        told[v] = "unpublished" /\ Idle(v) /\ "timeout" \notin marks[v] =>
            /\ v \notin dvs /\ v \notin callbacks
            /\ file[v] = "absent" /\ mounts[v] = 0

\* Prune collects, removes and unmounts only volumes whose own pod is gone,
\* although it asks for the pod by name, walks the files before it removes
\* them and runs against every handler (driver.go:829-892).
PruneSparesLive ==
    \A v \in Volumes :
        (v \in pruner.found \/ (pruner.pc = "unmount" /\ v = pruner.vol))
            => pod[v] = "gone"

\* The first copy of the data, NodePublishVolume's own, lands on the tmpfs it
\* has just mounted and not in the bare directory of the host, unless a call
\* outlived its deadline: neither a retry nor Prune takes the mount away in
\* between (nodeserver.go:256-262, driver.go:231-290).
FirstCopyOnTmpfs ==
    \A v \in Volumes, s \in Slots :
        pc[v][s] = "write" /\ "timeout" \notin marks[v] => mounts[v] > 0

\* A volume of a pod that is being deleted is unpublished by the first call that
\* ends, if none of its calls fails, times out or is cut by a crash and Prune
\* does not take its file first: neither a restart nor another volume makes
\* getVolume, the unmount or the removal of the file fail
\* (nodeserver.go:288-321, driver.go:705-778).
UnpublishNeverRefused ==
    [][\A v \in Volumes, s \in Slots :
         pc[v][s] \in UnpublishPCs /\ pc'[v][s] = "idle" /\ marks'[v] = {}
             => told'[v] = "unpublished"]_vars

\* The handlers, the files, the pruner and the restarts together implement what
\* the kubelet may rely on: serving begins with the answer "published", outlives
\* restarts and ends only once the pod is deleted, and "unpublished" is the last
\* answer (nodeserver.go:185-321, driver.go:761-892).
Contract == INSTANCE NodeContract
                WITH serving <- {v \in Volumes : Served(v)},
                     disturbed <- {v \in Volumes : marks[v] # {}},
                     late <- {v \in Volumes : "timeout" \in marks[v]}
ImplementsContract == Contract!Spec

\* A volume of a pod that is being deleted does not stay published, however its
\* publish and unpublish calls interleave with the pruner, as long as no call
\* of it fails, times out or is cut by a crash and Prune does not take its file
\* first (nodeserver.go:288-321).
UnpublishSucceeds ==
    \A v \in Volumes :
        []<>(told[v] # "published" \/ pod[v] = "live" \/ marks[v] # {})

\* The file of a volume whose pod's name is gone does not stay: "remove any
\* orphaned volume files on disk" (cmd/csidriver/main.go:97-98).
OrphanFilePruned ==
    \A v \in Volumes : []<>(file[v] # "full" \/ ~NameGone(v))

\* As driver.go:847 has it, a file that cannot be opened is passed over and
\* Prune continues with the next file.
PruneContinues ==
    [][pruner.pc = "open" /\ pruner'.pc = "idle" => faults' # faults]_vars

\* As mount.go:63-65 wants it, the termination of a pod never hangs: a volume
\* that was published is at last unpublished once its pod is deleted.
UnpublishCompletes ==
    \A v \in Volumes :
        told[v] = "published" /\ pod[v] # "live" ~> told[v] = "unpublished"
=============================================================================
