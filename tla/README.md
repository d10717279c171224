# A TLA+ model of the Shared Resource CSI driver

The driver runs on every node of a cluster. Pods mount *shares* (`SharedSecret`,
`SharedConfigMap`): cluster-scoped objects that reference a Secret or ConfigMap of
some other namespace. The driver copies the referenced data into a tmpfs of the
pod's own, keeps it up to date, and takes it away when the share, the object or the
pod's permission to use the share goes away. A webhook, a process of its own, refuses
pods and shares that break the rules. This directory models how content reaches,
follows and leaves the volumes of one node, what publishing leaves on the node, which
namespaces are watched, how configuration is followed, and what may be admitted.

## Inventory

| Component | State | Operations | Talks to |
|---|---|---|---|
| Volume rangers, `pkg/csidriver/driver.go` | `volumes` map, target directories | `shareUpdateRanger`, `shareDeleteRanger`, `commonUpsertRanger`, `commonDeleteRanger`, `mapBackingResourceToPod`, `registerRangers`, `createVolume`, `deleteVolume`, `loadVolsFromDisk`, `Prune` | listers, SAR client, callback maps, file system |
| Callback maps, `pkg/cache` | per kind: upsert, delete, share update, share delete callbacks, keyed by volume | `UpsertSecret`, `DelSecret`, `AddSharedSecret`, `DelSharedSecret`, `Register…`, `Unregister…` and their ConfigMap twins | called by workers and node server, call the rangers |
| Controller, `pkg/controller` | four workqueues, share informers, one object informer per watched namespace | event handlers, four event processors, `sync…`, `Register…Informer`, `Prune…Informers` | informers, callback maps |
| Listers and SAR client, `pkg/client` | shared listers per namespace | `Get…`, `List…`, `ExecuteSAR` | informers' caches, API server |
| Node server, `nodeserver.go`, `mount.go`, `dpv.go` | mounts, persisted volume files | `NodePublishVolume`, `NodeUnpublishVolume`, `StoreToDisk` | kubelet, rangers |
| Start-up, `cmd/csidriver/main.go` | process phase | load volumes, start controller, pruner goroutine, exit on a configuration change | all of the above |
| Configuration, `pkg/config` | `LoadedConfig`, file checksum, reserved-name list | `LoadConfig`, `ConfigHasChanged`, `Validate…` | start-up, node server, callback maps |
| Admission webhook, `pkg/webhook`, `cmd/webhook` | `Dispatcher.mu`, reserved names | `HandleRequest`, `Validate`, `Authorized` | API server |
| gRPC server, identity service, metrics, signal handling | sockets, counters | – | – |

What is hard in this code is concurrency without locks. Two workers per kind, the
gRPC handlers and the pruner share callback maps, listers, the `volumes` map and
the target directories; each of them reads something (a SAR, a share, a filter),
then acts on it later. Events are queued and may be stale, deletions are reported
only to a process that was running, callbacks are in memory while volumes are on
disk, and the kubelet retries. What makes the parts correct:

- **rangers, callback maps, workers together**: content only for pods that were
  allowed; only from the object the volume's share references; eventually the API
  server's data; eventually nothing, if permission, share or object is gone.
- **node server**: a publish that reports success leaves a volume that is populated,
  registered and persisted; an unpublish leaves nothing; both may be retried.
- **start-up**: a reloaded volume behaves like one published by this process.
- **informer registry**: an informer is closed once, and one that is needed runs.
- **configuration, reserved names, webhook**: defaults apply, reserved shares are
  refused, pods that violate the rules are rejected.

`PROJECT.json` lists the hazards with the lines where they bite and the properties that
cover them.

## Modules

| Module | Models | Proofs |
|---|---|---|
| `ShareSync` | content synchronisation: rangers, callback maps, workers, publish, restart | `ShareSyncProofs` |
| `VolumeView` | what a pod can observe of its volume; implemented by `ShareSync` | `ShareSyncViewProofs` |
| `VolumeLifecycle` | publish, unpublish, `StoreToDisk`, reload and `Prune`, system call by system call | `VolumeLifecycleProofs` |
| `NodeContract` | what the kubelet may rely on; implemented by `VolumeLifecycle` | `NodeContractProofs` |
| `ConfigManager` | configuration file, defaults, change detection, exit | (with the registry) |
| `InformerRegistry` | the informers per namespace, in the process `ConfigManager` starts and ends | `InformerRegistryProofs` |
| `Admission` | reserved names, the webhook and the driver's own check of a publish | `AdmissionProofs`, `ReservedNamesProofs` |

`MC...` modules give the constants of the runs. `InformerRegistry` extends
`ConfigManager`: registering and pruning depend on the loaded configuration and end with
the process. `ShareSync` sees the registry as the set `watched` and assumes that every
namespace can be listed; `VolumeLifecycle` sees `ShareSync` as callbacks of a volume;
`Admission` continues where `VolumeLifecycle`'s `Create` may refuse.

Left for later: the file-system steps of the vendored atomic writer against those of
`commonOSRemove`, and the writes of a pass to a directory that was unmounted meanwhile.

## ShareSync

One instance models one kind of share; `Kind` selects the two places where the twin
code paths differ. State and code:

| Variable | Code |
|---|---|
| `apiShare`, `apiObj`, `allowed` | the API server: a share's reference, an object's data, whom a SAR allows |
| `shareLister`, `objLister`, `watched` | the informers' caches and the namespaces with an informer (an object per namespace) |
| `shareQ`, `objQ` | `sharedSecretWorkqueue`, `secretWorkqueue` |
| `th` | program counter and locals of the share worker, the object worker, the node handler |
| `phase` | `"loading"` inside `NewCSIDriver`, `"running"` afterwards |
| `volumes`, `upsertCb`, `deleteCb`, `shareUpdateCb`, `shareDeleteCb` | the `volumes` map and the callback maps, as sets of volume IDs |
| `mounted`, `content`, `disk`, `kubelet` | the tmpfs mounts, what is in the target directory, the files under `/csi-volumes-map`, what the kubelet was told |
| `authorized`, `refs` | history: volumes a SAR ever allowed, references a share ever had |

An object's data is a value and `NoKeys`, the object without keys; `content[v]` is the
pair of object and data in the directory, or `None`.

Actions: `SyncShare`, `RelistShare`, `SyncObj`, `ResyncObj` (watch events and resyncs);
`PruneInformers`; `SyncShared`, `AddShared`, `DelSharedVisit`, `SyncSharedPrune` (the
share worker); `SyncObject`, `UpsertObjShare(s)`, `UpsertObjCallback`, `DelObjCallback`
(the object worker); `PassVisit`, `PassFetch`, `PassDeny`, `UpsertFilter`,
`UpsertWrite` (the rangers, run by any thread); `NodePublishVolume`, `PublishMount`,
`mapBackingResourceToPod`, `Register…` (one publish); `NodeUnpublishVolume`;
`LoadVol`, `StartController`, `Crash`, `MapPanic` (process life). A step ends where the
code reads or writes state that another thread can change.

### Abstractions

- Adds and updates are one verb: `syncSecret`, `syncSharedSecret` treat them alike.
- Every registered share callback runs the same pass over all volumes; the passes of
  one event are one pass. A pass visits a snapshot of the map and looks each volume up
  again, as `Range` does.
- The reads of the share and of its object in a pass are one step, so are filter and
  removal in `commonDeleteRanger`, `commonOSRemove`, and the atomic writer's work.
- A workqueue drops an event equal to a queued one. Two informer deliveries are never
  equal (the event holds a pointer); a resync repeats the cached pointer.
- `RegisterInformer` is one step and its namespace can be listed; pruning happens between
  events of the share worker or in the pruner goroutine. The races inside belong to
  `InformerRegistry`.
- One node call at a time; unpublishing is one step; requests that validation refuses
  change nothing and are left out. `VolumeLifecycle` and `Admission` split these.
- File-system errors, and API errors other than "not found" of a share or object, are
  not modelled; a failing SAR is.

`View` maps `ShareSync` to `VolumeView`: what a pod reads is `content`, who was granted is
`authorized`, where it may come from is `refs` of the volume's share. Threads, queues,
caches, callbacks and restarts are invisible, so `ImplementsView` says that none of them
can produce content a pod could not have got by one authorized write.

The liveness properties hold because the relist of a share starts a pass that asks,
reads and rewrites everything again. They say nothing of volumes that were never
persisted (`PublishRetry` shows why) nor of deleted shares (`ShareDeleteRace`). A failed
SAR removes content like a refusal; `ContentConverges` shows that it comes back.

## VolumeLifecycle

Every system call, map operation and answer of `NodePublishVolume` and
`NodeUnpublishVolume` is a step; `pc[v][slot]` says which one comes next.

| Variable | Code |
|---|---|
| `pod`, `told`, `waiting` | the pod's API object; what the kubelet believes of the mount; the handler whose answer it waits for |
| `pc` | the gRPC handlers of a volume, several when a call outlived its deadline: the handlers do not look at the context |
| `dvs`, `callbacks` | the `volumes` map; volumes whose object and share delete callbacks are registered |
| `updates` | volumes with a share update callback: `deleteVolume` deletes from the upsert maps instead, so it stays until the process ends (`cache/shares.go:181-191`) |
| `file` | the volume's file under `/csi-volumes-map`: absent, truncated by `os.Create`, or encoded. When the directory cannot be opened, `StoreToDisk` stores nothing and reports success (`dpv.go:191-195`) |
| `mounts` | how many tmpfs are stacked on the target path |
| `pruner` | `Prune`: walk, open, decode and look the pod up, then remove and unmount |
| `marks` | history: what has disturbed a volume (error, timeout, crash, prune) |

The kubelet is external: it has one outstanding call per volume, retries errors,
publishes for live pods and unpublishes once a pod is being deleted. `Crash`, and the
panic in `Prune`, end all handlers; mounts and files survive and `loadVolsFromDisk` reads
complete files back. The pruner asks for a pod by namespace and name, so two volumes of
pods of one name matter to each other.

Abstractions: the locks of a `driverVolume` guard single fields and are not modelled, and
the fields `mapVolumeToPod` and `NodePublishVolume` set after the map store are set with
it. An `Encode` to a file that was removed and created again makes the new file full, as
if both had written it. Content of the target directory is `ShareSync`'s. `umount` of the
mount ID, the tmpfs's source, takes the topmost one off (external).

Most properties exclude volumes a call of which outlived its deadline: with two handlers
at work a second tmpfs can be stacked and unpublishing removes one of them.
`PublishedIsServed` and `UnpublishSucceeds` speak of undisturbed volumes only, because
a failing `os.Remove`, a cut publish or the pruner does leave a volume that can never be
unpublished; `UnpublishStuck` shows one such case. `PublishedIsMounted` is what is left
to every volume, overlapping calls, torn or missing files included: a container that was
started on a volume has a tmpfs until its pod is deleted. `UnpublishedIsClean` says that
an unpublish leaves the share update callback and nothing else. Tmpfs that overlapping
calls stack, and that stay when one is taken off, are forbidden by no property. `UnpublishNeverRefused` is the safety
half of `UnpublishSucceeds`: the first call that ends undisturbed succeeds.

`Contract` maps `VolumeLifecycle` to `NodeContract`, which knows pods and answers and, of
all the rest, only whether a volume is *served*: one tmpfs, a complete file, its map entry
and its callbacks (`Served`). `ImplementsContract` says that serving begins with the very
step that answers "published", that only unpublishing or pruning the volume of a deleted
pod ends it, never a restart, and that "unpublished" is the last answer. The contract is weaker, by
name, where the code is: a disturbed volume may be called published without being served
(`HalfPublish`: the retry that finds the mount, or a file that could not be stored), a late one keeps only the order of its
answers (`Overrun`). What a disturbance may do is part of the abstract specification,
so no volume and no behaviour is left out of the refinement.

## ConfigManager and InformerRegistry

`ConfigManager` keeps the file, the process, the configuration `LoadConfig` returned to
`main`, the global `LoadedConfig` and the checksum. A file that is missing is no error
and no change; a malformed one, or an interval a ticker refuses, ends the start, and the
kubelet tries again.

`InformerRegistry` models the map of informers with the steps of `Register...Informer`
(`LoadOrStore` of a placeholder, start and set the lister, wait for the cache, store) and
of `Prune...Informers` (read the namespaces to keep, visit, close the stop channel,
delete), taken by the share worker, the pruner goroutine and, after a signal, `Run`.
Closing a nil or closed channel panics (`ClosePanic`, `RunPanic`) and restarts the
process. `Range` visits keys in any order and loads each entry again. Informers that
nothing refers to are reused, so five identities serve any number of registrations. The
wait for the cache never fails, because nobody else has its stop channel, and never ends
when the namespace cannot be listed.

## Admission

Requests of the API server (create, update, delete of pods and shares, and bodies or
kinds that are not for the webhook) wait for `Dispatcher.mu`, are read under it for as
long as the client takes (`ReadBody`), judged by the reserved names of the webhook's
process and answered; an answer that cannot be encoded makes `SendResponse` call itself
until the process dies (`EncodeFails`). The API server writes what was allowed unless the
object changed meanwhile (external: it asks before every write, which is
`failurePolicy: Fail`). Both processes are rolled out separately, with another
environment or the same.

The driver reads shares through a lister that lags. `NodePublishVolume` judges the
lister's copy of the share by the names of its own process (`judged`), awaits the
SubjectAccessReview, keeps the share's name, mounts, and then `mapBackingResourceToPod`
gets the share again, from the lister or from the API server, and copies what it refers
to now (`copy`), which nobody judges. A `SharedSecret` that is gone by then is a nil
dereference (`MapPanics`), a `SharedConfigMap` leaves the volume empty, and a call that
finds the target mounted (`tmpfs`) succeeds at once. `StoreToDisk` and unpublishing are
left to `VolumeLifecycle`.

A string is a word and whether blanks surround it; an environment variable is what
`strings.Split` makes of it; `parseEnvVar` is a recursive function over it, compared with
`Listed`, the definition without recursion: a name's last well-formed entry counts. TLS,
JSON and HTTP are whether a body parses. Connections are interchangeable. A pod has one
publish call at a time.

`AdmittedAsJudged` is as strong as the code allows: rendering prefers `OldObject`, so an
update is judged by the share it replaces. A share may be updated to a reference that
its name is not reserved for, and can then be neither repaired nor deleted through
the webhook. `validateShare` refuses to mount it once the lister has the update, but an
update that arrives between the judgement and the copy is served: `PopulatedConforms`
says that this is the only way, or a share created anew past a webhook with another list.
The run reaches the first of the two; the second takes a request more than the bound and
is covered by the proof only. Updates after the publish belong to `ShareSync`, where
passes follow a share wherever it points; the reserved names play no part there.

## Runs

| Run | Instance | Checks |
|---|---|---|
| `TwoShares` | `ShareSync`: 1 volume, 2 shares, 2 objects, 1 change, resync, unpublish | `TypeOK`, `OnlyAuthorized`, `Provenance`, `PersistedIsWired`, `ImplementsView` |
| `SecretSync` | `ShareSync`: 1 volume, 2 changes of share (deleted, created again, informer pruned), object, permission, SAR error, crash | `ContentConverges`, `RevokedContentRemoved` |
| `ConfigMapSync` | `ShareSync`: 2 volumes of a share, refresh off, 2 changes of share, object, permission, crash; unpublish | `OnlyAuthorized`, `PersistedIsWired`, `ContentConverges`, `RevokedContentRemoved` |
| `Lifecycle` | 2 volumes of successive pods of one name, 2 handlers each, any one fault | `TypeOK`, `PublishedIsServed`, `PublishedIsMounted`, `MountedOnce`, `UnpublishedIsClean`, `PruneSparesLive`, `FirstCopyOnTmpfs`, `UnpublishNeverRefused`, `ImplementsContract`, `UnpublishSucceeds`, `OrphanFilePruned` |
| `Registry` | 1 share, 2 namespaces, 5 informers, 4 configuration payloads, 2 changes | `TypeOK`, `NoOrphanInformer`, `ListerFollowsWatch`, `OneInformerPerNamespace`, `ReferencedIsWatched`, `UnneededIsPruned`, `ConfigFollowed` |
| `Admission` | 2 connections, 3 requests, 1 pod with 4 possible specs, 3 shares, 2 references, 2 environments, 1 rollout | `TypeOK`, `ReservationsAsListed`, `GatesAgree`, `PopulatedConforms`, `AdmittedPodsAreReadOnly`, `ValidateShareNeverPanics`, `AdmittedAsJudged`, `RequestsAnswered` |

Six runs end in a counterexample to what a doc or a comment says (`findings` in
`PROJECT.json` quote it):

| Run | Property | What happens |
|---|---|---|
| `ShareDeleteRace` | `ShareDeletedContentRemoved` | a write that passed the filter lands after the removal |
| `RefreshOff` | `RefreshOffKeepsContent` | passes rewrite a volume with refresh off |
| `PublishRetry` | `PublishedContentConverges` | the retry of a failed publish succeeds without content |
| `UnpublishStuck` | `UnpublishCompletes` | `Prune` takes file and mount of a force-deleted pod, every unpublish then fails |
| `PrunePanic` | `PruneContinues` | a file that goes between `lstat` and `open` ends the process |
| `ShareBlocked` | `AccessibleIsWatched` | one namespace that cannot be listed blocks the only share worker |

**Bounds.** `MaxChanges`, `MaxFaults`, `MaxRequests` and `MaxRollouts` bound what users,
failures and crashes do in a behaviour; `Env` selects the kinds an instance has. Queues
are not bounded: events come from changes, and resyncs of what is queued already add
nothing. Races need one change at the wrong moment, repair of a race one or two more
(revoke and grant, delete and create, update and crash), so two changes suffice; one
fault in `Lifecycle` may hit any step of any call. Two objects and two shares are
needed for a write to reach the wrong volume, two volumes for a pass to have somewhere to
go on to and for pods to share a name, two handlers for calls to overlap, two
namespaces for a share to move, two connections for the mutex and for conflicting writes.
The safety properties are proved without any bound.

**Deadlock** is checked in the runs of `VolumeLifecycle`, where the pruner always ticks.
Elsewhere it is not: a driver with empty queues, a configuration file no process starts
with, or a webhook nobody asks, in an environment that has used up its changes,
legitimately stops.

**Fairness.** Nothing is assumed of users, faults, signals or rollouts, which end because
they are bounded: a driver that crashes for ever converges to nothing.

- `ShareSync`: informers deliver what the API server holds (`SyncShare`, `SyncObj`), the
  share informer resyncs (`RelistShare`: the factory is created with the relist
  interval), each goroutine runs when it can. Not assumed: the objects' resync, the
  pruner, the kubelet.
- `VolumeLifecycle`: the kubelet retries, a handler that runs goes on, the pruner's
  ticker fires.
- `InformerRegistry`: the kubelet starts and, after a signal, kills the container; the
  configuration is compared every three seconds; worker, pruner, watch and resync run.
- `Admission`: a request whose body has been read is answered and a free mutex is taken.
  Weak fairness of each request suffices for the mutex because requests are bounded.
  Nothing is assumed of clients: `HandleRequest` reads the body under the mutex
  and the `http.Server` has no read deadline (`cmd/webhook/main.go:69-71`), so one
  stalled client blocks every request. `RequestsAnswered` is therefore conditional: it
  promises an answer to all if no client withholds a body for ever.

## Proofs

`ShareSyncProofs` proves, for all volumes, shares, objects, data and bounds,

- `TypeInvariant`, `TypeCorrect`: `Spec => []TypeInv`, `Spec => []TypeOK`. `TypeOK` is
  not inductive: a step that reads `th[t].item.obj` is well-typed only if the thread
  has an item at that program counter. `RecOK` says which locals each counter has.
- `OnlyAuthorizedHolds`: `Spec => []OnlyAuthorized`, from `AuthInv`. Upsert callbacks
  write without a SAR, reloaded volumes were authorized by another process: `AuthInv`
  follows authorization through the `volumes` map, the persisted files, the upsert
  callbacks and the threads' locals.
- `ProvenanceHolds`: `Spec => []Provenance`, from `ProvInv`: cached references were
  references of the API server, and a thread at `"write"` has matched its object with
  one for its volume's share.
- `PersistedIsWiredHolds`: `Spec => []PersistedIsWired`, from `WiredInv`: a persisted
  volume is never published again, the update callback is stored before the pass of
  `registerRangers`, and an idle handler holds no volume.

The three safety proofs share one argument. `Effects` shows that every step is quiet
(users, informers), a restart, a handler step, or moves one thread through a ranger or
worker, and bounds what each kind may change; the invariants are then preserved case by
case.

`ShareSyncViewProofs` proves `ViewRefinement`, `Spec => ImplementsView`: initial states map
to initial states, and every step is one of `VolumeView` or leaves the view alone. The
step that writes needs `AuthInv` and `ProvInv`, which give the guard of `Serve`.

`VolumeLifecycleProofs` proves `LifecycleTypeOK`, `PublishedIsServedHolds`,
`MountedOnceHolds`, `UnpublishedIsCleanHolds`, `PruneSparesLiveHolds` and
`FirstCopyOnTmpfsHolds`, for any number of volumes, overlapping handlers and faults and
any assignment of names to pods. None of the properties is inductive. `LifecycleInv`
says of a volume without a timeout that its running handler is the only one and the one
the kubelet waits for, what each program counter has established, and that a complete
file means the kubelet was told; from the last fact it follows that `Prune`, which only
collects complete files, never meets a running publish. Of an undisturbed volume it says
that it is served until its unpublish has taken the mount away. A step concerns one
volume; `Frame` carries the others.

`NodeContractProofs` proves

- `ContractRefinement`: `Spec => ImplementsContract`. `ContractInv` adds two things to
  `LifecycleInv`. `LifecycleInv` says little of late volumes, but the contract
  orders their answers too: `InOrder` ties the handlers and the awaited call of *any*
  volume to its pod and to the last answer. And a restart must not begin to serve a
  volume: `Wired` says that what it would reload is in the map with its callbacks
  already. Of a volume that is not late, `Served` turns true only when `Encode`
  completes the file and answers, and false only when an unpublish takes the mount or
  `Prune` the file.
- `ContractKeeps`: `Spec => []Contract!Kept`, the contract's promise as a fact about the
  driver's state.
- `PublishedIsMountedHolds`: `Spec => []PublishedIsMounted`, late volumes included. A
  live pod's volume has no unpublish under way (`InOrder`) and `Prune` never aims at it, so
  nothing takes its tmpfs off; `Secured` says that a handler that is past its mount has one.
- `UnpublishNeverRefusedHolds`: `Spec => UnpublishNeverRefused`. An undisturbed volume
  still has what the next step of its unpublish removes, whatever other volumes, the
  pruner and restarts did before.

`InformerRegistryProofs` proves `RegistryTypeOK`, `NoOrphanInformerHolds`,
`ListerFollowsWatchHolds` and `OneInformerPerNamespaceHolds` from `RegistryInv`: a placeholder is in the map exactly while
the worker makes its informer, nobody can stop the informer the worker waits for, and
what a pruner has loaded or stopped stays in the map until that pruner deletes it. That
is why the unlocked load, close and delete of two goroutines lose no informer: the
second of two closes panics before it can delete.

`AdmissionProofs` proves `AdmissionTypeOK`, `AdmittedAsJudgedHolds`, `GatesAgreeHolds`,
`PopulatedConformsHolds`, `ValidateShareNeverPanicsHolds` and `AdmittedPodsAreReadOnlyHolds`
from `AdmissionInv`, which follows a judgement from the webhook's answer to the stored
share, the lister's copy and the call under review, and the read-only check of a pod from
the answer to the stored pod. It keeps the copy `validateShare` judged apart from the one
that is got again: the first conforms to the driver's list, of the second only its own
last write is known.

`ReservedNamesProofs` proves `ReservationsAsListedHolds`: `Spec => []ReservationsAsListed`,
for environment values of any length. The heart is `ParseIsListed`, what the loop of
`parseEnvVar` computes. Induction over the turns is done by the least counterexample: a
turn that breaks the claim would have a least one (`LeastNumber`, from `WFMin` of
`WellFoundedInduction`), and `ListedTurn` shows that the turn before it breaks it too.
`TurnsExist` shows that the recursive function is what its equation says.

The assumptions are those the modules name (`ConstAssumption`, `LifecycleAssumption`,
`ConfigAssumption`, `RegistryAssumption`, `AdmissionAssumption`): types of constants, and
that markers such as `None` are no objects. TLC evaluates them in every run.

So every invariant, action property and refinement that a passing run checks is
proved. Only model-checked are the liveness properties: `ContentConverges`,
`RevokedContentRemoved`, `UnpublishSucceeds`, `OrphanFilePruned`, `ReferencedIsWatched`,
`UnneededIsPruned`, `ConfigFollowed` and `RequestsAnswered`. They need fairness, which is
beyond the prover.

## Not modelled

- The steps inside the vendored atomic writer and `commonOSRemove`: a write and a removal
  are single steps, so a directory two threads change at once is not seen half way.
- Writes of a pass to a directory whose tmpfs was unmounted meanwhile (`ShareSync` has
  the write, `VolumeLifecycle` the mount), and the keys that stay in a volume when its
  object loses its last one: the hazards' notes say so.
- File-system errors outside publish, unpublish and `Prune`.
- The gRPC server and the identity service (socket I/O, constant answers), metrics
  (counters and an HTTP server), signal handling beyond the first signal.
