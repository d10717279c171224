----------------------------- MODULE ShareSync -----------------------------
(***************************************************************************)
(* How the content of shared Secrets / ConfigMaps reaches, follows and     *)
(* leaves the volumes of one node.                                         *)
(*                                                                         *)
(* One instance models one Kind of share ("Secret" or "ConfigMap"): the    *)
(* code keeps disjoint workqueues, callback maps and listers per kind and  *)
(* the two paths are line-by-line twins, except where Kind is tested here. *)
(*                                                                         *)
(* Three threads of the driver process interleave:                         *)
(*   "share" - sharedSecretEventProcessor / sharedConfigMapEventProcessor  *)
(*   "obj"   - secretEventProcessor / configMapEventProcessor              *)
(*   "node"  - the gRPC handler of the kubelet's call, and, at start-up,   *)
(*             loadVolsFromDisk                                            *)
(* around the API server, the informers' caches and the file system.       *)
(* Each backing object lives in a namespace of its own, so the informer of *)
(* a namespace is the informer of its object.                              *)
(***************************************************************************)
EXTENDS Naturals, Sequences, FiniteSets

CONSTANTS
    Volumes,           \* CSI volume IDs
    Shares,            \* SharedSecret / SharedConfigMap names
    Objects,           \* backing Secrets / ConfigMaps (namespace:name keys)
    Data,              \* what an object may hold
    NoKeys,            \* the member of Data with no key at all
    None,              \* absent
    ShareOf,           \* volume -> the share its volumeAttributes name
    Refresh,           \* volume -> volumeAttribute refreshResource
    RefreshResources,  \* config refreshResources
    Kind,              \* "Secret" or "ConfigMap"
    InitApi,           \* the API server states an instance starts from
    Env,               \* the environment steps an instance takes
    MaxChanges         \* bound: environment changes in a behaviour

EnvSteps == {"createShare", "retarget", "deleteShare", "putObj", "deleteObj",
             "grant", "revoke", "sarError", "resync", "crash", "unpublish"}

ASSUME ConstAssumption ==
    /\ NoKeys \in Data
    /\ None \notin Objects \cup Data \cup Volumes \cup Shares
    /\ ShareOf \in [Volumes -> Shares]
    /\ Refresh \in [Volumes -> BOOLEAN]
    /\ RefreshResources \in BOOLEAN
    /\ Kind \in {"Secret", "ConfigMap"}
    /\ InitApi \subseteq [share : [Shares -> Objects \cup {None}],
                         obj : [Objects -> Data \cup {None}],
                         allowed : SUBSET Volumes]
    /\ Env \subseteq EnvSteps
    /\ MaxChanges \in Nat

VARIABLES
    \* the API server
    apiShare,       \* share -> the object its spec references, or None
    apiObj,         \* object -> its data, or None
    allowed,        \* volumes whose pod's service account may "use" its share
    changes,        \* environment changes so far
    \* the informers' caches, the watched namespaces and the workqueues
    shareLister, objLister, watched, shareQ, objQ,
    \* the driver process: its threads, its volumes and its callback maps
    th, phase, volumes, upsertCb, deleteCb, shareUpdateCb, shareDeleteCb,
    \* the node: tmpfs mounts, what a pod reads, persisted volumes, kubelet
    mounted, content, disk, kubelet,
    \* history: volumes a SAR ever allowed, every reference a share ever had
    authorized, refs

apiVars  == <<apiShare, apiObj, allowed, changes>>
infVars  == <<shareLister, objLister, watched, shareQ, objQ>>
cbVars   == <<upsertCb, deleteCb, shareUpdateCb, shareDeleteCb>>
nodeVars == <<mounted, disk, kubelet>>
vars == <<apiVars, infVars, th, phase, volumes, cbVars, nodeVars, content,
          authorized, refs>>

Threads == {"share", "obj", "node"}

PCs == {"idle",
        \* shareUpdateRanger over the volumes, and one volume of it
        "pass", "fetch", "filter", "write", "deny",
        \* syncSharedSecret: AddSharedSecret, shareDeleteRanger, pruning
        "add", "delPass", "prune",
        \* UpsertSecret's loops, DelSecret's loop
        "shares", "callbacks", "delCallbacks",
        \* NodePublishVolume
        "mount", "map", "regUpsert", "regDelete",
        \* registerRangers, also of loadVolsFromDisk
        "regShare", "finish"}

Items == [obj : Objects, data : Data]

IdleThread == [pc |-> "idle", cur |-> None, ev |-> None, share |-> None,
               shares |-> {}, todo |-> {}, vol |-> None, sar |-> FALSE,
               item |-> None, uret |-> "idle"]

-----------------------------------------------------------------------------
(* Reads through the listers (pkg/client/listers.go): the informer's cache  *)
(* first, then a live GET.                                                 *)

GetShared(s) == IF shareLister[s] # None THEN shareLister[s] ELSE apiShare[s]

GetObj(o) == IF objLister[o] # None THEN objLister[o] ELSE apiObj[o]

\* ListSharedSecrets: the live LIST is asked only when the cache has no share
ListShared == IF \A s \in Shares : shareLister[s] = None
              THEN apiShare ELSE shareLister

\* (defect: any key passes once the share is found)
commonRangerProceedFilter_AnyKey(v, o) == GetShared(ShareOf[v]) # None

\* commonRangerProceedFilter: does key o pertain to volume v now?
commonRangerProceedFilter(v, o) == GetShared(ShareOf[v]) = o

\* What the target directory holds after commonUpsertRanger: aw.Write runs
\* only for a non-empty projection and then replaces all previous keys.
Written(old, i) == IF i.data = NoKeys THEN old ELSE i

\* namespaces of the shares in the cache: NamespacesWithSharedSecrets
NamespacesWithShares == {shareLister[s] : s \in Shares} \ {None}

Init ==
    /\ \E a \in InitApi : apiShare = a.share /\ apiObj = a.obj /\ allowed = a.allowed
    /\ changes = 0
    /\ shareLister = [s \in Shares |-> None]
    /\ objLister = [o \in Objects |-> None]
    /\ watched = {}
    /\ shareQ = <<>> /\ objQ = <<>>
    /\ th = [t \in Threads |-> IdleThread]
    /\ phase = "loading"
    /\ volumes = {}
    /\ upsertCb = {} /\ deleteCb = {} /\ shareUpdateCb = {} /\ shareDeleteCb = {}
    /\ mounted = {} /\ disk = {}
    /\ content = [v \in Volumes |-> None]
    /\ kubelet = [v \in Volumes |-> "pending"]
    /\ authorized = {}
    /\ refs = [s \in Shares |-> {apiShare[s]} \ {None}]

-----------------------------------------------------------------------------
(* The cluster: users change shares, objects and permissions.              *)

Change(step) == /\ step \in Env
                /\ changes < MaxChanges
                /\ changes' = changes + 1

SetShare(step, s, o) ==
    /\ Change(step)
    /\ apiShare' = [apiShare EXCEPT ![s] = o]
    /\ refs' = [refs EXCEPT ![s] = @ \cup ({o} \ {None})]
    /\ UNCHANGED <<apiObj, allowed, infVars, th, phase, volumes, cbVars,
                   nodeVars, content, authorized>>

CreateShare(s, o) == apiShare[s] = None /\ SetShare("createShare", s, o)

RetargetShare(s, o) == /\ apiShare[s] \notin {None, o}
                       /\ SetShare("retarget", s, o)

DeleteShare(s) == apiShare[s] # None /\ SetShare("deleteShare", s, None)

SetObj(step, o, d) ==
    /\ Change(step)
    /\ apiObj[o] # d
    /\ apiObj' = [apiObj EXCEPT ![o] = d]
    /\ UNCHANGED <<apiShare, allowed, infVars, th, phase, volumes, cbVars,
                   nodeVars, content, authorized, refs>>

PutObj(o, d) == SetObj("putObj", o, d)

DeleteObj(o) == SetObj("deleteObj", o, None)

SetAllowed(step, a) ==
    /\ Change(step)
    /\ allowed' = a
    /\ UNCHANGED <<apiShare, apiObj, infVars, th, phase, volumes, cbVars,
                   nodeVars, content, authorized, refs>>

Grant(v)  == v \notin allowed /\ SetAllowed("grant", allowed \cup {v})

Revoke(v) == v \in allowed /\ SetAllowed("revoke", allowed \ {v})

Cluster == \/ \E s \in Shares :
                 \/ DeleteShare(s)
                 \/ \E o \in Objects : CreateShare(s, o) \/ RetargetShare(s, o)
           \/ \E o \in Objects : DeleteObj(o) \/ \E d \in Data : PutObj(o, d)
           \/ \E v \in Volumes : Grant(v) \/ Revoke(v)

-----------------------------------------------------------------------------
(* The informers: the cache takes the API server's state and the handlers  *)
(* queue an event; a periodic resync queues an update of what is cached.   *)
(* Adds and updates are handled alike, so one verb stands for both.        *)

Running == phase = "running"

\* workqueue.Add of an event already queued is a no-op; a resync repeats the
\* cached pointer, so its event is equal to the last one queued for it.
Enqueue(q, e) == IF \E i \in 1..Len(q) : q[i] = e THEN q ELSE Append(q, e)

\* (defect: a deletion is queued without the object of its tombstone)
SyncShare_NilDeleted(s) ==
    /\ Running
    /\ shareLister[s] # apiShare[s]
    /\ shareLister' = [shareLister EXCEPT ![s] = apiShare[s]]
    /\ shareQ' = Append(shareQ, [share |-> s, ref |-> apiShare[s],
                                 verb |-> IF apiShare[s] = None THEN "del" ELSE "upd"])
    /\ UNCHANGED <<apiVars, objLister, watched, objQ, th, phase, volumes,
                   cbVars, nodeVars, content, authorized, refs>>

SyncShare(s) ==
    /\ Running
    /\ shareLister[s] # apiShare[s]
    /\ shareLister' = [shareLister EXCEPT ![s] = apiShare[s]]
    /\ shareQ' = Append(shareQ, IF apiShare[s] = None
                    THEN [share |-> s, ref |-> shareLister[s], verb |-> "del"]
                    ELSE [share |-> s, ref |-> apiShare[s], verb |-> "upd"])
    /\ UNCHANGED <<apiVars, objLister, watched, objQ, th, phase, volumes,
                   cbVars, nodeVars, content, authorized, refs>>

\* (defect: the informer factory has no resync period)
RelistShare_NoResync(s) == FALSE

RelistShare(s) ==
    /\ Running
    /\ shareLister[s] # None
    /\ shareQ' = Enqueue(shareQ,
                    [share |-> s, ref |-> shareLister[s], verb |-> "upd"])
    /\ UNCHANGED <<apiVars, shareLister, objLister, watched, objQ, th, phase,
                   volumes, cbVars, nodeVars, content, authorized, refs>>

SyncObj(o) ==
    /\ Running
    /\ o \in watched
    /\ objLister[o] # apiObj[o]
    /\ objLister' = [objLister EXCEPT ![o] = apiObj[o]]
    /\ objQ' = Append(objQ, IF apiObj[o] = None
                    THEN [obj |-> o, data |-> objLister[o], verb |-> "del"]
                    ELSE [obj |-> o, data |-> apiObj[o], verb |-> "upd"])
    /\ UNCHANGED <<apiVars, shareLister, watched, shareQ, th, phase, volumes,
                   cbVars, nodeVars, content, authorized, refs>>

ResyncObj(o) ==
    /\ Running
    /\ "resync" \in Env
    /\ o \in watched
    /\ objLister[o] # None
    /\ objQ' = Enqueue(objQ,
                    [obj |-> o, data |-> objLister[o], verb |-> "upd"])
    /\ UNCHANGED <<apiVars, shareLister, objLister, watched, shareQ, th, phase,
                   volumes, cbVars, nodeVars, content, authorized, refs>>

\* The pruner goroutine of main: informers of namespaces no cached share
\* references are stopped; their listers stay behind with what they held.
PruneInformers ==
    /\ Running
    /\ RefreshResources
    /\ ~ watched \subseteq NamespacesWithShares
    /\ watched' = watched \cap NamespacesWithShares
    /\ UNCHANGED <<apiVars, shareLister, objLister, shareQ, objQ, th, phase,
                   volumes, cbVars, nodeVars, content, authorized, refs>>

-----------------------------------------------------------------------------
(* shareUpdateRanger: a pass over the volumes of one share.  Every          *)
(* registered callback runs the same pass; they are one pass here.         *)

Goto(t, rec) == th' = [th EXCEPT ![t] = rec]

\* where shareUpdateRanger returns to
PassRet(t) == CASE t = "share" -> "prune"
                [] t = "obj"   -> "shares"
                [] t = "node"  -> "finish"

\* a thread inside a pass goes on with the next volume, or returns
Pass(t, rec) ==
    IF rec.todo = {}
    THEN Goto(t, [rec EXCEPT !.pc = PassRet(t), !.share = None, !.vol = None])
    ELSE Goto(t, [rec EXCEPT !.pc = "pass", !.vol = None])

StartPass(t, rec, s) ==
    Pass(t, [rec EXCEPT !.share = s, !.todo = {v \in volumes : ShareOf[v] = s}])

\* ExecuteSAR: a failed request is reported like a refusal
ExecuteSAR(v, ok) ==
    \/ ok = (v \in allowed) /\ UNCHANGED changes
    \/ ok = FALSE /\ v \in allowed /\ Change("sarError")

\* innerShareUpdateRanger.Range up to the SAR
PassVisit(t) ==
    /\ th[t].pc = "pass"
    /\ \E v \in th[t].todo :
         \/ /\ v \notin volumes
            /\ Pass(t, [th[t] EXCEPT !.todo = @ \ {v}])
            /\ UNCHANGED <<changes, authorized>>
         \/ /\ v \in volumes
            /\ \E ok \in BOOLEAN :
                 /\ ExecuteSAR(v, ok)
                 /\ authorized' = authorized \cup (IF ok THEN {v} ELSE {})
                 /\ Goto(t, [th[t] EXCEPT !.pc = "fetch", !.vol = v, !.sar = ok,
                                          !.todo = @ \ {v}])
    /\ UNCHANGED <<apiShare, apiObj, allowed, infVars, phase, volumes, cbVars,
                   nodeVars, content, refs>>

\* the share and its object are read after the SAR; without either of them the
\* volume is left alone whatever the SAR said
PassFetch(t) ==
    /\ th[t].pc = "fetch"
    /\ LET o == GetShared(th[t].share) IN
       IF o = None \/ GetObj(o) = None
       THEN Pass(t, [th[t] EXCEPT !.sar = FALSE])
       ELSE IF th[t].sar
       THEN Goto(t, [th[t] EXCEPT !.pc = "filter", !.sar = FALSE,
                        !.item = [obj |-> o, data |-> GetObj(o)],
                        !.uret = "pass"])
       ELSE Goto(t, [th[t] EXCEPT !.pc = "deny"])
    /\ UNCHANGED <<apiVars, infVars, phase, volumes, cbVars, nodeVars, content,
                   authorized, refs>>

\* (defect: losing permission unregisters the share update callback too)
PassDeny_ForgetsShare(t) ==
    /\ th[t].pc = "deny"
    /\ content' = [content EXCEPT ![th[t].vol] = None]
    /\ upsertCb' = upsertCb \ {th[t].vol}
    /\ deleteCb' = deleteCb \ {th[t].vol}
    /\ shareUpdateCb' = shareUpdateCb \ {th[t].vol}
    /\ Pass(t, th[t])
    /\ UNCHANGED <<apiVars, infVars, phase, volumes, shareDeleteCb, nodeVars,
                   authorized, refs>>

\* permission lost: content removed, the object callbacks unregistered
PassDeny(t) ==
    /\ th[t].pc = "deny"
    /\ content' = [content EXCEPT ![th[t].vol] = None]
    /\ upsertCb' = upsertCb \ {th[t].vol}
    /\ deleteCb' = deleteCb \ {th[t].vol}
    /\ Pass(t, th[t])
    /\ UNCHANGED <<apiVars, infVars, phase, volumes, shareUpdateCb,
                   shareDeleteCb, nodeVars, authorized, refs>>

\* the object worker goes on with the next callback, or is done with its event
Callbacks(rec, p) == Goto("obj", IF rec.todo = {} THEN IdleThread
                                 ELSE [rec EXCEPT !.pc = p])

\* commonUpsertRanger is a subroutine of two steps; RegisterSecretUpsertCallback
\* still needs the key afterwards
UpsertReturn(t) ==
    CASE th[t].uret = "pass" ->
            Pass(t, [th[t] EXCEPT !.item = None, !.uret = "idle"])
      [] th[t].uret = "callbacks" ->
            Callbacks([th[t] EXCEPT !.vol = None, !.item = None,
                                    !.uret = "idle"], "callbacks")
      [] th[t].uret = "regDelete" ->
            Goto(t, [th[t] EXCEPT !.pc = "regDelete", !.vol = None,
                                  !.item = None, !.uret = "idle"])
      [] th[t].uret = "regUpsert" ->
            Goto(t, [th[t] EXCEPT !.pc = "regUpsert", !.vol = None,
                                  !.uret = "idle"])

UpsertFilter(t) ==
    /\ th[t].pc = "filter"
    /\ IF commonRangerProceedFilter(th[t].vol, th[t].item.obj)
       THEN Goto(t, [th[t] EXCEPT !.pc = "write"])
       ELSE UpsertReturn(t)
    /\ UNCHANGED <<apiVars, infVars, phase, volumes, cbVars, nodeVars, content,
                   authorized, refs>>

\* MkdirAll and the atomic writer act on the target path, mounted or not
UpsertWrite(t) ==
    /\ th[t].pc = "write"
    /\ content' = [content EXCEPT ![th[t].vol] = Written(@, th[t].item)]
    /\ UpsertReturn(t)
    /\ UNCHANGED <<apiVars, infVars, phase, volumes, cbVars, nodeVars,
                   authorized, refs>>

RangerStep(t) == \/ PassVisit(t) \/ PassFetch(t) \/ PassDeny(t)
                 \/ UpsertFilter(t) \/ UpsertWrite(t)

-----------------------------------------------------------------------------
(* The share worker: syncSharedSecret / syncSharedConfigMap.               *)

\* RegisterSecretInformer returns once the namespace's cache is filled
RegisterInformer(o) ==
    IF ~RefreshResources \/ o \in watched
    THEN UNCHANGED <<watched, objLister, objQ>>
    ELSE /\ watched' = watched \cup {o}
         /\ objLister' = [objLister EXCEPT ![o] = apiObj[o]]
         /\ objQ' = IF apiObj[o] = None THEN objQ
                    ELSE Append(objQ, [obj |-> o, data |-> apiObj[o],
                                       verb |-> "upd"])

\* shareDeleteRanger goes on with the next volume, or returns
DelPass(todo) == Goto("share", [IdleThread EXCEPT !.todo = todo,
                        !.pc = IF todo = {} THEN "prune" ELSE "delPass"])

SyncShared ==
    /\ Running
    /\ th["share"].pc = "idle"
    /\ shareQ # <<>>
    /\ shareQ' = Tail(shareQ)
    /\ LET ev == Head(shareQ) IN
       \/ /\ ev.verb = "upd"
          /\ RegisterInformer(ev.ref)
          /\ Goto("share", [IdleThread EXCEPT !.pc = "add", !.ev = ev])
       \/ /\ ev.verb = "del"
          /\ DelPass(IF shareDeleteCb = {} THEN {}
                     ELSE {v \in volumes : ShareOf[v] = ev.share})
          /\ UNCHANGED <<watched, objLister, objQ>>
    /\ UNCHANGED <<apiVars, shareLister, phase, volumes, cbVars, nodeVars,
                   content, authorized, refs>>

AddShared ==
    /\ th["share"].pc = "add"
    /\ IF GetObj(th["share"].ev.ref) # None /\ shareUpdateCb # {}
       THEN StartPass("share", [th["share"] EXCEPT !.ev = None],
                      th["share"].ev.share)
       ELSE Goto("share", [IdleThread EXCEPT !.pc = "prune"])
    /\ UNCHANGED <<apiVars, infVars, phase, volumes, cbVars, nodeVars, content,
                   authorized, refs>>

\* (defect: the volume is forgotten along with its content)
DelSharedVisit_ForgetsVolume ==
    /\ th["share"].pc = "delPass"
    /\ \E v \in th["share"].todo :
         /\ content' = [content EXCEPT ![v] = IF v \in volumes THEN None ELSE @]
         /\ volumes' = volumes \ {v}
         /\ DelPass(th["share"].todo \ {v})
    /\ UNCHANGED <<apiVars, infVars, phase, cbVars, nodeVars, authorized, refs>>

\* innerShareDeleteRanger: no SAR and no filter, but the volume is looked up
DelSharedVisit ==
    /\ th["share"].pc = "delPass"
    /\ \E v \in th["share"].todo :
         /\ content' = [content EXCEPT ![v] = IF v \in volumes THEN None ELSE @]
         /\ DelPass(th["share"].todo \ {v})
    /\ UNCHANGED <<apiVars, infVars, phase, volumes, cbVars, nodeVars,
                   authorized, refs>>

SyncSharedPrune ==
    /\ th["share"].pc = "prune"
    /\ watched' = IF RefreshResources THEN watched \cap NamespacesWithShares
                                      ELSE watched
    /\ Goto("share", IdleThread)
    /\ UNCHANGED <<apiVars, shareLister, objLister, shareQ, objQ, phase,
                   volumes, cbVars, nodeVars, content, authorized, refs>>

ShareWorker == \/ SyncShared \/ AddShared \/ DelSharedVisit \/ SyncSharedPrune
               \/ RangerStep("share")

-----------------------------------------------------------------------------
(* The object worker: syncSecret / syncConfigMap.                          *)

SyncObject ==
    /\ Running
    /\ th["obj"].pc = "idle"
    /\ objQ # <<>>
    /\ objQ' = Tail(objQ)
    /\ LET ev == Head(objQ) IN
       \/ /\ ev.verb = "upd"
          /\ Goto("obj", [IdleThread EXCEPT !.pc = "shares", !.ev = ev,
                     !.shares = {s \in Shares : ListShared[s] = ev.obj}])
       \/ /\ ev.verb = "del"
          /\ Callbacks([IdleThread EXCEPT !.ev = ev, !.todo = deleteCb],
                       "delCallbacks")
    /\ UNCHANGED <<apiVars, shareLister, objLister, watched, shareQ, phase,
                   volumes, cbVars, nodeVars, content, authorized, refs>>

\* UpsertSecret, first loop: a pass for every share of the object
UpsertObjShare ==
    /\ th["obj"].pc = "shares"
    /\ \E s \in th["obj"].shares :
         LET rec == [th["obj"] EXCEPT !.shares = @ \ {s}] IN
         IF shareUpdateCb # {} THEN StartPass("obj", rec, s) ELSE Goto("obj", rec)
    /\ UNCHANGED <<apiVars, infVars, phase, volumes, cbVars, nodeVars, content,
                   authorized, refs>>

UpsertObjShares ==
    /\ th["obj"].pc = "shares"
    /\ th["obj"].shares = {}
    /\ Callbacks([th["obj"] EXCEPT !.todo = upsertCb], "callbacks")
    /\ UNCHANGED <<apiVars, infVars, phase, volumes, cbVars, nodeVars, content,
                   authorized, refs>>

\* UpsertSecret, second loop: the volumes' own callbacks, with the event's data
\* and without a SAR; an entry deleted meanwhile is skipped
UpsertObjCallback ==
    /\ th["obj"].pc = "callbacks"
    /\ \E v \in th["obj"].todo :
         LET rec == [th["obj"] EXCEPT !.todo = @ \ {v}] IN
         IF v \notin upsertCb THEN Callbacks(rec, "callbacks")
         ELSE Goto("obj", [rec EXCEPT !.pc = "filter", !.vol = v,
                      !.uret = "callbacks",
                      !.item = [obj |-> rec.ev.obj, data |-> rec.ev.data]])
    /\ UNCHANGED <<apiVars, infVars, phase, volumes, cbVars, nodeVars, content,
                   authorized, refs>>

\* DelSecret: commonDeleteRanger of every registered volume
DelObjCallback ==
    /\ th["obj"].pc = "delCallbacks"
    /\ \E v \in th["obj"].todo :
         /\ content' = [content EXCEPT ![v] =
                IF /\ v \in deleteCb
                   /\ commonRangerProceedFilter(v, th["obj"].ev.obj)
                THEN None ELSE @]
         /\ Callbacks([th["obj"] EXCEPT !.todo = @ \ {v}], "delCallbacks")
    /\ UNCHANGED <<apiVars, infVars, phase, volumes, cbVars, nodeVars,
                   authorized, refs>>

ObjWorker == \/ SyncObject \/ UpsertObjShare \/ UpsertObjShares
             \/ UpsertObjCallback \/ DelObjCallback
             \/ RangerStep("obj")

-----------------------------------------------------------------------------
(* The node service.  The kubelet retries NodePublishVolume until it        *)
(* succeeds and never reuses the ID of an ephemeral volume.                *)

\* Publish succeeds or fails
PublishDone(v) == /\ kubelet' = [kubelet EXCEPT ![v] = "mounted"]
                  /\ Goto("node", IdleThread)

\* createVolume: a volume the process knows already is returned as it is
createVolume(v) == volumes' = volumes \cup {v}

\* (defect: validateShare without the SubjectAccessReview)
NodePublishVolume_NoSAR(v) ==
    /\ Running
    /\ th["node"].pc = "idle"
    /\ kubelet[v] = "pending"
    /\ shareLister[ShareOf[v]] # None
    /\ createVolume(v)
    /\ Goto("node", [IdleThread EXCEPT !.pc = "mount", !.cur = v])
    /\ UNCHANGED <<apiVars, infVars, phase, cbVars, nodeVars, content,
                   authorized, refs>>

\* NodePublishVolume up to createVolume: validateShare reads the cache only;
\* a request it refuses changes nothing
NodePublishVolume(v) ==
    /\ Running
    /\ th["node"].pc = "idle"
    /\ kubelet[v] = "pending"
    /\ shareLister[ShareOf[v]] # None
    /\ v \in allowed
    /\ authorized' = authorized \cup {v}
    /\ createVolume(v)
    /\ Goto("node", [IdleThread EXCEPT !.pc = "mount", !.cur = v])
    /\ UNCHANGED <<apiVars, infVars, phase, cbVars, nodeVars, content, refs>>

\* a target that is a mount point already means success, nothing else is done
PublishMount ==
    LET v == th["node"].cur IN
    /\ th["node"].pc = "mount"
    /\ \/ /\ v \in mounted
          /\ PublishDone(v)
          /\ UNCHANGED <<mounted, content>>
       \/ /\ v \notin mounted
          /\ mounted' = mounted \cup {v}
          /\ content' = [content EXCEPT ![v] = None]
          /\ Goto("node", [th["node"] EXCEPT !.pc = "map"])
          /\ UNCHANGED kubelet
    /\ UNCHANGED <<apiVars, infVars, phase, volumes, cbVars, disk, authorized,
                   refs>>

\* the process is gone; the container restarts and loads what was persisted
Restart ==
    /\ th' = [t \in Threads |-> IdleThread]
    /\ phase' = "loading"
    /\ volumes' = {}
    /\ upsertCb' = {} /\ deleteCb' = {} /\ shareUpdateCb' = {}
    /\ shareDeleteCb' = {}
    /\ shareLister' = [s \in Shares |-> None]
    /\ objLister' = [o \in Objects |-> None]
    /\ watched' = {}
    /\ shareQ' = <<>> /\ objQ' = <<>>

\* the Secret branch of mapBackingResourceToPod dereferences a nil share
NilShare == /\ th["node"].pc = "map"
            /\ Kind = "Secret"
            /\ GetShared(ShareOf[th["node"].cur]) = None

MapPanic == /\ NilShare
            /\ Restart
            /\ UNCHANGED <<apiVars, nodeVars, content, authorized, refs>>

mapBackingResourceToPod ==
    LET v == th["node"].cur
        o == GetShared(ShareOf[v]) IN
    /\ th["node"].pc = "map"
    /\ \/ /\ o = None
          /\ Kind = "ConfigMap"
          /\ Goto("node", [th["node"] EXCEPT !.pc = "regShare"])
       \/ /\ o # None
          /\ IF GetObj(o) = None
             THEN Goto("node", IdleThread)
             ELSE Goto("node", [th["node"] EXCEPT !.pc = "filter", !.vol = v,
                           !.item = [obj |-> o, data |-> GetObj(o)],
                           !.uret = "regUpsert"])
    /\ UNCHANGED <<apiVars, infVars, phase, volumes, cbVars, nodeVars, content,
                   authorized, refs>>

\* RegisterSecretUpsertCallback stores the callback and calls it once
RegisterUpsertCallback ==
    LET v == th["node"].cur
        o == th["node"].item.obj IN
    /\ th["node"].pc = "regUpsert"
    /\ upsertCb' = IF Refresh[v] /\ RefreshResources THEN upsertCb \cup {v}
                                                    ELSE upsertCb
    /\ IF Refresh[v] /\ RefreshResources /\ GetObj(o) # None
       THEN Goto("node", [th["node"] EXCEPT !.pc = "filter", !.vol = v,
                     !.item = [obj |-> o, data |-> GetObj(o)],
                     !.uret = "regDelete"])
       ELSE Goto("node", [th["node"] EXCEPT !.pc = "regDelete", !.item = None])
    /\ UNCHANGED <<apiVars, infVars, phase, volumes, deleteCb, shareUpdateCb,
                   shareDeleteCb, nodeVars, content, authorized, refs>>

RegisterDeleteCallback ==
    /\ th["node"].pc = "regDelete"
    /\ deleteCb' = deleteCb \cup {th["node"].cur}
    /\ Goto("node", [th["node"] EXCEPT !.pc = "regShare"])
    /\ UNCHANGED <<apiVars, infVars, phase, volumes, upsertCb, shareUpdateCb,
                   shareDeleteCb, nodeVars, content, authorized, refs>>

\* registerRangers: RegisterSharedSecretUpdateCallback runs a pass of its own
RegisterSharedUpdateCallback ==
    LET s == ShareOf[th["node"].cur] IN
    /\ th["node"].pc = "regShare"
    /\ shareUpdateCb' = shareUpdateCb \cup {th["node"].cur}
    /\ IF GetShared(s) # None
       THEN StartPass("node", th["node"], s)
       ELSE Goto("node", [th["node"] EXCEPT !.pc = "finish"])
    /\ UNCHANGED <<apiVars, infVars, phase, volumes, upsertCb, deleteCb,
                   shareDeleteCb, nodeVars, content, authorized, refs>>

\* the share delete callback; then, in NodePublishVolume, StoreToDisk
RegisterRangersEnd ==
    LET v == th["node"].cur IN
    /\ th["node"].pc = "finish"
    /\ shareDeleteCb' = shareDeleteCb \cup {v}
    /\ \/ /\ Running
          /\ disk' = disk \cup {v}
          /\ PublishDone(v)
       \/ /\ ~Running
          /\ Goto("node", IdleThread)
          /\ UNCHANGED <<disk, kubelet>>
    /\ UNCHANGED <<apiVars, infVars, phase, volumes, upsertCb, deleteCb,
                   shareUpdateCb, mounted, content, authorized, refs>>

\* deleteVolume: Unregister...UpdateCallback deletes from the upsert map, the
\* share update callback stays
deleteVolume(v) ==
    /\ content' = [content EXCEPT ![v] = None]
    /\ volumes' = volumes \ {v}
    /\ upsertCb' = upsertCb \ {v}
    /\ deleteCb' = deleteCb \ {v}
    /\ shareDeleteCb' = shareDeleteCb \ {v}
    /\ UNCHANGED shareUpdateCb

\* the unmount, deleteVolume, the persisted file; the kubelet will not publish
\* the volume again
NodeUnpublishVolume(v) ==
    /\ Running
    /\ "unpublish" \in Env
    /\ th["node"].pc = "idle"
    /\ v \in volumes /\ v \in mounted
    /\ mounted' = mounted \ {v}
    /\ deleteVolume(v)
    /\ disk' = disk \ {v}
    /\ kubelet' = [kubelet EXCEPT ![v] = "gone"]
    /\ UNCHANGED <<apiVars, infVars, th, phase, authorized, refs>>

-----------------------------------------------------------------------------
(* Start-up and crash.                                                     *)

\* (defect: a loaded volume is only put into the map)
LoadVol_NoRangers(v) ==
    /\ ~Running
    /\ th["node"].pc = "idle"
    /\ v \in disk \ volumes
    /\ volumes' = volumes \cup {v}
    /\ UNCHANGED <<apiVars, infVars, th, phase, cbVars, nodeVars, content,
                   authorized, refs>>

\* loadVolsFromDisk: one file; only registerRangers is called
LoadVol(v) ==
    /\ ~Running
    /\ th["node"].pc = "idle"
    /\ v \in disk \ volumes
    /\ volumes' = volumes \cup {v}
    /\ Goto("node", [IdleThread EXCEPT !.pc = "regShare", !.cur = v])
    /\ UNCHANGED <<apiVars, infVars, phase, cbVars, nodeVars, content,
                   authorized, refs>>

\* NewController and Run follow NewCSIDriver
StartController ==
    /\ ~Running
    /\ th["node"].pc = "idle"
    /\ disk \subseteq volumes
    /\ phase' = "running"
    /\ UNCHANGED <<apiVars, infVars, th, volumes, cbVars, nodeVars, content,
                   authorized, refs>>

Crash == /\ Change("crash")
         /\ Restart
         /\ UNCHANGED <<apiShare, apiObj, allowed, nodeVars, content,
                        authorized, refs>>

NodeStep == \/ PublishMount \/ mapBackingResourceToPod \/ MapPanic
            \/ RegisterUpsertCallback \/ RegisterDeleteCallback
            \/ RegisterSharedUpdateCallback \/ RegisterRangersEnd
            \/ StartController \/ RangerStep("node")
            \/ \E v \in Volumes : LoadVol(v)

Kubelet == \E v \in Volumes : NodePublishVolume(v) \/ NodeUnpublishVolume(v)

Informers == \/ \E s \in Shares : SyncShare(s) \/ RelistShare(s)
             \/ \E o \in Objects : SyncObj(o) \/ ResyncObj(o)
             \/ PruneInformers

Next == Cluster \/ Informers \/ ShareWorker \/ ObjWorker \/ NodeStep \/ Kubelet
        \/ Crash

Spec == Init /\ [][Next]_vars

\* What the process does by itself: watches deliver, the share informer
\* resyncs, goroutines run.  Nothing is assumed of users, of the kubelet, of
\* the object resync or of crashes.
Fairness == /\ \A s \in Shares : WF_vars(SyncShare(s)) /\ WF_vars(RelistShare(s))
            /\ \A o \in Objects : WF_vars(SyncObj(o))
            /\ WF_vars(ShareWorker) /\ WF_vars(ObjWorker) /\ WF_vars(NodeStep)

FairSpec == Spec /\ Fairness

-----------------------------------------------------------------------------
(* Properties that hold.                                                   *)

ShareEvents == [share : Shares, ref : Objects, verb : {"upd", "del"}]
ObjEvents   == [obj : Objects, data : Data, verb : {"upd", "del"}]

ThreadType == [pc : PCs, cur : Volumes \cup {None},
               ev : {None} \cup ShareEvents \cup ObjEvents,
               share : Shares \cup {None}, shares : SUBSET Shares,
               todo : SUBSET Volumes, vol : Volumes \cup {None},
               sar : BOOLEAN, item : Items \cup {None}, uret : PCs]

\* Every variable has its type; a thread only holds values of its own kind.
TypeOK ==
    /\ apiShare \in [Shares -> Objects \cup {None}]
    /\ apiObj \in [Objects -> Data \cup {None}]
    /\ allowed \subseteq Volumes
    /\ changes \in Nat
    /\ shareLister \in [Shares -> Objects \cup {None}]
    /\ objLister \in [Objects -> Data \cup {None}]
    /\ watched \subseteq Objects
    /\ shareQ \in Seq(ShareEvents)
    /\ objQ \in Seq(ObjEvents)
    /\ th \in [Threads -> ThreadType]
    /\ phase \in {"loading", "running"}
    /\ volumes \subseteq Volumes
    /\ upsertCb \subseteq Volumes /\ deleteCb \subseteq Volumes
    /\ shareUpdateCb \subseteq Volumes /\ shareDeleteCb \subseteq Volumes
    /\ mounted \subseteq Volumes /\ disk \subseteq Volumes
    /\ content \in [Volumes -> Items \cup {None}]
    /\ kubelet \in [Volumes -> {"pending", "mounted", "gone"}]
    /\ authorized \subseteq Volumes
    /\ refs \in [Shares -> SUBSET Objects]

\* No data is ever in the directory of a volume for whose pod no
\* SubjectAccessReview was ever granted, whichever thread wrote it.
OnlyAuthorized == \A v \in Volumes : content[v] # None => v \in authorized

\* A pod only ever reads data of an object that its own share referenced at
\* some time, although events, passes and callbacks of all shares and objects
\* run through the same callback maps.
Provenance == \A v \in Volumes :
                 content[v] # None => content[v].obj \in refs[ShareOf[v]]

\* A persisted volume the process knows of is reached by the share informer's
\* events: its share callbacks are registered, also after any restart, once
\* the handler or loader that works on it is through.
PersistedIsWired ==
    \A v \in disk \cap volumes :
        v = th["node"].cur \/ v \in shareUpdateCb \cap shareDeleteCb

\* The threads, caches, callbacks and restarts together implement what a pod may
\* observe: content appears only after a grant and out of the references of the
\* volume's own share, and otherwise only disappears (driver.go:230-290,
\* 338-387, 413-498; nodeserver.go:185-321).
View == INSTANCE VolumeView
            WITH view <- content, granted <- authorized,
                 origins <- [v \in Volumes |-> refs[ShareOf[v]]]
ImplementsView == View!Spec

Backing(v) == apiShare[ShareOf[v]]
Served(v)  == /\ v \in disk
              /\ Backing(v) # None
              /\ apiObj[Backing(v)] # None

UpToDate(v) == /\ Backing(v) # None
               /\ content[v] = [obj |-> Backing(v), data |-> apiObj[Backing(v)]]

\* If from some time on a volume is persisted, its pod is allowed and its share
\* and object exist, with at least one key, then the pod eventually reads what
\* the API server holds and keeps reading it: across lost events, stale
\* caches, regained permissions and restarts, because the relist pass rewrites.
ContentConverges ==
    \A v \in Volumes :
        <>[](Served(v) /\ v \in allowed /\ apiObj[Backing(v)] # NoKeys)
        => <>[]UpToDate(v)

\* If from some time on the pod of a persisted volume is not allowed to use its
\* existing share, its content is eventually removed for good, although writers
\* that passed their check earlier may still be under way.
RevokedContentRemoved ==
    \A v \in Volumes :
        <>[](Served(v) /\ v \notin allowed) => <>[](content[v] = None)

-----------------------------------------------------------------------------
(* The inductive strengthening of the safety properties.                   *)

Upserting(r) == r.pc \in {"filter", "write"}
InPass(r)    == \/ r.pc \in {"pass", "fetch", "deny"}
                \/ Upserting(r) /\ r.uret = "pass"
Publishing(r) == \/ r.pc \in {"mount", "map", "regUpsert", "regDelete"}
                 \/ Upserting(r) /\ r.uret \in {"regUpsert", "regDelete"}

\* the locals a thread needs at its pc are there
RecOK(t, r) ==
    /\ r.pc \in {"fetch", "deny", "filter", "write"} => r.vol \in Volumes
    /\ r.pc \in {"filter", "write", "regUpsert"} => r.item \in Items
    /\ InPass(r) => r.share \in Shares
    /\ Upserting(r) => \/ r.uret = "pass"
                       \/ r.uret = "callbacks" /\ t = "obj"
                       \/ r.uret \in {"regUpsert", "regDelete"} /\ t = "node"
    /\ t = "share" /\ r.pc = "add" => r.ev \in ShareEvents
    /\ t = "obj" /\ r.pc # "idle" => r.ev \in ObjEvents
    /\ t = "node" /\ r.pc # "idle" => r.cur \in Volumes

TypeInv == TypeOK /\ \A t \in Threads : RecOK(t, th[t])

\* whatever leads to a write was authorized before
AuthInv ==
    /\ OnlyAuthorized
    /\ volumes \cup disk \cup upsertCb \subseteq authorized
    /\ \A t \in Threads : /\ th[t].vol # None => th[t].vol \in authorized
                          /\ th[t].cur # None => th[t].cur \in authorized

\* a cached reference was an API server's reference once, and a thread about to
\* write has matched its object with such a reference
ProvInv ==
    /\ Provenance
    /\ \A s \in Shares : /\ apiShare[s] # None => apiShare[s] \in refs[s]
                         /\ shareLister[s] # None => shareLister[s] \in refs[s]
    /\ \A t \in Threads :
          th[t].pc = "write" => th[t].item.obj \in refs[ShareOf[th[t].vol]]

\* a persisted volume is not published again, a volume in registerRangers has
\* its update callback before the pass starts, an idle handler has no volume
WiredInv ==
    /\ PersistedIsWired
    /\ \A v \in disk : kubelet[v] = "mounted"
    /\ LET r == th["node"] IN
       /\ Publishing(r) => kubelet[r.cur] = "pending"
       /\ InPass(r) \/ r.pc = "finish" => r.cur \in shareUpdateCb
       /\ r.pc = "idle" => r.cur = None

-----------------------------------------------------------------------------
(* What docs and comments of the repository say and some behaviour breaks. *)

\* docs/faq.md: the data is removed when the share is removed.  A writer that
\* passed commonRangerProceedFilter before the deletion may write after
\* innerShareDeleteRanger removed, and nothing looks at the volume again.
ShareDeletedContentRemoved ==
    \A v \in Volumes :
        /\ <>(kubelet[v] = "mounted" /\ Backing(v) # None)
        /\ <>[](v \in disk /\ Backing(v) = None)
        => <>[](content[v] = None)

\* docs/content-update-details.md: updates can be disabled per volume.  The
\* passes of UpsertSecret and of the relist rewrite such a volume as well.
RefreshOffKeepsContent ==
    [][\A v \in Volumes :
         /\ ~Refresh[v] /\ kubelet[v] = "mounted"
         /\ content[v] # None /\ content'[v] # None
         => content'[v] = content[v]]_vars

\* mapBackingResourceToPod's comment: an error goes back to provisioning, where
\* the kubelet retries.  The retry finds the target mounted and succeeds
\* without content, callbacks or a persisted record.
PublishedContentConverges ==
    \A v \in Volumes :
        <>[](/\ kubelet[v] = "mounted" /\ v \in allowed /\ Backing(v) # None
             /\ apiObj[Backing(v)] \notin {None, NoKeys})
        => <>[]UpToDate(v)

=============================================================================
