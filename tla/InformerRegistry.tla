-------------------------- MODULE InformerRegistry --------------------------
(***************************************************************************)
(* The namespace informers of one kind of share, in a process that starts, *)
(* follows its configuration and ends as ConfigManager says.               *)
(*                                                                         *)
(* Two goroutines change secretWatchObjs (or configMapWatchObjs) without a *)
(* lock around their several steps: the share worker registers and prunes, *)
(* the pruner goroutine of main prunes.  Closing a nil or a closed stop    *)
(* channel is a panic and ends the process.                                *)
(***************************************************************************)
EXTENDS ConfigManager, Sequences

CONSTANTS
    Shares, Namespaces,
    Ids,           \* informers; one that nothing refers to is reused
    None,
    Placeholder,   \* the sharedObjectInformer{} of LoadOrStore: a nil stopCh
    Env,           \* the environment steps an instance takes
    MaxChanges     \* bound: environment changes in a behaviour

ASSUME RegistryAssumption ==
    /\ {None, Placeholder} \cap (Ids \cup Namespaces) = {}
    /\ None # Placeholder
    /\ Env \subseteq {"setShare", "grantAccess", "edit", "crash", "signal"}
    /\ MaxChanges \in Nat

VARIABLES
    apiRef,       \* share -> the namespace its spec references, or None
    listable,     \* namespaces whose objects the driver may list and watch
    changes,      \* environment changes so far
    shareLister,  \* the share informer's cache
    shareQ,       \* the share workqueue
    watch,        \* namespace -> None, Placeholder or the informer in the map
    open,         \* informer -> the namespace it watches, or None: stopped
    lister,       \* namespace -> the informer whose lister GetSecret reads
    th            \* the locals of the goroutines

apiVars == <<apiRef, listable, changes>>
regVars == <<shareLister, shareQ, watch, open, lister, th>>
vars == <<configVars, apiVars, regVars>>

Threads == {"worker", "pruner", "run"}

PCs == {"idle", "start", "wait", "sync", "range", "close", "delete"}

IdleThread == [pc |-> "idle", ns |-> None, inf |-> None, todo |-> {}]

Events == [share : Shares, ns : Namespaces, verb : {"upd", "del"}]

Init == /\ ConfigInit
        /\ apiRef \in [Shares -> Namespaces \cup {None}]
        /\ listable \in SUBSET Namespaces
        /\ changes = 0
        /\ shareLister = [s \in Shares |-> None]
        /\ shareQ = <<>>
        /\ watch = [n \in Namespaces |-> None]
        /\ open = [i \in Ids |-> None]
        /\ lister = [n \in Namespaces |-> None]
        /\ th = [t \in Threads |-> IdleThread]

-----------------------------------------------------------------------------
(* The cluster and the end of the process.                                 *)

Change(step) == /\ step \in Env
                /\ changes < MaxChanges
                /\ changes' = changes + 1

SetShare(s, n) == /\ Change("setShare")
                  /\ apiRef[s] # n
                  /\ apiRef' = [apiRef EXCEPT ![s] = n]
                  /\ UNCHANGED <<listable, configVars, regVars>>

\* the owner of a namespace lets the driver's service account list it
GrantAccess(n) == /\ Change("grantAccess")
                  /\ n \notin listable
                  /\ listable' = listable \cup {n}
                  /\ UNCHANGED <<apiRef, configVars, regVars>>

Edit(p) == /\ Change("edit")
           /\ EditFile(p)
           /\ UNCHANGED <<apiRef, listable, regVars>>

Start == LoadConfig /\ UNCHANGED <<apiVars, regVars>>

\* the maps, queues and goroutines end with the process
Gone == /\ shareLister' = [s \in Shares |-> None]
        /\ shareQ' = <<>>
        /\ watch' = [n \in Namespaces |-> None]
        /\ open' = [i \in Ids |-> None]
        /\ lister' = [n \in Namespaces |-> None]
        /\ th' = [t \in Threads |-> IdleThread]

ConfigExit == watchForConfigChanges /\ Gone /\ UNCHANGED apiVars

Crash == /\ proc # "down"
         /\ Change("crash")
         /\ Exit /\ Gone
         /\ UNCHANGED <<apiRef, listable>>

Environment == \/ \E s \in Shares, n \in Namespaces \cup {None} : SetShare(s, n)
               \/ \E n \in Namespaces : GrantAccess(n)
               \/ \E p \in Payloads \cup {Missing} : Edit(p)
               \/ Crash

-----------------------------------------------------------------------------
(* The share informer (see SyncShare and RelistShare of ShareSync).        *)

SyncShare(s) ==
    /\ proc = "up"
    /\ shareLister[s] # apiRef[s]
    /\ shareLister' = [shareLister EXCEPT ![s] = apiRef[s]]
    /\ shareQ' = Append(shareQ, IF apiRef[s] = None
                    THEN [share |-> s, ns |-> shareLister[s], verb |-> "del"]
                    ELSE [share |-> s, ns |-> apiRef[s], verb |-> "upd"])
    /\ UNCHANGED <<configVars, apiVars, watch, open, lister, th>>

\* (defect: the informer factory has no resync period)
RelistShare_NoResync(s) == FALSE

RelistShare(s) ==
    LET e == [share |-> s, ns |-> shareLister[s], verb |-> "upd"] IN
    /\ proc = "up"
    /\ shareLister[s] # None
    /\ \A i \in 1..Len(shareQ) : shareQ[i] # e
    /\ shareQ' = Append(shareQ, e)
    /\ UNCHANGED <<configVars, apiVars, shareLister, watch, open, lister, th>>

\* (defect: a namespace with a lister is kept)
NamespacesWithShares_Listed ==
    ({shareLister[s] : s \in Shares} \ {None})
    \cup {n \in Namespaces : lister[n] # None}

\* cache.NamespacesWithSharedSecrets: the lister's shares only
NamespacesWithShares == {shareLister[s] : s \in Shares} \ {None}

-----------------------------------------------------------------------------
(* Registering: the share worker.                                          *)

Goto(t, rec) == th' = [th EXCEPT ![t] = rec]

\* (defect: Store instead of LoadOrStore)
SyncShared_NoLookup ==
    /\ proc # "down"
    /\ th["worker"].pc = "idle"
    /\ shareQ # <<>>
    /\ shareQ' = Tail(shareQ)
    /\ LET e == Head(shareQ) IN
       IF e.verb = "upd" /\ cfg.refreshResources
       THEN /\ watch' = [watch EXCEPT ![e.ns] = Placeholder]
            /\ Goto("worker", [IdleThread EXCEPT !.pc = "start", !.ns = e.ns])
       ELSE /\ Goto("worker", [IdleThread EXCEPT !.pc = "sync"])
            /\ UNCHANGED watch
    /\ UNCHANGED <<configVars, apiVars, shareLister, open, lister>>

\* syncSharedSecret up to the LoadOrStore of RegisterSecretInformer
SyncShared ==
    /\ proc # "down"
    /\ th["worker"].pc = "idle"
    /\ shareQ # <<>>
    /\ shareQ' = Tail(shareQ)
    /\ LET e == Head(shareQ) IN
       IF e.verb = "upd" /\ cfg.refreshResources /\ watch[e.ns] = None
       THEN /\ watch' = [watch EXCEPT ![e.ns] = Placeholder]
            /\ Goto("worker", [IdleThread EXCEPT !.pc = "start", !.ns = e.ns])
       ELSE /\ Goto("worker", [IdleThread EXCEPT !.pc = "sync"])
            /\ UNCHANGED watch
    /\ UNCHANGED <<configVars, apiVars, shareLister, open, lister>>

InUse(i) == \/ open[i] # None
            \/ \E n \in Namespaces : i \in {watch[n], lister[n]}
            \/ \E t \in Threads : th[t].inf = i

\* (defect: a namespace keeps the first lister it was given)
StartInformer_FirstLister ==
    LET n == th["worker"].ns
        i == CHOOSE i \in Ids : ~InUse(i) IN
    /\ th["worker"].pc = "start"
    /\ \E j \in Ids : ~InUse(j)
    /\ lister' = [lister EXCEPT ![n] = IF @ = None THEN i ELSE @]
    /\ open' = [open EXCEPT ![i] = n]
    /\ Goto("worker", [th["worker"] EXCEPT !.pc = "wait", !.inf = i])
    /\ UNCHANGED <<configVars, apiVars, shareLister, shareQ, watch>>

\* a new factory, informer and stop channel; SetSecretsLister
StartInformer ==
    LET n == th["worker"].ns
        i == CHOOSE i \in Ids : ~InUse(i) IN
    /\ th["worker"].pc = "start"
    /\ \E j \in Ids : ~InUse(j)
    /\ lister' = [lister EXCEPT ![n] = i]
    /\ open' = [open EXCEPT ![i] = n]
    /\ Goto("worker", [th["worker"] EXCEPT !.pc = "wait", !.inf = i])
    /\ UNCHANGED <<configVars, apiVars, shareLister, shareQ, watch>>

\* WaitForCacheSync returns when the namespace could be listed; nobody else
\* has the stop channel, so it does not fail
StoreInformer ==
    LET n == th["worker"].ns IN
    /\ th["worker"].pc = "wait"
    /\ n \in listable
    /\ watch' = [watch EXCEPT ![n] = th["worker"].inf]
    /\ Goto("worker", [IdleThread EXCEPT !.pc = "sync"])
    /\ UNCHANGED <<configVars, apiVars, shareLister, shareQ, open, lister>>

-----------------------------------------------------------------------------
(* Pruning: the share worker after its event, the pruner at its ticks.      *)

\* the namespaces to keep are read once, before the map is ranged over; only
\* the others matter to the range
PruneInformers(t) ==
    /\ \/ t = "worker" /\ th[t].pc = "sync"
       \/ t = "pruner" /\ th[t].pc = "idle" /\ proc # "down" /\ cfg.refreshResources
    /\ Goto(t, IF cfg.refreshResources
               THEN [IdleThread EXCEPT !.pc = "range",
                        !.todo = Namespaces \ NamespacesWithShares]
               ELSE IdleThread)
    /\ UNCHANGED <<configVars, apiVars, shareLister, shareQ, watch, open, lister>>

\* Range visits the keys in any order; Unregister loads the entry again
RangeVisit(t) ==
    /\ t # "run"
    /\ th[t].pc = "range"
    /\ IF th[t].todo = {} THEN Goto(t, IdleThread)
       ELSE \E n \in th[t].todo :
              Goto(t, IF watch[n] # None
                      THEN [th[t] EXCEPT !.pc = "close", !.ns = n,
                                !.inf = watch[n], !.todo = @ \ {n}]
                      ELSE [th[t] EXCEPT !.todo = @ \ {n}])
    /\ UNCHANGED <<configVars, apiVars, shareLister, shareQ, watch, open, lister>>

Stopped(i) == i \in Ids => open[i] = None

\* (defect: a stop channel that is closed already is left alone)
UnregisterClose_Guarded(t) ==
    /\ th[t].pc = "close"
    /\ open' = IF Stopped(th[t].inf) THEN open
               ELSE [open EXCEPT ![th[t].inf] = None]
    /\ Goto(t, [th[t] EXCEPT !.pc = "delete"])
    /\ UNCHANGED <<configVars, apiVars, shareLister, shareQ, watch, lister>>

\* close(informerObj.stopCh)
UnregisterClose(t) ==
    /\ th[t].pc = "close"
    /\ ~Stopped(th[t].inf)
    /\ open' = [open EXCEPT ![th[t].inf] = None]
    /\ Goto(t, [th[t] EXCEPT !.pc = "delete"])
    /\ UNCHANGED <<configVars, apiVars, shareLister, shareQ, watch, lister>>

\* the close of a nil or closed channel
ClosePanic(t) == /\ th[t].pc = "close"
                 /\ Stopped(th[t].inf)
                 /\ Exit /\ Gone
                 /\ UNCHANGED apiVars

\* secretWatchObjs.Delete, whatever is in the map by now
UnregisterDelete(t) ==
    /\ th[t].pc = "delete"
    /\ watch' = [watch EXCEPT ![th[t].ns] = None]
    /\ Goto(t, [th[t] EXCEPT !.pc = "range", !.ns = None, !.inf = None])
    /\ UNCHANGED <<configVars, apiVars, shareLister, shareQ, open, lister>>

PruneStep(t) == \/ PruneInformers(t) \/ RangeVisit(t) \/ UnregisterClose(t)
                \/ ClosePanic(t) \/ UnregisterDelete(t)

-----------------------------------------------------------------------------
(* Controller.Run after a signal: every informer in the map is stopped; the *)
(* gRPC server keeps the process up until it is killed.                    *)

Signal == /\ proc = "up"
          /\ Change("signal")
          /\ proc' = "stopping"
          /\ Goto("run", [IdleThread EXCEPT !.pc = "range", !.todo = Namespaces])
          /\ UNCHANGED <<file, cfg, loaded, md5sum, apiRef, listable,
                         shareLister, shareQ, watch, open, lister>>

RunClose ==
    /\ th["run"].pc = "range"
    /\ \E n \in th["run"].todo :
         /\ Goto("run", [th["run"] EXCEPT !.todo = @ \ {n}])
         /\ \/ watch[n] = None /\ UNCHANGED open
            \/ /\ watch[n] # None /\ ~Stopped(watch[n])
               /\ open' = [open EXCEPT ![watch[n]] = None]
    /\ UNCHANGED <<configVars, apiVars, shareLister, shareQ, watch, lister>>

RunPanic == /\ th["run"].pc = "range"
            /\ \E n \in th["run"].todo : watch[n] # None /\ Stopped(watch[n])
            /\ Exit /\ Gone
            /\ UNCHANGED apiVars

Killed == /\ proc = "stopping"
          /\ Exit /\ Gone
          /\ UNCHANGED apiVars

-----------------------------------------------------------------------------
Worker == SyncShared \/ StartInformer \/ StoreInformer \/ PruneStep("worker")

Pruner == PruneStep("pruner")

Next == \/ Environment \/ Start \/ ConfigExit
        \/ \E s \in Shares : SyncShare(s) \/ RelistShare(s)
        \/ Worker \/ Pruner
        \/ Signal \/ RunClose \/ RunPanic \/ Killed

Spec == Init /\ [][Next]_vars

\* The kubelet starts the container, the goroutines run, watches deliver and
\* the share informer resyncs.  Nothing is assumed of users or signals.
Fairness == /\ WF_vars(Start) /\ WF_vars(ConfigExit) /\ WF_vars(Killed)
            /\ WF_vars(Worker) /\ WF_vars(Pruner)
            /\ \A s \in Shares : WF_vars(SyncShare(s)) /\ WF_vars(RelistShare(s))

FairSpec == Spec /\ Fairness

-----------------------------------------------------------------------------
(* Properties.                                                             *)

ThreadType == [pc : PCs, ns : Namespaces \cup {None},
               inf : Ids \cup {None, Placeholder}, todo : SUBSET Namespaces]

\* Every variable has its type.
TypeOK ==
    /\ file \in Payloads \cup {Missing} /\ md5sum \in Payloads \cup {Missing}
    /\ changes \in Nat
    /\ proc \in {"down", "up", "stopping"}
    /\ cfg \in Configs /\ loaded \in Configs
    /\ apiRef \in [Shares -> Namespaces \cup {None}]
    /\ listable \subseteq Namespaces
    /\ shareLister \in [Shares -> Namespaces \cup {None}]
    /\ shareQ \in Seq(Events)
    /\ watch \in [Namespaces -> Ids \cup {None, Placeholder}]
    /\ open \in [Ids -> Namespaces \cup {None}]
    /\ lister \in [Namespaces -> Ids \cup {None}]
    /\ th \in [Threads -> ThreadType]

Watched(n) == watch[n] \in Ids /\ open[watch[n]] = n

\* Every informer that runs can still be stopped: it is its namespace's entry
\* in the map, or the share worker is about to put it there, although two
\* goroutines load, close and delete entries without a common lock.
NoOrphanInformer ==
    \A i \in Ids : open[i] # None =>
        \/ watch[open[i]] = i
        \/ th["worker"].pc = "wait" /\ th["worker"].inf = i

\* GetSecret reads the cache of the informer that runs, never that of an
\* earlier informer of the namespace, once the later one is in the map.
ListerFollowsWatch == \A n \in Namespaces : Watched(n) => lister[n] = watch[n]

\* A namespace never has two running informers, whose events would be handled
\* twice and of which Unregister stops only one: however entries are made,
\* closed, deleted and made again, the earlier informer was stopped before the
\* next one starts (controller.go:141-215).
OneInformerPerNamespace ==
    \A i, j \in Ids : open[i] # None /\ open[i] = open[j] => i = j

Stable == proc = "up" /\ cfg.refreshResources /\ listable = Namespaces

Referenced(n) == \E s \in Shares : apiRef[s] = n

\* If from some time on the process stays up, watching is on, the driver may list
\* its namespaces and a share references a namespace, that namespace is
\* eventually watched for good: an entry the pruner deletes behind the worker's
\* back, on namespaces read too early, is made again by the next relist.
ReferencedIsWatched ==
    \A n \in Namespaces :
        <>[](Stable /\ Referenced(n)) => <>[]Watched(n)

\* If from some time on the process stays up and no share references a namespace,
\* its informer is eventually stopped and forgotten for good, although queued
\* events of the shares' earlier references register it again.
UnneededIsPruned ==
    \A n \in Namespaces :
        <>[](Stable /\ ~Referenced(n)) => <>[](watch[n] = None)

-----------------------------------------------------------------------------
(* The inductive strengthening of the safety properties.                   *)

Pruners == {"worker", "pruner"}

\* the locals a thread needs at its pc are there
LocalsOK ==
    /\ th["worker"].pc \in {"start", "wait"} => th["worker"].ns \in Namespaces
    /\ th["worker"].pc = "wait" => th["worker"].inf \in Ids
    /\ th["pruner"].pc \notin {"start", "wait", "sync"}
    /\ \A t \in Pruners : th[t].pc \in {"close", "delete"} =>
          th[t].ns \in Namespaces /\ th[t].inf \in Ids \cup {Placeholder}

\* a placeholder is in the map exactly while the worker makes its informer
PlaceholderInv ==
    \A n \in Namespaces :
        watch[n] = Placeholder <=> /\ th["worker"].pc \in {"start", "wait"}
                                   /\ th["worker"].ns = n

\* nobody can stop the informer the worker waits for, and its lister is set
WaitInv ==
    th["worker"].pc = "wait" =>
        /\ open[th["worker"].inf] = th["worker"].ns
        /\ lister[th["worker"].ns] = th["worker"].inf
        /\ \A n \in Namespaces : watch[n] # th["worker"].inf

\* what a pruner loaded is in the map for as long as it runs, and what it has
\* stopped stays there, stopped, until this pruner deletes it
LoadedInv ==
    /\ \A t \in Pruners :
          /\ th[t].pc = "close" /\ ~Stopped(th[t].inf) =>
                watch[th[t].ns] = th[t].inf
          /\ th[t].pc = "delete" =>
                /\ th[t].inf \in Ids /\ open[th[t].inf] = None
                /\ watch[th[t].ns] = th[t].inf
    /\ th["worker"].pc = "delete" /\ th["pruner"].pc = "delete" =>
          th["worker"].inf # th["pruner"].inf

RegistryInv == /\ TypeOK /\ LocalsOK /\ PlaceholderInv /\ WaitInv /\ LoadedInv
               /\ NoOrphanInformer /\ ListerFollowsWatch

-----------------------------------------------------------------------------
\* README: "Automatic sync of the shared resource data".  One share of a
\* namespace the driver may not list keeps the only share worker waiting, and
\* the shares of other namespaces are never looked at again.
AccessibleIsWatched ==
    \A n \in Namespaces :
        <>[](/\ proc = "up" /\ cfg.refreshResources
             /\ n \in listable /\ Referenced(n))
        => <>[]Watched(n)
=============================================================================
