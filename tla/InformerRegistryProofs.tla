----------------------- MODULE InformerRegistryProofs -----------------------
(***************************************************************************)
(* Safety of the informer map for any number of shares, namespaces and     *)
(* informers, any configuration files and any number of restarts.          *)
(***************************************************************************)
EXTENDS InformerRegistry, TLAPS

\* What LoadConfig returns for a file it accepts is a configuration.
LEMMA LoadedType ==
    ASSUME NEW f \in Payloads \cup {Missing}, f # Malformed
    PROVE  Loaded(f) \in Configs
<1>1. NewConfig \in Configs
  BY ConfigAssumption DEF NewConfig, Configs
<1>2. CASE f \in Payloads
  <2>1. /\ f.refreshResources \in BOOLEAN \cup {Unset}
        /\ f.shareRelistInterval \in Int \cup {Unset, Unparsable}
    BY <1>2, ConfigAssumption
  <2>2. Or(f.refreshResources, NewConfig.refreshResources) \in BOOLEAN
    BY <2>1 DEF Or, NewConfig
  <2>3. Or(f.shareRelistInterval, NewConfig.shareRelistInterval)
            \in Int \cup {Unparsable}
    BY <2>1, ConfigAssumption DEF Or, NewConfig
  <2>4. Unmarshal(f) \in Configs
    BY <2>2, <2>3 DEF Unmarshal, Configs
  <2> QED BY <1>1, <2>4 DEF Loaded
<1> QED BY <1>1, <1>2 DEF Loaded

\* The configuration's part of the type invariant.
ConfigType == /\ file \in Payloads \cup {Missing} /\ md5sum \in Payloads \cup {Missing}
              /\ proc \in {"down", "up", "stopping"}
              /\ cfg \in Configs /\ loaded \in Configs

\* Loading, editing and exiting keep it.
LEMMA ConfigStep ==
    ASSUME ConfigType,
           \/ LoadConfig \/ Exit
           \/ \E p \in Payloads \cup {Missing} : EditFile(p)
    PROVE  ConfigType'
<1>1. NewConfig \in Configs /\ ZeroConfig \in Configs
  BY ConfigAssumption DEF NewConfig, ZeroConfig, Configs
<1>2. CASE LoadConfig
  <2>1. Loaded(file) \in Configs
    BY <1>2, LoadedType DEF LoadConfig, Starts, ConfigType
  <2> QED BY <1>2, <2>1 DEF LoadConfig, ConfigType
<1>3. CASE Exit
  BY <1>1, <1>3 DEF Exit, ConfigType
<1>4. CASE \E p \in Payloads \cup {Missing} : EditFile(p)
  BY <1>4 DEF EditFile, ConfigType
<1> QED BY <1>2, <1>3, <1>4

\* Moving one goroutine to a well-typed record keeps the type of all.
LEMMA GotoType ==
    ASSUME th \in [Threads -> ThreadType], NEW t, NEW rec \in ThreadType, Goto(t, rec)
    PROVE  th' \in [Threads -> ThreadType]
  BY DEF Goto

LEMMA IdleType ==
    /\ IdleThread \in ThreadType
    /\ \A p \in PCs : [IdleThread EXCEPT !.pc = p] \in ThreadType
    /\ \A p \in PCs, T \in SUBSET Namespaces :
          [IdleThread EXCEPT !.pc = p, !.todo = T] \in ThreadType
    /\ \A p \in PCs, n \in Namespaces :
          [IdleThread EXCEPT !.pc = p, !.ns = n] \in ThreadType
  BY DEF IdleThread, ThreadType, PCs

\* A new process has the types.
LEMMA GoneType ==
    ASSUME TypeOK, Exit, Gone, changes' \in Nat, UNCHANGED <<apiRef, listable>>
    PROVE  TypeOK'
<1>1. ConfigType'
  BY ConfigStep DEF TypeOK, ConfigType
<1>2. th' \in [Threads -> ThreadType]
  BY IdleType DEF Gone
<1> QED BY <1>1, <1>2 DEF TypeOK, ConfigType, Gone

\* Every step keeps the types.
LEMMA TypeStep == TypeOK /\ LocalsOK /\ [Next]_vars => TypeOK'
<1> SUFFICES ASSUME TypeOK, LocalsOK, [Next]_vars PROVE TypeOK'
  OBVIOUS
<1>0. /\ {"worker", "pruner", "run"} \subseteq Threads
      /\ {"idle", "start", "wait", "sync", "range", "close", "delete"} \subseteq PCs
      /\ th \in [Threads -> ThreadType]
  BY DEF Threads, PCs, TypeOK
<1>a. ConfigType
  BY DEF TypeOK, ConfigType
<1>1. CASE UNCHANGED vars
  BY <1>1 DEF vars, configVars, apiVars, regVars, TypeOK
<1>2. CASE Environment
  <2>1. ASSUME NEW s \in Shares, NEW n \in Namespaces \cup {None}, SetShare(s, n)
        PROVE  TypeOK'
    BY <2>1 DEF SetShare, Change, configVars, regVars, TypeOK
  <2>2. ASSUME NEW n \in Namespaces, GrantAccess(n) PROVE TypeOK'
    BY <2>2 DEF GrantAccess, Change, configVars, regVars, TypeOK
  <2>3. ASSUME NEW p \in Payloads \cup {Missing}, Edit(p) PROVE TypeOK'
    <3>1. ConfigType'
      BY <1>a, <2>3, ConfigStep DEF Edit
    <3> QED BY <2>3, <3>1 DEF Edit, Change, regVars, TypeOK, ConfigType
  <2>4. CASE Crash
    BY <2>4, GoneType DEF Crash, Change, TypeOK
  <2> QED BY <1>2, <2>1, <2>2, <2>3, <2>4 DEF Environment
<1>3. CASE Start
  <2>1. ConfigType'
    BY <1>a, <1>3, ConfigStep DEF Start
  <2> QED BY <1>3, <2>1 DEF Start, apiVars, regVars, TypeOK, ConfigType
<1>4. CASE ConfigExit \/ RunPanic \/ Killed \/ ClosePanic("worker") \/ ClosePanic("pruner")
  <2>1. Exit /\ Gone /\ UNCHANGED apiVars
    BY <1>4 DEF ConfigExit, watchForConfigChanges, RunPanic, Killed, ClosePanic
  <2> QED BY <2>1, GoneType DEF apiVars, TypeOK
<1>5. ASSUME NEW s \in Shares, SyncShare(s) PROVE TypeOK'
  <2>1. shareQ' \in Seq(Events)
    BY <1>5 DEF SyncShare, TypeOK, Events
  <2> QED BY <1>5, <2>1 DEF SyncShare, configVars, apiVars, TypeOK
<1>6. ASSUME NEW s \in Shares, RelistShare(s) PROVE TypeOK'
  <2>1. shareQ' \in Seq(Events)
    BY <1>6 DEF RelistShare, TypeOK, Events
  <2> QED BY <1>6, <2>1 DEF RelistShare, configVars, apiVars, TypeOK
<1>7. CASE SyncShared
  <2> DEFINE e == Head(shareQ)
  <2>1. e \in Events /\ shareQ' \in Seq(Events)
    BY <1>7 DEF SyncShared, TypeOK
  <2>2. e.ns \in Namespaces
    BY <2>1 DEF Events
  <2>3. \/ Goto("worker", [IdleThread EXCEPT !.pc = "start", !.ns = e.ns])
        \/ Goto("worker", [IdleThread EXCEPT !.pc = "sync"])
    BY <1>7 DEF SyncShared
  <2>4. th' \in [Threads -> ThreadType]
    <3>1. /\ [IdleThread EXCEPT !.pc = "start", !.ns = e.ns] \in ThreadType
          /\ [IdleThread EXCEPT !.pc = "sync"] \in ThreadType
      BY <1>0, <2>2, IdleType
    <3> QED BY <1>0, <2>3, <3>1, GotoType
  <2>5. watch' \in [Namespaces -> Ids \cup {None, Placeholder}]
    BY <1>7, <2>2 DEF SyncShared, TypeOK
  <2> QED BY <1>7, <2>1, <2>4, <2>5 DEF SyncShared, configVars, apiVars, TypeOK
<1>8. CASE StartInformer
  <2> DEFINE i == CHOOSE i \in Ids : ~InUse(i)
             q == [th["worker"] EXCEPT !.pc = "wait", !.inf = i]
  <2>1. i \in Ids
    BY <1>8 DEF StartInformer
  <2>2. q \in ThreadType
    BY <1>0, <2>1 DEF ThreadType
  <2>3. th' \in [Threads -> ThreadType]
    BY <1>0, <1>8, <2>2, GotoType DEF StartInformer
  <2>4. th["worker"].ns \in Namespaces
    BY <1>8 DEF StartInformer, LocalsOK
  <2> QED BY <1>8, <2>1, <2>3, <2>4 DEF StartInformer, configVars, apiVars, TypeOK
<1>9. CASE StoreInformer
  <2>1. th["worker"].inf \in Ids
    BY <1>9 DEF StoreInformer, LocalsOK
  <2>2. th' \in [Threads -> ThreadType]
    BY <1>0, <1>9, IdleType, GotoType DEF StoreInformer
  <2> QED BY <1>9, <2>1, <2>2 DEF StoreInformer, configVars, apiVars, TypeOK
<1>10. ASSUME NEW t \in Pruners, PruneInformers(t) PROVE TypeOK'
  <2> DEFINE q == [IdleThread EXCEPT !.pc = "range",
                        !.todo = Namespaces \ NamespacesWithShares]
  <2>1. q \in ThreadType /\ IdleThread \in ThreadType
    BY <1>0, IdleType
  <2>2. Goto(t, q) \/ Goto(t, IdleThread)
    BY <1>10 DEF PruneInformers
  <2>3. th' \in [Threads -> ThreadType]
    BY <1>0, <2>1, <2>2, GotoType
  <2> QED BY <1>10, <2>3 DEF PruneInformers, configVars, apiVars, TypeOK
<1>11. ASSUME NEW t \in Pruners, RangeVisit(t) PROVE TypeOK'
  <2>1. th[t] \in ThreadType
    BY <1>0 DEF Pruners
  <2>2. ASSUME NEW n \in th[t].todo
        PROVE  /\ [th[t] EXCEPT !.todo = @ \ {n}] \in ThreadType
               /\ watch[n] # None =>
                  [th[t] EXCEPT !.pc = "close", !.ns = n, !.inf = watch[n],
                                !.todo = @ \ {n}] \in ThreadType
    <3>1. n \in Namespaces
      BY <2>1 DEF ThreadType
    <3> QED BY <1>0, <2>1, <3>1 DEF ThreadType, TypeOK
  <2>3. th' \in [Threads -> ThreadType]
    <3>1. PICK rec \in ThreadType : Goto(t, rec)
      BY <1>11, <2>2, IdleType DEF RangeVisit
    <3> QED BY <1>0, <3>1, GotoType
  <2> QED BY <1>11, <2>3 DEF RangeVisit, configVars, apiVars, TypeOK
<1>12. ASSUME NEW t \in Pruners, UnregisterClose(t) PROVE TypeOK'
  <2>1. [th[t] EXCEPT !.pc = "delete"] \in ThreadType
    BY <1>0 DEF Pruners, ThreadType
  <2>2. th' \in [Threads -> ThreadType]
    BY <1>0, <1>12, <2>1, GotoType DEF UnregisterClose
  <2> QED BY <1>12, <2>2 DEF UnregisterClose, configVars, apiVars, TypeOK
<1>13. ASSUME NEW t \in Pruners, UnregisterDelete(t) PROVE TypeOK'
  <2>1. [th[t] EXCEPT !.pc = "range", !.ns = None, !.inf = None] \in ThreadType
    BY <1>0 DEF Pruners, ThreadType
  <2>2. th' \in [Threads -> ThreadType]
    BY <1>0, <1>13, <2>1, GotoType DEF UnregisterDelete
  <2> QED BY <1>13, <2>2 DEF UnregisterDelete, configVars, apiVars, TypeOK
<1>14. CASE Signal
  <2>1. th' \in [Threads -> ThreadType]
    BY <1>0, <1>14, IdleType, GotoType DEF Signal
  <2> QED BY <1>14, <2>1 DEF Signal, Change, TypeOK
<1>15. CASE RunClose
  <2>1. \A n : [th["run"] EXCEPT !.todo = @ \ {n}] \in ThreadType
    BY <1>0 DEF ThreadType
  <2>2. th' \in [Threads -> ThreadType]
    BY <1>0, <1>15, <2>1, GotoType DEF RunClose
  <2> QED BY <1>15, <2>2 DEF RunClose, configVars, apiVars, TypeOK
<1> QED BY <1>1, <1>2, <1>3, <1>4, <1>5, <1>6, <1>7, <1>8, <1>9, <1>10, <1>11, <1>12,
           <1>13, <1>14, <1>15 DEF Next, Worker, Pruner, PruneStep, Pruners

-----------------------------------------------------------------------------
(* Two goroutines on one map.                                              *)

\* The part of the inductive invariant that is about the map, the informers, the
\* listers and the goroutines.
Core == /\ LocalsOK /\ PlaceholderInv /\ WaitInv /\ LoadedInv
        /\ NoOrphanInformer /\ ListerFollowsWatch

\* A process without a past satisfies it.
LEMMA CoreFresh ==
    /\ Init => Core
    /\ Gone => Core'
<1>1. \A t \in Threads : IdleThread.pc = "idle"
  BY DEF IdleThread
<1>2. Pruners \subseteq Threads /\ "worker" \in Threads /\ "pruner" \in Threads
  BY DEF Pruners, Threads
<1>3. None # Placeholder /\ None \notin Ids
  BY RegistryAssumption
<1> USE <1>1, <1>2, <1>3 DEF Core, LocalsOK, PlaceholderInv, WaitInv, LoadedInv,
        NoOrphanInformer, ListerFollowsWatch, Watched
<1>4. Init => Core
  BY DEF Init
<1>5. Gone => Core'
  BY DEF Gone
<1> QED BY <1>4, <1>5

\* Steps that touch neither map nor informers nor goroutines keep it.
LEMMA CoreQuiet ==
    ASSUME Core, UNCHANGED <<watch, open, lister, th>>
    PROVE  Core'
  BY DEF Core, LocalsOK, PlaceholderInv, WaitInv, LoadedInv, NoOrphanInformer,
         ListerFollowsWatch, Watched, Stopped

\* The worker takes an event: the placeholder goes where nothing was.
LEMMA CoreSyncShared == TypeOK /\ Core /\ SyncShared => Core'
<1> SUFFICES ASSUME TypeOK, Core, SyncShared PROVE Core'
  OBVIOUS
<1> DEFINE e == Head(shareQ)
           p == [IdleThread EXCEPT !.pc = "start", !.ns = e.ns]
           q == [IdleThread EXCEPT !.pc = "sync"]
<1>0. /\ "worker" \in Threads /\ "pruner" \in Threads
      /\ Pruners = {"worker", "pruner"}
      /\ th \in [Threads -> ThreadType]
  BY DEF Threads, Pruners, TypeOK
<1>1. /\ p.pc = "start" /\ p.ns = e.ns /\ q.pc = "sync"
      /\ e.ns \in Namespaces
  <2>1. e \in Events
    BY DEF SyncShared, TypeOK
  <2>2. e.ns \in Namespaces
    BY <2>1 DEF Events
  <2> QED BY <2>2 DEF IdleThread
<1>2. UNCHANGED <<open, lister>> /\ th["worker"].pc = "idle"
  BY DEF SyncShared
<1> HIDE DEF p, q, e
<1>3. th'["pruner"] = th["pruner"]
  BY <1>0 DEF SyncShared, Goto
<1>4. CASE /\ watch[e.ns] = None /\ watch' = [watch EXCEPT ![e.ns] = Placeholder]
           /\ th'["worker"] = p
  <2>1. \A n \in Namespaces : watch[n] # Placeholder
    BY <1>2 DEF Core, PlaceholderInv
  <2>2. \A n \in Namespaces : watch'[n] = IF n = e.ns THEN Placeholder ELSE watch[n]
    BY <1>4 DEF TypeOK
  <2>3. LocalsOK' /\ PlaceholderInv' /\ WaitInv'
    BY <1>0, <1>1, <1>3, <1>4, <2>1, <2>2
    DEF Core, LocalsOK, PlaceholderInv, WaitInv
  <2>4. LoadedInv'
    <3>1. th["pruner"].pc \in {"close", "delete"} =>
             th["pruner"].ns \in Namespaces /\ th["pruner"].inf \in Ids \cup {Placeholder}
      BY <1>0 DEF Core, LocalsOK
    <3> QED BY <1>0, <1>1, <1>2, <1>3, <1>4, <2>2, <3>1, RegistryAssumption
            DEF Core, LoadedInv, Stopped
  <2>5. NoOrphanInformer'
    BY <1>2, <1>4, <2>2, RegistryAssumption DEF Core, NoOrphanInformer, TypeOK
  <2>6. ListerFollowsWatch'
    BY <1>2, <2>2, RegistryAssumption DEF Core, ListerFollowsWatch, Watched
  <2> QED BY <2>3, <2>4, <2>5, <2>6 DEF Core
<1>5. CASE UNCHANGED watch /\ th'["worker"] = q
  BY <1>0, <1>1, <1>2, <1>3, <1>5
  DEF Core, LocalsOK, PlaceholderInv, WaitInv, LoadedInv, NoOrphanInformer,
      ListerFollowsWatch, Watched, Stopped
<1>6. \/ /\ watch[e.ns] = None /\ watch' = [watch EXCEPT ![e.ns] = Placeholder]
         /\ th'["worker"] = p
      \/ UNCHANGED watch /\ th'["worker"] = q
  BY <1>0 DEF SyncShared, Goto, e, p, q
<1> QED BY <1>4, <1>5, <1>6

\* The worker starts an informer nobody refers to.
LEMMA CoreStartInformer == TypeOK /\ Core /\ StartInformer => Core'
<1> SUFFICES ASSUME TypeOK, Core, StartInformer PROVE Core'
  OBVIOUS
<1> DEFINE n == th["worker"].ns
           i == CHOOSE i \in Ids : ~InUse(i)
           q == [th["worker"] EXCEPT !.pc = "wait", !.inf = i]
<1>0. /\ "worker" \in Threads /\ "pruner" \in Threads
      /\ Pruners = {"worker", "pruner"}
      /\ th \in [Threads -> ThreadType] /\ th["worker"] \in ThreadType
  BY DEF Threads, Pruners, TypeOK
<1>1. i \in Ids /\ ~InUse(i)
  BY DEF StartInformer
<1>2. /\ th["worker"].pc = "start" /\ n \in Namespaces /\ watch[n] = Placeholder
      /\ UNCHANGED watch
  BY DEF StartInformer, Core, LocalsOK, PlaceholderInv
<1>3. /\ q.pc = "wait" /\ q.inf = i /\ q.ns = n
  BY <1>0 DEF ThreadType
<1>4. th'["worker"] = q /\ th'["pruner"] = th["pruner"]
  BY <1>0 DEF StartInformer, Goto
<1>5. /\ open' = [open EXCEPT ![i] = n] /\ lister' = [lister EXCEPT ![n] = i]
  BY DEF StartInformer
<1> HIDE DEF q, i, n
<1>6. /\ open[i] = None /\ th["pruner"].inf # i
      /\ \A m \in Namespaces : watch[m] # i /\ lister[m] # i
  BY <1>0, <1>1 DEF InUse
<1>7. /\ \A j \in Ids : open'[j] = IF j = i THEN n ELSE open[j]
      /\ \A m \in Namespaces : lister'[m] = IF m = n THEN i ELSE lister[m]
  BY <1>5 DEF TypeOK
<1>8. LocalsOK' /\ PlaceholderInv' /\ WaitInv'
  BY <1>0, <1>1, <1>2, <1>3, <1>4, <1>6, <1>7
  DEF Core, LocalsOK, PlaceholderInv, WaitInv, n
<1>9. LoadedInv'
  <2>1. th["pruner"].inf \in Ids => open'[th["pruner"].inf] = open[th["pruner"].inf]
    BY <1>6, <1>7
  <2> QED BY <1>0, <1>2, <1>3, <1>4, <2>1 DEF Core, LoadedInv, Stopped
<1>10. NoOrphanInformer'
  BY <1>1, <1>2, <1>3, <1>4, <1>7 DEF Core, NoOrphanInformer
<1>11. ListerFollowsWatch'
  BY <1>1, <1>2, <1>6, <1>7, RegistryAssumption DEF Core, ListerFollowsWatch, Watched
<1> QED BY <1>8, <1>9, <1>10, <1>11 DEF Core

\* The worker puts its informer where its placeholder is.
LEMMA CoreStoreInformer == TypeOK /\ Core /\ StoreInformer => Core'
<1> SUFFICES ASSUME TypeOK, Core, StoreInformer PROVE Core'
  OBVIOUS
<1> DEFINE n == th["worker"].ns
           i == th["worker"].inf
           q == [IdleThread EXCEPT !.pc = "sync"]
<1>0. /\ "worker" \in Threads /\ "pruner" \in Threads
      /\ Pruners = {"worker", "pruner"}
      /\ th \in [Threads -> ThreadType]
  BY DEF Threads, Pruners, TypeOK
<1>1. q.pc = "sync"
  BY DEF IdleThread
<1>2. /\ th["worker"].pc = "wait" /\ n \in Namespaces /\ i \in Ids
      /\ watch[n] = Placeholder /\ open[i] = n /\ lister[n] = i
      /\ \A m \in Namespaces : watch[m] # i
      /\ \A m \in Namespaces : watch[m] = Placeholder => m = n
  BY DEF StoreInformer, Core, LocalsOK, PlaceholderInv, WaitInv
<1>3. /\ th'["worker"] = q /\ th'["pruner"] = th["pruner"]
      /\ UNCHANGED <<open, lister>>
  BY <1>0 DEF StoreInformer, Goto
<1>4. \A m \in Namespaces : watch'[m] = IF m = n THEN i ELSE watch[m]
  BY DEF StoreInformer, TypeOK
<1> HIDE DEF q, i, n
<1>5. LocalsOK' /\ PlaceholderInv' /\ WaitInv'
  BY <1>0, <1>1, <1>2, <1>3, <1>4, RegistryAssumption
  DEF Core, LocalsOK, PlaceholderInv, WaitInv
<1>6. LoadedInv'
  <2>1. th["pruner"].pc \in {"close", "delete"} =>
           th["pruner"].ns \in Namespaces /\ th["pruner"].inf \in Ids \cup {Placeholder}
    BY <1>0 DEF Core, LocalsOK
  <2>2. th["pruner"].pc = "close" /\ ~Stopped(th["pruner"].inf) =>
           th["pruner"].ns # n
    BY <1>0, <1>2, <2>1, RegistryAssumption DEF Core, LoadedInv, Stopped
  <2>3. th["pruner"].pc = "delete" => th["pruner"].ns # n
    BY <1>0, <1>2, <2>1, RegistryAssumption DEF Core, LoadedInv
  <2> QED BY <1>0, <1>1, <1>3, <1>4, <2>1, <2>2, <2>3 DEF Core, LoadedInv, Stopped
<1>7. NoOrphanInformer'
  <2> SUFFICES ASSUME NEW j \in Ids, open[j] # None PROVE watch'[open[j]] = j
    BY <1>3 DEF NoOrphanInformer
  <2>1. open[j] \in Namespaces
    BY DEF TypeOK
  <2>2. CASE j = i
    BY <1>2, <1>4, <2>2
  <2>3. CASE j # i
    <3>1. watch[open[j]] = j
      BY <2>3 DEF Core, NoOrphanInformer, i
    <3> QED BY <1>2, <1>4, <2>1, <3>1, RegistryAssumption
  <2> QED BY <2>2, <2>3
<1>8. ListerFollowsWatch'
  BY <1>2, <1>3, <1>4 DEF Core, ListerFollowsWatch, Watched
<1> QED BY <1>5, <1>6, <1>7, <1>8 DEF Core

\* A pruner moves without changing map, informers or listers: what it loads is in
\* the map now.
LEMMA CoreVisit ==
    ASSUME TypeOK, Core, NEW t \in Pruners, PruneInformers(t) \/ RangeVisit(t)
    PROVE  Core'
<1>0. /\ "worker" \in Threads /\ "pruner" \in Threads /\ t \in Threads
      /\ Pruners = {"worker", "pruner"}
      /\ th \in [Threads -> ThreadType] /\ th[t] \in ThreadType
  BY DEF Threads, Pruners, TypeOK
<1>1. UNCHANGED <<watch, open, lister>> /\ th[t].pc \in {"sync", "idle", "range"}
  BY DEF PruneInformers, RangeVisit
<1>2. \E rec : /\ Goto(t, rec)
               /\ \/ rec.pc \in {"idle", "range"}
                  \/ /\ rec.pc = "close" /\ rec.ns \in Namespaces
                     /\ rec.inf \in Ids \cup {Placeholder}
                     /\ rec.inf = watch[rec.ns]
  <2>1. CASE PruneInformers(t)
    <3>1. IdleThread.pc = "idle"
          /\ [IdleThread EXCEPT !.pc = "range",
                 !.todo = Namespaces \ NamespacesWithShares].pc = "range"
      BY DEF IdleThread
    <3> QED BY <2>1, <3>1 DEF PruneInformers
  <2>2. CASE RangeVisit(t)
    <3>1. CASE th[t].todo = {}
      BY <2>2, <3>1 DEF RangeVisit, IdleThread
    <3>2. CASE th[t].todo # {}
      <4>1. PICK n \in th[t].todo :
              Goto(t, IF watch[n] # None
                      THEN [th[t] EXCEPT !.pc = "close", !.ns = n,
                                !.inf = watch[n], !.todo = @ \ {n}]
                      ELSE [th[t] EXCEPT !.todo = @ \ {n}])
        BY <2>2, <3>2 DEF RangeVisit
      <4>2. n \in Namespaces
        BY <1>0 DEF ThreadType
      <4> DEFINE p == [th[t] EXCEPT !.pc = "close", !.ns = n, !.inf = watch[n],
                                    !.todo = @ \ {n}]
                 q == [th[t] EXCEPT !.todo = @ \ {n}]
      <4>3. p.pc = "close" /\ p.ns = n /\ p.inf = watch[n] /\ q.pc = "range"
        BY <1>0, <2>2 DEF ThreadType, RangeVisit
      <4>4. watch[n] \in Ids \cup {None, Placeholder}
        BY <4>2 DEF TypeOK
      <4> HIDE DEF p, q
      <4>5. CASE watch[n] # None
        <5>1. Goto(t, p)
          BY <4>1, <4>5 DEF p
        <5> QED BY <4>2, <4>3, <4>4, <4>5, <5>1
      <4>6. CASE watch[n] = None
        <5>1. Goto(t, q)
          BY <4>1, <4>6 DEF q
        <5> QED BY <4>3, <5>1
      <4> QED BY <4>5, <4>6
    <3> QED BY <3>1, <3>2
  <2> QED BY <2>1, <2>2
<1>3. /\ \A u \in Pruners \ {t} : th'[u] = th[u]
      /\ \/ th'[t].pc \in {"idle", "range"}
         \/ /\ th'[t].pc = "close" /\ th'[t].ns \in Namespaces
            /\ th'[t].inf \in Ids \cup {Placeholder}
            /\ th'[t].inf = watch[th'[t].ns]
  BY <1>0, <1>2 DEF Goto
<1>4. LocalsOK'
  BY <1>0, <1>1, <1>3 DEF Core, LocalsOK
<1>5. PlaceholderInv'
  BY <1>0, <1>1, <1>3 DEF Core, PlaceholderInv
<1>6. WaitInv' /\ NoOrphanInformer'
  BY <1>0, <1>1, <1>3 DEF Core, WaitInv, NoOrphanInformer
<1>7. LoadedInv'
  BY <1>0, <1>1, <1>3 DEF Core, LoadedInv, Stopped
<1>8. ListerFollowsWatch'
  BY <1>1 DEF Core, ListerFollowsWatch, Watched
<1> QED BY <1>4, <1>5, <1>6, <1>7, <1>8 DEF Core

\* Stopping an informer that is in the map hurts nobody who waits for another.
LEMMA CoreClose ==
    ASSUME TypeOK, Core, NEW t \in Pruners, UnregisterClose(t)
    PROVE  Core'
<1> DEFINE i == th[t].inf
           q == [th[t] EXCEPT !.pc = "delete"]
<1>0. /\ "worker" \in Threads /\ "pruner" \in Threads /\ t \in Threads
      /\ Pruners = {"worker", "pruner"}
      /\ th \in [Threads -> ThreadType] /\ th[t] \in ThreadType
  BY DEF Threads, Pruners, TypeOK
<1>1. /\ th[t].pc = "close" /\ i \in Ids /\ open[i] # None
      /\ th[t].ns \in Namespaces /\ watch[th[t].ns] = i
      /\ UNCHANGED <<watch, lister>>
  BY DEF UnregisterClose, Core, LocalsOK, LoadedInv, Stopped
<1>2. \A j \in Ids : open'[j] = IF j = i THEN None ELSE open[j]
  BY DEF UnregisterClose, TypeOK
<1>3. q.pc = "delete" /\ q.inf = i /\ q.ns = th[t].ns
  BY <1>0 DEF ThreadType
<1>4. th'[t] = q /\ \A u \in Pruners \ {t} : th'[u] = th[u]
  BY <1>0 DEF UnregisterClose, Goto
<1> HIDE DEF q
<1>5. LocalsOK'
  BY <1>0, <1>1, <1>3, <1>4 DEF Core, LocalsOK
<1>6. PlaceholderInv'
  BY <1>0, <1>1, <1>3, <1>4 DEF Core, PlaceholderInv
<1>7. WaitInv'
  BY <1>0, <1>1, <1>2, <1>3, <1>4 DEF Core, WaitInv, LocalsOK
<1>8. LoadedInv'
  <2>1. \A u \in Pruners \ {t} : th[u].pc = "delete" => th[u].inf # i
    BY <1>1 DEF Core, LoadedInv
  <2> QED BY <1>0, <1>1, <1>2, <1>3, <1>4, <2>1 DEF Core, LoadedInv, Stopped
<1>9. NoOrphanInformer'
  BY <1>0, <1>1, <1>2, <1>3, <1>4 DEF Core, NoOrphanInformer
<1>10. ListerFollowsWatch'
  BY <1>1, <1>2, RegistryAssumption DEF Core, ListerFollowsWatch, Watched
<1> QED BY <1>5, <1>6, <1>7, <1>8, <1>9, <1>10 DEF Core

\* The entry a pruner deletes is the one it stopped.
LEMMA CoreDelete ==
    ASSUME TypeOK, Core, NEW t \in Pruners, UnregisterDelete(t)
    PROVE  Core'
<1> DEFINE i == th[t].inf
           n == th[t].ns
           q == [th[t] EXCEPT !.pc = "range", !.ns = None, !.inf = None]
<1>0. /\ "worker" \in Threads /\ "pruner" \in Threads /\ t \in Threads
      /\ Pruners = {"worker", "pruner"}
      /\ th \in [Threads -> ThreadType] /\ th[t] \in ThreadType
  BY DEF Threads, Pruners, TypeOK
<1>1. /\ th[t].pc = "delete" /\ i \in Ids /\ open[i] = None
      /\ n \in Namespaces /\ watch[n] = i
      /\ UNCHANGED <<open, lister>>
  BY DEF UnregisterDelete, Core, LocalsOK, LoadedInv
<1>2. \A m \in Namespaces : watch'[m] = IF m = n THEN None ELSE watch[m]
  BY DEF UnregisterDelete, TypeOK
<1>3. q.pc = "range"
  BY <1>0 DEF ThreadType
<1>4. th'[t] = q /\ \A u \in Pruners \ {t} : th'[u] = th[u]
  BY <1>0 DEF UnregisterDelete, Goto
<1> HIDE DEF q
<1>5. LocalsOK'
  BY <1>0, <1>1, <1>3, <1>4 DEF Core, LocalsOK
<1>6. PlaceholderInv'
  BY <1>0, <1>1, <1>2, <1>3, <1>4, RegistryAssumption DEF Core, PlaceholderInv
<1>7. WaitInv'
  BY <1>0, <1>1, <1>2, <1>3, <1>4, RegistryAssumption DEF Core, WaitInv, LocalsOK
<1>8. LoadedInv'
  <2>1. \A u \in Pruners \ {t} :
           /\ th[u].pc = "delete" => th[u].ns # n
           /\ th[u].pc = "close" /\ ~Stopped(th[u].inf) => th[u].ns # n
    BY <1>0, <1>1 DEF Core, LoadedInv, Stopped
  <2>2. \A u \in Pruners \ {t} :
           th[u].pc \in {"close", "delete"} => th[u].ns \in Namespaces
    BY DEF Core, LocalsOK
  <2> QED BY <1>0, <1>1, <1>2, <1>3, <1>4, <2>1, <2>2 DEF Core, LoadedInv, Stopped
<1>9. NoOrphanInformer'
  BY <1>0, <1>1, <1>2, <1>3, <1>4 DEF Core, NoOrphanInformer, TypeOK
<1>10. ListerFollowsWatch'
  BY <1>1, <1>2, RegistryAssumption DEF Core, ListerFollowsWatch, Watched
<1> QED BY <1>5, <1>6, <1>7, <1>8, <1>9, <1>10 DEF Core

\* Controller.Run stops what is in the map after a signal and deletes nothing.
LEMMA CoreRun == TypeOK /\ Core /\ (Signal \/ RunClose) => Core'
<1> SUFFICES ASSUME TypeOK, Core, Signal \/ RunClose PROVE Core'
  OBVIOUS
<1>0. /\ "worker" \in Threads /\ "pruner" \in Threads
      /\ Pruners = {"worker", "pruner"}
      /\ th \in [Threads -> ThreadType]
  BY DEF Threads, Pruners, TypeOK
<1>1. /\ UNCHANGED <<watch, lister>>
      /\ th'["worker"] = th["worker"] /\ th'["pruner"] = th["pruner"]
  BY <1>0 DEF Signal, RunClose, Goto
<1>2. \/ open' = open
      \/ \E n \in Namespaces : /\ watch[n] \in Ids
                               /\ open' = [open EXCEPT ![watch[n]] = None]
  <2>1. CASE Signal
    BY <2>1 DEF Signal
  <2>2. CASE RunClose
    <3>1. th["run"].todo \subseteq Namespaces
      BY DEF TypeOK, Threads, ThreadType
    <3> QED BY <2>2, <3>1 DEF RunClose, Stopped
  <2> QED BY <2>1, <2>2
<1>3. CASE open' = open
  BY <1>0, <1>1, <1>3 DEF Core, LocalsOK, PlaceholderInv, WaitInv, LoadedInv,
     NoOrphanInformer, ListerFollowsWatch, Watched, Stopped
<1>4. ASSUME NEW n \in Namespaces, watch[n] \in Ids,
             open' = [open EXCEPT ![watch[n]] = None]
      PROVE  Core'
  <2>1. \A j \in Ids : open'[j] = IF j = watch[n] THEN None ELSE open[j]
    BY <1>4 DEF TypeOK
  <2>2. LocalsOK' /\ PlaceholderInv'
    BY <1>0, <1>1 DEF Core, LocalsOK, PlaceholderInv
  <2>3. WaitInv'
    BY <1>1, <1>4, <2>1 DEF Core, WaitInv, LocalsOK
  <2>4. LoadedInv'
    BY <1>0, <1>1, <2>1 DEF Core, LoadedInv, Stopped
  <2>5. NoOrphanInformer'
    BY <1>1, <2>1 DEF Core, NoOrphanInformer
  <2>6. ListerFollowsWatch'
    BY <1>1, <2>1, RegistryAssumption DEF Core, ListerFollowsWatch, Watched
  <2> QED BY <2>2, <2>3, <2>4, <2>5, <2>6 DEF Core
<1> QED BY <1>2, <1>3, <1>4

\* Every step keeps the inductive invariant.
LEMMA CoreStep == TypeOK /\ Core /\ [Next]_vars => Core'
<1> SUFFICES ASSUME TypeOK, Core, [Next]_vars PROVE Core'
  OBVIOUS
<1>1. CASE UNCHANGED vars
  BY <1>1, CoreQuiet DEF vars, regVars
<1>2. CASE Environment
  BY <1>2, CoreQuiet, CoreFresh
  DEF Environment, SetShare, GrantAccess, Edit, Crash, regVars
<1>3. CASE Start
  BY <1>3, CoreQuiet DEF Start, regVars
<1>4. CASE ConfigExit \/ RunPanic \/ Killed \/ ClosePanic("worker") \/ ClosePanic("pruner")
  BY <1>4, CoreFresh DEF ConfigExit, RunPanic, Killed, ClosePanic
<1>5. ASSUME NEW s \in Shares, SyncShare(s) \/ RelistShare(s) PROVE Core'
  BY <1>5, CoreQuiet DEF SyncShare, RelistShare
<1> QED BY <1>1, <1>2, <1>3, <1>4, <1>5, CoreSyncShared, CoreStartInformer,
           CoreStoreInformer, CoreVisit, CoreClose, CoreDelete, CoreRun
        DEF Next, Worker, Pruner, PruneStep, Pruners

\* RegistryInv is an invariant of the specification.
THEOREM RegistryInvariant == Spec => []RegistryInv
<1>1. Init => TypeOK /\ Core
  <2>1. NewConfig \in Configs /\ ZeroConfig \in Configs
    BY ConfigAssumption DEF NewConfig, ZeroConfig, Configs
  <2>2. Init => th \in [Threads -> ThreadType]
    BY IdleType DEF Init
  <2> QED BY <2>1, <2>2, CoreFresh DEF Init, ConfigInit, TypeOK
<1>2. TypeOK /\ Core /\ [Next]_vars => (TypeOK /\ Core)'
  BY TypeStep, CoreStep DEF Core
<1>3. TypeOK /\ Core => RegistryInv
  BY DEF Core, RegistryInv
<1> QED BY <1>1, <1>2, <1>3, PTL DEF Spec

\* Whatever the worker and the pruner do to the map at the same time, no running
\* informer is lost from it, for any number of namespaces and restarts.
THEOREM NoOrphanInformerHolds == Spec => []NoOrphanInformer
<1>1. RegistryInv => NoOrphanInformer
  BY DEF RegistryInv
<1> QED BY <1>1, RegistryInvariant, PTL

\* Whatever is registered, pruned and registered again, the lister of a watched
\* namespace is that of the running informer.
THEOREM ListerFollowsWatchHolds == Spec => []ListerFollowsWatch
<1>1. RegistryInv => ListerFollowsWatch
  BY DEF RegistryInv
<1> QED BY <1>1, RegistryInvariant, PTL

\* No namespace has two running informers: the one in the map and the one the
\* worker waits for cannot be of the same namespace, because there the map holds
\* the placeholder of LoadOrStore.
THEOREM OneInformerPerNamespaceHolds == Spec => []OneInformerPerNamespace
<1>1. RegistryInv => OneInformerPerNamespace
  <2> SUFFICES ASSUME RegistryInv, NEW i \in Ids, NEW j \in Ids,
                      open[i] # None, open[i] = open[j]
               PROVE  i = j
    BY DEF OneInformerPerNamespace
  <2>1. open[i] \in Namespaces
    BY DEF RegistryInv, TypeOK
  <2>2. ASSUME NEW k \in Ids, th["worker"].pc = "wait", th["worker"].inf = k,
               open[k] = open[i]
        PROVE  watch[open[i]] = Placeholder
    BY <2>1, <2>2 DEF RegistryInv, WaitInv, PlaceholderInv
  <2>3. Placeholder \notin Ids
    BY RegistryAssumption
  <2> QED BY <2>2, <2>3 DEF RegistryInv, NoOrphanInformer
<1> QED BY <1>1, RegistryInvariant, PTL

\* Every variable keeps its type, over all processes.
THEOREM RegistryTypeOK == Spec => []TypeOK
<1>1. RegistryInv => TypeOK
  BY DEF RegistryInv
<1> QED BY <1>1, RegistryInvariant, PTL
=============================================================================
