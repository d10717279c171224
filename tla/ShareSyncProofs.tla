-------------------------- MODULE ShareSyncProofs --------------------------
(***************************************************************************)
(* Proofs of ShareSync's safety properties for every number of volumes,    *)
(* shares, objects and data, and every choice of the other constants.      *)
(***************************************************************************)
EXTENDS ShareSync, SequenceTheorems, TLAPS

\* What the type proof has to show of the threads after a step.
ThreadsOK(f) == /\ f \in [Threads -> ThreadType]
                /\ \A t \in Threads : RecOK(t, f[t])

-----------------------------------------------------------------------------
(* Moving one thread.                                                      *)

\* A thread that moves to a well-formed record keeps the threads well-formed.
LEMMA GotoType ==
    ASSUME ThreadsOK(th), NEW t \in Threads, NEW rec \in ThreadType,
           RecOK(t, rec), Goto(t, rec)
    PROVE  ThreadsOK(th')
  BY DEF ThreadsOK, Goto

\* The idle record is well-formed for every thread.
LEMMA IdleType ==
    ASSUME NEW t \in Threads
    PROVE  IdleThread \in ThreadType /\ RecOK(t, IdleThread)
  BY ConstAssumption
  DEF IdleThread, ThreadType, RecOK, PCs, InPass, Upserting

\* Where a pass returns to.
LEMMA PassRetType ==
    ASSUME NEW t \in Threads
    PROVE  /\ PassRet(t) \in PCs
           /\ PassRet(t) \in {"prune", "shares", "finish"}
  BY DEF PassRet, Threads, PCs

\* Going on with, or returning from, a pass.
LEMMA PassType ==
    ASSUME ThreadsOK(th), NEW t \in Threads, NEW rec \in ThreadType,
           rec.share \in Shares,
           t = "obj" => rec.ev \in ObjEvents,
           t = "node" => rec.cur \in Volumes,
           Pass(t, rec)
    PROVE  ThreadsOK(th')
<1>1. CASE rec.todo = {}
  <2> DEFINE r == [rec EXCEPT !.pc = PassRet(t), !.share = None, !.vol = None]
  <2>1. r \in ThreadType
    BY PassRetType DEF ThreadType
  <2>2. RecOK(t, r)
    BY PassRetType DEF ThreadType, RecOK, InPass, Upserting
  <2> QED BY <1>1, <2>1, <2>2, GotoType DEF Pass
<1>2. CASE rec.todo # {}
  <2> DEFINE r == [rec EXCEPT !.pc = "pass", !.vol = None]
  <2>1. r \in ThreadType
    BY DEF ThreadType, PCs
  <2>2. RecOK(t, r)
    BY DEF ThreadType, RecOK, InPass, Upserting
  <2> QED BY <1>2, <2>1, <2>2, GotoType DEF Pass
<1> QED BY <1>1, <1>2

\* Starting a pass.
LEMMA StartPassType ==
    ASSUME TypeInv, NEW t \in Threads, NEW rec \in ThreadType, NEW s \in Shares,
           t = "obj" => rec.ev \in ObjEvents,
           t = "node" => rec.cur \in Volumes,
           StartPass(t, rec, s)
    PROVE  ThreadsOK(th')
<1> DEFINE r == [rec EXCEPT !.share = s,
                            !.todo = {v \in volumes : ShareOf[v] = s}]
<1>1. r \in ThreadType
  BY DEF ThreadType, TypeInv, TypeOK
<1>2. r.share \in Shares /\ r.ev = rec.ev /\ r.cur = rec.cur
  BY DEF ThreadType
<1> QED BY <1>1, <1>2, PassType DEF StartPass, TypeInv, TypeOK, ThreadsOK

\* The object worker going on with its callbacks.
LEMMA CallbacksType ==
    ASSUME ThreadsOK(th), NEW rec \in ThreadType, rec.ev \in ObjEvents,
           NEW p \in {"callbacks", "delCallbacks"}, Callbacks(rec, p)
    PROVE  ThreadsOK(th')
<1> DEFINE r == [rec EXCEPT !.pc = p]
<1>1. r \in ThreadType
  BY DEF ThreadType, PCs
<1>2. RecOK("obj", r)
  BY DEF ThreadType, RecOK, InPass, Upserting
<1>3. "obj" \in Threads
  BY DEF Threads
<1> QED BY <1>1, <1>2, <1>3, IdleType, GotoType DEF Callbacks

\* The share worker going on with shareDeleteRanger.
LEMMA DelPassType ==
    ASSUME ThreadsOK(th), NEW todo \in SUBSET Volumes, DelPass(todo)
    PROVE  ThreadsOK(th')
<1> DEFINE p == IF todo = {} THEN "prune" ELSE "delPass"
<1> DEFINE r == [IdleThread EXCEPT !.todo = todo, !.pc = p]
<1>1. "share" \in Threads
  BY DEF Threads
<1>2. IdleThread \in ThreadType
  BY <1>1, IdleType
<1>3. p \in PCs /\ p \in {"prune", "delPass"}
  BY DEF PCs
<1>4. Goto("share", r)
  BY DEF DelPass
<1> HIDE DEF p
<1>5. r \in ThreadType
  BY <1>2, <1>3 DEF ThreadType
<1>6. RecOK("share", r)
  BY <1>2, <1>3 DEF ThreadType, RecOK, InPass, Upserting
<1> QED BY <1>1, <1>4, <1>5, <1>6, GotoType

\* Returning from commonUpsertRanger.
LEMMA UpsertReturnType ==
    ASSUME TypeInv, NEW t \in Threads, Upserting(th[t]), UpsertReturn(t)
    PROVE  ThreadsOK(th')
<1> USE DEF TypeInv, TypeOK
<1> DEFINE r == th[t]
<1>0. ThreadsOK(th) /\ r \in ThreadType /\ RecOK(t, r) /\ r.item \in Items
  BY DEF ThreadsOK, RecOK, Upserting
<1>1. CASE r.uret = "pass"
  <2> DEFINE q == [r EXCEPT !.item = None, !.uret = "idle"]
  <2>1. q \in ThreadType /\ q.share = r.share /\ q.ev = r.ev /\ q.cur = r.cur
    BY <1>0 DEF ThreadType, PCs
  <2>2. r.share \in Shares
    BY <1>0, <1>1 DEF RecOK, InPass
  <2>3. t = "obj" => r.ev \in ObjEvents
    BY <1>0 DEF RecOK, Upserting
  <2>4. t = "node" => r.cur \in Volumes
    BY <1>0 DEF RecOK, Upserting
  <2>5. Pass(t, q)
    BY <1>1 DEF UpsertReturn
  <2> QED BY <1>0, <2>1, <2>2, <2>3, <2>4, <2>5, PassType
<1>2. CASE r.uret = "callbacks"
  <2> DEFINE q == [r EXCEPT !.vol = None, !.item = None, !.uret = "idle"]
  <2>1. q \in ThreadType /\ q.ev = r.ev
    BY <1>0 DEF ThreadType, PCs
  <2>2. r.ev \in ObjEvents
    BY <1>0, <1>2 DEF RecOK, Upserting
  <2>3. Callbacks(q, "callbacks")
    BY <1>2 DEF UpsertReturn
  <2> QED BY <1>0, <2>1, <2>2, <2>3, CallbacksType
<1>3. CASE r.uret = "regDelete"
  <2> DEFINE q == [r EXCEPT !.pc = "regDelete", !.vol = None, !.item = None,
                            !.uret = "idle"]
  <2>1. q \in ThreadType
    BY <1>0 DEF ThreadType, PCs
  <2>2. RecOK(t, q)
    BY <1>0, <1>3 DEF ThreadType, RecOK, InPass, Upserting
  <2>3. Goto(t, q)
    BY <1>3 DEF UpsertReturn
  <2> QED BY <1>0, <2>1, <2>2, <2>3, GotoType
<1>4. CASE r.uret = "regUpsert"
  <2> DEFINE q == [r EXCEPT !.pc = "regUpsert", !.vol = None, !.uret = "idle"]
  <2>1. q \in ThreadType
    BY <1>0 DEF ThreadType, PCs
  <2>2. RecOK(t, q)
    BY <1>0, <1>4 DEF ThreadType, RecOK, InPass, Upserting
  <2>3. Goto(t, q)
    BY <1>4 DEF UpsertReturn
  <2> QED BY <1>0, <2>1, <2>2, <2>3, GotoType
<1> QED BY <1>0, <1>1, <1>2, <1>3, <1>4 DEF RecOK

-----------------------------------------------------------------------------
(* Type correctness, action by action.                                     *)

\* What a lister read returns.
LEMMA ReadTypes ==
    ASSUME TypeInv
    PROVE  /\ \A s \in Shares : GetShared(s) \in Objects \cup {None}
           /\ \A o \in Objects : GetObj(o) \in Data \cup {None}
  BY DEF TypeInv, TypeOK, GetShared, GetObj

\* The cluster's steps leave the driver alone.
LEMMA ClusterType == TypeInv /\ Cluster => TypeInv'
<1> SUFFICES ASSUME TypeInv, Cluster PROVE TypeInv'
  OBVIOUS
<1> USE ConstAssumption DEF TypeInv, TypeOK, Change, infVars, cbVars, nodeVars
<1>1. ASSUME NEW step, NEW s \in Shares, NEW o \in Objects \cup {None},
             SetShare(step, s, o)
      PROVE  TypeInv'
  BY <1>1 DEF SetShare
<1>2. ASSUME NEW step, NEW o \in Objects, NEW d \in Data \cup {None},
             SetObj(step, o, d)
      PROVE  TypeInv'
  BY <1>2 DEF SetObj
<1>3. ASSUME NEW step, NEW a \in SUBSET Volumes, SetAllowed(step, a)
      PROVE  TypeInv'
  BY <1>3 DEF SetAllowed
<1>4. ASSUME NEW v \in Volumes, Grant(v) \/ Revoke(v) PROVE TypeInv'
  BY <1>3, <1>4 DEF Grant, Revoke
<1>5. ASSUME NEW o \in Objects, DeleteObj(o) \/ \E d \in Data : PutObj(o, d)
      PROVE  TypeInv'
  BY <1>2, <1>5 DEF DeleteObj, PutObj
<1>6. ASSUME NEW s \in Shares, NEW o \in Objects,
             DeleteShare(s) \/ CreateShare(s, o) \/ RetargetShare(s, o)
      PROVE  TypeInv'
  BY <1>1, <1>6 DEF DeleteShare, CreateShare, RetargetShare
<1>7. ASSUME NEW s \in Shares, DeleteShare(s) PROVE TypeInv'
  BY <1>1, <1>7 DEF DeleteShare
<1> QED BY <1>4, <1>5, <1>6, <1>7 DEF Cluster

\* Queueing an event, with or without deduplication.
LEMMA EnqueueType ==
    ASSUME NEW S, NEW q \in Seq(S), NEW e \in S
    PROVE  Enqueue(q, e) \in Seq(S) /\ Append(q, e) \in Seq(S)
  BY DEF Enqueue

\* The informers queue well-formed events.
LEMMA InformersType == TypeInv /\ Informers => TypeInv'
<1> SUFFICES ASSUME TypeInv, Informers PROVE TypeInv'
  OBVIOUS
<1> USE ConstAssumption DEF TypeInv, TypeOK
<1>1. ASSUME NEW s \in Shares, SyncShare(s) PROVE TypeInv'
  <2> DEFINE e == IF apiShare[s] = None
                  THEN [share |-> s, ref |-> shareLister[s], verb |-> "del"]
                  ELSE [share |-> s, ref |-> apiShare[s], verb |-> "upd"]
  <2>1. e \in ShareEvents
    BY <1>1 DEF SyncShare, ShareEvents
  <2>2. shareQ' \in Seq(ShareEvents)
    BY <1>1, <2>1, EnqueueType DEF SyncShare
  <2> QED BY <1>1, <2>2 DEF SyncShare, apiVars, cbVars, nodeVars
<1>2. ASSUME NEW s \in Shares, RelistShare(s) PROVE TypeInv'
  <2> DEFINE e == [share |-> s, ref |-> shareLister[s], verb |-> "upd"]
  <2>1. e \in ShareEvents
    BY <1>2 DEF RelistShare, ShareEvents
  <2>2. shareQ' \in Seq(ShareEvents)
    BY <1>2, <2>1, EnqueueType DEF RelistShare
  <2> QED BY <1>2, <2>2 DEF RelistShare, apiVars, cbVars, nodeVars
<1>3. ASSUME NEW o \in Objects, SyncObj(o) PROVE TypeInv'
  <2> DEFINE e == IF apiObj[o] = None
                  THEN [obj |-> o, data |-> objLister[o], verb |-> "del"]
                  ELSE [obj |-> o, data |-> apiObj[o], verb |-> "upd"]
  <2>1. e \in ObjEvents
    BY <1>3 DEF SyncObj, ObjEvents
  <2>2. objQ' \in Seq(ObjEvents)
    BY <1>3, <2>1, EnqueueType DEF SyncObj
  <2> QED BY <1>3, <2>2 DEF SyncObj, apiVars, cbVars, nodeVars
<1>4. ASSUME NEW o \in Objects, ResyncObj(o) PROVE TypeInv'
  <2> DEFINE e == [obj |-> o, data |-> objLister[o], verb |-> "upd"]
  <2>1. e \in ObjEvents
    BY <1>4 DEF ResyncObj, ObjEvents
  <2>2. objQ' \in Seq(ObjEvents)
    BY <1>4, <2>1, EnqueueType DEF ResyncObj
  <2> QED BY <1>4, <2>2 DEF ResyncObj, apiVars, cbVars, nodeVars
<1>5. ASSUME PruneInformers PROVE TypeInv'
  BY <1>5 DEF PruneInformers, apiVars, cbVars, nodeVars
<1> QED BY <1>1, <1>2, <1>3, <1>4, <1>5 DEF Informers

\* What a step of any thread inside shareUpdateRanger or commonUpsertRanger
\* leaves well-typed.
LEMMA RangerType ==
    ASSUME TypeInv, NEW t \in Threads, RangerStep(t)
    PROVE  TypeInv'
<1> USE ConstAssumption DEF TypeInv, TypeOK
<1> DEFINE r == th[t]
<1>0. ThreadsOK(th) /\ r \in ThreadType /\ RecOK(t, r)
  BY DEF ThreadsOK
<1>1. CASE PassVisit(t)
  <2>0. r.pc = "pass" /\ r.share \in Shares /\ r.todo \subseteq Volumes
    BY <1>0, <1>1 DEF PassVisit, RecOK, InPass, ThreadType
  <2>1. PICK v \in r.todo :
           \/ /\ Pass(t, [r EXCEPT !.todo = @ \ {v}])
              /\ UNCHANGED <<changes, authorized>>
           \/ \E ok \in BOOLEAN :
                /\ ExecuteSAR(v, ok)
                /\ authorized' = authorized \cup (IF ok THEN {v} ELSE {})
                /\ Goto(t, [r EXCEPT !.pc = "fetch", !.vol = v, !.sar = ok,
                                     !.todo = @ \ {v}])
    BY <1>1 DEF PassVisit
  <2>2. v \in Volumes
    BY <2>0
  <2>3. ThreadsOK(th')
    <3> DEFINE p == [r EXCEPT !.todo = @ \ {v}]
    <3>1. CASE Pass(t, p)
      <4>1. p \in ThreadType /\ p.share = r.share /\ p.ev = r.ev /\ p.cur = r.cur
        BY <1>0 DEF ThreadType
      <4>2. /\ t = "obj" => r.ev \in ObjEvents
            /\ t = "node" => r.cur \in Volumes
        BY <1>0, <2>0 DEF RecOK
      <4> QED BY <1>0, <2>0, <3>1, <4>1, <4>2, PassType
    <3>2. ASSUME NEW ok \in BOOLEAN,
                 Goto(t, [r EXCEPT !.pc = "fetch", !.vol = v, !.sar = ok,
                                   !.todo = @ \ {v}])
          PROVE  ThreadsOK(th')
      <4> DEFINE q == [r EXCEPT !.pc = "fetch", !.vol = v, !.sar = ok,
                                !.todo = @ \ {v}]
      <4>1. q \in ThreadType
        BY <1>0, <2>2 DEF ThreadType, PCs
      <4>2. RecOK(t, q)
        BY <1>0, <2>0, <2>2 DEF ThreadType, RecOK, InPass, Upserting
      <4> QED BY <1>0, <3>2, <4>1, <4>2, GotoType
    <3> QED BY <2>1, <3>1, <3>2
  <2>4. authorized' \subseteq Volumes
    <3>1. authorized' \subseteq authorized \cup {v}
      BY <2>1
    <3> QED BY <2>2, <3>1
  <2>5. changes' \in Nat
    <3>1. UNCHANGED changes \/ \E ok \in BOOLEAN : ExecuteSAR(v, ok)
      BY <2>1
    <3> QED BY <3>1 DEF ExecuteSAR, Change
  <2> QED BY <1>1, <2>3, <2>4, <2>5
          DEF PassVisit, ThreadsOK, infVars, cbVars, nodeVars
<1>2. CASE PassFetch(t)
  <2> DEFINE o == GetShared(r.share)
  <2>0. r.pc = "fetch" /\ r.share \in Shares /\ r.vol \in Volumes
    BY <1>0, <1>2 DEF PassFetch, RecOK, InPass
  <2>1. ThreadsOK(th')
    <3>1. CASE o = None \/ GetObj(o) = None
      <4> DEFINE q == [r EXCEPT !.sar = FALSE]
      <4>1. q \in ThreadType /\ q.share = r.share /\ q.ev = r.ev /\ q.cur = r.cur
        BY <1>0 DEF ThreadType
      <4>2. /\ t = "obj" => r.ev \in ObjEvents
            /\ t = "node" => r.cur \in Volumes
        BY <1>0, <2>0 DEF RecOK
      <4>3. Pass(t, q)
        BY <1>2, <3>1 DEF PassFetch
      <4> QED BY <1>0, <2>0, <4>1, <4>2, <4>3, PassType
    <3>2. CASE ~(o = None \/ GetObj(o) = None) /\ r.sar
      <4> DEFINE i == [obj |-> o, data |-> GetObj(o)]
                 q == [r EXCEPT !.pc = "filter", !.sar = FALSE, !.item = i,
                                !.uret = "pass"]
      <4>1. i \in Items
        BY <2>0, <3>2, ReadTypes DEF Items
      <4>2. Goto(t, q)
        BY <1>2, <3>2 DEF PassFetch
      <4> HIDE DEF i
      <4>3. q \in ThreadType
        BY <1>0, <4>1 DEF ThreadType, PCs
      <4>4. RecOK(t, q)
        BY <1>0, <2>0, <4>1 DEF ThreadType, RecOK, InPass, Upserting
      <4> QED BY <1>0, <4>2, <4>3, <4>4, GotoType
    <3>3. CASE ~(o = None \/ GetObj(o) = None) /\ ~r.sar
      <4> DEFINE q == [r EXCEPT !.pc = "deny"]
      <4>1. Goto(t, q)
        BY <1>2, <3>3 DEF PassFetch
      <4>2. q \in ThreadType
        BY <1>0 DEF ThreadType, PCs
      <4>3. RecOK(t, q)
        BY <1>0, <2>0 DEF ThreadType, RecOK, InPass, Upserting
      <4> QED BY <1>0, <4>1, <4>2, <4>3, GotoType
    <3> QED BY <3>1, <3>2, <3>3
  <2> QED BY <1>2, <2>1
          DEF PassFetch, ThreadsOK, apiVars, infVars, cbVars, nodeVars
<1>3. CASE PassDeny(t)
  <2>0. r.pc = "deny" /\ r.share \in Shares /\ r.vol \in Volumes
    BY <1>0, <1>3 DEF PassDeny, RecOK, InPass
  <2>1. /\ t = "obj" => r.ev \in ObjEvents
        /\ t = "node" => r.cur \in Volumes
    BY <1>0, <2>0 DEF RecOK
  <2>2. ThreadsOK(th')
    BY <1>0, <1>3, <2>0, <2>1, PassType DEF PassDeny
  <2> QED BY <1>3, <2>2
          DEF PassDeny, ThreadsOK, apiVars, infVars, nodeVars
<1>4. CASE UpsertFilter(t)
  <2>0. r.pc = "filter" /\ Upserting(r)
    BY <1>4 DEF UpsertFilter, Upserting
  <2>1. ThreadsOK(th')
    <3>1. CASE UpsertReturn(t)
      BY <2>0, <3>1, UpsertReturnType
    <3>2. CASE Goto(t, [r EXCEPT !.pc = "write"])
      <4> DEFINE q == [r EXCEPT !.pc = "write"]
      <4>1. q \in ThreadType
        BY <1>0 DEF ThreadType, PCs
      <4>2. RecOK(t, q)
        BY <1>0, <2>0 DEF ThreadType, RecOK, InPass, Upserting
      <4> QED BY <1>0, <3>2, <4>1, <4>2, GotoType
    <3> QED BY <1>4, <3>1, <3>2 DEF UpsertFilter
  <2> QED BY <1>4, <2>1
          DEF UpsertFilter, ThreadsOK, apiVars, infVars, cbVars, nodeVars
<1>5. CASE UpsertWrite(t)
  <2>0. Upserting(r) /\ r.vol \in Volumes /\ r.item \in Items
    BY <1>0, <1>5 DEF UpsertWrite, Upserting, RecOK
  <2>1. ThreadsOK(th')
    BY <1>5, <2>0, UpsertReturnType DEF UpsertWrite
  <2>2. content' \in [Volumes -> Items \cup {None}]
    BY <1>5, <2>0 DEF UpsertWrite, Written
  <2> QED BY <1>5, <2>1, <2>2
          DEF UpsertWrite, ThreadsOK, apiVars, infVars, cbVars, nodeVars
<1> QED BY <1>1, <1>2, <1>3, <1>4, <1>5 DEF RangerStep

\* The share worker.
LEMMA ShareWorkerType == TypeInv /\ ShareWorker => TypeInv'
<1> SUFFICES ASSUME TypeInv, ShareWorker PROVE TypeInv'
  OBVIOUS
<1> USE ConstAssumption DEF TypeInv, TypeOK
<1> DEFINE r == th["share"]
<1>0. "share" \in Threads /\ ThreadsOK(th) /\ r \in ThreadType /\ RecOK("share", r)
  BY DEF ThreadsOK, Threads
<1>1. CASE SyncShared
  <2> DEFINE ev == Head(shareQ)
  <2>0. ev \in ShareEvents /\ shareQ' \in Seq(ShareEvents)
    BY <1>1 DEF SyncShared
  <2>1. CASE /\ RegisterInformer(ev.ref)
             /\ Goto("share", [IdleThread EXCEPT !.pc = "add", !.ev = ev])
    <3> HIDE DEF ev
    <3> DEFINE q == [IdleThread EXCEPT !.pc = "add", !.ev = ev]
    <3>1. q \in ThreadType
      BY <1>0, <2>0, IdleType DEF ThreadType, PCs
    <3>2. RecOK("share", q)
      BY <1>0, <2>0, IdleType DEF ThreadType, RecOK, InPass, Upserting
    <3>3. ThreadsOK(th')
      BY <1>0, <2>1, <3>1, <3>2, GotoType
    <3>4. ev.ref \in Objects
      BY <2>0 DEF ShareEvents
    <3>5. /\ watched' \subseteq Objects
          /\ objLister' \in [Objects -> Data \cup {None}]
      BY <2>1, <3>4 DEF RegisterInformer
    <3>6. objQ' \in Seq(ObjEvents)
      <4> DEFINE e == [obj |-> ev.ref, data |-> apiObj[ev.ref], verb |-> "upd"]
      <4>1. objQ' = objQ \/ (apiObj[ev.ref] # None /\ objQ' = Append(objQ, e))
        BY <2>1 DEF RegisterInformer
      <4>2. apiObj[ev.ref] # None => e \in ObjEvents
        BY <3>4 DEF ObjEvents
      <4>3. objQ \in Seq(ObjEvents)
        OBVIOUS
      <4> HIDE DEF e, TypeInv, TypeOK
      <4>4. CASE objQ' = objQ
        BY <4>3, <4>4
      <4>5. CASE apiObj[ev.ref] # None /\ objQ' = Append(objQ, e)
        <5>1. e \in ObjEvents
          BY <4>2, <4>5
        <5>2. Append(objQ, e) \in Seq(ObjEvents)
          BY <4>3, <5>1, EnqueueType
        <5> QED BY <4>5, <5>2
      <4> QED BY <4>1, <4>4, <4>5
    <3> QED BY <1>1, <2>0, <3>3, <3>5, <3>6
            DEF SyncShared, ThreadsOK, apiVars, cbVars, nodeVars
  <2>2. CASE /\ DelPass(IF shareDeleteCb = {} THEN {}
                        ELSE {v \in volumes : ShareOf[v] = ev.share})
             /\ UNCHANGED <<watched, objLister, objQ>>
    <3>1. ThreadsOK(th')
      BY <1>0, <2>2, DelPassType
    <3> QED BY <1>1, <2>0, <2>2, <3>1
            DEF SyncShared, ThreadsOK, apiVars, cbVars, nodeVars
  <2> QED BY <1>1, <2>1, <2>2 DEF SyncShared
<1>2. CASE AddShared
  <2>0. r.pc = "add" /\ r.ev \in ShareEvents /\ r.ev.share \in Shares
    BY <1>0, <1>2 DEF AddShared, RecOK, ShareEvents
  <2>1. ThreadsOK(th')
    <3>1. CASE StartPass("share", [r EXCEPT !.ev = None], r.ev.share)
      <4>1. [r EXCEPT !.ev = None] \in ThreadType
        BY <1>0 DEF ThreadType
      <4> QED BY <1>0, <2>0, <3>1, <4>1, StartPassType
    <3>2. CASE Goto("share", [IdleThread EXCEPT !.pc = "prune"])
      <4> DEFINE q == [IdleThread EXCEPT !.pc = "prune"]
      <4>1. q \in ThreadType
        BY <1>0, IdleType DEF ThreadType, PCs
      <4>2. RecOK("share", q)
        BY <1>0, IdleType DEF ThreadType, RecOK, InPass, Upserting
      <4> QED BY <1>0, <3>2, <4>1, <4>2, GotoType
    <3> QED BY <1>2, <3>1, <3>2 DEF AddShared
  <2> QED BY <1>2, <2>1
          DEF AddShared, ThreadsOK, apiVars, infVars, cbVars, nodeVars
<1>3. CASE DelSharedVisit
  <2>1. ThreadsOK(th')
    BY <1>0, <1>3, DelPassType DEF DelSharedVisit, ThreadType
  <2>2. content' \in [Volumes -> Items \cup {None}]
    <3>1. PICK v \in r.todo :
             content' = [content EXCEPT ![v] = IF v \in volumes THEN None ELSE @]
      BY <1>3 DEF DelSharedVisit
    <3>2. v \in Volumes
      BY <1>0 DEF ThreadType
    <3> QED BY <3>1, <3>2
  <2> QED BY <1>3, <2>1, <2>2
          DEF DelSharedVisit, ThreadsOK, apiVars, infVars, cbVars, nodeVars
<1>4. CASE SyncSharedPrune
  <2>1. ThreadsOK(th')
    BY <1>0, <1>4, IdleType, GotoType DEF SyncSharedPrune
  <2> QED BY <1>4, <2>1
          DEF SyncSharedPrune, ThreadsOK, apiVars, cbVars, nodeVars
<1> QED BY <1>0, <1>1, <1>2, <1>3, <1>4, RangerType DEF ShareWorker

\* The object worker.
LEMMA ObjWorkerType == TypeInv /\ ObjWorker => TypeInv'
<1> SUFFICES ASSUME TypeInv, ObjWorker PROVE TypeInv'
  OBVIOUS
<1> USE ConstAssumption DEF TypeInv, TypeOK
<1> DEFINE r == th["obj"]
<1>0. "obj" \in Threads /\ ThreadsOK(th) /\ r \in ThreadType /\ RecOK("obj", r)
  BY DEF ThreadsOK, Threads
<1>1. CASE SyncObject
  <2> DEFINE ev == Head(objQ)
  <2>0. ev \in ObjEvents /\ objQ' \in Seq(ObjEvents)
    BY <1>1 DEF SyncObject
  <2>1. ThreadsOK(th')
    <3> DEFINE S == {s \in Shares : ListShared[s] = ev.obj}
    <3>1. CASE Goto("obj", [IdleThread EXCEPT !.pc = "shares", !.ev = ev,
                                              !.shares = S])
      <4>0. S \subseteq Shares
        OBVIOUS
      <4> HIDE DEF ev, S
      <4> DEFINE q == [IdleThread EXCEPT !.pc = "shares", !.ev = ev, !.shares = S]
      <4>1. q \in ThreadType
        BY <1>0, <2>0, <4>0, IdleType DEF ThreadType, PCs
      <4>2. RecOK("obj", q)
        BY <1>0, <2>0, IdleType DEF ThreadType, RecOK, InPass, Upserting
      <4> QED BY <1>0, <3>1, <4>1, <4>2, GotoType
    <3>2. CASE Callbacks([IdleThread EXCEPT !.ev = ev, !.todo = deleteCb],
                         "delCallbacks")
      <4> HIDE DEF ev
      <4> DEFINE q == [IdleThread EXCEPT !.ev = ev, !.todo = deleteCb]
      <4>1. q \in ThreadType /\ q.ev \in ObjEvents
        BY <1>0, <2>0, IdleType DEF ThreadType
      <4> QED BY <1>0, <3>2, <4>1, CallbacksType
    <3> QED BY <1>1, <3>1, <3>2 DEF SyncObject
  <2> QED BY <1>1, <2>0, <2>1
          DEF SyncObject, ThreadsOK, apiVars, cbVars, nodeVars
<1>2. CASE UpsertObjShare
  <2>0. r.pc = "shares" /\ r.ev \in ObjEvents
    BY <1>0, <1>2 DEF UpsertObjShare, RecOK
  <2>1. PICK s \in r.shares : LET rec == [r EXCEPT !.shares = @ \ {s}] IN
            StartPass("obj", rec, s) \/ Goto("obj", rec)
    BY <1>2 DEF UpsertObjShare
  <2> DEFINE q == [r EXCEPT !.shares = @ \ {s}]
  <2>2. s \in Shares /\ q \in ThreadType /\ q.ev = r.ev /\ q.pc = r.pc
    BY <1>0 DEF ThreadType
  <2>3. RecOK("obj", q)
    BY <1>0, <2>0, <2>2 DEF RecOK, InPass, Upserting
  <2>4. ThreadsOK(th')
    BY <1>0, <2>0, <2>1, <2>2, <2>3, StartPassType, GotoType
  <2> QED BY <1>2, <2>4
          DEF UpsertObjShare, ThreadsOK, apiVars, infVars, cbVars, nodeVars
<1>3. CASE UpsertObjShares
  <2>0. r.pc = "shares" /\ r.ev \in ObjEvents
    BY <1>0, <1>3 DEF UpsertObjShares, RecOK
  <2> DEFINE q == [r EXCEPT !.todo = upsertCb]
  <2>1. q \in ThreadType /\ q.ev = r.ev
    BY <1>0 DEF ThreadType
  <2>2. ThreadsOK(th')
    BY <1>0, <1>3, <2>0, <2>1, CallbacksType DEF UpsertObjShares
  <2> QED BY <1>3, <2>2
          DEF UpsertObjShares, ThreadsOK, apiVars, infVars, cbVars, nodeVars
<1>4. CASE UpsertObjCallback
  <2>0. r.pc = "callbacks" /\ r.ev \in ObjEvents
    BY <1>0, <1>4 DEF UpsertObjCallback, RecOK
  <2>1. PICK v \in r.todo : LET rec == [r EXCEPT !.todo = @ \ {v}] IN
            \/ Callbacks(rec, "callbacks")
            \/ Goto("obj", [rec EXCEPT !.pc = "filter", !.vol = v,
                      !.uret = "callbacks",
                      !.item = [obj |-> rec.ev.obj, data |-> rec.ev.data]])
    BY <1>4 DEF UpsertObjCallback
  <2> DEFINE p == [r EXCEPT !.todo = @ \ {v}]
             i == [obj |-> p.ev.obj, data |-> p.ev.data]
             q == [p EXCEPT !.pc = "filter", !.vol = v, !.uret = "callbacks",
                            !.item = i]
  <2>2. v \in Volumes /\ p \in ThreadType /\ p.ev = r.ev
    BY <1>0 DEF ThreadType
  <2>3. i \in Items
    BY <2>0, <2>2 DEF Items, ObjEvents
  <2>4. Callbacks(p, "callbacks") \/ Goto("obj", q)
    BY <2>1
  <2> HIDE DEF p, i
  <2>5. q \in ThreadType
    BY <2>2, <2>3 DEF ThreadType, PCs
  <2>6. RecOK("obj", q)
    BY <2>0, <2>2, <2>3 DEF ThreadType, RecOK, InPass, Upserting
  <2>7. ThreadsOK(th')
    BY <1>0, <2>0, <2>2, <2>4, <2>5, <2>6, CallbacksType, GotoType
  <2> QED BY <1>4, <2>7
          DEF UpsertObjCallback, ThreadsOK, apiVars, infVars, cbVars, nodeVars
<1>5. CASE DelObjCallback
  <2>0. r.pc = "delCallbacks" /\ r.ev \in ObjEvents
    BY <1>0, <1>5 DEF DelObjCallback, RecOK
  <2>1. PICK v \in r.todo :
            /\ Callbacks([r EXCEPT !.todo = @ \ {v}], "delCallbacks")
            /\ \/ content' = [content EXCEPT ![v] = None]
               \/ content' = [content EXCEPT ![v] = content[v]]
    BY <1>5 DEF DelObjCallback
  <2> DEFINE q == [r EXCEPT !.todo = @ \ {v}]
  <2>2. q \in ThreadType /\ q.ev = r.ev
    BY <1>0 DEF ThreadType
  <2>3. ThreadsOK(th')
    BY <1>0, <2>0, <2>1, <2>2, CallbacksType
  <2>4. content' \in [Volumes -> Items \cup {None}]
    <3>1. v \in Volumes
      BY <1>0 DEF ThreadType
    <3> QED BY <2>1, <3>1
  <2> QED BY <1>5, <2>3, <2>4
          DEF DelObjCallback, ThreadsOK, apiVars, infVars, cbVars, nodeVars
<1> QED BY <1>0, <1>1, <1>2, <1>3, <1>4, <1>5, RangerType DEF ObjWorker

\* The node service and the loader.
LEMMA NodeStepType == TypeInv /\ NodeStep => TypeInv'
<1> SUFFICES ASSUME TypeInv, NodeStep PROVE TypeInv'
  OBVIOUS
<1> USE ConstAssumption DEF TypeInv, TypeOK
<1> DEFINE r == th["node"]
           v == r.cur
<1>0. "node" \in Threads /\ ThreadsOK(th) /\ r \in ThreadType /\ RecOK("node", r)
  BY DEF ThreadsOK, Threads
<1>a. r.pc # "idle" => v \in Volumes
  BY <1>0 DEF RecOK
<1>b. ASSUME NEW q \in ThreadType, q.cur = v, v \in Volumes, Goto("node", q),
             q.pc \in {"map", "regDelete", "regShare", "finish"}
      PROVE  ThreadsOK(th')
  BY <1>0, <1>b, GotoType DEF RecOK, InPass, Upserting
<1>c. ASSUME NEW i \in Items, NEW u \in {"regUpsert", "regDelete"}, v \in Volumes,
             Goto("node", [r EXCEPT !.pc = "filter", !.vol = v, !.item = i,
                                    !.uret = u])
      PROVE  ThreadsOK(th')
  <2> DEFINE q == [r EXCEPT !.pc = "filter", !.vol = v, !.item = i, !.uret = u]
  <2>1. q \in ThreadType
    BY <1>0, <1>c DEF ThreadType, PCs
  <2>2. RecOK("node", q)
    BY <1>0, <1>c DEF ThreadType, RecOK, InPass, Upserting
  <2> QED BY <1>0, <1>c, <2>1, <2>2, GotoType
<1>1. CASE PublishMount
  <2>0. v \in Volumes
    BY <1>1, <1>a DEF PublishMount
  <2>1. ThreadsOK(th')
    <3> DEFINE q == [r EXCEPT !.pc = "map"]
    <3>1. q \in ThreadType /\ q.cur = v /\ q.pc = "map"
      BY <1>0 DEF ThreadType, PCs
    <3> HIDE DEF q
    <3>2. Goto("node", IdleThread) \/ Goto("node", q)
      BY <1>1 DEF PublishMount, PublishDone, q
    <3> QED BY <1>0, <1>b, <2>0, <3>1, <3>2, IdleType, GotoType
  <2>2. kubelet' \in [Volumes -> {"pending", "mounted", "gone"}]
    BY <1>1, <2>0 DEF PublishMount, PublishDone
  <2>3. mounted' \subseteq Volumes /\ content' \in [Volumes -> Items \cup {None}]
    BY <1>1, <2>0 DEF PublishMount
  <2> QED BY <1>1, <2>1, <2>2, <2>3
          DEF PublishMount, ThreadsOK, apiVars, infVars, cbVars
<1>2. CASE mapBackingResourceToPod
  <2> DEFINE o == GetShared(ShareOf[v])
             i == [obj |-> o, data |-> GetObj(o)]
  <2>0. v \in Volumes /\ ShareOf[v] \in Shares /\ o \in Objects \cup {None}
    BY <1>2, <1>a, ReadTypes DEF mapBackingResourceToPod
  <2>1. ThreadsOK(th')
    <3>1. CASE Goto("node", [r EXCEPT !.pc = "regShare"])
      <4> DEFINE q == [r EXCEPT !.pc = "regShare"]
      <4>1. q \in ThreadType /\ q.cur = v /\ q.pc = "regShare"
        BY <1>0 DEF ThreadType, PCs
      <4> QED BY <1>b, <2>0, <3>1, <4>1
    <3>2. CASE Goto("node", IdleThread)
      BY <1>0, <3>2, IdleType, GotoType
    <3>3. CASE /\ o # None /\ GetObj(o) # None
               /\ Goto("node", [r EXCEPT !.pc = "filter", !.vol = v, !.item = i,
                                         !.uret = "regUpsert"])
      <4>1. i \in Items
        BY <2>0, <3>3, ReadTypes DEF Items
      <4> HIDE DEF i
      <4> QED BY <1>c, <2>0, <3>3, <4>1
    <3> QED BY <1>2, <3>1, <3>2, <3>3 DEF mapBackingResourceToPod
  <2> QED BY <1>2, <2>1 DEF mapBackingResourceToPod, ThreadsOK, apiVars, infVars,
                            cbVars, nodeVars
<1>3. CASE MapPanic
  BY <1>3, IdleType
  DEF MapPanic, Restart, apiVars, nodeVars, Threads
<1>4. CASE RegisterUpsertCallback
  <2> DEFINE o == r.item.obj
             i == [obj |-> o, data |-> GetObj(o)]
  <2>0. v \in Volumes /\ o \in Objects
    BY <1>0, <1>4, <1>a DEF RegisterUpsertCallback, RecOK, Items
  <2>1. ThreadsOK(th')
    <3>1. CASE Goto("node", [r EXCEPT !.pc = "regDelete", !.item = None])
      <4> DEFINE q == [r EXCEPT !.pc = "regDelete", !.item = None]
      <4>1. q \in ThreadType /\ q.cur = v /\ q.pc = "regDelete"
        BY <1>0 DEF ThreadType, PCs
      <4> QED BY <1>b, <2>0, <3>1, <4>1
    <3>2. CASE /\ GetObj(o) # None
               /\ Goto("node", [r EXCEPT !.pc = "filter", !.vol = v, !.item = i,
                                         !.uret = "regDelete"])
      <4>1. i \in Items
        BY <2>0, <3>2, ReadTypes DEF Items
      <4> HIDE DEF i
      <4> QED BY <1>c, <2>0, <3>2, <4>1
    <3> QED BY <1>4, <3>1, <3>2 DEF RegisterUpsertCallback
  <2>2. upsertCb' \subseteq Volumes
    BY <1>4, <2>0 DEF RegisterUpsertCallback
  <2> QED BY <1>4, <2>1, <2>2
          DEF RegisterUpsertCallback, ThreadsOK, apiVars, infVars, nodeVars
<1>5. CASE RegisterDeleteCallback
  <2>0. v \in Volumes
    BY <1>5, <1>a DEF RegisterDeleteCallback
  <2> DEFINE q == [r EXCEPT !.pc = "regShare"]
  <2>1. q \in ThreadType /\ q.cur = v /\ q.pc = "regShare"
    BY <1>0 DEF ThreadType, PCs
  <2>2. ThreadsOK(th')
    BY <1>5, <1>b, <2>0, <2>1 DEF RegisterDeleteCallback
  <2> QED BY <1>5, <2>0, <2>2
          DEF RegisterDeleteCallback, ThreadsOK, apiVars, infVars, nodeVars
<1>6. CASE RegisterSharedUpdateCallback
  <2>0. v \in Volumes /\ ShareOf[v] \in Shares
    BY <1>6, <1>a DEF RegisterSharedUpdateCallback
  <2>1. ThreadsOK(th')
    <3>1. CASE StartPass("node", r, ShareOf[v])
      BY <1>0, <2>0, <3>1, StartPassType
    <3>2. CASE Goto("node", [r EXCEPT !.pc = "finish"])
      <4> DEFINE q == [r EXCEPT !.pc = "finish"]
      <4>1. q \in ThreadType /\ q.cur = v /\ q.pc = "finish"
        BY <1>0 DEF ThreadType, PCs
      <4> QED BY <1>b, <2>0, <3>2, <4>1
    <3> QED BY <1>6, <3>1, <3>2 DEF RegisterSharedUpdateCallback
  <2> QED BY <1>6, <2>0, <2>1
          DEF RegisterSharedUpdateCallback, ThreadsOK, apiVars, infVars, nodeVars
<1>7. CASE RegisterRangersEnd
  <2>0. v \in Volumes
    BY <1>7, <1>a DEF RegisterRangersEnd
  <2>1. ThreadsOK(th')
    BY <1>0, <1>7, IdleType, GotoType DEF RegisterRangersEnd, PublishDone
  <2>2. /\ kubelet' \in [Volumes -> {"pending", "mounted", "gone"}]
        /\ disk' \subseteq Volumes
        /\ shareDeleteCb' \subseteq Volumes
    BY <1>7, <2>0 DEF RegisterRangersEnd, PublishDone
  <2> QED BY <1>7, <2>1, <2>2
          DEF RegisterRangersEnd, ThreadsOK, apiVars, infVars
<1>8. CASE StartController
  BY <1>8 DEF StartController, apiVars, infVars, cbVars, nodeVars
<1>9. ASSUME NEW w \in Volumes, LoadVol(w) PROVE TypeInv'
  <2> DEFINE q == [IdleThread EXCEPT !.pc = "regShare", !.cur = w]
  <2>1. q \in ThreadType
    BY <1>0, IdleType DEF ThreadType, PCs
  <2>2. RecOK("node", q)
    BY <1>0, IdleType DEF ThreadType, RecOK, InPass, Upserting
  <2>3. ThreadsOK(th')
    BY <1>0, <1>9, <2>1, <2>2, GotoType DEF LoadVol
  <2> QED BY <1>9, <2>3
          DEF LoadVol, ThreadsOK, apiVars, infVars, cbVars, nodeVars
<1> QED BY <1>0, <1>1, <1>2, <1>3, <1>4, <1>5, <1>6, <1>7, <1>8, <1>9, RangerType
        DEF NodeStep

\* The kubelet's calls.
LEMMA KubeletType == TypeInv /\ Kubelet => TypeInv'
<1> SUFFICES ASSUME TypeInv, NEW v \in Volumes,
                    NodePublishVolume(v) \/ NodeUnpublishVolume(v)
             PROVE  TypeInv'
  BY DEF Kubelet
<1> USE ConstAssumption DEF TypeInv, TypeOK
<1>0. "node" \in Threads /\ ThreadsOK(th)
  BY DEF ThreadsOK, Threads
<1>1. CASE NodePublishVolume(v)
  <2> DEFINE q == [IdleThread EXCEPT !.pc = "mount", !.cur = v]
  <2>1. q \in ThreadType
    BY <1>0, IdleType DEF ThreadType, PCs
  <2>2. RecOK("node", q)
    BY <1>0, IdleType DEF ThreadType, RecOK, InPass, Upserting
  <2>3. ThreadsOK(th')
    BY <1>0, <1>1, <2>1, <2>2, GotoType DEF NodePublishVolume
  <2> QED BY <1>1, <2>3
          DEF NodePublishVolume, createVolume, ThreadsOK, apiVars, infVars,
              cbVars, nodeVars
<1>2. CASE NodeUnpublishVolume(v)
  BY <1>2 DEF NodeUnpublishVolume, deleteVolume, apiVars, infVars
<1> QED BY <1>1, <1>2

\* The initial state.
LEMMA InitType == Init => TypeInv
  BY ConstAssumption, IdleType
  DEF Init, TypeInv, TypeOK, Threads, ShareEvents, ObjEvents

\* Every step.
LEMMA NextType == TypeInv /\ [Next]_vars => TypeInv'
<1>1. TypeInv /\ UNCHANGED vars => TypeInv'
  BY DEF TypeInv, TypeOK, vars, apiVars, infVars, cbVars, nodeVars
<1>2. TypeInv /\ Crash => TypeInv'
  BY ConstAssumption, IdleType
  DEF Crash, Change, Restart, TypeInv, TypeOK, nodeVars, Threads
<1> QED BY <1>1, <1>2, ClusterType, InformersType, ShareWorkerType, ObjWorkerType,
           NodeStepType, KubeletType DEF Next

\* Every variable keeps its type, and every thread has the locals its pc needs.
THEOREM TypeInvariant == Spec => []TypeInv
  BY InitType, NextType, PTL DEF Spec

\* In particular TypeOK is an invariant: no event, callback or restart leaves a
\* value of the wrong kind in a queue, a cache, a thread or a volume.
THEOREM TypeCorrect == Spec => []TypeOK
  BY TypeInvariant, PTL DEF TypeInv

-----------------------------------------------------------------------------
(* What a step inside a ranger can do, for the invariants below.           *)

\* The other threads stay where they are.
Others(t) == \A u \in Threads \ {t} : th'[u] = th[u]

\* Goto replaces one thread's record and nothing else.
LEMMA GotoFacts ==
    ASSUME ThreadsOK(th), NEW t \in Threads, NEW rec, Goto(t, rec)
    PROVE  Others(t) /\ th'[t] = rec
  BY DEF ThreadsOK, Goto, Others

\* A pass goes on or returns: it holds no volume and keeps the handler's own.
LEMMA PassFacts ==
    ASSUME ThreadsOK(th), NEW t \in Threads, NEW rec \in ThreadType, Pass(t, rec)
    PROVE  /\ Others(t)
           /\ th'[t].vol = None
           /\ th'[t].cur = rec.cur
           /\ th'[t].pc \in {"pass", PassRet(t)}
<1> DEFINE p == [rec EXCEPT !.pc = PassRet(t), !.share = None, !.vol = None]
           q == [rec EXCEPT !.pc = "pass", !.vol = None]
<1>1. /\ p.vol = None /\ p.cur = rec.cur /\ p.pc = PassRet(t)
      /\ q.vol = None /\ q.cur = rec.cur /\ q.pc = "pass"
  BY DEF ThreadType
<1>2. Goto(t, p) \/ Goto(t, q)
  BY DEF Pass
<1> HIDE DEF p, q
<1> QED BY <1>1, <1>2, GotoFacts

\* The object worker goes on with its callbacks or becomes idle.
LEMMA CallbacksFacts ==
    ASSUME ThreadsOK(th), NEW rec \in ThreadType, NEW p, Callbacks(rec, p)
    PROVE  /\ Others("obj")
           /\ th'["obj"].vol \in {None, rec.vol}
           /\ th'["obj"].cur \in {None, rec.cur}
           /\ th'["obj"].pc \in {"idle", p}
<1>0. "obj" \in Threads
  BY DEF Threads
<1>1. CASE Goto("obj", IdleThread)
  BY <1>0, <1>1, GotoFacts DEF IdleThread
<1>2. CASE Goto("obj", [rec EXCEPT !.pc = p])
  BY <1>0, <1>2, GotoFacts DEF ThreadType
<1> QED BY <1>1, <1>2 DEF Callbacks

\* commonUpsertRanger returns to its caller and drops the volume it worked on.
LEMMA UpsertReturnFacts ==
    ASSUME TypeInv, NEW t \in Threads, Upserting(th[t]), UpsertReturn(t)
    PROVE  /\ Others(t)
           /\ th'[t].vol = None
           /\ th'[t].cur \in {None, th[t].cur}
           /\ th'[t].pc \notin {"filter", "write", "fetch", "deny"}
           /\ t = "node" =>
                /\ th'[t].cur = th[t].cur
                /\ th[t].uret \in {"pass", "regDelete", "regUpsert"}
                /\ IF th[t].uret = "pass" THEN th'[t].pc \in {"pass", "finish"}
                                          ELSE th'[t].pc = th[t].uret
<1> DEFINE r == th[t]
<1>0. ThreadsOK(th) /\ r \in ThreadType /\ RecOK(t, r)
  BY DEF ThreadsOK, TypeInv, TypeOK
<1>1. CASE r.uret = "pass"
  <2> DEFINE q == [r EXCEPT !.item = None, !.uret = "idle"]
  <2>1. q \in ThreadType /\ q.cur = r.cur
    BY <1>0 DEF ThreadType, PCs
  <2>2. Pass(t, q)
    BY <1>1 DEF UpsertReturn
  <2>3. PassRet(t) \in {"prune", "shares", "finish"}
        /\ (t = "node" => PassRet(t) = "finish")
    BY DEF PassRet, Threads
  <2> HIDE DEF q
  <2> QED BY <1>0, <1>1, <2>1, <2>2, <2>3, PassFacts
<1>2. CASE r.uret = "callbacks"
  <2> DEFINE q == [r EXCEPT !.vol = None, !.item = None, !.uret = "idle"]
  <2>1. q \in ThreadType /\ q.cur = r.cur /\ q.vol = None
    BY <1>0 DEF ThreadType, PCs
  <2>2. Callbacks(q, "callbacks")
    BY <1>2 DEF UpsertReturn
  <2>3. t = "obj"
    BY <1>0, <1>2 DEF RecOK
  <2> HIDE DEF q
  <2> QED BY <1>0, <2>1, <2>2, <2>3, CallbacksFacts
<1>3. CASE r.uret = "regDelete"
  <2> DEFINE q == [r EXCEPT !.pc = "regDelete", !.vol = None, !.item = None,
                            !.uret = "idle"]
  <2>1. q.cur = r.cur /\ q.vol = None /\ q.pc = "regDelete"
    BY <1>0 DEF ThreadType
  <2>2. Goto(t, q)
    BY <1>3 DEF UpsertReturn
  <2> HIDE DEF q
  <2> QED BY <1>0, <1>3, <2>1, <2>2, GotoFacts
<1>4. CASE r.uret = "regUpsert"
  <2> DEFINE q == [r EXCEPT !.pc = "regUpsert", !.vol = None, !.uret = "idle"]
  <2>1. q.cur = r.cur /\ q.vol = None /\ q.pc = "regUpsert"
    BY <1>0 DEF ThreadType
  <2>2. Goto(t, q)
    BY <1>4 DEF UpsertReturn
  <2> HIDE DEF q
  <2> QED BY <1>0, <1>4, <2>1, <2>2, GotoFacts
<1> QED BY <1>0, <1>1, <1>2, <1>3, <1>4 DEF RecOK

\* A ranger step, and every step of the two workers, moves one thread, writes only
\* at "write", reaches "write" only through the filter, takes a volume to work on
\* only from the volumes map or the upsert callbacks, and leaves the volumes, the
\* persisted files and the share callbacks alone.
ThreadEffect(t) ==
    /\ Others(t)
    /\ th'[t].cur \in {None, th[t].cur}
    /\ th'[t].vol \in {None, th[t].vol} \cup volumes \cup upsertCb
    /\ th'[t].pc = "write" =>
          /\ th'[t].item = th[t].item /\ th'[t].vol = th[t].vol
          /\ th[t].vol \in Volumes /\ th[t].item \in Items
          /\ GetShared(ShareOf[th[t].vol]) = th[t].item.obj
    /\ t = "node" =>
          /\ th'[t].cur = th[t].cur
          /\ Publishing(th'[t]) => Publishing(th[t])
          /\ InPass(th'[t]) \/ th'[t].pc = "finish" => InPass(th[t])
          /\ th[t].pc # "idle" /\ th'[t].pc # "idle"
    /\ UNCHANGED <<apiShare, shareLister, phase, volumes, shareUpdateCb,
                   shareDeleteCb, mounted, disk, kubelet, refs>>
    /\ upsertCb' \subseteq upsertCb
    /\ authorized \subseteq authorized'
    /\ \A v \in Volumes :
          \/ content'[v] \in {None, content[v]}
          \/ th[t].pc = "write" /\ v = th[t].vol /\ content'[v] = th[t].item

\* Every ranger step has that effect, whichever thread takes it.
LEMMA RangerFacts ==
    ASSUME TypeInv, NEW t \in Threads, RangerStep(t)
    PROVE  ThreadEffect(t)
<1> DEFINE r == th[t]
<1>0. ThreadsOK(th) /\ r \in ThreadType /\ RecOK(t, r)
  BY DEF ThreadsOK, TypeInv, TypeOK
<1>a. PassRet(t) \in {"prune", "shares", "finish"}
  BY DEF PassRet, Threads
<1>b. ASSUME NEW q \in ThreadType, Pass(t, q), q.cur = r.cur, InPass(r)
      PROVE  /\ Others(t) /\ th'[t].cur = r.cur /\ th'[t].vol = None
             /\ th'[t].pc \in {"pass", "prune", "shares", "finish"}
             /\ ~Publishing(th'[t]) /\ r.pc # "idle"
  BY <1>0, <1>a, <1>b, PassFacts DEF Publishing, Upserting, InPass
<1>1. CASE PassVisit(t)
  <2>0. r.pc = "pass"
    BY <1>1 DEF PassVisit
  <2>1. PICK v \in r.todo :
           \/ /\ Pass(t, [r EXCEPT !.todo = @ \ {v}])
              /\ UNCHANGED authorized
           \/ /\ v \in volumes
              /\ \E ok \in BOOLEAN :
                /\ authorized' = authorized \cup (IF ok THEN {v} ELSE {})
                /\ Goto(t, [r EXCEPT !.pc = "fetch", !.vol = v, !.sar = ok,
                                     !.todo = @ \ {v}])
    BY <1>1 DEF PassVisit
  <2>2. CASE Pass(t, [r EXCEPT !.todo = @ \ {v}]) /\ UNCHANGED authorized
    <3> DEFINE q == [r EXCEPT !.todo = @ \ {v}]
    <3>1. q \in ThreadType /\ q.cur = r.cur
      BY <1>0 DEF ThreadType
    <3> HIDE DEF q
    <3>2. Pass(t, q) /\ InPass(r)
      BY <2>0, <2>2 DEF q, InPass
    <3> QED BY <1>1, <1>b, <2>0, <2>2, <3>1, <3>2
            DEF PassVisit, ThreadEffect, cbVars, nodeVars, infVars, InPass
  <2>3. ASSUME v \in volumes, NEW ok \in BOOLEAN,
               authorized' = authorized \cup (IF ok THEN {v} ELSE {}),
               Goto(t, [r EXCEPT !.pc = "fetch", !.vol = v, !.sar = ok,
                                 !.todo = @ \ {v}])
        PROVE  ThreadEffect(t)
    <3> DEFINE q == [r EXCEPT !.pc = "fetch", !.vol = v, !.sar = ok,
                              !.todo = @ \ {v}]
    <3>1. q.pc = "fetch" /\ q.vol = v /\ q.cur = r.cur
      BY <1>0 DEF ThreadType
    <3> HIDE DEF q
    <3>2. Others(t) /\ th'[t] = q
      BY <1>0, <2>3, GotoFacts DEF q
    <3> QED BY <1>1, <2>0, <2>3, <3>1, <3>2 DEF PassVisit, ThreadEffect, cbVars,
               nodeVars, infVars, InPass, Publishing, Upserting
  <2> QED BY <2>1, <2>2, <2>3
<1>2. CASE PassFetch(t)
  <2> DEFINE o == GetShared(r.share)
             i == [obj |-> o, data |-> GetObj(o)]
  <2>0. r.pc = "fetch" /\ InPass(r)
    BY <1>2 DEF PassFetch, InPass
  <2>1. \/ Pass(t, [r EXCEPT !.sar = FALSE])
        \/ Goto(t, [r EXCEPT !.pc = "filter", !.sar = FALSE, !.item = i,
                             !.uret = "pass"])
        \/ Goto(t, [r EXCEPT !.pc = "deny"])
    BY <1>2 DEF PassFetch
  <2> HIDE DEF i
  <2>2. CASE Pass(t, [r EXCEPT !.sar = FALSE])
    <3> DEFINE q == [r EXCEPT !.sar = FALSE]
    <3>1. q \in ThreadType /\ q.cur = r.cur
      BY <1>0 DEF ThreadType
    <3> HIDE DEF q
    <3>2. Pass(t, q)
      BY <2>2 DEF q
    <3> QED BY <1>2, <1>b, <2>0, <3>1, <3>2 DEF PassFetch, ThreadEffect, cbVars,
               nodeVars, infVars, apiVars
  <2>3. CASE Goto(t, [r EXCEPT !.pc = "filter", !.sar = FALSE, !.item = i,
                               !.uret = "pass"])
    <3> DEFINE q == [r EXCEPT !.pc = "filter", !.sar = FALSE, !.item = i,
                              !.uret = "pass"]
    <3>1. q.pc = "filter" /\ q.vol = r.vol /\ q.cur = r.cur /\ q.uret = "pass"
      BY <1>0 DEF ThreadType
    <3> HIDE DEF q
    <3>2. Others(t) /\ th'[t] = q
      BY <1>0, <2>3, GotoFacts DEF q
    <3> QED BY <1>2, <2>0, <3>1, <3>2 DEF PassFetch, ThreadEffect, cbVars,
               nodeVars, infVars, apiVars, Publishing, Upserting
  <2>4. CASE Goto(t, [r EXCEPT !.pc = "deny"])
    <3> DEFINE q == [r EXCEPT !.pc = "deny"]
    <3>1. q.pc = "deny" /\ q.vol = r.vol /\ q.cur = r.cur
      BY <1>0 DEF ThreadType
    <3> HIDE DEF q
    <3>2. Others(t) /\ th'[t] = q
      BY <1>0, <2>4, GotoFacts DEF q
    <3> QED BY <1>2, <2>0, <3>1, <3>2 DEF PassFetch, ThreadEffect, cbVars,
               nodeVars, infVars, apiVars, Publishing, Upserting
  <2> QED BY <2>1, <2>2, <2>3, <2>4
<1>3. CASE PassDeny(t)
  <2>1. InPass(r) /\ Pass(t, r) /\ r.pc # "write"
    BY <1>3 DEF PassDeny, InPass
  <2>2. \A v \in Volumes : content'[v] \in {None, content[v]}
    BY <1>3 DEF PassDeny, TypeInv, TypeOK
  <2> QED BY <1>0, <1>3, <1>b, <2>1, <2>2 DEF PassDeny, ThreadEffect, nodeVars,
             infVars, apiVars
<1>4. CASE UpsertFilter(t)
  <2>0. r.pc = "filter" /\ Upserting(r) /\ r.vol \in Volumes /\ r.item \in Items
    BY <1>0, <1>4 DEF UpsertFilter, Upserting, RecOK
  <2>1. CASE UpsertReturn(t)
    <3>1. /\ Others(t) /\ th'[t].vol = None /\ th'[t].cur \in {None, r.cur}
          /\ th'[t].pc \notin {"filter", "write", "fetch", "deny"}
      BY <2>0, <2>1, UpsertReturnFacts
    <3>2. t = "node" => /\ th'[t].cur = r.cur
                        /\ Publishing(th'[t]) => Publishing(r)
                        /\ InPass(th'[t]) \/ th'[t].pc = "finish" => InPass(r)
                        /\ th'[t].pc # "idle"
      BY <2>0, <2>1, UpsertReturnFacts DEF Publishing, Upserting, InPass
    <3> QED BY <1>4, <2>0, <3>1, <3>2 DEF UpsertFilter, ThreadEffect, cbVars,
               nodeVars, infVars, apiVars
  <2>2. CASE /\ GetShared(ShareOf[r.vol]) = r.item.obj
             /\ Goto(t, [r EXCEPT !.pc = "write"])
    <3> DEFINE q == [r EXCEPT !.pc = "write"]
    <3>1. q.pc = "write" /\ q.vol = r.vol /\ q.cur = r.cur /\ q.item = r.item
          /\ q.uret = r.uret
      BY <1>0 DEF ThreadType
    <3> HIDE DEF q
    <3>2. Others(t) /\ th'[t] = q
      BY <1>0, <2>2, GotoFacts DEF q
    <3> QED BY <1>4, <2>0, <2>2, <3>1, <3>2 DEF UpsertFilter, ThreadEffect, cbVars,
               nodeVars, infVars, apiVars, Publishing, Upserting, InPass
  <2> QED BY <1>4, <2>1, <2>2 DEF UpsertFilter, commonRangerProceedFilter
<1>5. CASE UpsertWrite(t)
  <2>0. r.pc = "write" /\ Upserting(r) /\ r.vol \in Volumes /\ r.item \in Items
    BY <1>0, <1>5 DEF UpsertWrite, Upserting, RecOK
  <2>1. /\ Others(t) /\ th'[t].vol = None /\ th'[t].cur \in {None, r.cur}
        /\ th'[t].pc \notin {"filter", "write", "fetch", "deny"}
    BY <1>5, <2>0, UpsertReturnFacts DEF UpsertWrite
  <2>2. t = "node" => /\ th'[t].cur = r.cur
                      /\ Publishing(th'[t]) => Publishing(r)
                      /\ InPass(th'[t]) \/ th'[t].pc = "finish" => InPass(r)
                      /\ th'[t].pc # "idle"
    BY <1>5, <2>0, UpsertReturnFacts
    DEF UpsertWrite, Publishing, Upserting, InPass
  <2>3. \A v \in Volumes : \/ content'[v] = content[v]
                           \/ v = r.vol /\ content'[v] = r.item
    BY <1>5, <2>0 DEF UpsertWrite, Written, TypeInv, TypeOK
  <2> QED BY <1>5, <2>0, <2>1, <2>2, <2>3 DEF UpsertWrite, ThreadEffect, cbVars,
             nodeVars, infVars, apiVars
<1> QED BY <1>1, <1>2, <1>3, <1>4, <1>5 DEF RangerStep

\* Every step of the share worker has the effect of its thread.
LEMMA ShareWorkerFacts ==
    ASSUME TypeInv, ShareWorker
    PROVE  ThreadEffect("share")
<1> DEFINE r == th["share"]
<1>0. "share" \in Threads /\ ThreadsOK(th) /\ r \in ThreadType
  BY DEF ThreadsOK, TypeInv, TypeOK, Threads
<1>a. ASSUME NEW q, q.vol = None, q.cur \in {None, r.cur}, q.pc # "write",
             Goto("share", q)
      PROVE  /\ Others("share") /\ th'["share"].vol = None
             /\ th'["share"].cur \in {None, r.cur} /\ th'["share"].pc # "write"
  BY <1>0, <1>a, GotoFacts
<1>b. ASSUME NEW S, DelPass(S)
      PROVE  /\ Others("share") /\ th'["share"].vol = None
             /\ th'["share"].cur \in {None, r.cur} /\ th'["share"].pc # "write"
  <2> DEFINE q == [IdleThread EXCEPT !.todo = S,
                        !.pc = IF S = {} THEN "prune" ELSE "delPass"]
  <2>1. q.vol = None /\ q.cur = None /\ q.pc # "write"
    BY DEF IdleThread
  <2>2. Goto("share", q)
    BY <1>b DEF DelPass
  <2> HIDE DEF q
  <2> QED BY <1>a, <2>1, <2>2
<1>1. CASE SyncShared
  <2> DEFINE ev == Head(shareQ)
             q == [IdleThread EXCEPT !.pc = "add", !.ev = ev]
             S == IF shareDeleteCb = {} THEN {}
                  ELSE {v \in volumes : ShareOf[v] = ev.share}
  <2>1. q.vol = None /\ q.cur = None /\ q.pc = "add"
    BY DEF IdleThread
  <2>2. Goto("share", q) \/ DelPass(S)
    BY <1>1 DEF SyncShared
  <2> HIDE DEF q, S
  <2>3. /\ Others("share") /\ th'["share"].vol = None
        /\ th'["share"].cur \in {None, r.cur} /\ th'["share"].pc # "write"
    BY <1>a, <1>b, <2>1, <2>2
  <2> QED BY <1>1, <2>3 DEF SyncShared, ThreadEffect, cbVars, nodeVars, apiVars
<1>2. CASE AddShared
  <2> DEFINE p == [IdleThread EXCEPT !.pc = "prune"]
             q == [[r EXCEPT !.ev = None] EXCEPT !.share = r.ev.share,
                      !.todo = {v \in volumes : ShareOf[v] = r.ev.share}]
  <2>1. p.vol = None /\ p.cur = None /\ p.pc = "prune"
    BY DEF IdleThread
  <2>2. r.ev \in ShareEvents
    BY <1>0, <1>2 DEF AddShared, RecOK, TypeInv
  <2>3. q \in ThreadType /\ q.cur = r.cur
    BY <1>0, <2>2 DEF ThreadType, ShareEvents, TypeInv, TypeOK
  <2>4. Goto("share", p) \/ Pass("share", q)
    BY <1>2 DEF AddShared, StartPass
  <2>5. PassRet("share") = "prune"
    BY DEF PassRet
  <2> HIDE DEF p, q
  <2>6. /\ Others("share") /\ th'["share"].vol = None
        /\ th'["share"].cur \in {None, r.cur} /\ th'["share"].pc # "write"
    BY <1>0, <1>a, <2>1, <2>3, <2>4, <2>5, PassFacts
  <2> QED BY <1>2, <2>6 DEF AddShared, ThreadEffect, cbVars, nodeVars, apiVars,
             infVars
<1>3. CASE DelSharedVisit
  <2>1. /\ Others("share") /\ th'["share"].vol = None
        /\ th'["share"].cur \in {None, r.cur} /\ th'["share"].pc # "write"
    BY <1>3, <1>b DEF DelSharedVisit
  <2>2. \A v \in Volumes : content'[v] \in {None, content[v]}
    BY <1>3 DEF DelSharedVisit, TypeInv, TypeOK
  <2> QED BY <1>3, <2>1, <2>2 DEF DelSharedVisit, ThreadEffect, cbVars, nodeVars,
             apiVars, infVars
<1>4. CASE SyncSharedPrune
  <2>1. IdleThread.vol = None /\ IdleThread.cur = None /\ IdleThread.pc = "idle"
    BY DEF IdleThread
  <2>2. /\ Others("share") /\ th'["share"].vol = None
        /\ th'["share"].cur \in {None, r.cur} /\ th'["share"].pc # "write"
    BY <1>4, <1>a, <2>1 DEF SyncSharedPrune
  <2> QED BY <1>4, <2>2 DEF SyncSharedPrune, ThreadEffect, cbVars, nodeVars, apiVars
<1> QED BY <1>0, <1>1, <1>2, <1>3, <1>4, RangerFacts DEF ShareWorker

\* Every step of the object worker has the effect of its thread.
LEMMA ObjWorkerFacts ==
    ASSUME TypeInv, ObjWorker
    PROVE  ThreadEffect("obj")
<1> DEFINE r == th["obj"]
<1>0. "obj" \in Threads /\ ThreadsOK(th) /\ r \in ThreadType
  BY DEF ThreadsOK, TypeInv, TypeOK, Threads
<1>i. /\ IdleThread.vol = None /\ IdleThread.cur = None /\ IdleThread.pc = "idle"
      /\ IdleThread \in ThreadType
  BY <1>0, IdleType DEF IdleThread
<1>a. ASSUME NEW q, q.vol \in {None, r.vol} \cup upsertCb,
             q.cur \in {None, r.cur}, q.pc # "write", Goto("obj", q)
      PROVE  /\ Others("obj") /\ th'["obj"].vol \in {None, r.vol} \cup upsertCb
             /\ th'["obj"].cur \in {None, r.cur} /\ th'["obj"].pc # "write"
  BY <1>0, <1>a, GotoFacts
<1>b. ASSUME NEW q \in ThreadType, q.vol \in {None, r.vol}, q.cur \in {None, r.cur},
             NEW p, p # "write", Callbacks(q, p)
      PROVE  /\ Others("obj") /\ th'["obj"].vol \in {None, r.vol} \cup upsertCb
             /\ th'["obj"].cur \in {None, r.cur} /\ th'["obj"].pc # "write"
  BY <1>0, <1>b, CallbacksFacts
<1>1. CASE SyncObject
  <2> DEFINE ev == Head(objQ)
             q == [IdleThread EXCEPT !.pc = "shares", !.ev = ev,
                     !.shares = {s \in Shares : ListShared[s] = ev.obj}]
             p == [IdleThread EXCEPT !.ev = ev, !.todo = deleteCb]
  <2>0. ev \in ObjEvents
    BY <1>1 DEF SyncObject, TypeInv, TypeOK
  <2>1. q.vol = None /\ q.cur = None /\ q.pc = "shares"
    BY DEF IdleThread
  <2>2. p.vol = None /\ p.cur = None
    BY DEF IdleThread
  <2>3. Goto("obj", q) \/ Callbacks(p, "delCallbacks")
    BY <1>1 DEF SyncObject
  <2>4. p \in ThreadType
    <3> HIDE DEF ev
    <3> QED BY <1>i, <2>0 DEF ThreadType, TypeInv, TypeOK
  <2> HIDE DEF p, q
  <2>5. /\ Others("obj") /\ th'["obj"].vol \in {None, r.vol} \cup upsertCb
        /\ th'["obj"].cur \in {None, r.cur} /\ th'["obj"].pc # "write"
    BY <1>a, <1>b, <2>1, <2>2, <2>3, <2>4
  <2> QED BY <1>1, <2>5 DEF SyncObject, ThreadEffect, cbVars, nodeVars, apiVars
<1>2. CASE UpsertObjShare
  <2>1. PICK s \in r.shares : LET rec == [r EXCEPT !.shares = @ \ {s}] IN
            StartPass("obj", rec, s) \/ Goto("obj", rec)
    BY <1>2 DEF UpsertObjShare
  <2> DEFINE p == [r EXCEPT !.shares = @ \ {s}]
             q == [p EXCEPT !.share = s, !.todo = {v \in volumes : ShareOf[v] = s}]
  <2>2. s \in Shares /\ p \in ThreadType /\ p.vol = r.vol /\ p.cur = r.cur
        /\ p.pc = r.pc
    BY <1>0 DEF ThreadType
  <2>3. r.pc = "shares"
    BY <1>2 DEF UpsertObjShare
  <2>4. Goto("obj", p) \/ Pass("obj", q)
    BY <2>1 DEF StartPass
  <2> HIDE DEF p
  <2>5. q \in ThreadType /\ q.cur = r.cur
    BY <2>2 DEF ThreadType, TypeInv, TypeOK
  <2>6. PassRet("obj") = "shares"
    BY DEF PassRet
  <2> HIDE DEF q
  <2>7. /\ Others("obj") /\ th'["obj"].vol \in {None, r.vol} \cup upsertCb
        /\ th'["obj"].cur \in {None, r.cur} /\ th'["obj"].pc # "write"
    BY <1>0, <1>a, <2>2, <2>3, <2>4, <2>5, <2>6, PassFacts
  <2> QED BY <1>2, <2>7 DEF UpsertObjShare, ThreadEffect, cbVars, nodeVars, apiVars,
             infVars
<1>3. CASE UpsertObjShares
  <2> DEFINE q == [r EXCEPT !.todo = upsertCb]
  <2>1. q \in ThreadType /\ q.vol = r.vol /\ q.cur = r.cur
    BY <1>0 DEF ThreadType, TypeInv, TypeOK
  <2>2. Callbacks(q, "callbacks")
    BY <1>3 DEF UpsertObjShares
  <2> HIDE DEF q
  <2>3. /\ Others("obj") /\ th'["obj"].vol \in {None, r.vol} \cup upsertCb
        /\ th'["obj"].cur \in {None, r.cur} /\ th'["obj"].pc # "write"
    BY <1>b, <2>1, <2>2
  <2> QED BY <1>3, <2>3 DEF UpsertObjShares, ThreadEffect, cbVars, nodeVars, apiVars,
             infVars
<1>4. CASE UpsertObjCallback
  <2>1. PICK v \in r.todo : LET rec == [r EXCEPT !.todo = @ \ {v}] IN
            \/ Callbacks(rec, "callbacks")
            \/ /\ v \in upsertCb
               /\ Goto("obj", [rec EXCEPT !.pc = "filter", !.vol = v,
                      !.uret = "callbacks",
                      !.item = [obj |-> rec.ev.obj, data |-> rec.ev.data]])
    BY <1>4 DEF UpsertObjCallback
  <2> DEFINE p == [r EXCEPT !.todo = @ \ {v}]
             q == [p EXCEPT !.pc = "filter", !.vol = v, !.uret = "callbacks",
                      !.item = [obj |-> p.ev.obj, data |-> p.ev.data]]
  <2>2. p \in ThreadType /\ p.vol = r.vol /\ p.cur = r.cur
    BY <1>0 DEF ThreadType
  <2>3. q.vol = v /\ q.cur = r.cur /\ q.pc = "filter"
    BY <1>0 DEF ThreadType
  <2>4. Callbacks(p, "callbacks") \/ (v \in upsertCb /\ Goto("obj", q))
    BY <2>1
  <2> HIDE DEF p, q
  <2>5. /\ Others("obj") /\ th'["obj"].vol \in {None, r.vol} \cup upsertCb
        /\ th'["obj"].cur \in {None, r.cur} /\ th'["obj"].pc # "write"
    BY <1>a, <1>b, <2>2, <2>3, <2>4
  <2> QED BY <1>4, <2>5 DEF UpsertObjCallback, ThreadEffect, cbVars, nodeVars,
             apiVars, infVars
<1>5. CASE DelObjCallback
  <2>1. PICK v \in r.todo : Callbacks([r EXCEPT !.todo = @ \ {v}], "delCallbacks")
    BY <1>5 DEF DelObjCallback
  <2> DEFINE q == [r EXCEPT !.todo = @ \ {v}]
  <2>2. q \in ThreadType /\ q.vol = r.vol /\ q.cur = r.cur
    BY <1>0 DEF ThreadType
  <2> HIDE DEF q
  <2>3. Callbacks(q, "delCallbacks")
    BY <2>1 DEF q
  <2>4. /\ Others("obj") /\ th'["obj"].vol \in {None, r.vol} \cup upsertCb
        /\ th'["obj"].cur \in {None, r.cur} /\ th'["obj"].pc # "write"
    BY <1>b, <2>2, <2>3
  <2>5. \A w \in Volumes : content'[w] \in {None, content[w]}
    BY <1>5 DEF DelObjCallback, TypeInv, TypeOK
  <2> QED BY <1>5, <2>4, <2>5 DEF DelObjCallback, ThreadEffect, cbVars, nodeVars,
             apiVars, infVars
<1> QED BY <1>0, <1>1, <1>2, <1>3, <1>4, <1>5, RangerFacts DEF ObjWorker

\* What the cluster and the informers change: references only grow, and a cached
\* share is one the API server has or had.
QuietEffect ==
    /\ UNCHANGED <<th, phase, volumes, cbVars, nodeVars, content, authorized>>
    /\ \A s \in Shares : /\ refs[s] \subseteq refs'[s]
                         /\ apiShare'[s] \in {None, apiShare[s]} \cup refs'[s]
                         /\ shareLister'[s] \in {shareLister[s], apiShare[s]}

\* Users and informers have only that effect.
LEMMA QuietFacts ==
    ASSUME TypeInv, Cluster \/ Informers
    PROVE  QuietEffect
<1> USE DEF TypeInv, TypeOK, QuietEffect
<1>1. ASSUME NEW step, NEW s \in Shares, NEW o \in Objects \cup {None},
             SetShare(step, s, o)
      PROVE  QuietEffect
  BY <1>1 DEF SetShare, infVars
<1>2. ASSUME NEW step, NEW o \in Objects, NEW d, SetObj(step, o, d)
      PROVE  QuietEffect
  BY <1>2 DEF SetObj, infVars
<1>3. ASSUME NEW step, NEW a, SetAllowed(step, a)
      PROVE  QuietEffect
  BY <1>3 DEF SetAllowed, infVars
<1>4. CASE Cluster
  BY <1>1, <1>2, <1>3, <1>4
  DEF Cluster, DeleteShare, CreateShare, RetargetShare, DeleteObj, PutObj, Grant,
      Revoke
<1>5. ASSUME NEW s \in Shares, SyncShare(s) PROVE QuietEffect
  BY <1>5 DEF SyncShare, apiVars
<1>6. ASSUME NEW s \in Shares, RelistShare(s) PROVE QuietEffect
  BY <1>6 DEF RelistShare, apiVars
<1>7. ASSUME NEW o \in Objects, SyncObj(o) \/ ResyncObj(o) PROVE QuietEffect
  BY <1>7 DEF SyncObj, ResyncObj, apiVars
<1>8. CASE PruneInformers
  BY <1>8 DEF PruneInformers, apiVars
<1> QED BY <1>4, <1>5, <1>6, <1>7, <1>8 DEF Informers

\* What the process loses when it dies, and what survives on the node.
RestartEffect ==
    /\ Restart
    /\ UNCHANGED <<apiShare, nodeVars, content, authorized, refs>>

\* A crash and a panic have that effect.
LEMMA RestartFacts ==
    ASSUME Crash \/ MapPanic
    PROVE  RestartEffect
  BY DEF Crash, MapPanic, RestartEffect, apiVars

\* The steps of a gRPC handler or of the start-up outside a ranger.
HandlerStep ==
    \/ PublishMount \/ mapBackingResourceToPod \/ RegisterUpsertCallback
    \/ RegisterDeleteCallback \/ RegisterSharedUpdateCallback
    \/ RegisterRangersEnd \/ StartController
    \/ \E v \in Volumes : LoadVol(v)
    \/ Kubelet

\* Such a step works on the volume of its request: only that volume can become
\* persisted or get an upsert callback, and it is new to the process only if it
\* was persisted or has just been authorized.  No content is written here.
HandlerEffect ==
    LET c == th["node"].cur
        d == th'["node"].cur IN
    /\ Others("node")
    /\ th'["node"].vol \in {None, th["node"].vol, c}
    /\ d \in {None, c} \cup disk \cup authorized'
    /\ th'["node"].pc # "write"
    /\ UNCHANGED <<apiShare, shareLister, refs>>
    /\ authorized \subseteq authorized'
    /\ volumes' \subseteq volumes \cup ({d} \ {None})
    /\ disk' \subseteq disk \cup ({c} \ {None})
    /\ upsertCb' \subseteq upsertCb \cup ({c} \ {None})
    /\ \A v \in Volumes : content'[v] \in {None, content[v]}

\* Every such step has only that effect.
LEMMA HandlerFacts ==
    ASSUME TypeInv, HandlerStep
    PROVE  HandlerEffect
<1> DEFINE r == th["node"]
           c == r.cur
<1>0. "node" \in Threads /\ ThreadsOK(th) /\ r \in ThreadType /\ RecOK("node", r)
  BY DEF ThreadsOK, TypeInv, TypeOK, Threads
<1>i. IdleThread.vol = None /\ IdleThread.cur = None /\ IdleThread.pc = "idle"
  BY DEF IdleThread
<1>a. ASSUME NEW q, Goto("node", q) PROVE Others("node") /\ th'["node"] = q
  BY <1>0, <1>a, GotoFacts
<1>b. r.pc # "idle" => c \in Volumes /\ c # None
  BY <1>0, ConstAssumption DEF RecOK
<1>1. CASE PublishMount
  <2> DEFINE q == [r EXCEPT !.pc = "map"]
  <2>1. q.vol = r.vol /\ q.cur = c /\ q.pc = "map"
    BY <1>0 DEF ThreadType
  <2>2. Goto("node", IdleThread) \/ Goto("node", q)
    BY <1>1 DEF PublishMount, PublishDone
  <2> HIDE DEF q
  <2>3. /\ Others("node") /\ th'["node"].vol \in {None, r.vol}
        /\ th'["node"].cur \in {None, c} /\ th'["node"].pc # "write"
    BY <1>a, <1>i, <2>1, <2>2
  <2>4. \A v \in Volumes : content'[v] \in {None, content[v]}
    BY <1>1 DEF PublishMount, TypeInv, TypeOK
  <2> QED BY <1>1, <2>3, <2>4
          DEF PublishMount, HandlerEffect, apiVars, infVars, cbVars
<1>2. CASE mapBackingResourceToPod
  <2> DEFINE o == GetShared(ShareOf[c])
             i == [obj |-> o, data |-> GetObj(o)]
             p == [r EXCEPT !.pc = "regShare"]
             q == [r EXCEPT !.pc = "filter", !.vol = c, !.item = i,
                            !.uret = "regUpsert"]
  <2>1. /\ p.vol = r.vol /\ p.cur = c /\ p.pc = "regShare"
        /\ q.vol = c /\ q.cur = c /\ q.pc = "filter"
    BY <1>0 DEF ThreadType
  <2>2. Goto("node", IdleThread) \/ Goto("node", p) \/ Goto("node", q)
    BY <1>2 DEF mapBackingResourceToPod
  <2> HIDE DEF p, q
  <2>3. /\ Others("node") /\ th'["node"].vol \in {None, r.vol, c}
        /\ th'["node"].cur \in {None, c} /\ th'["node"].pc # "write"
    BY <1>a, <1>i, <2>1, <2>2
  <2> QED BY <1>2, <2>3 DEF mapBackingResourceToPod, HandlerEffect, apiVars,
             infVars, cbVars, nodeVars
<1>3. CASE RegisterUpsertCallback
  <2> DEFINE o == r.item.obj
             i == [obj |-> o, data |-> GetObj(o)]
             p == [r EXCEPT !.pc = "regDelete", !.item = None]
             q == [r EXCEPT !.pc = "filter", !.vol = c, !.item = i,
                            !.uret = "regDelete"]
  <2>1. /\ p.vol = r.vol /\ p.cur = c /\ p.pc = "regDelete"
        /\ q.vol = c /\ q.cur = c /\ q.pc = "filter"
    BY <1>0 DEF ThreadType
  <2>2. Goto("node", p) \/ Goto("node", q)
    BY <1>3 DEF RegisterUpsertCallback
  <2> HIDE DEF p, q
  <2>3. /\ Others("node") /\ th'["node"].vol \in {None, r.vol, c}
        /\ th'["node"].cur \in {None, c} /\ th'["node"].pc # "write"
    BY <1>a, <2>1, <2>2
  <2>4. upsertCb' \subseteq upsertCb \cup ({c} \ {None})
    BY <1>3, <1>b DEF RegisterUpsertCallback
  <2> QED BY <1>3, <2>3, <2>4
          DEF RegisterUpsertCallback, HandlerEffect, apiVars, infVars, nodeVars
<1>4. CASE RegisterDeleteCallback
  <2> DEFINE q == [r EXCEPT !.pc = "regShare"]
  <2>1. q.vol = r.vol /\ q.cur = c /\ q.pc = "regShare"
    BY <1>0 DEF ThreadType
  <2>2. Goto("node", q)
    BY <1>4 DEF RegisterDeleteCallback
  <2> HIDE DEF q
  <2>3. /\ Others("node") /\ th'["node"].vol \in {None, r.vol}
        /\ th'["node"].cur \in {None, c} /\ th'["node"].pc # "write"
    BY <1>a, <2>1, <2>2
  <2> QED BY <1>4, <2>3
          DEF RegisterDeleteCallback, HandlerEffect, apiVars, infVars, nodeVars
<1>5. CASE RegisterSharedUpdateCallback
  <2> DEFINE S == {v \in volumes : ShareOf[v] = ShareOf[c]}
             p == [r EXCEPT !.share = ShareOf[c], !.todo = S]
             q == [r EXCEPT !.pc = "finish"]
  <2>0. c \in Volumes /\ ShareOf[c] \in Shares
    BY <1>5, <1>b, ConstAssumption DEF RegisterSharedUpdateCallback
  <2>1. q.vol = r.vol /\ q.cur = c /\ q.pc = "finish"
    BY <1>0 DEF ThreadType
  <2>2. p \in ThreadType /\ p.cur = c
    BY <1>0, <2>0 DEF ThreadType, TypeInv, TypeOK
  <2>3. Goto("node", q) \/ Pass("node", p)
    BY <1>5 DEF RegisterSharedUpdateCallback, StartPass
  <2>4. PassRet("node") = "finish"
    BY DEF PassRet
  <2> HIDE DEF p, q
  <2>5. /\ Others("node") /\ th'["node"].vol \in {None, r.vol}
        /\ th'["node"].cur \in {None, c} /\ th'["node"].pc # "write"
    BY <1>0, <1>a, <2>1, <2>2, <2>3, <2>4, PassFacts
  <2> QED BY <1>5, <2>5
          DEF RegisterSharedUpdateCallback, HandlerEffect, apiVars, infVars,
              nodeVars
<1>6. CASE RegisterRangersEnd
  <2>1. /\ Others("node") /\ th'["node"].vol = None
        /\ th'["node"].cur = None /\ th'["node"].pc = "idle"
    BY <1>6, <1>a, <1>i DEF RegisterRangersEnd, PublishDone
  <2>2. disk' \subseteq disk \cup ({c} \ {None})
    BY <1>6, <1>b DEF RegisterRangersEnd
  <2> QED BY <1>6, <2>1, <2>2
          DEF RegisterRangersEnd, HandlerEffect, apiVars, infVars
<1>7. CASE StartController
  BY <1>7 DEF StartController, HandlerEffect, Others, apiVars, infVars, cbVars,
          nodeVars
<1>8. ASSUME NEW v \in Volumes, LoadVol(v) PROVE HandlerEffect
  <2> DEFINE q == [IdleThread EXCEPT !.pc = "regShare", !.cur = v]
  <2>1. q.vol = None /\ q.cur = v /\ q.pc = "regShare"
    BY DEF IdleThread
  <2>2. Goto("node", q)
    BY <1>8 DEF LoadVol
  <2> HIDE DEF q
  <2>3. /\ Others("node") /\ th'["node"].vol = None
        /\ th'["node"].cur = v /\ th'["node"].pc # "write"
    BY <1>a, <2>1, <2>2
  <2> QED BY <1>8, <2>3, ConstAssumption
          DEF LoadVol, HandlerEffect, apiVars, infVars, cbVars, nodeVars
<1>9. ASSUME NEW v \in Volumes, NodePublishVolume(v) PROVE HandlerEffect
  <2> DEFINE q == [IdleThread EXCEPT !.pc = "mount", !.cur = v]
  <2>1. q.vol = None /\ q.cur = v /\ q.pc = "mount"
    BY DEF IdleThread
  <2>2. Goto("node", q)
    BY <1>9 DEF NodePublishVolume
  <2> HIDE DEF q
  <2>3. /\ Others("node") /\ th'["node"].vol = None
        /\ th'["node"].cur = v /\ th'["node"].pc # "write"
    BY <1>a, <2>1, <2>2
  <2> QED BY <1>9, <2>3, ConstAssumption
          DEF NodePublishVolume, createVolume, HandlerEffect, apiVars, infVars,
              cbVars, nodeVars
<1>10. ASSUME NEW v \in Volumes, NodeUnpublishVolume(v) PROVE HandlerEffect
  BY <1>10 DEF NodeUnpublishVolume, deleteVolume, HandlerEffect, Others, apiVars,
           infVars, TypeInv, TypeOK
<1> QED BY <1>1, <1>2, <1>3, <1>4, <1>5, <1>6, <1>7, <1>8, <1>9, <1>10
        DEF HandlerStep, Kubelet

\* The effects cover every step of the specification.
LEMMA Effects ==
    ASSUME TypeInv, Next
    PROVE  \/ QuietEffect \/ RestartEffect
           \/ HandlerStep /\ HandlerEffect
           \/ \E t \in Threads : ThreadEffect(t)
<1>1. {"share", "obj", "node"} \subseteq Threads
  BY DEF Threads
<1>2. NodeStep => HandlerStep \/ MapPanic \/ RangerStep("node")
  BY DEF NodeStep, HandlerStep
<1>3. Kubelet => HandlerStep
  BY DEF HandlerStep
<1> QED BY <1>1, <1>2, <1>3, QuietFacts, RestartFacts, HandlerFacts, RangerFacts,
           ShareWorkerFacts, ObjWorkerFacts DEF Next

-----------------------------------------------------------------------------
(* Only authorized volumes hold content.                                   *)

\* Every step keeps the chain from a SubjectAccessReview to a write.
LEMMA AuthStep == TypeInv /\ AuthInv /\ [Next]_vars => AuthInv'
<1> SUFFICES ASSUME TypeInv, AuthInv, [Next]_vars PROVE AuthInv'
  OBVIOUS
<1> USE DEF AuthInv, OnlyAuthorized
<1>1. CASE UNCHANGED vars
  BY <1>1 DEF vars, cbVars, nodeVars
<1>2. CASE QuietEffect
  BY <1>2 DEF QuietEffect, cbVars, nodeVars
<1>3. CASE RestartEffect
  <2>1. \A t \in Threads : th'[t].vol = None /\ th'[t].cur = None
    BY <1>3 DEF RestartEffect, Restart, IdleThread
  <2> QED BY <1>3, <2>1 DEF RestartEffect, Restart, nodeVars
<1>4. CASE HandlerEffect
  <2>0. "node" \in Threads
    BY DEF Threads
  <2>1. OnlyAuthorized'
    BY <1>4 DEF HandlerEffect
  <2>2. th["node"].cur # None => th["node"].cur \in authorized'
    BY <1>4, <2>0 DEF HandlerEffect
  <2>3. th'["node"].cur # None => th'["node"].cur \in authorized'
    BY <1>4, <2>2 DEF HandlerEffect
  <2>4. (volumes \cup disk \cup upsertCb \subseteq authorized)'
    BY <1>4, <2>2, <2>3 DEF HandlerEffect
  <2>5. th'["node"].vol # None => th'["node"].vol \in authorized'
    BY <1>4, <2>0, <2>2 DEF HandlerEffect
  <2> QED BY <1>4, <2>1, <2>3, <2>4, <2>5 DEF HandlerEffect, Others
<1>5. ASSUME NEW t \in Threads, ThreadEffect(t) PROVE AuthInv'
  <2>1. th[t].pc = "write" => th[t].vol # None
    BY ConstAssumption DEF TypeInv, RecOK
  <2>2. OnlyAuthorized'
    BY <1>5, <2>1 DEF ThreadEffect
  <2>3. \A u \in Threads : /\ th'[u].vol # None => th'[u].vol \in authorized'
                           /\ th'[u].cur # None => th'[u].cur \in authorized'
    BY <1>5 DEF ThreadEffect, Others
  <2> QED BY <1>5, <2>2, <2>3 DEF ThreadEffect
<1> QED BY <1>1, <1>2, <1>3, <1>4, <1>5, Effects

\* No content ever reaches a volume whose pod no SubjectAccessReview allowed, for
\* any number of volumes, shares, objects and changes and across restarts.
THEOREM OnlyAuthorizedHolds == Spec => []OnlyAuthorized
<1>1. Init => AuthInv
  BY DEF Init, AuthInv, OnlyAuthorized, IdleThread
<1>2. AuthInv => OnlyAuthorized
  BY DEF AuthInv
<1> QED BY <1>1, <1>2, AuthStep, TypeInvariant, PTL DEF Spec

-----------------------------------------------------------------------------
(* Content comes from an object the volume's own share referenced.         *)

\* Every step keeps the chain from a reference of a share to a write.
LEMMA ProvStep == TypeInv /\ ProvInv /\ [Next]_vars => ProvInv'
<1> SUFFICES ASSUME TypeInv, ProvInv, [Next]_vars PROVE ProvInv'
  OBVIOUS
<1> USE ConstAssumption DEF ProvInv, Provenance
<1>0. \A t \in Threads : th[t].pc = "write" => /\ th[t].vol \in Volumes
                                               /\ ShareOf[th[t].vol] \in Shares
                                               /\ th[t].item \in Items
  BY DEF TypeInv, RecOK
<1>1. CASE UNCHANGED vars
  BY <1>1 DEF vars, apiVars, infVars
<1>2. CASE QuietEffect
  <2>1. Provenance'
    BY <1>2 DEF QuietEffect
  <2>2. \A s \in Shares : /\ apiShare'[s] # None => apiShare'[s] \in refs'[s]
                          /\ shareLister'[s] # None => shareLister'[s] \in refs'[s]
    BY <1>2 DEF QuietEffect
  <2>3. \A t \in Threads :
           th'[t].pc = "write" => th'[t].item.obj \in refs'[ShareOf[th'[t].vol]]
    BY <1>0, <1>2 DEF QuietEffect
  <2> QED BY <2>1, <2>2, <2>3
<1>3. CASE RestartEffect
  <2>1. \A t \in Threads : th'[t].pc = "idle"
    BY <1>3 DEF RestartEffect, Restart, IdleThread
  <2>2. \A s \in Shares : shareLister'[s] = None
    BY <1>3 DEF RestartEffect, Restart
  <2> QED BY <1>3, <2>1, <2>2 DEF RestartEffect
<1>4. CASE HandlerEffect
  BY <1>4 DEF HandlerEffect, Others
<1>5. ASSUME NEW t \in Threads, ThreadEffect(t) PROVE ProvInv'
  <2>1. Provenance'
    BY <1>5, <1>0 DEF ThreadEffect
  <2>2. th'[t].pc = "write" => th'[t].item.obj \in refs'[ShareOf[th'[t].vol]]
    <3> SUFFICES ASSUME th'[t].pc = "write"
                 PROVE  th[t].item.obj \in refs[ShareOf[th[t].vol]]
      BY <1>5 DEF ThreadEffect
    <3>1. /\ th[t].vol \in Volumes /\ th[t].item.obj \in Objects
          /\ GetShared(ShareOf[th[t].vol]) = th[t].item.obj
      BY <1>5 DEF ThreadEffect, Items
    <3>2. ShareOf[th[t].vol] \in Shares /\ th[t].item.obj # None
      BY <3>1
    <3> QED BY <3>1, <3>2 DEF GetShared
  <2>3. \A u \in Threads \ {t} :
           th'[u].pc = "write" => th'[u].item.obj \in refs'[ShareOf[th'[u].vol]]
    BY <1>5 DEF ThreadEffect, Others
  <2> QED BY <1>5, <2>1, <2>2, <2>3 DEF ThreadEffect
<1> QED BY <1>1, <1>2, <1>3, <1>4, <1>5, Effects

\* A pod only ever reads data of an object its own share referenced at some time,
\* whichever event, pass or callback delivered it.
THEOREM ProvenanceHolds == Spec => []Provenance
<1>1. Init => ProvInv
  BY ConstAssumption DEF Init, ProvInv, Provenance, IdleThread
<1>2. ProvInv => Provenance
  BY DEF ProvInv
<1> QED BY <1>1, <1>2, ProvStep, TypeInvariant, PTL DEF Spec

-----------------------------------------------------------------------------
(* A persisted volume is reached by the share informer's events.           *)

\* The handlers and the loader keep every persisted volume wired.
LEMMA WiredHandler == TypeInv /\ WiredInv /\ HandlerStep => WiredInv'
<1> SUFFICES ASSUME TypeInv, WiredInv, HandlerStep PROVE WiredInv'
  OBVIOUS
<1> DEFINE r == th["node"]
           c == r.cur
<1>0. "node" \in Threads /\ ThreadsOK(th) /\ r \in ThreadType /\ RecOK("node", r)
  BY DEF ThreadsOK, TypeInv, TypeOK, Threads
<1>i. /\ IdleThread.cur = None /\ IdleThread.pc = "idle"
      /\ ~Publishing(IdleThread) /\ ~InPass(IdleThread)
  BY DEF IdleThread, Publishing, InPass, Upserting
<1>a. ASSUME NEW q, Goto("node", q) PROVE th'["node"] = q
  BY <1>0, <1>a, GotoFacts
<1>b. r.pc # "idle" => c \in Volumes
  BY <1>0 DEF RecOK
<1>c. r.pc \in {"mount", "map", "regUpsert", "regDelete"}
         => kubelet[c] = "pending" /\ c \notin disk
  BY DEF WiredInv, Publishing
\* a step of the handler that changes neither the volumes nor the files
<1>d. ASSUME UNCHANGED <<volumes, disk, kubelet, shareDeleteCb>>,
             shareUpdateCb \subseteq shareUpdateCb',
             \/ c \notin disk
             \/ th'["node"].cur = c /\ th'["node"].pc # "idle",
             Publishing(th'["node"]) =>
                Publishing(r) /\ th'["node"].cur = c,
             InPass(th'["node"]) \/ th'["node"].pc = "finish"
                => th'["node"].cur \in shareUpdateCb',
             th'["node"].pc = "idle" => th'["node"].cur = None
      PROVE  WiredInv'
  BY <1>d DEF WiredInv, PersistedIsWired
<1>1. CASE PublishMount
  <2>0. c \in Volumes /\ c \notin disk /\ kubelet[c] = "pending" /\ r.pc = "mount"
    BY <1>1, <1>b, <1>c DEF PublishMount
  <2>1. CASE PublishDone(c)
    <3>1. th'["node"] = IdleThread
      BY <1>a, <2>1 DEF PublishDone
    <3>2. \A v \in disk : kubelet'[v] = "mounted"
      BY <2>0, <2>1 DEF PublishDone, WiredInv, TypeInv, TypeOK
    <3> QED BY <1>1, <1>i, <2>0, <3>1, <3>2
            DEF PublishMount, WiredInv, PersistedIsWired, cbVars
  <2>2. CASE Goto("node", [r EXCEPT !.pc = "map"]) /\ UNCHANGED kubelet
    <3> DEFINE q == [r EXCEPT !.pc = "map"]
    <3>1. q.cur = c /\ q.pc = "map"
      BY <1>0 DEF ThreadType
    <3> HIDE DEF q
    <3>2. th'["node"] = q
      BY <1>a, <2>2 DEF q
    <3> QED BY <1>1, <1>d, <2>0, <2>2, <3>1, <3>2
            DEF PublishMount, cbVars, Publishing, InPass, Upserting
  <2> QED BY <1>1, <2>1, <2>2 DEF PublishMount
<1>2. CASE mapBackingResourceToPod
  <2> DEFINE o == GetShared(ShareOf[c])
             i == [obj |-> o, data |-> GetObj(o)]
             p == [r EXCEPT !.pc = "regShare"]
             q == [r EXCEPT !.pc = "filter", !.vol = c, !.item = i,
                            !.uret = "regUpsert"]
  <2>0. c \notin disk /\ r.pc = "map"
    BY <1>2, <1>c DEF mapBackingResourceToPod
  <2>1. /\ p.cur = c /\ p.pc = "regShare"
        /\ q.cur = c /\ q.pc = "filter" /\ q.uret = "regUpsert"
    BY <1>0 DEF ThreadType
  <2>2. Goto("node", IdleThread) \/ Goto("node", p) \/ Goto("node", q)
    BY <1>2 DEF mapBackingResourceToPod
  <2> HIDE DEF p, q
  <2>3. th'["node"] \in {IdleThread, p, q}
    BY <1>a, <2>2
  <2>4. ~InPass(p) /\ ~InPass(q) /\ ~Publishing(p) /\ Publishing(r)
    BY <2>0, <2>1 DEF InPass, Publishing, Upserting
  <2> QED BY <1>2, <1>d, <1>i, <2>0, <2>1, <2>3, <2>4
          DEF mapBackingResourceToPod, cbVars, nodeVars
<1>3. CASE RegisterUpsertCallback
  <2> DEFINE o == r.item.obj
             i == [obj |-> o, data |-> GetObj(o)]
             p == [r EXCEPT !.pc = "regDelete", !.item = None]
             q == [r EXCEPT !.pc = "filter", !.vol = c, !.item = i,
                            !.uret = "regDelete"]
  <2>0. c \notin disk /\ r.pc = "regUpsert"
    BY <1>3, <1>c DEF RegisterUpsertCallback
  <2>1. /\ p.cur = c /\ p.pc = "regDelete"
        /\ q.cur = c /\ q.pc = "filter" /\ q.uret = "regDelete"
    BY <1>0 DEF ThreadType
  <2>2. Goto("node", p) \/ Goto("node", q)
    BY <1>3 DEF RegisterUpsertCallback
  <2> HIDE DEF p, q
  <2>3. th'["node"] \in {p, q}
    BY <1>a, <2>2
  <2>4. ~InPass(p) /\ ~InPass(q) /\ Publishing(r)
    BY <2>0, <2>1 DEF InPass, Publishing, Upserting
  <2> QED BY <1>3, <1>d, <2>0, <2>1, <2>3, <2>4
          DEF RegisterUpsertCallback, nodeVars
<1>4. CASE RegisterDeleteCallback
  <2> DEFINE q == [r EXCEPT !.pc = "regShare"]
  <2>0. c \notin disk
    BY <1>4, <1>c DEF RegisterDeleteCallback
  <2>1. q.cur = c /\ q.pc = "regShare"
    BY <1>0 DEF ThreadType
  <2> HIDE DEF q
  <2>2. th'["node"] = q
    BY <1>4, <1>a DEF RegisterDeleteCallback, q
  <2>3. ~InPass(q) /\ ~Publishing(q)
    BY <2>1 DEF InPass, Publishing, Upserting
  <2> QED BY <1>4, <1>d, <2>0, <2>1, <2>2, <2>3 DEF RegisterDeleteCallback, nodeVars
<1>5. CASE RegisterSharedUpdateCallback
  <2> DEFINE S == {v \in volumes : ShareOf[v] = ShareOf[c]}
             p == [r EXCEPT !.share = ShareOf[c], !.todo = S]
             q == [r EXCEPT !.pc = "finish"]
  <2>0. c \in Volumes /\ ShareOf[c] \in Shares
    BY <1>5, <1>b, ConstAssumption DEF RegisterSharedUpdateCallback
  <2>1. q.cur = c /\ q.pc = "finish"
    BY <1>0 DEF ThreadType
  <2>2. p \in ThreadType /\ p.cur = c
    BY <1>0, <2>0 DEF ThreadType, TypeInv, TypeOK
  <2>3. Goto("node", q) \/ Pass("node", p)
    BY <1>5 DEF RegisterSharedUpdateCallback, StartPass
  <2>4. PassRet("node") = "finish"
    BY DEF PassRet
  <2> HIDE DEF p, q
  <2>5. th'["node"].cur = c /\ th'["node"].pc \in {"pass", "finish"}
    BY <1>0, <1>a, <2>1, <2>2, <2>3, <2>4, PassFacts
  <2>6. ~Publishing(th'["node"])
    BY <2>5 DEF Publishing, Upserting
  <2> QED BY <1>5, <1>d, <2>5, <2>6 DEF RegisterSharedUpdateCallback, nodeVars
<1>6. CASE RegisterRangersEnd
  <2>0. c \in Volumes /\ c \in shareUpdateCb
    BY <1>6, <1>b DEF RegisterRangersEnd, WiredInv
  <2>1. th'["node"] = IdleThread
    BY <1>6, <1>a DEF RegisterRangersEnd, PublishDone
  <2>2. \A v \in disk' : kubelet'[v] = "mounted"
    BY <1>6, <2>0 DEF RegisterRangersEnd, PublishDone, WiredInv, TypeInv, TypeOK
  <2>3. PersistedIsWired'
    BY <1>6, <2>0 DEF RegisterRangersEnd, WiredInv, PersistedIsWired
  <2> QED BY <1>i, <2>1, <2>2, <2>3 DEF WiredInv
<1>7. CASE StartController
  BY <1>7 DEF StartController, WiredInv, PersistedIsWired, cbVars, nodeVars
<1>8. ASSUME NEW v \in Volumes, LoadVol(v) PROVE WiredInv'
  <2> DEFINE q == [IdleThread EXCEPT !.pc = "regShare", !.cur = v]
  <2>1. q.cur = v /\ q.pc = "regShare"
    BY DEF IdleThread
  <2> HIDE DEF q
  <2>2. th'["node"] = q
    BY <1>8, <1>a DEF LoadVol, q
  <2>3. ~InPass(q) /\ ~Publishing(q)
    BY <2>1 DEF InPass, Publishing, Upserting
  <2>4. c = None
    BY <1>8 DEF LoadVol, WiredInv
  <2>5. PersistedIsWired'
    BY <1>8, <2>1, <2>2, <2>4, ConstAssumption
    DEF LoadVol, WiredInv, PersistedIsWired, cbVars, nodeVars, TypeInv, TypeOK
  <2> QED BY <1>8, <2>1, <2>2, <2>3, <2>5 DEF LoadVol, WiredInv, nodeVars
<1>9. ASSUME NEW v \in Volumes, NodePublishVolume(v) PROVE WiredInv'
  <2> DEFINE q == [IdleThread EXCEPT !.pc = "mount", !.cur = v]
  <2>1. q.cur = v /\ q.pc = "mount"
    BY DEF IdleThread
  <2> HIDE DEF q
  <2>2. th'["node"] = q
    BY <1>9, <1>a DEF NodePublishVolume, q
  <2>3. ~InPass(q)
    BY <2>1 DEF InPass, Upserting
  <2>4. c = None /\ v \notin disk /\ kubelet[v] = "pending"
    BY <1>9 DEF NodePublishVolume, WiredInv
  <2>5. PersistedIsWired'
    BY <1>9, <2>1, <2>2, <2>4, ConstAssumption
    DEF NodePublishVolume, createVolume, WiredInv, PersistedIsWired, cbVars,
        nodeVars, TypeInv, TypeOK
  <2> QED BY <1>9, <2>1, <2>2, <2>3, <2>4, <2>5
          DEF NodePublishVolume, WiredInv, nodeVars
<1>10. ASSUME NEW v \in Volumes, NodeUnpublishVolume(v) PROVE WiredInv'
  <2>0. r.pc = "idle" /\ ~Publishing(r) /\ ~InPass(r)
    BY <1>10 DEF NodeUnpublishVolume, Publishing, InPass, Upserting
  <2>1. \A w \in disk' : kubelet'[w] = "mounted"
    BY <1>10 DEF NodeUnpublishVolume, WiredInv, TypeInv, TypeOK
  <2>2. PersistedIsWired'
    BY <1>10 DEF NodeUnpublishVolume, deleteVolume, WiredInv, PersistedIsWired
  <2> QED BY <1>10, <2>0, <2>1, <2>2 DEF NodeUnpublishVolume, deleteVolume, WiredInv
<1> QED BY <1>1, <1>2, <1>3, <1>4, <1>5, <1>6, <1>7, <1>8, <1>9, <1>10
        DEF HandlerStep, Kubelet

\* Every step keeps every persisted volume wired.
LEMMA WiredStep == TypeInv /\ WiredInv /\ [Next]_vars => WiredInv'
<1> SUFFICES ASSUME TypeInv, WiredInv, [Next]_vars PROVE WiredInv'
  OBVIOUS
<1>1. CASE UNCHANGED vars
  BY <1>1 DEF vars, cbVars, nodeVars, WiredInv, PersistedIsWired
<1>2. CASE QuietEffect
  BY <1>2 DEF QuietEffect, cbVars, nodeVars, WiredInv, PersistedIsWired
<1>3. CASE RestartEffect
  <2>1. /\ th'["node"].pc = "idle" /\ th'["node"].cur = None
        /\ ~Publishing(th'["node"]) /\ ~InPass(th'["node"])
    BY <1>3 DEF RestartEffect, Restart, IdleThread, Threads, Publishing, InPass,
                Upserting
  <2> QED BY <1>3, <2>1
          DEF RestartEffect, Restart, nodeVars, WiredInv, PersistedIsWired
<1>4. ASSUME NEW t \in Threads, ThreadEffect(t) PROVE WiredInv'
  <2>1. CASE t # "node"
    <3>1. th'["node"] = th["node"]
      BY <1>4, <2>1 DEF ThreadEffect, Others, Threads
    <3> QED BY <1>4, <3>1 DEF ThreadEffect, WiredInv, PersistedIsWired
  <2>2. CASE t = "node"
    BY <1>4, <2>2 DEF ThreadEffect, WiredInv, PersistedIsWired
  <2> QED BY <2>1, <2>2
<1> QED BY <1>1, <1>2, <1>3, <1>4, Effects, WiredHandler

\* Whatever the interleaving and however often the process restarts, a persisted
\* volume the process knows of has both its share callbacks, unless the handler
\* or the loader is still working on it.
THEOREM PersistedIsWiredHolds == Spec => []PersistedIsWired
<1>1. Init => WiredInv
  BY DEF Init, WiredInv, PersistedIsWired, IdleThread, Threads, Publishing, InPass,
         Upserting
<1>2. WiredInv => PersistedIsWired
  BY DEF WiredInv
<1> QED BY <1>1, <1>2, WiredStep, TypeInvariant, PTL DEF Spec
=============================================================================
