----------------------------- MODULE VolumeView -----------------------------
(***************************************************************************)
(* What a pod can observe of its shared volume, without caches, queues,    *)
(* threads, callbacks or restarts: content comes and goes, whole; it only  *)
(* comes to volumes whose pod has been granted the use of its share, and   *)
(* only from objects that share has referenced.                            *)
(***************************************************************************)
CONSTANTS Volumes, Objects, Data, None

VARIABLES
    view,      \* volume -> the object's data the pod reads, or None
    granted,   \* volumes whose pod was granted the use of its share
    origins    \* volume -> objects its share has referenced

viewVars == <<view, granted, origins>>

Init == /\ view = [v \in Volumes |-> None]
        /\ granted = {}
        /\ origins \in [Volumes -> SUBSET Objects]

\* a share, and with it the volumes W that use it, is pointed at o
Refer(W, o) == /\ origins' = [v \in Volumes |-> IF v \in W THEN origins[v] \cup {o}
                                                ELSE origins[v]]
               /\ UNCHANGED <<view, granted>>

GrantUse(v) == /\ granted' = granted \cup {v}
               /\ UNCHANGED <<view, origins>>

Serve(v, o, d) == /\ v \in granted /\ o \in origins[v]
                  /\ view' = [view EXCEPT ![v] = [obj |-> o, data |-> d]]
                  /\ UNCHANGED <<granted, origins>>

Withdraw(v) == /\ view' = [view EXCEPT ![v] = None]
               /\ UNCHANGED <<granted, origins>>

Next == \/ \E W \in SUBSET Volumes, o \in Objects : Refer(W, o)
        \/ \E v \in Volumes : \/ GrantUse(v) \/ Withdraw(v)
                              \/ \E o \in Objects, d \in Data : Serve(v, o, d)

Spec == Init /\ [][Next]_viewVars
=============================================================================
