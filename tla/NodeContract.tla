---------------------------- MODULE NodeContract ----------------------------
(***************************************************************************)
(* What the node service promises the kubelet about its volumes, without   *)
(* handlers, files, mounts, maps or a pruner.                              *)
(*                                                                         *)
(* A volume is being served when everything that keeps its content fresh,  *)
(* also across restarts, is in place.  Serving begins with the answer that *)
(* the volume is published and ends only once its pod is being deleted;    *)
(* the answer that it is unpublished is the last and comes after that.     *)
(*                                                                         *)
(* Two kinds of trouble weaken the promise, volume by volume.  A failed    *)
(* or interrupted call disturbs its volume: from then on it may be called  *)
(* published without being served.  A call that outlives its deadline      *)
(* makes its volume late: of it only the order of answers is promised.     *)
(* One step may change several volumes, for a restart meets them all.      *)
(***************************************************************************)
CONSTANTS Volumes

VARIABLES
    pod,        \* volume -> its pod: future, live, terminating or gone
    told,       \* volume -> what the kubelet has been told
    serving,    \* volumes that are being served
    disturbed,  \* volumes with a failed or interrupted call, or a pruned file
    late        \* volumes with a call that outlived its deadline

contractVars == <<pod, told, serving, disturbed, late>>

Unsettled == {"none", "uncertain"}

Deleted(v) == pod[v] \in {"terminating", "gone"}

Init == /\ pod = [v \in Volumes |-> "future"]
        /\ told = [v \in Volumes |-> "none"]
        /\ serving = {} /\ disturbed = {} /\ late = {}

\* pods come once and go
PodStep(v) == \/ pod'[v] = pod[v]
              \/ pod[v] = "future" /\ pod'[v] = "live"
              \/ pod[v] = "live" /\ pod'[v] = "terminating"
              \/ pod[v] \in {"live", "terminating"} /\ pod'[v] = "gone"

Stay(v) == told'[v] = told[v] /\ (v \in serving') = (v \in serving)

Publish(v) == /\ told[v] \in Unsettled /\ pod[v] # "future"
              /\ told'[v] = "published"
              /\ v \notin serving /\ v \in serving'

\* a retry finds the mount of an attempt that failed, or the volume could not
\* be stored
HalfPublish(v) == /\ v \in disturbed'
                  /\ told[v] \in Unsettled /\ pod[v] # "future"
                  /\ told'[v] = "published"
                  /\ v \notin serving /\ v \notin serving'

\* a publish fails or is interrupted; only a disturbance leaves doubt
GiveUp(v) == /\ told[v] \in Unsettled /\ told'[v] \in Unsettled
             /\ told'[v] = "uncertain" => v \in disturbed'
             /\ v \notin serving /\ v \notin serving'

Withdraw(v) == /\ Deleted(v)
               /\ told[v] = "published" /\ told'[v] = "published"
               /\ v \in serving /\ v \notin serving'

Unpublish(v) == /\ Deleted(v)
                /\ told[v] \in {"published", "uncertain"}
                /\ told'[v] = "unpublished"
                /\ v \notin serving /\ v \notin serving'

\* with an overlapping call only the answers keep their order
Overrun(v) ==
    /\ v \in late'
    /\ \/ told'[v] = told[v]
       \/ /\ told[v] \in Unsettled /\ pod[v] # "future"
          /\ told'[v] \in Unsettled \cup {"published"}
       \/ /\ told[v] \in {"published", "uncertain"} /\ Deleted(v)
          /\ told'[v] = "unpublished"

VolumeStep(v) ==
    \/ Stay(v) \/ Publish(v) \/ HalfPublish(v) \/ GiveUp(v)
    \/ Withdraw(v) \/ Unpublish(v) \/ Overrun(v)

Next == /\ \A v \in Volumes : PodStep(v) /\ VolumeStep(v)
        /\ disturbed \subseteq disturbed'
        /\ late \subseteq late' /\ late' \subseteq disturbed'

Spec == Init /\ [][Next]_contractVars

----------------------------------------------------------------------------
\* What the kubelet relies on: a published volume that nothing has disturbed is
\* served until its pod is deleted, and, unless it is late, a volume is served
\* only between the two answers.
Kept == \A v \in Volumes :
          /\ told[v] = "published" /\ v \notin disturbed /\ ~Deleted(v) => v \in serving
          /\ v \in serving /\ v \notin late => told[v] = "published"
=============================================================================
