------------------------- MODULE MCVolumeLifecycle -------------------------
(* Instances of VolumeLifecycle for TLC.                                   *)
EXTENDS VolumeLifecycle

CONSTANTS v1, v2

\* two pods of one name, one after the other: a StatefulSet's pod replaced
SameName == [v \in Volumes |-> "pod"]
=============================================================================
