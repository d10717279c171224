---------------------------- MODULE MCShareSync ----------------------------
EXTENDS ShareSync

CONSTANTS v1, v2, s1, s2, o1, o2, d1, d2

OneShare  == [v \in Volumes |-> s1]
AllOn     == [v \in Volumes |-> TRUE]
AllOff    == [v \in Volumes |-> FALSE]

\* one share of an existing object, and a pod that may use it
Ready == {[share |-> [s \in Shares |-> IF s = s1 THEN o1 ELSE o2],
           obj |-> [o \in Objects |-> d1], allowed |-> Volumes]}
=============================================================================
