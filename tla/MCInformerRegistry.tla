------------------------- MODULE MCInformerRegistry -------------------------
EXTENDS InformerRegistry

CONSTANTS s1, s2, n1, n2

\* no YAML; refreshResources off; an interval ParseDuration rejects;
\* an interval no ticker takes
ConfigFiles ==
    {Malformed,
     [refreshResources |-> FALSE, shareRelistInterval |-> Unset],
     [refreshResources |-> Unset, shareRelistInterval |-> Unparsable],
     [refreshResources |-> TRUE, shareRelistInterval |-> 0]}

WatchingFile == {[refreshResources |-> TRUE, shareRelistInterval |-> Unset]}
=============================================================================
