--------------------------- MODULE ConfigManager ---------------------------
(***************************************************************************)
(* The configuration file of the driver and the process that follows it:   *)
(* main loads the file at start, a goroutine compares it with the loaded   *)
(* payload every three seconds and exits when it differs, and the kubelet  *)
(* starts the container again.                                             *)
(***************************************************************************)
EXTENDS Integers

CONSTANTS
    Payloads,         \* what the file may hold
    Missing,          \* no file
    Malformed,        \* a payload yaml.Unmarshal rejects
    Unset,            \* an attribute the payload does not mention
    Unparsable,       \* an interval time.ParseDuration rejects
    DefaultInterval   \* DefaultResyncDuration

ASSUME ConfigAssumption ==
    /\ Payloads \ {Malformed} \subseteq
          [refreshResources : BOOLEAN \cup {Unset},
           shareRelistInterval : Int \cup {Unset, Unparsable}]
    /\ Missing \notin Payloads \cup {Malformed}
    /\ Unset \notin BOOLEAN \cup Int \cup {Unparsable}
    /\ DefaultInterval \in Nat \ {0}

VARIABLES
    file,    \* the payload on disk, or Missing
    proc,    \* "down", "up", or "stopping" after a signal
    cfg,     \* what LoadConfig returned to main
    loaded,  \* the global LoadedConfig the callback maps read
    md5sum   \* the payload whose sum the Manager keeps, or Missing for ""

configVars == <<file, proc, cfg, loaded, md5sum>>

Configs == [refreshResources : BOOLEAN,
            shareRelistInterval : Int \cup {Unparsable}]

\* LoadedConfig before it is assigned
ZeroConfig == [refreshResources |-> FALSE, shareRelistInterval |-> Unparsable]

NewConfig == [refreshResources |-> TRUE, shareRelistInterval |-> DefaultInterval]

\* (defect: the payload replaces the defaults)
Unmarshal_NoDefaults(p) == p

Or(x, default) == IF x = Unset THEN default ELSE x

\* the attributes of the payload overwrite the defaults
Unmarshal(p) ==
    [refreshResources |-> Or(p.refreshResources, NewConfig.refreshResources),
     shareRelistInterval |->
         Or(p.shareRelistInterval, NewConfig.shareRelistInterval)]

GetShareRelistInterval(c) == IF c.shareRelistInterval = Unparsable
                             THEN DefaultInterval ELSE c.shareRelistInterval

\* what LoadConfig returns for a file
Loaded(f) == IF f = Missing THEN NewConfig ELSE Unmarshal(f)

\* main gets past LoadConfig and time.NewTicker, which panics on an interval
\* that is not positive; otherwise the container fails and is started again
Starts(f) == f # Malformed /\ GetShareRelistInterval(Loaded(f)) > 0

ConfigInit == /\ file \in Payloads \cup {Missing}
              /\ proc = "down"
              /\ cfg = NewConfig /\ loaded = ZeroConfig
              /\ md5sum = Missing

\* the kubelet projects a changed, new or deleted ConfigMap
EditFile(p) == /\ p # file
               /\ file' = p
               /\ UNCHANGED <<proc, cfg, loaded, md5sum>>

\* without a file the defaults are returned but LoadedConfig is not assigned
LoadConfig == /\ proc = "down"
              /\ Starts(file)
              /\ proc' = "up"
              /\ cfg' = Loaded(file)
              /\ loaded' = IF file = Missing THEN loaded ELSE Loaded(file)
              /\ md5sum' = file
              /\ UNCHANGED file

\* (defect: settings that do not parse are not picked up)
ConfigHasChanged_Parsable ==
    /\ md5sum # Missing
    /\ file \notin {Missing, Malformed, md5sum}
    /\ Unmarshal(file).shareRelistInterval # Unparsable

\* an unreadable file, or one that was missing at the start, is no change
ConfigHasChanged == /\ md5sum # Missing
                    /\ file # Missing
                    /\ file # md5sum

\* the end of the process, whatever the reason
Exit == /\ proc' = "down"
        /\ cfg' = NewConfig /\ loaded' = ZeroConfig
        /\ md5sum' = Missing
        /\ UNCHANGED file

watchForConfigChanges == /\ proc # "down"
                         /\ ConfigHasChanged
                         /\ Exit

-----------------------------------------------------------------------------
\* If from some time on the file holds a payload the driver can start with, and
\* no process was started without a file, every process eventually runs with
\* that payload's settings (docs/config.md: the driver restarts "with updated
\* configs"), also when the file changes between the load and the first
\* comparison, or passes through a payload that ends the start.
ConfigFollowed ==
    \A p \in Payloads :
        /\ Starts(p)
        /\ <>[](file = p)
        /\ <>[](proc # "down" => md5sum # Missing)
        => <>[](proc # "down" => cfg = Unmarshal(p))
=============================================================================
