----------------------------- MODULE MCAdmission -----------------------------
EXTENDS Admission

CONSTANTS r1, r2, p1, osName, freeName, wordA, wordB

Plain(x)  == [word |-> x, padded |-> FALSE]
Padded(x) == [word |-> x, padded |-> TRUE]

\* two shares of one reserved name, and one of a free name
MCShares ==
    {[kind |-> "SharedSecret", name |-> Plain(osName)],
     [kind |-> "SharedConfigMap", name |-> Plain(osName)],
     [kind |-> "SharedSecret", name |-> Plain(freeName)]}

MCRefs ==
    {[namespace |-> Plain(wordA), name |-> Padded(wordA)],
     [namespace |-> Plain(Blank), name |-> Plain(wordB)]}

\* an unset variable; two entries for one name around a bad one; a name
\* reserved for a blank namespace
Unset == <<<<Plain(Blank)>>>>
Twice == <<<<Plain(osName), Plain(Blank), Plain(wordB)>>, <<Plain(osName), Plain(wordB)>>,
           <<Padded(osName), Padded(wordA), Plain(wordA)>>>>
Once  == <<<<Plain(osName), Padded(wordA), Plain(wordA)>>>>
BlankEntry == <<<<Plain(osName), Padded(Blank), Plain(wordB)>>>>

MCEnvs ==
    {[k \in Kinds |-> IF k = "SharedSecret" THEN Twice ELSE Once],
     [k \in Kinds |-> IF k = "SharedSecret" THEN BlankEntry ELSE Unset]}

Attributes(cm, secret) == [sharedConfigMap |-> cm, sharedSecret |-> secret]
Volume(readOnly, attributes) ==
    [driver |-> "shared", readOnly |-> readOnly, attributes |-> attributes]
OtherVolume ==
    [driver |-> "other", readOnly |-> None, attributes |-> Attributes(None, None)]

\* volumes of each share; contexts that name no share, or two; a volume that
\* is not read-only behind one that is or that is another driver's
MCPodSpecs ==
    {<<OtherVolume, Volume(TRUE, Attributes(None, Plain(osName))),
       Volume(TRUE, Attributes(Plain(osName), None)), Volume(TRUE, Attributes(None, Plain(freeName)))>>,
     <<Volume(TRUE, Attributes(Plain(Blank), Plain(osName))), Volume(TRUE, Attributes(Padded(Blank), None)),
       Volume(TRUE, Attributes(None, Padded(osName))), Volume(TRUE, Attributes(None, None))>>,
     <<Volume(TRUE, Attributes(Plain(osName), None)), Volume(None, Attributes(None, Plain(osName)))>>,
     <<OtherVolume, Volume(FALSE, Attributes(Plain(osName), Plain(osName)))>>}
=============================================================================
