------------------------------ MODULE Admission ------------------------------
(***************************************************************************)
(* The reserved names of shares and the two places that enforce them: the *)
(* admission webhook (cmd/webhook, pkg/webhook), asked by the API server  *)
(* before a Pod, SharedSecret or SharedConfigMap is written, and the      *)
(* driver's validateShare, asked by the kubelet before a volume is        *)
(* mounted.  Both parse the same environment variables when they start,   *)
(* but they start, and are rolled out, each on its own, and the driver    *)
(* sees shares through a lister that lags behind the API server.          *)
(*                                                                         *)
(* A string is a record of the word in it and whether blanks surround it; *)
(* an environment variable is the result of strings.Split, a sequence of  *)
(* entries that are sequences of strings.                                 *)
(***************************************************************************)
EXTENDS Naturals, Sequences, FiniteSets

CONSTANTS
    Requests,        \* HTTP requests that may be at the webhook at once
    Pods,            \* pods
    PodSpecs,        \* their volumes: sequences of [driver, readOnly, attributes]
    Shares,          \* share objects: [kind, name]
    Refs,            \* what a share may refer to: [namespace, name]
    Envs,            \* environments of the processes: [Kinds -> entries]
    OpenShiftWords,  \* words that start with "openshift"
    Blank,           \* the word of "" and of "  "
    None,            \* no object, no field, no holder
    MaxVolumes,      \* volumes of a pod, at most
    MaxRequests,     \* bound: admission requests sent
    MaxRollouts      \* bound: restarts of the webhook or of the driver

Kinds == {"SharedSecret", "SharedConfigMap"}

VARIABLES
    hook,     \* the webhook's environment when it started
    drv,      \* the driver's environment when it started
    shares,   \* API server: share -> None or [ref, op, env]: its last write
    pods,     \* API server: pod -> None or its volumes
    lister,   \* the driver's copy of shares
    reqs,     \* requests at the webhook
    mu,       \* Dispatcher.mu: None or the request that holds it
    pubs,     \* NodePublishVolume calls, and how they ended
    tmpfs,    \* the node: pod -> its volumes whose target is a mount point
    sent, rollouts

vars == <<hook, drv, shares, pods, lister, reqs, mu, pubs, tmpfs, sent, rollouts>>

----------------------------------------------------------------------------
(* pkg/config/namewatcher.go *)

TrimSpace(t) == [word |-> t.word, padded |-> FALSE]

\* names[key] = value
Put(names, key, value) ==
    [x \in DOMAIN names \cup {key} |-> IF x = key THEN value ELSE names[x]]

\* (defect: first entry wins)
AddEntry_KeepsFirst(a, names) ==
    IF Len(a) # 3 \/ TrimSpace(a[1]) \in DOMAIN names
      THEN names
      ELSE Put(names, TrimSpace(a[1]),
               [namespace |-> TrimSpace(a[2]), name |-> TrimSpace(a[3])])

\* one turn of parseEnvVar's loop
AddEntry(a, names) ==
    IF Len(a) # 3
      THEN names
      ELSE Put(names, TrimSpace(a[1]),
               [namespace |-> TrimSpace(a[2]), name |-> TrimSpace(a[3])])

EmptyMap == [x \in {} |-> x]

parseEnvVar(val) ==
    LET parsed[i \in 0 .. Len(val)] ==
            IF i = 0 THEN EmptyMap ELSE AddEntry(val[i], parsed[i - 1])
    IN parsed[Len(val)]

SetupNameReservation(env) ==
    [currentSecretNames    |-> parseEnvVar(env["SharedSecret"]),
     currentConfigMapNames |-> parseEnvVar(env["SharedConfigMap"])]

startsWithOpenShift(t) == ~t.padded /\ t.word \in OpenShiftWords

\* (defect: a name on the list may refer to anything)
innerValidate_AnyReference(shareName, ref, names) ==
    startsWithOpenShift(shareName) => shareName \in DOMAIN names

innerValidate(shareName, ref, names) ==
    startsWithOpenShift(shareName) =>
        /\ shareName \in DOMAIN names
        /\ TrimSpace(names[shareName].namespace) = TrimSpace(ref.namespace)
        /\ TrimSpace(names[shareName].name) = TrimSpace(ref.name)

ValidateSharedSecretOpenShiftName(env, name, ref) ==
    innerValidate(name, ref, SetupNameReservation(env).currentSecretNames)

\* (defect: looks the name up in the other map)
ValidateSharedConfigMapOpenShiftName_SecretNames(env, name, ref) ==
    innerValidate(name, ref, SetupNameReservation(env).currentSecretNames)

ValidateSharedConfigMapOpenShiftName(env, name, ref) ==
    innerValidate(name, ref, SetupNameReservation(env).currentConfigMapNames)

----------------------------------------------------------------------------
(* pkg/webhook: a request is [kind, op, target, object, oldObject]; its    *)
(* objects are None, undecodable, or what the API server stores           *)

PodObject(p, spec)   == [kind |-> "Pod", name |-> p, spec |-> spec]
ShareObject(s, ref)  == [kind |-> s.kind, name |-> s.name, ref |-> ref]

WithoutObject(kind) == [kind |-> kind, op |-> "None", target |-> None,
                        object |-> None, oldObject |-> None]

\* a body without an AdmissionReview that has a request
Unparsable == WithoutObject("None")

\* a kind the webhook is not for, an object that is not of the kind
OtherKind   == WithoutObject("Other")
Undecodable == WithoutObject("SharedSecret")

ParseHTTPRequest(m) == m # Unparsable

Validate(m) == m.kind \in {"Pod"} \cup Kinds

\* renderPod, renderSharedSecret and renderSharedConfigMap prefer OldObject
Rendered(m) == IF m.oldObject # None THEN m.oldObject ELSE m.object

RenderedKind(m) == IF Rendered(m) = None THEN "None" ELSE Rendered(m).kind

SharedDriver(volume) == volume.driver = "shared"

\* (defect: takes a missing ReadOnly for true)
authorizePod_UnsetAllowed(spec) ==
    \A i \in 1 .. Len(spec) : SharedDriver(spec[i]) => spec[i].readOnly # FALSE

authorizePod(spec) ==
    \A i \in 1 .. Len(spec) : SharedDriver(spec[i]) => spec[i].readOnly = TRUE

\* (defect: asks the list of the other kind)
authorizeShare_OneList(env, o) == ValidateSharedSecretOpenShiftName(env, o.name, o.ref)

authorizeShare(env, o) ==
    IF o.kind = "SharedSecret"
      THEN ValidateSharedSecretOpenShiftName(env, o.name, o.ref)
      ELSE ValidateSharedConfigMapOpenShiftName(env, o.name, o.ref)

\* Authorized: allowed, or denied or an error
Authorized(env, m) ==
    LET o == Rendered(m)
    IN \/ RenderedKind(m) = "Pod" /\ authorizePod(o.spec)
       \/ RenderedKind(m) \in Kinds /\ authorizeShare(env, o)

Idle == [pc |-> "idle", msg |-> Unparsable, allowed |-> FALSE, env |-> None]

\* from the Lock of HandleRequest to its deferred Unlock
Holds(r) == reqs[r].pc \in {"locked", "read"}

HandleRequest(r) ==
    /\ reqs[r].pc = "arrived"
    /\ mu = None
    /\ mu' = r
    /\ reqs' = [reqs EXCEPT ![r].pc = "locked"]
    /\ UNCHANGED <<hook, drv, shares, pods, lister, pubs, tmpfs, sent, rollouts>>

\* io.ReadAll under the lock, for as long as the client takes to send the
\* body; a client that goes away leaves an error
ReadBody(r) ==
    /\ reqs[r].pc = "locked"
    /\ \E m \in {reqs[r].msg, Unparsable} :
          reqs' = [reqs EXCEPT ![r].pc = "read", ![r].msg = m]
    /\ UNCHANGED <<hook, drv, shares, pods, lister, mu, pubs, tmpfs, sent, rollouts>>

\* (defect: returns an error without unlocking)
SendResponse_NoUnlock(r) ==
    /\ reqs[r].pc = "read"
    /\ LET m == reqs[r].msg
           allowed == ParseHTTPRequest(m) /\ Validate(m) /\ Authorized(hook, m)
       IN /\ reqs' = [reqs EXCEPT ![r].pc = "answered",
                                  ![r].allowed = allowed,
                                  ![r].env = hook]
          /\ mu' = IF ParseHTTPRequest(m) THEN None ELSE mu
    /\ UNCHANGED <<hook, drv, shares, pods, lister, pubs, tmpfs, sent, rollouts>>

\* The answer to the body that was read, and the deferred unlock
SendResponse(r) ==
    /\ reqs[r].pc = "read"
    /\ LET m == reqs[r].msg
           allowed == ParseHTTPRequest(m) /\ Validate(m) /\ Authorized(hook, m)
       IN reqs' = [reqs EXCEPT ![r].pc = "answered",
                               ![r].allowed = allowed,
                               ![r].env = hook]
    /\ mu' = None
    /\ UNCHANGED <<hook, drv, shares, pods, lister, pubs, tmpfs, sent, rollouts>>

\* the process of the webhook ends and another starts: what it had not yet
\* answered fails
WebhookStarts(env) ==
    /\ hook' = env
    /\ mu' = None
    /\ reqs' = [r \in Requests |->
                  IF reqs[r].pc \in {"arrived", "locked", "read"} THEN Idle ELSE reqs[r]]
    /\ UNCHANGED <<drv, shares, pods, lister, pubs, tmpfs, sent>>

\* Encode fails, of an answer larger than the writer's buffer: SendResponse
\* calls itself with the error, which cannot be written either, until the
\* stack is used up
EncodeFails(r) ==
    /\ reqs[r].pc = "read"
    /\ WebhookStarts(hook)
    /\ UNCHANGED rollouts

----------------------------------------------------------------------------
(* What the API server holds of a share: its reference, the last write and  *)
(* the environment of the webhook that admitted it                          *)

ShareRecords == [ref : Refs, op : {"CREATE", "UPDATE"}, env : Envs]

\* An environment variable is a list of entries; names in the API server have
\* no blanks; None is none of the objects
ASSUME AdmissionAssumption ==
    /\ \A env \in Envs, k \in Kinds : Len(env[k]) \in Nat
    /\ MaxRequests \in Nat
    /\ MaxRollouts \in Nat
    /\ \A s \in Shares : /\ s.kind \in Kinds
                         /\ s = [kind |-> s.kind, name |-> s.name]
                         /\ ~s.name.padded
    /\ \A ref \in Refs : ref.namespace # None /\ ref.name # None
    /\ None \notin Shares \cup Pods \cup Requests \cup ShareRecords \cup PodSpecs
    /\ Shares \cap Pods = {}
    /\ \A s \in Shares, ref \in Refs : ShareObject(s, ref) # None
    /\ \A p \in Pods, spec \in PodSpecs : PodObject(p, spec) # None

----------------------------------------------------------------------------
(* NodePublishVolume of a pod: where the call is or how it ended, for which *)
(* of the pod's volumes, the share it found, the lister's copy of it that   *)
(* validateShare judged, the one the data was copied for, and the driver's  *)
(* environment                                                              *)

Unpublished == [pc |-> "idle", volume |-> 0, share |-> None, judged |-> None,
                copy |-> None, env |-> None]

Calling == {"review", "populate"}

----------------------------------------------------------------------------
(* The API server: external.  It asks the webhook before every write and   *)
(* writes only what was allowed, if the object is still what it asked      *)
(* about; otherwise the write is a conflict.                               *)

Stored(s) == IF shares[s] = None THEN None ELSE ShareObject(s, shares[s].ref)
StoredPod(p) == IF pods[p] = None THEN None ELSE PodObject(p, pods[p])

Message(kind, op, target, object, oldObject) ==
    [kind |-> kind, op |-> op, target |-> target,
     object |-> object, oldObject |-> oldObject]

ShareWrites(s) ==
    IF shares[s] = None
      THEN {Message(s.kind, "CREATE", s, ShareObject(s, ref), None) : ref \in Refs}
      ELSE {Message(s.kind, "UPDATE", s, ShareObject(s, ref), Stored(s)) : ref \in Refs}
             \cup {Message(s.kind, "DELETE", s, None, Stored(s))}

PodWrites(p) ==
    IF pods[p] = None
      THEN {Message("Pod", "CREATE", p, PodObject(p, spec), None) : spec \in PodSpecs}
      ELSE {Message("Pod", "DELETE", p, None, StoredPod(p))}

Messages ==
    (UNION {ShareWrites(s) : s \in Shares}) \cup (UNION {PodWrites(p) : p \in Pods})
      \cup {Unparsable, OtherKind, Undecodable}

Send(r, m) ==
    /\ reqs[r].pc = "idle"
    /\ sent < MaxRequests
    /\ sent' = sent + 1
    /\ reqs' = [reqs EXCEPT ![r] = [Idle EXCEPT !.pc = "arrived", !.msg = m]]
    /\ UNCHANGED <<hook, drv, shares, pods, lister, mu, pubs, tmpfs, rollouts>>

\* connections are alike: a request takes any that is free
Arrive(m) ==
    LET free == {r \in Requests : reqs[r].pc = "idle"}
    IN free # {} /\ Send(CHOOSE r \in free : TRUE, m)

WriteShare(r, m) ==
    /\ m.target \in Shares
    /\ Stored(m.target) = m.oldObject
    /\ shares' = [shares EXCEPT ![m.target] =
                    IF m.op = "DELETE" THEN None
                    ELSE [ref |-> m.object.ref, op |-> m.op, env |-> reqs[r].env]]
    /\ UNCHANGED <<pods, pubs, tmpfs>>

\* Without a pod the kubelet has nothing to mount
WritePod(m) ==
    /\ m.target \in Pods
    /\ StoredPod(m.target) = m.oldObject
    /\ pods' = [pods EXCEPT ![m.target] =
                    IF m.op = "DELETE" THEN None ELSE m.object.spec]
    /\ pubs' = [pubs EXCEPT ![m.target] = Unpublished]
    /\ tmpfs' = [tmpfs EXCEPT ![m.target] = {}]
    /\ UNCHANGED shares

Refused(r) ==
    LET m == reqs[r].msg
    IN /\ \/ ~reqs[r].allowed
          \/ m.target \in Shares /\ Stored(m.target) # m.oldObject
          \/ m.target \in Pods /\ StoredPod(m.target) # m.oldObject
       /\ UNCHANGED <<shares, pods, pubs, tmpfs>>

Apply(r) ==
    /\ reqs[r].pc = "answered"
    /\ \/ Refused(r)
       \/ reqs[r].allowed /\ WriteShare(r, reqs[r].msg)
       \/ reqs[r].allowed /\ WritePod(reqs[r].msg)
    /\ reqs' = [reqs EXCEPT ![r] = Idle]
    /\ UNCHANGED <<hook, drv, lister, mu, sent, rollouts>>

----------------------------------------------------------------------------
(* The driver: pkg/csidriver/nodeserver.go and pkg/client/client.go.  A pod *)
(* has at most one call at a time; calls of different pods interleave.      *)

\* volume context: a missing attribute reads as the empty string
Text(attribute) == IF attribute = None THEN [word |-> Blank, padded |-> FALSE] ELSE attribute
Empty(attribute) == Text(attribute) = [word |-> Blank, padded |-> FALSE]
IsBlank(attribute) == Text(attribute).word = Blank

Missing(cm, secret) ==
    \/ cm = None /\ secret = None
    \/ IsBlank(cm) /\ IsBlank(secret)

\* (defect: only looks at the values)
Both_ByValue(cm, secret) == ~IsBlank(cm) /\ ~IsBlank(secret)

Both(cm, secret) ==
    \/ cm # None /\ secret # None
    \/ ~IsBlank(cm) /\ ~IsBlank(secret)

\* the lister's copy of a share, None for nil
Get(kind, attribute) ==
    LET s == [kind |-> kind, name |-> Text(attribute)]
    IN IF ~Empty(attribute) /\ s \in Shares THEN lister[s] ELSE None

NotFound(kind, attribute) == ~Empty(attribute) /\ Get(kind, attribute) = None

BlankRef(ref) == IsBlank(ref.namespace) \/ IsBlank(ref.name)

\* The end of validateShare before the SubjectAccessReview: "panic" is the
\* use of a nil share, "reserved" the reserved-name error, "idle" any
\* other error, "review" none
validateShare(cm, secret) ==
    LET cmShare == Get("SharedConfigMap", cm)
        sShare  == Get("SharedSecret", secret)
    IN IF \/ Missing(cm, secret)
          \/ Both(cm, secret)
          \/ NotFound("SharedConfigMap", cm)
          \/ NotFound("SharedSecret", secret)
          \/ cmShare = None /\ sShare = None
         THEN "idle"
       ELSE IF cm # None /\ cmShare = None THEN "panic"
       ELSE IF cm # None
               /\ ~ValidateSharedConfigMapOpenShiftName(drv, Text(cm), cmShare.ref)
         THEN "reserved"
       ELSE IF secret # None /\ sShare = None THEN "panic"
       ELSE IF secret # None
               /\ ~ValidateSharedSecretOpenShiftName(drv, Text(secret), sShare.ref)
         THEN "reserved"
       ELSE IF \/ cmShare # None /\ BlankRef(cmShare.ref)
               \/ sShare # None /\ BlankRef(sShare.ref)
         THEN "idle"
       ELSE "review"

\* the share of a context that names one
Named(cm, secret) ==
    IF cm # None THEN [kind |-> "SharedConfigMap", name |-> Text(cm)]
                 ELSE [kind |-> "SharedSecret", name |-> Text(secret)]

\* The argument checks, validateVolumeContext and validateShare up to the
\* review; the kubelet may leave out an argument the call needs
NodePublishVolume(p, i) ==
    /\ pods[p] # None
    /\ i \in 1 .. Len(pods[p])
    /\ SharedDriver(pods[p][i])
    /\ pubs[p].pc \notin Calling
    /\ LET cm     == pods[p][i].attributes.sharedConfigMap
           secret == pods[p][i].attributes.sharedSecret
           end    == validateShare(cm, secret)
           found  == end \in {"review", "reserved"}
           s      == Named(cm, secret)
       IN \E complete \in BOOLEAN :
            pubs' = [pubs EXCEPT ![p] =
                IF complete /\ found
                  THEN [pc |-> end, volume |-> i, share |-> s, judged |-> lister[s],
                        copy |-> None, env |-> drv]
                  ELSE [Unpublished EXCEPT !.pc = IF complete THEN end ELSE "idle"]]
    /\ UNCHANGED <<hook, drv, shares, pods, lister, reqs, mu, tmpfs, sent, rollouts>>

\* createVolume keeps the name of the share; a target that is a mount point
\* already ends the call with success, another gets its tmpfs. The kubelet
\* passes an unset ReadOnly as false.
Mounting(p) ==
    LET i == pubs[p].volume
    IN \/ /\ pods[p][i].readOnly # TRUE
          /\ pubs' = [pubs EXCEPT ![p].pc = "readonly"]
          /\ UNCHANGED tmpfs
       \/ /\ pods[p][i].readOnly = TRUE /\ i \in tmpfs[p]
          /\ pubs' = [pubs EXCEPT ![p].pc = "mounted"]
          /\ UNCHANGED tmpfs
       \/ /\ pods[p][i].readOnly = TRUE /\ i \notin tmpfs[p]
          /\ pubs' = [pubs EXCEPT ![p].pc = "populate"]
          /\ tmpfs' = [tmpfs EXCEPT ![p] = @ \cup {i}]

\* an error of any step
Fails(p) == pubs' = [pubs EXCEPT ![p] = Unpublished]

\* The API server's answer to the SubjectAccessReview
ExecuteSAR(p) ==
    /\ pubs[p].pc = "review"
    /\ \/ Fails(p) /\ UNCHANGED tmpfs
       \/ Mounting(p)
    /\ UNCHANGED <<hook, drv, shares, pods, lister, reqs, mu, sent, rollouts>>

\* GetSharedSecret and GetSharedConfigMap: the lister's copy; without one the
\* API server is asked, and None stands for nil
GetShared(s) == IF lister[s] # None THEN {lister[s]} ELSE {shares[s], None}

\* mapBackingResourceToPod gets the share by its name once more and copies the
\* object it refers to now, if that object is there; a SharedConfigMap that is
\* gone leaves the volume empty
mapBackingResourceToPod(p) ==
    /\ pubs[p].pc = "populate"
    /\ \E w \in GetShared(pubs[p].share) :
         \/ /\ w # None \/ pubs[p].share.kind = "SharedConfigMap"
            /\ pubs' = [pubs EXCEPT ![p].pc = "mounted", ![p].copy = w]
         \/ w # None /\ Fails(p)
    /\ UNCHANGED <<hook, drv, shares, pods, lister, reqs, mu, tmpfs, sent, rollouts>>

\* the process of the driver ends and another starts: calls under way fail,
\* the listers are filled, the mounts stay
DriverStarts(env) ==
    /\ drv' = env
    /\ lister' = shares
    /\ pubs' = [p \in Pods |->
                  IF pubs[p].pc \in Calling THEN Unpublished ELSE pubs[p]]
    /\ UNCHANGED <<hook, shares, pods, reqs, mu, tmpfs, sent>>

\* the nil of a SharedSecret that is gone is used (driver.go:602)
MapPanics(p) ==
    /\ pubs[p].pc = "populate"
    /\ pubs[p].share.kind = "SharedSecret" /\ None \in GetShared(pubs[p].share)
    /\ DriverStarts(drv)
    /\ UNCHANGED rollouts

\* the watch of shares delivers one
ListerUpdate(s) ==
    /\ lister[s] # shares[s]
    /\ lister' = [lister EXCEPT ![s] = shares[s]]
    /\ UNCHANGED <<hook, drv, shares, pods, reqs, mu, pubs, tmpfs, sent, rollouts>>

----------------------------------------------------------------------------
(* Rollouts: a process starts again, with another environment or the same  *)

\* startServer of cmd/webhook
WebhookRestart(env) ==
    /\ rollouts < MaxRollouts
    /\ rollouts' = rollouts + 1
    /\ WebhookStarts(env)

\* a new process of cmd/csidriver
DriverRestart(env) ==
    /\ rollouts < MaxRollouts
    /\ rollouts' = rollouts + 1
    /\ DriverStarts(env)

----------------------------------------------------------------------------

Init ==
    /\ hook \in Envs
    /\ drv = hook
    /\ shares = [s \in Shares |-> None]
    /\ pods = [p \in Pods |-> None]
    /\ lister = shares
    /\ reqs = [r \in Requests |-> Idle]
    /\ mu = None
    /\ pubs = [p \in Pods |-> Unpublished]
    /\ tmpfs = [p \in Pods |-> {}]
    /\ sent = 0
    /\ rollouts = 0

Webhook(r) == HandleRequest(r) \/ SendResponse(r)

Next ==
    \/ \E r \in Requests : Webhook(r) \/ ReadBody(r) \/ EncodeFails(r) \/ Apply(r)
    \/ \E m \in Messages : Arrive(m)
    \/ \E p \in Pods : \E i \in 1 .. MaxVolumes : NodePublishVolume(p, i)
    \/ \E p \in Pods : ExecuteSAR(p) \/ mapBackingResourceToPod(p) \/ MapPanics(p)
    \/ \E s \in Shares : ListerUpdate(s)
    \/ \E env \in Envs : WebhookRestart(env) \/ DriverRestart(env)

\* Nothing is assumed of clients, of the API server or of the kubelet
Spec == Init /\ [][Next]_vars /\ \A r \in Requests : WF_vars(Webhook(r))

----------------------------------------------------------------------------
(* Properties *)

\* The reference for innerValidate: the name is not OpenShift's, or it is
\* reserved for this very reference, blanks apart
Conforms(env, s, ref) ==
    LET names == parseEnvVar(env[s.kind])
    IN s.name.word \notin OpenShiftWords
       \/ /\ s.name \in DOMAIN names
          /\ TrimSpace(names[s.name].namespace) = TrimSpace(ref.namespace)
          /\ TrimSpace(names[s.name].name) = TrimSpace(ref.name)

\* The reference for parseEnvVar: each name with the last of its entries
Listed(val) ==
    LET good    == {i \in 1 .. Len(val) : Len(val[i]) = 3}
        of(n)   == {i \in good : val[i][1].word = n.word}
        last(n) == CHOOSE i \in of(n) : \A j \in of(n) : j <= i
    IN [n \in {[word |-> val[i][1].word, padded |-> FALSE] : i \in good} |->
          [namespace |-> [word |-> val[last(n)][2].word, padded |-> FALSE],
           name      |-> [word |-> val[last(n)][3].word, padded |-> FALSE]]]

\* Every variable has its type; the mutex is held by the request that is
\* being handled and by no other.
TypeOK ==
    /\ hook \in Envs
    /\ drv \in Envs
    /\ shares \in [Shares -> ShareRecords \cup {None}]
    /\ lister \in [Shares -> ShareRecords \cup {None}]
    /\ pods \in [Pods -> PodSpecs \cup {None}]
    /\ \A r \in Requests :
         /\ reqs[r].pc \in {"idle", "arrived", "locked", "read", "answered"}
         /\ reqs[r].allowed \in BOOLEAN
         /\ reqs[r].env \in Envs \cup {None}
    /\ \A r \in Requests : Holds(r) <=> mu = r
    /\ \A p \in Pods : pubs[p].pc \in
         {"idle", "panic", "reserved", "readonly", "review", "populate", "mounted"}
    /\ tmpfs \in [Pods -> SUBSET (1 .. MaxVolumes)]
    /\ sent \in 0 .. MaxRequests
    /\ rollouts \in 0 .. MaxRollouts

\* The lists the webhook and the driver work with are what the environment
\* says: each name once, blanks cut off, the last of several entries
\* (parseEnvVar), entries without three fields skipped.
ReservationsAsListed ==
    \A env \in {hook, drv} :
        LET rn == SetupNameReservation(env)
        IN /\ rn.currentSecretNames = Listed(env["SharedSecret"])
           /\ rn.currentConfigMapNames = Listed(env["SharedConfigMap"])

\* A share is written only after the webhook judged it by its own list: a new
\* share conforms, and an update or a deletion found a share that conformed.
\* What an update writes is not judged (Rendered prefers OldObject), so a share
\* that does not conform is the work of an update or of a new list, and it
\* stays: it can be neither repaired nor deleted.
AdmittedAsJudged ==
    [][\A s \in Shares : shares'[s] # shares[s] =>
         \E r \in Requests :
            /\ reqs[r].pc = "answered"
            /\ reqs[r].msg.target = s
            /\ Conforms(reqs[r].env, s,
                        IF shares[s] = None THEN shares'[s].ref ELSE shares[s].ref)]_vars

\* The driver refuses a share for its name (validateShare) although the webhook
\* admitted it as a new one only when the two run with different lists.
GatesAgree ==
    \A p \in Pods : pubs[p].pc = "reserved" /\ pubs[p].judged.op = "CREATE" =>
        pubs[p].judged.env # pubs[p].env

\* validateShare judges the share once, and mapBackingResourceToPod gets it again
\* after the SubjectAccessReview and the mount. A volume is therefore populated
\* from a reference that violates the driver's list only when the share has
\* changed in between, and then by an update, whose new reference nobody judges,
\* or past a webhook that runs with another list.
PopulatedConforms ==
    \A p \in Pods :
        LET c == pubs[p]
        IN c.pc = "mounted" /\ c.copy # None /\ ~Conforms(c.env, c.share, c.copy.ref) =>
              /\ c.copy # c.judged
              /\ c.copy.op = "UPDATE" \/ c.copy.env # c.env

\* The driver never refuses a pod's volume for not being read-only: the webhook
\* did not let such a pod in (authorizePod), an unset ReadOnly included.
AdmittedPodsAreReadOnly ==
    \A p \in Pods : pubs[p].pc # "readonly"

\* validateShare never uses the share of an attribute that names none,
\* whatever the volume context holds: blanks, both attributes, or one.
ValidateShareNeverPanics ==
    \A p \in Pods : pubs[p].pc # "panic"

\* Every request that reaches the webhook is answered, or fails with its
\* process, provided that no client keeps the webhook waiting for a body forever:
\* HandleRequest serves one request at a time and always unlocks, but it reads
\* the body under the lock and the http.Server has no deadline
\* (dispatcher.go:45-46, 98, cmd/webhook/main.go:69-71).
RequestsAnswered ==
    (\A r \in Requests : []<>(reqs[r].pc # "locked")) =>
        \A r \in Requests :
            reqs[r].pc \in {"arrived", "locked", "read"}
                ~> reqs[r].pc \in {"answered", "idle"}
=============================================================================
