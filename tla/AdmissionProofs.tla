--------------------------- MODULE AdmissionProofs ---------------------------
(***************************************************************************)
(* What the webhook and the driver guarantee for any shares, pods,         *)
(* environments and bounds.  AdmissionInv follows a judgement from the     *)
(* webhook's answer to the API server, the lister and the volume.          *)
(***************************************************************************)
EXTENDS Admission, TLAPS

\* every message the API server may have asked about
CreateShares == {Message(s.kind, "CREATE", s, ShareObject(s, ref), None) :
                    s \in Shares, ref \in Refs}
UpdateShares == {Message(s.kind, "UPDATE", s, ShareObject(s, ref), ShareObject(s, old)) :
                    s \in Shares, ref \in Refs, old \in Refs}
DeleteShares == {Message(s.kind, "DELETE", s, None, ShareObject(s, old)) :
                    s \in Shares, old \in Refs}
CreatePods == {Message("Pod", "CREATE", p, PodObject(p, spec), None) :
                    p \in Pods, spec \in PodSpecs}
DeletePods == {Message("Pod", "DELETE", p, None, PodObject(p, spec)) :
                    p \in Pods, spec \in PodSpecs}
AnyMessage == {Unparsable, OtherKind, Undecodable}
                \cup CreateShares \cup UpdateShares \cup DeleteShares
                \cup CreatePods \cup DeletePods

RequestRecords == [pc : {"idle", "arrived", "locked", "read", "answered"},
                   msg : AnyMessage, allowed : BOOLEAN, env : Envs \cup {None}]

PubRecords == [pc : {"idle", "panic", "reserved", "readonly", "review", "populate",
                     "mounted"},
               volume : Nat, share : Shares \cup {None},
               judged : ShareRecords \cup {None}, copy : ShareRecords \cup {None},
               env : Envs \cup {None}]

Types ==
    /\ hook \in Envs
    /\ drv \in Envs
    /\ shares \in [Shares -> ShareRecords \cup {None}]
    /\ lister \in [Shares -> ShareRecords \cup {None}]
    /\ pods \in [Pods -> PodSpecs \cup {None}]
    /\ reqs \in [Requests -> RequestRecords]
    /\ mu \in Requests \cup {None}
    /\ \A r \in Requests : Holds(r) <=> mu = r
    /\ pubs \in [Pods -> PubRecords]
    /\ tmpfs \in [Pods -> SUBSET (1 .. MaxVolumes)]
    /\ sent \in 0 .. MaxRequests
    /\ rollouts \in 0 .. MaxRollouts

\* the reference the webhook judged
JudgedRef(m) == IF m.oldObject = None THEN m.object.ref ELSE m.oldObject.ref

\* an allowed request was judged by the environment it carries
Judged(q) ==
    q.pc = "answered" /\ q.allowed =>
        /\ q.env \in Envs
        /\ q.msg.target \in Shares => Conforms(q.env, q.msg.target, JudgedRef(q.msg))
        /\ q.msg.target \in Pods /\ q.msg.op = "CREATE" => authorizePod(q.msg.object.spec)

CreatedConforms(s, w) == w # None /\ w.op = "CREATE" => Conforms(w.env, s, w.ref)

\* the call of pod p has a volume of the pod and the share it was judged by; the
\* share the data was copied for was judged by a webhook if it was a new one
PubOK(p) ==
    /\ pubs[p].pc \in {"review", "populate", "mounted", "reserved"} =>
         /\ pods[p] # None
         /\ pubs[p].volume \in 1 .. Len(pods[p])
         /\ pubs[p].volume \in 1 .. MaxVolumes
         /\ SharedDriver(pods[p][pubs[p].volume])
         /\ pubs[p].share \in Shares
         /\ pubs[p].judged \in ShareRecords
         /\ pubs[p].env \in Envs
         /\ CreatedConforms(pubs[p].share, pubs[p].judged)
         /\ CreatedConforms(pubs[p].share, pubs[p].copy)
    /\ pubs[p].pc \in {"review", "populate", "mounted"} =>
         Conforms(pubs[p].env, pubs[p].share, pubs[p].judged.ref)
    /\ pubs[p].pc = "reserved" => ~Conforms(pubs[p].env, pubs[p].share, pubs[p].judged.ref)
    /\ pubs[p].pc \notin {"panic", "readonly"}

RequestsOK == \A r \in Requests : Judged(reqs[r])
SharesOK   == \A s \in Shares : CreatedConforms(s, shares[s]) /\ CreatedConforms(s, lister[s])
PodsOK     == \A p \in Pods : pods[p] # None => authorizePod(pods[p])
PubsOK     == \A p \in Pods : PubOK(p)

AdmissionInv == Types /\ RequestsOK /\ SharesOK /\ PodsOK /\ PubsOK

----------------------------------------------------------------------------
(* Facts about the operators *)

\* The two validations of the code decide what Conforms says.
LEMMA ValidateConforms ==
    ASSUME NEW env, NEW s \in Shares, NEW ref
    PROVE  /\ s.kind = "SharedSecret" =>
                (ValidateSharedSecretOpenShiftName(env, s.name, ref) <=> Conforms(env, s, ref))
           /\ s.kind = "SharedConfigMap" =>
                (ValidateSharedConfigMapOpenShiftName(env, s.name, ref) <=> Conforms(env, s, ref))
  BY AdmissionAssumption, Zenon
  DEF ValidateSharedSecretOpenShiftName, ValidateSharedConfigMapOpenShiftName, innerValidate,
      SetupNameReservation, startsWithOpenShift, Conforms

\* Every message has one of six shapes.
LEMMA MessageShapes ==
    ASSUME NEW m \in AnyMessage
    PROVE  \/ m \in {Unparsable, OtherKind, Undecodable}
           \/ \E s \in Shares, ref \in Refs :
                 m = Message(s.kind, "CREATE", s, ShareObject(s, ref), None)
           \/ \E s \in Shares, ref \in Refs, old \in Refs :
                 m = Message(s.kind, "UPDATE", s, ShareObject(s, ref), ShareObject(s, old))
           \/ \E s \in Shares, old \in Refs :
                 m = Message(s.kind, "DELETE", s, None, ShareObject(s, old))
           \/ \E p \in Pods, spec \in PodSpecs :
                 m = Message("Pod", "CREATE", p, PodObject(p, spec), None)
           \/ \E p \in Pods, spec \in PodSpecs :
                 m = Message("Pod", "DELETE", p, None, PodObject(p, spec))
<1>1. CASE m \in CreateShares
  BY <1>1, SMT DEF CreateShares
<1>2. CASE m \in UpdateShares
  BY <1>2, SMT DEF UpdateShares
<1>3. CASE m \in DeleteShares
  BY <1>3, SMT DEF DeleteShares
<1>4. CASE m \in CreatePods
  BY <1>4, SMT DEF CreatePods
<1>5. CASE m \in DeletePods
  BY <1>5, SMT DEF DeletePods
<1> QED
  BY <1>1, <1>2, <1>3, <1>4, <1>5 DEF AnyMessage

\* What the API server may ask now is one of these messages.
LEMMA MessagesAny ==
    ASSUME Types, NEW m \in Messages
    PROVE  m \in AnyMessage
<1>1. CASE m \in {Unparsable, OtherKind, Undecodable}
  BY <1>1 DEF AnyMessage
<1>2. ASSUME NEW s \in Shares, m \in ShareWrites(s)
      PROVE  m \in CreateShares \cup UpdateShares \cup DeleteShares
  <2>1. CASE shares[s] = None
    <3>1. PICK ref \in Refs : m = Message(s.kind, "CREATE", s, ShareObject(s, ref), None)
      BY <1>2, <2>1 DEF ShareWrites
    <3> QED
      BY <3>1 DEF CreateShares
  <2>2. CASE shares[s] # None
    <3>1. shares[s] \in ShareRecords
      BY <2>2 DEF Types
    <3>2. PICK old \in Refs : Stored(s) = ShareObject(s, old)
      BY <2>2, <3>1 DEF Stored, ShareRecords
    <3>3. CASE m = Message(s.kind, "DELETE", s, None, Stored(s))
      BY <3>2, <3>3 DEF DeleteShares
    <3>4. CASE \E ref \in Refs :
                 m = Message(s.kind, "UPDATE", s, ShareObject(s, ref), Stored(s))
      BY <3>2, <3>4 DEF UpdateShares
    <3> QED
      BY <1>2, <2>2, <3>3, <3>4 DEF ShareWrites
  <2> QED
    BY <2>1, <2>2
<1>3. ASSUME NEW p \in Pods, m \in PodWrites(p)
      PROVE  m \in CreatePods \cup DeletePods
  <2>1. CASE pods[p] = None
    <3>1. PICK spec \in PodSpecs : m = Message("Pod", "CREATE", p, PodObject(p, spec), None)
      BY <1>3, <2>1 DEF PodWrites
    <3> QED
      BY <3>1 DEF CreatePods
  <2>2. CASE pods[p] # None
    <3>1. pods[p] \in PodSpecs
      BY <2>2 DEF Types
    <3>2. m = Message("Pod", "DELETE", p, None, PodObject(p, pods[p]))
      BY <1>3, <2>2 DEF PodWrites, StoredPod
    <3> QED
      BY <3>1, <3>2 DEF DeletePods
  <2> QED
    BY <2>1, <2>2
<1>4. \/ m \in {Unparsable, OtherKind, Undecodable}
      \/ \E s \in Shares : m \in ShareWrites(s)
      \/ \E p \in Pods : m \in PodWrites(p)
  BY Zenon DEF Messages
<1> QED
  BY <1>1, <1>2, <1>3, <1>4 DEF AnyMessage

\* A share the webhook renders is judged by Conforms.
LEMMA ShareJudged ==
    ASSUME NEW m, NEW env, NEW s \in Shares, NEW ref \in Refs,
           Rendered(m) = ShareObject(s, ref), Authorized(env, m)
    PROVE  Conforms(env, s, ref)
<1> DEFINE obj == ShareObject(s, ref)
<1>1. obj # None /\ obj.kind = s.kind /\ obj.name = s.name /\ obj.ref = ref
  BY AdmissionAssumption DEF ShareObject
<1>2. s.kind \in Kinds /\ s.kind # "Pod"
  BY AdmissionAssumption DEF Kinds
<1>3. RenderedKind(m) = s.kind
  BY <1>1 DEF RenderedKind
<1>4. authorizeShare(env, obj)
  BY <1>2, <1>3 DEF Authorized
<1> QED
  BY <1>1, <1>2, <1>4, ValidateConforms DEF authorizeShare, Kinds

\* A pod the webhook renders is judged by authorizePod.
LEMMA PodJudged ==
    ASSUME NEW m, NEW env, NEW p \in Pods, NEW spec \in PodSpecs,
           Rendered(m) = PodObject(p, spec), Authorized(env, m)
    PROVE  authorizePod(spec)
<1> DEFINE obj == PodObject(p, spec)
<1>1. obj # None /\ obj.kind = "Pod" /\ obj.spec = spec
  BY AdmissionAssumption DEF PodObject
<1>3. RenderedKind(m) = "Pod"
  BY <1>1 DEF RenderedKind
<1> HIDE DEF obj
<1>4. authorizePod(obj.spec)
  BY <1>3 DEF Authorized, Kinds, obj
<1> QED
  BY <1>1, <1>4

\* What the webhook allows was judged: a share by Conforms, a new pod by
\* authorizePod.
LEMMA AuthorizedJudged ==
    ASSUME NEW m \in AnyMessage, NEW env, Authorized(env, m)
    PROVE  /\ m.target \in Shares => Conforms(env, m.target, JudgedRef(m))
           /\ m.target \in Pods /\ m.op = "CREATE" => authorizePod(m.object.spec)
<1>1. CASE m \in {Unparsable, OtherKind, Undecodable}
  BY <1>1, AdmissionAssumption DEF Unparsable, OtherKind, Undecodable, WithoutObject
<1>2. ASSUME NEW s \in Shares, NEW ref \in Refs,
             m = Message(s.kind, "CREATE", s, ShareObject(s, ref), None)
      PROVE  Conforms(env, s, ref) /\ m.target = s /\ JudgedRef(m) = ref
  <2>1. m.target = s /\ m.oldObject = None /\ m.object = ShareObject(s, ref)
    BY <1>2 DEF Message
  <2>2. JudgedRef(m) = ref
    BY <2>1 DEF JudgedRef, ShareObject
  <2> QED
    BY <2>1, <2>2, ShareJudged DEF Rendered
<1>3. ASSUME NEW s \in Shares, NEW old \in Refs,
             m.target = s, m.oldObject = ShareObject(s, old)
      PROVE  Conforms(env, s, old) /\ m.target = s /\ JudgedRef(m) = old
  <2>1. ShareObject(s, old) # None /\ ShareObject(s, old).ref = old
    BY AdmissionAssumption DEF ShareObject
  <2> QED
    BY <1>3, <2>1, ShareJudged DEF Rendered, JudgedRef
<1>4. ASSUME NEW s \in Shares, NEW ref \in Refs, NEW old \in Refs,
             m = Message(s.kind, "UPDATE", s, ShareObject(s, ref), ShareObject(s, old))
      PROVE  m.target = s /\ m.oldObject = ShareObject(s, old)
  BY <1>4 DEF Message
<1>5. ASSUME NEW s \in Shares, NEW old \in Refs,
             m = Message(s.kind, "DELETE", s, None, ShareObject(s, old))
      PROVE  m.target = s /\ m.oldObject = ShareObject(s, old)
  BY <1>5 DEF Message
<1>6. ASSUME NEW p \in Pods, NEW spec \in PodSpecs,
             m = Message("Pod", "CREATE", p, PodObject(p, spec), None)
      PROVE  m.target = p /\ authorizePod(m.object.spec)
  <2>1. m.target = p /\ m.oldObject = None /\ m.object = PodObject(p, spec)
    BY <1>6 DEF Message
  <2>2. m.object.spec = spec
    BY <2>1 DEF PodObject
  <2> QED
    BY <2>1, <2>2, PodJudged DEF Rendered
<1>7. ASSUME NEW p \in Pods, NEW spec \in PodSpecs,
             m = Message("Pod", "DELETE", p, None, PodObject(p, spec))
      PROVE  m.target = p /\ m.op = "DELETE"
  BY <1>7 DEF Message
<1> QED
  <2>1. Shares \cap Pods = {}
    BY AdmissionAssumption
  <2>2. CASE m.target \in Shares
    BY <2>1, <2>2, <1>1, <1>2, <1>3, <1>4, <1>5, <1>6, <1>7, MessageShapes
  <2>3. CASE m.target \in Pods /\ m.op = "CREATE"
    BY <2>1, <2>3, <1>1, <1>2, <1>4, <1>5, <1>6, <1>7, MessageShapes
  <2> QED
    BY <2>1, <2>2, <2>3

\* validateShare never uses a nil share; what it finds is the share the volume
\* context names, and it conforms or is refused for its name.
LEMMA ValidateShareJudged ==
    ASSUME Types, NEW cm, NEW secret
    PROVE  LET end == validateShare(cm, secret)
               s   == Named(cm, secret)
           IN /\ end \in {"idle", "reserved", "review"}
              /\ end \in {"reserved", "review"} =>
                   /\ s \in Shares
                   /\ lister[s] \in ShareRecords
              /\ end = "review" =>
                   Conforms(drv, s, lister[s].ref) /\ ~BlankRef(lister[s].ref)
              /\ end = "reserved" => ~Conforms(drv, s, lister[s].ref)
<1> DEFINE end     == validateShare(cm, secret)
           s       == Named(cm, secret)
           cmShare == Get("SharedConfigMap", cm)
           sShare  == Get("SharedSecret", secret)
           early   == \/ Missing(cm, secret)
                      \/ Both(cm, secret)
                      \/ NotFound("SharedConfigMap", cm)
                      \/ NotFound("SharedSecret", secret)
                      \/ cmShare = None /\ sShare = None
<1>1. CASE early
  BY <1>1, SMT DEF validateShare
<1>2. CASE ~early /\ cm # None
  <2>1. secret = None /\ Empty(secret) /\ ~Empty(cm)
    <3>1. secret = None
      BY <1>2 DEF Both
    <3>2. Empty(secret) /\ IsBlank(secret)
      BY <3>1 DEF Empty, IsBlank, Text
    <3>3. ~IsBlank(cm)
      BY <1>2, <3>2 DEF Missing
    <3> QED
      BY <3>1, <3>2, <3>3 DEF Empty, IsBlank
  <2>2. sShare = None /\ cmShare # None
    BY <1>2, <2>1 DEF Get, NotFound
  <2>3. s = [kind |-> "SharedConfigMap", name |-> Text(cm)]
    BY <1>2 DEF Named
  <2>4. s \in Shares /\ cmShare = lister[s]
    BY <2>2, <2>3 DEF Get
  <2>5. lister[s] \in ShareRecords
    BY <2>2, <2>4 DEF Types
  <2>6. s.kind = "SharedConfigMap" /\ s.name = Text(cm)
    BY <2>3
  <2>7. ValidateSharedConfigMapOpenShiftName(drv, Text(cm), cmShare.ref)
          <=> Conforms(drv, s, lister[s].ref)
    BY <2>4, <2>6, ValidateConforms
  <2>8. end = IF ~ValidateSharedConfigMapOpenShiftName(drv, Text(cm), cmShare.ref)
                THEN "reserved"
                ELSE IF BlankRef(cmShare.ref) THEN "idle" ELSE "review"
    <3> HIDE DEF cmShare, sShare
    <3> QED
      BY <1>2, <2>1, <2>2 DEF validateShare, cmShare, sShare
  <2> HIDE DEF end, s, cmShare
  <2>9. /\ end \in {"idle", "reserved", "review"}
        /\ end = "review" => Conforms(drv, s, lister[s].ref) /\ ~BlankRef(cmShare.ref)
        /\ end = "reserved" => ~Conforms(drv, s, lister[s].ref)
    BY <2>7, <2>8
  <2> QED
    BY <2>4, <2>5, <2>9 DEF end, s
<1>3. CASE ~early /\ cm = None
  <2>1. Empty(cm) /\ secret # None /\ ~Empty(secret)
    <3>1. Empty(cm) /\ IsBlank(cm)
      BY <1>3 DEF Empty, IsBlank, Text
    <3>2. secret # None /\ ~IsBlank(secret)
      BY <1>3, <3>1 DEF Missing
    <3> QED
      BY <3>1, <3>2 DEF Empty, IsBlank
  <2>2. cmShare = None /\ sShare # None
    BY <1>3, <2>1 DEF Get, NotFound
  <2>3. s = [kind |-> "SharedSecret", name |-> Text(secret)]
    BY <1>3 DEF Named
  <2>4. s \in Shares /\ sShare = lister[s]
    BY <2>2, <2>3 DEF Get
  <2>5. lister[s] \in ShareRecords
    BY <2>2, <2>4 DEF Types
  <2>6. s.kind = "SharedSecret" /\ s.name = Text(secret)
    BY <2>3
  <2>7. ValidateSharedSecretOpenShiftName(drv, Text(secret), sShare.ref)
          <=> Conforms(drv, s, lister[s].ref)
    BY <2>4, <2>6, ValidateConforms
  <2>8. end = IF ~ValidateSharedSecretOpenShiftName(drv, Text(secret), sShare.ref)
                THEN "reserved"
                ELSE IF BlankRef(sShare.ref) THEN "idle" ELSE "review"
    <3> HIDE DEF cmShare, sShare
    <3> QED
      BY <1>3, <2>1, <2>2 DEF validateShare, cmShare, sShare
  <2> HIDE DEF end, s, sShare
  <2>9. /\ end \in {"idle", "reserved", "review"}
        /\ end = "review" => Conforms(drv, s, lister[s].ref) /\ ~BlankRef(sShare.ref)
        /\ end = "reserved" => ~Conforms(drv, s, lister[s].ref)
    BY <2>7, <2>8
  <2> QED
    BY <2>4, <2>5, <2>9 DEF end, s
<1> QED
  BY <1>1, <1>2, <1>3

----------------------------------------------------------------------------
(* The invariant *)

\* The initial states satisfy the invariant.
LEMMA InitInv == Init => AdmissionInv
<1> SUFFICES ASSUME Init PROVE AdmissionInv
  OBVIOUS
<1>1. Idle \in RequestRecords
  BY DEF Idle, RequestRecords, AnyMessage
<1>2. Unpublished \in PubRecords
  BY DEF Unpublished, PubRecords
<1>3. reqs \in [Requests -> RequestRecords] /\ \A r \in Requests : reqs[r] = Idle
  BY <1>1 DEF Init
<1>4. pubs \in [Pods -> PubRecords] /\ \A p \in Pods : pubs[p] = Unpublished
  BY <1>2 DEF Init
<1>5. Idle.pc = "idle" /\ Unpublished.pc = "idle"
  BY DEF Idle, Unpublished
<1>6. Types
  BY <1>3, <1>4, <1>5, AdmissionAssumption DEF Init, Types, Holds
<1>7. RequestsOK
  BY <1>3, <1>5 DEF RequestsOK, Judged
<1>8. SharesOK
  BY DEF Init, SharesOK, CreatedConforms
<1>9. PodsOK
  BY DEF Init, PodsOK
<1>10. PubsOK
  BY <1>4, <1>5 DEF PubsOK, PubOK
<1> QED
  BY <1>6, <1>7, <1>8, <1>9, <1>10 DEF AdmissionInv

\* Taking Dispatcher.mu changes one request that carries no judgement yet.
LEMMA HandleRequestInv ==
    ASSUME AdmissionInv, NEW r \in Requests, HandleRequest(r)
    PROVE  AdmissionInv'
<1> USE DEF AdmissionInv
<1> DEFINE q == [reqs[r] EXCEPT !.pc = "locked"]
<1>1. reqs[r] \in RequestRecords /\ r # None
  BY AdmissionAssumption DEF Types
<1>2. q \in RequestRecords /\ q.pc = "locked"
  BY <1>1 DEF RequestRecords
<1>3. reqs' = [reqs EXCEPT ![r] = q]
  BY DEF HandleRequest
<1> HIDE DEF q
<1>4. Types'
  <2>1. reqs' \in [Requests -> RequestRecords]
    BY <1>2, <1>3 DEF Types
  <2>2. \A x \in Requests : Holds(x)' <=> mu' = x
    BY <1>1, <1>2, <1>3, AdmissionAssumption DEF Types, Holds, HandleRequest
  <2> QED
    BY <2>1, <2>2 DEF Types, HandleRequest
<1>5. RequestsOK'
  BY <1>2, <1>3 DEF RequestsOK, Judged, Types
<1>6. SharesOK' /\ PodsOK' /\ PubsOK'
  BY DEF SharesOK, PodsOK, PubsOK, PubOK, HandleRequest
<1> QED
  BY <1>4, <1>5, <1>6

\* A body that was read is the message that was sent, or cannot be parsed.
LEMMA ReadBodyInv ==
    ASSUME AdmissionInv, NEW r \in Requests, ReadBody(r)
    PROVE  AdmissionInv'
<1> USE DEF AdmissionInv
<1>1. PICK m \in {reqs[r].msg, Unparsable} :
         reqs' = [reqs EXCEPT ![r] = [reqs[r] EXCEPT !.pc = "read", !.msg = m]]
  BY DEF ReadBody
<1> DEFINE q == [reqs[r] EXCEPT !.pc = "read", !.msg = m]
<1>2. reqs[r] \in RequestRecords /\ m \in AnyMessage
  BY <1>1 DEF Types, RequestRecords, AnyMessage
<1>3. q \in RequestRecords /\ q.pc = "read"
  BY <1>2 DEF RequestRecords
<1>4. reqs' = [reqs EXCEPT ![r] = q] /\ Holds(r)
  BY <1>1 DEF ReadBody, Holds
<1> HIDE DEF q
<1>5. Types'
  <2>1. reqs' \in [Requests -> RequestRecords]
    BY <1>3, <1>4 DEF Types
  <2>2. \A x \in Requests : Holds(x)' <=> mu' = x
    BY <1>3, <1>4 DEF Types, Holds, ReadBody
  <2> QED
    BY <2>1, <2>2 DEF Types, ReadBody
<1>6. RequestsOK'
  BY <1>3, <1>4 DEF RequestsOK, Judged, Types
<1>7. SharesOK' /\ PodsOK' /\ PubsOK'
  BY DEF SharesOK, PodsOK, PubsOK, PubOK, ReadBody
<1> QED
  BY <1>5, <1>6, <1>7

\* An answer carries the judgement of the webhook's own list.
LEMMA SendResponseInv ==
    ASSUME AdmissionInv, NEW r \in Requests, SendResponse(r)
    PROVE  AdmissionInv'
<1> USE DEF AdmissionInv
<1> DEFINE m == reqs[r].msg
           allowed == ParseHTTPRequest(m) /\ Validate(m) /\ Authorized(hook, m)
           q == [reqs[r] EXCEPT !.pc = "answered", !.allowed = allowed, !.env = hook]
<1>1. reqs[r] \in RequestRecords /\ r # None
  BY AdmissionAssumption DEF Types
<1>2. reqs' = [reqs EXCEPT ![r] = q]
  BY DEF SendResponse
<1>3. /\ q \in RequestRecords
      /\ q.pc = "answered" /\ q.msg = m /\ q.allowed = allowed /\ q.env = hook
      /\ m \in AnyMessage
  <2>1. allowed \in BOOLEAN
    BY DEF ParseHTTPRequest, Validate, Authorized
  <2> HIDE DEF allowed
  <2> QED
    BY <1>1, <2>1 DEF RequestRecords, Types
<1>4. Judged(q)
  BY <1>3, AuthorizedJudged DEF Judged, Types
<1> HIDE DEF q
<1>5. Types'
  <2>1. reqs' \in [Requests -> RequestRecords]
    BY <1>2, <1>3 DEF Types
  <2>2. \A x \in Requests : Holds(x)' <=> mu' = x
    BY <1>1, <1>2, <1>3, AdmissionAssumption DEF Types, Holds, SendResponse
  <2> QED
    BY <2>1, <2>2 DEF Types, SendResponse
<1>6. RequestsOK'
  BY <1>2, <1>4 DEF RequestsOK, Types
<1>7. SharesOK' /\ PodsOK' /\ PubsOK'
  BY DEF SharesOK, PodsOK, PubsOK, PubOK, SendResponse
<1> QED
  BY <1>5, <1>6, <1>7

\* A request that arrives is one of the messages and carries no judgement.
LEMMA SendInv ==
    ASSUME AdmissionInv, NEW r \in Requests, NEW m \in Messages, Send(r, m)
    PROVE  AdmissionInv'
<1> USE DEF AdmissionInv
<1> DEFINE q == [Idle EXCEPT !.pc = "arrived", !.msg = m]
<1>1. /\ q \in RequestRecords
      /\ q.pc = "arrived"
  <2>1. m \in AnyMessage
    BY MessagesAny
  <2> QED
    BY <2>1 DEF Idle, RequestRecords
<1>2. reqs' = [reqs EXCEPT ![r] = q]
  BY DEF Send
<1> HIDE DEF q
<1>3. Types'
  <2>1. reqs' \in [Requests -> RequestRecords]
    BY <1>1, <1>2 DEF Types
  <2>2. \A x \in Requests : Holds(x)' <=> mu' = x
    BY <1>1, <1>2 DEF Types, Holds, Send
  <2>3. sent' \in 0 .. MaxRequests
    BY AdmissionAssumption DEF Types, Send
  <2> QED
    BY <2>1, <2>2, <2>3 DEF Types, Send
<1>4. RequestsOK'
  BY <1>1, <1>2 DEF RequestsOK, Types, Judged
<1>5. SharesOK' /\ PodsOK' /\ PubsOK'
  BY DEF SharesOK, PodsOK, PubsOK, PubOK, Send
<1> QED
  BY <1>3, <1>4, <1>5

\* The idle request and the idle call have their types.
LEMMA IdleInv ==
    /\ Idle \in RequestRecords /\ Idle.pc = "idle"
    /\ Unpublished \in PubRecords /\ Unpublished.pc = "idle"
  BY DEF Idle, RequestRecords, AnyMessage, Unpublished, PubRecords

\* What the API server writes was judged: a new share conforms, a new pod is
\* read-only, and the call of a pod that goes is forgotten.
LEMMA ApplyInv ==
    ASSUME AdmissionInv, NEW r \in Requests, Apply(r)
    PROVE  AdmissionInv'
<1> USE DEF AdmissionInv
<1> DEFINE m == reqs[r].msg
<1>1. /\ reqs' = [reqs EXCEPT ![r] = Idle]
      /\ reqs[r].pc = "answered"
      /\ UNCHANGED <<hook, drv, lister, mu, sent, rollouts>>
  BY DEF Apply
<1>2. RequestsOK'
  BY <1>1, IdleInv DEF RequestsOK, Judged, Types
<1>3. /\ reqs' \in [Requests -> RequestRecords]
      /\ \A x \in Requests : Holds(x)' <=> mu' = x
  BY <1>1, IdleInv DEF Types, Holds
<1>4. m \in AnyMessage
  BY DEF Types, RequestRecords
<1>5. CASE Refused(r)
  <2>1. UNCHANGED <<shares, pods, pubs, tmpfs>>
    BY <1>5 DEF Refused
  <2>2. Types'
    BY <1>1, <1>3, <2>1 DEF Types
  <2>3. SharesOK' /\ PodsOK' /\ PubsOK'
    BY <1>1, <2>1 DEF SharesOK, PodsOK, PubsOK, PubOK
  <2> QED
    BY <1>2, <2>2, <2>3
<1>6. CASE reqs[r].allowed /\ WriteShare(r, m)
  <2> DEFINE s == m.target
             w == IF m.op = "DELETE" THEN None
                  ELSE [ref |-> m.object.ref, op |-> m.op, env |-> reqs[r].env]
  <2>1. /\ s \in Shares
        /\ shares' = [shares EXCEPT ![s] = w]
        /\ UNCHANGED <<pods, pubs, tmpfs>>
    BY <1>6 DEF WriteShare
  <2>2. Judged(reqs[r])
    BY DEF RequestsOK
  <2>3. reqs[r].env \in Envs /\ Conforms(reqs[r].env, s, JudgedRef(m))
    BY <1>1, <1>6, <2>1, <2>2 DEF Judged
  <2>4. (w \in ShareRecords \/ w = None) /\ CreatedConforms(s, w)
    <3>1. ASSUME NEW t \in Shares, NEW ref \in Refs,
                 m = Message(t.kind, "CREATE", t, ShareObject(t, ref), None)
          PROVE  (w \in ShareRecords \/ w = None) /\ CreatedConforms(s, w)
      <4>1. m.op = "CREATE" /\ m.oldObject = None /\ m.object.ref = ref
        BY <3>1 DEF Message, ShareObject
      <4>2. w = [ref |-> ref, op |-> "CREATE", env |-> reqs[r].env]
        BY <4>1
      <4>3. JudgedRef(m) = ref
        BY <4>1 DEF JudgedRef
      <4> HIDE DEF w, s, m
      <4> QED
        BY <2>3, <4>2, <4>3 DEF ShareRecords, CreatedConforms
    <3>2. ASSUME NEW t \in Shares, NEW ref \in Refs, NEW old \in Refs,
                 m = Message(t.kind, "UPDATE", t, ShareObject(t, ref), ShareObject(t, old))
          PROVE  (w \in ShareRecords \/ w = None) /\ CreatedConforms(s, w)
      <4>1. m.op = "UPDATE" /\ m.object.ref = ref
        BY <3>2 DEF Message, ShareObject
      <4>2. w = [ref |-> ref, op |-> "UPDATE", env |-> reqs[r].env]
        BY <4>1
      <4> HIDE DEF w, s, m
      <4> QED
        BY <2>3, <4>2 DEF ShareRecords, CreatedConforms
    <3>3. ASSUME m.op = "DELETE"
          PROVE  (w \in ShareRecords \/ w = None) /\ CreatedConforms(s, w)
      BY <3>3 DEF CreatedConforms
    <3>4. ASSUME NEW t \in Shares, NEW old \in Refs,
                 m = Message(t.kind, "DELETE", t, None, ShareObject(t, old))
          PROVE  m.op = "DELETE"
      BY <3>4 DEF Message
    <3>5. ASSUME NEW p \in Pods, NEW spec \in PodSpecs,
                 \/ m = Message("Pod", "CREATE", p, PodObject(p, spec), None)
                 \/ m = Message("Pod", "DELETE", p, None, PodObject(p, spec))
          PROVE  FALSE
      <4>1. m.target = p
        BY <3>5 DEF Message
      <4> QED
        BY <2>1, <4>1, AdmissionAssumption
    <3>6. m \notin {Unparsable, OtherKind, Undecodable}
      BY <2>1, AdmissionAssumption DEF Unparsable, OtherKind, Undecodable, WithoutObject
    <3> HIDE DEF w, s, m
    <3> QED
      BY <1>4, <3>1, <3>2, <3>3, <3>4, <3>5, <3>6, MessageShapes
  <2> HIDE DEF w, s, m
  <2>5. Types'
    <3>1. shares' \in [Shares -> ShareRecords \cup {None}]
      BY <2>1, <2>4 DEF Types
    <3> QED
      BY <1>1, <1>3, <2>1, <3>1 DEF Types
  <2>6. SharesOK'
    BY <1>1, <2>1, <2>4 DEF SharesOK, Types
  <2>7. PodsOK' /\ PubsOK'
    BY <2>1 DEF PodsOK, PubsOK, PubOK
  <2> QED
    BY <1>2, <2>5, <2>6, <2>7
<1>7. CASE reqs[r].allowed /\ WritePod(m)
  <2> DEFINE p == m.target
             spec == IF m.op = "DELETE" THEN None ELSE m.object.spec
  <2>1. /\ p \in Pods
        /\ pods' = [pods EXCEPT ![p] = spec]
        /\ pubs' = [pubs EXCEPT ![p] = Unpublished]
        /\ tmpfs' = [tmpfs EXCEPT ![p] = {}]
        /\ UNCHANGED shares
    BY <1>7 DEF WritePod
  <2>2. Judged(reqs[r])
    BY DEF RequestsOK
  <2>3. m.op = "CREATE" => authorizePod(m.object.spec)
    BY <1>1, <1>7, <2>1, <2>2 DEF Judged
  <2>4. spec \in PodSpecs \cup {None} /\ (spec # None => authorizePod(spec))
    <3>1. ASSUME NEW t \in Pods, NEW x \in PodSpecs,
                 m = Message("Pod", "CREATE", t, PodObject(t, x), None)
          PROVE  m.op = "CREATE" /\ m.object.spec = x
      BY <3>1 DEF Message, PodObject
    <3>2. ASSUME NEW t \in Pods, NEW x \in PodSpecs,
                 m = Message("Pod", "DELETE", t, None, PodObject(t, x))
          PROVE  m.op = "DELETE"
      BY <3>2 DEF Message
    <3>3. ASSUME NEW t \in Shares, NEW ref \in Refs, NEW old \in Refs,
                 \/ m = Message(t.kind, "CREATE", t, ShareObject(t, ref), None)
                 \/ m = Message(t.kind, "UPDATE", t, ShareObject(t, ref), ShareObject(t, old))
                 \/ m = Message(t.kind, "DELETE", t, None, ShareObject(t, old))
          PROVE  FALSE
      <4>1. m.target = t
        BY <3>3 DEF Message
      <4> QED
        BY <2>1, <4>1, AdmissionAssumption
    <3>4. m \notin {Unparsable, OtherKind, Undecodable}
      BY <2>1, AdmissionAssumption DEF Unparsable, OtherKind, Undecodable, WithoutObject
    <3>5. CASE m.op = "DELETE"
      BY <3>5
    <3>6. CASE m.op = "CREATE" /\ m.object.spec \in PodSpecs
      BY <2>3, <3>6
    <3> HIDE DEF spec, p, m
    <3> QED
      BY <1>4, <3>1, <3>2, <3>3, <3>4, <3>5, <3>6, MessageShapes
  <2> HIDE DEF spec, p, m
  <2>5. Types'
    <3>1. /\ pods' \in [Pods -> PodSpecs \cup {None}] /\ pubs' \in [Pods -> PubRecords]
          /\ tmpfs' \in [Pods -> SUBSET (1 .. MaxVolumes)]
      BY <2>1, <2>4, IdleInv DEF Types
    <3> QED
      BY <1>1, <1>3, <2>1, <3>1 DEF Types
  <2>6. SharesOK'
    BY <1>1, <2>1 DEF SharesOK
  <2>7. PodsOK'
    BY <2>1, <2>4 DEF PodsOK, Types
  <2>8. ASSUME NEW x \in Pods PROVE PubOK(x)'
    <3>1. CASE x = p
      <4>1. pubs'[x].pc = "idle"
        BY <2>1, <3>1, IdleInv DEF Types
      <4> QED
        BY <4>1 DEF PubOK
    <3>2. CASE x # p
      <4>1. pubs'[x] = pubs[x] /\ pods'[x] = pods[x] /\ PubOK(x)
        BY <2>1, <3>2 DEF Types, PubsOK
      <4> QED
        BY <4>1 DEF PubOK
    <3> QED
      BY <3>1, <3>2
  <2>9. PubsOK'
    BY <2>8 DEF PubsOK
  <2> QED
    BY <1>2, <2>5, <2>6, <2>7, <2>9
<1> QED
  BY <1>5, <1>6, <1>7 DEF Apply

\* A step of one pod's call leaves everything else as it is.
LEMMA PubStepInv ==
    ASSUME AdmissionInv, NEW p \in Pods, PubOK(p)',
           pubs' \in [Pods -> PubRecords],
           tmpfs' \in [Pods -> SUBSET (1 .. MaxVolumes)],
           \A x \in Pods : x # p => pubs'[x] = pubs[x],
           UNCHANGED <<hook, drv, shares, pods, lister, reqs, mu, sent, rollouts>>
    PROVE  AdmissionInv'
<1> USE DEF AdmissionInv
<1>1. Types'
  BY DEF Types, Holds
<1>2. RequestsOK' /\ SharesOK' /\ PodsOK'
  BY DEF RequestsOK, SharesOK, PodsOK
<1>3. ASSUME NEW x \in Pods PROVE PubOK(x)'
  <2>1. CASE x # p
    BY <2>1 DEF PubsOK, PubOK
  <2> QED
    BY <2>1
<1> QED
  BY <1>1, <1>2, <1>3 DEF PubsOK

\* A call that goes on to the review holds a share that conforms.
LEMMA NodePublishVolumeInv ==
    ASSUME AdmissionInv, NEW p \in Pods, NEW i \in 1 .. MaxVolumes, NodePublishVolume(p, i)
    PROVE  AdmissionInv'
<1> USE DEF AdmissionInv
<1> DEFINE cm     == pods[p][i].attributes.sharedConfigMap
           secret == pods[p][i].attributes.sharedSecret
           end    == validateShare(cm, secret)
           s      == Named(cm, secret)
           found  == end \in {"review", "reserved"}
<1>1. /\ pods[p] # None /\ i \in 1 .. Len(pods[p]) /\ SharedDriver(pods[p][i])
      /\ UNCHANGED <<hook, drv, shares, pods, lister, reqs, mu, tmpfs, sent, rollouts>>
      /\ tmpfs' \in [Pods -> SUBSET (1 .. MaxVolumes)]
  BY DEF NodePublishVolume, Types
<1>2. /\ end \in {"idle", "reserved", "review"}
      /\ found => s \in Shares /\ lister[s] \in ShareRecords
      /\ end = "review" => Conforms(drv, s, lister[s].ref) /\ ~BlankRef(lister[s].ref)
      /\ end = "reserved" => ~Conforms(drv, s, lister[s].ref)
  BY ValidateShareJudged
<1>3. PICK complete \in BOOLEAN : pubs' = [pubs EXCEPT ![p] =
            IF complete /\ found
              THEN [pc |-> end, volume |-> i, share |-> s, judged |-> lister[s],
                    copy |-> None, env |-> drv]
              ELSE [Unpublished EXCEPT !.pc = IF complete THEN end ELSE "idle"]]
  BY DEF NodePublishVolume
<1> DEFINE new == pubs'[p]
<1>4. drv \in Envs /\ i \in Nat
  BY DEF Types
<1>5. i \in Nat
  BY <1>1
<1> HIDE DEF cm, secret, end, s
<1>6. CASE complete /\ found
  <2>1. pubs' = [pubs EXCEPT ![p] =
            [pc |-> end, volume |-> i, share |-> s, judged |-> lister[s],
             copy |-> None, env |-> drv]]
    BY <1>3, <1>6
  <2>2. pubs'[p] = [pc |-> end, volume |-> i, share |-> s, judged |-> lister[s],
                    copy |-> None, env |-> drv]
    BY <2>1 DEF Types
  <2>3. pubs'[p] \in PubRecords
    BY <1>2, <1>4, <1>6, <2>2 DEF PubRecords
  <2>4. CreatedConforms(s, lister[s]) /\ CreatedConforms(s, None)
    BY <1>2, <1>6 DEF SharesOK, CreatedConforms
  <2>5. PubOK(p)'
    BY <1>1, <1>2, <1>4, <1>6, <2>2, <2>4 DEF PubOK
  <2>6. pubs' \in [Pods -> PubRecords] /\ \A x \in Pods : x # p => pubs'[x] = pubs[x]
    BY <2>1, <2>2, <2>3 DEF Types
  <2> QED
    BY <2>5, <2>6, <1>1, PubStepInv
<1>7. CASE ~(complete /\ found)
  <2>1. pubs' = [pubs EXCEPT ![p] = [Unpublished EXCEPT !.pc = "idle"]]
    BY <1>2, <1>3, <1>7
  <2>2. pubs'[p] \in PubRecords /\ pubs'[p].pc = "idle"
    BY <2>1 DEF Types, Unpublished, PubRecords
  <2>3. PubOK(p)'
    BY <2>2 DEF PubOK
  <2>4. pubs' \in [Pods -> PubRecords] /\ \A x \in Pods : x # p => pubs'[x] = pubs[x]
    BY <2>1, <2>2 DEF Types
  <2> QED
    BY <2>3, <2>4, <1>1, PubStepInv
<1> QED
  BY <1>6, <1>7

\* A call that fails is forgotten.
LEMMA FailsInv ==
    ASSUME AdmissionInv, NEW p \in Pods, Fails(p),
           tmpfs' \in [Pods -> SUBSET (1 .. MaxVolumes)],
           UNCHANGED <<hook, drv, shares, pods, lister, reqs, mu, sent, rollouts>>
    PROVE  AdmissionInv'
<1>1. pubs'[p].pc = "idle" /\ pubs' \in [Pods -> PubRecords]
  BY IdleInv DEF AdmissionInv, Types, Fails
<1>2. PubOK(p)' /\ \A x \in Pods : x # p => pubs'[x] = pubs[x]
  BY <1>1 DEF PubOK, AdmissionInv, Types, Fails
<1> QED
  BY <1>1, <1>2, PubStepInv

\* A call that goes on keeps its volume and the share it was judged by.
LEMMA GoesOnInv ==
    ASSUME AdmissionInv, NEW p \in Pods, pubs[p].pc \in Calling,
           NEW pc \in {"populate", "mounted"}, NEW w \in ShareRecords \cup {None},
           CreatedConforms(pubs[p].share, w),
           pubs' = [pubs EXCEPT ![p] = [pubs[p] EXCEPT !.pc = pc, !.copy = w]],
           tmpfs' \in [Pods -> SUBSET (1 .. MaxVolumes)],
           UNCHANGED <<hook, drv, shares, pods, lister, reqs, mu, sent, rollouts>>
    PROVE  AdmissionInv'
<1> DEFINE q == [pubs[p] EXCEPT !.pc = pc, !.copy = w]
<1>1. PubOK(p) /\ pubs[p] \in PubRecords
  BY DEF AdmissionInv, PubsOK, Types
<1>2. /\ q \in PubRecords
      /\ q.pc = pc /\ q.volume = pubs[p].volume /\ q.share = pubs[p].share
      /\ q.judged = pubs[p].judged /\ q.copy = w /\ q.env = pubs[p].env
  BY <1>1 DEF PubRecords
<1>3. pubs' = [pubs EXCEPT ![p] = q]
  OBVIOUS
<1> HIDE DEF q
<1>4. /\ pubs'[p] = q /\ pubs' \in [Pods -> PubRecords]
      /\ \A x \in Pods : x # p => pubs'[x] = pubs[x]
  BY <1>2, <1>3 DEF AdmissionInv, Types
<1>5. PubOK(p)'
  BY <1>1, <1>2, <1>4 DEF PubOK, Calling
<1> QED
  BY <1>4, <1>5, PubStepInv

\* After the review the volume of an admitted pod is read-only and is mounted.
LEMMA ExecuteSARInv ==
    ASSUME AdmissionInv, NEW p \in Pods, ExecuteSAR(p)
    PROVE  AdmissionInv'
<1> USE DEF AdmissionInv
<1>1. /\ pubs[p].pc = "review" /\ pubs[p].pc \in Calling
      /\ UNCHANGED <<hook, drv, shares, pods, lister, reqs, mu, sent, rollouts>>
      /\ tmpfs \in [Pods -> SUBSET (1 .. MaxVolumes)]
  BY DEF ExecuteSAR, Calling, Types
<1>2. PubOK(p) /\ pubs[p] \in PubRecords
  BY DEF PubsOK, Types
<1>3. /\ pods[p][pubs[p].volume].readOnly = TRUE
      /\ pubs[p].volume \in 1 .. MaxVolumes
      /\ CreatedConforms(pubs[p].share, pubs[p].copy)
  <2>1. /\ pods[p] # None /\ pubs[p].volume \in 1 .. Len(pods[p])
        /\ SharedDriver(pods[p][pubs[p].volume])
    BY <1>1, <1>2 DEF PubOK
  <2>2. authorizePod(pods[p])
    BY <2>1 DEF PodsOK
  <2> QED
    BY <1>1, <1>2, <2>1, <2>2 DEF authorizePod, PubOK
<1>4. CASE Fails(p) /\ tmpfs' = tmpfs
  BY <1>1, <1>4, FailsInv
<1>5. CASE Mounting(p)
  <2>1. PICK pc \in {"populate", "mounted"} : pubs' = [pubs EXCEPT ![p].pc = pc]
    BY <1>3, <1>5 DEF Mounting
  <2>2. tmpfs' \in [Pods -> SUBSET (1 .. MaxVolumes)]
    BY <1>1, <1>3, <1>5 DEF Mounting
  <2>3. pubs' = [pubs EXCEPT ![p] = [pubs[p] EXCEPT !.pc = pc, !.copy = pubs[p].copy]]
    <3>1. [pubs[p] EXCEPT !.pc = pc] = [pubs[p] EXCEPT !.pc = pc, !.copy = pubs[p].copy]
      BY <1>2 DEF PubRecords
    <3> QED
      BY <2>1, <3>1
  <2>4. pubs[p].copy \in ShareRecords \cup {None}
    BY <1>2 DEF PubRecords
  <2> QED
    BY <1>1, <1>3, <2>2, <2>3, <2>4, GoesOnInv
<1> QED
  BY <1>4, <1>5 DEF ExecuteSAR

\* What the driver copies is a share of the lister or of the API server.
LEMMA MapBackingResourceInv ==
    ASSUME AdmissionInv, NEW p \in Pods, mapBackingResourceToPod(p)
    PROVE  AdmissionInv'
<1> USE DEF AdmissionInv
<1>1. /\ pubs[p].pc = "populate" /\ pubs[p].pc \in Calling
      /\ UNCHANGED <<hook, drv, shares, pods, lister, reqs, mu, tmpfs, sent, rollouts>>
      /\ tmpfs' \in [Pods -> SUBSET (1 .. MaxVolumes)]
  BY DEF mapBackingResourceToPod, Calling, Types
<1>2. pubs[p].share \in Shares
  BY <1>1 DEF PubsOK, PubOK
<1>3. PICK w \in GetShared(pubs[p].share) :
         \/ pubs' = [pubs EXCEPT ![p] = [pubs[p] EXCEPT !.pc = "mounted", !.copy = w]]
         \/ Fails(p)
  BY DEF mapBackingResourceToPod
<1>4. w \in ShareRecords \cup {None} /\ CreatedConforms(pubs[p].share, w)
  BY <1>2, <1>3 DEF GetShared, Types, SharesOK, CreatedConforms
<1> QED
  BY <1>1, <1>3, <1>4, FailsInv, GoesOnInv

\* The lister copies a share with its judgement.
LEMMA ListerUpdateInv ==
    ASSUME AdmissionInv, NEW s \in Shares, ListerUpdate(s)
    PROVE  AdmissionInv'
<1> USE DEF AdmissionInv
<1>1. Types'
  BY DEF Types, Holds, ListerUpdate
<1>2. SharesOK'
  BY DEF SharesOK, Types, ListerUpdate
<1>3. RequestsOK' /\ PodsOK' /\ PubsOK'
  BY DEF RequestsOK, PodsOK, PubsOK, PubOK, ListerUpdate
<1> QED
  BY <1>1, <1>2, <1>3

\* A new webhook drops requests it has not answered; answers keep their list.
LEMMA WebhookStartsInv ==
    ASSUME AdmissionInv, NEW env \in Envs, WebhookStarts(env),
           rollouts' \in 0 .. MaxRollouts
    PROVE  AdmissionInv'
<1> USE DEF AdmissionInv
<1>1. \A r \in Requests :
         \/ reqs'[r] = Idle
         \/ reqs'[r] = reqs[r] /\ ~Holds(r)
  BY DEF WebhookStarts, Holds
<1>2. reqs' \in [Requests -> RequestRecords]
  <2>1. \A r \in Requests : reqs'[r] \in RequestRecords
    BY <1>1, IdleInv DEF Types
  <2>2. reqs' = [r \in Requests |-> reqs'[r]]
    BY DEF WebhookStarts
  <2> HIDE DEF AdmissionInv
  <2> QED
    BY <2>1, <2>2
<1>3. Types'
  <2>1. \A r \in Requests : Holds(r)' <=> mu' = r
    BY <1>1, IdleInv, AdmissionAssumption DEF Holds, WebhookStarts
  <2> QED
    BY <1>2, <2>1 DEF Types, WebhookStarts
<1>4. RequestsOK'
  BY <1>1, IdleInv DEF RequestsOK, Judged
<1>5. SharesOK' /\ PodsOK' /\ PubsOK'
  BY DEF SharesOK, PodsOK, PubsOK, PubOK, WebhookStarts
<1> QED
  BY <1>3, <1>4, <1>5

\* A new driver drops calls under way and fills its lister.
LEMMA DriverStartsInv ==
    ASSUME AdmissionInv, NEW env \in Envs, DriverStarts(env),
           rollouts' \in 0 .. MaxRollouts
    PROVE  AdmissionInv'
<1> USE DEF AdmissionInv
<1>1. \A p \in Pods : pubs'[p] = Unpublished \/ pubs'[p] = pubs[p]
  BY DEF DriverStarts
<1>2. pubs' \in [Pods -> PubRecords]
  <2>1. \A p \in Pods : pubs'[p] \in PubRecords
    BY <1>1, IdleInv DEF Types
  <2>2. pubs' = [p \in Pods |-> pubs'[p]]
    BY DEF DriverStarts
  <2> HIDE DEF AdmissionInv
  <2> QED
    BY <2>1, <2>2
<1>3. Types'
  BY <1>2 DEF Types, Holds, DriverStarts
<1>4. SharesOK'
  BY DEF SharesOK, DriverStarts
<1>5. RequestsOK' /\ PodsOK'
  BY DEF RequestsOK, PodsOK, DriverStarts
<1>6. PubsOK'
  <2> SUFFICES ASSUME NEW p \in Pods PROVE PubOK(p)'
    BY DEF PubsOK
  <2>1. PubOK(p) /\ pods' = pods
    BY DEF PubsOK, DriverStarts
  <2>2. CASE pubs'[p] = Unpublished
    BY <2>2, IdleInv DEF PubOK
  <2>3. CASE pubs'[p] = pubs[p]
    BY <2>1, <2>3 DEF PubOK
  <2> QED
    BY <1>1, <2>2, <2>3
<1> QED
  BY <1>3, <1>4, <1>5, <1>6

\* Processes start again: rolled out, after a panic or after a stack overflow.
LEMMA StartsInv ==
    ASSUME AdmissionInv,
           \/ \E env \in Envs : WebhookRestart(env) \/ DriverRestart(env)
           \/ \E r \in Requests : EncodeFails(r)
           \/ \E p \in Pods : MapPanics(p)
    PROVE  AdmissionInv'
<1>1. rollouts \in 0 .. MaxRollouts /\ MaxRollouts \in Nat /\ hook \in Envs /\ drv \in Envs
  BY AdmissionAssumption DEF AdmissionInv, Types
<1>2. rollouts' \in 0 .. MaxRollouts
  BY <1>1 DEF WebhookRestart, DriverRestart, EncodeFails, MapPanics
<1>3. \E env \in Envs : WebhookStarts(env) \/ DriverStarts(env)
  BY <1>1 DEF WebhookRestart, DriverRestart, EncodeFails, MapPanics
<1> QED
  BY <1>2, <1>3, WebhookStartsInv, DriverStartsInv

\* AdmissionInv holds of every state: what the API server, the lister and the
\* calls of NodePublishVolume hold was judged by the webhook, and what a call
\* found before its review by the driver too. The share it gets again afterwards
\* was not.
THEOREM AdmissionInvariant == Spec => []AdmissionInv
<1>1. AdmissionInv /\ [Next]_vars => AdmissionInv'
  <2> SUFFICES ASSUME AdmissionInv, [Next]_vars PROVE AdmissionInv'
    OBVIOUS
  <2>1. CASE UNCHANGED vars
    BY <2>1 DEF vars, AdmissionInv, Types, Holds, RequestsOK, SharesOK, PodsOK, PubsOK, PubOK
  <2>2. ASSUME NEW r \in Requests, Webhook(r) \/ ReadBody(r) \/ Apply(r)
        PROVE  AdmissionInv'
    BY <2>2, HandleRequestInv, ReadBodyInv, SendResponseInv, ApplyInv DEF Webhook
  <2>3. ASSUME NEW m \in Messages, Arrive(m) PROVE AdmissionInv'
    <3> DEFINE free == {r \in Requests : reqs[r].pc = "idle"}
    <3>1. PICK r \in Requests : Send(r, m)
      <4>1. (CHOOSE r \in free : TRUE) \in Requests
        BY <2>3, Zenon DEF Arrive
      <4> QED
        BY <2>3, <4>1 DEF Arrive
    <3> QED
      BY <3>1, SendInv
  <2> QED
    BY <2>1, <2>2, <2>3, NodePublishVolumeInv, ExecuteSARInv, MapBackingResourceInv,
       ListerUpdateInv, StartsInv DEF Next
<1> QED
  BY InitInv, <1>1, PTL DEF Spec

\* Every variable has its type and Dispatcher.mu is held by the request that is
\* being handled and by no other.
THEOREM AdmissionTypeOK == Spec => []TypeOK
<1>1. AdmissionInv => TypeOK
  BY DEF AdmissionInv, Types, TypeOK, RequestRecords, PubRecords
<1> QED
  BY <1>1, AdmissionInvariant, PTL

\* The driver refuses for its name a share that the webhook admitted as a new
\* one only when the two run with different lists.
THEOREM GatesAgreeHolds == Spec => []GatesAgree
<1>1. AdmissionInv => GatesAgree
  BY AdmissionAssumption DEF AdmissionInv, PubsOK, PubOK, GatesAgree, CreatedConforms
<1> QED
  BY <1>1, AdmissionInvariant, PTL

\* A volume is populated from a reference that violates the driver's list only
\* when its share has changed since it was judged, by an update or past a webhook
\* with another list (nodeserver.go:112-121, driver.go:545-550, 601-605).
THEOREM PopulatedConformsHolds == Spec => []PopulatedConforms
<1>1. AdmissionInv => PopulatedConforms
  <2> SUFFICES ASSUME AdmissionInv, NEW p \in Pods, pubs[p].pc = "mounted",
                      pubs[p].copy # None,
                      ~Conforms(pubs[p].env, pubs[p].share, pubs[p].copy.ref)
               PROVE  /\ pubs[p].copy # pubs[p].judged
                      /\ pubs[p].copy.op = "UPDATE" \/ pubs[p].copy.env # pubs[p].env
    BY DEF PopulatedConforms
  <2>1. PubOK(p) /\ pubs[p].copy \in ShareRecords
    BY DEF AdmissionInv, PubsOK, Types, PubRecords
  <2>2. pubs[p].copy.op \in {"CREATE", "UPDATE"}
    BY <2>1 DEF ShareRecords
  <2> QED
    BY <2>1, <2>2 DEF PubOK, CreatedConforms
<1> QED
  BY <1>1, AdmissionInvariant, PTL

\* validateShare never uses a nil share, whatever the volume context holds.
THEOREM ValidateShareNeverPanicsHolds == Spec => []ValidateShareNeverPanics
<1>1. AdmissionInv => ValidateShareNeverPanics
  BY DEF AdmissionInv, PubsOK, PubOK, ValidateShareNeverPanics
<1> QED
  BY <1>1, AdmissionInvariant, PTL

\* No pod the webhook admitted has a volume the driver refuses for not being
\* read-only.
THEOREM AdmittedPodsAreReadOnlyHolds == Spec => []AdmittedPodsAreReadOnly
<1>1. AdmissionInv => AdmittedPodsAreReadOnly
  BY DEF AdmissionInv, PubsOK, PubOK, AdmittedPodsAreReadOnly
<1> QED
  BY <1>1, AdmissionInvariant, PTL

\* A share is created, updated or deleted only after the webhook found the share
\* it was asked about, the new one or the one replaced, to conform to its list.
THEOREM AdmittedAsJudgedHolds == Spec => AdmittedAsJudged
<1> DEFINE Step == \A s \in Shares : shares'[s] # shares[s] =>
                     \E r \in Requests :
                        /\ reqs[r].pc = "answered"
                        /\ reqs[r].msg.target = s
                        /\ Conforms(reqs[r].env, s,
                              IF shares[s] = None THEN shares'[s].ref ELSE shares[s].ref)
<1>1. AdmissionInv /\ [Next]_vars => [Step]_vars
  <2> SUFFICES ASSUME AdmissionInv, Next, NEW s \in Shares, shares'[s] # shares[s]
               PROVE  \E r \in Requests :
                        /\ reqs[r].pc = "answered"
                        /\ reqs[r].msg.target = s
                        /\ Conforms(reqs[r].env, s,
                              IF shares[s] = None THEN shares'[s].ref ELSE shares[s].ref)
    BY Zenon
  <2>1. PICK r \in Requests : Apply(r)
    BY DEF Next, Webhook, HandleRequest, SendResponse, Arrive, Send, NodePublishVolume,
           ExecuteSAR, mapBackingResourceToPod, ListerUpdate, ReadBody, EncodeFails,
           MapPanics, WebhookRestart, DriverRestart, WebhookStarts, DriverStarts
  <2> DEFINE m == reqs[r].msg
             w == IF m.op = "DELETE" THEN None
                  ELSE [ref |-> m.object.ref, op |-> m.op, env |-> reqs[r].env]
  <2>2. reqs[r].pc = "answered" /\ reqs[r].allowed /\ WriteShare(r, m)
    BY <2>1 DEF Apply, Refused, WritePod
  <2>3. m.target \in Shares /\ shares' = [shares EXCEPT ![m.target] = w]
    BY <2>2 DEF WriteShare
  <2>4. m.target = s /\ shares'[s] = w /\ Stored(s) = m.oldObject
    BY <2>2, <2>3 DEF WriteShare, AdmissionInv, Types
  <2>5. Conforms(reqs[r].env, s, JudgedRef(m))
    BY <2>2, <2>4 DEF AdmissionInv, RequestsOK, Judged
  <2>6. JudgedRef(m) = IF shares[s] = None THEN shares'[s].ref ELSE shares[s].ref
    <3>1. CASE shares[s] = None
      <4>1. m.oldObject = None /\ w # None
        BY <2>4, <3>1 DEF Stored
      <4>2. w.ref = m.object.ref
        BY <4>1
      <4> QED
        BY <2>4, <3>1, <4>1, <4>2 DEF JudgedRef
    <3>2. CASE shares[s] # None
      <4>1. shares[s].ref \in Refs
        BY <3>2 DEF AdmissionInv, Types, ShareRecords
      <4>2. m.oldObject = ShareObject(s, shares[s].ref) /\ m.oldObject # None
        BY <2>4, <3>2, <4>1, AdmissionAssumption DEF Stored
      <4>3. m.oldObject.ref = shares[s].ref
        BY <4>2 DEF ShareObject
      <4> QED
        BY <3>2, <4>2, <4>3 DEF JudgedRef
    <3> QED
      BY <3>1, <3>2
  <2> QED
    BY <2>2, <2>4, <2>5, <2>6
<1> QED
  BY <1>1, AdmissionInvariant, PTL DEF AdmittedAsJudged, Spec
=============================================================================
