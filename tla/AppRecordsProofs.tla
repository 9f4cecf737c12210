-------------------------- MODULE AppRecordsProofs --------------------------
(***************************************************************************)
(* Type correctness of AppRecords; that what is read of an app is what was *)
(* written down of it and can be sent to create_app again; that pull       *)
(* policies are obeyed; that what was created is found until somebody      *)
(* deletes it, and that what fails has a reason: for any configurations,   *)
(* with any number of containers, and any number of requests and ids.      *)
(***************************************************************************)
EXTENDS AppRecords, AppConfigurationProofs

Places == {"idle", "pull", "config", "container", "start", "deployment", "remove", "done"}

CreatePlaces == {"pull", "config", "container", "start", "deployment"}

Replies == {"none", "200", "204", "404", "413", "500"}

Asked ==
    {NoRequest}
        \cup [op : {"create"}, id : Ids, body : Bodies]
        \cup [op : {"delete", "get"}, id : Ids]
        \cup [op : {"list"}]

Shape ==
    /\ backend \in Backend
    /\ images \subseteq Image
    /\ ended \subseteq Requests
    /\ pc \in [Requests -> Places]
    /\ request \in [Requests -> Asked]
    /\ slot \in [Requests -> Nat]
    /\ seen = [r \in Requests |-> seen[r]]
    /\ reply \in [Requests -> Replies]

\* What is known of a handler by its place: in the middle of create_app it
\* has an acceptable configuration and is at one of the app's slots.
HandlerAt(r) ==
    /\ pc[r] = "idle" <=> request[r] = NoRequest
    /\ pc[r] \in CreatePlaces =>
        /\ request[r].op = "create"
        /\ Acceptable(request[r].body)
        /\ slot[r] <= LastSlot(App(r))
    /\ pc[r] = "remove" => request[r].op = "delete"
    /\ pc[r] # "done" => reply[r] = "none"
    /\ reply[r] # "none" => reply[r] \in Documented(request[r].op)

\* An object of an app that a client asked for and the API let through.
Written(o) ==
    \E s \in Requests :
        /\ Creates(s, o.id)
        /\ Acceptable(request[s].body)
        /\ o = Object(o.id, App(s), o.slot)

ObjectsWritten ==
    \A o \in objects : o.id \in Ids \cup ForeignIds /\ (Readable(o) => Written(o))

AnswerWritten(r) == reply[r] = "200" => \A o \in seen[r] : Written(o)

IInv ==
    /\ Shape
    /\ \A r \in Requests : HandlerAt(r)
    /\ ObjectsWritten
    /\ \A r \in Requests : AnswerWritten(r)

-----------------------------------------------------------------------------
(***************************************************************************)
(* What was written.                                                       *)
(***************************************************************************)

LEMMA RequestFields ==
    ASSUME NEW q \in Asked, q.op = "create"
    PROVE  q.id \in Ids /\ q.body \in Bodies
BY DEF Asked, NoRequest

\* The configuration a backend gets.
LEMMA AppIsNormal ==
    ASSUME Shape, NEW s \in Requests,
           request[s].op = "create", Acceptable(request[s].body)
    PROVE  /\ Normal(App(s))
           /\ App(s).containers = GetContainers(request[s].body)
           /\ request[s].id \in Ids
           /\ request[s].body \in AppConfig
<1>1. request[s].id \in Ids /\ request[s].body \in Bodies
  BY RequestFields DEF Shape
<1>2. request[s].body \in AppConfig  BY <1>1, RecordsAssumption
<1> QED  BY <1>1, <1>2, NormalisationKeepsContainers DEF App, Acceptable

LEMMA WrittenIsKept ==
    ASSUME Shape, NEW s \in Requests, Normal(App(s)), NEW o, o = Object(o.id, App(s), o.slot)
    PROVE  AppOf(o) = Kept(App(s))
<1>1. CASE backend = "docker"
  <2>1. o.labels = BaseLabels(App(s))  BY <1>1 DEF Object
  <2> QED  BY <1>1, <2>1, DockerReadsBack DEF AppOf, Kept
<1>2. CASE backend = "kubernetes"
  <2>1. o.labels = Annotations(App(s)) /\ o.pod = PodContainers(App(s))
    BY <1>2 DEF Object
  <2> QED  BY <1>2, <2>1, KubernetesReadsBack DEF AppOf, Kept
<1> QED  BY <1>1, <1>2 DEF Shape, Backend

\* What is kept of it is an app in the normal form with the same configurations.
LEMMA WrittenIsNormal ==
    ASSUME Shape, NEW s \in Requests, Normal(App(s)), NEW o, o = Object(o.id, App(s), o.slot)
    PROVE  Normal(AppOf(o)) /\ SameConfigs(AppOf(o), App(s))
<1>1. Kept(App(s)) \in {KeptByDocker(App(s)), KeptByKubernetes(App(s))}
  BY DEF Kept
<1> QED  BY <1>1, WrittenIsKept, KeptIsNormal

\* The limit of the API holds for the containers a backend gets, too.
LEMMA ConfigsAreSmall ==
    ASSUME Shape, NEW s \in Requests,
           request[s].op = "create", Acceptable(request[s].body),
           NEW i \in DOMAIN App(s).containers
    PROVE  App(s).containers[i].config = None \/ Size[App(s).containers[i].config] <= 1048576
<1> DEFINE body == request[s].body
<1>1. App(s).containers = GetContainers(body) /\ body \in AppConfig
  BY AppIsNormal
<1>2. CASE body.containers # <<>>
  <2>1. App(s).containers = body.containers  BY <1>1, <1>2 DEF GetContainers
  <2>2. body.containers[i] \in ContainerConfig
    BY <1>1, <2>1, AppFields
  <2>3. body.containers[i].config = None \/ Size[body.containers[i].config] \in Nat
    BY <2>2, ContainerFields, ConfigurationAssumption
  <2>4. body.containers[i].config = None \/ ~(Size[body.containers[i].config] > 1048576)
    BY <2>1 DEF Acceptable, TooLarge, ConfigLimit
  <2> QED  BY <2>1, <2>3, <2>4
<1>3. CASE body.containers = <<>>
  BY <1>1, <1>3 DEF GetContainers, FromImage
<1> QED  BY <1>2, <1>3

-----------------------------------------------------------------------------
(***************************************************************************)
(* The place in create_app.                                                *)
(***************************************************************************)

LEMMA Slots ==
    ASSUME NEW app, Normal(app)
    PROVE  LastSlot(app) \in Nat /\ LastSlot(app) >= 2
<1>1. Len(app.containers) \in Nat /\ Len(app.containers) # 0
  BY ContainersOfNormal DEF Normal
<1> QED  BY <1>1 DEF LastSlot, SlotOf

LEMMA NextSlotFits ==
    ASSUME NEW app, Normal(app), NEW n \in Nat, n <= LastSlot(app), n # LastSlot(app)
    PROVE  NextSlot(app, n) \in Nat /\ NextSlot(app, n) <= LastSlot(app)
BY Slots DEF NextSlot, Host

LEMMA ImageAtSlot ==
    ASSUME NEW app, Normal(app), NEW n \in Nat, n <= LastSlot(app)
    PROVE  ImageAt(app, n) \in Image
<1>1. HostImage \in Image /\ DaemonImage \in Image  BY RecordsAssumption
<1>2. ASSUME n # Host, n # Daemon  PROVE app.containers[IndexOf(n)].image \in Image
  <2>1. n - 1 \in DOMAIN app.containers
    BY <1>2, ContainersOfNormal DEF Host, Daemon, LastSlot, SlotOf
  <2>2. app.containers[n - 1] \in ContainerConfig  BY <2>1, ContainersOfNormal
  <2> QED  BY <2>2 DEF ContainerConfig, IndexOf
<1> QED  BY <1>1, <1>2 DEF ImageAt, Host, Daemon

-----------------------------------------------------------------------------
(***************************************************************************)
(* The steps.  Each is one request's.                                      *)
(***************************************************************************)

OthersStay(r) ==
    /\ backend' = backend
    /\ \A s \in Requests \ {r} :
        /\ pc'[s] = pc[s]
        /\ request'[s] = request[s]
        /\ slot'[s] = slot[s]
        /\ seen'[s] = seen[s]
        /\ reply'[s] = reply[s]
    /\ pc[r] = "idle" \/ request'[r] = request[r]

\* New objects are written by the request; what it answers it has read.
MadeByRequest(r) ==
    \A o \in objects' \ objects : o.id \in Ids /\ Written(o)

ReadByRequest(r) ==
    reply'[r] = "200" => \A o \in seen'[r] : o \in objects /\ Readable(o)

StepOf(r) ==
    Shape' /\ OthersStay(r) /\ HandlerAt(r)' /\ MadeByRequest(r) /\ ReadByRequest(r)

LEMMA WrittenStays ==
    ASSUME IInv, NEW r \in Requests, OthersStay(r), NEW o, Written(o)
    PROVE  Written(o)'
<1>1. PICK s \in Requests : /\ Creates(s, o.id)
                            /\ Acceptable(request[s].body)
                            /\ o = Object(o.id, App(s), o.slot)
  BY DEF Written
<1>2. request'[s] = request[s]
  <2>1. CASE s # r  BY <2>1 DEF OthersStay
  <2>2. CASE s = r
    <3>1. request[s] # NoRequest  BY <1>1 DEF Creates, NoRequest
    <3> QED  BY <2>2, <3>1 DEF OthersStay, IInv, HandlerAt
  <2> QED  BY <2>1, <2>2
<1>3. backend' = backend  BY DEF OthersStay
<1>4. App(s)' = App(s)  BY <1>2 DEF App
<1>5. Object(o.id, App(s), o.slot)' = Object(o.id, App(s), o.slot)
  BY <1>3, <1>4 DEF Object
<1> QED  BY <1>1, <1>2, <1>5 DEF Written, Creates

LEMMA StepKeepsInvariant ==
    ASSUME IInv, NEW r \in Requests, StepOf(r)
    PROVE  IInv'
<1>1. Shape'  BY DEF StepOf
<1>2. \A s \in Requests : HandlerAt(s)'
  <2>1. ASSUME NEW s \in Requests, s # r  PROVE HandlerAt(s)'
    <3>1. /\ pc'[s] = pc[s] /\ request'[s] = request[s]
          /\ slot'[s] = slot[s] /\ reply'[s] = reply[s]
      BY <2>1 DEF StepOf, OthersStay
    <3>2. HandlerAt(s)  BY DEF IInv
    <3> QED  BY <3>1, <3>2 DEF HandlerAt, App
  <2> QED  BY <2>1 DEF StepOf
<1>3. ObjectsWritten'
  <2>1. ASSUME NEW o \in objects'
        PROVE  o.id \in Ids \cup ForeignIds /\ (Readable(o) => Written(o))
    BY DEF StepOf, MadeByRequest, IInv, ObjectsWritten
  <2>2. ASSUME NEW o \in objects'
        PROVE  o.id \in Ids \cup ForeignIds /\ (Readable(o) => Written(o)')
    BY <2>1, WrittenStays DEF StepOf
  <2> QED  BY <2>2 DEF ObjectsWritten, Readable
<1>4. ASSUME NEW s \in Requests  PROVE AnswerWritten(s)'
  <2>1. ASSUME NEW o, reply'[s] = "200", o \in seen'[s]  PROVE Written(o)
    <3>1. CASE s = r  BY <2>1, <3>1 DEF StepOf, ReadByRequest, IInv, ObjectsWritten
    <3>2. CASE s # r
      <4>1. reply[s] = "200" /\ o \in seen[s]  BY <2>1, <3>2 DEF StepOf, OthersStay
      <4> QED  BY <4>1 DEF IInv, AnswerWritten
    <3> QED  BY <3>1, <3>2
  <2>2. ASSUME NEW o, reply'[s] = "200", o \in seen'[s]  PROVE Written(o)'
    BY <2>1, <2>2, WrittenStays DEF StepOf
  <2> QED  BY <2>2 DEF AnswerWritten
<1> QED  BY <1>1, <1>2, <1>3, <1>4 DEF IInv

LEMMA ContinueSteps ==
    ASSUME IInv, NEW r \in Requests, PullImage(r) \/ WriteConfig(r)
    PROVE  StepOf(r)
<1>1. /\ Shape /\ HandlerAt(r)
      /\ pc[r] \in {"pull", "config"}
      /\ request[r].op = "create" /\ Acceptable(request[r].body)
  BY DEF IInv, HandlerAt, PullImage, WriteConfig, CreatePlaces
<1>2. Normal(App(r))  BY <1>1, AppIsNormal
<1>3. CASE PullImage(r)
  <2>1. images' \subseteq Image
    <3>1. slot[r] \in Nat /\ slot[r] <= LastSlot(App(r))
      BY <1>1 DEF Shape, HandlerAt, CreatePlaces
    <3>2. ImageAt(App(r), slot[r]) \in Image  BY <1>2, <3>1, ImageAtSlot
    <3> QED  BY <1>1, <1>3, <3>2 DEF PullImage, Shape
  <2>2. Shape'
    BY <1>1, <1>3, <2>1 DEF PullImage, Shape, Continue, AfterPull, Places
  <2>3. OthersStay(r)
    BY <1>1, <1>3 DEF PullImage, Shape, Continue, OthersStay
  <2>4. HandlerAt(r)'
    BY <1>1, <1>3 DEF PullImage, Shape, Continue, AfterPull, HandlerAt, CreatePlaces, App
  <2>5. MadeByRequest(r) /\ ReadByRequest(r)
    BY <1>1, <1>3 DEF PullImage, Continue, MadeByRequest, ReadByRequest, HandlerAt
  <2> QED  BY <2>2, <2>3, <2>4, <2>5 DEF StepOf
<1>4. CASE WriteConfig(r)
  <2>2. Shape'
    BY <1>1, <1>4 DEF WriteConfig, Shape, Continue, Fail, Answer, Places, Replies, engineVars
  <2>3. OthersStay(r)
    BY <1>1, <1>4 DEF WriteConfig, Shape, Continue, Fail, Answer, OthersStay, engineVars
  <2>4. HandlerAt(r)'
    BY <1>1, <1>4
       DEF WriteConfig, Shape, Continue, Fail, Answer, HandlerAt, CreatePlaces, App, Documented,
           engineVars
  <2>5. MadeByRequest(r) /\ ReadByRequest(r)
    BY <1>1, <1>4
       DEF WriteConfig, Shape, Continue, Fail, Answer, MadeByRequest, ReadByRequest, HandlerAt,
           engineVars
  <2> QED  BY <2>2, <2>3, <2>4, <2>5 DEF StepOf
<1> QED  BY <1>3, <1>4

\* What creation has made is an object of its own app.
LEMMA OwnObject ==
    ASSUME Shape, NEW r \in Requests,
           request[r].op = "create", Acceptable(request[r].body), NEW n,
           NEW o, o = Object(request[r].id, App(r), n)
    PROVE  o.id \in Ids /\ Written(o)
<1>1. o.id = request[r].id /\ o.slot = n  BY DEF Object
<1>2. request[r].id \in Ids  BY AppIsNormal
<1> QED  BY <1>1, <1>2 DEF Written, Creates

LEMMA CreateContainerStep ==
    ASSUME IInv, NEW r \in Requests, CreateContainer(r)
    PROVE  StepOf(r)
<1>1. /\ Shape /\ HandlerAt(r)
      /\ pc[r] = "container"
      /\ request[r].op = "create" /\ Acceptable(request[r].body)
      /\ UNCHANGED <<backend, images, ended, request>>
  BY DEF IInv, HandlerAt, CreateContainer, CreatePlaces
<1>2. Normal(App(r))  BY <1>1, AppIsNormal
<1>3. slot[r] \in Nat /\ slot[r] <= LastSlot(App(r)) /\ LastSlot(App(r)) \in Nat
  BY <1>1, <1>2, Slots DEF Shape, HandlerAt, CreatePlaces
<1>4. App(r)' = App(r)  BY <1>1 DEF App
<1>5. CASE ContainerMade(r)
  <2>1. MadeByRequest(r)
    <3>1. objects' = objects \cup {Object(request[r].id, App(r), slot[r])}
      BY <1>5 DEF ContainerMade
    <3> QED  BY <1>1, <3>1, OwnObject DEF MadeByRequest
  <2>2. CASE slot[r] # LastSlot(App(r))
    <3> DEFINE next == NextSlot(App(r), slot[r])
    <3>1. next \in Nat /\ next <= LastSlot(App(r))
      BY <1>2, <1>3, <2>2, NextSlotFits
    <3>2. /\ pc' = [pc EXCEPT ![r] = FirstCall(App(r), next)]
          /\ slot' = [slot EXCEPT ![r] = next]
          /\ UNCHANGED <<seen, reply>>
      BY <1>5, <2>2 DEF ContainerMade, Continue
    <3>3. FirstCall(App(r), next) \in {"pull", "config", "container"}
      BY DEF FirstCall, AfterPull
    <3> HIDE DEF next
    <3>4. Shape'  BY <1>1, <3>1, <3>2, <3>3 DEF Shape, Places
    <3>5. OthersStay(r)  BY <1>1, <3>2 DEF Shape, OthersStay
    <3>6. HandlerAt(r)'
      BY <1>1, <1>4, <3>1, <3>2, <3>3 DEF Shape, HandlerAt, CreatePlaces, LastSlot
    <3>7. ReadByRequest(r)  BY <1>1, <3>2 DEF ReadByRequest, HandlerAt
    <3> QED  BY <2>1, <3>4, <3>5, <3>6, <3>7 DEF StepOf
  <2>3. CASE slot[r] = LastSlot(App(r)) /\ App(r).autostart
    <3>1. pc' = [pc EXCEPT ![r] = "start"] /\ UNCHANGED <<slot, seen, reply>>
      BY <1>5, <2>3 DEF ContainerMade, Continue
    <3>2. Shape'  BY <1>1, <3>1 DEF Shape, Places
    <3>3. OthersStay(r)  BY <1>1, <3>1 DEF Shape, OthersStay
    <3>4. HandlerAt(r)'
      BY <1>1, <1>4, <3>1 DEF Shape, HandlerAt, CreatePlaces, LastSlot
    <3>5. ReadByRequest(r)  BY <1>1, <3>1 DEF ReadByRequest, HandlerAt
    <3> QED  BY <2>1, <3>2, <3>3, <3>4, <3>5 DEF StepOf
  <2>4. CASE slot[r] = LastSlot(App(r)) /\ ~App(r).autostart
    <3>1. Answer(r, "200", {})
      BY <1>5, <2>4 DEF ContainerMade
    <3>2. Shape'  BY <1>1, <3>1 DEF Shape, Answer, Places, Replies
    <3>3. OthersStay(r)  BY <1>1, <3>1 DEF Shape, Answer, OthersStay
    <3>4. HandlerAt(r)'
      BY <1>1, <3>1 DEF Shape, Answer, HandlerAt, CreatePlaces, Documented
    <3>5. ReadByRequest(r)  BY <1>1, <3>1 DEF Shape, Answer, ReadByRequest
    <3> QED  BY <2>1, <3>2, <3>3, <3>4, <3>5 DEF StepOf
  <2> QED  BY <2>2, <2>3, <2>4
<1>6. CASE Fail(r) /\ UNCHANGED objects
  <2>1. Shape'  BY <1>1, <1>6 DEF Shape, Fail, Answer, Places, Replies
  <2>2. OthersStay(r)  BY <1>1, <1>6 DEF Shape, Fail, Answer, OthersStay
  <2>3. HandlerAt(r)'
    BY <1>1, <1>6 DEF Shape, Fail, Answer, HandlerAt, CreatePlaces, Documented
  <2>4. MadeByRequest(r) /\ ReadByRequest(r)
    BY <1>1, <1>6 DEF Shape, Fail, Answer, MadeByRequest, ReadByRequest
  <2> QED  BY <2>1, <2>2, <2>3, <2>4 DEF StepOf
<1> QED  BY <1>5, <1>6 DEF CreateContainer

\* The last call of a creation.
LEMMA CreationEnds ==
    ASSUME IInv, NEW r \in Requests, Autostart(r) \/ CreateDeployment(r)
    PROVE  StepOf(r)
<1>1. /\ Shape /\ HandlerAt(r)
      /\ pc[r] \in {"start", "deployment"}
      /\ request[r].op = "create" /\ Acceptable(request[r].body)
      /\ UNCHANGED <<backend, images, ended, request>>
  BY DEF IInv, HandlerAt, Autostart, CreateDeployment, CreatePlaces, engineVars
<1>2. PICK status \in {"200", "500"} : Answer(r, status, {})
  BY DEF Autostart, CreateDeployment, Fail
<1>3. MadeByRequest(r)
  <2>1. objects' \subseteq objects \cup {Object(request[r].id, App(r), Host)}
    BY DEF Autostart, CreateDeployment, engineVars
  <2> QED  BY <1>1, <2>1, OwnObject DEF MadeByRequest
<1>4. Shape'  BY <1>1, <1>2 DEF Shape, Answer, Places, Replies
<1>5. OthersStay(r)  BY <1>1, <1>2 DEF Shape, Answer, OthersStay
<1>6. HandlerAt(r)'
  BY <1>1, <1>2 DEF Shape, Answer, HandlerAt, CreatePlaces, Documented
<1>7. ReadByRequest(r)  BY <1>1, <1>2 DEF Shape, Answer, ReadByRequest
<1> QED  BY <1>3, <1>4, <1>5, <1>6, <1>7 DEF StepOf

LEMMA RemovalSteps ==
    ASSUME IInv, NEW r \in Requests, RemoveContainer(r) \/ RemoveDeployment(r)
    PROVE  StepOf(r)
<1>1. /\ Shape /\ HandlerAt(r)
      /\ pc[r] = "remove"
      /\ request[r].op = "delete"
      /\ UNCHANGED <<backend, images, ended, request>>
      /\ objects' \subseteq objects
  BY DEF IInv, HandlerAt, RemoveContainer, RemoveDeployment
<1>2. MadeByRequest(r)  BY <1>1 DEF MadeByRequest
<1>3. CASE \E status \in {"204", "404"} : Answer(r, status, {})
  <2>1. PICK status \in {"204", "404"} : Answer(r, status, {})  BY <1>3
  <2>2. Shape'  BY <1>1, <2>1 DEF Shape, Answer, Places, Replies
  <2>3. OthersStay(r)  BY <1>1, <2>1 DEF Shape, Answer, OthersStay
  <2>4. HandlerAt(r)'
    BY <1>1, <2>1 DEF Shape, Answer, HandlerAt, CreatePlaces, Documented
  <2>5. ReadByRequest(r)  BY <1>1, <2>1 DEF Shape, Answer, ReadByRequest
  <2> QED  BY <1>2, <2>2, <2>3, <2>4, <2>5 DEF StepOf
<1>4. CASE /\ \E left : seen' = [seen EXCEPT ![r] = left]
           /\ UNCHANGED <<pc, slot, reply>>
  <2>1. PICK left : seen' = [seen EXCEPT ![r] = left]  BY <1>4
  <2>2. Shape'  BY <1>1, <1>4, <2>1 DEF Shape
  <2>3. OthersStay(r)  BY <1>1, <1>4, <2>1 DEF Shape, OthersStay
  <2>4. HandlerAt(r)'  BY <1>1, <1>4 DEF HandlerAt, CreatePlaces
  <2>5. ReadByRequest(r)  BY <1>1, <1>4 DEF HandlerAt, ReadByRequest
  <2> QED  BY <1>2, <2>2, <2>3, <2>4, <2>5 DEF StepOf
<1> QED  BY <1>3, <1>4 DEF RemoveContainer, RemoveDeployment

-----------------------------------------------------------------------------

\* A request arrives and is answered at once, having read what it answers.
LEMMA ArrivalAnswered ==
    ASSUME IInv, NEW r \in Requests, NEW what \in Asked, what # NoRequest,
           NEW status \in Replies, status \in Documented(what.op), NEW found,
           Begin(r, what), Answer(r, status, found), UNCHANGED engineVars,
           status = "200" => \A o \in found : o \in objects /\ Readable(o)
    PROVE  StepOf(r)
<1>1. Shape /\ HandlerAt(r) /\ pc[r] = "idle"
  BY DEF IInv, Begin
<1>2. Shape'  BY <1>1 DEF Shape, Begin, Answer, Places, engineVars
<1>3. OthersStay(r)  BY <1>1 DEF Shape, Begin, Answer, OthersStay, engineVars
<1>4. HandlerAt(r)'  BY <1>1 DEF Shape, Begin, Answer, HandlerAt, CreatePlaces
<1>5. MadeByRequest(r)  BY DEF MadeByRequest, engineVars
<1>6. ReadByRequest(r)  BY <1>1 DEF Shape, Answer, ReadByRequest
<1> QED  BY <1>2, <1>3, <1>4, <1>5, <1>6 DEF StepOf

LEMMA CreateArrives ==
    ASSUME IInv, NEW r \in Requests, NEW id \in Ids, NEW body \in Bodies, Create(r, id, body)
    PROVE  StepOf(r)
<1> DEFINE what == [op |-> "create", id |-> id, body |-> body]
<1>1. what \in Asked /\ what # NoRequest /\ what.op = "create" /\ what.body = body
  BY DEF Asked, NoRequest
<1>2. Begin(r, what) /\ UNCHANGED engineVars  BY DEF Create
<1> HIDE DEF what
<1>3. CASE \E status \in {"413", "500"} : Answer(r, status, {})
  <2>1. PICK status \in {"413", "500"} : Answer(r, status, {})  BY <1>3
  <2>2. status \in Replies /\ status \in Documented(what.op)
    BY <1>1 DEF Replies, Documented
  <2>3. status = "200" => \A o \in {} : o \in objects /\ Readable(o)  OBVIOUS
  <2> QED  BY <1>1, <1>2, <2>1, <2>2, <2>3, ArrivalAnswered
<1>4. CASE /\ Acceptable(body)
           /\ Continue(r, IF backend = "docker" THEN "pull" ELSE "deployment")
           /\ slot' = [slot EXCEPT ![r] = Host]
  <2>1. Shape /\ HandlerAt(r) /\ pc[r] = "idle"  BY <1>2 DEF IInv, Begin
  <2>2. PICK place \in {"pull", "deployment"} : Continue(r, place)  BY <1>4
  <2>3. request' = [request EXCEPT ![r] = what]  BY <1>2 DEF Begin
  <2>4. Shape'
    BY <1>1, <1>2, <1>4, <2>1, <2>2, <2>3 DEF Shape, Continue, Places, Host, engineVars
  <2>5. OthersStay(r)
    BY <1>2, <1>4, <2>1, <2>2, <2>3 DEF Shape, Continue, OthersStay, engineVars
  <2>6. LastSlot(App(r)') \in Nat /\ LastSlot(App(r)') >= 2
    <3>1. App(r)' = Normalised(body)  BY <1>1, <2>1, <2>3 DEF App, Shape
    <3>2. body \in AppConfig /\ WellFormed(body)
      BY <1>4, RecordsAssumption DEF Acceptable
    <3> QED  BY <3>1, <3>2, NormalisationKeepsContainers, Slots
  <2>7. HandlerAt(r)'
    <3>1. /\ pc'[r] = place /\ request'[r] = what /\ reply'[r] = "none" /\ slot'[r] = 0
      BY <1>4, <2>1, <2>2, <2>3 DEF Shape, HandlerAt, Continue, Host
    <3>2. slot'[r] <= LastSlot(App(r)')  BY <2>6, <3>1
    <3>3. (LastSlot(App(r)))' = LastSlot(App(r)')  BY DEF LastSlot
    <3> QED  BY <1>1, <1>4, <3>1, <3>2, <3>3 DEF HandlerAt, CreatePlaces
  <2>8. MadeByRequest(r)  BY <1>2 DEF MadeByRequest, engineVars
  <2>9. ReadByRequest(r)  BY <2>1, <2>2 DEF Continue, ReadByRequest, HandlerAt
  <2> QED  BY <2>4, <2>5, <2>7, <2>8, <2>9 DEF StepOf
<1> QED  BY <1>3, <1>4 DEF Create, Fail

LEMMA DeleteArrives ==
    ASSUME IInv, NEW r \in Requests, NEW id \in Ids, Delete(r, id)
    PROVE  StepOf(r)
<1> DEFINE what == [op |-> "delete", id |-> id]
<1>1. what \in Asked /\ what # NoRequest /\ what.op = "delete"
  BY DEF Asked, NoRequest
<1>2. Begin(r, what) /\ UNCHANGED engineVars  BY DEF Delete
<1> HIDE DEF what
<1>3. CASE \E status \in {"204", "404"} : Answer(r, status, {})
  <2>1. PICK status \in {"204", "404"} : Answer(r, status, {})  BY <1>3
  <2>2. status \in Replies /\ status \in Documented(what.op)
    BY <1>1 DEF Replies, Documented
  <2>3. status = "200" => \A o \in {} : o \in objects /\ Readable(o)  OBVIOUS
  <2> QED  BY <1>1, <1>2, <2>1, <2>2, <2>3, ArrivalAnswered
<1>4. CASE /\ pc' = [pc EXCEPT ![r] = "remove"]
           /\ \E found : seen' = [seen EXCEPT ![r] = found]
           /\ UNCHANGED <<slot, reply>>
  <2>1. Shape /\ HandlerAt(r) /\ pc[r] = "idle"  BY <1>2 DEF IInv, Begin
  <2>2. PICK found : seen' = [seen EXCEPT ![r] = found]  BY <1>4
  <2>3. request' = [request EXCEPT ![r] = what]  BY <1>2 DEF Begin
  <2>4. Shape'
    BY <1>1, <1>2, <1>4, <2>1, <2>2, <2>3 DEF Shape, Places, engineVars
  <2>5. OthersStay(r)
    BY <1>2, <1>4, <2>1, <2>2, <2>3 DEF Shape, OthersStay, engineVars
  <2>6. HandlerAt(r)'
    BY <1>1, <1>4, <2>1, <2>3 DEF Shape, HandlerAt, CreatePlaces
  <2>7. MadeByRequest(r)  BY <1>2 DEF MadeByRequest, engineVars
  <2>8. ReadByRequest(r)  BY <1>4, <2>1 DEF ReadByRequest, HandlerAt
  <2> QED  BY <2>4, <2>5, <2>6, <2>7, <2>8 DEF StepOf
<1> QED  BY <1>3, <1>4 DEF Delete

LEMMA GetArrives ==
    ASSUME IInv, NEW r \in Requests, NEW id \in Ids, Get(r, id)
    PROVE  StepOf(r)
<1> DEFINE what == [op |-> "get", id |-> id]
<1>1. what \in Asked /\ what # NoRequest /\ what.op = "get"
  BY DEF Asked, NoRequest
<1>2. Begin(r, what) /\ UNCHANGED engineVars  BY DEF Get
<1> HIDE DEF what
<1>3. \E status \in {"200", "404", "500"} : \E found :
        /\ Answer(r, status, found)
        /\ status = "200" => \A o \in found : o \in objects /\ Readable(o)
  <2>1. CASE Answer(r, "404", {})  BY <2>1
  <2>2. CASE \E o \in ObjectsOf(id) : Readable(o) /\ Answer(r, "200", {o})
    BY <2>2 DEF ObjectsOf
  <2>3. CASE Answer(r, "500", {})  BY <2>3
  <2> QED  BY <2>1, <2>2, <2>3 DEF Get
<1>4. PICK status \in {"200", "404", "500"} : \E found :
        /\ Answer(r, status, found)
        /\ status = "200" => \A o \in found : o \in objects /\ Readable(o)
  BY <1>3
<1>5. status \in Replies /\ status \in Documented(what.op)
  BY <1>1 DEF Replies, Documented
<1> QED  BY <1>1, <1>2, <1>4, <1>5, ArrivalAnswered

LEMMA GetAllArrives ==
    ASSUME IInv, NEW r \in Requests, GetAll(r)
    PROVE  StepOf(r)
<1> DEFINE what == [op |-> "list"]
<1>1. what \in Asked /\ what # NoRequest /\ what.op = "list"
  BY DEF Asked, NoRequest
<1>2. Begin(r, what) /\ UNCHANGED engineVars  BY DEF GetAll
<1> HIDE DEF what
<1>3. \E status \in {"200", "500"} : \E found :
        /\ Answer(r, status, found)
        /\ status = "200" => \A o \in found : o \in objects /\ Readable(o)
  <2>1. CASE \E T \in OnePerId({o \in objects : Readable(o)}) : Answer(r, "200", T)
    BY <2>1 DEF OnePerId
  <2>2. CASE (\A o \in objects : Readable(o)) /\ Answer(r, "200", objects)
    BY <2>2
  <2>3. CASE Answer(r, "500", {})  BY <2>3
  <2> QED  BY <2>1, <2>2, <2>3 DEF GetAll
<1>4. PICK status \in {"200", "500"} : \E found :
        /\ Answer(r, status, found)
        /\ status = "200" => \A o \in found : o \in objects /\ Readable(o)
  BY <1>3
<1>5. status \in Replies /\ status \in Documented(what.op)
  BY <1>1 DEF Replies, Documented
<1> QED  BY <1>1, <1>2, <1>4, <1>5, ArrivalAnswered

\* Steps that no record and no handler takes part in.
NothingRecorded ==
    /\ ended' \subseteq Requests
    /\ UNCHANGED <<backend, objects, images, pc, request, slot, seen, reply>>

LEMMA HostEndsUnrecorded ==
    ASSUME IInv, NEW r \in Requests, HostEnds(r)
    PROVE  NothingRecorded
BY DEF HostEnds, NothingRecorded, IInv, Shape

LEMMA StutterUnrecorded ==
    ASSUME IInv, Terminated \/ UNCHANGED vars
    PROVE  NothingRecorded
BY DEF Terminated, vars, NothingRecorded, IInv, Shape

\* An object made by somebody else has no name among its labels.
LEMMA ForeignKeepsInvariant ==
    ASSUME IInv, NEW id \in ForeignIds, MakeForeign(id)
    PROVE  IInv'
<1>1. /\ objects' = objects \cup {Foreign(id)}
      /\ UNCHANGED <<backend, images, ended, pc, request, slot, seen, reply>>
  BY DEF MakeForeign
<1>2. Foreign(id).id = id /\ ~Readable(Foreign(id))
  BY DEF Foreign, Readable, NoLabels
<1>3. \A o : Written(o)' = Written(o)
  BY <1>1 DEF Written, Creates, App, Object
<1>4. Shape'  BY <1>1 DEF IInv, Shape
<1>5. \A r \in Requests : HandlerAt(r)'  BY <1>1 DEF IInv, HandlerAt, App
<1>6. ObjectsWritten'
  <2>1. ASSUME NEW o \in objects'
        PROVE  o.id \in Ids \cup ForeignIds /\ (Readable(o) => Written(o)')
    BY <1>1, <1>2, <1>3 DEF IInv, ObjectsWritten
  <2> QED  BY <2>1 DEF ObjectsWritten, Readable
<1>7. \A r \in Requests : AnswerWritten(r)'
  BY <1>1, <1>3 DEF IInv, AnswerWritten
<1> QED  BY <1>4, <1>5, <1>6, <1>7 DEF IInv

-----------------------------------------------------------------------------
(***************************************************************************)
(* The theorems.                                                           *)
(***************************************************************************)

LEMMA InitiallyInvariant == Init => IInv
<1> SUFFICES ASSUME Init PROVE IInv  OBVIOUS
<1>1. Shape
  BY RecordsAssumption DEF Init, Shape, Asked, Places, Replies
<1>2. \A r \in Requests : HandlerAt(r)  BY DEF Init, HandlerAt, CreatePlaces
<1>3. ObjectsWritten  BY DEF Init, ObjectsWritten
<1>4. \A r \in Requests : AnswerWritten(r)  BY DEF Init, AnswerWritten
<1> QED  BY <1>1, <1>2, <1>3, <1>4 DEF IInv

LEMMA InvariantKept == IInv /\ [Next]_vars => IInv'
<1> SUFFICES ASSUME IInv, [Next]_vars PROVE IInv'  OBVIOUS
<1>1. ASSUME NEW r \in Requests, Arrive(r)  PROVE IInv'
  BY <1>1, GetAllArrives, CreateArrives, DeleteArrives, GetArrives, StepKeepsInvariant
     DEF Arrive
<1>2. ASSUME NEW r \in Requests, Step(r)  PROVE IInv'
  BY <1>2, ContinueSteps, CreateContainerStep, CreationEnds, RemovalSteps, StepKeepsInvariant
     DEF Step
<1>3. ASSUME NEW id \in ForeignIds, MakeForeign(id)  PROVE IInv'
  BY <1>3, ForeignKeepsInvariant
<1>4. ASSUME NothingRecorded  PROVE IInv'
  <2>1. \A o : Written(o)' = Written(o)
    BY <1>4 DEF NothingRecorded, Written, Creates, App, Object
  <2>2. Shape' /\ \A r \in Requests : HandlerAt(r)'
    BY <1>4 DEF NothingRecorded, IInv, Shape, HandlerAt, App
  <2>3. ObjectsWritten'
    <3>1. \A o \in objects' : o.id \in Ids \cup ForeignIds /\ (Readable(o) => Written(o)')
      BY <1>4, <2>1 DEF NothingRecorded, IInv, ObjectsWritten
    <3> QED  BY <3>1 DEF ObjectsWritten, Readable
  <2>4. \A r \in Requests : AnswerWritten(r)'
    BY <1>4, <2>1 DEF NothingRecorded, IInv, AnswerWritten
  <2> QED  BY <2>2, <2>3, <2>4 DEF IInv
<1>5. ASSUME NEW r \in Requests, HostEnds(r)  PROVE IInv'
  BY <1>4, <1>5, HostEndsUnrecorded
<1>6. CASE Terminated \/ UNCHANGED vars  BY <1>4, <1>6, StutterUnrecorded
<1> QED  BY <1>1, <1>2, <1>3, <1>5, <1>6 DEF Next

\* At every place of create_app the configuration is acceptable and the slot
\* one of the app's; every object that can be read, and everything that was
\* answered from one, was written for a create_app of its id.
THEOREM InductiveInvariant == Spec => []IInv
BY InitiallyInvariant, InvariantKept, PTL DEF Spec

\* States are well typed; what can be read of an object is an app, and every
\* operation answers only what api.rs:23-96 declares for it.
THEOREM TypeCorrect == Spec => []TypeOK
<1>1. ASSUME IInv  PROVE TypeOK
  <2>1. Shape /\ (\A r \in Requests : HandlerAt(r)) /\ ObjectsWritten
    BY <1>1 DEF IInv
  <2>2. ASSUME NEW o \in objects, Readable(o)  PROVE AppOf(o) \in AppConfig
    <3>1. Written(o)  BY <2>1, <2>2 DEF ObjectsWritten
    <3>2. PICK s \in Requests : /\ Creates(s, o.id) /\ Acceptable(request[s].body)
                                /\ o = Object(o.id, App(s), o.slot)
      BY <3>1 DEF Written
    <3>3. Normal(App(s))  BY <2>1, <3>2, AppIsNormal DEF Creates
    <3>4. Normal(AppOf(o))  BY <2>1, <3>2, <3>3, WrittenIsNormal
    <3> QED  BY <3>4 DEF Normal
  <2>3. \A o \in objects :
          o.id \in Ids \cup ForeignIds /\ (Readable(o) => AppOf(o) \in AppConfig)
    BY <2>1, <2>2 DEF ObjectsWritten
  <2>4. \A r \in Requests : /\ request[r] # NoRequest <=> pc[r] # "idle"
                            /\ reply[r] # "none" => reply[r] \in Documented(request[r].op)
    BY <2>1 DEF HandlerAt
  <2> QED  BY <2>1, <2>3, <2>4 DEF TypeOK, Shape, Places, Replies
<1> QED  BY <1>1, InductiveInvariant, PTL

\* What get_app and get_all_apps answer is what somebody asked create_app
\* for under that id, whatever else goes on and however many apps there are
\* of one id: nothing is lost but what each backend does not write down.
THEOREM WhatIsReadWasWritten == Spec => []ReadBack
<1>1. ASSUME IInv  PROVE ReadBack
  <2>1. ASSUME NEW r \in Requests, reply[r] = "200", NEW o \in seen[r]
        PROVE  \E s \in Requests : Creates(s, o.id) /\ AppOf(o) = Kept(App(s))
    <3>1. Written(o) /\ Shape  BY <1>1, <2>1 DEF IInv, AnswerWritten
    <3>2. PICK s \in Requests : /\ Creates(s, o.id) /\ Acceptable(request[s].body)
                                /\ o = Object(o.id, App(s), o.slot)
      BY <3>1 DEF Written
    <3>3. Normal(App(s))  BY <3>1, <3>2, AppIsNormal DEF Creates
    <3>4. AppOf(o) = Kept(App(s))  BY <3>1, <3>2, <3>3, WrittenIsKept
    <3> QED  BY <3>2, <3>4
  <2> QED  BY <2>1 DEF ReadBack
<1> QED  BY <1>1, InductiveInvariant, PTL

\* What was written down is in the normal form and within the limit of
\* create_app, so that it can be sent there again (api.rs:150-185).
THEOREM WhatIsReadCanBeSent == Spec => []StoredIsAcceptable
<1>1. ASSUME IInv  PROVE StoredIsAcceptable
  <2>1. ASSUME NEW o \in objects, Readable(o)
        PROVE  /\ AppOf(o).images = <<>>
               /\ AppOf(o).containers # <<>>
               /\ \A i \in DOMAIN AppOf(o).containers :
                     \/ AppOf(o).containers[i].config = None
                     \/ Size[AppOf(o).containers[i].config] <= 1048576
    <3>1. Written(o) /\ Shape  BY <1>1, <2>1 DEF IInv, ObjectsWritten
    <3>2. PICK s \in Requests : /\ Creates(s, o.id) /\ Acceptable(request[s].body)
                                /\ o = Object(o.id, App(s), o.slot)
      BY <3>1 DEF Written
    <3>3. Normal(App(s))  BY <3>1, <3>2, AppIsNormal DEF Creates
    <3>4. Normal(AppOf(o)) /\ SameConfigs(AppOf(o), App(s))
      BY <3>1, <3>2, <3>3, WrittenIsNormal
    <3>5. \A i \in DOMAIN App(s).containers :
            \/ App(s).containers[i].config = None
            \/ Size[App(s).containers[i].config] <= 1048576
      BY <3>1, <3>2, ConfigsAreSmall DEF Creates
    <3> QED  BY <3>4, <3>5 DEF Normal, SameConfigs
  <2> QED  BY <2>1 DEF StoredIsAcceptable
<1> QED  BY <1>1, InductiveInvariant, PTL

-----------------------------------------------------------------------------
(***************************************************************************)
(* Pulling.                                                                *)
(***************************************************************************)

\* A handler that is about to pull an image has looked at the policy.
PullDecided == \A r \in Requests : pc[r] = "pull" => Pulls(App(r), slot[r])

LEMMA StepOfRequest ==
    ASSUME IInv, NEW r \in Requests, Arrive(r) \/ Step(r)
    PROVE  StepOf(r)
BY GetAllArrives, CreateArrives, DeleteArrives, GetArrives,
   ContinueSteps, CreateContainerStep, CreationEnds, RemovalSteps
   DEF Arrive, Step

LEMMA PullDecidedByStep ==
    ASSUME IInv, NEW r \in Requests, Arrive(r) \/ Step(r), pc'[r] = "pull"
    PROVE  Pulls(App(r)', slot'[r])
<1>1. Shape  BY DEF IInv
<1>2. ASSUME NEW id \in Ids, NEW body \in Bodies, Create(r, id, body)
      PROVE  Pulls(App(r)', slot'[r])
  <2>1. slot'[r] = Host
    BY <1>1, <1>2 DEF Create, Shape, Fail, Answer
  <2> QED  BY <2>1 DEF Pulls
<1>3. CASE CreateContainer(r)
  <2>1. request' = request  BY <1>3 DEF CreateContainer
  <2>2. App(r)' = App(r)  BY <2>1 DEF App
  <2>3. /\ pc'[r] = FirstCall(App(r), NextSlot(App(r), slot[r]))
        /\ slot'[r] = NextSlot(App(r), slot[r])
    BY <1>1, <1>3 DEF CreateContainer, ContainerMade, Continue, Shape, Fail, Answer
  <2> QED  BY <2>2, <2>3 DEF FirstCall, AfterPull
<1>4. ~GetAll(r) /\ \A id \in Ids : ~Get(r, id) /\ ~Delete(r, id)
  BY <1>1 DEF GetAll, Get, Delete, Begin, Answer, Shape
<1>5. ~PullImage(r)
  BY <1>1 DEF PullImage, Continue, AfterPull, Shape
<1>6. ~WriteConfig(r) /\ ~Autostart(r) /\ ~CreateDeployment(r)
  BY <1>1 DEF WriteConfig, Autostart, CreateDeployment, Continue, Fail, Answer, Shape
<1>7. ~RemoveContainer(r) /\ ~RemoveDeployment(r)
  BY <1>1 DEF RemoveContainer, RemoveDeployment, Answer, Shape
<1> QED  BY <1>2, <1>3, <1>4, <1>5, <1>6, <1>7 DEF Arrive, Step

\* Only PullImage gives the engine images.
LEMMA ImagesOfStep ==
    ASSUME IInv, NEW r \in Requests, Arrive(r) \/ Step(r)
    PROVE  \/ images' = images
           \/ pc[r] = "pull" /\ images' = images \cup {ImageAt(App(r), slot[r])}
BY DEF Arrive, Step, Create, Get, GetAll, Delete, PullImage, WriteConfig, CreateContainer,
       Autostart, CreateDeployment, RemoveContainer, RemoveDeployment, engineVars

\* What is pulled may be.
LEMMA PulledMayBe ==
    ASSUME NEW app, Normal(app), NEW n \in Nat, n <= LastSlot(app), Pulls(app, n)
    PROVE  ImageAt(app, n) \in MayPull(app)
<1>1. CASE n \in {Host, Daemon}  BY <1>1 DEF ImageAt, MayPull, Host, Daemon
<1>2. CASE n \notin {Host, Daemon}
  <2> DEFINE i == n - 1
  <2>1. i \in DOMAIN app.containers
    BY <1>2, ContainersOfNormal DEF Host, Daemon, LastSlot, SlotOf
  <2>2. ImageAt(app, n) = app.containers[i].image
    BY <1>2 DEF ImageAt, IndexOf
  <2>3. \/ app.containers[i].policy \in {"Always", "IfNotPresent"}
        \/ app.containers[i].policy = None /\ app.alwaysPull
    BY <1>2, ContainersOfNormal DEF Pulls, DockerPulls, IndexOf
  <2>4. None # "Never" /\ None # "Always" /\ None # "IfNotPresent"
    BY ConfigurationAssumption DEF PullPolicy
  <2> HIDE DEF i
  <2>5. CASE app.containers[i].policy \in {"Always", "IfNotPresent"}
    BY <2>1, <2>2, <2>4, <2>5 DEF MayPull
  <2>6. CASE app.containers[i].policy = None /\ app.alwaysPull
    BY <2>1, <2>2, <2>4, <2>6 DEF MayPull
  <2> QED  BY <2>3, <2>5, <2>6
<1> QED  BY <1>1, <1>2

\* Requests for an app do not change.
LEMMA CreateStays ==
    ASSUME IInv, NEW r \in Requests, OthersStay(r), NEW s \in Requests, request[s].op = "create"
    PROVE  request'[s] = request[s]
<1>1. request[s] # NoRequest  BY DEF NoRequest
<1>2. pc[s] # "idle"  BY <1>1 DEF IInv, HandlerAt
<1> QED  BY <1>2 DEF OthersStay

\* The engine gets no image that no app wants pulled: policies of containers
\* come before the setting of the app, and Never is never overruled.
THEOREM PullsAreAskedFor == Spec => []PullsAsAsked
<1>1. Init => PullDecided /\ PullsAsAsked
  BY DEF Init, PullDecided, PullsAsAsked
<1>2. ASSUME IInv, PullDecided, PullsAsAsked, [Next]_vars
      PROVE  PullDecided' /\ PullsAsAsked'
  <2>1. ASSUME NEW r \in Requests, Arrive(r) \/ Step(r)
        PROVE  PullDecided' /\ PullsAsAsked'
    <3>1. OthersStay(r)  BY <1>2, <2>1, StepOfRequest DEF StepOf
    <3>2. PullDecided'
      <4>1. ASSUME NEW s \in Requests, s # r, pc'[s] = "pull"
            PROVE  Pulls(App(s)', slot'[s])
        <5>1. pc[s] = "pull" /\ slot'[s] = slot[s] /\ App(s)' = App(s)
          BY <3>1, <4>1 DEF OthersStay, App
        <5> QED  BY <1>2, <5>1 DEF PullDecided
      <4>2. pc'[r] = "pull" => Pulls(App(r)', slot'[r])
        BY <1>2, <2>1, PullDecidedByStep
      <4>3. \A s \in Requests : pc'[s] = "pull" => Pulls(App(s)', slot'[s])
        BY <4>1, <4>2
      <4> QED  BY <4>3 DEF PullDecided, Pulls, DockerPulls
    <3>3. PullsAsAsked'
      <4> DEFINE Wanted == UNION {MayPull(App(s)) : s \in {t \in Requests : request[t].op = "create"}}
      <4>1. ASSUME NEW s \in Requests, request[s].op = "create"
            PROVE  request'[s].op = "create" /\ App(s)' = App(s)
        BY <1>2, <3>1, <4>1, CreateStays DEF App
      <4>2. Wanted \subseteq Wanted'
        BY <4>1 DEF MayPull
      <4>3. ASSUME pc[r] = "pull"  PROVE ImageAt(App(r), slot[r]) \in Wanted
        <5>1. /\ Shape /\ request[r].op = "create" /\ Acceptable(request[r].body)
              /\ slot[r] \in Nat /\ slot[r] <= LastSlot(App(r))
          BY <1>2, <4>3 DEF IInv, Shape, HandlerAt, CreatePlaces
        <5>2. Normal(App(r))  BY <5>1, AppIsNormal
        <5>3. ImageAt(App(r), slot[r]) \in MayPull(App(r))
          BY <1>2, <4>3, <5>1, <5>2, PulledMayBe DEF PullDecided
        <5> QED  BY <5>1, <5>3
      <4>4. images' \subseteq images \cup Wanted
        BY <1>2, <2>1, <4>3, ImagesOfStep
      <4>5. images \subseteq LocalImages \cup Wanted  BY <1>2 DEF PullsAsAsked
      <4>6. images' \subseteq LocalImages \cup Wanted'  BY <4>2, <4>4, <4>5
      <4> QED  BY <4>6 DEF PullsAsAsked
    <3> QED  BY <3>2, <3>3
  <2>2. ASSUME UNCHANGED <<images, pc, request, slot>>
        PROVE  PullDecided' /\ PullsAsAsked'
    BY <1>2, <2>2 DEF PullDecided, PullsAsAsked, App, Pulls, DockerPulls, MayPull
  <2>3. ASSUME NEW id \in ForeignIds, MakeForeign(id)
        PROVE  PullDecided' /\ PullsAsAsked'
    BY <2>2, <2>3 DEF MakeForeign
  <2>4. ASSUME NEW r \in Requests, HostEnds(r)  PROVE PullDecided' /\ PullsAsAsked'
    BY <2>2, <2>4 DEF HostEnds
  <2>5. CASE Terminated \/ UNCHANGED vars
    BY <2>2, <2>5 DEF Terminated, vars
  <2> QED  BY <1>2, <2>1, <2>3, <2>4, <2>5 DEF Next
<1>3. PullDecided /\ PullsAsAsked /\ IInv /\ [Next]_vars => PullDecided' /\ PullsAsAsked'
  BY <1>2
<1> QED  BY <1>1, <1>3, InductiveInvariant, PTL DEF Spec

-----------------------------------------------------------------------------
(***************************************************************************)
(* What create_app has made so far, and what has been made of its name.    *)
(***************************************************************************)

DeleteAsked(id) == \E d \in Requests : request[d].op = "delete" /\ request[d].id = id

\* The containers that create_app has dealt with.
Behind(r) == {k \in OwnSlots(App(r)) : k < slot[r] \/ pc[r] = "start"}

Rival(r) ==
    \E s \in Requests \ {r} : Creates(s, request[r].id) /\ App(s).name = App(r).name

\* Which backend has which places of the code, and at which slot.
PlaceOK(r) ==
    /\ pc[r] \in {"pull", "config", "container", "start"} =>
          backend = "docker" /\ slot[r] \in OwnSlots(App(r))
    /\ pc[r] = "config" => slot[r] > Daemon /\ HasConfig(App(r), IndexOf(slot[r]))
    /\ pc[r] = "start" => slot[r] = LastSlot(App(r))
    /\ pc[r] = "deployment" => backend = "kubernetes" /\ slot[r] = Host
    /\ pc[r] = "remove" => \A o \in seen[r] : o.id = request[r].id

\* Unless somebody asked for a delete, everything behind is still there.
MadeBehind(r) ==
    request[r].op = "create" /\ ~DeleteAsked(request[r].id) =>
        /\ pc[r] \in CreatePlaces =>
              \A k \in Behind(r) : Object(request[r].id, App(r), k) \in objects
        /\ reply[r] = "200" => Object(request[r].id, App(r), Host) \in objects

\* Unless somebody drew the same id for the same name, no name ahead is
\* taken.
NoneAhead(r) ==
    pc[r] \in CreatePlaces \ {"start"} /\ ~Rival(r) =>
        \A o \in objects : o.id = request[r].id /\ o.name = App(r).name => o.slot < slot[r]

RecordOK(r) == PlaceOK(r) /\ MadeBehind(r) /\ NoneAhead(r)

\* What has the name of an app was made by the server.  Places are
\* numbers.
NamedIsReadable ==
    \A o \in objects : o.slot \in Nat /\ (o.name # None => Readable(o))

RecordInv == NamedIsReadable /\ \A r \in Requests : RecordOK(r)

\* A creation under way, for the provers.
Underway(r) ==
    /\ request[r].op = "create" /\ Acceptable(request[r].body)
    /\ Normal(App(r)) /\ App(r).name \in Name
    /\ slot[r] \in Nat /\ slot[r] <= LastSlot(App(r))
    /\ LastSlot(App(r)) \in Nat /\ LastSlot(App(r)) >= 2

LEMMA CreationUnderway ==
    ASSUME IInv, NEW r \in Requests, pc[r] \in CreatePlaces
    PROVE  Underway(r)
<1>1. /\ Shape /\ request[r].op = "create" /\ Acceptable(request[r].body)
      /\ slot[r] \in Nat /\ slot[r] <= LastSlot(App(r))
  BY DEF IInv, Shape, HandlerAt
<1>2. Normal(App(r))  BY <1>1, AppIsNormal
<1>3. App(r).name \in Name  BY <1>2, AppFields DEF Normal
<1> QED  BY <1>1, <1>2, <1>3, Slots DEF Underway

LEMMA ObjectFields ==
    \A id, app, n :
        /\ Object(id, app, n).id = id
        /\ Object(id, app, n).name = app.name
        /\ Object(id, app, n).slot = n
        /\ Readable(Object(id, app, n))
<1> TAKE id, app, n
<1>1. "name" \in DOMAIN BaseLabels(app)  BY DEF BaseLabels
<1>2. "name" \in DOMAIN Annotations(app)  BY DEF Annotations
<1> QED  BY <1>1, <1>2 DEF Object, Readable

\* The slots come one after another.
LEMMA NextOwnSlot ==
    ASSUME NEW app, Normal(app), NEW n \in OwnSlots(app), n # LastSlot(app)
    PROVE  /\ NextSlot(app, n) \in OwnSlots(app)
           /\ NextSlot(app, n) > n
           /\ \A k \in OwnSlots(app) : k < NextSlot(app, n) => k <= n
<1>1. LastSlot(app) \in Nat /\ LastSlot(app) >= 2  BY Slots
<1>2. n \in Nat /\ n <= LastSlot(app)  BY <1>1 DEF OwnSlots, Host
<1> QED  BY <1>1, <1>2 DEF OwnSlots, NextSlot, Host, Daemon

LEMMA HostIsOwn ==
    ASSUME NEW app, Normal(app)
    PROVE  Host \in OwnSlots(app)
BY Slots DEF OwnSlots, Host, Daemon

\* Objects come and go with the calls that say so.
LEMMA ObjectsOfStep ==
    ASSUME IInv, NEW r \in Requests, Arrive(r) \/ Step(r)
    PROVE  \/ objects' = objects
           \/ /\ pc[r] \in {"container", "deployment"}
              /\ \E n \in {Host, slot[r]} :
                    objects' = objects \cup {Object(request[r].id, App(r), n)}
           \/ pc[r] = "remove" /\ \E o \in seen[r] : objects' = objects \ {o}
BY DEF Arrive, Step, Create, Get, GetAll, Delete, PullImage, WriteConfig, CreateContainer,
       ContainerMade, Autostart, CreateDeployment, RemoveContainer, RemoveDeployment,
       engineVars

-----------------------------------------------------------------------------
(***************************************************************************)
(* Steps of others.                                                        *)
(***************************************************************************)

\* Requests that were made stay as they are.
LEMMA RequestStays ==
    ASSUME IInv, NEW r \in Requests, OthersStay(r),
           NEW s \in Requests, request[s] # NoRequest
    PROVE  request'[s] = request[s]
BY DEF IInv, HandlerAt, OthersStay

LEMMA AskedStays ==
    ASSUME IInv, NEW r \in Requests, OthersStay(r), NEW id
    PROVE  /\ DeleteAsked(id) => DeleteAsked(id)'
           /\ \A s \in Requests : Creates(s, id) => Creates(s, id)' /\ App(s)' = App(s)
<1>1. \A s \in Requests : request[s].op \in {"create", "delete"} => request[s] # NoRequest
  BY DEF NoRequest
<1>2. DeleteAsked(id) => DeleteAsked(id)'
  BY <1>1, RequestStays DEF DeleteAsked
<1>3. \A s \in Requests : Creates(s, id) => Creates(s, id)' /\ App(s)' = App(s)
  BY <1>1, RequestStays DEF Creates, App
<1> QED  BY <1>2, <1>3

\* Somebody else's request removes objects of an app only if it deletes it,
\* and takes names of it only if it drew the same.
LEMMA OthersRecord ==
    ASSUME IInv, RecordInv, NEW r \in Requests, Arrive(r) \/ Step(r), OthersStay(r),
           NEW s \in Requests, s # r
    PROVE  RecordOK(s)'
<1>1. /\ pc'[s] = pc[s] /\ request'[s] = request[s] /\ slot'[s] = slot[s]
      /\ seen'[s] = seen[s] /\ reply'[s] = reply[s] /\ backend' = backend
  BY DEF OthersStay
<1>2. App(s)' = App(s)  BY <1>1 DEF App
<1>3. RecordOK(s)  BY DEF RecordInv
<1>4. PlaceOK(s)'
  BY <1>1, <1>2, <1>3 DEF RecordOK, PlaceOK, OwnSlots, LastSlot, HasConfig, GetContainers
<1>5. MadeBehind(s)'
  <2>1. ASSUME request[s].op = "create", ~DeleteAsked(request[s].id)',
               NEW k, Object(request[s].id, App(s), k) \in objects
        PROVE  Object(request[s].id, App(s), k) \in objects'
    <3>1. ASSUME pc[r] = "remove", NEW o \in seen[r]  PROVE o.id # request[s].id
      <4>1. request[r].op = "delete" /\ o.id = request[r].id
        BY <3>1 DEF IInv, HandlerAt, RecordInv, RecordOK, PlaceOK
      <4>2. ~DeleteAsked(request[s].id)  BY <1>1, <2>1, AskedStays
      <4> QED  BY <4>1, <4>2 DEF DeleteAsked
    <3>2. Object(request[s].id, App(s), k).id = request[s].id  BY ObjectFields
    <3> QED  BY <2>1, <3>1, <3>2, ObjectsOfStep
  <2>2. ~DeleteAsked(request[s].id)' => ~DeleteAsked(request[s].id)
    BY <1>1, AskedStays
  <2>3. Behind(s)' = Behind(s)  BY <1>1, <1>2 DEF Behind, OwnSlots, LastSlot
  <2>4. \A k : Object(request[s].id, App(s), k)' = Object(request[s].id, App(s), k)
    BY <1>1, <1>2 DEF Object
  <2>5. MadeBehind(s)  BY <1>3 DEF RecordOK
  <2> QED  BY <1>1, <2>1, <2>2, <2>3, <2>4, <2>5 DEF MadeBehind
<1>6. NoneAhead(s)'
  <2>1. ~Rival(s)' => ~Rival(s)
    <3>1. ASSUME NEW q \in Requests \ {s}, Creates(q, request[s].id), App(q).name = App(s).name
          PROVE  Creates(q, request[s].id)' /\ App(q)' = App(q)
      BY <3>1, AskedStays, <1>1
    <3> QED  BY <1>1, <1>2, <3>1 DEF Rival
  <2>2. ASSUME pc[s] \in CreatePlaces \ {"start"}, ~Rival(s), NEW o \in objects',
               o.id = request[s].id, o.name = App(s).name
        PROVE  o.slot < slot[s]
    <3>1. CASE o \in objects
      BY <1>3, <2>2, <3>1 DEF RecordOK, NoneAhead
    <3>2. CASE o \notin objects
      <4>1. PICK n : o = Object(request[r].id, App(r), n) /\ pc[r] \in {"container", "deployment"}
        BY <2>2, <3>2, ObjectsOfStep
      <4>2. request[r].op = "create"  BY <4>1 DEF IInv, HandlerAt, CreatePlaces
      <4>3. o.id = request[r].id /\ o.name = App(r).name  BY <4>1, ObjectFields
      <4>4. Rival(s)  BY <2>2, <4>2, <4>3 DEF Rival, Creates
      <4> QED  BY <2>2, <4>4
    <3> QED  BY <3>1, <3>2
  <2> QED  BY <1>1, <1>2, <2>1, <2>2 DEF NoneAhead
<1> QED  BY <1>4, <1>5, <1>6 DEF RecordOK

-----------------------------------------------------------------------------
(***************************************************************************)
(* Steps of one's own.                                                     *)
(***************************************************************************)

LEMMA EndedRecord ==
    ASSUME NEW r \in Requests, pc'[r] = "done",
           /\ request'[r].op = "create" /\ reply'[r] = "200"
           /\ ~DeleteAsked(request[r].id)'
           => Object(request[r].id, App(r), Host)' \in objects'
    PROVE  RecordOK(r)'
<1>1. PlaceOK(r)'  BY DEF PlaceOK
<1>2. MadeBehind(r)'  BY DEF MadeBehind, CreatePlaces
<1>3. NoneAhead(r)'  BY DEF NoneAhead, CreatePlaces
<1> QED  BY <1>1, <1>2, <1>3 DEF RecordOK

\* Whoever has a name of the app under the id it has drawn is a rival.
LEMMA CreateRecord ==
    ASSUME IInv, RecordInv, NEW r \in Requests, NEW id \in Ids, NEW body \in Bodies,
           Create(r, id, body)
    PROVE  RecordOK(r)'
<1>1. Shape /\ HandlerAt(r) /\ pc[r] = "idle" /\ request[r].op = "none"
  BY DEF IInv, Create, Begin, HandlerAt, NoRequest
<1>2. request' = [request EXCEPT ![r] = [op |-> "create", id |-> id, body |-> body]]
  BY DEF Create, Begin
<1>3. request'[r].op = "create" /\ request'[r].id = id /\ App(r)' = Normalised(body)
  BY <1>1, <1>2 DEF Shape, App
<1>4. backend' = backend /\ objects' = objects  BY DEF Create, engineVars
<1>5. CASE \E status \in {"413", "500"} : Answer(r, status, {})
  <2>1. pc'[r] = "done" /\ reply'[r] # "200"  BY <1>1, <1>5 DEF Answer, Shape
  <2> QED  BY <2>1, EndedRecord
<1>6. CASE /\ Acceptable(body)
           /\ Continue(r, IF backend = "docker" THEN "pull" ELSE "deployment")
           /\ slot' = [slot EXCEPT ![r] = Host]
  <2>1. /\ \/ pc'[r] = "pull" /\ backend = "docker"
           \/ pc'[r] = "deployment" /\ backend = "kubernetes"
        /\ slot'[r] = Host /\ reply'[r] = "none"
    BY <1>1, <1>6 DEF Continue, Shape, HandlerAt, Backend
  <2>2. Normal(App(r)')
    <3>1. body \in AppConfig /\ WellFormed(body)
      BY <1>6, RecordsAssumption DEF Acceptable
    <3> QED  BY <1>3, <3>1, NormalisationKeepsContainers
  <2>3. Host \in OwnSlots(App(r)')  BY <2>2, HostIsOwn
  <2>4. PlaceOK(r)'
    <3>1. OwnSlots(App(r))' = OwnSlots(App(r)')  BY DEF OwnSlots, LastSlot
    <3> QED  BY <1>4, <2>1, <2>3, <3>1 DEF PlaceOK
  <2>5. MadeBehind(r)'
    <3>1. Behind(r)' = {}
      BY <2>1 DEF Behind, OwnSlots, Host
    <3> QED  BY <2>1, <3>1 DEF MadeBehind
  <2>6. NoneAhead(r)'
    <3>1. ASSUME NEW o \in objects, o.id = id, o.name = App(r)'.name
          PROVE  Rival(r)'
      <4>1. App(r)'.name # None
        <5> DEFINE app == App(r)'
        <5>1. app \in AppConfig  BY <2>2 DEF Normal
        <5> HIDE DEF app
        <5>2. app.name \in Name  BY <5>1, AppFields
        <5>3. app.name # None  BY <5>2, ConfigurationAssumption
        <5> QED  BY <5>3 DEF app
      <4>2. Written(o)
        BY <3>1, <4>1 DEF RecordInv, NamedIsReadable, IInv, ObjectsWritten
      <4>3. PICK s \in Requests : Creates(s, id) /\ o = Object(o.id, App(s), o.slot)
        BY <3>1, <4>2 DEF Written
      <4>4. o.name = App(s).name  BY <4>3, ObjectFields
      <4>5. s # r  BY <1>1, <4>3 DEF Creates
      <4>6. Creates(s, id)' /\ App(s)' = App(s)
        BY <1>1, <1>2, <4>3, <4>5 DEF Creates, App, Shape
      <4> QED  BY <1>3, <3>1, <4>4, <4>5, <4>6 DEF Rival
    <3> QED  BY <1>3, <1>4, <3>1 DEF NoneAhead
  <2> QED  BY <2>4, <2>5, <2>6 DEF RecordOK
<1> QED  BY <1>5, <1>6 DEF Create, Fail

LEMMA DeleteRecord ==
    ASSUME IInv, NEW r \in Requests, NEW id \in Ids, Delete(r, id)
    PROVE  RecordOK(r)'
<1>1. Shape /\ HandlerAt(r) /\ pc[r] = "idle"  BY DEF IInv, Delete, Begin
<1>2. request'[r].op = "delete" /\ request'[r].id = id
  BY <1>1 DEF Delete, Begin, Shape
<1>3. CASE \E status : Answer(r, status, {})
  <2>1. pc'[r] = "done"  BY <1>1, <1>3 DEF Answer, Shape
  <2> QED  BY <1>2, <2>1, EndedRecord
<1>4. CASE /\ pc' = [pc EXCEPT ![r] = "remove"]
           /\ \E found \in IF backend = "docker" THEN {ObjectsOf(id)}
                            ELSE {{o} : o \in ObjectsOf(id)} :
                 seen' = [seen EXCEPT ![r] = found]
  <2>1. pc'[r] = "remove"  BY <1>1, <1>4 DEF Shape
  <2>2. \A o \in seen'[r] : o.id = id
    BY <1>1, <1>4 DEF Shape, ObjectsOf
  <2>3. PlaceOK(r)'  BY <1>2, <2>1, <2>2 DEF PlaceOK
  <2>4. MadeBehind(r)' /\ NoneAhead(r)'
    BY <1>2, <2>1 DEF MadeBehind, NoneAhead, CreatePlaces
  <2> QED  BY <2>3, <2>4 DEF RecordOK
<1> QED  BY <1>3, <1>4 DEF Delete

LEMMA ReadRecord ==
    ASSUME IInv, NEW r \in Requests, GetAll(r) \/ \E id \in Ids : Get(r, id)
    PROVE  RecordOK(r)'
<1>1. Shape /\ HandlerAt(r)  BY DEF IInv
<1>2. request'[r].op \in {"get", "list"}  BY <1>1 DEF GetAll, Get, Begin, Shape
<1>3. pc'[r] = "done"  BY <1>1 DEF GetAll, Get, Answer, Shape
<1> QED  BY <1>2, <1>3, EndedRecord

LEMMA RemovalRecord ==
    ASSUME IInv, RecordInv, NEW r \in Requests, RemoveContainer(r) \/ RemoveDeployment(r)
    PROVE  RecordOK(r)'
<1>1. /\ Shape /\ PlaceOK(r) /\ pc[r] = "remove" /\ request[r].op = "delete"
      /\ request' = request
  BY DEF IInv, HandlerAt, RecordInv, RecordOK, RemoveContainer, RemoveDeployment
<1>2. CASE \E status : Answer(r, status, {})
  <2>1. pc'[r] = "done"  BY <1>1, <1>2 DEF Answer, Shape
  <2> QED  BY <1>1, <2>1, EndedRecord
<1>3. CASE \E o \in seen[r] : seen' = [seen EXCEPT ![r] = @ \ {o}] /\ UNCHANGED pc
  <2>1. seen'[r] \subseteq seen[r]  BY <1>1, <1>3 DEF Shape
  <2>2. PlaceOK(r)'  BY <1>1, <1>3, <2>1 DEF PlaceOK
  <2>3. MadeBehind(r)' /\ NoneAhead(r)'
    BY <1>1, <1>3 DEF MadeBehind, NoneAhead, CreatePlaces
  <2> QED  BY <2>2, <2>3 DEF RecordOK
<1> QED  BY <1>2, <1>3 DEF RemoveContainer, RemoveDeployment

\* In the middle of create_app nobody's request changes.
LEMMA CreatingSteps ==
    ASSUME IInv, RecordInv, NEW r \in Requests, UNCHANGED <<backend, request>>
    PROVE  /\ App(r)' = App(r)
           /\ DeleteAsked(request[r].id)' = DeleteAsked(request[r].id)
           /\ Rival(r)' = Rival(r)
           /\ OwnSlots(App(r))' = OwnSlots(App(r))
           /\ \A k : Object(request[r].id, App(r), k)' = Object(request[r].id, App(r), k)
<1>1. \A s : App(s)' = App(s)  BY DEF App
<1>2. \A k : Object(request[r].id, App(r), k)' = Object(request[r].id, App(r), k)
  BY <1>1 DEF Object
<1>3. Rival(r)' = Rival(r)  BY <1>1 DEF Rival, Creates
<1>4. OwnSlots(App(r))' = OwnSlots(App(r))  BY <1>1 DEF OwnSlots, LastSlot
<1> QED  BY <1>1, <1>2, <1>3, <1>4 DEF DeleteAsked

LEMMA MovedRecord ==
    ASSUME IInv, RecordInv, NEW r \in Requests, PullImage(r) \/ WriteConfig(r)
    PROVE  RecordOK(r)'
<1>1. Shape /\ HandlerAt(r) /\ RecordOK(r) /\ pc[r] \in {"pull", "config"}
  BY DEF IInv, RecordInv, PullImage, WriteConfig
<1>2. Underway(r)  BY <1>1, CreationUnderway DEF CreatePlaces
<1>3. UNCHANGED <<backend, objects, request>>
  BY DEF PullImage, WriteConfig, engineVars
<1>4. CASE Fail(r)
  <2>1. pc'[r] = "done" /\ reply'[r] # "200"  BY <1>1, <1>4 DEF Fail, Answer, Shape
  <2> QED  BY <2>1, EndedRecord
<1>5. CASE ~Fail(r)
  <2>1. /\ pc'[r] \in {"config", "container"}
        /\ pc'[r] = "config" => slot[r] > Daemon /\ HasConfig(App(r), IndexOf(slot[r]))
        /\ UNCHANGED <<slot, seen, reply>>
    BY <1>1, <1>5 DEF PullImage, WriteConfig, Continue, AfterPull, Shape
  <2>2. HasConfig(App(r), IndexOf(slot[r]))' = HasConfig(App(r), IndexOf(slot[r]))
    BY <1>3, <2>1 DEF HasConfig, GetContainers, App, IndexOf
  <2>3. PlaceOK(r)'
    BY <1>1, <1>3, <2>1, <2>2, CreatingSteps DEF RecordOK, PlaceOK
  <2>4. Behind(r)' = Behind(r)
    BY <1>1, <1>3, <2>1, CreatingSteps DEF Behind
  <2>5. MadeBehind(r)'
    BY <1>1, <1>3, <2>1, <2>4, CreatingSteps DEF RecordOK, MadeBehind, HandlerAt, CreatePlaces
  <2>6. NoneAhead(r)'
    BY <1>1, <1>3, <2>1, CreatingSteps DEF RecordOK, NoneAhead, CreatePlaces
  <2> QED  BY <2>3, <2>5, <2>6 DEF RecordOK
<1> QED  BY <1>4, <1>5

LEMMA CreateContainerRecord ==
    ASSUME IInv, RecordInv, NEW r \in Requests, CreateContainer(r)
    PROVE  RecordOK(r)'
<1>1. Shape /\ HandlerAt(r) /\ RecordOK(r) /\ pc[r] = "container"
  BY DEF IInv, RecordInv, CreateContainer
<1>2. Underway(r)  BY <1>1, CreationUnderway DEF CreatePlaces
<1>3. UNCHANGED <<backend, request>>  BY DEF CreateContainer
<1>4. backend = "docker" /\ slot[r] \in OwnSlots(App(r))  BY <1>1 DEF RecordOK, PlaceOK
<1>5. CASE Fail(r)
  <2>1. pc'[r] = "done" /\ reply'[r] # "200"  BY <1>1, <1>5 DEF Fail, Answer, Shape
  <2> QED  BY <2>1, EndedRecord
<1>6. CASE ContainerMade(r)
  <2>1. objects' = objects \cup {Object(request[r].id, App(r), slot[r])}
    BY <1>6 DEF ContainerMade
  <2>2. ASSUME ~DeleteAsked(request[r].id), NEW k \in OwnSlots(App(r)), k <= slot[r]
        PROVE  Object(request[r].id, App(r), k) \in objects'
    <3>1. k = slot[r] \/ k \in Behind(r)  BY <1>2, <2>2 DEF Behind, Underway, OwnSlots, Host
    <3>2. k \in Behind(r) => Object(request[r].id, App(r), k) \in objects
      BY <1>1, <1>2, <2>2 DEF RecordOK, MadeBehind, Underway, CreatePlaces
    <3> QED  BY <2>1, <3>1, <3>2
  <2>3. ASSUME ~Rival(r), NEW o \in objects', o.id = request[r].id, o.name = App(r).name
        PROVE  o.slot \in Nat /\ o.slot <= slot[r]
    <3>1. CASE o \in objects
      <4>1. o.slot < slot[r]
        BY <1>1, <2>3, <3>1 DEF RecordOK, NoneAhead, CreatePlaces
      <4>2. o.slot \in Nat  BY <3>1 DEF RecordInv, NamedIsReadable
      <4> QED  BY <1>2, <4>1, <4>2 DEF Underway
    <3>2. CASE o = Object(request[r].id, App(r), slot[r])
      BY <1>2, <3>2, ObjectFields DEF Underway
    <3> QED  BY <2>1, <2>3, <3>1, <3>2
  <2>4. CASE slot[r] # LastSlot(App(r))
    <3> DEFINE next == NextSlot(App(r), slot[r])
    <3>1. /\ next \in OwnSlots(App(r)) /\ next > slot[r]
          /\ \A k \in OwnSlots(App(r)) : k < next => k <= slot[r]
      BY <1>2, <1>4, <2>4, NextOwnSlot DEF Underway
    <3>2. pc'[r] = FirstCall(App(r), next) /\ slot'[r] = next /\ reply'[r] = reply[r]
      BY <1>1, <1>6, <2>4 DEF ContainerMade, Continue, Shape
    <3> HIDE DEF next
    <3>3. pc'[r] \in {"pull", "config", "container"}
      BY <3>2 DEF FirstCall, AfterPull
    <3>4. pc'[r] = "config" => slot'[r] > Daemon /\ HasConfig(App(r), IndexOf(slot'[r]))
      BY <3>2 DEF FirstCall, AfterPull
    <3>5. HasConfig(App(r), IndexOf(slot[r]))' = HasConfig(App(r), IndexOf(slot'[r]))
      BY <1>3 DEF HasConfig, GetContainers, App, IndexOf
    <3>6. PlaceOK(r)'
      BY <1>3, <1>4, <3>1, <3>2, <3>3, <3>4, <3>5, CreatingSteps DEF PlaceOK
    <3>7. Behind(r)' = {k \in OwnSlots(App(r)) : k < next}
      BY <1>3, <3>2, <3>3, CreatingSteps DEF Behind
    <3>8. MadeBehind(r)'
      BY <1>1, <1>3, <2>2, <3>1, <3>2, <3>3, <3>7, CreatingSteps DEF MadeBehind, HandlerAt
    <3>9. NoneAhead(r)'
      <4>1. \A n \in Nat : n <= slot[r] => n < next
        BY <1>2, <3>1 DEF Underway, OwnSlots, Host
      <4> QED  BY <1>3, <2>3, <3>2, <3>3, <4>1, CreatingSteps DEF NoneAhead
    <3> QED  BY <3>6, <3>8, <3>9 DEF RecordOK
  <2>5. CASE slot[r] = LastSlot(App(r)) /\ App(r).autostart
    <3>1. pc'[r] = "start" /\ slot'[r] = slot[r] /\ reply'[r] = reply[r]
      BY <1>1, <1>6, <2>5 DEF ContainerMade, Continue, Shape
    <3>2. LastSlot(App(r))' = LastSlot(App(r))  BY <1>3, CreatingSteps DEF LastSlot
    <3>3. PlaceOK(r)'
      BY <1>3, <1>4, <2>5, <3>1, <3>2, CreatingSteps DEF PlaceOK
    <3>4. Behind(r)' \subseteq OwnSlots(App(r))
      BY <1>3, CreatingSteps DEF Behind
    <3>5. \A k \in OwnSlots(App(r)) : k <= slot[r]
      BY <1>2, <2>5 DEF OwnSlots, Underway, Host
    <3>6. MadeBehind(r)'
      BY <1>1, <1>3, <2>2, <3>1, <3>4, <3>5, CreatingSteps DEF MadeBehind, HandlerAt
    <3>7. NoneAhead(r)'  BY <3>1 DEF NoneAhead
    <3> QED  BY <3>3, <3>6, <3>7 DEF RecordOK
  <2>6. CASE slot[r] = LastSlot(App(r)) /\ ~App(r).autostart
    <3>1. pc'[r] = "done"
      BY <1>1, <1>6, <2>6 DEF ContainerMade, Answer, Shape
    <3>2. Host \in OwnSlots(App(r)) /\ Host <= slot[r]
      BY <1>2, HostIsOwn DEF Underway, Host
    <3> QED  BY <1>3, <2>2, <3>1, <3>2, CreatingSteps, EndedRecord
  <2> QED  BY <2>4, <2>5, <2>6
<1> QED  BY <1>5, <1>6 DEF CreateContainer

\* An app that is answered 200 has all its objects, unless one was deleted.
LEMMA EndOfCreationRecord ==
    ASSUME IInv, RecordInv, NEW r \in Requests, Autostart(r) \/ CreateDeployment(r)
    PROVE  RecordOK(r)'
<1>1. Shape /\ HandlerAt(r) /\ RecordOK(r) /\ pc[r] \in {"start", "deployment"}
  BY DEF IInv, RecordInv, Autostart, CreateDeployment
<1>2. Underway(r)  BY <1>1, CreationUnderway DEF CreatePlaces
<1>3. UNCHANGED <<backend, request>>  BY DEF Autostart, CreateDeployment, engineVars
<1>4. pc'[r] = "done"
  BY <1>1 DEF Autostart, CreateDeployment, Fail, Answer, Shape
<1>5. ASSUME ~DeleteAsked(request[r].id), reply'[r] = "200"
      PROVE  Object(request[r].id, App(r), Host) \in objects'
  <2>1. CASE Autostart(r)
    <3>1. Host \in Behind(r)  BY <1>2, <2>1, HostIsOwn DEF Autostart, Behind, Underway
    <3>2. objects' = objects  BY <2>1 DEF Autostart, engineVars
    <3> QED  BY <1>1, <1>2, <1>5, <3>1, <3>2 DEF RecordOK, MadeBehind, Underway, CreatePlaces
  <2>2. CASE CreateDeployment(r)
    BY <1>1, <1>5, <2>2 DEF CreateDeployment, Fail, Answer, Shape
  <2> QED  BY <2>1, <2>2
<1> QED  BY <1>3, <1>4, <1>5, CreatingSteps, EndedRecord

-----------------------------------------------------------------------------

LEMMA StepKeepsRecord ==
    ASSUME IInv, RecordInv, NEW r \in Requests, Arrive(r) \/ Step(r)
    PROVE  RecordInv'
<1>1. OthersStay(r)  BY StepOfRequest DEF StepOf
<1>2. RecordOK(r)'
  <2>1. CASE Arrive(r)
    BY <2>1, CreateRecord, DeleteRecord, ReadRecord DEF Arrive
  <2>2. CASE Step(r)
    BY <2>2, MovedRecord, CreateContainerRecord, EndOfCreationRecord, RemovalRecord DEF Step
  <2> QED  BY <2>1, <2>2
<1>3. \A s \in Requests : RecordOK(s)'
  BY <1>1, <1>2, OthersRecord
<1>4. NamedIsReadable'
  <2>1. Shape  BY DEF IInv
  <2>2. \A n \in {Host, slot[r]} : n \in Nat  BY <2>1 DEF Shape, Host
  <2>3. \A o \in objects' : o.slot \in Nat /\ (o.name # None => Readable(o))
    BY <2>2, ObjectsOfStep, ObjectFields DEF RecordInv, NamedIsReadable
  <2> QED  BY <2>3 DEF NamedIsReadable, Readable
<1> QED  BY <1>3, <1>4 DEF RecordInv

\* An object somebody else makes has the name of no app.
LEMMA ForeignKeepsRecord ==
    ASSUME IInv, RecordInv, NEW id \in ForeignIds, MakeForeign(id)
    PROVE  RecordInv'
<1>1. /\ objects' = objects \cup {Foreign(id)}
      /\ UNCHANGED <<backend, pc, request, slot, seen, reply>>
  BY DEF MakeForeign
<1>2. Foreign(id).name = None /\ Foreign(id).slot = 0  BY DEF Foreign
<1>3. NamedIsReadable'
  <2>1. \A o \in objects' : o.slot \in Nat /\ (o.name # None => Readable(o))
    BY <1>1, <1>2 DEF RecordInv, NamedIsReadable
  <2> QED  BY <2>1 DEF NamedIsReadable, Readable
<1>4. ASSUME NEW r \in Requests  PROVE RecordOK(r)'
  <2>1. RecordOK(r)  BY DEF RecordInv
  <2>2. /\ App(r)' = App(r) /\ Behind(r)' = Behind(r) /\ Rival(r)' = Rival(r)
        /\ DeleteAsked(request[r].id)' = DeleteAsked(request[r].id)
        /\ \A k : Object(request[r].id, App(r), k)' = Object(request[r].id, App(r), k)
    BY <1>1 DEF App, Behind, OwnSlots, LastSlot, Rival, Creates, DeleteAsked, Object
  <2>3. PlaceOK(r)'
    BY <1>1, <2>1 DEF RecordOK, PlaceOK, OwnSlots, LastSlot, App, HasConfig, GetContainers
  <2>4. MadeBehind(r)'  BY <1>1, <2>1, <2>2 DEF RecordOK, MadeBehind
  <2>5. NoneAhead(r)'
    <3>1. pc[r] \in CreatePlaces => App(r).name # None
      BY CreationUnderway, ConfigurationAssumption DEF Underway
    <3> QED  BY <1>1, <1>2, <2>1, <2>2, <3>1 DEF RecordOK, NoneAhead
  <2> QED  BY <2>3, <2>4, <2>5 DEF RecordOK
<1> QED  BY <1>3, <1>4 DEF RecordInv

LEMMA RecordInvariantKept == IInv /\ RecordInv /\ [Next]_vars => RecordInv'
<1> SUFFICES ASSUME IInv, RecordInv, [Next]_vars PROVE RecordInv'  OBVIOUS
<1>1. ASSUME NEW r \in Requests, Arrive(r) \/ Step(r)  PROVE RecordInv'
  BY <1>1, StepKeepsRecord
<1>2. ASSUME NEW id \in ForeignIds, MakeForeign(id)  PROVE RecordInv'
  BY <1>2, ForeignKeepsRecord
<1>3. ASSUME NothingRecorded  PROVE RecordInv'
  <2>1. NamedIsReadable'
    BY <1>3 DEF NothingRecorded, RecordInv, NamedIsReadable, Readable
  <2>2. ASSUME NEW r \in Requests  PROVE RecordOK(r)'
    <3>1. RecordOK(r)  BY DEF RecordInv
    <3>2. PlaceOK(r)'
      BY <1>3, <3>1
         DEF NothingRecorded, RecordOK, PlaceOK, OwnSlots, LastSlot, App, HasConfig, GetContainers
    <3>3. MadeBehind(r)'
      BY <1>3, <3>1
         DEF NothingRecorded, RecordOK, MadeBehind, DeleteAsked, Behind, OwnSlots, LastSlot, App,
             Object
    <3>4. NoneAhead(r)'
      BY <1>3, <3>1 DEF NothingRecorded, RecordOK, NoneAhead, Rival, Creates, App
    <3> QED  BY <3>2, <3>3, <3>4 DEF RecordOK
  <2> QED  BY <2>1, <2>2 DEF RecordInv
<1>4. ASSUME NEW r \in Requests, HostEnds(r)  PROVE RecordInv'
  BY <1>3, <1>4, HostEndsUnrecorded
<1>5. CASE Terminated \/ UNCHANGED vars  BY <1>3, <1>5, StutterUnrecorded
<1> QED  BY <1>1, <1>2, <1>4, <1>5 DEF Next

LEMMA InitiallyRecord == Init => RecordInv
<1> SUFFICES ASSUME Init PROVE RecordInv  OBVIOUS
<1>1. NamedIsReadable  BY DEF Init, NamedIsReadable
<1>2. \A r \in Requests : RecordOK(r)
  BY DEF Init, RecordOK, PlaceOK, MadeBehind, NoneAhead, CreatePlaces, NoRequest
<1> QED  BY <1>1, <1>2 DEF RecordInv

LEMMA RecordInvariant == Spec => []RecordInv
BY InitiallyRecord, RecordInvariantKept, InductiveInvariant, PTL DEF Spec

-----------------------------------------------------------------------------
(***************************************************************************)
(* What is answered.                                                       *)
(***************************************************************************)

\* Only the request's own steps answer it.
LEMMA StepIsOwn ==
    ASSUME IInv, [Next]_vars, NEW r \in Requests, pc'[r] # pc[r] \/ reply'[r] # reply[r]
    PROVE  (Arrive(r) \/ Step(r)) /\ OthersStay(r)
<1>1. ASSUME NEW q \in Requests, Arrive(q) \/ Step(q)  PROVE q = r /\ OthersStay(q)
  BY <1>1, StepOfRequest DEF StepOf, OthersStay
<1>2. ASSUME NEW id \in ForeignIds, MakeForeign(id)  PROVE FALSE
  BY <1>2 DEF MakeForeign
<1>3. ASSUME NEW q \in Requests, HostEnds(q)  PROVE FALSE
  BY <1>3 DEF HostEnds
<1>4. ~Terminated /\ ~UNCHANGED vars  BY DEF Terminated, vars
<1> QED  BY <1>1, <1>2, <1>3, <1>4 DEF Next

LEMMA CreatedIsThere ==
    ASSUME IInv, RecordInv, NEW s \in Requests,
           request[s].op = "create", reply[s] = "200", ~DeleteAsked(request[s].id)
    PROVE  \E o \in objects : o.id = request[s].id /\ Readable(o)
<1>1. Object(request[s].id, App(s), Host) \in objects
  BY DEF RecordInv, RecordOK, MadeBehind
<1> QED  BY <1>1, ObjectFields

\* An app whose creation was answered 200 is found by get_app and
\* get_all_apps until a delete of its id is asked for, and the Docker backend
\* lists the id once (docker.rs:381-424, kubernetes.rs:599-619): whatever
\* others create, under the same id, too, or make behind the server's back.
THEOREM WhatIsCreatedIsFound == Spec => CreatedIsFound
<1>1. ASSUME IInv, RecordInv, [Next]_vars,
             NEW r \in Requests, pc[r] = "idle", pc'[r] = "done",
             NEW s \in Requests, request[s].op = "create", reply[s] = "200",
             \A d \in Requests : ~(request'[d].op = "delete" /\ request'[d].id = request[s].id)
      PROVE  /\ request'[r] = [op |-> "get", id |-> request[s].id] => reply'[r] # "404"
             /\ request'[r].op = "list" /\ reply'[r] = "200" =>
                    LET entries == {o \in seen'[r] : o.id = request[s].id}
                    IN  /\ entries # {}
                        /\ backend = "docker" => Cardinality(entries) = 1
  <2>1. Shape /\ OthersStay(r) /\ Arrive(r)
    <3>1. (Arrive(r) \/ Step(r)) /\ OthersStay(r)  BY <1>1, StepIsOwn
    <3>2. ~Step(r)
      BY <1>1 DEF Step, PullImage, WriteConfig, CreateContainer, Autostart, CreateDeployment,
                  RemoveContainer, RemoveDeployment
    <3> QED  BY <1>1, <3>1, <3>2 DEF IInv
  <2>2. ~DeleteAsked(request[s].id)
    <3>1. ~DeleteAsked(request[s].id)'
      <4>1. request'[s] = request[s]  BY <1>1, <2>1, CreateStays
      <4> QED  BY <1>1, <4>1 DEF DeleteAsked
    <3> QED  BY <1>1, <2>1, <3>1, CreateStays, AskedStays
  <2>3. PICK found \in objects : found.id = request[s].id /\ Readable(found)
    BY <1>1, <2>2, CreatedIsThere
  <2>4. ASSUME NEW id \in Ids, Get(r, id), request'[r].id = request[s].id
        PROVE  reply'[r] # "404"
    <3>1. id = request[s].id  BY <2>1, <2>4 DEF Get, Begin, Shape
    <3>2. ObjectsOf(id) # {}  BY <2>3, <3>1 DEF ObjectsOf
    <3> QED  BY <2>1, <2>4, <3>2 DEF Get, Answer, Shape
  <2>5. ASSUME GetAll(r), reply'[r] = "200"
        PROVE  LET entries == {o \in seen'[r] : o.id = request[s].id}
               IN  /\ entries # {}
                   /\ backend = "docker" => Cardinality(entries) = 1
    <3> DEFINE entries == {o \in seen'[r] : o.id = request[s].id}
    <3>1. CASE backend = "docker"
      <4>1. seen'[r] \in OnePerId({o \in objects : Readable(o)})
        BY <2>1, <2>5, <3>1 DEF GetAll, Answer, Shape
      <4>2. Cardinality(entries) = 1  BY <2>3, <4>1 DEF OnePerId
      <4>3. entries # {}  BY <4>2, FS_EmptySet
      <4> QED  BY <4>2, <4>3
    <3>2. CASE backend = "kubernetes"
      <4>1. seen'[r] = objects  BY <2>1, <2>5, <3>2 DEF GetAll, Answer, Shape
      <4> QED  BY <2>3, <3>2, <4>1
    <3> QED  BY <2>1, <3>1, <3>2 DEF Shape, Backend
  <2>6. ASSUME NEW id \in Ids, Get(r, id)  PROVE request'[r].op = "get"
    BY <2>1, <2>6 DEF Get, Begin, Shape
  <2>7. ASSUME GetAll(r)  PROVE request'[r].op = "list"
    BY <2>1, <2>7 DEF GetAll, Begin, Shape
  <2>8. ASSUME NEW id \in Ids, Delete(r, id) \/ \E body \in Bodies : Create(r, id, body)
        PROVE  request'[r].op \in {"create", "delete"}
    BY <2>1, <2>8 DEF Delete, Create, Begin, Shape
  <2> QED  BY <2>1, <2>4, <2>5, <2>6, <2>7, <2>8 DEF Arrive
<1>2. IInv /\ RecordInv /\ [Next]_vars =>
        [\A r \in Requests : pc[r] = "idle" /\ pc'[r] = "done" =>
        \A s \in Requests :
            /\ request[s].op = "create" /\ reply[s] = "200"
            /\ \A d \in Requests :
                  ~(request'[d].op = "delete" /\ request'[d].id = request[s].id)
            => /\ request'[r] = [op |-> "get", id |-> request[s].id] => reply'[r] # "404"
               /\ request'[r].op = "list" /\ reply'[r] = "200" =>
                    LET entries == {o \in seen'[r] : o.id = request[s].id}
                    IN  /\ entries # {}
                        /\ backend = "docker" => Cardinality(entries) = 1]_vars
  BY <1>1
<1> QED  BY <1>2, InductiveInvariant, RecordInvariant, PTL DEF Spec, CreatedIsFound

-----------------------------------------------------------------------------
(***************************************************************************)
(* Why a creation fails.                                                   *)
(***************************************************************************)

\* A container is missing, or a name taken, only because of others.
LEMMA MissingHasReason ==
    ASSUME IInv, RecordInv, NEW r \in Requests, pc[r] \in CreatePlaces,
           NEW n \in Behind(r), Missing(r, n)
    PROVE  DeleteAsked(request[r].id)
<1>1. SUFFICES ASSUME ~DeleteAsked(request[r].id) PROVE FALSE  OBVIOUS
<1>2. request[r].op = "create"  BY CreationUnderway DEF Underway
<1>3. Object(request[r].id, App(r), n) \in objects
  BY <1>1, <1>2 DEF RecordInv, RecordOK, MadeBehind
<1> QED  BY <1>3, ObjectFields DEF Missing, NameTaken

LEMMA TakenHasReason ==
    ASSUME IInv, RecordInv, NEW r \in Requests, pc[r] \in CreatePlaces \ {"start"},
           NameTaken(request[r].id, App(r), slot[r])
    PROVE  Rival(r)
<1>1. PICK o \in objects : o.id = request[r].id /\ o.name = App(r).name /\ o.slot = slot[r]
  BY DEF NameTaken
<1>2. slot[r] \in Nat  BY CreationUnderway DEF Underway
<1>3. ~(o.slot < slot[r])  BY <1>1, <1>2
<1> QED  BY <1>1, <1>3 DEF RecordInv, RecordOK, NoneAhead

\* An application container and the text of its configuration.
LEMMA ContainerAtSlot ==
    ASSUME NEW r \in Requests, Underway(r), slot[r] > Daemon
    PROVE  /\ IndexOf(slot[r]) \in DOMAIN App(r).containers
           /\ GetContainers(App(r)) = App(r).containers
<1>1. slot[r] - 1 \in DOMAIN App(r).containers
  BY ContainersOfNormal DEF Underway, Daemon, LastSlot, SlotOf
<1> QED  BY <1>1, ContainersOfNormal DEF Underway, IndexOf

LEMMA ImageNeeded ==
    ASSUME NEW app, Normal(app), NEW n \in OwnSlots(app)
    PROVE  ImageAt(app, n) \in NeededImages(app)
<1>1. LastSlot(app) \in Nat /\ n \in Nat /\ n <= LastSlot(app)
  BY Slots DEF OwnSlots, Host
<1>2. CASE n = Host  BY <1>2 DEF ImageAt, NeededImages, Host, Daemon
<1>3. CASE n = Daemon
  BY <1>3 DEF ImageAt, NeededImages, OwnSlots, Host, Daemon
<1>4. CASE n > Daemon
  <2>1. /\ IndexOf(n) \in DOMAIN app.containers
        /\ ImageAt(app, n) = app.containers[IndexOf(n)].image
    BY <1>1, <1>4, ContainersOfNormal DEF ImageAt, IndexOf, LastSlot, SlotOf, Host, Daemon
  <2> QED  BY <2>1 DEF NeededImages
<1> QED  BY <1>1, <1>2, <1>3, <1>4 DEF Host, Daemon

LEMMA WriteConfigFails ==
    ASSUME IInv, RecordInv, NEW r \in Requests, WriteConfig(r), ~CanWriteConfig(r)
    PROVE  CreateHasReason(r)
<1> DEFINE app == App(r)
           i == IndexOf(slot[r])
<1>1. pc[r] = "config"  BY DEF WriteConfig
<1>2. Underway(r)  BY <1>1, CreationUnderway DEF CreatePlaces
<1>3. backend = "docker" /\ slot[r] > Daemon /\ HasConfig(app, i)
  BY <1>1 DEF RecordInv, RecordOK, PlaceOK
<1>4. i \in DOMAIN app.containers /\ GetContainers(app) = app.containers
  BY <1>2, <1>3, ContainerAtSlot
<1> HIDE DEF i, app
<1>5. /\ i \in DOMAIN GetContainerConfigs(app)
      /\ GetContainerConfigs(app)[i] = app.containers[i].config
  BY <1>3, <1>4 DEF GetContainerConfigs
<1>6. CASE HelperImage \notin images \cap RunnableImages
  <2>1. HelperImage \in NeededImages(app)  BY <1>5 DEF NeededImages
  <2> QED  BY <1>3, <1>6, <2>1 DEF CreateHasReason, app
<1>7. CASE ~FitsEnvironment(app.containers[i].config)
  <2>1. app.containers[i].config \in Range(GetContainerConfigs(app))  BY <1>5 DEF Range
  <2> QED  BY <1>3, <1>7, <2>1 DEF CreateHasReason, app
<1> QED  BY <1>6, <1>7 DEF CanWriteConfig, app, i

LEMMA CreateContainerFails ==
    ASSUME IInv, RecordInv, NEW r \in Requests, pc[r] = "container",
           \/ ~CanCreateContainer(r)
           \/ slot[r] # Host /\ Missing(r, Host)
           \/ ImageAt(App(r), slot[r]) \notin RunnableImages
    PROVE  CreateHasReason(r)
<1>1. Underway(r)  BY CreationUnderway DEF CreatePlaces
<1>2. backend = "docker" /\ slot[r] \in OwnSlots(App(r))
  BY DEF RecordInv, RecordOK, PlaceOK
<1>3. CASE ImageAt(App(r), slot[r]) \notin images \cap RunnableImages
  <2>1. ImageAt(App(r), slot[r]) \in NeededImages(App(r))
    BY <1>1, <1>2, ImageNeeded DEF Underway
  <2> QED  BY <1>2, <1>3, <2>1 DEF CreateHasReason
<1>4. CASE NameTaken(request[r].id, App(r), slot[r])
  BY <1>4, TakenHasReason DEF CreatePlaces, Rival, CreateHasReason
<1>5. CASE slot[r] # Host /\ Missing(r, Host)
  <2>1. Host \in Behind(r)  BY <1>1, <1>5, HostIsOwn DEF Underway, Behind, Host
  <2>2. DeleteAsked(request[r].id)  BY <1>5, <2>1, MissingHasReason DEF CreatePlaces
  <2> QED  BY <1>2, <2>2 DEF DeleteAsked, CreateHasReason
<1>6. CASE App(r).name \notin DockerNames  BY <1>2, <1>6 DEF CreateHasReason
<1> QED  BY <1>3, <1>4, <1>5, <1>6 DEF CanCreateContainer

LEMMA AutostartFails ==
    ASSUME IInv, RecordInv, NEW r \in Requests, pc[r] = "start",
           \/ \E n \in OwnSlots(App(r)) :
                 Missing(r, n) \/ ImageAt(App(r), n) \notin RunnableImages
           \/ r \in ended
    PROVE  CreateHasReason(r)
<1>1. Underway(r)  BY CreationUnderway DEF CreatePlaces
<1>2. backend = "docker"  BY DEF RecordInv, RecordOK, PlaceOK
<1>3. ASSUME NEW n \in OwnSlots(App(r)), Missing(r, n)  PROVE CreateHasReason(r)
  <2>1. n \in Behind(r)  BY DEF Behind
  <2>2. DeleteAsked(request[r].id)  BY <1>3, <2>1, MissingHasReason DEF CreatePlaces
  <2> QED  BY <1>2, <2>2 DEF DeleteAsked, CreateHasReason
<1>4. ASSUME NEW n \in OwnSlots(App(r)), ImageAt(App(r), n) \notin RunnableImages
      PROVE  CreateHasReason(r)
  <2>1. ImageAt(App(r), n) \in NeededImages(App(r))
    BY <1>1, ImageNeeded DEF Underway
  <2> QED  BY <1>2, <1>4, <2>1 DEF CreateHasReason
<1>5. CASE r \in ended  BY <1>2, <1>5 DEF CreateHasReason
<1> QED  BY <1>3, <1>4, <1>5

LEMMA CreateDeploymentFails ==
    ASSUME IInv, RecordInv, NEW r \in Requests, pc[r] = "deployment", ~CanCreateDeployment(r)
    PROVE  CreateHasReason(r)
<1>1. backend = "kubernetes" /\ slot[r] = Host  BY DEF RecordInv, RecordOK, PlaceOK
<1>2. CASE \/ ~AnnotationsFit(App(r))
           \/ App(r).name \notin KubernetesNames
           \/ \E i \in DOMAIN App(r).containers : App(r).containers[i].image \notin PodImages
  BY <1>1, <1>2 DEF CreateHasReason
<1>3. CASE NameTaken(request[r].id, App(r), Host)
  BY <1>1, <1>3, TakenHasReason DEF CreatePlaces, Rival, CreateHasReason
<1> QED  BY <1>2, <1>3 DEF CanCreateDeployment

\* Of the steps of a request under way only those of create_app answer 500.
LEMMA StepFails ==
    ASSUME IInv, RecordInv, NEW r \in Requests, Step(r), reply[r] = "none", reply'[r] = "500"
    PROVE  request'[r].op = "create" /\ CreateHasReason(r)
<1>1. Shape /\ HandlerAt(r)  BY DEF IInv
<1>2. ~PullImage(r) /\ ~RemoveContainer(r) /\ ~RemoveDeployment(r)
  BY <1>1 DEF PullImage, Continue, RemoveContainer, RemoveDeployment, Answer, Shape
<1>3. /\ pc[r] \in CreatePlaces
      /\ request' = request
  BY <1>2 DEF Step, WriteConfig, CreateContainer, Autostart, CreateDeployment, CreatePlaces,
              engineVars
<1>4. request'[r].op = "create"  BY <1>1, <1>3 DEF HandlerAt
<1>5. CASE WriteConfig(r)
  <2>1. ~CanWriteConfig(r)  BY <1>1, <1>5 DEF WriteConfig, Continue
  <2> QED  BY <1>4, <1>5, <2>1, WriteConfigFails
<1>6. CASE CreateContainer(r)
  <2>1. ~ContainerMade(r)  BY <1>1, <1>6 DEF ContainerMade, Continue, Answer, Shape
  <2> QED  BY <1>4, <1>6, <2>1, CreateContainerFails DEF CreateContainer
<1>7. CASE Autostart(r)
  <2>1. ~Answer(r, "200", {})  BY <1>1 DEF Answer, Shape
  <2> QED  BY <1>4, <1>7, <2>1, AutostartFails DEF Autostart
<1>8. CASE CreateDeployment(r)
  <2>1. ~Answer(r, "200", {})  BY <1>1 DEF Answer, Shape
  <2> QED  BY <1>4, <1>8, <2>1, CreateDeploymentFails DEF CreateDeployment
<1> QED  BY <1>2, <1>5, <1>6, <1>7, <1>8 DEF Step

LEMMA ArrivalFails ==
    ASSUME IInv, NEW r \in Requests, Arrive(r), reply'[r] = "500"
    PROVE  /\ pc[r] = "idle"
           /\ \/ request'[r].op = "create" /\ ~WellFormed(request'[r].body)
              \/ request'[r].op # "create" /\ \E o \in objects : ~Readable(o)
<1>1. Shape  BY DEF IInv
<1>2. pc[r] = "idle"  BY DEF Arrive, GetAll, Create, Delete, Get, Begin
<1>3. reply[r] = "none"  BY <1>2 DEF IInv, HandlerAt
<1>4. ASSUME NEW id \in Ids, NEW body \in Bodies, Create(r, id, body)
      PROVE  request'[r].op = "create" /\ ~WellFormed(request'[r].body)
  <2>1. request'[r] = [op |-> "create", id |-> id, body |-> body]
    BY <1>1, <1>4 DEF Create, Begin, Shape
  <2>2. ~Answer(r, "413", {})  BY <1>1 DEF Answer, Shape
  <2>3. ~WellFormed(body)  BY <1>3, <1>4, <2>2 DEF Create, Continue
  <2> QED  BY <2>1, <2>3
<1>5. ASSUME NEW id \in Ids, Delete(r, id)  PROVE FALSE
  BY <1>1, <1>3, <1>5 DEF Delete, Answer, Shape
<1>6. ASSUME NEW id \in Ids, Get(r, id)
      PROVE  request'[r].op # "create" /\ \E o \in objects : ~Readable(o)
  BY <1>1, <1>6 DEF Get, Begin, Answer, Shape, ObjectsOf
<1>7. ASSUME GetAll(r)
      PROVE  request'[r].op # "create" /\ \E o \in objects : ~Readable(o)
  <2>1. request'[r].op # "create"  BY <1>1, <1>7 DEF GetAll, Begin, Shape
  <2>2. \A found : ~Answer(r, "200", found)  BY <1>1 DEF Answer, Shape
  <2> QED  BY <1>7, <2>1, <2>2 DEF GetAll
<1> QED  BY <1>2, <1>4, <1>5, <1>6, <1>7 DEF Arrive

\* With an engine or cluster that does what it can, an app that was let
\* through fails only for a name that is no good, want of an image that runs,
\* a text too long for what carries it, an id drawn twice for one name, or
\* because of a delete or the end of the x11 host that came in between; and
\* reads fail only where somebody else has made an object (docker.rs:115,
\* 222-290, 674-681, kubernetes.rs:208, 242-245, 495-500, 612-616).
THEOREM FailuresAreExplained == Spec => ErrorsHaveReasons
<1>1. ASSUME IInv, RecordInv, [Next]_vars, NEW r \in Requests, reply[r] = "none", reply'[r] = "500"
      PROVE  IF request'[r].op # "create" THEN \E o \in objects : ~Readable(o)
             ELSE IF pc[r] = "idle" THEN ~WellFormed(request'[r].body)
             ELSE CreateHasReason(r)
  <2>1. Arrive(r) \/ Step(r)  BY <1>1, StepIsOwn
  <2>2. CASE Arrive(r)  BY <1>1, <2>2, ArrivalFails
  <2>3. CASE Step(r)
    <3>1. pc[r] # "idle"
      BY <2>3 DEF Step, PullImage, WriteConfig, CreateContainer, Autostart, CreateDeployment,
                  RemoveContainer, RemoveDeployment
    <3> QED  BY <1>1, <2>3, <3>1, StepFails
  <2> QED  BY <2>1, <2>2, <2>3
<1>2. IInv /\ RecordInv /\ [Next]_vars =>
        [\A r \in Requests : reply[r] = "none" /\ reply'[r] = "500" =>
            IF request'[r].op # "create" THEN \E o \in objects : ~Readable(o)
            ELSE IF pc[r] = "idle" THEN ~WellFormed(request'[r].body)
            ELSE CreateHasReason(r)]_vars
  BY <1>1
<1> QED  BY <1>2, InductiveInvariant, RecordInvariant, PTL DEF Spec, ErrorsHaveReasons

=============================================================================
