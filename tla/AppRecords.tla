----------------------------- MODULE AppRecords -----------------------------
(***************************************************************************)
(* How apps are recorded: the server as src/main.rs starts it, with the    *)
(* API (src/api.rs) in front of the Docker or the Kubernetes backend.  The *)
(* only record of an app are the labels of its containers, or the          *)
(* annotations and the pod template of its Deployment.  This module has    *)
(* the calls that make, remove and read these, and those that may keep an  *)
(* app from being made; DockerBackend and KubernetesBackend have the rest. *)
(*                                                                         *)
(* Ids are drawn at random and nothing keeps two apps from having the      *)
(* same.  Somebody else may make an object with the label of an app and    *)
(* without all that goes with it.                                          *)
(***************************************************************************)
EXTENDS AppConfiguration, FiniteSetsExt, Functions

CONSTANTS
    Backends,       \* the backends the server may be started with
    Requests,       \* the HTTP requests served
    Ids,            \* the ids that may be drawn
    Bodies,         \* the configurations clients ask for
    LocalImages,    \* images that may be there from the start
    ForeignIds,     \* ids in labels somebody else makes
    HostImage,      \* the image of the x11 host
    DaemonImage,    \* docker:dind
    HelperImage,    \* alpine:latest
    DockerNames,    \* app names a container name may begin with
    KubernetesNames,\* app names a Service's name may begin with
    PodImages,      \* images a container of a pod may be named after
    RunnableImages, \* images with a command that can be run
    OtherAnnotations \* bytes of annotations that hold no configuration

Backend == {"docker", "kubernetes"}

NoLabels == [id \in {} |-> id]

NoRequest == [op |-> "none"]

ASSUME RecordsAssumption ==
    /\ Backends \subseteq Backend
    /\ Bodies \subseteq AppConfig
    /\ LocalImages \subseteq Image
    /\ {HostImage, DaemonImage, HelperImage} \subseteq Image
    /\ DockerNames \cup KubernetesNames \subseteq Name
    /\ PodImages \cup RunnableImages \subseteq Image
    /\ OtherAnnotations \in Nat

VARIABLES
    backend,    \* chosen when the server starts
    objects,    \* the engine's containers, or the cluster's Deployments
    images,     \* the images the engine has
    ended,      \* autostarts whose x11 host ended meanwhile
    pc,         \* where the handler of a request is
    request,    \* what was asked for
    slot,       \* create: the container that is its turn
    seen,       \* delete: what is left to remove; reads: what they answer
    reply       \* the HTTP status answered

engineVars == <<backend, objects, images, ended>>
vars == <<backend, objects, images, ended, pc, request, slot, seen, reply>>

-----------------------------------------------------------------------------
(***************************************************************************)
(* Objects.  The name of an object is made of the app's name, its id, and  *)
(* the object's place in the app: 0 for the x11 host or the Deployment, 1  *)
(* for the docker daemon, and then the application containers.             *)
(***************************************************************************)

Host == 0
Daemon == 1
SlotOf(i) == i + 1
IndexOf(n) == n - 1

Object(id, app, n) ==
    IF backend = "docker"
    THEN [id |-> id, name |-> app.name, slot |-> n, labels |-> BaseLabels(app), pod |-> <<>>]
    ELSE [id |-> id, name |-> app.name, slot |-> n, labels |-> Annotations(app),
          pod |-> PodContainers(app)]

Foreign(id) ==
    [id |-> id, name |-> None, slot |-> 0, labels |-> NoLabels, pod |-> <<>>]

\* Only the name has no default; Kubernetes also wants an interaction model.
Readable(o) == "name" \in DOMAIN o.labels

\* Mutant of NameTaken: the names of an app's containers are not numbered.
NameTakenUnnumbered(id, app, n) ==
    \E o \in objects :
        /\ o.id = id /\ o.name = app.name
        /\ o.slot = n \/ (o.slot > Daemon /\ n > Daemon)

NameTaken(id, app, n) ==
    \E o \in objects : o.id = id /\ o.name = app.name /\ o.slot = n

ObjectsOf(id) == {o \in objects : o.id = id}

AppOf(o) ==
    IF backend = "docker" THEN FromLabels(o.labels)
    ELSE FromDeployment(o.labels, o.pod)

Init ==
    /\ backend \in Backends
    /\ objects = {}
    /\ images \in SUBSET LocalImages
    /\ ended = {}
    /\ pc = [r \in Requests |-> "idle"]
    /\ request = [r \in Requests |-> NoRequest]
    /\ slot = [r \in Requests |-> 0]
    /\ seen = [r \in Requests |-> {}]
    /\ reply = [r \in Requests |-> "none"]

-----------------------------------------------------------------------------

Begin(r, what) ==
    /\ pc[r] = "idle"
    /\ request' = [request EXCEPT ![r] = what]

Answer(r, status, found) ==
    /\ pc' = [pc EXCEPT ![r] = "done"]
    /\ reply' = [reply EXCEPT ![r] = status]
    /\ seen' = [seen EXCEPT ![r] = found]
    /\ UNCHANGED slot

Continue(r, place) ==
    /\ pc' = [pc EXCEPT ![r] = place]
    /\ UNCHANGED <<seen, reply>>

-----------------------------------------------------------------------------
(***************************************************************************)
(* create_app.                                                             *)
(***************************************************************************)

\* The backend gets the normalised configuration.
App(r) == Normalised(request[r].body)

LastSlot(app) == SlotOf(Len(app.containers))

ImageAt(app, n) ==
    CASE n = Host -> HostImage
      [] n = Daemon -> DaemonImage
      [] OTHER -> app.containers[IndexOf(n)].image

Pulls(app, n) == n \in {Host, Daemon} \/ DockerPulls(app, IndexOf(n))

\* The call that follows the pull of slot n, and the first one of slot n.
AfterPull(app, n) ==
    IF n > Daemon /\ HasConfig(app, IndexOf(n)) THEN "config" ELSE "container"

FirstCall(app, n) == IF Pulls(app, n) THEN "pull" ELSE AfterPull(app, n)

\* The slots of the app: without the sidecar there is none at Daemon.
NextSlot(app, n) == IF n = Host /\ ~app.docker THEN n + 2 ELSE n + 1

\* Mutant of Fail: the API maps errors of create_app as it does elsewhere.
FailNotFound(r) == Answer(r, "404", {})

\* Any error of the backend is the API's 500.
Fail(r) == Answer(r, "500", {})

Create(r, id, body) ==
    /\ Begin(r, [op |-> "create", id |-> id, body |-> body])
    /\ \/ TooLarge(body) /\ Answer(r, "413", {})
       \/ ~TooLarge(body) /\ ~WellFormed(body) /\ Fail(r)
       \/ /\ Acceptable(body)
          /\ Continue(r, IF backend = "docker" THEN "pull" ELSE "deployment")
          /\ slot' = [slot EXCEPT ![r] = Host]
    /\ UNCHANGED engineVars

\* Whatever goes wrong while an image is pulled is not looked at.
PullImage(r) ==
    /\ pc[r] = "pull"
    /\ images' \in {images, images \cup {ImageAt(App(r), slot[r])}}
    /\ Continue(r, AfterPull(App(r), slot[r]))
    /\ UNCHANGED <<backend, objects, ended, request, slot>>

\* Linux takes 128 KiB for one environment variable, its name, "=" and the
\* final NUL included.
FitsEnvironment(text) == Size[text] + 13 <= 131072

\* A helper container writes the configuration; its image is not pulled.
CanWriteConfig(r) ==
    /\ HelperImage \in images \cap RunnableImages
    /\ FitsEnvironment(App(r).containers[IndexOf(slot[r])].config)

WriteConfig(r) ==
    /\ pc[r] = "config"
    /\ \/ CanWriteConfig(r) /\ Continue(r, "container") /\ UNCHANGED slot
       \/ ~CanWriteConfig(r) /\ Fail(r)
    /\ UNCHANGED <<engineVars, request>>

\* The engine refuses a name it does not like or that is in use, and to make
\* a container without an image.
CanCreateContainer(r) ==
    /\ App(r).name \in DockerNames
    /\ ImageAt(App(r), slot[r]) \in images
    /\ ~NameTaken(request[r].id, App(r), slot[r])

\* A delete has been quicker.
Missing(r, n) == ~NameTaken(request[r].id, App(r), n)

ContainerMade(r) ==
    /\ objects' = objects \cup {Object(request[r].id, App(r), slot[r])}
    /\ IF slot[r] # LastSlot(App(r))
       THEN LET next == NextSlot(App(r), slot[r])
            IN  Continue(r, FirstCall(App(r), next)) /\ slot' = [slot EXCEPT ![r] = next]
       ELSE IF App(r).autostart THEN Continue(r, "start") /\ UNCHANGED slot
       ELSE Answer(r, "200", {})

\* The engine may look for the x11 host, whose network the container joins,
\* and whether the image has a command.
CreateContainer(r) ==
    /\ pc[r] = "container"
    /\ \/ CanCreateContainer(r) /\ ContainerMade(r)
       \/ /\ \/ ~CanCreateContainer(r)
             \/ slot[r] # Host /\ Missing(r, Host)
             \/ ImageAt(App(r), slot[r]) \notin RunnableImages
          /\ Fail(r)
          /\ UNCHANGED objects
    /\ UNCHANGED <<backend, images, ended, request>>

\* The x11 host of an app whose containers are being started ends: by itself
\* or because of a stop_app.
HostEnds(r) ==
    /\ pc[r] = "start"
    /\ ~Missing(r, Host)
    /\ ended' = ended \cup {r}
    /\ UNCHANGED <<backend, objects, images, pc, request, slot, seen, reply>>

\* The slots of the containers of an app.
OwnSlots(app) == {n \in Host .. LastSlot(app) : n = Daemon => app.docker}

\* Starting the containers changes no record of the app.  The engine fails
\* to start one that is gone before its turn, that has no command to run, or
\* whose x11 host does not run.
Autostart(r) ==
    /\ pc[r] = "start"
    /\ \/ Answer(r, "200", {})
       \/ /\ \/ \E n \in OwnSlots(App(r)) :
                    Missing(r, n) \/ ImageAt(App(r), n) \notin RunnableImages
             \/ r \in ended
          /\ Fail(r)
    /\ UNCHANGED <<engineVars, request>>

\* The API server takes 256 KiB of annotations; those of the Service, which
\* comes first, are the same.
AnnotationsFit(app) ==
    OtherAnnotations
        + MapThenSumSet(LAMBDA i : Size[app.containers[i].config],
                        DOMAIN GetContainerConfigs(app)) <= 262144

\* The name of the app is in those of Service and Deployment, and what is
\* left of an image's name in that of a container of the pod.
CanCreateDeployment(r) ==
    /\ App(r).name \in KubernetesNames
    /\ \A i \in DOMAIN App(r).containers : App(r).containers[i].image \in PodImages
    /\ AnnotationsFit(App(r))
    /\ ~NameTaken(request[r].id, App(r), Host)

CreateDeployment(r) ==
    /\ pc[r] = "deployment"
    /\ \/ /\ CanCreateDeployment(r)
          /\ objects' = objects \cup {Object(request[r].id, App(r), Host)}
          /\ Answer(r, "200", {})
       \/ ~CanCreateDeployment(r) /\ Fail(r) /\ UNCHANGED objects
    /\ UNCHANGED <<backend, images, ended, request>>

-----------------------------------------------------------------------------
(***************************************************************************)
(* delete_app: list, then remove.                                          *)
(***************************************************************************)

\* Docker removes all it has listed; Kubernetes the first of the list.
Delete(r, id) ==
    /\ Begin(r, [op |-> "delete", id |-> id])
    /\ \/ ObjectsOf(id) = {} /\ Answer(r, IF backend = "docker" THEN "204" ELSE "404", {})
       \/ /\ ObjectsOf(id) # {}
          /\ pc' = [pc EXCEPT ![r] = "remove"]
          /\ \E found \in IF backend = "docker" THEN {ObjectsOf(id)}
                           ELSE {{o} : o \in ObjectsOf(id)} :
                seen' = [seen EXCEPT ![r] = found]
          /\ UNCHANGED <<slot, reply>>
    /\ UNCHANGED engineVars

\* In any order, and an error is nothing to stop for.
RemoveContainer(r) ==
    /\ pc[r] = "remove"
    /\ backend = "docker"
    /\ \E o \in seen[r] :
        /\ objects' = objects \ {o}
        /\ IF seen[r] = {o} THEN Answer(r, "204", {})
           ELSE /\ seen' = [seen EXCEPT ![r] = @ \ {o}]
                /\ UNCHANGED <<pc, slot, reply>>
    /\ UNCHANGED <<backend, images, ended, request>>

\* What is gone, or has no Service, is not found.
RemoveDeployment(r) ==
    /\ pc[r] = "remove"
    /\ backend = "kubernetes"
    /\ \E o \in seen[r] :
        \/ /\ o \in objects /\ Readable(o)
           /\ objects' = objects \ {o}
           /\ Answer(r, "204", {})
        \/ /\ o \notin objects \/ ~Readable(o)
           /\ Answer(r, "404", {})
           /\ UNCHANGED objects
    /\ UNCHANGED <<backend, images, ended, request>>

-----------------------------------------------------------------------------
(***************************************************************************)
(* The reads are one call each.                                            *)
(***************************************************************************)

\* From the first of the list, whichever it is.
Get(r, id) ==
    /\ Begin(r, [op |-> "get", id |-> id])
    /\ \/ ObjectsOf(id) = {} /\ Answer(r, "404", {})
       \/ \E o \in ObjectsOf(id) :
            \/ Readable(o) /\ Answer(r, "200", {o})
            \/ ~Readable(o) /\ Answer(r, "500", {})
    /\ UNCHANGED engineVars

\* Mutant of OnePerId: every container is taken for an app.
OnePerIdNot(S) == {S}

\* Collecting into a map keeps one entry for each id.
OnePerId(S) ==
    {T \in SUBSET S : \A o \in S : Cardinality({t \in T : t.id = o.id}) = 1}

\* Docker skips what it cannot read, Kubernetes fails.
GetAll(r) ==
    /\ Begin(r, [op |-> "list"])
    /\ \/ /\ backend = "docker"
          /\ \E found \in OnePerId({o \in objects : Readable(o)}) : Answer(r, "200", found)
       \/ /\ backend = "kubernetes"
          /\ \/ (\A o \in objects : Readable(o)) /\ Answer(r, "200", objects)
             \/ (\E o \in objects : ~Readable(o)) /\ Answer(r, "500", {})
    /\ UNCHANGED engineVars

-----------------------------------------------------------------------------

\* Somebody else makes an object that carries the label of an app.
MakeForeign(id) ==
    /\ objects' = objects \cup {Foreign(id)}
    /\ UNCHANGED <<backend, images, ended, pc, request, slot, seen, reply>>

Terminated ==
    /\ \A r \in Requests : pc[r] = "done"
    /\ UNCHANGED vars

Arrive(r) ==
    \/ GetAll(r)
    \/ \E id \in Ids :
        \/ \E body \in Bodies : Create(r, id, body)
        \/ Delete(r, id)
        \/ Get(r, id)

Step(r) ==
    \/ PullImage(r)
    \/ WriteConfig(r)
    \/ CreateContainer(r)
    \/ Autostart(r)
    \/ CreateDeployment(r)
    \/ RemoveContainer(r)
    \/ RemoveDeployment(r)

Next ==
    \/ \E r \in Requests : Arrive(r) \/ Step(r) \/ HostEnds(r)
    \/ \E id \in ForeignIds : MakeForeign(id)
    \/ Terminated

Spec == Init /\ [][Next]_vars

-----------------------------------------------------------------------------
(***************************************************************************)
(* Correctness.                                                            *)
(***************************************************************************)

Creates(r, id) == request[r].op = "create" /\ request[r].id = id

Kept(app) == IF backend = "docker" THEN KeptByDocker(app) ELSE KeptByKubernetes(app)

\* The responses api.rs:23-96 declares.
Documented(op) ==
    CASE op = "create" -> {"200", "413", "500"}
      [] op = "delete" -> {"204", "404", "500"}
      [] op = "get"    -> {"200", "404", "500"}
      [] op = "list"   -> {"200", "500"}

TypeOK ==
    /\ backend \in Backend
    /\ images \subseteq Image
    /\ ended \subseteq Requests
    /\ \A o \in objects : o.id \in Ids \cup ForeignIds /\ (Readable(o) => AppOf(o) \in AppConfig)
    /\ pc \in [Requests -> {"idle", "pull", "config", "container", "start",
                            "deployment", "remove", "done"}]
    /\ \A r \in Requests : request[r] # NoRequest <=> pc[r] # "idle"
    /\ slot \in [Requests -> Nat]
    /\ reply \in [Requests -> {"none", "200", "204", "404", "413", "500"}]
    /\ \A r \in Requests : reply[r] # "none" => reply[r] \in Documented(request[r].op)

\* What get_app and get_all_apps answer (docker.rs:381-424,
\* kubernetes.rs:599-619) is the app as somebody created it under that id,
\* with nothing lost but what Kept says: also while it is half made or half
\* deleted, and also when two apps have drawn the same id.
ReadBack ==
    \A r \in Requests : reply[r] = "200" => \A o \in seen[r] :
        \E s \in Requests : Creates(s, o.id) /\ AppOf(o) = Kept(App(s))

\* What is read can be sent to create_app again (api.rs:150-185) and means
\* the same there: whatever was written down has containers in the normal
\* form, none of them with more than 1048576 bytes of configuration.  That
\* is the limit of the code, which lets this very number through.
StoredIsAcceptable ==
    \A o \in objects : Readable(o) =>
        /\ AppOf(o).images = <<>>
        /\ AppOf(o).containers # <<>>
        /\ \A i \in DOMAIN AppOf(o).containers :
              AppOf(o).containers[i].config = None \/ Size[AppOf(o).containers[i].config] <= 1048576

\* An app whose creation was answered 200 can be found until somebody
\* deletes its id, and is in the list; a list of the Docker backend has an
\* id once, however many containers carry it (docker.rs:413-423).
CreatedIsFound ==
    [][\A r \in Requests : pc[r] = "idle" /\ pc'[r] = "done" =>
        \A s \in Requests :
            /\ request[s].op = "create" /\ reply[s] = "200"
            /\ \A d \in Requests :
                  ~(request'[d].op = "delete" /\ request'[d].id = request[s].id)
            => /\ request'[r] = [op |-> "get", id |-> request[s].id] => reply'[r] # "404"
               /\ request'[r].op = "list" /\ reply'[r] = "200" =>
                    LET entries == {o \in seen'[r] : o.id = request[s].id}
                    IN  /\ entries # {}
                        /\ backend = "docker" => Cardinality(entries) = 1]_vars

\* Images the policies allow to pull: the policy of the container, if it has
\* one, comes before the setting of the app (types.rs:111-114), and without
\* either an image is only taken if it is there.
MayPull(app) ==
    {HostImage, DaemonImage} \cup
        {app.containers[i].image : i \in {j \in DOMAIN app.containers :
            CASE app.containers[j].policy = "Never" -> FALSE
              [] app.containers[j].policy = None -> app.alwaysPull
              [] OTHER -> TRUE}}

\* The engine gets no image that no app wants to be pulled.  This is about
\* which images come to be there, not about those that are pulled again.
PullsAsAsked ==
    images \subseteq LocalImages \cup
        UNION {MayPull(App(s)) : s \in {t \in Requests : request[t].op = "create"}}

\* What the comment of create_app says: "Each container's config must be less
\* than 1MB in size" (api.rs:147), which is 1048576 bytes (api.rs:150).  Not
\* so: that very size gets past the check and to the backend.
LetThroughIsBelowLimit ==
    \A r \in Requests : pc[r] \in {"pull", "deployment"} =>
        \A i \in DOMAIN App(r).containers :
            App(r).containers[i].config # None => Size[App(r).containers[i].config] < 1048576

\* What the comments of the Docker backend say: it keeps labels "for
\* reconstruction" (docker.rs:123), from which to "reconstruct AppConfig"
\* (docker.rs:721).  Not so: pull policies and tty are lost.
ReadAsAsked ==
    \A r \in Requests : reply[r] = "200" => \A o \in seen[r] :
        \E s \in Requests : Creates(s, o.id) /\ AppOf(o) = App(s)

\* What the comment of IfNotPresent says: "Only pull the image if it's not
\* already present" (types.rs:11).  Not so: the Docker backend pulls without
\* looking.
PullsIfNotPresent ==
    [][\A r \in Requests :
        /\ pc[r] = "pull" /\ pc'[r] # "pull"
        /\ slot[r] > Daemon
        /\ App(r).containers[IndexOf(slot[r])].policy = "IfNotPresent"
        => ImageAt(App(r), slot[r]) \notin images]_vars

\* The images without which create_app of the Docker backend fails.
NeededImages(app) ==
    {HostImage}
        \cup {app.containers[i].image : i \in DOMAIN app.containers}
        \cup (IF app.docker THEN {DaemonImage} ELSE {})
        \cup (IF DOMAIN GetContainerConfigs(app) # {} THEN {HelperImage} ELSE {})

CreateHasReason(r) ==
    \/ \E s \in Requests \ {r} : Creates(s, request[r].id) /\ App(s).name = App(r).name
    \/ /\ backend = "docker"
       /\ \/ App(r).name \notin DockerNames
          \/ ~(NeededImages(App(r)) \subseteq images \cap RunnableImages)
          \/ r \in ended
          \/ \E t \in Range(GetContainerConfigs(App(r))) : ~FitsEnvironment(t)
          \/ \E s \in Requests : request[s].op = "delete" /\ request[s].id = request[r].id
    \/ /\ backend = "kubernetes"
       /\ \/ App(r).name \notin KubernetesNames
          \/ \E i \in DOMAIN App(r).containers : App(r).containers[i].image \notin PodImages
          \/ ~AnnotationsFit(App(r))

\* An engine or cluster that does what it is asked and can do still refuses
\* an app the API let through, for reasons the API does not look at: a name
\* that containers (docker.rs:115) or objects (kubernetes.rs:208, 495) may
\* not have; an image that is missing and not pulled, among them alpine
\* (docker.rs:222), or that has nothing to run; a configuration below the
\* limit of 1 MiB that a Docker environment variable (docker.rs:224) or
\* Kubernetes annotations (kubernetes.rs:242-245) cannot hold; an id drawn
\* twice for the same name; a delete that finds containers before all are
\* made (docker.rs:283, 290); an x11 host that is stopped, or ends, while
\* the others are started (docker.rs:674-681).  In this model a creation
\* fails for no other reason, whatever is done to the app meanwhile, and
\* reads fail only where somebody else has made an object
\* (kubernetes.rs:612-616).  Calls that fail by themselves are in
\* DockerBackend and KubernetesBackend.
ErrorsHaveReasons ==
    [][\A r \in Requests : reply[r] = "none" /\ reply'[r] = "500" =>
        IF request'[r].op # "create" THEN \E o \in objects : ~Readable(o)
        ELSE IF pc[r] = "idle" THEN ~WellFormed(request'[r].body)
        ELSE CreateHasReason(r)]_vars

=============================================================================
