-------------------------- MODULE AppConfiguration --------------------------
(***************************************************************************)
(* App configurations (src/types.rs): what the API accepts and passes on   *)
(* (src/api.rs), what the backends write down of it in labels, annotations *)
(* and the pod template, and what they rebuild from there.  Operators      *)
(* only.                                                                   *)
(*                                                                         *)
(* Containers are numbered from 1.  The interaction model takes the way of *)
(* the name, and is not told apart from it.                                *)
(***************************************************************************)
EXTENDS Naturals, Sequences, FiniteSets

CONSTANTS
    Name,       \* names of apps
    Image,      \* names of container images
    Text,       \* configuration texts, without NUL characters
    Size,       \* their sizes in bytes
    None        \* an Option without a value

PullPolicy == {"Always", "IfNotPresent", "Never"}

ContainerConfig ==
    [image : Image, config : Text \cup {None},
     policy : PullPolicy \cup {None}, tty : BOOLEAN]

AppConfig ==
    [name : Name, images : Seq(Image), containers : Seq(ContainerConfig),
     alwaysPull : BOOLEAN, docker : BOOLEAN, autostart : BOOLEAN]

ASSUME ConfigurationAssumption ==
    /\ Size \in [Text -> Nat]
    /\ None \notin Name
    /\ None \notin Text
    /\ None \notin PullPolicy

-----------------------------------------------------------------------------

\* A container given by its image only has all defaults.
FromImage(image) ==
    [image |-> image, config |-> None, policy |-> None, tty |-> FALSE]

GetContainers(app) ==
    IF app.containers # <<>> THEN app.containers
    ELSE [i \in DOMAIN app.images |-> FromImage(app.images[i])]

HasConfig(app, i) == GetContainers(app)[i].config # None

GetContainerConfigs(app) ==
    [i \in {j \in DOMAIN GetContainers(app) : HasConfig(app, j)}
        |-> GetContainers(app)[i].config]

-----------------------------------------------------------------------------
(***************************************************************************)
(* What create_app of the API refuses, and how it passes on the rest.      *)
(***************************************************************************)

ConfigLimit == 1048576

\* Mutant of TooLarge: only the first container is looked at.
TooLargeFirst(app) ==
    \E i \in DOMAIN app.containers :
        /\ i = 1
        /\ app.containers[i].config # None
        /\ Size[app.containers[i].config] > ConfigLimit

TooLarge(app) ==
    \E i \in DOMAIN app.containers :
        /\ app.containers[i].config # None
        /\ Size[app.containers[i].config] > ConfigLimit

\* Images or containers, not both and not neither.
WellFormed(app) == app.images = <<>> <=> app.containers # <<>>

Acceptable(app) == ~TooLarge(app) /\ WellFormed(app)

Normalised(app) ==
    [app EXCEPT
        !.containers = @ \o [i \in DOMAIN app.images |-> FromImage(app.images[i])],
        !.images = <<>>]

-----------------------------------------------------------------------------
(***************************************************************************)
(* Pull policies.                                                          *)
(***************************************************************************)

\* Mutant of DockerPulls: the setting of the app comes first.
DockerPullsByApp(app, i) ==
    \/ app.alwaysPull
    \/ GetContainers(app)[i].policy \in {"Always", "IfNotPresent"}

\* Whether create_app of the Docker backend pulls the image of container i.
DockerPulls(app, i) ==
    \/ GetContainers(app)[i].policy \in {"Always", "IfNotPresent"}
    \/ GetContainers(app)[i].policy = None /\ app.alwaysPull

\* The policy the Kubernetes backend writes into the pod template.
KubernetesPolicy(app, i) ==
    IF GetContainers(app)[i].policy # None THEN GetContainers(app)[i].policy
    ELSE IF app.alwaysPull THEN "Always"
    ELSE "IfNotPresent"

-----------------------------------------------------------------------------
(***************************************************************************)
(* Writing down.  The Docker backend puts the labels on every container of *)
(* the app, the Kubernetes backend annotates Service and Deployment.       *)
(***************************************************************************)

BaseLabels(app) ==
    [name      |-> app.name,
     docker    |-> app.docker,
     autostart |-> app.autostart,
     images    |-> [i \in DOMAIN GetContainers(app) |-> GetContainers(app)[i].image],
     configs   |-> GetContainerConfigs(app)]

Annotations(app) ==
    [name       |-> app.name,
     alwaysPull |-> app.alwaysPull,
     docker     |-> app.docker,
     autostart  |-> app.autostart,
     images     |-> BaseLabels(app).images,
     configs    |-> GetContainerConfigs(app)]

\* Mutant of PodContainers: the docker daemon is an ordinary container.
PodContainersWithDaemon(app) ==
    [i \in 1 .. Len(GetContainers(app)) + (IF app.docker THEN 1 ELSE 0) |->
        LET k == IF app.docker THEN i - 1 ELSE i
        IN  IF k = 0 THEN [policy |-> "IfNotPresent", tty |-> FALSE]
            ELSE [policy |-> KubernetesPolicy(app, k), tty |-> GetContainers(app)[k].tty]]

\* The application containers of the pod template; the x11 host and the
\* docker daemon are init containers.
PodContainers(app) ==
    [i \in DOMAIN GetContainers(app) |->
        [policy |-> KubernetesPolicy(app, i), tty |-> GetContainers(app)[i].tty]]

-----------------------------------------------------------------------------
(***************************************************************************)
(* Reading back.                                                           *)
(***************************************************************************)

\* The loop over the indices ends at the first without an image.
ImagesInRow(images) ==
    CHOOSE n \in 0 .. Cardinality(DOMAIN images) :
        1 .. n \subseteq DOMAIN images /\ n + 1 \notin DOMAIN images

\* make_app_config_from_labels: neither policies nor tty are in the labels.
FromLabels(labels) ==
    [name       |-> labels.name,
     images     |-> <<>>,
     containers |->
        [i \in 1 .. ImagesInRow(labels.images) |->
            [image  |-> labels.images[i],
             config |-> IF i \in DOMAIN labels.configs THEN labels.configs[i] ELSE None,
             policy |-> None,
             tty    |-> FALSE]],
     alwaysPull |-> FALSE,
     docker     |-> labels.docker,
     autostart  |-> labels.autostart]

\* make_app_for_deployment takes these from the pod template.
FromDeployment(annotations, pod) ==
    LET plain == FromLabels(annotations)
    IN  [plain EXCEPT
            !.alwaysPull = annotations.alwaysPull,
            !.containers = [i \in DOMAIN plain.containers |->
                IF i \in DOMAIN pod
                THEN [plain.containers[i] EXCEPT
                        !.policy = IF pod[i].policy \in PullPolicy THEN pod[i].policy ELSE None,
                        !.tty = pod[i].tty]
                ELSE plain.containers[i]]]

-----------------------------------------------------------------------------
(***************************************************************************)
(* What an app that was written down and read back has kept.               *)
(***************************************************************************)

\* Kubernetes keeps all of it; the pull policies have become explicit.
KeptByKubernetes(app) ==
    [app EXCEPT !.containers =
        [i \in DOMAIN app.containers |->
            [app.containers[i] EXCEPT !.policy = KubernetesPolicy(app, i)]]]

\* Docker forgets pull policies and ttys.
KeptByDocker(app) ==
    [app EXCEPT
        !.alwaysPull = FALSE,
        !.containers =
            [i \in DOMAIN app.containers |->
                [app.containers[i] EXCEPT !.policy = None, !.tty = FALSE]]]

=============================================================================
