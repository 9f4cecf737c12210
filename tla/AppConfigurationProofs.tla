----------------------- MODULE AppConfigurationProofs -----------------------
(***************************************************************************)
(* What becomes of a configuration on its way through labels, or through   *)
(* annotations and pod template, for any number of containers: the         *)
(* equations that AppRecords' ReadBack rests on.                           *)
(***************************************************************************)
EXTENDS AppConfiguration, FiniteSetTheorems, TLAPS

\* What the backends get: containers only, and at least one.
Normal(app) == app \in AppConfig /\ app.images = <<>> /\ app.containers # <<>>

-----------------------------------------------------------------------------
(***************************************************************************)
(* Records field by field, and the updates of them as operators, whose     *)
(* facts the provers can instantiate.                                      *)
(***************************************************************************)

ContainerWith(i, c, p, t) == [image |-> i, config |-> c, policy |-> p, tty |-> t]

PolicySet(e, x) == [e EXCEPT !.policy = x]

PolicyTtySet(e, x, y) == [e EXCEPT !.policy = x, !.tty = y]

AppWith(n, i, c, a, d, s) ==
    [name |-> n, images |-> i, containers |-> c,
     alwaysPull |-> a, docker |-> d, autostart |-> s]

ContainersSet(app, x) == [app EXCEPT !.containers = x]

ContainersImagesSet(app, x, y) == [app EXCEPT !.containers = x, !.images = y]

PullContainersSet(app, y, x) == [app EXCEPT !.alwaysPull = y, !.containers = x]

LEMMA ContainerFields ==
    ASSUME NEW c \in ContainerConfig
    PROVE  /\ c.config \in Text \cup {None}
           /\ c.policy \in PullPolicy \cup {None}
           /\ c = ContainerWith(c.image, c.config, c.policy, c.tty)
BY DEF ContainerConfig, ContainerWith

LEMMA ContainerUpdates ==
    ASSUME NEW i, NEW c, NEW p, NEW t, NEW x, NEW y
    PROVE  /\ PolicySet(ContainerWith(i, c, p, t), x) = ContainerWith(i, c, x, t)
           /\ PolicyTtySet(ContainerWith(i, c, p, t), x, y) = ContainerWith(i, c, x, y)
<1>1. [ContainerWith(i, c, p, t) EXCEPT !.policy = x] = ContainerWith(i, c, x, t)
  BY DEF ContainerWith
<1>2. [ContainerWith(i, c, x, t) EXCEPT !.tty = y] = ContainerWith(i, c, x, y)
  BY DEF ContainerWith
<1>3. [ContainerWith(i, c, p, t) EXCEPT !.policy = x, !.tty = y]
        = [[ContainerWith(i, c, p, t) EXCEPT !.policy = x] EXCEPT !.tty = y]
  OBVIOUS
<1> QED  BY <1>1, <1>2, <1>3 DEF PolicySet, PolicyTtySet

LEMMA ContainerUpdated ==
    ASSUME NEW e \in ContainerConfig, NEW x, NEW y
    PROVE  /\ PolicySet(e, x) = ContainerWith(e.image, e.config, x, e.tty)
           /\ PolicyTtySet(e, x, y) = ContainerWith(e.image, e.config, x, y)
BY ContainerFields, ContainerUpdates

LEMMA AppFields ==
    ASSUME NEW app \in AppConfig
    PROVE  /\ app.name \in Name
           /\ app.images \in Seq(Image)
           /\ app.containers \in Seq(ContainerConfig)
           /\ app.alwaysPull \in BOOLEAN
           /\ app.docker \in BOOLEAN
           /\ app.autostart \in BOOLEAN
           /\ app = AppWith(app.name, app.images, app.containers,
                            app.alwaysPull, app.docker, app.autostart)
BY DEF AppConfig, AppWith

LEMMA AppUpdates ==
    ASSUME NEW n, NEW i, NEW c, NEW a, NEW d, NEW s, NEW x, NEW y
    PROVE  /\ ContainersSet(AppWith(n, i, c, a, d, s), x) = AppWith(n, i, x, a, d, s)
           /\ ContainersImagesSet(AppWith(n, i, c, a, d, s), x, y) = AppWith(n, y, x, a, d, s)
           /\ PullContainersSet(AppWith(n, i, c, a, d, s), y, x) = AppWith(n, i, x, y, d, s)
<1>1. [AppWith(n, i, c, a, d, s) EXCEPT !.containers = x] = AppWith(n, i, x, a, d, s)
  BY DEF AppWith
<1>2. [AppWith(n, i, c, a, d, s) EXCEPT !.alwaysPull = y] = AppWith(n, i, c, y, d, s)
  BY DEF AppWith
<1>3. [AppWith(n, i, c, y, d, s) EXCEPT !.containers = x] = AppWith(n, i, x, y, d, s)
  BY DEF AppWith
<1>4. [AppWith(n, i, x, a, d, s) EXCEPT !.images = y] = AppWith(n, y, x, a, d, s)
  BY DEF AppWith
<1>5. /\ [AppWith(n, i, c, a, d, s) EXCEPT !.containers = x, !.images = y]
           = [[AppWith(n, i, c, a, d, s) EXCEPT !.containers = x] EXCEPT !.images = y]
      /\ [AppWith(n, i, c, a, d, s) EXCEPT !.alwaysPull = y, !.containers = x]
           = [[AppWith(n, i, c, a, d, s) EXCEPT !.alwaysPull = y] EXCEPT !.containers = x]
  OBVIOUS
<1> QED
  BY <1>1, <1>2, <1>3, <1>4, <1>5
     DEF ContainersSet, ContainersImagesSet, PullContainersSet

LEMMA AppUpdated ==
    ASSUME NEW app \in AppConfig, NEW x, NEW y
    PROVE  /\ ContainersSet(app, x) =
                AppWith(app.name, app.images, x, app.alwaysPull, app.docker, app.autostart)
           /\ ContainersImagesSet(app, x, y) =
                AppWith(app.name, y, x, app.alwaysPull, app.docker, app.autostart)
           /\ PullContainersSet(app, y, x) =
                AppWith(app.name, app.images, x, y, app.docker, app.autostart)
BY AppFields, AppUpdates

LEMMA AppType ==
    ASSUME NEW n \in Name, NEW i \in Seq(Image), NEW c \in Seq(ContainerConfig),
           NEW a \in BOOLEAN, NEW d \in BOOLEAN, NEW s \in BOOLEAN
    PROVE  AppWith(n, i, c, a, d, s) \in AppConfig
BY DEF AppWith, AppConfig

LEMMA FromImageType ==
    ASSUME NEW image \in Image
    PROVE  FromImage(image) \in ContainerConfig
BY DEF FromImage, ContainerConfig

-----------------------------------------------------------------------------

\* The two forms of an app mean the same containers, and what the API hands
\* to a backend (api.rs:174-185) is in the one with containers.
THEOREM NormalisationKeepsContainers ==
    ASSUME NEW app \in AppConfig, WellFormed(app)
    PROVE  /\ Normal(Normalised(app))
           /\ Normalised(app).containers = GetContainers(app)
<1> DEFINE added == [i \in DOMAIN app.images |-> FromImage(app.images[i])]
           all == app.containers \o added
<1>1. added \in Seq(ContainerConfig) /\ Len(added) = Len(app.images)
  <2>1. app.images \in Seq(Image)  BY AppFields
  <2>2. Len(app.images) \in Nat /\ DOMAIN app.images = 1 .. Len(app.images)  BY <2>1
  <2>3. \A i \in 1 .. Len(app.images) : FromImage(app.images[i]) \in ContainerConfig
    BY <2>1, FromImageType
  <2> QED  BY <2>2, <2>3
<1>2. app.containers \in Seq(ContainerConfig) /\ app.images \in Seq(Image)
  BY AppFields
<1>3. all = GetContainers(app) /\ GetContainers(app) # <<>>
  <2>1. CASE app.containers # <<>>
    <3>1. app.images = <<>>  BY <2>1 DEF WellFormed
    <3>2. added = <<>>  BY <1>1, <3>1
    <3> HIDE DEF added
    <3> QED  BY <1>2, <2>1, <3>2 DEF GetContainers
  <2>2. CASE app.containers = <<>>
    <3>1. app.images # <<>>  BY <2>2 DEF WellFormed
    <3>2. Len(app.images) # 0  BY <3>1, <1>2
    <3>3. GetContainers(app) = added  BY <2>2 DEF GetContainers
    <3> HIDE DEF added
    <3>4. all = added  BY <1>1, <2>2
    <3>5. added # <<>>  BY <1>1, <3>2
    <3> QED  BY <3>3, <3>4, <3>5
  <2> QED  BY <2>1, <2>2
<1>4. all \in Seq(ContainerConfig)
  <2> HIDE DEF added
  <2> QED  BY <1>1, <1>2
<1>5. Normalised(app) =
        AppWith(app.name, <<>>, all, app.alwaysPull, app.docker, app.autostart)
  <2>1. Normalised(app) = ContainersImagesSet(app, all, <<>>)
    BY DEF Normalised, ContainersImagesSet
  <2> HIDE DEF all
  <2> QED  BY <2>1, AppUpdated
<1> HIDE DEF added, all
<1>6. <<>> \in Seq(Image)  OBVIOUS
<1>7. Normalised(app) \in AppConfig
  <2>1. /\ app.name \in Name /\ app.alwaysPull \in BOOLEAN
        /\ app.docker \in BOOLEAN /\ app.autostart \in BOOLEAN
    BY AppFields
  <2> QED  BY <1>4, <1>5, <1>6, <2>1, AppType, Zenon
<1>8. Normalised(app).images = <<>> /\ Normalised(app).containers = all
  BY <1>5 DEF AppWith
<1> QED  BY <1>3, <1>7, <1>8 DEF Normal

-----------------------------------------------------------------------------

LEMMA ContainersOfNormal ==
    ASSUME NEW app, Normal(app)
    PROVE  /\ GetContainers(app) = app.containers
           /\ app.containers \in Seq(ContainerConfig)
           /\ Len(app.containers) \in Nat
           /\ DOMAIN app.containers = 1 .. Len(app.containers)
BY AppFields DEF Normal, GetContainers

\* The loop over labels without a gap finds all of them.
LEMMA AllImagesInRow ==
    ASSUME NEW images, NEW n \in Nat, DOMAIN images = 1 .. n
    PROVE  ImagesInRow(images) = n
<1>1. Cardinality(DOMAIN images) = n
  BY FS_Interval
<1> DEFINE Row(k) == 1 .. k \subseteq DOMAIN images /\ k + 1 \notin DOMAIN images
<1>2. \A k \in 0 .. n : Row(k) <=> k = n  OBVIOUS
<1>3. ImagesInRow(images) = CHOOSE k \in 0 .. n : Row(k)
  BY <1>1 DEF ImagesInRow
<1> HIDE DEF Row
<1>4. n \in 0 .. n  OBVIOUS
<1> QED  BY <1>2, <1>3, <1>4

LEMMA ConfigsOfNormal ==
    ASSUME NEW app, Normal(app), NEW i \in DOMAIN app.containers
    PROVE  IF i \in DOMAIN GetContainerConfigs(app)
           THEN GetContainerConfigs(app)[i] = app.containers[i].config
           ELSE app.containers[i].config = None
BY ContainersOfNormal DEF GetContainerConfigs, HasConfig

\* The containers of an app, without policies and ttys.
Plain(app) ==
    [i \in DOMAIN app.containers |->
        ContainerWith(app.containers[i].image, app.containers[i].config, None, FALSE)]

\* What labels and annotations have in common gives back the images and the
\* configurations of all containers.
LEMMA PlainFromLabels ==
    ASSUME NEW app, Normal(app), NEW labels,
           labels.images = BaseLabels(app).images,
           labels.configs = GetContainerConfigs(app)
    PROVE  FromLabels(labels) =
             AppWith(labels.name, <<>>, Plain(app), FALSE, labels.docker, labels.autostart)
<1>1. labels.images = [i \in DOMAIN app.containers |-> app.containers[i].image]
  BY ContainersOfNormal DEF BaseLabels
<1>2. 1 .. ImagesInRow(labels.images) = DOMAIN app.containers
  BY <1>1, AllImagesInRow, ContainersOfNormal
<1>3. ASSUME NEW i \in DOMAIN app.containers
      PROVE  /\ labels.images[i] = app.containers[i].image
             /\ (IF i \in DOMAIN labels.configs THEN labels.configs[i] ELSE None)
                  = app.containers[i].config
  BY <1>1, ConfigsOfNormal
<1>4. [i \in 1 .. ImagesInRow(labels.images) |->
        ContainerWith(labels.images[i],
                  IF i \in DOMAIN labels.configs THEN labels.configs[i] ELSE None,
                  None, FALSE)] = Plain(app)
  BY <1>2, <1>3 DEF Plain
<1> QED  BY <1>4 DEF FromLabels, AppWith, ContainerWith

\* The containers of an app with the policies of the pod template.
Whole(app) ==
    [i \in DOMAIN app.containers |->
        ContainerWith(app.containers[i].image, app.containers[i].config,
                      KubernetesPolicy(app, i), app.containers[i].tty)]

LEMMA PolicyIsExplicit ==
    ASSUME NEW app, Normal(app), NEW i \in DOMAIN app.containers
    PROVE  KubernetesPolicy(app, i) \in PullPolicy
<1>1. app.containers[i] \in ContainerConfig  BY ContainersOfNormal
<1>2. app.containers[i].policy \in PullPolicy \cup {None}  BY <1>1, ContainerFields
<1> QED  BY <1>2, ContainersOfNormal DEF KubernetesPolicy, PullPolicy

LEMMA DockerKeepsPlain ==
    ASSUME NEW app, Normal(app)
    PROVE  KeptByDocker(app) =
             AppWith(app.name, <<>>, Plain(app), FALSE, app.docker, app.autostart)
<1>1. ASSUME NEW i \in DOMAIN app.containers
      PROVE  PolicyTtySet(app.containers[i], None, FALSE) = Plain(app)[i]
  <2>1. app.containers[i] \in ContainerConfig  BY ContainersOfNormal
  <2> QED  BY <2>1, ContainerUpdated DEF Plain
<1>2. KeptByDocker(app) = PullContainersSet(app, FALSE, Plain(app))
  BY <1>1 DEF KeptByDocker, Plain, PullContainersSet, PolicyTtySet
<1>3. app \in AppConfig /\ app.images = <<>>  BY DEF Normal
<1> QED  BY <1>2, <1>3, AppUpdated

LEMMA KubernetesKeepsWhole ==
    ASSUME NEW app, Normal(app)
    PROVE  KeptByKubernetes(app) =
             AppWith(app.name, <<>>, Whole(app), app.alwaysPull, app.docker, app.autostart)
<1>1. ASSUME NEW i \in DOMAIN app.containers
      PROVE  PolicySet(app.containers[i], KubernetesPolicy(app, i)) = Whole(app)[i]
  <2>1. app.containers[i] \in ContainerConfig  BY ContainersOfNormal
  <2> QED  BY <2>1, ContainerUpdated DEF Whole
<1>2. KeptByKubernetes(app) = ContainersSet(app, Whole(app))
  BY <1>1 DEF KeptByKubernetes, Whole, ContainersSet, PolicySet
<1>3. app \in AppConfig /\ app.images = <<>>  BY DEF Normal
<1> QED  BY <1>2, <1>3, AppUpdated

-----------------------------------------------------------------------------

\* What get_app of the Docker backend rebuilds from the labels of a container
\* (docker.rs:721-759) is the app, except for pull policies and ttys.
THEOREM DockerReadsBack ==
    ASSUME NEW app, Normal(app)
    PROVE  FromLabels(BaseLabels(app)) = KeptByDocker(app)
<1>1. FromLabels(BaseLabels(app)) =
        AppWith(app.name, <<>>, Plain(app), FALSE, app.docker, app.autostart)
  <2>1. /\ BaseLabels(app).name = app.name
        /\ BaseLabels(app).docker = app.docker
        /\ BaseLabels(app).autostart = app.autostart
        /\ BaseLabels(app).configs = GetContainerConfigs(app)
    BY DEF BaseLabels
  <2> QED  BY <2>1, PlainFromLabels
<1> QED  BY <1>1, DockerKeepsPlain

\* What get_app of the Kubernetes backend rebuilds from a Deployment
\* (kubernetes.rs:95-193) is the whole app, with the policies written into
\* the pod template.
THEOREM KubernetesReadsBack ==
    ASSUME NEW app, Normal(app)
    PROVE  FromDeployment(Annotations(app), PodContainers(app)) = KeptByKubernetes(app)
<1> DEFINE pod == PodContainers(app)
           read == FromLabels(Annotations(app))
<1>1. read = AppWith(app.name, <<>>, Plain(app), FALSE, app.docker, app.autostart)
  <2>1. /\ Annotations(app).name = app.name
        /\ Annotations(app).docker = app.docker
        /\ Annotations(app).autostart = app.autostart
        /\ Annotations(app).images = BaseLabels(app).images
        /\ Annotations(app).configs = GetContainerConfigs(app)
    BY DEF Annotations
  <2> QED  BY <2>1, PlainFromLabels
<1>2. read.containers = Plain(app)
  BY <1>1 DEF AppWith
<1>3. pod = [i \in DOMAIN app.containers |->
               [policy |-> KubernetesPolicy(app, i), tty |-> app.containers[i].tty]]
  BY ContainersOfNormal DEF PodContainers
\* The provers take FALSE as an argument for a formula.
<1>4. PICK no : no = FALSE  OBVIOUS
<1>5. ASSUME NEW i \in DOMAIN app.containers
      PROVE  PolicyTtySet(Plain(app)[i],
                          IF pod[i].policy \in PullPolicy THEN pod[i].policy ELSE None,
                          pod[i].tty) = Whole(app)[i]
  <2>1. /\ (IF pod[i].policy \in PullPolicy THEN pod[i].policy ELSE None)
             = KubernetesPolicy(app, i)
        /\ pod[i].tty = app.containers[i].tty
    BY <1>3, PolicyIsExplicit
  <2>2. Plain(app)[i]
          = ContainerWith(app.containers[i].image, app.containers[i].config, None, no)
    BY <1>4 DEF Plain
  <2>3. Whole(app)[i]
          = ContainerWith(app.containers[i].image, app.containers[i].config,
                          KubernetesPolicy(app, i), app.containers[i].tty)
    BY DEF Whole
  <2>4. PolicyTtySet(Plain(app)[i], KubernetesPolicy(app, i), app.containers[i].tty)
          = Whole(app)[i]
    BY <2>2, <2>3, ContainerUpdates
  <2> QED  BY <2>1, <2>4, Zenon
<1>6. FromDeployment(Annotations(app), pod) =
        PullContainersSet(read, app.alwaysPull, Whole(app))
  <2>1. Annotations(app).alwaysPull = app.alwaysPull  BY DEF Annotations
  <2>2. [i \in DOMAIN Plain(app) |->
            IF i \in DOMAIN pod
            THEN PolicyTtySet(Plain(app)[i],
                              IF pod[i].policy \in PullPolicy THEN pod[i].policy ELSE None,
                              pod[i].tty)
            ELSE Plain(app)[i]] = Whole(app)
    <3>1. DOMAIN Plain(app) = DOMAIN app.containers /\ DOMAIN pod = DOMAIN app.containers
      BY <1>3 DEF Plain
    <3> HIDE DEF pod
    <3> QED  BY <1>5, <3>1 DEF Whole
  <2> HIDE DEF pod
  <2> QED  BY <1>2, <2>1, <2>2 DEF FromDeployment, PullContainersSet, PolicyTtySet
<1>7. PullContainersSet(AppWith(app.name, <<>>, Plain(app), no, app.docker, app.autostart),
                        app.alwaysPull, Whole(app))
        = AppWith(app.name, <<>>, Whole(app), app.alwaysPull, app.docker, app.autostart)
  BY AppUpdates
<1>8. FromDeployment(Annotations(app), pod) = KeptByKubernetes(app)
  BY <1>1, <1>4, <1>6, <1>7, KubernetesKeepsWhole
<1> QED  BY <1>8

-----------------------------------------------------------------------------

\* What either backend keeps is again an app in the normal form, with the
\* same configurations.
SameConfigs(kept, app) ==
    /\ DOMAIN kept.containers = DOMAIN app.containers
    /\ \A i \in DOMAIN app.containers : kept.containers[i].config = app.containers[i].config

LEMMA SameContainers ==
    ASSUME NEW app, Normal(app), NEW c, NEW a \in BOOLEAN,
           c = [i \in DOMAIN app.containers |-> c[i]],
           \A i \in DOMAIN app.containers :
             c[i] \in ContainerConfig /\ c[i].config = app.containers[i].config
    PROVE  LET kept == AppWith(app.name, <<>>, c, a, app.docker, app.autostart)
           IN  Normal(kept) /\ SameConfigs(kept, app)
<1> DEFINE kept == AppWith(app.name, <<>>, c, a, app.docker, app.autostart)
<1>1. c \in Seq(ContainerConfig) /\ Len(c) = Len(app.containers) /\ c # <<>>
  <2>1. PICK n : /\ n = Len(app.containers) /\ n \in Nat /\ n # 0
                 /\ DOMAIN app.containers = 1 .. n
    <3>1. app.containers # <<>>  BY DEF Normal
    <3> QED  BY <3>1, ContainersOfNormal
  <2>2. c \in [1 .. n -> ContainerConfig]  BY <2>1
  <2>3. c \in Seq(ContainerConfig) /\ Len(c) = n  BY <2>1, <2>2
  <2> QED  BY <2>1, <2>3
<1>2. app \in AppConfig /\ <<>> \in Seq(Image)  BY DEF Normal
<1>3. /\ app.name \in Name /\ app.docker \in BOOLEAN /\ app.autostart \in BOOLEAN
  BY <1>2, AppFields
<1>4. kept \in AppConfig  BY <1>1, <1>2, <1>3, AppType
<1>5. kept.images = <<>> /\ kept.containers = c  BY DEF AppWith
<1> HIDE DEF kept
<1>6. SameConfigs(kept, app)  BY <1>5 DEF SameConfigs
<1>7. Normal(kept)  BY <1>1, <1>4, <1>5 DEF Normal
<1> QED  BY <1>6, <1>7 DEF kept

LEMMA KeptIsNormal ==
    ASSUME NEW app, Normal(app)
    PROVE  /\ Normal(KeptByDocker(app)) /\ SameConfigs(KeptByDocker(app), app)
           /\ Normal(KeptByKubernetes(app)) /\ SameConfigs(KeptByKubernetes(app), app)
<1>1. ASSUME NEW i \in DOMAIN app.containers
      PROVE  /\ Plain(app)[i] \in ContainerConfig
             /\ Plain(app)[i].config = app.containers[i].config
             /\ Whole(app)[i] \in ContainerConfig
             /\ Whole(app)[i].config = app.containers[i].config
  <2>1. app.containers[i] \in ContainerConfig  BY ContainersOfNormal
  <2>2. /\ app.containers[i].image \in Image
        /\ app.containers[i].config \in Text \cup {None}
        /\ app.containers[i].tty \in BOOLEAN
    BY <2>1 DEF ContainerConfig
  <2>3. KubernetesPolicy(app, i) \in PullPolicy  BY PolicyIsExplicit
  <2>4. Plain(app)[i] \in ContainerConfig /\ Plain(app)[i].config = app.containers[i].config
    BY <2>2 DEF Plain, ContainerWith, ContainerConfig
  <2>5. Whole(app)[i] \in ContainerConfig /\ Whole(app)[i].config = app.containers[i].config
    BY <2>2, <2>3 DEF Whole, ContainerWith, ContainerConfig
  <2> QED  BY <2>4, <2>5
<1>2. /\ Plain(app) = [i \in DOMAIN app.containers |-> Plain(app)[i]]
      /\ Whole(app) = [i \in DOMAIN app.containers |-> Whole(app)[i]]
  BY DEF Plain, Whole
<1>3. app.alwaysPull \in BOOLEAN  BY AppFields DEF Normal
<1>4. PICK no : no = FALSE  OBVIOUS
<1>5. LET kept == AppWith(app.name, <<>>, Plain(app), no, app.docker, app.autostart)
      IN  Normal(kept) /\ SameConfigs(kept, app)
  BY <1>1, <1>2, <1>4, SameContainers
<1>6. LET kept == AppWith(app.name, <<>>, Whole(app), app.alwaysPull, app.docker, app.autostart)
      IN  Normal(kept) /\ SameConfigs(kept, app)
  BY <1>1, <1>2, <1>3, SameContainers
<1>7. Normal(KeptByDocker(app)) /\ SameConfigs(KeptByDocker(app), app)
  BY <1>4, <1>5, DockerKeepsPlain
<1>8. Normal(KeptByKubernetes(app)) /\ SameConfigs(KeptByKubernetes(app), app)
  BY <1>6, KubernetesKeepsWhole
<1> QED  BY <1>7, <1>8

=============================================================================
