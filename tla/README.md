# Verification of app-controller

App Controller is a REST server that creates, starts, stops and deletes
graphical applications on Docker or on Kubernetes. This directory holds TLA+
models of it, the TLC configurations that check them, and proofs checked by
TLAPS. Line numbers are those of the repository's files (`docker.rs` is
`src/backend/docker.rs`, and so on).

## The system

| Part | State | Operations | Hard behaviour |
|---|---|---|---|
| REST API (`api.rs`) | none | nine routes, one per trait method; `create_app` also validates and normalises its body | none of its own; every request is a task of its own, and is dropped when the client hangs up |
| Docker backend (`docker.rs`) | none in the server: labelled containers and named volumes of the engine | all nine | several engine calls per request, no transaction, no lock, no rollback; errors ignored in stop and delete |
| Kubernetes backend (`kubernetes.rs`) | none in the server: ConfigMaps, a Service, a Deployment per app | all nine | several API calls per request; pods follow later, made by controllers |
| Mock backend (`mock.rs`, which nothing in the repository uses) | two maps, each under its own lock, and a counter | all but the address | two locks taken one after the other |
| Null backend (`null.rs`) | none | constant answers | none |
| Configuration (`types.rs`) | none | images and containers, configurations by index, pull policy | the way into labels or annotations and back |
| Errors (`error.rs`) | none | kube's 404 is `NotFound`, all else `InternalError` | decides what the loser of a race is told |
| Start-up (`main.rs`), `deploy.yml`, images, CI | none | | |

The parts meet in one place: the API calls the backend through the trait
`AppControllerBackend` (`backend.rs`) and the backend calls the engine or the
API server. Two requests only meet there, in the containers or objects that
they both touch between their awaits. So the models have the request handlers
as processes and the engine or cluster as what they share.

What makes each part correct:

* Docker: what a request was answered stays true until another request undoes
  it; a creation that is cut short leaves no hole in the app; one app's
  requests do not touch another's.
* Kubernetes: the Deployment is the point at which an app comes and goes;
  several deletes do not defeat each other; what was answered comes about once the
  controllers have caught up.
* The trait: whoever calls a backend may take its operations to happen at one
  moment each, on a set of apps.
* Configuration and API: what is read of an app is what somebody asked for
  under its id; it can be sent to the API again; an engine or cluster that does
  what it can refuses an app the API let through only for reasons that can be
  named.
* Mock backend: what a call returned holds in both maps, which disagree only
  after a race.

## Modules

| Module | Models |
|---|---|
| `DockerEngine` | the engine as the backend uses it (external): containers, volumes, and what each call does |
| `DockerBackend` | `docker.rs`: one action per engine call, the properties |
| `MCDockerBackend` | small instances of it |
| `DockerBackendProofs` | type correctness |
| `DockerPromiseProofs` | the inductive invariant; isolation, delete, stop and start |
| `DockerCreationProofs` | creation: its order, completeness and configurations; internal errors; status |
| `KubernetesCluster` | API objects, controllers, kubelet (external) |
| `KubernetesBackend` | `kubernetes.rs`: one action per API call, the properties |
| `AppRegistry` | `backend.rs`: the abstract specification of the trait |
| `KubernetesRegistry` | the refinement mapping from the Kubernetes backend to the registry |
| `MCKubernetesBackend` | small instances of both |
| `KubernetesBackendProofs` | its inductive invariant, type correctness and safety |
| `KubernetesRegistryProofs` | the refinement |
| `AppConfiguration` | `types.rs`, the validation of `api.rs`, and what both backends write down of a configuration and read back: operators only |
| `AppRecords` | the API in front of either backend: how apps are recorded, found and read, and why a creation is refused |
| `MCAppRecords` | a small instance of it |
| `AppConfigurationProofs` | the equations of writing down and reading back |
| `AppRecordsProofs` | type correctness, reading back, pulling, finding what was created, and the reasons of errors |
| `MockBackend` | `mock.rs`: one action per access to a map |
| `MCMockBackend` | a small instance of it |
| `MockBackendProofs` | its inductive invariant and all its properties |

The two backends are modelled twice, for different questions. `DockerBackend`
and `KubernetesBackend` have every call on containers, volumes and objects,
with faults, and know of a configuration only how many containers it has and
which are configured. `AppRecords` has the contents (labels, annotations,
images, names), and of the calls those that make, remove and read them. They
share no state: what a container is doing and what is written on it never
depend on each other in the code.

### Docker

`container` and `volume` are the engine's. A handler `r` has its place
`pc[r]`, its request `job[r]`, the containers its loop still has to visit
`todo[r]`, and its answer `reply[r]`. `binding[r]` is a history variable: it
becomes false when a request arrives that may undo `r`'s, when the engine
refuses a call of `r` that it could have carried out, or when a container `r`
started ends by itself. The promises are stated for binding answers, and so say
that nothing but those cases breaks an answer. That the cases themselves do
break it is what the runs `docker_delete_overtaken` and `docker_half_stopped`,
`DockerDeleteRefused.cfg` and `DockerStopRefused.cfg` show, which are about the
answer once no request is under way, whatever ran before (`Quiet`).

| Action | Code |
|---|---|
| `BeginCreate`, `CreateContainer` | `create_app` (112-297): x11 host, sidecar, then per index helper and container; pulls are steps without effect |
| `TempStart`, `TempWait`, `TempRemove` | the helper that writes a configuration (239-258); the result of the wait is dropped |
| `StartContainer` | `start_containers` (674-681) in the order of `categorize_containers` (695-719), for `start_app` and for autostart; the first error ends the request |
| `StopContainer` | `stop_containers` (684-692): any order, errors ignored |
| `DeleteContainer` | `delete_app` (325-354): any order, errors ignored |
| `List` | `list_containers` in every operation but create; `get_app_status` answers from it; nothing listed is `NotFound` except for delete |
| `Inspect` | the second call of `get_app_addr` and `get_app_output` |
| `Abandon`, `Settle` | the handler's future is dropped: at most the call it had sent takes effect |
| `ContainerExits` | a container's process ends; a helper's always does |

A named container or volume stands for its name. A container that is
`detached` runs in a network namespace that has ended, because its x11 host
did. Ids of different apps differ (see "Not modelled").

### Kubernetes

The cluster has `configMaps`, `services`, `deployments` with `template`,
`replicas` and `readyReplicas`, and `pod`. Handlers are as above; `picked[r]`
is the pod `get_app_output` took from the list.

| Action | Code |
|---|---|
| `CreateConfigMap`, `CreateService`, `CreateDeployment` | `create_app` (203-535), in that order |
| `FindDeployment` | `get_deployment` (79-93), first call of start, stop, delete and status |
| `Scale` | the patch of `start_app` and `stop_app` (537-573) |
| `ListConfigMaps`, `DropConfigMap`, `DropService`, `DropDeployment` | `delete_app` (575-597), where the first error ends the request |
| `ListServices` | `get_app_addr` (621-647) |
| `ListPods`, `Exec`, `ReadOutput` | `get_app_output` (649-711): whichever pod is first; `cat` is started in it, then its output read to the end and the process joined, which may fail and may take for ever |
| `CreatePod`, `TerminatePod`, `UpdateStatus`, `StartPod`, `CrashPod`, `ReapPod` | controllers and kubelet |
| `ApiFails`, `ReplyLost` | a missing object is 404 and so `NotFound`; any other error is `InternalError` (`error.rs:11-18`), be it that the API server carried nothing out or that its reply was lost afterwards |

`delete_app` takes the ConfigMaps in the order of the API server's list, which
is by name: `ListPlace` gives each index its place in it, whatever that is.
Nothing in the code asks for an order, but two deletes depend on both having
the same one: with two ConfigMaps taken in different orders each delete could
end at the one the other has taken, and the app would keep its Service and its
Deployment (the mutant `DropConfigMapInAnyOrder` does this).

### Registry

An app is `none`, `stopped`, `started` or `deleted`; a request is asked, open,
and answered in the same step in which it has its effect. It may also fail,
without an effect or, when a reply was lost, with it; or have its effect after
its client has gone. Only a delete
may be told "not found" about an app that is there, and only if there was
another delete of it: that is the concession the code needs
(`kubernetes.rs:589, 593`). `KubernetesRegistry` maps an app to its Deployment:
`started` when scaled to 1, `deleted` when it had one and has none any more.
`ImplementsRegistry` is the registry's specification under this mapping. The
Docker backend has no such mapping: its starts and stops are seen half done.

### Configurations and records

`AppConfiguration` has `AppConfig` as a record, `Acceptable` and `Normalised`
(`create_app` of `api.rs`), `GetContainers` and `GetContainerConfigs`
(`types.rs`), `DockerPulls` and `KubernetesPolicy`, and for each backend what
it writes (`BaseLabels`; `Annotations` and `PodContainers`) and what it makes
of that (`FromLabels`; `FromDeployment`). `KeptByDocker` and
`KeptByKubernetes` say what comes back.

In `AppRecords`, `objects` are the labelled containers or the Deployments,
with an id, a name, a slot and labels, `images` is what the engine has pulled,
and `ended` is the set of creations whose x11 host ended while they started
the containers. What makes a name or an image acceptable to the engine or the
API server is left to constants: `DockerNames`, `KubernetesNames`, `PodImages`
(images whose package name may begin that of a container, `kubernetes.rs:496`)
and `RunnableImages` (those with a command that can be run).

| Action | Code |
|---|---|
| `Create` | `create_app` of `api.rs` (149-191): 413, 500, or on to the backend |
| `PullImage` | `pull_image` (`docker.rs:659-671`): whatever happens, on it goes |
| `WriteConfig` | the helper (`docker.rs:211-258`): needs its image, and room in one environment variable |
| `CreateContainer`, `Autostart` | the rest of `create_app` (`docker.rs`): the engine checks the name, the image, whether the x11 host is there and, when it starts a container, whether the host runs and there is something to run |
| `HostEnds` | the x11 host ends, by itself or because of a `stop_app`, while the containers are started |
| `CreateDeployment` | `create_app` of `kubernetes.rs`, whose names may not be good or whose annotations may not fit |
| `Delete`, `RemoveContainer`, `RemoveDeployment` | `delete_app` of the API and of both backends |
| `Get`, `GetAll` | `get_app`, `get_all_apps`: from any one container of an id, or any Deployment |
| `MakeForeign` | somebody else makes an object with the label `app-controller-id` |

### Mock

`apps` and `statuses` are the two maps, `nextId` the counter. Each action is
one access under one lock with the code up to the next: `InsertApp` and
`InsertStatus` for create, `CheckApp` and `SetStatus` for start and stop,
`CheckApp` and `ReadStatus` for status, `RemoveApp` and `DropStatus` for
delete. `binding` is as above, and `raced` is the set of ids of which a delete
overlapped another change.

## Runs

`r1`..`r4` are interchangeable requests; every request may be any operation of
`Ops`. Bounds: `Requests`, `Ids`, `MaxContainers`, `MaxPods`; nothing else is
cut off. Deadlock is checked in every run: the only state without a further
step is one in which every request is done (`Terminated`). The
assumptions on the constants, `RegistryAssumption` among them, are evaluated by
each run.

| Run | Instance | Shows |
|---|---|---|
| `docker_faults` | 3 requests, 1 app of up to 2 containers, refused calls, dropped handlers, failed waits, containers that end; 1.07M states | `TypeOK`, `BuiltInOrder`, `CreatedStaysComplete`, `DeletedStaysGone`, `StoppedStaysStopped`, `StartedStaysRunning`, `OnlyEngineFailsRequests`, `StatusAgrees` |
| `docker_two_apps` | 3 requests to create, start or delete, 2 apps, no faults, with fairness; 89k states | `Isolation`, `ConfigBeforeContainer`, `EveryRequestAnswered` |
| `kubernetes_safety` | 4 requests to create, start, stop or delete, 1 app with up to 2 ConfigMaps, refused calls, lost replies and dropped handlers; 464k states | `TypeOK`, `DeployedIsWhole`, `DeletedLeavesNothing`, `OneDeleteGoesOn`, `ScaledAsAnswered`, `ImplementsRegistry` |
| `kubernetes_live` | 3 requests of all seven operations, 2 pods, pods may crash, with fairness; 10k states | `StartedComesUp`, `StoppedGoesDown`, `ImplementsRegistry` with status requests |
| `app_records` | 3 requests, 2 ids, both backends, 8 configurations of which 5 are acceptable, names and images that are no good, images that may be missing, hosts that end, objects of somebody else; 2.0M states | `TypeOK`, `ReadBack`, `StoredIsAcceptable`, `PullsAsAsked`, `CreatedIsFound`, `ErrorsHaveReasons` |
| `mock_backend` | 4 calls; 124k states | `TypeOK`, `ReturnedHolds`, `OneDeleteWins`, `AppsHaveStatus`, `LeakNeedsRace` |

Why the bounds are enough: two requests are needed for a race, a third for
what the two leave behind or for the app to have been created, and the fourth,
in `kubernetes_safety` and `DockerConcurrent.cfg`, for both. Two application
containers give an order between indices, and a configured and an unconfigured
one. Two pods are what a stop and a start leave; in `kubernetes_safety` one is enough, as its properties are about
objects. In `app_records` the configurations cover each policy with and
without the app's own setting, both forms of an app, one refused for each
reason, and configurations on both sides of every limit (131,060 bytes do not
fit an environment variable, 1,048,577 not the API's limit), a name that is
good for containers only and one that is good for nothing, an image without a
command and one whose name no container of a pod may have; two requests that
create under one id and a third that reads or deletes are what a collision of
ids needs. Four calls of the mock backend are a creation, a start, a
stop or status, and a delete at the same time.

Six runs end in a violation, each of a statement of the repository's own:

| Run | Statement | What the code does |
|---|---|---|
| `docker_network_lost` | "All containers share the network namespace of the X11 host container" (`docker.rs:58`) | a restarted host has a new namespace; application containers that still run keep the old one while start answers Ready |
| `docker_delete_overtaken` | "The app was deleted successfully." (`api.rs:64`) | a creation that is still under way goes on adding containers after the delete has listed them |
| `docker_half_stopped` | "The app was stopped successfully." (`api.rs:51`) | a start and a stop go through lists of their own; after both, containers of the app run |
| `kubernetes_delete_stuck` | 404 means "it was not found" (`api.rs:67`) | a delete that fails between Service and Deployment can never be repeated: each one ends at the missing Service, and the app is still found |
| `app_records_limit` | "Each container's config must be less than 1MB in size" (`api.rs:147`) | 1048576 bytes are let through |
| `app_records_pull` | "Only pull the image if it's not already present" (`types.rs:11`) | the Docker backend pulls without looking |

### Further configurations

The directory holds configurations that are not among the runs, for questions
near to those of a run. Each of these ends in a violation of the one property
it names, within seconds:

| Configuration (module) | Property | What it shows |
|---|---|---|
| `DockerDeleteRefused.cfg` (`MCDockerBackend`) | `DeletedIsGone` | delete drops the errors of its removals (`docker.rs:340`) and answers 204 |
| `DockerStopRefused.cfg` | `StoppedIsDown` | stop drops the errors of its calls (`docker.rs:686`) and answers Stopped |
| `DockerWaitFailed.cfg` | `ConfigBeforeContainer` | "Wait for it to finish and remove it" (`docker.rs:244`): what the wait returns is dropped, an error too, and the application container is made without its configuration |
| `DockerStatusReady.cfg` | `ReadyHasInfrastructure` | "Infrastructure containers running = app ready" (`docker.rs:89`): status looks at the x11 host only, and is Ready while the docker daemon has ended |
| `DockerVolumesKept.cfg` | `VolumesGoWithApp` | "Remove associated volumes" (`docker.rs:345`): the volumes are named, and `v: true` removes anonymous ones only |
| `DockerDeleteRunning.cfg` | `OnlyStoppedAppsDeleted` | "The app must be stopped first." (`api.rs:223`): delete removes running containers |
| `KubernetesHalfDeleted.cfg` (`MCKubernetesBackend`) | `StartedComesUp` | start looks at the Deployment only: when a failed delete has taken the ConfigMaps it answers Ready, and the pod never comes up |
| `KubernetesTwoPods.cfg` | `OnePodPerApp` | "there should be only one for each app" (`kubernetes.rs:659`): after stop and start the terminating pod and the new one are both listed |
| `AppRecordsForgotten.cfg` (`MCAppRecords`) | `ReadAsAsked` | "Helper to reconstruct AppConfig from labels" (`docker.rs:721`): pull policies, ttys and `always_pull_images` are not in the labels |

`DockerConcurrent.cfg` has no violation: it is the promises of the Docker
backend with four requests and no fault but containers that end (722k states).

### Results worth knowing

* In the Docker backend a delete that overlaps a creation leaves containers
  behind, and a stop that overlaps a start leaves some running; `Undoes` names
  every pair of operations for which this is so. For all other pairs the
  promise holds whatever the interleaving.
* A Kubernetes delete answered 204 is final, with no condition at all
  (`DeletedLeavesNothing`): creation makes the Deployment last, delete looks
  for it first and removes it last. The same order makes what an interrupted
  creation leaves behind unreachable for delete.
* `StatusAgrees`: the Docker status looks at the x11 host alone, and still
  never contradicts an answered start or stop, but for one case: a delete that
  came during the creation took the host, and a later start answers Ready for
  the containers that are left, while status answers Stopped.
* The Kubernetes backend is atomic towards its clients (`ImplementsRegistry`),
  although a creation or delete is many API calls: each operation has its
  effect with one of them, the creation or removal of the Deployment or the
  patch.
* Why a creation is answered 500 although nothing is wrong with the engine or
  cluster: `CreateHasReason` lists the reasons, `ErrorsHaveReasons` says there
  are no more in the model. The API checks none of them, the name of the app,
  which becomes part of other names, included. Beside the documented limit of
  1 MB there are two more: on Docker a configuration above 128 KiB fails in the
  helper's environment, on Kubernetes all configurations of an app together must
  stay below 256 KiB of annotations. Both are refused with 500 after the API let them through, on
  Docker with the x11 host already made.
* On Docker every configured app needs `alpine:latest` on the host, which is
  never pulled (`docker.rs:222`), and a container without a policy is pulled
  only under `always_pull_images`, while `IfNotPresent` always pulls.
* Docker gives back an app without pull policies, ttys and
  `always_pull_images`; Kubernetes gives back all of it.
* One Deployment with a missing annotation makes `get_all_apps` fail on
  Kubernetes; the Docker backend skips what it cannot read.
* With colliding ids an app's configuration is still one that was asked for
  under that id (`ReadBack`), but not necessarily the caller's.
* Of several Kubernetes deletes all but one may be answered `NotFound` although
  the app was there. One always goes on (`OneDeleteGoesOn`, over every object of
  the app), because all take the ConfigMaps in the order of the list. A delete
  that the API server fails, that is dropped, or whose reply is lost stops where
  it is; after the Service no later one gets past it.
* `StoredIsAcceptable` is about the limit the code has, `PullsAsAsked` about the
  images that come to the engine: where the documents say otherwise is in
  `app_records_limit` and `app_records_pull`.
* `get_app_output` of Kubernetes waits without limit for a process in a pod
  (`kubernetes.rs:702-708`), so that not every request there need be answered.

### Fairness

`WF` of each handler's `Step`: the runtime polls every task and every call is
answered, by an error if need be. Not of `ReadOutput`, as no process in a pod
need end. Docker: `WF` of the end of each helper
container, whose command only writes a file; application containers need not
end. Kubernetes: `WF` of creating, starting, terminating and reaping pods,
which controllers and kubelet retry for ever; not of `UpdateStatus`, as no
property needs it, nor of crashes, arrivals or hang-ups.

### Mutants

The operators whose comment says "Mutant of ..." are variants of an operator
with a bug someone could write: a dropped `?`, a loop one too short, a missing
filter, a copied patch. `PROJECT.json` names for each property of a passing
run the mutant that violates it in that run.

## Proofs

The theorems hold for all values of the constants that satisfy the named
assumptions, which are those the models need to make sense: a positive bound
on the containers of an app, well-formed configurations, operations and faults
(`MaxContainersAssumption`, `RequestAssumption`, `ClusterAssumption`), a place
of its own in a list for each ConfigMap of an app (`ClusterAssumption`), values
that stand for nothing being different from all others
(`RegistryAssumption`, `ConfigurationAssumption`, by which `None` is not the
name of an app), bodies and images being what
they are called (`RecordsAssumption`), and finitely many calls of the mock
backend, whose ids are counted (`MockAssumption`). So: any number of apps,
containers and concurrent requests, under every fault of the model. One
theorem assumes less than all faults: `ConfigsComeFirst` is for `Faults` without
`"waitfailed"`. The item of the wait stream is dropped (`docker.rs:245-248`),
error or not, so that after a wait that fails the helper may be removed before
it has written, and nothing of the kind holds.

| Theorem (property) | Module |
|---|---|
| `TypeCorrect` (`TypeOK`) | `DockerBackendProofs` |
| `AppsAreIsolated` (`Isolation`), `DeletedAppsStayGone` (`DeletedStaysGone`), `StoppedAppsStayStopped` (`StoppedStaysStopped`), `StartedAppsStayRunning` (`StartedStaysRunning`) | `DockerPromiseProofs` |
| `AppsAreBuiltInOrder` (`BuiltInOrder`), `CreatedAppsStayComplete` (`CreatedStaysComplete`), `ConfigsComeFirst` (`ConfigBeforeContainer`), `ErrorsComeFromTheEngine` (`OnlyEngineFailsRequests`), `StatusAgreesWithAnswers` (`StatusAgrees`) | `DockerCreationProofs` |
| `TypeCorrect` (`TypeOK`), `FoundIsWhole` (`DeployedIsWhole`), `NothingLeft` (`DeletedLeavesNothing`), `DeleteGoesOn` (`OneDeleteGoesOn`), `AnsweredIsScaled` (`ScaledAsAnswered`) | `KubernetesBackendProofs` |
| `KubernetesImplementsRegistry` (`ImplementsRegistry`) | `KubernetesRegistryProofs` |
| `TypeCorrect` (`TypeOK`), `WhatWasReturnedHolds` (`ReturnedHolds`), `DeletedOnce` (`OneDeleteWins`), `StatusOfEveryApp` (`AppsHaveStatus`), `LeakOnlyByRace` (`LeakNeedsRace`) | `MockBackendProofs` |
| `NormalisationKeepsContainers`, `DockerReadsBack`, `KubernetesReadsBack` | `AppConfigurationProofs` |
| `TypeCorrect` (`TypeOK`), `WhatIsReadWasWritten` (`ReadBack`), `WhatIsReadCanBeSent` (`StoredIsAcceptable`), `PullsAreAskedFor` (`PullsAsAsked`), `WhatIsCreatedIsFound` (`CreatedIsFound`), `FailuresAreExplained` (`ErrorsHaveReasons`) | `AppRecordsProofs` |

**Docker.** None of the properties is inductive: an answer says nothing of how
it came about. `IInv` adds

* `HandlerInv`: for each place of a handler, which operations can be there and
  whose containers it has left to visit;
* `OneCreator` and `CreatedBySomebody`: an app has one creation, and containers
  only where one was requested;
* `PromiseInv`, with `LoopInv` as its heart: a binding handler inside its loop
  has already started, stopped or removed every container of the app that is
  not left in `todo`. The last iteration turns this into the promise. That no
  one else disturbs it is `NoRival`: a binding request has no rival in flight.

`CreationInv` does the same for creation: at each place of its code, what is
already there is exactly what comes before `todo` in `Rank`'s order. It needs
`OneCreator`, as two creations of one app would fill each other's gaps. Both
were also checked by TLC on three requests with all faults (1.07 million
states) before they were proved.

Three invariants more stand on these two:

* `ConfigInv`, for `ConfigBeforeContainer`: helpers no longer in `todo` have
  written their volume, the one being waited for runs or has written, and the
  one to be removed has written. No step takes a written configuration away,
  as volumes are never removed.
* `SoundInv`, for `OnlyEngineFailsRequests`, says what a handler's next calls
  need: `FreshOK`, that no name ahead in `todo` is taken, which holds with
  rivals, too, as an app has one creation; and `SoundOK`, for handlers that are
  binding, that what is behind still exists, that what is to be started does,
  and that the x11 host runs when those that join it have their turn. The one
  error it leaves is in the property: a start that has no host to begin with.
* `HostInv`, for `StatusAgrees`: a start that found anything found the host,
  unless a delete has begun; here `BuiltInOrder` is used, by which no container
  is there without the host. A status that has listed the host answers by it,
  and `PromiseInv` has every container in the state of a binding answer.

**Kubernetes.** `IInv` is `TypeOK` and `Progress`, whose parts are

* `CreatedOnce`: an id has one creation, and before it no object;
* `CreationProgress`: which objects there are at each call of `create_app`,
  all of them when the Deployment is made;
* `NotFoundBefore`: start, stop and delete get past their first call only if
  the Deployment has been made, so that a delete is never ahead of a creation;
* `DeletionProgress`: what is left at each call of `delete_app`: at
  `dropservice` no ConfigMap, at `dropdeployment` no Service either;
* `RemovalInOrder`: what is left of a deployed app is an end of the list of its
  ConfigMaps, then the Service. A delete that ends at a missing object has
  therefore been overtaken by one that is ahead of it, and of those that are
  left one is ahead of all others: `OneDeleteGoesOn`;
* `RivalsUnbind`: a binding request has no rival in flight.

The refinement needs one thing more (`MetAnother`): a delete that misses an
object while the Deployment is there has met another delete, which the
registry's `NotFound` asks for. Each action then maps to a step of the
registry: the call that makes, scales or removes the Deployment to
`Create`, `Start`, `Stop` or `Delete`, failing calls to `NotFound` or `Fail`,
a dropped handler to `Leave`, and all else to a stutter.

**Mock.** `IdsAreNew` (the counter counts the creations), `UnbornUnknown` (an
id nobody has inserted is in no map and nobody has found it), `OneWinner`,
`RivalsUnbind` and `StillThere` (what a call saw in the first map is there
when it writes the second, unless a delete raced it).

**Configurations.** For a normal app, which is what `Normalised` makes of an
acceptable one, both ways of writing down and reading back are computed field
by field; the images are found in a row because the backend writes them
without a gap (`AllImagesInRow`). `AppRecordsProofs` lifts this to the states:
`Written` says of an object that some request asked for it, was accepted, and
that it carries exactly what the backend writes for that request; it is kept
by every step because a request never changes once made. `PullsAsAsked` needs
`PullDecided`: who is about to pull has looked at the policy.

`CreatedIsFound` and `ErrorsHaveReasons` need `RecordInv`, which ties the
objects to the place of their creation:

* `PlaceOK`: the slot is one the app has, `"config"` is reached only at a
  container with a configuration, and a delete removes objects of its id only;
* `MadeBehind`: the objects of all slots behind are there, and after a 200 that
  of the x11 host or the Deployment, unless a delete of the id was asked for;
* `NoneAhead`: no object has a name that is still to be given, unless a rival
  has drawn the same id for the same name. When a creation arrives this holds
  because of `NamedIsReadable`: an object with the name of an app was made by
  the server, so that `Written` finds the rival, and it is another request.

Each failing call of `create_app` then contradicts one of these or is one of
the reasons. That `OwnSlots` is all `Autostart` starts ties a missing or
unfit container to `NeededImages` (`ImageNeeded`); an x11 host that ended
is in `ended`, which no step of a handler changes. TLC checked the parts of `RecordInv` on the instance of
`app_records` before they were proved.

Only model-checked: liveness (`EveryRequestAnswered` of Docker, `StartedComesUp`,
`StoppedGoesDown`), which is out of the prover's reach, as it rests on
fairness. Every other property of a passing run is a theorem.

## Not modelled, and why

* Texts: wording of labels, environment, ports, URLs, file contents, the
  frames of output streams. A helper writes its file whenever it ends. The
  interaction model of an app goes the way of its name and is not told apart
  from it.
* In `DockerBackend` and `KubernetesBackend` ids are fresh, although the code
  draws 32 random bits and checks nothing; `AppRecords` draws from a set of two
  ids and has the collisions.
* Of the Docker engine an error always means that the call had no effect. A
  reply lost after the effect is modelled for the API server, where the
  backend tells errors apart and a delete may have to be repeated.
* In `AppRecords` a Deployment stands for the objects of its app: what a failed
  creation leaves of ConfigMaps and Services is in `KubernetesBackend`. Calls
  the engine refuses for no reason of this program are in `DockerBackend` and
  `KubernetesBackend` only, so that `ErrorsHaveReasons` can name the reasons
  there are.
* The mock backend has no caller: its runs and proofs say what it would do if
  requests used it at the same time. Its `get_app_output` answers from the configuration alone and
  is its read `get`; its `get_app_addr` is `todo!()`.
* The null backend answers constants and has no state. Start-up beyond the
  choice of the backend binds a port and serves files. `deploy.yml`, the images
  and CI are static data; that the Role in `deploy.yml:11` lacks the rules for
  `pods` and `pods/exec` that `get_app_output` needs was seen by reading, and
  shows at run time as one of the refused calls of the model.

## Plan

The plan of this project is carried out: both backends, the trait, the API,
the configuration and the mock backend are modelled and checked, and their
safety is proved. What could be added, in order of worth:

1. `ConfigBeforeContainer` with failing waits, as a promise of the creations
   whose waits did not fail, which needs a history variable of them.
2. Replies of the Docker engine that are lost after the effect.
3. What an abandoned or failed creation leaves of a Docker app, as an abstract
   specification of its own that the backend implements: `BuiltInOrder` has its
   safety.
