------------------------- MODULE KubernetesCluster -------------------------
(***************************************************************************)
(* The Kubernetes cluster as src/backend/kubernetes.rs uses it: the        *)
(* objects of the API server, the controllers that run pods for a          *)
(* Deployment, and the kubelet.  It is not part of the repository; this    *)
(* module is the environment the Kubernetes backend is checked against.    *)
(*                                                                         *)
(* All objects of an app carry the label app-controller-id; names are      *)
(* built from the app's name and id (kubernetes.rs:207-209), so the id     *)
(* alone names them here.                                                  *)
(***************************************************************************)
EXTENDS Naturals

CONSTANTS
    Ids,            \* the app ids that may be drawn
    MaxContainers,  \* most application containers of one app
    MaxPods,        \* most pods of one app at a time
    ListPlace,      \* the place of each ConfigMap of an app in a list of them
    NoTemplate      \* stands for the pod template of an app never deployed

Index == 0 .. MaxContainers - 1

\* The API server lists objects by name.  The index ends the name of a
\* ConfigMap (kubernetes.rs:258) as text, so that 10 comes before 2.
ListedFirst(m, maps) == \A n \in maps : ListPlace[m.index] <= ListPlace[n.index]

\* What of an AppConfig decides which calls are made: how many containers
\* there are, which have a configuration, and autostart.
Config ==
    [count : 1 .. MaxContainers, configured : SUBSET Index, autostart : BOOLEAN]

ASSUME ClusterAssumption ==
    /\ MaxContainers \in Nat \ {0}
    /\ MaxPods \in Nat \ {0}
    /\ NoTemplate \notin Config
    /\ ListPlace \in [Index -> Nat]
    /\ \A i, j \in Index : ListPlace[i] = ListPlace[j] => i = j

VARIABLES
    configMaps,     \* the ConfigMaps
    services,       \* the apps that have a Service
    deployments,    \* the apps that have a Deployment
    template,       \* what the pods of a Deployment are made from
    replicas,       \* spec.replicas of a Deployment
    readyReplicas,  \* status.readyReplicas, written by the controller
    pod             \* the phase of every pod that could exist

objectVars == <<configMaps, services, deployments, template, replicas>>
clusterVars == <<objectVars, readyReplicas, pod>>

ConfigMap == [app : Ids, index : Index]

Pod == [app : Ids, slot : 1 .. MaxPods]

PodPhase == {"absent", "pending", "running", "terminating"}

ClusterTypeOK ==
    /\ configMaps \subseteq ConfigMap
    /\ services \subseteq Ids
    /\ deployments \subseteq Ids
    /\ template \in [Ids -> Config \cup {NoTemplate}]
    /\ \A id \in deployments : template[id] \in Config
    /\ replicas \in [Ids -> 0 .. 1]
    /\ readyReplicas \in [Ids -> 0 .. 1]
    /\ pod \in [Pod -> PodPhase]

ClusterInit ==
    /\ configMaps = {}
    /\ services = {}
    /\ deployments = {}
    /\ template = [id \in Ids |-> NoTemplate]
    /\ replicas = [id \in Ids |-> 0]
    /\ readyReplicas = [id \in Ids |-> 0]
    /\ pod = [p \in Pod |-> "absent"]

-----------------------------------------------------------------------------

ConfigMapsOf(id) == {m \in configMaps : m.app = id}

PodsOf(id) == {p \in Pod : p.app = id /\ pod[p] # "absent"}

\* Pods the ReplicaSet counts.
Active(p) == pod[p] \in {"pending", "running"}

ActivePods(id) == {p \in PodsOf(id) : Active(p)}

\* A pod starts when the volumes it mounts are there.
CanMount(p) == {[app |-> p.app, index |-> i] : i \in template[p.app].configured}
                  \subseteq configMaps

-----------------------------------------------------------------------------
(***************************************************************************)
(* The controllers.  A Deployment that was deleted leaves its pods to the  *)
(* garbage collector.                                                      *)
(***************************************************************************)

IsWanted(id) == id \in deployments /\ replicas[id] = 1

CreatePod(id) ==
    /\ IsWanted(id)
    /\ ActivePods(id) = {}
    /\ \E p \in Pod :
        /\ p.app = id /\ pod[p] = "absent"
        /\ pod' = [pod EXCEPT ![p] = "pending"]
    /\ UNCHANGED <<objectVars, readyReplicas>>

TerminatePod(p) ==
    /\ Active(p)
    /\ ~IsWanted(p.app)
    /\ pod' = [pod EXCEPT ![p] = "terminating"]
    /\ UNCHANGED <<objectVars, readyReplicas>>

UpdateStatus(id) ==
    /\ id \in deployments
    /\ readyReplicas' = [readyReplicas EXCEPT ![id] =
            IF \E p \in ActivePods(id) : pod[p] = "running" THEN 1 ELSE 0]
    /\ UNCHANGED <<objectVars, pod>>

(***************************************************************************)
(* The kubelet.  All containers of a pod are restarted when they end       *)
(* (restartPolicy Always), which makes the pod unready for a while.        *)
(***************************************************************************)

StartPod(p) ==
    /\ pod[p] = "pending"
    /\ CanMount(p)
    /\ pod' = [pod EXCEPT ![p] = "running"]
    /\ UNCHANGED <<objectVars, readyReplicas>>

CrashPod(p) ==
    /\ pod[p] = "running"
    /\ pod' = [pod EXCEPT ![p] = "pending"]
    /\ UNCHANGED <<objectVars, readyReplicas>>

ReapPod(p) ==
    /\ pod[p] = "terminating"
    /\ pod' = [pod EXCEPT ![p] = "absent"]
    /\ UNCHANGED <<objectVars, readyReplicas>>

-----------------------------------------------------------------------------
(***************************************************************************)
(* Calls that write, and when they are possible.                           *)
(***************************************************************************)

ApiCreateConfigMap(m) ==
    /\ configMaps' = configMaps \cup {m}
    /\ UNCHANGED <<services, deployments, template, replicas, readyReplicas, pod>>

ApiDeleteConfigMap(m) ==
    /\ configMaps' = configMaps \ {m}
    /\ UNCHANGED <<services, deployments, template, replicas, readyReplicas, pod>>

ApiCreateService(id) ==
    /\ services' = services \cup {id}
    /\ UNCHANGED <<configMaps, deployments, template, replicas, readyReplicas, pod>>

ApiDeleteService(id) ==
    /\ services' = services \ {id}
    /\ UNCHANGED <<configMaps, deployments, template, replicas, readyReplicas, pod>>

ApiCreateDeployment(id, config, n) ==
    /\ deployments' = deployments \cup {id}
    /\ template' = [template EXCEPT ![id] = config]
    /\ replicas' = [replicas EXCEPT ![id] = n]
    /\ UNCHANGED <<configMaps, services, readyReplicas, pod>>

\* Without a body the deletion is cascading, in the background.
ApiDeleteDeployment(id) ==
    /\ deployments' = deployments \ {id}
    /\ UNCHANGED <<configMaps, services, template, replicas, readyReplicas, pod>>

\* A merge patch of spec.replicas.
ApiScale(id, n) ==
    /\ replicas' = [replicas EXCEPT ![id] = n]
    /\ UNCHANGED <<configMaps, services, deployments, template, readyReplicas, pod>>

=============================================================================
