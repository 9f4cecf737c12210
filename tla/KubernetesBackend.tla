------------------------- MODULE KubernetesBackend -------------------------
(***************************************************************************)
(* The Kubernetes backend (src/backend/kubernetes.rs).  The server keeps   *)
(* no state: a handler makes one API call after another, and the objects   *)
(* it names may change between two of them.  Each action below is one      *)
(* call, with the code that runs up to the next await.                     *)
(***************************************************************************)
EXTENDS KubernetesCluster, FiniteSets

CONSTANTS
    Requests,       \* the HTTP requests served
    Configs,        \* the app configurations clients ask for
    Ops,            \* the operations clients ask for
    Faults,         \* what goes wrong outside the program
    NoJob           \* stands for the job of a request not yet made

Operation == {"create", "start", "stop", "delete", "status", "addr", "output"}

\* refused: the API server answers a call with an error and carries nothing
\* out.  lost: it carries the call out, but its reply does not arrive.
\* abandoned: the handler is dropped at an await (the client hung up, the
\* server died).  crashes: the containers of a pod end by themselves.
Fault == {"refused", "lost", "abandoned", "crashes"}

\* The index asked for may be one the app does not have.
Job ==
    [op : {"create"}, id : Ids, config : Config]
        \cup [op : {"output"}, id : Ids, index : 0 .. MaxContainers]
        \cup [op : Operation \ {"create", "output"}, id : Ids]

ASSUME RequestAssumption ==
    /\ Configs \subseteq Config
    /\ Ops \subseteq Operation
    /\ Faults \subseteq Fault
    /\ NoJob \notin Job

VARIABLES
    pc,         \* where the handler of a request is
    job,        \* what the request asks for
    todo,       \* the ConfigMaps its loop has still to visit
    picked,     \* the pod get_app_output took from the list
    reply,      \* what the client was told
    binding     \* history: nothing that undoes the request has overlapped
                \* or followed it, and the API server has not failed it

requestVars == <<pc, job, todo, picked, reply, binding>>
vars == <<configMaps, services, deployments, template, replicas, readyReplicas,
          pod, pc, job, todo, picked, reply, binding>>

Place == {"idle", "configmap", "service", "deployment", "find", "scale",
          "listmaps", "dropmaps", "dropservice", "dropdeployment",
          "listservices", "listpods", "exec", "read", "done"}

Answer == {"none", "ok", "ready", "not_ready", "stopped", "not_found",
           "invalid_index", "internal", "gone"}

TypeOK ==
    /\ ClusterTypeOK
    /\ pc \in [Requests -> Place]
    /\ job \in [Requests -> Job \cup {NoJob}]
    /\ todo \in [Requests -> SUBSET ConfigMap]
    /\ picked \in [Requests -> SUBSET Pod]
    /\ reply \in [Requests -> Answer]
    /\ binding \in [Requests -> BOOLEAN]
    /\ \A r \in Requests : pc[r] # "idle" <=> job[r] \in Job

Init ==
    /\ ClusterInit
    /\ pc = [r \in Requests |-> "idle"]
    /\ job = [r \in Requests |-> NoJob]
    /\ todo = [r \in Requests |-> {}]
    /\ picked = [r \in Requests |-> {}]
    /\ reply = [r \in Requests |-> "none"]
    /\ binding = [r \in Requests |-> FALSE]

-----------------------------------------------------------------------------
(***************************************************************************)
(* Moving a handler on.  A dropped handler makes no further call; only the *)
(* one it had sent may still take effect.                                  *)
(***************************************************************************)

InFlight(r) == pc[r] \notin {"idle", "done"}

Finish(r, answer) ==
    /\ pc' = [pc EXCEPT ![r] = "done"]
    /\ todo' = [todo EXCEPT ![r] = {}]
    /\ picked' = [picked EXCEPT ![r] = {}]
    /\ reply' = [reply EXCEPT ![r] = IF @ = "gone" THEN @ ELSE answer]
    /\ UNCHANGED job

Continue(r, place, maps, pods) ==
    IF reply[r] = "gone" THEN Finish(r, "gone")
    ELSE /\ pc' = [pc EXCEPT ![r] = place]
         /\ todo' = [todo EXCEPT ![r] = maps]
         /\ picked' = [picked EXCEPT ![r] = pods]
         /\ UNCHANGED <<job, reply>>

\* An error that does not say the object is not there: InternalError.
Fails(r) ==
    /\ Finish(r, "internal")
    /\ binding' = [binding EXCEPT ![r] = FALSE]

\* `?` on an error of the API server: 404 if the object is not there, which
\* error.rs:11-18 makes NotFound; any other is InternalError.  Nothing is
\* undone.
ApiFails(r, exists) ==
    /\ \/ ~exists /\ Finish(r, "not_found") /\ UNCHANGED binding
       \/ "refused" \in Faults /\ Fails(r)
    /\ UNCHANGED clusterVars

\* The connection breaks after the API server has carried out the call: to
\* `?` an error like any other (error.rs:14-16).
ReplyLost(r) == "lost" \in Faults /\ Fails(r)

-----------------------------------------------------------------------------
(***************************************************************************)
(* A request arrives.  The random id of a new app differs from all others. *)
(***************************************************************************)

Drawn(id) ==
    \E s \in Requests : pc[s] # "idle" /\ job[s].op = "create" /\ job[s].id = id

\* Carrying out job j may undo what carrying out job k has promised.
Undoes(j, k) ==
    /\ j.id = k.id
    /\ \/ j.op = "delete" /\ k.op = "start"
       \/ j.op = "stop" /\ k.op = "start"
       \/ j.op = "start" /\ k.op = "stop"

Accept(r, j, place, maps) ==
    /\ pc[r] = "idle"
    /\ pc' = [pc EXCEPT ![r] = place]
    /\ job' = [job EXCEPT ![r] = j]
    /\ todo' = [todo EXCEPT ![r] = maps]
    /\ binding' = [s \in Requests |->
            IF s = r THEN \A q \in Requests : InFlight(q) => ~Undoes(job[q], j)
            ELSE binding[s] /\ ~Undoes(j, job[s])]
    /\ UNCHANGED <<clusterVars, picked, reply>>

\* Mutant of Plan: the loop over the configurations ends one too early.
PlanSkipsLast(id, config) ==
    {m \in ConfigMap : /\ m.app = id
                       /\ m.index < config.count - 1
                       /\ m.index \in config.configured}

\* The ConfigMaps create_app makes: one for each container with a
\* configuration.
Plan(id, config) ==
    {m \in ConfigMap : /\ m.app = id
                       /\ m.index < config.count
                       /\ m.index \in config.configured}

BeginCreate(r, id, config) ==
    /\ "create" \in Ops
    /\ ~Drawn(id)
    /\ Accept(r, [op |-> "create", id |-> id, config |-> config],
              IF Plan(id, config) = {} THEN "service" ELSE "configmap",
              Plan(id, config))

\* start, stop, delete and status begin with get_deployment.
BeginFind(r, op, id) ==
    /\ op \in {"start", "stop", "delete", "status"}
    /\ Accept(r, [op |-> op, id |-> id], "find", {})

BeginAddr(r, id) ==
    /\ "addr" \in Ops
    /\ Accept(r, [op |-> "addr", id |-> id], "listservices", {})

BeginOutput(r, id) ==
    /\ "output" \in Ops
    /\ \E i \in 0 .. MaxContainers :
        Accept(r, [op |-> "output", id |-> id, index |-> i], "listpods", {})

-----------------------------------------------------------------------------
(***************************************************************************)
(* create_app: the ConfigMaps by their index, the Service, and last the    *)
(* Deployment.                                                             *)
(***************************************************************************)

CreateConfigMap(r) ==
    /\ pc[r] = "configmap"
    /\ \/ \E m \in todo[r] :
            /\ \A n \in todo[r] : m.index <= n.index
            /\ ApiCreateConfigMap(m)
            /\ \/ /\ Continue(r, IF todo[r] = {m} THEN "service" ELSE "configmap",
                              todo[r] \ {m}, {})
                  /\ UNCHANGED binding
               \/ ReplyLost(r)
       \/ ApiFails(r, TRUE)

\* Mutant of CreateService: its error is dropped.
CreateServiceUnchecked(r) ==
    /\ pc[r] = "service"
    /\ \/ ApiCreateService(job[r].id)
       \/ "refused" \in Faults /\ UNCHANGED clusterVars
    /\ Continue(r, "deployment", {}, {})
    /\ UNCHANGED binding

CreateService(r) ==
    /\ pc[r] = "service"
    /\ \/ /\ ApiCreateService(job[r].id)
          /\ \/ Continue(r, "deployment", {}, {}) /\ UNCHANGED binding
             \/ ReplyLost(r)
       \/ ApiFails(r, TRUE)

\* Mutant of InitialReplicas: one replica for each container.
InitialReplicasPerContainer(config) == IF config.autostart THEN config.count ELSE 0

InitialReplicas(config) == IF config.autostart THEN 1 ELSE 0

CreateDeployment(r) ==
    /\ pc[r] = "deployment"
    /\ \/ /\ ApiCreateDeployment(job[r].id, job[r].config,
                                 InitialReplicas(job[r].config))
          /\ \/ Finish(r, "ok") /\ UNCHANGED binding
             \/ ReplyLost(r)
       \/ ApiFails(r, TRUE)

-----------------------------------------------------------------------------
(***************************************************************************)
(* The operations that find the Deployment first.                          *)
(***************************************************************************)

\* Mutant of StatusOf: the replicas asked for are not looked at.
StatusOfReadyReplicas(id) == IF readyReplicas[id] > 0 THEN "ready" ELSE "stopped"

StatusOf(id) ==
    IF replicas[id] = 0 THEN "stopped"
    ELSE IF readyReplicas[id] > 0 THEN "ready" ELSE "not_ready"

AfterFound(r) ==
    CASE job[r].op = "status" -> Finish(r, StatusOf(job[r].id))
      [] job[r].op = "delete" -> Continue(r, "listmaps", {}, {})
      [] OTHER                -> Continue(r, "scale", {}, {})

FindDeployment(r) ==
    /\ pc[r] = "find"
    /\ \/ /\ job[r].id \in deployments
          /\ AfterFound(r)
          /\ UNCHANGED <<clusterVars, binding>>
       \/ ApiFails(r, job[r].id \in deployments)

\* Mutant of ScaleTo: start_app's patch copied to stop_app.
ScaleToOne(op) == 1

ScaleTo(op) == IF op = "start" THEN 1 ELSE 0

\* Mutant of Scale: the error of the patch is dropped.
ScaleUnchecked(r) ==
    /\ pc[r] = "scale"
    /\ \/ job[r].id \in deployments /\ ApiScale(job[r].id, ScaleTo(job[r].op))
       \/ job[r].id \notin deployments /\ UNCHANGED clusterVars
    /\ Finish(r, IF job[r].op = "start" THEN "ready" ELSE "stopped")
    /\ UNCHANGED binding

\* The answer does not wait for the pods.
Scale(r) ==
    /\ pc[r] = "scale"
    /\ \/ /\ job[r].id \in deployments
          /\ ApiScale(job[r].id, ScaleTo(job[r].op))
          /\ \/ /\ Finish(r, IF job[r].op = "start" THEN "ready" ELSE "stopped")
                /\ UNCHANGED binding
             \/ ReplyLost(r)
       \/ ApiFails(r, job[r].id \in deployments)

-----------------------------------------------------------------------------
(***************************************************************************)
(* delete_app: every ConfigMap listed, the Service, and last the           *)
(* Deployment; the first error ends it.                                    *)
(***************************************************************************)

ListConfigMaps(r) ==
    /\ pc[r] = "listmaps"
    /\ \/ /\ Continue(r, IF ConfigMapsOf(job[r].id) = {}
                         THEN "dropservice" ELSE "dropmaps",
                      ConfigMapsOf(job[r].id), {})
          /\ UNCHANGED <<clusterVars, binding>>
       \/ ApiFails(r, TRUE)

\* Mutant of DropConfigMap: the ConfigMaps are taken in any order, as when
\* their deletions are sent together.
DropConfigMapInAnyOrder(r) ==
    /\ pc[r] = "dropmaps"
    /\ \E m \in todo[r] :
        \/ /\ m \in configMaps
           /\ ApiDeleteConfigMap(m)
           /\ \/ /\ Continue(r, IF todo[r] = {m} THEN "dropservice" ELSE "dropmaps",
                             todo[r] \ {m}, {})
                 /\ UNCHANGED binding
              \/ ReplyLost(r)
        \/ ApiFails(r, m \in configMaps)

\* In the order of the server's list.
DropConfigMap(r) ==
    /\ pc[r] = "dropmaps"
    /\ \E m \in todo[r] :
        /\ ListedFirst(m, todo[r])
        /\ \/ /\ m \in configMaps
              /\ ApiDeleteConfigMap(m)
              /\ \/ /\ Continue(r, IF todo[r] = {m} THEN "dropservice" ELSE "dropmaps",
                                todo[r] \ {m}, {})
                    /\ UNCHANGED binding
                 \/ ReplyLost(r)
           \/ ApiFails(r, m \in configMaps)

\* Mutant of DropService: its error is dropped.
DropServiceUnchecked(r) ==
    /\ pc[r] = "dropservice"
    /\ \/ ApiDeleteService(job[r].id)
       \/ "refused" \in Faults /\ UNCHANGED clusterVars
    /\ Continue(r, "dropdeployment", {}, {})
    /\ UNCHANGED binding

DropService(r) ==
    /\ pc[r] = "dropservice"
    /\ \/ /\ job[r].id \in services
          /\ ApiDeleteService(job[r].id)
          /\ \/ Continue(r, "dropdeployment", {}, {}) /\ UNCHANGED binding
             \/ ReplyLost(r)
       \/ ApiFails(r, job[r].id \in services)

DropDeployment(r) ==
    /\ pc[r] = "dropdeployment"
    /\ \/ /\ job[r].id \in deployments
          /\ ApiDeleteDeployment(job[r].id)
          /\ \/ Finish(r, "ok") /\ UNCHANGED binding
             \/ ReplyLost(r)
       \/ ApiFails(r, job[r].id \in deployments)

-----------------------------------------------------------------------------
(***************************************************************************)
(* get_app_addr and get_app_output do not look at the Deployment.          *)
(***************************************************************************)

ListServices(r) ==
    /\ pc[r] = "listservices"
    /\ \/ /\ job[r].id \in services
          /\ Finish(r, "ok")
          /\ UNCHANGED <<clusterVars, binding>>
       \/ ApiFails(r, job[r].id \in services)

\* The first pod of the list, whichever it is.
ListPods(r) ==
    /\ pc[r] = "listpods"
    /\ \/ /\ \E p \in PodsOf(job[r].id) :
              IF job[r].index < template[p.app].count
              THEN Continue(r, "exec", {}, {p})
              ELSE Finish(r, "invalid_index")
          /\ UNCHANGED <<clusterVars, binding>>
       \/ ApiFails(r, PodsOf(job[r].id) # {})

\* `cat` can be started only in a pod whose containers run; that of a
\* terminating pod may have ended.  The error is not one of the API.
Exec(r) ==
    /\ pc[r] = "exec"
    /\ \E p \in picked[r] :
        \/ /\ pod[p] \in {"running", "terminating"}
           /\ Continue(r, "read", {}, {})
           /\ UNCHANGED binding
        \/ (pod[p] # "running" \/ "refused" \in Faults) /\ Fails(r)
    /\ UNCHANGED clusterVars

\* Its output is read to the end and the process joined, in whatever time
\* that takes; there may be no stream, reading it may fail, and `cat` may
\* end with an error.
ReadOutput(r) ==
    /\ pc[r] = "read"
    /\ \/ Finish(r, "ok") /\ UNCHANGED binding
       \/ Fails(r)
    /\ UNCHANGED clusterVars

-----------------------------------------------------------------------------
(***************************************************************************)
(* What happens from outside.                                              *)
(***************************************************************************)

\* The client is gone: no answer reaches it.
Abandon(r) ==
    /\ "abandoned" \in Faults
    /\ InFlight(r)
    /\ reply[r] = "none"
    /\ reply' = [reply EXCEPT ![r] = "gone"]
    /\ UNCHANGED <<clusterVars, pc, job, todo, picked, binding>>

\* The call a dropped handler was about to make was not sent.
Settle(r) ==
    /\ InFlight(r)
    /\ reply[r] = "gone"
    /\ Finish(r, "gone")
    /\ UNCHANGED <<clusterVars, binding>>

ClusterStep ==
    \/ \E id \in Ids : CreatePod(id)
    \/ \E id \in Ids : UpdateStatus(id)
    \/ \E p \in Pod : TerminatePod(p)
    \/ \E p \in Pod : StartPod(p)
    \/ \E p \in Pod : ReapPod(p)
    \/ "crashes" \in Faults /\ \E p \in Pod : CrashPod(p)

Terminated ==
    /\ \A r \in Requests : pc[r] = "done"
    /\ UNCHANGED vars

-----------------------------------------------------------------------------

Arrive(r) ==
    \E id \in Ids :
        \/ \E config \in Configs : BeginCreate(r, id, config)
        \/ \E op \in Ops : BeginFind(r, op, id)
        \/ BeginAddr(r, id)
        \/ BeginOutput(r, id)

Step(r) ==
    \/ CreateConfigMap(r)
    \/ CreateService(r)
    \/ CreateDeployment(r)
    \/ FindDeployment(r)
    \/ Scale(r)
    \/ ListConfigMaps(r)
    \/ DropConfigMap(r)
    \/ DropService(r)
    \/ DropDeployment(r)
    \/ ListServices(r)
    \/ ListPods(r)
    \/ Exec(r)
    \/ Settle(r)

Next ==
    \/ \E r \in Requests : Arrive(r) \/ Step(r) \/ ReadOutput(r) \/ Abandon(r)
    \/ ClusterStep /\ UNCHANGED requestVars
    \/ Terminated

\* The runtime polls every handler and the API server answers every call;
\* controllers and kubelet reconcile.  No client has to make a request, no
\* pod has to crash, and no process in a pod has to end: reading its output
\* has no time limit.
Fairness ==
    /\ \A r \in Requests : WF_vars(Step(r))
    /\ \A id \in Ids : WF_vars(CreatePod(id) /\ UNCHANGED requestVars)
    /\ \A p \in Pod :
        /\ WF_vars(TerminatePod(p) /\ UNCHANGED requestVars)
        /\ WF_vars(StartPod(p) /\ UNCHANGED requestVars)
        /\ WF_vars(ReapPod(p) /\ UNCHANGED requestVars)

Spec == Init /\ [][Next]_vars

FairSpec == Spec /\ Fairness

-----------------------------------------------------------------------------
(***************************************************************************)
(* Correctness.                                                            *)
(***************************************************************************)

Promised(r, op, answer) ==
    pc[r] = "done" /\ job[r].op = op /\ reply[r] = answer /\ binding[r]

Deletes(r, id) == pc[r] # "idle" /\ job[r].op = "delete" /\ job[r].id = id

\* create_app makes the Deployment last (kubernetes.rs:521-529), so that an
\* app that can be found is whole: until somebody deletes it, it has its
\* Service and every ConfigMap its pods mount.
DeployedIsWhole ==
    \A id \in deployments : (\A r \in Requests : ~Deletes(r, id)) =>
        /\ id \in services
        /\ Plan(id, template[id]) = ConfigMapsOf(id)

\* After a delete was answered 204 (kubernetes.rs:575-597) no object of the
\* app is left or made again, whatever ran beside it and whatever failed.
DeletedLeavesNothing ==
    \A r \in Requests : Deletes(r, job[r].id) /\ reply[r] = "ok" =>
        /\ job[r].id \notin deployments \cup services
        /\ ConfigMapsOf(job[r].id) = {}

\* Everything this delete has still to remove is there.
FindsTheRest(r) ==
    \/ pc[r] = "dropmaps" /\ todo[r] \subseteq configMaps /\ job[r].id \in services
    \/ pc[r] = "dropservice" /\ job[r].id \in services
    \/ pc[r] = "dropdeployment"

\* Of several deletes of an app the losers are answered NotFound at the
\* first object another has taken (kubernetes.rs:589, 593, 596), but never
\* all of them: when a deployed app misses a ConfigMap or its Service, one
\* of its deletes has nothing more to stop at, unless the API server failed
\* one or it was dropped.  All deletes take the ConfigMaps in the same
\* order, that of the server's list.
OneDeleteGoesOn ==
    \A id \in deployments :
        id \notin services \/ ConfigMapsOf(id) # Plan(id, template[id]) =>
            \E r \in Requests :
                /\ Deletes(r, id)
                /\ FindsTheRest(r) \/ reply[r] = "gone" \/ ~binding[r]

\* A start or stop that was answered (kubernetes.rs:537-573) is what the
\* Deployment is scaled to, until another request undoes it: the patch goes
\* by the name read one call before.
ScaledAsAnswered ==
    \A r \in Requests :
        /\ Promised(r, "start", "ready") =>
              job[r].id \in deployments /\ replicas[job[r].id] = 1
        /\ Promised(r, "stop", "stopped") /\ job[r].id \in deployments =>
              replicas[job[r].id] = 0

\* start_app answers Ready before there is a pod (kubernetes.rs:553); one
\* runs in the end, unless another request undoes the start.
StartedComesUp ==
    \A r \in Requests :
        Promised(r, "start", "ready") ~>
            \/ ~binding[r]
            \/ \E p \in PodsOf(job[r].id) : pod[p] = "running"

\* After a stop or a delete was answered all pods of the app end, unless
\* somebody starts it again.
StoppedGoesDown ==
    \A r \in Requests :
        Promised(r, "stop", "stopped") \/ Promised(r, "delete", "ok")
            ~> ~binding[r] \/ PodsOf(job[r].id) = {}

-----------------------------------------------------------------------------
(***************************************************************************)
(* What the documentation says and the code does not do.                   *)
(***************************************************************************)

\* Delete's 404 is "App not found" (api.rs:66-69): so when no other delete
\* of the app is under way, the app is not there.
NotFoundMeansNoApp ==
    \A r \in Requests :
        /\ Deletes(r, job[r].id) /\ reply[r] = "not_found"
        /\ \A s \in Requests : Deletes(s, job[r].id) => pc[s] = "done"
        => job[r].id \notin deployments

\* "Get the first pod (there should be only one for each app)"
\* (kubernetes.rs:659).
OnePodPerApp == \A id \in Ids : Cardinality(PodsOf(id)) <= 1

=============================================================================
