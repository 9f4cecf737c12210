---------------------- MODULE KubernetesRegistryProofs ----------------------
(***************************************************************************)
(* The Kubernetes backend implements the registry, for any number of       *)
(* requests, apps, containers and pods and under every combination of      *)
(* faults.                                                                 *)
(***************************************************************************)
EXTENDS KubernetesRegistry, KubernetesBackendProofs

-----------------------------------------------------------------------------
(***************************************************************************)
(* What the mapping needs beyond IInv: a delete that finds an object gone  *)
(* while the Deployment is still there has met another delete.             *)
(***************************************************************************)

ServiceGone ==
    \A id \in deployments \ services : \E s \in Requests :
        Deletes(s, id) /\ pc[s] \in {"dropdeployment", "done"}

MapGone ==
    \A r \in Requests : pc[r] = "dropmaps" /\ ~(todo[r] \subseteq configMaps) =>
        \E s \in Requests \ {r} : Deletes(s, job[r].id)

MetAnother == ServiceGone /\ MapGone

\* A handler goes on with its job, and no other with it.
Stays(r) ==
    /\ InFlight(r)
    /\ UNCHANGED job
    /\ pc'[r] # "idle"
    /\ pc[r] = "dropdeployment" => pc'[r] = "done"
    /\ \A s \in Requests \ {r} : pc'[s] = pc[s] /\ todo'[s] = todo[s]

LEMMA FinishStays ==
    ASSUME TypeOK, NEW r \in Requests, InFlight(r), NEW answer, Finish(r, answer)
    PROVE  Stays(r) /\ pc'[r] = "done"
  BY DEF TypeOK, Finish, Stays

LEMMA ContinueStays ==
    ASSUME TypeOK, NEW r \in Requests, InFlight(r), pc[r] # "dropdeployment",
           NEW place, NEW maps, NEW pods, place # "idle", Continue(r, place, maps, pods)
    PROVE  /\ Stays(r)
           /\ pc'[r] = "done" \/ (pc'[r] = place /\ todo'[r] = maps)
  <1>1. CASE reply[r] = "gone"
    BY <1>1, FinishStays DEF Continue
  <1>2. CASE reply[r] # "gone"
    BY <1>2 DEF Continue, TypeOK, Stays
  <1> QED BY <1>1, <1>2

\* r ends or goes on without a call that made or removed an object of an
\* app.
Quiet(r) ==
    /\ Stays(r)
    /\ UNCHANGED <<configMaps, services, deployments>>
    /\ pc'[r] = "dropmaps" => todo'[r] \subseteq configMaps

LEMMA FailsStays ==
    ASSUME TypeOK, NEW r \in Requests, InFlight(r), Fails(r) \/ ReplyLost(r)
    PROVE  Stays(r) /\ pc'[r] = "done"
  BY FinishStays DEF Fails, ReplyLost

LEMMA ApiFailsQuiet ==
    ASSUME TypeOK, NEW r \in Requests, InFlight(r), NEW exists, ApiFails(r, exists)
    PROVE  Quiet(r)
  <1>1. Stays(r) /\ pc'[r] = "done"
    BY FinishStays, FailsStays DEF ApiFails
  <1> QED BY <1>1 DEF ApiFails, Quiet, clusterVars, objectVars

\* What the steps of a handler do to the objects a delete looks for.
LEMMA CreationStepObjects ==
    ASSUME TypeOK, Progress, NEW r \in Requests,
           CreateConfigMap(r) \/ CreateService(r) \/ CreateDeployment(r)
    PROVE  /\ Stays(r) /\ pc'[r] # "dropmaps"
           /\ configMaps \subseteq configMaps'
           /\ deployments' \ services' \subseteq deployments \ services
  <1>1. InFlight(r) /\ pc[r] # "dropdeployment"
    BY DEF CreateConfigMap, CreateService, CreateDeployment, InFlight
  <1>2. ASSUME NEW exists, ApiFails(r, exists)
        PROVE  Quiet(r) /\ pc'[r] = "done"
    BY <1>1, <1>2, ApiFailsQuiet, FinishStays, FailsStays DEF ApiFails
  <1>3. CASE CreateConfigMap(r)
    <2>1. ASSUME NEW m \in todo[r], ApiCreateConfigMap(m),
                 \/ Continue(r, IF todo[r] = {m} THEN "service" ELSE "configmap",
                             todo[r] \ {m}, {})
                 \/ ReplyLost(r)
          PROVE  /\ Stays(r) /\ pc'[r] # "dropmaps"
                 /\ configMaps \subseteq configMaps'
                 /\ deployments' \ services' \subseteq deployments \ services
      BY <1>1, <2>1, ContinueStays, FailsStays DEF ApiCreateConfigMap
    <2> QED BY <1>2, <1>3, <2>1 DEF CreateConfigMap, Quiet
  <1>4. CASE CreateService(r)
    <2>1. CASE /\ ApiCreateService(job[r].id)
               /\ Continue(r, "deployment", {}, {}) \/ ReplyLost(r)
      BY <1>1, <2>1, ContinueStays, FailsStays DEF ApiCreateService
    <2> QED BY <1>2, <1>4, <2>1 DEF CreateService, Quiet
  <1>5. CASE CreateDeployment(r)
    <2>1. CASE /\ ApiCreateDeployment(job[r].id, job[r].config, InitialReplicas(job[r].config))
               /\ Finish(r, "ok") \/ ReplyLost(r)
      <3>1. job[r].id \in services
        BY <1>5, CreatorIsAlone DEF Progress, CreationProgress, CreateDeployment
      <3> QED BY <1>1, <2>1, <3>1, FinishStays, FailsStays DEF ApiCreateDeployment
    <2> QED BY <1>2, <1>5, <2>1 DEF CreateDeployment, Quiet
  <1> QED BY <1>3, <1>4, <1>5

LEMMA OtherStepQuiet ==
    ASSUME TypeOK, NEW r \in Requests,
           \/ FindDeployment(r) \/ Scale(r) \/ ListConfigMaps(r)
           \/ ListServices(r) \/ ListPods(r) \/ Exec(r) \/ ReadOutput(r) \/ Settle(r)
    PROVE  Quiet(r)
  <1>1. InFlight(r)
    BY DEF FindDeployment, Scale, ListConfigMaps, ListServices, ListPods, Exec, ReadOutput, Settle,
           InFlight
  <1>2. ASSUME NEW exists, ApiFails(r, exists)
        PROVE  Quiet(r)
    BY <1>1, <1>2, ApiFailsQuiet
  <1>3. ASSUME (\E answer : Finish(r, answer)) \/ Fails(r) \/ ReplyLost(r),
               UNCHANGED <<configMaps, services, deployments>>
        PROVE  Quiet(r)
    BY <1>1, <1>3, FinishStays, FailsStays DEF Quiet
  <1>4. ASSUME pc[r] # "dropdeployment", NEW place, NEW maps, NEW pods, place # "idle",
               Continue(r, place, maps, pods), place = "dropmaps" => maps \subseteq configMaps,
               UNCHANGED <<configMaps, services, deployments>>
        PROVE  Quiet(r)
    BY <1>1, <1>4, ContinueStays DEF Quiet
  <1>5. CASE FindDeployment(r)
    <2>1. CASE AfterFound(r) /\ UNCHANGED <<clusterVars, binding>>
      <3>1. UNCHANGED <<configMaps, services, deployments>>
        BY <2>1 DEF clusterVars, objectVars
      <3>2. pc[r] # "dropdeployment"
        BY <1>5 DEF FindDeployment
      <3>3. \/ \E answer : Finish(r, answer)
            \/ Continue(r, "listmaps", {}, {})
            \/ Continue(r, "scale", {}, {})
        BY <2>1 DEF AfterFound
      <3> QED BY <1>3, <1>4, <3>1, <3>2, <3>3
    <2> QED BY <1>2, <1>5, <2>1 DEF FindDeployment
  <1>6. CASE Scale(r)
    BY <1>2, <1>3, <1>6 DEF Scale, ApiScale
  <1>7. CASE ListConfigMaps(r)
    <2>1. ConfigMapsOf(job[r].id) \subseteq configMaps
      BY DEF ConfigMapsOf
    <2>2. CASE /\ Continue(r, IF ConfigMapsOf(job[r].id) = {} THEN "dropservice" ELSE "dropmaps",
                           ConfigMapsOf(job[r].id), {})
               /\ UNCHANGED <<clusterVars, binding>>
      BY <1>4, <1>7, <2>1, <2>2 DEF ListConfigMaps, clusterVars, objectVars
    <2> QED BY <1>2, <1>7, <2>2 DEF ListConfigMaps
  <1>8. CASE ListServices(r)
    BY <1>2, <1>3, <1>8 DEF ListServices, clusterVars, objectVars
  <1>9. CASE ListPods(r)
    <2>1. CASE ApiFails(r, PodsOf(job[r].id) # {})
      BY <1>1, <2>1, ApiFailsQuiet
    <2>2. ASSUME NEW p, UNCHANGED <<clusterVars, binding>>,
                 Continue(r, "exec", {}, {p}) \/ Finish(r, "invalid_index")
          PROVE  Quiet(r)
      BY <1>3, <1>4, <1>9, <2>2 DEF ListPods, clusterVars, objectVars
    <2> QED BY <1>9, <2>1, <2>2 DEF ListPods
  <1>10. CASE Exec(r)
    <2>1. CASE Continue(r, "read", {}, {})
      BY <1>4, <1>10, <2>1 DEF Exec, clusterVars, objectVars
    <2>2. CASE Fails(r)
      BY <1>3, <1>10, <2>2 DEF Exec, clusterVars, objectVars
    <2> QED BY <1>10, <2>1, <2>2 DEF Exec
  <1>11. CASE ReadOutput(r) \/ Settle(r)
    BY <1>3, <1>11 DEF ReadOutput, Settle, clusterVars, objectVars
  <1> QED BY <1>5, <1>6, <1>7, <1>8, <1>9, <1>10, <1>11

-----------------------------------------------------------------------------
(***************************************************************************)
(* A delete that meets another one has met it for good.                    *)
(***************************************************************************)

\* What a step of r must leave of the objects and of the other deletes.
LEMMA StaysKeepsDeletes ==
    ASSUME TypeOK, NEW r \in Requests, Stays(r)
    PROVE  \A s \in Requests, id \in Ids : Deletes(s, id) =>
             /\ Deletes(s, id)'
             /\ pc[s] \in {"dropdeployment", "done"} => pc'[s] \in {"dropdeployment", "done"}
  BY DEF Stays, Deletes, InFlight

LEMMA GrowthKeepsMet ==
    ASSUME TypeOK, MetAnother, NEW r \in Requests, Stays(r),
           pc'[r] = "dropmaps" => todo'[r] \subseteq configMaps',
           configMaps \subseteq configMaps',
           deployments' \ services' \subseteq deployments \ services
    PROVE  MetAnother'
  <1>1. ServiceGone'
    <2>1. deployments \ services \subseteq Ids
      BY DEF TypeOK, ClusterTypeOK
    <2> QED BY <2>1, StaysKeepsDeletes DEF MetAnother, ServiceGone
  <1>2. MapGone'
    <2>1. ASSUME NEW q \in Requests, pc'[q] = "dropmaps", ~(todo'[q] \subseteq configMaps')
          PROVE  \E s \in Requests \ {q} : Deletes(s, job[q].id)'
      <3>1. q # r /\ pc[q] = "dropmaps" /\ ~(todo[q] \subseteq configMaps) /\ job' = job
        BY <2>1 DEF Stays
      <3>2. PICK s \in Requests \ {q} : Deletes(s, job[q].id)
        BY <3>1 DEF MetAnother, MapGone
      <3>3. job[q].id \in Ids
        BY <3>1, JobType
      <3> QED BY <3>1, <3>2, <3>3, StaysKeepsDeletes
    <2> QED BY <2>1 DEF MapGone
  <1> QED BY <1>1, <1>2 DEF MetAnother

LEMMA QuietKeepsMet ==
    ASSUME TypeOK, MetAnother, NEW r \in Requests, Quiet(r)
    PROVE  MetAnother'
  BY GrowthKeepsMet DEF Quiet

LEMMA DropStepKeepsMet ==
    ASSUME TypeOK, Progress, MetAnother, NEW r \in Requests,
           DropConfigMap(r) \/ DropService(r) \/ DropDeployment(r)
    PROVE  MetAnother'
  <1>1. InFlight(r)
    BY DEF DropConfigMap, DropService, DropDeployment, InFlight
  <1>2. ASSUME NEW exists, ApiFails(r, exists)
        PROVE  MetAnother'
    BY <1>1, <1>2, ApiFailsQuiet, QuietKeepsMet
  <1>3. Deletes(r, job[r].id) /\ job[r].id \in Ids
    BY NobodyCreates DEF DropConfigMap, DropService, DropDeployment
  <1>4. ASSUME pc[r] = "dropmaps", NEW m \in todo[r], ApiDeleteConfigMap(m),
               \/ Continue(r, IF todo[r] = {m} THEN "dropservice" ELSE "dropmaps",
                           todo[r] \ {m}, {})
               \/ ReplyLost(r)
        PROVE  MetAnother'
    <2>1. /\ Stays(r)
          /\ pc'[r] = "dropmaps" => todo'[r] = todo[r] \ {m}
      BY <1>1, <1>4, ContinueStays, FailsStays
    <2>2. /\ UNCHANGED <<services, deployments>> /\ configMaps' = configMaps \ {m}
          /\ m.app = job[r].id
      BY <1>3, <1>4 DEF ApiDeleteConfigMap, Progress, DeletionProgress, Plan
    <2>3. ServiceGone'
      <3>1. deployments \ services \subseteq Ids
        BY DEF TypeOK, ClusterTypeOK
      <3> QED BY <2>1, <2>2, <3>1, StaysKeepsDeletes DEF MetAnother, ServiceGone
    <2>4. ASSUME NEW q \in Requests, pc'[q] = "dropmaps", ~(todo'[q] \subseteq configMaps')
          PROVE  \E s \in Requests \ {q} : Deletes(s, job[q].id)'
      <3>1. pc[q] = "dropmaps" /\ job' = job /\ job[q].id \in Ids
        BY <1>4, <2>1, <2>4, JobType DEF Stays
      <3>2. CASE ~(todo[q] \subseteq configMaps)
        <4>1. PICK s \in Requests \ {q} : Deletes(s, job[q].id)
          BY <3>1, <3>2 DEF MetAnother, MapGone
        <4> QED BY <2>1, <3>1, <4>1, StaysKeepsDeletes
      <3>3. CASE todo[q] \subseteq configMaps
        <4>1. q # r /\ m \in todo[q]
          BY <2>1, <2>2, <2>4, <3>3 DEF Stays
        <4>2. Deletes(q, job[q].id)
          BY <3>1, NobodyCreates
        <4>3. m.app = job[q].id
          BY <3>1, <4>1, <4>2 DEF Progress, DeletionProgress, Plan
        <4>4. Deletes(r, job[q].id)'
          BY <1>3, <2>1, <2>2, <4>3, StaysKeepsDeletes DEF Stays
        <4> QED BY <4>1, <4>4
      <3> QED BY <3>2, <3>3
    <2> QED BY <2>3, <2>4 DEF MetAnother, MapGone
  <1>5. CASE /\ pc[r] = "dropservice" /\ ApiDeleteService(job[r].id)
             /\ Continue(r, "dropdeployment", {}, {}) \/ ReplyLost(r)
    <2>1. /\ Stays(r) /\ pc'[r] \in {"dropdeployment", "done"}
          /\ UNCHANGED <<configMaps, deployments>> /\ services' = services \ {job[r].id}
      BY <1>1, <1>5, ContinueStays, FailsStays DEF ApiDeleteService
    <2>2. ASSUME NEW id \in deployments' \ services'
          PROVE  \E s \in Requests : Deletes(s, id)' /\ pc'[s] \in {"dropdeployment", "done"}
      <3>1. CASE id = job[r].id
        BY <1>3, <2>1, <3>1, StaysKeepsDeletes
      <3>2. CASE id # job[r].id
        <4>1. id \in deployments \ services /\ id \in Ids
          BY <2>1, <2>2, <3>2 DEF TypeOK, ClusterTypeOK
        <4>2. PICK s \in Requests : Deletes(s, id) /\ pc[s] \in {"dropdeployment", "done"}
          BY <4>1 DEF MetAnother, ServiceGone
        <4> QED BY <2>1, <4>1, <4>2, StaysKeepsDeletes
      <3> QED BY <3>1, <3>2
    <2>3. ASSUME NEW q \in Requests, pc'[q] = "dropmaps", ~(todo'[q] \subseteq configMaps')
          PROVE  \E s \in Requests \ {q} : Deletes(s, job[q].id)'
      <3>1. pc[q] = "dropmaps" /\ ~(todo[q] \subseteq configMaps) /\ job' = job /\ job[q].id \in Ids
        BY <2>1, <2>3, JobType DEF Stays
      <3>2. PICK s \in Requests \ {q} : Deletes(s, job[q].id)
        BY <3>1 DEF MetAnother, MapGone
      <3> QED BY <2>1, <3>1, <3>2, StaysKeepsDeletes
    <2> QED BY <2>2, <2>3 DEF MetAnother, MapGone, ServiceGone
  <1>6. CASE ApiDeleteDeployment(job[r].id) /\ (Finish(r, "ok") \/ ReplyLost(r))
    BY <1>1, <1>6, FinishStays, FailsStays, GrowthKeepsMet DEF ApiDeleteDeployment
  <1>7. CASE DropConfigMap(r)
    BY <1>2, <1>4, <1>7 DEF DropConfigMap
  <1>8. CASE DropService(r)
    BY <1>2, <1>5, <1>8 DEF DropService
  <1>9. CASE DropDeployment(r)
    BY <1>2, <1>6, <1>9 DEF DropDeployment
  <1> QED BY <1>7, <1>8, <1>9

\* Steps that move no handler.
LEMMA OutsideKeepsMet ==
    ASSUME TypeOK, MetAnother, UNCHANGED objectVars,
           \A s \in Requests : pc[s] # "idle" =>
               pc'[s] = pc[s] /\ job'[s] = job[s] /\ todo'[s] = todo[s],
           \A s \in Requests : pc[s] = "idle" => pc'[s] # "dropmaps"
    PROVE  MetAnother'
  <1>1. \A s \in Requests, id \in Ids : Deletes(s, id) => Deletes(s, id)' /\ pc'[s] = pc[s]
    BY DEF Deletes
  <1>2. ServiceGone'
    <2>1. deployments \ services \subseteq Ids
      BY DEF TypeOK, ClusterTypeOK
    <2> QED BY <1>1, <2>1 DEF MetAnother, ServiceGone, objectVars
  <1>3. ASSUME NEW q \in Requests, pc'[q] = "dropmaps", ~(todo'[q] \subseteq configMaps')
        PROVE  \E s \in Requests \ {q} : Deletes(s, job[q].id)'
    <2>1. /\ pc[q] = "dropmaps" /\ ~(todo[q] \subseteq configMaps)
          /\ job'[q] = job[q] /\ job[q].id \in Ids
      BY <1>3, JobType DEF objectVars
    <2>2. PICK s \in Requests \ {q} : Deletes(s, job[q].id)
      BY <2>1 DEF MetAnother, MapGone
    <2> QED BY <1>1, <2>1, <2>2 DEF Deletes
  <1> QED BY <1>2, <1>3 DEF MetAnother, MapGone

LEMMA NextKeepsMet ==
    ASSUME TypeOK, Progress, MetAnother, [Next]_vars
    PROVE  MetAnother'
  <1>1. ASSUME NEW r \in Requests, Arrive(r)
        PROVE  MetAnother'
    <2>1. ASSUME NEW j, NEW place, NEW maps, Accept(r, j, place, maps), place # "dropmaps"
          PROVE  MetAnother'
      <3>1. /\ UNCHANGED objectVars /\ pc[r] = "idle" /\ pc'[r] = place
            /\ \A s \in Requests \ {r} : pc'[s] = pc[s] /\ job'[s] = job[s] /\ todo'[s] = todo[s]
        BY <2>1 DEF Accept, clusterVars, TypeOK
      <3> QED BY <2>1, <3>1, OutsideKeepsMet
    <2> QED BY <1>1, <2>1 DEF Arrive, BeginCreate, BeginFind, BeginAddr, BeginOutput
  <1>2. ASSUME NEW r \in Requests, Step(r) \/ ReadOutput(r)
        PROVE  MetAnother'
    <2>1. CASE CreateConfigMap(r) \/ CreateService(r) \/ CreateDeployment(r)
      BY <2>1, CreationStepObjects, GrowthKeepsMet
    <2>2. CASE \/ FindDeployment(r) \/ Scale(r) \/ ListConfigMaps(r)
               \/ ListServices(r) \/ ListPods(r) \/ Exec(r) \/ ReadOutput(r)
               \/ Settle(r)
      BY <2>2, OtherStepQuiet, QuietKeepsMet
    <2>3. CASE DropConfigMap(r) \/ DropService(r) \/ DropDeployment(r)
      BY <2>3, DropStepKeepsMet
    <2> QED BY <1>2, <2>1, <2>2, <2>3 DEF Step
  <1>3. ASSUME NEW r \in Requests, Abandon(r)
        PROVE  MetAnother'
    BY <1>3, OutsideKeepsMet DEF Abandon, clusterVars
  <1>4. CASE ClusterStep /\ UNCHANGED requestVars
    BY <1>4, OutsideKeepsMet DEF ClusterStep, CreatePod, UpdateStatus, TerminatePod, StartPod,
                                 ReapPod, CrashPod, requestVars
  <1>5. CASE UNCHANGED vars
    BY <1>5, OutsideKeepsMet DEF vars, objectVars
  <1> QED BY <1>1, <1>2, <1>3, <1>4, <1>5 DEF Next, Terminated

\* A delete that finds an object gone, while the Deployment is there, has met
\* another delete of the app (kubernetes.rs:575-597).
LEMMA MetAnotherHolds == Spec => []MetAnother
  <1>1. Init => MetAnother
    BY DEF Init, ClusterInit, MetAnother, ServiceGone, MapGone
  <1>2. IInv /\ MetAnother /\ [Next]_vars => MetAnother'
    BY NextKeepsMet DEF IInv
  <1> QED BY <1>1, <1>2, InductiveInvariant, PTL DEF Spec

-----------------------------------------------------------------------------
(***************************************************************************)
(* The mapping.                                                            *)
(***************************************************************************)

AskedBy(r) == AskedOf(job[r])

\* A job and what the trait knows of it agree.
LEMMA AskedOfJob ==
    ASSUME NEW j \in Job
    PROVE  /\ AskedOf(j) \in Registry!Asked
           /\ AskedOf(j) # NoJob
           /\ AskedOf(j).op = j.op
           /\ AskedOf(j).id = j.id
           /\ j.op = "create" => AskedOf(j).autostart = j.config.autostart
  <1>1. j # NoJob
    BY RequestAssumption
  <1>2. j.id \in Ids /\ j.op \in Operation /\ (j.op = "create" => j.config.autostart \in BOOLEAN)
    BY DEF Job, Operation, Config
  <1>3. AskedOf(j) \in Registry!Asked
    BY <1>1, <1>2 DEF AskedOf, Registry!Asked, Operation
  <1> QED BY <1>1, <1>3, RegistryAssumption DEF AskedOf

\* Answering a request closes it.
LEMMA FinishCloses ==
    ASSUME TypeOK, NEW r \in Requests, InFlight(r), NEW told, Finish(r, told)
    PROVE  Registry!Close(r, told)
  <1>1. /\ UNCHANGED job
        /\ pc' = [pc EXCEPT ![r] = "done"]
        /\ reply' = [reply EXCEPT ![r] = IF @ = "gone" THEN @ ELSE told]
    BY DEF Finish
  <1>2. {q \in Requests : InFlight(q)}' = {q \in Requests : InFlight(q)} \ {r}
    BY <1>1 DEF TypeOK, InFlight
  <1> QED BY <1>1, <1>2 DEF Registry!Close

\* Going on is no step of the registry, except that a dropped handler ends.
LEMMA ContinueCloses ==
    ASSUME TypeOK, NEW r \in Requests, InFlight(r), NEW place, NEW maps, NEW pods,
           place \notin {"idle", "done"}, Continue(r, place, maps, pods)
    PROVE  \/ Registry!Close(r, "internal")
           \/ UNCHANGED <<[q \in Requests |-> AskedOf(job[q])], reply,
                          {q \in Requests : InFlight(q)}>>
  <1>1. CASE reply[r] = "gone"
    <2>1. Finish(r, "internal")
      BY <1>1 DEF Continue, Finish, TypeOK
    <2> QED BY <2>1, FinishCloses
  <1>2. CASE reply[r] # "gone"
    <2>1. /\ UNCHANGED <<job, reply>>
          /\ pc' = [pc EXCEPT ![r] = place]
      BY <1>2 DEF Continue
    <2>2. {q \in Requests : InFlight(q)}' = {q \in Requests : InFlight(q)}
      BY <2>1 DEF TypeOK, InFlight
    <2> QED BY <2>1, <2>2
  <1> QED BY <1>1, <1>2

\* The state of the apps depends on the Deployments alone.
Apps == [id \in Ids |-> AppState(id)]

LEMMA AppsUnchanged ==
    ASSUME UNCHANGED <<deployments, template, replicas>>
    PROVE  UNCHANGED Apps
  BY DEF Apps, AppState

\* A step of the registry, or none.
RegistryStep == [Registry!Next]_(Registry!vars)

LEMMA FailRefines ==
    ASSUME NEW r \in Requests, InFlight(r), Registry!Close(r, "internal"), UNCHANGED Apps
    PROVE  RegistryStep
  <1>1. r \in {q \in Requests : InFlight(q)}
    OBVIOUS
  <1>2. Registry!Fail(r)
    BY DEF Registry!Fail, Apps
  <1> QED BY <1>1, <1>2 DEF RegistryStep, Registry!Next

LEMMA NotFoundRefines ==
    ASSUME TypeOK, NEW r \in Requests, InFlight(r), Registry!Close(r, "not_found"), UNCHANGED Apps,
           \/ job[r].op \in {"addr", "output"}
           \/ /\ job[r].op \in {"start", "stop", "delete", "status"}
              /\ job[r].id \notin deployments
           \/ /\ job[r].op = "delete"
              /\ \E s \in Requests \ {r} : Deletes(s, job[r].id)
    PROVE  RegistryStep
  <1> DEFINE asked == [q \in Requests |-> AskedOf(job[q])]
  <1>1. r \in {q \in Requests : InFlight(q)} /\ job[r] \in Job /\ job[r].id \in Ids
    BY JobType DEF InFlight
  <1>2. /\ asked[r].op = job[r].op /\ asked[r].id = job[r].id
    BY <1>1, AskedOfJob
  <1>3. CASE job[r].op \in {"addr", "output"}
    <2>1. Registry!Look(r)
      BY <1>2, <1>3 DEF Registry!Look, Apps
    <2> QED BY <1>1, <2>1 DEF RegistryStep, Registry!Next
  <1>4. CASE job[r].op \in {"start", "stop", "delete", "status"} /\ job[r].id \notin deployments
    <2>1. ~Registry!Live(asked[r].id)
      BY <1>1, <1>2, <1>4 DEF Registry!Live, AppState
    <2>2. Registry!NotFound(r)
      BY <1>2, <1>4, <2>1 DEF Registry!NotFound, Apps
    <2> QED BY <1>1, <2>2 DEF RegistryStep, Registry!Next
  <1>5. CASE job[r].op = "delete" /\ \E s \in Requests \ {r} : Deletes(s, job[r].id)
    <2>1. PICK s \in Requests \ {r} : Deletes(s, job[r].id)
      BY <1>5
    <2>2. job[s] \in Job /\ job[s].op = "delete" /\ job[s].id = job[r].id
      BY <2>1, JobType DEF Deletes
    <2>3. asked[s] = asked[r]
      BY <1>1, <1>5, <2>2, RequestAssumption DEF AskedOf
    <2>4. Registry!NotFound(r)
      BY <1>2, <1>5, <2>1, <2>3 DEF Registry!NotFound, Apps
    <2> QED BY <1>1, <2>4 DEF RegistryStep, Registry!Next
  <1> QED BY <1>3, <1>4, <1>5

\* An error of the API server refines to a request that fails, or that finds
\* no app.
LEMMA ApiFailsRefines ==
    ASSUME TypeOK, NEW r \in Requests, InFlight(r), NEW exists, ApiFails(r, exists),
           \/ exists
           \/ job[r].op \in {"addr", "output"}
           \/ /\ job[r].op \in {"start", "stop", "delete", "status"}
              /\ job[r].id \notin deployments
           \/ /\ job[r].op = "delete"
              /\ \E s \in Requests \ {r} : Deletes(s, job[r].id)
    PROVE  RegistryStep
  <1>1. UNCHANGED Apps
    BY AppsUnchanged DEF ApiFails, clusterVars, objectVars
  <1>2. CASE Finish(r, "internal")
    BY <1>1, <1>2, FinishCloses, FailRefines
  <1>3. CASE ~exists /\ Finish(r, "not_found")
    BY <1>1, <1>3, FinishCloses, NotFoundRefines
  <1> QED BY <1>2, <1>3 DEF ApiFails, Fails

\* A request that fails leaves the apps as they are.
LEMMA FailsRefines ==
    ASSUME TypeOK, NEW r \in Requests, InFlight(r), Fails(r) \/ ReplyLost(r),
           UNCHANGED <<deployments, template, replicas>>
    PROVE  RegistryStep
  BY FinishCloses, FailRefines, AppsUnchanged DEF Fails, ReplyLost

\* An answer that reached the client, or was lost, tells of the effect.
LEMMA FinishAnswers ==
    ASSUME TypeOK, NEW r \in Requests, InFlight(r), NEW told, Finish(r, told) \/ ReplyLost(r)
    PROVE  Registry!Answer(r, told)
  BY FinishCloses DEF ReplyLost, Fails, Registry!Answer

LEMMA ContinueRefines ==
    ASSUME TypeOK, NEW r \in Requests, InFlight(r), NEW place, NEW maps, NEW pods,
           place \notin {"idle", "done"}, Continue(r, place, maps, pods),
           UNCHANGED <<deployments, template, replicas>>
    PROVE  RegistryStep
  <1>1. UNCHANGED Apps
    BY AppsUnchanged
  <1>2. CASE Registry!Close(r, "internal")
    BY <1>1, <1>2, FailRefines
  <1>3. CASE UNCHANGED <<[q \in Requests |-> AskedOf(job[q])], reply,
                         {q \in Requests : InFlight(q)}>>
    BY <1>1, <1>3 DEF RegistryStep, Registry!vars, Apps
  <1> QED BY <1>2, <1>3, ContinueCloses

-----------------------------------------------------------------------------
(***************************************************************************)
(* The steps that refine to an operation of the registry.                  *)
(***************************************************************************)

LEMMA CreateRefines ==
    ASSUME TypeOK, Progress, NEW r \in Requests, pc[r] = "deployment",
           Finish(r, "ok") \/ ReplyLost(r),
           ApiCreateDeployment(job[r].id, job[r].config, InitialReplicas(job[r].config))
    PROVE  RegistryStep
  <1> DEFINE asked == [q \in Requests |-> AskedOf(job[q])]
  <1>1. /\ r \in {q \in Requests : InFlight(q)} /\ job[r] \in Job /\ job[r].id \in Ids
        /\ job[r].op = "create" /\ job[r].config \in Config
        /\ NeverDeployed(job[r].id) /\ job[r].id \notin deployments
    BY JobType, CreatorIsAlone DEF InFlight, Creates
  <1>2. /\ asked[r].op = "create" /\ asked[r].id = job[r].id
        /\ asked[r].autostart = job[r].config.autostart
    BY <1>1, AskedOfJob
  <1>3. Apps[job[r].id] = "none"
    BY <1>1 DEF Apps, AppState, NeverDeployed
  <1>4. Apps' = [Apps EXCEPT ![job[r].id] =
                    IF job[r].config.autostart THEN "started" ELSE "stopped"]
    <2>1. /\ deployments' = deployments \cup {job[r].id}
          /\ replicas'[job[r].id] = IF job[r].config.autostart THEN 1 ELSE 0
          /\ \A id \in Ids \ {job[r].id} : replicas'[id] = replicas[id] /\ template'[id] = template[id]
      BY <1>1 DEF ApiCreateDeployment, InitialReplicas, TypeOK, ClusterTypeOK
    <2>2. /\ Apps'[job[r].id] = IF job[r].config.autostart THEN "started" ELSE "stopped"
          /\ \A id \in Ids \ {job[r].id} : Apps'[id] = Apps[id]
          /\ DOMAIN Apps = Ids /\ DOMAIN Apps' = Ids
          /\ Apps = [id \in Ids |-> Apps[id]] /\ Apps' = [id \in Ids |-> Apps'[id]]
      BY <1>1, <2>1 DEF Apps, AppState
    <2> QED BY <1>1, <2>2
  <1>5. Registry!Create(r)
    BY <1>1, <1>2, <1>3, <1>4, FinishAnswers DEF Registry!Create, Registry!Become, Apps
  <1> QED BY <1>1, <1>5 DEF RegistryStep, Registry!Next

LEMMA ScaleRefines ==
    ASSUME TypeOK, Progress, NEW r \in Requests, pc[r] = "scale", job[r].id \in deployments,
           \/ Finish(r, IF job[r].op = "start" THEN "ready" ELSE "stopped")
           \/ ReplyLost(r),
           ApiScale(job[r].id, ScaleTo(job[r].op))
    PROVE  RegistryStep
  <1> DEFINE asked == [q \in Requests |-> AskedOf(job[q])]
  <1>1. /\ r \in {q \in Requests : InFlight(q)} /\ job[r] \in Job /\ job[r].id \in Ids
        /\ job[r].op \in {"start", "stop"}
    BY JobType, NobodyCreates DEF InFlight
  <1>2. asked[r].op = job[r].op /\ asked[r].id = job[r].id
    BY <1>1, AskedOfJob
  <1>3. Registry!Live(job[r].id)
    BY <1>1 DEF Registry!Live, AppState
  <1>4. Apps' = [Apps EXCEPT ![job[r].id] =
                    IF job[r].op = "start" THEN "started" ELSE "stopped"]
    <2>1. /\ UNCHANGED <<deployments, template>>
          /\ replicas'[job[r].id] = IF job[r].op = "start" THEN 1 ELSE 0
          /\ \A id \in Ids \ {job[r].id} : replicas'[id] = replicas[id]
      BY <1>1 DEF ApiScale, ScaleTo, TypeOK, ClusterTypeOK
    <2>2. /\ Apps'[job[r].id] = IF job[r].op = "start" THEN "started" ELSE "stopped"
          /\ \A id \in Ids \ {job[r].id} : Apps'[id] = Apps[id]
          /\ DOMAIN Apps = Ids /\ DOMAIN Apps' = Ids
          /\ Apps = [id \in Ids |-> Apps[id]] /\ Apps' = [id \in Ids |-> Apps'[id]]
      BY <1>1, <2>1 DEF Apps, AppState
    <2> QED BY <1>1, <2>2
  <1>5. CASE job[r].op = "start"
    <2>1. Registry!Start(r)
      BY <1>1, <1>2, <1>3, <1>4, <1>5, FinishAnswers DEF Registry!Start, Registry!Become, Apps
    <2> QED BY <1>1, <2>1 DEF RegistryStep, Registry!Next
  <1>6. CASE job[r].op = "stop"
    <2>1. Registry!Stop(r)
      BY <1>1, <1>2, <1>3, <1>4, <1>6, FinishAnswers DEF Registry!Stop, Registry!Become, Apps
    <2> QED BY <1>1, <2>1 DEF RegistryStep, Registry!Next
  <1> QED BY <1>1, <1>5, <1>6

LEMMA DeleteRefines ==
    ASSUME TypeOK, Progress, NEW r \in Requests, pc[r] = "dropdeployment",
           job[r].id \in deployments, Finish(r, "ok") \/ ReplyLost(r),
           ApiDeleteDeployment(job[r].id)
    PROVE  RegistryStep
  <1> DEFINE asked == [q \in Requests |-> AskedOf(job[q])]
  <1>1. /\ r \in {q \in Requests : InFlight(q)} /\ job[r] \in Job /\ job[r].id \in Ids
        /\ job[r].op = "delete" /\ ~NeverDeployed(job[r].id)
    BY JobType, NobodyCreates DEF InFlight, Deletes
  <1>2. asked[r].op = "delete" /\ asked[r].id = job[r].id
    BY <1>1, AskedOfJob
  <1>3. Registry!Live(job[r].id)
    BY <1>1 DEF Registry!Live, AppState
  <1>4. Apps' = [Apps EXCEPT ![job[r].id] = "deleted"]
    BY <1>1 DEF Apps, AppState, ApiDeleteDeployment, NeverDeployed
  <1>5. Registry!Delete(r)
    BY <1>1, <1>2, <1>3, <1>4, FinishAnswers DEF Registry!Delete, Registry!Become, Apps
  <1> QED BY <1>1, <1>5 DEF RegistryStep, Registry!Next

LEMMA StatusRefines ==
    ASSUME TypeOK, NEW r \in Requests, InFlight(r), job[r].op = "status",
           job[r].id \in deployments, Finish(r, StatusOf(job[r].id)),
           UNCHANGED <<deployments, template, replicas>>
    PROVE  RegistryStep
  <1> DEFINE asked == [q \in Requests |-> AskedOf(job[q])]
  <1>1. r \in {q \in Requests : InFlight(q)} /\ job[r] \in Job /\ job[r].id \in Ids
    BY JobType DEF InFlight
  <1>2. asked[r].op = "status" /\ asked[r].id = job[r].id
    BY <1>1, AskedOfJob
  <1>3. Registry!Close(r, StatusOf(job[r].id)) /\ UNCHANGED Apps
    BY FinishCloses, AppsUnchanged
  <1>4. \/ Apps[job[r].id] = "stopped" /\ StatusOf(job[r].id) = "stopped"
        \/ Apps[job[r].id] = "started" /\ StatusOf(job[r].id) \in {"ready", "not_ready"}
    BY <1>1 DEF Apps, AppState, StatusOf, TypeOK, ClusterTypeOK
  <1>5. Registry!Status(r)
    BY <1>1, <1>2, <1>3, <1>4 DEF Registry!Status, Apps
  <1> QED BY <1>1, <1>5 DEF RegistryStep, Registry!Next

\* Address and output.
LEMMA LookRefines ==
    ASSUME TypeOK, NEW r \in Requests, InFlight(r), job[r].op \in {"addr", "output"},
           NEW told \in {"ok", "invalid_index"}, Finish(r, told),
           UNCHANGED <<deployments, template, replicas>>
    PROVE  RegistryStep
  <1>1. r \in {q \in Requests : InFlight(q)} /\ job[r] \in Job
    BY JobType DEF InFlight
  <1>2. [q \in Requests |-> AskedOf(job[q])][r].op \in {"addr", "output"}
    BY <1>1, AskedOfJob
  <1>3. Registry!Look(r)
    BY <1>2, FinishCloses, AppsUnchanged DEF Registry!Look, Apps
  <1> QED BY <1>1, <1>3 DEF RegistryStep, Registry!Next

-----------------------------------------------------------------------------
(***************************************************************************)
(* The steps of the handlers, and what happens from outside.               *)
(***************************************************************************)

LEMMA StepRefines ==
    ASSUME TypeOK, Progress, MetAnother, NEW r \in Requests, Step(r)
    PROVE  RegistryStep
  <1> USE DEF clusterVars, objectVars
  <1>1. CASE CreateConfigMap(r)
    <2>1. InFlight(r)
      BY <1>1 DEF CreateConfigMap, InFlight
    <2>2. CASE ApiFails(r, TRUE)
      BY <2>1, <2>2, ApiFailsRefines
    <2>3. ASSUME NEW m \in todo[r], ApiCreateConfigMap(m),
                 \/ Continue(r, IF todo[r] = {m} THEN "service" ELSE "configmap", todo[r] \ {m}, {})
                 \/ ReplyLost(r)
          PROVE  RegistryStep
      BY <2>1, <2>3, ContinueRefines, FailsRefines DEF ApiCreateConfigMap
    <2> QED BY <1>1, <2>2, <2>3 DEF CreateConfigMap
  <1>2. CASE CreateService(r)
    <2>1. InFlight(r)
      BY <1>2 DEF CreateService, InFlight
    <2>2. CASE ApiFails(r, TRUE)
      BY <2>1, <2>2, ApiFailsRefines
    <2>3. CASE /\ ApiCreateService(job[r].id)
               /\ Continue(r, "deployment", {}, {}) \/ ReplyLost(r)
      BY <2>1, <2>3, ContinueRefines, FailsRefines DEF ApiCreateService
    <2> QED BY <1>2, <2>2, <2>3 DEF CreateService
  <1>3. CASE CreateDeployment(r)
    <2>1. InFlight(r)
      BY <1>3 DEF CreateDeployment, InFlight
    <2>2. CASE ApiFails(r, TRUE)
      BY <2>1, <2>2, ApiFailsRefines
    <2> QED BY <1>3, <2>2, CreateRefines DEF CreateDeployment
  <1>4. CASE FindDeployment(r)
    <2>1. InFlight(r) /\ job[r].op \in {"start", "stop", "delete", "status"}
      BY <1>4 DEF FindDeployment, InFlight, Progress, InPlace
    <2>2. CASE ApiFails(r, job[r].id \in deployments)
      BY <2>1, <2>2, ApiFailsRefines
    <2>3. CASE job[r].id \in deployments /\ AfterFound(r) /\ UNCHANGED <<clusterVars, binding>>
      <3>1. CASE job[r].op = "status"
        BY <2>1, <2>3, <3>1, StatusRefines DEF AfterFound
      <3>2. CASE job[r].op # "status"
        <4>1. Continue(r, "listmaps", {}, {}) \/ Continue(r, "scale", {}, {})
          BY <2>1, <2>3, <3>2 DEF AfterFound
        <4> QED BY <2>1, <2>3, <4>1, ContinueRefines
      <3> QED BY <3>1, <3>2
    <2> QED BY <1>4, <2>2, <2>3 DEF FindDeployment
  <1>5. CASE Scale(r)
    <2>1. InFlight(r) /\ job[r].op \in {"start", "stop"}
      BY <1>5, NobodyCreates DEF Scale, InFlight
    <2>2. CASE ApiFails(r, job[r].id \in deployments)
      BY <2>1, <2>2, ApiFailsRefines
    <2> QED BY <1>5, <2>2, ScaleRefines DEF Scale
  <1>6. CASE ListConfigMaps(r)
    <2>1. InFlight(r)
      BY <1>6 DEF ListConfigMaps, InFlight
    <2>2. CASE ApiFails(r, TRUE)
      BY <2>1, <2>2, ApiFailsRefines
    <2>3. CASE Continue(r, IF ConfigMapsOf(job[r].id) = {} THEN "dropservice" ELSE "dropmaps",
                        ConfigMapsOf(job[r].id), {}) /\ UNCHANGED <<clusterVars, binding>>
      BY <2>1, <2>3, ContinueRefines
    <2> QED BY <1>6, <2>2, <2>3 DEF ListConfigMaps
  <1>7. CASE DropConfigMap(r)
    <2>1. InFlight(r) /\ job[r].op = "delete"
      BY <1>7, NobodyCreates DEF DropConfigMap, InFlight, Deletes
    <2>2. ASSUME NEW m \in todo[r], ApiFails(r, m \in configMaps)
          PROVE  RegistryStep
      <3>1. m \notin configMaps => \E s \in Requests \ {r} : Deletes(s, job[r].id)
        BY <1>7 DEF MetAnother, MapGone, DropConfigMap
      <3> QED BY <2>1, <2>2, <3>1, ApiFailsRefines
    <2>3. ASSUME NEW m \in todo[r], ApiDeleteConfigMap(m),
                 \/ Continue(r, IF todo[r] = {m} THEN "dropservice" ELSE "dropmaps", todo[r] \ {m}, {})
                 \/ ReplyLost(r)
          PROVE  RegistryStep
      BY <2>1, <2>3, ContinueRefines, FailsRefines DEF ApiDeleteConfigMap
    <2> QED BY <1>7, <2>2, <2>3 DEF DropConfigMap
  <1>8. CASE DropService(r)
    <2>1. InFlight(r) /\ job[r].op = "delete" /\ job[r].id \in Ids
      BY <1>8, NobodyCreates DEF DropService, InFlight, Deletes
    <2>2. CASE ApiFails(r, job[r].id \in services)
      <3>1. job[r].id \in deployments \ services =>
                \E s \in Requests \ {r} : Deletes(s, job[r].id)
        BY <1>8 DEF MetAnother, ServiceGone, DropService
      <3> QED BY <2>1, <2>2, <3>1, ApiFailsRefines
    <2>3. CASE /\ ApiDeleteService(job[r].id)
               /\ Continue(r, "dropdeployment", {}, {}) \/ ReplyLost(r)
      BY <2>1, <2>3, ContinueRefines, FailsRefines DEF ApiDeleteService
    <2> QED BY <1>8, <2>2, <2>3 DEF DropService
  <1>9. CASE DropDeployment(r)
    <2>1. InFlight(r) /\ job[r].op = "delete"
      BY <1>9, NobodyCreates DEF DropDeployment, InFlight, Deletes
    <2>2. CASE ApiFails(r, job[r].id \in deployments)
      BY <2>1, <2>2, ApiFailsRefines
    <2> QED BY <1>9, <2>2, DeleteRefines DEF DropDeployment
  <1>10. CASE ListServices(r)
    <2>1. InFlight(r) /\ job[r].op \in {"addr", "output"}
      BY <1>10 DEF ListServices, InFlight, Progress, InPlace
    <2>2. CASE ApiFails(r, job[r].id \in services)
      BY <2>1, <2>2, ApiFailsRefines
    <2> QED BY <1>10, <2>1, <2>2, LookRefines DEF ListServices
  <1>11. CASE ListPods(r)
    <2>1. InFlight(r) /\ job[r].op \in {"addr", "output"}
      BY <1>11 DEF ListPods, InFlight, Progress, InPlace
    <2>2. CASE ApiFails(r, PodsOf(job[r].id) # {})
      BY <2>1, <2>2, ApiFailsRefines
    <2>3. ASSUME NEW p, UNCHANGED <<clusterVars, binding>>,
                 Continue(r, "exec", {}, {p}) \/ Finish(r, "invalid_index")
          PROVE  RegistryStep
      BY <2>1, <2>3, ContinueRefines, LookRefines
    <2> QED BY <1>11, <2>2, <2>3 DEF ListPods
  <1>12. CASE Exec(r)
    <2>1. InFlight(r) /\ job[r].op \in {"addr", "output"}
      BY <1>12 DEF Exec, InFlight, Progress, InPlace
    <2>2. UNCHANGED <<deployments, template, replicas>>
      BY <1>12 DEF Exec
    <2> QED BY <1>12, <2>1, <2>2, ContinueRefines, FailsRefines DEF Exec
  <1>13. CASE Settle(r)
    <2>1. InFlight(r) /\ Finish(r, "internal") /\ UNCHANGED Apps
      BY <1>13, AppsUnchanged DEF Settle, Finish, TypeOK
    <2> QED BY <2>1, FinishCloses, FailRefines
  <1> QED BY <1>1, <1>2, <1>3, <1>4, <1>5, <1>6, <1>7, <1>8, <1>9, <1>10, <1>11, <1>12, <1>13
          DEF Step

LEMMA ReadOutputRefines ==
    ASSUME TypeOK, Progress, NEW r \in Requests, ReadOutput(r)
    PROVE  RegistryStep
  <1>1. InFlight(r) /\ job[r].op \in {"addr", "output"}
    BY DEF ReadOutput, InFlight, Progress, InPlace
  <1>2. UNCHANGED <<deployments, template, replicas>>
    BY DEF ReadOutput, clusterVars, objectVars
  <1> QED BY <1>1, <1>2, LookRefines, FailsRefines DEF ReadOutput

LEMMA ArriveRefines ==
    ASSUME TypeOK, NEW r \in Requests, Arrive(r)
    PROVE  RegistryStep
  <1>1. ASSUME NEW j \in Job, NEW place, NEW maps, Accept(r, j, place, maps),
               place \notin {"idle", "done"}, j.op = "create" => ~Drawn(j.id)
        PROVE  RegistryStep
    <2> DEFINE asked == [q \in Requests |-> AskedOf(job[q])]
    <2>1. /\ pc[r] = "idle" /\ pc' = [pc EXCEPT ![r] = place]
          /\ job' = [job EXCEPT ![r] = j]
          /\ UNCHANGED <<deployments, template, replicas, reply>>
      BY <1>1 DEF Accept, clusterVars, objectVars
    <2>2. \A s \in Requests : pc[s] = "idle" => job[s] = NoJob
      BY DEF TypeOK
    <2>3. \A s \in Requests : asked[s] # NoJob => pc[s] # "idle" /\ job[s] \in Job
      BY <2>2 DEF TypeOK, AskedOf
    <2>4. asked[r] = NoJob
      BY <2>1, <2>2 DEF AskedOf
    <2>5. ASSUME j.op = "create", NEW s \in Requests, asked[s] # NoJob, asked[s].op = "create"
          PROVE  asked[s].id # j.id
      BY <1>1, <2>3, <2>5, AskedOfJob DEF Drawn
    <2>6. asked' = [asked EXCEPT ![r] = AskedOf(j)]
      BY <2>1 DEF TypeOK
    <2>7. {q \in Requests : InFlight(q)}' = {q \in Requests : InFlight(q)} \cup {r}
      BY <1>1, <2>1 DEF TypeOK, InFlight
    <2>8. UNCHANGED Apps
      BY <2>1, AppsUnchanged
    <2>9. Registry!Ask(r, AskedOf(j))
      BY <2>1, <2>4, <2>5, <2>6, <2>7, <2>8, AskedOfJob DEF Registry!Ask, Apps
    <2> QED BY <2>9, AskedOfJob DEF RegistryStep, Registry!Next
  <1>2. ASSUME NEW id \in Ids, NEW config \in Configs, BeginCreate(r, id, config)
        PROVE  RegistryStep
    <2>1. [op |-> "create", id |-> id, config |-> config] \in Job
      BY RequestAssumption DEF Job
    <2> QED BY <1>1, <1>2, <2>1 DEF BeginCreate
  <1>3. ASSUME NEW id \in Ids, NEW op \in Ops, BeginFind(r, op, id)
        PROVE  RegistryStep
    <2>1. [op |-> op, id |-> id] \in Job /\ op # "create"
      BY <1>3 DEF Job, Operation, BeginFind
    <2> QED BY <1>1, <1>3, <2>1 DEF BeginFind
  <1>4. ASSUME NEW id \in Ids, BeginAddr(r, id)
        PROVE  RegistryStep
    <2>1. [op |-> "addr", id |-> id] \in Job
      BY DEF Job, Operation
    <2> QED BY <1>1, <1>4, <2>1 DEF BeginAddr
  <1>5. ASSUME NEW id \in Ids, BeginOutput(r, id)
        PROVE  RegistryStep
    <2>1. \A i \in 0 .. MaxContainers : [op |-> "output", id |-> id, index |-> i] \in Job
      BY DEF Job, Operation
    <2> QED BY <1>1, <1>5, <2>1 DEF BeginOutput
  <1> QED BY <1>2, <1>3, <1>4, <1>5 DEF Arrive

LEMMA NextRefines ==
    ASSUME TypeOK, Progress, MetAnother, [Next]_vars
    PROVE  RegistryStep
  <1>1. ASSUME NEW r \in Requests, Abandon(r)
        PROVE  RegistryStep
    <2>1. /\ r \in {q \in Requests : InFlight(q)}
          /\ reply' = [reply EXCEPT ![r] = "gone"]
          /\ UNCHANGED <<deployments, template, replicas, pc, job>>
      BY <1>1 DEF Abandon, clusterVars, objectVars
    <2>2. Registry!Leave(r)
      BY <2>1, AppsUnchanged DEF Registry!Leave, Apps, InFlight
    <2> QED BY <2>1, <2>2 DEF RegistryStep, Registry!Next
  <1>2. CASE UNCHANGED <<objectVars, requestVars>>
    <2>1. UNCHANGED <<deployments, template, replicas, pc, job, reply>>
      BY <1>2 DEF objectVars, requestVars
    <2> QED BY <2>1, AppsUnchanged DEF RegistryStep, Registry!vars, Apps, InFlight
  <1>3. CASE ClusterStep /\ UNCHANGED requestVars
    BY <1>2, <1>3
       DEF ClusterStep, CreatePod, UpdateStatus, TerminatePod, StartPod, ReapPod, CrashPod
  <1>4. CASE UNCHANGED vars
    BY <1>2, <1>4 DEF vars, objectVars, requestVars
  <1> QED BY <1>1, <1>3, <1>4, ArriveRefines, StepRefines, ReadOutputRefines DEF Next, Terminated

\* Every behaviour of the Kubernetes backend is one of the registry of the
\* trait: each operation has its effect in one API call, and its answer is
\* that of the moment of the call (backend.rs:18-52, kubernetes.rs:521-597).
THEOREM KubernetesImplementsRegistry == Spec => ImplementsRegistry
  <1>1. Init => Registry!Init
    <2>1. SUFFICES ASSUME Init PROVE Registry!Init
      OBVIOUS
    <2>2. /\ [id \in Ids |-> AppState(id)] = [id \in Ids |-> "none"]
          /\ [r \in Requests |-> AskedOf(job[r])] = [r \in Requests |-> NoJob]
          /\ {r \in Requests : InFlight(r)} = {}
          /\ reply = [r \in Requests |-> "none"]
      BY <2>1 DEF Init, ClusterInit, AppState, AskedOf, InFlight
    <2> QED BY <2>2 DEF Registry!Init
  <1>2. IInv /\ MetAnother /\ [Next]_vars => [Registry!Next]_(Registry!vars)
    BY NextRefines DEF IInv, RegistryStep
  <1> QED BY <1>1, <1>2, InductiveInvariant, MetAnotherHolds, PTL
          DEF Spec, ImplementsRegistry, Registry!Spec

=============================================================================
