---------------------- MODULE KubernetesBackendProofs ----------------------
(***************************************************************************)
(* What holds of KubernetesBackend for any number of requests, apps,       *)
(* containers and pods, and under every combination of faults.             *)
(***************************************************************************)
EXTENDS KubernetesBackend, TLAPS

-----------------------------------------------------------------------------
(***************************************************************************)
(* Type correctness.                                                       *)
(***************************************************************************)

\* Where a handler of each operation may be.
InPlace ==
  /\ \A r \in Requests : pc[r] = "idle" => reply[r] = "none"
  /\ \A r \in Requests : pc[r] \notin {"idle", "done"} =>
        \/ job[r].op = "create" /\ pc[r] \in {"configmap", "service", "deployment"}
        \/ job[r].op \in {"start", "stop"} /\ pc[r] \in {"find", "scale"}
        \/ job[r].op = "delete" /\ pc[r] \in {"find", "listmaps", "dropmaps", "dropservice",
                                            "dropdeployment"}
        \/ job[r].op = "status" /\ pc[r] = "find"
        \/ job[r].op = "addr" /\ pc[r] = "listservices"
        \/ job[r].op = "output" /\ pc[r] \in {"listpods", "exec", "read"}

\* The part of TypeOK that a request's own bookkeeping can break.
RequestTypeOK ==
    /\ pc \in [Requests -> Place]
    /\ job \in [Requests -> Job \cup {NoJob}]
    /\ todo \in [Requests -> SUBSET ConfigMap]
    /\ picked \in [Requests -> SUBSET Pod]
    /\ reply \in [Requests -> Answer]
    /\ \A r \in Requests : pc[r] # "idle" <=> job[r] \in Job

\* An answered request has a well-formed answer and nothing left to do.
LEMMA FinishType ==
    ASSUME TypeOK, NEW r \in Requests, pc[r] # "idle",
           NEW answer \in Answer, Finish(r, answer)
    PROVE  RequestTypeOK'
  BY DEF TypeOK, RequestTypeOK, Finish, Place, Answer

\* A handler that moves on keeps the request well-formed.
LEMMA ContinueType ==
    ASSUME TypeOK, NEW r \in Requests, pc[r] # "idle",
           NEW place \in Place \ {"idle"}, NEW maps \in SUBSET ConfigMap,
           NEW pods \in SUBSET Pod, Continue(r, place, maps, pods)
    PROVE  RequestTypeOK'
  <1>1. CASE reply[r] = "gone"
    BY <1>1, FinishType DEF Continue, Answer
  <1>2. CASE reply[r] # "gone"
    BY <1>2 DEF Continue, TypeOK, RequestTypeOK
  <1> QED BY <1>1, <1>2

LEMMA ClusterUnchangedType ==
    ASSUME TypeOK, UNCHANGED clusterVars
    PROVE  ClusterTypeOK'
  BY DEF TypeOK, ClusterTypeOK, clusterVars, objectVars

\* Every call to the API server keeps its objects well-formed.
LEMMA ApiType ==
    ASSUME TypeOK,
           \/ \E m \in ConfigMap : ApiCreateConfigMap(m)
           \/ \E m : ApiDeleteConfigMap(m)
           \/ \E id \in Ids : ApiCreateService(id)
           \/ \E id : ApiDeleteService(id)
           \/ \E id \in Ids, config \in Config, n \in 0 .. 1 :
                ApiCreateDeployment(id, config, n)
           \/ \E id : ApiDeleteDeployment(id)
           \/ \E id \in Ids, n \in 0 .. 1 : ApiScale(id, n)
    PROVE  ClusterTypeOK'
  BY DEF TypeOK, ClusterTypeOK, ApiCreateConfigMap, ApiDeleteConfigMap,
         ApiCreateService, ApiDeleteService, ApiCreateDeployment,
         ApiDeleteDeployment, ApiScale

LEMMA FailsType ==
    ASSUME TypeOK, NEW r \in Requests, pc[r] # "idle", Fails(r)
    PROVE  RequestTypeOK' /\ binding' \in [Requests -> BOOLEAN]
  <1>1. RequestTypeOK'
    BY FinishType DEF Fails, Answer
  <1>2. binding' \in [Requests -> BOOLEAN]
    BY DEF TypeOK, Fails
  <1> QED BY <1>1, <1>2

LEMMA ApiFailsType ==
    ASSUME TypeOK, NEW r \in Requests, pc[r] # "idle",
           NEW exists, ApiFails(r, exists)
    PROVE  TypeOK'
  <1>1. RequestTypeOK'
    BY FinishType, FailsType DEF ApiFails, Answer
  <1>2. ClusterTypeOK'
    BY ClusterUnchangedType DEF ApiFails
  <1>3. binding' \in [Requests -> BOOLEAN]
    BY FailsType DEF TypeOK, ApiFails
  <1> QED BY <1>1, <1>2, <1>3 DEF TypeOK, RequestTypeOK

\* A call that was carried out: its reply moves the handler on, or is lost.
LEMMA CalledType ==
    ASSUME TypeOK, NEW r \in Requests, pc[r] # "idle", ClusterTypeOK',
           (RequestTypeOK' /\ UNCHANGED binding) \/ ReplyLost(r)
    PROVE  TypeOK'
  BY FailsType DEF ReplyLost, TypeOK, RequestTypeOK

LEMMA InitType == Init => TypeOK
  BY RequestAssumption, ClusterAssumption
  DEF Init, ClusterInit, TypeOK, ClusterTypeOK, Place, Answer, PodPhase

LEMMA AcceptType ==
    ASSUME TypeOK, NEW r \in Requests, NEW j \in Job,
           NEW place \in Place \ {"idle"}, NEW maps \in SUBSET ConfigMap,
           Accept(r, j, place, maps)
    PROVE  TypeOK'
  <1>1. RequestTypeOK'
    BY DEF TypeOK, RequestTypeOK, Accept
  <1>2. binding' \in [Requests -> BOOLEAN]
    <2>1. \A s \in Requests : binding[s] \in BOOLEAN
      BY DEF TypeOK
    <2> QED BY <2>1 DEF Accept
  <1>3. ClusterTypeOK'
    BY ClusterUnchangedType DEF Accept
  <1> QED BY <1>1, <1>2, <1>3 DEF TypeOK, RequestTypeOK

LEMMA ArriveType ==
    ASSUME TypeOK, NEW r \in Requests, Arrive(r)
    PROVE  TypeOK'
  <1>1. ASSUME NEW id \in Ids, NEW config \in Configs, BeginCreate(r, id, config)
        PROVE  TypeOK'
    <2>1. [op |-> "create", id |-> id, config |-> config] \in Job
      BY RequestAssumption DEF Job
    <2>2. Plan(id, config) \in SUBSET ConfigMap
      BY DEF Plan
    <2> QED BY <1>1, <2>1, <2>2, AcceptType DEF BeginCreate, Place
  <1>2. ASSUME NEW id \in Ids, NEW op \in Ops, BeginFind(r, op, id)
        PROVE  TypeOK'
    <2>1. [op |-> op, id |-> id] \in Job
      BY <1>2 DEF Job, Operation, BeginFind
    <2> QED BY <1>2, <2>1, AcceptType DEF BeginFind, Place
  <1>3. ASSUME NEW id \in Ids, BeginAddr(r, id)
        PROVE  TypeOK'
    <2>1. [op |-> "addr", id |-> id] \in Job
      BY DEF Job, Operation
    <2> QED BY <1>3, <2>1, AcceptType DEF BeginAddr, Place
  <1>4. ASSUME NEW id \in Ids, BeginOutput(r, id)
        PROVE  TypeOK'
    <2>1. \A i \in 0 .. MaxContainers : [op |-> "output", id |-> id, index |-> i] \in Job
      BY DEF Job, Operation
    <2> QED BY <1>4, <2>1, AcceptType DEF BeginOutput, Place
  <1> QED BY <1>1, <1>2, <1>3, <1>4 DEF Arrive

\* What the job of a request that was made is made of.
LEMMA JobType ==
    ASSUME TypeOK, NEW r \in Requests, pc[r] # "idle"
    PROVE  /\ job[r] \in Job
           /\ job[r].id \in Ids
           /\ job[r].op \in Operation
           /\ job[r].op = "create" => job[r].config \in Config
  <1>1. job[r] \in Job
    BY DEF TypeOK
  <1> QED BY <1>1 DEF Job, Operation

LEMMA CreationStepType ==
    ASSUME TypeOK, NEW r \in Requests, InPlace,
           CreateConfigMap(r) \/ CreateService(r) \/ CreateDeployment(r)
    PROVE  TypeOK'
  <1>1. pc[r] # "idle" /\ job[r].id \in Ids
    BY JobType DEF CreateConfigMap, CreateService, CreateDeployment
  <1>2. CASE \E exists : ApiFails(r, exists)
    BY <1>1, <1>2, ApiFailsType
  <1>3. ASSUME NEW m \in todo[r], ApiCreateConfigMap(m), NEW place \in {"service", "configmap"},
               (Continue(r, place, todo[r] \ {m}, {}) /\ UNCHANGED binding) \/ ReplyLost(r)
        PROVE  TypeOK'
    <2>1. m \in ConfigMap /\ todo[r] \ {m} \in SUBSET ConfigMap
      BY DEF TypeOK
    <2>2. Continue(r, place, todo[r] \ {m}, {}) => RequestTypeOK'
      BY <1>1, <2>1, ContinueType DEF Place
    <2>3. ClusterTypeOK'
      BY <1>3, <2>1, ApiType
    <2> QED BY <1>1, <1>3, <2>2, <2>3, CalledType
  <1>4. CASE /\ ApiCreateService(job[r].id)
             /\ (Continue(r, "deployment", {}, {}) /\ UNCHANGED binding) \/ ReplyLost(r)
    <2>1. Continue(r, "deployment", {}, {}) => RequestTypeOK'
      BY <1>1, ContinueType DEF Place
    <2>2. ClusterTypeOK'
      BY <1>1, <1>4, ApiType
    <2> QED BY <1>1, <1>4, <2>1, <2>2, CalledType
  <1>5. CASE /\ pc[r] = "deployment"
             /\ ApiCreateDeployment(job[r].id, job[r].config, InitialReplicas(job[r].config))
             /\ (Finish(r, "ok") /\ UNCHANGED binding) \/ ReplyLost(r)
    <2>1. job[r].config \in Config
      BY <1>1, <1>5, JobType DEF InPlace
    <2>2. InitialReplicas(job[r].config) \in 0 .. 1
      BY DEF InitialReplicas
    <2>3. Finish(r, "ok") => RequestTypeOK'
      BY <1>1, FinishType DEF Answer
    <2>4. ClusterTypeOK'
      BY <1>1, <1>5, <2>1, <2>2, ApiType
    <2> QED BY <1>1, <1>5, <2>3, <2>4, CalledType
  <1> QED BY <1>2, <1>3, <1>4, <1>5 DEF CreateConfigMap, CreateService, CreateDeployment

LEMMA FoundStepType ==
    ASSUME TypeOK, NEW r \in Requests, FindDeployment(r) \/ Scale(r)
    PROVE  TypeOK'
  <1>1. pc[r] # "idle" /\ job[r].id \in Ids
    BY JobType DEF FindDeployment, Scale
  <1>2. CASE \E exists : ApiFails(r, exists)
    BY <1>1, <1>2, ApiFailsType
  <1>3. CASE AfterFound(r) /\ UNCHANGED <<clusterVars, binding>>
    <2>1. StatusOf(job[r].id) \in Answer
      BY DEF StatusOf, Answer
    <2>2. RequestTypeOK'
      BY <1>1, <1>3, <2>1, FinishType, ContinueType DEF AfterFound, Place
    <2>3. ClusterTypeOK'
      BY <1>3, ClusterUnchangedType
    <2> QED BY <1>3, <2>2, <2>3 DEF TypeOK, RequestTypeOK
  <1>4. CASE /\ ApiScale(job[r].id, ScaleTo(job[r].op))
             /\ \/ /\ Finish(r, IF job[r].op = "start" THEN "ready" ELSE "stopped")
                   /\ UNCHANGED binding
                \/ ReplyLost(r)
    <2>1. ScaleTo(job[r].op) \in 0 .. 1
      BY DEF ScaleTo
    <2>2. Finish(r, IF job[r].op = "start" THEN "ready" ELSE "stopped") => RequestTypeOK'
      BY <1>1, FinishType DEF Answer
    <2>3. ClusterTypeOK'
      BY <1>1, <1>4, <2>1, ApiType
    <2> QED BY <1>1, <1>4, <2>2, <2>3, CalledType
  <1> QED BY <1>2, <1>3, <1>4 DEF FindDeployment, Scale

LEMMA DeletionStepType ==
    ASSUME TypeOK, NEW r \in Requests,
           \/ ListConfigMaps(r) \/ DropConfigMap(r)
           \/ DropService(r) \/ DropDeployment(r)
    PROVE  TypeOK'
  <1>1. pc[r] # "idle"
    BY DEF ListConfigMaps, DropConfigMap, DropService, DropDeployment
  <1>2. CASE \E exists : ApiFails(r, exists)
    BY <1>1, <1>2, ApiFailsType
  <1>3. ASSUME NEW place \in Place \ {"idle"}, Continue(r, place, ConfigMapsOf(job[r].id), {}),
               UNCHANGED <<clusterVars, binding>>
        PROVE  TypeOK'
    <2>1. ConfigMapsOf(job[r].id) \in SUBSET ConfigMap
      BY DEF TypeOK, ClusterTypeOK, ConfigMapsOf
    <2>2. RequestTypeOK'
      BY <1>1, <1>3, <2>1, ContinueType
    <2>3. ClusterTypeOK'
      BY <1>3, ClusterUnchangedType
    <2> QED BY <1>3, <2>2, <2>3 DEF TypeOK, RequestTypeOK
  <1>4. ASSUME NEW place \in Place \ {"idle"}, NEW m, ApiDeleteConfigMap(m),
               (Continue(r, place, todo[r] \ {m}, {}) /\ UNCHANGED binding) \/ ReplyLost(r)
        PROVE  TypeOK'
    <2>1. todo[r] \ {m} \in SUBSET ConfigMap
      BY DEF TypeOK
    <2>2. Continue(r, place, todo[r] \ {m}, {}) => RequestTypeOK'
      BY <1>1, <2>1, ContinueType
    <2>3. ClusterTypeOK'
      BY <1>4, ApiType
    <2> QED BY <1>1, <1>4, <2>2, <2>3, CalledType
  <1>5. CASE /\ ApiDeleteService(job[r].id)
             /\ (Continue(r, "dropdeployment", {}, {}) /\ UNCHANGED binding) \/ ReplyLost(r)
    <2>1. Continue(r, "dropdeployment", {}, {}) => RequestTypeOK'
      BY <1>1, ContinueType DEF Place
    <2>2. ClusterTypeOK'
      BY <1>5, ApiType
    <2> QED BY <1>1, <1>5, <2>1, <2>2, CalledType
  <1>6. CASE /\ ApiDeleteDeployment(job[r].id)
             /\ (Finish(r, "ok") /\ UNCHANGED binding) \/ ReplyLost(r)
    <2>1. Finish(r, "ok") => RequestTypeOK'
      BY <1>1, FinishType DEF Answer
    <2>2. ClusterTypeOK'
      BY <1>6, ApiType
    <2> QED BY <1>1, <1>6, <2>1, <2>2, CalledType
  <1> QED BY <1>2, <1>3, <1>4, <1>5, <1>6
          DEF ListConfigMaps, DropConfigMap, DropService, DropDeployment, Place

LEMMA ReadStepType ==
    ASSUME TypeOK, NEW r \in Requests,
           ListServices(r) \/ ListPods(r) \/ Exec(r) \/ ReadOutput(r) \/ Settle(r)
    PROVE  TypeOK'
  <1>1. pc[r] # "idle"
    BY DEF ListServices, ListPods, Exec, ReadOutput, Settle, InFlight
  <1>2. CASE \E exists : ApiFails(r, exists)
    BY <1>1, <1>2, ApiFailsType
  <1>3. ASSUME NEW answer \in Answer, Finish(r, answer), UNCHANGED <<clusterVars, binding>>
        PROVE  TypeOK'
    BY <1>1, <1>3, FinishType, ClusterUnchangedType DEF TypeOK, RequestTypeOK
  <1>4. ASSUME NEW p \in Pod, Continue(r, "exec", {}, {p}), UNCHANGED <<clusterVars, binding>>
        PROVE  TypeOK'
    <2>1. {p} \in SUBSET Pod /\ {} \in SUBSET ConfigMap /\ "exec" \in Place \ {"idle"}
      BY DEF Place
    <2>2. RequestTypeOK'
      BY <1>1, <1>4, <2>1, ContinueType
    <2> QED BY <1>4, <2>2, ClusterUnchangedType DEF TypeOK, RequestTypeOK
  <1>5. CASE ListPods(r)
    <2>1. ASSUME NEW p \in PodsOf(job[r].id), UNCHANGED <<clusterVars, binding>>,
                 IF job[r].index < template[p.app].count
                 THEN Continue(r, "exec", {}, {p}) ELSE Finish(r, "invalid_index")
          PROVE  TypeOK'
      <3>1. p \in Pod
        BY DEF PodsOf
      <3> QED BY <1>3, <1>4, <2>1, <3>1 DEF Answer
    <2>2. CASE ApiFails(r, PodsOf(job[r].id) # {})
      BY <1>1, <2>2, ApiFailsType
    <2> QED BY <1>5, <2>1, <2>2, Zenon DEF ListPods
  <1>6. CASE Fails(r) /\ UNCHANGED clusterVars
    BY <1>1, <1>6, FailsType, ClusterUnchangedType DEF TypeOK, RequestTypeOK
  <1>7. CASE Continue(r, "read", {}, {}) /\ UNCHANGED <<clusterVars, binding>>
    <2>1. RequestTypeOK'
      BY <1>1, <1>7, ContinueType DEF Place
    <2> QED BY <1>7, <2>1, ClusterUnchangedType DEF TypeOK, RequestTypeOK
  <1>8. CASE Exec(r)
    BY <1>6, <1>7, <1>8 DEF Exec
  <1>9. CASE ReadOutput(r)
    BY <1>3, <1>6, <1>9 DEF ReadOutput, Answer
  <1> QED BY <1>2, <1>3, <1>5, <1>8, <1>9 DEF ListServices, Settle, Answer

LEMMA OutsideStepType ==
    ASSUME TypeOK,
           \/ \E r \in Requests : Abandon(r)
           \/ ClusterStep /\ UNCHANGED requestVars
           \/ UNCHANGED vars
    PROVE  TypeOK'
  <1>1. CASE \E r \in Requests : Abandon(r)
    BY <1>1, ClusterUnchangedType DEF Abandon, TypeOK, InFlight, Answer
  <1>2. CASE UNCHANGED vars
    BY <1>2, ClusterUnchangedType DEF vars, clusterVars, objectVars, TypeOK
  <1>3. CASE ClusterStep /\ UNCHANGED requestVars
    <2>1. UNCHANGED objectVars
      BY <1>3 DEF ClusterStep, CreatePod, UpdateStatus, TerminatePod, StartPod, ReapPod, CrashPod
    <2>2. pod' \in [Pod -> PodPhase] /\ readyReplicas' \in [Ids -> 0 .. 1]
      BY <1>3 DEF ClusterStep, CreatePod, UpdateStatus, TerminatePod, StartPod, ReapPod,
                  CrashPod, TypeOK, ClusterTypeOK, PodPhase
    <2> QED BY <1>3, <2>1, <2>2 DEF requestVars, objectVars, TypeOK, ClusterTypeOK
  <1> QED BY <1>1, <1>2, <1>3

LEMMA NextType ==
    ASSUME TypeOK, InPlace, [Next]_vars
    PROVE  TypeOK'
  BY ArriveType, CreationStepType, FoundStepType, DeletionStepType, ReadStepType,
     OutsideStepType DEF Next, Step, Terminated

-----------------------------------------------------------------------------
(***************************************************************************)
(* The inductive invariant.  The promises of DeployedIsWhole and           *)
(* DeletedLeavesNothing are kept by two orders: create_app makes the       *)
(* Deployment last, and nobody touches an app that never had one;          *)
(* delete_app removes it last, and nobody makes an object again.  That of  *)
(* OneDeleteGoesOn is kept by a third: all deletes take the ConfigMaps in  *)
(* the order of the list, so that the one that took the last object taken  *)
(* finds the rest.                                                         *)
(***************************************************************************)

Creates(r, id) == pc[r] # "idle" /\ job[r].op = "create" /\ job[r].id = id

\* A template, once there, stays.
NeverDeployed(id) == template[id] = NoTemplate

\* An id belongs to one creation, and before that nothing carries it.
CreatedOnce ==
    /\ \A r, s \in Requests, id \in Ids : Creates(r, id) /\ Creates(s, id) => r = s
    /\ \A id \in Ids : (\A r \in Requests : ~Creates(r, id)) =>
          NeverDeployed(id) /\ id \notin services /\ ConfigMapsOf(id) = {}

\* What create_app has made at each of its calls.
CreationProgress ==
    \A r \in Requests : Creates(r, job[r].id) =>
        /\ pc[r] # "done" => NeverDeployed(job[r].id)
        /\ pc[r] = "configmap" =>
              /\ todo[r] \subseteq Plan(job[r].id, job[r].config)
              /\ ConfigMapsOf(job[r].id) = Plan(job[r].id, job[r].config) \ todo[r]
        /\ pc[r] \in {"service", "deployment"} =>
              ConfigMapsOf(job[r].id) = Plan(job[r].id, job[r].config)
        /\ pc[r] = "deployment" => job[r].id \in services

\* The operations that look for the Deployment find none before there was
\* one.
NotFoundBefore ==
    \A r \in Requests :
        /\ pc[r] # "idle"
        /\ job[r].op \in {"start", "stop", "delete"}
        /\ NeverDeployed(job[r].id)
        => pc[r] \in {"find", "done"} /\ reply[r] \notin {"ok", "ready", "stopped"}

\* What delete_app has removed at each of its calls.
DeletionProgress ==
    \A r \in Requests : Deletes(r, job[r].id) =>
        /\ pc[r] = "dropmaps" =>
              /\ ConfigMapsOf(job[r].id) \subseteq todo[r]
              /\ todo[r] \subseteq Plan(job[r].id, template[job[r].id])
        /\ pc[r] \in {"dropservice", "dropdeployment"} => ConfigMapsOf(job[r].id) = {}
        /\ pc[r] = "dropdeployment" => job[r].id \notin services

\* Of a deployed app the ConfigMaps are removed in the order of the list, and
\* the Service after them: what is left is the end of the list.
RemovalInOrder ==
    \A id \in Ids : ~NeverDeployed(id) =>
        /\ ConfigMapsOf(id) \subseteq Plan(id, template[id])
        /\ \A m \in ConfigMapsOf(id), n \in Plan(id, template[id]) :
              ListPlace[m.index] <= ListPlace[n.index] => n \in ConfigMapsOf(id)
        /\ ConfigMapsOf(id) # {} => id \in services

\* While a request that may undo another is under way, the other is not
\* held to its promise.
RivalsUnbind ==
    \A q, r \in Requests :
        InFlight(q) /\ pc[r] # "idle" /\ Undoes(job[q], job[r]) => ~binding[r]

Promises ==
    /\ DeployedIsWhole
    /\ DeletedLeavesNothing
    /\ OneDeleteGoesOn
    /\ ScaledAsAnswered

\* All of the invariant but the types.
Progress ==
    /\ InPlace
    /\ CreatedOnce
    /\ CreationProgress
    /\ NotFoundBefore
    /\ DeletionProgress
    /\ RemovalInOrder
    /\ RivalsUnbind
    /\ Promises

IInv == TypeOK /\ Progress

-----------------------------------------------------------------------------
(***************************************************************************)
(* A step of one handler leaves the others where they are.                 *)
(***************************************************************************)

OnlyMoves(r) ==
    /\ InFlight(r)
    /\ pc'[r] # "idle"
    /\ UNCHANGED job
    /\ binding'[r] => binding[r]
    /\ reply[r] = "gone" => reply'[r] = "gone"
    /\ pc'[r] = "done" \/ reply'[r] = reply[r]
    /\ \A s \in Requests \ {r} :
        pc'[s] = pc[s] /\ todo'[s] = todo[s] /\ reply'[s] = reply[s] /\ binding'[s] = binding[s]

\* r is answered, with no effect that it could be held to.
Ends(r) ==
    /\ OnlyMoves(r)
    /\ UNCHANGED objectVars
    /\ pc'[r] = "done"
    /\ job[r].op \in {"start", "stop", "delete"} => reply'[r] \notin {"ok", "ready", "stopped"}
    /\ FindsTheRest(r) => job[r].id \notin deployments \/ reply'[r] = "gone" \/ ~binding'[r]

\* The call of r was carried out, but r hears no more of it.
BreaksOff(r) ==
    /\ pc'[r] = "done"
    /\ \/ reply'[r] = "gone"
       \/ reply'[r] = "internal" /\ ~binding'[r]

LEMMA FinishMoves ==
    ASSUME TypeOK, NEW r \in Requests, InFlight(r), NEW answer, Finish(r, answer),
           UNCHANGED binding
    PROVE  /\ OnlyMoves(r)
           /\ pc'[r] = "done"
           /\ reply'[r] = IF reply[r] = "gone" THEN "gone" ELSE answer
  BY DEF TypeOK, Finish, OnlyMoves

LEMMA ContinueMoves ==
    ASSUME TypeOK, NEW r \in Requests, InFlight(r), NEW place, NEW maps, NEW pods,
           place # "idle", Continue(r, place, maps, pods), UNCHANGED binding
    PROVE  /\ OnlyMoves(r)
           /\ \/ pc'[r] = place /\ todo'[r] = maps /\ reply'[r] = reply[r] /\ reply[r] # "gone"
              \/ pc'[r] = "done" /\ reply'[r] = "gone"
  <1>1. CASE reply[r] = "gone"
    BY <1>1, FinishMoves DEF Continue
  <1>2. CASE reply[r] # "gone"
    BY <1>2 DEF Continue, TypeOK, OnlyMoves
  <1> QED BY <1>1, <1>2

LEMMA LostMoves ==
    ASSUME TypeOK, NEW r \in Requests, InFlight(r), Fails(r)
    PROVE  OnlyMoves(r) /\ BreaksOff(r)
  BY DEF TypeOK, Fails, Finish, OnlyMoves, BreaksOff

LEMMA ApiFailsEnds ==
    ASSUME TypeOK, NEW r \in Requests, InFlight(r), NEW exists, ApiFails(r, exists),
           FindsTheRest(r) /\ ~exists => job[r].id \notin deployments
    PROVE  Ends(r)
  <1>1. UNCHANGED objectVars
    BY DEF ApiFails, clusterVars
  <1>2. CASE ~exists /\ Finish(r, "not_found") /\ UNCHANGED binding
    BY <1>1, <1>2, FinishMoves DEF Ends
  <1>3. CASE Fails(r)
    BY <1>1, <1>3, LostMoves DEF Ends, BreaksOff
  <1> QED BY <1>2, <1>3 DEF ApiFails

\* The two sides of OneDeleteGoesOn.
Misses(id) == id \notin services \/ ConfigMapsOf(id) # Plan(id, template[id])

Leads(r) == FindsTheRest(r) \/ reply[r] = "gone" \/ ~binding[r]

\* What depends on the handlers alone.
LEMMA MovesKeepHandlers ==
    ASSUME TypeOK, Progress, NEW r \in Requests, OnlyMoves(r)
    PROVE  /\ RivalsUnbind'
           /\ \A s \in Requests, id \in Ids : Creates(s, id)' <=> Creates(s, id)
           /\ \A s \in Requests, id \in Ids : Deletes(s, id)' <=> Deletes(s, id)
           /\ \A s \in Requests : pc[s] # "idle" => pc'[s] # "idle"
  <1>1. \A s \in Requests : /\ InFlight(s)' => InFlight(s)
                            /\ pc'[s] # "idle" <=> pc[s] # "idle"
                            /\ binding'[s] => binding[s]
    BY DEF OnlyMoves, InFlight
  <1>2. job' = job
    BY DEF OnlyMoves
  <1>3. RivalsUnbind'
    BY <1>1, <1>2 DEF Progress, RivalsUnbind, Undoes
  <1> QED BY <1>1, <1>2, <1>3 DEF Creates, Deletes

\* An app goes on being deleted when a step takes nothing of it, and stops
\* no delete that could go on.
LEMMA OthersGoOn ==
    ASSUME TypeOK, Progress, NEW r \in Requests, OnlyMoves(r),
           NEW id \in deployments, Misses(id),
           Deletes(r, id) /\ Leads(r) => Leads(r)',
           ConfigMapsOf(id) \subseteq configMaps',
           id \in services => id \in services'
    PROVE  \E s \in Requests : Deletes(s, id)' /\ Leads(s)'
  <1>1. PICK s \in Requests : Deletes(s, id) /\ Leads(s)
    BY DEF Progress, Promises, OneDeleteGoesOn, Misses, Leads
  <1>2. Deletes(s, id)'
    BY <1>1 DEF OnlyMoves, Deletes
  <1>3. CASE s = r
    BY <1>1, <1>2, <1>3
  <1>4. CASE s # r
    <2>1. UNCHANGED job /\ pc'[s] = pc[s] /\ todo'[s] = todo[s]
          /\ reply'[s] = reply[s] /\ binding'[s] = binding[s]
      BY <1>4 DEF OnlyMoves
    <2>2. ASSUME FindsTheRest(s), pc[s] = "dropmaps"
          PROVE  todo[s] \subseteq configMaps'
      <3>1. job[s].id = id
        BY <1>1 DEF Deletes
      <3>2. todo[s] \subseteq Plan(id, template[id]) /\ todo[s] \subseteq configMaps
        BY <1>1, <2>2, <3>1 DEF Progress, DeletionProgress, FindsTheRest
      <3> QED BY <3>2 DEF Plan, ConfigMapsOf
    <2>3. Leads(s)'
      BY <1>1, <2>1, <2>2 DEF Leads, FindsTheRest, Deletes
    <2> QED BY <1>2, <2>3
  <1> QED BY <1>3, <1>4

LEMMA EndsKeeps ==
    ASSUME TypeOK, Progress, NEW r \in Requests, Ends(r)
    PROVE  Progress'
  <1> USE MovesKeepHandlers DEF Ends
  <1>1. InPlace'
    BY DEF Progress, InPlace, OnlyMoves
  <1>2. CreatedOnce'
    BY DEF Progress, CreatedOnce, ConfigMapsOf, NeverDeployed, objectVars
  <1>3. CreationProgress'
    BY DEF Progress, CreationProgress, OnlyMoves, Creates, ConfigMapsOf, NeverDeployed, objectVars, Plan
  <1>4. NotFoundBefore'
    BY DEF Progress, NotFoundBefore, OnlyMoves, NeverDeployed, objectVars
  <1>5. DeletionProgress'
    BY DEF Progress, DeletionProgress, OnlyMoves, Deletes, ConfigMapsOf, objectVars
  <1>6. DeployedIsWhole'
    BY DEF Progress, Promises, DeployedIsWhole, OnlyMoves, Deletes, ConfigMapsOf, Plan, objectVars
  <1>7. DeletedLeavesNothing'
    BY DEF Progress, Promises, DeletedLeavesNothing, OnlyMoves, Deletes, ConfigMapsOf, objectVars
  <1>8. OneDeleteGoesOn'
    <2>1. SUFFICES ASSUME NEW id \in deployments', Misses(id)'
                   PROVE  \E s \in Requests : Deletes(s, id)' /\ Leads(s)'
      BY DEF OneDeleteGoesOn, Misses, Leads
    <2>2. id \in deployments /\ Misses(id) /\ id \in Ids
      BY <2>1 DEF objectVars, TypeOK, ClusterTypeOK, Misses, ConfigMapsOf, Plan
    <2>3. Deletes(r, id) /\ Leads(r) => Leads(r)'
      BY <2>2 DEF OnlyMoves, Deletes, Leads
    <2> QED BY <2>2, <2>3, OthersGoOn DEF objectVars, ConfigMapsOf
  <1>9. ScaledAsAnswered'
    BY DEF Progress, Promises, ScaledAsAnswered, Promised, OnlyMoves, objectVars
  <1>10. RemovalInOrder'
    BY DEF Progress, RemovalInOrder, ConfigMapsOf, NeverDeployed, Plan, objectVars
  <1> QED BY <1>1, <1>2, <1>3, <1>4, <1>5, <1>6, <1>7, <1>8, <1>9, <1>10 DEF Progress, Promises

-----------------------------------------------------------------------------
(***************************************************************************)
(* The calls of create_app.                                                *)
(***************************************************************************)

\* While create_app is at work, nobody has got further with the app than to
\* look for its Deployment.
LEMMA CreatorIsAlone ==
    ASSUME TypeOK, Progress, NEW r \in Requests,
           pc[r] \in {"configmap", "service", "deployment"}
    PROVE  /\ job[r].id \in Ids
           /\ job[r].config \in Config
           /\ Creates(r, job[r].id)
           /\ NeverDeployed(job[r].id)
           /\ job[r].id \notin deployments
           /\ \A s \in Requests \ {r} : ~Creates(s, job[r].id)
           /\ \A s \in Requests : pc[s] # "idle" /\ job[s].id = job[r].id =>
                /\ job[s].op \in {"start", "stop", "delete"} =>
                      /\ pc[s] \in {"find", "done"}
                      /\ reply[s] \notin {"ok", "ready", "stopped"}
                /\ ~Promised(s, "start", "ready") /\ ~Promised(s, "stop", "stopped")
  <1>1. job[r].id \in Ids /\ job[r].op = "create" /\ job[r].config \in Config
    BY JobType DEF Progress, InPlace
  <1>2. Creates(r, job[r].id)
    BY <1>1 DEF Creates
  <1>3. NeverDeployed(job[r].id)
    BY <1>2 DEF Progress, CreationProgress
  <1>4. job[r].id \notin deployments
    BY <1>1, <1>3, ClusterAssumption DEF TypeOK, ClusterTypeOK, NeverDeployed
  <1>5. \A s \in Requests \ {r} : ~Creates(s, job[r].id)
    BY <1>1, <1>2 DEF Progress, CreatedOnce
  <1>6. \A s \in Requests :
            /\ pc[s] # "idle" /\ job[s].id = job[r].id
            /\ job[s].op \in {"start", "stop", "delete"}
            => /\ pc[s] \in {"find", "done"}
               /\ reply[s] \notin {"ok", "ready", "stopped"}
    BY <1>3 DEF Progress, NotFoundBefore
  <1> QED BY <1>1, <1>2, <1>3, <1>4, <1>5, <1>6 DEF Promised

LEMMA CreateConfigMapKeeps ==
    ASSUME TypeOK, Progress, NEW r \in Requests, pc[r] = "configmap",
           NEW m \in todo[r], ApiCreateConfigMap(m), OnlyMoves(r),
           \/ pc'[r] = "configmap" /\ todo'[r] = todo[r] \ {m}
           \/ pc'[r] = "service" /\ todo[r] = {m}
           \/ BreaksOff(r)
    PROVE  Progress'
  <1> USE MovesKeepHandlers, CreatorIsAlone DEF BreaksOff
  <1>1. m.app = job[r].id /\ m \in ConfigMap
    BY DEF Progress, CreationProgress, Plan
  <1>2. /\ \A id \in Ids : id # job[r].id => ConfigMapsOf(id)' = ConfigMapsOf(id)
        /\ ConfigMapsOf(job[r].id)' = ConfigMapsOf(job[r].id) \cup {m}
    BY <1>1 DEF ConfigMapsOf, ApiCreateConfigMap, OnlyMoves
  <1>3. UNCHANGED <<services, deployments, template, replicas>>
    BY DEF ApiCreateConfigMap
  <1>4. InPlace'
    BY DEF Progress, InPlace, OnlyMoves, Creates
  <1>5. CreatedOnce'
    BY <1>2, <1>3 DEF Progress, CreatedOnce, NeverDeployed
  <1>6. CreationProgress'
    <2>1. ASSUME NEW s \in Requests \ {r}, Creates(s, job[s].id)
          PROVE  job[s].id # job[r].id /\ job[s].id \in Ids
      BY <2>1, JobType DEF Creates
    <2>2. m \in Plan(job[r].id, job[r].config)
      BY DEF Progress, CreationProgress
    <2> QED BY <1>2, <1>3, <2>1, <2>2 DEF Progress, CreationProgress, OnlyMoves, Creates, NeverDeployed, Plan
  <1>7. NotFoundBefore'
    BY <1>3 DEF Progress, NotFoundBefore, OnlyMoves, NeverDeployed, Creates
  <1>8. DeletionProgress'
    BY <1>2, <1>3, JobType DEF Progress, DeletionProgress, OnlyMoves, Deletes, Creates
  <1>9. DeployedIsWhole'
    BY <1>2, <1>3 DEF Progress, Promises, DeployedIsWhole, Plan, TypeOK, ClusterTypeOK
  <1>10. DeletedLeavesNothing'
    BY <1>2, <1>3, JobType DEF Progress, Promises, DeletedLeavesNothing, OnlyMoves, Deletes, Creates
  <1>11. ScaledAsAnswered'
    BY <1>3 DEF Progress, Promises, ScaledAsAnswered, Promised, OnlyMoves, Deletes, Creates
  <1>12. OneDeleteGoesOn'
    <2>1. SUFFICES ASSUME NEW id \in deployments', Misses(id)'
                   PROVE  \E s \in Requests : Deletes(s, id)' /\ Leads(s)'
      BY DEF OneDeleteGoesOn, Misses, Leads
    <2>2. id \in deployments /\ id \in Ids /\ id # job[r].id
      BY <1>3, <2>1 DEF TypeOK, ClusterTypeOK
    <2>3. Misses(id)
      BY <1>2, <1>3, <2>1, <2>2 DEF Misses, Plan
    <2> QED BY <1>2, <1>3, <2>2, <2>3, OthersGoOn DEF Deletes, ConfigMapsOf, ApiCreateConfigMap
  <1>13. RemovalInOrder'
    BY <1>2, <1>3 DEF Progress, RemovalInOrder, NeverDeployed, Plan
  <1> QED BY <1>4, <1>5, <1>6, <1>7, <1>8, <1>9, <1>10, <1>11, <1>12, <1>13 DEF Progress, Promises

LEMMA CreateServiceKeeps ==
    ASSUME TypeOK, Progress, NEW r \in Requests, pc[r] = "service",
           ApiCreateService(job[r].id), OnlyMoves(r),
           pc'[r] = "deployment" \/ BreaksOff(r)
    PROVE  Progress'
  <1> USE MovesKeepHandlers, CreatorIsAlone DEF BreaksOff
  <1>1. /\ UNCHANGED <<configMaps, deployments, template, replicas>>
        /\ services' = services \cup {job[r].id}
    BY DEF ApiCreateService
  <1>2. \A id \in Ids : ConfigMapsOf(id)' = ConfigMapsOf(id)
    BY <1>1 DEF ConfigMapsOf
  <1>3. InPlace'
    BY DEF Progress, InPlace, OnlyMoves, Creates
  <1>4. CreatedOnce'
    BY <1>1, <1>2 DEF Progress, CreatedOnce, NeverDeployed
  <1>5. CreationProgress'
    BY <1>1, <1>2, JobType DEF Progress, CreationProgress, OnlyMoves, Creates, NeverDeployed, Plan
  <1>6. NotFoundBefore'
    BY <1>1 DEF Progress, NotFoundBefore, OnlyMoves, NeverDeployed, Creates
  <1>7. DeletionProgress'
    BY <1>1, <1>2, JobType DEF Progress, DeletionProgress, OnlyMoves, Deletes, Creates
  <1>8. DeployedIsWhole'
    BY <1>1, <1>2 DEF Progress, Promises, DeployedIsWhole, Plan, TypeOK, ClusterTypeOK
  <1>9. DeletedLeavesNothing'
    BY <1>1, <1>2, JobType DEF Progress, Promises, DeletedLeavesNothing, OnlyMoves, Deletes, Creates
  <1>10. ScaledAsAnswered'
    BY <1>1 DEF Progress, Promises, ScaledAsAnswered, Promised, OnlyMoves, Deletes, Creates
  <1>11. OneDeleteGoesOn'
    <2>1. SUFFICES ASSUME NEW id \in deployments', Misses(id)'
                   PROVE  \E s \in Requests : Deletes(s, id)' /\ Leads(s)'
      BY DEF OneDeleteGoesOn, Misses, Leads
    <2>2. id \in deployments /\ id \in Ids /\ id # job[r].id
      BY <1>1, <2>1 DEF TypeOK, ClusterTypeOK
    <2>3. Misses(id)
      BY <1>1, <1>2, <2>1, <2>2 DEF Misses, Plan
    <2> QED BY <1>1, <2>2, <2>3, OthersGoOn DEF Deletes, ConfigMapsOf
  <1>12. RemovalInOrder'
    BY <1>1, <1>2 DEF Progress, RemovalInOrder, NeverDeployed, Plan
  <1> QED BY <1>3, <1>4, <1>5, <1>6, <1>7, <1>8, <1>9, <1>10, <1>11, <1>12 DEF Progress, Promises

LEMMA CreateDeploymentKeeps ==
    ASSUME TypeOK, Progress, NEW r \in Requests, pc[r] = "deployment",
           NEW n, ApiCreateDeployment(job[r].id, job[r].config, n),
           OnlyMoves(r), pc'[r] = "done"
    PROVE  Progress'
  <1>1. /\ UNCHANGED <<configMaps, services>>
        /\ deployments' = deployments \cup {job[r].id}
        /\ \A id \in Ids \ {job[r].id} : template'[id] = template[id] /\ replicas'[id] = replicas[id]
        /\ template'[job[r].id] = job[r].config
    BY CreatorIsAlone DEF ApiCreateDeployment, TypeOK, ClusterTypeOK
  <1>2. \A id \in Ids : ConfigMapsOf(id)' = ConfigMapsOf(id)
    BY <1>1 DEF ConfigMapsOf
  <1>3. /\ \A s \in Requests, id \in Ids : Creates(s, id)' <=> Creates(s, id)
        /\ \A s \in Requests, id \in Ids : Deletes(s, id)' <=> Deletes(s, id)
        /\ RivalsUnbind'
    BY MovesKeepHandlers
  <1>4. job[r].id \in Ids /\ job[r].config \in Config /\ Creates(r, job[r].id)
    BY CreatorIsAlone
  <1>5. \A s \in Requests : pc[s] # "idle" => job[s].id \in Ids
    BY JobType
  <1>6. ASSUME NEW s \in Requests, pc[s] # "idle", job[s].id = job[r].id
        PROVE  /\ job[s].op = "create" => s = r
               /\ job[s].op \in {"start", "stop", "delete"} =>
                     /\ s # r
                     /\ pc[s] \in {"find", "done"}
                     /\ reply[s] \notin {"ok", "ready", "stopped"}
    BY <1>4, <1>6, CreatorIsAlone DEF Creates
  <1>7. /\ job[r].id \in services
        /\ ConfigMapsOf(job[r].id) = Plan(job[r].id, job[r].config)
    BY <1>4 DEF Progress, CreationProgress
  <1>8. InPlace'
    BY DEF Progress, InPlace, OnlyMoves
  <1>9. CreatedOnce'
    BY <1>1, <1>2, <1>3, <1>4 DEF Progress, CreatedOnce, NeverDeployed
  <1>10. CreationProgress'
    <2>1. SUFFICES ASSUME NEW s \in Requests, Creates(s, job[s].id)', s # r
                   PROVE  (/\ pc[s] # "done" => NeverDeployed(job[s].id)
                           /\ pc[s] = "configmap" =>
                                 /\ todo[s] \subseteq Plan(job[s].id, job[s].config)
                                 /\ ConfigMapsOf(job[s].id) =
                                       Plan(job[s].id, job[s].config) \ todo[s]
                           /\ pc[s] \in {"service", "deployment"} =>
                                 ConfigMapsOf(job[s].id) = Plan(job[s].id, job[s].config)
                           /\ pc[s] = "deployment" => job[s].id \in services)'
      BY DEF CreationProgress, OnlyMoves
    <2> QED BY <1>1, <1>2, <1>5, <1>6, <2>1
            DEF Progress, CreationProgress, OnlyMoves, Creates, NeverDeployed, Plan
  <1>11. NotFoundBefore'
    BY <1>1, <1>4, <1>5, ClusterAssumption DEF Progress, NotFoundBefore, OnlyMoves, NeverDeployed, Creates
  <1>12. DeletionProgress'
    <2>1. SUFFICES ASSUME NEW s \in Requests, Deletes(s, job[s].id)'
                   PROVE  (/\ pc[s] = "dropmaps" =>
                                /\ ConfigMapsOf(job[s].id) \subseteq todo[s]
                                /\ todo[s] \subseteq Plan(job[s].id, template[job[s].id])
                           /\ pc[s] \in {"dropservice", "dropdeployment"} => ConfigMapsOf(job[s].id) = {}
                           /\ pc[s] = "dropdeployment" => job[s].id \notin services)'
      BY DEF DeletionProgress
    <2>2. s # r /\ pc[s] # "idle" /\ Deletes(s, job[s].id) /\ UNCHANGED <<job, pc[s], todo[s]>>
      BY <1>3, <1>4, <2>1 DEF OnlyMoves, Deletes, Creates
    <2>3. CASE job[s].id = job[r].id
      BY <1>6, <2>2, <2>3 DEF Deletes
    <2>4. CASE job[s].id # job[r].id
      <3>1. job[s].id \in Ids /\ template'[job[s].id] = template[job[s].id]
        BY <1>1, <1>5, <2>2, <2>4
      <3> QED BY <1>1, <1>2, <2>2, <3>1 DEF Progress, DeletionProgress, Plan
    <2> QED BY <2>3, <2>4
  <1>13. DeployedIsWhole'
    BY <1>1, <1>2, <1>3, <1>4, <1>7 DEF Progress, Promises, DeployedIsWhole, Plan, TypeOK, ClusterTypeOK
  <1>14. DeletedLeavesNothing'
    BY <1>1, <1>2, <1>5, <1>6 DEF Progress, Promises, DeletedLeavesNothing, OnlyMoves, Deletes
  <1>15. OneDeleteGoesOn'
    <2>1. SUFFICES ASSUME NEW id \in deployments', Misses(id)'
                   PROVE  \E s \in Requests : Deletes(s, id)' /\ Leads(s)'
      BY DEF OneDeleteGoesOn, Misses, Leads
    <2>2. id # job[r].id
      BY <1>1, <1>2, <1>4, <1>7, <2>1 DEF Misses, Plan
    <2>3. id \in deployments /\ id \in Ids
      BY <1>1, <2>1, <2>2 DEF TypeOK, ClusterTypeOK
    <2>4. Misses(id)
      BY <1>1, <1>2, <2>1, <2>2, <2>3 DEF Misses, Plan
    <2> QED BY <1>1, <2>2, <2>3, <2>4, OthersGoOn DEF Deletes, ConfigMapsOf
  <1>16. ScaledAsAnswered'
    BY <1>1, <1>4, <1>5, <1>6 DEF Progress, Promises, ScaledAsAnswered, Promised, OnlyMoves, Creates
  <1>17. RemovalInOrder'
    <2>1. ASSUME NEW id \in Ids, id = job[r].id
          PROVE  ConfigMapsOf(id)' = Plan(id, template[id])' /\ id \in services'
      BY <1>1, <1>2, <1>7, <2>1 DEF Plan
    <2>2. ASSUME NEW id \in Ids, id # job[r].id
          PROVE  /\ ConfigMapsOf(id)' = ConfigMapsOf(id)
                 /\ Plan(id, template[id])' = Plan(id, template[id])
                 /\ NeverDeployed(id)' = NeverDeployed(id)
                 /\ services' = services
      BY <1>1, <1>2, <2>2 DEF Plan, NeverDeployed
    <2> QED BY <2>1, <2>2 DEF Progress, RemovalInOrder
  <1> QED BY <1>3, <1>8, <1>9, <1>10, <1>11, <1>12, <1>13, <1>14, <1>15, <1>16, <1>17 DEF Progress, Promises

-----------------------------------------------------------------------------
(***************************************************************************)
(* The calls after the Deployment was found.  There was a Deployment, so   *)
(* that nobody creates the app any more.                                   *)
(***************************************************************************)

LEMMA NobodyCreates ==
    ASSUME TypeOK, Progress, NEW r \in Requests,
           pc[r] \in {"scale", "listmaps", "dropmaps", "dropservice", "dropdeployment"}
    PROVE  /\ job[r].id \in Ids
           /\ ~NeverDeployed(job[r].id)
           /\ \A s \in Requests : Creates(s, job[r].id) => pc[s] = "done"
           /\ pc[r] = "scale" => job[r].op \in {"start", "stop"}
           /\ pc[r] # "scale" => Deletes(r, job[r].id)
  <1>1. /\ job[r].op \in {"start", "stop", "delete"}
        /\ pc[r] = "scale" => job[r].op \in {"start", "stop"}
        /\ pc[r] # "scale" => job[r].op = "delete"
    BY DEF Progress, InPlace
  <1>2. job[r].id \in Ids
    BY JobType
  <1>3. ~NeverDeployed(job[r].id)
    BY <1>1 DEF Progress, NotFoundBefore
  <1>4. \A s \in Requests : Creates(s, job[r].id) => pc[s] = "done"
    BY <1>3 DEF Progress, CreationProgress, Creates
  <1> QED BY <1>1, <1>2, <1>3, <1>4 DEF Deletes

\* A handler that only read goes on to a place that fits what it read.
LEMMA FoundKeeps ==
    ASSUME TypeOK, Progress, NEW r \in Requests, UNCHANGED objectVars, OnlyMoves(r),
           \/ pc[r] = "listpods" /\ pc'[r] = "exec"
           \/ pc[r] = "exec" /\ pc'[r] = "read"
           \/ /\ ~NeverDeployed(job[r].id)
              /\ \/ pc[r] = "find" /\ job[r].op \in {"start", "stop"} /\ pc'[r] = "scale"
                 \/ pc[r] = "find" /\ job[r].op = "delete" /\ pc'[r] = "listmaps"
                 \/ /\ pc[r] = "listmaps" /\ pc'[r] = "dropservice"
                    /\ ConfigMapsOf(job[r].id) = {}
                 \/ /\ pc[r] = "listmaps" /\ pc'[r] = "dropmaps"
                    /\ todo'[r] = ConfigMapsOf(job[r].id)
    PROVE  Progress'
  <1> USE MovesKeepHandlers
  <1>1. \A id \in Ids : ConfigMapsOf(id)' = ConfigMapsOf(id) /\ NeverDeployed(id)' = NeverDeployed(id)
    BY DEF ConfigMapsOf, NeverDeployed, objectVars
  <1>2. InPlace'
    BY DEF Progress, InPlace, OnlyMoves
  <1>3. CreatedOnce'
    BY <1>1 DEF Progress, CreatedOnce, objectVars
  <1>4. CreationProgress'
    BY <1>1, JobType DEF Progress, InPlace, CreationProgress, OnlyMoves, Creates, Plan, objectVars
  <1>5. NotFoundBefore'
    BY <1>1, JobType DEF Progress, NotFoundBefore, OnlyMoves
  <1>6. DeletionProgress'
    <2>1. pc[r] = "listmaps" => ConfigMapsOf(job[r].id) \subseteq Plan(job[r].id, template[job[r].id])
      BY NobodyCreates DEF Progress, RemovalInOrder
    <2> QED BY <1>1, <2>1, JobType DEF Progress, DeletionProgress, OnlyMoves, Deletes, Plan, objectVars
  <1>7. DeployedIsWhole'
    BY <1>1 DEF Progress, Promises, DeployedIsWhole, Plan, objectVars, TypeOK, ClusterTypeOK
  <1>8. DeletedLeavesNothing'
    BY <1>1, JobType DEF Progress, Promises, DeletedLeavesNothing, OnlyMoves, Deletes, objectVars
  <1>9. ScaledAsAnswered'
    BY DEF Progress, Promises, ScaledAsAnswered, Promised, OnlyMoves, Deletes, objectVars
  <1>10. OneDeleteGoesOn'
    <2>1. SUFFICES ASSUME NEW id \in deployments', Misses(id)'
                   PROVE  \E s \in Requests : Deletes(s, id)' /\ Leads(s)'
      BY DEF OneDeleteGoesOn, Misses, Leads
    <2>2. id \in deployments /\ Misses(id) /\ id \in Ids
      BY <1>1, <2>1 DEF objectVars, TypeOK, ClusterTypeOK, Misses, Plan
    <2>3. Leads(r) => Leads(r)'
      BY DEF OnlyMoves, Leads, FindsTheRest
    <2> QED BY <2>2, <2>3, OthersGoOn DEF objectVars, ConfigMapsOf
  <1>11. RemovalInOrder'
    BY <1>1 DEF Progress, RemovalInOrder, Plan, objectVars
  <1> QED BY <1>2, <1>3, <1>4, <1>5, <1>6, <1>7, <1>8, <1>9, <1>10, <1>11, MovesKeepHandlers
          DEF Progress, Promises

LEMMA ScaleKeeps ==
    ASSUME TypeOK, Progress, NEW r \in Requests, pc[r] = "scale",
           job[r].id \in deployments, ApiScale(job[r].id, ScaleTo(job[r].op)),
           OnlyMoves(r), pc'[r] = "done",
           reply'[r] \in {"gone", "internal", IF job[r].op = "start" THEN "ready" ELSE "stopped"}
    PROVE  Progress'
  <1> USE MovesKeepHandlers, NobodyCreates
  <1>1. /\ UNCHANGED <<configMaps, services, deployments, template>>
        /\ \A id \in Ids \ {job[r].id} : replicas'[id] = replicas[id]
        /\ replicas'[job[r].id] = IF job[r].op = "start" THEN 1 ELSE 0
    BY DEF ApiScale, ScaleTo, TypeOK, ClusterTypeOK
  <1>2. \A id \in Ids : ConfigMapsOf(id)' = ConfigMapsOf(id) /\ NeverDeployed(id)' = NeverDeployed(id)
    BY <1>1 DEF ConfigMapsOf, NeverDeployed
  <1>3. InPlace'
    BY DEF Progress, InPlace, OnlyMoves
  <1>4. CreatedOnce'
    BY <1>1, <1>2 DEF Progress, CreatedOnce
  <1>5. CreationProgress'
    BY <1>1, <1>2, JobType DEF Progress, CreationProgress, OnlyMoves, Creates, Plan
  <1>6. NotFoundBefore'
    BY <1>1, <1>2, JobType DEF Progress, NotFoundBefore, OnlyMoves
  <1>7. DeletionProgress'
    BY <1>1, <1>2, JobType DEF Progress, DeletionProgress, OnlyMoves, Deletes, Plan
  <1>8. DeployedIsWhole'
    BY <1>1, <1>2 DEF Progress, Promises, DeployedIsWhole, Plan, TypeOK, ClusterTypeOK
  <1>9. DeletedLeavesNothing'
    BY <1>1, <1>2, JobType DEF Progress, Promises, DeletedLeavesNothing, OnlyMoves, Deletes
  <1>10. OneDeleteGoesOn'
    <2>1. SUFFICES ASSUME NEW id \in deployments', Misses(id)'
                   PROVE  \E s \in Requests : Deletes(s, id)' /\ Leads(s)'
      BY DEF OneDeleteGoesOn, Misses, Leads
    <2>2. id \in deployments /\ Misses(id) /\ ~Deletes(r, id)
      BY <1>1, <1>2, <2>1 DEF TypeOK, ClusterTypeOK, Misses, Plan, Deletes
    <2> QED BY <1>1, <2>2, OthersGoOn DEF ConfigMapsOf
  <1>11. ScaledAsAnswered'
    <2>1. ASSUME NEW s \in Requests \ {r}, job[s].id = job[r].id, pc[s] # "idle", binding[s]
          PROVE  ~Undoes(job[r], job[s])
      BY <2>1 DEF Progress, RivalsUnbind, InFlight
    <2> QED BY <1>1, <2>1, JobType DEF Progress, Promises, ScaledAsAnswered, Promised, OnlyMoves, Undoes
  <1>12. RemovalInOrder'
    BY <1>1, <1>2 DEF Progress, RemovalInOrder, Plan
  <1> QED BY <1>3, <1>4, <1>5, <1>6, <1>7, <1>8, <1>9, <1>10, <1>11, <1>12 DEF Progress, Promises

LEMMA DropConfigMapKeeps ==
    ASSUME TypeOK, Progress, NEW r \in Requests, pc[r] = "dropmaps",
           NEW m \in todo[r], ListedFirst(m, todo[r]), m \in configMaps,
           ApiDeleteConfigMap(m), OnlyMoves(r),
           \/ pc'[r] = "dropmaps" /\ todo'[r] = todo[r] \ {m}
           \/ pc'[r] = "dropservice" /\ todo[r] = {m}
           \/ BreaksOff(r)
    PROVE  Progress'
  <1> USE MovesKeepHandlers, NobodyCreates DEF BreaksOff
  <1>1. m \in ConfigMap /\ m.app = job[r].id /\ todo[r] \subseteq Plan(job[r].id, template[job[r].id])
    BY DEF Progress, DeletionProgress, Plan
  <1>2. UNCHANGED <<services, deployments, template, replicas>>
    BY DEF ApiDeleteConfigMap
  <1>3. /\ \A id \in Ids : id # job[r].id => ConfigMapsOf(id)' = ConfigMapsOf(id)
        /\ \A id \in Ids : id = job[r].id => ConfigMapsOf(id)' = ConfigMapsOf(id) \ {m}
        /\ \A id \in Ids : NeverDeployed(id)' = NeverDeployed(id)
    BY <1>1, <1>2 DEF ConfigMapsOf, ApiDeleteConfigMap, NeverDeployed
  <1>4. InPlace'
    BY DEF Progress, InPlace, OnlyMoves, Deletes
  <1>5. CreatedOnce'
    BY <1>2, <1>3 DEF Progress, CreatedOnce
  <1>6. CreationProgress'
    BY <1>2, <1>3, JobType DEF Progress, CreationProgress, OnlyMoves, Creates, Deletes, Plan
  <1>7. NotFoundBefore'
    BY <1>3, JobType DEF Progress, NotFoundBefore, OnlyMoves
  <1>8. DeletionProgress'
    BY <1>2, <1>3, JobType DEF Progress, DeletionProgress, OnlyMoves, Deletes, Plan
  <1>9. DeployedIsWhole'
    BY <1>2, <1>3 DEF Progress, Promises, DeployedIsWhole, Plan, TypeOK, ClusterTypeOK
  <1>10. DeletedLeavesNothing'
    BY <1>2, <1>3, JobType DEF Progress, Promises, DeletedLeavesNothing, OnlyMoves, Deletes
  <1>11. OneDeleteGoesOn'
    <2>1. SUFFICES ASSUME NEW id \in deployments', Misses(id)'
                   PROVE  \E s \in Requests : Deletes(s, id)' /\ Leads(s)'
      BY DEF OneDeleteGoesOn, Misses, Leads
    <2>2. id \in deployments /\ id \in Ids
      BY <1>2, <2>1 DEF TypeOK, ClusterTypeOK
    <2>3. CASE id = job[r].id
      <3>1. m \in ConfigMapsOf(id)
        BY <1>1, <2>3 DEF ConfigMapsOf
      <3>2. todo[r] \subseteq ConfigMapsOf(id) /\ id \in services
        BY <1>1, <2>2, <2>3, <3>1 DEF ListedFirst, Progress, RemovalInOrder
      <3>3. Leads(r)'
        BY <1>2, <2>3, <3>2 DEF Leads, FindsTheRest, OnlyMoves, ConfigMapsOf, ApiDeleteConfigMap
      <3> QED BY <2>2, <2>3, <3>3
    <2>4. CASE id # job[r].id
      <3>1. Misses(id)
        BY <1>2, <1>3, <2>1, <2>2, <2>4 DEF Misses, Plan
      <3>2. ConfigMapsOf(id) \subseteq configMaps'
        BY <1>1, <2>4 DEF ConfigMapsOf, ApiDeleteConfigMap
      <3> QED BY <1>2, <2>2, <2>4, <3>1, <3>2, OthersGoOn DEF Deletes
    <2> QED BY <2>3, <2>4
  <1>12. ScaledAsAnswered'
    BY <1>2 DEF Progress, Promises, ScaledAsAnswered, Promised, OnlyMoves, Deletes
  <1>13. RemovalInOrder'
    <2>1. SUFFICES ASSUME NEW id \in Ids, ~NeverDeployed(id)'
                   PROVE  (/\ ConfigMapsOf(id) \subseteq Plan(id, template[id])
                           /\ \A k \in ConfigMapsOf(id), n \in Plan(id, template[id]) :
                                 ListPlace[k.index] <= ListPlace[n.index] => n \in ConfigMapsOf(id)
                           /\ ConfigMapsOf(id) # {} => id \in services)'
      BY DEF RemovalInOrder
    <2>2. /\ ConfigMapsOf(id) \subseteq Plan(id, template[id])
          /\ \A k \in ConfigMapsOf(id), n \in Plan(id, template[id]) :
                ListPlace[k.index] <= ListPlace[n.index] => n \in ConfigMapsOf(id)
          /\ ConfigMapsOf(id) # {} => id \in services
          /\ Plan(id, template[id])' = Plan(id, template[id])
          /\ ConfigMapsOf(id)' \subseteq ConfigMapsOf(id)
      BY <1>2, <1>3, <2>1 DEF Progress, RemovalInOrder, Plan
    <2>3. ASSUME id = job[r].id, NEW k \in ConfigMapsOf(id)',
                 ListPlace[k.index] <= ListPlace[m.index]
          PROVE  FALSE
      <3>1. k \in todo[r] /\ k # m
        BY <1>3, <2>2, <2>3 DEF Progress, DeletionProgress
      <3>2. k \in ConfigMap /\ k.app = m.app
        BY <1>1, <2>2, <2>3 DEF Plan
      <3>3. k.index # m.index
        BY <1>1, <3>1, <3>2 DEF ConfigMap
      <3>4. ListPlace[m.index] <= ListPlace[k.index]
        BY <3>1 DEF ListedFirst
      <3>5. k.index \in Index /\ m.index \in Index
        BY <1>1, <3>2 DEF ConfigMap
      <3> QED BY <2>3, <3>3, <3>4, <3>5, ClusterAssumption
    <2>4. \A k \in ConfigMapsOf(id)', n \in Plan(id, template[id]) :
              ListPlace[k.index] <= ListPlace[n.index] => n \in ConfigMapsOf(id)'
      BY <1>3, <2>2, <2>3
    <2> QED BY <1>2, <2>2, <2>4
  <1> QED BY <1>4, <1>5, <1>6, <1>7, <1>8, <1>9, <1>10, <1>11, <1>12, <1>13 DEF Progress, Promises

LEMMA DropServiceKeeps ==
    ASSUME TypeOK, Progress, NEW r \in Requests, pc[r] = "dropservice",
           ApiDeleteService(job[r].id), OnlyMoves(r),
           pc'[r] = "dropdeployment" \/ BreaksOff(r)
    PROVE  Progress'
  <1> USE MovesKeepHandlers, NobodyCreates DEF BreaksOff
  <1>1. /\ UNCHANGED <<configMaps, deployments, template, replicas>>
        /\ services' = services \ {job[r].id}
    BY DEF ApiDeleteService
  <1>2. \A id \in Ids : ConfigMapsOf(id)' = ConfigMapsOf(id) /\ NeverDeployed(id)' = NeverDeployed(id)
    BY <1>1 DEF ConfigMapsOf, NeverDeployed
  <1>3. InPlace'
    BY DEF Progress, InPlace, OnlyMoves, Deletes
  <1>4. CreatedOnce'
    BY <1>1, <1>2 DEF Progress, CreatedOnce
  <1>5. CreationProgress'
    BY <1>1, <1>2, JobType DEF Progress, CreationProgress, OnlyMoves, Creates, Deletes, Plan
  <1>6. NotFoundBefore'
    BY <1>1, <1>2, JobType DEF Progress, NotFoundBefore, OnlyMoves
  <1>7. DeletionProgress'
    BY <1>1, <1>2, JobType DEF Progress, DeletionProgress, OnlyMoves, Deletes, Plan
  <1>8. DeployedIsWhole'
    BY <1>1, <1>2 DEF Progress, Promises, DeployedIsWhole, Plan, TypeOK, ClusterTypeOK
  <1>9. DeletedLeavesNothing'
    BY <1>1, <1>2, JobType DEF Progress, Promises, DeletedLeavesNothing, OnlyMoves, Deletes
  <1>10. OneDeleteGoesOn'
    <2>1. SUFFICES ASSUME NEW id \in deployments', Misses(id)'
                   PROVE  \E s \in Requests : Deletes(s, id)' /\ Leads(s)'
      BY DEF OneDeleteGoesOn, Misses, Leads
    <2>2. id \in deployments /\ id \in Ids
      BY <1>1, <2>1 DEF TypeOK, ClusterTypeOK
    <2>3. CASE id = job[r].id
      BY <2>2, <2>3 DEF Leads, FindsTheRest
    <2>4. CASE id # job[r].id
      <3>1. Misses(id)
        BY <1>1, <1>2, <2>1, <2>2, <2>4 DEF Misses, Plan
      <3> QED BY <1>1, <2>2, <2>4, <3>1, OthersGoOn DEF Deletes, ConfigMapsOf
    <2> QED BY <2>3, <2>4
  <1>11. ScaledAsAnswered'
    BY <1>1 DEF Progress, Promises, ScaledAsAnswered, Promised, OnlyMoves, Deletes
  <1>12. RemovalInOrder'
    <2>1. ConfigMapsOf(job[r].id) = {}
      BY DEF Progress, DeletionProgress
    <2> QED BY <1>1, <1>2, <2>1 DEF Progress, RemovalInOrder, Plan
  <1> QED BY <1>3, <1>4, <1>5, <1>6, <1>7, <1>8, <1>9, <1>10, <1>11, <1>12 DEF Progress, Promises

LEMMA DropDeploymentKeeps ==
    ASSUME TypeOK, Progress, NEW r \in Requests, pc[r] = "dropdeployment",
           ApiDeleteDeployment(job[r].id), OnlyMoves(r), pc'[r] = "done"
    PROVE  Progress'
  <1> USE MovesKeepHandlers, NobodyCreates
  <1>1. /\ UNCHANGED <<configMaps, services, template, replicas>>
        /\ deployments' = deployments \ {job[r].id}
    BY DEF ApiDeleteDeployment
  <1>2. \A id \in Ids : ConfigMapsOf(id)' = ConfigMapsOf(id) /\ NeverDeployed(id)' = NeverDeployed(id)
    BY <1>1 DEF ConfigMapsOf, NeverDeployed
  <1>3. InPlace'
    BY DEF Progress, InPlace, OnlyMoves
  <1>4. CreatedOnce'
    BY <1>1, <1>2 DEF Progress, CreatedOnce
  <1>5. CreationProgress'
    BY <1>1, <1>2, JobType DEF Progress, CreationProgress, OnlyMoves, Creates, Deletes, Plan
  <1>6. NotFoundBefore'
    BY <1>1, <1>2, JobType DEF Progress, NotFoundBefore, OnlyMoves
  <1>7. DeletionProgress'
    BY <1>1, <1>2, JobType DEF Progress, DeletionProgress, OnlyMoves, Deletes, Plan
  <1>8. DeployedIsWhole'
    BY <1>1, <1>2 DEF Progress, Promises, DeployedIsWhole, Plan, TypeOK, ClusterTypeOK
  <1>9. DeletedLeavesNothing'
    <2>1. ConfigMapsOf(job[r].id) = {} /\ job[r].id \notin services
      BY DEF Progress, DeletionProgress
    <2> QED BY <1>1, <1>2, <2>1, JobType DEF Progress, Promises, DeletedLeavesNothing, OnlyMoves, Deletes
  <1>10. OneDeleteGoesOn'
    <2>1. SUFFICES ASSUME NEW id \in deployments', Misses(id)'
                   PROVE  \E s \in Requests : Deletes(s, id)' /\ Leads(s)'
      BY DEF OneDeleteGoesOn, Misses, Leads
    <2>2. id \in deployments /\ Misses(id) /\ ~Deletes(r, id)
      BY <1>1, <1>2, <2>1 DEF TypeOK, ClusterTypeOK, Misses, Plan, Deletes
    <2> QED BY <1>1, <2>2, OthersGoOn DEF ConfigMapsOf
  <1>11. ScaledAsAnswered'
    <2>1. ASSUME NEW s \in Requests \ {r}, job[s].id = job[r].id, pc[s] # "idle", binding[s]
          PROVE  job[s].op # "start"
      BY <2>1 DEF Progress, RivalsUnbind, InFlight, Undoes, Deletes
    <2> QED BY <1>1, <2>1, JobType DEF Progress, Promises, ScaledAsAnswered, Promised, OnlyMoves, Deletes
  <1>12. RemovalInOrder'
    BY <1>1, <1>2 DEF Progress, RemovalInOrder, Plan
  <1> QED BY <1>3, <1>4, <1>5, <1>6, <1>7, <1>8, <1>9, <1>10, <1>11, <1>12 DEF Progress, Promises

-----------------------------------------------------------------------------
(***************************************************************************)
(* The steps of the handlers.                                              *)
(***************************************************************************)

LEMMA CreationStepKeeps ==
    ASSUME TypeOK, Progress, NEW r \in Requests,
           CreateConfigMap(r) \/ CreateService(r) \/ CreateDeployment(r)
    PROVE  Progress'
  <1>1. InFlight(r)
    BY DEF CreateConfigMap, CreateService, CreateDeployment, InFlight
  <1>2. CASE ApiFails(r, TRUE)
    BY <1>1, <1>2, ApiFailsEnds, EndsKeeps
  <1>3. ASSUME pc[r] = "configmap", NEW m \in todo[r], ApiCreateConfigMap(m),
               \/ /\ Continue(r, IF todo[r] = {m} THEN "service" ELSE "configmap",
                              todo[r] \ {m}, {})
                  /\ UNCHANGED binding
               \/ ReplyLost(r)
        PROVE  Progress'
    BY <1>1, <1>3, ContinueMoves, LostMoves, CreateConfigMapKeeps DEF BreaksOff, ReplyLost
  <1>4. CASE /\ pc[r] = "service" /\ ApiCreateService(job[r].id)
             /\ (Continue(r, "deployment", {}, {}) /\ UNCHANGED binding) \/ ReplyLost(r)
    BY <1>1, <1>4, ContinueMoves, LostMoves, CreateServiceKeeps DEF BreaksOff, ReplyLost
  <1>5. CASE /\ pc[r] = "deployment"
             /\ ApiCreateDeployment(job[r].id, job[r].config, InitialReplicas(job[r].config))
             /\ (Finish(r, "ok") /\ UNCHANGED binding) \/ ReplyLost(r)
    BY <1>1, <1>5, FinishMoves, LostMoves, CreateDeploymentKeeps DEF BreaksOff, ReplyLost
  <1> QED BY <1>2, <1>3, <1>4, <1>5 DEF CreateConfigMap, CreateService, CreateDeployment

LEMMA FoundStepKeeps ==
    ASSUME TypeOK, Progress, NEW r \in Requests, FindDeployment(r) \/ Scale(r)
    PROVE  Progress'
  <1>1. InFlight(r) /\ pc[r] # "dropdeployment" /\ pc[r] # "idle"
    BY DEF FindDeployment, Scale, InFlight
  <1>2. CASE \E exists : ApiFails(r, exists)
    BY <1>1, <1>2, ApiFailsEnds, EndsKeeps DEF FindsTheRest, FindDeployment, Scale
  <1>3. CASE /\ pc[r] = "find" /\ job[r].id \in deployments
             /\ AfterFound(r) /\ UNCHANGED <<clusterVars, binding>>
    <2>1. UNCHANGED objectVars
      BY <1>3 DEF clusterVars
    <2>2. ~NeverDeployed(job[r].id)
      BY <1>1, <1>3, JobType, ClusterAssumption DEF TypeOK, ClusterTypeOK, NeverDeployed
    <2>3. job[r].op \in {"start", "stop", "delete", "status"}
      BY <1>3 DEF Progress, InPlace
    <2>4. CASE job[r].op = "status"
      <3>1. Finish(r, StatusOf(job[r].id))
        BY <1>3, <2>4 DEF AfterFound
      <3> QED BY <1>1, <1>3, <2>1, <2>4, <3>1, FinishMoves, EndsKeeps DEF Ends, FindsTheRest
    <2>5. CASE job[r].op = "delete"
      <3>1. Continue(r, "listmaps", {}, {})
        BY <1>3, <2>5 DEF AfterFound
      <3>2. OnlyMoves(r) /\ (pc'[r] = "listmaps" \/ (pc'[r] = "done" /\ reply'[r] = "gone"))
        BY <1>1, <1>3, <3>1, ContinueMoves
      <3> QED BY <1>3, <2>1, <2>2, <2>5, <3>2, FoundKeeps, EndsKeeps DEF Ends
    <2>6. CASE job[r].op \in {"start", "stop"}
      <3>1. Continue(r, "scale", {}, {})
        BY <1>3, <2>6 DEF AfterFound
      <3>2. OnlyMoves(r) /\ (pc'[r] = "scale" \/ (pc'[r] = "done" /\ reply'[r] = "gone"))
        BY <1>1, <1>3, <3>1, ContinueMoves
      <3> QED BY <1>3, <2>1, <2>2, <2>6, <3>2, FoundKeeps, EndsKeeps DEF Ends
    <2> QED BY <2>3, <2>4, <2>5, <2>6
  <1>4. CASE /\ pc[r] = "scale" /\ job[r].id \in deployments
             /\ ApiScale(job[r].id, ScaleTo(job[r].op))
             /\ \/ /\ Finish(r, IF job[r].op = "start" THEN "ready" ELSE "stopped")
                   /\ UNCHANGED binding
                \/ ReplyLost(r)
    BY <1>1, <1>4, FinishMoves, LostMoves, ScaleKeeps DEF BreaksOff, ReplyLost
  <1> QED BY <1>2, <1>3, <1>4 DEF FindDeployment, Scale

LEMMA DeletionStepKeeps ==
    ASSUME TypeOK, Progress, NEW r \in Requests,
           \/ ListConfigMaps(r) \/ DropConfigMap(r)
           \/ DropService(r) \/ DropDeployment(r)
    PROVE  Progress'
  <1>1. InFlight(r)
    BY DEF ListConfigMaps, DropConfigMap, DropService, DropDeployment, InFlight
  <1>2. ASSUME NEW exists, ApiFails(r, exists),
               FindsTheRest(r) /\ ~exists => job[r].id \notin deployments
        PROVE  Progress'
    BY <1>1, <1>2, ApiFailsEnds, EndsKeeps
  <1>3. CASE /\ pc[r] = "listmaps"
             /\ Continue(r, IF ConfigMapsOf(job[r].id) = {} THEN "dropservice" ELSE "dropmaps",
                         ConfigMapsOf(job[r].id), {})
             /\ UNCHANGED <<clusterVars, binding>>
    <2>1. UNCHANGED objectVars
      BY <1>3 DEF clusterVars
    <2>2. ~NeverDeployed(job[r].id)
      BY <1>3, NobodyCreates
    <2>3. job[r].op = "delete"
      BY <1>3 DEF Progress, InPlace
    <2>4. /\ OnlyMoves(r)
          /\ \/ pc'[r] = "dropservice" /\ ConfigMapsOf(job[r].id) = {}
             \/ pc'[r] = "dropmaps" /\ todo'[r] = ConfigMapsOf(job[r].id)
             \/ pc'[r] = "done" /\ reply'[r] = "gone"
      BY <1>1, <1>3, ContinueMoves
    <2> QED BY <1>3, <2>1, <2>2, <2>3, <2>4, FoundKeeps, EndsKeeps DEF Ends
  <1>4. ASSUME pc[r] = "dropmaps", NEW m \in todo[r], ListedFirst(m, todo[r]),
               m \in configMaps, ApiDeleteConfigMap(m),
               \/ /\ Continue(r, IF todo[r] = {m} THEN "dropservice" ELSE "dropmaps",
                              todo[r] \ {m}, {})
                  /\ UNCHANGED binding
               \/ ReplyLost(r)
        PROVE  Progress'
    BY <1>1, <1>4, ContinueMoves, LostMoves, DropConfigMapKeeps DEF BreaksOff, ReplyLost
  <1>5. CASE /\ pc[r] = "dropservice" /\ ApiDeleteService(job[r].id)
             /\ (Continue(r, "dropdeployment", {}, {}) /\ UNCHANGED binding) \/ ReplyLost(r)
    BY <1>1, <1>5, ContinueMoves, LostMoves, DropServiceKeeps DEF BreaksOff, ReplyLost
  <1>6. CASE /\ pc[r] = "dropdeployment" /\ ApiDeleteDeployment(job[r].id)
             /\ (Finish(r, "ok") /\ UNCHANGED binding) \/ ReplyLost(r)
    BY <1>1, <1>6, FinishMoves, LostMoves, DropDeploymentKeeps DEF BreaksOff, ReplyLost
  <1>7. CASE ListConfigMaps(r)
    BY <1>2, <1>3, <1>7 DEF ListConfigMaps
  <1>8. CASE DropConfigMap(r)
    <2>1. pc[r] = "dropmaps"
      BY <1>8 DEF DropConfigMap
    <2>2. ASSUME NEW m \in todo[r], ApiFails(r, m \in configMaps)
          PROVE  Progress'
      BY <1>2, <2>1, <2>2 DEF FindsTheRest
    <2> QED BY <1>4, <1>8, <2>2 DEF DropConfigMap
  <1>9. CASE DropService(r)
    <2>1. CASE ApiFails(r, job[r].id \in services)
      BY <1>2, <1>9, <2>1 DEF DropService, FindsTheRest
    <2> QED BY <1>5, <1>9, <2>1 DEF DropService
  <1>10. CASE DropDeployment(r)
    <2>1. CASE ApiFails(r, job[r].id \in deployments)
      BY <1>2, <2>1
    <2> QED BY <1>6, <1>10, <2>1 DEF DropDeployment
  <1> QED BY <1>7, <1>8, <1>9, <1>10

LEMMA ReadStepKeeps ==
    ASSUME TypeOK, Progress, NEW r \in Requests,
           ListServices(r) \/ ListPods(r) \/ Exec(r) \/ ReadOutput(r) \/ Settle(r)
    PROVE  Progress'
  <1>1. InFlight(r)
    BY DEF ListServices, ListPods, Exec, ReadOutput, Settle, InFlight
  <1>2. CASE pc[r] \in {"listservices", "listpods"} /\ \E exists : ApiFails(r, exists)
    BY <1>1, <1>2, ApiFailsEnds, EndsKeeps DEF FindsTheRest
  <1>3. ASSUME NEW answer, Finish(r, answer), UNCHANGED <<clusterVars, binding>>,
               \/ pc[r] \in {"listservices", "listpods", "exec", "read"}
               \/ reply[r] = "gone"
        PROVE  Progress'
    <2>1. UNCHANGED objectVars
      BY <1>3 DEF clusterVars
    <2>2. OnlyMoves(r) /\ pc'[r] = "done"
          /\ reply'[r] = IF reply[r] = "gone" THEN "gone" ELSE answer
      BY <1>1, <1>3, FinishMoves
    <2>3. pc[r] \in {"listservices", "listpods", "exec", "read"} =>
              job[r].op \notin {"start", "stop", "delete"}
      BY DEF Progress, InPlace
    <2> QED BY <1>3, <2>1, <2>2, <2>3, EndsKeeps DEF Ends, FindsTheRest
  <1>4. ASSUME pc[r] = "listpods", NEW p, Continue(r, "exec", {}, {p}),
               UNCHANGED <<clusterVars, binding>>
        PROVE  Progress'
    <2>1. UNCHANGED objectVars
      BY <1>4 DEF clusterVars
    <2>2. OnlyMoves(r) /\ (pc'[r] = "exec" \/ (pc'[r] = "done" /\ reply'[r] = "gone"))
      BY <1>1, <1>4, ContinueMoves
    <2> QED BY <1>4, <2>1, <2>2, FoundKeeps, EndsKeeps DEF Ends, FindsTheRest
  <1>5. CASE ListServices(r)
    BY <1>2, <1>3, <1>5 DEF ListServices
  <1>6. CASE ListPods(r)
    BY <1>2, <1>3, <1>4, <1>6 DEF ListPods
  <1>9. CASE pc[r] \in {"exec", "read"} /\ Fails(r) /\ UNCHANGED clusterVars
    BY <1>1, <1>9, LostMoves, EndsKeeps DEF Ends, BreaksOff, FindsTheRest, clusterVars
  <1>10. CASE pc[r] = "exec" /\ Continue(r, "read", {}, {}) /\ UNCHANGED <<clusterVars, binding>>
    <2>1. UNCHANGED objectVars
      BY <1>10 DEF clusterVars
    <2>2. OnlyMoves(r) /\ (pc'[r] = "read" \/ (pc'[r] = "done" /\ reply'[r] = "gone"))
      BY <1>1, <1>10, ContinueMoves
    <2> QED BY <1>10, <2>1, <2>2, FoundKeeps, EndsKeeps DEF Ends, FindsTheRest
  <1>7. CASE Exec(r)
    BY <1>7, <1>9, <1>10 DEF Exec
  <1>11. CASE ReadOutput(r)
    BY <1>3, <1>9, <1>11 DEF ReadOutput
  <1>8. CASE Settle(r)
    BY <1>3, <1>8 DEF Settle
  <1> QED BY <1>5, <1>6, <1>7, <1>8, <1>11

-----------------------------------------------------------------------------
(***************************************************************************)
(* What happens from outside.                                              *)
(***************************************************************************)

LEMMA AbandonKeeps ==
    ASSUME TypeOK, Progress, NEW r \in Requests, Abandon(r)
    PROVE  Progress'
  <1>1. /\ UNCHANGED <<objectVars, pc, job, todo, binding>>
        /\ reply'[r] = "gone" /\ pc[r] # "idle"
        /\ \A s \in Requests \ {r} : reply'[s] = reply[s]
    BY DEF Abandon, InFlight, clusterVars, TypeOK
  <1>2. /\ \A id \in Ids : ConfigMapsOf(id)' = ConfigMapsOf(id) /\ NeverDeployed(id)' = NeverDeployed(id)
        /\ \A s \in Requests, id \in Ids : Creates(s, id)' <=> Creates(s, id)
        /\ \A s \in Requests, id \in Ids : Deletes(s, id)' <=> Deletes(s, id)
    BY <1>1 DEF ConfigMapsOf, NeverDeployed, Creates, Deletes, objectVars
  <1>3. InPlace' /\ RivalsUnbind'
    BY <1>1 DEF Progress, InPlace, RivalsUnbind, InFlight
  <1>4. CreatedOnce' /\ DeletionProgress' /\ CreationProgress'
    BY <1>1 DEF Progress, CreatedOnce, DeletionProgress, CreationProgress, ConfigMapsOf, Creates,
                Deletes, NeverDeployed, objectVars
  <1>5. NotFoundBefore'
    BY <1>1 DEF Progress, NotFoundBefore, NeverDeployed, objectVars
  <1>6. DeployedIsWhole'
    BY <1>1 DEF Progress, Promises, DeployedIsWhole, Deletes, ConfigMapsOf, objectVars
  <1>7. DeletedLeavesNothing'
    BY <1>1 DEF Progress, Promises, DeletedLeavesNothing, Deletes, ConfigMapsOf, objectVars
  <1>8. ScaledAsAnswered'
    BY <1>1 DEF Progress, Promises, ScaledAsAnswered, Promised, Deletes, objectVars
  <1>9. OneDeleteGoesOn'
    BY <1>1 DEF Progress, Promises, OneDeleteGoesOn, FindsTheRest, Deletes, ConfigMapsOf, Plan, objectVars
  <1>10. RemovalInOrder'
    BY <1>1, <1>2 DEF Progress, RemovalInOrder, Plan, objectVars
  <1> QED BY <1>3, <1>4, <1>5, <1>6, <1>7, <1>8, <1>9, <1>10 DEF Progress, Promises

LEMMA ClusterKeeps ==
    ASSUME Progress, UNCHANGED <<objectVars, requestVars>>
    PROVE  Progress'
  <1>1. InPlace' /\ RivalsUnbind'
    BY DEF Progress, InPlace, RivalsUnbind, InFlight, requestVars
  <1>2. CreatedOnce' /\ DeletionProgress' /\ CreationProgress'
    BY DEF Progress, CreatedOnce, DeletionProgress, CreationProgress, ConfigMapsOf, Creates,
           Deletes, NeverDeployed, objectVars, requestVars
  <1>3. NotFoundBefore'
    BY DEF Progress, NotFoundBefore, NeverDeployed, objectVars, requestVars
  <1>4. Promises'
    BY DEF Progress, Promises, DeployedIsWhole, DeletedLeavesNothing, OneDeleteGoesOn,
           ScaledAsAnswered, Promised, Deletes, FindsTheRest, ConfigMapsOf, Plan, objectVars, requestVars
  <1>5. RemovalInOrder'
    BY DEF Progress, RemovalInOrder, ConfigMapsOf, NeverDeployed, Plan, objectVars
  <1> QED BY <1>1, <1>2, <1>3, <1>4, <1>5 DEF Progress

\* A request that arrives finds the promises kept, and takes back those it
\* may undo.
LEMMA AcceptKeeps ==
    ASSUME TypeOK, Progress, NEW r \in Requests, NEW j \in Job, NEW place, NEW maps,
           Accept(r, j, place, maps),
           \/ /\ j.op = "create" /\ ~Drawn(j.id)
              /\ maps = Plan(j.id, j.config)
              /\ place = IF maps = {} THEN "service" ELSE "configmap"
           \/ j.op \in {"start", "stop", "delete", "status"} /\ place = "find"
           \/ j.op = "addr" /\ place = "listservices"
           \/ j.op = "output" /\ place = "listpods"
    PROVE  Progress'
  <1>1. /\ UNCHANGED <<objectVars, reply>>
        /\ pc[r] = "idle" /\ pc'[r] = place /\ job'[r] = j /\ todo'[r] = maps
        /\ \A s \in Requests \ {r} :
            pc'[s] = pc[s] /\ todo'[s] = todo[s] /\ job'[s] = job[s]
        /\ \A s \in Requests \ {r} : binding'[s] <=> binding[s] /\ ~Undoes(j, job[s])
        /\ binding'[r] <=> \A q \in Requests : InFlight(q) => ~Undoes(job[q], j)
    BY DEF Accept, clusterVars, TypeOK
  <1>2. /\ j.id \in Ids
        /\ \A s \in Requests : pc[s] # "idle" => job[s].id \in Ids
        /\ reply[r] = "none"
    BY <1>1, JobType DEF Job, Progress, InPlace
  <1>3. \A id \in Ids : ConfigMapsOf(id)' = ConfigMapsOf(id) /\ NeverDeployed(id)' = NeverDeployed(id)
    BY <1>1 DEF ConfigMapsOf, NeverDeployed, objectVars
  <1>4. InPlace'
    BY <1>1, <1>2 DEF Progress, InPlace
  <1>5. j.op = "create" => \A s \in Requests : ~Creates(s, j.id)
    BY DEF Drawn, Creates
  <1>6. j.op = "create" => NeverDeployed(j.id) /\ j.id \notin services /\ ConfigMapsOf(j.id) = {}
    BY <1>2, <1>5 DEF Progress, CreatedOnce
  <1>7. CreatedOnce'
    <2>1. \A s \in Requests \ {r}, id \in Ids : Creates(s, id)' <=> Creates(s, id)
      BY <1>1 DEF Creates
    <2>2. \A id \in Ids : ~Creates(r, id)
      BY <1>1 DEF Creates
    <2>3. \A id \in Ids : Creates(r, id)' => j.op = "create" /\ j.id = id
      BY <1>1 DEF Creates
    <2>4. \A s, q \in Requests, id \in Ids : Creates(s, id)' /\ Creates(q, id)' => s = q
      BY <1>5, <2>1, <2>3 DEF Progress, CreatedOnce
    <2>5. ASSUME NEW id \in Ids, \A s \in Requests : ~Creates(s, id)'
          PROVE  NeverDeployed(id)' /\ id \notin services' /\ ConfigMapsOf(id)' = {}
      BY <1>1, <1>3, <2>1, <2>2, <2>5 DEF Progress, CreatedOnce, objectVars
    <2> QED BY <2>4, <2>5 DEF CreatedOnce
  <1>8. CreationProgress'
    BY <1>1, <1>2, <1>3, <1>6 DEF Progress, CreationProgress, Creates, Plan, objectVars
  <1>9. NotFoundBefore'
    BY <1>1, <1>2, <1>3 DEF Progress, NotFoundBefore
  <1>10. DeletionProgress'
    BY <1>1, <1>2, <1>3 DEF Progress, DeletionProgress, Deletes, Plan, objectVars
  <1>11. RivalsUnbind'
    BY <1>1 DEF Progress, RivalsUnbind, InFlight, Undoes
  <1>12. DeployedIsWhole'
    <2>1. \A s \in Requests, id \in Ids : Deletes(s, id) => Deletes(s, id)'
      BY <1>1 DEF Deletes
    <2> QED BY <1>1, <1>3, <2>1 DEF Progress, Promises, DeployedIsWhole, Plan, objectVars,
                                    TypeOK, ClusterTypeOK
  <1>13. DeletedLeavesNothing'
    BY <1>1, <1>2, <1>3 DEF Progress, Promises, DeletedLeavesNothing, Deletes, objectVars
  <1>14. OneDeleteGoesOn'
    <2>1. SUFFICES ASSUME NEW id \in deployments', Misses(id)'
                   PROVE  \E s \in Requests : Deletes(s, id)' /\ Leads(s)'
      BY DEF OneDeleteGoesOn, Misses, Leads
    <2>2. id \in deployments /\ Misses(id)
      BY <1>1, <1>3, <2>1 DEF TypeOK, ClusterTypeOK, Misses, Plan, objectVars
    <2>3. PICK s \in Requests : Deletes(s, id) /\ Leads(s)
      BY <2>2 DEF Progress, Promises, OneDeleteGoesOn, Misses, Leads
    <2>4. s # r
      BY <1>1, <2>3 DEF Deletes
    <2> QED BY <1>1, <2>3, <2>4 DEF Deletes, Leads, FindsTheRest, objectVars
  <1>15. ScaledAsAnswered'
    BY <1>1, <1>2 DEF Progress, Promises, ScaledAsAnswered, Promised, objectVars
  <1>16. RemovalInOrder'
    BY <1>1, <1>3 DEF Progress, RemovalInOrder, Plan, objectVars
  <1> QED BY <1>4, <1>7, <1>8, <1>9, <1>10, <1>11, <1>12, <1>13, <1>14, <1>15, <1>16 DEF Progress, Promises

LEMMA ArriveKeeps ==
    ASSUME TypeOK, Progress, NEW r \in Requests, Arrive(r)
    PROVE  Progress'
  <1>1. ASSUME NEW id \in Ids, NEW config \in Configs, BeginCreate(r, id, config)
        PROVE  Progress'
    <2>1. [op |-> "create", id |-> id, config |-> config] \in Job
      BY RequestAssumption DEF Job
    <2> QED BY <1>1, <2>1, AcceptKeeps DEF BeginCreate
  <1>2. ASSUME NEW id \in Ids, NEW op \in Ops, BeginFind(r, op, id)
        PROVE  Progress'
    <2>1. [op |-> op, id |-> id] \in Job
      BY <1>2 DEF Job, Operation, BeginFind
    <2> QED BY <1>2, <2>1, AcceptKeeps DEF BeginFind
  <1>3. ASSUME NEW id \in Ids, BeginAddr(r, id)
        PROVE  Progress'
    <2>1. [op |-> "addr", id |-> id] \in Job
      BY DEF Job, Operation
    <2> QED BY <1>3, <2>1, AcceptKeeps DEF BeginAddr
  <1>4. ASSUME NEW id \in Ids, BeginOutput(r, id)
        PROVE  Progress'
    <2>1. \A i \in 0 .. MaxContainers : [op |-> "output", id |-> id, index |-> i] \in Job
      BY DEF Job, Operation
    <2> QED BY <1>4, <2>1, AcceptKeeps DEF BeginOutput
  <1> QED BY <1>1, <1>2, <1>3, <1>4 DEF Arrive

-----------------------------------------------------------------------------
(***************************************************************************)
(* The theorems.                                                           *)
(***************************************************************************)

LEMMA InitKeeps == Init => Progress
  <1> SUFFICES ASSUME Init PROVE Progress
    OBVIOUS
  <1>1. \A r \in Requests : pc[r] = "idle" /\ reply[r] = "none"
    BY DEF Init
  <1>2. /\ configMaps = {} /\ services = {} /\ deployments = {}
        /\ \A id \in Ids : template[id] = NoTemplate
    BY DEF Init, ClusterInit
  <1>3. InPlace /\ RivalsUnbind
    BY <1>1 DEF InPlace, RivalsUnbind
  <1>4. CreatedOnce /\ CreationProgress /\ NotFoundBefore /\ DeletionProgress
    BY <1>1, <1>2 DEF CreatedOnce, CreationProgress, NotFoundBefore, DeletionProgress, Creates,
                      Deletes, ConfigMapsOf, NeverDeployed
  <1>5. Promises
    BY <1>1, <1>2 DEF Promises, DeployedIsWhole, DeletedLeavesNothing, OneDeleteGoesOn,
                      ScaledAsAnswered, Promised, Deletes
  <1>6. RemovalInOrder
    BY <1>2 DEF RemovalInOrder, NeverDeployed
  <1> QED BY <1>3, <1>4, <1>5, <1>6 DEF Progress

LEMMA NextKeeps ==
    ASSUME TypeOK, Progress, [Next]_vars
    PROVE  Progress'
  <1>1. ASSUME NEW r \in Requests, Step(r) \/ ReadOutput(r)
        PROVE  Progress'
    BY <1>1, CreationStepKeeps, FoundStepKeeps, DeletionStepKeeps, ReadStepKeeps DEF Step
  <1>2. CASE ClusterStep /\ UNCHANGED requestVars
    BY <1>2, ClusterKeeps
       DEF ClusterStep, CreatePod, UpdateStatus, TerminatePod, StartPod, ReapPod, CrashPod
  <1>3. CASE UNCHANGED vars
    BY <1>3, ClusterKeeps DEF vars, objectVars, requestVars
  <1> QED BY <1>1, <1>2, <1>3, ArriveKeeps, AbandonKeeps DEF Next, Terminated

\* The invariant holds in every state, for every number of requests and apps
\* and whatever fails (kubernetes.rs:521-597).
THEOREM InductiveInvariant == Spec => []IInv
  <1>1. Init => IInv
    BY InitType, InitKeeps DEF IInv
  <1>2. IInv /\ [Next]_vars => IInv'
    BY NextType, NextKeeps DEF IInv, Progress
  <1> QED BY <1>1, <1>2, PTL DEF Spec

\* The objects of the cluster and the handlers' places and jobs are always
\* well-formed.
THEOREM TypeCorrect == Spec => []TypeOK
  <1>1. IInv => TypeOK
    BY DEF IInv
  <1> QED BY <1>1, InductiveInvariant, PTL

\* An app that can be found has its Service and every ConfigMap its pods
\* mount, until a delete of it has arrived (kubernetes.rs:521-529).
THEOREM FoundIsWhole == Spec => []DeployedIsWhole
  <1>1. IInv => DeployedIsWhole
    BY DEF IInv, Progress, Promises
  <1> QED BY <1>1, InductiveInvariant, PTL

\* After a delete was answered 204 nothing of the app is left or made again
\* (kubernetes.rs:575-597).
THEOREM NothingLeft == Spec => []DeletedLeavesNothing
  <1>1. IInv => DeletedLeavesNothing
    BY DEF IInv, Progress, Promises
  <1> QED BY <1>1, InductiveInvariant, PTL

\* Deletes of an app never all stop at an object another of them has taken:
\* while a deployed app misses a ConfigMap or its Service, one of its deletes
\* finds all it has still to remove, unless the API server failed one or it
\* was dropped (kubernetes.rs:584-597).
THEOREM DeleteGoesOn == Spec => []OneDeleteGoesOn
  <1>1. IInv => OneDeleteGoesOn
    BY DEF IInv, Progress, Promises
  <1> QED BY <1>1, InductiveInvariant, PTL

\* A start or stop that was answered is what the Deployment is scaled to,
\* until another request undoes it (kubernetes.rs:537-573).
THEOREM AnsweredIsScaled == Spec => []ScaledAsAnswered
  <1>1. IInv => ScaledAsAnswered
    BY DEF IInv, Progress, Promises
  <1> QED BY <1>1, InductiveInvariant, PTL

=============================================================================
