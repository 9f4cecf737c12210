------------------------ MODULE DockerBackendProofs ------------------------
(***************************************************************************)
(* What holds of DockerBackend for any number of requests, apps, and       *)
(* containers, and under every combination of faults.                      *)
(***************************************************************************)
EXTENDS DockerBackend, TLAPS

-----------------------------------------------------------------------------
(***************************************************************************)
(* Type correctness.  The helpers first, then one lemma per action.        *)
(***************************************************************************)

\* The part of TypeOK that a request's own bookkeeping can break.
RequestTypeOK ==
    /\ pc \in [Requests -> Place]
    /\ job \in [Requests -> Job \cup {NoJob}]
    /\ todo \in [Requests -> SUBSET Container]
    /\ reply \in [Requests -> Answer]
    /\ \A s \in Requests : pc[s] # "idle" <=> job[s] \in Job

\* An answered request has a well-formed answer and nothing left to do.
LEMMA FinishType ==
    ASSUME TypeOK, NEW r \in Requests, pc[r] # "idle",
           NEW answer \in Answer, Finish(r, answer)
    PROVE  RequestTypeOK'
  BY DEF TypeOK, RequestTypeOK, Finish, Place, Answer

\* A handler that moves on keeps the request well-formed.
LEMMA ContinueType ==
    ASSUME TypeOK, NEW r \in Requests, pc[r] # "idle",
           NEW place \in Place \ {"idle"}, NEW rest \in SUBSET Container,
           Continue(r, place, rest)
    PROVE  RequestTypeOK'
  <1>1. CASE reply[r] = "gone"
    BY <1>1, FinishType DEF Continue, Answer
  <1>2. CASE reply[r] # "gone"
    BY <1>2 DEF Continue, TypeOK, RequestTypeOK
  <1> QED BY <1>1, <1>2

\* Each engine call keeps the engine's state well-formed.
LEMMA EngineType ==
    ASSUME TypeOK, NEW c \in Container,
           \/ \E mounted : EngineCreate(c, mounted)
           \/ EngineStart(c)
           \/ EngineStop(c)
           \/ EngineRemove(c)
           \/ EngineExit(c)
    PROVE  EngineTypeOK'
  BY DEF TypeOK, EngineTypeOK, EngineCreate, EngineStart, EngineStop,
         EngineRemove, EngineExit, Halt, ContainerState, VolumeState

LEMMA EngineUnchangedType ==
    ASSUME TypeOK, UNCHANGED engineVars
    PROVE  EngineTypeOK'
  BY DEF TypeOK, EngineTypeOK, engineVars

\* A failing call leaves the engine alone and the history Boolean.
LEMMA CallFailsType ==
    ASSUME TypeOK, NEW r \in Requests, NEW possible, CallFails(r, possible)
    PROVE  EngineTypeOK' /\ binding' \in [Requests -> BOOLEAN]
  BY EngineUnchangedType DEF TypeOK, CallFails

LEMMA FailType ==
    ASSUME TypeOK, NEW r \in Requests, pc[r] # "idle",
           NEW possible, Fail(r, possible)
    PROVE  TypeOK'
  BY CallFailsType, FinishType DEF Fail, TypeOK, RequestTypeOK, Answer

\* The containers an operation works on are containers.
LEMMA PlanType ==
    /\ \A id, config : /\ Plan(id, config) \subseteq Container
                       /\ Wanted(id, config) \subseteq Container
    /\ \A op, id : \A found \in Selected(op, id) : found \subseteq Container
  BY DEF Plan, Wanted, Helpers, Selected, Listed

LEMMA AcceptType ==
    ASSUME TypeOK, NEW r \in Requests, NEW j \in Job,
           NEW place \in Place \ {"idle"}, NEW plan \in SUBSET Container,
           Accept(r, j, place, plan)
    PROVE  TypeOK'
  <1>1. RequestTypeOK'
    BY DEF TypeOK, RequestTypeOK, Accept
  <1>2. binding' \in [Requests -> BOOLEAN]
    <2>1. \A s \in Requests : binding[s] \in BOOLEAN
      BY DEF TypeOK
    <2> QED BY <2>1 DEF Accept
  <1>3. EngineTypeOK'
    BY EngineUnchangedType DEF Accept, engineVars
  <1> QED BY <1>1, <1>2, <1>3 DEF TypeOK, RequestTypeOK

LEMMA AfterCreatedType ==
    ASSUME TypeOK, NEW r \in Requests, pc[r] # "idle",
           NEW rest \in SUBSET Container, AfterCreated(r, rest)
    PROVE  RequestTypeOK'
  BY PlanType, ContinueType, FinishType DEF AfterCreated, Place, Answer

LEMMA LoopType ==
    ASSUME TypeOK, NEW r \in Requests, pc[r] # "idle",
           NEW place \in Place \ {"idle"}, NEW rest \in SUBSET Container,
           NEW answer \in Answer, Loop(r, place, rest, answer)
    PROVE  RequestTypeOK'
  BY ContinueType, FinishType DEF Loop

LEMMA InitType == Init => TypeOK
  BY RequestAssumption
  DEF Init, EngineInit, TypeOK, EngineTypeOK, Place, Answer, ContainerState,
      VolumeState

LEMMA ArriveType ==
    ASSUME TypeOK, NEW r \in Requests, Arrive(r)
    PROVE  TypeOK'
  <1>1. ASSUME NEW id \in Ids, NEW config \in Configs, BeginCreate(r, id, config)
        PROVE  TypeOK'
    <2>1. [op |-> "create", id |-> id, config |-> config] \in Job
      BY RequestAssumption DEF Job
    <2> QED BY <1>1, <2>1, PlanType, AcceptType DEF BeginCreate, Place
  <1>2. ASSUME NEW id \in Ids, NEW op \in Ops \ {"create"}, BeginOther(r, op, id)
        PROVE  TypeOK'
    <2>1. [op |-> op, id |-> id] \in Job
      BY RequestAssumption DEF Job
    <2> QED BY <1>2, <2>1, AcceptType DEF BeginOther, Place
  <1> QED BY <1>1, <1>2 DEF Arrive

LEMMA CreateContainerType ==
    ASSUME TypeOK, NEW r \in Requests, CreateContainer(r)
    PROVE  TypeOK'
  <1>1. PICK c \in todo[r] :
            \/ /\ EngineCreate(c, Mounted(c, job[r].config))
               /\ IF c.kind = "temp-config"
                  THEN Continue(r, "tempstart", todo[r])
                  ELSE AfterCreated(r, todo[r] \ {c})
               /\ UNCHANGED binding
            \/ \E possible : Fail(r, possible)
    BY DEF CreateContainer
  <1>2. c \in Container /\ todo[r] \in SUBSET Container /\ pc[r] # "idle"
    BY DEF TypeOK, CreateContainer
  <1>3. CASE \E possible : Fail(r, possible)
    BY <1>2, <1>3, FailType
  <1>4. CASE EngineCreate(c, Mounted(c, job[r].config)) /\ UNCHANGED binding
             /\ Continue(r, "tempstart", todo[r])
    BY <1>2, <1>4, EngineType, ContinueType DEF TypeOK, RequestTypeOK, Place
  <1>5. CASE EngineCreate(c, Mounted(c, job[r].config)) /\ UNCHANGED binding
             /\ AfterCreated(r, todo[r] \ {c})
    <2>1. todo[r] \ {c} \in SUBSET Container
      BY <1>2
    <2> QED BY <1>2, <1>5, <2>1, EngineType, AfterCreatedType DEF TypeOK, RequestTypeOK
  <1> QED BY <1>1, <1>3, <1>4, <1>5

LEMMA TempStartType ==
    ASSUME TypeOK, NEW r \in Requests, TempStart(r)
    PROVE  TypeOK'
  <1>1. PICK c \in todo[r] :
            \/ /\ EngineStart(c)
               /\ Continue(r, "tempwait", todo[r])
               /\ UNCHANGED binding
            \/ Fail(r, CanStart(c))
    BY DEF TempStart
  <1>2. c \in Container /\ todo[r] \in SUBSET Container /\ pc[r] # "idle"
    BY DEF TypeOK, TempStart
  <1>3. CASE Fail(r, CanStart(c))
    BY <1>2, <1>3, FailType
  <1>4. CASE EngineStart(c) /\ Continue(r, "tempwait", todo[r]) /\ UNCHANGED binding
    BY <1>2, <1>4, EngineType, ContinueType DEF TypeOK, RequestTypeOK, Place
  <1> QED BY <1>1, <1>3, <1>4

LEMMA TempWaitType ==
    ASSUME TypeOK, NEW r \in Requests, TempWait(r)
    PROVE  TypeOK'
  <1>1. todo[r] \in SUBSET Container /\ pc[r] # "idle"
    BY DEF TypeOK, TempWait
  <1> QED
    BY <1>1, EngineUnchangedType, ContinueType
    DEF TempWait, TypeOK, RequestTypeOK, Place

LEMMA TempRemoveType ==
    ASSUME TypeOK, NEW r \in Requests, TempRemove(r)
    PROVE  TypeOK'
  <1>1. PICK c \in todo[r] :
            \/ /\ EngineRemove(c)
               /\ AfterCreated(r, todo[r] \ {c})
               /\ UNCHANGED binding
            \/ Fail(r, Exists(c))
    BY DEF TempRemove, ForceRemove
  <1>2. /\ c \in Container /\ todo[r] \ {c} \in SUBSET Container
        /\ pc[r] # "idle"
    BY DEF TypeOK, TempRemove
  <1>3. CASE Fail(r, Exists(c))
    BY <1>2, <1>3, FailType
  <1>4. CASE /\ EngineRemove(c) /\ UNCHANGED binding
             /\ AfterCreated(r, todo[r] \ {c})
    BY <1>2, <1>4, EngineType, AfterCreatedType DEF TypeOK, RequestTypeOK
  <1> QED BY <1>1, <1>3, <1>4

LEMMA ListType ==
    ASSUME TypeOK, NEW r \in Requests, List(r)
    PROVE  TypeOK'
  <1>1. pc[r] # "idle" /\ job[r] \in Job
    BY DEF TypeOK, List
  <1>2. job[r].op \in Operation
    BY <1>1 DEF Job, Operation
  <1>3. CASE Fail(r, TRUE)
    BY <1>1, <1>3, FailType
  <1>4. CASE /\ UNCHANGED <<engineVars, binding>>
             /\ \E answer \in Answer : Finish(r, answer)
    BY <1>1, <1>4, EngineUnchangedType, FinishType DEF TypeOK, RequestTypeOK
  <1>5. ASSUME NEW found \in Selected(job[r].op, job[r].id), job[r].op # "status",
               Continue(r, After(job[r].op), found), UNCHANGED <<engineVars, binding>>
        PROVE  TypeOK'
    <2>1. After(job[r].op) \in Place \ {"idle"}
      BY <1>2, <1>5 DEF After, Operation, Place
    <2>2. found \in SUBSET Container
      BY PlanType
    <2> QED
      BY <1>1, <1>5, <2>1, <2>2, EngineUnchangedType, ContinueType
      DEF TypeOK, RequestTypeOK
  <1>6. NothingListed(job[r].op) \in Answer /\ StatusOf(job[r].id) \in Answer
    BY DEF NothingListed, StatusOf, Answer
  <1> QED BY <1>3, <1>4, <1>5, <1>6 DEF List

LEMMA InspectType ==
    ASSUME TypeOK, NEW r \in Requests, Inspect(r)
    PROVE  TypeOK'
  <1>1. pc[r] # "idle"
    BY DEF TypeOK, Inspect
  <1>2. \/ \E possible : Fail(r, possible)
        \/ /\ UNCHANGED <<engineVars, binding>>
           /\ \E answer \in Answer : Finish(r, answer)
    BY DEF Inspect, Answer
  <1>3. CASE \E possible : Fail(r, possible)
    BY <1>1, <1>3, FailType
  <1>4. CASE /\ UNCHANGED <<engineVars, binding>>
             /\ \E answer \in Answer : Finish(r, answer)
    BY <1>1, <1>4, EngineUnchangedType, FinishType DEF TypeOK, RequestTypeOK
  <1> QED BY <1>2, <1>3, <1>4

LEMMA StartContainerType ==
    ASSUME TypeOK, NEW r \in Requests, StartContainer(r)
    PROVE  TypeOK'
  <1>1. PICK c \in todo[r] :
            \/ /\ EngineStart(c)
               /\ \E answer \in {"ok", "ready"} :
                      Loop(r, "start", todo[r] \ {c}, answer)
               /\ UNCHANGED binding
            \/ Fail(r, CanStart(c))
    BY DEF StartContainer
  <1>2. /\ c \in Container /\ todo[r] \ {c} \in SUBSET Container
        /\ pc[r] # "idle"
    BY DEF TypeOK, StartContainer
  <1>3. CASE Fail(r, CanStart(c))
    BY <1>2, <1>3, FailType
  <1>4. ASSUME EngineStart(c), UNCHANGED binding,
               NEW answer \in {"ok", "ready"}, Loop(r, "start", todo[r] \ {c}, answer)
        PROVE  TypeOK'
    BY <1>2, <1>4, EngineType, LoopType DEF TypeOK, RequestTypeOK, Place, Answer
  <1> QED BY <1>1, <1>3, <1>4

\* The loops that ignore errors: both make the call or let it fail, and go on.
LEMMA HeedlessLoopType ==
    ASSUME TypeOK, NEW r \in Requests, pc[r] # "idle", NEW c \in todo[r],
           \/ (EngineStop(c) \/ EngineRemove(c)) /\ UNCHANGED binding
           \/ CallFails(r, Exists(c)),
           NEW place \in {"stop", "delete"}, NEW answer \in Answer,
           Loop(r, place, todo[r] \ {c}, answer)
    PROVE  TypeOK'
  <1>1. c \in Container /\ todo[r] \ {c} \in SUBSET Container
    BY DEF TypeOK
  <1>2. EngineTypeOK' /\ binding' \in [Requests -> BOOLEAN]
    BY <1>1, EngineType, CallFailsType DEF TypeOK
  <1>3. RequestTypeOK'
    BY <1>1, LoopType DEF Place
  <1> QED BY <1>2, <1>3 DEF TypeOK, RequestTypeOK

LEMMA StopContainerType ==
    ASSUME TypeOK, NEW r \in Requests, StopContainer(r)
    PROVE  TypeOK'
  BY HeedlessLoopType DEF StopContainer, Answer

LEMMA DeleteContainerType ==
    ASSUME TypeOK, NEW r \in Requests, DeleteContainer(r)
    PROVE  TypeOK'
  BY HeedlessLoopType DEF DeleteContainer, ForceRemove, Answer

LEMMA SettleType ==
    ASSUME TypeOK, NEW r \in Requests, Settle(r)
    PROVE  TypeOK'
  BY EngineUnchangedType, FinishType
  DEF Settle, InFlight, TypeOK, RequestTypeOK, Answer

LEMMA AbandonType ==
    ASSUME TypeOK, NEW r \in Requests, Abandon(r)
    PROVE  TypeOK'
  BY EngineUnchangedType DEF Abandon, TypeOK, engineVars, Answer

LEMMA ContainerExitsType ==
    ASSUME TypeOK, NEW c \in Container, ContainerExits(c)
    PROVE  TypeOK'
  <1>1. EngineTypeOK'
    BY EngineType DEF ContainerExits
  <1>2. binding' \in [Requests -> BOOLEAN]
    <2>1. \A s \in Requests : binding[s] \in BOOLEAN
      BY DEF TypeOK
    <2> QED BY <2>1 DEF ContainerExits
  <1> QED BY <1>1, <1>2 DEF ContainerExits, TypeOK

LEMMA NextType == TypeOK /\ [Next]_vars => TypeOK'
  <1> SUFFICES ASSUME TypeOK, [Next]_vars PROVE TypeOK'
    OBVIOUS
  <1>1. ASSUME NEW r \in Requests, Step(r) PROVE TypeOK'
    BY <1>1, CreateContainerType, TempStartType, TempWaitType, TempRemoveType,
       ListType, InspectType, StartContainerType, StopContainerType,
       DeleteContainerType, SettleType DEF Step
  <1>2. CASE UNCHANGED vars
    BY <1>2 DEF vars, TypeOK, EngineTypeOK
  <1> QED
    BY <1>1, <1>2, ArriveType, AbandonType, ContainerExitsType
    DEF Next, Terminated

\* Every reachable state is well-formed: each handler is at a place its code
\* has, works on containers, and gives one of the answers the API knows.
THEOREM TypeCorrect == Spec => []TypeOK
  BY InitType, NextType, PTL DEF Spec

=============================================================================
