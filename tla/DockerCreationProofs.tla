------------------------ MODULE DockerCreationProofs -----------------------
(***************************************************************************)
(* How far create_app has got at each place of its code, with the proofs of *)
(* BuiltInOrder, CreatedStaysComplete and ConfigBeforeContainer; what the  *)
(* calls of a handler without rivals need, with that of                    *)
(* OnlyEngineFailsRequests; and what the x11 host says of the rest of its  *)
(* app, with that of StatusAgrees.                                         *)
(***************************************************************************)
EXTENDS DockerPromiseProofs

\* The app of creation r is built in order.
InOrder(r) ==
    \A c \in AppContainers(job[r].id), d \in Wanted(job[r].id, job[r].config) :
        Precedes(d, c) => Exists(d)

\* Until somebody deletes the app, the containers no longer on the list
\* exist; a helper exists only while the handler deals with it.
CreationOK(r) ==
    LET wanted  == Wanted(job[r].id, job[r].config)
        helpers == Helpers(job[r].id, job[r].config)
        built   == pc[r] = "start" \/ (pc[r] = "done" /\ reply[r] = "ok")
    IN  /\ ~DeleteBegun(job[r].id) =>
              /\ InOrder(r)
              /\ pc[r] \in CreatePlaces => \A d \in wanted \ todo[r] : Exists(d)
              /\ built => \A d \in wanted : Exists(d)
        /\ \A h \in helpers : Exists(h) =>
              /\ ~built
              /\ pc[r] # "create"
              /\ pc[r] \in HelperPlaces => IsFirst(h, todo[r])

CreationInv == \A r \in Requests : Creates(r) => CreationOK(r)

\* The order of construction is the order of the ranks.
LEMMA PrecedesIsRank ==
    ASSUME NEW c \in Container, NEW d \in Container,
           c.app = d.app, c # d, c.kind # "temp-config", Precedes(d, c)
    PROVE  Rank(d) < Rank(c)
  <1>1. /\ c.index \in Nat /\ d.index \in Nat
        /\ c.kind \in {"x11-host", "docker-daemon", "application"}
        /\ c.kind \in {"x11-host", "docker-daemon"} => c.index = 0
        /\ d.kind \in {"x11-host", "docker-daemon"} => d.index = 0
    BY ContainerFacts
  <1>2. d.kind = c.kind => d.index # c.index
    BY ContainerFacts
  <1>3. CASE d.kind = "x11-host"
    <2>1. c.kind \in {"docker-daemon", "application"}
      BY <1>1, <1>2, <1>3
    <2>2. Rank(d) = 0 /\ (Rank(c) = 1 \/ Rank(c) = 3 + 2 * c.index)
      BY <1>3, <2>1, RankValues
    <2> QED BY <1>1, <2>2
  <1>4. CASE d.kind = "docker-daemon" /\ c.kind = "application"
    <2>1. Rank(d) = 1 /\ Rank(c) = 3 + 2 * c.index
      BY <1>4, RankValues
    <2> QED BY <1>1, <2>1
  <1>5. CASE d.kind = c.kind /\ d.index < c.index
    <2>1. d.kind = "application" /\ c.kind = "application"
      BY <1>1, <1>5
    <2>2. Rank(d) = 3 + 2 * d.index /\ Rank(c) = 3 + 2 * c.index
      BY <2>1, RankValues
    <2> QED BY <1>1, <1>5, <2>2
  <1> QED BY <1>3, <1>4, <1>5 DEF Precedes

\* So what precedes the first container of a list is not on the list.
LEMMA FirstBuildsInOrder ==
    ASSUME NEW S \in SUBSET Container, NEW c \in S, IsFirst(c, S),
           NEW d \in Container, d.app = c.app, d # c, c.kind # "temp-config",
           Precedes(d, c)
    PROVE  d \notin S
  BY PrecedesIsRank, RankIsNatural DEF IsFirst

-----------------------------------------------------------------------------
(***************************************************************************)
(* Steps of others.                                                        *)
(***************************************************************************)

\* CreationOK survives what neither creates containers of the app nor, as
\* long as nobody deletes it, removes any.
LEMMA CreationKept ==
    ASSUME NEW r \in Requests, CreationOK(r),
           pc'[r] = pc[r], job'[r] = job[r], todo'[r] = todo[r],
           reply'[r] \in {reply[r], "gone"},
           DeleteBegun(job[r].id) => DeleteBegun(job[r].id)',
           \A d \in Container : d.app = job[r].id =>
              /\ Exists(d)' => Exists(d)
              /\ ~DeleteBegun(job[r].id)' /\ d.kind # "temp-config" =>
                    (Exists(d) => Exists(d)')
    PROVE  CreationOK(r)'
  <1> DEFINE id == job[r].id
             wanted  == Wanted(job[r].id, job[r].config)
             helpers == Helpers(job[r].id, job[r].config)
  <1>1. /\ \A d \in wanted : d \in Container /\ d.app = id /\ d.kind # "temp-config"
        /\ \A h \in helpers : h \in Container /\ h.app = id
    BY DEF Wanted, Helpers
  <1>2. ASSUME ~DeleteBegun(id)'
        PROVE  /\ InOrder(r)'
               /\ pc'[r] \in CreatePlaces => \A d \in wanted \ todo[r] : Exists(d)'
               /\ pc'[r] = "start" \/ (pc'[r] = "done" /\ reply'[r] = "ok") =>
                     \A d \in wanted : Exists(d)'
    <2>1. ~DeleteBegun(id)
      BY <1>2
    <2>2. \A d \in wanted : Exists(d) => Exists(d)'
      BY <1>1, <1>2
    <2>3. InOrder(r)'
      BY <1>1, <1>2, <2>1, <2>2 DEF CreationOK, InOrder, AppContainers
    <2> QED BY <2>1, <2>2, <2>3 DEF CreationOK
  <1>3. \A h \in helpers : Exists(h)' => Exists(h)
    BY <1>1
  <1> QED BY <1>2, <1>3 DEF CreationOK, IsFirst

LEMMA OtherStepKeepsCreation ==
    ASSUME TypeOK, HandlerInv, OneCreator, CreationInv,
           NEW q \in Requests, Step(q), NEW r \in Requests, r # q, Creates(r)'
    PROVE  CreationOK(r)'
  <1>1. Untouched(r) /\ job' = job /\ Frame(q)
    BY StepFrame DEF Frame
  <1>2. Creates(r) /\ CreationOK(r)
    BY <1>1 DEF Untouched, Creates, CreationInv
  <1>3. InFlight(q) /\ HandlerOK(q) /\ pc[q] # "idle"
    BY StepInFlight DEF InFlight, HandlerInv
  <1>4. \A s \in Requests : pc[s] # "idle" => pc'[s] # "idle"
    BY HandlerStep, NextType, <1>1 DEF Next, TypeOK, Frame, Untouched
  <1>5. DeleteBegun(job[r].id) => DeleteBegun(job[r].id)'
    BY <1>1, <1>4 DEF DeleteBegun
  <1>6. ASSUME NEW d \in Container, d.app = job[r].id
        PROVE  /\ Exists(d)' => Exists(d)
               /\ ~DeleteBegun(job[r].id)' => (Exists(d) => Exists(d)')
    <2>1. CASE container'[d] = container[d]
      BY <2>1 DEF Exists
    <2>2. CASE container'[d] # container[d]
      <3>1. job[q].id = job[r].id
        BY <1>6, <2>2, StepTouches
      <3>2. job[q].op # "create"
        BY <1>2, <1>3, <3>1 DEF OneCreator, Creates
      <3>3. pc[q] \notin CreatePlaces
        BY <1>3, <3>2 DEF HandlerOK
      <3>4. pc[q] = "delete" => DeleteBegun(job[r].id)'
        BY <1>1, <1>3, <1>4, <3>1 DEF HandlerOK, DeleteBegun
      <3> QED
        BY <1>6, <2>2, <3>3, <3>4, StepTouches DEF Exists, CreatePlaces
    <2> QED BY <2>1, <2>2
  <1> QED BY <1>1, <1>2, <1>5, <1>6, CreationKept DEF Untouched

-----------------------------------------------------------------------------
(***************************************************************************)
(* The creating handler's own steps.                                       *)
(***************************************************************************)

\* An answer other than 200 claims nothing new.
LEMMA EndedCreation ==
    ASSUME NEW r \in Requests, CreationOK(r), job' = job,
           Ended(r, {"internal", "gone"}),
           DeleteBegun(job[r].id) => DeleteBegun(job[r].id)',
           \A d \in Container : d.kind # "temp-config" => (Exists(d)' <=> Exists(d))
    PROVE  CreationOK(r)'
  <1>1. ~DeleteBegun(job[r].id)' => InOrder(r)'
    <2>1. \A d \in Wanted(job[r].id, job[r].config) :
              d \in Container /\ d.kind # "temp-config"
      BY DEF Wanted
    <2> QED BY <2>1 DEF CreationOK, InOrder, AppContainers
  <1> QED BY <1>1 DEF CreationOK, Ended, CreatePlaces, HelperPlaces

\* Going on after a container, when all that is not left on the list exists
\* and no helper does.
LEMMA AfterCreatedCreation ==
    ASSUME TypeOK, NEW r \in Requests, NEW rest, AfterCreated(r, rest),
           UNCHANGED binding,
           ~DeleteBegun(job[r].id)' =>
              /\ InOrder(r)'
              /\ \A d \in Wanted(job[r].id, job[r].config) \ rest : Exists(d)',
           \A h \in Helpers(job[r].id, job[r].config) : ~Exists(h)'
    PROVE  CreationOK(r)'
  <1>1. job' = job
    BY AfterCreatedFrame DEF Frame
  <1>2. CASE Ended(r, {"gone"})
    BY <1>1, <1>2 DEF CreationOK, Ended, CreatePlaces, HelperPlaces
  <1>3. CASE rest = {} /\ Ended(r, {"ok", "gone"})
    BY <1>1, <1>3 DEF CreationOK, Ended, CreatePlaces, HelperPlaces
  <1>4. CASE Moved(r, "create", rest)
    BY <1>1, <1>4 DEF CreationOK, Moved, CreatePlaces, HelperPlaces
  <1>5. CASE rest = {} /\ Moved(r, "start", Wanted(job[r].id, job[r].config))
    BY <1>1, <1>5 DEF CreationOK, Moved, CreatePlaces, HelperPlaces
  <1> QED BY <1>2, <1>3, <1>4, <1>5, AfterCreatedFrame

LEMMA CreateStepKeepsCreation ==
    ASSUME TypeOK, NEW r \in Requests, HandlerOK(r), CreationOK(r),
           CreateContainer(r), job' = job,
           DeleteBegun(job[r].id) => DeleteBegun(job[r].id)'
    PROVE  CreationOK(r)'
  <1> DEFINE id == job[r].id
             wanted  == Wanted(job[r].id, job[r].config)
             helpers == Helpers(job[r].id, job[r].config)
  <1>1. /\ pc[r] = "create" /\ todo[r] \subseteq Container
        /\ \A d \in todo[r] : d.app = id
        /\ todo[r] \subseteq Plan(job[r].id, job[r].config)
    BY DEF CreateContainer, TypeOK, HandlerOK, CreatePlaces
  <1>2. /\ \A d \in wanted : d \in Container /\ d.app = id /\ d.kind # "temp-config"
        /\ \A h \in helpers : h \in Container /\ h.app = id /\ h.kind = "temp-config"
        /\ \A h \in helpers : ~Exists(h)
    BY <1>1 DEF Wanted, Helpers, CreationOK
  <1>3. CASE container' = container /\ Ended(r, {"internal", "gone"})
    BY <1>3, EndedCreation DEF Exists
  <1>4. ASSUME NEW c \in todo[r], IsFirst(c, todo[r]), ~Exists(c), Becomes(c, "created"),
               \/ Ended(r, {"gone"})
               \/ c.kind = "temp-config" /\ Moved(r, "tempstart", todo[r])
               \/ /\ c.kind # "temp-config"
                  /\ AfterCreated(r, todo[r] \ {c}) /\ UNCHANGED binding
        PROVE  CreationOK(r)'
    <2>1. /\ Exists(c)' /\ c \in Container /\ c.app = id
          /\ \A d \in Container : d # c => (Exists(d)' <=> Exists(d))
      BY <1>1, <1>4 DEF Exists, Becomes, TypeOK, EngineTypeOK
    <2>2. ~DeleteBegun(id)' =>
              /\ InOrder(r)'
              /\ \A d \in wanted \ (todo[r] \ {c}) : Exists(d)'
      <3> SUFFICES ASSUME ~DeleteBegun(id)'
                   PROVE  /\ InOrder(r)'
                          /\ \A d \in wanted \ (todo[r] \ {c}) : Exists(d)'
        OBVIOUS
      <3>1. InOrder(r) /\ \A d \in wanted \ todo[r] : Exists(d)
        BY <1>1 DEF CreationOK, CreatePlaces
      <3>2. \A d \in wanted \ (todo[r] \ {c}) : Exists(d)'
        BY <1>2, <2>1, <3>1
      <3>3. ASSUME NEW e \in Container, e.app = id, e.kind # "temp-config", Exists(e)',
                   NEW d \in wanted, Precedes(d, e)
            PROVE  Exists(d)'
        <4>1. CASE e = c /\ d # c
          <5>1. d \notin todo[r]
            BY <1>1, <1>2, <1>4, <2>1, <3>3, <4>1, FirstBuildsInOrder
          <5> QED BY <3>2, <5>1
        <4>2. CASE d = c
          BY <2>1, <4>2
        <4>3. CASE e # c /\ d # c
          BY <1>2, <2>1, <3>1, <3>3, <4>3 DEF InOrder, AppContainers
        <4> QED BY <4>1, <4>2, <4>3
      <3>4. InOrder(r)'
        BY <3>3 DEF InOrder, AppContainers
      <3> QED BY <3>2, <3>4
    <2>3. CASE Ended(r, {"gone"})
      BY <1>2, <2>2, <2>3 DEF CreationOK, Ended, CreatePlaces, HelperPlaces
    <2>4. CASE c.kind = "temp-config" /\ Moved(r, "tempstart", todo[r])
      <3>1. \A h \in helpers : Exists(h)' => h = c
        BY <1>2, <2>1
      <3>2. ~DeleteBegun(id)' => \A d \in wanted \ todo[r] : Exists(d)'
        BY <2>2
      <3> QED
        BY <1>4, <2>2, <2>4, <3>1, <3>2
        DEF CreationOK, Moved, CreatePlaces, HelperPlaces, IsFirst
    <2>5. CASE /\ c.kind # "temp-config"
               /\ AfterCreated(r, todo[r] \ {c}) /\ UNCHANGED binding
      <3>1. \A h \in helpers : ~Exists(h)'
        BY <1>2, <2>1, <2>5
      <3> QED BY <2>2, <2>5, <3>1, AfterCreatedCreation
    <2> QED BY <1>4, <2>3, <2>4, <2>5
  <1> QED BY <1>3, <1>4, CreateContainerStep

LEMMA TempRemoveKeepsCreation ==
    ASSUME TypeOK, NEW r \in Requests, HandlerOK(r), CreationOK(r),
           TempRemove(r), job' = job,
           DeleteBegun(job[r].id) => DeleteBegun(job[r].id)'
    PROVE  CreationOK(r)'
  <1> DEFINE id == job[r].id
             wanted  == Wanted(job[r].id, job[r].config)
             helpers == Helpers(job[r].id, job[r].config)
  <1>1. /\ pc[r] = "tempremove" /\ todo[r] \subseteq Container
        /\ \A d \in todo[r] : d.app = id
    BY DEF TempRemove, TypeOK, HandlerOK
  <1>2. /\ \A d \in wanted : d \in Container /\ d.kind # "temp-config"
        /\ \A h \in helpers : h \in Container
    BY DEF Wanted, Helpers
  <1>3. CASE container' = container /\ Ended(r, {"internal", "gone"})
    BY <1>3, EndedCreation DEF Exists
  <1>4. ASSUME NEW c \in todo[r], IsFirst(c, todo[r]), Halt(c, "absent"),
               AfterCreated(r, todo[r] \ {c}), UNCHANGED binding
        PROVE  CreationOK(r)'
    <2>1. c.kind = "temp-config" /\ c \in Container
      BY <1>1, <1>4 DEF HandlerOK, HelperPlaces
    <2>2. /\ ~Exists(c)'
          /\ \A d \in Container : d # c => (Exists(d)' <=> Exists(d))
      BY <1>4, <2>1 DEF Halt, Exists, TypeOK, EngineTypeOK, Host
    <2>3. \A h \in helpers : ~Exists(h)'
      <3>1. \A h \in helpers : Exists(h) => IsFirst(h, todo[r])
        BY <1>1 DEF CreationOK, HelperPlaces
      <3>2. \A h \in helpers : Exists(h) => h = c
        BY <1>1, <1>4, <3>1, FirstIsUnique DEF IsFirst
      <3> QED BY <1>2, <2>2, <3>2
    <2>4. ~DeleteBegun(id)' =>
              /\ InOrder(r)'
              /\ \A d \in wanted \ (todo[r] \ {c}) : Exists(d)'
      <3>1. ~DeleteBegun(id)' => InOrder(r) /\ \A d \in wanted \ todo[r] : Exists(d)
        BY <1>1 DEF CreationOK, CreatePlaces, HelperPlaces
      <3>2. c \notin wanted
        BY <1>2, <2>1
      <3> QED BY <1>2, <2>1, <2>2, <3>1, <3>2 DEF InOrder, AppContainers
    <2> QED BY <1>4, <2>3, <2>4, AfterCreatedCreation
  <1> QED BY <1>3, <1>4, TempRemoveStep

\* The places at which the existing containers stay as they are.
LEMMA QuietMoveKeepsCreation ==
    ASSUME NEW r \in Requests, CreationOK(r), job' = job,
           DeleteBegun(job[r].id) => DeleteBegun(job[r].id)',
           \A d \in Container : Exists(d)' <=> Exists(d),
           \/ /\ pc[r] \in HelperPlaces
              /\ \E place \in HelperPlaces : Moved(r, place, todo[r])
           \/ /\ pc[r] = "start"
              /\ \E rest, answers : Moved(r, "start", rest) \/ Ended(r, answers)
    PROVE  CreationOK(r)'
  <1>1. /\ \A d \in Wanted(job[r].id, job[r].config) : d \in Container
        /\ \A h \in Helpers(job[r].id, job[r].config) : h \in Container
    BY DEF Wanted, Helpers
  <1>2. ~DeleteBegun(job[r].id)' => InOrder(r)'
    BY <1>1 DEF CreationOK, InOrder, AppContainers
  <1>3. CASE /\ pc[r] \in HelperPlaces
             /\ \E place \in HelperPlaces : Moved(r, place, todo[r])
    BY <1>1, <1>2, <1>3
    DEF CreationOK, Moved, CreatePlaces, HelperPlaces, IsFirst
  <1>4. CASE /\ pc[r] = "start"
             /\ \E rest, answers : Moved(r, "start", rest) \/ Ended(r, answers)
    BY <1>1, <1>2, <1>4 DEF CreationOK, Moved, Ended, CreatePlaces, HelperPlaces
  <1> QED BY <1>3, <1>4

LEMMA OwnStepKeepsCreation ==
    ASSUME TypeOK, HandlerInv, CreationInv, NEW r \in Requests, Step(r), Creates(r)'
    PROVE  CreationOK(r)'
  <1>1. job' = job /\ pc[r] # "idle" /\ HandlerOK(r) /\ Frame(r)
    BY StepFrame, StepInFlight DEF Frame, InFlight, HandlerInv
  <1>2. CreationOK(r) /\ job[r].op = "create"
    BY <1>1 DEF CreationInv, Creates
  <1>3. DeleteBegun(job[r].id) => DeleteBegun(job[r].id)'
    <2>1. TypeOK'
      BY NextType DEF Next
    <2>2. \A s \in Requests : pc[s] # "idle" => pc'[s] # "idle"
      <3>1. pc'[r] # "idle"
        BY <1>1, <2>1 DEF TypeOK
      <3>2. \A s \in Requests : s # r => pc'[s] = pc[s]
        BY <1>1 DEF Frame, Untouched
      <3> QED BY <3>1, <3>2
    <2> QED BY <1>1, <2>2 DEF DeleteBegun
  <1>4. CASE CreateContainer(r)
    BY <1>1, <1>2, <1>3, <1>4, CreateStepKeepsCreation
  <1>5. CASE TempStart(r)
    <2>1. pc[r] = "tempstart" /\ todo[r] \subseteq Container
      BY <1>5 DEF TempStart, TypeOK
    <2>2. \A d \in Container : Exists(d)' <=> Exists(d)
      BY <1>5, <2>1, TempStartStep DEF Exists, Becomes, TypeOK, EngineTypeOK
    <2>3. Ended(r, {"internal", "gone"}) \/ Moved(r, "tempwait", todo[r])
      BY <1>5, TempStartStep DEF Ended
    <2> QED
      BY <1>1, <1>2, <1>3, <2>1, <2>2, <2>3, EndedCreation, QuietMoveKeepsCreation
      DEF HelperPlaces
  <1>6. CASE TempWait(r)
    <2>1. pc[r] = "tempwait" /\ \A d \in Container : Exists(d)' <=> Exists(d)
      BY <1>6, TempWaitStep DEF TempWait, Exists
    <2>2. Ended(r, {"internal", "gone"}) \/ Moved(r, "tempremove", todo[r])
      BY <1>6, TempWaitStep DEF Ended
    <2> QED
      BY <1>1, <1>2, <1>3, <2>1, <2>2, EndedCreation, QuietMoveKeepsCreation
      DEF HelperPlaces
  <1>7. CASE TempRemove(r)
    BY <1>1, <1>2, <1>3, <1>7, TempRemoveKeepsCreation
  <1>8. CASE StartContainer(r)
    <2>1. pc[r] = "start" /\ todo[r] \subseteq Container
      BY <1>8 DEF StartContainer, TypeOK
    <2>2. \A d \in Container : Exists(d)' <=> Exists(d)
      BY <1>8, <2>1, StartContainerStep DEF Exists, Becomes, TypeOK, EngineTypeOK
    <2>3. \E rest, answers : Moved(r, "start", rest) \/ Ended(r, answers)
      BY <1>8, StartContainerStep
    <2> QED BY <1>1, <1>2, <1>3, <2>1, <2>2, <2>3, QuietMoveKeepsCreation
  <1>9. CASE Settle(r)
    BY <1>1, <1>2, <1>3, <1>9, SettleStep, EndedCreation DEF Exists, Ended
  <1>10. CASE List(r) \/ Inspect(r) \/ StopContainer(r) \/ DeleteContainer(r)
    BY <1>1, <1>2, <1>10 DEF List, Inspect, StopContainer, DeleteContainer, HandlerOK
  <1> QED BY <1>4, <1>5, <1>6, <1>7, <1>8, <1>9, <1>10 DEF Step

-----------------------------------------------------------------------------
(***************************************************************************)
(* The invariant and the theorems.                                         *)
(***************************************************************************)

\* A new app has no containers yet.
LEMMA ArrivalKeepsCreation ==
    ASSUME TypeOK, CreatedBySomebody, CreationInv, NEW q \in Requests, Arrive(q),
           NEW r \in Requests, Creates(r)'
    PROVE  CreationOK(r)'
  <1>1. container' = container
    BY ArriveFrame
  <1>2. CASE r = q
    <2>1. /\ pc'[r] = "create" /\ ~Drawn(job'[r].id)
          /\ todo'[r] = Plan(job'[r].id, job'[r].config)
      BY <1>2, ArriveFrame DEF Creates
    <2>2. \A c \in Container : c.app = job'[r].id => ~Exists(c)'
      BY <1>1, <2>1 DEF CreatedBySomebody, Drawn, Creates, Exists
    <2>3. /\ \A d \in Wanted(job'[r].id, job'[r].config) : d \in todo'[r]
          /\ \A h \in Helpers(job'[r].id, job'[r].config) :
                h \in Container /\ h.app = job'[r].id
      BY <2>1 DEF Plan, Helpers
    <2>4. InOrder(r)'
      BY <2>2 DEF InOrder, AppContainers
    <2> QED BY <2>1, <2>2, <2>3, <2>4 DEF CreationOK
  <1>3. CASE r # q
    <2>1. Untouched(r)
      BY <1>3, ArriveFrame
    <2>2. CreationOK(r)
      BY <2>1 DEF Untouched, Creates, CreationInv
    <2>3. \A s \in Requests : pc[s] # "idle" => pc'[s] = pc[s] /\ job'[s] = job[s]
      BY ArriveFrame DEF Untouched
    <2>4. DeleteBegun(job[r].id) => DeleteBegun(job[r].id)'
      BY <2>1, <2>3 DEF DeleteBegun, Untouched
    <2> QED BY <1>1, <2>1, <2>2, <2>4, CreationKept DEF Untouched, Exists
  <1> QED BY <1>2, <1>3

LEMMA OutsideKeepsCreation ==
    ASSUME TypeOK, CreationInv,
           \/ \E q \in Requests : Abandon(q)
           \/ \E c \in Container : ContainerExits(c)
           \/ UNCHANGED vars
    PROVE  CreationInv'
  <1> SUFFICES ASSUME NEW r \in Requests, Creates(r)' PROVE CreationOK(r)'
    BY DEF CreationInv
  <1>1. pc' = pc /\ job' = job /\ todo' = todo /\ reply'[r] \in {reply[r], "gone"}
    BY OutsideFrame
  <1>2. \A d \in Container : Exists(d)' <=> Exists(d)
    <2>1. ASSUME NEW c \in Container, ContainerExits(c), NEW d \in Container
          PROVE  Exists(d)' <=> Exists(d)
      BY <2>1, HaltTouches DEF ContainerExits, EngineExit, Exists, IsRunning
    <2> QED BY <2>1 DEF Abandon, engineVars, vars, Exists
  <1>3. CreationOK(r)
    BY <1>1 DEF CreationInv, Creates
  <1> QED BY <1>1, <1>2, <1>3, CreationKept DEF DeleteBegun

LEMMA CreationInvariant == IInv /\ CreationInv /\ [Next]_vars => CreationInv'
  <1> SUFFICES ASSUME IInv, CreationInv, [Next]_vars PROVE CreationInv'
    OBVIOUS
  <1>1. ASSUME NEW q \in Requests, Step(q), NEW r \in Requests, Creates(r)'
        PROVE  CreationOK(r)'
    BY <1>1, OtherStepKeepsCreation, OwnStepKeepsCreation DEF IInv
  <1>2. ASSUME NEW q \in Requests, Arrive(q), NEW r \in Requests, Creates(r)'
        PROVE  CreationOK(r)'
    BY <1>2, ArrivalKeepsCreation DEF IInv
  <1> QED
    BY <1>1, <1>2, OutsideKeepsCreation DEF Next, Terminated, IInv, CreationInv

LEMMA InitCreation == Init => CreationInv
  BY DEF Init, CreationInv, Creates

\* What create_app has built at each place of its code (docker.rs:112-297).
THEOREM CreationProgress == Spec => []CreationInv
  BY InitCreation, CreationInvariant, InductiveInvariant, PTL DEF Spec

\* Until somebody deletes the app, no container exists without those that
\* come before it, however its creation ended.
THEOREM AppsAreBuiltInOrder == Spec => []BuiltInOrder
  <1>1. CreationInv => BuiltInOrder
    BY DEF CreationInv, CreationOK, InOrder, BuiltInOrder
  <1> QED BY <1>1, CreationProgress, PTL

\* An acknowledged app is complete and has no helper left.
THEOREM CreatedAppsStayComplete == Spec => []CreatedStaysComplete
  <1>1. IInv /\ CreationInv => CreatedStaysComplete
    <2> SUFFICES ASSUME IInv, CreationInv, NEW r \in Requests, Creates(r),
                        pc[r] = "done", reply[r] = "ok", ~DeleteBegun(job[r].id)
                 PROVE  /\ AppContainers(job[r].id) = Wanted(job[r].id, job[r].config)
                        /\ \A c \in Helpers(job[r].id, job[r].config) : ~Exists(c)
      BY DEF CreatedStaysComplete
    <2>1. CreationOK(r)
      BY DEF CreationInv
    <2>2. \A d \in Wanted(job[r].id, job[r].config) : d \in AppContainers(job[r].id)
      BY <2>1 DEF CreationOK, AppContainers, Wanted
    <2>3. \A d \in AppContainers(job[r].id) : d \in Wanted(job[r].id, job[r].config)
      BY PlanFacts DEF IInv, CreatedBySomebody, OneCreator, AppContainers
    <2> QED BY <2>1, <2>2, <2>3 DEF CreationOK
  <1> QED BY <1>1, CreationProgress, InductiveInvariant, PTL

-----------------------------------------------------------------------------
(***************************************************************************)
(* The configurations: the helper that writes one is waited for.           *)
(***************************************************************************)

ConfigWritten(c) == volume[ConfigVolume(c.app, c.index)] = "written"

\* What has a configuration has it from the moment it exists.
HasItsConfig(r) ==
    \A c \in AppContainers(job[r].id) :
        c.kind = "application" /\ c.index \in job[r].config.configured => ConfigWritten(c)

\* The helpers that have been dealt with have written; the one that is
\* waited for runs until it has.
ConfigOK(r) ==
    /\ HasItsConfig(r)
    /\ pc[r] \in CreatePlaces =>
          \A h \in Helpers(job[r].id, job[r].config) \ todo[r] : ConfigWritten(h)
    /\ pc[r] = "tempwait" =>
          \A h \in todo[r] : IsFirst(h, todo[r]) => IsRunning(h) \/ ConfigWritten(h)
    /\ pc[r] = "tempremove" =>
          \A h \in todo[r] : IsFirst(h, todo[r]) => ConfigWritten(h)

ConfigInv == \A r \in Requests : Creates(r) => ConfigOK(r)

LEMMA ConfigVolumes ==
    \A c \in Container :
        c.kind \in {"application", "temp-config"} => ConfigVolume(c.app, c.index) \in Volume
  BY DEF Container, ConfigVolume, Volume

\* No step takes a configuration away.
LEMMA WrittenStays ==
    ASSUME TypeOK, [Next]_vars, NEW v \in Volume, volume[v] = "written"
    PROVE  volume'[v] = "written"
  <1>1. ASSUME NEW c \in Container, EngineExit(c) PROVE volume'[v] = "written"
    BY <1>1 DEF EngineExit
  <1>2. ASSUME NEW c, NEW mounted, EngineCreate(c, mounted) PROVE volume'[v] = "written"
    BY <1>2 DEF EngineCreate
  <1>3. ASSUME NEW r \in Requests, Step(r) PROVE volume'[v] = "written"
    <2>1. \/ volume' = volume
          \/ \E c \in todo[r] : \E mounted : EngineCreate(c, mounted)
      BY <1>3
      DEF Step, CreateContainer, TempStart, TempWait, TempRemove, List, Inspect,
          StartContainer, StopContainer, DeleteContainer, Settle, Fail, CallFails,
          engineVars, EngineStart, EngineStop, EngineRemove, ForceRemove
    <2> QED BY <1>2, <2>1
  <1>4. ASSUME NEW r \in Requests, Arrive(r) PROVE volume' = volume
    BY <1>4 DEF Arrive, BeginCreate, BeginOther, Accept, engineVars
  <1>5. ASSUME NEW r \in Requests, Abandon(r) PROVE volume' = volume
    BY <1>5 DEF Abandon, engineVars
  <1>6. ASSUME NEW c \in Container, ContainerExits(c) PROVE volume'[v] = "written"
    BY <1>1, <1>6 DEF ContainerExits
  <1> QED BY <1>3, <1>4, <1>5, <1>6 DEF Next, Terminated, vars

LEMMA ConfigsStay ==
    ASSUME TypeOK, [Next]_vars, NEW c \in Container,
           c.kind \in {"application", "temp-config"}, ConfigWritten(c)
    PROVE  ConfigWritten(c)'
  BY WrittenStays, ConfigVolumes DEF ConfigWritten

\* ConfigOK survives what creates no container of the app and ends no
\* helper that has not written.
LEMMA ConfigKept ==
    ASSUME TypeOK, [Next]_vars, NEW r \in Requests, ConfigOK(r), HandlerOK(r),
           pc'[r] = pc[r], job'[r] = job[r], todo'[r] = todo[r],
           \A d \in Container : d.app = job[r].id =>
              /\ Exists(d)' => Exists(d)
              /\ d.kind = "temp-config" /\ IsRunning(d) => IsRunning(d)' \/ ConfigWritten(d)'
    PROVE  ConfigOK(r)'
  <1>1. HasItsConfig(r)'
    BY ConfigsStay DEF ConfigOK, HasItsConfig, AppContainers
  <1>2. \A h \in Helpers(job[r].id, job[r].config) :
            h \in Container /\ h.kind = "temp-config"
    BY DEF Helpers
  <1>3. ASSUME pc[r] \in HelperPlaces, NEW h \in todo[r], IsFirst(h, todo[r])
        PROVE  h \in Container /\ h.kind = "temp-config" /\ h.app = job[r].id
    BY <1>3 DEF HandlerOK, TypeOK
  <1> QED
    BY <1>1, <1>2, <1>3, ConfigsStay DEF ConfigOK, IsFirst, HelperPlaces

\* Nobody else creates containers of an app that a request creates, or
\* touches its helpers.
LEMMA OthersCreateNothing ==
    ASSUME TypeOK, HandlerInv, OneCreator,
           NEW q \in Requests, Step(q), NEW r \in Requests, r # q, Creates(r),
           NEW d \in Container, d.app = job[r].id
    PROVE  /\ Exists(d)' => Exists(d)
           /\ d.kind = "temp-config" => container'[d] = container[d]
           /\ pc[q] # "delete" => (Exists(d) => Exists(d)')
  <1>1. InFlight(q) /\ HandlerOK(q) /\ pc[q] # "idle"
    BY StepInFlight DEF InFlight, HandlerInv
  <1>2. CASE container'[d] = container[d]
    BY <1>2 DEF Exists
  <1>3. CASE container'[d] # container[d]
    <2>1. job[q].id = job[r].id
      BY <1>3, StepTouches
    <2>2. job[q].op # "create"
      BY <1>1, <2>1 DEF OneCreator, Creates
    <2>3. pc[q] \notin CreatePlaces
      BY <1>1, <2>2 DEF HandlerOK
    <2> QED BY <1>3, <2>3, StepTouches DEF Exists, CreatePlaces
  <1> QED BY <1>2, <1>3

LEMMA AfterCreatedConfig ==
    ASSUME TypeOK, NEW r \in Requests, NEW rest, AfterCreated(r, rest),
           UNCHANGED binding, HasItsConfig(r)',
           \A h \in Helpers(job[r].id, job[r].config) \ rest : ConfigWritten(h)'
    PROVE  ConfigOK(r)'
  <1>1. job' = job
    BY AfterCreatedFrame DEF Frame
  <1>2. CASE \E answers : Ended(r, answers)
    BY <1>2 DEF ConfigOK, Ended, CreatePlaces, HelperPlaces
  <1>3. CASE Moved(r, "create", rest)
    BY <1>1, <1>3 DEF ConfigOK, Moved, CreatePlaces, HelperPlaces
  <1>4. CASE Moved(r, "start", Wanted(job[r].id, job[r].config))
    BY <1>4 DEF ConfigOK, Moved, CreatePlaces, HelperPlaces
  <1> QED BY <1>2, <1>3, <1>4, AfterCreatedFrame

\* The helper of a container comes right before it.
LEMMA HelperIsEarlier ==
    ASSUME NEW S \in SUBSET Container, NEW c \in S, IsFirst(c, S), c.kind = "application",
           NEW id, NEW config, c \in Wanted(id, config), c.index \in config.configured
    PROVE  \E h \in Helpers(id, config) \ S : h.app = c.app /\ h.index = c.index
  <1> DEFINE h == [app |-> c.app, kind |-> "temp-config", index |-> c.index]
  <1>1. h \in Container
    BY DEF Container
  <1>2. h \in Helpers(id, config)
    BY <1>1 DEF Helpers, Wanted
  <1>3. Rank(h) = 2 + 2 * c.index /\ Rank(c) = 3 + 2 * c.index /\ c.index \in Nat
    BY RankValues, ContainerFacts
  <1>4. ~(Rank(c) <= Rank(h))
    BY <1>3
  <1>5. h \notin S
    BY <1>4 DEF IsFirst
  <1> QED BY <1>2, <1>5

LEMMA CreateStepKeepsConfig ==
    ASSUME TypeOK, [Next]_vars, NEW r \in Requests, HandlerOK(r), ConfigOK(r),
           CreateContainer(r), job' = job
    PROVE  ConfigOK(r)'
  <1> DEFINE helpers == Helpers(job[r].id, job[r].config)
  <1>1. /\ pc[r] = "create" /\ todo[r] \in SUBSET Container
        /\ todo[r] \subseteq Plan(job[r].id, job[r].config)
        /\ HasItsConfig(r) /\ \A h \in helpers \ todo[r] : ConfigWritten(h)
    BY DEF CreateContainer, TypeOK, HandlerOK, ConfigOK, CreatePlaces
  <1>2. \A h \in helpers : h \in Container /\ h.kind = "temp-config"
    BY DEF Helpers
  <1>3. CASE container' = container /\ Ended(r, {"internal", "gone"})
    <2>1. HasItsConfig(r)'
      BY <1>1, <1>3, ConfigsStay DEF HasItsConfig, AppContainers, Exists
    <2> QED BY <1>3, <2>1 DEF ConfigOK, Ended, CreatePlaces, HelperPlaces
  <1>4. ASSUME NEW c \in todo[r], IsFirst(c, todo[r]), Becomes(c, "created"),
               \/ Ended(r, {"gone"})
               \/ c.kind = "temp-config" /\ Moved(r, "tempstart", todo[r])
               \/ /\ c.kind # "temp-config"
                  /\ AfterCreated(r, todo[r] \ {c}) /\ UNCHANGED binding
        PROVE  ConfigOK(r)'
    <2>1. /\ c \in Container /\ c \in Plan(job[r].id, job[r].config)
          /\ \A d \in Container : d # c => (Exists(d)' => Exists(d))
      BY <1>1, <1>4 DEF Exists, Becomes, TypeOK, EngineTypeOK
    <2>2. ASSUME c.kind = "application", c.index \in job[r].config.configured
          PROVE  ConfigWritten(c)
      <3>1. c \in Wanted(job[r].id, job[r].config)
        BY <2>1, <2>2, PlanFacts
      <3>2. PICK h \in helpers \ todo[r] : h.app = c.app /\ h.index = c.index
        BY <1>1, <1>4, <2>2, <3>1, HelperIsEarlier
      <3> QED BY <1>1, <3>2 DEF ConfigWritten
    <2>3. HasItsConfig(r)'
      <3> SUFFICES ASSUME NEW d \in Container, d.app = job[r].id, Exists(d)',
                          d.kind = "application", d.index \in job[r].config.configured
                   PROVE  ConfigWritten(d)'
        BY DEF HasItsConfig, AppContainers
      <3>1. ConfigWritten(d)
        BY <1>1, <2>1, <2>2 DEF HasItsConfig, AppContainers
      <3> QED BY <3>1, ConfigsStay
    <2>4. \A h \in helpers \ todo[r] : ConfigWritten(h)'
      BY <1>1, <1>2, ConfigsStay
    <2>5. CASE Ended(r, {"gone"})
      BY <2>3, <2>5 DEF ConfigOK, Ended, CreatePlaces, HelperPlaces
    <2>6. CASE c.kind = "temp-config" /\ Moved(r, "tempstart", todo[r])
      BY <2>3, <2>4, <2>6 DEF ConfigOK, Moved, CreatePlaces, HelperPlaces
    <2>7. CASE /\ c.kind # "temp-config"
               /\ AfterCreated(r, todo[r] \ {c}) /\ UNCHANGED binding
      <3>1. \A h \in helpers \ (todo[r] \ {c}) : ConfigWritten(h)'
        BY <1>2, <2>4, <2>7
      <3> QED BY <2>3, <2>7, <3>1, AfterCreatedConfig
    <2> QED BY <1>4, <2>5, <2>6, <2>7
  <1> QED BY <1>3, <1>4, CreateContainerStep

\* The three calls that deal with a helper, if waiting for it works.
LEMMA HelperStepKeepsConfig ==
    ASSUME "waitfailed" \notin Faults, TypeOK, [Next]_vars,
           NEW r \in Requests, HandlerOK(r), ConfigOK(r),
           TempStart(r) \/ TempWait(r) \/ TempRemove(r), job' = job
    PROVE  ConfigOK(r)'
  <1> DEFINE helpers == Helpers(job[r].id, job[r].config)
  <1>1. /\ pc[r] \in HelperPlaces /\ todo[r] \in SUBSET Container
        /\ \A c \in todo[r] : c.app = job[r].id
        /\ \A c \in todo[r] : IsFirst(c, todo[r]) => c.kind = "temp-config"
        /\ HasItsConfig(r) /\ \A h \in helpers \ todo[r] : ConfigWritten(h)
    BY DEF TempStart, TempWait, TempRemove, TypeOK, HandlerOK, ConfigOK,
           CreatePlaces, HelperPlaces
  <1>2. \A h \in helpers : h \in Container /\ h.kind = "temp-config"
    BY DEF Helpers
  <1>3. \A c, d \in todo[r] : IsFirst(c, todo[r]) /\ IsFirst(d, todo[r]) => c = d
    BY <1>1, FirstIsUnique
  <1>4. \A h \in helpers \ todo[r] : ConfigWritten(h)'
    BY <1>1, <1>2, ConfigsStay
  <1>5. ASSUME \A d \in Container : Exists(d)' => Exists(d)
        PROVE  HasItsConfig(r)'
    BY <1>1, <1>5, ConfigsStay DEF HasItsConfig, AppContainers
  <1>6. ASSUME \E answers : Ended(r, answers), HasItsConfig(r)'
        PROVE  ConfigOK(r)'
    BY <1>6 DEF ConfigOK, Ended, CreatePlaces, HelperPlaces
  <1>7. CASE TempStart(r)
    <2>1. PICK c \in todo[r] :
              /\ IsFirst(c, todo[r])
              /\ \/ /\ CanStart(c) /\ EngineStart(c)
                    /\ Continue(r, "tempwait", todo[r]) /\ UNCHANGED binding
                 \/ Fail(r, CanStart(c))
      BY <1>7 DEF TempStart
    <2>2. CASE Fail(r, CanStart(c))
      BY <1>5, <1>6, <2>2, FailFrame DEF Exists
    <2>3. CASE /\ CanStart(c) /\ EngineStart(c)
               /\ Continue(r, "tempwait", todo[r]) /\ UNCHANGED binding
      <3>1. /\ IsRunning(c)'
            /\ \A d \in Container : Exists(d)' => Exists(d)
        BY <1>1, <2>3 DEF EngineStart, CanStart, IsRunning, Exists, TypeOK, EngineTypeOK
      <3>2. CASE Moved(r, "tempwait", todo[r])
        <4>1. \A h \in todo[r] : IsFirst(h, todo[r]) => IsRunning(h)'
          BY <1>3, <2>1, <3>1
        <4> QED
          BY <1>4, <1>5, <3>1, <3>2, <4>1
          DEF ConfigOK, Moved, CreatePlaces, HelperPlaces, IsFirst
      <3> QED BY <1>5, <1>6, <2>3, <3>1, <3>2, ContinueFrame
    <2> QED BY <2>1, <2>2, <2>3
  <1>8. CASE TempWait(r)
    <2>1. container' = container /\ volume' = volume
      BY <1>8 DEF TempWait, engineVars
    <2>2. \A h \in todo[r] : IsFirst(h, todo[r]) => ConfigWritten(h)'
      <3>1. PICK c \in todo[r] : IsFirst(c, todo[r]) /\ ~IsRunning(c)
        BY <1>8 DEF TempWait, WaitReturns
      <3>2. ConfigWritten(c)
        BY <1>8, <3>1 DEF ConfigOK, TempWait
      <3> QED BY <1>3, <2>1, <3>1, <3>2 DEF ConfigWritten
    <2>3. HasItsConfig(r)'
      BY <1>5, <2>1 DEF Exists
    <2>4. CASE Moved(r, "tempremove", todo[r])
      BY <1>4, <2>2, <2>3, <2>4
      DEF ConfigOK, Moved, CreatePlaces, HelperPlaces, IsFirst
    <2> QED BY <1>6, <1>8, <2>3, <2>4, TempWaitStep
  <1>9. CASE TempRemove(r)
    <2>1. CASE container' = container /\ Ended(r, {"internal", "gone"})
      BY <1>5, <1>6, <2>1 DEF Exists
    <2>2. ASSUME NEW c \in todo[r], IsFirst(c, todo[r]), Halt(c, "absent"),
                 AfterCreated(r, todo[r] \ {c}), UNCHANGED binding
          PROVE  ConfigOK(r)'
      <3>1. \A d \in Container : Exists(d)' => Exists(d)
        BY <1>1, <2>2, HaltTouches DEF Exists
      <3>2. ConfigWritten(c)'
        <4>1. ConfigWritten(c)
          BY <1>9, <2>2 DEF ConfigOK, TempRemove
        <4> QED BY <1>1, <2>2, <4>1, ConfigsStay
      <3>3. \A h \in helpers \ (todo[r] \ {c}) : ConfigWritten(h)'
        BY <1>4, <3>2
      <3> QED BY <1>5, <2>2, <3>1, <3>3, AfterCreatedConfig
    <2> QED BY <1>9, <2>1, <2>2, TempRemoveStep
  <1> QED BY <1>7, <1>8, <1>9

LEMMA StepKeepsConfig ==
    ASSUME "waitfailed" \notin Faults, TypeOK, HandlerInv, OneCreator, ConfigInv,
           NEW q \in Requests, Step(q), NEW r \in Requests, Creates(r)'
    PROVE  ConfigOK(r)'
  <1>1. job' = job /\ Frame(q) /\ HandlerOK(q) /\ pc[q] # "idle" /\ [Next]_vars
    BY StepFrame, StepInFlight DEF Frame, InFlight, HandlerInv, Next
  <1>2. Creates(r) /\ ConfigOK(r) /\ HandlerOK(r)
    BY <1>1 DEF ConfigInv, Creates, Frame, Untouched, HandlerInv
  <1>3. CASE r # q
    <2>1. Untouched(r)
      BY <1>1, <1>3 DEF Frame
    <2>2. ASSUME NEW d \in Container, d.app = job[r].id
          PROVE  /\ Exists(d)' => Exists(d)
                 /\ d.kind = "temp-config" /\ IsRunning(d) => IsRunning(d)'
      BY <1>2, <1>3, <2>2, OthersCreateNothing DEF IsRunning
    <2> QED BY <1>1, <1>2, <2>1, <2>2, ConfigKept DEF Untouched
  <1>4. CASE r = q
    <2>1. ASSUME \A d \in Container : Exists(d)' => Exists(d),
                 \E place, rest, answers :
                    (place \notin CreatePlaces /\ Moved(r, place, rest)) \/ Ended(r, answers)
          PROVE  ConfigOK(r)'
      <3>1. HasItsConfig(r)'
        BY <1>1, <1>2, <2>1, ConfigsStay DEF ConfigOK, HasItsConfig, AppContainers
      <3> QED BY <2>1, <3>1 DEF ConfigOK, Moved, Ended, CreatePlaces, HelperPlaces
    <2>2. CASE CreateContainer(r)
      BY <1>1, <1>2, <2>2, CreateStepKeepsConfig
    <2>3. CASE TempStart(r) \/ TempWait(r) \/ TempRemove(r)
      BY <1>1, <1>2, <2>3, HelperStepKeepsConfig
    <2>4. CASE StartContainer(r)
      <3>1. todo[r] \subseteq Container
        BY DEF TypeOK
      <3>2. \A d \in Container : Exists(d)' => Exists(d)
        BY <2>4, <3>1, StartContainerStep DEF Exists, Becomes, TypeOK, EngineTypeOK
      <3>3. \E rest, answers : Moved(r, "start", rest) \/ Ended(r, answers)
        BY <2>4, StartContainerStep
      <3> QED BY <2>1, <3>2, <3>3 DEF CreatePlaces, HelperPlaces
    <2>5. CASE Settle(r)
      BY <2>1, <2>5, SettleStep DEF Exists
    <2>6. CASE List(r) \/ Inspect(r) \/ StopContainer(r) \/ DeleteContainer(r)
      BY <1>2, <2>6
      DEF List, Inspect, StopContainer, DeleteContainer, HandlerOK, Creates
    <2> QED BY <1>4, <2>2, <2>3, <2>4, <2>5, <2>6 DEF Step
  <1> QED BY <1>3, <1>4

LEMMA ArrivalKeepsConfig ==
    ASSUME TypeOK, HandlerInv, CreatedBySomebody, ConfigInv, NEW q \in Requests, Arrive(q),
           NEW r \in Requests, Creates(r)'
    PROVE  ConfigOK(r)'
  <1>1. container' = container /\ [Next]_vars
    BY ArriveFrame DEF Next
  <1>2. CASE r = q
    <2>1. /\ pc'[r] = "create" /\ ~Drawn(job'[r].id)
          /\ todo'[r] = Plan(job'[r].id, job'[r].config)
      BY <1>2, ArriveFrame DEF Creates
    <2>2. \A c \in Container : c.app = job'[r].id => ~Exists(c)'
      BY <1>1, <2>1 DEF CreatedBySomebody, Drawn, Creates, Exists
    <2>3. HasItsConfig(r)'
      BY <2>2 DEF HasItsConfig, AppContainers
    <2> QED BY <2>1, <2>3 DEF ConfigOK, Plan
  <1>3. CASE r # q
    <2>1. Untouched(r)
      BY <1>3, ArriveFrame
    <2>2. ConfigOK(r) /\ HandlerOK(r)
      BY <2>1 DEF Untouched, Creates, ConfigInv, HandlerInv
    <2> QED BY <1>1, <2>1, <2>2, ConfigKept DEF Untouched, Exists, IsRunning
  <1> QED BY <1>2, <1>3

LEMMA OutsideKeepsConfig ==
    ASSUME TypeOK, HandlerInv, ConfigInv, [Next]_vars,
           \/ \E q \in Requests : Abandon(q)
           \/ \E c \in Container : ContainerExits(c)
           \/ UNCHANGED vars
    PROVE  ConfigInv'
  <1> SUFFICES ASSUME NEW r \in Requests, Creates(r)' PROVE ConfigOK(r)'
    BY DEF ConfigInv
  <1>1. pc' = pc /\ job' = job /\ todo' = todo
    BY OutsideFrame
  <1>2. ConfigOK(r) /\ HandlerOK(r)
    BY <1>1 DEF ConfigInv, Creates, HandlerInv
  <1>3. ASSUME NEW d \in Container
        PROVE  /\ Exists(d)' => Exists(d)
               /\ d.kind = "temp-config" /\ IsRunning(d) => IsRunning(d)' \/ ConfigWritten(d)'
    <2>1. ASSUME NEW c \in Container, ContainerExits(c), container'[d] # container[d]
          PROVE  Exists(d) /\ (d.kind = "temp-config" => ConfigWritten(d)')
      <3>1. IsRunning(c) /\ Halt(c, "exited")
        BY <2>1 DEF ContainerExits, EngineExit
      <3>2. d = c \/ (container[d] = "running" /\ d.kind # "temp-config")
        BY <2>1, <3>1, HaltTouches
      <3>3. d = c /\ d.kind = "temp-config" => ConfigWritten(d)'
        BY <2>1, ConfigVolumes DEF ContainerExits, EngineExit, ConfigWritten
      <3> QED BY <3>1, <3>2, <3>3 DEF Exists, IsRunning
    <2> QED BY <2>1 DEF Abandon, engineVars, vars, Exists, IsRunning
  <1> QED BY <1>1, <1>2, <1>3, ConfigKept

LEMMA ConfigInvariant ==
    ASSUME "waitfailed" \notin Faults
    PROVE  IInv /\ ConfigInv /\ [Next]_vars => ConfigInv'
  <1> SUFFICES ASSUME IInv, ConfigInv, [Next]_vars PROVE ConfigInv'
    OBVIOUS
  <1>1. ASSUME NEW q \in Requests, Step(q), NEW r \in Requests, Creates(r)'
        PROVE  ConfigOK(r)'
    BY <1>1, StepKeepsConfig DEF IInv
  <1>2. ASSUME NEW q \in Requests, Arrive(q), NEW r \in Requests, Creates(r)'
        PROVE  ConfigOK(r)'
    BY <1>2, ArrivalKeepsConfig DEF IInv
  <1> QED
    BY <1>1, <1>2, OutsideKeepsConfig DEF Next, Terminated, IInv, ConfigInv

\* If waiting for helpers works, no application container exists before its
\* configuration has been written, whatever else happens: refused calls and
\* dropped handlers, deletes during the creation, containers that end.
THEOREM ConfigsComeFirst ==
    ASSUME "waitfailed" \notin Faults
    PROVE  Spec => []ConfigBeforeContainer
  <1>1. Init => ConfigInv
    BY DEF Init, ConfigInv, Creates
  <1>2. IInv /\ ConfigInv /\ [Next]_vars => ConfigInv'
    BY ConfigInvariant
  <1>3. ConfigInv => ConfigBeforeContainer
    BY DEF ConfigInv, ConfigOK, HasItsConfig, ConfigWritten, ConfigBeforeContainer
  <1> QED BY <1>1, <1>2, <1>3, InductiveInvariant, PTL DEF Spec


-----------------------------------------------------------------------------
(***************************************************************************)
(* Errors: what each handler counts on while its request binds.            *)
(***************************************************************************)

\* What create_app has still to create does not exist, except for the
\* helper it is dealing with.
FreshOK(r) ==
    pc[r] \in CreatePlaces =>
        \A c \in todo[r] : Exists(c) => pc[r] \in HelperPlaces /\ IsFirst(c, todo[r])

\* What a handler's next calls need is there.
SoundOK(r) ==
    LET host == Host(job[r].id)
    IN  /\ pc[r] \in CreatePlaces =>
              \A d \in Wanted(job[r].id, job[r].config) \ todo[r] : Exists(d)
        /\ pc[r] \in HelperPlaces => \A h \in todo[r] : IsFirst(h, todo[r]) => Exists(h)
        /\ pc[r] \in {"start", "inspect"} =>
              \A c \in todo[r] : Exists(c) /\ c.kind # "temp-config"
        /\ pc[r] = "start" =>
              /\ host \in todo[r] \/ IsRunning(host) \/ ~Exists(host)
              /\ job[r].op = "create" => Exists(host)
        /\ pc[r] = "done" /\ reply[r] = "internal" =>
              job[r].op = "start" /\ ~Exists(host)

SoundInv ==
    \A r \in Requests : pc[r] # "idle" => FreshOK(r) /\ (binding[r] => SoundOK(r))

LEMMA HostFacts ==
    ASSUME NEW id \in Ids
    PROVE  /\ Host(id) \in Container /\ Host(id).app = id
           /\ Host(id).kind = "x11-host"
           /\ \A config : Host(id) \in Wanted(id, config)
           /\ \A c \in Container : c.kind = "x11-host" /\ c.app = id => c = Host(id)
  <1>1. Host(id) \in Container
    BY MaxContainersAssumption DEF Host, Container, Index
  <1> QED BY <1>1, ContainerFacts DEF Host, Wanted

\* Whatever joins the x11 host comes after it.
LEMMA HostIsFirst ==
    ASSUME NEW id \in Ids, NEW S \in SUBSET Container, NEW c \in S, IsFirst(c, S),
           c.app = id, JoinsHost(c)
    PROVE  Host(id) \notin S
  <1>1. Rank(Host(id)) = 0 /\ c.index \in Nat
    BY HostFacts, RankValues, ContainerFacts
  <1>2. Rank(c) = 1 \/ Rank(c) = 3 + 2 * c.index
    BY RankValues DEF JoinsHost
  <1>3. ~(Rank(c) <= Rank(Host(id)))
    BY <1>1, <1>2
  <1> QED BY <1>3 DEF IsFirst

\* What a handler that is no rival of r may do to the containers of r's app.
LEMMA NonRivalTouches ==
    ASSUME TypeOK, HandlerInv, OneCreator, NEW q \in Requests, Step(q),
           NEW r \in Requests, r # q, pc[r] # "idle", NoRival(r),
           NEW d \in Container, d.app = job[r].id
    PROVE  /\ job[r].op # "delete" /\ (d.kind # "temp-config" \/ job[r].op = "create") =>
                 (Exists(d) => Exists(d)')
           /\ job[r].op \in {"start", "create"} => (Exists(d)' => Exists(d))
           /\ \/ job[r].op = "start"
              \/ job[r].op = "create" /\ job[r].config.autostart
              => (d.kind # "temp-config" => (IsRunning(d) => IsRunning(d)'))
  <1>1. InFlight(q) /\ HandlerOK(q) /\ pc[q] # "idle"
    BY StepInFlight DEF InFlight, HandlerInv
  <1>2. CASE container'[d] = container[d]
    BY <1>2 DEF Exists, IsRunning
  <1>3. CASE container'[d] # container[d]
    <2>1. job[q].id = job[r].id /\ ~Undoes(job[q], job[r])
      BY <1>1, <1>3, StepTouches DEF NoRival
    <2>2. CASE pc[q] \in CreatePlaces
      <3>1. job[q].op = "create"
        BY <1>1, <2>2 DEF HandlerOK
      <3>2. job[r].op \notin {"start", "create"}
        BY <1>1, <2>1, <3>1 DEF Undoes, OneCreator, Creates
      <3> QED BY <1>3, <2>2, <3>2, StepTouches DEF Exists, CreatePlaces, HelperPlaces
    <2>3. CASE pc[q] = "start"
      BY <1>3, <2>3, StepTouches DEF Exists, IsRunning, CreatePlaces, HelperPlaces
    <2>4. CASE pc[q] = "stop"
      <3>1. /\ job[r].op # "start"
            /\ ~(job[r].op = "create" /\ job[r].config.autostart)
        BY <1>1, <2>1, <2>4 DEF HandlerOK, Undoes
      <3> QED BY <1>3, <2>4, <3>1, StepTouches DEF Exists, CreatePlaces, HelperPlaces
    <2>5. CASE pc[q] = "delete"
      <3>1. job[r].op = "delete"
        BY <1>1, <2>1, <2>5 DEF HandlerOK, Undoes
      <3> QED BY <3>1
    <2> QED BY <1>3, <2>2, <2>3, <2>4, <2>5, StepTouches DEF CreatePlaces
  <1> QED BY <1>2, <1>3

\* FreshOK and SoundOK survive what does not undo the request.
LEMMA SoundKept ==
    ASSUME TypeOK, NEW r \in Requests, pc[r] # "idle", HandlerOK(r), FreshOK(r),
           pc'[r] = pc[r], job'[r] = job[r], todo'[r] = todo[r],
           reply'[r] \in {reply[r], "gone"}, binding'[r] => binding[r] /\ SoundOK(r),
           job[r].op = "create" =>
              \A d \in Container : d.app = job[r].id => (Exists(d)' => Exists(d)),
           binding'[r] => \A d \in Container : d.app = job[r].id =>
              /\ job[r].op # "delete" /\ (d.kind # "temp-config" \/ job[r].op = "create") =>
                    (Exists(d) => Exists(d)')
              /\ job[r].op \in {"start", "create"} => (Exists(d)' => Exists(d))
              /\ \/ job[r].op = "start"
                 \/ job[r].op = "create" /\ job[r].config.autostart
                 => (d.kind # "temp-config" => (IsRunning(d) => IsRunning(d)'))
    PROVE  FreshOK(r)' /\ (binding'[r] => SoundOK(r)')
  <1> DEFINE host == Host(job[r].id)
  <1>1. /\ todo[r] \subseteq Container /\ \A c \in todo[r] : c.app = job[r].id
        /\ job[r].id \in Ids
        /\ pc[r] \in CreatePlaces => job[r].op = "create"
        /\ pc[r] \in HelperPlaces => pc[r] \in CreatePlaces
    BY DEF TypeOK, Job, HandlerOK, CreatePlaces
  <1>2. FreshOK(r)'
    BY <1>1 DEF FreshOK, IsFirst
  <1>3. ASSUME binding'[r] PROVE SoundOK(r)'
    <2>1. host \in Container /\ host.app = job[r].id /\ host.kind # "temp-config"
      BY <1>1, HostFacts
    <2>2. pc[r] \in CreatePlaces =>
              \A d \in Wanted(job[r].id, job[r].config) \ todo[r] : Exists(d)'
      BY <1>1, <1>3 DEF SoundOK, Wanted
    <2>3. pc[r] \in HelperPlaces => \A h \in todo[r] : IsFirst(h, todo[r]) => Exists(h)'
      BY <1>1, <1>3 DEF SoundOK
    <2>4. pc[r] \in {"start", "inspect"} =>
              \A c \in todo[r] : Exists(c)' /\ c.kind # "temp-config"
      BY <1>1, <1>3 DEF SoundOK, HandlerOK
    <2>5. pc[r] = "start" =>
              /\ host \in todo[r] \/ IsRunning(host)' \/ ~Exists(host)'
              /\ job[r].op = "create" => Exists(host)'
      BY <1>3, <2>1 DEF SoundOK, HandlerOK
    <2>6. pc[r] = "done" /\ reply'[r] = "internal" =>
              job[r].op = "start" /\ ~Exists(host)'
      BY <1>3, <2>1 DEF SoundOK
    <2> QED BY <2>2, <2>3, <2>4, <2>5, <2>6 DEF SoundOK, IsFirst
  <1> QED BY <1>2, <1>3

LEMMA OtherStepKeepsSound ==
    ASSUME TypeOK, HandlerInv, OneCreator, PromiseInv, SoundInv,
           NEW q \in Requests, Step(q), NEW r \in Requests, r # q, pc'[r] # "idle"
    PROVE  FreshOK(r)' /\ (binding'[r] => SoundOK(r)')
  <1>1. Untouched(r)
    BY StepFrame DEF Frame
  <1>2. /\ pc[r] # "idle" /\ HandlerOK(r) /\ FreshOK(r)
        /\ binding'[r] => binding[r] /\ SoundOK(r) /\ NoRival(r)
    BY <1>1 DEF Untouched, HandlerInv, SoundInv, PromiseInv
  <1>3. job[r].op = "create" =>
            \A d \in Container : d.app = job[r].id => (Exists(d)' => Exists(d))
    BY <1>2, OthersCreateNothing DEF Creates
  <1> QED
    BY <1>1, <1>2, <1>3, NonRivalTouches, SoundKept DEF Untouched

-----------------------------------------------------------------------------
(***************************************************************************)
(* A handler's own steps: none of its calls fails by itself, except for    *)
(* the start without a host.                                               *)
(***************************************************************************)

\* A call that fails while the request still binds could not be done.
LEMMA FailReason ==
    ASSUME TypeOK, NEW r \in Requests, NEW possible \in BOOLEAN, Fail(r, possible),
           binding'[r]
    PROVE  ~possible
  BY DEF Fail, CallFails, TypeOK

LEMMA EndedSound ==
    ASSUME NEW r \in Requests, NEW answers, Ended(r, answers),
           binding'[r] => reply'[r] # "internal"
    PROVE  FreshOK(r)' /\ (binding'[r] => SoundOK(r)')
  BY DEF Ended, FreshOK, SoundOK, CreatePlaces, HelperPlaces

LEMMA AfterCreatedSound ==
    ASSUME TypeOK, NEW r \in Requests, pc[r] # "idle", job[r].op = "create",
           NEW rest, AfterCreated(r, rest), UNCHANGED binding,
           \A d \in rest : ~Exists(d)',
           binding[r] => \A d \in Wanted(job[r].id, job[r].config) \ rest : Exists(d)'
    PROVE  FreshOK(r)' /\ (binding'[r] => SoundOK(r)')
  <1>1. job' = job /\ job[r].id \in Ids
    BY AfterCreatedFrame DEF Frame, TypeOK, Job
  <1>2. CASE Ended(r, {"ok", "gone"}) \/ Ended(r, {"gone"})
    BY <1>2, EndedSound DEF Ended
  <1>3. CASE Moved(r, "create", rest)
    BY <1>1, <1>3 DEF FreshOK, SoundOK, Moved, CreatePlaces, HelperPlaces
  <1>4. CASE rest = {} /\ Moved(r, "start", Wanted(job[r].id, job[r].config))
    <2>1. Host(job[r].id) \in Wanted(job[r].id, job[r].config)
      BY <1>1, HostFacts
    <2>2. \A d \in Wanted(job[r].id, job[r].config) : d.kind # "temp-config"
      BY DEF Wanted
    <2> QED
      BY <1>1, <1>4, <2>1, <2>2 DEF FreshOK, SoundOK, Moved, CreatePlaces, HelperPlaces
  <1> QED BY <1>2, <1>3, <1>4, AfterCreatedFrame

LEMMA CreateStepKeepsSound ==
    ASSUME TypeOK, NEW r \in Requests, pc[r] # "idle", HandlerOK(r), FreshOK(r),
           binding'[r] => SoundOK(r), CreateContainer(r)
    PROVE  FreshOK(r)' /\ (binding'[r] => SoundOK(r)')
  <1> DEFINE wanted == Wanted(job[r].id, job[r].config)
             CanDo(c) == CanCreate(c) /\ (JoinsHost(c) => Exists(Host(c.app)))
  <1>1. /\ pc[r] = "create" /\ todo[r] \in SUBSET Container /\ job[r].op = "create"
        /\ job[r].id \in Ids /\ \A d \in todo[r] : d.app = job[r].id
        /\ job' = job
    BY CreateContainerStep DEF CreateContainer, TypeOK, Job, HandlerOK, CreatePlaces, Frame
  <1>2. \A d \in todo[r] : ~Exists(d)
    BY <1>1 DEF FreshOK, CreatePlaces, HelperPlaces
  <1>3. \A d \in wanted : d \in Container
    BY DEF Wanted
  <1>4. PICK c \in todo[r] :
            /\ IsFirst(c, todo[r])
            /\ \/ /\ CanCreate(c)
                  /\ EngineCreate(c, Mounted(c, job[r].config))
                  /\ IF c.kind = "temp-config"
                     THEN Continue(r, "tempstart", todo[r])
                     ELSE AfterCreated(r, todo[r] \ {c})
                  /\ UNCHANGED binding
               \/ Fail(r, CanDo(c))
    BY DEF CreateContainer
  <1>5. CASE Fail(r, CanDo(c))
    <2>1. ASSUME binding'[r] PROVE CanDo(c)
      <3>1. JoinsHost(c) => Host(job[r].id) \in wanted \ todo[r]
        BY <1>1, <1>4, HostFacts, HostIsFirst
      <3>2. JoinsHost(c) => Exists(Host(job[r].id))
        BY <1>1, <2>1, <3>1 DEF SoundOK, CreatePlaces
      <3> QED BY <1>1, <1>2, <3>2 DEF CanCreate
    <2>2. ~binding'[r]
      <3>1. CanDo(c) \in BOOLEAN
        BY DEF CanCreate, Exists
      <3> HIDE DEF CanDo
      <3> QED BY <1>5, <2>1, <3>1, FailReason
    <2> QED BY <1>5, <2>2, FailFrame, EndedSound
  <1>6. CASE /\ EngineCreate(c, Mounted(c, job[r].config)) /\ UNCHANGED binding
             /\ IF c.kind = "temp-config"
                THEN Continue(r, "tempstart", todo[r])
                ELSE AfterCreated(r, todo[r] \ {c})
    <2>1. Exists(c)' /\ \A d \in Container : d # c => (Exists(d)' <=> Exists(d))
      BY <1>1, <1>6 DEF EngineCreate, Exists, TypeOK, EngineTypeOK
    <2>2. /\ \A d \in todo[r] \ {c} : ~Exists(d)'
          /\ binding[r] => \A d \in wanted \ (todo[r] \ {c}) : Exists(d)'
      BY <1>1, <1>2, <1>3, <1>6, <2>1 DEF SoundOK, CreatePlaces
    <2>3. CASE c.kind # "temp-config"
      BY <1>1, <1>6, <2>2, <2>3, AfterCreatedSound
    <2>4. CASE c.kind = "temp-config"
      <3>1. Ended(r, {"gone"}) \/ Moved(r, "tempstart", todo[r])
        BY <1>6, <2>4, ContinueFrame
      <3>2. CASE Ended(r, {"gone"})
        BY <3>2, EndedSound DEF Ended
      <3>3. CASE Moved(r, "tempstart", todo[r])
        <4>1. \A d \in todo[r] : IsFirst(d, todo[r]) <=> d = c
          BY <1>1, <1>4, FirstIsUnique
        <4>2. FreshOK(r)'
          BY <1>4, <2>2, <3>3, <4>1
          DEF FreshOK, Moved, CreatePlaces, HelperPlaces, IsFirst
        <4>3. binding'[r] => SoundOK(r)'
          BY <1>1, <1>6, <2>1, <2>2, <3>3, <4>1
          DEF SoundOK, Moved, CreatePlaces, HelperPlaces, IsFirst
        <4> QED BY <4>2, <4>3
      <3> QED BY <3>1, <3>2, <3>3
    <2> QED BY <2>3, <2>4
  <1> QED BY <1>4, <1>5, <1>6

LEMMA HelperStepKeepsSound ==
    ASSUME TypeOK, NEW r \in Requests, pc[r] # "idle", HandlerOK(r), FreshOK(r),
           binding'[r] => SoundOK(r), TempStart(r) \/ TempWait(r) \/ TempRemove(r)
    PROVE  FreshOK(r)' /\ (binding'[r] => SoundOK(r)')
  <1> DEFINE wanted == Wanted(job[r].id, job[r].config)
  <1>1. /\ pc[r] \in HelperPlaces /\ todo[r] \in SUBSET Container
        /\ job[r].op = "create" /\ \A d \in todo[r] : d.app = job[r].id
        /\ \A d \in todo[r] : IsFirst(d, todo[r]) => d.kind = "temp-config"
        /\ job' = job
    BY TempStartStep, TempWaitStep, TempRemoveStep
    DEF TempStart, TempWait, TempRemove, TypeOK, HandlerOK, CreatePlaces, HelperPlaces,
        Frame
  <1>2. /\ \A d \in wanted : d \in Container /\ d.kind # "temp-config"
        /\ \A c, d \in todo[r] : IsFirst(c, todo[r]) /\ IsFirst(d, todo[r]) => c = d
    BY <1>1, FirstIsUnique DEF Wanted
  <1>3. ASSUME \A d \in Container : Exists(d)' <=> Exists(d),
               NEW place \in HelperPlaces, Moved(r, place, todo[r])
        PROVE  FreshOK(r)' /\ (binding'[r] => SoundOK(r)')
    <2>1. FreshOK(r)'
      BY <1>1, <1>3 DEF FreshOK, Moved, CreatePlaces, HelperPlaces, IsFirst
    <2>2. binding'[r] => SoundOK(r)'
      BY <1>1, <1>2, <1>3 DEF SoundOK, Moved, CreatePlaces, HelperPlaces, IsFirst
    <2> QED BY <2>1, <2>2
  <1>4. CASE TempStart(r)
    <2>1. PICK c \in todo[r] :
              /\ IsFirst(c, todo[r])
              /\ \/ /\ CanStart(c) /\ EngineStart(c)
                    /\ Continue(r, "tempwait", todo[r]) /\ UNCHANGED binding
                 \/ Fail(r, CanStart(c))
      BY <1>4 DEF TempStart
    <2>2. CASE Fail(r, CanStart(c))
      <3>1. CanStart(c) \in BOOLEAN
        BY DEF CanStart, Exists, IsRunning, JoinsHost
      <3>2. binding'[r] => CanStart(c)
        BY <1>1, <2>1 DEF SoundOK, CanStart, JoinsHost
      <3>3. ~binding'[r]
        BY <2>2, <3>1, <3>2, FailReason
      <3> QED BY <2>2, <3>3, FailFrame, EndedSound
    <2>3. CASE /\ CanStart(c) /\ EngineStart(c)
               /\ Continue(r, "tempwait", todo[r]) /\ UNCHANGED binding
      <3>1. \A d \in Container : Exists(d)' <=> Exists(d)
        BY <1>1, <2>3 DEF EngineStart, CanStart, IsRunning, Exists, TypeOK, EngineTypeOK
      <3>2. CASE Ended(r, {"gone"})
        BY <3>2, EndedSound DEF Ended
      <3>3. CASE Moved(r, "tempwait", todo[r])
        BY <1>3, <3>1, <3>3 DEF HelperPlaces
      <3> QED BY <2>3, <3>2, <3>3, ContinueFrame
    <2> QED BY <2>1, <2>2, <2>3
  <1>5. CASE TempWait(r)
    <2>1. CASE Ended(r, {"gone"})
      BY <2>1, EndedSound DEF Ended
    <2>2. CASE container' = container /\ Moved(r, "tempremove", todo[r])
      BY <1>3, <2>2 DEF HelperPlaces, Exists
    <2> QED BY <1>5, <2>1, <2>2, TempWaitStep
  <1>6. CASE TempRemove(r)
    <2>1. PICK c \in todo[r] :
              /\ IsFirst(c, todo[r])
              /\ \/ /\ ForceRemove(c) /\ AfterCreated(r, todo[r] \ {c})
                    /\ UNCHANGED binding
                 \/ Fail(r, Exists(c))
      BY <1>6 DEF TempRemove
    <2>2. CASE Fail(r, Exists(c))
      <3>1. Exists(c) \in BOOLEAN
        BY DEF Exists
      <3>2. binding'[r] => Exists(c)
        BY <1>1, <2>1 DEF SoundOK
      <3>3. ~binding'[r]
        BY <2>2, <3>1, <3>2, FailReason
      <3> QED BY <2>2, <3>3, FailFrame, EndedSound
    <2>3. CASE /\ ForceRemove(c) /\ AfterCreated(r, todo[r] \ {c})
               /\ UNCHANGED binding
      <3>1. c.kind = "temp-config" /\ Halt(c, "absent")
        BY <1>1, <2>1, <2>3 DEF ForceRemove, EngineRemove
      <3>2. \A d \in Container : d # c => (Exists(d)' <=> Exists(d))
        BY <1>1, <3>1, HaltTouches DEF Exists
      <3>3. \A d \in todo[r] \ {c} : ~Exists(d)'
        BY <1>1, <1>2, <2>1, <3>2 DEF FreshOK, CreatePlaces
      <3>4. binding[r] => \A d \in wanted \ (todo[r] \ {c}) : Exists(d)'
        BY <1>1, <1>2, <2>3, <3>1, <3>2 DEF SoundOK, CreatePlaces
      <3> QED BY <1>1, <2>3, <3>3, <3>4, AfterCreatedSound
    <2> QED BY <2>1, <2>2, <2>3
  <1> QED BY <1>4, <1>5, <1>6

\* A start that fails found no host, and the app was not being created.
LEMMA StartStepKeepsSound ==
    ASSUME TypeOK, NEW r \in Requests, pc[r] # "idle", HandlerOK(r),
           binding'[r] => SoundOK(r), StartContainer(r)
    PROVE  FreshOK(r)' /\ (binding'[r] => SoundOK(r)')
  <1> DEFINE host == Host(job[r].id)
  <1>1. /\ pc[r] = "start" /\ todo[r] \in SUBSET Container
        /\ job[r].id \in Ids /\ \A d \in todo[r] : d.app = job[r].id
        /\ job[r].op \in {"start", "create"} /\ job' = job
    BY StartContainerStep DEF StartContainer, TypeOK, Job, HandlerOK, Frame
  <1>2. host \in Container
    BY <1>1, HostFacts
  <1>3. PICK c \in todo[r] :
            /\ IsFirst(c, todo[r])
            /\ \/ /\ CanStart(c) /\ EngineStart(c) /\ UNCHANGED binding
                  /\ Loop(r, "start", todo[r] \ {c},
                          IF job[r].op = "create" THEN "ok" ELSE "ready")
               \/ Fail(r, CanStart(c))
    BY DEF StartContainer
  <1>4. CASE Fail(r, CanStart(c))
    <2>1. /\ container' = container
          /\ pc'[r] = "done" /\ todo'[r] = {} /\ reply'[r] \in {"internal", "gone"}
      BY <1>4, FailFrame DEF Ended
    <2>2. ASSUME binding'[r] PROVE job[r].op = "start" /\ ~Exists(host)
      <3>1. CanStart(c) \in BOOLEAN
        BY DEF CanStart, Exists, IsRunning, JoinsHost
      <3>2. ~CanStart(c)
        BY <1>4, <2>2, <3>1, FailReason
      <3>3. JoinsHost(c) /\ ~IsRunning(host)
        BY <1>1, <2>2, <3>2 DEF SoundOK, CanStart
      <3>4. host \notin todo[r]
        BY <1>1, <1>3, <3>3, HostIsFirst
      <3> QED BY <1>1, <2>2, <3>3, <3>4 DEF SoundOK
    <2> QED
      BY <1>1, <2>1, <2>2 DEF FreshOK, SoundOK, Exists, CreatePlaces, HelperPlaces
  <1>5. CASE /\ CanStart(c) /\ EngineStart(c) /\ UNCHANGED binding
             /\ Loop(r, "start", todo[r] \ {c},
                     IF job[r].op = "create" THEN "ok" ELSE "ready")
    <2>1. /\ \A d \in Container : Exists(d)' <=> Exists(d)
          /\ \A d \in Container : IsRunning(d) => IsRunning(d)'
          /\ IsRunning(c)'
      BY <1>1, <1>5 DEF EngineStart, CanStart, IsRunning, Exists, TypeOK, EngineTypeOK
    <2>2. CASE \E answer \in {"ok", "ready"} :
                  Ended(r, {answer, "gone"}) \/ Ended(r, {"gone"})
      BY <2>2, EndedSound DEF Ended
    <2>3. CASE Moved(r, "start", todo[r] \ {c})
      <3>1. ASSUME binding'[r] PROVE SoundOK(r)'
        <4>1. SoundOK(r)
          BY <3>1
        <4>2. host \in todo[r] \ {c} \/ IsRunning(host)' \/ ~Exists(host)'
          BY <1>1, <1>2, <2>1, <4>1 DEF SoundOK
        <4>3. \A d \in todo[r] \ {c} : Exists(d)' /\ d.kind # "temp-config"
          BY <1>1, <2>1, <4>1 DEF SoundOK
        <4> QED
          BY <1>1, <1>2, <2>1, <2>3, <4>1, <4>2, <4>3
          DEF SoundOK, Moved, CreatePlaces, HelperPlaces
      <3> QED BY <2>3, <3>1 DEF FreshOK, Moved, CreatePlaces, HelperPlaces
    <2> QED BY <1>5, <2>2, <2>3, LoopFrame
  <1> QED BY <1>3, <1>4, <1>5

\* What an operation listed is there.
LEMMA ReadStepKeepsSound ==
    ASSUME TypeOK, NEW r \in Requests, pc[r] # "idle", HandlerOK(r),
           binding'[r] => SoundOK(r), List(r) \/ Inspect(r)
    PROVE  FreshOK(r)' /\ (binding'[r] => SoundOK(r)')
  <1> DEFINE host == Host(job[r].id)
  <1>1. todo[r] \subseteq Container /\ job[r].id \in Ids /\ job' = job
    BY ListStep, InspectStep DEF TypeOK, Job, Frame, List, Inspect, HandlerOK
  <1>2. CASE Inspect(r)
    <2>1. PICK c \in todo[r] :
              \/ /\ Finish(r, IF job[r].op = "output" \/ IsRunning(c)
                              THEN "ok" ELSE "not_found")
                 /\ UNCHANGED <<engineVars, binding>>
              \/ Fail(r, Exists(c))
      BY <1>2 DEF Inspect
    <2>2. CASE Fail(r, Exists(c))
      <3>1. Exists(c) \in BOOLEAN
        BY DEF Exists
      <3>2. binding'[r] => Exists(c)
        BY <1>2 DEF SoundOK, Inspect
      <3>3. ~binding'[r]
        BY <2>2, <3>1, <3>2, FailReason
      <3> QED BY <2>2, <3>3, FailFrame, EndedSound
    <2>3. ASSUME NEW answer \in {"ok", "not_found"}, Finish(r, answer),
                 UNCHANGED <<engineVars, binding>>
          PROVE  FreshOK(r)' /\ (binding'[r] => SoundOK(r)')
      <3>1. Ended(r, {answer, "gone"})
        BY <2>3, FinishFrame
      <3> QED BY <3>1, EndedSound DEF Ended
    <2> QED BY <2>1, <2>2, <2>3
  <1>3. CASE List(r)
    <2>1. CASE Fail(r, TRUE)
      BY <2>1, FailReason, FailFrame, EndedSound
    <2>2. CASE \E answer \in {"not_found", "ok", "ready", "stopped"} :
                  Finish(r, answer) /\ UNCHANGED <<engineVars, binding>>
      <3>1. PICK answer \in {"not_found", "ok", "ready", "stopped"} :
                Finish(r, answer) /\ UNCHANGED <<engineVars, binding>>
        BY <2>2
      <3>2. Ended(r, {answer, "gone"})
        BY <3>1, FinishFrame
      <3> QED BY <3>2, EndedSound DEF Ended
    <2>3. ASSUME NEW found \in Selected(job[r].op, job[r].id), job[r].op # "status",
                 Continue(r, After(job[r].op), found), UNCHANGED <<engineVars, binding>>
          PROVE  FreshOK(r)' /\ (binding'[r] => SoundOK(r)')
      <3>1. /\ job[r].op \in Operation \ {"create", "status"}
            /\ \A d \in found : d \in Container /\ Exists(d) /\ d.kind # "temp-config"
        <4>1. job[r].op \in Operation \ {"create", "status"}
          BY <1>3, <2>3 DEF List, HandlerOK, TypeOK, Job, Operation
        <4>2. \A op, id : \A S \in Selected(op, id) : S \subseteq Listed(id)
          BY Zenon DEF Selected
        <4> QED BY <2>3, <4>1, <4>2 DEF Listed
      <3>2. job[r].op = "start" => (Exists(host) => host \in found)
        <4>1. \A id : Selected("start", id) = {Listed(id)}
          BY Zenon DEF Selected
        <4> QED BY <1>1, <2>3, <4>1, HostFacts DEF Listed
      <3>3. After(job[r].op) \in {"inspect", "start", "stop", "delete"}
        BY <3>1 DEF After, Operation
      <3>4. After(job[r].op) = "start" => job[r].op = "start"
        BY DEF After
      <3>5. container' = container
        BY <2>3 DEF engineVars
      <3>6. CASE Ended(r, {"gone"})
        BY <3>6, EndedSound DEF Ended
      <3>7. CASE Moved(r, After(job[r].op), found)
        BY <1>1, <3>1, <3>2, <3>3, <3>4, <3>5, <3>7
        DEF FreshOK, SoundOK, Moved, CreatePlaces, HelperPlaces, Exists
      <3> QED BY <2>3, <3>6, <3>7, ContinueFrame
    <2> QED BY <1>3, <2>1, <2>2, <2>3 DEF List, NothingListed, StatusOf
  <1> QED BY <1>2, <1>3

LEMMA OwnStepKeepsSound ==
    ASSUME TypeOK, HandlerInv, SoundInv, NEW r \in Requests, Step(r)
    PROVE  FreshOK(r)' /\ (binding'[r] => SoundOK(r)')
  <1>1. pc[r] # "idle" /\ HandlerOK(r)
    BY StepInFlight DEF InFlight, HandlerInv
  <1>2. FreshOK(r) /\ (binding'[r] => SoundOK(r))
    BY <1>1, StepFrame DEF SoundInv, Frame
  <1>3. CASE StopContainer(r) \/ DeleteContainer(r)
    <2>1. \/ \E answers : Ended(r, answers) /\ "internal" \notin answers
          \/ \E place \in {"stop", "delete"} : \E rest : Moved(r, place, rest)
      <3>1. "internal" \notin {"stopped", "gone"} /\ "internal" \notin {"ok", "gone"}
        OBVIOUS
      <3> QED BY <1>3, <3>1, StopContainerStep, DeleteContainerStep
    <2> QED
      BY <2>1, EndedSound DEF Ended, Moved, FreshOK, SoundOK, CreatePlaces, HelperPlaces
  <1>4. CASE Settle(r)
    BY <1>4, SettleStep, EndedSound DEF Ended
  <1> QED
    BY <1>1, <1>2, <1>3, <1>4, CreateStepKeepsSound, HelperStepKeepsSound,
       StartStepKeepsSound, ReadStepKeepsSound DEF Step

-----------------------------------------------------------------------------
LEMMA ArrivalKeepsSound ==
    ASSUME TypeOK, HandlerInv, CreatedBySomebody, SoundInv,
           NEW q \in Requests, Arrive(q), NEW r \in Requests, pc'[r] # "idle"
    PROVE  FreshOK(r)' /\ (binding'[r] => SoundOK(r)')
  <1>1. container' = container
    BY ArriveFrame
  <1>2. CASE r = q
    <2>1. CASE /\ pc'[r] = "create" /\ ~Drawn(job'[r].id)
               /\ todo'[r] = Plan(job'[r].id, job'[r].config)
      <3>1. \A c \in todo'[r] : ~Exists(c)'
        BY <1>1, <2>1, PlanFacts DEF CreatedBySomebody, Drawn, Creates, Exists, Plan,
           Wanted, Helpers
      <3>2. Wanted(job'[r].id, job'[r].config) \ todo'[r] = {}
        BY <2>1 DEF Plan
      <3> QED BY <2>1, <3>1, <3>2 DEF FreshOK, SoundOK, CreatePlaces, HelperPlaces
    <2>2. CASE pc'[r] = "list"
      BY <2>2 DEF FreshOK, SoundOK, CreatePlaces, HelperPlaces
    <2> QED BY <1>2, <2>1, <2>2, ArriveFrame
  <1>3. CASE r # q
    <2>1. Untouched(r)
      BY <1>3, ArriveFrame
    <2>2. /\ pc[r] # "idle" /\ HandlerOK(r) /\ FreshOK(r)
          /\ binding'[r] => binding[r] /\ SoundOK(r)
      BY <2>1 DEF Untouched, HandlerInv, SoundInv
    <2> QED BY <1>1, <2>1, <2>2, SoundKept DEF Untouched, Exists, IsRunning
  <1> QED BY <1>2, <1>3

LEMMA OutsideKeepsSound ==
    ASSUME TypeOK, HandlerInv, SoundInv,
           \/ \E q \in Requests : Abandon(q)
           \/ \E c \in Container : ContainerExits(c)
           \/ UNCHANGED vars,
           NEW r \in Requests, pc'[r] # "idle"
    PROVE  FreshOK(r)' /\ (binding'[r] => SoundOK(r)')
  <1>1. /\ pc' = pc /\ job' = job /\ todo' = todo /\ reply'[r] \in {reply[r], "gone"}
        /\ binding'[r] => binding[r]
    BY OutsideFrame
  <1>2. /\ pc[r] # "idle" /\ HandlerOK(r) /\ FreshOK(r)
        /\ binding'[r] => binding[r] /\ SoundOK(r)
    BY <1>1 DEF HandlerInv, SoundInv
  <1>3. ASSUME NEW d \in Container, d.app = job[r].id
        PROVE  /\ Exists(d)' <=> Exists(d)
               /\ /\ binding'[r] /\ job[r].op \in {"start", "create"}
                  /\ d.kind # "temp-config"
                  => (IsRunning(d) => IsRunning(d)')
    <2>1. ASSUME NEW c \in Container, ContainerExits(c), container'[d] # container[d]
          PROVE  /\ Exists(d) /\ Exists(d)'
                 /\ /\ binding'[r] /\ job[r].op \in {"start", "create"}
                    /\ d.kind # "temp-config"
                    => IsRunning(d)'
      <3>1. IsRunning(c) /\ Halt(c, "exited")
        BY <2>1 DEF ContainerExits, EngineExit
      <3>2. /\ d.app = c.app
            /\ \/ d = c /\ container'[d] = "exited"
               \/ container[d] = "running" /\ container'[d] = "detached"
        BY <2>1, <3>1, HaltTouches
      <3>3. binding'[r] /\ job[r].op \in {"start", "create"} /\ c.app = job[r].id =>
                c.kind = "temp-config"
        BY <2>1 DEF ContainerExits
      <3> QED BY <1>3, <3>1, <3>2, <3>3 DEF Exists, IsRunning
    <2> QED BY <2>1 DEF Abandon, engineVars, vars, Exists, IsRunning
  <1> QED BY <1>1, <1>2, <1>3, SoundKept

LEMMA SoundInvariant == IInv /\ SoundInv /\ [Next]_vars => SoundInv'
  <1> SUFFICES ASSUME IInv, SoundInv, [Next]_vars, NEW r \in Requests, pc'[r] # "idle"
               PROVE  FreshOK(r)' /\ (binding'[r] => SoundOK(r)')
    BY DEF SoundInv
  <1>1. ASSUME NEW q \in Requests, Step(q)
        PROVE  FreshOK(r)' /\ (binding'[r] => SoundOK(r)')
    BY <1>1, OtherStepKeepsSound, OwnStepKeepsSound DEF IInv
  <1>2. ASSUME NEW q \in Requests, Arrive(q)
        PROVE  FreshOK(r)' /\ (binding'[r] => SoundOK(r)')
    BY <1>2, ArrivalKeepsSound DEF IInv
  <1> QED
    BY <1>1, <1>2, OutsideKeepsSound DEF Next, Terminated, IInv

\* No request ends in InternalError of the program's own doing, as long as
\* no rival operation is under way, but the start of an app without a host.
THEOREM ErrorsComeFromTheEngine == Spec => []OnlyEngineFailsRequests
  <1>1. Init => SoundInv
    BY DEF Init, SoundInv
  <1>2. SoundInv => OnlyEngineFailsRequests
    BY DEF SoundInv, SoundOK, OnlyEngineFailsRequests
  <1> QED BY <1>1, <1>2, SoundInvariant, InductiveInvariant, PTL DEF Spec

-----------------------------------------------------------------------------
(***************************************************************************)
(* Status: what it says agrees with what was answered before.              *)
(***************************************************************************)

\* No answer is given before the end.
Unanswered == \A r \in Requests : pc[r] # "done" => reply[r] \in {"none", "gone"}

\* A start that found anything to start found the host, and it is there
\* until somebody deletes the app.
HostInv ==
    \A r \in Requests :
        /\ pc[r] = "start" \/ (pc[r] = "done" /\ reply[r] = "ready")
        /\ job[r].op = "start"
        /\ ~DeleteBegun(job[r].id)
        => Exists(Host(job[r].id))

LEMMA UnansweredInvariant == TypeOK /\ Unanswered /\ [Next]_vars => Unanswered'
  <1> SUFFICES ASSUME TypeOK, Unanswered, [Next]_vars PROVE Unanswered'
    OBVIOUS
  <1>1. ASSUME NEW q \in Requests, Step(q) PROVE Unanswered'
    <2>1. pc[q] # "done" /\ Frame(q)
      BY <1>1, StepFrame, StepInFlight DEF InFlight
    <2>2. (\E answers : Ended(q, answers)) \/ \E place, rest : Moved(q, place, rest)
      BY <1>1, CreateContainerStep, AfterCreatedFrame, TempStartStep, TempWaitStep,
         TempRemoveStep, ListStep, InspectStep, StartContainerStep, StopContainerStep,
         DeleteContainerStep, SettleStep DEF Step
    <2>3. pc'[q] # "done" => reply'[q] \in {"none", "gone"}
      BY <2>1, <2>2 DEF Ended, Moved, Unanswered
    <2> QED BY <2>1, <2>3 DEF Frame, Untouched, Unanswered
  <1>2. ASSUME NEW q \in Requests, Arrive(q) PROVE Unanswered'
    BY <1>2, ArriveFrame DEF Untouched, Unanswered
  <1>3. CASE \/ \E q \in Requests : Abandon(q)
             \/ \E c \in Container : ContainerExits(c)
             \/ UNCHANGED vars
    BY <1>3, OutsideFrame DEF Unanswered
  <1> QED BY <1>1, <1>2, <1>3 DEF Next, Terminated

\* Where there is a container of an app that nobody deletes, there is its
\* host.
LEMMA HostOfListed ==
    ASSUME TypeOK, CreatedBySomebody, CreationInv,
           NEW id \in Ids, ~DeleteBegun(id), AppContainers(id) # {}
    PROVE  Exists(Host(id))
  <1>1. PICK c \in Container : c.app = id /\ c.kind # "temp-config" /\ Exists(c)
    BY DEF AppContainers
  <1>2. PICK s \in Requests : Creates(s) /\ job[s].id = id
    BY <1>1 DEF CreatedBySomebody
  <1>3. InOrder(s)
    BY <1>2 DEF CreationInv, CreationOK
  <1>4. CASE c = Host(id)
    BY <1>1, <1>4
  <1>5. CASE c # Host(id)
    <2>1. Host(id) \in Wanted(id, job[s].config) /\ Precedes(Host(id), c)
      BY HostFacts DEF Precedes
    <2> QED BY <1>1, <1>2, <1>3, <2>1 DEF InOrder, AppContainers
  <1> QED BY <1>4, <1>5

LEMMA HostInvariant == IInv /\ CreationInv /\ HostInv /\ [Next]_vars => HostInv'
  <1> SUFFICES ASSUME IInv, CreationInv, HostInv, [Next]_vars,
                      NEW r \in Requests, job'[r].op = "start", ~DeleteBegun(job[r].id)',
                      pc'[r] = "start" \/ (pc'[r] = "done" /\ reply'[r] = "ready")
               PROVE  Exists(Host(job[r].id))'
    BY DEF HostInv
  <1>1. TypeOK /\ TypeOK' /\ HandlerInv /\ CreatedBySomebody
    BY NextType DEF IInv
  <1>2. ASSUME NEW q \in Requests, Step(q) PROVE Exists(Host(job[r].id))'
    <2> DEFINE host == Host(job[r].id)
    <2>1. /\ job' = job /\ Frame(q) /\ HandlerOK(q) /\ pc[q] # "idle"
          /\ job[q] \in Job /\ pc'[q] # "idle"
      BY <1>1, <1>2, StepFrame, StepInFlight DEF Frame, HandlerInv, InFlight, TypeOK
    <2>2. \A s \in Requests : pc[s] # "idle" => pc'[s] # "idle"
      BY <2>1 DEF Frame, Untouched
    <2>3. ~DeleteBegun(job[r].id)
      BY <2>1, <2>2 DEF DeleteBegun
    <2>4. /\ job[r].id \in Ids /\ host \in Container
          /\ host.kind = "x11-host" /\ host.app = job[r].id
      <3>1. job[r] \in Job
        BY <1>1, <2>1 DEF TypeOK
      <3> QED BY <3>1, HostFacts DEF Job
    <2>5. Exists(host) => Exists(host)'
      <3>1. CASE container'[host] # container[host]
        <4>1. job[q].id = job[r].id
          BY <1>1, <1>2, <2>4, <3>1, StepTouches
        <4>2. pc[q] # "delete"
          BY <2>1, <2>3, <4>1 DEF DeleteBegun, HandlerOK
        <4> QED
          BY <1>1, <1>2, <2>1, <2>4, <3>1, <4>2, StepTouches
          DEF Exists, CreatePlaces, HelperPlaces
      <3> QED BY <2>1, <3>1 DEF Exists
    <2>6. r = q => ~Settle(r)
      BY <1>1, SettleStep DEF Ended
    <2>7. CASE r # q
      <3>1. pc'[r] = pc[r] /\ reply'[r] = reply[r]
        BY <2>1, <2>7 DEF Frame, Untouched
      <3> QED BY <2>1, <2>3, <2>5, <3>1 DEF HostInv
    <2>8. CASE r = q /\ pc[r] = "start"
      BY <2>1, <2>3, <2>5, <2>8 DEF HostInv
    <2>9. CASE r = q /\ pc[r] = "list" /\ List(r)
      <3>1. PICK found \in Selected(job[r].op, job[r].id) :
                found # {} /\ Moved(r, After(job[r].op), found)
        BY <1>1, <2>1, <2>9, ListStep DEF Ended
      <3>2. \A id : Selected("start", id) = {Listed(id)}
        BY Zenon DEF Selected
      <3>3. AppContainers(job[r].id) # {}
        BY <2>1, <3>1, <3>2 DEF Listed, AppContainers
      <3> QED BY <1>1, <2>1, <2>3, <2>4, <2>5, <3>3, HostOfListed
    <2>10. CASE r = q /\ pc[r] \notin {"start", "list"}
      <3>1. \/ Inspect(r) \/ StopContainer(r) \/ DeleteContainer(r)
            \/ pc[r] \in CreatePlaces
        BY <1>2, <2>6, <2>10
        DEF Step, CreateContainer, TempStart, TempWait, TempRemove, List,
            StartContainer, CreatePlaces, HelperPlaces
      <3>2. pc[r] \notin CreatePlaces
        BY <2>1, <2>10 DEF HandlerOK
      <3> QED
        BY <1>1, <3>1, <3>2, InspectStep, StopContainerStep, DeleteContainerStep
        DEF Ended, Moved
    <2> QED
      BY <1>2, <2>6, <2>7, <2>8, <2>9, <2>10
      DEF Step, CreateContainer, TempStart, TempWait, TempRemove, Inspect,
          StartContainer, StopContainer, DeleteContainer
  <1>3. ASSUME NEW q \in Requests, Arrive(q) PROVE Exists(Host(job[r].id))'
    <2>1. r # q /\ Untouched(r) /\ container' = container
      BY <1>1, <1>3, ArriveFrame
    <2>2. ~DeleteBegun(job[r].id)
      <3>1. \A s \in Requests : pc[s] # "idle" => pc'[s] = pc[s] /\ job'[s] = job[s]
        BY <1>1, <1>3, ArriveFrame DEF Untouched
      <3> QED BY <2>1, <3>1 DEF DeleteBegun, Untouched
    <2> QED BY <2>1, <2>2 DEF HostInv, Untouched, Exists
  <1>4. CASE \/ \E q \in Requests : Abandon(q)
             \/ \E c \in Container : ContainerExits(c)
             \/ UNCHANGED vars
    <2>1. /\ pc' = pc /\ job' = job
          /\ reply'[r] = reply[r] \/ reply'[r] = "gone"
      BY <1>1, <1>4, OutsideFrame
    <2>2. \A d \in Container : Exists(d)' <=> Exists(d)
      <3>1. ASSUME NEW c \in Container, ContainerExits(c), NEW d \in Container
            PROVE  Exists(d)' <=> Exists(d)
        BY <1>1, <3>1, HaltTouches DEF ContainerExits, EngineExit, Exists, IsRunning
      <3> QED BY <1>4, <3>1 DEF Abandon, engineVars, vars, Exists
    <2>3. Host(job[r].id) \in Container
      <3>1. job[r] \in Job
        BY <1>1, <2>1 DEF TypeOK
      <3> QED BY <3>1, HostFacts DEF Job
    <2> QED BY <2>1, <2>2, <2>3 DEF HostInv, DeleteBegun
  <1> QED BY <1>2, <1>3, <1>4 DEF Next, Terminated

\* What a status request is answered follows from the host alone.
LEMMA StatusAnswer ==
    ASSUME TypeOK, Unanswered, [Next]_vars, NEW r \in Requests,
           pc[r] = "list", job[r].op = "status",
           reply'[r] \in {"ready", "stopped", "not_found"}
    PROVE  /\ reply'[r] = "ready" => IsRunning(Host(job[r].id))
           /\ Exists(Host(job[r].id)) /\ IsRunning(Host(job[r].id)) =>
                 reply'[r] = "ready"
  <1> DEFINE host == Host(job[r].id)
  <1>1. reply[r] \in {"none", "gone"} /\ job[r].id \in Ids
    BY DEF Unanswered, TypeOK, Job
  <1>2. ASSUME NEW q \in Requests, Step(q) PROVE q = r
    BY <1>1, <1>2, StepFrame DEF Frame, Untouched
  <1>3. List(r)
    <2>1. ~\E q \in Requests : Arrive(q)
      BY <1>1, ArriveFrame
    <2>2. ~(\/ \E q \in Requests : Abandon(q)
            \/ \E c \in Container : ContainerExits(c)
            \/ UNCHANGED vars)
      BY <1>1, OutsideFrame
    <2>3. Step(r)
      BY <1>2, <2>1, <2>2 DEF Next, Terminated
    <2>4. ~Settle(r)
      BY <1>1, SettleStep DEF Ended
    <2> QED
      BY <2>3, <2>4
      DEF Step, CreateContainer, TempStart, TempWait, TempRemove, Inspect,
          StartContainer, StopContainer, DeleteContainer
  <1>4. ~Fail(r, TRUE)
    BY FailFrame DEF Ended
  <1>5. PICK found \in Selected(job[r].op, job[r].id) :
            \/ found = {} /\ Finish(r, NothingListed(job[r].op))
            \/ found # {} /\ Finish(r, StatusOf(job[r].id))
    BY <1>3, <1>4 DEF List
  <1>6. found = Listed(job[r].id)
    <2>1. \A id : Selected("status", id) = {Listed(id)}
      BY Zenon DEF Selected
    <2> QED BY <1>5, <2>1
  <1>7. Exists(host) => found # {}
    BY <1>1, <1>6, HostFacts DEF Listed
  <1>8. \A answer : Finish(r, answer) => reply'[r] = answer \/ reply'[r] = "gone"
    BY DEF Finish, TypeOK
  <1> QED BY <1>5, <1>7, <1>8 DEF NothingListed, StatusOf

\* A status never contradicts an answer that still binds, but for an app
\* that lost its host to a delete.
THEOREM StatusAgreesWithAnswers == Spec => StatusAgrees
  <1> DEFINE Agrees ==
          \A r, s \in Requests :
            /\ pc[r] = "list" /\ job[r].op = "status"
            /\ reply'[r] \in {"ready", "stopped", "not_found"}
            /\ pc[s] = "done" /\ job[s].id = job[r].id
            => /\ \/ Promised(s, "start", "ready")
                  \/ Promised(s, "create", "ok") /\ job[s].config.autostart
                  => reply'[r] = "ready" \/ (DeleteBegun(job[r].id) /\ ~Exists(Host(job[r].id)))
               /\ Promised(s, "stop", "stopped") => reply'[r] # "ready"
  <1>1. Init => Unanswered /\ HostInv
    BY DEF Init, Unanswered, HostInv
  <1>2. IInv /\ CreationInv /\ Unanswered /\ HostInv /\ [Next]_vars =>
            Unanswered' /\ HostInv'
    BY UnansweredInvariant, HostInvariant DEF IInv
  <1>3. IInv /\ CreationInv /\ Unanswered /\ HostInv /\ [Next]_vars => [Agrees]_vars
    <2> SUFFICES ASSUME IInv, CreationInv, Unanswered, HostInv, [Next]_vars,
                        NEW r \in Requests, NEW s \in Requests,
                        pc[r] = "list", job[r].op = "status",
                        reply'[r] \in {"ready", "stopped", "not_found"},
                        pc[s] = "done", job[s].id = job[r].id
                 PROVE  /\ \/ Promised(s, "start", "ready")
                           \/ Promised(s, "create", "ok") /\ job[s].config.autostart
                           => \/ reply'[r] = "ready"
                              \/ (DeleteBegun(job[r].id) /\ ~Exists(Host(job[r].id)))
                        /\ Promised(s, "stop", "stopped") => reply'[r] # "ready"
      OBVIOUS
    <2> DEFINE host == Host(job[r].id)
    <2>1. host \in Container /\ host.app = job[r].id /\ host.kind # "temp-config"
      BY HostFacts DEF IInv, TypeOK, Job
    <2>2. /\ reply'[r] = "ready" => IsRunning(host)
          /\ Exists(host) /\ IsRunning(host) => reply'[r] = "ready"
      BY StatusAnswer DEF IInv
    <2>3. binding[s] => LoopInv(s)
      BY DEF IInv, PromiseInv
    <2>4. IsRunning(host) => host \in AppContainers(job[r].id)
      BY <2>1 DEF AppContainers, Exists, IsRunning
    <2>5. Exists(host) => host \in AppContainers(job[r].id)
      BY <2>1 DEF AppContainers
    <2>6. ASSUME \/ Promised(s, "start", "ready")
                 \/ Promised(s, "create", "ok") /\ job[s].config.autostart
          PROVE  reply'[r] = "ready" \/ (DeleteBegun(job[r].id) /\ ~Exists(host))
      <3>1. AllRunning(AppContainers(job[r].id))
        BY <2>3, <2>6 DEF Promised, LoopInv
      <3>2. Exists(host) => reply'[r] = "ready"
        BY <2>2, <2>5, <3>1 DEF AllRunning
      <3>3. ~DeleteBegun(job[r].id) => Exists(host)
        <4>1. CASE Promised(s, "start", "ready")
          BY <4>1 DEF HostInv, Promised
        <4>2. CASE Promised(s, "create", "ok")
          BY <2>1, <4>2, HostFacts
          DEF CreationInv, CreationOK, Creates, Promised, IInv, TypeOK, Job
        <4> QED BY <2>6, <4>1, <4>2
      <3> QED BY <3>2, <3>3
    <2>7. ASSUME Promised(s, "stop", "stopped") PROVE reply'[r] # "ready"
      BY <2>2, <2>3, <2>4, <2>7 DEF Promised, LoopInv
    <2> QED BY <2>6, <2>7
  <1> QED
    BY <1>1, <1>2, <1>3, InductiveInvariant, CreationProgress, PTL DEF Spec, StatusAgrees

=============================================================================
