------------------------ MODULE DockerPromiseProofs ------------------------
(***************************************************************************)
(* What an answer of the Docker backend promises, and for how long: proofs *)
(* of Isolation, DeletedStaysGone, StoppedStaysStopped and                 *)
(* StartedStaysRunning.                                                    *)
(*                                                                         *)
(* The inductive invariant: HandlerInv says what a handler holds at each   *)
(* place of its code; OneCreator and CreatedBySomebody say whose containers*)
(* exist; PromiseInv says, of each request whose promise still binds, that *)
(* no rival is under way and which containers its loop has dealt with.     *)
(***************************************************************************)
EXTENDS DockerBackendProofs

HelperPlaces == {"tempstart", "tempwait", "tempremove"}

CreatePlaces == {"create"} \cup HelperPlaces

\* A handler works on containers of its own app, and is only where the code
\* of its operation can be.
HandlerOK(r) ==
    /\ \A c \in todo[r] : c.app = job[r].id
    /\ pc[r] \in CreatePlaces =>
          /\ job[r].op = "create"
          /\ todo[r] \subseteq Plan(job[r].id, job[r].config)
    /\ pc[r] \in HelperPlaces =>
          \A c \in todo[r] : IsFirst(c, todo[r]) => c.kind = "temp-config"
    /\ pc[r] = "list" => job[r].op # "create"
    /\ pc[r] = "inspect" => job[r].op \in {"addr", "output"}
    /\ pc[r] = "start" =>
          \/ job[r].op = "start" /\ \A c \in todo[r] : c.kind # "temp-config"
          \/ /\ job[r].op = "create" /\ job[r].config.autostart
             /\ todo[r] \subseteq Wanted(job[r].id, job[r].config)
    /\ pc[r] \in {"stop", "delete"} =>
          job[r].op = pc[r] /\ \A c \in todo[r] : c.kind # "temp-config"

HandlerInv == \A r \in Requests : pc[r] # "idle" => HandlerOK(r)

\* Only the request that drew an app's id creates containers of it.
OneCreator ==
    \A r, s \in Requests :
        Creates(r) /\ Creates(s) /\ job[r].id = job[s].id => r = s

\* Containers exist only of apps that were asked for.
CreatedBySomebody ==
    \A c \in Container : Exists(c) =>
        \E r \in Requests :
            Creates(r) /\ job[r].id = c.app /\ c \in Plan(job[r].id, job[r].config)

\* No request under way undoes what r does.
NoRival(r) ==
    \A q \in Requests : q # r /\ InFlight(q) => ~Undoes(job[q], job[r])

\* What the loop of r has achieved so far, and what its answer says.
LoopInv(r) ==
    LET app == AppContainers(job[r].id)
    IN  /\ pc[r] = "delete" => app \subseteq todo[r]
        /\ pc[r] = "stop" => \A c \in app : IsRunning(c) => c \in todo[r]
        /\ pc[r] = "start" => \A c \in app : IsRunning(c) \/ c \in todo[r]
        /\ pc[r] = "done" =>
              /\ job[r].op = "delete" /\ reply[r] = "ok" => app = {}
              /\ job[r].op = "stop" /\ reply[r] = "stopped" =>
                    \A c \in app : ~IsRunning(c)
              /\ \/ job[r].op = "start" /\ reply[r] = "ready"
                 \/ /\ job[r].op = "create" /\ reply[r] = "ok"
                    /\ job[r].config.autostart
                 => AllRunning(app)

PromiseInv ==
    \A r \in Requests : pc[r] # "idle" /\ binding[r] => NoRival(r) /\ LoopInv(r)

-----------------------------------------------------------------------------
(***************************************************************************)
(* Facts about containers and their order.                                 *)
(***************************************************************************)

LEMMA ContainerFacts ==
    \A c \in Container :
        /\ c.kind \in {"x11-host", "docker-daemon", "application", "temp-config"}
        /\ c.index \in Nat
        /\ c.kind \in {"x11-host", "docker-daemon"} => c.index = 0
        /\ \A d \in Container :
              c.app = d.app /\ c.kind = d.kind /\ c.index = d.index => c = d
  BY MaxContainersAssumption DEF Container, Index

LEMMA RankValues ==
    \A c : /\ c.kind = "x11-host" => Rank(c) = 0
           /\ c.kind = "docker-daemon" => Rank(c) = 1
           /\ c.kind = "temp-config" => Rank(c) = 2 + 2 * c.index
           /\ c.kind = "application" => Rank(c) = 3 + 2 * c.index
  BY Zenon DEF Rank

LEMMA RankIsNatural == \A c \in Container : Rank(c) \in Nat
  <1> SUFFICES ASSUME NEW c \in Container PROVE Rank(c) \in Nat
    OBVIOUS
  <1>1. c.index \in Nat
    BY ContainerFacts
  <1>2. 2 + 2 * c.index \in Nat /\ 3 + 2 * c.index \in Nat
    BY <1>1
  <1>3. c.kind \in {"x11-host", "docker-daemon", "application", "temp-config"}
    BY ContainerFacts
  <1> QED BY <1>2, <1>3, RankValues

\* No two containers of an app have the same rank.
LEMMA RankInjective ==
    \A c, d \in Container : c.app = d.app /\ Rank(c) = Rank(d) => c = d
  <1> SUFFICES ASSUME NEW c \in Container, NEW d \in Container,
                      c.app = d.app, Rank(c) = Rank(d)
               PROVE  c = d
    OBVIOUS
  <1>1. c.index \in Nat /\ d.index \in Nat
    BY ContainerFacts
  <1>2. /\ c.kind \in {"x11-host", "docker-daemon"} => c.index = 0
        /\ d.kind \in {"x11-host", "docker-daemon"} => d.index = 0
        /\ c.kind \in {"x11-host", "docker-daemon", "application", "temp-config"}
        /\ d.kind \in {"x11-host", "docker-daemon", "application", "temp-config"}
    BY ContainerFacts
  <1>3. /\ c.kind = "x11-host" => Rank(c) = 0
        /\ c.kind = "docker-daemon" => Rank(c) = 1
        /\ c.kind = "temp-config" => Rank(c) = 2 + 2 * c.index
        /\ c.kind = "application" => Rank(c) = 3 + 2 * c.index
        /\ d.kind = "x11-host" => Rank(c) = 0
        /\ d.kind = "docker-daemon" => Rank(c) = 1
        /\ d.kind = "temp-config" => Rank(c) = 2 + 2 * d.index
        /\ d.kind = "application" => Rank(c) = 3 + 2 * d.index
    BY RankValues
  <1>4. c.kind = d.kind /\ c.index = d.index
    <2> DEFINE i == c.index
               j == d.index
               n == Rank(c)
    <2> HIDE DEF i, j, n
    <2>1. i \in Nat /\ j \in Nat
      BY <1>1 DEF i, j
    <2>2. /\ c.kind = "x11-host" => n = 0 /\ i = 0
          /\ c.kind = "docker-daemon" => n = 1 /\ i = 0
          /\ c.kind = "temp-config" => n = 2 + 2 * i
          /\ c.kind = "application" => n = 3 + 2 * i
          /\ d.kind = "x11-host" => n = 0 /\ j = 0
          /\ d.kind = "docker-daemon" => n = 1 /\ j = 0
          /\ d.kind = "temp-config" => n = 2 + 2 * j
          /\ d.kind = "application" => n = 3 + 2 * j
      BY <1>2, <1>3 DEF i, j, n
    <2>3. c.kind = d.kind /\ i = j
      BY <1>2, <2>1, <2>2
    <2> QED BY <2>3 DEF i, j
  <1> QED BY <1>4, ContainerFacts

\* So the first of a handler's containers is unique.
LEMMA FirstIsUnique ==
    ASSUME NEW S \in SUBSET Container, \A c, d \in S : c.app = d.app,
           NEW c \in S, NEW d \in S, IsFirst(c, S), IsFirst(d, S)
    PROVE  c = d
  BY RankInjective, RankIsNatural DEF IsFirst

LEMMA PlanFacts ==
    \A id, config : \A c \in Plan(id, config) :
        /\ c.app = id
        /\ c.kind = "temp-config" <=> c \in Helpers(id, config)
        /\ c.kind # "temp-config" <=> c \in Wanted(id, config)
  BY DEF Plan, Wanted, Helpers

-----------------------------------------------------------------------------
(***************************************************************************)
(* What a step leaves alone, and what it can do to a container.            *)
(***************************************************************************)

\* Request r is as it was before the step, except that its promise may have
\* been released.
Untouched(r) ==
    /\ pc'[r] = pc[r] /\ job'[r] = job[r] /\ todo'[r] = todo[r]
    /\ reply'[r] = reply[r]
    /\ binding'[r] => binding[r]

\* The bookkeeping of a step of r: its job stays, other requests are
\* untouched.
Frame(r) ==
    /\ job' = job
    /\ binding'[r] => binding[r]
    /\ \A s \in Requests \ {r} : Untouched(s)

\* The handler is at its end, with one of the answers given; or it is at
\* another place of its code.
Ended(r, answers) == pc'[r] = "done" /\ todo'[r] = {} /\ reply'[r] \in answers

Moved(r, place, rest) == pc'[r] = place /\ todo'[r] = rest /\ reply' = reply

LEMMA FinishFrame ==
    ASSUME TypeOK, NEW r \in Requests, NEW answer, Finish(r, answer),
           \/ UNCHANGED binding
           \/ \E b : binding' = [binding EXCEPT ![r] = @ /\ b]
    PROVE  Frame(r) /\ Ended(r, {answer, "gone"})
  BY DEF TypeOK, Finish, Frame, Untouched, Ended

LEMMA FailFrame ==
    ASSUME TypeOK, NEW r \in Requests, NEW possible, Fail(r, possible)
    PROVE  /\ Frame(r) /\ Ended(r, {"internal", "gone"})
           /\ container' = container
  BY FinishFrame DEF Fail, CallFails, engineVars

LEMMA ContinueFrame ==
    ASSUME TypeOK, NEW r \in Requests, NEW place, NEW rest,
           Continue(r, place, rest),
           \/ UNCHANGED binding
           \/ \E b : binding' = [binding EXCEPT ![r] = @ /\ b]
    PROVE  Frame(r) /\ (Ended(r, {"gone"}) \/ Moved(r, place, rest))
  <1>1. CASE reply[r] = "gone"
    BY <1>1, FinishFrame DEF Continue, Ended
  <1>2. CASE reply[r] # "gone"
    BY <1>2 DEF Continue, TypeOK, Frame, Untouched, Moved
  <1> QED BY <1>1, <1>2

\* Where create_app goes once a container has been dealt with.
LEMMA AfterCreatedFrame ==
    ASSUME TypeOK, NEW r \in Requests, NEW rest, AfterCreated(r, rest),
           UNCHANGED binding
    PROVE  /\ Frame(r)
           /\ \/ Ended(r, {"gone"})
              \/ rest = {} /\ ~job[r].config.autostart /\ Ended(r, {"ok", "gone"})
              \/ rest # {} /\ Moved(r, "create", rest)
              \/ /\ rest = {} /\ job[r].config.autostart
                 /\ Moved(r, "start", Wanted(job[r].id, job[r].config))
  <1>1. CASE rest # {}
    BY <1>1, ContinueFrame DEF AfterCreated
  <1>2. CASE rest = {} /\ job[r].config.autostart
    BY <1>2, ContinueFrame DEF AfterCreated
  <1>3. CASE rest = {} /\ ~job[r].config.autostart
    BY <1>3, FinishFrame DEF AfterCreated
  <1> QED BY <1>1, <1>2, <1>3

LEMMA LoopFrame ==
    ASSUME TypeOK, NEW r \in Requests, NEW place, NEW rest, NEW answer,
           Loop(r, place, rest, answer),
           \/ UNCHANGED binding
           \/ \E b : binding' = [binding EXCEPT ![r] = @ /\ b]
    PROVE  /\ Frame(r)
           /\ \/ Ended(r, {"gone"})
              \/ rest = {} /\ Ended(r, {answer, "gone"})
              \/ rest # {} /\ Moved(r, place, rest)
  BY FinishFrame, ContinueFrame DEF Loop

-----------------------------------------------------------------------------
(***************************************************************************)
(* Each action of a handler, in these terms.                               *)
(***************************************************************************)

\* Container c is put into another state, nothing else happens to any.
Becomes(c, state) == container' = [container EXCEPT ![c] = state]

LEMMA CreateContainerStep ==
    ASSUME TypeOK, NEW r \in Requests, CreateContainer(r)
    PROVE  /\ Frame(r)
           /\ \/ container' = container /\ Ended(r, {"internal", "gone"})
              \/ \E c \in todo[r] :
                    /\ IsFirst(c, todo[r]) /\ ~Exists(c) /\ Becomes(c, "created")
                    /\ \/ Ended(r, {"gone"})
                       \/ c.kind = "temp-config" /\ Moved(r, "tempstart", todo[r])
                       \/ /\ c.kind # "temp-config"
                          /\ AfterCreated(r, todo[r] \ {c}) /\ UNCHANGED binding
  <1>1. PICK c \in todo[r] :
            /\ IsFirst(c, todo[r])
            /\ \/ /\ CanCreate(c)
                  /\ EngineCreate(c, Mounted(c, job[r].config))
                  /\ IF c.kind = "temp-config"
                     THEN Continue(r, "tempstart", todo[r])
                     ELSE AfterCreated(r, todo[r] \ {c})
                  /\ UNCHANGED binding
               \/ \E possible : Fail(r, possible)
    BY DEF CreateContainer
  <1>2. CASE \E possible : Fail(r, possible)
    BY <1>2, FailFrame
  <1>3. CASE /\ CanCreate(c) /\ EngineCreate(c, Mounted(c, job[r].config))
             /\ c.kind = "temp-config" /\ Continue(r, "tempstart", todo[r])
             /\ UNCHANGED binding
    BY <1>1, <1>3, ContinueFrame DEF EngineCreate, CanCreate, Becomes
  <1>4. CASE /\ CanCreate(c) /\ EngineCreate(c, Mounted(c, job[r].config))
             /\ c.kind # "temp-config" /\ AfterCreated(r, todo[r] \ {c})
             /\ UNCHANGED binding
    BY <1>1, <1>4, AfterCreatedFrame DEF EngineCreate, CanCreate, Becomes
  <1> QED BY <1>1, <1>2, <1>3, <1>4

LEMMA TempStartStep ==
    ASSUME TypeOK, NEW r \in Requests, TempStart(r)
    PROVE  /\ Frame(r)
           /\ \/ container' = container /\ Ended(r, {"internal", "gone"})
              \/ \E c \in todo[r] :
                    /\ IsFirst(c, todo[r]) /\ Exists(c)
                    /\ container' = container \/ Becomes(c, "running")
                    /\ Ended(r, {"gone"}) \/ Moved(r, "tempwait", todo[r])
  <1>1. PICK c \in todo[r] :
            /\ IsFirst(c, todo[r])
            /\ \/ /\ CanStart(c) /\ EngineStart(c)
                  /\ Continue(r, "tempwait", todo[r])
                  /\ UNCHANGED binding
               \/ Fail(r, CanStart(c))
    BY DEF TempStart
  <1>2. CASE Fail(r, CanStart(c))
    BY <1>2, FailFrame
  <1>3. CASE /\ CanStart(c) /\ EngineStart(c) /\ UNCHANGED binding
             /\ Continue(r, "tempwait", todo[r])
    <2>1. container' = container \/ Becomes(c, "running")
      BY <1>3 DEF EngineStart, Becomes, TypeOK, EngineTypeOK
    <2> QED BY <1>1, <1>3, <2>1, ContinueFrame DEF CanStart
  <1> QED BY <1>1, <1>2, <1>3

LEMMA TempWaitStep ==
    ASSUME TypeOK, NEW r \in Requests, TempWait(r)
    PROVE  /\ Frame(r) /\ container' = container
           /\ Ended(r, {"gone"}) \/ Moved(r, "tempremove", todo[r])
  BY ContinueFrame DEF TempWait, engineVars

LEMMA TempRemoveStep ==
    ASSUME TypeOK, NEW r \in Requests, TempRemove(r)
    PROVE  /\ Frame(r)
           /\ \/ container' = container /\ Ended(r, {"internal", "gone"})
              \/ \E c \in todo[r] :
                    /\ IsFirst(c, todo[r]) /\ Exists(c) /\ Halt(c, "absent")
                    /\ AfterCreated(r, todo[r] \ {c}) /\ UNCHANGED binding
  <1>1. PICK c \in todo[r] :
            /\ IsFirst(c, todo[r])
            /\ \/ /\ ForceRemove(c)
                  /\ AfterCreated(r, todo[r] \ {c})
                  /\ UNCHANGED binding
               \/ Fail(r, Exists(c))
    BY DEF TempRemove
  <1>2. CASE Fail(r, Exists(c))
    BY <1>2, FailFrame
  <1>3. CASE ForceRemove(c) /\ AfterCreated(r, todo[r] \ {c}) /\ UNCHANGED binding
    BY <1>1, <1>3, AfterCreatedFrame DEF ForceRemove, EngineRemove
  <1> QED BY <1>1, <1>2, <1>3

LEMMA ListStep ==
    ASSUME TypeOK, NEW r \in Requests, List(r)
    PROVE  /\ Frame(r) /\ container' = container
           /\ \/ Ended(r, {"internal", "gone"})
              \/ job[r].op # "delete" /\ Ended(r, {"not_found", "gone"})
              \/ job[r].op = "status" /\ Ended(r, {"ready", "stopped", "gone"})
              \/ \E found \in Selected(job[r].op, job[r].id) :
                    \/ /\ found = {} /\ Ended(r, {"ok", "gone"})
                       /\ job[r].op = "delete"
                    \/ /\ job[r].op # "status" /\ found # {}
                       /\ Moved(r, After(job[r].op), found)
  <1>1. CASE Fail(r, TRUE)
    BY <1>1, FailFrame
  <1>2. ASSUME NEW found \in Selected(job[r].op, job[r].id), found = {},
               Finish(r, NothingListed(job[r].op)), UNCHANGED <<engineVars, binding>>
        PROVE  /\ Frame(r) /\ container' = container
               /\ \/ job[r].op # "delete" /\ Ended(r, {"not_found", "gone"})
                  \/ job[r].op = "delete" /\ Ended(r, {"ok", "gone"})
    BY <1>2, FinishFrame DEF NothingListed, engineVars
  <1>3. ASSUME job[r].op = "status", Finish(r, StatusOf(job[r].id)),
               UNCHANGED <<engineVars, binding>>
        PROVE  /\ Frame(r) /\ container' = container
               /\ Ended(r, {"ready", "stopped", "gone"})
    BY <1>3, FinishFrame DEF StatusOf, engineVars, Ended
  <1>4. ASSUME NEW found \in Selected(job[r].op, job[r].id), job[r].op # "status", found # {},
               Continue(r, After(job[r].op), found), UNCHANGED <<engineVars, binding>>
        PROVE  /\ Frame(r) /\ container' = container
               /\ Ended(r, {"gone"}) \/ Moved(r, After(job[r].op), found)
    BY <1>4, ContinueFrame DEF engineVars
  <1> QED BY <1>1, <1>2, <1>3, <1>4 DEF List, Ended

LEMMA InspectStep ==
    ASSUME TypeOK, NEW r \in Requests, Inspect(r)
    PROVE  /\ Frame(r) /\ container' = container
           /\ Ended(r, {"ok", "not_found", "internal", "gone"})
  <1>1. \/ \E possible : Fail(r, possible)
        \/ /\ UNCHANGED <<engineVars, binding>>
           /\ \E answer \in {"ok", "not_found"} : Finish(r, answer)
    BY DEF Inspect
  <1>2. CASE \E possible : Fail(r, possible)
    BY <1>2, FailFrame DEF Ended
  <1>3. CASE /\ UNCHANGED <<engineVars, binding>>
             /\ \E answer \in {"ok", "not_found"} : Finish(r, answer)
    BY <1>3, FinishFrame DEF Ended, engineVars
  <1> QED BY <1>1, <1>2, <1>3

LEMMA StartContainerStep ==
    ASSUME TypeOK, NEW r \in Requests, StartContainer(r)
    PROVE  /\ Frame(r)
           /\ \/ container' = container /\ Ended(r, {"internal", "gone"})
              \/ \E c \in todo[r] :
                    /\ Exists(c)
                    /\ \/ IsRunning(c) /\ container' = container
                       \/ ~IsRunning(c) /\ Becomes(c, "running")
                    /\ \/ Ended(r, {"gone"})
                       \/ /\ todo[r] \ {c} = {}
                          /\ Ended(r, {IF job[r].op = "create" THEN "ok" ELSE "ready", "gone"})
                       \/ todo[r] \ {c} # {} /\ Moved(r, "start", todo[r] \ {c})
  <1>1. PICK c \in todo[r] :
            \/ /\ CanStart(c) /\ EngineStart(c) /\ UNCHANGED binding
               /\ Loop(r, "start", todo[r] \ {c},
                       IF job[r].op = "create" THEN "ok" ELSE "ready")
            \/ Fail(r, CanStart(c))
    BY DEF StartContainer
  <1>2. CASE Fail(r, CanStart(c))
    BY <1>2, FailFrame
  <1>3. CASE /\ CanStart(c) /\ EngineStart(c) /\ UNCHANGED binding
             /\ Loop(r, "start", todo[r] \ {c},
                     IF job[r].op = "create" THEN "ok" ELSE "ready")
    <2>1. \/ IsRunning(c) /\ container' = container
          \/ ~IsRunning(c) /\ Becomes(c, "running")
      BY <1>3 DEF EngineStart, Becomes, TypeOK, EngineTypeOK
    <2>2. Exists(c)
      BY <1>3 DEF CanStart
    <2>3. /\ Frame(r)
          /\ \/ Ended(r, {"gone"})
             \/ /\ todo[r] \ {c} = {}
                /\ Ended(r, {IF job[r].op = "create" THEN "ok" ELSE "ready", "gone"})
             \/ todo[r] \ {c} # {} /\ Moved(r, "start", todo[r] \ {c})
      BY <1>3, LoopFrame
    <2> QED BY <2>1, <2>2, <2>3
  <1> QED BY <1>1, <1>2, <1>3

LEMMA StopContainerStep ==
    ASSUME TypeOK, NEW r \in Requests, StopContainer(r)
    PROVE  \E c \in todo[r] :
              /\ Frame(r)
              /\ \/ Halt(c, "exited") /\ Exists(c)
                 \/ container' = container /\ (binding'[r] => ~IsRunning(c))
              /\ \/ Ended(r, {"gone"})
                 \/ todo[r] \ {c} = {} /\ Ended(r, {"stopped", "gone"})
                 \/ todo[r] \ {c} # {} /\ Moved(r, "stop", todo[r] \ {c})
  <1>1. PICK c \in todo[r] :
            /\ \/ Exists(c) /\ EngineStop(c) /\ UNCHANGED binding
               \/ CallFails(r, Exists(c))
            /\ Loop(r, "stop", todo[r] \ {c}, "stopped")
    BY DEF StopContainer
  <1>2. \/ /\ Exists(c) /\ Halt(c, "exited") /\ UNCHANGED binding
        \/ /\ ~IsRunning(c) /\ container' = container /\ UNCHANGED binding
        \/ CallFails(r, Exists(c))
    BY <1>1 DEF EngineStop
  <1>3. ~Exists(c) => ~IsRunning(c)
    BY DEF Exists, IsRunning
  <1>4. CASE Exists(c) /\ Halt(c, "exited") /\ UNCHANGED binding
    BY <1>1, <1>4, LoopFrame
  <1>5. CASE ~IsRunning(c) /\ container' = container /\ UNCHANGED binding
    BY <1>1, <1>5, LoopFrame
  <1>6. CASE CallFails(r, Exists(c))
    <2>1. container' = container /\ (binding'[r] => ~Exists(c))
      BY <1>6 DEF CallFails, engineVars, TypeOK
    <2>2. \E b : binding' = [binding EXCEPT ![r] = @ /\ b]
      BY <1>6 DEF CallFails
    <2> QED BY <1>1, <1>3, <2>1, <2>2, LoopFrame
  <1> QED BY <1>2, <1>4, <1>5, <1>6

LEMMA DeleteContainerStep ==
    ASSUME TypeOK, NEW r \in Requests, DeleteContainer(r)
    PROVE  \E c \in todo[r] :
              /\ Frame(r)
              /\ \/ Halt(c, "absent")
                 \/ container' = container /\ (binding'[r] => ~Exists(c))
              /\ \/ Ended(r, {"gone"})
                 \/ todo[r] \ {c} = {} /\ Ended(r, {"ok", "gone"})
                 \/ todo[r] \ {c} # {} /\ Moved(r, "delete", todo[r] \ {c})
  <1>1. PICK c \in todo[r] :
            /\ \/ ForceRemove(c) /\ UNCHANGED binding
               \/ CallFails(r, Exists(c))
            /\ Loop(r, "delete", todo[r] \ {c}, "ok")
    BY DEF DeleteContainer
  <1>2. CASE ForceRemove(c) /\ UNCHANGED binding
    BY <1>1, <1>2, LoopFrame DEF ForceRemove, EngineRemove
  <1>3. CASE CallFails(r, Exists(c))
    <2>1. container' = container /\ (binding'[r] => ~Exists(c))
      BY <1>3 DEF CallFails, engineVars, TypeOK
    <2>2. \E b : binding' = [binding EXCEPT ![r] = @ /\ b]
      BY <1>3 DEF CallFails
    <2> QED BY <1>1, <2>1, <2>2, LoopFrame
  <1> QED BY <1>1, <1>2, <1>3

LEMMA SettleStep ==
    ASSUME TypeOK, NEW r \in Requests, Settle(r)
    PROVE  Frame(r) /\ container' = container /\ Ended(r, {"gone"})
  BY FinishFrame DEF Settle, engineVars, Ended

-----------------------------------------------------------------------------
(***************************************************************************)
(* HandlerInv is invariant.                                                *)
(***************************************************************************)

LEMMA EndedOK ==
    ASSUME NEW r \in Requests, NEW answers, Ended(r, answers)
    PROVE  HandlerOK(r)'
  BY DEF HandlerOK, Ended, CreatePlaces, HelperPlaces

\* The two ways create_app goes on after a container.
LEMMA AfterCreatedOK ==
    ASSUME TypeOK, NEW r \in Requests, HandlerOK(r), pc[r] \in CreatePlaces,
           NEW c \in todo[r], AfterCreated(r, todo[r] \ {c}), UNCHANGED binding
    PROVE  HandlerOK(r)'
  <1> DEFINE rest == todo[r] \ {c}
  <1>1. job' = job
    BY AfterCreatedFrame DEF Frame
  <1>2. /\ \A d \in rest : d.app = job[r].id
        /\ rest \subseteq Plan(job[r].id, job[r].config)
        /\ job[r].op = "create"
    BY DEF HandlerOK
  <1>3. CASE \E answers : Ended(r, answers)
    BY <1>3, EndedOK
  <1>4. CASE Moved(r, "create", rest)
    BY <1>1, <1>2, <1>4 DEF HandlerOK, Moved, CreatePlaces, HelperPlaces
  <1>5. CASE /\ job[r].config.autostart
             /\ Moved(r, "start", Wanted(job[r].id, job[r].config))
    <2>1. \A d \in Wanted(job[r].id, job[r].config) : d.app = job[r].id
      BY DEF Wanted
    <2> QED
      BY <1>1, <1>2, <1>5, <2>1 DEF HandlerOK, Moved, CreatePlaces, HelperPlaces
  <1> QED BY <1>3, <1>4, <1>5, AfterCreatedFrame

LEMMA StepInFlight ==
    ASSUME NEW r \in Requests, Step(r)
    PROVE  InFlight(r)
  BY DEF Step, CreateContainer, TempStart, TempWait, TempRemove, List, Inspect,
         StartContainer, StopContainer, DeleteContainer, Settle, InFlight

LEMMA HandlerStep ==
    ASSUME TypeOK, HandlerInv, NEW r \in Requests, Step(r)
    PROVE  HandlerOK(r)'
  <1> USE DEF CreatePlaces, HelperPlaces
  <1>0. pc[r] # "idle" /\ HandlerOK(r) /\ todo[r] \subseteq Container
    BY StepInFlight DEF InFlight, HandlerInv, TypeOK
  <1>1. ASSUME NEW answers, Ended(r, answers) PROVE HandlerOK(r)'
    BY <1>1, EndedOK
  <1>2. CASE CreateContainer(r)
    <2>1. job' = job /\ pc[r] = "create"
      BY <1>2, CreateContainerStep DEF Frame, CreateContainer
    <2>2. ASSUME NEW c \in todo[r], c.kind = "temp-config", IsFirst(c, todo[r]),
                 Moved(r, "tempstart", todo[r])
          PROVE  HandlerOK(r)'
      <3>1. \A d \in todo[r] : IsFirst(d, todo[r]) => d.kind = "temp-config"
        BY <1>0, <2>2, FirstIsUnique DEF HandlerOK
      <3> QED BY <1>0, <2>1, <2>2, <3>1 DEF HandlerOK, Moved
    <2>3. ASSUME NEW c \in todo[r], AfterCreated(r, todo[r] \ {c}), UNCHANGED binding
          PROVE  HandlerOK(r)'
      BY <1>0, <2>1, <2>3, AfterCreatedOK
    <2> QED BY <1>1, <1>2, <2>2, <2>3, CreateContainerStep
  <1>3. CASE TempStart(r)
    <2>1. job' = job /\ pc[r] = "tempstart"
      BY <1>3, TempStartStep DEF Frame, TempStart
    <2>2. CASE Moved(r, "tempwait", todo[r])
      BY <1>0, <2>1, <2>2 DEF HandlerOK, Moved
    <2> QED BY <1>1, <1>3, <2>2, TempStartStep
  <1>4. CASE TempWait(r)
    <2>1. job' = job /\ pc[r] = "tempwait"
      BY <1>4, TempWaitStep DEF Frame, TempWait
    <2>2. CASE Moved(r, "tempremove", todo[r])
      BY <1>0, <2>1, <2>2 DEF HandlerOK, Moved
    <2> QED BY <1>1, <1>4, <2>2, TempWaitStep
  <1>5. CASE TempRemove(r)
    <2>1. pc[r] = "tempremove"
      BY <1>5 DEF TempRemove
    <2> QED BY <1>0, <1>1, <1>5, <2>1, TempRemoveStep, AfterCreatedOK
  <1>6. CASE List(r)
    <2>1. job' = job /\ pc[r] = "list" /\ job[r].op # "create" /\ job[r].op \in Operation
      BY <1>0, <1>6, ListStep DEF Frame, List, HandlerOK, TypeOK, Job, Operation
    <2>2. ASSUME NEW found \in Selected(job[r].op, job[r].id), job[r].op # "status",
                 Moved(r, After(job[r].op), found)
          PROVE  HandlerOK(r)'
      <3>1. \A c \in found : c.app = job[r].id /\ c.kind # "temp-config"
        BY Zenon DEF Selected, Listed
      <3>2. After(job[r].op) \in {"inspect", "start", "stop", "delete"}
        BY <2>1, <2>2 DEF After, Operation
      <3>4. After(job[r].op) = "inspect" => job[r].op \in {"addr", "output"}
        BY <2>1, <2>2 DEF After, Operation
      <3>3. After(job[r].op) # "inspect" => After(job[r].op) = job[r].op
        BY DEF After
      <3> QED BY <2>1, <2>2, <3>1, <3>2, <3>3, <3>4 DEF HandlerOK, Moved
    <2> QED BY <1>1, <1>6, <2>2, ListStep
  <1>7. CASE Inspect(r)
    BY <1>1, <1>7, InspectStep
  <1>8. CASE StartContainer(r)
    <2>1. job' = job /\ pc[r] = "start"
      BY <1>8, StartContainerStep DEF Frame, StartContainer
    <2>2. ASSUME NEW c \in todo[r], Moved(r, "start", todo[r] \ {c})
          PROVE  HandlerOK(r)'
      BY <1>0, <2>1, <2>2 DEF HandlerOK, Moved
    <2> QED BY <1>1, <1>8, <2>2, StartContainerStep
  <1>9. CASE StopContainer(r)
    <2>1. job' = job /\ pc[r] = "stop"
      BY <1>9, StopContainerStep DEF Frame, StopContainer
    <2>2. ASSUME NEW c \in todo[r], Moved(r, "stop", todo[r] \ {c})
          PROVE  HandlerOK(r)'
      BY <1>0, <2>1, <2>2 DEF HandlerOK, Moved
    <2> QED BY <1>1, <1>9, <2>2, StopContainerStep
  <1>10. CASE DeleteContainer(r)
    <2>1. job' = job /\ pc[r] = "delete"
      BY <1>10, DeleteContainerStep DEF Frame, DeleteContainer
    <2>2. ASSUME NEW c \in todo[r], Moved(r, "delete", todo[r] \ {c})
          PROVE  HandlerOK(r)'
      BY <1>0, <2>1, <2>2 DEF HandlerOK, Moved
    <2> QED BY <1>1, <1>10, <2>2, DeleteContainerStep
  <1>11. CASE Settle(r)
    BY <1>1, <1>11, SettleStep
  <1> QED
    BY <1>2, <1>3, <1>4, <1>5, <1>6, <1>7, <1>8, <1>9, <1>10, <1>11 DEF Step

LEMMA StepFrame ==
    ASSUME TypeOK, NEW r \in Requests, Step(r)
    PROVE  Frame(r)
  BY CreateContainerStep, TempStartStep, TempWaitStep, TempRemoveStep, ListStep,
     InspectStep, StartContainerStep, StopContainerStep, DeleteContainerStep,
     SettleStep DEF Step

\* A request that arrives: nobody else's bookkeeping changes, and nobody's
\* promise outlives the arrival of a rival.
LEMMA ArriveFrame ==
    ASSUME TypeOK, NEW r \in Requests, Arrive(r)
    PROVE  /\ pc[r] = "idle" /\ container' = container /\ reply' = reply
           /\ job'[r] \in Job
           /\ \A s \in Requests \ {r} :
                 /\ Untouched(s)
                 /\ binding'[s] => ~Undoes(job'[r], job[s])
           /\ binding'[r] =>
                 \A q \in Requests : InFlight(q) => ~Undoes(job[q], job'[r])
           /\ \/ /\ pc'[r] = "create" /\ job'[r].op = "create" /\ ~Drawn(job'[r].id)
                 /\ todo'[r] = Plan(job'[r].id, job'[r].config)
              \/ pc'[r] = "list" /\ job'[r].op # "create" /\ todo'[r] = {}
  <1>1. ASSUME NEW id \in Ids, NEW config \in Configs, BeginCreate(r, id, config)
        PROVE  \E j \in Job :
                  /\ j.op = "create" /\ ~Drawn(j.id)
                  /\ Accept(r, j, "create", Plan(j.id, j.config))
    <2>1. [op |-> "create", id |-> id, config |-> config] \in Job
      BY RequestAssumption DEF Job
    <2> QED BY <1>1, <2>1 DEF BeginCreate
  <1>2. ASSUME NEW id \in Ids, NEW op \in Ops \ {"create"}, BeginOther(r, op, id)
        PROVE  \E j \in Job : j.op # "create" /\ Accept(r, j, "list", {})
    <2>1. [op |-> op, id |-> id] \in Job
      BY RequestAssumption DEF Job
    <2> QED BY <1>2, <2>1 DEF BeginOther
  <1>3. PICK j \in Job, place \in {"create", "list"}, plan \in SUBSET Container :
            /\ Accept(r, j, place, plan)
            /\ \/ /\ j.op = "create" /\ ~Drawn(j.id)
                  /\ place = "create" /\ plan = Plan(j.id, j.config)
               \/ j.op # "create" /\ place = "list" /\ plan = {}
    <2>1. \A j \in Job : Plan(j.id, j.config) \in SUBSET Container
      BY DEF Plan, Wanted, Helpers
    <2> QED BY <1>1, <1>2, <2>1 DEF Arrive
  <1>4. job'[r] = j /\ pc'[r] = place /\ todo'[r] = plan /\ pc[r] = "idle"
    BY <1>3 DEF Accept, TypeOK
  <1>5. container' = container /\ reply' = reply
    BY <1>3 DEF Accept, engineVars
  <1>6. ASSUME NEW s \in Requests \ {r}
        PROVE  Untouched(s) /\ (binding'[s] => ~Undoes(j, job[s]))
    BY <1>3 DEF Accept, TypeOK, Untouched
  <1>7. binding'[r] => \A q \in Requests : InFlight(q) => ~Undoes(job[q], j)
    BY <1>3 DEF Accept
  <1> QED BY <1>3, <1>4, <1>5, <1>6, <1>7

\* Steps of the environment.
LEMMA OutsideFrame ==
    ASSUME TypeOK,
           \/ \E r \in Requests : Abandon(r)
           \/ \E c \in Container : ContainerExits(c)
           \/ UNCHANGED vars
    PROVE  /\ pc' = pc /\ job' = job /\ todo' = todo
           /\ \A s \in Requests : /\ binding'[s] => binding[s]
                                  /\ reply'[s] = reply[s] \/ reply'[s] = "gone"
  BY DEF Abandon, ContainerExits, vars, TypeOK

LEMMA HandlerInvariant == TypeOK /\ HandlerInv /\ [Next]_vars => HandlerInv'
  <1> SUFFICES ASSUME TypeOK, HandlerInv, [Next]_vars PROVE HandlerInv'
    OBVIOUS
  <1>1. ASSUME NEW r \in Requests, Step(r) PROVE HandlerInv'
    <2> SUFFICES ASSUME NEW s \in Requests, s # r, pc'[s] # "idle"
                 PROVE  HandlerOK(s)'
      BY <1>1, HandlerStep DEF HandlerInv
    <2>1. Untouched(s)
      BY <1>1, StepFrame DEF Frame
    <2> QED BY <2>1 DEF HandlerInv, HandlerOK, Untouched
  <1>2. ASSUME NEW r \in Requests, Arrive(r) PROVE HandlerInv'
    <2>1. HandlerOK(r)'
      BY <1>2, ArriveFrame, PlanFacts DEF HandlerOK, CreatePlaces, HelperPlaces
    <2>2. ASSUME NEW s \in Requests, s # r, pc'[s] # "idle"
          PROVE  HandlerOK(s)'
      <3>1. Untouched(s)
        BY <1>2, <2>2, ArriveFrame
      <3> QED BY <2>2, <3>1 DEF HandlerInv, HandlerOK, Untouched
    <2> QED BY <2>1, <2>2 DEF HandlerInv
  <1>3. ASSUME \/ \E r \in Requests : Abandon(r)
               \/ \E c \in Container : ContainerExits(c)
               \/ UNCHANGED vars
        PROVE  HandlerInv'
    BY <1>3, OutsideFrame DEF HandlerInv, HandlerOK
  <1> QED BY <1>1, <1>2, <1>3 DEF Next, Terminated

\* The request that creates an app is the only one.
LEMMA OneCreatorInvariant == TypeOK /\ OneCreator /\ [Next]_vars => OneCreator'
  <1> SUFFICES ASSUME TypeOK, OneCreator, [Next]_vars PROVE OneCreator'
    OBVIOUS
  <1>1. ASSUME NEW r \in Requests, Step(r) PROVE OneCreator'
    <2>1. \A s \in Requests : pc'[s] # "idle" => pc[s] # "idle"
      BY <1>1, StepFrame, StepInFlight DEF Frame, Untouched, InFlight
    <2>2. job' = job
      BY <1>1, StepFrame DEF Frame
    <2> QED BY <2>1, <2>2 DEF OneCreator, Creates
  <1>2. ASSUME NEW r \in Requests, Arrive(r) PROVE OneCreator'
    <2>1. \A s \in Requests \ {r} : pc'[s] = pc[s] /\ job'[s] = job[s]
      BY <1>2, ArriveFrame DEF Untouched
    <2>2. job'[r].op = "create" => ~Drawn(job'[r].id)
      BY <1>2, ArriveFrame
    <2> QED BY <2>1, <2>2 DEF OneCreator, Creates, Drawn
  <1>3. ASSUME \/ \E r \in Requests : Abandon(r)
               \/ \E c \in Container : ContainerExits(c)
               \/ UNCHANGED vars
        PROVE  OneCreator'
    BY <1>3, OutsideFrame DEF OneCreator, Creates
  <1> QED BY <1>1, <1>2, <1>3 DEF Next, Terminated

-----------------------------------------------------------------------------
(***************************************************************************)
(* What a step can do to one container.                                    *)
(***************************************************************************)

LEMMA HaltTouches ==
    ASSUME TypeOK, NEW c \in Container, NEW state, Halt(c, state),
           NEW d \in Container, container'[d] # container[d]
    PROVE  /\ d.app = c.app
           /\ \/ d = c /\ container'[d] = state
              \/ /\ c.kind = "x11-host" /\ container[d] = "running"
                 /\ container'[d] = "detached" /\ d.kind # "temp-config"
  BY DEF Halt, Host, JoinsHost

\* A handler touches containers of its own app only, and only in the way of
\* the operation it carries out; helpers are nobody's but their creator's.
LEMMA StepTouches ==
    ASSUME TypeOK, HandlerInv, NEW r \in Requests, Step(r),
           NEW d \in Container, container'[d] # container[d]
    PROVE  /\ d.app = job[r].id
           /\ d.kind = "temp-config" => pc[r] \in CreatePlaces
           /\ \/ /\ pc[r] \in CreatePlaces /\ d \in todo[r]
                 /\ d.kind = "temp-config" /\ IsFirst(d, todo[r])
              \/ /\ pc[r] = "create" /\ d \in todo[r] /\ IsFirst(d, todo[r])
                 /\ ~Exists(d) /\ container'[d] = "created"
              \/ pc[r] = "start" /\ Exists(d) /\ container'[d] = "running"
              \/ /\ pc[r] = "stop" /\ Exists(d)
                 /\ \/ container'[d] = "exited"
                    \/ container[d] = "running" /\ container'[d] = "detached"
              \/ /\ pc[r] = "delete"
                 /\ \/ container'[d] = "absent"
                    \/ container[d] = "running" /\ container'[d] = "detached"
  <1> USE DEF CreatePlaces, HelperPlaces
  <1>0. HandlerOK(r) /\ todo[r] \subseteq Container
    BY StepInFlight DEF InFlight, HandlerInv, TypeOK
  <1>1. CASE CreateContainer(r)
    <2>1. PICK c \in todo[r] :
              IsFirst(c, todo[r]) /\ ~Exists(c) /\ Becomes(c, "created")
      BY <1>1, CreateContainerStep
    <2>2. d = c /\ container'[d] = "created"
      BY <1>0, <2>1 DEF Becomes, TypeOK, EngineTypeOK
    <2> QED BY <1>0, <1>1, <2>1, <2>2 DEF HandlerOK, CreateContainer
  <1>2. CASE TempStart(r)
    <2>1. PICK c \in todo[r] : IsFirst(c, todo[r]) /\ Becomes(c, "running")
      BY <1>2, TempStartStep
    <2>2. d = c
      BY <1>0, <2>1 DEF Becomes, TypeOK, EngineTypeOK
    <2> QED BY <1>0, <1>2, <2>1, <2>2 DEF HandlerOK, TempStart
  <1>3. CASE TempRemove(r)
    <2>1. PICK c \in todo[r] : IsFirst(c, todo[r]) /\ Halt(c, "absent")
      BY <1>3, TempRemoveStep
    <2>2. c.kind = "temp-config" /\ c.app = job[r].id /\ pc[r] = "tempremove"
      BY <1>0, <1>3, <2>1 DEF HandlerOK, TempRemove
    <2>3. d = c
      BY <1>0, <2>1, <2>2, HaltTouches
    <2> QED BY <2>1, <2>2, <2>3
  <1>4. CASE StartContainer(r)
    <2>1. PICK c \in todo[r] : Exists(c) /\ Becomes(c, "running")
      BY <1>4, StartContainerStep
    <2>2. d = c /\ container'[d] = "running"
      BY <1>0, <2>1 DEF Becomes, TypeOK, EngineTypeOK
    <2>3. d.kind # "temp-config"
      BY <1>0, <1>4, <2>1, <2>2 DEF HandlerOK, StartContainer, Wanted
    <2> QED BY <1>0, <1>4, <2>1, <2>2, <2>3 DEF HandlerOK, StartContainer
  <1>5. CASE StopContainer(r)
    <2>1. PICK c \in todo[r] : Halt(c, "exited") /\ Exists(c)
      BY <1>5, StopContainerStep
    <2>2. c.app = job[r].id /\ pc[r] = "stop" /\ c.kind # "temp-config"
      BY <1>0, <1>5 DEF HandlerOK, StopContainer
    <2>3. /\ d.app = c.app /\ Exists(d)
          /\ \/ container'[d] = "exited"
             \/ container[d] = "running" /\ container'[d] = "detached"
      BY <1>0, <2>1, HaltTouches DEF Exists
    <2>4. d.kind # "temp-config"
      BY <1>0, <2>1, <2>2, HaltTouches
    <2> QED BY <2>2, <2>3, <2>4
  <1>6. CASE DeleteContainer(r)
    <2>1. PICK c \in todo[r] : Halt(c, "absent")
      BY <1>6, DeleteContainerStep
    <2>2. c.app = job[r].id /\ pc[r] = "delete" /\ c.kind # "temp-config"
      BY <1>0, <1>6 DEF HandlerOK, DeleteContainer
    <2> QED BY <1>0, <2>1, <2>2, HaltTouches
  <1>7. CASE TempWait(r) \/ List(r) \/ Inspect(r) \/ Settle(r)
    BY <1>7, TempWaitStep, ListStep, InspectStep, SettleStep
  <1> QED BY <1>1, <1>2, <1>3, <1>4, <1>5, <1>6, <1>7 DEF Step

LEMMA IsolationStep ==
    ASSUME TypeOK, HandlerInv, [Next]_vars,
           NEW c \in Container, container'[c] # container[c]
    PROVE  /\ \A d \in Container : container'[d] # container[d] => d.app = c.app
           /\ \A r \in Requests :
                 pc'[r] # pc[r] \/ todo'[r] # todo[r] => job[r].id = c.app
  <1>1. ASSUME NEW r \in Requests, Step(r)
        PROVE  /\ \A d \in Container : container'[d] # container[d] => d.app = c.app
               /\ \A s \in Requests :
                     pc'[s] # pc[s] \/ todo'[s] # todo[s] => job[s].id = c.app
    BY <1>1, StepTouches, StepFrame DEF Frame, Untouched
  <1>2. ASSUME NEW d \in Container, ContainerExits(d)
        PROVE  /\ \A e \in Container : container'[e] # container[e] => e.app = c.app
               /\ pc' = pc /\ todo' = todo
    BY <1>2, HaltTouches DEF ContainerExits, EngineExit
  <1>3. ASSUME NEW r \in Requests, Arrive(r) \/ Abandon(r) PROVE FALSE
    BY <1>3, ArriveFrame DEF Abandon, engineVars
  <1>4. CASE UNCHANGED vars
    BY <1>4 DEF vars
  <1> QED BY <1>1, <1>2, <1>3, <1>4 DEF Next, Terminated

-----------------------------------------------------------------------------
(***************************************************************************)
(* PromiseInv is invariant.                                                *)
(***************************************************************************)

LEMMA CreatedBySomebodyInvariant ==
    TypeOK /\ HandlerInv /\ CreatedBySomebody /\ [Next]_vars => CreatedBySomebody'
  <1> SUFFICES ASSUME TypeOK, HandlerInv, CreatedBySomebody, [Next]_vars,
                      NEW c \in Container, Exists(c)'
               PROVE  \E r \in Requests :
                         /\ Creates(r)' /\ job'[r].id = c.app
                         /\ c \in Plan(job'[r].id, job'[r].config)
    BY DEF CreatedBySomebody
  <1>1. ASSUME NEW r \in Requests, Creates(r)
        PROVE  Creates(r)' /\ job'[r] = job[r]
    <2>1. ASSUME NEW s \in Requests, Step(s) PROVE Creates(r)' /\ job'[r] = job[r]
      <3>1. pc'[r] # "idle"
        <4>1. HandlerOK(s)' /\ TypeOK'
          BY <2>1, HandlerStep, NextType DEF Next
        <4>2. CASE r # s
          BY <1>1, <2>1, <4>2, StepFrame DEF Frame, Untouched, Creates
        <4>3. CASE r = s
          BY <1>1, <2>1, <4>1, <4>3, StepFrame DEF Frame, Creates, TypeOK
        <4> QED BY <4>2, <4>3
      <3> QED BY <1>1, <2>1, <3>1, StepFrame DEF Frame, Creates
    <2>2. ASSUME NEW s \in Requests, Arrive(s) PROVE Creates(r)' /\ job'[r] = job[r]
      BY <1>1, <2>2, ArriveFrame DEF Untouched, Creates
    <2> QED
      BY <1>1, <2>1, <2>2, OutsideFrame DEF Next, Terminated, Creates
  <1>2. CASE Exists(c)
    BY <1>1, <1>2 DEF CreatedBySomebody
  <1>3. CASE ~Exists(c)
    <2>1. ASSUME NEW d \in Container, ContainerExits(d) PROVE FALSE
      BY <1>3, <2>1, HaltTouches DEF ContainerExits, EngineExit, Exists, IsRunning
    <2>2. PICK s \in Requests : Step(s)
      BY <1>3, <2>1, ArriveFrame DEF Next, Terminated, Abandon, engineVars, vars, Exists
    <2>3. c.app = job[s].id /\ pc[s] \in CreatePlaces /\ c \in todo[s]
      BY <1>3, <2>2, StepTouches DEF Exists, CreatePlaces
    <2>4. HandlerOK(s) /\ pc[s] # "idle"
      BY <2>2, StepInFlight DEF HandlerInv, InFlight
    <2>5. Creates(s) /\ c \in Plan(job[s].id, job[s].config)
      BY <2>3, <2>4 DEF HandlerOK, Creates
    <2> QED BY <1>1, <2>3, <2>5
  <1> QED BY <1>2, <1>3

\* What others may do to the containers of a request's app without undoing
\* its work keeps what its loop has achieved.
LEMMA LoopKept ==
    ASSUME NEW r \in Requests, LoopInv(r), HandlerOK(r), pc[r] # "idle",
           pc'[r] = pc[r], job'[r] = job[r], todo'[r] = todo[r],
           reply'[r] \in {reply[r], "gone"},
           \A d \in Container : d.app = job[r].id /\ d.kind # "temp-config" =>
              /\ job[r].op = "delete" => (Exists(d)' => Exists(d))
              /\ job[r].op = "stop" => (IsRunning(d)' => IsRunning(d))
              /\ job[r].op = "start" \/ (job[r].op = "create" /\ job[r].config.autostart) =>
                    /\ Exists(d)' => Exists(d)
                    /\ IsRunning(d) => IsRunning(d)'
    PROVE  LoopInv(r)'
  <1>1. CASE job[r].op = "delete"
    BY <1>1 DEF LoopInv, HandlerOK, AppContainers, AllRunning
  <1>2. CASE job[r].op = "stop"
    BY <1>2 DEF LoopInv, HandlerOK, AppContainers, AllRunning, Exists, IsRunning
  <1>3. CASE job[r].op = "start" \/ (job[r].op = "create" /\ job[r].config.autostart)
    BY <1>3 DEF LoopInv, HandlerOK, AppContainers, AllRunning
  <1>4. CASE /\ job[r].op \notin {"start", "stop", "delete"}
             /\ ~(job[r].op = "create" /\ job[r].config.autostart)
    BY <1>4 DEF LoopInv, HandlerOK
  <1> QED BY <1>1, <1>2, <1>3, <1>4

\* A step of a handler that is no rival of r keeps r's promise.
LEMMA OtherStepKeepsPromise ==
    ASSUME TypeOK, HandlerInv, OneCreator, PromiseInv,
           NEW q \in Requests, Step(q), NEW r \in Requests, r # q,
           pc'[r] # "idle", binding'[r]
    PROVE  NoRival(r)' /\ LoopInv(r)'
  <1>1. Untouched(r) /\ job' = job /\ Frame(q)
    BY StepFrame DEF Frame
  <1>2. pc[r] # "idle" /\ binding[r] /\ NoRival(r) /\ LoopInv(r) /\ HandlerOK(r)
    BY <1>1 DEF Untouched, PromiseInv, HandlerInv
  <1>3. InFlight(q) /\ HandlerOK(q) /\ pc[q] # "idle"
    BY StepInFlight DEF InFlight, HandlerInv
  <1>4. ~Undoes(job[q], job[r])
    BY <1>2, <1>3 DEF NoRival
  <1>5. NoRival(r)'
    <2>1. \A s \in Requests : s # r /\ InFlight(s)' => InFlight(s)
      BY <1>1, <1>3 DEF Frame, Untouched, InFlight
    <2> QED BY <1>1, <1>2, <2>1 DEF NoRival
  <1>6. ASSUME NEW d \in Container, d.app = job[r].id, d.kind # "temp-config"
        PROVE  /\ job[r].op = "delete" => (Exists(d)' => Exists(d))
               /\ job[r].op = "stop" => (IsRunning(d)' => IsRunning(d))
               /\ job[r].op = "start" \/ (job[r].op = "create" /\ job[r].config.autostart) =>
                     /\ Exists(d)' => Exists(d)
                     /\ IsRunning(d) => IsRunning(d)'
    <2>1. CASE container'[d] = container[d]
      BY <2>1 DEF Exists, IsRunning
    <2>2. CASE container'[d] # container[d]
      <3>1. job[q].id = job[r].id
        BY <1>6, <2>2, StepTouches
      <3>2. CASE pc[q] = "create" /\ ~Exists(d) /\ container'[d] = "created"
        <4>1. job[q].op = "create"
          BY <1>3, <3>2 DEF HandlerOK, CreatePlaces
        <4>2. job[r].op \notin {"start", "delete"}
          BY <1>4, <3>1, <4>1 DEF Undoes
        <4>3. job[r].op # "create"
          BY <1>2, <1>3, <3>1, <4>1 DEF OneCreator, Creates
        <4> QED BY <3>2, <4>2, <4>3 DEF IsRunning
      <3>3. CASE pc[q] = "start" /\ Exists(d) /\ container'[d] = "running"
        <4>1. job[r].op # "stop"
          BY <1>3, <1>4, <3>1, <3>3 DEF HandlerOK, Undoes
        <4> QED BY <3>3, <4>1 DEF IsRunning
      <3>4. CASE /\ pc[q] = "stop" /\ Exists(d)
                 /\ \/ container'[d] = "exited"
                    \/ container[d] = "running" /\ container'[d] = "detached"
        <4>1. job[q].op = "stop"
          BY <1>3, <3>4 DEF HandlerOK
        <4>2. /\ job[r].op # "start"
              /\ ~(job[r].op = "create" /\ job[r].config.autostart)
          BY <1>4, <3>1, <4>1 DEF Undoes
        <4> QED BY <3>4, <4>2 DEF IsRunning
      <3>5. CASE /\ pc[q] = "delete"
                 /\ \/ container'[d] = "absent"
                    \/ container[d] = "running" /\ container'[d] = "detached"
        <4>1. job[q].op = "delete"
          BY <1>3, <3>5 DEF HandlerOK
        <4>2. job[r].op = "delete"
          BY <1>4, <3>1, <4>1 DEF Undoes
        <4> QED BY <3>5, <4>2 DEF Exists
      <3> QED BY <1>6, <2>2, <3>2, <3>3, <3>4, <3>5, StepTouches
    <2> QED BY <2>1, <2>2
  <1> QED BY <1>1, <1>2, <1>5, <1>6, LoopKept DEF Untouched

\* An answer that promises nothing, or the end of a read.
LEMMA EndedPromisesNothing ==
    ASSUME TypeOK, NEW r \in Requests, job' = job,
           \/ Ended(r, {"internal", "not_found", "gone"})
           \/ /\ job[r].op \notin {"create", "start", "stop", "delete"}
              /\ \E answers : Ended(r, answers)
           \/ /\ job[r].op = "create" /\ ~job[r].config.autostart
              /\ \E answers : Ended(r, answers)
    PROVE  LoopInv(r)'
  BY DEF Ended, LoopInv

LEMMA AfterCreatedKeepsPromise ==
    ASSUME TypeOK, HandlerInv, OneCreator, CreatedBySomebody, CreatedBySomebody',
           NEW r \in Requests, Step(r), pc[r] \in CreatePlaces,
           NEW rest, AfterCreated(r, rest), UNCHANGED binding
    PROVE  LoopInv(r)'
  <1>1. job' = job /\ HandlerOK(r) /\ job[r].op = "create" /\ pc[r] # "idle"
    BY StepFrame, StepInFlight DEF Frame, HandlerInv, InFlight, HandlerOK
  <1>2. CASE Ended(r, {"gone"})
    BY <1>1, <1>2, EndedPromisesNothing DEF Ended
  <1>3. CASE ~job[r].config.autostart /\ Ended(r, {"ok", "gone"})
    BY <1>1, <1>3, EndedPromisesNothing
  <1>4. CASE Moved(r, "create", rest)
    BY <1>4 DEF Moved, LoopInv
  <1>5. CASE Moved(r, "start", Wanted(job[r].id, job[r].config))
    <2>1. ASSUME NEW c \in AppContainers(job[r].id)'
          PROVE  c \in Wanted(job[r].id, job[r].config)
      <3>1. PICK s \in Requests :
                Creates(s)' /\ job[s].id = job[r].id /\ c \in Plan(job[s].id, job[s].config)
        BY <1>1, <2>1 DEF AppContainers, CreatedBySomebody
      <3>2. Creates(s) /\ Creates(r)
        <4>1. pc'[s] # "idle" => pc[s] # "idle"
          BY <1>1, StepFrame DEF Frame, Untouched
        <4> QED BY <1>1, <3>1, <4>1 DEF Creates
      <3>3. s = r
        BY <3>1, <3>2 DEF OneCreator
      <3> QED BY <2>1, <3>1, <3>3, PlanFacts DEF AppContainers
    <2> QED BY <1>1, <1>5, <2>1 DEF Moved, LoopInv
  <1> QED BY <1>2, <1>3, <1>4, <1>5, AfterCreatedFrame

\* The loops: dealing with one more container keeps the loop's invariant.
LEMMA StartLoopKeepsPromise ==
    ASSUME TypeOK, NEW r \in Requests, LoopInv(r), HandlerOK(r), StartContainer(r)
    PROVE  LoopInv(r)'
  <1>1. job' = job /\ pc[r] = "start" /\ todo[r] \subseteq Container
    BY StartContainerStep DEF Frame, StartContainer, TypeOK
  <1>2. CASE Ended(r, {"internal", "gone"})
    BY <1>1, <1>2, EndedPromisesNothing DEF Ended
  <1>3. ASSUME NEW c \in todo[r], Exists(c),
               \/ IsRunning(c) /\ container' = container
               \/ ~IsRunning(c) /\ Becomes(c, "running"),
               \/ \E answers : todo[r] \ {c} = {} /\ Ended(r, answers)
               \/ Moved(r, "start", todo[r] \ {c})
        PROVE  LoopInv(r)'
    <2>1. /\ IsRunning(c)'
          /\ \A d \in Container : d # c => container'[d] = container[d]
          /\ Exists(c)'
      BY <1>1, <1>3 DEF IsRunning, Exists, Becomes, TypeOK, EngineTypeOK
    <2>2. \A d \in AppContainers(job[r].id)' :
              d \in AppContainers(job[r].id) /\ (d = c \/ (IsRunning(d)' <=> IsRunning(d)))
      BY <1>1, <1>3, <2>1 DEF AppContainers, IsRunning, Exists
    <2>3. \A d \in AppContainers(job[r].id)' : IsRunning(d)' \/ d \in todo[r] \ {c}
      BY <1>1, <2>1, <2>2 DEF LoopInv
    <2>4. job[r].op \in {"start", "create"}
      BY <1>1 DEF HandlerOK
    <2> QED BY <1>1, <1>3, <2>3, <2>4 DEF LoopInv, Moved, Ended, AllRunning
  <1>4. \/ Ended(r, {"internal", "gone"})
        \/ \E c \in todo[r] :
              /\ Exists(c)
              /\ \/ IsRunning(c) /\ container' = container
                 \/ ~IsRunning(c) /\ Becomes(c, "running")
              /\ \/ \E answers : todo[r] \ {c} = {} /\ Ended(r, answers)
                 \/ Moved(r, "start", todo[r] \ {c})
    BY StartContainerStep DEF Ended
  <1> QED BY <1>2, <1>3, <1>4

LEMMA StopLoopKeepsPromise ==
    ASSUME TypeOK, NEW r \in Requests, LoopInv(r), HandlerOK(r), StopContainer(r),
           binding'[r]
    PROVE  LoopInv(r)'
  <1>1. /\ job' = job /\ pc[r] = "stop" /\ todo[r] \subseteq Container
        /\ job[r].op = "stop"
    BY StopContainerStep DEF Frame, StopContainer, TypeOK, HandlerOK
  <1>2. PICK c \in todo[r] :
            /\ \/ Halt(c, "exited") /\ Exists(c)
               \/ container' = container /\ ~IsRunning(c)
            /\ \/ Ended(r, {"gone"})
               \/ todo[r] \ {c} = {} /\ Ended(r, {"stopped", "gone"})
               \/ Moved(r, "stop", todo[r] \ {c})
    BY StopContainerStep
  <1>3. \A d \in Container : IsRunning(d)' => IsRunning(d) /\ d # c
    BY <1>1, <1>2, HaltTouches DEF IsRunning, Halt, TypeOK, EngineTypeOK
  <1>4. \A d \in AppContainers(job[r].id)' : IsRunning(d)' => d \in todo[r] \ {c}
    BY <1>1, <1>3 DEF LoopInv, AppContainers, Exists, IsRunning
  <1>5. CASE Ended(r, {"gone"})
    BY <1>1, <1>5, EndedPromisesNothing DEF Ended
  <1> QED BY <1>1, <1>2, <1>4, <1>5 DEF LoopInv, Moved, Ended

LEMMA DeleteLoopKeepsPromise ==
    ASSUME TypeOK, NEW r \in Requests, LoopInv(r), HandlerOK(r), DeleteContainer(r),
           binding'[r]
    PROVE  LoopInv(r)'
  <1>1. /\ job' = job /\ pc[r] = "delete" /\ todo[r] \subseteq Container
        /\ job[r].op = "delete"
    BY DeleteContainerStep DEF Frame, DeleteContainer, TypeOK, HandlerOK
  <1>2. PICK c \in todo[r] :
            /\ \/ Halt(c, "absent")
               \/ container' = container /\ ~Exists(c)
            /\ \/ Ended(r, {"gone"})
               \/ todo[r] \ {c} = {} /\ Ended(r, {"ok", "gone"})
               \/ Moved(r, "delete", todo[r] \ {c})
    BY DeleteContainerStep
  <1>3. \A d \in Container : Exists(d)' => Exists(d) /\ d # c
    BY <1>1, <1>2, HaltTouches DEF Exists, Halt, TypeOK, EngineTypeOK
  <1>4. AppContainers(job[r].id)' \subseteq todo[r] \ {c}
    BY <1>1, <1>3 DEF LoopInv, AppContainers
  <1>5. CASE Ended(r, {"gone"})
    BY <1>1, <1>5, EndedPromisesNothing DEF Ended
  <1> QED BY <1>1, <1>2, <1>4, <1>5 DEF LoopInv, Moved, Ended

\* What a list operation finds is all there is of the app.
LEMMA ListKeepsPromise ==
    ASSUME TypeOK, NEW r \in Requests, HandlerOK(r), List(r)
    PROVE  LoopInv(r)'
  <1>1. job' = job /\ container' = container /\ pc[r] = "list"
    BY ListStep DEF Frame, List
  <1>2. job[r].op # "create"
    BY <1>1 DEF HandlerOK
  <1>3. AppContainers(job[r].id)' = AppContainers(job[r].id)
    BY <1>1 DEF AppContainers, Exists
  <1>4. \A op, id : op \in {"start", "stop", "delete"} =>
            Selected(op, id) = {AppContainers(id)}
    <2>1. \A id : Listed(id) = AppContainers(id)
      BY DEF Listed, AppContainers
    <2> QED BY Zenon, <2>1 DEF Selected
  <1>5. CASE Ended(r, {"internal", "gone"}) \/ Ended(r, {"not_found", "gone"})
    BY <1>1, <1>5, EndedPromisesNothing DEF Ended
  <1>6. CASE job[r].op = "status" /\ Ended(r, {"ready", "stopped", "gone"})
    BY <1>1, <1>6, EndedPromisesNothing
  <1>7. ASSUME NEW found \in Selected(job[r].op, job[r].id), found = {},
               Ended(r, {"ok", "gone"}), job[r].op = "delete"
        PROVE  LoopInv(r)'
    BY <1>1, <1>3, <1>4, <1>7 DEF LoopInv, Ended
  <1>8. ASSUME NEW found \in Selected(job[r].op, job[r].id), job[r].op # "status",
               Moved(r, After(job[r].op), found)
        PROVE  LoopInv(r)'
    <2>1. CASE job[r].op \in {"start", "stop", "delete"}
      BY <1>1, <1>3, <1>4, <1>8, <2>1 DEF LoopInv, Moved, After
    <2>2. CASE job[r].op \notin {"start", "stop", "delete"}
      <3>1. job[r].op \in {"addr", "output"}
        BY <1>1, <1>2, <1>8, <2>2 DEF TypeOK, Job, Operation
      <3> QED BY <1>1, <1>8, <3>1 DEF LoopInv, Moved, After
    <2> QED BY <2>1, <2>2
  <1> QED BY <1>5, <1>6, <1>7, <1>8, ListStep

LEMMA OwnStepKeepsPromise ==
    ASSUME TypeOK, HandlerInv, OneCreator, CreatedBySomebody, CreatedBySomebody',
           PromiseInv, NEW r \in Requests, Step(r), binding'[r]
    PROVE  NoRival(r)' /\ LoopInv(r)'
  <1>1. job' = job /\ pc[r] # "idle" /\ binding[r] /\ HandlerOK(r)
    BY StepFrame, StepInFlight DEF Frame, InFlight, HandlerInv
  <1>2. NoRival(r) /\ LoopInv(r)
    BY <1>1 DEF PromiseInv
  <1>3. NoRival(r)'
    BY <1>1, <1>2, StepFrame DEF NoRival, Frame, Untouched, InFlight
  <1> SUFFICES LoopInv(r)'
    BY <1>3
  <1>4. CASE CreateContainer(r)
    <2>1. pc[r] = "create"
      BY <1>4 DEF CreateContainer
    <2>2. CASE Ended(r, {"internal", "gone"}) \/ Ended(r, {"gone"})
      BY <1>1, <2>2, EndedPromisesNothing DEF Ended
    <2>3. CASE Moved(r, "tempstart", todo[r])
      BY <2>3 DEF Moved, LoopInv
    <2>4. ASSUME NEW rest, AfterCreated(r, rest), UNCHANGED binding PROVE LoopInv(r)'
      BY <2>1, <2>4, AfterCreatedKeepsPromise DEF CreatePlaces
    <2> QED BY <1>4, <2>2, <2>3, <2>4, CreateContainerStep
  <1>5. CASE TempStart(r)
    <2>1. CASE Ended(r, {"internal", "gone"}) \/ Ended(r, {"gone"})
      BY <1>1, <2>1, EndedPromisesNothing DEF Ended
    <2>2. CASE Moved(r, "tempwait", todo[r])
      BY <2>2 DEF Moved, LoopInv
    <2> QED BY <1>5, <2>1, <2>2, TempStartStep
  <1>6. CASE TempWait(r)
    <2>1. CASE Ended(r, {"gone"})
      BY <1>1, <2>1, EndedPromisesNothing DEF Ended
    <2>2. CASE Moved(r, "tempremove", todo[r])
      BY <2>2 DEF Moved, LoopInv
    <2> QED BY <1>6, <2>1, <2>2, TempWaitStep
  <1>7. CASE TempRemove(r)
    <2>1. pc[r] = "tempremove"
      BY <1>7 DEF TempRemove
    <2>2. CASE Ended(r, {"internal", "gone"})
      BY <1>1, <2>2, EndedPromisesNothing DEF Ended
    <2>3. ASSUME NEW rest, AfterCreated(r, rest), UNCHANGED binding PROVE LoopInv(r)'
      BY <2>1, <2>3, AfterCreatedKeepsPromise DEF CreatePlaces, HelperPlaces
    <2> QED BY <1>7, <2>2, <2>3, TempRemoveStep
  <1>8. CASE List(r)
    BY <1>1, <1>8, ListKeepsPromise
  <1>9. CASE Inspect(r)
    <2>1. job[r].op \in {"addr", "output"}
      BY <1>1, <1>9 DEF Inspect, HandlerOK
    <2> QED BY <1>1, <1>9, <2>1, InspectStep, EndedPromisesNothing
  <1>10. CASE StartContainer(r)
    BY <1>1, <1>2, <1>10, StartLoopKeepsPromise
  <1>11. CASE StopContainer(r)
    BY <1>1, <1>2, <1>11, StopLoopKeepsPromise
  <1>12. CASE DeleteContainer(r)
    BY <1>1, <1>2, <1>12, DeleteLoopKeepsPromise
  <1>13. CASE Settle(r)
    BY <1>1, <1>13, SettleStep, EndedPromisesNothing DEF Ended
  <1> QED
    BY <1>4, <1>5, <1>6, <1>7, <1>8, <1>9, <1>10, <1>11, <1>12, <1>13 DEF Step

\* A container that ends by itself releases the starts of its app, and can
\* only help the stops and deletes.
LEMMA ExitKeepsPromise ==
    ASSUME TypeOK, HandlerInv, PromiseInv, NEW c \in Container, ContainerExits(c),
           NEW r \in Requests, pc'[r] # "idle", binding'[r]
    PROVE  NoRival(r)' /\ LoopInv(r)'
  <1>1. /\ pc' = pc /\ job' = job /\ todo' = todo /\ reply' = reply
        /\ Halt(c, "exited") /\ IsRunning(c)
    BY DEF ContainerExits, EngineExit
  <1>2. /\ binding[r]
        /\ ~(/\ c.kind # "temp-config"
             /\ job[r].op \in {"start", "create"} /\ job[r].id = c.app)
    BY DEF ContainerExits
  <1>3. pc[r] # "idle" /\ NoRival(r) /\ LoopInv(r) /\ HandlerOK(r)
    BY <1>1, <1>2 DEF PromiseInv, HandlerInv
  <1>4. ASSUME NEW d \in Container, d.app = job[r].id, d.kind # "temp-config"
        PROVE  /\ Exists(d)' <=> Exists(d)
               /\ IsRunning(d)' => IsRunning(d)
               /\ job[r].op \in {"start", "create"} => (IsRunning(d) => IsRunning(d)')
    <2>1. CASE container'[d] = container[d]
      BY <2>1 DEF Exists, IsRunning
    <2>2. CASE container'[d] # container[d]
      <3>1. /\ d.app = c.app
            /\ \/ d = c /\ container'[d] = "exited"
               \/ container[d] = "running" /\ container'[d] = "detached"
        BY <1>1, <2>2, HaltTouches
      <3>2. CASE d = c /\ container'[d] = "exited"
        BY <1>1, <1>2, <1>4, <3>2 DEF Exists, IsRunning
      <3>3. CASE container[d] = "running" /\ container'[d] = "detached"
        BY <3>3 DEF Exists, IsRunning
      <3> QED BY <3>1, <3>2, <3>3
    <2> QED BY <2>1, <2>2
  <1>5. LoopInv(r)'
    BY <1>1, <1>3, <1>4, LoopKept
  <1>6. NoRival(r)'
    BY <1>1, <1>3 DEF NoRival, InFlight
  <1> QED BY <1>5, <1>6

\* A new request holds no rival's promise, and starts from a clean slate.
LEMMA ArrivalKeepsPromise ==
    ASSUME TypeOK, PromiseInv, NEW q \in Requests, Arrive(q),
           NEW r \in Requests, pc'[r] # "idle", binding'[r]
    PROVE  NoRival(r)' /\ LoopInv(r)'
  <1>1. CASE r = q
    <2>1. pc'[r] \in {"create", "list"}
      BY <1>1, ArriveFrame
    <2>2. ASSUME NEW s \in Requests, s # r, InFlight(s)'
          PROVE  ~Undoes(job'[s], job'[r])
      <3>1. Untouched(s) /\ InFlight(s)
        BY <1>1, <2>2, ArriveFrame DEF Untouched, InFlight
      <3> QED BY <1>1, <3>1, ArriveFrame DEF Untouched
    <2> QED BY <2>1, <2>2 DEF NoRival, LoopInv
  <1>2. CASE r # q
    <2>1. Untouched(r) /\ container' = container /\ ~Undoes(job'[q], job[r])
      BY <1>2, ArriveFrame
    <2>2. NoRival(r) /\ LoopInv(r)
      BY <2>1 DEF Untouched, PromiseInv
    <2>3. LoopInv(r)'
      BY <2>1, <2>2
      DEF LoopInv, Untouched, AppContainers, AllRunning, Exists, IsRunning
    <2>4. ASSUME NEW s \in Requests, s # r, InFlight(s)'
          PROVE  ~Undoes(job'[s], job'[r])
      <3>1. CASE s = q
        BY <2>1, <3>1 DEF Untouched
      <3>2. CASE s # q
        BY <2>1, <2>2, <2>4, <3>2, ArriveFrame DEF Untouched, InFlight, NoRival
      <3> QED BY <3>1, <3>2
    <2> QED BY <2>3, <2>4 DEF NoRival
  <1> QED BY <1>1, <1>2

LEMMA IdleKeepsPromise ==
    ASSUME PromiseInv, TypeOK, (\E q \in Requests : Abandon(q)) \/ UNCHANGED vars
    PROVE  PromiseInv'
  <1> SUFFICES ASSUME NEW r \in Requests, pc'[r] # "idle", binding'[r]
               PROVE  NoRival(r)' /\ LoopInv(r)'
    BY DEF PromiseInv
  <1>1. /\ pc' = pc /\ job' = job /\ todo' = todo /\ binding' = binding
        /\ container' = container /\ reply'[r] \in {reply[r], "gone"}
    BY DEF Abandon, vars, engineVars, TypeOK
  <1>2. NoRival(r) /\ LoopInv(r)
    BY <1>1 DEF PromiseInv
  <1> QED
    BY <1>1, <1>2
    DEF NoRival, LoopInv, InFlight, AppContainers, AllRunning, Exists, IsRunning

-----------------------------------------------------------------------------
(***************************************************************************)
(* The inductive invariant and what follows from it.                       *)
(***************************************************************************)

IInv ==
    /\ TypeOK
    /\ HandlerInv
    /\ OneCreator
    /\ CreatedBySomebody
    /\ PromiseInv

LEMMA InitIInv == Init => IInv
  <1> SUFFICES ASSUME Init PROVE IInv
    OBVIOUS
  <1>1. \A r \in Requests : pc[r] = "idle"
    BY DEF Init
  <1>2. \A c \in Container : ~Exists(c)
    BY DEF Init, EngineInit, Exists
  <1> QED
    BY <1>1, <1>2, InitType
    DEF IInv, HandlerInv, OneCreator, CreatedBySomebody, PromiseInv, Creates

LEMMA NextIInv == IInv /\ [Next]_vars => IInv'
  <1> SUFFICES ASSUME IInv, [Next]_vars PROVE IInv'
    OBVIOUS
  <1>1. TypeOK' /\ HandlerInv' /\ OneCreator' /\ CreatedBySomebody'
    BY NextType, HandlerInvariant, OneCreatorInvariant, CreatedBySomebodyInvariant
    DEF IInv
  <1>2. ASSUME NEW q \in Requests, Step(q) PROVE PromiseInv'
    <2>1. ASSUME NEW r \in Requests, pc'[r] # "idle", binding'[r]
          PROVE  NoRival(r)' /\ LoopInv(r)'
      BY <1>1, <1>2, <2>1, OtherStepKeepsPromise, OwnStepKeepsPromise DEF IInv
    <2> QED BY <2>1 DEF PromiseInv
  <1>3. ASSUME NEW q \in Requests, Arrive(q) PROVE PromiseInv'
    BY <1>3, ArrivalKeepsPromise DEF IInv, PromiseInv
  <1>4. ASSUME NEW c \in Container, ContainerExits(c) PROVE PromiseInv'
    BY <1>4, ExitKeepsPromise DEF IInv, PromiseInv
  <1>5. PromiseInv'
    BY <1>2, <1>3, <1>4, IdleKeepsPromise DEF Next, Terminated, IInv
  <1> QED BY <1>1, <1>5 DEF IInv

\* What a handler has achieved at each place of its code, who may work on an
\* app, and that containers come from creations only.
THEOREM InductiveInvariant == Spec => []IInv
  BY InitIInv, NextIInv, PTL DEF Spec

\* A step touches the containers of one app, and a handler only those of
\* the app its request names.
THEOREM AppsAreIsolated == Spec => Isolation
  <1>1. IInv /\ [Next]_vars =>
            [\A c \in Container : container'[c] # container[c] =>
                /\ \A d \in Container : container'[d] # container[d] => d.app = c.app
                /\ \A r \in Requests :
                      pc'[r] # pc[r] \/ todo'[r] # todo[r] => job[r].id = c.app]_vars
    BY IsolationStep DEF IInv
  <1> QED BY <1>1, InductiveInvariant, PTL DEF Spec, Isolation

\* After an acknowledged delete nothing of the app comes back.
THEOREM DeletedAppsStayGone == Spec => []DeletedStaysGone
  <1>1. IInv => DeletedStaysGone
    BY DEF IInv, PromiseInv, LoopInv, DeletedStaysGone, Promised
  <1> QED BY <1>1, InductiveInvariant, PTL

\* After an acknowledged stop nothing of the app runs until a start.
THEOREM StoppedAppsStayStopped == Spec => []StoppedStaysStopped
  <1>1. IInv => StoppedStaysStopped
    BY DEF IInv, PromiseInv, LoopInv, StoppedStaysStopped, Promised
  <1> QED BY <1>1, InductiveInvariant, PTL

\* After an acknowledged start, or creation with autostart, everything runs
\* until somebody stops or deletes the app or a container ends.
THEOREM StartedAppsStayRunning == Spec => []StartedStaysRunning
  <1>1. IInv => StartedStaysRunning
    BY DEF IInv, PromiseInv, LoopInv, StartedStaysRunning, Promised
  <1> QED BY <1>1, InductiveInvariant, PTL

=============================================================================
