--------------------------- MODULE DockerBackend ---------------------------
(***************************************************************************)
(* The Docker backend (src/backend/docker.rs).  The server keeps no state  *)
(* of its own: every request handler works directly on the engine, one     *)
(* awaited call after another, and nothing orders the calls of different   *)
(* handlers.  Each action below is one engine call, with the code that     *)
(* runs up to the next await.                                              *)
(***************************************************************************)
EXTENDS DockerEngine, FiniteSets

CONSTANTS
    Requests,       \* the HTTP requests served
    Configs,        \* the app configurations clients ask for
    Ops,            \* the operations clients ask for
    Faults,         \* what goes wrong outside the program
    NoJob           \* stands for the job of a request not yet made

Operation == {"create", "start", "stop", "delete", "status", "addr", "output"}

\* What of an AppConfig decides which calls are made: how many containers,
\* which of them have a configuration, the dind sidecar and autostart.
Config ==
    [count : 1 .. MaxContainers, configured : SUBSET Index,
     docker : BOOLEAN, autostart : BOOLEAN]

\* refused: the engine answers a call with an error.  abandoned: the handler
\* is dropped at an await (the client hung up, the server died).
\* waitfailed: waiting for a helper container yields an error.  exits: the
\* process in a container of an app ends by itself.
Fault == {"refused", "abandoned", "waitfailed", "exits"}

Job ==
    [op : {"create"}, id : Ids, config : Config]
        \cup [op : Operation \ {"create"}, id : Ids]

ASSUME RequestAssumption ==
    /\ Configs \subseteq Config
    /\ Ops \subseteq Operation
    /\ Faults \subseteq Fault
    /\ NoJob \notin Job

VARIABLES
    pc,         \* where the handler of a request is
    job,        \* what the request asks for
    todo,       \* the containers its loop has still to visit
    reply,      \* what the client was told
    binding     \* history: nothing that undoes the request has overlapped
                \* or followed it, and none of its calls failed unnoticed

requestVars == <<pc, job, todo, reply, binding>>
vars == <<container, volume, pc, job, todo, reply, binding>>

Place == {"idle", "create", "tempstart", "tempwait", "tempremove", "list",
          "inspect", "start", "stop", "delete", "done"}

Answer == {"none", "ok", "ready", "stopped", "not_found", "internal", "gone"}

TypeOK ==
    /\ EngineTypeOK
    /\ pc \in [Requests -> Place]
    /\ job \in [Requests -> Job \cup {NoJob}]
    /\ todo \in [Requests -> SUBSET Container]
    /\ reply \in [Requests -> Answer]
    /\ binding \in [Requests -> BOOLEAN]
    /\ \A r \in Requests : pc[r] # "idle" <=> job[r] \in Job

Init ==
    /\ EngineInit
    /\ pc = [r \in Requests |-> "idle"]
    /\ job = [r \in Requests |-> NoJob]
    /\ todo = [r \in Requests |-> {}]
    /\ reply = [r \in Requests |-> "none"]
    /\ binding = [r \in Requests |-> FALSE]

-----------------------------------------------------------------------------
(***************************************************************************)
(* The containers an operation works on, and in which order.               *)
(***************************************************************************)

\* create_app's own containers, all of them labelled with the app's id.
Wanted(id, config) ==
    {c \in Container :
        /\ c.app = id
        /\ \/ c.kind = "x11-host"
           \/ c.kind = "docker-daemon" /\ config.docker
           \/ c.kind = "application" /\ c.index < config.count}

\* The helpers that write the configurations; they carry no labels.
Helpers(id, config) ==
    {c \in Container :
        /\ c.app = id
        /\ c.kind = "temp-config"
        /\ c.index < config.count
        /\ c.index \in config.configured}

\* Mutant of Plan: the loop over the containers ends one too early.
PlanSkipsLast(id, config) ==
    {c \in Wanted(id, config) : c.kind = "application" => c.index < config.count - 1}
        \cup Helpers(id, config)

Plan(id, config) == Wanted(id, config) \cup Helpers(id, config)

\* Mutant of Rank: the sidecar is created after the application containers.
RankDaemonLast(c) ==
    CASE c.kind = "x11-host"      -> 0
      [] c.kind = "docker-daemon" -> 2 + 2 * MaxContainers
      [] c.kind = "temp-config"   -> 2 + 2 * c.index
      [] c.kind = "application"   -> 3 + 2 * c.index

\* Mutant of Rank: the x11 host is created and started last.
RankHostLast(c) ==
    CASE c.kind = "x11-host"      -> 2 + 2 * MaxContainers
      [] c.kind = "docker-daemon" -> 1
      [] c.kind = "temp-config"   -> 2 + 2 * c.index
      [] c.kind = "application"   -> 3 + 2 * c.index

\* x11 host, docker daemon, then for each index the helper and the
\* application container.
Rank(c) ==
    CASE c.kind = "x11-host"      -> 0
      [] c.kind = "docker-daemon" -> 1
      [] c.kind = "temp-config"   -> 2 + 2 * c.index
      [] c.kind = "application"   -> 3 + 2 * c.index

IsFirst(c, S) == c \in S /\ \A d \in S : Rank(c) <= Rank(d)

\* Mutant of Listed: without all: true the engine lists what runs only.
ListedRunning(id) ==
    {c \in Container : c.app = id /\ IsRunning(c) /\ c.kind # "temp-config"}

\* Mutant of Listed: the filter on the app's id is left out.
ListedAnyApp(id) ==
    {c \in Container : Exists(c) /\ c.kind # "temp-config"}

\* list_containers with all: true and the app's label.
Listed(id) ==
    {c \in Container : c.app = id /\ Exists(c) /\ c.kind # "temp-config"}

Mounted(c, config) ==
    CASE c.kind = "temp-config" -> {ConfigVolume(c.app, c.index)}
      [] c.kind = "application" ->
            {OutputVolume(c.app)} \cup
                {v \in Volume : /\ v = ConfigVolume(c.app, c.index)
                                /\ c.index \in config.configured}
      [] OTHER -> {}

-----------------------------------------------------------------------------
(***************************************************************************)
(* Moving a handler on.  A dropped handler makes no further call; only the *)
(* one it had sent may still take effect.                                  *)
(***************************************************************************)

InFlight(r) == pc[r] \notin {"idle", "done"}

Finish(r, answer) ==
    /\ pc' = [pc EXCEPT ![r] = "done"]
    /\ todo' = [todo EXCEPT ![r] = {}]
    /\ reply' = [reply EXCEPT ![r] = IF @ = "gone" THEN @ ELSE answer]
    /\ UNCHANGED job

Continue(r, place, rest) ==
    IF reply[r] = "gone" THEN Finish(r, "gone")
    ELSE /\ pc' = [pc EXCEPT ![r] = place]
         /\ todo' = [todo EXCEPT ![r] = rest]
         /\ UNCHANGED <<job, reply>>

\* The loop goes on with the containers that are left, or is over.
Loop(r, place, rest, answer) ==
    IF rest = {} THEN Finish(r, answer) ELSE Continue(r, place, rest)

\* A call that can be done may still be refused by a failing engine.
Refused(possible) == ~possible \/ "refused" \in Faults

\* A call fails, without effect.  If the engine refused what it could have
\* done, r is not held to its promise.
CallFails(r, possible) ==
    /\ Refused(possible)
    /\ binding' = [binding EXCEPT ![r] = @ /\ ~possible]
    /\ UNCHANGED engineVars

\* Mutant of Fail: create_app goes on to its answer after an error.
FailSwallowed(r, possible) ==
    /\ CallFails(r, possible)
    /\ Finish(r, IF pc[r] = "create" THEN "ok" ELSE "internal")

\* `?` on an engine error: InternalError is the answer, nothing is undone.
Fail(r, possible) == CallFails(r, possible) /\ Finish(r, "internal")

-----------------------------------------------------------------------------
(***************************************************************************)
(* A request arrives.  The random id of a new app differs from all others. *)
(***************************************************************************)

Drawn(id) ==
    \E s \in Requests : pc[s] # "idle" /\ job[s].op = "create" /\ job[s].id = id

\* Carrying out job j may undo what carrying out job k has promised.
Undoes(j, k) ==
    /\ j.id = k.id
    /\ \/ j.op = "delete" /\ k.op # "delete"
       \/ j.op = "stop" /\ k.op = "start"
       \/ j.op = "stop" /\ k.op = "create" /\ k.config.autostart
       \/ j.op = "start" /\ k.op = "stop"
       \/ j.op = "create" /\ k.op \in {"start", "delete"}
       \/ j.op = "create" /\ k.op = "stop" /\ j.config.autostart

Accept(r, j, place, plan) ==
    /\ pc[r] = "idle"
    /\ pc' = [pc EXCEPT ![r] = place]
    /\ job' = [job EXCEPT ![r] = j]
    /\ todo' = [todo EXCEPT ![r] = plan]
    /\ binding' = [s \in Requests |->
            IF s = r THEN \A q \in Requests : InFlight(q) => ~Undoes(job[q], j)
            ELSE binding[s] /\ ~Undoes(j, job[s])]
    /\ UNCHANGED <<engineVars, reply>>

BeginCreate(r, id, config) ==
    /\ "create" \in Ops
    /\ ~Drawn(id)
    /\ Accept(r, [op |-> "create", id |-> id, config |-> config],
              "create", Plan(id, config))

\* Every other handler starts by listing the app's containers.
BeginOther(r, op, id) ==
    Accept(r, [op |-> op, id |-> id], "list", {})

-----------------------------------------------------------------------------
(***************************************************************************)
(* create_app                                                              *)
(***************************************************************************)

\* What follows a container that was dealt with: the next one, then, with
\* autostart, the start of those created.
AfterCreated(r, rest) ==
    IF rest # {} THEN Continue(r, "create", rest)
    ELSE IF job[r].config.autostart
         THEN Continue(r, "start", Wanted(job[r].id, job[r].config))
         ELSE Finish(r, "ok")

\* The engine may or may not check at this point that the container whose
\* network is to be joined exists.
CreateContainer(r) ==
    /\ pc[r] = "create"
    /\ \E c \in todo[r] :
        /\ IsFirst(c, todo[r])
        /\ \/ /\ CanCreate(c)
              /\ EngineCreate(c, Mounted(c, job[r].config))
              /\ IF c.kind = "temp-config"
                 THEN Continue(r, "tempstart", todo[r])
                 ELSE AfterCreated(r, todo[r] \ {c})
              /\ UNCHANGED binding
           \/ Fail(r, CanCreate(c) /\ (JoinsHost(c) => Exists(Host(c.app))))

TempStart(r) ==
    /\ pc[r] = "tempstart"
    /\ \E c \in todo[r] :
        /\ IsFirst(c, todo[r])
        /\ \/ /\ CanStart(c)
              /\ EngineStart(c)
              /\ Continue(r, "tempwait", todo[r])
              /\ UNCHANGED binding
           \/ Fail(r, CanStart(c))

\* Mutant of WaitReturns: the stream is dropped without being polled.
WaitReturnsAtOnce(c) == TRUE

\* Mutant of WaitReturns: nothing is ever polled from the stream.
WaitReturnsNever(c) == FALSE

\* The item the wait stream yields is dropped, an error as well.
WaitReturns(c) == ~IsRunning(c) \/ "waitfailed" \in Faults

TempWait(r) ==
    /\ pc[r] = "tempwait"
    /\ \E c \in todo[r] : IsFirst(c, todo[r]) /\ WaitReturns(c)
    /\ Continue(r, "tempremove", todo[r])
    /\ UNCHANGED <<engineVars, binding>>

\* remove_container with force: true.
ForceRemove(c) == Exists(c) /\ EngineRemove(c)

TempRemove(r) ==
    /\ pc[r] = "tempremove"
    /\ \E c \in todo[r] :
        /\ IsFirst(c, todo[r])
        /\ \/ /\ ForceRemove(c)
              /\ AfterCreated(r, todo[r] \ {c})
              /\ UNCHANGED binding
           \/ Fail(r, Exists(c))

-----------------------------------------------------------------------------
(***************************************************************************)
(* The other operations: list, then act on what was listed.                *)
(***************************************************************************)

\* Mutant of Selected: stopping the x11 host is taken for stopping the app.
SelectedHostStopped(op, id) ==
    CASE op \in {"addr", "stop"} -> {Listed(id) \cap {Host(id)}}
      [] op = "output" -> {{c \in Listed(id) : c.kind = "application" /\ c.index = i} :
                              i \in Index}
      [] OTHER         -> {Listed(id)}

\* Mutant of Selected: only the infrastructure is started.
SelectedHostStarted(op, id) ==
    CASE op \in {"addr", "start"} -> {Listed(id) \cap {Host(id)}}
      [] op = "output" -> {{c \in Listed(id) : c.kind = "application" /\ c.index = i} :
                              i \in Index}
      [] OTHER         -> {Listed(id)}

\* get_app_addr lists the x11 host only, get_app_output the container with
\* the index asked for, which may be one the app does not have.
Selected(op, id) ==
    CASE op = "addr"   -> {Listed(id) \cap {Host(id)}}
      [] op = "output" -> {{c \in Listed(id) : c.kind = "application" /\ c.index = i} :
                              i \in Index}
      [] OTHER         -> {Listed(id)}

NothingListed(op) == IF op = "delete" THEN "ok" ELSE "not_found"

\* Mutant of StatusOf: an answer this backend never gives.
StatusOfNotReady(id) == IF IsRunning(Host(id)) THEN "ready" ELSE "not_ready"

\* Mutant of StatusOf: the state of the x11 host is not looked at.
StatusOfExisting(id) == IF Exists(Host(id)) THEN "ready" ELSE "stopped"

StatusOf(id) == IF IsRunning(Host(id)) THEN "ready" ELSE "stopped"

After(op) == IF op \in {"addr", "output"} THEN "inspect" ELSE op

List(r) ==
    /\ pc[r] = "list"
    /\ \/ /\ \E found \in Selected(job[r].op, job[r].id) :
              \/ found = {} /\ Finish(r, NothingListed(job[r].op))
              \/ /\ found # {}
                 /\ job[r].op = "status"
                 /\ Finish(r, StatusOf(job[r].id))
              \/ /\ found # {}
                 /\ job[r].op # "status"
                 /\ Continue(r, After(job[r].op), found)
          /\ UNCHANGED <<engineVars, binding>>
       \/ Fail(r, TRUE)

\* The second call of the two reads, by the engine's id of the container.
\* Only a running host has an address.
Inspect(r) ==
    /\ pc[r] = "inspect"
    /\ \E c \in todo[r] :
        \/ /\ Exists(c)
           /\ Finish(r, IF job[r].op = "output" \/ IsRunning(c)
                        THEN "ok" ELSE "not_found")
           /\ UNCHANGED <<engineVars, binding>>
        \/ Fail(r, Exists(c))

\* Mutant of StartContainer: errors are ignored, as stop_containers does.
StartContainerIgnoringErrors(r) ==
    /\ pc[r] = "start"
    /\ \E c \in todo[r] :
        /\ IsFirst(c, todo[r])
        /\ \/ CanStart(c) /\ EngineStart(c) /\ UNCHANGED binding
           \/ CallFails(r, CanStart(c))
        /\ Loop(r, "start", todo[r] \ {c},
                IF job[r].op = "create" THEN "ok" ELSE "ready")

\* start_containers: the first error ends the request.  Also the autostart
\* of create_app.
StartContainer(r) ==
    /\ pc[r] = "start"
    /\ \E c \in todo[r] :
        /\ IsFirst(c, todo[r])
        /\ \/ /\ CanStart(c)
              /\ EngineStart(c)
              /\ Loop(r, "start", todo[r] \ {c},
                      IF job[r].op = "create" THEN "ok" ELSE "ready")
              /\ UNCHANGED binding
           \/ Fail(r, CanStart(c))

\* stop_containers and delete_app ignore every error, and go through the
\* containers in the order of the engine's list.
StopContainer(r) ==
    /\ pc[r] = "stop"
    /\ \E c \in todo[r] :
        /\ \/ Exists(c) /\ EngineStop(c) /\ UNCHANGED binding
           \/ CallFails(r, Exists(c))
        /\ Loop(r, "stop", todo[r] \ {c}, "stopped")

DeleteContainer(r) ==
    /\ pc[r] = "delete"
    /\ \E c \in todo[r] :
        /\ \/ ForceRemove(c) /\ UNCHANGED binding
           \/ CallFails(r, Exists(c))
        /\ Loop(r, "delete", todo[r] \ {c}, "ok")

-----------------------------------------------------------------------------
(***************************************************************************)
(* What happens to the handlers and the containers from outside.           *)
(***************************************************************************)

\* The client is gone: no answer reaches it.
Abandon(r) ==
    /\ "abandoned" \in Faults
    /\ InFlight(r)
    /\ reply[r] = "none"
    /\ reply' = [reply EXCEPT ![r] = "gone"]
    /\ UNCHANGED <<engineVars, pc, job, todo, binding>>

\* The call a dropped handler was about to make was not sent.
Settle(r) ==
    /\ InFlight(r)
    /\ reply[r] = "gone"
    /\ Finish(r, "gone")
    /\ UNCHANGED <<engineVars, binding>>

\* A container that ended by itself is not held against the handler that
\* had started it.
ContainerExits(c) ==
    /\ c.kind = "temp-config" \/ "exits" \in Faults
    /\ EngineExit(c)
    /\ binding' = [r \in Requests |->
            /\ binding[r]
            /\ ~(/\ c.kind # "temp-config"
                 /\ job[r].op \in {"start", "create"}
                 /\ job[r].id = c.app)]
    /\ UNCHANGED <<pc, job, todo, reply>>

Terminated ==
    /\ \A r \in Requests : pc[r] = "done"
    /\ UNCHANGED vars

-----------------------------------------------------------------------------

Arrive(r) ==
    \E id \in Ids :
        \/ \E config \in Configs : BeginCreate(r, id, config)
        \/ \E op \in Ops \ {"create"} : BeginOther(r, op, id)

Step(r) ==
    \/ CreateContainer(r)
    \/ TempStart(r)
    \/ TempWait(r)
    \/ TempRemove(r)
    \/ List(r)
    \/ Inspect(r)
    \/ StartContainer(r)
    \/ StopContainer(r)
    \/ DeleteContainer(r)
    \/ Settle(r)

Next ==
    \/ \E r \in Requests : Arrive(r) \/ Step(r) \/ Abandon(r)
    \/ \E c \in Container : ContainerExits(c)
    \/ Terminated

\* The runtime polls every handler and the engine answers every call; a
\* helper only writes a file and ends.  Nothing else has to happen.
Fairness ==
    /\ \A r \in Requests : WF_vars(Step(r))
    /\ \A c \in Container : WF_vars(c.kind = "temp-config" /\ ContainerExits(c))

Spec == Init /\ [][Next]_vars

FairSpec == Spec /\ Fairness

-----------------------------------------------------------------------------
(***************************************************************************)
(* Correctness.                                                            *)
(***************************************************************************)

\* What really belongs to an app, whatever a handler's list says.
AppContainers(id) ==
    {c \in Container : c.app = id /\ c.kind # "temp-config" /\ Exists(c)}

AllRunning(S) == \A c \in S : IsRunning(c)

Creates(r) == pc[r] # "idle" /\ job[r].op = "create"

Promised(r, op, answer) ==
    pc[r] = "done" /\ job[r].op = op /\ reply[r] = answer /\ binding[r]

DeleteBegun(id) ==
    \E s \in Requests : pc[s] # "idle" /\ job[s].op = "delete" /\ job[s].id = id

\* The x11 host comes first, the daemon before the application containers,
\* these by their index.
Precedes(d, c) ==
    \/ d.kind = "x11-host"
    \/ d.kind = "docker-daemon" /\ c.kind = "application"
    \/ d.kind = c.kind /\ d.index < c.index

\* create_app builds an app from the x11 host up (docker.rs:145-286): until
\* somebody deletes the app, no container of it exists without all those
\* that come before it, however the creation ended.
BuiltInOrder ==
    \A r \in Requests : Creates(r) /\ ~DeleteBegun(job[r].id) =>
        \A c \in AppContainers(job[r].id), d \in Wanted(job[r].id, job[r].config) :
            Precedes(d, c) => Exists(d)

\* An app whose creation was answered 200 has all its containers and no
\* helper left (docker.rs:293-296), until somebody deletes it.
CreatedStaysComplete ==
    \A r \in Requests :
        /\ Creates(r) /\ pc[r] = "done" /\ reply[r] = "ok"
        /\ ~DeleteBegun(job[r].id)
        => /\ AppContainers(job[r].id) = Wanted(job[r].id, job[r].config)
           /\ \A c \in Helpers(job[r].id, job[r].config) : ~Exists(c)

\* An application container that has a configuration is created only after
\* the helper has written it (docker.rs:239-260), if waiting works.
ConfigBeforeContainer ==
    \A r \in Requests : Creates(r) =>
        \A c \in AppContainers(job[r].id) :
            /\ c.kind = "application"
            /\ c.index \in job[r].config.configured
            => volume[ConfigVolume(c.app, c.index)] = "written"

\* After a delete was answered 204 (docker.rs:325-354), and unless the
\* engine refused a removal or the app was still being created, nothing of
\* the app comes back, whatever other requests were under way.
DeletedStaysGone ==
    \A r \in Requests :
        Promised(r, "delete", "ok") => AppContainers(job[r].id) = {}

\* After a stop was answered (docker.rs:315-323) no container of the app
\* runs, until somebody starts it.
StoppedStaysStopped ==
    \A r \in Requests : Promised(r, "stop", "stopped") =>
        \A c \in AppContainers(job[r].id) : ~IsRunning(c)

\* After a start was answered Ready (docker.rs:299-313), or a creation with
\* autostart 200, all containers of the app run, until somebody stops or
\* deletes it or one of them ends.
StartedStaysRunning ==
    \A r \in Requests :
        \/ Promised(r, "start", "ready")
        \/ Promised(r, "create", "ok") /\ job[r].config.autostart
        => AllRunning(AppContainers(job[r].id))

\* With an engine that works, and no rival operation on the app, the only
\* request that ends in InternalError (error.rs:26-30) is the start of an
\* app that lost its x11 host to a delete that overlapped its creation.
OnlyEngineFailsRequests ==
    \A r \in Requests : pc[r] = "done" /\ reply[r] = "internal" /\ binding[r] =>
        /\ job[r].op = "start"
        /\ ~Exists(Host(job[r].id))

\* get_app_status looks at the x11 host alone (docker.rs:361-373), start and
\* stop at every container: yet a status contradicts a start, stop or
\* creation answered before it, and not undone since, in one case only, that
\* of an app whose x11 host fell to a delete that came during its creation.
StatusAgrees ==
    [][\A r, s \in Requests :
        /\ pc[r] = "list" /\ job[r].op = "status"
        /\ reply'[r] \in {"ready", "stopped", "not_found"}
        /\ pc[s] = "done" /\ job[s].id = job[r].id
        => /\ \/ Promised(s, "start", "ready")
              \/ Promised(s, "create", "ok") /\ job[s].config.autostart
              => reply'[r] = "ready" \/ (DeleteBegun(job[r].id) /\ ~Exists(Host(job[r].id)))
           /\ Promised(s, "stop", "stopped") => reply'[r] # "ready"]_vars

\* Requests for different apps do not disturb each other: a step changes
\* the containers of one app at most, and a request only those of its own.
Isolation ==
    [][\A c \in Container : container'[c] # container[c] =>
        /\ \A d \in Container : container'[d] # container[d] => d.app = c.app
        /\ \A r \in Requests :
              pc'[r] # pc[r] \/ todo'[r] # todo[r] => job[r].id = c.app]_vars

\* Every request is answered, or its client is gone: no handler waits for
\* another handler or for a container that never ends.
EveryRequestAnswered ==
    \A r \in Requests : pc[r] # "idle" ~> pc[r] = "done"

-----------------------------------------------------------------------------
(***************************************************************************)
(* What the documentation says and the code does not do.                   *)
(***************************************************************************)

\* "Remove associated volumes" (docker.rs:345).
VolumesGoWithApp ==
    \A r \in Requests : Promised(r, "delete", "ok") =>
        \A v \in Volume : v.app = job[r].id => volume[v] = "absent"

\* "Delete an app. The app must be stopped first." (api.rs:223)
OnlyStoppedAppsDeleted ==
    [][\A c \in Container :
        container'[c] = "absent" /\ c.kind # "temp-config" => ~IsRunning(c)]_vars

Quiet == \A r \in Requests : ~InFlight(r)

\* "The app was deleted successfully." (api.rs:64): a delete that found the
\* app and was answered so, with nothing else under way, has left nothing.
DeletedIsGone ==
    [][\A r \in Requests :
        pc[r] = "delete" /\ reply'[r] = "ok" /\ Quiet'
        => AppContainers(job[r].id)' = {}]_vars

\* "The app was stopped successfully." (api.rs:51): a stop that found the app
\* and was answered so, with nothing else under way, has left nothing running.
StoppedIsDown ==
    [][\A r \in Requests :
        pc[r] = "stop" /\ reply'[r] = "stopped" /\ Quiet'
        => \A c \in Container : c.app = job[r].id => ~IsRunning(c)']_vars

\* "Infrastructure containers running = app ready" (docker.rs:87), and these
\* are the x11 host and the docker daemon: so, if nothing else is under way,
\* after a status was answered Ready.
ReadyHasInfrastructure ==
    [][\A r \in Requests :
        /\ pc[r] = "list" /\ job[r].op = "status" /\ reply'[r] = "ready"
        /\ Quiet'
        => \A c \in AppContainers(job[r].id) : c.kind = "docker-daemon" => IsRunning(c)]_vars

\* "All containers share the network namespace of the X11 host container"
\* (docker.rs:58): so after a start has been answered Ready.
ReadySharesNetwork ==
    \A r \in Requests : Promised(r, "start", "ready") =>
        \A c \in AppContainers(job[r].id) : container[c] # "detached"

=============================================================================
