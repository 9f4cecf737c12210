---------------------------- MODULE DockerEngine ----------------------------
(***************************************************************************)
(* The Docker engine as src/backend/docker.rs uses it through bollard: the *)
(* containers and named volumes it holds, and what each call does to them. *)
(* The engine is not part of the repository; this module is the            *)
(* environment the Docker backend is checked against.                      *)
(*                                                                         *)
(* Container and volume names are built from the app's name and its        *)
(* random id (docker.rs:114-115).  Ids of different apps are taken to be   *)
(* different, so the id alone names the app here.                          *)
(***************************************************************************)
EXTENDS Naturals

CONSTANTS
    Ids,            \* the app ids that may be drawn
    MaxContainers   \* most application containers of one app

ASSUME MaxContainersAssumption == MaxContainers \in Nat \ {0}

VARIABLES
    container,      \* the state of every container that could exist
    volume          \* the state of every named volume that could exist

engineVars == <<container, volume>>

Index == 0 .. MaxContainers - 1

(***************************************************************************)
(* One x11-host and at most one docker-daemon per app; for each index an   *)
(* application container and the helper that writes its configuration.     *)
(***************************************************************************)
Container ==
    [app : Ids, kind : {"x11-host", "docker-daemon"}, index : {0}]
        \cup [app : Ids, kind : {"application", "temp-config"}, index : Index]

Volume ==
    [app : Ids, kind : {"outputs"}, index : {0}]
        \cup [app : Ids, kind : {"config"}, index : Index]

\* "detached" is a running container whose network namespace, that of its
\* host, ended while it ran.
ContainerState == {"absent", "created", "running", "detached", "exited"}

VolumeState == {"absent", "empty", "written"}

EngineTypeOK ==
    /\ container \in [Container -> ContainerState]
    /\ volume \in [Volume -> VolumeState]

EngineInit ==
    /\ container = [c \in Container |-> "absent"]
    /\ volume = [v \in Volume |-> "absent"]

-----------------------------------------------------------------------------

Host(id) == [app |-> id, kind |-> "x11-host", index |-> 0]

OutputVolume(id) == [app |-> id, kind |-> "outputs", index |-> 0]

ConfigVolume(id, i) == [app |-> id, kind |-> "config", index |-> i]

\* network_mode "container:<x11 host>" (docker.rs:193-196, 604-608).
JoinsHost(c) == c.kind \in {"docker-daemon", "application"}

Exists(c) == container[c] # "absent"

IsRunning(c) == container[c] \in {"running", "detached"}

-----------------------------------------------------------------------------
(***************************************************************************)
(* Calls.  Can... says when the engine is able to do what it is asked.     *)
(***************************************************************************)

CanCreate(c) == ~Exists(c)

\* A named volume mounted by a new container is created with it.
EngineCreate(c, mounted) ==
    /\ container' = [container EXCEPT ![c] = "created"]
    /\ volume' = [v \in Volume |->
                    IF v \in mounted /\ volume[v] = "absent"
                    THEN "empty" ELSE volume[v]]

\* Joining the namespace of a container that does not run is an error;
\* starting a running container is answered 304, which is no error.
CanStart(c) ==
    /\ Exists(c)
    /\ \/ IsRunning(c)
       \/ JoinsHost(c) => IsRunning(Host(c.app))

EngineStart(c) ==
    /\ container' = [container EXCEPT ![c] = IF IsRunning(c) THEN @ ELSE "running"]
    /\ UNCHANGED volume

\* Container c goes to a state in which it does not run; if it is a host,
\* the containers that share its namespace are cut off.
Halt(c, state) ==
    container' = [d \in Container |->
                    IF d = c THEN state
                    ELSE IF /\ IsRunning(c)
                            /\ c = Host(d.app)
                            /\ JoinsHost(d)
                            /\ container[d] = "running"
                         THEN "detached" ELSE container[d]]

\* Stopping a container that does not run is answered 304.
EngineStop(c) ==
    /\ IF IsRunning(c) THEN Halt(c, "exited") ELSE UNCHANGED container
    /\ UNCHANGED volume

\* Named volumes outlive their containers: remove_container's v option
\* removes anonymous volumes only.
EngineRemove(c) ==
    /\ Halt(c, "absent")
    /\ UNCHANGED volume

\* The process in a running container ends.  That of a helper has by then
\* written its configuration file (docker.rs:226-231).
EngineExit(c) ==
    /\ IsRunning(c)
    /\ Halt(c, "exited")
    /\ volume' = [v \in Volume |->
                    IF c.kind = "temp-config" /\ v = ConfigVolume(c.app, c.index)
                    THEN "written" ELSE volume[v]]

=============================================================================
