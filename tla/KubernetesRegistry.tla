------------------------- MODULE KubernetesRegistry -------------------------
(***************************************************************************)
(* The Kubernetes backend implements the registry of the trait: an app is  *)
(* its Deployment, and is started when that is scaled to 1.                *)
(***************************************************************************)
EXTENDS KubernetesBackend

\* An app that had a Deployment, and has none any more, was deleted.
AppState(id) ==
    IF id \in deployments THEN IF replicas[id] = 1 THEN "started" ELSE "stopped"
    ELSE IF template[id] = NoTemplate THEN "none"
    ELSE "deleted"

\* What the trait knows of a request.
AskedOf(j) ==
    IF j = NoJob THEN NoJob
    ELSE IF j.op = "create" THEN [op |-> "create", id |-> j.id, autostart |-> j.config.autostart]
    ELSE [op |-> j.op, id |-> j.id]

Registry == INSTANCE AppRegistry WITH
    app    <- [id \in Ids |-> AppState(id)],
    asked  <- [r \in Requests |-> AskedOf(job[r])],
    answer <- reply,
    open   <- {r \in Requests : InFlight(r)}

\* What the trait knows of a request is not taken for a request not made.
ASSUME RegistryAssumption == NoJob \notin Registry!Asked

\* Every step of the backend, among other requests' steps, failing calls and
\* dropped handlers, is one step of the registry or none: each operation has
\* its effect in one API call, and is answered by what held at that call
\* (backend.rs:18-52).
ImplementsRegistry == Registry!Spec

=============================================================================
