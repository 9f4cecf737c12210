---------------------------- MODULE MockBackend ----------------------------
(***************************************************************************)
(* The mock backend (src/backend/mock.rs), which tests put in the place of *)
(* a real one.  It keeps the apps and their statuses in two maps, each     *)
(* behind a lock of its own that is held for one access.  Each action is   *)
(* one access, with the code that runs up to the next; requests run on the *)
(* threads of the runtime and interleave between them.                     *)
(***************************************************************************)
EXTENDS Naturals, FiniteSets

CONSTANTS
    Requests,   \* the calls made of the backend
    NoJob       \* stands for a call not yet made

VARIABLES
    nextId,     \* the counter of ids
    apps,       \* the ids of the apps in the first map
    statuses,   \* the second map
    pc,         \* which access a call makes next
    job,        \* the operation and the id of a call
    reply,      \* what it returned
    binding,    \* history: no call that may undo it has overlapped or
                \* followed it
    raced       \* history: ids of apps that a delete overlapped another
                \* change of

vars == <<nextId, apps, statuses, pc, job, reply, binding, raced>>

Status == {"ready", "stopped"}

\* Callers may guess ids; get_all_apps tells them.
Ids == 0 .. Cardinality(Requests) - 1

Operation == {"start", "stop", "delete", "status", "get"}

Job == [op : {"create"}, id : Ids, autostart : BOOLEAN] \cup [op : Operation, id : Ids]

ASSUME MockAssumption == IsFiniteSet(Requests) /\ NoJob \notin Job

TypeOK ==
    /\ nextId \in Nat
    /\ apps \subseteq Ids
    /\ \E known \in SUBSET Ids : statuses \in [known -> Status]
    /\ pc \in [Requests -> {"idle", "insertapp", "insertstatus", "setstatus",
                            "dropstatus", "readstatus", "done"}]
    /\ job \in [Requests -> Job \cup {NoJob}]
    /\ reply \in [Requests -> {"none", "ok", "ready", "stopped", "not_ready", "not_found"}]
    /\ binding \in [Requests -> BOOLEAN]
    /\ raced \subseteq Ids

Init ==
    /\ nextId = 0
    /\ apps = {}
    /\ statuses = [id \in {} |-> "stopped"]
    /\ pc = [r \in Requests |-> "idle"]
    /\ job = [r \in Requests |-> NoJob]
    /\ reply = [r \in Requests |-> "none"]
    /\ binding = [r \in Requests |-> FALSE]
    /\ raced = {}

-----------------------------------------------------------------------------

InFlight(r) == pc[r] \notin {"idle", "done"}

\* Carrying out job j may undo what carrying out job k has returned.
Undoes(j, k) ==
    /\ j.id = k.id
    /\ j.op \in {"create", "start", "stop", "delete"}
    /\ j.op # k.op

Races(j, k) ==
    /\ j.id = k.id
    /\ "delete" \in {j.op, k.op}
    /\ {j.op, k.op} \cap {"create", "start", "stop"} # {}

Arrive(r, what) ==
    /\ pc[r] = "idle"
    /\ job' = [job EXCEPT ![r] = what]
    /\ binding' = [s \in Requests |->
            IF s = r THEN \A q \in Requests : InFlight(q) => ~Undoes(job[q], what)
            ELSE binding[s] /\ ~Undoes(what, job[s])]
    /\ raced' = IF \E q \in Requests : InFlight(q) /\ Races(job[q], what)
                THEN raced \cup {what.id} ELSE raced

Go(r, place) == pc' = [pc EXCEPT ![r] = place] /\ UNCHANGED reply

Return(r, value) ==
    /\ pc' = [pc EXCEPT ![r] = "done"]
    /\ reply' = [reply EXCEPT ![r] = value]

Known(id) == id \in DOMAIN statuses

\* Mutant of Put: the entry is only written if there is one.
PutIfKnown(id, status) ==
    statuses' = [known \in DOMAIN statuses |-> IF known = id THEN status ELSE statuses[known]]

Put(id, status) ==
    statuses' = [known \in DOMAIN statuses \cup {id} |->
                    IF known = id THEN status ELSE statuses[known]]

Forget(id) == statuses' = [known \in DOMAIN statuses \ {id} |-> statuses[known]]

-----------------------------------------------------------------------------

\* Mutant of NewId: the counter is read after it was counted up.
NewIdAfter == nextId + 1

NewId == nextId

\* create_app: fetch_add, then one map, then the other.
Create(r, autostart) ==
    /\ Arrive(r, [op |-> "create", id |-> NewId, autostart |-> autostart])
    /\ nextId' = nextId + 1
    /\ Go(r, "insertapp")
    /\ UNCHANGED <<apps, statuses>>

InsertApp(r) ==
    /\ pc[r] = "insertapp"
    /\ apps' = apps \cup {job[r].id}
    /\ Go(r, "insertstatus")
    /\ UNCHANGED <<nextId, statuses, job, binding, raced>>

\* Mutant of InsertStatus: autostart is ignored.
InsertStatusReady(r) ==
    /\ pc[r] = "insertstatus"
    /\ Put(job[r].id, "ready")
    /\ Return(r, "ok")
    /\ UNCHANGED <<nextId, apps, job, binding, raced>>

InsertStatus(r) ==
    /\ pc[r] = "insertstatus"
    /\ Put(job[r].id, IF job[r].autostart THEN "ready" ELSE "stopped")
    /\ Return(r, "ok")
    /\ UNCHANGED <<nextId, apps, job, binding, raced>>

\* All others but delete begin with a look at the apps.
CheckApp(r, op, id) ==
    /\ Arrive(r, [op |-> op, id |-> id])
    /\ \/ id \notin apps /\ Return(r, "not_found")
       \/ id \in apps /\ op = "get" /\ Return(r, "ok")
       \/ id \in apps /\ op = "status" /\ Go(r, "readstatus")
       \/ id \in apps /\ op \in {"start", "stop"} /\ Go(r, "setstatus")
    /\ UNCHANGED <<nextId, apps, statuses>>

StatusSet(op) == IF op = "start" THEN "ready" ELSE "stopped"

SetStatus(r) ==
    /\ pc[r] = "setstatus"
    /\ Put(job[r].id, StatusSet(job[r].op))
    /\ Return(r, StatusSet(job[r].op))
    /\ UNCHANGED <<nextId, apps, job, binding, raced>>

\* NotReady is for an app that is not in the second map.
ReadStatus(r) ==
    /\ pc[r] = "readstatus"
    /\ Return(r, IF Known(job[r].id) THEN statuses[job[r].id] ELSE "not_ready")
    /\ UNCHANGED <<nextId, apps, statuses, job, binding, raced>>

\* Mutant of RemoveApp: the app is looked up here and removed with its
\* status.
RemoveAppLater(r, id) ==
    /\ Arrive(r, [op |-> "delete", id |-> id])
    /\ \/ id \notin apps /\ Return(r, "not_found")
       \/ id \in apps /\ Go(r, "dropstatus")
    /\ UNCHANGED <<nextId, apps, statuses>>

\* delete_app: the app is looked up and removed in one access.
RemoveApp(r, id) ==
    /\ Arrive(r, [op |-> "delete", id |-> id])
    /\ \/ id \notin apps /\ Return(r, "not_found")
       \/ id \in apps /\ Go(r, "dropstatus")
    /\ apps' = apps \ {id}
    /\ UNCHANGED <<nextId, statuses>>

\* Mutant of DropStatus: the status is left behind.
DropStatusNot(r) ==
    /\ pc[r] = "dropstatus"
    /\ Return(r, "ok")
    /\ UNCHANGED <<nextId, apps, statuses, job, binding, raced>>

DropStatus(r) ==
    /\ pc[r] = "dropstatus"
    /\ Forget(job[r].id)
    /\ Return(r, "ok")
    /\ UNCHANGED <<nextId, apps, job, binding, raced>>

Terminated ==
    /\ \A r \in Requests : pc[r] = "done"
    /\ UNCHANGED vars

Next ==
    \/ \E r \in Requests :
        \/ \E autostart \in BOOLEAN : Create(r, autostart)
        \/ \E id \in Ids, op \in Operation \ {"delete"} : CheckApp(r, op, id)
        \/ \E id \in Ids : RemoveApp(r, id)
        \/ InsertApp(r) \/ InsertStatus(r)
        \/ SetStatus(r) \/ ReadStatus(r) \/ DropStatus(r)
    \/ Terminated

Spec == Init /\ [][Next]_vars

-----------------------------------------------------------------------------
(***************************************************************************)
(* Correctness.                                                            *)
(***************************************************************************)

Is(r, op, id) == job[r] # NoJob /\ job[r].op = op /\ job[r].id = id

Returned(r, op, id, value) == pc[r] = "done" /\ Is(r, op, id) /\ reply[r] = value

\* What create, start and stop have returned (mock.rs:28-64) is what the
\* maps hold, until another call undoes it; those of the app that overlap
\* it may.
ReturnedHolds ==
    \A r \in Requests, id \in Ids : binding[r] =>
        /\ Returned(r, "create", id, "ok") =>
              /\ id \in apps /\ Known(id)
              /\ statuses[id] = IF job[r].autostart THEN "ready" ELSE "stopped"
        /\ Returned(r, "start", id, "ready") => id \in apps /\ Known(id) /\ statuses[id] = "ready"
        /\ Returned(r, "stop", id, "stopped") => id \in apps /\ Known(id) /\ statuses[id] = "stopped"

\* Of several deletes of an app one succeeds (mock.rs:67-69), and the app
\* does not come back, nor another under its id.
OneDeleteWins ==
    \A r \in Requests, id \in Ids : Returned(r, "delete", id, "ok") =>
        /\ id \notin apps
        /\ \A s \in Requests \ {r} : ~Returned(s, "delete", id, "ok")

\* get_app_status answers NotReady (mock.rs:117-124) only while the app is
\* being created or deleted: an app does not stay without a status.
AppsHaveStatus ==
    /\ \A id \in apps : Known(id) \/ \E r \in Requests : Is(r, "create", id) /\ InFlight(r)
    /\ \A r \in Requests, id \in Ids : Returned(r, "status", id, "not_ready") => ~binding[r]

\* An entry without an app, which nobody can remove any more, needs a
\* delete that raced a creation, start or stop of the app (mock.rs:46-50).
LeakNeedsRace ==
    \A id \in DOMAIN statuses \ apps :
        id \in raced \/ \E r \in Requests : Is(r, "delete", id) /\ InFlight(r)

=============================================================================
