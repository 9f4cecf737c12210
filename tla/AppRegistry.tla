---------------------------- MODULE AppRegistry ----------------------------
(***************************************************************************)
(* What the trait AppControllerBackend (src/backend.rs) promises: a set of *)
(* apps on which every operation takes effect at once, and is answered as  *)
(* of that moment.                                                         *)
(*                                                                         *)
(* An app is created stopped or started, may be started and stopped, and   *)
(* is deleted for good.  A request that fails may have had its effect; it  *)
(* and one whose client has gone have it at most once.                     *)
(***************************************************************************)
CONSTANTS
    Requests,   \* the requests made of the backend
    Ids,        \* the ids an app may get
    NoJob       \* stands for what a request not yet made asks for

VARIABLES
    app,        \* the state of the app with each id
    asked,      \* what each request asks for
    answer,     \* what its client was told
    open        \* the requests under way

vars == <<app, asked, answer, open>>

AppState == {"none", "stopped", "started", "deleted"}

Asked == [op : {"create"}, id : Ids, autostart : BOOLEAN]
            \cup [op : {"start", "stop", "delete", "status", "addr", "output"}, id : Ids]

Live(id) == app[id] \in {"stopped", "started"}

Init ==
    /\ app = [id \in Ids |-> "none"]
    /\ asked = [r \in Requests |-> NoJob]
    /\ answer = [r \in Requests |-> "none"]
    /\ open = {}

\* No two apps get the same id.
Ask(r, what) ==
    /\ asked[r] = NoJob
    /\ what.op = "create" =>
          \A s \in Requests : asked[s] # NoJob /\ asked[s].op = "create" => asked[s].id # what.id
    /\ asked' = [asked EXCEPT ![r] = what]
    /\ open' = open \cup {r}
    /\ UNCHANGED <<app, answer>>

Close(r, told) ==
    /\ open' = open \ {r}
    /\ answer' = [answer EXCEPT ![r] = IF @ = "gone" THEN @ ELSE told]
    /\ UNCHANGED asked

\* The news that an effect took place may be lost on its way.
Answer(r, told) == Close(r, told) \/ Close(r, "internal")

Become(r, state) == app' = [app EXCEPT ![asked[r].id] = state]

Create(r) ==
    /\ asked[r].op = "create"
    /\ app[asked[r].id] = "none"
    /\ Become(r, IF asked[r].autostart THEN "started" ELSE "stopped")
    /\ Answer(r, "ok")

Start(r) ==
    asked[r].op = "start" /\ Live(asked[r].id) /\ Become(r, "started") /\ Answer(r, "ready")

Stop(r) ==
    asked[r].op = "stop" /\ Live(asked[r].id) /\ Become(r, "stopped") /\ Answer(r, "stopped")

Delete(r) ==
    asked[r].op = "delete" /\ Live(asked[r].id) /\ Become(r, "deleted") /\ Answer(r, "ok")

\* A started app need not be ready yet.
Status(r) ==
    /\ asked[r].op = "status"
    /\ \/ app[asked[r].id] = "stopped" /\ Close(r, "stopped")
       \/ app[asked[r].id] = "started" /\ (Close(r, "ready") \/ Close(r, "not_ready"))
    /\ UNCHANGED app

\* Address and output are those of what runs an app, which may come later
\* and end later than the app.
Look(r) ==
    /\ asked[r].op \in {"addr", "output"}
    /\ \E told \in {"ok", "not_found", "invalid_index"} : Close(r, told)
    /\ UNCHANGED app

\* Start, stop and status tell the truth.  A delete may also be told that
\* there is no app when there was another delete of it.
NotFound(r) ==
    /\ asked[r].op \in {"start", "stop", "delete", "status"}
    /\ \/ ~Live(asked[r].id)
       \/ /\ asked[r].op = "delete"
          /\ \E s \in Requests \ {r} : asked[s] = asked[r]
    /\ Close(r, "not_found")
    /\ UNCHANGED app

Fail(r) == Close(r, "internal") /\ UNCHANGED app

\* The client of r goes; later r ends, with or without its effect.
Leave(r) ==
    /\ answer' = [answer EXCEPT ![r] = "gone"]
    /\ UNCHANGED <<app, asked, open>>

Next ==
    \/ \E r \in Requests, what \in Asked : Ask(r, what)
    \/ \E r \in open :
        \/ Create(r) \/ Start(r) \/ Stop(r) \/ Delete(r)
        \/ Status(r) \/ Look(r)
        \/ NotFound(r) \/ Fail(r) \/ Leave(r)

Spec == Init /\ [][Next]_vars

=============================================================================
