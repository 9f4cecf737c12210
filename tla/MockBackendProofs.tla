------------------------- MODULE MockBackendProofs -------------------------
(***************************************************************************)
(* What holds of MockBackend for any number of calls.                      *)
(***************************************************************************)
EXTENDS MockBackend, FiniteSetTheorems, TLAPS

-----------------------------------------------------------------------------
(***************************************************************************)
(* The inductive invariant.                                                *)
(***************************************************************************)

\* Where a call of each operation may be.
InPlace ==
    \A r \in Requests :
        /\ pc[r] = "idle" <=> job[r] = NoJob
        /\ pc[r] = "idle" => reply[r] = "none"
        /\ pc[r] \in {"insertapp", "insertstatus"} => job[r].op = "create"
        /\ pc[r] = "setstatus" => job[r].op \in {"start", "stop"}
        /\ pc[r] = "readstatus" => job[r].op = "status"
        /\ pc[r] = "dropstatus" => job[r].op = "delete"

Creations == {r \in Requests : job[r] # NoJob /\ job[r].op = "create"}

\* The counter counts the creations, so that there are ids for all of them,
\* and gives each its own.
IdsAreNew ==
    /\ nextId = Cardinality(Creations)
    /\ \A r \in Creations : job[r].id < nextId
    /\ \A r, s \in Creations : job[r].id = job[s].id => r = s

Unborn(id) == id >= nextId \/ \E r \in Requests : Is(r, "create", id) /\ pc[r] = "insertapp"

\* Nobody has got hold of an app that is not inserted yet.
UnbornUnknown ==
    \A id \in Ids : Unborn(id) =>
        /\ id \notin apps /\ ~Known(id)
        /\ \A r \in Requests :
            job[r] # NoJob /\ job[r].id = id /\ job[r].op # "create" =>
                pc[r] = "done" /\ reply[r] = "not_found"

Wins(r, id) ==
    Is(r, "delete", id) /\ (pc[r] = "dropstatus" \/ (pc[r] = "done" /\ reply[r] = "ok"))

\* An app is removed once.
OneWinner ==
    \A id \in Ids, r \in Requests : Wins(r, id) =>
        id \notin apps /\ \A s \in Requests : Wins(s, id) => s = r

\* While a call that may undo another is under way, the other is not held to
\* what it returned.
RivalsUnbind ==
    \A q, r \in Requests :
        InFlight(q) /\ pc[r] # "idle" /\ Undoes(job[q], job[r]) => ~binding[r]

\* What a call has seen in the first map is still there, or a delete has
\* come between.
StillThere ==
    \A r \in Requests :
        /\ pc[r] \in {"setstatus", "insertstatus"} =>
              /\ job[r].id \in apps \cup raced
              /\ binding[r] => job[r].id \in apps
        /\ pc[r] = "readstatus" /\ binding[r] => Known(job[r].id)

Promises == ReturnedHolds /\ OneDeleteWins /\ AppsHaveStatus /\ LeakNeedsRace

Progress ==
    /\ InPlace
    /\ IdsAreNew
    /\ UnbornUnknown
    /\ OneWinner
    /\ RivalsUnbind
    /\ StillThere
    /\ Promises

IInv == TypeOK /\ Progress

-----------------------------------------------------------------------------
(***************************************************************************)
(* Type correctness.                                                       *)
(***************************************************************************)

\* The second map is a function on some ids.
StatusesOK ==
    /\ DOMAIN statuses \subseteq Ids
    /\ statuses = [id \in DOMAIN statuses |-> statuses[id]]
    /\ \A id \in DOMAIN statuses : statuses[id] \in Status

LEMMA StatusesType ==
    (\E known \in SUBSET Ids : statuses \in [known -> Status]) <=> StatusesOK
  <1>1. ASSUME NEW known \in SUBSET Ids, statuses \in [known -> Status]
        PROVE  StatusesOK
    BY <1>1 DEF StatusesOK
  <1>2. ASSUME StatusesOK
        PROVE  \E known \in SUBSET Ids : statuses \in [known -> Status]
    <2>1. statuses \in [DOMAIN statuses -> Status] /\ DOMAIN statuses \in SUBSET Ids
      BY <1>2 DEF StatusesOK
    <2> QED BY <2>1
  <1> QED BY <1>1, <1>2

LEMMA PutType ==
    ASSUME StatusesOK, NEW id \in Ids, NEW status \in Status, Put(id, status)
    PROVE  /\ StatusesOK'
           /\ DOMAIN statuses' = DOMAIN statuses \cup {id}
           /\ statuses'[id] = status
           /\ \A known \in DOMAIN statuses \ {id} : statuses'[known] = statuses[known]
  BY DEF StatusesOK, Put

LEMMA ForgetType ==
    ASSUME StatusesOK, NEW id \in Ids, Forget(id)
    PROVE  /\ StatusesOK'
           /\ DOMAIN statuses' = DOMAIN statuses \ {id}
           /\ \A known \in DOMAIN statuses \ {id} : statuses'[known] = statuses[known]
  BY DEF StatusesOK, Forget

\* There is an id for every call that creates an app, before it is made.
LEMMA IdLeft ==
    ASSUME TypeOK, IdsAreNew, NEW r \in Requests, r \notin Creations
    PROVE  /\ IsFiniteSet(Creations)
           /\ Cardinality(Creations \cup {r}) = nextId + 1
           /\ nextId \in Ids
  <1>1. Creations \subseteq Requests /\ IsFiniteSet(Requests)
    BY MockAssumption DEF Creations
  <1>2. IsFiniteSet(Creations)
    BY <1>1, FS_Subset
  <1>3. Cardinality(Creations \cup {r}) = Cardinality(Creations) + 1
    BY <1>2, FS_AddElement
  <1>4. Creations \cup {r} \subseteq Requests
    BY <1>1
  <1>5. Cardinality(Creations \cup {r}) <= Cardinality(Requests)
    BY <1>1, <1>4, FS_Subset
  <1>6. Cardinality(Requests) \in Nat /\ Cardinality(Creations) \in Nat
    BY <1>1, <1>2, FS_CardinalityType
  <1> QED BY <1>2, <1>3, <1>5, <1>6 DEF IdsAreNew, Ids

-----------------------------------------------------------------------------
(***************************************************************************)
(* A call that arrives, and one that goes on.                              *)
(***************************************************************************)

Arrived(r, what) ==
    /\ pc[r] = "idle" /\ pc'[r] # "idle"
    /\ job'[r] = what
    /\ \A s \in Requests \ {r} :
        /\ pc'[s] = pc[s] /\ job'[s] = job[s] /\ reply'[s] = reply[s]
        /\ binding'[s] <=> binding[s] /\ ~Undoes(what, job[s])
    /\ binding'[r] <=> \A q \in Requests : InFlight(q) => ~Undoes(job[q], what)
    /\ raced \subseteq raced'
    /\ (\E q \in Requests : InFlight(q) /\ Races(job[q], what)) => what.id \in raced'

Moved(r) ==
    /\ InFlight(r) /\ pc'[r] # "idle"
    /\ UNCHANGED <<nextId, job, binding, raced>>
    /\ \A s \in Requests \ {r} : pc'[s] = pc[s] /\ reply'[s] = reply[s]

\* The types of what belongs to the calls alone.
CallsOK ==
    /\ pc \in [Requests -> {"idle", "insertapp", "insertstatus", "setstatus",
                            "dropstatus", "readstatus", "done"}]
    /\ job \in [Requests -> Job \cup {NoJob}]
    /\ reply \in [Requests -> {"none", "ok", "ready", "stopped", "not_ready", "not_found"}]
    /\ binding \in [Requests -> BOOLEAN]
    /\ raced \subseteq Ids

Going == {"insertapp", "insertstatus", "setstatus", "dropstatus", "readstatus"}

Value == {"ok", "ready", "stopped", "not_ready", "not_found"}

LEMMA JobType ==
    ASSUME TypeOK, InPlace, NEW r \in Requests, pc[r] # "idle"
    PROVE  job[r] \in Job /\ job[r].id \in Ids /\ job[r].op \in Operation \cup {"create"}
           /\ (job[r].op = "create" => job[r].autostart \in BOOLEAN)
  <1>1. job[r] \in Job
    BY DEF TypeOK, InPlace
  <1> QED BY <1>1 DEF Job, Operation

LEMMA ArriveArrived ==
    ASSUME TypeOK, NEW r \in Requests, NEW what \in Job, Arrive(r, what),
           \/ \E place \in Going : Go(r, place)
           \/ \E value \in Value : Return(r, value)
    PROVE  CallsOK' /\ Arrived(r, what)
  <1>1. /\ pc[r] = "idle" /\ job' = [job EXCEPT ![r] = what]
        /\ \A s \in Requests \ {r} : binding'[s] <=> binding[s] /\ ~Undoes(what, job[s])
        /\ binding'[r] <=> \A q \in Requests : InFlight(q) => ~Undoes(job[q], what)
        /\ binding' \in [Requests -> BOOLEAN]
    <2>1. \A s \in Requests : binding[s] \in BOOLEAN
      BY DEF TypeOK
    <2> QED BY <2>1 DEF Arrive
  <1>2. what.id \in Ids
    BY DEF Job
  <1>3. /\ raced \subseteq raced' /\ raced' \subseteq Ids
        /\ (\E q \in Requests : InFlight(q) /\ Races(job[q], what)) => what.id \in raced'
    BY <1>2 DEF Arrive, TypeOK
  <1>4. CASE \E place \in Going : Go(r, place)
    BY <1>1, <1>3, <1>4 DEF Go, Going, TypeOK, CallsOK, Arrived
  <1>5. CASE \E value \in Value : Return(r, value)
    BY <1>1, <1>3, <1>5 DEF Return, Value, TypeOK, CallsOK, Arrived
  <1> QED BY <1>4, <1>5

LEMMA GoMoved ==
    ASSUME TypeOK, NEW r \in Requests, InFlight(r), NEW place \in Going, Go(r, place),
           UNCHANGED <<nextId, job, binding, raced>>
    PROVE  CallsOK' /\ Moved(r) /\ pc'[r] = place
  BY DEF Go, TypeOK, CallsOK, Moved, Going

LEMMA ReturnMoved ==
    ASSUME TypeOK, NEW r \in Requests, InFlight(r), NEW value \in Value, Return(r, value),
           UNCHANGED <<nextId, job, binding, raced>>
    PROVE  CallsOK' /\ Moved(r) /\ pc'[r] = "done" /\ reply'[r] = value
  BY DEF Return, TypeOK, CallsOK, Moved, Value

-----------------------------------------------------------------------------
(***************************************************************************)
(* A call that arrives keeps the invariant.                                *)
(***************************************************************************)

\* What a call does with its first access to the maps.
FirstAccess(r, what) ==
    /\ UNCHANGED statuses
    /\ \/ /\ what.op = "create" /\ what.id = nextId /\ nextId' = nextId + 1
          /\ pc'[r] = "insertapp" /\ UNCHANGED apps
       \/ /\ what.op \in Operation /\ what.id \notin apps
          /\ pc'[r] = "done" /\ reply'[r] = "not_found" /\ UNCHANGED <<nextId, apps>>
       \/ /\ what.id \in apps /\ UNCHANGED <<nextId, apps>>
          /\ \/ what.op = "get" /\ pc'[r] = "done" /\ reply'[r] = "ok"
             \/ what.op = "status" /\ pc'[r] = "readstatus"
             \/ what.op \in {"start", "stop"} /\ pc'[r] = "setstatus"
       \/ /\ what.op = "delete" /\ what.id \in apps
          /\ pc'[r] = "dropstatus" /\ apps' = apps \ {what.id} /\ UNCHANGED nextId

LEMMA ArriveKeeps ==
    ASSUME TypeOK, Progress, NEW r \in Requests, NEW what \in Job, Arrived(r, what),
           FirstAccess(r, what),
           pc'[r] # "done" => reply'[r] = reply[r]
    PROVE  Progress'
  <1>1. /\ pc[r] = "idle" /\ job[r] = NoJob /\ reply[r] = "none"
        /\ what # NoJob /\ what.id \in Ids
        /\ nextId \in Nat /\ Ids \subseteq Nat
    BY MockAssumption DEF Arrived, Progress, InPlace, Job, TypeOK, Ids
  <1>2. \A s \in Requests \ {r} :
            pc'[s] = pc[s] /\ job'[s] = job[s] /\ reply'[s] = reply[s] /\ (binding'[s] => binding[s])
    BY DEF Arrived
  <1>3. InPlace'
    BY <1>1, <1>2 DEF Progress, InPlace, Arrived, FirstAccess
  <1>4. IdsAreNew'
    <2>1. CASE what.op = "create"
      <3>1. what.id = nextId /\ nextId' = nextId + 1
        BY <2>1 DEF FirstAccess, Operation
      <3>2. /\ r \notin Creations /\ Creations' = Creations \cup {r}
            /\ Creations \subseteq Requests
        BY <1>1, <1>2, <2>1 DEF Creations, Arrived
      <3>3. nextId' = Cardinality(Creations')
        BY <3>1, <3>2, IdLeft DEF Progress
      <3>4. \A s \in Creations : job[s].id \in Nat /\ job[s].id < nextId
        BY <1>1, JobType DEF Progress, IdsAreNew, Creations, InPlace
      <3>5. \A s \in Creations' : \/ s = r /\ job'[s].id = nextId
                                  \/ s \in Creations /\ s # r /\ job'[s].id = job[s].id
        BY <1>2, <3>1, <3>2 DEF Arrived
      <3>6. \A s \in Creations' : job'[s].id < nextId'
        BY <1>1, <3>1, <3>4, <3>5
      <3>7. \A s, q \in Creations' : job'[s].id = job'[q].id => s = q
        BY <1>1, <3>4, <3>5 DEF Progress, IdsAreNew
      <3> QED BY <3>3, <3>6, <3>7 DEF IdsAreNew
    <2>2. CASE what.op # "create"
      <3>1. nextId' = nextId /\ Creations' = Creations
        BY <1>1, <1>2, <2>2 DEF Creations, Arrived, FirstAccess
      <3>2. \A s \in Creations : job'[s] = job[s]
        BY <1>1, <1>2 DEF Creations
      <3> QED BY <3>1, <3>2 DEF Progress, IdsAreNew
    <2> QED BY <2>1, <2>2
  <1>5. UnbornUnknown'
    <2>1. ASSUME NEW id \in Ids, Unborn(id)'
          PROVE  Unborn(id)
      <3>1. CASE id >= nextId'
        BY <1>1, <3>1 DEF FirstAccess, Unborn
      <3>2. CASE \E s \in Requests : Is(s, "create", id)' /\ pc'[s] = "insertapp"
        <4>1. PICK s \in Requests : Is(s, "create", id)' /\ pc'[s] = "insertapp"
          BY <3>2
        <4>2. CASE s = r
          BY <1>1, <4>1, <4>2 DEF FirstAccess, Unborn, Is, Arrived
        <4>3. CASE s # r
          BY <1>2, <4>1, <4>3 DEF Unborn, Is
        <4> QED BY <4>2, <4>3
      <3> QED BY <2>1, <3>1, <3>2 DEF Unborn
    <2>2. ASSUME NEW id \in Ids, Unborn(id)
          PROVE  /\ id \notin apps' /\ ~Known(id)'
                 /\ \A s \in Requests :
                      job'[s] # NoJob /\ job'[s].id = id /\ job'[s].op # "create" =>
                          pc'[s] = "done" /\ reply'[s] = "not_found"
      <3>1. /\ id \notin apps /\ ~Known(id)
            /\ \A s \in Requests :
                 job[s] # NoJob /\ job[s].id = id /\ job[s].op # "create" =>
                     pc[s] = "done" /\ reply[s] = "not_found"
        BY <2>2 DEF Progress, UnbornUnknown
      <3> QED BY <1>1, <1>2, <3>1 DEF FirstAccess, Known, Arrived
    <2> QED BY <2>1, <2>2 DEF UnbornUnknown
  <1>6. OneWinner'
    <2>1. \A s \in Requests \ {r}, id \in Ids : Wins(s, id)' <=> Wins(s, id)
      BY <1>2 DEF Wins, Is
    <2>2. \A id \in Ids : Wins(r, id)' => id \in apps /\ id \notin apps'
      BY <1>1 DEF Wins, Is, FirstAccess, Arrived
    <2>3. apps' \subseteq apps
      BY DEF FirstAccess
    <2> QED BY <2>1, <2>2, <2>3 DEF Progress, OneWinner
  <1>7. RivalsUnbind'
    BY <1>1 DEF Progress, RivalsUnbind, InFlight, Arrived, Undoes
  <1>8. StillThere'
    <2>1. ASSUME NEW s \in Requests \ {r}, pc[s] \in {"setstatus", "insertstatus"}
          PROVE  job[s].id \in apps' \cup raced' /\ (binding'[s] => job[s].id \in apps')
      <3>1. job[s].id \in apps \cup raced /\ (binding[s] => job[s].id \in apps)
        BY <2>1 DEF Progress, StillThere
      <3>2. InFlight(s) /\ job[s].op \in {"create", "start", "stop"}
        BY <2>1 DEF InFlight, Progress, InPlace
      <3>3. raced \subseteq raced' /\ (binding'[s] => binding[s] /\ ~Undoes(what, job[s]))
        BY DEF Arrived
      <3>4. CASE what.op = "delete" /\ what.id = job[s].id
        <4>1. Races(job[s], what) /\ Undoes(what, job[s])
          BY <3>2, <3>4 DEF Races, Undoes
        <4> QED BY <3>2, <3>3, <3>4, <4>1 DEF Arrived
      <3>5. CASE ~(what.op = "delete" /\ what.id = job[s].id)
        BY <3>1, <3>3, <3>5 DEF FirstAccess
      <3> QED BY <3>4, <3>5
    <2>2. pc'[r] = "setstatus" => what.id \in apps'
      BY DEF FirstAccess
    <2>3. pc'[r] = "readstatus" /\ binding'[r] => Known(what.id)
      <3>1. SUFFICES ASSUME pc'[r] = "readstatus", binding'[r], ~Known(what.id)
                     PROVE  FALSE
        OBVIOUS
      <3>2. what.id \in apps /\ what.op = "status"
        BY <3>1 DEF FirstAccess
      <3>3. PICK q \in Requests : Is(q, "create", what.id) /\ InFlight(q)
        BY <3>1, <3>2 DEF Progress, Promises, AppsHaveStatus
      <3>4. Undoes(job[q], what)
        BY <3>2, <3>3 DEF Is, Undoes
      <3> QED BY <3>1, <3>3, <3>4 DEF Arrived
    <2>4. pc'[r] # "insertstatus"
      BY DEF FirstAccess
    <2> QED BY <1>2, <2>1, <2>2, <2>3, <2>4 DEF Progress, StillThere, Arrived, FirstAccess, Known
  <1>9. ReturnedHolds'
    <2>1. \A id \in Ids : /\ ~Returned(r, "create", id, "ok")'
                          /\ ~Returned(r, "start", id, "ready")'
                          /\ ~Returned(r, "stop", id, "stopped")'
      BY DEF FirstAccess, Returned, Is, Arrived
    <2>2. ASSUME NEW s \in Requests \ {r}, NEW id \in Ids, binding'[s],
                 Is(s, "create", id) \/ Is(s, "start", id) \/ Is(s, "stop", id), id \in apps
          PROVE  id \in apps'
      <3>1. what.op = "delete" => what.id # id
        BY <2>2 DEF Arrived, Undoes, Is
      <3> QED BY <2>2, <3>1 DEF FirstAccess
    <2>3. \A s \in Requests \ {r}, op \in {"create", "start", "stop"}, id \in Ids, value \in Value :
             Returned(s, op, id, value)' <=> Returned(s, op, id, value)
      BY <1>2 DEF Returned, Is
    <2> QED BY <1>2, <2>1, <2>2, <2>3
            DEF Progress, Promises, ReturnedHolds, Returned, Known, FirstAccess, Value
  <1>10. OneDeleteWins'
    BY <1>6 DEF OneWinner, OneDeleteWins, Wins, Returned
  <1>11. AppsHaveStatus'
    <2>1. \A id \in Ids, s \in Requests : Is(s, "create", id) /\ InFlight(s) =>
              Is(s, "create", id)' /\ InFlight(s)'
      BY <1>1, <1>2 DEF Is, InFlight
    <2>2. apps' \subseteq apps /\ apps \subseteq Ids /\ statuses' = statuses
      BY DEF FirstAccess, TypeOK
    <2>3. \A id \in apps' : Known(id)' \/ \E s \in Requests : Is(s, "create", id)' /\ InFlight(s)'
      BY <2>1, <2>2 DEF Progress, Promises, AppsHaveStatus, Known
    <2>4. \A id \in Ids : ~Returned(r, "status", id, "not_ready")'
      BY DEF FirstAccess, Returned, Is, Arrived
    <2>5. \A s \in Requests, id \in Ids : Returned(s, "status", id, "not_ready")' => ~binding'[s]
      BY <1>2, <2>4 DEF Progress, Promises, AppsHaveStatus, Returned, Is
    <2> QED BY <2>3, <2>5 DEF AppsHaveStatus
  <1>12. LeakNeedsRace'
    <2>1. ASSUME NEW id \in DOMAIN statuses, id \notin apps'
          PROVE  id \in raced' \/ \E s \in Requests : Is(s, "delete", id)' /\ InFlight(s)'
      <3>1. CASE id \in apps
        <4>1. Is(r, "delete", id)' /\ InFlight(r)'
          BY <1>1, <2>1, <3>1 DEF FirstAccess, Is, InFlight, Arrived
        <4> QED BY <4>1
      <3>2. CASE id \notin apps
        <4>1. \A s \in Requests : Is(s, "delete", id) /\ InFlight(s) =>
                 Is(s, "delete", id)' /\ InFlight(s)'
          BY <1>1, <1>2 DEF Is, InFlight
        <4> QED BY <2>1, <3>2, <4>1 DEF Progress, Promises, LeakNeedsRace, Arrived
      <3> QED BY <3>1, <3>2
    <2> QED BY <2>1 DEF LeakNeedsRace, FirstAccess
  <1> QED BY <1>3, <1>4, <1>5, <1>6, <1>7, <1>8, <1>9, <1>10, <1>11, <1>12 DEF Progress, Promises

-----------------------------------------------------------------------------
(***************************************************************************)
(* A call that goes on keeps the invariant.                                *)
(***************************************************************************)

\* What depends on the calls alone.
LEMMA MovedKeeps ==
    ASSUME TypeOK, Progress, NEW r \in Requests, Moved(r)
    PROVE  /\ IdsAreNew' /\ RivalsUnbind'
           /\ job[r].id \in Ids
           /\ \A s \in Requests, op \in Operation \cup {"create"}, id \in Ids :
                /\ Is(s, op, id)' <=> Is(s, op, id)
                /\ s # r /\ Is(s, op, id) /\ InFlight(s) => InFlight(s)'
           /\ \A s \in Requests \ {r}, op \in Operation \cup {"create"}, id \in Ids, value \in Value :
                Returned(s, op, id, value)' <=> Returned(s, op, id, value)
           /\ \A s \in Requests \ {r}, id \in Ids : Wins(s, id)' <=> Wins(s, id)
           /\ \A s \in Requests : InFlight(r) /\ binding[s] /\ pc[s] # "idle" =>
                ~Undoes(job[r], job[s])
  <1>1. IdsAreNew'
    BY DEF Progress, IdsAreNew, Creations, Moved
  <1>2. \A s \in Requests : (InFlight(s)' => InFlight(s)) /\ (pc'[s] = "idle" <=> pc[s] = "idle")
    BY DEF Moved, InFlight
  <1>3. RivalsUnbind'
    BY <1>2 DEF Progress, RivalsUnbind, Moved, Undoes
  <1>4. job[r].id \in Ids
    BY JobType DEF Moved, InFlight, Progress
  <1>5. \A s \in Requests : InFlight(r) /\ binding[s] /\ pc[s] # "idle" => ~Undoes(job[r], job[s])
    BY DEF Progress, RivalsUnbind
  <1> QED BY <1>1, <1>3, <1>4, <1>5 DEF Is, InFlight, Moved, Returned, Wins

\* A call that got past the look at the first map is about an app that is
\* there or was.
LEMMA BornKnown ==
    ASSUME TypeOK, Progress, NEW r \in Requests, InFlight(r), pc[r] # "insertapp"
    PROVE  ~Unborn(job[r].id)
  <1>1. job[r] # NoJob /\ job[r].id \in Ids /\ job[r].op \in Operation \cup {"create"}
    BY JobType DEF InFlight, Progress, InPlace
  <1>2. CASE job[r].op = "create"
    <2>1. r \in Creations
      BY <1>1, <1>2 DEF Creations
    <2>2. job[r].id < nextId /\ nextId \in Nat /\ job[r].id \in Nat
      BY <1>1, <2>1 DEF Progress, IdsAreNew, TypeOK, Ids
    <2>3. \A s \in Requests : Is(s, "create", job[r].id) => s = r
      BY <2>1 DEF Progress, IdsAreNew, Creations, Is
    <2> QED BY <2>2, <2>3 DEF Unborn
  <1>3. CASE job[r].op # "create"
    BY <1>1, <1>3 DEF Progress, UnbornUnknown, InFlight
  <1> QED BY <1>2, <1>3

LEMMA InsertAppKeeps ==
    ASSUME TypeOK, Progress, NEW r \in Requests, pc[r] = "insertapp",
           Moved(r), pc'[r] = "insertstatus", reply'[r] = reply[r],
           apps' = apps \cup {job[r].id}, UNCHANGED statuses
    PROVE  Progress'
  <1>0. PICK id \in Ids : id = job[r].id
    BY MovedKeeps
  <1> USE <1>0
  <1>1. /\ r \in Creations /\ Is(r, "create", id) /\ id \in Ids
        /\ InFlight(r) /\ pc[r] # "idle"
    BY MovedKeeps DEF Creations, Progress, InPlace, Is, InFlight
  <1>2. /\ Unborn(id) /\ id < nextId /\ nextId \in Nat /\ id \in Nat
        /\ \A s \in Requests : Is(s, "create", id) => s = r
    BY <1>1 DEF Unborn, Progress, IdsAreNew, Creations, Is, TypeOK, Ids
  <1>3. /\ id \notin apps /\ ~Known(id)
        /\ \A s \in Requests : job[s] # NoJob /\ job[s].id = id /\ job[s].op # "create" =>
              pc[s] = "done" /\ reply[s] = "not_found"
    BY <1>1, <1>2 DEF Progress, UnbornUnknown
  <1>4. apps' = apps \cup {id} /\ statuses' = statuses
    OBVIOUS
  <1>5. InPlace'
    BY DEF Progress, InPlace, Moved
  <1>6. UnbornUnknown'
    <2>1. ASSUME NEW i \in Ids, Unborn(i)'
          PROVE  Unborn(i) /\ i # id
      BY <1>1, <1>2, <2>1 DEF Unborn, Is, Moved
    <2>2. ASSUME NEW i \in Ids, Unborn(i), i # id
          PROVE  /\ i \notin apps' /\ ~Known(i)'
                 /\ \A s \in Requests : job'[s] # NoJob /\ job'[s].id = i /\ job'[s].op # "create" =>
                       pc'[s] = "done" /\ reply'[s] = "not_found"
      BY <1>1, <1>4, <2>2 DEF Progress, UnbornUnknown, Known, Moved, Is
    <2> QED BY <2>1, <2>2 DEF UnbornUnknown
  <1>7. OneWinner'
    <2>1. \A s \in Requests : ~Wins(s, id)
      BY <1>1, <1>3 DEF Wins, Is
    <2>2. \A i \in Ids : ~Wins(r, i) /\ ~Wins(r, i)'
      BY <1>1 DEF Wins, Is, Moved
    <2> QED BY <1>4, <2>1, <2>2, MovedKeeps DEF Progress, OneWinner
  <1>8. StillThere'
    BY <1>4 DEF Progress, StillThere, Moved, Known
  <1>9. ReturnedHolds'
    BY <1>4 DEF Progress, Promises, ReturnedHolds, Returned, Is, Known, Moved
  <1>10. OneDeleteWins'
    BY <1>7 DEF OneWinner, OneDeleteWins, Wins, Returned
  <1>11. AppsHaveStatus'
    <2>1. Is(r, "create", id)' /\ InFlight(r)'
      BY <1>1 DEF Is, InFlight, Moved
    <2>2. ASSUME NEW i \in apps, ~Known(i)
          PROVE  \E s \in Requests : Is(s, "create", i)' /\ InFlight(s)'
      <3>1. PICK s \in Requests : Is(s, "create", i) /\ InFlight(s)
        BY <2>2 DEF Progress, Promises, AppsHaveStatus
      <3>2. i \in Ids
        BY DEF TypeOK
      <3> QED BY <2>1, <3>1, <3>2 DEF Is, InFlight, Moved
    <2>3. \A s \in Requests, i \in Ids : Returned(s, "status", i, "not_ready")' => ~binding'[s]
      BY DEF Progress, Promises, AppsHaveStatus, Returned, Is, Moved
    <2> QED BY <1>4, <2>1, <2>2, <2>3 DEF AppsHaveStatus, Known
  <1>12. LeakNeedsRace'
    <2>1. ASSUME NEW i \in DOMAIN statuses \ apps, i \notin raced
          PROVE  \E s \in Requests : Is(s, "delete", i)' /\ InFlight(s)'
      <3>1. PICK s \in Requests : Is(s, "delete", i) /\ InFlight(s)
        BY <2>1 DEF Progress, Promises, LeakNeedsRace
      <3> QED BY <1>1, <3>1 DEF Is, InFlight, Moved
    <2> QED BY <1>4, <2>1 DEF LeakNeedsRace, Moved
  <1> QED BY <1>5, <1>6, <1>7, <1>8, <1>9, <1>10, <1>11, <1>12, MovedKeeps DEF Progress, Promises

\* The accesses that end a call and write or read the second map.
LEMMA EndKeeps ==
    ASSUME TypeOK, Progress, NEW r \in Requests, pc[r] \in Going \ {"insertapp"},
           Moved(r), pc'[r] = "done", UNCHANGED apps, StatusesOK',
           \/ /\ pc[r] = "insertstatus" /\ reply'[r] = "ok"
              /\ DOMAIN statuses' = DOMAIN statuses \cup {job[r].id}
              /\ statuses'[job[r].id] = IF job[r].autostart THEN "ready" ELSE "stopped"
           \/ /\ pc[r] = "setstatus"
              /\ DOMAIN statuses' = DOMAIN statuses \cup {job[r].id}
              /\ \/ job[r].op = "start" /\ reply'[r] = "ready"
                 \/ job[r].op = "stop" /\ reply'[r] = "stopped"
              /\ statuses'[job[r].id] = reply'[r]
           \/ /\ pc[r] = "readstatus" /\ UNCHANGED statuses
              /\ reply'[r] = IF Known(job[r].id) THEN statuses[job[r].id] ELSE "not_ready"
           \/ /\ pc[r] = "dropstatus" /\ reply'[r] = "ok"
              /\ DOMAIN statuses' = DOMAIN statuses \ {job[r].id},
           \A known \in DOMAIN statuses \ {job[r].id} : statuses'[known] = statuses[known]
    PROVE  Progress'
  <1>0. PICK id \in Ids : id = job[r].id
    BY MovedKeeps
  <1> USE <1>0
  <1>1. /\ id \in Ids /\ InFlight(r) /\ ~Unborn(id) /\ job[r] # NoJob
        /\ job[r].op = "create" <=> pc[r] = "insertstatus"
        /\ job[r].op \in {"start", "stop"} <=> pc[r] = "setstatus"
        /\ job[r].op = "status" <=> pc[r] = "readstatus"
        /\ job[r].op = "delete" <=> pc[r] = "dropstatus"
    BY MovedKeeps, BornKnown DEF Progress, InPlace, Going, InFlight
  <1>2. /\ \A i \in Ids \ {id} : /\ Known(i)' <=> Known(i)
                                 /\ Known(i) => statuses'[i] = statuses[i]
        /\ pc[r] \in {"insertstatus", "setstatus"} => Known(id)'
        /\ pc[r] = "dropstatus" => ~Known(id)'
        /\ pc[r] = "readstatus" => statuses' = statuses
    BY DEF Known
  <1>3. \A s \in Requests : binding[s] /\ pc[s] # "idle" => ~Undoes(job[r], job[s])
    BY <1>1, MovedKeeps
  <1>4. InPlace'
    BY DEF Progress, InPlace, Moved
  <1>5. UnbornUnknown'
    <2>1. ASSUME NEW i \in Ids, Unborn(i)'
          PROVE  Unborn(i) /\ i # id
      BY <1>1, <2>1 DEF Unborn, Is, Moved
    <2>2. ASSUME NEW i \in Ids, Unborn(i), i # id
          PROVE  /\ i \notin apps' /\ ~Known(i)'
                 /\ \A s \in Requests : job'[s] # NoJob /\ job'[s].id = i /\ job'[s].op # "create" =>
                       pc'[s] = "done" /\ reply'[s] = "not_found"
      BY <1>2, <2>2 DEF Progress, UnbornUnknown, Moved
    <2> QED BY <2>1, <2>2 DEF UnbornUnknown
  <1>6. OneWinner'
    <2>1. \A i \in Ids : Wins(r, i)' <=> Wins(r, i)
      BY <1>1 DEF Wins, Is, Moved
    <2> QED BY <2>1, MovedKeeps DEF Progress, OneWinner
  <1>7. StillThere'
    <2>1. ASSUME NEW s \in Requests \ {r}, pc[s] = "readstatus", binding[s]
          PROVE  Known(job[s].id)'
      <3>1. Known(job[s].id) /\ job[s].op = "status" /\ job[s].id \in Ids
        BY <2>1, JobType DEF Progress, StillThere, InPlace
      <3>2. pc[r] = "dropstatus" => job[s].id # id
        BY <1>1, <1>3, <2>1, <3>1 DEF Undoes
      <3> QED BY <1>1, <1>2, <3>1, <3>2 DEF Going, Moved, Known
    <2> QED BY <2>1 DEF Progress, StillThere, Moved, Known
  <1>8. ReturnedHolds'
    <2>1. ASSUME NEW s \in Requests \ {r}, NEW op \in {"create", "start", "stop"},
                 Is(s, op, id), binding[s], pc[s] # "idle"
          PROVE  /\ op = job[r].op \/ pc[r] = "readstatus"
                 /\ op # "create" \/ pc[r] = "readstatus"
      <3>1. pc[r] # "readstatus" => op = job[r].op
        BY <1>1, <1>3, <2>1 DEF Undoes, Is, Going
      <3>2. op = "create" /\ job[r].op = "create" => s = r
        BY <1>1, <2>1 DEF Progress, IdsAreNew, Creations, Is
      <3> QED BY <3>1, <3>2
    <2>2. ASSUME NEW s \in Requests \ {r}, NEW i \in Ids, binding[s]
          PROVE  /\ Returned(s, "create", i, "ok") =>
                      /\ i \in apps /\ Known(i)'
                      /\ statuses'[i] = IF job[s].autostart THEN "ready" ELSE "stopped"
                 /\ Returned(s, "start", i, "ready") => i \in apps /\ Known(i)' /\ statuses'[i] = "ready"
                 /\ Returned(s, "stop", i, "stopped") =>
                      i \in apps /\ Known(i)' /\ statuses'[i] = "stopped"
      <3>1. /\ Returned(s, "create", i, "ok") =>
                  /\ i \in apps /\ Known(i)
                  /\ statuses[i] = IF job[s].autostart THEN "ready" ELSE "stopped"
            /\ Returned(s, "start", i, "ready") => i \in apps /\ Known(i) /\ statuses[i] = "ready"
            /\ Returned(s, "stop", i, "stopped") => i \in apps /\ Known(i) /\ statuses[i] = "stopped"
        BY <2>2 DEF Progress, Promises, ReturnedHolds
      <3>2. CASE i # id
        BY <1>2, <3>1, <3>2
      <3>3. CASE i = id /\ pc[r] = "readstatus"
        BY <1>2, <3>1, <3>3 DEF Known
      <3>4. CASE i = id /\ pc[r] # "readstatus"
        <4>1. \A op \in {"create", "start", "stop"}, value \in Value : Returned(s, op, id, value) =>
                 op = job[r].op /\ op # "create"
          BY <2>1, <2>2, <3>4 DEF Returned
        <4>2. job[r].op \in {"start", "stop"} => Known(id)' /\
                 statuses'[id] = IF job[r].op = "start" THEN "ready" ELSE "stopped"
          BY <1>1, <1>2
        <4> QED BY <3>1, <3>4, <4>1, <4>2 DEF Value
      <3> QED BY <3>2, <3>3, <3>4
    <2>3. ASSUME NEW i \in Ids, binding[r]
          PROVE  /\ Returned(r, "create", i, "ok")' =>
                      /\ i \in apps /\ Known(i)'
                      /\ statuses'[i] = IF job[r].autostart THEN "ready" ELSE "stopped"
                 /\ Returned(r, "start", i, "ready")' => i \in apps /\ Known(i)' /\ statuses'[i] = "ready"
                 /\ Returned(r, "stop", i, "stopped")' =>
                      i \in apps /\ Known(i)' /\ statuses'[i] = "stopped"
      <3>1. pc[r] \in {"insertstatus", "setstatus"} => id \in apps
        BY <2>3 DEF Progress, StillThere
      <3>2. job'[r] = job[r]
        BY DEF Moved
      <3> QED BY <1>1, <1>2, <3>1, <3>2 DEF Returned, Is
    <2>4. /\ UNCHANGED <<apps, binding, job>>
          /\ \A s \in Requests \ {r} : pc'[s] = pc[s] /\ reply'[s] = reply[s]
      BY DEF Moved
    <2> QED BY <2>2, <2>3, <2>4 DEF ReturnedHolds, Returned, Is
  <1>9. OneDeleteWins'
    BY <1>6 DEF OneWinner, OneDeleteWins, Wins, Returned
  <1>10. AppsHaveStatus'
    <2>1. ASSUME NEW i \in apps, ~Known(i)'
          PROVE  \E s \in Requests : Is(s, "create", i)' /\ InFlight(s)'
      <3>1. i \in Ids /\ (pc[r] = "dropstatus" => i # id)
        <4>1. pc[r] = "dropstatus" => Wins(r, id)
          BY <1>1 DEF Wins, Is
        <4> QED BY <1>1, <4>1 DEF Progress, OneWinner, TypeOK
      <3>2. ~Known(i) /\ (pc[r] = "insertstatus" => i # id)
        BY <1>1, <1>2, <2>1, <3>1 DEF Going, Known
      <3>3. PICK s \in Requests : Is(s, "create", i) /\ InFlight(s)
        BY <3>2 DEF Progress, Promises, AppsHaveStatus
      <3>4. s # r
        BY <1>1, <3>2, <3>3 DEF Is
      <3> QED BY <3>3, <3>4 DEF Is, InFlight, Moved
    <2>2. ASSUME NEW i \in Ids, Returned(r, "status", i, "not_ready")'
          PROVE  ~binding[r]
      <3>1. pc[r] = "readstatus" /\ i = id
        BY <1>1, <2>2 DEF Returned, Is, Moved
      <3>2. ~Known(id)
        <4>1. Known(id) => statuses[id] \in Status
          BY DEF TypeOK, Known
        <4> QED BY <1>1, <2>2, <3>1, <4>1 DEF Returned, Is, Status
      <3> QED BY <3>1, <3>2 DEF Progress, StillThere
    <2>3. \A s \in Requests, i \in Ids : Returned(s, "status", i, "not_ready")' => ~binding'[s]
      BY <2>2 DEF Progress, Promises, AppsHaveStatus, Returned, Is, Moved
    <2> QED BY <2>1, <2>3 DEF AppsHaveStatus
  <1>11. LeakNeedsRace'
    <2>1. ASSUME NEW i \in DOMAIN statuses' \ apps, i \notin raced
          PROVE  \E s \in Requests : Is(s, "delete", i)' /\ InFlight(s)'
      <3>1. i \in Ids
        BY DEF StatusesOK
      <3>2. pc[r] \in {"insertstatus", "setstatus"} => i # id
        BY <2>1 DEF Progress, StillThere
      <3>3. i \in DOMAIN statuses
        BY <1>1, <1>2, <2>1, <3>1, <3>2 DEF Known, Going
      <3>4. PICK s \in Requests : Is(s, "delete", i) /\ InFlight(s)
        BY <2>1, <3>3 DEF Progress, Promises, LeakNeedsRace
      <3>5. s # r
        BY <1>1, <1>2, <2>1, <3>4 DEF Is, Known
      <3> QED BY <3>4, <3>5 DEF Is, InFlight, Moved
    <2> QED BY <2>1 DEF LeakNeedsRace, Moved
  <1> QED BY <1>4, <1>5, <1>6, <1>7, <1>8, <1>9, <1>10, <1>11, MovedKeeps DEF Progress, Promises

-----------------------------------------------------------------------------
(***************************************************************************)
(* The steps of Next.                                                      *)
(***************************************************************************)

LEMMA TypeParts ==
    TypeOK <=> nextId \in Nat /\ apps \subseteq Ids /\ StatusesOK /\ CallsOK
  BY StatusesType DEF TypeOK, CallsOK

LEMMA TypePartsNext ==
    (TypeOK <=> nextId \in Nat /\ apps \subseteq Ids /\ StatusesOK /\ CallsOK)'
  BY TypeParts, PTL

LEMMA ArriveStep ==
    ASSUME IInv, NEW r \in Requests,
           \/ \E autostart \in BOOLEAN : Create(r, autostart)
           \/ \E id \in Ids, op \in Operation \ {"delete"} : CheckApp(r, op, id)
           \/ \E id \in Ids : RemoveApp(r, id)
    PROVE  IInv'
  <1>1. TypeOK /\ Progress
    BY DEF IInv
  <1>2. ASSUME NEW what \in Job, Arrive(r, what), FirstAccess(r, what),
               \/ \E place \in Going : Go(r, place)
               \/ \E value \in Value : Return(r, value),
               nextId' \in Nat
        PROVE  IInv'
    <2>1. CallsOK' /\ Arrived(r, what)
      BY <1>1, <1>2, ArriveArrived
    <2>2. pc'[r] # "done" => reply'[r] = reply[r]
      BY <1>1, <1>2 DEF Go, Return, TypeOK
    <2>3. StatusesOK'
      BY <1>1, <1>2, TypeParts DEF FirstAccess, StatusesOK
    <2>4. apps' \subseteq Ids
      BY <1>1, <1>2, TypeParts DEF FirstAccess
    <2>5. TypeOK'
      BY <1>2, <2>1, <2>3, <2>4, TypePartsNext
    <2> QED BY <1>1, <1>2, <2>1, <2>2, <2>5, ArriveKeeps DEF IInv
  <1>3. ASSUME NEW autostart \in BOOLEAN, Create(r, autostart)
        PROVE  IInv'
    <2>1. pc[r] = "idle" /\ r \notin Creations
      BY <1>1, <1>3 DEF Create, Arrive, Progress, InPlace, Creations
    <2>2. nextId \in Ids /\ nextId \in Nat
      BY <1>1, <2>1, IdLeft DEF Progress, TypeOK
    <2> DEFINE what == [op |-> "create", id |-> nextId, autostart |-> autostart]
    <2>3. what \in Job
      BY <2>2 DEF Job
    <2>4. Arrive(r, what) /\ Go(r, "insertapp") /\ nextId' = nextId + 1 /\ UNCHANGED <<apps, statuses>>
      BY <1>3 DEF Create, NewId
    <2>5. FirstAccess(r, what)
      BY <1>1, <2>4 DEF FirstAccess, Go, TypeOK
    <2> HIDE DEF what
    <2> QED BY <1>2, <2>2, <2>3, <2>4, <2>5 DEF Going
  <1>4. ASSUME NEW id \in Ids, NEW op \in Operation \ {"delete"}, CheckApp(r, op, id)
        PROVE  IInv'
    <2> DEFINE what == [op |-> op, id |-> id]
    <2>1. what \in Job /\ what.op = op /\ what.id = id
      BY DEF Job
    <2>2. Arrive(r, what) /\ UNCHANGED <<nextId, apps, statuses>>
      BY <1>4 DEF CheckApp
    <2> HIDE DEF what
    <2>3. FirstAccess(r, what)
      BY <1>1, <1>4, <2>1, <2>2 DEF CheckApp, FirstAccess, Go, Return, TypeOK
    <2>4. \/ \E place \in Going : Go(r, place)
          \/ \E value \in Value : Return(r, value)
      BY <1>4 DEF CheckApp, Going, Value
    <2>5. nextId' \in Nat
      BY <1>1, <2>2 DEF TypeOK
    <2> QED BY <1>2, <2>1, <2>2, <2>3, <2>4, <2>5
  <1>5. ASSUME NEW id \in Ids, RemoveApp(r, id)
        PROVE  IInv'
    <2> DEFINE what == [op |-> "delete", id |-> id]
    <2>1. what \in Job /\ what.op = "delete" /\ what.id = id
      BY DEF Job, Operation
    <2>2. Arrive(r, what) /\ UNCHANGED <<nextId, statuses>> /\ apps' = apps \ {id}
      BY <1>5 DEF RemoveApp
    <2> HIDE DEF what
    <2>3. FirstAccess(r, what)
      BY <1>1, <1>5, <2>1, <2>2 DEF RemoveApp, FirstAccess, Go, Return, TypeOK, Operation
    <2>4. \/ \E place \in Going : Go(r, place)
          \/ \E value \in Value : Return(r, value)
      BY <1>5 DEF RemoveApp, Going, Value
    <2>5. nextId' \in Nat
      BY <1>1, <2>2 DEF TypeOK
    <2> QED BY <1>2, <2>1, <2>2, <2>3, <2>4, <2>5
  <1> QED BY <1>3, <1>4, <1>5

LEMMA AccessStep ==
    ASSUME IInv, NEW r \in Requests,
           InsertApp(r) \/ InsertStatus(r) \/ SetStatus(r) \/ ReadStatus(r) \/ DropStatus(r)
    PROVE  IInv'
  <1>1. TypeOK /\ Progress /\ nextId \in Nat /\ apps \subseteq Ids /\ StatusesOK
    BY TypeParts DEF IInv
  <1>2. InFlight(r) /\ job[r].id \in Ids
    BY <1>1, JobType DEF InsertApp, InsertStatus, SetStatus, ReadStatus, DropStatus, InFlight,
                         Progress
  <1>3. CASE InsertApp(r)
    <2>1. /\ pc[r] = "insertapp" /\ apps' = apps \cup {job[r].id} /\ Go(r, "insertstatus")
          /\ UNCHANGED <<nextId, statuses, job, binding, raced>>
      BY <1>3 DEF InsertApp
    <2>2. CallsOK' /\ Moved(r) /\ pc'[r] = "insertstatus" /\ reply' = reply
      BY <1>1, <1>2, <2>1, GoMoved DEF Going, Go
    <2>3. TypeOK'
      BY <1>1, <1>2, <2>1, <2>2 DEF TypeOK, CallsOK
    <2> QED BY <1>1, <2>1, <2>2, <2>3, InsertAppKeeps DEF IInv
  <1>4. ASSUME NEW value \in Value, Return(r, value), UNCHANGED <<nextId, job, binding, raced>>
        PROVE  CallsOK' /\ Moved(r) /\ pc'[r] = "done" /\ reply'[r] = value
    BY <1>1, <1>2, <1>4, ReturnMoved
  <1>5. CASE InsertStatus(r)
    <2> DEFINE status == IF job[r].autostart THEN "ready" ELSE "stopped"
    <2>1. /\ pc[r] = "insertstatus" /\ Put(job[r].id, status) /\ Return(r, "ok")
          /\ UNCHANGED <<nextId, apps, job, binding, raced>>
      BY <1>5 DEF InsertStatus
    <2>2. status \in Status
      BY DEF Status
    <2> HIDE DEF status
    <2>3. /\ StatusesOK'
          /\ DOMAIN statuses' = DOMAIN statuses \cup {job[r].id}
          /\ statuses'[job[r].id] = status
          /\ \A known \in DOMAIN statuses \ {job[r].id} : statuses'[known] = statuses[known]
      BY <1>1, <1>2, <2>1, <2>2, PutType
    <2>4. CallsOK' /\ Moved(r) /\ pc'[r] = "done" /\ reply'[r] = "ok"
      BY <1>4, <2>1 DEF Value
    <2>5. TypeOK'
      BY <1>1, <2>1, <2>3, <2>4, TypePartsNext
    <2>6. Progress'
      BY <1>1, <2>1, <2>3, <2>4, EndKeeps DEF Going, status
    <2> QED BY <2>5, <2>6 DEF IInv
  <1>6. CASE SetStatus(r)
    <2> DEFINE status == StatusSet(job[r].op)
    <2>1. /\ pc[r] = "setstatus" /\ Put(job[r].id, status) /\ Return(r, status)
          /\ UNCHANGED <<nextId, apps, job, binding, raced>>
      BY <1>6 DEF SetStatus
    <2>2. /\ status \in Status /\ status \in Value
          /\ \/ job[r].op = "start" /\ status = "ready"
             \/ job[r].op = "stop" /\ status = "stopped"
      BY <1>1, <2>1 DEF Status, Value, StatusSet, Progress, InPlace
    <2> HIDE DEF status
    <2>3. /\ StatusesOK'
          /\ DOMAIN statuses' = DOMAIN statuses \cup {job[r].id}
          /\ statuses'[job[r].id] = status
          /\ \A known \in DOMAIN statuses \ {job[r].id} : statuses'[known] = statuses[known]
      BY <1>1, <1>2, <2>1, <2>2, PutType
    <2>4. CallsOK' /\ Moved(r) /\ pc'[r] = "done" /\ reply'[r] = status
      BY <1>4, <2>1, <2>2
    <2>5. TypeOK'
      BY <1>1, <2>1, <2>3, <2>4, TypePartsNext
    <2>6. Progress'
      BY <1>1, <2>1, <2>2, <2>3, <2>4, EndKeeps DEF Going
    <2> QED BY <2>5, <2>6 DEF IInv
  <1>7. CASE ReadStatus(r)
    <2> DEFINE status == IF Known(job[r].id) THEN statuses[job[r].id] ELSE "not_ready"
    <2>1. /\ pc[r] = "readstatus" /\ Return(r, status)
          /\ UNCHANGED <<nextId, apps, statuses, job, binding, raced>>
      BY <1>7 DEF ReadStatus
    <2>2. status \in Value
      BY <1>1 DEF StatusesOK, Status, Value, Known
    <2> HIDE DEF status
    <2>3. CallsOK' /\ Moved(r) /\ pc'[r] = "done" /\ reply'[r] = status
      BY <1>4, <2>1, <2>2
    <2>4. TypeOK' /\ StatusesOK'
      BY <1>1, <2>1, <2>3, TypePartsNext DEF StatusesOK
    <2>5. Progress'
      BY <1>1, <2>1, <2>3, <2>4, EndKeeps DEF Going, status
    <2> QED BY <2>4, <2>5 DEF IInv
  <1>8. CASE DropStatus(r)
    <2>1. /\ pc[r] = "dropstatus" /\ Forget(job[r].id) /\ Return(r, "ok")
          /\ UNCHANGED <<nextId, apps, job, binding, raced>>
      BY <1>8 DEF DropStatus
    <2>2. /\ StatusesOK'
          /\ DOMAIN statuses' = DOMAIN statuses \ {job[r].id}
          /\ \A known \in DOMAIN statuses \ {job[r].id} : statuses'[known] = statuses[known]
      BY <1>1, <1>2, <2>1, ForgetType
    <2>3. CallsOK' /\ Moved(r) /\ pc'[r] = "done" /\ reply'[r] = "ok"
      BY <1>4, <2>1 DEF Value
    <2>4. TypeOK'
      BY <1>1, <2>1, <2>2, <2>3, TypePartsNext
    <2>5. Progress'
      BY <1>1, <2>1, <2>2, <2>3, EndKeeps DEF Going
    <2> QED BY <2>4, <2>5 DEF IInv
  <1> QED BY <1>3, <1>5, <1>6, <1>7, <1>8

LEMMA Stutter == IInv /\ UNCHANGED vars => IInv'
  <1> SUFFICES ASSUME IInv, UNCHANGED vars PROVE IInv'
    OBVIOUS
  <1>1. TypeOK'
    BY DEF IInv, TypeOK, vars
  <1>2. InPlace' /\ IdsAreNew' /\ RivalsUnbind' /\ StillThere'
    BY DEF IInv, Progress, InPlace, IdsAreNew, Creations, RivalsUnbind, InFlight, StillThere,
           Known, vars
  <1>3. UnbornUnknown' /\ OneWinner'
    BY DEF IInv, Progress, UnbornUnknown, Unborn, Is, Known, OneWinner, Wins, vars
  <1>4. Promises'
    BY DEF IInv, Progress, Promises, ReturnedHolds, OneDeleteWins, AppsHaveStatus, LeakNeedsRace,
           Returned, Is, Known, InFlight, vars
  <1> QED BY <1>1, <1>2, <1>3, <1>4 DEF IInv, Progress

-----------------------------------------------------------------------------
(***************************************************************************)
(* The theorems.                                                           *)
(***************************************************************************)

LEMMA InitHolds == Init => IInv
  <1> SUFFICES ASSUME Init PROVE IInv
    OBVIOUS
  <1>1. /\ nextId = 0 /\ apps = {} /\ raced = {} /\ DOMAIN statuses = {}
        /\ \A r \in Requests : pc[r] = "idle" /\ job[r] = NoJob /\ reply[r] = "none"
    BY DEF Init
  <1>2. TypeOK
    <2>1. CallsOK
      BY DEF Init, CallsOK
    <2>2. StatusesOK
      BY DEF Init, StatusesOK
    <2> QED BY <1>1, <2>1, <2>2, TypeParts
  <1>3. InPlace /\ RivalsUnbind /\ StillThere
    BY <1>1 DEF InPlace, RivalsUnbind, InFlight, StillThere
  <1>4. IdsAreNew
    <2>1. Creations = {}
      BY <1>1 DEF Creations
    <2> QED BY <1>1, <2>1, FS_EmptySet DEF IdsAreNew
  <1>5. UnbornUnknown /\ OneWinner
    BY <1>1 DEF UnbornUnknown, OneWinner, Wins, Is, Known
  <1>6. Promises
    BY <1>1 DEF Promises, ReturnedHolds, OneDeleteWins, AppsHaveStatus, LeakNeedsRace, Returned, Is
  <1> QED BY <1>2, <1>3, <1>4, <1>5, <1>6 DEF IInv, Progress

\* The invariant holds in every state, for every finite number of calls.
THEOREM InductiveInvariant == Spec => []IInv
  <1>1. IInv /\ [Next]_vars => IInv'
    BY ArriveStep, AccessStep, Stutter DEF Next, Terminated
  <1> QED BY <1>1, InitHolds, PTL DEF Spec

\* The maps and the calls are always well-formed; in particular the counter
\* gives an id to every call that creates an app (mock.rs:29).
THEOREM TypeCorrect == Spec => []TypeOK
  <1>1. IInv => TypeOK
    BY DEF IInv
  <1> QED BY <1>1, InductiveInvariant, PTL

\* What create, start and stop have returned is what the maps hold, until
\* another call undoes it (mock.rs:28-64).
THEOREM WhatWasReturnedHolds == Spec => []ReturnedHolds
  <1>1. IInv => ReturnedHolds
    BY DEF IInv, Progress, Promises
  <1> QED BY <1>1, InductiveInvariant, PTL

\* Of several deletes of an app one succeeds, and the app does not come back
\* (mock.rs:66-75).
THEOREM DeletedOnce == Spec => []OneDeleteWins
  <1>1. IInv => OneDeleteWins
    BY DEF IInv, Progress, Promises
  <1> QED BY <1>1, InductiveInvariant, PTL

\* An app does not stay without a status (mock.rs:105-126).
THEOREM StatusOfEveryApp == Spec => []AppsHaveStatus
  <1>1. IInv => AppsHaveStatus
    BY DEF IInv, Progress, Promises
  <1> QED BY <1>1, InductiveInvariant, PTL

\* A status is left without its app only where a delete raced a creation,
\* start or stop of it (mock.rs:46-50).
THEOREM LeakOnlyByRace == Spec => []LeakNeedsRace
  <1>1. IInv => LeakNeedsRace
    BY DEF IInv, Progress, Promises
  <1> QED BY <1>1, InductiveInvariant, PTL

=============================================================================
