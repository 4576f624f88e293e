------------------------------ MODULE AdminTasks ------------------------------
(***************************************************************************)
(* The requests of the administration API (api/api.ts, api/connections.ts) *)
(* as tasks: a handler reads the documents it needs, checks, and writes    *)
(* whole documents, and other requests run at each of its awaits.          *)
(***************************************************************************)
EXTENDS Naturals

CONSTANTS
  Tasks,
  MaxRequests      \* bound on the requests

ASSUME RequestAssumption == MaxRequests \in Nat

VARIABLES
  task,            \* what each request is about to do, and what it has read
  requests,        \* how many there were (history)
  orderly          \* no two requests overlapped, none was cut in half, and none
                   \* went past the checks (history)

taskVars == <<task, requests, orderly>>

Idle == [step |-> "idle"]
Alone(t) == \A u \in Tasks \ {t} : task[u] = Idle

\* A request begins with its first read.
Starts(t, work) ==
  /\ task[t] = Idle
  /\ requests < MaxRequests /\ requests' = requests + 1
  /\ task' = [task EXCEPT ![t] = work]
  /\ orderly' = (orderly /\ Alone(t))

\* ... one that checks nothing.
StartsUnchecked(t, work) ==
  /\ task[t] = Idle
  /\ requests < MaxRequests /\ requests' = requests + 1
  /\ task' = [task EXCEPT ![t] = work]
  /\ orderly' = FALSE

Goes(t, work) ==
  /\ task' = [task EXCEPT ![t] = work]
  /\ UNCHANGED <<requests, orderly>>

Ends(t) == Goes(t, Idle)

TasksInit ==
  /\ task = [t \in Tasks |-> Idle]
  /\ requests = 0
  /\ orderly = TRUE
=============================================================================
