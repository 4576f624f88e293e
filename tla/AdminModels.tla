----------------------------- MODULE AdminModels -----------------------------
(***************************************************************************)
(* The models of a service as the administration API keeps them, in three  *)
(* documents: the connections, the model instances bound to them, and the  *)
(* routers that refer to models.                                           *)
(*                                                                         *)
(* A model made with credentials of its own has a dedicated connection,    *)
(* conn-for-<id>; here it has the name of the model.  routers.json is only *)
(* changed by updateConfig, under its lock; the other two are read and     *)
(* written whole.                                                          *)
(***************************************************************************)
EXTENDS AdminTasks, FiniteSets

CONSTANTS
  Models,          \* model ids
  Shared,          \* ids of the connections made by hand
  NoModel,         \* no such instance
  Own,             \* the request names no connection
  Bound            \* [Models -> a connection or NoModel]: the instances at first

ConnIds == Models \cup Shared
Places  == {"model", "token"}    \* a router lists models, and so do its tokens

ASSUME ModelAssumption ==
  /\ Models \cap Shared = {} /\ NoModel \notin ConnIds /\ Own \notin ConnIds
  /\ Bound \in [Models -> ConnIds \cup {NoModel}]

VARIABLES
  connections,     \* how many connections carry each id
  instances,       \* the connection each instance is bound to
  refs             \* the references of routers and their tokens

modelVars == <<connections, instances, refs>>

Users(bound, c) == {m \in Models : bound[m] = c}

-----------------------------------------------------------------------------
\* POST /api/models.

CreateModel(t) ==
  /\ \E m \in Models, to \in ConnIds \cup {Own} :
       /\ instances[m] = NoModel
       /\ Starts(t, [step |-> "bind", model |-> m, to |-> to, bound |-> instances])
  /\ UNCHANGED modelVars

BindInstanceFirst(t) ==                  \* the instance is written before its connection
  LET w == task[t] IN
  /\ w.step = "bind" /\ w.to = Own
  /\ instances' = [w.bound EXCEPT ![w.model] = w.model]
  /\ Goes(t, [step |-> "writeConnections", copy |-> [connections EXCEPT ![w.model] = 1]])
  /\ UNCHANGED <<connections, refs>>

Bind(t) ==
  LET w == task[t] IN
  /\ w.step = "bind"
  /\ \/ /\ w.to = Own                    \* a leftover of that name is replaced
        /\ Goes(t, [step |-> "addConnection", model |-> w.model, bound |-> w.bound,
                    copy |-> [connections EXCEPT ![w.model] = 1]])
     \/ /\ w.to # Own /\ connections[w.to] > 0
        /\ Goes(t, [step |-> "addInstance", model |-> w.model,
                    bound |-> [w.bound EXCEPT ![w.model] = w.to]])
     \/ w.to # Own /\ connections[w.to] = 0 /\ Ends(t)
  /\ UNCHANGED modelVars

AddConnection(t) ==
  LET w == task[t] IN
  /\ w.step = "addConnection"
  /\ connections' = w.copy
  /\ Goes(t, [step |-> "addInstance", model |-> w.model,
              bound |-> [w.bound EXCEPT ![w.model] = w.model]])
  /\ UNCHANGED <<instances, refs>>

AddInstance(t) ==
  /\ task[t].step = "addInstance"
  /\ instances' = task[t].bound
  /\ Ends(t)
  /\ UNCHANGED <<connections, refs>>

-----------------------------------------------------------------------------
\* PUT /api/models/:id.  `to` is the connection the request names, or Own;
\* `keyed` tells whether it carries credentials.

UpdateModel(t) ==
  /\ \E m \in Models, n \in Models, to \in ConnIds \cup {Own}, keyed \in BOOLEAN :
       /\ instances[m] # NoModel
       /\ n = m \/ instances[n] = NoModel
       /\ Starts(t, [step |-> "rebind", model |-> m, new |-> n, to |-> to, keyed |-> keyed,
                     bound |-> instances])
  /\ UNCHANGED modelVars

\* The dedicated connection a model leaves is dropped unless another uses it.
WithoutOrphan(conns, bound, m, to) ==
  IF bound[m] = m /\ to # m /\ Users(bound, m) = {m} /\ conns[m] > 0
  THEN [conns EXCEPT ![m] = @ - 1] ELSE conns

\* It is renamed with its model if no other uses it; then the connection of
\* the new name is updated, or made.
WithDedicated(conns, bound, m, n) ==
  LET renamed == IF n # m /\ bound[m] = m /\ conns[m] > 0 /\ Users(bound, m) = {m}
                 THEN [conns EXCEPT ![m] = @ - 1, ![n] = @ + 1] ELSE conns
  IN  IF renamed[n] = 0 THEN [renamed EXCEPT ![n] = 1] ELSE renamed

\* The connections are written before the instances ...
Rebound(t, conns, c) ==
  LET w == task[t] IN
  Goes(t, [step |-> "changeConnections", model |-> w.model, new |-> w.new,
           changed |-> conns # connections, copy |-> conns,
           bound |-> [w.bound EXCEPT ![w.model] = NoModel, ![w.new] = c]])

\* ... or they stay as they are.
Kept(t, c) ==
  LET w == task[t] IN
  Goes(t, [step |-> "changeInstance", model |-> w.model, new |-> w.new, changed |-> FALSE,
           bound |-> [w.bound EXCEPT ![w.model] = NoModel, ![w.new] = c]])

Rebind(t) ==
  LET w == task[t]
      now == w.bound[w.model]
      own == now = w.model \/ connections[now] = 0 \/ w.keyed
      left == WithoutOrphan(connections, w.bound, w.model, w.to)
  IN
  /\ w.step = "rebind"
  /\ \/ w.to # Own /\ connections[w.to] = 0 /\ Ends(t)
     \/ /\ w.to # Own /\ connections[w.to] > 0
        /\ IF left = connections THEN Kept(t, w.to) ELSE Rebound(t, left, w.to)
     \/ /\ w.to = Own /\ own
        /\ Rebound(t, WithDedicated(connections, w.bound, w.model, w.new), w.new)
     \/ w.to = Own /\ ~own /\ Kept(t, now)     \* a plain edit keeps the binding
  /\ UNCHANGED modelVars

ChangeConnections(t) ==
  LET w == task[t] IN
  /\ w.step = "changeConnections"
  /\ connections' = w.copy
  /\ Goes(t, [step |-> "changeInstance", model |-> w.model, new |-> w.new,
              changed |-> w.changed, bound |-> w.bound])
  /\ UNCHANGED <<instances, refs>>

ChangeInstance(t) ==
  LET w == task[t] IN
  /\ w.step = "changeInstance"
  /\ instances' = w.bound
  /\ IF w.new = w.model THEN Ends(t)
     ELSE Goes(t, [step |-> "cascade", model |-> w.model, new |-> w.new])
  /\ UNCHANGED <<connections, refs>>

RenamedInModels(old, new) ==             \* the lists of tokens are forgotten
  {IF r = <<"model", old>> THEN <<"model", new>> ELSE r : r \in refs}

\* The references of routers and of their tokens follow a rename.
Renamed(old, new) == {IF r[2] = old THEN <<r[1], new>> ELSE r : r \in refs}

Cascade(t) ==
  /\ task[t].step = "cascade"
  /\ refs' = Renamed(task[t].model, task[t].new)
  /\ Ends(t)
  /\ UNCHANGED <<connections, instances>>

-----------------------------------------------------------------------------
\* DELETE /api/models/:id.

DeleteModel(t) ==
  /\ \E m \in Models :
       /\ instances[m] # NoModel
       /\ Starts(t, [step |-> "checkRouters", model |-> m, bound |-> instances])
  /\ UNCHANGED modelVars

CheckRouters(t) ==
  LET w == task[t] IN
  /\ w.step = "checkRouters"
  /\ IF \E p \in Places : <<p, w.model>> \in refs THEN Ends(t)
     ELSE Goes(t, [step |-> "removeInstance", model |-> w.model, bound |-> w.bound])
  /\ UNCHANGED modelVars

RemoveInstance(t) ==
  LET w == task[t] IN
  /\ w.step = "removeInstance"
  /\ instances' = [w.bound EXCEPT ![w.model] = NoModel]
  /\ IF Users(w.bound, w.model) = {w.model}
     THEN Goes(t, [step |-> "readOrphan", model |-> w.model]) ELSE Ends(t)
  /\ UNCHANGED <<connections, refs>>

ReadOrphan(t) ==
  LET m == task[t].model IN
  /\ task[t].step = "readOrphan"
  /\ IF connections[m] = 0 THEN Ends(t)
     ELSE Goes(t, [step |-> "writeConnections", copy |-> [connections EXCEPT ![m] = 0]])
  /\ UNCHANGED modelVars

-----------------------------------------------------------------------------
\* /api/connections.

CreateConnection(t) ==
  /\ \E c \in Shared :
       /\ connections[c] = 0
       /\ Starts(t, [step |-> "writeConnections", copy |-> [connections EXCEPT ![c] = 1]])
  /\ UNCHANGED modelVars

\* A label or credentials: the list is written back as it was read.
PatchConnection(t) ==
  /\ \E c \in ConnIds : connections[c] > 0
  /\ Starts(t, [step |-> "writeConnections", copy |-> connections])
  /\ UNCHANGED modelVars

DeleteConnection(t) ==
  /\ \E c \in ConnIds :
       /\ connections[c] > 0
       /\ Starts(t, [step |-> "checkInstances", conn |-> c,
                     copy |-> [connections EXCEPT ![c] = 0]])
  /\ UNCHANGED modelVars

CheckInstances(t) ==
  LET w == task[t] IN
  /\ w.step = "checkInstances"
  /\ IF Users(instances, w.conn) # {} THEN Ends(t)
     ELSE Goes(t, [step |-> "writeConnections", copy |-> w.copy])
  /\ UNCHANGED modelVars

WriteConnections(t) ==
  /\ task[t].step = "writeConnections"
  /\ connections' = task[t].copy
  /\ Ends(t)
  /\ UNCHANGED <<instances, refs>>

-----------------------------------------------------------------------------
\* /api/instances: nothing is checked against the other documents.

PutInstance(t) ==
  /\ \E m \in Models, c \in ConnIds :
       StartsUnchecked(t, [step |-> "addInstance", model |-> m,
                           bound |-> [instances EXCEPT ![m] = c]])
  /\ UNCHANGED modelVars

DropInstance(t) ==
  /\ \E m \in Models :
       /\ instances[m] # NoModel
       /\ StartsUnchecked(t, [step |-> "addInstance", model |-> m,
                              bound |-> [instances EXCEPT ![m] = NoModel]])
  /\ UNCHANGED modelVars

-----------------------------------------------------------------------------
\* The handlers of /api/routers, their tokens' included: one updateConfig.  A
\* list may name any model, one that is not there too: a router's then answers
\* with a warning, a token's is not looked at.
EditRouters(t) ==
  /\ task[t] = Idle
  /\ requests < MaxRequests /\ requests' = requests + 1
  /\ \E p \in Places, m \in Models :
       refs' = refs \cup {<<p, m>>} \/ refs' = refs \ {<<p, m>>}
  /\ orderly' = (orderly /\ Alone(t))
  /\ UNCHANGED <<task, connections, instances>>

ModelsInit ==
  /\ instances = Bound
  /\ connections = [c \in ConnIds |-> IF c \in Shared \/ Users(Bound, c) # {} THEN 1 ELSE 0]
  /\ refs = {}

\* A rename or a rebinding that ends here has left half of its change.
Halved(w) == w.step = "cascade" \/ (w.step = "changeInstance" /\ w.changed)

ModelStep(t) ==
  \/ CreateModel(t) \/ Bind(t) \/ AddConnection(t) \/ AddInstance(t)
  \/ UpdateModel(t) \/ Rebind(t) \/ ChangeConnections(t) \/ ChangeInstance(t) \/ Cascade(t)
  \/ DeleteModel(t) \/ CheckRouters(t) \/ RemoveInstance(t) \/ ReadOrphan(t)
  \/ CreateConnection(t) \/ PatchConnection(t) \/ DeleteConnection(t) \/ CheckInstances(t)
  \/ WriteConnections(t)
  \/ PutInstance(t) \/ DropInstance(t)
  \/ EditRouters(t)

-----------------------------------------------------------------------------
\* Properties.

Updating == {"changeInstance", "cascade"}
Settled  == orderly /\ \A t \in Tasks : task[t].step \notin Updating

\* Every model has its connection.  As long as requests do not overlap and no
\* update was cut in half, the connection an instance is bound to exists, also
\* when a create or a delete failed or the process died between its writes.
BoundExists ==
  Settled => \A m \in Models : instances[m] # NoModel => connections[instances[m]] > 0
=============================================================================
