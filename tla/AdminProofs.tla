----------------------------- MODULE AdminProofs -----------------------------
(***************************************************************************)
(* Theorems about AdminApi and about Routers, the two parts of the         *)
(* administration API.  A request writes whole documents it has made of    *)
(* those it has read, however old these are by then.  What holds of        *)
(* users.json at all times has to hold of every list a request is about to *)
(* write.  A reference leads somewhere although requests overlap, because  *)
(* no write to come takes its target away.  Connections and profiles are   *)
(* there while requests do not overlap; then what the one request knows    *)
(* has to fit the documents.                                               *)
(***************************************************************************)
EXTENDS AdminApi, Routers, FiniteSetTheorems, WellFoundedInduction, TLAPS

\* What one list of users promises.
Distinct(list) ==
  \A u, v \in UserIds :
    (list[u] # NoUser /\ list[v] # NoUser /\ list[u].email = list[v].email) => u = v

Good(list) == list \in Lists /\ Admins(list) # {} /\ Distinct(list)

WithList == {"touchUsers", "writeUsers"}
WithSet  == {"writeRoles", "checkUsers"}

\* What a request may be about to write.
GoodWork(w) ==
  /\ w.step \in WithList => w \in [step : WithList, list : Lists] /\ Good(w.list)
  /\ w.step \in WithSet => w.set \subseteq Roles

IInv ==
  /\ users \in Lists /\ roles \subseteq Roles
  /\ Good(users) \/ \A u \in UserIds : users[u] = NoUser
  /\ task = [t \in Tasks |-> task[t]]
  /\ \A t \in Tasks : GoodWork(task[t])

-----------------------------------------------------------------------------
(* Lemmas about one list.                                                   *)

\* An account made or changed with an address nobody else has leaves the list
\* good, if an administrator remains.
LEMMA ChangedGood ==
  ASSUME NEW list \in Lists, Distinct(list), NEW u \in UserIds, NEW a \in Account,
         \A v \in UserIds \ {u} : list[v] # NoUser => list[v].email # a.email,
         a.role = "admin" \/ \E v \in UserIds \ {u} : v \in Admins(list)
  PROVE  Good([list EXCEPT ![u] = a])
<1> DEFINE new == [list EXCEPT ![u] = a]
<1>1. new \in Lists /\ new[u] = a /\ \A v \in UserIds \ {u} : new[v] = list[v]
  BY DEF Lists
<1> HIDE DEF new
<1>2. Admins(new) # {}
  BY <1>1, UserAssumption DEF Admins
<1>3. Distinct(new)
  BY <1>1 DEF Distinct
<1> QED BY <1>1, <1>2, <1>3 DEF Good, new

\* So does a deletion.
LEMMA DeletedGood ==
  ASSUME NEW list \in Lists, Distinct(list), NEW u \in UserIds,
         \E v \in UserIds \ {u} : v \in Admins(list)
  PROVE  Good([list EXCEPT ![u] = NoUser])
<1> DEFINE new == [list EXCEPT ![u] = NoUser]
<1>1. new \in Lists /\ new[u] = NoUser /\ \A v \in UserIds \ {u} : new[v] = list[v]
  BY DEF Lists
<1> HIDE DEF new
<1>2. Admins(new) # {}
  BY <1>1 DEF Admins
<1>3. Distinct(new)
  BY <1>1 DEF Distinct
<1> QED BY <1>1, <1>2, <1>3 DEF Good, new

-----------------------------------------------------------------------------
(* The steps.                                                               *)

\* A request that goes on to good work leaves the invariant.
LEMMA WorkKept ==
  ASSUME IInv, NEW t \in Tasks, NEW w, GoodWork(w), task' = [task EXCEPT ![t] = w]
  PROVE  task' = [s \in Tasks |-> task'[s]] /\ \A s \in Tasks : GoodWork(task'[s])
<1>1. task' = [s \in Tasks |-> IF s = t THEN w ELSE task[s]]
  BY DEF IInv
<1> QED BY <1>1 DEF IInv

\* The requests that make a new list.
LEMMA RewriteGood ==
  ASSUME IInv, NEW t \in Tasks,
         FirstAdmin(t) \/ CreateUser(t) \/ EditUser(t) \/ DeleteUser(t) \/ TouchUser(t)
  PROVE  \E list : Good(list) /\ Rewrites(t, list)
<1>1. users \in Lists /\ Distinct(users) /\ roles \subseteq Roles
  BY DEF IInv, Good, Distinct
<1>2. (\E v \in UserIds : users[v] # NoUser) => Good(users)
  BY DEF IInv
<1>3. CASE FirstAdmin(t)
  <2>1. PICK u \in UserIds, e \in Emails :
             Rewrites(t, [users EXCEPT ![u] = [email |-> e, role |-> "admin"]])
    BY <1>3 DEF FirstAdmin
  <2>2. \A v \in UserIds : users[v] = NoUser
    BY <1>3 DEF IInv, Good, FirstAdmin
  <2>3. [email |-> e, role |-> "admin"] \in Account
    BY DEF Account, BuiltIn
  <2>4. Good([users EXCEPT ![u] = [email |-> e, role |-> "admin"]])
    BY <1>1, <2>2, <2>3, ChangedGood
  <2> QED BY <2>1, <2>4
<1>4. CASE CreateUser(t)
  <2>1. PICK u \in UserIds, e \in Emails \ Addresses(users), r \in BuiltIn \cup Roles :
             users[u] = NoUser /\ Rewrites(t, [users EXCEPT ![u] = [email |-> e, role |-> r]])
    BY <1>4 DEF CreateUser
  <2>2. [email |-> e, role |-> r] \in Account
    BY <1>1 DEF Account
  <2>3. \A v \in UserIds \ {u} : users[v] # NoUser => users[v].email # e
    BY DEF Addresses
  <2>4. \E v \in UserIds \ {u} : v \in Admins(users)
    BY <1>2, <1>4, <2>1 DEF CreateUser, Good, Admins
  <2>5. Good([users EXCEPT ![u] = [email |-> e, role |-> r]])
    BY <1>1, <2>2, <2>3, <2>4, ChangedGood
  <2> QED BY <2>1, <2>5
<1>5. CASE EditUser(t)
  <2>1. PICK u \in UserIds, e \in Emails, r \in BuiltIn \cup Roles :
          /\ users[u] # NoUser
          /\ e = users[u].email \/ e \notin Addresses(users)
          /\ r # "admin" => ~LastAdmin(users, u)
          /\ Rewrites(t, [users EXCEPT ![u] = [email |-> e, role |-> r]])
    BY <1>5 DEF EditUser
  <2>2. [email |-> e, role |-> r] \in Account
    BY <1>1 DEF Account
  <2>3. \A v \in UserIds \ {u} : users[v] # NoUser => users[v].email # e
    BY <1>1, <2>1 DEF Addresses, Distinct
  <2>4. r = "admin" \/ \E v \in UserIds \ {u} : v \in Admins(users)
    BY <1>2, <2>1 DEF Good, Admins, LastAdmin
  <2>5. Good([users EXCEPT ![u] = [email |-> e, role |-> r]])
    BY <1>1, <2>2, <2>3, <2>4, ChangedGood
  <2> QED BY <2>1, <2>5
<1>6. CASE DeleteUser(t)
  <2>1. PICK u \in UserIds :
             /\ users[u] # NoUser /\ ~LastAdmin(users, u)
             /\ Rewrites(t, [users EXCEPT ![u] = NoUser])
    BY <1>6 DEF DeleteUser
  <2>2. \E v \in UserIds \ {u} : v \in Admins(users)
    BY <1>2, <2>1 DEF Good, Admins, LastAdmin
  <2>3. Good([users EXCEPT ![u] = NoUser])
    BY <1>1, <2>2, DeletedGood
  <2> QED BY <2>1, <2>3
<1>7. CASE TouchUser(t)
  BY <1>2, <1>7 DEF TouchUser
<1> QED BY <1>3, <1>4, <1>5, <1>6, <1>7

\* Every step about users or roles.
LEMMA UserStepKeeps ==
  ASSUME IInv, NEW t \in Tasks, UserStep(t)
  PROVE  IInv'
<1>1. CASE FirstAdmin(t) \/ CreateUser(t) \/ EditUser(t) \/ DeleteUser(t) \/ TouchUser(t)
  <2>1. PICK list : Good(list) /\ Rewrites(t, list)
    BY <1>1, RewriteGood
  <2>2. GoodWork([step |-> "writeUsers", list |-> list])
    BY <2>1 DEF GoodWork, Good, WithList, WithSet
  <2>3. UNCHANGED userVars
    BY <1>1 DEF FirstAdmin, CreateUser, EditUser, DeleteUser, TouchUser
  <2> QED BY <2>1, <2>2, <2>3, WorkKept DEF Rewrites, Starts, userVars, IInv
<1>2. CASE TouchUserTwice(t)
  <2>1. GoodWork([step |-> "touchUsers", list |-> users])
    BY <1>2 DEF TouchUserTwice, IInv, GoodWork, Good, WithList, WithSet
  <2> QED BY <1>2, <2>1, WorkKept DEF TouchUserTwice, Starts, userVars, IInv
<1>3. CASE WriteTouched(t)
  <2>1. task[t] \in [step : WithList, list : Lists] /\ Good(task[t].list)
    BY <1>3 DEF WriteTouched, IInv, GoodWork, WithList
  <2> DEFINE w == [task[t] EXCEPT !.step = "writeUsers"]
  <2>2. w \in [step : WithList, list : Lists] /\ w.list = task[t].list /\ w.step = "writeUsers"
    BY <2>1 DEF WithList
  <2>3. users' = task[t].list /\ roles' = roles /\ task' = [task EXCEPT ![t] = w]
    BY <1>3 DEF WriteTouched, Goes
  <2> HIDE DEF w
  <2>4. GoodWork(w)
    BY <2>1, <2>2 DEF GoodWork, WithSet
  <2> QED BY <2>1, <2>3, <2>4, WorkKept DEF IInv, Good
<1>4. CASE WriteUsers(t)
  <2>1. Good(task[t].list)
    BY <1>4 DEF WriteUsers, IInv, GoodWork, WithList
  <2>2. GoodWork(Idle)
    BY DEF GoodWork, Idle, WithList, WithSet
  <2> QED BY <1>4, <2>1, <2>2, WorkKept DEF WriteUsers, Ends, Goes, IInv, Good
<1>5. CASE CreateRole(t) \/ EditRole(t) \/ DeleteRole(t) \/ CheckUsers(t)
  <2>1. UNCHANGED userVars
    BY <1>5 DEF CreateRole, EditRole, DeleteRole, CheckUsers
  <2>2. \E w : GoodWork(w) /\ task' = [task EXCEPT ![t] = w]
    <3>1. \A s \in SUBSET Roles : GoodWork([step |-> "writeRoles", set |-> s])
      BY DEF GoodWork, WithList, WithSet
    <3>2. CASE CreateRole(t) \/ EditRole(t)
      BY <3>1, <3>2 DEF CreateRole, EditRole, Starts, IInv
    <3>3. CASE DeleteRole(t)
      <4>1. PICK r \in roles : task' = [task EXCEPT ![t] =
                   [step |-> "checkUsers", role |-> r, set |-> roles \ {r}]]
        BY <3>3 DEF DeleteRole, Starts
      <4>2. GoodWork([step |-> "checkUsers", role |-> r, set |-> roles \ {r}])
        BY DEF GoodWork, WithList, WithSet, IInv
      <4> QED BY <4>1, <4>2
    <3>4. CASE CheckUsers(t)
      <4>1. task[t].set \in SUBSET Roles
        BY <3>4 DEF CheckUsers, IInv, GoodWork, WithSet
      <4>2. GoodWork(Idle)
        BY DEF GoodWork, Idle, WithList, WithSet
      <4> QED BY <3>1, <3>4, <4>1, <4>2 DEF CheckUsers, Ends, Goes
    <3> QED BY <1>5, <3>2, <3>3, <3>4
  <2> QED BY <2>1, <2>2, WorkKept DEF userVars, IInv
<1>6. CASE WriteRoles(t)
  <2>1. task[t].set \subseteq Roles
    BY <1>6 DEF WriteRoles, IInv, GoodWork, WithSet
  <2>2. GoodWork(Idle)
    BY DEF GoodWork, Idle, WithList, WithSet
  <2> QED BY <1>6, <2>1, <2>2, WorkKept DEF WriteRoles, Ends, Goes, IInv
<1> QED BY <1>1, <1>2, <1>3, <1>4, <1>5, <1>6 DEF UserStep

\* A step about models goes on to work that is about neither list.
Elsewhere(w) == w.step \notin WithList /\ w.step \notin WithSet

LEMMA ModelStepElsewhere ==
  ASSUME NEW t \in Tasks, ModelStep(t)
  PROVE  task' = task \/ \E w : Elsewhere(w) /\ task' = [task EXCEPT ![t] = w]
<1>1. Elsewhere(Idle)
  BY DEF Elsewhere, Idle, WithList, WithSet
<1>2. CASE CreateModel(t) \/ UpdateModel(t) \/ DeleteModel(t)
  BY <1>2 DEF CreateModel, UpdateModel, DeleteModel, Starts, Elsewhere, WithList, WithSet
<1>3. CASE Bind(t) \/ AddConnection(t) \/ AddInstance(t)
  BY <1>1, <1>3 DEF Bind, AddConnection, AddInstance, Goes, Ends, Elsewhere, WithList, WithSet
<1>4. CASE Rebind(t)
  BY <1>1, <1>4 DEF Rebind, Kept, Rebound, Goes, Ends, Elsewhere, WithList, WithSet
<1>5. CASE ChangeConnections(t) \/ ChangeInstance(t) \/ Cascade(t)
  BY <1>1, <1>5
  DEF ChangeConnections, ChangeInstance, Cascade, Goes, Ends, Elsewhere, WithList, WithSet
<1>6. CASE CheckRouters(t) \/ RemoveInstance(t) \/ ReadOrphan(t)
  BY <1>1, <1>6
  DEF CheckRouters, RemoveInstance, ReadOrphan, Goes, Ends, Elsewhere, WithList, WithSet
<1>7. CASE CreateConnection(t) \/ PatchConnection(t) \/ DeleteConnection(t)
  BY <1>7
  DEF CreateConnection, PatchConnection, DeleteConnection, Starts, Elsewhere, WithList, WithSet
<1>8. CASE CheckInstances(t) \/ WriteConnections(t)
  BY <1>1, <1>8 DEF CheckInstances, WriteConnections, Goes, Ends, Elsewhere, WithList, WithSet
<1>9. CASE PutInstance(t) \/ DropInstance(t)
  BY <1>9 DEF PutInstance, DropInstance, StartsUnchecked, Elsewhere, WithList, WithSet
<1>10. CASE EditRouters(t)
  BY <1>10 DEF EditRouters
<1> QED BY <1>2, <1>3, <1>4, <1>5, <1>6, <1>7, <1>8, <1>9, <1>10 DEF ModelStep

\* So does a step about profiles.
LEMMA ProfileStepElsewhere ==
  ASSUME NEW t \in Tasks, ProfileStep(t)
  PROVE  task' = task \/ \E w : Elsewhere(w) /\ task' = [task EXCEPT ![t] = w]
<1>1. Elsewhere(Idle)
  BY DEF Elsewhere, Idle, WithList, WithSet
<1>2. CASE CreateProfile(t) \/ EditProfile(t) \/ DeleteProfile(t) \/ AssignProfiles(t)
  BY <1>2 DEF CreateProfile, EditProfile, DeleteProfile, AssignProfiles, Starts, Elsewhere,
              WithList, WithSet
<1>3. CASE CheckBindings(t) \/ WriteProfiles(t) \/ WriteRouters(t)
  BY <1>1, <1>3 DEF CheckBindings, WriteProfiles, WriteRouters, Goes, Ends, Elsewhere,
                    WithList, WithSet
<1>4. CASE CheckProfile(t)
  BY <1>1, <1>4 DEF CheckProfile, Goes, Ends, Elsewhere, WithList, WithSet
<1>5. CASE DeleteRouter(t)
  BY <1>5 DEF DeleteRouter
<1> QED BY <1>2, <1>3, <1>4, <1>5 DEF ProfileStep

LEMMA Inductive == Spec => []IInv
<1>1. Init => IInv
  <2> SUFFICES ASSUME Init PROVE IInv
    OBVIOUS
  <2>1. task = [t \in Tasks |-> Idle] /\ GoodWork(Idle)
    BY DEF Init, TasksInit, GoodWork, Idle, WithList, WithSet
  <2>2. roles \subseteq Roles
    BY DEF Init, UsersInit
  <2>3. CASE users = [u \in UserIds |-> NoUser]
    BY <2>1, <2>2, <2>3 DEF IInv, Lists
  <2>4. CASE \E a \in UserIds, e \in Emails :
               users = [u \in UserIds |-> IF u = a THEN [email |-> e, role |-> "admin"] ELSE NoUser]
    <3>1. PICK a \in UserIds, e \in Emails :
               users = [u \in UserIds |-> IF u = a THEN [email |-> e, role |-> "admin"] ELSE NoUser]
      BY <2>4
    <3>2. [email |-> e, role |-> "admin"] \in Account
      BY DEF Account, BuiltIn
    <3>3. users \in Lists
      BY <3>1, <3>2 DEF Lists
    <3>4. users[a] # NoUser /\ users[a].role = "admin" /\ \A u \in UserIds \ {a} : users[u] = NoUser
      BY <3>1, <3>2, UserAssumption
    <3>5. Good(users)
      BY <3>3, <3>4 DEF Good, Admins, Distinct
    <3> QED BY <2>1, <2>2, <3>3, <3>5 DEF IInv
  <2> QED BY <2>3, <2>4 DEF Init, UsersInit
<1>2. IInv /\ [Next]_vars => IInv'
  <2> SUFFICES ASSUME IInv, [Next]_vars PROVE IInv'
    OBVIOUS
  <2>1. ASSUME NEW t \in Tasks, UserStep(t) PROVE IInv'
    BY <2>1, UserStepKeeps
  <2>2. ASSUME NEW t \in Tasks, ModelStep(t) \/ ProfileStep(t), UNCHANGED userVars PROVE IInv'
    <3>1. CASE task' = task
      BY <2>2, <3>1 DEF IInv, userVars, Good, Distinct
    <3>2. CASE \E w : Elsewhere(w) /\ task' = [task EXCEPT ![t] = w]
      <4>1. PICK w : Elsewhere(w) /\ task' = [task EXCEPT ![t] = w]
        BY <3>2
      <4>2. GoodWork(w)
        BY <4>1 DEF Elsewhere, GoodWork
      <4> QED BY <2>2, <4>1, <4>2, WorkKept DEF IInv, userVars
    <3> QED BY <2>2, <3>1, <3>2, ModelStepElsewhere, ProfileStepElsewhere
  <2>3. ASSUME NEW t \in Tasks, Fail(t) PROVE IInv'
    <3>1. GoodWork(Idle)
      BY DEF GoodWork, Idle, WithList, WithSet
    <3> QED BY <2>3, <3>1, WorkKept DEF Fail, IInv, userVars
  <2>4. CASE UNCHANGED vars
    BY <2>4 DEF vars, taskVars, userVars, IInv
  <2> QED BY <2>1, <2>2, <2>3, <2>4 DEF Next
<1> QED BY <1>1, <1>2, PTL DEF Spec

-----------------------------------------------------------------------------
(* What the documents say of each other, while requests do not overlap.     *)

\* Every binding of an instance leads to a connection.
Resolves(conns, inst) == \A m \in Models : inst[m] # NoModel => conns[inst[m]] > 0

\* The instances that an update is about to write.
NewInstances(w, conns) ==
  /\ w.bound \in Bindings /\ w.model \in Models /\ w.new \in Models
  /\ Resolves(conns, w.bound)

\* What a request knows of models, given what is in the documents: what it is
\* about to write resolves, and between two writes of an update its own next
\* write is all that is missing.
CreateWork(w, conns, inst) ==
  /\ w.step = "bind" => /\ w.model \in Models /\ w.to \in ConnIds \cup {Own}
                        /\ w.bound = inst /\ inst[w.model] = NoModel
  /\ w.step = "addConnection" => /\ w.model \in Models /\ w.bound = inst
                                 /\ w.copy \in Counts /\ w.copy[w.model] > 0
                                 /\ Resolves(w.copy, inst)
  /\ w.step = "addInstance" => /\ w.bound \in Bindings
                               /\ Resolves(conns, w.bound)

UpdateWork(w, conns, inst) ==
  /\ w.step = "rebind" => /\ w.model \in Models /\ w.new \in Models
                          /\ w.to \in ConnIds \cup {Own} /\ w.bound = inst
                          /\ inst[w.model] # NoModel
                          /\ w.new = w.model \/ inst[w.new] = NoModel
  /\ w.step = "changeConnections" => /\ w.copy \in Counts /\ NewInstances(w, w.copy)
                                     /\ w.changed \/ w.copy = conns
  /\ w.step = "changeInstance" => NewInstances(w, conns)

DeleteWork(w, inst) ==
  /\ w.step \in {"checkRouters", "removeInstance"} => w.model \in Models /\ w.bound = inst
  /\ w.step = "readOrphan" => w.model \in Models /\ \A m \in Models : inst[m] # w.model

ConnectionWork(w, conns, inst) ==
  /\ w.step = "checkInstances" => w.conn \in ConnIds /\ w.copy = [conns EXCEPT ![w.conn] = 0]
  /\ w.step = "writeConnections" => w.copy \in Counts /\ Resolves(w.copy, inst)

DocumentsFit(w, conns, inst) ==
  /\ conns \in Counts /\ inst \in Bindings
  /\ (w.step = "changeInstance" /\ w.changed) \/ Resolves(conns, inst)

ModelWork(w, conns, inst) ==
  /\ DocumentsFit(w, conns, inst)
  /\ CreateWork(w, conns, inst)
  /\ UpdateWork(w, conns, inst)
  /\ DeleteWork(w, inst)
  /\ ConnectionWork(w, conns, inst)

\* What it knows of profiles: a list it writes has every profile that is bound,
\* and of what it was asked to bind it has kept what it has found.
OfItsKind(b, ps) == b \in ProfileKinds \X Profiles /\ b[2] \in ps /\ KindOf[b[2]] = b[1]

ProfileWork(w, ps, bs) ==
  /\ ps \subseteq Profiles /\ \A b \in bs : OfItsKind(b, ps)
  /\ w.step = "writeProfiles" => w.set \subseteq Profiles /\ \A b \in bs : b[2] \in w.set
  /\ w.step = "checkBindings" => w.set = ps \ {w.profile}
  /\ w.step = "assign" => /\ w.asked \subseteq ProfileKinds \X Profiles
                          /\ \A b \in w.bindings : OfItsKind(b, ps)

Fits(w) ==
  /\ ModelWork(w, connections, instances)
  /\ ProfileWork(w, profiles, bindings)

\* One request at most is under way, and w is what it is about to do.
Only(w) == \/ \E t \in Tasks : task[t] = w /\ Alone(t)
           \/ Tasks = {} /\ w = Idle

OrderlyInv == orderly => \E w : Only(w) /\ Fits(w)

\* What holds of models when no update is under way.
LEMMA Quiet ==
  ASSUME NEW w, NEW conns, NEW inst, ModelWork(w, conns, inst),
         w.step # "changeInstance"
  PROVE  conns \in Counts /\ inst \in Bindings /\ Resolves(conns, inst)
BY DEF ModelWork, DocumentsFit

\* If requests do not overlap, a request that goes on or begins is the one.
LEMMA TheOne ==
  ASSUME orderly, OrderlyInv, NEW t \in Tasks, task[t] # Idle \/ Alone(t)
  PROVE  Alone(t) /\ Fits(task[t])
<1>1. PICK w : Only(w) /\ Fits(w)
  BY DEF OrderlyInv
<1>2. PICK u \in Tasks : task[u] = w /\ Alone(u)
  BY <1>1 DEF Only
<1>3. CASE t = u
  BY <1>1, <1>2, <1>3
<1>4. CASE t # u
  <2>1. task[t] = Idle
    BY <1>2, <1>4 DEF Alone
  <2>2. Alone(t)
    BY <2>1
  <2>3. task[u] = Idle
    BY <2>2, <1>4 DEF Alone
  <2> QED BY <1>1, <1>2, <2>1, <2>2, <2>3
<1> QED BY <1>3, <1>4

LEMMA Carried ==
  ASSUME IInv, NEW t \in Tasks, Alone(t), NEW w, task' = [task EXCEPT ![t] = w],
         ModelWork(w, connections', instances'),
         ProfileWork(w, profiles', bindings')
  PROVE  OrderlyInv'
<1>1. task' = [s \in Tasks |-> IF s = t THEN w ELSE task[s]]
  BY DEF IInv
<1>2. task'[t] = w /\ Alone(t)'
  BY <1>1 DEF Alone
<1>3. Only(w)'
  BY <1>2 DEF Only
<1>4. Fits(w)'
  BY DEF Fits
<1> QED BY <1>3, <1>4 DEF OrderlyInv

ModelSteps ==
  {"idle", "bind", "addConnection", "addInstance", "rebind", "changeConnections",
   "changeInstance", "cascade", "checkRouters", "removeInstance", "readOrphan",
   "checkInstances", "writeConnections"}

\* A request about models goes on to work that fits what it leaves.
GoesOn(t) ==
  \E w : /\ w.step \in ModelSteps /\ task' = [task EXCEPT ![t] = w]
         /\ ModelWork(w, connections', instances')

LEMMA IdleWork ==
  ASSUME NEW conns \in Counts, NEW inst \in Bindings, Resolves(conns, inst)
  PROVE  Idle.step \in ModelSteps /\ ModelWork(Idle, conns, inst)
BY DEF Idle, ModelSteps, ModelWork, DocumentsFit, CreateWork, UpdateWork, DeleteWork, ConnectionWork

LEMMA CreateGoesOn ==
  ASSUME NEW t \in Tasks, ModelWork(task[t], connections, instances),
         CreateModel(t) \/ Bind(t) \/ AddConnection(t) \/ AddInstance(t)
  PROVE  GoesOn(t)
<1> DEFINE w == task[t]
<1>1. w.step # "changeInstance"
  BY DEF CreateModel, Bind, AddConnection, AddInstance, Starts, Idle
<1>2. /\ connections \in Counts /\ instances \in Bindings
      /\ Resolves(connections, instances)
  BY <1>1, Quiet
<1>3. CASE CreateModel(t)
  <2>1. PICK m \in Models, to \in ConnIds \cup {Own} :
          /\ instances[m] = NoModel
          /\ task' = [task EXCEPT ![t] = [step |-> "bind", model |-> m, to |-> to,
                                          bound |-> instances]]
    BY <1>3 DEF CreateModel, Starts
  <2>2. ModelWork([step |-> "bind", model |-> m, to |-> to, bound |-> instances],
                  connections, instances)
    BY <1>2, <2>1
    DEF ModelWork, DocumentsFit, CreateWork, UpdateWork, DeleteWork, ConnectionWork
  <2> QED BY <1>3, <2>1, <2>2 DEF GoesOn, ModelSteps, CreateModel, modelVars
<1>4. CASE Bind(t)
  <2>1. /\ w.model \in Models /\ w.to \in ConnIds \cup {Own}
        /\ w.bound = instances /\ instances[w.model] = NoModel
    BY <1>4 DEF Bind, ModelWork, CreateWork
  <2>2. UNCHANGED modelVars
    BY <1>4 DEF Bind
  <2>3. CASE w.to = Own
    <3> DEFINE copy == [connections EXCEPT ![w.model] = 1]
               new == [step |-> "addConnection", model |-> w.model, bound |-> instances,
                       copy |-> copy]
    <3>1. task' = [task EXCEPT ![t] = new]
      BY <1>4, <2>1, <2>3 DEF Bind, Goes
    <3>2. copy \in Counts /\ copy[w.model] > 0 /\ Resolves(copy, instances)
      BY <1>2, <2>1 DEF Counts, ConnIds, Resolves, Bindings
    <3>3. ModelWork(new, connections, instances)
      <4> HIDE DEF copy
      <4> QED BY <1>2, <2>1, <3>2
              DEF ModelWork, DocumentsFit, CreateWork, UpdateWork, DeleteWork, ConnectionWork
    <3> QED BY <2>2, <3>1, <3>3 DEF GoesOn, ModelSteps, modelVars
  <2>4. CASE w.to # Own /\ connections[w.to] > 0
    <3> DEFINE bound == [instances EXCEPT ![w.model] = w.to]
               new == [step |-> "addInstance", model |-> w.model, bound |-> bound]
    <3>1. task' = [task EXCEPT ![t] = new] \/ (connections[w.to] = 0 /\ Ends(t))
      BY <1>4, <2>1, <2>4 DEF Bind, Goes
    <3>2. connections[w.to] # 0
      BY <1>2, <2>1, <2>4 DEF Counts
    <3>3. bound \in Bindings /\ Resolves(connections, bound)
      BY <1>2, <2>1, <2>4, ModelAssumption DEF Bindings, Resolves
    <3>4. ModelWork(new, connections, instances)
      <4> HIDE DEF bound
      <4> QED BY <1>2, <2>1, <3>3
              DEF ModelWork, DocumentsFit, CreateWork, UpdateWork, DeleteWork, ConnectionWork
    <3> QED BY <2>2, <3>1, <3>2, <3>4 DEF GoesOn, ModelSteps, modelVars
  <2>5. CASE Ends(t)
    BY <1>2, <2>2, <2>5, IdleWork DEF Ends, Goes, GoesOn, modelVars
  <2> QED BY <1>4, <2>3, <2>4, <2>5 DEF Bind
<1>5. CASE AddConnection(t)
  <2>1. /\ w.model \in Models /\ w.bound = instances
        /\ w.copy \in Counts /\ w.copy[w.model] > 0 /\ Resolves(w.copy, instances)
    BY <1>5 DEF AddConnection, ModelWork, CreateWork
  <2> DEFINE bound == [instances EXCEPT ![w.model] = w.model]
             new == [step |-> "addInstance", model |-> w.model, bound |-> bound]
  <2>2. task' = [task EXCEPT ![t] = new] /\ connections' = w.copy
        /\ instances' = instances
    BY <1>5, <2>1 DEF AddConnection, Goes
  <2>3. bound \in Bindings /\ Resolves(w.copy, bound)
    BY <1>2, <2>1, ModelAssumption DEF Bindings, Resolves, ConnIds
  <2>4. ModelWork(new, w.copy, instances)
    <3> HIDE DEF bound
    <3> QED BY <1>2, <2>1, <2>3
            DEF ModelWork, DocumentsFit, CreateWork, UpdateWork, DeleteWork, ConnectionWork
  <2> QED BY <2>2, <2>4 DEF GoesOn, ModelSteps
<1>6. CASE AddInstance(t)
  <2>1. w.bound \in Bindings /\ Resolves(connections, w.bound)
    BY <1>6 DEF AddInstance, ModelWork, CreateWork
  <2>2. ModelWork(Idle, connections, w.bound) /\ Idle.step \in ModelSteps
    BY <1>2, <2>1, IdleWork
  <2> QED BY <1>6, <2>2 DEF AddInstance, Ends, Goes, GoesOn
<1> QED BY <1>3, <1>4, <1>5, <1>6

\* The connections that remain when a model leaves its own ...
LEMMA OrphanDropped ==
  ASSUME NEW conns \in Counts, NEW bound \in Bindings, NEW m \in Models,
         NEW to \in ConnIds \cup {Own}, Resolves(conns, bound)
  PROVE  LET left == WithoutOrphan(conns, bound, m, to) IN
         /\ left \in Counts
         /\ \A c \in ConnIds : c = to => left[c] = conns[c]
         /\ \A x \in Models \ {m} : bound[x] # NoModel => left[bound[x]] = conns[bound[x]]
<1> DEFINE left == WithoutOrphan(conns, bound, m, to)
<1>1. CASE bound[m] = m /\ to # m /\ Users(bound, m) = {m} /\ conns[m] > 0
  <2>1. left = [conns EXCEPT ![m] = conns[m] - 1]
    BY <1>1 DEF WithoutOrphan
  <2>2. m \in ConnIds /\ conns[m] \in Nat /\ conns[m] - 1 \in Nat
    BY <1>1 DEF Counts, ConnIds
  <2>3. left \in Counts /\ \A c \in ConnIds \ {m} : left[c] = conns[c]
    <3> HIDE DEF left
    <3> QED BY <2>1, <2>2 DEF Counts
  <2>4. \A x \in Models \ {m} : bound[x] # m
    BY <1>1 DEF Users
  <2>5. \A x \in Models : bound[x] # NoModel => bound[x] \in ConnIds
    BY DEF Bindings
  <2> HIDE DEF left
  <2> QED BY <1>1, <2>3, <2>4, <2>5 DEF left
<1>2. CASE ~(bound[m] = m /\ to # m /\ Users(bound, m) = {m} /\ conns[m] > 0)
  BY <1>2 DEF WithoutOrphan
<1> QED BY <1>1, <1>2

\* ... and when it keeps it under its new name.
LEMMA DedicatedKept ==
  ASSUME NEW conns \in Counts, NEW bound \in Bindings, NEW m \in Models, NEW n \in Models
  PROVE  LET left == WithDedicated(conns, bound, m, n) IN
         /\ left \in Counts /\ left[n] > 0
         /\ \A x \in Models \ {m} :
              (bound[x] # NoModel /\ conns[bound[x]] > 0) => left[bound[x]] > 0
<1> DEFINE moves == n # m /\ bound[m] = m /\ conns[m] > 0 /\ Users(bound, m) = {m}
           renamed == IF moves THEN [conns EXCEPT ![m] = @ - 1, ![n] = @ + 1] ELSE conns
           left == WithDedicated(conns, bound, m, n)
<1>1. m \in ConnIds /\ n \in ConnIds
  BY DEF ConnIds
<1>2. \A c \in ConnIds : conns[c] \in Nat
  BY DEF Counts
<1>3. /\ renamed \in Counts /\ \A c \in ConnIds : c # m => renamed[c] >= conns[c]
      /\ ~moves => renamed = conns
  <2>1. CASE moves
    <3>1. renamed = [[conns EXCEPT ![m] = conns[m] - 1] EXCEPT ![n] = conns[n] + 1]
      BY <1>1, <2>1 DEF Counts
    <3>2. \A c \in ConnIds : renamed[c] = IF c = n THEN conns[n] + 1
                                          ELSE IF c = m THEN conns[m] - 1 ELSE conns[c]
      BY <1>1, <3>1 DEF Counts
    <3>3. conns[m] - 1 \in Nat /\ conns[n] + 1 \in Nat
      BY <1>1, <1>2, <2>1
    <3>4. renamed = [c \in ConnIds |-> renamed[c]]
      BY <3>1 DEF Counts
    <3> HIDE DEF renamed
    <3>5. \A c \in ConnIds : renamed[c] \in Nat /\ (c # m => renamed[c] >= conns[c])
      BY <1>2, <3>2, <3>3
    <3> QED BY <2>1, <3>4, <3>5 DEF Counts
  <2>2. CASE ~moves
    BY <1>2, <2>2
  <2> QED BY <2>1, <2>2
<1>4. left = IF renamed[n] = 0 THEN [renamed EXCEPT ![n] = 1] ELSE renamed
  BY DEF WithDedicated
<1> HIDE DEF left, renamed
<1>5. /\ left \in Counts /\ left[n] > 0
      /\ \A c \in ConnIds : left[c] >= renamed[c]
  <2>1. \A c \in ConnIds : renamed[c] \in Nat
    BY <1>3 DEF Counts
  <2>2. \A c \in ConnIds : left[c] = IF c = n /\ renamed[n] = 0 THEN 1 ELSE renamed[c]
    BY <1>3, <1>4 DEF Counts
  <2>3. left = [c \in ConnIds |-> left[c]]
    BY <1>3, <1>4 DEF Counts
  <2>4. \A c \in ConnIds : left[c] \in Nat /\ left[c] >= renamed[c]
    BY <2>1, <2>2
  <2> QED BY <1>1, <2>1, <2>2, <2>3, <2>4 DEF Counts
<1>6. ASSUME NEW x \in Models \ {m}, bound[x] # NoModel, conns[bound[x]] > 0
      PROVE  left[bound[x]] > 0
  <2>1. bound[x] \in ConnIds
    BY <1>6 DEF Bindings
  <2>2. moves => bound[x] # m
    BY <1>6 DEF Users
  <2>3. renamed[bound[x]] >= conns[bound[x]]
    BY <1>2, <1>3, <2>1, <2>2
  <2>4. renamed[bound[x]] \in Nat /\ left[bound[x]] \in Nat
    BY <1>3, <1>5, <2>1 DEF Counts
  <2> QED BY <1>2, <1>5, <1>6, <2>1, <2>3, <2>4
<1> QED BY <1>5, <1>6 DEF left

\* What an update makes of the instances: those that are left resolve.
LEMMA NewBinding ==
  ASSUME NEW w, NEW conns \in Counts, NEW inst \in Bindings,
         w.model \in Models, w.new \in Models, NEW c \in ConnIds, conns[c] > 0,
         \A x \in Models \ {w.model} : inst[x] # NoModel => conns[inst[x]] > 0,
         w.bound = [inst EXCEPT ![w.model] = NoModel, ![w.new] = c]
  PROVE  NewInstances(w, conns)
<1>1. \A x \in Models : w.bound[x] = IF x = w.new THEN c
                                     ELSE IF x = w.model THEN NoModel ELSE inst[x]
  BY DEF Bindings
<1>2. w.bound = [x \in Models |-> w.bound[x]]
  BY DEF Bindings
<1>3. \A x \in Models : w.bound[x] \in ConnIds \cup {NoModel}
  BY <1>1 DEF Bindings
<1>4. w.bound \in Bindings
  BY <1>2, <1>3 DEF Bindings
<1>5. c # NoModel
  BY ModelAssumption
<1>6. Resolves(conns, w.bound)
  BY <1>1 DEF Resolves
<1> QED BY <1>4, <1>6 DEF NewInstances

LEMMA UpdateGoesOn ==
  ASSUME NEW t \in Tasks, ModelWork(task[t], connections, instances),
         UpdateModel(t) \/ Rebind(t) \/ ChangeConnections(t)
  PROVE  GoesOn(t)
<1> DEFINE w == task[t]
<1>1. w.step # "changeInstance"
  BY DEF UpdateModel, Rebind, ChangeConnections, Starts, Idle
<1>2. /\ connections \in Counts /\ instances \in Bindings
      /\ Resolves(connections, instances)
  BY <1>1, Quiet
<1>3. CASE UpdateModel(t)
  <2>1. PICK m \in Models, n \in Models, to \in ConnIds \cup {Own}, keyed \in BOOLEAN :
          /\ instances[m] # NoModel /\ (n = m \/ instances[n] = NoModel)
          /\ task' = [task EXCEPT ![t] = [step |-> "rebind", model |-> m, new |-> n, to |-> to,
                                          keyed |-> keyed, bound |-> instances]]
    BY <1>3 DEF UpdateModel, Starts
  <2>2. ModelWork([step |-> "rebind", model |-> m, new |-> n, to |-> to, keyed |-> keyed,
                   bound |-> instances], connections, instances)
    BY <1>2, <2>1
    DEF ModelWork, DocumentsFit, CreateWork, UpdateWork, DeleteWork, ConnectionWork
  <2> QED BY <1>3, <2>1, <2>2 DEF GoesOn, ModelSteps, UpdateModel, modelVars
<1>4. CASE Rebind(t)
  <2>1. /\ w.model \in Models /\ w.new \in Models /\ w.to \in ConnIds \cup {Own}
        /\ w.bound = instances /\ instances[w.model] # NoModel
    BY <1>4 DEF Rebind, ModelWork, UpdateWork
  <2>2. UNCHANGED modelVars
    BY <1>4 DEF Rebind
  <2> DEFINE bound(c) == [instances EXCEPT ![w.model] = NoModel, ![w.new] = c]
             now == instances[w.model]
             left == WithoutOrphan(connections, instances, w.model, w.to)
             kept(c) == [step |-> "changeInstance", model |-> w.model, new |-> w.new,
                         changed |-> FALSE, bound |-> bound(c)]
             moved(conns, c) ==
               [step |-> "changeConnections", model |-> w.model, new |-> w.new,
                changed |-> conns # connections, copy |-> conns, bound |-> bound(c)]
  <2>3. ASSUME NEW c \in ConnIds, connections[c] > 0, Kept(t, c)
        PROVE  GoesOn(t)
    <3>1. task' = [task EXCEPT ![t] = kept(c)]
      BY <2>1, <2>3 DEF Kept, Goes
    <3>2. NewInstances(kept(c), connections)
      <4>1. \A x \in Models : instances[x] # NoModel => connections[instances[x]] > 0
        BY <1>2 DEF Resolves
      <4> QED BY <1>2, <2>1, <2>3, <4>1, NewBinding
    <3>3. ModelWork(kept(c), connections, instances)
      BY <1>2, <3>2
      DEF ModelWork, DocumentsFit, CreateWork, UpdateWork, DeleteWork, ConnectionWork
    <3> QED BY <2>2, <3>1, <3>3 DEF GoesOn, ModelSteps, modelVars
  <2>4. ASSUME NEW conns \in Counts, NEW c \in ConnIds, conns[c] > 0, Rebound(t, conns, c),
               \A x \in Models \ {w.model} :
                 instances[x] # NoModel => conns[instances[x]] > 0
        PROVE  GoesOn(t)
    <3>1. task' = [task EXCEPT ![t] = moved(conns, c)]
      BY <2>1, <2>4 DEF Rebound, Goes
    <3>2. NewInstances(moved(conns, c), conns)
      BY <1>2, <2>1, <2>4, NewBinding
    <3>3. ModelWork(moved(conns, c), connections, instances)
      BY <1>2, <2>4, <3>2
      DEF ModelWork, DocumentsFit, CreateWork, UpdateWork, DeleteWork, ConnectionWork
    <3> QED BY <2>2, <3>1, <3>3 DEF GoesOn, ModelSteps, modelVars
  <2>5. CASE Ends(t)
    BY <1>2, <2>2, <2>5, IdleWork DEF Ends, Goes, GoesOn, modelVars
  <2>6. CASE w.to # Own /\ connections[w.to] > 0
             /\ IF left = connections THEN Kept(t, w.to) ELSE Rebound(t, left, w.to)
    <3>1. /\ left \in Counts /\ left[w.to] = connections[w.to]
          /\ \A x \in Models \ {w.model} :
               instances[x] # NoModel => left[instances[x]] = connections[instances[x]]
      BY <1>2, <2>1, <2>6, OrphanDropped
    <3>2. \A x \in Models \ {w.model} : instances[x] # NoModel => left[instances[x]] > 0
      BY <1>2, <3>1 DEF Resolves
    <3> HIDE DEF left
    <3> QED BY <2>1, <2>3, <2>4, <2>6, <3>1, <3>2
  <2>7. CASE Rebound(t, WithDedicated(connections, instances, w.model, w.new), w.new)
    <3> DEFINE conns == WithDedicated(connections, instances, w.model, w.new)
    <3>1. /\ conns \in Counts /\ conns[w.new] > 0
          /\ \A x \in Models \ {w.model} :
               (instances[x] # NoModel /\ connections[instances[x]] > 0)
                 => conns[instances[x]] > 0
      BY <1>2, <2>1, DedicatedKept
    <3>2. \A x \in Models \ {w.model} : instances[x] # NoModel => conns[instances[x]] > 0
      BY <1>2, <3>1 DEF Resolves
    <3>3. w.new \in ConnIds
      BY <2>1 DEF ConnIds
    <3> HIDE DEF conns
    <3> QED BY <2>4, <2>7, <3>1, <3>2, <3>3 DEF conns
  <2>8. CASE Kept(t, now)
    <3>1. now \in ConnIds /\ connections[now] > 0
      BY <1>2, <2>1 DEF Bindings, Resolves
    <3> QED BY <2>3, <2>8, <3>1
  <2> HIDE DEF left, now, w
  <2> QED BY <1>4, <2>1, <2>5, <2>6, <2>7, <2>8 DEF Rebind, left, now, w
<1>5. CASE ChangeConnections(t)
  <2>1. w.copy \in Counts /\ NewInstances(w, w.copy) /\ (w.changed \/ w.copy = connections)
    BY <1>5 DEF ChangeConnections, ModelWork, UpdateWork
  <2> DEFINE new == [step |-> "changeInstance", model |-> w.model, new |-> w.new,
                     changed |-> w.changed, bound |-> w.bound]
  <2>2. task' = [task EXCEPT ![t] = new] /\ connections' = w.copy
        /\ instances' = instances
    BY <1>5 DEF ChangeConnections, Goes
  <2>3. NewInstances(new, w.copy)
    BY <2>1 DEF NewInstances
  <2>4. w.changed \/ Resolves(w.copy, instances)
    BY <1>2, <2>1
  <2>5. ModelWork(new, w.copy, instances)
    BY <1>2, <2>1, <2>3, <2>4
    DEF ModelWork, DocumentsFit, CreateWork, UpdateWork, DeleteWork, ConnectionWork
  <2> QED BY <2>2, <2>5 DEF GoesOn, ModelSteps
<1> QED BY <1>3, <1>4, <1>5

LEMMA UpdateEnds ==
  ASSUME NEW t \in Tasks, ModelWork(task[t], connections, instances),
         ChangeInstance(t) \/ Cascade(t)
  PROVE  GoesOn(t)
<1> DEFINE w == task[t]
<1>1. connections \in Counts /\ instances \in Bindings
  BY DEF ModelWork, DocumentsFit
<1>2. CASE ChangeInstance(t)
  <2>1. /\ w.bound \in Bindings /\ w.model \in Models /\ w.new \in Models
        /\ Resolves(connections, w.bound)
    BY <1>2 DEF ChangeInstance, ModelWork, UpdateWork, NewInstances
  <2>2. connections' = connections /\ instances' = w.bound
    BY <1>2 DEF ChangeInstance
  <2>3. CASE w.new = w.model
    <3>1. ModelWork(Idle, connections, w.bound) /\ Idle.step \in ModelSteps
      BY <1>1, <2>1, IdleWork
    <3> QED BY <1>2, <2>2, <2>3, <3>1 DEF ChangeInstance, Ends, Goes, GoesOn
  <2>4. CASE w.new # w.model
    <3> DEFINE new == [step |-> "cascade", model |-> w.model, new |-> w.new]
    <3>1. task' = [task EXCEPT ![t] = new]
      BY <1>2, <2>4 DEF ChangeInstance, Goes
    <3>2. ModelWork(new, connections, w.bound)
      BY <1>1, <2>1
      DEF ModelWork, DocumentsFit, CreateWork, UpdateWork, DeleteWork, ConnectionWork
    <3> QED BY <2>2, <3>1, <3>2 DEF GoesOn, ModelSteps
  <2> QED BY <2>3, <2>4
<1>3. CASE Cascade(t)
  <2>1. Resolves(connections, instances)
    BY <1>3 DEF Cascade, ModelWork, DocumentsFit
  <2>2. ModelWork(Idle, connections, instances) /\ Idle.step \in ModelSteps
    BY <1>1, <2>1, IdleWork
  <2> QED BY <1>3, <2>2 DEF Cascade, Ends, Goes, GoesOn
<1> QED BY <1>2, <1>3

LEMMA DeleteGoesOn ==
  ASSUME NEW t \in Tasks, ModelWork(task[t], connections, instances),
         DeleteModel(t) \/ CheckRouters(t) \/ RemoveInstance(t) \/ ReadOrphan(t)
  PROVE  GoesOn(t)
<1> DEFINE w == task[t]
<1>1. w.step # "changeInstance"
  BY DEF DeleteModel, CheckRouters, RemoveInstance, ReadOrphan, Starts, Idle
<1>2. /\ connections \in Counts /\ instances \in Bindings
      /\ Resolves(connections, instances)
  BY <1>1, Quiet
<1>3. Idle.step \in ModelSteps /\ ModelWork(Idle, connections, instances)
  BY <1>2, IdleWork
<1>4. CASE DeleteModel(t)
  <2>1. PICK m \in Models : task' = [task EXCEPT ![t] =
               [step |-> "checkRouters", model |-> m, bound |-> instances]]
    BY <1>4 DEF DeleteModel, Starts
  <2>2. ModelWork([step |-> "checkRouters", model |-> m, bound |-> instances],
                  connections, instances)
    BY <1>2 DEF ModelWork, DocumentsFit, CreateWork, UpdateWork, DeleteWork, ConnectionWork
  <2> QED BY <1>4, <2>1, <2>2 DEF GoesOn, ModelSteps, DeleteModel, modelVars
<1>5. CASE CheckRouters(t)
  <2>1. w.model \in Models /\ w.bound = instances
    BY <1>5 DEF CheckRouters, ModelWork, DeleteWork
  <2>2. UNCHANGED modelVars
    BY <1>5 DEF CheckRouters
  <2>3. CASE \E p \in Places : <<p, w.model>> \in refs
    BY <1>3, <1>5, <2>2, <2>3 DEF CheckRouters, Ends, Goes, GoesOn, modelVars
  <2>4. CASE ~\E p \in Places : <<p, w.model>> \in refs
    <3> DEFINE new == [step |-> "removeInstance", model |-> w.model, bound |-> instances]
    <3>1. task' = [task EXCEPT ![t] = new]
      BY <1>5, <2>1, <2>4 DEF CheckRouters, Goes
    <3>2. ModelWork(new, connections, instances)
      BY <1>2, <2>1
      DEF ModelWork, DocumentsFit, CreateWork, UpdateWork, DeleteWork, ConnectionWork
    <3> QED BY <2>2, <3>1, <3>2 DEF GoesOn, ModelSteps, modelVars
  <2> QED BY <2>3, <2>4
<1>6. CASE RemoveInstance(t)
  <2>1. w.model \in Models /\ w.bound = instances
    BY <1>6 DEF RemoveInstance, ModelWork, DeleteWork
  <2> DEFINE inst == [instances EXCEPT ![w.model] = NoModel]
  <2>2. connections' = connections /\ instances' = inst
    BY <1>6, <2>1 DEF RemoveInstance
  <2>3. inst \in Bindings /\ Resolves(connections, inst)
    BY <1>2, <2>1 DEF Bindings, Resolves
  <2>4. CASE Users(instances, w.model) = {w.model}
    <3> DEFINE new == [step |-> "readOrphan", model |-> w.model]
    <3>1. task' = [task EXCEPT ![t] = new]
      BY <1>6, <2>1, <2>4 DEF RemoveInstance, Goes
    <3>2. w.model # NoModel
      BY <2>1, ModelAssumption DEF ConnIds
    <3>3. \A m \in Models : inst[m] # w.model
      BY <1>2, <2>4, <3>2 DEF Users, Bindings
    <3>4. ModelWork(new, connections, inst)
      <4> HIDE DEF inst
      <4> QED BY <1>2, <2>1, <2>3, <3>3
              DEF ModelWork, DocumentsFit, CreateWork, UpdateWork, DeleteWork, ConnectionWork
    <3> QED BY <2>2, <3>1, <3>4 DEF GoesOn, ModelSteps
  <2>5. CASE Users(instances, w.model) # {w.model}
    <3>1. ModelWork(Idle, connections, inst)
      BY <1>2, <2>3, IdleWork
    <3> QED BY <1>3, <1>6, <2>1, <2>2, <2>5, <3>1 DEF RemoveInstance, Ends, Goes, GoesOn
  <2> QED BY <2>4, <2>5
<1>7. CASE ReadOrphan(t)
  <2>1. w.model \in Models /\ \A m \in Models : instances[m] # w.model
    BY <1>7 DEF ReadOrphan, ModelWork, DeleteWork
  <2>2. UNCHANGED modelVars
    BY <1>7 DEF ReadOrphan
  <2>3. CASE connections[w.model] = 0
    BY <1>3, <1>7, <2>2, <2>3 DEF ReadOrphan, Ends, Goes, GoesOn, modelVars
  <2>4. CASE connections[w.model] # 0
    <3> DEFINE copy == [connections EXCEPT ![w.model] = 0]
               new == [step |-> "writeConnections", copy |-> copy]
    <3>1. task' = [task EXCEPT ![t] = new]
      BY <1>7, <2>4 DEF ReadOrphan, Goes
    <3>2. copy \in Counts /\ Resolves(copy, instances)
      BY <1>2, <2>1 DEF Counts, Resolves, Bindings
    <3>3. ModelWork(new, connections, instances)
      <4> HIDE DEF copy
      <4> QED BY <1>2, <3>2
              DEF ModelWork, DocumentsFit, CreateWork, UpdateWork, DeleteWork, ConnectionWork
    <3> QED BY <2>2, <3>1, <3>3 DEF GoesOn, ModelSteps, modelVars
  <2> QED BY <2>3, <2>4
<1> QED BY <1>4, <1>5, <1>6, <1>7

LEMMA ConnectionGoesOn ==
  ASSUME NEW t \in Tasks, ModelWork(task[t], connections, instances),
         \/ CreateConnection(t) \/ PatchConnection(t) \/ DeleteConnection(t)
         \/ CheckInstances(t) \/ WriteConnections(t)
  PROVE  GoesOn(t)
<1> DEFINE w == task[t]
<1>1. w.step # "changeInstance"
  BY DEF CreateConnection, PatchConnection, DeleteConnection, CheckInstances, WriteConnections,
         Starts, Idle
<1>2. /\ connections \in Counts /\ instances \in Bindings
      /\ Resolves(connections, instances)
  BY <1>1, Quiet
<1>3. Idle.step \in ModelSteps /\ ModelWork(Idle, connections, instances)
  BY <1>2, IdleWork
<1> DEFINE write(copy) == [step |-> "writeConnections", copy |-> copy]
<1>4. ASSUME NEW copy \in Counts, Resolves(copy, instances), UNCHANGED modelVars,
             task' = [task EXCEPT ![t] = write(copy)]
      PROVE  GoesOn(t)
  <2>1. ModelWork(write(copy), connections, instances)
    BY <1>2, <1>4 DEF ModelWork, DocumentsFit, CreateWork, UpdateWork, DeleteWork, ConnectionWork
  <2> QED BY <1>4, <2>1 DEF GoesOn, ModelSteps, modelVars
<1>5. CASE CreateConnection(t)
  <2>1. PICK c \in Shared : task' = [task EXCEPT ![t] = write([connections EXCEPT ![c] = 1])]
    BY <1>5 DEF CreateConnection, Starts
  <2>2. [connections EXCEPT ![c] = 1] \in Counts
        /\ Resolves([connections EXCEPT ![c] = 1], instances)
    BY <1>2 DEF Counts, Resolves, Bindings, ConnIds
  <2> QED BY <1>4, <1>5, <2>1, <2>2 DEF CreateConnection
<1>6. CASE PatchConnection(t)
  BY <1>2, <1>4, <1>6 DEF PatchConnection, Starts
<1>7. CASE DeleteConnection(t)
  <2>1. PICK c \in ConnIds : task' = [task EXCEPT ![t] =
               [step |-> "checkInstances", conn |-> c, copy |-> [connections EXCEPT ![c] = 0]]]
    BY <1>7 DEF DeleteConnection, Starts
  <2> DEFINE new == [step |-> "checkInstances", conn |-> c,
                     copy |-> [connections EXCEPT ![c] = 0]]
  <2>2. ModelWork(new, connections, instances)
    BY <1>2 DEF ModelWork, DocumentsFit, CreateWork, UpdateWork, DeleteWork, ConnectionWork
  <2> QED BY <1>7, <2>1, <2>2 DEF GoesOn, ModelSteps, DeleteConnection, modelVars
<1>8. CASE CheckInstances(t)
  <2>1. w.conn \in ConnIds /\ w.copy = [connections EXCEPT ![w.conn] = 0]
    BY <1>8 DEF CheckInstances, ModelWork, ConnectionWork
  <2>2. UNCHANGED modelVars
    BY <1>8 DEF CheckInstances
  <2>3. CASE Users(instances, w.conn) # {}
    BY <1>3, <1>8, <2>2, <2>3 DEF CheckInstances, Ends, Goes, GoesOn, modelVars
  <2>4. CASE Users(instances, w.conn) = {}
    <3>1. \A m \in Models : instances[m] # w.conn
      BY <2>4 DEF Users
    <3>2. w.copy \in Counts /\ Resolves(w.copy, instances)
      BY <1>2, <2>1, <3>1 DEF Counts, Resolves, Bindings
    <3> QED BY <1>4, <1>8, <2>2, <2>4, <3>2 DEF CheckInstances, Goes
  <2> QED BY <2>3, <2>4
<1>9. CASE WriteConnections(t)
  <2>1. w.copy \in Counts /\ Resolves(w.copy, instances)
    BY <1>9 DEF WriteConnections, ModelWork, ConnectionWork
  <2>2. ModelWork(Idle, w.copy, instances)
    BY <1>2, <2>1, IdleWork
  <2> QED BY <1>3, <1>9, <2>2 DEF WriteConnections, Ends, Goes, GoesOn
<1> QED BY <1>5, <1>6, <1>7, <1>8, <1>9

-----------------------------------------------------------------------------
(* The steps about profiles and about users.                                *)

ProfileSteps == {"idle", "writeProfiles", "checkBindings", "assign"}

ProfileGoesOn(t) ==
  \E w : /\ w.step \in ProfileSteps /\ task' = [task EXCEPT ![t] = w]
         /\ ProfileWork(w, profiles', bindings')

\* A request about profiles leaves the models as they are.
LEMMA ProfilesGoOn ==
  ASSUME NEW t \in Tasks, ModelWork(task[t], connections, instances),
         ProfileWork(task[t], profiles, bindings), ProfileStep(t), ~DeleteRouter(t)
  PROVE  /\ task[t].step # "changeInstance"
         /\ UNCHANGED <<connections, instances>>
         /\ ProfileGoesOn(t)
<1> DEFINE w == task[t]
<1>1. profiles \subseteq Profiles /\ \A b \in bindings : OfItsKind(b, profiles)
  BY DEF ProfileWork
<1>2. task[t].step # "changeInstance"
  BY DEF ProfileStep, CreateProfile, EditProfile, DeleteProfile, CheckBindings, WriteProfiles,
         AssignProfiles, CheckProfile, WriteRouters, Starts, Idle
<1>3. CASE CreateProfile(t) \/ EditProfile(t)
  <2>1. PICK set \in SUBSET Profiles :
          /\ profiles \subseteq set
          /\ task' = [task EXCEPT ![t] = [step |-> "writeProfiles", set |-> set]]
    <3>1. CASE CreateProfile(t)
      BY <1>1, <3>1 DEF CreateProfile, Starts
    <3>2. CASE EditProfile(t)
      BY <1>1, <3>2 DEF EditProfile, Starts
    <3> QED BY <1>3, <3>1, <3>2
  <2>2. UNCHANGED <<modelVars, profileVars>>
    BY <1>3 DEF CreateProfile, EditProfile
  <2>3. ProfileWork([step |-> "writeProfiles", set |-> set], profiles, bindings)
    BY <1>1, <2>1 DEF ProfileWork, OfItsKind
  <2>4. ProfileGoesOn(t)
    BY <2>1, <2>2, <2>3 DEF ProfileGoesOn, ProfileSteps, modelVars, profileVars
  <2> QED BY <1>2, <2>2, <2>4 DEF modelVars
<1>4. CASE DeleteProfile(t)
  <2>1. PICK p \in profiles : task' = [task EXCEPT ![t] =
               [step |-> "checkBindings", profile |-> p, set |-> profiles \ {p}]]
    BY <1>4 DEF DeleteProfile, Starts
  <2> DEFINE new == [step |-> "checkBindings", profile |-> p, set |-> profiles \ {p}]
  <2>2. ProfileWork(new, profiles, bindings)
    BY <1>1 DEF ProfileWork
  <2>3. ProfileGoesOn(t)
    BY <1>4, <2>1, <2>2 DEF ProfileGoesOn, ProfileSteps, DeleteProfile, modelVars, profileVars
  <2> QED BY <1>2, <1>4, <2>3 DEF DeleteProfile, modelVars
<1>5. CASE CheckBindings(t)
  <2>1. w.set = profiles \ {w.profile}
    BY <1>5 DEF CheckBindings, ProfileWork
  <2>2. UNCHANGED <<modelVars, profileVars>>
    BY <1>5 DEF CheckBindings
  <2>3. CASE \E k \in ProfileKinds : <<k, w.profile>> \in bindings
    <3>1. ProfileWork(Idle, profiles, bindings)
      BY <1>1 DEF ProfileWork, Idle
    <3>2. ProfileGoesOn(t)
      BY <1>5, <2>2, <2>3, <3>1 DEF ProfileGoesOn, ProfileSteps, CheckBindings, Ends, Goes, Idle,
                                        modelVars, profileVars
    <3> QED BY <1>2, <2>2, <3>2 DEF modelVars
  <2>4. CASE ~\E k \in ProfileKinds : <<k, w.profile>> \in bindings
    <3>1. \A b \in bindings : b[2] \in w.set
      <4>1. SUFFICES ASSUME NEW b \in bindings, b[2] \notin w.set PROVE FALSE
        OBVIOUS
      <4>2. b \in ProfileKinds \X Profiles /\ b[2] = w.profile
        BY <1>1, <2>1, <4>1 DEF OfItsKind
      <4>3. b = <<b[1], w.profile>> /\ b[1] \in ProfileKinds
        BY <4>2
      <4> QED BY <2>4, <4>3
    <3> DEFINE new == [step |-> "writeProfiles", set |-> w.set]
    <3>2. ProfileWork(new, profiles, bindings)
      BY <1>1, <2>1, <3>1 DEF ProfileWork
    <3>3. ProfileGoesOn(t)
      BY <1>5, <2>2, <2>4, <3>2 DEF ProfileGoesOn, ProfileSteps, CheckBindings, Goes,
                                        modelVars, profileVars
    <3> QED BY <1>2, <2>2, <3>3 DEF modelVars
  <2> QED BY <2>3, <2>4
<1>6. CASE WriteProfiles(t)
  <2>1. w.set \subseteq Profiles /\ \A b \in bindings : b[2] \in w.set
    BY <1>6 DEF WriteProfiles, ProfileWork
  <2>2. ProfileWork(Idle, w.set, bindings)
    BY <1>1, <2>1 DEF ProfileWork, OfItsKind, Idle
  <2>3. ProfileGoesOn(t)
    BY <1>6, <2>2 DEF ProfileGoesOn, ProfileSteps, WriteProfiles, Ends, Goes, Idle, modelVars
  <2> QED BY <1>2, <1>6, <2>3 DEF WriteProfiles, modelVars
<1>7. CASE AssignProfiles(t)
  <2>1. PICK asked \in SUBSET (ProfileKinds \X Profiles), kept \in SUBSET bindings :
          task' = [task EXCEPT ![t] = [step |-> "assign", asked |-> asked, refs |-> refs,
                                       bindings |-> kept]]
    BY <1>7 DEF AssignProfiles, Starts
  <2> DEFINE new == [step |-> "assign", asked |-> asked, refs |-> refs, bindings |-> kept]
  <2>2. ProfileWork(new, profiles, bindings)
    BY <1>1 DEF ProfileWork
  <2>3. ProfileGoesOn(t)
    BY <1>7, <2>1, <2>2 DEF ProfileGoesOn, ProfileSteps, AssignProfiles, modelVars, profileVars
  <2> QED BY <1>2, <1>7, <2>3 DEF AssignProfiles, modelVars
<1>8. CASE CheckProfile(t)
  <2>1. /\ w.asked \subseteq ProfileKinds \X Profiles
        /\ \A b \in w.bindings : OfItsKind(b, profiles)
    BY <1>8 DEF CheckProfile, ProfileWork
  <2>2. UNCHANGED <<modelVars, profileVars>>
    BY <1>8 DEF CheckProfile
  <2>3. PICK a \in w.asked :
          IF a[2] \in profiles /\ KindOf[a[2]] = a[1]
          THEN Goes(t, [step |-> "assign", asked |-> w.asked \ {a}, refs |-> w.refs,
                        bindings |-> w.bindings \cup {a}])
          ELSE Ends(t)
    BY <1>8 DEF CheckProfile
  <2>4. CASE a[2] \in profiles /\ KindOf[a[2]] = a[1]
    <3> DEFINE new == [step |-> "assign", asked |-> w.asked \ {a}, refs |-> w.refs,
                       bindings |-> w.bindings \cup {a}]
    <3>1. ProfileWork(new, profiles, bindings)
      BY <1>1, <2>1, <2>4 DEF ProfileWork, OfItsKind
    <3>2. ProfileGoesOn(t)
      BY <2>2, <2>3, <2>4, <3>1 DEF ProfileGoesOn, ProfileSteps, Goes, modelVars, profileVars
    <3> QED BY <1>2, <2>2, <3>2 DEF modelVars
  <2>5. CASE ~(a[2] \in profiles /\ KindOf[a[2]] = a[1])
    <3>1. ProfileWork(Idle, profiles, bindings)
      BY <1>1 DEF ProfileWork, Idle
    <3>2. ProfileGoesOn(t)
      BY <2>2, <2>3, <2>5, <3>1 DEF ProfileGoesOn, ProfileSteps, Ends, Goes, Idle,
                                        modelVars, profileVars
    <3> QED BY <1>2, <2>2, <3>2 DEF modelVars
  <2> QED BY <2>4, <2>5
<1>9. CASE WriteRouters(t)
  <2>1. \A b \in w.bindings : OfItsKind(b, profiles)
    BY <1>9 DEF WriteRouters, ProfileWork
  <2>2. ProfileWork(Idle, profiles, w.bindings)
    BY <1>1, <2>1 DEF ProfileWork, Idle
  <2>3. ProfileGoesOn(t)
    BY <1>9, <2>1, <2>2 DEF ProfileGoesOn, ProfileSteps, WriteRouters, Ends, Goes, Idle
  <2> QED BY <1>2, <1>9, <2>1, <2>3 DEF WriteRouters, modelVars
<1> QED BY <1>3, <1>4, <1>5, <1>6, <1>7, <1>8, <1>9 DEF ProfileStep

UserSteps == {"idle", "touchUsers", "writeUsers", "writeRoles", "checkUsers"}

\* A request about users leaves the rest as it is.
LEMMA UsersGoOn ==
  ASSUME IInv, NEW t \in Tasks, UserStep(t)
  PROVE  /\ task[t].step # "changeInstance"
         /\ \E w : w.step \in UserSteps /\ task' = [task EXCEPT ![t] = w]
<1>1. task[t].step # "changeInstance"
  BY DEF UserStep, FirstAdmin, CreateUser, EditUser, DeleteUser, TouchUser, TouchUserTwice,
         WriteTouched, WriteUsers, CreateRole, EditRole, DeleteRole, CheckUsers, WriteRoles,
         Rewrites, Starts, Idle
<1>2. Idle.step \in UserSteps
  BY DEF Idle, UserSteps
<1>3. CASE FirstAdmin(t) \/ CreateUser(t) \/ EditUser(t) \/ DeleteUser(t) \/ TouchUser(t)
  <2>1. PICK list : Rewrites(t, list)
    BY <1>3 DEF FirstAdmin, CreateUser, EditUser, DeleteUser, TouchUser
  <2>2. [step |-> "writeUsers", list |-> list].step \in UserSteps
    BY DEF UserSteps
  <2> QED BY <1>1, <2>1, <2>2 DEF Rewrites, Starts
<1>4. CASE TouchUserTwice(t)
  <2>1. [step |-> "touchUsers", list |-> users].step \in UserSteps
    BY DEF UserSteps
  <2> QED BY <1>1, <1>4, <2>1 DEF TouchUserTwice, Starts
<1>5. CASE WriteTouched(t)
  <2>1. task[t] \in [step : WithList, list : Lists]
    BY <1>5 DEF WriteTouched, IInv, GoodWork, WithList
  <2>2. [task[t] EXCEPT !.step = "writeUsers"].step \in UserSteps
    BY <2>1 DEF UserSteps
  <2> QED BY <1>1, <1>5, <2>2 DEF WriteTouched, Goes
<1>6. CASE CreateRole(t) \/ EditRole(t) \/ DeleteRole(t)
  <2>1. \A set : [step |-> "writeRoles", set |-> set].step \in UserSteps
    BY DEF UserSteps
  <2>2. \A o, set : [step |-> "checkUsers", role |-> o, set |-> set].step \in UserSteps
    BY DEF UserSteps
  <2> QED BY <1>1, <1>6, <2>1, <2>2 DEF CreateRole, EditRole, DeleteRole, Starts
<1>7. CASE WriteUsers(t) \/ CheckUsers(t) \/ WriteRoles(t)
  <2>1. \A set : [step |-> "writeRoles", set |-> set].step \in UserSteps
    BY DEF UserSteps
  <2> QED BY <1>1, <1>2, <1>7, <2>1 DEF WriteUsers, CheckUsers, WriteRoles, Ends, Goes
<1> QED BY <1>3, <1>4, <1>5, <1>6, <1>7 DEF UserStep

-----------------------------------------------------------------------------
(* All steps together.                                                      *)

\* After a step that leaves requests in order, the one that took it was alone.
LEMMA InOrder ==
  ASSUME NEW t \in Tasks, orderly', ModelStep(t) \/ ProfileStep(t) \/ UserStep(t) \/ Fail(t)
  PROVE  orderly /\ (task[t] # Idle \/ Alone(t))
<1>1. CASE Fail(t)
  BY <1>1 DEF Fail
<1>2. ASSUME NEW w, Starts(t, w)
      PROVE  orderly /\ Alone(t)
  BY <1>2 DEF Starts
<1>3. ASSUME NEW w, Goes(t, w), task[t].step # "idle"
      PROVE  orderly /\ task[t] # Idle
  BY <1>3 DEF Goes, Idle
<1>4. CASE ModelStep(t)
  <2>1. CASE EditRouters(t)
    BY <2>1 DEF EditRouters
  <2>2. CASE PutInstance(t) \/ DropInstance(t)
    BY <2>2 DEF PutInstance, DropInstance, StartsUnchecked
  <2>3. CASE \/ CreateModel(t) \/ UpdateModel(t) \/ DeleteModel(t)
             \/ CreateConnection(t) \/ PatchConnection(t) \/ DeleteConnection(t)
    BY <1>2, <2>3
    DEF CreateModel, UpdateModel, DeleteModel, CreateConnection, PatchConnection, DeleteConnection
  <2>4. CASE Bind(t) \/ AddConnection(t) \/ AddInstance(t)
    BY <1>3, <2>4 DEF Bind, AddConnection, AddInstance, Ends
  <2>5. CASE Rebind(t)
    BY <1>3, <2>5 DEF Rebind, Rebound, Kept, Ends
  <2>6. CASE ChangeConnections(t) \/ ChangeInstance(t) \/ Cascade(t)
    BY <1>3, <2>6 DEF ChangeConnections, ChangeInstance, Cascade, Ends
  <2>7. CASE CheckRouters(t) \/ RemoveInstance(t) \/ ReadOrphan(t)
    BY <1>3, <2>7 DEF CheckRouters, RemoveInstance, ReadOrphan, Ends
  <2>8. CASE CheckInstances(t) \/ WriteConnections(t)
    BY <1>3, <2>8 DEF CheckInstances, WriteConnections, Ends
  <2> QED BY <1>4, <2>1, <2>2, <2>3, <2>4, <2>5, <2>6, <2>7, <2>8 DEF ModelStep
<1>5. CASE ProfileStep(t)
  <2>1. CASE DeleteRouter(t)
    BY <2>1 DEF DeleteRouter
  <2>2. CASE CreateProfile(t) \/ EditProfile(t) \/ DeleteProfile(t) \/ AssignProfiles(t)
    BY <1>2, <2>2 DEF CreateProfile, EditProfile, DeleteProfile, AssignProfiles
  <2>3. CASE CheckBindings(t) \/ WriteProfiles(t) \/ CheckProfile(t) \/ WriteRouters(t)
    BY <1>3, <2>3 DEF CheckBindings, WriteProfiles, CheckProfile, WriteRouters, Ends
  <2> QED BY <1>5, <2>1, <2>2, <2>3 DEF ProfileStep
<1>6. CASE UserStep(t)
  <2>1. CASE FirstAdmin(t) \/ CreateUser(t) \/ EditUser(t) \/ DeleteUser(t) \/ TouchUser(t)
    BY <1>2, <2>1 DEF FirstAdmin, CreateUser, EditUser, DeleteUser, TouchUser, Rewrites
  <2>2. CASE TouchUserTwice(t) \/ CreateRole(t) \/ EditRole(t) \/ DeleteRole(t)
    BY <1>2, <2>2 DEF TouchUserTwice, CreateRole, EditRole, DeleteRole
  <2>3. CASE WriteTouched(t) \/ WriteUsers(t) \/ CheckUsers(t) \/ WriteRoles(t)
    BY <1>3, <2>3 DEF WriteTouched, WriteUsers, CheckUsers, WriteRoles, Ends
  <2> QED BY <1>6, <2>1, <2>2, <2>3 DEF UserStep
<1> QED BY <1>1, <1>4, <1>5, <1>6

\* Work about one part of the documents says nothing of the others.
LEMMA ModelsFit ==
  ASSUME NEW v, NEW w, NEW conns, NEW inst, ModelWork(v, conns, inst),
         v.step # "changeInstance", w.step \in ProfileSteps \cup UserSteps
  PROVE  ModelWork(w, conns, inst)
BY DEF ModelWork, DocumentsFit, CreateWork, UpdateWork, DeleteWork, ConnectionWork,
       ProfileSteps, UserSteps

LEMMA ProfilesFit ==
  ASSUME NEW v, NEW w, NEW ps, NEW bs, ProfileWork(v, ps, bs),
         w.step \in ModelSteps \cup UserSteps
  PROVE  ProfileWork(w, ps, bs)
BY DEF ProfileWork, ModelSteps, UserSteps

LEMMA OrderlyStep ==
  ASSUME IInv, OrderlyInv, [Next]_vars
  PROVE  OrderlyInv'
<1>1. CASE UNCHANGED vars
  BY <1>1 DEF vars, taskVars, modelVars, profileVars, userVars, OrderlyInv, Only, Alone, Fits
<1>2. ASSUME NEW t \in Tasks, orderly',
             \/ ModelStep(t) /\ UNCHANGED <<profileVars, userVars>>
             \/ ProfileStep(t) /\ UNCHANGED userVars
             \/ UserStep(t) /\ UNCHANGED <<modelVars, profileVars>>
             \/ Fail(t)
      PROVE  OrderlyInv'
  <2>1. orderly /\ (task[t] # Idle \/ Alone(t))
    BY <1>2, InOrder
  <2>2. Alone(t) /\ Fits(task[t])
    BY <2>1, TheOne
  <2>3. /\ ModelWork(task[t], connections, instances)
        /\ ProfileWork(task[t], profiles, bindings)
    BY <2>2 DEF Fits
  <2>4. task[t] = Idle => task = [task EXCEPT ![t] = Idle]
    BY DEF IInv
  <2>5. ASSUME ModelStep(t), UNCHANGED <<profileVars, userVars>>
        PROVE  OrderlyInv'
    <3>1. GoesOn(t)
      <4>1. CASE CreateModel(t) \/ Bind(t) \/ AddConnection(t) \/ AddInstance(t)
        BY <2>3, <4>1, CreateGoesOn
      <4>2. CASE UpdateModel(t) \/ Rebind(t) \/ ChangeConnections(t)
        BY <2>3, <4>2, UpdateGoesOn
      <4>3. CASE ChangeInstance(t) \/ Cascade(t)
        BY <2>3, <4>3, UpdateEnds
      <4>4. CASE DeleteModel(t) \/ CheckRouters(t) \/ RemoveInstance(t) \/ ReadOrphan(t)
        BY <2>3, <4>4, DeleteGoesOn
      <4>5. CASE \/ CreateConnection(t) \/ PatchConnection(t) \/ DeleteConnection(t)
                 \/ CheckInstances(t) \/ WriteConnections(t)
        BY <2>3, <4>5, ConnectionGoesOn
      <4>6. CASE PutInstance(t) \/ DropInstance(t)
        BY <1>2, <4>6 DEF PutInstance, DropInstance, StartsUnchecked
      <4>7. CASE EditRouters(t)
        <5>1. task[t] = Idle /\ task' = task /\ UNCHANGED <<connections, instances>>
          BY <4>7 DEF EditRouters
        <5>2. Idle.step \in ModelSteps
          BY DEF Idle, ModelSteps
        <5> QED BY <2>3, <2>4, <5>1, <5>2 DEF GoesOn
      <4> QED BY <2>5, <4>1, <4>2, <4>3, <4>4, <4>5, <4>6, <4>7 DEF ModelStep
    <3>2. PICK w : /\ w.step \in ModelSteps /\ task' = [task EXCEPT ![t] = w]
                   /\ ModelWork(w, connections', instances')
      BY <3>1 DEF GoesOn
    <3>3. ProfileWork(w, profiles', bindings')
      BY <2>3, <2>5, <3>2, ProfilesFit DEF profileVars
    <3> QED BY <2>2, <3>2, <3>3, Carried
  <2>6. ASSUME ProfileStep(t), ~DeleteRouter(t), UNCHANGED userVars
        PROVE  OrderlyInv'
    <3>1. task[t].step # "changeInstance" /\ UNCHANGED <<connections, instances>>
      BY <2>3, <2>6, ProfilesGoOn
    <3>2. PICK w : /\ w.step \in ProfileSteps /\ task' = [task EXCEPT ![t] = w]
                   /\ ProfileWork(w, profiles', bindings')
      BY <2>3, <2>6, ProfilesGoOn DEF ProfileGoesOn
    <3>3. ModelWork(w, connections', instances')
      BY <2>3, <3>1, <3>2, ModelsFit
    <3> QED BY <2>2, <3>2, <3>3, Carried
  <2>7. ASSUME DeleteRouter(t), UNCHANGED userVars
        PROVE  OrderlyInv'
    <3>1. task[t] = Idle /\ task' = task /\ UNCHANGED <<connections, instances, profiles>>
      BY <2>7 DEF DeleteRouter
    <3>2. ModelWork(Idle, connections', instances')
      BY <2>3, <3>1
    <3>3. ProfileWork(Idle, profiles', bindings')
      BY <2>3, <2>7, <3>1 DEF DeleteRouter, ProfileWork, Idle
    <3> QED BY <2>2, <2>4, <3>1, <3>2, <3>3, Carried
  <2>8. ASSUME UserStep(t), UNCHANGED <<modelVars, profileVars>>
        PROVE  OrderlyInv'
    <3>1. task[t].step # "changeInstance"
      BY <2>8, UsersGoOn
    <3>2. PICK w : w.step \in UserSteps /\ task' = [task EXCEPT ![t] = w]
      BY <2>8, UsersGoOn
    <3>3. ModelWork(w, connections', instances')
      BY <2>3, <2>8, <3>1, <3>2, ModelsFit DEF modelVars
    <3>4. ProfileWork(w, profiles', bindings')
      BY <2>3, <2>8, <3>2, ProfilesFit DEF profileVars
    <3> QED BY <2>2, <3>2, <3>3, <3>4, Carried
  <2>9. ASSUME Fail(t)
        PROVE  OrderlyInv'
    <3>1. task' = [task EXCEPT ![t] = Idle] /\ ~Halved(task[t])
          /\ UNCHANGED <<modelVars, profileVars, userVars>>
      BY <1>2, <2>9 DEF Fail
    <3>2. connections \in Counts /\ instances \in Bindings /\ Resolves(connections, instances)
      BY <2>3, <3>1 DEF ModelWork, DocumentsFit, Halved
    <3>3. ModelWork(Idle, connections', instances')
      BY <3>1, <3>2, IdleWork DEF modelVars
    <3>4. ProfileWork(Idle, profiles', bindings')
      BY <2>3, <3>1 DEF ProfileWork, Idle, modelVars, profileVars
    <3> QED BY <2>2, <3>1, <3>3, <3>4, Carried
  <2> QED BY <1>2, <2>5, <2>6, <2>7, <2>8, <2>9
<1>3. CASE ~orderly'
  BY <1>3 DEF OrderlyInv
<1> QED BY <1>1, <1>2, <1>3 DEF Next

LEMMA OrderlyInit == Init => OrderlyInv
<1> SUFFICES ASSUME Init PROVE OrderlyInv
  OBVIOUS
<1>1. Only(Idle)
  BY DEF Init, TasksInit, Only, Alone
<1>2. connections \in Counts /\ instances \in Bindings
  BY ModelAssumption DEF Init, ModelsInit, Counts, Bindings
<1>3. Resolves(connections, instances)
  <2>1. SUFFICES ASSUME NEW m \in Models, instances[m] # NoModel
                 PROVE  connections[instances[m]] > 0
    BY DEF Resolves
  <2>2. instances[m] \in ConnIds /\ m \in Users(Bound, instances[m])
    BY <1>2, <2>1 DEF Init, ModelsInit, Users, Bindings
  <2>3. connections[instances[m]] = 1
    BY <2>2 DEF Init, ModelsInit
  <2> QED BY <2>3
<1>4. ModelWork(Idle, connections, instances)
  BY <1>2, <1>3, IdleWork
<1>5. ProfileWork(Idle, profiles, bindings)
  BY DEF Init, ProfilesInit, ProfileWork, Idle
<1> QED BY <1>1, <1>4, <1>5 DEF OrderlyInv, Fits

LEMMA OrderlyInductive == Spec => []OrderlyInv
<1>1. IInv /\ OrderlyInv /\ [Next]_vars => OrderlyInv'
  BY OrderlyStep
<1> QED BY <1>1, OrderlyInit, Inductive, PTL DEF Spec

-----------------------------------------------------------------------------
(* References, also while requests overlap.                                 *)

DocumentsTyped ==
  /\ instances \in Bindings /\ refs \subseteq Places \X Models
  /\ profiles \subseteq Profiles /\ bindings \subseteq ProfileKinds \X Profiles

\* What a request says is about what there can be, and a rename is one.
Naming(w) ==
  /\ w.step \in Binders => w.model \in Models /\ w.bound \in Bindings
  /\ w.step \in {"rebind", "changeConnections", "changeInstance"} => w.new \in Models
  /\ w.step \in {"bind", "rebind"} => w.to \in ConnIds \cup {Own}
  /\ w.step = "rebind" => w.bound[w.model] # NoModel
  /\ w.step = "cascade" => w.model \in Models /\ w.new \in Models /\ w.new # w.model
  /\ w.step = "assign" => /\ w.asked \subseteq ProfileKinds \X Profiles
                          /\ w.refs \subseteq Places \X Models
                          /\ w.bindings \subseteq ProfileKinds \X Profiles
  /\ w.step \in {"writeProfiles", "checkBindings"} => w.set \subseteq Profiles
  /\ w.step = "checkBindings" => w.profile \in Profiles
  /\ w.step = "checkUsers" => w.role \in Roles

\* The references to x are about to be renamed.
Awaits(w, x)  == w.step = "cascade" /\ w.model = x
Renames(w, x) == w.step \in {"changeConnections", "changeInstance"} /\ w.model = x /\ w.new # x

\* x is there, and stays unless it is renamed: every request that is about to
\* write its document leaves it there or renames it.
Held(x) == x \in There /\ \A t \in Tasks : x \notin Lacks(task[t]) \/ Renames(task[t], x)

\* The strengthening of ReferencesResolve: no write to come takes the target of
\* a reference away.
Supported(x) == Held(x) \/ \E t \in Tasks : Awaits(task[t], x)

ReferencesInv ==
  /\ DocumentsTyped /\ \A t \in Tasks : Naming(task[t])
  /\ \A r \in References \ loose : Supported(r[2])

LEMMA LacksModels ==
  ASSUME NEW w, w.step \in Binders
  PROVE  Lacks(w) = {m \in Models : w.bound[m] = NoModel
                                      \/ (w.step = "removeInstance" /\ m = w.model)}
BY DEF Lacks, Binders

WithLists == {"writeProfiles", "checkBindings", "writeRoles", "checkUsers"}

LEMMA LacksNothing ==
  ASSUME NEW w, w.step \notin Binders, w.step \notin WithLists
  PROVE  Lacks(w) = {} /\ \A x : ~Renames(w, x)
BY DEF Lacks, Renames, Binders, WithLists

LEMMA LacksListed ==
  ASSUME NEW w
  PROVE  /\ w.step = "writeProfiles" => Lacks(w) = Profiles \ w.set
         /\ w.step = "checkBindings" => Lacks(w) = Profiles \ (w.set \cup {w.profile})
         /\ w.step = "writeRoles"    => Lacks(w) = Roles \ w.set
         /\ w.step = "checkUsers"    => Lacks(w) = Roles \ (w.set \cup {w.role})
BY DEF Lacks, Binders

\* What each document holds of There.
LEMMA WhereThere ==
  ASSUME IInv, DocumentsTyped, NEW x \in There
  PROVE  /\ x \in Models => instances[x] # NoModel
         /\ x \in Profiles => x \in profiles
         /\ x \in Roles => x \in roles
BY IdAssumption DEF There, DocumentsTyped, IInv

\* A step of request t, which goes on to w, takes nothing from a reference that
\* was there before and is there after it, but for the targets in gone.
Onward(t, gone) ==
  /\ DocumentsTyped'
  /\ \E w : /\ task' = [task EXCEPT ![t] = w] /\ Naming(w)
            /\ \A r \in References \cap References' :
                 \/ r[2] \in gone \/ Awaits(w, r[2])
                 \/ /\ ~Awaits(task[t], r[2])
                    /\ Held(r[2]) => /\ r[2] \in There'
                                     /\ r[2] \notin Lacks(w) \/ Renames(w, r[2])

LEMMA OnwardKeeps ==
  ASSUME IInv, ReferencesInv, NEW t \in Tasks, NEW gone, Onward(t, gone), Loosens(gone)
  PROVE  ReferencesInv'
<1>1. PICK w : /\ task' = [task EXCEPT ![t] = w] /\ Naming(w)
               /\ \A r \in References \cap References' :
                    \/ r[2] \in gone \/ Awaits(w, r[2])
                    \/ /\ ~Awaits(task[t], r[2])
                       /\ Held(r[2]) => /\ r[2] \in There'
                                        /\ r[2] \notin Lacks(w) \/ Renames(w, r[2])
  BY DEF Onward
<1>2. task'[t] = w /\ \A s \in Tasks \ {t} : task'[s] = task[s]
  BY <1>1 DEF IInv
<1>3. DocumentsTyped' /\ \A s \in Tasks : Naming(task'[s])
  BY <1>1, <1>2 DEF Onward, ReferencesInv
<1>4. ASSUME NEW r \in References', r \notin loose'
      PROVE  Supported(r[2])'
  <2> DEFINE x == r[2]
  <2>1. x \in Sure' \/ (r \in References \ loose /\ x \notin gone)
    BY <1>4 DEF Loosens
  <2>2. CASE x \in Sure'
    BY <2>2 DEF Sure, Supported, Held
  <2>3. CASE r \in References \ loose /\ x \notin gone
    <3>1. CASE Awaits(w, x)
      BY <1>2, <3>1 DEF Supported
    <3>2. CASE ~Awaits(w, x)
      <4>1. /\ ~Awaits(task[t], x)
            /\ Held(x) => x \in There' /\ (x \notin Lacks(w) \/ Renames(w, x))
        BY <1>1, <1>4, <2>3, <3>2
      <4>2. CASE Held(x)
        <5>1. \A s \in Tasks : x \notin Lacks(task'[s]) \/ Renames(task'[s], x)
          BY <1>2, <4>1, <4>2 DEF Held
        <5> QED BY <4>1, <4>2, <5>1 DEF Supported, Held
      <4>3. CASE \E s \in Tasks : Awaits(task[s], x)
        BY <1>2, <4>1, <4>3 DEF Supported
      <4> QED BY <2>3, <4>2, <4>3 DEF ReferencesInv, Supported
    <3> QED BY <3>1, <3>2
  <2> QED BY <2>1, <2>2, <2>3
<1> QED BY <1>3, <1>4 DEF ReferencesInv

\* A step that leaves the three documents referred to as they are.
LEMMA SteadyOnward ==
  ASSUME DocumentsTyped', NEW t \in Tasks, NEW gone, UNCHANGED <<instances, profiles, roles>>,
         task[t].step # "cascade", NEW w, task' = [task EXCEPT ![t] = w], Naming(w),
         \A r \in References :
           r[2] \in gone \/ (Held(r[2]) => r[2] \notin Lacks(w) \/ Renames(w, r[2]))
  PROVE  Onward(t, gone)
<1>1. There' = There
  BY DEF There
<1>2. \A x : ~Awaits(task[t], x)
  BY DEF Awaits
<1>3. \A x : Held(x) => x \in There
  BY DEF Held
<1> QED BY <1>1, <1>2, <1>3 DEF Onward

\* One that goes on to work which lacks nothing.
LEMMA PlainOnward ==
  ASSUME DocumentsTyped', NEW t \in Tasks, NEW gone, UNCHANGED <<instances, profiles, roles>>,
         task[t].step # "cascade", NEW w, task' = [task EXCEPT ![t] = w], Naming(w),
         w.step \notin Binders, w.step \notin WithLists
  PROVE  Onward(t, gone)
BY LacksNothing, SteadyOnward

LEMMA IdleNaming ==
  Naming(Idle) /\ Idle.step \notin Binders /\ Idle.step \notin WithLists
BY DEF Naming, Idle, Binders, WithLists

\* Requests that begin with the instances as they are.
LEMMA ReadsInstances ==
  ASSUME IInv, ReferencesInv, NEW t \in Tasks,
         CreateModel(t) \/ UpdateModel(t) \/ DeleteModel(t),
         UNCHANGED <<profileVars, userVars>>
  PROVE  Onward(t, {})
<1>1. DocumentsTyped
  BY DEF ReferencesInv
<1>2. UNCHANGED <<modelVars, profileVars, userVars>> /\ task[t] = Idle
  BY DEF CreateModel, UpdateModel, DeleteModel, Starts
<1>3. DocumentsTyped' /\ UNCHANGED <<instances, profiles, roles>> /\ task[t].step # "cascade"
  BY <1>1, <1>2 DEF DocumentsTyped, modelVars, profileVars, userVars, Idle
<1>4. ASSUME NEW w, w.step \in Binders, w.step # "removeInstance", w.bound = instances,
             Naming(w), task' = [task EXCEPT ![t] = w]
      PROVE  Onward(t, {})
  <2>1. \A x \in There : x \notin Lacks(w)
    BY <1>1, <1>4, LacksModels, WhereThere
  <2>2. \A x : Held(x) => x \notin Lacks(w)
    BY <2>1 DEF Held
  <2> QED BY <1>3, <1>4, <2>2, SteadyOnward
<1>5. CASE CreateModel(t)
  <2>1. PICK m \in Models, to \in ConnIds \cup {Own} :
          task' = [task EXCEPT ![t] = [step |-> "bind", model |-> m, to |-> to,
                                       bound |-> instances]]
    BY <1>5 DEF CreateModel, Starts
  <2> DEFINE w == [step |-> "bind", model |-> m, to |-> to, bound |-> instances]
  <2>2. Naming(w) /\ w.step \in Binders
    BY <1>1 DEF Naming, Binders, DocumentsTyped
  <2> QED BY <1>4, <2>1, <2>2
<1>6. CASE UpdateModel(t)
  <2>1. PICK m \in Models, n \in Models, to \in ConnIds \cup {Own}, keyed \in BOOLEAN :
          /\ instances[m] # NoModel
          /\ task' = [task EXCEPT ![t] = [step |-> "rebind", model |-> m, new |-> n, to |-> to,
                                          keyed |-> keyed, bound |-> instances]]
    BY <1>6 DEF UpdateModel, Starts
  <2> DEFINE w == [step |-> "rebind", model |-> m, new |-> n, to |-> to, keyed |-> keyed,
                   bound |-> instances]
  <2>2. Naming(w) /\ w.step \in Binders
    BY <1>1, <2>1 DEF Naming, Binders, DocumentsTyped
  <2> QED BY <1>4, <2>1, <2>2
<1>7. CASE DeleteModel(t)
  <2>1. PICK m \in Models :
          task' = [task EXCEPT ![t] = [step |-> "checkRouters", model |-> m, bound |-> instances]]
    BY <1>7 DEF DeleteModel, Starts
  <2> DEFINE w == [step |-> "checkRouters", model |-> m, bound |-> instances]
  <2>2. Naming(w) /\ w.step \in Binders
    BY <1>1 DEF Naming, Binders, DocumentsTyped
  <2> QED BY <1>4, <2>1, <2>2
<1> QED BY <1>5, <1>6, <1>7

\* Requests that change what they have read: nothing is taken from it but the
\* old name of a rename.
LEMMA ChangesBound ==
  ASSUME IInv, ReferencesInv, NEW t \in Tasks, Bind(t) \/ AddConnection(t) \/ Rebind(t),
         UNCHANGED <<profileVars, userVars>>
  PROVE  Onward(t, {})
<1> DEFINE v == task[t]
<1>1. DocumentsTyped /\ Naming(v)
  BY DEF ReferencesInv
<1>2. /\ UNCHANGED <<instances, refs, profiles, bindings, roles, users>>
      /\ v.step \in {"bind", "addConnection", "rebind"}
  BY DEF Bind, AddConnection, Rebind, modelVars, profileVars, userVars
<1>3. /\ DocumentsTyped' /\ UNCHANGED <<instances, profiles, roles>> /\ v.step # "cascade"
      /\ v.model \in Models /\ v.bound \in Bindings
  BY <1>1, <1>2 DEF DocumentsTyped, Naming, Binders
<1>4. Lacks(v) = {m \in Models : v.bound[m] = NoModel} /\ \A x : ~Renames(v, x)
  BY <1>2, LacksModels DEF Binders, Renames
<1>5. \A x : Held(x) => x \notin Lacks(v)
  BY <1>4 DEF Held
<1>6. ASSUME Ends(t) PROVE Onward(t, {})
  BY <1>3, <1>6, IdleNaming, PlainOnward DEF Ends, Goes
<1>7. ASSUME NEW w, Naming(w), w.step \in Binders, w.step # "removeInstance",
             task' = [task EXCEPT ![t] = w],
             \A m \in Models : v.bound[m] # NoModel => w.bound[m] # NoModel \/ Renames(w, m)
      PROVE  Onward(t, {})
  <2>1. \A x : x \notin Lacks(v) => x \notin Lacks(w) \/ Renames(w, x)
    BY <1>4, <1>7, LacksModels
  <2> QED BY <1>3, <1>5, <1>7, <2>1, SteadyOnward
<1>8. CASE Bind(t)
  <2>1. v.to \in ConnIds \cup {Own}
    BY <1>1, <1>8 DEF Naming, Bind
  <2>2. CASE v.to = Own
    <3> DEFINE copy == [connections EXCEPT ![v.model] = 1]
               w == [step |-> "addConnection", model |-> v.model, bound |-> v.bound,
                     copy |-> copy]
    <3>1. task' = [task EXCEPT ![t] = w]
      BY <1>8, <2>2 DEF Bind, Goes
    <3>2. Naming(w) /\ w.step \in Binders /\ w.bound = v.bound /\ w.step # "removeInstance"
      BY <1>3 DEF Naming, Binders
    <3> HIDE DEF w
    <3> QED BY <1>7, <3>1, <3>2
  <2>3. CASE v.to # Own
    <3> DEFINE bound == [v.bound EXCEPT ![v.model] = v.to]
               w == [step |-> "addInstance", model |-> v.model, bound |-> bound]
    <3>1. task' = [task EXCEPT ![t] = w] \/ Ends(t)
      BY <1>8, <2>3 DEF Bind, Goes
    <3>2. bound \in Bindings /\ \A m \in Models : v.bound[m] # NoModel => bound[m] # NoModel
      BY <1>3, <2>1, <2>3, ModelAssumption DEF Bindings
    <3> HIDE DEF bound
    <3>3. Naming(w) /\ w.step \in Binders
      BY <1>3, <3>2 DEF Naming, Binders
    <3> QED BY <1>6, <1>7, <3>1, <3>2, <3>3
  <2> QED BY <2>2, <2>3
<1>9. CASE AddConnection(t)
  <2> DEFINE bound == [v.bound EXCEPT ![v.model] = v.model]
             w == [step |-> "addInstance", model |-> v.model, bound |-> bound]
  <2>1. task' = [task EXCEPT ![t] = w]
    BY <1>9 DEF AddConnection, Goes
  <2>2. bound \in Bindings /\ \A m \in Models : v.bound[m] # NoModel => bound[m] # NoModel
    BY <1>3, ModelAssumption DEF Bindings, ConnIds
  <2> HIDE DEF bound
  <2>3. Naming(w) /\ w.step \in Binders
    BY <1>3, <2>2 DEF Naming, Binders
  <2> QED BY <1>7, <2>1, <2>2, <2>3
<1>10. CASE Rebind(t)
  <2>1. /\ v.step = "rebind" /\ v.to \in ConnIds \cup {Own} /\ v.new \in Models
        /\ v.bound[v.model] # NoModel
    BY <1>1, <1>10 DEF Naming, Rebind
  <2> DEFINE bound(c) == [v.bound EXCEPT ![v.model] = NoModel, ![v.new] = c]
  <2>2. ASSUME NEW c \in ConnIds
        PROVE  /\ bound(c) \in Bindings
               /\ \A m \in Models :
                    v.bound[m] # NoModel => bound(c)[m] # NoModel \/ (m = v.model /\ v.new # m)
    BY <1>3, <2>1, ModelAssumption DEF Bindings
  <2>3. ASSUME NEW c \in ConnIds, NEW w, task' = [task EXCEPT ![t] = w],
               w.step \in {"changeConnections", "changeInstance"}, w.bound = bound(c),
               w.model = v.model, w.new = v.new
        PROVE  Onward(t, {})
    <3>1. Naming(w) /\ w.step \in Binders /\ w.step # "removeInstance"
      BY <1>3, <2>1, <2>2, <2>3 DEF Naming, Binders
    <3>2. \A m \in Models : v.bound[m] # NoModel => w.bound[m] # NoModel \/ Renames(w, m)
      BY <2>2, <2>3 DEF Renames
    <3> HIDE DEF bound, v
    <3> QED BY <1>7, <2>3, <3>1, <3>2 DEF v
  <2>4. ASSUME NEW c \in ConnIds, Kept(t, c)
        PROVE  Onward(t, {})
    BY <2>3, <2>4 DEF Kept, Goes
  <2>5. ASSUME NEW c \in ConnIds, NEW conns, Rebound(t, conns, c)
        PROVE  Onward(t, {})
    <3> DEFINE w == [step |-> "changeConnections", model |-> v.model, new |-> v.new,
                     changed |-> conns # connections, copy |-> conns, bound |-> bound(c)]
    <3>1. task' = [task EXCEPT ![t] = w]
      BY <2>5 DEF Rebound, Goes
    <3>2. /\ w.step = "changeConnections" /\ w.bound = bound(c)
          /\ w.model = v.model /\ w.new = v.new
      OBVIOUS
    <3> HIDE DEF w, v
    <3> QED BY <2>3, <2>5, <3>1, <3>2
  <2>6. v.new \in ConnIds /\ v.bound[v.model] \in ConnIds /\ (v.to # Own => v.to \in ConnIds)
    BY <1>3, <2>1 DEF ConnIds, Bindings
  <2> HIDE DEF v
  <2> QED BY <1>6, <1>10, <2>4, <2>5, <2>6 DEF Rebind, v
<1> QED BY <1>8, <1>9, <1>10

\* The writes of the instances.
LEMMA WritesInstances ==
  ASSUME IInv, ReferencesInv, NEW t \in Tasks,
         AddInstance(t) \/ ChangeConnections(t) \/ ChangeInstance(t) \/ RemoveInstance(t),
         UNCHANGED <<profileVars, userVars>>
  PROVE  Onward(t, {})
<1> DEFINE v == task[t]
<1>1. DocumentsTyped /\ Naming(v)
  BY DEF ReferencesInv
<1>2. /\ UNCHANGED <<refs, profiles, bindings, roles, users>>
      /\ v.step \in {"addInstance", "changeConnections", "changeInstance", "removeInstance"}
  BY DEF AddInstance, ChangeConnections, ChangeInstance, RemoveInstance, profileVars, userVars
<1>3. v.model \in Models /\ v.bound \in Bindings /\ v.step \in Binders /\ v.step # "cascade"
  BY <1>1, <1>2 DEF Naming, Binders
<1>4. \A x : ~Awaits(v, x)
  BY <1>3 DEF Awaits
<1>5. CASE ChangeConnections(t)
  <2> DEFINE w == [step |-> "changeInstance", model |-> v.model, new |-> v.new,
                   changed |-> v.changed, bound |-> v.bound]
  <2>1. task' = [task EXCEPT ![t] = w] /\ instances' = instances /\ v.step = "changeConnections"
    BY <1>5 DEF ChangeConnections, Goes
  <2>2. Naming(w) /\ w.step = "changeInstance" /\ w.bound = v.bound
        /\ w.model = v.model /\ w.new = v.new
    BY <1>1, <1>3, <2>1 DEF Naming, Binders
  <2> HIDE DEF w
  <2>3. Lacks(w) = Lacks(v) /\ \A x : Renames(v, x) => Renames(w, x)
    BY <2>1, <2>2, LacksModels DEF Binders, Renames
  <2>4. \A x : Held(x) => x \notin Lacks(w) \/ Renames(w, x)
    BY <2>3 DEF Held
  <2>5. DocumentsTyped'
    BY <1>1, <1>2, <2>1 DEF DocumentsTyped
  <2> QED BY <1>2, <1>3, <2>1, <2>2, <2>4, <2>5, SteadyOnward
<1>6. ASSUME NEW w, task' = [task EXCEPT ![t] = w], Naming(w), Lacks(w) = {},
             instances' \in Bindings,
             \A x : x \in Models /\ instances'[x] = NoModel
                      => x \in Lacks(v) /\ (~Renames(v, x) \/ Awaits(w, x))
      PROVE  Onward(t, {})
  <2>1. DocumentsTyped'
    BY <1>1, <1>2, <1>6 DEF DocumentsTyped
  <2>2. ASSUME NEW x, ~Awaits(w, x), Held(x)
        PROVE  x \in There'
    <3>1. x \in There /\ (x \notin Lacks(v) \/ Renames(v, x))
      BY <2>2 DEF Held
    <3>2. x \in Models => instances'[x] # NoModel
      BY <1>6, <2>2, <3>1
    <3> QED BY <1>2, <3>1, <3>2 DEF There
  <2> QED BY <1>4, <1>6, <2>1, <2>2 DEF Onward
<1>7. Lacks(v) = {m \in Models : v.bound[m] = NoModel
                                   \/ (v.step = "removeInstance" /\ m = v.model)}
  BY <1>3, LacksModels
<1>8. Lacks(Idle) = {} /\ Naming(Idle)
  BY IdleNaming, LacksNothing
<1>9. CASE AddInstance(t)
  <2>1. instances' = v.bound /\ task' = [task EXCEPT ![t] = Idle] /\ v.step = "addInstance"
    BY <1>9 DEF AddInstance, Ends, Goes
  <2>2. \A x : ~Renames(v, x)
    BY <2>1 DEF Renames
  <2> HIDE DEF v
  <2> QED BY <1>3, <1>6, <1>7, <1>8, <2>1, <2>2
<1>10. CASE ChangeInstance(t)
  <2>1. instances' = v.bound /\ v.step = "changeInstance" /\ v.new \in Models
    BY <1>1, <1>10 DEF ChangeInstance, Naming
  <2>2. CASE v.new = v.model
    <3>1. task' = [task EXCEPT ![t] = Idle] /\ \A x : ~Renames(v, x)
      BY <1>10, <2>2 DEF ChangeInstance, Ends, Goes, Renames
    <3> HIDE DEF v
    <3> QED BY <1>3, <1>6, <1>7, <1>8, <2>1, <3>1
  <2>3. CASE v.new # v.model
    <3> DEFINE w == [step |-> "cascade", model |-> v.model, new |-> v.new]
    <3>1. task' = [task EXCEPT ![t] = w]
      BY <1>10, <2>3 DEF ChangeInstance, Goes
    <3>2. Naming(w) /\ w.step \notin Binders /\ w.step \notin WithLists
      BY <1>3, <2>1, <2>3 DEF Naming, Binders, WithLists
    <3>3. Lacks(w) = {} /\ \A x : Renames(v, x) => Awaits(w, x)
      BY <3>2, LacksNothing DEF Renames, Awaits
    <3> HIDE DEF v, w
    <3> QED BY <1>3, <1>6, <1>7, <2>1, <3>1, <3>2, <3>3
  <2> QED BY <2>2, <2>3
<1>11. CASE RemoveInstance(t)
  <2>1. /\ instances' = [v.bound EXCEPT ![v.model] = NoModel] /\ v.step = "removeInstance"
        /\ \/ task' = [task EXCEPT ![t] = Idle]
           \/ task' = [task EXCEPT ![t] = [step |-> "readOrphan", model |-> v.model]]
    BY <1>11 DEF RemoveInstance, Ends, Goes
  <2>2. instances' \in Bindings
        /\ \A x \in Models : instances'[x] = NoModel => v.bound[x] = NoModel \/ x = v.model
    BY <1>3, <2>1 DEF Bindings
  <2>3. \A x : ~Renames(v, x)
    BY <2>1 DEF Renames
  <2>4. \A x : x \in Models /\ instances'[x] = NoModel => x \in Lacks(v)
    BY <1>7, <2>1, <2>2
  <2> DEFINE w == [step |-> "readOrphan", model |-> v.model]
  <2>5. Naming(w) /\ w.step \notin Binders /\ w.step \notin WithLists
    BY DEF Naming, Binders, WithLists
  <2>6. Lacks(w) = {}
    BY <2>5, LacksNothing
  <2> HIDE DEF v, w
  <2> QED BY <1>6, <1>8, <2>1, <2>2, <2>3, <2>4, <2>5, <2>6 DEF w
<1> QED BY <1>5, <1>9, <1>10, <1>11

\* A model that no reference names is about to be removed.
LEMMA ChecksRouters ==
  ASSUME IInv, ReferencesInv, NEW t \in Tasks, CheckRouters(t),
         UNCHANGED <<profileVars, userVars>>
  PROVE  Onward(t, {})
<1> DEFINE v == task[t]
<1>1. DocumentsTyped /\ Naming(v)
  BY DEF ReferencesInv
<1>2. UNCHANGED <<modelVars, profileVars, userVars>> /\ v.step = "checkRouters"
  BY DEF CheckRouters
<1>3. /\ DocumentsTyped' /\ UNCHANGED <<instances, profiles, roles>> /\ v.step # "cascade"
      /\ v.model \in Models /\ v.bound \in Bindings
  BY <1>1, <1>2 DEF DocumentsTyped, Naming, Binders, modelVars, profileVars, userVars
<1>4. CASE \E p \in Places : <<p, v.model>> \in refs
  BY <1>3, <1>4, IdleNaming, PlainOnward DEF CheckRouters, Ends, Goes
<1>5. CASE ~\E p \in Places : <<p, v.model>> \in refs
  <2> DEFINE w == [step |-> "removeInstance", model |-> v.model, bound |-> v.bound]
  <2>1. task' = [task EXCEPT ![t] = w]
    BY <1>5 DEF CheckRouters, Goes
  <2>2. Naming(w) /\ w.step = "removeInstance" /\ w.model = v.model /\ w.bound = v.bound
    BY <1>3 DEF Naming, Binders
  <2> HIDE DEF w
  <2>3. \A r \in References : r[2] # v.model
    <3>1. SUFFICES ASSUME NEW r \in References, r[2] = v.model PROVE FALSE
      OBVIOUS
    <3>2. CASE r \in refs
      <4>1. r \in Places \X Models
        BY <1>1, <3>2 DEF DocumentsTyped
      <4>2. r = <<r[1], v.model>> /\ r[1] \in Places
        BY <3>1, <4>1
      <4> QED BY <1>5, <3>2, <4>2
    <3>3. CASE r \in bindings
      BY <1>1, <1>3, <3>1, <3>3, IdAssumption DEF DocumentsTyped
    <3>4. CASE r \in {<<u, users[u].role>> : u \in Accounts}
      BY <1>3, <3>1, <3>4, IdAssumption DEF Accounts, IInv, Lists, Account
    <3> QED BY <3>2, <3>3, <3>4 DEF References
  <2>4. Lacks(w) = Lacks(v) \cup {v.model} /\ \A x : ~Renames(v, x)
    BY <1>2, <1>3, <2>2, LacksModels DEF Binders, Renames
  <2>5. \A r \in References : Held(r[2]) => r[2] \notin Lacks(w)
    BY <2>3, <2>4 DEF Held
  <2> QED BY <1>3, <2>1, <2>2, <2>5, SteadyOnward
<1> QED BY <1>4, <1>5

\* The routers follow a rename: no reference to the old name is left.
LEMMA CascadesOnward ==
  ASSUME IInv, ReferencesInv, NEW t \in Tasks, Cascade(t), UNCHANGED <<profileVars, userVars>>
  PROVE  Onward(t, {})
<1> DEFINE v == task[t]
<1>1. DocumentsTyped /\ v.model \in Models /\ v.new \in Models /\ v.new # v.model
  BY DEF ReferencesInv, Naming, Cascade
<1>2. /\ refs' = Renamed(v.model, v.new) /\ task' = [task EXCEPT ![t] = Idle]
      /\ UNCHANGED <<instances, profiles, bindings, roles, users>>
  BY DEF Cascade, Ends, Goes, profileVars, userVars
<1>3. refs' \subseteq Places \X Models /\ \A r \in refs' : r[2] # v.model
  BY <1>1, <1>2 DEF Renamed, DocumentsTyped
<1>4. DocumentsTyped'
  BY <1>1, <1>2, <1>3 DEF DocumentsTyped
<1>5. \A r \in References' : r[2] # v.model
  <2>1. \A b \in bindings' : b[2] # v.model
    BY <1>1, <1>2, IdAssumption DEF DocumentsTyped
  <2>2. \A u \in Accounts' : users'[u].role # v.model
    BY <1>1, <1>2, IdAssumption DEF Accounts, IInv, Lists, Account
  <2> QED BY <1>3, <2>1, <2>2 DEF References
<1>6. There' = There /\ Lacks(Idle) = {} /\ Naming(Idle)
  BY <1>2, IdleNaming, LacksNothing DEF There
<1> QED BY <1>2, <1>4, <1>5, <1>6 DEF Onward, Held, Awaits

\* The requests about connections.
LEMMA ConnectionsOnward ==
  ASSUME IInv, ReferencesInv, NEW t \in Tasks,
         \/ ReadOrphan(t) \/ CreateConnection(t) \/ PatchConnection(t) \/ DeleteConnection(t)
         \/ CheckInstances(t) \/ WriteConnections(t),
         UNCHANGED <<profileVars, userVars>>
  PROVE  Onward(t, {})
<1>1. /\ UNCHANGED <<instances, refs, profiles, bindings, roles, users>>
      /\ task[t].step # "cascade"
  BY DEF ReadOrphan, CreateConnection, PatchConnection, DeleteConnection, CheckInstances,
         WriteConnections, Starts, Idle, modelVars, profileVars, userVars
<1>2. DocumentsTyped'
  BY <1>1 DEF ReferencesInv, DocumentsTyped
<1>3. ASSUME NEW w, w.step \notin Binders, w.step \notin WithLists, Naming(w),
             task' = [task EXCEPT ![t] = w]
      PROVE  Onward(t, {})
  BY <1>1, <1>2, <1>3, PlainOnward
<1> DEFINE write(copy) == [step |-> "writeConnections", copy |-> copy]
           check(c, copy) == [step |-> "checkInstances", conn |-> c, copy |-> copy]
<1>4. ASSUME NEW copy, task' = [task EXCEPT ![t] = write(copy)]
      PROVE  Onward(t, {})
  <2>1. LET w == write(copy) IN w.step \notin Binders /\ w.step \notin WithLists /\ Naming(w)
    BY DEF Naming, Binders, WithLists
  <2> HIDE DEF write
  <2> QED BY <1>3, <1>4, <2>1
<1>5. ASSUME NEW c, NEW copy, task' = [task EXCEPT ![t] = check(c, copy)]
      PROVE  Onward(t, {})
  <2>1. LET w == check(c, copy) IN w.step \notin Binders /\ w.step \notin WithLists /\ Naming(w)
    BY DEF Naming, Binders, WithLists
  <2> HIDE DEF check
  <2> QED BY <1>3, <1>5, <2>1
<1>6. CASE CreateConnection(t) \/ PatchConnection(t)
  BY <1>4, <1>6 DEF CreateConnection, PatchConnection, Starts
<1>7. CASE DeleteConnection(t)
  BY <1>5, <1>7 DEF DeleteConnection, Starts
<1>8. CASE ReadOrphan(t) \/ CheckInstances(t) \/ WriteConnections(t)
  BY <1>3, <1>4, <1>8, IdleNaming DEF ReadOrphan, CheckInstances, WriteConnections, Ends, Goes
<1> QED BY <1>6, <1>7, <1>8

\* What goes over /api/instances.
LEMMA UncheckedOnward ==
  ASSUME IInv, ReferencesInv, NEW t \in Tasks, PutInstance(t) \/ DropInstance(t),
         UNCHANGED <<profileVars, userVars>>
  PROVE  Onward(t, Dropped(t))
<1>1. DocumentsTyped
  BY DEF ReferencesInv
<1>2. UNCHANGED <<modelVars, profileVars, userVars>> /\ task[t] = Idle
  BY DEF PutInstance, DropInstance, StartsUnchecked
<1>3. DocumentsTyped' /\ UNCHANGED <<instances, profiles, roles>> /\ task[t].step # "cascade"
  BY <1>1, <1>2 DEF DocumentsTyped, modelVars, profileVars, userVars, Idle
<1>4. ASSUME NEW m \in Models, NEW c \in ConnIds \cup {NoModel}, c # NoModel \/ DropInstance(t),
             task' = [task EXCEPT ![t] = [step |-> "addInstance", model |-> m,
                                          bound |-> [instances EXCEPT ![m] = c]]]
      PROVE  Onward(t, Dropped(t))
  <2> DEFINE bound == [instances EXCEPT ![m] = c]
             w == [step |-> "addInstance", model |-> m, bound |-> bound]
  <2>1. bound \in Bindings /\ \A x \in Models : bound[x] = IF x = m THEN c ELSE instances[x]
    BY <1>1, <1>4 DEF DocumentsTyped, Bindings
  <2> HIDE DEF bound
  <2>2. Naming(w) /\ w.step = "addInstance" /\ w.bound = bound
    BY <1>4, <2>1 DEF Naming, Binders
  <2>3. task' = [task EXCEPT ![t] = w] /\ task'[t] = w
    BY <1>4 DEF IInv, bound
  <2> HIDE DEF w
  <2>4. ASSUME NEW x \in There, x \in Lacks(w)
        PROVE  x \in Dropped(t)
    <3>1. x \in Models /\ bound[x] = NoModel
      BY <2>2, <2>4, LacksModels DEF Binders
    <3>2. instances[x] # NoModel
      BY <1>1, <2>4, <3>1, WhereThere
    <3>3. DropInstance(t)
      BY <1>4, <2>1, <3>1, <3>2
    <3> QED BY <2>2, <2>3, <3>1, <3>2, <3>3 DEF Dropped
  <2>5. \A x : x \in Dropped(t) \/ (Held(x) => x \notin Lacks(w))
    BY <2>4 DEF Held
  <2> QED BY <1>3, <2>2, <2>3, <2>5, SteadyOnward
<1>5. CASE PutInstance(t)
  BY <1>4, <1>5, ModelAssumption DEF PutInstance, StartsUnchecked
<1>6. CASE DropInstance(t)
  BY <1>4, <1>6 DEF DropInstance, StartsUnchecked
<1> QED BY <1>5, <1>6

\* The routers are changed in one step.
LEMMA RoutersOnward ==
  ASSUME IInv, ReferencesInv, NEW t \in Tasks,
         \/ EditRouters(t) /\ UNCHANGED <<profileVars, userVars>>
         \/ DeleteRouter(t) /\ UNCHANGED userVars
  PROVE  Onward(t, {})
<1>1. task[t] = Idle /\ task' = task /\ UNCHANGED <<instances, profiles, roles>>
  BY DEF EditRouters, DeleteRouter, profileVars, userVars
<1>2. task' = [task EXCEPT ![t] = Idle]
  BY <1>1 DEF IInv
<1>3. DocumentsTyped'
  BY <1>1 DEF ReferencesInv, DocumentsTyped, EditRouters, DeleteRouter, profileVars
<1>4. task[t].step # "cascade"
  BY <1>1 DEF Idle
<1> QED BY <1>1, <1>2, <1>3, <1>4, IdleNaming, PlainOnward

\* Every step about models.
LEMMA ModelsOnward ==
  ASSUME IInv, ReferencesInv, NEW t \in Tasks, ModelStep(t), UNCHANGED <<profileVars, userVars>>,
         Loosens(Dropped(t))
  PROVE  ReferencesInv'
<1>1. CASE PutInstance(t) \/ DropInstance(t)
  BY <1>1, UncheckedOnward, OnwardKeeps
<1>2. CASE ~DropInstance(t) /\ ~PutInstance(t)
  <2>1. Dropped(t) = {}
    BY <1>2 DEF Dropped
  <2>2. CASE \/ CreateModel(t) \/ UpdateModel(t) \/ DeleteModel(t) \/ Bind(t)
             \/ AddConnection(t) \/ Rebind(t)
    BY <2>1, <2>2, ReadsInstances, ChangesBound, OnwardKeeps
  <2>3. CASE AddInstance(t) \/ ChangeConnections(t) \/ ChangeInstance(t) \/ RemoveInstance(t)
    BY <2>1, <2>3, WritesInstances, OnwardKeeps
  <2>4. CASE CheckRouters(t) \/ Cascade(t) \/ EditRouters(t)
    BY <2>1, <2>4, ChecksRouters, CascadesOnward, RoutersOnward, OnwardKeeps
  <2>5. CASE \/ ReadOrphan(t) \/ CreateConnection(t) \/ PatchConnection(t) \/ DeleteConnection(t)
             \/ CheckInstances(t) \/ WriteConnections(t)
    BY <2>1, <2>5, ConnectionsOnward, OnwardKeeps
  <2> QED BY <1>2, <2>2, <2>3, <2>4, <2>5 DEF ModelStep
<1> QED BY <1>1, <1>2

\* Every step about profiles.
LEMMA ProfilesOnward ==
  ASSUME IInv, ReferencesInv, NEW t \in Tasks, ProfileStep(t), UNCHANGED userVars
  PROVE  Onward(t, {})
<1> DEFINE v == task[t]
<1>1. DocumentsTyped /\ Naming(v)
  BY DEF ReferencesInv
<1>2. ASSUME NEW w, Naming(w),
             task' = [task EXCEPT ![t] = w], v.step # "cascade", DocumentsTyped',
             UNCHANGED <<instances, profiles, roles>>,
             \A r \in References : Held(r[2]) => r[2] \notin Lacks(w)
      PROVE  Onward(t, {})
  BY <1>2, SteadyOnward
<1>3. CASE CreateProfile(t) \/ EditProfile(t)
  <2>1. PICK set \in SUBSET Profiles :
          /\ profiles \subseteq set
          /\ task' = [task EXCEPT ![t] = [step |-> "writeProfiles", set |-> set]]
    BY <1>1, <1>3 DEF CreateProfile, EditProfile, Starts, DocumentsTyped
  <2> DEFINE w == [step |-> "writeProfiles", set |-> set]
  <2>2. Naming(w) /\ w.step = "writeProfiles" /\ w.set = set
    BY DEF Naming, Binders
  <2>3. task' = [task EXCEPT ![t] = w]
    BY <2>1
  <2> HIDE DEF w
  <2>4. \A x \in There : x \notin Lacks(w)
    BY <1>1, <2>1, <2>2, LacksListed, WhereThere
  <2>5. \A x : Held(x) => x \notin Lacks(w)
    BY <2>4 DEF Held
  <2>6. /\ v.step # "cascade" /\ DocumentsTyped'
        /\ UNCHANGED <<instances, profiles, roles>>
    BY <1>1, <1>3
    DEF CreateProfile, EditProfile, Starts, Idle, DocumentsTyped, modelVars, profileVars, userVars
  <2> QED BY <1>2, <2>2, <2>3, <2>5, <2>6
<1>4. CASE DeleteProfile(t)
  <2>1. PICK p \in profiles : task' = [task EXCEPT ![t] =
               [step |-> "checkBindings", profile |-> p, set |-> profiles \ {p}]]
    BY <1>4 DEF DeleteProfile, Starts
  <2> DEFINE w == [step |-> "checkBindings", profile |-> p, set |-> profiles \ {p}]
  <2>2. Naming(w) /\ w.step = "checkBindings" /\ w.set = profiles \ {p} /\ w.profile = p
    BY <1>1 DEF Naming, Binders, DocumentsTyped
  <2>3. task' = [task EXCEPT ![t] = w]
    BY <2>1
  <2> HIDE DEF w
  <2>4. \A x \in There : x \notin Lacks(w)
    BY <1>1, <2>1, <2>2, LacksListed, WhereThere
  <2>5. \A x : Held(x) => x \notin Lacks(w)
    BY <2>4 DEF Held
  <2>6. /\ v.step # "cascade" /\ DocumentsTyped'
        /\ UNCHANGED <<instances, profiles, roles>>
    BY <1>1, <1>4
    DEF DeleteProfile, Starts, Idle, DocumentsTyped, modelVars, profileVars, userVars
  <2> QED BY <1>2, <2>2, <2>3, <2>5, <2>6
<1>5. CASE CheckBindings(t)
  <2>1. UNCHANGED <<modelVars, profileVars>> /\ v.step = "checkBindings"
    BY <1>5 DEF CheckBindings
  <2>2. v.set \subseteq Profiles /\ v.profile \in Profiles
    BY <1>1, <2>1 DEF Naming
  <2>3. DocumentsTyped' /\ UNCHANGED <<instances, profiles, roles>>
    BY <1>1, <2>1 DEF DocumentsTyped, modelVars, profileVars, userVars
  <2>4. CASE \E k \in ProfileKinds : <<k, v.profile>> \in bindings
    <3> QED BY <1>5, <2>1, <2>3, <2>4, IdleNaming, PlainOnward DEF CheckBindings, Ends, Goes
  <2>5. CASE ~\E k \in ProfileKinds : <<k, v.profile>> \in bindings
    <3> DEFINE w == [step |-> "writeProfiles", set |-> v.set]
    <3>1. task' = [task EXCEPT ![t] = w]
      BY <1>5, <2>5 DEF CheckBindings, Goes
    <3>2. Naming(w) /\ w.step = "writeProfiles" /\ w.set = v.set
      BY <2>2 DEF Naming, Binders
    <3> HIDE DEF w
    <3>3. \A r \in References : r[2] # v.profile
      <4>1. SUFFICES ASSUME NEW r \in References, r[2] = v.profile PROVE FALSE
        OBVIOUS
      <4>2. CASE r \in bindings
        <5>1. r \in ProfileKinds \X Profiles
          BY <1>1, <4>2 DEF DocumentsTyped
        <5>2. r = <<r[1], v.profile>> /\ r[1] \in ProfileKinds
          BY <4>1, <5>1
        <5> QED BY <2>5, <4>2, <5>2
      <4>3. CASE r \in refs
        BY <1>1, <2>2, <4>1, <4>3, IdAssumption DEF DocumentsTyped
      <4>4. CASE r \in {<<u, users[u].role>> : u \in Accounts}
        BY <2>2, <4>1, <4>4, IdAssumption DEF Accounts, IInv, Lists, Account
      <4> QED BY <4>2, <4>3, <4>4 DEF References
    <3>4. Lacks(v) = Profiles \ (v.set \cup {v.profile}) /\ Lacks(w) = Profiles \ v.set
      BY <2>1, <3>2, LacksListed
    <3>5. \A x : Held(x) => x \notin Lacks(v)
      BY <2>1 DEF Held, Renames
    <3>6. \A r \in References : Held(r[2]) => r[2] \notin Lacks(w)
      BY <3>3, <3>4, <3>5
    <3> QED BY <1>2, <2>1, <2>3, <3>1, <3>2, <3>6
  <2> QED BY <2>4, <2>5
<1>6. CASE WriteProfiles(t)
  <2>1. /\ profiles' = v.set /\ task' = [task EXCEPT ![t] = Idle] /\ v.step = "writeProfiles"
        /\ UNCHANGED <<instances, refs, bindings, roles, users>>
    BY <1>6 DEF WriteProfiles, Ends, Goes, modelVars, userVars
  <2>2. v.set \subseteq Profiles /\ Lacks(v) = Profiles \ v.set /\ \A x : ~Renames(v, x)
    BY <1>1, <2>1, LacksListed DEF Naming, Renames
  <2>3. DocumentsTyped'
    BY <1>1, <2>1, <2>2 DEF DocumentsTyped
  <2>4. ASSUME NEW x, Held(x) PROVE x \in There'
    <3>1. x \in There /\ x \notin Lacks(v)
      BY <2>2, <2>4 DEF Held
    <3> QED BY <1>1, <2>1, <2>2, <3>1 DEF There, DocumentsTyped
  <2>5. Naming(Idle) /\ Lacks(Idle) = {} /\ \A x : ~Awaits(v, x)
    BY <2>1, IdleNaming, LacksNothing DEF Awaits
  <2> QED BY <2>1, <2>3, <2>4, <2>5 DEF Onward
<1>7. CASE AssignProfiles(t) \/ CheckProfile(t) \/ WriteRouters(t)
  <2>1. UNCHANGED <<instances, profiles, roles>> /\ v.step # "cascade"
    BY <1>7 DEF AssignProfiles, CheckProfile, WriteRouters, Starts, Idle, modelVars, profileVars,
                userVars
  <2>2. CASE AssignProfiles(t)
    <3>1. PICK asked \in SUBSET (ProfileKinds \X Profiles), kept \in SUBSET bindings :
            task' = [task EXCEPT ![t] = [step |-> "assign", asked |-> asked, refs |-> refs,
                                         bindings |-> kept]]
      BY <2>2 DEF AssignProfiles, Starts
    <3> DEFINE w == [step |-> "assign", asked |-> asked, refs |-> refs, bindings |-> kept]
    <3>2. Naming(w) /\ w.step \notin Binders /\ w.step \notin WithLists
      BY <1>1 DEF Naming, Binders, WithLists, DocumentsTyped
    <3>3. DocumentsTyped'
      BY <1>1, <2>2 DEF AssignProfiles, DocumentsTyped, modelVars, profileVars
    <3> HIDE DEF w
    <3> QED BY <2>1, <3>1, <3>2, <3>3, PlainOnward DEF w
  <2>3. CASE CheckProfile(t)
    <3>1. /\ v.asked \subseteq ProfileKinds \X Profiles /\ v.refs \subseteq Places \X Models
          /\ v.bindings \subseteq ProfileKinds \X Profiles
      BY <1>1, <2>3 DEF CheckProfile, Naming
    <3>2. PICK a \in v.asked :
            \/ Ends(t)
            \/ Goes(t, [step |-> "assign", asked |-> v.asked \ {a}, refs |-> v.refs,
                        bindings |-> v.bindings \cup {a}])
      BY <2>3 DEF CheckProfile
    <3> DEFINE w == [step |-> "assign", asked |-> v.asked \ {a}, refs |-> v.refs,
                     bindings |-> v.bindings \cup {a}]
    <3>3. Naming(w) /\ w.step \notin Binders /\ w.step \notin WithLists
      BY <3>1 DEF Naming, Binders, WithLists
    <3>4. DocumentsTyped'
      BY <1>1, <2>3 DEF CheckProfile, DocumentsTyped, modelVars, profileVars
    <3>5. task' = [task EXCEPT ![t] = Idle] \/ task' = [task EXCEPT ![t] = w]
      BY <3>2 DEF Ends, Goes
    <3> HIDE DEF w
    <3> QED BY <2>1, <3>3, <3>4, <3>5, IdleNaming, PlainOnward
  <2>4. CASE WriteRouters(t)
    <3>1. v.refs \subseteq Places \X Models /\ v.bindings \subseteq ProfileKinds \X Profiles
      BY <1>1, <2>4 DEF WriteRouters, Naming
    <3>2. DocumentsTyped'
      BY <1>1, <2>4, <3>1 DEF WriteRouters, DocumentsTyped
    <3> QED BY <2>1, <2>4, <3>2, IdleNaming, PlainOnward DEF WriteRouters, Ends, Goes
  <2> QED BY <1>7, <2>2, <2>3, <2>4
<1>8. CASE DeleteRouter(t)
  BY <1>8, RoutersOnward
<1> QED BY <1>3, <1>4, <1>5, <1>6, <1>7, <1>8 DEF ProfileStep

\* Every step about users and roles.
LEMMA UsersOnward ==
  ASSUME IInv, ReferencesInv, NEW t \in Tasks, UserStep(t), UNCHANGED <<modelVars, profileVars>>
  PROVE  Onward(t, {})
<1> DEFINE v == task[t]
<1>1. DocumentsTyped /\ Naming(v)
  BY DEF ReferencesInv
<1>2. DocumentsTyped' /\ UNCHANGED <<instances, refs, profiles, bindings>>
  BY <1>1 DEF DocumentsTyped, modelVars, profileVars
<1>3. v.step # "cascade"
  BY DEF UserStep, FirstAdmin, CreateUser, EditUser, DeleteUser, TouchUser, TouchUserTwice,
         WriteTouched, WriteUsers, CreateRole, EditRole, DeleteRole, CheckUsers, WriteRoles,
         Rewrites, Starts, Idle
<1>4. ASSUME NEW w, w.step \notin Binders, w.step \notin WithLists, Naming(w),
             roles' = roles, task' = [task EXCEPT ![t] = w]
      PROVE  Onward(t, {})
  BY <1>2, <1>3, <1>4, PlainOnward
<1>5. CASE FirstAdmin(t) \/ CreateUser(t) \/ EditUser(t) \/ DeleteUser(t) \/ TouchUser(t)
  <2>1. PICK list : Rewrites(t, list)
    BY <1>5 DEF FirstAdmin, CreateUser, EditUser, DeleteUser, TouchUser
  <2> DEFINE w == [step |-> "writeUsers", list |-> list]
  <2>2. roles' = roles
    BY <1>5 DEF FirstAdmin, CreateUser, EditUser, DeleteUser, TouchUser, userVars
  <2>3. task' = [task EXCEPT ![t] = w]
    BY <2>1 DEF Rewrites, Starts
  <2>4. w.step \notin Binders /\ w.step \notin WithLists /\ Naming(w)
    BY DEF Naming, Binders, WithLists
  <2> HIDE DEF w
  <2> QED BY <1>4, <2>2, <2>3, <2>4
<1>6. CASE TouchUserTwice(t)
  <2> DEFINE w == [step |-> "touchUsers", list |-> users]
  <2>1. task' = [task EXCEPT ![t] = w] /\ roles' = roles
    BY <1>6 DEF TouchUserTwice, Starts, userVars
  <2>2. w.step \notin Binders /\ w.step \notin WithLists /\ Naming(w)
    BY DEF Naming, Binders, WithLists
  <2> HIDE DEF w
  <2> QED BY <1>4, <2>1, <2>2
<1>7. CASE WriteTouched(t)
  <2>1. v \in [step : WithList, list : Lists]
    BY <1>7 DEF WriteTouched, IInv, GoodWork, WithList
  <2> DEFINE w == [v EXCEPT !.step = "writeUsers"]
  <2>2. task' = [task EXCEPT ![t] = w] /\ roles' = roles
    BY <1>7 DEF WriteTouched, Goes
  <2>3. w.step \notin Binders /\ w.step \notin WithLists /\ Naming(w)
    BY <2>1 DEF Naming, Binders, WithLists
  <2> HIDE DEF w
  <2> QED BY <1>4, <2>2, <2>3
<1>8. CASE WriteUsers(t)
  BY <1>4, <1>8, IdleNaming DEF WriteUsers, Ends, Goes
<1>9. ASSUME NEW w, Naming(w),
              task' = [task EXCEPT ![t] = w], roles' = roles,
              \A r \in References : Held(r[2]) => r[2] \notin Lacks(w)
       PROVE  Onward(t, {})
  BY <1>2, <1>3, <1>9, SteadyOnward
<1>10. CASE CreateRole(t) \/ EditRole(t)
  <2>1. PICK set : /\ roles \subseteq set
                   /\ task' = [task EXCEPT ![t] = [step |-> "writeRoles", set |-> set]]
    BY <1>10 DEF CreateRole, EditRole, Starts
  <2> DEFINE w == [step |-> "writeRoles", set |-> set]
  <2>2. Naming(w) /\ w.step = "writeRoles" /\ w.set = set
    BY DEF Naming, Binders
  <2>3. task' = [task EXCEPT ![t] = w]
    BY <2>1
  <2> HIDE DEF w
  <2>4. \A x \in There : x \notin Lacks(w)
    BY <1>1, <2>1, <2>2, LacksListed, WhereThere
  <2>5. \A x : Held(x) => x \notin Lacks(w)
    BY <2>4 DEF Held
  <2>6. roles' = roles
    BY <1>10 DEF CreateRole, EditRole, userVars
  <2> QED BY <1>9, <2>2, <2>3, <2>5, <2>6
<1>11. CASE DeleteRole(t)
  <2>1. PICK o \in roles : task' = [task EXCEPT ![t] =
               [step |-> "checkUsers", role |-> o, set |-> roles \ {o}]]
    BY <1>11 DEF DeleteRole, Starts
  <2> DEFINE w == [step |-> "checkUsers", role |-> o, set |-> roles \ {o}]
  <2>2. Naming(w) /\ w.step = "checkUsers" /\ w.role = o /\ w.set = roles \ {o}
    BY DEF Naming, Binders, IInv
  <2>3. task' = [task EXCEPT ![t] = w]
    BY <2>1
  <2> HIDE DEF w
  <2>4. \A x \in There : x \notin Lacks(w)
    BY <1>1, <2>1, <2>2, LacksListed, WhereThere
  <2>5. \A x : Held(x) => x \notin Lacks(w)
    BY <2>4 DEF Held
  <2>6. roles' = roles
    BY <1>11 DEF DeleteRole, userVars
  <2> QED BY <1>9, <2>2, <2>3, <2>5, <2>6
<1>12. CASE CheckUsers(t)
  <2>1. roles' = roles /\ v.step = "checkUsers" /\ v.role \in Roles
    BY <1>1, <1>12 DEF CheckUsers, Naming, userVars
  <2>2. CASE \E u \in UserIds : users[u] # NoUser /\ users[u].role = v.role
    BY <1>4, <1>12, <2>1, <2>2, IdleNaming DEF CheckUsers, Ends, Goes
  <2>3. CASE ~\E u \in UserIds : users[u] # NoUser /\ users[u].role = v.role
    <3> DEFINE w == [step |-> "writeRoles", set |-> v.set]
    <3>1. task' = [task EXCEPT ![t] = w]
      BY <1>12, <2>3 DEF CheckUsers, Goes
    <3>2. Naming(w) /\ w.step = "writeRoles" /\ w.set = v.set
      BY DEF Naming, Binders
    <3> HIDE DEF w
    <3>3. \A r \in References : r[2] # v.role
      <4>1. \A r \in refs \cup bindings : r[2] # v.role
        BY <1>1, <2>1, IdAssumption DEF DocumentsTyped
      <4>2. \A u \in Accounts : users[u].role # v.role
        BY <2>3 DEF Accounts
      <4> QED BY <4>1, <4>2 DEF References
    <3>4. Lacks(v) = Roles \ (v.set \cup {v.role}) /\ Lacks(w) = Roles \ v.set
      BY <2>1, <3>2, LacksListed
    <3>5. \A x : Held(x) => x \notin Lacks(v)
      BY <2>1 DEF Held, Renames
    <3>6. \A r \in References : Held(r[2]) => r[2] \notin Lacks(w)
      BY <3>3, <3>4, <3>5
    <3> QED BY <1>9, <2>1, <3>1, <3>2, <3>6
  <2> QED BY <2>2, <2>3
<1>13. CASE WriteRoles(t)
  <2>1. roles' = v.set /\ task' = [task EXCEPT ![t] = Idle] /\ v.step = "writeRoles"
    BY <1>13 DEF WriteRoles, Ends, Goes
  <2>2. Lacks(v) = Roles \ v.set /\ \A x : ~Renames(v, x)
    BY <2>1, LacksListed DEF Renames
  <2>3. ASSUME NEW x, Held(x) PROVE x \in There'
    <3>1. x \in There /\ x \notin Lacks(v)
      BY <2>2, <2>3 DEF Held
    <3> QED BY <1>2, <2>1, <2>2, <3>1 DEF There, IInv
  <2>4. Naming(Idle) /\ Lacks(Idle) = {} /\ \A x : ~Awaits(v, x)
    BY <1>3, IdleNaming, LacksNothing DEF Awaits
  <2> QED BY <1>2, <2>1, <2>3, <2>4 DEF Onward
<1> QED BY <1>5, <1>6, <1>7, <1>8, <1>10, <1>11, <1>12, <1>13 DEF UserStep

\* A request fails.
LEMMA FailsOnward ==
  ASSUME IInv, ReferencesInv, NEW t \in Tasks, Fail(t)
  PROVE  Onward(t, Forgotten(task[t]))
<1>1. /\ UNCHANGED <<instances, refs, profiles, bindings, roles>>
      /\ task' = [task EXCEPT ![t] = Idle]
  BY DEF Fail, modelVars, profileVars, userVars
<1>2. DocumentsTyped' /\ There' = There
  BY <1>1 DEF ReferencesInv, DocumentsTyped, There
<1>3. \A x : Awaits(task[t], x) => x \in Forgotten(task[t])
  BY DEF Awaits, Forgotten
<1>4. Naming(Idle) /\ Lacks(Idle) = {}
  BY IdleNaming, LacksNothing
<1> QED BY <1>1, <1>2, <1>3, <1>4 DEF Onward, Held

LEMMA ReferencesInductive == Spec => []ReferencesInv
<1>1. Init => ReferencesInv
  <2> SUFFICES ASSUME Init PROVE ReferencesInv
    OBVIOUS
  <2>1. DocumentsTyped
    BY ModelAssumption DEF Init, ModelsInit, ProfilesInit, DocumentsTyped, Bindings
  <2>2. \A t \in Tasks : task[t] = Idle
    BY DEF Init, TasksInit
  <2>3. Lacks(Idle) = {} /\ Naming(Idle)
    BY IdleNaming, LacksNothing
  <2>4. \A r \in References : r[2] \in There
    <3>1. \A u \in Accounts : users[u].role \in BuiltIn
      BY DEF Init, UsersInit, Accounts, BuiltIn
    <3>2. refs = {} /\ bindings = {}
      BY DEF Init, ModelsInit, ProfilesInit
    <3> QED BY <3>1, <3>2 DEF References, There
  <2> QED BY <2>1, <2>2, <2>3, <2>4 DEF ReferencesInv, Supported, Held
<1>2. IInv /\ ReferencesInv /\ [Next]_vars => ReferencesInv'
  <2> SUFFICES ASSUME IInv, ReferencesInv, [Next]_vars PROVE ReferencesInv'
    OBVIOUS
  <2>1. ASSUME NEW t \in Tasks, ModelStep(t), UNCHANGED <<profileVars, userVars>>,
               Loosens(Dropped(t))
        PROVE  ReferencesInv'
    BY <2>1, ModelsOnward
  <2>2. ASSUME NEW t \in Tasks, ProfileStep(t), UNCHANGED userVars, Loosens({})
        PROVE  ReferencesInv'
    BY <2>2, ProfilesOnward, OnwardKeeps
  <2>3. ASSUME NEW t \in Tasks, UserStep(t), UNCHANGED <<modelVars, profileVars>>, Loosens({})
        PROVE  ReferencesInv'
    BY <2>3, UsersOnward, OnwardKeeps
  <2>4. ASSUME NEW t \in Tasks, Fail(t), Loosens(Forgotten(task[t]))
        PROVE  ReferencesInv'
    BY <2>4, FailsOnward, OnwardKeeps
  <2>5. CASE UNCHANGED vars
    BY <2>5 DEF vars, taskVars, modelVars, profileVars, userVars, ReferencesInv, DocumentsTyped,
                References, Accounts, Supported, Held, There
  <2> QED BY <2>1, <2>2, <2>3, <2>4, <2>5 DEF Next
<1> QED BY <1>1, <1>2, Inductive, PTL DEF Spec

-----------------------------------------------------------------------------
(* The theorems.                                                            *)

\* Once somebody has been set up an administrator remains, and addresses stay
\* apart, for any number of requests in flight, failures included.
THEOREM AnAdminRemains == Spec => []AdminStays
<1>1. IInv => AdminStays
  BY DEF IInv, Good, Distinct, AdminStays
<1> QED BY <1>1, Inductive, PTL

\* Every instance has its connection whenever requests have not overlapped and
\* no update was cut in half: whatever the requests, and wherever one fails.
THEOREM EveryModelIsConnected == Spec => []BoundExists
<1>1. OrderlyInv => BoundExists
  <2> SUFFICES ASSUME OrderlyInv, Settled PROVE Resolves(connections, instances)
    BY DEF BoundExists, Resolves
  <2>1. PICK w : Only(w) /\ Fits(w)
    BY DEF OrderlyInv, Settled
  <2>2. w.step \notin Updating
    BY <2>1 DEF Only, Settled, Updating, Idle
  <2> QED BY <2>1, <2>2, Quiet DEF Fits, Updating
<1> QED BY <1>1, OrderlyInductive, PTL

\* A reference leads somewhere unless it was loose from the start or its target
\* was given up, for any documents and any number of overlapping requests, and
\* the profiles that are bound exist as long as requests do not overlap.
THEOREM ReferencesLeadSomewhere == Spec => []ReferencesResolve
<1>1. ReferencesInv /\ OrderlyInv => ReferencesResolve
  <2> SUFFICES ASSUME ReferencesInv, OrderlyInv PROVE ReferencesResolve
    OBVIOUS
  <2>1. \A r \in References \ loose : Supported(r[2])
    BY DEF ReferencesInv
  <2>2. orderly => \A b \in bindings : OfItsKind(b, profiles)
    BY DEF OrderlyInv, Fits, ProfileWork
  <2> QED BY <2>1, <2>2 DEF ReferencesResolve, Supported, Held, Awaits, OfItsKind
<1> QED BY <1>1, ReferencesInductive, OrderlyInductive, PTL

-----------------------------------------------------------------------------
(* Routers.  Everything it promises is a promise about one document.  The   *)
(* stored one is replaced by older ones, so the invariant is about every    *)
(* document there is, the copies of the clients included.                   *)

NamesIn(D) ==
  \A r, s \in Stored(D) : (D[s].kind \in Group(D[r].kind) /\ D[s].name = D[r].name) => r = s

\* Only orchestrators list candidates.
PlainIn(D) == \A r \in Stored(D) : D[r].kind # "orchestrator" => D[r].candidates = {}

ChainsIn(D) ==
  \A S \in (SUBSET Stored(D)) \ {{}} : \E r \in S : D[r].candidates \cap S = {}

\* W: the routers whose kind was changed.
SlugsIn(D, W) ==
  /\ \A r \in Of(D, "passthrough") \ W : D[r].slug # NoSlug
  /\ \A r, s \in Of(D, "passthrough") \ W : D[r].slug = D[s].slug => r = s

Sound(D, W) == D \in Documents /\ NamesIn(D) /\ PlainIn(D) /\ ChainsIn(D) /\ SlugsIn(D, W)

RoutersInv ==
  /\ RoutersTypeOK
  /\ Sound(routers, switched)
  /\ \A c \in Clients : older[c] # NoCopy => Sound(older[c], switched)

-----------------------------------------------------------------------------
(* Lemmas about one document.                                               *)

\* A document that has fewer routers, with the same kind, name, slug and
\* candidates, is as sound.
LEMMA Keeps ==
  ASSUME NEW D, NEW W, Sound(D, W), NEW E \in Documents, NEW V, W \subseteq V,
         Stored(E) \subseteq Stored(D),
         \A r \in Stored(E) : /\ E[r].kind = D[r].kind /\ E[r].name = D[r].name
                              /\ E[r].slug = D[r].slug /\ E[r].candidates = D[r].candidates
  PROVE  Sound(E, V)
<1>1. NamesIn(E) /\ PlainIn(E)
  BY DEF Sound, NamesIn, PlainIn
<1>2. ChainsIn(E)
  <2> SUFFICES ASSUME NEW S \in (SUBSET Stored(E)) \ {{}}
               PROVE  \E r \in S : E[r].candidates \cap S = {}
    BY DEF ChainsIn
  <2>1. PICK r \in S : D[r].candidates \cap S = {}
    BY DEF Sound, ChainsIn
  <2> QED BY <2>1
<1>3. SlugsIn(E, V)
  BY DEF Sound, SlugsIn, Of
<1> QED BY <1>1, <1>2, <1>3 DEF Sound

\* A router that is made or changed within the checks leaves the names apart
\* and the chains open.
LEMMA Changed ==
  ASSUME NEW D, D \in Documents, NamesIn(D), PlainIn(D), ChainsIn(D),
         NEW r \in RouterIds, NEW n \in Router,
         ~ \E s \in Stored(D) \ {r} : D[s].kind \in Group(n.kind) /\ D[s].name = n.name,
         n.kind # "orchestrator" => n.candidates = {},
         n.kind = "orchestrator" => r \notin n.candidates /\ n.candidates \subseteq Of(D, "router")
  PROVE  LET E == [D EXCEPT ![r] = n]
         IN  E \in Documents /\ NamesIn(E) /\ PlainIn(E) /\ ChainsIn(E)
<1> DEFINE E == [D EXCEPT ![r] = n]
<1>1. E \in Documents /\ E[r] = n /\ \A s \in RouterIds \ {r} : E[s] = D[s]
  BY DEF Documents
<1>2. r \in Stored(E) /\ Stored(E) \subseteq Stored(D) \cup {r}
  BY <1>1, RouterAssumption DEF Stored
<1> HIDE DEF E
<1>3. NamesIn(E)
  <2> SUFFICES ASSUME NEW a \in Stored(E), NEW b \in Stored(E),
                      E[b].kind \in Group(E[a].kind), E[b].name = E[a].name, a # b
               PROVE  FALSE
    BY DEF NamesIn
  <2>1. E[a] \in Router /\ E[b] \in Router
    BY <1>1 DEF Stored, Documents
  <2>2. E[a].kind \in Group(E[b].kind)
    BY <2>1 DEF Group, Router, Kinds
  <2>3. CASE a = r
    BY <2>3, <1>1, <1>2 DEF Stored
  <2>4. CASE b = r
    BY <2>4, <2>2, <1>1, <1>2 DEF Stored
  <2>5. CASE a # r /\ b # r
    BY <2>5, <1>1, <1>2 DEF NamesIn, Stored
  <2> QED BY <2>3, <2>4, <2>5
<1>4. PlainIn(E)
  BY <1>1, <1>2 DEF PlainIn, Stored
<1>5. ChainsIn(E)
  <2> SUFFICES ASSUME NEW S \in (SUBSET Stored(E)) \ {{}}
               PROVE  \E s \in S : E[s].candidates \cap S = {}
    BY DEF ChainsIn
  <2>1. CASE r \notin S
    <3>1. S \in (SUBSET Stored(D)) \ {{}} /\ \A s \in S : s \in RouterIds \ {r}
      BY <2>1, <1>2 DEF Stored
    <3>2. PICK s \in S : D[s].candidates \cap S = {}
      BY <3>1 DEF ChainsIn
    <3> QED BY <3>1, <3>2, <1>1
  <2>2. CASE r \in S /\ n.candidates \cap S = {}
    BY <2>2, <1>1
  <2>3. CASE n.candidates \cap S # {}
    <3>1. PICK s \in S : s \in n.candidates
      BY <2>3
    <3>2. n.kind = "orchestrator" /\ s # r /\ s \in Of(D, "router")
      BY <3>1
    <3>3. E[s] = D[s] /\ D[s].candidates = {}
      BY <3>2, <1>1 DEF Of, Stored, PlainIn
    <3> QED BY <3>3
  <2> QED BY <2>1, <2>2, <2>3
<1> QED BY <1>1, <1>3, <1>4, <1>5 DEF E

-----------------------------------------------------------------------------
(* The slug of a new passthrough.                                           *)

Taken(D) == {D[r].slug : r \in Of(D, "passthrough")}

LEMMA TakenIsFinite ==
  ASSUME NEW D \in Documents
  PROVE  IsFiniteSet(Taken(D))
<1> DEFINE P == Of(D, "passthrough")
           f == [r \in P |-> D[r].slug]
<1>1. IsFiniteSet(P)
  BY FS_Subset, RouterAssumption DEF Of, Stored
<1>2. f \in Surjection(P, Taken(D))
  BY DEF Surjection, Taken
<1> QED BY <1>1, <1>2, FS_Surjection

\* Among one more number than there are slugs taken, one is free, and with it
\* the least of those: suggestRouterSlug ends.
LEMMA FreshSlugIsFree ==
  ASSUME routers \in Documents, NEW b \in Bases
  PROVE  FreshSlug(b) \in Slugs /\ FreshSlug(b) \notin Taken(routers)
<1> DEFINE T == Taken(routers)
           N == 1..(Cardinality(T) + 1)
           free == {n \in N : <<b, n>> \notin T}
<1>1. IsFiniteSet(T) /\ Cardinality(T) \in Nat
  BY TakenIsFinite, FS_CardinalityType
<1>2. free # {}
  <2> SUFFICES ASSUME free = {} PROVE FALSE
    OBVIOUS
  <2> DEFINE f == [n \in N |-> <<b, n>>]
  <2>1. f \in [N -> T]
    OBVIOUS
  <2>2. IsFiniteSet(N) /\ Cardinality(N) = Cardinality(T) + 1
    BY <1>1, FS_Interval
  <2>3. \E x, y \in N : x # y /\ f[x] = f[y]
    <3> HIDE DEF N, T, f
    <3> QED BY <2>1, <2>2, <1>1, FS_PigeonHole
  <2> QED BY <2>3
<1>3. PICK n \in free : \A k \in free : ~ k < n
  <2>1. free \subseteq Nat
    BY <1>1
  <2> DEFINE less == {p \in Nat \X Nat : p[1] < p[2]}
  <2>2. IsWellFoundedOn(less, Nat)
    BY NatLessThanWellFounded DEF OpToRel
  <2>3. PICK n \in free : \A k \in free : ~ (<<k, n>> \in less)
    <3> HIDE DEF free, less
    <3> QED BY <2>1, <2>2, <1>2, WFMin
  <2> QED BY <2>1, <2>3
<1>4. n \in N /\ <<b, n>> \notin T /\ \A k \in 1..(n - 1) : <<b, k>> \in T
  BY <1>1, <1>3
<1>5. PICK m \in N : FreshSlug(b) = <<b, m>> /\ <<b, m>> \notin T
  BY <1>4 DEF FreshSlug, Taken
<1> QED BY <1>5, <1>1 DEF Slugs

-----------------------------------------------------------------------------
(* The steps.                                                               *)

\* The copies stay sound when more routers change their kind.
LEMMA CopiesKeep ==
  ASSUME NEW W, NEW V, W \subseteq V,
         \A c \in Clients : older[c] # NoCopy => Sound(older[c], W)
  PROVE  \A c \in Clients : older[c] # NoCopy => Sound(older[c], V)
<1> SUFFICES ASSUME NEW c \in Clients, older[c] # NoCopy PROVE Sound(older[c], V)
  OBVIOUS
<1>1. older[c] \in Documents
  BY DEF Sound
<1> QED BY <1>1, Keeps

LEMMA CreateSound ==
  ASSUME RoutersTypeOK, Sound(routers, switched), NEW r \in RouterIds, Create(r)
  PROVE  Sound(routers, switched)'
<1>1. PICK kind \in Kinds, name \in Names, sent \in 0..2, targets \in BOOLEAN,
           cs \in SUBSET Stored(routers) :
        LET passes == IF sent = 0 THEN 1 ELSE sent IN
        /\ ~Namesake(r, kind, name)
        /\ kind = "orchestrator" => ValidCandidates(r, cs)
        /\ kind = "passthrough" => passes = 1
        /\ routers' = [routers EXCEPT ![r] =
             [kind |-> kind, name |-> name,
              slug |-> IF kind = "passthrough" THEN FreshSlug(Base[name]) ELSE NoSlug,
              passes |-> IF kind = "passthrough" THEN passes ELSE 0,
              targets |-> targets,
              candidates |-> IF kind = "orchestrator" THEN cs ELSE {},
              tokens |-> IF kind # "passthrough" \/ targets THEN 1 ELSE 0]]
  BY ZenonT(30) DEF Create
<1> DEFINE slug == IF kind = "passthrough" THEN FreshSlug(Base[name]) ELSE NoSlug
           passes == IF kind = "passthrough" THEN (IF sent = 0 THEN 1 ELSE sent) ELSE 0
           tokens == IF kind # "passthrough" \/ targets THEN 1 ELSE 0
           n == [kind |-> kind, name |-> name, slug |-> slug, passes |-> passes,
                 targets |-> targets, candidates |-> IF kind = "orchestrator" THEN cs ELSE {},
                 tokens |-> tokens]
<1>2. routers \in Documents /\ Base[name] \in Bases
  BY RouterAssumption DEF RoutersTypeOK
<1>3. kind = "passthrough" => slug \in Slugs /\ slug \notin Taken(routers)
  BY <1>1, <1>2, FreshSlugIsFree
<1>4. slug \in Slugs \cup {NoSlug}
  BY <1>1, <1>3
<1>5. n \in Router
  <2>1. passes \in Nat /\ tokens \in Nat
    OBVIOUS
  <2> HIDE DEF passes, tokens, slug
  <2> QED BY <1>4, <2>1 DEF Router, Stored
<1>6. n.kind = kind /\ n.name = name /\ n.slug = slug
      /\ n.candidates = IF kind = "orchestrator" THEN cs ELSE {}
  OBVIOUS
<1>7. routers' = [routers EXCEPT ![r] = n]
  BY <1>1
<1> HIDE DEF n
<1>8. routers' \in Documents /\ NamesIn(routers') /\ PlainIn(routers') /\ ChainsIn(routers')
  <2>1. ~ \E s \in Stored(routers) \ {r} :
            routers[s].kind \in Group(n.kind) /\ routers[s].name = n.name
    BY <1>1, <1>6 DEF Namesake
  <2>2. n.kind = "orchestrator" => r \notin n.candidates /\ n.candidates \subseteq Of(routers, "router")
    BY <1>1, <1>6 DEF ValidCandidates
  <2> QED BY <2>1, <2>2, <1>2, <1>5, <1>6, <1>7, Changed DEF Sound
<1>9. SlugsIn(routers', switched)
  <2>1. \A s \in Of(routers', "passthrough") :
          IF s = r THEN routers'[s].slug = slug /\ kind = "passthrough"
          ELSE s \in Of(routers, "passthrough") /\ routers'[s] = routers[s]
    BY <1>2, <1>6, <1>7, RouterAssumption DEF Of, Stored, Documents
  <2>2. \A s \in Of(routers, "passthrough") : routers[s].slug \in Taken(routers)
    BY DEF Taken
  <2> QED BY <2>1, <2>2, <1>3, RouterAssumption DEF Sound, SlugsIn
<1> QED BY <1>8, <1>9 DEF Sound, Create

LEMMA UpdateSound ==
  ASSUME RoutersTypeOK, Sound(routers, switched), NEW r \in RouterIds, Update(r)
  PROVE  Sound(routers, switched)' /\ switched \subseteq switched'
<1>1. PICK kind \in Kinds, name \in Names, sent \in 0..2, targets \in BOOLEAN,
           cs \in (SUBSET Stored(routers)) \cup {routers[r].candidates} :
        /\ ~Namesake(r, kind, name)
        /\ kind = "orchestrator" => ValidCandidates(r, cs)
        /\ routers' = [routers EXCEPT ![r] = Merged(routers[r], kind, name, sent, targets, cs)]
        /\ switched' = IF kind = routers[r].kind THEN switched ELSE switched \cup {r}
  BY DEF Update
<1> DEFINE n == Merged(routers[r], kind, name, sent, targets, cs)
<1>2. routers \in Documents /\ routers[r] \in Router /\ r \in Stored(routers)
  BY DEF RoutersTypeOK, Documents, Update, Stored
<1>3. /\ n \in Router /\ n.kind = kind /\ n.name = name /\ n.slug = routers[r].slug
      /\ n.candidates = IF kind = "orchestrator" THEN cs ELSE {}
  <2>1. cs \subseteq RouterIds
    BY <1>2 DEF Stored, Router
  <2>2. (IF kind = "passthrough" THEN sent ELSE 0) \in Nat
    OBVIOUS
  <2>3. TokensAfter(routers[r].tokens, kind, targets) \in Nat
    BY <1>2 DEF TokensAfter, Router
  <2> QED BY <1>2, <2>1, <2>2, <2>3 DEF Merged, Router
<1>4. routers' = [routers EXCEPT ![r] = n]
  BY <1>1
<1> HIDE DEF n
<1>5. routers' \in Documents /\ NamesIn(routers') /\ PlainIn(routers') /\ ChainsIn(routers')
  <2>1. ~ \E s \in Stored(routers) \ {r} :
            routers[s].kind \in Group(n.kind) /\ routers[s].name = n.name
    BY <1>1, <1>3 DEF Namesake
  <2>2. n.kind = "orchestrator" => r \notin n.candidates /\ n.candidates \subseteq Of(routers, "router")
    BY <1>1, <1>3 DEF ValidCandidates
  <2> QED BY <2>1, <2>2, <1>2, <1>3, <1>4, Changed DEF Sound
<1>6. SlugsIn(routers', switched')
  <2>1. \A s \in Of(routers', "passthrough") \ switched' :
          s \in Of(routers, "passthrough") \ switched /\ routers'[s].slug = routers[s].slug
    BY <1>1, <1>2, <1>3, <1>4, RouterAssumption DEF Of, Stored, Documents
  <2> QED BY <2>1 DEF Sound, SlugsIn
<1> QED BY <1>1, <1>5, <1>6 DEF Sound

LEMMA OthersSound ==
  ASSUME RoutersTypeOK, Sound(routers, switched), NEW r \in RouterIds,
         Delete(r) \/ AddToken(r) \/ DeleteToken(r)
  PROVE  Sound(routers, switched)'
<1>1. routers \in Documents /\ routers[r] \in Router
  BY DEF RoutersTypeOK, Documents, Delete, AddToken, DeleteToken
<1>2. CASE Delete(r)
  <2>1. /\ routers' \in Documents /\ Stored(routers') \subseteq Stored(routers)
        /\ \A s \in Stored(routers') : routers'[s] = routers[s]
    BY <1>1, <1>2 DEF Delete, Documents, Stored
  <2>2. Sound(routers', switched)
    BY <2>1, Keeps
  <2> QED BY <1>2, <2>2 DEF Delete
<1>3. ASSUME NEW k \in Nat, routers' = [routers EXCEPT ![r].tokens = k], switched' = switched
      PROVE  Sound(routers, switched)'
  <2> DEFINE n == [routers[r] EXCEPT !.tokens = k]
  <2>1. /\ n \in Router /\ n.kind = routers[r].kind /\ n.name = routers[r].name
        /\ n.slug = routers[r].slug /\ n.candidates = routers[r].candidates
    BY <1>1, <1>3 DEF Router
  <2>2. routers' = [routers EXCEPT ![r] = n]
    BY <1>3
  <2> HIDE DEF n
  <2>3. /\ routers' \in Documents
        /\ \A s \in RouterIds : routers'[s] = IF s = r THEN n ELSE routers[s]
    BY <1>1, <2>1, <2>2 DEF Documents
  <2>4. Stored(routers') \subseteq Stored(routers)
    BY <1>1, <2>3, RouterAssumption DEF Stored
  <2>5. \A s \in Stored(routers') :
          /\ routers'[s].kind = routers[s].kind /\ routers'[s].name = routers[s].name
          /\ routers'[s].slug = routers[s].slug
          /\ routers'[s].candidates = routers[s].candidates
    BY <2>1, <2>3 DEF Stored
  <2>6. Sound(routers', switched)
    BY <2>3, <2>4, <2>5, Keeps
  <2> QED BY <1>3, <2>6
<1>4. CASE AddToken(r)
  <2>1. routers[r].tokens + 1 \in Nat
    BY <1>1 DEF Router
  <2> QED BY <1>3, <1>4, <2>1 DEF AddToken
<1>5. CASE DeleteToken(r)
  <2>1. routers[r].tokens - 1 \in Nat
    BY <1>1, <1>5 DEF Router, DeleteToken
  <2> QED BY <1>3, <1>5, <2>1 DEF DeleteToken
<1> QED BY <1>2, <1>4, <1>5

\* The edits of the handlers keep the invariant.
LEMMA EditSound ==
  ASSUME RoutersInv, NEW r \in RouterIds,
         Create(r) \/ Update(r) \/ Delete(r) \/ AddToken(r) \/ DeleteToken(r)
  PROVE  RoutersInv'
<1>1. Sound(routers, switched)' /\ switched \subseteq switched'
  BY CreateSound, UpdateSound, OthersSound DEF RoutersInv, Create, Delete, AddToken, DeleteToken
<1>2. UNCHANGED older
  BY DEF Create, Update, Delete, AddToken, DeleteToken
<1>3. \A c \in Clients : older[c] # NoCopy => Sound(older[c], switched')
  BY <1>1, CopiesKeep DEF RoutersInv
<1>4. RoutersTypeOK'
  <2>1. given' \subseteq RouterIds /\ switched' \subseteq RouterIds /\ edits' \in Nat
    BY DEF RoutersInv, RoutersTypeOK, Create, Update, Delete, AddToken, DeleteToken, Edited
  <2> QED BY <1>1, <1>2, <2>1 DEF RoutersInv, RoutersTypeOK, Sound
<1> QED BY <1>1, <1>2, <1>3, <1>4 DEF RoutersInv

\* So does the authentication beside them, whose older was the document once.
LEMMA TouchSound ==
  ASSUME RoutersInv, NEW c \in Clients, ReadToTouch(c) \/ WriteOlderCopy(c) \/ TouchLost(c)
  PROVE  RoutersInv'
<1>1. Sound(routers', switched)
  BY DEF RoutersInv, ReadToTouch, WriteOlderCopy, TouchLost
<1>2. \A d \in Clients : older'[d] # NoCopy => Sound(older'[d], switched)
  BY DEF RoutersInv, RoutersTypeOK, ReadToTouch, WriteOlderCopy, TouchLost
<1>3. RoutersTypeOK'
  BY DEF RoutersInv, RoutersTypeOK, ReadToTouch, WriteOlderCopy, TouchLost
<1> QED BY <1>1, <1>2, <1>3 DEF RoutersInv, ReadToTouch, WriteOlderCopy, TouchLost

LEMMA RoutersInductive == RoutersSpec => []RoutersInv
<1>1. RoutersInit => RoutersInv
  <2> SUFFICES ASSUME RoutersInit PROVE RoutersInv
    OBVIOUS
  <2>1. Stored(routers) = {} /\ routers \in Documents
    BY DEF RoutersInit, Stored, Documents
  <2>2. Sound(routers, switched)
    BY <2>1 DEF Sound, NamesIn, PlainIn, ChainsIn, SlugsIn, Of
  <2> QED BY <2>1, <2>2 DEF RoutersInit, RoutersInv, RoutersTypeOK
<1>2. RoutersInv /\ [RoutersNext]_routersVars => RoutersInv'
  <2> SUFFICES ASSUME RoutersInv, [RoutersNext]_routersVars PROVE RoutersInv'
    OBVIOUS
  <2>1. CASE RoutersNext
    BY <2>1, EditSound, TouchSound DEF RoutersNext
  <2>2. CASE UNCHANGED routersVars
    BY <2>2 DEF routersVars, RoutersInv, RoutersTypeOK
  <2> QED BY <2>1, <2>2
<1> QED BY <1>1, <1>2, PTL DEF RoutersSpec

-----------------------------------------------------------------------------
(* The theorems.                                                            *)

\* routers.json, the copies of it and the histories keep their types.
THEOREM RoutersTypeCorrect == RoutersSpec => []RoutersTypeOK
<1>1. RoutersInv => RoutersTypeOK
  BY DEF RoutersInv
<1> QED BY <1>1, RoutersInductive, PTL

\* Names stay apart within their group, for any number of routers and of
\* clients that write older documents back.
THEOREM NamesStayUnique == RoutersSpec => []NamesUnique
<1>1. RoutersInv => NamesUnique
  BY DEF RoutersInv, Sound, NamesIn, NamesUnique
<1> QED BY <1>1, RoutersInductive, PTL

\* Orchestrators never list each other in a circle.
THEOREM OrchestratorsStayAcyclic == RoutersSpec => []NoCircle
<1>1. RoutersInv => NoCircle
  BY DEF RoutersInv, Sound, ChainsIn, NoCircle
<1> QED BY <1>1, RoutersInductive, PTL

\* A slug leads to one passthrough of those that were never another kind.
THEOREM SlugsStayUnique == RoutersSpec => []SlugsUnique
<1>1. RoutersInv => SlugsUnique
  BY DEF RoutersInv, Sound, SlugsIn, SlugsUnique
<1> QED BY <1>1, RoutersInductive, PTL
=============================================================================
