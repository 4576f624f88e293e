------------------------------- MODULE AdminApi -------------------------------
(***************************************************************************)
(* The administration API: requests about models, profiles and users at    *)
(* once, any of which may fail at any of its awaits.                       *)
(***************************************************************************)
EXTENDS AdminProfiles, AdminUsers

\* What refers to another document does so by an id of that document's.
ASSUME IdAssumption ==
  /\ Models \cap Profiles = {} /\ Models \cap (BuiltIn \cup Roles) = {}
  /\ Profiles \cap (BuiltIn \cup Roles) = {} /\ BuiltIn \cap Roles = {}

VARIABLE loose     \* the references nobody promises to lead anywhere (history)

vars == <<taskVars, modelVars, profileVars, userVars, loose>>

-----------------------------------------------------------------------------
\* References between the documents: of routers and tokens to models, of
\* routers to profiles, of users to roles.

Accounts   == {u \in UserIds : users[u] # NoUser}
References == refs \cup bindings \cup {<<u, users[u].role>> : u \in Accounts}

\* What can be referred to, and is there.
There == {m \in Models : instances[m] # NoModel} \cup profiles \cup roles \cup BuiltIn

Binders == {"bind", "addConnection", "addInstance", "checkRouters", "removeInstance",
            "rebind", "changeConnections", "changeInstance"}

\* What is not in the document that a request is about to write, because it
\* has been removed from it or came after the request had read it.
Lacks(w) ==
  CASE w.step \in Binders ->
         {m \in Models : w.bound[m] = NoModel \/ (w.step = "removeInstance" /\ m = w.model)}
    [] w.step = "writeProfiles" -> Profiles \ w.set
    [] w.step = "checkBindings" -> Profiles \ (w.set \cup {w.profile})
    [] w.step = "writeRoles"    -> Roles \ w.set
    [] w.step = "checkUsers"    -> Roles \ (w.set \cup {w.role})
    [] OTHER -> {}

\* There, and in every such document.
Sure == There \ UNION {Lacks(task[t]) : t \in Tasks}

\* A reference is loose if it led nowhere sure when it was written, or if its
\* target was given up; it is no longer when its target is surely there.
Loosens(givenUp) ==
  loose' = {r \in References' :
              r[2] \notin Sure' /\ (r \in loose \/ r \notin References \/ r[2] \in givenUp)}

\* DELETE /api/instances asks nobody.
Dropped(t) ==
  {m \in Models : DropInstance(t) /\ instances[m] # NoModel /\ task'[t].bound[m] = NoModel}

\* A rename that ends before it has told the routers forgets the old name.
Forgotten(w) == IF w.step = "cascade" THEN {w.model} ELSE {}

-----------------------------------------------------------------------------

\* A write or a read of the request fails, or the process dies; a crash is a
\* failure of every request there is.
Fail(t) ==
  /\ task[t] # Idle
  /\ task' = [task EXCEPT ![t] = Idle]
  /\ orderly' = (orderly /\ ~Halved(task[t]))
  /\ UNCHANGED <<requests, modelVars, profileVars, userVars>>

Init == TasksInit /\ ModelsInit /\ ProfilesInit /\ UsersInit /\ loose = {}

Next ==
  \E t \in Tasks :
    \/ ModelStep(t) /\ UNCHANGED <<profileVars, userVars>> /\ Loosens(Dropped(t))
    \/ ProfileStep(t) /\ UNCHANGED userVars /\ Loosens({})
    \/ UserStep(t) /\ UNCHANGED <<modelVars, profileVars>> /\ Loosens({})
    \/ Fail(t) /\ Loosens(Forgotten(task[t]))

Spec == Init /\ [][Next]_vars

-----------------------------------------------------------------------------
Bindings == [Models -> ConnIds \cup {NoModel}]
Counts   == [ConnIds -> Nat]
Lists    == [UserIds -> Account \cup {NoUser}]

Work ==
  {Idle}
  \cup [step : {"bind"}, model : Models, to : ConnIds \cup {Own}, bound : Bindings]
  \cup [step : {"addConnection"}, model : Models, bound : Bindings, copy : Counts]
  \cup [step : {"addInstance", "checkRouters", "removeInstance"}, model : Models,
        bound : Bindings]
  \cup [step : {"rebind"}, model : Models, new : Models, to : ConnIds \cup {Own},
        keyed : BOOLEAN, bound : Bindings]
  \cup [step : {"changeConnections"}, model : Models, new : Models, changed : BOOLEAN,
        bound : Bindings, copy : Counts]
  \cup [step : {"changeInstance"}, model : Models, new : Models, changed : BOOLEAN,
        bound : Bindings]
  \cup [step : {"cascade"}, model : Models, new : Models]
  \cup [step : {"readOrphan"}, model : Models]
  \cup [step : {"writeConnections"}, copy : Counts]
  \cup [step : {"checkInstances"}, conn : ConnIds, copy : Counts]
  \cup [step : {"writeProfiles"}, set : SUBSET Profiles]
  \cup [step : {"checkBindings"}, profile : Profiles, set : SUBSET Profiles]
  \cup [step : {"assign"}, asked : SUBSET (ProfileKinds \X Profiles),
        refs : SUBSET (Places \X Models), bindings : SUBSET (ProfileKinds \X Profiles)]
  \cup [step : {"touchUsers", "writeUsers"}, list : Lists]
  \cup [step : {"writeRoles"}, set : SUBSET Roles]
  \cup [step : {"checkUsers"}, role : Roles, set : SUBSET Roles]

TypeOK ==
  /\ requests \in 0..MaxRequests /\ orderly \in BOOLEAN
  /\ connections \in Counts /\ instances \in Bindings /\ refs \subseteq Places \X Models
  /\ profiles \subseteq Profiles /\ bindings \subseteq ProfileKinds \X Profiles
  /\ users \in Lists /\ roles \subseteq Roles /\ loose \subseteq References
  /\ task \in [Tasks -> Work]

\* A deletion leaves nothing behind that refers to what it deletes, and a
\* rename takes the references along, also when requests overlap, write back
\* older documents or fail.  A reference leads nowhere only if its target was
\* not there, or not in a document some request was about to write, when the
\* reference was written (nobody checks the name of a model or of a role, and
\* a deletion checks the references before it writes), if its target went over
\* /api/instances, or if a rename was cut in two.  The name of a profile is
\* checked: while requests do not overlap, every binding leads to a profile of
\* the kind it is bound as.
ReferencesResolve ==
  /\ \A r \in References \ loose :
       r[2] \in There \/ \E t \in Tasks : task[t].step = "cascade" /\ task[t].model = r[2]
  /\ orderly => \A b \in bindings : b[2] \in profiles /\ KindOf[b[2]] = b[1]
=============================================================================
