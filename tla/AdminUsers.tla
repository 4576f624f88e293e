------------------------------ MODULE AdminUsers ------------------------------
(***************************************************************************)
(* The users and the roles of the administration API.  Every handler that  *)
(* changes users.json, a login among them, reads it, checks what it read,  *)
(* hashes a password or reads the roles, and writes the list it has made   *)
(* of what it read.                                                        *)
(***************************************************************************)
EXTENDS AdminTasks

CONSTANTS
  UserIds,
  Emails,
  Roles,           \* ids of custom roles
  NoUser

BuiltIn == {"admin", "viewer"}
Account == [email : Emails, role : BuiltIn \cup Roles]

ASSUME UserAssumption == NoUser \notin Account

VARIABLES users, roles

userVars == <<users, roles>>

Admins(list)    == {u \in UserIds : list[u] # NoUser /\ list[u].role = "admin"}
Addresses(list) == {list[u].email : u \in {v \in UserIds : list[v] # NoUser}}
LastAdmin(list, u) == Admins(list) = {u}

Rewrites(t, list) == Starts(t, [step |-> "writeUsers", list |-> list])

-----------------------------------------------------------------------------
\* POST /api/setup/first-admin.
FirstAdmin(t) ==
  /\ Admins(users) = {}
  /\ \E u \in UserIds, e \in Emails :
       /\ users[u] = NoUser
       /\ Rewrites(t, [users EXCEPT ![u] = [email |-> e, role |-> "admin"]])
  /\ UNCHANGED userVars

\* POST /api/users, by a user.  The role may be one nobody made: it gives no
\* permission then, and is stored.
CreateUser(t) ==
  /\ \E v \in UserIds : users[v] # NoUser
  /\ \E u \in UserIds, e \in Emails \ Addresses(users), r \in BuiltIn \cup Roles :
       /\ users[u] = NoUser
       /\ Rewrites(t, [users EXCEPT ![u] = [email |-> e, role |-> r]])
  /\ UNCHANGED userVars

EditUserFreely(t) ==                     \* the role of the last admin changes
  /\ \E u \in UserIds, r \in BuiltIn \cup Roles :
       /\ users[u] # NoUser
       /\ Rewrites(t, [users EXCEPT ![u].role = r])
  /\ UNCHANGED userVars

\* PUT /api/users/:id, again with any role, and PUT /api/me.
EditUser(t) ==
  /\ \E u \in UserIds, e \in Emails, r \in BuiltIn \cup Roles :
       /\ users[u] # NoUser
       /\ e = users[u].email \/ e \notin Addresses(users)
       /\ r # "admin" => ~LastAdmin(users, u)
       /\ Rewrites(t, [users EXCEPT ![u] = [email |-> e, role |-> r]])
  /\ UNCHANGED userVars

DeleteUser(t) ==
  /\ \E u \in UserIds :
       /\ users[u] # NoUser /\ ~LastAdmin(users, u)
       /\ Rewrites(t, [users EXCEPT ![u] = NoUser])
  /\ UNCHANGED userVars

\* A login, a refresh, a second factor, a language: the list is written back
\* with something else changed in one user, by some of them twice.
TouchUser(t) ==
  /\ \E u \in UserIds : users[u] # NoUser
  /\ Rewrites(t, users)
  /\ UNCHANGED userVars

TouchUserTwice(t) ==
  /\ \E u \in UserIds : users[u] # NoUser
  /\ Starts(t, [step |-> "touchUsers", list |-> users])
  /\ UNCHANGED userVars

WriteTouched(t) ==
  /\ task[t].step = "touchUsers"
  /\ users' = task[t].list
  /\ Goes(t, [task[t] EXCEPT !.step = "writeUsers"])
  /\ UNCHANGED roles

WriteUsers(t) ==
  /\ task[t].step = "writeUsers"
  /\ users' = task[t].list
  /\ Ends(t)
  /\ UNCHANGED roles

-----------------------------------------------------------------------------
\* /api/roles.

CreateRole(t) ==
  /\ \E r \in Roles \ roles : Starts(t, [step |-> "writeRoles", set |-> roles \cup {r}])
  /\ UNCHANGED userVars

EditRole(t) ==
  /\ roles # {}
  /\ Starts(t, [step |-> "writeRoles", set |-> roles])
  /\ UNCHANGED userVars

DeleteRole(t) ==
  /\ \E r \in roles : Starts(t, [step |-> "checkUsers", role |-> r, set |-> roles \ {r}])
  /\ UNCHANGED userVars

CheckUsers(t) ==
  /\ task[t].step = "checkUsers"
  /\ IF \E u \in UserIds : users[u] # NoUser /\ users[u].role = task[t].role THEN Ends(t)
     ELSE Goes(t, [step |-> "writeRoles", set |-> task[t].set])
  /\ UNCHANGED userVars

WriteRoles(t) ==
  /\ task[t].step = "writeRoles"
  /\ roles' = task[t].set
  /\ Ends(t)
  /\ UNCHANGED users

\* Nobody has been set up, or an administrator has; roles may have been made.
UsersInit ==
  /\ \/ users = [u \in UserIds |-> NoUser]
     \/ \E a \in UserIds, e \in Emails :
          users = [u \in UserIds |-> IF u = a THEN [email |-> e, role |-> "admin"] ELSE NoUser]
  /\ roles \in SUBSET Roles

UserStep(t) ==
  \/ FirstAdmin(t) \/ CreateUser(t) \/ EditUser(t) \/ DeleteUser(t)
  \/ TouchUser(t) \/ TouchUserTwice(t) \/ WriteTouched(t) \/ WriteUsers(t)
  \/ CreateRole(t) \/ EditRole(t) \/ DeleteRole(t) \/ CheckUsers(t) \/ WriteRoles(t)

-----------------------------------------------------------------------------
\* Properties.

\* An administrator remains, and no two users have one address: once somebody
\* has been set up, whatever requests overlap, fail or overwrite each other.
AdminStays ==
  /\ (\A u \in UserIds : users[u] = NoUser) \/ Admins(users) # {}
  /\ \A u, v \in UserIds :
       (users[u] # NoUser /\ users[v] # NoUser /\ users[u].email = users[v].email) => u = v
=============================================================================
