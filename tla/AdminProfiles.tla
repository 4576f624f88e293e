---------------------------- MODULE AdminProfiles ----------------------------
(***************************************************************************)
(* The profiles of the administration API and the routers bound to them    *)
(* (api/profiles.ts).  A router binds at most one profile of each kind.    *)
(* Neither document is changed under the lock: an assignment writes back   *)
(* all of routers.json, the references to models included.                 *)
(*                                                                         *)
(* Only the profiles somebody made are here; the built-in ones always      *)
(* exist and never change.                                                 *)
(***************************************************************************)
EXTENDS AdminModels

CONSTANTS
  Profiles,        \* ids of profiles, each given to one profile only
  ProfileKinds,
  KindOf           \* the kind a profile is made with and keeps

ASSUME ProfileAssumption == KindOf \in [Profiles -> ProfileKinds]

VARIABLES
  profiles,        \* the stored profiles
  bindings         \* <<kind, profile>>: some router binds it as that kind

profileVars == <<profiles, bindings>>

-----------------------------------------------------------------------------
\* POST /api/profiles, and /clone.
CreateProfile(t) ==
  /\ \E p \in Profiles \ profiles :
       Starts(t, [step |-> "writeProfiles", set |-> profiles \cup {p}])
  /\ UNCHANGED <<modelVars, profileVars>>

\* PATCH: what is in the profile changes, its kind does not.
EditProfile(t) ==
  /\ profiles # {}
  /\ Starts(t, [step |-> "writeProfiles", set |-> profiles])
  /\ UNCHANGED <<modelVars, profileVars>>

DeleteProfile(t) ==
  /\ \E p \in profiles :
       Starts(t, [step |-> "checkBindings", profile |-> p, set |-> profiles \ {p}])
  /\ UNCHANGED <<modelVars, profileVars>>

\* Bound as any kind, by any router, it stays.
CheckBindings(t) ==
  LET w == task[t] IN
  /\ w.step = "checkBindings"
  /\ IF \E k \in ProfileKinds : <<k, w.profile>> \in bindings THEN Ends(t)
     ELSE Goes(t, [step |-> "writeProfiles", set |-> w.set])
  /\ UNCHANGED <<modelVars, profileVars>>

WriteProfiles(t) ==
  /\ task[t].step = "writeProfiles"
  /\ profiles' = task[t].set
  /\ Ends(t)
  /\ UNCHANGED <<modelVars, bindings>>

-----------------------------------------------------------------------------
\* PUT /api/routers/:id/profiles.  The router read loses the bindings that are
\* cleared or replaced, unless another router has them too.
AssignProfiles(t) ==
  /\ \E asked \in SUBSET (ProfileKinds \X Profiles), kept \in SUBSET bindings :
       /\ \A a, b \in asked : a[1] = b[1] => a = b
       /\ Starts(t, [step |-> "assign", asked |-> asked, refs |-> refs, bindings |-> kept])
  /\ UNCHANGED <<modelVars, profileVars>>

\* Each profile asked for is looked up among those of its kind; one that is
\* not there ends the request before anything is written.
CheckProfile(t) ==
  LET w == task[t] IN
  /\ w.step = "assign"
  /\ \E a \in w.asked :
       IF a[2] \in profiles /\ KindOf[a[2]] = a[1]
       THEN Goes(t, [step |-> "assign", asked |-> w.asked \ {a}, refs |-> w.refs,
                     bindings |-> w.bindings \cup {a}])
       ELSE Ends(t)
  /\ UNCHANGED <<modelVars, profileVars>>

WriteRouters(t) ==
  LET w == task[t] IN
  /\ w.step = "assign" /\ w.asked = {}
  /\ refs' = w.refs /\ bindings' = w.bindings
  /\ Ends(t)
  /\ UNCHANGED <<connections, instances, profiles>>

\* DELETE /api/routers/:id: all it referred to is forgotten with it.
DeleteRouter(t) ==
  /\ task[t] = Idle
  /\ requests < MaxRequests /\ requests' = requests + 1
  /\ refs' \in SUBSET refs /\ bindings' \in SUBSET bindings
  /\ orderly' = (orderly /\ Alone(t))
  /\ UNCHANGED <<task, connections, instances, profiles>>

ProfilesInit == profiles = {} /\ bindings = {}

ProfileStep(t) ==
  \/ CreateProfile(t) \/ EditProfile(t) \/ DeleteProfile(t) \/ CheckBindings(t)
  \/ WriteProfiles(t)
  \/ AssignProfiles(t) \/ CheckProfile(t) \/ WriteRouters(t)
  \/ DeleteRouter(t)
=============================================================================
