------------------------------- MODULE Routers -------------------------------
(***************************************************************************)
(* routers.json and the handlers of /api/routers that change it: a router  *)
(* routes to models, an orchestrator to other routers, and a passthrough   *)
(* forwards what reaches it under its slug.  An update may turn any kind   *)
(* into any other.                                                         *)
(*                                                                         *)
(* Every handler checks and edits the stored document under the lock of    *)
(* updateConfig, in one step.  Two others do not, and write back the whole *)
(* document they have read: the authentication of a request, to note when  *)
(* a token was last used (auth.ts), and the assignment of profiles to a    *)
(* router (api/profiles.ts).                                               *)
(***************************************************************************)
EXTENDS Naturals, FiniteSets

CONSTANTS
  RouterIds,
  NoRouter,        \* no such router
  Names,           \* names, trimmed and in lower case
  Base,            \* what slugify makes of a name
  Bases,
  NoSlug,
  Clients,         \* requests that authenticate with a token, or assign profiles
  NoCopy,
  MaxTokens,       \* bound on the tokens of a router
  MaxEdits         \* bound on the edits

Kinds == {"router", "orchestrator", "passthrough"}
Slugs == Bases \X (Nat \ {0})    \* <<b, 1>> is the name b, <<b, 2>> is b-2

Router == [kind : Kinds, name : Names, slug : Slugs \cup {NoSlug},
           passes : Nat,                  \* how many pass-through entries it has
           targets : BOOLEAN,             \* whether it has real models
           candidates : SUBSET RouterIds,
           tokens : Nat]

Documents == [RouterIds -> Router \cup {NoRouter}]

ASSUME RouterAssumption ==
  /\ IsFiniteSet(RouterIds)
  /\ Base \in [Names -> Bases]
  /\ NoSlug \notin Slugs /\ NoRouter \notin Router /\ NoCopy \notin Documents
  /\ MaxTokens \in Nat /\ MaxEdits \in Nat

VARIABLES
  routers,         \* the stored document
  older,           \* the document each client has read and will write back
  given,           \* ids that were given out; uuidv4 gives none twice (history)
  switched,        \* routers whose kind was changed (history)
  edits            \* how many edits there were (history)

routersVars == <<routers, older, given, switched, edits>>

Stored(doc) == {r \in RouterIds : doc[r] # NoRouter}
Of(doc, kind) == {r \in Stored(doc) : doc[r].kind = kind}

-----------------------------------------------------------------------------
\* The checks.

\* A passthrough is named apart from the other kinds.
Group(kind) == IF kind = "passthrough" THEN {"passthrough"} ELSE Kinds \ {"passthrough"}

NamesakeOfKind(r, kind, name) ==         \* an orchestrator and a router share a name
  \E s \in Stored(routers) \ {r} : routers[s].kind = kind /\ routers[s].name = name

Namesake(r, kind, name) ==
  \E s \in Stored(routers) \ {r} :
    routers[s].kind \in Group(kind) /\ routers[s].name = name

ValidCandidatesAnyKind(r, cs) ==         \* a candidate only has to exist
  r \notin cs /\ cs \subseteq Stored(routers)

\* validateOrchestratorCandidates: not itself, and every one a plain router.
ValidCandidates(r, cs) == r \notin cs /\ cs \subseteq Of(routers, "router")

\* suggestRouterSlug over the slugs of the passthroughs: the first one free.
FreshSlugOfBase(b) == <<b, 1>>           \* nothing is compared
FreshSlug(b) ==
  LET taken == {routers[r].slug : r \in Of(routers, "passthrough")}
      n == CHOOSE n \in 1..(Cardinality(taken) + 1) :
             <<b, n>> \notin taken /\ \A k \in 1..(n - 1) : <<b, k>> \in taken
  IN  <<b, n>>

-----------------------------------------------------------------------------
\* The handlers.

Edited == edits < MaxEdits /\ edits' = edits + 1

\* POST /api/routers.  A passthrough gets the pass-through entry it lacks, its
\* slug for good, and a token only for real models; an orchestrator may start
\* without candidates.
Create(r) ==
  /\ r \notin given /\ given' = given \cup {r}
  /\ Edited
  /\ \E kind \in Kinds, name \in Names, sent \in 0..2, targets \in BOOLEAN,
        cs \in SUBSET Stored(routers) :
       LET passes == IF sent = 0 THEN 1 ELSE sent IN
       /\ ~Namesake(r, kind, name)
       /\ kind = "orchestrator" => ValidCandidates(r, cs)
       /\ kind = "passthrough" => passes = 1
       /\ routers' = [routers EXCEPT ![r] =
            [kind |-> kind, name |-> name,
             slug |-> IF kind = "passthrough" THEN FreshSlug(Base[name]) ELSE NoSlug,
             passes |-> IF kind = "passthrough" THEN passes ELSE 0,
             targets |-> targets,
             candidates |-> IF kind = "orchestrator" THEN cs ELSE {},
             tokens |-> IF kind # "passthrough" \/ targets THEN 1 ELSE 0]]
  /\ UNCHANGED <<older, switched>>

\* The tokens of a passthrough follow its real models, those of others stay.
TokensAfter(old, kind, targets) ==
  IF kind # "passthrough" THEN old
  ELSE IF targets /\ old = 0 THEN 1
  ELSE IF ~targets THEN 0 ELSE old

Merged(old, kind, name, sent, targets, cs) ==
  [old EXCEPT !.kind = kind, !.name = name,
              !.passes = IF kind = "passthrough" THEN sent ELSE 0,
              !.targets = targets,
              !.candidates = IF kind = "orchestrator" THEN cs ELSE {},
              !.tokens = TokensAfter(@, kind, targets)]

\* PUT /api/routers/:id.  What the body leaves out is taken from the stored
\* router, and checked again; only a candidate list that is empty and stays
\* empty is let through.  The slug stays as it is.
Update(r) ==
  LET old == routers[r] IN
  /\ old # NoRouter
  /\ Edited
  /\ \E kind \in Kinds, name \in Names, sent \in 0..2, targets \in BOOLEAN,
        cs \in (SUBSET Stored(routers)) \cup {old.candidates} :
       /\ ~Namesake(r, kind, name)
       /\ kind = "orchestrator" => ValidCandidates(r, cs) /\ (cs = {} => old.candidates = {})
       /\ kind = "passthrough" => sent = 1
       /\ routers' = [routers EXCEPT ![r] = Merged(old, kind, name, sent, targets, cs)]
       /\ switched' = IF kind = old.kind THEN switched ELSE switched \cup {r}
  /\ UNCHANGED <<older, given>>

\* DELETE /api/routers/:id: the orchestrators that list it keep it.
Delete(r) ==
  /\ routers[r] # NoRouter
  /\ Edited
  /\ routers' = [routers EXCEPT ![r] = NoRouter]
  /\ UNCHANGED <<older, given, switched>>

AddToken(r) ==
  /\ routers[r] # NoRouter /\ routers[r].tokens < MaxTokens
  /\ Edited
  /\ routers' = [routers EXCEPT ![r].tokens = @ + 1]
  /\ UNCHANGED <<older, given, switched>>

DeleteToken(r) ==
  /\ routers[r] # NoRouter /\ routers[r].tokens > 0
  /\ Edited
  /\ routers' = [routers EXCEPT ![r].tokens = @ - 1]
  /\ UNCHANGED <<older, given, switched>>

-----------------------------------------------------------------------------
\* auth.ts, beside the request it authenticates, and PUT /api/routers/:id/profiles.

ReadToTouch(c) ==
  /\ older[c] = NoCopy
  /\ Stored(routers) # {}
  /\ older' = [older EXCEPT ![c] = routers]
  /\ UNCHANGED <<routers, given, switched, edits>>

\* The document is written back as it was read ...
WriteOlderCopy(c) ==
  /\ older[c] # NoCopy
  /\ routers' = older[c]
  /\ older' = [older EXCEPT ![c] = NoCopy]
  /\ UNCHANGED <<given, switched, edits>>

\* ... or the write fails, or an edit that had read before replaces it.
TouchLost(c) ==
  /\ older[c] # NoCopy
  /\ older' = [older EXCEPT ![c] = NoCopy]
  /\ UNCHANGED <<routers, given, switched, edits>>

RoutersInit ==
  /\ routers = [r \in RouterIds |-> NoRouter]
  /\ older = [c \in Clients |-> NoCopy]
  /\ given = {} /\ switched = {} /\ edits = 0

RoutersNext ==
  \/ \E r \in RouterIds :
       Create(r) \/ Update(r) \/ Delete(r) \/ AddToken(r) \/ DeleteToken(r)
  \/ \E c \in Clients : ReadToTouch(c) \/ WriteOlderCopy(c) \/ TouchLost(c)

RoutersSpec == RoutersInit /\ [][RoutersNext]_routersVars

-----------------------------------------------------------------------------
RoutersTypeOK ==
  /\ routers \in Documents
  /\ older \in [Clients -> Documents \cup {NoCopy}]
  /\ given \subseteq RouterIds /\ switched \subseteq RouterIds
  /\ edits \in Nat

\* No two passthroughs, and no two of the others, have one name, whatever
\* kinds were switched and whichever older document came back.
NamesUnique ==
  \A r, s \in Stored(routers) :
    (routers[s].kind \in Group(routers[r].kind) /\ routers[s].name = routers[r].name) => r = s

\* Orchestrators never try each other in a circle: a candidate may have become
\* an orchestrator since it was listed, but any set of routers has one that
\* lists none of them.
NoCircle ==
  \A S \in (SUBSET Stored(routers)) \ {{}} :
    \E r \in S : routers[r].candidates \cap S = {}

\* The path of a passthrough leads to it alone: it has a slug, and no other
\* has the same, unless one of the two once was of another kind.
SlugsUnique ==
  LET P == Of(routers, "passthrough") \ switched IN
  /\ \A r \in P : routers[r].slug # NoSlug
  /\ \A r, s \in P : routers[r].slug = routers[s].slug => r = s
=============================================================================
