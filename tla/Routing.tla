------------------------------- MODULE Routing -------------------------------
(***************************************************************************)
(* The choice of a model: routing/router.ts asks the policies of the       *)
(* router's profile, weighs what they say and hands the candidates that    *)
(* are left to a selector (routing/selectors), whose order the candidate   *)
(* loop follows.  What the calls come to is the history the policies read  *)
(* next time.                                                              *)
(*                                                                         *)
(* One router whose history is the whole history.  The policies of a       *)
(* request run side by side, each reading the history when it gets there.  *)
(* Resilience and limits are modelled elsewhere: here they leave any of    *)
(* the lists in Admissions.  Rounding to four decimals and the tolerances  *)
(* of the source are finer than the points.                                *)
(***************************************************************************)
EXTENDS RoutingPolicies, SequencesExt, TLC

CONSTANTS
  Slots,           \* concurrent requests
  RequestKinds,    \* what a request is: its size, what it needs, what it asks for
  Profiles,        \* [Slots -> profiles a request of the slot may go by]
  Admissions,      \* lists of candidates that resilience and limits leave
  Name,            \* [Models -> Nat]: order of the identifiers
  LlmModels,       \* routingModelId and the fallbacks
  Answers,         \* points a routing model may give, of any size, for any of the models
  Fallible,        \* types of policies that may throw
  Offered,         \* the first model of the router
  MaxHistory       \* bound on the calls in the history

VARIABLES
  history,         \* the usage records as a bag of calls with their age
  cursor,          \* cursors of routingMemoryStore.ts, of this router
  call,            \* [Slots -> what a request has come to]
  tally            \* turns taken since the candidates last changed, for EvenLoad

vars == <<history, cursor, call, tally>>

Types   == {"context", "capability", "cheapest", "model-preference", "semantic-intent",
            "health", "performance", "rate-limit", "fairness", "budget-remaining", "llm"}
Request == [size : Nat, needs : SUBSET UNION {Lacks[m] : m \in Models},
            asks : Models \cup {NoModel}]
Profile == [policies : Seq(Types),
            selector : {"argmax", "weighted-random", "round-robin", "cheapest", "lowest-latency"}]
Lists   == SetToAllKPermutations(Models)
Pending == [points |-> <<>>, excludes |-> {}, failed |-> FALSE, pending |-> TRUE]
NoProfile == [policies |-> <<>>, selector |-> "argmax"]
Idle    == [phase |-> "idle", req |-> [size |-> 0, needs |-> {}, asks |-> NoModel],
            valid |-> <<>>, profile |-> NoProfile, ratings |-> <<>>, plan |-> <<>>]
NoTally == [of |-> {}, turns |-> [m \in Models |-> 0]]

ASSUME RoutingAssumption ==
  /\ IsFiniteSet(Models)
  /\ RequestKinds \subseteq Request
  /\ Profiles \in [Slots -> SUBSET Profile]
  /\ Admissions \subseteq Lists \ {<<>>}
  /\ Name \in [Models -> Nat] /\ \A m, n \in Models : Name[m] = Name[n] => m = n
  /\ LlmModels \in Seq(ToSet(LlmModels))
  /\ \A p \in Answers : DOMAIN p \subseteq Models /\ p \in [DOMAIN p -> Int]
  /\ Fallible \subseteq Types
  /\ Offered \in Models
  /\ MaxHistory \in Nat

-----------------------------------------------------------------------------
\* scoreCandidates: what the ratings of a request make of its candidates.

Excluded(q)  == UNION {q.ratings[i].excludes : i \in DOMAIN q.ratings}
Left(q)      == ToSet(q.valid) \ Excluded(q)
Eligible(q, i) == DOMAIN q.ratings[i].points \cap Left(q)

\* A policy that sees no difference abstains.
Voters(q) == {i \in DOMAIN q.ratings :
                /\ ~q.ratings[i].failed
                /\ \E m, n \in Eligible(q, i) : q.ratings[i].points[m] # q.ratings[i].points[n]}
WeightFromZero(q, i) == Len(q.ratings) - i
\* Positional weight: the first of N policies counts N times.
Weight(q, i) == Len(q.ratings) - i + 1
Judges(q, m) == {i \in Voters(q) : m \in Eligible(q, i)}

\* The weighted mean as a fraction, one half for a model nobody rated.
Score(q, m) ==
  IF Judges(q, m) = {} THEN <<1, 2>>
  ELSE <<SumOf([i \in Judges(q, m) |-> q.ratings[i].points[m] * Weight(q, i)]),
         Unit * SumOf([i \in Judges(q, m) |-> Weight(q, i)])>>
Higher(q, m, n) ==
  LET one == Score(q, m) other == Score(q, n) IN one[1] * other[2] > other[1] * one[2]

-----------------------------------------------------------------------------
\* The selectors: the orders each may give.  An order is known by the pairs
\* of which one comes ahead of the other.

InOrder(S, ahead) ==
  [k \in 1..Cardinality(S) |->
     CHOOSE m \in S : Cardinality({n \in S : <<n, m>> \in ahead}) = k - 1]
\* One is moved to the front.
Led(S, m, ahead) == {p \in ahead : p[2] # m} \cup ({m} \X (S \ {m}))

ByName(S) == {p \in S \X S : Name[p[1]] < Name[p[2]]}
Place(q, m) == CHOOSE i \in DOMAIN q.valid : q.valid[i] = m
AsListed(q) == {p \in Left(q) \X Left(q) : Place(q, p[1]) < Place(q, p[2])}
\* Array.sort is stable.
Stable(q, before) == before \cup {p \in AsListed(q) : <<p[2], p[1]>> \notin before}

ByScore(q) == Stable(q, {p \in Left(q) \X Left(q) : Higher(q, p[1], p[2])})
ByCost(q)  == Stable(q, {p \in Left(q) \X Left(q) :
                \/ Cost[p[1]] < Cost[p[2]]
                \/ Cost[p[1]] = Cost[p[2]] /\ Higher(q, p[1], p[2])})
Best(q)    == {m \in Left(q) : \A n \in Left(q) : ~Higher(q, n, m)}
\* pickWeighted: a draw of exactly zero takes the first whatever its score.
Drawn(q)   ==
  LET rated == {m \in Left(q) : Score(q, m)[1] > 0}
  IN IF rated = {} THEN Left(q) ELSE rated \cup {InOrder(Left(q), AsListed(q))[1]}

Argmax(q)         == {InOrder(Left(q), Led(Left(q), m, ByScore(q))) :
                        m \in IF Voters(q) = {} THEN Left(q) ELSE Best(q)}
WeightedRandom(q) == {InOrder(Left(q), Led(Left(q), m, ByScore(q))) : m \in Drawn(q)}
CheapestFirst(q)  == {InOrder(Left(q), ByCost(q))}
\* No caller gives latencyOf: the order stays as it is.
LowestLatency(q)  == {InOrder(Left(q), AsListed(q))}
Turn(S)           == InOrder(S, ByName(S))[cursor + 1]
InTurn(q)         == {InOrder(Left(q), Led(Left(q), Turn(Left(q)), ByName(Left(q))))}

Orders(q) ==
  CASE q.profile.selector = "argmax"          -> Argmax(q)
    [] q.profile.selector = "weighted-random" -> WeightedRandom(q)
    [] q.profile.selector = "cheapest"        -> CheapestFirst(q)
    [] q.profile.selector = "lowest-latency"  -> LowestLatency(q)
    [] q.profile.selector = "round-robin"     -> InTurn(q)

-----------------------------------------------------------------------------
\* Policies that look at nothing but the request and its candidates: it makes
\* no difference when they run.
OnArrival(type, req, valid) ==
  CASE type = "context"          -> ContextRating(req, valid)
    [] type = "capability"       -> CapabilityRating(req, valid)
    [] type = "cheapest"         -> CheapestRating(valid)
    [] type = "model-preference" -> PreferenceRating(req, valid)
    [] OTHER                     -> Pending

\* What the others find when they run: the history of that moment, what the
\* classifier makes of the request, the headroom of the budgets, which is
\* anything at all here.
Findings(type, valid) ==
  CASE type = "health"           -> {HealthRating(history, valid)}
    [] type = "performance"      -> {PerformanceRating(history, valid)}
    [] type = "rate-limit"       -> {RateRating(history, valid)}
    [] type = "fairness"         -> {FairnessRating(history, valid)}
    [] type = "semantic-intent"  -> {IntentRating(I, valid) : I \in kSubset(1, DOMAIN Pools)
                                                             \cup kSubset(2, DOMAIN Pools)}
    [] type = "budget-remaining" -> {Rated(p) : p \in [valid -> {0, Unit \div 2, Unit}]}

Made(m, outcome, latency) == SetToBag({[model |-> m, outcome |-> outcome, latency |-> latency, age |-> 0]})
Room    == BagCardinality(history) < MaxHistory

Moves(r, q) == call' = [call EXCEPT ![r] = q]

\* A request whose limits and breakers leave one candidate goes straight to
\* it, past every policy.
Bypass(r, req, valid) ==
  /\ Len(valid) = 1
  /\ Moves(r, [Idle EXCEPT !.phase = "trying", !.plan = valid])
Consult(r, req, valid) ==
  /\ Len(valid) > 1
  /\ \E profile \in Profiles[r] :
       Moves(r, [Idle EXCEPT !.phase = "judging", !.valid = valid, !.profile = profile,
                  !.ratings = [i \in DOMAIN profile.policies |->
                                 OnArrival(profile.policies[i], req, ToSet(valid))]])
Arrive(r) ==
  /\ call[r].phase = "idle"
  /\ \E req \in RequestKinds, valid \in Admissions : Bypass(r, req, valid) \/ Consult(r, req, valid)
  /\ UNCHANGED <<history, cursor, tally>>

Waits(r, i) == call[r].phase = "judging" /\ i \in DOMAIN call[r].ratings /\ call[r].ratings[i] = Pending

Judge(r, i) ==
  LET type == call[r].profile.policies[i] IN
  /\ Waits(r, i)
  /\ type # "llm"
  /\ \E x \in Findings(type, ToSet(call[r].valid))
             \cup {f \in {FailedRating} : type \in Fallible} :  \* one that throws is left out
       Moves(r, [call[r] EXCEPT !.ratings[i] = x])
  /\ UNCHANGED <<history, cursor, tally>>

\* Routing models are asked in turn until the k-th gives points, for as many
\* candidates as it likes.  Those before it were skipped, failed, or gave what
\* cannot be read and were asked again, in vain.  Their calls are calls like
\* any other in the history.
Asked(J, outcome, latency, times) ==
  [c \in {[model |-> LlmModels[j], outcome |-> outcome, latency |-> latency, age |-> 0] :
            j \in {n \in J : LlmModels[n] \in Models}} |-> times]
AskLlm(r, i) ==
  /\ Waits(r, i)
  /\ call[r].profile.policies[i] = "llm"
  /\ \E k \in 1..(Len(LlmModels) + 1), l \in Latencies :
       \E failed, unread \in SUBSET (1..(k - 1)), repairs \in 1..2 :
         /\ history' = history (+) Asked(failed, "error", 0, 1)
                               (+) Asked(unread \ failed, "success", l, 2)
                               (+) Asked(unread \cap failed, "success", l, 1)
                               (+) Asked({k} \cap DOMAIN LlmModels, "success", l, repairs)
         /\ BagCardinality(history') <= MaxHistory
         /\ \E x \in IF k > Len(LlmModels) THEN {FailedRating}
                     ELSE {Rated(Restrict(p, DOMAIN p \cap ToSet(call[r].valid))) : p \in Answers} :
              Moves(r, [call[r] EXCEPT !.ratings[i] = x])
  /\ UNCHANGED <<cursor, tally>>

Judged(r) == call[r].phase = "judging" /\ \A i \in DOMAIN call[r].ratings : call[r].ratings[i] # Pending

\* Every candidate was excluded: a 503, or the passthrough of the router.
RefuseAll(r) ==
  /\ Judged(r) /\ Left(call[r]) = {}
  /\ Moves(r, Idle)
  /\ UNCHANGED <<history, cursor, tally>>

Select(r) ==
  /\ Judged(r) /\ Left(call[r]) # {} /\ call[r].profile.selector # "round-robin"
  /\ \E plan \in Orders(call[r]) : Moves(r, [Idle EXCEPT !.phase = "trying", !.plan = plan])
  /\ UNCHANGED <<history, cursor, tally>>

NextCursorSame(n) == cursor % n
\* nextCursor: the turn to take, and the next one.
NextCursor(n) == (cursor + 1) % n
Counted(set, m) ==
  LET turns == [(IF tally.of = set THEN tally.turns ELSE NoTally.turns) EXCEPT ![m] = @ + 1]
  IN [of |-> set, turns |-> IF \A n \in set : turns[n] > 0
                            THEN [n \in Models |-> IF n \in set THEN turns[n] - 1 ELSE 0] ELSE turns]

\* The cursor counts the candidates of the request before: it may lie beyond
\* those of this one, whose routing then throws.
TakeTurn(r) ==
  LET q == call[r] n == Cardinality(Left(q)) IN
  /\ Judged(r) /\ n > 0 /\ q.profile.selector = "round-robin"
  /\ cursor' = NextCursor(n)
  /\ IF cursor < n
     THEN \E plan \in Orders(q) :
            /\ Moves(r, [Idle EXCEPT !.phase = "trying", !.plan = plan])
            /\ tally' = Counted(Left(q), plan[1])
     ELSE /\ Moves(r, [Idle EXCEPT !.phase = "broken"])
          /\ tally' = NoTally
  /\ UNCHANGED history

\* The exception reaches the client as a 500.
Break(r) ==
  /\ call[r].phase = "broken"
  /\ Moves(r, Idle)
  /\ UNCHANGED <<history, cursor, tally>>

-----------------------------------------------------------------------------
\* The candidate loop over the plan, and the time that passes.

Gone(q) == IF Len(q.plan) = 1 THEN Idle ELSE [q EXCEPT !.plan = Tail(@)]

Answered(r) ==
  /\ call[r].phase = "trying" /\ Room
  /\ \E l \in Latencies : history' = history (+) Made(Head(call[r].plan), "success", l)
  /\ Moves(r, Idle)
  /\ UNCHANGED <<cursor, tally>>

Failed(r) ==
  /\ call[r].phase = "trying" /\ Room
  /\ history' = history (+) Made(Head(call[r].plan), "error", 0)
  /\ Moves(r, Gone(call[r]))
  /\ UNCHANGED <<cursor, tally>>

\* A limit was reached meanwhile: the candidate is passed over.
PassedOver(r) ==
  /\ call[r].phase = "trying"
  /\ Moves(r, Gone(call[r]))
  /\ UNCHANGED <<history, cursor, tally>>

\* A blocked request is put down to the first model of the router.
Blocked ==
  /\ Room
  /\ history' = history (+) Made(Offered, "blocked", 0)
  /\ UNCHANGED <<cursor, call, tally>>

Older(c) == [c EXCEPT !.age = @ + 1]
Tick ==
  /\ LET kept == {c \in DOMAIN history : c.age < Horizon}
     IN history' = [c \in {Older(k) : k \in kept} |-> history[[c EXCEPT !.age = @ - 1]]]
  /\ UNCHANGED <<cursor, call, tally>>

Init ==
  /\ history = EmptyBag
  /\ cursor = 0
  /\ call = [r \in Slots |-> Idle]
  /\ tally = NoTally

Steps(r) ==
  \/ \E i \in DOMAIN call[r].ratings : Judge(r, i) \/ AskLlm(r, i)
  \/ RefuseAll(r) \/ Select(r) \/ TakeTurn(r) \/ Break(r)
  \/ Answered(r) \/ Failed(r) \/ PassedOver(r)

Next == (\E r \in Slots : Arrive(r) \/ Steps(r)) \/ Blocked \/ Tick

Spec     == Init /\ [][Next]_vars
\* Time passes.
FairSpec == Spec /\ WF_vars(Tick)

-----------------------------------------------------------------------------
\* Properties.

\* The scale of the ratings, "punteggi 0-1", which the weighted mean relies on
\* and does not enforce: points of more than Unit overrule a policy that counts
\* more, points below nothing turn its veto into a matter of degree.
OnScale(x) == \A m \in DOMAIN x.points : x.points[m] \in 0..Unit

\* What a policy computes, rather than takes from a routing model or from its
\* configuration, is on the scale, and it excludes only what it gives nothing:
\* for every size, price, history and limit.
Computed == Types \ {"model-preference", "llm"}
ComputedOnScale ==
  \A r \in Slots : \A i \in DOMAIN call[r].ratings :
    LET x == call[r].ratings[i] IN
    x # Pending /\ call[r].profile.policies[i] \in Computed
      => OnScale(x) /\ \A m \in x.excludes : m \in DOMAIN x.points /\ x.points[m] = 0

\* The balance of the round robin, "one per request, evenly": while the same
\* models are left, none is a turn or more ahead of a fair share, however the
\* requests overlap and whatever the cursor was when the models changed.
EvenLoad ==
  \A m, n \in tally.of : tally.turns[m] <= tally.turns[n] + 1

\* Argmax honours what the policies agree on: of two models rated by the same
\* policies, none of which rates the one lower and one of which rates it
\* higher, the one is tried first, whatever the weights, the abstentions and
\* the policies that failed.
Better(q, m, n) ==
  LET said == {i \in DOMAIN q.ratings : ~q.ratings[i].failed} IN
  /\ \A i \in said : m \in Eligible(q, i) <=> n \in Eligible(q, i)
  /\ \A i \in said : m \in Eligible(q, i) => q.ratings[i].points[m] >= q.ratings[i].points[n]
  /\ \E i \in said : m \in Eligible(q, i) /\ q.ratings[i].points[m] > q.ratings[i].points[n]
Ahead(plan, m, n) == \E i, k \in DOMAIN plan : i < k /\ plan[i] = m /\ plan[k] = n
BetterIsAhead ==
  [][\A r \in Slots :
       (/\ call[r].phase = "judging" /\ call'[r].phase = "trying"
        /\ call[r].profile.selector = "argmax")
       => \A m, n \in Left(call[r]) :
            Better(call[r], m, n) => Ahead(call'[r].plan, m, n)]_vars

\* Health never bans a model for good: the errors that exclude it leave the
\* window, and nobody calls it meanwhile.  A model may be called in spite of
\* its errors when it is the only one valid or answers for the llm policy.
Shielded == {m \in Models : m \notin ToSet(LlmModels) /\ <<m>> \notin Admissions}
ExcludedComesBack == \A m \in Shielded : []<>(HealthPoint(history, m) # 0)
=============================================================================
