--------------------------- MODULE RoutingPolicies ---------------------------
(***************************************************************************)
(* The policies of modules/routing/policies: what each makes of a request, *)
(* of the models that may serve it and of the usage history.  A policy     *)
(* rates models by points and may exclude some.                            *)
(*                                                                         *)
(* Points are whole numbers, Unit for 1.0; times are counted in half-lives *)
(* of the decay, so that its weights are powers of two.  The history is a  *)
(* bag of calls, each with its age.                                        *)
(***************************************************************************)
EXTENDS Integers, FiniteSets, FiniteSetsExt, Sequences, Bags

CONSTANTS
  Models,
  Unit,            \* the points of a perfect rating
  Cost,            \* [Models -> Nat]: mean price per million tokens
  Window,          \* [Models -> Nat]: contextWindow, 0 when it is not known
  Lacks,           \* [Models -> set]: capabilities declared false
  CallLimited,     \* the models with a limit on calls
  Pools,           \* the candidate_models of the intents
  NoModel,         \* routerly/ada, or no model asked for
  HealthWindow,    \* windowMinutes of health and of performance
  RateWindow,      \* windowMinutes of rate-limit
  FairWindow,      \* windowMinutes of fairness
  MaxCallsPerWindow,  \* threshold of rate-limit, 0 for none
  Bonus,           \* points of model-preference, configured
  Latencies        \* latencies a call may take

Horizon == Max({HealthWindow, RateWindow, FairWindow})

ASSUME PolicyAssumption ==
  /\ Unit \in Nat \ {0}
  /\ Cost \in [Models -> Nat] /\ Window \in [Models -> Nat]
  /\ CallLimited \subseteq Models /\ NoModel \notin Models
  /\ HealthWindow \in Nat /\ RateWindow \in Nat /\ FairWindow \in Nat
  /\ MaxCallsPerWindow \in Nat /\ Bonus \in Int
  /\ Latencies \subseteq Nat \ {0}

Rated(points)           == [points |-> points, excludes |-> {}, failed |-> FALSE]
Filtered(points, out)   == [points |-> points, excludes |-> out, failed |-> FALSE]
ZeroExcluded(points)    == Filtered(points, {m \in DOMAIN points : points[m] = 0})
FailedRating            == [points |-> <<>>, excludes |-> {}, failed |-> TRUE]
Alike(valid)            == [m \in valid |-> Unit]

-----------------------------------------------------------------------------
\* Ratings that do not look at the history.

ContextPointUnclamped(size, room) ==
  IF room = 0 \/ 5 * size <= 4 * room THEN Unit
  ELSE (Unit * (46 * room - 45 * size)) \div (10 * room)
\* A context that is full is an exclusion, one that is nearly full a penalty.
ContextPoint(size, room) ==
  IF room = 0 \/ 5 * size <= 4 * room THEN Unit
  ELSE IF size >= room THEN 0
  ELSE (Unit * (46 * room - 45 * size)) \div (10 * room)
ContextRating(req, valid) ==
  ZeroExcluded([m \in valid |-> ContextPoint(req.size, Window[m])])

CapabilityRating(req, valid) ==
  ZeroExcluded([m \in valid |-> IF req.needs \cap Lacks[m] # {} THEN 0 ELSE Unit])

\* The cheapest paid model is the measure; a free one halves all the others.
CheapestRating(valid) ==
  LET paid    == {Cost[m] : m \in valid} \ {0}
      ceiling == IF \E m \in valid : Cost[m] = 0 THEN 1 ELSE 2
  IN Rated([m \in valid |-> IF Cost[m] = 0 THEN Unit
                            ELSE (Unit * ceiling * Min(paid)) \div (2 * Cost[m])])

PreferenceRating(req, valid) ==
  Rated([m \in valid |-> IF req.asks = NoModel THEN Unit \div 2
                         ELSE IF m = req.asks THEN Bonus ELSE 0])

\* An intent none of whose models is a candidate leaves them all.
Pool(intent, valid) == IF Pools[intent] \cap valid = {} THEN valid ELSE Pools[intent] \cap valid
IntentRating(intents, valid) ==
  LET allowed == IF intents = {} THEN valid ELSE UNION {Pool(i, valid) : i \in intents}
  IN ZeroExcluded([m \in valid |-> IF m \in allowed THEN Unit ELSE 0])

-----------------------------------------------------------------------------
\* Ratings computed from the history.

SumOf(f) == MapThenSumSet(LAMBDA x : f[x], DOMAIN f)

Total(S, bag, Value(_)) == SumOf([c \in S |-> bag[c] * Value(c)])
Count(S, bag)           == Total(S, bag, LAMBDA c : 1)
Decay(c)                == 2 ^ (HealthWindow - c.age)
Within(bag, m, age)     == {c \in DOMAIN bag : c.model = m /\ c.age <= age}

HealthPointUnknown(bag, m) ==
  LET mine   == {c \in Within(bag, m, HealthWindow) : c.outcome # "blocked"}
      errors == Total({c \in mine : c.outcome = "error"}, bag, Decay)
      all    == Total(mine, bag, Decay)
  IN IF mine = {} THEN 0
     ELSE IF 10 * errors >= 9 * all THEN 0
     ELSE Unit - (Unit * errors) \div (all + 2 * 2 ^ HealthWindow)
\* decayWeightedErrorScore: a rate of errors of nine tenths is fatal, and two
\* successes are assumed below that.
HealthPoint(bag, m) ==
  LET mine   == {c \in Within(bag, m, HealthWindow) : c.outcome # "blocked"}
      errors == Total({c \in mine : c.outcome = "error"}, bag, Decay)
      all    == Total(mine, bag, Decay)
  IN IF mine = {} THEN Unit
     ELSE IF 10 * errors >= 9 * all THEN 0
     ELSE Unit - (Unit * errors) \div (all + 2 * 2 ^ HealthWindow)
HealthRating(bag, valid) == ZeroExcluded([m \in valid |-> HealthPoint(bag, m)])

\* Zero stands for no data: with less than two models to compare all are equal.
Latency(bag, m) ==
  LET mine == {c \in Within(bag, m, HealthWindow) : c.outcome # "error" /\ c.latency > 0}
  IN IF mine = {} THEN 0
     ELSE Total(mine, bag, LAMBDA c : Unit * c.latency * Decay(c)) \div Total(mine, bag, Decay)
PerformanceRating(bag, valid) ==
  LET known == {m \in valid : Latency(bag, m) > 0}
      least == Min({Latency(bag, m) : m \in known})
  IN Rated([m \in valid |-> IF m \notin known \/ Cardinality(known) < 2 THEN Unit
                            ELSE (Unit * least) \div Latency(bag, m)])

Calls(bag, m) == Count(Within(bag, m, RateWindow), bag)
RateRating(bag, valid) ==
  LET over  == {m \in valid \cap CallLimited : MaxCallsPerWindow > 0
                                               /\ Calls(bag, m) >= MaxCallsPerWindow}
      busy  == {Calls(bag, m) : m \in (valid \cap CallLimited) \ over} \ {0}
  IN Filtered([m \in valid |-> IF m \notin CallLimited THEN Unit
                               ELSE IF m \in over THEN 0
                               ELSE IF Calls(bag, m) = 0 THEN Unit
                               ELSE (Unit * Min(busy)) \div Calls(bag, m)],
              over)

Successes(bag, m) == Count({c \in Within(bag, m, FairWindow) : c.outcome = "success"}, bag)
FairnessRating(bag, valid) ==
  LET all == SumOf([m \in valid |-> Successes(bag, m)])
  IN Rated([m \in valid |-> IF all = 0 THEN Unit
                            ELSE Unit - (Unit * Successes(bag, m)) \div all])
=============================================================================
