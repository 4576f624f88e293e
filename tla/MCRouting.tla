------------------------------ MODULE MCRouting ------------------------------
(* Instances of Routing for TLC: models, profiles and lists of candidates.   *)
EXTENDS Routing

CONSTANTS a, b, j, s1, s2, none, seeing, chat, code

Prices    == (a :> 0) @@ (b :> 2)
Windows   == (a :> 10) @@ (b :> 0)
Blind     == (a :> {seeing}) @@ (b :> {})
Intents   == (chat :> {a}) @@ (code :> {b})
Names     == (a :> 1) @@ (b :> 2)
Routers   == <<j, b>>
Points    == {(a :> 0) @@ (b :> Unit), (a :> 2 * Unit), << >>}

Plain     == [size |-> 1, needs |-> {}, asks |-> a]
Image     == [size |-> 12, needs |-> {seeing}, asks |-> none]
Kinds     == {Plain, Image}

P(policies, selector) == [policies |-> policies, selector |-> selector]
Many ==
  {P(<<"health", "fairness", "llm">>, "argmax"),
   P(<<"rate-limit", "health", "budget-remaining">>, "weighted-random"),
   P(<<"health", "capability", "context", "cheapest", "model-preference">>, "argmax")}
Mixed     == (s1 :> Many) @@ (s2 :> {P(<<"semantic-intent", "health">>, "round-robin")})
Lists2    == {<<a, b>>, <<b>>}

\* The ratings of latency and of health on every history of up to three calls,
\* more than the runs go through.
Sample    == {k \in [model : {a, b}, outcome : {"success", "error"}, latency : {0, 1, 3}, age : 0..1] :
                k.outcome = "error" <=> k.latency = 0}
Samples   == UNION {{SetToBag(S) : S \in kSubset(n, Sample)} : n \in 0..3}

\* The faster model is never rated lower, and the fastest is perfect.
ASSUME FasterIsBetter ==
  \A h \in Samples : Latency(h, a) > 0 /\ Latency(h, b) > 0 =>
    LET p == PerformanceRating(h, {a, b}).points IN
    /\ Latency(h, a) <= Latency(h, b) => p[a] >= p[b]
    /\ Unit \in {p[a], p[b]}

\* One more success never lowers the health of a model, one more error never
\* raises it, however old they are.
ASSUME HealthIsMonotone ==
  \A h \in Samples, k \in Sample : LET more == h (+) SetToBag({k}) IN
    IF k.outcome = "success" THEN HealthPoint(more, k.model) >= HealthPoint(h, k.model)
    ELSE HealthPoint(more, k.model) <= HealthPoint(h, k.model)
=============================================================================
