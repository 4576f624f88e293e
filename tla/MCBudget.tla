------------------------------ MODULE MCBudget ------------------------------
(* Instances of Budget for TLC: which limits meet on which model.           *)
EXTENDS Budget, TLC

CONSTANTS r1, r2, ask, aux, other, rx, ry, m, t1, t2, t3, day, last

Calls(window, value) == [metric |-> "calls", window |-> window, value |-> value]
Cost(window, value)  == [metric |-> "cost", window |-> window, value |-> value]
Extends(limits)      == [mode |-> "extend", limits |-> limits]

\* A router with one model and two tokens, and one that has another token and calls
\* the model as a judge only.
ListedOnce   == (rx :> {m}) @@ (ry :> {})
TwoAndOne    == (rx :> {t1, t2}) @@ (ry :> {t3})
MeanGlobal   == m :> {Calls(day, 1)}
MeanRouter   == (rx :> (m :> Extends({Cost(last, 3)}))) @@ (ry :> (m :> Extends({})))
MeanToken    == [t \in Tokens |-> m :> Extends(IF t = t1 THEN {Calls(last, 1)} ELSE {})]

\* Days of two ticks, and the tick before the last one.
Days         == day :> [t \in Time |-> t - (t % 2)]
LastTick     == last :> 1
Colons       == [n \in Models |-> {n}]

\* A request that makes calls beside its own, and a plain one.
Owner        == [s \in Slots |-> IF s = other THEN r2 ELSE r1]
=============================================================================
