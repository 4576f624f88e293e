--------------------------- MODULE MCUpdateChecker ---------------------------
(* An instance of UpdateChecker, and with it of Notifications, for TLC: a   *)
(* provider that degrades while it serves one request, told to a dashboard  *)
(* and to a hook, and updates, told to the hook.                            *)
EXTENDS UpdateChecker, TLC

CONSTANTS t1, t2, hook, degraded, update, request, user, next, stable

RankValue     == (degraded :> 1) @@ (update :> 0)
TraceValue    == (degraded :> request) @@ (update :> NoTrace)
ReceivesValue == hook :> {degraded, update}
CooldownValue == hook :> 2

AnyTask == Permutations(Tasks)
=============================================================================
