------------------------------ MODULE MCRouters ------------------------------
(* An instance of Routers for TLC: two names that slugify alike.            *)
EXTENDS Routers, TLC

CONSTANTS r1, r2, r3, alpha, alphaDot, a, c1

OneBase == (alpha :> a) @@ (alphaDot :> a)

Symmetry == Permutations(RouterIds) \cup Permutations(Names)
=============================================================================
