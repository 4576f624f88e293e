------------------------------ MODULE MCAdminApi ------------------------------
(* An instance of AdminApi for TLC: a model with a connection of its own,   *)
(* a free name, a connection made by hand, one profile of two kinds there   *)
(* are, and at first nobody or an administrator.                            *)
EXTENDS AdminApi, TLC

CONSTANTS t1, t2, big, small, hand, ann, bob, a, b, ops, fast

BoundValue == (big :> big) @@ (small :> NoModel)

KindOfValue == fast :> "routing"

Symmetry == Permutations(Tasks) \cup Permutations(UserIds) \cup Permutations(Emails)
=============================================================================
