--------------------------- MODULE MCOAuthRefresh ---------------------------
(* Instances of OAuthRefresh for TLC.                                       *)
EXTENDS OAuthRefresh, TLC

CONSTANTS x, y, t1, t2

AnyTask == Permutations(Tasks)
=============================================================================
