------------------------------ MODULE Positions ------------------------------
(* What a filter and a slice leave of a list, by the positions they keep.   *)
EXTENDS Naturals, Sequences, FiniteSets

\* Of a set of positions, those that come before i ...
Before(i, keep) == {j \in keep : j < i}

\* ... and what is at them, in the order of the list.
Picked(s, keep) ==
  [k \in 1..Cardinality(keep) |->
     s[CHOOSE i \in keep : Cardinality(Before(i, keep)) = k - 1]]
=============================================================================
