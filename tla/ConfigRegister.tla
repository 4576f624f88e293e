--------------------------- MODULE ConfigRegister ---------------------------
(***************************************************************************)
(* What updateConfig promises its callers: the file behaves like one value *)
(* that the edits of the calls change one at a time, each of them applied  *)
(* to the value it finds, once, and reported as done only when it is       *)
(* there, as failed only when it is not.                                   *)
(***************************************************************************)
CONSTANTS
  Callers,         \* calls that may edit the value
  Initial,         \* the value to start from
  Edited(_, _)     \* the value after the edit of a call

VARIABLES value, applied, outcome

rvars == <<value, applied, outcome>>

RInit ==
  /\ value = Initial
  /\ applied = {}
  /\ outcome = [c \in Callers |-> "pending"]

\* The edit takes effect, at one moment between the call and its answer.
Apply(c) ==
  /\ outcome[c] = "pending" /\ c \notin applied
  /\ value' = Edited(c, value)
  /\ applied' = applied \cup {c}
  /\ UNCHANGED outcome

\* The caller hears that its edit is in: it is, or there was nothing to do.
Report(c) ==
  /\ outcome[c] = "pending"
  /\ c \in applied \/ Edited(c, value) = value
  /\ outcome' = [outcome EXCEPT ![c] = "done"]
  /\ UNCHANGED <<value, applied>>

\* The caller hears of a failure: nothing of its edit is in.
Refuse(c) ==
  /\ outcome[c] = "pending" /\ c \notin applied
  /\ outcome' = [outcome EXCEPT ![c] = "failed"]
  /\ UNCHANGED <<value, applied>>

RNext == \E c \in Callers : Apply(c) \/ Report(c) \/ Refuse(c)

RSpec == RInit /\ [][RNext]_rvars
=============================================================================
