--------------------------- MODULE CircuitBreaker ---------------------------
(***************************************************************************)
(* What a circuit breaker promises its callers, whatever counts faults and *)
(* grants probes behind it: it closes only out of a probe, and it lets a   *)
(* probe out only after a full rest since it last opened.  Resilience      *)
(* implements one breaker per key of its store.                            *)
(***************************************************************************)
EXTENDS Integers

CONSTANTS
  Breakers,
  Forgettable,   \* those an operator resets
  Rest           \* how long an open breaker stays open

VARIABLES clock, state, since   \* since[b]: when b last opened

NotOpen == -1

BInit ==
  /\ clock = 0
  /\ state = [b \in Breakers |-> "closed"]
  /\ since = [b \in Breakers |-> NotOpen]

Pass ==
  /\ clock' = clock + 1
  /\ UNCHANGED <<state, since>>

\* A closed breaker trips, or the probe of a half-open one fails.
OpenUp(b) ==
  /\ state[b] \in {"closed", "half-open"}
  /\ state' = [state EXCEPT ![b] = "open"]
  /\ since' = [since EXCEPT ![b] = clock]
  /\ UNCHANGED clock

\* Some rested breakers let a probe out.
LetProbesOut(bs) ==
  /\ \A b \in bs : state[b] = "open" /\ clock >= since[b] + Rest
  /\ state' = [b \in Breakers |-> IF b \in bs THEN "half-open" ELSE state[b]]
  /\ UNCHANGED <<clock, since>>

Close(b) ==
  /\ state[b] = "half-open"
  /\ state' = [state EXCEPT ![b] = "closed"]
  /\ since' = [since EXCEPT ![b] = NotOpen]
  /\ UNCHANGED clock

\* An operator forgets some breakers, whatever their state.
Forget(bs) ==
  /\ state' = [b \in Breakers |-> IF b \in bs THEN "closed" ELSE state[b]]
  /\ since' = [b \in Breakers |-> IF b \in bs THEN NotOpen ELSE since[b]]
  /\ UNCHANGED clock

BNext ==
  \/ Pass
  \/ \E b \in Breakers : OpenUp(b) \/ Close(b)
  \/ \E bs \in SUBSET Breakers : LetProbesOut(bs)
  \/ \E bs \in SUBSET Forgettable : Forget(bs)

bvars == <<clock, state, since>>
BSpec == BInit /\ [][BNext]_bvars
=============================================================================
