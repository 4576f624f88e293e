---------------------------- MODULE AccountBook ----------------------------
(***************************************************************************)
(* What the usage ledger promises of every record, whatever the timers,    *)
(* the batches and the lock do: it waits, then it is stored or given up,   *)
(* and what is given up never comes back.  A write enters records the      *)
(* writer still has, all of a batch or, when the writer dies, a part; it   *)
(* spoils only the end of a book that was left torn and the line it        *)
(* writes there.  Only retention takes stored records away.                *)
(***************************************************************************)
EXTENDS Naturals

VARIABLES
  made,      \* the records are 1..made
  waiting,   \* records that are only in memory
  stored,    \* records in the book
  gone,      \* records given up
  torn       \* the last line has no end

bvars == <<made, waiting, stored, gone, torn>>

BInit ==
  made = 0 /\ waiting = {} /\ stored = {} /\ gone = {} /\ torn = FALSE

Make ==
  /\ made' = made + 1
  /\ waiting' = waiting \cup {made + 1}
  /\ UNCHANGED <<stored, gone, torn>>

AtMostOne(ns) == \A m, n \in ns : m = n

\* What a write of ns may spoil: nothing when the last line has its end.
MaySpoil(ns, spoiled) ==
  /\ spoiled \subseteq stored \cup ns
  /\ AtMostOne(spoiled \cap stored) /\ AtMostOne(spoiled \cap ns)
  /\ spoiled # {} => torn

Enter(ns, spoiled) ==
  /\ ns \subseteq waiting /\ MaySpoil(ns, spoiled)
  /\ waiting' = waiting \ ns
  /\ stored' = (stored \cup ns) \ spoiled
  /\ gone' = gone \cup spoiled
  /\ torn' = FALSE
  /\ UNCHANGED made

GiveUp(ns) ==
  /\ ns \subseteq waiting
  /\ waiting' = waiting \ ns
  /\ gone' = gone \cup ns
  /\ UNCHANGED <<made, stored, torn>>

\* A death enters ns, gives up all else that waits, and may tear the last line.
Perish(ns, spoiled) ==
  /\ ns \subseteq waiting /\ MaySpoil(ns, spoiled)
  /\ waiting' = {}
  /\ stored' = (stored \cup ns) \ spoiled
  /\ gone' = gone \cup spoiled \cup (waiting \ ns)
  /\ torn' \in BOOLEAN
  /\ UNCHANGED made

Retain(ns) ==
  /\ stored' = stored \cap ns
  /\ gone' = gone \cup (stored \ ns)
  /\ torn' = FALSE
  /\ UNCHANGED <<made, waiting>>

BNext ==
  \/ Make
  \/ \E ns \in SUBSET waiting, spoiled \in SUBSET (stored \cup waiting) :
       Enter(ns, spoiled) \/ Perish(ns, spoiled)
  \/ \E ns \in SUBSET waiting : GiveUp(ns)
  \/ \E ns \in SUBSET stored : Retain(ns)

BSpec == BInit /\ [][BNext]_bvars

\* Every record is in one place: it waits, is stored or is given up.
OnePlace ==
  /\ waiting \cup stored \cup gone = 1..made
  /\ waiting \cap stored = {} /\ waiting \cap gone = {} /\ stored \cap gone = {}
=============================================================================
