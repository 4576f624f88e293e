---------------------------- MODULE ConfigStore ----------------------------
(***************************************************************************)
(* One configuration file and the calls that read and write it through     *)
(* modules/config/loader.ts: readConfig, writeConfig and updateConfig.     *)
(*                                                                         *)
(* Every await of the loader is a step, so calls of one process, and of    *)
(* several, interleave wherever the code lets them.  The content of the    *)
(* file is abstracted to a set of items (routers, users, tokens): a call   *)
(* adds one, removes one or rewrites what it read.                         *)
(***************************************************************************)
EXTENDS FiniteSets, Naturals

CONSTANTS
  Items,
  Calls,
  NoCall,       \* nobody holds the lock
  Processes,
  ProcOf,       \* [Calls -> Processes]: the process a call runs in
  Kind,         \* [Calls -> {"read", "update", "rewrite"}]: readConfig alone,
                \* updateConfig, or a readConfig followed by a writeConfig
  EditOf,       \* [Calls -> {"add", "remove", "keep"}]
  ItemOf,       \* [Calls -> Items]
  FirstRun,     \* TRUE: the file does not exist yet
  Stored,       \* its items when it does
  Crashing      \* the processes that may crash

VARIABLES
  file,         \* the file under its path
  lock,         \* the call holding file.lock, or NoCall
  pc,           \* what each call is about to do
  val,          \* the value a call has in memory
  tries,        \* how often a call has found the file empty
  aliased,      \* calls whose value is the DEFAULTS object itself
  nested,       \* calls inside the writeConfig a readConfig starts on ENOENT
  attached,     \* seeding calls whose open file is the one under the path
  tmps,         \* calls whose temporary file is on disk
  defaults,     \* DEFAULTS[key] of each process
  published     \* the edits renamed into place so far (history)

vars == <<file, lock, pc, val, tries, aliased, nested, attached, tmps,
          defaults, published>>

ASSUME CallAssumption ==
  /\ NoCall \notin Calls
  /\ ProcOf \in [Calls -> Processes]
  /\ Kind \in [Calls -> {"read", "update", "rewrite"}]
  /\ EditOf \in [Calls -> {"add", "remove", "keep"}]
  /\ ItemOf \in [Calls -> Items]
  /\ FirstRun \in BOOLEAN
  /\ Stored \subseteq Items
  /\ Crashing \subseteq Processes

File == [kind : {"missing", "empty", "value"}, items : SUBSET Items]
Missing    == [kind |-> "missing", items |-> {}]
Truncated  == [kind |-> "empty", items |-> {}]
Content(v) == [kind |-> "value", items |-> v]

Resting  == {"idle", "done", "failed", "crashed"}
Critical == {"editing", "writing", "renaming", "releasing", "aborting"}
Pc == Resting \cup Critical \cup {"reading", "probing", "seeding", "filling", "locking"}

Live(c) == pc[c] \notin Resting

\* The value of a call: the object it holds may be the shared default.
ValueOf(c) == IF c \in aliased THEN defaults[ProcOf[c]] ELSE val[c]

\* What the caller's code makes of the value it was given.
Edited(c, v) ==
  CASE EditOf[c] = "add"    -> v \cup {ItemOf[c]}
    [] EditOf[c] = "remove" -> v \ {ItemOf[c]}
    [] OTHER                -> v

Init ==
  /\ file = IF FirstRun THEN Missing ELSE Content(Stored)
  /\ lock = NoCall
  /\ pc = [c \in Calls |-> "idle"]
  /\ val = [c \in Calls |-> {}]
  /\ tries = [c \in Calls |-> 0]
  /\ aliased = {} /\ nested = {} /\ attached = {} /\ tmps = {}
  /\ defaults = [p \in Processes |-> {}]
  /\ published = {}

Goto(c, where) == pc' = [pc EXCEPT ![c] = where]

-----------------------------------------------------------------------------
(* readConfig.                                                              *)

Begin(c) ==
  /\ pc[c] = "idle"
  /\ Goto(c, IF Kind[c] = "update" THEN "probing" ELSE "reading")
  /\ UNCHANGED <<file, lock, val, tries, aliased, nested, attached, tmps, defaults, published>>

\* c has been given v, by readConfig outside the lock.  A reader is done; the
\* caller of a rewrite changes the object in place, shared default or not, and
\* hands it to writeConfig.
Received(c, v, shared) ==
  /\ Goto(c, IF Kind[c] = "read" THEN "done" ELSE "probing")
  /\ IF Kind[c] = "read" THEN UNCHANGED <<val, aliased, defaults>>
     ELSE /\ val' = [val EXCEPT ![c] = Edited(c, v)]
          /\ aliased' = IF shared THEN aliased \cup {c} ELSE aliased \ {c}
          /\ defaults' = IF shared
                         THEN [defaults EXCEPT ![ProcOf[c]] = Edited(c, v)]
                         ELSE defaults

ReadValue(c) ==
  /\ pc[c] = "reading" /\ file.kind = "value"
  /\ Received(c, file.items, FALSE)
  /\ UNCHANGED <<file, lock, tries, nested, attached, tmps, published>>

\* An existing but empty file may be in the middle of a write: read again,
\* twice, before taking the default, which is not written back.
ReadEmptyAgain(c) ==
  /\ pc[c] \in {"reading", "editing"} /\ file.kind = "empty" /\ tries[c] < 2
  /\ tries' = [tries EXCEPT ![c] = @ + 1]
  /\ UNCHANGED <<file, lock, pc, val, aliased, nested, attached, tmps, defaults, published>>

ReadEmpty(c) ==
  /\ pc[c] = "reading" /\ file.kind = "empty" /\ tries[c] = 2
  /\ Received(c, defaults[ProcOf[c]], TRUE)
  /\ UNCHANGED <<file, lock, tries, nested, attached, tmps, published>>

\* ENOENT: write the default first, then return it.
ReadMissing(c) ==
  /\ pc[c] = "reading" /\ file.kind = "missing"
  /\ Goto(c, "probing")
  /\ nested' = nested \cup {c}
  /\ aliased' = aliased \cup {c}
  /\ UNCHANGED <<file, lock, val, tries, attached, tmps, defaults, published>>

-----------------------------------------------------------------------------
(* writeConfig and updateConfig: seed, lock, publish, unlock.               *)

Probe(c) ==
  /\ pc[c] = "probing"
  /\ Goto(c, IF file.kind = "missing" THEN "seeding" ELSE "locking")
  /\ UNCHANGED <<file, lock, val, tries, aliased, nested, attached, tmps, defaults, published>>

\* writeFile opens with truncation, whatever is under the path by now...
SeedOpen(c) ==
  /\ pc[c] = "seeding"
  /\ file' = Truncated
  /\ attached' = attached \cup {c}
  /\ Goto(c, "filling")
  /\ UNCHANGED <<lock, val, tries, aliased, nested, tmps, defaults, published>>

\* ... and fills the file it opened, which a rename may have replaced, with
\* the default as it is by then.
SeedFill(c) ==
  /\ pc[c] = "filling"
  /\ file' = IF c \in attached THEN Content(defaults[ProcOf[c]]) ELSE file
  /\ attached' = attached \ {c}
  /\ Goto(c, "locking")
  /\ UNCHANGED <<lock, val, tries, aliased, nested, tmps, defaults, published>>

LockFreeAlways == TRUE                 \* the lock does not exclude

LockFree == lock \in {NoCall} \cup {d \in Calls : pc[d] = "crashed"}
\* lockfile.lock; the lock of a crashed process goes stale and is taken over.
Lock(c) ==
  /\ pc[c] = "locking" /\ LockFree
  /\ lock' = c
  /\ Goto(c, IF Kind[c] = "update" THEN "editing" ELSE "writing")
  /\ UNCHANGED <<file, val, tries, aliased, nested, attached, tmps, defaults, published>>

\* The retries run out while the lock is held, or before it is stale.
LockFails(c) ==
  /\ pc[c] = "locking" /\ lock # NoCall
  /\ Goto(c, "failed")
  /\ UNCHANGED <<file, lock, val, tries, aliased, nested, attached, tmps, defaults, published>>

\* updateConfig reads under the lock and runs the mutator, which copies.  The
\* same value back means there is nothing to publish.
EditOn(c, v) ==
  /\ Goto(c, IF Edited(c, v) = v THEN "releasing" ELSE "writing")
  /\ val' = [val EXCEPT ![c] = Edited(c, v)]

Edit(c) ==
  /\ pc[c] = "editing"
  /\ \/ file.kind = "value" /\ EditOn(c, file.items)
     \/ file.kind = "empty" /\ tries[c] = 2 /\ EditOn(c, defaults[ProcOf[c]])
  /\ UNCHANGED <<file, lock, tries, aliased, nested, attached, tmps, defaults, published>>

\* ConfigUpdateAbort: the mutator refuses.
EditAborts(c) ==
  /\ pc[c] = "editing"
  /\ file.kind = "value" \/ (file.kind = "empty" /\ tries[c] = 2)
  /\ Goto(c, "aborting")
  /\ UNCHANGED <<file, lock, val, tries, aliased, nested, attached, tmps, defaults, published>>

\* What the temporary file holds is fixed when it is written.
WriteTmp(c) ==
  /\ pc[c] = "writing"
  /\ val' = [val EXCEPT ![c] = ValueOf(c)]
  /\ tmps' = tmps \cup {c}
  /\ Goto(c, "renaming")
  /\ UNCHANGED <<file, lock, tries, aliased, nested, attached, defaults, published>>

PublishFailsLeaving(c) ==              \* no unlink, and past the release
  /\ pc[c] \in {"writing", "renaming"}
  /\ Goto(c, "failed")
  /\ UNCHANGED <<file, lock, val, tries, aliased, nested, attached, tmps, defaults, published>>

PublishFailsSilently(c) ==             \* the failure is not passed on
  /\ pc[c] \in {"writing", "renaming"}
  /\ tmps' = tmps \ {c}
  /\ Goto(c, "releasing")
  /\ UNCHANGED <<file, lock, val, tries, aliased, nested, attached, defaults, published>>

\* The write or the rename fails: the temporary file is unlinked.
PublishFails(c) ==
  /\ pc[c] \in {"writing", "renaming"}
  /\ tmps' = tmps \ {c}
  /\ Goto(c, "aborting")
  /\ UNCHANGED <<file, lock, val, tries, aliased, nested, attached, defaults, published>>

Rename(c) ==
  /\ pc[c] = "renaming"
  /\ file' = Content(val[c])
  /\ attached' = {}
  /\ tmps' = tmps \ {c}
  /\ published' = IF c \in nested THEN published ELSE published \cup {c}
  /\ Goto(c, "releasing")
  /\ UNCHANGED <<lock, val, tries, aliased, nested, defaults>>

\* finally { release }.  The default a readConfig wrote is then its result.
Release(c) ==
  /\ pc[c] = "releasing"
  /\ lock' = NoCall
  /\ IF c \in nested
     THEN /\ Received(c, defaults[ProcOf[c]], TRUE)
          /\ nested' = nested \ {c}
     ELSE /\ Goto(c, "done")
          /\ UNCHANGED <<val, aliased, nested, defaults>>
  /\ UNCHANGED <<file, tries, attached, tmps, published>>

ReleaseFailed(c) ==
  /\ pc[c] = "aborting"
  /\ lock' = NoCall
  /\ Goto(c, "failed")
  /\ UNCHANGED <<file, val, tries, aliased, nested, attached, tmps, defaults, published>>

\* A process dies with its calls; what it has on disk stays, its lock too.
Crash(p) ==
  /\ \E c \in Calls : ProcOf[c] = p /\ Live(c)
  /\ pc' = [c \in Calls |-> IF ProcOf[c] = p /\ pc[c] # "done" /\ pc[c] # "failed"
                            THEN "crashed" ELSE pc[c]]
  /\ attached' = {c \in attached : ProcOf[c] # p}
  /\ UNCHANGED <<file, lock, val, tries, aliased, nested, tmps, defaults, published>>

Step(c) ==
  \/ ReadValue(c) \/ ReadEmptyAgain(c) \/ ReadEmpty(c) \/ ReadMissing(c)
  \/ Probe(c) \/ SeedOpen(c) \/ SeedFill(c)
  \/ Lock(c) \/ LockFails(c) \/ Edit(c) \/ EditAborts(c)
  \/ WriteTmp(c) \/ PublishFails(c) \/ Rename(c)
  \/ Release(c) \/ ReleaseFailed(c)

Next ==
  \/ \E c \in Calls : Begin(c) \/ Step(c)
  \/ \E p \in Crashing : Crash(p)

Spec == Init /\ [][Next]_vars

\* The event loop resumes every call whose await is over.
FairSpec == Spec /\ \A c \in Calls : WF_vars(Step(c))

-----------------------------------------------------------------------------
(* What the loader promises.                                                *)

TypeOK ==
  /\ file \in File
  /\ lock \in Calls \cup {NoCall}
  /\ pc \in [Calls -> Pc]
  /\ val \in [Calls -> SUBSET Items]
  /\ tries \in [Calls -> 0..2]
  /\ aliased \subseteq Calls /\ nested \subseteq Calls
  /\ attached \subseteq Calls /\ tmps \subseteq Calls
  /\ defaults \in [Processes -> SUBSET Items]
  /\ published \subseteq Calls

\* Between its lock and its release a live call is the one holder of the lock,
\* whatever crashes, aborts, failures and take-overs happened before.
LockExclusive == \A c \in Calls : pc[c] \in Critical => lock = c

\* An edit that updateConfig reported as done is in the file: no other call
\* may drop it.  The edits here are of different items.
EffectHolds(c) ==
  CASE EditOf[c] = "add"    -> ItemOf[c] \in file.items
    [] EditOf[c] = "remove" -> ItemOf[c] \notin file.items
    [] OTHER                -> TRUE

AckedUpdatesStand ==
  \A c \in Calls : Kind[c] = "update" /\ pc[c] = "done" => EffectHolds(c)

\* The lock is always free again: no failure, abort or crash keeps it.
LockComesBack == []<>LockFree

-----------------------------------------------------------------------------
(* The register the file implements.                                        *)

registerOutcome ==
  [c \in Calls |-> IF pc[c] \in {"done", "failed"} THEN pc[c] ELSE "pending"]

Register == INSTANCE ConfigRegister WITH
  Callers <- Calls, Initial <- Stored, Edited <- Edited,
  value <- file.items, applied <- published, outcome <- registerOutcome

\* With updateConfig and readConfig alone, on a file that exists, the file is
\* a register that edits change one at a time, all of an edit or nothing.
ImplementsRegister == Register!RSpec
=============================================================================
