------------------------- MODULE ConfigStoreProofs -------------------------
(***************************************************************************)
(* The lock of the loader excludes for every set of calls and processes,   *)
(* and updateConfig implements ConfigRegister whenever it is not mixed     *)
(* with bare rewrites and the file exists.  The pairs of OAuth connections *)
(* keep up whoever writes connections.json back.                           *)
(***************************************************************************)
EXTENDS ConfigStore, OAuthRefresh, TLAPS

\* The edits of the callers stay within the items.
LEMMA EditedType ==
  ASSUME NEW c \in Calls, NEW v \in SUBSET Items
  PROVE  Edited(c, v) \in SUBSET Items
BY CallAssumption DEF Edited

\* Holding the lock is inductive with the types alone: a call becomes critical
\* only by taking the lock, and a lock is taken only when it is free or its
\* holder has crashed, who is then no longer critical.
IInv == TypeOK /\ LockExclusive

LEMMA InitIInv == Init => IInv
<1> SUFFICES ASSUME Init PROVE IInv
  OBVIOUS
<1>1. file \in File
  BY CallAssumption DEF Init, File, Missing, Content
<1>2. TypeOK
  BY <1>1, CallAssumption DEF Init, TypeOK, Pc, Resting
<1>3. LockExclusive
  BY DEF Init, LockExclusive, Critical
<1> QED BY <1>2, <1>3 DEF IInv

\* A step of readConfig's caller: what Received leaves well-typed.
LEMMA ReceivedType ==
  ASSUME TypeOK, NEW c \in Calls, NEW v \in SUBSET Items, NEW shared \in BOOLEAN,
         Received(c, v, shared)
  PROVE  /\ pc' \in [Calls -> Pc]
         /\ val' \in [Calls -> SUBSET Items]
         /\ aliased' \subseteq Calls
         /\ defaults' \in [Processes -> SUBSET Items]
<1>1. Edited(c, v) \in SUBSET Items
  BY EditedType
<1>2. pc' \in [Calls -> Pc]
  BY DEF Received, Goto, TypeOK, Pc, Resting
<1>3. ProcOf[c] \in Processes
  BY CallAssumption
<1>4. CASE Kind[c] = "read"
  BY <1>2, <1>4 DEF Received, TypeOK
<1>5. CASE Kind[c] # "read"
  <2>1. val' \in [Calls -> SUBSET Items]
    BY <1>1, <1>5 DEF Received, TypeOK
  <2>2. aliased' \subseteq Calls
    BY <1>5 DEF Received, TypeOK
  <2>3. defaults' \in [Processes -> SUBSET Items]
    BY <1>1, <1>3, <1>5 DEF Received, TypeOK
  <2> QED BY <1>2, <2>1, <2>2, <2>3
<1> QED BY <1>4, <1>5

LEMMA StepType ==
  ASSUME TypeOK, [Next]_vars
  PROVE  TypeOK'
<1> USE DEF TypeOK
<1>1. CASE UNCHANGED vars
  BY <1>1 DEF vars
<1>2. ASSUME NEW c \in Calls, Begin(c) PROVE TypeOK'
  BY <1>2 DEF Begin, Goto, Pc
<1>3. ASSUME NEW c \in Calls, ReadValue(c) PROVE TypeOK'
  <2>1. file.items \in SUBSET Items
    BY DEF File
  <2> QED BY <1>3, <2>1, ReceivedType DEF ReadValue
<1>4. ASSUME NEW c \in Calls, ReadEmptyAgain(c) PROVE TypeOK'
  BY <1>4 DEF ReadEmptyAgain
<1>5. ASSUME NEW c \in Calls, ReadEmpty(c) PROVE TypeOK'
  <2>1. defaults[ProcOf[c]] \in SUBSET Items
    BY CallAssumption
  <2> QED BY <1>5, <2>1, ReceivedType DEF ReadEmpty
<1>6. ASSUME NEW c \in Calls, ReadMissing(c) PROVE TypeOK'
  BY <1>6 DEF ReadMissing, Goto, Pc
<1>7. ASSUME NEW c \in Calls, Probe(c) PROVE TypeOK'
  BY <1>7 DEF Probe, Goto, Pc
<1>8. ASSUME NEW c \in Calls, SeedOpen(c) PROVE TypeOK'
  BY <1>8 DEF SeedOpen, Goto, Pc, File, Truncated
<1>9. ASSUME NEW c \in Calls, SeedFill(c) PROVE TypeOK'
  <2>1. defaults[ProcOf[c]] \in SUBSET Items
    BY CallAssumption
  <2>2. file' \in File
    BY <1>9, <2>1 DEF SeedFill, File, Content
  <2> QED BY <1>9, <2>2 DEF SeedFill, Goto, Pc
<1>10. ASSUME NEW c \in Calls, Lock(c) PROVE TypeOK'
  BY <1>10 DEF Lock, Goto, Pc, Critical
<1>11. ASSUME NEW c \in Calls, LockFails(c) PROVE TypeOK'
  BY <1>11 DEF LockFails, Goto, Pc, Resting
<1>12. ASSUME NEW c \in Calls, Edit(c) PROVE TypeOK'
  <2>1. PICK v \in SUBSET Items : EditOn(c, v)
    BY <1>12, CallAssumption DEF Edit, File
  <2>2. Edited(c, v) \in SUBSET Items
    BY EditedType
  <2> QED BY <1>12, <2>1, <2>2 DEF Edit, EditOn, Goto, Pc, Critical
<1>13. ASSUME NEW c \in Calls, EditAborts(c) PROVE TypeOK'
  BY <1>13 DEF EditAborts, Goto, Pc, Critical
<1>14. ASSUME NEW c \in Calls, WriteTmp(c) PROVE TypeOK'
  <2>1. ValueOf(c) \in SUBSET Items
    BY CallAssumption DEF ValueOf
  <2> QED BY <1>14, <2>1 DEF WriteTmp, Goto, Pc, Critical
<1>15. ASSUME NEW c \in Calls, PublishFails(c) PROVE TypeOK'
  BY <1>15 DEF PublishFails, Goto, Pc, Critical
<1>16. ASSUME NEW c \in Calls, Rename(c) PROVE TypeOK'
  <2>1. file' \in File
    BY <1>16 DEF Rename, File, Content
  <2> QED BY <1>16, <2>1 DEF Rename, Goto, Pc, Critical
<1>17. ASSUME NEW c \in Calls, Release(c) PROVE TypeOK'
  <2>1. CASE c \in nested
    <3>1. defaults[ProcOf[c]] \in SUBSET Items
      BY CallAssumption
    <3> QED BY <1>17, <2>1, <3>1, ReceivedType DEF Release
  <2>2. CASE c \notin nested
    BY <1>17, <2>2 DEF Release, Goto, Pc, Resting
  <2> QED BY <2>1, <2>2
<1>18. ASSUME NEW c \in Calls, ReleaseFailed(c) PROVE TypeOK'
  BY <1>18 DEF ReleaseFailed, Goto, Pc, Resting
<1>19. ASSUME NEW p \in Crashing, Crash(p) PROVE TypeOK'
  BY <1>19 DEF Crash, Pc, Resting
<1> QED
  BY <1>1, <1>2, <1>3, <1>4, <1>5, <1>6, <1>7, <1>8, <1>9, <1>10, <1>11, <1>12,
     <1>13, <1>14, <1>15, <1>16, <1>17, <1>18, <1>19 DEF Next, Step

LEMMA StepExclusive ==
  ASSUME IInv, [Next]_vars
  PROVE  LockExclusive'
<1> USE DEF IInv, TypeOK, LockExclusive
\* Most steps move one call, to a place that is not critical or within the
\* critical section, and leave the lock alone.
<1>1. ASSUME NEW c \in Calls, NEW w \in Pc,
             lock' = lock, pc' = [pc EXCEPT ![c] = w],
             w \in Critical => pc[c] \in Critical
      PROVE  LockExclusive'
  BY <1>1
<1>2. CASE UNCHANGED vars
  BY <1>2 DEF vars
<1>3. ASSUME NEW c \in Calls, Begin(c) PROVE LockExclusive'
  BY <1>3 DEF Begin, Goto, Critical
<1>4. ASSUME NEW c \in Calls, ReadValue(c) \/ ReadEmpty(c) PROVE LockExclusive'
  BY <1>4 DEF ReadValue, ReadEmpty, Received, Goto, Critical
<1>5. ASSUME NEW c \in Calls, ReadEmptyAgain(c) PROVE LockExclusive'
  BY <1>5 DEF ReadEmptyAgain
<1>6. ASSUME NEW c \in Calls, ReadMissing(c) \/ Probe(c) PROVE LockExclusive'
  BY <1>6 DEF ReadMissing, Probe, Goto, Critical
<1>7. ASSUME NEW c \in Calls, SeedOpen(c) \/ SeedFill(c) PROVE LockExclusive'
  BY <1>7 DEF SeedOpen, SeedFill, Goto, Critical
<1>8. ASSUME NEW c \in Calls, Lock(c) PROVE LockExclusive'
  <2>1. \A d \in Calls : pc[d] \notin Critical
    BY <1>8, CallAssumption DEF Lock, LockFree, Critical
  <2> QED BY <1>8, <2>1 DEF Lock, Goto
<1>9. ASSUME NEW c \in Calls, LockFails(c) PROVE LockExclusive'
  BY <1>9 DEF LockFails, Goto, Critical
<1>10. ASSUME NEW c \in Calls, Edit(c) PROVE LockExclusive'
  BY <1>10 DEF Edit, EditOn, Goto, Critical
<1>11. ASSUME NEW c \in Calls, EditAborts(c) PROVE LockExclusive'
  BY <1>11 DEF EditAborts, Goto, Critical
<1>12. ASSUME NEW c \in Calls, WriteTmp(c) \/ PublishFails(c) \/ Rename(c)
       PROVE  LockExclusive'
  BY <1>12 DEF WriteTmp, PublishFails, Rename, Goto, Critical
<1>13. ASSUME NEW c \in Calls, Release(c) PROVE LockExclusive'
  <2>1. \A d \in Calls : d # c => pc[d] \notin Critical
    BY <1>13 DEF Release, Critical
  <2> QED BY <1>13, <2>1 DEF Release, Received, Goto, Critical
<1>14. ASSUME NEW c \in Calls, ReleaseFailed(c) PROVE LockExclusive'
  <2>1. \A d \in Calls : d # c => pc[d] \notin Critical
    BY <1>14 DEF ReleaseFailed, Critical
  <2> QED BY <1>14, <2>1 DEF ReleaseFailed, Goto, Critical
<1>15. ASSUME NEW p \in Crashing, Crash(p) PROVE LockExclusive'
  BY <1>15 DEF Crash, Critical
<1> QED
  BY <1>2, <1>3, <1>4, <1>5, <1>6, <1>7, <1>8, <1>9, <1>10, <1>11, <1>12, <1>13,
     <1>14, <1>15 DEF Next, Step

\* The lock of the loader excludes: at any moment at most one live call is
\* between lockfile.lock and release, for any calls, processes and crashes.
THEOREM LockExcludes == Spec => []LockExclusive
<1>1. Init => IInv
  BY InitIInv
<1>2. IInv /\ [Next]_vars => IInv'
  BY StepType, StepExclusive DEF IInv
<1>3. IInv => LockExclusive
  BY DEF IInv
<1> QED BY <1>1, <1>2, <1>3, PTL DEF Spec

-----------------------------------------------------------------------------
(* The register.                                                            *)

\* updateConfig and plain reads, on a file that is there.
UpdatesOnly ==
  /\ ~FirstRun
  /\ \A c \in Calls : \/ Kind[c] = "update"
                      \/ Kind[c] = "read" /\ EditOf[c] = "keep"

Unapplied == {"idle", "reading", "probing", "locking", "editing", "writing",
              "renaming", "aborting", "failed"}

\* Under the lock a call's value is its edit of what the file holds now, and
\* an edit is published at its rename and only then.
RegisterInv ==
  /\ file.kind = "value"
  /\ nested = {} /\ aliased = {}
  /\ \A c \in Calls : pc[c] \notin {"seeding", "filling"}
  /\ \A c \in Calls : pc[c] \in Unapplied => c \notin published
  /\ \A c \in Calls : pc[c] \in {"writing", "renaming"} => val[c] = Edited(c, file.items)
  /\ \A c \in Calls : pc[c] = "releasing" =>
                        c \in published \/ Edited(c, file.items) = file.items
  /\ \A c \in Calls : pc[c] = "reading" => Kind[c] = "read"
  /\ \A c \in Calls : Kind[c] = "read" => pc[c] \in {"idle", "reading", "done", "crashed"}

LEMMA InitRegister == UpdatesOnly /\ Init => RegisterInv
BY DEF UpdatesOnly, Init, RegisterInv, Content, Unapplied

\* A step that only moves a call on, to a place that holds no value of its own.
LEMMA MoveRegister ==
  ASSUME IInv, RegisterInv, NEW c \in Calls, NEW w,
         w \in (Unapplied \ {"reading", "writing", "renaming"}) \cup {"done"},
         w \in Unapplied => c \notin published,
         Kind[c] = "read" => w \in {"idle", "reading", "done"},
         pc' = [pc EXCEPT ![c] = w],
         UNCHANGED <<file, val, nested, aliased, published>>
  PROVE  RegisterInv'
<1>1. \A d \in Calls : pc'[d] = IF d = c THEN w ELSE pc[d]
  BY DEF IInv, TypeOK
<1>2. \A d \in Calls : Edited(d, file'.items) = Edited(d, file.items)
  BY DEF Edited
<1>3. w \notin {"seeding", "filling", "writing", "renaming", "releasing", "reading"}
  BY DEF Unapplied
<1>4. \A d \in Calls : pc'[d] \in Unapplied => d \notin published
  BY <1>1 DEF RegisterInv
<1>5. \A d \in Calls : Kind[d] = "read" => pc'[d] \in {"idle", "reading", "done", "crashed"}
  BY <1>1 DEF RegisterInv
<1> QED BY <1>1, <1>2, <1>3, <1>4, <1>5 DEF RegisterInv

LEMMA StepRegister ==
  ASSUME UpdatesOnly, IInv, RegisterInv, [Next]_vars
  PROVE  RegisterInv'
<1> USE DEF RegisterInv, IInv, TypeOK, Unapplied
<1>1. CASE UNCHANGED vars
  BY <1>1 DEF vars, Edited
<1>2. ASSUME NEW c \in Calls, Begin(c) PROVE RegisterInv'
  BY <1>2 DEF Begin, Goto, Edited, UpdatesOnly
<1>3. ASSUME NEW c \in Calls, ReadValue(c) PROVE RegisterInv'
  <2>1. pc[c] = "reading" /\ Kind[c] = "read"
    BY <1>3 DEF ReadValue
  <2>2. pc' = [pc EXCEPT ![c] = "done"] /\ UNCHANGED <<file, val, nested, aliased, published>>
    BY <1>3, <2>1 DEF ReadValue, Received, Goto
  <2> QED BY <2>1, <2>2, MoveRegister
<1>4. ASSUME NEW c \in Calls, ReadEmptyAgain(c) \/ ReadEmpty(c) \/ ReadMissing(c)
      PROVE  RegisterInv'
  BY <1>4 DEF ReadEmptyAgain, ReadEmpty, ReadMissing
<1>5. ASSUME NEW c \in Calls, Probe(c) PROVE RegisterInv'
  <2>1. /\ pc[c] = "probing" /\ Kind[c] # "read"
        /\ pc' = [pc EXCEPT ![c] = "locking"]
        /\ UNCHANGED <<file, val, nested, aliased, published>>
    BY <1>5 DEF Probe, Goto
  <2> QED BY <2>1, MoveRegister
<1>6. ASSUME NEW c \in Calls, SeedOpen(c) \/ SeedFill(c) PROVE RegisterInv'
  BY <1>6 DEF SeedOpen, SeedFill
<1>7. ASSUME NEW c \in Calls, Lock(c) PROVE RegisterInv'
  <2>1. Kind[c] = "update"
    BY <1>7 DEF Lock, UpdatesOnly
  <2>2. /\ pc[c] = "locking" /\ pc' = [pc EXCEPT ![c] = "editing"]
        /\ UNCHANGED <<file, val, nested, aliased, published>>
    BY <1>7, <2>1 DEF Lock, Goto
  <2> QED BY <2>1, <2>2, MoveRegister
<1>8. ASSUME NEW c \in Calls, LockFails(c) \/ EditAborts(c) PROVE RegisterInv'
  <2>1. PICK w \in {"failed", "aborting"} : pc' = [pc EXCEPT ![c] = w]
    BY <1>8 DEF LockFails, EditAborts, Goto
  <2>2. pc[c] \in {"locking", "editing"} /\ UNCHANGED <<file, val, nested, aliased, published>>
    BY <1>8 DEF LockFails, EditAborts
  <2> QED BY <2>1, <2>2, MoveRegister
<1>9. ASSUME NEW c \in Calls, Edit(c) PROVE RegisterInv'
  <2>1. EditOn(c, file.items)
    BY <1>9 DEF Edit
  <2> QED BY <1>9, <2>1 DEF Edit, EditOn, Goto, Edited
<1>10. ASSUME NEW c \in Calls, WriteTmp(c) PROVE RegisterInv'
  BY <1>10 DEF WriteTmp, ValueOf, Goto, Edited
<1>11. ASSUME NEW c \in Calls, PublishFails(c) PROVE RegisterInv'
  <2>1. /\ pc[c] \in {"writing", "renaming"} /\ pc' = [pc EXCEPT ![c] = "aborting"]
        /\ UNCHANGED <<file, val, nested, aliased, published>>
    BY <1>11 DEF PublishFails, Goto
  <2> QED BY <2>1, MoveRegister
<1>12. ASSUME NEW c \in Calls, Rename(c) PROVE RegisterInv'
  <2>1. \A d \in Calls : d # c => pc[d] \notin Critical
    BY <1>12 DEF Rename, LockExclusive, Critical
  <2>2. file'.kind = "value" /\ c \in published'
    BY <1>12 DEF Rename, Content
  <2> QED BY <1>12, <2>1, <2>2 DEF Rename, Goto, Critical, Edited
<1>13. ASSUME NEW c \in Calls, Release(c) PROVE RegisterInv'
  <2>1. /\ pc[c] = "releasing" /\ pc' = [pc EXCEPT ![c] = "done"]
        /\ UNCHANGED <<file, val, nested, aliased, published>>
    BY <1>13 DEF Release, Goto
  <2> QED BY <2>1, MoveRegister
<1>14. ASSUME NEW c \in Calls, ReleaseFailed(c) PROVE RegisterInv'
  <2>1. /\ pc[c] = "aborting" /\ pc' = [pc EXCEPT ![c] = "failed"]
        /\ UNCHANGED <<file, val, nested, aliased, published>>
    BY <1>14 DEF ReleaseFailed, Goto
  <2> QED BY <2>1, MoveRegister
<1>15. ASSUME NEW p \in Crashing, Crash(p) PROVE RegisterInv'
  BY <1>15 DEF Crash, Edited
<1> QED
  BY <1>1, <1>2, <1>3, <1>4, <1>5, <1>6, <1>7, <1>8, <1>9, <1>10, <1>11, <1>12,
     <1>13, <1>14, <1>15 DEF Next, Step

LEMMA InitMaps == UpdatesOnly /\ Init => Register!RInit
BY DEF UpdatesOnly, Init, Register!RInit, Content, registerOutcome

LEMMA StepMaps ==
  ASSUME UpdatesOnly, IInv, RegisterInv, [Next]_vars
  PROVE  [Register!RNext]_(Register!rvars)
<1> USE DEF RegisterInv, IInv, TypeOK
\* A step that ends no call and publishes nothing is invisible.
<1>1. ASSUME NEW c \in Calls, NEW w \in Pc \ {"done", "failed"},
             pc[c] \notin {"done", "failed"}, pc' = [pc EXCEPT ![c] = w],
             UNCHANGED <<file, published>>
      PROVE  UNCHANGED Register!rvars
  BY <1>1 DEF Register!rvars, registerOutcome
\* A call that ends moves the outcome of its own.
<1>2. ASSUME NEW c \in Calls, NEW w \in {"done", "failed"},
             pc[c] \notin {"done", "failed"}, pc' = [pc EXCEPT ![c] = w]
      PROVE  /\ registerOutcome[c] = "pending"
             /\ registerOutcome' = [registerOutcome EXCEPT ![c] = w]
  BY <1>2 DEF registerOutcome
<1>3. CASE UNCHANGED vars
  BY <1>3 DEF vars, Register!rvars, registerOutcome
<1>4. ASSUME NEW c \in Calls, Begin(c) \/ Probe(c) \/ Lock(c) \/ EditAborts(c)
                                \/ WriteTmp(c) \/ PublishFails(c)
      PROVE  UNCHANGED Register!rvars
  <2>1. UNCHANGED <<file, published>> /\ pc[c] \notin {"done", "failed"}
    BY <1>4 DEF Begin, Probe, Lock, EditAborts, WriteTmp, PublishFails
  <2>2. \E w \in Pc \ {"done", "failed"} : pc' = [pc EXCEPT ![c] = w]
    BY <1>4 DEF Begin, Probe, Lock, EditAborts, WriteTmp, PublishFails, Goto, Pc, Critical
  <2> QED BY <1>1, <2>1, <2>2
<1>5. ASSUME NEW c \in Calls, ReadValue(c) PROVE Register!RNext
  <2>1. Kind[c] = "read" /\ EditOf[c] = "keep"
    BY <1>5 DEF ReadValue, UpdatesOnly
  <2>2. pc[c] = "reading" /\ pc' = [pc EXCEPT ![c] = "done"]
    BY <1>5, <2>1 DEF ReadValue, Received, Goto
  <2>3. Register!Report(c)
    BY <1>5, <2>1, <2>2, <1>2 DEF ReadValue, Register!Report, Edited
  <2> QED BY <2>3 DEF Register!RNext
<1>6. ASSUME NEW c \in Calls, LockFails(c) \/ ReleaseFailed(c) PROVE Register!RNext
  <2>1. /\ pc[c] \in {"locking", "aborting"} /\ pc' = [pc EXCEPT ![c] = "failed"]
        /\ UNCHANGED <<file, published>>
    BY <1>6 DEF LockFails, ReleaseFailed, Goto
  <2>2. c \notin published
    BY <2>1 DEF Unapplied
  <2>3. Register!Refuse(c)
    BY <2>1, <2>2, <1>2 DEF Register!Refuse
  <2> QED BY <2>3 DEF Register!RNext
<1>7. ASSUME NEW c \in Calls, Edit(c) PROVE UNCHANGED Register!rvars
  <2>1. UNCHANGED <<file, published>> /\ pc[c] = "editing"
    BY <1>7 DEF Edit
  <2>2. \E w \in Pc \ {"done", "failed"} : pc' = [pc EXCEPT ![c] = w]
    BY <1>7 DEF Edit, EditOn, Goto, Pc, Critical
  <2> QED BY <1>1, <2>1, <2>2
<1>8. ASSUME NEW c \in Calls, Rename(c) PROVE Register!RNext
  <2>1. pc[c] = "renaming" /\ pc' = [pc EXCEPT ![c] = "releasing"]
    BY <1>8 DEF Rename, Goto
  <2>2. c \notin published /\ val[c] = Edited(c, file.items)
    BY <2>1 DEF Unapplied
  <2>3. file'.items = Edited(c, file.items) /\ published' = published \cup {c}
    BY <1>8, <2>2 DEF Rename, Content
  <2>4. registerOutcome[c] = "pending" /\ UNCHANGED registerOutcome
    BY <2>1 DEF registerOutcome
  <2>5. Register!Apply(c)
    BY <2>2, <2>3, <2>4 DEF Register!Apply
  <2> QED BY <2>5 DEF Register!RNext
<1>9. ASSUME NEW c \in Calls, Release(c) PROVE Register!RNext
  <2>1. /\ pc[c] = "releasing" /\ pc' = [pc EXCEPT ![c] = "done"]
        /\ UNCHANGED <<file, published>>
    BY <1>9 DEF Release, Goto
  <2>2. Register!Report(c)
    BY <2>1, <1>2 DEF Register!Report
  <2> QED BY <2>2 DEF Register!RNext
<1>10. ASSUME NEW p \in Crashing, Crash(p) PROVE UNCHANGED Register!rvars
  BY <1>10 DEF Crash, Register!rvars, registerOutcome
<1>11. ASSUME NEW c \in Calls PROVE
         /\ ~ReadEmptyAgain(c) /\ ~ReadEmpty(c) /\ ~ReadMissing(c)
         /\ ~SeedOpen(c) /\ ~SeedFill(c)
  BY DEF ReadEmptyAgain, ReadEmpty, ReadMissing, SeedOpen, SeedFill
<1> QED
  BY <1>3, <1>4, <1>5, <1>6, <1>7, <1>8, <1>9, <1>10, <1>11 DEF Next, Step

\* updateConfig loses no edit: as long as every writer goes through it, any
\* number of calls, failures and crashes leave the file a register whose edits
\* are applied one at a time, to the value they find, all or nothing.
THEOREM UpdatesImplementRegister ==
  ASSUME UpdatesOnly
  PROVE  Spec => ImplementsRegister
<1>1. Init => IInv /\ RegisterInv /\ Register!RInit
  BY InitIInv, InitRegister, InitMaps
<1>2. IInv /\ RegisterInv /\ [Next]_vars => IInv' /\ RegisterInv'
  BY StepType, StepExclusive, StepRegister DEF IInv
<1>3. IInv /\ RegisterInv /\ [Next]_vars => [Register!RNext]_(Register!rvars)
  BY StepMaps
<1> QED BY <1>1, <1>2, <1>3, PTL DEF Spec, ImplementsRegister, Register!RSpec

-----------------------------------------------------------------------------
(* The acknowledged edits.                                                  *)

\* No two calls edit one item.
DifferentItems ==
  \A c, d \in Calls :
    c # d /\ EditOf[c] # "keep" /\ EditOf[d] # "keep" => ItemOf[c] # ItemOf[d]

\* What holds when an update is done holds from its rename on.
Standing ==
  \A c \in Calls : Kind[c] = "update" /\ pc[c] \in {"releasing", "done"} => EffectHolds(c)

LEMMA StepStanding ==
  ASSUME UpdatesOnly, DifferentItems, IInv, RegisterInv, Standing, [Next]_vars
  PROVE  Standing'
<1> USE DEF IInv, TypeOK, Standing
\* Most steps leave the file alone and make nobody done.
<1>1. ASSUME NEW c \in Calls, NEW w, UNCHANGED file, pc' = [pc EXCEPT ![c] = w],
             w \in {"releasing", "done"} =>
               Kind[c] = "read" \/ pc[c] = "releasing" \/ EffectHolds(c)
      PROVE  Standing'
  BY <1>1 DEF EffectHolds
<1>2. CASE UNCHANGED vars
  BY <1>2 DEF vars, EffectHolds
<1>3. ASSUME NEW c \in Calls, Begin(c) \/ Probe(c) \/ Lock(c) \/ LockFails(c) \/ EditAborts(c)
                                \/ WriteTmp(c) \/ PublishFails(c) \/ ReleaseFailed(c)
      PROVE  Standing'
  BY <1>1, <1>3
  DEF Begin, Probe, Lock, LockFails, EditAborts, WriteTmp, PublishFails, ReleaseFailed, Goto,
      RegisterInv
<1>4. ASSUME NEW c \in Calls, ReadValue(c) PROVE Standing'
  BY <1>1, <1>4 DEF ReadValue, Received, Goto, RegisterInv
<1>5. ASSUME NEW c \in Calls, Edit(c) PROVE Standing'
  <2>1. EditOn(c, file.items) /\ UNCHANGED file
    BY <1>5 DEF Edit, RegisterInv
  <2>2. Edited(c, file.items) = file.items => EffectHolds(c)
    BY DEF Edited, EffectHolds
  <2> QED BY <1>1, <2>1, <2>2 DEF EditOn, Goto
<1>6. ASSUME NEW c \in Calls, Rename(c) PROVE Standing'
  <2>1. file'.items = Edited(c, file.items) /\ pc' = [pc EXCEPT ![c] = "releasing"]
    BY <1>6 DEF Rename, Content, Goto, RegisterInv
  <2>2. EffectHolds(c)'
    BY <2>1 DEF Edited, EffectHolds
  <2>3. ASSUME NEW d \in Calls, d # c, EffectHolds(d)
        PROVE  EffectHolds(d)'
    BY <2>1, <2>3, CallAssumption DEF Edited, EffectHolds, DifferentItems
  <2> QED BY <2>1, <2>2, <2>3
<1>7. ASSUME NEW c \in Calls, Release(c) PROVE Standing'
  BY <1>1, <1>7 DEF Release, Goto, RegisterInv
<1>8. ASSUME NEW p \in Crashing, Crash(p) PROVE Standing'
  BY <1>8 DEF Crash, EffectHolds
<1>9. ASSUME NEW c \in Calls PROVE
        /\ ~ReadEmptyAgain(c) /\ ~ReadEmpty(c) /\ ~ReadMissing(c)
        /\ ~SeedOpen(c) /\ ~SeedFill(c)
  BY DEF ReadEmptyAgain, ReadEmpty, ReadMissing, SeedOpen, SeedFill, RegisterInv
<1> QED
  BY <1>2, <1>3, <1>4, <1>5, <1>6, <1>7, <1>8, <1>9 DEF Next, Step

\* An edit that updateConfig has reported stays in the file: whatever other
\* calls edit, fail or die, as long as every writer goes through updateConfig.
THEOREM AcknowledgedEditsStand ==
  ASSUME UpdatesOnly, DifferentItems
  PROVE  Spec => []AckedUpdatesStand
<1>1. Init => IInv /\ RegisterInv /\ Standing
  BY InitIInv, InitRegister DEF Init, Standing
<1>2. IInv /\ RegisterInv /\ Standing /\ [Next]_vars => IInv' /\ RegisterInv' /\ Standing'
  BY StepType, StepExclusive, StepRegister, StepStanding DEF IInv
<1>3. Standing => AckedUpdatesStand
  BY DEF Standing, AckedUpdatesStand
<1> QED BY <1>1, <1>2, <1>3, PTL DEF Spec

-----------------------------------------------------------------------------
(* connections.json and its OAuth pairs, which are read and written back     *)
(* without the lock.  A task that was given a pair is the only one to know   *)
(* it until it has written it to the file: no request can use that pair up,  *)
(* and the older copies of the file do not have it.                          *)

\* What a piece of work has in hand.
Holding(w, c) == w.at \in {"granted", "merging"} /\ w.conn = c
Copying(w)    == w.at \in {"merging", "editing"}
Using(w, c)   == w.at \in {"posting", "again"} /\ w.conn = c

\* Work that will write its pair to the file if nothing goes wrong.
Keeping(w, c) == Holding(w, c) /\ (w.at = "merging" => w.copy[c] # Gone)

\* A pair that was issued; one that does not rotate is accepted for good.
Worth(c, p, iss, lv) == p \in 0..iss[c] /\ (c \notin Rotating => p \in lv[c] \cup {0})

WorthyWork(w, iss, lv) ==
  \A c \in Connections :
    /\ Using(w, c) => Worth(c, w.with, iss, lv)
    /\ Copying(w) => Worth(c, w.copy[c].pair, iss, lv)
    /\ Holding(w, c) => Worth(c, w.got, iss, lv)

\* Work that does not know the pair p.
Apart(w, c, p) ==
  /\ Copying(w) => w.copy[c].pair # p
  /\ Using(w, c) => w.with # p

\* The pair a task was given is accepted, and known to it alone.
Fresh(f, lv, tk) ==
  \A c \in Rotating, t \in Tasks :
    Holding(tk[t], c) =>
      /\ tk[t].got \in lv[c] /\ f[c].pair # tk[t].got
      /\ \A u \in Tasks : /\ Apart(tk[u], c, tk[t].got)
                          /\ u # t /\ Holding(tk[u], c) => tk[u].got # tk[t].got

Up(f, lv, tk, ex) ==
  \A c \in Rotating :
    \/ f[c] = Gone
    \/ ex[c] # "none"
    \/ f[c].pair \in lv[c]
    \/ \E t \in Tasks : Keeping(tk[t], c) /\ tk[t].got \in lv[c]

Worthy(f, iss, lv, tk) ==
  /\ \A c \in Connections : Worth(c, f[c].pair, iss, lv)
  /\ \A t \in Tasks : WorthyWork(tk[t], iss, lv)

RefreshInv ==
  /\ OAuthTypeOK
  /\ Worthy(tokens, issued, live, task)
  /\ Fresh(tokens, live, task)
  /\ Up(tokens, live, task, excuse)

-----------------------------------------------------------------------------
(* Lemmas about the records.                                                *)

LEMMA StoredShape ==
  ASSUME NEW s \in StoredPair
  PROVE  /\ s.pair \in 0..MaxPair /\ (s.pair = 0 <=> s = Gone)
         /\ s # Gone => s.pair \in Pairs /\ s.age \in {"fresh", "due", "unknown"}
         /\ s.age # "gone" => s # Gone
BY OAuthAssumption DEF StoredPair, Gone, Pairs

LEMMA WorkShape ==
  ASSUME NEW w \in Work
  PROVE  /\ w.at \in {"posting", "again"} => w.conn \in Connections /\ w.with \in Pairs
         /\ w.at \in {"granted", "merging"} => w.conn \in Connections /\ w.got \in Pairs
         /\ w.at \in {"merging", "editing"} => w.copy \in [Connections -> StoredPair]
BY DEF Work

\* The work there is.
LEMMA IdleWork == Idle \in Work /\ Idle.at = "idle"
BY DEF Work, Idle

LEMMA PostingWork ==
  ASSUME NEW c \in Connections, NEW p \in Pairs
  PROVE  [at |-> "posting", conn |-> c, with |-> p] \in Work
BY DEF Work

LEMMA AgainWork ==
  ASSUME NEW w \in Work, w.at = "posting"
  PROVE  LET n == [w EXCEPT !.at = "again"]
         IN  n \in Work /\ n.at = "again" /\ n.conn = w.conn /\ n.with = w.with
<1>1. w \in [at : {"posting", "again"}, conn : Connections, with : Pairs]
  BY DEF Work
<1> DEFINE n == [w EXCEPT !.at = "again"]
<1>2. /\ n \in [at : {"posting", "again"}, conn : Connections, with : Pairs]
      /\ n.at = "again" /\ n.conn = w.conn /\ n.with = w.with
  BY <1>1
<1> QED BY <1>2 DEF Work

LEMMA GrantedWork ==
  ASSUME NEW c \in Connections, NEW p \in Pairs
  PROVE  [at |-> "granted", conn |-> c, got |-> p] \in Work
BY DEF Work

LEMMA MergingWork ==
  ASSUME NEW c \in Connections, NEW p \in Pairs, NEW f \in [Connections -> StoredPair]
  PROVE  [at |-> "merging", conn |-> c, got |-> p, copy |-> f] \in Work
BY DEF Work

LEMMA EditingWork ==
  ASSUME NEW f \in [Connections -> StoredPair]
  PROVE  [at |-> "editing", copy |-> f] \in Work
BY DEF Work

-----------------------------------------------------------------------------
(* Steps that leave the file and the provider alone.                        *)

\* A task gives up what it holds only with an excuse.
LEMMA StillStep ==
  ASSUME RefreshInv, NEW t \in Tasks, NEW w \in Work, task' = [task EXCEPT ![t] = w],
         UNCHANGED <<tokens, live, issued>>, excuse' \in [Connections -> Excuses],
         \A c \in Rotating : excuse'[c] = "none" => excuse[c] = "none",
         WorthyWork(w, issued, live),
         \A c \in Rotating :
           /\ Holding(w, c) => Holding(task[t], c) /\ w.got = task[t].got
           /\ Keeping(task[t], c) => tokens[c] = Gone \/ excuse'[c] # "none" \/ Keeping(w, c),
         \A c \in Rotating, s \in Tasks : Holding(task[s], c) => Apart(w, c, task[s].got)
  PROVE  RefreshInv'
<1>1. task' \in [Tasks -> Work] /\ \A s \in Tasks : task'[s] = IF s = t THEN w ELSE task[s]
  BY DEF RefreshInv, OAuthTypeOK
<1>2. OAuthTypeOK'
  BY <1>1 DEF RefreshInv, OAuthTypeOK
<1>3. Worthy(tokens, issued, live, task')
  BY <1>1 DEF RefreshInv, Worthy
<1>4. \A c \in Rotating, s \in Tasks :
        Holding(task'[s], c) => Holding(task[s], c) /\ task'[s].got = task[s].got
  BY <1>1, OAuthAssumption
<1>5. Fresh(tokens, live, task')
  <2> SUFFICES ASSUME NEW c \in Rotating, NEW s \in Tasks, Holding(task'[s], c)
               PROVE  /\ task'[s].got \in live[c] /\ tokens[c].pair # task'[s].got
                      /\ \A u \in Tasks :
                           /\ Apart(task'[u], c, task'[s].got)
                           /\ u # s /\ Holding(task'[u], c) => task'[u].got # task'[s].got
    BY DEF Fresh
  <2>1. Holding(task[s], c) /\ task'[s].got = task[s].got
    BY <1>4
  <2>2. \A u \in Tasks : Apart(task'[u], c, task[s].got)
    BY <1>1, <2>1 DEF RefreshInv, Fresh
  <2>3. \A u \in Tasks : u # s /\ Holding(task'[u], c) => task'[u].got # task[s].got
    BY <1>4, <2>1 DEF RefreshInv, Fresh
  <2> QED BY <2>1, <2>2, <2>3 DEF RefreshInv, Fresh
<1>6. Up(tokens, live, task', excuse')
  <2> SUFFICES ASSUME NEW c \in Rotating, tokens[c] # Gone, excuse'[c] = "none",
                      tokens[c].pair \notin live[c]
               PROVE  \E s \in Tasks : Keeping(task'[s], c) /\ task'[s].got \in live[c]
    BY DEF Up
  <2>1. PICK s \in Tasks : Keeping(task[s], c) /\ task[s].got \in live[c]
    BY DEF RefreshInv, Up
  <2>2. Keeping(task'[s], c)
    BY <1>1, <2>1, OAuthAssumption
  <2>3. task'[s].got = task[s].got
    BY <1>4, <2>2 DEF Keeping
  <2> QED BY <2>1, <2>2, <2>3
<1> QED BY <1>2, <1>3, <1>5, <1>6 DEF RefreshInv

LEMMA QuietStep ==
  ASSUME RefreshInv, NEW t \in Tasks, NEW w \in Work, task' = [task EXCEPT ![t] = w],
         UNCHANGED <<tokens, live, issued, excuse>>,
         WorthyWork(w, issued, live),
         \A c \in Rotating :
           /\ Holding(w, c) => Holding(task[t], c) /\ w.got = task[t].got
           /\ Keeping(task[t], c) => tokens[c] = Gone \/ Keeping(w, c),
         \A c \in Rotating, s \in Tasks : Holding(task[s], c) => Apart(w, c, task[s].got)
  PROVE  RefreshInv'
<1>1. excuse' \in [Connections -> Excuses]
  BY DEF RefreshInv, OAuthTypeOK
<1> QED BY <1>1, StillStep

LEMMA ResolveKeeps ==
  ASSUME RefreshInv, NEW t \in Tasks, Resolve(t)
  PROVE  RefreshInv'
<1>1. PICK c \in Connections :
        tokens[c].age = "due" /\ Does(t, [at |-> "posting", conn |-> c, with |-> tokens[c].pair])
  BY DEF Resolve
<1> DEFINE w == [at |-> "posting", conn |-> c, with |-> tokens[c].pair]
<1>2. tokens[c].pair \in Pairs
  BY <1>1, StoredShape DEF RefreshInv, OAuthTypeOK
<1>3. w \in Work
  BY <1>2, PostingWork
<1>4. w.at = "posting" /\ w.conn = c /\ w.with = tokens[c].pair /\ task' = [task EXCEPT ![t] = w]
  BY <1>1 DEF Does
<1> HIDE DEF w
<1>5. WorthyWork(w, issued, live)
  BY <1>4 DEF WorthyWork, Using, Copying, Holding, RefreshInv, Worthy
<1>6. \A d : ~Holding(w, d) /\ ~Keeping(task[t], d)
  BY <1>4 DEF Holding, Keeping, Resolve
<1>7. \A d \in Rotating, s \in Tasks : Holding(task[s], d) => Apart(w, d, task[s].got)
  BY <1>4 DEF Apart, Copying, Using, RefreshInv, Fresh
<1> QED BY <1>3, <1>4, <1>5, <1>6, <1>7, QuietStep DEF Resolve

\* A refresh that failed, or that used no token up.
LEMMA FailsKeeps ==
  ASSUME RefreshInv, NEW t \in Tasks, Posting(t), Fails(t), UNCHANGED <<tokens, live, issued, excuse>>
  PROVE  RefreshInv'
<1>1. task[t] \in Work
  BY DEF RefreshInv, OAuthTypeOK
<1>2. PICK w \in Work : /\ task' = [task EXCEPT ![t] = w]
                        /\ w.at = "idle" \/ (w.at = "again" /\ w.conn = task[t].conn
                                             /\ w.with = task[t].with)
  BY <1>1, IdleWork, AgainWork DEF Fails, Does
<1>3. \A d : ~Holding(w, d) /\ ~Keeping(task[t], d)
  BY <1>2 DEF Holding, Keeping, Posting
<1>4. ~Copying(w) /\ \A d : Using(w, d) => Using(task[t], d) /\ w.with = task[t].with
  BY <1>2 DEF Copying, Using, Posting
<1>5. WorthyWork(w, issued, live)
  BY <1>3, <1>4 DEF WorthyWork, RefreshInv, Worthy
<1>6. \A d \in Rotating, s \in Tasks : Holding(task[s], d) => Apart(w, d, task[s].got)
  BY <1>4 DEF Apart, RefreshInv, Fresh
<1> QED BY <1>2, <1>3, <1>5, <1>6, QuietStep

LEMMA ReadBackKeeps ==
  ASSUME RefreshInv, NEW t \in Tasks, ReadBack(t)
  PROVE  RefreshInv'
<1> DEFINE w == [at |-> "merging", conn |-> task[t].conn, got |-> task[t].got, copy |-> tokens]
<1>1. w \in Work
  BY MergingWork, WorkShape DEF RefreshInv, OAuthTypeOK, ReadBack
<1>2. /\ w.at = "merging" /\ w.conn = task[t].conn /\ w.got = task[t].got /\ w.copy = tokens
      /\ task' = [task EXCEPT ![t] = w]
  BY DEF ReadBack, Does
<1> HIDE DEF w
<1>3. \A d : Holding(w, d) <=> Holding(task[t], d)
  BY <1>2 DEF Holding, ReadBack
<1>4. WorthyWork(w, issued, live)
  BY <1>2, <1>3 DEF WorthyWork, RefreshInv, Worthy, Using
<1>5. \A d : Keeping(task[t], d) => tokens[d] = Gone \/ Keeping(w, d)
  BY <1>2, <1>3 DEF Keeping
<1>6. \A d \in Rotating, s \in Tasks : Holding(task[s], d) => Apart(w, d, task[s].got)
  BY <1>2 DEF Apart, Using, RefreshInv, Fresh
<1> QED BY <1>1, <1>2, <1>3, <1>4, <1>5, <1>6, QuietStep DEF ReadBack

LEMMA KeepFailsKeeps ==
  ASSUME RefreshInv, NEW t \in Tasks, KeepFails(t)
  PROVE  RefreshInv'
<1>1. task[t] \in Work /\ task[t].conn \in Connections /\ task[t].at \in {"granted", "merging"}
  BY WorkShape DEF RefreshInv, OAuthTypeOK, KeepFails
<1>2. /\ task' = [task EXCEPT ![t] = Idle] /\ UNCHANGED <<tokens, live, issued>>
      /\ excuse' \in [Connections -> Excuses]
      /\ \A c \in Rotating : excuse'[c] = IF c = task[t].conn THEN "dropped" ELSE excuse[c]
  BY <1>1, OAuthAssumption DEF KeepFails, Does, RefreshInv, OAuthTypeOK, Excuses
<1>3. \A c, p : ~Using(Idle, c) /\ ~Holding(Idle, c) /\ ~Copying(Idle) /\ Apart(Idle, c, p)
  BY DEF Idle, Using, Holding, Copying, Apart
<1>4. WorthyWork(Idle, issued, live)
  BY <1>3 DEF WorthyWork
<1>5. \A c \in Rotating : Keeping(task[t], c) => excuse'[c] # "none"
  BY <1>2 DEF Keeping, Holding
<1>6. \A c \in Rotating : excuse'[c] = "none" => excuse[c] = "none"
  BY <1>2
<1>7. \A c \in Rotating :
        /\ Holding(Idle, c) => Holding(task[t], c) /\ Idle.got = task[t].got
        /\ Keeping(task[t], c) => tokens[c] = Gone \/ excuse'[c] # "none" \/ Keeping(Idle, c)
  BY <1>3, <1>5
<1>8. \A c \in Rotating, s \in Tasks : Holding(task[s], c) => Apart(Idle, c, task[s].got)
  BY <1>3
<1> QED BY <1>2, <1>4, <1>6, <1>7, <1>8, IdleWork, StillStep

LEMMA EditFailsKeeps ==
  ASSUME RefreshInv, NEW t \in Tasks, EditFails(t)
  PROVE  RefreshInv'
<1>1. \A c, p : ~Using(Idle, c) /\ ~Holding(Idle, c) /\ ~Copying(Idle) /\ Apart(Idle, c, p)
  BY DEF Idle, Using, Holding, Copying, Apart
<1>2. WorthyWork(Idle, issued, live)
  BY <1>1 DEF WorthyWork
<1>3. \A c : ~Keeping(task[t], c)
  BY DEF EditFails, Keeping, Holding
<1> QED BY <1>1, <1>2, <1>3, IdleWork, QuietStep DEF EditFails, Does

LEMMA EditReadKeeps ==
  ASSUME RefreshInv, NEW t \in Tasks, EditRead(t)
  PROVE  RefreshInv'
<1> DEFINE w == [at |-> "editing", copy |-> tokens]
<1>1. w \in Work
  BY EditingWork DEF RefreshInv, OAuthTypeOK
<1>2. w.at = "editing" /\ w.copy = tokens /\ task' = [task EXCEPT ![t] = w]
  BY DEF EditRead, Does
<1> HIDE DEF w
<1>3. \A d : ~Holding(w, d) /\ ~Keeping(task[t], d)
  BY <1>2 DEF Holding, Keeping, EditRead
<1>4. WorthyWork(w, issued, live)
  BY <1>2, <1>3 DEF WorthyWork, RefreshInv, Worthy, Using
<1>5. \A d \in Rotating, s \in Tasks : Holding(task[s], d) => Apart(w, d, task[s].got)
  BY <1>2 DEF Apart, Using, RefreshInv, Fresh
<1> QED BY <1>1, <1>2, <1>3, <1>4, <1>5, QuietStep DEF EditRead

LEMMA GrantedForGood ==
  ASSUME RefreshInv, NEW t \in Tasks, Granted(t), task[t].conn \notin Rotating
  PROVE  RefreshInv'
<1> DEFINE w == [at |-> "granted", conn |-> task[t].conn, got |-> task[t].with]
<1>1. w \in Work
  BY GrantedWork, WorkShape DEF RefreshInv, OAuthTypeOK, Granted, Posting
<1>2. /\ w.at = "granted" /\ w.conn = task[t].conn /\ w.got = task[t].with
      /\ task' = [task EXCEPT ![t] = w] /\ UNCHANGED <<tokens, live, issued, excuse>>
  BY DEF Granted, Does, Got, Grant
<1> HIDE DEF w
<1>3. /\ \A d : ~Keeping(task[t], d) /\ ~Using(w, d) /\ ~Copying(w)
      /\ \A d : Holding(w, d) => Using(task[t], d)
      /\ \A d \in Rotating : ~Holding(w, d)
  BY <1>2 DEF Keeping, Holding, Using, Copying, Granted, Posting
<1>4. WorthyWork(w, issued, live)
  BY <1>2, <1>3 DEF WorthyWork, RefreshInv, Worthy
<1>5. \A d \in Rotating, s \in Tasks : Holding(task[s], d) => Apart(w, d, task[s].got)
  BY <1>3 DEF Apart
<1> QED BY <1>1, <1>2, <1>3, <1>4, <1>5, QuietStep

-----------------------------------------------------------------------------
(* Steps that change the file or the provider.                              *)

\* A rotating token is used up, and either the task knows the next one or the
\* connection is excused.
LEMMA SpendStep ==
  ASSUME RefreshInv, NEW t \in Tasks, NEW c \in Rotating, Using(task[t], c),
         task[t].with \in live[c], issued[c] < MaxPair,
         issued' = [issued EXCEPT ![c] = @ + 1],
         live' = [live EXCEPT ![c] = (@ \ {task[t].with}) \cup {issued[c] + 1}],
         NEW w \in Work, task' = [task EXCEPT ![t] = w], UNCHANGED tokens,
         \A d : Using(w, d) => Using(task[t], d) /\ w.with = task[t].with,
         \A d : Holding(w, d) => d = c /\ w.got = issued[c] + 1,
         ~Copying(w),
         \/ excuse' = [excuse EXCEPT ![c] = "lost"]
         \/ UNCHANGED excuse /\ Keeping(w, c)
  PROVE  RefreshInv'
<1> DEFINE new == issued[c] + 1
<1>0. c \in Connections
  BY OAuthAssumption
<1>1. task' \in [Tasks -> Work] /\ \A s \in Tasks : task'[s] = IF s = t THEN w ELSE task[s]
  BY DEF RefreshInv, OAuthTypeOK
<1>2. /\ issued \in [Connections -> Nat] /\ issued' \in [Connections -> Nat]
      /\ new \in Pairs /\ new # 0 /\ issued' \in [Connections -> Pairs]
      /\ issued'[c] = new /\ \A d \in Connections \ {c} : issued'[d] = issued[d]
      /\ \A d \in Connections : issued[d] <= issued'[d]
  BY <1>0, OAuthAssumption DEF RefreshInv, OAuthTypeOK, Pairs
<1>3. /\ live' \in [Connections -> SUBSET Pairs]
      /\ live'[c] = (live[c] \ {task[t].with}) \cup {new}
      /\ \A d \in Connections \ {c} : live'[d] = live[d]
  BY <1>0, <1>2 DEF RefreshInv, OAuthTypeOK
<1>4. OAuthTypeOK'
  <2>1. excuse' \in [Connections -> Excuses]
    BY DEF RefreshInv, OAuthTypeOK, Excuses
  <2> QED BY <1>1, <1>2, <1>3, <2>1 DEF RefreshInv, OAuthTypeOK
<1>5. \A d \in Connections : \A p : Worth(d, p, issued, live) => Worth(d, p, issued', live')
  <2> SUFFICES ASSUME NEW d \in Connections, NEW p, Worth(d, p, issued, live)
               PROVE  Worth(d, p, issued', live')
    OBVIOUS
  <2>1. /\ issued[d] \in Nat /\ issued'[d] \in Nat /\ issued[d] <= issued'[d]
        /\ d \notin Rotating => live[d] \subseteq live'[d]
    BY <1>2, <1>3
  <2> HIDE DEF new
  <2>2. p \in 0..issued'[d]
    BY <2>1 DEF Worth
  <2> QED BY <2>1, <2>2 DEF Worth
<1>6. \A p : Worth(c, p, issued, live) => p # new
  BY <1>0, <1>2 DEF Worth
<1> HIDE DEF new
<1>7. Worthy(tokens, issued', live', task')
  <2>1. \A d \in Connections : Worth(d, tokens[d].pair, issued', live')
    BY <1>5 DEF RefreshInv, Worthy
  <2>2. \A s \in Tasks \ {t} : WorthyWork(task'[s], issued', live')
    BY <1>1, <1>5 DEF RefreshInv, Worthy, WorthyWork
  <2>3. Worth(c, new, issued', live')
    BY <1>0, <1>2 DEF Worth
  <2>4. WorthyWork(w, issued', live')
    BY <1>5, <2>3 DEF RefreshInv, Worthy, WorthyWork, new
  <2> QED BY <1>1, <2>1, <2>2, <2>4 DEF Worthy
<1>8. \A d \in Rotating, s \in Tasks \ {t} :
        Holding(task[s], d) => task[s].got \in live'[d] /\ (d = c => task[s].got # new)
  <2> SUFFICES ASSUME NEW d \in Rotating, NEW s \in Tasks \ {t}, Holding(task[s], d)
               PROVE  task[s].got \in live'[d] /\ (d = c => task[s].got # new)
    OBVIOUS
  <2>1. task[s].got \in live[d] /\ Apart(task[t], d, task[s].got)
    BY DEF RefreshInv, Fresh
  <2>2. d = c => task[s].got # task[t].with
    BY <2>1 DEF Apart
  <2>3. d = c => task[s].got # new
    BY <1>0, <1>6 DEF RefreshInv, Worthy, WorthyWork
  <2> QED BY <1>3, <2>1, <2>2, <2>3, OAuthAssumption
<1>9. tokens[c].pair # new /\ \A u \in Tasks : Apart(task[u], c, new)
  BY <1>0, <1>6 DEF RefreshInv, Worthy, WorthyWork, Apart
<1>10. \A u \in Tasks : \A d, p : Apart(task[u], d, p) => Apart(task'[u], d, p)
  BY <1>1 DEF Apart
<1>11. Fresh(tokens, live', task')
  <2> SUFFICES ASSUME NEW d \in Rotating, NEW s \in Tasks, Holding(task'[s], d)
               PROVE  /\ task'[s].got \in live'[d] /\ tokens[d].pair # task'[s].got
                      /\ \A u \in Tasks :
                           /\ Apart(task'[u], d, task'[s].got)
                           /\ u # s /\ Holding(task'[u], d) => task'[u].got # task'[s].got
    BY DEF Fresh
  <2>1. CASE s = t
    <3>1. d = c /\ task'[s].got = new
      BY <1>1, <2>1 DEF new
    <3>2. \A u \in Tasks : u # s /\ Holding(task'[u], d) => task'[u].got # new
      BY <1>1, <1>8, <2>1, <3>1
    <3> QED BY <1>3, <1>9, <1>10, <3>1, <3>2
  <2>2. CASE s # t
    <3>1. task'[s] = task[s] /\ Holding(task[s], d)
      BY <1>1, <2>2
    <3>2. \A u \in Tasks : u # s /\ Holding(task'[u], d) => task'[u].got # task[s].got
      BY <1>1, <1>8, <2>2, <3>1 DEF RefreshInv, Fresh, new
    <3>3. \A u \in Tasks : Apart(task'[u], d, task[s].got)
      BY <1>10, <3>1 DEF RefreshInv, Fresh
    <3> QED BY <1>8, <2>2, <3>1, <3>2, <3>3 DEF RefreshInv, Fresh
  <2> QED BY <2>1, <2>2
<1>12. Up(tokens, live', task', excuse')
  <2> SUFFICES ASSUME NEW d \in Rotating, tokens[d] # Gone, excuse'[d] = "none",
                      tokens[d].pair \notin live'[d]
               PROVE  \E s \in Tasks : Keeping(task'[s], d) /\ task'[s].got \in live'[d]
    BY DEF Up
  <2>1. CASE d = c
    <3>1. UNCHANGED excuse /\ Keeping(w, c)
      BY <1>0, <2>1 DEF RefreshInv, OAuthTypeOK
    <3>2. w.got = new
      BY <3>1 DEF Keeping, new
    <3> QED BY <1>1, <1>3, <2>1, <3>1, <3>2
  <2>2. CASE d # c
    <3>1. excuse[d] = "none" /\ live'[d] = live[d]
      BY <1>3, <2>2, OAuthAssumption DEF RefreshInv, OAuthTypeOK
    <3>2. PICK s \in Tasks : Keeping(task[s], d) /\ task[s].got \in live[d]
      BY <3>1 DEF RefreshInv, Up
    <3>3. s # t
      BY <3>2 DEF Keeping, Holding, Using
    <3> QED BY <1>1, <3>1, <3>2, <3>3
  <2> QED BY <2>1, <2>2
<1> QED BY <1>4, <1>7, <1>11, <1>12 DEF RefreshInv

\* A task writes f, a whole copy of the file that it changed in the connections
\* it is about.  Pairs may have been added at the provider.
Rewrite(t, about, f, iss, lv) ==
  /\ f \in [Connections -> StoredPair] /\ iss \in [Connections -> Pairs]
  /\ lv \in [Connections -> SUBSET Pairs]
  /\ \A d \in Connections : issued[d] <= iss[d] /\ live[d] \subseteq lv[d]
  /\ Copying(task[t])
  /\ \A d \in Connections \ about : ~Holding(task[t], d) /\ f[d] = task[t].copy[d]
  /\ \A d \in Connections \cap about : Worth(d, f[d].pair, iss, lv)
  /\ \A d \in Rotating \cap about :
       /\ f[d] = Gone \/ f[d].pair \in lv[d]
       /\ \A s \in Tasks \ {t} : Holding(task[s], d) => task[s].got # f[d].pair

LEMMA WriteStep ==
  ASSUME RefreshInv, NEW t \in Tasks, NEW about, NEW renewed, renewed \subseteq about,
         Rewrite(t, about, tokens', issued', live'), task' = [task EXCEPT ![t] = Idle],
         excuse' = Excused(task[t].copy, about, renewed)
  PROVE  RefreshInv'
<1>a. /\ tokens' \in [Connections -> StoredPair] /\ issued' \in [Connections -> Pairs]
      /\ live' \in [Connections -> SUBSET Pairs]
      /\ \A d \in Connections : issued[d] <= issued'[d] /\ live[d] \subseteq live'[d]
      /\ Copying(task[t])
  BY DEF Rewrite
<1>b. \A d \in Connections \ about : ~Holding(task[t], d) /\ tokens'[d] = task[t].copy[d]
  BY DEF Rewrite
<1>c. /\ \A d \in Connections \cap about : Worth(d, tokens'[d].pair, issued', live')
      /\ \A d \in Rotating \cap about :
           /\ tokens'[d] = Gone \/ tokens'[d].pair \in live'[d]
           /\ \A s \in Tasks \ {t} : Holding(task[s], d) => task[s].got # tokens'[d].pair
  BY DEF Rewrite
<1>1. task' \in [Tasks -> Work] /\ \A s \in Tasks : task'[s] = IF s = t THEN Idle ELSE task[s]
  BY IdleWork DEF RefreshInv, OAuthTypeOK
<1>2. \A c, p : ~Using(Idle, c) /\ ~Holding(Idle, c) /\ ~Copying(Idle) /\ Apart(Idle, c, p)
  BY DEF Idle, Using, Holding, Copying, Apart
<1>3. OAuthTypeOK'
  <2>1. excuse' \in [Connections -> Excuses]
    BY DEF RefreshInv, OAuthTypeOK, Excused, Excuses
  <2> QED BY <1>a, <1>1, <2>1 DEF RefreshInv, OAuthTypeOK
<1>4. \A d \in Connections : \A p : Worth(d, p, issued, live) => Worth(d, p, issued', live')
  <2>1. issued \in [Connections -> Nat] /\ issued' \in [Connections -> Nat]
    BY <1>a DEF RefreshInv, OAuthTypeOK, Pairs
  <2> QED BY <1>a, <2>1 DEF Worth
<1>5. Worthy(tokens', issued', live', task')
  <2>1. \A d \in Connections : Worth(d, tokens'[d].pair, issued', live')
    BY <1>a, <1>b, <1>c, <1>4 DEF RefreshInv, Worthy, WorthyWork
  <2>2. WorthyWork(Idle, issued', live')
    BY <1>2 DEF WorthyWork
  <2>3. \A s \in Tasks \ {t} : WorthyWork(task'[s], issued', live')
    BY <1>1, <1>4 DEF RefreshInv, Worthy, WorthyWork
  <2> QED BY <1>1, <2>1, <2>2, <2>3 DEF Worthy
<1>6. \A s \in Tasks : \A d : Holding(task'[s], d) => s # t /\ task'[s] = task[s]
  BY <1>1, <1>2
<1>7. \A s \in Tasks : \A d, p : Apart(task[s], d, p) => Apart(task'[s], d, p)
  BY <1>1, <1>2
<1>8. Fresh(tokens', live', task')
  <2> SUFFICES ASSUME NEW d \in Rotating, NEW s \in Tasks, Holding(task'[s], d)
               PROVE  /\ task'[s].got \in live'[d] /\ tokens'[d].pair # task'[s].got
                      /\ \A u \in Tasks :
                           /\ Apart(task'[u], d, task'[s].got)
                           /\ u # s /\ Holding(task'[u], d) => task'[u].got # task'[s].got
    BY DEF Fresh
  <2>1. s # t /\ task'[s] = task[s] /\ d \in Connections
    BY <1>6, OAuthAssumption
  <2>2. tokens'[d].pair # task[s].got
    <3>1. CASE d \in about
      BY <1>c, <2>1, <3>1
    <3>2. CASE d \notin about
      BY <1>a, <1>b, <2>1, <3>2 DEF RefreshInv, Fresh, Apart
    <3> QED BY <3>1, <3>2
  <2>3. \A u \in Tasks : Apart(task'[u], d, task[s].got)
    BY <1>7, <2>1 DEF RefreshInv, Fresh
  <2>4. ASSUME NEW u \in Tasks, u # s, Holding(task'[u], d)
        PROVE  task'[u].got # task[s].got
    <3>1. task'[u] = task[u] /\ Holding(task[u], d) /\ Holding(task[s], d)
      BY <1>6, <2>1, <2>4
    <3> QED BY <2>4, <3>1 DEF RefreshInv, Fresh
  <2>5. task[s].got \in live[d]
    BY <2>1 DEF RefreshInv, Fresh
  <2> QED BY <1>a, <2>1, <2>2, <2>3, <2>4, <2>5
<1>9. Up(tokens', live', task', excuse')
  <2> SUFFICES ASSUME NEW d \in Rotating, tokens'[d] # Gone, excuse'[d] = "none",
                      tokens'[d].pair \notin live'[d]
               PROVE  \E s \in Tasks : Keeping(task'[s], d) /\ task'[s].got \in live'[d]
    BY DEF Up
  <2>1. d \in Connections \ about
    BY <1>c, OAuthAssumption
  <2>2. tokens'[d] = tokens[d] /\ excuse[d] = "none"
    BY <1>b, <2>1 DEF Excused, Reverted
  <2>3. PICK s \in Tasks : Keeping(task[s], d) /\ task[s].got \in live[d]
    BY <1>a, <2>1, <2>2 DEF RefreshInv, Up
  <2>4. s # t
    BY <1>b, <2>1, <2>3 DEF Keeping
  <2> QED BY <1>a, <1>1, <2>1, <2>3, <2>4
<1> QED BY <1>3, <1>5, <1>8, <1>9 DEF RefreshInv

-----------------------------------------------------------------------------
(* The steps.                                                               *)

LEMMA GrantedKeeps ==
  ASSUME RefreshInv, NEW t \in Tasks, Granted(t)
  PROVE  RefreshInv'
<1>1. CASE task[t].conn \notin Rotating
  BY <1>1, GrantedForGood
<1>2. CASE task[t].conn \in Rotating
  <2> DEFINE c == task[t].conn
             w == [at |-> "granted", conn |-> c, got |-> issued[c] + 1]
  <2>1. /\ issued[c] < MaxPair /\ issued' = [issued EXCEPT ![c] = @ + 1]
        /\ live' = [live EXCEPT ![c] = (@ \ {task[t].with}) \cup {issued[c] + 1}]
        /\ task[t].with \in live[c] /\ Using(task[t], c)
        /\ task' = [task EXCEPT ![t] = w] /\ UNCHANGED <<tokens, excuse>>
    BY <1>2 DEF Granted, Grant, Got, Does, Accepted, Posting, Using
  <2>2. issued[c] + 1 \in Pairs
    BY <1>2, <2>1, OAuthAssumption DEF RefreshInv, OAuthTypeOK, Pairs
  <2>3. w \in Work
    BY <1>2, <2>2, GrantedWork, OAuthAssumption
  <2>4. w.at = "granted" /\ w.conn = c /\ w.got = issued[c] + 1
    OBVIOUS
  <2>5. c \in Rotating
    BY <1>2
  <2> HIDE DEF w, c
  <2>6. /\ \A d : ~Using(w, d) /\ (Holding(w, d) => d = c /\ w.got = issued[c] + 1)
        /\ ~Copying(w) /\ Keeping(w, c)
    BY <2>4 DEF Using, Holding, Copying, Keeping
  <2> QED BY <2>1, <2>3, <2>5, <2>6, SpendStep
<1> QED BY <1>1, <1>2

LEMMA AnswerLostKeeps ==
  ASSUME RefreshInv, NEW t \in Tasks, AnswerLost(t)
  PROVE  RefreshInv'
<1>1. CASE task[t].conn \notin Rotating
  BY <1>1, FailsKeeps DEF AnswerLost, Grant
<1>2. CASE task[t].conn \in Rotating
  <2> DEFINE c == task[t].conn
  <2>1. /\ issued[c] < MaxPair /\ issued' = [issued EXCEPT ![c] = @ + 1]
        /\ live' = [live EXCEPT ![c] = (@ \ {task[t].with}) \cup {issued[c] + 1}]
        /\ task[t].with \in live[c] /\ Using(task[t], c) /\ c \in Rotating
        /\ UNCHANGED tokens /\ excuse' = [excuse EXCEPT ![c] = "lost"]
    BY <1>2 DEF AnswerLost, Grant, Accepted, Posting, Using
  <2>2. task[t] \in Work
    BY DEF RefreshInv, OAuthTypeOK
  <2>3. PICK w \in Work : /\ task' = [task EXCEPT ![t] = w]
                          /\ w.at = "idle" \/ (w.at = "again" /\ w.conn = c
                                               /\ w.with = task[t].with)
    BY <2>2, IdleWork, AgainWork DEF AnswerLost, Fails, Does
  <2> HIDE DEF c
  <2>4. /\ \A d : (Using(w, d) => Using(task[t], d) /\ w.with = task[t].with) /\ ~Holding(w, d)
        /\ ~Copying(w)
    BY <2>1, <2>3 DEF Using, Holding, Copying
  <2> QED BY <2>1, <2>3, <2>4, SpendStep
<1> QED BY <1>1, <1>2

\* What the file gets when a pair is put over a copy.
LEMMA MergedShape ==
  ASSUME NEW f \in [Connections -> StoredPair], NEW c \in Connections, NEW p \in Pairs,
         NEW age \in {"fresh", "unknown"}
  PROVE  LET g == Merged(f, c, p, age)
         IN  /\ g \in [Connections -> StoredPair] /\ g[c].pair = p
             /\ \A d \in Connections \ {c} : g[d] = f[d]
BY DEF Merged, StoredPair

\* The types of what a task has in hand.
LEMMA InHand ==
  ASSUME RefreshInv, NEW t \in Tasks
  PROVE  /\ task[t].at \in {"granted", "merging"} => task[t].conn \in Connections /\ task[t].got \in Pairs
         /\ task[t].at \in {"merging", "editing"} => task[t].copy \in [Connections -> StoredPair]
BY WorkShape DEF RefreshInv, OAuthTypeOK

LEMMA WriteBackKeeps ==
  ASSUME RefreshInv, NEW t \in Tasks, WriteBack(t)
  PROVE  RefreshInv'
<1> DEFINE c == task[t].conn
           copy == task[t].copy
<1>1. /\ task[t].at = "merging" /\ c \in Connections /\ task[t].got \in Pairs
      /\ copy \in [Connections -> StoredPair]
  BY InHand DEF WriteBack
<1>2. Holding(task[t], c) /\ Copying(task[t]) /\ \A d : Holding(task[t], d) => d = c
  BY <1>1 DEF Holding, Copying
<1>3. task' = [task EXCEPT ![t] = Idle] /\ UNCHANGED <<live, issued>>
  BY DEF WriteBack, Does
<1>4. CASE copy[c] = Gone /\ UNCHANGED <<tokens, excuse>>
  <2>1. \A d : ~Holding(Idle, d) /\ ~Using(Idle, d) /\ ~Copying(Idle)
    BY DEF Idle, Holding, Using, Copying
  <2>2. \A d : ~Keeping(task[t], d)
    BY <1>1, <1>4 DEF Keeping, Holding
  <2>3. WorthyWork(Idle, issued, live) /\ \A d, p : Apart(Idle, d, p)
    BY <2>1 DEF WorthyWork, Apart
  <2> QED BY <1>3, <1>4, <2>1, <2>2, <2>3, IdleWork, QuietStep
<1>5. ASSUME NEW age \in {"fresh", "unknown"}, tokens' = Merged(copy, c, task[t].got, age),
             excuse' = Excused(copy, {c}, {c})
      PROVE  RefreshInv'
  <2> DEFINE f == Merged(copy, c, task[t].got, age)
  <2>1. /\ f \in [Connections -> StoredPair] /\ f[c].pair = task[t].got
        /\ \A d \in Connections \ {c} : f[d] = copy[d]
    BY <1>1, MergedShape
  <2>2. tokens' = f
    BY <1>5
  <2>3. Worth(c, task[t].got, issued, live)
    BY <1>1, <1>2 DEF RefreshInv, Worthy, WorthyWork
  <2>4. c \in Rotating =>
          /\ task[t].got \in live[c]
          /\ \A s \in Tasks \ {t} : Holding(task[s], c) => task[s].got # task[t].got
    BY <1>2 DEF RefreshInv, Fresh
  <2>5. /\ issued \in [Connections -> Pairs] /\ live \in [Connections -> SUBSET Pairs]
        /\ \A d \in Connections : issued[d] <= issued[d]
    BY DEF RefreshInv, OAuthTypeOK, Pairs
  <2> DEFINE about == {c}
  <2>6. /\ about \subseteq about /\ \A d \in Connections \ about : ~Holding(task[t], d)
        /\ \A d \in Connections \ about : f[d] = copy[d]
        /\ excuse' = Excused(task[t].copy, about, about)
    BY <1>2, <1>5, <2>1
  <2>7. /\ \A d \in Connections \cap about : Worth(d, f[d].pair, issued', live')
        /\ \A d \in Rotating \cap about :
             /\ f[d] = Gone \/ f[d].pair \in live'[d]
             /\ \A s \in Tasks \ {t} : Holding(task[s], d) => task[s].got # f[d].pair
    BY <1>3, <2>1, <2>3, <2>4
  <2>8. Rewrite(t, about, f, issued, live)
    BY <1>2, <1>3, <2>1, <2>5, <2>6, <2>7 DEF Rewrite
  <2> HIDE DEF f, about
  <2> QED BY <1>3, <2>2, <2>6, <2>8, WriteStep
<1> QED BY <1>4, <1>5 DEF WriteBack

LEMMA RelabelKeeps ==
  ASSUME RefreshInv, NEW t \in Tasks, Relabel(t)
  PROVE  RefreshInv'
<1>1. Copying(task[t]) /\ task[t].copy \in [Connections -> StoredPair] /\ \A d : ~Holding(task[t], d)
  BY InHand DEF Relabel, Copying, Holding
<1>2. /\ task' = [task EXCEPT ![t] = Idle] /\ tokens' = task[t].copy
      /\ excuse' = Excused(task[t].copy, {}, {}) /\ UNCHANGED <<live, issued>>
  BY DEF Relabel, Does
<1>3. /\ issued \in [Connections -> Pairs] /\ live \in [Connections -> SUBSET Pairs]
      /\ \A d \in Connections : issued[d] <= issued[d]
  BY DEF RefreshInv, OAuthTypeOK, Pairs
<1>4. Rewrite(t, {}, tokens', issued', live')
  BY <1>1, <1>2, <1>3 DEF Rewrite
<1> QED BY <1>2, <1>4, WriteStep

LEMMA LogInAgainKeeps ==
  ASSUME RefreshInv, NEW t \in Tasks, LogInAgain(t)
  PROVE  RefreshInv'
<1> DEFINE copy == task[t].copy
<1>1. Copying(task[t]) /\ copy \in [Connections -> StoredPair] /\ \A d : ~Holding(task[t], d)
  BY InHand DEF LogInAgain, Copying, Holding
<1>2. PICK c \in Connections :
        /\ issued[c] < MaxPair /\ issued' = [issued EXCEPT ![c] = @ + 1]
        /\ live' = [live EXCEPT ![c] = @ \cup {issued[c] + 1}]
        /\ tokens' = Merged(copy, c, issued[c] + 1, "fresh")
        /\ excuse' = Excused(copy, {c}, {c})
  BY DEF LogInAgain
<1> DEFINE new == issued[c] + 1
           f == Merged(copy, c, new, "fresh")
           about == {c}
<1>3. /\ new \in Pairs /\ issued[c] \in Nat /\ issued' \in [Connections -> Pairs]
      /\ issued'[c] = new /\ live' \in [Connections -> SUBSET Pairs]
      /\ \A d \in Connections : issued[d] <= issued'[d] /\ live[d] \subseteq live'[d]
      /\ new \in live'[c]
  BY <1>2, OAuthAssumption DEF RefreshInv, OAuthTypeOK, Pairs
<1>4. /\ f \in [Connections -> StoredPair] /\ f[c].pair = new
      /\ \A d \in Connections \ about : f[d] = copy[d]
  <2> HIDE DEF new, copy
  <2>1. "fresh" \in {"fresh", "unknown"}
    OBVIOUS
  <2> QED BY <1>1, <1>3, <2>1, MergedShape
<1>5. Worth(c, new, issued', live')
  BY <1>3 DEF Worth, Pairs
<1>6. \A s \in Tasks : Holding(task[s], c) => task[s].got # new
  BY <1>3 DEF RefreshInv, Worthy, WorthyWork, Worth
<1>7. /\ about \subseteq about /\ task' = [task EXCEPT ![t] = Idle] /\ tokens' = f
      /\ excuse' = Excused(task[t].copy, about, about)
  BY <1>2 DEF LogInAgain, Does
<1>8. /\ \A d \in Connections \cap about : Worth(d, f[d].pair, issued', live')
      /\ \A d \in Rotating \cap about :
           /\ f[d] = Gone \/ f[d].pair \in live'[d]
           /\ \A s \in Tasks \ {t} : Holding(task[s], d) => task[s].got # f[d].pair
  BY <1>3, <1>4, <1>5, <1>6
<1>9. Rewrite(t, about, tokens', issued', live')
  <2> HIDE DEF f, about, new
  <2> QED BY <1>1, <1>3, <1>4, <1>7, <1>8 DEF Rewrite
<1> HIDE DEF f, about, new
<1> QED BY <1>7, <1>9, WriteStep

LEMMA DeleteKeeps ==
  ASSUME RefreshInv, NEW t \in Tasks, DeleteConnection(t)
  PROVE  RefreshInv'
<1> DEFINE copy == task[t].copy
<1>1. Copying(task[t]) /\ copy \in [Connections -> StoredPair] /\ \A d : ~Holding(task[t], d)
  BY InHand DEF DeleteConnection, Copying, Holding
<1>2. PICK c \in Connections :
        tokens' = [copy EXCEPT ![c] = Gone] /\ excuse' = Excused(copy, {c}, {})
  BY DEF DeleteConnection
<1> DEFINE f == [copy EXCEPT ![c] = Gone]
           about == {c}
           renewed == {}
<1>3. /\ f \in [Connections -> StoredPair] /\ f[c] = Gone
      /\ \A d \in Connections \ about : f[d] = copy[d]
  BY <1>1 DEF StoredPair
<1>4. /\ renewed \subseteq about /\ task' = [task EXCEPT ![t] = Idle] /\ tokens' = f
      /\ excuse' = Excused(task[t].copy, about, renewed) /\ UNCHANGED <<live, issued>>
  BY <1>2 DEF DeleteConnection, Does
<1>5. /\ issued \in [Connections -> Pairs] /\ live \in [Connections -> SUBSET Pairs]
      /\ \A d \in Connections : issued[d] <= issued[d]
      /\ issued[c] \in Nat
  BY DEF RefreshInv, OAuthTypeOK, Pairs
<1>6. Gone.pair = 0 /\ Worth(c, Gone.pair, issued', live')
  BY <1>4, <1>5 DEF Gone, Worth
<1>7. \A s \in Tasks : \A d : Holding(task[s], d) => task[s].got # 0
  BY InHand DEF Holding, Pairs
<1>8. /\ \A d \in Connections \cap about : Worth(d, f[d].pair, issued', live')
      /\ \A d \in Rotating \cap about :
           /\ f[d] = Gone \/ f[d].pair \in live'[d]
           /\ \A s \in Tasks \ {t} : Holding(task[s], d) => task[s].got # f[d].pair
  BY <1>3, <1>6, <1>7
<1> HIDE DEF f, about, renewed
<1>9. Rewrite(t, about, tokens', issued', live')
  BY <1>1, <1>3, <1>4, <1>5, <1>8 DEF Rewrite
<1> QED BY <1>4, <1>9, WriteStep

LEMMA ExpireKeeps ==
  ASSUME RefreshInv, Expire
  PROVE  RefreshInv'
<1>1. PICK c \in Connections : tokens[c].age = "fresh" /\ tokens' = [tokens EXCEPT ![c].age = "due"]
  BY DEF Expire
<1> DEFINE n == [tokens[c] EXCEPT !.age = "due"]
<1>2. tokens[c] \in [pair : Pairs, age : {"fresh", "due", "unknown"}]
  BY <1>1 DEF RefreshInv, OAuthTypeOK, StoredPair, Gone
<1>3. n \in StoredPair /\ n.pair = tokens[c].pair
  BY <1>2 DEF StoredPair
<1>4. tokens' = [tokens EXCEPT ![c] = n] /\ tokens[c] # Gone
  BY <1>1 DEF Gone
<1> HIDE DEF n
<1>5. /\ tokens' \in [Connections -> StoredPair]
      /\ \A d \in Connections : tokens'[d].pair = tokens[d].pair /\ (tokens[d] = Gone => tokens'[d] = Gone)
  BY <1>3, <1>4 DEF RefreshInv, OAuthTypeOK
<1>6. UNCHANGED <<live, issued, task, excuse>>
  BY DEF Expire
<1>7. OAuthTypeOK'
  BY <1>5, <1>6 DEF RefreshInv, OAuthTypeOK
<1>8. Worthy(tokens', issued, live, task) /\ Fresh(tokens', live, task)
  BY <1>5, OAuthAssumption DEF RefreshInv, Worthy, Fresh
<1>9. Up(tokens', live, task, excuse)
  BY <1>5, OAuthAssumption DEF RefreshInv, Up
<1> QED BY <1>6, <1>7, <1>8, <1>9 DEF RefreshInv

LEMMA CrashKeeps ==
  ASSUME RefreshInv, ProcessEnds
  PROVE  RefreshInv'
<1>1. /\ task' = [t \in Tasks |-> Idle]
      /\ \A c \in Rotating : ~(\E t \in Tasks : Holds(t, c)) => excuse'[c] = excuse[c]
      /\ \A c \in Rotating : (\E t \in Tasks : Holds(t, c)) => excuse'[c] = "lost"
      /\ excuse' \in [Connections -> Excuses]
      /\ UNCHANGED <<tokens, live, issued>>
  BY OAuthAssumption DEF ProcessEnds, RefreshInv, OAuthTypeOK, Excuses
<1>2. OAuthTypeOK'
  BY <1>1, IdleWork DEF RefreshInv, OAuthTypeOK
<1>3. \A c, p : ~Using(Idle, c) /\ ~Holding(Idle, c) /\ ~Copying(Idle)
  BY DEF Idle, Using, Holding, Copying
<1>4. Worthy(tokens, issued, live, task') /\ Fresh(tokens, live, task')
  BY <1>1, <1>3 DEF RefreshInv, Worthy, WorthyWork, Fresh
<1>5. Up(tokens, live, task', excuse')
  <2> SUFFICES ASSUME NEW c \in Rotating, tokens[c] # Gone, excuse'[c] = "none"
               PROVE  tokens[c].pair \in live[c]
    BY DEF Up
  <2>1. excuse[c] = "none" /\ ~ \E t \in Tasks : Holds(t, c)
    BY <1>1
  <2> QED BY <2>1 DEF RefreshInv, Up, Keeping, Holding, Holds
<1> QED BY <1>1, <1>2, <1>4, <1>5 DEF RefreshInv

LEMMA Inductive == OAuthSpec => []RefreshInv
<1>1. OAuthInit => RefreshInv
  <2> SUFFICES ASSUME OAuthInit PROVE RefreshInv
    OBVIOUS
  <2>1. 1 \in Pairs /\ [pair |-> 1, age |-> "fresh"] \in StoredPair
    BY OAuthAssumption DEF Pairs, StoredPair
  <2>2. OAuthTypeOK
    BY <2>1, IdleWork DEF OAuthInit, OAuthTypeOK, Excuses
  <2>3. \A c : ~Using(Idle, c) /\ ~Holding(Idle, c) /\ ~Copying(Idle)
    BY DEF Idle, Using, Holding, Copying
  <2>4. \A c \in Connections : tokens[c].pair = 1 /\ issued[c] = 1 /\ live[c] = {1}
    BY DEF OAuthInit
  <2>5. Worthy(tokens, issued, live, task)
    BY <2>3, <2>4 DEF OAuthInit, Worthy, WorthyWork, Worth
  <2>6. Fresh(tokens, live, task) /\ Up(tokens, live, task, excuse)
    BY <2>3, <2>4, OAuthAssumption DEF OAuthInit, Fresh, Up
  <2> QED BY <2>2, <2>5, <2>6 DEF RefreshInv
<1>2. RefreshInv /\ [OAuthNext]_oauthVars => RefreshInv'
  <2> SUFFICES ASSUME RefreshInv, [OAuthNext]_oauthVars PROVE RefreshInv'
    OBVIOUS
  <2>1. ASSUME NEW t \in Tasks, Refused(t) PROVE RefreshInv'
    BY <2>1, FailsKeeps DEF Refused
  <2>2. CASE OAuthNext
    BY <2>1, <2>2, ResolveKeeps, GrantedKeeps, AnswerLostKeeps, ReadBackKeeps, WriteBackKeeps,
       KeepFailsKeeps, EditReadKeeps, RelabelKeeps, LogInAgainKeeps, DeleteKeeps, EditFailsKeeps,
       ExpireKeeps, CrashKeeps DEF OAuthNext
  <2>3. CASE UNCHANGED oauthVars
    BY <2>3 DEF oauthVars, RefreshInv, OAuthTypeOK
  <2> QED BY <2>2, <2>3
<1> QED BY <1>1, <1>2, PTL DEF OAuthSpec

-----------------------------------------------------------------------------
(* The theorems.                                                            *)

\* The file, the pairs and what each task has in hand keep their types.
THEOREM RefreshTypes == OAuthSpec => []OAuthTypeOK
<1>1. RefreshInv => OAuthTypeOK
  BY DEF RefreshInv
<1> QED BY <1>1, Inductive, PTL

\* However many tasks refresh and edit connections at once, a connection keeps
\* a refresh token the provider accepts, or the task that was given the next
\* one, unless an answer or the process was lost, the file could not be read or
\* written to keep it, or an older copy came back.
THEOREM ConnectionsKeepUp == OAuthSpec => []KeepsUp
<1>1. RefreshInv => KeepsUp
  <2> SUFFICES ASSUME RefreshInv, NEW c \in Connections, tokens[c] # Gone, excuse[c] = "none",
                      tokens[c].pair \notin live[c]
               PROVE  \E t \in Tasks : Holds(t, c) /\ task[t].got \in live[c]
    BY DEF KeepsUp
  <2>1. tokens[c].pair # 0
    BY StoredShape DEF RefreshInv, OAuthTypeOK
  <2>2. c \in Rotating
    BY <2>1 DEF RefreshInv, Worthy, Worth
  <2> QED BY <2>2 DEF RefreshInv, Up, Keeping, Holding, Holds
<1> QED BY <1>1, Inductive, PTL
=============================================================================
