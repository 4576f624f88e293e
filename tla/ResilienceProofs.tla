-------------------------- MODULE ResilienceProofs --------------------------
(***************************************************************************)
(* What holds of the resilience store for every set of models, providers,  *)
(* routers and requests, every timing and every bound.                     *)
(***************************************************************************)
EXTENDS Resilience, FiniteSetTheorems, SequenceTheorems, WellFoundedInduction, TLAPS

LEMMA RecentType ==
  ASSUME NEW ts \in Seq(Nat), NEW t \in Nat
  PROVE  Recent(ts, t) \in Seq(Nat)
<1> DEFINE old == {i \in 1..Len(ts) : t - ts[i] > WINDOW}
<1>1. IsFiniteSet(1..Len(ts))  BY FS_Interval
<1>2. IsFiniteSet(old)  BY <1>1, FS_Subset
<1>3. Cardinality(old) \in Nat  BY <1>2, FS_CardinalityType
<1> HIDE DEF old
<1>4. Len(ts) \in Int /\ \A i \in Cardinality(old) + 1 .. Len(ts) : ts[i] \in Nat
  BY <1>3
<1>5. SubSeq(ts, Cardinality(old) + 1, Len(ts)) \in Seq(Nat)
  BY <1>3, <1>4, SubSeqProperties
<1> QED BY <1>5 DEF Recent, old

\* EntryConsistent looks at five fields: entries that agree on them are
\* consistent together.
LEMMA SameBreakerFields ==
  ASSUME NEW e, NEW d, NEW t, EntryConsistent(e, t),
         d.state = e.state, d.probeInFlight = e.probeInFlight,
         d.failureCount = e.failureCount, d.faultTimestamps = e.faultTimestamps,
         d.openedAt = e.openedAt
  PROVE  EntryConsistent(d, t)
BY DEF EntryConsistent

\* Each operation of the store keeps an entry well-formed and consistent.
LEMMA FreshOK ==
  ASSUME NEW t \in Nat
  PROVE  Fresh \in Entry /\ EntryConsistent(Fresh, t)
BY TimingAssumption DEF Fresh, Entry, Time, NoTime, EntryConsistent

LEMMA HardFaultOK ==
  ASSUME NEW e \in Entry, NEW t \in Nat, EntryConsistent(e, t)
  PROVE  RecordHardFault(e, t) \in Entry /\ EntryConsistent(RecordHardFault(e, t), t)
<1> DEFINE faults == Recent(Append(e.faultTimestamps, t), t)
           trips  == e.state = "closed" /\ Len(faults) >= THRESHOLD
           d      == RecordHardFault(e, t)
<1>1. e.faultTimestamps \in Seq(Nat)  BY DEF Entry
<1>2. Append(e.faultTimestamps, t) \in Seq(Nat)  BY <1>1, AppendProperties
<1>3. faults \in Seq(Nat) /\ Len(faults) \in Nat  BY <1>2, RecentType, LenProperties
<1>4. CASE e.state = "half-open"
  <2>1. d = [e EXCEPT !.state = "open", !.openedAt = t, !.probeInFlight = FALSE,
                      !.faultTimestamps = <<t>>, !.failureCount = 1]
    BY <1>4 DEF RecordHardFault
  <2> HIDE DEF d
  <2> DEFINE one == <<t>>
  <2>0. one \in Seq(Nat)  OBVIOUS
  <2>1a. d = [e EXCEPT !.state = "open", !.openedAt = t, !.probeInFlight = FALSE,
                       !.faultTimestamps = one, !.failureCount = 1]
    BY <2>1
  <2> HIDE DEF one
  <2>2. d \in Entry  BY <2>0, <2>1a DEF Entry, Time
  <2>3. d.state = "open" /\ d.openedAt = t /\ d.faultTimestamps = <<t>> /\ d.failureCount = 1
    BY <2>1 DEF Entry
  <2>4. d.probeInFlight = FALSE  BY <2>1 DEF Entry
  <2>5. EntryConsistent(d, t)  BY <2>3, <2>4 DEF EntryConsistent, NoTime
  <2> QED  BY <2>2, <2>5 DEF d
<1>5. CASE e.state # "half-open"
  <2> HIDE DEF faults
  <2>1. d = [e EXCEPT !.faultTimestamps = faults, !.failureCount = Len(faults),
                      !.state = IF trips THEN "open" ELSE @,
                      !.openedAt = IF trips THEN t ELSE @]
    BY <1>5 DEF RecordHardFault, faults
  <2> HIDE DEF d
  <2>2. d \in Entry  BY <2>1, <1>3 DEF Entry, Time
  <2>3. /\ d.faultTimestamps = faults /\ d.failureCount = Len(faults)
        /\ d.state = (IF trips THEN "open" ELSE e.state)
        /\ d.openedAt = (IF trips THEN t ELSE e.openedAt)
    BY <2>1 DEF Entry
  <2>4. d.probeInFlight = e.probeInFlight  BY <2>1 DEF Entry
  <2>5. d.probeInFlight <=> d.state = "half-open"
    BY <1>5, <2>3, <2>4 DEF EntryConsistent
  <2>6. d.state = "closed" => d.failureCount < THRESHOLD
    BY <1>3, <2>3, TimingAssumption
  <2>7. d.openedAt = NoTime <=> d.state = "closed"
    BY <2>3 DEF EntryConsistent, NoTime
  <2>8. d.openedAt <= t
    BY <2>3 DEF EntryConsistent
  <2>9. EntryConsistent(d, t)
    BY <2>3, <2>5, <2>6, <2>7, <2>8 DEF EntryConsistent
  <2> QED  BY <2>2, <2>9 DEF d
<1> QED BY <1>4, <1>5

LEMMA CooldownOK ==
  ASSUME NEW e \in Entry, NEW t \in Nat, NEW ra \in Nat \cup {NoTime}, EntryConsistent(e, t)
  PROVE  RecordCooldown(e, t, ra) \in Entry /\ EntryConsistent(RecordCooldown(e, t, ra), t)
<1> DEFINE u == t + (IF ra = NoTime THEN COOLDOWN ELSE ra)
           d == [e EXCEPT !.cooldownUntil = u]
<1>1. u \in Time  BY TimingAssumption DEF Time, NoTime
<1> HIDE DEF u
<1>2. d \in Entry  BY <1>1 DEF Entry
<1>3. /\ d.state = e.state /\ d.probeInFlight = e.probeInFlight
      /\ d.failureCount = e.failureCount /\ d.faultTimestamps = e.faultTimestamps
      /\ d.openedAt = e.openedAt
  BY DEF Entry
<1>4. EntryConsistent(d, t)  BY <1>3, SameBreakerFields
<1> QED  BY <1>2, <1>4 DEF RecordCooldown, u

LEMMA LockoutOK ==
  ASSUME NEW e \in Entry, NEW t \in Nat, EntryConsistent(e, t)
  PROVE  RecordLockout(e, t) \in Entry /\ EntryConsistent(RecordLockout(e, t), t)
<1> DEFINE u == t + LOCKOUT
           d == [e EXCEPT !.lockoutUntil = u]
<1>0. u \in Time  BY TimingAssumption DEF Time
<1> HIDE DEF u
<1>1. d \in Entry  BY <1>0 DEF Entry
<1>2. /\ d.state = e.state /\ d.probeInFlight = e.probeInFlight
      /\ d.failureCount = e.failureCount /\ d.faultTimestamps = e.faultTimestamps
      /\ d.openedAt = e.openedAt
  BY DEF Entry
<1>3. EntryConsistent(d, t)  BY <1>2, SameBreakerFields
<1> QED  BY <1>1, <1>3 DEF RecordLockout, u

LEMMA SuccessOK ==
  ASSUME NEW e \in Entry, NEW t \in Nat, EntryConsistent(e, t)
  PROVE  RecordSuccess(e) \in Entry /\ EntryConsistent(RecordSuccess(e), t)
<1>1. CASE e.state = "half-open"
  <2> DEFINE none == <<>>
             d == [e EXCEPT !.state = "closed", !.failureCount = 0,
                            !.faultTimestamps = none, !.openedAt = NoTime,
                            !.probeInFlight = FALSE]
  <2>0. none \in Seq(Nat) /\ Len(none) = 0  OBVIOUS
  <2> HIDE DEF none
  <2>1. d \in Entry  BY <2>0 DEF Entry, Time
  <2>2. /\ d.state = "closed" /\ d.failureCount = 0 /\ d.faultTimestamps = none
        /\ d.openedAt = NoTime
    BY DEF Entry
  <2>3. d.probeInFlight = FALSE  BY DEF Entry
  <2>4. EntryConsistent(d, t)
    BY <2>0, <2>2, <2>3, TimingAssumption DEF EntryConsistent, NoTime
  <2> QED  BY <1>1, <2>1, <2>4 DEF RecordSuccess, none
<1>2. CASE e.state # "half-open"  BY <1>2 DEF RecordSuccess
<1> QED  BY <1>1, <1>2

LEMMA ProbedOK ==
  ASSUME NEW e \in Entry, NEW t \in Nat, EntryConsistent(e, t), ProbeGranted(e, t)
  PROVE  Probed(e) \in Entry /\ EntryConsistent(Probed(e), t)
<1> DEFINE d == Probed(e)
<1>1. d \in Entry  BY DEF Probed, Entry
<1>2. /\ d.state = "half-open" /\ d.failureCount = e.failureCount
      /\ d.faultTimestamps = e.faultTimestamps /\ d.openedAt = e.openedAt
  BY DEF Probed, Entry
<1>3. d.probeInFlight = TRUE  BY DEF Probed, Entry
<1>4. EntryConsistent(d, t)
  BY <1>2, <1>3 DEF EntryConsistent, ProbeGranted
<1> QED  BY <1>1, <1>4

-----------------------------------------------------------------------------

LEMMA KeyType ==
  ASSUME NEW m \in Models
  PROVE  ProviderKey(m) \in Key /\ ConnectionKey(m) \in Key /\ ModelKey(m) \in Key
BY ConfigAssumption DEF Key, ProviderKey, ConnectionKey, ModelKey

\* What the router plans to try are models.
LEMMA PlansType ==
  ASSUME NEW ms \in SUBSET Models, NEW p \in Plans(ms)
  PROVE  p \in Seq(Models)
<1>1. IsFiniteSet(ms)  BY ConfigAssumption, FS_Subset
<1>2. Cardinality(ms) \in Nat  BY <1>1, FS_CardinalityType
<1>3. PICK n \in 0..Cardinality(ms) : p \in [1..n -> ms]  BY DEF Plans
<1>4. n \in Nat  BY <1>2, <1>3
<1> QED  BY <1>3, <1>4

LEMMA AvailableType ==
  ASSUME NEW es, NEW t, NEW cs
  PROVE  FilterAvailable(es, t, cs).available \in SUBSET Models
BY DEF FilterAvailable, Admitted, Fallback

LEMMA GrantsType ==
  ASSUME NEW es, NEW t, NEW cs
  PROVE  /\ FilterAvailable(es, t, cs).grants \in SUBSET Key
         /\ \A k \in FilterAvailable(es, t, cs).grants : ProbeGranted(es[k], t)
BY DEF FilterAvailable, Grants

\* The store is well-formed and consistent at time t.
StoreOK(es, t) == es \in [Key -> Entry] /\ \A k \in Key : EntryConsistent(es[k], t)

LEMMA FilterOK ==
  ASSUME NEW es, NEW t \in Nat, NEW cs, StoreOK(es, t)
  PROVE  StoreOK(FilterAvailable(es, t, cs).entries, t)
<1> DEFINE f == FilterAvailable(es, t, cs)
<1>1. f.entries = [k \in Key |-> IF k \in f.grants THEN Probed(es[k]) ELSE es[k]]
  BY DEF FilterAvailable
<1>2. \A k \in f.grants : ProbeGranted(es[k], t)  BY GrantsType
<1>3. ASSUME NEW k \in Key
      PROVE  f.entries[k] \in Entry /\ EntryConsistent(f.entries[k], t)
  <2>1. es[k] \in Entry /\ EntryConsistent(es[k], t)  BY DEF StoreOK
  <2>2. CASE k \in f.grants
    <3>1. f.entries[k] = Probed(es[k])  BY <1>1, <2>2
    <3> QED  BY <1>2, <2>1, <2>2, <3>1, ProbedOK
  <2>3. CASE k \notin f.grants
    <3>1. f.entries[k] = es[k]  BY <1>1, <2>3
    <3> QED  BY <2>1, <3>1
  <2> QED  BY <2>2, <2>3
<1> QED  BY <1>1, <1>3 DEF StoreOK

LEMMA UpdateOK ==
  ASSUME NEW es, NEW t, StoreOK(es, t), NEW k \in Key, NEW e \in Entry, EntryConsistent(e, t)
  PROVE  StoreOK([es EXCEPT ![k] = e], t)
BY DEF StoreOK

LEMMA RecordOK ==
  ASSUME NEW e \in Entry, NEW t \in Nat, EntryConsistent(e, t),
         NEW f \in FaultCategory, NEW ra \in Nat \cup {NoTime}
  PROVE  Record(e, t, f, ra) \in Entry /\ EntryConsistent(Record(e, t, f, ra), t)
<1>1. CASE f \in HardFaults
  <2>1. Record(e, t, f, ra) = RecordHardFault(e, t)
    BY <1>1 DEF Record, HardFaults, Throttles, Lockouts
  <2> QED  BY <2>1, HardFaultOK
<1>2. CASE f \in Throttles
  <2>1. Record(e, t, f, ra) = RecordCooldown(e, t, ra)
    BY <1>2 DEF Record, HardFaults, Throttles, Lockouts
  <2> QED  BY <2>1, CooldownOK
<1>3. CASE f \in Lockouts
  <2>1. Record(e, t, f, ra) = RecordLockout(e, t)
    BY <1>3 DEF Record, HardFaults, Throttles, Lockouts
  <2> QED  BY <2>1, LockoutOK
<1>4. CASE f = "invalid-request"
  <2>1. Record(e, t, f, ra) = e
    BY <1>4 DEF Record, HardFaults, Throttles, Lockouts
  <2> QED  BY <2>1
<1> QED  BY <1>1, <1>2, <1>3, <1>4 DEF FaultCategory

LEMMA RecordFaultOK ==
  ASSUME NEW es, NEW t \in Nat, StoreOK(es, t), NEW m \in Models,
         NEW f \in FaultCategory, NEW ra \in Nat \cup {NoTime}
  PROVE  StoreOK(RecordFault(es, t, m, f, ra), t)
<1> DEFINE k == FaultKey(m, f)
           e == Record(es[k], t, f, ra)
<1>1. k \in Key  BY KeyType DEF FaultKey, HardFaults, Throttles
<1>2. es[k] \in Entry /\ EntryConsistent(es[k], t)  BY <1>1 DEF StoreOK
<1>3. e \in Entry /\ EntryConsistent(e, t)  BY <1>2, RecordOK
<1>4. RecordFault(es, t, m, f, ra) = [es EXCEPT ![k] = e]  BY DEF RecordFault
<1> HIDE DEF k, e
<1>5. StoreOK([es EXCEPT ![k] = e], t)  BY <1>1, <1>3, UpdateOK
<1> QED  BY <1>4, <1>5

-----------------------------------------------------------------------------

\* The inductive invariant: the types, and the consistency of every entry.
\* TypeOK alone is not inductive: that a plan has a head while its request is
\* under way, and that an open breaker has an opening time, are both needed.
IInv == TypeOK /\ BreakerConsistent

LEMMA IInvStore == IInv <=> TypeOK /\ StoreOK(entries, now)
BY DEF IInv, TypeOK, BreakerConsistent, StoreOK

LEMMA ProceedType ==
  ASSUME TypeOK, NEW r \in Requests, NEW p \in Seq(Models),
         Proceed(r, p)
  PROVE  /\ phase' \in [Requests -> Phase]
         /\ plan' \in [Requests -> Seq(Models)]
         /\ \A q \in Requests : phase'[q] = "idle" <=> plan'[q] = <<>>
BY DEF TypeOK, Proceed, Phase

LEMMA PlanHead ==
  ASSUME TypeOK, NEW r \in Requests, phase[r] # "idle"
  PROVE  Head(plan[r]) \in Models /\ Tail(plan[r]) \in Seq(Models)
<1>1. plan[r] \in Seq(Models) /\ plan[r] # <<>>  BY DEF TypeOK
<1> QED  BY <1>1, HeadTailProperties

LEMMA InitIInv == Init => IInv
<1> SUFFICES ASSUME Init PROVE TypeOK /\ StoreOK(entries, now)
  BY IInvStore
<1>1. now \in Nat /\ now = 0  BY DEF Init
<1>2. Fresh \in Entry /\ EntryConsistent(Fresh, now)  BY <1>1, FreshOK
<1>3. \A k \in Key : entries[k] = Fresh  BY DEF Init
<1>4. StoreOK(entries, now)  BY <1>2, <1>3 DEF Init, StoreOK
<1>5. TypeOK  BY <1>1, <1>4 DEF Init, TypeOK, StoreOK, Phase
<1> QED  BY <1>4, <1>5

\* Time passing keeps an entry consistent.
LEMMA LaterOK ==
  ASSUME NEW e \in Entry, NEW t \in Nat, EntryConsistent(e, t)
  PROVE  EntryConsistent(e, t + 1)
<1>1. e.openedAt <= t + 1
  <2>1. e.openedAt \in Int  BY DEF Entry, Time, NoTime
  <2> QED  BY <2>1 DEF EntryConsistent
<1> QED  BY <1>1 DEF EntryConsistent

LEMMA NextIInv == IInv /\ [Next]_vars => IInv'
<1> SUFFICES ASSUME TypeOK, StoreOK(entries, now), [Next]_vars
             PROVE  TypeOK' /\ StoreOK(entries', now')
  BY IInvStore DEF IInv, TypeOK, BreakerConsistent, StoreOK
<1>n. now \in Nat  BY DEF TypeOK
<1>1. CASE Tick
  <2>1. now' = now + 1 /\ entries' = entries  BY <1>1 DEF Tick
  <2>2. StoreOK(entries', now')  BY <1>n, <2>1, LaterOK DEF StoreOK
  <2>3. TypeOK'  BY <1>1, <1>n DEF Tick, TypeOK
  <2> QED  BY <2>2, <2>3
<1>2. ASSUME NEW r \in Requests, NEW rt \in Routers, Route(r, rt)
      PROVE  TypeOK' /\ StoreOK(entries', now')
  <2> DEFINE f == FilterAvailable(entries, now, RouterModels[rt])
  <2>1. entries' = f.entries /\ now' = now /\ degraded' = degraded
    BY <1>2 DEF Route
  <2>2. PICK p \in Plans(f.available) : Proceed(r, p)
    BY <1>2 DEF Route
  <2>3. StoreOK(entries', now')  BY <1>n, <2>1, FilterOK
  <2>4. p \in Seq(Models) /\ f.grants \in SUBSET Key
    BY AvailableType, GrantsType, PlansType
  <2> HIDE DEF f
  <2>5. TypeOK'  BY <2>1, <2>2, <2>3, <2>4, ProceedType DEF TypeOK, StoreOK
  <2> QED  BY <2>3, <2>5
<1>3. ASSUME NEW r \in Requests, NEW m \in Models, DirectCall(r, m)
      PROVE  TypeOK' /\ StoreOK(entries', now')
  <2> DEFINE p == <<m>>
  <2>1. p \in Seq(Models) /\ Proceed(r, p)  BY <1>3 DEF DirectCall
  <2> HIDE DEF p
  <2>2. StoreOK(entries', now')  BY <1>3 DEF DirectCall
  <2>3. TypeOK'  BY <1>3, <2>1, ProceedType DEF DirectCall, TypeOK
  <2> QED  BY <2>2, <2>3
<1>4. ASSUME NEW r \in Requests, Skip(r)
      PROVE  TypeOK' /\ StoreOK(entries', now')
  <2>1. Tail(plan[r]) \in Seq(Models)
    BY <1>4, PlanHead DEF Skip, TypeOK
  <2>2. StoreOK(entries', now')  BY <1>4 DEF Skip
  <2>3. TypeOK'  BY <1>4, <2>1, ProceedType DEF Skip, TypeOK
  <2> QED  BY <2>2, <2>3
<1>5. ASSUME NEW r \in Requests, Attempt(r)
      PROVE  TypeOK' /\ StoreOK(entries', now')
  BY <1>5 DEF Attempt, TypeOK, Phase
<1>6. ASSUME NEW r \in Requests, Succeed(r)
      PROVE  TypeOK' /\ StoreOK(entries', now')
  <2> DEFINE k == ProviderKey(Head(plan[r]))
             e == RecordSuccess(entries[k])
  <2>1. Head(plan[r]) \in Models  BY <1>6, PlanHead DEF Succeed
  <2>2. k \in Key  BY <2>1, KeyType
  <2>3. e \in Entry /\ EntryConsistent(e, now)
    BY <1>n, <2>2, SuccessOK DEF StoreOK
  <2>4. entries' = [entries EXCEPT ![k] = e] /\ now' = now  BY <1>6 DEF Succeed
  <2>5. degraded' \subseteq Models /\ Proceed(r, <<>>)
    BY <1>6 DEF Succeed, TypeOK
  <2> HIDE DEF k, e
  <2>6. StoreOK(entries', now')  BY <2>2, <2>3, <2>4, UpdateOK
  <2>7. <<>> \in Seq(Models)  OBVIOUS
  <2>8. TypeOK'  BY <2>4, <2>5, <2>6, <2>7, ProceedType DEF TypeOK, StoreOK
  <2> QED  BY <2>6, <2>8
<1>7. ASSUME NEW r \in Requests, NEW f \in Faults, NEW ra \in RetryAfters, Fail(r, f, ra)
      PROVE  TypeOK' /\ StoreOK(entries', now')
  <2>1. Head(plan[r]) \in Models /\ Tail(plan[r]) \in Seq(Models)
    BY <1>7, PlanHead DEF Fail
  <2>2. f \in FaultCategory /\ ra \in Nat \cup {NoTime}  BY ConfigAssumption
  <2>3. entries' = RecordFault(entries, now, Head(plan[r]), f, ra) /\ now' = now
    BY <1>7 DEF Fail
  <2>4. StoreOK(entries', now')  BY <1>n, <2>1, <2>2, <2>3, RecordFaultOK
  <2>5. PICK p \in {<<>>, Tail(plan[r])} : Proceed(r, p)
    BY <1>7 DEF Fail
  <2>e. <<>> \in Seq(Models)  OBVIOUS
  <2>6. p \in Seq(Models)  BY <2>1, <2>5, <2>e DEF TypeOK
  <2>7. degraded' \subseteq Models  BY <1>7, <2>1 DEF Fail, TypeOK
  <2>8. TypeOK'  BY <2>3, <2>4, <2>5, <2>6, <2>7, ProceedType DEF TypeOK, StoreOK
  <2> QED  BY <2>4, <2>8
<1>8. ASSUME NEW r \in Requests, EndUnrecorded(r)
      PROVE  TypeOK' /\ StoreOK(entries', now')
  <2>1. Tail(plan[r]) \in Seq(Models)  BY <1>8, PlanHead DEF EndUnrecorded
  <2>2. PICK p \in {<<>>, Tail(plan[r])} : Proceed(r, p)
    BY <1>8 DEF EndUnrecorded
  <2>e. <<>> \in Seq(Models)  OBVIOUS
  <2>3. p \in Seq(Models)  BY <2>1, <2>2, <2>e DEF TypeOK
  <2>4. StoreOK(entries', now')  BY <1>8 DEF EndUnrecorded
  <2>5. TypeOK'  BY <1>8, <2>2, <2>3, ProceedType DEF EndUnrecorded, TypeOK
  <2> QED  BY <2>4, <2>5
<1>9. ASSUME NEW ks, Reset(ks)
      PROVE  TypeOK' /\ StoreOK(entries', now')
  <2>1. Fresh \in Entry /\ EntryConsistent(Fresh, now)  BY <1>n, FreshOK
  <2>2. StoreOK(entries', now')  BY <1>9, <2>1 DEF Reset, StoreOK
  <2>3. TypeOK'  BY <1>9, <2>2 DEF Reset, TypeOK, StoreOK
  <2> QED  BY <2>2, <2>3
<1>10. CASE UNCHANGED vars
  BY <1>10 DEF vars, TypeOK
<1> QED
  BY <1>1, <1>2, <1>3, <1>4, <1>5, <1>6, <1>7, <1>8, <1>9, <1>10 DEF Next

\* Whatever order requests, faults, probes and resets come in, the state of the
\* store and of the requests is well-formed.
THEOREM TypeCorrect == Spec => []TypeOK
<1>1. IInv => TypeOK  BY DEF IInv
<1> QED  BY InitIInv, NextIInv, <1>1, PTL DEF Spec

\* Every entry of the store stays consistent: a probe is out exactly while its
\* breaker is half-open, and a closed breaker is below the threshold.
THEOREM StoreConsistent == Spec => []BreakerConsistent
<1>1. IInv => BreakerConsistent  BY DEF IInv
<1> QED  BY InitIInv, NextIInv, <1>1, PTL DEF Spec

-----------------------------------------------------------------------------
(* Levels stay apart.                                                       *)

\* What LevelsApart asks of one entry.
LevelOK(k, e) ==
  IF k.level = "provider"
  THEN e.cooldownUntil = NoTime /\ e.lockoutUntil = NoTime
  ELSE e.state = "closed" /\ e.faultTimestamps = <<>>

LEMMA RecordLevel ==
  ASSUME NEW m \in Models, NEW f \in FaultCategory, NEW e \in Entry, NEW t, NEW ra,
         LevelOK(FaultKey(m, f), e)
  PROVE  LevelOK(FaultKey(m, f), Record(e, t, f, ra))
<1>1. CASE f \in HardFaults
  <2>1. FaultKey(m, f).level = "provider"
    BY <1>1 DEF FaultKey, ProviderKey, HardFaults, Throttles
  <2>2. Record(e, t, f, ra) = RecordHardFault(e, t)
    BY <1>1 DEF Record, HardFaults, Throttles, Lockouts
  <2>3. /\ RecordHardFault(e, t).cooldownUntil = e.cooldownUntil
        /\ RecordHardFault(e, t).lockoutUntil = e.lockoutUntil
    BY DEF RecordHardFault, Entry
  <2> QED  BY <2>1, <2>2, <2>3 DEF LevelOK
<1>2. CASE f \in Throttles
  <2>1. FaultKey(m, f).level # "provider"
    BY <1>2 DEF FaultKey, ConnectionKey, HardFaults, Throttles
  <2>2. Record(e, t, f, ra) = RecordCooldown(e, t, ra)
    BY <1>2 DEF Record, HardFaults, Throttles, Lockouts
  <2>3. /\ RecordCooldown(e, t, ra).state = e.state
        /\ RecordCooldown(e, t, ra).faultTimestamps = e.faultTimestamps
    BY DEF RecordCooldown, Entry
  <2> QED  BY <2>1, <2>2, <2>3 DEF LevelOK
<1>3. CASE f \in Lockouts
  <2>1. FaultKey(m, f).level # "provider"
    BY <1>3 DEF FaultKey, ModelKey, HardFaults, Throttles, Lockouts
  <2>2. Record(e, t, f, ra) = RecordLockout(e, t)
    BY <1>3 DEF Record, HardFaults, Throttles, Lockouts
  <2>3. /\ RecordLockout(e, t).state = e.state
        /\ RecordLockout(e, t).faultTimestamps = e.faultTimestamps
    BY DEF RecordLockout, Entry
  <2> QED  BY <2>1, <2>2, <2>3 DEF LevelOK
<1>4. CASE f = "invalid-request"
  <2>1. Record(e, t, f, ra) = e
    BY <1>4 DEF Record, HardFaults, Throttles, Lockouts
  <2> QED  BY <2>1
<1> QED  BY <1>1, <1>2, <1>3, <1>4 DEF FaultCategory

LEMMA SuccessLevel ==
  ASSUME NEW m \in Models, NEW e \in Entry, LevelOK(ProviderKey(m), e)
  PROVE  LevelOK(ProviderKey(m), RecordSuccess(e))
<1>1. ProviderKey(m).level = "provider"  BY DEF ProviderKey
<1>2. /\ RecordSuccess(e).cooldownUntil = e.cooldownUntil
      /\ RecordSuccess(e).lockoutUntil = e.lockoutUntil
  BY DEF RecordSuccess, Entry
<1> QED  BY <1>1, <1>2 DEF LevelOK

\* Only an open entry is probed, and only a provider's is ever open.
LEMMA ProbedLevel ==
  ASSUME NEW k \in Key, NEW e \in Entry, NEW t, LevelOK(k, e), ProbeGranted(e, t)
  PROVE  LevelOK(k, Probed(e))
<1>1. k.level = "provider"  BY DEF LevelOK, ProbeGranted
<1>2. Probed(e).cooldownUntil = e.cooldownUntil /\ Probed(e).lockoutUntil = e.lockoutUntil
  BY DEF Probed, Entry
<1> QED  BY <1>1, <1>2 DEF LevelOK

LEMMA NextLevels == IInv /\ LevelsApart /\ [Next]_vars => LevelsApart'
<1> DEFINE Apart(es) == \A k \in Key : LevelOK(k, es[k])
<1>0. /\ LevelsApart <=> Apart(entries)
      /\ LevelsApart' <=> Apart(entries')
  BY DEF LevelsApart, LevelOK
<1> SUFFICES ASSUME TypeOK, Apart(entries), [Next]_vars PROVE Apart(entries')
  BY <1>0 DEF IInv
<1>1. ASSUME NEW r \in Requests, NEW rt \in Routers, Route(r, rt)  PROVE Apart(entries')
  <2> DEFINE f == FilterAvailable(entries, now, RouterModels[rt])
  <2>1. entries' = [k \in Key |-> IF k \in f.grants THEN Probed(entries[k]) ELSE entries[k]]
    BY <1>1 DEF Route, FilterAvailable
  <2>2. \A k \in f.grants : ProbeGranted(entries[k], now)  BY GrantsType
  <2> HIDE DEF f
  <2>3. ASSUME NEW k \in Key  PROVE LevelOK(k, entries'[k])
    <3>1. entries[k] \in Entry /\ LevelOK(k, entries[k])  BY DEF TypeOK
    <3>2. CASE k \in f.grants
      BY <2>1, <2>2, <3>1, <3>2, ProbedLevel
    <3>3. CASE k \notin f.grants
      BY <2>1, <3>1, <3>3
    <3> QED  BY <3>2, <3>3
  <2> QED  BY <2>3
<1>2. ASSUME NEW r \in Requests, Succeed(r)  PROVE Apart(entries')
  <2> DEFINE m == Head(plan[r])
  <2>1. m \in Models  BY <1>2, PlanHead DEF Succeed
  <2>2. ProviderKey(m) \in Key  BY <2>1, KeyType
  <2>3. LevelOK(ProviderKey(m), RecordSuccess(entries[ProviderKey(m)]))
    BY <2>1, <2>2, SuccessLevel DEF TypeOK
  <2>4. entries' = [entries EXCEPT ![ProviderKey(m)] = RecordSuccess(entries[ProviderKey(m)])]
    BY <1>2 DEF Succeed
  <2> QED  BY <2>2, <2>3, <2>4 DEF TypeOK
<1>3. ASSUME NEW r \in Requests, NEW f \in Faults, NEW ra \in RetryAfters, Fail(r, f, ra)
      PROVE  Apart(entries')
  <2> DEFINE m == Head(plan[r])
             k == FaultKey(m, f)
  <2>1. m \in Models /\ f \in FaultCategory  BY <1>3, PlanHead, ConfigAssumption DEF Fail
  <2>2. k \in Key  BY <2>1, KeyType DEF FaultKey
  <2>3. LevelOK(k, Record(entries[k], now, f, ra))
    BY <2>1, <2>2, RecordLevel DEF TypeOK
  <2>4. entries' = [entries EXCEPT ![k] = Record(entries[k], now, f, ra)]
    BY <1>3 DEF Fail, RecordFault
  <2> HIDE DEF k
  <2> QED  BY <2>2, <2>3, <2>4 DEF TypeOK
<1>4. ASSUME NEW ks, Reset(ks)  PROVE Apart(entries')
  <2>1. \A k \in Key : LevelOK(k, Fresh)  BY DEF LevelOK, Fresh
  <2> QED  BY <1>4, <2>1 DEF Reset
<1>5. ASSUME entries' = entries  PROVE Apart(entries')
  BY <1>5
<1> QED
  BY <1>1, <1>2, <1>3, <1>4, <1>5
     DEF Next, vars, Tick, DirectCall, Skip, Attempt, EndUnrecorded

\* Rate limits and lockouts never touch a circuit breaker, hard faults never
\* touch a cooldown or a lockout, in any run.
THEOREM LevelsStayApart == Spec => []LevelsApart
<1>1. Init => LevelsApart  BY DEF Init, LevelsApart, Fresh
<1> QED  BY <1>1, InitIInv, NextIInv, NextLevels, PTL DEF Spec

-----------------------------------------------------------------------------
(* The rolling window.                                                      *)

Ordered(ts) == \A i, j \in 1..Len(ts) : i < j => ts[i] <= ts[j]

\* Kept faults are ordered, in the past, and within one window.
InWindow(ts, t) ==
  \A i, j \in 1..Len(ts) :
    ts[j] <= t /\ (i < j => ts[i] <= ts[j] /\ ts[j] - ts[i] <= WINDOW)

\* Of an ordered list Recent drops a prefix, and what it keeps is recent: those
\* that fell out of the window are as many as their last position.
LEMMA RecentIsSuffix ==
  ASSUME NEW ts \in Seq(Nat), NEW t \in Nat, Ordered(ts)
  PROVE  \E d \in 0..Len(ts) :
           /\ Len(Recent(ts, t)) = Len(ts) - d
           /\ \A i \in 1..(Len(ts) - d) : Recent(ts, t)[i] = ts[i + d] /\ t - ts[i + d] <= WINDOW
<1> DEFINE n == Len(ts)
           old == {i \in 1..n : t - ts[i] > WINDOW}
           d == Cardinality(old)
<1>1. n \in Nat /\ \A i \in 1..n : ts[i] \in Nat
  BY LenProperties
<1>2. IsFiniteSet(1..n) /\ Cardinality(1..n) = n
  BY <1>1, FS_Interval
<1>3. d \in Nat /\ d <= n
  BY <1>2, FS_Subset, FS_CardinalityType
<1>4. ASSUME NEW i \in 1..n, d < i PROVE t - ts[i] <= WINDOW
  <2> SUFFICES ASSUME t - ts[i] > WINDOW PROVE FALSE
    BY <1>1, <1>4, TimingAssumption
  <2>1. 1..i \subseteq old
    <3> SUFFICES ASSUME NEW j \in 1..i PROVE j \in old
      OBVIOUS
    <3>1. j \in 1..n /\ ts[j] <= ts[i]
      BY <1>1 DEF Ordered
    <3>2. t - ts[j] > WINDOW
      BY <1>1, <3>1, TimingAssumption
    <3> QED BY <3>1, <3>2
  <2>2. Cardinality(1..i) = i
    BY FS_Interval
  <2>3. i <= d
    BY <1>2, <2>1, <2>2, FS_Subset
  <2> QED BY <1>3, <1>4, <2>3
<1>5. Recent(ts, t) = SubSeq(ts, d + 1, n)
  BY DEF Recent
<1> HIDE DEF d, old
<1>6. d + 1 \in Int /\ \A i \in (d + 1)..n : ts[i] \in Nat
  BY <1>1, <1>3
<1>7. /\ Len(SubSeq(ts, d + 1, n)) = IF d + 1 <= n THEN n - (d + 1) + 1 ELSE 0
      /\ \A i \in 1..(n - (d + 1) + 1) : SubSeq(ts, d + 1, n)[i] = ts[d + 1 + i - 1]
  BY <1>1, <1>6, SubSeqProperties
<1>8. Len(Recent(ts, t)) = n - d
  BY <1>1, <1>3, <1>5, <1>7
<1>9. ASSUME NEW i \in 1..(n - d)
      PROVE  Recent(ts, t)[i] = ts[i + d] /\ t - ts[i + d] <= WINDOW
  <2>1. i + d \in 1..n /\ d < i + d /\ i \in 1..(n - (d + 1) + 1) /\ d + 1 + i - 1 = i + d
    BY <1>1, <1>3
  <2> QED BY <1>4, <1>5, <1>7, <2>1
<1>10. d \in 0..n
  BY <1>1, <1>3
<1> HIDE DEF n
<1>11. \E c \in 0..n :
        /\ Len(Recent(ts, t)) = n - c
        /\ \A i \in 1..(n - c) : Recent(ts, t)[i] = ts[i + c] /\ t - ts[i + c] <= WINDOW
  BY <1>8, <1>9, <1>10, Zenon
<1> QED BY <1>11 DEF n

\* A fault of now put after older ones, and those out of the window dropped.
LEMMA RecentInWindow ==
  ASSUME NEW ts \in Seq(Nat), NEW t \in Nat, InWindow(ts, t)
  PROVE  InWindow(Recent(Append(ts, t), t), t)
<1> DEFINE more == Append(ts, t)
<1>1. /\ more \in Seq(Nat) /\ Len(more) = Len(ts) + 1 /\ Len(ts) \in Nat
      /\ \A i \in 1..Len(ts) : more[i] = ts[i] /\ ts[i] \in Nat
      /\ more[Len(ts) + 1] = t
  BY AppendProperties, LenProperties
<1> HIDE DEF more
<1>2. \A i \in 1..Len(more) : more[i] \in Nat /\ more[i] <= t
  BY <1>1 DEF InWindow
<1>3. Ordered(more)
  <2> SUFFICES ASSUME NEW i \in 1..Len(more), NEW j \in 1..Len(more), i < j
               PROVE  more[i] <= more[j]
    BY DEF Ordered
  <2>1. i \in 1..Len(ts) /\ more[i] = ts[i]
    BY <1>1
  <2>2. CASE j \in 1..Len(ts)
    <3>1. more[j] = ts[j] /\ ts[i] <= ts[j]
      BY <1>1, <2>1, <2>2 DEF InWindow
    <3> QED BY <2>1, <3>1
  <2>3. CASE j = Len(ts) + 1
    BY <1>1, <1>2, <2>3
  <2>4. j \in 1..Len(ts) \/ j = Len(ts) + 1
    <3>1. Len(more) = Len(ts) + 1 /\ Len(ts) \in Nat
      BY <1>1
    <3> QED BY <3>1
  <2> QED BY <2>2, <2>3, <2>4
<1>4. PICK d \in 0..Len(more) :
        /\ Len(Recent(more, t)) = Len(more) - d
        /\ \A i \in 1..(Len(more) - d) :
             Recent(more, t)[i] = more[i + d] /\ t - more[i + d] <= WINDOW
  BY <1>1, <1>3, RecentIsSuffix
<1> DEFINE kept == Recent(more, t)
<1> SUFFICES ASSUME NEW i \in 1..Len(kept), NEW j \in 1..Len(kept)
             PROVE  kept[j] <= t /\ (i < j => kept[i] <= kept[j] /\ kept[j] - kept[i] <= WINDOW)
  BY DEF InWindow, more
<1>5. /\ i + d \in 1..Len(more) /\ j + d \in 1..Len(more)
      /\ kept[i] = more[i + d] /\ kept[j] = more[j + d] /\ t - more[i + d] <= WINDOW
  BY <1>1, <1>4
<1>6. i < j => more[i + d] <= more[j + d]
  BY <1>1, <1>3, <1>4, <1>5 DEF Ordered
<1> HIDE DEF kept
<1> QED BY <1>2, <1>5, <1>6, TimingAssumption

LEMMA RecordInWindow ==
  ASSUME NEW f, NEW e \in Entry, NEW t \in Nat, NEW ra, InWindow(e.faultTimestamps, t)
  PROVE  InWindow(Record(e, t, f, ra).faultTimestamps, t)
<1>1. CASE f \in HardFaults
  <2>1. Record(e, t, f, ra) = RecordHardFault(e, t)
    BY <1>1 DEF Record, HardFaults, Throttles, Lockouts
  <2>2. e.faultTimestamps \in Seq(Nat)
    BY DEF Entry
  <2> DEFINE one == <<t>>
             faults == Recent(Append(e.faultTimestamps, t), t)
  <2>3. Len(one) = 1 /\ one[1] = t
    OBVIOUS
  <2>4. InWindow(faults, t)
    BY <2>2, RecentInWindow
  <2>5. RecordHardFault(e, t).faultTimestamps = IF e.state = "half-open" THEN one ELSE faults
    <3> HIDE DEF one, faults
    <3> QED BY DEF RecordHardFault, Entry, one, faults
  <2> HIDE DEF one, faults
  <2>6. InWindow(one, t)
    BY <2>3 DEF InWindow
  <2> QED BY <2>1, <2>4, <2>5, <2>6
<1>2. CASE f \notin HardFaults
  <2>1. Record(e, t, f, ra).faultTimestamps = e.faultTimestamps
    BY <1>2 DEF Record, RecordCooldown, RecordLockout, Entry
  <2> QED BY <2>1
<1> QED BY <1>1, <1>2

LEMMA NextWindows ==
  IInv /\ (\A k \in Key : InWindow(entries[k].faultTimestamps, now)) /\ [Next]_vars
    => (\A k \in Key : InWindow(entries[k].faultTimestamps, now))'
<1> DEFINE Within(es, t) == \A k \in Key : InWindow(es[k].faultTimestamps, t)
<1> SUFFICES ASSUME TypeOK, Within(entries, now), [Next]_vars PROVE Within(entries', now')
  BY DEF IInv
<1>n. now \in Nat  BY DEF TypeOK
<1>0. InWindow(Fresh.faultTimestamps, now)
  <2> DEFINE none == <<>>
  <2>1. Fresh.faultTimestamps = none /\ Len(none) = 0  BY DEF Fresh
  <2> HIDE DEF none
  <2> QED  BY <2>1 DEF InWindow
<1>1. CASE Tick
  <2>1. now' = now + 1 /\ entries' = entries  BY <1>1 DEF Tick
  <2>2. ASSUME NEW k \in Key  PROVE InWindow(entries[k].faultTimestamps, now + 1)
    <3>1. entries[k].faultTimestamps \in Seq(Nat)  BY DEF TypeOK, Entry
    <3> QED  BY <1>n, <3>1, LenProperties DEF InWindow
  <2> QED  BY <2>1, <2>2
<1>2. ASSUME NEW r \in Requests, NEW rt \in Routers, Route(r, rt)  PROVE Within(entries', now')
  <2> DEFINE f == FilterAvailable(entries, now, RouterModels[rt])
  <2>1. /\ entries' = [k \in Key |-> IF k \in f.grants THEN Probed(entries[k]) ELSE entries[k]]
        /\ now' = now
    BY <1>2 DEF Route, FilterAvailable
  <2> HIDE DEF f
  <2>2. \A k \in Key : entries'[k].faultTimestamps = entries[k].faultTimestamps
    BY <2>1 DEF TypeOK, Probed, Entry
  <2> QED  BY <2>1, <2>2
<1>3. ASSUME NEW r \in Requests, Succeed(r)  PROVE Within(entries', now')
  <2> DEFINE m == Head(plan[r])
  <2>1. m \in Models  BY <1>3, PlanHead DEF Succeed
  <2>2. ProviderKey(m) \in Key  BY <2>1, KeyType
  <2> DEFINE e == entries[ProviderKey(m)]
  <2>3. \/ RecordSuccess(e).faultTimestamps = e.faultTimestamps
        \/ RecordSuccess(e).faultTimestamps = Fresh.faultTimestamps
    BY <2>2 DEF TypeOK, RecordSuccess, Entry, Fresh
  <2>4. InWindow(RecordSuccess(e).faultTimestamps, now)
    BY <1>0, <2>2, <2>3
  <2>5. entries' = [entries EXCEPT ![ProviderKey(m)] = RecordSuccess(e)] /\ now' = now
    BY <1>3 DEF Succeed
  <2> HIDE DEF e
  <2> QED  BY <2>2, <2>4, <2>5 DEF TypeOK
<1>4. ASSUME NEW r \in Requests, NEW f \in Faults, NEW ra \in RetryAfters, Fail(r, f, ra)
      PROVE  Within(entries', now')
  <2> DEFINE m == Head(plan[r])
             k == FaultKey(m, f)
  <2>1. m \in Models /\ f \in FaultCategory  BY <1>4, PlanHead, ConfigAssumption DEF Fail
  <2>2. k \in Key  BY <2>1, KeyType DEF FaultKey
  <2>3. InWindow(Record(entries[k], now, f, ra).faultTimestamps, now)
    BY <1>n, <2>2, RecordInWindow DEF TypeOK
  <2>4. entries' = [entries EXCEPT ![k] = Record(entries[k], now, f, ra)] /\ now' = now
    BY <1>4 DEF Fail, RecordFault
  <2> HIDE DEF k
  <2> QED  BY <2>2, <2>3, <2>4 DEF TypeOK
<1>5. ASSUME NEW ks, Reset(ks)  PROVE Within(entries', now')
  BY <1>0, <1>5 DEF Reset
<1>6. ASSUME entries' = entries, now' = now  PROVE Within(entries', now')
  BY <1>6
<1> QED
  BY <1>1, <1>2, <1>3, <1>4, <1>5, <1>6
     DEF Next, vars, DirectCall, Skip, Attempt, EndUnrecorded

\* The faults a breaker counts span one window at most, in any run: one that
\* trips has seen THRESHOLD faults within WINDOW.
THEOREM FaultsStayInWindow == Spec => []FaultsInWindow
<1> DEFINE W == \A k \in Key : InWindow(entries[k].faultTimestamps, now)
<1>1. Init => W
  <2> DEFINE none == <<>>
  <2>1. Fresh.faultTimestamps = none /\ Len(none) = 0  BY DEF Fresh
  <2> HIDE DEF none
  <2> QED  BY <2>1 DEF Init, InWindow
<1>2. IInv /\ W /\ [Next]_vars => W'
  BY NextWindows
<1>3. IInv /\ W => FaultsInWindow
  <2> SUFFICES ASSUME IInv, W, NEW k \in Key
               PROVE  LET ts == entries[k].faultTimestamps
                      IN  \A i, j \in DOMAIN ts : i < j => ts[i] <= ts[j] /\ ts[j] - ts[i] <= WINDOW
    BY DEF FaultsInWindow
  <2>1. entries[k].faultTimestamps \in Seq(Nat)  BY DEF IInv, TypeOK, Entry
  <2> QED  BY <2>1, LenProperties DEF InWindow
<1> HIDE DEF W
<1> QED  BY <1>1, <1>2, <1>3, InitIInv, NextIInv, PTL DEF Spec

-----------------------------------------------------------------------------
(* Every key of the store implements CircuitBreaker.                        *)

\* The abstract breaker sees two fields of an entry.
SameView(e, d) == d.state = e.state /\ d.openedAt = e.openedAt

LEMMA RecordView ==
  ASSUME NEW e \in Entry, NEW t \in Nat, NEW f \in FaultCategory,
         NEW ra \in Nat \cup {NoTime}
  PROVE  LET d == Record(e, t, f, ra)
         IN  \/ SameView(e, d)
             \/ e.state \in {"closed", "half-open"} /\ d.state = "open" /\ d.openedAt = t
<1> DEFINE d == Record(e, t, f, ra)
<1>1. CASE f \in HardFaults
  <2>1. d = RecordHardFault(e, t)
    BY <1>1 DEF Record, HardFaults, Throttles, Lockouts
  <2> DEFINE faults == Recent(Append(e.faultTimestamps, t), t)
             trips  == e.state = "closed" /\ Len(faults) >= THRESHOLD
  <2>2. CASE e.state = "half-open"
    <3>1. d.state = "open" /\ d.openedAt = t
      BY <2>1, <2>2 DEF RecordHardFault, Entry
    <3> QED  BY <2>2, <3>1
  <2>3. CASE e.state # "half-open"
    <3>1. /\ d.state = (IF trips THEN "open" ELSE e.state)
          /\ d.openedAt = (IF trips THEN t ELSE e.openedAt)
      BY <2>1, <2>3 DEF RecordHardFault, Entry
    <3> HIDE DEF d, faults
    <3> QED  BY <3>1 DEF SameView, d
  <2> QED  BY <2>2, <2>3
<1>2. CASE f \in Throttles
  <2>1. d = RecordCooldown(e, t, ra)
    BY <1>2 DEF Record, HardFaults, Throttles, Lockouts
  <2>2. SameView(e, d)  BY <2>1 DEF RecordCooldown, SameView, Entry
  <2> QED  BY <2>2
<1>3. CASE f \in Lockouts
  <2>1. d = RecordLockout(e, t)
    BY <1>3 DEF Record, HardFaults, Throttles, Lockouts
  <2>2. SameView(e, d)  BY <2>1 DEF RecordLockout, SameView, Entry
  <2> QED  BY <2>2
<1>4. CASE f = "invalid-request"
  <2>1. d = e  BY <1>4 DEF Record, HardFaults, Throttles, Lockouts
  <2> QED  BY <2>1 DEF SameView
<1> QED  BY <1>1, <1>2, <1>3, <1>4 DEF FaultCategory

\* A step that writes one entry is, seen abstractly, what happens to its view.
LEMMA OneEntry ==
  ASSUME TypeOK, NEW k \in Key, NEW d, entries' = [entries EXCEPT ![k] = d]
  PROVE  /\ breakerState' = [breakerState EXCEPT ![k] = d.state]
         /\ breakerSince' = [breakerSince EXCEPT ![k] = d.openedAt]
BY DEF TypeOK, breakerState, breakerSince

LEMMA SameEntry ==
  ASSUME TypeOK, NEW k \in Key, NEW d, SameView(entries[k], d),
         entries' = [entries EXCEPT ![k] = d]
  PROVE  breakerState' = breakerState /\ breakerSince' = breakerSince
BY DEF TypeOK, breakerState, breakerSince, SameView

LEMMA BreakerStep == IInv /\ [Next]_vars => [Breaker!BNext]_(Breaker!bvars)
<1> SUFFICES ASSUME TypeOK, [Next]_vars PROVE [Breaker!BNext]_(Breaker!bvars)
  BY DEF IInv
<1>n. now \in Nat  BY DEF TypeOK
<1>v. ASSUME now' = now, breakerState' = breakerState, breakerSince' = breakerSince
      PROVE  UNCHANGED Breaker!bvars
  BY <1>v DEF Breaker!bvars
<1>1. CASE Tick
  <2>1. Breaker!Pass
    BY <1>1 DEF Tick, Breaker!Pass, breakerState, breakerSince
  <2> QED  BY <2>1 DEF Breaker!BNext
<1>2. ASSUME NEW r \in Requests, NEW rt \in Routers, Route(r, rt)
      PROVE  Breaker!BNext
  <2> DEFINE f == FilterAvailable(entries, now, RouterModels[rt])
  <2>1. /\ entries' = [k \in Key |-> IF k \in f.grants THEN Probed(entries[k]) ELSE entries[k]]
        /\ now' = now
    BY <1>2 DEF Route, FilterAvailable
  <2>2. f.grants \in SUBSET Key /\ \A k \in f.grants : ProbeGranted(entries[k], now)
    BY GrantsType
  <2> HIDE DEF f
  <2>3. \A k \in Key : Probed(entries[k]).state = "half-open"
                       /\ Probed(entries[k]).openedAt = entries[k].openedAt
    BY DEF TypeOK, Probed, Entry
  <2>4. breakerState' = [k \in Key |-> IF k \in f.grants THEN "half-open" ELSE breakerState[k]]
    BY <2>1, <2>3 DEF breakerState
  <2>5. breakerSince' = breakerSince  BY <2>1, <2>3 DEF breakerSince
  <2>6. \A k \in f.grants : breakerState[k] = "open" /\ now >= breakerSince[k] + OPEN
    BY <2>2 DEF ProbeGranted, breakerState, breakerSince
  <2>7. Breaker!LetProbesOut(f.grants)
    BY <2>1, <2>4, <2>5, <2>6 DEF Breaker!LetProbesOut
  <2> QED  BY <2>2, <2>7 DEF Breaker!BNext
<1>3. ASSUME NEW r \in Requests, Succeed(r)
      PROVE  Breaker!BNext \/ UNCHANGED Breaker!bvars
  <2> DEFINE k == ProviderKey(Head(plan[r]))
             d == RecordSuccess(entries[k])
  <2>1. Head(plan[r]) \in Models  BY <1>3, PlanHead DEF Succeed
  <2>2. k \in Key  BY <2>1, KeyType
  <2>3. entries' = [entries EXCEPT ![k] = d] /\ now' = now  BY <1>3 DEF Succeed
  <2>4. entries[k] \in Entry  BY <2>2 DEF TypeOK
  <2>5. CASE entries[k].state = "half-open"
    <3>1. d.state = "closed" /\ d.openedAt = NoTime
      BY <2>4, <2>5 DEF RecordSuccess, Entry
    <3> HIDE DEF d, k
    <3>2. /\ breakerState' = [breakerState EXCEPT ![k] = "closed"]
          /\ breakerSince' = [breakerSince EXCEPT ![k] = NoTime]
      BY <2>2, <2>3, <3>1, OneEntry
    <3>3. breakerState[k] = "half-open"  BY <2>2, <2>5 DEF breakerState
    <3>4. Breaker!Close(k)
      BY <2>3, <3>2, <3>3 DEF Breaker!Close, Breaker!NotOpen, NoTime
    <3> QED  BY <2>2, <3>4 DEF Breaker!BNext
  <2>6. CASE entries[k].state # "half-open"
    <3>1. SameView(entries[k], d)  BY <2>6 DEF RecordSuccess, SameView
    <3> QED  BY <1>v, <2>2, <2>3, <3>1, SameEntry
  <2> QED  BY <2>5, <2>6
<1>4. ASSUME NEW r \in Requests, NEW f \in Faults, NEW ra \in RetryAfters, Fail(r, f, ra)
      PROVE  Breaker!BNext \/ UNCHANGED Breaker!bvars
  <2> DEFINE m == Head(plan[r])
             k == FaultKey(m, f)
             d == Record(entries[k], now, f, ra)
  <2>1. m \in Models /\ f \in FaultCategory /\ ra \in Nat \cup {NoTime}
    BY <1>4, PlanHead, ConfigAssumption DEF Fail
  <2>2. k \in Key  BY <2>1, KeyType DEF FaultKey
  <2>3. entries' = [entries EXCEPT ![k] = d] /\ now' = now
    BY <1>4 DEF Fail, RecordFault
  <2>4. entries[k] \in Entry  BY <2>2 DEF TypeOK
  <2>5. \/ SameView(entries[k], d)
        \/ /\ entries[k].state \in {"closed", "half-open"}
           /\ d.state = "open" /\ d.openedAt = now
    BY <1>n, <2>1, <2>4, RecordView
  <2> HIDE DEF d, k
  <2>6. CASE SameView(entries[k], d)
    BY <1>v, <2>2, <2>3, <2>6, SameEntry
  <2>7. CASE /\ entries[k].state \in {"closed", "half-open"}
             /\ d.state = "open" /\ d.openedAt = now
    <3>1. /\ breakerState' = [breakerState EXCEPT ![k] = "open"]
          /\ breakerSince' = [breakerSince EXCEPT ![k] = now]
      BY <2>2, <2>3, <2>7, OneEntry
    <3>2. breakerState[k] \in {"closed", "half-open"}  BY <2>2, <2>7 DEF breakerState
    <3>3. Breaker!OpenUp(k)
      BY <2>3, <3>1, <3>2 DEF Breaker!OpenUp
    <3> QED  BY <2>2, <3>3 DEF Breaker!BNext
  <2> QED  BY <2>5, <2>6, <2>7
<1>5. ASSUME NEW ks \in {Resettable} \cup {{k} : k \in Resettable}, Reset(ks)
      PROVE  Breaker!BNext
  <2>1. ks \in SUBSET Resettable /\ Resettable \subseteq Key
    BY ConfigAssumption
  <2>2. Fresh.state = "closed" /\ Fresh.openedAt = NoTime  BY DEF Fresh
  <2>3. /\ breakerState' = [k \in Key |-> IF k \in ks THEN "closed" ELSE breakerState[k]]
        /\ breakerSince' = [k \in Key |-> IF k \in ks THEN NoTime ELSE breakerSince[k]]
    BY <1>5, <2>2 DEF Reset, breakerState, breakerSince
  <2>4. Breaker!Forget(ks)
    BY <1>5, <2>3 DEF Reset, Breaker!Forget, Breaker!NotOpen, NoTime
  <2> QED  BY <2>1, <2>4 DEF Breaker!BNext
<1>6. ASSUME now' = now, entries' = entries
      PROVE  UNCHANGED Breaker!bvars
  BY <1>6, <1>v DEF breakerState, breakerSince
<1> QED
  BY <1>1, <1>2, <1>3, <1>4, <1>5, <1>6
     DEF Next, vars, DirectCall, Skip, Attempt, EndUnrecorded

\* The store refines the abstract breaker, key by key: a breaker nobody resets
\* closes only out of half-open, and goes half-open only after OPEN.
THEOREM StoreImplementsBreaker == Spec => ImplementsBreaker
<1>1. Init => Breaker!BInit
  BY DEF Init, Fresh, Breaker!BInit, Breaker!NotOpen, NoTime, breakerState, breakerSince
<1> QED
  BY <1>1, InitIInv, NextIInv, BreakerStep, PTL
     DEF Spec, ImplementsBreaker, Breaker!BSpec

-----------------------------------------------------------------------------
(* The pre-filter and its loop.                                             *)

\* Of a non-empty set of numbers one is the least.
LEMMA Least ==
  ASSUME NEW T \in SUBSET Nat, T # {}
  PROVE  \E n \in T : \A m \in T : n <= m
<1> DEFINE less == {p \in Nat \X Nat : p[1] < p[2]}
<1>1. IsWellFoundedOn(less, Nat)
  <2>1. less = OpToRel(<, Nat)  BY DEF OpToRel
  <2> QED  BY <2>1, NatLessThanWellFounded
<1>2. \A x, y \in Nat : <<y, x>> \in less <=> y < x  OBVIOUS
<1> HIDE DEF less
<1>3. PICK n \in T : \A m \in T : <<m, n>> \notin less  BY <1>1, WFMin
<1>4. n \in Nat /\ \A m \in T : m \in Nat /\ ~(m < n)  BY <1>2, <1>3
<1> QED  BY <1>3, <1>4

\* What the filter answers once the loop has ended in e.
Outcome(e) ==
  LET first == {x \in e.excluded : \A y \in e.excluded : ~ Earlier(y, x)}
  IN  [available |-> IF e.available = {} THEN {x.model : x \in first} ELSE e.available,
       entries   |-> e.entries]

\* p starts like the loop and takes its steps for n candidates.
Takes(es, t, cs, n, p) ==
  p = [i \in 0..n |-> IF i = 0 THEN [available |-> {}, excluded |-> {}, entries |-> es]
                      ELSE FilterStep(t, p[i - 1], cs[i])]

\* The loop is over as soon as it is known what it makes of each prefix: a
\* function that starts like it and takes its steps is the one it computes.
LEMMA LoopIs ==
  ASSUME NEW es, NEW t, NEW cs, NEW n \in Nat, n = Len(cs), NEW g, Takes(es, t, cs, n, g)
  PROVE  FilterLoop(es, t, cs) = Outcome(g[n])
<1> DEFINE start == [available |-> {}, excluded |-> {}, entries |-> es]
           pass == CHOOSE p : Takes(es, t, cs, n, p)
<1>1. Takes(es, t, cs, n, g) /\ Takes(es, t, cs, n, pass)  OBVIOUS
<1>2. /\ pass[0] = start /\ g[0] = start
      /\ \A i \in 1..n : /\ pass[i] = FilterStep(t, pass[i - 1], cs[i])
                         /\ g[i] = FilterStep(t, g[i - 1], cs[i])
  <2> HIDE DEF start, pass
  <2> DEFINE F(p) == [i \in 0..n |-> IF i = 0 THEN start ELSE FilterStep(t, p[i - 1], cs[i])]
  <2>1. ASSUME NEW p, p = F(p)
        PROVE  p[0] = start /\ \A i \in 1..n : p[i] = FilterStep(t, p[i - 1], cs[i])
    <3>1. p[0] = F(p)[0] /\ \A i \in 1..n : p[i] = F(p)[i]  BY <2>1
    <3>2. F(p)[0] = start  OBVIOUS
    <3>3. ASSUME NEW i \in 1..n PROVE F(p)[i] = FilterStep(t, p[i - 1], cs[i])
      <4>1. i \in 0..n /\ i # 0  OBVIOUS
      <4> QED  BY <4>1
    <3> HIDE DEF F
    <3> QED  BY <3>1, <3>2, <3>3
  <2>2. pass = F(pass) /\ g = F(g)  BY <1>1 DEF Takes, start
  <2> HIDE DEF F
  <2> QED  BY <2>1, <2>2
<1> HIDE DEF start, pass
<1>3. pass[n] = g[n]
  <2> DEFINE Bad == {i \in 0..n : pass[i] # g[i]}
  <2>1. SUFFICES ASSUME Bad # {} PROVE FALSE
    <3>1. n \in 0..n  OBVIOUS
    <3> QED  BY <3>1
  <2>2. PICK i \in Bad : \A j \in Bad : i <= j
    <3>1. Bad \in SUBSET Nat  OBVIOUS
    <3> HIDE DEF Bad
    <3> QED  BY <2>1, <3>1, Least
  <2>3. i \in 1..n /\ i - 1 \in 0..n /\ i - 1 \notin Bad
    <3>1. i # 0  BY <1>2, <2>2
    <3>2. i \in 0..n  OBVIOUS
    <3> HIDE DEF Bad
    <3>3. i - 1 \notin Bad
      <4> SUFFICES ASSUME i - 1 \in Bad PROVE FALSE  OBVIOUS
      <4>1. i <= i - 1  BY <2>2
      <4> QED  BY <3>2, <4>1
    <3> QED  BY <3>1, <3>2, <3>3
  <2>4. pass[i - 1] = g[i - 1]  BY <2>3
  <2> QED  BY <1>2, <2>2, <2>3, <2>4
<1>4. FilterLoop(es, t, cs) = Outcome(pass[n])
  BY DEF FilterLoop, Outcome, pass, Takes, start
<1> QED  BY <1>3, <1>4

\* The j-th candidate passes: nobody blocks it, or it gets a probe.
Passes(es, t, cs, j) ==
  \/ Blockers(es, t, cs[j]) = {}
  \/ \E k \in Key : ProbeGranted(es[k], t) /\ IsProber(es, t, cs, j, k)

\* The probe of k was spent on one of the first i candidates.
Spent(es, t, cs, i, k) ==
  ProbeGranted(es[k], t) /\ \E j \in 1..i : Blockers(es, t, cs[j]) = {k}

\* What the loop has made of the first i candidates.
After(es, t, cs, i) ==
  [available |-> {cs[j] : j \in {n \in 1..i : Passes(es, t, cs, n)}},
   excluded  |-> {[model |-> cs[j], until |-> Until(es, t, cs[j])] :
                    j \in {n \in 1..i : ~ Passes(es, t, cs, n)}},
   entries   |-> [k \in Key |-> IF Spent(es, t, cs, i, k) THEN Probed(es[k]) ELSE es[k]]]

\* A key whose probe was spent was unavailable and still is.
LEMMA ProbedBlocks ==
  ASSUME NEW es \in [Key -> Entry], NEW t, NEW cs, NEW i, NEW k \in Key
  PROVE  LET d == After(es, t, cs, i).entries[k]
         IN  /\ IsAvailable(d, t) <=> IsAvailable(es[k], t)
             /\ ProbeGranted(d, t) <=> ProbeGranted(es[k], t) /\ ~ Spent(es, t, cs, i, k)
             /\ UntilOf(d) = UntilOf(es[k])
<1> DEFINE d == After(es, t, cs, i).entries[k]
<1>1. d = IF Spent(es, t, cs, i, k) THEN Probed(es[k]) ELSE es[k]
  BY DEF After
<1>2. es[k] \in Entry  OBVIOUS
<1> HIDE DEF d
<1>3. CASE Spent(es, t, cs, i, k)
  <2>1. /\ d.state = "half-open" /\ d.cooldownUntil = es[k].cooldownUntil
        /\ d.lockoutUntil = es[k].lockoutUntil /\ d.openedAt = es[k].openedAt
    BY <1>1, <1>2, <1>3 DEF Probed, Entry
  <2>2. ProbeGranted(es[k], t) /\ es[k].state = "open"
    BY <1>3 DEF Spent, ProbeGranted
  <2> QED  BY <1>3, <2>1, <2>2 DEF IsAvailable, ProbeGranted, UntilOf, d
<1>4. CASE ~ Spent(es, t, cs, i, k)
  BY <1>1, <1>4 DEF d
<1> QED  BY <1>3, <1>4

LEMMA SameBlockers ==
  ASSUME NEW es \in [Key -> Entry], NEW t, NEW cs, NEW i, NEW m \in Models
  PROVE  LET ds == After(es, t, cs, i).entries
         IN  /\ Blockers(ds, t, m) = Blockers(es, t, m)
             /\ FirstBlocker(ds, t, m) = FirstBlocker(es, t, m)
<1> DEFINE ds == After(es, t, cs, i).entries
<1>1. \A k \in Key : IsAvailable(ds[k], t) <=> IsAvailable(es[k], t)
  BY ProbedBlocks
<1> HIDE DEF ds
<1>2. Blockers(ds, t, m) = Blockers(es, t, m)
  BY <1>1, KeyType DEF Blockers
<1> QED  BY <1>2 DEF FirstBlocker, ds

\* A candidate with one blocker has its first one, and nothing else.
LEMMA LoneBlocker ==
  ASSUME NEW es, NEW t, NEW m \in Models
  PROVE  LET b == Blockers(es, t, m) k == FirstBlocker(es, t, m)
         IN  /\ k \in Key
             /\ b # {} => k \in b
             /\ Cardinality(b) = 1 <=> b = {k}
             /\ \A l : b = {l} => l = k
<1> DEFINE b == Blockers(es, t, m)
           k == FirstBlocker(es, t, m)
<1>1. b \subseteq {ProviderKey(m), ConnectionKey(m), ModelKey(m)}
  BY DEF Blockers
<1>2. IsFiniteSet(b)
  <2> DEFINE three == {ProviderKey(m), ConnectionKey(m), ModelKey(m)}
  <2>1. IsFiniteSet({ModelKey(m)})  BY FS_Singleton
  <2>2. IsFiniteSet({ModelKey(m)} \cup {ConnectionKey(m)})  BY <2>1, FS_AddElement
  <2>3. IsFiniteSet({ModelKey(m)} \cup {ConnectionKey(m)} \cup {ProviderKey(m)})
    BY <2>2, FS_AddElement
  <2> QED  BY <1>1, <2>3, FS_Subset
<1>3. k \in Key
  BY KeyType DEF FirstBlocker
<1> HIDE DEF b
<1>4. b # {} => k \in b
  BY <1>1 DEF FirstBlocker, b
<1>5. \A l : b = {l} => l = k
  BY <1>4
<1>6. Cardinality(b) = 1 <=> b = {k}
  <2>1. Cardinality(b) = 1 <=> \E l : b = {l}  BY <1>2, FS_Singleton
  <2> QED  BY <1>5, <2>1
<1> QED  BY <1>3, <1>4, <1>5, <1>6 DEF b

\* What the loop writes of its record.
LEMMA LoopRecord ==
  ASSUME NEW av, NEW ex, NEW es, NEW w, NEW d,
         NEW a, a = [available |-> av, excluded |-> ex, entries |-> es]
  PROVE  /\ [a EXCEPT !.available = w] = [available |-> w, excluded |-> ex, entries |-> es]
         /\ [a EXCEPT !.excluded = w] = [available |-> av, excluded |-> w, entries |-> es]
         /\ [a EXCEPT !.available = w, !.entries = d]
               = [available |-> w, excluded |-> ex, entries |-> d]
<1>1. [a EXCEPT !.available = w] = [available |-> w, excluded |-> ex, entries |-> es]
  OBVIOUS
<1>2. [a EXCEPT !.excluded = w] = [available |-> av, excluded |-> w, entries |-> es]
  OBVIOUS
<1>3. [a EXCEPT !.available = w, !.entries = d]
        = [available |-> w, excluded |-> ex, entries |-> d]
  <2> DEFINE y == [a EXCEPT !.available = w, !.entries = d]
  <2>1. DOMAIN y = {"available", "excluded", "entries"}  OBVIOUS
  <2>2. y.available = w /\ y.excluded = ex /\ y.entries = d  OBVIOUS
  <2>3. y = [n \in {"available", "excluded", "entries"} |-> y[n]]  OBVIOUS
  <2> HIDE DEF y
  <2>4. y = [available |-> w, excluded |-> ex, entries |-> d]  BY <2>1, <2>2, <2>3
  <2> QED  BY <2>4 DEF y
<1> QED  BY <1>1, <1>2, <1>3

\* One step of the loop takes what it made of i - 1 candidates to i.
LEMMA LoopStep ==
  ASSUME NEW es \in [Key -> Entry], NEW t, NEW cs \in Seq(Models), NEW i \in 1..Len(cs)
  PROVE  FilterStep(t, After(es, t, cs, i - 1), cs[i]) = After(es, t, cs, i)
<1> DEFINE m  == cs[i]
           a  == After(es, t, cs, i - 1)
           c  == After(es, t, cs, i)
           ds == a.entries
           b  == Blockers(es, t, m)
           k  == FirstBlocker(es, t, m)
           P(n) == Passes(es, t, cs, n)
           S(n, l) == Spent(es, t, cs, n, l)
           exc(j) == [model |-> cs[j], until |-> Until(es, t, cs[j])]
           probes == Cardinality(b) = 1 /\ ProbeGranted(ds[k], t)
<1>0. m \in Models /\ i \in Nat /\ i # 0
  BY LenProperties
<1>1. /\ Blockers(ds, t, m) = b /\ FirstBlocker(ds, t, m) = k
      /\ k \in Key /\ (Cardinality(b) = 1 <=> b = {k}) /\ \A l : b = {l} => l = k
  <2>1. Blockers(ds, t, m) = b /\ FirstBlocker(ds, t, m) = k
    BY <1>0, SameBlockers
  <2>2. k \in Key /\ (Cardinality(b) = 1 <=> b = {k}) /\ \A l : b = {l} => l = k
    <3> HIDE DEF m
    <3> QED  BY <1>0, LoneBlocker
  <2> QED  BY <2>1, <2>2
<1>2. UntilOf(ds[k]) = Until(es, t, m) /\ (ProbeGranted(ds[k], t) <=> ProbeGranted(es[k], t) /\ ~ S(i - 1, k))
  BY <1>1, ProbedBlocks DEF Until
<1>3. /\ a.available = {cs[j] : j \in {n \in 1..(i-1) : P(n)}}
      /\ a.excluded = {exc(j) : j \in {n \in 1..(i-1) : ~ P(n)}}
      /\ ds = [l \in Key |-> IF S(i - 1, l) THEN Probed(es[l]) ELSE es[l]]
      /\ c.available = {cs[j] : j \in {n \in 1..i : P(n)}}
      /\ c.excluded = {exc(j) : j \in {n \in 1..i : ~ P(n)}}
      /\ c.entries = [l \in Key |-> IF S(i, l) THEN Probed(es[l]) ELSE es[l]]
  BY DEF After
<1>4. /\ a = [available |-> a.available, excluded |-> a.excluded, entries |-> a.entries]
      /\ c = [available |-> c.available, excluded |-> c.excluded, entries |-> c.entries]
  BY DEF After
<1>5. \A l : S(i, l) <=> S(i - 1, l) \/ (ProbeGranted(es[l], t) /\ b = {l})
  <2>1. 1..i = 1..(i-1) \cup {i}  BY <1>0
  <2> QED  BY <2>1 DEF Spent
<1>6. P(i) <=> b = {} \/ (b = {k} /\ ProbeGranted(es[k], t) /\ ~ S(i - 1, k))
  <2>1. ASSUME NEW l \in Key, ProbeGranted(es[l], t)
        PROVE  IsProber(es, t, cs, i, l) <=> b = {l} /\ ~ S(i - 1, l)
    BY <2>1 DEF IsProber, Spent
  <2> QED  BY <1>1, <2>1 DEF Passes
<1>7. /\ P(i) => /\ c.available = a.available \cup {m}
                 /\ c.excluded = a.excluded
      /\ ~ P(i) => /\ c.available = a.available
                   /\ c.excluded = a.excluded \cup {exc(i)}
  <2>1. 1..i = 1..(i-1) \cup {i} /\ i \notin 1..(i-1)  BY <1>0
  <2> HIDE DEF P, exc, a, c
  <2>2. CASE P(i)
    <3>1. /\ {n \in 1..i : P(n)} = {n \in 1..(i-1) : P(n)} \cup {i}
          /\ {n \in 1..i : ~ P(n)} = {n \in 1..(i-1) : ~ P(n)}
      BY <2>1, <2>2
    <3> QED  BY <1>3, <2>2, <3>1
  <2>3. CASE ~ P(i)
    <3>1. /\ {n \in 1..i : ~ P(n)} = {n \in 1..(i-1) : ~ P(n)} \cup {i}
          /\ {n \in 1..i : P(n)} = {n \in 1..(i-1) : P(n)}
      BY <2>1, <2>3
    <3> QED  BY <1>3, <2>3, <3>1
  <2> QED  BY <2>2, <2>3
<1>8. /\ b = {} \/ ~ probes => c.entries = ds
      /\ b # {} /\ probes => c.entries = [ds EXCEPT ![k] = Probed(ds[k])]
  <2>1. b # {} /\ probes => /\ S(i, k) /\ ~ S(i - 1, k)
                            /\ \A l : l # k => (S(i, l) <=> S(i - 1, l))
    BY <1>1, <1>2, <1>5
  <2>2. b = {} \/ ~ probes => \A l : S(i, l) <=> S(i - 1, l)
    BY <1>1, <1>2, <1>5
  <2> HIDE DEF S, b, probes, k, a, c
  <2>3. ds[k] = IF S(i - 1, k) THEN Probed(es[k]) ELSE es[k]
    BY <1>1, <1>3
  <2> QED  BY <1>1, <1>3, <2>1, <2>2, <2>3
<1>9. FilterStep(t, a, m) =
        IF b = {} THEN [a EXCEPT !.available = @ \cup {m}]
        ELSE IF probes THEN [a EXCEPT !.available = @ \cup {m}, !.entries = [ds EXCEPT ![k] = Probed(@)]]
        ELSE [a EXCEPT !.excluded = @ \cup {[model |-> m, until |-> UntilOf(ds[k])]}]
  BY <1>1 DEF FilterStep
<1>10. exc(i) = [model |-> m, until |-> UntilOf(ds[k])]
  BY <1>2
<1>11. P(i) <=> b = {} \/ probes
  BY <1>1, <1>2, <1>6
<1> DEFINE x == [model |-> m, until |-> UntilOf(ds[k])]
<1> HIDE DEF a, c, b, k, m, P, S, exc, probes, x
<1> SUFFICES FilterStep(t, a, m) = c  BY DEF a, c, m
<1>12. CASE b = {}
  <2> DEFINE av == a.available  ex == a.excluded  w == a.available \cup {m}
  <2>1. FilterStep(t, a, m) = [a EXCEPT !.available = w]
    BY <1>9, <1>12
  <2>2. a = [available |-> av, excluded |-> ex, entries |-> ds]  BY <1>4
  <2>3. c = [available |-> c.available, excluded |-> c.excluded, entries |-> c.entries]  BY <1>4
  <2>4. c.available = w /\ c.excluded = ex /\ c.entries = ds
    BY <1>7, <1>8, <1>11, <1>12
  <2> HIDE DEF av, ex, w, ds
  <2> QED  BY <2>1, <2>2, <2>3, <2>4, LoopRecord
<1>13. CASE b # {} /\ probes
  <2> DEFINE av == a.available  ex == a.excluded  w == a.available \cup {m}
             d == [ds EXCEPT ![k] = Probed(ds[k])]
  <2>1. FilterStep(t, a, m) = [a EXCEPT !.available = w, !.entries = d]
    BY <1>9, <1>13
  <2>2. a = [available |-> av, excluded |-> ex, entries |-> ds]  BY <1>4
  <2>3. c = [available |-> c.available, excluded |-> c.excluded, entries |-> c.entries]  BY <1>4
  <2>4. c.available = w /\ c.excluded = ex /\ c.entries = d
    BY <1>7, <1>8, <1>11, <1>13
  <2> HIDE DEF av, ex, w, d, ds
  <2> QED  BY <2>1, <2>2, <2>3, <2>4, LoopRecord
<1>14. CASE b # {} /\ ~ probes
  <2> DEFINE av == a.available  ex == a.excluded  w == a.excluded \cup {x}
  <2>1. FilterStep(t, a, m) = [a EXCEPT !.excluded = w]
    BY <1>9, <1>14 DEF x
  <2>2. a = [available |-> av, excluded |-> ex, entries |-> ds]  BY <1>4
  <2>3. c = [available |-> c.available, excluded |-> c.excluded, entries |-> c.entries]  BY <1>4
  <2>4. c.available = av /\ c.excluded = w /\ c.entries = ds
    BY <1>7, <1>8, <1>10, <1>11, <1>14 DEF x
  <2> HIDE DEF av, ex, w, ds
  <2> QED  BY <2>1, <2>2, <2>3, <2>4, LoopRecord
<1> QED  BY <1>12, <1>13, <1>14

LEMMA UntilType ==
  ASSUME NEW es \in [Key -> Entry], NEW t, NEW m \in Models
  PROVE  Until(es, t, m) \in Int
<1>1. es[FirstBlocker(es, t, m)] \in Entry
  BY LoneBlocker
<1> QED  BY <1>1 DEF Until, UntilOf, Entry, Time, NoTime

\* The models of the exclusions that none comes before.
FirstOf(ex) == {x.model : x \in {y \in ex : \A z \in ex : ~ Earlier(z, y)}}

\* What the sort puts first is what no candidate recovers earlier than.
LEMMA FirstIsFallback ==
  ASSUME NEW es \in [Key -> Entry], NEW t, NEW cs \in Seq(Models), NEW ex,
         ex = {[model |-> cs[j], until |-> Until(es, t, cs[j])] : j \in 1..Len(cs)}
  PROVE  FirstOf(ex) = Fallback(es, t, cs)
<1> DEFINE U(j) == Until(es, t, cs[j])
           exc(j) == [model |-> cs[j], until |-> U(j)]
           first == {y \in ex : \A z \in ex : ~ Earlier(z, y)}
<1>0. DOMAIN cs = 1..Len(cs) /\ \A j \in 1..Len(cs) : cs[j] \in Models
  BY LenProperties
<1>1. \A j \in 1..Len(cs) : cs[j] \in Int /\ U(j) \in Int
  <2>1. ASSUME NEW j \in 1..Len(cs) PROVE cs[j] \in Int /\ U(j) \in Int
    <3>1. cs[j] \in Models  BY <1>0
    <3>2. Models \subseteq Nat  BY ConfigAssumption
    <3>3. cs[j] \in Int
      <4> DEFINE m == cs[j]
      <4>1. m \in Models  BY <3>1
      <4> HIDE DEF m
      <4>2. m \in Nat  BY <3>2, <4>1
      <4> QED  BY <4>2 DEF m
    <3>4. \A m \in Models : Until(es, t, m) \in Int  BY UntilType
    <3> QED  BY <3>1, <3>3, <3>4
  <2> QED  BY <2>1
<1>2. \A j : exc(j).model = cs[j] /\ exc(j).until = U(j)
  OBVIOUS
<1>3. ASSUME NEW i \in 1..Len(cs), NEW j \in 1..Len(cs)
      PROVE  ~ Earlier(exc(j), exc(i)) <=> U(i) < U(j) \/ (U(i) = U(j) /\ cs[i] <= cs[j])
  <2> HIDE DEF U
  <2>1. Earlier(exc(j), exc(i)) <=> U(j) < U(i) \/ (U(j) = U(i) /\ cs[j] < cs[i])
    BY DEF Earlier
  <2>2. cs[i] \in Int /\ cs[j] \in Int /\ U(i) \in Int /\ U(j) \in Int
    BY <1>1
  <2> HIDE DEF exc
  <2> QED  BY <2>1, <2>2
<1>4. ASSUME NEW i \in 1..Len(cs)
      PROVE  (\A z \in ex : ~ Earlier(z, exc(i)))
               <=> \A j \in 1..Len(cs) : U(i) < U(j) \/ (U(i) = U(j) /\ cs[i] <= cs[j])
  <2>1. ex = {exc(j) : j \in 1..Len(cs)}
    OBVIOUS
  <2> HIDE DEF U, exc
  <2> QED  BY <1>3, <2>1
<1> DEFINE Best(i) == \A j \in 1..Len(cs) : U(i) < U(j) \/ (U(i) = U(j) /\ cs[i] <= cs[j])
<1>5. Fallback(es, t, cs) = {m \in Models : \E i \in 1..Len(cs) : cs[i] = m /\ Best(i)}
  BY <1>0 DEF Fallback
<1>6. first = {exc(i) : i \in {n \in 1..Len(cs) : Best(n)}}
  <2>1. ex = {exc(j) : j \in 1..Len(cs)}
    OBVIOUS
  <2>2. \A i \in 1..Len(cs) : Best(i) <=> \A z \in ex : ~ Earlier(z, exc(i))
    BY <1>4
  <2> HIDE DEF U, exc, Best
  <2> QED  BY <2>1, <2>2
<1> HIDE DEF U, exc, Best, first
<1>7. {x.model : x \in first} = {m \in Models : \E i \in 1..Len(cs) : cs[i] = m /\ Best(i)}
  <2>1. ASSUME NEW x \in first
        PROVE  x.model \in Models /\ \E i \in 1..Len(cs) : cs[i] = x.model /\ Best(i)
    BY <1>0, <1>2, <1>6
  <2>2. ASSUME NEW m \in Models, NEW i \in 1..Len(cs), cs[i] = m, Best(i)
        PROVE  \E x \in first : x.model = m
    <3>1. exc(i) \in first  BY <1>6, <2>2
    <3> QED  BY <1>2, <2>2, <3>1
  <2> QED  BY <2>1, <2>2
<1> QED  BY <1>5, <1>7 DEF first, FirstOf

\* On every store and every list of candidates the loop does what the
\* definition by cases says.
LEMMA LoopFilters ==
  ASSUME NEW es \in [Key -> Entry], NEW t, NEW cs \in Seq(Models)
  PROVE  /\ FilterLoop(es, t, cs).available = FilterAvailable(es, t, cs).available
         /\ FilterLoop(es, t, cs).entries = FilterAvailable(es, t, cs).entries
<1> DEFINE n == Len(cs)
           start == [available |-> {}, excluded |-> {}, entries |-> es]
           g == [i \in 0..n |-> After(es, t, cs, i)]
           h == [i \in 0..n |-> IF i = 0 THEN start ELSE FilterStep(t, g[i - 1], cs[i])]
           end == After(es, t, cs, n)
           first == {x \in end.excluded : \A y \in end.excluded : ~ Earlier(y, x)}
<1>0. n \in Nat /\ DOMAIN cs = 1..n /\ \A j \in 1..n : cs[j] \in Models
  BY LenProperties
<1>1. After(es, t, cs, 0) = start
  <2>1. \A k \in Key : ~ Spent(es, t, cs, 0, k)
    BY DEF Spent
  <2>2. [k \in Key |-> IF Spent(es, t, cs, 0, k) THEN Probed(es[k]) ELSE es[k]] = es
    BY <2>1
  <2>3. 1..0 = {}
    OBVIOUS
  <2> QED  BY <2>2, <2>3 DEF After
<1>2. g = h
  <2> HIDE DEF start
  <2>1. ASSUME NEW i \in 1..n PROVE g[i] = FilterStep(t, g[i - 1], cs[i])
    <3>1. i \in 0..n /\ i - 1 \in 0..n  BY <1>0
    <3>2. g[i] = After(es, t, cs, i) /\ g[i - 1] = After(es, t, cs, i - 1)  BY <3>1
    <3> HIDE DEF g
    <3> QED  BY <3>2, LoopStep
  <2>2. g[0] = start  BY <1>0, <1>1
  <2>3. ASSUME NEW i \in 0..n PROVE g[i] = h[i]
    <3>1. i = 0 \/ i \in 1..n  BY <1>0
    <3>2. h[i] = IF i = 0 THEN start ELSE FilterStep(t, g[i - 1], cs[i])  OBVIOUS
    <3> HIDE DEF g, h
    <3> QED  BY <2>1, <2>2, <3>1, <3>2
  <2>4. DOMAIN g = 0..n /\ DOMAIN h = 0..n  OBVIOUS
  <2>5. g = [i \in 0..n |-> g[i]] /\ h = [i \in 0..n |-> h[i]]  OBVIOUS
  <2> HIDE DEF g, h
  <2> QED  BY <2>3, <2>5
<1>3. g[n] = end
  <2>1. n \in 0..n  BY <1>0
  <2> QED  BY <2>1
<1>4. FilterLoop(es, t, cs)
        = [available |-> IF end.available = {} THEN {x.model : x \in first} ELSE end.available,
           entries   |-> end.entries]
  <2>1. Takes(es, t, cs, n, g)
    <3> HIDE DEF g
    <3> QED  BY <1>2 DEF Takes
  <2>2. FilterLoop(es, t, cs) = Outcome(g[n])
    <3> HIDE DEF g, h
    <3> QED  BY <1>0, <2>1, LoopIs
  <2> HIDE DEF n, g, h, start
  <2> QED  BY <1>3, <2>2 DEF Outcome
<1>5. ASSUME NEW j \in 1..n
      PROVE  Passes(es, t, cs, j)
               <=> \/ Blockers(es, t, cs[j]) = {}
                   \/ \E k \in Grants(es, t, cs) : IsProber(es, t, cs, j, k)
  BY <1>0 DEF Passes, Grants, IsProber
<1>6. end.available = Admitted(es, t, cs)
  <2>1. end.available = {cs[j] : j \in {i \in 1..n : Passes(es, t, cs, i)}}
    BY DEF After
  <2> HIDE DEF end, n
  <2> QED  BY <1>0, <1>5, <2>1 DEF Admitted
<1>7. \A k \in Key : Spent(es, t, cs, n, k) <=> k \in Grants(es, t, cs)
  BY <1>0 DEF Spent, Grants
<1>8. end.entries = FilterAvailable(es, t, cs).entries
  BY <1>7 DEF After, FilterAvailable
<1>9. Admitted(es, t, cs) = {} => {x.model : x \in first} = Fallback(es, t, cs)
  <2> SUFFICES ASSUME Admitted(es, t, cs) = {} PROVE {x.model : x \in first} = Fallback(es, t, cs)
    OBVIOUS
  <2>1. end.available = {cs[j] : j \in {i \in 1..n : Passes(es, t, cs, i)}}
    BY DEF After
  <2>2. \A j \in 1..n : ~ Passes(es, t, cs, j)
    <3> HIDE DEF end
    <3>1. end.available = {}  BY <1>6
    <3> QED  BY <2>1, <3>1
  <2>3. end.excluded = {[model |-> cs[j], until |-> Until(es, t, cs[j])] :
                          j \in {i \in 1..n : ~ Passes(es, t, cs, i)}}
    BY DEF After
  <2>4. {i \in 1..n : ~ Passes(es, t, cs, i)} = 1..n
    BY <2>2
  <2>5. end.excluded = {[model |-> cs[j], until |-> Until(es, t, cs[j])] : j \in 1..n}
    BY <2>3, <2>4
  <2> DEFINE ex == end.excluded
  <2>6. ex = {[model |-> cs[j], until |-> Until(es, t, cs[j])] : j \in 1..Len(cs)}
    BY <2>5
  <2>7. {x.model : x \in first} = FirstOf(ex)
    BY DEF FirstOf
  <2> HIDE DEF end, first, ex
  <2>8. FirstOf(ex) = Fallback(es, t, cs)
    BY <2>6, FirstIsFallback
  <2> QED  BY <2>7, <2>8
<1> DEFINE rest == {x.model : x \in first}
<1>10. FilterLoop(es, t, cs)
         = [available |-> IF end.available = {} THEN rest ELSE end.available,
            entries   |-> end.entries]
  BY <1>4
<1>11. Admitted(es, t, cs) = {} => rest = Fallback(es, t, cs)
  BY <1>9
<1> HIDE DEF end, rest
<1>12. /\ FilterLoop(es, t, cs).available = IF end.available = {} THEN rest ELSE end.available
       /\ FilterLoop(es, t, cs).entries = end.entries
  BY <1>10
<1>13. FilterAvailable(es, t, cs).available
         = IF Admitted(es, t, cs) = {} THEN Fallback(es, t, cs) ELSE Admitted(es, t, cs)
  BY DEF FilterAvailable
<1> QED  BY <1>6, <1>8, <1>11, <1>12, <1>13

\* In every state of the store, on every router: the filter this module routes
\* by is the loop of the source, probes, exclusions and fallback included.
THEOREM FilterMatchesLoop == Spec => []FilterIsTheLoop
<1>1. TypeOK => FilterIsTheLoop
  <2> SUFFICES ASSUME TypeOK, NEW rt \in Routers
               PROVE  LET f == FilterAvailable(entries, now, RouterModels[rt])
                          l == FilterLoop(entries, now, RouterModels[rt])
                      IN  f.available = l.available /\ f.entries = l.entries
    BY DEF FilterIsTheLoop
  <2>1. entries \in [Key -> Entry] /\ RouterModels[rt] \in Seq(Models)
    BY ConfigAssumption DEF TypeOK
  <2> QED  BY <2>1, LoopFilters
<1> QED  BY <1>1, TypeCorrect, PTL
=============================================================================
