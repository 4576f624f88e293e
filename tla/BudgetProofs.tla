---------------------------- MODULE BudgetProofs ----------------------------
(***************************************************************************)
(* How far a limit on calls can be overrun, and why no alert is false, for *)
(* all limits, levels, routers, tokens, windows and calls of a request.    *)
(***************************************************************************)
EXTENDS Budget, FiniteSetTheorems, TLAPS

USE BudgetAssumption

LEMMA CallIsPlaced ==
  ASSUME NEW c \in Call
  PROVE  PlaceOf(c) \in Place
BY DEF Call, Place, PlaceOf

LEMMA AppliedType ==
  ASSUME NEW level \in Level, NEW inherited \in SUBSET Limit
  PROVE  Applied(level, inherited) \in SUBSET Limit
<1>1. level.mode \in {"replace", "extend", "disable"} /\ level.limits \in SUBSET Limit
  BY DEF Level
<1> QED BY <1>1 DEF Applied

LEMMA LimitsAreLimits ==
  ASSUME NEW c, c.router \in Routers, c.model \in Models, c.token \in Tokens
  PROVE  LimitsOf(c) \in SUBSET Limit
<1>1. GlobalLimits[c.model] \in SUBSET Limit
  OBVIOUS
<1>2. RouterLevel[c.router][c.model] \in Level /\ TokenLevel[c.token][c.model] \in Level
  OBVIOUS
<1> QED BY <1>1, <1>2, AppliedType DEF LimitsOf

LEMMA LimitsType ==
  ASSUME NEW c \in Call
  PROVE  LimitsOf(c) \in SUBSET Limit
<1>1. c.router \in Routers /\ c.model \in Models /\ c.token \in Tokens
  BY DEF Call
<1> QED BY <1>1, LimitsAreLimits

\* A limit that binds every token of a place is a limit of each call there.
LEMMA BindingType ==
  ASSUME NEW p \in Place, NEW lim \in Binding(p)
  PROVE  lim \in Limit /\ \A d \in Call : PlaceOf(d) = p => lim \in LimitsOf(d)
<1> DEFINE at(tok) == [router |-> p.router, model |-> p.model, token |-> tok]
<1>1. p.router \in Routers /\ p.model \in Models
  BY DEF Place
<1>2. PICK tok \in TokensOf[p.router] : lim \in LimitsOf(at(tok))
  BY DEF Binding
<1>3. tok \in Tokens
  BY <1>1, <1>2
<1>4. lim \in Limit
  BY <1>1, <1>2, <1>3, LimitsAreLimits
<1>5. ASSUME NEW d \in Call, PlaceOf(d) = p
      PROVE  lim \in LimitsOf(d)
  <2>1. d.token \in TokensOf[p.router] /\ d.router = p.router /\ d.model = p.model
    BY <1>5 DEF Call, PlaceOf
  <2>2. lim \in LimitsOf(at(d.token))
    BY <2>1 DEF Binding
  <2>3. LimitsOf(d) = LimitsOf(at(d.token))
    BY <2>1 DEF LimitsOf
  <2> QED BY <2>2, <2>3
<1> QED BY <1>4, <1>5

\* A step that moves one call on keeps them well-typed.
LEMMA GoesType ==
  ASSUME TypeOK, NEW s \in Slots, NEW w \in Phase, NEW c \in Call \cup {NoCall},
         NEW ms \in SUBSET Models, Goes(s, w, c, ms), w # "idle" => c \in Call
  PROVE  /\ phase' \in [Slots -> Phase] /\ phase'[s] = w
         /\ on' \in [Slots -> Call \cup {NoCall}]
         /\ left' \in [Slots -> SUBSET Models]
         /\ \A q \in Slots : phase'[q] # "idle" => on'[q] \in Call
         /\ \A q \in Slots \ {s} : phase'[q] = phase[q] /\ on'[q] = on[q]
BY DEF TypeOK, Goes

LEMMA EndsType ==
  ASSUME TypeOK, NEW s \in Slots, Ends(s)
  PROVE  /\ phase' \in [Slots -> Phase] /\ phase'[s] = "idle"
         /\ on' \in [Slots -> Call \cup {NoCall}]
         /\ left' \in [Slots -> SUBSET Models]
         /\ \A q \in Slots : phase'[q] # "idle" => on'[q] \in Call
         /\ \A q \in Slots \ {s} : phase'[q] = phase[q] /\ on'[q] = on[q]
<1>1. "idle" \in Phase /\ NoCall \in Call \cup {NoCall} /\ {} \in SUBSET Models
  BY DEF Phase
<1> QED BY <1>1, GoesType DEF Ends

LEMMA MovesOnType ==
  ASSUME TypeOK, NEW s \in Slots, phase[s] # "idle", MovesOn(s)
  PROVE  /\ phase' \in [Slots -> Phase] /\ phase'[s] \in {"idle", "trying"}
         /\ on' \in [Slots -> Call \cup {NoCall}]
         /\ left' \in [Slots -> SUBSET Models]
         /\ \A q \in Slots : phase'[q] # "idle" => on'[q] \in Call
         /\ \A q \in Slots \ {s} : phase'[q] = phase[q] /\ on'[q] = on[q]
<1>1. CASE left[s] = {}
  BY <1>1, EndsType DEF MovesOn
<1>2. CASE left[s] # {}
  <2>1. on[s] \in Call /\ left[s] \in SUBSET Models /\ "trying" \in Phase
    BY DEF TypeOK, Phase
  <2>2. Goes(s, "trying", on[s], left[s])
    BY <1>2 DEF MovesOn
  <2> QED BY <2>1, <2>2, GoesType
<1> QED BY <1>1, <1>2

\* A step that stores records takes them from calls that have succeeded.
Closing == {s \in Slots : phase[s] = "closing"}

LEMMA StoringSteps ==
  ASSUME (\E q \in Requests : Close(q)) \/ (\E s \in Slots : Append(s))
  PROVE  \E closed \in SUBSET Closing : Stores(closed)
<1>1. ASSUME NEW q \in Requests, Close(q)
      PROVE  \E closed \in SUBSET Closing : Stores(closed)
  <2> DEFINE closed == {s \in Slots : RequestOf[s] = q /\ phase[s] = "closing" /\ on[s].type # "guardrail"}
  <2>1. closed \in SUBSET Closing
    BY DEF Closing
  <2>2. Stores(closed)
    BY <1>1 DEF Close
  <2> QED BY <2>1, <2>2
<1>2. ASSUME NEW s \in Slots, Append(s)
      PROVE  \E closed \in SUBSET Closing : Stores(closed)
  BY <1>2 DEF Append, Closing
<1> QED BY <1>1, <1>2

\* There are no more records to store than calls that made them.
LEMMA DraftsAreFew ==
  ASSUME NEW closed \in SUBSET Slots
  PROVE  /\ IsFiniteSet(closed) /\ IsFiniteSet({draft[s] : s \in closed})
         /\ Cardinality({draft[s] : s \in closed}) <= Cardinality(closed)
<1> DEFINE D == {draft[s] : s \in closed}
           f == [s \in closed |-> draft[s]]
<1>1. IsFiniteSet(closed)
  BY FS_Subset
<1>2. f \in Surjection(closed, D)
  BY DEF Surjection
<1> HIDE DEF D, f
<1>3. IsFiniteSet(D) /\ Cardinality(D) <= Cardinality(closed)
  BY <1>1, <1>2, FS_Surjection
<1> QED BY <1>1, <1>3 DEF D

LEMMA InitType == Init => TypeOK
<1> SUFFICES ASSUME Init PROVE TypeOK
  OBVIOUS
<1>1. IsFiniteSet(records)
  BY FS_EmptySet DEF Init
<1> QED BY <1>1 DEF Init, TypeOK, Time, Phase

LEMMA StepType ==
  ASSUME TypeOK, [Next]_vars
  PROVE  TypeOK'
<1>1. CASE Tick
  BY <1>1 DEF Tick, TypeOK, Time
<1>2. ASSUME NEW s \in Slots, NEW rt \in Routers, NEW tok \in TokensOf[rt], Route(s, rt, tok)
      PROVE  TypeOK'
  <2> DEFINE call(m) == [router |-> rt, model |-> m, token |-> tok, type |-> "completion"]
             valid == {m \in RouterModels[rt] : Allowed(call(m), records, now)}
             c == call(CHOOSE m \in valid : TRUE)
  <2>1. Goes(s, "routing", c, valid) /\ valid # {}
        /\ UNCHANGED <<now, records, made, draft, watches, exceeded, fired>>
    BY <1>2 DEF Route
  <2>2. valid \in SUBSET Models /\ (CHOOSE m \in valid : TRUE) \in valid
    <3>1. RouterModels[rt] \in SUBSET Models
      OBVIOUS
    <3>2. PICK m \in valid : TRUE
      BY <2>1
    <3> QED BY <3>1, <3>2
  <2>3. c \in Call
    BY <2>2 DEF Call, CallType
  <2>4. phase[s] = "idle"
    BY <1>2 DEF Route
  <2> HIDE DEF valid, c
  <2> QED BY <2>1, <2>2, <2>3, GoesType DEF TypeOK, Phase
<1>3. ASSUME NEW s \in Slots, NEW c \in Call, DirectCall(s, c)
      PROVE  TypeOK'
  <2>1. {} \in SUBSET Models /\ "eligible" \in Phase
    BY DEF Phase
  <2> QED BY <1>3, <2>1, GoesType DEF DirectCall, TypeOK
<1>4. ASSUME NEW s \in Slots, NEW m \in Models, Prepare(s, m)
      PROVE  TypeOK'
  <2> DEFINE c == [on[s] EXCEPT !.model = m]
  <2>1. c \in Call /\ on[s] \in Call
    BY <1>4 DEF Prepare, TypeOK, Call
  <2>2. "eligible" \in Phase /\ "trying" \in Phase /\ left[s] \ {m} \in SUBSET Models
    BY DEF TypeOK, Phase
  <2>3. \/ Goes(s, "eligible", c, left[s] \ {m})
        \/ Ends(s)
        \/ Goes(s, "trying", on[s], left[s] \ {m})
    BY <1>4 DEF Prepare
  <2>4. UNCHANGED <<now, records, made, draft, watches, exceeded, fired>>
    BY <1>4 DEF Prepare
  <2> HIDE DEF c
  <2> QED BY <2>1, <2>2, <2>3, <2>4, GoesType, EndsType DEF TypeOK
<1>5. ASSUME NEW s \in Slots, ReadUsage(s)
      PROVE  TypeOK'
  <2> DEFINE w == IF Allowed(on[s], records, now) THEN "passed" ELSE "denied"
  <2>1. on[s] \in Call /\ left[s] \in SUBSET Models
    BY <1>5 DEF ReadUsage, TypeOK
  <2>2. w \in Phase /\ w # "closing"
    BY DEF Phase
  <2>3. Goes(s, w, on[s], left[s]) /\ UNCHANGED <<now, records, made, draft, watches, exceeded, fired>>
    BY <1>5 DEF ReadUsage
  <2> HIDE DEF w
  <2> QED BY <2>1, <2>2, <2>3, GoesType DEF TypeOK
<1>6. ASSUME NEW c \in watches, Watch(c)
      PROVE  TypeOK'
  <2>1. c \in Call
    BY DEF TypeOK
  <2>2. ASSUME NEW lim \in Near(c) PROVE AlertKey(c, lim) \in Key
    <3>1. lim \in Limit
        BY <2>1, LimitsType DEF Near
    <3> QED BY <2>1, <3>1 DEF AlertKey, Key, Call, Limit
  <2>3. fired' \subseteq Key
    BY <1>6, <2>2 DEF Watch, TypeOK
  <2> QED BY <1>6, <2>3 DEF Watch, TypeOK
<1>7. ASSUME NEW s \in Slots, NEW a \in Amounts, Succeed(s, a)
      PROVE  TypeOK'
  <2> DEFINE e == [id |-> made + 1, router |-> on[s].router, model |-> on[s].model,
                   token |-> on[s].token, amount |-> a, at |-> now]
  <2>1. on[s] \in Call /\ made + 1 \in 1..MaxCalls /\ made' = made + 1
    BY <1>7 DEF Succeed, TypeOK
  <2>2. e \in Record
    BY <2>1 DEF Record, Call, TypeOK
  <2>3. draft' = [draft EXCEPT ![s] = e] /\ Goes(s, "closing", on[s], {})
        /\ UNCHANGED <<now, records, watches, exceeded, fired>>
    BY <1>7 DEF Succeed
  <2>4. "closing" \in Phase /\ {} \in SUBSET Models
    BY DEF Phase
  <2> HIDE DEF e
  <2> QED BY <2>1, <2>2, <2>3, <2>4, GoesType DEF TypeOK
<1>8. ASSUME NEW s \in Slots, Deny(s)
      PROVE  TypeOK'
  <2>1. on[s] \in Call /\ PlaceOf(on[s]) \in Place
    BY <1>8, CallIsPlaced DEF Deny, TypeOK
  <2> QED BY <1>8, <2>1, MovesOnType DEF Deny, TypeOK
<1>9. ASSUME NEW s \in Slots, Grant(s)
      PROVE  TypeOK'
  <2>1. on[s] \in Call /\ left[s] \in SUBSET Models /\ "calling" \in Phase
    BY <1>9 DEF Grant, TypeOK, Phase
  <2>2. Goes(s, "calling", on[s], left[s])
    BY <1>9 DEF Grant
  <2>3. watches' \subseteq Call /\ exceeded' \subseteq Place /\ fired' \subseteq Key
    BY <1>9, <2>1 DEF Grant, TypeOK
  <2> QED BY <1>9, <2>1, <2>2, <2>3, GoesType DEF Grant, TypeOK
<1>10. ASSUME NEW s \in Slots, Fail(s)
       PROVE  TypeOK'
  BY <1>10, MovesOnType, EndsType DEF Fail, TypeOK
<1>11. ASSUME NEW closed \in SUBSET Closing, Stores(closed)
       PROVE  TypeOK'
  <2> DEFINE D == {draft[s] : s \in closed}
  <2>1. D \subseteq Record
    BY DEF Closing, TypeOK
  <2>2. IsFiniteSet(D) /\ IsFiniteSet(records)
    <3>1. closed \in SUBSET Slots
      BY DEF Closing
    <3> QED BY <3>1, DraftsAreFew DEF TypeOK
  <2>3. records' = records \cup D /\ IsFiniteSet(records')
    <3>1. records' = records \cup D
      BY <1>11 DEF Stores
    <3> HIDE DEF D
    <3> QED BY <2>2, <3>1, FS_Union
  <2> HIDE DEF D
  <2>4. /\ phase' \in [Slots -> Phase] /\ on' \in [Slots -> Call \cup {NoCall}]
        /\ draft' \in [Slots -> Record \cup {NoRecord}]
        /\ \A s \in Slots : phase'[s] # "idle" =>
             phase'[s] = phase[s] /\ on'[s] = on[s] /\ draft'[s] = draft[s]
        /\ UNCHANGED <<now, made, left, watches, exceeded, fired>>
    BY <1>11 DEF Stores, TypeOK, Phase
  <2>5. \A s \in Slots : phase'[s] # "idle" => on'[s] \in Call
    BY <2>4 DEF TypeOK
  <2>6. \A s \in Slots : phase'[s] = "closing" => draft'[s] \in Record
    BY <2>4 DEF TypeOK
  <2> QED BY <2>1, <2>3, <2>4, <2>5, <2>6 DEF TypeOK
<1>12. CASE Restart
  BY <1>12 DEF Restart, TypeOK, Phase
<1>13. CASE UNCHANGED vars
  BY <1>13 DEF vars, TypeOK
<1> QED BY <1>1, <1>2, <1>3, <1>4, <1>5, <1>6, <1>7, <1>8, <1>9, <1>10, <1>11, <1>12, <1>13, StoringSteps DEF Next

\* The calls, the history and the alerts are well-formed in every run.
THEOREM TypeCorrect == Spec => []TypeOK
BY InitType, StepType, PTL DEF Spec

-----------------------------------------------------------------------------
(* The bound is inductive once a held record is known to be one of the      *)
(* router and the model of its call: when it is stored, however many others *)
(* with it, the call stops counting as on its way.                          *)

DraftPlaced ==
  \A s \in Slots : phase[s] = "closing" => PlaceOf(draft[s]) = PlaceOf(on[s])

IInv == TypeOK /\ DraftPlaced /\ CallsOvershoot

Past(lim, p) == Counted(lim, p, records, now)
Calls(lim, p) == Cardinality(Past(lim, p)) + Cardinality(InFlight(p))

Bounded(lim, p) ==
  Calls(lim, p) > 0 => lim.value > 0 /\ Calls(lim, p) < lim.value + Cardinality(Slots)

LEMMA OvershootIsBounded ==
  CallsOvershoot <=> \A p \in Place : \A lim \in Binding(p) : lim.metric = "calls" => Bounded(lim, p)
BY DEF CallsOvershoot, Bounded, Calls, Past

LEMMA CountsAreFinite ==
  ASSUME TypeOK, NEW lim, NEW p
  PROVE  /\ IsFiniteSet(Past(lim, p)) /\ Cardinality(Past(lim, p)) \in Nat
         /\ IsFiniteSet(InFlight(p)) /\ Cardinality(InFlight(p)) \in Nat
         /\ Cardinality(Slots) \in Nat
<1>1. Past(lim, p) \subseteq records /\ InFlight(p) \subseteq Slots
  BY DEF Past, Counted, InFlight
<1>2. IsFiniteSet(records)
  BY DEF TypeOK
<1>3. IsFiniteSet(Past(lim, p)) /\ IsFiniteSet(InFlight(p))
  BY <1>1, <1>2, FS_Subset
<1> QED BY <1>3, FS_CardinalityType

\* A step that counts no new call and lets none through keeps the bound.
LEMMA ShrinkingIsBounded ==
  ASSUME TypeOK, NEW lim \in Limit, NEW p, Bounded(lim, p),
         Past(lim, p)' \subseteq Past(lim, p), InFlight(p)' \subseteq InFlight(p)
  PROVE  Bounded(lim, p)'
<1>1. /\ Cardinality(Past(lim, p)') <= Cardinality(Past(lim, p))
      /\ Cardinality(InFlight(p)') <= Cardinality(InFlight(p))
      /\ IsFiniteSet(Past(lim, p)') /\ IsFiniteSet(InFlight(p)')
  BY CountsAreFinite, FS_Subset
<1>2. /\ Cardinality(Past(lim, p)) \in Nat /\ Cardinality(InFlight(p)) \in Nat
      /\ Cardinality(Past(lim, p)') \in Nat /\ Cardinality(InFlight(p)') \in Nat
      /\ Cardinality(Slots) \in Nat
  BY <1>1, CountsAreFinite, FS_CardinalityType
<1>3. lim.value \in Nat
  BY DEF Limit
<1> QED BY <1>1, <1>2, <1>3 DEF Bounded, Calls

\* A call whose check has just passed found the limit not reached, and no more
\* calls can be on their way than the requests can have.
LEMMA AdmissionIsBounded ==
  ASSUME TypeOK, NEW lim \in Limit, NEW p, Cardinality(Past(lim, p)) < lim.value,
         Past(lim, p)' = Past(lim, p)
  PROVE  Bounded(lim, p)'
<1>1. InFlight(p)' \subseteq Slots
  BY DEF InFlight
<1>2. IsFiniteSet(InFlight(p)') /\ Cardinality(InFlight(p)') <= Cardinality(Slots)
  BY <1>1, FS_Subset
<1>3. /\ Cardinality(InFlight(p)') \in Nat /\ Cardinality(Past(lim, p)) \in Nat
      /\ Cardinality(Slots) \in Nat
  BY <1>2, CountsAreFinite, FS_CardinalityType
<1>4. lim.value \in Nat
  BY DEF Limit
<1> QED BY <1>2, <1>3, <1>4 DEF Bounded, Calls

\* Calls that get into the history are on their way no more: no sum grows.
LEMMA StoringIsBounded ==
  ASSUME TypeOK, NEW lim \in Limit, NEW p, Bounded(lim, p),
         NEW D, NEW G \in SUBSET InFlight(p),
         IsFiniteSet(D), Cardinality(D) <= Cardinality(G),
         Past(lim, p)' \subseteq Past(lim, p) \cup D,
         InFlight(p)' \subseteq InFlight(p) \ G
  PROVE  Bounded(lim, p)'
<1> DEFINE P == Past(lim, p)
           F == InFlight(p)
<1>1. IsFiniteSet(P) /\ IsFiniteSet(F) /\ Cardinality(P) \in Nat /\ Cardinality(F) \in Nat
      /\ Cardinality(Slots) \in Nat
  BY CountsAreFinite
<1>2. IsFiniteSet(P \cup D) /\ Cardinality(P \cup D) <= Cardinality(P) + Cardinality(D)
      /\ Cardinality(D) \in Nat /\ Cardinality(P \cup D) \in Nat
  <2> HIDE DEF P, F
  <2>1. IsFiniteSet(P \cup D)
        /\ Cardinality(P \cup D) = Cardinality(P) + Cardinality(D) - Cardinality(P \cap D)
    BY <1>1, FS_Union
  <2>2. IsFiniteSet(P \cap D) /\ Cardinality(P \cap D) \in Nat
    BY <1>1, FS_Subset, FS_CardinalityType
  <2>3. Cardinality(D) \in Nat /\ Cardinality(P \cup D) \in Nat
    BY <2>1, FS_CardinalityType
  <2> QED BY <1>1, <2>1, <2>2, <2>3
<1>3. IsFiniteSet(F \ G) /\ Cardinality(F \ G) = Cardinality(F) - Cardinality(G)
      /\ Cardinality(G) \in Nat
  <2>1. F \cap G = G
    OBVIOUS
  <2>2. IsFiniteSet(G) /\ Cardinality(G) \in Nat
    BY <1>1, FS_Subset, FS_CardinalityType
  <2> QED BY <1>1, <2>1, <2>2, FS_Difference
<1>4. /\ IsFiniteSet(P') /\ Cardinality(P') <= Cardinality(P \cup D)
      /\ IsFiniteSet(F') /\ Cardinality(F') <= Cardinality(F \ G)
  BY <1>2, <1>3, FS_Subset
<1>5. Cardinality(P') \in Nat /\ Cardinality(F') \in Nat /\ lim.value \in Nat
  BY <1>4, FS_CardinalityType DEF Limit
<1>6. Cardinality(P') + Cardinality(F') <= Cardinality(P) + Cardinality(F)
  <2> HIDE DEF P, F
  <2> QED BY <1>1, <1>2, <1>3, <1>4, <1>5
<1> QED BY <1>1, <1>5, <1>6 DEF Bounded, Calls

\* Windows only move forward.
LEMMA WindowAdvances ==
  ASSUME NEW lim \in Limit, NEW t \in Time, t + 1 \in Time
  PROVE  /\ WindowStart(lim, t) \in Int /\ WindowStart(lim, t + 1) \in Int
         /\ WindowStart(lim, t) <= WindowStart(lim, t + 1)
<1>1. lim.window \in Window /\ t \in Nat /\ t <= t + 1
  BY DEF Limit, Time
<1>2. CASE lim.window \in Periods
  <2>1. PeriodStart[lim.window][t] \in Nat /\ PeriodStart[lim.window][t + 1] \in Nat
    BY <1>2, PeriodAssumption DEF Time
  <2>2. PeriodStart[lim.window][t] <= PeriodStart[lim.window][t + 1]
    BY <1>1, <1>2, PeriodAssumption
  <2> QED BY <1>2, <2>1, <2>2 DEF WindowStart
<1>3. CASE lim.window \notin Periods
  <2>1. Length[lim.window] \in Nat
    BY <1>1, <1>3 DEF Window
  <2> QED BY <1>1, <1>3, <2>1 DEF WindowStart
<1> QED BY <1>2, <1>3

LEMMA InitIInv == Init => IInv
<1> SUFFICES ASSUME Init PROVE IInv
  OBVIOUS
<1>1. DraftPlaced
  BY DEF Init, DraftPlaced
<1>2. ASSUME NEW p, NEW lim PROVE Calls(lim, p) = 0
  <2>1. Past(lim, p) = {} /\ InFlight(p) = {}
    BY DEF Init, Past, Counted, InFlight
  <2> QED BY <2>1, FS_EmptySet DEF Calls
<1>3. CallsOvershoot
  BY <1>2, OvershootIsBounded DEF Bounded
<1> QED BY <1>1, <1>3, InitType DEF IInv

LEMMA StepDraftPlaced ==
  ASSUME TypeOK, DraftPlaced, [Next]_vars
  PROVE  DraftPlaced'
<1> USE DEF DraftPlaced
<1>1. CASE Tick
  BY <1>1 DEF Tick
<1>2. ASSUME NEW s \in Slots, NEW rt \in Routers, NEW tok \in TokensOf[rt], Route(s, rt, tok)
      PROVE  DraftPlaced'
  BY <1>2 DEF Route, Goes, TypeOK
<1>3. ASSUME NEW s \in Slots, NEW c \in Call, DirectCall(s, c)
      PROVE  DraftPlaced'
  BY <1>3 DEF DirectCall, Goes, TypeOK
<1>4. ASSUME NEW s \in Slots, NEW m \in Models, Prepare(s, m)
      PROVE  DraftPlaced'
  BY <1>4, EndsType DEF Prepare, Goes, TypeOK
<1>5. ASSUME NEW s \in Slots, ReadUsage(s)
      PROVE  DraftPlaced'
  BY <1>5 DEF ReadUsage, Goes, TypeOK
<1>6. ASSUME NEW c \in watches, Watch(c)
      PROVE  DraftPlaced'
  BY <1>6 DEF Watch
<1>7. ASSUME NEW s \in Slots, NEW a \in Amounts, Succeed(s, a)
      PROVE  DraftPlaced'
  BY <1>7 DEF Succeed, Goes, TypeOK, PlaceOf
<1>8. ASSUME NEW s \in Slots, Deny(s)
      PROVE  DraftPlaced'
  BY <1>8, MovesOnType DEF Deny
<1>9. ASSUME NEW s \in Slots, Grant(s)
      PROVE  DraftPlaced'
  BY <1>9 DEF Grant, Goes, TypeOK
<1>10. ASSUME NEW s \in Slots, Fail(s)
       PROVE  DraftPlaced'
  BY <1>10, MovesOnType, EndsType DEF Fail
<1>11. ASSUME NEW closed \in SUBSET Closing, Stores(closed)
       PROVE  DraftPlaced'
  BY <1>11 DEF Stores, TypeOK
<1>12. CASE Restart
  BY <1>12 DEF Restart
<1>13. CASE UNCHANGED vars
  BY <1>13 DEF vars
<1> QED BY <1>1, <1>2, <1>3, <1>4, <1>5, <1>6, <1>7, <1>8, <1>9, <1>10, <1>11, <1>12, <1>13, StoringSteps DEF Next

\* Sending a call where it is not on its way takes it out of every sum.
LEMMA LeavingShrinks ==
  ASSUME TypeOK, NEW s \in Slots, NEW p, phase'[s] \notin {"passed", "calling", "closing"},
         \A q \in Slots \ {s} : phase'[q] = phase[q] /\ on'[q] = on[q]
  PROVE  InFlight(p)' \subseteq InFlight(p) \ {s}
BY DEF InFlight

LEMMA StepBounded ==
  ASSUME IInv, [Next]_vars, NEW p \in Place, NEW lim \in Binding(p), lim.metric = "calls"
  PROVE  Bounded(lim, p)'
<1>1. TypeOK /\ DraftPlaced /\ Bounded(lim, p)
  BY OvershootIsBounded DEF IInv
<1>2. lim \in Limit
  BY BindingType
<1>3. CASE Tick
  <2>1. WindowStart(lim, now) <= WindowStart(lim, now')
        /\ WindowStart(lim, now) \in Int /\ WindowStart(lim, now') \in Int
    <3>1. now \in Time /\ now + 1 \in Time /\ now' = now + 1
      BY <1>1, <1>3 DEF Tick, TypeOK, Time
    <3> QED BY <1>2, <3>1, WindowAdvances
  <2>2. \A e \in records : e.at \in Nat
    BY <1>1 DEF TypeOK, Record, Time
  <2>3. Past(lim, p)' \subseteq Past(lim, p)
    BY <1>3, <2>1, <2>2 DEF Tick, Past, Counted
  <2>4. InFlight(p)' = InFlight(p)
    BY <1>3 DEF Tick, InFlight
  <2> QED BY <1>1, <1>2, <2>3, <2>4, ShrinkingIsBounded
<1>4. ASSUME NEW s \in Slots, NEW rt \in Routers, NEW tok \in TokensOf[rt], Route(s, rt, tok)
      PROVE  Bounded(lim, p)'
  <2>1. Past(lim, p)' = Past(lim, p)
    BY <1>4 DEF Route, Past
  <2>2. InFlight(p)' \subseteq InFlight(p)
    BY <1>1, <1>4 DEF Route, Goes, TypeOK, InFlight
  <2> QED BY <1>1, <1>2, <2>1, <2>2, ShrinkingIsBounded
<1>5. ASSUME NEW s \in Slots, NEW d \in Call, DirectCall(s, d)
      PROVE  Bounded(lim, p)'
  <2>1. Past(lim, p)' = Past(lim, p)
    BY <1>5 DEF DirectCall, Past
  <2>2. InFlight(p)' \subseteq InFlight(p)
    BY <1>1, <1>5 DEF DirectCall, Goes, TypeOK, InFlight
  <2> QED BY <1>1, <1>2, <2>1, <2>2, ShrinkingIsBounded
<1>6. ASSUME NEW s \in Slots, NEW m \in Models, Prepare(s, m)
      PROVE  Bounded(lim, p)'
  <2>1. Past(lim, p)' = Past(lim, p)
    BY <1>6 DEF Prepare, Past
  <2>2. phase'[s] \in {"eligible", "idle", "trying"}
        /\ \A q \in Slots \ {s} : phase'[q] = phase[q] /\ on'[q] = on[q]
    BY <1>1, <1>6 DEF Prepare, Ends, Goes, TypeOK
  <2>3. InFlight(p)' \subseteq InFlight(p)
    BY <1>1, <2>2, LeavingShrinks
  <2> QED BY <1>1, <1>2, <2>1, <2>3, ShrinkingIsBounded
<1>7. ASSUME NEW s \in Slots, ReadUsage(s)
      PROVE  Bounded(lim, p)'
  <2> DEFINE d == on[s]
  <2>1. Past(lim, p)' = Past(lim, p)
    BY <1>7 DEF ReadUsage, Past
  <2>2. d \in Call
    BY <1>1, <1>7 DEF ReadUsage, TypeOK
  <2>3. /\ phase' = [phase EXCEPT ![s] = IF Allowed(d, records, now) THEN "passed" ELSE "denied"]
        /\ on' = [on EXCEPT ![s] = d] /\ on[s] = d
    BY <1>7 DEF ReadUsage, Goes
  <2> HIDE DEF d
  <2>4. CASE Allowed(d, records, now) /\ PlaceOf(d) = p
    <3>1. lim \in LimitsOf(d)
      BY <2>2, <2>4, BindingType
    <3>2. Total(lim, Counted(lim, d, records, now)) < lim.value
      BY <2>4, <3>1 DEF Allowed
    <3>3. Counted(lim, d, records, now) = Past(lim, p)
      BY <2>4 DEF Counted, Past, PlaceOf
    <3>4. Cardinality(Past(lim, p)) < lim.value
      BY <3>2, <3>3 DEF Total
    <3> QED BY <1>1, <1>2, <2>1, <3>4, AdmissionIsBounded
  <2>5. CASE ~(Allowed(d, records, now) /\ PlaceOf(d) = p)
    <3>1. InFlight(p)' \subseteq InFlight(p)
      BY <1>1, <2>3, <2>5 DEF InFlight, TypeOK
    <3> QED BY <1>1, <1>2, <2>1, <3>1, ShrinkingIsBounded
  <2> QED BY <2>4, <2>5
<1>8. ASSUME NEW d \in watches, Watch(d)
      PROVE  Bounded(lim, p)'
  <2>1. Past(lim, p)' = Past(lim, p) /\ InFlight(p)' = InFlight(p)
    BY <1>8 DEF Watch, Past, InFlight
  <2> QED BY <1>1, <1>2, <2>1, ShrinkingIsBounded
<1>9. ASSUME NEW s \in Slots, NEW a \in Amounts, Succeed(s, a)
      PROVE  Bounded(lim, p)'
  <2>1. Past(lim, p)' = Past(lim, p)
    BY <1>9 DEF Succeed, Past
  <2>2. InFlight(p)' \subseteq InFlight(p)
    BY <1>1, <1>9 DEF Succeed, Goes, TypeOK, InFlight
  <2> QED BY <1>1, <1>2, <2>1, <2>2, ShrinkingIsBounded
<1>10. ASSUME NEW s \in Slots, Deny(s)
       PROVE  Bounded(lim, p)'
  <2>1. Past(lim, p)' = Past(lim, p)
    BY <1>10 DEF Deny, Past
  <2>2. InFlight(p)' \subseteq InFlight(p)
    BY <1>1, <1>10, MovesOnType, LeavingShrinks DEF Deny
  <2> QED BY <1>1, <1>2, <2>1, <2>2, ShrinkingIsBounded
<1>11. ASSUME NEW s \in Slots, Grant(s)
       PROVE  Bounded(lim, p)'
  <2>1. Past(lim, p)' = Past(lim, p)
    BY <1>11 DEF Grant, Past
  <2>2. InFlight(p)' \subseteq InFlight(p)
    BY <1>1, <1>11 DEF Grant, Goes, TypeOK, InFlight
  <2> QED BY <1>1, <1>2, <2>1, <2>2, ShrinkingIsBounded
<1>12. ASSUME NEW s \in Slots, Fail(s)
       PROVE  Bounded(lim, p)'
  <2>1. Past(lim, p)' = Past(lim, p)
    BY <1>12 DEF Fail, Past
  <2>2. InFlight(p)' \subseteq InFlight(p)
    BY <1>1, <1>12, MovesOnType, EndsType, LeavingShrinks DEF Fail
  <2> QED BY <1>1, <1>2, <2>1, <2>2, ShrinkingIsBounded
<1>13. ASSUME NEW closed \in SUBSET Closing, Stores(closed)
       PROVE  Bounded(lim, p)'
  <2> DEFINE G == {s \in closed : PlaceOf(on[s]) = p}
             D == {draft[s] : s \in G}
  <2>1. G \in SUBSET InFlight(p) /\ G \in SUBSET Slots
    BY DEF Closing, InFlight
  <2>2. IsFiniteSet(D) /\ Cardinality(D) <= Cardinality(G)
    BY <2>1, DraftsAreFew
  <2>3. Past(lim, p)' \subseteq Past(lim, p) \cup D
    <3>1. ASSUME NEW s \in closed, PlaceOf(draft[s]) = p
          PROVE  draft[s] \in D
      BY <1>1, <3>1 DEF DraftPlaced, Closing
    <3>2. records' = records \cup {draft[s] : s \in closed} /\ now' = now
      BY <1>13 DEF Stores
    <3>3. \A s \in closed : draft[s].router = p.router /\ draft[s].model = p.model
            => PlaceOf(draft[s]) = p
      BY DEF PlaceOf, Place
    <3> HIDE DEF G, D
    <3> QED BY <3>1, <3>2, <3>3 DEF Past, Counted
  <2>4. InFlight(p)' \subseteq InFlight(p) \ G
    BY <1>1, <1>13 DEF Stores, TypeOK, InFlight
  <2> HIDE DEF G, D
  <2> QED BY <1>1, <1>2, <2>1, <2>2, <2>3, <2>4, StoringIsBounded
<1>14. CASE Restart
  <2>1. Past(lim, p)' = Past(lim, p) /\ InFlight(p)' = {}
    BY <1>14 DEF Restart, Past, InFlight
  <2> QED BY <1>1, <1>2, <2>1, ShrinkingIsBounded
<1>15. CASE UNCHANGED vars
  <2>1. Past(lim, p)' = Past(lim, p) /\ InFlight(p)' = InFlight(p)
    BY <1>15 DEF vars, Past, InFlight
  <2> QED BY <1>1, <1>2, <2>1, ShrinkingIsBounded
<1> QED BY <1>3, <1>4, <1>5, <1>6, <1>7, <1>8, <1>9, <1>10, <1>11, <1>12, <1>13, <1>14, <1>15, StoringSteps DEF Next

LEMMA StepIInv == IInv /\ [Next]_vars => IInv'
<1> SUFFICES ASSUME IInv, [Next]_vars PROVE IInv'
  OBVIOUS
<1>1. TypeOK' /\ DraftPlaced'
  BY StepType, StepDraftPlaced DEF IInv
<1>2. CallsOvershoot'
  <2>1. ASSUME NEW p \in Place, NEW lim \in Binding(p), lim.metric = "calls"
        PROVE  Bounded(lim, p)'
    BY <2>1, StepBounded
  <2> QED BY <2>1 DEF CallsOvershoot, Bounded, Calls, Past
<1> QED BY <1>1, <1>2 DEF IInv

\* Whatever the limits, the windows and the tokens, however many calls a request
\* makes and however long their records are held, a limit on calls is overrun by
\* fewer calls than the requests of the moment can have under way or held.
THEOREM CallsStayBounded == Spec => []CallsOvershoot
<1>1. IInv => CallsOvershoot
  BY DEF IInv
<1> QED BY <1>1, InitIInv, StepIInv, PTL DEF Spec

-----------------------------------------------------------------------------
(* Alerts.  What a limit counts at a moment only grows as the records of    *)
(* until then are stored, so what was true of that moment stays true.       *)

LEMMA UnitsAreFinite ==
  ASSUME NEW recs \in SUBSET Record, IsFiniteSet(recs)
  PROVE  IsFiniteSet(Units(recs))
<1> DEFINE of(r) == {r} \X (1..r.amount)
           sets == {of(r) : r \in recs}
<1>1. ASSUME NEW r \in recs PROVE IsFiniteSet(of(r))
  <2> DEFINE n == r.amount
  <2>1. n \in Int
    <3>1. r \in Record
      OBVIOUS
    <3>2. r.amount \in Amounts
      BY <3>1 DEF Record
    <3>3. r.amount \in Nat
      BY <3>2, BudgetAssumption
    <3> QED BY <3>3
  <2> HIDE DEF n
  <2>2. IsFiniteSet({r}) /\ IsFiniteSet(1..n)
    <3>1. 1 \in Int
      OBVIOUS
    <3> QED BY <2>1, <3>1, FS_Singleton, FS_Interval
  <2> QED BY <2>2, FS_Product DEF n
<1>2. IsFiniteSet(sets)
  <2> DEFINE f == [r \in recs |-> of(r)]
  <2> HIDE DEF of
  <2>1. f \in Surjection(recs, sets)
    BY DEF Surjection
  <2> QED BY <2>1, FS_Surjection
<1> HIDE DEF of
<1>3. \A S \in sets : IsFiniteSet(S)
  BY <1>1
<1> HIDE DEF sets
<1>4. IsFiniteSet(UNION sets)
  BY <1>2, <1>3, FS_UNION
<1> QED BY <1>4 DEF Units, sets, of

LEMMA UnitsGrow ==
  ASSUME NEW S, NEW T, S \subseteq T
  PROVE  Units(S) \subseteq Units(T)
BY DEF Units

\* More records, no smaller total.
LEMMA TotalsGrow ==
  ASSUME NEW lim, NEW T \in SUBSET Record, IsFiniteSet(T), NEW S \in SUBSET T
  PROVE  Total(lim, S) \in Nat /\ Total(lim, T) \in Nat /\ Total(lim, S) <= Total(lim, T)
<1>1. IsFiniteSet(S) /\ Cardinality(S) <= Cardinality(T)
  BY FS_Subset
<1>2. Units(S) \subseteq Units(T) /\ IsFiniteSet(Units(T))
  BY UnitsGrow, UnitsAreFinite
<1>3. IsFiniteSet(Units(S)) /\ Cardinality(Units(S)) <= Cardinality(Units(T))
  BY <1>2, FS_Subset
<1> QED BY <1>1, <1>2, <1>3, FS_CardinalityType DEF Total

\* The moments of a call at which some limit of it was used to 80 %, and those
\* at which it was refused.
Used(c, lim, t) == 10 * Total(lim, Counted(lim, c, HistoryTo(t), t)) >= 8 * lim.value
Refused(c, t)   == ~ Allowed(c, HistoryTo(t), t)

LEMMA MomentsStay ==
  ASSUME TypeOK, TypeOK', records \subseteq records', NEW c \in Call, NEW t
  PROVE  /\ \A lim \in LimitsOf(c) : Used(c, lim, t) =>
              10 * Total(lim, Counted(lim, c, HistoryTo(t)', t)) >= 8 * lim.value
         /\ Refused(c, t) => ~ Allowed(c, HistoryTo(t)', t)
<1>1. ASSUME NEW lim \in LimitsOf(c)
      PROVE  /\ lim.value \in Nat
             /\ Total(lim, Counted(lim, c, HistoryTo(t), t)) \in Nat
             /\ Total(lim, Counted(lim, c, HistoryTo(t)', t)) \in Nat
             /\ Total(lim, Counted(lim, c, HistoryTo(t), t)) <= Total(lim, Counted(lim, c, HistoryTo(t)', t))
  <2> DEFINE S == Counted(lim, c, HistoryTo(t), t)
             T == Counted(lim, c, HistoryTo(t)', t)
  <2>1. T \in SUBSET records' /\ S \in SUBSET T
    BY DEF Counted, HistoryTo
  <2>2. records' \in SUBSET Record /\ IsFiniteSet(records')
    BY DEF TypeOK
  <2> HIDE DEF S, T
  <2>3. T \in SUBSET Record /\ IsFiniteSet(T)
    BY <2>1, <2>2, FS_Subset
  <2>4. Total(lim, S) \in Nat /\ Total(lim, T) \in Nat /\ Total(lim, S) <= Total(lim, T)
    BY <2>1, <2>3, TotalsGrow
  <2>5. lim.value \in Nat
    BY LimitsType DEF Limit
  <2> QED BY <2>4, <2>5 DEF S, T
<1>2. \A lim \in LimitsOf(c) : Used(c, lim, t) =>
        10 * Total(lim, Counted(lim, c, HistoryTo(t)', t)) >= 8 * lim.value
  BY <1>1 DEF Used
<1>3. ASSUME Refused(c, t) PROVE ~ Allowed(c, HistoryTo(t)', t)
  <2>1. PICK lim \in LimitsOf(c) : ~ (Total(lim, Counted(lim, c, HistoryTo(t), t)) < lim.value)
    BY <1>3 DEF Refused, Allowed
  <2>2. ~ (Total(lim, Counted(lim, c, HistoryTo(t)', t)) < lim.value)
    BY <1>1, <2>1
  <2> QED BY <2>2 DEF Allowed
<1> QED BY <1>2, <1>3

\* What is stored, or held for it, was made before.
NotAhead ==
  /\ \A e \in records : e.at <= now
  /\ \A s \in Slots : phase[s] = "closing" => draft[s].at <= now

\* ... so the history of this moment is all of it.
LEMMA NowIsAll ==
  ASSUME NotAhead
  PROVE  HistoryTo(now) = records
BY DEF NotAhead, HistoryTo

\* A refusal that is about to be announced was one.
DeniedWas ==
  \A s \in Slots : phase[s] = "denied" => \E t \in 0..now : Refused(on[s], t)

LEMMA AlertsByMoment ==
  AlertsAreEarned <=>
    /\ \A k \in fired : \E c \in Call, t \in 0..now :
         /\ PlaceOf(c) = [router |-> k.router, model |-> k.model]
         /\ \E lim \in LimitsOf(c) : lim.window = k.window /\ Used(c, lim, t)
    /\ \A p \in exceeded : \E c \in Call, t \in 0..now : PlaceOf(c) = p /\ Refused(c, t)
BY DEF AlertsAreEarned, Used, Refused

\* As time goes by and records come in, no alert loses its reason.
LEMMA AlertsStayEarned ==
  ASSUME TypeOK, TypeOK', AlertsAreEarned, records \subseteq records', now <= now'
  PROVE  /\ \A k \in fired : \E c \in Call, t \in 0..now' :
              /\ PlaceOf(c) = [router |-> k.router, model |-> k.model]
              /\ \E lim \in LimitsOf(c) :
                   /\ lim.window = k.window
                   /\ 10 * Total(lim, Counted(lim, c, HistoryTo(t)', t)) >= 8 * lim.value
         /\ \A p \in exceeded : \E c \in Call, t \in 0..now' :
              PlaceOf(c) = p /\ ~ Allowed(c, HistoryTo(t)', t)
<1>1. \A t \in 0..now : t \in 0..now'
  BY DEF TypeOK, Time
<1>2. ASSUME NEW k \in fired
      PROVE  \E c \in Call, t \in 0..now' :
               /\ PlaceOf(c) = [router |-> k.router, model |-> k.model]
               /\ \E lim \in LimitsOf(c) :
                    /\ lim.window = k.window
                    /\ 10 * Total(lim, Counted(lim, c, HistoryTo(t)', t)) >= 8 * lim.value
  <2>1. PICK c \in Call, t \in 0..now :
               /\ PlaceOf(c) = [router |-> k.router, model |-> k.model]
               /\ \E lim \in LimitsOf(c) : lim.window = k.window /\ Used(c, lim, t)
    BY AlertsByMoment
  <2>2. PICK lim \in LimitsOf(c) : lim.window = k.window /\ Used(c, lim, t)
    BY <2>1
  <2>3. 10 * Total(lim, Counted(lim, c, HistoryTo(t)', t)) >= 8 * lim.value
    BY <2>2, MomentsStay
  <2> QED BY <1>1, <2>1, <2>2, <2>3
<1>3. ASSUME NEW p \in exceeded
      PROVE  \E c \in Call, t \in 0..now' : PlaceOf(c) = p /\ ~ Allowed(c, HistoryTo(t)', t)
  <2>1. PICK c \in Call, t \in 0..now : PlaceOf(c) = p /\ Refused(c, t)
    BY AlertsByMoment
  <2> QED BY <1>1, <2>1, MomentsStay
<1> QED BY <1>2, <1>3

LEMMA AlertsStep ==
  ASSUME TypeOK, TypeOK', NotAhead, AlertsAreEarned, DeniedWas, [Next]_vars
  PROVE  AlertsAreEarned'
<1>1. now \in Nat /\ now' \in Nat
  BY DEF TypeOK, Time
<1>2. CASE UNCHANGED <<fired, exceeded>> /\ records \subseteq records' /\ now <= now'
  BY <1>2, AlertsStayEarned DEF AlertsAreEarned
<1>3. ASSUME NEW s \in Slots, Deny(s) PROVE AlertsAreEarned'
  <2>1. /\ UNCHANGED <<now, records, fired>> /\ exceeded' = exceeded \cup {PlaceOf(on[s])}
        /\ phase[s] = "denied"
    BY <1>3 DEF Deny
  <2>2. on[s] \in Call /\ \E t \in 0..now : Refused(on[s], t)
    BY <2>1 DEF TypeOK, DeniedWas
  <2>3. \A p \in exceeded' : \E c \in Call, t \in 0..now : PlaceOf(c) = p /\ Refused(c, t)
    BY <2>1, <2>2, AlertsByMoment
  <2>4. \A t : HistoryTo(t)' = HistoryTo(t)
    BY <2>1 DEF HistoryTo
  <2> QED BY <2>1, <2>3, <2>4 DEF AlertsAreEarned, Refused
<1>4. ASSUME NEW s \in Slots, Grant(s) PROVE AlertsAreEarned'
  <2>1. UNCHANGED <<now, records>> /\ exceeded' \subseteq exceeded /\ fired' \subseteq fired
    BY <1>4 DEF Grant
  <2> QED BY <2>1 DEF AlertsAreEarned, HistoryTo
<1>5. ASSUME NEW c \in watches, Watch(c) PROVE AlertsAreEarned'
  <2>1. /\ UNCHANGED <<now, records, exceeded>> /\ c \in Call
        /\ fired' \subseteq fired \cup {AlertKey(c, lim) : lim \in Near(c)}
    BY <1>5 DEF Watch, TypeOK
  <2>2. ASSUME NEW k \in {AlertKey(c, lim) : lim \in Near(c)}
        PROVE  \E d \in Call, t \in 0..now :
                 /\ PlaceOf(d) = [router |-> k.router, model |-> k.model]
                 /\ \E lim \in LimitsOf(d) : lim.window = k.window /\ Used(d, lim, t)
    <3>1. PICK lim \in Near(c) : k = AlertKey(c, lim)
      OBVIOUS
    <3>2. lim \in LimitsOf(c) /\ Used(c, lim, now)
      BY NowIsAll DEF Near, Used
    <3>3. /\ PlaceOf(c) = [router |-> k.router, model |-> k.model]
          /\ lim.window = k.window
      BY <3>1 DEF PlaceOf, AlertKey
    <3>4. now \in 0..now
      BY <1>1
    <3> QED BY <2>1, <3>2, <3>3, <3>4
  <2>3. \A k \in fired' : \E d \in Call, t \in 0..now :
                 /\ PlaceOf(d) = [router |-> k.router, model |-> k.model]
                 /\ \E lim \in LimitsOf(d) : lim.window = k.window /\ Used(d, lim, t)
    BY <2>1, <2>2, AlertsByMoment
  <2>4. \A t : HistoryTo(t)' = HistoryTo(t)
    BY <2>1 DEF HistoryTo
  <2> QED BY <2>1, <2>3, <2>4 DEF AlertsAreEarned, Used
<1>6. CASE Restart
  BY <1>6 DEF Restart, AlertsAreEarned
<1>7. CASE Tick
  <2>1. UNCHANGED <<fired, exceeded>> /\ records \subseteq records' /\ now <= now'
    BY <1>1, <1>7 DEF Tick
  <2> QED BY <1>2, <2>1
<1>8. ASSUME NEW s \in Slots,
             \/ \E rt \in Routers : \E tok \in TokensOf[rt] : Route(s, rt, tok)
             \/ \E c \in Call : DirectCall(s, c)
             \/ \E m \in Models : Prepare(s, m)
             \/ \E a \in Amounts : Succeed(s, a)
             \/ ReadUsage(s) \/ Fail(s)
      PROVE  AlertsAreEarned'
  <2>1. UNCHANGED <<fired, exceeded, now>> /\ records \subseteq records'
    BY <1>8 DEF Route, DirectCall, Prepare, Succeed, ReadUsage, Fail
  <2> QED BY <1>1, <1>2, <2>1
<1>9. CASE UNCHANGED vars
  BY <1>1, <1>2, <1>9 DEF vars
<1>10. ASSUME NEW closed \in SUBSET Closing, Stores(closed)
       PROVE  AlertsAreEarned'
  <2>1. UNCHANGED <<fired, exceeded, now>> /\ records \subseteq records'
    BY <1>10 DEF Stores
  <2> QED BY <1>1, <1>2, <2>1
<1> QED BY <1>3, <1>4, <1>5, <1>6, <1>7, <1>8, <1>9, <1>10, StoringSteps DEF Next

\* Time and the history only go on.
LEMMA OnlyMore ==
  ASSUME TypeOK, [Next]_vars
  PROVE  records \subseteq records' /\ now <= now'
<1>1. now \in Nat
  BY DEF TypeOK, Time
<1>2. CASE Tick
  BY <1>1, <1>2 DEF Tick
<1>3. ASSUME NEW s \in Slots,
             \/ \E rt \in Routers : \E tok \in TokensOf[rt] : Route(s, rt, tok)
             \/ \E c \in Call : DirectCall(s, c)
             \/ \E m \in Models : Prepare(s, m)
             \/ \E a \in Amounts : Succeed(s, a)
             \/ ReadUsage(s) \/ Fail(s) \/ Deny(s) \/ Grant(s)
      PROVE  records \subseteq records' /\ now <= now'
  <2>1. now' = now /\ records \subseteq records'
    BY <1>3 DEF Route, DirectCall, Prepare, Succeed, ReadUsage, Fail, Deny, Grant
  <2> QED BY <1>1, <2>1
<1>4. CASE (\E c \in watches : Watch(c)) \/ Restart \/ UNCHANGED vars
  BY <1>1, <1>4 DEF Watch, Restart, vars
<1>5. ASSUME NEW closed \in SUBSET Closing, Stores(closed)
      PROVE  records \subseteq records' /\ now <= now'
  <2>1. now' = now /\ records \subseteq records'
    BY <1>5 DEF Stores
  <2> QED BY <1>1, <2>1
<1> QED BY <1>2, <1>3, <1>4, <1>5, StoringSteps DEF Next

\* A call is denied by what it has read.
LEMMA OnlyReadingDenies ==
  ASSUME TypeOK, [Next]_vars, ~ Restart, NEW q \in Slots, phase'[q] = "denied"
  PROVE  (phase[q] = "denied" /\ on'[q] = on[q]) \/ ReadUsage(q)
<1>0. DOMAIN phase = Slots /\ DOMAIN on = Slots
  BY DEF TypeOK
<1>1. ASSUME NEW s \in Slots, NEW w, NEW c, NEW ms, Goes(s, w, c, ms), w # "denied"
      PROVE  phase[q] = "denied" /\ on'[q] = on[q]
  BY <1>0, <1>1 DEF Goes
<1>2. ASSUME NEW s \in Slots, Ends(s) \/ MovesOn(s)
      PROVE  phase[q] = "denied" /\ on'[q] = on[q]
  BY <1>1, <1>2 DEF Ends, MovesOn
<1>3. ASSUME NEW s \in Slots,
             \/ \E rt \in Routers : \E tok \in TokensOf[rt] : Route(s, rt, tok)
             \/ \E c \in Call : DirectCall(s, c)
             \/ \E a \in Amounts : Succeed(s, a)
             \/ Grant(s)
      PROVE  phase[q] = "denied" /\ on'[q] = on[q]
  BY <1>1, <1>3 DEF Route, DirectCall, Succeed, Grant
<1>4. ASSUME NEW s \in Slots, NEW m \in Models, Prepare(s, m)
      PROVE  phase[q] = "denied" /\ on'[q] = on[q]
  BY <1>1, <1>2, <1>4 DEF Prepare
<1>5. ASSUME NEW s \in Slots, Fail(s) \/ Deny(s)
      PROVE  phase[q] = "denied" /\ on'[q] = on[q]
  BY <1>2, <1>5 DEF Fail, Deny
<1>6. ASSUME NEW s \in Slots, ReadUsage(s), s # q
      PROVE  phase[q] = "denied" /\ on'[q] = on[q]
  BY <1>0, <1>6 DEF ReadUsage, Goes
<1>7. CASE Tick \/ (\E c \in watches : Watch(c)) \/ UNCHANGED vars
  BY <1>7 DEF Tick, Watch, vars
<1>8. ASSUME NEW closed \in SUBSET Closing, Stores(closed)
      PROVE  phase[q] = "denied" /\ on'[q] = on[q]
  BY <1>8 DEF Stores
<1> QED BY <1>3, <1>4, <1>5, <1>6, <1>7, <1>8, StoringSteps DEF Next

\* A record that waits was made now or waited before.
LEMMA ClosingWas ==
  ASSUME TypeOK, [Next]_vars, NEW q \in Slots, phase'[q] = "closing"
  PROVE  (phase[q] = "closing" /\ draft'[q] = draft[q]) \/ draft'[q].at = now
<1>0. DOMAIN phase = Slots /\ DOMAIN draft = Slots
  BY DEF TypeOK
<1>1. ASSUME NEW s \in Slots, NEW w, NEW c, NEW ms, Goes(s, w, c, ms), w # "closing"
      PROVE  phase[q] = "closing" /\ s # q
  BY <1>0, <1>1 DEF Goes
<1>2. ASSUME NEW s \in Slots, Ends(s) \/ MovesOn(s)
      PROVE  phase[q] = "closing" /\ s # q
  BY <1>1, <1>2 DEF Ends, MovesOn
<1>3. ASSUME NEW s \in Slots,
             \/ \E rt \in Routers : \E tok \in TokensOf[rt] : Route(s, rt, tok)
             \/ \E c \in Call : DirectCall(s, c)
             \/ \E m \in Models : Prepare(s, m)
             \/ Grant(s) \/ Fail(s) \/ Deny(s)
      PROVE  phase[q] = "closing" /\ draft'[q] = draft[q]
  BY <1>1, <1>2, <1>3 DEF Route, DirectCall, Prepare, Grant, Fail, Deny
<1>4. ASSUME NEW s \in Slots, ReadUsage(s)
      PROVE  phase[q] = "closing" /\ draft'[q] = draft[q]
  <2> DEFINE w == IF Allowed(on[s], records, now) THEN "passed" ELSE "denied"
  <2>1. Goes(s, w, on[s], left[s]) /\ draft' = draft
    BY <1>4 DEF ReadUsage
  <2>2. w # "closing"
    OBVIOUS
  <2> HIDE DEF w
  <2> QED BY <1>1, <2>1, <2>2
<1>5. ASSUME NEW closed \in SUBSET Closing, Stores(closed)
      PROVE  phase[q] = "closing" /\ draft'[q] = draft[q]
  BY <1>5 DEF Stores
<1>6. ASSUME NEW s \in Slots, NEW a \in Amounts, Succeed(s, a)
      PROVE  (phase[q] = "closing" /\ draft'[q] = draft[q]) \/ draft'[q].at = now
  <2>1. CASE s = q
    BY <1>0, <1>6, <2>1 DEF Succeed
  <2>2. CASE s # q
    BY <1>0, <1>6, <2>2 DEF Succeed, Goes
  <2> QED BY <2>1, <2>2
<1>7. CASE Tick \/ (\E c \in watches : Watch(c)) \/ UNCHANGED vars
  BY <1>7 DEF Tick, Watch, vars
<1>8. CASE Restart
  BY <1>8 DEF Restart
<1> QED BY <1>3, <1>4, <1>5, <1>6, <1>7, <1>8, StoringSteps DEF Next

LEMMA DeniedStep ==
  ASSUME TypeOK, TypeOK', NotAhead, DeniedWas, [Next]_vars
  PROVE  DeniedWas'
<1>1. now \in Nat /\ now' \in Nat
  BY DEF TypeOK, Time
<1>2. ASSUME NEW q \in Slots, phase'[q] = "denied", phase[q] = "denied", on'[q] = on[q],
             records \subseteq records', now <= now'
      PROVE  \E t \in 0..now' : ~ Allowed(on'[q], HistoryTo(t)', t)
  <2>1. on[q] \in Call
    BY <1>2 DEF TypeOK
  <2>2. PICK t \in 0..now : Refused(on[q], t)
    BY <1>2 DEF DeniedWas
  <2>3. t \in 0..now'
    BY <1>1, <1>2
  <2> QED BY <1>2, <2>1, <2>2, <2>3, MomentsStay
<1>3. ASSUME NEW q \in Slots, phase'[q] = "denied", ~ Restart
      PROVE  \E t \in 0..now' : ~ Allowed(on'[q], HistoryTo(t)', t)
  <2>1. records \subseteq records' /\ now <= now'
    BY <1>1, <1>3, OnlyMore
  <2>2. CASE phase[q] = "denied" /\ on'[q] = on[q]
    BY <1>2, <1>3, <2>1, <2>2
  <2>3. CASE ReadUsage(q)
    <3>1. ~ Allowed(on[q], records, now) /\ on'[q] = on[q] /\ UNCHANGED <<now, records>>
      BY <1>3, <2>3 DEF ReadUsage, Goes, TypeOK
    <3>2. \A t : HistoryTo(t)' = HistoryTo(t)
      BY <3>1 DEF HistoryTo
    <3>3. now \in 0..now'
      BY <1>1, <3>1
    <3> QED BY <3>1, <3>2, <3>3, NowIsAll
  <2>4. (phase[q] = "denied" /\ on'[q] = on[q]) \/ ReadUsage(q)
    BY <1>3, OnlyReadingDenies
  <2> QED BY <2>2, <2>3, <2>4
<1>4. CASE Restart
  BY <1>4 DEF Restart, DeniedWas
<1> QED BY <1>3, <1>4 DEF DeniedWas, Refused

LEMMA NotAheadStep ==
  ASSUME TypeOK, TypeOK', NotAhead, [Next]_vars
  PROVE  NotAhead'
<1>1. now \in Nat /\ now' \in Nat /\ now <= now'
  BY OnlyMore DEF TypeOK, Time
<1>2. ASSUME NEW e \in records PROVE e.at \in Nat /\ e.at <= now'
  <2>1. e.at \in Nat /\ e.at <= now
    BY DEF NotAhead, TypeOK, Record, Time
  <2> QED BY <1>1, <2>1
<1>3. ASSUME NEW s \in Slots, phase[s] = "closing" PROVE draft[s].at <= now'
  <2>1. draft[s] \in Record /\ draft[s].at <= now
    BY <1>3 DEF NotAhead, TypeOK
  <2>2. draft[s].at \in Nat
    BY <2>1 DEF Record, Time
  <2> QED BY <1>1, <2>1, <2>2
<1>4. ASSUME NEW e \in records' PROVE e.at <= now'
  <2>1. CASE \E closed \in SUBSET Closing : Stores(closed)
    <3>1. PICK closed \in SUBSET Closing : Stores(closed)
      BY <2>1
    <3>2. e \in records \/ \E s \in closed : e = draft[s]
      BY <1>4, <3>1 DEF Stores
    <3> QED BY <1>2, <1>3, <3>2 DEF Closing
  <2>2. CASE ~ \E closed \in SUBSET Closing : Stores(closed)
    <3>1. records' = records
      BY <2>2, StoringSteps DEF Next, vars, Tick, Route, DirectCall, Prepare, Watch, Succeed,
                  ReadUsage, Deny, Grant, Fail, Restart
    <3> QED BY <1>2, <1>4, <3>1
  <2> QED BY <2>1, <2>2
<1>5. ASSUME NEW q \in Slots, phase'[q] = "closing" PROVE draft'[q].at <= now'
  <2>1. CASE phase[q] = "closing" /\ draft'[q] = draft[q]
    BY <1>3, <2>1
  <2>2. CASE draft'[q].at = now
    BY <1>1, <2>2
  <2> QED BY <1>5, <2>1, <2>2, ClosingWas
<1> QED BY <1>4, <1>5 DEF NotAhead

\* No alert without its reason, for all limits, levels, windows and amounts: a
\* threshold fires for a limit that was used to 80 %, a model is marked as
\* exceeded when it was refused, however slow the check and however many tokens
\* and requests share the alert.
THEOREM NoFalseAlarm == Spec => []AlertsAreEarned
<1> DEFINE Inv == TypeOK /\ NotAhead /\ AlertsAreEarned /\ DeniedWas
<1>1. Init => Inv
  BY InitType DEF Init, NotAhead, AlertsAreEarned, DeniedWas
<1>2. Inv /\ [Next]_vars => Inv'
  BY StepType, NotAheadStep, AlertsStep, DeniedStep
<1> QED BY <1>1, <1>2, PTL DEF Spec
=============================================================================
