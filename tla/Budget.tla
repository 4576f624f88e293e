------------------------------- MODULE Budget -------------------------------
(***************************************************************************)
(* Usage limits: budget/budget.ts decides from the usage records whether a *)
(* model may be called.  routing/router.ts asks it when a request is       *)
(* routed, budget/index.ts before each candidate, reverse-proxy/execute.ts *)
(* again before each call, where what it sees is announced.  usage/        *)
(* pending.ts keeps the record of a call out of the history until its      *)
(* request is over; one request can make several calls: its own, those of   *)
(* the routing policies and those of the guardrails.                       *)
(*                                                                         *)
(* A record stands for a call that succeeded: the others are not counted.  *)
(* One metric that counts calls and one that sums an amount stand for the  *)
(* five of the source.                                                     *)
(***************************************************************************)
EXTENDS Integers, FiniteSets

CONSTANTS
  Routers, Models, Tokens,
  Requests,       \* requests that run at the same time
  Slots,          \* the calls they may have under way
  RequestOf,      \* [Slots -> Requests]
  Main,           \* the slot of each request for its own calls
  TokensOf,       \* [Routers -> SUBSET Tokens]
  RouterModels,   \* [Routers -> SUBSET Models]
  Periods,        \* calendar windows
  PeriodStart,    \* [Periods -> [Time -> Time]]: startOfPeriod
  Rolling,        \* rolling windows
  Length,         \* [Rolling -> Nat]: their length
  GlobalLimits,   \* [Models -> SUBSET Limit]
  RouterLevel,    \* [Routers -> [Models -> Level]]
  TokenLevel,     \* [Tokens -> [Models -> Level]]
  ColonAfter,     \* [Models -> SUBSET Models]: m and the ids that go on with
                  \* a colon where that of m ends
  Amounts,        \* what a call may cost
  MaxTime,        \* bound on the clock
  MaxCalls        \* bound on the calls that succeed

VARIABLES
  now,
  records,        \* the usage history
  made,           \* calls that have succeeded so far
  phase, on, left, draft,   \* per slot: what it does, its call, the candidates
                  \* left, its record not yet stored
  watches,        \* threshold checks that run beside their call
  exceeded,       \* budgetExceededKeys
  fired           \* thresholdFiredKeys

vars == <<now, records, made, phase, on, left, draft, watches, exceeded, fired>>

Time   == 0..MaxTime
Window == Periods \cup Rolling
Limit  == [metric : {"calls", "cost"}, window : Window, value : Nat]
Level  == [mode : {"replace", "extend", "disable"}, limits : SUBSET Limit]
Place  == [router : Routers, model : Models]
Record == [id : 1..MaxCalls, router : Routers, model : Models, token : Tokens,
           amount : Amounts, at : Time]
Key    == [router : Routers, model : Models, window : Window]
CallType == {"completion", "routing", "guardrail"}
Call   == {c \in [router : Routers, model : Models, token : Tokens, type : CallType] :
             c.token \in TokensOf[c.router]}
Phase  == {"idle", "routing", "trying", "eligible", "passed", "denied", "calling", "closing"}

NoRecord == [id |-> 0]
NoCall   == [router |-> "none"]

ASSUME BudgetAssumption ==
  /\ IsFiniteSet(Slots)
  /\ RequestOf \in [Slots -> Requests]
  /\ Main \subseteq Slots
  /\ TokensOf \in [Routers -> SUBSET Tokens]
  /\ RouterModels \in [Routers -> SUBSET Models]
  /\ MaxTime \in Nat /\ MaxCalls \in Nat
  /\ Amounts \subseteq Nat
  /\ Periods \cap Rolling = {}
  /\ Length \in [Rolling -> Nat]
  /\ GlobalLimits \in [Models -> SUBSET Limit]
  /\ RouterLevel \in [Routers -> [Models -> Level]]
  /\ TokenLevel \in [Tokens -> [Models -> Level]]
  /\ ColonAfter \in [Models -> SUBSET Models]

\* Periods begin in the past, one after the other.
ASSUME PeriodAssumption ==
  /\ PeriodStart \in [Periods -> [Time -> Time]]
  /\ \A p \in Periods, t \in Time :
       /\ PeriodStart[p][t] <= t
       /\ \A u \in Time : t <= u => PeriodStart[p][t] <= PeriodStart[p][u]

-----------------------------------------------------------------------------
(* budget.ts.                                                               *)

PlaceOf(c) == [router |-> c.router, model |-> c.model]

\* A level without limits lets those above it through, unless it disables them.
Applied(level, inherited) ==
  CASE level.mode = "disable" -> {}
    [] level.mode # "disable" /\ level.limits = {} -> inherited
    [] level.mode = "extend" /\ level.limits # {} -> level.limits \cup inherited
    [] level.mode = "replace" /\ level.limits # {} -> level.limits

\* isAllowed for a candidate of the router, isAllowedForRoutingModel for a
\* model that the gateway calls for its own ends.
LimitsOf(c) ==
  IF c.model \in RouterModels[c.router]
  THEN Applied(TokenLevel[c.token][c.model],
               Applied(RouterLevel[c.router][c.model], GlobalLimits[c.model]))
  ELSE GlobalLimits[c.model]

WindowStart(lim, t) ==
  IF lim.window \in Periods THEN PeriodStart[lim.window][t] ELSE t - Length[lim.window]

\* The records a limit looks at are those of the router and the model.
Counted(lim, c, recs, t) ==
  {r \in recs : r.router = c.router /\ r.model = c.model /\ r.at >= WindowStart(lim, t)}

\* Every unit of the amounts of some records.
Units(recs) == UNION {{r} \X (1..r.amount) : r \in recs}

\* The sum of the amounts is the number of their units.
Total(lim, recs) == IF lim.metric = "calls" THEN Cardinality(recs) ELSE Cardinality(Units(recs))

AllowedAtLimit(c, recs, t) ==          \* a limit reached is not yet exceeded
  \A lim \in LimitsOf(c) : Total(lim, Counted(lim, c, recs, t)) <= lim.value

Allowed(c, recs, t) ==
  \A lim \in LimitsOf(c) : Total(lim, Counted(lim, c, recs, t)) < lim.value

-----------------------------------------------------------------------------
(* The calls of the requests.  idle: none.  routing: the candidates are      *)
(* filtered and the policies rank them.  trying: between two candidates.     *)
(* eligible: a model is chosen and about to be called.  passed and denied:   *)
(* checkBudget has read the history, its verdict is not yet acted on.        *)
(* calling: past its check.  closing: the call has succeeded and its record  *)
(* is not yet in the history.                                                *)

Init ==
  /\ now = 0 /\ records = {} /\ made = 0
  /\ phase = [s \in Slots |-> "idle"]
  /\ on = [s \in Slots |-> NoCall]
  /\ left = [s \in Slots |-> {}]
  /\ draft = [s \in Slots |-> NoRecord]
  /\ watches = {} /\ exceeded = {} /\ fired = {}

Tick ==
  /\ now < MaxTime
  /\ now' = now + 1
  /\ UNCHANGED <<records, made, phase, on, left, draft, watches, exceeded, fired>>

Goes(s, where, call, models) ==
  /\ phase' = [phase EXCEPT ![s] = where]
  /\ on' = [on EXCEPT ![s] = call]
  /\ left' = [left EXCEPT ![s] = models]

Ends(s) == Goes(s, "idle", NoCall, {})

\* A call that is refused or fails: the next candidate, or the end.
MovesOn(s) ==
  IF left[s] = {} THEN Ends(s) ELSE Goes(s, "trying", on[s], left[s])

\* The other calls of a request, and whether none of them is under way.
Others(s) == {u \in Slots \ {s} : RequestOf[u] = RequestOf[s]}

Quiet(s) == \A u \in Others(s) : phase[u] \in {"idle", "closing"}

\* The pre-filter of scoreCandidates: models over a limit are left out, and
\* when none is left the request ends with a 429.
Route(s, rt, tok) ==
  LET call(m) == [router |-> rt, model |-> m, token |-> tok, type |-> "completion"]
      valid   == {m \in RouterModels[rt] : Allowed(call(m), records, now)}
  IN  /\ s \in Main /\ phase[s] = "idle" /\ Quiet(s) /\ valid # {}
      /\ Goes(s, "routing", call(CHOOSE m \in valid : TRUE), valid)
      /\ UNCHANGED <<now, records, made, draft, watches, exceeded, fired>>

\* budget.upstream, before each candidate and after the policies: one over its
\* limits is dropped, and nothing is announced.
Prepare(s, m) ==
  LET c == [on[s] EXCEPT !.model = m]
  IN  /\ phase[s] \in {"routing", "trying"} /\ Quiet(s) /\ m \in left[s]
      /\ IF Allowed(c, records, now) THEN Goes(s, "eligible", c, left[s] \ {m})
         ELSE IF left[s] = {m} THEN Ends(s)
         ELSE Goes(s, "trying", on[s], left[s] \ {m})
      /\ UNCHANGED <<now, records, made, draft, watches, exceeded, fired>>

\* The policies of a request call models while its candidates are ranked, each
\* on its own: the first of its list, a repair of the answer, the fallbacks.
\* Its guardrails call their judges before and after.  Any of these models may be
\* a candidate too, and all of them meet checkBudget only.
DirectCall(s, c) ==
  /\ s \notin Main /\ phase[s] = "idle"
  /\ \E u \in Main \cap Others(s) :
       /\ phase[u] # "idle" => c = [on[u] EXCEPT !.model = c.model, !.type = c.type]
       /\ \/ c.type = "routing" /\ phase[u] = "routing"
          \/ c.type = "guardrail" /\ phase[u] \in {"idle", "closing"}
  /\ Goes(s, "eligible", c, {})
  /\ UNCHANGED <<now, records, made, draft, watches, exceeded, fired>>

\* checkBudget, before each call: the history is read ...
ReadUsage(s) ==
  /\ phase[s] = "eligible"
  /\ Goes(s, IF Allowed(on[s], records, now) THEN "passed" ELSE "denied", on[s], left[s])
  /\ UNCHANGED <<now, records, made, draft, watches, exceeded, fired>>

\* ... and what it said is acted on later.  A model over its limits sends the
\* request to its next candidate.
Deny(s) ==
  /\ phase[s] = "denied"
  /\ exceeded' = exceeded \cup {PlaceOf(on[s])}
  /\ MovesOn(s)
  /\ UNCHANGED <<now, records, made, draft, watches, fired>>

\* A model within its limits is called.  If it was over one before, the reset
\* is announced and its alerts are forgotten.
Grant(s) ==
  LET c == on[s]
  IN  /\ phase[s] = "passed"
      /\ Goes(s, "calling", c, left[s])
      /\ exceeded' = exceeded \ {PlaceOf(c)}
      /\ fired' = IF PlaceOf(c) \in exceeded
                  THEN {k \in fired : k.router # c.router \/ k.model \notin ColonAfter[c.model]}
                  ELSE fired
      /\ watches' = IF c.type = "completion" THEN watches \cup {c} ELSE watches
      /\ UNCHANGED <<now, records, made, draft>>

NearlyFree(c) ==                       \* what is left is compared, not what is used
  {lim \in LimitsOf(c) :
     lim.value > 0
     /\ 10 * (lim.value - Total(lim, Counted(lim, c, records, now))) >= 8 * lim.value}

\* The limits of a call that are used to 80 %.
Near(c) ==
  {lim \in LimitsOf(c) :
     lim.value > 0 /\ 10 * Total(lim, Counted(lim, c, records, now)) >= 8 * lim.value}

AlertKey(c, lim) == [router |-> c.router, model |-> c.model, window |-> lim.window]

\* getLimitUsageSnapshot(...).then: announce what was not announced yet.
Watch(c) ==
  LET keys == {AlertKey(c, lim) : lim \in Near(c)} \ fired
  IN  /\ c \in watches
      /\ watches' = watches \ {c}
      /\ fired' = fired \cup keys
      /\ UNCHANGED <<now, records, made, phase, on, left, draft, exceeded>>

\* trackUsage of a success: stamped now, stored later.
Succeed(s, a) ==
  /\ phase[s] = "calling" /\ made < MaxCalls
  /\ made' = made + 1
  /\ draft' = [draft EXCEPT ![s] =
       [id |-> made + 1, router |-> on[s].router, model |-> on[s].model,
        token |-> on[s].token, amount |-> a, at |-> now]]
  /\ Goes(s, "closing", on[s], {})
  /\ UNCHANGED <<now, records, watches, exceeded, fired>>

\* The call fails, or breaks off after its first chunk, which ends the request.
Fail(s) ==
  /\ phase[s] = "calling"
  /\ MovesOn(s) \/ Ends(s)
  /\ UNCHANGED <<now, records, made, draft, watches, exceeded, fired>>

\* The records of some calls get into the history.
Stores(closed) ==
  /\ closed # {}
  /\ records' = records \cup {draft[s] : s \in closed}
  /\ draft' = [s \in Slots |-> IF s \in closed THEN NoRecord ELSE draft[s]]
  /\ phase' = [s \in Slots |-> IF s \in closed THEN "idle" ELSE phase[s]]
  /\ on' = [s \in Slots |-> IF s \in closed THEN NoCall ELSE on[s]]
  /\ UNCHANGED <<now, made, left, watches, exceeded, fired>>

\* The trace of a request is closed, or its timer has run: all that is held
\* for it is stored at once.
Close(q) ==
  Stores({s \in Slots : RequestOf[s] = q /\ phase[s] = "closing" /\ on[s].type # "guardrail"})

\* A judge is called without the trace of the request, and nothing waits for it.
Append(s) ==
  /\ phase[s] = "closing" /\ on[s].type = "guardrail"
  /\ Stores({s})

\* The process dies and starts again: what is only in memory is gone.
Restart ==
  /\ phase' = [s \in Slots |-> "idle"]
  /\ on' = [s \in Slots |-> NoCall]
  /\ left' = [s \in Slots |-> {}]
  /\ draft' = [s \in Slots |-> NoRecord]
  /\ watches' = {} /\ exceeded' = {} /\ fired' = {}
  /\ UNCHANGED <<now, records, made>>

Next ==
  \/ Tick
  \/ \E s \in Slots, rt \in Routers : \E tok \in TokensOf[rt] : Route(s, rt, tok)
  \/ \E s \in Slots, c \in Call : DirectCall(s, c)
  \/ \E s \in Slots, m \in Models : Prepare(s, m)
  \/ \E c \in watches : Watch(c)
  \/ \E s \in Slots, a \in Amounts : Succeed(s, a)
  \/ \E s \in Slots : ReadUsage(s) \/ Deny(s) \/ Grant(s) \/ Fail(s) \/ Append(s)
  \/ \E q \in Requests : Close(q)
  \/ Restart

Spec == Init /\ [][Next]_vars

-----------------------------------------------------------------------------
(* What the limits promise.                                                 *)

TypeOK ==
  /\ now \in Time
  /\ records \in SUBSET Record /\ IsFiniteSet(records)
  /\ made \in 0..MaxCalls
  /\ phase \in [Slots -> Phase]
  /\ on \in [Slots -> Call \cup {NoCall}]
  /\ \A s \in Slots : phase[s] # "idle" => on[s] \in Call
  /\ left \in [Slots -> SUBSET Models]
  /\ draft \in [Slots -> Record \cup {NoRecord}]
  /\ \A s \in Slots : phase[s] = "closing" => draft[s] \in Record
  /\ watches \subseteq Call
  /\ exceeded \subseteq Place
  /\ fired \subseteq Key

\* The limits of a router and a model that every token is held to.
Binding(p) ==
  LET limits(tok) == LimitsOf([router |-> p.router, model |-> p.model, token |-> tok])
      tokens      == TokensOf[p.router]
  IN  {lim \in UNION {limits(tok) : tok \in tokens} : \A tok \in tokens : lim \in limits(tok)}

\* The calls that have passed the check of a router and a model and are not in
\* the history.
InFlight(p) ==
  {s \in Slots : phase[s] \in {"passed", "calling", "closing"} /\ PlaceOf(on[s]) = p}

\* The check comes before the call and the record after it, often long after:
\* a request may have several calls under way on one limit, and several that
\* are held until its trace is closed, all let through by the same history.  So
\* a limit can be overrun, but only by those: whatever the tokens, the windows
\* and the order of events, the calls in the history and those on their way stay
\* below the limit plus the number of calls that the requests of the moment can
\* have under way or held.
CallsOvershoot ==
  \A p \in Place : \A lim \in Binding(p) :
    LET calls == Cardinality(Counted(lim, p, records, now)) + Cardinality(InFlight(p))
    IN  lim.metric = "calls" /\ calls > 0 =>
          lim.value > 0 /\ calls < lim.value + Cardinality(Slots)

\* The history as far as a moment, whenever its records came in.
HistoryTo(t) == {r \in records : r.at <= t}

\* No false alarm: checks are slow, alerts are kept after the spending they are
\* about, and tokens share them, but there was a moment at which a limit of the
\* announced window was used to 80 % for some token, by the calls made until
\* then, and one at which a model marked as exceeded was refused.
AlertsAreEarned ==
  /\ \A k \in fired : \E c \in Call, t \in 0..now :
       /\ PlaceOf(c) = [router |-> k.router, model |-> k.model]
       /\ \E lim \in LimitsOf(c) :
            /\ lim.window = k.window
            /\ 10 * Total(lim, Counted(lim, c, HistoryTo(t), t)) >= 8 * lim.value
  /\ \A p \in exceeded : \E c \in Call, t \in 0..now :
       PlaceOf(c) = p /\ ~ Allowed(c, HistoryTo(t), t)
=============================================================================
