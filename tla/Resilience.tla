----------------------------- MODULE Resilience -----------------------------
(***************************************************************************)
(* The resilience store (modules/resilience/store.ts), the pre-filter that *)
(* reads it before a request is routed (filter.ts), and the requests that  *)
(* write it when an upstream call ends (reverse-proxy/execute.ts).         *)
(*                                                                         *)
(* The store keeps one entry per key.  A provider entry is a circuit       *)
(* breaker (closed, open, half-open), a connection entry a cooldown, a     *)
(* model entry a lockout.  All of it is in memory and every operation is   *)
(* synchronous, so each one is atomic; what interleaves is the requests,   *)
(* which await between the filter, the call and the recording.             *)
(*                                                                         *)
(* An entry that was never created behaves like Fresh, so the Map is a     *)
(* total function here.  lastFault is only displayed and left out.         *)
(***************************************************************************)
EXTENDS Integers, Sequences, FiniteSets

CONSTANTS
  Models,        \* model ids; numbers, because the fallback orders them
  Providers,
  Connections,
  ProviderOf,    \* [Models -> Providers]
  ConnectionOf,  \* [Models -> Connections]
  Routers,
  RouterModels,  \* [Routers -> Seq(Models)], in configuration order
  Requests,      \* slots for concurrent requests
  Resettable,    \* the keys POST /api/resilience/reset is used on
  Faults,        \* the fault categories the upstreams produce
  RetryAfters,   \* how long a rate limit asks to wait (retryAfterMs, or resetAt
                 \* when that is later); NoTime = not said
  THRESHOLD,     \* PROVIDER_FAILURE_THRESHOLD
  WINDOW,        \* PROVIDER_WINDOW_MS
  OPEN,          \* PROVIDER_OPEN_MS
  COOLDOWN,      \* DEFAULT_COOLDOWN_MS
  LOCKOUT,       \* MODEL_LOCKOUT_MS
  MaxTime,       \* bound on the clock
  MaxFaults      \* bound on the hard faults an entry keeps

VARIABLES
  now,           \* Date.now()
  entries,       \* the store: Key -> Entry
  degraded,      \* providerDegraded: models announced as degraded
  phase,         \* what each request is doing
  plan           \* the candidates a request has still to try, in order

vars == <<now, entries, degraded, phase, plan>>

NoTime == -1     \* an absent timestamp

ProviderKey(m)   == [level |-> "provider",   id |-> ProviderOf[m]]
ConnectionKey(m) == [level |-> "connection", id |-> ConnectionOf[m]]
ModelKey(m)      == [level |-> "model",      id |-> m]

Key == [level : {"provider"}, id : Providers]
         \cup [level : {"connection"}, id : Connections]
         \cup [level : {"model"}, id : Models]

HardFaults    == {"auth", "server", "timeout"}
Throttles     == {"rate-limit", "quota"}
Lockouts      == {"model-not-found", "content-safety"}
FaultCategory == HardFaults \cup Throttles \cup Lockouts \cup {"invalid-request"}

ASSUME ConfigAssumption ==
  /\ Models \subseteq Nat /\ IsFiniteSet(Models)
  /\ ProviderOf \in [Models -> Providers]
  /\ ConnectionOf \in [Models -> Connections]
  /\ RouterModels \in [Routers -> Seq(Models)]
  /\ Resettable \subseteq Key
  /\ Faults \subseteq FaultCategory
  /\ RetryAfters \subseteq Nat \cup {NoTime}

ASSUME TimingAssumption ==
  /\ THRESHOLD \in Nat \ {0}
  /\ WINDOW \in Nat /\ OPEN \in Nat /\ COOLDOWN \in Nat /\ LOCKOUT \in Nat
  /\ MaxTime \in Nat /\ MaxFaults \in Nat

-----------------------------------------------------------------------------
(* The operations of the store, on one entry and the current time.         *)

Time  == Nat \cup {NoTime}
Entry == [state : {"closed", "open", "half-open"}, probeInFlight : BOOLEAN,
          failureCount : Nat, faultTimestamps : Seq(Nat),
          openedAt : Time, cooldownUntil : Time, lockoutUntil : Time]

Fresh == [state |-> "closed", probeInFlight |-> FALSE,
          failureCount |-> 0, faultTimestamps |-> <<>>,
          openedAt |-> NoTime, cooldownUntil |-> NoTime, lockoutUntil |-> NoTime]

RecentAll(ts, t) == ts                 \* nothing leaves the window

\* The faults of ts still inside the rolling window.  Timestamps are pushed in
\* the order of the clock, so those that fell out of it are a prefix.
Recent(ts, t) ==
  LET old == {i \in 1..Len(ts) : t - ts[i] > WINDOW}
  IN  SubSeq(ts, Cardinality(old) + 1, Len(ts))

RecordHardFaultFlagLeft(e, t) ==       \* the flag of a failed probe stays up
  LET faults == Recent(Append(e.faultTimestamps, t), t)
      trips  == e.state # "open" /\ (e.state = "half-open" \/ Len(faults) >= THRESHOLD)
  IN  [e EXCEPT !.faultTimestamps = faults, !.failureCount = Len(faults),
                !.state = IF trips THEN "open" ELSE @,
                !.openedAt = IF trips THEN t ELSE @]

RecordHardFault(e, t) ==
  LET faults == Recent(Append(e.faultTimestamps, t), t)
      trips  == e.state = "closed" /\ Len(faults) >= THRESHOLD
  IN  IF e.state = "half-open"
      THEN [e EXCEPT !.state = "open", !.openedAt = t, !.probeInFlight = FALSE,
                     !.faultTimestamps = <<t>>, !.failureCount = 1]
      ELSE [e EXCEPT !.faultTimestamps = faults,
                     !.failureCount = Len(faults),
                     !.state = IF trips THEN "open" ELSE @,
                     !.openedAt = IF trips THEN t ELSE @]

\* A rate limit that says how long to wait is waited for that long.
RecordCooldown(e, t, retryAfter) ==
  [e EXCEPT !.cooldownUntil =
              t + (IF retryAfter = NoTime THEN COOLDOWN ELSE retryAfter)]

RecordLockout(e, t) == [e EXCEPT !.lockoutUntil = t + LOCKOUT]

\* record: what a fault of each category does to the entry it is recorded on.
Record(e, t, fault, retryAfter) ==
  CASE fault \in HardFaults -> RecordHardFault(e, t)
    [] fault \in Throttles  -> RecordCooldown(e, t, retryAfter)
    [] fault \in Lockouts   -> RecordLockout(e, t)
    [] OTHER                -> e

RecordSuccessCounts(e) ==              \* a success takes one fault off the count
  [e EXCEPT !.failureCount = @ - 1]
RecordSuccessAny(e) ==                 \* any success closes, a late one too
  [e EXCEPT !.state = "closed", !.failureCount = 0, !.faultTimestamps = <<>>,
            !.openedAt = NoTime, !.probeInFlight = FALSE]

RecordSuccess(e) ==
  IF e.state = "half-open"
  THEN [e EXCEPT !.state = "closed", !.failureCount = 0, !.faultTimestamps = <<>>,
                 !.openedAt = NoTime, !.probeInFlight = FALSE]
  ELSE e

IsAvailable(e, t) ==
  /\ e.state = "closed"
  /\ e.cooldownUntil = NoTime \/ t >= e.cooldownUntil
  /\ e.lockoutUntil  = NoTime \/ t >= e.lockoutUntil

\* tryProbe on an entry that is not closed: when it grants, and what it leaves.
ProbeGranted(e, t) == e.state = "open" /\ t >= e.openedAt + OPEN
Probed(e) == [e EXCEPT !.state = "half-open", !.probeInFlight = TRUE]

FaultKeyProvider(m, fault) == ProviderKey(m)   \* everything on the provider

\* record.ts: the category decides the level, the level the key.
FaultKey(m, fault) ==
  CASE fault \in HardFaults -> ProviderKey(m)
    [] fault \in Throttles  -> ConnectionKey(m)
    [] OTHER                -> ModelKey(m)

RecordFault(es, t, m, fault, retryAfter) ==
  [es EXCEPT ![FaultKey(m, fault)] = Record(@, t, fault, retryAfter)]

-----------------------------------------------------------------------------
(* filterAvailable.  cs is the router's candidate list.  Granting a probe  *)
(* turns an open key half-open, and both states are unavailable: no grant  *)
(* changes who blocks the candidates after it, so the loop over cs is a    *)
(* definition by cases.  FilterIsTheLoop compares it with the loop itself. *)

Blockers(es, t, m) ==
  {k \in {ProviderKey(m), ConnectionKey(m), ModelKey(m)} : ~IsAvailable(es[k], t)}

\* Keys whose probe is granted: due, and the lone blocker of a candidate.
Grants(es, t, cs) ==
  {k \in Key : /\ ProbeGranted(es[k], t)
               /\ \E i \in DOMAIN cs : Blockers(es, t, cs[i]) = {k}}

IsProberLast(es, t, cs, i, k) ==       \* the last one instead of the first
  /\ Blockers(es, t, cs[i]) = {k}
  /\ \A j \in (i+1)..Len(cs) : Blockers(es, t, cs[j]) # {k}

\* The i-th candidate gets the probe of k: it is the first that only k blocks.
IsProber(es, t, cs, i, k) ==
  /\ Blockers(es, t, cs[i]) = {k}
  /\ \A j \in 1..(i-1) : Blockers(es, t, cs[j]) # {k}

Admitted(es, t, cs) ==
  {m \in Models : \E i \in DOMAIN cs :
     /\ cs[i] = m
     /\ \/ Blockers(es, t, m) = {}
        \/ \E k \in Grants(es, t, cs) : IsProber(es, t, cs, i, k)}

\* The first blocker is the one reported, in the order provider, connection,
\* model, and untilFor reads the first of its timestamps that is set.
FirstBlocker(es, t, m) ==
  LET b == Blockers(es, t, m)
  IN  IF ProviderKey(m) \in b THEN ProviderKey(m)
      ELSE IF ConnectionKey(m) \in b THEN ConnectionKey(m) ELSE ModelKey(m)

UntilOf(e) ==
  IF e.cooldownUntil # NoTime THEN e.cooldownUntil
  ELSE IF e.lockoutUntil # NoTime THEN e.lockoutUntil ELSE e.openedAt

Until(es, t, m) == UntilOf(es[FirstBlocker(es, t, m)])

FallbackNone(es, t, cs) == {}          \* an empty list instead of a fallback

\* When nothing is admitted: the earliest `until`, then the smallest model id.
Fallback(es, t, cs) ==
  {m \in Models : \E i \in DOMAIN cs : cs[i] = m /\ \A j \in DOMAIN cs :
       \/ Until(es, t, m) < Until(es, t, cs[j])
       \/ (Until(es, t, m) = Until(es, t, cs[j]) /\ m <= cs[j])}

FilterAvailable(es, t, cs) ==
  LET admitted == Admitted(es, t, cs)
      grants   == Grants(es, t, cs)
  IN  [available |-> IF admitted = {} THEN Fallback(es, t, cs) ELSE admitted,
       grants    |-> grants,
       entries   |-> [k \in Key |-> IF k \in grants THEN Probed(es[k]) ELSE es[k]]]

-----------------------------------------------------------------------------
(* The same as the source writes it: one pass over the candidates, which    *)
(* spends probes on the way.                                                *)

FilterStep(t, acc, m) ==
  LET es == acc.entries
      b  == Blockers(es, t, m)
      k  == FirstBlocker(es, t, m)
      probes == Cardinality(b) = 1 /\ ProbeGranted(es[k], t)
  IN  IF b = {} THEN [acc EXCEPT !.available = @ \cup {m}]
      ELSE IF probes
      THEN [acc EXCEPT !.available = @ \cup {m}, !.entries = [es EXCEPT ![k] = Probed(@)]]
      ELSE [acc EXCEPT !.excluded = @ \cup {[model |-> m, until |-> UntilOf(es[k])]}]

Earlier(x, y) == x.until < y.until \/ (x.until = y.until /\ x.model < y.model)

\* pass[i] is what is known after i candidates.  The fallback sorts excluded
\* and takes the first: the one that no other comes before.
FilterLoop(es, t, cs) ==
  LET start == [available |-> {}, excluded |-> {}, entries |-> es]
      pass[i \in 0..Len(cs)] == IF i = 0 THEN start ELSE FilterStep(t, pass[i - 1], cs[i])
      end   == pass[Len(cs)]
      first == {x \in end.excluded : \A y \in end.excluded : ~ Earlier(y, x)}
  IN  [available |-> IF end.available = {} THEN {x.model : x \in first} ELSE end.available,
       entries   |-> end.entries]

-----------------------------------------------------------------------------
(* Requests.  idle: waiting for a client.  trying: routed, about to start   *)
(* on the head of its plan.  calling: the upstream call is in flight.       *)

Phase == {"idle", "trying", "calling"}

\* Every order of every subset of ms: what limits, policies and the selector
\* may make of the candidates the filter let through.
Plans(ms) ==
  {p \in UNION {[1..n -> ms] : n \in 0..Cardinality(ms)} :
     \A i, j \in DOMAIN p : p[i] = p[j] => i = j}

Init ==
  /\ now = 0
  /\ entries = [k \in Key |-> Fresh]
  /\ degraded = {}
  /\ phase = [r \in Requests |-> "idle"]
  /\ plan = [r \in Requests |-> <<>>]

Tick ==
  /\ now < MaxTime
  /\ now' = now + 1
  /\ UNCHANGED <<entries, degraded, phase, plan>>

\* r is left with the candidates p: it goes on with the next one or ends.
Proceed(r, p) ==
  /\ plan' = [plan EXCEPT ![r] = p]
  /\ phase' = [phase EXCEPT ![r] = IF p = <<>> THEN "idle" ELSE "trying"]

\* A request of router rt is filtered and scored.  When limits or policies
\* leave nobody the request ends there, the probes it took notwithstanding.
Route(r, rt) ==
  LET res == FilterAvailable(entries, now, RouterModels[rt])
  IN  /\ phase[r] = "idle"
      /\ entries' = res.entries
      /\ \E p \in Plans(res.available) : Proceed(r, p)
      /\ UNCHANGED <<now, degraded>>

\* The gateway's own calls (LLM routing policy, guardrail judge) name their
\* model and never pass the filter.
DirectCall(r, m) ==
  /\ phase[r] = "idle"
  /\ Proceed(r, <<m>>)
  /\ UNCHANGED <<now, entries, degraded>>

\* The candidate is over budget, or its model or connection is gone.
Skip(r) ==
  /\ phase[r] = "trying"
  /\ Proceed(r, Tail(plan[r]))
  /\ UNCHANGED <<now, entries, degraded>>

Attempt(r) ==
  /\ phase[r] = "trying"
  /\ phase' = [phase EXCEPT ![r] = "calling"]
  /\ UNCHANGED <<now, entries, degraded, plan>>

\* The call or the stream ends well: the provider's breaker hears of it, and
\* a model announced as degraded is announced as recovered.
Succeed(r) ==
  LET m == Head(plan[r])
  IN  /\ phase[r] = "calling"
      /\ entries' = [entries EXCEPT ![ProviderKey(m)] = RecordSuccess(@)]
      /\ degraded' = degraded \ {m}
      /\ Proceed(r, <<>>)
      /\ UNCHANGED now

\* The call fails.  Before the first chunk the next candidate is tried; a
\* stream that breaks later has already reached the client and ends there.
Fail(r, fault, retryAfter) ==
  LET m == Head(plan[r])
  IN  /\ phase[r] = "calling"
      /\ fault \notin Throttles => retryAfter = NoTime
      /\ fault \in HardFaults =>
           LET e == entries[ProviderKey(m)]
           IN  e.state = "half-open" \/ Len(e.faultTimestamps) < MaxFaults
      /\ entries' = RecordFault(entries, now, m, fault, retryAfter)
      /\ degraded' = IF IsAvailable(entries'[ProviderKey(m)], now)
                     THEN degraded ELSE degraded \cup {m}
      /\ \E p \in {<<>>, Tail(plan[r])} : Proceed(r, p)
      /\ UNCHANGED now

\* The oauth lanes forward to the provider without the executor and record
\* nothing, and so does a client that leaves before the stream was read.
EndUnrecorded(r) ==
  /\ phase[r] = "calling"
  /\ \E p \in {<<>>, Tail(plan[r])} : Proceed(r, p)
  /\ UNCHANGED <<now, entries, degraded>>

\* POST /api/resilience/reset: an operator forgets some keys.
Reset(ks) ==
  /\ ks # {}
  /\ entries' = [k \in Key |-> IF k \in ks THEN Fresh ELSE entries[k]]
  /\ UNCHANGED <<now, degraded, phase, plan>>

Next ==
  \/ Tick
  \/ \E r \in Requests, rt \in Routers : Route(r, rt)
  \/ \E r \in Requests, m \in Models : DirectCall(r, m)
  \/ \E r \in Requests : Skip(r) \/ Attempt(r) \/ Succeed(r) \/ EndUnrecorded(r)
  \/ \E r \in Requests, f \in Faults, ra \in RetryAfters : Fail(r, f, ra)
  \/ \E ks \in {Resettable} \cup {{k} : k \in Resettable} : Reset(ks)

Spec == Init /\ [][Next]_vars

-----------------------------------------------------------------------------
(* What the store promises.                                                 *)

TypeOK ==
  /\ now \in Nat
  /\ entries \in [Key -> Entry]
  /\ degraded \subseteq Models
  /\ phase \in [Requests -> Phase]
  /\ plan \in [Requests -> Seq(Models)]
  /\ \A r \in Requests : phase[r] = "idle" <=> plan[r] = <<>>

\* The fields of an entry agree with its state: the flag of the probe is up
\* exactly while the breaker is half-open (the invariant tryProbe's comment
\* rests on), the count is that of the faults kept, a closed breaker is below
\* the threshold, and an opening time is there exactly while not closed.
EntryConsistent(e, t) ==
  /\ e.probeInFlight <=> e.state = "half-open"
  /\ e.failureCount = Len(e.faultTimestamps)
  /\ e.state = "closed" => e.failureCount < THRESHOLD
  /\ e.openedAt = NoTime <=> e.state = "closed"
  /\ e.openedAt <= t

\* Whatever order calls end in, every entry of the store is consistent.
BreakerConsistent == \A k \in Key : EntryConsistent(entries[k], now)

\* Only a provider has a circuit breaker: no sequence of rate limits and
\* missing models opens the entry of a connection or of a model, and no hard
\* fault gives a provider a cooldown or a lockout.
LevelsApart ==
  \A k \in Key :
    IF k.level = "provider"
    THEN entries[k].cooldownUntil = NoTime /\ entries[k].lockoutUntil = NoTime
    ELSE entries[k].state = "closed" /\ entries[k].faultTimestamps = <<>>

\* The faults kept are in the order of the clock and span at most one window,
\* so a breaker that trips has seen THRESHOLD faults within WINDOW.
FaultsInWindow ==
  \A k \in Key :
    LET ts == entries[k].faultTimestamps
    IN  \A i, j \in DOMAIN ts : i < j => ts[i] <= ts[j] /\ ts[j] - ts[i] <= WINDOW

\* The filter by cases admits the candidates the loop of the source admits and
\* leaves the store the loop leaves: the probe goes to the first candidate only
\* its key blocks, and no probe spent on the way changes who blocks the others.
FilterIsTheLoop ==
  \A rt \in Routers :
    LET f == FilterAvailable(entries, now, RouterModels[rt])
        l == FilterLoop(entries, now, RouterModels[rt])
    IN  f.available = l.available /\ f.entries = l.entries

-----------------------------------------------------------------------------
(* The abstract breaker each key implements.                                *)

breakerState == [k \in Key |-> entries[k].state]
breakerSince == [k \in Key |-> entries[k].openedAt]

Breaker == INSTANCE CircuitBreaker WITH
  Breakers <- Key, Forgettable <- Resettable, Rest <- OPEN,
  clock <- now, state <- breakerState, since <- breakerSince

\* Every key is a circuit breaker as CircuitBreaker describes it: late results,
\* fallbacks and the calls that never pass the filter notwithstanding, a
\* breaker nobody resets closes only out of half-open, and goes half-open only
\* after it was open for OPEN.
ImplementsBreaker == Breaker!BSpec
=============================================================================
