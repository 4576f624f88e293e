# Routerly in TLA+

Routerly is a self-hosted gateway for language models. A client calls one
*router*; the gateway checks the request, ranks the models the router offers,
calls them one after the other until one answers, accounts for the call and
returns the answer. Operators manage models, routers and users through an
administration API. This directory holds TLA+ modules translated from the
service (`src/packages/service/src`, below `S/`; its modules are
`S/modules/<name>`), the TLC configurations that check them on small instances,
and theorems that TLAPS checks for every instance.

`PROJECT.json` maps every definition to the lines it stands for, and lists the
runs, the mutants that show each property can fail, the hazards and the theorems.

## 1. Inventory

Everything runs in one Node process: handlers interleave wherever they `await`,
and a stretch of code without `await` is atomic. State is in memory or in JSON
files that several processes (service, CLI) may write. The parts and how they
call each other:

    client -> reverse-proxy/run -> preprocess (guardrails)
                                 -> prepare    (routing: resilience filter,
                                                limits, policies, selector)
                                 -> execute    (candidate loop: budget.upstream,
                                                executor -> provider)
                                 -> postprocess -> egress -> finalize
    executor -> resilience store (faults, successes) -> notifications
             -> budget (checkBudget) -> usage history, notifications
             -> usage/pending -> usage.ndjson -> (read again by routing, budget)
    provider -> OAuth refresh -> connections.json
    admin    -> api -> routers, models, connections, profiles, users, roles
    timers   -> update-checker -> notifications
    everything -> config/loader -> JSON files

| Component | State | Operations | What is hard | What makes it correct | Modules |
|---|---|---|---|---|---|
| `resilience` | an entry per provider, connection and model: breaker, cooldown, lockout | record, recordSuccess, isAvailable, tryProbe, filterAvailable, reset | late results, probes spent while routing, the edge of the window | levels stay apart; a breaker closes only out of a probe and probes only after its rest | Resilience, CircuitBreaker |
| `config/loader` | a JSON file per type, a lock, temporary files, `DEFAULTS` | readConfig, writeConfig, updateConfig | lost updates, first run, crash with the lock held | acknowledged edits stand; all or nothing; the lock comes back | ConfigStore, ConfigRegister |
| `usage`, `trace`, `config/usageNdjson` | trace buffers, pending records and timers, `usage.ndjson` | openTrace, trackUsage, flushTrace, append, read, retention | timer against finalize, torn append, rewrite against append | a record is stored once or lost for a reason; once its trace is announced it carries all of it | UsageLedger, AccountBook |
| `budget`, `checkBudget` | the usage history, exceeded and threshold keys | isAllowed, checkBudget, snapshot, reset | check, then call, then record, and several calls of one request held together | overrun is bounded by the calls on their way; no false alarm | Budget |
| `reverse-proxy`, lanes | ProxyContext, remembered upstream errors | run, attempt, egress, verbatim forward | fallback, nested routers, exceptions, broken streams | one answer, paid for once; errors only when nothing is left; an end, or a response a broken body leaves open | Proxy |
| `routing` | history, round-robin cursors, intent cache, routing memory | policies, scoring, selectors, orchestrate, validate | policies that abstain, fail or rate in part; a cursor of another list; exclusions that feed on themselves | the ranking honours what the policies agree on; even turns; nobody is banned for good | Routing, RoutingPolicies |
| `provider` | connections with OAuth tokens | call, stream, refresh | two refreshes of a single-use token, a pair that cannot be stored | the stored token is one the provider accepts | OAuthRefresh |
| `notifications` | inbox file, cooldowns, incidents | emitEvent, appendToInbox, dispatch, marks | concurrent events, unlocked file, failed dispatches | channels keep their pace, one open incident per trace, news is unread | Notifications |
| `update-checker` | announcement file, channel, running version | check, announce, persist | announce before persist, two checks at once | announced once, unless a check could not know | UpdateChecker |
| `api` (models, connections, instances, profiles, users, roles) | a file each | about 35 handlers: read, check, await, write the whole | stale lists, several documents in a row, failures half-way | an administrator remains; references lead somewhere | AdminTasks, AdminModels, AdminProfiles, AdminUsers, AdminApi |
| `api` (routers), `auth`, `validate-orchestrator` | `routers.json` | create, update, delete, tokens; the lastUsedAt stamp | kinds that switch, older documents written back | names and slugs stay unique, no circle of orchestrators | Routers |
| `guardrails`, `pii`, `optimizers` | configuration only | check, scrub, rewrite | a judge is itself a model with limits | a blocked request is answered once | (effects: Proxy) |
| `experiments` | round-robin cursors, sticky map with a cap | pickVariant, judge | eviction, restart | a caller keeps its variant | - |
| `catalog`, `audit` | a file each | sync, log | read and rewrite | no entry lost | - |
| `core/lifecycle`, `server.ts` | the started modules | migrate, start, stop | a start that fails half-way | dependencies first, stop in reverse | - |
| `core/*`, `mcp`, `clients`, `embeddings`, `observability`, `telemetry` | registries, exporters | lookup, dispatch, export | I/O only | - | - |
| `cli`, `dashboard`, `shared`, `scripts` | - | user interfaces, types, installation | - | - | - |

`PROJECT.json` ("hazards") lists at its line what is hard to test in this code,
with the properties that watch it or the reason why none does.

## 2. Modules

Each module is the code of one component with one action per operation or per
stretch between two awaits.

**Resilience** (`resilience/store.ts`, `filter.ts`, `record.ts`, the recording
in `execute.ts`). `entries` is the Map of the store as a total function (an
absent entry behaves like `Fresh`); `degraded` is `providerDegraded`; `phase`
and `plan` are the requests. The store is synchronous, so `Route` (filter),
`Succeed`, `Fail` and `Reset` are atomic. The loop of `filterAvailable` grants
probes as it goes; the module states its result by cases (`Route`), and the loop
itself beside it (`FilterLoop`): that they agree is checked by the run `resilience`
and proved. What limits, policies and the selector make of the admitted candidates
is every order of every subset (`Plans`). `DirectCall` is a call of the gateway itself (LLM policy, judge),
`EndUnrecorded` a verbatim forward or a client that leaves.
*Abstract specification*: **CircuitBreaker**.

**ConfigStore** (`config/loader.ts`). One file; `pc` is the await a call stands
at. A call is a reader, an `updateConfig`, or a `readConfig` followed by
`writeConfig`. `file` can be missing, empty (truncated) or a set of items.
`attached` distinguishes the file a seed has opened from the one that a rename
has put under its path since; `aliased` and `defaults` model that the loader
hands out its `DEFAULTS` object. Locks of crashed calls go stale and are taken
over. *Abstract specification*: **ConfigRegister**, a value that is edited
one call at a time.

**UsageLedger** (`usage/pending.ts`, `usage/index.ts`, `trace/*`,
`config/usageNdjson.ts`). `buffer` and `entries` are the trace store: whether the
buffer is there and closed, and how long its array is. `Publish` is an entry,
`Finish` the finalize phase, which emits the recap, closes, announces and flushes in
one stretch; `Throws` is a request that never gets there, so that its trace stays
open. A flush copies the array as long as it is, closed or not (`Snapshot`). `final`
notes how long it was when it was announced. A record that is appended at once keeps
the array itself, which may grow until it is written: the model takes its length
when the record was made. An append that fails in a living process is taken to have
written nothing. `held` and `timer` are the pending records, `batches` the appends
that wait for the lock, `file` the lines with a `Torn` line for one that does not
parse, `dangling` a last line without its newline. Records are numbered in the order
they are made, so retention by age drops a prefix. `lost` notes what was given up
and is read by properties only. *Abstract specification*: **AccountBook**, where a
record waits, is stored or is gone, and only the named steps move it: `Waiting`,
`Stored`, `lost` and `dangling` are its state, a write enters a batch and may spoil
the line left torn and the line that continues it, a death enters the part that was
written, retention takes stored records away.
**Positions** says what a filter or a slice leaves of a list, by the positions it
keeps; the retention of the ledger and that of the inbox use it.

**Budget** (`budget/budget.ts`, `budget/index.ts`, `checkBudget`,
`handleProviderResult`, the limits pre-filter of `routing/router.ts`). `Allowed` is
`isAllowed` and `isAllowedForRoutingModel`; `Route`, `Prepare` and `ReadUsage` are
its three callers, each on the history of that moment; `Deny` and `Grant` are what
follows the await. A request has several `Slots`, one for each call it may have
under way or held: one in `Main` for the completion with the candidates it tries,
the others for the calls (their `type` is `callType`) of routing policies, which run
side by side while it is ranked (a first model, its repair, the fallbacks), and
those of guardrail judges before and after (`DirectCall`). The record of a call is a
`draft` until it is stored: those of completion and policies all together when the
trace is closed (`Close`), that of a judge, which is called without a trace id, at
once (`Append`). The calls of the semantic-intent policy and the verbatim forwards
go by no check: what is said of a limit is said of a model whose calls all pass it.
The snapshot that announces a threshold is read and announced in one step (`Watch`):
a history read earlier would only announce less. `ColonAfter` stands for
`startsWith(budgetKey + ':')`. The sum of the amounts is written as the number of
their units (`Units`), which grows with the history by inclusion alone.

**Proxy** (`reverse-proxy/run.ts`, `candidate-loop.ts`, `lanes/*`,
`last-upstream-error.ts`, `routing/index.ts`, `routing/orchestrate.ts`). A request
is one record: the phase it is in, the routers and models it has left, its result,
and what was written to the client. `router` differs from `entry` while an
orchestrator tries a router. `Throws` is an exception at any place that reads
configuration or history: inside a tried router it is caught and the next one gets
its turn, elsewhere the server answers with an error and the later phases do not
run. A body that is forwarded verbatim may break off after its headers went out:
nobody listens for the error of `src`, so the response stays open until its client
gives up (`LeftOpen`, `GivesUp`), or the error is uncaught and ends the process with
every request in it (`BringsDown`; the service installs no handler). The body of an
error is read as a whole first, but for the JSON errors of anthropic-web, which are
taken to arrive in one piece. Requests share only `memory`, so runs have one slot
that is used again and again.

**RoutingPolicies** and **Routing** (`routing/policies/*`, `routing/router.ts`,
`routing/selectors/*`, `routingMemoryStore.ts`). RoutingPolicies has no state:
it is what each policy makes of a request, of the models left and of the usage
history, in whole points (`Unit` is 1.0) and with times in half-lives of the
decay. Routing is the walk of a request: `Arrive` takes it past the policies
when one candidate is left (`Bypass`) or asks them (`Consult`); each policy that
reads the history does so in a step of its own (`Judge`, `AskLlm` with its
fallbacks, repairs and the calls these cost), `Score` is the weighted mean with
abstentions as a fraction, and `Select`, `TakeTurn` or `RefuseAll` end it. What a
selector sorts by is a set of pairs, who is ahead of whom, and `InOrder` the list
that results; `Stable` is the rule of `Array.sort` for those that are level. The
calls that follow (`Answered`, `Failed`, `Blocked`) and `Tick` are the history the next
request is judged by.

**OAuthRefresh** (`provider/openai-oauth.ts`, `anthropic-oauth.ts`,
`api/connections.ts`). `tokens` is `connections.json` as token pairs, `live` the
refresh tokens the provider accepts (external), `task` a refresh or an edit.
`Granted`, `AnswerLost` and `Refused` are the outcomes of a POST, at the first
URL or the second; `ReadBack` and `WriteBack` are the unlocked read and write
that store the new pair; either may throw (`KeepFails`), and then the request fails
and nobody has the pair. `excuse` notes why a stored pair may be worthless: `lost`,
`dropped` or `overwritten`.

**Notifications** (`notifications/emitter.ts`, inbox handlers of `api.ts`) and
**UpdateChecker** (`update-checker/update-checker.ts`), which extends it. A task
is an event on its way: the timestamp is taken first (`EmitEvent`), then the
inbox is read (`ReadInbox`) and written whole (`AppendToInbox`: merge into the
open incident, retention), then `Offer` checks and starts the cooldowns of all
channels in one stretch, then each is dispatched or fails. `LookIn` and `Mark` are
an inbox request. `then` is what the caller does when `emitEvent` returns: for
the update checker, `Persist`. `Check`, `Fetched` and `Recall` are its awaits: the
channel is read before the fetch, the running version after it.

**AdminTasks**, **AdminModels**, **AdminProfiles**, **AdminUsers**, **AdminApi**
(`api/api.ts`, `api/connections.ts`, `api/profiles.ts`). AdminTasks is what a request is: it reads (`Starts`),
goes on (`Goes`), ends. AdminModels has the handlers of models, connections and
instances with the connection each model owns, its renaming and removal, and the
cascade of a rename into the routers; AdminProfiles those of profiles and of their
assignment, which looks each profile up at an await of its own and then writes all
of `routers.json` as it was read; AdminUsers those of users, roles, logins and the
first administrator. AdminApi composes them over one set of tasks and adds
`Fail`, a write or a read that fails at any await, or the end of the process.
`orderly` notes whether requests overlapped, an update was cut in half or
`/api/instances`, which checks nothing, was used. `EditRouters` is a summary of
the handlers of routers, which Routers models in full: it names any model, as
`CreateUser` and `EditUser` name any role, for the code checks neither. `loose` is the
set of references that nobody promises to lead anywhere: those whose target was
missing when they were written, or missing from a document a request under way was
about to write (`Lacks`), and those whose target was given up, by `/api/instances` or by
a rename that was cut in two. A reference stops being loose when its target is
there for sure.

**Routers** (`api/api.ts` on routers, `routing/validate-orchestrator.ts`,
`auth/auth.ts`, the slugs of `shared`). `Create`, `Update`, `Delete`, `AddToken` and
`DeleteToken` check and edit the document under the lock, in one step; what an
update leaves out is checked again as stored, which is the same as sending it again.
`ReadToTouch` and `WriteOlderCopy` are the stamp of lastUsedAt and the assignment of
profiles, which write a whole older document back. Slugs are pairs of a base and a number.

`MC*` modules hold the instances, and `MCResilience` the fairness. `*Proofs` modules
hold the theorems. In a module, a definition with a comment "one retry too many", "the flag stays up" and the like beside the one
it resembles is a mutant: a slip the code could contain, never used by `Next`.

## 3. Runs

Every run passes. Each property of each run has a mutant of the code that breaks it.

| Run | Checks | Instance and why it is enough |
|---|---|---|
| `resilience` | types; the entries are consistent, the faults kept span a window, levels stay apart, the filter by cases is the loop, every key implements CircuitBreaker | 2 requests, 2 models of one provider on 2 connections, threshold 2, clock to 3: a trip needs two faults, a probe one rest, a second trip the rest of the clock; the shared provider makes two candidates compete for one probe |
| `resilience_sole` | `HalfOpenResolves` in a router with one model | 2 requests, resets, faults of all levels: the fallback keeps sending requests |
| `config_updates` | acknowledged edits stand, the lock excludes, the file refines ConfigRegister | add, remove and keep by 2 processes and a reader; every step can fail, abort or crash |
| `config_first_run` | the lock always comes back | the file is missing; an update, a rewrite and a reader meet on the seed |
| `ledger` | a record is stored once, on its way or given up for a reason; once a trace is announced what is stored of it goes up to the recap, unless its request outlasts its timer; held records are flushed; the file refines AccountBook | 2 requests, one of them slow, an entry each and the recap, 2 records, 2 deaths, a sweep: one entry tells a trace with its recap from one without, two records what is held from what comes late, and an append from the rewrite of the sweep |
| `budget` | overrun of calls is bounded; alerts are earned | 2 requests, one with a second slot for a call of a routing policy or of a guardrail, 3 tokens, 2 routers, one of which uses the model only as a judge, limits of all levels, a period of two ticks and a rolling window, clock to 2, 2 calls: a limit of 1 is overrun by the second call, whether it is another request's or the same one's |
| `proxy` | one answer, no call after it, text merged once, paid for once, errors last, memory is current, an end | an orchestrator over two routers, one with a verbatim model and both with the same model, two passthrough routers, guardrails on and off, bodies that break off; the loops have at most two turns, which is all that tells the last turn from the others |
| `routing` | turns of the round robin are even; what policies compute is on one scale; argmax honours what policies agree on; health bans nobody for good | 2 requests at once (a cursor goes stale between two), 2 models, 4 profiles that use ten of the eleven policies, a history of one call; a ranking needs two models, an exclusion one error; a routing model answers off the scale too, and a request is larger than a window. `MCRouting` also assumes (TLC evaluates it) over every history of up to three calls of two models that `HealthPoint` never falls with a success and `PerformanceRating` prefers the faster model: what one call in the history cannot show |
| `oauth` | `KeepsUp` | 2 tasks (requests or administrators), 2 connections, one rotating its refresh token and with two URLs, 3 pairs: a second refresh with a used token needs two tasks and a third pair; every read and write may fail |
| `notify` | channels keep their pace, a trace has one open incident, news is unread, an update is announced once | 2 tasks, a kind with a trace and the kind of an update, window 0 < age 1 < cooldown 2, clock to 2, an inbox of 2 that already holds 1, 2 events, 1 request, 2 channels, 2 versions: two events are what overwrites, the full inbox what is trimmed, two channels what makes the record forget |
| `admin` | an administrator remains, models keep their connection, deletions and renamings leave no reference behind | 2 tasks, 3 requests, 2 models with a shared connection, 2 users, 2 addresses, 1 custom role, a profile of one of two kinds; every failure at every await: the third request finds what two overlapping ones have left |
| `routers` | names and slugs stay unique, no circle | 3 routers, 2 names with one slug, a request that writes older documents back, 1 token, 4 edits: a circle by way of a switch of kinds takes four edits |

Bounds are constants: `MaxTime`, `MaxNow` (clocks), `MaxFaults` (faults an entry
keeps), `MaxEntries`, `MaxRecords`, `MaxDeaths`, `MaxCalls`, `MaxHistory`, `MaxPair`, `MaxEvents`,
`MaxRequests`, `MaxVersion`, `MaxTokens`, `MaxEdits`. In `config_*`, `ledger`,
`budget`, `admin` and `routers` every call, record, request or edit is used up at some
point, so the system may stop and deadlock is not checked; elsewhere it is.

### Fairness

* `resilience_sole`: clients keep sending requests that limits and policies let
  through (WF of `Route` with a plan that is not empty), a request under way
  goes on (WF of its steps: the event loop and the HTTP timeouts), and a request
  that keeps trying calls and is answered well now and then (SF of `Attempt` and
  `Succeed`). This is what the breaker is made for: a provider that recovers.
  Without it a breaker stays open rightly.
* `config_first_run`: WF of each call's next step: the event loop resumes every
  call whose await is over. Crashes are not fair.
* `ledger`: WF of timers, of the end of a request, of file system calls and of a
  restart; SF of taking the lock, since `proper-lockfile` retries while others
  take it in turn.
* `proxy`: WF of each request's step: every call ends with an answer, with
  an error of the HTTP client, or with a body that breaks off. A client that waits
  on an open response need not give up, hence the second half of `EveryRequestEnds`.
* `routing`: WF of `Tick` only: time passes. That a banned model comes back
  needs no request to be made or to end.
* The others check safety only.

## 4. Proofs

For every value of the constants, from the assumptions named in the modules:

| Theorem | Says | Argument |
|---|---|---|
| `ResilienceProofs!TypeCorrect`, `StoreConsistent` | `[]TypeOK`, `[]BreakerConsistent` | their conjunction `IInv` is inductive. `BreakerConsistent` alone is not: that the filter touches only open keys needs the types, and the count below the threshold needs that trips look at the window kept |
| `ResilienceProofs!LevelsStayApart` | `[]LevelsApart` | with `IInv`: faults reach a key of their own level only |
| `ResilienceProofs!FaultsStayInWindow` | `[]FaultsInWindow` | `InWindow` adds that no fault lies in the future. `RecentIsSuffix`: in an ordered list the faults that are too old are as many as the last of their positions, so what is kept is a suffix; `RecentInWindow`: a fault of now closes it |
| `ResilienceProofs!StoreImplementsBreaker` | the store refines CircuitBreaker | each action is a step of the abstract breaker on one key, on the granted keys, or a stutter |
| `ResilienceProofs!FilterMatchesLoop` | `[]FilterIsTheLoop` | `After` says what a prefix of the candidates leaves of the entries; one turn of the loop takes `After(i - 1)` to `After(i)` (`LoopStep`), because a probe spent on the way changes no other candidate's availability (`ProbedBlocks`, `SameBlockers`). A recursive function is whatever starts and steps like it (`LoopIs`: at the least index where two differ they would have stepped alike), so no induction over a predicate is needed; the first in the order of the fallback is the one the cases choose (`FirstIsFallback`) |
| `ConfigStoreProofs!LockExcludes` | `[]LockExclusive` | with `TypeOK`; a lock is taken over only from a crashed call, which is not live |
| `ConfigStoreProofs!UpdatesImplementRegister` | under `UpdatesOnly` (no bare rewrite, the file exists) the file is a register | `RegisterInv`: the value a call is about to publish is its edit of what is in the file, because it read under the lock; rename is `Apply` |
| `ConfigStoreProofs!AcknowledgedEditsStand` | under `UpdatesOnly` and `DifferentItems` (no two calls edit one item) `[]AckedUpdatesStand` | the edit stands in the file from the rename on, before it is acknowledged (`Standing`); what another call publishes was read from that file and differs from it in another item |
| `BudgetProofs!TypeCorrect` | `[]TypeOK` | by action |
| `BudgetProofs!CallsStayBounded` | `[]CallsOvershoot` | `IInv` adds `DraftPlaced`: a record on its way belongs to its call. A passed check leaves fewer calls than the limit; each later call is one more slot on its way, and there are `Cardinality(Slots)`; when a trace is closed, no more records come in than slots leave (`StoringIsBounded`) |
| `BudgetProofs!NoFalseAlarm` | `[]AlertsAreEarned` | `NotAhead`: what is stored or held was made before now, so a check sees the history of its moment; that history only grows as held records come in, and with it its totals (`TotalsGrow`, `MomentsStay`). `DeniedWas`: a refusal about to be announced was one when it was read |
| `LedgerProofs!CountedOnce`, `NoneDisappears`, `StoredWhole` | `[]` of `OnceOnly`, `Accounted`, `WholeOnceAnnounced` | `IInv`: under the lock nobody but a writer that is cut off changes the file, so what a sweep has read is still there when it writes (`Locked`); a number is in one place in memory (`OnceInMemory`) and in the file once and not in memory (`OnceInFile`); all that was made is somewhere (`Kept`). Appending and retention are maps on positions (`AppendedLines`, what `Picked` keeps) |
| `LedgerProofs!LedgerImplementsBook`, `EachInOnePlace` | the ledger refines AccountBook; so `[]Book!OnePlace`, a record is in one place and never comes back | with `IInv` the records that wait are the numbers in memory and those stored the numbers in the file (`BookRecords`). Each action moves whole sets: a flush or the lock none (`BookStays`), a write its batch less what it glues (`AppendedBook`, `BatchLeaves`), a death the rest (`DeathPerishes`) |
| `NotifyProofs!ChannelsKeepTheirPace` | `[]Paced` | what was sent, and the tasks that have started a cooldown and not yet sent, are within the allowance of the last start (`InPace`), and a start waits for the one before |
| `NotifyProofs!OneOpenIncident`, `NewsStaysUnread` | `[]` of `OpenOnce`, `NewsIsUnread` | every copy of the inbox that may be written back is as `Fine` as the inbox: of two items of a trace the first takes no more events, and what was read was seen. Retention keeps the order (`Picked`), merging moves only the last item |
| `NotifyProofs!AnnouncementsAreKept` | `[]AnnouncedOnce` | an announcement that was told is on record or known to the task that will put it there, which is the only one under way, unless there was a mishap |
| `ProxyProofs!TypeCorrect`, `OneAnswerEach`, `NoCallAfterAnswer`, `SteeredExactlyOnce`, `NothingIsWasted`, `ErrorsAreLast` | `[]` of `TypeOK`, `AnsweredOnce`, `NoCallOnceAnswered`, `SteeredOnce`, `NothingWasted`, `ErrorsComeLast` | a predicate `Sound` on one context is inductive: `Staged` (per phase, what is written and paid for: the properties say nothing of a request between its call and its egress), `Placed` (a tried router is plain and its orchestrator is an orchestrator, so the loops nest only once), `Steered`. Assumes that orchestrators target plain routers and that a configuration is finite |
| `ProxyProofs!MemoryStaysCurrent` | `[]MemoryIsCurrent` | for any number of requests that share the memory |
| `ConfigStoreProofs!RefreshTypes`, `ConnectionsKeepUp` | `[]OAuthTypeOK`, `[]KeepsUp` | `Fresh`: the pair a task was given is accepted and known to it alone; no request can use it up, and no copy of the file has it, until it is written. `Up` counts only a task that will write its pair (`Keeping`: its copy still has the connection), which is more than `KeepsUp` asks for and what a write needs; a pair that cannot be kept is excused when the task gives it up |
| `RoutingProofs!TurnsAreShared` | `[]EvenLoad` | `LoadOK`: of the models in the order of their names, those that have had their turn are an arc of the circle that ends at the cursor; the next turn goes to the first after it, and when the arc closes all are even again. It needs that a list in a linear order is that order (`Listed`) |
| `RoutingProofs!AgreementCounts` | `BetterIsAhead` | both models have the same judges, so the weighted sum of the better one is greater over the same weights (`SumsCompare`), and a stable sort by a fraction is a linear order (`HigherIsWeak`, `StableIsLinear`). The invariant is the types: what every policy makes of any history is a whole number for some models, at most one rating each (`FindingsTypes`, `HistoryOK`, `CallOK`) |
| `RoutingProofs!ComputedStaysOnScale` | `[]ComputedOnScale` | policy by policy (`ContextTypes` to `FairnessTypes`): each point is a share of something no smaller (`Share`), the minimum in what it is the minimum of (`Least`), the successes of a model in those of all (`SumsCover`), errors short of nine tenths in the weight of all calls; what is excluded has nothing. Routing models (`Answers`) and a configured bonus may give any number: nothing in the invariant, nor in the two theorems above, assumes that they keep to the scale |
| `AdminProofs!RoutersTypeCorrect`, `NamesStayUnique`, `OrchestratorsStayAcyclic`, `SlugsStayUnique` | `[]` of `TypeOK`, `NamesUnique`, `NoCircle`, `SlugsUnique` | every document there is, the older copies of the clients included, is `Sound`: a copy that is written back then changes nothing. `PlainIn` (only orchestrators list candidates) makes the acyclicity inductive: a router that starts to list others lists only plain ones, where every chain ends |
| `AdminProofs!AnAdminRemains` | `[]AdminStays` | requests write whole lists made of what they read, however old: every list a request is about to write is `Good` by itself, whatever is in the file by then |
| `AdminProofs!EveryModelIsConnected` | `[]BoundExists` | `OrderlyInv`: while requests do not overlap, what the one request under way has read still fits the documents at each of its awaits; it says, step by step of every handler, which document is ahead of which |
| `AdminProofs!ReferencesLeadSomewhere` | `[]ReferencesResolve` | `ReferencesInv`, without `orderly`: the target of a reference that is not loose is there and in every document about to be written, unless that document is part of its renaming (`Held`), or its references are about to be renamed (`Supported`). So a deletion that has found no reference takes nothing that one needs, and what is written after its check is loose from the start; each step keeps this (`Onward`). The profiles of routers take `OrderlyInv` |

`LedgerTypes` and `NotifyTypes` are the types these arguments rest on. Sums over
sets are folds; what is proved of them (`SumsAgree`, `SumsExist`, `SumsCompare`,
`SumsAbove`, `SumsCover` in RoutingProofs) looks at a smallest part of the set where the claim
would fail (`SmallestSubset`), which takes the place of an induction. The theorems
about Routing compare exact means: the code rounds them to four decimals and takes
those closer than 0.0001 for level, so of two models that close it may try either
first, and the theorem speaks of the code where the means are further apart.

Model-checked only: liveness (`HalfOpenResolves`, `LockComesBack`, `HeldIsFlushed`, `EveryRequestEnds`,
`ExcludedComesBack`), for fairness and ENABLED are out of the prover's reach. Every
invariant, action property and refinement that a run checks is also a theorem.

## 5. Where the code and what is said of it differ

Met on the way; the models have the behaviour of the code, and the properties
are stated so that they hold of it. Lines are of `S/modules` unless said otherwise.

* resilience: a half-open breaker may stay so for ever when another provider serves the
  router (`filter.ts:72`: the probe is spent while routing and its request need not be
  sent), hence `HalfOpenResolves` is about a router with one provider; two probes of one
  provider can be out at once (`store.ts:105`); calls that are not probes reach a
  half-open provider; the fallback may prefer the provider that has just opened;
  `provider.recovered` is sent while it is open.
* config: the stamp of lastUsedAt writes back an older document and drops acknowledged
  edits (`auth.ts:99`), hence the theorem's `UpdatesOnly`; the seed of a first run
  truncates what another call has published; callers share the `DEFAULTS` object.
* ledger: a torn append joins the next one and makes the whole history unreadable
  (`config/usageNdjson.ts:117`); a record flushed by the timer keeps the trace of that
  moment (`pending.ts:31`, docs `architecture.md:146`), as does every record of a
  request that throws before `finalize` (`run.ts:31`: "`finalize` always runs"), whose
  trace nobody closes; a trace is closed before it is announced, although
  `trace/index.ts:80` says "only after": nothing that is stored depends on it, the recap
  being in the buffer by then; retention by size drops by position.
* budget: a global limit holds per router (`budget.ts:300`); limits of a token count the
  spending of all tokens of the router (`budgets-and-limits.md:40`); a candidate dropped
  by the pre-filter or by `budget.upstream` announces nothing; alerts do not fire again
  in a new period unless a check failed before; periods begin in local time; spend
  groups are documented and absent.
* proxy: verbatim forwards and orchestrators do not always fall back
  (`lanes/oauthForward.ts:184`); a verbatim body that breaks off ends the process or
  leaves the response open (`:234`, `:346`), hence the exception in `EveryRequestEnds`;
  verbatim forwards pass by `checkBudget` and the resilience store; a child router's own
  guardrails do not run under an orchestrator; a judge over its limit throws after the
  call was paid for, and `finalize` is skipped; a stream that breaks off ends without
  `[DONE]`.
* routing: the round-robin cursor counts the candidates of the request before; when
  fewer are left it points beyond them and the request ends with a 500
  (`selectors/index.ts:75`; docs `routing.md:244`); nobody gives the lowest-latency
  selector its `latencyOf` (`routing.md:246`), so it keeps the order it finds; entries
  of the routing memory "expire after MAX_AGE_MS" (`routingMemoryStore.ts:4`) but are
  not dropped when read; a single candidate goes past the policies that would exclude
  it; the order of the candidates is that in which their limits were checked; the
  latency policy counts blocked requests; "the policies already return scores from 0 to
  1" (`router.ts:343`), but the points of a routing model are taken as they come
  (`policies/llm.ts:126`), as is a configured bonus (`policies/model-preference.ts:17`),
  hence `ComputedOnScale` is about the others.
* OAuth: two requests refresh a single-use token at once and one of them fails with a
  token the other has renewed (`openai-oauth.ts:74`); a task about another connection
  may write an older copy over the new pair (`anthropic-oauth.ts:98`); a read or write
  that throws after the refresh loses the only pair the provider accepts
  (`openai-oauth.ts:76`, `:88`).
* notifications: concurrent appends lose events; the earlier timestamp of a slow event
  moves an incident back and can close it early; the bound on items drops by position,
  which may be the incident that was last active (`emitter.ts:14`, `:284`); a dispatch
  that fails still starts the cooldown.
* administration: a rename to a name with a leftover `conn-for-` connection gives two
  connections one id (`api.ts:854`: "ids stay unique"); a model whose dedicated
  connection others use loses its key when it is renamed (`api.ts:982`); an update cut
  short between its writes leaves a binding without its connection; `/api/instances`
  checks nothing; routers may name models that do not exist, which only warns
  (`api.ts:77`), tokens as well without a warning (`api.ts:1812`), and users may be
  given a role that does not exist, which gives them no permission (`api.ts:289`,
  `:2023`, `:2053`); a deletion asks who refers to its target before it writes, so that
  a reference made in between is left behind (`api.ts:1155`, `:3465`); hence what
  `ReferencesResolve` calls loose. A deletion or a renaming of a model looks at the
  lists of routers and tokens but not at routing models, fallbacks and the models in the
  policies of routers and profiles (`api.ts:1155`, `:1081`), so `ReferencesResolve` is
  about those lists; "requests that do not overlap" includes every proxied request,
  whose stamp of lastUsedAt writes `routers.json` too (`auth.ts:99`).
* routers: a router that is switched to passthrough has no slug, and one that is
  switched away and back can share its slug with a newer one (`routing.md:173`,
  `shared/src/types/config.ts:67`: permanent, never touched), hence `SlugsUnique` leaves
  out those that were switched; general settings of an orchestrator cannot be saved
  while one of its candidates is gone, although untouched lists are said not to be
  checked again; an orchestrator may list a router that becomes one later, which is
  skipped when it routes.

## 6. Not modelled

Of the repository's lines most are the dashboard, the command line, the installers,
type declarations and the adapters that translate between message formats: user interfaces
and data, which hold no state of the service and nothing that runs concurrently. What
they ask of the service are the handlers modelled here. Of the service itself:

* Text and formats (adapters, optimizers, PII rules, guardrail rules, embeddings,
  the prompt of the LLM policy, the parsing of releases): an arbitrary outcome
  stands for them where one matters.
* In `api`: settings, members, presets, sessions and the queries. Each changes one
  document and checks it against no other; their lost updates are those of the
  rewriting call of ConfigStore. So are those of `audit` and `catalog`. The variants
  of an experiment are checked against the routers when they are written and skipped
  when their router is gone.
* Tokens, second factors and roles as checks of a request: sequential, without
  state of their own but for what AdminUsers writes.
* Experiments: a cursor and a capped map in memory, changed without an await; the
  stamp of a token and the tally of the judge rewrite `experiments.json` like the
  rewriting call of ConfigStore.
* The kernel and the start of the server: one sequential pass whose failure ends the
  process. Its failure half-way is of interest only to the process that is ending.
* The routing memory and the caches of intents and policies: they save calls and
  inform the trace and the prompt of the llm policy, whose answer is arbitrary in
  RoutingPolicies.
* Observability, telemetry, MCP, clients: exporters and second faces of what is modelled.
* The guardrail judge that is over its budget, and the seed of a first run
  that overwrites a published edit: known behaviour (section 5) which no property
  that holds can watch.

Within the modelled parts the abstractions are named in section 2 and at the head of
each module: sizes, wording, audiences, settings that do not change during a run, and
slugs of which one ends like the number of another (`a-2` next to `a`).

## 7. Plan

Done: the modules of section 2 and the theorems of section 4. What is left, in the
order of what it would add:

1. Gateway: Proxy, Budget and Resilience composed, with the abstract promise of
   the gateway (a request ends with an answer a candidate gave, or after every
   candidate was refused for a reason that held) as the refinement target.
2. Experiments, settings, members and presets as further documents of AdminApi, if they come to
   be checked against each other.
