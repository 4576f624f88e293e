-------------------------------- MODULE Proxy --------------------------------
(***************************************************************************)
(* A completion request on its way through the proxy: reverse-proxy/run.ts *)
(* walks the phases, routing/index.ts ranks the candidates, the lanes try  *)
(* them one by one and answer the client, routing/orchestrate.ts runs the  *)
(* same two phases once more for each router an orchestrator may forward   *)
(* to, and last-upstream-error.ts remembers what a provider refused.       *)
(*                                                                         *)
(* Most models are called by the executor, whose answer is written in the  *)
(* egress phase.  On the Anthropic lane the models of Anthropic are        *)
(* forwarded verbatim: the provider's answer is written as it arrives.     *)
(***************************************************************************)
EXTENDS Naturals, Sequences, FiniteSets, SequencesExt

CONSTANTS
  Requests,     \* slots for concurrent requests
  Routers, Models,
  Kind,         \* [Routers -> {"router", "orchestrator", "passthrough"}]
  Offers,       \* [Routers -> SUBSET Models]: the models of a router
  Targets,      \* [Routers -> SUBSET Routers]: where an orchestrator forwards to
  Guarded,      \* the routers with content guardrails
  RawFirst,     \* the passthrough routers that forward before they rank
  Verbatim      \* the models of Anthropic

VARIABLES
  req,          \* [Requests -> Context]: ProxyContext and the loops around it
  memory,       \* the routers with a remembered upstream error
  lastSaid      \* what a model of the router answered last, to the end (history)

vars == <<req, memory, lastSaid>>

ASSUME ProxyAssumption ==
  /\ IsFiniteSet(Routers) /\ IsFiniteSet(Models)
  /\ Kind \in [Routers -> {"router", "orchestrator", "passthrough"}]
  /\ Offers \in [Routers -> SUBSET Models]
  /\ Targets \in [Routers -> SUBSET Routers]

\* An orchestrator forwards to plain routers only.
ASSUME TargetAssumption == \A o \in Routers : \A t \in Targets[o] : Kind[t] = "router"

Phase == {"idle", "preprocess", "prepare", "execute", "children", "models", "calling",
          "hung", "postprocess", "egress", "pumping", "finalize", "done", "failed", "lost"}

\* "hung" is a verbatim answer that broke off and was left open, "lost" a request
\* that the process took with it.

\* A result that the egress phase writes although it is an error.
Block  == {"unserved", "limits", "recalled", "upstream", "filtered"}
Result == {"none", "json", "stream", "passthrough", "written"} \cup Block
Answer == {"ok", "cut", "raw", "refused", "unreachable", "crash"} \cup Block

Context ==
  [at : Phase, lane : {"openai", "anthropic"}, entry : Routers, router : Routers,
   children : Seq(Routers),    \* the routers an orchestrator has left to try
   models : Seq(Models),       \* the candidates left, the one in hand first
   refused : BOOLEAN,          \* clientError of the loop over them
   steer : BOOLEAN,            \* requestInjection
   merges : Nat,               \* how often it was merged into the request
   result : Result,
   answers : Seq(Answer),      \* what was written to the client (history)
   oks : Nat]                  \* provider calls that succeeded (history)

Fresh(rt, ln) ==
  [at |-> "preprocess", lane |-> ln, entry |-> rt, router |-> rt, children |-> <<>>, models |-> <<>>,
   refused |-> FALSE, steer |-> FALSE, merges |-> 0, result |-> "none", answers |-> <<>>, oks |-> 0]

Orders(S) == SetToAllKPermutations(S)

Over(q)   == q.at \in {"idle", "done", "failed", "lost"}
Nested(q) == q.router # q.entry

Becomes(r, q) == req' = [req EXCEPT ![r] = q]

Wrote(q, answer) == [q EXCEPT !.answers = Append(@, answer)]

-----------------------------------------------------------------------------
(* Into the pipeline.                                                       *)

Init ==
  /\ \E rt \in Routers :
       req = [r \in Requests |-> [Fresh(rt, "openai") EXCEPT !.at = "idle"]]
  /\ memory = {}
  /\ lastSaid = [rt \in Routers |-> "nothing"]

Arrive(r, rt, ln) ==
  /\ Over(req[r])
  /\ Becomes(r, Fresh(rt, ln))
  /\ UNCHANGED <<memory, lastSaid>>

\* guardrail.request lets the request through, perhaps with text to steer the
\* model.
Admit(r, steer) ==
  /\ req[r].at = "preprocess"
  /\ steer => req[r].entry \in Guarded
  /\ Becomes(r, [req[r] EXCEPT !.at = "prepare", !.steer = steer])
  /\ UNCHANGED <<memory, lastSaid>>

RefuseWalksOn(r, block) ==             \* the walk is not ended by it
  /\ req[r].at = "preprocess" /\ req[r].entry \in Guarded
  /\ Becomes(r, Wrote([req[r] EXCEPT !.at = "prepare", !.result = block], "filtered"))
  /\ UNCHANGED <<memory, lastSaid>>

\* It blocks it, or its judge is over a limit.  The block of a stream writes
\* itself.
Refuse(r, block) ==
  /\ req[r].at = "preprocess" /\ req[r].entry \in Guarded
  /\ Becomes(r, IF block = "written"
                THEN Wrote([req[r] EXCEPT !.at = "egress", !.result = block], "filtered")
                ELSE [req[r] EXCEPT !.at = "egress", !.result = block])
  /\ UNCHANGED <<memory, lastSaid>>

-----------------------------------------------------------------------------
(* Routing.                                                                 *)

\* A block ends the walk, except that of a router an orchestrator has tried:
\* it is dropped and the next router gets its turn.
BlockedKept(q, block) ==               \* the block of a tried router ends the walk too
  [q EXCEPT !.at = "egress", !.router = q.entry, !.result = block]

Blocked(q, block) ==
  IF Nested(q) THEN [q EXCEPT !.at = "children", !.router = q.entry]
  ELSE [q EXCEPT !.at = "egress", !.result = block]

\* routing.prepare has nothing to rank for an orchestrator.
PrepareOrchestrator(r) ==
  /\ req[r].at = "prepare" /\ Kind[req[r].router] = "orchestrator"
  /\ Becomes(r, [req[r] EXCEPT !.at = "execute"])
  /\ UNCHANGED <<memory, lastSaid>>

\* routeRequest: the candidates that are eligible, in some order.
Rank(r, order) ==
  LET q == req[r]
  IN  /\ q.at = "prepare" /\ Kind[q.router] # "orchestrator"
      /\ q.router \notin RawFirst
      /\ order # <<>>
      /\ Becomes(r, [q EXCEPT !.at = "execute", !.models = order])
      /\ UNCHANGED <<memory, lastSaid>>

\* No candidate is eligible: over their limits, or there are none, or the
\* policies exclude them all, when a remembered error is repeated.
NoneEligible(r, block) ==
  LET q == req[r]
  IN  /\ q.at = "prepare" /\ Kind[q.router] = "router"
      /\ block = "recalled" => q.router \in memory
      /\ Becomes(r, Blocked(q, block))
      /\ UNCHANGED <<memory, lastSaid>>

\* A passthrough router forwards the request as it is, when that comes first
\* or nothing else is eligible.
ForwardRaw(r) ==
  LET q == req[r]
  IN  /\ q.at = "prepare" /\ Kind[q.router] = "passthrough"
      /\ Becomes(r, Wrote([q EXCEPT !.at = "egress", !.result = "written"], "raw"))
      /\ UNCHANGED <<memory, lastSaid>>

\* routing.execute of a router: the loop over its candidates begins.
TryModels(r) ==
  LET q == req[r]
  IN  /\ q.at = "execute" /\ Kind[q.router] # "orchestrator"
      /\ Becomes(r, [q EXCEPT !.at = "models", !.refused = FALSE])
      /\ UNCHANGED <<memory, lastSaid>>

\* routing.execute of an orchestrator: the loop over the routers that are still
\* there begins.
TryChildren(r, order) ==
  LET q == req[r]
  IN  /\ q.at = "execute" /\ Kind[q.router] = "orchestrator"
      /\ Becomes(r, [q EXCEPT !.at = "children", !.children = order])
      /\ UNCHANGED <<memory, lastSaid>>

\* The next router: over the orchestrator's limit for it, or tried.
NextChild(r, allowed) ==
  LET q == req[r]
      rest == [q EXCEPT !.children = Tail(@)]
  IN  /\ q.at = "children" /\ q.children # <<>>
      /\ Becomes(r, IF allowed THEN [rest EXCEPT !.at = "prepare", !.router = Head(q.children)] ELSE rest)
      /\ UNCHANGED <<memory, lastSaid>>

NoChildLeft(r) ==
  /\ req[r].at = "children" /\ req[r].children = <<>>
  /\ Becomes(r, [req[r] EXCEPT !.at = "egress", !.result = "unserved"])
  /\ UNCHANGED <<memory, lastSaid>>

-----------------------------------------------------------------------------
(* The loop over the candidates.                                            *)

\* upstream.prepare runs for every candidate and merges the text once.
MergedEachTime(q) ==                   \* no requestInjectionApplied
  IF q.steer THEN [q EXCEPT !.merges = @ + 1] ELSE q

Merged(q) == IF q.steer /\ q.merges = 0 THEN [q EXCEPT !.merges = 1] ELSE q

\* The connection of the model is disabled by now.
ModelGone(r) ==
  LET q == req[r]
  IN  /\ q.at = "models" /\ q.models # <<>>
      /\ Becomes(r, [q EXCEPT !.models = Tail(@)])
      /\ UNCHANGED <<memory, lastSaid>>

\* budget.upstream drops it.
OverLimit(r) ==
  LET q == req[r]
  IN  /\ q.at = "models" /\ q.models # <<>>
      /\ Becomes(r, Merged([q EXCEPT !.models = Tail(@)]))
      /\ UNCHANGED <<memory, lastSaid>>

Call(r) ==
  LET q == req[r]
  IN  /\ q.at = "models" /\ q.models # <<>>
      /\ Becomes(r, Merged([q EXCEPT !.at = "calling"]))
      /\ UNCHANGED <<memory, lastSaid>>

Forwards(q) == q.lane = "anthropic" /\ Head(q.models) \in Verbatim

\* A candidate that produced a result ends both loops and forgets the error.
ProducedKeeping(r, q) ==              \* no forgetUpstreamError
  /\ Becomes(r, [q EXCEPT !.at = "postprocess", !.router = q.entry, !.models = Tail(@)])
  /\ UNCHANGED memory

Produced(r, q) ==
  /\ Becomes(r, [q EXCEPT !.at = "postprocess", !.router = q.entry, !.models = Tail(@)])
  /\ memory' = memory \ {q.router}

\* The executor has an answer, or the first chunk of one.
Answers(r, result) ==
  LET q == req[r]
  IN  /\ q.at = "calling" /\ ~ Forwards(q)
      /\ Produced(r, [q EXCEPT !.result = result, !.oks = @ + 1])
      /\ lastSaid' = [lastSaid EXCEPT ![q.router] = "ok"]

FailsRetried(r, refusal) ==            \* the same candidate again
  LET q == req[r]
  IN  /\ q.at = "calling"
      /\ Becomes(r, [q EXCEPT !.at = "models", !.refused = @ \/ refusal])
      /\ memory' = IF refusal THEN memory \cup {q.router} ELSE memory
      /\ lastSaid' = IF refusal THEN [lastSaid EXCEPT ![q.router] = "refusal"] ELSE lastSaid

\* The candidate fails and the next one gets its turn; a refusal that no retry
\* would change is kept.  A verbatim forward falls back like this only from an
\* answer of the provider, and only while the loop has another candidate.
Fails(r, refusal) ==
  LET q == req[r]
  IN  /\ q.at = "calling"
      /\ Forwards(q) => Len(q.models) > 1
      /\ Becomes(r, [q EXCEPT !.at = "models", !.models = Tail(@), !.refused = @ \/ refusal])
      /\ memory' = IF refusal THEN memory \cup {q.router} ELSE memory
      /\ lastSaid' = IF refusal THEN [lastSaid EXCEPT ![q.router] = "refusal"] ELSE lastSaid

ForwardsAnswerUnset(r) ==              \* ctx.result is not set
  LET q == req[r]
  IN  /\ q.at = "calling" /\ Forwards(q)
      /\ Becomes(r, Wrote([q EXCEPT !.at = "models", !.models = Tail(@), !.oks = @ + 1], "ok"))
      /\ lastSaid' = [lastSaid EXCEPT ![q.router] = "ok"]
      /\ UNCHANGED memory

\* The verbatim forward pipes the provider's answer to the client.
ForwardsAnswer(r) ==
  LET q == req[r]
  IN  /\ q.at = "calling" /\ Forwards(q)
      /\ Produced(r, Wrote([q EXCEPT !.result = "passthrough", !.oks = @ + 1], "ok"))
      /\ lastSaid' = [lastSaid EXCEPT ![q.router] = "ok"]

\* The last candidate's error is passed on to it as well.
ForwardsRefusal(r) ==
  LET q == req[r]
  IN  /\ q.at = "calling" /\ Forwards(q) /\ Len(q.models) = 1
      /\ Produced(r, Wrote([q EXCEPT !.result = "passthrough"], "refused"))
      /\ UNCHANGED lastSaid

UnreachableFallsBack(r) ==                \* the 502 is written and the loop goes on
  LET q == req[r]
  IN  /\ q.at = "calling" /\ Forwards(q)
      /\ Becomes(r, Wrote([q EXCEPT !.at = "models", !.models = Tail(@)], "unreachable"))
      /\ UNCHANGED <<memory, lastSaid>>

\* The provider cannot be reached: a 502 is written at once.
Unreachable(r) ==
  LET q == req[r]
  IN  /\ q.at = "calling" /\ Forwards(q)
      /\ Produced(r, Wrote([q EXCEPT !.result = "passthrough"], "unreachable"))
      /\ UNCHANGED lastSaid

\* The provider breaks off in the middle of its answer.  Nobody listens for the
\* error of the body that is piped to the client: the response stays open ...
LeftOpen(r) ==
  LET q == req[r]
  IN  /\ q.at = "calling" /\ Forwards(q)
      /\ Becomes(r, Wrote([q EXCEPT !.at = "hung", !.result = "passthrough", !.oks = @ + 1], "cut"))
      /\ UNCHANGED <<memory, lastSaid>>

\* ... until the client gives up on it ...
GivesUp(r) ==
  /\ req[r].at = "hung"
  /\ Produced(r, req[r])
  /\ UNCHANGED lastSaid

Lost(q) ==
  IF Over(q) THEN q
  ELSE [q EXCEPT !.at = "lost", !.answers = IF q.at = "pumping" THEN <<"cut">> ELSE @]

\* ... or the error that nobody catches ends the process, and with it every
\* request under way.  It starts again with nothing remembered.
BringsDown(r) ==
  LET q == req[r]
  IN  /\ q.at = "calling" /\ Forwards(q)
      /\ req' = [p \in Requests |->
                   IF p = r THEN Wrote([q EXCEPT !.at = "lost", !.oks = @ + 1], "cut")
                   ELSE Lost(req[p])]
      /\ memory' = {}
      /\ UNCHANGED lastSaid

NoModelLeft(r) ==
  LET q == req[r]
  IN  /\ q.at = "models" /\ q.models = <<>>
      /\ Becomes(r, Blocked(q, IF q.refused THEN "upstream" ELSE "unserved"))
      /\ UNCHANGED <<memory, lastSaid>>

-----------------------------------------------------------------------------
(* Out of the pipeline.                                                     *)

\* guardrail.response replaces a complete answer on the OpenAI lane ...
Filter(r) ==
  LET q == req[r]
  IN  /\ q.at = "postprocess" /\ q.lane = "openai" /\ q.result = "json" /\ q.router \in Guarded
      /\ Becomes(r, [q EXCEPT !.at = "egress", !.result = "filtered"])
      /\ UNCHANGED <<memory, lastSaid>>

\* ... or lets it through.
Postprocess(r) ==
  /\ req[r].at = "postprocess"
  /\ Becomes(r, [req[r] EXCEPT !.at = "egress"])
  /\ UNCHANGED <<memory, lastSaid>>

\* The egress phase writes what was not written yet.
Egress(r) ==
  LET q == req[r]
      next == IF q.result = "stream" THEN "pumping" ELSE "finalize"
  IN  /\ q.at = "egress"
      /\ Becomes(r, IF q.result \in {"none", "written", "passthrough"} THEN [q EXCEPT !.at = next]
                    ELSE Wrote([q EXCEPT !.at = next],
                               IF q.result \in Block THEN q.result ELSE "ok"))
      /\ UNCHANGED <<memory, lastSaid>>

\* The chunks run out, or the stream breaks off and the connection is closed
\* without an end.
Pump(r, how) ==
  LET q == req[r]
  IN  /\ q.at = "pumping"
      /\ Becomes(r, [q EXCEPT !.at = "finalize", !.answers = <<how>>])
      /\ UNCHANGED <<memory, lastSaid>>

\* A block is recorded, the trace is closed.
Finalize(r) ==
  /\ req[r].at = "finalize"
  /\ Becomes(r, [req[r] EXCEPT !.at = "done"])
  /\ UNCHANGED <<memory, lastSaid>>

\* What may throw: reading the configuration or the history, the credential of
\* a verbatim forward, the judge of a response.
MayThrow(q) ==
  \/ q.at \in {"preprocess", "prepare", "execute", "children", "models"}
  \/ q.at = "calling" /\ Forwards(q)
  \/ q.at = "postprocess" /\ q.lane = "openai" /\ q.result = "json" /\ q.router \in Guarded

\* Inside a router an orchestrator tries, the next router gets its turn;
\* elsewhere the server answers with an error, and no later phase runs.
Throws(r) ==
  LET q == req[r]
  IN  /\ MayThrow(q)
      /\ Becomes(r, IF Nested(q) THEN [q EXCEPT !.at = "children", !.router = q.entry, !.models = <<>>]
                    ELSE Wrote([q EXCEPT !.at = "failed"], "crash"))
      /\ UNCHANGED <<memory, lastSaid>>

\* The memory of an error expires.
Expire(rt) ==
  /\ rt \in memory
  /\ memory' = memory \ {rt}
  /\ UNCHANGED <<req, lastSaid>>

-----------------------------------------------------------------------------

Step(r) ==
  \/ \E steer \in BOOLEAN : Admit(r, steer)
  \/ \E block \in {"filtered", "limits", "written"} : Refuse(r, block)
  \/ PrepareOrchestrator(r) \/ ForwardRaw(r) \/ TryModels(r)
  \/ \E order \in Orders(Offers[req[r].router]) : Rank(r, order)
  \/ \E block \in {"unserved", "limits", "recalled"} : NoneEligible(r, block)
  \/ \E order \in Orders(Targets[req[r].router]) : TryChildren(r, order)
  \/ \E allowed \in BOOLEAN : NextChild(r, allowed)
  \/ NoChildLeft(r)
  \/ ModelGone(r) \/ OverLimit(r) \/ Call(r) \/ NoModelLeft(r)
  \/ \E result \in {"json", "stream"} : Answers(r, result)
  \/ \E refusal \in BOOLEAN : Fails(r, refusal)
  \/ ForwardsAnswer(r) \/ ForwardsRefusal(r) \/ Unreachable(r) \/ LeftOpen(r)
  \/ Filter(r) \/ Postprocess(r) \/ Egress(r) \/ Finalize(r)
  \/ \E how \in {"ok", "cut"} : Pump(r, how)
  \/ Throws(r)

Next ==
  \/ \E r \in Requests, rt \in Routers, ln \in {"openai", "anthropic"} : Arrive(r, rt, ln)
  \/ \E r \in Requests : Step(r) \/ GivesUp(r) \/ BringsDown(r)
  \/ \E rt \in Routers : Expire(rt)

\* The event loop runs every request on, and the HTTP client ends every call
\* with an answer or with an error of its own.  Nothing makes a client give up.
Spec == Init /\ [][Next]_vars /\ \A r \in Requests : WF_vars(Step(r))

-----------------------------------------------------------------------------
(* What a client may rely on.                                               *)

TypeOK ==
  /\ req \in [Requests -> Context]
  /\ memory \subseteq Routers
  /\ lastSaid \in [Routers -> {"nothing", "ok", "refusal"}]

\* Whoever writes it, a client gets one answer: never two, and none only while
\* its request is under way or when the process went down under it.
AnsweredOnce ==
  \A r \in Requests :
    /\ Len(req[r].answers) <= 1
    /\ req[r].at \in {"done", "failed"} => Len(req[r].answers) = 1

\* No model is called for a client that has its answer.
NoCallOnceAnswered == \A r \in Requests : req[r].at = "calling" => req[r].answers = <<>>

\* However many candidates and routers are tried, the text of the guardrails
\* reaches each of them once.
SteeredOnce ==
  \A r \in Requests :
    req[r].at = "calling" => req[r].merges = IF req[r].steer THEN 1 ELSE 0

\* A request pays for one answer at most, and the client gets that answer, unless
\* the guardrails hold it back.
NothingWasted ==
  \A r \in Requests :
    LET q == req[r]
    IN  /\ q.oks <= 1
        /\ q.answers \in {<<"ok">>, <<"cut">>} => q.oks = 1
        /\ q.at = "done" /\ q.oks = 1 => q.answers \in {<<"ok">>, <<"cut">>, <<"filtered">>}

\* The gateway says that nothing could serve the request only when nothing is
\* left to try and nothing did.
ErrorsComeLast ==
  \A r \in Requests :
    req[r].answers \in {<<"unserved">>, <<"upstream">>} =>
      req[r].models = <<>> /\ req[r].children = <<>> /\ req[r].oks = 0

\* A remembered error is what a provider said last.
MemoryIsCurrent == \A rt \in memory : lastSaid[rt] = "refusal"

\* Every request is answered and comes to its end, or is lost with the process;
\* only a verbatim answer that breaks off may stay open for as long as its client
\* waits.
EveryRequestEnds == \A r \in Requests : ~ Over(req[r]) ~> Over(req[r]) \/ req[r].at = "hung"
=============================================================================
