----------------------------- MODULE ProxyProofs -----------------------------
(***************************************************************************)
(* One answer per request, paid for once, for all routers, models, targets *)
(* and numbers of requests.                                                *)
(*                                                                         *)
(* The properties speak of one request at a time, so the inductive         *)
(* invariant is a predicate on its context: Staged says what was written   *)
(* and paid for in each phase, Placed where the two loops stand, Steered   *)
(* how often the text of the guardrails was merged.                        *)
(***************************************************************************)
EXTENDS Proxy, FiniteSetTheorems, SequenceTheorems, TLAPS

USE ProxyAssumption, TargetAssumption

Plain == {rt \in Routers : Kind[rt] = "router"}

One(a) == <<a>>

LEMMA OneAnswer ==
  /\ \A a : One(a) # <<>> /\ Len(One(a)) = 1 /\ Append(<<>>, a) = One(a)
  /\ \A a, b : One(a) = One(b) => a = b
  /\ \A a \in Answer : One(a) \in Seq(Answer)
  /\ <<>> \in Seq(Answer) /\ Len(<<>>) = 0
<1>1. \A a : One(a) # <<>> /\ Len(One(a)) = 1 /\ Append(<<>>, a) = One(a)  BY DEF One
<1>2. \A a, b : One(a) = One(b) => One(a)[1] = One(b)[1]  OBVIOUS
<1>3. \A a : One(a)[1] = a  BY DEF One
<1>4. \A a \in Answer : One(a) \in Seq(Answer)  BY DEF One
<1>5. <<>> \in Seq(Answer) /\ Len(<<>>) = 0  OBVIOUS
<1> QED BY <1>1, <1>2, <1>3, <1>4, <1>5

\* An order is a sequence over the set that is ordered.
LEMMA OrdersType ==
  ASSUME NEW S, IsFiniteSet(S), NEW order \in Orders(S)
  PROVE  order \in Seq(S)
<1>1. PICK s \in SUBSET S : order \in SetToSeqs(s)
  BY DEF Orders, SetToAllKPermutations
<1>2. Cardinality(s) \in Nat
  BY FS_Subset, FS_CardinalityType
<1>3. order \in [1..Cardinality(s) -> s]
  BY <1>1 DEF SetToSeqs
<1>4. order \in [1..Cardinality(s) -> S]
  BY <1>3
<1> QED BY <1>2, <1>4

-----------------------------------------------------------------------------
(* The invariant.                                                           *)

Early == {"preprocess", "prepare", "execute", "children", "models", "calling"}

HasAnswer(q) == q.result \in {"json", "stream"} /\ q.answers = <<>> /\ q.oks = 1

Forwarded(q) ==
  /\ q.result = "passthrough"
  /\ \/ q.answers \in {One("ok"), One("cut")} /\ q.oks = 1
     \/ q.answers \in {One("refused"), One("unreachable")} /\ q.oks = 0

Exhausted(q) == q.models = <<>> /\ q.children = <<>> /\ q.oks = 0

HasBlock(q) ==
  /\ q.result \in Block /\ q.answers = <<>>
  /\ q.oks = 0 \/ (q.result = "filtered" /\ q.oks = 1)
  /\ q.result \in {"unserved", "upstream"} => Exhausted(q)

HasWritten(q) ==
  q.result = "written" /\ q.answers \in {One("raw"), One("filtered")} /\ q.oks = 0

Closed(q) ==
  \E a \in Answer :
    /\ q.answers = One(a) /\ q.oks \in {0, 1}
    /\ a \in {"ok", "cut"} => q.oks = 1
    /\ q.oks = 1 => a \in {"ok", "cut", "filtered"}
    /\ a \in {"unserved", "upstream"} => Exhausted(q)

\* What a request that the process took with it leaves behind.
Left(q) ==
  /\ q.answers = <<>> \/ \E a \in Answer : q.answers = One(a)
  /\ q.oks \in {0, 1}
  /\ q.answers \in {One("ok"), One("cut")} => q.oks = 1
  /\ q.answers \in {One("unserved"), One("upstream")} => Exhausted(q)

Staged(q) ==
  /\ q.at \in Early \cup {"idle"} => q.answers = <<>> /\ q.oks = 0 /\ q.result = "none"
  /\ q.at = "hung" => q.result = "passthrough" /\ q.answers = One("cut") /\ q.oks = 1
  /\ q.at = "postprocess" => HasAnswer(q) \/ Forwarded(q)
  /\ q.at = "egress" => HasAnswer(q) \/ Forwarded(q) \/ HasBlock(q) \/ HasWritten(q)
  /\ q.at = "pumping" => q.answers = One("ok") /\ q.oks = 1
  /\ q.at \in {"finalize", "done"} => Closed(q)
  /\ q.at = "failed" => q.answers = One("crash") /\ q.oks \in {0, 1}
  /\ q.at = "lost" => Left(q)

Placed(q) ==
  /\ q.children \in Seq(Plain)
  /\ Nested(q) => /\ Kind[q.router] = "router" /\ Kind[q.entry] = "orchestrator"
                  /\ q.at \in {"prepare", "execute", "models", "calling", "hung", "lost"}
  /\ q.at \in Early \ {"children"} /\ ~ Nested(q) => q.children = <<>>
  /\ q.at = "children" => Kind[q.entry] = "orchestrator"
  /\ q.at \in {"preprocess", "prepare", "children"} => q.models = <<>>
  /\ q.at = "execute" /\ Kind[q.router] = "orchestrator" => q.models = <<>>
  /\ q.at \in {"calling", "hung"} => q.models # <<>>

Steered(q) ==
  /\ q.merges \in {0, 1}
  /\ q.merges = 1 => q.steer
  /\ q.at \in {"idle", "preprocess"} => q.merges = 0
  /\ q.at = "calling" /\ q.steer => q.merges = 1

Sound(q) == q \in Context /\ Staged(q) /\ Placed(q) /\ Steered(q)

IInv ==
  /\ req \in [Requests -> Context]
  /\ \A r \in Requests : Sound(req[r])
  /\ memory \subseteq Routers
  /\ lastSaid \in [Routers -> {"nothing", "ok", "refusal"}]
  /\ MemoryIsCurrent

-----------------------------------------------------------------------------
(* Into the pipeline.                                                       *)

LEMMA FreshSound ==
  ASSUME NEW rt \in Routers, NEW ln \in {"openai", "anthropic"}
  PROVE  Sound(Fresh(rt, ln)) /\ Sound([Fresh(rt, ln) EXCEPT !.at = "idle"])
<1>1. /\ <<>> \in Seq(Routers) /\ <<>> \in Seq(Models) /\ <<>> \in Seq(Plain)
      /\ <<>> \in Seq(Answer)
  OBVIOUS
<1>2. Fresh(rt, ln) \in Context /\ [Fresh(rt, ln) EXCEPT !.at = "idle"] \in Context
  BY <1>1 DEF Fresh, Context, Phase, Result
<1> QED BY <1>1, <1>2 DEF Sound, Staged, Placed, Steered, Fresh, Early, Nested

LEMMA AdmitSound ==
  ASSUME NEW q, Sound(q), q.at = "preprocess", NEW steer \in BOOLEAN
  PROVE  Sound([q EXCEPT !.at = "prepare", !.steer = steer])
<1> DEFINE n == [q EXCEPT !.at = "prepare", !.steer = steer]
<1>1. n \in Context  BY DEF Sound, Context, Phase
<1> QED BY <1>1 DEF Sound, Context, Staged, Placed, Steered, Early, Nested

LEMMA RefuseSound ==
  ASSUME NEW q, Sound(q), q.at = "preprocess", NEW block \in {"filtered", "limits", "written"}
  PROVE  Sound(IF block = "written"
               THEN Wrote([q EXCEPT !.at = "egress", !.result = block], "filtered")
               ELSE [q EXCEPT !.at = "egress", !.result = block])
<1> DEFINE w == [q EXCEPT !.at = "egress", !.result = block]
           n == [w EXCEPT !.answers = One("filtered")]
<1>1. "filtered" \in Answer  BY DEF Answer, Block
<1>2. q.answers = <<>> /\ Append(<<>>, "filtered") = One("filtered") /\ One("filtered") \in Seq(Answer)
  BY <1>1, OneAnswer DEF Sound, Staged, Early
<1>3. w \in Context /\ n \in Context
  BY <1>2 DEF Sound, Context, Phase, Result, Block
<1>4. block = "written" => Sound(n)
  BY <1>3 DEF Sound, Context, Staged, Placed, Steered, Early, Nested, HasWritten
<1>5. block # "written" => Sound(w)
  BY <1>3 DEF Sound, Context, Staged, Placed, Steered, Early, Nested, HasBlock, Block
<1>6. Wrote(w, "filtered") = n
  BY <1>2, <1>3 DEF Wrote, Context
<1> QED BY <1>4, <1>5, <1>6

-----------------------------------------------------------------------------
(* Routing.                                                                 *)

LEMMA BlockedSound ==
  ASSUME NEW q, Sound(q), q.at \in {"prepare", "models"}, q.models = <<>>,
         NEW block \in {"unserved", "limits", "recalled", "upstream"}
  PROVE  Sound(Blocked(q, block))
<1> DEFINE c == [q EXCEPT !.at = "children", !.router = q.entry]
           b == [q EXCEPT !.at = "egress", !.result = block]
<1>1. c \in Context /\ b \in Context
  BY DEF Sound, Context, Phase, Result, Block
<1>2. Nested(q) => Sound(c)
  BY <1>1 DEF Sound, Context, Staged, Placed, Steered, Early, Nested
<1>3. ~ Nested(q) => Sound(b)
  BY <1>1 DEF Sound, Context, Staged, Placed, Steered, Early, Nested, HasBlock, Block, Exhausted
<1> QED BY <1>2, <1>3 DEF Blocked

LEMMA PrepareOrchestratorSound ==
  ASSUME NEW q, Sound(q), q.at = "prepare"
  PROVE  Sound([q EXCEPT !.at = "execute"])
<1> DEFINE n == [q EXCEPT !.at = "execute"]
<1>1. n \in Context  BY DEF Sound, Context, Phase
<1> QED BY <1>1 DEF Sound, Context, Staged, Placed, Steered, Early, Nested

LEMMA RankSound ==
  ASSUME NEW q, Sound(q), q.at = "prepare", Kind[q.router] # "orchestrator",
         NEW order \in Orders(Offers[q.router])
  PROVE  Sound([q EXCEPT !.at = "execute", !.models = order])
<1> DEFINE n == [q EXCEPT !.at = "execute", !.models = order]
<1>1. Offers[q.router] \subseteq Models  BY DEF Sound, Context
<1>2. order \in Seq(Offers[q.router])  BY <1>1, FS_Subset, OrdersType
<1>3. order \in Seq(Models)  BY <1>1, <1>2
<1>4. n \in Context  BY <1>3 DEF Sound, Context, Phase
<1> QED BY <1>4 DEF Sound, Context, Staged, Placed, Steered, Early, Nested

LEMMA ForwardRawSound ==
  ASSUME NEW q, Sound(q), q.at = "prepare", Kind[q.router] = "passthrough"
  PROVE  Sound(Wrote([q EXCEPT !.at = "egress", !.result = "written"], "raw"))
<1> DEFINE w == [q EXCEPT !.at = "egress", !.result = "written"]
           n == [w EXCEPT !.answers = One("raw")]
<1>1. "raw" \in Answer  BY DEF Answer
<1>2. q.answers = <<>> /\ Append(<<>>, "raw") = One("raw") /\ One("raw") \in Seq(Answer)
  BY <1>1, OneAnswer DEF Sound, Staged, Early
<1>3. w \in Context /\ n \in Context
  BY <1>2 DEF Sound, Context, Phase, Result
<1>4. Sound(n)
  BY <1>3 DEF Sound, Context, Staged, Placed, Steered, Early, Nested, HasWritten
<1>5. Wrote(w, "raw") = n
  BY <1>2, <1>3 DEF Wrote, Context
<1> QED BY <1>4, <1>5

LEMMA TryModelsSound ==
  ASSUME NEW q, Sound(q), q.at = "execute"
  PROVE  Sound([q EXCEPT !.at = "models", !.refused = FALSE])
<1> DEFINE n == [q EXCEPT !.at = "models", !.refused = FALSE]
<1>1. n \in Context  BY DEF Sound, Context, Phase
<1> QED BY <1>1 DEF Sound, Context, Staged, Placed, Steered, Early, Nested

LEMMA TryChildrenSound ==
  ASSUME NEW q, Sound(q), q.at = "execute", Kind[q.router] = "orchestrator",
         NEW order \in Orders(Targets[q.router])
  PROVE  Sound([q EXCEPT !.at = "children", !.children = order])
<1> DEFINE n == [q EXCEPT !.at = "children", !.children = order]
<1>1. q.router \in Routers /\ Targets[q.router] \subseteq Plain
  BY DEF Sound, Context, Plain
<1>2. order \in Seq(Targets[q.router])
  BY <1>1, FS_Subset, OrdersType DEF Plain
<1>3. order \in Seq(Routers) /\ order \in Seq(Plain)
  BY <1>1, <1>2 DEF Plain
<1>4. n \in Context  BY <1>3 DEF Sound, Context, Phase
<1>5. ~ Nested(q)  BY DEF Sound, Placed
<1> QED BY <1>3, <1>4, <1>5 DEF Sound, Context, Staged, Placed, Steered, Early, Nested

LEMMA NextChildSound ==
  ASSUME NEW q, Sound(q), q.at = "children", q.children # <<>>, NEW allowed \in BOOLEAN
  PROVE  LET rest == [q EXCEPT !.children = Tail(@)]
         IN  Sound(IF allowed THEN [rest EXCEPT !.at = "prepare", !.router = Head(q.children)]
                   ELSE rest)
<1> DEFINE rest == [q EXCEPT !.children = Tail(@)]
           n == [rest EXCEPT !.at = "prepare", !.router = Head(q.children)]
<1>1. /\ q.children \in Seq(Plain) /\ q.children \in Seq(Routers)
  BY DEF Sound, Placed, Context
<1>2. /\ Tail(q.children) \in Seq(Plain) /\ Head(q.children) \in Plain
      /\ Tail(q.children) \in Seq(Routers)
  BY <1>1, HeadTailProperties
<1>3. rest \in Context /\ n \in Context
  BY <1>2 DEF Sound, Context, Phase, Plain
<1>4. Sound(rest)
  BY <1>2, <1>3 DEF Sound, Context, Staged, Placed, Steered, Early, Nested
<1>5. Sound(n)
  BY <1>2, <1>3 DEF Sound, Context, Staged, Placed, Steered, Early, Nested, Plain
<1> QED BY <1>4, <1>5

LEMMA NoChildLeftSound ==
  ASSUME NEW q, Sound(q), q.at = "children", q.children = <<>>
  PROVE  Sound([q EXCEPT !.at = "egress", !.result = "unserved"])
<1> DEFINE n == [q EXCEPT !.at = "egress", !.result = "unserved"]
<1>1. n \in Context  BY DEF Sound, Context, Phase, Result, Block
<1> QED BY <1>1 DEF Sound, Context, Staged, Placed, Steered, Early, Nested, HasBlock, Block, Exhausted

-----------------------------------------------------------------------------
(* The loop over the candidates.                                            *)

\* Merged puts the text in, once, and changes nothing else.
LEMMA MergedOnce ==
  ASSUME NEW q \in Context, q.merges \in {0, 1}, q.merges = 1 => q.steer
  PROVE  \E k \in {0, 1} : Merged(q) = [q EXCEPT !.merges = k] /\ (k = 1 <=> q.steer)
<1>1. CASE q.steer /\ q.merges = 0  BY <1>1 DEF Merged
<1>2. CASE ~ (q.steer /\ q.merges = 0)
  <2>1. q = [q EXCEPT !.merges = q.merges]  BY DEF Context
  <2> QED BY <1>2, <2>1 DEF Merged, Context
<1> QED BY <1>1, <1>2

LEMMA NextModelSound ==
  ASSUME NEW q, Sound(q), q.at \in {"models", "calling"}, q.models # <<>>, NEW refused \in BOOLEAN,
         NEW k \in {0, 1}, k = 1 => q.steer
  PROVE  Sound([q EXCEPT !.at = "models", !.models = Tail(q.models), !.refused = refused,
                         !.merges = k])
<1> DEFINE n == [q EXCEPT !.at = "models", !.models = Tail(q.models), !.refused = refused,
                          !.merges = k]
<1>1. Tail(q.models) \in Seq(Models)
  BY HeadTailProperties DEF Sound, Context
<1>2. k \in Nat  OBVIOUS
<1>3. n \in Context  BY <1>1, <1>2 DEF Sound, Context, Phase
<1> QED BY <1>3 DEF Sound, Context, Staged, Placed, Steered, Early, Nested

LEMMA CallSound ==
  ASSUME NEW q, Sound(q), q.at = "models", q.models # <<>>,
         NEW k \in {0, 1}, k = 1 <=> q.steer
  PROVE  Sound([q EXCEPT !.at = "calling", !.merges = k])
<1> DEFINE n == [q EXCEPT !.at = "calling", !.merges = k]
<1>1. k \in Nat  OBVIOUS
<1>2. n \in Context  BY <1>1 DEF Sound, Context, Phase
<1> QED BY <1>2 DEF Sound, Context, Staged, Placed, Steered, Early, Nested

\* A candidate that produced a result leaves both loops.
LEMMA ProducedSound ==
  ASSUME NEW q, Sound(q), q.at \in {"calling", "hung"},
         NEW result \in Result, NEW oks \in {0, 1}, NEW answers \in Seq(Answer),
         \/ result \in {"json", "stream"} /\ answers = <<>> /\ oks = 1
         \/ /\ result = "passthrough"
            /\ \/ answers \in {One("ok"), One("cut")} /\ oks = 1
               \/ answers \in {One("refused"), One("unreachable")} /\ oks = 0
  PROVE  Sound([q EXCEPT !.at = "postprocess", !.router = q.entry, !.models = Tail(q.models),
                         !.result = result, !.oks = oks, !.answers = answers])
<1> DEFINE n == [q EXCEPT !.at = "postprocess", !.router = q.entry, !.models = Tail(q.models),
                          !.result = result, !.oks = oks, !.answers = answers]
<1>1. Tail(q.models) \in Seq(Models)
  BY HeadTailProperties DEF Sound, Context, Placed
<1>2. oks \in Nat  OBVIOUS
<1>3. n \in Context  BY <1>1, <1>2 DEF Sound, Context, Phase
<1>4. Staged(n)
  BY <1>3 DEF Context, Staged, Early, HasAnswer, Forwarded
<1> QED BY <1>3, <1>4 DEF Sound, Context, Placed, Steered, Early, Nested

\* A verbatim answer that breaks off is left open, or ends the process.
LEMMA BrokenSound ==
  ASSUME NEW q, Sound(q), q.at = "calling"
  PROVE  /\ Sound(Wrote([q EXCEPT !.at = "hung", !.result = "passthrough", !.oks = @ + 1], "cut"))
         /\ Sound(Wrote([q EXCEPT !.at = "lost", !.oks = @ + 1], "cut"))
<1> DEFINE h == [q EXCEPT !.at = "hung", !.result = "passthrough", !.oks = 1]
           l == [q EXCEPT !.at = "lost", !.oks = 1]
           hc == [h EXCEPT !.answers = One("cut")]
           lc == [l EXCEPT !.answers = One("cut")]
<1>1. "cut" \in Answer  BY DEF Answer
<1>2. /\ q.answers = <<>> /\ q.oks = 0
      /\ Append(<<>>, "cut") = One("cut") /\ One("cut") \in Seq(Answer)
  BY <1>1, OneAnswer DEF Sound, Staged, Early
<1>3. h \in Context /\ l \in Context /\ hc \in Context /\ lc \in Context
  BY <1>2 DEF Sound, Context, Phase, Result
<1>4. Sound(hc)
  BY <1>3 DEF Sound, Context, Staged, Placed, Steered, Early, Nested
<1>5. Left(lc)
  <2>1. lc.answers = One("cut") /\ lc.oks = 1  BY <1>3 DEF Context
  <2>2. One("cut") \notin {One("unserved"), One("upstream")}  BY OneAnswer
  <2> QED BY <1>1, <2>1, <2>2 DEF Left
<1>6. Sound(lc)
  BY <1>3, <1>5 DEF Sound, Context, Staged, Placed, Steered, Early, Nested
<1>7. Wrote([q EXCEPT !.at = "hung", !.result = "passthrough", !.oks = @ + 1], "cut") = hc
  <2>1. [q EXCEPT !.at = "hung", !.result = "passthrough", !.oks = @ + 1] = h
    BY <1>2 DEF Sound, Context
  <2>2. Wrote(h, "cut") = hc  BY <1>2, <1>3 DEF Wrote, Sound, Context
  <2> QED BY <2>1, <2>2
<1>8. Wrote([q EXCEPT !.at = "lost", !.oks = @ + 1], "cut") = lc
  <2>1. [q EXCEPT !.at = "lost", !.oks = @ + 1] = l
    BY <1>2 DEF Sound, Context
  <2>2. Wrote(l, "cut") = lc  BY <1>2, <1>3 DEF Wrote, Sound, Context
  <2> QED BY <2>1, <2>2
<1> QED BY <1>4, <1>6, <1>7, <1>8

\* The process takes every request along, with what was written and paid for.
LEMMA LostSound ==
  ASSUME NEW q, Sound(q)
  PROVE  Sound(Lost(q))
<1> DEFINE said == IF q.at = "pumping" THEN One("cut") ELSE q.answers
           n == [q EXCEPT !.at = "lost", !.answers = said]
<1>1. CASE Over(q)  BY <1>1 DEF Lost
<1>2. CASE ~ Over(q)
  <2>1. One("cut") \in Seq(Answer) /\ "cut" \in Answer  BY OneAnswer DEF Answer
  <2>2. n \in Context  BY <2>1 DEF Sound, Context, Phase
  <2>3. n.answers = said /\ n.oks = q.oks /\ n.models = q.models /\ n.children = q.children
        /\ n.at = "lost"
    BY <2>2 DEF Sound, Context
  <2>4. Left(n)
    <3>1. CASE q.at \in {"pumping", "hung"}
      <4>1. n.answers = One("cut") /\ n.oks = 1  BY <2>3, <3>1 DEF Sound, Staged
      <4> QED BY <2>1, <4>1, OneAnswer DEF Left
    <3>2. CASE q.at \in Early
      <4>1. n.answers = <<>> /\ n.oks = 0  BY <2>3, <3>2 DEF Sound, Staged, Early
      <4> QED BY <4>1, OneAnswer DEF Left
    <3>3. CASE q.at \in {"postprocess", "egress"}
      <4>1. n.answers = q.answers  BY <2>3, <3>3
      <4>2. {"ok", "cut", "refused", "unreachable", "raw", "filtered"} \subseteq Answer
        BY DEF Answer, Block
      <4>3. HasAnswer(q) \/ Forwarded(q) \/ HasBlock(q) \/ HasWritten(q)
        BY <3>3 DEF Sound, Staged
      <4>4. CASE HasAnswer(q) \/ HasBlock(q)
        BY <2>3, <4>1, <4>4, OneAnswer DEF Left, HasAnswer, HasBlock
      <4>5. CASE Forwarded(q) \/ HasWritten(q)
        <5>1. PICK a \in {"ok", "cut", "refused", "unreachable", "raw", "filtered"} :
                q.answers = One(a) /\ q.oks \in {0, 1} /\ (a \in {"ok", "cut"} => q.oks = 1)
          BY <4>5 DEF Forwarded, HasWritten
        <5> QED BY <2>3, <4>1, <4>2, <5>1, OneAnswer DEF Left
      <4> QED BY <4>3, <4>4, <4>5
    <3>4. CASE q.at = "finalize"
      <4>1. n.answers = q.answers  BY <2>3, <3>4
      <4>2. PICK a \in Answer : /\ q.answers = One(a) /\ q.oks \in {0, 1}
                                /\ a \in {"ok", "cut"} => q.oks = 1
                                /\ a \in {"unserved", "upstream"} => Exhausted(q)
        BY <3>4 DEF Sound, Staged, Closed
      <4>3. Exhausted(q) => Exhausted(n)  BY <2>3 DEF Exhausted
      <4> QED BY <2>3, <4>1, <4>2, <4>3, OneAnswer DEF Left
    <3> QED BY <1>2, <3>1, <3>2, <3>3, <3>4 DEF Sound, Context, Phase, Over, Early
  <2>5. Sound(n)
    <3>1. n.router = q.router /\ n.entry = q.entry /\ n.merges = q.merges /\ n.steer = q.steer
      BY <2>2 DEF Sound, Context
    <3>2. Staged(n)  BY <2>3, <2>4 DEF Staged, Early
    <3>3. Placed(n) /\ Steered(n)
      BY <2>3, <3>1 DEF Sound, Placed, Steered, Early, Nested
    <3> QED BY <2>2, <3>2, <3>3 DEF Sound
  <2>6. n = Lost(q)  BY <1>2 DEF Lost, One
  <2> QED BY <2>5, <2>6
<1> QED BY <1>1, <1>2

-----------------------------------------------------------------------------
(* Out of the pipeline.                                                     *)

LEMMA FilterSound ==
  ASSUME NEW q, Sound(q), q.at = "postprocess", q.result = "json"
  PROVE  Sound([q EXCEPT !.at = "egress", !.result = "filtered"])
<1> DEFINE n == [q EXCEPT !.at = "egress", !.result = "filtered"]
<1>1. n \in Context  BY DEF Sound, Context, Phase, Result, Block
<1>2. q.answers = <<>> /\ q.oks = 1
  BY DEF Sound, Staged, HasAnswer, Forwarded
<1> QED BY <1>1, <1>2 DEF Sound, Context, Staged, Placed, Steered, Early, Nested, HasBlock, Block

LEMMA PostprocessSound ==
  ASSUME NEW q, Sound(q), q.at = "postprocess"
  PROVE  Sound([q EXCEPT !.at = "egress"])
<1> DEFINE n == [q EXCEPT !.at = "egress"]
<1>1. n \in Context  BY DEF Sound, Context, Phase
<1>2. Staged(n)
  BY <1>1 DEF Sound, Context, Staged, Early, HasAnswer, Forwarded
<1> QED BY <1>1, <1>2 DEF Sound, Context, Placed, Steered, Early, Nested

\* What the egress phase writes, or has found written.
LEMMA EgressSound ==
  ASSUME NEW q, Sound(q), q.at = "egress"
  PROVE  LET next == IF q.result = "stream" THEN "pumping" ELSE "finalize"
         IN  Sound(IF q.result \in {"none", "written", "passthrough"} THEN [q EXCEPT !.at = next]
                   ELSE Wrote([q EXCEPT !.at = next],
                              IF q.result \in Block THEN q.result ELSE "ok"))
<1> DEFINE next == IF q.result = "stream" THEN "pumping" ELSE "finalize"
           said == IF q.result \in Block THEN q.result ELSE "ok"
           w == [q EXCEPT !.at = next]
           n == [w EXCEPT !.answers = One(said)]
<1>1. said \in Answer /\ {"ok", "cut", "refused", "unreachable", "raw", "filtered"} \subseteq Answer
  BY DEF Answer, Block
<1>2. One(said) \in Seq(Answer)  BY <1>1, OneAnswer
<1>3. w \in Context /\ n \in Context
  BY <1>2 DEF Sound, Context, Phase
<1>4. HasAnswer(q) \/ Forwarded(q) \/ HasBlock(q) \/ HasWritten(q)
  BY DEF Sound, Staged
<1>5. CASE q.result \in {"none", "written", "passthrough"}
  <2>1. Forwarded(q) \/ HasWritten(q)
    BY <1>4, <1>5 DEF HasAnswer, HasBlock, Block
  <2>2. PICK a \in {"ok", "cut", "refused", "unreachable", "raw", "filtered"} :
          q.answers = One(a) /\ (q.oks = 1 <=> a \in {"ok", "cut"}) /\ q.oks \in {0, 1}
    BY <2>1 DEF Forwarded, HasWritten
  <2>3. Closed(w)
    BY <1>1, <1>3, <2>2 DEF Closed, Context, Sound
  <2>4. w.at = "finalize"  BY <1>5 DEF Sound, Context
  <2>5. Staged(w)  BY <2>3, <2>4 DEF Staged, Early
  <2>6. Sound(w)
    BY <1>3, <2>4, <2>5 DEF Sound, Context, Placed, Steered, Early, Nested
  <2> QED BY <1>5, <2>6
<1>6. CASE q.result \notin {"none", "written", "passthrough"}
  <2>1. HasAnswer(q) \/ HasBlock(q)
    BY <1>4, <1>6 DEF Forwarded, HasWritten
  <2>2. q.answers = <<>> /\ Append(<<>>, said) = One(said)
    BY <2>1, OneAnswer DEF HasAnswer, HasBlock
  <2>3. Wrote(w, said) = n
    BY <1>3, <2>2 DEF Wrote, Sound, Context
  <2>4. Closed(n)
    <3>1. n.answers = One(said) /\ n.oks = q.oks /\ n.models = q.models /\ n.children = q.children
      BY <1>3 DEF Sound, Context
    <3>2. CASE HasAnswer(q)
      <4>1. said = "ok" /\ q.oks = 1  BY <3>2 DEF HasAnswer, Block
      <4> QED BY <1>1, <3>1, <4>1 DEF Closed
    <3>3. CASE HasBlock(q)
      <4>1. said = q.result /\ said \in Block /\ q.oks \in {0, 1} /\ (q.oks = 1 => said = "filtered")
            /\ (said \in {"unserved", "upstream"} => Exhausted(q))
        BY <3>3 DEF HasBlock
      <4>2. said \notin {"ok", "cut"}  BY <4>1 DEF Block
      <4> QED BY <1>1, <3>1, <4>1, <4>2 DEF Closed, Exhausted
    <3> QED BY <2>1, <3>2, <3>3
  <2>5. /\ n.at \in {"pumping", "finalize"}
        /\ n.at = "pumping" => n.answers = One("ok") /\ n.oks = 1
    BY <1>3, <2>1 DEF HasAnswer, HasBlock, Block, Sound, Context
  <2>6. Staged(n)
    <3> HIDE DEF n
    <3> QED BY <2>4, <2>5 DEF Staged, Early
  <2>7. Sound(n)
    BY <1>3, <2>5, <2>6 DEF Sound, Context, Placed, Steered, Early, Nested
  <2> QED BY <1>6, <2>3, <2>7
<1> QED BY <1>5, <1>6

LEMMA PumpSound ==
  ASSUME NEW q, Sound(q), q.at = "pumping", NEW how \in {"ok", "cut"}
  PROVE  Sound([q EXCEPT !.at = "finalize", !.answers = <<how>>])
<1> DEFINE n == [q EXCEPT !.at = "finalize", !.answers = One(how)]
<1>1. how \in Answer /\ how \notin {"unserved", "upstream"}  BY DEF Answer
<1>2. One(how) \in Seq(Answer)  BY <1>1, OneAnswer
<1>3. n \in Context  BY <1>2 DEF Sound, Context, Phase
<1>4. q.oks = 1  BY DEF Sound, Staged
<1>5. Closed(n)
  BY <1>1, <1>3, <1>4 DEF Closed, Sound, Context
<1>6. Sound(n)
  BY <1>3, <1>5 DEF Sound, Context, Staged, Placed, Steered, Early, Nested
<1> QED BY <1>6 DEF One

LEMMA FinalizeSound ==
  ASSUME NEW q, Sound(q), q.at = "finalize"
  PROVE  Sound([q EXCEPT !.at = "done"])
<1> DEFINE n == [q EXCEPT !.at = "done"]
<1>1. n \in Context  BY DEF Sound, Context, Phase
<1>2. Closed(q)  BY DEF Sound, Staged
<1>3. Closed(n)  BY <1>1, <1>2 DEF Closed, Sound, Context, Exhausted
<1> QED BY <1>1, <1>3 DEF Sound, Context, Staged, Placed, Steered, Early, Nested

LEMMA ThrowsSound ==
  ASSUME NEW q, Sound(q), MayThrow(q)
  PROVE  Sound(IF Nested(q) THEN [q EXCEPT !.at = "children", !.router = q.entry, !.models = <<>>]
               ELSE Wrote([q EXCEPT !.at = "failed"], "crash"))
<1> DEFINE c == [q EXCEPT !.at = "children", !.router = q.entry, !.models = <<>>]
           w == [q EXCEPT !.at = "failed"]
           n == [w EXCEPT !.answers = One("crash")]
<1>1. "crash" \in Answer  BY DEF Answer
<1>2. One("crash") \in Seq(Answer) /\ Append(<<>>, "crash") = One("crash")
  BY <1>1, OneAnswer
<1>3. <<>> \in Seq(Models)  OBVIOUS
<1>4. c \in Context /\ w \in Context /\ n \in Context
  BY <1>2, <1>3 DEF Sound, Context, Phase
<1>5. q.answers = <<>> /\ q.oks \in {0, 1}
  BY DEF MayThrow, Sound, Staged, Early, HasAnswer, Forwarded
<1>6. CASE Nested(q)
  <2>1. q.at \in Early  BY <1>6 DEF Sound, Placed, Early, MayThrow
  <2>2. Sound(c)
    BY <1>4, <1>6, <2>1 DEF Sound, Context, Staged, Placed, Steered, Early, Nested
  <2> QED BY <1>6, <2>2
<1>7. CASE ~ Nested(q)
  <2>1. Wrote(w, "crash") = n
    BY <1>2, <1>4, <1>5 DEF Wrote, Sound, Context
  <2>2. Sound(n)
    BY <1>4, <1>5, <1>7 DEF Sound, Context, Staged, Placed, Steered, Early, Nested
  <2> QED BY <1>7, <2>1, <2>2
<1> QED BY <1>6, <1>7

-----------------------------------------------------------------------------
(* Every step.                                                              *)

\* A step that gives one request a sound context keeps them all sound.
LEMMA BecomesSound ==
  ASSUME req \in [Requests -> Context], \A r \in Requests : Sound(req[r]),
         NEW r \in Requests, NEW q, Sound(q), Becomes(r, q)
  PROVE  req' \in [Requests -> Context] /\ \A s \in Requests : Sound(req'[s])
<1>1. q \in Context  BY DEF Sound
<1>2. req' = [req EXCEPT ![r] = q]  BY DEF Becomes
<1>3. \A s \in Requests : req'[s] = IF s = r THEN q ELSE req[s]  BY <1>1, <1>2
<1> QED BY <1>1, <1>2, <1>3

LEMMA InitIInv == Init => IInv
<1> SUFFICES ASSUME Init PROVE IInv  OBVIOUS
<1>1. PICK rt \in Routers : req = [r \in Requests |-> [Fresh(rt, "openai") EXCEPT !.at = "idle"]]
  BY DEF Init
<1>2. Sound([Fresh(rt, "openai") EXCEPT !.at = "idle"])
  BY FreshSound
<1>3. [Fresh(rt, "openai") EXCEPT !.at = "idle"] \in Context
  BY <1>2 DEF Sound
<1>4. \A r \in Requests : req[r] = [Fresh(rt, "openai") EXCEPT !.at = "idle"]
  BY <1>1
<1>5. req \in [Requests -> Context]
  BY <1>1, <1>3
<1>6. \A r \in Requests : Sound(req[r])
  BY <1>2, <1>4
<1>7. memory = {} /\ lastSaid = [x \in Routers |-> "nothing"]
  BY DEF Init
<1> QED BY <1>5, <1>6, <1>7 DEF IInv, MemoryIsCurrent

\* Every step of a request leaves it with a sound context.
LEMMA StepSound ==
  ASSUME IInv, NEW r \in Requests, Step(r)
  PROVE  \E n : Sound(n) /\ Becomes(r, n)
<1> DEFINE q == req[r]
<1>q. Sound(q)  BY DEF IInv
<1>1. ASSUME NEW steer \in BOOLEAN, Admit(r, steer) PROVE \E n : Sound(n) /\ Becomes(r, n)
  BY <1>1, <1>q, AdmitSound DEF Admit
<1>2. ASSUME NEW block \in {"filtered", "limits", "written"}, Refuse(r, block)
      PROVE \E n : Sound(n) /\ Becomes(r, n)
  BY <1>2, <1>q, RefuseSound DEF Refuse
<1>3. CASE PrepareOrchestrator(r)
  BY <1>3, <1>q, PrepareOrchestratorSound DEF PrepareOrchestrator
<1>4. CASE ForwardRaw(r)
  BY <1>4, <1>q, ForwardRawSound DEF ForwardRaw
<1>5. CASE TryModels(r)
  BY <1>5, <1>q, TryModelsSound DEF TryModels
<1>6. ASSUME NEW order \in Orders(Offers[q.router]), Rank(r, order)
      PROVE \E n : Sound(n) /\ Becomes(r, n)
  BY <1>6, <1>q, RankSound DEF Rank
<1>7. ASSUME NEW block \in {"unserved", "limits", "recalled"}, NoneEligible(r, block)
      PROVE \E n : Sound(n) /\ Becomes(r, n)
  <2>1. q.at = "prepare" /\ q.models = <<>>
    BY <1>7, <1>q DEF NoneEligible, Sound, Placed
  <2> QED BY <1>7, <1>q, <2>1, BlockedSound DEF NoneEligible
<1>8. ASSUME NEW order \in Orders(Targets[q.router]), TryChildren(r, order)
      PROVE \E n : Sound(n) /\ Becomes(r, n)
  BY <1>8, <1>q, TryChildrenSound DEF TryChildren
<1>9. ASSUME NEW allowed \in BOOLEAN, NextChild(r, allowed)
      PROVE \E n : Sound(n) /\ Becomes(r, n)
  BY <1>9, <1>q, NextChildSound DEF NextChild
<1>10. CASE NoChildLeft(r)
  BY <1>10, <1>q, NoChildLeftSound DEF NoChildLeft
<1>11. CASE ModelGone(r) \/ \E refusal \in BOOLEAN : Fails(r, refusal)
  <2>1. q \in Context /\ q.merges \in {0, 1} /\ (q.merges = 1 => q.steer)
        /\ q.at \in {"models", "calling"} /\ q.models # <<>>
    BY <1>11, <1>q DEF ModelGone, Fails, Sound, Steered, Placed
  <2>2. ASSUME NEW x \in BOOLEAN
        PROVE  Sound([q EXCEPT !.at = "models", !.models = Tail(q.models), !.refused = x,
                               !.merges = q.merges])
    BY <1>q, <2>1, NextModelSound
  <2>3. CASE ModelGone(r)
    <3>1. q.at = "models" /\ q.refused \in BOOLEAN  BY <2>1, <2>3 DEF ModelGone, Context
    <3>2. [q EXCEPT !.models = Tail(@)]
            = [q EXCEPT !.at = "models", !.models = Tail(q.models), !.refused = q.refused,
                        !.merges = q.merges]
      BY <2>1, <3>1 DEF Context
    <3> QED BY <2>2, <2>3, <3>1, <3>2 DEF ModelGone
  <2>4. ASSUME NEW refusal \in BOOLEAN, Fails(r, refusal)
        PROVE \E n : Sound(n) /\ Becomes(r, n)
    <3>1. (q.refused \/ refusal) \in BOOLEAN  OBVIOUS
    <3>2. [q EXCEPT !.at = "models", !.models = Tail(@), !.refused = @ \/ refusal]
            = [q EXCEPT !.at = "models", !.models = Tail(q.models), !.refused = q.refused \/ refusal,
                        !.merges = q.merges]
      BY <2>1 DEF Context
    <3> QED BY <2>2, <2>4, <3>1, <3>2 DEF Fails
  <2> QED BY <1>11, <2>3, <2>4
<1>12. CASE OverLimit(r)
  <2> DEFINE t == [q EXCEPT !.models = Tail(@)]
  <2>1. q \in Context /\ q.at = "models" /\ q.models # <<>> /\ q.refused \in BOOLEAN
        /\ q.merges \in {0, 1} /\ (q.merges = 1 => q.steer)
    BY <1>12, <1>q DEF OverLimit, Sound, Steered, Context
  <2>2. Tail(q.models) \in Seq(Models)  BY <2>1, HeadTailProperties DEF Context
  <2>3. t \in Context /\ t.merges = q.merges /\ t.steer = q.steer  BY <2>1, <2>2 DEF Context
  <2>4. PICK k \in {0, 1} : Merged(t) = [t EXCEPT !.merges = k] /\ (k = 1 <=> t.steer)
    BY <2>1, <2>3, MergedOnce
  <2>5. [t EXCEPT !.merges = k]
          = [q EXCEPT !.at = "models", !.models = Tail(q.models), !.refused = q.refused, !.merges = k]
    BY <2>1 DEF Context
  <2>6. k = 1 => q.steer  BY <2>3, <2>4
  <2>7. Sound([q EXCEPT !.at = "models", !.models = Tail(q.models), !.refused = q.refused,
                        !.merges = k])
    BY <1>q, <2>1, <2>6, NextModelSound
  <2>8. Sound(Merged(t))
    BY <2>4, <2>5, <2>7
  <2> QED BY <1>12, <2>8 DEF OverLimit
<1>13. CASE Call(r)
  <2> DEFINE t == [q EXCEPT !.at = "calling"]
  <2>1. q \in Context /\ q.at = "models" /\ q.models # <<>>
        /\ q.merges \in {0, 1} /\ (q.merges = 1 => q.steer)
    BY <1>13, <1>q DEF Call, Sound, Steered
  <2>2. t \in Context /\ t.merges = q.merges /\ t.steer = q.steer  BY <2>1 DEF Context, Phase
  <2>3. PICK k \in {0, 1} : Merged(t) = [t EXCEPT !.merges = k] /\ (k = 1 <=> t.steer)
    BY <2>1, <2>2, MergedOnce
  <2>4. [t EXCEPT !.merges = k] = [q EXCEPT !.at = "calling", !.merges = k]
    BY <2>1 DEF Context
  <2>5. k = 1 <=> q.steer  BY <2>2, <2>3
  <2>6. Sound([q EXCEPT !.at = "calling", !.merges = k])
    BY <1>q, <2>1, <2>5, CallSound
  <2>7. Sound(Merged(t))
    BY <2>3, <2>4, <2>6
  <2> QED BY <1>13, <2>7 DEF Call
<1>14. CASE NoModelLeft(r)
  BY <1>14, <1>q, BlockedSound DEF NoModelLeft
<1>15. CASE \/ \E result \in {"json", "stream"} : Answers(r, result)
            \/ ForwardsAnswer(r) \/ ForwardsRefusal(r) \/ Unreachable(r)
  <2>1. q \in Context /\ q.at = "calling" /\ q.answers = <<>> /\ q.oks = 0
    BY <1>15, <1>q DEF Answers, ForwardsAnswer, ForwardsRefusal, Unreachable, Sound, Staged, Early
  <2>2. q.oks + 1 = 1 /\ {"json", "stream", "passthrough"} \subseteq Result
        /\ {"ok", "refused", "unreachable"} \subseteq Answer
    BY <2>1 DEF Result, Answer
  <2>3. ASSUME NEW result \in {"json", "stream"}, Answers(r, result)
        PROVE \E n : Sound(n) /\ Becomes(r, n)
    <3> DEFINE p == [q EXCEPT !.result = result, !.oks = @ + 1]
               n == [q EXCEPT !.at = "postprocess", !.router = q.entry, !.models = Tail(q.models),
                              !.result = result, !.oks = q.oks + 1, !.answers = <<>>]
    <3>1. Sound(n)  BY <1>q, <2>1, <2>2, OneAnswer, ProducedSound
    <3>2. [p EXCEPT !.at = "postprocess", !.router = p.entry, !.models = Tail(@)] = n
      BY <2>1 DEF Context
    <3> QED BY <2>3, <3>1, <3>2 DEF Answers, Produced
  <2>4. CASE ForwardsAnswer(r)
    <3> DEFINE w == [q EXCEPT !.result = "passthrough", !.oks = @ + 1]
               p == Wrote(w, "ok")
               n == [q EXCEPT !.at = "postprocess", !.router = q.entry, !.models = Tail(q.models),
                              !.result = "passthrough", !.oks = q.oks + 1, !.answers = One("ok")]
    <3>1. Sound(n)  BY <1>q, <2>1, <2>2, OneAnswer, ProducedSound
    <3>2. p = [w EXCEPT !.answers = One("ok")]  BY <2>1, OneAnswer DEF Wrote, Context
    <3>3. [p EXCEPT !.at = "postprocess", !.router = p.entry, !.models = Tail(@)] = n
      BY <2>1, <3>2 DEF Context
    <3> QED BY <2>4, <3>1, <3>3 DEF ForwardsAnswer, Produced
  <2>5. ASSUME NEW said \in {"refused", "unreachable"},
               Produced(r, Wrote([q EXCEPT !.result = "passthrough"], said))
        PROVE \E n : Sound(n) /\ Becomes(r, n)
    <3> DEFINE w == [q EXCEPT !.result = "passthrough"]
               p == Wrote(w, said)
               n == [q EXCEPT !.at = "postprocess", !.router = q.entry, !.models = Tail(q.models),
                              !.result = "passthrough", !.oks = 0, !.answers = One(said)]
    <3>1. Sound(n)  BY <1>q, <2>1, <2>2, OneAnswer, ProducedSound
    <3>2. p = [w EXCEPT !.answers = One(said)]  BY <2>1, OneAnswer DEF Wrote, Context
    <3>3. [p EXCEPT !.at = "postprocess", !.router = p.entry, !.models = Tail(@)] = n
      BY <2>1, <3>2 DEF Context
    <3> QED BY <2>5, <3>1, <3>3 DEF Produced
  <2>6. CASE ForwardsRefusal(r)  BY <2>5, <2>6 DEF ForwardsRefusal
  <2>7. CASE Unreachable(r)  BY <2>5, <2>7 DEF Unreachable
  <2> QED BY <1>15, <2>3, <2>4, <2>6, <2>7
<1>16. CASE Filter(r)  BY <1>16, <1>q, FilterSound DEF Filter
<1>17. CASE Postprocess(r)  BY <1>17, <1>q, PostprocessSound DEF Postprocess
<1>18. CASE Egress(r)  BY <1>18, <1>q, EgressSound DEF Egress
<1>19. CASE Finalize(r)  BY <1>19, <1>q, FinalizeSound DEF Finalize
<1>20. CASE \E how \in {"ok", "cut"} : Pump(r, how)  BY <1>20, <1>q, PumpSound DEF Pump
<1>21. CASE Throws(r)  BY <1>21, <1>q, ThrowsSound DEF Throws
<1>22. CASE LeftOpen(r)  BY <1>22, <1>q, BrokenSound DEF LeftOpen
<1> QED
  BY <1>1, <1>2, <1>3, <1>4, <1>5, <1>6, <1>7, <1>8, <1>9, <1>10, <1>11, <1>12, <1>13, <1>14,
     <1>15, <1>16, <1>17, <1>18, <1>19, <1>20, <1>21, <1>22 DEF Step

\* What is remembered changes together with what was said last.
LEMMA StepRemembers ==
  ASSUME IInv, NEW r \in Requests, Step(r)
  PROVE  /\ memory' \subseteq Routers
         /\ lastSaid' \in [Routers -> {"nothing", "ok", "refusal"}]
         /\ MemoryIsCurrent'
<1> DEFINE rt == req[r].router
<1>1. /\ req[r] \in Context /\ rt \in Routers /\ memory \subseteq Routers
      /\ lastSaid \in [Routers -> {"nothing", "ok", "refusal"}]
      /\ \A x \in memory : lastSaid[x] = "refusal"
  BY DEF IInv, Sound, Context, MemoryIsCurrent
<1>2. \/ UNCHANGED <<memory, lastSaid>>
      \/ memory' = memory \ {rt} /\ lastSaid' = [lastSaid EXCEPT ![rt] = "ok"]
      \/ memory' = memory \cup {rt} /\ lastSaid' = [lastSaid EXCEPT ![rt] = "refusal"]
      \/ memory' = memory \ {rt} /\ UNCHANGED lastSaid
  <2>1. ASSUME NEW result \in {"json", "stream"}, Answers(r, result) PROVE <1>2
    <3>1. [req[r] EXCEPT !.result = result, !.oks = @ + 1].router = rt  BY <1>1 DEF Context
    <3> QED BY <2>1, <3>1 DEF Answers, Produced
  <2>2. ASSUME NEW refusal \in BOOLEAN, Fails(r, refusal) PROVE <1>2
    BY <2>2 DEF Fails
  <2>3. CASE ForwardsAnswer(r)
    <3>1. Wrote([req[r] EXCEPT !.result = "passthrough", !.oks = @ + 1], "ok").router = rt
      BY <1>1 DEF Context, Wrote
    <3> QED BY <2>3, <3>1 DEF ForwardsAnswer, Produced
  <2>4. CASE ForwardsRefusal(r) \/ Unreachable(r)
    <3>1. \A said : Wrote([req[r] EXCEPT !.result = "passthrough"], said).router = rt
      BY <1>1 DEF Context, Wrote
    <3> QED BY <2>4, <3>1 DEF ForwardsRefusal, Unreachable, Produced
  <2> QED
    BY <2>1, <2>2, <2>3, <2>4
       DEF Step, Admit, Refuse, PrepareOrchestrator, ForwardRaw, TryModels, Rank, NoneEligible,
           TryChildren, NextChild, NoChildLeft, ModelGone, OverLimit, Call, NoModelLeft, Filter,
           Postprocess, Egress, Finalize, Pump, Throws, LeftOpen
<1> QED BY <1>1, <1>2 DEF MemoryIsCurrent

\* The client of an answer left open goes away.
LEMMA GivesUpSound ==
  ASSUME IInv, NEW r \in Requests, GivesUp(r)
  PROVE  /\ \E n : Sound(n) /\ Becomes(r, n)
         /\ memory' = memory \ {req[r].router} /\ UNCHANGED lastSaid
<1> DEFINE q == req[r]
           n == [q EXCEPT !.at = "postprocess", !.router = q.entry, !.models = Tail(q.models),
                          !.result = "passthrough", !.oks = 1, !.answers = One("cut")]
<1>1. Sound(q) /\ q \in Context /\ q.at = "hung" /\ q.result = "passthrough"
      /\ q.answers = One("cut") /\ q.oks = 1
  BY DEF IInv, GivesUp, Sound, Staged
<1>2. "passthrough" \in Result /\ One("cut") \in Seq(Answer)
  BY OneAnswer DEF Result, Answer
<1>3. Sound(n)  BY <1>1, <1>2, ProducedSound
<1>4. [q EXCEPT !.at = "postprocess", !.router = q.entry, !.models = Tail(@)] = n
  BY <1>1 DEF Context
<1> QED BY <1>3, <1>4 DEF GivesUp, Produced

LEMMA NextIInv == IInv /\ [Next]_vars => IInv'
<1> SUFFICES ASSUME IInv, [Next]_vars PROVE IInv'  OBVIOUS
<1>1. ASSUME NEW r \in Requests, Step(r) PROVE IInv'
  <2>1. req' \in [Requests -> Context] /\ \A s \in Requests : Sound(req'[s])
    BY <1>1, StepSound, BecomesSound DEF IInv
  <2> QED BY <1>1, <2>1, StepRemembers DEF IInv
<1>2. ASSUME NEW r \in Requests, NEW rt \in Routers, NEW ln \in {"openai", "anthropic"},
             Arrive(r, rt, ln)
      PROVE IInv'
  <2>1. req' \in [Requests -> Context] /\ \A s \in Requests : Sound(req'[s])
    BY <1>2, FreshSound, BecomesSound DEF IInv, Arrive
  <2> QED BY <1>2, <2>1 DEF IInv, Arrive, MemoryIsCurrent
<1>3. ASSUME NEW rt \in Routers, Expire(rt) PROVE IInv'
  BY <1>3 DEF IInv, Expire, MemoryIsCurrent
<1>4. CASE UNCHANGED vars
  BY <1>4 DEF IInv, vars, MemoryIsCurrent
<1>5. ASSUME NEW r \in Requests, GivesUp(r) PROVE IInv'
  <2>1. req' \in [Requests -> Context] /\ \A s \in Requests : Sound(req'[s])
    BY <1>5, GivesUpSound, BecomesSound DEF IInv
  <2> QED BY <1>5, <2>1, GivesUpSound DEF IInv, MemoryIsCurrent
<1>6. ASSUME NEW r \in Requests, BringsDown(r) PROVE IInv'
  <2> DEFINE n == Wrote([req[r] EXCEPT !.at = "lost", !.oks = @ + 1], "cut")
  <2>1. Sound(n)  BY <1>6, BrokenSound DEF IInv, BringsDown
  <2>2. \A s \in Requests : Sound(Lost(req[s]))  BY LostSound DEF IInv
  <2>3. req' = [s \in Requests |-> IF s = r THEN n ELSE Lost(req[s])]
    BY <1>6 DEF BringsDown
  <2>4. \A s \in Requests : Sound(req'[s])
    <3> HIDE DEF n
    <3> QED BY <2>1, <2>2, <2>3
  <2>5. req' \in [Requests -> Context]  BY <2>3, <2>4 DEF Sound
  <2> QED BY <1>6, <2>4, <2>5 DEF IInv, BringsDown, MemoryIsCurrent
<1> QED BY <1>1, <1>2, <1>3, <1>4, <1>5, <1>6 DEF Next

-----------------------------------------------------------------------------
(* The theorems.                                                            *)

\* The contexts of the requests are well-formed in every run.
THEOREM TypeCorrect == Spec => []TypeOK
<1>1. IInv => TypeOK  BY DEF IInv, TypeOK
<1> QED BY InitIInv, NextIInv, <1>1, PTL DEF Spec

\* A client gets one answer, whoever writes it, and none twice: for any
\* candidates, orchestrators, verbatim forwards, guardrails and exceptions.
THEOREM OneAnswerEach == Spec => []AnsweredOnce
<1>1. IInv => AnsweredOnce
  <2> SUFFICES ASSUME IInv, NEW r \in Requests
               PROVE  /\ Len(req[r].answers) <= 1
                      /\ req[r].at \in {"done", "failed"} => Len(req[r].answers) = 1
    BY DEF AnsweredOnce
  <2> DEFINE q == req[r]
  <2>1. q \in Context /\ Staged(q)  BY DEF IInv, Sound
  <2>2. q.answers = <<>> \/ \E a : q.answers = One(a)
    BY <2>1 DEF Left, Context, Phase, Staged, Early, HasAnswer, Forwarded, HasBlock, HasWritten, Closed
  <2>3. q.at \in {"done", "failed"} => \E a : q.answers = One(a)
    BY <2>1 DEF Staged, Closed
  <2>4. (\E a : q.answers = One(a)) => Len(q.answers) = 1
    BY OneAnswer
  <2>5. q.answers = <<>> => Len(q.answers) = 0
    BY OneAnswer
  <2> HIDE DEF q
  <2>6. Len(q.answers) \in {0, 1}  BY <2>2, <2>4, <2>5
  <2>7. \A n \in {0, 1} : n <= 1  OBVIOUS
  <2>8. Len(q.answers) <= 1  BY <2>6, <2>7, Zenon
  <2> QED BY <2>3, <2>4, <2>8 DEF q
<1> QED BY InitIInv, NextIInv, <1>1, PTL DEF Spec

\* No model is called for a client that was answered.
THEOREM NoCallAfterAnswer == Spec => []NoCallOnceAnswered
<1>1. IInv => NoCallOnceAnswered
  BY DEF IInv, Sound, Staged, Early, NoCallOnceAnswered
<1> QED BY InitIInv, NextIInv, <1>1, PTL DEF Spec

\* Fallbacks and orchestrators merge the text of the guardrails once.
THEOREM SteeredExactlyOnce == Spec => []SteeredOnce
<1>1. IInv => SteeredOnce
  BY DEF IInv, Sound, Context, Steered, SteeredOnce
<1> QED BY InitIInv, NextIInv, <1>1, PTL DEF Spec

\* One answer is paid for at most, and what was paid for is what is written.
THEOREM NothingIsWasted == Spec => []NothingWasted
<1>1. IInv => NothingWasted
  <2> SUFFICES ASSUME IInv, NEW r \in Requests
               PROVE  /\ req[r].oks <= 1
                      /\ req[r].answers \in {One("ok"), One("cut")} => req[r].oks = 1
                      /\ req[r].at = "done" /\ req[r].oks = 1 =>
                           req[r].answers \in {One("ok"), One("cut"), One("filtered")}
    BY DEF NothingWasted, One
  <2> DEFINE q == req[r]
  <2>1. q \in Context /\ Staged(q)  BY DEF IInv, Sound
  <2>2. CASE q.at \in {"finalize", "done"}
    <3>1. PICK a \in Answer : /\ q.answers = One(a) /\ q.oks \in {0, 1}
                              /\ a \in {"ok", "cut"} => q.oks = 1
                              /\ q.oks = 1 => a \in {"ok", "cut", "filtered"}
      BY <2>1, <2>2 DEF Staged, Closed
    <3>2. q.answers \in {One("ok"), One("cut")} => a \in {"ok", "cut"}
      BY <3>1, OneAnswer
    <3>3. q.oks = 1 => q.answers \in {One("ok"), One("cut"), One("filtered")}
      BY <3>1
    <3> QED BY <3>1, <3>2, <3>3
  <2>3. CASE q.at \in Early \cup {"idle"}
    BY <2>1, <2>3, OneAnswer DEF Staged, Early
  <2>4. CASE q.at \in {"hung", "postprocess", "egress", "pumping", "failed", "lost"}
    BY <2>1, <2>4, OneAnswer DEF Staged, HasAnswer, Forwarded, HasBlock, HasWritten, Left
  <2> QED BY <2>1, <2>2, <2>3, <2>4 DEF Context, Phase, Early
<1> QED BY InitIInv, NextIInv, <1>1, PTL DEF Spec

\* The gateway gives up only when no model and no router is left to try.
THEOREM ErrorsAreLast == Spec => []ErrorsComeLast
<1>1. IInv => ErrorsComeLast
  <2> SUFFICES ASSUME IInv, NEW r \in Requests,
                      req[r].answers \in {One("unserved"), One("upstream")}
               PROVE  Exhausted(req[r])
    BY DEF ErrorsComeLast, One, Exhausted
  <2> DEFINE q == req[r]
  <2>1. q \in Context /\ Staged(q)  BY DEF IInv, Sound
  <2>2. q.at \in {"finalize", "done", "lost"}
    BY <2>1, OneAnswer DEF Context, Phase, Staged, Early, HasAnswer, Forwarded, HasBlock, HasWritten
  <2>3. Closed(q) \/ Left(q)  BY <2>1, <2>2 DEF Staged
  <2> QED BY <2>3, OneAnswer DEF Closed, Left
<1> QED BY InitIInv, NextIInv, <1>1, PTL DEF Spec

\* A remembered error is what the provider said last, for any number of
\* requests that share the memory.
THEOREM MemoryStaysCurrent == Spec => []MemoryIsCurrent
<1>1. IInv => MemoryIsCurrent  BY DEF IInv
<1> QED BY InitIInv, NextIInv, <1>1, PTL DEF Spec
=============================================================================
