---------------------------- MODULE MCResilience ----------------------------
(***************************************************************************)
(* Small instances of Resilience for TLC, and the fairness and liveness    *)
(* the runs check beside the properties of the module.                     *)
(***************************************************************************)
EXTENDS Resilience, TLC

CONSTANTS r1, r2, p1, p2, c1, c2, chat

\* Two models behind two connections; one router tries both.
TwoModels      == {1, 2}
OneConnectionEach == 1 :> c1 @@ 2 :> c2
ChatBoth       == chat :> <<1, 2>>
NoRetryAfter   == {NoTime}
ProviderOne    == {[level |-> "provider", id |-> p1]}
ConnectionOne  == {[level |-> "connection", id |-> c1]}

\* Requests differ only by name; used where no liveness property is checked.
AnyRequest == Permutations(Requests)

\* Two models of one provider, each behind its own connection.
SharedProvider == 1 :> p1 @@ 2 :> p1

\* A router with a single model.
OneModel       == {1}
OneProvider    == 1 :> p1
OneConnection  == 1 :> c1
ChatOne        == chat :> <<1>>

-----------------------------------------------------------------------------
(* Liveness.  Clients keep sending requests that limits and policies let    *)
(* through, a request that is routed goes on until it ends, and a request   *)
(* that keeps calling gets an answer now and then.                          *)

Goes(r) == Skip(r) \/ Attempt(r) \/ Succeed(r) \/ EndUnrecorded(r)
             \/ \E f \in Faults, ra \in RetryAfters : Fail(r, f, ra)

Fairness ==
  \A r \in Requests :
    /\ WF_vars(\E rt \in Routers : Route(r, rt) /\ plan'[r] # <<>>)
    /\ WF_vars(Goes(r))
    /\ SF_vars(Attempt(r))
    /\ SF_vars(Succeed(r))

LiveSpec == Spec /\ Fairness

\* A breaker never stays half-open for ever.  filter.ts:66-68 withholds the
\* probe where it would be "wedging the breaker half-open forever".
HalfOpenResolves ==
  \A k \in Key : entries[k].state = "half-open" ~> entries[k].state # "half-open"
=============================================================================
