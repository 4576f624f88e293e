------------------------------- MODULE MCProxy -------------------------------
(* Proxy with an orchestrator over two routers, one of which has a model that *)
(* is forwarded verbatim, and two passthrough routers, for TLC.               *)
EXTENDS Proxy

CONSTANTS r1, plain, mixed, orch, pass, raw, gpt, claude

Kinds   == [rt \in Routers |-> CASE rt = orch -> "orchestrator"
                                 [] rt \in {pass, raw} -> "passthrough"
                                 [] OTHER -> "router"]
Models2 == [rt \in Routers |-> CASE rt = plain -> {gpt}
                                 [] rt = mixed -> {gpt, claude}
                                 [] rt \in {pass, raw} -> {gpt}
                                 [] OTHER -> {}]
Forward == [rt \in Routers |-> IF rt = orch THEN {plain, mixed} ELSE {}]
=============================================================================
