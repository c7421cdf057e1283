----------------------------- MODULE MCGraphRun -----------------------------
(* An instance of GraphRun: two workers and one path of each handler: in    *)
(* the chat the proposal with its two gates, a provider call between them   *)
(* and a governed write behind; a gate before a node in a canonical graph.  *)
EXTENDS GraphRun

CONSTANTS w1, w2

MCWorkers == {w1, w2}
ProposalPath == <<"gate", "provider", "gate", "execute">>
MCGraphs ==
    {[handler |-> "chat",      nodes |-> ProposalPath],
     [handler |-> "canonical", nodes |-> <<"gate", "node">>]}
=============================================================================
