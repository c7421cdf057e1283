----------------------------- MODULE MCChatTurn -----------------------------
(* An instance of ChatTurn: two workers; an analysis with a provider call,  *)
(* a child analysis behind its confirmation, and a proposal with its two    *)
(* gates, a provider call between them and a governed write behind.         *)
EXTENDS ChatTurn

CONSTANTS w1, w2

MCWorkers == {w1, w2}
AnalysisPath == <<"provider", "persist", "node">>
ChildPath    == <<"gate", "node", "persist">>
ProposalPath == <<"gate", "provider", "gate", "execute", "persist">>
MCGraphs == {[handler |-> "chat", nodes |-> path] :
                path \in {AnalysisPath, ChildPath, ProposalPath}}
=============================================================================
