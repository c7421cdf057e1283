-------------------------- MODULE MCOrderExecution --------------------------
(* An instance of OrderExecution: two overlapping buy cycles and one        *)
(* evaluate, or one buy cycle alone.                                        *)
EXTENDS OrderExecution, TLC

CONSTANTS b1, b2, e1, p1, p2

TwoBuyers   == {b1, b2}
OneBuyer    == {b1}
Evaluator   == {e1}
NoEvaluator == {}
MCProfiles  == {p1, p2}
OneProfile  == {p1}
(* Cycles of one kind are alike, and so are profiles.                       *)
MCSymmetry  == Permutations(TwoBuyers) \union Permutations(MCProfiles)
=============================================================================
