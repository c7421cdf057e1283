-------------------------- MODULE MCGovernedChange --------------------------
(* An instance of GovernedChange: one proposal for one row, one worker of   *)
(* the reconciliation and two other sessions.                               *)
EXTENDS GovernedChange

CONSTANTS g1, w1, c1, c2

OnePlan    == {g1}
MCWorkers  == {w1}
TwoClients == {c1, c2}
=============================================================================
