----------------------------- MODULE TurnLedger -----------------------------
(***************************************************************************)
(* What the budget of a chat turn promises, without runs, workers, leases  *)
(* or messages: one reservation that is settled once.                      *)
(*                                                                         *)
(* The provider is asked under a reservation that was activated and then   *)
(* started.  A reservation is given back only before that, a started one   *)
(* ends as an error or is reconciled with an answer, and no end is left    *)
(* again.  Money is charged by the reconciliation alone; the conversation  *)
(* counts the usage then or later, once, and never without it.             *)
(***************************************************************************)
EXTENDS Naturals

VARIABLES
    reservation, \* how far the reservation of the turn is
    calls,       \* requests sent to the provider
    charged,     \* charges of the provider key
    counted,     \* entries in the totals of the conversation
    derived      \* the turn needs no provider

lvars == <<reservation, calls, charged, counted, derived>>

LInit ==
    /\ reservation = "RESERVED" /\ derived \in BOOLEAN
    /\ calls = 0 /\ charged = 0 /\ counted = 0

Moves(from, to) == reservation \in from /\ reservation' = to

Activate ==
    /\ ~derived /\ Moves({"RESERVED"}, "ACTIVATED")
    /\ UNCHANGED <<calls, charged, counted, derived>>

Send ==
    /\ Moves({"ACTIVATED"}, "TRANSPORT_STARTED")
    /\ UNCHANGED <<calls, charged, counted, derived>>

(* The request leaves even if the turn has failed since it was started.     *)
Ask ==
    /\ reservation \in {"TRANSPORT_STARTED", "TRANSPORT_ERROR"}
    /\ calls = 0 /\ calls' = 1
    /\ UNCHANGED <<reservation, charged, counted, derived>>

GiveBack ==
    /\ Moves({"RESERVED", "ACTIVATED"}, "RELEASED")
    /\ UNCHANGED <<calls, charged, counted, derived>>

Fail ==
    /\ Moves({"TRANSPORT_STARTED"}, "TRANSPORT_ERROR")
    /\ UNCHANGED <<calls, charged, counted, derived>>

Reconcile ==
    /\ calls = 1 /\ Moves({"TRANSPORT_STARTED"}, "RECONCILED")
    /\ charged = 0 /\ charged' = 1 /\ counted' \in {counted, 1}
    /\ UNCHANGED <<calls, derived>>

(* A turn without a provider is reconciled when its answer is persisted.    *)
Derive ==
    /\ derived /\ Moves({"RESERVED"}, "RECONCILED")
    /\ counted' = 1
    /\ UNCHANGED <<calls, charged, derived>>

Count ==
    /\ reservation = "RECONCILED" /\ counted = 0 /\ counted' = 1
    /\ UNCHANGED <<reservation, calls, charged, derived>>

LNext == Activate \/ Send \/ Ask \/ GiveBack \/ Fail \/ Reconcile \/ Derive \/ Count

LSpec == LInit /\ [][LNext]_lvars
=============================================================================
