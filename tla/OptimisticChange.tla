-------------------------- MODULE OptimisticChange --------------------------
(***************************************************************************)
(* What governed changes promise about one document, without sessions,     *)
(* locks, caches or markers: a change is made to the document it was       *)
(* proposed for or not at all, and is taken back only while it stands.     *)
(*                                                                         *)
(* Apply and Revert compare and set.  There is one weakness: who asked for *)
(* a rollback before it was done may do it again (RevertAgain) when the    *)
(* document is the candidate once more, because it decides from the plan   *)
(* as it was when it asked.                                                *)
(***************************************************************************)
EXTENDS Naturals

CONSTANTS
    Plans, \* changes; a change also stands for the document it makes
    Docs   \* all documents

VARIABLES
    doc,   \* the document
    phase, \* per change: how far it is
    from,  \* per change: the document it was proposed for
    edits  \* writes of the document by anybody else

ovars == <<doc, phase, from, edits>>

OInit ==
    /\ doc \in Docs /\ from \in [Plans -> Docs]
    /\ phase = [p \in Plans |-> "ABSENT"]
    /\ edits = 0

Moves(p, a, b) == phase[p] = a /\ phase' = [phase EXCEPT ![p] = b]

Propose(p) ==
    /\ Moves(p, "ABSENT", "DRY_RUN")
    /\ from' = [from EXCEPT ![p] = doc]
    /\ UNCHANGED <<doc, edits>>

Discard(p) == Moves(p, "DRY_RUN", "STALE") /\ UNCHANGED <<doc, from, edits>>

Apply(p) ==
    /\ Moves(p, "DRY_RUN", "EXECUTED")
    /\ doc = from[p] /\ doc' = p
    /\ UNCHANGED <<from, edits>>

Revert(p) ==
    /\ Moves(p, "EXECUTED", "ROLLED_BACK")
    /\ doc = p /\ doc' = from[p]
    /\ UNCHANGED <<from, edits>>

RevertAgain(p) ==
    /\ phase[p] = "ROLLED_BACK"
    /\ doc = p /\ doc' = from[p]
    /\ UNCHANGED <<phase, from, edits>>

Overwrite(d) ==
    /\ doc' = d /\ edits' = edits + 1
    /\ UNCHANGED <<phase, from>>

ONext ==
    \/ \E p \in Plans :
           Propose(p) \/ Discard(p) \/ Apply(p) \/ Revert(p) \/ RevertAgain(p)
    \/ \E d \in Docs : Overwrite(d)

OSpec == OInit /\ [][ONext]_ovars
=============================================================================
