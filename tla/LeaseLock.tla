------------------------------ MODULE LeaseLock ------------------------------
(***************************************************************************)
(* What the leader election promises, without supervisors, shutdown,       *)
(* symbols or refreshes: a key with a lease, the terms under it, and what  *)
(* is only open within a term.                                             *)
(*                                                                         *)
(* The key is won when it is free.  It is taken from its owner by the      *)
(* owner's own resignation, which comes after the owner has shut what it   *)
(* had open, or by the expiry of the lease: under a live term, which is    *)
(* late from then on and has no key, or when the owner has no term.        *)
(***************************************************************************)
EXTENDS Naturals

CONSTANTS Instance, NoInstance

VARIABLES
    owner, \* of the key
    term,  \* per replica: "none", "leased" or "late"
    open,  \* replicas that hold something open
    lapses \* leases that have expired under a live term

evars == <<owner, term, open, lapses>>

EInit ==
    /\ owner = NoInstance /\ open = {} /\ lapses = 0
    /\ term = [i \in Instance |-> "none"]

Moves(i, to) == term' = [term EXCEPT ![i] = to]
InTerm(i) == term[i] # "none"

(* The winner may not hear of it. *)
Win(i) ==
    /\ owner = NoInstance /\ owner' = i
    /\ ~InTerm(i) /\ (Moves(i, "leased") \/ UNCHANGED term)
    /\ UNCHANGED <<open, lapses>>

Open(i) ==
    /\ InTerm(i) /\ open' = open \cup {i}
    /\ UNCHANGED <<owner, term, lapses>>

Shut(i) ==
    /\ open' = open \ {i}
    /\ UNCHANGED <<owner, term, lapses>>

(* The key may stay behind, and the key of another replica always does. *)
Resign(i) ==
    /\ InTerm(i) /\ i \notin open /\ Moves(i, "none")
    /\ owner' \in {owner, IF owner = i THEN NoInstance ELSE owner}
    /\ UNCHANGED <<open, lapses>>

Die(i) ==
    /\ Moves(i, "none") /\ open' = open \ {i}
    /\ UNCHANGED <<owner, lapses>>

ExpireLate(i) ==
    /\ owner = i /\ term[i] = "leased"
    /\ owner' = NoInstance /\ Moves(i, "late") /\ lapses' = lapses + 1
    /\ UNCHANGED open

ExpireOrphan(i) ==
    /\ owner = i /\ ~InTerm(i)
    /\ owner' = NoInstance
    /\ UNCHANGED <<term, open, lapses>>

ENext == \E i \in Instance :
    \/ Win(i) \/ Open(i) \/ Shut(i) \/ Resign(i) \/ Die(i)
    \/ ExpireLate(i) \/ ExpireOrphan(i)

ESpec == EInit /\ [][ENext]_evars
=============================================================================
