---------------------------- MODULE DurableWrites ----------------------------
(***************************************************************************)
(* What the persistence queue promises about the database, without queue,  *)
(* workers, producers or shutdown: each message is a transaction that is   *)
(* committed at most MaxAttempts times and only while it is in hand.  A    *)
(* message that is done was committed, one that was dropped never was, and *)
(* of one that was given up nobody knows.                                  *)
(***************************************************************************)
EXTENDS Naturals

CONSTANTS
    Message, NoMessage,
    Field,      \* the columns that messages write
    Writes,     \* the fields each message carries
    InsertOnly, \* messages that only fill what is not there
    MaxAttempts

VARIABLES
    state,  \* of each message
    row,    \* who wrote each field last
    applied \* how often each message was committed

dvars == <<state, row, applied>>

DInit ==
    /\ state = [m \in Message |-> "waiting"]
    /\ row = [f \in Field |-> NoMessage]
    /\ applied = [m \in Message |-> 0]

Become(S, from, to) ==
    /\ \A m \in S : state[m] \in from
    /\ state' = [m \in Message |-> IF m \in S THEN to ELSE state[m]]

Begin(m) == Become({m}, {"waiting"}, "taken") /\ UNCHANGED <<row, applied>>

Sets(m, f) == f \in Writes[m] /\ (m \in InsertOnly => row[f] = NoMessage)

Write(m) ==
    /\ \E to \in {"taken", "done", "unknown"} : Become({m}, {"taken"}, to)
    /\ applied[m] < MaxAttempts
    /\ applied' = [applied EXCEPT ![m] = @ + 1]
    /\ row' = [f \in Field |-> IF Sets(m, f) THEN m ELSE row[f]]

Drop(S) == Become(S, {"waiting"}, "dropped") /\ UNCHANGED <<row, applied>>

GiveUp(S) ==
    Become(S, {"waiting", "taken"}, "unknown") /\ UNCHANGED <<row, applied>>

DNext ==
    \/ \E m \in Message : Begin(m) \/ Write(m)
    \/ \E S \in SUBSET Message : Drop(S) \/ GiveUp(S)

DSpec == DInit /\ [][DNext]_dvars
=============================================================================
