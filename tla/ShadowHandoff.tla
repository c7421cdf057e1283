---------------------------- MODULE ShadowHandoff ----------------------------
(***************************************************************************)
(* What the outbox promises about one L3 decision, without consumers,      *)
(* locks or retries: a committed request is captured by a shadow trade at  *)
(* most once, or declined.                                                 *)
(*                                                                         *)
(* A capture is forever.  A decision processed alone is settled once: when *)
(* it was declined no shadow follows.  A decision processed in a batch can *)
(* still be captured after it was declined (LateCapture), because the      *)
(* group's transaction never looks at the event's status again.            *)
(***************************************************************************)
CONSTANT Decision

VARIABLES handoff, batched

hvars == <<handoff, batched>>

HInit ==
    /\ handoff = [d \in Decision |-> "absent"]
    /\ batched = [d \in Decision |-> FALSE]

Settle(d, from, to) == handoff[d] = from /\ handoff' = [handoff EXCEPT ![d] = to]

Request(d, b) ==
    /\ Settle(d, "absent", "requested")
    /\ batched' = [batched EXCEPT ![d] = b]

Capture(d) == Settle(d, "requested", "captured") /\ UNCHANGED batched
Decline(d) == Settle(d, "requested", "declined") /\ UNCHANGED batched
LateCapture(d) ==
    /\ batched[d]
    /\ Settle(d, "declined", "captured")
    /\ UNCHANGED batched

HNext == \E d \in Decision :
            \/ \E b \in BOOLEAN : Request(d, b)
            \/ Capture(d) \/ Decline(d) \/ LateCapture(d)

HSpec == HInit /\ [][HNext]_hvars
=============================================================================
