---------------------------- MODULE GateWsLeader ----------------------------
(***************************************************************************)
(* Leader election of the Gate.io WebSocket ingestion.                     *)
(*                                                                         *)
(* Every replica runs a supervisor that competes for one Redis key with a  *)
(* TTL.  The owner resolves the symbols, opens the WebSocket and renews the*)
(* key; on a lost renewal or on shutdown it closes the WebSocket first and *)
(* gives up the key last.  A marker key asks the leader to resolve the     *)
(* symbols again.                                                          *)
(*                                                                         *)
(* The key's TTL is not counted.  It may run out under a live owner that   *)
(* was late by more than the TTL (Lapse, a budgeted delay), and it does    *)
(* run out once nobody renews it (OrphanExpires).                          *)
(***************************************************************************)
EXTENDS Naturals, FiniteSets

CONSTANTS
    Instance,   \* replicas; an instance id is never used again after a restart
    NoInstance,
    MaxFaults,  \* bound: crashes, failed calls to Redis, the database or Gate
    MaxLapses,  \* bound: leases that run out under a live owner
    MaxStops,   \* bound: replicas that are shut down
    MaxTime     \* bound: the clock, and with it pool changes

ASSUME InstanceAssumption == IsFiniteSet(Instance) /\ NoInstance \notin Instance
ASSUME BoundsAssumption ==
    {MaxFaults, MaxLapses, MaxStops, MaxTime} \subseteq Nat

VARIABLES
    lock,       \* the value of gate_ws:leader
    pc,         \* where each replica's supervisor is
    stopping,   \* _stopping of each supervisor
    lapsed,     \* the lease of the replica's current term has run out
    subs,       \* version of the pool the replica is subscribed to, 0 for nothing
    found,      \* version its last symbol query returned
    watermark,  \* _serve_started_ms
    clock,      \* wall clock of every replica
    pool,       \* version of the pool's symbols, the time of the last change
    marker,     \* gate_ws:refresh_request, 0 when there is none
    asked,      \* pool when the marker was written
    faults, lapses  \* used budgets

term == <<subs, found, watermark>>
world == <<clock, pool, marker, asked>>
vars == <<lock, pc, stopping, lapsed, term, world, faults, lapses>>

(* "diff" and "apply" are the two halves of _try_in_place_refresh.         *)
Place == {"boot", "candidate", "resolving", "starting", "serving", "diff", "apply",
          "leaving", "releasing", "stopped", "dead"}

(* The replica's WebSocket is open. *)
WsUp(i) == pc[i] \in {"serving", "diff", "apply", "leaving"}
(* The supervisor is between its acquisition and the end of its release.   *)
InTerm(i) == WsUp(i) \/ pc[i] \in {"resolving", "starting", "releasing"}
Gone(i) == pc[i] \in {"stopped", "dead"}

MoveTo(i, place) == pc' = [pc EXCEPT ![i] = place]
Faulty == faults < MaxFaults /\ faults' = faults + 1
Sound == UNCHANGED faults

-----------------------------------------------------------------------------
(* Becoming the leader. *)

(* The bootstrap loop reaches Redis and starts the supervisor. *)
Boot(i) ==
    /\ pc[i] = "boot" /\ ~stopping[i]
    /\ MoveTo(i, "candidate")
    /\ UNCHANGED <<lock, stopping, lapsed, term, world, faults, lapses>>

(* Mutant of Acquire: SET without NX. *)
AcquireAlways(i) ==
    /\ pc[i] = "candidate" /\ ~stopping[i]
    /\ lock' = i
    /\ \/ /\ Sound
          /\ MoveTo(i, "resolving")
          /\ lapsed' = [lapsed EXCEPT ![i] = FALSE]
       \/ Faulty /\ UNCHANGED <<pc, lapsed>>
    /\ UNCHANGED <<stopping, term, world, lapses>>

(* SET NX EX; when its reply is lost the replica owns a key it does not    *)
(* know of.                                                                *)
Acquire(i) ==
    /\ pc[i] = "candidate" /\ ~stopping[i]
    /\ lock = NoInstance
    /\ lock' = i
    /\ \/ /\ Sound
          /\ MoveTo(i, "resolving")
          /\ lapsed' = [lapsed EXCEPT ![i] = FALSE]
       \/ Faulty /\ UNCHANGED <<pc, lapsed>>
    /\ UNCHANGED <<stopping, term, world, lapses>>

(* The symbols of the pool; none, after an error, gives the key up. *)
Resolve(i) ==
    /\ pc[i] = "resolving"
    /\ \/ /\ Sound
          /\ MoveTo(i, "starting")
          /\ found' = [found EXCEPT ![i] = pool]
       \/ Faulty /\ MoveTo(i, "releasing") /\ UNCHANGED found
    /\ UNCHANGED <<lock, stopping, lapsed, subs, watermark, world, lapses>>

(* start_gate_ws; the watermark is taken when the WebSocket is up. *)
StartWs(i) ==
    /\ pc[i] = "starting"
    /\ \/ /\ Sound
          /\ MoveTo(i, "serving")
          /\ subs' = [subs EXCEPT ![i] = found[i]]
          /\ watermark' = [watermark EXCEPT ![i] = clock]
       \/ Faulty /\ MoveTo(i, "releasing") /\ UNCHANGED <<subs, watermark>>
    /\ UNCHANGED <<lock, stopping, lapsed, found, world, lapses>>

-----------------------------------------------------------------------------
(* The renewal loop. *)

(* Mutant of LoseLease: the script extends whatever key there is. *)
LoseLeaseOnlyWhenFree(i) ==
    /\ pc[i] = "serving"
    /\ lock = NoInstance
    /\ MoveTo(i, "leaving")
    /\ UNCHANGED <<lock, stopping, lapsed, term, world, faults, lapses>>

(* The script did not find the own id. *)
LoseLease(i) ==
    /\ pc[i] = "serving"
    /\ lock # i
    /\ MoveTo(i, "leaving")
    /\ UNCHANGED <<lock, stopping, lapsed, term, world, faults, lapses>>

(* A script that did not answer counts as a lost key. *)
RenewFails(i) ==
    /\ pc[i] = "serving"
    /\ Faulty
    /\ MoveTo(i, "leaving")
    /\ UNCHANGED <<lock, stopping, lapsed, term, world, lapses>>

(* A renewal that succeeded finds a marker newer than the watermark. *)
RefreshRequested(i) ==
    /\ pc[i] = "serving" /\ lock = i
    /\ marker > watermark[i]
    /\ MoveTo(i, "diff")
    /\ UNCHANGED <<lock, stopping, lapsed, term, world, faults, lapses>>

(* The symbol queries swallow their errors and return nothing. *)
ReadDiff(i) ==
    /\ pc[i] = "diff"
    /\ MoveTo(i, "apply")
    /\ \/ Sound /\ found' = [found EXCEPT ![i] = pool]
       \/ Faulty /\ found' = [found EXCEPT ![i] = 0]
    /\ UNCHANGED <<lock, stopping, lapsed, subs, watermark, world, lapses>>

(* Mutant of ApplyDiff: the watermark stays. *)
ApplyDiffKeepsWatermark(i) ==
    /\ pc[i] = "apply"
    /\ \/ /\ Sound
          /\ MoveTo(i, "serving")
          /\ subs' = [subs EXCEPT ![i] = found[i]]
          /\ UNCHANGED watermark
       \/ Faulty /\ MoveTo(i, "leaving") /\ UNCHANGED <<subs, watermark>>
    /\ UNCHANGED <<lock, stopping, lapsed, found, world, lapses>>

(* apply_subscription_diff, then a new watermark; an error drops the       *)
(* WebSocket instead.                                                      *)
ApplyDiff(i) ==
    /\ pc[i] = "apply"
    /\ \/ /\ Sound
          /\ MoveTo(i, "serving")
          /\ subs' = [subs EXCEPT ![i] = found[i]]
          /\ watermark' = [watermark EXCEPT ![i] = clock]
       \/ Faulty /\ MoveTo(i, "leaving") /\ UNCHANGED <<subs, watermark>>
    /\ UNCHANGED <<lock, stopping, lapsed, found, world, lapses>>

-----------------------------------------------------------------------------
(* Giving up. *)

(* A supervisor asked to stop leaves its loop; the runner is cancelled     *)
(* wherever it is.                                                         *)
Leave(i) ==
    /\ stopping[i]
    /\ \/ pc[i] \in {"boot", "candidate"} /\ MoveTo(i, "stopped")
       \/ pc[i] \in {"serving", "diff", "apply"} /\ MoveTo(i, "leaving")
    /\ UNCHANGED <<lock, stopping, lapsed, term, world, faults, lapses>>

StopWs(i) ==
    /\ pc[i] = "leaving"
    /\ MoveTo(i, "releasing")
    /\ subs' = [subs EXCEPT ![i] = 0]
    /\ UNCHANGED <<lock, stopping, lapsed, found, watermark, world, faults, lapses>>

(* Mutant of After: a replica that has led once does not stand again.      *)
AfterForGood(i) == "stopped"

After(i) == IF stopping[i] THEN "stopped" ELSE "candidate"

(* Mutant of Release: DEL without comparing the owner. *)
ReleaseAnyones(i) ==
    /\ pc[i] = "releasing"
    /\ \/ Sound /\ lock' = NoInstance
       \/ Faulty /\ UNCHANGED lock
    /\ MoveTo(i, After(i))
    /\ UNCHANGED <<stopping, lapsed, term, world, lapses>>

(* The compare-and-delete script, which may fail; then back to the         *)
(* candidate loop or out of it.                                            *)
Release(i) ==
    /\ pc[i] = "releasing"
    /\ \/ Sound /\ lock' = IF lock = i THEN NoInstance ELSE lock
       \/ Faulty /\ UNCHANGED lock
    /\ MoveTo(i, After(i))
    /\ UNCHANGED <<stopping, lapsed, term, world, lapses>>

(* Shutdown waits 15 s, then cancels; outside the renewal loop nothing is  *)
(* released any more.                                                      *)
Cancel(i) ==
    /\ stopping[i] /\ pc[i] \in {"resolving", "starting", "leaving", "releasing"}
    /\ Faulty
    /\ MoveTo(i, "stopped")
    /\ UNCHANGED <<lock, stopping, lapsed, term, world, lapses>>

-----------------------------------------------------------------------------
(* The rest of the system. *)

Shutdown(i) ==
    /\ ~stopping[i] /\ ~Gone(i)
    /\ Cardinality({k \in Instance : stopping[k]}) < MaxStops
    /\ stopping' = [stopping EXCEPT ![i] = TRUE]
    /\ UNCHANGED <<lock, pc, lapsed, term, world, faults, lapses>>

Crash(i) ==
    /\ ~Gone(i)
    /\ Faulty
    /\ MoveTo(i, "dead")
    /\ UNCHANGED <<lock, stopping, lapsed, term, world, lapses>>

(* A live owner is late by more than the TTL. *)
Lapse(i) ==
    /\ lock = i /\ InTerm(i)
    /\ lapses < MaxLapses /\ lapses' = lapses + 1
    /\ lock' = NoInstance
    /\ lapsed' = [lapsed EXCEPT ![i] = TRUE]
    /\ UNCHANGED <<pc, stopping, term, world, faults>>

(* The key of a replica that does not renew it runs out. *)
OrphanExpires(i) ==
    /\ lock = i /\ ~InTerm(i)
    /\ lock' = NoInstance
    /\ UNCHANGED <<pc, stopping, lapsed, term, world, faults, lapses>>

(* The pool's symbols change. *)
ChangePool ==
    /\ clock < MaxTime
    /\ clock' = clock + 1 /\ pool' = clock'
    /\ UNCHANGED <<lock, pc, stopping, lapsed, term, marker, asked, faults, lapses>>

(* refresh_subscriptions. *)
RequestRefresh ==
    /\ marker' = clock /\ asked' = pool
    /\ UNCHANGED <<lock, pc, stopping, lapsed, term, clock, pool, faults, lapses>>

-----------------------------------------------------------------------------
Init ==
    /\ lock = NoInstance
    /\ pc = [i \in Instance |-> "boot"]
    /\ stopping = [i \in Instance |-> FALSE]
    /\ lapsed = [i \in Instance |-> FALSE]
    /\ subs = [i \in Instance |-> 0]
    /\ found = [i \in Instance |-> 0]
    /\ watermark = [i \in Instance |-> 0]
    /\ clock = 1 /\ pool = 1
    /\ marker = 0 /\ asked = 0
    /\ faults = 0 /\ lapses = 0

Lead(i) == Boot(i) \/ Acquire(i) \/ Resolve(i) \/ StartWs(i)
Serve(i) == LoseLease(i) \/ RefreshRequested(i) \/ ReadDiff(i) \/ ApplyDiff(i)
GiveUp(i) == Leave(i) \/ StopWs(i) \/ Release(i)

Next ==
    \/ \E i \in Instance :
          \/ Lead(i) \/ Serve(i) \/ GiveUp(i)
          \/ RenewFails(i) \/ Cancel(i) \/ Shutdown(i) \/ Crash(i)
          \/ Lapse(i) \/ OrphanExpires(i)
    \/ ChangePool \/ RequestRefresh

Spec == Init /\ [][Next]_vars

(* The event loop runs every live supervisor and its renewal loop, and     *)
(* Redis expires keys.  Nothing else has to happen.                        *)
Fairness ==
    \A i \in Instance :
        /\ WF_vars(Lead(i)) /\ WF_vars(Serve(i)) /\ WF_vars(GiveUp(i))
        /\ WF_vars(OrphanExpires(i))

FairSpec == Spec /\ Fairness

-----------------------------------------------------------------------------
(* Properties. *)

(* Every variable has its type. *)
TypeOK ==
    /\ lock \in Instance \cup {NoInstance}
    /\ pc \in [Instance -> Place]
    /\ stopping \in [Instance -> BOOLEAN] /\ lapsed \in [Instance -> BOOLEAN]
    /\ {subs, found, watermark} \subseteq [Instance -> Nat]
    /\ {clock, pool, marker, asked, faults, lapses} \subseteq Nat

(* Whatever fails, crashes or is shut down, two replicas only ever keep a  *)
(* WebSocket open at the same time when a lease has run out under one of   *)
(* them, and each WebSocket too many has a lapse of its own: it closes     *)
(* before the key is given up, and opens after it is won.                  *)
OneLeader ==
    /\ \A i, j \in Instance :
          WsUp(i) /\ WsUp(j) /\ i # j => lapsed[i] \/ lapsed[j]
    /\ Cardinality({i \in Instance : WsUp(i)}) <= 1 + lapses

(* The key, the terms and the WebSockets keep the promise of LeaseLock: a  *)
(* late renewal or release of a former leader, or a candidate, never       *)
(* touches the present leader's key, a term that is not late has the key,  *)
(* and a WebSocket opens after the key is won and is shut before it is     *)
(* given up.                                                               *)
TermOf(i) == IF ~InTerm(i) THEN "none" ELSE IF lapsed[i] THEN "late" ELSE "leased"

Lease == INSTANCE LeaseLock WITH
             owner <- lock,
             term  <- [i \in Instance |-> TermOf(i)],
             open  <- {i \in Instance : WsUp(i)}
ImplementsLease == Lease!ESpec

(* A leader whose lease ran out closes its WebSocket, also when another    *)
(* replica has won the key in the meantime.                                *)
StaleLeaderStepsDown ==
    \A i \in Instance : (WsUp(i) /\ lock # i) ~> (~WsUp(i) \/ lock = i)

(* Failover: as long as some replica neither crashed nor was told to shut  *)
(* down, one serves again and again, after lost replies, orphaned keys and *)
(* leaders that died or gave up their term.                                *)
Ended(i) == pc[i] = "dead" \/ (stopping[i] /\ pc[i] = "stopped")
SomeoneServes ==
    []<>(\E i \in Instance : WsUp(i)) \/ <>(\A i \in Instance : Ended(i))

(* A refresh request is acted on a bounded number of times: once the       *)
(* requests end, the leader's subscription is left alone.                  *)
RefreshSettles == \A i \in Instance : <>[](pc[i] \notin {"diff", "apply"})

(* "the request is honored by whichever replica currently holds the leader *)
(* lock" (gate_ws_leader.py, refresh_subscriptions), a claim the code does *)
(* not keep and no run checks: a leader that regards                       *)
(* the last request as done is subscribed to the symbols it was about.     *)
(* (A request of the very millisecond of the watermark is left out.)       *)
RefreshIsHonored ==
    \A i \in Instance :
        pc[i] = "serving" /\ lock = i /\ 0 < marker /\ marker < watermark[i]
            => subs[i] >= asked

(* "the system never silently loses its subscriptions" (gate_ws_client.py, *)
(* apply_subscription_diff): a leader that serves is subscribed to         *)
(* something, also after an error in a refresh.                            *)
SubscriptionsKept == \A i \in Instance : pc[i] = "serving" => subs[i] # 0

-----------------------------------------------------------------------------
(* The inductive invariant behind OneLeader: within its term a replica has *)
(* the key, unless its lease ran out.                                      *)
TermIsLeased == \A i \in Instance : InTerm(i) => lock = i \/ lapsed[i]

(* A lapse leaves at most one replica in a term that is no longer leased.  *)
LapsedTerms == {i \in Instance : InTerm(i) /\ lapsed[i]}
LapsesAreCounted == Cardinality(LapsedTerms) <= lapses

IInv == TypeOK /\ TermIsLeased /\ LapsesAreCounted

(* The key of a term that is late is gone, and not won back in that term.  *)
LateIsKeyless == \A i \in Instance : InTerm(i) /\ lapsed[i] => lock # i
=============================================================================
