--------------------------- MODULE GovernedChange ---------------------------
(***************************************************************************)
(* Governed changes of one configuration row: a plan is previewed, executed *)
(* by the graph node of an approved chat proposal, perhaps rolled back, and *)
(* the cached copy of the row in Redis is invalidated by a separate         *)
(* transaction that a durable marker in the plan asks for                   *)
(* (services/governed_change_service.py, services/config_service.py,        *)
(* tasks/governed_cache_reconciliation.py, the endpoint in                  *)
(* api/analysis_chat.py).                                                   *)
(*                                                                         *)
(* A session (external: SQLAlchemy) that has read a plan keeps what it read *)
(* when it selects the row again FOR UPDATE: the lock orders the writers,   *)
(* but a session that read the plan before it locked it decides and writes  *)
(* from its first reading.  The sessions of the rollback endpoint and of    *)
(* the reconciliation task do so.                                           *)
(***************************************************************************)
EXTENDS Naturals, FiniteSets

CONSTANTS
    Plans,        \* proposals; a plan also stands for its candidate document
    Base,         \* the document the row starts with
    Others,       \* further documents a human may write
    NoDoc,        \* nothing is cached
    NoPlan,       \* a session that serves no plan
    Workers,      \* processes that execute the reconciliation task
    Clients,      \* graph nodes, requests and readers of the configuration
    MaxAttempts,  \* CACHE_RECONCILIATION_MAX_ATTEMPTS
    MaxEdits,     \* bound on ordinary configuration updates
    MaxFaults     \* bound on crashes, redeliveries, lost messages and cache
                  \* entries that no marker accounts for, together

Sessions == Workers \union Clients
Docs  == Plans \union {Base} \union Others
Kinds == {"EXECUTION", "ROLLBACK"}

ASSUME DocsAssumption ==
    /\ Base \notin Plans /\ Plans \intersect Others = {}
    /\ NoDoc \notin Docs /\ NoPlan \notin Plans
ASSUME SessionsAssumption == Workers \intersect Clients = {}
ASSUME BoundsAssumption ==
    MaxAttempts \in Nat \ {0} /\ {MaxEdits, MaxFaults} \subseteq Nat

-----------------------------------------------------------------------------
VARIABLES
    doc,       \* config_profiles.config_json
    untouched, \* plans whose target was not written since their preview
    cache,     \* the Redis copy of the row
    plan,      \* per plan: status, the document it was previewed from, and
               \* the two cache markers of execution_result
    queue,     \* reconcile messages in the broker
    work,      \* per session: what it does next, for which plan and marker,
               \* the plan as it read it, the document it read for the cache
    edits, faults,
    strays,    \* cache entries left behind by a late fill or a failed delete
    clobbered  \* a plan was written from a reading that its status outlived

configVars == <<doc, untouched, cache>>
countVars  == <<edits, faults, strays, clobbered>>
vars == <<configVars, plan, queue, work, countVars>>

Marker   == [state : {"NONE", "PENDING", "REQUIRED", "COMPLETED"},
             attempts : 0..MaxAttempts]
NoMarker == [state |-> "NONE", attempts |-> 0]
Pending  == [state |-> "PENDING", attempts |-> 0]
Plan     == [status : {"ABSENT", "DRY_RUN", "EXECUTED", "STALE", "ROLLED_BACK"},
             source : Docs, mark : [Kinds -> Marker]]
NewPlan  == [status |-> "ABSENT", source |-> Base,
             mark |-> [k \in Kinds |-> NoMarker]]
Work     == [at : {"idle", "fresh", "read", "rollback", "drop", "fill"},
             plan : Plans \union {NoPlan}, kind : Kinds, view : Plan,
             doc : Docs]
NoWork   == [at |-> "idle", plan |-> NoPlan, kind |-> "EXECUTION",
             view |-> NewPlan, doc |-> Base]

TypeOK ==
    /\ doc \in Docs /\ untouched \subseteq Plans
    /\ cache \in Docs \union {NoDoc}
    /\ plan \in [Plans -> Plan]
    /\ queue \subseteq Plans \X Kinds
    /\ work \in [Sessions -> Work]
    /\ \A s \in Sessions :
           work[s].at \in {"fresh", "read", "rollback"} => work[s].plan \in Plans
    /\ edits \in 0..MaxEdits /\ clobbered \in BOOLEAN
    /\ faults \in Nat /\ strays \in Nat /\ faults + strays <= MaxFaults

Init ==
    /\ doc = Base /\ untouched = {} /\ cache \in {NoDoc, Base}
    /\ plan = [p \in Plans |-> NewPlan]
    /\ queue = {}
    /\ work = [s \in Sessions |-> NoWork]
    /\ edits = 0 /\ faults = 0 /\ strays = 0 /\ clobbered = FALSE

-----------------------------------------------------------------------------
Idle(s)    == work[s] = NoWork
Fallible   == faults + strays < MaxFaults
Fault      == Fallible /\ faults' = faults + 1
Stray      == Fallible /\ strays' = strays + 1
Finish(s)  == work' = [work EXCEPT ![s] = NoWork]

(* The row is written: every preview of it is out of date (updated_at).     *)
Write(d) == doc' = d /\ untouched' = {}

(* The session goes on to an attempt at the marker k of p, with v in its    *)
(* identity map if it has read the plan.                                    *)
Attends(s, at, p, k, v) ==
    work' = [work EXCEPT ![s] = [NoWork EXCEPT !.at = at, !.plan = p,
                                               !.kind = k, !.view = v]]

(* The marker that counts for a status, and whether it asks for an attempt. *)
KindOf(status)  == IF status = "EXECUTED" THEN "EXECUTION" ELSE "ROLLBACK"
Asks(v, k)      == /\ v.status \in {"EXECUTED", "ROLLED_BACK"}
                   /\ k = KindOf(v.status)
                   /\ v.mark[k].state \in {"PENDING", "REQUIRED"}

(* Mutant of Due: a failed attempt is not retried.                          *)
DueOnce(v, k)     == Asks(v, k) /\ v.mark[k].state = "PENDING"
Due(v, k)         == Asks(v, k) /\ v.mark[k].attempts < MaxAttempts

-----------------------------------------------------------------------------
(* The plan.                                                                *)

(* create_dry_run; a change that changes nothing is refused.                *)
Preview(p) ==
    /\ plan[p].status = "ABSENT" /\ doc # p
    /\ plan' = [plan EXCEPT ![p].status = "DRY_RUN", ![p].source = doc]
    /\ untouched' = untouched \union {p}
    /\ UNCHANGED <<doc, cache, queue, work, countVars>>

(* approve_and_execute in the node's transaction, under table and row locks; *)
(* the node then reconciles in a session of its own.  Mutant of Execute: the *)
(* target is not compared with the one that was previewed.                  *)
ExecuteStale(s, p) ==
    /\ Idle(s)
    /\ plan[p].status = "DRY_RUN"
    /\ Write(p)
    /\ plan' = [plan EXCEPT ![p].status = "EXECUTED",
                            ![p].mark["EXECUTION"] = Pending]
    /\ Attends(s, "fresh", p, "EXECUTION", NewPlan)
    /\ UNCHANGED <<cache, queue, countVars>>

Execute(s, p) ==
    /\ Idle(s)
    /\ plan[p].status = "DRY_RUN" /\ p \in untouched
    /\ Write(p)
    /\ plan' = [plan EXCEPT ![p].status = "EXECUTED",
                            ![p].mark["EXECUTION"] = Pending]
    /\ Attends(s, "fresh", p, "EXECUTION", NewPlan)
    /\ UNCHANGED <<cache, queue, countVars>>

(* A stale target, or any other part of the last validation.                *)
Block(p) ==
    /\ plan[p].status = "DRY_RUN"
    /\ plan' = [plan EXCEPT ![p].status = "STALE"]
    /\ UNCHANGED <<configVars, queue, work, countVars>>

(* The node is executed again with the same decision: it is answered with   *)
(* the plan and reconciles if that is still pending.                        *)
ExecuteAgain(s, p) ==
    /\ Idle(s)
    /\ plan[p].status = "EXECUTED"
    /\ plan[p].mark["EXECUTION"].state = "PENDING"
    /\ Attends(s, "fresh", p, "EXECUTION", NewPlan)
    /\ UNCHANGED <<configVars, plan, queue, countVars>>

(* The rollback endpoint reads the plan, and then locks it.                 *)
AskRollback(s, p) ==
    /\ Idle(s)
    /\ plan[p].status = "EXECUTED"
    /\ Attends(s, "rollback", p, "ROLLBACK", plan[p])
    /\ UNCHANGED <<configVars, plan, queue, countVars>>

(* The document must still be the candidate; the same session reconciles.   *)
(* Mutant of Rollback: it leaves no marker.                                 *)
RolledBack(v) == [v EXCEPT !.status = "ROLLED_BACK",
                           !.mark["ROLLBACK"] = Pending]

RollbackUnmarked(s) ==
    LET p == work[s].plan
        v == [work[s].view EXCEPT !.status = "ROLLED_BACK"]
    IN /\ work[s].at = "rollback" /\ doc = p
       /\ Write(v.source)
       /\ plan' = [plan EXCEPT ![p] = v]
       /\ Finish(s)
       /\ UNCHANGED <<cache, queue, countVars>>

Rollback(s) ==
    LET p == work[s].plan
        v == RolledBack(work[s].view)
    IN /\ work[s].at = "rollback" /\ doc = p
       /\ Write(v.source)
       /\ plan' = [plan EXCEPT ![p] = v]
       /\ Attends(s, "read", p, "ROLLBACK", v)
       /\ UNCHANGED <<cache, queue, countVars>>

(* The document has changed since the execution, or the one to be restored  *)
(* no longer passes the validation.                                         *)
RefuseRollback(s) ==
    /\ work[s].at = "rollback"
    /\ Finish(s)
    /\ UNCHANGED <<configVars, plan, queue, countVars>>

-----------------------------------------------------------------------------
(* The reconciliation.                                                      *)

(* claim_due_cache_reconciliations and the publication; back-off and        *)
(* dispatch lease only say when.                                            *)
Dispatch(p) ==
    LET k == KindOf(plan[p].status)
    IN /\ Due(plan[p], k)
       /\ queue' = queue \union {<<p, k>>}
       /\ UNCHANGED <<configVars, plan, work, countVars>>

(* reconcile_cache_outbox_attempt: for an execution the plan is read before *)
(* it is locked.                                                            *)
Deliver(s, m) ==
    /\ Idle(s) /\ m \in queue
    /\ Attends(s, IF m[2] = "EXECUTION" THEN "read" ELSE "fresh", m[1], m[2],
               IF m[2] = "EXECUTION" THEN plan[m[1]] ELSE NewPlan)
    /\ \/ queue' = queue \ {m} /\ UNCHANGED faults
       \/ Fault /\ UNCHANGED queue
    /\ UNCHANGED <<configVars, plan, edits, strays, clobbered>>

(* What the session believes of its plan once it has the lock.              *)
Seen(s) == IF work[s].at = "read" THEN work[s].view ELSE plan[work[s].plan]

Record(p, k, v, state) ==
    /\ plan' = [plan EXCEPT ![p].mark =
                    [v.mark EXCEPT ![k] = [state    |-> state,
                                           attempts |-> @.attempts + 1]]]
    /\ clobbered' = (clobbered \/ v.status # plan[p].status)

(* reconcile_execution_cache, reconcile_rollback_cache: Redis deletes the   *)
(* copy or does not, and the outcome is written.                            *)
Attempt(s) ==
    LET p == work[s].plan
        k == work[s].kind
        v == Seen(s)
    IN /\ work[s].at \in {"fresh", "read"} /\ Due(v, k)
       /\ \/ cache' = NoDoc /\ Record(p, k, v, "COMPLETED")
          \/ UNCHANGED cache /\ Record(p, k, v, "REQUIRED")
       /\ Finish(s)
       /\ UNCHANGED <<doc, untouched, queue, edits, faults, strays>>

NothingToDo(s) ==
    /\ work[s].at \in {"fresh", "read"} /\ ~Due(Seen(s), work[s].kind)
    /\ Finish(s)
    /\ UNCHANGED <<configVars, plan, queue, countVars>>

-----------------------------------------------------------------------------
(* The other users of the row (ConfigService).                              *)

(* update_config: it commits, and then deletes the copy if Redis lets it.   *)
Edit(s, d) ==
    /\ Idle(s)
    /\ edits < MaxEdits /\ edits' = edits + 1
    /\ d # doc /\ Write(d)
    /\ work' = [work EXCEPT ![s] = [NoWork EXCEPT !.at = "drop"]]
    /\ UNCHANGED <<cache, plan, queue, faults, strays, clobbered>>

Drop(s) ==
    /\ work[s].at = "drop"
    /\ \/ cache' = NoDoc /\ UNCHANGED strays
       \/ Stray /\ UNCHANGED cache
    /\ Finish(s)
    /\ UNCHANGED <<doc, untouched, plan, queue, edits, faults, clobbered>>

(* get_config: a miss reads the row and then fills the cache.               *)
Miss(s) ==
    /\ Idle(s) /\ cache = NoDoc
    /\ work' = [work EXCEPT ![s] = [NoWork EXCEPT !.at = "fill", !.doc = doc]]
    /\ UNCHANGED <<configVars, plan, queue, countVars>>

Fill(s) ==
    /\ work[s].at = "fill"
    /\ cache' = work[s].doc
    /\ IF work[s].doc = doc THEN UNCHANGED strays ELSE Stray
    /\ Finish(s)
    /\ UNCHANGED <<doc, untouched, plan, queue, edits, faults, clobbered>>

(* The TTL of an hour.                                                      *)
Expire ==
    /\ cache # NoDoc /\ cache' = NoDoc
    /\ UNCHANGED <<doc, untouched, plan, queue, work, countVars>>

(* A process dies between two steps; the broker may deliver its message     *)
(* again, or may lose one.                                                  *)
Crash(s) ==
    /\ work[s].at \notin {"idle", "drop"} /\ Fault
    /\ \/ UNCHANGED queue
       \/ /\ work[s].at \in {"fresh", "read"}
          /\ queue' = queue \union {<<work[s].plan, work[s].kind>>}
    /\ Finish(s)
    /\ UNCHANGED <<configVars, plan, edits, strays, clobbered>>

LoseMessage(m) ==
    /\ m \in queue /\ Fault
    /\ queue' = queue \ {m}
    /\ UNCHANGED <<configVars, plan, work, edits, strays, clobbered>>

Proceed(s) ==
    \/ Rollback(s) \/ RefuseRollback(s) \/ Attempt(s) \/ NothingToDo(s)
    \/ Drop(s) \/ Fill(s)

Next ==
    \/ \E p \in Plans : Preview(p) \/ Block(p) \/ Dispatch(p)
    \/ \E s \in Clients, p \in Plans :
           Execute(s, p) \/ ExecuteAgain(s, p) \/ AskRollback(s, p)
    \/ \E s \in Clients : Miss(s) \/ \E d \in Docs : Edit(s, d)
    \/ \E s \in Workers, m \in queue : Deliver(s, m)
    \/ \E s \in Sessions : Proceed(s) \/ Crash(s)
    \/ \E m \in queue : LoseMessage(m)
    \/ Expire

Spec == Init /\ [][Next]_vars

(* Sessions go on, beat dispatches what is due, workers take what is queued. *)
Fairness ==
    /\ \A s \in Sessions : WF_vars(Proceed(s))
    /\ \A p \in Plans : WF_vars(Dispatch(p))
    /\ WF_vars(\E s \in Workers, m \in queue : Deliver(s, m))

FairSpec == Spec /\ Fairness

-----------------------------------------------------------------------------
(* A cached document that is not the row's is never forgotten: the marker   *)
(* of a plan still asks for its removal, or the human's update that wrote   *)
(* the row is about to.  Excused are the cases without any marker (a reader *)
(* that fills the cache late, an update that cannot delete) and the attempt *)
(* that writes over a rollback it has not seen.                             *)
StaleCacheIsTracked ==
    (cache \notin {NoDoc, doc} /\ strays = 0 /\ ~clobbered) =>
        \/ \E p \in Plans, k \in Kinds : Asks(plan[p], k)
        \/ \E s \in Sessions : work[s].at = "drop"

(* The plans keep the promise of OptimisticChange: an execution replaces    *)
(* exactly the document that was previewed and approved, a rollback the     *)
(* candidate by the document it had replaced, and everybody else's write    *)
(* counts as one, although the preview is long past and the rollback        *)
(* decides from a plan that was read before the locks.                      *)
Change == INSTANCE OptimisticChange
              WITH phase <- [p \in Plans |-> plan[p].status],
                   from  <- [p \in Plans |-> plan[p].source]
ImplementsChange == Change!OSpec

(* "Only an executed proposal can be rolled back" (rollback): what the      *)
(* session has read of the plan is executed, the plan need not be.          *)
OnlyExecutedIsRolledBack ==
  [][\A s \in Sessions :
        Rollback(s) => plan[work[s].plan].status = "EXECUTED"]_vars

(* Again and again no marker waits: one that asks for an attempt gets one   *)
(* until it is completed or its attempts are used up, whatever is lost or   *)
(* crashes.                                                                 *)
Settled(p) == \A k \in Kinds :
    Asks(plan[p], k) => plan[p].mark[k].attempts >= MaxAttempts
MarkersSettle == \A p \in Plans : []<>Settled(p)

=============================================================================
