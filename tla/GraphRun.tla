------------------------------ MODULE GraphRun ------------------------------
(***************************************************************************)
(* The life of one AI graph run: the durable row ai_graph_runs, the Celery *)
(* deliveries that name it, the workers that execute the LangGraph graph,  *)
(* the human gates it stops at, and the two periodic tasks that dispatch a *)
(* queued run and recover a run whose lease lapsed                         *)
(* (tasks/ai_orchestration.py, tasks/task_dispatch.py,                     *)
(* services/ai_graph_service.py, ai_orchestration/langgraph/handler.py and *)
(* the lock of analysis_chat_handler.py).                                  *)
(*                                                                         *)
(* Runs share nothing but the workers, so one run is modelled.  A graph is *)
(* the sequence of its nodes on one path; a "gate" stops for a human, any  *)
(* other node is one handler call.  The checkpoint is the number of nodes  *)
(* LangGraph has recorded as completed (external: Postgres checkpointer).  *)
(* Delivery is at least once: a message may be delivered again, a worker   *)
(* may die at any step, and it may be slower than its own lease.           *)
(***************************************************************************)
EXTENDS Naturals, Sequences, FiniteSets

CONSTANTS
    Workers,     \* Celery worker processes of the queue ai_orchestration
    Graphs,      \* the graphs a run may execute: [handler, nodes]
    MaxFaults,   \* bound on crashes, redeliveries, lost messages, errors
                 \* and workers that outlive their own lease, together
    MaxRows      \* bound on interrupts, beyond the gates of a graph

NodeKinds == {"gate", "node", "provider", "execute", "persist"}

ASSUME WorkersAssumption == IsFiniteSet(Workers)
ASSUME GraphsAssumption ==
    \A g \in Graphs : /\ g.handler \in {"canonical", "chat"}
                      /\ g.nodes \in Seq(NodeKinds)
ASSUME BoundsAssumption == MaxFaults \in Nat /\ MaxRows \in Nat

-----------------------------------------------------------------------------
VARIABLES
    graph,     \* the graph of this run and the class of its node handler
    status,    \* ai_graph_runs.status
    command,   \* the dispatch tuple: 0 is START, r is RESUME of interrupt r
    lease,     \* lease_expires_at: "none", "held" (ahead of now) or "lapsed"
    rows,      \* ai_graph_interrupts of the run, in the order of insertion
    ckpt,      \* nodes completed in the newest LangGraph checkpoint
    effects,   \* per node, how often its handler transaction has committed
    queue,     \* messages in the broker (equal messages are one element)
    locks,     \* dedup keys present in Redis, each named by its command
    pc,        \* per worker: idle, acquired, run, done or failed
    msg,       \* per worker: the message it executes
    pos,       \* per worker: nodes completed in its in-memory graph state
    cancelling,\* an unlocked API cancel has read the run as not terminal
    faults,    \* faults so far, other than stalls
    stalls     \* leases that lapsed under a live worker so far

rowVars    == <<status, command, lease, rows>>
brokerVars == <<queue, locks>>
workerVars == <<pc, msg, pos>>
graphVars  == <<ckpt, effects>>
vars == <<graph, rowVars, graphVars, brokerVars, workerVars, cancelling,
          faults, stalls>>

Start    == 0
Terminal == {"COMPLETED", "FAILED", "CANCELLED"}
Statuses == Terminal \union {"QUEUED", "RUNNING", "INTERRUPTED"}
Messages == [command : Nat, keyed : BOOLEAN]
NoMsg    == [command |-> Start, keyed |-> FALSE]
Rows     == [gate : Nat, status : {"PENDING", "RESOLVED", "REJECTED"},
             taken : Nat]

Nodes     == graph.nodes
Fallible  == faults + stalls < MaxFaults
Live      == {w \in Workers : pc[w] # "idle"}
Idle(w)   == pc[w] = "idle"
AtEnd(w)  == pos[w] = Len(Nodes)
AtGate(w) == pos[w] < Len(Nodes) /\ Nodes[pos[w] + 1] = "gate"
AtNode(w) == pos[w] < Len(Nodes) /\ Nodes[pos[w] + 1] # "gate"

(* A START command of a run that has already reached a human gate.          *)
StartHasHistory == command = Start /\ rows # <<>>

TypeOK ==
    /\ graph \in Graphs
    /\ status \in Statuses
    /\ command \in Nat
    /\ lease \in {"none", "held", "lapsed"}
    /\ rows \in Seq(Rows)
    /\ ckpt \in 0..Len(Nodes)
    /\ effects \in [1..Len(Nodes) -> Nat]
    /\ queue \subseteq Messages
    /\ locks \subseteq Nat
    /\ pc \in [Workers -> {"idle", "acquired", "run", "done", "failed"}]
    /\ msg \in [Workers -> Messages]
    /\ pos \in [Workers -> 0..Len(Nodes)]
    /\ cancelling \in BOOLEAN
    /\ faults \in Nat /\ stalls \in Nat /\ faults + stalls <= MaxFaults

(* The API has inserted the run and, after the commit, published START by   *)
(* itself; the publication may be lost.                                     *)
Init ==
    /\ graph \in Graphs
    /\ status = "QUEUED" /\ command = Start /\ lease = "none" /\ rows = <<>>
    /\ ckpt = 0 /\ effects = [n \in 1..Len(Nodes) |-> 0]
    /\ queue \in {{}, {[command |-> Start, keyed |-> FALSE]}}
    /\ locks = {}
    /\ pc = [w \in Workers |-> "idle"]
    /\ msg = [w \in Workers |-> NoMsg]
    /\ pos = [w \in Workers |-> 0]
    /\ cancelling = FALSE
    /\ faults = 0 /\ stalls = 0

-----------------------------------------------------------------------------
(* The dedup lock of task_dispatch.                                         *)

(* SET NX, then send_task; a key that is present suppresses the message.    *)
Enqueue(c) ==
    IF c \in locks
    THEN UNCHANGED brokerVars
    ELSE /\ locks' = locks \union {c}
         /\ queue' = queue \union {[command |-> c, keyed |-> TRUE]}

(* task_postrun deletes the key named by the header, whoever set it.        *)
Release(m) == locks' = IF m.keyed THEN locks \ {m.command} ELSE locks

(* The worker returns and its postrun signal releases the key.              *)
Return(w) ==
    /\ pc' = [pc EXCEPT ![w] = "idle"]
    /\ msg' = [msg EXCEPT ![w] = NoMsg]
    /\ pos' = [pos EXCEPT ![w] = 0]
    /\ Release(msg[w])
    /\ UNCHANGED queue

(* Redis expires a key 960 seconds after it was set.  That outlasts the     *)
(* hard time limit of the task (900), so the key of a message that is still *)
(* queued or executed expires only behind a backlog.                        *)
InUse(c) == \/ [command |-> c, keyed |-> TRUE] \in queue
            \/ \E w \in Live : msg[w] = [command |-> c, keyed |-> TRUE]

(* Mutant of LockExpires: the keys have no TTL.                             *)
NoExpiry(c) == c \in locks /\ UNCHANGED vars

LockExpires(c) ==
    /\ c \in locks /\ ~InUse(c)
    /\ locks' = locks \ {c}
    /\ UNCHANGED <<graph, rowVars, graphVars, queue, workerVars, cancelling,
                   faults, stalls>>

LockExpiresEarly(c) ==
    /\ c \in locks /\ InUse(c)
    /\ Fallible
    /\ locks' = locks \ {c}
    /\ faults' = faults + 1
    /\ UNCHANGED <<graph, rowVars, graphVars, queue, workerVars, cancelling,
                   stalls>>

(* The broker loses a message; its key stays behind.                        *)
LoseMessage(m) ==
    /\ m \in queue
    /\ Fallible
    /\ queue' = queue \ {m}
    /\ faults' = faults + 1
    /\ UNCHANGED <<graph, rowVars, graphVars, locks, workerVars, cancelling,
                   stalls>>

-----------------------------------------------------------------------------
(* The row.                                                                 *)

(* _mark_failed under the row lock: nothing once the run is terminal.       *)
MarkFailed ==
    IF status \in Terminal
    THEN UNCHANGED <<status, lease>>
    ELSE status' = "FAILED" /\ lease' = "none"

(* The delivery still names the durable command of a queued run.  Mutant of *)
(* DispatchMatches: the status is not compared.                             *)
SameCommand(m)     == command = m.command
DispatchMatches(m) == status = "QUEUED" /\ command = m.command

(* The message is taken off the queue, or will be delivered once more.      *)
Take(m) ==
    \/ /\ queue' = queue \ {m}
       /\ UNCHANGED faults
    \/ /\ Fallible
       /\ faults' = faults + 1
       /\ UNCHANGED queue

(* A delivery that no longer names the run: NOOP, and the key is released.  *)
Noop(w, m) ==
    /\ m \in queue /\ Idle(w)
    /\ ~DispatchMatches(m)
    /\ Take(m)
    /\ Release(m)
    /\ UNCHANGED <<graph, rowVars, graphVars, workerVars, cancelling, stalls>>

(* A START of a run with gate history is failed instead of started.         *)
AcquireFenced(w, m) ==
    /\ m \in queue /\ Idle(w)
    /\ DispatchMatches(m) /\ StartHasHistory
    /\ MarkFailed
    /\ Take(m)
    /\ Release(m)
    /\ UNCHANGED <<graph, command, rows, graphVars, workerVars, cancelling,
                   stalls>>

(* _acquire_run: QUEUED to RUNNING under the row lock, with a fresh lease.  *)
Acquire(w, m) ==
    /\ m \in queue /\ Idle(w)
    /\ DispatchMatches(m) /\ ~StartHasHistory
    /\ Take(m)
    /\ status' = "RUNNING" /\ lease' = "held"
    /\ rows' = IF m.command \in DOMAIN rows
               THEN [rows EXCEPT ![m.command].taken = @ + 1] ELSE rows
    /\ pc' = [pc EXCEPT ![w] = "acquired"]
    /\ msg' = [msg EXCEPT ![w] = m]
    /\ UNCHANGED <<graph, command, graphVars, locks, pos, cancelling, stalls>>

(* _acquire_run raises (definition, settings, database): the transaction is *)
(* rolled back, the message is gone and the run is still queued.            *)
AcquireRaises(w, m) ==
    /\ m \in queue /\ Idle(w)
    /\ DispatchMatches(m)
    /\ Fallible
    /\ faults' = faults + 1
    /\ queue' = queue \ {m}
    /\ Release(m)
    /\ UNCHANGED <<graph, rowVars, graphVars, workerVars, cancelling, stalls>>

(* The routing after a gate.  "REJECTED" stands for every decision that     *)
(* goes to END: reject, and edit at the approval gate of a chat proposal.   *)
(* Mutant of RoutesToEnd: the decision is not looked at.                    *)
NeverToEnd(r)  == FALSE
RoutesToEnd(r) == rows[r].status = "REJECTED"

(* ainvoke loads the newest checkpoint.  A resume answers the gate that is  *)
(* next there: it completes the gate or ends the graph.                     *)
Load(w) ==
    LET r == msg[w].command
        answers == r \in DOMAIN rows /\ ckpt < Len(Nodes)
                   /\ Nodes[ckpt + 1] = "gate"
    IN /\ pc[w] = "acquired"
       /\ IF ~answers
          THEN /\ pc' = [pc EXCEPT ![w] = "run"]
               /\ pos' = [pos EXCEPT ![w] = ckpt]
          ELSE IF RoutesToEnd(r)
          THEN /\ pc' = [pc EXCEPT ![w] = "run"]
               /\ pos' = [pos EXCEPT ![w] = Len(Nodes)]
          ELSE /\ pc' = [pc EXCEPT ![w] = "done"]
               /\ pos' = [pos EXCEPT ![w] = ckpt + 1]
       /\ UNCHANGED <<graph, rowVars, graphVars, brokerVars, msg, cancelling,
                      faults, stalls>>

-----------------------------------------------------------------------------
(* The graph.                                                               *)

(* A node handler refuses a cancelled run; only the chat handler refuses a  *)
(* run that is COMPLETED or FAILED.                                         *)
Refused == IF graph.handler = "chat" THEN status \in Terminal
                                     ELSE status = "CANCELLED"

(* The lock every handler transaction begins with: it writes RUNNING        *)
(* whatever else the status was and renews the lease.                       *)
LockRun == ~Refused /\ status' = "RUNNING" /\ lease' = "held"

(* One handler transaction that completes a node.                           *)
HandleNode(w) ==
    /\ pc[w] = "run" /\ AtNode(w)
    /\ LockRun
    /\ effects' = [effects EXCEPT ![pos[w] + 1] = @ + 1]
    /\ pc' = [pc EXCEPT ![w] = "done"]
    /\ pos' = [pos EXCEPT ![w] = @ + 1]
    /\ UNCHANGED <<graph, command, rows, ckpt, brokerVars, msg, cancelling,
                   faults, stalls>>

(* A transaction inside a node of several transactions (the provider node). *)
Touch(w) ==
    /\ pc[w] = "run" /\ AtNode(w) /\ graph.handler = "chat"
    /\ Nodes[pos[w] + 1] = "provider"
    /\ LockRun
    /\ UNCHANGED <<graph, command, rows, graphVars, brokerVars, workerVars,
                   cancelling, faults, stalls>>

RefuseNode(w) ==
    /\ pc[w] = "run" /\ AtNode(w) /\ Refused
    /\ pc' = [pc EXCEPT ![w] = "failed"]
    /\ UNCHANGED <<graph, rowVars, graphVars, brokerVars, msg, pos, cancelling,
                   faults, stalls>>

(* The completed node is recorded in the checkpoint of the thread.  Mutant  *)
(* of SaveCheckpoint: it keeps the checkpoint of the first load.            *)
KeepCheckpoint(w) ==
    /\ pc[w] = "done"
    /\ pc' = [pc EXCEPT ![w] = "run"]
    /\ UNCHANGED <<graph, rowVars, graphVars, brokerVars, msg, pos, cancelling,
                   faults, stalls>>

SaveCheckpoint(w) ==
    /\ pc[w] = "done"
    /\ ckpt' = pos[w]
    /\ pc' = [pc EXCEPT ![w] = "run"]
    /\ UNCHANGED <<graph, rowVars, effects, brokerVars, msg, pos, cancelling,
                   faults, stalls>>

(* Anything else raises: the node, its timeout, the checkpointer.           *)
Raise(w) ==
    /\ pc[w] \in {"acquired", "run", "done"}
    /\ pc' = [pc EXCEPT ![w] = "failed"]
    /\ UNCHANGED <<graph, rowVars, graphVars, brokerVars, msg, pos, cancelling,
                   faults, stalls>>

(* execute_graph_run's handler of an exception.                             *)
RecordFailure(w) ==
    /\ pc[w] = "failed"
    /\ MarkFailed
    /\ Return(w)
    /\ UNCHANGED <<graph, command, rows, graphVars, cancelling, faults, stalls>>

(* Not even the failure can be recorded: the task ends with the row as it   *)
(* is, and the message was acknowledged.                                    *)
RecordRaises(w) ==
    /\ pc[w] = "failed"
    /\ Fallible
    /\ faults' = faults + 1
    /\ Return(w)
    /\ UNCHANGED <<graph, rowVars, graphVars, cancelling, stalls>>

(* _mark_terminal.                                                          *)
RecordCompletion(w) ==
    /\ pc[w] = "run" /\ AtEnd(w)
    /\ IF status \in Terminal
       THEN UNCHANGED <<status, lease>>
       ELSE status' = "COMPLETED" /\ lease' = "none"
    /\ Return(w)
    /\ UNCHANGED <<graph, command, rows, graphVars, cancelling, faults, stalls>>

(* _mark_interrupted.  LangGraph derives the id of an interrupt from the    *)
(* checkpoint it was raised from, and each execution raises from one of its *)
(* own, so the insert never meets an existing key (external).  Mutant of    *)
(* RecordInterrupt: the terminal check is missing.                          *)
InterruptRow(w) == [gate |-> pos[w] + 1, status |-> "PENDING", taken |-> 0]

InterruptAlways(w) ==
    /\ pc[w] = "run" /\ AtGate(w) /\ Len(rows) < MaxRows
    /\ rows' = Append(rows, InterruptRow(w))
    /\ status' = "INTERRUPTED" /\ lease' = "none"
    /\ Return(w)
    /\ UNCHANGED <<graph, command, graphVars, cancelling, faults, stalls>>

RecordInterrupt(w) ==
    /\ pc[w] = "run" /\ AtGate(w) /\ Len(rows) < MaxRows
    /\ IF status \in Terminal
       THEN UNCHANGED <<status, lease, rows>>
       ELSE /\ rows' = Append(rows, InterruptRow(w))
            /\ status' = "INTERRUPTED" /\ lease' = "none"
    /\ Return(w)
    /\ UNCHANGED <<graph, command, graphVars, cancelling, faults, stalls>>

-----------------------------------------------------------------------------
(* The periodic tasks.                                                      *)

(* dispatch_queued_graph_runs (and, for shadow gates, its twin): a START    *)
(* with gate history is failed, any other queued command is published.      *)
Dispatch ==
    /\ status = "QUEUED"
    /\ IF StartHasHistory
       THEN MarkFailed /\ UNCHANGED brokerVars
       ELSE Enqueue(command) /\ UNCHANGED <<status, lease>>
    /\ UNCHANGED <<graph, command, rows, graphVars, workerVars, cancelling,
                   faults, stalls>>

(* recover_stale_graph_runs: a resume is never replayed, a START with gate  *)
(* history is never restarted, any other START is queued and published.     *)
(* Mutant of Recoverable: a stale resume is queued again as well.           *)
AlwaysRecoverable == TRUE
Recoverable == command = Start /\ ~StartHasHistory

Recover ==
    /\ status = "RUNNING" /\ lease = "lapsed"
    /\ IF Recoverable
       THEN status' = "QUEUED" /\ lease' = "none" /\ Enqueue(command)
       ELSE MarkFailed /\ UNCHANGED brokerVars
    /\ UNCHANGED <<graph, command, rows, graphVars, workerVars, cancelling,
                   faults, stalls>>

-----------------------------------------------------------------------------
(* The API.                                                                 *)

(* AIGraphRunService.resume: one decision on a pending interrupt of a run   *)
(* that waits, then a publication without a dedup key that may be lost.     *)
(* Repeats with the same idempotency key change nothing.                    *)
Resume(r, answer) ==
    /\ status = "INTERRUPTED"
    /\ r \in DOMAIN rows /\ rows[r].status = "PENDING"
    /\ rows' = [rows EXCEPT ![r].status = answer]
    /\ status' = "QUEUED" /\ command' = r
    /\ \/ queue' = queue \union {[command |-> r, keyed |-> FALSE]}
       \/ UNCHANGED queue
    /\ UNCHANGED <<graph, lease, graphVars, locks, workerVars, cancelling,
                   faults, stalls>>

(* AnalysisChatService.cancel and the task cancel_graph_run hold the row    *)
(* lock while they check and write.                                         *)
Cancel ==
    /\ status \notin Terminal
    /\ status' = "CANCELLED" /\ lease' = "none"
    /\ UNCHANGED <<graph, command, rows, graphVars, brokerVars, workerVars,
                   cancelling, faults, stalls>>

(* AIGraphRunService.cancel, for the canonical graphs: the status is read   *)
(* without a lock and written later; the lease is left as it is.            *)
ReadToCancel ==
    /\ graph.handler = "canonical"
    /\ ~cancelling /\ status \notin Terminal
    /\ cancelling' = TRUE
    /\ UNCHANGED <<graph, rowVars, graphVars, brokerVars, workerVars, faults,
                   stalls>>

WriteCancel ==
    /\ cancelling
    /\ cancelling' = FALSE
    /\ status' = "CANCELLED"
    /\ UNCHANGED <<graph, command, lease, rows, graphVars, brokerVars,
                   workerVars, faults, stalls>>

-----------------------------------------------------------------------------
(* Time and failure.                                                        *)

(* No worker renews the lease any more.                                     *)
LeaseLapses ==
    /\ lease = "held" /\ Live = {}
    /\ lease' = "lapsed"
    /\ UNCHANGED <<graph, status, command, rows, graphVars, brokerVars,
                   workerVars, cancelling, faults, stalls>>

(* A live worker is slower than the lease it renewed last.                  *)
Stall ==
    /\ lease = "held" /\ Live # {}
    /\ Fallible
    /\ stalls' = stalls + 1
    /\ lease' = "lapsed"
    /\ UNCHANGED <<graph, status, command, rows, graphVars, brokerVars,
                   workerVars, cancelling, faults>>

(* The process dies.  Celery puts a START back on the queue (acks_late), a  *)
(* resume is not requeued (celery_app.py task_annotations); no postrun      *)
(* signal runs, so the key stays.                                           *)
Crash(w) ==
    /\ ~Idle(w)
    /\ Fallible
    /\ faults' = faults + 1
    /\ pc' = [pc EXCEPT ![w] = "idle"]
    /\ msg' = [msg EXCEPT ![w] = NoMsg]
    /\ pos' = [pos EXCEPT ![w] = 0]
    /\ queue' = IF msg[w].command = Start
                THEN queue \union {msg[w]} ELSE queue
    /\ UNCHANGED <<graph, rowVars, graphVars, locks, cancelling, stalls>>

-----------------------------------------------------------------------------
Execute(w) ==
    \/ Load(w) \/ HandleNode(w) \/ RefuseNode(w) \/ SaveCheckpoint(w)
    \/ RecordFailure(w) \/ RecordCompletion(w) \/ RecordInterrupt(w)

Deliver(w, m) == Noop(w, m) \/ AcquireFenced(w, m) \/ Acquire(w, m)

Decide == \E r \in DOMAIN rows, answer \in {"RESOLVED", "REJECTED"} :
              Resume(r, answer)

Next ==
    \/ \E w \in Workers : Execute(w) \/ Touch(w) \/ Raise(w)
                         \/ RecordRaises(w) \/ Crash(w)
    \/ \E w \in Workers, m \in queue : Deliver(w, m) \/ AcquireRaises(w, m)
    \/ \E m \in queue : LoseMessage(m)
    \/ \E c \in locks : LockExpires(c) \/ LockExpiresEarly(c)
    \/ Dispatch \/ Recover \/ Decide \/ Cancel \/ ReadToCancel \/ WriteCancel
    \/ LeaseLapses \/ Stall

Spec == Init /\ [][Next]_vars

(* A worker that lives goes on with its graph, an idle one takes what is    *)
(* queued, beat runs the two periodic tasks, Redis and the lease expire, a  *)
(* pending API call ends, and the human answers.                            *)
Fairness ==
    /\ \A w \in Workers : WF_vars(Execute(w))
    /\ \A w \in Workers : WF_vars(\E m \in queue : Deliver(w, m))
    /\ WF_vars(\E c \in locks : LockExpires(c))
    /\ WF_vars(Dispatch) /\ WF_vars(Recover) /\ WF_vars(LeaseLapses)
    /\ WF_vars(WriteCancel) /\ WF_vars(Decide)

FairSpec == Spec /\ Fairness

-----------------------------------------------------------------------------
(* Every decision of a human is handed to at most one execution: neither a  *)
(* redelivery, nor a second publication, nor the recovery of a lapsed lease *)
(* replays it (_dispatch_matches, recover_stale_graph_runs).                *)
DecisionsTakenOnce == \A r \in DOMAIN rows : rows[r].taken <= 1

(* Two workers execute the run at once only when a lease lapsed under a     *)
(* live worker: each stall accounts for one extra execution.                *)
ExclusiveUnlessStalled == Cardinality(Live) <= 1 + stalls

(* While no lease lapsed under a live worker, a handler's transaction is    *)
(* repeated for a node at most once per fault.                              *)
RepeatsAreFaults ==
    stalls = 0 => \A n \in 1..Len(Nodes) : effects[n] <= 1 + faults

(* While no lease lapsed under a live worker, a node behind a gate has run  *)
(* only if a human approved that very gate, and none rejected it: a gate is *)
(* not asked about twice, however often its execution is repeated.          *)
Decided(g, answer) ==
    \E r \in DOMAIN rows : rows[r].gate = g /\ rows[r].status = answer
Approved(g) == Decided(g, "RESOLVED")
Rejected(g) == Decided(g, "REJECTED")

GatesGovern ==
    stalls = 0 =>
        \A n, g \in 1..Len(Nodes) :
            (g < n /\ Nodes[g] = "gate" /\ effects[n] > 0) =>
                Approved(g) /\ ~Rejected(g)

(* While no lease lapsed under a live worker, a run that waits for a human  *)
(* asks one question, about the gate its checkpoint stands before, and an   *)
(* answer reaches the graph while it still stands there: it completes the   *)
(* gate it was given for and no other (_mark_interrupted, resume, Command). *)
AnswersMeetTheirGate ==
    stalls = 0 =>
        /\ status = "INTERRUPTED" =>
              \E r \in DOMAIN rows :
                 /\ rows[r].gate = ckpt + 1
                 /\ {q \in DOMAIN rows : rows[q].status = "PENDING"} = {r}
        /\ \A w \in Workers :
              pc[w] = "acquired" /\ msg[w].command \in DOMAIN rows =>
                  rows[msg[w].command].gate = ckpt + 1

(* A running run has a lease that lapses when nobody renews it: the recovery*)
(* looks at no other run (lease_expires_at < now).                          *)
RunningIsLeased == status = "RUNNING" => lease # "none"

(* A chat run that is COMPLETED, FAILED or CANCELLED stays so: no handler,  *)
(* no late worker, no decision and no recovery changes it any more.         *)
TerminalIsFinal ==
    [][(graph.handler = "chat" /\ status \in Terminal) => status' = status]_vars

(* Unless a lease lapses under a live worker, every run comes to an end for *)
(* good, whatever was lost or crashed, as long as humans answer.            *)
RunEnds == [](stalls = 0) => <>[](status \in Terminal)

=============================================================================
