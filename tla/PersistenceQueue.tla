-------------------------- MODULE PersistenceQueue --------------------------
(***************************************************************************)
(* The bounded in-memory queue between the schedulers and the database,    *)
(* its pool of workers and the drain at shutdown.                          *)
(*                                                                         *)
(* A producer blocks, gives up or evicts when the queue is full, by the    *)
(* category of its message.  A worker executes one message at a time in a  *)
(* transaction that is retried after a transient failure.  At shutdown the *)
(* producers are stopped first, then the queue is closed and drained, and  *)
(* then the workers stop.                                                  *)
(*                                                                         *)
(* Everything runs on one event loop: what happens between two awaits is   *)
(* one step.                                                               *)
(***************************************************************************)
EXTENDS Naturals, Sequences, FiniteSets

CONSTANTS
    Message,        \* the calls of enqueue_or_log
    NoMessage,
    Category,       \* of each message
    Field,          \* the columns of the rows that messages write
    Writes,         \* the fields each message carries
    InsertOnly,     \* messages written with ON CONFLICT DO NOTHING
    Worker,
    MaxSize,        \* PERSISTENCE_QUEUE_MAXSIZE
    MaxAttempts,    \* DEFAULT_MAX_ATTEMPTS
    MaxFaults       \* bound: failed transactions

ASSUME MessageAssumption ==
    /\ NoMessage \notin Message
    /\ Category \in [Message -> {"critical", "scheduler", "compute", "ingest"}]
    /\ Writes \in [Message -> SUBSET Field]
    /\ InsertOnly \subseteq Message
ASSUME WorkerAssumption == IsFiniteSet(Worker)
ASSUME SizeAssumption ==
    /\ MaxSize \in Nat \ {0} /\ MaxAttempts \in Nat \ {0} /\ MaxFaults \in Nat

VARIABLES
    queue,      \* the asyncio queue
    unfinished, \* its count of put messages without task_done
    stage,      \* where each message is
    job,        \* the message of each worker
    attempt,    \* the attempt its transaction is at
    exited,     \* the workers whose loop has ended
    producing,  \* the schedulers run
    phase,      \* of the worker pool
    timedOut,   \* the drain ran out of time
    row,        \* who wrote each field last
    applied,    \* how often each message was committed
    faults      \* used budget

buffer == <<queue, unfinished>>
workers == <<job, attempt, exited>>
life == <<producing, phase, timedOut>>
database == <<row, applied>>
vars == <<buffer, stage, workers, life, database, faults>>

Phase == {"running", "draining", "stopping", "stopped"}
(* What becomes of a message in the end; the rest is on its way. *)
Settled == {"done", "failed", "evicted", "timed_out", "cancelled", "refused", "lost"}
Stage == Settled \cup {"unsent", "putting", "queued", "processing"}

Full == Len(queue) >= MaxSize
Closed == phase # "running"
Blocks(m) == Category[m] # "ingest"
Busy(w) == job[w] # NoMessage
Move(m, s) == stage' = [stage EXCEPT ![m] = s]
Faulty == faults < MaxFaults /\ faults' = faults + 1

-----------------------------------------------------------------------------
(* Producers. *)

(* A slot is free. *)
Add(m) ==
    /\ ~Full
    /\ queue' = Append(queue, m) /\ unfinished' = unfinished + 1
    /\ Move(m, "queued")

(* Mutant of Evict: no task_done for the message that goes. *)
EvictUncounted(m) ==
    /\ queue' = Append(Tail(queue), m)
    /\ unfinished' = unfinished + 1
    /\ stage' = [stage EXCEPT ![Head(queue)] = "evicted", ![m] = "queued"]

(* The oldest message makes room, whatever its category. *)
Evict(m) ==
    /\ queue' = Append(Tail(queue), m)
    /\ UNCHANGED unfinished
    /\ stage' = [stage EXCEPT ![Head(queue)] = "evicted", ![m] = "queued"]

(* put, up to its first await. *)
Put(m) ==
    /\ producing /\ stage[m] = "unsent"
    /\ IF Closed
       THEN Move(m, "refused") /\ UNCHANGED buffer
       ELSE \/ Add(m)
            \/ Full /\ Blocks(m) /\ Move(m, "putting") /\ UNCHANGED buffer
            \/ Full /\ ~Blocks(m) /\ Evict(m)
    /\ UNCHANGED <<workers, life, database, faults>>

(* A producer that waited gets a slot; put looks at _closed only once. *)
PutResumes(m) ==
    /\ stage[m] = "putting"
    /\ Add(m)
    /\ UNCHANGED <<workers, life, database, faults>>

(* Only a compute message gives up after a time. *)
PutTimesOut(m) ==
    /\ stage[m] = "putting" /\ Category[m] = "compute"
    /\ Move(m, "timed_out")
    /\ UNCHANGED <<buffer, workers, life, database, faults>>

-----------------------------------------------------------------------------
(* Workers. *)

Take(w) ==
    /\ w \notin exited /\ ~Busy(w) /\ queue # <<>>
    /\ job' = [job EXCEPT ![w] = Head(queue)]
    /\ attempt' = [attempt EXCEPT ![w] = 1]
    /\ queue' = Tail(queue)
    /\ Move(Head(queue), "processing")
    /\ UNCHANGED <<unfinished, exited, life, database, faults>>

(* Mutant of Merge: the columns a message does not carry are overwritten.  *)
MergeAll(m) == [f \in Field |-> IF f \in Writes[m] THEN m ELSE NoMessage]

(* The upsert: a message overwrites the fields it carries, an insert-only  *)
(* message only fills what is not there.                                   *)
Merge(m) ==
    [f \in Field |->
        IF f \in Writes[m] /\ (m \in InsertOnly => row[f] = NoMessage)
        THEN m ELSE row[f]]

Commit(m) ==
    /\ row' = Merge(m)
    /\ applied' = [applied EXCEPT ![m] = @ + 1]

(* The message of w is settled: task_done, and the loop looks at _stop.    *)
Finish(w, s) ==
    /\ Move(job[w], s)
    /\ job' = [job EXCEPT ![w] = NoMessage]
    /\ attempt' = [attempt EXCEPT ![w] = 0]
    /\ unfinished' = unfinished - 1
    /\ exited' = IF phase = "stopping" THEN exited \cup {w} ELSE exited
    /\ UNCHANGED queue

Succeed(w) ==
    /\ Busy(w)
    /\ Commit(job[w])
    /\ Finish(w, "done")
    /\ UNCHANGED <<life, faults>>

(* Mutant of Retry: a worker that gives up ends.                           *)
RetryNoDone(w) ==
    IF attempt[w] < MaxAttempts
    THEN /\ attempt' = [attempt EXCEPT ![w] = @ + 1]
         /\ UNCHANGED <<buffer, stage, job, exited>>
    ELSE /\ exited' = exited \cup {w}
         /\ job' = [job EXCEPT ![w] = NoMessage]
         /\ UNCHANGED <<buffer, stage, attempt>>

(* Mutant of Retry: one attempt too many. *)
RetryOnceMore(w) ==
    IF attempt[w] <= MaxAttempts
    THEN /\ attempt' = [attempt EXCEPT ![w] = @ + 1]
         /\ UNCHANGED <<buffer, stage, job, exited>>
    ELSE Finish(w, "failed")

(* run_uow after a transient error. *)
Retry(w) ==
    IF attempt[w] < MaxAttempts
    THEN /\ attempt' = [attempt EXCEPT ![w] = @ + 1]
         /\ UNCHANGED <<buffer, stage, job, exited>>
    ELSE Finish(w, "failed")

(* The transaction rolls back. *)
TransientError(w) ==
    /\ Busy(w) /\ Faulty
    /\ Retry(w)
    /\ UNCHANGED <<life, database>>

(* The transaction commits and the connection breaks before the answer. *)
CommitUnheard(w) ==
    /\ Busy(w) /\ Faulty
    /\ Commit(job[w])
    /\ Retry(w)
    /\ UNCHANGED life

(* An integrity error, or no handler. *)
PermanentError(w) ==
    /\ Busy(w) /\ Faulty
    /\ Finish(w, "failed")
    /\ UNCHANGED <<life, database>>

-----------------------------------------------------------------------------
(* Shutdown, in the order of the lifespan's finally block. *)

(* The schedulers are cancelled, wherever they wait. *)
StopProducers ==
    /\ producing /\ producing' = FALSE
    /\ stage' = [m \in Message |->
                    IF stage[m] = "putting" THEN "cancelled" ELSE stage[m]]
    /\ UNCHANGED <<buffer, workers, phase, timedOut, database, faults>>

(* Mutant of Close: the pool is closed before the schedulers. *)
CloseFirst ==
    /\ phase = "running" /\ phase' = "draining"
    /\ UNCHANGED <<buffer, stage, workers, producing, timedOut, database, faults>>

Close ==
    /\ ~producing /\ phase = "running" /\ phase' = "draining"
    /\ UNCHANGED <<buffer, stage, workers, producing, timedOut, database, faults>>

(* join returns, or its 10 s are over. *)
Drained ==
    /\ phase = "draining" /\ unfinished = 0
    /\ phase' = "stopping"
    /\ UNCHANGED <<buffer, stage, workers, producing, timedOut, database, faults>>
DrainTimesOut ==
    /\ phase = "draining" /\ unfinished # 0
    /\ phase' = "stopping" /\ timedOut' = TRUE
    /\ UNCHANGED <<buffer, stage, workers, producing, database, faults>>

(* PersistenceWorker.stop cancels after 2 s: a waiting worker leaves its   *)
(* loop, a busy one loses its message.                                     *)
CancelWorker(w) ==
    /\ phase = "stopping" /\ w \notin exited
    /\ \/ Busy(w) /\ Finish(w, "lost")
       \/ /\ ~Busy(w) /\ exited' = exited \cup {w}
          /\ UNCHANGED <<buffer, stage, job, attempt>>
    /\ UNCHANGED <<life, database, faults>>

(* The process ends, and what is still in the queue with it. *)
Stop ==
    /\ phase = "stopping" /\ exited = Worker
    /\ phase' = "stopped"
    /\ stage' = [m \in Message |-> IF stage[m] = "queued" THEN "lost" ELSE stage[m]]
    /\ UNCHANGED <<buffer, workers, producing, timedOut, database, faults>>

-----------------------------------------------------------------------------
Init ==
    /\ queue = <<>> /\ unfinished = 0
    /\ stage = [m \in Message |-> "unsent"]
    /\ job = [w \in Worker |-> NoMessage]
    /\ attempt = [w \in Worker |-> 0]
    /\ exited = {}
    /\ producing = TRUE /\ phase = "running" /\ timedOut = FALSE
    /\ row = [f \in Field |-> NoMessage]
    /\ applied = [m \in Message |-> 0]
    /\ faults = 0

Work(w) == Take(w) \/ Succeed(w)

Next ==
    \/ \E m \in Message : Put(m) \/ PutResumes(m) \/ PutTimesOut(m)
    \/ \E w \in Worker :
          \/ Work(w) \/ TransientError(w) \/ CommitUnheard(w) \/ PermanentError(w)
          \/ CancelWorker(w)
    \/ StopProducers \/ Close \/ Drained \/ DrainTimesOut \/ Stop

Spec == Init /\ [][Next]_vars

(* The event loop runs the workers and the producers that wait; a shutdown *)
(* that has begun goes on, and cancels the workers that have not ended.    *)
(* Neither the other timeouts nor failures need to happen.                 *)
Fairness ==
    /\ \A w \in Worker : WF_vars(Work(w)) /\ WF_vars(CancelWorker(w))
    /\ \A m \in Message : WF_vars(PutResumes(m))
    /\ WF_vars(Close) /\ WF_vars(Drained) /\ WF_vars(Stop)

FairSpec == Spec /\ Fairness

-----------------------------------------------------------------------------
(* Properties. *)

(* Every variable has its type. *)
TypeOK ==
    /\ queue \in Seq(Message) /\ Len(queue) <= MaxSize
    /\ stage \in [Message -> Stage]
    /\ job \in [Worker -> Message \cup {NoMessage}]
    /\ attempt \in [Worker -> 0..MaxAttempts]
    /\ exited \subseteq Worker
    /\ producing \in BOOLEAN /\ timedOut \in BOOLEAN /\ phase \in Phase
    /\ row \in [Field -> Message \cup {NoMessage}]
    /\ applied \in [Message -> Nat]
    /\ unfinished \in Nat /\ faults \in Nat

(* join counts exactly the messages in the queue and in the hands of the   *)
(* workers, through evictions, retries, failures and cancellations: with   *)
(* one task_done too few a shutdown would never drain, with one too many   *)
(* it would not wait.                                                      *)
JoinIsExact ==
    unfinished = Len(queue) + Cardinality({w \in Worker : Busy(w)})

(* A shutdown that drains within its time loses nothing that was accepted  *)
(* and refuses nothing: the producers stop before the queue closes.        *)
DrainLosesNothing ==
    ~timedOut =>
        \A m \in Message :
            /\ stage[m] \notin {"refused", "lost"}
            /\ phase \in {"stopping", "stopped"} =>
                   stage[m] \notin {"putting", "queued", "processing"}

(* What becomes of a message says what became of its write: a message that *)
(* was dropped, refused or given up before a worker had it is not in the   *)
(* database, one that is done is, and none is committed more often than it *)
(* is attempted, whoever took it, retried it or was cancelled with it.     *)
Untaken == {"unsent", "putting", "queued", "evicted", "timed_out", "cancelled",
            "refused"}
CommitsAreAttempts ==
    \A m \in Message :
        /\ applied[m] <= MaxAttempts
        /\ stage[m] \in Untaken => applied[m] = 0
        /\ stage[m] = "done" => applied[m] > 0

(* Whatever is evicted, retried, cancelled or lost, the database sees what *)
(* DurableWrites promises: only a message in the hands of a worker is      *)
(* committed, not after it was settled and not more often than it may be   *)
(* attempted; what is reported done was committed, and what was dropped    *)
(* never is.                                                               *)
Outcome(s) ==
    CASE s \in {"unsent", "putting", "queued"} -> "waiting"
      [] s = "processing" -> "taken"
      [] s = "done" -> "done"
      [] s \in {"evicted", "timed_out", "cancelled", "refused"} -> "dropped"
      [] s \in {"failed", "lost"} -> "unknown"

Durable == INSTANCE DurableWrites WITH state <- [m \in Message |-> Outcome(stage[m])]
ImplementsWrites == Durable!DSpec

(* Producers that write disjoint fields of a row do not clobber each       *)
(* other: a field written by a single committed message holds its value,   *)
(* whatever was committed, retried or lost around it.                      *)
DisjointFieldsSurvive ==
    \A m \in Message : applied[m] > 0 =>
        \A f \in Writes[m] :
            (\A k \in Message \ {m} : applied[k] > 0 => f \notin Writes[k])
                => row[f] = m

(* Every message that a producer has handed over is settled in the end: no *)
(* put blocks for ever and no message is left behind.                      *)
EveryMessageSettles ==
    \A m \in Message : stage[m] # "unsent" ~> stage[m] \in Settled

(* A shutdown comes to its end, also when nothing times out. *)
ShutdownEnds == ~producing ~> phase = "stopped"

(* Two claims the code does not keep; no run checks them.                  *)

(* "periodic indicator/score writes that MUST land every cycle; block      *)
(* producer indefinitely (no drop)" (messages.py, Categories).             *)
SchedulerNeverDropped ==
    \A m \in Message :
        Category[m] \in {"scheduler", "critical"} => stage[m] # "evicted"

(* "repeated delivery of the same message is a no-op (or idempotent        *)
(* merge)" (repositories.py): a second commit of a message changes nothing.*)
RepeatIsNoOp ==
    [][\A m \in Message :
          applied[m] > 0 /\ applied'[m] > applied[m] => row' = row]_vars

-----------------------------------------------------------------------------
(* The inductive invariant behind DrainLosesNothing. *)

(* A message that is queued or processed is where its stage says. *)
Accounted ==
    \A m \in Message :
        /\ stage[m] = "queued" => \E k \in 1..Len(queue) : queue[k] = m
        /\ stage[m] = "processing" => \E w \in Worker : job[w] = m

(* The queue closes behind the producers. *)
ProducersFirst ==
    /\ Closed => ~producing
    /\ \A m \in Message : stage[m] = "putting" => producing

(* After a drain in time the queue and the workers are empty, and stay so. *)
DrainedIsEmpty ==
    phase \in {"stopping", "stopped"} /\ ~timedOut =>
        queue = <<>> /\ \A w \in Worker : ~Busy(w)

NothingLost ==
    ~timedOut => \A m \in Message : stage[m] \notin {"refused", "lost"}

IInv ==
    /\ TypeOK /\ JoinIsExact /\ Accounted
    /\ ProducersFirst /\ DrainedIsEmpty /\ NothingLost

(* The inductive invariant behind CommitsAreAttempts: a message is in one  *)
(* place.  What is in the queue of a process that has ended is lost, but   *)
(* no worker is left to take it.                                           *)
OnePlace ==
    /\ phase # "stopped" =>
           \A i, j \in 1..Len(queue) :
              stage[queue[i]] = "queued" /\ (queue[i] = queue[j] => i = j)
    /\ phase = "stopped" => exited = Worker
    /\ \A w \in exited : ~Busy(w)
    /\ \A w \in Worker : Busy(w) =>
           /\ stage[job[w]] = "processing" /\ applied[job[w]] < attempt[w]
           /\ \A v \in Worker : job[v] = job[w] => v = w

CommitInv == OnePlace /\ CommitsAreAttempts
=============================================================================
