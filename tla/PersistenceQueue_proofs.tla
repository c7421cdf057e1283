----------------------- MODULE PersistenceQueue_proofs -----------------------
(***************************************************************************)
(* Proofs about the persistence queue, for any messages, any number of     *)
(* workers and any size of the queue.                                      *)
(***************************************************************************)
EXTENDS PersistenceQueue, FiniteSetTheorems, TLAPS

BusyWorkers == {w \in Worker : Busy(w)}

(* The busy workers can be counted. *)
LEMMA BusyCount ==
    /\ IsFiniteSet(BusyWorkers) /\ Cardinality(BusyWorkers) \in Nat
    /\ Cardinality(BusyWorkers) = 0 <=> \A w \in Worker : ~Busy(w)
<1>1. IsFiniteSet(BusyWorkers)
  BY WorkerAssumption, FS_Subset DEF BusyWorkers
<1>2. Cardinality(BusyWorkers) = 0 <=> BusyWorkers = {}
  BY <1>1, FS_EmptySet
<1> QED
  BY <1>1, <1>2, FS_CardinalityType DEF BusyWorkers

(* Nothing but a change of job, queue or unfinished touches the count. *)
LEMMA SameCount ==
    ASSUME JoinIsExact, UNCHANGED <<queue, unfinished, job>>
    PROVE  JoinIsExact'
  BY DEF JoinIsExact, Busy

(* At the start nothing is queued, processed or lost. *)
LEMMA InitIInv == Init => IInv
<1> SUFFICES ASSUME Init PROVE IInv
  OBVIOUS
<1>1. TypeOK
  <2>1. queue \in Seq(Message) /\ Len(queue) <= MaxSize
    BY SizeAssumption DEF Init
  <2>2. job \in [Worker -> Message \cup {NoMessage}] /\ attempt \in [Worker -> 0..MaxAttempts]
    BY SizeAssumption DEF Init
  <2>3. /\ stage \in [Message -> Stage] /\ applied \in [Message -> Nat]
        /\ row \in [Field -> Message \cup {NoMessage}]
    BY DEF Init, Stage, Settled
  <2> QED
    BY <2>1, <2>2, <2>3 DEF Init, TypeOK, Phase
<1>2. JoinIsExact
  BY BusyCount DEF Init, JoinIsExact, Busy, BusyWorkers
<1>3. Accounted /\ ProducersFirst /\ DrainedIsEmpty /\ NothingLost
  BY DEF Init, Accounted, ProducersFirst, DrainedIsEmpty, NothingLost, Closed
<1> QED
  BY <1>1, <1>2, <1>3 DEF IInv

-----------------------------------------------------------------------------
(* Producers. *)

(* A message that enters by a free slot is counted and accounted for. *)
LEMMA AddKeeps ==
    ASSUME IInv, NEW m \in Message, Add(m), producing,
           UNCHANGED <<workers, life, database, faults>>
    PROVE  IInv'
<1>1. /\ queue \in Seq(Message) /\ stage \in [Message -> Stage]
      /\ unfinished \in Nat /\ MaxSize \in Nat /\ Len(queue) < MaxSize
  BY SizeAssumption DEF IInv, TypeOK, Add, Full
<1>2. /\ queue' \in Seq(Message) /\ Len(queue') = Len(queue) + 1
      /\ queue'[Len(queue) + 1] = m
      /\ \A k \in 1..Len(queue) : queue'[k] = queue[k]
      /\ stage' = [stage EXCEPT ![m] = "queued"]
      /\ unfinished' = unfinished + 1
  BY <1>1 DEF Add, Move
<1>3. TypeOK'
  BY <1>1, <1>2 DEF IInv, TypeOK, Stage, workers, life, database
<1>4. JoinIsExact'
  <2>1. Cardinality({w \in Worker : Busy(w)})' = Cardinality({w \in Worker : Busy(w)})
    BY DEF Busy, workers
  <2> QED
    BY <1>1, <1>2, <2>1, BusyCount DEF IInv, JoinIsExact, BusyWorkers
<1>5. Accounted'
  <2> SUFFICES ASSUME NEW k \in Message
               PROVE  /\ stage'[k] = "queued" => \E n \in 1..Len(queue') : queue'[n] = k
                      /\ stage'[k] = "processing" => \E w \in Worker : job'[w] = k
    BY DEF Accounted
  <2>1. CASE k = m
    BY <1>1, <1>2, <2>1
  <2>2. CASE k # m
    <3>1. stage'[k] = stage[k]
      BY <1>1, <1>2, <2>2
    <3>2. stage[k] = "queued" => \E n \in 1..Len(queue) : queue[n] = k
      BY DEF IInv, Accounted
    <3> QED
      BY <1>1, <1>2, <3>1, <3>2 DEF IInv, Accounted, workers
  <2> QED
    BY <2>1, <2>2
<1>6. ProducersFirst' /\ NothingLost'
  BY <1>1, <1>2 DEF IInv, ProducersFirst, NothingLost, Closed, life
<1>7. DrainedIsEmpty'
  BY DEF IInv, ProducersFirst, DrainedIsEmpty, Closed, life
<1> QED
  BY <1>3, <1>4, <1>5, <1>6, <1>7 DEF IInv

(* An eviction replaces the oldest message and keeps the count. *)
LEMMA EvictKeeps ==
    ASSUME IInv, NEW m \in Message, Full, Evict(m), producing,
           UNCHANGED <<workers, life, database, faults>>
    PROVE  IInv'
<1>1. /\ queue \in Seq(Message) /\ stage \in [Message -> Stage]
      /\ unfinished \in Nat /\ MaxSize \in Nat \ {0} /\ Len(queue) = MaxSize
  BY SizeAssumption DEF IInv, TypeOK, Full
<1>2. queue # <<>> /\ Head(queue) \in Message /\ Head(queue) = queue[1]
  BY <1>1
<1>3. /\ Tail(queue) \in Seq(Message) /\ Len(Tail(queue)) = Len(queue) - 1
      /\ \A n \in 1..(Len(queue) - 1) : Tail(queue)[n] = queue[n + 1]
  BY <1>1, <1>2
<1>4. /\ queue' \in Seq(Message) /\ Len(queue') = Len(queue)
      /\ queue'[Len(queue)] = m
      /\ \A n \in 1..(Len(queue) - 1) : queue'[n] = queue[n + 1]
  BY <1>1, <1>3 DEF Evict
<1>5. /\ stage' = [stage EXCEPT ![Head(queue)] = "evicted", ![m] = "queued"]
      /\ unfinished' = unfinished
  BY DEF Evict
<1>6. TypeOK'
  BY <1>1, <1>2, <1>4, <1>5 DEF IInv, TypeOK, Stage, Settled, workers, life, database
<1>7. JoinIsExact'
  BY <1>4, <1>5 DEF IInv, JoinIsExact, Busy, workers
<1>8. Accounted'
  <2> SUFFICES ASSUME NEW k \in Message
               PROVE  /\ stage'[k] = "queued" => \E n \in 1..Len(queue') : queue'[n] = k
                      /\ stage'[k] = "processing" => \E w \in Worker : job'[w] = k
    BY DEF Accounted
  <2>1. CASE k = m
    BY <1>1, <1>2, <1>4, <1>5, <2>1
  <2>2. CASE k # m /\ k = Head(queue)
    BY <1>1, <1>2, <1>5, <2>2
  <2>3. CASE k # m /\ k # Head(queue)
    <3>1. stage'[k] = stage[k]
      BY <1>1, <1>2, <1>5, <2>3
    <3>2. ASSUME stage[k] = "queued" PROVE \E n \in 1..Len(queue') : queue'[n] = k
      <4>1. PICK n \in 1..Len(queue) : queue[n] = k
        BY <3>2 DEF IInv, Accounted
      <4>2. n # 1
        BY <1>2, <2>3, <4>1
      <4>3. n - 1 \in 1..(Len(queue) - 1) /\ queue'[n - 1] = k
        BY <1>1, <1>4, <4>1, <4>2
      <4> QED
        BY <1>1, <1>4, <4>3
    <3> QED
      BY <3>1, <3>2 DEF IInv, Accounted, workers
  <2> QED
    BY <2>1, <2>2, <2>3
<1>9. ProducersFirst' /\ NothingLost' /\ DrainedIsEmpty'
  BY <1>1, <1>2, <1>5 DEF IInv, ProducersFirst, NothingLost, DrainedIsEmpty, Closed, life
<1> QED
  BY <1>6, <1>7, <1>8, <1>9 DEF IInv

(* A put is refused by nobody, queues its message, waits or evicts. *)
LEMMA PutKeeps == ASSUME IInv, NEW m \in Message, Put(m) PROVE IInv'
<1>1. producing /\ ~Closed /\ UNCHANGED <<workers, life, database, faults>>
  BY DEF Put, IInv, ProducersFirst
<1>2. CASE Add(m)
  BY <1>1, <1>2, AddKeeps
<1>3. CASE Full /\ ~Blocks(m) /\ Evict(m)
  BY <1>1, <1>3, EvictKeeps
<1>4. CASE Full /\ Blocks(m) /\ Move(m, "putting") /\ UNCHANGED buffer
  <2>1. stage \in [Message -> Stage] /\ stage' = [stage EXCEPT ![m] = "putting"]
    BY <1>4 DEF IInv, TypeOK, Move
  <2>2. TypeOK'
    BY <1>1, <1>4, <2>1 DEF IInv, TypeOK, Stage, buffer, workers, life, database
  <2>3. JoinIsExact'
    BY <1>1, <1>4, SameCount DEF IInv, buffer, workers
  <2>4. Accounted' /\ ProducersFirst' /\ DrainedIsEmpty' /\ NothingLost'
    BY <1>1, <1>4, <2>1 DEF IInv, Accounted, ProducersFirst, DrainedIsEmpty, NothingLost,
       Closed, Busy, buffer, workers, life
  <2> QED
    BY <2>2, <2>3, <2>4 DEF IInv
<1> QED
  BY <1>1, <1>2, <1>3, <1>4 DEF Put

(* A producer that waited still runs. *)
LEMMA PutResumesKeeps == ASSUME IInv, NEW m \in Message, PutResumes(m) PROVE IInv'
  BY AddKeeps DEF PutResumes, IInv, ProducersFirst

(* A step that moves waiting messages out, or ends a phase, and leaves the *)
(* queue and the workers alone.                                            *)
LEMMA PutTimesOutKeeps == ASSUME IInv, NEW m \in Message, PutTimesOut(m) PROVE IInv'
<1>1. stage \in [Message -> Stage] /\ stage' = [stage EXCEPT ![m] = "timed_out"]
  BY DEF IInv, TypeOK, Move, PutTimesOut
<1>2. UNCHANGED <<buffer, workers, life, database, faults>>
  BY DEF PutTimesOut
<1>3. TypeOK'
  BY <1>1, <1>2 DEF IInv, TypeOK, Stage, Settled, buffer, workers, life, database
<1>4. JoinIsExact'
  BY <1>2, SameCount DEF IInv, buffer, workers
<1>5. Accounted' /\ ProducersFirst' /\ DrainedIsEmpty' /\ NothingLost'
  BY <1>1, <1>2 DEF IInv, Accounted, ProducersFirst, DrainedIsEmpty, NothingLost,
     Closed, Busy, buffer, workers, life
<1> QED
  BY <1>3, <1>4, <1>5 DEF IInv

-----------------------------------------------------------------------------
(* Workers. *)

(* A worker takes the oldest message; it stays counted. *)
LEMMA TakeKeeps == ASSUME IInv, NEW w \in Worker, Take(w) PROVE IInv'
<1>1. /\ queue \in Seq(Message) /\ queue # <<>> /\ stage \in [Message -> Stage]
      /\ job \in [Worker -> Message \cup {NoMessage}] /\ job[w] = NoMessage
      /\ attempt \in [Worker -> 0..MaxAttempts] /\ MaxAttempts \in Nat \ {0}
  BY SizeAssumption DEF IInv, TypeOK, Take, Busy
<1>2. Head(queue) \in Message /\ Head(queue) = queue[1] /\ Head(queue) # NoMessage
  BY <1>1, MessageAssumption
<1>3. /\ queue' = Tail(queue) /\ queue' \in Seq(Message) /\ Len(queue') = Len(queue) - 1
      /\ \A n \in 1..(Len(queue) - 1) : queue'[n] = queue[n + 1]
  BY <1>1 DEF Take
<1>4. /\ job' = [job EXCEPT ![w] = Head(queue)]
      /\ attempt' = [attempt EXCEPT ![w] = 1]
      /\ stage' = [stage EXCEPT ![Head(queue)] = "processing"]
      /\ UNCHANGED <<unfinished, exited, life, database, faults>>
  BY DEF Take, Move
<1>5. TypeOK'
  <2>1. Len(queue') <= MaxSize
    BY <1>1, <1>3, SizeAssumption DEF IInv, TypeOK
  <2>2. /\ job' \in [Worker -> Message \cup {NoMessage}] /\ attempt' \in [Worker -> 0..MaxAttempts]
        /\ stage' \in [Message -> Stage]
    BY <1>1, <1>2, <1>4 DEF Stage
  <2> QED
    BY <1>3, <1>4, <2>1, <2>2 DEF IInv, TypeOK, life, database
<1>6. JoinIsExact'
  <2>1. {v \in Worker : Busy(v)}' = BusyWorkers \cup {w}
    BY <1>1, <1>2, <1>4 DEF Busy, BusyWorkers
  <2>2. w \notin BusyWorkers
    BY <1>1 DEF Busy, BusyWorkers
  <2>3. Cardinality(BusyWorkers \cup {w}) = Cardinality(BusyWorkers) + 1
    BY <2>2, BusyCount, FS_AddElement
  <2>4. /\ unfinished = Len(queue) + Cardinality(BusyWorkers)
        /\ Cardinality(BusyWorkers) \in Nat
    BY BusyCount DEF IInv, JoinIsExact, BusyWorkers
  <2>5. unfinished' = Len(queue') + Cardinality(BusyWorkers \cup {w})
    BY <1>1, <1>3, <1>4, <2>3, <2>4
  <2> QED
    BY <2>1, <2>5, Zenon DEF JoinIsExact
<1>7. Accounted'
  <2> SUFFICES ASSUME NEW k \in Message
               PROVE  /\ stage'[k] = "queued" => \E n \in 1..Len(queue') : queue'[n] = k
                      /\ stage'[k] = "processing" => \E v \in Worker : job'[v] = k
    BY DEF Accounted
  <2>1. CASE k = Head(queue)
    BY <1>1, <1>2, <1>4, <2>1
  <2>2. CASE k # Head(queue)
    <3>1. stage'[k] = stage[k]
      BY <1>1, <1>2, <1>4, <2>2
    <3>2. ASSUME stage[k] = "queued" PROVE \E n \in 1..Len(queue') : queue'[n] = k
      <4>1. PICK n \in 1..Len(queue) : queue[n] = k
        BY <3>2 DEF IInv, Accounted
      <4>2. n - 1 \in 1..(Len(queue) - 1) /\ queue'[n - 1] = k
        BY <1>1, <1>2, <1>3, <2>2, <4>1
      <4> QED
        BY <1>1, <1>3, <4>2
    <3>3. ASSUME stage[k] = "processing" PROVE \E v \in Worker : job'[v] = k
      <4>1. PICK v \in Worker : job[v] = k
        BY <3>3 DEF IInv, Accounted
      <4>2. v # w
        BY <1>1, <4>1, MessageAssumption
      <4> QED
        BY <1>1, <1>4, <4>1, <4>2
    <3> QED
      BY <3>1, <3>2, <3>3
  <2> QED
    BY <2>1, <2>2
<1>8. ProducersFirst' /\ NothingLost'
  BY <1>1, <1>2, <1>4 DEF IInv, ProducersFirst, NothingLost, Closed, life
<1>9. DrainedIsEmpty'
  BY <1>1, <1>4 DEF IInv, DrainedIsEmpty, life
<1> QED
  BY <1>5, <1>6, <1>7, <1>8, <1>9 DEF IInv

(* A worker that settles its message uncounts it; a message is only lost   *)
(* after the drain timed out.                                              *)
LEMMA FinishKeeps ==
    ASSUME IInv, NEW w \in Worker, Busy(w), NEW s \in Settled \ {"refused"}, Finish(w, s),
           s = "lost" => timedOut,
           UNCHANGED life, row' \in [Field -> Message \cup {NoMessage}],
           applied' \in [Message -> Nat], faults' \in Nat
    PROVE  IInv'
<1>1. /\ queue \in Seq(Message) /\ stage \in [Message -> Stage] /\ unfinished \in Nat
      /\ job \in [Worker -> Message \cup {NoMessage}] /\ job[w] \in Message
      /\ attempt \in [Worker -> 0..MaxAttempts] /\ MaxAttempts \in Nat \ {0}
  BY SizeAssumption DEF IInv, TypeOK, Busy
<1>2. /\ job' = [job EXCEPT ![w] = NoMessage] /\ stage' = [stage EXCEPT ![job[w]] = s]
      /\ attempt' = [attempt EXCEPT ![w] = 0]
      /\ unfinished' = unfinished - 1 /\ queue' = queue
      /\ exited' = IF phase = "stopping" THEN exited \cup {w} ELSE exited
  BY DEF Finish, Move
<1>3. /\ unfinished = Len(queue) + Cardinality(BusyWorkers)
      /\ w \in BusyWorkers
      /\ Cardinality(BusyWorkers \ {w}) = Cardinality(BusyWorkers) - 1
      /\ Cardinality(BusyWorkers) \in Nat /\ Cardinality(BusyWorkers) # 0
  <2>1. w \in BusyWorkers
    BY DEF BusyWorkers
  <2>2. Cardinality(BusyWorkers \ {w}) = Cardinality(BusyWorkers) - 1
    BY <2>1, BusyCount, FS_RemoveElement
  <2> QED
    BY <2>1, <2>2, BusyCount DEF IInv, JoinIsExact, BusyWorkers
<1>4. TypeOK'
  <2>1. unfinished' \in Nat
    BY <1>1, <1>2, <1>3
  <2>2. stage' \in [Message -> Stage]
    BY <1>1, <1>2 DEF Stage
  <2>3. job' \in [Worker -> Message \cup {NoMessage}] /\ attempt' \in [Worker -> 0..MaxAttempts]
    BY <1>1, <1>2
  <2> QED
    BY <1>2, <2>1, <2>2, <2>3 DEF IInv, TypeOK, life
<1>5. JoinIsExact'
  <2>1. {v \in Worker : Busy(v)}' = BusyWorkers \ {w}
    BY <1>1, <1>2 DEF Busy, BusyWorkers
  <2>2. unfinished' = Len(queue') + Cardinality(BusyWorkers \ {w})
    BY <1>1, <1>2, <1>3
  <2> QED
    BY <2>1, <2>2, Zenon DEF JoinIsExact
<1>6. Accounted'
  <2> SUFFICES ASSUME NEW k \in Message
               PROVE  /\ stage'[k] = "queued" => \E n \in 1..Len(queue') : queue'[n] = k
                      /\ stage'[k] = "processing" => \E v \in Worker : job'[v] = k
    BY DEF Accounted
  <2>1. CASE k = job[w]
    BY <1>1, <1>2, <2>1 DEF Settled
  <2>2. CASE k # job[w]
    BY <1>1, <1>2, <2>2 DEF IInv, Accounted
  <2> QED
    BY <2>1, <2>2
<1>7. ProducersFirst' /\ NothingLost'
  <2>1. \A k \in Message : stage'[k] = stage[k] \/ stage'[k] = s
    BY <1>1, <1>2
  <2>2. s \notin {"putting", "refused"}
    BY DEF Settled
  <2> QED
    BY <2>1, <2>2 DEF IInv, ProducersFirst, NothingLost, Closed, life
<1>8. DrainedIsEmpty'
  BY <1>1, <1>2 DEF IInv, DrainedIsEmpty, Busy, life
<1> QED
  BY <1>4, <1>5, <1>6, <1>7, <1>8 DEF IInv

(* Whether it tries again or gives up, a worker keeps the invariant. *)
LEMMA RetryKeeps ==
    ASSUME IInv, NEW w \in Worker, Busy(w), Retry(w), UNCHANGED life,
           row' \in [Field -> Message \cup {NoMessage}],
           applied' \in [Message -> Nat], faults' \in Nat
    PROVE  IInv'
<1>1. CASE attempt[w] < MaxAttempts
  <2>1. /\ attempt' = [attempt EXCEPT ![w] = @ + 1]
        /\ UNCHANGED <<queue, unfinished, stage, job, exited>>
    BY <1>1 DEF Retry, buffer
  <2>2. attempt' \in [Worker -> 0..MaxAttempts]
    BY <1>1, <2>1, SizeAssumption DEF IInv, TypeOK
  <2>3. TypeOK'
    BY <2>1, <2>2 DEF IInv, TypeOK, life
  <2>4. JoinIsExact'
    BY <2>1, SameCount DEF IInv
  <2>5. Accounted' /\ ProducersFirst' /\ DrainedIsEmpty' /\ NothingLost'
    BY <2>1 DEF IInv, Accounted, ProducersFirst, DrainedIsEmpty, NothingLost, Closed, Busy, life
  <2> QED
    BY <2>3, <2>4, <2>5 DEF IInv
<1>2. CASE ~(attempt[w] < MaxAttempts)
  <2>1. Finish(w, "failed") /\ "failed" \in Settled \ {"refused"}
    BY <1>2 DEF Retry, Settled
  <2> QED
    BY <2>1, FinishKeeps
<1> QED
  BY <1>1, <1>2

(* A commit keeps the types of the database. *)
LEMMA CommitType ==
    ASSUME TypeOK, NEW m \in Message, Commit(m)
    PROVE  /\ row' \in [Field -> Message \cup {NoMessage}]
           /\ applied' \in [Message -> Nat]
  BY DEF TypeOK, Commit, Merge

(* The steps of a worker with its message. *)
LEMMA WorkerKeeps ==
    ASSUME IInv, NEW w \in Worker,
           \/ Succeed(w) \/ TransientError(w) \/ CommitUnheard(w) \/ PermanentError(w)
    PROVE  IInv'
<1>1. TypeOK /\ faults \in Nat /\ (Busy(w) => job[w] \in Message)
  BY DEF IInv, TypeOK, Busy
<1>2. {"done", "failed"} \subseteq Settled \ {"refused"}
  BY DEF Settled
<1>3. CASE Succeed(w)
  BY <1>1, <1>2, <1>3, CommitType, FinishKeeps DEF Succeed
<1>4. CASE TransientError(w)
  <2>1. /\ row' \in [Field -> Message \cup {NoMessage}] /\ applied' \in [Message -> Nat]
        /\ faults' \in Nat
    BY <1>1, <1>4 DEF TransientError, Faulty, TypeOK, database
  <2> QED
    BY <1>4, <2>1, RetryKeeps DEF TransientError
<1>5. CASE CommitUnheard(w)
  <2>1. faults' \in Nat
    BY <1>1, <1>5 DEF CommitUnheard, Faulty
  <2> QED
    BY <1>1, <1>5, <2>1, CommitType, RetryKeeps DEF CommitUnheard
<1>6. CASE PermanentError(w)
  <2>1. /\ row' \in [Field -> Message \cup {NoMessage}] /\ applied' \in [Message -> Nat]
        /\ faults' \in Nat
    BY <1>1, <1>6 DEF PermanentError, Faulty, TypeOK, database
  <2> QED
    BY <1>2, <1>6, <2>1, FinishKeeps DEF PermanentError
<1> QED
  BY <1>3, <1>4, <1>5, <1>6

(* A worker is cancelled with a message only after the drain timed out. *)
LEMMA CancelWorkerKeeps == ASSUME IInv, NEW w \in Worker, CancelWorker(w) PROVE IInv'
<1>1. CASE Busy(w) /\ Finish(w, "lost")
  <2>1. timedOut
    BY <1>1 DEF CancelWorker, IInv, DrainedIsEmpty
  <2>2. "lost" \in Settled \ {"refused"}
    BY DEF Settled
  <2>3. /\ UNCHANGED life /\ row' \in [Field -> Message \cup {NoMessage}]
        /\ applied' \in [Message -> Nat] /\ faults' \in Nat
    BY DEF CancelWorker, IInv, TypeOK, database
  <2> QED
    BY <1>1, <2>1, <2>2, <2>3, FinishKeeps
<1>2. CASE exited' = exited \cup {w} /\ UNCHANGED <<buffer, stage, job, attempt>>
  <2>1. UNCHANGED <<life, database, faults>>
    BY DEF CancelWorker
  <2>2. JoinIsExact'
    BY <1>2, SameCount DEF IInv, buffer
  <2>3. TypeOK' /\ Accounted' /\ ProducersFirst' /\ DrainedIsEmpty' /\ NothingLost'
    BY <1>2, <2>1 DEF IInv, TypeOK, Accounted, ProducersFirst, DrainedIsEmpty, NothingLost,
       Closed, Busy, buffer, life, database
  <2> QED
    BY <2>2, <2>3 DEF IInv
<1> QED
  BY <1>1, <1>2 DEF CancelWorker

-----------------------------------------------------------------------------
(* Shutdown. *)

(* The producers stop, and nothing waits any more. *)
LEMMA StopProducersKeeps == ASSUME IInv, StopProducers PROVE IInv'
<1>1. /\ stage \in [Message -> Stage]
      /\ \A m \in Message : stage'[m] = IF stage[m] = "putting" THEN "cancelled" ELSE stage[m]
      /\ stage' \in [Message -> Stage]
      /\ ~producing' /\ UNCHANGED <<buffer, workers, phase, timedOut, database, faults>>
  BY DEF StopProducers, IInv, TypeOK, Stage, Settled
<1>2. TypeOK'
  BY <1>1 DEF StopProducers, IInv, TypeOK, buffer, workers, database
<1>3. JoinIsExact'
  BY <1>1, SameCount DEF IInv, buffer, workers
<1>4. Accounted' /\ ProducersFirst' /\ DrainedIsEmpty' /\ NothingLost'
  BY <1>1 DEF IInv, Accounted, ProducersFirst, DrainedIsEmpty, NothingLost, Closed, Busy,
     buffer, workers
<1> QED
  BY <1>2, <1>3, <1>4 DEF IInv

(* The pool goes on to stop when the count is zero, that is, when nothing  *)
(* is queued or processed; or it gives up and says so.                     *)
LEMMA PhaseKeeps == ASSUME IInv, Close \/ Drained \/ DrainTimesOut PROVE IInv'
<1>1. /\ UNCHANGED <<buffer, stage, workers, producing, database, faults>>
      /\ phase' \in {"draining", "stopping"} /\ ~producing
      /\ timedOut' \in BOOLEAN /\ (timedOut => timedOut')
  BY DEF Close, Drained, DrainTimesOut, IInv, TypeOK, ProducersFirst, Closed
<1>2. TypeOK'
  BY <1>1 DEF IInv, TypeOK, Phase, buffer, workers, database
<1>3. JoinIsExact'
  BY <1>1, SameCount DEF IInv, buffer, workers
<1>4. Accounted' /\ ProducersFirst' /\ NothingLost'
  BY <1>1 DEF IInv, Accounted, ProducersFirst, NothingLost, Closed, buffer, workers
<1>5. DrainedIsEmpty'
  <2>1. CASE Drained
    <3>1. Len(queue) \in Nat /\ unfinished = Len(queue) + Cardinality(BusyWorkers)
      BY DEF IInv, TypeOK, JoinIsExact, BusyWorkers
    <3>2. Len(queue) = 0 /\ Cardinality(BusyWorkers) = 0
      BY <2>1, <3>1, BusyCount DEF Drained
    <3>3. queue = <<>> /\ \A w \in Worker : ~Busy(w)
      BY <3>2, BusyCount DEF IInv, TypeOK
    <3> QED
      BY <1>1, <3>3 DEF DrainedIsEmpty, Busy, buffer, workers
  <2>2. CASE Close \/ DrainTimesOut
    BY <2>2 DEF Close, DrainTimesOut, DrainedIsEmpty
  <2> QED
    BY <2>1, <2>2
<1> QED
  BY <1>2, <1>3, <1>4, <1>5 DEF IInv

(* What is still queued is lost with the process, after a timeout only. *)
LEMMA StopKeeps == ASSUME IInv, Stop PROVE IInv'
<1>1. /\ stage \in [Message -> Stage]
      /\ \A m \in Message : stage'[m] = IF stage[m] = "queued" THEN "lost" ELSE stage[m]
      /\ stage' \in [Message -> Stage]
      /\ phase = "stopping" /\ phase' = "stopped"
      /\ UNCHANGED <<buffer, workers, producing, timedOut, database, faults>>
  BY DEF Stop, IInv, TypeOK, Stage, Settled
<1>2. TypeOK'
  BY <1>1 DEF IInv, TypeOK, Phase, buffer, workers, database
<1>3. JoinIsExact'
  BY <1>1, SameCount DEF IInv, buffer, workers
<1>4. Accounted' /\ ProducersFirst' /\ DrainedIsEmpty'
  BY <1>1 DEF IInv, Accounted, ProducersFirst, DrainedIsEmpty, Closed, Busy, buffer, workers
<1>5. NothingLost'
  <2> SUFFICES ASSUME ~timedOut, NEW m \in Message PROVE stage'[m] \notin {"refused", "lost"}
    BY <1>1 DEF NothingLost
  <2>1. queue = <<>>
    BY <1>1 DEF IInv, DrainedIsEmpty
  <2>2. stage[m] # "queued"
    BY <2>1 DEF IInv, Accounted
  <2> QED
    BY <1>1, <2>2 DEF IInv, NothingLost
<1> QED
  BY <1>2, <1>3, <1>4, <1>5 DEF IInv

-----------------------------------------------------------------------------
(* A step without effect. *)
LEMMA StutterKeeps == ASSUME IInv, UNCHANGED vars PROVE IInv'
<1>1. UNCHANGED <<buffer, stage, workers, life, database, faults>>
  BY DEF vars
<1>2. JoinIsExact'
  BY <1>1, SameCount DEF IInv, buffer, workers
<1>3. TypeOK' /\ Accounted' /\ ProducersFirst' /\ DrainedIsEmpty' /\ NothingLost'
  BY <1>1 DEF IInv, TypeOK, Accounted, ProducersFirst, DrainedIsEmpty, NothingLost,
     Closed, Busy, buffer, workers, life, database
<1> QED
  BY <1>2, <1>3 DEF IInv

(* The inductive invariant holds in every reachable state. *)
THEOREM Invariance == Spec => []IInv
<1>1. ASSUME IInv, [Next]_vars PROVE IInv'
  <2>1. ASSUME NEW m \in Message, Put(m) \/ PutResumes(m) \/ PutTimesOut(m) PROVE IInv'
    BY <1>1, <2>1, PutKeeps, PutResumesKeeps, PutTimesOutKeeps
  <2>2. ASSUME NEW w \in Worker,
               \/ Work(w) \/ TransientError(w) \/ CommitUnheard(w) \/ PermanentError(w)
               \/ CancelWorker(w)
        PROVE  IInv'
    BY <1>1, <2>2, TakeKeeps, WorkerKeeps, CancelWorkerKeeps DEF Work
  <2>3. CASE StopProducers \/ Close \/ Drained \/ DrainTimesOut \/ Stop
    BY <1>1, <2>3, StopProducersKeeps, PhaseKeeps, StopKeeps
  <2>4. CASE UNCHANGED vars
    BY <1>1, <2>4, StutterKeeps
  <2> QED
    BY <1>1, <2>1, <2>2, <2>3, <2>4, Zenon DEF Next
<1> QED
  BY InitIInv, <1>1, PTL DEF Spec

(* Every variable keeps its type. *)
THEOREM TypeCorrect == Spec => []TypeOK
<1>1. IInv => TypeOK
  BY DEF IInv
<1> QED
  BY Invariance, <1>1, PTL

(* The count that join waits on is exact, whatever is evicted, retried,    *)
(* fails or is cancelled.                                                  *)
THEOREM JoinCountsExactly == Spec => []JoinIsExact
<1>1. IInv => JoinIsExact
  BY DEF IInv
<1> QED
  BY Invariance, <1>1, PTL

(* A shutdown that drains in time neither loses nor refuses a message, for *)
(* any number of messages and workers and any size of the queue.           *)
THEOREM DrainIsComplete == Spec => []DrainLosesNothing
<1>1. ASSUME IInv PROVE DrainLosesNothing
  <2> SUFFICES ASSUME ~timedOut, NEW m \in Message
               PROVE  /\ stage[m] \notin {"refused", "lost"}
                      /\ phase \in {"stopping", "stopped"} =>
                             stage[m] \notin {"putting", "queued", "processing"}
    BY DEF DrainLosesNothing
  <2>1. stage[m] \notin {"refused", "lost"}
    BY <1>1 DEF IInv, NothingLost
  <2>2. ASSUME phase \in {"stopping", "stopped"}
        PROVE  stage[m] \notin {"putting", "queued", "processing"}
    <3>1. queue = <<>> /\ \A w \in Worker : ~Busy(w)
      BY <1>1, <2>2 DEF IInv, DrainedIsEmpty
    <3>2. stage[m] # "queued"
      BY <1>1, <3>1 DEF IInv, Accounted
    <3>3. stage[m] # "processing"
      BY <1>1, <3>1, MessageAssumption DEF IInv, Accounted, Busy
    <3>4. stage[m] # "putting"
      BY <1>1, <2>2 DEF IInv, ProducersFirst, Closed
    <3> QED
      BY <3>2, <3>3, <3>4
  <2> QED
    BY <2>1, <2>2
<1> QED
  BY Invariance, <1>1, PTL

-----------------------------------------------------------------------------
(* The row. *)

(* A field holds a committed message that carries it, and it holds one as  *)
(* soon as such a message was committed.                                   *)
FromCommits ==
    \A f \in Field :
        /\ row[f] # NoMessage => f \in Writes[row[f]] /\ applied[row[f]] > 0
        /\ \A m \in Message : applied[m] > 0 /\ f \in Writes[m] => row[f] # NoMessage

(* A commit writes no field that its message does not carry. *)
LEMMA CommitRow ==
    ASSUME TypeOK, FromCommits, NEW m \in Message, Commit(m)
    PROVE  FromCommits'
<1>1. /\ row \in [Field -> Message \cup {NoMessage}] /\ applied \in [Message -> Nat]
      /\ \A k \in Message : applied'[k] = IF k = m THEN applied[k] + 1 ELSE applied[k]
      /\ \A f \in Field :
             row'[f] = IF f \in Writes[m] /\ (m \in InsertOnly => row[f] = NoMessage)
                       THEN m ELSE row[f]
  BY DEF TypeOK, Commit, Merge
<1>2. m # NoMessage
  BY MessageAssumption
<1>3. ASSUME NEW f \in Field, row'[f] # NoMessage
      PROVE  f \in Writes[row'[f]] /\ applied'[row'[f]] > 0
  <2>1. CASE row'[f] = m
    <3>1. f \in Writes[m]
      BY <1>1, <1>3, <2>1 DEF FromCommits
    <3> QED
      BY <1>1, <2>1, <3>1
  <2>2. CASE row'[f] # m
    <3>1. row'[f] = row[f] /\ row[f] \in Message
      BY <1>1, <1>3, <2>2
    <3> QED
      BY <1>1, <1>3, <3>1 DEF FromCommits
  <2> QED
    BY <2>1, <2>2
<1>4. ASSUME NEW f \in Field, NEW k \in Message, applied'[k] > 0, f \in Writes[k]
      PROVE  row'[f] # NoMessage
  <2>1. CASE row[f] # NoMessage
    BY <1>1, <1>2, <2>1
  <2>2. CASE row[f] = NoMessage
    <3>1. k = m
      BY <1>1, <1>4, <2>2 DEF FromCommits
    <3> QED
      BY <1>1, <1>2, <1>4, <2>2, <3>1
  <2> QED
    BY <2>1, <2>2
<1> QED
  BY <1>3, <1>4 DEF FromCommits

(* No other step touches the database. *)
LEMMA RowStep == ASSUME TypeOK, FromCommits, [Next]_vars PROVE FromCommits'
<1>1. ASSUME UNCHANGED database PROVE FromCommits'
  BY <1>1 DEF FromCommits, database
<1>2. ASSUME NEW w \in Worker, Succeed(w) \/ CommitUnheard(w) PROVE FromCommits'
  <2>1. job[w] \in Message /\ Commit(job[w])
    BY <1>2 DEF Succeed, CommitUnheard, Busy, TypeOK
  <2> QED
    BY <2>1, CommitRow
<1> QED
  BY <1>1, <1>2 DEF Next, Work, vars, Put, PutResumes, PutTimesOut, Take, TransientError,
     PermanentError, CancelWorker, StopProducers, Close, Drained, DrainTimesOut, Stop

(* Whatever is committed, committed again, retried or lost around it, a    *)
(* field that one committed message alone carries has that message's value.*)
THEOREM DisjointFieldsAreKept == Spec => []DisjointFieldsSurvive
<1>1. Init => FromCommits
  BY DEF Init, FromCommits
<1>2. TypeOK /\ FromCommits => DisjointFieldsSurvive
  <2> SUFFICES ASSUME TypeOK, FromCommits, NEW m \in Message, applied[m] > 0,
                      NEW f \in Writes[m],
                      \A k \in Message \ {m} : applied[k] > 0 => f \notin Writes[k]
               PROVE  row[f] = m
    BY DEF DisjointFieldsSurvive
  <2>1. f \in Field
    BY MessageAssumption
  <2>2. row[f] \in Message /\ f \in Writes[row[f]] /\ applied[row[f]] > 0
    BY <2>1 DEF FromCommits, TypeOK
  <2> QED
    BY <2>2
<1>3. TypeOK /\ FromCommits /\ [Next]_vars => FromCommits'
  BY RowStep
<1> QED
  BY <1>1, <1>2, <1>3, TypeCorrect, PTL DEF Spec

-----------------------------------------------------------------------------
(* Commits and attempts. *)

(* A message enters the queue by one producer, from outside. *)
LEMMA AddOnce ==
    ASSUME IInv, CommitInv, NEW m \in Message, Add(m), ~Closed,
           stage[m] \in {"unsent", "putting"},
           UNCHANGED <<workers, life, database, faults>>
    PROVE  CommitInv'
<1>1. /\ queue \in Seq(Message) /\ stage \in [Message -> Stage]
      /\ job \in [Worker -> Message \cup {NoMessage}]
      /\ phase = "running" /\ OnePlace /\ CommitsAreAttempts
  BY DEF IInv, TypeOK, CommitInv, Closed
<1>2. /\ Len(queue') = Len(queue) + 1 /\ Len(queue) \in Nat
      /\ queue'[Len(queue) + 1] = m
      /\ \A k \in 1..Len(queue) : queue'[k] = queue[k] /\ queue[k] \in Message
      /\ stage' = [stage EXCEPT ![m] = "queued"]
      /\ UNCHANGED <<job, attempt, exited, phase, applied>>
  BY <1>1 DEF Add, Move, workers, life, database
<1>3. \A k \in 1..Len(queue) : stage[queue[k]] = "queued" /\ queue[k] # m
  BY <1>1 DEF OnePlace
<1>4. \A i, j \in 1..Len(queue') :
          stage'[queue'[i]] = "queued" /\ (queue'[i] = queue'[j] => i = j)
  <2> SUFFICES ASSUME NEW i \in 1..Len(queue'), NEW j \in 1..Len(queue')
               PROVE  stage'[queue'[i]] = "queued" /\ (queue'[i] = queue'[j] => i = j)
    OBVIOUS
  <2>1. i \in 1..Len(queue) \/ i = Len(queue) + 1
    BY <1>2
  <2>2. j \in 1..Len(queue) \/ j = Len(queue) + 1
    BY <1>2
  <2> QED
    BY <1>1, <1>2, <1>3, <2>1, <2>2 DEF OnePlace
<1>5. OnePlace'
  BY <1>1, <1>2, <1>4 DEF OnePlace, Busy
<1>6. CommitsAreAttempts'
  BY <1>1, <1>2 DEF CommitsAreAttempts, Untaken
<1> QED
  BY <1>5, <1>6 DEF CommitInv

(* What is evicted was never taken. *)
LEMMA EvictOnce ==
    ASSUME IInv, CommitInv, NEW m \in Message, Full, Evict(m), ~Closed,
           stage[m] = "unsent",
           UNCHANGED <<workers, life, database, faults>>
    PROVE  CommitInv'
<1>1. /\ queue \in Seq(Message) /\ stage \in [Message -> Stage]
      /\ job \in [Worker -> Message \cup {NoMessage}]
      /\ phase = "running" /\ OnePlace /\ CommitsAreAttempts
      /\ MaxSize \in Nat \ {0} /\ Len(queue) = MaxSize
  BY SizeAssumption DEF IInv, TypeOK, CommitInv, Closed, Full
<1>2. queue # <<>> /\ Head(queue) \in Message /\ Head(queue) = queue[1]
  BY <1>1
<1>3. /\ Tail(queue) \in Seq(Message) /\ Len(Tail(queue)) = Len(queue) - 1
      /\ \A n \in 1..(Len(queue) - 1) : Tail(queue)[n] = queue[n + 1]
  BY <1>1, <1>2
<1>4. /\ Len(queue') = Len(queue) /\ queue'[Len(queue)] = m
      /\ \A n \in 1..(Len(queue) - 1) : queue'[n] = queue[n + 1]
      /\ stage' = [stage EXCEPT ![Head(queue)] = "evicted", ![m] = "queued"]
      /\ UNCHANGED <<job, attempt, exited, phase, applied>>
  BY <1>1, <1>3 DEF Evict, workers, life, database
<1>5. \A k \in 1..Len(queue) :
          /\ stage[queue[k]] = "queued" /\ queue[k] # m /\ queue[k] \in Message
          /\ k # 1 => queue[k] # Head(queue)
  BY <1>1, <1>2 DEF OnePlace
<1>6. \A i, j \in 1..Len(queue') :
          stage'[queue'[i]] = "queued" /\ (queue'[i] = queue'[j] => i = j)
  <2> SUFFICES ASSUME NEW i \in 1..Len(queue'), NEW j \in 1..Len(queue')
               PROVE  stage'[queue'[i]] = "queued" /\ (queue'[i] = queue'[j] => i = j)
    OBVIOUS
  <2>1. \A k \in 1..Len(queue') :
            \/ k = Len(queue) /\ queue'[k] = m
            \/ k \in 1..(Len(queue) - 1) /\ k + 1 \in 1..Len(queue) /\ queue'[k] = queue[k + 1]
    BY <1>1, <1>4
  <2>2. stage'[m] = "queued"
    BY <1>1, <1>4
  <2>3. \A k \in 1..(Len(queue) - 1) : stage'[queue[k + 1]] = "queued"
    <3> SUFFICES ASSUME NEW k \in 1..(Len(queue) - 1) PROVE stage'[queue[k + 1]] = "queued"
      OBVIOUS
    <3>1. k + 1 \in 1..Len(queue) /\ k + 1 # 1
      BY <1>1
    <3> QED
      BY <1>1, <1>2, <1>4, <1>5, <3>1
  <2>4. queue'[i] = queue'[j] => i = j
    BY <1>1, <1>5, <2>1 DEF OnePlace
  <2> QED
    BY <2>1, <2>2, <2>3, <2>4
<1>7. stage[Head(queue)] = "queued" /\ Head(queue) # m
  BY <1>1, <1>2, <1>5
<1>8. OnePlace'
  BY <1>1, <1>2, <1>4, <1>6, <1>7 DEF OnePlace, Busy
<1>9. CommitsAreAttempts'
  BY <1>1, <1>2, <1>4, <1>7 DEF CommitsAreAttempts, Untaken
<1> QED
  BY <1>8, <1>9 DEF CommitInv

(* A message that leaves a producer's hands otherwise was not taken. *)
LEMMA ProducerOnce ==
    ASSUME IInv, CommitInv, NEW m \in Message, Put(m) \/ PutResumes(m) \/ PutTimesOut(m)
    PROVE  CommitInv'
<1>1. /\ UNCHANGED <<workers, life, database, faults>>
      /\ stage[m] \in {"unsent", "putting"}
      /\ Put(m) \/ PutResumes(m) => ~Closed
  BY DEF Put, PutResumes, PutTimesOut, IInv, ProducersFirst
<1>2. ASSUME UNCHANGED queue, NEW s \in {"putting", "timed_out"}, Move(m, s)
      PROVE  CommitInv'
  <2>1. /\ stage \in [Message -> Stage] /\ stage' = [stage EXCEPT ![m] = s]
        /\ queue \in Seq(Message) /\ job \in [Worker -> Message \cup {NoMessage}]
    BY <1>2 DEF IInv, TypeOK, Move
  <2>2. \A k \in Message : stage'[k] = stage[k] \/ (k = m /\ stage'[k] = s)
    BY <2>1
  <2>3. \A k \in 1..Len(queue) : queue[k] \in Message
    BY <2>1
  <2>4. OnePlace'
    BY <1>1, <1>2, <2>1, <2>2, <2>3 DEF CommitInv, OnePlace, Busy, workers, life, database
  <2>5. CommitsAreAttempts'
    BY <1>1, <2>2 DEF CommitInv, CommitsAreAttempts, Untaken, database
  <2> QED
    BY <2>4, <2>5 DEF CommitInv
<1>3. CASE PutResumes(m) \/ (Put(m) /\ Add(m))
  BY <1>1, <1>3, AddOnce DEF PutResumes
<1>4. CASE Put(m) /\ Full /\ Evict(m)
  BY <1>1, <1>4, EvictOnce DEF Put
<1>5. CASE PutTimesOut(m) \/ (Put(m) /\ Move(m, "putting") /\ UNCHANGED buffer)
  BY <1>2, <1>5 DEF PutTimesOut, buffer
<1> QED
  BY <1>1, <1>3, <1>4, <1>5 DEF Put

(* A message is taken by one worker. *)
LEMMA TakeOnce == ASSUME IInv, CommitInv, NEW w \in Worker, Take(w) PROVE CommitInv'
<1>1. /\ queue \in Seq(Message) /\ queue # <<>> /\ stage \in [Message -> Stage]
      /\ job \in [Worker -> Message \cup {NoMessage}] /\ job[w] = NoMessage
      /\ attempt \in [Worker -> 0..MaxAttempts]
      /\ phase # "stopped" /\ OnePlace /\ CommitsAreAttempts /\ w \notin exited
  BY DEF IInv, TypeOK, Take, Busy, CommitInv, OnePlace
<1>2. Head(queue) \in Message /\ Head(queue) = queue[1] /\ Head(queue) # NoMessage
  BY <1>1, MessageAssumption
<1>3. /\ queue' = Tail(queue) /\ Len(queue') = Len(queue) - 1 /\ Len(queue) \in Nat \ {0}
      /\ \A n \in 1..(Len(queue) - 1) : queue'[n] = queue[n + 1]
  BY <1>1 DEF Take
<1>4. /\ job' = [job EXCEPT ![w] = Head(queue)]
      /\ attempt' = [attempt EXCEPT ![w] = 1]
      /\ stage' = [stage EXCEPT ![Head(queue)] = "processing"]
      /\ UNCHANGED <<exited, phase, applied>>
  BY DEF Take, Move, life, database
<1>5. stage[Head(queue)] = "queued" /\ applied[Head(queue)] = 0
  BY <1>1, <1>2, <1>3 DEF OnePlace, CommitsAreAttempts, Untaken
<1>6. \A i, j \in 1..Len(queue') :
          stage'[queue'[i]] = "queued" /\ (queue'[i] = queue'[j] => i = j)
  <2> SUFFICES ASSUME NEW i \in 1..Len(queue'), NEW j \in 1..Len(queue')
               PROVE  stage'[queue'[i]] = "queued" /\ (queue'[i] = queue'[j] => i = j)
    OBVIOUS
  <2>1. /\ i + 1 \in 1..Len(queue) /\ j + 1 \in 1..Len(queue) /\ 1 \in 1..Len(queue)
        /\ queue'[i] = queue[i + 1] /\ queue'[j] = queue[j + 1] /\ i + 1 # 1
    BY <1>3
  <2>2. /\ queue[i + 1] # Head(queue) /\ stage[queue[i + 1]] = "queued"
        /\ queue[i + 1] = queue[j + 1] => i + 1 = j + 1
    BY <1>1, <1>2, <2>1 DEF OnePlace
  <2> QED
    BY <1>1, <1>3, <1>4, <2>1, <2>2
<1>7. \A v \in Worker : Busy(v) => job[v] # Head(queue)
  BY <1>1, <1>5 DEF OnePlace
<1>8. ASSUME NEW v \in Worker, Busy(v)'
      PROVE  /\ stage'[job'[v]] = "processing" /\ applied'[job'[v]] < attempt'[v]
             /\ \A u \in Worker : job'[u] = job'[v] => u = v
  <2>1. CASE v = w
    BY <1>1, <1>2, <1>4, <1>5, <1>7, <2>1 DEF Busy
  <2>2. CASE v # w
    <3>1. Busy(v) /\ job'[v] = job[v] /\ attempt'[v] = attempt[v]
      BY <1>1, <1>4, <1>8, <2>2 DEF Busy
    <3> QED
      BY <1>1, <1>2, <1>4, <1>7, <2>2, <3>1 DEF OnePlace, Busy
  <2> QED
    BY <2>1, <2>2
<1>9. OnePlace'
  BY <1>1, <1>4, <1>6, <1>8 DEF OnePlace, Busy
<1>10. CommitsAreAttempts'
  BY <1>1, <1>2, <1>4, <1>5 DEF CommitsAreAttempts, Untaken
<1> QED
  BY <1>9, <1>10 DEF CommitInv

(* The attempt of a worker commits its message once or not at all. *)
Attempted(w) ==
    applied' \in {applied, [applied EXCEPT ![job[w]] = @ + 1]}

LEMMA AttemptApplied ==
    ASSUME IInv, CommitInv, NEW w \in Worker, Busy(w), Attempted(w)
    PROVE  /\ \A k \in Message \ {job[w]} : applied'[k] = applied[k]
           /\ applied'[job[w]] <= attempt[w] /\ applied'[job[w]] <= MaxAttempts
           /\ applied'[job[w]] \in Nat /\ attempt[w] \in Nat
<1>1. /\ applied \in [Message -> Nat] /\ job[w] \in Message
      /\ attempt[w] \in 0..MaxAttempts /\ MaxAttempts \in Nat
      /\ applied[job[w]] < attempt[w]
  BY SizeAssumption DEF IInv, TypeOK, Busy, CommitInv, OnePlace
<1> QED
  BY <1>1 DEF Attempted

(* A message is settled by the worker that has it. *)
LEMMA FinishOnce ==
    ASSUME IInv, CommitInv, NEW w \in Worker, Busy(w), NEW s \in {"done", "failed", "lost"},
           Finish(w, s), Attempted(w), s = "done" => applied'[job[w]] > 0, UNCHANGED phase
    PROVE  CommitInv'
<1>1. /\ queue \in Seq(Message) /\ stage \in [Message -> Stage]
      /\ job \in [Worker -> Message \cup {NoMessage}] /\ job[w] \in Message
      /\ attempt \in [Worker -> 0..MaxAttempts] /\ w \notin exited
      /\ OnePlace /\ CommitsAreAttempts /\ stage[job[w]] = "processing"
  BY DEF IInv, TypeOK, Busy, CommitInv, OnePlace
<1>2. /\ job' = [job EXCEPT ![w] = NoMessage] /\ stage' = [stage EXCEPT ![job[w]] = s]
      /\ attempt' = [attempt EXCEPT ![w] = 0] /\ queue' = queue
      /\ exited' = IF phase = "stopping" THEN exited \cup {w} ELSE exited
  BY DEF Finish, Move
<1>3. /\ \A k \in Message \ {job[w]} : applied'[k] = applied[k] /\ stage'[k] = stage[k]
      /\ applied'[job[w]] <= MaxAttempts /\ stage'[job[w]] = s
  BY <1>1, <1>2, AttemptApplied
<1>4. \A k \in 1..Len(queue) :
          queue[k] \in Message /\ (phase # "stopped" => queue[k] # job[w])
  BY <1>1 DEF OnePlace
<1>5. ASSUME NEW v \in Worker, Busy(v)'
      PROVE  /\ stage'[job'[v]] = "processing" /\ applied'[job'[v]] < attempt'[v]
             /\ \A u \in Worker : job'[u] = job'[v] => u = v
  <2>1. v # w /\ Busy(v) /\ job'[v] = job[v] /\ attempt'[v] = attempt[v]
    BY <1>1, <1>2, <1>5 DEF Busy
  <2>2. job[v] \in Message /\ job[v] # job[w]
    BY <1>1, <2>1 DEF OnePlace, Busy
  <2>3. \A u \in Worker : job'[u] = job[v] => u = v
    BY <1>1, <1>2, <1>5, <2>1 DEF OnePlace, Busy
  <2> QED
    BY <1>1, <1>3, <2>1, <2>2, <2>3 DEF OnePlace
<1>6. OnePlace'
  <2>1. phase = "stopped" => exited' = Worker
    BY <1>1, <1>2 DEF OnePlace
  <2>2. \A v \in exited' : ~Busy(v)'
    BY <1>1, <1>2 DEF OnePlace, Busy, IInv, TypeOK
  <2>3. phase # "stopped" =>
            \A i, j \in 1..Len(queue) :
                stage'[queue[i]] = "queued" /\ (queue[i] = queue[j] => i = j)
    BY <1>1, <1>3, <1>4 DEF OnePlace
  <2> QED
    BY <1>2, <1>5, <2>1, <2>2, <2>3 DEF OnePlace
<1>7. CommitsAreAttempts'
  BY <1>1, <1>3 DEF CommitsAreAttempts, Untaken
<1> QED
  BY <1>6, <1>7 DEF CommitInv

(* An attempt that is repeated is counted. *)
LEMMA RetryOnce ==
    ASSUME IInv, CommitInv, NEW w \in Worker, Busy(w), Retry(w), Attempted(w), UNCHANGED life
    PROVE  CommitInv'
<1>1. CASE attempt[w] < MaxAttempts
  <2>1. /\ attempt' = [attempt EXCEPT ![w] = @ + 1]
        /\ UNCHANGED <<queue, stage, job, exited, phase>>
        /\ stage[job[w]] = "processing" /\ job[w] \in Message
        /\ attempt \in [Worker -> 0..MaxAttempts] /\ OnePlace /\ CommitsAreAttempts
        /\ job \in [Worker -> Message \cup {NoMessage}]
    BY <1>1 DEF Retry, buffer, life, IInv, TypeOK, Busy, CommitInv, OnePlace
  <2>2. /\ \A k \in Message \ {job[w]} : applied'[k] = applied[k]
        /\ applied'[job[w]] < attempt'[w] /\ applied'[job[w]] <= MaxAttempts
    BY <2>1, AttemptApplied
  <2>3. ASSUME NEW v \in Worker, Busy(v) PROVE applied'[job[v]] < attempt'[v]
    <3>1. CASE v = w
      BY <2>2, <3>1
    <3>2. CASE v # w
      <4>1. job[v] \in Message \ {job[w]} /\ attempt'[v] = attempt[v]
        BY <2>1, <2>3, <3>2 DEF OnePlace, Busy
      <4> QED
        BY <2>1, <2>2, <2>3, <4>1 DEF OnePlace
    <3> QED
      BY <3>1, <3>2
  <2>4. OnePlace'
    BY <2>1, <2>3 DEF OnePlace, Busy
  <2>5. CommitsAreAttempts'
    BY <2>1, <2>2 DEF CommitsAreAttempts, Untaken
  <2> QED
    BY <2>4, <2>5 DEF CommitInv
<1>2. CASE ~(attempt[w] < MaxAttempts)
  BY <1>2, FinishOnce DEF Retry, life
<1> QED
  BY <1>1, <1>2

LEMMA WorkerOnce ==
    ASSUME IInv, CommitInv, NEW w \in Worker,
           \/ Succeed(w) \/ TransientError(w) \/ CommitUnheard(w) \/ PermanentError(w)
           \/ CancelWorker(w)
    PROVE  CommitInv'
<1>1. CASE Succeed(w)
  <2>1. Attempted(w) /\ applied'[job[w]] > 0
    BY <1>1 DEF Succeed, Commit, Attempted, IInv, TypeOK, Busy
  <2> QED
    BY <1>1, <2>1, FinishOnce DEF Succeed, life
<1>2. CASE TransientError(w)
  BY <1>2, RetryOnce DEF TransientError, Attempted, database
<1>3. CASE CommitUnheard(w)
  BY <1>3, RetryOnce DEF CommitUnheard, Attempted, Commit
<1>4. CASE PermanentError(w)
  BY <1>4, FinishOnce DEF PermanentError, Attempted, database, life
<1>5. CASE CancelWorker(w) /\ Busy(w) /\ Finish(w, "lost")
  BY <1>5, FinishOnce DEF CancelWorker, Attempted, database, life
<1>6. CASE CancelWorker(w) /\ ~Busy(w) /\ exited' = exited \cup {w}
           /\ UNCHANGED <<buffer, stage, job, attempt>>
  BY <1>6 DEF CancelWorker, CommitInv, OnePlace, CommitsAreAttempts, Busy, buffer, life,
     database, IInv, TypeOK
<1> QED
  BY <1>1, <1>2, <1>3, <1>4, <1>5, <1>6 DEF CancelWorker

(* The steps of the shutdown leave the queue and the workers as they are. *)
LEMMA ShutdownOnce ==
    ASSUME IInv, CommitInv, StopProducers \/ Close \/ Drained \/ DrainTimesOut \/ Stop
    PROVE  CommitInv'
<1>1. /\ UNCHANGED <<buffer, workers, database>> /\ stage \in [Message -> Stage]
      /\ queue \in Seq(Message) /\ job \in [Worker -> Message \cup {NoMessage}]
  BY DEF StopProducers, Close, Drained, DrainTimesOut, Stop, IInv, TypeOK
<1>2. \A k \in Message :
          \/ stage'[k] = stage[k]
          \/ stage[k] = "putting" /\ stage'[k] = "cancelled"
          \/ stage[k] = "queued" /\ stage'[k] = "lost" /\ phase' = "stopped"
  BY <1>1 DEF StopProducers, Close, Drained, DrainTimesOut, Stop
<1>3. /\ phase' # "stopped" => phase # "stopped"
      /\ phase' = "stopped" => exited = Worker
  BY DEF StopProducers, Close, Drained, DrainTimesOut, Stop, CommitInv, OnePlace
<1>4. \A k \in 1..Len(queue) : queue[k] \in Message
  BY <1>1
<1>5. OnePlace'
  BY <1>1, <1>2, <1>3, <1>4 DEF CommitInv, OnePlace, Busy, buffer, workers, database
<1>6. CommitsAreAttempts'
  BY <1>1, <1>2 DEF CommitInv, CommitsAreAttempts, Untaken, database
<1> QED
  BY <1>5, <1>6 DEF CommitInv

(* In every reachable state each message is in one place: once in the      *)
(* queue, or with one worker, or settled.                                  *)
THEOREM CommitInvariance == Spec => []CommitInv
<1>1. Init => CommitInv
  BY SizeAssumption DEF Init, CommitInv, OnePlace, CommitsAreAttempts, Busy
<1>2. ASSUME IInv, CommitInv, [Next]_vars PROVE CommitInv'
  <2>1. CASE UNCHANGED vars
    BY <1>2, <2>1 DEF vars, buffer, workers, life, database, CommitInv, OnePlace,
       CommitsAreAttempts, Busy
  <2> QED
    BY <1>2, <2>1, ProducerOnce, TakeOnce, WorkerOnce, ShutdownOnce, Zenon DEF Next, Work
<1> QED
  BY Invariance, <1>1, <1>2, PTL DEF Spec

(* What the stage of a message says of its write is true, and no message   *)
(* is committed more often than it may be attempted, for any number of     *)
(* workers, attempts and failures.                                         *)
THEOREM CommitsAreAttempted == Spec => []CommitsAreAttempts
<1>1. CommitInv => CommitsAreAttempts
  BY DEF CommitInv
<1> QED
  BY CommitInvariance, <1>1, PTL

-----------------------------------------------------------------------------
(* The queue keeps the promise of DurableWrites. *)

(* The messages of S change their outcome together. *)
LEMMA OutcomesBecome ==
    ASSUME NEW S \in SUBSET Message, NEW from, NEW to,
           \A m \in S : Outcome(stage[m]) \in from /\ Outcome(stage'[m]) = to,
           \A m \in Message \ S : Outcome(stage'[m]) = Outcome(stage[m])
    PROVE  Durable!Become(S, from, to)
  BY DEF Durable!Become

LEMMA OutcomesStay ==
    ASSUME \A m \in Message : Outcome(stage'[m]) = Outcome(stage[m]), UNCHANGED database
    PROVE  UNCHANGED Durable!dvars
  BY DEF Durable!dvars, database

(* A step on one message that leaves the database alone. *)
LEMMA OneOutcome ==
    ASSUME TypeOK, NEW m \in Message, NEW s \in Stage, stage' = [stage EXCEPT ![m] = s],
           UNCHANGED database,
           \/ Outcome(s) = Outcome(stage[m])
           \/ Outcome(stage[m]) = "waiting" /\ Outcome(s) \in {"taken", "dropped"}
           \/ Outcome(stage[m]) = "taken" /\ Outcome(s) = "unknown"
    PROVE  [Durable!DNext]_Durable!dvars
<1>1. /\ stage'[m] = s
      /\ \A k \in Message \ {m} : stage'[k] = stage[k]
  BY DEF TypeOK
<1>2. CASE Outcome(s) = Outcome(stage[m])
  BY <1>1, <1>2, OutcomesStay
<1>3. CASE Outcome(stage[m]) = "waiting" /\ Outcome(s) = "taken"
  <2>1. Durable!Become({m}, {"waiting"}, "taken")
    BY <1>1, <1>3, OutcomesBecome
  <2> QED
    BY <2>1 DEF Durable!DNext, Durable!Begin, database
<1>4. CASE Outcome(stage[m]) = "waiting" /\ Outcome(s) = "dropped"
  <2>1. Durable!Become({m}, {"waiting"}, "dropped")
    BY <1>1, <1>4, OutcomesBecome
  <2>2. Durable!Drop({m})
    BY <2>1 DEF Durable!Drop, database
  <2> QED
    BY <2>2 DEF Durable!DNext
<1>5. CASE Outcome(stage[m]) = "taken" /\ Outcome(s) = "unknown"
  <2>1. Durable!Become({m}, {"waiting", "taken"}, "unknown")
    BY <1>1, <1>5, OutcomesBecome
  <2>2. Durable!GiveUp({m})
    BY <2>1 DEF Durable!GiveUp, database
  <2> QED
    BY <2>2 DEF Durable!DNext
<1> QED
  BY <1>2, <1>3, <1>4, <1>5

LEMMA ProducerWrites ==
    ASSUME IInv, CommitInv, NEW m \in Message, Put(m) \/ PutResumes(m) \/ PutTimesOut(m)
    PROVE  [Durable!DNext]_Durable!dvars
<1>1. /\ UNCHANGED database /\ TypeOK /\ stage \in [Message -> Stage]
      /\ Outcome(stage[m]) = "waiting"
  BY DEF Put, PutResumes, PutTimesOut, IInv, TypeOK, Outcome, Closed
<1>2. CASE \E s \in {"queued", "putting", "timed_out", "refused"} : Move(m, s)
  <2>1. PICK s \in {"queued", "putting", "timed_out", "refused"} : Move(m, s)
    BY <1>2
  <2>2. s \in Stage /\ Outcome(s) \in {"waiting", "dropped"}
    BY DEF Stage, Settled, Outcome
  <2> QED
    BY <1>1, <2>1, <2>2, OneOutcome DEF Move
<1>3. CASE Put(m) /\ ~Closed /\ Full /\ Evict(m)
  <2>1. /\ queue \in Seq(Message) /\ Len(queue) > 0 /\ OnePlace /\ phase # "stopped"
        /\ stage[m] = "unsent"
    BY <1>3, SizeAssumption DEF Put, Closed, Full, IInv, TypeOK, CommitInv
  <2>2. /\ Head(queue) = queue[1] /\ Head(queue) \in Message
        /\ stage[Head(queue)] = "queued" /\ Head(queue) # m
    BY <2>1 DEF OnePlace
  <2>3. /\ stage'[Head(queue)] = "evicted" /\ stage'[m] = "queued"
        /\ \A k \in Message \ {Head(queue), m} : stage'[k] = stage[k]
    BY <1>1, <1>3, <2>2 DEF Evict
  <2>4. Durable!Become({Head(queue)}, {"waiting"}, "dropped")
    <3>1. /\ Outcome(stage[Head(queue)]) = "waiting"
          /\ Outcome(stage'[Head(queue)]) = "dropped"
          /\ Outcome(stage'[m]) = Outcome(stage[m])
      BY <2>1, <2>2, <2>3 DEF Outcome
    <3> QED
      BY <2>2, <2>3, <3>1, OutcomesBecome
  <2>5. Durable!Drop({Head(queue)})
    BY <1>1, <2>4 DEF Durable!Drop, database
  <2> QED
    BY <2>2, <2>5 DEF Durable!DNext
<1> QED
  BY <1>2, <1>3 DEF Put, PutResumes, PutTimesOut, Add

(* A committed attempt is a write of the message in hand. *)
LEMMA CommitWrites ==
    ASSUME IInv, CommitInv, NEW w \in Worker, Busy(w), Commit(job[w]),
           NEW s \in {"processing", "done", "failed"}, stage' = [stage EXCEPT ![job[w]] = s]
    PROVE  Durable!DNext
<1>1. /\ job[w] \in Message /\ stage \in [Message -> Stage]
      /\ stage[job[w]] = "processing" /\ applied[job[w]] < MaxAttempts
      /\ applied \in [Message -> Nat]
  BY SizeAssumption DEF IInv, TypeOK, Busy, CommitInv, OnePlace
<1>2. /\ stage'[job[w]] = s
      /\ \A k \in Message \ {job[w]} : stage'[k] = stage[k]
      /\ Outcome(stage[job[w]]) = "taken" /\ Outcome(s) \in {"taken", "done", "unknown"}
  BY <1>1 DEF Outcome
<1>3. Durable!Become({job[w]}, {"taken"}, Outcome(s))
  BY <1>1, <1>2, OutcomesBecome
<1>4. row' = [f \in Field |-> IF Durable!Sets(job[w], f) THEN job[w] ELSE row[f]]
  BY DEF Commit, Merge, Durable!Sets
<1>5. Durable!Write(job[w])
  BY <1>1, <1>2, <1>3, <1>4 DEF Durable!Write, Commit
<1> QED
  BY <1>1, <1>5 DEF Durable!DNext

LEMMA WorkerWrites ==
    ASSUME IInv, CommitInv, NEW w \in Worker,
           \/ Take(w) \/ Succeed(w) \/ TransientError(w) \/ CommitUnheard(w)
           \/ PermanentError(w) \/ CancelWorker(w)
    PROVE  [Durable!DNext]_Durable!dvars
<1>1. /\ TypeOK /\ queue \in Seq(Message) /\ stage \in [Message -> Stage] /\ OnePlace
      /\ Busy(w) => job[w] \in Message /\ stage[job[w]] = "processing"
  BY DEF IInv, TypeOK, Busy, CommitInv, OnePlace
<1>2. CASE Take(w)
  <2>1. phase # "stopped" /\ Len(queue) > 0
    BY <1>1, <1>2 DEF Take, OnePlace
  <2>2. Head(queue) \in Message /\ stage[Head(queue)] = "queued"
    BY <1>1, <2>1 DEF OnePlace
  <2>3. /\ Outcome(stage[Head(queue)]) = "waiting" /\ Outcome("processing") = "taken"
        /\ "processing" \in Stage
    BY <2>2 DEF Outcome, Stage
  <2> QED
    BY <1>1, <1>2, <2>2, <2>3, OneOutcome DEF Take, Move
<1>3. CASE Succeed(w)
  BY <1>3, CommitWrites DEF Succeed, Finish, Move
<1>4. CASE CommitUnheard(w)
  <2>1. \/ stage' = [stage EXCEPT ![job[w]] = "failed"]
        \/ stage' = [stage EXCEPT ![job[w]] = "processing"]
    BY <1>1, <1>4 DEF CommitUnheard, Retry, Finish, Move
  <2> QED
    BY <1>4, <2>1, CommitWrites DEF CommitUnheard
<1>5. CASE UNCHANGED <<stage, database>>
  BY <1>5, OutcomesStay
<1>6. CASE Busy(w) /\ UNCHANGED database /\ \E s \in {"failed", "lost"} : Move(job[w], s)
  <2>1. PICK s \in {"failed", "lost"} : Move(job[w], s)
    BY <1>6
  <2>2. s \in Stage /\ Outcome(s) = "unknown" /\ Outcome(stage[job[w]]) = "taken"
    BY <1>1, <1>6 DEF Stage, Settled, Outcome
  <2> QED
    BY <1>1, <1>6, <2>1, <2>2, OneOutcome DEF Move
<1> QED
  BY <1>2, <1>3, <1>4, <1>5, <1>6
     DEF TransientError, PermanentError, CancelWorker, Retry, Finish

LEMMA ShutdownWrites ==
    ASSUME IInv, StopProducers \/ Close \/ Drained \/ DrainTimesOut \/ Stop
    PROVE  [Durable!DNext]_Durable!dvars
<1>1. stage \in [Message -> Stage] /\ UNCHANGED database
  BY DEF IInv, TypeOK, StopProducers, Close, Drained, DrainTimesOut, Stop
<1>2. CASE StopProducers
  <2> DEFINE S == {m \in Message : stage[m] = "putting"}
  <2>1. Durable!Become(S, {"waiting"}, "dropped")
    <3>1. /\ \A m \in S : stage[m] = "putting" /\ stage'[m] = "cancelled"
          /\ \A m \in Message \ S : stage'[m] = stage[m]
      BY <1>2 DEF StopProducers
    <3>2. Outcome("putting") = "waiting" /\ Outcome("cancelled") = "dropped"
      BY DEF Outcome
    <3> QED
      BY <3>1, <3>2, OutcomesBecome
  <2>2. Durable!Drop(S)
    BY <1>1, <2>1 DEF Durable!Drop, database
  <2> QED
    BY <2>2 DEF Durable!DNext
<1>3. CASE Stop
  <2> DEFINE S == {m \in Message : stage[m] = "queued"}
  <2>1. Durable!Become(S, {"waiting", "taken"}, "unknown")
    <3>1. /\ \A m \in S : stage[m] = "queued" /\ stage'[m] = "lost"
          /\ \A m \in Message \ S : stage'[m] = stage[m]
      BY <1>3 DEF Stop
    <3>2. Outcome("queued") = "waiting" /\ Outcome("lost") = "unknown"
      BY DEF Outcome
    <3> QED
      BY <3>1, <3>2, OutcomesBecome
  <2>2. Durable!GiveUp(S)
    BY <1>1, <2>1 DEF Durable!GiveUp, database
  <2> QED
    BY <2>2 DEF Durable!DNext
<1>4. CASE Close \/ Drained \/ DrainTimesOut
  BY <1>1, <1>4, OutcomesStay DEF Close, Drained, DrainTimesOut
<1> QED
  BY <1>2, <1>3, <1>4

(* Queue, workers, retries and shutdown do to the database only what       *)
(* DurableWrites allows, for any messages, workers and failures: a message *)
(* is committed while a worker has it and at most MaxAttempts times, and   *)
(* dropped, done and given up are what they say.                           *)
THEOREM QueueImplementsWrites == Spec => ImplementsWrites
<1>1. Init => Durable!DInit
  BY DEF Init, Durable!DInit, Outcome
<1>2. ASSUME IInv, CommitInv, [Next]_vars PROVE [Durable!DNext]_Durable!dvars
  <2>1. CASE UNCHANGED vars
    BY <2>1, OutcomesStay DEF vars
  <2> QED
    BY <1>2, <2>1, ProducerWrites, WorkerWrites, ShutdownWrites, Zenon DEF Next, Work
<1> QED
  BY Invariance, CommitInvariance, <1>1, <1>2, PTL DEF Spec, ImplementsWrites, Durable!DSpec
=============================================================================
