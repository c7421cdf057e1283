-------------------------- MODULE GraphRun_proofs --------------------------
(***************************************************************************)
(* Proofs about the life of an AI graph run, for any number of workers, any *)
(* set of graphs, and any number of faults and stalls.                     *)
(***************************************************************************)
EXTENDS GraphRun, FiniteSetTheorems, SequenceTheorems, TLAPS

(* A step is one of the actions or a stutter. *)
LEMMA StepCases ==
    ASSUME [Next]_vars
    PROVE  \/ \E w \in Workers :
                \/ Load(w) \/ HandleNode(w) \/ RefuseNode(w) \/ SaveCheckpoint(w)
                \/ RecordFailure(w) \/ RecordCompletion(w) \/ RecordInterrupt(w)
                \/ Touch(w) \/ Raise(w) \/ RecordRaises(w) \/ Crash(w)
                \/ \E m \in queue : Noop(w, m) \/ AcquireFenced(w, m)
                                     \/ Acquire(w, m) \/ AcquireRaises(w, m)
           \/ \E m \in queue : LoseMessage(m)
           \/ \E c \in locks : LockExpires(c) \/ LockExpiresEarly(c)
           \/ Dispatch \/ Recover
           \/ \E r \in DOMAIN rows, a \in {"RESOLVED", "REJECTED"} : Resume(r, a)
           \/ Cancel \/ ReadToCancel \/ WriteCancel \/ LeaseLapses \/ Stall
           \/ UNCHANGED vars
  BY Zenon DEF Next, Execute, Deliver, Decide

-----------------------------------------------------------------------------
(* Types. *)

(* The interrupts of a run keep their type when one is changed or added. *)
LEMMA RowsKeepType ==
    ASSUME rows \in Seq(Rows)
    PROVE  /\ \A r \in DOMAIN rows, a \in {"RESOLVED", "REJECTED"} :
                  [rows EXCEPT ![r].status = a] \in Seq(Rows)
           /\ \A r \in DOMAIN rows : [rows EXCEPT ![r].taken = @ + 1] \in Seq(Rows)
           /\ \A x \in Rows : Append(rows, x) \in Seq(Rows)
<1>1. ASSUME NEW r \in DOMAIN rows, NEW a \in {"RESOLVED", "REJECTED"}
      PROVE  [rows EXCEPT ![r].status = a] \in Seq(Rows)
  <2>1. rows[r] \in Rows /\ r \in 1..Len(rows)
    BY LenProperties
  <2>2. [rows[r] EXCEPT !.status = a] \in Rows
    BY <2>1 DEF Rows
  <2> DEFINE x == [rows[r] EXCEPT !.status = a]
  <2>3. [rows EXCEPT ![r] = x] \in Seq(Rows)
    BY <2>1, <2>2, ExceptSeq
  <2> QED
    BY <2>3
<1>2. ASSUME NEW r \in DOMAIN rows PROVE [rows EXCEPT ![r].taken = @ + 1] \in Seq(Rows)
  <2>1. rows[r] \in Rows /\ r \in 1..Len(rows)
    BY LenProperties
  <2> DEFINE x == [rows[r] EXCEPT !.taken = @ + 1]
  <2>2. x \in Rows
    BY <2>1 DEF Rows
  <2>3. [rows EXCEPT ![r] = x] \in Seq(Rows)
    BY <2>1, <2>2, ExceptSeq
  <2> QED
    BY <2>3
<1>3. \A x \in Rows : Append(rows, x) \in Seq(Rows)
  OBVIOUS
<1> QED
  BY <1>1, <1>2, <1>3

(* The graph of a run never changes. *)
LEMMA StepGraph == [Next]_vars => graph' = graph
<1> SUFFICES ASSUME [Next]_vars PROVE graph' = graph
  OBVIOUS
<1>1. ASSUME NEW w \in Workers, Load(w) PROVE graph' = graph
  BY <1>1 DEF Load
<1>2. ASSUME NEW w \in Workers, HandleNode(w) PROVE graph' = graph
  BY <1>2 DEF HandleNode
<1>3. ASSUME NEW w \in Workers, RefuseNode(w) PROVE graph' = graph
  BY <1>3 DEF RefuseNode
<1>4. ASSUME NEW w \in Workers, SaveCheckpoint(w) PROVE graph' = graph
  BY <1>4 DEF SaveCheckpoint
<1>5. ASSUME NEW w \in Workers, RecordFailure(w) PROVE graph' = graph
  BY <1>5 DEF RecordFailure
<1>6. ASSUME NEW w \in Workers, RecordCompletion(w) PROVE graph' = graph
  BY <1>6 DEF RecordCompletion
<1>7. ASSUME NEW w \in Workers, RecordInterrupt(w) PROVE graph' = graph
  BY <1>7 DEF RecordInterrupt
<1>8. ASSUME NEW w \in Workers, Touch(w) PROVE graph' = graph
  BY <1>8 DEF Touch
<1>9. ASSUME NEW w \in Workers, Raise(w) PROVE graph' = graph
  BY <1>9 DEF Raise
<1>10. ASSUME NEW w \in Workers, RecordRaises(w) PROVE graph' = graph
  BY <1>10 DEF RecordRaises
<1>11. ASSUME NEW w \in Workers, Crash(w) PROVE graph' = graph
  BY <1>11 DEF Crash
<1>12. ASSUME NEW w \in Workers, NEW m \in queue, Noop(w, m) PROVE graph' = graph
  BY <1>12 DEF Noop
<1>13. ASSUME NEW w \in Workers, NEW m \in queue, AcquireFenced(w, m) PROVE graph' = graph
  BY <1>13 DEF AcquireFenced
<1>14. ASSUME NEW w \in Workers, NEW m \in queue, Acquire(w, m) PROVE graph' = graph
  BY <1>14 DEF Acquire
<1>15. ASSUME NEW w \in Workers, NEW m \in queue, AcquireRaises(w, m) PROVE graph' = graph
  BY <1>15 DEF AcquireRaises
<1>16. ASSUME NEW m \in queue, LoseMessage(m) PROVE graph' = graph
  BY <1>16 DEF LoseMessage
<1>17. ASSUME NEW c \in locks, LockExpires(c) PROVE graph' = graph
  BY <1>17 DEF LockExpires
<1>18. ASSUME NEW c \in locks, LockExpiresEarly(c) PROVE graph' = graph
  BY <1>18 DEF LockExpiresEarly
<1>19. CASE Dispatch
  BY <1>19 DEF Dispatch
<1>20. CASE Recover
  BY <1>20 DEF Recover
<1>21. ASSUME NEW r \in DOMAIN rows, NEW a \in {"RESOLVED", "REJECTED"}, Resume(r, a) PROVE graph' = graph
  BY <1>21 DEF Resume
<1>22. CASE Cancel
  BY <1>22 DEF Cancel
<1>23. CASE ReadToCancel
  BY <1>23 DEF ReadToCancel
<1>24. CASE WriteCancel
  BY <1>24 DEF WriteCancel
<1>25. CASE LeaseLapses
  BY <1>25 DEF LeaseLapses
<1>26. CASE Stall
  BY <1>26 DEF Stall
<1>27. CASE UNCHANGED vars
  BY <1>27 DEF vars
<1> QED
  BY <1>1, <1>2, <1>3, <1>4, <1>5, <1>6, <1>7, <1>8, <1>9, <1>10, <1>11,
     <1>12, <1>13, <1>14, <1>15, <1>16, <1>17, <1>18, <1>19, <1>20, <1>21,
     <1>22, <1>23, <1>24, <1>25, <1>26, <1>27, StepCases

(* The columns of the row. *)
RowTypes == status \in Statuses /\ command \in Nat /\ lease \in {"none", "held", "lapsed"}

LEMMA StepRowTypes == RowTypes /\ rows \in Seq(Rows) /\ [Next]_vars => RowTypes'
<1> SUFFICES ASSUME RowTypes, rows \in Seq(Rows), [Next]_vars PROVE RowTypes'
  OBVIOUS
<1>a. DOMAIN rows \subseteq Nat
  BY LenProperties
<1> USE DEF RowTypes, rowVars, Statuses, Terminal
<1>1. ASSUME NEW w \in Workers, Load(w) PROVE RowTypes'
  BY <1>1 DEF Load
<1>2. ASSUME NEW w \in Workers, HandleNode(w) PROVE RowTypes'
  BY <1>2 DEF HandleNode, LockRun
<1>3. ASSUME NEW w \in Workers, RefuseNode(w) PROVE RowTypes'
  BY <1>3 DEF RefuseNode
<1>4. ASSUME NEW w \in Workers, SaveCheckpoint(w) PROVE RowTypes'
  BY <1>4 DEF SaveCheckpoint
<1>5. ASSUME NEW w \in Workers, RecordFailure(w) PROVE RowTypes'
  BY <1>5 DEF RecordFailure, MarkFailed
<1>6. ASSUME NEW w \in Workers, RecordCompletion(w) PROVE RowTypes'
  BY <1>6 DEF RecordCompletion
<1>7. ASSUME NEW w \in Workers, RecordInterrupt(w) PROVE RowTypes'
  BY <1>7 DEF RecordInterrupt
<1>8. ASSUME NEW w \in Workers, Touch(w) PROVE RowTypes'
  BY <1>8 DEF Touch, LockRun
<1>9. ASSUME NEW w \in Workers, Raise(w) PROVE RowTypes'
  BY <1>9 DEF Raise
<1>10. ASSUME NEW w \in Workers, RecordRaises(w) PROVE RowTypes'
  BY <1>10 DEF RecordRaises
<1>11. ASSUME NEW w \in Workers, Crash(w) PROVE RowTypes'
  BY <1>11 DEF Crash
<1>12. ASSUME NEW w \in Workers, NEW m \in queue, Noop(w, m) PROVE RowTypes'
  BY <1>12 DEF Noop
<1>13. ASSUME NEW w \in Workers, NEW m \in queue, AcquireFenced(w, m) PROVE RowTypes'
  BY <1>13 DEF AcquireFenced, MarkFailed
<1>14. ASSUME NEW w \in Workers, NEW m \in queue, Acquire(w, m) PROVE RowTypes'
  BY <1>14 DEF Acquire
<1>15. ASSUME NEW w \in Workers, NEW m \in queue, AcquireRaises(w, m) PROVE RowTypes'
  BY <1>15 DEF AcquireRaises
<1>16. ASSUME NEW m \in queue, LoseMessage(m) PROVE RowTypes'
  BY <1>16 DEF LoseMessage
<1>17. ASSUME NEW c \in locks, LockExpires(c) PROVE RowTypes'
  BY <1>17 DEF LockExpires
<1>18. ASSUME NEW c \in locks, LockExpiresEarly(c) PROVE RowTypes'
  BY <1>18 DEF LockExpiresEarly
<1>19. CASE Dispatch
  BY <1>19 DEF Dispatch, MarkFailed
<1>20. CASE Recover
  BY <1>20 DEF Recover, MarkFailed
<1>21. ASSUME NEW r \in DOMAIN rows, NEW a \in {"RESOLVED", "REJECTED"}, Resume(r, a) PROVE RowTypes'
  BY <1>21, <1>a DEF Resume
<1>22. CASE Cancel
  BY <1>22 DEF Cancel
<1>23. CASE ReadToCancel
  BY <1>23 DEF ReadToCancel
<1>24. CASE WriteCancel
  BY <1>24 DEF WriteCancel
<1>25. CASE LeaseLapses
  BY <1>25 DEF LeaseLapses
<1>26. CASE Stall
  BY <1>26 DEF Stall
<1>27. CASE UNCHANGED vars
  BY <1>27 DEF vars
<1> QED
  BY <1>1, <1>2, <1>3, <1>4, <1>5, <1>6, <1>7, <1>8, <1>9, <1>10, <1>11,
     <1>12, <1>13, <1>14, <1>15, <1>16, <1>17, <1>18, <1>19, <1>20, <1>21,
     <1>22, <1>23, <1>24, <1>25, <1>26, <1>27, StepCases

(* The interrupts. *)
LEMMA StepRows ==
    rows \in Seq(Rows) /\ pos \in [Workers -> Nat] /\ [Next]_vars => rows' \in Seq(Rows)
<1> SUFFICES ASSUME rows \in Seq(Rows), pos \in [Workers -> Nat], [Next]_vars
             PROVE  rows' \in Seq(Rows)
  OBVIOUS
<1> USE DEF rowVars
<1>1. ASSUME NEW w \in Workers, Load(w) PROVE rows' \in Seq(Rows)
  BY <1>1 DEF Load
<1>2. ASSUME NEW w \in Workers, HandleNode(w) PROVE rows' \in Seq(Rows)
  BY <1>2 DEF HandleNode
<1>3. ASSUME NEW w \in Workers, RefuseNode(w) PROVE rows' \in Seq(Rows)
  BY <1>3 DEF RefuseNode
<1>4. ASSUME NEW w \in Workers, SaveCheckpoint(w) PROVE rows' \in Seq(Rows)
  BY <1>4 DEF SaveCheckpoint
<1>5. ASSUME NEW w \in Workers, RecordFailure(w) PROVE rows' \in Seq(Rows)
  BY <1>5 DEF RecordFailure
<1>6. ASSUME NEW w \in Workers, RecordCompletion(w) PROVE rows' \in Seq(Rows)
  BY <1>6 DEF RecordCompletion
<1>7. ASSUME NEW w \in Workers, RecordInterrupt(w) PROVE rows' \in Seq(Rows)
  <2>1. InterruptRow(w) \in Rows
    BY <1>7 DEF InterruptRow, Rows
  <2> QED
    BY <1>7, <2>1, RowsKeepType DEF RecordInterrupt
<1>8. ASSUME NEW w \in Workers, Touch(w) PROVE rows' \in Seq(Rows)
  BY <1>8 DEF Touch
<1>9. ASSUME NEW w \in Workers, Raise(w) PROVE rows' \in Seq(Rows)
  BY <1>9 DEF Raise
<1>10. ASSUME NEW w \in Workers, RecordRaises(w) PROVE rows' \in Seq(Rows)
  BY <1>10 DEF RecordRaises
<1>11. ASSUME NEW w \in Workers, Crash(w) PROVE rows' \in Seq(Rows)
  BY <1>11 DEF Crash
<1>12. ASSUME NEW w \in Workers, NEW m \in queue, Noop(w, m) PROVE rows' \in Seq(Rows)
  BY <1>12 DEF Noop
<1>13. ASSUME NEW w \in Workers, NEW m \in queue, AcquireFenced(w, m) PROVE rows' \in Seq(Rows)
  BY <1>13 DEF AcquireFenced
<1>14. ASSUME NEW w \in Workers, NEW m \in queue, Acquire(w, m) PROVE rows' \in Seq(Rows)
  BY <1>14, RowsKeepType DEF Acquire
<1>15. ASSUME NEW w \in Workers, NEW m \in queue, AcquireRaises(w, m) PROVE rows' \in Seq(Rows)
  BY <1>15 DEF AcquireRaises
<1>16. ASSUME NEW m \in queue, LoseMessage(m) PROVE rows' \in Seq(Rows)
  BY <1>16 DEF LoseMessage
<1>17. ASSUME NEW c \in locks, LockExpires(c) PROVE rows' \in Seq(Rows)
  BY <1>17 DEF LockExpires
<1>18. ASSUME NEW c \in locks, LockExpiresEarly(c) PROVE rows' \in Seq(Rows)
  BY <1>18 DEF LockExpiresEarly
<1>19. CASE Dispatch
  BY <1>19 DEF Dispatch
<1>20. CASE Recover
  BY <1>20 DEF Recover
<1>21. ASSUME NEW r \in DOMAIN rows, NEW a \in {"RESOLVED", "REJECTED"}, Resume(r, a) PROVE rows' \in Seq(Rows)
  BY <1>21, RowsKeepType DEF Resume
<1>22. CASE Cancel
  BY <1>22 DEF Cancel
<1>23. CASE ReadToCancel
  BY <1>23 DEF ReadToCancel
<1>24. CASE WriteCancel
  BY <1>24 DEF WriteCancel
<1>25. CASE LeaseLapses
  BY <1>25 DEF LeaseLapses
<1>26. CASE Stall
  BY <1>26 DEF Stall
<1>27. CASE UNCHANGED vars
  BY <1>27 DEF vars
<1> QED
  BY <1>1, <1>2, <1>3, <1>4, <1>5, <1>6, <1>7, <1>8, <1>9, <1>10, <1>11,
     <1>12, <1>13, <1>14, <1>15, <1>16, <1>17, <1>18, <1>19, <1>20, <1>21,
     <1>22, <1>23, <1>24, <1>25, <1>26, <1>27, StepCases

(* What the workers and the checkpoint hold; n is the length of the graph. *)
WorkTypes(n) ==
    /\ ckpt \in 0..n
    /\ effects \in [1..n -> Nat]
    /\ pc \in [Workers -> {"idle", "acquired", "run", "done", "failed"}]
    /\ pos \in [Workers -> 0..n]

LEMMA StepWorkTypes ==
    ASSUME NEW n \in Nat, n = Len(graph.nodes), WorkTypes(n), [Next]_vars
    PROVE  WorkTypes(n)'
<1> USE DEF WorkTypes, rowVars, brokerVars, workerVars, graphVars, Nodes, Return
<1>1. ASSUME NEW w \in Workers, Load(w) PROVE WorkTypes(n)'
  <2>1. pos'[w] \in 0..n /\ pc'[w] \in {"run", "done"}
    BY <1>1 DEF Load
  <2>2. /\ pos' = [pos EXCEPT ![w] = pos'[w]] /\ pc' = [pc EXCEPT ![w] = pc'[w]]
        /\ UNCHANGED <<ckpt, effects>>
    BY <1>1 DEF Load
  <2> QED
    BY <2>1, <2>2
<1>2. ASSUME NEW w \in Workers, HandleNode(w) PROVE WorkTypes(n)'
  BY <1>2 DEF HandleNode, AtNode
<1>3. ASSUME NEW w \in Workers, RefuseNode(w) PROVE WorkTypes(n)'
  BY <1>3 DEF RefuseNode
<1>4. ASSUME NEW w \in Workers, SaveCheckpoint(w) PROVE WorkTypes(n)'
  BY <1>4 DEF SaveCheckpoint
<1>5. ASSUME NEW w \in Workers, RecordFailure(w) PROVE WorkTypes(n)'
  BY <1>5 DEF RecordFailure
<1>6. ASSUME NEW w \in Workers, RecordCompletion(w) PROVE WorkTypes(n)'
  BY <1>6 DEF RecordCompletion
<1>7. ASSUME NEW w \in Workers, RecordInterrupt(w) PROVE WorkTypes(n)'
  BY <1>7 DEF RecordInterrupt
<1>8. ASSUME NEW w \in Workers, Touch(w) PROVE WorkTypes(n)'
  BY <1>8 DEF Touch
<1>9. ASSUME NEW w \in Workers, Raise(w) PROVE WorkTypes(n)'
  BY <1>9 DEF Raise
<1>10. ASSUME NEW w \in Workers, RecordRaises(w) PROVE WorkTypes(n)'
  BY <1>10 DEF RecordRaises
<1>11. ASSUME NEW w \in Workers, Crash(w) PROVE WorkTypes(n)'
  BY <1>11 DEF Crash
<1>12. ASSUME NEW w \in Workers, NEW m \in queue, Noop(w, m) PROVE WorkTypes(n)'
  BY <1>12 DEF Noop
<1>13. ASSUME NEW w \in Workers, NEW m \in queue, AcquireFenced(w, m) PROVE WorkTypes(n)'
  BY <1>13 DEF AcquireFenced
<1>14. ASSUME NEW w \in Workers, NEW m \in queue, Acquire(w, m) PROVE WorkTypes(n)'
  BY <1>14 DEF Acquire
<1>15. ASSUME NEW w \in Workers, NEW m \in queue, AcquireRaises(w, m) PROVE WorkTypes(n)'
  BY <1>15 DEF AcquireRaises
<1>16. ASSUME NEW m \in queue, LoseMessage(m) PROVE WorkTypes(n)'
  BY <1>16 DEF LoseMessage
<1>17. ASSUME NEW c \in locks, LockExpires(c) PROVE WorkTypes(n)'
  BY <1>17 DEF LockExpires
<1>18. ASSUME NEW c \in locks, LockExpiresEarly(c) PROVE WorkTypes(n)'
  BY <1>18 DEF LockExpiresEarly
<1>19. CASE Dispatch
  BY <1>19 DEF Dispatch
<1>20. CASE Recover
  BY <1>20 DEF Recover
<1>21. ASSUME NEW r \in DOMAIN rows, NEW a \in {"RESOLVED", "REJECTED"}, Resume(r, a) PROVE WorkTypes(n)'
  BY <1>21 DEF Resume
<1>22. CASE Cancel
  BY <1>22 DEF Cancel
<1>23. CASE ReadToCancel
  BY <1>23 DEF ReadToCancel
<1>24. CASE WriteCancel
  BY <1>24 DEF WriteCancel
<1>25. CASE LeaseLapses
  BY <1>25 DEF LeaseLapses
<1>26. CASE Stall
  BY <1>26 DEF Stall
<1>27. CASE UNCHANGED vars
  BY <1>27 DEF vars
<1> QED
  BY <1>1, <1>2, <1>3, <1>4, <1>5, <1>6, <1>7, <1>8, <1>9, <1>10, <1>11,
     <1>12, <1>13, <1>14, <1>15, <1>16, <1>17, <1>18, <1>19, <1>20, <1>21,
     <1>22, <1>23, <1>24, <1>25, <1>26, <1>27, StepCases

(* The broker and the messages of the workers. *)
BrokerTypes ==
    /\ queue \subseteq Messages /\ locks \subseteq Nat
    /\ msg \in [Workers -> Messages]

LEMMA StepBrokerTypes ==
    BrokerTypes /\ RowTypes /\ rows \in Seq(Rows) /\ [Next]_vars => BrokerTypes'
<1> SUFFICES ASSUME BrokerTypes, RowTypes, rows \in Seq(Rows), [Next]_vars
             PROVE  BrokerTypes'
  OBVIOUS
<1>a. DOMAIN rows \subseteq Nat
  BY LenProperties
<1>b. /\ command \in Nat /\ NoMsg \in Messages
      /\ \A c \in Nat, k \in BOOLEAN : [command |-> c, keyed |-> k] \in Messages
  BY DEF RowTypes, NoMsg, Messages, Start
<1>c. Enqueue(command) \/ UNCHANGED brokerVars => queue' \subseteq Messages /\ locks' \subseteq Nat
  <2>1. CASE UNCHANGED brokerVars
    BY <2>1 DEF brokerVars, BrokerTypes
  <2>2. CASE command \notin locks /\ Enqueue(command)
    <3>1. /\ locks' = locks \cup {command}
          /\ queue' = queue \cup {[command |-> command, keyed |-> TRUE]}
      BY <2>2 DEF Enqueue
    <3>2. [command |-> command, keyed |-> TRUE] \in Messages
      BY <1>b
    <3> QED
      BY <3>1, <3>2, <1>b DEF BrokerTypes
  <2>3. Enqueue(command) /\ command \in locks => UNCHANGED brokerVars
    BY DEF Enqueue
  <2> QED
    BY <2>1, <2>2, <2>3
<1> USE DEF BrokerTypes, rowVars, brokerVars, workerVars, Release, Return
<1>1. ASSUME NEW w \in Workers, Load(w) PROVE BrokerTypes'
  BY <1>1 DEF Load
<1>2. ASSUME NEW w \in Workers, HandleNode(w) PROVE BrokerTypes'
  BY <1>2 DEF HandleNode
<1>3. ASSUME NEW w \in Workers, RefuseNode(w) PROVE BrokerTypes'
  BY <1>3 DEF RefuseNode
<1>4. ASSUME NEW w \in Workers, SaveCheckpoint(w) PROVE BrokerTypes'
  BY <1>4 DEF SaveCheckpoint
<1>5. ASSUME NEW w \in Workers, RecordFailure(w) PROVE BrokerTypes'
  BY <1>5, <1>a, <1>b DEF RecordFailure
<1>6. ASSUME NEW w \in Workers, RecordCompletion(w) PROVE BrokerTypes'
  BY <1>6, <1>a, <1>b DEF RecordCompletion
<1>7. ASSUME NEW w \in Workers, RecordInterrupt(w) PROVE BrokerTypes'
  BY <1>7, <1>a, <1>b DEF RecordInterrupt
<1>8. ASSUME NEW w \in Workers, Touch(w) PROVE BrokerTypes'
  BY <1>8 DEF Touch
<1>9. ASSUME NEW w \in Workers, Raise(w) PROVE BrokerTypes'
  BY <1>9 DEF Raise
<1>10. ASSUME NEW w \in Workers, RecordRaises(w) PROVE BrokerTypes'
  BY <1>10, <1>a, <1>b DEF RecordRaises
<1>11. ASSUME NEW w \in Workers, Crash(w) PROVE BrokerTypes'
  BY <1>11, <1>a, <1>b DEF Crash
<1>12. ASSUME NEW w \in Workers, NEW m \in queue, Noop(w, m) PROVE BrokerTypes'
  BY <1>12 DEF Noop, Take
<1>13. ASSUME NEW w \in Workers, NEW m \in queue, AcquireFenced(w, m) PROVE BrokerTypes'
  BY <1>13 DEF AcquireFenced, Take
<1>14. ASSUME NEW w \in Workers, NEW m \in queue, Acquire(w, m) PROVE BrokerTypes'
  BY <1>14, <1>a, <1>b DEF Acquire, Take
<1>15. ASSUME NEW w \in Workers, NEW m \in queue, AcquireRaises(w, m) PROVE BrokerTypes'
  BY <1>15 DEF AcquireRaises
<1>16. ASSUME NEW m \in queue, LoseMessage(m) PROVE BrokerTypes'
  BY <1>16 DEF LoseMessage
<1>17. ASSUME NEW c \in locks, LockExpires(c) PROVE BrokerTypes'
  BY <1>17 DEF LockExpires
<1>18. ASSUME NEW c \in locks, LockExpiresEarly(c) PROVE BrokerTypes'
  BY <1>18 DEF LockExpiresEarly
<1>19. CASE Dispatch
  <2>1. Enqueue(command) \/ UNCHANGED brokerVars
    BY Zenon, <1>19 DEF Dispatch
  <2>2. msg' = msg
    BY <1>19 DEF Dispatch
  <2> QED
    BY <2>1, <2>2, <1>c
<1>20. CASE Recover
  <2>1. Enqueue(command) \/ UNCHANGED brokerVars
    BY Zenon, <1>20 DEF Recover
  <2>2. msg' = msg
    BY <1>20 DEF Recover
  <2> QED
    BY <2>1, <2>2, <1>c
<1>21. ASSUME NEW r \in DOMAIN rows, NEW a \in {"RESOLVED", "REJECTED"}, Resume(r, a) PROVE BrokerTypes'
  BY <1>21, <1>a, <1>b DEF Resume
<1>22. CASE Cancel
  BY <1>22 DEF Cancel
<1>23. CASE ReadToCancel
  BY <1>23 DEF ReadToCancel
<1>24. CASE WriteCancel
  BY <1>24 DEF WriteCancel
<1>25. CASE LeaseLapses
  BY <1>25 DEF LeaseLapses
<1>26. CASE Stall
  BY <1>26 DEF Stall
<1>27. CASE UNCHANGED vars
  BY <1>27 DEF vars
<1> QED
  BY <1>1, <1>2, <1>3, <1>4, <1>5, <1>6, <1>7, <1>8, <1>9, <1>10, <1>11,
     <1>12, <1>13, <1>14, <1>15, <1>16, <1>17, <1>18, <1>19, <1>20, <1>21,
     <1>22, <1>23, <1>24, <1>25, <1>26, <1>27, StepCases

(* The flags and the budget of faults. *)
CountTypes ==
    /\ cancelling \in BOOLEAN
    /\ faults \in Nat /\ stalls \in Nat /\ faults + stalls <= MaxFaults

LEMMA StepCountTypes == CountTypes /\ [Next]_vars => CountTypes'
<1> SUFFICES ASSUME CountTypes, [Next]_vars PROVE CountTypes'
  OBVIOUS
<1> USE BoundsAssumption DEF CountTypes, Fallible
<1>1. ASSUME NEW w \in Workers, Load(w) PROVE CountTypes'
  BY <1>1 DEF Load
<1>2. ASSUME NEW w \in Workers, HandleNode(w) PROVE CountTypes'
  BY <1>2 DEF HandleNode
<1>3. ASSUME NEW w \in Workers, RefuseNode(w) PROVE CountTypes'
  BY <1>3 DEF RefuseNode
<1>4. ASSUME NEW w \in Workers, SaveCheckpoint(w) PROVE CountTypes'
  BY <1>4 DEF SaveCheckpoint
<1>5. ASSUME NEW w \in Workers, RecordFailure(w) PROVE CountTypes'
  BY <1>5 DEF RecordFailure
<1>6. ASSUME NEW w \in Workers, RecordCompletion(w) PROVE CountTypes'
  BY <1>6 DEF RecordCompletion
<1>7. ASSUME NEW w \in Workers, RecordInterrupt(w) PROVE CountTypes'
  BY <1>7 DEF RecordInterrupt
<1>8. ASSUME NEW w \in Workers, Touch(w) PROVE CountTypes'
  BY <1>8 DEF Touch
<1>9. ASSUME NEW w \in Workers, Raise(w) PROVE CountTypes'
  BY <1>9 DEF Raise
<1>10. ASSUME NEW w \in Workers, RecordRaises(w) PROVE CountTypes'
  BY <1>10 DEF RecordRaises
<1>11. ASSUME NEW w \in Workers, Crash(w) PROVE CountTypes'
  BY <1>11 DEF Crash
<1>12. ASSUME NEW w \in Workers, NEW m \in queue, Noop(w, m) PROVE CountTypes'
  BY <1>12 DEF Noop, Take
<1>13. ASSUME NEW w \in Workers, NEW m \in queue, AcquireFenced(w, m) PROVE CountTypes'
  BY <1>13 DEF AcquireFenced, Take
<1>14. ASSUME NEW w \in Workers, NEW m \in queue, Acquire(w, m) PROVE CountTypes'
  BY <1>14 DEF Acquire, Take
<1>15. ASSUME NEW w \in Workers, NEW m \in queue, AcquireRaises(w, m) PROVE CountTypes'
  BY <1>15 DEF AcquireRaises
<1>16. ASSUME NEW m \in queue, LoseMessage(m) PROVE CountTypes'
  BY <1>16 DEF LoseMessage
<1>17. ASSUME NEW c \in locks, LockExpires(c) PROVE CountTypes'
  BY <1>17 DEF LockExpires
<1>18. ASSUME NEW c \in locks, LockExpiresEarly(c) PROVE CountTypes'
  BY <1>18 DEF LockExpiresEarly
<1>19. CASE Dispatch
  BY <1>19 DEF Dispatch
<1>20. CASE Recover
  BY <1>20 DEF Recover
<1>21. ASSUME NEW r \in DOMAIN rows, NEW a \in {"RESOLVED", "REJECTED"}, Resume(r, a) PROVE CountTypes'
  BY <1>21 DEF Resume
<1>22. CASE Cancel
  BY <1>22 DEF Cancel
<1>23. CASE ReadToCancel
  BY <1>23 DEF ReadToCancel
<1>24. CASE WriteCancel
  BY <1>24 DEF WriteCancel
<1>25. CASE LeaseLapses
  BY <1>25 DEF LeaseLapses
<1>26. CASE Stall
  BY <1>26 DEF Stall
<1>27. CASE UNCHANGED vars
  BY <1>27 DEF vars
<1> QED
  BY <1>1, <1>2, <1>3, <1>4, <1>5, <1>6, <1>7, <1>8, <1>9, <1>10, <1>11,
     <1>12, <1>13, <1>14, <1>15, <1>16, <1>17, <1>18, <1>19, <1>20, <1>21,
     <1>22, <1>23, <1>24, <1>25, <1>26, <1>27, StepCases

(* Every step keeps the types. *)
LEMMA StepTypeOK == TypeOK /\ [Next]_vars => TypeOK'
<1> SUFFICES ASSUME TypeOK, [Next]_vars PROVE TypeOK'
  OBVIOUS
<1> DEFINE n == Len(graph.nodes)
<1>1. graph' = graph /\ n' = n /\ n \in Nat
  BY StepGraph, GraphsAssumption, LenProperties DEF TypeOK
<1>2. /\ RowTypes /\ BrokerTypes /\ CountTypes /\ WorkTypes(n)
      /\ pos \in [Workers -> Nat]
  BY <1>1 DEF TypeOK, RowTypes, BrokerTypes, CountTypes, WorkTypes, Nodes
<1>3. RowTypes' /\ BrokerTypes' /\ CountTypes' /\ rows' \in Seq(Rows)
  BY <1>2, StepRowTypes, StepBrokerTypes, StepCountTypes, StepRows DEF TypeOK
<1> HIDE DEF n
<1>4. WorkTypes(n)'
  BY <1>1, <1>2, StepWorkTypes DEF n
<1> QED
  BY <1>1, <1>3, <1>4
     DEF TypeOK, RowTypes, BrokerTypes, CountTypes, WorkTypes, Nodes, n

(* The initial states have the types. *)
LEMMA InitTypeOK == Init => TypeOK
<1> SUFFICES ASSUME Init PROVE TypeOK
  OBVIOUS
<1>1. graph \in Graphs /\ Len(Nodes) \in Nat
  BY GraphsAssumption, LenProperties DEF Init, Nodes
<1>2. rows \in Seq(Rows)
  BY DEF Init
<1>3. queue \subseteq Messages /\ NoMsg \in Messages
  <2>1. NoMsg \in Messages
    BY DEF Messages, NoMsg, Start
  <2>2. queue = {} \/ queue = {NoMsg}
    BY DEF Init, NoMsg
  <2> QED
    BY <2>1, <2>2
<1>4. /\ ckpt \in 0..Len(Nodes) /\ effects \in [1..Len(Nodes) -> Nat]
      /\ pos \in [Workers -> 0..Len(Nodes)]
  BY <1>1 DEF Init
<1>5. /\ pc \in [Workers -> {"idle", "acquired", "run", "done", "failed"}]
      /\ msg \in [Workers -> Messages] /\ locks \subseteq Nat
  BY <1>3 DEF Init
<1>6. status \in Statuses /\ command \in Nat /\ lease \in {"none", "held", "lapsed"}
  BY DEF Init, Statuses, Start
<1>7. cancelling \in BOOLEAN
  BY DEF Init
<1>8. faults = 0 /\ stalls = 0
  BY DEF Init
<1>9. faults \in Nat /\ stalls \in Nat /\ faults + stalls <= MaxFaults
  BY <1>8, BoundsAssumption
<1> QED
  BY <1>1, <1>2, <1>3, <1>4, <1>5, <1>6, <1>7, <1>9 DEF TypeOK

(* Every variable keeps its type: ai_graph_runs.status has one of its six  *)
(* values, the checkpoint and the workers stay within the graph.           *)
THEOREM TypeCorrect == Spec => []TypeOK
  BY InitTypeOK, StepTypeOK, PTL DEF Spec

-----------------------------------------------------------------------------
(* A human's decision is executed at most once.                             *)

(* A resume names an interrupt that has been answered. *)
CommandAnswered ==
    \/ command = Start
    \/ command \in DOMAIN rows /\ rows[command].status # "PENDING"

(* A decision that still waits, or is queued, was not taken yet. *)
FreshDecisions ==
    \A r \in DOMAIN rows :
        /\ rows[r].taken <= 1
        /\ rows[r].status = "PENDING" => rows[r].taken = 0
        /\ status = "QUEUED" /\ command = r => rows[r].taken = 0

DecisionInv == CommandAnswered /\ FreshDecisions

(* Steps that leave the interrupts and the command alone, and do not queue  *)
(* the run, keep the decisions as they are. *)
LEMMA DecisionsKept ==
    ASSUME DecisionInv, rows' = rows, command' = command,
           status' = "QUEUED" => status = "QUEUED"
    PROVE  DecisionInv'
  BY DEF DecisionInv, CommandAnswered, FreshDecisions

(* The interrupts with one more. *)
LEMMA AppendRow ==
    ASSUME NEW s \in Seq(Rows), NEW x \in Rows
    PROVE  /\ DOMAIN Append(s, x) = 1..(Len(s) + 1)
           /\ \A q \in DOMAIN s : Append(s, x)[q] = s[q]
           /\ Append(s, x)[Len(s) + 1] = x
<1>1. /\ Append(s, x) \in Seq(Rows)
      /\ Len(Append(s, x)) = Len(s) + 1
      /\ \A i \in 1..Len(s) : Append(s, x)[i] = s[i]
      /\ Append(s, x)[Len(s) + 1] = x
  BY AppendProperties
<1>2. DOMAIN s = 1..Len(s)
  BY LenProperties
<1>3. DOMAIN Append(s, x) = 1..Len(Append(s, x))
  BY <1>1, LenProperties
<1> QED
  BY <1>1, <1>2, <1>3

LEMMA StepDecisionInv == TypeOK /\ DecisionInv /\ [Next]_vars => DecisionInv'
<1> SUFFICES ASSUME TypeOK, DecisionInv, [Next]_vars PROVE DecisionInv'
  OBVIOUS
<1>a. /\ rows \in Seq(Rows) /\ DOMAIN rows = 1..Len(rows) /\ Len(rows) \in Nat
      /\ Start \notin DOMAIN rows /\ command \in Nat
      /\ \A r \in DOMAIN rows : rows[r] \in Rows
  BY LenProperties DEF TypeOK, Start
<1>b. \A r \in DOMAIN rows : rows[r].taken \in Nat
  BY <1>a DEF Rows
<1> USE DecisionsKept DEF rowVars, Terminal
<1>1. ASSUME NEW w \in Workers, Load(w) PROVE DecisionInv'
  BY <1>1 DEF Load
<1>2. ASSUME NEW w \in Workers, HandleNode(w) PROVE DecisionInv'
  BY <1>2 DEF HandleNode, LockRun
<1>3. ASSUME NEW w \in Workers, RefuseNode(w) PROVE DecisionInv'
  BY <1>3 DEF RefuseNode
<1>4. ASSUME NEW w \in Workers, SaveCheckpoint(w) PROVE DecisionInv'
  BY <1>4 DEF SaveCheckpoint
<1>5. ASSUME NEW w \in Workers, RecordFailure(w) PROVE DecisionInv'
  BY <1>5 DEF RecordFailure, MarkFailed
<1>6. ASSUME NEW w \in Workers, RecordCompletion(w) PROVE DecisionInv'
  BY <1>6 DEF RecordCompletion
<1>7. ASSUME NEW w \in Workers, RecordInterrupt(w) PROVE DecisionInv'
  <2>1. CASE status \in Terminal
    BY <1>7, <2>1 DEF RecordInterrupt
  <2>2. CASE status \notin Terminal
    <3>1. /\ rows' = Append(rows, InterruptRow(w))
          /\ status' = "INTERRUPTED" /\ command' = command
      BY <1>7, <2>2 DEF RecordInterrupt
    <3>0. InterruptRow(w) \in Rows
      BY DEF InterruptRow, Rows, TypeOK
    <3>2. DOMAIN rows' = 1..(Len(rows) + 1)
      BY <3>0, <3>1, <1>a, AppendRow
    <3>3. /\ \A q \in DOMAIN rows : rows'[q] = rows[q]
          /\ rows'[Len(rows) + 1] = InterruptRow(w)
      BY <3>0, <3>1, <1>a, AppendRow
    <3>4. InterruptRow(w).taken = 0
      BY DEF InterruptRow
    <3>5. \A q \in DOMAIN rows' : q \in DOMAIN rows \/ q = Len(rows) + 1
      BY <3>2, <1>a
    <3>6. DOMAIN rows \subseteq DOMAIN rows'
      BY <3>2, <1>a
    <3> QED
      BY <3>1, <3>3, <3>4, <3>5, <3>6
         DEF DecisionInv, CommandAnswered, FreshDecisions
  <2> QED
    BY <2>1, <2>2
<1>8. ASSUME NEW w \in Workers, Touch(w) PROVE DecisionInv'
  BY <1>8 DEF Touch, LockRun
<1>9. ASSUME NEW w \in Workers, Raise(w) PROVE DecisionInv'
  BY <1>9 DEF Raise
<1>10. ASSUME NEW w \in Workers, RecordRaises(w) PROVE DecisionInv'
  BY <1>10 DEF RecordRaises
<1>11. ASSUME NEW w \in Workers, Crash(w) PROVE DecisionInv'
  BY <1>11 DEF Crash
<1>12. ASSUME NEW w \in Workers, NEW m \in queue, Noop(w, m) PROVE DecisionInv'
  BY <1>12 DEF Noop
<1>13. ASSUME NEW w \in Workers, NEW m \in queue, AcquireFenced(w, m) PROVE DecisionInv'
  BY <1>13 DEF AcquireFenced, MarkFailed
<1>14. ASSUME NEW w \in Workers, NEW m \in queue, Acquire(w, m) PROVE DecisionInv'
  <2>1. status = "QUEUED" /\ command = m.command /\ status' = "RUNNING" /\ command' = command
    BY <1>14 DEF Acquire, DispatchMatches
  <2>2. CASE command \notin DOMAIN rows
    BY <1>14, <2>1, <2>2, DecisionsKept DEF Acquire
  <2>3. CASE command \in DOMAIN rows
    <3>1. rows' = [rows EXCEPT ![command].taken = @ + 1]
      BY <1>14, <2>1, <2>3 DEF Acquire
    <3>2. DOMAIN rows' = DOMAIN rows
      BY <3>1
    <3>3. \A r \in DOMAIN rows : r # command => rows'[r] = rows[r]
      BY <3>1
    <3>4. rows'[command] = [rows[command] EXCEPT !.taken = @ + 1]
      BY <3>1, <2>3
    <3>5. rows[command].taken = 0 /\ rows[command].status # "PENDING"
      BY <2>1, <2>3, <1>a DEF DecisionInv, CommandAnswered, FreshDecisions
    <3>6. rows'[command].taken = 1 /\ rows'[command].status = rows[command].status
      BY <3>4, <3>5, <2>3, <1>a DEF Rows
    <3> QED
      BY <2>1, <2>3, <3>2, <3>3, <3>5, <3>6
         DEF DecisionInv, CommandAnswered, FreshDecisions
  <2> QED
    BY <2>2, <2>3
<1>15. ASSUME NEW w \in Workers, NEW m \in queue, AcquireRaises(w, m) PROVE DecisionInv'
  BY <1>15 DEF AcquireRaises
<1>16. ASSUME NEW m \in queue, LoseMessage(m) PROVE DecisionInv'
  BY <1>16 DEF LoseMessage
<1>17. ASSUME NEW c \in locks, LockExpires(c) PROVE DecisionInv'
  BY <1>17 DEF LockExpires
<1>18. ASSUME NEW c \in locks, LockExpiresEarly(c) PROVE DecisionInv'
  BY <1>18 DEF LockExpiresEarly
<1>19. CASE Dispatch
  BY <1>19 DEF Dispatch, MarkFailed
<1>20. CASE Recover
  <2>1. CASE Recoverable
    <3>1. rows = <<>> /\ command = Start /\ rows' = rows /\ command' = command
      BY <1>20, <2>1 DEF Recover, Recoverable, StartHasHistory
    <3> QED
      BY <3>1 DEF DecisionInv, CommandAnswered, FreshDecisions
  <2>2. CASE ~Recoverable
    BY <1>20, <2>2 DEF Recover, MarkFailed
  <2> QED
    BY <2>1, <2>2
<1>21. ASSUME NEW r \in DOMAIN rows, NEW a \in {"RESOLVED", "REJECTED"}, Resume(r, a) PROVE DecisionInv'
  <2>1. /\ rows' = [rows EXCEPT ![r].status = a]
        /\ rows[r].status = "PENDING" /\ status' = "QUEUED" /\ command' = r
    BY <1>21 DEF Resume
  <2>2. DOMAIN rows' = DOMAIN rows
    BY <2>1
  <2>3. \A q \in DOMAIN rows : q # r => rows'[q] = rows[q]
    BY <2>1
  <2>4. rows'[r] = [rows[r] EXCEPT !.status = a]
    BY <2>1
  <2>5. rows[r].taken = 0
    BY <2>1 DEF DecisionInv, FreshDecisions
  <2>6. rows'[r].taken = 0 /\ rows'[r].status # "PENDING"
    BY <2>4, <2>5, <1>a DEF Rows
  <2> QED
    BY <2>1, <2>2, <2>3, <2>6, <1>a
       DEF DecisionInv, CommandAnswered, FreshDecisions
<1>22. CASE Cancel
  BY <1>22 DEF Cancel
<1>23. CASE ReadToCancel
  BY <1>23 DEF ReadToCancel
<1>24. CASE WriteCancel
  BY <1>24 DEF WriteCancel
<1>25. CASE LeaseLapses
  BY <1>25 DEF LeaseLapses
<1>26. CASE Stall
  BY <1>26 DEF Stall
<1>27. CASE UNCHANGED vars
  BY <1>27 DEF vars
<1> QED
  BY <1>1, <1>2, <1>3, <1>4, <1>5, <1>6, <1>7, <1>8, <1>9, <1>10, <1>11,
     <1>12, <1>13, <1>14, <1>15, <1>16, <1>17, <1>18, <1>19, <1>20, <1>21,
     <1>22, <1>23, <1>24, <1>25, <1>26, <1>27, StepCases

LEMMA InitDecisionInv == Init => DecisionInv
  BY DEF Init, DecisionInv, CommandAnswered, FreshDecisions

-----------------------------------------------------------------------------
(* One execution at a time.                                                 *)

(* Somebody may take the run next: it is queued, waits for its human, or    *)
(* lost its lease.  An execution that follows is accounted for already. *)
Waiting == \/ status \in {"QUEUED", "INTERRUPTED"}
           \/ status = "RUNNING" /\ lease = "lapsed"

ExclusiveInv == Cardinality(Live) + (IF Waiting THEN 1 ELSE 0) <= 1 + stalls

(* What a step may do to the live workers and to the place that waits. *)
OwnerStep ==
    \/ Live' = Live /\ stalls' = stalls /\ (Waiting' => Waiting)
    \/ stalls' = stalls /\ \E w \in Live : Live' = Live \ {w}
    \/ /\ stalls' = stalls /\ Waiting /\ ~Waiting'
       /\ \E w \in Workers \ Live : Live' = Live \union {w}
    \/ Live' = Live /\ stalls' = stalls + 1
    \/ Live = {} /\ Live' = {} /\ stalls' = stalls

(* Every step is of that kind. *)
LEMMA StepOwner == TypeOK /\ [Next]_vars => OwnerStep
<1> SUFFICES ASSUME TypeOK, [Next]_vars PROVE OwnerStep
  OBVIOUS
<1>a. pc \in [Workers -> {"idle", "acquired", "run", "done", "failed"}]
  BY DEF TypeOK
<1> USE <1>a DEF OwnerStep, Live, Waiting, rowVars, workerVars, Terminal
<1>1. ASSUME NEW w \in Workers, Load(w) PROVE OwnerStep
  <2>1. /\ pc[w] # "idle" /\ pc'[w] # "idle" /\ stalls' = stalls
        /\ \A v \in Workers : v # w => pc'[v] = pc[v]
    BY <1>1 DEF Load
  <2>2. Live' = Live
    BY <2>1
  <2>3. Waiting' => Waiting
    BY <1>1 DEF Load
  <2> QED
    BY <2>2, <2>1, <2>3
<1>2. ASSUME NEW w \in Workers, HandleNode(w) PROVE OwnerStep
  <2>1. /\ pc[w] # "idle" /\ pc'[w] # "idle" /\ stalls' = stalls
        /\ \A v \in Workers : v # w => pc'[v] = pc[v]
    BY <1>2 DEF HandleNode, LockRun
  <2>2. Live' = Live
    BY <2>1
  <2>3. Waiting' => Waiting
    BY <1>2 DEF HandleNode, LockRun
  <2> QED
    BY <2>2, <2>1, <2>3
<1>3. ASSUME NEW w \in Workers, RefuseNode(w) PROVE OwnerStep
  <2>1. /\ pc[w] # "idle" /\ pc'[w] # "idle" /\ stalls' = stalls
        /\ \A v \in Workers : v # w => pc'[v] = pc[v]
    BY <1>3 DEF RefuseNode
  <2>2. Live' = Live
    BY <2>1
  <2>3. Waiting' => Waiting
    BY <1>3 DEF RefuseNode
  <2> QED
    BY <2>2, <2>1, <2>3
<1>4. ASSUME NEW w \in Workers, SaveCheckpoint(w) PROVE OwnerStep
  <2>1. /\ pc[w] # "idle" /\ pc'[w] # "idle" /\ stalls' = stalls
        /\ \A v \in Workers : v # w => pc'[v] = pc[v]
    BY <1>4 DEF SaveCheckpoint
  <2>2. Live' = Live
    BY <2>1
  <2>3. Waiting' => Waiting
    BY <1>4 DEF SaveCheckpoint
  <2> QED
    BY <2>2, <2>1, <2>3
<1>5. ASSUME NEW w \in Workers, RecordFailure(w) PROVE OwnerStep
  <2>1. /\ w \in Live /\ pc'[w] = "idle" /\ stalls' = stalls
        /\ \A v \in Workers : v # w => pc'[v] = pc[v]
    BY <1>5 DEF RecordFailure, Return, Idle
  <2>2. Live' = Live \ {w}
    BY <2>1
  <2> QED
    BY <2>1, <2>2
<1>6. ASSUME NEW w \in Workers, RecordCompletion(w) PROVE OwnerStep
  <2>1. /\ w \in Live /\ pc'[w] = "idle" /\ stalls' = stalls
        /\ \A v \in Workers : v # w => pc'[v] = pc[v]
    BY <1>6 DEF RecordCompletion, Return, Idle
  <2>2. Live' = Live \ {w}
    BY <2>1
  <2> QED
    BY <2>1, <2>2
<1>7. ASSUME NEW w \in Workers, RecordInterrupt(w) PROVE OwnerStep
  <2>1. /\ w \in Live /\ pc'[w] = "idle" /\ stalls' = stalls
        /\ \A v \in Workers : v # w => pc'[v] = pc[v]
    BY <1>7 DEF RecordInterrupt, Return, Idle
  <2>2. Live' = Live \ {w}
    BY <2>1
  <2> QED
    BY <2>1, <2>2
<1>8. ASSUME NEW w \in Workers, Touch(w) PROVE OwnerStep
  <2>1. pc' = pc /\ stalls' = stalls
    BY <1>8 DEF Touch, LockRun
  <2>2. Waiting' => Waiting
    BY <1>8 DEF Touch, LockRun
  <2> QED
    BY <2>1, <2>2
<1>9. ASSUME NEW w \in Workers, Raise(w) PROVE OwnerStep
  <2>1. /\ pc[w] # "idle" /\ pc'[w] # "idle" /\ stalls' = stalls
        /\ \A v \in Workers : v # w => pc'[v] = pc[v]
    BY <1>9 DEF Raise
  <2>2. Live' = Live
    BY <2>1
  <2>3. Waiting' => Waiting
    BY <1>9 DEF Raise
  <2> QED
    BY <2>2, <2>1, <2>3
<1>10. ASSUME NEW w \in Workers, RecordRaises(w) PROVE OwnerStep
  <2>1. /\ w \in Live /\ pc'[w] = "idle" /\ stalls' = stalls
        /\ \A v \in Workers : v # w => pc'[v] = pc[v]
    BY <1>10 DEF RecordRaises, Return, Idle
  <2>2. Live' = Live \ {w}
    BY <2>1
  <2> QED
    BY <2>1, <2>2
<1>11. ASSUME NEW w \in Workers, Crash(w) PROVE OwnerStep
  <2>1. /\ w \in Live /\ pc'[w] = "idle" /\ stalls' = stalls
        /\ \A v \in Workers : v # w => pc'[v] = pc[v]
    BY <1>11 DEF Crash, Return, Idle
  <2>2. Live' = Live \ {w}
    BY <2>1
  <2> QED
    BY <2>1, <2>2
<1>12. ASSUME NEW w \in Workers, NEW m \in queue, Noop(w, m) PROVE OwnerStep
  <2>1. pc' = pc /\ stalls' = stalls
    BY <1>12 DEF Noop
  <2>2. Waiting' => Waiting
    BY <1>12 DEF Noop
  <2> QED
    BY <2>1, <2>2
<1>13. ASSUME NEW w \in Workers, NEW m \in queue, AcquireFenced(w, m) PROVE OwnerStep
  <2>1. pc' = pc /\ stalls' = stalls
    BY <1>13 DEF AcquireFenced, MarkFailed
  <2>2. Waiting' => Waiting
    BY <1>13 DEF AcquireFenced, MarkFailed
  <2> QED
    BY <2>1, <2>2
<1>14. ASSUME NEW w \in Workers, NEW m \in queue, Acquire(w, m) PROVE OwnerStep
  <2>1. /\ w \notin Live /\ pc'[w] = "acquired" /\ stalls' = stalls
        /\ \A v \in Workers : v # w => pc'[v] = pc[v]
    BY <1>14 DEF Acquire, Idle
  <2>2. Live' = Live \union {w}
    BY <2>1
  <2>3. Waiting /\ ~Waiting'
    BY <1>14 DEF Acquire, DispatchMatches
  <2> QED
    BY <2>1, <2>2, <2>3
<1>15. ASSUME NEW w \in Workers, NEW m \in queue, AcquireRaises(w, m) PROVE OwnerStep
  <2>1. pc' = pc /\ stalls' = stalls
    BY <1>15 DEF AcquireRaises
  <2>2. Waiting' => Waiting
    BY <1>15 DEF AcquireRaises
  <2> QED
    BY <2>1, <2>2
<1>16. ASSUME NEW m \in queue, LoseMessage(m) PROVE OwnerStep
  <2>1. pc' = pc /\ stalls' = stalls
    BY <1>16 DEF LoseMessage
  <2>2. Waiting' => Waiting
    BY <1>16 DEF LoseMessage
  <2> QED
    BY <2>1, <2>2
<1>17. ASSUME NEW c \in locks, LockExpires(c) PROVE OwnerStep
  <2>1. pc' = pc /\ stalls' = stalls
    BY <1>17 DEF LockExpires
  <2>2. Waiting' => Waiting
    BY <1>17 DEF LockExpires
  <2> QED
    BY <2>1, <2>2
<1>18. ASSUME NEW c \in locks, LockExpiresEarly(c) PROVE OwnerStep
  <2>1. pc' = pc /\ stalls' = stalls
    BY <1>18 DEF LockExpiresEarly
  <2>2. Waiting' => Waiting
    BY <1>18 DEF LockExpiresEarly
  <2> QED
    BY <2>1, <2>2
<1>19. CASE Dispatch
  <2>1. pc' = pc /\ stalls' = stalls
    BY <1>19 DEF Dispatch, MarkFailed
  <2>2. Waiting' => Waiting
    BY <1>19 DEF Dispatch, MarkFailed
  <2> QED
    BY <2>1, <2>2
<1>20. CASE Recover
  <2>1. pc' = pc /\ stalls' = stalls
    BY <1>20 DEF Recover, MarkFailed
  <2>2. Waiting' => Waiting
    BY <1>20 DEF Recover, MarkFailed
  <2> QED
    BY <2>1, <2>2
<1>21. ASSUME NEW r \in DOMAIN rows, NEW a \in {"RESOLVED", "REJECTED"}, Resume(r, a) PROVE OwnerStep
  <2>1. pc' = pc /\ stalls' = stalls
    BY <1>21 DEF Resume
  <2>2. Waiting' => Waiting
    BY <1>21 DEF Resume
  <2> QED
    BY <2>1, <2>2
<1>22. CASE Cancel
  <2>1. pc' = pc /\ stalls' = stalls
    BY <1>22 DEF Cancel
  <2>2. Waiting' => Waiting
    BY <1>22 DEF Cancel
  <2> QED
    BY <2>1, <2>2
<1>23. CASE ReadToCancel
  <2>1. pc' = pc /\ stalls' = stalls
    BY <1>23 DEF ReadToCancel
  <2>2. Waiting' => Waiting
    BY <1>23 DEF ReadToCancel
  <2> QED
    BY <2>1, <2>2
<1>24. CASE WriteCancel
  <2>1. pc' = pc /\ stalls' = stalls
    BY <1>24 DEF WriteCancel
  <2>2. Waiting' => Waiting
    BY <1>24 DEF WriteCancel
  <2> QED
    BY <2>1, <2>2
<1>25. CASE LeaseLapses
  BY <1>25 DEF LeaseLapses
<1>26. CASE Stall
  BY <1>26 DEF Stall
<1>27. CASE UNCHANGED vars
  <2>1. pc' = pc /\ stalls' = stalls
    BY <1>27 DEF vars, OwnerStep
  <2>2. Waiting' => Waiting
    BY <1>27 DEF vars, OwnerStep
  <2> QED
    BY <2>1, <2>2
<1> QED
  BY <1>1, <1>2, <1>3, <1>4, <1>5, <1>6, <1>7, <1>8, <1>9, <1>10, <1>11,
     <1>12, <1>13, <1>14, <1>15, <1>16, <1>17, <1>18, <1>19, <1>20, <1>21,
     <1>22, <1>23, <1>24, <1>25, <1>26, <1>27, StepCases

(* So a stall is the only way to a second execution. *)
LEMMA StepExclusiveInv == TypeOK /\ ExclusiveInv /\ [Next]_vars => ExclusiveInv'
<1> SUFFICES ASSUME TypeOK, ExclusiveInv, [Next]_vars PROVE ExclusiveInv'
  OBVIOUS
<1>1. OwnerStep
  BY StepOwner
<1>2. IsFiniteSet(Live) /\ Cardinality(Live) \in Nat /\ stalls \in Nat
  <2>1. Live \subseteq Workers
    BY DEF Live
  <2> QED
    BY <2>1, WorkersAssumption, FS_Subset, FS_CardinalityType DEF TypeOK
<1>3. CASE Live' = Live /\ stalls' = stalls /\ (Waiting' => Waiting)
  BY <1>2, <1>3 DEF ExclusiveInv
<1>4. ASSUME stalls' = stalls, NEW w \in Live, Live' = Live \ {w}
      PROVE  ExclusiveInv'
  <2>1. Cardinality(Live') = Cardinality(Live) - 1
    BY <1>2, <1>4, FS_RemoveElement
  <2> QED
    BY <1>2, <1>4, <2>1 DEF ExclusiveInv
<1>5. ASSUME stalls' = stalls, Waiting, ~Waiting',
             NEW w \in Workers \ Live, Live' = Live \union {w}
      PROVE  ExclusiveInv'
  <2>1. Cardinality(Live') = Cardinality(Live) + 1
    BY <1>2, <1>5, FS_AddElement
  <2> QED
    BY <1>2, <1>5, <2>1 DEF ExclusiveInv
<1>6. CASE Live' = Live /\ stalls' = stalls + 1
  BY <1>2, <1>6 DEF ExclusiveInv
<1>7. CASE Live = {} /\ Live' = {} /\ stalls' = stalls
  BY <1>2, <1>7, FS_EmptySet DEF ExclusiveInv
<1> QED
  BY <1>1, <1>3, <1>4, <1>5, <1>6, <1>7 DEF OwnerStep

LEMMA InitExclusiveInv == Init => ExclusiveInv
<1> SUFFICES ASSUME Init PROVE ExclusiveInv
  OBVIOUS
<1>1. Live = {} /\ stalls = 0
  BY DEF Init, Live
<1>2. Cardinality(Live) = 0
  BY <1>1, FS_EmptySet
<1> QED
  BY <1>1, <1>2 DEF ExclusiveInv

-----------------------------------------------------------------------------
(* The invariant.                                                           *)

(* Only a canonical run is cancelled without its lock. *)
CancellingInv == cancelling => graph.handler = "canonical"

LEMMA StepCancellingInv == CancellingInv /\ [Next]_vars => CancellingInv'
<1> SUFFICES ASSUME CancellingInv, [Next]_vars PROVE CancellingInv'
  OBVIOUS
<1>g. graph' = graph
  BY StepGraph
<1> USE <1>g DEF CancellingInv
<1>1. ASSUME NEW w \in Workers, Load(w) PROVE CancellingInv'
  BY <1>1 DEF Load
<1>2. ASSUME NEW w \in Workers, HandleNode(w) PROVE CancellingInv'
  BY <1>2 DEF HandleNode
<1>3. ASSUME NEW w \in Workers, RefuseNode(w) PROVE CancellingInv'
  BY <1>3 DEF RefuseNode
<1>4. ASSUME NEW w \in Workers, SaveCheckpoint(w) PROVE CancellingInv'
  BY <1>4 DEF SaveCheckpoint
<1>5. ASSUME NEW w \in Workers, RecordFailure(w) PROVE CancellingInv'
  BY <1>5 DEF RecordFailure
<1>6. ASSUME NEW w \in Workers, RecordCompletion(w) PROVE CancellingInv'
  BY <1>6 DEF RecordCompletion
<1>7. ASSUME NEW w \in Workers, RecordInterrupt(w) PROVE CancellingInv'
  BY <1>7 DEF RecordInterrupt
<1>8. ASSUME NEW w \in Workers, Touch(w) PROVE CancellingInv'
  BY <1>8 DEF Touch
<1>9. ASSUME NEW w \in Workers, Raise(w) PROVE CancellingInv'
  BY <1>9 DEF Raise
<1>10. ASSUME NEW w \in Workers, RecordRaises(w) PROVE CancellingInv'
  BY <1>10 DEF RecordRaises
<1>11. ASSUME NEW w \in Workers, Crash(w) PROVE CancellingInv'
  BY <1>11 DEF Crash
<1>12. ASSUME NEW w \in Workers, NEW m \in queue, Noop(w, m) PROVE CancellingInv'
  BY <1>12 DEF Noop
<1>13. ASSUME NEW w \in Workers, NEW m \in queue, AcquireFenced(w, m) PROVE CancellingInv'
  BY <1>13 DEF AcquireFenced
<1>14. ASSUME NEW w \in Workers, NEW m \in queue, Acquire(w, m) PROVE CancellingInv'
  BY <1>14 DEF Acquire
<1>15. ASSUME NEW w \in Workers, NEW m \in queue, AcquireRaises(w, m) PROVE CancellingInv'
  BY <1>15 DEF AcquireRaises
<1>16. ASSUME NEW m \in queue, LoseMessage(m) PROVE CancellingInv'
  BY <1>16 DEF LoseMessage
<1>17. ASSUME NEW c \in locks, LockExpires(c) PROVE CancellingInv'
  BY <1>17 DEF LockExpires
<1>18. ASSUME NEW c \in locks, LockExpiresEarly(c) PROVE CancellingInv'
  BY <1>18 DEF LockExpiresEarly
<1>19. CASE Dispatch
  BY <1>19 DEF Dispatch
<1>20. CASE Recover
  BY <1>20 DEF Recover
<1>21. ASSUME NEW r \in DOMAIN rows, NEW a \in {"RESOLVED", "REJECTED"}, Resume(r, a) PROVE CancellingInv'
  BY <1>21 DEF Resume
<1>22. CASE Cancel
  BY <1>22 DEF Cancel
<1>23. CASE ReadToCancel
  BY <1>23 DEF ReadToCancel
<1>24. CASE WriteCancel
  BY <1>24 DEF WriteCancel
<1>25. CASE LeaseLapses
  BY <1>25 DEF LeaseLapses
<1>26. CASE Stall
  BY <1>26 DEF Stall
<1>27. CASE UNCHANGED vars
  BY <1>27 DEF vars
<1> QED
  BY <1>1, <1>2, <1>3, <1>4, <1>5, <1>6, <1>7, <1>8, <1>9, <1>10, <1>11,
     <1>12, <1>13, <1>14, <1>15, <1>16, <1>17, <1>18, <1>19, <1>20, <1>21,
     <1>22, <1>23, <1>24, <1>25, <1>26, <1>27, StepCases

IInv == TypeOK /\ DecisionInv /\ ExclusiveInv /\ CancellingInv

(* The inductive invariant of the run. *)
THEOREM Invariance == Spec => []IInv
<1>1. Init => IInv
  BY InitTypeOK, InitDecisionInv, InitExclusiveInv DEF IInv, CancellingInv, Init
<1>2. IInv /\ [Next]_vars => IInv'
  BY StepTypeOK, StepDecisionInv, StepExclusiveInv, StepCancellingInv DEF IInv
<1> QED
  BY <1>1, <1>2, PTL DEF Spec

(* Every human decision reaches at most one execution of the graph, however *)
(* often its message is delivered, published or recovered.                  *)
THEOREM DecisionsOnce == Spec => []DecisionsTakenOnce
<1>1. IInv => DecisionsTakenOnce
  BY DEF IInv, DecisionInv, FreshDecisions, DecisionsTakenOnce
<1> QED
  BY <1>1, Invariance, PTL

(* A second execution of the same run takes a lease that lapsed under a     *)
(* live worker.                                                             *)
THEOREM ExclusiveExecution == Spec => []ExclusiveUnlessStalled
<1>1. IInv => ExclusiveUnlessStalled
  <2> SUFFICES ASSUME IInv PROVE ExclusiveUnlessStalled
    OBVIOUS
  <2>1. Live \subseteq Workers
    BY DEF Live
  <2>2. Cardinality(Live) \in Nat /\ stalls \in Nat
    BY <2>1, WorkersAssumption, FS_Subset, FS_CardinalityType DEF IInv, TypeOK
  <2> QED
    BY <2>2 DEF IInv, ExclusiveInv, ExclusiveUnlessStalled
<1> QED
  BY <1>1, Invariance, PTL

(* A step of a chat run that is over leaves its status. *)
LEMMA StepTerminal ==
    ASSUME CancellingInv, [Next]_vars, graph.handler = "chat", status \in Terminal
    PROVE  status' = status
<1>a. ~cancelling
  BY DEF CancellingInv
<1> USE <1>a DEF rowVars, Terminal
<1>1. ASSUME NEW w \in Workers, Load(w) PROVE status' = status
  BY <1>1 DEF Load
<1>2. ASSUME NEW w \in Workers, HandleNode(w) PROVE status' = status
  BY <1>2 DEF HandleNode, LockRun, Refused
<1>3. ASSUME NEW w \in Workers, RefuseNode(w) PROVE status' = status
  BY <1>3 DEF RefuseNode
<1>4. ASSUME NEW w \in Workers, SaveCheckpoint(w) PROVE status' = status
  BY <1>4 DEF SaveCheckpoint
<1>5. ASSUME NEW w \in Workers, RecordFailure(w) PROVE status' = status
  BY <1>5 DEF RecordFailure, MarkFailed
<1>6. ASSUME NEW w \in Workers, RecordCompletion(w) PROVE status' = status
  BY <1>6 DEF RecordCompletion
<1>7. ASSUME NEW w \in Workers, RecordInterrupt(w) PROVE status' = status
  BY <1>7 DEF RecordInterrupt
<1>8. ASSUME NEW w \in Workers, Touch(w) PROVE status' = status
  BY <1>8 DEF Touch, LockRun, Refused
<1>9. ASSUME NEW w \in Workers, Raise(w) PROVE status' = status
  BY <1>9 DEF Raise
<1>10. ASSUME NEW w \in Workers, RecordRaises(w) PROVE status' = status
  BY <1>10 DEF RecordRaises
<1>11. ASSUME NEW w \in Workers, Crash(w) PROVE status' = status
  BY <1>11 DEF Crash
<1>12. ASSUME NEW w \in Workers, NEW m \in queue, Noop(w, m) PROVE status' = status
  BY <1>12 DEF Noop
<1>13. ASSUME NEW w \in Workers, NEW m \in queue, AcquireFenced(w, m) PROVE status' = status
  BY <1>13 DEF AcquireFenced, MarkFailed
<1>14. ASSUME NEW w \in Workers, NEW m \in queue, Acquire(w, m) PROVE status' = status
  BY <1>14 DEF Acquire, DispatchMatches
<1>15. ASSUME NEW w \in Workers, NEW m \in queue, AcquireRaises(w, m) PROVE status' = status
  BY <1>15 DEF AcquireRaises
<1>16. ASSUME NEW m \in queue, LoseMessage(m) PROVE status' = status
  BY <1>16 DEF LoseMessage
<1>17. ASSUME NEW c \in locks, LockExpires(c) PROVE status' = status
  BY <1>17 DEF LockExpires
<1>18. ASSUME NEW c \in locks, LockExpiresEarly(c) PROVE status' = status
  BY <1>18 DEF LockExpiresEarly
<1>19. CASE Dispatch
  BY <1>19 DEF Dispatch
<1>20. CASE Recover
  BY <1>20 DEF Recover
<1>21. ASSUME NEW r \in DOMAIN rows, NEW a \in {"RESOLVED", "REJECTED"}, Resume(r, a) PROVE status' = status
  BY <1>21 DEF Resume
<1>22. CASE Cancel
  BY <1>22 DEF Cancel
<1>23. CASE ReadToCancel
  BY <1>23 DEF ReadToCancel
<1>24. CASE WriteCancel
  BY <1>24 DEF WriteCancel
<1>25. CASE LeaseLapses
  BY <1>25 DEF LeaseLapses
<1>26. CASE Stall
  BY <1>26 DEF Stall
<1>27. CASE UNCHANGED vars
  BY <1>27 DEF vars
<1> QED
  BY <1>1, <1>2, <1>3, <1>4, <1>5, <1>6, <1>7, <1>8, <1>9, <1>10, <1>11,
     <1>12, <1>13, <1>14, <1>15, <1>16, <1>17, <1>18, <1>19, <1>20, <1>21,
     <1>22, <1>23, <1>24, <1>25, <1>26, <1>27, StepCases

(* COMPLETED, FAILED and CANCELLED are final for a chat run.                *)
THEOREM TerminalStays == Spec => TerminalIsFinal
<1>1. IInv /\ [Next]_vars
        => [(graph.handler = "chat" /\ status \in Terminal) => status' = status]_vars
  BY StepTerminal DEF IInv
<1> QED
  BY <1>1, Invariance, PTL DEF Spec, TerminalIsFinal

-----------------------------------------------------------------------------
(* The gates govern.                                                        *)

Gates(n) == {g \in 1..n : Nodes[g] = "gate"}
Pending(r) == rows[r].status = "PENDING"

(* What the checkpoint, the live worker and the completed nodes passed was  *)
(* approved; a worker at the end of the graph may have been rejected. *)
PathInv ==
    /\ \A g \in Gates(ckpt) : Approved(g)
    /\ \A w \in Workers : pc[w] = "done" => \A g \in Gates(pos[w]) : Approved(g)
    /\ \A w \in Workers : pc[w] = "run" /\ ~AtEnd(w) => pos[w] = ckpt
    /\ \A n \in 1..Len(Nodes) : effects[n] > 0 => \A g \in Gates(n - 1) : Approved(g)

(* The answer that is queued or being executed belongs to the gate that is  *)
(* next in the checkpoint, and at most one interrupt waits. *)
GateRowInv ==
    /\ \A w \in Workers :
          pc[w] = "acquired" /\ msg[w].command \in DOMAIN rows =>
              /\ rows[msg[w].command].gate = ckpt + 1
              /\ ~Pending(msg[w].command)
    /\ status = "QUEUED" /\ command \in DOMAIN rows => rows[command].gate = ckpt + 1
    /\ \A r \in DOMAIN rows :
          Pending(r) => /\ status \in {"INTERRUPTED", "CANCELLED"}
                        /\ status = "INTERRUPTED" => rows[r].gate = ckpt + 1
                        /\ \A q \in DOMAIN rows : Pending(q) => q = r

(* Every interrupt belongs to a gate of the graph that the checkpoint       *)
(* reached and that a running worker has passed, and to one of its own: a   *)
(* gate is asked about once.  A worker without an answer starts the run.    *)
OnceInv ==
    /\ \A r \in DOMAIN rows :
          rows[r].gate \in Gates(Len(Nodes)) /\ rows[r].gate <= ckpt + 1
    /\ \A w \in Workers : pc[w] \in {"run", "done"} =>
          \A r \in DOMAIN rows : rows[r].gate <= pos[w]
    /\ \A w \in Workers : pc[w] = "acquired" =>
          msg[w].command \in DOMAIN rows \/ rows = <<>>
    /\ \A q, r \in DOMAIN rows : rows[q].gate = rows[r].gate => q = r

GovernInv == stalls = 0 => PathInv /\ GateRowInv /\ OnceInv

(* A set with at most one element. *)
LEMMA AtMostOne ==
    ASSUME NEW S, IsFiniteSet(S), Cardinality(S) <= 1, NEW x \in S, NEW y \in S
    PROVE  x = y
<1> SUFFICES ASSUME x # y PROVE FALSE
  OBVIOUS
<1>1. IsFiniteSet(S \ {x}) /\ Cardinality(S \ {x}) = Cardinality(S) - 1
  BY FS_RemoveElement
<1>2. Cardinality(S) \in Nat /\ Cardinality(S \ {x}) \in Nat
  BY <1>1, FS_CardinalityType
<1>3. Cardinality(S \ {x}) = 0
  BY <1>1, <1>2
<1>4. S \ {x} = {}
  BY <1>1, <1>3, FS_EmptySet
<1> QED
  BY <1>4

(* Without a stall there is one live worker, and none while the run waits. *)
LEMMA OneLive ==
    ASSUME TypeOK, ExclusiveInv, stalls = 0
    PROVE  /\ \A v, w \in Workers : pc[v] # "idle" /\ pc[w] # "idle" => v = w
           /\ \A w \in Workers : Waiting => pc[w] = "idle"
<1>1. Live \subseteq Workers
  BY DEF Live
<1>2. IsFiniteSet(Live) /\ Cardinality(Live) \in Nat
  BY <1>1, WorkersAssumption, FS_Subset, FS_CardinalityType
<1>3. Cardinality(Live) <= 1 /\ (Waiting => Cardinality(Live) = 0)
  BY <1>2 DEF ExclusiveInv
<1>4. Waiting => Live = {}
  BY <1>2, <1>3, FS_EmptySet
<1>5. \A v, w \in Live : v = w
  BY <1>2, <1>3, AtMostOne
<1> QED
  BY <1>4, <1>5 DEF Live

(* A gate keeps its answer. *)
LEMMA StepRowsGrow ==
    ASSUME TypeOK, [Next]_vars
    PROVE  \A r \in DOMAIN rows :
               /\ r \in DOMAIN rows' /\ rows'[r].gate = rows[r].gate
               /\ rows[r].status # "PENDING" => rows'[r].status = rows[r].status
<1> DEFINE Grow == \A q \in DOMAIN rows :
                      /\ q \in DOMAIN rows' /\ rows'[q].gate = rows[q].gate
                      /\ rows[q].status # "PENDING" => rows'[q].status = rows[q].status
<1>a. /\ rows \in Seq(Rows) /\ DOMAIN rows = 1..Len(rows) /\ Len(rows) \in Nat
      /\ \A q \in DOMAIN rows : rows[q] \in Rows
  BY LenProperties DEF TypeOK
<1> USE DEF rowVars
<1>1. ASSUME NEW w \in Workers, Load(w) PROVE Grow
  BY <1>1 DEF Load
<1>2. ASSUME NEW w \in Workers, HandleNode(w) PROVE Grow
  BY <1>2 DEF HandleNode
<1>3. ASSUME NEW w \in Workers, RefuseNode(w) PROVE Grow
  BY <1>3 DEF RefuseNode
<1>4. ASSUME NEW w \in Workers, SaveCheckpoint(w) PROVE Grow
  BY <1>4 DEF SaveCheckpoint
<1>5. ASSUME NEW w \in Workers, RecordFailure(w) PROVE Grow
  BY <1>5 DEF RecordFailure
<1>6. ASSUME NEW w \in Workers, RecordCompletion(w) PROVE Grow
  BY <1>6 DEF RecordCompletion
<1>7. ASSUME NEW w \in Workers, RecordInterrupt(w) PROVE Grow
  <2>1. CASE rows' = rows
    BY <2>1
  <2>2. CASE rows' = Append(rows, InterruptRow(w))
    <3>1. InterruptRow(w) \in Rows
      BY DEF InterruptRow, Rows, TypeOK
    <3>2. /\ DOMAIN rows' = 1..(Len(rows) + 1)
          /\ \A q \in DOMAIN rows : rows'[q] = rows[q]
      BY <2>2, <3>1, <1>a, AppendRow
    <3> QED
      BY <3>2, <1>a
  <2> QED
    BY <1>7, <2>1, <2>2 DEF RecordInterrupt
<1>8. ASSUME NEW w \in Workers, Touch(w) PROVE Grow
  BY <1>8 DEF Touch
<1>9. ASSUME NEW w \in Workers, Raise(w) PROVE Grow
  BY <1>9 DEF Raise
<1>10. ASSUME NEW w \in Workers, RecordRaises(w) PROVE Grow
  BY <1>10 DEF RecordRaises
<1>11. ASSUME NEW w \in Workers, Crash(w) PROVE Grow
  BY <1>11 DEF Crash
<1>12. ASSUME NEW w \in Workers, NEW m \in queue, Noop(w, m) PROVE Grow
  BY <1>12 DEF Noop
<1>13. ASSUME NEW w \in Workers, NEW m \in queue, AcquireFenced(w, m) PROVE Grow
  BY <1>13 DEF AcquireFenced
<1>14. ASSUME NEW w \in Workers, NEW m \in queue, Acquire(w, m) PROVE Grow
  <2>1. CASE rows' = rows
    BY <2>1
  <2>2. CASE m.command \in DOMAIN rows
             /\ rows' = [rows EXCEPT ![m.command].taken = @ + 1]
    <3>1. DOMAIN rows' = DOMAIN rows
      BY <2>2
    <3>2. \A q \in DOMAIN rows : q # m.command => rows'[q] = rows[q]
      BY <2>2
    <3>3. rows'[m.command] = [rows[m.command] EXCEPT !.taken = @ + 1]
      BY <2>2
    <3>4. /\ rows'[m.command].gate = rows[m.command].gate
          /\ rows'[m.command].status = rows[m.command].status
      BY <2>2, <3>3, <1>a DEF Rows
    <3> QED
      BY <3>1, <3>2, <3>4
  <2> QED
    BY <1>14, <2>1, <2>2 DEF Acquire
<1>15. ASSUME NEW w \in Workers, NEW m \in queue, AcquireRaises(w, m) PROVE Grow
  BY <1>15 DEF AcquireRaises
<1>16. ASSUME NEW m \in queue, LoseMessage(m) PROVE Grow
  BY <1>16 DEF LoseMessage
<1>17. ASSUME NEW c \in locks, LockExpires(c) PROVE Grow
  BY <1>17 DEF LockExpires
<1>18. ASSUME NEW c \in locks, LockExpiresEarly(c) PROVE Grow
  BY <1>18 DEF LockExpiresEarly
<1>19. CASE Dispatch
  BY <1>19 DEF Dispatch
<1>20. CASE Recover
  BY <1>20 DEF Recover
<1>21. ASSUME NEW r \in DOMAIN rows, NEW a \in {"RESOLVED", "REJECTED"}, Resume(r, a) PROVE Grow
  <2>1. rows' = [rows EXCEPT ![r].status = a] /\ rows[r].status = "PENDING"
    BY <1>21 DEF Resume
  <2>2. DOMAIN rows' = DOMAIN rows
    BY <2>1
  <2>3. \A q \in DOMAIN rows : q # r => rows'[q] = rows[q]
    BY <2>1
  <2>4. rows'[r] = [rows[r] EXCEPT !.status = a]
    BY <2>1
  <2>5. rows'[r].gate = rows[r].gate
    BY <2>4, <1>a DEF Rows
  <2> QED
    BY <2>1, <2>2, <2>3, <2>5
<1>22. CASE Cancel
  BY <1>22 DEF Cancel
<1>23. CASE ReadToCancel
  BY <1>23 DEF ReadToCancel
<1>24. CASE WriteCancel
  BY <1>24 DEF WriteCancel
<1>25. CASE LeaseLapses
  BY <1>25 DEF LeaseLapses
<1>26. CASE Stall
  BY <1>26 DEF Stall
<1>27. CASE UNCHANGED vars
  BY <1>27 DEF vars
<1> QED
  BY <1>1, <1>2, <1>3, <1>4, <1>5, <1>6, <1>7, <1>8, <1>9, <1>10, <1>11,
     <1>12, <1>13, <1>14, <1>15, <1>16, <1>17, <1>18, <1>19, <1>20, <1>21,
     <1>22, <1>23, <1>24, <1>25, <1>26, <1>27, StepCases

(* Hence an approval stays. *)
LEMMA StepApproved ==
    ASSUME TypeOK, [Next]_vars, NEW g, Approved(g)
    PROVE  Approved(g)'
<1>1. PICK r \in DOMAIN rows : rows[r].gate = g /\ rows[r].status = "RESOLVED"
  BY DEF Approved, Decided
<1>2. r \in DOMAIN rows' /\ rows'[r].gate = g /\ rows'[r].status = "RESOLVED"
  BY <1>1, StepRowsGrow
<1> QED
  BY <1>2 DEF Approved, Decided

(* Steps that leave the interrupts, the checkpoint and the completed nodes  *)
(* alone, do not move a worker along the path and do not queue, interrupt   *)
(* or revive the run. *)
Quiet ==
    /\ rows' = rows /\ ckpt' = ckpt /\ effects' = effects
    /\ \A w \in Workers :
          \/ pc'[w] \in {"idle", "failed"}
          \/ pc'[w] = pc[w] /\ pos'[w] = pos[w] /\ msg'[w] = msg[w]
    /\ status' = "QUEUED" => status = "QUEUED" /\ command' = command
    /\ status' = "INTERRUPTED" => status = "INTERRUPTED"
    /\ status \in {"INTERRUPTED", "CANCELLED"} => status' \in {"INTERRUPTED", "CANCELLED"}

LEMMA QuietSteps ==
    ASSUME PathInv, GateRowInv, OnceInv, Quiet, graph' = graph
    PROVE  PathInv' /\ GateRowInv' /\ OnceInv'
<1>1. Nodes' = Nodes
  BY DEF Nodes
<1>2. \A g : Approved(g)' <=> Approved(g)
  BY DEF Quiet, Approved, Decided
<1>3. \A n : Gates(n)' = Gates(n)
  BY <1>1 DEF Gates
<1>4. \A w \in Workers : pos'[w] = pos[w] => (AtEnd(w)' <=> AtEnd(w))
  BY <1>1 DEF AtEnd
<1>5. PathInv'
  <2>1. \A g \in Gates(ckpt)' : Approved(g)'
    BY <1>2, <1>3 DEF PathInv, Quiet
  <2>2. ASSUME NEW w \in Workers, pc'[w] = "done" PROVE \A g \in Gates(pos[w])' : Approved(g)'
    BY <2>2, <1>2, <1>3 DEF PathInv, Quiet
  <2>3. ASSUME NEW w \in Workers, pc'[w] = "run", ~AtEnd(w)' PROVE pos'[w] = ckpt'
    BY <2>3, <1>4 DEF PathInv, Quiet
  <2>4. ASSUME NEW n \in 1..Len(Nodes), effects'[n] > 0
        PROVE  \A g \in Gates(n - 1)' : Approved(g)'
    BY <2>4, <1>2, <1>3 DEF PathInv, Quiet
  <2> QED
    BY <2>1, <2>2, <2>3, <2>4, <1>1 DEF PathInv
<1>6. GateRowInv'
  BY DEF GateRowInv, Quiet, Pending
<1>7. OnceInv'
  BY <1>1, <1>3 DEF OnceInv, Quiet
<1> QED
  BY <1>5, <1>6, <1>7

(* Stalls are only added. *)
LEMMA StepStalls ==
    ASSUME stalls \in Nat, [Next]_vars, stalls' = 0
    PROVE  stalls = 0
<1>1. ASSUME NEW w \in Workers, Load(w) PROVE stalls = 0
  BY <1>1 DEF Load
<1>2. ASSUME NEW w \in Workers, HandleNode(w) PROVE stalls = 0
  BY <1>2 DEF HandleNode
<1>3. ASSUME NEW w \in Workers, RefuseNode(w) PROVE stalls = 0
  BY <1>3 DEF RefuseNode
<1>4. ASSUME NEW w \in Workers, SaveCheckpoint(w) PROVE stalls = 0
  BY <1>4 DEF SaveCheckpoint
<1>5. ASSUME NEW w \in Workers, RecordFailure(w) PROVE stalls = 0
  BY <1>5 DEF RecordFailure
<1>6. ASSUME NEW w \in Workers, RecordCompletion(w) PROVE stalls = 0
  BY <1>6 DEF RecordCompletion
<1>7. ASSUME NEW w \in Workers, RecordInterrupt(w) PROVE stalls = 0
  BY <1>7 DEF RecordInterrupt
<1>8. ASSUME NEW w \in Workers, Touch(w) PROVE stalls = 0
  BY <1>8 DEF Touch
<1>9. ASSUME NEW w \in Workers, Raise(w) PROVE stalls = 0
  BY <1>9 DEF Raise
<1>10. ASSUME NEW w \in Workers, RecordRaises(w) PROVE stalls = 0
  BY <1>10 DEF RecordRaises
<1>11. ASSUME NEW w \in Workers, Crash(w) PROVE stalls = 0
  BY <1>11 DEF Crash
<1>12. ASSUME NEW w \in Workers, NEW m \in queue, Noop(w, m) PROVE stalls = 0
  BY <1>12 DEF Noop, Take
<1>13. ASSUME NEW w \in Workers, NEW m \in queue, AcquireFenced(w, m) PROVE stalls = 0
  BY <1>13 DEF AcquireFenced, Take
<1>14. ASSUME NEW w \in Workers, NEW m \in queue, Acquire(w, m) PROVE stalls = 0
  BY <1>14 DEF Acquire, Take
<1>15. ASSUME NEW w \in Workers, NEW m \in queue, AcquireRaises(w, m) PROVE stalls = 0
  BY <1>15 DEF AcquireRaises
<1>16. ASSUME NEW m \in queue, LoseMessage(m) PROVE stalls = 0
  BY <1>16 DEF LoseMessage
<1>17. ASSUME NEW c \in locks, LockExpires(c) PROVE stalls = 0
  BY <1>17 DEF LockExpires
<1>18. ASSUME NEW c \in locks, LockExpiresEarly(c) PROVE stalls = 0
  BY <1>18 DEF LockExpiresEarly
<1>19. CASE Dispatch
  BY <1>19 DEF Dispatch
<1>20. CASE Recover
  BY <1>20 DEF Recover
<1>21. ASSUME NEW r \in DOMAIN rows, NEW a \in {"RESOLVED", "REJECTED"}, Resume(r, a) PROVE stalls = 0
  BY <1>21 DEF Resume
<1>22. CASE Cancel
  BY <1>22 DEF Cancel
<1>23. CASE ReadToCancel
  BY <1>23 DEF ReadToCancel
<1>24. CASE WriteCancel
  BY <1>24 DEF WriteCancel
<1>25. CASE LeaseLapses
  BY <1>25 DEF LeaseLapses
<1>26. CASE Stall
  BY <1>26 DEF Stall
<1>27. CASE UNCHANGED vars
  BY <1>27 DEF vars
<1> QED
  BY <1>1, <1>2, <1>3, <1>4, <1>5, <1>6, <1>7, <1>8, <1>9, <1>10, <1>11,
     <1>12, <1>13, <1>14, <1>15, <1>16, <1>17, <1>18, <1>19, <1>20, <1>21,
     <1>22, <1>23, <1>24, <1>25, <1>26, <1>27, StepCases

LEMMA StepGovernInv ==
    TypeOK /\ DecisionInv /\ ExclusiveInv /\ GovernInv /\ [Next]_vars => GovernInv'
<1> SUFFICES ASSUME TypeOK, DecisionInv, ExclusiveInv, GovernInv, [Next]_vars, stalls' = 0
             PROVE  PathInv' /\ GateRowInv' /\ OnceInv'
  BY DEF GovernInv
<1>a. graph' = graph /\ Nodes' = Nodes
  BY StepGraph DEF Nodes
<1>s. stalls = 0
  BY StepStalls DEF TypeOK
<1>i. PathInv /\ GateRowInv /\ OnceInv
  BY <1>s DEF GovernInv
<1>o. /\ \A v, w \in Workers : pc[v] # "idle" /\ pc[w] # "idle" => v = w
      /\ \A w \in Workers : Waiting => pc[w] = "idle"
  BY <1>s, OneLive
<1>p. /\ \A g : Approved(g) => Approved(g)'
      /\ \A n : Gates(n)' = Gates(n)
      /\ \A n \in 1..Len(Nodes) : n \in (1..Len(Nodes))'
      /\ (1..Len(Nodes))' = 1..Len(Nodes)
  BY <1>a, StepApproved DEF Gates
<1>t. /\ rows \in Seq(Rows) /\ DOMAIN rows = 1..Len(rows) /\ Len(rows) \in Nat
      /\ \A r \in DOMAIN rows : rows[r] \in Rows
      /\ ckpt \in Nat /\ pos \in [Workers -> Nat] /\ Len(Nodes) \in Nat
      /\ pc \in [Workers -> {"idle", "acquired", "run", "done", "failed"}]
      /\ effects \in [1..Len(Nodes) -> Nat] /\ msg \in [Workers -> Messages]
  BY GraphsAssumption, LenProperties DEF TypeOK, Nodes
<1>u. /\ command \in DOMAIN rows => rows[command].status # "PENDING"
  BY <1>t DEF DecisionInv, CommandAnswered, Start
<1> USE <1>i, <1>a, <1>t DEF rowVars, graphVars, workerVars, Terminal
<1>1. ASSUME NEW w \in Workers, Load(w) PROVE PathInv' /\ GateRowInv' /\ OnceInv'
  <2>1. PathInv'
    <3>1. CASE pc'[w] = "run"
      <4>1. ckpt' = ckpt /\ effects' = effects /\ (pos'[w] = ckpt \/ AtEnd(w)')
        BY <1>1, <3>1 DEF Load, AtEnd, Nodes
      <4>2. \A v \in Workers : v # w => pc'[v] = pc[v] /\ pos'[v] = pos[v]
        BY <1>1 DEF Load
      <4> QED
        BY <3>1, <4>1, <4>2, <1>o, <1>p, <1>1 DEF PathInv, Load, AtEnd
    <3>2. CASE pc'[w] = "done"
      <4>1. /\ ckpt' = ckpt /\ effects' = effects /\ pos'[w] = ckpt + 1
            /\ msg[w].command \in DOMAIN rows /\ rows[msg[w].command].status # "REJECTED"
        BY <1>1, <3>2 DEF Load, RoutesToEnd
      <4>2. rows[msg[w].command].gate = ckpt + 1 /\ rows[msg[w].command].status = "RESOLVED"
        BY <1>1, <4>1, <1>t DEF GateRowInv, Pending, Load, Rows
      <4>3. ASSUME NEW g, g = ckpt + 1 PROVE Approved(g)'
        BY <1>1, <4>1, <4>2, <4>3 DEF Approved, Decided, Load, rowVars
      <4>4. \A v \in Workers : v # w => pc'[v] = pc[v] /\ pos'[v] = pos[v]
        BY <1>1 DEF Load
      <4>5. \A g \in Gates(pos[w])' : Approved(g)'
        <5>1. Gates(pos[w])' = {g \in 1..(ckpt + 1) : Nodes[g] = "gate"}
          BY <4>1 DEF Gates
        <5>2. \A g \in 1..ckpt : Nodes[g] = "gate" => Approved(g)'
          BY <1>p DEF PathInv, Gates
        <5>3. \A g \in 1..(ckpt + 1) : g \in 1..ckpt \/ g = ckpt + 1
          BY <1>t
        <5> QED
          BY <5>1, <5>2, <5>3, <4>3
      <4> QED
        BY <3>2, <4>1, <4>4, <4>5, <1>o, <1>p, <1>1 DEF PathInv, Load, AtEnd
    <3> QED
      BY <1>1, <3>1, <3>2 DEF Load
  <2>2. GateRowInv'
    BY <1>1 DEF Load, GateRowInv, Pending, rowVars
  <2>3. OnceInv'
    <3>0. /\ rows' = rows /\ ckpt' = ckpt /\ msg' = msg /\ pc[w] = "acquired"
          /\ \A v \in Workers : v # w => pc[v] = "idle" /\ pc'[v] = "idle"
      BY <1>1, <1>o DEF Load
    <3>1. pc'[w] # "acquired"
      BY <1>1 DEF Load
    <3>2. \A r \in DOMAIN rows : rows[r].gate <= pos'[w]
      <4>1. CASE rows = <<>>
        BY <4>1
      <4>2. CASE msg[w].command \in DOMAIN rows
        <5>1. rows[msg[w].command].gate = ckpt + 1
          BY <3>0, <4>2 DEF GateRowInv
        <5>2. ckpt < Len(Nodes) /\ Nodes[ckpt + 1] = "gate"
          BY <4>2, <5>1 DEF OnceInv, Gates
        <5>3. pos'[w] \in {Len(Nodes), ckpt + 1}
          BY <1>1, <4>2, <5>2 DEF Load
        <5> QED
          BY <5>3 DEF OnceInv, Gates, Rows
      <4> QED
        BY <3>0, <4>1, <4>2 DEF OnceInv
    <3> QED
      BY <3>0, <3>1, <3>2, <1>p DEF OnceInv
  <2> QED
    BY <2>1, <2>2, <2>3
<1>2. ASSUME NEW w \in Workers, HandleNode(w) PROVE PathInv' /\ GateRowInv' /\ OnceInv'
  <2>0. /\ pc[w] = "run" /\ pos[w] < Len(Nodes) /\ Nodes[pos[w] + 1] # "gate"
        /\ pc'[w] = "done" /\ pos'[w] = pos[w] + 1 /\ ckpt' = ckpt
        /\ effects' = [effects EXCEPT ![pos[w] + 1] = @ + 1]
        /\ \A v \in Workers : v # w => pc'[v] = pc[v] /\ pos'[v] = pos[v]
    BY <1>2 DEF HandleNode, AtNode
  <2>1. pos[w] = ckpt
    BY <2>0, <1>t DEF PathInv, AtEnd
  <2>2. \A g \in Gates(pos[w]) : Approved(g)'
    BY <2>1, <1>p DEF PathInv
  <2>3. \A g \in Gates(pos[w])' : Approved(g)'
    <3>1. Gates(pos[w])' = {g \in 1..(pos[w] + 1) : Nodes[g] = "gate"}
      BY <2>0 DEF Gates
    <3>2. \A g \in 1..(pos[w] + 1) : Nodes[g] = "gate" => g \in 1..pos[w]
      BY <2>0, <1>t
    <3> QED
      BY <3>1, <3>2, <2>2 DEF Gates
  <2>4. \A n \in 1..Len(Nodes) : effects'[n] > 0 => \A g \in Gates(n - 1) : Approved(g)'
    <3> SUFFICES ASSUME NEW n \in 1..Len(Nodes), effects'[n] > 0
                 PROVE  \A g \in Gates(n - 1) : Approved(g)'
      OBVIOUS
    <3>1. CASE n = pos[w] + 1
      <4>1. n - 1 = pos[w]
        BY <3>1, <1>t
      <4> QED
        BY <4>1, <2>2
    <3>2. CASE n # pos[w] + 1
      BY <3>2, <2>0, <1>p, <1>t DEF PathInv
    <3> QED
      BY <3>1, <3>2
  <2>5. PathInv'
    BY <2>0, <2>3, <2>4, <1>o, <1>p DEF PathInv
  <2>6. GateRowInv'
    BY <1>2, <2>0, <1>o DEF HandleNode, LockRun, Refused, GateRowInv, Pending, Waiting
  <2>7. OnceInv'
    <3>1. rows' = rows /\ msg' = msg
      BY <1>2 DEF HandleNode
    <3>2. \A r \in DOMAIN rows : rows[r].gate <= pos'[w]
      BY <2>0 DEF OnceInv, Rows
    <3> QED
      BY <2>0, <3>1, <3>2, <1>o, <1>p DEF OnceInv
  <2> QED
    BY <2>5, <2>6, <2>7
<1>3. ASSUME NEW w \in Workers, RefuseNode(w) PROVE PathInv' /\ GateRowInv' /\ OnceInv'
  <2>1. Quiet
    BY <1>3 DEF Quiet, RefuseNode
  <2> QED
    BY <2>1, <1>a, QuietSteps
<1>4. ASSUME NEW w \in Workers, SaveCheckpoint(w) PROVE PathInv' /\ GateRowInv' /\ OnceInv'
  <2>0. /\ pc[w] = "done" /\ ckpt' = pos[w] /\ pc'[w] = "run" /\ pos' = pos
        /\ effects' = effects /\ UNCHANGED <<rows, status, command, msg>>
        /\ \A v \in Workers : v # w => pc'[v] = pc[v]
    BY <1>4 DEF SaveCheckpoint, rowVars
  <2>1. \A v \in Workers : v # w => pc[v] = "idle"
    BY <2>0, <1>o
  <2>2. PathInv'
    BY <2>0, <2>1, <1>p DEF PathInv
  <2>3. ~Waiting
    BY <2>0, <1>o
  <2>4. GateRowInv'
    BY <2>0, <2>1, <2>3 DEF GateRowInv, Pending, Waiting
  <2>5. OnceInv'
    <3>1. \A r \in DOMAIN rows : rows[r].gate <= pos[w] + 1
      BY <2>0 DEF OnceInv, Rows
    <3> QED
      BY <2>0, <2>1, <3>1, <1>p DEF OnceInv
  <2> QED
    BY <2>2, <2>4, <2>5
<1>5. ASSUME NEW w \in Workers, RecordFailure(w) PROVE PathInv' /\ GateRowInv' /\ OnceInv'
  <2>1. Quiet
    BY <1>5, <1>o DEF Quiet, RecordFailure, MarkFailed, Return, Waiting
  <2> QED
    BY <2>1, <1>a, QuietSteps
<1>6. ASSUME NEW w \in Workers, RecordCompletion(w) PROVE PathInv' /\ GateRowInv' /\ OnceInv'
  <2>1. Quiet
    BY <1>6, <1>o DEF Quiet, RecordCompletion, Return, Waiting
  <2> QED
    BY <2>1, <1>a, QuietSteps
<1>7. ASSUME NEW w \in Workers, RecordInterrupt(w) PROVE PathInv' /\ GateRowInv' /\ OnceInv'
  <2>1. CASE status \in Terminal
    <3>1. Quiet
      BY <1>7, <2>1 DEF Quiet, RecordInterrupt, Return
    <3> QED
      BY <3>1, <1>a, QuietSteps
  <2>2. CASE status \notin Terminal
    <3>0. /\ pc[w] = "run" /\ pos[w] < Len(Nodes) /\ status' = "INTERRUPTED"
          /\ rows' = Append(rows, InterruptRow(w)) /\ UNCHANGED <<ckpt, effects>>
          /\ pc'[w] = "idle"
      BY <1>7, <2>2 DEF RecordInterrupt, AtGate, graphVars, Return
    <3>1. \A v \in Workers : pc'[v] = "idle"
      BY <1>7, <3>0, <1>o DEF RecordInterrupt, Return
    <3>2. PathInv'
      BY <3>0, <3>1, <1>p DEF PathInv
    <3>3. \A r \in DOMAIN rows : ~Pending(r)
      BY <3>0, <2>2, <1>o DEF GateRowInv, Waiting, Terminal
    <3>4. InterruptRow(w) \in Rows
      BY DEF InterruptRow, Rows, TypeOK
    <3>5. /\ DOMAIN rows' = 1..(Len(rows) + 1)
          /\ \A q \in DOMAIN rows : rows'[q] = rows[q]
          /\ rows'[Len(rows) + 1] = InterruptRow(w)
      BY <3>0, <3>4, <1>t, AppendRow
    <3>6. pos[w] = ckpt
      BY <3>0, <1>t DEF PathInv, AtEnd
    <3>7. rows'[Len(rows) + 1].gate = ckpt + 1
      BY <3>5, <3>6 DEF InterruptRow
    <3>8. \A q \in DOMAIN rows' : Pending(q)' => q = Len(rows) + 1
      <4> SUFFICES ASSUME NEW q \in DOMAIN rows', Pending(q)' PROVE q = Len(rows) + 1
        OBVIOUS
      <4>1. q \in DOMAIN rows \/ q = Len(rows) + 1
        BY <3>5, <1>t
      <4> QED
        BY <4>1, <3>3, <3>5 DEF Pending
    <3>9. GateRowInv'
      BY <3>0, <3>1, <3>7, <3>8 DEF GateRowInv
    <3>10. ckpt + 1 \in Gates(Len(Nodes))
      <4>1. Nodes[pos[w] + 1] = "gate"
        BY <1>7 DEF RecordInterrupt, AtGate
      <4>2. ckpt + 1 \in 1..Len(Nodes)
        BY <3>0, <3>6
      <4> QED
        BY <3>6, <4>1, <4>2 DEF Gates
    <3>11. \A q \in DOMAIN rows : rows[q].gate < ckpt + 1
      BY <3>0, <3>6 DEF OnceInv, Rows
    <3>12. \A q \in DOMAIN rows' :
              \/ q \in DOMAIN rows /\ rows'[q] = rows[q]
              \/ q = Len(rows) + 1
      BY <3>5
    <3>13. OnceInv'
      BY <3>0, <3>1, <3>7, <3>10, <3>11, <3>12, <1>p DEF OnceInv, Rows
    <3> QED
      BY <3>2, <3>9, <3>13
  <2> QED
    BY <2>1, <2>2
<1>8. ASSUME NEW w \in Workers, Touch(w) PROVE PathInv' /\ GateRowInv' /\ OnceInv'
  <2>1. Quiet
    BY <1>8, <1>o DEF Quiet, Touch, LockRun, Refused, Waiting
  <2> QED
    BY <2>1, <1>a, QuietSteps
<1>9. ASSUME NEW w \in Workers, Raise(w) PROVE PathInv' /\ GateRowInv' /\ OnceInv'
  <2>1. Quiet
    BY <1>9 DEF Quiet, Raise
  <2> QED
    BY <2>1, <1>a, QuietSteps
<1>10. ASSUME NEW w \in Workers, RecordRaises(w) PROVE PathInv' /\ GateRowInv' /\ OnceInv'
  <2>1. Quiet
    BY <1>10 DEF Quiet, RecordRaises, Return
  <2> QED
    BY <2>1, <1>a, QuietSteps
<1>11. ASSUME NEW w \in Workers, Crash(w) PROVE PathInv' /\ GateRowInv' /\ OnceInv'
  <2>1. Quiet
    BY <1>11 DEF Quiet, Crash
  <2> QED
    BY <2>1, <1>a, QuietSteps
<1>12. ASSUME NEW w \in Workers, NEW m \in queue, Noop(w, m) PROVE PathInv' /\ GateRowInv' /\ OnceInv'
  <2>1. Quiet
    BY <1>12 DEF Quiet, Noop
  <2> QED
    BY <2>1, <1>a, QuietSteps
<1>13. ASSUME NEW w \in Workers, NEW m \in queue, AcquireFenced(w, m) PROVE PathInv' /\ GateRowInv' /\ OnceInv'
  <2>1. Quiet
    BY <1>13 DEF Quiet, AcquireFenced, MarkFailed, DispatchMatches
  <2> QED
    BY <2>1, <1>a, QuietSteps
<1>14. ASSUME NEW w \in Workers, NEW m \in queue, Acquire(w, m) PROVE PathInv' /\ GateRowInv' /\ OnceInv'
  <2>0. /\ status = "QUEUED" /\ command = m.command /\ status' = "RUNNING"
        /\ pc'[w] = "acquired" /\ msg'[w] = m /\ UNCHANGED <<ckpt, effects, pos>>
        /\ \A v \in Workers : v # w => pc'[v] = pc[v]
    BY <1>14 DEF Acquire, DispatchMatches, graphVars
  <2>1. \A v \in Workers : pc[v] = "idle"
    BY <2>0, <1>o DEF Waiting
  <2>2. PathInv'
    BY <2>0, <2>1, <1>p DEF PathInv
  <2>3. DOMAIN rows' = DOMAIN rows /\ \A r \in DOMAIN rows : rows'[r].status = rows[r].status
    <3>1. CASE rows' = rows
      BY <3>1
    <3>2. CASE m.command \in DOMAIN rows
               /\ rows' = [rows EXCEPT ![m.command].taken = @ + 1]
      <4>1. rows'[m.command] = [rows[m.command] EXCEPT !.taken = @ + 1]
        BY <3>2
      <4>2. rows'[m.command].status = rows[m.command].status
        BY <3>2, <4>1, <1>t DEF Rows
      <4> QED
        BY <3>2, <4>2
    <3> QED
      BY <1>14, <3>1, <3>2 DEF Acquire
  <2>4. \A r \in DOMAIN rows : ~Pending(r) /\ ~Pending(r)' /\ rows'[r].gate = rows[r].gate
    BY <2>0, <2>3, StepRowsGrow DEF GateRowInv, Pending
  <2>5. GateRowInv'
    BY <2>0, <2>1, <2>3, <2>4 DEF GateRowInv
  <2>6. m.command \in DOMAIN rows \/ rows = <<>>
    BY <1>14, <2>0 DEF Acquire, StartHasHistory, DecisionInv, CommandAnswered
  <2>7. rows = <<>> => rows' = <<>>
    BY <1>14 DEF Acquire
  <2>8. OnceInv'
    BY <2>0, <2>1, <2>3, <2>4, <2>6, <2>7, <1>p DEF OnceInv
  <2> QED
    BY <2>2, <2>5, <2>8
<1>15. ASSUME NEW w \in Workers, NEW m \in queue, AcquireRaises(w, m) PROVE PathInv' /\ GateRowInv' /\ OnceInv'
  <2>1. Quiet
    BY <1>15 DEF Quiet, AcquireRaises
  <2> QED
    BY <2>1, <1>a, QuietSteps
<1>16. ASSUME NEW m \in queue, LoseMessage(m) PROVE PathInv' /\ GateRowInv' /\ OnceInv'
  <2>1. Quiet
    BY <1>16 DEF Quiet, LoseMessage
  <2> QED
    BY <2>1, <1>a, QuietSteps
<1>17. ASSUME NEW c \in locks, LockExpires(c) PROVE PathInv' /\ GateRowInv' /\ OnceInv'
  <2>1. Quiet
    BY <1>17 DEF Quiet, LockExpires
  <2> QED
    BY <2>1, <1>a, QuietSteps
<1>18. ASSUME NEW c \in locks, LockExpiresEarly(c) PROVE PathInv' /\ GateRowInv' /\ OnceInv'
  <2>1. Quiet
    BY <1>18 DEF Quiet, LockExpiresEarly
  <2> QED
    BY <2>1, <1>a, QuietSteps
<1>19. CASE Dispatch
  <2>1. Quiet
    BY <1>19 DEF Quiet, Dispatch, MarkFailed
  <2> QED
    BY <2>1, <1>a, QuietSteps
<1>20. CASE Recover
  <2>1. CASE Recoverable
    <3>1. /\ rows = <<>> /\ rows' = <<>> /\ ckpt' = ckpt /\ effects' = effects
          /\ pc' = pc /\ pos' = pos
      BY <1>20, <2>1 DEF Recover, Recoverable, StartHasHistory, graphVars, workerVars
    <3>2. PathInv'
      BY <3>1, <1>p DEF PathInv, AtEnd
    <3>3. GateRowInv'
      BY <3>1 DEF GateRowInv
    <3>4. OnceInv'
      BY <3>1 DEF OnceInv
    <3> QED
      BY <3>2, <3>3, <3>4
  <2>2. CASE ~Recoverable
    <3>1. Quiet
      BY <1>20, <2>2 DEF Quiet, Recover, MarkFailed
    <3> QED
      BY <3>1, <1>a, QuietSteps
  <2> QED
    BY <2>1, <2>2
<1>21. ASSUME NEW r \in DOMAIN rows, NEW a \in {"RESOLVED", "REJECTED"}, Resume(r, a) PROVE PathInv' /\ GateRowInv' /\ OnceInv'
  <2>0. /\ status = "INTERRUPTED" /\ rows[r].status = "PENDING"
        /\ rows' = [rows EXCEPT ![r].status = a] /\ status' = "QUEUED" /\ command' = r
        /\ UNCHANGED <<ckpt, effects, pc, pos, msg>>
    BY <1>21 DEF Resume, graphVars, workerVars
  <2>1. \A v \in Workers : pc[v] = "idle"
    BY <2>0, <1>o DEF Waiting
  <2>2. PathInv'
    BY <2>0, <2>1, <1>p DEF PathInv
  <2>3. DOMAIN rows' = DOMAIN rows /\ \A q \in DOMAIN rows : q # r => rows'[q] = rows[q]
    BY <2>0
  <2>4. rows'[r] = [rows[r] EXCEPT !.status = a]
    BY <2>0
  <2>5. rows'[r].status # "PENDING"
    BY <2>4, <1>t DEF Rows
  <2>6. \A q \in DOMAIN rows : ~Pending(q)'
    BY <2>0, <2>3, <2>5 DEF GateRowInv, Pending
  <2>7. rows'[r].gate = ckpt + 1
    BY <2>0, StepRowsGrow DEF GateRowInv, Pending
  <2>8. GateRowInv'
    BY <2>0, <2>1, <2>3, <2>6, <2>7 DEF GateRowInv
  <2>9. \A q \in DOMAIN rows : rows'[q].gate = rows[q].gate
    BY StepRowsGrow
  <2>10. OnceInv'
    BY <2>0, <2>1, <2>3, <2>9, <1>p DEF OnceInv
  <2> QED
    BY <2>2, <2>8, <2>10
<1>22. CASE Cancel
  <2>1. Quiet
    BY <1>22 DEF Quiet, Cancel
  <2> QED
    BY <2>1, <1>a, QuietSteps
<1>23. CASE ReadToCancel
  <2>1. Quiet
    BY <1>23 DEF Quiet, ReadToCancel
  <2> QED
    BY <2>1, <1>a, QuietSteps
<1>24. CASE WriteCancel
  <2>1. Quiet
    BY <1>24 DEF Quiet, WriteCancel
  <2> QED
    BY <2>1, <1>a, QuietSteps
<1>25. CASE LeaseLapses
  <2>1. Quiet
    BY <1>25 DEF Quiet, LeaseLapses
  <2> QED
    BY <2>1, <1>a, QuietSteps
<1>26. CASE Stall
  BY <1>26, <1>s DEF Stall
<1>27. CASE UNCHANGED vars
  <2>1. Quiet
    BY <1>27 DEF Quiet, vars
  <2> QED
    BY <2>1, <1>a, QuietSteps
<1> QED
  BY <1>1, <1>2, <1>3, <1>4, <1>5, <1>6, <1>7, <1>8, <1>9, <1>10, <1>11,
     <1>12, <1>13, <1>14, <1>15, <1>16, <1>17, <1>18, <1>19, <1>20, <1>21,
     <1>22, <1>23, <1>24, <1>25, <1>26, <1>27, StepCases

LEMMA InitGovernInv == Init => GovernInv
<1> SUFFICES ASSUME Init PROVE PathInv /\ GateRowInv /\ OnceInv
  BY DEF GovernInv
<1>1. graph \in Graphs /\ Len(Nodes) \in Nat /\ rows = <<>> /\ ckpt = 0
  BY GraphsAssumption, LenProperties DEF Init, Nodes
<1>2. /\ \A n \in 1..Len(Nodes) : effects[n] = 0
      /\ \A w \in Workers : pc[w] = "idle"
  BY DEF Init
<1>3. PathInv
  BY <1>1, <1>2 DEF PathInv, Gates
<1>4. GateRowInv
  BY <1>1, <1>2 DEF GateRowInv
<1>5. OnceInv
  BY <1>1, <1>2 DEF OnceInv
<1> QED
  BY <1>3, <1>4, <1>5

(* A gate that was approved was not rejected: it has one interrupt. *)
LEMMA OneAnswer ==
    ASSUME GovernInv, stalls = 0, NEW g, Approved(g)
    PROVE  ~Rejected(g)
<1>1. \A q, r \in DOMAIN rows : rows[q].gate = rows[r].gate => q = r
  BY DEF GovernInv, OnceInv
<1> QED
  BY <1>1 DEF Approved, Rejected, Decided

(* While no lease lapses under a live worker, no node behind a gate is      *)
(* executed unless a human approved that very gate and none rejected it,    *)
(* whatever crashes, is redelivered or recovered meanwhile.                 *)
THEOREM GatesAreObeyed == Spec => []GatesGovern
<1>1. Init => IInv /\ GovernInv
  BY InitTypeOK, InitDecisionInv, InitExclusiveInv, InitGovernInv
     DEF IInv, CancellingInv, Init
<1>2. IInv /\ GovernInv /\ [Next]_vars => (IInv /\ GovernInv)'
  BY StepTypeOK, StepDecisionInv, StepExclusiveInv, StepCancellingInv, StepGovernInv
     DEF IInv
<1>3. IInv /\ GovernInv => GatesGovern
  <2> SUFFICES ASSUME IInv, GovernInv, stalls = 0,
                      NEW n \in 1..Len(Nodes), NEW g \in 1..Len(Nodes),
                      g < n, Nodes[g] = "gate", effects[n] > 0
               PROVE  Approved(g) /\ ~Rejected(g)
    BY DEF GatesGovern
  <2>1. Len(Nodes) \in Nat
    BY GraphsAssumption, LenProperties DEF IInv, TypeOK, Nodes
  <2>2. g \in Gates(n - 1)
    BY <2>1 DEF Gates
  <2>3. Approved(g)
    BY <2>2 DEF GovernInv, PathInv
  <2>4. ~Rejected(g)
    BY <2>3, OneAnswer
  <2> QED
    BY <2>3, <2>4
<1> QED
  BY <1>1, <1>2, <1>3, PTL DEF Spec

-----------------------------------------------------------------------------
(* The answers and their gates. *)

(* A run that is interrupted waits for a decision on one of its interrupts. *)
WaitsForAnswer == status = "INTERRUPTED" => \E r \in DOMAIN rows : Pending(r)
RowInv == RunningIsLeased /\ WaitsForAnswer

LEMMA StepRowInv == TypeOK /\ RowInv /\ [Next]_vars => RowInv'
<1> SUFFICES ASSUME TypeOK, RowInv, [Next]_vars PROVE RowInv'
  OBVIOUS
<1>a. RunningIsLeased /\ WaitsForAnswer
  BY DEF RowInv
<1>b. UNCHANGED <<status, lease, rows>> => RowInv'
  BY <1>a DEF RowInv, RunningIsLeased, WaitsForAnswer, Pending
<1>c. status' \notin {"RUNNING", "INTERRUPTED"} => RowInv'
  BY DEF RowInv, RunningIsLeased, WaitsForAnswer
<1>1. ASSUME NEW w \in Workers, Load(w) PROVE RowInv'
  BY <1>1, <1>b DEF Load, rowVars
<1>2. ASSUME NEW w \in Workers, HandleNode(w) PROVE RowInv'
  <2>1. status' = "RUNNING" /\ lease' = "held"
    BY <1>2 DEF HandleNode, LockRun
  <2> QED
    BY <2>1 DEF RowInv, RunningIsLeased, WaitsForAnswer
<1>3. ASSUME NEW w \in Workers, RefuseNode(w) PROVE RowInv'
  BY <1>3, <1>b DEF RefuseNode, rowVars
<1>4. ASSUME NEW w \in Workers, SaveCheckpoint(w) PROVE RowInv'
  BY <1>4, <1>b DEF SaveCheckpoint, rowVars
<1>5. ASSUME NEW w \in Workers, RecordFailure(w) PROVE RowInv'
  BY <1>5, <1>b, <1>c DEF RecordFailure, MarkFailed, Terminal
<1>6. ASSUME NEW w \in Workers, RecordCompletion(w) PROVE RowInv'
  BY <1>6, <1>b, <1>c DEF RecordCompletion, Terminal
<1>7. ASSUME NEW w \in Workers, RecordInterrupt(w) PROVE RowInv'
  <2>1. CASE status \in Terminal
    BY <1>7, <2>1, <1>b DEF RecordInterrupt
  <2>2. CASE status \notin Terminal
    <3>1. status' = "INTERRUPTED" /\ rows' = Append(rows, InterruptRow(w))
      BY <1>7, <2>2 DEF RecordInterrupt
    <3>r. InterruptRow(w) \in Rows
      BY GraphsAssumption, LenProperties DEF TypeOK, Nodes, InterruptRow, Rows
    <3>2. Len(rows) + 1 \in DOMAIN rows' /\ rows'[Len(rows) + 1] = InterruptRow(w)
      BY <3>1, <3>r, AppendRow, LenProperties DEF TypeOK
    <3>3. rows'[Len(rows) + 1].status = "PENDING"
      BY <3>2 DEF InterruptRow
    <3> QED
      BY <3>1, <3>2, <3>3 DEF RowInv, RunningIsLeased, WaitsForAnswer, Pending
  <2> QED
    BY <2>1, <2>2
<1>8. ASSUME NEW w \in Workers, Touch(w) PROVE RowInv'
  <2>1. status' = "RUNNING" /\ lease' = "held"
    BY <1>8 DEF Touch, LockRun
  <2> QED
    BY <2>1 DEF RowInv, RunningIsLeased, WaitsForAnswer
<1>9. ASSUME NEW w \in Workers, Raise(w) PROVE RowInv'
  BY <1>9, <1>b DEF Raise, rowVars
<1>10. ASSUME NEW w \in Workers, RecordRaises(w) PROVE RowInv'
  BY <1>10, <1>b DEF RecordRaises, rowVars
<1>11. ASSUME NEW w \in Workers, Crash(w) PROVE RowInv'
  BY <1>11, <1>b DEF Crash, rowVars
<1>12. ASSUME NEW w \in Workers, NEW m \in queue, Noop(w, m) PROVE RowInv'
  BY <1>12, <1>b DEF Noop, rowVars
<1>13. ASSUME NEW w \in Workers, NEW m \in queue, AcquireFenced(w, m) PROVE RowInv'
  BY <1>13, <1>b, <1>c DEF AcquireFenced, MarkFailed, Terminal
<1>14. ASSUME NEW w \in Workers, NEW m \in queue, Acquire(w, m) PROVE RowInv'
  <2>1. status' = "RUNNING" /\ lease' = "held"
    BY <1>14 DEF Acquire
  <2> QED
    BY <2>1 DEF RowInv, RunningIsLeased, WaitsForAnswer
<1>15. ASSUME NEW w \in Workers, NEW m \in queue, AcquireRaises(w, m) PROVE RowInv'
  BY <1>15, <1>b DEF AcquireRaises, rowVars
<1>16. ASSUME NEW m \in queue, LoseMessage(m) PROVE RowInv'
  BY <1>16, <1>b DEF LoseMessage, rowVars
<1>17. ASSUME NEW c \in locks, LockExpires(c) PROVE RowInv'
  BY <1>17, <1>b DEF LockExpires, rowVars
<1>18. ASSUME NEW c \in locks, LockExpiresEarly(c) PROVE RowInv'
  BY <1>18, <1>b DEF LockExpiresEarly, rowVars
<1>19. CASE Dispatch
  BY <1>19, <1>b, <1>c DEF Dispatch, MarkFailed, Terminal
<1>20. CASE Recover
  BY <1>20, <1>b, <1>c DEF Recover, MarkFailed, Terminal
<1>21. ASSUME NEW r \in DOMAIN rows, NEW a \in {"RESOLVED", "REJECTED"}, Resume(r, a) PROVE RowInv'
  BY <1>21, <1>b, <1>c DEF Resume
<1>22. CASE Cancel
  BY <1>22, <1>b, <1>c DEF Cancel
<1>23. CASE ReadToCancel
  BY <1>23, <1>b DEF ReadToCancel, rowVars
<1>24. CASE WriteCancel
  BY <1>24, <1>b, <1>c DEF WriteCancel
<1>25. CASE LeaseLapses
  <2>1. UNCHANGED <<status, rows>> /\ lease' = "lapsed"
    BY <1>25 DEF LeaseLapses
  <2> QED
    BY <2>1, <1>a DEF RowInv, RunningIsLeased, WaitsForAnswer, Pending
<1>26. CASE Stall
  <2>1. UNCHANGED <<status, rows>> /\ lease' = "lapsed"
    BY <1>26 DEF Stall
  <2> QED
    BY <2>1, <1>a DEF RowInv, RunningIsLeased, WaitsForAnswer, Pending
<1>27. CASE UNCHANGED vars
  BY <1>27, <1>b DEF vars, rowVars
<1> QED
  BY <1>1, <1>2, <1>3, <1>4, <1>5, <1>6, <1>7, <1>8, <1>9, <1>10, <1>11,
     <1>12, <1>13, <1>14, <1>15, <1>16, <1>17, <1>18, <1>19, <1>20, <1>21,
     <1>22, <1>23, <1>24, <1>25, <1>26, <1>27, StepCases

LEMMA InitRowInv == Init => RowInv
  BY DEF Init, RowInv, RunningIsLeased, WaitsForAnswer

(* The recovery finds every run that nobody executes any more: a run that   *)
(* is RUNNING has a lease (_acquire_run, the lock of a handler, recovery).  *)
THEOREM NoRunWithoutLease == Spec => []RunningIsLeased
<1>1. Init => IInv /\ RowInv
  BY InitTypeOK, InitDecisionInv, InitExclusiveInv, InitRowInv DEF IInv, CancellingInv, Init
<1>2. IInv /\ RowInv /\ [Next]_vars => (IInv /\ RowInv)'
  BY StepTypeOK, StepDecisionInv, StepExclusiveInv, StepCancellingInv, StepRowInv DEF IInv
<1>3. RowInv => RunningIsLeased
  BY DEF RowInv
<1> QED
  BY <1>1, <1>2, <1>3, PTL DEF Spec

(* While no lease lapses under a live worker, a decision is applied to the  *)
(* gate it was taken on (rows of _mark_interrupted, Command(resume) of      *)
(* LangGraph), and the human is asked one question at a time.               *)
THEOREM DecisionsMeetTheirGate == Spec => []AnswersMeetTheirGate
<1>1. Init => IInv /\ GovernInv /\ RowInv
  BY InitTypeOK, InitDecisionInv, InitExclusiveInv, InitGovernInv, InitRowInv
     DEF IInv, CancellingInv, Init
<1>2. IInv /\ GovernInv /\ RowInv /\ [Next]_vars => (IInv /\ GovernInv /\ RowInv)'
  BY StepTypeOK, StepDecisionInv, StepExclusiveInv, StepCancellingInv, StepGovernInv,
     StepRowInv DEF IInv
<1>3. IInv /\ GovernInv /\ RowInv => AnswersMeetTheirGate
  <2> SUFFICES ASSUME GovernInv, RowInv, stalls = 0
               PROVE  AnswersMeetTheirGate
    BY DEF AnswersMeetTheirGate
  <2>1. GateRowInv
    BY DEF GovernInv
  <2>2. ASSUME status = "INTERRUPTED"
        PROVE  \E r \in DOMAIN rows :
                  /\ rows[r].gate = ckpt + 1
                  /\ {q \in DOMAIN rows : rows[q].status = "PENDING"} = {r}
    <3>1. PICK r \in DOMAIN rows : Pending(r)
      BY <2>2 DEF RowInv, WaitsForAnswer
    <3>2. /\ rows[r].gate = ckpt + 1
          /\ \A q \in DOMAIN rows : Pending(q) <=> q = r
      BY <2>1, <2>2, <3>1 DEF GateRowInv
    <3> QED
      BY <3>2 DEF Pending
  <2> QED
    BY <2>1, <2>2 DEF AnswersMeetTheirGate, GateRowInv
<1> QED
  BY <1>1, <1>2, <1>3, PTL DEF Spec

-----------------------------------------------------------------------------
(* Repetitions.                                                             *)

(* Node n may have been handled once more than there were faults: it is     *)
(* recorded as completed or about to be, or the run ends with this failure. *)
RunIsOver == status \in Terminal /\ Live = {}
Spare(n) ==
    \/ n <= ckpt
    \/ \E w \in Workers : pc[w] = "done" /\ n <= pos[w]
    \/ \E w \in Workers : pc[w] = "failed"
    \/ RunIsOver

RepeatInv == stalls = 0 =>
    /\ \A w \in Workers : pc[w] = "done" => pos[w] = ckpt + 1
    /\ \A n \in 1..Len(Nodes) : effects[n] <= faults + (IF Spare(n) THEN 1 ELSE 0)

(* Steps that complete no node, and take a finished or failed worker away   *)
(* only by a fault or with the end of the run. *)
Calm ==
    /\ effects' = effects /\ ckpt' = ckpt
    /\ faults' \in {faults, faults + 1}
    /\ \A w \in Workers : pc'[w] = "done" => pc[w] = "done" /\ pos'[w] = pos[w]
    /\ \/ faults' = faults + 1
       \/ RunIsOver'
       \/ /\ ~RunIsOver
          /\ \A w \in Workers : pc[w] \in {"done", "failed"} =>
                \/ pc'[w] = "failed"
                \/ pc'[w] = pc[w] /\ pos'[w] = pos[w]

LEMMA CalmSteps ==
    ASSUME TypeOK, TypeOK', stalls = 0, RepeatInv, Calm, graph' = graph
    PROVE  RepeatInv'
<1>a. /\ Nodes' = Nodes /\ Len(Nodes) \in Nat /\ faults \in Nat /\ faults' \in Nat
      /\ effects \in [1..Len(Nodes) -> Nat]
  BY GraphsAssumption, LenProperties DEF TypeOK, Nodes
<1>1. \A w \in Workers : pc'[w] = "done" => pos'[w] = ckpt' + 1
  BY DEF Calm, RepeatInv
<1>2. ASSUME NEW n \in 1..Len(Nodes)
      PROVE  effects'[n] <= faults' + (IF Spare(n)' THEN 1 ELSE 0)
  <2>1. effects[n] <= faults + (IF Spare(n) THEN 1 ELSE 0) /\ effects'[n] = effects[n]
        /\ effects[n] \in Nat
    BY <1>a DEF RepeatInv, Calm
  <2>2. CASE faults' = faults + 1
    BY <1>a, <2>1, <2>2
  <2>3. CASE faults' = faults /\ (Spare(n) => Spare(n)')
    BY <1>a, <2>1, <2>3
  <2>4. CASE RunIsOver'
    <3>1. Spare(n)'
      BY <2>4 DEF Spare
    <3> QED
      BY <1>a, <2>1, <3>1 DEF Calm
  <2>5. CASE /\ ~RunIsOver
             /\ \A w \in Workers : pc[w] \in {"done", "failed"} =>
                   \/ pc'[w] = "failed"
                   \/ pc'[w] = pc[w] /\ pos'[w] = pos[w]
    <3>1. Spare(n) => Spare(n)'
      BY <2>5 DEF Spare, Calm
    <3> QED
      BY <2>2, <2>3, <3>1 DEF Calm
  <2> QED
    BY <2>2, <2>4, <2>5 DEF Calm
<1> QED
  BY <1>a, <1>1, <1>2 DEF RepeatInv

LEMMA StepRepeatInv ==
    TypeOK /\ ExclusiveInv /\ GovernInv /\ RepeatInv /\ [Next]_vars => RepeatInv'
<1> SUFFICES ASSUME TypeOK, ExclusiveInv, GovernInv, RepeatInv, [Next]_vars, stalls' = 0
             PROVE  RepeatInv'
  BY DEF RepeatInv
<1>a. graph' = graph /\ Nodes' = Nodes /\ TypeOK'
  BY StepGraph, StepTypeOK DEF Nodes
<1>s. stalls = 0
  BY StepStalls DEF TypeOK
<1>i. /\ PathInv
      /\ \A w \in Workers : pc[w] = "done" => pos[w] = ckpt + 1
      /\ \A n \in 1..Len(Nodes) : effects[n] <= faults + (IF Spare(n) THEN 1 ELSE 0)
  BY <1>s DEF GovernInv, RepeatInv
<1>o. /\ \A v, w \in Workers : pc[v] # "idle" /\ pc[w] # "idle" => v = w
      /\ \A w \in Workers : Waiting => pc[w] = "idle"
  BY <1>s, OneLive
<1>t. /\ ckpt \in Nat /\ pos \in [Workers -> Nat] /\ Len(Nodes) \in Nat
      /\ pc \in [Workers -> {"idle", "acquired", "run", "done", "failed"}]
      /\ effects \in [1..Len(Nodes) -> Nat] /\ faults \in Nat
  BY GraphsAssumption, LenProperties DEF TypeOK, Nodes
<1>c. Calm => RepeatInv'
  BY <1>a, <1>s, CalmSteps
<1> USE <1>t DEF rowVars, graphVars, workerVars, Terminal
<1>1. ASSUME NEW w \in Workers, Load(w) PROVE RepeatInv'
  <2>1. \A v \in Workers : v # w => pc[v] = "idle" /\ pc'[v] = "idle"
    BY <1>1, <1>o DEF Load
  <2>2. /\ pc[w] = "acquired" /\ effects' = effects /\ ckpt' = ckpt /\ faults' = faults
        /\ pc'[w] = "done" => pos'[w] = ckpt + 1
    BY <1>1 DEF Load
  <2>3. \A n \in 1..Len(Nodes) : effects'[n] <= faults' + (IF Spare(n)' THEN 1 ELSE 0)
    <3> SUFFICES ASSUME NEW n \in 1..Len(Nodes)
                 PROVE  effects'[n] <= faults' + (IF Spare(n)' THEN 1 ELSE 0)
      OBVIOUS
    <3>1. effects[n] <= faults + (IF Spare(n) THEN 1 ELSE 0) /\ effects[n] \in Nat
      BY <1>i
    <3>2. Spare(n) => n <= ckpt
      BY <2>1, <2>2 DEF Spare, RunIsOver, Live
    <3>3. n <= ckpt => Spare(n)'
      BY <2>2 DEF Spare
    <3> QED
      BY <2>2, <3>1, <3>2, <3>3
  <2> QED
    BY <1>a, <2>1, <2>2, <2>3 DEF RepeatInv
<1>2. ASSUME NEW w \in Workers, HandleNode(w) PROVE RepeatInv'
  <2>1. \A v \in Workers : v # w => pc[v] = "idle" /\ pc'[v] = "idle"
    BY <1>2, <1>o DEF HandleNode
  <2>2. /\ pc[w] = "run" /\ pos[w] < Len(Nodes) /\ pc'[w] = "done"
        /\ pos'[w] = pos[w] + 1 /\ ckpt' = ckpt /\ faults' = faults
        /\ effects' = [effects EXCEPT ![pos[w] + 1] = @ + 1]
    BY <1>2 DEF HandleNode, AtNode
  <2>3. pos[w] = ckpt
    BY <1>i, <2>2 DEF PathInv, AtEnd
  <2>4. \A n \in 1..Len(Nodes) : Spare(n) => n <= ckpt
    BY <2>1, <2>2 DEF Spare, RunIsOver, Live
  <2>5. \A n \in 1..Len(Nodes) : n <= ckpt + 1 => Spare(n)'
    BY <2>2, <2>3 DEF Spare
  <2>6. ASSUME NEW n \in 1..Len(Nodes)
        PROVE  effects'[n] <= faults' + (IF Spare(n)' THEN 1 ELSE 0)
    <3>1. effects[n] <= faults + (IF Spare(n) THEN 1 ELSE 0) /\ effects[n] \in Nat
      BY <1>i
    <3>2. CASE n = ckpt + 1
      BY <2>2, <2>3, <2>4, <2>5, <3>1, <3>2
    <3>3. CASE n # ckpt + 1
      BY <2>2, <2>3, <2>4, <2>5, <3>1, <3>3
    <3> QED
      BY <3>2, <3>3
  <2> QED
    BY <1>a, <2>1, <2>2, <2>3, <2>6 DEF RepeatInv
<1>3. ASSUME NEW w \in Workers, RefuseNode(w) PROVE RepeatInv'
  <2>1. Calm
    BY <1>3 DEF Calm, RunIsOver, Live, RefuseNode
  <2> QED
    BY <1>c, <2>1
<1>4. ASSUME NEW w \in Workers, SaveCheckpoint(w) PROVE RepeatInv'
  <2>1. \A v \in Workers : v # w => pc[v] = "idle" /\ pc'[v] = "idle"
    BY <1>4, <1>o DEF SaveCheckpoint
  <2>2. /\ pc[w] = "done" /\ pc'[w] = "run" /\ effects' = effects /\ faults' = faults
        /\ ckpt' = pos[w] /\ pos[w] = ckpt + 1
    BY <1>4, <1>i DEF SaveCheckpoint
  <2>3. \A n \in 1..Len(Nodes) : effects'[n] <= faults' + (IF Spare(n)' THEN 1 ELSE 0)
    <3> SUFFICES ASSUME NEW n \in 1..Len(Nodes), Spare(n) PROVE Spare(n)'
      BY <1>i, <2>2
    <3>1. n <= pos[w]
      BY <2>1, <2>2 DEF Spare, RunIsOver, Live
    <3> QED
      BY <2>2, <3>1 DEF Spare
  <2> QED
    BY <1>a, <2>1, <2>2, <2>3 DEF RepeatInv
<1>5. ASSUME NEW w \in Workers, RecordFailure(w) PROVE RepeatInv'
  <2>1. /\ \A v \in Workers : pc'[v] = "idle"
        /\ status' \in Terminal /\ effects' = effects /\ ckpt' = ckpt /\ faults' = faults
    BY <1>5, <1>o DEF RecordFailure, Return, MarkFailed
  <2>2. Calm
    BY <2>1 DEF Calm, RunIsOver, Live
  <2> QED
    BY <1>c, <2>2
<1>6. ASSUME NEW w \in Workers, RecordCompletion(w) PROVE RepeatInv'
  <2>1. /\ \A v \in Workers : pc[v] \in {"idle", "run"} /\ pc'[v] = "idle"
        /\ pc[w] = "run" /\ effects' = effects /\ ckpt' = ckpt /\ faults' = faults
    BY <1>6, <1>o DEF RecordCompletion, Return
  <2>2. Calm
    BY <2>1 DEF Calm, RunIsOver, Live
  <2> QED
    BY <1>c, <2>2
<1>7. ASSUME NEW w \in Workers, RecordInterrupt(w) PROVE RepeatInv'
  <2>1. /\ \A v \in Workers : pc[v] \in {"idle", "run"} /\ pc'[v] = "idle"
        /\ pc[w] = "run" /\ effects' = effects /\ ckpt' = ckpt /\ faults' = faults
    BY <1>7, <1>o DEF RecordInterrupt, Return
  <2>2. Calm
    BY <2>1 DEF Calm, RunIsOver, Live
  <2> QED
    BY <1>c, <2>2
<1>8. ASSUME NEW w \in Workers, Touch(w) PROVE RepeatInv'
  <2>1. Calm
    BY <1>8 DEF Calm, RunIsOver, Live, Touch, LockRun
  <2> QED
    BY <1>c, <2>1
<1>9. ASSUME NEW w \in Workers, Raise(w) PROVE RepeatInv'
  <2>1. Calm
    BY <1>9 DEF Calm, RunIsOver, Live, Raise
  <2> QED
    BY <1>c, <2>1
<1>10. ASSUME NEW w \in Workers, RecordRaises(w) PROVE RepeatInv'
  <2>1. Calm
    BY <1>10 DEF Calm, RunIsOver, Live, RecordRaises, Return
  <2> QED
    BY <1>c, <2>1
<1>11. ASSUME NEW w \in Workers, Crash(w) PROVE RepeatInv'
  <2>1. Calm
    BY <1>11 DEF Calm, RunIsOver, Live, Crash
  <2> QED
    BY <1>c, <2>1
<1>12. ASSUME NEW w \in Workers, NEW m \in queue, Noop(w, m) PROVE RepeatInv'
  <2>1. Calm
    BY <1>12 DEF Calm, RunIsOver, Live, Noop, Take
  <2> QED
    BY <1>c, <2>1
<1>13. ASSUME NEW w \in Workers, NEW m \in queue, AcquireFenced(w, m) PROVE RepeatInv'
  <2>1. Calm
    BY <1>13 DEF Calm, RunIsOver, Live, AcquireFenced, Take, MarkFailed, DispatchMatches
  <2> QED
    BY <1>c, <2>1
<1>14. ASSUME NEW w \in Workers, NEW m \in queue, Acquire(w, m) PROVE RepeatInv'
  <2>1. /\ \A v \in Workers : pc[v] = "idle" /\ pc'[v] \in {"idle", "acquired"}
        /\ status = "QUEUED" /\ effects' = effects /\ ckpt' = ckpt
        /\ faults' \in {faults, faults + 1}
    BY <1>14, <1>o DEF Acquire, Take, DispatchMatches, Waiting
  <2>2. Calm
    BY <2>1 DEF Calm, RunIsOver
  <2> QED
    BY <1>c, <2>2
<1>15. ASSUME NEW w \in Workers, NEW m \in queue, AcquireRaises(w, m) PROVE RepeatInv'
  <2>1. Calm
    BY <1>15 DEF Calm, RunIsOver, Live, AcquireRaises
  <2> QED
    BY <1>c, <2>1
<1>16. ASSUME NEW m \in queue, LoseMessage(m) PROVE RepeatInv'
  <2>1. Calm
    BY <1>16 DEF Calm, RunIsOver, Live, LoseMessage
  <2> QED
    BY <1>c, <2>1
<1>17. ASSUME NEW c \in locks, LockExpires(c) PROVE RepeatInv'
  <2>1. Calm
    BY <1>17 DEF Calm, RunIsOver, Live, LockExpires
  <2> QED
    BY <1>c, <2>1
<1>18. ASSUME NEW c \in locks, LockExpiresEarly(c) PROVE RepeatInv'
  <2>1. Calm
    BY <1>18 DEF Calm, RunIsOver, Live, LockExpiresEarly
  <2> QED
    BY <1>c, <2>1
<1>19. ASSUME Dispatch PROVE RepeatInv'
  <2>1. Calm
    BY <1>19 DEF Calm, RunIsOver, Live, Dispatch, MarkFailed
  <2> QED
    BY <1>c, <2>1
<1>20. ASSUME Recover PROVE RepeatInv'
  <2>1. Calm
    BY <1>20 DEF Calm, RunIsOver, Live, Recover, MarkFailed
  <2> QED
    BY <1>c, <2>1
<1>21. ASSUME NEW r \in DOMAIN rows, NEW a \in {"RESOLVED", "REJECTED"}, Resume(r, a) PROVE RepeatInv'
  <2>1. Calm
    BY <1>21 DEF Calm, RunIsOver, Live, Resume
  <2> QED
    BY <1>c, <2>1
<1>22. ASSUME Cancel PROVE RepeatInv'
  <2>1. Calm
    BY <1>22 DEF Calm, RunIsOver, Live, Cancel
  <2> QED
    BY <1>c, <2>1
<1>23. ASSUME ReadToCancel PROVE RepeatInv'
  <2>1. Calm
    BY <1>23 DEF Calm, RunIsOver, Live, ReadToCancel
  <2> QED
    BY <1>c, <2>1
<1>24. ASSUME WriteCancel PROVE RepeatInv'
  <2>1. Calm
    BY <1>24 DEF Calm, RunIsOver, Live, WriteCancel
  <2> QED
    BY <1>c, <2>1
<1>25. ASSUME LeaseLapses PROVE RepeatInv'
  <2>1. Calm
    BY <1>25 DEF Calm, RunIsOver, Live, LeaseLapses
  <2> QED
    BY <1>c, <2>1
<1>26. ASSUME Stall PROVE RepeatInv'
  BY <1>26, <1>s DEF Stall
<1>27. ASSUME UNCHANGED vars PROVE RepeatInv'
  <2>1. Calm
    BY <1>27 DEF Calm, RunIsOver, Live, vars
  <2> QED
    BY <1>c, <2>1
<1> QED
  BY <1>1, <1>2, <1>3, <1>4, <1>5, <1>6, <1>7, <1>8, <1>9, <1>10, <1>11,
     <1>12, <1>13, <1>14, <1>15, <1>16, <1>17, <1>18, <1>19, <1>20, <1>21,
     <1>22, <1>23, <1>24, <1>25, <1>26, <1>27, StepCases

(* While no lease lapses under a live worker, a handler transaction is      *)
(* committed for a node at most once more than there were crashes, lost or  *)
(* repeated messages and failures that could not be recorded.               *)
THEOREM RepeatsAreBounded == Spec => []RepeatsAreFaults
<1>1. Init => IInv /\ GovernInv /\ RepeatInv
  <2> SUFFICES ASSUME Init PROVE RepeatInv
    BY InitTypeOK, InitDecisionInv, InitExclusiveInv, InitGovernInv
       DEF IInv, CancellingInv, Init
  <2>1. /\ \A w \in Workers : pc[w] = "idle"
        /\ faults = 0 /\ \A n \in 1..Len(Nodes) : effects[n] = 0
    BY DEF Init
  <2> QED
    BY <2>1 DEF RepeatInv
<1>2. IInv /\ GovernInv /\ RepeatInv /\ [Next]_vars => (IInv /\ GovernInv /\ RepeatInv)'
  BY StepTypeOK, StepDecisionInv, StepExclusiveInv, StepCancellingInv, StepGovernInv,
     StepRepeatInv DEF IInv
<1>3. IInv /\ RepeatInv => RepeatsAreFaults
  <2> SUFFICES ASSUME IInv, RepeatInv, stalls = 0, NEW n \in 1..Len(Nodes)
               PROVE  effects[n] <= 1 + faults
    BY DEF RepeatsAreFaults
  <2>1. effects[n] \in Nat /\ faults \in Nat
    BY DEF IInv, TypeOK
  <2> QED
    BY <2>1 DEF RepeatInv
<1> QED
  BY <1>1, <1>2, <1>3, PTL DEF Spec
=============================================================================
