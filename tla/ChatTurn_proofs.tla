-------------------------- MODULE ChatTurn_proofs --------------------------
(***************************************************************************)
(* Proofs about one turn of the analysis chat, for any number of workers,  *)
(* any set of chat graphs, and any number of faults and stalls: the turn   *)
(* implements the graph run, so that everything proved of a run holds of   *)
(* it, and its budget and usage are accounted for once.                    *)
(***************************************************************************)
EXTENDS ChatTurn, GraphRun_proofs

(* A step of a turn is one of its actions or a stutter. *)
LEMMA TurnStepCases ==
    ASSUME [TurnNext]_turnVars
    PROVE  \/ \E w \in Workers :
                \/ Prepare(w) \/ StartTransport(w) \/ CallProvider(w)
                \/ RecordError(w) \/ Reconcile(w) \/ ReconcileConflict(w)
                \/ CompleteProvider(w) \/ PlainNode(w) \/ ExecuteChange(w)
                \/ Persist(w) \/ TurnRaise(w) \/ TurnFails(w)
                \/ TurnCompletes(w) \/ TurnInterrupts(w) \/ GraphOnly(w)
                \/ TurnCrash(w)
                \/ \E m \in queue : TurnDelivers(w, m)
           \/ TurnDispatches \/ TurnRecovers \/ CancelTurn \/ Surroundings
           \/ UNCHANGED turnVars
  BY Zenon DEF TurnNext, TurnExecutes

-----------------------------------------------------------------------------
(* The turn is a graph run.                                                 *)

(* The actions of a worker, by name, are steps of the graph run. *)
LEMMA WorkerStep ==
    ASSUME NEW w \in Workers
    PROVE  /\ Load(w) \/ HandleNode(w) \/ RefuseNode(w) \/ SaveCheckpoint(w) => Next
           /\ RecordFailure(w) \/ RecordCompletion(w) \/ RecordInterrupt(w) => Next
           /\ Touch(w) \/ Raise(w) \/ RecordRaises(w) \/ Crash(w) => Next
           /\ \A m \in queue : Deliver(w, m) \/ AcquireRaises(w, m) => Next
  BY Zenon DEF Next, Execute

(* Every step of a turn is a step of the run or leaves the run as it is. *)
LEMMA TurnStepIsRunStep ==
    ASSUME [TurnNext]_turnVars
    PROVE  [Next]_vars
<1>1. ASSUME NEW w \in Workers, Prepare(w) PROVE [Next]_vars
  BY Zenon, <1>1, WorkerStep DEF Prepare
<1>2. ASSUME NEW w \in Workers, StartTransport(w) PROVE [Next]_vars
  BY Zenon, <1>2, WorkerStep DEF StartTransport
<1>3. ASSUME NEW w \in Workers, CallProvider(w) PROVE [Next]_vars
  BY Zenon, <1>3 DEF CallProvider
<1>4. ASSUME NEW w \in Workers, RecordError(w) PROVE [Next]_vars
  BY Zenon, <1>4, WorkerStep DEF RecordError
<1>5. ASSUME NEW w \in Workers, Reconcile(w) PROVE [Next]_vars
  BY Zenon, <1>5, WorkerStep DEF Reconcile
<1>6. ASSUME NEW w \in Workers, ReconcileConflict(w) PROVE [Next]_vars
  BY Zenon, <1>6, WorkerStep DEF ReconcileConflict
<1>7. ASSUME NEW w \in Workers, CompleteProvider(w) PROVE [Next]_vars
  BY Zenon, <1>7, WorkerStep DEF CompleteProvider
<1>8. ASSUME NEW w \in Workers, PlainNode(w) PROVE [Next]_vars
  BY Zenon, <1>8, WorkerStep DEF PlainNode
<1>9. ASSUME NEW w \in Workers, ExecuteChange(w) PROVE [Next]_vars
  BY Zenon, <1>9, WorkerStep DEF ExecuteChange
<1>10. ASSUME NEW w \in Workers, Persist(w) PROVE [Next]_vars
  BY Zenon, <1>10, WorkerStep DEF Persist
<1>11. ASSUME NEW w \in Workers, TurnRaise(w) PROVE [Next]_vars
  BY Zenon, <1>11, WorkerStep DEF TurnRaise
<1>12. ASSUME NEW w \in Workers, TurnFails(w) PROVE [Next]_vars
  BY Zenon, <1>12, WorkerStep DEF TurnFails
<1>13. ASSUME NEW w \in Workers, TurnCompletes(w) PROVE [Next]_vars
  BY Zenon, <1>13, WorkerStep DEF TurnCompletes
<1>14. ASSUME NEW w \in Workers, TurnInterrupts(w) PROVE [Next]_vars
  BY Zenon, <1>14, WorkerStep DEF TurnInterrupts
<1>15. ASSUME NEW w \in Workers, GraphOnly(w) PROVE [Next]_vars
  BY Zenon, <1>15, WorkerStep DEF GraphOnly
<1>16. ASSUME NEW w \in Workers, TurnCrash(w) PROVE [Next]_vars
  BY Zenon, <1>16, WorkerStep DEF TurnCrash
<1>17. ASSUME NEW w \in Workers, NEW m \in queue, TurnDelivers(w, m) PROVE [Next]_vars
  BY Zenon, <1>17, WorkerStep DEF TurnDelivers
<1>18. CASE TurnDispatches
  BY Zenon, <1>18 DEF TurnDispatches, Next
<1>19. CASE TurnRecovers
  BY Zenon, <1>19 DEF TurnRecovers, Next
<1>20. CASE CancelTurn
  BY Zenon, <1>20 DEF CancelTurn, Next
<1>21. CASE Surroundings
  BY Zenon, <1>21 DEF Surroundings, Next
<1>22. CASE UNCHANGED turnVars
  BY Zenon, <1>22 DEF turnVars
<1> QED
  BY Zenon, <1>1, <1>2, <1>3, <1>4, <1>5, <1>6, <1>7, <1>8, <1>9, <1>10,
     <1>11, <1>12, <1>13, <1>14, <1>15, <1>16, <1>17, <1>18, <1>19,
     <1>20, <1>21, <1>22, TurnStepCases

(* Every behaviour of a turn is, for the run's own variables, a behaviour   *)
(* of the graph run: whatever is proved of runs holds of turns.             *)
THEOREM TurnImplementsRun == TurnSpec => Spec
<1>1. TurnInit => Init
  BY DEF TurnInit
<1>2. [TurnNext]_turnVars => [Next]_vars
  BY TurnStepIsRunStep
<1> QED
  BY <1>1, <1>2, PTL DEF TurnSpec, Spec

-----------------------------------------------------------------------------
(* Types.                                                                   *)

LedgerTypes ==
    /\ message \in TerminalMessage \union ActiveMessage
    /\ reservation \in Unattempted \union {"TRANSPORT_STARTED",
                          "TRANSPORT_ERROR", "RECONCILED", "RELEASED"}
    /\ usage \in BOOLEAN /\ tokens \in BOOLEAN /\ resulted \in BOOLEAN
    /\ written \in BOOLEAN
    /\ totals \in Nat /\ monthly \in Nat /\ calls \in Nat
    /\ call \in [Workers -> CallSteps]

(* Attributing the usage and settling a failure keep the types. *)
LEMMA SettleTypes ==
    ASSUME LedgerTypes, SettleFailure, UNCHANGED call
    PROVE  LedgerTypes'
<1>1. CASE Settle
  BY <1>1 DEF LedgerTypes, Settle, Attribute, AfterFailure, TerminalMessage
<1>2. CASE UNCHANGED ledgerVars
  BY <1>2 DEF LedgerTypes, ledgerVars
<1> QED
  BY <1>1, <1>2 DEF SettleFailure

LEMMA StepLedgerTypes ==
    ASSUME LedgerTypes, [TurnNext]_turnVars
    PROVE  LedgerTypes'
<1> USE DEF LedgerTypes, ledgerVars, At, CallSteps
<1>1. ASSUME NEW w \in Workers, Prepare(w) PROVE LedgerTypes'
  BY <1>1 DEF Prepare, TerminalMessage, ActiveMessage, Unattempted, Stream, Streaming
<1>2. ASSUME NEW w \in Workers, StartTransport(w) PROVE LedgerTypes'
  BY <1>2 DEF StartTransport, TerminalMessage, ActiveMessage, Unattempted, Stream, Streaming
<1>3. ASSUME NEW w \in Workers, CallProvider(w) PROVE LedgerTypes'
  BY <1>3 DEF CallProvider
<1>4. ASSUME NEW w \in Workers, RecordError(w) PROVE LedgerTypes'
  BY <1>4 DEF RecordError, Unattempted
<1>5. ASSUME NEW w \in Workers, Reconcile(w) PROVE LedgerTypes'
  <2>1. CASE Over
    BY <1>5, <2>1 DEF Reconcile
  <2>2. CASE ~Over
    BY <1>5, <2>2 DEF Reconcile
  <2> QED
    BY <2>1, <2>2
<1>6. ASSUME NEW w \in Workers, ReconcileConflict(w) PROVE LedgerTypes'
  BY <1>6 DEF ReconcileConflict
<1>7. ASSUME NEW w \in Workers, CompleteProvider(w) PROVE LedgerTypes'
  BY <1>7 DEF CompleteProvider, TerminalMessage, ActiveMessage, Unattempted, Stream, Streaming
<1>8. ASSUME NEW w \in Workers, PlainNode(w) PROVE LedgerTypes'
  BY <1>8 DEF PlainNode, TerminalMessage, ActiveMessage, Unattempted, Stream, Streaming
<1>9. ASSUME NEW w \in Workers, ExecuteChange(w) PROVE LedgerTypes'
  BY <1>9 DEF ExecuteChange, TerminalMessage, ActiveMessage, Unattempted, Stream, Streaming
<1>10. ASSUME NEW w \in Workers, Persist(w) PROVE LedgerTypes'
  BY <1>10 DEF Persist, CountOnce, TerminalMessage
<1>11. ASSUME NEW w \in Workers, TurnRaise(w) PROVE LedgerTypes'
  BY <1>11 DEF TurnRaise
<1>12. ASSUME NEW w \in Workers, TurnFails(w) PROVE LedgerTypes'
  BY <1>12, SettleTypes DEF TurnFails
<1>13. ASSUME NEW w \in Workers, TurnCompletes(w) PROVE LedgerTypes'
  BY <1>13 DEF TurnCompletes, TerminalMessage, Unattempted
<1>14. ASSUME NEW w \in Workers, TurnInterrupts(w) PROVE LedgerTypes'
  BY <1>14 DEF TurnInterrupts, ActiveMessage
<1>15. ASSUME NEW w \in Workers, GraphOnly(w) PROVE LedgerTypes'
  BY <1>15 DEF GraphOnly
<1>16. ASSUME NEW w \in Workers, TurnCrash(w) PROVE LedgerTypes'
  BY <1>16 DEF TurnCrash
<1>17. ASSUME NEW w \in Workers, NEW m \in queue, TurnDelivers(w, m) PROVE LedgerTypes'
  BY <1>17, SettleTypes DEF TurnDelivers
<1>18. CASE TurnDispatches
  BY <1>18, SettleTypes DEF TurnDispatches
<1>19. CASE TurnRecovers
  BY <1>19, SettleTypes DEF TurnRecovers
<1>20. CASE CancelTurn
  BY <1>20 DEF CancelTurn, Attribute, AfterCancel, TerminalMessage
<1>21. CASE Surroundings
  BY <1>21 DEF Surroundings
<1>22. CASE UNCHANGED turnVars
  BY <1>22 DEF turnVars
<1> QED
  BY Zenon, <1>1, <1>2, <1>3, <1>4, <1>5, <1>6, <1>7, <1>8, <1>9, <1>10,
     <1>11, <1>12, <1>13, <1>14, <1>15, <1>16, <1>17, <1>18, <1>19,
     <1>20, <1>21, <1>22, TurnStepCases

-----------------------------------------------------------------------------
(* One call.                                                                *)

(* Only one worker gets past the activation of the reservation, and until   *)
(* its request is sent the reservation is not given back.                   *)
CallInv ==
    /\ reservation = "RESERVED" => calls = 0 /\ \A w \in Workers : call[w] = "none"
    /\ reservation = "ACTIVATED" =>
           calls = 0 /\ \A w \in Workers : call[w] \in {"none", "prepared"}
    /\ \A v, w \in Workers : call[v] # "none" /\ call[w] # "none" => v = w
    /\ \A w \in Workers : call[w] \in {"prepared", "started"} => calls = 0
    /\ BilledOnce /\ ReleasedIsUnbilled

(* A call that ends, or none that begins, with a reservation that stays or  *)
(* is settled. *)
LEMMA CallEnds ==
    ASSUME CallInv, call \in [Workers -> CallSteps],
           calls' = calls,
           \/ call' = call
           \/ \E w \in Workers : call' = [call EXCEPT ![w] = "none"],
           \/ reservation' = reservation
           \/ reservation' \in {"TRANSPORT_ERROR", "RECONCILED"}
           \/ reservation \in Unattempted /\ reservation' = "RELEASED"
    PROVE  CallInv'
<1>1. \A w \in Workers : call'[w] = call[w] \/ call'[w] = "none"
  OBVIOUS
<1> QED
  BY <1>1 DEF CallInv, BilledOnce, ReleasedIsUnbilled, Unattempted

LEMMA SettleCall ==
    ASSUME CallInv, call \in [Workers -> CallSteps], SettleFailure, UNCHANGED call
    PROVE  CallInv'
<1>1. CASE Settle
  BY <1>1, CallEnds DEF Settle, AfterFailure
<1>2. CASE UNCHANGED ledgerVars
  BY <1>2, CallEnds DEF ledgerVars
<1> QED
  BY <1>1, <1>2 DEF SettleFailure

LEMMA StepCallInv ==
    ASSUME LedgerTypes, CallInv, [TurnNext]_turnVars
    PROVE  CallInv'
<1>a. call \in [Workers -> CallSteps] /\ calls \in Nat
  BY DEF LedgerTypes
<1> USE DEF ledgerVars, At
<1>1. ASSUME NEW w \in Workers, Prepare(w) PROVE CallInv'
  BY <1>1, <1>a DEF Prepare, CallInv, BilledOnce, ReleasedIsUnbilled
<1>2. ASSUME NEW w \in Workers, StartTransport(w) PROVE CallInv'
  BY <1>2, <1>a DEF StartTransport, Unattempted, CallInv, BilledOnce, ReleasedIsUnbilled
<1>3. ASSUME NEW w \in Workers, CallProvider(w) PROVE CallInv'
  BY <1>3, <1>a DEF CallProvider, CallInv, BilledOnce, ReleasedIsUnbilled
<1>4. ASSUME NEW w \in Workers, RecordError(w) PROVE CallInv'
  BY <1>4, <1>a, CallEnds DEF RecordError
<1>5. ASSUME NEW w \in Workers, Reconcile(w) PROVE CallInv'
  BY <1>5, <1>a DEF Reconcile, CallInv, BilledOnce, ReleasedIsUnbilled
<1>6. ASSUME NEW w \in Workers, ReconcileConflict(w) PROVE CallInv'
  BY <1>6, <1>a, CallEnds DEF ReconcileConflict
<1>7. ASSUME NEW w \in Workers, CompleteProvider(w) PROVE CallInv'
  BY <1>7, <1>a, CallEnds DEF CompleteProvider
<1>8. ASSUME NEW w \in Workers, PlainNode(w) PROVE CallInv'
  BY <1>8, <1>a, CallEnds DEF PlainNode
<1>9. ASSUME NEW w \in Workers, ExecuteChange(w) PROVE CallInv'
  BY <1>9, <1>a, CallEnds DEF ExecuteChange
<1>10. ASSUME NEW w \in Workers, Persist(w) PROVE CallInv'
  BY <1>10, <1>a, CallEnds DEF Persist
<1>11. ASSUME NEW w \in Workers, TurnRaise(w) PROVE CallInv'
  BY <1>11, <1>a, CallEnds DEF TurnRaise
<1>12. ASSUME NEW w \in Workers, TurnFails(w) PROVE CallInv'
  BY <1>12, <1>a, SettleCall DEF TurnFails
<1>13. ASSUME NEW w \in Workers, TurnCompletes(w) PROVE CallInv'
  BY <1>13, <1>a, CallEnds DEF TurnCompletes
<1>14. ASSUME NEW w \in Workers, TurnInterrupts(w) PROVE CallInv'
  BY <1>14, <1>a, CallEnds DEF TurnInterrupts
<1>15. ASSUME NEW w \in Workers, GraphOnly(w) PROVE CallInv'
  BY <1>15, <1>a, CallEnds DEF GraphOnly
<1>16. ASSUME NEW w \in Workers, TurnCrash(w) PROVE CallInv'
  BY <1>16, <1>a, CallEnds DEF TurnCrash
<1>17. ASSUME NEW w \in Workers, NEW m \in queue, TurnDelivers(w, m) PROVE CallInv'
  BY <1>17, <1>a, SettleCall DEF TurnDelivers
<1>18. CASE TurnDispatches
  BY <1>18, <1>a, SettleCall DEF TurnDispatches
<1>19. CASE TurnRecovers
  BY <1>19, <1>a, SettleCall DEF TurnRecovers
<1>20. CASE CancelTurn
  BY <1>20, <1>a, CallEnds DEF CancelTurn, AfterCancel
<1>21. CASE Surroundings
  BY <1>21, <1>a, CallEnds DEF Surroundings
<1>22. CASE UNCHANGED turnVars
  BY <1>22, <1>a, CallEnds DEF turnVars
<1> QED
  BY Zenon, <1>1, <1>2, <1>3, <1>4, <1>5, <1>6, <1>7, <1>8, <1>9, <1>10,
     <1>11, <1>12, <1>13, <1>14, <1>15, <1>16, <1>17, <1>18, <1>19,
     <1>20, <1>21, <1>22, TurnStepCases

-----------------------------------------------------------------------------
(* One attribution.                                                         *)

(* The totals have the usage exactly if the message has it; a message has   *)
(* it before its result only in a run that is over and stays over, so that  *)
(* the persistence of the result does not count it again.                   *)
UsageInv ==
    /\ monthly = 0 \/ (monthly = 1 /\ reservation \notin
                                      Unattempted \union {"TRANSPORT_STARTED"})
    /\ totals = IF tokens THEN 1 ELSE 0
    /\ resulted => tokens
    /\ tokens /\ ~resulted => status \in Terminal
    /\ message = "CANCELLED" => status \in Terminal

(* What a step keeps that leaves the usage alone. *)
LEMMA UsageKept ==
    ASSUME UsageInv, status \in Terminal => status' = status,
           monthly' = monthly, totals' = totals, tokens' = tokens,
           resulted' = resulted,
           message' = "CANCELLED" => message = "CANCELLED" \/ status' \in Terminal,
           \/ reservation' = reservation
           \/ reservation' \notin Unattempted \union {"TRANSPORT_STARTED"}
           \/ reservation \in Unattempted \union {"TRANSPORT_STARTED"}
    PROVE  UsageInv'
  BY DEF UsageInv

(* The usage goes to the message of a run that is over. *)
LEMMA UsageAttributed ==
    ASSUME UsageInv, LedgerTypes, Attribute, status' \in Terminal,
           monthly' = monthly, resulted' = resulted,
           \/ reservation' = reservation
           \/ reservation' \notin Unattempted \union {"TRANSPORT_STARTED"}
    PROVE  UsageInv'
  BY DEF UsageInv, Attribute, LedgerTypes

LEMMA SettleUsage ==
    ASSUME UsageInv, LedgerTypes, status \in Terminal => status' = status,
           SettleFailure
    PROVE  UsageInv'
<1>1. CASE status' = "FAILED" /\ Settle
  <2>1. reservation' = reservation
           \/ reservation' \notin Unattempted \union {"TRANSPORT_STARTED"}
    BY <1>1 DEF Settle, AfterFailure, Unattempted
  <2> QED
    BY <1>1, <2>1, UsageAttributed DEF Settle, Terminal
<1>2. CASE UNCHANGED ledgerVars
  BY <1>2, UsageKept DEF ledgerVars
<1> QED
  BY <1>1, <1>2 DEF SettleFailure

LEMMA StepUsageInv ==
    ASSUME TypeOK, CancellingInv, LedgerTypes, UsageInv, [TurnNext]_turnVars
    PROVE  UsageInv'
<1>a. graph.handler = "chat"
  BY TurnGraphsAssumption DEF TypeOK
<1>b. status \in Terminal => status' = status
  BY <1>a, TurnStepIsRunStep, StepTerminal
<1>c. ASSUME NEW w \in Workers, HandleNode(w) PROVE status \notin Terminal
  BY <1>a, <1>c DEF HandleNode, LockRun, Refused
<1> USE DEF ledgerVars
<1>1. ASSUME NEW w \in Workers, Prepare(w) PROVE UsageInv'
  BY <1>1, <1>b, UsageKept DEF Prepare, Stream, Streaming, Unattempted
<1>2. ASSUME NEW w \in Workers, StartTransport(w) PROVE UsageInv'
  BY <1>2, <1>b, UsageKept DEF StartTransport, Stream, Streaming
<1>3. ASSUME NEW w \in Workers, CallProvider(w) PROVE UsageInv'
  BY <1>3, <1>b, UsageKept DEF CallProvider
<1>4. ASSUME NEW w \in Workers, RecordError(w) PROVE UsageInv'
  BY <1>4, <1>b, UsageKept DEF RecordError, Unattempted
<1>5. ASSUME NEW w \in Workers, Reconcile(w) PROVE UsageInv'
  BY <1>5, <1>b DEF Reconcile, Over, UsageInv, LedgerTypes, Unattempted, vars, rowVars
<1>6. ASSUME NEW w \in Workers, ReconcileConflict(w) PROVE UsageInv'
  BY <1>6, <1>b, UsageKept DEF ReconcileConflict
<1>7. ASSUME NEW w \in Workers, CompleteProvider(w) PROVE UsageInv'
  BY <1>7, <1>b, UsageKept DEF CompleteProvider, Stream, Streaming
<1>8. ASSUME NEW w \in Workers, PlainNode(w) PROVE UsageInv'
  BY <1>8, <1>b, UsageKept DEF PlainNode, Stream, Streaming
<1>9. ASSUME NEW w \in Workers, ExecuteChange(w) PROVE UsageInv'
  BY <1>9, <1>b, UsageKept DEF ExecuteChange, Stream, Streaming
<1>10. ASSUME NEW w \in Workers, Persist(w) PROVE UsageInv'
  BY <1>10, <1>b, <1>c DEF Persist, CountOnce, UsageInv, LedgerTypes, Unattempted
<1>11. ASSUME NEW w \in Workers, TurnRaise(w) PROVE UsageInv'
  BY <1>11, <1>b, UsageKept DEF TurnRaise
<1>12. ASSUME NEW w \in Workers, TurnFails(w) PROVE UsageInv'
  BY <1>12, <1>b, SettleUsage DEF TurnFails
<1>13. ASSUME NEW w \in Workers, TurnCompletes(w) PROVE UsageInv'
  BY <1>13, <1>b, UsageKept DEF TurnCompletes, RecordCompletion, Terminal, Unattempted
<1>14. ASSUME NEW w \in Workers, TurnInterrupts(w) PROVE UsageInv'
  BY <1>14, <1>b, UsageKept DEF TurnInterrupts
<1>15. ASSUME NEW w \in Workers, GraphOnly(w) PROVE UsageInv'
  BY <1>15, <1>b, UsageKept DEF GraphOnly
<1>16. ASSUME NEW w \in Workers, TurnCrash(w) PROVE UsageInv'
  BY <1>16, <1>b, UsageKept DEF TurnCrash
<1>17. ASSUME NEW w \in Workers, NEW m \in queue, TurnDelivers(w, m) PROVE UsageInv'
  BY <1>17, <1>b, SettleUsage DEF TurnDelivers
<1>18. CASE TurnDispatches
  BY <1>18, <1>b, SettleUsage DEF TurnDispatches
<1>19. CASE TurnRecovers
  BY <1>19, <1>b, SettleUsage DEF TurnRecovers
<1>20. CASE CancelTurn
  <2>1. status' \in Terminal
    BY <1>20 DEF CancelTurn, Cancel, Terminal, vars, rowVars
  <2>2. reservation' = reservation
           \/ reservation' \notin Unattempted \union {"TRANSPORT_STARTED"}
    BY <1>20 DEF CancelTurn, AfterCancel, Unattempted
  <2> QED
    BY <1>20, <2>1, <2>2, UsageAttributed DEF CancelTurn
<1>21. CASE Surroundings
  BY <1>21, <1>b, UsageKept DEF Surroundings
<1>22. CASE UNCHANGED turnVars
  BY <1>22, <1>b, UsageKept DEF turnVars
<1> QED
  BY Zenon, <1>1, <1>2, <1>3, <1>4, <1>5, <1>6, <1>7, <1>8, <1>9, <1>10,
     <1>11, <1>12, <1>13, <1>14, <1>15, <1>16, <1>17, <1>18, <1>19,
     <1>20, <1>21, <1>22, TurnStepCases

-----------------------------------------------------------------------------
(* The inductive invariant of a turn.                                       *)
TurnInv == IInv /\ LedgerTypes /\ CallInv /\ UsageInv

LEMMA InitTurnInv == TurnInit => TurnInv
<1> SUFFICES ASSUME TurnInit PROVE TurnInv
  OBVIOUS
<1>1. IInv
  BY InitTypeOK, InitDecisionInv, InitExclusiveInv
     DEF IInv, CancellingInv, TurnInit, Init
<1>2. LedgerTypes
  BY DEF TurnInit, LedgerTypes, TerminalMessage, ActiveMessage, Unattempted, CallSteps
<1>3. CallInv
  BY DEF TurnInit, CallInv, BilledOnce, ReleasedIsUnbilled
<1>4. UsageInv
  BY DEF TurnInit, UsageInv
<1> QED
  BY <1>1, <1>2, <1>3, <1>4 DEF TurnInv

LEMMA StepTurnInv == TurnInv /\ [TurnNext]_turnVars => TurnInv'
<1> SUFFICES ASSUME TurnInv, [TurnNext]_turnVars PROVE TurnInv'
  OBVIOUS
<1>1. IInv'
  BY TurnStepIsRunStep, StepTypeOK, StepDecisionInv, StepExclusiveInv,
     StepCancellingInv DEF IInv, TurnInv
<1> QED
  BY <1>1, StepLedgerTypes, StepCallInv, StepUsageInv DEF TurnInv, IInv

(* The bookkeeping of calls and usage is in order in every state of a turn. *)
THEOREM TurnInvariance == TurnSpec => []TurnInv
  BY InitTurnInv, StepTurnInv, PTL DEF TurnSpec

(* Every variable of a turn keeps its type. *)
THEOREM TurnTypeCorrect == TurnSpec => []TurnTypeOK
<1>1. TurnInv => TurnTypeOK
  BY DEF TurnInv, IInv, LedgerTypes, TurnTypeOK
<1> QED
  BY <1>1, TurnInvariance, PTL

(* The provider is asked at most once for a turn, whatever is redelivered,  *)
(* recovered, cancelled or executed twice.                                  *)
THEOREM AtMostOneCall == TurnSpec => []BilledOnce
<1>1. TurnInv => BilledOnce
  BY DEF TurnInv, CallInv
<1> QED
  BY <1>1, TurnInvariance, PTL

(* A released reservation belongs to a turn that sent nothing and will not. *)
THEOREM ReleasedMeansUnbilled == TurnSpec => []ReleasedIsUnbilled
<1>1. TurnInv => ReleasedIsUnbilled
  BY DEF TurnInv, CallInv
<1> QED
  BY <1>1, TurnInvariance, PTL

(* The usage of a turn is added at most once to the conversation and to the *)
(* provider key's month.                                                    *)
THEOREM UsageIsCountedOnce == TurnSpec => []UsageCountedOnce
<1>1. TurnInv => UsageCountedOnce
  BY DEF TurnInv, UsageInv, UsageCountedOnce
<1> QED
  BY <1>1, TurnInvariance, PTL

-----------------------------------------------------------------------------
(* The turn keeps the promise of TurnLedger.                                *)

(* What the ledger knows of the calls and of the run: only a graph with a   *)
(* provider calls one, a started request has a reservation that is not      *)
(* settled with an answer, and a reservation is given back only by what     *)
(* ends the run, so that no later node can reconcile it.                    *)
LedgerInv ==
    /\ usage => reservation = "RECONCILED"
    /\ reservation = "RELEASED" => status \in Terminal
    /\ ZeroCost => reservation \in {"RESERVED", "RECONCILED", "RELEASED"}
    /\ \A w \in Workers :
          /\ call[w] # "none" => ~ZeroCost
          /\ call[w] = "started" => reservation \in {"TRANSPORT_STARTED", "TRANSPORT_ERROR"}
          /\ call[w] = "answered" => calls = 1

(* A node of the provider belongs to a graph with one, and no step changes  *)
(* the graph of the run.                                                    *)
LEMMA StepZeroCost ==
    ASSUME TypeOK, [Next]_vars
    PROVE  /\ ZeroCost' = ZeroCost
           /\ \A w \in Workers : AtKind(w, "provider") => ~ZeroCost
<1>1. ZeroCost' = ZeroCost
  BY StepGraph DEF ZeroCost, Nodes
<1>2. ASSUME NEW w \in Workers, AtKind(w, "provider") PROVE ~ZeroCost
  <2>1. Len(Nodes) \in Nat /\ DOMAIN Nodes = 1..Len(Nodes) /\ pos[w] \in Nat
    BY GraphsAssumption, LenProperties DEF TypeOK, Nodes
  <2>2. pos[w] + 1 \in DOMAIN Nodes /\ Nodes[pos[w] + 1] = "provider"
    BY <1>2, <2>1 DEF AtKind, AtNode
  <2> QED
    BY <2>2 DEF ZeroCost
<1> QED
  BY <1>1, <1>2

(* A call that ends, or none that begins, with a reservation that stays,    *)
(* fails or is given back by the end of the run. *)
LEMMA LedgerEnds ==
    ASSUME LedgerInv, call \in [Workers -> CallSteps],
           ZeroCost' = ZeroCost, status \in Terminal => status' = status,
           calls' = calls, usage' = usage,
           \/ call' = call
           \/ \E w \in Workers : call' = [call EXCEPT ![w] = "none"],
           \/ reservation' = reservation
           \/ reservation = "TRANSPORT_STARTED" /\ reservation' = "TRANSPORT_ERROR"
           \/ /\ reservation \in Unattempted /\ reservation' = "RELEASED"
              /\ status' \in Terminal
    PROVE  LedgerInv'
<1>1. \A w \in Workers : call'[w] = call[w] \/ call'[w] = "none"
  OBVIOUS
<1> QED
  BY <1>1 DEF LedgerInv, Unattempted

LEMMA SettleLedger ==
    ASSUME LedgerInv, call \in [Workers -> CallSteps],
           ZeroCost' = ZeroCost, status \in Terminal => status' = status,
           SettleFailure, UNCHANGED call
    PROVE  LedgerInv'
<1>1. CASE status' = "FAILED" /\ Settle
  <2>1. \/ reservation' = reservation
        \/ reservation = "TRANSPORT_STARTED" /\ reservation' = "TRANSPORT_ERROR"
        \/ reservation \in Unattempted /\ reservation' = "RELEASED"
    BY <1>1 DEF Settle, AfterFailure
  <2> QED
    BY <1>1, <2>1, LedgerEnds DEF Settle, Terminal
<1>2. CASE UNCHANGED ledgerVars
  BY <1>2, LedgerEnds DEF ledgerVars
<1> QED
  BY <1>1, <1>2 DEF SettleFailure

LEMMA StepLedgerInv ==
    ASSUME TurnInv, LedgerInv, [TurnNext]_turnVars
    PROVE  LedgerInv'
<1>a. /\ call \in [Workers -> CallSteps] /\ calls \in Nat
      /\ TypeOK /\ CancellingInv /\ CallInv /\ BilledOnce
  BY DEF TurnInv, IInv, LedgerTypes, CallInv
<1>b. graph.handler = "chat"
  BY <1>a, TurnGraphsAssumption DEF TypeOK
<1>c. /\ status \in Terminal => status' = status
      /\ ZeroCost' = ZeroCost
      /\ \A w \in Workers : AtKind(w, "provider") => ~ZeroCost
  BY <1>a, <1>b, TurnStepIsRunStep, StepTerminal, StepZeroCost
<1>d. ASSUME NEW w \in Workers, HandleNode(w) PROVE status \notin Terminal
  BY <1>b, <1>d DEF HandleNode, LockRun, Refused
<1> USE DEF ledgerVars, At
<1>1. ASSUME NEW w \in Workers, Prepare(w) PROVE LedgerInv'
  BY <1>1, <1>a, <1>c DEF Prepare, LedgerInv, CallInv
<1>2. ASSUME NEW w \in Workers, StartTransport(w) PROVE LedgerInv'
  BY <1>2, <1>a, <1>c DEF StartTransport, LedgerInv, CallInv, Unattempted
<1>3. ASSUME NEW w \in Workers, CallProvider(w) PROVE LedgerInv'
  <2>1. status' = status /\ calls = 0
    BY <1>3, <1>a DEF CallProvider, CallInv, vars, rowVars
  <2> QED
    BY <1>3, <1>a, <1>c, <2>1 DEF CallProvider, LedgerInv, CallInv
<1>4. ASSUME NEW w \in Workers, RecordError(w) PROVE LedgerInv'
  BY <1>4, <1>a, <1>c, LedgerEnds DEF RecordError
<1>5. ASSUME NEW w \in Workers, Reconcile(w) PROVE LedgerInv'
  <2>1. /\ reservation' = "RECONCILED" /\ calls' = calls
        /\ call'[w] \in {"none", "reconciled"} /\ call[w] = "answered"
        /\ \A v \in Workers : v # w => call'[v] = call[v]
    BY <1>5, <1>a DEF Reconcile
  <2>2. \A v \in Workers : v # w => call[v] = "none"
    BY <2>1, <1>a DEF CallInv
  <2> QED
    BY <1>c, <2>1, <2>2 DEF LedgerInv
<1>6. ASSUME NEW w \in Workers, ReconcileConflict(w) PROVE LedgerInv'
  BY <1>6, <1>a, <1>c, LedgerEnds DEF ReconcileConflict
<1>7. ASSUME NEW w \in Workers, CompleteProvider(w) PROVE LedgerInv'
  BY <1>7, <1>a, <1>c, LedgerEnds DEF CompleteProvider
<1>8. ASSUME NEW w \in Workers, PlainNode(w) PROVE LedgerInv'
  BY <1>8, <1>a, <1>c, LedgerEnds DEF PlainNode
<1>9. ASSUME NEW w \in Workers, ExecuteChange(w) PROVE LedgerInv'
  BY <1>9, <1>a, <1>c, LedgerEnds DEF ExecuteChange
<1>10. ASSUME NEW w \in Workers, Persist(w) PROVE LedgerInv'
  BY <1>10, <1>a, <1>c DEF Persist, LedgerInv
<1>11. ASSUME NEW w \in Workers, TurnRaise(w) PROVE LedgerInv'
  BY <1>11, <1>a, <1>c, LedgerEnds DEF TurnRaise
<1>12. ASSUME NEW w \in Workers, TurnFails(w) PROVE LedgerInv'
  BY <1>12, <1>a, <1>c, SettleLedger DEF TurnFails
<1>13. ASSUME NEW w \in Workers, TurnCompletes(w) PROVE LedgerInv'
  BY <1>13, <1>a, <1>c, LedgerEnds DEF TurnCompletes, RecordCompletion, Terminal
<1>14. ASSUME NEW w \in Workers, TurnInterrupts(w) PROVE LedgerInv'
  BY <1>14, <1>a, <1>c, LedgerEnds DEF TurnInterrupts
<1>15. ASSUME NEW w \in Workers, GraphOnly(w) PROVE LedgerInv'
  BY <1>15, <1>a, <1>c, LedgerEnds DEF GraphOnly
<1>16. ASSUME NEW w \in Workers, TurnCrash(w) PROVE LedgerInv'
  BY <1>16, <1>a, <1>c, LedgerEnds DEF TurnCrash
<1>17. ASSUME NEW w \in Workers, NEW m \in queue, TurnDelivers(w, m) PROVE LedgerInv'
  BY <1>17, <1>a, <1>c, SettleLedger DEF TurnDelivers
<1>18. CASE TurnDispatches
  BY <1>18, <1>a, <1>c, SettleLedger DEF TurnDispatches
<1>19. CASE TurnRecovers
  BY <1>19, <1>a, <1>c, SettleLedger DEF TurnRecovers
<1>20. CASE CancelTurn
  <2>1. status' \in Terminal
    BY <1>20 DEF CancelTurn, Cancel, Terminal, vars, rowVars
  <2> QED
    BY <1>20, <1>a, <1>c, <2>1, LedgerEnds DEF CancelTurn, AfterCancel
<1>21. CASE Surroundings
  BY <1>21, <1>a, <1>c, LedgerEnds DEF Surroundings
<1>22. CASE UNCHANGED turnVars
  BY <1>22, <1>a, <1>c, LedgerEnds DEF turnVars
<1> QED
  BY Zenon, <1>1, <1>2, <1>3, <1>4, <1>5, <1>6, <1>7, <1>8, <1>9, <1>10,
     <1>11, <1>12, <1>13, <1>14, <1>15, <1>16, <1>17, <1>18, <1>19,
     <1>20, <1>21, <1>22, TurnStepCases

(* What a step may do to the variables of the ledger. *)
LEMMA LedgerSteps ==
    ASSUME TurnInv, LedgerInv, ZeroCost' = ZeroCost,
           \/ reservation' = reservation /\ calls' = calls /\ monthly' = monthly
           \/ /\ reservation \in Unattempted /\ reservation' = "RELEASED"
              /\ calls' = calls /\ monthly' = monthly /\ totals' = totals
           \/ /\ reservation = "TRANSPORT_STARTED" /\ reservation' = "TRANSPORT_ERROR"
              /\ calls' = calls /\ monthly' = monthly /\ totals' = totals,
           totals' = totals \/ (usage /\ ~tokens /\ totals' = totals + 1)
    PROVE  [Ledger!LNext]_(Ledger!lvars)
<1>1. usage /\ ~tokens => reservation = "RECONCILED" /\ totals = 0
  BY DEF TurnInv, UsageInv, LedgerInv
<1>2. CASE UNCHANGED <<reservation, calls, monthly, totals>>
  BY <1>2 DEF Ledger!lvars
<1>3. CASE usage /\ ~tokens /\ totals' = totals + 1
  <2>1. UNCHANGED <<reservation, calls, monthly>> /\ totals' = 1
    BY <1>1, <1>3
  <2>2. Ledger!Count
    BY <1>1, <1>3, <2>1 DEF Ledger!Count
  <2> QED
    BY <2>2 DEF Ledger!LNext
<1>4. CASE reservation \in Unattempted /\ reservation' = "RELEASED" /\ totals' = totals
  BY <1>4 DEF Ledger!LNext, Ledger!GiveBack, Ledger!Moves, Unattempted
<1>5. CASE /\ reservation = "TRANSPORT_STARTED" /\ reservation' = "TRANSPORT_ERROR"
           /\ totals' = totals
  BY <1>5 DEF Ledger!LNext, Ledger!Fail, Ledger!Moves
<1> QED
  BY <1>1, <1>2, <1>3, <1>4, <1>5

(* A failure settles the reservation and may count the usage, not both. *)
LEMMA SettleSteps ==
    ASSUME TurnInv, LedgerInv, ZeroCost' = ZeroCost, SettleFailure
    PROVE  [Ledger!LNext]_(Ledger!lvars)
<1>1. CASE Settle
  BY <1>1, LedgerSteps DEF Settle, Attribute, AfterFailure, LedgerInv, Unattempted
<1>2. CASE UNCHANGED ledgerVars
  BY <1>2, LedgerSteps DEF ledgerVars
<1> QED
  BY <1>1, <1>2 DEF SettleFailure

(* Every step of a turn is a step of its ledger or leaves it alone. *)
LEMMA TurnStepIsLedgerStep ==
    ASSUME TurnInv, LedgerInv, [TurnNext]_turnVars
    PROVE  [Ledger!LNext]_(Ledger!lvars)
<1> DEFINE Keeps == [Ledger!LNext]_(Ledger!lvars)
<1>a. /\ call \in [Workers -> CallSteps] /\ calls \in Nat
      /\ TypeOK /\ CancellingInv /\ CallInv /\ UsageInv /\ LedgerTypes
  BY DEF TurnInv, IInv, LedgerTypes
<1>b. graph.handler = "chat"
  BY <1>a, TurnGraphsAssumption DEF TypeOK
<1>c. /\ ZeroCost' = ZeroCost
      /\ \A w \in Workers : AtKind(w, "provider") => ~ZeroCost
  BY <1>a, TurnStepIsRunStep, StepZeroCost
<1> USE DEF ledgerVars
<1>1. ASSUME NEW w \in Workers, Prepare(w) PROVE Keeps
  BY <1>1, <1>c DEF Prepare, Ledger!LNext, Ledger!Activate, Ledger!Moves
<1>2. ASSUME NEW w \in Workers, StartTransport(w) PROVE Keeps
  <2>1. reservation = "ACTIVATED"
    BY <1>2, <1>a DEF StartTransport, Unattempted, CallInv
  <2> QED
    BY <1>2, <1>c, <2>1 DEF StartTransport, Ledger!LNext, Ledger!Send, Ledger!Moves
<1>3. ASSUME NEW w \in Workers, CallProvider(w) PROVE Keeps
  <2>1. calls = 0 /\ reservation \in {"TRANSPORT_STARTED", "TRANSPORT_ERROR"}
    BY <1>3, <1>a DEF CallProvider, CallInv, LedgerInv
  <2> QED
    BY <1>3, <1>c, <2>1 DEF CallProvider, Ledger!LNext, Ledger!Ask
<1>4. ASSUME NEW w \in Workers, RecordError(w) PROVE Keeps
  BY <1>4, <1>c, LedgerSteps DEF RecordError
<1>5. ASSUME NEW w \in Workers, Reconcile(w) PROVE Keeps
  <2>1. calls = 1 /\ monthly = 0
    BY <1>5, <1>a DEF Reconcile, LedgerInv, UsageInv
  <2>2. totals' \in {totals, 1}
    BY <1>5, <1>a DEF Reconcile, UsageInv
  <2> QED
    BY <1>5, <1>c, <2>1, <2>2 DEF Reconcile, Ledger!LNext, Ledger!Reconcile, Ledger!Moves
<1>6. ASSUME NEW w \in Workers, ReconcileConflict(w) PROVE Keeps
  BY <1>6, <1>c, LedgerSteps DEF ReconcileConflict
<1>7. ASSUME NEW w \in Workers, CompleteProvider(w) PROVE Keeps
  BY <1>7, <1>c, LedgerSteps DEF CompleteProvider
<1>8. ASSUME NEW w \in Workers, PlainNode(w) PROVE Keeps
  BY <1>8, <1>c, LedgerSteps DEF PlainNode
<1>9. ASSUME NEW w \in Workers, ExecuteChange(w) PROVE Keeps
  BY <1>9, <1>c, LedgerSteps DEF ExecuteChange
<1>10. ASSUME NEW w \in Workers, Persist(w) PROVE Keeps
  <2>1. status \notin Terminal
    BY <1>10, <1>b DEF Persist, HandleNode, LockRun, Refused
  <2>2. reservation \in {"RESERVED", "RECONCILED"} /\ (reservation = "RESERVED" => ZeroCost)
    BY <1>10, <2>1 DEF Persist, LedgerInv
  <2>3. totals' = 1 /\ totals \in {0, 1}
    BY <1>10, <1>a, <2>1 DEF Persist, CountOnce, UsageInv
  <2>4. reservation' = "RECONCILED" /\ UNCHANGED <<calls, monthly>>
    BY <1>10 DEF Persist
  <2>5. CASE reservation = "RESERVED"
    BY <1>c, <2>2, <2>3, <2>4, <2>5 DEF Ledger!LNext, Ledger!Derive, Ledger!Moves
  <2>6. CASE reservation = "RECONCILED" /\ totals = 0
    BY <1>c, <2>3, <2>4, <2>6 DEF Ledger!LNext, Ledger!Count
  <2>7. CASE reservation = "RECONCILED" /\ totals = 1
    BY <1>c, <2>3, <2>4, <2>7 DEF Ledger!lvars
  <2> QED
    BY <2>2, <2>3, <2>5, <2>6, <2>7
<1>11. ASSUME NEW w \in Workers, TurnRaise(w) PROVE Keeps
  BY <1>11, <1>c, LedgerSteps DEF TurnRaise
<1>12. ASSUME NEW w \in Workers, TurnFails(w) PROVE Keeps
  BY <1>12, <1>c, SettleSteps DEF TurnFails
<1>13. ASSUME NEW w \in Workers, TurnCompletes(w) PROVE Keeps
  BY <1>13, <1>c, LedgerSteps DEF TurnCompletes
<1>14. ASSUME NEW w \in Workers, TurnInterrupts(w) PROVE Keeps
  BY <1>14, <1>c, LedgerSteps DEF TurnInterrupts
<1>15. ASSUME NEW w \in Workers, GraphOnly(w) PROVE Keeps
  BY <1>15, <1>c, LedgerSteps DEF GraphOnly
<1>16. ASSUME NEW w \in Workers, TurnCrash(w) PROVE Keeps
  BY <1>16, <1>c, LedgerSteps DEF TurnCrash
<1>17. ASSUME NEW w \in Workers, NEW m \in queue, TurnDelivers(w, m) PROVE Keeps
  BY <1>17, <1>c, SettleSteps DEF TurnDelivers
<1>18. CASE TurnDispatches
  BY <1>18, <1>c, SettleSteps DEF TurnDispatches
<1>19. CASE TurnRecovers
  BY <1>19, <1>c, SettleSteps DEF TurnRecovers
<1>20. CASE CancelTurn
  BY <1>20, <1>c, LedgerSteps DEF CancelTurn, AfterCancel, Attribute, LedgerInv, Unattempted
<1>21. CASE Surroundings
  BY <1>21, <1>c, LedgerSteps DEF Surroundings
<1>22. CASE UNCHANGED turnVars
  BY <1>22, <1>c, LedgerSteps DEF turnVars
<1> QED
  BY Zenon, <1>1, <1>2, <1>3, <1>4, <1>5, <1>6, <1>7, <1>8, <1>9, <1>10,
     <1>11, <1>12, <1>13, <1>14, <1>15, <1>16, <1>17, <1>18, <1>19,
     <1>20, <1>21, <1>22, TurnStepCases

(* A turn keeps the promise of TurnLedger, whatever is cancelled, failed,   *)
(* recovered or executed twice: its reservation is settled once, charged    *)
(* only by the reconciliation of an answer, and given back only before the  *)
(* transport started.                                                       *)
THEOREM TurnImplementsLedger == TurnSpec => ImplementsLedger
<1>1. TurnInit => TurnInv /\ LedgerInv /\ Ledger!LInit
  <2>1. TurnInit => LedgerInv
    BY DEF TurnInit, LedgerInv
  <2>2. ZeroCost \in BOOLEAN
    BY DEF ZeroCost
  <2>3. TurnInit => Ledger!LInit
    BY <2>2 DEF TurnInit, Ledger!LInit
  <2> QED
    BY <2>1, <2>3, InitTurnInv
<1>2. TurnInv /\ LedgerInv /\ [TurnNext]_turnVars => (TurnInv /\ LedgerInv)'
  BY StepTurnInv, StepLedgerInv
<1>3. TurnInv /\ LedgerInv /\ [TurnNext]_turnVars => [Ledger!LNext]_(Ledger!lvars)
  BY TurnStepIsLedgerStep
<1> QED
  BY <1>1, <1>2, <1>3, PTL DEF TurnSpec, ImplementsLedger, Ledger!LSpec

-----------------------------------------------------------------------------
(* The run and the message end together.                                    *)

(* A path of k completed nodes has persisted the answer. *)
Answered(k) == \E n \in 1..k : Nodes[n] = "persist"

(* What the message of a run that is not over says: the answer is there     *)
(* once it was persisted, and a run that waits for its human, or that is    *)
(* about to end at the gate that rejected it, shows the interrupt.          *)
OpenInv ==
    /\ message \notin {"FAILED", "CANCELLED"}
    /\ Answered(ckpt) => message = "COMPLETED"
    /\ status = "INTERRUPTED" \/ (status = "QUEUED" /\ command # Start)
          => message = "INTERRUPTED"
    /\ \A w \in Workers : pc[w] = "done" /\ Answered(pos[w]) => message = "COMPLETED"
    /\ \A w \in Workers : pc[w] = "acquired" /\ msg[w].command # Start
          => message = "INTERRUPTED"
    /\ \A w \in Workers : pc[w] = "run"
          => pos[w] = ckpt \/ (AtEnd(w) /\ message = "INTERRUPTED")

MessageInv == stalls = 0 => RunAndMessageAgree /\ (status \notin Terminal => OpenInv)

(* The answer is persisted on every path, and after every gate. *)
LEMMA PathsAnswer ==
    ASSUME TypeOK
    PROVE  /\ Answered(Len(Nodes))
           /\ \A k \in 0..Len(Nodes) : k < Len(Nodes) /\ Nodes[k + 1] = "gate" => ~Answered(k)
           /\ \A k \in 0..Len(Nodes) :
                 k < Len(Nodes) /\ Nodes[k + 1] # "persist" /\ Answered(k + 1) => Answered(k)
<1>1. graph \in Graphs /\ Len(Nodes) \in Nat
  BY GraphsAssumption, LenProperties DEF TypeOK, Nodes
<1>2. Answered(Len(Nodes))
  BY <1>1, TurnPathsAssumption DEF Answered, Nodes
<1>3. ASSUME NEW k \in 0..Len(Nodes), k < Len(Nodes), Nodes[k + 1] = "gate", Answered(k)
      PROVE  FALSE
  <2>1. PICK n \in 1..k : Nodes[n] = "persist"
    BY <1>3 DEF Answered
  <2>2. n \in 1..Len(Nodes) /\ k + 1 \in 1..Len(Nodes)
    BY <1>1, <1>3
  <2>3. k + 1 < n
    BY <1>1, <1>3, <2>1, <2>2, TurnPathsAssumption DEF Nodes
  <2> QED
    BY <2>1, <2>3
<1>4. ASSUME NEW k \in 0..Len(Nodes), k < Len(Nodes), Nodes[k + 1] # "persist",
             Answered(k + 1)
      PROVE  Answered(k)
  BY <1>1, <1>4 DEF Answered
<1> QED
  BY <1>2, <1>3, <1>4

(* Steps that leave the run and its message as they are, and whose workers  *)
(* go on as they were or leave the graph. *)
LEMMA MessageKept ==
    ASSUME MessageInv, stalls = 0, stalls' = 0, graph' = graph,
           message' = message, status' = status, command' = command, ckpt' = ckpt,
           \A w \in Workers :
              \/ pc'[w] \in {"idle", "failed"}
              \/ pc'[w] = pc[w] /\ pos'[w] = pos[w] /\ msg'[w] = msg[w]
    PROVE  MessageInv'
  BY DEF MessageInv, RunAndMessageAgree, OpenInv, Answered, AtEnd, Nodes

(* The run was over, and stays as it was. *)
LEMMA OverStays ==
    ASSUME MessageInv, stalls = 0, status \in Terminal,
           status' = status, message' = message
    PROVE  MessageInv'
  BY DEF MessageInv, RunAndMessageAgree

(* A step that fails the run settles its message. *)
LEMMA SettleMessage ==
    ASSUME MessageInv, stalls = 0, stalls' = 0, SettleFailure,
           status' = "FAILED"
    PROVE  MessageInv'
<1>1. CASE status = "FAILED"
  BY <1>1, OverStays DEF SettleFailure, ledgerVars, Terminal
<1>2. CASE status # "FAILED"
  BY <1>2 DEF SettleFailure, Settle, MessageInv, RunAndMessageAgree, Terminal
<1> QED
  BY <1>1, <1>2

LEMMA StepMessageInv ==
    ASSUME TypeOK, ExclusiveInv, CancellingInv, GovernInv, LedgerTypes, MessageInv,
           [TurnNext]_turnVars
    PROVE  MessageInv'
<1> SUFFICES ASSUME stalls' = 0 PROVE MessageInv'
  BY DEF MessageInv
<1>a. /\ graph.handler = "chat" /\ graph' = graph /\ Nodes' = Nodes
      /\ stalls = 0 /\ [Next]_vars
  BY TurnGraphsAssumption, TurnStepIsRunStep, StepGraph, StepStalls DEF TypeOK, Nodes
<1>b. \A v, w \in Workers : pc[v] # "idle" /\ pc[w] # "idle" => v = w
  BY <1>a, OneLive
<1>c. \A w \in Workers : Waiting => pc[w] = "idle"
  BY <1>a, OneLive
<1>d. /\ RunAndMessageAgree /\ (status \notin Terminal => OpenInv)
      /\ \A w \in Workers : pc[w] = "run" /\ ~AtEnd(w) => pos[w] = ckpt
  BY <1>a DEF MessageInv, GovernInv, PathInv
<1>e. status \in Statuses /\ ckpt \in 0..Len(Nodes) /\ Len(Nodes) \in Nat
  BY GraphsAssumption, LenProperties DEF TypeOK, Nodes
<1>t. /\ pc \in [Workers -> {"idle", "acquired", "run", "done", "failed"}]
      /\ pos \in [Workers -> 0..Len(Nodes)] /\ msg \in [Workers -> Messages]
  BY DEF TypeOK
<1>f. ASSUME NEW w \in Workers, Touch(w), Stream PROVE MessageInv'
  <2>1. /\ status \notin Terminal /\ status' = "RUNNING" /\ ckpt' = ckpt
        /\ pc' = pc /\ pos' = pos /\ pc[w] = "run" /\ pos[w] = ckpt /\ ~AtEnd(w)
    BY <1>f, <1>a, <1>d, <1>e, <1>t DEF Touch, LockRun, Refused, AtNode, AtEnd,
       workerVars, graphVars
  <2>2. OpenInv /\ message' \in {"COMPLETED", "STREAMING"}
        /\ (message = "COMPLETED" => message' = "COMPLETED")
    BY <1>f, <1>d, <2>1 DEF OpenInv, Stream, Streaming, TerminalMessage
  <2>3. \A v \in Workers : v # w => pc[v] = "idle"
    BY <1>b, <2>1
  <2> QED
    BY <1>a, <2>1, <2>2, <2>3
       DEF MessageInv, RunAndMessageAgree, OpenInv, Answered, Terminal
<1>g. ASSUME NEW w \in Workers, HandleNode(w), message' \in {"COMPLETED", "STREAMING"},
             message = "COMPLETED" \/ AtKind(w, "persist") => message' = "COMPLETED"
      PROVE  MessageInv'
  <2>1. /\ status \notin Terminal /\ status' = "RUNNING" /\ ckpt' = ckpt
        /\ pc[w] = "run" /\ pos[w] = ckpt /\ ckpt < Len(Nodes)
        /\ pc'[w] = "done" /\ pos'[w] = ckpt + 1
        /\ \A v \in Workers : v # w => pc'[v] = pc[v]
    BY <1>g, <1>a, <1>d, <1>e, <1>t DEF HandleNode, LockRun, Refused, AtNode, AtEnd
  <2>2. \A v \in Workers : v # w => pc'[v] = "idle"
    BY <1>b, <2>1
  <2>3. Answered(ckpt + 1) => message' = "COMPLETED"
    <3>1. CASE Nodes[ckpt + 1] = "persist"
      BY <3>1, <1>g, <2>1, <1>e DEF AtKind, AtNode
    <3>2. CASE Nodes[ckpt + 1] # "persist"
      BY <3>2, <1>g, <2>1, <1>d, <1>e, PathsAnswer DEF OpenInv
    <3> QED
      BY <3>1, <3>2
  <2>4. Answered(ckpt) => Answered(ckpt + 1)
    BY <1>e DEF Answered
  <2> QED
    BY <1>a, <1>g, <2>1, <2>2, <2>3, <2>4
       DEF MessageInv, RunAndMessageAgree, OpenInv, Answered, Terminal
<1>h. ASSUME NEW w \in Workers, HandleNode(w), Stream, ~AtKind(w, "persist")
      PROVE  MessageInv'
  <2>1. message' \in {"COMPLETED", "STREAMING"}
        /\ (message = "COMPLETED" => message' = "COMPLETED")
    BY <1>h, <1>a, <1>d DEF HandleNode, LockRun, Refused, OpenInv, Stream, Streaming,
       TerminalMessage
  <2> QED
    BY <1>h, <1>g, <2>1
<1>i. ASSUME NEW w \in Workers, Raise(w) \/ RefuseNode(w) \/ RecordRaises(w) \/ Crash(w),
             message' = message
      PROVE  MessageInv'
  BY <1>i, <1>a, <1>t, MessageKept DEF Raise, RefuseNode, RecordRaises, Crash, Return,
     rowVars, graphVars
<1>1. ASSUME NEW w \in Workers, Prepare(w) PROVE MessageInv'
  BY <1>1, <1>f DEF Prepare
<1>2. ASSUME NEW w \in Workers, StartTransport(w) PROVE MessageInv'
  BY <1>2, <1>f DEF StartTransport
<1>3. ASSUME NEW w \in Workers, CallProvider(w) PROVE MessageInv'
  BY <1>3, <1>a, MessageKept DEF CallProvider, vars, rowVars, graphVars, workerVars
<1>4. ASSUME NEW w \in Workers, RecordError(w) PROVE MessageInv'
  BY <1>4, <1>i DEF RecordError
<1>5. ASSUME NEW w \in Workers, Reconcile(w) PROVE MessageInv'
  <2>1. CASE Raise(w)
    BY <1>5, <2>1, <1>i DEF Reconcile
  <2>2. CASE UNCHANGED vars
    BY <1>5, <2>2, <1>a, MessageKept DEF Reconcile, vars, rowVars, graphVars, workerVars
  <2> QED
    BY <1>5, <2>1, <2>2 DEF Reconcile, Over, vars
<1>6. ASSUME NEW w \in Workers, ReconcileConflict(w) PROVE MessageInv'
  BY <1>6, <1>i DEF ReconcileConflict, ledgerVars
<1>7. ASSUME NEW w \in Workers, CompleteProvider(w) PROVE MessageInv'
  BY <1>7, <1>h DEF CompleteProvider, AtKind
<1>8. ASSUME NEW w \in Workers, PlainNode(w) PROVE MessageInv'
  BY <1>8, <1>h DEF PlainNode, AtKind
<1>9. ASSUME NEW w \in Workers, ExecuteChange(w) PROVE MessageInv'
  BY <1>9, <1>h DEF ExecuteChange, AtKind
<1>10. ASSUME NEW w \in Workers, Persist(w) PROVE MessageInv'
  BY <1>10, <1>g DEF Persist
<1>11. ASSUME NEW w \in Workers, TurnRaise(w) PROVE MessageInv'
  BY <1>11, <1>i DEF TurnRaise, ledgerVars
<1>12. ASSUME NEW w \in Workers, TurnFails(w) PROVE MessageInv'
  <2>1. CASE status \in Terminal
    BY <2>1, <1>12, <1>a, OverStays
       DEF TurnFails, RecordFailure, MarkFailed, SettleFailure, Settle, ledgerVars
  <2>2. CASE status \notin Terminal
    BY <2>2, <1>12, <1>a, SettleMessage DEF TurnFails, RecordFailure, MarkFailed
  <2> QED
    BY <2>1, <2>2
<1>13. ASSUME NEW w \in Workers, TurnCompletes(w) PROVE MessageInv'
  <2>1. CASE status \in Terminal
    BY <2>1, <1>13, <1>a, OverStays DEF TurnCompletes, RecordCompletion, ledgerVars
  <2>2. CASE status \notin Terminal
    <3>1. pc[w] = "run" /\ pos[w] = Len(Nodes) /\ status' = "COMPLETED"
      BY <1>13, <2>2 DEF TurnCompletes, RecordCompletion, AtEnd
    <3>2. message \in {"COMPLETED", "INTERRUPTED"}
      BY <3>1, <2>2, <1>d, PathsAnswer DEF OpenInv
    <3>3. message' \in {"COMPLETED", "CANCELLED"}
      BY <3>2, <1>13, <2>2 DEF TurnCompletes, ledgerVars
    <3> QED
      BY <3>1, <3>3 DEF MessageInv, RunAndMessageAgree, Terminal
  <2> QED
    BY <2>1, <2>2
<1>14. ASSUME NEW w \in Workers, TurnInterrupts(w) PROVE MessageInv'
  <2>1. CASE status \in Terminal
    BY <2>1, <1>14, <1>a, OverStays DEF TurnInterrupts, RecordInterrupt
  <2>2. CASE status \notin Terminal
    <3>1. /\ pc[w] = "run" /\ pos[w] = ckpt /\ ckpt < Len(Nodes)
          /\ Nodes[ckpt + 1] = "gate" /\ status' = "INTERRUPTED" /\ ckpt' = ckpt
          /\ message' = "INTERRUPTED" /\ pc'[w] = "idle"
          /\ \A v \in Workers : v # w => pc'[v] = pc[v]
      BY <1>14, <2>2, <1>d, <1>e, <1>t
         DEF TurnInterrupts, RecordInterrupt, AtGate, AtEnd, Return, graphVars
    <3>2. ~Answered(ckpt)
      BY <3>1, <1>e, PathsAnswer
    <3>3. \A v \in Workers : pc'[v] = "idle"
      BY <3>1, <1>b
    <3> QED
      BY <1>a, <3>1, <3>2, <3>3
         DEF MessageInv, RunAndMessageAgree, OpenInv, Answered, Terminal
  <2> QED
    BY <2>1, <2>2
<1>15. ASSUME NEW w \in Workers, GraphOnly(w) PROVE MessageInv'
  <2>1. CASE Load(w)
    <3>1. CASE status \in Terminal
      BY <2>1, <3>1, <1>15, <1>a, OverStays DEF GraphOnly, Load, ledgerVars, rowVars
    <3>2. CASE status \notin Terminal
      <4>1. /\ pc[w] = "acquired" /\ status' = status /\ command' = command /\ ckpt' = ckpt
            /\ message' = message /\ OpenInv
            /\ \A v \in Workers : v # w => pc'[v] = "idle"
        BY <2>1, <3>2, <1>15, <1>b, <1>d, <1>t DEF Load, GraphOnly, ledgerVars, rowVars, graphVars
      <4>2. \/ pc'[w] = "run" /\ pos'[w] = ckpt
            \/ pc'[w] = "run" /\ pos'[w] = Len(Nodes) /\ message = "INTERRUPTED"
            \/ /\ pc'[w] = "done" /\ pos'[w] = ckpt + 1
               /\ ckpt < Len(Nodes) /\ Nodes[ckpt + 1] = "gate"
        <5>1. msg[w].command \in DOMAIN rows => msg[w].command # Start
          BY DEF TypeOK, Start
        <5> QED
          BY <2>1, <4>1, <5>1, <1>t DEF Load, OpenInv
      <4>3. pc'[w] = "done" => ~Answered(pos'[w])
        BY <4>2, <1>e, PathsAnswer
      <4> QED
        BY <1>a, <4>1, <4>2, <4>3, <1>d
           DEF MessageInv, RunAndMessageAgree, OpenInv, Answered, AtEnd
    <3> QED
      BY <3>1, <3>2
  <2>2. CASE SaveCheckpoint(w)
    <3>1. CASE status \in Terminal
      BY <2>2, <3>1, <1>15, <1>a, OverStays DEF GraphOnly, SaveCheckpoint, ledgerVars, rowVars
    <3>2. CASE status \notin Terminal
      <4>1. /\ pc[w] = "done" /\ pc'[w] = "run" /\ pos'[w] = pos[w] /\ ckpt' = pos[w]
            /\ status' = status /\ command' = command /\ message' = message /\ OpenInv
            /\ \A v \in Workers : v # w => pc'[v] = "idle"
        BY <2>2, <3>2, <1>15, <1>b, <1>d, <1>t DEF SaveCheckpoint, GraphOnly, ledgerVars, rowVars
      <4> QED
        BY <1>a, <4>1, <1>d
           DEF MessageInv, RunAndMessageAgree, OpenInv, Answered
    <3> QED
      BY <3>1, <3>2
  <2>3. CASE RecordRaises(w)
    BY <2>3, <1>15, <1>i DEF GraphOnly, ledgerVars
  <2> QED
    BY <1>15, <2>1, <2>2, <2>3 DEF GraphOnly
<1>16. ASSUME NEW w \in Workers, TurnCrash(w) PROVE MessageInv'
  BY <1>16, <1>i DEF TurnCrash, ledgerVars
<1>17. ASSUME NEW w \in Workers, NEW m \in queue, TurnDelivers(w, m) PROVE MessageInv'
  <2>1. CASE status' = "FAILED"
    BY <2>1, <1>17, <1>a, SettleMessage DEF TurnDelivers
  <2>2. CASE Noop(w, m) \/ AcquireRaises(w, m)
    BY <2>1, <2>2, <1>17, <1>a, MessageKept
       DEF TurnDelivers, Noop, AcquireRaises, SettleFailure, ledgerVars, rowVars,
           graphVars, workerVars
  <2>3. CASE AcquireFenced(w, m)
    BY <2>1, <2>3 DEF AcquireFenced, DispatchMatches, MarkFailed, Terminal
  <2>4. CASE Acquire(w, m)
    <3>1. /\ status = "QUEUED" /\ status' = "RUNNING" /\ command = m.command
          /\ ckpt' = ckpt /\ pc'[w] = "acquired" /\ msg'[w] = m
          /\ message' = message /\ \A v \in Workers : v # w => pc'[v] = pc[v]
      BY <1>17, <2>4, <1>t DEF Acquire, DispatchMatches, TurnDelivers, SettleFailure,
         ledgerVars, graphVars
    <3>2. \A v \in Workers : v # w => pc'[v] = "idle"
      BY <3>1, <1>c DEF Waiting
    <3>3. OpenInv
      BY <3>1, <1>d DEF Terminal
    <3> QED
      BY <1>a, <3>1, <3>2, <3>3
         DEF MessageInv, RunAndMessageAgree, OpenInv, Answered, Terminal
  <2> QED
    BY <1>17, <2>2, <2>3, <2>4 DEF TurnDelivers, Deliver
<1>18. CASE TurnDispatches
  <2>1. CASE status' = "FAILED"
    BY <2>1, <1>18, <1>a, SettleMessage DEF TurnDispatches
  <2>2. CASE status' # "FAILED"
    BY <2>2, <1>18, <1>a, MessageKept
       DEF TurnDispatches, Dispatch, MarkFailed, SettleFailure, ledgerVars, graphVars,
           workerVars, Terminal
  <2> QED
    BY <2>1, <2>2
<1>19. CASE TurnRecovers
  <2>1. CASE status' = "FAILED"
    BY <2>1, <1>19, <1>a, SettleMessage DEF TurnRecovers
  <2>2. CASE status' # "FAILED"
    <3>1. /\ status = "RUNNING" /\ lease = "lapsed" /\ status' = "QUEUED"
          /\ command = Start /\ command' = command /\ ckpt' = ckpt /\ pc' = pc
          /\ message' = message
      BY <1>19, <2>2 DEF TurnRecovers, Recover, MarkFailed, Recoverable, SettleFailure,
         ledgerVars, graphVars, workerVars, Terminal
    <3>2. OpenInv /\ \A v \in Workers : pc[v] = "idle"
      BY <3>1, <1>c, <1>d DEF Waiting, Terminal
    <3> QED
      BY <1>a, <3>1, <3>2
         DEF MessageInv, RunAndMessageAgree, OpenInv, Answered, Terminal
  <2> QED
    BY <2>1, <2>2
<1>20. CASE CancelTurn
  <2>1. status \notin Terminal /\ status' = "CANCELLED" /\ message' = "CANCELLED"
    BY <1>20, <1>a, <1>d DEF CancelTurn, Cancel, RunAndMessageAgree, ActiveMessage, Terminal
  <2> QED
    BY <2>1 DEF MessageInv, RunAndMessageAgree, Terminal
<1>21. CASE Surroundings
  <2>1. message' = message
    BY <1>21 DEF Surroundings, ledgerVars
  <2>2. CASE Decide
    <3>1. PICK r \in DOMAIN rows, answer \in {"RESOLVED", "REJECTED"} : Resume(r, answer)
      BY <2>2 DEF Decide
    <3>2. /\ status = "INTERRUPTED" /\ status' = "QUEUED" /\ ckpt' = ckpt /\ pc' = pc
      BY <3>1 DEF Resume, graphVars, workerVars
    <3>3. OpenInv /\ \A v \in Workers : pc[v] = "idle"
      BY <3>2, <1>c, <1>d DEF Waiting, Terminal
    <3> QED
      BY <1>a, <2>1, <3>2, <3>3
         DEF MessageInv, RunAndMessageAgree, OpenInv, Answered, Terminal
  <2>3. CASE \/ \E m \in queue : LoseMessage(m)
             \/ \E c \in locks : LockExpires(c) \/ LockExpiresEarly(c)
    BY <2>1, <2>3, <1>a, MessageKept DEF LoseMessage, LockExpires, LockExpiresEarly,
       rowVars, graphVars, workerVars
  <2>4. CASE LeaseLapses
    BY <2>1, <2>4, <1>a, MessageKept DEF LeaseLapses, graphVars, workerVars
  <2>5. CASE Stall
    BY <2>5, <1>a DEF Stall
  <2> QED
    BY <1>21, <2>2, <2>3, <2>4, <2>5 DEF Surroundings
<1>22. CASE UNCHANGED turnVars
  BY <1>22, <1>a, MessageKept DEF turnVars, vars, rowVars, graphVars, workerVars, ledgerVars
<1> QED
  BY Zenon, <1>1, <1>2, <1>3, <1>4, <1>5, <1>6, <1>7, <1>8, <1>9, <1>10,
     <1>11, <1>12, <1>13, <1>14, <1>15, <1>16, <1>17, <1>18, <1>19,
     <1>20, <1>21, <1>22, TurnStepCases

(* While no lease lapses under a live worker, the run and the message the   *)
(* user sees end together and say the same.                                 *)
THEOREM RunAndMessageEndTogether == TurnSpec => []RunAndMessageAgree
<1>1. TurnInit => TurnInv /\ GovernInv /\ MessageInv
  <2>1. TurnInit => MessageInv
    BY DEF TurnInit, Init, MessageInv, RunAndMessageAgree, OpenInv, Answered, Terminal
  <2> QED
    BY <2>1, InitTurnInv, InitGovernInv DEF TurnInit
<1>2. TurnInv /\ GovernInv /\ MessageInv /\ [TurnNext]_turnVars
        => (TurnInv /\ GovernInv /\ MessageInv)'
  <2> SUFFICES ASSUME TurnInv, GovernInv, MessageInv, [TurnNext]_turnVars
               PROVE  (TurnInv /\ GovernInv /\ MessageInv)'
    OBVIOUS
  <2>1. TurnInv'
    BY StepTurnInv
  <2>2. GovernInv'
    BY TurnStepIsRunStep, StepGovernInv DEF TurnInv, IInv
  <2>3. MessageInv'
    BY StepMessageInv DEF TurnInv, IInv
  <2> QED
    BY <2>1, <2>2, <2>3
<1>3. MessageInv => RunAndMessageAgree
  BY DEF MessageInv, RunAndMessageAgree
<1> QED
  BY <1>1, <1>2, <1>3, PTL DEF TurnSpec

-----------------------------------------------------------------------------
(* The committed change was asked for.                                      *)

(* Only a node's transaction counts as an effect. *)
LEMMA StepEffects ==
    ASSUME [Next]_vars
    PROVE  effects' = effects \/ \E w \in Workers : HandleNode(w)
<1> USE DEF graphVars
<1>1. ASSUME NEW w \in Workers, Execute(w), ~HandleNode(w) PROVE effects' = effects
  BY <1>1 DEF Execute, Load, RefuseNode, SaveCheckpoint, RecordFailure,
     RecordCompletion, RecordInterrupt
<1>2. ASSUME NEW w \in Workers, Touch(w) \/ Raise(w) \/ RecordRaises(w) \/ Crash(w)
      PROVE  effects' = effects
  BY <1>2 DEF Touch, Raise, RecordRaises, Crash
<1>3. ASSUME NEW w \in Workers, NEW m \in queue, Deliver(w, m) \/ AcquireRaises(w, m)
      PROVE  effects' = effects
  BY <1>3 DEF Deliver, Noop, AcquireFenced, Acquire, AcquireRaises
<1>4. CASE \/ \E m \in queue : LoseMessage(m)
           \/ \E c \in locks : LockExpires(c) \/ LockExpiresEarly(c)
           \/ Dispatch \/ Recover \/ Cancel \/ ReadToCancel \/ WriteCancel
           \/ LeaseLapses \/ Stall
  BY <1>4 DEF LoseMessage, LockExpires, LockExpiresEarly, Dispatch, Recover, Cancel,
     ReadToCancel, WriteCancel, LeaseLapses, Stall
<1>5. CASE Decide
  BY <1>5 DEF Decide, Resume
<1>6. CASE UNCHANGED vars
  BY <1>6 DEF vars
<1> QED
  BY <1>1, <1>2, <1>3, <1>4, <1>5, <1>6 DEF Next

(* A committed change is an effect of a node that executes one. *)
WrittenInv ==
    written => \E n \in 1..Len(Nodes) : Nodes[n] = "execute" /\ effects[n] > 0

LEMMA StepWrittenInv ==
    ASSUME TypeOK, WrittenInv, [TurnNext]_turnVars
    PROVE  WrittenInv'
<1>a. /\ Nodes' = Nodes /\ Len(Nodes) \in Nat /\ effects \in [1..Len(Nodes) -> Nat]
      /\ pos \in [Workers -> 0..Len(Nodes)]
      /\ effects' = effects \/ \E w \in Workers : HandleNode(w)
  BY GraphsAssumption, LenProperties, TurnStepIsRunStep, StepGraph, StepEffects
     DEF TypeOK, Nodes
<1>b. \A n \in 1..Len(Nodes) : effects[n] > 0 => effects'[n] > 0
  <2>1. ASSUME NEW w \in Workers, HandleNode(w), NEW n \in 1..Len(Nodes), effects[n] > 0
        PROVE  effects'[n] > 0
    BY <1>a, <2>1 DEF HandleNode
  <2> QED
    BY <1>a, <2>1
<1>c. written' = written => WrittenInv'
  BY <1>a, <1>b DEF WrittenInv
<1>d. ASSUME NEW w \in Workers, ExecuteChange(w) PROVE WrittenInv'
  <2>1. /\ pos[w] + 1 \in 1..Len(Nodes) /\ Nodes[pos[w] + 1] = "execute"
        /\ effects'[pos[w] + 1] > 0
    BY <1>a, <1>d DEF ExecuteChange, AtKind, AtNode, HandleNode
  <2> QED
    BY <1>a, <2>1 DEF WrittenInv
<1>e. ASSUME SettleFailure PROVE written' = written
  BY <1>e DEF SettleFailure, Settle, ledgerVars
<1> USE <1>c DEF ledgerVars
<1>1. ASSUME NEW w \in Workers,
             \/ Prepare(w) \/ StartTransport(w) \/ CallProvider(w) \/ RecordError(w)
             \/ Reconcile(w) \/ ReconcileConflict(w) \/ CompleteProvider(w)
             \/ PlainNode(w) \/ Persist(w) \/ TurnRaise(w)
      PROVE  written' = written
  BY <1>1 DEF Prepare, StartTransport, CallProvider, RecordError, Reconcile,
     ReconcileConflict, CompleteProvider, PlainNode, Persist, TurnRaise
<1>2. ASSUME NEW w \in Workers,
             TurnFails(w) \/ TurnCompletes(w) \/ TurnInterrupts(w) \/ GraphOnly(w)
             \/ TurnCrash(w) \/ \E m \in queue : TurnDelivers(w, m)
      PROVE  written' = written
  BY <1>2, <1>e DEF TurnFails, TurnCompletes, TurnInterrupts, GraphOnly, TurnCrash,
     TurnDelivers
<1>3. CASE TurnDispatches \/ TurnRecovers \/ CancelTurn \/ Surroundings \/ UNCHANGED turnVars
  BY <1>3, <1>e DEF TurnDispatches, TurnRecovers, CancelTurn, Surroundings, turnVars
<1> QED
  BY Zenon, <1>d, <1>1, <1>2, <1>3, TurnStepCases

(* While no lease lapses under a live worker, no change of a turn is        *)
(* committed that a human did not approve, and none rejected, at every gate *)
(* before it.                                                               *)
THEOREM CommittedWritesAreApproved == TurnSpec => []WritesAreApproved
<1>1. TurnInit => IInv /\ GovernInv /\ WrittenInv
  BY InitTurnInv, InitGovernInv DEF TurnInit, TurnInv, WrittenInv
<1>2. IInv /\ GovernInv /\ WrittenInv /\ [TurnNext]_turnVars
        => (IInv /\ GovernInv /\ WrittenInv)'
  BY TurnStepIsRunStep, StepTypeOK, StepDecisionInv, StepExclusiveInv, StepCancellingInv,
     StepGovernInv, StepWrittenInv DEF IInv
<1>3. IInv /\ GovernInv /\ WrittenInv => WritesAreApproved
  <2> SUFFICES ASSUME IInv, GovernInv, WrittenInv, stalls = 0, written
               PROVE  \E n \in 1..Len(Nodes) :
                         /\ Nodes[n] = "execute"
                         /\ \A g \in 1..(n - 1) : Nodes[g] = "gate" =>
                                Approved(g) /\ ~Rejected(g)
    BY DEF WritesAreApproved
  <2>1. PICK n \in 1..Len(Nodes) : Nodes[n] = "execute" /\ effects[n] > 0
    BY DEF WrittenInv
  <2>2. \A g \in Gates(n - 1) : Approved(g)
    BY <2>1 DEF GovernInv, PathInv
  <2>3. \A g \in Gates(n - 1) : ~Rejected(g)
    BY <2>2, OneAnswer
  <2> QED
    BY <2>1, <2>2, <2>3 DEF Gates
<1> QED
  BY <1>1, <1>2, <1>3, PTL DEF TurnSpec
=============================================================================
