------------------------------ MODULE ChatTurn ------------------------------
(***************************************************************************)
(* One turn of the analysis chat: the graph run of GraphRun composed with  *)
(* the assistant's message, the budget reservation of the turn, the usage  *)
(* record and the totals they feed (analysis_chat_handler.py,              *)
(* budget_reservation_audit.py, analysis_chat_service.py and the           *)
(* settlement in tasks/ai_orchestration.py).                               *)
(*                                                                         *)
(* The provider is called between two committed transactions, so that a    *)
(* cancellation, a recovery of the run or a second worker may come between *)
(* any two of them.  Every action is one transaction (or the call itself)  *)
(* and is an action of GraphRun on the run's own variables.                *)
(***************************************************************************)
EXTENDS GraphRun

VARIABLES
    message,     \* ai_analysis_messages.status of the assistant's message
    reservation, \* ai_budget_reservations.status; RESERVED with an amount is
                 \* written ACTIVATED
    usage,       \* the turn has an ai_usage_records row
    tokens,      \* message.tokens_input, tokens_output, cost_usd are set
    resulted,    \* message.ai_result_id is set
    totals,      \* times the usage was added to the conversation's totals
    monthly,     \* times it was added to the provider key's month
    calls,       \* requests sent to the provider
    written,     \* the governed change of the turn has been committed
    call         \* per worker: how far its provider call is

ledgerVars == <<message, reservation, usage, tokens, resulted, totals, monthly,
                calls, written>>
turnVars   == <<vars, ledgerVars, call>>

TerminalMessage == {"COMPLETED", "FAILED", "CANCELLED"}
ActiveMessage   == {"QUEUED", "STREAMING", "INTERRUPTED"}
Unattempted     == {"RESERVED", "ACTIVATED"}
CallSteps       == {"none", "prepared", "started", "answered", "errored",
                    "reconciled"}

(* A turn that never reaches a provider: a child analysis, or a proposal    *)
(* that is derived without one.                                             *)
ZeroCost == \A n \in DOMAIN Nodes : Nodes[n] # "provider"
AtKind(w, kind) == AtNode(w) /\ Nodes[pos[w] + 1] = kind

ASSUME TurnGraphsAssumption == \A g \in Graphs : g.handler = "chat"

(* Every path of the chat graph persists the answer, and no gate follows.   *)
ASSUME TurnPathsAssumption ==
    \A g \in Graphs :
        /\ \E n \in 1..Len(g.nodes) : g.nodes[n] = "persist"
        /\ \A n, m \in 1..Len(g.nodes) :
              g.nodes[n] = "persist" /\ g.nodes[m] = "gate" => m < n

TurnTypeOK ==
    /\ TypeOK
    /\ message \in TerminalMessage \union ActiveMessage
    /\ reservation \in Unattempted \union {"TRANSPORT_STARTED",
                          "TRANSPORT_ERROR", "RECONCILED", "RELEASED"}
    /\ usage \in BOOLEAN /\ tokens \in BOOLEAN /\ resulted \in BOOLEAN
    /\ written \in BOOLEAN
    /\ totals \in Nat /\ monthly \in Nat /\ calls \in Nat
    /\ call \in [Workers -> CallSteps]

TurnInit ==
    /\ Init
    /\ message = "QUEUED" /\ reservation = "RESERVED"
    /\ usage = FALSE /\ tokens = FALSE /\ resulted = FALSE /\ written = FALSE
    /\ totals = 0 /\ monthly = 0 /\ calls = 0
    /\ call = [w \in Workers |-> "none"]

-----------------------------------------------------------------------------
(* Parts of the transactions.                                               *)

(* Every node transaction refuses a cancelled message and writes STREAMING  *)
(* unless the message has its final status.                                 *)
Streaming == IF message \in TerminalMessage THEN message ELSE "STREAMING"
Stream == message # "CANCELLED" /\ message' = Streaming

(* The usage is copied to the message and, the first time, to the totals.   *)
Attribute ==
    /\ tokens' = (tokens \/ usage)
    /\ totals' = IF usage /\ ~tokens THEN totals + 1 ELSE totals

At(w, step) == call' = [call EXCEPT ![w] = step]

(* _mark_failed for a chat request.                                         *)
AfterFailure ==
    CASE reservation \in Unattempted         -> "RELEASED"
      [] reservation = "TRANSPORT_STARTED"   -> "TRANSPORT_ERROR"
      [] OTHER                               -> reservation

Settle ==
    /\ message' = "FAILED"
    /\ Attribute
    /\ reservation' = AfterFailure
    /\ UNCHANGED <<usage, resulted, monthly, calls, written>>

(* The run is failed by this step, or it already was terminal.              *)
SettleFailure == IF status' = "FAILED" /\ status # "FAILED"
                 THEN Settle ELSE UNCHANGED ledgerVars

-----------------------------------------------------------------------------
(* The provider node, in the order of _handle_provider_node.                *)

(* _prepare: the placeholder reservation of the turn is activated once, and *)
(* a turn whose reservation was activated before is not retried.            *)
Prepare(w) ==
    /\ AtKind(w, "provider") /\ call[w] = "none"
    /\ Touch(w) /\ Stream
    /\ reservation = "RESERVED" /\ reservation' = "ACTIVATED"
    /\ At(w, "prepared")
    /\ UNCHANGED <<usage, tokens, resulted, totals, monthly, calls, written>>

(* The fence: transport starts under the row lock of a run and a message    *)
(* that are not cancelled.                                                  *)
StartTransport(w) ==
    /\ call[w] = "prepared"
    /\ Touch(w) /\ Stream
    /\ reservation \in Unattempted /\ reservation' = "TRANSPORT_STARTED"
    /\ At(w, "started")
    /\ UNCHANGED <<usage, tokens, resulted, totals, monthly, calls, written>>

(* The request itself: it is answered, or it fails after it was sent.       *)
CallProvider(w) ==
    /\ call[w] = "started"
    /\ calls' = calls + 1
    /\ \E outcome \in {"answered", "errored"} : At(w, outcome)
    /\ UNCHANGED <<vars, message, reservation, usage, tokens, resulted, totals,
                   monthly, written>>

(* mark_transport_error, then ProviderTransportError.  Mutant of            *)
(* RecordError: the reservation may be used once more.                      *)
ErrorMayRetry(w) ==
    /\ call[w] = "errored"
    /\ Raise(w)
    /\ reservation' = IF reservation = "TRANSPORT_STARTED"
                      THEN "RESERVED" ELSE reservation
    /\ At(w, "none")
    /\ UNCHANGED <<message, usage, tokens, resulted, totals, monthly, calls,
                   written>>

RecordError(w) ==
    /\ call[w] = "errored"
    /\ Raise(w)
    /\ reservation' = IF reservation = "TRANSPORT_STARTED"
                      THEN "TRANSPORT_ERROR" ELSE reservation
    /\ At(w, "none")
    /\ UNCHANGED <<message, usage, tokens, resulted, totals, monthly, calls,
                   written>>

(* _reconcile_provider_response: it holds the rows but does not refuse a    *)
(* cancelled turn.  A reservation that a failure has settled meanwhile      *)
(* makes it raise, and the usage is not recorded.                           *)
Over == message = "CANCELLED" \/ status \in Terminal

Reconcile(w) ==
    /\ call[w] = "answered" /\ reservation = "TRANSPORT_STARTED"
    /\ reservation' = "RECONCILED"
    /\ usage' = TRUE /\ monthly' = monthly + 1
    /\ IF Over
       THEN /\ tokens' = TRUE
            /\ totals' = IF tokens THEN totals ELSE totals + 1
            /\ Raise(w) /\ At(w, "none")
       ELSE UNCHANGED <<vars, tokens, totals>> /\ At(w, "reconciled")
    /\ UNCHANGED <<message, resulted, calls, written>>

ReconcileConflict(w) ==
    /\ call[w] = "answered" /\ reservation # "TRANSPORT_STARTED"
    /\ Raise(w) /\ At(w, "none")
    /\ UNCHANGED ledgerVars

(* The answer becomes the result of the node.                               *)
CompleteProvider(w) ==
    /\ AtKind(w, "provider") /\ call[w] = "reconciled"
    /\ HandleNode(w) /\ Stream /\ At(w, "none")
    /\ UNCHANGED <<reservation, usage, tokens, resulted, totals, monthly,
                   calls, written>>

-----------------------------------------------------------------------------
(* The other nodes.                                                         *)

(* Nodes that write no row of the ledger.                                   *)
PlainNode(w) ==
    /\ AtKind(w, "node")
    /\ HandleNode(w) /\ Stream
    /\ UNCHANGED <<reservation, usage, tokens, resulted, totals, monthly,
                   calls, written, call>>

(* execute_governed_proposal_if_confirmed: the change is written in the     *)
(* node's transaction, or its last validation blocks it.                    *)
ExecuteChange(w) ==
    /\ AtKind(w, "execute")
    /\ HandleNode(w) /\ Stream
    /\ written' \in {TRUE, written}
    /\ UNCHANGED <<reservation, usage, tokens, resulted, totals, monthly,
                   calls, call>>

(* _persist_answer.  Without a recorded usage and a reconciled reservation  *)
(* it raises.                                                               *)
CountOnce == totals' = IF resulted THEN totals ELSE totals + 1

Persist(w) ==
    /\ AtKind(w, "persist")
    /\ ZeroCost \/ (usage /\ reservation = "RECONCILED")
    /\ HandleNode(w) /\ message # "CANCELLED"
    /\ message' = "COMPLETED"
    /\ usage' = TRUE /\ reservation' = "RECONCILED"
    /\ tokens' = TRUE /\ resulted' = TRUE
    /\ CountOnce
    /\ UNCHANGED <<monthly, calls, written, call>>

(* Any node transaction may raise and is rolled back; so is what a node     *)
(* does when the run is terminal.  The node's timeout raises wherever its   *)
(* provider call is, and then nobody marks the transport (CancelledError is *)
(* no Exception).                                                           *)
TurnRaise(w) ==
    /\ Raise(w) \/ RefuseNode(w)
    /\ At(w, "none")
    /\ UNCHANGED ledgerVars

-----------------------------------------------------------------------------
(* The end of an execution, and what the run does apart from its nodes.     *)

TurnFails(w) ==
    /\ RecordFailure(w) /\ SettleFailure
    /\ UNCHANGED call

(* _mark_terminal: a message that still waits for its human was rejected.   *)
(* Mutant of TurnCompletes: only the run is written.                        *)
CompletesQuietly(w) ==
    /\ RecordCompletion(w)
    /\ UNCHANGED <<ledgerVars, call>>

TurnCompletes(w) ==
    /\ RecordCompletion(w)
    /\ IF status \notin Terminal /\ message = "INTERRUPTED"
       THEN /\ message' = "CANCELLED"
            /\ reservation' = IF reservation \in Unattempted
                              THEN "RELEASED" ELSE reservation
            /\ UNCHANGED <<usage, tokens, resulted, totals, monthly, calls,
                           written>>
       ELSE UNCHANGED ledgerVars
    /\ UNCHANGED call

TurnInterrupts(w) ==
    /\ RecordInterrupt(w)
    /\ message' = IF status \in Terminal THEN message ELSE "INTERRUPTED"
    /\ UNCHANGED <<reservation, usage, tokens, resulted, totals, monthly,
                   calls, written, call>>

(* Steps of GraphRun that touch no row of the turn.                         *)
GraphOnly(w) ==
    /\ Load(w) \/ SaveCheckpoint(w) \/ RecordRaises(w)
    /\ UNCHANGED <<ledgerVars, call>>

TurnCrash(w) ==
    /\ Crash(w) /\ At(w, "none")
    /\ UNCHANGED ledgerVars

(* Deliveries and the periodic tasks may fail the run.                      *)
TurnDelivers(w, m) ==
    /\ Deliver(w, m) \/ AcquireRaises(w, m)
    /\ SettleFailure /\ UNCHANGED call

TurnDispatches == Dispatch /\ SettleFailure /\ UNCHANGED call
TurnRecovers   == Recover  /\ SettleFailure /\ UNCHANGED call

(* AnalysisChatService.cancel: an active message, whatever its run does.    *)
(* Mutant of AfterCancel: a started transport is released as well.          *)
ReleaseStarted ==
    IF reservation \in Unattempted \union {"TRANSPORT_STARTED"}
    THEN "RELEASED" ELSE reservation
AfterCancel == IF reservation \in Unattempted THEN "RELEASED" ELSE reservation

CancelTurn ==
    /\ message \in ActiveMessage
    /\ Cancel \/ (status \in Terminal /\ UNCHANGED vars)
    /\ message' = "CANCELLED"
    /\ reservation' = AfterCancel
    /\ Attribute
    /\ UNCHANGED <<usage, resulted, monthly, calls, written, call>>

Surroundings ==
    /\ \/ \E m \in queue : LoseMessage(m)
       \/ \E c \in locks : LockExpires(c) \/ LockExpiresEarly(c)
       \/ Decide \/ LeaseLapses \/ Stall
    /\ UNCHANGED <<ledgerVars, call>>

TurnExecutes(w) ==
    \/ Prepare(w) \/ StartTransport(w) \/ CallProvider(w) \/ RecordError(w)
    \/ Reconcile(w) \/ ReconcileConflict(w) \/ CompleteProvider(w)
    \/ PlainNode(w) \/ ExecuteChange(w) \/ Persist(w) \/ TurnRaise(w)
    \/ TurnFails(w) \/ TurnCompletes(w) \/ TurnInterrupts(w) \/ GraphOnly(w)

TurnNext ==
    \/ \E w \in Workers : TurnExecutes(w) \/ TurnCrash(w)
    \/ \E w \in Workers, m \in queue : TurnDelivers(w, m)
    \/ TurnDispatches \/ TurnRecovers \/ CancelTurn \/ Surroundings

TurnSpec == TurnInit /\ [][TurnNext]_turnVars

(* As in GraphRun; the provider's call ends, answered or not, because the   *)
(* node has a timeout.                                                      *)
TurnFairness ==
    /\ \A w \in Workers : WF_turnVars(TurnExecutes(w))
    /\ \A w \in Workers : WF_turnVars(\E m \in queue : TurnDelivers(w, m))
    /\ WF_turnVars(\E c \in locks : LockExpires(c) /\ UNCHANGED <<ledgerVars, call>>)
    /\ WF_turnVars(TurnDispatches) /\ WF_turnVars(TurnRecovers)
    /\ WF_turnVars(LeaseLapses /\ UNCHANGED <<ledgerVars, call>>)
    /\ WF_turnVars(Decide /\ UNCHANGED <<ledgerVars, call>>)

FairTurnSpec == TurnSpec /\ TurnFairness

-----------------------------------------------------------------------------
(* The provider is asked at most once for a turn, whatever is redelivered,  *)
(* recovered or executed twice (..._ALREADY_ACTIVATED_NO_RETRY).            *)
BilledOnce == calls <= 1

(* A reservation that was given back belongs to a turn that sent nothing to *)
(* the provider and will not ("never claim that its reservation was         *)
(* released before usage is known").                                        *)
ReleasedIsUnbilled ==
    reservation = "RELEASED" =>
        calls = 0 /\ \A w \in Workers : call[w] # "started"

(* The usage of a turn counts at most once in the conversation and in the   *)
(* provider key's month, although four transactions may attribute it.       *)
UsageCountedOnce == totals <= 1 /\ monthly <= 1

(* The run and the message the user sees end together: no run is over with  *)
(* a message that still streams, waits or says the opposite, unless a lease *)
(* lapsed under a live worker and two of them answered the same gate.       *)
RunAndMessageAgree ==
    stalls = 0 =>
        /\ status = "COMPLETED" => message \in {"COMPLETED", "CANCELLED"}
        /\ status = "FAILED"    => message = "FAILED"
        /\ status = "CANCELLED" => message = "CANCELLED"
        /\ message \in {"FAILED", "CANCELLED"} => status \in Terminal

(* The turn keeps the promise of TurnLedger: whatever is cancelled, failed, *)
(* recovered or executed twice, its reservation is settled once, charged    *)
(* only by the reconciliation of an answer and given back only before the   *)
(* transport started.                                                       *)
Ledger == INSTANCE TurnLedger
              WITH charged <- monthly, counted <- totals, derived <- ZeroCost
ImplementsLedger == Ledger!LSpec

(* While no lease lapsed under a live worker, a committed change was asked  *)
(* for: every gate before a node that executes one was approved, and none   *)
(* of them was rejected.                                                    *)
WritesAreApproved ==
    (stalls = 0 /\ written) =>
        \E n \in 1..Len(Nodes) :
            /\ Nodes[n] = "execute"
            /\ \A g \in 1..(n - 1) : Nodes[g] = "gate" => Approved(g) /\ ~Rejected(g)

(* A change that was committed is not shown to the user as failed when its  *)
(* turn is over.                                                            *)
WriteIsReported == (written /\ status \in Terminal) => message # "FAILED"

(* Unless a lease lapses under a live worker, every turn gets its last word *)
(* as long as humans answer.                                                *)
TurnEnds == [](stalls = 0) => <>[](message \in TerminalMessage)
=============================================================================
