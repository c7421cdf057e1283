# Scalpyn: formal models

Scalpyn is a crypto trading platform: a FastAPI process, Celery workers and a
Celery beat share one PostgreSQL database and one Redis, talk to the Gate.io
exchange over REST and WebSocket, and serve a Next.js frontend. This directory
holds TLA+ models of the parts of its backend (`src/backend/app`) whose
correctness depends on interleavings, failures and retries, TLC configurations
that check them on small instances, and TLAPS proofs of their central theorems.

- [The system](#the-system)
- [Modules](#modules)
- [L3 hand-off](#l3-hand-off-l3outbox-shadowhandoff)
- [WebSocket leader](#websocket-leader-gatewsleader)
- [Persistence queue](#persistence-queue-persistencequeue)
- [AI graph runs](#ai-graph-runs-graphrun)
- [Chat turns](#chat-turns-chatturn)
- [Order execution](#order-execution-orderexecution)
- [Governed changes](#governed-changes-governedchange)
- [Runs](#runs)
- [Proofs](#proofs)
- [Where the code and its documentation disagree](#where-the-code-and-its-documentation-disagree)
- [Not modelled](#not-modelled)
- [Plan](#plan)

To check: `tlc -config L3Outbox.cfg MCL3Outbox.tla` (each configuration names
its module below), `tlapm L3Outbox_proofs.tla`.

## The system

How the parts hand work to each other:

```
 market data ──► schedulers ──► persistence queue ──► workers ──► PostgreSQL
 (REST, WS)          │                                               ▲
     ▲               └─► Celery tasks (dispatch lock in Redis)       │
     │                      │                                        │
 WS leader (Redis lock)     └─► pipeline scan ─► decision + outbox event (one commit)
                                                       │
                              scan worker, monitor ────┴─► shadow trade (L3 hand-off)
                                                                     │
                                        shadow monitor closes ◄──────┘
                              execute_buy, evaluate ─► exchange order ─► trade

 chat API ─► graph run (row, lease, checkpoint) ─► provider call, human gates
                 ▲ dispatch, recovery (beat)          │
                 └── decisions, cancellation          └─► governed change of a
                                                          configuration row ─►
                                                          cached copy in Redis
```

| Component | State it keeps | Operations | What is hard | What makes it correct |
|---|---|---|---|---|
| L3 authorization outbox (`services/l3_authorization_outbox_service.py`) | `l3_authorization_outbox`: status, payload with the processing result | enqueue with the decision, process direct events one by one and consolidation batches per scan, mark processed or retry | two consumers overlap (scan worker and beat), batches are read without locks, crash between commit and mark, unlimited retries | one shadow per decision, answers final and backed by rows, every valid event answered |
| L3 trade consolidation (`services/l3_trade_consolidation.py`) | advisory lock per user, symbol and direction; SUPPRESSED audit rows | rank candidates, lock, re-check, create the winner's shadow, audit the losers, reconcile | the winner's insert races with other groups and direct events; retried groups | one open consolidated position per symbol; every suppression audited |
| Shadow creation (`services/shadow_trade_service.py`, migrations 125 and 141) | `shadow_trades` and its unique indexes | `_create_from_decision`: checks, insert, conflict handling | check-then-insert against concurrent transactions | the indexes decide; no shadow under an inactive profile |
| Profile status (`services/profile_status_service.py`) | `profiles.is_active` | activate, deactivate under a row lock | deactivated while a batch is in flight | no shadow opens after the deactivation commits |
| Gate.io WebSocket leader (`services/gate_ws_leader.py`) | a Redis key with a TTL, a refresh marker, a per-term watermark | acquire, renew, refresh in place or by reconnect, release, shutdown | leases that run out, lost replies, late releases, cancellation at shutdown, refresh requests at any moment | at most one leader, failover, requests honoured, subscriptions kept |
| Gate.io WebSocket client (`websocket/gate_ws_client.py`) | subscriptions, socket, back-off | start, stop, subscribe, diff | reconnects while a diff is applied | subscriptions equal what the leader resolved |
| Persistence queue and workers (`services/persistence/`) | asyncio queue, its unfinished count, the worker tasks | put by category, take, execute in a retried unit of work, drain | full queue, failures after a commit, shutdown with producers still running | join counts exactly, a drain loses nothing, every message settles |
| Application lifespan (`main.py`) | background tasks | start and stop, in order | shutdown order | producers stop before the queue closes |
| Task dispatch lock (`tasks/task_dispatch.py`) | one Redis key per task identity, with a TTL | SET NX EX before publishing, DEL after the run | key expires during a run, unconditional delete, key left by a dead worker | it is an optimisation: work is neither doubled nor starved whatever happens to it |
| Decision event bus | Redis channels | publish, subscribe, dispatch | lost and repeated events | subscribers catch up from the table |
| Pipeline scan (`tasks/pipeline_scan.py`) | watchlists, decisions, snapshots | evaluate the stages, persist, trigger the hand-off | concurrent scans of one watchlist | one decision per candle and profile; event and decision commit together |
| Live order execution (`tasks/execute_buy.py`, `tasks/evaluate_signals.py`, `services/execution_engine.py`) | trades, exchange orders, profile and advisory locks, cooldown keys | walk the candidates, lock, place an order, record it | two overlapping cycles, locks that an audit commit gives up, lost replies | no order for an inactive profile, one trade per symbol under consolidation, every order booked |
| Spot capital and risk limits (`engines/spot_capital_manager.py`, `services/risk_engine.py`) | counts of open positions and money | may a position be opened, in which asset | counted before the loop, used after it | limits hold for the cycle that counted |
| Spot and futures engines (`engines/`) | open positions, thresholds | scan, buy, sell, stop | fills that arrive late or partly | position equals the exchange's |
| Position lifecycle and reconciliation | positions, fills | import fills, reconcile | repeated and reordered fills | idempotent import |
| Shadow monitor and barrier evaluation | running shadows | evaluate candles against barriers, close | candle gaps, both barriers in one candle | first barrier hit decides |
| Public authorization and watchlist publication | published watchlist, authorization expiry | publish, expire | stale publication | nothing expired is published |
| AI graph runs (`tasks/ai_orchestration.py`, `services/ai_graph_service.py`, `ai_orchestration/langgraph/handler.py`) | run row with status, command and lease; interrupts; LangGraph checkpoints | start, resume, execute nodes, stop at gates, fail, recover, dispatch, cancel | two deliveries, a lease that lapses under a live worker, crash between handler commit and checkpoint, cancellation at any moment | a decision is executed once, nothing runs behind an unanswered gate, every run ends |
| Chat turn and its budget (`analysis_chat_handler.py`, `budget_reservation_audit.py`, `analysis_chat_service.py`) | message, budget reservation, usage, totals | reserve, call the provider, reconcile, persist, fail, cancel | the provider is called between two commits | one billed call, usage counted once, no release of money that may be spent |
| Governed changes (`services/governed_change_service.py`) | plan with two cache markers, configuration row | preview, execute, block, roll back, reconcile the cache | stale previews, the cache deleted by another transaction, sessions that decide from an old reading | a stale cached copy is always accounted for, every marker is attempted |
| Configuration service (`services/config_service.py`) | row and its Redis copy | read through, update and invalidate | a late fill, a failed delete | bounded by the TTL |
| Autopilot | statistics, profile versions | evaluate trades, write profiles | computation | numerical tests |
| Orphan transaction watchdog | none (reads `pg_stat_activity`) | terminate idle transactions | - | operational guard |
| Schedulers | timers | collect, compute, enqueue | slow cycles | they are producers of the queue |
| Indicators, scores, ML, profile intelligence | tables of values | numerical computation | - | numerical tests |
| Frontend, integrations | - | HTTP | - | out of scope |

What is hard to test in this code is listed, with file, line and the property
that would notice, under `hazards` in `PROJECT.json`.

## Modules

| Module | Models |
|---|---|
| `L3Outbox` | the outbox, the consolidation, the part of shadow creation they call, and the profile status |
| `ShadowHandoff` | what the outbox promises about one decision; `L3Outbox` implements it |
| `L3Outbox_proofs`, `L3Answers_proofs` | theorems about `L3Outbox`: its rows, and its answers with the refinement |
| `MCL3Outbox` | the instances of `L3Outbox` for TLC |
| `GateWsLeader` | the leader election and the leader's use of the client; it implements `LeaseLock` |
| `LeaseLock` | what the election promises: a key with a lease, terms under it, and WebSockets within a term; `GateWsLeader` implements it |
| `GateWsLeader_proofs`, `MCGateWsLeader` | its theorems and instance |
| `PersistenceQueue` | queue, workers, unit of work and shutdown; it implements `DurableWrites` |
| `DurableWrites` | what the queue promises the database: bounded commits of messages in hand; `PersistenceQueue` implements it |
| `PersistenceQueue_proofs`, `MCPersistenceQueue` | its theorems and instance |
| `GraphRun` | one AI graph run: row, lease, deliveries, dedup keys, workers, gates, checkpoint |
| `ChatTurn` | `GraphRun` composed with message, reservation, usage and totals of a chat turn; it implements `GraphRun` and `TurnLedger` |
| `TurnLedger` | what the budget of a turn promises: one reservation that is settled once; `ChatTurn` implements it |
| `GraphRun_proofs`, `ChatTurn_proofs`, `MCGraphRun`, `MCChatTurn` | their theorems and instances |
| `OrderExecution` | buy cycles, `evaluate`, the engine, profile status |
| `OrderExecution_proofs`, `MCOrderExecution` | its theorems and instances |
| `GovernedChange` | plans, their cache markers, reconciliation, `ConfigService` on one row; it implements `OptimisticChange` |
| `OptimisticChange` | what governed changes promise about one document: compare and set, to and fro; `GovernedChange` implements it |
| `GovernedChange_proofs`, `MCGovernedChange` | its theorems and instance |

Conventions. Every action is one piece of code between two points where another
actor can interfere: a database transaction (or its part between two lock
waits), or in `GateWsLeader` and `PersistenceQueue` a stretch between two
awaits. Every unbounded source of behaviour has a named budget (`MaxFaults`, `MaxChanges`,
`MaxLapses`, `MaxStops`, `MaxTime`, `MaxRows`, `MaxEdits`). A definition whose name is explained by a
comment "Mutant of X" is a plausible bug in X. It is in no
specification; it documents which property would notice the bug.

## L3 hand-off (`L3Outbox`, `ShadowHandoff`)

The scanner commits a decision with its outbox event. Consumers - the worker
that ran the scan, right after it, and the monitor that beat starts - turn an
event into at most one shadow trade and mark the event PROCESSED. An event is
*direct* (processed alone, in one transaction) or a *consolidation* candidate
(all open events of one scan are read together, grouped by symbol and candle,
and the best of each group opens a shadow).

| Variable | Code |
|---|---|
| `status`, `kind`, `result` | `l3_authorization_outbox.status`, event type and shadow requirement, `payload.processing_result` |
| `shadows` | `shadow_trades`: decision, `single_position_enforced`, status, and whether it was created in the current hour bucket |
| `suppressed` | decisions with a SUPPRESSED row in `decisions_log` |
| `active`, `config` | `profiles.is_active`; the user's consolidation and kill-switch settings |
| `expired` | the contract's deadline has passed |
| `work` | a consumer's program counter and local variables, lost in a crash |

| Actions | Code |
|---|---|
| `Persist` | the scan's insert of decision and event |
| `DirectOpen`, `DirectLockProfile`, `DirectCheck`, `DirectCommit` | `process_l3_authorization_outbox` for one direct event: `FOR UPDATE SKIP LOCKED` on the event, the profile's row lock, the other checks of `_create_from_decision` (the advisory lock if consolidation is on), insert and commit |
| `ReadBatch`, `Classify` | `_consolidation_rows` (no lock), then the read of active profiles and settings |
| `GroupLock`, `GroupCheck`, `GroupCommit` | `consolidate_l3_trades` for one group: advisory lock and re-checks, the checks of `_create_from_decision`, the insert with its conflicts and reconciliation |
| `Mark`, `MarkRetry` | `_mark_processed` for one event, `_mark_retry` for a failed batch |
| `DirectError`, `GroupError`, `BatchError`, `Crash`, `DeadlockVictim` | an exception in each of those transactions, the death of the process, PostgreSQL's choice in a deadlock |
| `CloseShadow`, `Expire`, `NextHour`, `SetProfileStatus`, `SetConfig` | the rest of the system |

Which locks matter: a direct hand-off holds the event's row, then the profile's
row, then waits for the advisory lock; a consolidation holds the advisory lock,
then waits for the profile's row. Locks are not variables: who holds what
follows from the consumers' program counters (`EventLocked`, `ProfileLocked`,
`AdvisoryLocked`). The two orders can deadlock, and the deadlock is modelled
with its victim.

The unique indexes are modelled where they decide: `Conflicts` is the insert's
`ON CONFLICT` against the decision's own shadow, the hour bucket and running row
of the profile and symbol, and the enforced running row of the symbol
(migration 141).

Properties: no decision is captured twice (`OneShadowPerDecision`); one open
consolidated position per symbol (`OneConsolidatedPosition`); `CREATED` is
backed by a shadow (`CreatedIsBacked`) and `SUPPRESSED` by an audit row
(`SuppressionIsAudited`); shadow and answer of a direct event commit together
(`DirectIsAtomic`); an answer is final (`AnswerIsFinal`); no shadow opens under
an inactive profile (`CaptureUnderActiveProfile`); every event that can be
answered is (`EveryEventAnswered`).

`ShadowHandoff` is the promise about one decision without consumers, locks or
retries: absent, requested, then captured or declined. It has one weakness that
the code really has: a *batched* decision that was declined can still be
captured (`LateCapture`), because a group is consolidated from rows read
earlier. `ImplementsHandoff` maps a decision with a shadow to captured and one
answered without a shadow to declined.

Abstractions:

- One user, direction SPOT and source L3: all keys carry them as equal parts.
- Attempt count, last error and `available_at` (two minutes after the insert at
  first) are left out; a delay only restricts when a consumer may start, and the
  model lets it start at any time.
- The consumer's selection of rows and the second read of each scan's rows are
  one step. Selection order and batch limit are left out, so that the hazard of
  a full batch of permanently failing events that starve the others is listed
  but not checked.
- The radar pool may always refuse a symbol, so its answer is a choice. A
  missing entry quote raises and is a transient error.
- The check of the expiry is between the lock and the insert; the deadline may
  pass after it, in the code as in the model.
- Audit rows are a set: their deduplication by group key is not modelled.
- `Required` decisions ask for a shadow; all decisions of the instances do, and
  the observed events that do not are answered by the branch
  `NO_SHADOW_REQUIRED` of the direct path.
- Prices, barriers, features and lineage are data. Of a contract only
  whether it validates (`Malformed`) is kept.

Two consequences worth knowing. With consolidation off, a direct shadow
may open beside a consolidated one, so `OneConsolidatedPosition` speaks of the
rows opened under consolidation. And `_consolidation_processing_result` compares
profile ids, so two evaluations of one profile in a group are both reported
`CREATED_OR_RECONCILED`: `CreatedIsBacked` asks for a shadow of the profile.

Fairness. Celery keeps running a consumer it has started (WF of `Advance`);
PostgreSQL aborts one side of every deadlock (WF of `DeadlockVictim`); its lock
queues are first come, first served, so a transaction is not overtaken for ever
on its last lock (SF of `Check`); a pass of the monitor goes over every event
and scan it selected (SF of the starts). Nothing is assumed about the
environment, and faults are never forced.

## WebSocket leader (`GateWsLeader`)

Every replica of the backend runs a supervisor. One of them holds a Redis key
with a TTL, and it alone keeps the WebSocket to the exchange.

| Variable | Code |
|---|---|
| `lock` | the Redis key, or nobody |
| `pc` | where a replica's supervisor is: booting, candidate, resolving symbols, starting the client, serving, reading or applying an in-place diff, leaving (WebSocket still open), releasing, stopped, dead |
| `subs`, `found`, `watermark` | the client's subscriptions, the symbols just resolved (a version of the pool; 0 is the empty list), `_serve_started_ms` |
| `pool`, `clock` | the version of the symbol pool, the wall clock, which ticks when the pool changes |
| `marker`, `asked` | the refresh marker in Redis, and the pool it was about |
| `lapsed`, `stopping` | the lease ran out under its owner; shutdown was asked for |

| Actions | Code |
|---|---|
| `Boot`, `Acquire`, `Resolve`, `StartWs` | bootstrap, `_try_acquire_leader` (whose reply may be lost), the symbol queries, `start` of the client and the watermark |
| `RefreshRequested`, `ReadDiff`, `ApplyDiff` | `_refresh_requested` (a marker above the watermark), `_try_in_place_refresh` |
| `LoseLease`, `RenewFails`, `Leave`, `StopWs`, `Release` | the compare-and-expire renewal that fails, an error, the end of a term, closing the client, the compare-and-delete release |
| `Cancel`, `Shutdown`, `Crash` | cancellation 15 s after a shutdown began, the shutdown, the end of a process |
| `Lapse`, `OrphanExpires` | the TTL runs out under a live owner (budgeted) or a dead one |
| `ChangePool`, `RequestRefresh` | symbols change; `refresh_subscriptions` |

Properties: two open WebSockets only after a lease lapsed under one
of the leaders, and at most one more per lapse (`OneLeader`), which rests on
`TermIsLeased` (a replica in its term has the key unless its lease lapsed); the
election implements `LeaseLock` (`ImplementsLease`); a leader whose lease lapsed closes its WebSocket
(`StaleLeaderStepsDown`); some replica serves again and again as long as one
lives (`SomeoneServes`); refreshes settle once requests end
(`RefreshSettles`).

`LeaseLock` knows the owner of the key, the terms (none, leased, late), what is
open within them and the lapses. A key is won when it is free; it is taken from
its owner only by the owner's `Resign`, once nothing of it is open, or by the
TTL, which makes a live term late (`ExpireLate`) or clears the key of a replica
without a term (`ExpireOrphan`). What a replica does when it dies or is cancelled
(`Die`) leaves the key alone. Supervisors, symbols, refreshes and the reasons for
leaving do not appear.

Abstractions: the TTL is not counted, a lapse is an event; the millisecond
clock is the same for all replicas (skew is a listed hazard); the symbol lists
of futures and spot are one pool version; the handover tombstone, from which
`order_flow_service` marks windows as partial and which the election never reads,
and the TTL of the refresh marker are left out; the client's own
reconnects are left out; a Redis call that fails without effect and is retried
is a stutter.

Fairness: the event loop runs each live supervisor and its renewal loop (WF of
`Lead`, `Serve` and `GiveUp` per replica), which presumes that Redis can be
reached in the end, and Redis expires the keys of owners that do not renew (WF
of `OrphanExpires`).

## Persistence queue (`PersistenceQueue`)

Schedulers hand their writes to a bounded asyncio queue; a pool of workers
executes each in a transaction that is retried after a transient error.

| Variable | Code |
|---|---|
| `queue`, `unfinished` | the `asyncio.Queue` and its count of unfinished tasks, on which `join` waits |
| `stage` | where each message is, or how it was settled |
| `job`, `attempt`, `exited` | the worker's message, the attempt of `run_uow`, whether its loop ended |
| `producing`, `phase`, `timedOut` | the lifespan: schedulers run; the pool is running, draining, stopping, stopped; the drain ran out of time |
| `row`, `applied` | which message wrote each column last, how often each message was committed |

| Actions | Code |
|---|---|
| `Put`, `PutResumes`, `PutTimesOut` | `PersistenceQueue.put`: closed check, block, block with a timeout, or evict, by category |
| `Take`, `Succeed`, `TransientError`, `CommitUnheard`, `PermanentError` | the worker's loop and the outcomes of `run_uow`: a commit, a rollback, a commit whose answer is lost, an integrity error or unknown message |
| `StopProducers`, `Close`, `Drained`, `DrainTimesOut`, `CancelWorker`, `Stop` | the lifespan's `finally` block and `stop_workers` |

Properties: the unfinished count is the number of messages in the queue and in
the workers' hands (`JoinIsExact`); a drain in time has lost and refused nothing
(`DrainLosesNothing`); a column that one message wrote keeps its value whatever
else is written to the row (`DisjointFieldsSurvive`); the queue implements
`DurableWrites` (`ImplementsWrites`); every message settles
(`EveryMessageSettles`); every shutdown ends (`ShutdownEnds`).

`DurableWrites` is the queue as the database sees it: messages that wait, are in
hand, or ended as done, dropped or unknown. Only a message in hand is committed,
and at most `MaxAttempts` times; done is reached by a commit alone, dropped only
from waiting. A message that failed or was lost is unknown: its
last attempt, or an earlier one, may have been committed unheard. Queue, slots,
evictions, attempts, workers and the phases of the shutdown do not appear.

The closed check of `put` can only be reached when a scheduler outlives
the closing of the queue; the lifespan stops the schedulers first, so the branch
never runs, and `CloseFirst` shows what would happen in the other order.

Abstractions: among several blocked producers any may get the free slot; a
column of one row stands for each field a message carries; per-category depth
counters (metrics) and the message type for reconciled trades, which nothing
produces yet, are left out. An upsert takes effect at its commit. When the
process dies, the queue is lost with it, by design. The workers are those of the
FastAPI process: Celery tasks enqueue into a queue of their own process that no
worker drains when `USE_PERSISTENCE_QUEUE` is on, which is a listed hazard.

Fairness: the event loop runs workers and waiting producers; a shutdown goes on
and cancels workers that have not ended. Timeouts other than that one, and all
failures, are not forced.

## AI graph runs (`GraphRun`)

A run is a durable row that the API inserts and Celery workers execute as a
LangGraph graph. Its messages are at-least-once, a worker may die or outlive its
lease, and a graph stops at gates until a human decides. Runs share nothing but
the workers, so one run is modelled; a graph is the sequence of nodes of one
path, and a node is one handler transaction or a gate.

| Variable | Code |
|---|---|
| `status`, `command`, `lease`, `rows` | `ai_graph_runs.status`, its dispatch tuple (START or RESUME of an interrupt), `lease_expires_at`, `ai_graph_interrupts` |
| `ckpt`, `effects` | the newest checkpoint (external), how often each node's transaction has committed |
| `queue`, `locks` | messages in the broker, dedup keys in Redis |
| `pc`, `msg`, `pos` | per worker: where it is, its message, its in-memory graph state |
| `cancelling` | the API's unlocked cancel is between its read and its write |

| Actions | Code |
|---|---|
| `Acquire`, `AcquireFenced`, `Noop`, `AcquireRaises` | `_acquire_run`, `_dispatch_matches` and the fence for a START with gate history |
| `Load`, `HandleNode`, `Touch`, `RefuseNode`, `SaveCheckpoint`, `Raise` | `ainvoke`, the handlers with the lock they begin with, the checkpointer |
| `RecordCompletion`, `RecordInterrupt`, `RecordFailure`, `RecordRaises` | `_mark_terminal`, `_mark_interrupted`, `_mark_failed`, and a failure that cannot be written |
| `Dispatch`, `Recover` | `dispatch_queued_graph_runs`, `recover_stale_graph_runs` |
| `Resume`, `Cancel`, `ReadToCancel`, `WriteCancel` | the API: decisions, and the cancellations with and without a row lock |
| `Enqueue`, `Release`, `LockExpires`, `LockExpiresEarly` | `task_dispatch`: SET NX, the delete after the task, the TTL |
| `LoseMessage`, `LeaseLapses`, `Stall`, `Crash` | the broker, time, a worker slower than its lease, a worker that dies |

Properties: a decision is executed at most once (`DecisionsTakenOnce`); two
workers execute the run at once only after a lease lapsed under a live one
(`ExclusiveUnlessStalled`); a node's transaction is repeated only by a fault
(`RepeatsAreFaults`), a node behind a gate runs only if a human approved
that gate and none rejected it (`GatesGovern`), and a decision reaches the graph at the gate it was
given for (`AnswersMeetTheirGate`), all three as long as no lease lapsed under a
live worker;
a terminal chat run stays so (`TerminalIsFinal`); every run ends (`RunEnds`).

The premise `stalls = 0` is the code's own assumption: the lease is longer than
the node timeouts, and each handler renews it. `TerminalIsFinal` is stated for
chat runs, because the canonical handler refuses only a cancelled run: a node
that starts after the recovery has failed its run writes RUNNING again.

Abstractions: the branch of a gate that ends the graph (reject, and edit at the
approval gate of a proposal) is `REJECTED`, any other decision `RESOLVED`; the
keys of publications are their commands; a message is in the broker or not, so
that two equal messages count as one; idempotency keys of the API make a
repeated call a stutter. LangGraph derives the id of an interrupt from the
checkpoint it is raised from, so the insert of an interrupt never meets its own
key (external).

Fairness: a live worker goes on with its graph and an idle one takes what is
queued (WF per worker); beat runs both periodic tasks, keys and leases expire, an
API call that has begun ends, humans answer (WF each). `Cancel`, `Raise` and all
faults are never forced.

## Chat turns (`ChatTurn`)

One turn of the analysis chat is a run with a message, a budget reservation, a
usage record and two totals. Each action of `ChatTurn` is one transaction and
conjoins the action of `GraphRun` that it is on the run's row, with what it does
to the ledger.

| Variable | Code |
|---|---|
| `message`, `tokens`, `resulted` | the assistant's `ai_analysis_messages`: status, usage columns, `ai_result_id` |
| `reservation` | `ai_budget_reservations.status`; `ACTIVATED` is RESERVED with an amount |
| `usage`, `totals`, `monthly` | `ai_usage_records`, the conversation's totals, the provider key's month |
| `calls`, `call`, `written` | requests sent, where each worker's call is, the governed change is committed |

| Actions | Code |
|---|---|
| `Prepare`, `StartTransport`, `CallProvider`, `RecordError`, `Reconcile`, `ReconcileConflict`, `CompleteProvider` | `_handle_provider_node`: activation of the reservation, the fence, the request, `mark_transport_error`, `_reconcile_provider_response`, the node's result |
| `PlainNode`, `ExecuteChange`, `Persist`, `TurnRaise` | the other node transactions |
| `TurnFails`, `TurnCompletes`, `TurnInterrupts`, `CancelTurn` | the settlements in `_mark_failed`, `_mark_terminal`, `_mark_interrupted` and `AnalysisChatService.cancel` |
| `TurnDelivers`, `TurnDispatches`, `TurnRecovers`, `TurnCrash`, `Surroundings`, `GraphOnly` | the steps of `GraphRun`; those that fail the run settle the turn |

`TurnLedger` is the promise about the money, without runs, workers, leases or
messages: a reservation is activated, started and reconciled with the one answer
of the provider; it is given back only before it is started; the charge comes
with the reconciliation, and the conversation counts the usage then or later,
once. The refinement maps the month's total to `charged`, the conversation's to
`counted` and a path without a provider (`ZeroCost`) to `derived`. What the code
does around it - four transactions that attribute usage, the row locks of two
workers, retries and cancellations - maps to one of its steps or to none.

Properties: the turn implements that ledger (`ImplementsLedger`), so that the
provider is asked at most once (`BilledOnce`) and the usage counts once
(`UsageCountedOnce`); a reservation is given back only if nothing was and will be
sent (`ReleasedIsUnbilled`), which also looks at the requests about to be sent;
a committed change was approved at every gate before it and rejected at none, as
long as no lease lapsed under a live worker (`WritesAreApproved`); run and message end alike
(`RunAndMessageAgree`); every turn ends (`TurnEnds`). The composition is still a
`GraphRun` (a theorem, below), so that whatever holds of a run holds of a turn.

Abstractions: a call that is split over shards is one call, with the usage of
all shards up to the first that fails; evidence, prompts and validation decide only
whether a node raises; amounts are left out, and a total is the number of times
the usage was added to it.

What the code leaves open, and the model shows when the bound is raised or the
property is changed: an answer that arrives after a failure has settled the
reservation is never recorded (`ReconcileConflict`); a cancelled turn whose
worker dies during the call keeps `TRANSPORT_STARTED`; a rejection at the second
gate cancels the message without attributing usage that is already recorded.

## Order execution (`OrderExecution`)

Two Celery tasks buy: `execute_buy_cycle` and `evaluate`. Both walk their
candidates with one session and call the engine, which counts the positions,
takes the advisory lock under consolidation, places the order and commits the
trade. What makes this hard is that the row lock of the winning profile belongs
to the *transaction*: every commit on the way, such as that of an audit row,
gives it up, and an early return does not.

| Variable | Code |
|---|---|
| `active`, `held` | `profiles.is_active`; the profile rows each cycle's transaction has locked |
| `bought`, `signalled`, `unbooked` | active trades per symbol by origin; orders taken by the exchange that no trade records |
| `cooldown`, `live`, `single` | cooldown keys in Redis; live or paper pool; `l3_single_profile_per_symbol_enabled` |
| `pc`, `symbol`, `profile`, `buys`, `attempts` | a cycle's progress |

| Actions | Code |
|---|---|
| `Begin`, `End`, `Skip`, `SkipWithShadow`, `WriteShadow` | the loop, its position count, the skips with an audit row or with a shadow written by another session |
| `CheckSymbol` | a buy cycle looks at the symbol's cooldown and active trades, before it locks |
| `LockProfile`, `ProfileInactive`, `Approve`, `Relock` | `SELECT ... FOR UPDATE` on the profile, the approval's commit in `evaluate`, and the second lock before the order |
| `EngineRefuses`, `CountPositions`, `AlreadyTraded`, `Place` | `execute_trade` up to the order |
| `OrderAccepted`, `OrderRefused`, `OrderUnanswered`, `Record`, `RecordFails` | the order with its retries, and the commit of trade and order |
| `Abort`, `Killed` | an exception of the cycle, the end of its process |
| `SetStatus`, `Close`, `CooldownEnds` | `apply_profile_status`, `close_trade`, the TTL |

Properties: from the second lock to the commit the profile is active and locked
by the cycle, so that no order is sent for a profile that is switched off
(`NoLateOrder`); under consolidation the buy cycles never have two active trades
of a symbol (`OneTradePerSymbol`); every order is booked, about to be booked, or
paid for by a fault (`OrdersAreBooked`). The code does not keep its limits on
positions: the engine counts before its order, and the cycle once before its
loop. `OverrunIsBounded` says by how much they can be missed: by less than one
position per cycle past the engine's limit, and past the cycle's by less than
what all cycles may still buy. In the instance of the run the first bound is the
tighter one and implies the second, which the theorem shows for limits where it
is not.

`OneTradePerSymbol` counts the trades of buy cycles only: `evaluate` does not
hand the consolidation flag to the engine, so its trades are checked against
nothing. No liveness is stated: a cycle is a task that is started again by beat,
and nothing waits for it.

Abstractions: exits are the one action `Close`; the cooldown and the trades of a
symbol are looked at in one step (`CheckSymbol`), before the lock; scores, filters and amounts only
decide whether a candidate is skipped; the order of the candidates is their sort
order; locks of the shadow writer are taken and given up within `WriteShadow`.
All open trades have one status: where the Spot engine (not modelled) runs for
the same user, it turns `open` trades into `ACTIVE` or `HOLDING_UNDERWATER`,
which the engine's count of `open` trades does not see, and `OverrunIsBounded`
says nothing of that.

## Governed changes (`GovernedChange`)

A plan is previewed from a document, executed by the graph node of an approved
proposal, and perhaps rolled back. The copy of the row in Redis is deleted by a
separate transaction. A marker in the plan (`EXECUTION` or `ROLLBACK`) asks for
it until it succeeds or has used up its attempts.

| Variable | Code |
|---|---|
| `doc`, `untouched`, `cache` | `config_profiles.config_json`; the plans whose preview is still up to date (`updated_at`); the Redis copy |
| `plan` | status, source document and the two markers in `execution_result` |
| `work` | a session: its next step, and the plan as its identity map holds it |
| `queue` | reconcile messages |
| `strays`, `clobbered` | history: cache entries without a marker; a plan written from an outdated reading |

| Actions | Code |
|---|---|
| `Preview`, `Execute`, `ExecuteAgain`, `Block`, `AskRollback`, `Rollback`, `RefuseRollback` | `create_dry_run`, `approve_and_execute`, `rollback` |
| `Dispatch`, `Deliver`, `Attempt`, `NothingToDo` | `claim_due_cache_reconciliations`, the task, `reconcile_execution_cache`, `reconcile_rollback_cache` |
| `Edit`, `Drop`, `Miss`, `Fill`, `Expire` | `ConfigService.update_config`, `get_config`, the TTL |
| `Crash`, `LoseMessage` | a process that dies, the broker |

Properties: a stale cached copy is accounted for by a marker that asks for its
removal or by the update that is about to delete it (`StaleCacheIsTracked`); the
plans implement `OptimisticChange` (`ImplementsChange`); each marker that asks is
attempted until it has settled (`MarkersSettle`).

`OptimisticChange` knows only the document, how far each change is and the
document it was proposed for. `Apply` replaces exactly that document by the
candidate and `Revert` exactly the candidate by that document, each once and
from the phase before it. Sessions, locks, outdated readings, caches, markers and
crashes are stutters. It has one weak action, `RevertAgain`: a rollback decides
from the status its session has read, so a second one that was asked for before
the first was done is done too when the document is the candidate again, and undoes
newer work. Without that action TLC refutes the refinement.

`StaleCacheIsTracked` has two excuses, which are what the code really permits. A
*stray* has no marker: a reader fills the cache after the write it missed, or
`update_config` cannot delete. *Clobbered*: SQLAlchemy does not refresh a plan
that the session has read when it selects it again `FOR UPDATE`, so a late
EXECUTION attempt of a plan that was rolled back meanwhile writes
`execution_result` from its old reading and erases the ROLLBACK marker. In both
cases the copy stays until its TTL of an hour. After the last attempt a marker
stays `REQUIRED`, and so does the copy.

Fairness: sessions go on, beat dispatches what is due, workers take what is
queued. Back-off and dispatch lease only say when and are left out.

## Runs

| Run | Module, configuration | Result | Question |
|---|---|---|---|
| `l3_safety` | `MCL3Outbox`, `L3Outbox.cfg` | holds, 971 000 states | safety of the hand-off and its refinement |
| `l3_contention` | `MCL3Outbox`, `L3OutboxContention.cfg` | holds, 67 000 states | liveness when a direct and a consolidated hand-off can deadlock |
| `l3_poison` | `MCL3Outbox`, `L3OutboxPoison.cfg` | holds, 49 000 states | liveness beside an event that fails for ever |
| `gate_election` | `MCGateWsLeader`, `GateWsLeader.cfg` | holds, 132 000 states | election, failover, refreshes that settle |
| `gate_emptied` | `MCGateWsLeader`, `GateWsEmptied.cfg` | violated | are subscriptions kept when a query fails |
| `pq_safety` | `MCPersistenceQueue`, `PersistenceQueue.cfg` | holds, 136 000 states | queue, workers and shutdown |
| `graph_run` | `MCGraphRun`, `GraphRun.cfg` | holds, 1 891 000 states | a run under redelivery, crashes, lapsed leases, cancellation |
| `chat_turn` | `MCChatTurn`, `ChatTurn.cfg` | holds, 245 000 states | money, writes and messages of a turn; it implements `TurnLedger` |
| `chat_written` | `MCChatTurn`, `ChatTurnWritten.cfg` | violated | can a turn whose change was committed end as failed |
| `orders` | `MCOrderExecution`, `OrderExecution.cfg` | holds, 2 067 000 states | orders and limits under profile changes and overlapping cycles |
| `order_skip` | `MCOrderExecution`, `OrderExecutionSkip.cfg` | violated | can a cycle wait for its own lock |
| `governed` | `MCGovernedChange`, `GovernedChange.cfg` | holds, 636 000 states | documents, markers and the cached copy; it implements `OptimisticChange` |

The longest run, `graph_run`, takes two and a half minutes with two workers, the
others at most two minutes. Deadlock is not checked: each model may come
to rest (all events answered, the run over, the process ended), and being
stuck short of that is what the liveness properties exclude. The type
invariants (`TypeOK`, `TurnTypeOK`), that `ChatTurn` implements `GraphRun`, and
what `ImplementsLedger` implies (`BilledOnce`, `UsageCountedOnce`) are proved, and
checked by no run as well.

Why the bounds are enough. `l3_safety`: two decisions of two profiles for one
symbol and candle are the smallest group with a loser, two consumers the
smallest overlap (a third would be a second beat pass; what it can do the
other two do in sequence, since a consumer may start over), two faults allow a
crash followed by an error of the retry, and one change lets each environment
event happen against every state. The same run with two changes and one fault
also holds (2.8 million states). The consumers are interchangeable, and
this run has no liveness property, so they are a symmetry set. `l3_contention`
puts a direct and a consolidated event under one profile, the only way to reach
the deadlock, with one change but no faults, since faults only repeat what a
deadlock's victim already does. `l3_poison` puts the malformed event in a scan
of its own. `gate_election`: two replicas, so that each has one successor, two
faults (a lost reply and then a crash, or two in either replica), one lapse
(the property allows overlaps only after it, more lapses only weaken the claim)
and one shutdown. `pq_safety`: one slot makes every put meet a full queue, two
workers race, four messages cover the three ways to put, an insert-only write,
two writers of overlapping columns and one of a column of its own; two attempts
instead of the code's three make exhaustion happen within two faults.
`graph_run`: in the chat the path of a proposal, with its two gates, the call
between them and the write behind, and a canonical path with a gate before its
node; two workers are the smallest overlap; two faults let a redelivery follow a
crash, or two leases lapse; two interrupts are those of the two gates, or let one
gate be raised twice. `chat_turn`: the three paths have a
call without gate, a gate without call, and a proposal with both of its gates; one fault, because each
property survives the loss of its first safeguard and the state of `GraphRun`
with two is covered above. `orders`: two buy cycles race with each other and
with `evaluate`; two symbols let a cycle come to its second candidate with what
it held for the first, two profiles let it hold two rows; two attempts make a
retry and its exhaustion happen. The engine's limit is below that of the cycle,
so that the bound on its overrun (fewer than four positions) is tight: three
cycles that have all counted none open one each. `governed`: one plan has both markers, one
worker and two sessions make a stale execution attempt meet a rollback, one
update and one fault.

## Proofs

Each `_proofs` module has one inductive invariant and one step per action in
its preservation proof. All theorems hold for any constants that satisfy the
named assumptions of the module.

**`L3Outbox_proofs`**, from `ConstantsAssumption`. `IInv` is the conjunction of

- `TypeOK` and `KindOK` (no kind before the insert);
- `WorkOK`: what a consumer relies on without re-reading is still true - the
  event of a direct transaction is open and is not a batch's, the events of a
  batch are consolidation events, and the profile of a transaction about to
  insert is active, because its row is locked;
- `EventsExclusive`: no two direct transactions hold one event;
- `RowsOK`, `OneEnforced`, `OneShadowPerDecision`: shadows belong to persisted
  decisions, batch shadows are enforced, and the two indexes hold.

The properties alone are not inductive: that an answer is final needs that a
direct transaction holds an *open* event, which needs the row lock to exclude
others; one consolidated position needs that a batch's shadow is always
enforced. Theorems: `Invariance`, `TypeCorrect`, `AtMostOneShadow`
(`OneShadowPerDecision`), `AtMostOneConsolidated` (`OneConsolidatedPosition`),
`AnswersAreFinal` (`AnswerIsFinal`), `CapturesUnderActiveProfile`
(`CaptureUnderActiveProfile`).

**`L3Answers_proofs`**, about what the answers say. `AInv` adds to that `IInv`

- `AnswersOK`: an event without a kind or still open has no answer, and
  `DirectIsAtomic`, `SuppressionIsAudited` and `CreatedIsBacked`;
- `VerdictsOK`: what a batch consumer remembers about its groups is already
  true, because the transaction of a group has committed before the first of its
  events is marked;
- `BatchesInserted`: the events of a batch exist.

`CreatedIsBacked` is not inductive without `VerdictsOK`: `Mark` writes an answer
from a consumer's memory, transactions after the shadow. Every step has one of
five effects on answers and rows (`Quiet`, `AnswersOnly`, `CapturesDirect`,
`CapturesBatched`, the scan's `Persist`), and rows only grow, so that each
conjunct is shown for five effects and not for every action. The same effects
are the request, decline, capture, late capture and stutter of `ShadowHandoff`.
Theorems: `AnswersInvariance`, `CreatedIsAlwaysBacked` (`CreatedIsBacked`),
`DirectHandoffIsAtomic` (`DirectIsAtomic`), `SuppressionIsAlwaysAudited`
(`SuppressionIsAudited`), and the refinement `OutboxImplementsHandoff`
(`ImplementsHandoff`).

**`GateWsLeader_proofs`**, from the module's assumption on the bounds and
on replicas (a finite set, because `OneLeader` counts them). `IInv` is `TypeOK`,
`TermIsLeased` and `LapsesAreCounted`: two replicas in their terms cannot both
own the key, so all but one of them have lapsed, and the lapsed terms are at most
as many as the leases that ran out. Theorems: `Invariance`,
`TypeCorrect`, `TermsAreLeased` (`TermIsLeased`), `AtMostOneLeader`
(`OneLeader`), `ElectionImplementsLease` (`ImplementsLease`). The refinement maps
each step, most to a stutter (`QuietSteps`); it needs `LateIsKeyless` (a late
term has no key) to map `Lapse`, and that invariant in turn follows from the abstract
steps (`LateStays`).

**`PersistenceQueue_proofs`**, from `MessageAssumption`, `WorkerAssumption`
(finitely many workers) and `SizeAssumption`. `IInv` adds to `TypeOK` and
`JoinIsExact`: `Accounted` (a message is queued or in process exactly where its
stage says), `ProducersFirst` (nothing is put once the pool has closed),
`DrainedIsEmpty` (after a drain in time queue and workers are empty) and
`NothingLost`. The step from `unfinished = 0` to an empty queue and idle workers
is a lemma on the cardinality of the busy workers. Theorems: `Invariance`,
`TypeCorrect`, `JoinCountsExactly` (`JoinIsExact`), `DrainIsComplete`
(`DrainLosesNothing`), and `DisjointFieldsAreKept` (`DisjointFieldsSurvive`),
from `FromCommits`: the value of a column is that of a committed message that
carries the column, so a column only one message carries keeps its value.
`CommitsAreAttempted` (`CommitsAreAttempts`) needs `CommitInv`: a message is at
one place of the queue or in the hands of one worker, and that worker has
committed it fewer times than its attempt says (`CommitInvariance`). While the invariant speaks of
`attempt`, the property does not, and without `OnePlace` two workers could
commit one message more often together than either attempts it. From the same
invariant `QueueImplementsWrites` (`ImplementsWrites`) maps each step: `Take` to
`Begin`, `Succeed` and `CommitUnheard` to `Write`, evictions, refusals, timeouts
and the cancelled producers to `Drop`, failures, cancelled workers and the end of
the process to `GiveUp`, the rest to stutters.

**`GraphRun_proofs`**, from the assumptions on workers, graphs and bounds.
Theorems: `Invariance`, `TypeCorrect`, `DecisionsOnce` (`DecisionsTakenOnce`),
`ExclusiveExecution` (`ExclusiveUnlessStalled`), `TerminalStays`
(`TerminalIsFinal`), `GatesAreObeyed` (`GatesGovern`). `IInv` is
`TypeOK`, `DecisionInv` (the command is START or an answered interrupt,
and a decision that waits or is queued was not handed out yet), `ExclusiveInv` (live workers,
and one more if somebody may take the run next, are at most one more than
stalls) and `CancellingInv` (only canonical runs are cancelled without a lock).
What governs holds without a stall, where `ExclusiveInv` leaves one live worker:
`PathInv` says that every gate passed by the checkpoint, the worker or a
completed node was approved, and that a running worker is at the checkpoint;
`GateRowInv` that the answer queued or being executed belongs to the gate next
in the checkpoint and that at most one interrupt is pending. `OnceInv` says that
no gate has two interrupts, because one is only raised at the gate the graph
stands at, which is behind all those that have one; an approved gate was
therefore never rejected (`OneAnswer`). `RepeatInv` counts:
a node has been handled at most as often as there were faults, and once more if
it is in the checkpoint or about to be, or its execution ends the run.
`RepeatsAreBounded` (`RepeatsAreFaults`) follows. `DecisionsMeetTheirGate`
(`AnswersMeetTheirGate`) follows from `GateRowInv`. `NoRunWithoutLease` states
`RunningIsLeased`, on which the recovery depends and which no run checks: a
RUNNING row without a lease would never be found.

**`ChatTurn_proofs`**, from the same and the two assumptions on the graphs of
the chat: they are executed by the chat handler, and every path persists the
answer after its last gate. `TurnImplementsRun` shows that every turn is a
`GraphRun`, so that all the above holds of it. `TurnInv` adds `LedgerTypes`,
`CallInv` (at most one worker is past the activation of the reservation, and
nothing is released once transport has started) and `UsageInv` (the totals have
the usage exactly if the message has it, and the month if the reservation is
settled). `MessageInv`, without a stall, says what the message of an open run
shows: the answer once the checkpoint has passed its persistence, and the
interrupt while the run waits for a human or is about to end at the gate that
rejected it. Theorems: `TurnImplementsRun` (`Spec`), `TurnInvariance`,
`TurnTypeCorrect` (`TurnTypeOK`), `AtMostOneCall` (`BilledOnce`),
`ReleasedMeansUnbilled` (`ReleasedIsUnbilled`), `UsageIsCountedOnce`
(`UsageCountedOnce`), `RunAndMessageEndTogether` (`RunAndMessageAgree`).

The refinement `TurnImplementsLedger` (`ImplementsLedger`) is proved step by
step. `LedgerInv` adds to `TurnInv` what the abstract guards need: a path without
a provider never activates its reservation, usage is recorded only under a
reconciled one, a call under way has a started or failed one, and one that was
given back belongs to a run that is over. Each action of `ChatTurn` is then one of the eight
abstract steps or a stutter; those that fail or cancel a turn share the lemmas
`SettleLedger` and `LedgerEnds`, since `_mark_failed` is reached from four places.
`CommittedWritesAreApproved` (`WritesAreApproved`) combines both modules: a
written change has been handled by its node (`WrittenInv`), and `GatesGovern`
says which gates were approved when it was.

**`OrderExecution_proofs`**, from the assumptions on cycles, profiles and
limits. `IInv` is `TypeOK`, `BusyInv` (a cycle past the choice has a candidate),
`NoLateOrder`, `AdvisoryInv` (the holder of an advisory lock is alone and has
found no trade of its symbol) and `BooksInv` (unbooked orders are being recorded
or cost a fault). `LimitsOverrunIsBounded` (`OverrunIsBounded`) counts: the open
positions and the cycles that have been let past a count are together less than
the limit and one per cycle, for which the proof needs the cardinalities of the
sets of trades before and after a purchase and a sale. Theorems: `Invariance`, `TypeCorrect` (`TypeOK`),
`OrdersUnderActiveProfile` (`NoLateOrder`), `AtMostOneTrade`
(`OneTradePerSymbol`), `EveryOrderIsBooked` (`OrdersAreBooked`).

**`GovernedChange_proofs`**, from the assumptions on documents, sessions and
bounds. `TypeOK` and `StaleCacheIsTracked` are inductive together: a step
that keeps the row, its copy, the markers and the pending deletions keeps the
tracking, and each other step either leaves no stale copy or leaves a marker, a
pending deletion or an excuse. For `ImplementsChange`, `ChangeInv` says
that the row is the document of every preview it was not written after
(`PreviewInv`), and that a rollback may have an outdated reading of everything in
its plan but the document to restore, because a plan that was executed is never
previewed again (`RollbackInv`). `StepChange` then goes through the actions:
`Preview`, `Block`, `Execute` and `Rollback` map to the abstract actions, `Edit` to
`Overwrite`, all others to stutters. Theorems: `TypeCorrect` (`TypeOK`),
`StaleCopiesAreTracked` (`StaleCacheIsTracked`), `ChangesImplementOptimistic`
(`ImplementsChange`).

Model-checked only are the liveness properties (`EveryEventAnswered`,
`StaleLeaderStepsDown`, `SomeoneServes`, `RefreshSettles`,
`EveryMessageSettles`, `ShutdownEnds`, `RunEnds`, `TurnEnds`, `MarkersSettle`):
the prover has no reasoning about fairness and ENABLED. Every safety property of
a run that holds is also the statement of a theorem. No module contains RECURSIVE
operators, and nothing here needs induction over data.

## Where the code and its documentation disagree

Three runs show a behaviour that a doc or comment excludes; `PROJECT.json`
quotes each line under `findings`.

1. `gate_emptied` (`SubscriptionsKept`). A failed symbol query returns an empty
   list. Starting a term is guarded against it, the in-place refresh is not: it
   unsubscribes everything and reports success.
2. `chat_written` (`WriteIsReported`). The governed change is committed in the
   `execute` node; when a later node or the checkpointer raises, the run and the
   message are marked FAILED although the change stands.
3. `order_skip` (`SkipNeverBlocks`). The shadow of a skipped candidate is
   written by a session of its own that locks the profile row. If an earlier
   candidate of the cycle returned from the engine without ending the
   transaction, the cycle itself holds that row, and waits for itself.

Further disagreements have a property in the module that no run checks; adding
it to a configuration as an invariant or property (named in brackets) shows a
trace.

4. `L3Outbox`, `SuppressedNeverCaptured` (property). The consolidation's
   docstring says suppressed candidates never become shadow trades. The monitor
   reads one event of a scan that has not committed all its decisions; the scan
   worker reads the whole batch, consolidates it and answers that event as a
   loser; the winner's shadow closes; the monitor goes on with its row, alone in
   its group, and opens a shadow.
5. `L3Outbox`, `RetryReportsOwnShadow` (invariant). A retried winner should
   reconcile with its own shadow first. The check for an active shadow on the
   symbol comes earlier, so a winner whose mark was lost is answered
   `ACTIVE_TRADE_ALREADY_EXISTS` because of itself.
6. `GateWsLeader`, `RefreshIsHonored` (invariant). A request made between the
   symbol query and the watermark is older than the watermark and is dropped,
   although the subscription does not contain the change it announced.
7. `PersistenceQueue`, `SchedulerNeverDropped` (invariant). An ingest message on
   a full queue evicts the oldest message of any category, also of those that
   must not be dropped.
8. `PersistenceQueue`, `RepeatIsNoOp` (property). A unit of work repeated after
   a commit whose answer was lost overwrites what another worker wrote in
   between.

9. `GovernedChange`, `OnlyExecutedIsRolledBack` (property). "Only an executed
   proposal can be rolled back". Two sessions ask for the rollback of one plan;
   the first rolls back, a human writes the candidate again, and the second rolls
   back once more from the status it had read.

Observations from reading, which the models contain but no property speaks of:

- `execute_buy` counts the open positions once per cycle
  (`execute_buy.py:309`), so one cycle, or two that overlap, may exceed
  `max_positions_total`; `OverrunIsBounded` says by how much.
- An order is sent again after a timeout without a client order id; the
  exchange may take it twice (`OrderUnanswered`).
- `close_trade` takes no lock and sends no order; `orders.trade_id` is written
  from `trade.id` before the flush that sets it.
- A permanent error in `_acquire_run` is dispatched again every 15 seconds for
  ever (`AcquireRaises`).

## Not modelled

- Decision event bus: publication and subscription over Redis; see the plan.
- Pipeline scan: its evaluation is computation; its commit is `Persist`.
- Spot and futures engines, position lifecycle and reconciliation: planned.
  `OrderExecution` uses the capital manager's limits only.
- Shadow monitor: its effect is `CloseShadow`; the barrier evaluation is a pure
  algorithm on candles that is planned.
- Public authorization: its expiry is `Expire`.
- The validation of proposals in `governed_change_service.py` and the evidence
  and prompts of `analysis_chat_handler.py`, by far the longest parts of these
  files: computation on documents without interleaving; the models
  have its verdict as a choice.
- Autopilot: statistics over trades that write through other services.
- Orphan transaction watchdog: it has no state and only ends sessions, which the
  models have as errors and crashes.
- Schedulers: they are the producers of the queue; their cycles are I/O.
- Indicators, scores, ML, profile intelligence: numerical computation.
- Frontend, exchange and messaging integrations: I/O.

## Plan

1. `DecisionBus` over Redis, composed with the outbox.
2. Position lifecycle: import of fills, reconciliation of positions with the
   exchange; an abstract position implemented by it.
3. The barrier evaluation over candles, against a reference definition.
4. Proofs about what these modules add. The safety properties checked so far are
   all proved.
