--------------------------- MODULE OrderExecution ---------------------------
(***************************************************************************)
(* How an approved candidate becomes an order and a trade: the two Celery  *)
(* tasks that buy (tasks/execute_buy.py, tasks/evaluate_signals.py), the   *)
(* engine they call (services/execution_engine.py) and the endpoint that   *)
(* switches a profile off (services/profile_status_service.py).            *)
(*                                                                         *)
(* One user.  A cycle walks its candidates in the order of their symbols   *)
(* with one database session.  The row lock of a profile belongs to the    *)
(* session's transaction, which a commit or a rollback ends and an early   *)
(* return does not.  The exchange is external: it takes an order, refuses  *)
(* it, or takes it and the answer is lost.  Scores, filters and amounts of *)
(* money are left to chance: any candidate may be skipped for them.        *)
(***************************************************************************)
EXTENDS Naturals, FiniteSets

CONSTANTS
    BuyCycles,       \* executions of execute_buy_cycle (concurrency 2)
    EvaluateCycles,  \* executions of evaluate
    Profiles,        \* L3 profiles, each may win any symbol
    NoProfile,       \* no profile has been chosen
    Candidates,      \* symbols are 1..Candidates, in their sort order
    MaxPositions,    \* max_positions_total; max_positions for evaluate
    MaxPerAsset,     \* max_positions_per_asset
    MaxBuys,         \* max_opportunities_per_scan
    EngineLimit,     \* MAX_OPEN_POSITIONS of the engine
    MaxAttempts,     \* max_retries of one order
    MaxFaults        \* bound on lost answers, failed commits, killed cycles

Cycles  == BuyCycles \union EvaluateCycles
Symbols == 1..Candidates

ASSUME CyclesAssumption ==
    IsFiniteSet(Cycles) /\ BuyCycles \intersect EvaluateCycles = {}
ASSUME ProfilesAssumption == NoProfile \notin Profiles
ASSUME LimitsAssumption ==
    /\ {Candidates, MaxAttempts} \subseteq Nat \ {0}
    /\ {MaxPositions, MaxPerAsset, MaxBuys, EngineLimit, MaxFaults} \subseteq Nat

-----------------------------------------------------------------------------
VARIABLES
    live,      \* the pool trades on the exchange, not on paper
    single,    \* l3_single_profile_per_symbol_enabled
    active,    \* per profile: profiles.is_active
    held,      \* per cycle: the profile rows its transaction has locked
    bought,    \* per symbol: active trades that a buy cycle opened
    signalled, \* per symbol: active trades that evaluate opened
    cooldown,  \* symbols with a cooldown key in Redis
    unbooked,  \* orders the exchange has taken and no trade records
    pc,        \* per cycle: how far its current candidate is
    symbol,    \* per cycle: its current candidate
    profile,   \* per cycle: the profile that won the candidate
    buys,      \* per cycle: trades placed
    attempts,  \* per cycle: times the current order was sent in vain
    faults     \* faults so far

userVars  == <<live, single>>
tradeVars == <<bought, signalled, cooldown, unbooked>>
cycleVars == <<pc, symbol, profile, buys, attempts>>
vars == <<userVars, active, held, tradeVars, cycleVars, faults>>

Steps == {"idle", "scan", "checked", "skip", "approved", "relock", "execute",
          "counted", "send", "record"}

TypeOK ==
    /\ live \in BOOLEAN /\ single \in BOOLEAN
    /\ active \in [Profiles -> BOOLEAN]
    /\ held \in [Cycles -> SUBSET Profiles]
    /\ bought \in [Symbols -> Nat] /\ signalled \in [Symbols -> Nat]
    /\ cooldown \subseteq Symbols
    /\ unbooked \in Nat
    /\ pc \in [Cycles -> Steps]
    /\ symbol \in [Cycles -> 1..(Candidates + 1)]
    /\ profile \in [Cycles -> Profiles \union {NoProfile}]
    /\ buys \in [Cycles -> 0..MaxBuys]
    /\ attempts \in [Cycles -> 0..(MaxAttempts - 1)]
    /\ faults \in 0..MaxFaults

Init ==
    /\ live \in BOOLEAN /\ single \in BOOLEAN
    /\ active = [p \in Profiles |-> TRUE]
    /\ held = [c \in Cycles |-> {}]
    /\ bought = [s \in Symbols |-> 0] /\ signalled = [s \in Symbols |-> 0]
    /\ cooldown = {} /\ unbooked = 0
    /\ pc = [c \in Cycles |-> "idle"]
    /\ symbol = [c \in Cycles |-> 1]
    /\ profile = [c \in Cycles |-> NoProfile]
    /\ buys = [c \in Cycles |-> 0]
    /\ attempts = [c \in Cycles |-> 0]
    /\ faults = 0

-----------------------------------------------------------------------------
(* Positions, locks and the end of a candidate.                             *)

ActiveTrades(s) == bought[s] + signalled[s]
Numbered(kind, count) ==
    UNION {{<<kind, s, n>> : n \in 1..count[s]} : s \in Symbols}
OpenTrades == Numbered("bought", bought) \union Numbered("signalled", signalled)
Positions == Cardinality(OpenTrades)

Fault == faults < MaxFaults /\ faults' = faults + 1

(* SELECT ... FOR UPDATE returns: no other transaction has the row.         *)
CanLock(c, p) == \A d \in Cycles \ {c} : p \notin held[d]

(* Another session, the status endpoint's or a shadow writer's, gets it.    *)
Unlocked(p) == \A d \in Cycles : p \notin held[d]

(* The transaction of a cycle commits or is rolled back.                    *)
EndTransaction(c) == held' = [held EXCEPT ![c] = {}]

Goto(c, step) == pc' = [pc EXCEPT ![c] = step]

(* The loop goes on with the next symbol.                                   *)
NextCandidate(c) ==
    /\ Goto(c, "scan")
    /\ symbol' = [symbol EXCEPT ![c] = @ + 1]
    /\ profile' = [profile EXCEPT ![c] = NoProfile]
    /\ attempts' = [attempts EXCEPT ![c] = 0]

HasCandidate(c) ==
    /\ pc[c] \in {"scan", "checked"} /\ symbol[c] <= Candidates
    /\ c \in BuyCycles => buys[c] < MaxBuys

(* The session is closed and whatever it holds is rolled back.              *)
Leave(c) ==
    /\ Goto(c, "idle")
    /\ symbol' = [symbol EXCEPT ![c] = 1]
    /\ profile' = [profile EXCEPT ![c] = NoProfile]
    /\ buys' = [buys EXCEPT ![c] = 0]
    /\ attempts' = [attempts EXCEPT ![c] = 0]
    /\ EndTransaction(c)

-----------------------------------------------------------------------------
(* The cycle.                                                               *)

(* The positions are counted once, before the loop; at the limit the whole  *)
(* cycle is skipped (can_open_new_position, RiskEngine.evaluate_trade).     *)
Begin(c) ==
    /\ pc[c] = "idle"
    /\ Positions < MaxPositions
    /\ Goto(c, "scan")
    /\ UNCHANGED <<userVars, active, held, tradeVars, symbol, profile, buys,
                   attempts, faults>>

End(c) ==
    /\ pc[c] = "scan" /\ ~HasCandidate(c)
    /\ Leave(c)
    /\ UNCHANGED <<userVars, active, tradeVars, faults>>

(* Price, score, filters, triggers, blocks, tradability.  The audit row of  *)
(* a buy cycle has a session of its own; that of evaluate commits the       *)
(* session of the loop, and some rejections write none.                     *)
Skip(c) ==
    /\ HasCandidate(c)
    /\ NextCandidate(c)
    /\ \/ UNCHANGED held
       \/ c \in EvaluateCycles /\ EndTransaction(c)
    /\ UNCHANGED <<userVars, active, tradeVars, buys, faults>>

(* A buy that is stopped by the cooldown, the limits of the asset or its    *)
(* tradability leaves a shadow trade, written by another session that locks *)
(* the profile row first.                                                   *)
SkipWithShadow(c, p) ==
    /\ c \in BuyCycles /\ HasCandidate(c)
    /\ Goto(c, "skip")
    /\ profile' = [profile EXCEPT ![c] = p]
    /\ UNCHANGED <<userVars, active, held, tradeVars, symbol, buys, attempts,
                   faults>>

WriteShadow(c) ==
    /\ pc[c] = "skip" /\ Unlocked(profile[c])
    /\ NextCandidate(c)
    /\ UNCHANGED <<userVars, active, held, tradeVars, buys, faults>>

(* A buy cycle looks at the cooldown of the symbol and at its trades, one   *)
(* right after the other, and at neither again when it has the lock.        *)
Buyable(s) == s \notin cooldown /\ ActiveTrades(s) < MaxPerAsset

CheckSymbol(c) ==
    /\ c \in BuyCycles /\ HasCandidate(c) /\ pc[c] = "scan"
    /\ Buyable(symbol[c])
    /\ Goto(c, "checked")
    /\ UNCHANGED <<userVars, active, held, tradeVars, symbol, profile, buys,
                   attempts, faults>>

Checked(c) == HasCandidate(c) /\ (c \in BuyCycles => pc[c] = "checked")

(* The winning profile is locked and must be active.                        *)
LockProfile(c, p) ==
    /\ Checked(c)
    /\ CanLock(c, p) /\ active[p]
    /\ held' = [held EXCEPT ![c] = @ \union {p}]
    /\ Goto(c, IF c \in BuyCycles THEN "execute" ELSE "approved")
    /\ profile' = [profile EXCEPT ![c] = p]
    /\ UNCHANGED <<userVars, active, tradeVars, symbol, buys, attempts, faults>>

ProfileInactive(c, p) ==
    /\ Checked(c)
    /\ CanLock(c, p) /\ ~active[p]
    /\ NextCandidate(c)
    /\ IF c \in EvaluateCycles THEN EndTransaction(c) ELSE UNCHANGED held
    /\ UNCHANGED <<userVars, active, tradeVars, buys, faults>>

(* evaluate writes the approval with the session of the loop: the commit    *)
(* gives the lock up.  A score of zero is not audited.                      *)
Approve(c) ==
    /\ pc[c] = "approved"
    /\ Goto(c, "relock")
    /\ EndTransaction(c) \/ UNCHANGED held
    /\ UNCHANGED <<userVars, active, tradeVars, symbol, profile, buys,
                   attempts, faults>>

(* The profile is locked and checked again at the order boundary.  Mutant   *)
(* of Relock: the first check is trusted.                                   *)
TrustFirstLock(c) ==
    /\ pc[c] = "relock"
    /\ Goto(c, "execute")
    /\ UNCHANGED <<userVars, active, held, tradeVars, symbol, profile, buys,
                   attempts, faults>>

Relock(c) ==
    /\ pc[c] = "relock" /\ CanLock(c, profile[c])
    /\ IF active[profile[c]]
       THEN /\ held' = [held EXCEPT ![c] = @ \union {profile[c]}]
            /\ Goto(c, "execute")
            /\ UNCHANGED <<symbol, profile, attempts>>
       ELSE EndTransaction(c) /\ NextCandidate(c)
    /\ UNCHANGED <<userVars, active, tradeVars, buys, faults>>

-----------------------------------------------------------------------------
(* execute_trade.                                                           *)

(* The engine's own limits on the value, the positions, the quantity and    *)
(* the price: it returns, and the transaction stays open.                   *)
EngineRefuses(c) ==
    /\ pc[c] = "execute"
    /\ NextCandidate(c)
    /\ UNCHANGED <<userVars, active, held, tradeVars, buys, faults>>

(* Mutant of CountPositions: the limit of the cycle is enough.              *)
CountNothing(c) ==
    /\ pc[c] = "execute"
    /\ Goto(c, "counted")
    /\ UNCHANGED <<userVars, active, held, tradeVars, symbol, profile, buys,
                   attempts, faults>>

CountPositions(c) ==
    /\ pc[c] = "execute"
    /\ Positions < EngineLimit
    /\ Goto(c, "counted")
    /\ UNCHANGED <<userVars, active, held, tradeVars, symbol, profile, buys,
                   attempts, faults>>

(* Only execute_buy hands the flag to the engine.                           *)
Consolidates(c) == single /\ c \in BuyCycles

(* pg_advisory_xact_lock of (user, symbol, direction): held from here to    *)
(* the end of the transaction.                                              *)
HasAdvisory(c, s) ==
    Consolidates(c) /\ symbol[c] = s /\ pc[c] \in {"send", "record"}

(* Mutant of AdvisoryIsFree: the check is made without the lock.            *)
NoAdvisory(c)     == TRUE
AdvisoryIsFree(c) == \A d \in Cycles \ {c} : ~HasAdvisory(d, symbol[c])

AlreadyTraded(c) ==
    /\ pc[c] = "counted" /\ Consolidates(c) /\ AdvisoryIsFree(c)
    /\ ActiveTrades(symbol[c]) > 0
    /\ EndTransaction(c) /\ NextCandidate(c)
    /\ UNCHANGED <<userVars, active, tradeVars, buys, faults>>

Place(c) ==
    /\ pc[c] = "counted"
    /\ Consolidates(c) => AdvisoryIsFree(c) /\ ActiveTrades(symbol[c]) = 0
    /\ Goto(c, IF live THEN "send" ELSE "record")
    /\ UNCHANGED <<userVars, active, held, tradeVars, symbol, profile, buys,
                   attempts, faults>>

OrderAccepted(c) ==
    /\ pc[c] = "send"
    /\ unbooked' = unbooked + 1
    /\ Goto(c, "record")
    /\ UNCHANGED <<userVars, active, held, bought, signalled, cooldown, symbol,
                   profile, buys, attempts, faults>>

(* No connection, a refusal, or the last attempt has failed: the rollback   *)
(* is made under consolidation only.                                        *)
GiveUp(c) ==
    /\ NextCandidate(c)
    /\ IF Consolidates(c) THEN EndTransaction(c) ELSE UNCHANGED held

OrderRefused(c) ==
    /\ pc[c] = "send"
    /\ GiveUp(c)
    /\ UNCHANGED <<userVars, active, tradeVars, buys, faults>>

(* A timeout or a gateway's error: the order may have been taken, and the   *)
(* same request is sent again.                                              *)
OrderUnanswered(c) ==
    /\ pc[c] = "send"
    /\ Fault
    /\ unbooked' \in {unbooked, unbooked + 1}
    /\ IF attempts[c] + 1 < MaxAttempts
       THEN /\ attempts' = [attempts EXCEPT ![c] = @ + 1]
            /\ UNCHANGED <<held, pc, symbol, profile>>
       ELSE GiveUp(c)
    /\ UNCHANGED <<userVars, active, bought, signalled, cooldown, buys>>

(* Trade and order are committed, which ends the transaction; a buy then    *)
(* sets the cooldown unless Redis is away.  Mutant of Record: the limit is  *)
(* looked at again when the order has been sent.                            *)
CountTrade(c) ==
    IF c \in BuyCycles
    THEN /\ bought' = [bought EXCEPT ![symbol[c]] = @ + 1]
         /\ buys' = [buys EXCEPT ![c] = @ + 1]
         /\ cooldown' \in {cooldown, cooldown \union {symbol[c]}}
         /\ UNCHANGED signalled
    ELSE /\ signalled' = [signalled EXCEPT ![symbol[c]] = @ + 1]
         /\ UNCHANGED <<bought, buys, cooldown>>

RecordWithinLimit(c) ==
    /\ pc[c] = "record"
    /\ EndTransaction(c) /\ NextCandidate(c)
    /\ IF Positions < EngineLimit
       THEN CountTrade(c) /\ unbooked' = IF live THEN unbooked - 1 ELSE unbooked
       ELSE UNCHANGED <<tradeVars, buys>>
    /\ UNCHANGED <<userVars, active, faults>>

Record(c) ==
    /\ pc[c] = "record"
    /\ CountTrade(c)
    /\ unbooked' = IF live THEN unbooked - 1 ELSE unbooked
    /\ EndTransaction(c) /\ NextCandidate(c)
    /\ UNCHANGED <<userVars, active, faults>>

RecordFails(c) ==
    /\ pc[c] = "record"
    /\ Fault
    /\ EndTransaction(c) /\ NextCandidate(c)
    /\ UNCHANGED <<userVars, active, tradeVars, buys>>

-----------------------------------------------------------------------------
(* What goes wrong around it.                                               *)

(* An exception before the order, a deadlock or the time limit among them,  *)
(* ends the user's cycle.                                                   *)
Abort(c) ==
    /\ pc[c] \notin {"idle", "send", "record"}
    /\ Leave(c)
    /\ UNCHANGED <<userVars, active, tradeVars, faults>>

(* The worker is killed while an order is under way.                        *)
Killed(c) ==
    /\ pc[c] \in {"send", "record"}
    /\ Fault
    /\ IF pc[c] = "send" THEN unbooked' \in {unbooked, unbooked + 1}
                         ELSE UNCHANGED unbooked
    /\ Leave(c)
    /\ UNCHANGED <<userVars, active, bought, signalled, cooldown>>

-----------------------------------------------------------------------------
(* The surroundings.                                                        *)

(* apply_profile_status, under the row lock.                                *)
SetStatus(p) ==
    /\ Unlocked(p)
    /\ active' = [active EXCEPT ![p] = ~@]
    /\ UNCHANGED <<userVars, held, tradeVars, cycleVars, faults>>

(* close_trade, from the API or the exit check; no exchange order is sent.  *)
Close(s) ==
    /\ \/ bought[s] > 0 /\ bought' = [bought EXCEPT ![s] = @ - 1]
          /\ UNCHANGED signalled
       \/ signalled[s] > 0 /\ signalled' = [signalled EXCEPT ![s] = @ - 1]
          /\ UNCHANGED bought
    /\ UNCHANGED <<userVars, active, held, cooldown, unbooked, cycleVars, faults>>

CooldownEnds(s) ==
    /\ s \in cooldown
    /\ cooldown' = cooldown \ {s}
    /\ UNCHANGED <<userVars, active, held, bought, signalled, unbooked,
                   cycleVars, faults>>

Walk(c) ==
    \/ Begin(c) \/ End(c) \/ Skip(c) \/ WriteShadow(c) \/ CheckSymbol(c)
    \/ Approve(c) \/ Relock(c)
    \/ \E p \in Profiles :
           SkipWithShadow(c, p) \/ LockProfile(c, p) \/ ProfileInactive(c, p)

Trade(c) ==
    \/ EngineRefuses(c) \/ CountPositions(c) \/ AlreadyTraded(c) \/ Place(c)
    \/ OrderAccepted(c) \/ OrderRefused(c) \/ OrderUnanswered(c)
    \/ Record(c) \/ RecordFails(c)

Next ==
    \/ \E c \in Cycles : Walk(c) \/ Trade(c) \/ Abort(c) \/ Killed(c)
    \/ \E p \in Profiles : SetStatus(p)
    \/ \E s \in Symbols : Close(s) \/ CooldownEnds(s)

Spec == Init /\ [][Next]_vars

-----------------------------------------------------------------------------
(* An order is sent and a trade recorded only for a profile that is active  *)
(* at that moment and cannot be switched off before the trade is committed: *)
(* the status endpoint never returns while a late order remains.            *)
NoLateOrder ==
    \A c \in Cycles : pc[c] \in {"execute", "counted", "send", "record"} =>
                          active[profile[c]] /\ profile[c] \in held[c]

(* Under consolidation buy cycles never have two active trades of a symbol, *)
(* however their checks, orders and commits interleave.                     *)
OneTradePerSymbol ==
    single => \A s \in Symbols :
        bought[s] + Cardinality({c \in BuyCycles : HasAdvisory(c, s)}) <= 1

(* An order that the exchange has taken and the books do not show is about  *)
(* to be recorded, or a fault has been paid for it: no path of the engine   *)
(* returns past an order it has placed.                                     *)
OrdersAreBooked ==
    live => unbooked <= faults + Cardinality({c \in Cycles : pc[c] = "record"})

(* The two limits on positions are compared with a count that other cycles  *)
(* have not finished changing: the engine's before the order, the cycle's   *)
(* once before its loop.  Each is overrun, but never by more than the       *)
(* cycles can have under way: one order each past the engine's limit, and   *)
(* past the cycle's what every cycle may still place.                       *)
OverrunIsBounded ==
    Positions > 0 =>
        /\ Positions < EngineLimit + Cardinality(Cycles)
        /\ Positions < MaxPositions + Cardinality(BuyCycles) * MaxBuys
                                    + Cardinality(EvaluateCycles) * Candidates

(* The shadow of a skipped candidate does not wait for a lock that the very *)
(* cycle that waits for it holds.                                           *)
SkipNeverBlocks ==
    \A c \in Cycles : pc[c] = "skip" => profile[c] \notin held[c]
=============================================================================
