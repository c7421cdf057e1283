------------------------------ MODULE L3Outbox ------------------------------
(***************************************************************************)
(* The transactional hand-off of an L3 authorization to a shadow trade.    *)
(*                                                                         *)
(* The scanner commits a decision together with its outbox event; consumers*)
(* (the scan worker that wrote it and the periodic monitor, which overlap) *)
(* turn the event into at most one shadow trade and mark it PROCESSED.     *)
(* Every action below is one database transaction, or one part of a        *)
(* transaction between two points where it can block; a consumer's local   *)
(* state is lost when its process dies, the database's is not.             *)
(*                                                                         *)
(* One user, direction SPOT and source L3 throughout: the advisory lock,   *)
(* the indexes and the lookups of the code all carry those three as equal  *)
(* components of their keys.                                               *)
(***************************************************************************)
EXTENDS Naturals, Sequences, FiniteSets

CONSTANTS
    Decision,    \* rows the scanner may write to decisions_log
    Profile, Symbol, Candle, Scan,
    Consumer,    \* processes that run process_l3_authorization_outbox
    NoDecision,
    ProfileOf, SymbolOf, CandleOf, ScanOf,  \* attributes of a decision
    Rank,        \* candidate_rank_key: the smallest wins
    Required,    \* decisions whose contract is a strict ALLOW: they ask for a shadow
    Malformed,   \* decisions whose contract or lineage does not validate
    MaxChanges,  \* bound: profile and setting changes, deadlines and hours that pass
    MaxFaults    \* bound: crashes and transient errors

ASSUME ConstantsAssumption ==
    /\ NoDecision \notin Decision
    /\ ProfileOf \in [Decision -> Profile]
    /\ SymbolOf \in [Decision -> Symbol]
    /\ CandleOf \in [Decision -> Candle]
    /\ ScanOf \in [Decision -> Scan]
    /\ Rank \in [Decision -> Nat]
    /\ Required \subseteq Decision /\ Malformed \subseteq Decision
    /\ MaxChanges \in Nat /\ MaxFaults \in Nat

VARIABLES
    status,     \* l3_authorization_outbox.status, "ABSENT" before the insert
    kind,       \* the event's type and whether it asks for a shadow at all
    result,     \* payload.processing_result
    expired,    \* authorization_expiry of the decision's contract has passed
    shadows,    \* shadow_trades, in insertion order
    suppressed, \* decisions with a SUPPRESSED audit row in decisions_log
    active,     \* profiles.is_active
    config,     \* the user's settings the hand-off reads
    work,       \* what each consumer is doing
    changes, faults  \* used budgets

db == <<status, kind, result, shadows, suppressed>>
env == <<expired, active, config, changes>>
vars == <<status, kind, result, expired, shadows, suppressed, active, config,
          work, changes, faults>>

Kind == {"direct", "consolidation", "observed"}
Config == [single: BOOLEAN, off: BOOLEAN]
Row == [decision: Decision, enforced: BOOLEAN,
        status: {"RUNNING", "COMPLETED"},
        thisHour: BOOLEAN]  \* created_at is in the current clock hour

Created == "CREATED_OR_RECONCILED"
ActiveTrade == "SUPPRESSED/ACTIVE_TRADE_ALREADY_EXISTS"
LowerPriority == "SUPPRESSED/SAME_SYMBOL_LOWER_PRIORITY"
ExpiredAfterLock == "SUPPRESSED/AUTHORIZATION_EXPIRED_AFTER_LOCK"
ConcurrentTrade == "SUPPRESSED/CONCURRENT_ACTIVE_TRADE_CREATED"
UnresolvedRace == "SUPPRESSED/SHADOW_CREATION_RACE_UNRESOLVED"
Immediate == {"AUTHORIZATION_EXPIRED", "PROFILE_INACTIVE"}
Suppression == {ActiveTrade, LowerPriority, ExpiredAfterLock, ConcurrentTrade,
                UnresolvedRace}
Result == {Created, "NO_SHADOW_REQUIRED"} \cup Immediate \cup Suppression

(* A consumer's verdict on an event of its batch: not (or no longer) in the*)
(* batch, still to be consolidated, the group's transaction failed, or the *)
(* result it will write.                                                   *)
Verdict == {"none", "candidate", "ERROR"} \cup Result

Idle == [pc |-> "idle", item |-> NoDecision, batch |-> {},
         verdict |-> [d \in Decision |-> "none"],
         config |-> [single |-> FALSE, off |-> FALSE]]
Work == [pc: {"idle", "checked", "locked", "insert",
               "read", "batch", "group", "groupInsert", "retry"},
         item: Decision \cup {NoDecision},
         batch: SUBSET Decision,
         verdict: [Decision -> Verdict],
         config: Config]

-----------------------------------------------------------------------------
(* What the queries see. *)

(* Mutant of Open: the status is not read again under the lock. *)
OpenUnchecked(d) == status[d] # "ABSENT"

Open(d) == status[d] \in {"PENDING", "RETRY"}
SameEvent(d, e) == SymbolOf[d] = SymbolOf[e] /\ CandleOf[d] = CandleOf[e]
SameSlot(d, e) == SymbolOf[d] = SymbolOf[e] /\ ProfileOf[d] = ProfileOf[e]

OwnShadow(d) == \E i \in DOMAIN shadows : shadows[i].decision = d
ActiveOn(s) == \E i \in DOMAIN shadows :
                  /\ SymbolOf[shadows[i].decision] = s
                  /\ shadows[i].status = "RUNNING"
ProfileBusy(d) == \E i \in DOMAIN shadows :
                     /\ SameSlot(shadows[i].decision, d)
                     /\ shadows[i].status = "RUNNING"

(* Locks held by open transactions: an event's row, a profile's row, and   *)
(* the advisory lock of a symbol, which a direct hand-off takes only when  *)
(* the setting it loaded asks for consolidation.                           *)
EventLocked(d) == \E c \in Consumer :
    work[c].pc \in {"checked", "locked", "insert"} /\ work[c].item = d
ProfileLocked(p) == \E c \in Consumer :
    work[c].pc \in {"locked", "insert", "groupInsert"} /\ ProfileOf[work[c].item] = p
AdvisoryLocked(s) == \E c \in Consumer :
    /\ \/ work[c].pc \in {"group", "groupInsert"}
       \/ work[c].pc = "insert" /\ work[c].config.single
    /\ SymbolOf[work[c].item] = s

-----------------------------------------------------------------------------
(* _create_from_decision. *)

(* Mutant of Refused: the profile's status is trusted from the batch's read. *)
RefusedNotInactive(d, conf, enforced) ==
    conf.off \/ (enforced /\ ActiveOn(SymbolOf[d])) \/ ProfileBusy(d)

(* The checks that return None before the insert. *)
Refused(d, conf, enforced) ==
    \/ conf.off
    \/ ~active[ProfileOf[d]]
    \/ enforced /\ ActiveOn(SymbolOf[d])
    \/ ProfileBusy(d)

(* Mutant of Conflicts: no unique index on the decision. *)
ConflictsNotOwn(d, enforced) ==
    \E i \in DOMAIN shadows :
        \/ SameSlot(shadows[i].decision, d)
           /\ (shadows[i].thisHour \/ shadows[i].status = "RUNNING")
        \/ /\ enforced /\ shadows[i].enforced
           /\ shadows[i].status = "RUNNING"
           /\ SymbolOf[shadows[i].decision] = SymbolOf[d]

(* The unique indexes the insert's bare ON CONFLICT DO NOTHING yields to. *)
Conflicts(d, enforced) ==
    \/ OwnShadow(d)
    \/ ProfileBusy(d)
    \/ \E i \in DOMAIN shadows :
          SameSlot(shadows[i].decision, d) /\ shadows[i].thisHour
    \/ /\ enforced
       /\ \E i \in DOMAIN shadows :
             /\ shadows[i].enforced
             /\ shadows[i].status = "RUNNING"
             /\ SymbolOf[shadows[i].decision] = SymbolOf[d]

NewRow(d, enforced) ==
    [decision |-> d, enforced |-> enforced, status |-> "RUNNING",
     thisHour |-> TRUE]

(* A consolidation enforces one profile per symbol whatever the setting    *)
(* says; a direct hand-off follows the setting it loaded.                  *)
Enforced(c) == work[c].pc \in {"group", "groupInsert"} \/ work[c].config.single

RefusedTo(c) == Refused(work[c].item, work[c].config, Enforced(c))
ConflictsFor(c) == Conflicts(work[c].item, Enforced(c))

(* Mutant of Insert: a shadow for every authorized decision of the event.  *)
InsertAll(c) ==
    LET rivals == {e \in work[c].batch : SameEvent(e, work[c].item)} \ {work[c].item}
    IN  shadows' = shadows \o <<NewRow(work[c].item, Enforced(c))>>
                           \o (IF rivals = {} THEN <<>>
                               ELSE <<NewRow(CHOOSE e \in rivals : TRUE, Enforced(c))>>)

Insert(c) == shadows' = Append(shadows, NewRow(work[c].item, Enforced(c)))

-----------------------------------------------------------------------------
(* The producer. *)

EventKind(d) ==
    IF d \notin Required THEN "observed"
    ELSE IF config.single THEN "consolidation" ELSE "direct"

(* _persist_decision_logs: decision, contract and event commit together.   *)
Persist(d) ==
    /\ status[d] = "ABSENT"
    /\ active[ProfileOf[d]]
    /\ status' = [status EXCEPT ![d] = "PENDING"]
    /\ kind' = [kind EXCEPT ![d] = EventKind(d)]
    /\ UNCHANGED <<result, shadows, suppressed, work, faults>>
    /\ UNCHANGED env

-----------------------------------------------------------------------------
(* Direct hand-off: one transaction for one event. *)

Finish(c, d, r) ==
    /\ status' = [status EXCEPT ![d] = "PROCESSED"]
    /\ result' = [result EXCEPT ![d] = r]
    /\ work' = [work EXCEPT ![c] = Idle]

(* Takes the event's row lock (SKIP LOCKED) and makes the early decisions. *)
DirectOpen(c, d) ==
    /\ work[c].pc = "idle"
    /\ kind[d] # "consolidation" /\ Open(d) /\ ~EventLocked(d)
    /\ IF d \in Malformed
       THEN /\ work' = [work EXCEPT ![c] = [Idle EXCEPT !.pc = "retry", !.batch = {d}]]
            /\ UNCHANGED <<status, result>>
       ELSE IF expired[d] THEN Finish(c, d, "AUTHORIZATION_EXPIRED")
       ELSE IF kind[d] = "observed" THEN Finish(c, d, "NO_SHADOW_REQUIRED")
       ELSE IF ~active[ProfileOf[d]] THEN Finish(c, d, "PROFILE_INACTIVE")
       ELSE /\ work' = [work EXCEPT ![c] = [Idle EXCEPT !.pc = "checked", !.item = d,
                                                       !.config = config]]
            /\ UNCHANGED <<status, result>>
    /\ UNCHANGED <<kind, shadows, suppressed, faults>>
    /\ UNCHANGED env

(* What a hand-off that created nothing reports: its own earlier shadow    *)
(* first, then whoever covers the symbol.                                  *)
DirectOutcome(d) ==
    IF OwnShadow(d) THEN Created
    ELSE IF ActiveOn(SymbolOf[d]) THEN ActiveTrade
    ELSE "NO_SHADOW_REQUIRED"

(* _create_from_decision up to SELECT profile FOR UPDATE. *)
DirectLockProfile(c) ==
    /\ work[c].pc = "checked"
    /\ LET d == work[c].item IN
       IF work[c].config.off
       THEN Finish(c, d, DirectOutcome(d))
       ELSE /\ ~ProfileLocked(ProfileOf[d])
            /\ IF active[ProfileOf[d]]
               THEN /\ work' = [work EXCEPT ![c].pc = "locked"]
                    /\ UNCHANGED <<status, result>>
               ELSE Finish(c, d, DirectOutcome(d))
    /\ UNCHANGED <<kind, shadows, suppressed, faults>>
    /\ UNCHANGED env

(* Its other checks, the last of which asks whether the radar pool still   *)
(* lists the symbol (either answer).  Another transaction may commit       *)
(* between them and the insert: the unique indexes decide once more.       *)
DirectCheck(c) ==
    /\ work[c].pc = "locked"
    /\ LET d == work[c].item IN
       /\ work[c].config.single => ~AdvisoryLocked(SymbolOf[d])
       /\ \/ Finish(c, d, DirectOutcome(d))
          \/ /\ ~RefusedTo(c)
             /\ work' = [work EXCEPT ![c].pc = "insert"]
             /\ UNCHANGED <<status, result>>
    /\ UNCHANGED <<kind, shadows, suppressed, faults>>
    /\ UNCHANGED env

(* The insert, the processing result, the commit. *)
DirectCommit(c) ==
    /\ work[c].pc = "insert"
    /\ LET d == work[c].item IN
       IF ConflictsFor(c)
       THEN UNCHANGED shadows /\ Finish(c, d, DirectOutcome(d))
       ELSE Insert(c) /\ Finish(c, d, Created)
    /\ UNCHANGED <<kind, suppressed, faults>>
    /\ UNCHANGED env

(* An exception rolls the transaction back; the retry mark is still to do. *)
Rollback(c) ==
    work' = [work EXCEPT ![c] = [Idle EXCEPT !.pc = "retry", !.batch = {work[c].item}]]

(* Mutant of DirectError: the insert has committed in its own transaction. *)
DirectErrorKeepsInsert(c) ==
    /\ work[c].pc \in {"checked", "locked", "insert"}
    /\ faults < MaxFaults
    /\ faults' = faults + 1
    /\ Rollback(c)
    /\ IF work[c].pc = "insert" /\ ~ConflictsFor(c) THEN Insert(c) ELSE UNCHANGED shadows
    /\ UNCHANGED <<status, kind, result, suppressed>>
    /\ UNCHANGED env

DirectError(c) ==
    /\ work[c].pc \in {"checked", "locked", "insert"}
    /\ faults < MaxFaults
    /\ faults' = faults + 1
    /\ Rollback(c)
    /\ UNCHANGED db
    /\ UNCHANGED env

-----------------------------------------------------------------------------
(* Consolidation: one scan's events, each group in its own transaction. *)

(* Mutants of Batch: retries are not selected; scans are not kept apart.   *)
BatchPendingOnly(s) ==
    {d \in Decision : kind[d] = "consolidation" /\ status[d] = "PENDING" /\ ScanOf[d] = s}
BatchAnyScan(s) == {d \in Decision : kind[d] = "consolidation" /\ Open(d)}

Batch(s) == {d \in Decision : kind[d] = "consolidation" /\ Open(d) /\ ScanOf[d] = s}

(* _consolidation_rows: no row lock, so two consumers may read the same    *)
(* events.  A row that does not validate fails the whole scan.             *)
ReadBatch(c, s) ==
    /\ work[c].pc = "idle"
    /\ Batch(s) # {}
    /\ work' = [work EXCEPT ![c] =
                  [Idle EXCEPT !.pc = IF Batch(s) \cap Malformed = {} THEN "read" ELSE "retry",
                               !.batch = Batch(s)]]
    /\ UNCHANGED <<db, faults>>
    /\ UNCHANGED env

FirstVerdict(d) ==
    IF expired[d] THEN "AUTHORIZATION_EXPIRED"
    ELSE IF ~active[ProfileOf[d]] THEN "PROFILE_INACTIVE"
    ELSE "candidate"

(* Reads the active profiles, settles what needs no transaction of its own,*)
(* loads the user's settings.                                              *)
Classify(c) ==
    /\ work[c].pc = "read"
    /\ work' = [work EXCEPT ![c].pc = "batch",
                            ![c].verdict = [d \in Decision |->
                                IF d \in work[c].batch THEN FirstVerdict(d) ELSE "none"],
                            ![c].config = config]
    /\ UNCHANGED <<db, faults>>
    /\ UNCHANGED env

Candidates(c) == {d \in work[c].batch : work[c].verdict[d] = "candidate"}
Group(c, d) == {e \in Candidates(c) : SameEvent(d, e)}
Wins(c, w) == w \in Candidates(c) /\ \A e \in Group(c, w) : Rank[w] <= Rank[e]

Judged(c, G, v) ==
    [work[c] EXCEPT !.pc = "batch", !.item = NoDecision,
                    !.verdict = [d \in Decision |->
                        IF d \in G THEN v[d] ELSE work[c].verdict[d]]]

(* Every candidate of the group is suppressed for one reason and audited.  *)
SuppressAll(c, w, reason) ==
    /\ suppressed' = suppressed \cup Group(c, w)
    /\ work' = [work EXCEPT ![c] = Judged(c, Group(c, w), [d \in Decision |-> reason])]

(* pg_advisory_xact_lock, then the checks made under it. *)
GroupLock(c, w) ==
    /\ work[c].pc = "batch"
    /\ Wins(c, w)
    /\ ~AdvisoryLocked(SymbolOf[w])
    /\ IF ActiveOn(SymbolOf[w]) THEN SuppressAll(c, w, ActiveTrade)
       ELSE IF expired[w] THEN SuppressAll(c, w, ExpiredAfterLock)
       ELSE /\ work' = [work EXCEPT ![c].pc = "group", ![c].item = w]
            /\ UNCHANGED suppressed
    /\ UNCHANGED <<status, kind, result, shadows, faults>>
    /\ UNCHANGED env

(* Mutant of WinnerResult: the group's outcome is everyone's result.       *)
WinnerResultForAll(w) == [d \in Decision |-> Created]

(* _consolidation_processing_result compares profiles, not decisions. *)
WinnerResult(w) ==
    [d \in Decision |-> IF ProfileOf[d] = ProfileOf[w] THEN Created ELSE LowerPriority]

(* Mutant of CreditWinner: the losers' audit rows are forgotten.           *)
CreditWinnerUnaudited(c, w) ==
    /\ UNCHANGED suppressed
    /\ work' = [work EXCEPT ![c] = Judged(c, Group(c, w), WinnerResult(w))]

CreditWinner(c, w) ==
    /\ suppressed' = suppressed \cup (Group(c, w) \ {w})
    /\ work' = [work EXCEPT ![c] = Judged(c, Group(c, w), WinnerResult(w))]

(* _create_from_decision returned None: reconcile with an earlier shadow   *)
(* of the winner before looking for a concurrent one.                      *)
NothingCreated(c) ==
    LET w == work[c].item IN
    IF OwnShadow(w) THEN CreditWinner(c, w)
    ELSE IF ActiveOn(SymbolOf[w]) THEN SuppressAll(c, w, ConcurrentTrade)
    ELSE SuppressAll(c, w, UnresolvedRace)

(* The checks of _create_from_decision, up to its insert; as in            *)
(* DirectCheck the radar pool may refuse what passes the others.           *)
GroupCheck(c) ==
    /\ work[c].pc = "group"
    /\ work[c].config.off \/ ~ProfileLocked(ProfileOf[work[c].item])
    /\ \/ NothingCreated(c)
       \/ /\ ~RefusedTo(c)
          /\ work' = [work EXCEPT ![c].pc = "groupInsert"]
          /\ UNCHANGED suppressed
    /\ UNCHANGED <<status, kind, result, shadows, faults>>
    /\ UNCHANGED env

(* The winner's shadow and every suppression row commit together. *)
GroupCommit(c) ==
    /\ work[c].pc = "groupInsert"
    /\ IF ConflictsFor(c)
       THEN UNCHANGED shadows /\ NothingCreated(c)
       ELSE Insert(c) /\ CreditWinner(c, work[c].item)
    /\ UNCHANGED <<status, kind, result, faults>>
    /\ UNCHANGED env

FailGroup(c) ==
    work' = [work EXCEPT ![c] = Judged(c, Group(c, work[c].item),
                                       [d \in Decision |-> "ERROR"])]

GroupError(c) ==
    /\ work[c].pc \in {"group", "groupInsert"}
    /\ faults < MaxFaults
    /\ faults' = faults + 1
    /\ FailGroup(c)
    /\ UNCHANGED db
    /\ UNCHANGED env

(* An exception outside a group's transaction fails the whole batch. *)
BatchError(c) ==
    /\ work[c].pc \in {"read", "batch"}
    /\ faults < MaxFaults
    /\ faults' = faults + 1
    /\ work' = [work EXCEPT ![c] = [Idle EXCEPT !.pc = "retry", !.batch = work[c].batch]]
    /\ UNCHANGED db
    /\ UNCHANGED env

ToMark(c) == {d \in work[c].batch : work[c].verdict[d] # "none"}

(* One event leaves the batch; the consumer is done after the last one. *)
Marked(c, d) ==
    IF ToMark(c) = {d} THEN Idle ELSE [work[c] EXCEPT !.verdict[d] = "none"]

(* _mark_processed, one transaction per event, immediate results first.    *)
(* An ERROR verdict raises and sends the whole batch to the retry mark.    *)
Mark(c, d) ==
    /\ work[c].pc = "batch"
    /\ Candidates(c) = {}
    /\ d \in ToMark(c)
    /\ (\E e \in ToMark(c) : work[c].verdict[e] \in Immediate)
          => work[c].verdict[d] \in Immediate
    /\ IF work[c].verdict[d] = "ERROR"
       THEN /\ work' = [work EXCEPT ![c] = [Idle EXCEPT !.pc = "retry",
                                                       !.batch = work[c].batch]]
            /\ UNCHANGED <<status, result>>
       ELSE /\ work' = [work EXCEPT ![c] = Marked(c, d)]
            /\ IF status[d] = "PROCESSED"
               THEN UNCHANGED <<status, result>>
               ELSE /\ status' = [status EXCEPT ![d] = "PROCESSED"]
                    /\ result' = [result EXCEPT ![d] = work[c].verdict[d]]
    /\ UNCHANGED <<kind, shadows, suppressed, faults>>
    /\ UNCHANGED env

(* Mutant of MarkRetry: events answered meanwhile are reopened.            *)
MarkRetryReopens(c) ==
    /\ work[c].pc = "retry"
    /\ \A d \in work[c].batch : ~EventLocked(d)
    /\ status' = [d \in Decision |-> IF d \in work[c].batch THEN "RETRY" ELSE status[d]]
    /\ work' = [work EXCEPT ![c] = Idle]
    /\ UNCHANGED <<kind, result, shadows, suppressed, faults>>
    /\ UNCHANGED env

(* _mark_retry: its own transaction, waits for the rows' locks. *)
MarkRetry(c) ==
    /\ work[c].pc = "retry"
    /\ \A d \in work[c].batch : ~EventLocked(d)
    /\ status' = [d \in Decision |->
                    IF d \in work[c].batch /\ status[d] # "PROCESSED"
                    THEN "RETRY" ELSE status[d]]
    /\ work' = [work EXCEPT ![c] = Idle]
    /\ UNCHANGED <<kind, result, shadows, suppressed, faults>>
    /\ UNCHANGED env

-----------------------------------------------------------------------------
(* A direct hand-off takes the profile row before the advisory lock, a     *)
(* consolidation the other way round.  PostgreSQL aborts either one.       *)
DeadlockVictim(c, k) ==
    /\ work[c].pc = "locked" /\ work[c].config.single
    /\ work[k].pc = "group" /\ ~work[k].config.off
    /\ SymbolOf[work[c].item] = SymbolOf[work[k].item]
    /\ ProfileOf[work[c].item] = ProfileOf[work[k].item]
    /\ Rollback(c) \/ FailGroup(k)
    /\ UNCHANGED <<db, faults>>
    /\ UNCHANGED env

(* The consumer's process dies: its open transaction rolls back. *)
Crash(c) ==
    /\ work[c].pc # "idle"
    /\ faults < MaxFaults
    /\ faults' = faults + 1
    /\ work' = [work EXCEPT ![c] = Idle]
    /\ UNCHANGED db
    /\ UNCHANGED env

-----------------------------------------------------------------------------
(* The rest of the system. *)

Change == changes < MaxChanges /\ changes' = changes + 1

(* The monitor closes a shadow when one of its barriers is hit. *)
CloseShadow(i) ==
    /\ i \in DOMAIN shadows
    /\ shadows[i].status = "RUNNING"
    /\ shadows' = [shadows EXCEPT ![i].status = "COMPLETED"]
    /\ UNCHANGED <<status, kind, result, suppressed, work, faults>>
    /\ UNCHANGED env

(* Time passes the contract's deadline; of interest only while the event   *)
(* is open or some consumer still holds it.                                *)
Expire(d) ==
    /\ ~expired[d]
    /\ Open(d) \/ \E c \in Consumer : work[c].item = d \/ d \in work[c].batch
    /\ Change
    /\ expired' = [expired EXCEPT ![d] = TRUE]
    /\ UNCHANGED <<db, active, config, work, faults>>

(* The clock hour ends: shadow_lab_hour_bucket(now()) changes. *)
NextHour ==
    /\ \E i \in DOMAIN shadows : shadows[i].thisHour
    /\ Change
    /\ shadows' = [i \in DOMAIN shadows |-> [shadows[i] EXCEPT !.thisHour = FALSE]]
    /\ UNCHANGED <<status, kind, result, suppressed, expired, active, config, work, faults>>

(* apply_profile_status, which holds the profile's row lock. *)
SetProfileStatus(p) ==
    /\ Change
    /\ ~ProfileLocked(p)
    /\ active' = [active EXCEPT ![p] = ~active[p]]
    /\ UNCHANGED <<db, expired, config, work, faults>>

SetConfig ==
    /\ Change
    /\ config' \in Config /\ config' # config
    /\ UNCHANGED <<db, expired, active, work, faults>>

-----------------------------------------------------------------------------
Init ==
    /\ status = [d \in Decision |-> "ABSENT"]
    /\ kind = [d \in Decision |-> "observed"]
    /\ result = [d \in Decision |-> "none"]
    /\ expired = [d \in Decision |-> FALSE]
    /\ shadows = <<>>
    /\ suppressed = {}
    /\ active = [p \in Profile |-> TRUE]
    /\ config \in [single: BOOLEAN, off: {FALSE}]
    /\ work = [c \in Consumer |-> Idle]
    /\ changes = 0
    /\ faults = 0

(* A consumer's own progress, without faults. *)
Advance(c) ==
    \/ DirectLockProfile(c) \/ DirectCommit(c)
    \/ Classify(c) \/ GroupCommit(c) \/ MarkRetry(c)
    \/ \E d \in Decision : GroupLock(c, d) \/ Mark(c, d)

(* Waiting for the transaction's last lock. *)
Check(c) == DirectCheck(c) \/ GroupCheck(c)

Start(c) ==
    \/ \E d \in Decision : DirectOpen(c, d)
    \/ \E s \in Scan : ReadBatch(c, s)

Fault(c) == DirectError(c) \/ GroupError(c) \/ BatchError(c) \/ Crash(c)

Environment ==
    \/ \E d \in Decision : Persist(d)
    \/ \E i \in DOMAIN shadows : CloseShadow(i)
    \/ \E d \in Decision : Expire(d)
    \/ NextHour
    \/ \E p \in Profile : SetProfileStatus(p)
    \/ SetConfig

Next ==
    \/ \E c \in Consumer : Start(c) \/ Advance(c) \/ Check(c) \/ Fault(c)
    \/ \E c, k \in Consumer : DeadlockVictim(c, k)
    \/ Environment

Spec == Init /\ [][Next]_vars

(* Celery keeps running a started consumer, and PostgreSQL resolves every  *)
(* deadlock (WF).  Its lock queues are first come, first served, so a      *)
(* transaction is not overtaken for ever on its last lock (SF of Check).   *)
(* Every monitor pass goes through all selected events and scans, so none  *)
(* is passed over for ever (SF of the starts).  Nothing is assumed of the  *)
(* environment or of faults.                                               *)
Fairness ==
    /\ \A c \in Consumer : WF_vars(Advance(c)) /\ SF_vars(Check(c))
    /\ WF_vars(\E c, k \in Consumer : DeadlockVictim(c, k))
    /\ \A d \in Decision : SF_vars(\E c \in Consumer : DirectOpen(c, d))
    /\ \A s \in Scan : SF_vars(\E c \in Consumer : ReadBatch(c, s))

FairSpec == Spec /\ Fairness

-----------------------------------------------------------------------------
(* Properties. *)

(* Every variable and every consumer's local state has its type. *)
TypeOK ==
    /\ status \in [Decision -> {"ABSENT", "PENDING", "RETRY", "PROCESSED"}]
    /\ kind \in [Decision -> Kind]
    /\ result \in [Decision -> Result \cup {"none"}]
    /\ expired \in [Decision -> BOOLEAN]
    /\ shadows \in Seq(Row)
    /\ suppressed \in SUBSET Decision
    /\ active \in [Profile -> BOOLEAN]
    /\ config \in Config
    /\ work \in [Consumer -> Work]
    /\ changes \in Nat /\ faults \in Nat

(* However often an event is retried, re-read by a second consumer or left *)
(* half done by a crash, its decision gets at most one shadow trade, even  *)
(* when the first one has been closed in between.                          *)
OneShadowPerDecision ==
    \A i, j \in DOMAIN shadows : shadows[i].decision = shadows[j].decision => i = j

(* Of the shadows opened under consolidation - by a batch, whatever the    *)
(* setting says by then, or by a direct hand-off that found it on - at     *)
(* most one per symbol is open.                                            *)
Consolidated(row) == row.enforced \/ kind[row.decision] = "consolidation"
OneConsolidatedPosition ==
    \A i, j \in DOMAIN shadows :
        /\ Consolidated(shadows[i]) /\ Consolidated(shadows[j])
        /\ SymbolOf[shadows[i].decision] = SymbolOf[shadows[j].decision]
        /\ shadows[i].status = "RUNNING" /\ shadows[j].status = "RUNNING"
        => i = j

(* CREATED_OR_RECONCILED is only ever reported when there is a shadow      *)
(* behind it: the decision's own for a direct event, for a consolidated    *)
(* one a shadow of its profile for the same candle of the symbol.          *)
CreatedIsBacked ==
    \A d \in Decision : result[d] = Created =>
        \E i \in DOMAIN shadows :
            IF kind[d] = "direct" THEN shadows[i].decision = d
            ELSE SameSlot(shadows[i].decision, d) /\ SameEvent(shadows[i].decision, d)

(* The direct path creates the shadow and answers the event in one commit: *)
(* neither is ever seen without the other.                                 *)
DirectIsAtomic ==
    \A d \in Decision : kind[d] = "direct" => (OwnShadow(d) <=> result[d] = Created)

(* An event is only answered SUPPRESSED after an audit row for its         *)
(* decision has committed, also when another consumer did the suppressing. *)
SuppressionIsAudited ==
    \A d \in Decision :
        kind[d] = "consolidation" /\ result[d] \in Suppression => d \in suppressed

(* PROCESSED is terminal: a consumer that is late, retries or failed never *)
(* reopens an answered event nor rewrites its result.                      *)
AnswerIsFinal ==
    [][\A d \in Decision : status[d] = "PROCESSED" =>
            status'[d] = "PROCESSED" /\ result'[d] = result[d]]_vars

(* A shadow only opens under a profile that is active at that moment,      *)
(* however long ago the consumer read the profile's status.                *)
CaptureUnderActiveProfile ==
    [][\A i \in DOMAIN shadows' \ DOMAIN shadows :
            active[ProfileOf[shadows'[i].decision]]]_vars

(* Every event whose contract, and whose scan's contracts if it is         *)
(* consolidated, validate is eventually answered.                          *)
Answerable(d) ==
    /\ d \notin Malformed
    /\ kind[d] = "consolidation" => \A e \in Malformed : ScanOf[e] # ScanOf[d]
EveryEventAnswered ==
    \A d \in Decision : (Open(d) /\ Answerable(d)) ~> (status[d] = "PROCESSED")

-----------------------------------------------------------------------------
(* The inductive invariant behind TypeOK, OneShadowPerDecision,            *)
(* OneConsolidatedPosition, AnswerIsFinal and CaptureUnderActiveProfile.   *)

Direct == {"checked", "locked", "insert"}
Grouping == {"group", "groupInsert"}
Batching == {"read", "batch"} \cup Grouping

(* An event that was not inserted yet has no kind a batch would select.    *)
KindOK == \A d \in Decision : status[d] = "ABSENT" => kind[d] = "observed"

(* What a consumer's transaction holds still is as it was when it looked:  *)
(* a direct one its open event, an inserting one its active profile.       *)
Holds(c) ==
    /\ work[c].pc \in Direct =>
          /\ work[c].item \in Decision
          /\ Open(work[c].item) /\ kind[work[c].item] # "consolidation"
    /\ work[c].pc \in Batching => \A d \in work[c].batch : kind[d] = "consolidation"
    /\ work[c].pc \in Grouping => work[c].item \in work[c].batch
    /\ work[c].pc \in {"insert", "groupInsert"} => active[ProfileOf[work[c].item]]
WorkOK == \A c \in Consumer : Holds(c)

(* No two direct transactions hold the same event. *)
EventsExclusive ==
    \A c, k \in Consumer :
        work[c].pc \in Direct /\ work[k].pc \in Direct /\ work[c].item = work[k].item
            => c = k

(* Shadows belong to persisted decisions, and to none of a batch unless    *)
(* consolidation was enforced for it.                                      *)
RowsOK ==
    \A i \in DOMAIN shadows :
        /\ status[shadows[i].decision] # "ABSENT"
        /\ kind[shadows[i].decision] = "consolidation" => shadows[i].enforced

(* What the index of migration 141 enforces. *)
OneEnforced ==
    \A i, j \in DOMAIN shadows :
        /\ shadows[i].enforced /\ shadows[j].enforced
        /\ SymbolOf[shadows[i].decision] = SymbolOf[shadows[j].decision]
        /\ shadows[i].status = "RUNNING" /\ shadows[j].status = "RUNNING"
        => i = j

IInv == /\ TypeOK /\ KindOK /\ WorkOK /\ EventsExclusive
        /\ RowsOK /\ OneEnforced /\ OneShadowPerDecision

-----------------------------------------------------------------------------
(* The outbox implements the abstract hand-off. *)
HandoffOf(d) ==
    IF OwnShadow(d) THEN "captured"
    ELSE IF status[d] = "ABSENT" THEN "absent"
    ELSE IF status[d] = "PROCESSED" THEN "declined" ELSE "requested"

Handoff == INSTANCE ShadowHandoff WITH
    handoff <- [d \in Decision |-> HandoffOf(d)],
    batched <- [d \in Decision |-> kind[d] = "consolidation"]

ImplementsHandoff == Handoff!HSpec

(* Claims the code does not keep; no run checks them.                      *)

(* "Suppressed candidates are audit rows ...; they never become shadow     *)
(* trades" (l3_trade_consolidation.py, module docstring): no shadow opens  *)
(* for a decision whose event was answered with a lost ranking.            *)
SuppressedNeverCaptured ==
    [][\A i \in DOMAIN shadows' \ DOMAIN shadows :
            result[shadows'[i].decision] # LowerPriority]_vars

(* A retry reconciles by the winner's own decision before asking whether   *)
(* the symbol is covered (l3_trade_consolidation.py, comment S0.5).        *)
RetryReportsOwnShadow ==
    \A d \in Decision : status[d] = "PROCESSED" /\ OwnShadow(d) => result[d] = Created

=============================================================================
