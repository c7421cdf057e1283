--------------------------- MODULE L3Outbox_proofs ---------------------------
(***************************************************************************)
(* Proofs about the hand-off of L3 authorizations, for every set of        *)
(* decisions, profiles, symbols, scans and consumers.                      *)
(***************************************************************************)
EXTENDS L3Outbox, SequenceTheorems, TLAPS

(* The two local states a consumer falls back to are well typed.           *)
LEMMA IdleType == Idle \in Work
  BY DEF Idle, Work, Verdict, Config

LEMMA RetryType ==
  ASSUME NEW B \in SUBSET Decision
  PROVE  [Idle EXCEPT !.pc = "retry", !.batch = B] \in Work
  BY DEF Idle, Work, Verdict, Config

(* A judged group leaves its consumer well typed.                          *)
LEMMA JudgedType ==
  ASSUME NEW c \in Consumer, work[c] \in Work, NEW G,
         NEW v, \A d \in Decision : v[d] \in Verdict
  PROVE  Judged(c, G, v) \in Work
  BY DEF Judged, Work

LEMMA SuppressAllType ==
  ASSUME TypeOK, NEW c \in Consumer, NEW w \in Decision,
         NEW reason \in Verdict, SuppressAll(c, w, reason)
  PROVE  suppressed' \in SUBSET Decision /\ work' \in [Consumer -> Work]
<1>1. Judged(c, Group(c, w), [d \in Decision |-> reason]) \in Work
  BY JudgedType DEF TypeOK
<1>2. Group(c, w) \subseteq Decision
  BY DEF Group, Candidates, TypeOK, Work
<1>. QED  BY <1>1, <1>2 DEF SuppressAll, TypeOK

LEMMA CreditWinnerType ==
  ASSUME TypeOK, NEW c \in Consumer, NEW w \in Decision, CreditWinner(c, w)
  PROVE  suppressed' \in SUBSET Decision /\ work' \in [Consumer -> Work]
<1>1. Judged(c, Group(c, w), WinnerResult(w)) \in Work
  <2>1. \A d \in Decision : WinnerResult(w)[d] \in Verdict
    BY DEF WinnerResult, Verdict, Result, Suppression, Created, LowerPriority
  <2>. QED  BY <2>1, JudgedType DEF TypeOK
<1>2. Group(c, w) \subseteq Decision
  BY DEF Group, Candidates, TypeOK, Work
<1>. QED  BY <1>1, <1>2 DEF CreditWinner, TypeOK

-----------------------------------------------------------------------------
(* Type correctness of each kind of step. *)

LEMMA InsertType ==
  ASSUME TypeOK, NEW c \in Consumer, work[c].item \in Decision, Insert(c)
  PROVE  shadows' \in Seq(Row)
<1>1. NewRow(work[c].item, Enforced(c)) \in Row
  BY DEF NewRow, Row, Enforced, TypeOK, Work, Config
<1>. QED  BY <1>1 DEF Insert, TypeOK

LEMMA FinishType ==
  ASSUME TypeOK, NEW c \in Consumer, NEW d \in Decision, NEW r \in Result,
         Finish(c, d, r)
  PROVE  /\ status' \in [Decision -> {"ABSENT", "PENDING", "RETRY", "PROCESSED"}]
         /\ result' \in [Decision -> Result \cup {"none"}]
         /\ work' \in [Consumer -> Work]
  BY IdleType DEF Finish, TypeOK

LEMMA DirectOutcomeType == ASSUME NEW d PROVE DirectOutcome(d) \in Result
  BY DEF DirectOutcome, Result, Suppression

LEMMA StartType ==
  ASSUME TypeOK, NEW c \in Consumer, Start(c)
  PROVE  TypeOK'
<1>1. ASSUME NEW d \in Decision, DirectOpen(c, d)
      PROVE  TypeOK'
  <2>1. [Idle EXCEPT !.pc = "retry", !.batch = {d}] \in Work
    BY RetryType
  <2>2. [Idle EXCEPT !.pc = "checked", !.item = d, !.config = config] \in Work
    BY IdleType DEF Idle, Work, TypeOK
  <2>3. /\ status' \in [Decision -> {"ABSENT", "PENDING", "RETRY", "PROCESSED"}]
        /\ result' \in [Decision -> Result \cup {"none"}]
        /\ work' \in [Consumer -> Work]
    BY <1>1, <2>1, <2>2, FinishType DEF DirectOpen, Result, Immediate, TypeOK
  <2>. QED  BY <1>1, <2>3 DEF DirectOpen, TypeOK, env
<1>2. ASSUME NEW s \in Scan, ReadBatch(c, s)
      PROVE  TypeOK'
  <2>1. Batch(s) \in SUBSET Decision
    BY DEF Batch
  <2>2. \A pc \in {"read", "retry"} :
           [Idle EXCEPT !.pc = pc, !.batch = Batch(s)] \in Work
    BY <2>1, IdleType DEF Idle, Work
  <2>. QED  BY <1>2, <2>2 DEF ReadBatch, TypeOK, db, env
<1>. QED  BY <1>1, <1>2 DEF Start

LEMMA DirectType ==
  ASSUME TypeOK, NEW c \in Consumer, work[c].item \in Decision,
         DirectLockProfile(c) \/ DirectCheck(c) \/ DirectCommit(c)
  PROVE  TypeOK'
<1>1. ASSUME NEW pc \in {"locked", "insert"}
      PROVE  [work[c] EXCEPT !.pc = pc] \in Work
  BY DEF TypeOK, Work
<1>2. CASE DirectLockProfile(c)
  BY <1>2, <1>1, FinishType, DirectOutcomeType DEF DirectLockProfile, TypeOK, env
<1>3. CASE DirectCheck(c)
  BY <1>3, <1>1, FinishType, DirectOutcomeType DEF DirectCheck, TypeOK, env
<1>4. CASE DirectCommit(c)
  <2>1. Created \in Result
    BY DEF Result
  <2>2. shadows' \in Seq(Row)
    BY <1>4, InsertType DEF DirectCommit, TypeOK
  <2>. QED
    BY <1>4, <2>1, <2>2, FinishType, DirectOutcomeType DEF DirectCommit, TypeOK, env
<1>. QED  BY <1>2, <1>3, <1>4

LEMMA GroupType ==
  ASSUME TypeOK, NEW c \in Consumer,
         \/ \E w \in Decision : GroupLock(c, w)
         \/ work[c].item \in Decision /\ (GroupCheck(c) \/ GroupCommit(c))
  PROVE  TypeOK'
<1>1. ASSUME NEW w \in Decision, GroupLock(c, w)
      PROVE  TypeOK'
  <2>1. [work[c] EXCEPT !.pc = "group", !.item = w] \in Work
    BY DEF TypeOK, Work
  <2>2. ActiveTrade \in Verdict /\ ExpiredAfterLock \in Verdict
    BY DEF Verdict, Result, Suppression
  <2>3. suppressed' \in SUBSET Decision /\ work' \in [Consumer -> Work]
    BY <1>1, <2>1, <2>2, SuppressAllType DEF GroupLock, TypeOK
  <2>. QED  BY <1>1, <2>3 DEF GroupLock, TypeOK, env
<1>2. ASSUME work[c].item \in Decision, NothingCreated(c)
      PROVE  suppressed' \in SUBSET Decision /\ work' \in [Consumer -> Work]
  <2>1. ConcurrentTrade \in Verdict /\ UnresolvedRace \in Verdict
    BY DEF Verdict, Result, Suppression
  <2>. QED  BY <1>2, <2>1, SuppressAllType, CreditWinnerType DEF NothingCreated
<1>3. ASSUME work[c].item \in Decision, GroupCheck(c)
      PROVE  TypeOK'
  <2>1. [work[c] EXCEPT !.pc = "groupInsert"] \in Work
    BY DEF TypeOK, Work
  <2>2. suppressed' \in SUBSET Decision /\ work' \in [Consumer -> Work]
    BY <1>3, <1>2, <2>1 DEF GroupCheck, TypeOK
  <2>. QED  BY <1>3, <2>2 DEF GroupCheck, TypeOK, env
<1>4. ASSUME work[c].item \in Decision, GroupCommit(c)
      PROVE  TypeOK'
  <2>1. suppressed' \in SUBSET Decision /\ work' \in [Consumer -> Work]
    BY <1>4, <1>2, CreditWinnerType DEF GroupCommit
  <2>2. shadows' \in Seq(Row)
    BY <1>4, InsertType DEF GroupCommit, TypeOK
  <2>. QED  BY <1>4, <2>1, <2>2 DEF GroupCommit, TypeOK, env
<1>. QED  BY <1>1, <1>3, <1>4

LEMMA BatchType ==
  ASSUME TypeOK, NEW c \in Consumer,
         Classify(c) \/ MarkRetry(c) \/ \E d \in Decision : Mark(c, d)
  PROVE  TypeOK'
<1>1. CASE Classify(c)
  <2>1. \A d \in Decision : FirstVerdict(d) \in Verdict
    BY DEF FirstVerdict, Verdict, Result, Immediate
  <2>2. [work[c] EXCEPT !.pc = "batch",
                        !.verdict = [d \in Decision |->
                            IF d \in work[c].batch THEN FirstVerdict(d) ELSE "none"],
                        !.config = config] \in Work
    BY <2>1 DEF TypeOK, Work, Verdict
  <2>. QED  BY <1>1, <2>2 DEF Classify, TypeOK, db, env
<1>2. CASE MarkRetry(c)
  BY <1>2, IdleType DEF MarkRetry, TypeOK, env
<1>3. ASSUME NEW d \in Decision, Mark(c, d)
      PROVE  TypeOK'
  <2>1. work[c] \in Work
    BY DEF TypeOK
  <2>2. Marked(c, d) \in Work
    BY <2>1, IdleType DEF Marked, Work, Verdict
  <2>3. work[c].batch \in SUBSET Decision
    BY <2>1 DEF Work
  <2>4. [Idle EXCEPT !.pc = "retry", !.batch = work[c].batch] \in Work
    BY <2>3, RetryType
  <2>5. work[c].verdict[d] \in Verdict
    BY <2>1 DEF Work
  <2>6. /\ work[c].verdict[d] # "none"
        /\ work[c].verdict[d] # "candidate"
    BY <1>3 DEF Mark, ToMark, Candidates
  <2>7. work[c].verdict[d] # "ERROR" => work[c].verdict[d] \in Result
    BY <2>5, <2>6 DEF Verdict
  <2>8. /\ status' \in [Decision -> {"ABSENT", "PENDING", "RETRY", "PROCESSED"}]
        /\ result' \in [Decision -> Result \cup {"none"}]
        /\ work' \in [Consumer -> Work]
    BY <1>3, <2>2, <2>4, <2>7 DEF Mark, TypeOK
  <2>. QED  BY <1>3, <2>8 DEF Mark, TypeOK, env
<1>. QED  BY <1>1, <1>2, <1>3

LEMMA RollbackType ==
  ASSUME TypeOK, NEW c \in Consumer, work[c].item \in Decision, Rollback(c)
  PROVE  work' \in [Consumer -> Work]
  BY RetryType DEF Rollback, TypeOK

LEMMA FailGroupType ==
  ASSUME TypeOK, NEW c \in Consumer, FailGroup(c)
  PROVE  work' \in [Consumer -> Work]
<1>1. Judged(c, Group(c, work[c].item), [d \in Decision |-> "ERROR"]) \in Work
  BY JudgedType DEF Verdict, TypeOK
<1>. QED  BY <1>1 DEF FailGroup, TypeOK

LEMMA FaultType ==
  ASSUME TypeOK, NEW c \in Consumer,
         \/ work[c].item \in Decision /\ DirectError(c)
         \/ GroupError(c) \/ BatchError(c) \/ Crash(c)
         \/ \E k \in Consumer : work[c].item \in Decision /\ DeadlockVictim(c, k)
  PROVE  TypeOK'
<1>1. CASE work[c].item \in Decision /\ DirectError(c)
  BY <1>1, RollbackType DEF DirectError, TypeOK, db, env
<1>2. CASE GroupError(c)
  BY <1>2, FailGroupType DEF GroupError, TypeOK, db, env
<1>3. CASE BatchError(c)
  <2>1. work[c].batch \in SUBSET Decision
    BY DEF TypeOK, Work
  <2>2. [Idle EXCEPT !.pc = "retry", !.batch = work[c].batch] \in Work
    BY <2>1, RetryType
  <2>. QED  BY <1>3, <2>2 DEF BatchError, TypeOK, db, env
<1>4. CASE Crash(c)
  BY <1>4, IdleType DEF Crash, TypeOK, db, env
<1>5. ASSUME NEW k \in Consumer, work[c].item \in Decision, DeadlockVictim(c, k)
      PROVE  TypeOK'
  BY <1>5, RollbackType, FailGroupType DEF DeadlockVictim, TypeOK, db, env
<1>. QED  BY <1>1, <1>2, <1>3, <1>4, <1>5

LEMMA EnvironmentType ==
  ASSUME TypeOK, Environment
  PROVE  TypeOK'
<1>1. ASSUME NEW d \in Decision, Persist(d)
      PROVE  TypeOK'
  BY <1>1 DEF Persist, EventKind, Kind, TypeOK, env
<1>2. ASSUME NEW i \in DOMAIN shadows, CloseShadow(i)
      PROVE  TypeOK'
  <2>a. shadows[i] \in Row
    BY DEF TypeOK
  <2>1. [shadows[i] EXCEPT !.status = "COMPLETED"] \in Row
    BY <2>a DEF Row
  <2>2. shadows' = [shadows EXCEPT ![i] = [shadows[i] EXCEPT !.status = "COMPLETED"]]
    BY <1>2 DEF CloseShadow
  <2>3. shadows' \in Seq(Row)
    BY <2>1, <2>2 DEF TypeOK
  <2>. QED  BY <1>2, <2>3 DEF CloseShadow, TypeOK, env
<1>3. ASSUME NEW d \in Decision, Expire(d)
      PROVE  TypeOK'
  BY <1>3 DEF Expire, Change, TypeOK, db
<1>4. CASE NextHour
  <2>1. ASSUME NEW i \in DOMAIN shadows
        PROVE  [shadows[i] EXCEPT !.thisHour = FALSE] \in Row
    <3>1. shadows[i] \in Row
      BY DEF TypeOK
    <3>. QED  BY <3>1 DEF Row
  <2>2. /\ DOMAIN shadows = 1..Len(shadows) /\ Len(shadows) \in Nat
        /\ shadows' = [i \in DOMAIN shadows |-> [shadows[i] EXCEPT !.thisHour = FALSE]]
    BY <1>4 DEF NextHour, TypeOK
  <2>3. shadows' \in [1..Len(shadows) -> Row]
    BY <2>1, <2>2
  <2>4. shadows' \in Seq(Row)
    BY <2>2, <2>3, SeqDef
  <2>. QED  BY <1>4, <2>4 DEF NextHour, Change, TypeOK
<1>5. ASSUME NEW p \in Profile, SetProfileStatus(p)
      PROVE  TypeOK'
  BY <1>5 DEF SetProfileStatus, Change, TypeOK, db
<1>6. CASE SetConfig
  BY <1>6 DEF SetConfig, Change, TypeOK, db
<1>. QED  BY <1>1, <1>2, <1>3, <1>4, <1>5, <1>6 DEF Environment

-----------------------------------------------------------------------------
(* What the consumers hold.  A step of consumer c leaves the others' local *)
(* state alone, so only c's own hold and the events of the others that are *)
(* answered meanwhile have to be looked at.                                *)

OthersKept(c) == \A k \in Consumer \ {c} : work'[k] = work[k]
EventsKept(c) ==
  \A k \in Consumer \ {c} :
    work[k].pc \in Direct => status'[work[k].item] \in {"PENDING", "RETRY"}
TakesFreeEvent(c) ==
    work'[c].pc \in Direct =>
        \/ work[c].pc \in Direct /\ work'[c].item = work[c].item
        \/ \A k \in Consumer \ {c} : work[k].pc \in Direct => work[k].item # work'[c].item

LEMMA HoldsFrame ==
  ASSUME WorkOK, EventsExclusive, NEW c \in Consumer,
         kind' = kind, active' = active,
         OthersKept(c), EventsKept(c), TakesFreeEvent(c), Holds(c)'
  PROVE  WorkOK' /\ EventsExclusive'
<1>1. ASSUME NEW k \in Consumer
      PROVE  Holds(k)'
  BY <1>1 DEF WorkOK, Holds, OthersKept, EventsKept, Open
<1>2. EventsExclusive'
  BY DEF EventsExclusive, OthersKept, TakesFreeEvent
<1>. QED  BY <1>1, <1>2 DEF WorkOK

(* A consumer that ends up idle, waiting for its retry mark or between two *)
(* groups of the same batch holds nothing but its batch.                   *)
LEMMA ReleaseFrame ==
  ASSUME TypeOK, WorkOK, EventsExclusive, NEW c \in Consumer, NEW r \in Work,
         work' = [work EXCEPT ![c] = r],
         r.pc \in {"idle", "retry"} \/ (r.pc = "batch" /\ r.batch = work[c].batch
                                         /\ work[c].pc \in Batching),
         kind' = kind, active' = active, EventsKept(c)
  PROVE  WorkOK' /\ EventsExclusive'
<1>1. OthersKept(c) /\ work'[c] = r
  BY DEF OthersKept, TypeOK
<1>2. TakesFreeEvent(c)
  BY <1>1 DEF TakesFreeEvent, Direct
<1>3. Holds(c)'
  BY <1>1 DEF Holds, WorkOK, Direct, Batching, Grouping
<1>. QED  BY <1>1, <1>2, <1>3, HoldsFrame

LEMMA FinishFrame ==
  ASSUME TypeOK, WorkOK, EventsExclusive, NEW c \in Consumer, NEW d \in Decision,
         NEW r, Finish(c, d, r), kind' = kind, active' = active,
         \/ ~EventLocked(d)
         \/ work[c].pc \in Direct /\ work[c].item = d
  PROVE  WorkOK' /\ EventsExclusive'
<1>1. EventsKept(c)
  <2>1. ASSUME NEW k \in Consumer \ {c}, work[k].pc \in Direct
        PROVE  work[k].item # d
    BY <2>1 DEF EventLocked, EventsExclusive, Direct
  <2>2. ASSUME NEW k \in Consumer \ {c}, work[k].pc \in Direct
        PROVE  status'[work[k].item] \in {"PENDING", "RETRY"}
    BY <2>1, <2>2 DEF WorkOK, Holds, Open, Finish, TypeOK
  <2>. QED  BY <2>2 DEF EventsKept
<1>2. Idle.pc = "idle"
  BY DEF Idle
<1>. QED  BY <1>1, <1>2, IdleType, ReleaseFrame DEF Finish

LEMMA JudgedFields ==
  ASSUME TypeOK, NEW c \in Consumer, NEW G, NEW v
  PROVE  Judged(c, G, v).pc = "batch" /\ Judged(c, G, v).batch = work[c].batch
  BY DEF Judged, TypeOK, Work

(* Settling a group one way or another keeps the consumer in its batch.    *)
LEMMA JudgedFrame ==
  ASSUME TypeOK, WorkOK, EventsExclusive, NEW c \in Consumer, NEW G, NEW v,
         \A d \in Decision : v[d] \in Verdict,
         work[c].pc \in Batching, work' = [work EXCEPT ![c] = Judged(c, G, v)],
         kind' = kind, active' = active, status' = status
  PROVE  WorkOK' /\ EventsExclusive'
<1>1. Judged(c, G, v) \in Work
  BY JudgedType DEF TypeOK
<1>2. EventsKept(c)
  BY DEF EventsKept, WorkOK, Holds, Open
<1>. QED  BY <1>1, <1>2, JudgedFields, ReleaseFrame

HoldsPre == TypeOK /\ KindOK /\ WorkOK /\ EventsExclusive

LEMMA NothingCreatedFrame ==
  ASSUME HoldsPre, NEW c \in Consumer, work[c].item \in Decision,
         work[c].pc \in Batching, NothingCreated(c) \/ CreditWinner(c, work[c].item),
         kind' = kind, active' = active, status' = status
  PROVE  WorkOK' /\ EventsExclusive'
<1>1. ConcurrentTrade \in Verdict /\ UnresolvedRace \in Verdict
  BY DEF Verdict, Result, Suppression
<1>2. \A d \in Decision : WinnerResult(work[c].item)[d] \in Verdict
  BY DEF WinnerResult, Verdict, Result, Suppression, Created, LowerPriority
<1>. QED
  BY <1>1, <1>2, JudgedFrame DEF HoldsPre, NothingCreated, CreditWinner, SuppressAll

LEMMA StartHolds ==
  ASSUME HoldsPre, NEW c \in Consumer, Start(c)
  PROVE  WorkOK' /\ EventsExclusive'
<1>1. ASSUME NEW d \in Decision, DirectOpen(c, d)
      PROVE  WorkOK' /\ EventsExclusive'
  <2>0. /\ kind' = kind /\ active' = active
        /\ kind[d] # "consolidation" /\ Open(d) /\ ~EventLocked(d)
    BY <1>1 DEF DirectOpen, env
  <2>1. CASE \E r \in Result : Finish(c, d, r)
    BY <2>0, <2>1, FinishFrame DEF HoldsPre
  <2>2. CASE /\ status' = status
             /\ work' = [work EXCEPT ![c] = [Idle EXCEPT !.pc = "retry", !.batch = {d}]]
    <3>1. [Idle EXCEPT !.pc = "retry", !.batch = {d}] \in Work
      BY RetryType
    <3>2. [Idle EXCEPT !.pc = "retry", !.batch = {d}].pc = "retry"
      BY DEF Idle
    <3>3. EventsKept(c)
      BY <2>2 DEF EventsKept, HoldsPre, WorkOK, Holds, Open
    <3>. QED  BY <2>0, <2>2, <3>1, <3>2, <3>3, ReleaseFrame DEF HoldsPre
  <2>3. CASE /\ status' = status
             /\ work' = [work EXCEPT ![c] = [Idle EXCEPT !.pc = "checked", !.item = d,
                                                        !.config = config]]
    <3>1. OthersKept(c) /\ work'[c].pc = "checked" /\ work'[c].item = d
      BY <2>3 DEF OthersKept, HoldsPre, TypeOK, Idle
    <3>2. EventsKept(c)
      BY <2>3 DEF EventsKept, HoldsPre, WorkOK, Holds, Open
    <3>3. TakesFreeEvent(c)
      BY <2>0, <3>1 DEF TakesFreeEvent, EventLocked, Direct
    <3>4. Holds(c)'
      BY <2>0, <2>3, <3>1 DEF Holds, Open, Direct, Batching, Grouping
    <3>. QED  BY <2>0, <3>1, <3>2, <3>3, <3>4, HoldsFrame DEF HoldsPre
  <2>4. \/ \E r \in Result : Finish(c, d, r)
        \/ /\ status' = status
           /\ \/ work' = [work EXCEPT ![c] = [Idle EXCEPT !.pc = "retry", !.batch = {d}]]
              \/ work' = [work EXCEPT ![c] = [Idle EXCEPT !.pc = "checked", !.item = d,
                                                         !.config = config]]
    <3>1. {"AUTHORIZATION_EXPIRED", "NO_SHADOW_REQUIRED", "PROFILE_INACTIVE"} \subseteq Result
      BY DEF Result, Immediate
    <3>. QED  BY <1>1, <3>1, Zenon DEF DirectOpen
  <2>. QED  BY <2>1, <2>2, <2>3, <2>4
<1>2. ASSUME NEW s \in Scan, ReadBatch(c, s)
      PROVE  WorkOK' /\ EventsExclusive'
  <2>1. /\ OthersKept(c)
        /\ work'[c].pc \in {"read", "retry"} /\ work'[c].batch = Batch(s)
        /\ status' = status /\ kind' = kind /\ active' = active
    BY <1>2 DEF ReadBatch, OthersKept, HoldsPre, TypeOK, Idle, db, env
  <2>2. EventsKept(c)
    BY <2>1 DEF EventsKept, HoldsPre, WorkOK, Holds, Open
  <2>3. TakesFreeEvent(c)
    BY <2>1 DEF TakesFreeEvent, Direct
  <2>4. Holds(c)'
    BY <2>1 DEF Holds, Batch, Direct, Batching, Grouping
  <2>. QED  BY <2>1, <2>2, <2>3, <2>4, HoldsFrame DEF HoldsPre
<1>. QED  BY <1>1, <1>2 DEF Start

LEMMA DirectHolds ==
  ASSUME HoldsPre, NEW c \in Consumer,
         DirectLockProfile(c) \/ DirectCheck(c) \/ DirectCommit(c)
  PROVE  WorkOK' /\ EventsExclusive'
<1>1. /\ work[c].pc \in Direct /\ work[c].item \in Decision
      /\ kind' = kind /\ active' = active
  BY DEF DirectLockProfile, DirectCheck, DirectCommit, HoldsPre, WorkOK, Holds, Direct, env
<1>2. CASE \E r : Finish(c, work[c].item, r)
  BY <1>1, <1>2, FinishFrame DEF HoldsPre
<1>3. ASSUME NEW pc \in Direct, work' = [work EXCEPT ![c].pc = pc], status' = status,
             pc = "insert" => active[ProfileOf[work[c].item]]
      PROVE  WorkOK' /\ EventsExclusive'
  <2>1. OthersKept(c) /\ work'[c].pc = pc /\ work'[c].item = work[c].item
    BY <1>3 DEF OthersKept, HoldsPre, TypeOK, Work
  <2>2. EventsKept(c) /\ TakesFreeEvent(c)
    BY <1>1, <1>3, <2>1 DEF EventsKept, TakesFreeEvent, HoldsPre, WorkOK, Holds, Open
  <2>3. Holds(c)'
    BY <1>1, <1>3, <2>1 DEF Holds, HoldsPre, WorkOK, Open, Direct, Batching, Grouping
  <2>. QED  BY <1>1, <2>1, <2>2, <2>3, HoldsFrame DEF HoldsPre
<1>4. CASE DirectLockProfile(c)
  BY <1>2, <1>3, <1>4 DEF DirectLockProfile, Direct
<1>5. CASE DirectCheck(c)
  BY <1>2, <1>3, <1>5 DEF DirectCheck, RefusedTo, Refused, Direct
<1>6. CASE DirectCommit(c)
  BY <1>2, <1>6 DEF DirectCommit
<1>. QED  BY <1>4, <1>5, <1>6

LEMMA BatchHolds ==
  ASSUME HoldsPre, NEW c \in Consumer,
         Classify(c) \/ MarkRetry(c) \/ \E d \in Decision : Mark(c, d)
  PROVE  WorkOK' /\ EventsExclusive'
<1>1. CASE Classify(c)
  <2>1. /\ OthersKept(c)
        /\ work[c].pc = "read" /\ work'[c].pc = "batch" /\ work'[c].batch = work[c].batch
        /\ status' = status /\ kind' = kind /\ active' = active
    BY <1>1 DEF Classify, OthersKept, HoldsPre, TypeOK, Work, db, env
  <2>2. EventsKept(c)
    BY <2>1 DEF EventsKept, HoldsPre, WorkOK, Holds, Open
  <2>3. TakesFreeEvent(c)
    BY <2>1 DEF TakesFreeEvent, Direct
  <2>4. Holds(c)'
    BY <2>1 DEF Holds, HoldsPre, WorkOK, Direct, Batching, Grouping
  <2>. QED  BY <2>1, <2>2, <2>3, <2>4, HoldsFrame DEF HoldsPre
<1>2. CASE MarkRetry(c)
  <2>1. EventsKept(c)
    BY <1>2 DEF MarkRetry, EventsKept, HoldsPre, TypeOK, WorkOK, Holds, Open
  <2>2. Idle.pc = "idle"
    BY DEF Idle
  <2>. QED
    BY <1>2, <2>1, <2>2, IdleType, ReleaseFrame DEF MarkRetry, HoldsPre, env
<1>3. ASSUME NEW d \in Decision, Mark(c, d)
      PROVE  WorkOK' /\ EventsExclusive'
  <2>1. /\ work[c] \in Work /\ work[c].pc = "batch" /\ d \in work[c].batch
        /\ kind' = kind /\ active' = active
    BY <1>3 DEF Mark, ToMark, HoldsPre, TypeOK, env
  <2>2. kind[d] = "consolidation"
    BY <2>1 DEF HoldsPre, WorkOK, Holds, Batching
  <2>3. \A e \in Decision \ {d} : status'[e] = status[e]
    BY <1>3 DEF Mark, HoldsPre, TypeOK
  <2>4. EventsKept(c)
    BY <2>2, <2>3 DEF EventsKept, HoldsPre, WorkOK, Holds, Open
  <2>5. PICK r : /\ work' = [work EXCEPT ![c] = r]
                 /\ \/ r = Marked(c, d)
                    \/ r = [Idle EXCEPT !.pc = "retry", !.batch = work[c].batch]
    BY <1>3 DEF Mark
  <2>6. /\ r \in Work
        /\ r.pc \in {"idle", "retry"} \/ (r.pc = "batch" /\ r.batch = work[c].batch)
    <3>1. CASE r = Marked(c, d)
      <4>1. CASE r = Idle
        BY <4>1, IdleType DEF Idle
      <4>2. CASE r = [work[c] EXCEPT !.verdict[d] = "none"]
        BY <2>1, <4>2 DEF Work, Verdict
      <4>. QED  BY <3>1, <4>1, <4>2 DEF Marked
    <3>2. CASE r = [Idle EXCEPT !.pc = "retry", !.batch = work[c].batch]
      <4>1. r.pc = "retry"
        BY <3>2 DEF Idle
      <4>2. work[c].batch \in SUBSET Decision
        BY <2>1 DEF Work
      <4>. QED  BY <3>2, <4>1, <4>2, RetryType
    <3>. QED  BY <2>5, <3>1, <3>2
  <2>. QED
    BY <2>1, <2>4, <2>5, <2>6, ReleaseFrame DEF HoldsPre, Batching
<1>. QED  BY <1>1, <1>2, <1>3

LEMMA GroupHolds ==
  ASSUME HoldsPre, NEW c \in Consumer,
         GroupCheck(c) \/ GroupCommit(c) \/ \E w \in Decision : GroupLock(c, w)
  PROVE  WorkOK' /\ EventsExclusive'
<1>0. /\ kind' = kind /\ active' = active /\ status' = status
      /\ work[c].pc \in Batching /\ work[c] \in Work
  BY DEF GroupCheck, GroupCommit, GroupLock, Batching, Grouping, HoldsPre, TypeOK, env
<1>1. ASSUME NEW pc \in Grouping, NEW w \in work[c].batch,
             work' = [work EXCEPT ![c] = [work[c] EXCEPT !.pc = pc, !.item = w]],
             pc = "groupInsert" => active[ProfileOf[w]]
      PROVE  WorkOK' /\ EventsExclusive'
  <2>1. /\ OthersKept(c)
        /\ work'[c].pc = pc /\ work'[c].item = w /\ work'[c].batch = work[c].batch
    BY <1>0, <1>1 DEF OthersKept, HoldsPre, TypeOK, Work
  <2>2. EventsKept(c)
    BY <1>0 DEF EventsKept, HoldsPre, WorkOK, Holds, Open
  <2>3. TakesFreeEvent(c)
    BY <2>1 DEF TakesFreeEvent, Direct, Grouping
  <2>4. Holds(c)'
    BY <1>0, <1>1, <2>1 DEF Holds, HoldsPre, WorkOK, Direct, Batching, Grouping
  <2>. QED  BY <1>0, <2>1, <2>2, <2>3, <2>4, HoldsFrame DEF HoldsPre
<1>2. ASSUME NEW w \in Decision, GroupLock(c, w)
      PROVE  WorkOK' /\ EventsExclusive'
  <2>1. ASSUME NEW reason \in Verdict, SuppressAll(c, w, reason)
        PROVE  WorkOK' /\ EventsExclusive'
    <3>1. work' = [work EXCEPT ![c] = Judged(c, Group(c, w), [d \in Decision |-> reason])]
      BY <2>1 DEF SuppressAll
    <3>2. \A d \in Decision : [e \in Decision |-> reason][d] \in Verdict
      BY <2>1
    <3>. QED  BY <1>0, <3>1, <3>2, JudgedFrame DEF HoldsPre
  <2>2. CASE work' = [work EXCEPT ![c].pc = "group", ![c].item = w]
    <3>1. w \in work[c].batch
      BY <1>2 DEF GroupLock, Wins, Candidates
    <3>2. work' = [work EXCEPT ![c] = [work[c] EXCEPT !.pc = "group", !.item = w]]
      BY <2>2 DEF HoldsPre, TypeOK
    <3>. QED  BY <1>1, <3>1, <3>2 DEF Grouping
  <2>3. ActiveTrade \in Verdict /\ ExpiredAfterLock \in Verdict
    BY DEF Verdict, Result, Suppression
  <2>. QED  BY <1>2, <2>1, <2>2, <2>3 DEF GroupLock
<1>3. ASSUME GroupCheck(c) \/ GroupCommit(c)
      PROVE  WorkOK' /\ EventsExclusive'
  <2>1. work[c].pc \in Grouping
    BY <1>3 DEF GroupCheck, GroupCommit, Grouping
  <2>2. work[c].item \in work[c].batch /\ work[c].item \in Decision
    BY <1>0, <2>1 DEF HoldsPre, WorkOK, Holds, Work
  <2>3. CASE NothingCreated(c) \/ CreditWinner(c, work[c].item)
    BY <1>0, <2>2, <2>3, NothingCreatedFrame
  <2>4. CASE ~RefusedTo(c) /\ work' = [work EXCEPT ![c].pc = "groupInsert"]
    <3>1. active[ProfileOf[work[c].item]]
      BY <2>4 DEF RefusedTo, Refused
    <3>2. work' = [work EXCEPT ![c] = [work[c] EXCEPT !.pc = "groupInsert",
                                                     !.item = work[c].item]]
      BY <1>0, <2>4 DEF HoldsPre, TypeOK, Work
    <3>. QED  BY <1>1, <2>2, <3>1, <3>2 DEF Grouping
  <2>. QED  BY <1>3, <2>3, <2>4 DEF GroupCheck, GroupCommit
<1>. QED  BY <1>2, <1>3

LEMMA FaultHolds ==
  ASSUME HoldsPre, NEW c \in Consumer,
         \/ Fault(c)
         \/ \E k \in Consumer : DeadlockVictim(c, k)
  PROVE  WorkOK' /\ EventsExclusive'
<1>1. ASSUME NEW k \in Consumer, status' = status
      PROVE  EventsKept(k)
  BY <1>1 DEF EventsKept, HoldsPre, WorkOK, Holds, Open
<1>2. ASSUME NEW B \in SUBSET Decision, status' = status, kind' = kind, active' = active,
             work' = [work EXCEPT ![c] = [Idle EXCEPT !.pc = "retry", !.batch = B]]
      PROVE  WorkOK' /\ EventsExclusive'
  <2>1. [Idle EXCEPT !.pc = "retry", !.batch = B].pc = "retry"
    BY DEF Idle
  <2>. QED  BY <1>1, <1>2, <2>1, RetryType, ReleaseFrame DEF HoldsPre
<1>3. ASSUME NEW k \in Consumer, work[k].pc \in Grouping, FailGroup(k),
             status' = status, kind' = kind, active' = active
      PROVE  WorkOK' /\ EventsExclusive'
  <2>1. \A d \in Decision : [e \in Decision |-> "ERROR"][d] \in Verdict
    BY DEF Verdict
  <2>. QED  BY <1>3, <2>1, JudgedFrame DEF FailGroup, HoldsPre, Batching
<1>4. CASE DirectError(c)
  <2>1. work[c].item \in Decision
    BY <1>4 DEF DirectError, HoldsPre, WorkOK, Holds, Direct
  <2>2. {work[c].item} \in SUBSET Decision
    BY <2>1
  <2>. QED  BY <1>2, <1>4, <2>2 DEF DirectError, Rollback, db, env
<1>5. CASE GroupError(c)
  BY <1>3, <1>5 DEF GroupError, Grouping, db, env
<1>6. CASE BatchError(c)
  <2>1. work[c].batch \in SUBSET Decision
    BY DEF HoldsPre, TypeOK, Work
  <2>. QED  BY <1>2, <1>6, <2>1 DEF BatchError, db, env
<1>7. CASE Crash(c)
  <2>1. Idle.pc = "idle"
    BY DEF Idle
  <2>. QED  BY <1>1, <1>7, <2>1, IdleType, ReleaseFrame DEF Crash, HoldsPre, db, env
<1>8. ASSUME NEW k \in Consumer, DeadlockVictim(c, k)
      PROVE  WorkOK' /\ EventsExclusive'
  <2>1. work[c].item \in Decision
    BY <1>8 DEF DeadlockVictim, HoldsPre, WorkOK, Holds, Direct
  <2>2. {work[c].item} \in SUBSET Decision
    BY <2>1
  <2>3. status' = status /\ kind' = kind /\ active' = active
    BY <1>8 DEF DeadlockVictim, db, env
  <2>4. CASE Rollback(c)
    BY <1>2, <2>2, <2>3, <2>4 DEF Rollback
  <2>5. CASE FailGroup(k)
    BY <1>3, <1>8, <2>3, <2>5 DEF DeadlockVictim, Grouping
  <2>. QED  BY <1>8, <2>4, <2>5 DEF DeadlockVictim
<1>. QED  BY <1>4, <1>5, <1>6, <1>7, <1>8 DEF Fault

LEMMA EnvironmentHolds ==
  ASSUME ConstantsAssumption, HoldsPre, Environment
  PROVE  WorkOK' /\ EventsExclusive'
<1>1. work' = work
  BY DEF Environment, Persist, CloseShadow, Expire, NextHour, SetProfileStatus, SetConfig
<1>2. EventsExclusive'
  BY <1>1 DEF EventsExclusive, HoldsPre
<1>3. ASSUME NEW d \in Decision, Persist(d)
      PROVE  WorkOK'
  <2>1. /\ \A e \in Decision \ {d} : status'[e] = status[e] /\ kind'[e] = kind[e]
        /\ status[d] = "ABSENT" /\ kind[d] = "observed" /\ active' = active
    BY <1>3 DEF Persist, HoldsPre, TypeOK, KindOK, env
  <2>2. \A c \in Consumer : work[c] \in Work
    BY DEF HoldsPre, TypeOK
  <2>3. ASSUME NEW c \in Consumer
        PROVE  Holds(c)'
    BY <1>1, <2>1, <2>2 DEF HoldsPre, WorkOK, Holds, Open, Work, Direct, Batching, Grouping
  <2>. QED  BY <2>3 DEF WorkOK
<1>4. ASSUME NEW p \in Profile, SetProfileStatus(p)
      PROVE  WorkOK'
  <2>1. /\ status' = status /\ kind' = kind
        /\ \A q \in Profile \ {p} : active'[q] = active[q]
        /\ ~ProfileLocked(p)
    BY <1>4 DEF SetProfileStatus, HoldsPre, TypeOK, db
  <2>2. ASSUME NEW c \in Consumer, work[c].pc \in {"insert", "groupInsert"}
        PROVE  ProfileOf[work[c].item] \in Profile /\ ProfileOf[work[c].item] # p
    <3>1. work[c].item \in Decision
      BY <2>2 DEF HoldsPre, TypeOK, Work, WorkOK, Holds, Direct, Grouping, Batching
    <3>. QED  BY <2>1, <2>2, <3>1 DEF ProfileLocked, ConstantsAssumption
  <2>3. ASSUME NEW c \in Consumer
        PROVE  Holds(c)'
    BY <1>1, <2>1, <2>2 DEF HoldsPre, WorkOK, Holds, Open
  <2>. QED  BY <2>3 DEF WorkOK
<1>5. ASSUME status' = status, kind' = kind, active' = active
      PROVE  WorkOK'
  BY <1>1, <1>5 DEF HoldsPre, WorkOK, Holds, Open
<1>. QED
  BY <1>2, <1>3, <1>4, <1>5
     DEF Environment, CloseShadow, Expire, NextHour, SetConfig, db, env

-----------------------------------------------------------------------------
(* The rows. *)

RowsPre == HoldsPre /\ RowsOK /\ OneEnforced /\ OneShadowPerDecision
RowsPost == RowsOK' /\ OneEnforced' /\ OneShadowPerDecision'

(* No event goes back to ABSENT or changes kind once it is inserted. *)
EventsPersist ==
    \A d \in Decision : status[d] # "ABSENT" => status'[d] # "ABSENT" /\ kind'[d] = kind[d]

(* Rows that only close or age keep every property of the rows. *)
LEMMA RowsFrame ==
  ASSUME RowsPre, EventsPersist, DOMAIN shadows' = DOMAIN shadows,
         \A i \in DOMAIN shadows :
            /\ shadows'[i].decision = shadows[i].decision
            /\ shadows'[i].enforced = shadows[i].enforced
            /\ shadows'[i].status = "RUNNING" => shadows[i].status = "RUNNING"
  PROVE  RowsPost
<1>1. \A i \in DOMAIN shadows : shadows[i].decision \in Decision
  <2>1. \A i \in DOMAIN shadows : shadows[i] \in Row
    BY DEF RowsPre, HoldsPre, TypeOK
  <2>. QED  BY <2>1 DEF Row
<1>2. RowsOK'
  BY <1>1 DEF RowsPre, RowsOK, EventsPersist
<1>3. OneEnforced'
  BY DEF RowsPre, OneEnforced
<1>4. OneShadowPerDecision'
  BY DEF RowsPre, OneShadowPerDecision
<1>. QED  BY <1>2, <1>3, <1>4 DEF RowsPost

(* An insert no unique index yields to keeps them too. *)
LEMMA InsertFrame ==
  ASSUME RowsPre, EventsPersist, NEW c \in Consumer, work[c].item \in Decision,
         ~ConflictsFor(c), Insert(c), status[work[c].item] # "ABSENT",
         kind[work[c].item] = "consolidation" => Enforced(c)
  PROVE  RowsPost
<1> DEFINE n == Len(shadows)
           d == work[c].item
<1>1. /\ n \in Nat /\ DOMAIN shadows = 1..n
      /\ \A i \in 1..n : shadows[i] \in Row
  BY DEF RowsPre, HoldsPre, TypeOK
<1>2. NewRow(d, Enforced(c)) \in Row
  BY DEF NewRow, Row, Enforced, RowsPre, HoldsPre, TypeOK, Work, Config
<1>3. /\ DOMAIN shadows' = 1..(n + 1)
      /\ \A i \in 1..n : shadows'[i] = shadows[i]
      /\ shadows'[n + 1] = NewRow(d, Enforced(c))
  BY <1>1, <1>2 DEF Insert, RowsPre, HoldsPre, TypeOK
<1>4. NewRow(d, Enforced(c)).decision = d /\ NewRow(d, Enforced(c)).enforced = Enforced(c)
  BY DEF NewRow
<1>5. \A i \in 1..n :
        /\ shadows[i].decision # d
        /\ ~(/\ Enforced(c) /\ shadows[i].enforced /\ shadows[i].status = "RUNNING"
             /\ SymbolOf[shadows[i].decision] = SymbolOf[d])
  BY <1>1 DEF ConflictsFor, Conflicts, OwnShadow
<1>6. \A i \in 1..(n + 1) : i \in 1..n \/ i = n + 1
  BY <1>1
<1>7. \A i \in 1..n : shadows[i].decision \in Decision
  BY <1>1 DEF Row
<1>. HIDE DEF n, d
<1>8. RowsOK'
  BY <1>1, <1>3, <1>4, <1>6, <1>7 DEF RowsPre, RowsOK, EventsPersist, d
<1>9. OneEnforced'
  BY <1>1, <1>3, <1>4, <1>5, <1>6 DEF RowsPre, OneEnforced
<1>10. OneShadowPerDecision'
  BY <1>1, <1>3, <1>4, <1>5, <1>6 DEF RowsPre, OneShadowPerDecision
<1>. QED  BY <1>8, <1>9, <1>10 DEF RowsPost

(* An answered event was inserted, and answering or retrying it keeps it.  *)
LEMMA EventsStep ==
  ASSUME HoldsPre, [Next]_vars
  PROVE  EventsPersist
<1>1. ASSUME NEW d \in Decision, Persist(d)
      PROVE  EventsPersist
  BY <1>1 DEF Persist, EventsPersist, HoldsPre, TypeOK
<1>2. ASSUME NEW c \in Consumer, NEW d \in Decision, NEW r, Finish(c, d, r), kind' = kind
      PROVE  EventsPersist
  BY <1>2 DEF Finish, EventsPersist, HoldsPre, TypeOK
<1>3. ASSUME status' = status, kind' = kind
      PROVE  EventsPersist
  BY <1>3 DEF EventsPersist
<1>4. ASSUME NEW c \in Consumer, NEW d \in Decision, DirectOpen(c, d)
      PROVE  EventsPersist
  BY <1>2, <1>3, <1>4 DEF DirectOpen
<1>5. ASSUME NEW c \in Consumer,
             DirectLockProfile(c) \/ DirectCheck(c) \/ DirectCommit(c)
      PROVE  EventsPersist
  <2>1. work[c].item \in Decision
    BY <1>5 DEF DirectLockProfile, DirectCheck, DirectCommit, HoldsPre, WorkOK, Holds, Direct
  <2>. QED
    BY <1>2, <1>3, <1>5, <2>1 DEF DirectLockProfile, DirectCheck, DirectCommit
<1>6. ASSUME NEW c \in Consumer, NEW d \in Decision, Mark(c, d)
      PROVE  EventsPersist
  BY <1>6 DEF Mark, EventsPersist, HoldsPre, TypeOK
<1>7. ASSUME NEW c \in Consumer, MarkRetry(c)
      PROVE  EventsPersist
  BY <1>7 DEF MarkRetry, EventsPersist, HoldsPre, TypeOK
<1>8. ASSUME NEW c \in Consumer,
             \/ \E s \in Scan : ReadBatch(c, s)
             \/ Classify(c) \/ GroupCheck(c) \/ GroupCommit(c)
             \/ \E d \in Decision : GroupLock(c, d)
             \/ Fault(c)
             \/ \E k \in Consumer : DeadlockVictim(c, k)
      PROVE  EventsPersist
  BY <1>3, <1>8 DEF ReadBatch, Classify, GroupLock, GroupCheck, GroupCommit, Fault,
       DirectError, GroupError, BatchError, Crash, DeadlockVictim, db
<1>9. ASSUME \/ \E i \in DOMAIN shadows : CloseShadow(i)
             \/ NextHour \/ SetConfig
             \/ \E d \in Decision : Expire(d)
             \/ \E p \in Profile : SetProfileStatus(p)
             \/ UNCHANGED vars
      PROVE  EventsPersist
  BY <1>3, <1>9 DEF CloseShadow, NextHour, SetConfig, Expire, SetProfileStatus, db, vars
<1>. QED
  BY <1>1, <1>4, <1>5, <1>6, <1>7, <1>8, <1>9
     DEF Next, Start, Advance, Check, Environment

LEMMA RowsStep ==
  ASSUME RowsPre, [Next]_vars
  PROVE  RowsPost
<1>0. EventsPersist
  BY EventsStep DEF RowsPre
<1>1. ASSUME shadows' = shadows
      PROVE  RowsPost
  BY <1>0, <1>1, RowsFrame
<1>2. ASSUME NEW c \in Consumer, DirectCommit(c)
      PROVE  RowsPost
  <2>1. work[c].item \in Decision /\ Open(work[c].item) /\ kind[work[c].item] # "consolidation"
    BY <1>2 DEF DirectCommit, RowsPre, HoldsPre, WorkOK, Holds, Direct
  <2>2. CASE ConflictsFor(c)
    BY <1>1, <1>2, <2>2 DEF DirectCommit
  <2>3. CASE ~ConflictsFor(c)
    BY <1>0, <1>2, <2>1, <2>3, InsertFrame DEF DirectCommit, Open
  <2>. QED  BY <2>2, <2>3
<1>3. ASSUME NEW c \in Consumer, GroupCommit(c)
      PROVE  RowsPost
  <2>1. work[c].item \in Decision /\ kind[work[c].item] = "consolidation"
    BY <1>3 DEF GroupCommit, RowsPre, HoldsPre, TypeOK, Work, WorkOK, Holds, Grouping, Batching
  <2>2. status[work[c].item] # "ABSENT"
    BY <2>1 DEF RowsPre, HoldsPre, KindOK
  <2>3. Enforced(c)
    BY <1>3 DEF GroupCommit, Enforced
  <2>4. CASE ConflictsFor(c)
    BY <1>1, <1>3, <2>4 DEF GroupCommit
  <2>5. CASE ~ConflictsFor(c)
    BY <1>0, <1>3, <2>1, <2>2, <2>3, <2>5, InsertFrame DEF GroupCommit
  <2>. QED  BY <2>4, <2>5
<1>4. ASSUME NEW i \in DOMAIN shadows, CloseShadow(i)
      PROVE  RowsPost
  <2>1. DOMAIN shadows' = DOMAIN shadows /\ \A j \in DOMAIN shadows : shadows[j] \in Row
    BY <1>4 DEF CloseShadow, RowsPre, HoldsPre, TypeOK
  <2>2. \A j \in DOMAIN shadows :
          shadows'[j] = IF j = i THEN [shadows[i] EXCEPT !.status = "COMPLETED"] ELSE shadows[j]
    BY <1>4 DEF CloseShadow, RowsPre, HoldsPre, TypeOK
  <2>3. \A j \in DOMAIN shadows :
          /\ shadows'[j].decision = shadows[j].decision
          /\ shadows'[j].enforced = shadows[j].enforced
          /\ shadows'[j].status = "RUNNING" => shadows[j].status = "RUNNING"
    BY <2>1, <2>2 DEF Row
  <2>. QED  BY <1>0, <2>1, <2>3, RowsFrame
<1>5. CASE NextHour
  <2>1. DOMAIN shadows' = DOMAIN shadows /\ \A j \in DOMAIN shadows : shadows[j] \in Row
    BY <1>5 DEF NextHour, RowsPre, HoldsPre, TypeOK
  <2>2. \A j \in DOMAIN shadows : shadows'[j] = [shadows[j] EXCEPT !.thisHour = FALSE]
    BY <1>5 DEF NextHour
  <2>3. \A j \in DOMAIN shadows :
          /\ shadows'[j].decision = shadows[j].decision
          /\ shadows'[j].enforced = shadows[j].enforced
          /\ shadows'[j].status = "RUNNING" => shadows[j].status = "RUNNING"
    BY <2>1, <2>2 DEF Row
  <2>. QED  BY <1>0, <2>1, <2>3, RowsFrame
<1>6. ASSUME NEW c \in Consumer,
             \/ Start(c) \/ DirectLockProfile(c) \/ Classify(c) \/ MarkRetry(c)
             \/ \E d \in Decision : GroupLock(c, d) \/ Mark(c, d)
             \/ Check(c) \/ Fault(c)
             \/ \E k \in Consumer : DeadlockVictim(c, k)
      PROVE  RowsPost
  BY <1>1, <1>6 DEF Start, DirectOpen, ReadBatch, DirectLockProfile, Classify, MarkRetry,
       GroupLock, Mark, Check, DirectCheck, GroupCheck, Fault, DirectError, GroupError,
       BatchError, Crash, DeadlockVictim, db
<1>7. ASSUME \/ \E d \in Decision : Persist(d) \/ Expire(d)
             \/ \E p \in Profile : SetProfileStatus(p)
             \/ SetConfig \/ UNCHANGED vars
      PROVE  RowsPost
  BY <1>1, <1>7 DEF Persist, Expire, SetProfileStatus, SetConfig, db, vars
<1>. QED
  BY <1>2, <1>3, <1>4, <1>5, <1>6, <1>7 DEF Next, Advance, Environment

-----------------------------------------------------------------------------
(* The invariant. *)

LEMMA TypeStep ==
  ASSUME HoldsPre, [Next]_vars
  PROVE  TypeOK'
<1>1. ASSUME NEW c \in Consumer, DirectLockProfile(c) \/ DirectCheck(c) \/ DirectCommit(c)
      PROVE  TypeOK'
  <2>1. work[c].item \in Decision
    BY <1>1 DEF DirectLockProfile, DirectCheck, DirectCommit, HoldsPre, WorkOK, Holds, Direct
  <2>. QED  BY <1>1, <2>1, DirectType DEF HoldsPre
<1>2. ASSUME NEW c \in Consumer, GroupCheck(c) \/ GroupCommit(c)
      PROVE  TypeOK'
  <2>1. work[c].item \in Decision
    BY <1>2 DEF GroupCheck, GroupCommit, HoldsPre, TypeOK, Work, WorkOK, Holds, Grouping
  <2>. QED  BY <1>2, <2>1, GroupType DEF HoldsPre
<1>3. ASSUME NEW c \in Consumer,
             Fault(c) \/ \E k \in Consumer : DeadlockVictim(c, k)
      PROVE  TypeOK'
  <2>1. work[c].pc \in Direct => work[c].item \in Decision
    BY DEF HoldsPre, WorkOK, Holds
  <2>. QED
    BY <1>3, <2>1, FaultType DEF Fault, DirectError, DeadlockVictim, HoldsPre, Direct
<1>4. ASSUME NEW c \in Consumer,
             \/ Start(c) \/ Classify(c) \/ MarkRetry(c)
             \/ \E d \in Decision : GroupLock(c, d) \/ Mark(c, d)
      PROVE  TypeOK'
  BY <1>4, StartType, BatchType, GroupType DEF HoldsPre
<1>5. CASE UNCHANGED vars
  BY <1>5 DEF vars, HoldsPre, TypeOK
<1>. QED
  BY <1>1, <1>2, <1>3, <1>4, <1>5, EnvironmentType DEF Next, Advance, Check, HoldsPre

LEMMA HoldsStep ==
  ASSUME ConstantsAssumption, HoldsPre, [Next]_vars
  PROVE  WorkOK' /\ EventsExclusive'
<1>1. CASE UNCHANGED vars
  BY <1>1 DEF vars, HoldsPre, WorkOK, Holds, Open, EventsExclusive
<1>. QED
  BY <1>1, StartHolds, DirectHolds, BatchHolds, GroupHolds, FaultHolds, EnvironmentHolds
     DEF Next, Advance, Check

(* An event that is still ABSENT was not touched, so its kind is its       *)
(* initial one.                                                            *)
LEMMA KindStep ==
  ASSUME HoldsPre, [Next]_vars
  PROVE  KindOK'
<1>1. ASSUME NEW d \in Decision, Persist(d)
      PROVE  KindOK'
  BY <1>1 DEF Persist, KindOK, HoldsPre, TypeOK
<1>2. ASSUME kind' = kind
      PROVE  KindOK'
  BY <1>2, EventsStep DEF EventsPersist, KindOK, HoldsPre
<1>. QED
  BY <1>1, <1>2
     DEF Next, Start, Advance, Check, Fault, Environment, DirectOpen, ReadBatch,
         DirectLockProfile, DirectCheck, DirectCommit, Classify, GroupLock, GroupCheck,
         GroupCommit, Mark, MarkRetry, DirectError, GroupError, BatchError, Crash,
         DeadlockVictim, CloseShadow, Expire, NextHour, SetProfileStatus, SetConfig,
         db, vars

LEMMA InitIInv == Init => IInv
<1>1. ASSUME Init
      PROVE  TypeOK
  <2>0. shadows \in Seq(Row)
    BY <1>1 DEF Init
  <2>1. config \in Config /\ "observed" \in Kind
    BY <1>1 DEF Init, Config, Kind
  <2>2. work \in [Consumer -> Work]
    BY <1>1, IdleType DEF Init
  <2>. QED  BY <1>1, <2>0, <2>1, <2>2 DEF Init, TypeOK
<1>2. ASSUME Init
      PROVE  KindOK /\ WorkOK /\ EventsExclusive
  <2>1. \A c \in Consumer : work[c].pc = "idle"
    BY <1>2 DEF Init, Idle
  <2>2. KindOK
    BY <1>2 DEF Init, KindOK
  <2>. QED
    BY <2>1, <2>2 DEF WorkOK, Holds, EventsExclusive, Direct, Batching, Grouping
<1>3. ASSUME Init
      PROVE  RowsOK /\ OneEnforced /\ OneShadowPerDecision
  BY <1>3 DEF Init, RowsOK, OneEnforced, OneShadowPerDecision
<1>. QED  BY <1>1, <1>2, <1>3 DEF IInv

LEMMA StepIInv ==
  ASSUME ConstantsAssumption, IInv, [Next]_vars
  PROVE  IInv'
<1>1. HoldsPre /\ RowsPre
  BY DEF IInv, HoldsPre, RowsPre
<1>. QED
  BY <1>1, TypeStep, HoldsStep, KindStep, RowsStep DEF IInv, RowsPost

(* Every reachable state satisfies the inductive invariant. *)
THEOREM Invariance == Spec => []IInv
<1>1. IInv /\ [Next]_vars => IInv'
  BY StepIInv, ConstantsAssumption
<1>. QED  BY <1>1, InitIInv, PTL DEF Spec

(* The variables and the consumers' local state keep their types: no step  *)
(* answers an event with a value outside Result.                           *)
THEOREM TypeCorrect == Spec => []TypeOK
<1>1. IInv => TypeOK
  BY DEF IInv
<1>. QED  BY <1>1, Invariance, PTL

(* For any number of consumers, retries and crashes, no decision ever has  *)
(* two shadows (the index of the canonical decision, behind _create_from_  *)
(* decision's ON CONFLICT DO NOTHING).                                     *)
THEOREM AtMostOneShadow == Spec => []OneShadowPerDecision
<1>1. IInv => OneShadowPerDecision
  BY DEF IInv
<1>. QED  BY <1>1, Invariance, PTL

(* At most one open consolidated shadow per symbol, however the setting    *)
(* changes while batches and direct hand-offs are in flight.               *)
THEOREM AtMostOneConsolidated == Spec => []OneConsolidatedPosition
<1>1. IInv => OneConsolidatedPosition
  BY DEF IInv, RowsOK, OneEnforced, OneConsolidatedPosition, Consolidated
<1>. QED  BY <1>1, Invariance, PTL

-----------------------------------------------------------------------------
(* What a step may never do. *)

Final == \A d \in Decision : status[d] = "PROCESSED" =>
             status'[d] = "PROCESSED" /\ result'[d] = result[d]

LEMMA FinalStep ==
  ASSUME HoldsPre, [Next]_vars
  PROVE  Final
<1>1. ASSUME status' = status, result' = result
      PROVE  Final
  BY <1>1 DEF Final
<1>2. ASSUME NEW c \in Consumer, NEW d \in Decision, NEW r, Open(d), Finish(c, d, r)
      PROVE  Final
  BY <1>2 DEF Finish, Open, Final, HoldsPre, TypeOK
<1>3. ASSUME NEW c \in Consumer, NEW d \in Decision, DirectOpen(c, d)
      PROVE  Final
  BY <1>1, <1>2, <1>3 DEF DirectOpen
<1>4. ASSUME NEW c \in Consumer,
             DirectLockProfile(c) \/ DirectCheck(c) \/ DirectCommit(c)
      PROVE  Final
  <2>1. work[c].item \in Decision /\ Open(work[c].item)
    BY <1>4 DEF DirectLockProfile, DirectCheck, DirectCommit, HoldsPre, WorkOK, Holds, Direct
  <2>. QED
    BY <1>1, <1>2, <1>4, <2>1 DEF DirectLockProfile, DirectCheck, DirectCommit
<1>5. ASSUME NEW c \in Consumer, NEW d \in Decision, Mark(c, d)
      PROVE  Final
  BY <1>5 DEF Mark, Final, HoldsPre, TypeOK
<1>6. ASSUME NEW c \in Consumer, MarkRetry(c)
      PROVE  Final
  BY <1>6 DEF MarkRetry, Final, HoldsPre, TypeOK
<1>7. ASSUME NEW d \in Decision, Persist(d)
      PROVE  Final
  BY <1>7 DEF Persist, Final, HoldsPre, TypeOK
<1>8. ASSUME NEW c \in Consumer,
             \/ \E s \in Scan : ReadBatch(c, s)
             \/ Classify(c) \/ GroupCheck(c) \/ GroupCommit(c)
             \/ \E d \in Decision : GroupLock(c, d)
             \/ Fault(c)
             \/ \E k \in Consumer : DeadlockVictim(c, k)
      PROVE  Final
  BY <1>1, <1>8 DEF ReadBatch, Classify, GroupLock, GroupCheck, GroupCommit, Fault,
       DirectError, GroupError, BatchError, Crash, DeadlockVictim, db
<1>9. ASSUME \/ \E i \in DOMAIN shadows : CloseShadow(i)
             \/ NextHour \/ SetConfig
             \/ \E d \in Decision : Expire(d)
             \/ \E p \in Profile : SetProfileStatus(p)
             \/ UNCHANGED vars
      PROVE  Final
  BY <1>1, <1>9 DEF CloseShadow, NextHour, SetConfig, Expire, SetProfileStatus, db, vars
<1>. QED
  BY <1>3, <1>4, <1>5, <1>6, <1>7, <1>8, <1>9
     DEF Next, Start, Advance, Check, Environment

UnderActive == \A i \in DOMAIN shadows' \ DOMAIN shadows :
                  active[ProfileOf[shadows'[i].decision]]

LEMMA CaptureStep ==
  ASSUME HoldsPre, [Next]_vars
  PROVE  UnderActive
<1>1. ASSUME DOMAIN shadows' = DOMAIN shadows
      PROVE  UnderActive
  BY <1>1 DEF UnderActive
<1>2. ASSUME NEW c \in Consumer, DirectCommit(c) \/ GroupCommit(c)
      PROVE  UnderActive
  <2>1. active[ProfileOf[work[c].item]] /\ work[c].item \in Decision
    BY <1>2 DEF DirectCommit, GroupCommit, HoldsPre, TypeOK, Work, WorkOK, Holds,
         Direct, Grouping, Batching
  <2>2. CASE shadows' = shadows
    BY <1>1, <2>2
  <2>3. CASE Insert(c)
    <3>1. NewRow(work[c].item, Enforced(c)) \in Row
      BY <2>1 DEF NewRow, Row, Enforced, HoldsPre, TypeOK, Work, Config
    <3>2. /\ Len(shadows) \in Nat /\ DOMAIN shadows = 1..Len(shadows)
          /\ DOMAIN shadows' = 1..(Len(shadows) + 1)
          /\ shadows'[Len(shadows) + 1] = NewRow(work[c].item, Enforced(c))
      BY <2>3, <3>1 DEF Insert, HoldsPre, TypeOK
    <3>3. \A i \in DOMAIN shadows' \ DOMAIN shadows : i = Len(shadows) + 1
      BY <3>2
    <3>. QED  BY <2>1, <3>2, <3>3 DEF UnderActive, NewRow
  <2>. QED  BY <1>2, <2>2, <2>3 DEF DirectCommit, GroupCommit
<1>3. ASSUME NEW i \in DOMAIN shadows, CloseShadow(i)
      PROVE  UnderActive
  BY <1>1, <1>3 DEF CloseShadow, HoldsPre, TypeOK
<1>4. CASE NextHour
  BY <1>1, <1>4 DEF NextHour
<1>5. ASSUME NEW c \in Consumer,
             \/ Start(c) \/ DirectLockProfile(c) \/ Classify(c) \/ MarkRetry(c)
             \/ \E d \in Decision : GroupLock(c, d) \/ Mark(c, d)
             \/ Check(c) \/ Fault(c)
             \/ \E k \in Consumer : DeadlockVictim(c, k)
      PROVE  UnderActive
  BY <1>1, <1>5 DEF Start, DirectOpen, ReadBatch, DirectLockProfile, Classify, MarkRetry,
       GroupLock, Mark, Check, DirectCheck, GroupCheck, Fault, DirectError, GroupError,
       BatchError, Crash, DeadlockVictim, db
<1>6. ASSUME \/ \E d \in Decision : Persist(d) \/ Expire(d)
             \/ \E p \in Profile : SetProfileStatus(p)
             \/ SetConfig \/ UNCHANGED vars
      PROVE  UnderActive
  BY <1>1, <1>6 DEF Persist, Expire, SetProfileStatus, SetConfig, db, vars
<1>. QED
  BY <1>2, <1>3, <1>4, <1>5, <1>6 DEF Next, Advance, Environment

(* A PROCESSED event is never reopened and its result never rewritten, by  *)
(* any consumer however stale (the status re-reads under FOR UPDATE in     *)
(* _process_direct, _mark_processed and _mark_retry).                      *)
THEOREM AnswersAreFinal == Spec => AnswerIsFinal
<1>1. IInv /\ [Next]_vars => Final
  BY FinalStep DEF IInv, HoldsPre
<1>2. Final => (\A d \in Decision : status[d] = "PROCESSED" =>
                    status'[d] = "PROCESSED" /\ result'[d] = result[d])
  BY DEF Final
<1>. QED  BY <1>1, <1>2, Invariance, PTL DEF Spec, AnswerIsFinal

(* A shadow only ever opens under a profile that is active in that very    *)
(* state: _create_from_decision and apply_profile_status lock its row.     *)
THEOREM CapturesUnderActiveProfile == Spec => CaptureUnderActiveProfile
<1>1. IInv /\ [Next]_vars => UnderActive
  BY CaptureStep DEF IInv, HoldsPre
<1>2. UnderActive => (\A i \in DOMAIN shadows' \ DOMAIN shadows :
                          active[ProfileOf[shadows'[i].decision]])
  BY DEF UnderActive
<1>. QED  BY <1>1, <1>2, Invariance, PTL DEF Spec, CaptureUnderActiveProfile

=============================================================================
