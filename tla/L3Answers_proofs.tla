-------------------------- MODULE L3Answers_proofs --------------------------
(***************************************************************************)
(* What the answers of the L3 hand-off mean: which rows stand behind them, *)
(* and that the outbox implements ShadowHandoff.                           *)
(***************************************************************************)
EXTENDS L3Outbox_proofs

(* An open event has no answer yet.                                        *)
Unanswered == \A d \in Decision : status[d] # "PROCESSED" => result[d] = "none"

(* A shadow of the decision's profile for its candle of the symbol.        *)
Backed(d) == \E i \in DOMAIN shadows :
    SameSlot(shadows[i].decision, d) /\ SameEvent(shadows[i].decision, d)

(* What a consumer is about to answer is true already: the group's         *)
(* transaction has committed before its events are marked.                 *)
VerdictsOK == \A c \in Consumer : \A d \in Decision :
    /\ work[c].verdict[d] \in Suppression => d \in suppressed
    /\ work[c].verdict[d] = Created => Backed(d)

(* A batch holds inserted events only.                                     *)
BatchesInserted == \A c \in Consumer : \A d \in work[c].batch : status[d] # "ABSENT"

AnswersOK == /\ Unanswered /\ DirectIsAtomic /\ SuppressionIsAudited
             /\ CreatedIsBacked
AInv == IInv /\ AnswersOK /\ VerdictsOK /\ BatchesInserted

-----------------------------------------------------------------------------
(* Rows and audit rows are never taken back.                               *)
RowsGrow ==
    /\ \A i \in DOMAIN shadows :
          i \in DOMAIN shadows' /\ shadows'[i].decision = shadows[i].decision
    /\ suppressed \subseteq suppressed'

SameOwners == \A d \in Decision : OwnShadow(d)' <=> OwnShadow(d)
Captures(d) ==
    /\ ~OwnShadow(d)
    /\ \A e \in Decision : OwnShadow(e)' <=> OwnShadow(e) \/ e = d

LEMMA KeptRows ==
  ASSUME shadows' = shadows
  PROVE  SameOwners
  BY DEF SameOwners, OwnShadow

(* An insert adds the shadow of one decision that had none.                *)
LEMMA InsertCaptures ==
  ASSUME TypeOK, NEW c \in Consumer, work[c].item \in Decision,
         ~ConflictsFor(c), Insert(c)
  PROVE  /\ Captures(work[c].item)
         /\ \A i \in DOMAIN shadows :
               i \in DOMAIN shadows' /\ shadows'[i].decision = shadows[i].decision
<1> DEFINE n == Len(shadows)
           d == work[c].item
           r == NewRow(d, Enforced(c))
<1>1. n \in Nat /\ DOMAIN shadows = 1..n /\ shadows \in Seq(Row)
  BY DEF TypeOK
<1>2. r \in Row /\ r.decision = d
  BY DEF NewRow, Row, Enforced, TypeOK, Work, Config
<1>3. /\ DOMAIN shadows' = 1..(n + 1)
      /\ \A i \in 1..n : shadows'[i] = shadows[i]
      /\ shadows'[n + 1] = r
  BY <1>1, <1>2 DEF Insert
<1>4. ~OwnShadow(d)
  BY DEF ConflictsFor, Conflicts
<1> HIDE DEF n, d, r
<1>5. ASSUME NEW e \in Decision
      PROVE  OwnShadow(e)' <=> OwnShadow(e) \/ e = d
  <2>1. \A i : i \in 1..(n + 1) <=> i \in 1..n \/ i = n + 1
    BY <1>1
  <2> QED
    BY <1>1, <1>2, <1>3, <2>1 DEF OwnShadow
<1> QED
  BY <1>1, <1>3, <1>4, <1>5 DEF Captures, d

(* Closing and ageing change no row's decision.                            *)
LEMMA AgeingKeeps ==
  ASSUME TypeOK, NextHour \/ \E i \in DOMAIN shadows : CloseShadow(i)
  PROVE  /\ SameOwners
         /\ \A i \in DOMAIN shadows :
               i \in DOMAIN shadows' /\ shadows'[i].decision = shadows[i].decision
<1>1. \A i \in DOMAIN shadows : shadows[i] \in Row
  BY DEF TypeOK
<1>2. /\ DOMAIN shadows' = DOMAIN shadows
      /\ \A i \in DOMAIN shadows : shadows'[i].decision = shadows[i].decision
  <2>1. CASE NextHour
    BY <1>1, <2>1 DEF NextHour, Row
  <2>2. ASSUME NEW i \in DOMAIN shadows, CloseShadow(i)
        PROVE  /\ DOMAIN shadows' = DOMAIN shadows
               /\ \A j \in DOMAIN shadows : shadows'[j].decision = shadows[j].decision
    <3>1. DOMAIN shadows' = DOMAIN shadows
      BY <2>2 DEF CloseShadow, TypeOK
    <3>2. \A j \in DOMAIN shadows :
             shadows'[j] = IF j = i THEN [shadows[i] EXCEPT !.status = "COMPLETED"]
                                    ELSE shadows[j]
      BY <2>2 DEF CloseShadow, TypeOK
    <3> QED
      BY <1>1, <3>1, <3>2 DEF Row
  <2> QED
    BY <2>1, <2>2
<1> QED
  BY <1>2 DEF SameOwners, OwnShadow

-----------------------------------------------------------------------------
(* The steps by their effect on events and shadows.                        *)

Quiet ==
    /\ kind' = kind /\ result' = result /\ SameOwners
    /\ \A d \in Decision : status'[d] = status[d] \/ (Open(d) /\ status'[d] = "RETRY")

Answers(d, r) ==
    /\ Open(d)
    /\ status' = [status EXCEPT ![d] = "PROCESSED"]
    /\ result' = [result EXCEPT ![d] = r]
    /\ kind' = kind

(* An answer that says nothing false.                                      *)
Truthful(d, r) ==
    /\ kind[d] = "direct" => (OwnShadow(d) <=> r = Created)
    /\ kind[d] = "observed" => (r = Created => OwnShadow(d))
    /\ kind[d] = "consolidation" => /\ r \in Suppression => d \in suppressed
                                    /\ r = Created => Backed(d)

AnswersOnly == \E d \in Decision : \E r \in Result :
    Answers(d, r) /\ Truthful(d, r) /\ SameOwners /\ suppressed' = suppressed
CapturesDirect == \E d \in Decision :
    Answers(d, Created) /\ kind[d] # "consolidation" /\ Captures(d)
CapturesBatched == \E d \in Decision :
    /\ kind[d] = "consolidation" /\ status[d] # "ABSENT" /\ Captures(d)
    /\ UNCHANGED <<status, kind, result>>

Effect == \/ Quiet \/ AnswersOnly \/ CapturesDirect \/ CapturesBatched
          \/ \E d \in Decision : Persist(d)

(* A hand-off that found its own earlier shadow reports it.                *)
LEMMA OutcomeTruthful ==
  ASSUME NEW d \in Decision, kind[d] # "consolidation"
  PROVE  Truthful(d, DirectOutcome(d)) /\ DirectOutcome(d) \in Result
<1>1. DirectOutcome(d) = Created <=> OwnShadow(d)
  BY DEF DirectOutcome, Created, ActiveTrade
<1> QED
  BY <1>1, DirectOutcomeType DEF Truthful

LEMMA FinishAnswers ==
  ASSUME NEW c \in Consumer, NEW d \in Decision, NEW r \in Result, Open(d),
         Finish(c, d, r), Truthful(d, r), kind' = kind, shadows' = shadows,
         suppressed' = suppressed
  PROVE  Effect
  BY KeptRows DEF Finish, Answers, AnswersOnly, Effect

LEMMA OpenEffect ==
  ASSUME AInv, NEW c \in Consumer, NEW d \in Decision, DirectOpen(c, d)
  PROVE  Effect
<1>1. /\ kind[d] # "consolidation" /\ Open(d) /\ kind' = kind
      /\ shadows' = shadows /\ suppressed' = suppressed
  BY DEF DirectOpen
<1>2. result[d] = "none"
  BY <1>1 DEF AInv, AnswersOK, Unanswered, Open
<1>3. kind[d] = "direct" => ~OwnShadow(d)
  BY <1>2 DEF AInv, AnswersOK, DirectIsAtomic, Created
<1>4. ASSUME NEW r \in {"AUTHORIZATION_EXPIRED", "NO_SHADOW_REQUIRED", "PROFILE_INACTIVE"},
             Finish(c, d, r)
      PROVE  Effect
  <2>1. r \in Result /\ Truthful(d, r)
    BY <1>1, <1>3 DEF Truthful, Result, Immediate, Created
  <2> QED
    BY <1>1, <1>4, <2>1, FinishAnswers
<1>5. CASE UNCHANGED <<status, result>>
  BY <1>1, <1>5, KeptRows DEF Quiet, Effect
<1> QED
  BY <1>4, <1>5, Zenon DEF DirectOpen

LEMMA DirectEffect ==
  ASSUME AInv, NEW c \in Consumer,
         DirectLockProfile(c) \/ DirectCheck(c) \/ DirectCommit(c)
  PROVE  Effect
<1> DEFINE d == work[c].item
<1>1. /\ d \in Decision /\ Open(d) /\ kind[d] # "consolidation"
      /\ kind' = kind /\ suppressed' = suppressed /\ TypeOK
  BY DEF DirectLockProfile, DirectCheck, DirectCommit, AInv, IInv, WorkOK, Holds, Direct
<1>2. Truthful(d, DirectOutcome(d)) /\ DirectOutcome(d) \in Result
  BY <1>1, OutcomeTruthful
<1> HIDE DEF d
<1>3. ASSUME Finish(c, d, DirectOutcome(d)), shadows' = shadows
      PROVE  Effect
  BY <1>1, <1>2, <1>3, FinishAnswers
<1>4. ASSUME UNCHANGED <<status, result>>, shadows' = shadows
      PROVE  Effect
  BY <1>1, <1>4, KeptRows DEF Quiet, Effect
<1>5. ASSUME ~ConflictsFor(c), Insert(c), Finish(c, d, Created)
      PROVE  Effect
  <2>1. Captures(d)
    BY <1>1, <1>5, InsertCaptures DEF d
  <2> QED
    BY <1>1, <1>5, <2>1 DEF Finish, Answers, CapturesDirect, Effect
<1>6. CASE DirectLockProfile(c)
  BY <1>3, <1>4, <1>6, Zenon DEF DirectLockProfile, d
<1>7. CASE DirectCheck(c)
  BY <1>3, <1>4, <1>7, Zenon DEF DirectCheck, d
<1>8. CASE DirectCommit(c)
  BY <1>3, <1>5, <1>8, Zenon DEF DirectCommit, d
<1> QED
  BY <1>6, <1>7, <1>8

LEMMA GroupEffect ==
  ASSUME AInv, NEW c \in Consumer, GroupCommit(c)
  PROVE  Effect
<1>1. /\ work[c].item \in Decision /\ kind[work[c].item] = "consolidation" /\ TypeOK
  BY DEF GroupCommit, AInv, IInv, TypeOK, Work, WorkOK, Holds, Grouping, Batching
<1>2. status[work[c].item] # "ABSENT"
  BY <1>1 DEF AInv, IInv, KindOK
<1>3. CASE ConflictsFor(c)
  BY <1>3, KeptRows DEF GroupCommit, Quiet, Effect
<1>4. CASE ~ConflictsFor(c)
  BY <1>1, <1>2, <1>4, InsertCaptures DEF GroupCommit, CapturesBatched, Effect
<1> QED
  BY <1>3, <1>4

LEMMA MarkEffect ==
  ASSUME AInv, NEW c \in Consumer,
         MarkRetry(c) \/ \E d \in Decision : Mark(c, d)
  PROVE  Effect
<1>0. TypeOK
  BY DEF AInv, IInv
<1>1. CASE MarkRetry(c)
  <2>1. \A d \in Decision : status'[d] = status[d] \/ (Open(d) /\ status'[d] = "RETRY")
    <3> SUFFICES ASSUME NEW d \in Decision, d \in work[c].batch, status[d] # "PROCESSED"
                 PROVE  Open(d) /\ status'[d] = "RETRY"
      BY <1>0, <1>1 DEF MarkRetry, TypeOK
    <3>1. status[d] # "ABSENT"
      BY DEF AInv, BatchesInserted
    <3> QED
      BY <1>0, <1>1, <3>1 DEF MarkRetry, Open, TypeOK
  <2> QED
    BY <1>1, <2>1, KeptRows DEF MarkRetry, Quiet, Effect
<1>2. ASSUME NEW d \in Decision, Mark(c, d)
      PROVE  Effect
  <2>1. /\ kind' = kind /\ shadows' = shadows /\ suppressed' = suppressed
        /\ d \in work[c].batch /\ work[c].pc = "batch" /\ work[c] \in Work
    BY <1>0, <1>2 DEF Mark, ToMark, TypeOK
  <2>2. kind[d] = "consolidation" /\ status[d] # "ABSENT"
    BY <2>1 DEF AInv, IInv, WorkOK, Holds, Batching, KindOK
  <2>3. CASE UNCHANGED <<status, result>>
    BY <2>1, <2>3, KeptRows DEF Quiet, Effect
  <2>4. CASE /\ work[c].verdict[d] # "ERROR" /\ status[d] # "PROCESSED"
             /\ status' = [status EXCEPT ![d] = "PROCESSED"]
             /\ result' = [result EXCEPT ![d] = work[c].verdict[d]]
    <3>1. work[c].verdict[d] \in Result
      BY <1>2, <2>1, <2>4 DEF Mark, ToMark, Candidates, Work, Verdict
    <3>2. Open(d)
      BY <1>0, <2>2, <2>4 DEF Open, TypeOK
    <3>3. Truthful(d, work[c].verdict[d])
      BY <2>2 DEF Truthful, AInv, VerdictsOK
    <3> QED
      BY <2>1, <2>4, <3>1, <3>2, <3>3, KeptRows DEF Answers, AnswersOnly, Effect
  <2> QED
    BY <1>2, <2>3, <2>4 DEF Mark
<1> QED
  BY <1>1, <1>2

LEMMA StepEffect ==
  ASSUME AInv, [Next]_vars
  PROVE  Effect
<1>1. ASSUME UNCHANGED <<status, kind, result, shadows>>
      PROVE  Effect
  BY <1>1, KeptRows DEF Quiet, Effect
<1>2. ASSUME NEW c \in Consumer,
             \/ \E s \in Scan : ReadBatch(c, s)
             \/ Classify(c) \/ GroupCheck(c)
             \/ \E d \in Decision : GroupLock(c, d)
             \/ Fault(c)
             \/ \E k \in Consumer : DeadlockVictim(c, k)
      PROVE  Effect
  BY <1>1, <1>2 DEF ReadBatch, Classify, GroupLock, GroupCheck, Fault,
       DirectError, GroupError, BatchError, Crash, DeadlockVictim, db
<1>3. ASSUME \/ \E d \in Decision : Expire(d)
             \/ \E p \in Profile : SetProfileStatus(p)
             \/ SetConfig \/ UNCHANGED vars
      PROVE  Effect
  BY <1>1, <1>3 DEF Expire, SetProfileStatus, SetConfig, db, vars
<1>4. CASE NextHour \/ \E i \in DOMAIN shadows : CloseShadow(i)
  <2>1. SameOwners
    BY <1>4, AgeingKeeps DEF AInv, IInv
  <2> QED
    BY <1>4, <2>1 DEF NextHour, CloseShadow, Quiet, Effect
<1>5. CASE \E d \in Decision : Persist(d)
  BY <1>5 DEF Effect
<1> QED
  BY <1>2, <1>3, <1>4, <1>5, OpenEffect, DirectEffect, GroupEffect, MarkEffect
     DEF Next, Start, Advance, Check, Environment

-----------------------------------------------------------------------------
(* The answers.                                                            *)

LEMMA OwnIsBacked ==
  ASSUME NEW d \in Decision, OwnShadow(d)
  PROVE  Backed(d)
  BY DEF OwnShadow, Backed, SameSlot, SameEvent

LEMMA BackedStays ==
  ASSUME RowsGrow, NEW d \in Decision, Backed(d)
  PROVE  Backed(d)'
  BY DEF RowsGrow, Backed, SameSlot, SameEvent

LEMMA BackedAnswers ==
  CreatedIsBacked <=>
    \A d \in Decision : result[d] = Created =>
        IF kind[d] = "direct" THEN OwnShadow(d) ELSE Backed(d)
  BY DEF CreatedIsBacked, OwnShadow, Backed

(* What an answered event says stays true, and a new answer is true.       *)
LEMMA AnswersStep ==
  ASSUME AInv, Effect, RowsGrow
  PROVE  AnswersOK'
<1>1. /\ TypeOK /\ Unanswered /\ DirectIsAtomic /\ SuppressionIsAudited
      /\ \A d \in Decision : result[d] = Created =>
             IF kind[d] = "direct" THEN OwnShadow(d) ELSE Backed(d)
  BY BackedAnswers DEF AInv, IInv, AnswersOK
<1>2. Suppression \subseteq Result \ {Created} /\ "none" \notin Result
  BY DEF Suppression, Result, Created, Immediate, ActiveTrade, LowerPriority,
     ExpiredAfterLock, ConcurrentTrade, UnresolvedRace
<1>3. Created \in Result
  BY DEF Result
<1>4. SUFFICES ASSUME NEW d \in Decision
      PROVE /\ status'[d] # "PROCESSED" => result'[d] = "none"
            /\ kind'[d] = "direct" => (OwnShadow(d)' <=> result'[d] = Created)
            /\ kind'[d] = "consolidation" /\ result'[d] \in Suppression => d \in suppressed'
            /\ result'[d] = Created => IF kind'[d] = "direct" THEN OwnShadow(d)' ELSE Backed(d)'
  <2>1. CreatedIsBacked' <=>
          \A d \in Decision : result'[d] = Created =>
              IF kind'[d] = "direct" THEN OwnShadow(d)' ELSE Backed(d)'
    BY DEF CreatedIsBacked, OwnShadow, Backed
  <2> QED
    BY <1>4, <2>1 DEF AnswersOK, Unanswered, DirectIsAtomic, SuppressionIsAudited
<1>5. /\ Backed(d) => Backed(d)'
      /\ OwnShadow(d) => Backed(d)
      /\ d \in suppressed => d \in suppressed'
  BY BackedStays, OwnIsBacked DEF RowsGrow
<1>6. CASE Quiet
  BY <1>1, <1>5, <1>6 DEF Quiet, SameOwners, Open, Unanswered, DirectIsAtomic,
     SuppressionIsAudited
<1>7. CASE AnswersOnly
  <2>1. PICK e \in Decision, r \in Result :
           Answers(e, r) /\ Truthful(e, r) /\ SameOwners
    BY <1>7 DEF AnswersOnly
  <2>2. CASE d # e
    BY <1>1, <1>5, <2>1, <2>2 DEF TypeOK, Answers, SameOwners, Unanswered, DirectIsAtomic,
       SuppressionIsAudited
  <2>3. CASE d = e
    <3>1. status'[d] = "PROCESSED" /\ result'[d] = r /\ kind'[d] = kind[d]
      BY <1>1, <2>1, <2>3 DEF Answers, TypeOK
    <3>2. kind[d] \in Kind /\ (OwnShadow(d)' <=> OwnShadow(d))
      BY <1>1, <2>1 DEF SameOwners, TypeOK
    <3> QED
      BY <1>5, <2>1, <2>3, <3>1, <3>2 DEF Truthful, Kind
  <2> QED
    BY <2>2, <2>3
<1>8. CASE CapturesDirect
  <2>1. PICK e \in Decision :
           Answers(e, Created) /\ kind[e] # "consolidation" /\ Captures(e)
    BY <1>8 DEF CapturesDirect
  <2>2. CASE d # e
    BY <1>1, <1>5, <2>1, <2>2 DEF TypeOK, Answers, Captures, Unanswered, DirectIsAtomic,
       SuppressionIsAudited
  <2>3. CASE d = e
    <3>1. status'[d] = "PROCESSED" /\ result'[d] = Created /\ kind'[d] = kind[d]
      BY <1>1, <2>1, <2>3 DEF Answers, TypeOK
    <3>2. OwnShadow(d)'
      BY <2>1, <2>3 DEF Captures
    <3>3. Backed(d)'
      BY <3>2 DEF OwnShadow, Backed, SameSlot, SameEvent
    <3> QED
      BY <1>2, <2>1, <2>3, <3>1, <3>2, <3>3
  <2> QED
    BY <2>2, <2>3
<1>9. CASE CapturesBatched
  BY <1>1, <1>5, <1>9 DEF CapturesBatched, Captures, Unanswered, DirectIsAtomic,
     SuppressionIsAudited
<1>10. ASSUME NEW e \in Decision, Persist(e)
       PROVE  /\ status'[d] # "PROCESSED" => result'[d] = "none"
              /\ kind'[d] = "direct" => (OwnShadow(d)' <=> result'[d] = Created)
              /\ kind'[d] = "consolidation" /\ result'[d] \in Suppression => d \in suppressed'
              /\ result'[d] = Created =>
                     IF kind'[d] = "direct" THEN OwnShadow(d)' ELSE Backed(d)'
  <2>1. /\ status[e] = "ABSENT" /\ result' = result /\ shadows' = shadows
        /\ d # e => status'[d] = status[d] /\ kind'[d] = kind[d]
        /\ status'[e] = "PENDING"
    BY <1>1, <1>10 DEF Persist, TypeOK
  <2>2. OwnShadow(d)' <=> OwnShadow(d)
    BY <2>1 DEF OwnShadow
  <2>3. CASE d # e
    BY <1>1, <1>5, <2>1, <2>2, <2>3 DEF Unanswered, DirectIsAtomic, SuppressionIsAudited
  <2>4. CASE d = e
    <3>1. result[d] = "none"
      BY <1>1, <2>1, <2>4 DEF Unanswered
    <3>2. ~OwnShadow(d)
      BY <2>1, <2>4 DEF OwnShadow, AInv, IInv, RowsOK
    <3> QED
      BY <1>2, <1>3, <2>1, <2>2, <2>4, <3>1, <3>2
  <2> QED
    BY <2>3, <2>4
<1> QED
  BY <1>6, <1>7, <1>8, <1>9, <1>10 DEF Effect

-----------------------------------------------------------------------------
(* What the consumers have decided.                                        *)

LEMMA GrowStep ==
  ASSUME IInv, [Next]_vars
  PROVE  RowsGrow
<1>0. TypeOK
  BY DEF IInv
<1>1. ASSUME shadows' = shadows, suppressed \subseteq suppressed'
      PROVE  RowsGrow
  BY <1>1 DEF RowsGrow
<1>2. ASSUME NEW c \in Consumer, Start(c) \/ Fault(c) \/ \E k \in Consumer : DeadlockVictim(c, k)
      PROVE  RowsGrow
  BY <1>1, <1>2 DEF Start, DirectOpen, ReadBatch, Fault, DirectError, GroupError,
     BatchError, Crash, DeadlockVictim, db
<1>3. ASSUME NEW c \in Consumer,
             \/ DirectLockProfile(c) \/ DirectCheck(c) \/ Classify(c) \/ MarkRetry(c)
             \/ \E d \in Decision : GroupLock(c, d) \/ Mark(c, d)
             \/ GroupCheck(c)
      PROVE  RowsGrow
  BY <1>1, <1>3 DEF DirectLockProfile, DirectCheck, Classify, MarkRetry, GroupLock,
     Mark, GroupCheck, NothingCreated, SuppressAll, CreditWinner, db
<1>4. ASSUME NEW c \in Consumer, DirectCommit(c) \/ GroupCommit(c)
      PROVE  RowsGrow
  <2>1. work[c].item \in Decision
    BY <1>0, <1>4 DEF DirectCommit, GroupCommit, IInv, TypeOK, Work, WorkOK, Holds,
       Direct, Grouping
  <2>2. suppressed \subseteq suppressed'
    BY <1>4 DEF DirectCommit, GroupCommit, NothingCreated, SuppressAll, CreditWinner
  <2>3. shadows' = shadows \/ (~ConflictsFor(c) /\ Insert(c))
    BY <1>4 DEF DirectCommit, GroupCommit
  <2> QED
    BY <1>0, <1>1, <2>1, <2>2, <2>3, InsertCaptures DEF RowsGrow
<1>5. CASE NextHour \/ \E i \in DOMAIN shadows : CloseShadow(i)
  <2>1. suppressed' = suppressed
    BY <1>5 DEF NextHour, CloseShadow
  <2> QED
    BY <1>0, <1>5, <2>1, AgeingKeeps DEF RowsGrow
<1>6. CASE \/ \E d \in Decision : Persist(d) \/ Expire(d)
           \/ \E p \in Profile : SetProfileStatus(p)
           \/ SetConfig \/ UNCHANGED vars
  BY <1>1, <1>6 DEF Persist, Expire, SetProfileStatus, SetConfig, db, vars
<1> QED
  BY <1>2, <1>3, <1>4, <1>5, <1>6 DEF Next, Advance, Check, Environment

(* No event is deleted.                                                    *)
EventsStay == \A d \in Decision : status[d] # "ABSENT" => status'[d] # "ABSENT"

LEMMA StayStep ==
  ASSUME TypeOK, Effect
  PROVE  EventsStay
<1>1. CASE Quiet
  BY <1>1 DEF Quiet, EventsStay
<1>2. ASSUME NEW d \in Decision, NEW r, Answers(d, r)
      PROVE  EventsStay
  BY <1>2 DEF Answers, EventsStay, TypeOK
<1>3. CASE CapturesBatched \/ \E d \in Decision : Persist(d)
  BY <1>3 DEF CapturesBatched, Persist, EventsStay, TypeOK
<1> QED
  BY <1>1, <1>2, <1>3 DEF Effect, AnswersOnly, CapturesDirect

(* A local state that claims no more than the database holds.              *)
Sound(r) == \A d \in Decision :
    /\ r.verdict[d] \in Suppression => d \in suppressed
    /\ r.verdict[d] = Created => Backed(d)
    /\ d \in r.batch => status[d] # "ABSENT"

LEMMA SoundMeans ==
  ASSUME TypeOK
  PROVE  VerdictsOK /\ BatchesInserted <=> \A c \in Consumer : Sound(work[c])
  BY DEF VerdictsOK, BatchesInserted, Sound, TypeOK, Work

LEMMA SoundStays ==
  ASSUME NEW r, Sound(r), RowsGrow, EventsStay
  PROVE  \A d \in Decision :
            /\ r.verdict[d] \in Suppression => d \in suppressed'
            /\ r.verdict[d] = Created => Backed(d)'
            /\ d \in r.batch => status'[d] # "ABSENT"
  BY BackedStays DEF Sound, RowsGrow, EventsStay

(* One consumer moves to a sound state, the others stay where they are.    *)
LEMMA SoundFrame ==
  ASSUME AInv, TypeOK', RowsGrow, EventsStay,
         NEW c \in Consumer, NEW r, work' = [work EXCEPT ![c] = r],
         \A d \in Decision :
            /\ r.verdict[d] \in Suppression => d \in suppressed'
            /\ r.verdict[d] = Created => Backed(d)'
            /\ d \in r.batch => status'[d] # "ABSENT"
  PROVE  VerdictsOK' /\ BatchesInserted'
<1>1. TypeOK /\ \A k \in Consumer : Sound(work[k])
  BY SoundMeans DEF AInv, IInv
<1>2. SUFFICES ASSUME NEW k \in Consumer
      PROVE \A d \in Decision :
               /\ work'[k].verdict[d] \in Suppression => d \in suppressed'
               /\ work'[k].verdict[d] = Created => Backed(d)'
               /\ d \in work'[k].batch => status'[d] # "ABSENT"
  <2>1. \A k \in Consumer : work'[k].batch \subseteq Decision
    BY DEF TypeOK, Work
  <2> QED
    BY <1>2, <2>1 DEF VerdictsOK, BatchesInserted
<1>3. CASE k = c
  BY <1>1, <1>3 DEF TypeOK
<1>4. CASE k # c
  <2>1. work'[k] = work[k]
    BY <1>1, <1>4 DEF TypeOK
  <2> QED
    BY <1>1, <2>1, SoundStays
<1> QED
  BY <1>3, <1>4

(* A step that only drops verdicts or replaces them with claims about no   *)
(* shadow and no audit row, and keeps or drops its batch.                  *)
Harmless == {"none", "candidate", "ERROR"} \cup Immediate
LEMMA HarmlessFrame ==
  ASSUME AInv, TypeOK', RowsGrow, EventsStay,
         NEW c \in Consumer, NEW r, work' = [work EXCEPT ![c] = r],
         \A d \in Decision :
            /\ r.verdict[d] \in {work[c].verdict[d]} \cup Harmless
            /\ d \in r.batch => d \in work[c].batch \/ status'[d] # "ABSENT"
  PROVE  VerdictsOK' /\ BatchesInserted'
<1>1. Sound(work[c])
  BY SoundMeans DEF AInv, IInv
<1>2. Harmless \cap (Suppression \cup {Created}) = {}
  BY DEF Harmless, Immediate, Suppression, Created, ActiveTrade, LowerPriority,
     ExpiredAfterLock, ConcurrentTrade, UnresolvedRace
<1> QED
  BY <1>1, <1>2, SoundStays, SoundFrame

LEMMA IdleFrame ==
  ASSUME AInv, TypeOK', RowsGrow, EventsStay, NEW c \in Consumer,
         work' = [work EXCEPT ![c] = Idle]
  PROVE  VerdictsOK' /\ BatchesInserted'
<1>1. Idle.batch = {} /\ \A e \in Decision : Idle.verdict[e] = "none"
  BY DEF Idle
<1> QED
  BY <1>1, HarmlessFrame DEF Harmless

(* A consumer with nothing but a batch.                                    *)
LEMMA BatchFrame ==
  ASSUME AInv, TypeOK', RowsGrow, EventsStay, NEW c \in Consumer, NEW pc, NEW B,
         work' = [work EXCEPT ![c] = [Idle EXCEPT !.pc = pc, !.batch = B]],
         \A e \in B : e \in work[c].batch \/ status'[e] # "ABSENT"
  PROVE  VerdictsOK' /\ BatchesInserted'
<1> DEFINE r == [Idle EXCEPT !.pc = pc, !.batch = B]
<1>1. r.batch = B /\ \A e \in Decision : r.verdict[e] = "none"
  BY DEF Idle
<1>2. work' = [work EXCEPT ![c] = r]
  OBVIOUS
<1> HIDE DEF r
<1>3. \A e \in Decision :
         /\ r.verdict[e] \in {work[c].verdict[e]} \cup Harmless
         /\ e \in r.batch => e \in work[c].batch \/ status'[e] # "ABSENT"
  BY <1>1 DEF Harmless
<1> QED
  BY <1>2, <1>3, HarmlessFrame

(* The same consumer, its place in the code alone changed.                 *)
LEMMA PlaceFrame ==
  ASSUME AInv, TypeOK', RowsGrow, EventsStay, NEW c \in Consumer, NEW r,
         work' = [work EXCEPT ![c] = r],
         r.verdict = work[c].verdict, r.batch = work[c].batch
  PROVE  VerdictsOK' /\ BatchesInserted'
  BY HarmlessFrame

LEMMA JudgedSound ==
  ASSUME AInv, TypeOK', RowsGrow, EventsStay, NEW c \in Consumer, NEW G, NEW v,
         work' = [work EXCEPT ![c] = Judged(c, G, v)],
         \A d \in Decision : d \in G =>
            /\ v[d] \in Suppression => d \in suppressed'
            /\ v[d] = Created => Backed(d)'
  PROVE  VerdictsOK' /\ BatchesInserted'
<1>1. Sound(work[c]) /\ work[c] \in Work
  BY SoundMeans DEF AInv, IInv, TypeOK
<1>2. /\ Judged(c, G, v).batch = work[c].batch
      /\ \A d \in Decision :
            Judged(c, G, v).verdict[d] = IF d \in G THEN v[d] ELSE work[c].verdict[d]
  BY <1>1 DEF Judged, Work
<1>3. \A d \in Decision :
         /\ work[c].verdict[d] \in Suppression => d \in suppressed'
         /\ work[c].verdict[d] = Created => Backed(d)'
         /\ d \in work[c].batch => status'[d] # "ABSENT"
  BY <1>1, SoundStays
<1> HIDE DEF Judged
<1> QED
  BY <1>2, <1>3, SoundFrame

LEMMA SuppressAllSound ==
  ASSUME AInv, TypeOK', RowsGrow, EventsStay, NEW c \in Consumer, NEW w,
         NEW reason \in Suppression, SuppressAll(c, w, reason)
  PROVE  VerdictsOK' /\ BatchesInserted'
<1>1. reason # Created
  BY DEF Suppression, Created, ActiveTrade, LowerPriority,
     ExpiredAfterLock, ConcurrentTrade, UnresolvedRace
<1>2. \A d \in Decision : [e \in Decision |-> reason][d] = reason
  OBVIOUS
<1> QED
  BY <1>1, <1>2, JudgedSound DEF SuppressAll

(* The winner has its shadow when its profile's candidates are credited.   *)
LEMMA CreditWinnerSound ==
  ASSUME AInv, TypeOK', RowsGrow, EventsStay, NEW c \in Consumer, NEW w \in Decision,
         OwnShadow(w)', CreditWinner(c, w)
  PROVE  VerdictsOK' /\ BatchesInserted'
<1> DEFINE v == WinnerResult(w)
<1>1. Created \notin Suppression /\ LowerPriority # Created
  BY DEF Suppression, Created, ActiveTrade, LowerPriority,
     ExpiredAfterLock, ConcurrentTrade, UnresolvedRace
<1>2. ASSUME NEW d \in Decision, d \in Group(c, w)
      PROVE  /\ v[d] \in Suppression => d \in suppressed'
             /\ v[d] = Created => Backed(d)'
  <2>1. v[d] = IF ProfileOf[d] = ProfileOf[w] THEN Created ELSE LowerPriority
    BY DEF WinnerResult
  <2>2. SameEvent(w, d)
    BY <1>2 DEF Group
  <2>3. ProfileOf[d] = ProfileOf[w] => Backed(d)'
    BY <2>2 DEF OwnShadow, Backed, SameSlot, SameEvent
  <2>4. ProfileOf[d] # ProfileOf[w] => d \in suppressed'
    BY <1>2 DEF CreditWinner
  <2> QED
    BY <1>1, <2>1, <2>3, <2>4
<1> HIDE DEF v
<1> QED
  BY <1>2, JudgedSound DEF CreditWinner, v

LEMMA NothingCreatedSound ==
  ASSUME AInv, TypeOK', RowsGrow, EventsStay, NEW c \in Consumer,
         work[c].item \in Decision, shadows' = shadows, NothingCreated(c)
  PROVE  VerdictsOK' /\ BatchesInserted'
<1>1. ConcurrentTrade \in Suppression /\ UnresolvedRace \in Suppression
  BY DEF Suppression
<1>2. PICK w \in Decision : w = work[c].item
  OBVIOUS
<1>3. OwnShadow(w) => OwnShadow(w)'
  BY DEF OwnShadow
<1>4. CASE OwnShadow(w) /\ CreditWinner(c, w)
  BY <1>3, <1>4, CreditWinnerSound
<1>5. CASE SuppressAll(c, w, ConcurrentTrade) \/ SuppressAll(c, w, UnresolvedRace)
  BY <1>1, <1>5, SuppressAllSound
<1> QED
  BY <1>2, <1>4, <1>5, Zenon DEF NothingCreated

LEMMA StartSound ==
  ASSUME AInv, TypeOK', RowsGrow, EventsStay, NEW c \in Consumer, Start(c)
  PROVE  VerdictsOK' /\ BatchesInserted'
<1>0. TypeOK
  BY DEF AInv, IInv
<1>1. ASSUME NEW d \in Decision, DirectOpen(c, d)
      PROVE  VerdictsOK' /\ BatchesInserted'
  <2>1. status'[d] # "ABSENT"
    BY <1>1 DEF DirectOpen, Open, EventsStay
  <2> DEFINE r == [Idle EXCEPT !.pc = "checked", !.item = d, !.config = config]
  <2>2. r.batch = {} /\ \A e \in Decision : r.verdict[e] = "none"
    BY DEF Idle
  <2>3. CASE work' = [work EXCEPT ![c] = [Idle EXCEPT !.pc = "retry", !.batch = {d}]]
    <3> DEFINE B == {d}
               pc == "retry"
    <3>1. /\ work' = [work EXCEPT ![c] = [Idle EXCEPT !.pc = pc, !.batch = B]]
          /\ \A e \in B : status'[e] # "ABSENT"
      BY <2>1, <2>3
    <3> HIDE DEF B, pc
    <3> QED
      BY <3>1, BatchFrame
  <2>4. CASE work' = [work EXCEPT ![c] = Idle]
    BY <2>4, IdleFrame
  <2>5. \/ work' = [work EXCEPT ![c] = [Idle EXCEPT !.pc = "retry", !.batch = {d}]]
        \/ work' = [work EXCEPT ![c] = Idle]
        \/ work' = [work EXCEPT ![c] = r]
    <3>1. ASSUME NEW x, Finish(c, d, x)
          PROVE  work' = [work EXCEPT ![c] = Idle]
      BY <3>1 DEF Finish
    <3> QED
      BY <1>1, <3>1, Zenon DEF DirectOpen
  <2> HIDE DEF r
  <2>6. CASE work' = [work EXCEPT ![c] = r]
    BY <2>2, <2>6, HarmlessFrame DEF Harmless
  <2> QED
    BY <2>3, <2>4, <2>5, <2>6
<1>2. ASSUME NEW s \in Scan, ReadBatch(c, s)
      PROVE  VerdictsOK' /\ BatchesInserted'
  <2>1. \A e \in Batch(s) : status'[e] # "ABSENT"
    BY DEF Batch, Open, EventsStay
  <2> DEFINE pc == IF Batch(s) \cap Malformed = {} THEN "read" ELSE "retry"
  <2>2. work' = [work EXCEPT ![c] = [Idle EXCEPT !.pc = pc, !.batch = Batch(s)]]
    BY <1>2 DEF ReadBatch
  <2> HIDE DEF pc
  <2> QED
    BY <2>1, <2>2, BatchFrame
<1> QED
  BY <1>1, <1>2 DEF Start

LEMMA DirectSound ==
  ASSUME AInv, TypeOK', RowsGrow, EventsStay, NEW c \in Consumer,
         DirectLockProfile(c) \/ DirectCheck(c) \/ DirectCommit(c)
  PROVE  VerdictsOK' /\ BatchesInserted'
<1>1. ASSUME NEW pc, work' = [work EXCEPT ![c].pc = pc]
      PROVE  VerdictsOK' /\ BatchesInserted'
  <2> DEFINE r == [work[c] EXCEPT !.pc = pc]
  <2>1. r.verdict = work[c].verdict /\ r.batch = work[c].batch
    BY DEF AInv, IInv, TypeOK, Work
  <2>2. work' = [work EXCEPT ![c] = r]
    BY <1>1
  <2> HIDE DEF r
  <2> QED
    BY <2>1, <2>2, PlaceFrame
<1>2. \/ work' = [work EXCEPT ![c] = Idle]
      \/ work' = [work EXCEPT ![c].pc = "locked"]
      \/ work' = [work EXCEPT ![c].pc = "insert"]
  BY Zenon DEF DirectLockProfile, DirectCheck, DirectCommit, Finish
<1> QED
  BY <1>1, <1>2, IdleFrame

LEMMA ClassifySound ==
  ASSUME AInv, TypeOK', RowsGrow, EventsStay, NEW c \in Consumer, Classify(c)
  PROVE  VerdictsOK' /\ BatchesInserted'
<1> DEFINE v == [d \in Decision |-> IF d \in work[c].batch THEN FirstVerdict(d) ELSE "none"]
           r == [work[c] EXCEPT !.pc = "batch", !.verdict = v, !.config = config]
<1>1. r.verdict = v /\ r.batch = work[c].batch
  BY DEF AInv, IInv, TypeOK, Work
<1>2. \A d \in Decision : v[d] \in Harmless
  BY DEF FirstVerdict, Harmless, Immediate
<1>3. work' = [work EXCEPT ![c] = r]
  BY DEF Classify
<1> HIDE DEF v, r
<1> QED
  BY <1>1, <1>2, <1>3, HarmlessFrame

LEMMA RetrySound ==
  ASSUME AInv, TypeOK', RowsGrow, EventsStay, NEW c \in Consumer,
         work' = [work EXCEPT ![c] = [Idle EXCEPT !.pc = "retry", !.batch = work[c].batch]]
  PROVE  VerdictsOK' /\ BatchesInserted'
<1> DEFINE B == work[c].batch
           pc == "retry"
<1>1. /\ work' = [work EXCEPT ![c] = [Idle EXCEPT !.pc = pc, !.batch = B]]
      /\ \A e \in B : e \in work[c].batch
  OBVIOUS
<1> HIDE DEF B, pc
<1> QED
  BY <1>1, BatchFrame

LEMMA GroupSound ==
  ASSUME AInv, TypeOK', RowsGrow, EventsStay, NEW c \in Consumer,
         \/ \E w \in Decision : GroupLock(c, w)
         \/ GroupCheck(c) \/ GroupCommit(c)
  PROVE  VerdictsOK' /\ BatchesInserted'
<1>0. TypeOK /\ work[c] \in Work
  BY DEF AInv, IInv, TypeOK
<1>1. ASSUME NEW pc, NEW d, work' = [work EXCEPT ![c] = [work[c] EXCEPT !.pc = pc, !.item = d]]
      PROVE  VerdictsOK' /\ BatchesInserted'
  <2> DEFINE r == [work[c] EXCEPT !.pc = pc, !.item = d]
  <2>1. r.verdict = work[c].verdict /\ r.batch = work[c].batch
    BY <1>0 DEF Work
  <2>2. work' = [work EXCEPT ![c] = r]
    BY <1>1
  <2> HIDE DEF r
  <2> QED
    BY <2>1, <2>2, PlaceFrame
<1>2. ASSUME NEW w \in Decision, GroupLock(c, w)
      PROVE  VerdictsOK' /\ BatchesInserted'
  <2>1. ActiveTrade \in Suppression /\ ExpiredAfterLock \in Suppression
    BY DEF Suppression
  <2>2. CASE SuppressAll(c, w, ActiveTrade) \/ SuppressAll(c, w, ExpiredAfterLock)
    BY <2>1, <2>2, SuppressAllSound
  <2>3. CASE work' = [work EXCEPT ![c].pc = "group", ![c].item = w]
    <3>1. work' = [work EXCEPT ![c] = [work[c] EXCEPT !.pc = "group", !.item = w]]
      BY <1>0, <2>3 DEF TypeOK, Work
    <3> DEFINE pc == "group"
    <3>2. work' = [work EXCEPT ![c] = [work[c] EXCEPT !.pc = pc, !.item = w]]
      BY <3>1
    <3> HIDE DEF pc
    <3> QED
      BY <1>1, <3>2
  <2> QED
    BY <1>2, <2>2, <2>3, Zenon DEF GroupLock
<1>3. ASSUME GroupCheck(c) \/ GroupCommit(c)
      PROVE  VerdictsOK' /\ BatchesInserted'
  <2>1. work[c].item \in Decision
    BY <1>0, <1>3 DEF GroupCheck, GroupCommit, AInv, IInv, WorkOK, Holds, Grouping,
       Batching, Work
  <2>2. CASE shadows' = shadows /\ NothingCreated(c)
    BY <2>1, <2>2, NothingCreatedSound
  <2>3. CASE work' = [work EXCEPT ![c].pc = "groupInsert"]
    <3> DEFINE r == [work[c] EXCEPT !.pc = "groupInsert"]
    <3>1. r.verdict = work[c].verdict /\ r.batch = work[c].batch
      BY <1>0 DEF Work
    <3>2. work' = [work EXCEPT ![c] = r]
      BY <2>3
    <3> HIDE DEF r
    <3> QED
      BY <3>1, <3>2, PlaceFrame
  <2>4. CASE ~ConflictsFor(c) /\ Insert(c) /\ CreditWinner(c, work[c].item)
    <3>1. PICK w \in Decision : w = work[c].item
      BY <2>1
    <3>2. OwnShadow(w)'
      BY <1>0, <2>1, <2>4, <3>1, InsertCaptures DEF Captures
    <3> QED
      BY <2>4, <3>1, <3>2, CreditWinnerSound
  <2> QED
    BY <1>3, <2>2, <2>3, <2>4, Zenon DEF GroupCheck, GroupCommit
<1> QED
  BY <1>2, <1>3

LEMMA MarkSound ==
  ASSUME AInv, TypeOK', RowsGrow, EventsStay, NEW c \in Consumer,
         MarkRetry(c) \/ \E d \in Decision : Mark(c, d)
  PROVE  VerdictsOK' /\ BatchesInserted'
<1>0. work[c] \in Work
  BY DEF AInv, IInv, TypeOK
<1>1. CASE MarkRetry(c)
  BY <1>1, IdleFrame DEF MarkRetry
<1>2. ASSUME NEW d \in Decision, Mark(c, d)
      PROVE  VerdictsOK' /\ BatchesInserted'
  <2>1. CASE work' = [work EXCEPT ![c] = [Idle EXCEPT !.pc = "retry", !.batch = work[c].batch]]
    BY <2>1, RetrySound
  <2>2. CASE work' = [work EXCEPT ![c] = Idle]
    BY <2>2, IdleFrame
  <2> DEFINE r == [work[c] EXCEPT !.verdict[d] = "none"]
  <2>3. /\ r.batch = work[c].batch
        /\ \A e \in Decision : r.verdict[e] \in {work[c].verdict[e], "none"}
    BY <1>0 DEF Work
  <2>4. \/ work' = [work EXCEPT ![c] = [Idle EXCEPT !.pc = "retry", !.batch = work[c].batch]]
        \/ work' = [work EXCEPT ![c] = Idle]
        \/ work' = [work EXCEPT ![c] = r]
    BY <1>2, Zenon DEF Mark, Marked
  <2> HIDE DEF r
  <2>5. CASE work' = [work EXCEPT ![c] = r]
    <3>1. \A e \in Decision : r.verdict[e] \in {work[c].verdict[e]} \cup Harmless
      BY <2>3 DEF Harmless
    <3> QED
      BY <2>3, <2>5, <3>1, HarmlessFrame
  <2> QED
    BY <2>1, <2>2, <2>4, <2>5
<1> QED
  BY <1>1, <1>2

LEMMA FaultSound ==
  ASSUME AInv, TypeOK', RowsGrow, EventsStay, NEW c \in Consumer,
         \/ Fault(c)
         \/ \E k \in Consumer : DeadlockVictim(k, c) \/ DeadlockVictim(c, k)
  PROVE  VerdictsOK' /\ BatchesInserted'
<1>1. ASSUME NEW k \in Consumer, Rollback(k), work[k].pc \in Direct
      PROVE  VerdictsOK' /\ BatchesInserted'
  <2> DEFINE B == {work[k].item}
             pc == "retry"
  <2>1. work' = [work EXCEPT ![k] = [Idle EXCEPT !.pc = pc, !.batch = B]]
    BY <1>1 DEF Rollback
  <2>2. \A e \in B : status'[e] # "ABSENT"
    BY <1>1 DEF AInv, IInv, WorkOK, Holds, Open, EventsStay
  <2> HIDE DEF B, pc
  <2> QED
    BY <2>1, <2>2, BatchFrame
<1>2. ASSUME NEW k \in Consumer, FailGroup(k)
      PROVE  VerdictsOK' /\ BatchesInserted'
  <2> DEFINE v == [d \in Decision |-> "ERROR"]
             G == Group(k, work[k].item)
  <2>1. "ERROR" \notin Suppression \cup {Created}
    BY DEF Suppression, Created, ActiveTrade, LowerPriority,
       ExpiredAfterLock, ConcurrentTrade, UnresolvedRace
  <2>2. work' = [work EXCEPT ![k] = Judged(k, G, v)]
    BY <1>2 DEF FailGroup
  <2>3. \A d \in Decision : v[d] = "ERROR"
    OBVIOUS
  <2>4. \A d \in Decision : ~(v[d] \in Suppression) /\ ~(v[d] = Created)
    BY <2>1, <2>3
  <2> HIDE DEF v, G
  <2> QED
    BY <2>2, <2>4, JudgedSound
<1>3. CASE DirectError(c)
  BY <1>1, <1>3 DEF DirectError, Direct
<1>4. CASE GroupError(c)
  BY <1>2, <1>4 DEF GroupError
<1>5. CASE BatchError(c)
  BY <1>5, RetrySound DEF BatchError
<1>6. CASE Crash(c)
  BY <1>6, IdleFrame DEF Crash
<1>7. CASE \E k \in Consumer : DeadlockVictim(k, c) \/ DeadlockVictim(c, k)
  BY <1>1, <1>2, <1>7 DEF DeadlockVictim, Direct
<1> QED
  BY <1>3, <1>4, <1>5, <1>6, <1>7 DEF Fault

LEMMA SoundStep ==
  ASSUME AInv, TypeOK', RowsGrow, EventsStay, [Next]_vars
  PROVE  VerdictsOK' /\ BatchesInserted'
<1>1. CASE work' = work
  <2>1. TypeOK /\ \A c \in Consumer : Sound(work[c])
    BY SoundMeans DEF AInv, IInv
  <2>2. \A c \in Consumer : work[c].batch \subseteq Decision
    BY <2>1 DEF TypeOK, Work
  <2> QED
    BY <1>1, <2>1, <2>2, SoundStays DEF VerdictsOK, BatchesInserted
<1>2. CASE Environment \/ UNCHANGED vars
  BY <1>1, <1>2 DEF Environment, Persist, CloseShadow, Expire, NextHour,
     SetProfileStatus, SetConfig, vars
<1>3. ASSUME NEW c \in Consumer,
             \/ Start(c) \/ Advance(c) \/ Check(c) \/ Fault(c)
             \/ \E k \in Consumer : DeadlockVictim(c, k)
      PROVE  VerdictsOK' /\ BatchesInserted'
  BY <1>3, StartSound, DirectSound, ClassifySound, GroupSound, MarkSound, FaultSound
     DEF Advance, Check
<1> QED
  BY <1>2, <1>3 DEF Next

LEMMA AInvStep ==
  ASSUME AInv, [Next]_vars
  PROVE  AInv'
<1>1. IInv /\ IInv'
  BY StepIInv, ConstantsAssumption DEF AInv
<1>2. TypeOK /\ TypeOK'
  BY <1>1 DEF IInv
<1>3. Effect /\ RowsGrow
  BY <1>1, StepEffect, GrowStep
<1>4. EventsStay
  BY <1>2, <1>3, StayStep
<1> QED
  BY <1>1, <1>2, <1>3, <1>4, AnswersStep, SoundStep DEF AInv

LEMMA AInvInit == Init => AInv
<1> SUFFICES ASSUME Init PROVE AInv
  OBVIOUS
<1>1. IInv
  BY InitIInv
<1>2. ~\E d : OwnShadow(d)
  BY DEF Init, OwnShadow
<1>3. \A d \in Decision : result[d] = "none" /\ kind[d] = "observed"
  BY DEF Init
<1>4. \A c \in Consumer : work[c].batch = {} /\ \A d \in Decision : work[c].verdict[d] = "none"
  BY DEF Init, Idle
<1>5. "none" \notin Suppression \cup {Created}
  BY DEF Suppression, Created, ActiveTrade, LowerPriority,
     ExpiredAfterLock, ConcurrentTrade, UnresolvedRace
<1>6. AnswersOK
  BY <1>2, <1>3, <1>5 DEF AnswersOK, Unanswered, DirectIsAtomic, SuppressionIsAudited,
     CreatedIsBacked
<1>7. VerdictsOK /\ BatchesInserted
  BY <1>4, <1>5 DEF VerdictsOK, BatchesInserted
<1> QED
  BY <1>1, <1>6, <1>7 DEF AInv

(* The answers and the consumers' verdicts stay true in every execution of *)
(* the hand-off: the inductive invariant behind the theorems below.        *)
THEOREM AnswersInvariance == Spec => []AInv
<1>1. AInv /\ [Next]_vars => AInv'
  BY AInvStep
<1> QED
  BY <1>1, AInvInit, PTL DEF Spec

(* CREATED_OR_RECONCILED is reported for a direct event only when its own  *)
(* shadow exists, and for a consolidated one only when its profile has a   *)
(* shadow for the same candle (_consolidation_processing_result).          *)
THEOREM CreatedIsAlwaysBacked == Spec => []CreatedIsBacked
<1>1. AInv => CreatedIsBacked
  BY DEF AInv, AnswersOK
<1> QED
  BY <1>1, AnswersInvariance, PTL

(* A direct hand-off's shadow and its answer are one commit.               *)
THEOREM DirectHandoffIsAtomic == Spec => []DirectIsAtomic
<1>1. AInv => DirectIsAtomic
  BY DEF AInv, AnswersOK
<1> QED
  BY <1>1, AnswersInvariance, PTL

(* An event answered SUPPRESSED has its audit row, whichever consumer      *)
(* wrote either of them.                                                   *)
THEOREM SuppressionIsAlwaysAudited == Spec => []SuppressionIsAudited
<1>1. AInv => SuppressionIsAudited
  BY DEF AInv, AnswersOK
<1> QED
  BY <1>1, AnswersInvariance, PTL

-----------------------------------------------------------------------------
(* The outbox implements ShadowHandoff.                                    *)

LEMMA InitHandoff == Init => Handoff!HInit
<1> SUFFICES ASSUME Init PROVE Handoff!HInit
  OBVIOUS
<1>1. \A d \in Decision : HandoffOf(d) = "absent" /\ kind[d] = "observed"
  BY DEF Init, HandoffOf, OwnShadow
<1>2. "observed" # "consolidation"
  OBVIOUS
<1> QED
  BY <1>1, <1>2, Zenon DEF Handoff!HInit

(* A step that leaves every decision's standing alone is a stutter.        *)
LEMMA HandoffStutters ==
  ASSUME kind' = kind, \A d \in Decision : HandoffOf(d)' = HandoffOf(d)
  PROVE  UNCHANGED Handoff!hvars
<1>1. [d \in Decision |-> HandoffOf(d)]' = [d \in Decision |-> HandoffOf(d)]
  OBVIOUS
<1>2. [d \in Decision |-> kind[d] = "consolidation"]'
        = [d \in Decision |-> kind[d] = "consolidation"]
  OBVIOUS
<1> QED
  BY <1>1, <1>2, Zenon DEF Handoff!hvars

(* A step that moves one decision is a Settle.                             *)
LEMMA HandoffSettles ==
  ASSUME NEW d \in Decision, NEW from, NEW to,
         HandoffOf(d) = from, HandoffOf(d)' = to,
         \A e \in Decision : e # d => HandoffOf(e)' = HandoffOf(e)
  PROVE  Handoff!Settle(d, from, to)
<1> DEFINE h == [e \in Decision |-> HandoffOf(e)]
           g == [e \in Decision |-> HandoffOf(e)']
<1>1. h[d] = from
  OBVIOUS
<1>2. g = [h EXCEPT ![d] = to]
  OBVIOUS
<1> QED
  BY <1>1, <1>2 DEF Handoff!Settle

LEMMA BatchedStays ==
  ASSUME kind' = kind
  PROVE  [d \in Decision |-> kind[d] = "consolidation"]'
           = [d \in Decision |-> kind[d] = "consolidation"]
  OBVIOUS

LEMMA AnswerHandoff ==
  ASSUME TypeOK, NEW d \in Decision, NEW r, Answers(d, r), SameOwners
  PROVE  [Handoff!HNext]_(Handoff!hvars)
<1>1. /\ status'[d] = "PROCESSED" /\ kind' = kind /\ Open(d)
      /\ \A e \in Decision : e # d => status'[e] = status[e]
  BY DEF Answers, TypeOK
<1>2. \A e \in Decision : e # d => HandoffOf(e)' = HandoffOf(e)
  BY <1>1 DEF HandoffOf, SameOwners
<1>3. CASE OwnShadow(d)
  <2>1. HandoffOf(d) = "captured" /\ HandoffOf(d)' = "captured"
    BY <1>3 DEF HandoffOf, SameOwners
  <2> QED
    BY <1>1, <1>2, <2>1, HandoffStutters
<1>4. CASE ~OwnShadow(d)
  <2>1. HandoffOf(d) = "requested" /\ HandoffOf(d)' = "declined"
    BY <1>1, <1>4 DEF HandoffOf, SameOwners, Open
  <2>2. Handoff!Settle(d, "requested", "declined")
    BY <1>2, <2>1, HandoffSettles
  <2>3. Handoff!Decline(d)
    BY <1>1, <2>2, BatchedStays DEF Handoff!Decline
  <2> QED
    BY <2>3 DEF Handoff!HNext
<1> QED
  BY <1>3, <1>4

LEMMA CaptureHandoff ==
  ASSUME TypeOK, NEW d \in Decision, Captures(d), kind' = kind,
         status[d] # "ABSENT",
         status[d] = "PROCESSED" => kind[d] = "consolidation",
         \A e \in Decision : e # d => status'[e] = status[e]
  PROVE  [Handoff!HNext]_(Handoff!hvars)
<1>1. /\ ~OwnShadow(d) /\ OwnShadow(d)'
      /\ \A e \in Decision : e # d => (OwnShadow(e)' <=> OwnShadow(e))
  BY DEF Captures
<1>2. HandoffOf(d)' = "captured"
  BY <1>1 DEF HandoffOf
<1>3. \A e \in Decision : e # d => HandoffOf(e)' = HandoffOf(e)
  BY <1>1 DEF HandoffOf
<1>4. CASE status[d] = "PROCESSED"
  <2>1. HandoffOf(d) = "declined"
    BY <1>1, <1>4 DEF HandoffOf
  <2>2. Handoff!Settle(d, "declined", "captured")
    BY <1>2, <1>3, <2>1, HandoffSettles
  <2>3. [e \in Decision |-> kind[e] = "consolidation"][d]
    BY <1>4
  <2>4. Handoff!LateCapture(d)
    BY <2>2, <2>3, BatchedStays DEF Handoff!LateCapture
  <2> QED
    BY <2>4 DEF Handoff!HNext
<1>5. CASE status[d] # "PROCESSED"
  <2>1. HandoffOf(d) = "requested"
    BY <1>1, <1>5 DEF HandoffOf
  <2>2. Handoff!Settle(d, "requested", "captured")
    BY <1>2, <1>3, <2>1, HandoffSettles
  <2>3. Handoff!Capture(d)
    BY <2>2, BatchedStays DEF Handoff!Capture
  <2> QED
    BY <2>3 DEF Handoff!HNext
<1> QED
  BY <1>4, <1>5

LEMMA RequestHandoff ==
  ASSUME IInv, NEW d \in Decision, Persist(d)
  PROVE  [Handoff!HNext]_(Handoff!hvars)
<1> DEFINE b == [e \in Decision |-> kind[e] = "consolidation"]
<1>1. /\ status[d] = "ABSENT" /\ status'[d] = "PENDING" /\ shadows' = shadows
      /\ \A e \in Decision : e # d => status'[e] = status[e] /\ kind'[e] = kind[e]
  BY DEF Persist, IInv, TypeOK
<1>2. ~OwnShadow(d)
  BY <1>1 DEF OwnShadow, IInv, RowsOK
<1>3. \A e \in Decision : OwnShadow(e)' <=> OwnShadow(e)
  BY <1>1 DEF OwnShadow
<1>4. HandoffOf(d) = "absent" /\ HandoffOf(d)' = "requested"
  BY <1>1, <1>2, <1>3 DEF HandoffOf
<1>5. \A e \in Decision : e # d => HandoffOf(e)' = HandoffOf(e)
  BY <1>1, <1>3 DEF HandoffOf
<1>6. Handoff!Settle(d, "absent", "requested")
  BY <1>4, <1>5, HandoffSettles
<1>7. PICK v \in BOOLEAN : v = (kind'[d] = "consolidation")
  OBVIOUS
<1>8. b' = [b EXCEPT ![d] = v]
  BY <1>1, <1>7
<1>9. Handoff!Request(d, v)
  BY <1>6, <1>8, Zenon DEF Handoff!Request
<1> QED
  BY <1>9, Zenon DEF Handoff!HNext

LEMMA HandoffStep ==
  ASSUME AInv, Effect
  PROVE  [Handoff!HNext]_(Handoff!hvars)
<1>0. IInv /\ TypeOK
  BY DEF AInv, IInv
<1>1. CASE Quiet
  <2>1. \A d \in Decision : HandoffOf(d)' = HandoffOf(d)
    BY <1>1 DEF Quiet, SameOwners, HandoffOf, Open
  <2> QED
    BY <1>1, <2>1, HandoffStutters DEF Quiet
<1>2. CASE AnswersOnly
  BY <1>0, <1>2, AnswerHandoff DEF AnswersOnly
<1>3. CASE CapturesDirect
  <2>1. PICK d \in Decision : Answers(d, Created) /\ Captures(d)
    BY <1>3 DEF CapturesDirect
  <2>2. /\ kind' = kind /\ status[d] # "ABSENT" /\ status[d] # "PROCESSED"
        /\ \A e \in Decision : e # d => status'[e] = status[e]
    BY <1>0, <2>1 DEF Answers, Open, TypeOK
  <2> QED
    BY <1>0, <2>1, <2>2, CaptureHandoff
<1>4. CASE CapturesBatched
  BY <1>0, <1>4, CaptureHandoff DEF CapturesBatched
<1>5. CASE \E d \in Decision : Persist(d)
  BY <1>0, <1>5, RequestHandoff
<1> QED
  BY <1>1, <1>2, <1>3, <1>4, <1>5 DEF Effect

(* The outbox with its consumers, locks, retries, batches and crashes      *)
(* implements the abstract hand-off: a decision is captured at most once   *)
(* and for good, a direct one is never captured after it was declined.     *)
THEOREM OutboxImplementsHandoff == Spec => ImplementsHandoff
<1>1. AInv /\ [Next]_vars => [Handoff!HNext]_(Handoff!hvars)
  BY StepEffect, HandoffStep
<1> QED
  BY <1>1, InitHandoff, AnswersInvariance, PTL DEF Spec, ImplementsHandoff, Handoff!HSpec
=============================================================================
