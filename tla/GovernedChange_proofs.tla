----------------------- MODULE GovernedChange_proofs -----------------------
(***************************************************************************)
(* Proofs about governed changes and the cached copy of their row, for any *)
(* plans, sessions, documents, edits and faults.                           *)
(***************************************************************************)
EXTENDS GovernedChange, TLAPS

(* A step is one of the actions or a stutter. *)
LEMMA StepCases ==
    ASSUME [Next]_vars
    PROVE  \/ \E p \in Plans : Preview(p) \/ Block(p) \/ Dispatch(p)
           \/ \E s \in Clients, p \in Plans :
                  Execute(s, p) \/ ExecuteAgain(s, p) \/ AskRollback(s, p)
           \/ \E s \in Clients : Miss(s) \/ \E d \in Docs : Edit(s, d)
           \/ \E s \in Workers, m \in queue : Deliver(s, m)
           \/ \E s \in Sessions :
                  \/ Rollback(s) \/ RefuseRollback(s) \/ Attempt(s)
                  \/ NothingToDo(s) \/ Drop(s) \/ Fill(s) \/ Crash(s)
           \/ \E m \in queue : LoseMessage(m)
           \/ Expire
           \/ UNCHANGED vars
  BY Zenon DEF Next, Proceed

-----------------------------------------------------------------------------
(* Types. *)

LEMMA ConstantTypes ==
    /\ Clients \subseteq Sessions /\ Workers \subseteq Sessions
    /\ MaxAttempts \in Nat \ {0} /\ MaxEdits \in Nat /\ MaxFaults \in Nat
    /\ Base \in Docs /\ Plans \subseteq Docs
    /\ NoMarker \in Marker /\ Pending \in Marker
  BY BoundsAssumption DEF Sessions, Docs, NoMarker, Pending, Marker

LEMMA NewPlanType == NewPlan \in Plan
  BY ConstantTypes DEF NewPlan, Plan

LEMMA NoWorkType == NoWork \in Work
  BY ConstantTypes, NewPlanType DEF NoWork, Work, Kinds

(* The work of a session that goes on to a plan. *)
LEMMA AttendsType ==
    ASSUME TypeOK, NEW s \in Sessions, NEW p \in Plans, NEW k \in Kinds,
           NEW v \in Plan, NEW at \in {"fresh", "read", "rollback"},
           Attends(s, at, p, k, v)
    PROVE  /\ work' \in [Sessions -> Work]
           /\ \A t \in Sessions :
                 work'[t].at \in {"fresh", "read", "rollback"} =>
                     work'[t].plan \in Plans
<1> DEFINE n == [NoWork EXCEPT !.at = at, !.plan = p, !.kind = k, !.view = v]
<1>1. n \in Work /\ n.plan = p
  BY NoWorkType DEF Work, NoWork
<1>2. work' = [work EXCEPT ![s] = n]
  BY DEF Attends
<1> HIDE DEF n
<1> QED
  BY <1>1, <1>2 DEF TypeOK

(* A session that has finished. *)
LEMMA FinishType ==
    ASSUME TypeOK, NEW s \in Sessions, Finish(s)
    PROVE  /\ work' \in [Sessions -> Work]
           /\ \A t \in Sessions :
                 work'[t].at \in {"fresh", "read", "rollback"} =>
                     work'[t].plan \in Plans
<1>1. NoWork.at = "idle"
  BY DEF NoWork
<1> QED
  BY <1>1, NoWorkType DEF TypeOK, Finish

(* A marker is one of a plan that was read, with one attempt more. *)
LEMMA RecordType ==
    ASSUME TypeOK, NEW p \in Plans, NEW k \in Kinds, NEW v \in Plan, Due(v, k),
           NEW state \in {"COMPLETED", "REQUIRED"}, Record(p, k, v, state)
    PROVE  plan' \in [Plans -> Plan] /\ clobbered' \in BOOLEAN
<1> DEFINE mk == [state |-> state, attempts |-> v.mark[k].attempts + 1]
           ms == [v.mark EXCEPT ![k] = mk]
           n  == [plan[p] EXCEPT !.mark = ms]
<1>1. v.mark \in [Kinds -> Marker] /\ v.mark[k] \in Marker
  BY DEF Plan
<1>2. mk \in Marker
  BY <1>1, ConstantTypes DEF Marker, Due
<1>3. ms \in [Kinds -> Marker]
  BY <1>1, <1>2
<1>4. n \in Plan
  BY <1>3 DEF TypeOK, Plan
<1>5. plan' = [plan EXCEPT ![p] = n]
  BY DEF Record
<1>6. clobbered' \in BOOLEAN
  BY DEF Record, TypeOK
<1> HIDE DEF n
<1> QED
  BY <1>4, <1>5, <1>6 DEF TypeOK

LEMMA RolledBackType ==
    ASSUME NEW v \in Plan
    PROVE  RolledBack(v) \in Plan /\ RolledBack(v).source \in Docs
<1>1. v.mark \in [Kinds -> Marker]
  BY DEF Plan
<1>2. [v.mark EXCEPT !["ROLLBACK"] = Pending] \in [Kinds -> Marker]
  BY <1>1, ConstantTypes
<1> QED
  BY <1>2 DEF Plan, RolledBack

LEMMA InitType == Init => TypeOK
<1> SUFFICES ASSUME Init PROVE TypeOK
  OBVIOUS
<1>1. work \in [Sessions -> Work] /\ \A s \in Sessions : work[s].at = "idle"
  BY NoWorkType DEF Init, NoWork
<1>2. plan \in [Plans -> Plan]
  BY NewPlanType DEF Init
<1>3. /\ doc \in Docs /\ untouched \subseteq Plans
      /\ cache \in Docs \union {NoDoc}
      /\ queue \subseteq Plans \X Kinds
  BY ConstantTypes DEF Init
<1>4. /\ edits \in 0..MaxEdits
      /\ faults \in Nat /\ strays \in Nat /\ faults + strays <= MaxFaults
  BY ConstantTypes DEF Init
<1>5. clobbered \in BOOLEAN
  BY DEF Init
<1> QED
  BY <1>1, <1>2, <1>3, <1>4, <1>5 DEF TypeOK

-----------------------------------------------------------------------------
(* Every step keeps the types. *)

(* What is left when the plans and the sessions are seen to. *)
RestTypes ==
    /\ doc \in Docs /\ untouched \subseteq Plans
    /\ cache \in Docs \union {NoDoc}
    /\ queue \subseteq Plans \X Kinds
    /\ edits \in 0..MaxEdits
    /\ faults \in Nat /\ strays \in Nat /\ faults + strays <= MaxFaults

LEMMA StepRestTypes == TypeOK /\ [Next]_vars => RestTypes'
<1> SUFFICES ASSUME TypeOK, [Next]_vars PROVE RestTypes'
  OBVIOUS
<1>a. RestTypes /\ MaxFaults \in Nat /\ MaxEdits \in Nat /\ Base \in Docs
      /\ Plans \subseteq Docs
  BY ConstantTypes DEF TypeOK, RestTypes
<1>b. \A s \in Sessions :
         /\ work[s].doc \in Docs /\ work[s].view \in Plan
         /\ work[s].kind \in Kinds
         /\ work[s].at \in {"fresh", "read", "rollback"} => work[s].plan \in Plans
  BY DEF TypeOK, Work, Plan
<1>1. ASSUME NEW p \in Plans, Preview(p) PROVE RestTypes'
  BY <1>1, <1>a DEF Preview, RestTypes, configVars, countVars
<1>2. ASSUME NEW p \in Plans, Block(p) PROVE RestTypes'
  BY <1>2, <1>a DEF Block, RestTypes, configVars, countVars
<1>3. ASSUME NEW p \in Plans, Dispatch(p) PROVE RestTypes'
  BY <1>3, <1>a DEF Dispatch, KindOf, Kinds, RestTypes, configVars, countVars
<1>4. ASSUME NEW s \in Clients, NEW p \in Plans, Execute(s, p) PROVE RestTypes'
  BY <1>4, <1>a DEF Execute, Write, RestTypes, configVars, countVars
<1>5. ASSUME NEW s \in Clients, NEW p \in Plans, ExecuteAgain(s, p) PROVE RestTypes'
  BY <1>5, <1>a DEF ExecuteAgain, RestTypes, configVars, countVars
<1>6. ASSUME NEW s \in Clients, NEW p \in Plans, AskRollback(s, p) PROVE RestTypes'
  BY <1>6, <1>a DEF AskRollback, RestTypes, configVars, countVars
<1>7. ASSUME NEW s \in Clients, Miss(s) PROVE RestTypes'
  BY <1>7, <1>a DEF Miss, RestTypes, configVars, countVars
<1>8. ASSUME NEW s \in Clients, NEW d \in Docs, Edit(s, d) PROVE RestTypes'
  BY <1>8, <1>a DEF Edit, Write, RestTypes, configVars, countVars
<1>9. ASSUME NEW s \in Workers, NEW m \in queue, Deliver(s, m) PROVE RestTypes'
  BY <1>9, <1>a DEF Deliver, Fault, Fallible, RestTypes, configVars, countVars
<1>10. ASSUME NEW s \in Sessions, Rollback(s) PROVE RestTypes'
  BY <1>10, <1>a, <1>b, RolledBackType DEF Rollback, Write, RestTypes, configVars, countVars
<1>11. ASSUME NEW s \in Sessions, RefuseRollback(s) PROVE RestTypes'
  BY <1>11, <1>a DEF RefuseRollback, RestTypes, configVars, countVars
<1>12. ASSUME NEW s \in Sessions, Attempt(s) PROVE RestTypes'
  BY <1>12, <1>a DEF Attempt, RestTypes, configVars, countVars
<1>13. ASSUME NEW s \in Sessions, NothingToDo(s) PROVE RestTypes'
  BY <1>13, <1>a DEF NothingToDo, RestTypes, configVars, countVars
<1>14. ASSUME NEW s \in Sessions, Drop(s) PROVE RestTypes'
  BY <1>14, <1>a DEF Drop, Stray, Fallible, RestTypes, configVars, countVars
<1>15. ASSUME NEW s \in Sessions, Fill(s) PROVE RestTypes'
  BY <1>15, <1>a, <1>b DEF Fill, Stray, Fallible, RestTypes, configVars, countVars
<1>16. ASSUME NEW s \in Sessions, Crash(s) PROVE RestTypes'
  BY <1>16, <1>a, <1>b DEF Crash, Fault, Fallible, RestTypes, configVars, countVars
<1>17. ASSUME NEW m \in queue, LoseMessage(m) PROVE RestTypes'
  BY <1>17, <1>a DEF LoseMessage, Fault, Fallible, RestTypes, configVars, countVars
<1>18. ASSUME Expire PROVE RestTypes'
  BY <1>18, <1>a DEF Expire, RestTypes, configVars, countVars
<1>19. ASSUME UNCHANGED vars PROVE RestTypes'
  BY <1>19, <1>a DEF vars, RestTypes, configVars, countVars
<1> QED
  BY <1>1, <1>2, <1>3, <1>4, <1>5, <1>6, <1>7, <1>8, <1>9, <1>10, <1>11, <1>12, <1>13, <1>14, <1>15, <1>16, <1>17, <1>18, <1>19, StepCases

(* Every step keeps the types of the plans. *)
LEMMA StepPlanTypes ==
    TypeOK /\ [Next]_vars => plan' \in [Plans -> Plan] /\ clobbered' \in BOOLEAN
<1> DEFINE Goal == plan' \in [Plans -> Plan] /\ clobbered' \in BOOLEAN
<1> SUFFICES ASSUME TypeOK, [Next]_vars PROVE Goal
  OBVIOUS
<1>a. plan \in [Plans -> Plan] /\ clobbered \in BOOLEAN /\ doc \in Docs
  BY DEF TypeOK
<1>c. Pending \in Marker
  BY ConstantTypes
<1>1. ASSUME NEW p \in Plans, Preview(p) PROVE Goal
  BY <1>1, <1>a DEF Preview, countVars, Plan
<1>2. ASSUME NEW p \in Plans, Block(p) PROVE Goal
  BY <1>2, <1>a DEF Block, countVars, Plan
<1>3. ASSUME NEW p \in Plans, Dispatch(p) PROVE Goal
  BY <1>3, <1>a DEF Dispatch, countVars
<1>4. ASSUME NEW s \in Clients, NEW p \in Plans, Execute(s, p) PROVE Goal
  <2> DEFINE n == [plan[p] EXCEPT !.status = "EXECUTED",
                                  !.mark = [plan[p].mark EXCEPT !["EXECUTION"] = Pending]]
  <2>1. plan[p].mark \in [Kinds -> Marker]
    BY <1>a DEF Plan
  <2>2. [plan[p].mark EXCEPT !["EXECUTION"] = Pending] \in [Kinds -> Marker]
    BY <2>1, <1>c
  <2>3. n \in Plan
    BY <2>2, <1>a DEF Plan
  <2>4. plan' = [plan EXCEPT ![p] = n] /\ clobbered' = clobbered
    BY <1>4, <1>a DEF Execute, countVars, Plan
  <2> HIDE DEF n
  <2> QED
    BY <2>3, <2>4, <1>a
<1>5. ASSUME NEW s \in Clients, NEW p \in Plans, ExecuteAgain(s, p) PROVE Goal
  BY <1>5, <1>a DEF ExecuteAgain, countVars
<1>6. ASSUME NEW s \in Clients, NEW p \in Plans, AskRollback(s, p) PROVE Goal
  BY <1>6, <1>a DEF AskRollback, countVars
<1>7. ASSUME NEW s \in Clients, Miss(s) PROVE Goal
  BY <1>7, <1>a DEF Miss, countVars
<1>8. ASSUME NEW s \in Clients, NEW d \in Docs, Edit(s, d) PROVE Goal
  BY <1>8, <1>a DEF Edit, countVars
<1>9. ASSUME NEW s \in Workers, NEW m \in queue, Deliver(s, m) PROVE Goal
  BY <1>9, <1>a DEF Deliver, countVars
<1>10. ASSUME NEW s \in Sessions, Rollback(s) PROVE Goal
  <2>1. work[s].view \in Plan /\ work[s].plan \in Plans
    BY <1>10 DEF TypeOK, Work, Rollback
  <2>2. RolledBack(work[s].view) \in Plan
    BY <2>1, RolledBackType
  <2>3. plan' = [plan EXCEPT ![work[s].plan] = RolledBack(work[s].view)]
    BY <1>10 DEF Rollback
  <2>4. clobbered' = clobbered
    BY <1>10 DEF Rollback, countVars
  <2> QED
    BY <2>1, <2>2, <2>3, <2>4, <1>a
<1>11. ASSUME NEW s \in Sessions, RefuseRollback(s) PROVE Goal
  BY <1>11, <1>a DEF RefuseRollback, countVars
<1>12. ASSUME NEW s \in Sessions, Attempt(s) PROVE Goal
  <2>1. work[s].plan \in Plans /\ work[s].kind \in Kinds /\ Seen(s) \in Plan
    BY <1>12 DEF TypeOK, Work, Attempt, Seen
  <2>2. Due(Seen(s), work[s].kind)
    BY <1>12 DEF Attempt
  <2>3. \E state \in {"COMPLETED", "REQUIRED"} :
           Record(work[s].plan, work[s].kind, Seen(s), state)
    BY <1>12 DEF Attempt
  <2> QED
    BY <2>1, <2>2, <2>3, RecordType
<1>13. ASSUME NEW s \in Sessions, NothingToDo(s) PROVE Goal
  BY <1>13, <1>a DEF NothingToDo, countVars
<1>14. ASSUME NEW s \in Sessions, Drop(s) PROVE Goal
  BY <1>14, <1>a DEF Drop, countVars
<1>15. ASSUME NEW s \in Sessions, Fill(s) PROVE Goal
  BY <1>15, <1>a DEF Fill, countVars
<1>16. ASSUME NEW s \in Sessions, Crash(s) PROVE Goal
  BY <1>16, <1>a DEF Crash, countVars
<1>17. ASSUME NEW m \in queue, LoseMessage(m) PROVE Goal
  BY <1>17, <1>a DEF LoseMessage, countVars
<1>18. ASSUME Expire PROVE Goal
  BY <1>18, <1>a DEF Expire, countVars
<1>19. ASSUME UNCHANGED vars PROVE Goal
  BY <1>19, <1>a DEF vars, countVars
<1> QED
  BY <1>1, <1>2, <1>3, <1>4, <1>5, <1>6, <1>7, <1>8, <1>9, <1>10, <1>11, <1>12, <1>13, <1>14, <1>15, <1>16, <1>17, <1>18, <1>19, StepCases

(* Every step keeps the types of the sessions. *)
SessionTypes ==
    /\ work \in [Sessions -> Work]
    /\ \A s \in Sessions :
           work[s].at \in {"fresh", "read", "rollback"} => work[s].plan \in Plans

LEMMA StepSessionTypes == TypeOK /\ [Next]_vars => SessionTypes'
<1> SUFFICES ASSUME TypeOK, [Next]_vars PROVE SessionTypes'
  OBVIOUS
<1>a. SessionTypes /\ plan \in [Plans -> Plan]
  BY DEF TypeOK, SessionTypes
<1>b. /\ "EXECUTION" \in Kinds /\ "ROLLBACK" \in Kinds /\ NewPlan \in Plan
      /\ Clients \subseteq Sessions /\ Workers \subseteq Sessions
  BY NewPlanType, ConstantTypes DEF Kinds
<1>1. ASSUME NEW p \in Plans, Preview(p) PROVE SessionTypes'
  BY <1>1, <1>a DEF Preview, SessionTypes
<1>2. ASSUME NEW p \in Plans, Block(p) PROVE SessionTypes'
  BY <1>2, <1>a DEF Block, SessionTypes
<1>3. ASSUME NEW p \in Plans, Dispatch(p) PROVE SessionTypes'
  BY <1>3, <1>a DEF Dispatch, SessionTypes
<1>4. ASSUME NEW s \in Clients, NEW p \in Plans, Execute(s, p) PROVE SessionTypes'
  <2>1. \E at \in {"fresh", "rollback"}, k \in Kinds, v \in Plan :
           Attends(s, at, p, k, v)
    BY <1>4, <1>a, <1>b DEF Execute
  <2> QED
    BY <2>1, <1>b, AttendsType DEF SessionTypes
<1>5. ASSUME NEW s \in Clients, NEW p \in Plans, ExecuteAgain(s, p) PROVE SessionTypes'
  <2>1. \E at \in {"fresh", "rollback"}, k \in Kinds, v \in Plan :
           Attends(s, at, p, k, v)
    BY <1>5, <1>a, <1>b DEF ExecuteAgain
  <2> QED
    BY <2>1, <1>b, AttendsType DEF SessionTypes
<1>6. ASSUME NEW s \in Clients, NEW p \in Plans, AskRollback(s, p) PROVE SessionTypes'
  <2>1. \E at \in {"fresh", "rollback"}, k \in Kinds, v \in Plan :
           Attends(s, at, p, k, v)
    BY <1>6, <1>a, <1>b DEF AskRollback
  <2> QED
    BY <2>1, <1>b, AttendsType DEF SessionTypes
<1>7. ASSUME NEW s \in Clients, Miss(s) PROVE SessionTypes'
  <2> DEFINE n == [NoWork EXCEPT !.at = "fill", !.doc = doc]
  <2>1. n \in Work /\ n.at = "fill"
    BY NoWorkType DEF Work, NoWork, TypeOK
  <2>2. work' = [work EXCEPT ![s] = n]
    BY <1>7 DEF Miss
  <2> HIDE DEF n
  <2> QED
    BY <2>1, <2>2, <1>a, <1>b DEF SessionTypes
<1>8. ASSUME NEW s \in Clients, NEW d \in Docs, Edit(s, d) PROVE SessionTypes'
  <2> DEFINE n == [NoWork EXCEPT !.at = "drop"]
  <2>1. n \in Work /\ n.at = "drop"
    BY NoWorkType DEF Work, NoWork
  <2>2. work' = [work EXCEPT ![s] = n]
    BY <1>8 DEF Edit
  <2> HIDE DEF n
  <2> QED
    BY <2>1, <2>2, <1>a, <1>b DEF SessionTypes
<1>9. ASSUME NEW s \in Workers, NEW m \in queue, Deliver(s, m)
      PROVE  SessionTypes'
  <2>1. m[1] \in Plans /\ m[2] \in Kinds
    BY DEF TypeOK
  <2>2. \E at \in {"fresh", "read"}, v \in Plan : Attends(s, at, m[1], m[2], v)
    <3>1. CASE m[2] = "EXECUTION"
      <4>1. Attends(s, "read", m[1], m[2], plan[m[1]])
        BY <1>9, <3>1 DEF Deliver
      <4> QED
        BY <4>1, <2>1, <1>a
    <3>2. CASE m[2] # "EXECUTION"
      <4>1. Attends(s, "fresh", m[1], m[2], NewPlan)
        BY <1>9, <3>2 DEF Deliver
      <4> QED
        BY <4>1, <1>b
    <3> QED
      BY <3>1, <3>2
  <2> QED
    BY <2>1, <2>2, <1>b, AttendsType DEF SessionTypes
<1>10. ASSUME NEW s \in Sessions, Rollback(s) PROVE SessionTypes'
  <2>1. work[s].view \in Plan /\ work[s].plan \in Plans
    BY <1>10 DEF TypeOK, Work, Rollback
  <2>2. RolledBack(work[s].view) \in Plan
    BY <2>1, RolledBackType
  <2>3. Attends(s, "read", work[s].plan, "ROLLBACK", RolledBack(work[s].view))
    BY <1>10 DEF Rollback
  <2> QED
    BY <2>1, <2>2, <2>3, <1>b, AttendsType DEF SessionTypes
<1>11. ASSUME NEW s \in Sessions, RefuseRollback(s) PROVE SessionTypes'
  <2>1. Finish(s)
    BY <1>11 DEF RefuseRollback
  <2> QED
    BY <2>1, FinishType DEF SessionTypes
<1>12. ASSUME NEW s \in Sessions, Attempt(s) PROVE SessionTypes'
  <2>1. Finish(s)
    BY <1>12 DEF Attempt
  <2> QED
    BY <2>1, FinishType DEF SessionTypes
<1>13. ASSUME NEW s \in Sessions, NothingToDo(s) PROVE SessionTypes'
  <2>1. Finish(s)
    BY <1>13 DEF NothingToDo
  <2> QED
    BY <2>1, FinishType DEF SessionTypes
<1>14. ASSUME NEW s \in Sessions, Drop(s) PROVE SessionTypes'
  <2>1. Finish(s)
    BY <1>14 DEF Drop
  <2> QED
    BY <2>1, FinishType DEF SessionTypes
<1>15. ASSUME NEW s \in Sessions, Fill(s) PROVE SessionTypes'
  <2>1. Finish(s)
    BY <1>15 DEF Fill
  <2> QED
    BY <2>1, FinishType DEF SessionTypes
<1>16. ASSUME NEW s \in Sessions, Crash(s) PROVE SessionTypes'
  <2>1. Finish(s)
    BY <1>16 DEF Crash
  <2> QED
    BY <2>1, FinishType DEF SessionTypes
<1>17. ASSUME NEW m \in queue, LoseMessage(m) PROVE SessionTypes'
  BY <1>17, <1>a DEF LoseMessage, SessionTypes
<1>18. ASSUME Expire PROVE SessionTypes'
  BY <1>18, <1>a DEF Expire, SessionTypes
<1>19. ASSUME UNCHANGED vars PROVE SessionTypes'
  BY <1>19, <1>a DEF vars, SessionTypes
<1> QED
  BY <1>1, <1>2, <1>3, <1>4, <1>5, <1>6, <1>7, <1>8, <1>9, <1>10, <1>11, <1>12, <1>13, <1>14, <1>15, <1>16, <1>17, <1>18, <1>19, StepCases

LEMMA StepType == TypeOK /\ [Next]_vars => TypeOK'
<1> SUFFICES ASSUME TypeOK, [Next]_vars PROVE TypeOK'
  OBVIOUS
<1>1. /\ RestTypes' /\ SessionTypes'
      /\ plan' \in [Plans -> Plan] /\ clobbered' \in BOOLEAN
  BY StepRestTypes, StepPlanTypes, StepSessionTypes
<1> QED
  BY <1>1 DEF TypeOK, RestTypes, SessionTypes

(* Every variable keeps its type: no marker counts more attempts than the   *)
(* limit, and a session that acts on a plan has one.                        *)
THEOREM TypeCorrect == Spec => []TypeOK
<1>1. Init => TypeOK
  BY InitType
<1>2. TypeOK /\ [Next]_vars => TypeOK'
  BY StepType
<1> QED
  BY <1>1, <1>2, PTL DEF Spec

-----------------------------------------------------------------------------
(* The cached copy.  The invariant is inductive by itself: the row is only  *)
(* written by steps that leave a marker or a deletion to do, and a marker   *)
(* is only taken back by the attempt that has deleted the copy.             *)

(* Somebody will take care of a copy that is out of date. *)
Tracked ==
    \/ \E p \in Plans, k \in Kinds : Asks(plan[p], k)
    \/ \E s \in Sessions : work[s].at = "drop"

(* Plans keep what they ask for and sessions that delete go on. *)
LEMMA TrackedStays ==
    ASSUME TypeOK, Tracked,
           \A p \in Plans, k \in Kinds : Asks(plan[p], k) => Asks(plan'[p], k),
           \A s \in Sessions : work[s].at = "drop" => work'[s].at = "drop"
    PROVE  Tracked'
  BY DEF Tracked, Asks

(* A step that writes neither the row nor its copy. *)
LEMMA SameCopy ==
    ASSUME StaleCacheIsTracked, UNCHANGED <<doc, cache, strays>>,
           clobbered' = clobbered, Tracked => Tracked'
    PROVE  StaleCacheIsTracked'
  BY DEF StaleCacheIsTracked, Tracked

LEMMA StepTracked == TypeOK /\ StaleCacheIsTracked /\ [Next]_vars => StaleCacheIsTracked'
<1> SUFFICES ASSUME TypeOK, StaleCacheIsTracked, [Next]_vars
             PROVE  StaleCacheIsTracked'
  OBVIOUS
<1>a. /\ plan \in [Plans -> Plan] /\ work \in [Sessions -> Work]
      /\ "EXECUTION" \in Kinds /\ "ROLLBACK" \in Kinds
      /\ Clients \subseteq Sessions /\ Workers \subseteq Sessions
  BY ConstantTypes DEF TypeOK, Kinds
<1>b. NoWork.at = "idle"
  BY DEF NoWork
<1>1. ASSUME NEW p \in Plans, Preview(p) PROVE StaleCacheIsTracked'
  <2>1. UNCHANGED <<doc, cache, strays, clobbered, work>>
    BY <1>1 DEF Preview, configVars, countVars
  <2>2. \A q \in Plans, k \in Kinds : Asks(plan[q], k) => Asks(plan'[q], k)
    BY <1>1, <1>a DEF Preview, Asks, Plan
  <2> QED
    BY <2>1, <2>2, TrackedStays, SameCopy
<1>2. ASSUME NEW p \in Plans, Block(p) PROVE StaleCacheIsTracked'
  <2>1. UNCHANGED <<doc, cache, strays, clobbered, work>>
    BY <1>2 DEF Block, configVars, countVars
  <2>2. \A q \in Plans, k \in Kinds : Asks(plan[q], k) => Asks(plan'[q], k)
    BY <1>2, <1>a DEF Block, Asks, Plan
  <2> QED
    BY <2>1, <2>2, TrackedStays, SameCopy
<1>3. ASSUME NEW p \in Plans, Dispatch(p) PROVE StaleCacheIsTracked'
  <2>1. UNCHANGED <<doc, cache, strays, clobbered, plan, work>>
    BY <1>3 DEF Dispatch, configVars, countVars
  <2> QED
    BY <2>1, TrackedStays, SameCopy
<1>4. ASSUME NEW s \in Clients, NEW p \in Plans, Execute(s, p)
      PROVE  StaleCacheIsTracked'
  <2>1. plan'[p].status = "EXECUTED" /\ plan'[p].mark["EXECUTION"] = Pending
    BY <1>4, <1>a DEF Execute, Plan
  <2>2. Asks(plan'[p], "EXECUTION")
    BY <2>1 DEF Asks, KindOf, Pending
  <2> QED
    BY <2>2, <1>a DEF StaleCacheIsTracked, Asks
<1>5. ASSUME NEW s \in Clients, NEW p \in Plans, ExecuteAgain(s, p) PROVE StaleCacheIsTracked'
  <2>1. UNCHANGED <<doc, cache, strays, clobbered, plan>>
    BY <1>5 DEF ExecuteAgain, configVars, countVars
  <2>2. \A t \in Sessions : work[t].at = "drop" => work'[t].at = "drop"
    BY <1>5, <1>a, <1>b DEF ExecuteAgain, Attends, Finish, Idle
  <2> QED
    BY <2>1, <2>2, TrackedStays, SameCopy
<1>6. ASSUME NEW s \in Clients, NEW p \in Plans, AskRollback(s, p) PROVE StaleCacheIsTracked'
  <2>1. UNCHANGED <<doc, cache, strays, clobbered, plan>>
    BY <1>6 DEF AskRollback, configVars, countVars
  <2>2. \A t \in Sessions : work[t].at = "drop" => work'[t].at = "drop"
    BY <1>6, <1>a, <1>b DEF AskRollback, Attends, Finish, Idle
  <2> QED
    BY <2>1, <2>2, TrackedStays, SameCopy
<1>7. ASSUME NEW s \in Clients, Miss(s) PROVE StaleCacheIsTracked'
  <2>1. UNCHANGED <<doc, cache, strays, clobbered, plan>>
    BY <1>7 DEF Miss, configVars, countVars
  <2>2. \A t \in Sessions : work[t].at = "drop" => work'[t].at = "drop"
    BY <1>7, <1>a, <1>b DEF Miss, Attends, Finish, Idle
  <2> QED
    BY <2>1, <2>2, TrackedStays, SameCopy
<1>8. ASSUME NEW s \in Clients, NEW d \in Docs, Edit(s, d)
      PROVE  StaleCacheIsTracked'
  <2>1. work'[s].at = "drop"
    BY <1>8, <1>a DEF Edit, NoWork
  <2> QED
    BY <2>1, <1>a DEF StaleCacheIsTracked
<1>9. ASSUME NEW s \in Workers, NEW m \in queue, Deliver(s, m) PROVE StaleCacheIsTracked'
  <2>1. UNCHANGED <<doc, cache, strays, clobbered, plan>>
    BY <1>9 DEF Deliver, configVars, countVars
  <2>2. \A t \in Sessions : work[t].at = "drop" => work'[t].at = "drop"
    BY <1>9, <1>a, <1>b DEF Deliver, Attends, Finish, Idle
  <2> QED
    BY <2>1, <2>2, TrackedStays, SameCopy
<1>10. ASSUME NEW s \in Sessions, Rollback(s) PROVE StaleCacheIsTracked'
  <2> DEFINE p == work[s].plan
  <2>1. work[s].view \in Plan /\ p \in Plans
    BY <1>10 DEF TypeOK, Work, Rollback
  <2>2. plan'[p] = RolledBack(work[s].view)
    BY <1>10, <2>1, <1>a DEF Rollback
  <2>3. Asks(RolledBack(work[s].view), "ROLLBACK")
    BY <2>1 DEF Asks, KindOf, RolledBack, Pending, Plan, Kinds
  <2>4. Asks(plan'[p], "ROLLBACK")
    BY <2>2, <2>3
  <2> QED
    BY <2>1, <2>4, <1>a DEF StaleCacheIsTracked, Asks
<1>11. ASSUME NEW s \in Sessions, RefuseRollback(s) PROVE StaleCacheIsTracked'
  <2>1. UNCHANGED <<doc, cache, strays, clobbered, plan>>
    BY <1>11 DEF RefuseRollback, configVars, countVars
  <2>2. \A t \in Sessions : work[t].at = "drop" => work'[t].at = "drop"
    BY <1>11, <1>a, <1>b DEF RefuseRollback, Attends, Finish, Idle
  <2> QED
    BY <2>1, <2>2, TrackedStays, SameCopy
<1>12. ASSUME NEW s \in Sessions, Attempt(s) PROVE StaleCacheIsTracked'
  <2> DEFINE p == work[s].plan
             k == work[s].kind
             v == Seen(s)
  <2>1. p \in Plans /\ k \in Kinds /\ v \in Plan /\ Due(v, k)
    BY <1>12 DEF TypeOK, Work, Attempt, Seen
  <2>2. CASE cache' = NoDoc
    BY <2>2 DEF StaleCacheIsTracked
  <2>3. CASE Record(p, k, v, "REQUIRED")
    <3>1. CASE v.status # plan[p].status
      BY <2>3, <3>1 DEF Record, StaleCacheIsTracked
    <3>2. CASE v.status = plan[p].status
      <4>1. /\ plan'[p].status = v.status
            /\ plan'[p].mark[k].state = "REQUIRED"
        BY <2>1, <2>3, <3>2, <1>a DEF Record, Plan
      <4>2. Asks(plan'[p], k)
        BY <4>1, <2>1 DEF Asks, Due
      <4> QED
        BY <4>2, <2>1 DEF StaleCacheIsTracked, Asks
    <3> QED
      BY <3>1, <3>2
  <2> QED
    BY <1>12, <2>2, <2>3 DEF Attempt
<1>13. ASSUME NEW s \in Sessions, NothingToDo(s) PROVE StaleCacheIsTracked'
  <2>1. UNCHANGED <<doc, cache, strays, clobbered, plan>>
    BY <1>13 DEF NothingToDo, configVars, countVars
  <2>2. \A t \in Sessions : work[t].at = "drop" => work'[t].at = "drop"
    BY <1>13, <1>a, <1>b DEF NothingToDo, Attends, Finish, Idle
  <2> QED
    BY <2>1, <2>2, TrackedStays, SameCopy
<1>14. ASSUME NEW s \in Sessions, Drop(s) PROVE StaleCacheIsTracked'
  <2>1. CASE cache' = NoDoc
    BY <2>1 DEF StaleCacheIsTracked
  <2>2. CASE Stray
    <3>1. strays' # 0
      BY <2>2 DEF Stray, TypeOK
    <3> QED
      BY <3>1 DEF StaleCacheIsTracked
  <2> QED
    BY <1>14, <2>1, <2>2 DEF Drop
<1>15. ASSUME NEW s \in Sessions, Fill(s) PROVE StaleCacheIsTracked'
  <2>1. CASE work[s].doc = doc
    BY <1>15, <2>1 DEF Fill, StaleCacheIsTracked
  <2>2. CASE work[s].doc # doc
    <3>1. strays' # 0
      BY <1>15, <2>2 DEF Fill, Stray, TypeOK
    <3> QED
      BY <3>1 DEF StaleCacheIsTracked
  <2> QED
    BY <2>1, <2>2
<1>16. ASSUME NEW s \in Sessions, Crash(s) PROVE StaleCacheIsTracked'
  <2>1. UNCHANGED <<doc, cache, strays, clobbered, plan>>
    BY <1>16 DEF Crash, configVars, countVars
  <2>2. \A t \in Sessions : work[t].at = "drop" => work'[t].at = "drop"
    BY <1>16, <1>a, <1>b DEF Crash, Attends, Finish, Idle
  <2> QED
    BY <2>1, <2>2, TrackedStays, SameCopy
<1>17. ASSUME NEW m \in queue, LoseMessage(m) PROVE StaleCacheIsTracked'
  <2>1. UNCHANGED <<doc, cache, strays, clobbered, plan, work>>
    BY <1>17 DEF LoseMessage, configVars, countVars
  <2> QED
    BY <2>1, TrackedStays, SameCopy
<1>18. ASSUME Expire PROVE StaleCacheIsTracked'
  BY <1>18 DEF Expire, StaleCacheIsTracked
<1>19. ASSUME UNCHANGED vars PROVE StaleCacheIsTracked'
  <2>1. UNCHANGED <<doc, cache, strays, clobbered, plan, work>>
    BY <1>19 DEF vars, configVars, countVars
  <2> QED
    BY <2>1, TrackedStays, SameCopy
<1> QED
  BY <1>1, <1>2, <1>3, <1>4, <1>5, <1>6, <1>7, <1>8, <1>9, <1>10, <1>11, <1>12, <1>13, <1>14, <1>15, <1>16, <1>17, <1>18, <1>19, StepCases

(* A cached copy that is not the row is always accounted for by a marker or *)
(* by an update that is about to delete it, for any number of plans,        *)
(* sessions, documents and faults.                                          *)
THEOREM StaleCopiesAreTracked == Spec => []StaleCacheIsTracked
<1>1. Init => TypeOK /\ StaleCacheIsTracked
  BY InitType DEF Init, StaleCacheIsTracked
<1>2. TypeOK /\ StaleCacheIsTracked /\ [Next]_vars
          => (TypeOK /\ StaleCacheIsTracked)'
  BY StepType, StepTracked
<1> QED
  BY <1>1, <1>2, PTL DEF Spec

-----------------------------------------------------------------------------
(* Changes and the documents they replace.  While nothing has written the   *)
(* row since a preview, the row is still the document the preview was made  *)
(* from; and what a rollback has read of its plan may be out of date in     *)
(* everything but the document that the plan replaced.                      *)

PreviewInv ==
    \A p \in untouched : plan[p].status = "DRY_RUN" => plan[p].source = doc

RollbackInv ==
    \A s \in Sessions : work[s].at = "rollback" =>
        /\ work[s].view.source = plan[work[s].plan].source
        /\ plan[work[s].plan].status \in {"EXECUTED", "ROLLED_BACK"}

ChangeInv == PreviewInv /\ RollbackInv

(* What most steps leave alone. *)
KeepsPlans ==
    \A p \in Plans : /\ plan'[p].status = plan[p].status
                     /\ plan'[p].source = plan[p].source
KeepsRow       == doc' = doc /\ untouched' = untouched /\ edits' = edits
KeepsRollbacks ==
    \A s \in Sessions : work'[s].at = "rollback" => work'[s] = work[s]

(* The two functions of the refinement, step by step. *)
LEMMA PhaseMoves ==
    ASSUME NEW p \in Plans, NEW b, plan'[p].status = b,
           \A q \in Plans : q # p => plan'[q].status = plan[q].status
    PROVE  Change!Moves(p, plan[p].status, b)
  BY DEF Change!Moves

LEMMA SourceMoves ==
    ASSUME NEW p \in Plans, NEW d, plan'[p].source = d,
           \A q \in Plans : q # p => plan'[q].source = plan[q].source
    PROVE  [q \in Plans |-> plan[q].source]'
               = [[q \in Plans |-> plan[q].source] EXCEPT ![p] = d]
  OBVIOUS

LEMMA SourcesStay ==
    ASSUME \A q \in Plans : plan'[q].source = plan[q].source
    PROVE  [q \in Plans |-> plan[q].source]' = [q \in Plans |-> plan[q].source]
  OBVIOUS

LEMMA PhasesStay ==
    ASSUME \A q \in Plans : plan'[q].status = plan[q].status
    PROVE  [q \in Plans |-> plan[q].status]' = [q \in Plans |-> plan[q].status]
  OBVIOUS

(* A step that changes the status of no plan and begins no rollback. *)
LEMMA QuietInv ==
    ASSUME TypeOK, ChangeInv, KeepsPlans, KeepsRollbacks,
           KeepsRow \/ untouched' = {}
    PROVE  ChangeInv'
<1>1. untouched \subseteq Plans
  BY DEF TypeOK
<1>2. PreviewInv'
  BY <1>1 DEF ChangeInv, PreviewInv, KeepsPlans, KeepsRow
<1>3. RollbackInv'
  <2> SUFFICES ASSUME NEW s \in Sessions, work'[s].at = "rollback"
               PROVE  /\ work'[s].view.source = plan'[work'[s].plan].source
                      /\ plan'[work'[s].plan].status \in {"EXECUTED", "ROLLED_BACK"}
    BY DEF RollbackInv
  <2>1. work'[s] = work[s] /\ work[s].at = "rollback"
    BY DEF KeepsRollbacks
  <2>2. work[s].plan \in Plans
    BY <2>1 DEF TypeOK
  <2> QED
    BY <2>1, <2>2 DEF ChangeInv, RollbackInv, KeepsPlans
<1> QED
  BY <1>2, <1>3 DEF ChangeInv

(* If it keeps the row as well, the abstract change does not move. *)
LEMMA QuietStep ==
    ASSUME TypeOK, ChangeInv, KeepsPlans, KeepsRollbacks, KeepsRow
    PROVE  ChangeInv' /\ [Change!ONext]_(Change!ovars)
<1>1. ChangeInv'
  BY QuietInv
<1>2. UNCHANGED Change!ovars
  BY PhasesStay, SourcesStay DEF KeepsPlans, KeepsRow, Change!ovars
<1> QED
  BY <1>1, <1>2

(* Sessions that begin no rollback. *)
LEMMA NoNewRollback ==
    ASSUME TypeOK, NEW s \in Sessions
    PROVE  /\ Finish(s) => KeepsRollbacks
           /\ \A at \in {"fresh", "read"} : \A p, k, v :
                  Attends(s, at, p, k, v) => KeepsRollbacks
<1>1. work \in [Sessions -> Work]
  BY DEF TypeOK
<1>2. Finish(s) => KeepsRollbacks
  BY <1>1 DEF Finish, KeepsRollbacks, NoWork
<1>3. ASSUME NEW at \in {"fresh", "read"}, NEW p, NEW k, NEW v,
             Attends(s, at, p, k, v)
      PROVE  KeepsRollbacks
  <2> DEFINE n == [NoWork EXCEPT !.at = at, !.plan = p, !.kind = k, !.view = v]
  <2>1. n.at # "rollback"
    BY DEF NoWork
  <2>2. work' = [work EXCEPT ![s] = n]
    BY <1>3 DEF Attends
  <2> HIDE DEF n
  <2> QED
    BY <2>1, <2>2, <1>1 DEF KeepsRollbacks
<1> QED
  BY <1>2, <1>3

(* Each step proposes, discards, applies or reverts a change, overwrites    *)
(* the document, or leaves them all alone. *)
LEMMA StepChange ==
    TypeOK /\ ChangeInv /\ [Next]_vars
        => ChangeInv' /\ [Change!ONext]_(Change!ovars)
<1> DEFINE Goal == ChangeInv' /\ [Change!ONext]_(Change!ovars)
<1> SUFFICES ASSUME TypeOK, ChangeInv, [Next]_vars PROVE Goal
  OBVIOUS
<1>a. /\ plan \in [Plans -> Plan] /\ work \in [Sessions -> Work]
      /\ untouched \subseteq Plans
      /\ Clients \subseteq Sessions /\ Workers \subseteq Sessions
  BY ConstantTypes DEF TypeOK
<1>b. UNCHANGED plan => KeepsPlans
  BY DEF KeepsPlans
<1>c. UNCHANGED work => KeepsRollbacks
  BY DEF KeepsRollbacks
<1>d. UNCHANGED <<configVars, edits>> => KeepsRow
  BY DEF configVars, KeepsRow
<1>e. UNCHANGED countVars => edits' = edits
  BY DEF countVars
<1>1. ASSUME NEW p \in Plans, Preview(p) PROVE Goal
  <2>1. /\ plan' = [plan EXCEPT ![p].status = "DRY_RUN", ![p].source = doc]
        /\ doc' = doc /\ untouched' = untouched \union {p} /\ work' = work
        /\ plan[p].status = "ABSENT"
    BY <1>1 DEF Preview
  <2>2. plan'[p].status = "DRY_RUN" /\ plan'[p].source = doc
    BY <2>1, <1>a DEF Plan
  <2>3. \A q \in Plans : q # p => plan'[q] = plan[q]
    BY <2>1, <1>a
  <2>4. PreviewInv'
    BY <2>1, <2>2, <2>3, <1>a DEF ChangeInv, PreviewInv
  <2>5. RollbackInv'
    <3> SUFFICES ASSUME NEW s \in Sessions, work[s].at = "rollback"
                 PROVE  /\ work[s].view.source = plan'[work[s].plan].source
                        /\ plan'[work[s].plan].status \in {"EXECUTED", "ROLLED_BACK"}
      BY <2>1 DEF RollbackInv
    <3>1. work[s].plan \in Plans
      BY DEF TypeOK
    <3>2. plan[work[s].plan].status \in {"EXECUTED", "ROLLED_BACK"}
      BY DEF ChangeInv, RollbackInv
    <3>3. work[s].plan # p
      BY <3>2, <2>1
    <3> QED
      BY <3>1, <3>3, <2>3 DEF ChangeInv, RollbackInv
  <2>6. Change!Propose(p)
    <3>1. Change!Moves(p, "ABSENT", "DRY_RUN")
      BY <2>1, <2>2, <2>3, PhaseMoves
    <3>2. edits' = edits
      BY <1>1, <1>e DEF Preview
    <3> QED
      BY <2>1, <2>2, <2>3, <3>1, <3>2, SourceMoves DEF Change!Propose
  <2> QED
    BY <2>4, <2>5, <2>6 DEF ChangeInv, Change!ONext
<1>2. ASSUME NEW p \in Plans, Block(p) PROVE Goal
  <2>1. /\ plan' = [plan EXCEPT ![p].status = "STALE"]
        /\ doc' = doc /\ untouched' = untouched /\ work' = work
        /\ plan[p].status = "DRY_RUN"
    BY <1>2 DEF Block, configVars
  <2>2. plan'[p].status = "STALE" /\ plan'[p].source = plan[p].source
    BY <2>1, <1>a DEF Plan
  <2>3. \A q \in Plans : q # p => plan'[q] = plan[q]
    BY <2>1, <1>a
  <2>4. PreviewInv'
    BY <2>1, <2>2, <2>3, <1>a DEF ChangeInv, PreviewInv
  <2>5. RollbackInv'
    <3> SUFFICES ASSUME NEW s \in Sessions, work[s].at = "rollback"
                 PROVE  /\ work[s].view.source = plan'[work[s].plan].source
                        /\ plan'[work[s].plan].status \in {"EXECUTED", "ROLLED_BACK"}
      BY <2>1 DEF RollbackInv
    <3>1. work[s].plan \in Plans
      BY DEF TypeOK
    <3>2. plan[work[s].plan].status \in {"EXECUTED", "ROLLED_BACK"}
      BY DEF ChangeInv, RollbackInv
    <3>3. work[s].plan # p
      BY <3>2, <2>1
    <3> QED
      BY <3>1, <3>3, <2>3 DEF ChangeInv, RollbackInv
  <2>6. Change!Discard(p)
    <3>1. Change!Moves(p, "DRY_RUN", "STALE")
      BY <2>1, <2>2, <2>3, PhaseMoves
    <3>2. edits' = edits
      BY <1>2, <1>e DEF Block
    <3> QED
      BY <2>1, <2>2, <2>3, <3>1, <3>2, SourcesStay DEF Change!Discard
  <2> QED
    BY <2>4, <2>5, <2>6 DEF ChangeInv, Change!ONext
<1>3. ASSUME NEW p \in Plans, Dispatch(p) PROVE Goal
  BY <1>3, <1>b, <1>c, <1>d, <1>e, QuietStep DEF Dispatch
<1>4. ASSUME NEW s \in Clients, NEW p \in Plans, Execute(s, p) PROVE Goal
  <2>1. /\ plan[p].status = "DRY_RUN" /\ p \in untouched
        /\ doc' = p /\ untouched' = {}
        /\ Attends(s, "fresh", p, "EXECUTION", NewPlan)
    BY <1>4 DEF Execute, Write
  <2>2. /\ plan'[p].status = "EXECUTED" /\ plan'[p].source = plan[p].source
        /\ \A q \in Plans : q # p => plan'[q] = plan[q]
    BY <1>4, <1>a DEF Execute, Plan
  <2>3. doc = plan[p].source
    BY <2>1 DEF ChangeInv, PreviewInv
  <2>4. PreviewInv'
    BY <2>1 DEF PreviewInv
  <2>5. KeepsRollbacks
    BY <2>1, <1>a, NoNewRollback
  <2>6. RollbackInv'
    <3> SUFFICES ASSUME NEW t \in Sessions, work'[t].at = "rollback"
                 PROVE  /\ work'[t].view.source = plan'[work'[t].plan].source
                        /\ plan'[work'[t].plan].status \in {"EXECUTED", "ROLLED_BACK"}
      BY DEF RollbackInv
    <3>1. work'[t] = work[t] /\ work[t].at = "rollback"
      BY <2>5 DEF KeepsRollbacks
    <3>2. work[t].plan \in Plans
      BY <3>1 DEF TypeOK
    <3>3. /\ work[t].view.source = plan[work[t].plan].source
          /\ plan[work[t].plan].status \in {"EXECUTED", "ROLLED_BACK"}
      BY <3>1 DEF ChangeInv, RollbackInv
    <3> QED
      BY <3>1, <3>2, <3>3, <2>2
  <2>7. Change!Apply(p)
    <3>1. Change!Moves(p, "DRY_RUN", "EXECUTED")
      BY <2>1, <2>2, PhaseMoves
    <3>2. edits' = edits
      BY <1>4, <1>e DEF Execute
    <3> QED
      BY <2>1, <2>2, <2>3, <3>1, <3>2, SourcesStay DEF Change!Apply
  <2> QED
    BY <2>4, <2>6, <2>7 DEF ChangeInv, Change!ONext
<1>5. ASSUME NEW s \in Clients, NEW p \in Plans, ExecuteAgain(s, p) PROVE Goal
  <2>1. UNCHANGED plan /\ UNCHANGED <<configVars, edits>>
        /\ Attends(s, "fresh", p, "EXECUTION", NewPlan)
    BY <1>5, <1>e DEF ExecuteAgain
  <2>2. KeepsRollbacks
    BY <2>1, <1>a, NoNewRollback
  <2> QED
    BY <2>1, <2>2, <1>b, <1>d, QuietStep
<1>6. ASSUME NEW s \in Clients, NEW p \in Plans, AskRollback(s, p) PROVE Goal
  <2> DEFINE n == [NoWork EXCEPT !.at = "rollback", !.plan = p,
                                 !.kind = "ROLLBACK", !.view = plan[p]]
  <2>1. /\ work' = [work EXCEPT ![s] = n] /\ plan' = plan
        /\ doc' = doc /\ untouched' = untouched /\ edits' = edits
        /\ plan[p].status = "EXECUTED"
    BY <1>6 DEF AskRollback, Attends, configVars, countVars
  <2>2. n.plan = p /\ n.view = plan[p]
    BY DEF NoWork
  <2> HIDE DEF n
  <2>3. PreviewInv' /\ UNCHANGED Change!ovars
    BY <2>1 DEF ChangeInv, PreviewInv, Change!ovars
  <2>4. RollbackInv'
    BY <2>1, <2>2, <1>a DEF ChangeInv, RollbackInv
  <2> QED
    BY <2>3, <2>4 DEF ChangeInv
<1>7. ASSUME NEW s \in Clients, Miss(s) PROVE Goal
  <2> DEFINE n == [NoWork EXCEPT !.at = "fill", !.doc = doc]
  <2>1. /\ work' = [work EXCEPT ![s] = n]
        /\ UNCHANGED plan /\ UNCHANGED <<configVars, edits>>
    BY <1>7, <1>e DEF Miss
  <2>2. n.at # "rollback"
    BY DEF NoWork
  <2> HIDE DEF n
  <2>3. KeepsRollbacks
    BY <2>1, <2>2, <1>a DEF KeepsRollbacks
  <2> QED
    BY <2>1, <2>3, <1>b, <1>d, QuietStep
<1>8. ASSUME NEW s \in Clients, NEW d \in Docs, Edit(s, d) PROVE Goal
  <2> DEFINE n == [NoWork EXCEPT !.at = "drop"]
  <2>1. work' = [work EXCEPT ![s] = n] /\ UNCHANGED plan /\ untouched' = {}
    BY <1>8 DEF Edit, Write
  <2>2. n.at # "rollback"
    BY DEF NoWork
  <2> HIDE DEF n
  <2>3. KeepsRollbacks
    BY <2>1, <2>2, <1>a DEF KeepsRollbacks
  <2>4. ChangeInv'
    BY <2>1, <2>3, <1>b, QuietInv
  <2>5. Change!Overwrite(d)
    BY <1>8 DEF Edit, Write, Change!Overwrite
  <2> QED
    BY <2>4, <2>5 DEF Change!ONext
<1>9. ASSUME NEW s \in Workers, NEW m \in queue, Deliver(s, m) PROVE Goal
  <2>1. UNCHANGED plan /\ UNCHANGED <<configVars, edits>>
        /\ \E at \in {"fresh", "read"} : \E v : Attends(s, at, m[1], m[2], v)
    BY <1>9 DEF Deliver
  <2>2. KeepsRollbacks
    BY <2>1, <1>a, NoNewRollback
  <2> QED
    BY <2>1, <2>2, <1>b, <1>d, QuietStep
<1>10. ASSUME NEW s \in Sessions, Rollback(s) PROVE Goal
  <2> DEFINE p == work[s].plan
             v == RolledBack(work[s].view)
  <2>1. /\ work[s].at = "rollback" /\ doc = p
        /\ doc' = v.source /\ untouched' = {}
        /\ plan' = [plan EXCEPT ![p] = v]
        /\ Attends(s, "read", p, "ROLLBACK", v)
    BY <1>10 DEF Rollback, Write
  <2>2. work[s].view \in Plan /\ p \in Plans
    BY <2>1 DEF TypeOK, Work
  <2>3. v.source = work[s].view.source /\ v.status = "ROLLED_BACK"
    BY <2>2 DEF RolledBack, Plan
  <2>4. work[s].view.source = plan[p].source
    BY <2>1 DEF ChangeInv, RollbackInv
  <2>5. plan'[p] = v /\ \A q \in Plans : q # p => plan'[q] = plan[q]
    BY <2>1, <2>2, <1>a
  <2>6. KeepsRollbacks
    BY <2>1, NoNewRollback
  <2> HIDE DEF v
  <2>7. PreviewInv'
    BY <2>1 DEF PreviewInv
  <2>8. RollbackInv'
    <3> SUFFICES ASSUME NEW t \in Sessions, work'[t].at = "rollback"
                 PROVE  /\ work'[t].view.source = plan'[work'[t].plan].source
                        /\ plan'[work'[t].plan].status \in {"EXECUTED", "ROLLED_BACK"}
      BY DEF RollbackInv
    <3>1. work'[t] = work[t] /\ work[t].at = "rollback"
      BY <2>6 DEF KeepsRollbacks
    <3>2. work[t].plan \in Plans
      BY <3>1 DEF TypeOK
    <3>3. /\ work[t].view.source = plan[work[t].plan].source
          /\ plan[work[t].plan].status \in {"EXECUTED", "ROLLED_BACK"}
      BY <3>1 DEF ChangeInv, RollbackInv
    <3> QED
      BY <3>1, <3>2, <3>3, <2>3, <2>4, <2>5
  <2>9. ASSUME NEW q \in Plans, q = p
        PROVE  Change!Revert(q) \/ Change!RevertAgain(q)
    <3>1. /\ \A r \in Plans : plan'[r].source = plan[r].source
          /\ \A r \in Plans : r # q => plan'[r].status = plan[r].status
      BY <2>3, <2>4, <2>5, <2>9
    <3>2. plan'[q].status = "ROLLED_BACK"
      BY <2>3, <2>5, <2>9
    <3>3. doc = q /\ doc' = plan[q].source /\ edits' = edits
      BY <1>10, <1>e, <2>1, <2>3, <2>4, <2>9 DEF Rollback
    <3>4. CASE plan[q].status = "EXECUTED"
      <4>1. Change!Moves(q, "EXECUTED", "ROLLED_BACK")
        BY <3>1, <3>2, <3>4, PhaseMoves
      <4> QED
        BY <3>1, <3>3, <4>1, SourcesStay DEF Change!Revert
    <3>5. CASE plan[q].status = "ROLLED_BACK"
      <4>1. \A r \in Plans : plan'[r].status = plan[r].status
        BY <3>1, <3>2, <3>5
      <4> QED
        BY <3>1, <3>3, <3>5, <4>1, SourcesStay, PhasesStay DEF Change!RevertAgain
    <3> QED
      BY <2>1, <2>9, <3>4, <3>5 DEF ChangeInv, RollbackInv
  <2>10. Change!ONext
    BY <2>2, <2>9, Zenon DEF Change!ONext
  <2> QED
    BY <2>7, <2>8, <2>10, Zenon DEF ChangeInv
<1>11. ASSUME NEW s \in Sessions, RefuseRollback(s) PROVE Goal
  BY <1>11, <1>b, <1>d, <1>e, NoNewRollback, QuietStep DEF RefuseRollback
<1>12. ASSUME NEW s \in Sessions, Attempt(s) PROVE Goal
  <2>1. /\ doc' = doc /\ untouched' = untouched /\ edits' = edits /\ Finish(s)
        /\ \E state : Record(work[s].plan, work[s].kind, Seen(s), state)
    BY <1>12 DEF Attempt
  <2>2. \E ms : plan' = [plan EXCEPT ![work[s].plan].mark = ms]
    BY <2>1 DEF Record
  <2>3. KeepsPlans
    BY <2>2, <1>a DEF KeepsPlans, Plan
  <2>4. KeepsRow
    BY <2>1 DEF KeepsRow
  <2> QED
    BY <2>1, <2>3, <2>4, NoNewRollback, QuietStep
<1>13. ASSUME NEW s \in Sessions, NothingToDo(s) PROVE Goal
  BY <1>13, <1>b, <1>d, <1>e, NoNewRollback, QuietStep DEF NothingToDo
<1>14. ASSUME NEW s \in Sessions, Drop(s) PROVE Goal
  BY <1>14, <1>b, NoNewRollback, QuietStep DEF Drop, KeepsRow
<1>15. ASSUME NEW s \in Sessions, Fill(s) PROVE Goal
  BY <1>15, <1>b, NoNewRollback, QuietStep DEF Fill, KeepsRow
<1>16. ASSUME NEW s \in Sessions, Crash(s) PROVE Goal
  BY <1>16, <1>b, <1>d, <1>e, NoNewRollback, QuietStep DEF Crash
<1>17. ASSUME NEW m \in queue, LoseMessage(m) PROVE Goal
  BY <1>17, <1>b, <1>c, <1>d, <1>e, QuietStep DEF LoseMessage
<1>18. ASSUME Expire PROVE Goal
  BY <1>18, <1>b, <1>c, QuietStep DEF Expire, KeepsRow, countVars
<1>19. ASSUME UNCHANGED vars PROVE Goal
  BY <1>19, <1>b, <1>c, <1>d, <1>e, QuietStep DEF vars
<1> QED
  BY <1>1, <1>2, <1>3, <1>4, <1>5, <1>6, <1>7, <1>8, <1>9, <1>10, <1>11, <1>12, <1>13, <1>14, <1>15, <1>16, <1>17, <1>18, <1>19, StepCases

(* The plans implement the abstract change: no execution overwrites a document other  *)
(* than the previewed one, no rollback anything but the candidate, and      *)
(* nobody else's write is lost, for any plans, sessions, documents and      *)
(* faults, however stale the reading a rollback decides from.               *)
THEOREM ChangesImplementOptimistic == Spec => ImplementsChange
<1>1. Init => TypeOK /\ ChangeInv
  <2>1. Init => TypeOK
    BY InitType
  <2>2. Init => ChangeInv
    BY DEF Init, ChangeInv, PreviewInv, RollbackInv, NoWork
  <2> QED
    BY <2>1, <2>2
<1>2. Init => Change!OInit
  BY ConstantTypes DEF Init, NewPlan, Change!OInit
<1>3. TypeOK /\ ChangeInv /\ [Next]_vars => (TypeOK /\ ChangeInv)'
  BY StepType, StepChange
<1>4. TypeOK /\ ChangeInv /\ [Next]_vars => [Change!ONext]_(Change!ovars)
  BY StepChange
<1> QED
  BY <1>1, <1>2, <1>3, <1>4, PTL DEF Spec, ImplementsChange, Change!OSpec
=============================================================================
