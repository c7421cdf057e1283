------------------------ MODULE GateWsLeader_proofs ------------------------
(***************************************************************************)
(* Proofs about the leader election of the Gate.io WebSocket, for any set  *)
(* of replicas and any number of faults, lapses, shutdowns and refreshes.  *)
(***************************************************************************)
EXTENDS GateWsLeader, FiniteSetTheorems, TLAPS

(* The places of a term, spelled out once. *)
TermPlace == {"resolving", "starting", "serving", "diff", "apply", "leaving", "releasing"}

(* A replica is in its term exactly at those places. *)
LEMMA TermPlaces == \A i : InTerm(i) <=> pc[i] \in TermPlace
  BY DEF InTerm, WsUp, TermPlace

(* The same in the next state. *)
LEMMA TermPlacesPrime == \A i : InTerm(i)' <=> pc'[i] \in TermPlace
  BY DEF InTerm, WsUp, TermPlace

(* A step is an action of one replica, a change of the world or a stutter. *)
LEMMA StepCases ==
    ASSUME [Next]_vars
    PROVE  \/ \E i \in Instance :
                \/ Boot(i) \/ Acquire(i) \/ Resolve(i) \/ StartWs(i)
                \/ LoseLease(i) \/ RefreshRequested(i) \/ ReadDiff(i) \/ ApplyDiff(i)
                \/ Leave(i) \/ StopWs(i) \/ Release(i)
                \/ RenewFails(i) \/ Cancel(i) \/ Shutdown(i) \/ Crash(i)
                \/ Lapse(i) \/ OrphanExpires(i)
           \/ ChangePool \/ RequestRefresh \/ UNCHANGED vars
  BY Zenon DEF Next, Lead, Serve, GiveUp

(* Nobody is in its term at the start. *)
LEMMA InitIInv == Init => IInv
<1> SUFFICES ASSUME Init PROVE IInv
  OBVIOUS
<1>1. TypeOK /\ TermIsLeased
  BY InstanceAssumption DEF Init, TypeOK, TermIsLeased, InTerm, WsUp, Place
<1>2. LapsedTerms = {}
  BY DEF Init, LapsedTerms
<1> QED
  BY <1>1, <1>2, FS_EmptySet DEF Init, IInv, LapsesAreCounted

-----------------------------------------------------------------------------
(* Every step keeps the types. *)
LEMMA StepTypeOK == TypeOK /\ [Next]_vars => TypeOK'
<1> SUFFICES ASSUME TypeOK, [Next]_vars PROVE TypeOK'
  OBVIOUS
<1> USE DEF TypeOK, Place, MoveTo, Sound, Faulty, world, term
<1>1. ASSUME NEW i \in Instance, Boot(i) PROVE TypeOK'
  BY <1>1 DEF Boot
<1>2. ASSUME NEW i \in Instance, Acquire(i) PROVE TypeOK'
  <2>1. CASE Sound /\ MoveTo(i, "resolving") /\ lapsed' = [lapsed EXCEPT ![i] = FALSE]
    BY <1>2, <2>1 DEF Acquire
  <2>2. CASE Faulty /\ UNCHANGED <<pc, lapsed>>
    BY <1>2, <2>2 DEF Acquire
  <2> QED
    BY <1>2, <2>1, <2>2, Zenon DEF Acquire
<1>3. ASSUME NEW i \in Instance, Resolve(i) PROVE TypeOK'
  BY <1>3 DEF Resolve
<1>4. ASSUME NEW i \in Instance, StartWs(i) PROVE TypeOK'
  BY <1>4 DEF StartWs
<1>5. ASSUME NEW i \in Instance, LoseLease(i) PROVE TypeOK'
  BY <1>5 DEF LoseLease
<1>6. ASSUME NEW i \in Instance, RefreshRequested(i) PROVE TypeOK'
  BY <1>6 DEF RefreshRequested
<1>7. ASSUME NEW i \in Instance, ReadDiff(i) PROVE TypeOK'
  BY <1>7 DEF ReadDiff
<1>8. ASSUME NEW i \in Instance, ApplyDiff(i) PROVE TypeOK'
  BY <1>8 DEF ApplyDiff
<1>9. ASSUME NEW i \in Instance, Leave(i) PROVE TypeOK'
  BY <1>9 DEF Leave
<1>10. ASSUME NEW i \in Instance, StopWs(i) PROVE TypeOK'
  BY <1>10 DEF StopWs
<1>11. ASSUME NEW i \in Instance, Release(i) PROVE TypeOK'
  BY <1>11 DEF Release, After
<1>12. ASSUME NEW i \in Instance, RenewFails(i) PROVE TypeOK'
  BY <1>12 DEF RenewFails
<1>13. ASSUME NEW i \in Instance, Cancel(i) PROVE TypeOK'
  BY <1>13 DEF Cancel
<1>14. ASSUME NEW i \in Instance, Shutdown(i) PROVE TypeOK'
  BY <1>14 DEF Shutdown
<1>15. ASSUME NEW i \in Instance, Crash(i) PROVE TypeOK'
  BY <1>15 DEF Crash
<1>16. ASSUME NEW i \in Instance, Lapse(i) PROVE TypeOK'
  BY <1>16 DEF Lapse
<1>17. ASSUME NEW i \in Instance, OrphanExpires(i) PROVE TypeOK'
  BY <1>17 DEF OrphanExpires
<1>18. CASE ChangePool
  BY <1>18 DEF ChangePool
<1>19. CASE RequestRefresh
  BY <1>19 DEF RequestRefresh
<1>20. CASE UNCHANGED vars
  BY <1>20 DEF vars
<1> QED
  BY <1>1, <1>2, <1>3, <1>4, <1>5, <1>6, <1>7, <1>8, <1>9, <1>10, <1>11, <1>12,
     <1>13, <1>14, <1>15, <1>16, <1>17, <1>18, <1>19, <1>20, StepCases

-----------------------------------------------------------------------------
(* Every step keeps the lease of the replicas in their terms: the key is   *)
(* won only when nobody has it, and given up only at the end of a term.    *)
LEMMA StepTermIsLeased == IInv /\ [Next]_vars => TermIsLeased'
<1> SUFFICES ASSUME IInv, [Next]_vars,
                    NEW k \in Instance, InTerm(k)'
             PROVE  lock' = k \/ lapsed'[k]
  BY DEF TermIsLeased
<1>a. pc'[k] \in TermPlace
  BY TermPlacesPrime
<1>b. pc[k] \in TermPlace => lock = k \/ lapsed[k]
  BY TermPlaces DEF IInv, TermIsLeased
<1>c. /\ pc \in [Instance -> Place] /\ lapsed \in [Instance -> BOOLEAN]
      /\ NoInstance \notin Instance
  BY InstanceAssumption DEF IInv, TypeOK
<1> USE <1>a, <1>b, <1>c DEF MoveTo, TermPlace, Place
<1>1. ASSUME NEW i \in Instance, Boot(i) PROVE lock' = k \/ lapsed'[k]
  BY <1>1 DEF Boot
<1>2. ASSUME NEW i \in Instance, Acquire(i) PROVE lock' = k \/ lapsed'[k]
  BY <1>2 DEF Acquire
<1>3. ASSUME NEW i \in Instance, Resolve(i) PROVE lock' = k \/ lapsed'[k]
  BY <1>3 DEF Resolve
<1>4. ASSUME NEW i \in Instance, StartWs(i) PROVE lock' = k \/ lapsed'[k]
  BY <1>4 DEF StartWs
<1>5. ASSUME NEW i \in Instance, LoseLease(i) PROVE lock' = k \/ lapsed'[k]
  BY <1>5 DEF LoseLease
<1>6. ASSUME NEW i \in Instance, RefreshRequested(i) PROVE lock' = k \/ lapsed'[k]
  BY <1>6 DEF RefreshRequested
<1>7. ASSUME NEW i \in Instance, ReadDiff(i) PROVE lock' = k \/ lapsed'[k]
  BY <1>7 DEF ReadDiff
<1>8. ASSUME NEW i \in Instance, ApplyDiff(i) PROVE lock' = k \/ lapsed'[k]
  BY <1>8 DEF ApplyDiff
<1>9. ASSUME NEW i \in Instance, Leave(i) PROVE lock' = k \/ lapsed'[k]
  BY <1>9 DEF Leave
<1>10. ASSUME NEW i \in Instance, StopWs(i) PROVE lock' = k \/ lapsed'[k]
  BY <1>10 DEF StopWs
<1>11. ASSUME NEW i \in Instance, Release(i) PROVE lock' = k \/ lapsed'[k]
  BY <1>11 DEF Release, After
<1>12. ASSUME NEW i \in Instance, RenewFails(i) PROVE lock' = k \/ lapsed'[k]
  BY <1>12 DEF RenewFails
<1>13. ASSUME NEW i \in Instance, Cancel(i) PROVE lock' = k \/ lapsed'[k]
  BY <1>13 DEF Cancel
<1>14. ASSUME NEW i \in Instance, Shutdown(i) PROVE lock' = k \/ lapsed'[k]
  BY <1>14 DEF Shutdown
<1>15. ASSUME NEW i \in Instance, Crash(i) PROVE lock' = k \/ lapsed'[k]
  BY <1>15 DEF Crash
<1>16. ASSUME NEW i \in Instance, Lapse(i) PROVE lock' = k \/ lapsed'[k]
  BY <1>16 DEF Lapse
<1>17. ASSUME NEW i \in Instance, OrphanExpires(i) PROVE lock' = k \/ lapsed'[k]
  BY <1>17 DEF OrphanExpires, InTerm, WsUp
<1>18. CASE ChangePool
  BY <1>18 DEF ChangePool, term
<1>19. CASE RequestRefresh
  BY <1>19 DEF RequestRefresh, term
<1>20. CASE UNCHANGED vars
  BY <1>20 DEF vars
<1> QED
  BY <1>1, <1>2, <1>3, <1>4, <1>5, <1>6, <1>7, <1>8, <1>9, <1>10, <1>11, <1>12,
     <1>13, <1>14, <1>15, <1>16, <1>17, <1>18, <1>19, <1>20, StepCases

-----------------------------------------------------------------------------
(* The lapsed terms can be counted, and so can the open WebSockets. *)
LEMMA LapsedCount ==
    ASSUME NEW T, T \subseteq LapsedTerms
    PROVE  /\ IsFiniteSet(LapsedTerms) /\ IsFiniteSet(T)
           /\ Cardinality(LapsedTerms) \in Nat /\ Cardinality(T) \in Nat
           /\ Cardinality(T) <= Cardinality(LapsedTerms)
<1>1. IsFiniteSet(LapsedTerms)
  BY InstanceAssumption, FS_Subset DEF LapsedTerms
<1>2. IsFiniteSet(T) /\ Cardinality(T) <= Cardinality(LapsedTerms)
  BY <1>1, FS_Subset
<1> QED
  BY <1>1, <1>2, FS_CardinalityType

(* A term is only lost to a lapse by Lapse, and a new one begins leased. *)
LEMMA LapsedTermsStep ==
    ASSUME TypeOK, [Next]_vars
    PROVE  \/ LapsedTerms' \subseteq LapsedTerms /\ lapses' = lapses
           \/ \E i \in Instance :
                 LapsedTerms' \subseteq LapsedTerms \cup {i} /\ lapses' = lapses + 1
<1> DEFINE Fewer == LapsedTerms' \subseteq LapsedTerms /\ lapses' = lapses
<1>a. /\ pc \in [Instance -> Place] /\ lapsed \in [Instance -> BOOLEAN]
  BY DEF TypeOK
<1>b. /\ LapsedTerms = {i \in Instance : pc[i] \in TermPlace /\ lapsed[i]}
      /\ LapsedTerms' = {i \in Instance : pc'[i] \in TermPlace /\ lapsed'[i]}
  BY TermPlaces, TermPlacesPrime DEF LapsedTerms
<1> USE <1>a, <1>b DEF MoveTo, TermPlace, Place
<1>1. ASSUME NEW i \in Instance, Boot(i) PROVE Fewer
  BY <1>1 DEF Boot
<1>2. ASSUME NEW i \in Instance, Acquire(i) PROVE Fewer
  BY <1>2 DEF Acquire
<1>3. ASSUME NEW i \in Instance, Resolve(i) PROVE Fewer
  BY <1>3 DEF Resolve
<1>4. ASSUME NEW i \in Instance, StartWs(i) PROVE Fewer
  BY <1>4 DEF StartWs
<1>5. ASSUME NEW i \in Instance, LoseLease(i) PROVE Fewer
  BY <1>5 DEF LoseLease
<1>6. ASSUME NEW i \in Instance, RefreshRequested(i) PROVE Fewer
  BY <1>6 DEF RefreshRequested
<1>7. ASSUME NEW i \in Instance, ReadDiff(i) PROVE Fewer
  BY <1>7 DEF ReadDiff
<1>8. ASSUME NEW i \in Instance, ApplyDiff(i) PROVE Fewer
  BY <1>8 DEF ApplyDiff
<1>9. ASSUME NEW i \in Instance, Leave(i) PROVE Fewer
  BY <1>9 DEF Leave
<1>10. ASSUME NEW i \in Instance, StopWs(i) PROVE Fewer
  BY <1>10 DEF StopWs
<1>11. ASSUME NEW i \in Instance, Release(i) PROVE Fewer
  BY <1>11 DEF Release, After
<1>12. ASSUME NEW i \in Instance, RenewFails(i) PROVE Fewer
  BY <1>12 DEF RenewFails
<1>13. ASSUME NEW i \in Instance, Cancel(i) PROVE Fewer
  BY <1>13 DEF Cancel
<1>14. ASSUME NEW i \in Instance, Shutdown(i) PROVE Fewer
  BY <1>14 DEF Shutdown
<1>15. ASSUME NEW i \in Instance, Crash(i) PROVE Fewer
  BY <1>15 DEF Crash
<1>16. ASSUME NEW i \in Instance, Lapse(i)
       PROVE  LapsedTerms' \subseteq LapsedTerms \cup {i} /\ lapses' = lapses + 1
  BY <1>16 DEF Lapse
<1>17. ASSUME NEW i \in Instance, OrphanExpires(i) PROVE Fewer
  BY <1>17 DEF OrphanExpires
<1>18. CASE ChangePool
  BY <1>18 DEF ChangePool, term
<1>19. CASE RequestRefresh
  BY <1>19 DEF RequestRefresh, term
<1>20. CASE UNCHANGED vars
  BY <1>20 DEF vars
<1> QED
  BY Zenon, <1>1, <1>2, <1>3, <1>4, <1>5, <1>6, <1>7, <1>8, <1>9, <1>10, <1>11, <1>12,
     <1>13, <1>14, <1>15, <1>16, <1>17, <1>18, <1>19, <1>20, StepCases

LEMMA StepLapses == IInv /\ [Next]_vars => LapsesAreCounted'
<1> SUFFICES ASSUME IInv, [Next]_vars PROVE Cardinality(LapsedTerms') <= lapses'
  BY DEF LapsesAreCounted
<1>1. TypeOK /\ Cardinality(LapsedTerms) <= lapses /\ lapses \in Nat
  BY DEF IInv, LapsesAreCounted, TypeOK
<1>2. CASE LapsedTerms' \subseteq LapsedTerms /\ lapses' = lapses
  BY <1>1, <1>2, LapsedCount
<1>3. ASSUME NEW i \in Instance,
             LapsedTerms' \subseteq LapsedTerms \cup {i}, lapses' = lapses + 1
      PROVE  Cardinality(LapsedTerms') <= lapses'
  <2>1. LapsedTerms' \ {i} \subseteq LapsedTerms
    BY <1>3
  <2>2. /\ IsFiniteSet(LapsedTerms' \ {i}) /\ Cardinality(LapsedTerms' \ {i}) \in Nat
        /\ Cardinality(LapsedTerms' \ {i}) <= lapses
    BY <1>1, <2>1, LapsedCount
  <2>3. /\ IsFiniteSet((LapsedTerms' \ {i}) \cup {i})
        /\ Cardinality((LapsedTerms' \ {i}) \cup {i}) = Cardinality(LapsedTerms' \ {i}) + 1
    BY <2>2, FS_AddElement
  <2>4. /\ Cardinality(LapsedTerms') <= Cardinality((LapsedTerms' \ {i}) \cup {i})
        /\ IsFiniteSet(LapsedTerms')
    BY <2>3, FS_Subset
  <2>5. Cardinality(LapsedTerms') \in Nat
    BY <2>4, FS_CardinalityType
  <2> QED
    BY <1>1, <1>3, <2>2, <2>3, <2>4, <2>5
<1> QED
  BY <1>1, <1>2, <1>3, LapsedTermsStep

-----------------------------------------------------------------------------
(* Within its term a replica has the key unless its lease ran out. *)
THEOREM Invariance == Spec => []IInv
<1>1. IInv /\ [Next]_vars => IInv'
  BY StepTypeOK, StepTermIsLeased, StepLapses DEF IInv
<1> QED
  BY InitIInv, <1>1, PTL DEF Spec

(* Every variable keeps its type. *)
THEOREM TypeCorrect == Spec => []TypeOK
<1>1. IInv => TypeOK
  BY DEF IInv
<1> QED
  BY Invariance, <1>1, PTL

(* From the won key to the end of its release a replica has the key, or a  *)
(* lease has run out under it (_serve_as_leader acquires first and         *)
(* releases last).                                                         *)
THEOREM TermsAreLeased == Spec => []TermIsLeased
<1>1. IInv => TermIsLeased
  BY DEF IInv
<1> QED
  BY Invariance, <1>1, PTL

(* Two replicas serve at the same time only after a lease has run out      *)
(* under one of them, and as many more than one as leases have run out,    *)
(* whatever crashes, fails, retries or is shut down.                       *)
THEOREM AtMostOneLeader == Spec => []OneLeader
<1>1. ASSUME IInv PROVE OneLeader
  <2> DEFINE Up == {i \in Instance : WsUp(i)}
  <2>1. \A i, j \in Instance : WsUp(i) /\ WsUp(j) /\ i # j => lapsed[i] \/ lapsed[j]
    BY <1>1 DEF IInv, TermIsLeased, InTerm
  <2>2. Up \subseteq LapsedTerms \cup {lock}
    BY <1>1 DEF IInv, TermIsLeased, LapsedTerms, InTerm
  <2>3. Up \ {lock} \subseteq LapsedTerms /\ lapses \in Nat
        /\ Cardinality(LapsedTerms) <= lapses
    BY <1>1, <2>2 DEF IInv, TypeOK, LapsesAreCounted
  <2>4. /\ IsFiniteSet(Up \ {lock}) /\ Cardinality(Up \ {lock}) \in Nat
        /\ Cardinality(Up \ {lock}) <= lapses
    BY <2>3, LapsedCount
  <2>5. /\ IsFiniteSet((Up \ {lock}) \cup {lock})
        /\ Cardinality((Up \ {lock}) \cup {lock}) = Cardinality(Up \ {lock}) + 1
    BY <2>4, FS_AddElement
  <2>6. /\ IsFiniteSet(Up)
        /\ Cardinality(Up) <= Cardinality((Up \ {lock}) \cup {lock})
    BY <2>5, FS_Subset
  <2>7. Cardinality(Up) <= 1 + lapses
    BY <2>3, <2>4, <2>5, <2>6, FS_CardinalityType
  <2> QED
    BY <2>1, <2>7 DEF OneLeader
<1> QED
  BY Invariance, <1>1, PTL

-----------------------------------------------------------------------------
(* The election keeps the promise of LeaseLock. *)

Terms == [i \in Instance |-> TermOf(i)]
Ups == {i \in Instance : WsUp(i)}

(* What one replica does to itself, seen through the mapping. *)
LEMMA OneReplica ==
    ASSUME NEW i \in Instance,
           \A k \in Instance \ {i} : pc'[k] = pc[k] /\ lapsed'[k] = lapsed[k]
    PROVE  /\ Terms' = [Terms EXCEPT ![i] = TermOf(i)']
           /\ Ups' = IF WsUp(i)' THEN Ups \cup {i} ELSE Ups \ {i}
<1>1. \A k \in Instance \ {i} : TermOf(k)' = TermOf(k) /\ (WsUp(k)' <=> WsUp(k))
  BY DEF TermOf, InTerm, WsUp
<1> QED
  BY <1>1 DEF Terms, Ups

(* What does not move a replica in or out of its term, or its WebSocket,   *)
(* is not seen.                                                            *)
LEMMA NotSeen ==
    ASSUME NEW i \in Instance,
           \A k \in Instance \ {i} : pc'[k] = pc[k],
           InTerm(i)' <=> InTerm(i), WsUp(i)' <=> WsUp(i),
           UNCHANGED <<lock, lapsed, lapses>>
    PROVE  UNCHANGED <<lock, Terms, Ups, lapses>>
<1>1. /\ Terms' = [Terms EXCEPT ![i] = TermOf(i)']
      /\ Ups' = IF WsUp(i)' THEN Ups \cup {i} ELSE Ups \ {i}
  BY OneReplica
<1>2. TermOf(i)' = TermOf(i)
  BY DEF TermOf
<1> QED
  BY <1>1, <1>2 DEF Terms, Ups

LEMMA Mapped ==
    UNCHANGED <<lock, Terms, Ups, lapses>> => UNCHANGED Lease!evars
  BY DEF Terms, Ups, Lease!evars

(* The steps within a term, and outside of all terms. *)
LEMMA QuietSteps ==
    ASSUME TypeOK, NEW i \in Instance,
           \/ Boot(i) \/ Resolve(i) \/ LoseLease(i) \/ RenewFails(i)
           \/ RefreshRequested(i) \/ ReadDiff(i) \/ Leave(i) \/ Shutdown(i)
           \/ ApplyDiff(i)
    PROVE  UNCHANGED <<lock, Terms, Ups, lapses>>
<1>1. /\ UNCHANGED <<lock, lapsed, lapses>>
      /\ pc' = pc \/ \E place : pc' = [pc EXCEPT ![i] = place]
  BY DEF Boot, Resolve, LoseLease, RenewFails, RefreshRequested, ReadDiff, Leave,
     Shutdown, ApplyDiff, MoveTo
<1>2. \A k \in Instance \ {i} : pc'[k] = pc[k]
  BY <1>1 DEF TypeOK
<1>3. /\ WsUp(i)' <=> WsUp(i)
      /\ InTerm(i)' <=> InTerm(i)
  BY DEF Boot, Resolve, LoseLease, RenewFails, RefreshRequested, ReadDiff, Leave,
     Shutdown, ApplyDiff, MoveTo, InTerm, WsUp, TypeOK
<1> QED
  BY <1>1, <1>2, <1>3, NotSeen

LEMMA WinStep ==
    ASSUME TypeOK, NEW i \in Instance, Acquire(i) PROVE Lease!Win(i)
<1>1. /\ lock = NoInstance /\ lock' = i /\ UNCHANGED lapses
      /\ pc[i] = "candidate" /\ TermOf(i) = "none" /\ ~WsUp(i)
      /\ Terms[i] = "none"
  BY DEF Acquire, TermOf, InTerm, WsUp, Terms
<1>2. CASE MoveTo(i, "resolving") /\ lapsed' = [lapsed EXCEPT ![i] = FALSE]
  <2>1. /\ \A k \in Instance \ {i} : pc'[k] = pc[k] /\ lapsed'[k] = lapsed[k]
        /\ pc'[i] = "resolving" /\ ~lapsed'[i]
    BY <1>2 DEF MoveTo, TypeOK
  <2>2. TermOf(i)' = "leased" /\ ~WsUp(i)'
    BY <2>1 DEF TermOf, InTerm, WsUp
  <2>3. Terms' = [Terms EXCEPT ![i] = "leased"] /\ Ups' = Ups
    BY <1>1, <2>1, <2>2, OneReplica DEF Ups
  <2> QED
    BY <1>1, <2>3 DEF Lease!Win, Lease!InTerm, Lease!Moves, Terms, Ups
<1>3. CASE UNCHANGED <<pc, lapsed>>
  <2>1. Terms' = Terms /\ Ups' = Ups
    BY <1>3 DEF Terms, Ups, TermOf, InTerm, WsUp
  <2> QED
    BY <1>1, <2>1 DEF Lease!Win, Lease!InTerm, Terms, Ups
<1> QED
  BY <1>2, <1>3 DEF Acquire

LEMMA OpenStep ==
    ASSUME TypeOK, NEW i \in Instance, StartWs(i)
    PROVE  Lease!Open(i) \/ UNCHANGED Lease!evars
<1>1. /\ UNCHANGED <<lock, lapsed, lapses>>
      /\ pc[i] = "starting" /\ InTerm(i) /\ ~WsUp(i)
      /\ \A k \in Instance \ {i} : pc'[k] = pc[k]
  BY DEF StartWs, MoveTo, TypeOK, InTerm, WsUp
<1>2. CASE MoveTo(i, "serving")
  <2>1. pc'[i] = "serving"
    BY <1>2 DEF MoveTo, TypeOK
  <2>2. WsUp(i)' /\ TermOf(i)' = TermOf(i) /\ Terms[i] # "none"
    BY <1>1, <2>1 DEF TermOf, InTerm, WsUp, Terms
  <2>3. Terms' = Terms /\ Ups' = Ups \cup {i}
    BY <1>1, <2>2, OneReplica DEF Terms
  <2> QED
    BY <1>1, <2>2, <2>3 DEF Lease!Open, Lease!InTerm, Terms, Ups
<1>3. CASE MoveTo(i, "releasing")
  <2>1. InTerm(i)' /\ ~WsUp(i)'
    BY <1>3 DEF MoveTo, TypeOK, InTerm, WsUp
  <2> QED
    BY <1>1, <2>1, NotSeen, Mapped
<1> QED
  BY <1>2, <1>3 DEF StartWs

LEMMA ShutStep ==
    ASSUME TypeOK, NEW i \in Instance, StopWs(i) PROVE Lease!Shut(i)
<1>1. /\ UNCHANGED <<lock, lapsed, lapses>>
      /\ pc[i] = "leaving" /\ pc'[i] = "releasing"
      /\ \A k \in Instance \ {i} : pc'[k] = pc[k]
  BY DEF StopWs, MoveTo, TypeOK
<1>2. TermOf(i)' = TermOf(i) /\ ~WsUp(i)'
  BY <1>1 DEF TermOf, InTerm, WsUp
<1>3. Terms' = Terms /\ Ups' = Ups \ {i}
  BY <1>1, <1>2, OneReplica DEF Terms
<1> QED
  BY <1>1, <1>3 DEF Lease!Shut, Terms, Ups

(* A replica ends its term. *)
LEMMA TermEnds ==
    ASSUME TypeOK, NEW i \in Instance, NEW place \in {"stopped", "candidate", "dead"},
           MoveTo(i, place), UNCHANGED lapsed
    PROVE  Terms' = [Terms EXCEPT ![i] = "none"] /\ Ups' = Ups \ {i}
<1>1. pc'[i] = place /\ \A k \in Instance \ {i} : pc'[k] = pc[k]
  BY DEF MoveTo, TypeOK
<1>2. TermOf(i)' = "none" /\ ~WsUp(i)'
  BY <1>1 DEF TermOf, InTerm, WsUp
<1> QED
  BY <1>1, <1>2, OneReplica

LEMMA ResignStep ==
    ASSUME TypeOK, NEW i \in Instance, Release(i) PROVE Lease!Resign(i)
<1>1. /\ pc[i] = "releasing" /\ i \notin Ups /\ Terms[i] # "none"
      /\ lock' \in {lock, IF lock = i THEN NoInstance ELSE lock}
      /\ MoveTo(i, After(i)) /\ UNCHANGED <<lapsed, lapses>>
      /\ After(i) \in {"stopped", "candidate"}
  BY DEF Release, After, Ups, WsUp, Terms, TermOf, InTerm
<1>2. Terms' = [Terms EXCEPT ![i] = "none"] /\ Ups' = Ups
  BY <1>1, TermEnds
<1> QED
  BY <1>1, <1>2 DEF Lease!Resign, Lease!InTerm, Lease!Moves, Terms, Ups

LEMMA DieStep ==
    ASSUME TypeOK, NEW i \in Instance, Cancel(i) \/ Crash(i) PROVE Lease!Die(i)
<1>1. Terms' = [Terms EXCEPT ![i] = "none"] /\ Ups' = Ups \ {i}
  BY TermEnds DEF Cancel, Crash
<1> QED
  BY <1>1 DEF Lease!Die, Lease!Moves, Terms, Ups, Cancel, Crash

LEMMA ExpireStep ==
    ASSUME TypeOK, LateIsKeyless, NEW i \in Instance, Lapse(i) \/ OrphanExpires(i)
    PROVE  Lease!ExpireLate(i) \/ Lease!ExpireOrphan(i)
<1>1. CASE Lapse(i)
  <2>1. /\ \A k \in Instance \ {i} : pc'[k] = pc[k] /\ lapsed'[k] = lapsed[k]
        /\ pc' = pc /\ lapsed'[i] /\ InTerm(i) /\ ~lapsed[i]
    BY <1>1 DEF Lapse, TypeOK, LateIsKeyless
  <2>2. /\ TermOf(i)' = "late" /\ Terms[i] = "leased"
        /\ WsUp(i)' <=> WsUp(i)
    BY <2>1 DEF TermOf, InTerm, WsUp, Terms
  <2>3. Terms' = [Terms EXCEPT ![i] = "late"] /\ Ups' = Ups
    BY <2>1, <2>2, OneReplica DEF Ups
  <2> QED
    BY <1>1, <2>2, <2>3 DEF Lapse, Lease!ExpireLate, Lease!Moves, Terms, Ups
<1>2. CASE OrphanExpires(i)
  <2>1. Terms' = Terms /\ Ups' = Ups /\ Terms[i] = "none"
    BY <1>2 DEF OrphanExpires, Terms, Ups, TermOf, InTerm, WsUp
  <2> QED
    BY <1>2, <2>1 DEF OrphanExpires, Lease!ExpireOrphan, Lease!InTerm, Terms, Ups
<1> QED
  BY <1>1, <1>2

LEMMA StepLease ==
    ASSUME TypeOK, LateIsKeyless, [Next]_vars
    PROVE  [Lease!ENext]_Lease!evars
<1>1. ASSUME NEW i \in Instance, Acquire(i) \/ StartWs(i) \/ StopWs(i) \/ Release(i)
      PROVE  [Lease!ENext]_Lease!evars
  BY <1>1, WinStep, OpenStep, ShutStep, ResignStep DEF Lease!ENext
<1>2. ASSUME NEW i \in Instance, Cancel(i) \/ Crash(i) \/ Lapse(i) \/ OrphanExpires(i)
      PROVE  [Lease!ENext]_Lease!evars
  BY <1>2, DieStep, ExpireStep DEF Lease!ENext
<1>3. CASE ChangePool \/ RequestRefresh \/ UNCHANGED vars
  <2>1. UNCHANGED <<lock, pc, lapsed, lapses>>
    BY <1>3 DEF ChangePool, RequestRefresh, vars
  <2> QED
    BY <2>1, Mapped DEF Terms, Ups, TermOf, InTerm, WsUp
<1> QED
  BY <1>1, <1>2, <1>3, QuietSteps, Mapped, StepCases, Zenon

(* The abstract steps suffice to see that a late term has no key. *)
LEMMA LateStays ==
    ASSUME LateIsKeyless, [Lease!ENext]_Lease!evars PROVE LateIsKeyless'
<1>1. /\ LateIsKeyless <=> \A k \in Instance : Terms[k] = "late" => lock # k
      /\ LateIsKeyless' <=> \A k \in Instance : Terms'[k] = "late" => lock' # k
      /\ DOMAIN Terms = Instance
  BY DEF LateIsKeyless, Terms, TermOf, InTerm, WsUp
<1>2. ASSUME NEW i \in Instance,
             \/ Lease!Win(i) \/ Lease!Open(i) \/ Lease!Shut(i) \/ Lease!Resign(i)
             \/ Lease!Die(i) \/ Lease!ExpireLate(i) \/ Lease!ExpireOrphan(i)
      PROVE  \A k \in Instance : Terms'[k] = "late" => lock' # k
  BY <1>1, <1>2, InstanceAssumption
     DEF Lease!Win, Lease!Open, Lease!Shut, Lease!Resign, Lease!Die, Lease!ExpireLate,
         Lease!ExpireOrphan, Lease!Moves, Lease!InTerm, Terms
<1>3. CASE UNCHANGED Lease!evars
  BY <1>1, <1>3 DEF Lease!evars, Terms
<1> QED
  BY <1>1, <1>2, <1>3 DEF Lease!ENext

(* Supervisors, renewals, refreshes, failures and shutdowns do to the key, *)
(* to the terms and to the WebSockets only what LeaseLock allows, for any  *)
(* replicas: nobody takes the key of a live owner but the expiry of its    *)
(* lease, and a WebSocket is open only within a term.                      *)
THEOREM ElectionImplementsLease == Spec => ImplementsLease
<1>1. Init => Lease!EInit /\ LateIsKeyless
  BY DEF Init, Lease!EInit, LateIsKeyless, TermOf, InTerm, WsUp
<1>2. TypeOK /\ LateIsKeyless /\ [Next]_vars => LateIsKeyless'
  BY StepLease, LateStays
<1>3. TypeOK /\ LateIsKeyless /\ [Next]_vars => [Lease!ENext]_Lease!evars
  BY StepLease
<1> QED
  BY TypeCorrect, <1>1, <1>2, <1>3, PTL DEF Spec, ImplementsLease, Lease!ESpec
=============================================================================
