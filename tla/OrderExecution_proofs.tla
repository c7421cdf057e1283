----------------------- MODULE OrderExecution_proofs -----------------------
(***************************************************************************)
(* Proofs about orders and trades, for any cycles, profiles, symbols,       *)
(* limits and number of faults.                                             *)
(***************************************************************************)
EXTENDS OrderExecution, FiniteSetTheorems, TLAPS

(* A step is one of the actions or a stutter. *)
LEMMA StepCases ==
    ASSUME [Next]_vars
    PROVE  \/ \E c \in Cycles :
                \/ Begin(c) \/ End(c) \/ Skip(c) \/ WriteShadow(c) \/ Approve(c)
                \/ Relock(c) \/ EngineRefuses(c) \/ CountPositions(c)
                \/ AlreadyTraded(c) \/ Place(c) \/ OrderAccepted(c)
                \/ OrderRefused(c) \/ OrderUnanswered(c) \/ Record(c)
                \/ RecordFails(c) \/ Abort(c) \/ Killed(c) \/ CheckSymbol(c)
                \/ \E p \in Profiles : SkipWithShadow(c, p) \/ LockProfile(c, p)
                                       \/ ProfileInactive(c, p)
           \/ \E p \in Profiles : SetStatus(p)
           \/ \E s \in Symbols : Close(s) \/ CooldownEnds(s)
           \/ UNCHANGED vars
  BY Zenon DEF Next, Walk, Trade

-----------------------------------------------------------------------------
(* The inductive invariant. *)

Recording == {c \in Cycles : pc[c] = "record"}

(* A cycle that is past the choice of its candidate has one. *)
BusyInv ==
    \A c \in Cycles : pc[c] \notin {"idle", "scan", "checked"} =>
        /\ symbol[c] \in Symbols /\ profile[c] \in Profiles
        /\ c \in BuyCycles => buys[c] < MaxBuys

(* Who holds the advisory lock has found no trade of its symbol. *)
AdvisoryInv ==
    single => \A s \in Symbols :
        /\ bought[s] <= 1
        /\ \A c \in Cycles : HasAdvisory(c, s) =>
              /\ bought[s] = 0
              /\ \A d \in Cycles : HasAdvisory(d, s) => d = c

(* An unbooked order is being recorded or has cost a fault. *)
BooksInv ==
    live => /\ Cardinality(Recording) <= unbooked
            /\ unbooked <= faults + Cardinality(Recording)

IInv == TypeOK /\ BusyInv /\ NoLateOrder /\ AdvisoryInv /\ BooksInv

(* The number of cycles that are recording. *)
LEMMA RecordingFinite ==
    /\ IsFiniteSet(Recording) /\ Cardinality(Recording) \in Nat
    /\ \A c \in Recording : Cardinality(Recording) >= 1
<1>1. Recording \subseteq Cycles
  BY DEF Recording
<1>2. IsFiniteSet(Recording) /\ Cardinality(Recording) \in Nat
  BY <1>1, CyclesAssumption, FS_Subset, FS_CardinalityType
<1>3. ASSUME NEW c \in Recording PROVE Cardinality(Recording) >= 1
  BY <1>2, FS_EmptySet
<1> QED
  BY <1>2, <1>3

(* The initial states satisfy it. *)
LEMMA InitInv == Init => IInv
<1> SUFFICES ASSUME Init PROVE IInv
  OBVIOUS
<1>1. TypeOK
  BY LimitsAssumption DEF Init, TypeOK, Steps, Symbols
<1>2. BusyInv /\ NoLateOrder
  BY DEF Init, BusyInv, NoLateOrder
<1>3. AdvisoryInv
  BY DEF Init, AdvisoryInv, HasAdvisory
<1>4. Recording = {}
  BY DEF Init, Recording
<1>5. BooksInv
  BY <1>4, FS_EmptySet DEF Init, BooksInv
<1> QED
  BY <1>1, <1>2, <1>3, <1>5 DEF IInv

-----------------------------------------------------------------------------
(* Types. *)

RowTypes ==
    /\ live \in BOOLEAN /\ single \in BOOLEAN
    /\ active \in [Profiles -> BOOLEAN]
    /\ held \in [Cycles -> SUBSET Profiles]
    /\ bought \in [Symbols -> Nat] /\ signalled \in [Symbols -> Nat]
    /\ cooldown \subseteq Symbols
    /\ unbooked \in Nat
    /\ faults \in 0..MaxFaults

CycleTypes ==
    /\ pc \in [Cycles -> Steps]
    /\ symbol \in [Cycles -> 1..(Candidates + 1)]
    /\ profile \in [Cycles -> Profiles \union {NoProfile}]
    /\ buys \in [Cycles -> 0..MaxBuys]
    /\ attempts \in [Cycles -> 0..(MaxAttempts - 1)]

(* Every step keeps the types of the rows, the books and the exchange. *)
LEMMA StepRowTypes == IInv /\ [Next]_vars => RowTypes'
<1> SUFFICES ASSUME IInv, [Next]_vars PROVE RowTypes'
  OBVIOUS
<1>a. RowTypes /\ MaxFaults \in Nat
  BY LimitsAssumption DEF IInv, TypeOK, RowTypes
<1>b. ASSUME NEW c \in Cycles, pc[c] = "record", live PROVE unbooked >= 1
  BY <1>b, RecordingFinite DEF IInv, BooksInv, Recording, TypeOK
<1>c. ASSUME NEW c \in Cycles, pc[c] \notin {"idle", "scan", "checked"}
      PROVE  symbol[c] \in Symbols /\ profile[c] \in Profiles
  BY <1>c DEF IInv, BusyInv
<1>1. ASSUME NEW c \in Cycles, Begin(c) PROVE RowTypes'
  BY <1>1, <1>a, <1>c DEF Begin, Goto, userVars, tradeVars, cycleVars, RowTypes
<1>2. ASSUME NEW c \in Cycles, End(c) PROVE RowTypes'
  BY <1>2, <1>a, <1>c DEF End, Goto, EndTransaction, Leave, HasCandidate,
       userVars, tradeVars, cycleVars, RowTypes
<1>3. ASSUME NEW c \in Cycles, Skip(c) PROVE RowTypes'
  BY <1>3, <1>a, <1>c DEF Skip, EndTransaction, HasCandidate, userVars,
       tradeVars, cycleVars, RowTypes
<1>4. ASSUME NEW c \in Cycles, WriteShadow(c) PROVE RowTypes'
  BY <1>4, <1>a, <1>c DEF WriteShadow, userVars, tradeVars, cycleVars, RowTypes
<1>5. ASSUME NEW c \in Cycles, Approve(c) PROVE RowTypes'
  BY <1>5, <1>a, <1>c DEF Approve, Goto, EndTransaction, userVars, tradeVars,
       cycleVars, RowTypes
<1>6. ASSUME NEW c \in Cycles, Relock(c) PROVE RowTypes'
  BY <1>6, <1>a, <1>c DEF Relock, Goto, EndTransaction, userVars, tradeVars,
       cycleVars, RowTypes
<1>7. ASSUME NEW c \in Cycles, EngineRefuses(c) PROVE RowTypes'
  BY <1>7, <1>a, <1>c DEF EngineRefuses, userVars, tradeVars, cycleVars,
       RowTypes
<1>8. ASSUME NEW c \in Cycles, CountPositions(c) PROVE RowTypes'
  BY <1>8, <1>a, <1>c DEF CountPositions, Goto, userVars, tradeVars, cycleVars,
       RowTypes
<1>9. ASSUME NEW c \in Cycles, AlreadyTraded(c) PROVE RowTypes'
  BY <1>9, <1>a, <1>c DEF AlreadyTraded, EndTransaction, userVars, tradeVars,
       cycleVars, RowTypes
<1>10. ASSUME NEW c \in Cycles, Place(c) PROVE RowTypes'
  BY <1>10, <1>a, <1>c DEF Place, Goto, userVars, tradeVars, cycleVars, RowTypes
<1>11. ASSUME NEW c \in Cycles, OrderAccepted(c) PROVE RowTypes'
  BY <1>11, <1>a, <1>c DEF OrderAccepted, Goto, userVars, tradeVars, cycleVars,
       RowTypes
<1>12. ASSUME NEW c \in Cycles, OrderRefused(c) PROVE RowTypes'
  BY <1>12, <1>a, <1>c DEF OrderRefused, EndTransaction, GiveUp, userVars,
       tradeVars, cycleVars, RowTypes
<1>13. ASSUME NEW c \in Cycles, OrderUnanswered(c) PROVE RowTypes'
  BY <1>13, <1>a, <1>c DEF OrderUnanswered, EndTransaction, Fault, GiveUp,
       userVars, tradeVars, cycleVars, RowTypes
<1>14. ASSUME NEW c \in Cycles, Record(c) PROVE RowTypes'
  <2>1. unbooked' \in Nat
    BY <1>14, <1>a, <1>b DEF Record, RowTypes
  <2>2. /\ bought' \in [Symbols -> Nat] /\ signalled' \in [Symbols -> Nat]
        /\ cooldown' \subseteq Symbols
    BY <1>14, <1>a, <1>c DEF Record, CountTrade, RowTypes
  <2>3. held' \in [Cycles -> SUBSET Profiles]
    BY <1>14, <1>a DEF Record, EndTransaction, RowTypes
  <2> QED
    BY <1>14, <1>a, <2>1, <2>2, <2>3 DEF Record, userVars, RowTypes
<1>15. ASSUME NEW c \in Cycles, RecordFails(c) PROVE RowTypes'
  BY <1>15, <1>a, <1>c DEF RecordFails, EndTransaction, Fault, userVars,
       tradeVars, cycleVars, RowTypes
<1>16. ASSUME NEW c \in Cycles, Abort(c) PROVE RowTypes'
  BY <1>16, <1>a, <1>c DEF Abort, Goto, EndTransaction, Leave, userVars,
       tradeVars, cycleVars, RowTypes
<1>17. ASSUME NEW c \in Cycles, Killed(c) PROVE RowTypes'
  BY <1>17, <1>a, <1>c DEF Killed, Goto, EndTransaction, Leave, Fault,
       userVars, tradeVars, cycleVars, RowTypes
<1>18. ASSUME NEW c \in Cycles, NEW p \in Profiles, SkipWithShadow(c, p) PROVE RowTypes'
  BY <1>18, <1>a, <1>c DEF SkipWithShadow, Goto, HasCandidate, userVars,
       tradeVars, cycleVars, RowTypes
<1>19. ASSUME NEW c \in Cycles, NEW p \in Profiles, LockProfile(c, p) PROVE RowTypes'
  BY <1>19, <1>a, <1>c DEF LockProfile, Goto, Checked, HasCandidate, userVars,
       tradeVars, cycleVars, RowTypes
<1>20. ASSUME NEW c \in Cycles, NEW p \in Profiles, ProfileInactive(c, p) PROVE RowTypes'
  BY <1>20, <1>a, <1>c DEF ProfileInactive, EndTransaction, Checked, HasCandidate,
       userVars, tradeVars, cycleVars, RowTypes
<1>21. ASSUME NEW p \in Profiles, SetStatus(p) PROVE RowTypes'
  BY <1>21, <1>a, <1>c DEF SetStatus, userVars, tradeVars, cycleVars, RowTypes
<1>22. ASSUME NEW s \in Symbols, Close(s) PROVE RowTypes'
  BY <1>22, <1>a, <1>c DEF Close, userVars, tradeVars, cycleVars, RowTypes
<1>23. ASSUME NEW s \in Symbols, CooldownEnds(s) PROVE RowTypes'
  BY <1>23, <1>a, <1>c DEF CooldownEnds, userVars, tradeVars, cycleVars,
       RowTypes
<1>24. CASE UNCHANGED vars
  BY <1>24, <1>a, <1>c DEF vars, Goto, EndTransaction, Leave, HasCandidate,
       Fault, GiveUp, userVars, tradeVars, cycleVars, RowTypes
<1>25. ASSUME NEW c \in Cycles, CheckSymbol(c) PROVE RowTypes'
  BY <1>25, <1>a, <1>c DEF CheckSymbol, Goto, userVars, tradeVars, cycleVars,
       RowTypes
<1> QED
  BY <1>1, <1>2, <1>3, <1>4, <1>5, <1>6, <1>7, <1>8, <1>9, <1>10, <1>11,
     <1>12, <1>13, <1>14, <1>15, <1>16, <1>17, <1>18, <1>19, <1>20,
     <1>21, <1>22, <1>23, <1>24, <1>25, StepCases

(* The loop goes on, or the cycle ends. *)
LEMMA MoveTypes ==
    ASSUME CycleTypes, BusyInv, NEW c \in Cycles
    PROVE  /\ NextCandidate(c) /\ symbol[c] \in Symbols /\ buys' = buys =>
                  CycleTypes' /\ BusyInv'
           /\ Leave(c) => CycleTypes' /\ BusyInv'
<1>a. /\ Candidates \in Nat \ {0} /\ MaxAttempts \in Nat \ {0} /\ MaxBuys \in Nat
  BY LimitsAssumption
<1>1. ASSUME NextCandidate(c), symbol[c] \in Symbols, buys' = buys
      PROVE  CycleTypes' /\ BusyInv'
  <2>1. CycleTypes'
    BY <1>1, <1>a DEF NextCandidate, Goto, CycleTypes, Steps, Symbols
  <2>2. \A d \in Cycles : pc'[d] \notin {"idle", "scan", "checked"} =>
            /\ pc[d] = pc'[d] /\ symbol'[d] = symbol[d]
            /\ profile'[d] = profile[d] /\ buys'[d] = buys[d]
    BY <1>1 DEF NextCandidate, Goto, CycleTypes
  <2> QED
    BY <2>1, <2>2 DEF BusyInv
<1>2. ASSUME Leave(c) PROVE CycleTypes' /\ BusyInv'
  <2>1. CycleTypes'
    BY <1>2, <1>a DEF Leave, Goto, CycleTypes, Steps
  <2>2. \A d \in Cycles : pc'[d] \notin {"idle", "scan", "checked"} =>
            /\ pc[d] = pc'[d] /\ symbol'[d] = symbol[d]
            /\ profile'[d] = profile[d] /\ buys'[d] = buys[d]
    BY <1>2 DEF Leave, Goto, CycleTypes
  <2> QED
    BY <2>1, <2>2 DEF BusyInv
<1> QED
  BY <1>1, <1>2

(* Every step keeps the types of the cycles. *)
LEMMA StepCycleTypes == IInv /\ [Next]_vars => CycleTypes' /\ BusyInv'
<1> SUFFICES ASSUME IInv, [Next]_vars PROVE CycleTypes' /\ BusyInv'
  OBVIOUS
<1> DEFINE Typed == CycleTypes' /\ BusyInv'
<1>a. CycleTypes /\ BusyInv
  BY DEF IInv, TypeOK, CycleTypes
<1>b. ASSUME NEW c \in Cycles, pc[c] \notin {"idle", "scan", "checked"}
      PROVE  symbol[c] \in Symbols
  BY <1>b DEF IInv, BusyInv
<1>c. ASSUME NEW c \in Cycles, HasCandidate(c)
      PROVE  symbol[c] \in Symbols /\ (c \in BuyCycles => buys[c] < MaxBuys)
  BY <1>c, <1>a, LimitsAssumption DEF HasCandidate, CycleTypes, Symbols
<1>d. UNCHANGED cycleVars => Typed
  BY <1>a DEF cycleVars, CycleTypes, BusyInv
<1>1. ASSUME NEW c \in Cycles, Begin(c) PROVE Typed
  <2>1. pc' = [pc EXCEPT ![c] = "scan"] /\ UNCHANGED <<symbol, profile, buys, attempts>>
    BY <1>1 DEF Begin, Goto
  <2>2. CycleTypes'
    BY <2>1, <1>a DEF CycleTypes, Steps
  <2>3. \A d \in Cycles : pc'[d] \notin {"idle", "scan", "checked"} =>
            pc[d] \notin {"idle", "scan", "checked"}
    BY <2>1, <1>a DEF CycleTypes
  <2> QED
    BY <2>1, <2>2, <2>3, <1>a DEF BusyInv
<1>2. ASSUME NEW c \in Cycles, End(c) PROVE Typed
  <2>1. Leave(c)
    BY <1>2 DEF End
  <2> QED
    BY <2>1, <1>a, MoveTypes
<1>3. ASSUME NEW c \in Cycles, Skip(c) PROVE Typed
  <2>1. NextCandidate(c) /\ buys' = buys /\ HasCandidate(c)
    BY <1>3 DEF Skip
  <2> QED
    BY <2>1, <1>a, <1>c, MoveTypes
<1>4. ASSUME NEW c \in Cycles, WriteShadow(c) PROVE Typed
  <2>1. NextCandidate(c) /\ buys' = buys /\ pc[c] \notin {"idle", "scan", "checked"}
    BY <1>4 DEF WriteShadow
  <2> QED
    BY <2>1, <1>a, <1>b, MoveTypes
<1>5. ASSUME NEW c \in Cycles, Approve(c) PROVE Typed
  <2>1. /\ pc' = [pc EXCEPT ![c] = "relock"] /\ pc[c] \notin {"idle", "scan", "checked"}
        /\ UNCHANGED <<symbol, profile, buys, attempts>>
    BY <1>5 DEF Approve, Goto
  <2>2. CycleTypes'
    BY <2>1, <1>a DEF CycleTypes, Steps
  <2>3. \A d \in Cycles : pc'[d] \notin {"idle", "scan", "checked"} =>
            pc[d] \notin {"idle", "scan", "checked"}
    BY <2>1, <1>a DEF CycleTypes
  <2> QED
    BY <2>1, <2>2, <2>3, <1>a DEF BusyInv
<1>6. ASSUME NEW c \in Cycles, Relock(c) PROVE Typed
  <2>1. CASE active[profile[c]]
    <3>1. /\ pc' = [pc EXCEPT ![c] = "execute"] /\ pc[c] \notin {"idle", "scan", "checked"}
          /\ UNCHANGED <<symbol, profile, buys, attempts>>
      BY <1>6, <2>1 DEF Relock, Goto
    <3>2. CycleTypes'
      BY <3>1, <1>a DEF CycleTypes, Steps
    <3>3. \A d \in Cycles : pc'[d] \notin {"idle", "scan", "checked"} =>
              pc[d] \notin {"idle", "scan", "checked"}
      BY <3>1, <1>a DEF CycleTypes
    <3> QED
      BY <3>1, <3>2, <3>3, <1>a DEF BusyInv
  <2>2. CASE ~active[profile[c]]
    <3>1. NextCandidate(c) /\ buys' = buys /\ pc[c] \notin {"idle", "scan", "checked"}
      BY <1>6, <2>2 DEF Relock
    <3> QED
      BY <3>1, <1>a, <1>b, MoveTypes
  <2> QED
    BY <2>1, <2>2
<1>7. ASSUME NEW c \in Cycles, EngineRefuses(c) PROVE Typed
  <2>1. NextCandidate(c) /\ buys' = buys /\ pc[c] \notin {"idle", "scan", "checked"}
    BY <1>7 DEF EngineRefuses
  <2> QED
    BY <2>1, <1>a, <1>b, MoveTypes
<1>8. ASSUME NEW c \in Cycles, CountPositions(c) PROVE Typed
  <2>1. /\ pc' = [pc EXCEPT ![c] = "counted"] /\ pc[c] \notin {"idle", "scan", "checked"}
        /\ UNCHANGED <<symbol, profile, buys, attempts>>
    BY <1>8 DEF CountPositions, Goto
  <2>2. CycleTypes'
    BY <2>1, <1>a DEF CycleTypes, Steps
  <2>3. \A d \in Cycles : pc'[d] \notin {"idle", "scan", "checked"} =>
            pc[d] \notin {"idle", "scan", "checked"}
    BY <2>1, <1>a DEF CycleTypes
  <2> QED
    BY <2>1, <2>2, <2>3, <1>a DEF BusyInv
<1>9. ASSUME NEW c \in Cycles, AlreadyTraded(c) PROVE Typed
  <2>1. NextCandidate(c) /\ buys' = buys /\ pc[c] \notin {"idle", "scan", "checked"}
    BY <1>9 DEF AlreadyTraded
  <2> QED
    BY <2>1, <1>a, <1>b, MoveTypes
<1>10. ASSUME NEW c \in Cycles, Place(c) PROVE Typed
  <2>1. /\ pc' = [pc EXCEPT ![c] = IF live THEN "send" ELSE "record"]
        /\ pc[c] \notin {"idle", "scan", "checked"}
        /\ UNCHANGED <<symbol, profile, buys, attempts>>
    BY <1>10 DEF Place, Goto
  <2>2. CycleTypes'
    BY <2>1, <1>a DEF CycleTypes, Steps
  <2>3. \A d \in Cycles : pc'[d] \notin {"idle", "scan", "checked"} =>
            pc[d] \notin {"idle", "scan", "checked"}
    BY <2>1, <1>a DEF CycleTypes
  <2> QED
    BY <2>1, <2>2, <2>3, <1>a DEF BusyInv
<1>11. ASSUME NEW c \in Cycles, OrderAccepted(c) PROVE Typed
  <2>1. /\ pc' = [pc EXCEPT ![c] = "record"] /\ pc[c] \notin {"idle", "scan", "checked"}
        /\ UNCHANGED <<symbol, profile, buys, attempts>>
    BY <1>11 DEF OrderAccepted, Goto
  <2>2. CycleTypes'
    BY <2>1, <1>a DEF CycleTypes, Steps
  <2>3. \A d \in Cycles : pc'[d] \notin {"idle", "scan", "checked"} =>
            pc[d] \notin {"idle", "scan", "checked"}
    BY <2>1, <1>a DEF CycleTypes
  <2> QED
    BY <2>1, <2>2, <2>3, <1>a DEF BusyInv
<1>12. ASSUME NEW c \in Cycles, OrderRefused(c) PROVE Typed
  <2>1. NextCandidate(c) /\ buys' = buys /\ pc[c] \notin {"idle", "scan", "checked"}
    BY <1>12 DEF OrderRefused, GiveUp
  <2> QED
    BY <2>1, <1>a, <1>b, MoveTypes
<1>13. ASSUME NEW c \in Cycles, OrderUnanswered(c) PROVE Typed
  <2>1. CASE attempts[c] + 1 < MaxAttempts
    <3>1. attempts' = [attempts EXCEPT ![c] = @ + 1] /\ UNCHANGED <<pc, symbol, profile, buys>>
      BY <1>13, <2>1 DEF OrderUnanswered
    <3>2. CycleTypes'
      BY <3>1, <2>1, <1>a, LimitsAssumption DEF CycleTypes
    <3> QED
      BY <3>1, <3>2, <1>a DEF BusyInv
  <2>2. CASE ~(attempts[c] + 1 < MaxAttempts)
    <3>1. NextCandidate(c) /\ buys' = buys /\ pc[c] \notin {"idle", "scan", "checked"}
      BY <1>13, <2>2 DEF OrderUnanswered, GiveUp
    <3> QED
      BY <3>1, <1>a, <1>b, MoveTypes
  <2> QED
    BY <2>1, <2>2
<1>14. ASSUME NEW c \in Cycles, Record(c) PROVE Typed
  <2>1. /\ NextCandidate(c) /\ pc[c] = "record" /\ symbol[c] \in Symbols
        /\ buys' \in {buys, [buys EXCEPT ![c] = @ + 1]}
        /\ c \notin BuyCycles => buys' = buys
    BY <1>14, <1>b DEF Record, CountTrade
  <2>2. c \in BuyCycles => buys[c] < MaxBuys
    BY <2>1, <1>a DEF BusyInv
  <2>3. buys' \in [Cycles -> 0..MaxBuys] /\ \A d \in Cycles \ {c} : buys'[d] = buys[d]
    BY <2>1, <2>2, <1>a, LimitsAssumption DEF CycleTypes
  <2>4. CycleTypes'
    BY <2>1, <2>3, <1>a, LimitsAssumption DEF NextCandidate, Goto, CycleTypes, Steps, Symbols
  <2>5. \A d \in Cycles : pc'[d] \notin {"idle", "scan", "checked"} =>
            /\ d # c /\ pc[d] = pc'[d] /\ symbol'[d] = symbol[d]
            /\ profile'[d] = profile[d]
    BY <2>1, <1>a DEF NextCandidate, Goto, CycleTypes
  <2> QED
    BY <2>3, <2>4, <2>5, <1>a DEF BusyInv
<1>15. ASSUME NEW c \in Cycles, RecordFails(c) PROVE Typed
  <2>1. NextCandidate(c) /\ buys' = buys /\ pc[c] \notin {"idle", "scan", "checked"}
    BY <1>15 DEF RecordFails
  <2> QED
    BY <2>1, <1>a, <1>b, MoveTypes
<1>16. ASSUME NEW c \in Cycles, Abort(c) PROVE Typed
  <2>1. Leave(c)
    BY <1>16 DEF Abort
  <2> QED
    BY <2>1, <1>a, MoveTypes
<1>17. ASSUME NEW c \in Cycles, Killed(c) PROVE Typed
  <2>1. Leave(c)
    BY <1>17 DEF Killed
  <2> QED
    BY <2>1, <1>a, MoveTypes
<1>18. ASSUME NEW c \in Cycles, NEW p \in Profiles, SkipWithShadow(c, p) PROVE Typed
  <2>1. /\ pc' = [pc EXCEPT ![c] = "skip"]
        /\ profile' = [profile EXCEPT ![c] = p]
        /\ UNCHANGED <<symbol, buys, attempts>> /\ HasCandidate(c)
    BY <1>18 DEF SkipWithShadow, Goto
  <2>2. CycleTypes'
    BY <2>1, <1>a DEF CycleTypes, Steps
  <2>3. \A d \in Cycles \ {c} : pc'[d] = pc[d] /\ profile'[d] = profile[d]
    BY <2>1, <1>a DEF CycleTypes
  <2>4. profile'[c] \in Profiles
    BY <2>1, <1>a DEF CycleTypes
  <2> QED
    BY <2>1, <2>2, <2>3, <2>4, <1>a, <1>c DEF BusyInv
<1>19. ASSUME NEW c \in Cycles, NEW p \in Profiles, LockProfile(c, p) PROVE Typed
  <2>1. /\ pc' = [pc EXCEPT ![c] = IF c \in BuyCycles THEN "execute" ELSE "approved"]
        /\ profile' = [profile EXCEPT ![c] = p]
        /\ UNCHANGED <<symbol, buys, attempts>> /\ HasCandidate(c)
    BY <1>19 DEF LockProfile, Checked, Goto
  <2>2. CycleTypes'
    BY <2>1, <1>a DEF CycleTypes, Steps
  <2>3. \A d \in Cycles \ {c} : pc'[d] = pc[d] /\ profile'[d] = profile[d]
    BY <2>1, <1>a DEF CycleTypes
  <2>4. profile'[c] \in Profiles
    BY <2>1, <1>a DEF CycleTypes
  <2> QED
    BY <2>1, <2>2, <2>3, <2>4, <1>a, <1>c DEF BusyInv
<1>20. ASSUME NEW c \in Cycles, NEW p \in Profiles, ProfileInactive(c, p) PROVE Typed
  <2>1. NextCandidate(c) /\ buys' = buys /\ HasCandidate(c)
    BY <1>20 DEF ProfileInactive, Checked
  <2> QED
    BY <2>1, <1>a, <1>c, MoveTypes
<1>21. ASSUME NEW p \in Profiles, SetStatus(p) PROVE Typed
  BY <1>21, <1>d DEF SetStatus, cycleVars
<1>22. ASSUME NEW s \in Symbols, Close(s) PROVE Typed
  BY <1>22, <1>d DEF Close, cycleVars
<1>23. ASSUME NEW s \in Symbols, CooldownEnds(s) PROVE Typed
  BY <1>23, <1>d DEF CooldownEnds, cycleVars
<1>24. CASE UNCHANGED vars
  BY <1>24, <1>d DEF vars, cycleVars
<1>25. ASSUME NEW c \in Cycles, CheckSymbol(c) PROVE Typed
  <2>1. pc' = [pc EXCEPT ![c] = "checked"] /\ UNCHANGED <<symbol, profile, buys, attempts>>
    BY <1>25 DEF CheckSymbol, Goto
  <2>2. CycleTypes'
    BY <2>1, <1>a DEF CycleTypes, Steps
  <2>3. \A d \in Cycles : pc'[d] \notin {"idle", "scan", "checked"} =>
            pc[d] \notin {"idle", "scan", "checked"}
    BY <2>1, <1>a DEF CycleTypes
  <2> QED
    BY <2>1, <2>2, <2>3, <1>a DEF BusyInv
<1> QED
  BY <1>1, <1>2, <1>3, <1>4, <1>5, <1>6, <1>7, <1>8, <1>9, <1>10, <1>11,
     <1>12, <1>13, <1>14, <1>15, <1>16, <1>17, <1>18, <1>19, <1>20,
     <1>21, <1>22, <1>23, <1>24, <1>25, StepCases

(* Every step keeps the types. *)
LEMMA StepTypes == IInv /\ [Next]_vars => (TypeOK /\ BusyInv)'
  BY StepRowTypes, StepCycleTypes DEF TypeOK, RowTypes, CycleTypes


-----------------------------------------------------------------------------
(* No late order. *)

(* Every step keeps the profile of an order locked and active. *)
LEMMA StepNoLateOrder == IInv /\ [Next]_vars => NoLateOrder'
<1> SUFFICES ASSUME IInv, [Next]_vars PROVE NoLateOrder'
  OBVIOUS
<1>1. ASSUME NEW c \in Cycles, Begin(c) PROVE NoLateOrder'
  BY <1>1 DEF Begin, Goto, userVars, tradeVars, cycleVars, IInv, TypeOK,
       BusyInv, NoLateOrder
<1>2. ASSUME NEW c \in Cycles, End(c) PROVE NoLateOrder'
  BY <1>2 DEF End, Goto, EndTransaction, Leave, HasCandidate, userVars,
       tradeVars, cycleVars, IInv, TypeOK, BusyInv, NoLateOrder
<1>3. ASSUME NEW c \in Cycles, Skip(c) PROVE NoLateOrder'
  BY <1>3 DEF Skip, Goto, NextCandidate, EndTransaction, HasCandidate,
       userVars, tradeVars, cycleVars, IInv, TypeOK, BusyInv, NoLateOrder
<1>4. ASSUME NEW c \in Cycles, WriteShadow(c) PROVE NoLateOrder'
  BY <1>4 DEF WriteShadow, Goto, NextCandidate, userVars, tradeVars, cycleVars,
       IInv, TypeOK, BusyInv, NoLateOrder
<1>5. ASSUME NEW c \in Cycles, Approve(c) PROVE NoLateOrder'
  BY <1>5 DEF Approve, Goto, EndTransaction, userVars, tradeVars, cycleVars,
       IInv, TypeOK, BusyInv, NoLateOrder
<1>6. ASSUME NEW c \in Cycles, Relock(c) PROVE NoLateOrder'
  BY <1>6 DEF Relock, Goto, NextCandidate, EndTransaction, userVars, tradeVars,
       cycleVars, IInv, TypeOK, BusyInv, NoLateOrder
<1>7. ASSUME NEW c \in Cycles, EngineRefuses(c) PROVE NoLateOrder'
  BY <1>7 DEF EngineRefuses, Goto, NextCandidate, userVars, tradeVars,
       cycleVars, IInv, TypeOK, BusyInv, NoLateOrder
<1>8. ASSUME NEW c \in Cycles, CountPositions(c) PROVE NoLateOrder'
  BY <1>8 DEF CountPositions, Goto, userVars, tradeVars, cycleVars, IInv,
       TypeOK, BusyInv, NoLateOrder
<1>9. ASSUME NEW c \in Cycles, AlreadyTraded(c) PROVE NoLateOrder'
  BY <1>9 DEF AlreadyTraded, Goto, NextCandidate, EndTransaction, userVars,
       tradeVars, cycleVars, IInv, TypeOK, BusyInv, NoLateOrder
<1>10. ASSUME NEW c \in Cycles, Place(c) PROVE NoLateOrder'
  BY <1>10 DEF Place, Goto, userVars, tradeVars, cycleVars, IInv, TypeOK,
       BusyInv, NoLateOrder
<1>11. ASSUME NEW c \in Cycles, OrderAccepted(c) PROVE NoLateOrder'
  BY <1>11 DEF OrderAccepted, Goto, userVars, tradeVars, cycleVars, IInv,
       TypeOK, BusyInv, NoLateOrder
<1>12. ASSUME NEW c \in Cycles, OrderRefused(c) PROVE NoLateOrder'
  BY <1>12 DEF OrderRefused, Goto, NextCandidate, EndTransaction, GiveUp,
       userVars, tradeVars, cycleVars, IInv, TypeOK, BusyInv, NoLateOrder
<1>13. ASSUME NEW c \in Cycles, OrderUnanswered(c) PROVE NoLateOrder'
  BY <1>13 DEF OrderUnanswered, Goto, NextCandidate, EndTransaction, Fault,
       GiveUp, userVars, tradeVars, cycleVars, IInv, TypeOK, BusyInv,
       NoLateOrder
<1>14. ASSUME NEW c \in Cycles, Record(c) PROVE NoLateOrder'
  BY <1>14 DEF Record, Goto, NextCandidate, EndTransaction, CountTrade,
       userVars, tradeVars, cycleVars, IInv, TypeOK, BusyInv, NoLateOrder
<1>15. ASSUME NEW c \in Cycles, RecordFails(c) PROVE NoLateOrder'
  BY <1>15 DEF RecordFails, Goto, NextCandidate, EndTransaction, Fault,
       userVars, tradeVars, cycleVars, IInv, TypeOK, BusyInv, NoLateOrder
<1>16. ASSUME NEW c \in Cycles, Abort(c) PROVE NoLateOrder'
  BY <1>16 DEF Abort, Goto, EndTransaction, Leave, userVars, tradeVars,
       cycleVars, IInv, TypeOK, BusyInv, NoLateOrder
<1>17. ASSUME NEW c \in Cycles, Killed(c) PROVE NoLateOrder'
  BY <1>17 DEF Killed, Goto, EndTransaction, Leave, Fault, userVars, tradeVars,
       cycleVars, IInv, TypeOK, BusyInv, NoLateOrder
<1>18. ASSUME NEW c \in Cycles, NEW p \in Profiles, SkipWithShadow(c, p) PROVE NoLateOrder'
  BY <1>18 DEF SkipWithShadow, Goto, HasCandidate, userVars, tradeVars,
       cycleVars, IInv, TypeOK, BusyInv, NoLateOrder
<1>19. ASSUME NEW c \in Cycles, NEW p \in Profiles, LockProfile(c, p) PROVE NoLateOrder'
  BY <1>19 DEF LockProfile, Goto, Checked, HasCandidate, userVars, tradeVars, cycleVars,
       IInv, TypeOK, BusyInv, NoLateOrder
<1>20. ASSUME NEW c \in Cycles, NEW p \in Profiles, ProfileInactive(c, p) PROVE NoLateOrder'
  BY <1>20 DEF ProfileInactive, Goto, NextCandidate, EndTransaction,
       Checked, HasCandidate, userVars, tradeVars, cycleVars, IInv, TypeOK, BusyInv,
       NoLateOrder
<1>21. ASSUME NEW p \in Profiles, SetStatus(p) PROVE NoLateOrder'
  <2>1. \A d \in Cycles : pc[d] \in {"execute", "counted", "send", "record"} =>
            profile[d] # p
    BY <1>21 DEF SetStatus, Unlocked, NoLateOrder, IInv
  <2>2. \A q \in Profiles : q # p => active'[q] = active[q]
    BY <1>21 DEF SetStatus, IInv, TypeOK
  <2> QED
    BY <1>21, <2>1, <2>2 DEF SetStatus, NoLateOrder, IInv, BusyInv, cycleVars
<1>22. ASSUME NEW s \in Symbols, Close(s) PROVE NoLateOrder'
  BY <1>22 DEF Close, userVars, tradeVars, cycleVars, IInv, TypeOK, BusyInv,
       NoLateOrder
<1>23. ASSUME NEW s \in Symbols, CooldownEnds(s) PROVE NoLateOrder'
  BY <1>23 DEF CooldownEnds, userVars, tradeVars, cycleVars, IInv, TypeOK,
       BusyInv, NoLateOrder
<1>24. CASE UNCHANGED vars
  BY <1>24 DEF vars, Goto, NextCandidate, EndTransaction, Leave, HasCandidate,
       Fault, GiveUp, CountTrade, userVars, tradeVars, cycleVars, IInv, TypeOK,
       BusyInv, NoLateOrder
<1>25. ASSUME NEW c \in Cycles, CheckSymbol(c) PROVE NoLateOrder'
  BY <1>25 DEF CheckSymbol, Goto, userVars, tradeVars, cycleVars, IInv, TypeOK,
       BusyInv, NoLateOrder
<1> QED
  BY <1>1, <1>2, <1>3, <1>4, <1>5, <1>6, <1>7, <1>8, <1>9, <1>10, <1>11,
     <1>12, <1>13, <1>14, <1>15, <1>16, <1>17, <1>18, <1>19, <1>20,
     <1>21, <1>22, <1>23, <1>24, <1>25, StepCases

-----------------------------------------------------------------------------
(* One trade for each symbol. *)

(* Every step keeps the advisory lock exclusive and its check valid. *)
LEMMA StepAdvisory == IInv /\ [Next]_vars => AdvisoryInv'
<1> SUFFICES ASSUME IInv, [Next]_vars PROVE AdvisoryInv'
  OBVIOUS
<1> DEFINE Kept == /\ single' = single
                   /\ \A s \in Symbols : bought'[s] <= bought[s]
                   /\ \A d \in Cycles, s \in Symbols :
                          HasAdvisory(d, s)' => HasAdvisory(d, s)
<1>a. bought \in [Symbols -> Nat] /\ bought' \in [Symbols -> Nat]
  BY StepTypes DEF IInv, TypeOK
<1>b. Kept => AdvisoryInv'
  BY <1>a DEF AdvisoryInv, IInv
<1>1. ASSUME NEW c \in Cycles, Begin(c) PROVE AdvisoryInv'
  BY <1>1, <1>a, <1>b DEF Begin, Goto, userVars, tradeVars, cycleVars,
       HasAdvisory, Consolidates, IInv, TypeOK
<1>2. ASSUME NEW c \in Cycles, End(c) PROVE AdvisoryInv'
  BY <1>2, <1>a, <1>b DEF End, Goto, EndTransaction, Leave, HasCandidate,
       userVars, tradeVars, cycleVars, HasAdvisory, Consolidates, IInv, TypeOK
<1>3. ASSUME NEW c \in Cycles, Skip(c) PROVE AdvisoryInv'
  BY <1>3, <1>a, <1>b DEF Skip, Goto, NextCandidate, EndTransaction,
       HasCandidate, userVars, tradeVars, cycleVars, HasAdvisory, Consolidates,
       IInv, TypeOK
<1>4. ASSUME NEW c \in Cycles, WriteShadow(c) PROVE AdvisoryInv'
  BY <1>4, <1>a, <1>b DEF WriteShadow, Goto, NextCandidate, userVars,
       tradeVars, cycleVars, HasAdvisory, Consolidates, IInv, TypeOK
<1>5. ASSUME NEW c \in Cycles, Approve(c) PROVE AdvisoryInv'
  BY <1>5, <1>a, <1>b DEF Approve, Goto, EndTransaction, userVars, tradeVars,
       cycleVars, HasAdvisory, Consolidates, IInv, TypeOK
<1>6. ASSUME NEW c \in Cycles, Relock(c) PROVE AdvisoryInv'
  BY <1>6, <1>a, <1>b DEF Relock, Goto, NextCandidate, EndTransaction,
       userVars, tradeVars, cycleVars, HasAdvisory, Consolidates, IInv, TypeOK
<1>7. ASSUME NEW c \in Cycles, EngineRefuses(c) PROVE AdvisoryInv'
  BY <1>7, <1>a, <1>b DEF EngineRefuses, Goto, NextCandidate, userVars,
       tradeVars, cycleVars, HasAdvisory, Consolidates, IInv, TypeOK
<1>8. ASSUME NEW c \in Cycles, CountPositions(c) PROVE AdvisoryInv'
  BY <1>8, <1>a, <1>b DEF CountPositions, Goto, userVars, tradeVars, cycleVars,
       HasAdvisory, Consolidates, IInv, TypeOK
<1>9. ASSUME NEW c \in Cycles, AlreadyTraded(c) PROVE AdvisoryInv'
  BY <1>9, <1>a, <1>b DEF AlreadyTraded, Goto, NextCandidate, EndTransaction,
       userVars, tradeVars, cycleVars, HasAdvisory, Consolidates, IInv, TypeOK
<1>10. ASSUME NEW c \in Cycles, Place(c) PROVE AdvisoryInv'
  <2>1. /\ UNCHANGED <<single, bought, symbol>>
        /\ \A d \in Cycles : d # c => pc'[d] = pc[d]
    BY <1>10 DEF Place, Goto, userVars, tradeVars, IInv, TypeOK
  <2>2. ASSUME NEW d \in Cycles, NEW s \in Symbols, d # c
        PROVE  HasAdvisory(d, s)' = HasAdvisory(d, s)
    BY <2>1, <2>2 DEF HasAdvisory, Consolidates
  <2>3. ASSUME NEW s \in Symbols, HasAdvisory(c, s)'
        PROVE  /\ bought[s] = 0
               /\ \A d \in Cycles \ {c} : ~HasAdvisory(d, s)
    <3>1. Consolidates(c) /\ symbol[c] = s
      BY <2>1, <2>3 DEF HasAdvisory, Consolidates
    <3>2. AdvisoryIsFree(c) /\ ActiveTrades(symbol[c]) = 0
      BY <1>10, <3>1 DEF Place
    <3>3. bought[s] \in Nat /\ signalled[s] \in Nat
      BY DEF IInv, TypeOK
    <3> QED
      BY <3>1, <3>2, <3>3 DEF AdvisoryIsFree, ActiveTrades
  <2> QED
    BY <2>1, <2>2, <2>3, <1>a DEF AdvisoryInv, IInv
<1>11. ASSUME NEW c \in Cycles, OrderAccepted(c) PROVE AdvisoryInv'
  BY <1>11, <1>a, <1>b DEF OrderAccepted, Goto, userVars, tradeVars, cycleVars,
       HasAdvisory, Consolidates, IInv, TypeOK
<1>12. ASSUME NEW c \in Cycles, OrderRefused(c) PROVE AdvisoryInv'
  BY <1>12, <1>a, <1>b DEF OrderRefused, Goto, NextCandidate, EndTransaction,
       GiveUp, userVars, tradeVars, cycleVars, HasAdvisory, Consolidates, IInv,
       TypeOK
<1>13. ASSUME NEW c \in Cycles, OrderUnanswered(c) PROVE AdvisoryInv'
  BY <1>13, <1>a, <1>b DEF OrderUnanswered, Goto, NextCandidate,
       EndTransaction, Fault, GiveUp, userVars, tradeVars, cycleVars,
       HasAdvisory, Consolidates, IInv, TypeOK
<1>14. ASSUME NEW c \in Cycles, Record(c) PROVE AdvisoryInv'
  <2>1. /\ UNCHANGED single
        /\ pc' = [pc EXCEPT ![c] = "scan"]
        /\ \A d \in Cycles : d # c => symbol'[d] = symbol[d]
    BY <1>14 DEF Record, NextCandidate, Goto, userVars, IInv, TypeOK
  <2>2. ASSUME NEW d \in Cycles, NEW s \in Symbols, HasAdvisory(d, s)'
        PROVE  d # c /\ HasAdvisory(d, s)
    BY <2>1, <2>2 DEF HasAdvisory, Consolidates, IInv, TypeOK
  <2>3. CASE ~(single /\ c \in BuyCycles)
    <3>1. single => bought' = bought
      BY <1>14, <2>3 DEF Record, CountTrade
    <3> QED
      BY <3>1, <2>1, <2>2, <1>a DEF AdvisoryInv, IInv
  <2>4. CASE single /\ c \in BuyCycles
    <3>1. symbol[c] \in Symbols /\ HasAdvisory(c, symbol[c])
      BY <1>14, <2>4 DEF Record, HasAdvisory, Consolidates, IInv, BusyInv
    <3>2. /\ bought[symbol[c]] = 0
          /\ \A d \in Cycles : HasAdvisory(d, symbol[c]) => d = c
      BY <3>1, <2>4 DEF AdvisoryInv, IInv
    <3>3. bought' = [bought EXCEPT ![symbol[c]] = @ + 1]
      BY <1>14, <2>4 DEF Record, CountTrade
    <3>4. bought'[symbol[c]] = 1 /\ \A s \in Symbols : s # symbol[c] => bought'[s] = bought[s]
      BY <3>1, <3>2, <3>3, <1>a
    <3>5. ASSUME NEW s \in Symbols, NEW d \in Cycles, HasAdvisory(d, s)'
          PROVE  s # symbol[c]
      BY <2>2, <3>2, <3>5
    <3> QED
      BY <3>4, <3>5, <2>1, <2>2, <2>4, <1>a DEF AdvisoryInv, IInv
  <2> QED
    BY <2>3, <2>4
<1>15. ASSUME NEW c \in Cycles, RecordFails(c) PROVE AdvisoryInv'
  BY <1>15, <1>a, <1>b DEF RecordFails, Goto, NextCandidate, EndTransaction,
       Fault, userVars, tradeVars, cycleVars, HasAdvisory, Consolidates, IInv,
       TypeOK
<1>16. ASSUME NEW c \in Cycles, Abort(c) PROVE AdvisoryInv'
  BY <1>16, <1>a, <1>b DEF Abort, Goto, EndTransaction, Leave, userVars,
       tradeVars, cycleVars, HasAdvisory, Consolidates, IInv, TypeOK
<1>17. ASSUME NEW c \in Cycles, Killed(c) PROVE AdvisoryInv'
  BY <1>17, <1>a, <1>b DEF Killed, Goto, EndTransaction, Leave, Fault,
       userVars, tradeVars, cycleVars, HasAdvisory, Consolidates, IInv, TypeOK
<1>18. ASSUME NEW c \in Cycles, NEW p \in Profiles, SkipWithShadow(c, p) PROVE AdvisoryInv'
  BY <1>18, <1>a, <1>b DEF SkipWithShadow, Goto, HasCandidate, userVars,
       tradeVars, cycleVars, HasAdvisory, Consolidates, IInv, TypeOK
<1>19. ASSUME NEW c \in Cycles, NEW p \in Profiles, LockProfile(c, p) PROVE AdvisoryInv'
  BY <1>19, <1>a, <1>b DEF LockProfile, Goto, Checked, HasCandidate, userVars,
       tradeVars, cycleVars, HasAdvisory, Consolidates, IInv, TypeOK
<1>20. ASSUME NEW c \in Cycles, NEW p \in Profiles, ProfileInactive(c, p) PROVE AdvisoryInv'
  BY <1>20, <1>a, <1>b DEF ProfileInactive, Goto, NextCandidate,
       EndTransaction, Checked, HasCandidate, userVars, tradeVars, cycleVars,
       HasAdvisory, Consolidates, IInv, TypeOK
<1>21. ASSUME NEW p \in Profiles, SetStatus(p) PROVE AdvisoryInv'
  BY <1>21, <1>a, <1>b DEF SetStatus, userVars, tradeVars, cycleVars,
       HasAdvisory, Consolidates, IInv, TypeOK
<1>22. ASSUME NEW s \in Symbols, Close(s) PROVE AdvisoryInv'
  <2>1. UNCHANGED <<single, pc, symbol>>
    BY <1>22 DEF Close, userVars, cycleVars
  <2>2. \A t \in Symbols : bought'[t] <= bought[t]
    BY <1>22, <1>a DEF Close
  <2>3. \A d \in Cycles, t \in Symbols : HasAdvisory(d, t)' = HasAdvisory(d, t)
    BY <2>1 DEF HasAdvisory, Consolidates
  <2> QED
    BY <2>1, <2>2, <2>3, <1>b
<1>23. ASSUME NEW s \in Symbols, CooldownEnds(s) PROVE AdvisoryInv'
  BY <1>23, <1>a, <1>b DEF CooldownEnds, userVars, tradeVars, cycleVars,
       HasAdvisory, Consolidates, IInv, TypeOK
<1>24. CASE UNCHANGED vars
  BY <1>24, <1>a, <1>b DEF vars, Goto, NextCandidate, EndTransaction, Leave,
       HasCandidate, Fault, GiveUp, CountTrade, userVars, tradeVars, cycleVars,
       HasAdvisory, Consolidates, IInv, TypeOK
<1>25. ASSUME NEW c \in Cycles, CheckSymbol(c) PROVE AdvisoryInv'
  BY <1>25, <1>a, <1>b DEF CheckSymbol, Goto, userVars, tradeVars, cycleVars,
       HasAdvisory, Consolidates, IInv, TypeOK
<1> QED
  BY <1>1, <1>2, <1>3, <1>4, <1>5, <1>6, <1>7, <1>8, <1>9, <1>10, <1>11,
     <1>12, <1>13, <1>14, <1>15, <1>16, <1>17, <1>18, <1>19, <1>20,
     <1>21, <1>22, <1>23, <1>24, <1>25, StepCases

-----------------------------------------------------------------------------
(* The books. *)

(* A cycle that starts or ends recording changes the number by one. *)
LEMMA RecordingChanges ==
    ASSUME TypeOK, NEW c \in Cycles, NEW step \in Steps, pc' = [pc EXCEPT ![c] = step]
    PROVE  /\ (pc[c] # "record" /\ step # "record") => Recording' = Recording
           /\ (pc[c] # "record" /\ step = "record") =>
                  Cardinality(Recording') = Cardinality(Recording) + 1
           /\ (pc[c] = "record" /\ step # "record") =>
                  Cardinality(Recording') = Cardinality(Recording) - 1
<1>1. IsFiniteSet(Recording)
  BY RecordingFinite
<1>2. CASE pc[c] # "record" /\ step # "record"
  BY <1>2 DEF Recording, TypeOK
<1>3. CASE pc[c] # "record" /\ step = "record"
  <2>1. Recording' = Recording \union {c} /\ c \notin Recording
    BY <1>3 DEF Recording, TypeOK
  <2> QED
    BY <2>1, <1>1, <1>3, FS_AddElement
<1>4. CASE pc[c] = "record" /\ step # "record"
  <2>1. Recording' = Recording \ {c} /\ c \in Recording
    BY <1>4 DEF Recording, TypeOK
  <2> QED
    BY <2>1, <1>1, <1>4, FS_RemoveElement
<1> QED
  BY <1>2, <1>3, <1>4

(* Every step keeps the books. *)
LEMMA StepBooks == IInv /\ [Next]_vars => BooksInv'
<1> SUFFICES ASSUME IInv, [Next]_vars PROVE BooksInv'
  OBVIOUS
<1> DEFINE Quiet == Recording' = Recording /\ UNCHANGED <<live, unbooked, faults>>
<1>a. TypeOK /\ BooksInv /\ unbooked \in Nat /\ faults \in Nat
  BY LimitsAssumption DEF IInv, TypeOK
<1>b. Quiet => BooksInv'
  BY <1>a DEF BooksInv
<1>c. Cardinality(Recording) \in Nat
  BY RecordingFinite
<1>1. ASSUME NEW c \in Cycles, Begin(c) PROVE BooksInv'
  <2>1. pc[c] # "record" /\ pc' = [pc EXCEPT ![c] = "scan"]
    BY <1>1 DEF Begin, Goto
  <2>2. Recording' = Recording
    BY <1>a, <2>1, RecordingChanges DEF Steps
  <2> QED
    BY <1>1, <2>2, <1>b DEF Begin, userVars, tradeVars
<1>2. ASSUME NEW c \in Cycles, End(c) PROVE BooksInv'
  <2>1. pc[c] # "record" /\ pc' = [pc EXCEPT ![c] = "idle"]
    BY <1>2 DEF End, Goto, Leave
  <2>2. Recording' = Recording
    BY <1>a, <2>1, RecordingChanges DEF Steps
  <2> QED
    BY <1>2, <2>2, <1>b DEF End, userVars, tradeVars
<1>3. ASSUME NEW c \in Cycles, Skip(c) PROVE BooksInv'
  <2>1. pc[c] # "record" /\ pc' = [pc EXCEPT ![c] = "scan"]
    BY <1>3 DEF Skip, Goto, NextCandidate, HasCandidate
  <2>2. Recording' = Recording
    BY <1>a, <2>1, RecordingChanges DEF Steps
  <2> QED
    BY <1>3, <2>2, <1>b DEF Skip, userVars, tradeVars
<1>4. ASSUME NEW c \in Cycles, WriteShadow(c) PROVE BooksInv'
  <2>1. pc[c] # "record" /\ pc' = [pc EXCEPT ![c] = "scan"]
    BY <1>4 DEF WriteShadow, Goto, NextCandidate
  <2>2. Recording' = Recording
    BY <1>a, <2>1, RecordingChanges DEF Steps
  <2> QED
    BY <1>4, <2>2, <1>b DEF WriteShadow, userVars, tradeVars
<1>5. ASSUME NEW c \in Cycles, Approve(c) PROVE BooksInv'
  <2>1. pc[c] # "record" /\ pc' = [pc EXCEPT ![c] = "relock"]
    BY <1>5 DEF Approve, Goto
  <2>2. Recording' = Recording
    BY <1>a, <2>1, RecordingChanges DEF Steps
  <2> QED
    BY <1>5, <2>2, <1>b DEF Approve, userVars, tradeVars
<1>6. ASSUME NEW c \in Cycles, Relock(c) PROVE BooksInv'
  <2>1. /\ pc[c] # "record"
        /\ \/ pc' = [pc EXCEPT ![c] = "execute"] \/ pc' = [pc EXCEPT ![c] = "scan"]
    BY <1>6 DEF Relock, Goto, NextCandidate
  <2>2. Recording' = Recording
    BY <1>a, <2>1, RecordingChanges DEF Steps
  <2> QED
    BY <1>6, <2>2, <1>b DEF Relock, userVars, tradeVars
<1>7. ASSUME NEW c \in Cycles, EngineRefuses(c) PROVE BooksInv'
  <2>1. pc[c] # "record" /\ pc' = [pc EXCEPT ![c] = "scan"]
    BY <1>7 DEF EngineRefuses, Goto, NextCandidate
  <2>2. Recording' = Recording
    BY <1>a, <2>1, RecordingChanges DEF Steps
  <2> QED
    BY <1>7, <2>2, <1>b DEF EngineRefuses, userVars, tradeVars
<1>8. ASSUME NEW c \in Cycles, CountPositions(c) PROVE BooksInv'
  <2>1. pc[c] # "record" /\ pc' = [pc EXCEPT ![c] = "counted"]
    BY <1>8 DEF CountPositions, Goto
  <2>2. Recording' = Recording
    BY <1>a, <2>1, RecordingChanges DEF Steps
  <2> QED
    BY <1>8, <2>2, <1>b DEF CountPositions, userVars, tradeVars
<1>9. ASSUME NEW c \in Cycles, AlreadyTraded(c) PROVE BooksInv'
  <2>1. pc[c] # "record" /\ pc' = [pc EXCEPT ![c] = "scan"]
    BY <1>9 DEF AlreadyTraded, Goto, NextCandidate
  <2>2. Recording' = Recording
    BY <1>a, <2>1, RecordingChanges DEF Steps
  <2> QED
    BY <1>9, <2>2, <1>b DEF AlreadyTraded, userVars, tradeVars
<1>10. ASSUME NEW c \in Cycles, Place(c) PROVE BooksInv'
  <2>1. /\ pc[c] # "record" /\ UNCHANGED <<live, unbooked, faults>>
        /\ pc' = [pc EXCEPT ![c] = IF live THEN "send" ELSE "record"]
    BY <1>10 DEF Place, Goto, userVars, tradeVars
  <2>2. CASE live
    BY <2>1, <2>2, <1>a, <1>b, RecordingChanges DEF Steps
  <2>3. CASE ~live
    BY <2>1, <2>3 DEF BooksInv
  <2> QED
    BY <2>2, <2>3
<1>11. ASSUME NEW c \in Cycles, OrderAccepted(c) PROVE BooksInv'
  <2>1. /\ pc[c] # "record" /\ pc' = [pc EXCEPT ![c] = "record"]
        /\ unbooked' = unbooked + 1 /\ faults' = faults /\ live' = live
    BY <1>11 DEF OrderAccepted, Goto, userVars, tradeVars
  <2>2. Cardinality(Recording') = Cardinality(Recording) + 1
    BY <1>a, <2>1, RecordingChanges DEF Steps
  <2> QED
    BY <2>1, <2>2, <1>a, <1>c DEF BooksInv
<1>12. ASSUME NEW c \in Cycles, OrderRefused(c) PROVE BooksInv'
  <2>1. pc[c] # "record" /\ pc' = [pc EXCEPT ![c] = "scan"]
    BY <1>12 DEF OrderRefused, Goto, GiveUp, NextCandidate
  <2>2. Recording' = Recording
    BY <1>a, <2>1, RecordingChanges DEF Steps
  <2> QED
    BY <1>12, <2>2, <1>b DEF OrderRefused, userVars, tradeVars
<1>13. ASSUME NEW c \in Cycles, OrderUnanswered(c) PROVE BooksInv'
  <2>1. /\ pc[c] # "record" /\ (pc' = [pc EXCEPT ![c] = "scan"] \/ pc' = pc)
        /\ unbooked' \in {unbooked, unbooked + 1} /\ faults' = faults + 1 /\ live' = live
    BY <1>13 DEF OrderUnanswered, Goto, GiveUp, NextCandidate, Fault, userVars
  <2>2. Recording' = Recording
    BY <1>a, <2>1, RecordingChanges DEF Steps, Recording
  <2> QED
    BY <2>1, <2>2, <1>a, <1>c DEF BooksInv
<1>14. ASSUME NEW c \in Cycles, Record(c) PROVE BooksInv'
  <2>1. /\ pc[c] = "record" /\ pc' = [pc EXCEPT ![c] = "scan"]
        /\ (live => unbooked' = unbooked - 1) /\ faults' = faults /\ live' = live
    BY <1>14 DEF Record, Goto, userVars, tradeVars, NextCandidate
  <2>2. Cardinality(Recording') = Cardinality(Recording) - 1
    BY <1>a, <2>1, RecordingChanges DEF Steps
  <2> QED
    BY <2>1, <2>2, <1>a, <1>c DEF BooksInv
<1>15. ASSUME NEW c \in Cycles, RecordFails(c) PROVE BooksInv'
  <2>1. /\ pc[c] = "record" /\ pc' = [pc EXCEPT ![c] = "scan"]
        /\ unbooked' = unbooked /\ faults' = faults + 1 /\ live' = live
    BY <1>15 DEF RecordFails, Goto, userVars, tradeVars, NextCandidate, Fault
  <2>2. Cardinality(Recording') = Cardinality(Recording) - 1
    BY <1>a, <2>1, RecordingChanges DEF Steps
  <2> QED
    BY <2>1, <2>2, <1>a, <1>c DEF BooksInv
<1>16. ASSUME NEW c \in Cycles, Abort(c) PROVE BooksInv'
  <2>1. pc[c] # "record" /\ pc' = [pc EXCEPT ![c] = "idle"]
    BY <1>16 DEF Abort, Goto, Leave
  <2>2. Recording' = Recording
    BY <1>a, <2>1, RecordingChanges DEF Steps
  <2> QED
    BY <1>16, <2>2, <1>b DEF Abort, userVars, tradeVars
<1>17. ASSUME NEW c \in Cycles, Killed(c) PROVE BooksInv'
  <2>1. /\ pc' = [pc EXCEPT ![c] = "idle"] /\ faults' = faults + 1 /\ live' = live
        /\ \/ pc[c] = "send" /\ unbooked' \in {unbooked, unbooked + 1}
           \/ pc[c] = "record" /\ unbooked' = unbooked
    BY <1>17 DEF Killed, Leave, Goto, Fault, userVars
  <2>2. CASE pc[c] = "send"
    <3>1. Recording' = Recording
      BY <1>a, <2>1, <2>2, RecordingChanges DEF Steps
    <3> QED
      BY <2>1, <2>2, <3>1, <1>a, <1>c DEF BooksInv
  <2>3. CASE pc[c] = "record"
    <3>1. Cardinality(Recording') = Cardinality(Recording) - 1
      BY <1>a, <2>1, <2>3, RecordingChanges DEF Steps
    <3> QED
      BY <2>1, <2>3, <3>1, <1>a, <1>c DEF BooksInv
  <2> QED
    BY <2>1, <2>2, <2>3
<1>18. ASSUME NEW c \in Cycles, NEW p \in Profiles, SkipWithShadow(c, p) PROVE BooksInv'
  <2>1. pc[c] # "record" /\ pc' = [pc EXCEPT ![c] = "skip"]
    BY <1>18 DEF SkipWithShadow, Goto, HasCandidate
  <2>2. Recording' = Recording
    BY <1>a, <2>1, RecordingChanges DEF Steps
  <2> QED
    BY <1>18, <2>2, <1>b DEF SkipWithShadow, userVars, tradeVars
<1>19. ASSUME NEW c \in Cycles, NEW p \in Profiles, LockProfile(c, p) PROVE BooksInv'
  <2>1. /\ pc[c] # "record"
        /\ \/ pc' = [pc EXCEPT ![c] = "execute"] \/ pc' = [pc EXCEPT ![c] = "approved"]
    BY <1>19 DEF LockProfile, Goto, Checked, HasCandidate
  <2>2. Recording' = Recording
    BY <1>a, <2>1, RecordingChanges DEF Steps
  <2> QED
    BY <1>19, <2>2, <1>b DEF LockProfile, userVars, tradeVars
<1>20. ASSUME NEW c \in Cycles, NEW p \in Profiles, ProfileInactive(c, p) PROVE BooksInv'
  <2>1. pc[c] # "record" /\ pc' = [pc EXCEPT ![c] = "scan"]
    BY <1>20 DEF ProfileInactive, Goto, Checked, HasCandidate, NextCandidate
  <2>2. Recording' = Recording
    BY <1>a, <2>1, RecordingChanges DEF Steps
  <2> QED
    BY <1>20, <2>2, <1>b DEF ProfileInactive, userVars, tradeVars
<1>21. ASSUME NEW p \in Profiles, SetStatus(p) PROVE BooksInv'
  BY <1>21, <1>b DEF SetStatus, Recording, userVars, tradeVars, cycleVars
<1>22. ASSUME NEW s \in Symbols, Close(s) PROVE BooksInv'
  BY <1>22, <1>b DEF Close, Recording, userVars, tradeVars, cycleVars
<1>23. ASSUME NEW s \in Symbols, CooldownEnds(s) PROVE BooksInv'
  BY <1>23, <1>b DEF CooldownEnds, Recording, userVars, tradeVars, cycleVars
<1>24. CASE UNCHANGED vars
  BY <1>24, <1>b DEF vars, Recording, userVars, tradeVars, cycleVars
<1>25. ASSUME NEW c \in Cycles, CheckSymbol(c) PROVE BooksInv'
  <2>1. pc[c] # "record" /\ pc' = [pc EXCEPT ![c] = "checked"]
    BY <1>25 DEF CheckSymbol, Goto
  <2>2. Recording' = Recording
    BY <1>a, <2>1, RecordingChanges DEF Steps
  <2> QED
    BY <1>25, <2>2, <1>b DEF CheckSymbol, userVars, tradeVars
<1> QED
  BY <1>1, <1>2, <1>3, <1>4, <1>5, <1>6, <1>7, <1>8, <1>9, <1>10, <1>11,
     <1>12, <1>13, <1>14, <1>15, <1>16, <1>17, <1>18, <1>19, <1>20,
     <1>21, <1>22, <1>23, <1>24, <1>25, StepCases

-----------------------------------------------------------------------------
(* The limits on positions. *)

(* Orders that the engine has let past its count, and the trades the        *)
(* cycles under way may still place.                                        *)
Ordering == {c \in Cycles : pc[c] \in {"counted", "send", "record"}}
Slots ==
    {t \in BuyCycles \X (1..MaxBuys) : pc[t[1]] # "idle" /\ buys[t[1]] < t[2]}
    \union {t \in EvaluateCycles \X Symbols :
                pc[t[1]] # "idle" /\ symbol[t[1]] <= t[2]}
AllSlots == (BuyCycles \X (1..MaxBuys)) \union (EvaluateCycles \X Symbols)

(* Neither a position together with an order, nor a position together with *)
(* a trade to come, exceeds what the cycles may overrun a limit by. *)
OverrunInv ==
    /\ IsFiniteSet(OpenTrades)
    /\ LET n == Positions + Cardinality(Ordering)
       IN  n > 0 => n < EngineLimit + Cardinality(Cycles)
    /\ LET n == Positions + Cardinality(Slots)
       IN  n > 0 => n < MaxPositions + Cardinality(AllSlots)

(* The sets that are counted are finite. *)
LEMMA OverrunFinite ==
    /\ IsFiniteSet(AllSlots) /\ Slots \subseteq AllSlots
    /\ IsFiniteSet(Slots) /\ IsFiniteSet(Ordering) /\ Ordering \subseteq Cycles
    /\ Cardinality(AllSlots) \in Nat /\ Cardinality(Cycles) \in Nat
    /\ Cardinality(Slots) \in Nat /\ Cardinality(Ordering) \in Nat
    /\ Cardinality(Slots) <= Cardinality(AllSlots)
    /\ Cardinality(Ordering) <= Cardinality(Cycles)
<1>1. IsFiniteSet(BuyCycles) /\ IsFiniteSet(EvaluateCycles)
  BY CyclesAssumption, FS_Subset DEF Cycles
<1>2. IsFiniteSet(1..MaxBuys) /\ IsFiniteSet(Symbols)
  BY LimitsAssumption, FS_Interval DEF Symbols
<1>3. IsFiniteSet(BuyCycles \X (1..MaxBuys)) /\ IsFiniteSet(EvaluateCycles \X Symbols)
  BY <1>1, <1>2, FS_Product
<1>4. IsFiniteSet(AllSlots)
  BY <1>3, FS_Union DEF AllSlots
<1>5. Slots \subseteq AllSlots
  BY DEF Slots, AllSlots
<1>6. Ordering \subseteq Cycles /\ IsFiniteSet(Cycles)
  BY CyclesAssumption DEF Ordering
<1> QED
  BY <1>4, <1>5, <1>6, FS_Subset, FS_CardinalityType

(* Every pair of a cycle and a trade it may place is counted once. *)
LEMMA AllSlotsCount ==
    Cardinality(AllSlots) = Cardinality(BuyCycles) * MaxBuys
                          + Cardinality(EvaluateCycles) * Candidates
<1> DEFINE B == BuyCycles \X (1..MaxBuys)
           E == EvaluateCycles \X Symbols
<1>1. IsFiniteSet(BuyCycles) /\ IsFiniteSet(EvaluateCycles)
  BY CyclesAssumption, FS_Subset DEF Cycles
<1>2. /\ IsFiniteSet(1..MaxBuys) /\ Cardinality(1..MaxBuys) = MaxBuys
      /\ IsFiniteSet(Symbols) /\ Cardinality(Symbols) = Candidates
  <2>1. /\ 1 \in Int /\ MaxBuys \in Nat /\ MaxBuys \in Int
        /\ Candidates \in Nat \ {0} /\ Candidates \in Int
    BY LimitsAssumption
  <2>2. /\ IsFiniteSet(1..MaxBuys)
        /\ Cardinality(1..MaxBuys) = IF 1 > MaxBuys THEN 0 ELSE MaxBuys - 1 + 1
    BY <2>1, FS_Interval
  <2>3. /\ IsFiniteSet(1..Candidates)
        /\ Cardinality(1..Candidates) = IF 1 > Candidates THEN 0 ELSE Candidates - 1 + 1
    BY <2>1, FS_Interval
  <2> QED
    BY <2>1, <2>2, <2>3 DEF Symbols
<1>3. /\ IsFiniteSet(B) /\ Cardinality(B) = Cardinality(BuyCycles) * MaxBuys
      /\ IsFiniteSet(E) /\ Cardinality(E) = Cardinality(EvaluateCycles) * Candidates
  BY <1>1, <1>2, FS_Product
<1>4. B \intersect E = {}
  BY CyclesAssumption
<1>5. Cardinality(B \union E) = Cardinality(B) + Cardinality(E) - Cardinality(B \intersect E)
  BY <1>3, FS_Union
<1>6. Cardinality(B) \in Nat /\ Cardinality(E) \in Nat /\ Cardinality({}) = 0
  BY <1>3, FS_CardinalityType, FS_EmptySet
<1>7. AllSlots = B \union E
  BY DEF AllSlots
<1>8. Cardinality(AllSlots) = Cardinality(B) + Cardinality(E)
  <2> HIDE DEF B, E
  <2>1. Cardinality(B \intersect E) = 0
    BY <1>4, <1>6
  <2>2. Cardinality(B \union E) = Cardinality(B) + Cardinality(E) - 0
    BY <1>5, <2>1
  <2> QED
    BY <1>6, <1>7, <2>2
<1> QED
  BY <1>3, <1>8

(* What a numbered trade is. *)
LEMMA NumberedAre ==
    ASSUME NEW kind, NEW f, NEW t
    PROVE  t \in Numbered(kind, f) <=>
              \E s \in Symbols : \E n \in 1..f[s] : t = <<kind, s, n>>
<1> DEFINE N(s) == {<<kind, s, n>> : n \in 1..f[s]}
<1>1. t \in UNION {N(s) : s \in Symbols} <=> \E s \in Symbols : t \in N(s)
  <2> HIDE DEF N
  <2> QED
    BY Zenon
<1>2. \A s \in Symbols : t \in N(s) <=> \E n \in 1..f[s] : t = <<kind, s, n>>
  OBVIOUS
<1>3. Numbered(kind, f) = UNION {N(s) : s \in Symbols}
  BY DEF Numbered
<1> HIDE DEF N
<1> QED
  BY <1>1, <1>2, <1>3

(* Where no count is higher there is no other trade. *)
LEMMA NumberedShrink ==
    ASSUME NEW kind, NEW f \in [Symbols -> Nat], NEW g \in [Symbols -> Nat],
           \A s \in Symbols : g[s] <= f[s]
    PROVE  Numbered(kind, g) \subseteq Numbered(kind, f)
<1> SUFFICES ASSUME NEW t \in Numbered(kind, g) PROVE t \in Numbered(kind, f)
  OBVIOUS
<1>1. PICK s \in Symbols : \E n \in 1..g[s] : t = <<kind, s, n>>
  BY NumberedAre
<1>2. 1..g[s] \subseteq 1..f[s]
  OBVIOUS
<1> QED
  BY <1>1, <1>2, NumberedAre

(* A count that is raised by one numbers one more trade. *)
LEMMA NumberedGrow ==
    ASSUME NEW kind, NEW f \in [Symbols -> Nat], NEW s \in Symbols
    PROVE  /\ <<kind, s, f[s] + 1>> \notin Numbered(kind, f)
           /\ Numbered(kind, [f EXCEPT ![s] = @ + 1]) =
                  Numbered(kind, f) \union {<<kind, s, f[s] + 1>>}
<1> DEFINE t == <<kind, s, f[s] + 1>>
           g == [f EXCEPT ![s] = @ + 1]
<1>1. ASSUME t \in Numbered(kind, f) PROVE FALSE
  <2>1. PICK z \in Symbols : \E n \in 1..f[z] : t = <<kind, z, n>>
    BY <1>1, NumberedAre
  <2> QED
    BY <2>1
<1>2. /\ 1..g[s] = (1..f[s]) \union {f[s] + 1}
      /\ \A z \in Symbols : z # s => g[z] = f[z]
  OBVIOUS
<1>3. ASSUME NEW x PROVE x \in Numbered(kind, g) <=> x \in Numbered(kind, f) \/ x = t
  <2>1. x \in Numbered(kind, g) <=>
            \E z \in Symbols : \E n \in 1..g[z] : x = <<kind, z, n>>
    BY NumberedAre
  <2>2. x \in Numbered(kind, f) <=>
            \E z \in Symbols : \E n \in 1..f[z] : x = <<kind, z, n>>
    BY NumberedAre
  <2> HIDE DEF g
  <2> QED
    BY <1>2, <2>1, <2>2
<1>4. Numbered(kind, g) = Numbered(kind, f) \union {t}
  <2> HIDE DEF g, t
  <2> QED
    BY <1>3
<1> QED
  BY <1>1, <1>4

(* No trade is opened by a step that raises no count. *)
LEMMA TradesShrink ==
    ASSUME TypeOK, TypeOK',
           \A s \in Symbols : bought'[s] <= bought[s] /\ signalled'[s] <= signalled[s]
    PROVE  OpenTrades' \subseteq OpenTrades
<1>1. /\ bought \in [Symbols -> Nat] /\ bought' \in [Symbols -> Nat]
      /\ signalled \in [Symbols -> Nat] /\ signalled' \in [Symbols -> Nat]
  BY DEF TypeOK
<1>2. /\ Numbered("bought", bought') \subseteq Numbered("bought", bought)
      /\ Numbered("signalled", signalled') \subseteq Numbered("signalled", signalled)
  BY <1>1, NumberedShrink
<1>3. OpenTrades' = Numbered("bought", bought') \union Numbered("signalled", signalled')
  BY DEF OpenTrades, Numbered
<1> QED
  BY <1>2, <1>3 DEF OpenTrades

(* A trade that is recorded opens one position. *)
LEMMA TradeOpens ==
    ASSUME TypeOK, NEW s \in Symbols, IsFiniteSet(OpenTrades),
           \/ bought' = [bought EXCEPT ![s] = @ + 1] /\ signalled' = signalled
           \/ signalled' = [signalled EXCEPT ![s] = @ + 1] /\ bought' = bought
    PROVE  IsFiniteSet(OpenTrades') /\ Positions' = Positions + 1
<1>1. bought \in [Symbols -> Nat] /\ signalled \in [Symbols -> Nat]
  BY DEF TypeOK
<1>2. OpenTrades' = Numbered("bought", bought') \union Numbered("signalled", signalled')
  BY DEF OpenTrades, Numbered
<1>3. \E t : t \notin OpenTrades /\ OpenTrades' = OpenTrades \union {t}
  <2>1. CASE bought' = [bought EXCEPT ![s] = @ + 1] /\ signalled' = signalled
    <3> DEFINE t == <<"bought", s, bought[s] + 1>>
    <3>1. /\ t \notin Numbered("bought", bought)
          /\ Numbered("bought", bought') = Numbered("bought", bought) \union {t}
      BY <1>1, <2>1, NumberedGrow
    <3>2. t \notin Numbered("signalled", signalled)
      BY NumberedAre
    <3>3. t \notin OpenTrades /\ OpenTrades' = OpenTrades \union {t}
      BY <1>2, <2>1, <3>1, <3>2 DEF OpenTrades
    <3> QED
      BY <3>3
  <2>2. CASE signalled' = [signalled EXCEPT ![s] = @ + 1] /\ bought' = bought
    <3> DEFINE t == <<"signalled", s, signalled[s] + 1>>
    <3>1. /\ t \notin Numbered("signalled", signalled)
          /\ Numbered("signalled", signalled') = Numbered("signalled", signalled) \union {t}
      BY <1>1, <2>2, NumberedGrow
    <3>2. t \notin Numbered("bought", bought)
      BY NumberedAre
    <3>3. t \notin OpenTrades /\ OpenTrades' = OpenTrades \union {t}
      BY <1>2, <2>2, <3>1, <3>2 DEF OpenTrades
    <3> QED
      BY <3>3
  <2> QED
    BY <2>1, <2>2
<1> QED
  BY <1>3, FS_AddElement DEF Positions

(* What only gives up trades, orders or slots keeps the bounds. *)
LEMMA OverrunShrinks ==
    ASSUME OverrunInv, OpenTrades' \subseteq OpenTrades,
           Ordering' \subseteq Ordering, Slots' \subseteq Slots
    PROVE  OverrunInv'
<1>1. IsFiniteSet(OpenTrades) /\ IsFiniteSet(Ordering) /\ IsFiniteSet(Slots)
  BY OverrunFinite DEF OverrunInv
<1>2. /\ IsFiniteSet(OpenTrades')
      /\ Positions' <= Positions
      /\ Cardinality(Ordering') <= Cardinality(Ordering)
      /\ Cardinality(Slots') <= Cardinality(Slots)
  BY <1>1, FS_Subset DEF Positions
<1>3. /\ Positions \in Nat /\ Positions' \in Nat
      /\ Cardinality(Ordering) \in Nat /\ Cardinality(Ordering') \in Nat
      /\ Cardinality(Slots) \in Nat /\ Cardinality(Slots') \in Nat
  BY <1>1, <1>2, FS_Subset, FS_CardinalityType DEF Positions
<1>4. /\ Cardinality(Cycles) \in Nat /\ Cardinality(AllSlots) \in Nat
      /\ EngineLimit \in Nat /\ MaxPositions \in Nat
      /\ AllSlots' = AllSlots
  BY OverrunFinite, LimitsAssumption DEF AllSlots
<1> QED
  BY <1>2, <1>3, <1>4 DEF OverrunInv

(* A cycle that goes on without a trade, or ends, keeps the bounds. *)
LEMMA CycleShrinks ==
    ASSUME TypeOK, TypeOK', OverrunInv, NEW c \in Cycles,
           UNCHANGED <<bought, signalled>>,
           \A d \in Cycles \ {c} :
               pc'[d] = pc[d] /\ symbol'[d] = symbol[d] /\ buys'[d] = buys[d],
           pc'[c] # "idle" =>
               pc[c] # "idle" /\ symbol[c] <= symbol'[c] /\ buys[c] <= buys'[c],
           c \in Ordering' => c \in Ordering
    PROVE  OverrunInv'
<1>1. Ordering' \subseteq Ordering
  BY DEF Ordering
<1>2. \A d \in Cycles : pc'[d] # "idle" =>
          pc[d] # "idle" /\ symbol[d] <= symbol'[d] /\ buys[d] <= buys'[d]
  BY DEF TypeOK
<1>3. ASSUME NEW t \in BuyCycles \X (1..MaxBuys), pc'[t[1]] # "idle", buys'[t[1]] < t[2]
      PROVE  pc[t[1]] # "idle" /\ buys[t[1]] < t[2]
  <2>1. t[1] \in Cycles /\ t[2] \in Nat
    BY DEF Cycles
  <2>2. /\ pc[t[1]] # "idle" /\ buys[t[1]] <= buys'[t[1]]
        /\ buys[t[1]] \in Nat /\ buys'[t[1]] \in Nat
    BY <1>2, <1>3, <2>1, LimitsAssumption DEF TypeOK
  <2> QED
    BY <1>3, <2>1, <2>2
<1>4. ASSUME NEW t \in EvaluateCycles \X Symbols, pc'[t[1]] # "idle", symbol'[t[1]] <= t[2]
      PROVE  pc[t[1]] # "idle" /\ symbol[t[1]] <= t[2]
  <2>1. t[1] \in Cycles /\ t[2] \in Nat
    BY LimitsAssumption DEF Cycles, Symbols
  <2>2. /\ pc[t[1]] # "idle" /\ symbol[t[1]] <= symbol'[t[1]]
        /\ symbol[t[1]] \in Nat /\ symbol'[t[1]] \in Nat
    BY <1>2, <1>4, <2>1, LimitsAssumption DEF TypeOK
  <2> QED
    BY <1>4, <2>1, <2>2
<1>5. Slots' \subseteq Slots
  BY <1>3, <1>4 DEF Slots
<1>6. OpenTrades' \subseteq OpenTrades
  BY DEF OpenTrades, Numbered
<1> QED
  BY <1>1, <1>5, <1>6, OverrunShrinks

(* The three ways in which a cycle moves. *)
LEMMA MovesShrink ==
    ASSUME TypeOK, TypeOK', OverrunInv, NEW c \in Cycles,
           UNCHANGED <<bought, signalled>>
    PROVE  /\ NextCandidate(c) /\ buys' = buys /\ pc[c] # "idle" => OverrunInv'
           /\ Leave(c) => OverrunInv'
           /\ \A step \in Steps :
                 /\ Goto(c, step) /\ UNCHANGED <<symbol, buys>> /\ pc[c] # "idle"
                 /\ step \in {"counted", "send", "record"} => c \in Ordering
                 => OverrunInv'
<1>1. ASSUME NextCandidate(c), buys' = buys, pc[c] # "idle" PROVE OverrunInv'
  <2>1. /\ \A d \in Cycles \ {c} : pc'[d] = pc[d] /\ symbol'[d] = symbol[d]
        /\ pc'[c] = "scan" /\ symbol[c] <= symbol'[c] /\ buys[c] <= buys[c]
    BY <1>1, LimitsAssumption DEF NextCandidate, Goto, TypeOK
  <2>2. c \notin Ordering'
    BY <2>1 DEF Ordering
  <2> QED
    BY <1>1, <2>1, <2>2, CycleShrinks
<1>2. ASSUME Leave(c) PROVE OverrunInv'
  <2>1. /\ \A d \in Cycles \ {c} :
              pc'[d] = pc[d] /\ symbol'[d] = symbol[d] /\ buys'[d] = buys[d]
        /\ pc'[c] = "idle"
    BY <1>2 DEF Leave, Goto, TypeOK
  <2>2. c \notin Ordering'
    BY <2>1 DEF Ordering
  <2> QED
    BY <2>1, <2>2, CycleShrinks
<1>3. ASSUME NEW step \in Steps, Goto(c, step), UNCHANGED <<symbol, buys>>, pc[c] # "idle",
             step \in {"counted", "send", "record"} => c \in Ordering
      PROVE  OverrunInv'
  <2>1. /\ \A d \in Cycles \ {c} : pc'[d] = pc[d]
        /\ pc'[c] = step /\ symbol[c] <= symbol[c] /\ buys[c] <= buys[c]
    BY <1>3, LimitsAssumption DEF Goto, TypeOK
  <2>2. c \in Ordering' => c \in Ordering
    BY <1>3, <2>1 DEF Ordering
  <2> QED
    BY <1>3, <2>1, <2>2, CycleShrinks
<1> QED
  BY <1>1, <1>2, <1>3

(* A trade that is recorded takes its order and its slot with it. *)
LEMMA RecordKeepsBounds ==
    ASSUME IInv, TypeOK', OverrunInv, NEW c \in Cycles, Record(c)
    PROVE  OverrunInv'
<1> DEFINE slot == <<c, IF c \in BuyCycles THEN buys[c] + 1 ELSE symbol[c]>>
<1>1. /\ pc[c] = "record" /\ symbol[c] \in Symbols /\ TypeOK
      /\ c \in BuyCycles => buys[c] < MaxBuys
      /\ pc' = [pc EXCEPT ![c] = "scan"]
      /\ symbol' = [symbol EXCEPT ![c] = @ + 1]
  BY DEF IInv, BusyInv, Record, NextCandidate, Goto
<1>2. /\ IsFiniteSet(OpenTrades) /\ IsFiniteSet(OpenTrades')
      /\ Positions' = Positions + 1 /\ Positions \in Nat
  BY <1>1, TradeOpens, FS_CardinalityType DEF Record, CountTrade, OverrunInv, Positions
<1>3. Ordering' = Ordering \ {c} /\ c \in Ordering
  BY <1>1 DEF Ordering, TypeOK
<1>4. Cardinality(Ordering') = Cardinality(Ordering) - 1
  BY <1>3, OverrunFinite, FS_RemoveElement
<1>5. slot \in Slots
  <2>1. buys[c] \in Nat /\ MaxBuys \in Nat /\ symbol[c] \in Nat
    BY <1>1, LimitsAssumption DEF TypeOK
  <2>2. CASE c \in BuyCycles
    <3>1. slot = <<c, buys[c] + 1>> /\ buys[c] + 1 \in 1..MaxBuys
      BY <1>1, <2>1, <2>2
    <3> QED
      BY <1>1, <2>1, <2>2, <3>1 DEF Slots
  <2>3. CASE c \notin BuyCycles
    <3>1. slot = <<c, symbol[c]>> /\ c \in EvaluateCycles
      BY <2>3 DEF Cycles
    <3> QED
      BY <1>1, <2>1, <3>1 DEF Slots
  <2> QED
    BY <2>2, <2>3
<1>6. Slots' \subseteq Slots \ {slot}
  <2>1. \A d \in Cycles \ {c} : pc'[d] = pc[d] /\ symbol'[d] = symbol[d] /\ buys'[d] = buys[d]
    BY <1>1 DEF Record, CountTrade, TypeOK
  <2>2. /\ pc'[c] # "idle" /\ symbol'[c] = symbol[c] + 1
        /\ c \in BuyCycles => buys'[c] = buys[c] + 1
    BY <1>1 DEF Record, CountTrade, TypeOK
  <2>3. buys[c] \in Nat /\ symbol[c] \in Nat
    BY <1>1, LimitsAssumption DEF TypeOK
  <2>4. ASSUME NEW t \in BuyCycles \X (1..MaxBuys), pc'[t[1]] # "idle", buys'[t[1]] < t[2]
        PROVE  pc[t[1]] # "idle" /\ buys[t[1]] < t[2] /\ t # slot
    <3>1. CASE t[1] = c
      BY <3>1, <1>1, <2>2, <2>3, <2>4
    <3>2. CASE t[1] # c
      BY <3>2, <2>1, <2>4 DEF Cycles
    <3> QED
      BY <3>1, <3>2
  <2>5. ASSUME NEW t \in EvaluateCycles \X Symbols, pc'[t[1]] # "idle", symbol'[t[1]] <= t[2]
        PROVE  pc[t[1]] # "idle" /\ symbol[t[1]] <= t[2] /\ t # slot
    <3>1. CASE t[1] = c
      <4>1. c \notin BuyCycles /\ t[2] \in Nat
        BY <3>1, CyclesAssumption, LimitsAssumption DEF Symbols
      <4> QED
        BY <3>1, <4>1, <1>1, <2>2, <2>3, <2>5
    <3>2. CASE t[1] # c
      BY <3>2, <2>1, <2>5 DEF Cycles
    <3> QED
      BY <3>1, <3>2
  <2> HIDE DEF slot
  <2> QED
    BY <2>4, <2>5 DEF Slots
<1>7. Cardinality(Slots') <= Cardinality(Slots) - 1
  <2> HIDE DEF slot
  <2>1. /\ IsFiniteSet(Slots \ {slot})
        /\ Cardinality(Slots \ {slot}) = Cardinality(Slots) - 1
    BY <1>5, OverrunFinite, FS_RemoveElement
  <2> QED
    BY <1>6, <2>1, FS_Subset
<1>8. /\ Cardinality(Ordering) \in Nat /\ Cardinality(Ordering') \in Nat
      /\ Cardinality(Slots) \in Nat /\ Cardinality(Slots') \in Nat
      /\ Cardinality(Cycles) \in Nat /\ Cardinality(AllSlots) \in Nat
      /\ EngineLimit \in Nat /\ MaxPositions \in Nat /\ AllSlots' = AllSlots
  <2>1. IsFiniteSet(Slots') /\ IsFiniteSet(Ordering')
    BY <1>3, <1>6, OverrunFinite, FS_Subset, FS_RemoveElement
  <2> QED
    BY <2>1, OverrunFinite, FS_CardinalityType, LimitsAssumption DEF AllSlots
<1> HIDE DEF slot
<1> QED
  BY <1>2, <1>4, <1>7, <1>8 DEF OverrunInv

(* Every step keeps the bounds on positions. *)
LEMMA StepOverrun == IInv /\ OverrunInv /\ [Next]_vars => OverrunInv'
<1> SUFFICES ASSUME IInv, OverrunInv, [Next]_vars PROVE OverrunInv'
  OBVIOUS
<1>a. TypeOK /\ TypeOK'
  BY StepTypes DEF IInv
<1>b. UNCHANGED <<pc, symbol, buys, bought, signalled>> => OverrunInv'
  BY DEF OverrunInv, Ordering, Slots, AllSlots, Positions, OpenTrades, Numbered
<1>1. ASSUME NEW c \in Cycles, Begin(c) PROVE OverrunInv'
  <2>1. /\ pc[c] = "idle" /\ pc' = [pc EXCEPT ![c] = "scan"]
        /\ Positions < MaxPositions /\ UNCHANGED <<symbol, buys, bought, signalled>>
    BY <1>1 DEF Begin, Goto, tradeVars
  <2>2. Ordering' = Ordering /\ Positions' = Positions /\ OpenTrades' = OpenTrades
    BY <2>1, <1>a DEF Ordering, Positions, OpenTrades, Numbered, TypeOK
  <2>3. Slots' \subseteq AllSlots /\ AllSlots' = AllSlots
    BY DEF Slots, AllSlots
  <2>4. /\ IsFiniteSet(OpenTrades) /\ IsFiniteSet(Slots')
        /\ Cardinality(Slots') <= Cardinality(AllSlots)
    BY <2>3, OverrunFinite, FS_Subset DEF OverrunInv
  <2>5. /\ Positions \in Nat /\ Cardinality(Slots') \in Nat
        /\ Cardinality(AllSlots) \in Nat /\ MaxPositions \in Nat
    BY <2>4, OverrunFinite, FS_CardinalityType, LimitsAssumption DEF Positions
  <2> QED
    BY <2>1, <2>2, <2>3, <2>4, <2>5 DEF OverrunInv
<1>2. ASSUME NEW c \in Cycles, End(c) PROVE OverrunInv'
  <2>1. Leave(c) /\ UNCHANGED <<bought, signalled>>
    BY <1>2 DEF End, tradeVars
  <2> QED
    BY <2>1, <1>a, MovesShrink
<1>3. ASSUME NEW c \in Cycles, Skip(c) PROVE OverrunInv'
  <2>1. NextCandidate(c) /\ pc[c] # "idle" /\ UNCHANGED <<buys, bought, signalled>>
    BY <1>3 DEF Skip, HasCandidate, tradeVars
  <2> QED
    BY <2>1, <1>a, MovesShrink
<1>4. ASSUME NEW c \in Cycles, WriteShadow(c) PROVE OverrunInv'
  <2>1. NextCandidate(c) /\ pc[c] # "idle" /\ UNCHANGED <<buys, bought, signalled>>
    BY <1>4 DEF WriteShadow, tradeVars
  <2> QED
    BY <2>1, <1>a, MovesShrink
<1>5. ASSUME NEW c \in Cycles, Approve(c) PROVE OverrunInv'
  <2>1. /\ Goto(c, "relock") /\ UNCHANGED <<symbol, buys, bought, signalled>>
        /\ pc[c] # "idle"
    BY <1>5 DEF Approve, tradeVars
  <2> QED
    BY <2>1, <1>a, MovesShrink DEF Steps, Ordering
<1>6. ASSUME NEW c \in Cycles, Relock(c) PROVE OverrunInv'
  <2>1. /\ pc[c] # "idle" /\ UNCHANGED <<buys, bought, signalled>>
        /\ NextCandidate(c) \/ (Goto(c, "execute") /\ symbol' = symbol)
    BY <1>6 DEF Relock, tradeVars
  <2> QED
    BY <2>1, <1>a, MovesShrink DEF Steps
<1>7. ASSUME NEW c \in Cycles, EngineRefuses(c) PROVE OverrunInv'
  <2>1. NextCandidate(c) /\ pc[c] # "idle" /\ UNCHANGED <<buys, bought, signalled>>
    BY <1>7 DEF EngineRefuses, tradeVars
  <2> QED
    BY <2>1, <1>a, MovesShrink
<1>8. ASSUME NEW c \in Cycles, CountPositions(c) PROVE OverrunInv'
  <2>1. /\ pc[c] = "execute" /\ pc' = [pc EXCEPT ![c] = "counted"]
        /\ Positions < EngineLimit /\ UNCHANGED <<symbol, buys, bought, signalled>>
    BY <1>8 DEF CountPositions, Goto, tradeVars
  <2>2. Slots' = Slots /\ Positions' = Positions /\ OpenTrades' = OpenTrades
    BY <2>1, <1>a DEF Slots, Positions, OpenTrades, Numbered, TypeOK, Cycles
  <2>3. Ordering' \subseteq Cycles /\ AllSlots' = AllSlots
    BY DEF Ordering, AllSlots
  <2>4. /\ IsFiniteSet(OpenTrades) /\ IsFiniteSet(Ordering')
        /\ Cardinality(Ordering') <= Cardinality(Cycles)
    BY <2>3, CyclesAssumption, FS_Subset DEF OverrunInv
  <2>5. /\ Positions \in Nat /\ Cardinality(Ordering') \in Nat
        /\ Cardinality(Cycles) \in Nat /\ EngineLimit \in Nat
    BY <2>4, OverrunFinite, FS_CardinalityType, LimitsAssumption DEF Positions
  <2> QED
    BY <2>1, <2>2, <2>3, <2>4, <2>5 DEF OverrunInv
<1>9. ASSUME NEW c \in Cycles, AlreadyTraded(c) PROVE OverrunInv'
  <2>1. NextCandidate(c) /\ pc[c] # "idle" /\ UNCHANGED <<buys, bought, signalled>>
    BY <1>9 DEF AlreadyTraded, tradeVars
  <2> QED
    BY <2>1, <1>a, MovesShrink
<1>10. ASSUME NEW c \in Cycles, Place(c) PROVE OverrunInv'
  <2>1. /\ Goto(c, IF live THEN "send" ELSE "record") /\ UNCHANGED <<symbol, buys, bought, signalled>>
        /\ pc[c] # "idle" /\ c \in Ordering
    BY <1>10 DEF Place, tradeVars, Ordering
  <2> QED
    BY <2>1, <1>a, MovesShrink DEF Steps, Ordering
<1>11. ASSUME NEW c \in Cycles, OrderAccepted(c) PROVE OverrunInv'
  <2>1. /\ Goto(c, "record") /\ UNCHANGED <<symbol, buys, bought, signalled>>
        /\ pc[c] # "idle" /\ c \in Ordering
    BY <1>11 DEF OrderAccepted, tradeVars, Ordering
  <2> QED
    BY <2>1, <1>a, MovesShrink DEF Steps, Ordering
<1>12. ASSUME NEW c \in Cycles, OrderRefused(c) PROVE OverrunInv'
  <2>1. NextCandidate(c) /\ pc[c] # "idle" /\ UNCHANGED <<buys, bought, signalled>>
    BY <1>12 DEF OrderRefused, GiveUp, tradeVars
  <2> QED
    BY <2>1, <1>a, MovesShrink
<1>13. ASSUME NEW c \in Cycles, OrderUnanswered(c) PROVE OverrunInv'
  <2>1. /\ pc[c] # "idle" /\ UNCHANGED <<buys, bought, signalled>>
        /\ NextCandidate(c) \/ UNCHANGED <<pc, symbol>>
    BY <1>13 DEF OrderUnanswered, GiveUp
  <2> QED
    BY <2>1, <1>a, <1>b, MovesShrink
<1>14. ASSUME NEW c \in Cycles, Record(c) PROVE OverrunInv'
  BY <1>14, <1>a, RecordKeepsBounds
<1>15. ASSUME NEW c \in Cycles, RecordFails(c) PROVE OverrunInv'
  <2>1. NextCandidate(c) /\ pc[c] # "idle" /\ UNCHANGED <<buys, bought, signalled>>
    BY <1>15 DEF RecordFails, tradeVars
  <2> QED
    BY <2>1, <1>a, MovesShrink
<1>16. ASSUME NEW c \in Cycles, Abort(c) PROVE OverrunInv'
  <2>1. Leave(c) /\ UNCHANGED <<bought, signalled>>
    BY <1>16 DEF Abort, tradeVars
  <2> QED
    BY <2>1, <1>a, MovesShrink
<1>17. ASSUME NEW c \in Cycles, Killed(c) PROVE OverrunInv'
  <2>1. Leave(c) /\ UNCHANGED <<bought, signalled>>
    BY <1>17 DEF Killed, tradeVars
  <2> QED
    BY <2>1, <1>a, MovesShrink
<1>18. ASSUME NEW c \in Cycles, NEW p \in Profiles, SkipWithShadow(c, p) PROVE OverrunInv'
  <2>1. /\ Goto(c, "skip") /\ UNCHANGED <<symbol, buys, bought, signalled>>
        /\ pc[c] # "idle"
    BY <1>18 DEF SkipWithShadow, tradeVars, HasCandidate
  <2> QED
    BY <2>1, <1>a, MovesShrink DEF Steps, Ordering
<1>19. ASSUME NEW c \in Cycles, NEW p \in Profiles, LockProfile(c, p) PROVE OverrunInv'
  <2>1. /\ pc[c] # "idle" /\ UNCHANGED <<symbol, buys, bought, signalled>>
        /\ Goto(c, "execute") \/ Goto(c, "approved")
    BY <1>19 DEF LockProfile, Checked, HasCandidate, tradeVars
  <2> QED
    BY <2>1, <1>a, MovesShrink DEF Steps
<1>20. ASSUME NEW c \in Cycles, NEW p \in Profiles, ProfileInactive(c, p) PROVE OverrunInv'
  <2>1. NextCandidate(c) /\ pc[c] # "idle" /\ UNCHANGED <<buys, bought, signalled>>
    BY <1>20 DEF ProfileInactive, Checked, HasCandidate, tradeVars
  <2> QED
    BY <2>1, <1>a, MovesShrink
<1>21. ASSUME NEW p \in Profiles, SetStatus(p) PROVE OverrunInv'
  BY <1>21, <1>b DEF SetStatus, tradeVars, cycleVars
<1>22. ASSUME NEW s \in Symbols, Close(s) PROVE OverrunInv'
  <2>1. /\ UNCHANGED <<pc, symbol, buys>>
        /\ \A z \in Symbols : bought'[z] <= bought[z] /\ signalled'[z] <= signalled[z]
    BY <1>22, <1>a DEF Close, cycleVars, TypeOK
  <2>2. OpenTrades' \subseteq OpenTrades
    BY <2>1, <1>a, TradesShrink
  <2>3. Ordering' \subseteq Ordering /\ Slots' \subseteq Slots
    BY <2>1 DEF Ordering, Slots
  <2> QED
    BY <2>2, <2>3, OverrunShrinks
<1>23. ASSUME NEW s \in Symbols, CooldownEnds(s) PROVE OverrunInv'
  BY <1>23, <1>b DEF CooldownEnds, cycleVars
<1>24. CASE UNCHANGED vars
  BY <1>24, <1>b DEF vars, tradeVars, cycleVars
<1>25. ASSUME NEW c \in Cycles, CheckSymbol(c) PROVE OverrunInv'
  <2>1. /\ Goto(c, "checked") /\ UNCHANGED <<symbol, buys, bought, signalled>>
        /\ pc[c] # "idle"
    BY <1>25 DEF CheckSymbol, tradeVars
  <2> QED
    BY <2>1, <1>a, MovesShrink DEF Steps, Ordering
<1> QED
  BY <1>1, <1>2, <1>3, <1>4, <1>5, <1>6, <1>7, <1>8, <1>9, <1>10, <1>11,
     <1>12, <1>13, <1>14, <1>15, <1>16, <1>17, <1>18, <1>19, <1>20,
     <1>21, <1>22, <1>23, <1>24, <1>25, StepCases

-----------------------------------------------------------------------------
(* The theorems. *)

(* The inductive invariant holds in every reachable state. *)
THEOREM Invariance == Spec => []IInv
<1>1. IInv /\ [Next]_vars => IInv'
  BY StepTypes, StepNoLateOrder, StepAdvisory, StepBooks DEF IInv
<1> QED
  BY InitInv, <1>1, PTL DEF Spec

(* Every variable keeps its type, whatever is refused, lost or killed. *)
THEOREM TypeCorrect == Spec => []TypeOK
<1>1. IInv => TypeOK
  BY DEF IInv
<1> QED
  BY Invariance, <1>1, PTL

(* No order is sent or recorded for a profile that has been switched off *)
(* (execute_trade between the row lock and the commit). *)
THEOREM OrdersUnderActiveProfile == Spec => []NoLateOrder
<1>1. IInv => NoLateOrder
  BY DEF IInv
<1> QED
  BY Invariance, <1>1, PTL

(* Under consolidation buy cycles share no symbol: neither two trades nor a *)
(* trade and an order under way (the advisory lock of execute_trade). *)
THEOREM AtMostOneTrade == Spec => []OneTradePerSymbol
<1>1. IInv => OneTradePerSymbol
  <2> SUFFICES ASSUME IInv, single, NEW s \in Symbols
               PROVE  bought[s] + Cardinality({c \in BuyCycles : HasAdvisory(c, s)}) <= 1
    BY DEF OneTradePerSymbol
  <2> DEFINE Holders == {c \in BuyCycles : HasAdvisory(c, s)}
  <2>1. bought[s] \in Nat /\ bought[s] <= 1
    BY DEF IInv, TypeOK, AdvisoryInv
  <2>2. CASE Holders = {}
    BY <2>1, <2>2, FS_EmptySet
  <2>3. CASE Holders # {}
    <3>1. PICK c \in BuyCycles : HasAdvisory(c, s)
      BY <2>3
    <3>2. bought[s] = 0 /\ \A d \in Cycles : HasAdvisory(d, s) => d = c
      BY <3>1 DEF IInv, AdvisoryInv, Cycles
    <3>3. Holders = {c}
      BY <3>1, <3>2 DEF Cycles
    <3>4. Cardinality(Holders) = 1
      BY <3>3, FS_Singleton
    <3> QED
      BY <3>2, <3>4
  <2> QED
    BY <2>2, <2>3
<1> QED
  BY Invariance, <1>1, PTL

(* An order without a trade is one that is being recorded, or a fault: the *)
(* engine never returns past an order it has placed. *)
THEOREM EveryOrderIsBooked == Spec => []OrdersAreBooked
<1>1. IInv => OrdersAreBooked
  BY DEF IInv, BooksInv, OrdersAreBooked, Recording
<1> QED
  BY Invariance, <1>1, PTL

(* Neither limit on positions is kept, and neither is overrun without bound:*)
(* the engine's by less than one position for each cycle, the cycle's by    *)
(* less than what all cycles may place (can_open_new_position before the    *)
(* loop, the count of execute_trade before the order). *)
THEOREM LimitsOverrunIsBounded == Spec => []OverrunIsBounded
<1>1. Init => OverrunInv
  <2> SUFFICES ASSUME Init PROVE OverrunInv
    OBVIOUS
  <2>1. Ordering = {} /\ Slots = {}
    BY DEF Init, Ordering, Slots, Cycles
  <2>2. OpenTrades = {}
    <3>1. \A t : t \notin Numbered("bought", bought) /\ t \notin Numbered("signalled", signalled)
      BY NumberedAre DEF Init
    <3> QED
      BY <3>1 DEF OpenTrades
  <2> QED
    BY <2>1, <2>2, FS_EmptySet DEF OverrunInv, Positions
<1>2. OverrunInv => OverrunIsBounded
  <2> SUFFICES ASSUME OverrunInv, Positions > 0 PROVE OverrunIsBounded
    BY DEF OverrunIsBounded
  <2>1. /\ Positions \in Nat /\ Cardinality(Ordering) \in Nat
        /\ Cardinality(Slots) \in Nat
        /\ Cardinality(Cycles) \in Nat /\ Cardinality(AllSlots) \in Nat
        /\ EngineLimit \in Nat /\ MaxPositions \in Nat
    BY OverrunFinite, FS_CardinalityType, LimitsAssumption DEF OverrunInv, Positions
  <2>2. /\ Positions < EngineLimit + Cardinality(Cycles)
        /\ Positions < MaxPositions + Cardinality(AllSlots)
    BY <2>1 DEF OverrunInv
  <2>3. /\ Cardinality(BuyCycles) * MaxBuys \in Nat
        /\ Cardinality(EvaluateCycles) * Candidates \in Nat
    <3>1. Cardinality(BuyCycles) \in Nat /\ Cardinality(EvaluateCycles) \in Nat
      BY CyclesAssumption, FS_Subset, FS_CardinalityType DEF Cycles
    <3> QED
      BY <3>1, LimitsAssumption
  <2> DEFINE b == Cardinality(BuyCycles) * MaxBuys
             e == Cardinality(EvaluateCycles) * Candidates
  <2>4. Cardinality(AllSlots) = b + e
    BY AllSlotsCount
  <2>5. b \in Nat /\ e \in Nat
    BY <2>3
  <2>6. Positions < MaxPositions + b + e
    <3> HIDE DEF b, e
    <3> QED
      BY <2>1, <2>2, <2>4, <2>5
  <2> QED
    BY <2>2, <2>6 DEF OverrunIsBounded
<1>3. IInv /\ OverrunInv /\ [Next]_vars => OverrunInv'
  BY StepOverrun
<1> QED
  BY Invariance, <1>1, <1>2, <1>3, PTL DEF Spec
=============================================================================
