--------------------------- MODULE SetGlobProofs ---------------------------
(***************************************************************************)
(* Safety of the SETGLOB protocol for any finite set of goroutines and any *)
(* nesting: the counter is exact, no goroutine waits for the mutex it      *)
(* holds, and every unlock is done by the holder.                          *)
(***************************************************************************)
EXTENDS SetGlob, FiniteSetTheorems, TLAPS

(* A statement that acquired the mutex is open. *)
AcquiredOpen == \A g \in Goroutines : acquired[g] \subseteq 1..depth[g]

(* Only the first open statement of the whole program acquired. *)
OneAcquirer ==
  \A g, h \in Goroutines :
    \A i \in acquired[g], j \in acquired[h] : g = h /\ i = j

(* The program counter tells whether a statement is open, and whether     *)
(* sglock may be held.                                                    *)
PcAgrees ==
  \A g \in Goroutines :
    /\ pc[g] = "idle" <=> depth[g] = 0
    /\ pc[g] = "lock" => depth[g] \in acquired[g]
    /\ sglock = g => \E i \in acquired[g] : i < depth[g] \/ pc[g] = "eval"

IInv ==
  /\ TypeOK
  /\ DepthMatchesOpen
  /\ AcquiredOpen
  /\ OneAcquirer
  /\ PcAgrees
  /\ AcquirerHolds

-----------------------------------------------------------------------------

LEMMA OpenFramesFinite == TypeOK => IsFiniteSet(OpenFrames)
<1> SUFFICES ASSUME TypeOK PROVE IsFiniteSet(OpenFrames)
  OBVIOUS
<1>1. IsFiniteSet(1..MaxNest)
  BY FS_Interval, SetGlobAssumption
<1>2. IsFiniteSet(Goroutines \X Level)
  BY <1>1, FS_Product, SetGlobAssumption DEF Level
<1>3. OpenFrames \subseteq Goroutines \X Level
  BY DEF OpenFrames
<1> QED BY <1>2, <1>3, FS_Subset

(* A goroutine with an open statement has a frame, so the counter is not 0. *)
LEMMA ZeroMeansNoneOpen ==
  ASSUME TypeOK, DepthMatchesOpen, has_global_lock = 0
  PROVE  \A g \in Goroutines : depth[g] = 0
<1>1. OpenFrames = {}
  BY OpenFramesFinite, FS_EmptySet DEF DepthMatchesOpen
<1> SUFFICES ASSUME NEW g \in Goroutines, depth[g] # 0 PROVE FALSE
  OBVIOUS
<1>2. depth[g] \in 1..MaxNest
  BY SetGlobAssumption DEF TypeOK
<1>3. <<g, depth[g]>> \in OpenFrames
  BY <1>2 DEF OpenFrames, Level
<1> QED BY <1>1, <1>3

LEMMA InitIInv == Init => IInv
<1> SUFFICES ASSUME Init PROVE IInv
  OBVIOUS
<1>1. OpenFrames = {}
  BY SetGlobAssumption DEF Init, OpenFrames, Level
<1>2. DepthMatchesOpen
  BY <1>1, FS_EmptySet DEF Init, DepthMatchesOpen
<1>3. TypeOK /\ AcquiredOpen /\ OneAcquirer /\ PcAgrees /\ AcquirerHolds
  BY SetGlobAssumption
  DEF Init, TypeOK, Level, AcquiredOpen, OneAcquirer, PcAgrees, AcquirerHolds
<1> QED BY <1>2, <1>3 DEF IInv

(* Begin opens one more frame, and acquires only when none was open. *)
LEMMA BeginIInv ==
  ASSUME IInv, NEW g \in Goroutines, Begin(g) PROVE IInv'
<1> USE DEF IInv
<1>1. TypeOK'
  BY SetGlobAssumption DEF TypeOK, Begin, Level
<1>2. depth[g] + 1 \in Level /\ depth'[g] = depth[g] + 1
  BY SetGlobAssumption DEF TypeOK, Begin, Level
<1>3. OpenFrames' = OpenFrames \cup {<<g, depth[g] + 1>>}
  BY <1>2, SetGlobAssumption DEF TypeOK, Begin, OpenFrames, Level
<1>4. <<g, depth[g] + 1>> \notin OpenFrames
  BY DEF OpenFrames, TypeOK
<1>5. Cardinality(OpenFrames') = Cardinality(OpenFrames) + 1
  BY <1>3, <1>4, OpenFramesFinite, FS_AddElement
<1>6. DepthMatchesOpen'
  BY <1>5 DEF DepthMatchesOpen, Begin
<1>7. CASE has_global_lock = 0
  <2>1. \A h \in Goroutines : depth[h] = 0 /\ acquired[h] = {}
    BY <1>7, ZeroMeansNoneOpen DEF AcquiredOpen, TypeOK
  <2>2. acquired' = [acquired EXCEPT ![g] = {1}] /\ pc' = [pc EXCEPT ![g] = "lock"]
    BY <1>7, <2>1 DEF Begin, TypeOK
  <2>3. \A h \in Goroutines : acquired'[h] = IF h = g THEN {1} ELSE {}
    BY <2>1, <2>2 DEF TypeOK
  <2>4. depth'[g] = 1 /\ \A h \in Goroutines : h # g => depth'[h] = depth[h]
    BY <2>1, <1>2 DEF Begin, TypeOK
  <2>5. AcquiredOpen' /\ OneAcquirer'
    BY <2>3, <2>4 DEF AcquiredOpen, OneAcquirer
  <2>6. \A h \in Goroutines : sglock # h
    BY <2>1 DEF PcAgrees
  <2>7. PcAgrees'
    BY <2>1, <2>2, <2>3, <2>4, <2>6 DEF PcAgrees, TypeOK, Begin
  <2>8. AcquirerHolds'
    BY <2>2, <2>3, <2>4 DEF AcquirerHolds, TypeOK
  <2> QED BY <1>1, <1>6, <2>5, <2>7, <2>8
<1>8. CASE has_global_lock # 0
  <2>1. UNCHANGED <<acquired, sglock>> /\ pc' = [pc EXCEPT ![g] = "eval"]
    BY <1>8 DEF Begin
  <2>2. AcquiredOpen' /\ OneAcquirer'
    BY <2>1, <1>2 DEF AcquiredOpen, OneAcquirer, TypeOK, Begin
  <2>3. PcAgrees'
    BY <2>1, <1>2 DEF PcAgrees, AcquiredOpen, TypeOK, Begin
  <2>4. AcquirerHolds'
    BY <2>1, <1>2 DEF AcquirerHolds, AcquiredOpen, PcAgrees, TypeOK, Begin
  <2> QED BY <1>1, <1>6, <2>2, <2>3, <2>4
<1> QED BY <1>7, <1>8

(* Lock makes the first acquirer the holder. *)
LEMMA LockIInv ==
  ASSUME IInv, NEW g \in Goroutines, Lock(g) PROVE IInv'
<1> USE DEF IInv
<1>1. TypeOK'
  BY DEF TypeOK, Lock
<1>2. DepthMatchesOpen' /\ AcquiredOpen' /\ OneAcquirer'
  BY DEF Lock, DepthMatchesOpen, OpenFrames, AcquiredOpen, OneAcquirer
<1>3. depth[g] \in acquired[g]
  BY DEF Lock, PcAgrees
<1>4. PcAgrees'
  BY <1>3, SetGlobAssumption DEF Lock, PcAgrees, TypeOK
<1>5. AcquirerHolds'
  BY <1>3 DEF Lock, AcquirerHolds, OneAcquirer, TypeOK
<1> QED BY <1>1, <1>2, <1>4, <1>5

(* Release frees the mutex exactly when this statement took it. *)
LEMMA ReleaseIInv ==
  ASSUME IInv, NEW g \in Goroutines, Release(g) PROVE IInv'
<1> USE DEF IInv
<1>1. TypeOK'
  BY DEF TypeOK, Release
<1>2. DepthMatchesOpen' /\ AcquiredOpen' /\ OneAcquirer'
  BY DEF Release, DepthMatchesOpen, OpenFrames, AcquiredOpen, OneAcquirer
<1>3. CASE depth[g] \in acquired[g]
  <2>1. sglock' = Nobody
    BY <1>3 DEF Release
  <2>2. PcAgrees'
    BY <2>1, SetGlobAssumption DEF Release, PcAgrees, TypeOK
  <2>3. AcquirerHolds'
    BY <1>3 DEF Release, AcquirerHolds, OneAcquirer, TypeOK
  <2> QED BY <1>1, <1>2, <2>2, <2>3
<1>4. CASE depth[g] \notin acquired[g]
  <2>1. sglock' = sglock
    BY <1>4 DEF Release
  <2>2. PcAgrees'
    BY <1>4, <2>1 DEF Release, PcAgrees, AcquiredOpen, TypeOK
  <2>3. AcquirerHolds'
    BY <1>4, <2>1 DEF Release, AcquirerHolds, TypeOK
  <2> QED BY <1>1, <1>2, <2>2, <2>3
<1> QED BY <1>3, <1>4

(* Leave closes the innermost frame of the goroutine. *)
LEMMA LeaveIInv ==
  ASSUME IInv, NEW g \in Goroutines, Leave(g) PROVE IInv'
<1> USE DEF IInv
<1>1. depth[g] \in 1..MaxNest /\ depth'[g] = depth[g] - 1
  BY SetGlobAssumption DEF Leave, TypeOK, PcAgrees
<1>2. OpenFrames' = OpenFrames \ {<<g, depth[g]>>}
  BY <1>1, SetGlobAssumption DEF TypeOK, Leave, OpenFrames, Level
<1>3. <<g, depth[g]>> \in OpenFrames
  BY <1>1 DEF OpenFrames, Level
<1>4. Cardinality(OpenFrames') = Cardinality(OpenFrames) - 1
  BY <1>2, <1>3, OpenFramesFinite, FS_RemoveElement
<1>5. Cardinality(OpenFrames) \in Nat /\ Cardinality(OpenFrames') \in Nat
  BY <1>2, OpenFramesFinite, FS_RemoveElement, FS_CardinalityType
<1>6. has_global_lock' = Cardinality(OpenFrames')
  BY <1>4, <1>5 DEF DepthMatchesOpen, Leave
<1>7. TypeOK' /\ DepthMatchesOpen'
  BY <1>1, <1>5, <1>6, SetGlobAssumption DEF TypeOK, DepthMatchesOpen, Leave, Level
<1>8. AcquiredOpen' /\ OneAcquirer'
  BY <1>1 DEF Leave, AcquiredOpen, OneAcquirer, TypeOK
<1>9. PcAgrees'
  <2> SUFFICES ASSUME NEW h \in Goroutines
               PROVE  /\ pc'[h] = "idle" <=> depth'[h] = 0
                      /\ pc'[h] = "lock" => depth'[h] \in acquired'[h]
                      /\ sglock' = h => \E i \in acquired'[h] :
                                          i < depth'[h] \/ pc'[h] = "eval"
    BY DEF PcAgrees
  <2>1. CASE h # g
    BY <2>1 DEF Leave, PcAgrees, TypeOK
  <2>2. CASE h = g
    <3>1. pc'[g] = (IF depth[g] = 1 THEN "idle" ELSE "eval")
      BY DEF Leave, TypeOK
    <3>2. ASSUME sglock = g
          PROVE  \E i \in acquired'[g] : i < depth'[g] \/ pc'[g] = "eval"
      <4>1. PICK i \in acquired[g] : i < depth[g] \/ pc[g] = "eval"
        BY <3>2 DEF PcAgrees
      <4>2. i < depth[g] /\ i \in 1..depth[g]
        BY <4>1 DEF Leave, AcquiredOpen
      <4>3. i \in acquired'[g] /\ depth[g] # 1
        BY <4>1, <4>2, <1>1 DEF Leave, TypeOK
      <4> QED BY <4>3, <3>1
    <3> QED BY <2>2, <3>1, <3>2, <1>1 DEF Leave
  <2> QED BY <2>1, <2>2
<1>10. AcquirerHolds'
  BY <1>1 DEF Leave, AcquirerHolds, AcquiredOpen, TypeOK
<1> QED BY <1>7, <1>8, <1>9, <1>10

LEMMA WinchIInv ==
  ASSUME IInv, WinchLock \/ WinchUnlock PROVE IInv'
<1> USE DEF IInv
<1>1. TypeOK' /\ DepthMatchesOpen' /\ AcquiredOpen' /\ OneAcquirer'
  BY DEF WinchLock, WinchUnlock, TypeOK, DepthMatchesOpen, OpenFrames,
         AcquiredOpen, OneAcquirer
<1>2. PcAgrees'
  BY SetGlobAssumption DEF WinchLock, WinchUnlock, PcAgrees
<1>3. AcquirerHolds'
  BY SetGlobAssumption DEF WinchLock, WinchUnlock, AcquirerHolds
<1> QED BY <1>1, <1>2, <1>3

LEMMA NextIInv == IInv /\ [Next]_vars => IInv'
<1> SUFFICES ASSUME IInv, [Next]_vars PROVE IInv'
  OBVIOUS
<1>1. ASSUME NEW g \in Goroutines, Begin(g) \/ Step(g) PROVE IInv'
  BY <1>1, BeginIInv, LockIInv, ReleaseIInv, LeaveIInv DEF Step
<1>2. CASE WinchLock \/ WinchUnlock
  BY <1>2, WinchIInv
<1>3. CASE UNCHANGED vars
  BY <1>3 DEF IInv, vars, TypeOK, DepthMatchesOpen, OpenFrames, AcquiredOpen,
              OneAcquirer, PcAgrees, AcquirerHolds
<1> QED BY <1>1, <1>2, <1>3 DEF Next

LEMMA Inductive == Spec => []IInv
  BY InitIInv, NextIInv, PTL DEF Spec

-----------------------------------------------------------------------------

(* The types of the counter, the mutex and the program counters hold for  *)
(* every number of goroutines and every depth of nesting.                 *)
THEOREM TypeCorrect == Spec => []TypeOK
<1>1. IInv => TypeOK
  BY DEF IInv
<1> QED BY Inductive, <1>1, PTL

(* has_global_lock always counts the open SETGLOB statements: no path     *)
(* through C_SetGlob loses or repeats a decrement.                        *)
THEOREM CounterExact == Spec => []DepthMatchesOpen
<1>1. IInv => DepthMatchesOpen
  BY DEF IInv
<1> QED BY Inductive, <1>1, PTL

(* A goroutine never waits in sglock.Lock() for the mutex it holds: a     *)
(* SETGLOB reached from the right-hand side of another does not deadlock. *)
THEOREM ReentrantSafe == Spec => []NoSelfDeadlock
<1>1. IInv => NoSelfDeadlock
  <2> SUFFICES ASSUME IInv, NEW g \in Goroutines, pc[g] = "lock", sglock = g
               PROVE  FALSE
    BY DEF NoSelfDeadlock
  <2>1. PICK i \in acquired[g] : i < depth[g] \/ pc[g] = "eval"
    BY DEF IInv, PcAgrees
  <2>2. depth[g] \in acquired[g]
    BY DEF IInv, PcAgrees
  <2>3. i = depth[g]
    BY <2>1, <2>2 DEF IInv, OneAcquirer
  <2> QED BY <2>1, <2>3 DEF IInv, TypeOK
<1> QED BY Inductive, <1>1, PTL

(* Every sglock.Unlock() of a SETGLOB is executed by the holder. *)
THEOREM UnlockByHolder == Spec => []AcquirerHolds
<1>1. IInv => AcquirerHolds
  BY DEF IInv
<1> QED BY Inductive, <1>1, PTL
=============================================================================
