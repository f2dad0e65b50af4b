------------------------- MODULE LooperPause_proofs --------------------------
(***************************************************************************)
(* Theorems about SELooper: no continue is lost, and the bound on how far  *)
(* a pause is overrun, for any finite set of callers.                      *)
(*                                                                         *)
(* The invariant of the bound is a budget: while the looper is paused, the *)
(* iterations already begun, the signals that can still wake the worker,   *)
(* and the one iteration it may be on its way to, never exceed the bound   *)
(* together.                                                               *)
(***************************************************************************)
EXTENDS LooperPause, FiniteSetTheorems, TLAPS

-----------------------------------------------------------------------------
(* The looper, for any set of calling threads.                             *)

\* A step of the looper keeps the types.
LEMMA TypeStep == TypeOK /\ Next => TypeOK'
<1> USE DEF TypeOK, States, Locations
<1> SUFFICES ASSUME TypeOK, Next PROVE TypeOK'
  OBVIOUS
<1>1. CASE Execute
  BY <1>1 DEF Execute
<1>2. CASE Worker
  BY <1>2 DEF Worker, Iterate, CheckPause, Wake, CheckAbort
<1>3. ASSUME NEW c \in Callers, Pause(c) \/ Continue(c) \/ Abort(c) \/ Signal(c)
      PROVE  TypeOK'
  BY <1>3 DEF Pause, Continue, Abort, Leave, Signal
<1>4. QED
  BY <1>1, <1>2, <1>3 DEF Next

\* The variables keep their types (TypeOK, the ivars of SELooper).
THEOREM TypeCorrect == Spec => []TypeOK
<1> USE DEF States, Locations
<1>1. Init => TypeOK
  BY DEF Init, TypeOK
<1>2. TypeOK /\ [Next]_vars => TypeOK'
  <2>1. TypeOK /\ UNCHANGED vars => TypeOK'
    BY DEF TypeOK, vars
  <2>2. QED
    BY <2>1, TypeStep
<1>3. QED
  BY <1>1, <1>2, PTL DEF Spec

\* No continue or abort is lost on a waiting worker (SELooper.m:56-76, 97-100).
THEOREM ContinueNotLost == Spec => []NoLostContinue
<1> USE DEF NoLostContinue, SignalPending
<1>1. Init => NoLostContinue
  BY DEF Init
<1>2. TypeOK /\ NoLostContinue /\ [Next]_vars => NoLostContinue'
  <2> SUFFICES ASSUME TypeOK, NoLostContinue, [Next]_vars
               PROVE  NoLostContinue'
    OBVIOUS
  <2>1. CASE Execute
    BY <2>1 DEF Execute
  <2>2. CASE Worker
    \* the worker starts to wait only when it sees a pause
    BY <2>2 DEF Worker, Iterate, CheckPause, Wake, CheckAbort
  <2>3. ASSUME NEW c \in Callers, Pause(c)
        PROVE  NoLostContinue'
    BY <2>3 DEF Pause
  <2>4. ASSUME NEW c \in Callers, Continue(c) \/ Abort(c)
        PROVE  NoLostContinue'
    <3>1. CASE state = "Pause"
      \* the caller itself is about to signal
      <4>1. call'[c] = "signal"
        BY <2>4, <3>1 DEF Continue, Abort, Leave, TypeOK
      <4>2. QED
        BY <4>1
    <3>2. CASE state # "Pause"
      <4>1. \A d \in Callers : call'[d] = call[d]
        BY <2>4, <3>2 DEF Continue, Abort, Leave, MayCall, TypeOK
      <4>2. UNCHANGED <<continueSemaphore, pc>>
        BY <2>4 DEF Continue, Abort, Leave
      <4>3. QED
        BY <3>2, <4>1, <4>2
    <3>3. QED
      BY <3>1, <3>2
  <2>5. ASSUME NEW c \in Callers, Signal(c)
        PROVE  NoLostContinue'
    BY <2>5 DEF Signal
  <2>6. CASE UNCHANGED vars
    BY <2>6 DEF vars
  <2>7. QED
    BY <2>1, <2>2, <2>3, <2>4, <2>5, <2>6 DEF Next
<1>3. QED
  BY <1>1, <1>2, TypeCorrect, PTL DEF Spec

-----------------------------------------------------------------------------
(* The overrun of a pause.                                                 *)

PendingCallers == {c \in Callers : call[c] = "signal"}

Ahead == IF pc \in {"iterate", "checkAbort"} THEN 1 ELSE 0

Budget == overrun + continueSemaphore + Cardinality(PendingCallers) + Ahead

PauseInv ==
  /\ TypeOK
  /\ overrun \in 0..OverrunBound
  /\ state = "Pause" => Budget <= OverrunBound

\* The number of pending callers is a natural number, no larger than Callers.
LEMMA PendingType ==
  /\ IsFiniteSet(PendingCallers)
  /\ Cardinality(PendingCallers) \in Nat
  /\ Cardinality(Callers) \in Nat
  /\ Cardinality(PendingCallers) <= Cardinality(Callers)
<1>1. PendingCallers \in SUBSET Callers
  BY DEF PendingCallers
<1>2. QED
  BY <1>1, CallersFinite, FS_Subset, FS_CardinalityType

\* A caller that is not pending leaves room for itself.
LEMMA PendingRoom ==
  ASSUME NEW c \in Callers, call[c] # "signal"
  PROVE  Cardinality(PendingCallers) + 1 <= Cardinality(Callers)
<1>1. PendingCallers \cup {c} \in SUBSET Callers /\ c \notin PendingCallers
  BY DEF PendingCallers
<1>2. Cardinality(PendingCallers \cup {c}) = Cardinality(PendingCallers) + 1
  BY <1>1, PendingType, FS_AddElement
<1>3. QED
  BY <1>1, <1>2, CallersFinite, FS_Subset

\* The sum under the budget, when a signal becomes a step of the worker.
LEMMA SpendSignal ==
  ASSUME NEW o \in Nat, NEW p \in Nat, NEW b \in Nat,
         NEW k \in 0..1, NEW a \in 0..1, NEW k1 \in 0..1, NEW a1 \in 0..1,
         k1 + a1 <= k + a, o + k + p + a <= b
  PROVE  o + k1 + p + a1 <= b
OBVIOUS

\* The invariant holds initially.
LEMMA PauseInvInit == PauseInit => PauseInv
<1> SUFFICES ASSUME PauseInit PROVE PauseInv
  OBVIOUS
<1>1. TypeOK
  BY DEF PauseInit, Init, TypeOK, States, Locations
<1>2. QED
  BY <1>1, PendingType DEF PauseInit, Init, PauseInv, OverrunBound

\* Every step keeps within the budget.
LEMMA PauseInvStep == PauseInv /\ [PauseNext]_pauseVars => PauseInv'
<1> SUFFICES ASSUME PauseInv, [PauseNext]_pauseVars
             PROVE  PauseInv'
  OBVIOUS
<1> USE DEF PauseInv
<1>1. CASE UNCHANGED pauseVars
  BY <1>1 DEF pauseVars, vars, TypeOK, Budget, PendingCallers, Ahead, OverrunBound
<1>2. CASE PauseNext
  <2>1. TypeOK'
    BY <1>2, TypeStep DEF PauseNext
  <2> DEFINE P == Cardinality(PendingCallers)
  <2>2. P \in Nat /\ P <= Cardinality(Callers) /\ Cardinality(Callers) \in Nat
    BY PendingType
  <2>3. overrun' \in 0..OverrunBound
    <3>1. CASE state # "Pause"
      BY <3>1, <2>2, <1>2 DEF PauseNext, Observe, OverrunBound
    <3>2. CASE state = "Pause" /\ BeginsIteration
      <4>1. overrun + 1 <= OverrunBound
        BY <3>2, <2>2 DEF BeginsIteration, Budget, Ahead, TypeOK, OverrunBound
      <4>2. overrun' = overrun + 1
        BY <3>2, <4>1, <2>2, <1>2 DEF PauseNext, Observe, OverrunBound
      <4>3. QED
        BY <4>1, <4>2, <2>2 DEF OverrunBound
    <3>3. CASE state = "Pause" /\ ~BeginsIteration
      BY <3>3, <1>2 DEF PauseNext, Observe
    <3>4. QED
      BY <3>1, <3>2, <3>3
  <2>4. ASSUME state' = "Pause" PROVE Budget' <= OverrunBound
    <3>1. CASE Execute
      BY <3>1, <2>4 DEF Execute
    <3>2. CASE Worker
      <4>1. state = "Pause" /\ call' = call
        BY <3>2, <2>4 DEF Worker, Iterate, CheckPause, Wake, CheckAbort
      <4>2. PendingCallers' = PendingCallers
        BY <4>1 DEF PendingCallers
      <4>3. CASE Iterate
        <5>1. BeginsIteration
          BY <4>3 DEF Iterate, BeginsIteration
        <5>2. overrun + 1 <= OverrunBound
          BY <4>1, <4>3, <2>2 DEF Iterate, Budget, Ahead, TypeOK, OverrunBound
        <5>3. overrun' = overrun + 1
          BY <5>1, <5>2, <4>1, <2>2, <1>2 DEF PauseNext, Observe, OverrunBound
        <5>4. QED
          BY <5>3, <4>1, <4>2, <4>3, <2>2 DEF Iterate, Budget, Ahead, TypeOK, OverrunBound
      <4>4. CASE CheckPause \/ Wake \/ CheckAbort
        <5>1. ~BeginsIteration
          BY <4>4 DEF CheckPause, Wake, CheckAbort, BeginsIteration
        <5>2. overrun' = overrun
          BY <5>1, <4>1, <1>2 DEF PauseNext, Observe
        <5>3. continueSemaphore' + Ahead' <= continueSemaphore + Ahead
          BY <4>1, <4>4 DEF CheckPause, Wake, CheckAbort, Ahead, TypeOK
        <5>4. /\ Ahead \in 0..1 /\ Ahead' \in 0..1
              /\ continueSemaphore \in 0..1 /\ continueSemaphore' \in 0..1
          BY <2>1 DEF Ahead, TypeOK
        <5>5. Budget' = overrun' + continueSemaphore' + P + Ahead'
          BY <4>2 DEF Budget
        <5>6. Budget <= OverrunBound
          BY <4>1
        <5>7. Budget = overrun + continueSemaphore + P + Ahead /\ overrun \in Nat
          BY <2>2 DEF Budget, OverrunBound
        <5>8. OverrunBound \in Nat
          BY <2>2 DEF OverrunBound
        <5>9. QED
          BY <5>2, <5>3, <5>4, <5>5, <5>6, <5>7, <5>8, <2>2, SpendSignal
      <4>5. QED
        BY <3>2, <4>3, <4>4 DEF Worker
    <3>3. ASSUME NEW c \in Callers, Pause(c)
          PROVE  Budget' <= OverrunBound
      <4>1. PendingCallers' = PendingCallers /\ Ahead' = Ahead
            /\ continueSemaphore' = continueSemaphore /\ ~BeginsIteration
        BY <3>3 DEF Pause, PendingCallers, Ahead, BeginsIteration
      <4>2. CASE state = "Pause"
        <5>1. overrun' = overrun
          BY <4>1, <4>2, <1>2 DEF PauseNext, Observe
        <5>2. QED
          BY <5>1, <4>1, <4>2 DEF Budget, OverrunBound
      <4>3. CASE state # "Pause"
        \* the caller itself is not pending
        <5>1. overrun' = 0
          BY <4>3, <1>2 DEF PauseNext, Observe
        <5>2. P + 1 <= Cardinality(Callers)
          BY <3>3, PendingRoom DEF Pause, MayCall
        <5>3. continueSemaphore <= 1 /\ continueSemaphore \in Nat /\ Ahead \in 0..1
          BY DEF TypeOK, Ahead
        <5>4. QED
          BY <5>1, <5>2, <5>3, <4>1, <2>2 DEF Budget, OverrunBound
      <4>4. QED
        BY <4>2, <4>3
    <3>4. ASSUME NEW c \in Callers, Continue(c) \/ Abort(c)
          PROVE  Budget' <= OverrunBound
      BY <3>4, <2>4 DEF Continue, Abort, Leave
    <3>5. ASSUME NEW c \in Callers, Signal(c)
          PROVE  Budget' <= OverrunBound
      <4>1. state = "Pause" /\ Ahead' = Ahead /\ ~BeginsIteration
        BY <3>5, <2>4 DEF Signal, Ahead, BeginsIteration
      <4>2. overrun' = overrun
        BY <4>1, <1>2 DEF PauseNext, Observe
      <4>3. c \in PendingCallers /\ PendingCallers' = PendingCallers \ {c}
        BY <3>5 DEF Signal, PendingCallers, TypeOK
      <4>4. Cardinality(PendingCallers') = P - 1
        BY <4>3, PendingType, FS_RemoveElement
      <4>5. continueSemaphore' <= continueSemaphore + 1 /\ continueSemaphore' \in Nat
        BY <3>5 DEF Signal, TypeOK
      <4>6. Ahead \in 0..1 /\ overrun \in Nat /\ continueSemaphore \in Nat
        BY DEF Ahead, TypeOK
      <4>7. QED
        BY <4>1, <4>2, <4>4, <4>5, <4>6, <2>2 DEF Budget, OverrunBound
    <3>6. QED
      BY <3>1, <3>2, <3>3, <3>4, <3>5, <1>2 DEF PauseNext, Next
  <2>5. QED
    BY <2>1, <2>3, <2>4, PendingType DEF OverrunBound
<1>3. QED
  BY <1>1, <1>2

\* A pause is overrun by at most one iteration more than there are callers
\* (SELooper.m:48-65, 96-100): two tracks when only the main thread calls.
THEOREM PauseOverrun == PauseSpec => []OverrunBounded
<1>1. PauseInv => OverrunBounded
  <2>1. PauseInv => overrun \in 0..OverrunBound /\ OverrunBound \in Nat
    BY PendingType DEF PauseInv, OverrunBound
  <2>2. QED
    BY <2>1 DEF OverrunBounded
<1>2. QED
  BY <1>1, PauseInvInit, PauseInvStep, PTL DEF PauseSpec
=============================================================================
