-------------------------- MODULE Consumer_proofs ---------------------------
(***************************************************************************)
(* What TLC checks of SEConsumer for two objects, for any set of objects,  *)
(* adders and callers: the types, that objectAtIndex: stays in range, that *)
(* no wake-up is lost, that every object is accounted for, and that the    *)
(* consumer is the looper it inherits from and the queue it promises.      *)
(* ConsumerInv adds to the first three where the index and the local       *)
(* `signal' of addObjects: may be what they are; AtHand and AccountInv     *)
(* follow the object at hand and those in the adders' hands.               *)
(***************************************************************************)
EXTENDS Consumer, SequenceTheorems, FiniteSetTheorems, TLAPS

\* The worker is between finding its array used up and being given another.
OnItsWayToSleep == pc \in {"recount", "zero", "idle", "asleep"}

\* A signal that is due is sent after the count has been stored.
SignalIsLocal == \A a \in Adders : signal[a] => adding[a] \in {"read", "store"}

\* The object that is processed or finished is at hand.
HandHeld == pc \in {"process", "advance"} => current # Nil

ConsumerInv ==
  TypeOK /\ FetchInRange /\ NoLostWakeup /\ SignalIsLocal /\ HandHeld

-----------------------------------------------------------------------------
(* The arrays.                                                             *)

\* What is passed to addObjects: is a sequence of objects.
LEMMA ArraysAreSeqs == Arrays \subseteq Seq(Objects) /\ <<>> \in Arrays
<1>1. \A n \in 0..MaxBatch : [1..n -> Objects] \subseteq Seq(Objects)
  BY ConsumerAssumption
<1>2. Arrays \subseteq Seq(Objects)
  BY <1>1 DEF Arrays
<1>3. <<>> \in [1..0 -> Objects]
  OBVIOUS
<1>4. QED
  BY <1>2, <1>3, ConsumerAssumption DEF Arrays

\* The elements of a sequence of objects are objects.
LEMMA ElementsType ==
  ASSUME NEW s \in Seq(Objects)
  PROVE  Elements(s) \subseteq Objects
BY ElementOfSeq, LenProperties DEF Elements

\* The number of objects to process is a natural number.
LEMMA ProcessCountType ==
  ASSUME NEW s \in Seq(Objects)
  PROVE  ProcessCount(s) \in Nat
<1>1. DOMAIN s = 1..Len(s) /\ Len(s) \in Nat
  BY LenProperties
<1>2. IsFiniteSet(1..Len(s))
  BY <1>1, FS_Interval
<1>3. {i \in DOMAIN s : s[i] \in Wanted} \subseteq 1..Len(s)
  BY <1>1
<1>4. QED
  BY <1>2, <1>3, FS_Subset, FS_CardinalityType DEF ProcessCount

\* nil is not an array of objects, and the array's length a natural number.
LEMMA ActiveType ==
  ASSUME TypeOK, activeObjects # Nil
  PROVE  /\ activeObjects \in Seq(Objects)
         /\ Len(activeObjects) \in Nat
         /\ ActiveCount = Len(activeObjects)
<1>1. activeObjects \in Seq(Objects)
  BY DEF TypeOK
<1>2. QED
  BY <1>1, LenProperties DEF ActiveCount

\* What waits is a sequence of objects, wherever the index is.
LEMMA PendingType ==
  ASSUME TypeOK
  PROVE  Pending \in Seq(Objects)
<1>1. ActiveRest \in Seq(Objects)
  <2>1. CASE activeObjects = Nil
    BY <2>1 DEF ActiveRest
  <2>2. CASE activeObjects # Nil
    <3>1. currentIndex + 1 \in Int /\ Len(activeObjects) \in Int
      BY <2>2, ActiveType DEF TypeOK
    <3>2. \A i \in currentIndex + 1 .. Len(activeObjects) : activeObjects[i] \in Objects
      <4> TAKE i \in currentIndex + 1 .. Len(activeObjects)
      <4>1. i \in 1..Len(activeObjects)
        BY <2>2, ActiveType DEF TypeOK
      <4>2. QED
        BY <4>1, <2>2, ActiveType, ElementOfSeq
    <3>3. SubSeq(activeObjects, currentIndex + 1, Len(activeObjects)) \in Seq(Objects)
      BY <3>1, <3>2, SubSeqProperties
    <3>4. QED
      BY <3>3, <2>2 DEF ActiveRest
  <2>3. QED
    BY <2>1, <2>2
<1>2. QED
  BY <1>1, ConcatProperties DEF Pending, TypeOK

-----------------------------------------------------------------------------
(* The initial state.                                                      *)

LEMMA ConsumerInvInit == Init => ConsumerInv
<1> SUFFICES ASSUME Init PROVE ConsumerInv
  OBVIOUS
<1>1. <<>> \in Seq(Objects)
  OBVIOUS
<1>2. TypeOK
  <2>1. batch \in [Adders -> Arrays]
    BY ArraysAreSeqs DEF Init
  <2>2. state \in LooperStates /\ pc \in WorkerAt
    BY DEF Init, LooperStates, WorkerAt
  <2>3. ctl \in [Callers -> CallerAt] /\ adding \in [Adders -> AdderAt]
    BY DEF Init, CallerAt, AdderAt
  <2>4. signal \in [Adders -> BOOLEAN] /\ seen \in [Adders -> Nat]
    BY DEF Init
  <2>5. objects \in Seq(Objects) /\ activeObjects \in Seq(Objects) \cup {Nil}
    BY <1>1 DEF Init
  <2>6. finished \in Seq(Objects) /\ offered \subseteq Objects /\ dropped \subseteq Objects
    BY <1>1 DEF Init
  <2>7. current \in Objects \cup {Nil} /\ isWorking \in BOOLEAN
    BY DEF Init
  <2>8. /\ currentIndex \in Nat /\ completedCount \in Nat /\ inProgressCount \in Nat
        /\ processSemaphore \in 0..1 /\ continueSemaphore \in 0..1
    BY DEF Init
  <2>9. QED
    BY <2>1, <2>2, <2>3, <2>4, <2>5, <2>6, <2>7, <2>8 DEF TypeOK
<1>3. FetchInRange /\ NoLostWakeup /\ SignalIsLocal /\ HandHeld
  BY DEF Init, FetchInRange, NoLostWakeup, SignalIsLocal, HandHeld
<1>4. QED
  BY <1>2, <1>3 DEF ConsumerInv

-----------------------------------------------------------------------------
(* The types.                                                              *)

LEMMA ExecuteType == TypeOK /\ Execute => TypeOK'
BY DEF TypeOK, Execute, queueVars, countVars, adderVars, historyVars, LooperStates,
       WorkerAt, IterationAt, CallerAt

\* An adder's step.
LEMMA AdderType ==
  ASSUME TypeOK, NEW a \in Adders,
         AdderStep(a) \/ \E array \in Arrays : AddObjects(a, array)
  PROVE  TypeOK'
<1> USE DEF adderFrame, looperVars, queueVars, countVars, historyVars
<1>1. CASE \E array \in Arrays : AddObjects(a, array)
  <2> PICK array \in Arrays : AddObjects(a, array)
    BY <1>1
  <2>1. Elements(array) \subseteq Objects
    BY ArraysAreSeqs, ElementsType
  <2>2. QED
    BY <2>1 DEF AddObjects, TypeOK, AdderAt
<1>2. CASE AppendBatch(a)
  <2>1. batch[a] \in Seq(Objects)
    BY ArraysAreSeqs DEF TypeOK
  <2>2. objects \o batch[a] \in Seq(Objects)
    BY <2>1, ConcatProperties DEF TypeOK
  <2>3. QED
    BY <2>2, <1>2 DEF AppendBatch, TypeOK, AdderAt
<1>3. CASE ReadCount(a)
  BY <1>3 DEF ReadCount, TypeOK, AdderAt
<1>4. CASE StoreCount(a)
  <2>1. ProcessCount(batch[a]) \in Nat
    BY ArraysAreSeqs, ProcessCountType DEF TypeOK
  <2>2. inProgressCount' \in Nat
    BY <2>1, <1>4 DEF StoreCount, TypeOK
  <2>3. QED
    BY <2>2, <1>4, ArraysAreSeqs DEF StoreCount, TypeOK, AdderAt
<1>5. CASE SignalProcess(a)
  BY <1>5 DEF SignalProcess, TypeOK, AdderAt
<1>6. QED
  BY <1>1, <1>2, <1>3, <1>4, <1>5 DEF AdderStep

\* What a cancel leaves and drops.
LEMMA RemoveAllType ==
  ASSUME TypeOK, RemoveAll
  PROVE  /\ objects' \in Seq(Objects)
         /\ activeObjects' \in Seq(Objects) \cup {Nil}
         /\ dropped' \subseteq Objects
<1>1. Elements(Pending) \subseteq Objects
  BY PendingType, ElementsType
<1>2. QED
  BY <1>1 DEF RemoveAll, TypeOK

\* A caller's step.
LEMMA CallerType ==
  ASSUME TypeOK, NEW c \in Callers,
         CallerStep(c) \/ Pause(c) \/ Continue(c) \/ Cancel(c) \/ Abort(c)
  PROVE  TypeOK'
<1> USE DEF callerFrame, looperVars, queueVars, countVars, adderVars, historyVars
<1>1. CASE Pause(c)
  BY <1>1 DEF Pause, TypeOK, LooperStates
<1>2. CASE Continue(c)
  BY <1>2 DEF Continue, TypeOK, LooperStates, CallerAt
<1>3. CASE Cancel(c)
  BY <1>3, RemoveAllType DEF Cancel, TypeOK
<1>4. CASE Abort(c)
  BY <1>4 DEF Abort, TypeOK, CallerAt
<1>5. CASE AbortCancel(c)
  BY <1>5, RemoveAllType DEF AbortCancel, TypeOK, CallerAt
<1>6. CASE AbortState(c)
  BY <1>6 DEF AbortState, TypeOK, LooperStates, CallerAt
<1>7. CASE SignalContinue(c)
  BY <1>7 DEF SignalContinue, TypeOK, CallerAt
<1>8. QED
  BY <1>1, <1>2, <1>3, <1>4, <1>5, <1>6, <1>7 DEF CallerStep

\* A worker's step: the object it takes is there.
LEMMA WorkerType ==
  ASSUME TypeOK, FetchInRange, HandHeld, Worker
  PROVE  TypeOK'
<1> USE DEF workerFrame, looperVars, queueVars, countVars, adderVars, historyVars,
            WorkerAt, IterationAt
<1>1. CASE BeginIteration
  BY <1>1 DEF BeginIteration, TypeOK
<1>2. CASE Reset \/ ResetAgain
  <2>1. objects' \in Seq(Objects) /\ activeObjects' \in Seq(Objects)
    <3>1. objects' = <<>> /\ activeObjects' = objects
      BY <1>2 DEF Reset, ResetAgain, ResetActiveObjects
    <3>2. <<>> \in Seq(Objects)
      OBVIOUS
    <3>3. QED
      BY <3>1, <3>2 DEF TypeOK
  <2>2. CASE Reset
    BY <2>1, <2>2 DEF Reset, TypeOK
  <2>3. CASE ResetAgain
    BY <2>1, <2>3 DEF ResetAgain, TypeOK
  <2>4. QED
    BY <1>2, <2>2, <2>3
<1>3. CASE Recount
  BY <1>3 DEF Recount, TypeOK
<1>4. CASE ZeroProgress
  BY <1>4 DEF ZeroProgress, TypeOK
<1>12. CASE GoIdle
  BY <1>12 DEF GoIdle, TypeOK
<1>5. CASE WakeUp
  BY <1>5 DEF WakeUp, TypeOK
<1>6. CASE Fetch
  <2>1. current' \in Objects \cup {Nil}
    <3>1. CASE activeObjects = Nil
      BY <3>1, <1>6 DEF Fetch, TypeOK
    <3>2. CASE activeObjects # Nil
      <4>1. currentIndex + 1 \in 1..Len(activeObjects)
        BY <3>2, <1>6, ActiveType DEF Fetch, FetchInRange, TypeOK
      <4>2. activeObjects[currentIndex + 1] \in Objects
        BY <4>1, <3>2, ActiveType, ElementOfSeq
      <4>3. QED
        BY <4>2, <3>2, <1>6 DEF Fetch
    <3>3. QED
      BY <3>1, <3>2
  <2>2. pc' \in WorkerAt
    BY <1>6 DEF Fetch, TypeOK
  <2>3. QED
    BY <2>1, <2>2, <1>6 DEF Fetch, TypeOK
<1>7. CASE \E complete \in BOOLEAN : Process(complete)
  BY <1>7 DEF Process, TypeOK
<1>8. CASE Advance
  <2>1. current \in Objects
    BY <1>8 DEF Advance, HandHeld, TypeOK
  <2>2. finished' \in Seq(Objects)
    BY <2>1, <1>8 DEF Advance, TypeOK
  <2>3. completedCount' \in Nat /\ currentIndex' \in Nat
    BY <1>8 DEF Advance, TypeOK
  <2>4. QED
    BY <2>2, <2>3, <1>8 DEF Advance, TypeOK
<1>9. CASE CheckPause \/ CheckAbort
  BY <1>9 DEF CheckPause, CheckAbort, TypeOK
<1>10. CASE Resume
  BY <1>10 DEF Resume, TypeOK
<1>11. QED
  BY <1>1, <1>2, <1>3, <1>4, <1>5, <1>6, <1>7, <1>8, <1>9, <1>10, <1>12
  DEF Worker, IterationStep

\* Every step keeps the types.
LEMMA TypeStep ==
  ASSUME TypeOK, FetchInRange, HandHeld, Next
  PROVE  TypeOK'
<1>1. CASE Execute
  BY <1>1, ExecuteType
<1>2. CASE Worker
  BY <1>2, WorkerType
<1>3. CASE \E a \in Adders : AdderStep(a) \/ \E array \in Arrays : AddObjects(a, array)
  BY <1>3, AdderType
<1>4. CASE \E c \in Callers : CallerStep(c) \/ Pause(c) \/ Continue(c) \/ Cancel(c) \/ Abort(c)
  BY <1>4, CallerType
<1>5. QED
  BY <1>1, <1>2, <1>3, <1>4 DEF Next

-----------------------------------------------------------------------------
(* The index and the object at hand.                                       *)

\* Whoever is not the worker leaves the index, the object and the array alone,
\* but for a cancel, which takes the array away.
LEMMA OthersLeaveArray ==
  ASSUME NEW a, NEW c,
         \/ AdderStep(a) \/ \E array \in Arrays : AddObjects(a, array)
         \/ CallerStep(c) \/ Pause(c) \/ Continue(c) \/ Cancel(c) \/ Abort(c)
  PROVE  /\ UNCHANGED <<pc, currentIndex, current>>
         /\ activeObjects' \in {activeObjects, Nil}
<1> USE DEF adderFrame, callerFrame, looperVars, queueVars, countVars, adderVars,
            historyVars
<1>1. CASE AdderStep(a) \/ \E array \in Arrays : AddObjects(a, array)
  BY <1>1 DEF AdderStep, AppendBatch, ReadCount, StoreCount, SignalProcess, AddObjects
<1>2. CASE Pause(c) \/ Continue(c) \/ Abort(c)
  BY <1>2 DEF Pause, Continue, Abort
<1>3. CASE Cancel(c)
  BY <1>3 DEF Cancel, RemoveAll
<1>4. CASE AbortCancel(c)
  BY <1>4 DEF AbortCancel, RemoveAll
<1>5. CASE AbortState(c) \/ SignalContinue(c)
  BY <1>5 DEF AbortState, SignalContinue
<1>6. QED
  BY <1>1, <1>2, <1>3, <1>4, <1>5 DEF CallerStep

\* The index stays in range between the count that allowed it and its use.
LEMMA FetchStep ==
  ASSUME TypeOK, FetchInRange, Next
  PROVE  FetchInRange'
<1>1. CASE Execute
  BY <1>1 DEF Execute, FetchInRange
<1>2. CASE Worker
  <2>1. CASE BeginIteration
    <3>1. UNCHANGED <<activeObjects, currentIndex>>
      BY <2>1 DEF BeginIteration, queueVars
    <3>2. pc' = "fetch" => ~(currentIndex >= ActiveCount)
      BY <2>1 DEF BeginIteration
    <3>3. activeObjects # Nil => ActiveCount = Len(activeObjects) /\ Len(activeObjects) \in Nat
      BY ActiveType
    <3>4. QED
      BY <3>1, <3>2, <3>3 DEF FetchInRange, TypeOK
  <2>2. CASE ~BeginIteration
    <3>1. pc' # "fetch"
      BY <1>2, <2>2 DEF Worker, IterationStep, Reset, Recount, ZeroProgress, GoIdle,
                        WakeUp, ResetAgain, Fetch, Process, Advance, CheckPause,
                        Resume, CheckAbort
    <3>2. QED
      BY <3>1 DEF FetchInRange
  <2>3. QED
    BY <2>1, <2>2
<1>3. CASE \E a \in Adders : AdderStep(a) \/ \E array \in Arrays : AddObjects(a, array)
  <2>1. UNCHANGED <<pc, currentIndex>> /\ activeObjects' \in {activeObjects, Nil}
    BY <1>3, OthersLeaveArray
  <2>2. QED
    BY <2>1 DEF FetchInRange
<1>4. CASE \E c \in Callers : CallerStep(c) \/ Pause(c) \/ Continue(c) \/ Cancel(c) \/ Abort(c)
  <2>1. UNCHANGED <<pc, currentIndex>> /\ activeObjects' \in {activeObjects, Nil}
    BY <1>4, OthersLeaveArray
  <2>2. QED
    BY <2>1 DEF FetchInRange
<1>5. QED
  BY <1>1, <1>2, <1>3, <1>4 DEF Next

\* The object at hand stays there until it is finished or left incomplete.
LEMMA HandStep ==
  ASSUME TypeOK, FetchInRange, HandHeld, Next
  PROVE  HandHeld'
<1>1. CASE Execute
  BY <1>1 DEF Execute, HandHeld
<1>2. CASE Worker
  <2>1. CASE Fetch
    <3>1. CASE activeObjects = Nil
      BY <3>1, <2>1 DEF Fetch, HandHeld
    <3>2. CASE activeObjects # Nil
      <4>1. currentIndex + 1 \in 1..Len(activeObjects)
        BY <3>2, <2>1, ActiveType DEF Fetch, FetchInRange, TypeOK
      <4>2. activeObjects[currentIndex + 1] \in Objects
        BY <4>1, <3>2, ActiveType, ElementOfSeq
      <4>3. current' \in Objects
        BY <4>2, <3>2, <2>1 DEF Fetch
      <4>4. QED
        BY <4>3, ConsumerAssumption DEF HandHeld
    <3>3. QED
      BY <3>1, <3>2
  <2>2. CASE \E complete \in BOOLEAN : Process(complete)
    BY <2>2 DEF Process, HandHeld
  <2>3. CASE ~Fetch /\ ~\E complete \in BOOLEAN : Process(complete)
    <3>1. pc' \notin {"process", "advance"}
      BY <1>2, <2>3 DEF Worker, IterationStep, BeginIteration, Reset, Recount,
                        ZeroProgress, GoIdle, WakeUp, ResetAgain, Advance, CheckPause,
                        Resume, CheckAbort
    <3>2. QED
      BY <3>1 DEF HandHeld
  <2>4. QED
    BY <2>1, <2>2, <2>3
<1>3. CASE \E a \in Adders : AdderStep(a) \/ \E array \in Arrays : AddObjects(a, array)
  BY <1>3, OthersLeaveArray DEF HandHeld
<1>4. CASE \E c \in Callers : CallerStep(c) \/ Pause(c) \/ Continue(c) \/ Cancel(c) \/ Abort(c)
  BY <1>4, OthersLeaveArray DEF HandHeld
<1>5. QED
  BY <1>1, <1>2, <1>3, <1>4 DEF Next

-----------------------------------------------------------------------------
(* The wake-up.                                                            *)

\* Only the adder whose signal it is has it in its hands.
LEMMA SignalLocalStep ==
  ASSUME TypeOK, SignalIsLocal, Next
  PROVE  SignalIsLocal'
<1>1. CASE Execute \/ Worker
  <2>1. UNCHANGED <<signal, adding>>
    BY <1>1 DEF Execute, Worker, IterationStep, BeginIteration, Reset, Recount,
                ZeroProgress, GoIdle, WakeUp, ResetAgain, Fetch, Process, Advance,
                CheckPause, Resume, CheckAbort, workerFrame, adderVars
  <2>2. QED
    BY <2>1 DEF SignalIsLocal
<1>2. ASSUME NEW a \in Adders, AdderStep(a) \/ \E array \in Arrays : AddObjects(a, array)
      PROVE  SignalIsLocal'
  <2> SUFFICES ASSUME NEW b \in Adders, signal'[b]
               PROVE  adding'[b] \in {"read", "store"}
    BY DEF SignalIsLocal
  <2> USE DEF TypeOK, SignalIsLocal
  <2>1. CASE b # a
    <3>1. signal'[b] = signal[b] /\ adding'[b] = adding[b]
      BY <1>2, <2>1 DEF AdderStep, AppendBatch, ReadCount, StoreCount, SignalProcess,
                        AddObjects
    <3>2. QED
      BY <3>1
  <2>2. CASE b = a
    <3>1. CASE AppendBatch(a)
      BY <3>1, <2>2 DEF AppendBatch
    <3>2. CASE ReadCount(a)
      BY <3>2, <2>2 DEF ReadCount
    <3>3. CASE StoreCount(a)
      BY <3>3, <2>2 DEF StoreCount
    <3>4. CASE SignalProcess(a) \/ \E array \in Arrays : AddObjects(a, array)
      BY <3>4, <2>2 DEF SignalProcess, AddObjects
    <3>5. QED
      BY <3>1, <3>2, <3>3, <3>4, <1>2 DEF AdderStep
  <2>3. QED
    BY <2>1, <2>2
<1>3. ASSUME NEW c \in Callers,
             CallerStep(c) \/ Pause(c) \/ Continue(c) \/ Cancel(c) \/ Abort(c)
      PROVE  SignalIsLocal'
  <2>1. UNCHANGED <<signal, adding>>
    BY <1>3 DEF CallerStep, AbortCancel, AbortState, SignalContinue, Pause, Continue,
                Cancel, Abort, callerFrame, adderVars
  <2>2. QED
    BY <2>1 DEF SignalIsLocal
<1>4. QED
  BY <1>1, <1>2, <1>3 DEF Next

\* The worker does not go to sleep over objects: they were not there when it
\* took what there was, and whoever appended them signals.
LEMMA WakeupWorker ==
  ASSUME TypeOK, NoLostWakeup, Execute \/ Worker
  PROVE  NoLostWakeup'
<1>1. CASE Reset \/ ResetAgain
  BY <1>1 DEF Reset, ResetAgain, ResetActiveObjects, NoLostWakeup
<1>2. CASE Recount \/ ZeroProgress \/ GoIdle
  <2>1. UNCHANGED <<objects, processSemaphore, signal, adding>>
    BY <1>2 DEF Recount, ZeroProgress, GoIdle, workerFrame, queueVars, adderVars
  <2>2. pc \in {"recount", "zero", "idle", "asleep"}
    BY <1>2 DEF Recount, ZeroProgress, GoIdle
  <2>3. QED
    BY <2>1, <2>2 DEF NoLostWakeup
<1>3. CASE ~(Reset \/ ResetAgain \/ Recount \/ ZeroProgress \/ GoIdle)
  <2>1. pc' \notin {"recount", "zero", "idle", "asleep"}
    BY <1>3 DEF Execute, Worker, IterationStep, BeginIteration, WakeUp, Fetch, Process,
                Advance, CheckPause, Resume, CheckAbort
  <2>2. QED
    BY <2>1 DEF NoLostWakeup
<1>4. QED
  BY <1>1, <1>2, <1>3

\* An adder that finds `objects' empty has the signal from then on until it is
\* in the semaphore; one that does not relies on the signal already due.
LEMMA WakeupAdder ==
  ASSUME TypeOK, NoLostWakeup, SignalIsLocal, NEW a \in Adders,
         AdderStep(a) \/ \E array \in Arrays : AddObjects(a, array)
  PROVE  NoLostWakeup'
<1> SUFFICES ASSUME pc' \in {"recount", "zero", "idle", "asleep"}, objects' # <<>>
             PROVE  processSemaphore' = 1
                    \/ \E b \in Adders : signal'[b] \/ adding'[b] = "signal"
  BY DEF NoLostWakeup
<1> USE DEF TypeOK
<1>1. pc' = pc
  BY OthersLeaveArray
<1>2. CASE SignalProcess(a)
  BY <1>2 DEF SignalProcess
<1>3. CASE AppendBatch(a) /\ objects = <<>>
  <2>1. signal'[a]
    BY <1>3 DEF AppendBatch
  <2>2. QED
    BY <2>1
<1>4. CASE /\ ~SignalProcess(a)
           /\ ~(AppendBatch(a) /\ objects = <<>>)
  <2>1. objects # <<>> /\ processSemaphore' = processSemaphore
    BY <1>4 DEF AdderStep, AppendBatch, ReadCount, StoreCount, AddObjects, queueVars
  <2>2. CASE processSemaphore = 1
    BY <2>1, <2>2
  <2>3. CASE processSemaphore # 1
    <3>1. PICK b \in Adders : signal[b] \/ adding[b] = "signal"
      BY <2>1, <2>3, <1>1 DEF NoLostWakeup
    <3>2. CASE b # a
      <4>1. signal'[b] = signal[b] /\ adding'[b] = adding[b]
        BY <1>4, <3>2 DEF AdderStep, AppendBatch, ReadCount, StoreCount, AddObjects
      <4>2. QED
        BY <3>1, <4>1
    <3>3. CASE b = a
      <4>1. adding[a] \in {"read", "store", "signal"}
        BY <3>1, <3>3 DEF SignalIsLocal
      <4>2. ~AppendBatch(a) /\ ~\E array \in Arrays : AddObjects(a, array)
        BY <4>1 DEF AppendBatch, AddObjects
      <4>3. CASE ReadCount(a)
        <5>1. signal'[a] = signal[a] /\ adding[a] = "read"
          BY <4>3 DEF ReadCount
        <5>2. QED
          BY <5>1, <3>1, <3>3
      <4>4. CASE StoreCount(a)
        <5>1. adding[a] = "store"
          BY <4>4 DEF StoreCount
        <5>2. signal[a]
          BY <5>1, <3>1, <3>3
        <5>3. adding'[a] = "signal"
          BY <5>2, <4>4 DEF StoreCount
        <5>4. QED
          BY <5>3
      <4>5. QED
        BY <4>2, <4>3, <4>4, <1>4 DEF AdderStep
    <3>4. QED
      BY <3>2, <3>3
  <2>4. QED
    BY <2>2, <2>3
<1>5. QED
  BY <1>2, <1>3, <1>4

\* A caller takes objects away or adds a signal, never the reverse.
LEMMA WakeupCaller ==
  ASSUME TypeOK, NoLostWakeup, NEW c \in Callers,
         CallerStep(c) \/ Pause(c) \/ Continue(c) \/ Cancel(c) \/ Abort(c)
  PROVE  NoLostWakeup'
<1>1. UNCHANGED <<pc, signal, adding>>
  BY DEF CallerStep, AbortCancel, AbortState, SignalContinue, Pause, Continue, Cancel,
         Abort, callerFrame, adderVars
<1>2. objects' \in {objects, <<>>} /\ processSemaphore' \in {processSemaphore, 1}
  BY DEF CallerStep, AbortCancel, AbortState, SignalContinue, Pause, Continue, Cancel,
         Abort, RemoveAll, queueVars
<1>3. QED
  BY <1>1, <1>2 DEF NoLostWakeup

-----------------------------------------------------------------------------
(* The theorems.                                                           *)

LEMMA ConsumerInvStep == ConsumerInv /\ [Next]_vars => ConsumerInv'
<1> SUFFICES ASSUME ConsumerInv, [Next]_vars PROVE ConsumerInv'
  OBVIOUS
<1> USE DEF ConsumerInv
<1>1. CASE Next
  <2>1. TypeOK' /\ FetchInRange' /\ HandHeld' /\ SignalIsLocal'
    BY <1>1, TypeStep, FetchStep, HandStep, SignalLocalStep
  <2>2. NoLostWakeup'
    BY <1>1, WakeupWorker, WakeupAdder, WakeupCaller DEF Next
  <2>3. QED
    BY <2>1, <2>2
<1>2. CASE UNCHANGED vars
  <2> USE <1>2 DEF vars, looperVars, queueVars, countVars, adderVars, historyVars
  <2>1. TypeOK'
    BY DEF TypeOK
  <2>2. FetchInRange' /\ HandHeld'
    BY DEF FetchInRange, HandHeld
  <2>3. NoLostWakeup' /\ SignalIsLocal'
    BY DEF NoLostWakeup, SignalIsLocal
  <2>4. QED
    BY <2>1, <2>2, <2>3
<1>3. QED
  BY <1>1, <1>2

\* The invariant holds in every reachable state.
THEOREM ConsumerInvHolds == Spec => []ConsumerInv
BY ConsumerInvInit, ConsumerInvStep, PTL DEF Spec

\* Every variable of a consumer keeps its type: the array and its index, the
\* counts, and the locals of whoever is inside addObjects:.
THEOREM ConsumerTypes == Spec => []TypeOK
<1>1. ConsumerInv => TypeOK
  BY DEF ConsumerInv
<1>2. QED
  BY <1>1, ConsumerInvHolds, PTL

\* objectAtIndex: in -activeObject is always asked for an index in range,
\* whatever is cancelled between the two locks (SEConsumer.m:201-236).
THEOREM FetchIsInRange == Spec => []FetchInRange
<1>1. ConsumerInv => FetchInRange
  BY DEF ConsumerInv
<1>2. QED
  BY <1>1, ConsumerInvHolds, PTL

\* However many threads add objects, the worker never sleeps over objects
\* without a signal in the semaphore or on its way (SEConsumer.m:147-160,
\* 209-224).
THEOREM WakeupNotLost == Spec => []NoLostWakeup
<1>1. ConsumerInv => NoLostWakeup
  BY DEF ConsumerInv
<1>2. QED
  BY <1>1, ConsumerInvHolds, PTL

-----------------------------------------------------------------------------
(* A consumer is a looper.                                                 *)

\* A looper is called after it has been executed, and nothing makes it
\* "Finished" again.
Started ==
  /\ pc = "unstarted" => \A c \in Callers : ctl[c] = "none"
  /\ pc # "unstarted" => state # "Finished"

\* What the refinement makes of the worker's place and the callers'.
Place == IF pc \in IterationAt THEN "iterate" ELSE pc
Call(c) == IF ctl[c] \in {"signal", "lastSignal"} THEN "signal" ELSE "none"
Calls == [c \in Callers |-> Call(c)]

LEMMA StartedStep ==
  ASSUME TypeOK, Started, Next
  PROVE  Started'
<1> USE DEF Started, looperVars, TypeOK
<1>1. CASE Execute
  BY <1>1 DEF Execute
<1>2. CASE Worker
  <2>1. pc # "unstarted" /\ pc' # "unstarted" /\ state' = state
    BY <1>2 DEF Worker, IterationStep, BeginIteration, Reset, Recount, ZeroProgress, GoIdle,
       WakeUp, ResetAgain, Fetch, Process, Advance, CheckPause, Resume, CheckAbort, workerFrame
  <2>2. QED BY <2>1
<1>3. ASSUME NEW a \in Adders, AdderStep(a) \/ \E array \in Arrays : AddObjects(a, array)
      PROVE  Started'
  BY <1>3 DEF AdderStep, AppendBatch, ReadCount, StoreCount, SignalProcess, AddObjects, adderFrame
<1>4. ASSUME NEW c \in Callers,
             CallerStep(c) \/ Pause(c) \/ Continue(c) \/ Cancel(c) \/ Abort(c)
      PROVE  Started'
  <2>1. pc # "unstarted" /\ pc' = pc
    BY <1>4 DEF CallerStep, AbortCancel, AbortState, SignalContinue, Pause, Continue, Cancel,
       Abort, CallerFree, callerFrame
  <2>2. state' = state \/ state' # "Finished"
    BY <1>4 DEF CallerStep, AbortCancel, AbortState, SignalContinue, Pause, Continue, Cancel,
       Abort
  <2>3. QED BY <2>1, <2>2
<1>5. QED BY <1>1, <1>2, <1>3, <1>4 DEF Next

\* The steps of -iteration are none of the looper's until it returns.
LEMMA IterationRefines ==
  ASSUME TypeOK, Started, IterationStep
  PROVE  /\ UNCHANGED <<state, continueSemaphore, ctl>>
         /\ pc \in IterationAt
         /\ pc' \in IterationAt \/ pc' = "checkPause"
         /\ state # "Finished"
<1>1. UNCHANGED <<state, continueSemaphore, ctl>>
  BY DEF IterationStep, BeginIteration, Reset, Recount, ZeroProgress, GoIdle, WakeUp,
     ResetAgain, Fetch, Process, Advance, workerFrame, looperVars
<1>2. pc \in IterationAt /\ (pc' \in IterationAt \/ pc' = "checkPause")
  BY DEF IterationStep, BeginIteration, Reset, Recount, ZeroProgress, GoIdle, WakeUp,
     ResetAgain, Fetch, Process, Advance, IterationAt
<1>3. state # "Finished"
  BY <1>2 DEF Started, IterationAt
<1>4. QED BY <1>1, <1>2, <1>3

LEMMA WorkerRefines ==
  ASSUME TypeOK, Started, Execute \/ Worker
  PROVE  L!Next \/ UNCHANGED L!vars
<1> USE DEF looperVars, IterationAt
<1>1. Calls' = Calls
  <2>1. ctl' = ctl
    BY IterationRefines DEF Execute, Worker, CheckPause, Resume, CheckAbort, workerFrame
  <2>2. QED BY <2>1 DEF Calls, Call
<1>2. CASE Execute
  BY <1>1, <1>2 DEF Execute, L!Next, L!Execute, Calls, Call
<1>3. CASE IterationStep
  <2>1. /\ UNCHANGED <<state, continueSemaphore>> /\ Place = "iterate" /\ state # "Finished"
        /\ Place' \in {"iterate", "checkPause"}
    BY <1>3, IterationRefines DEF Place
  <2>2. CASE Place' = "iterate"
    BY <1>1, <2>1, <2>2 DEF L!vars, Place, Calls, Call
  <2>3. CASE Place' = "checkPause"
    BY <1>1, <2>1, <2>3 DEF L!Next, L!Worker, L!Iterate, Place, Calls, Call
  <2>4. QED BY <2>1, <2>2, <2>3
<1>4. CASE CheckPause
  BY <1>1, <1>4 DEF CheckPause, workerFrame, L!Next, L!Worker, L!CheckPause, Calls, Call
<1>5. CASE Resume
  BY <1>1, <1>5 DEF Resume, L!Next, L!Worker, L!Wake, Calls, Call
<1>6. CASE CheckAbort
  BY <1>1, <1>6 DEF CheckAbort, workerFrame, L!Next, L!Worker, L!CheckAbort, Calls, Call
<1>7. QED BY <1>2, <1>3, <1>4, <1>5, <1>6 DEF Worker

LEMMA AdderRefines ==
  ASSUME NEW a \in Adders, AdderStep(a) \/ \E array \in Arrays : AddObjects(a, array)
  PROVE  UNCHANGED L!vars
<1>1. UNCHANGED <<state, continueSemaphore, pc, ctl>>
  BY DEF AdderStep, AppendBatch, ReadCount, StoreCount, SignalProcess, AddObjects, adderFrame,
     looperVars
<1>2. QED BY <1>1 DEF L!vars

\* Cancelling, and the steps of abort before it overwrites the state, are
\* none of the looper's.
LEMMA CallerRefines ==
  ASSUME TypeOK, Started, NEW c \in Callers,
         CallerStep(c) \/ Pause(c) \/ Continue(c) \/ Cancel(c) \/ Abort(c)
  PROVE  L!Next \/ UNCHANGED L!vars
<1> USE DEF TypeOK, looperVars, callerFrame
<1>1. pc' = pc
  BY DEF CallerStep, AbortCancel, AbortState, SignalContinue, Pause, Continue, Cancel, Abort
<1>2. Place' = Place /\ (pc # "unstarted" => Place # "unstarted")
  BY <1>1 DEF Place, IterationAt
<1>3. ASSUME NEW place \in CallerAt, ctl' = [ctl EXCEPT ![c] = place]
      PROVE  Calls' = [Calls EXCEPT ![c] = IF place \in {"signal", "lastSignal"}
                                           THEN "signal" ELSE "none"]
  BY <1>3 DEF Calls, Call
<1>4. CASE Pause(c)
  <2>1. L!Pause(c)
    BY <1>2, <1>4 DEF Pause, CallerFree, L!Pause, L!MayCall, Place
  <2>2. QED BY <2>1 DEF L!Next
<1>5. CASE Cancel(c)
  BY <1>5 DEF Cancel, L!vars
<1>6. CASE Abort(c) \/ AbortCancel(c)
  <2>1. PICK place \in {"abortCancel", "abortState"} :
          ctl[c] \in {"none", "abortCancel"} /\ ctl' = [ctl EXCEPT ![c] = place]
    BY <1>6 DEF Abort, AbortCancel, CallerFree
  <2>2. Calls' = Calls
    BY <2>1 DEF Calls, Call
  <2>3. UNCHANGED <<state, continueSemaphore>>
    BY <1>6 DEF Abort, AbortCancel
  <2>4. QED BY <1>1, <2>2, <2>3 DEF L!vars, Calls, Call
<1>7. ASSUME NEW new, NEW place \in CallerAt,
             state' = new, pc # "unstarted", Calls[c] = "none",
             ctl' = [ctl EXCEPT ![c] = place],
             place \in {"signal", "lastSignal"} <=> state = "Pause",
             continueSemaphore' = continueSemaphore
      PROVE  L!Leave(c, new)
  <2>1. Calls' = [Calls EXCEPT ![c] = IF state = "Pause" THEN "signal" ELSE "none"]
    BY <1>3, <1>7
  <2>2. QED BY <1>2, <1>7, <2>1 DEF L!Leave, L!MayCall, Place, Calls, Call
<1>8. CASE Continue(c)
  <2>1. Calls[c] = "none"
    BY <1>8 DEF Continue, CallerFree, Calls, Call
  <2>2. L!Leave(c, "Running")
    <3> DEFINE place == IF state = "Pause" THEN "signal" ELSE "none"
    <3>1. place \in CallerAt /\ (place \in {"signal", "lastSignal"} <=> state = "Pause")
      BY DEF CallerAt
    <3>2. /\ state' = "Running" /\ pc # "unstarted" /\ ctl' = [ctl EXCEPT ![c] = place]
          /\ continueSemaphore' = continueSemaphore
      BY <1>8 DEF Continue, CallerFree
    <3> HIDE DEF place
    <3>3. QED BY <1>7, <2>1, <3>1, <3>2
  <2>3. QED BY <2>2 DEF L!Next, L!Continue
<1>9. CASE AbortState(c)
  <2>1. Calls[c] = "none"
    BY <1>9 DEF AbortState, Calls, Call
  <2>2. pc # "unstarted"
    BY <1>9 DEF AbortState, Started
  <2>3. L!Leave(c, "Abort")
    <3> DEFINE place == IF state = "Pause" THEN "lastSignal" ELSE "done"
    <3>1. place \in CallerAt /\ (place \in {"signal", "lastSignal"} <=> state = "Pause")
      BY DEF CallerAt
    <3>2. /\ state' = "Abort" /\ ctl' = [ctl EXCEPT ![c] = place]
          /\ continueSemaphore' = continueSemaphore
      BY <1>9 DEF AbortState
    <3> HIDE DEF place
    <3>3. QED BY <1>7, <2>1, <2>2, <3>1, <3>2
  <2>4. QED BY <2>3 DEF L!Next, L!Abort
<1>10. CASE SignalContinue(c)
  <2>1. Calls[c] = "signal" /\ Calls' = [Calls EXCEPT ![c] = "none"]
    BY <1>10 DEF SignalContinue, Calls, Call
  <2>2. L!Signal(c)
    BY <1>2, <1>10, <2>1 DEF SignalContinue, L!Signal, Place, Calls, Call
  <2>3. QED BY <2>2 DEF L!Next
<1>11. QED BY <1>4, <1>5, <1>6, <1>8, <1>9, <1>10 DEF CallerStep

LEMMA LooperStep ==
  ConsumerInv /\ Started /\ [Next]_vars => Started' /\ [L!Next]_(L!vars)
<1> SUFFICES ASSUME ConsumerInv, Started, [Next]_vars
             PROVE  Started' /\ [L!Next]_(L!vars)
  OBVIOUS
<1>1. TypeOK
  BY DEF ConsumerInv
<1>2. CASE Next
  <2>1. Started'
    BY <1>1, <1>2, StartedStep
  <2>2. L!Next \/ UNCHANGED L!vars
    BY <1>1, <1>2, WorkerRefines, AdderRefines, CallerRefines DEF Next
  <2>3. QED BY <2>1, <2>2
<1>3. CASE UNCHANGED vars
  BY <1>3 DEF vars, looperVars, Started, L!vars
<1>4. QED BY <1>2, <1>3

\* The consumer is the looper whose -iteration works through the arrays: what
\* is proved of SELooper's pause, continue and abort holds of a consumer, with
\* any number of adders and callers (SEConsumer.m:78-82, 246-259).
THEOREM ConsumerIsLooper == Spec => RefinesLooper
<1>1. Init => L!Init /\ Started
  BY DEF Init, L!Init, Started, IterationAt
<1>2. ConsumerInv /\ Started /\ [Next]_vars => Started' /\ [L!Next]_(L!vars)
  BY LooperStep
<1>3. QED BY <1>1, <1>2, ConsumerInvHolds, PTL DEF Spec, RefinesLooper, L!Spec

-----------------------------------------------------------------------------
(* What the array still holds.                                             *)

\* From the object at index k, the array is that object and those after it.
LEMMA SuffixFirst ==
  ASSUME NEW s \in Seq(Objects), NEW k \in Nat, k < Len(s)
  PROVE  /\ s[k + 1] \in Objects
         /\ SubSeq(s, k + 2, Len(s)) \in Seq(Objects)
         /\ SubSeq(s, k + 1, Len(s)) = <<s[k + 1]>> \o SubSeq(s, k + 2, Len(s))
<1>1. Len(s) \in Nat /\ k + 1 \in 1..Len(s) /\ Len(s) \in (k + 1)..Len(s) /\ (k + 1) + 1 = k + 2
  BY LenProperties
<1>2. \A i \in 1..Len(s) : s[i] \in Objects
  BY ElementOfSeq
<1>3. \A i \in (k + 2)..Len(s) : s[i] \in Objects
  BY <1>1, <1>2
<1>4. SubSeq(s, k + 2, Len(s)) \in Seq(Objects)
  BY <1>1, <1>3, SubSeqProperties
<1>5. SubSeq(s, k + 1, Len(s)) = <<s[k + 1]>> \o SubSeq(s, (k + 1) + 1, Len(s))
  BY <1>1, SubSeqRecursiveFirst
<1>6. QED BY <1>1, <1>2, <1>4, <1>5

LEMMA Regroup ==
  ASSUME NEW s \in Seq(Objects), NEW t \in Seq(Objects), NEW u \in Seq(Objects)
  PROVE  (s \o t) \o u = s \o (t \o u)
BY ConcatAssociative

\* Past its end the array holds nothing, from its start everything.
LEMMA SuffixEnds ==
  ASSUME NEW s \in Seq(Objects), NEW k \in Nat
  PROVE  /\ SubSeq(s, 0 + 1, Len(s)) = s
         /\ k >= Len(s) => SubSeq(s, k + 1, Len(s)) = <<>>
<1>1. Len(s) \in Nat
  BY LenProperties
<1>2. SubSeq(s, 0 + 1, Len(s)) = s
  BY SubSeqFull
<1>3. k >= Len(s) => Len(s) < k + 1
  BY <1>1
<1>4. QED BY <1>1, <1>2, <1>3, SubSeqEmpty

\* The object at hand is the one at the index, unless a cancel has taken the
\* array away; an array is only exchanged when it is used up.
AtHand ==
  /\ current # Nil <=> pc \in {"process", "advance"}
  /\ current # Nil /\ activeObjects # Nil =>
       currentIndex < Len(activeObjects) /\ current = activeObjects[currentIndex + 1]
  /\ pc = "reset" => currentIndex >= ActiveCount
  /\ pc \in {"recount", "zero", "idle", "asleep", "resetAgain"} => currentIndex = 0
  /\ pc \in {"zero", "idle", "asleep", "resetAgain"} => ActiveCount = 0

LEMMA AtHandStep ==
  ASSUME TypeOK, FetchInRange, AtHand, Next
  PROVE  AtHand'
<1> USE DEF AtHand
<1>1. CASE Execute
  BY <1>1 DEF Execute, queueVars, ActiveCount
<1>2. CASE Worker
  <2>1. CASE BeginIteration
    <3>1. ActiveCount \in Nat /\ currentIndex \in Nat /\ ActiveCount' = ActiveCount
      BY <2>1, ActiveType DEF BeginIteration, queueVars, ActiveCount, TypeOK
    <3>2. QED BY <2>1, <3>1 DEF BeginIteration, queueVars
  <2>2. CASE Reset
    BY <2>2 DEF Reset
  <2>3. CASE Recount
    <3>1. ActiveCount \in Nat /\ ActiveCount' = ActiveCount
      BY <2>3, ActiveType DEF Recount, queueVars, ActiveCount
    <3>2. QED BY <2>3, <3>1 DEF Recount, queueVars
  <2>4. CASE ZeroProgress \/ GoIdle \/ WakeUp
    BY <2>4 DEF ZeroProgress, GoIdle, WakeUp, queueVars, ActiveCount
  <2>5. CASE ResetAgain
    BY <2>5 DEF ResetAgain
  <2>6. CASE Fetch
    <3>1. CASE activeObjects = Nil
      BY <2>6, <3>1 DEF Fetch
    <3>2. CASE activeObjects # Nil
      <4>1. currentIndex < Len(activeObjects) /\ activeObjects \in Seq(Objects) /\ currentIndex \in Nat
        BY <2>6, <3>2, ActiveType DEF Fetch, FetchInRange, TypeOK
      <4>2. activeObjects[currentIndex + 1] # Nil
        BY <4>1, SuffixFirst, ConsumerAssumption
      <4>3. QED BY <2>6, <3>2, <4>1, <4>2 DEF Fetch
    <3>3. QED BY <3>1, <3>2
  <2>7. CASE \E complete \in BOOLEAN : Process(complete)
    BY <2>7 DEF Process
  <2>8. CASE Advance
    BY <2>8 DEF Advance
  <2>9. CASE CheckPause \/ Resume \/ CheckAbort
    BY <2>9 DEF CheckPause, Resume, CheckAbort, queueVars
  <2>10. QED
    BY <1>2, <2>1, <2>2, <2>3, <2>4, <2>5, <2>6, <2>7, <2>8, <2>9 DEF Worker, IterationStep
<1>3. ASSUME UNCHANGED <<pc, currentIndex, current>>, activeObjects' \in {activeObjects, Nil}
      PROVE  AtHand'
  <2>1. ActiveCount' = ActiveCount \/ ActiveCount' = 0
    BY <1>3 DEF ActiveCount
  <2>2. currentIndex \in Nat
    BY DEF TypeOK
  <2>3. QED BY <1>3, <2>1, <2>2
<1>4. QED BY <1>1, <1>2, <1>3, OthersLeaveArray DEF Next

\* Exchanging arrays when the old one is used up moves no object.
LEMMA ResetMovesNone ==
  ASSUME TypeOK, AtHand, Reset \/ ResetAgain
  PROVE  /\ Pending' = objects /\ Pending = objects
         /\ current = Nil /\ current' = Nil
         /\ UNCHANGED <<adderVars, historyVars>>
<1>1. objects \in Seq(Objects) /\ currentIndex \in Nat
  BY DEF TypeOK
<1>2. currentIndex >= ActiveCount
  BY <1>1 DEF AtHand, Reset, ResetAgain
<1>3. ActiveRest = <<>>
  <2>1. CASE activeObjects = Nil
    BY <2>1 DEF ActiveRest
  <2>2. CASE activeObjects # Nil
    BY <1>1, <1>2, <2>2, ActiveType, SuffixEnds DEF ActiveRest
  <2>3. QED BY <2>1, <2>2
<1>4. activeObjects' = objects /\ objects' = <<>> /\ currentIndex' = 0
  BY DEF Reset, ResetAgain, ResetActiveObjects, AtHand
<1>5. objects # Nil
  BY <1>1, ConsumerAssumption
<1>6. ActiveRest' = objects
  BY <1>1, <1>4, <1>5, SuffixEnds DEF ActiveRest
<1>7. Pending = objects /\ Pending' = objects
  BY <1>1, <1>3, <1>4, <1>6, ConcatEmptySeq DEF Pending
<1>8. QED BY <1>7 DEF AtHand, Reset, ResetAgain, workerFrame

-----------------------------------------------------------------------------
(* Every object is accounted for.                                          *)

LEMMA ConcatParts ==
  ASSUME NEW s \in Seq(Objects), NEW t \in Seq(Objects)
  PROVE  /\ Elements(s \o t) = Elements(s) \cup Elements(t)
         /\ Distinct(s \o t) <=>
              Distinct(s) /\ Distinct(t) /\ Elements(s) \cap Elements(t) = {}
<1> DEFINE w == s \o t
           m == Len(s)
           n == Len(t)
<1>1. m \in Nat /\ n \in Nat /\ DOMAIN s = 1..m /\ DOMAIN t = 1..n
  BY LenProperties
<1>2. w \in Seq(Objects) /\ Len(w) = m + n
  BY ConcatProperties
<1>3. DOMAIN w = 1..(m + n)
  BY <1>2, LenProperties
<1>4. \A i \in 1..m : w[i] = s[i]
  <2> TAKE i \in 1..m
  <2>1. i \in 1..(m + n) /\ i <= m
    BY <1>1
  <2>2. QED BY <2>1, ConcatProperties
<1>5. \A i \in 1..n : w[m + i] = t[i]
  <2> TAKE i \in 1..n
  <2>1. m + i \in 1..(m + n) /\ ~(m + i <= m) /\ (m + i) - m = i
    BY <1>1
  <2>2. QED BY <2>1, ConcatProperties
<1>6. \A i \in 1..(m + n) : i \in 1..m \/ \E j \in 1..n : i = m + j
  <2> TAKE i \in 1..(m + n)
  <2>1. i \in 1..m \/ (i - m \in 1..n /\ i = m + (i - m))
    BY <1>1
  <2>2. QED BY <2>1
<1>7. \A i \in 1..m, j \in 1..n : i \in 1..(m + n) /\ m + j \in 1..(m + n) /\ i # m + j
  BY <1>1
<1>8. \A i, j \in 1..n : m + i = m + j => i = j
  BY <1>1
<1>9. (\A i \in 1..m : i \in 1..(m + n)) /\ \A j \in 1..n : m + j \in 1..(m + n)
  BY <1>1
<1> HIDE DEF w, m, n
<1>10. Elements(w) = Elements(s) \cup Elements(t)
  <2>1. ASSUME NEW x \in Elements(w) PROVE x \in Elements(s) \cup Elements(t)
    <3>1. PICK i \in 1..(m + n) : x = w[i]
      BY <1>3, <2>1 DEF Elements
    <3>2. CASE i \in 1..m
      BY <1>1, <1>4, <3>1, <3>2 DEF Elements
    <3>3. CASE \E j \in 1..n : i = m + j
      BY <1>1, <1>5, <3>1, <3>3 DEF Elements
    <3>4. QED BY <1>6, <3>2, <3>3
  <2>2. Elements(s) \subseteq Elements(w)
    BY <1>1, <1>3, <1>4, <1>9 DEF Elements
  <2>3. Elements(t) \subseteq Elements(w)
    BY <1>1, <1>3, <1>5, <1>9 DEF Elements
  <2>4. QED BY <2>1, <2>2, <2>3
<1>11. ASSUME Distinct(w)
       PROVE  Distinct(s) /\ Distinct(t) /\ Elements(s) \cap Elements(t) = {}
  <2>1. \A i, j \in 1..(m + n) : w[i] = w[j] => i = j
    BY <1>3, <1>11 DEF Distinct
  <2>2. Distinct(s)
    BY <1>1, <1>4, <1>9, <2>1 DEF Distinct
  <2>3. Distinct(t)
    <3>1. \A i, j \in 1..n : t[i] = t[j] => m + i = m + j
      BY <1>5, <1>9, <2>1
    <3>2. QED BY <1>1, <1>8, <3>1 DEF Distinct
  <2>4. \A i \in 1..m, j \in 1..n : s[i] # t[j]
    BY <1>4, <1>5, <1>7, <2>1
  <2>5. QED BY <1>1, <2>2, <2>3, <2>4 DEF Elements
<1>12. ASSUME Distinct(s), Distinct(t), Elements(s) \cap Elements(t) = {}
       PROVE  Distinct(w)
  <2>1. \A i \in 1..m, j \in 1..n : s[i] # t[j]
    BY <1>1, <1>12 DEF Elements
  <2>2. ASSUME NEW i \in 1..(m + n), NEW j \in 1..(m + n), w[i] = w[j]
        PROVE  i = j
    <3>1. CASE i \in 1..m /\ j \in 1..m
      BY <1>1, <1>4, <1>12, <2>2, <3>1 DEF Distinct
    <3>2. CASE i \in 1..m /\ \E l \in 1..n : j = m + l
      BY <1>4, <1>5, <2>1, <2>2, <3>2
    <3>3. CASE j \in 1..m /\ \E l \in 1..n : i = m + l
      BY <1>4, <1>5, <2>1, <2>2, <3>3
    <3>4. CASE (\E l \in 1..n : i = m + l) /\ \E l \in 1..n : j = m + l
      <4>1. PICK k \in 1..n, l \in 1..n : i = m + k /\ j = m + l
        BY <3>4
      <4>2. t[k] = t[l]
        BY <1>5, <2>2, <4>1
      <4>3. QED BY <1>1, <1>12, <4>1, <4>2 DEF Distinct
    <3>5. QED BY <1>6, <3>1, <3>2, <3>3, <3>4
  <2>3. QED BY <1>3, <2>2 DEF Distinct
<1>13. QED BY <1>10, <1>11, <1>12 DEF w

\* One object more at the end.
LEMMA AppendParts ==
  ASSUME NEW s \in Seq(Objects), NEW x \in Objects
  PROVE  /\ Append(s, x) \in Seq(Objects)
         /\ Elements(<<x>>) = {x}
         /\ Elements(Append(s, x)) = Elements(s) \cup {x}
         /\ Distinct(s) /\ x \notin Elements(s) => Distinct(Append(s, x))
<1>1. <<x>> \in Seq(Objects) /\ Elements(<<x>>) = {x} /\ Distinct(<<x>>)
  BY DEF Elements, Distinct
<1>2. Append(s, x) = s \o <<x>> /\ Append(s, x) \in Seq(Objects)
  BY AppendIsConcat, AppendProperties
<1>3. /\ Elements(s \o <<x>>) = Elements(s) \cup {x}
      /\ Distinct(s) /\ Elements(s) \cap {x} = {} => Distinct(s \o <<x>>)
  BY <1>1, ConcatParts
<1>4. QED BY <1>1, <1>2, <1>3

\* What the adders are about to append is new, and in one adder's hands.
HandsFresh ==
  \A a \in Adders : adding[a] = "append" =>
    /\ Distinct(batch[a])
    /\ Elements(batch[a]) \subseteq offered
    /\ \A b \in Adders : b # a /\ adding[b] = "append" =>
         Elements(batch[a]) \cap Elements(batch[b]) = {}

\* An object at hand that a cancel has taken from the array is not finished.
CancelledAtHand ==
  /\ dropped \cap Elements(Pending) = {}
  /\ current # Nil /\ activeObjects = Nil => current \in dropped \ Elements(finished)

AccountInv == Accounted /\ HandsFresh /\ CancelledAtHand

\* What is counted is a part of two sequences.
LEMMA WholeParts ==
  ASSUME TypeOK
  PROVE  /\ finished \in Seq(Objects) /\ Pending \in Seq(Objects)
         /\ Accounted <=>
              /\ Distinct(finished) /\ Distinct(Pending)
              /\ Elements(finished) \cap Elements(Pending) = {}
              /\ offered \ InAddersHands = Elements(finished) \cup dropped \cup Elements(Pending)
<1>1. finished \in Seq(Objects) /\ Pending \in Seq(Objects)
  BY PendingType DEF TypeOK
<1>2. QED BY <1>1, ConcatParts DEF Accounted

\* A step that moves no object keeps the account.
LEMMA QuietKeepsAccount ==
  ASSUME AccountInv, Pending' = Pending, UNCHANGED <<finished, dropped, offered>>,
         \A a \in Adders : adding'[a] = "append" <=> adding[a] = "append",
         \A a \in Adders : adding[a] = "append" => batch'[a] = batch[a],
         current' # Nil /\ activeObjects' = Nil => current' = current /\ activeObjects = Nil
  PROVE  AccountInv'
<1>1. HandsFresh'
  BY DEF AccountInv, HandsFresh
<1>2. InAddersHands' = InAddersHands
  <2>1. {b \in Adders : adding'[b] = "append"} = {b \in Adders : adding[b] = "append"}
    OBVIOUS
  <2>2. \A a \in {b \in Adders : adding[b] = "append"} : Elements(batch'[a]) = Elements(batch[a])
    OBVIOUS
  <2>3. QED BY <2>1, <2>2 DEF InAddersHands
<1>3. QED BY <1>1, <1>2 DEF AccountInv, Accounted, CancelledAtHand

\* The object at the index is finished, or one that a cancel has taken away.
LEMMA AdvanceKeepsAccount ==
  ASSUME TypeOK, TypeOK', AtHand, AccountInv, Advance
  PROVE  AccountInv'
<1>1. /\ finished' = Append(finished, current) /\ current' = Nil
      /\ currentIndex' = currentIndex + 1
      /\ UNCHANGED <<objects, activeObjects, adderVars, dropped>>
  BY DEF Advance, workerFrame
<1>2. current # Nil /\ current \in Objects
  BY DEF Advance, AtHand, TypeOK
<1>3. HandsFresh' /\ InAddersHands' = InAddersHands
  BY <1>1 DEF AccountInv, HandsFresh, InAddersHands, adderVars
<1>4. /\ Elements(finished') = Elements(finished) \cup {current}
      /\ Distinct(finished) /\ current \notin Elements(finished) => Distinct(finished')
  BY <1>1, <1>2, AppendParts DEF TypeOK
<1>5. /\ Distinct(finished) /\ Distinct(Pending)
      /\ Elements(finished) \cap Elements(Pending) = {}
      /\ offered \ InAddersHands = Elements(finished) \cup dropped \cup Elements(Pending)
      /\ dropped \cap Elements(Pending) = {}
  BY WholeParts DEF AccountInv, CancelledAtHand
<1>6. CASE activeObjects = Nil
  <2>1. Pending' = Pending
    BY <1>1, <1>6 DEF Pending, ActiveRest
  <2>2. current \in dropped /\ current \notin Elements(finished)
    BY <1>2, <1>6 DEF AccountInv, CancelledAtHand
  <2>3. Accounted'
    <3>1. /\ Distinct(finished') /\ Distinct(Pending')
          /\ Elements(finished') \cap Elements(Pending') = {}
      BY <1>4, <1>5, <2>1, <2>2
    <3>2. offered' \ InAddersHands' = Elements(finished') \cup dropped' \cup Elements(Pending')
      BY <1>1, <1>3, <1>4, <1>5, <2>1, <2>2 DEF adderVars
    <3>3. finished' \in Seq(Objects) /\ Pending' \in Seq(Objects)
      <4>1. Pending \in Seq(Objects)
        BY PendingType
      <4>2. QED BY <2>1, <4>1 DEF TypeOK
    <3>4. Distinct(finished' \o Pending')
      BY <3>1, <3>3, ConcatParts
    <3>5. QED BY <3>2, <3>4 DEF Accounted
  <2>4. QED BY <1>1, <1>3, <1>5, <2>1, <2>3 DEF AccountInv, CancelledAtHand
<1>7. CASE activeObjects # Nil
  <2> DEFINE rest == SubSeq(activeObjects, currentIndex + 2, Len(activeObjects))
             left == rest \o objects
  <2>1. /\ activeObjects \in Seq(Objects) /\ objects \in Seq(Objects) /\ finished \in Seq(Objects)
        /\ currentIndex \in Nat /\ currentIndex < Len(activeObjects)
        /\ current = activeObjects[currentIndex + 1]
    BY <1>2, <1>7 DEF AtHand, TypeOK
  <2>2. rest \in Seq(Objects) /\ ActiveRest = <<current>> \o rest
    BY <1>7, <2>1, SuffixFirst DEF ActiveRest
  <2>3. ActiveRest' = rest
    <3>1. (currentIndex + 1) + 1 = currentIndex + 2
      BY <2>1
    <3>2. QED BY <1>1, <1>7, <3>1 DEF ActiveRest
  <2>4. Pending' = left
    BY <1>1, <2>3 DEF Pending
  <2> HIDE DEF rest
  <2>5. left \in Seq(Objects) /\ <<current>> \in Seq(Objects)
    BY <1>2, <2>1, <2>2, ConcatProperties
  <2>6. Pending = <<current>> \o left
    BY <2>1, <2>2, <2>5, Regroup DEF Pending
  <2> HIDE DEF left
  <2>7. /\ Elements(Pending) = {current} \cup Elements(left)
        /\ Distinct(left) /\ current \notin Elements(left)
    <3>1. Elements(<<current>>) = {current}
      BY <1>2, <2>1, AppendParts
    <3>2. Elements(Pending) = Elements(<<current>>) \cup Elements(left)
      BY <2>5, <2>6, ConcatParts
    <3>3. Distinct(left) /\ Elements(<<current>>) \cap Elements(left) = {}
      BY <1>5, <2>5, <2>6, ConcatParts
    <3>4. QED BY <3>1, <3>2, <3>3
  <2>8. Accounted'
    <3>1. /\ Distinct(finished') /\ Distinct(left)
          /\ Elements(finished') \cap Elements(left) = {}
      BY <1>4, <1>5, <2>7
    <3>2. offered' \ InAddersHands' = Elements(finished') \cup dropped' \cup Elements(Pending')
      BY <1>1, <1>3, <1>4, <1>5, <2>4, <2>7 DEF adderVars
    <3>3. finished' \in Seq(Objects)
      BY DEF TypeOK
    <3>4. Distinct(finished' \o left)
      BY <2>5, <3>1, <3>3, ConcatParts
    <3>5. QED BY <2>4, <3>2, <3>4 DEF Accounted
  <2>9. CancelledAtHand'
    BY <1>1, <1>5, <2>4, <2>7 DEF CancelledAtHand
  <2>10. QED BY <1>3, <2>8, <2>9 DEF AccountInv
<1>8. QED BY <1>6, <1>7

LEMMA WorkerAccount ==
  ASSUME TypeOK, TypeOK', AtHand, AccountInv, Execute \/ Worker
  PROVE  AccountInv'
<1>1. CASE Reset \/ ResetAgain
  <2>1. Pending' = Pending /\ current' = Nil /\ UNCHANGED <<adderVars, historyVars>>
    BY <1>1, ResetMovesNone
  <2>2. QED BY <2>1, QuietKeepsAccount DEF adderVars, historyVars
<1>2. CASE Advance
  BY <1>2, AdvanceKeepsAccount
<1>3. CASE ~(Reset \/ ResetAgain \/ Advance)
  <2>1. UNCHANGED <<objects, activeObjects, currentIndex, adderVars, historyVars>>
    BY <1>3 DEF Execute, Worker, IterationStep, BeginIteration, Recount, ZeroProgress, GoIdle,
       WakeUp, Fetch, Process, CheckPause, Resume, CheckAbort, workerFrame, queueVars
  <2>2. current' # Nil /\ activeObjects' = Nil => current' = current /\ activeObjects = Nil
    BY <1>3 DEF Execute, Worker, IterationStep, BeginIteration, Recount, ZeroProgress, GoIdle,
       WakeUp, Fetch, Process, CheckPause, Resume, CheckAbort, workerFrame, queueVars
  <2>3. Pending' = Pending
    BY <2>1 DEF Pending, ActiveRest
  <2>4. QED BY <2>1, <2>2, <2>3, QuietKeepsAccount DEF adderVars, historyVars
<1>4. QED BY <1>1, <1>2, <1>3

\* Of what waits, none is left by a cancel; the object at hand is among them,
\* or has been taken away by an earlier one.
LEMMA RemoveKeepsAccount ==
  ASSUME TypeOK, AtHand, AccountInv, RemoveAll,
         UNCHANGED <<current, finished, adding, batch, offered>>
  PROVE  AccountInv'
<1>1. /\ objects' = <<>> /\ activeObjects' = Nil
      /\ dropped' = dropped \cup Elements(Pending)
  BY DEF RemoveAll
<1>2. Pending' = <<>>
  <2>1. ActiveRest' = <<>> /\ <<>> \in Seq(Objects)
    BY <1>1 DEF ActiveRest
  <2>2. QED BY <1>1, <2>1 DEF Pending
<1>3. Elements(<<>>) = {} /\ Distinct(<<>>) /\ <<>> \in Seq(Objects)
  BY DEF Elements, Distinct
<1>4. /\ Distinct(finished) /\ finished \in Seq(Objects)
      /\ Elements(finished) \cap Elements(Pending) = {}
      /\ offered \ InAddersHands = Elements(finished) \cup dropped \cup Elements(Pending)
  BY WholeParts DEF AccountInv
<1>5. HandsFresh' /\ InAddersHands' = InAddersHands
  BY DEF AccountInv, HandsFresh, InAddersHands
<1>6. Accounted'
  <2>1. Distinct(finished \o <<>>)
    BY <1>4, ConcatEmptySeq
  <2>2. offered' \ InAddersHands' = Elements(finished') \cup dropped' \cup Elements(Pending')
    BY <1>1, <1>2, <1>3, <1>4, <1>5
  <2>3. QED BY <1>2, <2>1, <2>2 DEF Accounted
<1>7. ASSUME current # Nil PROVE current \in dropped' \ Elements(finished)
  <2>1. CASE activeObjects = Nil
    BY <1>1, <1>7, <2>1 DEF AccountInv, CancelledAtHand
  <2>2. CASE activeObjects # Nil
    <3> DEFINE rest == SubSeq(activeObjects, currentIndex + 2, Len(activeObjects))
    <3>1. /\ activeObjects \in Seq(Objects) /\ objects \in Seq(Objects) /\ current \in Objects
          /\ currentIndex \in Nat /\ currentIndex < Len(activeObjects)
          /\ current = activeObjects[currentIndex + 1]
      BY <1>7, <2>2 DEF AtHand, TypeOK
    <3>2. rest \in Seq(Objects) /\ ActiveRest = <<current>> \o rest
      BY <2>2, <3>1, SuffixFirst DEF ActiveRest
    <3> HIDE DEF rest
    <3>3. <<current>> \in Seq(Objects) /\ Elements(<<current>>) = {current}
      BY <3>1, AppendParts
    <3>4. ActiveRest \in Seq(Objects) /\ current \in Elements(ActiveRest)
      <4>1. ActiveRest \in Seq(Objects)
        BY <3>2, <3>3, ConcatProperties
      <4>2. Elements(<<current>> \o rest) = Elements(<<current>>) \cup Elements(rest)
        BY <3>2, <3>3, ConcatParts
      <4>3. QED BY <3>2, <3>3, <4>1, <4>2
    <3>5. current \in Elements(Pending)
      BY <3>1, <3>4, ConcatParts DEF Pending
    <3>6. QED BY <1>1, <1>4, <3>5
  <2>3. QED BY <2>1, <2>2
<1>8. CancelledAtHand'
  BY <1>2, <1>3, <1>7 DEF CancelledAtHand
<1>9. QED BY <1>5, <1>6, <1>8 DEF AccountInv

LEMMA CallerAccount ==
  ASSUME TypeOK, AtHand, AccountInv, NEW c \in Callers,
         CallerStep(c) \/ Pause(c) \/ Continue(c) \/ Cancel(c) \/ Abort(c)
  PROVE  AccountInv'
<1>1. CASE Cancel(c) \/ AbortCancel(c)
  BY <1>1, RemoveKeepsAccount DEF Cancel, AbortCancel, callerFrame, adderVars
<1>2. CASE ~(Cancel(c) \/ AbortCancel(c))
  <2>1. UNCHANGED <<queueVars, adderVars, historyVars>>
    BY <1>2 DEF CallerStep, AbortState, SignalContinue, Pause, Continue, Abort, callerFrame
  <2>2. Pending' = Pending
    BY <2>1 DEF Pending, ActiveRest, queueVars
  <2>3. QED BY <2>1, <2>2, QuietKeepsAccount DEF queueVars, adderVars, historyVars
<1>3. QED BY <1>1, <1>2

\* A new array is made of objects that nobody has seen.
LEMMA OfferKeepsAccount ==
  ASSUME TypeOK, AccountInv, NEW a \in Adders, NEW array \in Arrays, AddObjects(a, array)
  PROVE  AccountInv'
<1>1. /\ adding[a] = "none" /\ Distinct(array) /\ Elements(array) \cap offered = {}
      /\ adding' = [adding EXCEPT ![a] = "append"] /\ batch' = [batch EXCEPT ![a] = array]
      /\ offered' = offered \cup Elements(array)
      /\ UNCHANGED <<queueVars, historyVars>>
  BY DEF AddObjects, adderFrame
<1>2. \A b \in Adders : /\ b # a => adding'[b] = adding[b] /\ batch'[b] = batch[b]
                        /\ adding'[a] = "append" /\ batch'[a] = array
  BY <1>1 DEF TypeOK
<1>3. \A b \in Adders : adding[b] = "append" => Elements(batch[b]) \subseteq offered
  BY DEF AccountInv, HandsFresh
<1>4. HandsFresh'
  <2> SUFFICES ASSUME NEW d \in Adders, adding'[d] = "append"
               PROVE  /\ Distinct(batch'[d])
                      /\ Elements(batch'[d]) \subseteq offered'
                      /\ \A b \in Adders : b # d /\ adding'[b] = "append" =>
                           Elements(batch'[d]) \cap Elements(batch'[b]) = {}
    BY DEF HandsFresh
  <2>1. CASE d = a
    BY <1>1, <1>2, <1>3, <2>1
  <2>2. CASE d # a
    <3>1. adding[d] = "append" /\ batch'[d] = batch[d]
      BY <1>2, <2>2
    <3>2. Distinct(batch[d]) /\ Elements(batch[d]) \subseteq offered
      BY <3>1 DEF AccountInv, HandsFresh
    <3>3. ASSUME NEW b \in Adders, b # d, adding'[b] = "append"
          PROVE  Elements(batch[d]) \cap Elements(batch'[b]) = {}
      <4>1. CASE b = a
        BY <1>1, <1>2, <3>2, <4>1
      <4>2. CASE b # a
        BY <1>2, <3>1, <3>3, <4>2 DEF AccountInv, HandsFresh
      <4>3. QED BY <4>1, <4>2
    <3>4. QED BY <1>1, <3>1, <3>2, <3>3
  <2>3. QED BY <2>1, <2>2
<1>5. InAddersHands \subseteq offered
  BY <1>3 DEF InAddersHands
<1>6. InAddersHands' = InAddersHands \cup Elements(array)
  <2>1. {b \in Adders : adding'[b] = "append"} = {b \in Adders : adding[b] = "append"} \cup {a}
    BY <1>2
  <2>2. \A b \in {d \in Adders : adding[d] = "append"} : batch'[b] = batch[b]
    BY <1>1, <1>2
  <2>3. QED BY <1>2, <2>1, <2>2 DEF InAddersHands
<1>7. offered' \ InAddersHands' = offered \ InAddersHands
  BY <1>1, <1>5, <1>6
<1>8. Pending' = Pending /\ UNCHANGED <<finished, dropped, current, activeObjects>>
  BY <1>1 DEF Pending, ActiveRest, queueVars, historyVars
<1>9. QED BY <1>4, <1>7, <1>8 DEF AccountInv, Accounted, CancelledAtHand

\* What is appended leaves the adder's hands.
LEMMA AppendKeepsAccount ==
  ASSUME TypeOK, TypeOK', AccountInv, NEW a \in Adders, AppendBatch(a)
  PROVE  AccountInv'
<1> DEFINE new == batch[a]
<1>1. /\ adding[a] = "append" /\ adding' = [adding EXCEPT ![a] = "read"]
      /\ objects' = objects \o new
      /\ UNCHANGED <<batch, offered, activeObjects, currentIndex, current, historyVars>>
  BY DEF AppendBatch, adderFrame
<1>2. /\ new \in Seq(Objects) /\ objects \in Seq(Objects) /\ finished \in Seq(Objects)
      /\ Pending \in Seq(Objects) /\ ActiveRest \in Seq(Objects)
  <2>1. new \in Seq(Objects) /\ Pending \in Seq(Objects)
    BY ArraysAreSeqs, PendingType DEF TypeOK
  <2>2. ActiveRest \in Seq(Objects)
    <3>1. CASE activeObjects = Nil
      BY <3>1 DEF ActiveRest
    <3>2. CASE activeObjects # Nil
      <4>1. activeObjects \in Seq(Objects) /\ Len(activeObjects) \in Nat /\ currentIndex \in Nat
        BY <3>2, ActiveType DEF TypeOK
      <4>2. \A i \in (currentIndex + 1)..Len(activeObjects) : activeObjects[i] \in Objects
        <5> TAKE i \in (currentIndex + 1)..Len(activeObjects)
        <5>1. i \in 1..Len(activeObjects)
          BY <4>1
        <5>2. QED BY <4>1, <5>1, ElementOfSeq
      <4>3. QED BY <3>2, <4>1, <4>2, SubSeqProperties DEF ActiveRest
    <3>3. QED BY <3>1, <3>2
  <2>3. QED BY <2>1, <2>2 DEF TypeOK
<1>3. Pending' = Pending \o new
  <2>1. ActiveRest' = ActiveRest
    BY <1>1 DEF ActiveRest
  <2>2. (ActiveRest \o objects) \o new = ActiveRest \o (objects \o new)
    BY <1>2, Regroup
  <2>3. Pending' = ActiveRest \o (objects \o new)
    BY <1>1, <2>1 DEF Pending
  <2>4. QED BY <2>2, <2>3 DEF Pending
<1>4. \A b \in Adders : b # a => (adding'[b] = adding[b] /\ adding'[a] = "read")
  BY <1>1 DEF TypeOK
<1>5. adding'[a] = "read"
  BY <1>1 DEF TypeOK
<1>6. HandsFresh'
  BY <1>1, <1>4, <1>5 DEF AccountInv, HandsFresh
<1>7. Distinct(new) /\ Elements(new) \subseteq offered /\ Elements(new) \subseteq InAddersHands
  BY <1>1 DEF AccountInv, HandsFresh, InAddersHands
<1>8. InAddersHands' = InAddersHands \ Elements(new)
  <2>1. {b \in Adders : adding'[b] = "append"} = {b \in Adders : adding[b] = "append"} \ {a}
    BY <1>4, <1>5
  <2>2. \A b \in {d \in Adders : adding[d] = "append"} \ {a} :
          Elements(batch[b]) \cap Elements(new) = {}
    BY <1>1 DEF AccountInv, HandsFresh
  <2> HIDE DEF new
  <2>3. InAddersHands' = UNION {Elements(batch[b]) : b \in {d \in Adders : adding[d] = "append"} \ {a}}
    BY <1>1, <2>1 DEF InAddersHands
  <2>4. InAddersHands =
          Elements(new) \cup UNION {Elements(batch[b]) : b \in {d \in Adders : adding[d] = "append"} \ {a}}
    BY <1>1 DEF InAddersHands, new
  <2>5. QED BY <2>2, <2>3, <2>4
<1> HIDE DEF new
<1>9. /\ Distinct(finished) /\ Distinct(Pending)
      /\ Elements(finished) \cap Elements(Pending) = {}
      /\ offered \ InAddersHands = Elements(finished) \cup dropped \cup Elements(Pending)
      /\ dropped \cap Elements(Pending) = {}
  BY WholeParts DEF AccountInv, CancelledAtHand
<1>10. Elements(new) \cap (Elements(finished) \cup dropped \cup Elements(Pending)) = {}
  BY <1>7, <1>9
<1>11. /\ Elements(Pending') = Elements(Pending) \cup Elements(new)
       /\ Distinct(Pending') /\ Pending' \in Seq(Objects)
  BY <1>2, <1>3, <1>7, <1>9, <1>10, ConcatParts, ConcatProperties
<1>12. Accounted'
  <2>1. Distinct(finished \o Pending')
    <3>1. Elements(finished) \cap Elements(Pending') = {}
      BY <1>9, <1>10, <1>11
    <3>2. QED BY <1>2, <1>9, <1>11, <3>1, ConcatParts
  <2>2. offered' \ InAddersHands' = Elements(finished') \cup dropped' \cup Elements(Pending')
    BY <1>1, <1>7, <1>8, <1>9, <1>11 DEF historyVars
  <2>3. QED BY <1>1, <2>1, <2>2 DEF Accounted, historyVars
<1>13. CancelledAtHand'
  BY <1>1, <1>9, <1>10, <1>11 DEF AccountInv, CancelledAtHand, historyVars
<1>14. QED BY <1>6, <1>12, <1>13 DEF AccountInv

LEMMA AdderAccount ==
  ASSUME TypeOK, TypeOK', AccountInv, NEW a \in Adders,
         AdderStep(a) \/ \E array \in Arrays : AddObjects(a, array)
  PROVE  AccountInv'
<1>1. CASE AppendBatch(a)
  BY <1>1, AppendKeepsAccount
<1>2. CASE \E array \in Arrays : AddObjects(a, array)
  BY <1>2, OfferKeepsAccount
<1>3. CASE ReadCount(a) \/ StoreCount(a) \/ SignalProcess(a)
  <2>1. UNCHANGED <<queueVars, historyVars, offered>>
    BY <1>3 DEF ReadCount, StoreCount, SignalProcess, adderFrame
  <2>2. /\ adding[a] # "append" /\ adding'[a] # "append"
        /\ \A b \in Adders : b # a => adding'[b] = adding[b] /\ batch'[b] = batch[b]
    BY <1>3 DEF ReadCount, StoreCount, SignalProcess, TypeOK
  <2>3. Pending' = Pending
    BY <2>1 DEF Pending, ActiveRest, queueVars
  <2>4. QED BY <2>1, <2>2, <2>3, QuietKeepsAccount DEF queueVars, historyVars
<1>4. QED BY <1>1, <1>2, <1>3 DEF AdderStep

LEMMA AccountStep ==
  ConsumerInv /\ AtHand /\ AccountInv /\ [Next]_vars => ConsumerInv' /\ AtHand' /\ AccountInv'
<1> SUFFICES ASSUME ConsumerInv, AtHand, AccountInv, [Next]_vars
             PROVE  ConsumerInv' /\ AtHand' /\ AccountInv'
  OBVIOUS
<1>1. ConsumerInv' /\ TypeOK /\ TypeOK' /\ FetchInRange
  BY ConsumerInvStep DEF ConsumerInv
<1>2. CASE Next
  <2>1. AtHand'
    BY <1>1, <1>2, AtHandStep
  <2>2. AccountInv'
    BY <1>1, <1>2, WorkerAccount, AdderAccount, CallerAccount DEF Next
  <2>3. QED BY <1>1, <2>1, <2>2
<1>3. CASE UNCHANGED vars
  <2> USE <1>3 DEF vars, queueVars, adderVars, historyVars
  <2>1. AtHand'
    BY DEF AtHand, ActiveCount
  <2>2. Pending' = Pending
    BY DEF Pending, ActiveRest
  <2>3. AccountInv'
    BY <2>2, QuietKeepsAccount
  <2>4. QED BY <1>1, <2>1, <2>3
<1>4. QED BY <1>2, <1>3

LEMMA AccountInit == Init => AtHand /\ AccountInv
<1> SUFFICES ASSUME Init PROVE AtHand /\ AccountInv
  OBVIOUS
<1>1. AtHand
  BY DEF Init, AtHand, ActiveCount
<1>2. Pending = <<>> /\ <<>> \o <<>> = <<>>
  <2>1. <<>> \in Seq(Objects) /\ ActiveRest = <<>>
    BY DEF Init, ActiveRest
  <2>2. QED BY <2>1, ConcatEmptySeq DEF Init, Pending
<1>3. Elements(<<>>) = {} /\ Distinct(<<>>)
  BY DEF Elements, Distinct
<1>4. InAddersHands = {}
  BY DEF Init, InAddersHands
<1>5. HandsFresh /\ CancelledAtHand
  BY <1>2, <1>3 DEF Init, HandsFresh, CancelledAtHand
<1>6. Accounted
  BY <1>2, <1>3, <1>4 DEF Init, Accounted
<1>7. QED BY <1>1, <1>5, <1>6 DEF AccountInv

LEMMA AccountHolds == Spec => [](ConsumerInv /\ AtHand /\ AccountInv)
BY ConsumerInvInit, AccountInit, AccountStep, PTL DEF Spec

\* However the adders, the cancels and the worker interleave, every object
\* that has been appended is finished, waiting or cancelled, and none twice
\* finished or finished and waiting (SEConsumer.m:71-75, 147-152, 201-259).
THEOREM EveryObjectAccounted == Spec => []Accounted
<1>1. AccountInv => Accounted
  BY DEF AccountInv
<1>2. QED BY <1>1, AccountHolds, PTL

-----------------------------------------------------------------------------
(* A consumer is the queue it promises.                                    *)

\* What the refinement makes of the arrays: the object at hand waits no more.
Left ==
  IF activeObjects = Nil THEN <<>>
  ELSE SubSeq(activeObjects,
              currentIndex + (IF current = Nil THEN 1 ELSE 2),
              Len(activeObjects))
Waiting == Left \o objects
Cancelled == current # Nil /\ activeObjects = Nil

LEMMA QueueVars ==
  /\ Q!Next <=>
       \/ \E array \in Arrays : Waiting' = Waiting \o array /\ UNCHANGED <<current, Cancelled>>
       \/ /\ current = Nil /\ Waiting # <<>> /\ current' = Head(Waiting)
          /\ Waiting' = Tail(Waiting) /\ UNCHANGED Cancelled
       \/ current # Nil /\ current' = Nil /\ Cancelled' = FALSE /\ UNCHANGED Waiting
       \/ /\ current # Nil /\ current' = Nil /\ Cancelled' = FALSE
          /\ Waiting' = IF Cancelled THEN Waiting ELSE <<current>> \o Waiting
       \/ Waiting' = <<>> /\ Cancelled' = (current # Nil) /\ UNCHANGED current
  /\ UNCHANGED Q!vars <=> UNCHANGED <<Waiting, current, Cancelled>>
BY DEF Q!Next, Q!Put, Q!Take, Q!Finish, Q!Retry, Q!Cancel, Q!vars, Waiting, Left, Cancelled

\* What waits, before the object at the index is taken and after.
LEMMA WaitingParts ==
  ASSUME TypeOK
  PROVE  /\ Left \in Seq(Objects) /\ objects \in Seq(Objects) /\ Waiting \in Seq(Objects)
         /\ current = Nil => Waiting = Pending
<1>1. objects \in Seq(Objects) /\ currentIndex \in Nat
  BY DEF TypeOK
<1>2. Left \in Seq(Objects)
  <2>1. CASE activeObjects = Nil
    BY <2>1 DEF Left
  <2>2. CASE activeObjects # Nil
    <3> DEFINE from == currentIndex + (IF current = Nil THEN 1 ELSE 2)
    <3>1. activeObjects \in Seq(Objects) /\ Len(activeObjects) \in Nat /\ from \in Nat \ {0}
      BY <1>1, <2>2, ActiveType
    <3> HIDE DEF from
    <3>2. \A i \in from..Len(activeObjects) : activeObjects[i] \in Objects
      <4> TAKE i \in from..Len(activeObjects)
      <4>1. i \in 1..Len(activeObjects)
        BY <3>1
      <4>2. QED BY <3>1, <4>1, ElementOfSeq
    <3>3. SubSeq(activeObjects, from, Len(activeObjects)) \in Seq(Objects)
      BY <3>1, <3>2, SubSeqProperties
    <3>4. QED BY <2>2, <3>3 DEF Left, from
  <2>3. QED BY <2>1, <2>2
<1>3. Waiting \in Seq(Objects)
  BY <1>1, <1>2, ConcatProperties DEF Waiting
<1>4. current = Nil => Waiting = Pending
  BY DEF Waiting, Left, Pending, ActiveRest
<1>5. QED BY <1>1, <1>2, <1>3, <1>4

\* With the object at the index at hand, what is pending is that and the rest.
LEMMA HandAndRest ==
  ASSUME TypeOK, activeObjects # Nil, currentIndex < Len(activeObjects)
  PROVE  LET next == activeObjects[currentIndex + 1]
             rest == SubSeq(activeObjects, currentIndex + 2, Len(activeObjects)) \o objects
         IN  /\ next \in Objects /\ rest \in Seq(Objects)
             /\ Pending = <<next>> \o rest
             /\ Pending # <<>> /\ Head(Pending) = next /\ Tail(Pending) = rest
<1> DEFINE next == activeObjects[currentIndex + 1]
           end == SubSeq(activeObjects, currentIndex + 2, Len(activeObjects))
           rest == end \o objects
<1>1. activeObjects \in Seq(Objects) /\ objects \in Seq(Objects) /\ currentIndex \in Nat
  BY DEF TypeOK
<1>2. next \in Objects /\ end \in Seq(Objects) /\ ActiveRest = <<next>> \o end
  BY <1>1, SuffixFirst DEF ActiveRest
<1> HIDE DEF next, end
<1>3. rest \in Seq(Objects) /\ <<next>> \in Seq(Objects)
  BY <1>1, <1>2, ConcatProperties
<1>4. Pending = <<next>> \o rest
  BY <1>1, <1>2, <1>3, Regroup DEF Pending
<1> HIDE DEF rest
<1>5. /\ Len(<<next>> \o rest) = 1 + Len(rest) /\ <<next>> \o rest \in Seq(Objects)
      /\ \A i \in 1..(1 + Len(rest)) :
           (<<next>> \o rest)[i] = IF i <= 1 THEN <<next>>[i] ELSE rest[i - 1]
  <2>1. Len(<<next>>) = 1
    OBVIOUS
  <2>2. QED BY <1>3, <2>1, ConcatProperties
<1>6. Len(rest) \in Nat
  BY <1>3, LenProperties
<1>7. Pending # <<>> /\ Head(Pending) = next
  <2>1. Pending[1] = next /\ Len(Pending) # 0
    BY <1>4, <1>5, <1>6
  <2>2. QED BY <1>4, <1>5, <2>1
<1>8. Tail(Pending) = rest
  <2>1. Pending \in Seq(Objects)
    BY <1>4, <1>5
  <2>2. /\ Tail(Pending) \in Seq(Objects) /\ Len(Tail(Pending)) = Len(rest)
        /\ \A i \in 1..Len(rest) : Tail(Pending)[i] = Pending[i + 1]
    BY <1>4, <1>5, <1>6, <1>7, <2>1, HeadTailProperties
  <2>3. \A i \in 1..Len(rest) : Tail(Pending)[i] = rest[i]
    <3> TAKE i \in 1..Len(rest)
    <3>1. i + 1 \in 1..(1 + Len(rest)) /\ ~(i + 1 <= 1) /\ (i + 1) - 1 = i
      BY <1>6
    <3>2. QED BY <1>4, <1>5, <2>2, <3>1
  <2>4. QED BY <1>3, <2>2, <2>3, SeqEqual
<1>9. QED BY <1>2, <1>3, <1>4, <1>7, <1>8 DEF next, rest, end

LEMMA WorkerQueue ==
  ASSUME TypeOK, FetchInRange, AtHand, Execute \/ Worker
  PROVE  Q!Next \/ UNCHANGED Q!vars
<1>1. CASE Reset \/ ResetAgain
  <2>1. Pending' = Pending /\ current = Nil /\ current' = Nil
    BY <1>1, ResetMovesNone
  <2>2. Waiting = Pending /\ Waiting' = Pending'
    BY <2>1 DEF Waiting, Left, Pending, ActiveRest
  <2>3. QED BY <2>1, <2>2, QueueVars DEF Cancelled
<1>2. CASE Fetch /\ activeObjects # Nil
  <2>1. /\ current = Nil /\ current' = activeObjects[currentIndex + 1]
        /\ UNCHANGED <<objects, activeObjects, currentIndex>>
        /\ currentIndex < Len(activeObjects)
    BY <1>2 DEF Fetch, AtHand, FetchInRange
  <2>2. current' # Nil
    BY <1>2, <2>1, HandAndRest, ConsumerAssumption
  <2>3. Waiting = Pending
    BY <2>1, WaitingParts
  <2>4. Waiting' = SubSeq(activeObjects, currentIndex + 2, Len(activeObjects)) \o objects
    BY <1>2, <2>1, <2>2 DEF Waiting, Left
  <2>5. Waiting # <<>> /\ current' = Head(Waiting) /\ Waiting' = Tail(Waiting)
    BY <1>2, <2>1, <2>3, <2>4, HandAndRest
  <2>6. Cancelled' = Cancelled
    BY <1>2, <2>1 DEF Cancelled
  <2>7. QED BY <2>1, <2>5, <2>6, QueueVars
<1>3. CASE Process(FALSE)
  <2>1. current # Nil /\ current' = Nil /\ UNCHANGED <<objects, activeObjects, currentIndex>>
    BY <1>3 DEF Process, AtHand
  <2>2. Waiting' = Pending
    BY <2>1 DEF Waiting, Left, Pending, ActiveRest
  <2>3. CASE activeObjects = Nil
    <3>1. Waiting' = Waiting
      BY <2>1, <2>3 DEF Waiting, Left
    <3>2. QED BY <2>1, <3>1, QueueVars DEF Cancelled
  <2>4. CASE activeObjects # Nil
    <3>1. current = activeObjects[currentIndex + 1] /\ currentIndex < Len(activeObjects)
      BY <2>1, <2>4 DEF AtHand
    <3>2. Waiting = SubSeq(activeObjects, currentIndex + 2, Len(activeObjects)) \o objects
      BY <2>1, <2>4 DEF Waiting, Left
    <3>3. Waiting' = <<current>> \o Waiting
      BY <2>2, <2>4, <3>1, <3>2, HandAndRest
    <3>4. QED BY <2>1, <2>4, <3>3, QueueVars DEF Cancelled
  <2>5. QED BY <2>3, <2>4
<1>4. CASE Advance
  <2>1. /\ current # Nil /\ current' = Nil /\ currentIndex' = currentIndex + 1
        /\ UNCHANGED <<objects, activeObjects>> /\ currentIndex \in Nat
    BY <1>4 DEF Advance, AtHand, TypeOK
  <2>2. (currentIndex + 1) + 1 = currentIndex + 2
    BY <2>1
  <2>3. Waiting' = Waiting
    BY <2>1, <2>2 DEF Waiting, Left
  <2>4. QED BY <2>1, <2>3, QueueVars DEF Cancelled
<1>5. CASE ~(Reset \/ ResetAgain \/ (Fetch /\ activeObjects # Nil) \/ Process(FALSE) \/ Advance)
  <2>1. UNCHANGED <<objects, activeObjects, currentIndex, current>>
    BY <1>5 DEF Execute, Worker, IterationStep, BeginIteration, Recount, ZeroProgress, GoIdle,
       WakeUp, Fetch, Process, CheckPause, Resume, CheckAbort, queueVars
  <2>2. QED BY <2>1, QueueVars DEF Waiting, Left, Cancelled
<1>6. QED BY <1>1, <1>2, <1>3, <1>4, <1>5

LEMMA AdderQueue ==
  ASSUME TypeOK, NEW a \in Adders, AdderStep(a) \/ \E array \in Arrays : AddObjects(a, array)
  PROVE  Q!Next \/ UNCHANGED Q!vars
<1>1. CASE AppendBatch(a)
  <2> DEFINE new == batch[a]
  <2>1. objects' = objects \o new /\ UNCHANGED <<activeObjects, currentIndex, current>>
    BY <1>1 DEF AppendBatch
  <2>2. new \in Arrays /\ new \in Seq(Objects)
    BY ArraysAreSeqs DEF TypeOK
  <2> HIDE DEF new
  <2>3. Left' = Left /\ Cancelled' = Cancelled
    BY <2>1 DEF Left, Cancelled
  <2>4. (Left \o objects) \o new = Left \o (objects \o new)
    BY <2>2, WaitingParts, Regroup
  <2>5. Waiting' = Waiting \o new
    BY <2>1, <2>3, <2>4 DEF Waiting
  <2>6. QED BY <2>1, <2>2, <2>3, <2>5, QueueVars
<1>2. CASE ~AppendBatch(a)
  <2>1. UNCHANGED queueVars
    BY <1>2 DEF AdderStep, ReadCount, StoreCount, SignalProcess, AddObjects
  <2>2. QED BY <2>1, QueueVars DEF queueVars, Waiting, Left, Cancelled
<1>3. QED BY <1>1, <1>2

LEMMA CallerQueue ==
  ASSUME NEW c \in Callers, CallerStep(c) \/ Pause(c) \/ Continue(c) \/ Cancel(c) \/ Abort(c)
  PROVE  Q!Next \/ UNCHANGED Q!vars
<1>1. CASE Cancel(c) \/ AbortCancel(c)
  <2>1. objects' = <<>> /\ activeObjects' = Nil /\ UNCHANGED current
    BY <1>1 DEF Cancel, AbortCancel, RemoveAll
  <2>2. Waiting' = <<>>
    <3>1. Left' = <<>> /\ <<>> \in Seq(Objects)
      BY <2>1 DEF Left
    <3>2. QED BY <2>1, <3>1 DEF Waiting
  <2>3. QED BY <2>1, <2>2, QueueVars DEF Cancelled
<1>2. CASE ~(Cancel(c) \/ AbortCancel(c))
  <2>1. UNCHANGED queueVars
    BY <1>2 DEF CallerStep, AbortState, SignalContinue, Pause, Continue, Abort
  <2>2. QED BY <2>1, QueueVars DEF queueVars, Waiting, Left, Cancelled
<1>3. QED BY <1>1, <1>2

LEMMA QueueStep == ConsumerInv /\ AtHand /\ [Next]_vars => [Q!Next]_(Q!vars)
<1> SUFFICES ASSUME ConsumerInv, AtHand, [Next]_vars PROVE Q!Next \/ UNCHANGED Q!vars
  OBVIOUS
<1>1. TypeOK /\ FetchInRange
  BY DEF ConsumerInv
<1>2. CASE Next
  BY <1>1, <1>2, WorkerQueue, AdderQueue, CallerQueue DEF Next
<1>3. CASE UNCHANGED vars
  BY <1>3, QueueVars DEF vars, queueVars, Waiting, Left, Cancelled
<1>4. QED BY <1>2, <1>3

\* The two arrays and the index are the queue a client is promised: objects are
\* taken in the order they were added, one at a time, an incomplete one again
\* first, and a cancel removes what waits but not the object at hand
\* (SEConsumer.h:17-46).
THEOREM ConsumerIsQueue == Spec => RefinesWorkQueue
<1>1. Init => Q!Init
  <2> SUFFICES ASSUME Init PROVE Q!Init
    OBVIOUS
  <2>1. <<>> \o <<>> = <<>>
    <3>1. <<>> \in Seq(Objects)
      OBVIOUS
    <3>2. QED BY <3>1, ConcatEmptySeq
  <2>2. QED BY <2>1 DEF Init, Q!Init
<1>2. QED BY <1>1, QueueStep, AccountHolds, PTL DEF Spec, RefinesWorkQueue, Q!Spec

=============================================================================
