------------------------------ MODULE Consumer -------------------------------
(***************************************************************************)
(* SEConsumer (src/Source/SEConsumer.m), a SELooper whose iteration works  *)
(* through arrays of objects that other threads add.                       *)
(*                                                                         *)
(* One action is one stretch of code between two accesses to shared state: *)
(* a @synchronized block, an unlocked access, a semaphore call.  The delay *)
(* of the completedCount notification and the two "recent object" ivars    *)
(* only feed the display and are left out.                                 *)
(***************************************************************************)
EXTENDS Integers, Sequences, FiniteSets

CONSTANTS
  Objects,     \* the objects clients may add
  Wanted,      \* those for which shouldProcessObject: answers YES
  Adders,      \* the threads that call addObjects:
  Callers,     \* the threads that call pause, continue, cancel and abort
  MaxBatch,    \* bound: the longest array passed to addObjects:
  Nil          \* no object, no array

ASSUME ConsumerAssumption ==
  /\ Wanted \subseteq Objects
  /\ IsFiniteSet(Objects)
  /\ MaxBatch \in Nat
  /\ Nil \notin Objects
  /\ Nil \notin Seq(Objects)

VARIABLES
  state, continueSemaphore,  \* of SELooper
  pc,                        \* where the worker is
  ctl,                       \* where each caller is in its call
  objects,                   \* the array addObjects: appends to
  activeObjects,             \* the array the worker goes through, or Nil
  currentIndex,
  current,                   \* the object being iterated over, or Nil
  processSemaphore,          \* signals held by the binary semaphore
  isWorking, completedCount, inProgressCount,
  adding,                    \* where each adder is in addObjects:
  batch, signal, seen,       \* locals of addObjects:
  offered,                   \* history: the objects given to addObjects:
  finished,                  \* history: the objects finished, in order
  dropped                    \* history: the objects removed by a cancel

looperVars == <<state, continueSemaphore>>
queueVars == <<objects, activeObjects, currentIndex, current>>
countVars == <<isWorking, completedCount, inProgressCount>>
adderVars == <<adding, batch, signal, seen, offered>>
historyVars == <<finished, dropped>>

\* What the worker's iteration, an adder and a caller never write.
workerFrame == <<looperVars, ctl, adderVars>>
adderFrame == <<looperVars, pc, ctl, historyVars>>
callerFrame == <<pc, countVars, adderVars>>

vars == <<looperVars, pc, ctl, queueVars, processSemaphore, countVars,
          adderVars, historyVars>>

-----------------------------------------------------------------------------
LooperStates == {"Running", "Pause", "Abort", "Finished"}

\* Inside -iteration, and in the rest of runWorker.
IterationAt == {"top", "fetch", "process", "advance", "reset", "recount",
                "zero", "idle", "asleep", "resetAgain"}
WorkerAt == IterationAt \cup {"unstarted", "checkPause", "waiting", "checkAbort", "ended"}

CallerAt == {"none", "signal", "abortCancel", "abortState", "lastSignal", "done"}

AdderAt == {"none", "append", "read", "store", "signal"}

\* What may be passed to addObjects:.
Arrays == UNION {[1..n -> Objects] : n \in 0..MaxBatch}

TypeOK ==
  /\ state \in LooperStates
  /\ continueSemaphore \in 0..1
  /\ pc \in WorkerAt
  /\ ctl \in [Callers -> CallerAt]
  /\ objects \in Seq(Objects)
  /\ activeObjects \in Seq(Objects) \cup {Nil}
  /\ currentIndex \in Nat
  /\ current \in Objects \cup {Nil}
  /\ processSemaphore \in 0..1
  /\ isWorking \in BOOLEAN
  /\ completedCount \in Nat
  /\ inProgressCount \in Nat
  /\ adding \in [Adders -> AdderAt]
  /\ batch \in [Adders -> Arrays]
  /\ signal \in [Adders -> BOOLEAN]
  /\ seen \in [Adders -> Nat]
  /\ offered \subseteq Objects
  /\ finished \in Seq(Objects)
  /\ dropped \subseteq Objects

Init ==
  /\ state = "Finished"
  /\ continueSemaphore = 0
  /\ pc = "unstarted"
  /\ ctl = [c \in Callers |-> "none"]
  /\ objects = <<>>
  /\ activeObjects = Nil
  /\ currentIndex = 0
  /\ current = Nil
  /\ processSemaphore = 0
  /\ isWorking = FALSE
  /\ completedCount = 0
  /\ inProgressCount = 0
  /\ adding = [a \in Adders |-> "none"]
  /\ batch = [a \in Adders |-> <<>>]
  /\ signal = [a \in Adders |-> FALSE]
  /\ seen = [a \in Adders |-> 0]
  /\ offered = {}
  /\ finished = <<>>
  /\ dropped = {}

-----------------------------------------------------------------------------
(* The arrays.                                                             *)

Elements(s) == {s[i] : i \in DOMAIN s}

\* [activeObjects count]: a message to nil answers 0.
ActiveCount == IF activeObjects = Nil THEN 0 ELSE Len(activeObjects)

\* What activeObjects still holds for the worker, the object at hand included.
ActiveRest ==
  IF activeObjects = Nil THEN <<>>
  ELSE SubSeq(activeObjects, currentIndex + 1, Len(activeObjects))

Pending == ActiveRest \o objects

\* -resetActiveObjects
ResetActiveObjects ==
  /\ activeObjects' = objects
  /\ objects' = <<>>

-----------------------------------------------------------------------------
(* addObjects:.  An adder hands over each object once, which bounds the    *)
(* model; setupObject: does nothing in SEConsumer.                         *)

Distinct(s) == \A i, j \in DOMAIN s : s[i] = s[j] => i = j

AddObjects(a, array) ==
  /\ pc # "unstarted"
  /\ adding[a] = "none"
  /\ Distinct(array)
  /\ Elements(array) \cap offered = {}
  /\ adding' = [adding EXCEPT ![a] = "append"]
  /\ batch' = [batch EXCEPT ![a] = array]
  /\ offered' = offered \cup Elements(array)
  /\ UNCHANGED <<adderFrame, queueVars, processSemaphore, countVars, signal, seen>>

\* Mutant: `objects' is tested after it has been extended.
AppendTestsLate(a) ==
  /\ adding[a] = "append"
  /\ signal' = [signal EXCEPT ![a] = (objects \o batch[a] = <<>>)]
  /\ objects' = objects \o batch[a]
  /\ adding' = [adding EXCEPT ![a] = "read"]
  /\ UNCHANGED <<adderFrame, activeObjects, currentIndex, current,
                 processSemaphore, countVars, batch, seen, offered>>

\* Mutant: the new objects go to the front.
AppendInFront(a) ==
  /\ adding[a] = "append"
  /\ signal' = [signal EXCEPT ![a] = (objects = <<>>)]
  /\ objects' = batch[a] \o objects
  /\ adding' = [adding EXCEPT ![a] = "read"]
  /\ UNCHANGED <<adderFrame, activeObjects, currentIndex, current,
                 processSemaphore, countVars, batch, seen, offered>>

\* Under the lock: a signal is due only if there was nothing in `objects'.
AppendBatch(a) ==
  /\ adding[a] = "append"
  /\ signal' = [signal EXCEPT ![a] = (objects = <<>>)]
  /\ objects' = objects \o batch[a]
  /\ adding' = [adding EXCEPT ![a] = "read"]
  /\ UNCHANGED <<adderFrame, activeObjects, currentIndex, current,
                 processSemaphore, countVars, batch, seen, offered>>

\* inProgressCount is read without the lock ...
ReadCount(a) ==
  /\ adding[a] = "read"
  /\ seen' = [seen EXCEPT ![a] = inProgressCount]
  /\ adding' = [adding EXCEPT ![a] = "store"]
  /\ UNCHANGED <<adderFrame, queueVars, processSemaphore, countVars, batch,
                 signal, offered>>

ProcessCount(array) == Cardinality({i \in DOMAIN array : array[i] \in Wanted})

\* ... and stored, increased, under it.  The locals are dead from here on.
StoreCount(a) ==
  /\ adding[a] = "store"
  /\ inProgressCount' = seen[a] + ProcessCount(batch[a])
  /\ adding' = [adding EXCEPT ![a] = IF signal[a] THEN "signal" ELSE "none"]
  /\ batch' = [batch EXCEPT ![a] = <<>>]
  /\ signal' = [signal EXCEPT ![a] = FALSE]
  /\ seen' = [seen EXCEPT ![a] = 0]
  /\ UNCHANGED <<adderFrame, queueVars, processSemaphore, isWorking,
                 completedCount, offered>>

SignalProcess(a) ==
  /\ adding[a] = "signal"
  /\ processSemaphore' = 1
  /\ adding' = [adding EXCEPT ![a] = "none"]
  /\ UNCHANGED <<adderFrame, queueVars, countVars, batch, signal, seen, offered>>

AdderStep(a) == AppendBatch(a) \/ ReadCount(a) \/ StoreCount(a) \/ SignalProcess(a)

-----------------------------------------------------------------------------
(* The callers.  A thread that has aborted the consumer calls it no more.  *)

CallerFree(c) == pc # "unstarted" /\ ctl[c] = "none"

Execute ==
  /\ pc = "unstarted"
  /\ state' = "Running"
  /\ pc' = "top"
  /\ UNCHANGED <<continueSemaphore, ctl, queueVars, processSemaphore,
                 countVars, adderVars, historyVars>>

Pause(c) ==
  /\ CallerFree(c)
  /\ state' = "Pause"
  /\ UNCHANGED <<callerFrame, continueSemaphore, ctl, queueVars,
                 processSemaphore, historyVars>>

Continue(c) ==
  /\ CallerFree(c)
  /\ state' = "Running"
  /\ ctl' = [ctl EXCEPT ![c] = IF state = "Pause" THEN "signal" ELSE "none"]
  /\ UNCHANGED <<callerFrame, continueSemaphore, queueVars,
                 processSemaphore, historyVars>>

\* Mutant: activeObjects is emptied, not released.
RemoveAllKeepsArray ==
  /\ objects' = <<>>
  /\ activeObjects' = <<>>
  /\ dropped' = dropped \cup Elements(Pending)

\* The @synchronized block of -cancel.
RemoveAll ==
  /\ objects' = <<>>
  /\ activeObjects' = Nil
  /\ dropped' = dropped \cup Elements(Pending)

Cancel(c) ==
  /\ CallerFree(c)
  /\ RemoveAll
  /\ UNCHANGED <<callerFrame, looperVars, ctl, currentIndex, current,
                 processSemaphore, finished>>

\* -abort signals processSemaphore, "allow worker thread to exit", ...
Abort(c) ==
  /\ CallerFree(c)
  /\ processSemaphore' = 1
  /\ ctl' = [ctl EXCEPT ![c] = "abortCancel"]
  /\ UNCHANGED <<callerFrame, looperVars, queueVars, historyVars>>

\* ... cancels ...
AbortCancel(c) ==
  /\ ctl[c] = "abortCancel"
  /\ RemoveAll
  /\ ctl' = [ctl EXCEPT ![c] = "abortState"]
  /\ UNCHANGED <<callerFrame, looperVars, currentIndex, current,
                 processSemaphore, finished>>

\* Mutant: a paused worker is not signalled.
AbortStateSilent(c) ==
  /\ ctl[c] = "abortState"
  /\ state' = "Abort"
  /\ ctl' = [ctl EXCEPT ![c] = "done"]
  /\ UNCHANGED <<callerFrame, continueSemaphore, queueVars,
                 processSemaphore, historyVars>>

\* ... and calls the looper's abort.
AbortState(c) ==
  /\ ctl[c] = "abortState"
  /\ state' = "Abort"
  /\ ctl' = [ctl EXCEPT ![c] = IF state = "Pause" THEN "lastSignal" ELSE "done"]
  /\ UNCHANGED <<callerFrame, continueSemaphore, queueVars,
                 processSemaphore, historyVars>>

SignalContinue(c) ==
  /\ ctl[c] \in {"signal", "lastSignal"}
  /\ continueSemaphore' = 1
  /\ ctl' = [ctl EXCEPT ![c] = IF ctl[c] = "signal" THEN "none" ELSE "done"]
  /\ UNCHANGED <<callerFrame, state, queueVars, processSemaphore, historyVars>>

CallerStep(c) == AbortCancel(c) \/ AbortState(c) \/ SignalContinue(c)

-----------------------------------------------------------------------------
(* The worker: -iteration and -activeObject.                               *)

\* The first count of -activeObject decides whether the array is used up.
BeginIteration ==
  /\ pc = "top"
  /\ state # "Finished"
  /\ pc' = IF ActiveCount = 0 \/ currentIndex >= ActiveCount THEN "reset" ELSE "fetch"
  /\ UNCHANGED <<workerFrame, queueVars, processSemaphore, countVars, historyVars>>

\* Mutant: the index of the old array is kept.
ResetKeepsIndex ==
  /\ pc = "reset"
  /\ ResetActiveObjects
  /\ pc' = "recount"
  /\ UNCHANGED <<workerFrame, currentIndex, current, processSemaphore,
                 countVars, historyVars>>

Reset ==
  /\ pc = "reset"
  /\ ResetActiveObjects
  /\ currentIndex' = 0
  /\ pc' = "recount"
  /\ UNCHANGED <<workerFrame, current, processSemaphore, countVars, historyVars>>

\* With objects to go through, -activeObject answers nil for this iteration.
Recount ==
  /\ pc = "recount"
  /\ pc' = IF ActiveCount > 0 THEN "checkPause" ELSE "zero"
  /\ UNCHANGED <<workerFrame, queueVars, processSemaphore, countVars, historyVars>>

ZeroProgress ==
  /\ pc = "zero"
  /\ inProgressCount' = 0
  /\ pc' = "idle"
  /\ UNCHANGED <<workerFrame, queueVars, processSemaphore, isWorking,
                 completedCount, historyVars>>

\* setCompletedCount:0, setIsWorking:FALSE
GoIdle ==
  /\ pc = "idle"
  /\ completedCount' = 0
  /\ isWorking' = FALSE
  /\ pc' = "asleep"
  /\ UNCHANGED <<workerFrame, queueVars, processSemaphore, inProgressCount, historyVars>>

\* MPWaitOnSemaphore(processSemaphore) returns; setIsWorking:TRUE.
WakeUp ==
  /\ pc = "asleep"
  /\ processSemaphore = 1
  /\ processSemaphore' = 0
  /\ isWorking' = TRUE
  /\ pc' = "resetAgain"
  /\ UNCHANGED <<workerFrame, queueVars, completedCount, inProgressCount, historyVars>>

ResetAgain ==
  /\ pc = "resetAgain"
  /\ ResetActiveObjects
  /\ pc' = "recount"
  /\ UNCHANGED <<workerFrame, currentIndex, current, processSemaphore,
                 countVars, historyVars>>

\* objectAtIndex: under the second lock; activeObjects may be nil by now.  An
\* object that should not be processed is complete at once.
Fetch ==
  /\ pc = "fetch"
  /\ \/ /\ activeObjects = Nil
        /\ pc' = "checkPause"
        /\ UNCHANGED current
     \/ /\ activeObjects # Nil
        /\ current' = activeObjects[currentIndex + 1]
        /\ pc' = IF current' \in Wanted THEN "process" ELSE "advance"
  /\ UNCHANGED <<workerFrame, objects, activeObjects, currentIndex,
                 processSemaphore, countVars, historyVars>>

\* processObject: of the subclass answers whether the object is complete.
Process(complete) ==
  /\ pc = "process"
  /\ pc' = IF complete THEN "advance" ELSE "checkPause"
  /\ current' = IF complete THEN current ELSE Nil
  /\ UNCHANGED <<workerFrame, objects, activeObjects, currentIndex,
                 processSemaphore, countVars, historyVars>>

Advance ==
  /\ pc = "advance"
  /\ completedCount' = IF current \in Wanted THEN completedCount + 1 ELSE completedCount
  /\ currentIndex' = currentIndex + 1
  /\ current' = Nil
  /\ finished' = Append(finished, current)
  /\ pc' = "checkPause"
  /\ UNCHANGED <<workerFrame, objects, activeObjects, processSemaphore,
                 isWorking, inProgressCount, dropped>>

(* The worker: the rest of runWorker.                                      *)

CheckPause ==
  /\ pc = "checkPause"
  /\ pc' = IF state = "Pause" THEN "waiting" ELSE "checkAbort"
  /\ UNCHANGED <<workerFrame, queueVars, processSemaphore, countVars, historyVars>>

Resume ==
  /\ pc = "waiting"
  /\ continueSemaphore = 1
  /\ continueSemaphore' = 0
  /\ pc' = "checkAbort"
  /\ UNCHANGED <<state, ctl, queueVars, processSemaphore, countVars,
                 adderVars, historyVars>>

CheckAbort ==
  /\ pc = "checkAbort"
  /\ pc' = IF state = "Abort" THEN "ended" ELSE "top"
  /\ UNCHANGED <<workerFrame, queueVars, processSemaphore, countVars, historyVars>>

IterationStep ==
  \/ BeginIteration \/ Reset \/ Recount \/ ZeroProgress \/ GoIdle \/ WakeUp
  \/ ResetAgain \/ Fetch \/ (\E complete \in BOOLEAN : Process(complete)) \/ Advance

Worker == IterationStep \/ CheckPause \/ Resume \/ CheckAbort

-----------------------------------------------------------------------------
Next ==
  \/ Execute
  \/ Worker
  \/ \E a \in Adders : AdderStep(a) \/ \E array \in Arrays : AddObjects(a, array)
  \/ \E c \in Callers : CallerStep(c) \/ Pause(c) \/ Continue(c) \/ Cancel(c) \/ Abort(c)

Spec == Init /\ [][Next]_vars

\* The threads are scheduled, a call that has begun returns, and an object
\* that is retried is complete in the end.  No caller has to call anything.
Fairness ==
  /\ WF_vars(Execute)
  /\ WF_vars(Worker)
  /\ SF_vars(Process(TRUE))
  /\ \A a \in Adders : WF_vars(AdderStep(a))
  /\ \A c \in Callers : WF_vars(CallerStep(c))

FairSpec == Spec /\ Fairness

-----------------------------------------------------------------------------
(* Safety.                                                                 *)

\* No wake-up is lost: when the worker sleeps, or has found its array empty
\* and is on its way to sleep, objects that wait have a signal to wake it or
\* an adder that is going to send one.
NoLostWakeup ==
  /\ pc \in {"recount", "zero", "idle", "asleep"}
  /\ objects # <<>>
  => processSemaphore = 1 \/ \E a \in Adders : signal[a] \/ adding[a] = "signal"

\* objectAtIndex: never raises a range exception, although the count that
\* allowed it was taken under an earlier lock: a cancel in between leaves nil,
\* which answers nil.
FetchInRange ==
  pc = "fetch" /\ activeObjects # Nil => currentIndex < Len(activeObjects)

\* Every object that has been appended is finished, waiting or cancelled, and
\* none is finished twice or finished and waiting: moving `objects' into
\* `activeObjects' and going through it by index neither loses nor repeats
\* one.  (An object at hand when a cancel comes may be finished as well.)
InAddersHands == UNION {Elements(batch[a]) : a \in {b \in Adders : adding[b] = "append"}}

Accounted ==
  /\ Distinct(finished \o Pending)
  /\ offered \ InAddersHands = Elements(finished) \cup dropped \cup Elements(Pending)

\* The worker refines the looper: -iteration is one step of it, however many
\* steps it takes here.
L == INSTANCE Looper WITH
       pc <- IF pc \in IterationAt THEN "iterate" ELSE pc,
       call <- [c \in Callers |-> IF ctl[c] \in {"signal", "lastSignal"}
                                  THEN "signal" ELSE "none"]

RefinesLooper == L!Spec

\* The consumer refines the queue it promises.
Q == INSTANCE WorkQueue WITH
       queue <- (IF activeObjects = Nil THEN <<>>
                 ELSE SubSeq(activeObjects,
                             currentIndex + (IF current = Nil THEN 1 ELSE 2),
                             Len(activeObjects))) \o objects,
       Batches <- Arrays,
       hand <- current,
       cancelled <- current # Nil /\ activeObjects = Nil

RefinesWorkQueue == Q!Spec

(* Liveness.                                                               *)

\* Every object added is worked off, unless the looper is paused or aborted
\* meanwhile or a cancel removes the object.
AllWorkedOff ==
  \A o \in Objects :
    o \in offered ~> o \in Elements(finished) \cup dropped \/ state # "Running"

Aborted == \E c \in Callers : ctl[c] = "done"

\* An abort leaves nothing to do and the worker not waiting in a pause: the worker
\* ends, or it sleeps with both arrays empty, although the abort signals it before it
\* empties them and sets the state (SEConsumer.m:78-82).
AbortRests ==
  Aborted /\ state = "Abort"
    ~> \/ pc = "ended"
       \/ pc = "asleep" /\ objects = <<>> /\ ActiveCount = 0
       \/ state # "Abort"

\* "allow worker thread to exit" (SEConsumer.m:79): an abort ends the worker.  But
\* one that sleeps is woken by the abort, finds nothing, and goes back to sleep
\* inside -activeObject (SEConsumer.m:212-226), where it never looks at the state.
\* No run has this property: it fails, as the README says.
AbortExits == Aborted /\ state = "Abort" ~> pc = "ended" \/ state # "Abort"
=============================================================================
