--------------------------- MODULE PhasedConsumer ----------------------------
(***************************************************************************)
(* SEPhasedConsumer (src/Source/SEPhasedConsumer.m): two consumers in a    *)
(* row.  The second waits on a counting semaphore before each object; the  *)
(* first signals it for an object the second should process.               *)
(*                                                                         *)
(* Each phase is a Consumer (Consumer.tla) seen at the grain at which the  *)
(* phases meet: going through activeObjects by index is taking its head    *)
(* (Consumer!RefinesWorkQueue), and the locks around the counts are left   *)
(* out.  So is the looper's pause, which CopyPipeline adds.                *)
(***************************************************************************)
EXTENDS Integers, Sequences, FiniteSets

CONSTANTS
  Objects,     \* the objects that may be added
  Wanted,      \* those the second phase should process
  MaxBatch,    \* bound: the longest array passed to addObjects:
  Nil          \* no object

ASSUME PhasedAssumption ==
  /\ IsFiniteSet(Objects)
  /\ Wanted \subseteq Objects
  /\ MaxBatch \in Nat
  /\ Nil \notin Objects

VARIABLES
  objects, active,   \* per phase: the arrays of Consumer, active without
                     \* the objects that are finished
  hand,              \* per phase: the object being iterated over, or Nil
  at,                \* per phase: where the worker is
  wake,              \* per phase: signals held by processSemaphore
  semaphore,         \* signals held by the second phase's semaphore
  adding, batch,     \* where the one thread that adds objects is
  todo,              \* the steps of a cancel still to be taken
  offered,           \* history: the objects added to the first phase
  done               \* history, per phase: the objects it has finished

queueVars == <<objects, active>>
workerVars == <<hand, at, semaphore, done>>
adderVars == <<adding, batch, offered>>
vars == <<queueVars, workerVars, wake, adderVars, todo>>

Phases == 1..2

\* Between MPDeleteSemaphore and MPCreateSemaphore there is no semaphore.
Deleted == -1

WorkerAt == {"top", "await", "blocked", "work", "finished", "again",
             "between", "idle", "asleep", "awake"}

\* -cancel of a phase cancels the next one.  Nobody waits on the semaphore of
\* the first phase, so its deletion is left out.
CancelSecond == <<"willCancel", "removeSecond", "delete", "create">>
CancelFirst == <<"removeFirst">> \o CancelSecond

\* SECopyController cancels both phases, the second one twice therefore.
CancelBoth == CancelFirst \o CancelSecond

CancelStep == {"removeFirst", "willCancel", "removeSecond", "delete", "create"}

TypeOK ==
  /\ objects \in [Phases -> Seq(Objects)]
  /\ active \in [Phases -> Seq(Objects)]
  /\ hand \in [Phases -> Objects \cup {Nil}]
  /\ at \in [Phases -> WorkerAt]
  /\ wake \in [Phases -> 0..1]
  /\ semaphore \in Nat \cup {Deleted}
  /\ adding \in {"none", "setup", "second"}
  /\ batch \in Seq(Objects)
  /\ todo \in Seq(CancelStep)
  /\ offered \subseteq Objects
  /\ done \in [Phases -> SUBSET Objects]

Init ==
  /\ objects = [p \in Phases |-> <<>>]
  /\ active = [p \in Phases |-> <<>>]
  /\ hand = [p \in Phases |-> Nil]
  /\ at = [p \in Phases |-> "top"]
  /\ wake = [p \in Phases |-> 0]
  /\ semaphore = 0
  /\ adding = "none"
  /\ batch = <<>>
  /\ todo = <<>>
  /\ offered = {}
  /\ done = [p \in Phases |-> {}]

-----------------------------------------------------------------------------
(* addObjects: to the first phase, then to the next.  One thread adds, and *)
(* it adds each object once.                                               *)

Elements(s) == {s[i] : i \in DOMAIN s}
Distinct(s) == \A i, j \in DOMAIN s : s[i] = s[j] => i = j
Arrays == UNION {[1..n -> Objects] : n \in 1..MaxBatch}

\* Mutant: objects added to a phase that is busy overtake those that wait.
AppendInFront(p, array) ==
  /\ objects' = [objects EXCEPT ![p] = array \o @]
  /\ wake' = [wake EXCEPT ![p] = IF objects[p] = <<>> THEN 1 ELSE @]

\* SEConsumer's addObjects:, the append and the signal that follows it.
Append1(p, array) ==
  /\ objects' = [objects EXCEPT ![p] = @ \o array]
  /\ wake' = [wake EXCEPT ![p] = IF objects[p] = <<>> THEN 1 ELSE @]

AddFirst(array) ==
  /\ adding = "none"
  /\ Distinct(array)
  /\ Elements(array) \cap offered = {}
  /\ Append1(1, array)
  /\ adding' = "setup"
  /\ batch' = array
  /\ offered' = offered \cup Elements(array)
  /\ UNCHANGED <<active, workerVars, todo>>

\* The next phase sets its objects up, which a subclass gives a meaning.
SetUpSecond ==
  /\ adding = "setup"
  /\ adding' = "second"
  /\ UNCHANGED <<queueVars, workerVars, wake, batch, offered, todo>>

AddSecond ==
  /\ adding = "second"
  /\ Append1(2, batch)
  /\ adding' = "none"
  /\ batch' = <<>>
  /\ UNCHANGED <<active, workerVars, offered, todo>>

-----------------------------------------------------------------------------
(* The workers: -activeObject.                                             *)

Move(p, place) == at' = [at EXCEPT ![p] = place]

\* Mutant: the second phase does not wait for the first.
TakeAtOnce(p) ==
  /\ at[p] = "top"
  /\ active[p] # <<>>
  /\ hand' = [hand EXCEPT ![p] = Head(active[p])]
  /\ Move(p, "work")
  /\ UNCHANGED <<queueVars, semaphore, done, wake, adderVars, todo>>

Take(p) ==
  /\ at[p] = "top"
  /\ active[p] # <<>>
  /\ hand' = [hand EXCEPT ![p] = Head(active[p])]
  /\ Move(p, IF p = 2 THEN "await" ELSE "work")
  /\ UNCHANGED <<queueVars, semaphore, done, wake, adderVars, todo>>

\* -resetActiveObjects; with objects to go through, this iteration ends.
Reset(p) ==
  /\ at[p] \in {"top", "awake"}
  /\ active[p] = <<>>
  /\ active' = [active EXCEPT ![p] = objects[p]]
  /\ objects' = [objects EXCEPT ![p] = <<>>]
  /\ Move(p, IF objects[p] = <<>> THEN "idle" ELSE "between")
  /\ UNCHANGED <<hand, semaphore, done, wake, adderVars, todo>>

\* consumerWillSleep, to which a subclass gives a meaning.
WillSleep(p) ==
  /\ at[p] = "idle"
  /\ Move(p, "asleep")
  /\ UNCHANGED <<queueVars, hand, semaphore, done, wake, adderVars, todo>>

WakeUp(p) ==
  /\ at[p] = "asleep"
  /\ wake[p] = 1
  /\ wake' = [wake EXCEPT ![p] = 0]
  /\ Move(p, "awake")
  /\ UNCHANGED <<queueVars, hand, semaphore, done, adderVars, todo>>

-----------------------------------------------------------------------------
(* The workers: -iterateOverObject:.                                       *)

\* A signal to a deleted semaphore is an error nobody looks at.
Signalled == IF semaphore = Deleted THEN Deleted ELSE semaphore + 1

\* MPWaitOnSemaphore of the second phase takes a signal, ...
Pass ==
  /\ at[2] \in {"await", "blocked"}
  /\ semaphore > 0
  /\ semaphore' = semaphore - 1
  /\ Move(2, "work")
  /\ UNCHANGED <<queueVars, hand, done, wake, adderVars, todo>>

\* ... or waits for one, ...
Block ==
  /\ at[2] = "await"
  /\ semaphore = 0
  /\ Move(2, "blocked")
  /\ UNCHANGED <<queueVars, hand, semaphore, done, wake, adderVars, todo>>

\* ... or returns at once for want of a semaphore.
PassDeleted ==
  /\ at[2] = "await"
  /\ semaphore = Deleted
  /\ Move(2, "work")
  /\ UNCHANGED <<queueVars, hand, semaphore, done, wake, adderVars, todo>>

\* SEConsumer's iterateOverObject: answers whether the object is complete; an
\* object that should not be processed is.
Iterate(p, complete) ==
  /\ at[p] = "work"
  /\ p = 2 /\ hand[2] \notin Wanted => complete
  /\ Move(p, IF complete THEN "finished" ELSE "again")
  /\ UNCHANGED <<queueVars, hand, semaphore, done, wake, adderVars, todo>>

\* Mutant: the first phase signals for no object.
FinishSilent(p) ==
  /\ at[p] = "finished"
  /\ active' = [active EXCEPT ![p] = IF @ = <<>> THEN <<>> ELSE Tail(@)]
  /\ hand' = [hand EXCEPT ![p] = Nil]
  /\ done' = [done EXCEPT ![p] = @ \cup {hand[p]}]
  /\ semaphore' = semaphore
  /\ Move(p, "between")
  /\ UNCHANGED <<objects, wake, adderVars, todo>>

\* The end of iterateOverObject: and of -iteration; after a cancel there is
\* nothing left to advance in.
Finish(p) ==
  /\ at[p] = "finished"
  /\ active' = [active EXCEPT ![p] = IF @ = <<>> THEN <<>> ELSE Tail(@)]
  /\ hand' = [hand EXCEPT ![p] = Nil]
  /\ done' = [done EXCEPT ![p] = @ \cup {hand[p]}]
  /\ semaphore' = IF p = 1 /\ hand[1] \in Wanted THEN Signalled ELSE semaphore
  /\ Move(p, "between")
  /\ UNCHANGED <<objects, wake, adderVars, todo>>

\* Mutant: either phase signals for an incomplete object.
RetrySignals(p) ==
  /\ at[p] = "again"
  /\ hand' = [hand EXCEPT ![p] = Nil]
  /\ semaphore' = Signalled
  /\ Move(p, "between")
  /\ UNCHANGED <<queueVars, done, wake, adderVars, todo>>

\* Incomplete: the second phase signals itself for the object's other chance.
Retry(p) ==
  /\ at[p] = "again"
  /\ hand' = [hand EXCEPT ![p] = Nil]
  /\ semaphore' = IF p = 2 THEN Signalled ELSE semaphore
  /\ Move(p, "between")
  /\ UNCHANGED <<queueVars, done, wake, adderVars, todo>>

NextIteration(p) ==
  /\ at[p] = "between"
  /\ Move(p, "top")
  /\ UNCHANGED <<queueVars, hand, semaphore, done, wake, adderVars, todo>>

-----------------------------------------------------------------------------
(* The cancel, one step after the other, on one thread.                    *)

BeginCancel ==
  /\ todo = <<>>
  /\ todo' = CancelBoth
  /\ UNCHANGED <<queueVars, workerVars, wake, adderVars>>

Step(name) ==
  /\ todo # <<>>
  /\ Head(todo) = name
  /\ todo' = Tail(todo)

\* SEConsumer's cancel
RemoveAll(p) ==
  /\ Step(IF p = 1 THEN "removeFirst" ELSE "removeSecond")
  /\ objects' = [objects EXCEPT ![p] = <<>>]
  /\ active' = [active EXCEPT ![p] = <<>>]
  /\ UNCHANGED <<workerVars, wake, adderVars>>

\* Called first in the cancel of a phase; a subclass gives it a meaning.
WillCancel ==
  /\ Step("willCancel")
  /\ UNCHANGED <<queueVars, workerVars, wake, adderVars>>

\* MPDeleteSemaphore lets a waiting worker go.
DeleteSemaphore ==
  /\ Step("delete")
  /\ semaphore' = Deleted
  /\ at' = [at EXCEPT ![2] = IF @ = "blocked" THEN "work" ELSE @]
  /\ UNCHANGED <<queueVars, hand, done, wake, adderVars>>

CreateSemaphore ==
  /\ Step("create")
  /\ semaphore' = 0
  /\ UNCHANGED <<queueVars, hand, at, done, wake, adderVars>>

Cancel == RemoveAll(1) \/ WillCancel \/ RemoveAll(2) \/ DeleteSemaphore \/ CreateSemaphore

-----------------------------------------------------------------------------
Adder == (\E array \in Arrays : AddFirst(array)) \/ SetUpSecond \/ AddSecond

Waiting == Pass \/ Block \/ PassDeleted

Worker(p) ==
  \/ Take(p) \/ Reset(p) \/ WillSleep(p) \/ WakeUp(p)
  \/ p = 2 /\ Waiting
  \/ \E complete \in BOOLEAN : Iterate(p, complete)
  \/ Finish(p) \/ Retry(p) \/ NextIteration(p)

Next == Adder \/ (\E p \in Phases : Worker(p))

\* Objects are added and worked off; nobody cancels.
Spec == Init /\ [][Next]_vars

\* Someone may cancel at any time.
CancelNext == Next \/ BeginCancel \/ Cancel

CancelSpec == Init /\ [][CancelNext]_vars

\* The threads are scheduled, a call once begun returns, and an object that is
\* tried again and again is complete in the end.
Fairness ==
  /\ WF_vars(SetUpSecond \/ AddSecond)
  /\ \A p \in Phases : WF_vars(Worker(p)) /\ SF_vars(Iterate(p, TRUE))

FairSpec == Spec /\ Fairness

-----------------------------------------------------------------------------
(* Safety.                                                                 *)

Pending(p) == active[p] \o objects[p]

\* The objects the second phase has or will have from the addObjects: under way.
Line == Pending(2) \o batch

\* "wait on the previous phase" (SEPhasedConsumer.m:80): the second phase
\* works on an object that has not been cancelled only after the first phase
\* has finished it.
WaitsOnPreviousPhase ==
  at[2] \in {"work", "finished", "again"} /\ active[2] # <<>> => hand[2] \in done[1]

\* How many objects of the line, from its front, the first phase has finished.
Ready == Len(Line) - Len(Pending(1))

\* Nobody cancels: the second phase has, holds or has used just as many signals as
\* there are objects for it that the first has finished (SEPhasedConsumer.m:81-88),
\* however often objects are tried again; so that none waits for ever if it should
\* process them all, and otherwise as many as it should not.
Passed == IF at[2] \in {"work", "finished", "again"} THEN 1 ELSE 0
Balanced ==
  semaphore + Passed + Cardinality(done[2]) = Cardinality(done[1] \cap Wanted)

\* The phases refine what they promise as long as nobody cancels.
T == INSTANCE TwoPhase WITH
       Batches <- Arrays,
       line <- Line,
       ready <- Ready

RefinesTwoPhase == T!Spec

\* What waits in a phase behind the object at hand.
Behind(p) ==
  (IF hand[p] # Nil /\ active[p] # <<>> THEN Tail(active[p]) ELSE active[p]) \o objects[p]

CancelledAtWork(p) == hand[p] # Nil /\ active[p] = <<>>

First == INSTANCE WorkQueue WITH
           Batches <- Arrays,
           queue <- Behind(1),
           hand <- hand[1],
           cancelled <- CancelledAtWork(1)

Second == INSTANCE WorkQueue WITH
            Batches <- Arrays,
            queue <- Behind(2),
            hand <- hand[2],
            cancelled <- CancelledAtWork(2)

\* Either phase is still the queue a consumer is (SEConsumer.h:17-46), however
\* the two work together and whatever is cancelled meanwhile: it loses no object,
\* keeps their order and tries again the object that was not complete.
PhasesAreQueues == First!Spec /\ Second!Spec

(* Liveness.                                                               *)

\* Every object added gets through the first phase, and as many through the second
\* as it should process: all of them when it should process all.
AllThrough ==
  /\ \A o \in Objects : o \in offered ~> o \in done[1]
  /\ \A n \in 1..Cardinality(Objects) :
       Cardinality(offered \cap Wanted) >= n ~> Cardinality(done[2]) >= n
=============================================================================
