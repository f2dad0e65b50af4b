------------------------------- MODULE Looper -------------------------------
(***************************************************************************)
(* SELooper (src/Source/SELooper.m): a worker thread that calls           *)
(* `iteration' for ever and that other threads pause, continue and abort.  *)
(*                                                                         *)
(* `state' is written inside a critical region by the callers but read by  *)
(* the worker without it, and the signal that ends a pause is sent after   *)
(* the region has been left.  Each of these accesses is a step.            *)
(*                                                                         *)
(* dealloc is not an action: the detached thread retains its target, so it *)
(* runs only after the worker has ended.                                   *)
(***************************************************************************)
EXTENDS Naturals

CONSTANT Callers      \* the threads that call pause, continue and abort

VARIABLES
  state,              \* the SELooperState ivar
  continueSemaphore,  \* signals held by the binary semaphore: 0 or 1
  pc,                 \* where the worker is in runWorker
  call                \* per caller: still has to signal continueSemaphore?

vars == <<state, continueSemaphore, pc, call>>

States == {"Running", "Pause", "Abort", "Finished"}

Locations == {"unstarted", "iterate", "checkPause", "waiting", "checkAbort", "ended"}

TypeOK ==
  /\ state \in States
  /\ continueSemaphore \in 0..1
  /\ pc \in Locations
  /\ call \in [Callers -> {"none", "signal"}]

Init ==
  /\ state = "Finished"
  /\ continueSemaphore = 0
  /\ pc = "unstarted"
  /\ call = [c \in Callers |-> "none"]

-----------------------------------------------------------------------------
(* The callers.  Every client executes the looper as soon as it has made   *)
(* it, so no call comes before that.                                       *)

\* -execute: the state is set before the thread exists.
Execute ==
  /\ pc = "unstarted"
  /\ state' = "Running"
  /\ pc' = "iterate"
  /\ UNCHANGED <<continueSemaphore, call>>

MayCall(c) == pc # "unstarted" /\ call[c] = "none"

\* -pause: whatever the state was.
Pause(c) ==
  /\ MayCall(c)
  /\ state' = "Pause"
  /\ UNCHANGED <<continueSemaphore, pc, call>>

\* Mutant: `state' is tested after it has been overwritten.
LeaveTestsLate(c, newState) ==
  /\ MayCall(c)
  /\ state' = newState
  /\ call' = [call EXCEPT ![c] = IF newState = "Pause" THEN "signal" ELSE "none"]
  /\ UNCHANGED <<continueSemaphore, pc>>

\* The critical region of -continue and -abort: remember whether the looper
\* was paused, then overwrite the state.
Leave(c, newState) ==
  /\ MayCall(c)
  /\ state' = newState
  /\ call' = [call EXCEPT ![c] = IF state = "Pause" THEN "signal" ELSE "none"]
  /\ UNCHANGED <<continueSemaphore, pc>>

Continue(c) == Leave(c, "Running")

Abort(c) == Leave(c, "Abort")

\* Mutant: a counting semaphore in place of the binary one.
SignalCounts(c) ==
  /\ call[c] = "signal"
  /\ continueSemaphore' = IF continueSemaphore < 4 THEN continueSemaphore + 1 ELSE 4
  /\ call' = [call EXCEPT ![c] = "none"]
  /\ UNCHANGED <<state, pc>>

\* MPSignalSemaphore, after the region; a signal is dropped when one is held.
Signal(c) ==
  /\ call[c] = "signal"
  /\ continueSemaphore' = 1
  /\ call' = [call EXCEPT ![c] = "none"]
  /\ UNCHANGED <<state, pc>>

-----------------------------------------------------------------------------
(* The worker (runWorker).                                                 *)

\* One call of -iteration, which a subclass supplies.
Iterate ==
  /\ pc = "iterate"
  /\ state # "Finished"
  /\ pc' = "checkPause"
  /\ UNCHANGED <<state, continueSemaphore, call>>

\* The unlocked test that decides whether to wait.
CheckPause ==
  /\ pc = "checkPause"
  /\ pc' = IF state = "Pause" THEN "waiting" ELSE "checkAbort"
  /\ UNCHANGED <<state, continueSemaphore, call>>

\* MPWaitOnSemaphore returns; the state is not looked at again.
Wake ==
  /\ pc = "waiting"
  /\ continueSemaphore > 0
  /\ continueSemaphore' = continueSemaphore - 1
  /\ pc' = "checkAbort"
  /\ UNCHANGED <<state, call>>

CheckAbort ==
  /\ pc = "checkAbort"
  /\ pc' = IF state = "Abort" THEN "ended" ELSE "iterate"
  /\ UNCHANGED <<state, continueSemaphore, call>>

Worker == Iterate \/ CheckPause \/ Wake \/ CheckAbort

Next ==
  \/ Execute
  \/ Worker
  \/ \E c \in Callers : Pause(c) \/ Continue(c) \/ Abort(c) \/ Signal(c)

Spec == Init /\ [][Next]_vars

\* The worker thread is scheduled, and a caller inside -continue or -abort
\* gets to the end of it.  Nobody has to call anything.
Fairness == WF_vars(Worker) /\ \A c \in Callers : WF_vars(Signal(c))

FairSpec == Spec /\ Fairness

-----------------------------------------------------------------------------
SignalPending == \E c \in Callers : call[c] = "signal"

\* A worker that waits although the looper is no longer paused has a signal
\* to wake it, or one is about to be sent: neither the unlocked read of
\* `state' nor the signal outside the region loses a continue or an abort.
NoLostContinue ==
  pc = "waiting" /\ state # "Pause" => continueSemaphore = 1 \/ SignalPending

\* A looper that is continued and left alone goes back to iterating: it does
\* not stay in the wait of runWorker.
ContinueResumes ==
  pc = "waiting" /\ state = "Running" ~> pc = "iterate" \/ state # "Running"
=============================================================================
