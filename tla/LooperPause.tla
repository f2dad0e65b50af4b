---------------------------- MODULE LooperPause -----------------------------
(***************************************************************************)
(* What a pause of SELooper promises.  A history variable is added to the  *)
(* looper; it restricts nothing.                                           *)
(***************************************************************************)
EXTENDS Looper, FiniteSets

ASSUME CallersFinite == IsFiniteSet(Callers)

VARIABLE overrun     \* iterations begun since the pause in force was called

pauseVars == <<vars, overrun>>

PauseInit == Init /\ overrun = 0

\* overrun is counted no further than one past its bound.
OverrunBound == Cardinality(Callers) + 1

BeginsIteration == pc = "iterate" /\ pc' = "checkPause"

Observe ==
  overrun' = IF state # "Pause" THEN 0
             ELSE IF BeginsIteration /\ overrun <= OverrunBound THEN overrun + 1
             ELSE overrun

PauseNext == Next /\ Observe

PauseSpec == PauseInit /\ [][PauseNext]_pauseVars

PauseFairSpec == PauseSpec /\ Fairness

-----------------------------------------------------------------------------
\* How far a pause can be overrun: after pause has returned, one iteration
\* begins because the worker had passed the test, and one for each signal
\* left behind or still to be sent by another caller.  With the main thread
\* as the only caller, as in Senuti, that is two tracks.
OverrunBounded == overrun <= OverrunBound
=============================================================================
