------------------------------ MODULE WorkQueue ------------------------------
(***************************************************************************)
(* What SEConsumer promises its clients (SEConsumer.h:17-46): arrays of    *)
(* objects are queued, one worker takes the objects one at a time in the   *)
(* order they were added, works on an object until it says it is done, and *)
(* a cancel removes all that is queued but lets the object at hand finish. *)
(***************************************************************************)
EXTENDS Naturals, Sequences

CONSTANTS
  Batches,     \* the arrays of objects that may be added at once
  Nil          \* no object

VARIABLES
  queue,       \* the objects still to be taken, without the one at hand
  hand,        \* the object being processed, or Nil
  cancelled    \* was there a cancel since the object at hand was taken?

vars == <<queue, hand, cancelled>>

Init ==
  /\ queue = <<>>
  /\ hand = Nil
  /\ cancelled = FALSE

Put(batch) ==
  /\ queue' = queue \o batch
  /\ UNCHANGED <<hand, cancelled>>

Take ==
  /\ hand = Nil
  /\ queue # <<>>
  /\ hand' = Head(queue)
  /\ queue' = Tail(queue)
  /\ UNCHANGED cancelled

\* The object at hand is done.
Finish ==
  /\ hand # Nil
  /\ hand' = Nil
  /\ cancelled' = FALSE
  /\ UNCHANGED queue

\* The object at hand is not done: it is the next one again, unless a cancel
\* has removed it.
Retry ==
  /\ hand # Nil
  /\ hand' = Nil
  /\ cancelled' = FALSE
  /\ queue' = IF cancelled THEN queue ELSE <<hand>> \o queue

Cancel ==
  /\ queue' = <<>>
  /\ cancelled' = (hand # Nil)
  /\ UNCHANGED hand

Next ==
  \/ \E batch \in Batches : Put(batch)
  \/ Take
  \/ Finish
  \/ Retry
  \/ Cancel

Spec == Init /\ [][Next]_vars
=============================================================================
