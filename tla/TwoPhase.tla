------------------------------ MODULE TwoPhase -------------------------------
(***************************************************************************)
(* What two phases of SEPhasedConsumer promise (SEPhasedConsumer.h:17-34,  *)
(* SEPhasedConsumer.m:80): objects go through the phases in the order they *)
(* were added, and the second phase waits on the first for each of them.   *)
(***************************************************************************)
EXTENDS Naturals, Sequences

CONSTANT Batches     \* the arrays of objects that may be added at once

VARIABLES
  line,              \* the objects the second phase has not finished
  ready              \* how many of them, from the front, the first has

vars == <<line, ready>>

Init == line = <<>> /\ ready = 0

Add(batch) ==
  /\ line' = line \o batch
  /\ UNCHANGED ready

FinishFirst ==
  /\ ready < Len(line)
  /\ ready' = ready + 1
  /\ UNCHANGED line

FinishSecond ==
  /\ ready > 0
  /\ line' = Tail(line)
  /\ ready' = ready - 1

Next == (\E batch \in Batches : Add(batch)) \/ FinishFirst \/ FinishSecond

Spec == Init /\ [][Next]_vars
=============================================================================
