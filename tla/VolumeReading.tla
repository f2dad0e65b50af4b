---------------------------- MODULE VolumeReading ----------------------------
(***************************************************************************)
(* What SELibraryController promises of the volumes that come              *)
(* (SELibraryController.h): each mount that is listed at the launch or     *)
(* announced is looked at once, one at a time and in the order of the      *)
(* mounts, whichever thread does it; a library that is read is posted and  *)
(* served once, again in that order, and one that has gone is not shown    *)
(* again until its volume is mounted again.                                *)
(***************************************************************************)
EXTENDS Naturals

CONSTANT Volumes

VARIABLES
  plugs,       \* how often a volume has been announced
  waiting,     \* the mounts that have still to be looked at
  hand,        \* the one whose library is being read, if any
  posted,      \* those whose library has been read and not yet served
  shown        \* those whose library is shown

vars == <<plugs, waiting, hand, posted, shown>>

Init ==
  /\ plugs \in Nat
  /\ waiting \in SUBSET (Volumes \X (0..plugs))
  /\ hand = {}
  /\ posted = {}
  /\ shown = {}

\* m is a mount in S that none comes before.
First(m, S) == m \in S /\ \A n \in S : m[2] <= n[2]

Mount(v) ==
  /\ plugs' = plugs + 1
  /\ waiting' = waiting \cup {<<v, plugs'>>}
  /\ UNCHANGED <<hand, posted, shown>>

\* There is a library on the volume, or there is none.
Look(m) ==
  /\ hand = {}
  /\ First(m, waiting)
  /\ waiting' = waiting \ {m}
  /\ hand' \in {{}, {m}}
  /\ UNCHANGED <<plugs, posted, shown>>

Post ==
  /\ hand # {}
  /\ posted' = posted \cup hand
  /\ hand' = {}
  /\ UNCHANGED <<plugs, waiting, shown>>

\* The library is shown, or it comes too late.
Serve(m) ==
  /\ First(m, posted)
  /\ posted' = posted \ {m}
  /\ shown' \in {shown, shown \cup {m}}
  /\ UNCHANGED <<plugs, waiting, hand>>

Remove(m) ==
  /\ shown' = shown \ {m}
  /\ UNCHANGED <<plugs, waiting, hand, posted>>

Next ==
  \/ \E v \in Volumes : Mount(v)
  \/ \E m \in waiting : Look(m)
  \/ Post
  \/ \E m \in posted : Serve(m)
  \/ \E m \in shown : Remove(m)

Spec == Init /\ [][Next]_vars
=============================================================================
