----------------------------- MODULE RemoteCalls -----------------------------
(***************************************************************************)
(* What FSAppleScriptClient promises the threads that have a script run    *)
(* (FSAppleScriptClient.h:24-28), and what it does not: a call returns     *)
(* once its script has run, and its script runs again only when a helper   *)
(* has crashed with the answer, each crash taking one answer at most.      *)
(* A call that another has overlapped may return with nothing.             *)
(***************************************************************************)
EXTENDS Naturals

CONSTANT Callers     \* the threads that have scripts run

VARIABLES
  call,       \* per caller: "none", "waiting", or "answered" and about to return
  runs,       \* per caller: how often its last call's script has run
  shared,     \* per caller: another call has overlapped its last one
  crashes     \* how many helpers have crashed

vars == <<call, runs, shared, crashes>>

Init ==
  /\ call = [c \in Callers |-> "none"]
  /\ runs = [c \in Callers |-> 0]
  /\ shared = [c \in Callers |-> FALSE]
  /\ crashes = 0

Go(c, from, next) ==
  /\ call[c] = from
  /\ call' = [call EXCEPT ![c] = next]

Others(c) == {d \in Callers \ {c} : call[d] # "none"}

Call(c) ==
  /\ Go(c, "none", "waiting")
  /\ runs' = [runs EXCEPT ![c] = 0]
  /\ shared' = [d \in Callers |-> IF d = c THEN Others(c) # {}
                                  ELSE shared[d] \/ d \in Others(c)]
  /\ UNCHANGED crashes

RunScript(c) ==
  /\ Go(c, "waiting", "answered")
  /\ runs' = [runs EXCEPT ![c] = @ + 1]
  /\ UNCHANGED <<shared, crashes>>

Return(c) ==
  /\ Go(c, "answered", "none")
  /\ UNCHANGED <<runs, shared, crashes>>

ReturnNothing(c) ==
  /\ shared[c]
  /\ Go(c, "waiting", "none")
  /\ UNCHANGED <<runs, shared, crashes>>

\* The answer is lost, and the client calls again.
CrashWith(c) ==
  /\ Go(c, "answered", "waiting")
  /\ crashes' = crashes + 1
  /\ UNCHANGED <<runs, shared>>

CrashIdle ==
  /\ crashes' = crashes + 1
  /\ UNCHANGED <<call, runs, shared>>

Next ==
  \/ \E c \in Callers :
       Call(c) \/ RunScript(c) \/ Return(c) \/ ReturnNothing(c) \/ CrashWith(c)
  \/ CrashIdle

Spec == Init /\ [][Next]_vars
=============================================================================
