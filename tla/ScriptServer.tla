---------------------------- MODULE ScriptServer -----------------------------
(***************************************************************************)
(* FSAppleScriptClient and FSAppleScriptServer                             *)
(* (src/external/framework/Source): scripts are run by a helper process.   *)
(* The program has one client object for all its threads: the adder calls  *)
(* it for each track, the main thread to pause iTunes when a track is      *)
(* played (SEAudioController.m:224).  The client looks the helper up by    *)
(* name, launches it when it is not there, and calls it again whenever a   *)
(* call raises; the helper quits when nobody has called for ten minutes.   *)
(*                                                                         *)
(* Left out: what a script does (an error of a script is an answer); the   *)
(* order of the requests that wait at a helper; the length of time, but    *)
(* for what ten minutes exclude (Quit).  A message to a connection that    *)
(* has been released is undefined: it may answer either way, and that it   *)
(* may also end the program, and the behaviour with it, is left out.       *)
(***************************************************************************)
EXTENDS Integers

CONSTANTS
  Callers,       \* the threads that call -run:function:arguments:error:
  MaxCalls,      \* bound: the calls of each
  MaxHelpers,    \* bound: the helpers that can be launched
  MaxCrashes,    \* bound: the helpers that end before they have quit
  Nil            \* no connection

ASSUME ServerAssumption ==
  /\ MaxCalls \in Nat
  /\ MaxHelpers \in Nat
  /\ MaxCrashes \in Nat
  /\ Nil \notin Nat

VARIABLES
  client,        \* the ivar: a connection to a helper, or Nil
  held,          \* client has been retained and not yet released
  noticed,       \* the helpers whose connection knows that they have ended
  at,            \* per caller: where it is in -run:..., or in the helper
  found,         \* per caller: what it has looked up and not yet stored
  to,            \* per caller: the helper its request went to
  loads,         \* the file of the script, the same for all, can be loaded
  helper,        \* the helpers' states
  name,          \* the helper registered under the name, or Nil
  crashes,       \* history: how many helpers have crashed
  asked,         \* history, per caller: its calls
  runs,          \* history, per caller: how often its last call's script ran
  shared         \* history, per caller: another call overlapped its last one

clientVars == <<client, held>>
callerVars == <<found, to>>
helperVars == <<loads, noticed, helper, name, crashes>>
historyVars == <<asked, runs, shared>>
vars == <<clientVars, at, callerVars, helperVars, historyVars>>

Helpers == 1..MaxHelpers

\* The lines of FSAppleScriptClient.m a caller is at, in their order ...
InLoop == {"spin", "rerelease", "relookup", "restore"}
InClient == {"test", "release", "lookup", "store", "retest", "launch", "call"} \cup InLoop
\* ... and where its request is once it has been sent.
InHelper == {"sent", "running", "ran"}

TypeOK ==
  /\ client \in Helpers \cup {Nil}
  /\ held \in BOOLEAN
  /\ noticed \subseteq Helpers
  /\ at \in [Callers -> {"idle"} \cup InClient \cup InHelper]
  /\ found \in [Callers -> Helpers \cup {Nil}]
  /\ to \in [Callers -> Helpers \cup {Nil}]
  /\ loads \in BOOLEAN
  /\ helper \in [Helpers -> {"off", "starting", "up", "gone"}]
  /\ name \in Helpers \cup {Nil}
  /\ crashes \in 0..MaxCrashes
  /\ asked \in [Callers -> 0..MaxCalls]
  /\ runs \in [Callers -> Nat]
  /\ shared \in [Callers -> BOOLEAN]

Init ==
  /\ client = Nil
  /\ held = FALSE
  /\ noticed = {}
  /\ at = [c \in Callers |-> "idle"]
  /\ found = [c \in Callers |-> Nil]
  /\ to = [c \in Callers |-> Nil]
  /\ loads \in BOOLEAN
  /\ helper = [h \in Helpers |-> "off"]
  /\ name = Nil
  /\ crashes = 0
  /\ asked = [c \in Callers |-> 0]
  /\ runs = [c \in Callers |-> 0]
  /\ shared = [c \in Callers |-> FALSE]

-----------------------------------------------------------------------------
(* The client: -run:function:arguments:error:.                             *)

Go(c, from, next) ==
  /\ at[c] = from
  /\ at' = [at EXCEPT ![c] = next]

Others(c) == {d \in Callers \ {c} : at[d] # "idle"}

Ask(c) ==
  /\ asked[c] < MaxCalls
  /\ Go(c, "idle", "test")
  /\ asked' = [asked EXCEPT ![c] = @ + 1]
  /\ runs' = [runs EXCEPT ![c] = 0]
  /\ shared' = [d \in Callers |-> IF d = c THEN Others(c) # {}
                                  ELSE shared[d] \/ d \in Others(c)]
  /\ UNCHANGED <<clientVars, callerVars, helperVars>>

\* [client isValid], lines 69 and 72: nil is not valid, and a connection that
\* has been released may answer anything.
MaySayValid == client # Nil /\ (client \notin noticed \/ ~held)
MaySayInvalid == client = Nil \/ client \in noticed \/ ~held

Valid(c, from) ==
  /\ MaySayValid
  /\ Go(c, from, "call")
  /\ UNCHANGED <<clientVars, callerVars, helperVars, historyVars>>

Invalid(c, from, next) ==
  /\ MaySayInvalid
  /\ Go(c, from, next)
  /\ UNCHANGED <<clientVars, callerVars, helperVars, historyVars>>

\* [client release], lines 70 and 75; nil is not released.
Release(c, from, next) ==
  /\ Go(c, from, next)
  /\ held' = IF client = Nil THEN held ELSE FALSE
  /\ UNCHANGED <<client, callerVars, helperVars, historyVars>>

\* +connectionWithRegisteredName:host:, lines 71 and 76: the look up ...
LookUp(c, from, next) ==
  /\ Go(c, from, next)
  /\ found' = [found EXCEPT ![c] = name]
  /\ UNCHANGED <<clientVars, to, helperVars, historyVars>>

\* Mutant: what is looked up is not retained.
StoreUnheld(c, from, next) ==
  /\ Go(c, from, next)
  /\ client' = found[c]
  /\ held' = FALSE
  /\ found' = [found EXCEPT ![c] = Nil]
  /\ UNCHANGED <<to, helperVars, historyVars>>

\* ... and the assignment of what it has answered, retained.
Store(c, from, next) ==
  /\ Go(c, from, next)
  /\ client' = found[c]
  /\ held' = (found[c] # Nil)
  /\ found' = [found EXCEPT ![c] = Nil]
  /\ UNCHANGED <<to, helperVars, historyVars>>

\* -launchServer, once: it may fail, which is only logged.
Launch(c) ==
  /\ Go(c, "launch", "spin")
  /\ \/ UNCHANGED helper
     \/ \E h \in Helpers :
          /\ helper[h] = "off"
          /\ \A i \in Helpers : helper[i] = "off" => h <= i
          /\ helper' = [helper EXCEPT ![h] = "starting"]
  /\ UNCHANGED <<clientVars, callerVars, loads, noticed, name, crashes, historyVars>>

\* Mutant: the name is looked up once, whatever comes of it.
SpinOnce(c) ==
  /\ Go(c, "spin", "call")
  /\ UNCHANGED <<clientVars, callerVars, helperVars, historyVars>>

\* while (!client), line 74.
Spin(c) ==
  /\ Go(c, "spin", IF client = Nil THEN "rerelease" ELSE "call")
  /\ UNCHANGED <<clientVars, callerVars, helperVars, historyVars>>

-----------------------------------------------------------------------------
(* The remote call, lines 86 to 89.                                        *)

\* The request is sent to the helper the ivar now leads to.
Send(c) ==
  /\ client # Nil
  /\ helper[client] = "up"
  /\ Go(c, "call", "sent")
  /\ to' = [to EXCEPT ![c] = client]
  /\ UNCHANGED <<clientVars, found, helperVars, historyVars>>

\* With client nil, both messages answer nil: the call succeeds with no result.
CallNil(c) ==
  /\ client = Nil
  /\ Go(c, "call", "idle")
  /\ UNCHANGED <<clientVars, callerVars, helperVars, historyVars>>

\* Mutant: after an exception the same connection is called again.
RaiseKeeps(c) ==
  /\ client # Nil
  /\ helper[client] = "gone"
  /\ Go(c, "call", "call")
  /\ UNCHANGED <<clientVars, callerVars, helperVars, historyVars>>

\* There is nobody at the other end any more: an exception.
CallRaises(c) ==
  /\ client # Nil
  /\ helper[client] = "gone"
  /\ Go(c, "call", "test")
  /\ UNCHANGED <<clientVars, callerVars, helperVars, historyVars>>

\* The helper ends with the request on its way, waiting, or just run.
Lost(c) ==
  /\ at[c] \in InHelper
  /\ helper[to[c]] = "gone"
  /\ at' = [at EXCEPT ![c] = "test"]
  /\ to' = [to EXCEPT ![c] = Nil]
  /\ UNCHANGED <<clientVars, found, helperVars, historyVars>>

-----------------------------------------------------------------------------
(* The helper: FSAppleScriptServer, with one thread and its run loop.      *)

Busy(h) == \E c \in Callers : to[c] = h /\ at[c] \in {"running", "ran"}

\* -init registers the name; a second helper finds it taken and goes on.
Register(h) ==
  /\ helper[h] = "starting"
  /\ helper' = [helper EXCEPT ![h] = "up"]
  /\ name' = IF name = Nil THEN h ELSE name
  /\ UNCHANGED <<clientVars, at, callerVars, loads, noticed, crashes, historyVars>>

Serving(c) == at[c] \in InHelper /\ helper[to[c]] = "up"

\* The run loop hands a request to -run:executeFunction:withArguments:.
Begin(c) ==
  /\ Serving(c)
  /\ ~Busy(to[c])
  /\ Go(c, "sent", "running")
  /\ UNCHANGED <<clientVars, callerVars, helperVars, historyVars>>

\* A script whose file cannot be loaded is nil, and putting nil into the
\* dictionary of scripts raises, which the caller gets.
Raise(c) ==
  /\ Serving(c)
  /\ ~loads
  /\ Go(c, "running", "test")
  /\ to' = [to EXCEPT ![c] = Nil]
  /\ UNCHANGED <<clientVars, found, helperVars, historyVars>>

Execute(c) ==
  /\ Serving(c)
  /\ loads
  /\ Go(c, "running", "ran")
  /\ runs' = [runs EXCEPT ![c] = @ + 1]
  /\ UNCHANGED <<clientVars, callerVars, helperVars, asked, shared>>

\* The timer is put back, the result goes to the caller, which returns.
Reply(c) ==
  /\ Serving(c)
  /\ Go(c, "ran", "idle")
  /\ to' = [to EXCEPT ![c] = Nil]
  /\ UNCHANGED <<clientVars, found, helperVars, historyVars>>

End(h) ==
  /\ helper' = [helper EXCEPT ![h] = "gone"]
  /\ name' = IF name = h THEN Nil ELSE name
  /\ UNCHANGED <<clientVars, at, callerVars, loads, noticed, historyVars>>

\* Mutant: the timer fires while a script runs.
QuitBusy(h) ==
  /\ helper[h] = "up"
  /\ \A c \in Callers : at[c] \notin InLoop
  /\ End(h)
  /\ UNCHANGED crashes

\* The timer fires in the run loop, between two requests; one that comes in
\* at that moment is lost.  A client that looks the name up over and over
\* does not take ten minutes to find it.
Quit(h) ==
  /\ helper[h] = "up"
  /\ ~Busy(h)
  /\ \A c \in Callers : at[c] \notin InLoop
  /\ End(h)
  /\ UNCHANGED crashes

\* A helper may end at any time.
Crash(h) ==
  /\ helper[h] \in {"starting", "up"}
  /\ crashes < MaxCrashes
  /\ crashes' = crashes + 1
  /\ End(h)

\* The connection learns that its other end has gone.
Notice(h) ==
  /\ helper[h] = "gone"
  /\ noticed' = noticed \cup {h}
  /\ UNCHANGED <<clientVars, at, callerVars, loads, helper, name, crashes, historyVars>>

-----------------------------------------------------------------------------
\* A call that has begun, up to its request.
Run(c) ==
  \/ Valid(c, "test") \/ Invalid(c, "test", "release")
  \/ Release(c, "release", "lookup")
  \/ LookUp(c, "lookup", "store") \/ Store(c, "store", "retest")
  \/ Valid(c, "retest") \/ Invalid(c, "retest", "launch")
  \/ Launch(c) \/ Spin(c)
  \/ Release(c, "rerelease", "relookup") \/ LookUp(c, "relookup", "restore")
  \/ Store(c, "restore", "spin")
  \/ Send(c) \/ CallNil(c) \/ CallRaises(c) \/ Lost(c)

Serve(c) == Raise(c) \/ Execute(c) \/ Reply(c)

Next ==
  \/ \E c \in Callers : Ask(c) \/ Run(c) \/ Begin(c) \/ Serve(c)
  \/ \E h \in Helpers : Register(h) \/ Quit(h) \/ Crash(h) \/ Notice(h)

Spec == Init /\ [][Next]_vars

\* Threads and helpers are scheduled, and the end of a helper gets known.
\* Nobody need ask, and no helper need quit or crash.  What a connection that
\* another caller has released answers is undefined, but not always the worst.
Fairness ==
  /\ \A c \in Callers :
       /\ WF_vars(Run(c) \/ Begin(c) \/ Serve(c))
       /\ SF_vars(Valid(c, "test") \/ Valid(c, "retest"))
  /\ \A h \in Helpers : WF_vars(Register(h) \/ Notice(h))

FairSpec == Spec /\ Fairness

-----------------------------------------------------------------------------
(* Safety.                                                                 *)

Returned(c) == at[c] = "idle" /\ asked[c] > 0

\* "This blocks until the script is executed" (FSAppleScriptClient.h:26).
BlocksUntilExecuted == \A c \in Callers : Returned(c) => runs[c] > 0

\* It does for a caller that has had the client to itself.
BlocksUnlessShared ==
  \A c \in Callers : Returned(c) => runs[c] > 0 \/ shared[c]

\* Calling again whenever a call raises (FSAppleScriptClient.m:91) runs a
\* script once more only if a helper crashed: a helper that quits never takes
\* the answer to a script it has run with it.
RunsOnce == \A c \in Callers : runs[c] <= 1 + crashes

\* The connection in the ivar is released only while a caller is about to
\* replace it, so a caller that is alone never sends a message to one that
\* has been released (FSAppleScriptClient.m:70, 75).
ClientIsHeld ==
  client # Nil /\ ~held =>
    \E c \in Callers : at[c] \in {"lookup", "store", "relookup", "restore"}

\* The script has run, and its answer is still with a helper that is up.
Answered(c) == at[c] = "ran" /\ helper[to[c]] = "up"

Stage(c) ==
  IF at[c] = "idle" THEN "none" ELSE IF Answered(c) THEN "answered" ELSE "waiting"

Calls == INSTANCE RemoteCalls WITH call <- [c \in Callers |-> Stage(c)]

\* However the threads come between each other and whenever helpers quit, a call
\* returns when its script has run, unless another has overlapped it, and the
\* script runs again only for a crash that took its answer, and no one else's:
\* the retry of FSAppleScriptClient.m:91 repeats nothing for a helper that quit.
RefinesCalls == Calls!Spec

-----------------------------------------------------------------------------
(* Liveness.                                                               *)

\* Whom the loop of line 74 waits for will not come: the launch, which is not
\* repeated, failed, or the helper ended before it was found.
Stranded(c) ==
  /\ at[c] \in InLoop
  /\ client = Nil
  /\ name = Nil
  /\ \A h \in Helpers : helper[h] # "starting"

\* "we'll just continue trying untill succeeding" (FSAppleScriptClient.m:83):
\* a call whose script can be loaded ends, or has been stranded.  The main
\* thread is a caller like any other here, and is held up until then.
CallEnds ==
  \A c \in Callers :
    at[c] # "idle" /\ loads ~> at[c] = "idle" \/ []Stranded(c)

\* "It can not be called on the main thread otherwise the application will lock
\* up" (FSAppleScriptClient.h:26-27).  SEAudioController.m:224 does call it
\* there, and with the main thread as a caller this says that the application
\* does not lock up: each call comes back to it.  No run has this property: it
\* fails for a script file that cannot be loaded, as the README says.
NoLockUp == \A c \in Callers : at[c] # "idle" ~> at[c] = "idle"
=============================================================================
