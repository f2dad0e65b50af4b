------------------------- MODULE ScriptServer_proofs --------------------------
(***************************************************************************)
(* Theorems about ScriptServer, for any callers, helpers and crashes: what *)
(* holds throughout, and that it refines RemoteCalls.                      *)
(***************************************************************************)
EXTENDS ScriptServer, TLAPS

\* A request is with a helper that has come up.
Placed ==
  \A c \in Callers : at[c] \in InHelper => to[c] \in Helpers /\ helper[to[c]] \in {"up", "gone"}

\* Callers whose calls overlap know it.
OverlapsKnown ==
  \A c, d \in Callers : c # d /\ at[c] # "idle" /\ at[d] # "idle" => shared[c]

\* A caller alone with the client has found a connection before it calls.
AloneHasClient == \A c \in Callers : at[c] = "call" /\ ~shared[c] => client # Nil

\* A script about to return has run.
RanHasRun == \A c \in Callers : at[c] = "ran" => runs[c] > 0

\* A helper runs one script at a time.
OneServed ==
  \A c, d \in Callers :
    {at[c], at[d]} \subseteq {"running", "ran"} /\ to[c] = to[d] => c = d

\* Each crash has cost a call one run at most; the answer to the last run may
\* still be lost.
PaidUp(c) == runs[c] <= crashes
PaidOrAnswered(c) == runs[c] <= crashes + 1
RunsPaid ==
  \A c \in Callers : at[c] # "idle" => PaidOrAnswered(c) /\ (~Answered(c) => PaidUp(c))

ServerInv ==
  /\ TypeOK
  /\ Placed
  /\ OneServed
  /\ ClientIsHeld
  /\ OverlapsKnown
  /\ AloneHasClient
  /\ RanHasRun
  /\ BlocksUnlessShared
  /\ RunsPaid
  /\ RunsOnce

\* The steps in the client that leave the helpers and the histories alone.
ClientStep(c) ==
  \/ Valid(c, "test") \/ Invalid(c, "test", "release")
  \/ Release(c, "release", "lookup")
  \/ LookUp(c, "lookup", "store") \/ Store(c, "store", "retest")
  \/ Valid(c, "retest") \/ Invalid(c, "retest", "launch")
  \/ Spin(c)
  \/ Release(c, "rerelease", "relookup") \/ LookUp(c, "relookup", "restore")
  \/ Store(c, "restore", "spin")
  \/ CallRaises(c)

LEMMA RunCases ==
  ASSUME NEW c \in Callers, Run(c)
  PROVE  ClientStep(c) \/ Launch(c) \/ Send(c) \/ CallNil(c) \/ Lost(c)
  BY DEF Run, ClientStep

-----------------------------------------------------------------------------
(* Types.                                                                  *)

LEMMA TypesInit == Init => TypeOK
<1> SUFFICES ASSUME Init PROVE TypeOK
  OBVIOUS
<1>1. client \in Helpers \cup {Nil} /\ name \in Helpers \cup {Nil} /\ noticed \subseteq Helpers
  BY DEF Init
<1>2. crashes \in 0..MaxCrashes
  BY ServerAssumption DEF Init
<1>8. held \in BOOLEAN /\ loads \in BOOLEAN
  BY Zenon DEF Init
<1>3. asked \in [Callers -> 0..MaxCalls]
  BY ServerAssumption DEF Init
<1>4. runs \in [Callers -> Nat] /\ shared \in [Callers -> BOOLEAN]
  BY DEF Init
<1>5. /\ at \in [Callers -> {"idle"} \cup InClient \cup InHelper]
      /\ helper \in [Helpers -> {"off", "starting", "up", "gone"}]
  BY DEF Init
<1>6. found \in [Callers -> Helpers \cup {Nil}] /\ to \in [Callers -> Helpers \cup {Nil}]
  BY DEF Init
<1>7. QED BY <1>1, <1>2, <1>3, <1>4, <1>5, <1>6, <1>8 DEF TypeOK

LEMMA ClientTypes ==
  ASSUME TypeOK, NEW c \in Callers, ClientStep(c)
  PROVE  TypeOK' /\ \E next \in InClient : at' = [at EXCEPT ![c] = next]
<1> USE DEF TypeOK, Go, Helpers, clientVars, callerVars, helperVars, historyVars,
            InClient, InLoop
<1>1. CASE Valid(c, "test") \/ Valid(c, "retest")
  BY <1>1 DEF Valid
<1>2. CASE Invalid(c, "test", "release") \/ Invalid(c, "retest", "launch")
  BY <1>2 DEF Invalid
<1>3. CASE Release(c, "release", "lookup") \/ Release(c, "rerelease", "relookup")
  BY <1>3 DEF Release
<1>4. CASE LookUp(c, "lookup", "store") \/ LookUp(c, "relookup", "restore")
  BY <1>4 DEF LookUp
<1>5. CASE Store(c, "store", "retest") \/ Store(c, "restore", "spin")
  BY <1>5 DEF Store
<1>6. CASE Spin(c) \/ CallRaises(c)
  BY <1>6 DEF Spin, CallRaises
<1>7. QED BY <1>1, <1>2, <1>3, <1>4, <1>5, <1>6 DEF ClientStep

LEMMA ServeTypes ==
  ASSUME TypeOK, NEW c \in Callers,
         Launch(c) \/ Send(c) \/ CallNil(c) \/ Lost(c) \/ Begin(c) \/ Serve(c) \/ Ask(c)
  PROVE  TypeOK'
<1> USE ServerAssumption
    DEF TypeOK, Go, clientVars, callerVars, helperVars, historyVars,
        InClient, InLoop, InHelper
<1>1. CASE Launch(c)
  BY <1>1 DEF Launch
<1>2. CASE Send(c) \/ CallNil(c) \/ Lost(c)
  BY <1>2 DEF Send, CallNil, Lost
<1>3. CASE Begin(c) \/ Raise(c) \/ Reply(c)
  BY <1>3 DEF Begin, Raise, Reply
<1>4. CASE Execute(c)
  BY <1>4 DEF Execute
<1>5. CASE Ask(c)
  <2>1. asked' \in [Callers -> 0..MaxCalls] /\ runs' \in [Callers -> Nat]
    BY <1>5 DEF Ask
  <2>2. shared' \in [Callers -> BOOLEAN]
    <3> DEFINE overlaps(d) == IF d = c THEN Others(c) # {} ELSE shared[d] \/ d \in Others(c)
    <3>1. shared' = [d \in Callers |-> overlaps(d)]
      BY <1>5 DEF Ask
    <3>2. \A d \in Callers : overlaps(d) \in BOOLEAN
      BY Zenon
    <3> HIDE DEF overlaps
    <3>3. QED BY <3>1, <3>2
  <2>3. QED BY <1>5, <2>1, <2>2 DEF Ask
<1>6. QED BY <1>1, <1>2, <1>3, <1>4, <1>5 DEF Serve

LEMMA HelperTypes ==
  ASSUME TypeOK, NEW h \in Helpers, Register(h) \/ Quit(h) \/ Crash(h) \/ Notice(h)
  PROVE  TypeOK'
<1> USE ServerAssumption
    DEF TypeOK, End, clientVars, callerVars, helperVars, historyVars
<1>1. CASE Register(h)
  BY <1>1 DEF Register
<1>2. CASE Quit(h)
  BY <1>2 DEF Quit
<1>3. CASE Crash(h)
  BY <1>3 DEF Crash
<1>4. CASE Notice(h)
  BY <1>4 DEF Notice
<1>5. QED BY <1>1, <1>2, <1>3, <1>4

-----------------------------------------------------------------------------
(* What a step leaves alone.                                               *)

\* A step in the client moves its caller within the client and no other.
LEMMA ClientFrame ==
  ASSUME NEW c \in Callers, ClientStep(c)
  PROVE  UNCHANGED <<to, helperVars, historyVars>>
<1> USE DEF callerVars
<1>1. CASE Valid(c, "test") \/ Valid(c, "retest")
  BY <1>1 DEF Valid
<1>2. CASE Invalid(c, "test", "release") \/ Invalid(c, "retest", "launch")
  BY <1>2 DEF Invalid
<1>3. CASE Release(c, "release", "lookup") \/ Release(c, "rerelease", "relookup")
  BY <1>3 DEF Release
<1>4. CASE LookUp(c, "lookup", "store") \/ LookUp(c, "relookup", "restore")
  BY <1>4 DEF LookUp
<1>5. CASE Store(c, "store", "retest") \/ Store(c, "restore", "spin")
  BY <1>5 DEF Store
<1>6. CASE Spin(c) \/ CallRaises(c)
  BY <1>6 DEF Spin, CallRaises
<1>7. QED BY <1>1, <1>2, <1>3, <1>4, <1>5, <1>6 DEF ClientStep

\* The cases of a step, for the lemmas that follow.
LEMMA NextCases ==
  ASSUME Next
  PROVE  \/ \E c \in Callers : ClientStep(c)
         \/ \E c \in Callers : Launch(c) \/ Send(c) \/ CallNil(c) \/ Lost(c)
         \/ \E c \in Callers : Ask(c) \/ Begin(c) \/ Raise(c) \/ Execute(c) \/ Reply(c)
         \/ \E h \in Helpers : Register(h) \/ Quit(h) \/ Crash(h) \/ Notice(h)
  BY RunCases DEF Next, Serve

-----------------------------------------------------------------------------
(* Requests and their helpers.                                             *)

LEMMA PlacedNext ==
  ASSUME TypeOK, Placed, Next
  PROVE  Placed'
<1> USE DEF Placed, TypeOK, Go, helperVars, callerVars, InHelper
<1>1. ASSUME NEW c \in Callers, ClientStep(c) PROVE Placed'
  BY <1>1, ClientTypes, ClientFrame DEF InClient, InLoop
<1>2. ASSUME NEW c \in Callers, Launch(c) PROVE Placed'
  BY <1>2 DEF Launch
<1>3. ASSUME NEW c \in Callers, Send(c) \/ CallNil(c) \/ Lost(c) PROVE Placed'
  BY <1>3, ServerAssumption DEF Send, CallNil, Lost, Helpers
<1>4. ASSUME NEW c \in Callers, Ask(c) \/ Begin(c) \/ Raise(c) \/ Execute(c) \/ Reply(c)
      PROVE  Placed'
  BY <1>4 DEF Ask, Begin, Raise, Execute, Reply
<1>5. ASSUME NEW h \in Helpers, Register(h) \/ Quit(h) \/ Crash(h) \/ Notice(h)
      PROVE  Placed'
  BY <1>5 DEF Register, Quit, Crash, Notice, End
<1>6. QED BY <1>1, <1>2, <1>3, <1>4, <1>5, NextCases

LEMMA ServedNext ==
  ASSUME TypeOK, Placed, OneServed, Next
  PROVE  OneServed'
<1> USE DEF OneServed, TypeOK, Go, helperVars, callerVars, InHelper
<1>1. ASSUME NEW c \in Callers, ClientStep(c) PROVE OneServed'
  BY <1>1, ClientTypes, ClientFrame DEF InClient, InLoop
<1>2. ASSUME NEW c \in Callers, Launch(c) \/ Send(c) \/ CallNil(c) \/ Lost(c)
      PROVE  OneServed'
  BY <1>2 DEF Launch, Send, CallNil, Lost
<1>3. ASSUME NEW c \in Callers, Begin(c) PROVE OneServed'
  BY <1>3 DEF Begin, Busy, Placed
<1>4. ASSUME NEW c \in Callers, Ask(c) \/ Raise(c) \/ Execute(c) \/ Reply(c)
      PROVE  OneServed'
  BY <1>4 DEF Ask, Raise, Execute, Reply
<1>5. ASSUME NEW h \in Helpers, Register(h) \/ Quit(h) \/ Crash(h) \/ Notice(h)
      PROVE  OneServed'
  BY <1>5 DEF Register, Quit, Crash, Notice, End
<1>6. QED BY <1>1, <1>2, <1>3, <1>4, <1>5, NextCases

LEMMA OverlapNext ==
  ASSUME TypeOK, OverlapsKnown, Next
  PROVE  OverlapsKnown'
<1> USE DEF OverlapsKnown, TypeOK, Go, helperVars, historyVars, InHelper
<1>1. ASSUME NEW c \in Callers, ClientStep(c) PROVE OverlapsKnown'
  <2>1. at[c] # "idle"
    BY <1>1 DEF ClientStep, Valid, Invalid, Release, LookUp, Store, Spin, CallRaises
  <2>2. QED BY <1>1, <2>1, ClientTypes, ClientFrame
<1>2. ASSUME NEW c \in Callers, Launch(c) PROVE OverlapsKnown'
  BY <1>2 DEF Launch
<1>3. ASSUME NEW c \in Callers, Send(c) \/ CallNil(c) \/ Lost(c) PROVE OverlapsKnown'
  BY <1>3 DEF Send, CallNil, Lost
<1>4. ASSUME NEW c \in Callers, Begin(c) \/ Raise(c) \/ Execute(c) \/ Reply(c)
      PROVE  OverlapsKnown'
  BY <1>4 DEF Begin, Raise, Execute, Reply
<1>5. ASSUME NEW c \in Callers, Ask(c) PROVE OverlapsKnown'
  BY <1>5 DEF Ask, Others
<1>6. ASSUME NEW h \in Helpers, Register(h) \/ Quit(h) \/ Crash(h) \/ Notice(h)
      PROVE  OverlapsKnown'
  BY <1>6 DEF Register, Quit, Crash, Notice, End
<1>7. QED BY <1>1, <1>2, <1>3, <1>4, <1>5, <1>6, NextCases

\* Only another caller, which the call then overlaps, can take the
\* connection away between the test and the call.
LEMMA AloneNext ==
  ASSUME TypeOK, OverlapsKnown, AloneHasClient, Next
  PROVE  AloneHasClient'
<1> USE DEF AloneHasClient, OverlapsKnown, TypeOK, Go, clientVars, helperVars,
            historyVars, callerVars, InHelper
<1>1. ASSUME NEW c \in Callers, ClientStep(c) PROVE AloneHasClient'
  <2>1. shared' = shared
    BY <1>1, ClientFrame
  <2>2. CASE Valid(c, "test") \/ Valid(c, "retest") \/ Spin(c)
    BY <2>1, <2>2 DEF Valid, Spin, MaySayValid
  <2>3. CASE \/ Invalid(c, "test", "release") \/ Invalid(c, "retest", "launch")
             \/ Release(c, "release", "lookup") \/ Release(c, "rerelease", "relookup")
             \/ LookUp(c, "lookup", "store") \/ LookUp(c, "relookup", "restore")
             \/ CallRaises(c)
    BY <2>1, <2>3 DEF Invalid, Release, LookUp, CallRaises
  <2>4. CASE Store(c, "store", "retest") \/ Store(c, "restore", "spin")
    BY <2>1, <2>4 DEF Store
  <2>5. QED BY <1>1, <2>2, <2>3, <2>4 DEF ClientStep
<1>2. ASSUME NEW c \in Callers, Launch(c) \/ Send(c) \/ CallNil(c) \/ Lost(c)
      PROVE  AloneHasClient'
  BY <1>2 DEF Launch, Send, CallNil, Lost
<1>3. ASSUME NEW c \in Callers, Begin(c) \/ Raise(c) \/ Execute(c) \/ Reply(c)
      PROVE  AloneHasClient'
  BY <1>3 DEF Begin, Raise, Execute, Reply
<1>4. ASSUME NEW c \in Callers, Ask(c) PROVE AloneHasClient'
  BY <1>4 DEF Ask, Others
<1>5. ASSUME NEW h \in Helpers, Register(h) \/ Quit(h) \/ Crash(h) \/ Notice(h)
      PROVE  AloneHasClient'
  BY <1>5 DEF Register, Quit, Crash, Notice, End
<1>6. QED BY <1>1, <1>2, <1>3, <1>4, <1>5, NextCases

LEMMA HeldNext ==
  ASSUME TypeOK, ClientIsHeld, Next
  PROVE  ClientIsHeld'
<1> USE DEF ClientIsHeld, TypeOK, Go, clientVars, helperVars, historyVars, InHelper
<1>1. ASSUME NEW c \in Callers, ClientStep(c) PROVE ClientIsHeld'
  <2>1. CASE \/ Valid(c, "test") \/ Valid(c, "retest") \/ Spin(c) \/ CallRaises(c)
             \/ Invalid(c, "test", "release") \/ Invalid(c, "retest", "launch")
    BY <2>1 DEF Valid, Spin, CallRaises, Invalid
  <2>2. CASE Release(c, "release", "lookup") \/ Release(c, "rerelease", "relookup")
    BY <2>2 DEF Release
  <2>3. CASE LookUp(c, "lookup", "store") \/ LookUp(c, "relookup", "restore")
    BY <2>3 DEF LookUp
  <2>4. CASE Store(c, "store", "retest") \/ Store(c, "restore", "spin")
    BY <2>4 DEF Store
  <2>5. QED BY <1>1, <2>1, <2>2, <2>3, <2>4 DEF ClientStep
<1>2. ASSUME NEW c \in Callers, Launch(c) \/ Send(c) \/ CallNil(c) \/ Lost(c)
      PROVE  ClientIsHeld'
  BY <1>2 DEF Launch, Send, CallNil, Lost
<1>3. ASSUME NEW c \in Callers, Ask(c) \/ Begin(c) \/ Raise(c) \/ Execute(c) \/ Reply(c)
      PROVE  ClientIsHeld'
  BY <1>3 DEF Ask, Begin, Raise, Execute, Reply
<1>4. ASSUME NEW h \in Helpers, Register(h) \/ Quit(h) \/ Crash(h) \/ Notice(h)
      PROVE  ClientIsHeld'
  BY <1>4 DEF Register, Quit, Crash, Notice, End
<1>5. QED BY <1>1, <1>2, <1>3, <1>4, NextCases

-----------------------------------------------------------------------------
(* Runs.                                                                   *)

LEMMA RanNext ==
  ASSUME TypeOK, RanHasRun, Next
  PROVE  RanHasRun'
<1> USE DEF RanHasRun, TypeOK, Go, helperVars, historyVars, InHelper
<1>1. ASSUME NEW c \in Callers, ClientStep(c) PROVE RanHasRun'
  BY <1>1, ClientTypes, ClientFrame DEF InClient, InLoop
<1>2. ASSUME NEW c \in Callers, Launch(c) \/ Send(c) \/ CallNil(c) \/ Lost(c)
      PROVE  RanHasRun'
  BY <1>2 DEF Launch, Send, CallNil, Lost
<1>3. ASSUME NEW c \in Callers, Ask(c) \/ Begin(c) \/ Raise(c) \/ Execute(c) \/ Reply(c)
      PROVE  RanHasRun'
  BY <1>3 DEF Ask, Begin, Raise, Execute, Reply
<1>4. ASSUME NEW h \in Helpers, Register(h) \/ Quit(h) \/ Crash(h) \/ Notice(h)
      PROVE  RanHasRun'
  BY <1>4 DEF Register, Quit, Crash, Notice, End
<1>5. QED BY <1>1, <1>2, <1>3, <1>4, NextCases

\* A call returns with its answer, or because it found no connection, which
\* it would have had, had it been alone.
LEMMA BlocksNext ==
  ASSUME TypeOK, AloneHasClient, RanHasRun, BlocksUnlessShared, Next
  PROVE  BlocksUnlessShared'
<1> USE DEF BlocksUnlessShared, Returned, TypeOK, Go, helperVars, historyVars, InHelper
<1>1. ASSUME NEW c \in Callers, ClientStep(c) PROVE BlocksUnlessShared'
  BY <1>1, ClientTypes, ClientFrame DEF InClient, InLoop
<1>2. ASSUME NEW c \in Callers, Launch(c) \/ Send(c) \/ Lost(c) PROVE BlocksUnlessShared'
  BY <1>2 DEF Launch, Send, Lost
<1>3. ASSUME NEW c \in Callers, CallNil(c) PROVE BlocksUnlessShared'
  BY <1>3 DEF CallNil, AloneHasClient
<1>4. ASSUME NEW c \in Callers, Begin(c) \/ Raise(c) \/ Execute(c)
      PROVE  BlocksUnlessShared'
  BY <1>4 DEF Begin, Raise, Execute
<1>5. ASSUME NEW c \in Callers, Reply(c) PROVE BlocksUnlessShared'
  BY <1>5 DEF Reply, RanHasRun
<1>6. ASSUME NEW c \in Callers, Ask(c) PROVE BlocksUnlessShared'
  BY <1>6 DEF Ask
<1>7. ASSUME NEW h \in Helpers, Register(h) \/ Quit(h) \/ Crash(h) \/ Notice(h)
      PROVE  BlocksUnlessShared'
  BY <1>7 DEF Register, Quit, Crash, Notice, End
<1>8. QED BY <1>1, <1>2, <1>3, <1>4, <1>5, <1>6, <1>7, NextCases

\* A run is open until its answer is given; a helper that quits has none that
\* is open, and one that crashes pays for it.
LEMMA PaidNext ==
  ASSUME TypeOK, Placed, RunsPaid, Next
  PROVE  RunsPaid'
<1> USE DEF RunsPaid, Answered, PaidUp, PaidOrAnswered
<1>0. /\ crashes \in Nat
      /\ \A c \in Callers : runs[c] \in Nat
      /\ at \in [Callers -> {"idle"} \cup InClient \cup InHelper]
      /\ runs \in [Callers -> Nat]
      /\ to \in [Callers -> Helpers \cup {Nil}]
      /\ helper \in [Helpers -> {"off", "starting", "up", "gone"}]
  BY ServerAssumption DEF TypeOK
<1>1. ASSUME NEW c \in Callers, ClientStep(c) PROVE RunsPaid'
  <2>1. at[c] \notin {"idle", "ran"}
    BY <1>1 DEF ClientStep, Go, Valid, Invalid, Release, LookUp, Store, Spin, CallRaises
  <2>2. PICK next \in InClient : at' = [at EXCEPT ![c] = next]
    BY <1>1, ClientTypes
  <2>3. next \notin {"idle", "ran"}
    BY DEF InClient, InLoop
  <2>4. UNCHANGED <<to, helper, crashes, runs>>
    BY <1>1, ClientFrame DEF helperVars, historyVars
  <2>5. QED BY <1>0, <2>1, <2>2, <2>3, <2>4
<1>2. ASSUME NEW c \in Callers, Launch(c) PROVE RunsPaid'
  <2>1. /\ UNCHANGED <<to, crashes, runs>>
        /\ at[c] = "launch" /\ at' = [at EXCEPT ![c] = "spin"]
    BY <1>2 DEF Launch, Go, callerVars, historyVars
  <2>2. \A h \in Helpers : helper[h] = "up" => helper'[h] = "up"
    BY <1>2, <1>0 DEF Launch
  <2>3. QED BY <1>0, <2>1, <2>2 DEF Placed, InHelper
<1>3. ASSUME NEW c \in Callers, Send(c) \/ CallNil(c) \/ Lost(c) PROVE RunsPaid'
  <2>1. CASE Send(c)
    BY <2>1, <1>0 DEF Send, Go, helperVars, historyVars
  <2>2. CASE CallNil(c)
    BY <2>2, <1>0 DEF CallNil, Go, callerVars, helperVars, historyVars
  <2>3. CASE Lost(c)
    BY <2>3, <1>0 DEF Lost, InHelper, helperVars, historyVars
  <2>4. QED BY <1>3, <2>1, <2>2, <2>3
<1>4. ASSUME NEW c \in Callers, Begin(c) \/ Raise(c) \/ Reply(c) PROVE RunsPaid'
  <2>1. CASE Begin(c)
    BY <2>1, <1>0 DEF Begin, Go, callerVars, helperVars, historyVars
  <2>2. CASE Raise(c)
    BY <2>2, <1>0 DEF Raise, Go, helperVars, historyVars
  <2>3. CASE Reply(c)
    BY <2>3, <1>0 DEF Reply, Go, helperVars, historyVars
  <2>4. QED BY <1>4, <2>1, <2>2, <2>3
<1>5. ASSUME NEW c \in Callers, Execute(c) PROVE RunsPaid'
  <2>1. /\ UNCHANGED <<to, helper, crashes>>
        /\ at[c] = "running" /\ at' = [at EXCEPT ![c] = "ran"]
        /\ helper[to[c]] = "up"
        /\ runs' = [runs EXCEPT ![c] = @ + 1]
    BY <1>5 DEF Execute, Go, Serving, callerVars, helperVars
  <2>2. PaidOrAnswered(c)' /\ Answered(c)'
    BY <1>0, <2>1
  <2>3. QED BY <1>0, <2>1, <2>2
<1>6. ASSUME NEW c \in Callers, Ask(c) PROVE RunsPaid'
  <2>1. /\ UNCHANGED <<to, helper, crashes>>
        /\ at' = [at EXCEPT ![c] = "test"]
        /\ runs' = [runs EXCEPT ![c] = 0]
    BY <1>6 DEF Ask, Go, callerVars, helperVars
  <2>2. QED BY <1>0, <2>1
<1>7. ASSUME NEW h \in Helpers, Register(h) \/ Notice(h) PROVE RunsPaid'
  <2>1. UNCHANGED <<at, to, crashes, runs>>
    BY <1>7 DEF Register, Notice, callerVars, historyVars
  <2>2. \A i \in Helpers : helper[i] = "up" => helper'[i] = "up"
    BY <1>7, <1>0 DEF Register, Notice
  <2>3. QED BY <1>0, <2>1, <2>2 DEF Placed, InHelper
<1>8. ASSUME NEW h \in Helpers, Quit(h) PROVE RunsPaid'
  <2>1. /\ UNCHANGED <<at, to, crashes, runs>>
        /\ helper' = [helper EXCEPT ![h] = "gone"]
        /\ \A c \in Callers : at[c] = "ran" => to[c] # h
    BY <1>8 DEF Quit, End, Busy, callerVars, historyVars
  <2>2. QED BY <1>0, <2>1 DEF Placed, InHelper
<1>9. ASSUME NEW h \in Helpers, Crash(h) PROVE RunsPaid'
  <2>1. /\ UNCHANGED <<at, to, runs>>
        /\ crashes' = crashes + 1
    BY <1>9 DEF Crash, End, callerVars, historyVars
  <2>2. \A c \in Callers : PaidOrAnswered(c) => PaidUp(c)' /\ PaidOrAnswered(c)'
    BY <1>0, <2>1
  <2>3. QED BY <1>0, <2>1, <2>2
<1>10. QED BY <1>1, <1>2, <1>3, <1>4, <1>5, <1>6, <1>7, <1>8, <1>9, NextCases

LEMMA OnceNext ==
  ASSUME TypeOK, RunsPaid, RunsOnce, Next
  PROVE  RunsOnce'
<1> USE ServerAssumption DEF RunsOnce, RunsPaid, PaidUp, PaidOrAnswered, Answered,
                             TypeOK, Go, helperVars, historyVars,
                             InHelper
<1>1. ASSUME NEW c \in Callers, ClientStep(c) PROVE RunsOnce'
  BY <1>1, ClientFrame
<1>2. ASSUME NEW c \in Callers, Launch(c) \/ Send(c) \/ CallNil(c) \/ Lost(c) PROVE RunsOnce'
  BY <1>2 DEF Launch, Send, CallNil, Lost
<1>3. ASSUME NEW c \in Callers, Ask(c) \/ Begin(c) \/ Raise(c) \/ Reply(c) PROVE RunsOnce'
  BY <1>3 DEF Ask, Begin, Raise, Reply
<1>4. ASSUME NEW c \in Callers, Execute(c) PROVE RunsOnce'
  BY <1>4 DEF Execute
<1>5. ASSUME NEW h \in Helpers, Register(h) \/ Quit(h) \/ Notice(h) PROVE RunsOnce'
  BY <1>5 DEF Register, Notice, Quit, End
<1>6. ASSUME NEW h \in Helpers, Crash(h) PROVE RunsOnce'
  BY <1>6 DEF Crash, End
<1>7. QED BY <1>1, <1>2, <1>3, <1>4, <1>5, <1>6, NextCases

-----------------------------------------------------------------------------
(* The theorems.                                                           *)

LEMMA ServerInit == Init => ServerInv
<1> SUFFICES ASSUME Init PROVE ServerInv
  OBVIOUS
<1>1. TypeOK
  BY TypesInit
<1>2. Placed /\ OneServed /\ OverlapsKnown /\ AloneHasClient /\ RanHasRun
  BY DEF Init, Placed, OneServed, OverlapsKnown, AloneHasClient, RanHasRun, InHelper
<1>3. ClientIsHeld /\ BlocksUnlessShared /\ RunsPaid /\ RunsOnce
  BY DEF Init, ClientIsHeld, BlocksUnlessShared, Returned, RunsPaid, PaidUp, PaidOrAnswered,
     RunsOnce, ServerAssumption
<1>4. QED BY <1>1, <1>2, <1>3 DEF ServerInv

LEMMA ServerNext == ServerInv /\ [Next]_vars => ServerInv'
<1> SUFFICES ASSUME ServerInv, [Next]_vars PROVE ServerInv'
  OBVIOUS
<1>1. CASE Next
  <2>1. TypeOK'
    BY <1>1, ClientTypes, ServeTypes, HelperTypes, NextCases DEF ServerInv, Serve
  <2>2. Placed' /\ OneServed' /\ OverlapsKnown' /\ AloneHasClient' /\ ClientIsHeld'
    BY <1>1, PlacedNext, ServedNext, OverlapNext, AloneNext, HeldNext DEF ServerInv
  <2>3. RanHasRun' /\ BlocksUnlessShared' /\ RunsPaid' /\ RunsOnce'
    BY <1>1, RanNext, BlocksNext, PaidNext, OnceNext DEF ServerInv
  <2>4. QED BY <2>1, <2>2, <2>3 DEF ServerInv
<1>2. CASE UNCHANGED vars
  BY <1>2 DEF vars, clientVars, callerVars, helperVars, historyVars, ServerInv, TypeOK,
     Placed, OneServed, ClientIsHeld, OverlapsKnown, AloneHasClient, RanHasRun, BlocksUnlessShared,
     Returned, RunsPaid, PaidUp, PaidOrAnswered, Answered, RunsOnce
<1>3. QED BY <1>1, <1>2

\* What holds throughout.
THEOREM ServerHolds == Spec => []ServerInv
  BY ServerInit, ServerNext, PTL DEF Spec

\* "This blocks until the script is executed" (FSAppleScriptClient.h:26) is
\* true of a caller that shares the client with no other while it calls.
THEOREM BlocksAlone == Spec => []BlocksUnlessShared
<1>1. ServerInv => BlocksUnlessShared
  BY DEF ServerInv
<1>2. QED BY <1>1, ServerHolds, PTL

\* The loop that calls again whenever a call raises (FSAppleScriptClient.m:68)
\* runs a script at most once more for each helper that crashed, however many
\* helpers quit and however many callers there are.
THEOREM ScriptRunsOnce == Spec => []RunsOnce
<1>1. ServerInv => RunsOnce
  BY DEF ServerInv
<1>2. QED BY <1>1, ServerHolds, PTL

\* The ivar holds a released connection only while some caller is replacing
\* it (FSAppleScriptClient.m:70-71, 75-76).
THEOREM ClientHeld == Spec => []ClientIsHeld
<1>1. ServerInv => ClientIsHeld
  BY DEF ServerInv
<1>2. QED BY <1>1, ServerHolds, PTL

-----------------------------------------------------------------------------
(* The calls that the callers see.                                         *)

\* A step that changes the stage of one caller, or of none.
LEMMA StageMoves ==
  ASSUME NEW c \in Callers, NEW next,
         Stage(c)' = next,
         \A d \in Callers \ {c} : Stage(d)' = Stage(d)
  PROVE  [d \in Callers |-> Stage(d)]' = [[d \in Callers |-> Stage(d)] EXCEPT ![c] = next]
  OBVIOUS

LEMMA StagesStay ==
  ASSUME \A d \in Callers : Stage(d)' = Stage(d)
  PROVE  [d \in Callers |-> Stage(d)]' = [d \in Callers |-> Stage(d)]
  OBVIOUS

\* In the client a call waits, and so it does until its script has run.
LEMMA ClientWaits ==
  ASSUME ServerInv, NEW c \in Callers,
         ClientStep(c) \/ Launch(c) \/ Send(c) \/ Lost(c) \/ Begin(c) \/ Raise(c)
  PROVE  UNCHANGED <<[d \in Callers |-> Stage(d)], runs, shared, crashes>>
<1> USE DEF ServerInv, TypeOK
<1>1. UNCHANGED <<runs, shared, crashes>>
  BY ClientFrame DEF Launch, Send, Lost, Begin, Raise, helperVars, historyVars
<1>2. \A d \in Callers : Stage(d)' = Stage(d)
  <2> USE DEF Stage, Answered, Go, helperVars, callerVars
  <2>1. CASE ClientStep(c)
    <3>1. at[c] \notin {"idle", "ran"}
      BY <2>1 DEF ClientStep, Valid, Invalid, Release, LookUp, Store, Spin, CallRaises
    <3>2. PICK next \in InClient : at' = [at EXCEPT ![c] = next]
      BY <2>1, ClientTypes
    <3>3. UNCHANGED <<to, helper>> /\ next \notin {"idle", "ran"}
      BY <2>1, ClientFrame DEF InClient, InLoop
    <3>4. QED BY <3>1, <3>2, <3>3
  <2>2. CASE Launch(c)
    <3>1. \A h \in Helpers : helper[h] # "off" => helper'[h] = helper[h]
      BY <2>2 DEF Launch
    <3>2. QED BY <2>2, <3>1 DEF Launch, Placed, InHelper
  <2>3. CASE Send(c)
    BY <2>3 DEF Send
  <2>4. CASE Lost(c)
    BY <2>4 DEF Lost, InHelper
  <2>5. CASE Begin(c) \/ Raise(c)
    BY <2>5 DEF Begin, Raise
  <2>6. QED BY <2>1, <2>2, <2>3, <2>4, <2>5
<1>3. QED BY <1>1, <1>2, StagesStay

\* A helper that crashes takes the answer of one caller with it at most.
LEMMA CrashTakesOne ==
  ASSUME ServerInv, NEW h \in Helpers, Crash(h)
  PROVE  Calls!CrashIdle \/ \E c \in Callers : Calls!CrashWith(c)
<1> USE DEF ServerInv, TypeOK
<1> DEFINE Taken(c) == at[c] = "ran" /\ to[c] = h /\ helper[h] = "up"
<1>1. /\ UNCHANGED <<at, to, runs, shared>>
      /\ crashes' = crashes + 1
      /\ helper' = [helper EXCEPT ![h] = "gone"]
  BY DEF Crash, End, callerVars, historyVars
<1>2. \A c \in Callers : IF Taken(c) THEN Stage(c) = "answered" /\ Stage(c)' = "waiting"
                         ELSE Stage(c)' = Stage(c)
  BY <1>1 DEF Stage, Answered, Placed, InHelper
<1>3. ASSUME NEW c \in Callers, Taken(c) PROVE Calls!CrashWith(c)
  <2>1. \A d \in Callers \ {c} : ~Taken(d)
    BY <1>3 DEF OneServed
  <2>2. QED BY <1>1, <1>2, <1>3, <2>1, StageMoves DEF Calls!CrashWith, Calls!Go
<1>4. CASE \A c \in Callers : ~Taken(c)
  BY <1>1, <1>2, <1>4, StagesStay DEF Calls!CrashIdle
<1>5. QED BY <1>3, <1>4

LEMMA CallsStep == ServerInv /\ [Next]_vars => [Calls!Next]_(Calls!vars)
<1> SUFFICES ASSUME ServerInv, [Next]_vars PROVE [Calls!Next]_(Calls!vars)
  OBVIOUS
<1> USE DEF ServerInv, TypeOK
<1>1. ASSUME NEW c \in Callers,
             ClientStep(c) \/ Launch(c) \/ Send(c) \/ Lost(c) \/ Begin(c) \/ Raise(c)
      PROVE  UNCHANGED Calls!vars
  BY <1>1, ClientWaits DEF Calls!vars
<1>2. ASSUME NEW c \in Callers, CallNil(c)
      PROVE  Calls!ReturnNothing(c)
  <2>1. /\ at[c] = "call" /\ at' = [at EXCEPT ![c] = "idle"]
        /\ UNCHANGED <<to, helper, runs, shared, crashes>>
        /\ shared[c]
    BY <1>2 DEF CallNil, Go, AloneHasClient, callerVars, helperVars, historyVars
  <2>2. Stage(c) = "waiting" /\ Stage(c)' = "none"
    BY <2>1 DEF Stage, Answered
  <2>3. \A d \in Callers \ {c} : Stage(d)' = Stage(d)
    BY <2>1 DEF Stage, Answered
  <2>4. QED BY <2>1, <2>2, <2>3, StageMoves DEF Calls!ReturnNothing, Calls!Go
<1>3. ASSUME NEW c \in Callers, Ask(c)
      PROVE  Calls!Call(c)
  <2>1. /\ at[c] = "idle" /\ at' = [at EXCEPT ![c] = "test"]
        /\ UNCHANGED <<to, helper, crashes>>
    BY <1>3 DEF Ask, Go, callerVars, helperVars
  <2>2. Stage(c) = "none" /\ Stage(c)' = "waiting"
    BY <2>1 DEF Stage, Answered
  <2>3. \A d \in Callers \ {c} : Stage(d)' = Stage(d)
    BY <2>1 DEF Stage, Answered
  <2>4. Others(c) = Calls!Others(c)
    BY DEF Others, Calls!Others, Stage
  <2>5. QED BY <1>3, <2>1, <2>2, <2>3, <2>4, StageMoves DEF Calls!Call, Calls!Go, Ask
<1>4. ASSUME NEW c \in Callers, Execute(c)
      PROVE  Calls!RunScript(c)
  <2>1. /\ at[c] = "running" /\ at' = [at EXCEPT ![c] = "ran"]
        /\ UNCHANGED <<to, helper, shared, crashes>>
        /\ helper[to[c]] = "up"
    BY <1>4 DEF Execute, Go, Serving, callerVars, helperVars
  <2>2. Stage(c) = "waiting" /\ Stage(c)' = "answered"
    BY <2>1 DEF Stage, Answered
  <2>3. \A d \in Callers \ {c} : Stage(d)' = Stage(d)
    BY <2>1 DEF Stage, Answered
  <2>4. QED BY <1>4, <2>1, <2>2, <2>3, StageMoves DEF Calls!RunScript, Calls!Go, Execute
<1>5. ASSUME NEW c \in Callers, Reply(c)
      PROVE  Calls!Return(c)
  <2>1. /\ at[c] = "ran" /\ at' = [at EXCEPT ![c] = "idle"]
        /\ to' = [to EXCEPT ![c] = Nil]
        /\ UNCHANGED <<helper, runs, shared, crashes>>
        /\ helper[to[c]] = "up"
    BY <1>5 DEF Reply, Go, Serving, helperVars, historyVars
  <2>2. Stage(c) = "answered" /\ Stage(c)' = "none"
    BY <2>1 DEF Stage, Answered
  <2>3. \A d \in Callers \ {c} : Stage(d)' = Stage(d)
    BY <2>1 DEF Stage, Answered
  <2>4. QED BY <2>1, <2>2, <2>3, StageMoves DEF Calls!Return, Calls!Go
<1>6. ASSUME NEW h \in Helpers, Register(h) \/ Quit(h) \/ Notice(h)
      PROVE  UNCHANGED Calls!vars
  <2>1. UNCHANGED <<at, to, runs, shared, crashes>>
    BY <1>6 DEF Register, Quit, Notice, End, callerVars, historyVars
  <2>2. \A c \in Callers : at[c] = "ran" => helper'[to[c]] = helper[to[c]]
    BY <1>6 DEF Register, Quit, Notice, End, Busy, Placed, InHelper
  <2>3. \A c \in Callers : Stage(c)' = Stage(c)
    BY <2>1, <2>2 DEF Stage, Answered
  <2>4. QED BY <2>1, <2>3, StagesStay DEF Calls!vars
<1>7. CASE UNCHANGED vars
  BY <1>7 DEF vars, Calls!vars, Stage, Answered, clientVars, callerVars, helperVars, historyVars
<1>8. QED BY <1>1, <1>2, <1>3, <1>4, <1>5, <1>6, <1>7, CrashTakesOne, NextCases DEF Calls!Next

LEMMA CallsInit == Init => Calls!Init
  BY DEF Init, Calls!Init, Stage

\* A thread that has a script run sees a call that returns once it has run
\* (FSAppleScriptClient.h:26), repeated only for a crash that took its answer,
\* or with nothing if another call overlapped it, for any callers, any calls
\* and any helpers that quit or crash (FSAppleScriptClient.m:60-100).
THEOREM CallsRefine == Spec => RefinesCalls
<1>1. Init => Calls!Init
  BY CallsInit
<1>2. ServerInv /\ [Next]_vars => [Calls!Next]_(Calls!vars)
  BY CallsStep
<1>3. QED BY <1>1, <1>2, ServerHolds, PTL DEF Spec, RefinesCalls, Calls!Spec
=============================================================================
